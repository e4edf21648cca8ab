----------------------- MODULE MCIncidentInvestigation -----------------------
(* Stray records for TLC: one that contradicts the first transaction's outcome  *)
(* or reuses the identity of a record of the third, and one that no adapter     *)
(* maps.                                                                        *)
EXTENDS IncidentInvestigation

StrayRecords ==
    {[id |-> <<3, 2>>, txn |-> 1, gateway |-> NoGateway, stage |-> 2, status |-> "rejected"],
     [id |-> <<2, 2>>, txn |-> 2, gateway |-> 1, stage |-> 1, status |-> "unsupported"]}

\* The second backend's probe as observed at two instants, in either order of
\* arrival, or twice at one instant; or no observation.
Probe(h, at) == [backend |-> 2, healthy |-> h, at |-> at]
ProbesSeen ==
    {<<>>, <<Probe(FALSE, 2), Probe(TRUE, 1)>>, <<Probe(FALSE, 1), Probe(TRUE, 1)>>}
=============================================================================
