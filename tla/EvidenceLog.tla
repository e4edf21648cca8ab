------------------------------ MODULE EvidenceLog ------------------------------
(***************************************************************************)
(* What the evidence spool promises (servicetracer/collectors/README.md,   *)
(* "Evidence handling"): a write-once map from evidence identity to        *)
(* content, and receipts that are only given for what is stored and that   *)
(* are never broken afterwards.                                            *)
(***************************************************************************)
CONSTANTS Ids, Bodies, NoBody

VARIABLES stored,    \* [Ids -> content, or NoBody]
          promised   \* the records receipts vouch for

Kept == {[id |-> i, body |-> stored[i]] : i \in {j \in Ids : stored[j] # NoBody}}

Init ==
    /\ stored = [i \in Ids |-> NoBody]
    /\ promised = {}

Store(i, b) ==
    /\ stored[i] = NoBody
    /\ stored' = [stored EXCEPT ![i] = b]
    /\ UNCHANGED promised

\* A crash may lose records that no receipt vouches for.
Lose(lost) ==
    /\ \A r \in promised : r.id \notin lost
    /\ stored' = [i \in Ids |-> IF i \in lost THEN NoBody ELSE stored[i]]
    /\ UNCHANGED promised

Promise(records) ==
    /\ records \subseteq Kept
    /\ promised' = promised \cup records
    /\ UNCHANGED stored

Next ==
    \/ \E i \in Ids, b \in Bodies : Store(i, b)
    \/ \E lost \in SUBSET Ids : Lose(lost)
    \/ \E records \in SUBSET Kept : Promise(records)

Spec == Init /\ [][Next]_<<stored, promised>>
=============================================================================
