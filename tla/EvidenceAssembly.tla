--------------------------- MODULE EvidenceAssembly ---------------------------
(***************************************************************************)
(* How source records become observed transactions (servicetracer's        *)
(* evidence.py): records are checked for identity, grouped by correlation  *)
(* identity, refused when they contradict each other, set aside when the   *)
(* path they show has a gap, and otherwise assembled into attempts.        *)
(*                                                                         *)
(* An evidence file is the SET of records in it: a second copy of a record *)
(* is skipped, the groups are sorted, and nothing but the tie between load *)
(* balancer observations of one instant (LatestProbe) reads the order.     *)
(***************************************************************************)
EXTENDS Naturals, Sequences, FiniteSets

CONSTANTS NStages,        \* length of the service path
          NTransactions,  \* correlation identities, in the order they sort
          NGateways       \* backends, in the order they sort

ASSUME AssemblyAssumption ==
    /\ NStages \in Nat \ {0}
    /\ NTransactions \in Nat
    /\ NGateways \in Nat

Stages == 1..NStages
Transactions == 1..NTransactions
Gateways == 1..NGateways
NoGateway == 0

TerminalStatuses == {"failed", "timeout", "rejected"}
SupportedStageStatuses == TerminalStatuses \cup {"success"}

\* A record after the adapter's field mapping. A status outside the supported
\* ones stands for every record the adapters cannot map.
Records == [id : Transactions \X Stages, txn : Transactions,
            gateway : Gateways \cup {NoGateway}, stage : Stages,
            status : SupportedStageStatuses \cup {"unsupported"}]

EventsOf(E, t) == {e \in E : e.txn = t}

GatewaysSeen(E, t) == {e.gateway : e \in EventsOf(E, t)} \ {NoGateway}

FailedStages(E, t) ==
    {e.stage : e \in {x \in EventsOf(E, t) : x.status \in TerminalStatuses}}

----------------------------------------------------------------------------
(* What makes the analysis refuse the whole set of records. *)

IdentityReused(E) == \E e, f \in E : e.id = f.id /\ e # f

Unmapped(E) == \E e \in E : e.status \notin SupportedStageStatuses

\* Two failed stages of a transaction are evidence after a failure, too: the
\* later one comes after the earlier. A group that names no gateway is set
\* aside before its outcomes are compared.
Contradictory(E, t) ==
    \/ \E g, h \in GatewaysSeen(E, t) : g # h
    \/ /\ GatewaysSeen(E, t) # {}
       /\ \E e, f \in EventsOf(E, t) :
             \/ e.stage = f.stage /\ e.status # f.status
             \/ e.status \in TerminalStatuses /\ f.stage > e.stage

Rejected(E) ==
    \/ IdentityReused(E)
    \/ Unmapped(E)
    \/ \E t \in Transactions : Contradictory(E, t)

----------------------------------------------------------------------------
(* Attempts. *)

\* Plausible bug, off by one: the failed stage is left out.
RequiredPrefixShort(E, t) == {s \in Stages : \A f \in FailedStages(E, t) : s < f}

\* The stages a transaction must show: up to its failure, or all of them.
RequiredPrefix(E, t) == {s \in Stages : \A f \in FailedStages(E, t) : s <= f}

Complete(E, t) ==
    /\ GatewaysSeen(E, t) # {}
    /\ \A s \in RequiredPrefix(E, t) : \E e \in EventsOf(E, t) : e.stage = s

Gateway(E, t) == CHOOSE g \in GatewaysSeen(E, t) : TRUE

StageStatus(E, t, s) ==
    IF s \notin RequiredPrefix(E, t)
    THEN "not_reached"
    ELSE (CHOOSE e \in EventsOf(E, t) : e.stage = s).status

Attempt(E, t) == [txn     |-> t,
                  gateway |-> Gateway(E, t),
                  stages  |-> [s \in Stages |-> StageStatus(E, t, s)]]

Attempts(E) == {Attempt(E, t) : t \in {u \in Transactions : Complete(E, u)}}

----------------------------------------------------------------------------
(* Load-balancer context: observations in the order they were read. *)

Probes == [backend : Gateways, healthy : BOOLEAN, at : Nat]

\* Plausible bug: the observation that arrived last wins.
LatestProbeByArrival(probes, b) ==
    LET of == {i \in DOMAIN probes : probes[i].backend = b}
    IN  probes[CHOOSE i \in of : \A j \in of : j <= i]

\* The sort by time is stable, so that of two observations of one instant the
\* later in the file wins.
LatestProbe(probes, b) ==
    LET of == {i \in DOMAIN probes : probes[i].backend = b}
    IN  probes[CHOOSE i \in of : \A j \in of :
                  \/ probes[j].at < probes[i].at
                  \/ probes[j].at = probes[i].at /\ j <= i]
=============================================================================
