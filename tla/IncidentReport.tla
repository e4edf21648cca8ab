---------------------------- MODULE IncidentReport ----------------------------
(***************************************************************************)
(* What the analysis says of a set of attempts: where the incident is      *)
(* localized (analyzer.py), what containment is advised and how a drain is *)
(* judged (containment.py), and what the technician is handed              *)
(* (demo_report.py). Failure rates are compared by cross-multiplication.   *)
(***************************************************************************)
EXTENDS EvidenceAssembly

NoStage == 0

Failing(a, s) == a.stages[s] \in TerminalStatuses

FirstFailure(a) ==
    IF \E s \in Stages : Failing(a, s)
    THEN CHOOSE s \in Stages : Failing(a, s) /\ \A q \in Stages : Failing(a, q) => s <= q
    ELSE NoStage

Failures(A) == {a \in A : FirstFailure(a) # NoStage}

\* The last stage seen to succeed before the failure.
LastSuccess(a) ==
    LET before == {s \in Stages : s < FirstFailure(a) /\ a.stages[s] = "success"}
    IN  IF before = {} THEN NoStage ELSE CHOOSE s \in before : \A q \in before : q <= s

NotReached(a) == {s \in Stages : s > FirstFailure(a) /\ a.stages[s] = "not_reached"}

Classification(A) ==
    IF Failures(A) = {} THEN "healthy_under_test"
    ELSE IF Failures(A) = A THEN "unavailable"
    ELSE "intermittent_failure"

----------------------------------------------------------------------------
(* Which backend. *)

Observed(A) == {a.gateway : a \in A}

\* Per backend, how many of its attempts failed, and how many there were.
GatewayRates(A) ==
    [g \in Observed(A) |->
        [failed   |-> Cardinality({a \in Failures(A) : a.gateway = g}),
         attempts |-> Cardinality({a \in A : a.gateway = g})]]

FailsMore(rates, g, h) ==
    rates[g].failed * rates[h].attempts > rates[h].failed * rates[g].attempts

\* Plausible bug: the backend with the most traffic is blamed.
SuspectByTraffic(rates) ==
    IF \E g \in DOMAIN rates : rates[g].failed > 0
    THEN CHOOSE g \in DOMAIN rates : \A h \in DOMAIN rates :
            rates[h].attempts <= rates[g].attempts
    ELSE NoGateway

\* The first backend of the highest rate, unless nothing failed.
Suspect(rates) ==
    LET first == CHOOSE g \in DOMAIN rates : \A h \in DOMAIN rates :
                    ~FailsMore(rates, h, g) /\ (h < g => FailsMore(rates, g, h))
    IN  IF \E g \in DOMAIN rates : rates[g].failed > 0 THEN first ELSE NoGateway

\* The first of the others of the lowest rate.
HealthyPeer(rates, suspect) ==
    LET others == DOMAIN rates \ {suspect}
    IN  IF suspect = NoGateway \/ others = {} THEN NoGateway
        ELSE CHOOSE g \in others : \A h \in others :
                ~FailsMore(rates, g, h) /\ (h < g => FailsMore(rates, h, g))

----------------------------------------------------------------------------
(* Which stage. *)

First(A) == CHOOSE a \in A : \A b \in A : a.txn <= b.txn

\* The most frequent first failure of the failures F; of equally frequent ones,
\* the first met.
PrimaryFailedStage(F) ==
    LET failed == {FirstFailure(a) : a \in F}
        At(s) == {a \in F : FirstFailure(a) = s}
    IN  CHOOSE s \in failed : \A q \in failed \ {s} :
           \/ Cardinality(At(s)) > Cardinality(At(q))
           \/ Cardinality(At(s)) = Cardinality(At(q)) /\ First(At(s)).txn < First(At(q)).txn

\* The failure the report tells of.
Representative(F, suspect) ==
    LET primary == PrimaryFailedStage(F)
        typical == {a \in F : a.gateway = suspect /\ FirstFailure(a) = primary}
    IN  First(IF typical # {} THEN typical ELSE F)

Localization(A) ==
    LET F == Failures(A)
        rates == GatewayRates(A)
        suspect == Suspect(rates)
        told == Representative(F, suspect)
    IN  [classification |-> Classification(A),
         suspect        |-> suspect,
         peer           |-> HealthyPeer(rates, suspect),
         rates          |-> rates,
         lastSuccess    |-> IF F = {} THEN NoStage ELSE LastSuccess(told),
         firstFailed    |-> IF F = {} THEN NoStage ELSE FirstFailure(told),
         notReached     |-> IF F = {} THEN {} ELSE NotReached(told)]

----------------------------------------------------------------------------
(* Containment and handoff, from the localization l of the report. *)

ContainmentApplies(l) == l.suspect # NoGateway /\ l.peer # NoGateway

\* Plausible bug: a drain is judged by whether some new attempt succeeded.
DrainVerdictBySuccess(l, C) ==
    IF Failures(C) # C THEN "stabilized_under_containment"
    ELSE IF l.suspect \in Observed(C) THEN "drain_not_effective"
    ELSE "failures_remain_after_drain"

\* How the attempts C, seen after the drain, judge it.
DrainVerdict(l, C) ==
    IF l.suspect \in Observed(C) THEN "drain_not_effective"
    ELSE IF Failures(C) = {} THEN "stabilized_under_containment"
    ELSE "failures_remain_after_drain"

Containment(l, performed, C) ==
    IF ~ContainmentApplies(l) THEN "not_applicable"
    ELSE IF performed THEN DrainVerdict(l, C)
    ELSE "recommended"

HandoffStatus(l) ==
    IF ContainmentApplies(l) THEN "technician_investigation_required"
    ELSE "insufficient_evidence"

\* The probe calls the backend healthy through which transactions fail.
ProbeGap(l, probes) ==
    /\ l.suspect # NoGateway
    /\ \E i \in DOMAIN probes : probes[i].backend = l.suspect
    /\ LatestProbe(probes, l.suspect).healthy

Report(l, performed, C, probes) ==
    [localization |-> l,
     containment  |-> Containment(l, performed, C),
     status       |-> HandoffStatus(l),
     probeGap     |-> ProbeGap(l, probes)]
=============================================================================
