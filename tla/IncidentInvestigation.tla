------------------------ MODULE IncidentInvestigation ------------------------
(***************************************************************************)
(* An investigation as it runs: users' transactions go through the load    *)
(* balancer and leave records behind; collectors deliver these late, out   *)
(* of order, twice or never; the analysis (servicetracer's cli.py) may be  *)
(* run at any moment on what has arrived; the operator may follow its      *)
(* advice and drain the suspect, after which evidence is collected in a    *)
(* spool of its own (servicetracer/README.md, the commands that open it).  *)
(* Instead of waiting for users, the operator may run a live test          *)
(* (azure_demo.py), which makes transactions of its own and writes down    *)
(* what the backends answered.                                             *)
(***************************************************************************)
EXTENDS IncidentReport

CONSTANTS AnonymousStages,  \* stages whose source does not name the gateway
          Stray,            \* records of a misconfigured or confused source
          MaxEvidence,      \* bound on the records of the first spool
          MaxContainment,   \* bound on the records of the second
          LiveAttempts,     \* most transactions one live test makes
          ProbeLogs         \* load-balancer observations a run may find, as they arrived

ASSUME InvestigationAssumption ==
    /\ AnonymousStages \subseteq Stages
    /\ Stray \subseteq Records
    /\ ProbeLogs \subseteq Seq(Probes)

VARIABLES session,      \* [Transactions -> NotStarted, or its gateway and failed stage,
                        \*  and whether a live test made it]
          incident,     \* the records collected before a drain
          containment,  \* the records collected after it
          drained,      \* the backend the operator drained, or NoGateway
          report        \* the report last written, or NoReport

vars == <<session, incident, containment, drained, report>>

NotStarted == [gateway |-> NoGateway, fails |-> NoStage, live |-> FALSE]
NoReport == [status |-> "none"]

Started(t) == session[t] # NotStarted

\* Every record of a live transaction carries the backend that answered it.
GatewayNamed(t, s) ==
    IF ~session[t].live /\ s \in AnonymousStages THEN NoGateway ELSE session[t].gateway

\* What transaction t leaves behind: one record per stage it came to.
RecordOf(t, s) ==
    [id      |-> <<t, s>>,
     txn     |-> t,
     gateway |-> GatewayNamed(t, s),
     stage   |-> s,
     status  |-> IF s = session[t].fails THEN "timeout" ELSE "success"]

StagesRun(t) ==
    {s \in Stages : Started(t) /\ (session[t].fails = NoStage \/ s <= session[t].fails)}

Emitted == UNION {{RecordOf(t, s) : s \in StagesRun(t)} : t \in Transactions}

\* A live transaction leaves nothing but what its test writes down.
Collectable == {r \in Emitted : ~session[r.txn].live}

Init ==
    /\ session = [t \in Transactions |-> NotStarted]
    /\ incident = {}
    /\ containment = {}
    /\ drained = NoGateway
    /\ report = NoReport

----------------------------------------------------------------------------
(* The service. *)

\* Transactions are numbered as they start. A drain need not be effective, so
\* the load balancer may still pick the drained backend.
Connect(t) ==
    /\ ~Started(t)
    /\ \A u \in Transactions : u < t => Started(u)
    /\ \E g \in Gateways, s \in Stages \cup {NoStage} :
          session' = [session EXCEPT ![t] = [gateway |-> g, fails |-> s, live |-> FALSE]]
    /\ UNCHANGED <<incident, containment, drained, report>>

----------------------------------------------------------------------------
(* The live test. *)

LiveSessions == [gateway : Gateways, fails : Stages \cup {NoStage}, live : {TRUE}]

GatewaysOf(flows, T) == {flows[t].gateway : t \in T}

\* collect_transactions: the next transactions, one after another, until every
\* backend was observed or no attempt is left.
IsLiveRun(T, flows) ==
    /\ Cardinality(T) <= LiveAttempts
    /\ \A t \in T : ~Started(t) /\ \A u \in Transactions : u < t => u \in T \/ Started(u)
    /\ \A t \in T : GatewaysOf(flows, {u \in T : u < t}) # Gateways

\* main: nothing is written unless the test observed every backend; then the
\* file is written record by record, and may be left with its first ones.
MayBeWritten(T, flows, records) ==
    \/ records = {}
    \/ /\ GatewaysOf(flows, T) = Gateways
       /\ \A r \in records : r.txn \in T /\ r.stage \in StagesRun(r.txn)'
                                /\ r = RecordOf(r.txn, r.stage)'
       /\ \A r \in records, t \in T : \A s \in StagesRun(t)' :
             t < r.txn \/ (t = r.txn /\ s < r.stage) => RecordOf(t, s)' \in records

\* The test's output is a file of its own: it is run when there is no evidence
\* yet. An answer of no known backend, a timeout or a file that cannot be
\* written ends it early.
LiveTest ==
    /\ \E T \in SUBSET Transactions : \E flows \in [T -> LiveSessions] :
          /\ IsLiveRun(T, flows)
          /\ session' = [t \in Transactions |-> IF t \in T THEN flows[t] ELSE session[t]]
          /\ \E records \in SUBSET (Emitted') :
                /\ MayBeWritten(T, flows, records)
                /\ IF drained = NoGateway
                   THEN /\ incident = {} /\ Cardinality(records) <= MaxEvidence
                        /\ incident' = records /\ UNCHANGED containment
                   ELSE /\ containment = {} /\ Cardinality(records) <= MaxContainment
                        /\ containment' = records /\ UNCHANGED incident
    /\ UNCHANGED <<drained, report>>

----------------------------------------------------------------------------
(* Collection. *)

\* A record arrives. One that arrived before is a duplicate and changes nothing.
Deliver(r) ==
    /\ IF drained = NoGateway
       THEN /\ Cardinality(incident) < MaxEvidence
            /\ incident' = incident \cup {r}
            /\ UNCHANGED containment
       ELSE /\ Cardinality(containment) < MaxContainment
            /\ containment' = containment \cup {r}
            /\ UNCHANGED incident
    /\ UNCHANGED <<session, drained, report>>

----------------------------------------------------------------------------
(* The analysis and what follows from it. *)

\* One run of the command in its technician-handoff view, with the observations
\* of the probes it finds. It writes nothing when the evidence is refused, shows
\* no complete transaction or has no load balancer state, or when containment is
\* to be judged on evidence that is refused or shows no complete transaction.
Analyse(performed) ==
    LET l == Localization(Attempts(incident))
        C == Attempts(containment)
    IN  /\ performed => drained # NoGateway /\ ~Rejected(containment)
        /\ ~Rejected(incident)
        /\ Attempts(incident) # {}
        /\ performed /\ ContainmentApplies(l) => C # {}
        /\ \E probes \in ProbeLogs :
              /\ probes # <<>>
              /\ report' = Report(l, performed, C, probes)
        /\ UNCHANGED <<session, incident, containment, drained>>

\* The operator stops assigning new sessions to the suspect and starts a new
\* spool.
Drain ==
    /\ drained = NoGateway
    /\ report.status = "technician_investigation_required"
    /\ drained' = report.localization.suspect
    /\ UNCHANGED <<session, incident, containment, report>>

Next ==
    \/ \E t \in Transactions : Connect(t)
    \/ LiveTest
    \/ \E r \in Collectable \cup Stray : Deliver(r)
    \/ \E performed \in BOOLEAN : Analyse(performed)
    \/ Drain

Spec == Init /\ [][Next]_vars

----------------------------------------------------------------------------
(* Properties. *)

(* Whatever is collected, live or by collectors, keeps the shape of a record *)
(* the adapters map, and every transaction that of a session.                *)
TypeOK ==
    /\ session \in [Transactions -> [gateway : Gateways \cup {NoGateway},
                                     fails : Stages \cup {NoStage}, live : BOOLEAN]]
    /\ incident \subseteq Records
    /\ containment \subseteq Records

Untainted(E) == E \cap Stray = {}

\* Everything t left behind is in E, and some of it names the gateway.
FullyEvidenced(E, t) ==
    /\ Started(t)
    /\ \A s \in StagesRun(t) : RecordOf(t, s) \in E
    /\ \E s \in StagesRun(t) : GatewayNamed(t, s) # NoGateway

(* "ServiceTracer does not invent successful stages": however evidence is    *)
(* lost, delayed or repeated, an assembled attempt says of its transaction   *)
(* which backend it went through and where it failed, if it did, as it was;  *)
(* and evidence that is not stray is never refused.                          *)
OutcomesAreTrue ==
    \A E \in {incident, containment} :
        /\ \A a \in Attempts(E) :
              Untainted(EventsOf(E, a.txn)) =>
                 /\ a.gateway = session[a.txn].gateway
                 /\ FirstFailure(a) = session[a.txn].fails
        /\ Untainted(E) => ~Rejected(E)

(* The outcome of a transaction is learned once and never revised by what    *)
(* arrives later; contradictions are withheld for good (OutcomeLedger).      *)
LearnedFrom(E) ==
    IF Rejected(E)
    THEN [t \in Transactions |-> <<NoGateway, 1>>]
    ELSE [t \in Transactions |->
             IF Complete(E, t)
             THEN <<Gateway(E, t), FirstFailure(Attempt(E, t))>>
             ELSE <<NoGateway, NoStage>>]

Ledger == INSTANCE OutcomeLedger
          WITH Outcomes <- Gateways \X (Stages \cup {NoStage}),
               Unknown  <- <<NoGateway, NoStage>>,
               Withheld <- <<NoGateway, 1>>,
               outcome  <- LearnedFrom(incident)

NeverRevised == Ledger!Spec

(* No healthy backend is handed over or drained: a transaction failed        *)
(* through the reported suspect, and another backend was observed to serve   *)
(* as its peer, however old the report is by now.                            *)
SuspectReallyFailed ==
    report # NoReport /\ Untainted(incident) =>
        \A g \in {report.localization.suspect, drained} \ {NoGateway} :
            /\ \E t \in Transactions : session[t].gateway = g /\ session[t].fails # NoStage
            /\ drained = g => \E t \in Transactions : Started(t) /\ session[t].gateway # g

(* Whenever the command would call the service stabilized, no transaction    *)
(* of which the second spool has all evidence failed or went through the     *)
(* suspect.                                                                  *)
StabilizedIsEarned ==
    LET l == Localization(Attempts(incident))
        C == Attempts(containment)
    IN  (/\ C # {} /\ ~Rejected(incident) /\ ~Rejected(containment) /\ Untainted(containment)
         /\ Containment(l, TRUE, C) = "stabilized_under_containment")
        => \A t \in Transactions : FullyEvidenced(containment, t) =>
              session[t].fails = NoStage /\ session[t].gateway # l.suspect

(* Whenever the command would report a probe gap, no later observation of    *)
(* the same backend overrules the healthy one, in whatever order they came.  *)
ProbeGapIsCurrent ==
    LET l == Localization(Attempts(incident))
    IN  \A probes \in ProbeLogs : ProbeGap(l, probes) =>
           \E j \in DOMAIN probes :
              /\ probes[j].backend = l.suspect /\ probes[j].healthy
              /\ \A i \in DOMAIN probes :
                    probes[i].backend = l.suspect /\ ~probes[i].healthy
                    => probes[i].at <= probes[j].at
=============================================================================
