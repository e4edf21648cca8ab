------------------------- MODULE WhatIfScheduler_proofs -------------------------
(***************************************************************************)
(* What the controller never advises, and what the scheduler's records     *)
(* rest on, for all evidence, budgets, numbers of commits and of runs.     *)
(***************************************************************************)
EXTENDS WhatIfScheduler, FiniteSetTheorems, TLAPS

-----------------------------------------------------------------------------
(* The evaluator.                                                          *)

\* An operation is only ever recommended behind a named human gate.
Gated(advice) == advice.operation # None => advice.gate # None

\* The advice has its type: a message, an operation or none, a gate or none.
LEMMA AdviceType ==
    ASSUME NEW operation \in Operations, NEW conclusion, NEW attempt,
           NEW budget, NEW a
    PROVE  Evaluate(operation, conclusion, attempt, budget, a) \in Advices
<1> DEFINE advice == Evaluate(operation, conclusion, attempt, budget, a)
<1>1. /\ advice.next \in {"proceed", "fix", "sync_with_reality",
                          "restrategize", "verify", "escalate", "complete"}
      /\ advice.operation \in Operations \cup {None}
      /\ advice.gate \in Gates \cup {"explicit_human_review", None}
      /\ advice.failure \in FailureClasses \cup {"evidence_integrity_failure", None}
      /\ advice.terminal \in BOOLEAN
  BY DEF Evaluate, OnBlockers, OnUnverified, OnFailure, Advice, Operations,
         Gates, FailureClasses
<1>2. \E n, o, g, f : advice = Advice(n, o, g, f)
  BY DEF Evaluate, OnBlockers, OnUnverified, OnFailure
<1> QED
  BY <1>1, <1>2 DEF Advice, Advices

\* Every recommended operation waits for a human (explicit_workflow_dispatch,
\* explicit_verify_dispatch or explicit_deploy_authorization).
THEOREM OperationsAreGated ==
    ASSUME NEW operation \in Operations, NEW conclusion \in Conclusions,
           NEW attempt \in Nat, NEW budget \in Nat, NEW a \in Artifacts
    PROVE  Gated(Evaluate(operation, conclusion, attempt, budget, a))
<1>1. None \notin Gates
  BY EvaluatorAssumption
<1> QED
  BY <1>1 DEF Gates, Gated, Evaluate, OnBlockers, OnUnverified, OnFailure, Advice

\* The scheduler's rule for retrying without a human is never met: whatever
\* the evidence, one cycle is all that a commit gets before a human decides.
THEOREM NoAutomaticRetry ==
    ASSUME NEW operation \in Operations, NEW conclusion \in Conclusions,
           NEW attempt \in Nat, NEW budget \in Nat, NEW a \in Artifacts,
           NEW s, s.advice = Evaluate(operation, conclusion, attempt, budget, a)
    PROVE  ~Continues(s)
<1>1. Gated(Evaluate(operation, conclusion, attempt, budget, a))
  BY OperationsAreGated
<1>2. "what-if" # None
  BY EvaluatorAssumption DEF Operations
<1> QED
  BY <1>1, <1>2 DEF Gated, Continues

\* Completion is advised exactly when the verification passed.
THEOREM CompleteIffPassed ==
    ASSUME NEW operation \in Operations, NEW conclusion \in Conclusions,
           NEW attempt \in Nat, NEW budget \in Nat, NEW a \in Artifacts
    PROVE  (Evaluate(operation, conclusion, attempt, budget, a).next = "complete")
               <=> a.verification = "passed"
  BY DEF Evaluate, OnBlockers, OnUnverified, OnFailure, Advice

\* With the budget spent, nothing is fixed, verified or synchronized again.
THEOREM ExhaustedStops ==
    ASSUME NEW operation \in Operations, NEW conclusion \in Conclusions,
           NEW attempt \in Nat, NEW budget \in Nat, NEW a \in Artifacts,
           attempt > budget
    PROVE  Evaluate(operation, conclusion, attempt, budget, a).next
               \notin {"fix", "verify", "sync_with_reality"}
  BY DEF Evaluate, OnBlockers, OnUnverified, OnFailure, Advice, Exhausted

-----------------------------------------------------------------------------
(* Type correctness.                                                       *)

LEMMA LocalAdviceType ==
    /\ LocalEscalation("boundary_reached") \in Advices
    /\ LocalEscalation("evidence_integrity_failure") \in Advices
  BY DEF LocalEscalation, Advice, Advices, FailureClasses

LEMMA VerdictType ==
    ASSUME NEW run, NEW attempt
    PROVE  Verdict(run, attempt) \in Advices
<1>1. "what-if" \in Operations
  BY DEF Operations
<1> QED
  BY <1>1, AdviceType, LocalAdviceType DEF Verdict

\* The scheduler's dispatches are numbered within the bound on the runs.
LEMMA OwnRunsCounted ==
    ASSUME TypeOK
    PROVE  Cardinality(OwnRuns) \in 0..Len(runs)
<1>1. Len(runs) \in Nat /\ DOMAIN runs = 1..Len(runs)
  BY DEF TypeOK
<1>2. IsFiniteSet(1..Len(runs)) /\ Cardinality(1..Len(runs)) = Len(runs)
  <2>1. IsFiniteSet(1..Len(runs))
           /\ Cardinality(1..Len(runs)) = IF 1 > Len(runs) THEN 0 ELSE Len(runs) - 1 + 1
    BY <1>1, FS_Interval
  <2> QED
    BY <1>1, <2>1
<1>3. OwnRuns \subseteq 1..Len(runs)
  BY <1>1 DEF OwnRuns
<1>4. IsFiniteSet(OwnRuns) /\ Cardinality(OwnRuns) <= Cardinality(1..Len(runs))
  BY <1>2, <1>3, FS_Subset
<1>5. Cardinality(OwnRuns) \in Nat
  BY <1>4, FS_CardinalityType
<1> QED
  BY <1>1, <1>2, <1>4, <1>5

LEMMA ResultTypes ==
    /\ Running \in Results /\ Cancelled \in Results /\ Running # Cancelled
    /\ \A o \in Operations : Outcomes(o) \subseteq Results
  BY DEF Results, Running, Cancelled, Unfinished, Outcome

\* A run whose record of one field changes to another value of its type.
LEMMA RunUpdated ==
    ASSUME TypeOK, NEW i \in DOMAIN runs
    PROVE  /\ [runs EXCEPT ![i].listed = TRUE] \in Seq(Run)
           /\ \A o \in Operations : \A result \in Outcomes(o) :
                [runs EXCEPT ![i].result = result] \in Seq(Run)
           /\ [runs EXCEPT ![i].result = Cancelled] \in Seq(Run)
           /\ Len([runs EXCEPT ![i].listed = TRUE]) = Len(runs)
           /\ \A result : Len([runs EXCEPT ![i].result = result]) = Len(runs)
<1>1. runs[i] \in Run /\ runs \in Seq(Run)
  BY DEF TypeOK
<1>2. [runs[i] EXCEPT !.listed = TRUE] \in Run
  BY <1>1 DEF Run
<1>3. \A o \in Operations : \A result \in Outcomes(o) :
          [runs[i] EXCEPT !.result = result] \in Run
  BY <1>1, ResultTypes DEF Run
<1>4. [runs[i] EXCEPT !.result = Cancelled] \in Run
  BY <1>1, ResultTypes DEF Run
<1> QED
  BY <1>1, <1>2, <1>3, <1>4

-----------------------------------------------------------------------------
(* The inductive invariant.                                                *)

\* From its discovery on a cycle has a run of the reviewed commit, its own or
\* somebody else's.
Adopted ==
    pc \in {"poll", "evaluate", "save"} =>
        /\ cycle.run \in DOMAIN runs
        /\ runs[cycle.run].head = cycle.pin
        /\ runs[cycle.run].by \in {0, cycle.number}

\* What is younger than the cycle is its own run, or somebody else's.
YoungRuns ==
    \A i \in DOMAIN runs : i > cycle.since =>
        /\ pc = "dispatch" => runs[i].by = 0
        /\ pc = "discover" => runs[i].by \in {0, cycle.number}

StateRests ==
    Recorded =>
        /\ state.run \in DOMAIN runs
        /\ runs[state.run].head = state.commit
        /\ runs[state.run].by \in {0, state.number}

\* main only moves on, so that a stop is either of an older commit or still on
\* record; and no cycle is under way for a commit that was decided.
Stops ==
    /\ decided \subseteq 1..main
    /\ pc # "idle" => cycle.pin \notin decided /\ cycle.pin <= main
    /\ main \in decided =>
         pc = "idle" /\ Recorded /\ state.commit = main /\ ~Continues(state)

IInv == TypeOK /\ Adopted /\ YoungRuns /\ StateRests /\ Stops

LEMMA InvInit == Init => IInv
<1> SUFFICES ASSUME Init PROVE IInv
  OBVIOUS
<1>1. 1 \in Commits /\ 0 \in 0..MaxRuns /\ MaxRuns \in Nat
  BY SchedulerAssumption DEF Commits
<1>2. Unstarted \in Cycle
  BY <1>1, LocalAdviceType DEF Unstarted, Cycle
<1> QED
  BY <1>1, <1>2 DEF Init, IInv, TypeOK, Steps, Adopted, YoungRuns, StateRests,
                    Recorded, Stops

LEMMA TypedStep == TypeOK /\ Adopted /\ [Next]_vars => TypeOK'
<1> SUFFICES ASSUME TypeOK, Adopted, [Next]_vars PROVE TypeOK'
  OBVIOUS
<1>0. /\ MaxRuns \in Nat /\ MaxCommit \in Nat /\ RetryBudget \in Nat
      /\ Foreign \subseteq Operations /\ "what-if" \in Operations
  BY SchedulerAssumption DEF Operations
<1>1. Unstarted \in Cycle
  BY SchedulerAssumption, LocalAdviceType DEF Unstarted, Cycle, Commits
<1>2. CASE Begin
  <2>1. PICK attempt \in Attempts(reviewed) :
            cycle' = [Unstarted EXCEPT !.pin = reviewed, !.attempt = attempt]
    BY <1>2 DEF Begin
  <2>2. attempt \in Nat
    BY <1>0, <2>1 DEF Attempts
  <2>3. cycle' = [pin |-> reviewed, attempt |-> attempt, before |-> {}, since |-> 0,
                  number |-> 0, run |-> 0, advice |-> Unstarted.advice]
    BY <2>1 DEF Unstarted
  <2>4. cycle' \in Cycle
    BY <1>0, <1>1, <2>2, <2>3 DEF Cycle, TypeOK
  <2> QED
    BY <1>2, <2>4 DEF Begin, TypeOK, Steps
<1>3. CASE Snapshot
  <2>1. Listed \subseteq RunIds /\ Len(runs) \in 0..MaxRuns
    BY <1>0 DEF Listed, RunIds, TypeOK
  <2>2. cycle' \in Cycle
    BY <1>3, <2>1 DEF Snapshot, Cycle, TypeOK
  <2> QED
    BY <1>3, <2>2 DEF Snapshot, TypeOK, Steps
<1>4. CASE Dispatch
  <2>1. Cardinality(OwnRuns) + 1 \in 0..MaxRuns
    BY <1>0, <1>4, OwnRunsCounted DEF Dispatch, TypeOK
  <2>2. cycle' \in Cycle /\ cycle'.number \in 0..MaxRuns
    BY <1>4, <2>1 DEF Dispatch, Cycle, TypeOK
  <2>3. [head |-> main, by |-> cycle'.number, operation |-> "what-if",
         listed |-> FALSE, result |-> Running] \in Run
    BY <1>0, <2>2, ResultTypes DEF Run, TypeOK
  <2>4. runs' \in Seq(Run) /\ Len(runs') <= MaxRuns
    BY <1>0, <1>4, <2>3 DEF Dispatch, TypeOK
  <2>5. dispatched' \in [Commits -> Nat]
    BY <1>4 DEF Dispatch, TypeOK, Cycle
  <2> QED
    BY <1>4, <2>2, <2>4, <2>5 DEF Dispatch, TypeOK, Steps
<1>5. CASE Discover
  <2>1. PICK i \in Candidates : cycle' = [cycle EXCEPT !.run = i]
    BY <1>5 DEF Discover
  <2>2. i \in 0..MaxRuns
    BY <1>0, <2>1 DEF Candidates, Listed, TypeOK
  <2>3. cycle' \in Cycle
    BY <2>1, <2>2 DEF Cycle, TypeOK
  <2> QED
    BY <1>5, <2>3 DEF Discover, TypeOK, Steps
<1>6. CASE CancelStale
  <2>1. runs' \in Seq(Run) /\ Len(runs') = Len(runs)
    <3>1. PICK i \in Candidates :
              runs' = runs \/ runs' = [runs EXCEPT ![i].result = Cancelled]
      BY <1>6 DEF CancelStale
    <3>2. i \in DOMAIN runs
      BY DEF Candidates, Listed
    <3>3. CASE runs' = runs
      BY <3>3 DEF TypeOK
    <3>4. CASE runs' = [runs EXCEPT ![i].result = Cancelled]
      BY <3>2, <3>4, RunUpdated
    <3> QED
      BY <3>1, <3>3, <3>4
  <2> QED
    BY <1>1, <1>6, <2>1 DEF CancelStale, TypeOK, Steps
<1>7. CASE SeeCompleted
  BY <1>7 DEF SeeCompleted, TypeOK, Steps
<1>8. CASE GiveUp
  <2>1. cycle' \in Cycle
    BY <1>8, LocalAdviceType DEF GiveUp, Cycle, TypeOK
  <2> QED
    BY <1>8, <2>1 DEF GiveUp, TypeOK, Steps
<1>9. CASE EvaluateRun
  <2>1. cycle' = [cycle EXCEPT !.advice = Verdict(runs[cycle.run], cycle.attempt)]
    BY <1>9 DEF EvaluateRun
  <2>2. cycle' \in Cycle
    BY <2>1, VerdictType DEF Cycle, TypeOK
  <2> QED
    BY <1>9, <2>2 DEF EvaluateRun, TypeOK, Steps
<1>10. CASE Save
  <2>1. cycle.run \in RunIds
    BY <1>0, <1>10 DEF Save, Adopted, TypeOK, RunIds
  <2>2. state' \in State
    BY <1>10, <2>1 DEF Save, State, TypeOK, Cycle
  <2>3. decided' \subseteq Commits
    BY <1>10 DEF Save, TypeOK, Cycle
  <2> QED
    BY <1>1, <1>10, <2>2, <2>3 DEF Save, TypeOK, Steps
<1>11. CASE Fails
  BY <1>1, <1>11 DEF Fails, TypeOK, Steps
<1>12. CASE MainMoves
  BY <1>0, <1>12 DEF MainMoves, TypeOK, Commits
<1>13. CASE Reconfigure
  BY <1>0, <1>13 DEF Reconfigure, TypeOK, Commits
<1>14. CASE ForeignDispatch
  <2>1. PICK operation \in Foreign :
            runs' = Append(runs, [head |-> main, by |-> 0, operation |-> operation,
                                  listed |-> FALSE, result |-> Running])
    BY <1>14 DEF ForeignDispatch
  <2>2. [head |-> main, by |-> 0, operation |-> operation,
         listed |-> FALSE, result |-> Running] \in Run
    BY <1>0, ResultTypes DEF Run, TypeOK
  <2>3. runs' \in Seq(Run) /\ Len(runs') <= MaxRuns
    BY <1>0, <1>14, <2>1, <2>2 DEF ForeignDispatch, TypeOK
  <2> QED
    BY <1>14, <2>3 DEF ForeignDispatch, TypeOK
<1>15. CASE RunAppears
  <2>1. PICK i \in DOMAIN runs : runs' = [runs EXCEPT ![i].listed = TRUE]
    BY <1>15 DEF RunAppears
  <2>2. runs' \in Seq(Run) /\ Len(runs') = Len(runs)
    BY <2>1, RunUpdated DEF TypeOK
  <2> QED
    BY <1>15, <2>2 DEF RunAppears, TypeOK
<1>16. CASE RunCompletes
  <2>1. PICK i \in DOMAIN runs : \E result \in Outcomes(runs[i].operation) :
                                     runs' = [runs EXCEPT ![i].result = result]
    BY <1>16 DEF RunCompletes
  <2>2. PICK result \in Outcomes(runs[i].operation) :
                 runs' = [runs EXCEPT ![i].result = result]
    BY <2>1
  <2>3. runs[i].operation \in Operations
    <3>1. runs[i] \in Run
      BY DEF TypeOK
    <3> QED
      BY <3>1 DEF Run
  <2>4. runs' \in Seq(Run)
    BY <2>2, <2>3, RunUpdated
  <2>5. Len(runs') = Len(runs)
    BY <2>2, RunUpdated
  <2>6. UNCHANGED <<main, reviewed, state, pc, cycle, dispatched, decided>>
    BY <1>16 DEF RunCompletes
  <2> QED
    BY <2>4, <2>5, <2>6 DEF TypeOK
<1>17. CASE UNCHANGED vars
  BY <1>17 DEF vars, TypeOK
<1> QED
  BY <1>2, <1>3, <1>4, <1>5, <1>6, <1>7, <1>8, <1>9, <1>10, <1>11, <1>12, <1>13,
     <1>14, <1>15, <1>16, <1>17 DEF Next, Step

\* Runs are only added, and no step changes whose they are or what they execute.
RunsKept ==
    \A i \in DOMAIN runs :
        /\ i \in DOMAIN runs'
        /\ runs'[i].head = runs[i].head
        /\ runs'[i].by = runs[i].by
        /\ runs'[i].operation = runs[i].operation

LEMMA RunsStay == TypeOK /\ [Next]_vars => RunsKept
<1> SUFFICES ASSUME TypeOK, [Next]_vars PROVE RunsKept
  OBVIOUS
<1>1. CASE UNCHANGED runs
  BY <1>1 DEF RunsKept
<1>2. CASE \E run : runs' = Append(runs, run)
  BY <1>2 DEF RunsKept, TypeOK
<1>3. CASE \E i \in DOMAIN runs : runs' = [runs EXCEPT ![i].listed = TRUE]
  BY <1>3 DEF RunsKept, TypeOK, Run
<1>4. CASE \E i \in DOMAIN runs : \E result : runs' = [runs EXCEPT ![i].result = result]
  BY <1>4 DEF RunsKept, TypeOK, Run
<1>5. CASE CancelStale
  BY <1>1, <1>4, <1>5 DEF CancelStale, Candidates, Listed
<1>6. CASE RunCompletes
  BY <1>4, <1>6 DEF RunCompletes
<1>7. CASE Dispatch \/ ForeignDispatch
  BY <1>2, <1>7 DEF Dispatch, ForeignDispatch
<1> QED
  BY <1>1, <1>3, <1>5, <1>6, <1>7 DEF Next, Step, Begin, Snapshot, Discover,
     SeeCompleted, GiveUp, EvaluateRun, Save, Fails, MainMoves, Reconfigure,
     RunAppears, vars

LEMMA InvStep == IInv /\ [Next]_vars => IInv'
<1> SUFFICES ASSUME IInv, [Next]_vars PROVE IInv'
  OBVIOUS
<1> USE DEF IInv
<1>1. TypeOK' /\ RunsKept
  BY TypedStep, RunsStay
<1>2. /\ \A i \in DOMAIN runs : runs[i] \in Run
      /\ cycle \in Cycle /\ main \in Nat /\ main > 0 /\ DOMAIN runs = 1..Len(runs)
      /\ Len(runs) \in Nat
  BY DEF TypeOK, Commits
<1>3. Adopted'
  <2>1. CASE Discover
    BY <1>2, <2>1 DEF Discover, Adopted, YoungRuns, Candidates, Listed, TypeOK, Cycle
  <2>2. CASE GiveUp \/ EvaluateRun
    BY <1>1, <2>2 DEF GiveUp, EvaluateRun, Adopted, TypeOK, Cycle
  <2>3. CASE SeeCompleted
    BY <2>3 DEF SeeCompleted, Adopted
  <2>4. CASE Begin \/ Snapshot \/ Dispatch \/ CancelStale \/ Save \/ Fails
    BY <2>4 DEF Begin, Snapshot, Dispatch, CancelStale, Save, Fails, Adopted
  <2>5. CASE UNCHANGED <<pc, cycle>>
    BY <1>1, <2>5 DEF Adopted, RunsKept
  <2> QED
    BY <2>1, <2>2, <2>3, <2>4, <2>5 DEF Next, Step, MainMoves, Reconfigure,
       ForeignDispatch, RunAppears, RunCompletes, vars
<1>4. YoungRuns'
  <2>1. CASE Snapshot
    BY <1>2, <2>1 DEF Snapshot, YoungRuns, TypeOK, Cycle
  <2>2. CASE Dispatch
    <3>1. /\ cycle'.since = cycle.since
          /\ runs' = Append(runs, [head |-> main, by |-> cycle'.number,
                                   operation |-> "what-if",
                                   listed |-> FALSE, result |-> Running])
      BY <1>2, <2>2 DEF Dispatch, Cycle
    <3>2. runs'[Len(runs) + 1].by = cycle'.number
      BY <1>2, <3>1 DEF TypeOK
    <3>3. DOMAIN runs' = DOMAIN runs \cup {Len(runs) + 1}
      BY <1>2, <3>1 DEF TypeOK
    <3> QED
      BY <1>1, <2>2, <3>1, <3>2, <3>3 DEF Dispatch, YoungRuns, RunsKept
  <2>3. CASE ForeignDispatch
    <3>1. PICK operation \in Foreign :
              runs' = Append(runs, [head |-> main, by |-> 0, operation |-> operation,
                                    listed |-> FALSE, result |-> Running])
      BY <2>3 DEF ForeignDispatch
    <3>2. runs'[Len(runs) + 1].by = 0
      BY <1>2, <3>1 DEF TypeOK
    <3>3. DOMAIN runs' = DOMAIN runs \cup {Len(runs) + 1}
      BY <1>2, <3>1 DEF TypeOK
    <3> QED
      BY <1>1, <2>3, <3>2, <3>3 DEF ForeignDispatch, YoungRuns, RunsKept
  <2>4. CASE RunAppears \/ RunCompletes
    <3>1. DOMAIN runs' = DOMAIN runs
      BY <2>4 DEF RunAppears, RunCompletes
    <3> QED
      BY <1>1, <2>4, <3>1 DEF RunAppears, RunCompletes, YoungRuns, RunsKept
  <2>5. CASE UNCHANGED <<runs, pc, cycle>>
    BY <2>5 DEF YoungRuns
  <2>6. CASE pc' \notin {"dispatch", "discover"}
    BY <2>6 DEF YoungRuns
  <2> QED
    BY <2>1, <2>2, <2>3, <2>4, <2>5, <2>6 DEF Next, Step, Begin, Discover,
       CancelStale, SeeCompleted, GiveUp, EvaluateRun, Save, Fails, MainMoves,
       Reconfigure, vars
<1>5. StateRests'
  <2>1. CASE Save
    BY <2>1 DEF Save, Adopted, StateRests, Recorded
  <2>2. CASE Fails
    BY <2>2, <1>1 DEF Fails, StateRests, Recorded, RunsKept
  <2>3. CASE UNCHANGED state
    BY <2>3, <1>1 DEF StateRests, Recorded, RunsKept
  <2> QED
    BY <2>1, <2>2, <2>3 DEF Next, Step, Begin, Snapshot, Dispatch, Discover,
       CancelStale, SeeCompleted, GiveUp, EvaluateRun, MainMoves, Reconfigure,
       ForeignDispatch, RunAppears, RunCompletes, vars
<1>6. Stops'
  <2>1. CASE Begin
    <3>1. PICK attempt \in Attempts(reviewed) :
              cycle' = [Unstarted EXCEPT !.pin = reviewed, !.attempt = attempt]
      BY <2>1 DEF Begin
    <3>2. main \notin decided
      BY <2>1, <3>1 DEF Begin, Attempts, Stops, Recorded
    <3>3. cycle'.pin = main
      BY <2>1, <3>1 DEF Begin, Unstarted
    <3> QED
      BY <1>2, <2>1, <3>2, <3>3 DEF Begin, Stops
  <2>2. CASE Snapshot \/ Dispatch \/ Discover \/ GiveUp \/ EvaluateRun
    <3>1. cycle'.pin = cycle.pin
      BY <1>2, <2>2 DEF Snapshot, Dispatch, Discover, GiveUp, EvaluateRun, Cycle
    <3> QED
      BY <2>2, <3>1 DEF Snapshot, Dispatch, Discover, GiveUp, EvaluateRun, Stops
  <2>3. CASE SeeCompleted \/ Reconfigure \/ ForeignDispatch \/ RunAppears \/ RunCompletes
    BY <2>3 DEF SeeCompleted, Reconfigure, ForeignDispatch, RunAppears, RunCompletes,
       Stops, Recorded
  <2>4. CASE CancelStale
    BY <2>4 DEF CancelStale, Stops
  <2>5. CASE Save
    <3>1. Recorded' /\ state'.commit = cycle.pin
      <4>1. cycle.run \in RunIds
        BY <1>2, <2>5, SchedulerAssumption DEF Save, Adopted, TypeOK, RunIds
      <4>2. state' \in State
        BY <1>2, <2>5, <4>1 DEF Save, State, Cycle
      <4> QED
        BY <2>5, <4>2, NoStateAssumption DEF Save, Recorded
    <3>2. main \notin decided /\ cycle.pin \in 1..main /\ decided \subseteq 1..main
      BY <1>2, <2>5 DEF Save, Stops, Cycle, Commits
    <3>3. pc' = "idle" /\ main' = main
      BY <2>5 DEF Save
    <3>4. CASE Continues(state')
      <4>1. decided' = decided
        BY <2>5, <3>4 DEF Save
      <4> QED
        BY <3>2, <3>3, <4>1 DEF Stops
    <3>5. CASE ~Continues(state')
      <4>1. decided' = decided \cup {cycle.pin}
        BY <2>5, <3>5 DEF Save
      <4> QED
        BY <3>1, <3>2, <3>3, <3>5, <4>1 DEF Stops, Continues
    <3> QED
      BY <3>4, <3>5
  <2>6. CASE Fails
    BY <2>6 DEF Fails, Stops
  <2>7. CASE MainMoves
    <3>1. main' = main + 1 /\ UNCHANGED <<decided, pc, cycle>>
      BY <2>7 DEF MainMoves
    <3>2. decided \subseteq 1..main /\ main + 1 \notin 1..main
      BY <1>2 DEF Stops
    <3>3. decided \subseteq 1..(main + 1)
      BY <1>2, <3>2
    <3>4. pc # "idle" => cycle.pin \notin decided /\ cycle.pin <= main + 1
      BY <1>2 DEF Stops, Cycle, Commits
    <3> QED
      BY <3>1, <3>2, <3>3, <3>4 DEF Stops
  <2>8. CASE UNCHANGED vars
    BY <2>8 DEF vars, Stops, Recorded
  <2> QED
    BY <2>1, <2>2, <2>3, <2>4, <2>5, <2>6, <2>7, <2>8 DEF Next, Step
<1> QED
  BY <1>1, <1>3, <1>4, <1>5, <1>6

-----------------------------------------------------------------------------
(* The theorems.                                                           *)

THEOREM InvariantHolds == Spec => []IInv
<1> QED
  BY InvInit, InvStep, PTL DEF Spec

\* Every variable keeps its type, for every budget and every classifier.
THEOREM TypeCorrect == Spec => []TypeOK
<1>1. IInv => TypeOK
  BY DEF IInv
<1> QED
  BY <1>1, InvariantHolds, PTL

\* A recorded advice comes from a run of the commit it is recorded for.
THEOREM DecisionsAreOfTheReviewedHead == Spec => []DecisionFromReviewedHead
<1>1. IInv => DecisionFromReviewedHead
  BY DEF IInv, StateRests, DecisionFromReviewedHead
<1> QED
  BY <1>1, InvariantHolds, PTL

\* It never comes from a run that an earlier cycle of the scheduler left.
THEOREM LeftoversAreIgnored == Spec => []NoLeftoverRun
<1>1. IInv => NoLeftoverRun
  BY DEF IInv, StateRests, NoLeftoverRun
<1> QED
  BY <1>1, InvariantHolds, PTL

\* A commit for which a stop was recorded is never dispatched again, although
\* the record itself may be overwritten or lost.
THEOREM DecidedIsFinal == Spec => NoDispatchAfterDecision
<1>1. IInv /\ [Next]_vars
        => [\A c \in Commits : dispatched'[c] > dispatched[c] => c \notin decided]_dispatched
  <2> SUFFICES ASSUME IInv, [Next]_vars, dispatched' # dispatched,
                      NEW c \in Commits, dispatched'[c] > dispatched[c]
               PROVE  c \notin decided
    OBVIOUS
  <2>1. Dispatch
    BY DEF Next, Step, Begin, Snapshot, Discover, CancelStale, SeeCompleted, GiveUp,
       EvaluateRun, Save, Fails, MainMoves, Reconfigure, ForeignDispatch,
       RunAppears, RunCompletes, vars
  <2>2. dispatched[c] \in Nat /\ dispatched \in [Commits -> Nat]
    BY DEF IInv, TypeOK
  <2>3. c = cycle.pin
    BY <2>1, <2>2 DEF Dispatch
  <2> QED
    BY <2>1, <2>3 DEF Dispatch, IInv, Stops
<1> QED
  BY <1>1, InvariantHolds, PTL DEF Spec, NoDispatchAfterDecision
-----------------------------------------------------------------------------
(* What "proceed" rests on.                                                *)

\* An accepted plan in a world without blockers is safe to deploy.
LEMMA AcceptedIsSafe ==
    ASSUME NEW w, w.usage \in Seq([current : Nat \cup {None}, limit : Nat \cup {None}]),
           ReadinessBlockers(w) = {}, Classified(w.answer)
    PROVE  SafeToDeploy(w)
<1>1. MachineBlockers(w) = {} /\ ScopeBlockers(w) = {} /\ QuotaBlockers(w) = {}
  BY DEF ReadinessBlockers
<1>2. w.provisioned
  <2> SUFFICES ASSUME ~w.provisioned PROVE FALSE
    OBVIOUS
  <2>1. "collector_vm_not_succeeded" \in MachineBlockers(w)
    BY DEF MachineBlockers
  <2> QED
    BY <1>1, <2>1
<1>3. w.addresses = <<"proven">>
  <2> SUFFICES ASSUME w.addresses # <<"proven">> PROVE FALSE
    OBVIOUS
  <2>1. "collector_private_ip_drift" \in MachineBlockers(w)
    BY DEF MachineBlockers
  <2> QED
    BY <1>1, <2>1
<1>4. w.locks \cap {"ReadOnly"} = {}
  <2> SUFFICES ASSUME "ReadOnly" \in w.locks PROVE FALSE
    OBVIOUS
  <2>1. "resource_group_read_only_lock_present" \in ScopeBlockers(w)
    BY DEF ScopeBlockers
  <2> QED
    BY <1>1, <2>1
<1>5. CASE w.public_ip # "observed_existing"
  <2>1. /\ Len(w.usage) = 1 /\ ValidQuota(w.usage[1]) /\ Sufficient(w.usage[1])
    BY <1>1, <1>5 DEF QuotaBlockers, Observable
  <2>2. 1 \in DOMAIN w.usage
           /\ w.usage[1] \in [current : Nat \cup {None}, limit : Nat \cup {None}]
    <3> DEFINE Quota == [current : Nat \cup {None}, limit : Nat \cup {None}]
               usage == w.usage
    <3>1. usage \in Seq(Quota) /\ Len(usage) = 1
      BY <2>1
    <3> HIDE DEF Quota, usage
    <3>2. 1 \in DOMAIN usage /\ usage[1] \in Quota
      BY <3>1
    <3> QED
      BY <3>2 DEF Quota, usage
  <2>3. w.usage[1].current \in Nat /\ w.usage[1].limit \in Nat
    BY <2>1, <2>2 DEF ValidQuota
  <2>4. w.usage[1].current < w.usage[1].limit
    BY <2>1, <2>3 DEF Sufficient
  <2> QED
    BY <1>2, <1>3, <1>4, <2>2, <2>4 DEF SafeToDeploy, Classified, OthersUntouched, Passive
<1> QED
  BY <1>2, <1>3, <1>4, <1>5 DEF SafeToDeploy, Classified, OthersUntouched, Passive

\* The classifier's acceptance is found in files of a what-if or a deployment.
LEMMA AcceptedFiles ==
    ASSUME NEW o \in Operations, NEW w, Files(o, w).what_if = "accepted"
    PROVE  /\ ReadinessBlockers(w) = {} /\ Classified(w.answer)
           /\ o = "what-if" => Planned(Files(o, w))
           /\ o = "deploy" => Files(o, w).deployment
           /\ o # "verify"
<1>1. VerifyFiles(w).what_if = "absent"
  BY DEF VerifyFiles, NoFiles
<1>2. DeployFiles(w).what_if = WhatIfFiles(w).what_if
  BY DEF DeployFiles, WhatIfFiles, NoFiles
<1>3. o # "verify" /\ o \in {"what-if", "deploy"}
  BY <1>1 DEF Files, Operations
<1>4. WhatIfFiles(w).what_if = "accepted"
  BY <1>2, <1>3 DEF Files
<1>5. ReadinessBlockers(w) = {} /\ Classified(w.answer)
  BY <1>4 DEF WhatIfFiles, NoFiles
<1>6. WhatIfFiles(w).readiness = {}
  BY <1>5 DEF WhatIfFiles, NoFiles, Classes
<1>7. Planned(WhatIfFiles(w))
  BY <1>4, <1>6 DEF Planned
<1>8. DeployFiles(w).deployment
  BY <1>7 DEF DeployFiles, WhatIfFiles, NoFiles
<1> QED
  BY <1>3, <1>5, <1>7, <1>8 DEF Files

\* What a run may have ended with.
Ends(run) == run.result \in Outcomes(run.operation) \cup {Running, Cancelled}

LEMMA ProceedIsGrounded ==
    ASSUME NEW run, run.operation \in Operations, Ends(run), NEW attempt,
           Evaluable(run.result), Verdict(run, attempt).next = "proceed"
    PROVE  Grounded(run.result)
<1> DEFINE result == run.result
           a == result.artifact
<1>1. /\ a.what_if = "accepted" /\ a.verification # "passed"
      /\ ~(a.deployment /\ a.verification = "absent")
      /\ result.conclusion = "success" => Verified(run)
  BY DEF Verdict, LocalEscalation, Evaluate, OnBlockers, OnUnverified, OnFailure, Advice
<1>2. result \notin Broken \cup {Running, Cancelled}
  BY <1>1 DEF Evaluable, Broken, Running, Cancelled, Unfinished, Outcome, NoFiles
<1>3. result \in Finished(run.operation)
  BY <1>2 DEF Ends, Outcomes
<1> DEFINE files(w) == Files(run.operation, Worlds[w])
           good(c, w) == {Outcome(c, files(w), s, TRUE, w) : s \in Schemas}
                            \cup {Outcome(c, files(w), None, FALSE, w)}
           left(w) == IF Achieved(run.operation, files(w))
                      THEN UNION {good(c, w) : c \in {"success", "failure"}}
                      ELSE {Outcome("failure", files(w), None, TRUE, None)}
<1>4. PICK w \in DOMAIN Worlds : result \in left(w)
  <2>1. Finished(run.operation) = UNION {left(w) : w \in DOMAIN Worlds}
    BY DEF Finished
  <2> HIDE DEF left
  <2> QED
    BY <1>3, <2>1
<1>5. a = files(w)
  <2>1. CASE Achieved(run.operation, files(w))
    <3>1. PICK c \in {"success", "failure"} : result \in good(c, w)
      BY <1>4, <2>1
    <3> QED
      BY <3>1 DEF Outcome
  <2> QED
    BY <1>4, <2>1 DEF Outcome
<1>6. /\ ReadinessBlockers(Worlds[w]) = {} /\ Classified(Worlds[w].answer)
      /\ run.operation = "what-if" => Planned(a)
      /\ run.operation = "deploy" => a.deployment
      /\ run.operation # "verify"
  BY <1>1, <1>5, AcceptedFiles
<1>7. Achieved(run.operation, a)
  BY <1>1, <1>6 DEF Achieved, Operations
<1>8. SafeToDeploy(Worlds[w])
  BY <1>6, AcceptedIsSafe, SchedulerAssumption
<1>9. PICK c \in {"success", "failure"} :
        \/ \E s \in Schemas : result = Outcome(c, a, s, TRUE, w)
        \/ result = Outcome(c, a, None, FALSE, w)
  <2>1. PICK c \in {"success", "failure"} : result \in good(c, w)
    BY <1>4, <1>5, <1>7
  <2> QED
    BY <1>5, <2>1
<1>10. CASE \E s \in Schemas : result = Outcome(c, a, s, TRUE, w)
  BY <1>8, <1>10 DEF Outcome, Grounded
<1>11. CASE result = Outcome(c, a, None, FALSE, w)
  BY <1>1, <1>11 DEF Outcome, Grounded, Verified
<1> QED
  BY <1>9, <1>10, <1>11

\* A run that ended has ended for good, and so has what its advice rests on.
GroundedInv ==
    /\ \A i \in DOMAIN runs : Ends(runs[i])
    /\ pc = "save" /\ cycle.advice.next = "proceed" => Grounded(runs[cycle.run].result)
    /\ AdviceIsGrounded

LEMMA GroundedInit == Init => GroundedInv
  BY DEF Init, GroundedInv, AdviceIsGrounded, Recorded, Unstarted

\* Whatever ended stays as it is, and what was grounded had ended.
LEMMA ResultsStay ==
    IInv /\ [Next]_vars =>
        \A i \in DOMAIN runs : Grounded(runs[i].result) => runs'[i].result = runs[i].result
<1> SUFFICES ASSUME IInv, [Next]_vars, NEW i \in DOMAIN runs, Grounded(runs[i].result)
             PROVE  runs'[i].result = runs[i].result
  OBVIOUS
<1>1. runs \in Seq(Run) /\ \A j \in DOMAIN runs : runs[j] \in Run
  BY DEF IInv, TypeOK
<1>2. runs[i].result # Running
  BY DEF Grounded, Running, Unfinished, Outcome
<1>3. CASE UNCHANGED runs
  BY <1>3
<1>4. CASE Dispatch \/ ForeignDispatch
  <2>1. PICK run : runs' = Append(runs, run)
    BY <1>4 DEF Dispatch, ForeignDispatch
  <2> QED
    BY <1>1, <2>1
<1>5. CASE RunAppears
  BY <1>1, <1>5 DEF RunAppears, Run
<1>6. CASE CancelStale
  BY <1>1, <1>2, <1>6 DEF CancelStale, Run, Candidates, Listed
<1>7. CASE RunCompletes
  BY <1>1, <1>2, <1>7 DEF RunCompletes, Run
<1> QED
  BY <1>3, <1>4, <1>5, <1>6, <1>7 DEF Next, Step, Begin, Snapshot, Discover,
     SeeCompleted, GiveUp, EvaluateRun, Save, Fails, MainMoves, Reconfigure, vars

LEMMA EndsStep ==
    IInv /\ (\A i \in DOMAIN runs : Ends(runs[i])) /\ [Next]_vars
        => (\A i \in DOMAIN runs : Ends(runs[i]))'
<1> SUFFICES ASSUME IInv, \A i \in DOMAIN runs : Ends(runs[i]), [Next]_vars,
                    NEW i \in DOMAIN runs'
             PROVE  Ends(runs'[i])
  BY DEF Ends
<1>1. runs \in Seq(Run) /\ \A j \in DOMAIN runs : runs[j] \in Run
  BY DEF IInv, TypeOK
<1>2. CASE UNCHANGED runs
  BY <1>2
<1>3. CASE Dispatch \/ ForeignDispatch
  <2> DEFINE new(by, operation) == [head |-> main, by |-> by, operation |-> operation,
                                   listed |-> FALSE, result |-> Running]
  <2>0. \E by, operation : runs' = Append(runs, new(by, operation))
    BY <1>3 DEF Dispatch, ForeignDispatch
  <2>1. PICK run : runs' = Append(runs, run) /\ run.result = Running
    <3>1. PICK by, operation : runs' = Append(runs, new(by, operation))
      BY <2>0
    <3>2. new(by, operation).result = Running
      OBVIOUS
    <3> QED
      BY <3>1, <3>2
  <2>2. CASE i \in DOMAIN runs
    <3>1. runs'[i] = runs[i]
      BY <1>1, <2>1, <2>2
    <3> QED
      BY <2>2, <3>1
  <2>3. CASE i \notin DOMAIN runs
    <3>1. runs'[i] = run
      BY <1>1, <2>1, <2>3
    <3> QED
      BY <2>1, <3>1 DEF Ends
  <2> QED
    BY <2>2, <2>3
<1>4. CASE RunAppears
  BY <1>1, <1>4 DEF RunAppears, Run, Ends
<1>5. CASE CancelStale
  BY <1>1, <1>5 DEF CancelStale, Run, Candidates, Listed, Ends
<1>6. CASE RunCompletes
  BY <1>1, <1>6 DEF RunCompletes, Run, Ends
<1> QED
  BY <1>2, <1>3, <1>4, <1>5, <1>6 DEF Next, Step, Begin, Snapshot, Discover,
     SeeCompleted, GiveUp, EvaluateRun, Save, Fails, MainMoves, Reconfigure, vars

LEMMA GroundedStep == IInv /\ GroundedInv /\ [Next]_vars => GroundedInv'
<1> SUFFICES ASSUME IInv, GroundedInv, [Next]_vars PROVE GroundedInv'
  OBVIOUS
<1>1. (\A i \in DOMAIN runs : Ends(runs[i]))'
  BY EndsStep DEF GroundedInv
<1>2. \A i \in DOMAIN runs : Grounded(runs[i].result) => Grounded(runs'[i].result)
  BY ResultsStay
<1>3. (pc = "save" /\ cycle.advice.next = "proceed" => Grounded(runs[cycle.run].result))'
  <2>1. CASE EvaluateRun
    <3>1. cycle'.advice = Verdict(runs[cycle.run], cycle.attempt) /\ cycle'.run = cycle.run
      BY <2>1 DEF EvaluateRun, IInv, TypeOK, Cycle
    <3>2. cycle.run \in DOMAIN runs /\ Evaluable(runs[cycle.run].result)
      BY <2>1 DEF EvaluateRun, IInv, Adopted
    <3>3. Ends(runs[cycle.run]) /\ runs[cycle.run].operation \in Operations
      <4>1. runs[cycle.run] \in Run
        BY <3>2 DEF IInv, TypeOK
      <4> QED
        BY <3>2, <4>1 DEF GroundedInv, Run
    <3>4. cycle'.advice.next = "proceed" => Grounded(runs[cycle.run].result)
      BY <3>1, <3>2, <3>3, ProceedIsGrounded
    <3> QED
      BY <2>1, <3>1, <3>4 DEF EvaluateRun
  <2>2. CASE GiveUp
    BY <2>2 DEF GiveUp, LocalEscalation, Advice, IInv, TypeOK, Cycle
  <2>3. CASE UNCHANGED <<pc, cycle>>
    BY <1>2, <2>3 DEF GroundedInv, IInv, Adopted
  <2>4. CASE pc' # "save"
    BY <2>4
  <2> QED
    BY <2>1, <2>2, <2>3, <2>4 DEF Next, Step, Begin, Snapshot, Dispatch, Discover,
       CancelStale, SeeCompleted, Save, Fails, MainMoves, Reconfigure,
       ForeignDispatch, RunAppears, RunCompletes, vars
<1>4. AdviceIsGrounded'
  <2>1. CASE Save
    BY <2>1 DEF Save, GroundedInv, AdviceIsGrounded, Recorded
  <2>2. CASE Fails
    BY <2>2 DEF Fails, GroundedInv, AdviceIsGrounded, Recorded
  <2>3. CASE UNCHANGED state
    BY <1>2, <2>3 DEF GroundedInv, AdviceIsGrounded, Recorded, IInv, StateRests
  <2> QED
    BY <2>1, <2>2, <2>3 DEF Next, Step, Begin, Snapshot, Dispatch, Discover,
       CancelStale, SeeCompleted, GiveUp, EvaluateRun, MainMoves, Reconfigure,
       ForeignDispatch, RunAppears, RunCompletes, vars
<1> QED
  BY <1>1, <1>3, <1>4 DEF GroundedInv

\* "proceed" is only recorded of undamaged files that tell of a world in which
\* deploying is safe, or of a failed run whose files nobody verified, for every
\* set of worlds a run may find and every classifier.
THEOREM ProceedRestsOnSafety == Spec => []AdviceIsGrounded
<1>1. GroundedInv => AdviceIsGrounded
  BY DEF GroundedInv
<1> QED
  BY <1>1, InvariantHolds, GroundedInit, GroundedStep, PTL DEF Spec
=============================================================================
