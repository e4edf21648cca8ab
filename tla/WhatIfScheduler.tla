---------------------------- MODULE WhatIfScheduler ----------------------------
(***************************************************************************)
(* The cron scheduler of the collector demo API What-If                    *)
(* (infra/scripts/run_collector_demo_api_what_if_cycle.sh): each cycle     *)
(* takes a lock, decides from state.json whether to dispatch the workflow, *)
(* finds the run it caused, waits for it, evaluates its artifact and       *)
(* records the advice.  GitHub, the people who dispatch the same workflow, *)
(* main and the configured commit change underneath it.                    *)
(*                                                                         *)
(* A cycle that stops before the dispatch changes nothing the next cycle   *)
(* reads, so it is not a step.  Commits are numbered in the order in which *)
(* main takes them.                                                        *)
(***************************************************************************)
EXTENDS DemoApiEvidence

CONSTANTS NoState,      \* state.json is missing or empty
          NoArtifact,   \* the run uploaded nothing
          RetryBudget,  \* RETRY_BUDGET
          Worlds,       \* what a run may find in Azure, by a name
          Schemas,      \* the classifier versions main's commits carry
          Foreign,      \* what others dispatch the workflow for
          MaxCommit,    \* bound on the commits main takes
          MaxRuns       \* bound on the workflow runs

Commits == 1..MaxCommit
RunIds == 1..MaxRuns

\* A conclusion the evaluator's command line refuses.
OtherConclusion == "other"

\* "intact": the hashes, run id, commit and request fields that only the
\* artifact verifier checks are as they should be.
Outcome(conclusion, artifact, schema, intact, world) ==
    [conclusion |-> conclusion, artifact |-> artifact, schema |-> schema,
     intact |-> intact, world |-> world]

Unfinished(conclusion) == Outcome(conclusion, NoArtifact, None, FALSE, None)
Running == Unfinished("running")
Cancelled == Unfinished("cancelled")

\* A run that gets as far as its evidence: it may fail all the same after it,
\* and its files may be damaged on their way.
Finished(operation) ==
    UNION {LET files == Files(operation, Worlds[w])
           IN  IF Achieved(operation, files)
               THEN UNION {{Outcome(c, files, s, TRUE, w) : s \in Schemas} \cup
                           {Outcome(c, files, None, FALSE, w)} :
                           c \in {"success", "failure"}}
               ELSE {Outcome("failure", files, None, TRUE, None)} :
           w \in DOMAIN Worlds}

\* A run that ends before, and the quarantined workflow, which uploads nothing.
Broken ==
    {Unfinished("failure"),
     Outcome("failure", NoFiles, None, TRUE, None),
     Outcome("failure", [NoFiles EXCEPT !.request = FALSE], None, TRUE, None),
     Outcome("cancelled", NoFiles, None, TRUE, None),
     Outcome(OtherConclusion, NoFiles, None, TRUE, None)}

Outcomes(operation) == Finished(operation) \cup Broken

ASSUME SchedulerAssumption ==
    /\ RetryBudget \in Nat
    /\ IsFiniteSet(DOMAIN Worlds)
    /\ None \notin Nat
    /\ \A w \in DOMAIN Worlds :
         Worlds[w].usage \in Seq([current : Nat \cup {None}, limit : Nat \cup {None}])
    /\ IsFiniteSet(Schemas)
    /\ Foreign \subseteq Operations
    /\ MaxCommit \in Nat \ {0}
    /\ MaxRuns \in Nat

VARIABLES
    main,        \* the commit of the default branch
    reviewed,    \* REVIEWED_COMMIT in the configuration file
    state,       \* state.json
    runs,        \* the workflow runs on GitHub, oldest first
    pc,          \* where the cycle that holds the lock stands
    cycle,       \* its shell variables
    dispatched,  \* history: [Commits -> runs the scheduler dispatched]
    decided      \* history: commits for which a stop was recorded

vars == <<main, reviewed, state, runs, pc, cycle, dispatched, decided>>

\* by: 0 for a run somebody else dispatched, else which dispatch of ours.
Results == (UNION {Outcomes(o) : o \in Operations}) \cup {Running, Cancelled}

Run == [head : Commits, by : 0..MaxRuns, operation : Operations,
        listed : BOOLEAN, result : Results]

Advices == [next : {"proceed", "fix", "sync_with_reality", "restrategize",
                    "verify", "escalate", "complete"},
            operation : Operations \cup {None},
            gate : Gates \cup {"explicit_human_review", None},
            failure : FailureClasses \cup {"evidence_integrity_failure", None},
            terminal : BOOLEAN]

\* An escalation of the script itself.
LocalEscalation(failure) == Advice("escalate", None, "explicit_human_review", failure)

Cycle == [pin     : Commits,          \* REVIEWED_COMMIT as read at the start
          attempt : Nat,              \* attempt_number
          before  : SUBSET RunIds,    \* preexisting_run_ids
          since   : 0..MaxRuns,       \* the runs older than dispatched_at
          number  : 0..MaxRuns,       \* which dispatch of the scheduler it is
          run     : 0..MaxRuns,       \* run_id
          advice  : Advices]

State == [commit : Commits, attempt : Nat, run : RunIds, advice : Advices,
          number : 0..MaxRuns]

ASSUME NoStateAssumption == NoState \notin State

Steps == {"idle", "snapshot", "dispatch", "discover", "poll", "evaluate", "save"}

TypeOK ==
    /\ main \in Commits
    /\ reviewed \in Commits
    /\ state = NoState \/ state \in State
    /\ runs \in Seq(Run) /\ Len(runs) <= MaxRuns
    /\ pc \in Steps
    /\ cycle \in Cycle
    /\ dispatched \in [Commits -> Nat]
    /\ decided \subseteq Commits

Unstarted == [pin |-> 1, attempt |-> 0, before |-> {}, since |-> 0,
              number |-> 0, run |-> 0, advice |-> LocalEscalation("boundary_reached")]

Init ==
    /\ main = 1
    /\ reviewed = 1
    /\ state = NoState
    /\ runs = <<>>
    /\ pc = "idle"
    /\ cycle = Unstarted
    /\ dispatched = [c \in Commits |-> 0]
    /\ decided = {}

-----------------------------------------------------------------------------
(* The cycle.                                                              *)

\* A recorded state that lets the next cycle dispatch again.
Continues(s) ==
    /\ s.advice.next = "sync_with_reality"
    /\ s.advice.operation = "what-if"
    /\ s.advice.gate = None
    /\ ~s.advice.terminal

\* Mutant: only a terminal state stops the scheduler.
AttemptsUnlessTerminal(commit) ==
    IF state = NoState THEN {1}
    ELSE IF state.advice.terminal THEN {} ELSE {1}

\* The attempt a cycle may make for this commit, if any.
Attempts(commit) ==
    LET attempt == IF state = NoState \/ state.commit # commit THEN 1
                   ELSE IF Continues(state) THEN state.attempt + 1 ELSE 0
    IN  {attempt} \cap 1..(RetryBudget + 1)

\* The lock is free, main is the reviewed commit and the state allows it.
Begin ==
    /\ pc = "idle"
    /\ main = reviewed
    /\ \E attempt \in Attempts(reviewed) :
         cycle' = [Unstarted EXCEPT !.pin = reviewed, !.attempt = attempt]
    /\ pc' = "snapshot"
    /\ UNCHANGED <<main, reviewed, state, runs, dispatched, decided>>

Listed == {i \in DOMAIN runs : runs[i].listed}

Snapshot ==
    /\ pc = "snapshot"
    /\ cycle' = [cycle EXCEPT !.before = Listed, !.since = Len(runs)]
    /\ pc' = "dispatch"
    /\ UNCHANGED <<main, reviewed, state, runs, dispatched, decided>>

OwnRuns == {i \in DOMAIN runs : runs[i].by # 0}

\* gh workflow run --ref main: the run takes the commit main has by now.
Dispatch ==
    /\ pc = "dispatch"
    /\ Len(runs) < MaxRuns
    /\ cycle' = [cycle EXCEPT !.number = Cardinality(OwnRuns) + 1]
    /\ runs' = Append(runs, [head |-> main, by |-> cycle'.number,
                             operation |-> "what-if",
                             listed |-> FALSE, result |-> Running])
    /\ dispatched' = [dispatched EXCEPT ![cycle.pin] = @ + 1]
    /\ pc' = "discover"
    /\ UNCHANGED <<main, reviewed, state, decided>>

\* Mutant: createdAt is not compared.
CandidatesOfAnyAge == Listed \ cycle.before

Candidates == {i \in Listed \ cycle.before : i > cycle.since}

\* Mutant: the head of the run is not compared.
DiscoverAnyHead ==
    /\ pc = "discover"
    /\ Cardinality(Candidates) = 1
    /\ \E i \in Candidates : cycle' = [cycle EXCEPT !.run = i]
    /\ pc' = "poll"
    /\ UNCHANGED <<main, reviewed, state, runs, dispatched, decided>>

\* One new run: it is ours if it executes the reviewed commit.
Discover ==
    /\ pc = "discover"
    /\ Cardinality(Candidates) = 1
    /\ \E i \in Candidates :
         /\ runs[i].head = cycle.pin
         /\ cycle' = [cycle EXCEPT !.run = i]
    /\ pc' = "poll"
    /\ UNCHANGED <<main, reviewed, state, runs, dispatched, decided>>

\* The new run executes another commit: its cancellation is requested, and
\* the cycle ends without a record in state.json.
CancelStale ==
    /\ pc = "discover"
    /\ Cardinality(Candidates) = 1
    /\ \E i \in Candidates :
         /\ runs[i].head # cycle.pin
         /\ \/ runs[i].result = Running
                  /\ runs' = [runs EXCEPT ![i].result = Cancelled]
            \/ UNCHANGED runs
    /\ pc' = "idle"
    /\ cycle' = Unstarted
    /\ UNCHANGED <<main, reviewed, state, dispatched, decided>>

SeeCompleted ==
    /\ pc = "poll"
    /\ runs[cycle.run].result # Running
    /\ pc' = "evaluate"
    /\ UNCHANGED <<main, reviewed, state, runs, cycle, dispatched, decided>>

\* The polling window closes.
GiveUp ==
    /\ pc = "poll"
    /\ runs[cycle.run].result = Running
    /\ cycle' = [cycle EXCEPT !.advice = LocalEscalation("boundary_reached")]
    /\ pc' = "save"
    /\ UNCHANGED <<main, reviewed, state, runs, dispatched, decided>>

\* The What-If schema verify_collector_demo_api_scheduler_artifact.py expects.
VerifiedSchema == "v2"

\* The artifact holds what a read-only What-If of this run leaves, undamaged.
Verified(run) ==
    /\ run.result.intact
    /\ run.operation = "what-if"
    /\ run.result.artifact.request
    /\ Planned(run.result.artifact)
    /\ run.result.schema = VerifiedSchema

\* Only a successful run has its artifact verified.
Verdict(run, attempt) ==
    IF run.result.conclusion = "success" /\ ~Verified(run)
    THEN LocalEscalation("evidence_integrity_failure")
    ELSE Evaluate("what-if", run.result.conclusion, attempt, RetryBudget,
                  run.result.artifact)

\* There is an artifact with a request.json, and a conclusion to evaluate.
Evaluable(result) ==
    /\ result.conclusion \in Conclusions
    /\ result.artifact # NoArtifact
    /\ result.artifact.request

EvaluateRun ==
    /\ pc = "evaluate"
    /\ LET run == runs[cycle.run]
       IN  /\ Evaluable(run.result)
           /\ cycle' = [cycle EXCEPT !.advice = Verdict(run, cycle.attempt)]
    /\ pc' = "save"
    /\ UNCHANGED <<main, reviewed, state, runs, dispatched, decided>>

Save ==
    /\ pc = "save"
    /\ state' = [commit |-> cycle.pin, attempt |-> cycle.attempt,
                 run |-> cycle.run, advice |-> cycle.advice,
                 number |-> cycle.number]
    /\ decided' = decided \cup IF Continues(state') THEN {} ELSE {cycle.pin}
    /\ pc' = "idle"
    /\ cycle' = Unstarted
    /\ UNCHANGED <<main, reviewed, runs, dispatched>>

\* The cycle ends without a record: a gh or jq call fails, no run or several
\* are found, there is nothing to evaluate, or the host goes down; in the
\* middle of the record it leaves an empty file.
Fails ==
    /\ pc # "idle"
    /\ state' = state \/ (pc = "save" /\ state' = NoState)
    /\ pc' = "idle"
    /\ cycle' = Unstarted
    /\ UNCHANGED <<main, reviewed, runs, dispatched, decided>>

Step ==
    \/ Snapshot \/ Dispatch \/ Discover \/ CancelStale
    \/ SeeCompleted \/ GiveUp \/ EvaluateRun \/ Save \/ Fails

-----------------------------------------------------------------------------
(* The environment.                                                        *)

MainMoves ==
    /\ main < MaxCommit
    /\ main' = main + 1
    /\ UNCHANGED <<reviewed, state, runs, pc, cycle, dispatched, decided>>

Reconfigure ==
    /\ reviewed' \in 1..main
    /\ reviewed' # reviewed
    /\ UNCHANGED <<main, state, runs, pc, cycle, dispatched, decided>>

\* Somebody dispatches the workflow from the GitHub page.
ForeignDispatch ==
    /\ Len(runs) < MaxRuns
    /\ \E operation \in Foreign :
         runs' = Append(runs, [head |-> main, by |-> 0, operation |-> operation,
                               listed |-> FALSE, result |-> Running])
    /\ UNCHANGED <<main, reviewed, state, pc, cycle, dispatched, decided>>

RunAppears ==
    /\ \E i \in DOMAIN runs : ~runs[i].listed
                              /\ runs' = [runs EXCEPT ![i].listed = TRUE]
    /\ UNCHANGED <<main, reviewed, state, pc, cycle, dispatched, decided>>

RunCompletes ==
    /\ \E i \in DOMAIN runs :
         /\ runs[i].result = Running
         /\ \E result \in Outcomes(runs[i].operation) :
              runs' = [runs EXCEPT ![i].result = result]
    /\ UNCHANGED <<main, reviewed, state, pc, cycle, dispatched, decided>>

Next ==
    \/ Begin \/ Step
    \/ MainMoves \/ Reconfigure \/ ForeignDispatch \/ RunAppears \/ RunCompletes

Spec == Init /\ [][Next]_vars

-----------------------------------------------------------------------------
(* Properties.                                                             *)

Recorded == state # NoState

\* Once a stop was recorded for a commit the scheduler never dispatches for it
\* again, whatever fails, restarts or is reconfigured later (lines 118-139).
NoDispatchAfterDecision ==
    [][\A c \in Commits : dispatched'[c] > dispatched[c] => c \notin decided]_dispatched

\* The advice recorded for a commit comes from a run of that commit, even when
\* main moves between the check and the dispatch (lines 102-113, 203-215).
DecisionFromReviewedHead ==
    Recorded => runs[state.run].head = state.commit

\* The advice never rests on a run of an earlier, failed cycle (lines 152-200);
\* it may rest on a run that somebody else dispatched meanwhile.
NoLeftoverRun ==
    Recorded => runs[state.run].by \in {0, state.number}

\* What a deployment may rest on: the collector is where it was proven to be, a
\* public address is there or left, and nothing but the API's own resources
\* would change.
SafeToDeploy(w) ==
    /\ w.provisioned /\ w.addresses = <<"proven">>
    /\ w.locks \cap {"ReadOnly"} = {}
    /\ \/ w.public_ip = "observed_existing"
       \/ \E i \in DOMAIN w.usage : w.usage[i].current < w.usage[i].limit
    /\ \A i \in DOMAIN w.answer.changes :
         LET c == w.answer.changes[i]
         IN  c.target \notin Targets => c.change \in {"Ignore", "NoChange"}

\* What a run left is undamaged and tells of a world in which deploying is safe,
\* unless the run failed and nobody looked whether its files are damaged.
Grounded(result) ==
    \/ result.conclusion = "failure" /\ ~result.intact
    \/ /\ result.intact
       /\ \E w \in DOMAIN Worlds : w = result.world /\ SafeToDeploy(Worlds[w])

\* "proceed" is recorded only from undamaged files of a run that saw a world in
\* which the deployment is safe: whoever dispatched the run, whatever it was for
\* and whatever failed in it after the evidence (assess, classify, evaluate and
\* lines 267-330).  The files of a run that failed are not verified.
AdviceIsGrounded ==
    Recorded /\ state.advice.next = "proceed" => Grounded(runs[state.run].result)
=============================================================================
