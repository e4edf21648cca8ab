-------------------------- MODULE GovernedPersistence --------------------------
(***************************************************************************)
(* The state document of the governed persistence loop and the typed       *)
(* control messages applied to it (infra/scripts/governed_persistence.py,  *)
(* new_state and apply_control_message; one "transition" command each).    *)
(*                                                                         *)
(* A message is applied with an observation.  A message that is refused    *)
(* raises before anything is written, so refusals are not steps.           *)
(***************************************************************************)
EXTENDS Naturals, Sequences, FiniteSets

CONSTANTS Budgets,      \* retry budgets a document may be created with
          Watermarks,   \* reality watermarks, other than the empty one
          Strategies,   \* strategies
          None,         \* nothing: no message, class, watermark, strategy
          MaxMessages   \* bound on the messages applied to one document

Messages == {"proceed", "fix", "sync_with_reality", "restrategize", "verify",
             "rollback", "escalate", "complete"}
TerminalPhases == {"completed", "escalated"}
Phases == {"planned", "awaiting_human", "blocked", "acting", "synchronizing",
           "verifying", "rolling_back"} \cup TerminalPhases

\* What apply_control_message tells apart; every other class is "other".
FailureClasses == {"recoverable_failure", "strategy_failure", "other"}

ASSUME PersistenceAssumption ==
    /\ Budgets \subseteq Nat
    /\ None \notin Watermarks
    /\ None \notin Strategies
    /\ None \notin FailureClasses \cup Messages
    /\ MaxMessages \in Nat

Observations == [failure   : FailureClasses \cup {None},
                 verified  : BOOLEAN,
                 watermark : Watermarks \cup {None},
                 strategy  : Strategies \cup {None}]

Entries == [message : Messages, before : Phases, after : Phases, attempt : Nat]

Documents == [phase     : Phases,
              attempt   : Nat,
              budget    : Budgets,
              strategy  : Strategies,
              revision  : Nat,
              watermark : Watermarks \cup {None},
              verified  : BOOLEAN,   \* success_criteria_verified
              granted   : BOOLEAN,   \* rollback_authorized
              failure   : FailureClasses \cup {None},
              next      : Messages \cup {None},
              history   : Seq(Entries)]

VARIABLES doc,
          proof  \* history: "none", or how the last successful test stands:
                 \* "current", "outdated" once the system was acted upon

vars == <<doc, proof>>

TypeOK ==
    /\ doc \in Documents
    /\ proof \in {"none", "current", "outdated"}

Init ==
    /\ doc \in [phase : {"planned"}, attempt : {0}, budget : Budgets,
                strategy : Strategies, revision : {0}, watermark : {None},
                verified : {FALSE}, granted : {FALSE}, failure : {None},
                next : {"proceed"}, history : {<<>>}]
    /\ proof = "none"

\* The document still takes messages.
Open == doc.phase \notin TerminalPhases /\ Len(doc.history) < MaxMessages

\* What every accepted message records besides its own changes.
Record(message, o, changed, next) ==
    [changed EXCEPT
        !.failure = o.failure,
        !.next = next,
        !.history = Append(@, [message |-> message,
                               before |-> doc.phase,
                               after |-> changed.phase,
                               attempt |-> changed.attempt])]

\* The system is acted upon: what was tested before no longer speaks for it.
Outdate == proof' = IF proof = "none" THEN "none" ELSE "outdated"

-----------------------------------------------------------------------------
CanProceed == doc.phase \in {"planned", "awaiting_human", "blocked"}

\* Mutant: a plan may be executed again from any phase.
ProceedAgain(o) ==
    /\ Open
    /\ doc' = Record("proceed", o,
                     [doc EXCEPT !.phase = "acting", !.attempt = @ + 1], "verify")
    /\ Outdate

Proceed(o) ==
    /\ Open
    /\ CanProceed
    /\ doc' = Record("proceed", o,
                     [doc EXCEPT !.phase = "acting", !.attempt = @ + 1], "verify")
    /\ Outdate

CanFix(o) ==
    /\ o.failure = "recoverable_failure"
    /\ doc.attempt < doc.budget + 1

\* Mutant: the attempt is not counted.
FixUncounted(o) ==
    /\ Open
    /\ CanFix(o)
    /\ doc' = Record("fix", o, [doc EXCEPT !.phase = "acting"], "verify")
    /\ Outdate

Fix(o) ==
    /\ Open
    /\ CanFix(o)
    /\ doc' = Record("fix", o,
                     [doc EXCEPT !.phase = "acting", !.attempt = @ + 1], "verify")
    /\ Outdate

SyncWithReality(o) ==
    /\ Open
    /\ o.watermark # None
    /\ doc' = Record("sync_with_reality", o,
                     [doc EXCEPT !.phase = "synchronizing",
                                 !.watermark = o.watermark],
                     IF o.failure = "strategy_failure"
                     THEN "restrategize" ELSE "verify")
    /\ UNCHANGED proof

Restrategize(o) ==
    /\ Open
    /\ o.strategy # None
    /\ doc' = Record("restrategize", o,
                     [doc EXCEPT !.phase = "planned", !.strategy = o.strategy,
                                 !.revision = @ + 1],
                     "proceed")
    /\ UNCHANGED proof

Verify(o) ==
    /\ Open
    /\ doc' = Record("verify", o,
                     [doc EXCEPT !.phase = "verifying", !.verified = o.verified],
                     IF o.verified THEN "complete" ELSE "fix")
    /\ proof' = IF o.verified THEN "current" ELSE "none"

Rollback(o) ==
    /\ Open
    /\ doc.granted
    /\ doc' = Record("rollback", o, [doc EXCEPT !.phase = "rolling_back"], "verify")
    /\ Outdate

Escalate(o) ==
    /\ Open
    /\ doc' = Record("escalate", o, [doc EXCEPT !.phase = "escalated"], None)
    /\ UNCHANGED proof

\* Mutant: the absence of a failure counts as success.
CanCompleteQuietly(o) == o.verified \/ doc.verified \/ o.failure = None

CanComplete(o) == o.verified \/ doc.verified

Complete(o) ==
    /\ Open
    /\ CanComplete(o)
    /\ doc' = Record("complete", o,
                     [doc EXCEPT !.phase = "completed", !.verified = TRUE], None)
    /\ proof' = IF o.verified THEN "current" ELSE proof

\* Another governance mechanism authorizes the rollback in the document.
GrantRollback ==
    /\ Open
    /\ ~doc.granted
    /\ doc' = [doc EXCEPT !.granted = TRUE]
    /\ UNCHANGED proof

Next ==
    \/ \E o \in Observations :
         \/ Proceed(o) \/ Fix(o) \/ SyncWithReality(o) \/ Restrategize(o)
         \/ Verify(o) \/ Rollback(o) \/ Escalate(o) \/ Complete(o)
    \/ GrantRollback

Spec == Init /\ [][Next]_vars

-----------------------------------------------------------------------------
(* Properties.                                                             *)

\* The attempts of a document are bounded: the budget and the first attempt,
\* and one more for each replaced strategy (lines 139-152 and 160-167: only a
\* new plan lets "proceed" run again, and "fix" stops at the budget).
AttemptsBounded == doc.attempt <= doc.budget + 1 + doc.revision

\* A document is closed only if an observation once said that its success
\* criteria are verified, and none has denied it since; to close it is
\* recommended only while nothing was done to the system since that test.
CompletionWasVerified ==
    /\ doc.phase = "completed" => doc.verified /\ proof # "none"
    /\ doc.next = "complete" => proof = "current"

\* Nothing happens to a document after it was completed or escalated.
TerminalIsFinal == [][doc.phase \notin TerminalPhases]_doc

Count(message) ==
    Cardinality({i \in DOMAIN doc.history : doc.history[i].message = message})

\* The audit trail explains the document: it starts at a new document, each
\* entry starts where the one before it ended, the last one ends where the
\* document stands, and the counters count its entries.
AuditTrailExplains ==
    LET h == doc.history
        At(i) == IF i = 0 THEN "planned" ELSE h[i].after
    IN  /\ \A i \in DOMAIN h : h[i].before = At(i - 1)
        /\ doc.phase = At(Len(h))
        /\ doc.attempt = Count("proceed") + Count("fix")
        /\ doc.revision = Count("restrategize")
=============================================================================
