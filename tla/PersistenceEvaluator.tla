------------------------- MODULE PersistenceEvaluator -------------------------
(***************************************************************************)
(* The advice of the governed persistence controller: what the evidence of *)
(* one collector demo API workflow run recommends next                     *)
(* (infra/scripts/governed_persistence.py, evaluate_collector_demo_api).   *)
(***************************************************************************)
EXTENDS Naturals

CONSTANTS Absent,  \* an artifact file that does not exist
          None     \* no operation, no gate, no failure class

Operations == {"what-if", "deploy", "verify"}

\* What a person has to do before a recommended operation runs.
Gates == {"explicit_workflow_dispatch", "explicit_verify_dispatch",
          "explicit_deploy_authorization"}

ASSUME EvaluatorAssumption == None \notin Operations \cup Gates

\* Why a step other than the next one is advised.
FailureClasses ==
    {"boundary_reached", "authority_or_scope_unproven", "strategy_failure",
     "stale_or_uncertain_state", "unclassified_failure", "retry_budget_exhausted",
     "verification_not_observed", "recoverable_failure", "evidence_insufficient"}

Conclusions == {"success", "failure", "cancelled", "timed_out"}

\* Readiness blockers, by the set of blockers they belong to.
Blockers == {"boundary", "strategy", "stale", "unknown"}

\* The JSON files of an artifact, as far as the evaluator tells them apart.
Artifacts == [request      : BOOLEAN,
              readiness    : (SUBSET Blockers) \cup {Absent},
              what_if      : {"absent", "accepted", "other"},
              deployment   : BOOLEAN,
              verification : {"absent", "failed", "passed"}]

Advice(next, operation, gate, failure) ==
    [next |-> next, operation |-> operation, gate |-> gate, failure |-> failure,
     terminal |-> next = "complete"]

Exhausted(attempt, budget) == attempt > budget

\* Readiness names blockers: the gravest one decides.
OnBlockers(blockers, exhausted) ==
    IF "boundary" \in blockers
    THEN Advice("escalate", None, None, "boundary_reached")
    ELSE IF "strategy" \in blockers
    THEN Advice("restrategize", None, None, "strategy_failure")
    ELSE IF blockers = {"stale"}
    THEN Advice(IF exhausted THEN "escalate" ELSE "sync_with_reality",
                None, None, "stale_or_uncertain_state")
    ELSE Advice("escalate", None, None, "unclassified_failure")

\* Deployed, and nobody has verified it.
OnUnverified(exhausted) ==
    IF exhausted
    THEN Advice("escalate", None, None, "retry_budget_exhausted")
    ELSE Advice("verify", "verify", "explicit_verify_dispatch",
                "verification_not_observed")

\* The workflow failed without saying more.
OnFailure(operation, a, exhausted) ==
    LET again(next, op, failure) ==
            Advice(next, op, "explicit_workflow_dispatch", failure)
    IN  IF exhausted
        THEN Advice("escalate", None, None, "retry_budget_exhausted")
        ELSE IF a.readiness = Absent
        THEN again("sync_with_reality", operation, "stale_or_uncertain_state")
        ELSE IF operation = "what-if"
        THEN again("restrategize", "what-if", "strategy_failure")
        ELSE again("fix", IF a.deployment THEN "verify" ELSE operation,
                   "recoverable_failure")

Evaluate(operation, conclusion, attempt, budget, a) ==
    LET exhausted == Exhausted(attempt, budget)
    IN  IF a.verification = "passed"
        THEN Advice("complete", None, None, None)
        ELSE IF conclusion \in {"cancelled", "timed_out"}
        THEN Advice("escalate", None, None, "boundary_reached")
        ELSE IF ~a.request
        THEN Advice("escalate", None, None, "authority_or_scope_unproven")
        ELSE IF a.readiness \notin {Absent, {}}
        THEN OnBlockers(a.readiness, exhausted)
        ELSE IF a.deployment /\ a.verification = "absent"
        THEN OnUnverified(exhausted)
        ELSE IF a.what_if = "accepted"
        THEN Advice("proceed", "deploy", "explicit_deploy_authorization", None)
        ELSE IF conclusion = "failure"
        THEN OnFailure(operation, a, exhausted)
        ELSE Advice("escalate", None, None, "evidence_insufficient")
=============================================================================
