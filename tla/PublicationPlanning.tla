-------------------------- MODULE PublicationPlanning --------------------------
(***************************************************************************)
(* From the read-only plan to the readiness for a publication. A planner   *)
(* and, later, an assessor look at Azure, one command at a time, while     *)
(* others change it (plan_existing_collector_report_publication.sh,        *)
(* assess_existing_collector_publication_readiness.py). Neither of them    *)
(* changes anything: what they say is about what they saw.                 *)
(***************************************************************************)
EXTENDS PublicationPlan

CONSTANTS Planned,     \* the account the template names in this group
          Foreign,     \* an account elsewhere in the subscription
          PriceLists,  \* the rows the price service may answer
          Usages,      \* the usage answers of the storage provider
          Ceiling,     \* the reviewed monthly ceiling
          Declared,    \* sets of role assignments the executor may have
          OddPlans,    \* What-If answers of another template
          MaxTroubles  \* changes, failures and odd answers in one behaviour

ASSUME PublicationPlanningAssumption ==
    /\ {Planned, Foreign} \subseteq Accounts /\ Planned # Foreign
    /\ MaxTroubles \in Nat

VARIABLES azure,     \* what is there by now
          planner,   \* the next command of the planner
          artifact,  \* what the planner wrote, as it is by now
          written,   \* the same as it was written
          assessor,  \* the next command of the assessor
          evidence,  \* what the assessor captured, and the checks that block
          saw,       \* what was there when a command of the assessor ran
          troubles

vars == <<azure, planner, artifact, written, assessor, evidence, saw, troubles>>

\* storage: the accounts with the tag of the report; roles: the collector has a
\* visible role; declared: what the executor was assigned.
Azure == [storage : SUBSET {Planned, Foreign}, principal : Principals,
          healthy : BOOLEAN, roles : BOOLEAN, declared : Declared]

PlannerSteps == {"collector", "storage", "roles", "validate", "what_if"}
AssessorSteps == {"collector", "storage", "usage", "policy", "deny", "declared",
                  "prices", "validate", "what_if", "no_rbac", "summary"}
Checks == (AssessorSteps \ {"summary"}) \cup {"principal"}

\* What a command of the planner leaves behind.
Writes(step) ==
    CASE step = "collector" -> {"request", "context", "group", "collector"}
      [] step = "storage"   -> {"report_storage"}
      [] step = "roles"     -> {"group_roles", "storage_roles", "collector_roles",
                                "parameters"}
      [] step = "validate"  -> {"validation"}
      [] step = "what_if"   -> {"what_if", "cost", "summary"}

Files == UNION {Writes(step) : step \in PlannerSteps}

NoPlan == [ok |-> FALSE, changes |-> {}]

Blank == [request |-> TRUE, principal |-> None, parameter |-> None,
          report_storage |-> FALSE, collector_roles |-> FALSE, validated |-> FALSE,
          what_if |-> NoPlan, present |-> {}, listed |-> {}, damaged |-> {}]

\* prices: the rows that were answered; plans: the What-If answers.
NoEvidence == [blocking |-> {}, prices |-> {}, plans |-> [s \in {"what_if", "no_rbac"} |-> NoPlan]]

Answers == [ok : BOOLEAN, changes : SUBSET Change]

ASSUME OddPlansAssumption == OddPlans \subseteq Answers

Artifacts ==
    [request : BOOLEAN, principal : Principals \cup {None},
     parameter : Principals \cup {None}, report_storage : BOOLEAN,
     collector_roles : BOOLEAN, validated : BOOLEAN, what_if : Answers,
     present : SUBSET Files, listed : SUBSET Files, damaged : SUBSET Files]

TypeOK ==
    /\ azure \in Azure
    /\ planner \in PlannerSteps \cup {"done", "failed"}
    /\ artifact \in Artifacts /\ written \in Artifacts
    /\ assessor \in AssessorSteps \cup {"waiting", "refused", "failed", "ready", "not_ready"}
    /\ evidence \in [blocking : SUBSET Checks, prices : PriceLists \cup {{}},
                     plans : [{"what_if", "no_rbac"} -> Answers]]
    /\ DOMAIN saw \subseteq AssessorSteps /\ \A s \in DOMAIN saw : saw[s] \in Azure
    /\ troubles \in 0..MaxTroubles

Init ==
    /\ azure \in Azure
    /\ planner = "collector" /\ artifact = Blank /\ written = Blank
    /\ assessor = "waiting" /\ evidence = NoEvidence /\ saw = [s \in {} |-> azure]
    /\ troubles = 0

Trouble == troubles < MaxTroubles /\ troubles' = troubles + 1
Smooth == UNCHANGED troubles

-----------------------------------------------------------------------------
(* Azure.                                                                  *)

\* An account is made or removed, the collector is made anew, it breaks or is
\* repaired, a role is assigned or removed.
AzureChanges ==
    /\ Trouble
    /\ \/ \E a \in {Planned, Foreign} :
            azure' = [azure EXCEPT !.storage = IF a \in @ THEN @ \ {a} ELSE @ \cup {a}]
       \/ \E p \in Principals \ {azure.principal} : azure' = [azure EXCEPT !.principal = p]
       \/ azure' = [azure EXCEPT !.healthy = ~@]
       \/ azure' = [azure EXCEPT !.roles = ~@]
       \/ \E d \in Declared \ {azure.declared} : azure' = [azure EXCEPT !.declared = d]
    /\ UNCHANGED <<planner, artifact, written, assessor, evidence, saw>>

Plan(account, change, principal) ==
    [ok |-> TRUE,
     changes |-> {[of |-> account, part |-> p, type |-> p, change |-> change,
                   reviewed |-> TRUE, principal |-> principal] : p \in Parts}]

\* ARM creates what is not there, and leaves what is there as it is.
WhatIf(principal) ==
    Plan(Planned, IF Planned \in azure.storage THEN "NoChange" ELSE "Create", principal)

PossibleOddPlans ==
    {o \in OddPlans : \A c \in Creates(o) : c.of \notin azure.storage}

-----------------------------------------------------------------------------
(* The planner. It stops at the first command that fails; the workflow     *)
(* writes the manifest in any case.                                        *)

Manifested(a) == [a EXCEPT !.listed = a.present]

\* The artifact is final when the planner is.
PlannerWrites(a, next) ==
    LET now == [a EXCEPT !.present = @ \cup Writes(planner)]
    IN  /\ artifact' = IF next = "done" THEN Manifested(now) ELSE now
        /\ written' = artifact'
        /\ planner' = next
        /\ UNCHANGED <<azure, assessor, evidence, saw>>

PlanCollector ==
    /\ planner = "collector" /\ azure.healthy
    /\ PlannerWrites([artifact EXCEPT !.principal = azure.principal], "storage")
    /\ Smooth

\* Only this resource group is listed.
PlanStorage ==
    /\ planner = "storage"
    /\ PlannerWrites([artifact EXCEPT !.report_storage = Planned \in azure.storage], "roles")
    /\ Smooth

PlanRoles ==
    /\ planner = "roles"
    /\ PlannerWrites([artifact EXCEPT !.collector_roles = azure.roles,
                                      !.parameter = artifact.principal], "validate")
    /\ Smooth

PlanValidate ==
    /\ planner = "validate"
    /\ PlannerWrites([artifact EXCEPT !.validated = TRUE], "what_if")
    /\ Smooth

PlanWhatIf ==
    /\ planner = "what_if"
    /\ \/ /\ PlannerWrites([artifact EXCEPT !.what_if = WhatIf(artifact.parameter)], "done")
          /\ Smooth
       \/ /\ \E o \in PossibleOddPlans :
               PlannerWrites([artifact EXCEPT !.what_if = o], "done")
          /\ Trouble

\* A command fails, or the collector is not usable.
PlannerFails ==
    /\ planner \in PlannerSteps
    /\ IF planner = "collector" /\ ~azure.healthy THEN Smooth ELSE Trouble
    /\ planner' = "failed"
    /\ artifact' = Manifested(artifact) /\ written' = artifact'
    /\ UNCHANGED <<azure, assessor, evidence, saw>>

\* Between the runs one file of the artifact is lost, or reads otherwise.
Loses(f) == artifact' = [artifact EXCEPT !.present = @ \ {f}]

Alters(f) ==
    LET a == [artifact EXCEPT !.damaged = @ \cup {f}]
    IN  CASE f = "report_storage"  -> artifact' = [a EXCEPT !.report_storage = FALSE]
          [] f = "collector_roles" -> artifact' = [a EXCEPT !.collector_roles = FALSE]
          [] f = "parameters" -> \E p \in Principals : artifact' = [a EXCEPT !.parameter = p]
          [] f = "summary"    -> \E p \in Principals : artifact' = [a EXCEPT !.principal = p]
          [] f = "validation" -> artifact' = [a EXCEPT !.validated = TRUE]
          [] f = "request"    -> artifact' = [a EXCEPT !.request = FALSE]
          [] OTHER -> artifact' = a

ArtifactChanges ==
    /\ planner \in {"done", "failed"} /\ assessor = "waiting"
    /\ \E f \in artifact.present : Loses(f) \/ Alters(f)
    /\ Trouble
    /\ UNCHANGED <<azure, planner, written, assessor, evidence, saw>>

-----------------------------------------------------------------------------
(* The assessor.                                                           *)

\* It begins with the artifact of a planner run that ended, and verifies it.
Verify ==
    /\ assessor = "waiting" /\ planner \in {"done", "failed"}
    /\ assessor' = IF planner = "done" /\ PlanVerified(artifact, TRUE)
                   THEN "collector" ELSE "refused"
    /\ Smooth
    /\ UNCHANGED <<azure, planner, artifact, written, evidence, saw>>

Seeing(step) == [s \in DOMAIN saw \cup {step} |-> IF s = step THEN azure ELSE saw[s]]

\* One command: it saw Azure as it is, and some of its checks block.
Assess(step, blocks, next) ==
    /\ assessor = step /\ assessor' = next
    /\ saw' = Seeing(step)
    /\ evidence' = [evidence EXCEPT !.blocking = @ \cup blocks]
    /\ UNCHANGED <<azure, planner, artifact, written>>

If(check, holds) == IF holds THEN {} ELSE {check}

AssessCollector ==
    /\ Assess("collector",
              If("collector", azure.healthy)
                \cup If("principal", azure.principal = artifact.principal),
              "storage")
    /\ Smooth

\* Mutant: only the name of the account is looked for.
AssessStorageByName ==
    /\ Assess("storage", If("storage", Planned \notin azure.storage), "usage")
    /\ Smooth

\* Every account of the subscription with the name or the tag.
AssessStorage ==
    /\ Assess("storage", If("storage", azure.storage = {}), "usage")
    /\ Smooth

AssessUsage ==
    /\ \E u \in Usages : Assess("usage", If("usage", HasHeadroom(u)), "policy")
    /\ Smooth

\* Policies and deny assignments are captured, or they block; nobody reads them.
AssessPolicy == Assess("policy", {}, "deny") /\ Smooth
AssessPolicyFails == Assess("policy", {"policy"}, "deny") /\ Trouble
AssessDeny == Assess("deny", {}, "declared") /\ Smooth
AssessDenyFails == Assess("deny", {"deny"}, "declared") /\ Trouble

AssessDeclared ==
    /\ Assess("declared", If("declared", DeclaredGrant(azure.declared)), "prices")
    /\ Smooth

AssessPrices ==
    /\ assessor = "prices" /\ assessor' = "validate"
    /\ \E items \in PriceLists :
         evidence' = [evidence EXCEPT !.prices = items,
                                      !.blocking = @ \cup If("prices", UnderCeiling(items, Ceiling))]
    /\ saw' = Seeing("prices")
    /\ Smooth
    /\ UNCHANGED <<azure, planner, artifact, written>>

AssessValidation == Assess("validate", {}, "what_if") /\ Smooth
AssessValidationFails == Assess("validate", {"validate"}, "what_if") /\ Trouble

\* Provider and ProviderNoRbac: a payload that is not exact blocks, whatever
\* account it is about.
WhatIfAnswered(step, payload, next) ==
    /\ assessor = step /\ assessor' = next
    /\ saw' = Seeing(step)
    /\ evidence' = [evidence EXCEPT
                      !.plans[step] = payload,
                      !.blocking = @ \cup If(step, ExactPlan(payload, artifact.principal))]
    /\ UNCHANGED <<azure, planner, artifact, written>>

AssessWhatIf(step, next) ==
    \/ WhatIfAnswered(step, WhatIf(artifact.parameter), next) /\ Smooth
    \/ \E o \in PossibleOddPlans \cup {NoPlan} : WhatIfAnswered(step, o, next) /\ Trouble

Summarize ==
    /\ assessor = "summary"
    /\ assessor' = IF evidence.blocking = {} THEN "ready" ELSE "not_ready"
    /\ Smooth
    /\ UNCHANGED <<azure, planner, artifact, written, evidence, saw>>

\* A required command fails: there is no summary at all.
AssessorFails ==
    /\ assessor \in {"collector", "storage", "usage", "declared", "prices"}
    /\ assessor' = "failed"
    /\ Trouble
    /\ UNCHANGED <<azure, planner, artifact, written, evidence, saw>>

Planner == PlanCollector \/ PlanStorage \/ PlanRoles \/ PlanValidate \/ PlanWhatIf
             \/ PlannerFails

Assessor ==
    \/ Verify \/ AssessCollector \/ AssessStorage \/ AssessUsage
    \/ AssessPolicy \/ AssessPolicyFails \/ AssessDeny \/ AssessDenyFails
    \/ AssessDeclared \/ AssessPrices \/ AssessValidation \/ AssessValidationFails
    \/ AssessWhatIf("what_if", "no_rbac") \/ AssessWhatIf("no_rbac", "summary")
    \/ Summarize \/ AssessorFails

Next == AzureChanges \/ ArtifactChanges \/ Planner \/ Assessor

Spec == Init /\ [][Next]_vars

-----------------------------------------------------------------------------
(* Properties.                                                             *)

Accepted == assessor \notin {"waiting", "refused"}

\* No assessment begins on an artifact that is not, in every file the
\* assessment relies on, what a planner wrote that came to its end
\* (verify_existing_collector_publication_plan.py 24-55, 190-197).
VerifiedPlanIsIntact ==
    Accepted =>
        /\ planner = "done"
        /\ Read \subseteq artifact.present
        /\ \A field \in {"request", "principal", "parameter", "report_storage",
                         "collector_roles", "validated", "what_if"} :
             artifact[field] = written[field]

\* Ready means: there was no report account anywhere in the subscription when
\* the accounts were listed, the collector had the principal of the plan, and
\* by the two later What-Ifs the account each would create was still not there,
\* and a role assignment granted the executor what it has to create (579-596).
\* Others change Azure all the while.
ReadyWasClear ==
    assessor = "ready" =>
        /\ saw["storage"].storage = {}
        /\ saw["collector"].principal = written.principal
        /\ \A step \in {"what_if", "no_rbac"} :
             \A c \in Creates(evidence.plans[step]) : c.of \notin saw[step].storage
        /\ DeclaredGrant(saw["declared"].declared)
=============================================================================
