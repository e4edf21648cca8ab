----------------------- MODULE PublicationPlanning_proofs -----------------------
(***************************************************************************)
(* What a verified plan and a readiness rest on, for every estate, price   *)
(* list, template and number of changes.                                   *)
(***************************************************************************)
EXTENDS PublicationPlanning, TLAPS

-----------------------------------------------------------------------------
(* Type correctness.                                                       *)

LEMMA BlankType == Blank \in Artifacts /\ NoPlan \in Answers
  BY DEF Blank, Artifacts, Answers, NoPlan

LEMMA FilesOfSteps == \A step \in PlannerSteps : Writes(step) \subseteq Files
  BY DEF Files

LEMMA PlanType ==
    ASSUME NEW change \in {"Create", "NoChange"}, NEW principal \in Principals \cup {None}
    PROVE  Plan(Planned, change, principal) \in Answers
<1>1. Planned \in Accounts
  BY PublicationPlanningAssumption
<1>2. \A p \in Parts : [of |-> Planned, part |-> p, type |-> p, change |-> change,
                        reviewed |-> TRUE, principal |-> principal] \in Change
  BY <1>1 DEF Change
<1> QED
  BY <1>2 DEF Plan, Answers

LEMMA WhatIfType ==
    ASSUME NEW principal \in Principals \cup {None}
    PROVE  WhatIf(principal) \in Answers
  BY PlanType DEF WhatIf

LEMMA TypedInit == Init => TypeOK
<1> SUFFICES ASSUME Init PROVE TypeOK
  OBVIOUS
<1>1. 0 \in 0..MaxTroubles
  BY PublicationPlanningAssumption
<1>2. NoEvidence \in [blocking : SUBSET Checks, prices : PriceLists \cup {{}},
                      plans : [{"what_if", "no_rbac"} -> Answers]]
  BY BlankType DEF NoEvidence
<1> QED
  BY <1>1, <1>2, BlankType DEF Init, TypeOK, PlannerSteps

\* What a command of the planner writes has its type.
LEMMA WritesType ==
    ASSUME TypeOK, planner \in PlannerSteps, NEW a \in Artifacts,
           NEW next \in PlannerSteps \cup {"done"}, PlannerWrites(a, next)
    PROVE  artifact' \in Artifacts /\ written' \in Artifacts
<1>1. Writes(planner) \subseteq Files
  BY FilesOfSteps
<1>2. [a EXCEPT !.present = @ \cup Writes(planner)] \in Artifacts
  BY <1>1 DEF Artifacts
<1>3. \A b \in Artifacts : Manifested(b) \in Artifacts
  BY DEF Artifacts, Manifested
<1> QED
  BY <1>2, <1>3 DEF PlannerWrites

LEMMA AltersType ==
    ASSUME TypeOK, NEW f \in artifact.present, Loses(f) \/ Alters(f)
    PROVE  artifact' \in Artifacts
<1>1. f \in Files /\ artifact \in Artifacts
  BY DEF TypeOK, Artifacts
<1>2. CASE Loses(f)
  BY <1>1, <1>2 DEF Loses, Artifacts
<1>3. CASE Alters(f)
  <2> DEFINE a == [artifact EXCEPT !.damaged = @ \cup {f}]
  <2>1. a \in Artifacts
    BY <1>1 DEF Artifacts
  <2>2. \/ artifact' = a
        \/ artifact' = [a EXCEPT !.report_storage = FALSE]
        \/ artifact' = [a EXCEPT !.collector_roles = FALSE]
        \/ \E p \in Principals : artifact' = [a EXCEPT !.parameter = p]
        \/ \E p \in Principals : artifact' = [a EXCEPT !.principal = p]
        \/ artifact' = [a EXCEPT !.validated = TRUE]
        \/ artifact' = [a EXCEPT !.request = FALSE]
    BY <1>3 DEF Alters
  <2> HIDE DEF a
  <2> QED
    BY <2>1, <2>2 DEF Artifacts
<1> QED
  BY <1>2, <1>3

LEMMA AzureType == TypeOK /\ AzureChanges => azure' \in Azure
<1> SUFFICES ASSUME TypeOK, AzureChanges PROVE azure' \in Azure
  OBVIOUS
<1>1. azure \in Azure
  BY DEF TypeOK
<1>2. \/ \E a \in {Planned, Foreign} :
            azure' = [azure EXCEPT !.storage = IF a \in @ THEN @ \ {a} ELSE @ \cup {a}]
      \/ \E p \in Principals : azure' = [azure EXCEPT !.principal = p]
      \/ azure' = [azure EXCEPT !.healthy = ~@]
      \/ azure' = [azure EXCEPT !.roles = ~@]
      \/ \E d \in Declared : azure' = [azure EXCEPT !.declared = d]
  BY DEF AzureChanges
<1>3. CASE \E a \in {Planned, Foreign} :
             azure' = [azure EXCEPT !.storage = IF a \in @ THEN @ \ {a} ELSE @ \cup {a}]
  BY <1>1, <1>3 DEF Azure
<1>4. CASE \E p \in Principals : azure' = [azure EXCEPT !.principal = p]
  BY <1>1, <1>4 DEF Azure
<1>5. CASE azure' = [azure EXCEPT !.healthy = ~@] \/ azure' = [azure EXCEPT !.roles = ~@]
  BY <1>1, <1>5 DEF Azure
<1>6. CASE \E d \in Declared : azure' = [azure EXCEPT !.declared = d]
  BY <1>1, <1>6 DEF Azure
<1> QED
  BY <1>2, <1>3, <1>4, <1>5, <1>6

\* What the assessor sees and notes has its type.
SawType == DOMAIN saw \subseteq AssessorSteps /\ \A s \in DOMAIN saw : saw[s] \in Azure
EvidenceType == evidence \in [blocking : SUBSET Checks, prices : PriceLists \cup {{}},
                              plans : [{"what_if", "no_rbac"} -> Answers]]

LEMMA SeeingType ==
    ASSUME TypeOK, NEW step \in AssessorSteps, saw' = Seeing(step)
    PROVE  SawType'
  BY DEF TypeOK, Seeing, SawType

LEMMA AssessType ==
    ASSUME TypeOK, NEW step \in AssessorSteps, NEW blocks \in SUBSET Checks, NEW next,
           Assess(step, blocks, next)
    PROVE  SawType' /\ EvidenceType'
<1>1. SawType'
  BY SeeingType DEF Assess
<1>2. EvidenceType'
  BY DEF Assess, TypeOK, EvidenceType
<1> QED
  BY <1>1, <1>2

LEMMA AnsweredType ==
    ASSUME TypeOK, NEW step \in {"what_if", "no_rbac"}, NEW next, AssessWhatIf(step, next)
    PROVE  SawType' /\ EvidenceType'
<1>1. PICK payload \in Answers : WhatIfAnswered(step, payload, next)
  <2>1. artifact.parameter \in Principals \cup {None}
    BY DEF TypeOK, Artifacts
  <2>2. WhatIf(artifact.parameter) \in Answers /\ NoPlan \in Answers
    BY <2>1, WhatIfType, BlankType
  <2>3. PossibleOddPlans \subseteq Answers
    BY OddPlansAssumption DEF PossibleOddPlans
  <2> QED
    BY <2>2, <2>3 DEF AssessWhatIf
<1>2. step \in AssessorSteps /\ step \in Checks
  BY DEF AssessorSteps, Checks
<1>3. SawType'
  BY <1>1, <1>2, SeeingType DEF WhatIfAnswered
<1>4. If(step, ExactPlan(payload, artifact.principal)) \subseteq Checks
  BY <1>2 DEF If
<1>5. EvidenceType'
  <2> DEFINE plans == [evidence.plans EXCEPT ![step] = payload]
             blocking == evidence.blocking \cup If(step, ExactPlan(payload, artifact.principal))
  <2>1. evidence' = [blocking |-> blocking, prices |-> evidence.prices, plans |-> plans]
    BY <1>1 DEF WhatIfAnswered, TypeOK
  <2>2. plans \in [{"what_if", "no_rbac"} -> Answers] /\ blocking \in SUBSET Checks
    BY <1>4 DEF TypeOK
  <2>3. evidence.prices \in PriceLists \cup {{}}
    BY DEF TypeOK
  <2> QED
    BY <2>1, <2>2, <2>3 DEF EvidenceType
<1> QED
  BY <1>3, <1>5

LEMMA TypedStep == TypeOK /\ [Next]_vars => TypeOK'
<1> SUFFICES ASSUME TypeOK, [Next]_vars PROVE TypeOK'
  OBVIOUS
<1>0. /\ TypeOK <=> /\ azure \in Azure
                    /\ planner \in PlannerSteps \cup {"done", "failed"}
                    /\ artifact \in Artifacts /\ written \in Artifacts
                    /\ assessor \in AssessorSteps \cup {"waiting", "refused", "failed",
                                                      "ready", "not_ready"}
                    /\ EvidenceType /\ SawType /\ troubles \in 0..MaxTroubles
  BY DEF TypeOK, EvidenceType, SawType
<1>1. ASSUME Trouble \/ Smooth PROVE troubles' \in 0..MaxTroubles
  BY <1>1, PublicationPlanningAssumption DEF Trouble, Smooth, TypeOK
<1>2. CASE AzureChanges
  BY <1>0, <1>1, <1>2, AzureType DEF AzureChanges, TypeOK, EvidenceType, SawType
<1>3. CASE ArtifactChanges
  <2>1. artifact' \in Artifacts
    BY <1>3, AltersType DEF ArtifactChanges
  <2> QED
    BY <1>1, <1>3, <2>1 DEF ArtifactChanges, TypeOK
<1>4. ASSUME NEW a \in Artifacts, NEW next \in PlannerSteps \cup {"done"},
             planner \in PlannerSteps, PlannerWrites(a, next), Trouble \/ Smooth
      PROVE  TypeOK'
  BY <1>1, <1>4, WritesType DEF PlannerWrites, TypeOK
<1>5. CASE PlanCollector
  <2>1. [artifact EXCEPT !.principal = azure.principal] \in Artifacts
    BY DEF TypeOK, Artifacts, Azure
  <2> QED
    BY <1>4, <1>5, <2>1 DEF PlanCollector, PlannerSteps
<1>6. CASE PlanStorage
  <2>1. [artifact EXCEPT !.report_storage = Planned \in azure.storage] \in Artifacts
    <3>1. \A b \in BOOLEAN : [artifact EXCEPT !.report_storage = b] \in Artifacts
      BY DEF TypeOK, Artifacts
    <3>2. (Planned \in azure.storage) \in BOOLEAN
      OBVIOUS
    <3> QED
      BY <3>1, <3>2
  <2> QED
    BY <1>4, <1>6, <2>1 DEF PlanStorage, PlannerSteps
<1>7. CASE PlanRoles
  <2>1. [artifact EXCEPT !.collector_roles = azure.roles,
                         !.parameter = artifact.principal] \in Artifacts
    <3>1. artifact \in Artifacts /\ azure.roles \in BOOLEAN
      BY DEF TypeOK, Azure
    <3>2. [artifact EXCEPT !.collector_roles = azure.roles] \in Artifacts
      BY <3>1 DEF Artifacts
    <3>3. artifact.principal \in Principals \cup {None}
      BY <3>1 DEF Artifacts
    <3> QED
      BY <3>2, <3>3 DEF Artifacts
  <2> QED
    BY <1>4, <1>7, <2>1 DEF PlanRoles, PlannerSteps
<1>8. CASE PlanValidate
  <2>1. [artifact EXCEPT !.validated = TRUE] \in Artifacts
    BY DEF TypeOK, Artifacts
  <2> QED
    BY <1>4, <1>8, <2>1 DEF PlanValidate, PlannerSteps
<1>9. CASE PlanWhatIf
  <2>1. PICK answer \in Answers : PlannerWrites([artifact EXCEPT !.what_if = answer], "done")
    <3>1. WhatIf(artifact.parameter) \in Answers
      BY WhatIfType DEF TypeOK, Artifacts
    <3>2. PossibleOddPlans \subseteq Answers
      BY OddPlansAssumption DEF PossibleOddPlans
    <3> QED
      BY <1>9, <3>1, <3>2 DEF PlanWhatIf
  <2>2. [artifact EXCEPT !.what_if = answer] \in Artifacts
    BY DEF TypeOK, Artifacts
  <2>3. Trouble \/ Smooth
    BY <1>9 DEF PlanWhatIf
  <2> QED
    BY <1>4, <1>9, <2>1, <2>2, <2>3 DEF PlanWhatIf, PlannerSteps
<1>10. CASE PlannerFails
  <2>1. artifact' \in Artifacts /\ written' \in Artifacts
    BY <1>10 DEF PlannerFails, Manifested, TypeOK, Artifacts
  <2>2. Trouble \/ Smooth
    BY <1>10 DEF PlannerFails
  <2> QED
    BY <1>1, <1>10, <2>1, <2>2 DEF PlannerFails, TypeOK
<1>11. ASSUME NEW step \in AssessorSteps, NEW blocks \in SUBSET Checks,
              NEW next \in AssessorSteps, Assess(step, blocks, next), Trouble \/ Smooth
       PROVE  TypeOK'
  <2>1. SawType' /\ EvidenceType'
    BY <1>11, AssessType
  <2> QED
    BY <1>1, <1>11, <2>1 DEF Assess, TypeOK, SawType, EvidenceType
<1>12. \A check \in Checks : \A holds : If(check, holds) \in SUBSET Checks
  BY DEF If
<1>13. /\ {"collector", "principal", "storage", "usage", "policy", "deny", "declared",
           "prices", "validate"} \subseteq Checks
       /\ AssessorSteps = {"collector", "storage", "usage", "policy", "deny", "declared",
                           "prices", "validate", "what_if", "no_rbac", "summary"}
  BY DEF Checks, AssessorSteps
<1>14. CASE AssessCollector
  <2>1. If("collector", azure.healthy)
           \cup If("principal", azure.principal = artifact.principal) \in SUBSET Checks
    BY <1>12, <1>13
  <2> QED
    BY <1>11, <1>13, <1>14, <2>1 DEF AssessCollector
<1>15. CASE AssessStorage
  BY <1>11, <1>12, <1>13, <1>15 DEF AssessStorage
<1>16. CASE AssessUsage
  BY <1>11, <1>12, <1>13, <1>16 DEF AssessUsage
<1>17. CASE AssessPolicy \/ AssessPolicyFails
  BY <1>11, <1>13, <1>17 DEF AssessPolicy, AssessPolicyFails
<1>18. CASE AssessDeny \/ AssessDenyFails
  BY <1>11, <1>13, <1>18 DEF AssessDeny, AssessDenyFails
<1>19. CASE AssessDeclared
  BY <1>11, <1>12, <1>13, <1>19 DEF AssessDeclared
<1>20. CASE AssessPrices
  <2>1. SawType'
    BY <1>13, <1>20, SeeingType DEF AssessPrices
  <2>2. PICK items \in PriceLists :
          evidence' = [evidence EXCEPT !.prices = items,
                                       !.blocking = @ \cup If("prices", UnderCeiling(items, Ceiling))]
    BY <1>20 DEF AssessPrices
  <2>3. EvidenceType'
    BY <1>12, <1>13, <2>2 DEF EvidenceType, TypeOK
  <2> QED
    BY <1>1, <1>13, <1>20, <2>1, <2>3 DEF AssessPrices, TypeOK, SawType, EvidenceType
<1>21. CASE AssessValidation \/ AssessValidationFails
  BY <1>11, <1>13, <1>21 DEF AssessValidation, AssessValidationFails
<1>22. CASE AssessWhatIf("what_if", "no_rbac") \/ AssessWhatIf("no_rbac", "summary")
  <2>1. SawType' /\ EvidenceType'
    BY <1>22, AnsweredType
  <2>2. Trouble \/ Smooth
    BY <1>22 DEF AssessWhatIf
  <2>3. /\ assessor' \in AssessorSteps
        /\ UNCHANGED <<azure, planner, artifact, written>>
    BY <1>13, <1>22 DEF AssessWhatIf, WhatIfAnswered
  <2> QED
    BY <1>1, <2>1, <2>2, <2>3 DEF TypeOK, SawType, EvidenceType
<1>23. CASE Verify \/ Summarize \/ AssessorFails
  BY <1>1, <1>13, <1>23 DEF Verify, Summarize, AssessorFails, TypeOK
<1>24. CASE UNCHANGED vars
  BY <1>24 DEF vars, TypeOK
<1> QED
  BY <1>2, <1>3, <1>5, <1>6, <1>7, <1>8, <1>9, <1>10, <1>14, <1>15, <1>16, <1>17,
     <1>18, <1>19, <1>20, <1>21, <1>22, <1>23, <1>24 DEF Next, Planner, Assessor

-----------------------------------------------------------------------------
(* The inductive invariant.                                                *)

\* What the planner has written by the time of its next command.
WrittenBy(step) ==
    CASE step = "collector" -> {}
      [] step = "storage"   -> Writes("collector")
      [] step = "roles"     -> Writes("collector") \cup Writes("storage")
      [] step = "validate"  -> Writes("collector") \cup Writes("storage") \cup Writes("roles")
      [] step = "what_if"   -> Writes("collector") \cup Writes("storage") \cup Writes("roles")
                                 \cup Writes("validate")

\* Nobody touches the artifact before the planner has ended.
WhilePlanned ==
    planner \in PlannerSteps =>
        /\ assessor = "waiting" /\ artifact = written
        /\ WrittenBy(planner) \subseteq artifact.present

AllListed == planner = "done" => artifact.listed = Files

Differs(field, file) == artifact[field] # written[field] => file \in artifact.damaged

\* Every field of the artifact has its file, and differs only with it.
FieldsHaveFiles ==
    /\ Differs("request", "request")
    /\ Differs("principal", "summary")
    /\ Differs("parameter", "parameters")
    /\ Differs("report_storage", "report_storage")
    /\ Differs("collector_roles", "collector_roles")
    /\ Differs("validated", "validation")
    /\ Differs("what_if", "what_if")

AfterNoRbac == {"summary", "ready", "not_ready"}
AfterWhatIf == AfterNoRbac \cup {"no_rbac"}
AfterDeclared == AfterWhatIf \cup {"prices", "validate", "what_if"}
AfterStorage == AfterDeclared \cup {"usage", "policy", "deny", "declared"}
AfterCollector == AfterStorage \cup {"storage"}

\* Whatever the assessor has passed it saw, or it blocks.
StillAbsent(step) ==
    /\ step \in DOMAIN saw
    /\ \A c \in Creates(evidence.plans[step]) : c.of \notin saw[step].storage

Seen ==
    /\ assessor \in AfterCollector =>
         /\ "collector" \in DOMAIN saw
         /\ \/ "principal" \in evidence.blocking
            \/ saw["collector"].principal = artifact.principal
    /\ assessor \in AfterStorage =>
         /\ "storage" \in DOMAIN saw
         /\ "storage" \in evidence.blocking \/ saw["storage"].storage = {}
    /\ assessor \in AfterDeclared =>
         /\ "declared" \in DOMAIN saw
         /\ "declared" \in evidence.blocking \/ DeclaredGrant(saw["declared"].declared)
    /\ assessor \in AfterWhatIf => StillAbsent("what_if")
    /\ assessor \in AfterNoRbac => StillAbsent("no_rbac")
    /\ assessor = "ready" => evidence.blocking = {}

IInv == /\ TypeOK /\ WhilePlanned /\ AllListed /\ FieldsHaveFiles
        /\ VerifiedPlanIsIntact /\ Seen

LEMMA InvInit == Init => IInv
<1> SUFFICES ASSUME Init PROVE IInv
  OBVIOUS
<1>1. WhilePlanned /\ AllListed /\ FieldsHaveFiles
  BY DEF Init, WhilePlanned, WrittenBy, AllListed, FieldsHaveFiles, Differs
<1>2. VerifiedPlanIsIntact
  BY DEF Init, VerifiedPlanIsIntact, Accepted
<1>3. Seen
  BY DEF Init, Seen, AfterCollector, AfterStorage, AfterDeclared, AfterWhatIf, AfterNoRbac
<1> QED
  BY <1>1, <1>2, <1>3, TypedInit DEF IInv

LEMMA InvStep == IInv /\ [Next]_vars => IInv'
<1> SUFFICES ASSUME IInv, [Next]_vars PROVE IInv'
  OBVIOUS
<1> USE DEF IInv
<1>1. TypeOK'
  BY TypedStep
<1>2. artifact \in Artifacts /\ written \in Artifacts
  BY DEF TypeOK
<1>3. CASE AzureChanges
  BY <1>1, <1>3 DEF AzureChanges, WhilePlanned, AllListed, FieldsHaveFiles, Differs,
     VerifiedPlanIsIntact, Accepted, Seen, StillAbsent
<1>4. CASE ArtifactChanges
  <2>1. PICK f \in artifact.present : Loses(f) \/ Alters(f)
    BY <1>4 DEF ArtifactChanges
  <2>2. /\ assessor = "waiting" /\ planner \in {"done", "failed"}
        /\ UNCHANGED <<azure, planner, written, assessor, evidence, saw>>
    BY <1>4 DEF ArtifactChanges
  <2>3. artifact'.listed = artifact.listed
    BY <1>2, <2>1 DEF Loses, Alters, Artifacts
  <2>4. FieldsHaveFiles'
    <3>1. CASE Loses(f)
      BY <1>2, <2>2, <3>1 DEF Loses, Artifacts, FieldsHaveFiles, Differs
    <3>2. CASE Alters(f)
      <4> DEFINE a == [artifact EXCEPT !.damaged = @ \cup {f}]
      <4>1. /\ a \in Artifacts /\ a.damaged = artifact.damaged \cup {f}
            /\ a.request = artifact.request /\ a.principal = artifact.principal
            /\ a.parameter = artifact.parameter
            /\ a.report_storage = artifact.report_storage
            /\ a.collector_roles = artifact.collector_roles
            /\ a.validated = artifact.validated /\ a.what_if = artifact.what_if
        <5>1. f \in Files
          BY <1>2 DEF Artifacts
        <5> QED
          BY <1>2, <5>1 DEF Artifacts
      <4>2. \/ artifact' = a
            \/ f = "report_storage" /\ artifact' = [a EXCEPT !.report_storage = FALSE]
            \/ f = "collector_roles" /\ artifact' = [a EXCEPT !.collector_roles = FALSE]
            \/ f = "parameters" /\ \E p \in Principals : artifact' = [a EXCEPT !.parameter = p]
            \/ f = "summary" /\ \E p \in Principals : artifact' = [a EXCEPT !.principal = p]
            \/ f = "validation" /\ artifact' = [a EXCEPT !.validated = TRUE]
            \/ f = "request" /\ artifact' = [a EXCEPT !.request = FALSE]
        BY <3>2 DEF Alters
      <4> HIDE DEF a
      <4> QED
        BY <2>2, <4>1, <4>2 DEF Artifacts, FieldsHaveFiles, Differs
    <3> QED
      BY <2>1, <3>1, <3>2
  <2> QED
    BY <1>1, <2>2, <2>3, <2>4 DEF WhilePlanned, AllListed, PlannerSteps,
       VerifiedPlanIsIntact, Accepted, Seen, AfterCollector, AfterStorage,
       AfterDeclared, AfterWhatIf, AfterNoRbac
<1>5. CASE Planner
  <2>1. planner \in PlannerSteps /\ assessor = "waiting"
    BY <1>5 DEF Planner, PlanCollector, PlanStorage, PlanRoles, PlanValidate, PlanWhatIf,
       PlannerFails, WhilePlanned, PlannerSteps
  <2>2. assessor' = assessor /\ artifact' = written'
    BY <1>5 DEF Planner, PlanCollector, PlanStorage, PlanRoles, PlanValidate, PlanWhatIf,
       PlannerFails, PlannerWrites
  <2>3. ASSUME NEW a \in Artifacts, a.present = artifact.present,
               NEW next \in PlannerSteps \cup {"done"}, PlannerWrites(a, next)
        PROVE  /\ artifact'.present = artifact.present \cup Writes(planner)
               /\ next = "done" => artifact'.listed = artifact'.present
               /\ planner' = next
    BY <2>3 DEF PlannerWrites, Manifested, Artifacts
  <2>4. WhilePlanned' /\ AllListed'
    <3>1. CASE PlannerFails
      BY <3>1 DEF PlannerFails, WhilePlanned, AllListed, PlannerSteps
    <3>2. CASE PlanCollector
      <4>1. [artifact EXCEPT !.principal = azure.principal] \in Artifacts
        BY DEF TypeOK, Artifacts, Azure
      <4> QED
        BY <1>2, <2>1, <2>2, <2>3, <3>2, <4>1 DEF PlanCollector, WhilePlanned, AllListed,
           WrittenBy, PlannerSteps, Artifacts
    <3>3. CASE PlanStorage
      <4> DEFINE a(b) == [artifact EXCEPT !.report_storage = b]
      <4>1. \A b \in BOOLEAN : a(b) \in Artifacts /\ a(b).present = artifact.present
        BY <1>2 DEF Artifacts
      <4>2. PICK b \in BOOLEAN : PlannerWrites(a(b), "roles")
        <5>1. (Planned \in azure.storage) \in BOOLEAN
          OBVIOUS
        <5> QED
          BY <3>3, <5>1 DEF PlanStorage
      <4> HIDE DEF a
      <4> QED
        BY <2>1, <2>2, <2>3, <3>3, <4>1, <4>2 DEF PlanStorage, WhilePlanned, AllListed,
           WrittenBy, PlannerSteps
    <3>4. CASE PlanRoles
      <4> DEFINE a == [artifact EXCEPT !.collector_roles = azure.roles,
                                       !.parameter = artifact.principal]
      <4>1. artifact.principal \in Principals \cup {None} /\ azure.roles \in BOOLEAN
        BY <1>2 DEF TypeOK, Artifacts, Azure
      <4>2. a \in Artifacts /\ a.present = artifact.present
        BY <1>2, <4>1 DEF Artifacts
      <4>3. PlannerWrites(a, "validate")
        BY <3>4 DEF PlanRoles
      <4> HIDE DEF a
      <4> QED
        BY <2>1, <2>2, <2>3, <3>4, <4>2, <4>3 DEF PlanRoles, WhilePlanned, AllListed,
           WrittenBy, PlannerSteps
    <3>5. CASE PlanValidate
      <4>1. [artifact EXCEPT !.validated = TRUE] \in Artifacts
        BY DEF TypeOK, Artifacts
      <4> QED
        BY <1>2, <2>1, <2>2, <2>3, <3>5, <4>1 DEF PlanValidate, WhilePlanned, AllListed,
           WrittenBy, PlannerSteps, Artifacts
    <3>6. CASE PlanWhatIf
      <4>1. PICK answer \in Answers :
                PlannerWrites([artifact EXCEPT !.what_if = answer], "done")
        <5>1. WhatIf(artifact.parameter) \in Answers
          BY <1>2, WhatIfType DEF Artifacts
        <5>2. PossibleOddPlans \subseteq Answers
          BY OddPlansAssumption DEF PossibleOddPlans
        <5> QED
          BY <3>6, <5>1, <5>2 DEF PlanWhatIf
      <4>2. [artifact EXCEPT !.what_if = answer] \in Artifacts
        BY <1>2 DEF Artifacts
      <4>3. planner' = "done" /\ artifact'.listed = artifact.present \cup Writes("what_if")
        BY <1>2, <2>3, <3>6, <4>1, <4>2 DEF Artifacts, PlanWhatIf
      <4>4. artifact.present \cup Writes("what_if") = Files
        <5>1. WrittenBy("what_if") \cup Writes("what_if") = Files
          BY DEF WrittenBy, Files, PlannerSteps
        <5>2. WrittenBy("what_if") \subseteq artifact.present
          BY <2>1, <3>6 DEF WhilePlanned, PlanWhatIf
        <5>3. artifact.present \subseteq Files
          BY <1>2 DEF Artifacts
        <5> QED
          BY <5>1, <5>2, <5>3
      <4> QED
        BY <4>3, <4>4 DEF WhilePlanned, AllListed, PlannerSteps
    <3> QED
      BY <1>5, <3>1, <3>2, <3>3, <3>4, <3>5, <3>6 DEF Planner
  <2> QED
    BY <1>1, <2>1, <2>2, <2>4 DEF FieldsHaveFiles, Differs, VerifiedPlanIsIntact, Accepted,
       Seen, AfterCollector, AfterStorage, AfterDeclared, AfterWhatIf, AfterNoRbac
<1>6. CASE Verify
  <2>1. /\ UNCHANGED <<azure, planner, artifact, written, evidence, saw>>
        /\ assessor = "waiting" /\ planner \in {"done", "failed"}
        /\ assessor' \in {"collector", "refused"}
    BY <1>6 DEF Verify
  <2>2. WhilePlanned' /\ AllListed' /\ FieldsHaveFiles'
    BY <2>1 DEF WhilePlanned, PlannerSteps, AllListed, FieldsHaveFiles, Differs
  <2>3. Seen'
    BY <2>1 DEF Seen, AfterCollector, AfterStorage, AfterDeclared, AfterWhatIf, AfterNoRbac
  <2>4. VerifiedPlanIsIntact'
    <3>1. CASE assessor' = "refused"
      BY <3>1 DEF VerifiedPlanIsIntact, Accepted
    <3>2. CASE assessor' = "collector"
      <4>1. planner = "done" /\ ManifestHolds(artifact) /\ Read \subseteq artifact.present
        BY <1>6, <3>2 DEF Verify, PlanVerified
      <4>2. artifact.damaged \cap Files = {}
        BY <4>1 DEF ManifestHolds, AllListed
      <4>3. {"request", "summary", "parameters", "report_storage", "collector_roles",
             "validation", "what_if"} \subseteq Files
        BY DEF Files, Writes, PlannerSteps
      <4>4. \A field \in {"request", "principal", "parameter", "report_storage",
                           "collector_roles", "validated", "what_if"} :
                artifact[field] = written[field]
        BY <4>2, <4>3 DEF FieldsHaveFiles, Differs
      <4> QED
        BY <2>1, <4>1, <4>4 DEF VerifiedPlanIsIntact
    <3> QED
      BY <2>1, <3>1, <3>2
  <2> QED
    BY <1>1, <2>2, <2>3, <2>4
<1>7. CASE Assessor /\ ~Verify
  <2>1. /\ assessor \in AssessorSteps
        /\ assessor' \notin {"waiting", "refused"}
        /\ UNCHANGED <<azure, planner, artifact, written>>
    BY <1>7 DEF Assessor, AssessCollector, AssessStorage, AssessUsage, AssessPolicy,
       AssessPolicyFails, AssessDeny, AssessDenyFails, AssessDeclared, AssessPrices,
       AssessValidation, AssessValidationFails, AssessWhatIf, WhatIfAnswered, Summarize,
       AssessorFails, Assess, AssessorSteps
  <2>2. /\ WhilePlanned' /\ AllListed' /\ FieldsHaveFiles' /\ VerifiedPlanIsIntact'
    <3>1. assessor \notin {"waiting", "refused"}
      BY <2>1 DEF AssessorSteps
    <3> QED
      BY <2>1, <3>1 DEF WhilePlanned, AllListed, FieldsHaveFiles, Differs,
         VerifiedPlanIsIntact, Accepted
  <2>3. Seen'
    <3>1. ASSUME NEW step \in AssessorSteps, saw' = Seeing(step)
          PROVE  /\ step \in DOMAIN saw' /\ saw'[step] = azure
                 /\ \A s \in DOMAIN saw : s # step => s \in DOMAIN saw' /\ saw'[s] = saw[s]
      BY <3>1 DEF Seeing
    <3>2. ASSUME NEW step \in AssessorSteps, NEW blocks, NEW next, Assess(step, blocks, next)
          PROVE  /\ evidence'.blocking = evidence.blocking \cup blocks
                 /\ evidence'.plans = evidence.plans
                 /\ assessor = step /\ assessor' = next /\ saw' = Seeing(step)
      BY <3>2 DEF Assess, TypeOK
    <3> USE DEF AfterCollector, AfterStorage, AfterDeclared, AfterWhatIf, AfterNoRbac
    <3>3. {"collector", "storage", "usage", "policy", "deny", "declared", "prices",
           "validate", "what_if", "no_rbac"} \subseteq AssessorSteps
      BY DEF AssessorSteps
    <3>4. \A check, holds : check \in If(check, holds) \/ holds
      BY DEF If
    <3>5. CASE AssessCollector
      <4>1. Assess("collector",
                   If("collector", azure.healthy)
                     \cup If("principal", azure.principal = artifact.principal),
                   "storage")
        BY <3>5 DEF AssessCollector
      <4>2. /\ assessor' = "storage" /\ saw' = Seeing("collector")
            /\ If("principal", azure.principal = artifact.principal) \subseteq evidence'.blocking
        BY <3>2, <3>3, <4>1
      <4>3. "collector" \in DOMAIN saw' /\ saw'["collector"] = azure
        BY <3>1, <3>3, <4>2
      <4>4. "principal" \in evidence'.blocking \/ azure.principal = artifact.principal
        BY <4>2 DEF If
      <4> QED
        BY <2>1, <4>2, <4>3, <4>4 DEF Seen
    <3>6. CASE AssessStorage
      <4>1. Assess("storage", If("storage", azure.storage = {}), "usage")
        BY <3>6 DEF AssessStorage
      <4>2. /\ assessor' = "usage" /\ assessor = "storage" /\ saw' = Seeing("storage")
            /\ evidence'.blocking = evidence.blocking \cup If("storage", azure.storage = {})
        BY <3>2, <3>3, <4>1
      <4>3. /\ "storage" \in DOMAIN saw' /\ saw'["storage"] = azure
            /\ "collector" \in DOMAIN saw => "collector" \in DOMAIN saw'
                                             /\ saw'["collector"] = saw["collector"]
        BY <3>1, <3>3, <4>2
      <4>4. "storage" \in evidence'.blocking \/ azure.storage = {}
        BY <4>2 DEF If
      <4> QED
        BY <2>1, <4>2, <4>3, <4>4 DEF Seen
    <3>7. CASE AssessDeclared
      <4>1. Assess("declared", If("declared", DeclaredGrant(azure.declared)), "prices")
        BY <3>7 DEF AssessDeclared
      <4> QED
        BY <2>1, <3>1, <3>2, <3>3, <3>4, <4>1 DEF Seen
    <3>8. ASSUME NEW blocks, NEW step \in {"usage", "policy", "deny", "validate"},
                 Assess(step, blocks, CASE step = "usage" -> "policy"
                                        [] step = "policy" -> "deny"
                                        [] step = "deny" -> "declared"
                                        [] step = "validate" -> "what_if")
          PROVE  Seen'
      BY <2>1, <3>1, <3>2, <3>3, <3>8 DEF Seen
    <3>9. CASE \/ AssessUsage \/ AssessPolicy \/ AssessPolicyFails \/ AssessDeny
               \/ AssessDenyFails \/ AssessValidation \/ AssessValidationFails
      BY <3>8, <3>9 DEF AssessUsage, AssessPolicy, AssessPolicyFails, AssessDeny,
         AssessDenyFails, AssessValidation, AssessValidationFails
    <3>10. CASE AssessPrices
      <4>1. /\ assessor = "prices" /\ assessor' = "validate" /\ saw' = Seeing("prices")
            /\ evidence.blocking \subseteq evidence'.blocking
        BY <3>10 DEF AssessPrices, TypeOK
      <4> QED
        BY <2>1, <3>1, <3>3, <4>1 DEF Seen
    <3>11. ASSUME NEW step \in {"what_if", "no_rbac"}, NEW next, AssessWhatIf(step, next)
           PROVE  /\ assessor = step /\ assessor' = next /\ saw' = Seeing(step)
                  /\ evidence.blocking \subseteq evidence'.blocking
                  /\ \A s \in {"what_if", "no_rbac"} : s # step =>
                        evidence'.plans[s] = evidence.plans[s]
                  /\ \A c \in Creates(evidence'.plans[step]) : c.of \notin azure.storage
      <4>1. PICK payload \in PossibleOddPlans \cup {NoPlan, WhatIf(artifact.parameter)} :
                WhatIfAnswered(step, payload, next)
        BY <3>11 DEF AssessWhatIf
      <4>2. /\ evidence'.plans = [evidence.plans EXCEPT ![step] = payload]
            /\ evidence.blocking \subseteq evidence'.blocking
        BY <4>1 DEF WhatIfAnswered, TypeOK
      <4>3. evidence.plans \in [{"what_if", "no_rbac"} -> Answers]
        BY DEF TypeOK
      <4>4. \A c \in Creates(payload) : c.of \notin azure.storage
        <5>1. CASE payload \in PossibleOddPlans
          BY <5>1 DEF PossibleOddPlans
        <5>2. CASE payload = NoPlan
          BY <5>2 DEF NoPlan, Creates
        <5>3. CASE payload = WhatIf(artifact.parameter)
          BY <5>3 DEF WhatIf, Plan, Creates
        <5> QED
          BY <5>1, <5>2, <5>3
      <4> QED
        BY <4>1, <4>2, <4>3, <4>4 DEF WhatIfAnswered
    <3>12. CASE AssessWhatIf("what_if", "no_rbac")
      BY <2>1, <3>1, <3>3, <3>11, <3>12 DEF Seen, StillAbsent
    <3>13. CASE AssessWhatIf("no_rbac", "summary")
      BY <2>1, <3>1, <3>3, <3>11, <3>13 DEF Seen, StillAbsent
    <3>14. CASE Summarize
      BY <2>1, <3>14 DEF Summarize, Seen, StillAbsent
    <3>15. CASE AssessorFails
      BY <2>1, <3>15 DEF AssessorFails, Seen, StillAbsent
    <3> QED
      BY <1>7, <3>5, <3>6, <3>7, <3>9, <3>10, <3>12, <3>13, <3>14, <3>15 DEF Assessor
  <2> QED
    BY <1>1, <2>2, <2>3
<1>8. CASE UNCHANGED vars
  BY <1>1, <1>8 DEF vars, WhilePlanned, AllListed, FieldsHaveFiles, Differs,
     VerifiedPlanIsIntact, Accepted, Seen, StillAbsent
<1> QED
  BY <1>3, <1>4, <1>5, <1>6, <1>7, <1>8 DEF Next, Assessor

-----------------------------------------------------------------------------
(* The theorems.                                                           *)

THEOREM InvariantHolds == Spec => []IInv
<1> QED
  BY InvInit, InvStep, PTL DEF Spec

\* Every variable keeps its type, for every estate and every template.
THEOREM TypeCorrect == Spec => []TypeOK
<1>1. IInv => TypeOK
  BY DEF IInv
<1> QED
  BY <1>1, InvariantHolds, PTL

\* An assessment only begins on what a planner that ended wrote.
THEOREM PlansAreIntact == Spec => []VerifiedPlanIsIntact
<1>1. IInv => VerifiedPlanIsIntact
  BY DEF IInv
<1> QED
  BY <1>1, InvariantHolds, PTL

\* Readiness was clear when each of the assessor's commands looked.
THEOREM ReadinessWasClear == Spec => []ReadyWasClear
<1>1. IInv => ReadyWasClear
  <2> SUFFICES ASSUME IInv, assessor = "ready" PROVE ReadyWasClear
    BY DEF ReadyWasClear
  <2>1. artifact.principal = written.principal
    BY DEF IInv, VerifiedPlanIsIntact, Accepted
  <2> QED
    BY <2>1 DEF IInv, Seen, StillAbsent, ReadyWasClear, AfterCollector, AfterStorage,
       AfterDeclared, AfterWhatIf, AfterNoRbac
<1> QED
  BY <1>1, InvariantHolds, PTL
=============================================================================
