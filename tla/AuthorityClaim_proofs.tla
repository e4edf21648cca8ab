------------------------- MODULE AuthorityClaim_proofs -------------------------
(***************************************************************************)
(* Proofs about AuthorityClaim, for every set of runs, requests, ids and   *)
(* commits, whatever tags administrators delete.                           *)
(***************************************************************************)
EXTENDS AuthorityClaim, TLAPS

\* The run has passed its claim job in its first attempt.
ClaimedPhases == {"upload"} \cup DeployPhases

\* The run has been admitted by the deploy job.
AdmittedPhases == DeployPhases \ {"approval", "enforce"}

\* The run has logged in.
LoggedInPhases == AdmittedPhases \ {"login"}

\* A winner's id is the id of its request, and the tag is the winner's until
\* it is deleted.
WinnersHoldTag ==
    \A x \in winners :
        /\ x[1] = RequestId(x[2])
        /\ x[1] \notin deleted => ledger[x[1]] = commit[x[2]]

\* Only first attempts log in.
FirstAttemptsLogIn == \A x \in logins : x[3] = 1

\* A first attempt beyond the creation of the tag is a winner; a later one
\* may reach the deploy job without creating a tag, but is not admitted.
PhaseInv ==
    \A r \in Runs :
        /\ phase[r] \in ClaimedPhases /\ attempt[r] = 1 => Stamp(r) \in winners
        /\ phase[r] \in AdmittedPhases => attempt[r] = 1
        /\ phase[r] \in LoggedInPhases => Stamp(r) \in logins
        /\ phase[r] \in {"infra", "verify"} =>
               <<"entra", r, attempt[r]>> \in built

IInv ==
    /\ TypeOK
    /\ WinnersHoldTag
    /\ AtMostOneWinner
    /\ PhaseInv
    /\ logins \subseteq winners
    /\ FirstAttemptsLogIn
    /\ BuiltByWinner

-----------------------------------------------------------------------------
(* Type correctness.                                                       *)

\* Every step keeps the types.
LEMMA TypeStep ==
    ASSUME TypeOK, [Next]_vars
    PROVE  TypeOK'
<1> USE ClaimAssumption
    DEF TypeOK, Phases, ClaimPhases, DeployPhases, Kinds, Attempts, Goto,
        inputs, outside, Stamp, RequestId
<1>1. ASSUME NEW r \in Runs, Dispatch(r)
     PROVE  TypeOK'
  BY <1>1 DEF Dispatch
<1>2. ASSUME NEW r \in Runs, Validate(r)
     PROVE  TypeOK'
  BY <1>2 DEF Validate
<1>3. ASSUME NEW r \in Runs, Consume(r)
     PROVE  TypeOK'
  BY <1>3 DEF Consume
<1>4. ASSUME NEW r \in Runs, ConsumeUnheard(r)
     PROVE  TypeOK'
  BY <1>4 DEF ConsumeUnheard
<1>5. ASSUME NEW r \in Runs, Replay(r)
     PROVE  TypeOK'
  BY <1>5 DEF Replay
<1>7. ASSUME NEW r \in Runs, Upload(r)
     PROVE  TypeOK'
  BY <1>7 DEF Upload
<1>8. ASSUME NEW r \in Runs, Approve(r)
     PROVE  TypeOK'
  BY <1>8 DEF Approve
<1>9. ASSUME NEW r \in Runs, Enforce(r)
     PROVE  TypeOK'
  BY <1>9 DEF Enforce
<1>10. ASSUME NEW r \in Runs, Login(r)
     PROVE  TypeOK'
  BY <1>10 DEF Login
<1>11. ASSUME NEW r \in Runs, CheckContext(r)
     PROVE  TypeOK'
  BY <1>11 DEF CheckContext, Build
<1>12. ASSUME NEW r \in Runs, DeployEntra(r)
     PROVE  TypeOK'
  BY <1>12 DEF DeployEntra, Build
<1>13. ASSUME NEW r \in Runs, DeployInfra(r)
     PROVE  TypeOK'
  BY <1>13 DEF DeployInfra, Build
<1>14. ASSUME NEW r \in Runs, Verify(r)
     PROVE  TypeOK'
  BY <1>14 DEF Verify
<1>15. ASSUME NEW r \in Runs, StepFails(r)
     PROVE  TypeOK'
  BY <1>15 DEF StepFails
<1>16. ASSUME NEW r \in Runs, RerunAll(r)
     PROVE  TypeOK'
  BY <1>16 DEF RerunAll
<1>17. ASSUME NEW r \in Runs, RerunDeploy(r)
     PROVE  TypeOK'
  BY <1>17 DEF RerunDeploy
<1>18. ASSUME NEW i \in Ids, DeleteTag(i)
     PROVE  TypeOK'
  BY <1>18 DEF DeleteTag
<1>19. CASE Tick
  BY <1>19 DEF Tick
<1>20. CASE UNCHANGED vars
  BY <1>20 DEF vars
<1> QED
  BY <1>1, <1>2, <1>3, <1>4, <1>5, <1>7, <1>8, <1>9, <1>10, <1>11, <1>12, <1>13, <1>14,
     <1>15, <1>16, <1>17, <1>18, <1>19, <1>20 DEF Next, ClaimJob, DeployJob

\* The variables of AuthorityClaim keep their types (phases, tags, histories).
THEOREM TypeCorrect == Spec => []TypeOK
<1>1. Init => TypeOK
  BY ClaimAssumption DEF Init, TypeOK, Phases, Attempts
<1> QED
  BY <1>1, TypeStep, PTL DEF Spec

-----------------------------------------------------------------------------
(* The inductive invariant.                                                *)

LEMMA InitIInv == Init => IInv
  BY ClaimAssumption
  DEF Init, IInv, TypeOK, Phases, Attempts, WinnersHoldTag, AtMostOneWinner,
      PhaseInv, ClaimedPhases, AdmittedPhases, LoggedInPhases, DeployPhases,
      BuiltByWinner, FirstAttemptsLogIn

\* Every step keeps the inductive invariant.
LEMMA NextIInv ==
    ASSUME IInv, [Next]_vars
    PROVE  IInv'
<1> USE ClaimAssumption
<1>1. TypeOK'
  BY TypeStep DEF IInv
<1> DEFINE Rest == /\ WinnersHoldTag /\ AtMostOneWinner /\ PhaseInv
                   /\ logins \subseteq winners
                   /\ FirstAttemptsLogIn
                   /\ BuiltByWinner
<1>2. Rest'
  <2> USE <1>1
      DEF IInv, TypeOK, WinnersHoldTag, AtMostOneWinner, PhaseInv,
          ClaimedPhases, AdmittedPhases, LoggedInPhases, Phases, ClaimPhases,
          DeployPhases, Attempts, BuiltByWinner, Goto, inputs, outside, Stamp, RequestId,
          FirstAttemptsLogIn
  <2>1. ASSUME NEW r \in Runs, Dispatch(r)
       PROVE  Rest'
    BY <2>1 DEF Dispatch
  <2>2. ASSUME NEW r \in Runs, Validate(r)
       PROVE  Rest'
    BY <2>2 DEF Validate
  <2>3. ASSUME NEW r \in Runs, Consume(r)
       PROVE  Rest'
    <3> USE <2>3 DEF Consume
    <3>1. \A x \in winners : x[1] \notin deleted => x[1] # RequestId(r)
      OBVIOUS
    <3>2. winners' = winners \cup {Stamp(r)}
      OBVIOUS
    <3>3. WinnersHoldTag'
      BY <3>1, <3>2
    <3>4. AtMostOneWinner'
      BY <3>1, <3>2
    <3>5. PhaseInv'
      BY <3>2
    <3>6. (logins \subseteq winners)' /\ FirstAttemptsLogIn' /\ BuiltByWinner'
      BY <3>2
    <3> QED
      BY <3>3, <3>4, <3>5, <3>6
  <2>4. ASSUME NEW r \in Runs, ConsumeUnheard(r)
       PROVE  Rest'
    BY <2>4 DEF ConsumeUnheard
  <2>5. ASSUME NEW r \in Runs, Replay(r)
       PROVE  Rest'
    BY <2>5 DEF Replay
  <2>7. ASSUME NEW r \in Runs, Upload(r)
       PROVE  Rest'
    BY <2>7 DEF Upload
  <2>8. ASSUME NEW r \in Runs, Approve(r)
       PROVE  Rest'
    BY <2>8 DEF Approve
  <2>9. ASSUME NEW r \in Runs, Enforce(r)
       PROVE  Rest'
    BY <2>9 DEF Enforce, Admitted
  <2>10. ASSUME NEW r \in Runs, Login(r)
       PROVE  Rest'
    <3> USE <2>10 DEF Login
    <3>1. Stamp(r) \in winners
      OBVIOUS
    <3>2. logins' = logins \cup {Stamp(r)}
      OBVIOUS
    <3>3. WinnersHoldTag' /\ AtMostOneWinner' /\ BuiltByWinner'
      BY <3>2
    <3>4. PhaseInv'
      BY <3>2
    <3>5. (logins \subseteq winners)'
      BY <3>1, <3>2
    <3>6. attempt[r] = 1
      OBVIOUS
    <3>7. FirstAttemptsLogIn'
      BY <3>2, <3>6 DEF FirstAttemptsLogIn
    <3> QED
      BY <3>3, <3>4, <3>5, <3>7
  <2>11. ASSUME NEW r \in Runs, CheckContext(r)
       PROVE  Rest'
    <3>1. CASE Build(r, "providers", "entra")
      BY <3>1, <2>11 DEF CheckContext, Build
    <3>2. CASE UNCHANGED built
      BY <3>2, <2>11 DEF CheckContext, Build
    <3> QED
      BY <2>11, <3>1, <3>2 DEF CheckContext
  <2>12. ASSUME NEW r \in Runs, DeployEntra(r)
       PROVE  Rest'
    BY <2>12 DEF DeployEntra, Build
  <2>13. ASSUME NEW r \in Runs, DeployInfra(r)
       PROVE  Rest'
    BY <2>13 DEF DeployInfra, Build
  <2>14. ASSUME NEW r \in Runs, Verify(r)
       PROVE  Rest'
    BY <2>14 DEF Verify
  <2>15. ASSUME NEW r \in Runs, StepFails(r)
       PROVE  Rest'
    BY <2>15 DEF StepFails
  <2>16. ASSUME NEW r \in Runs, RerunAll(r)
       PROVE  Rest'
    BY <2>16 DEF RerunAll
  <2>17. ASSUME NEW r \in Runs, RerunDeploy(r)
       PROVE  Rest'
    BY <2>17 DEF RerunDeploy
  <2>18. ASSUME NEW i \in Ids, DeleteTag(i)
       PROVE  Rest'
    BY <2>18 DEF DeleteTag
  <2>19. CASE Tick
    BY <2>19 DEF Tick
  <2>20. CASE UNCHANGED vars
    BY <2>20 DEF vars
  <2> QED
    BY <2>1, <2>2, <2>3, <2>4, <2>5, <2>7, <2>8, <2>9, <2>10, <2>11, <2>12, <2>13, <2>14,
       <2>15, <2>16, <2>17, <2>18, <2>19, <2>20 DEF Next, ClaimJob, DeployJob
<1> QED
  BY <1>1, <1>2 DEF IInv

-----------------------------------------------------------------------------
(* Safety.                                                                 *)

\* The inductive invariant holds throughout.
THEOREM ClaimInvariant == Spec => []IInv
<1>1. IInv /\ [Next]_vars => IInv'
  BY NextIInv
<1> QED
  BY InitIInv, <1>1, PTL DEF Spec

\* However many runs race for a request whose tag nobody deletes, one attempt
\* at most creates it.
THEOREM OneWinner == Spec => []AtMostOneWinner
<1>1. IInv => AtMostOneWinner
  BY DEF IInv
<1> QED
  BY <1>1, ClaimInvariant, PTL

\* A request buys one login, made by the attempt that holds the tag.
THEOREM OneLogin == Spec => [](OneLoginPerRequest /\ LoginHoldsClaim)
<1>1. IInv => OneLoginPerRequest /\ LoginHoldsClaim
  BY DEF IInv, AtMostOneWinner, OneLoginPerRequest, LoginHoldsClaim,
         WinnersHoldTag
<1> QED
  BY <1>1, ClaimInvariant, PTL

\* A run logs in once, even if its tag is deleted and it is rerun.
THEOREM OneLoginPerRunThm == Spec => []OneLoginPerRun
<1>1. IInv => OneLoginPerRun
  <2> SUFFICES ASSUME IInv, NEW x \in logins, NEW y \in logins, x[2] = y[2]
               PROVE  x = y
    BY DEF OneLoginPerRun
  <2>1. x \in Ids \X Runs \X Attempts /\ y \in Ids \X Runs \X Attempts
    BY DEF IInv, TypeOK
  <2>2. x[3] = y[3]
    BY DEF IInv, FirstAttemptsLogIn
  <2>3. x[1] = y[1]
    BY DEF IInv, WinnersHoldTag
  <2> QED
    BY <2>1, <2>2, <2>3
<1> QED
  BY <1>1, ClaimInvariant, PTL

\* Only the attempt that logged in changes Azure, Entra before infrastructure.
THEOREM OnlyTheWinnerBuilds == Spec => []BuiltByWinner
<1>1. IInv => BuiltByWinner
  BY DEF IInv
<1> QED
  BY <1>1, ClaimInvariant, PTL

\* A tag that nobody deletes stays where it is, under every action.
THEOREM TagIsFinal == Spec => ConsumptionIsFinal
<1>1. ASSUME TypeOK, [Next]_vars
      PROVE  [\A i \in Ids : ledger[i] # None /\ i \notin deleted'
                               => ledger'[i] = ledger[i]]_ledger
  <2> USE <1>1 DEF TypeOK, RequestId, outside, inputs
  <2>1. CASE UNCHANGED ledger
    BY <2>1
  <2>2. ASSUME NEW r \in Runs, Consume(r) \/ ConsumeUnheard(r)
        PROVE  \A i \in Ids : ledger[i] # None => ledger'[i] = ledger[i]
    BY <2>2 DEF Consume, ConsumeUnheard
  <2>3. ASSUME NEW i \in Ids, DeleteTag(i)
        PROVE  \A j \in Ids : j \notin deleted' => ledger'[j] = ledger[j]
    BY <2>3 DEF DeleteTag
  <2> QED
    BY <1>1, <2>1, <2>2, <2>3
    DEF Next, vars, ClaimJob, DeployJob, Dispatch, Validate, Replay,
        Upload, Approve, Enforce, Login, CheckContext, DeployEntra,
        DeployInfra, Build, Verify, StepFails, RerunAll, RerunDeploy, Tick
<1> QED
  BY <1>1, TypeCorrect, PTL DEF Spec, ConsumptionIsFinal

-----------------------------------------------------------------------------
(* What is built is what was reviewed.                                     *)

\* The claim job of the run has passed validation, in this attempt or, when
\* only the deploy job is rerun, in an earlier one.
ValidatedPhases ==
    {"create", "upload", "deploy_failed", "succeeded"} \cup DeployPhases

\* The reviewed request stands behind every run beyond validation, the
\* confirmation and the scope behind every run beyond the deploy job's checks.
ReviewInv ==
    /\ \A r \in Runs :
         /\ phase[r] \in ValidatedPhases =>
              /\ request[r] \in WellFormed
              /\ <<request[r], commit[r]>> \in Delta
         /\ phase[r] \in AdmittedPhases =>
              /\ request[r] \in InScope
              /\ confirmed[r]
    /\ BuiltAsReviewed

LEMMA InitReview == Init => ReviewInv
  BY DEF Init, ReviewInv, BuiltAsReviewed, ValidatedPhases, AdmittedPhases,
         DeployPhases

\* The inputs of a run never change, so what was checked stays checked.
LEMMA NextReview ==
    ASSUME TypeOK, ReviewInv, [Next]_vars
    PROVE  ReviewInv'
<1> USE DEF TypeOK, ReviewInv, BuiltAsReviewed, ValidatedPhases, AdmittedPhases,
            Phases, ClaimPhases, DeployPhases, Goto, inputs, outside
<1>1. CASE UNCHANGED <<phase, inputs, built>>
  BY <1>1
<1>2. ASSUME NEW r \in Runs, Dispatch(r) \/ RerunAll(r) PROVE ReviewInv'
  BY <1>2 DEF Dispatch, RerunAll
<1>3. ASSUME NEW r \in Runs, Validate(r) PROVE ReviewInv'
  BY <1>3 DEF Validate, Valid
<1>4. ASSUME NEW r \in Runs, Consume(r) \/ ConsumeUnheard(r) \/ Replay(r) \/ Upload(r)
      PROVE  ReviewInv'
  BY <1>4 DEF Consume, ConsumeUnheard, Replay, Upload
<1>5. ASSUME NEW r \in Runs, Approve(r) \/ RerunDeploy(r) PROVE ReviewInv'
  BY <1>5 DEF Approve, RerunDeploy
<1>6. ASSUME NEW r \in Runs, Enforce(r) PROVE ReviewInv'
  BY <1>6 DEF Enforce, Admitted
<1>7. ASSUME NEW r \in Runs, Login(r) \/ Verify(r) PROVE ReviewInv'
  BY <1>7 DEF Login, Verify
<1>8. ASSUME NEW r \in Runs, NEW kind, NEW next \in {"entra", "infra", "verify"},
             phase[r] \in AdmittedPhases, Build(r, kind, next)
      PROVE  ReviewInv'
  <2>1. built' = built \cup {<<kind, r, attempt[r]>>}
    BY <1>8 DEF Build
  <2>2. \A b \in built' : b \in built \/ b[2] = r
    BY <2>1
  <2>3. UNCHANGED inputs
    BY <1>8 DEF Build
  <2>4. BuiltAsReviewed'
    BY <1>8, <2>2, <2>3
  <2>5. phase' = [phase EXCEPT ![r] = next] \/ phase' = [phase EXCEPT ![r] = "deploy_failed"]
    BY <1>8 DEF Build
  <2> QED BY <1>8, <2>3, <2>4, <2>5
<1>9. ASSUME NEW r \in Runs, CheckContext(r) PROVE ReviewInv'
  <2>1. CASE Build(r, "providers", "entra")
    BY <1>8, <1>9, <2>1 DEF CheckContext
  <2>2. CASE Goto(r, "entra") /\ UNCHANGED <<inputs, built>>
    BY <1>9, <2>2 DEF CheckContext
  <2> QED BY <1>9, <2>1, <2>2 DEF CheckContext
<1>10. ASSUME NEW r \in Runs, DeployEntra(r) \/ DeployInfra(r) PROVE ReviewInv'
  BY <1>8, <1>10 DEF DeployEntra, DeployInfra
<1>11. ASSUME NEW r \in Runs, StepFails(r) PROVE ReviewInv'
  BY <1>11 DEF StepFails
<1>12. ASSUME NEW i \in Ids, DeleteTag(i) PROVE ReviewInv'
  BY <1>1, <1>12 DEF DeleteTag
<1>13. CASE Tick
  BY <1>1, <1>13 DEF Tick
<1>14. CASE UNCHANGED vars
  BY <1>1, <1>14 DEF vars
<1> QED
  BY <1>2, <1>3, <1>4, <1>5, <1>6, <1>7, <1>9, <1>10, <1>11, <1>12, <1>13, <1>14
  DEF Next, ClaimJob, DeployJob

\* Whatever fails and however runs are rerun, all that is deployed belongs to a
\* reviewed, confirmed request in scope, for any number of runs and requests.
THEOREM OnlyReviewedIsBuilt == Spec => []BuiltAsReviewed
<1>1. ReviewInv => BuiltAsReviewed
  BY DEF ReviewInv
<1>2. TypeOK /\ ReviewInv /\ [Next]_vars => ReviewInv'
  BY NextReview
<1> QED
  BY InitReview, <1>1, <1>2, TypeCorrect, PTL DEF Spec
=============================================================================
