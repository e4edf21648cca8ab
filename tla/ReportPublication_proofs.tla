----------------------- MODULE ReportPublication_proofs -----------------------
(***************************************************************************)
(* What the report-publication executor guarantees for any number of runs  *)
(* and of lifecycle deployments, and what the publication command promises *)
(* its readers, for every number of invocations, every job and every       *)
(* length of time.                                                         *)
(***************************************************************************)
EXTENDS ReportPublication, ReportDelivery, TLAPS

(* The invariant behind the second theorem: whenever the account exists, a *)
(* run that is past its What-If looked before the account came about; and  *)
(* a run that has not looked yet has no rollback to perform.               *)
LookedBefore ==
    /\ \A r \in Runs : pc[r] \in Looked /\ owner # None => r \in newTo
    /\ \A r \in Runs : pc[r] \in {"idle", "inventory", "whatif"} => ~armed[r]

(* TypeOK is inductive: no step of the executor, of Azure or of the        *)
(* lifecycle workflow leaves the types.                                    *)
THEOREM TypeCorrect == Spec => []TypeOK
<1>1. Init => TypeOK
  BY PublicationAssumption DEF Init, TypeOK, JobStates
<1>2. TypeOK /\ [Next]_vars => TypeOK'
  <2> SUFFICES ASSUME TypeOK, [Next]_vars
               PROVE  TypeOK'
    OBVIOUS
  <2> USE DEF TypeOK, Active, Working, RollingBack, Goto, account, cloud, evidence
  <2>1. CASE UNCHANGED vars
    BY <2>1 DEF vars
  <2>2. ASSUME NEW r \in Runs, Execute(r)
        PROVE  TypeOK'
    <3>1. CASE Start(r)
      BY <3>1 DEF Start
    <3>2. CASE Inventory(r)
      BY <3>2 DEF Inventory
    <3>3. CASE WhatIf(r)
      BY <3>3 DEF WhatIf
    <3>4. CASE Deploy(r)
      BY <3>4 DEF Deploy, Submitted, JobStates
    <3>5. CASE DeployReturns(r)
      BY <3>5 DEF DeployReturns
    <3>6. CASE Verify(r)
      BY <3>6 DEF Verify
    <3>7. CASE Analyse(r)
      BY <3>7 DEF Analyse
    <3>8. CASE Publish(r)
      BY <3>8 DEF Publish, JobStates
    <3>9. CASE PublishReturns(r)
      BY <3>9 DEF PublishReturns
    <3>10. CASE Fetch(r)
      BY <3>10 DEF Fetch
    <3>11. CASE Record(r)
      BY <3>11 DEF Record, Note, Notes
    <3>12. CASE Disarm(r)
      BY <3>12 DEF Disarm
    <3>13. CASE Summary(r)
      BY <3>13 DEF Summary, Note, Notes
    <3>14. CASE RollbackInventory(r)
      BY <3>14 DEF RollbackInventory
    <3>15. CASE RollbackSeesNothing(r)
      BY <3>15 DEF RollbackSeesNothing, Happened, Mishaps
    <3>16. CASE RollbackDelete(r)
      BY <3>16 DEF RollbackDelete, Removed, Happened, Mishaps
    <3>17. CASE RollbackCheck(r)
      BY <3>17 DEF RollbackCheck, Note, Notes, Happened, Mishaps
    <3> QED
      BY <2>2, <3>1, <3>2, <3>3, <3>4, <3>5, <3>6, <3>7, <3>8, <3>9, <3>10,
         <3>11, <3>12, <3>13, <3>14, <3>15, <3>16, <3>17 DEF Execute
  <2>3. ASSUME NEW r \in Runs, Fail(r)
        PROVE  TypeOK'
    BY <2>3 DEF Fail, Happened, Mishaps
  <2>4. ASSUME NEW r \in Runs, Stop(r)
        PROVE  TypeOK'
    BY <2>4 DEF Stop
  <2>5. ASSUME NEW r \in Runs, NEW x \in Resources, Put(r, x)
        PROVE  TypeOK'
    BY <2>5 DEF Put, Creates
  <2>6. ASSUME NEW r \in Runs, DeploymentEnds(r)
        PROVE  TypeOK'
    BY <2>6 DEF DeploymentEnds, JobStates
  <2>7. ASSUME NEW r \in Runs, PublisherPuts(r)
        PROVE  TypeOK'
    BY <2>7 DEF PublisherPuts, JobStates
  <2>8. ASSUME NEW r \in Runs, PublisherGivesUp(r)
        PROVE  TypeOK'
    BY <2>8 DEF PublisherGivesUp, JobStates
  <2>9. CASE LifecycleDeploys
    BY <2>9, PublicationAssumption DEF LifecycleDeploys, Creates
  <2> QED
    BY <2>1, <2>2, <2>3, <2>4, <2>5, <2>6, <2>7, <2>8, <2>9 DEF Next, Azure
<1> QED
  BY <1>1, <1>2, PTL DEF Spec

(* Only What-If leads past the look, and it saw no account; whoever brings *)
(* the account about finds every such run in newTo.                        *)
LEMMA LookedStep == TypeOK /\ LookedBefore /\ [Next]_vars => LookedBefore'
<1> SUFFICES ASSUME TypeOK, LookedBefore, [Next]_vars
             PROVE  LookedBefore'
  OBVIOUS
<1> USE DEF LookedBefore, TypeOK, Looked, Active, Working, RollingBack, Goto, account
<1>1. CASE UNCHANGED vars
  BY <1>1 DEF vars
<1>2. ASSUME NEW r \in Runs, Execute(r)
      PROVE  LookedBefore'
  <2>1. CASE Start(r) \/ Inventory(r)
    BY <2>1 DEF Start, Inventory
  <2>2. CASE WhatIf(r)
    BY <2>2 DEF WhatIf
  <2>3. CASE RollbackDelete(r)
    BY <2>3 DEF RollbackDelete, Removed
  <2>4. CASE Deploy(r) \/ DeployReturns(r) \/ Verify(r) \/ Analyse(r)
    BY <2>4 DEF Deploy, DeployReturns, Verify, Analyse
  <2>5. CASE Publish(r) \/ PublishReturns(r) \/ Fetch(r) \/ Record(r)
    BY <2>5 DEF Publish, PublishReturns, Fetch, Record
  <2>6. CASE Disarm(r) \/ Summary(r)
    BY <2>6 DEF Disarm, Summary
  <2>7. CASE RollbackInventory(r) \/ RollbackSeesNothing(r) \/ RollbackCheck(r)
    BY <2>7 DEF RollbackInventory, RollbackSeesNothing, RollbackCheck
  <2> QED
    BY <1>2, <2>1, <2>2, <2>3, <2>4, <2>5, <2>6, <2>7 DEF Execute
<1>3. ASSUME NEW r \in Runs, Fail(r)
      PROVE  LookedBefore'
  BY <1>3 DEF Fail
<1>4. ASSUME NEW r \in Runs, Stop(r)
      PROVE  LookedBefore'
  BY <1>4 DEF Stop
<1>5. ASSUME NEW r \in Runs, NEW x \in Resources, Put(r, x)
      PROVE  LookedBefore'
  BY <1>5 DEF Put, Creates
<1>6. ASSUME NEW r \in Runs, DeploymentEnds(r)
      PROVE  LookedBefore'
  BY <1>6 DEF DeploymentEnds
<1>7. ASSUME NEW r \in Runs, PublisherPuts(r)
      PROVE  LookedBefore'
  BY <1>7 DEF PublisherPuts
<1>8. ASSUME NEW r \in Runs, PublisherGivesUp(r)
      PROVE  LookedBefore'
  BY <1>8 DEF PublisherGivesUp
<1>9. CASE LifecycleDeploys
  BY <1>9 DEF LifecycleDeploys, Creates
<1> QED
  BY <1>1, <1>2, <1>3, <1>4, <1>5, <1>6, <1>7, <1>8, <1>9 DEF Next, Azure

LEMMA AlwaysLooked == Spec => []LookedBefore
<1>1. Init => LookedBefore
  BY DEF Init, LookedBefore, Looked, Active, Working, RollingBack
<1> QED
  BY <1>1, LookedStep, TypeCorrect, PTL DEF Spec

(* A rollback deletes no account that existed when its run looked: for     *)
(* every number of runs and of lifecycle deployments.                      *)
THEOREM SparesPreexisting == Spec => PreexistingSpared
<1>1. LookedBefore /\ [Next]_vars =>
        [owner # None /\ owner' = None =>
           \A r \in Runs : pc[r] = "rb_delete" => r \in newTo]_vars
  BY DEF LookedBefore, Looked, Active, RollingBack
<1> QED
  BY <1>1, AlwaysLooked, PTL DEF Spec, PreexistingSpared

(* The invariant behind the third theorem.  One run is active at a time.   *)
(* An account that is absent holds nothing.  While a run that is past its  *)
(* preflight is active the VM runs no script but its own, and none once    *)
(* that script has succeeded.  From Verify on the resources stand, from    *)
(* Fetch on the URL serves the run.  Beside a run that succeeded no run is *)
(* past its What-If, and the VM runs nothing.                              *)
Serial == \A p, q \in Runs : pc[p] \in Active /\ pc[q] \in Active => p = q

AbsentIsEmpty == owner = None => built = {} /\ blob = None

OwnScript ==
    \A p, q \in Runs :
        pc[p] \in Active \ {"inventory"} /\ publication[q] = "running" => q = p

ScriptDone ==
    \A r \in Runs :
        pc[r] \in {"fetch", "record", "disarm", "summary"}
            => publication[r] = "succeeded"

Standing ==
    \A r \in Runs :
        /\ pc[r] \in {"analyse", "publish", "publishing", "fetch"}
              => built = Resources
        /\ pc[r] \in {"record", "disarm", "summary"}
              => built = Resources /\ blob = r

Settled ==
    \A r \in Runs : exit[r] = "ok" =>
        /\ built = Resources /\ blob = r
        /\ \A q \in Runs : pc[q] \notin Looked /\ publication[q] # "running"

Served ==
    /\ Serial /\ AbsentIsEmpty /\ OwnScript /\ ScriptDone /\ Standing /\ Settled

LEMMA ServedStep ==
    TypeOK /\ LookedBefore /\ Served /\ [Next]_vars => Served'
<1> SUFFICES ASSUME TypeOK, LookedBefore, Served, [Next]_vars
             PROVE  Served'
  OBVIOUS
<1> USE DEF Served, TypeOK, Serial, AbsentIsEmpty, OwnScript, ScriptDone,
            Standing, Settled, Looked, Active, Working, RollingBack, Goto,
            account, cloud, evidence, Resources
<1>1. CASE UNCHANGED vars
  BY <1>1 DEF vars
<1>2. ASSUME NEW r \in Runs, Execute(r)
      PROVE  Served'
  <2>1. CASE Start(r)
    BY <2>1 DEF Start
  <2>2. CASE Inventory(r)
    BY <2>2 DEF Inventory, VMFree
  <2>3. CASE WhatIf(r)
    BY <2>3 DEF WhatIf
  <2>4. CASE Deploy(r)
    BY <2>4 DEF Deploy
  <2>5. CASE DeployReturns(r)
    BY <2>5 DEF DeployReturns
  <2>6. CASE Verify(r)
    BY <2>6 DEF Verify
  <2>7. CASE Analyse(r)
    BY <2>7 DEF Analyse
  <2>8. CASE Publish(r)
    BY <2>8 DEF Publish
  <2>9. CASE PublishReturns(r)
    BY <2>9 DEF PublishReturns
  <2>10. CASE Fetch(r)
    BY <2>10 DEF Fetch
  <2>11. CASE Record(r)
    BY <2>11 DEF Record
  <2>12. CASE Disarm(r)
    BY <2>12 DEF Disarm
  <2>13. CASE Summary(r)
    BY <2>13 DEF Summary
  <2>14. CASE RollbackInventory(r)
    BY <2>14 DEF RollbackInventory
  <2>15. CASE RollbackSeesNothing(r)
    BY <2>15 DEF RollbackSeesNothing
  <2>16. CASE RollbackDelete(r)
    BY <2>16 DEF RollbackDelete, Removed
  <2>17. CASE RollbackCheck(r)
    BY <2>17 DEF RollbackCheck
  <2> QED
    BY <1>2, <2>1, <2>2, <2>3, <2>4, <2>5, <2>6, <2>7, <2>8, <2>9, <2>10,
       <2>11, <2>12, <2>13, <2>14, <2>15, <2>16, <2>17 DEF Execute
<1>3. ASSUME NEW r \in Runs, Fail(r)
      PROVE  Served'
  BY <1>3 DEF Fail, LookedBefore
<1>4. ASSUME NEW r \in Runs, Stop(r)
      PROVE  Served'
  BY <1>4 DEF Stop
<1>5. ASSUME NEW r \in Runs, NEW x \in Resources, Put(r, x)
      PROVE  Served'
  BY <1>5, PublicationAssumption DEF Put, Creates
<1>6. ASSUME NEW r \in Runs, DeploymentEnds(r)
      PROVE  Served'
  BY <1>6 DEF DeploymentEnds
<1>7. ASSUME NEW r \in Runs, PublisherPuts(r)
      PROVE  Served'
  BY <1>7 DEF PublisherPuts
<1>8. ASSUME NEW r \in Runs, PublisherGivesUp(r)
      PROVE  Served'
  BY <1>8 DEF PublisherGivesUp
<1>9. CASE LifecycleDeploys
  BY <1>9, PublicationAssumption DEF LifecycleDeploys, Creates
<1> QED
  BY <1>1, <1>2, <1>3, <1>4, <1>5, <1>6, <1>7, <1>8, <1>9 DEF Next, Azure

LEMMA AlwaysServed == Spec => []Served
<1>1. Init => Served
  BY DEF Init, Served, Serial, AbsentIsEmpty, OwnScript, ScriptDone, Standing,
         Settled, Active, Working, RollingBack
<1> QED
  BY <1>1, ServedStep, AlwaysLooked, TypeCorrect, PTL DEF Spec

(* A run that succeeded stays served, whatever the other runs, their       *)
(* rollbacks and what Azure still does for them.                           *)
THEOREM SuccessStaysServed == Spec => []SuccessIsServed
<1>1. Served => SuccessIsServed
  BY DEF Served, Settled, SuccessIsServed
<1> QED
  BY <1>1, AlwaysServed, PTL

(* What explains a leftover.  A run is armed from its deployment to the    *)
(* end of its verified live path; its deployment runs behind its back only *)
(* if that was noted or the run was stopped; and an account that a failed  *)
(* run leaves without mishap stands in the way of every other run.         *)
NotYet == {"idle", "inventory", "whatif", "deploy"}
Deployed == Working \ (NotYet \cup {"deploying"})

Armament ==
    \A r \in Runs :
        /\ pc[r] \in NotYet => ~armed[r] /\ deployment[r] = "none"
        /\ pc[r] \in Working \ (NotYet \cup {"summary"}) => armed[r]
        /\ pc[r] \in {"disarm", "summary"} => "verified" \in notes[r]
        /\ pc[r] # "done" => exit[r] = "none"

OwnAccount == \A r \in Runs : owner = r => deployment[r] # "none"

Observed ==
    \A r \in Runs : deployment[r] = "running" =>
        /\ pc[r] \notin Deployed
        /\ pc[r] \notin Working => exit[r] = "stopped" \/ mishap[r] # {}

Blocking ==
    \A r \in Runs : exit[r] = "failed" /\ mishap[r] = {} /\ owner = r =>
        /\ "verified" \in notes[r] /\ blob = r
        /\ \A q \in Runs : pc[q] \notin Looked /\ publication[q] # "running"

Explained == Armament /\ OwnAccount /\ Observed /\ Blocking

LEMMA ExplainedStep ==
    ASSUME TypeOK, Served, Explained, [Next]_vars
    PROVE  Explained'
<1> USE PublicationAssumption
    DEF TypeOK, Explained, Armament, OwnAccount, Observed, Blocking, Looked, Active,
        Working, RollingBack, NotYet, Deployed, Goto, Note, Happened, account, cloud,
        evidence, Mishaps, Notes, JobStates
<1>1. CASE UNCHANGED vars
  BY <1>1 DEF vars
<1>2. ASSUME NEW r \in Runs, Execute(r)
      PROVE  Explained'
  <2>1. CASE Start(r)
    BY <2>1 DEF Start
  <2>2. CASE Inventory(r)
    BY <2>2 DEF Inventory
  <2>3. CASE WhatIf(r)
    BY <2>3 DEF WhatIf
  <2>4. CASE Deploy(r)
    BY <2>4 DEF Deploy, Submitted
  <2>5. CASE DeployReturns(r)
    BY <2>5 DEF DeployReturns
  <2>6. CASE Verify(r)
    BY <2>6 DEF Verify
  <2>7. CASE Analyse(r)
    BY <2>7 DEF Analyse
  <2>8. CASE Publish(r)
    BY <2>8 DEF Publish
  <2>9. CASE PublishReturns(r)
    BY <2>9 DEF PublishReturns
  <2>10. CASE Fetch(r)
    BY <2>10 DEF Fetch
  <2>11. CASE Record(r)
    BY <2>11 DEF Record
  <2>12. CASE Disarm(r)
    BY <2>12 DEF Disarm
  <2>13. CASE Summary(r)
    BY <2>13 DEF Summary
  <2>14. CASE RollbackInventory(r)
    BY <2>14 DEF RollbackInventory
  <2>15. CASE RollbackSeesNothing(r)
    BY <2>15 DEF RollbackSeesNothing
  <2>16. CASE RollbackDelete(r)
    BY <2>16 DEF RollbackDelete, Removed
  <2>17. CASE RollbackCheck(r)
    <3>1. CASE owner = None /\ UNCHANGED mishap
      BY <2>17, <3>1 DEF RollbackCheck
    <3>2. ASSUME NEW m \in Mishaps, Happened(r, m)
          PROVE  Explained'
      <4>1. /\ m \in mishap'[r]
            /\ \A q \in Runs : q # r => mishap'[q] = mishap[q] /\ pc'[q] = pc[q] /\ exit'[q] = exit[q]
        BY <2>17, <3>2 DEF RollbackCheck
      <4>2. \A q \in Runs : notes[q] \subseteq notes'[q] /\ (q # r => notes'[q] = notes[q])
        BY <2>17 DEF RollbackCheck
      <4>3. pc'[r] = "done"
        BY <2>17 DEF RollbackCheck
      <4>4. UNCHANGED <<account, cloud, armed>>
        BY <2>17 DEF RollbackCheck
      <4>5. Armament' /\ OwnAccount' /\ Observed'
        BY <4>1, <4>2, <4>3, <4>4
      <4>6. Blocking'
        BY <4>1, <4>2, <4>3, <4>4
      <4> QED
        BY <4>5, <4>6
    <3> QED
      BY <2>17, <3>1, <3>2 DEF RollbackCheck
  <2> QED
    BY <1>2, <2>1, <2>2, <2>3, <2>4, <2>5, <2>6, <2>7, <2>8, <2>9, <2>10,
       <2>11, <2>12, <2>13, <2>14, <2>15, <2>16, <2>17 DEF Execute
<1>3. ASSUME NEW r \in Runs, Fail(r)
      PROVE  Explained'
  <2>1. CASE armed[r]
    BY <1>3, <2>1 DEF Fail
  <2>2. CASE ~armed[r] /\ pc[r] \in NotYet
    BY <1>3, <2>2 DEF Fail
  <2>3. CASE ~armed[r] /\ pc[r] = "summary"
    <3>1. \A q \in Runs : q # r => pc[q] \notin Active
      BY <2>3 DEF Served, Serial
    <3>2. \A q \in Runs : publication[q] # "running"
      BY <2>3 DEF Served, OwnScript, ScriptDone
    <3>3. blob = r
      BY <2>3 DEF Served, Standing
    <3> QED
      BY <1>3, <2>3, <3>1, <3>2, <3>3 DEF Fail
  <2> QED
    BY <1>3, <2>1, <2>2, <2>3 DEF Fail
<1>4. ASSUME NEW r \in Runs, Stop(r)
      PROVE  Explained'
  BY <1>4 DEF Stop
<1>5. ASSUME NEW r \in Runs, NEW x \in Resources, Put(r, x)
      PROVE  Explained'
  BY <1>5 DEF Put, Creates
<1>6. ASSUME NEW r \in Runs, DeploymentEnds(r)
      PROVE  Explained'
  BY <1>6 DEF DeploymentEnds
<1>7. ASSUME NEW r \in Runs, PublisherPuts(r)
      PROVE  Explained'
  BY <1>7 DEF PublisherPuts
<1>8. ASSUME NEW r \in Runs, PublisherGivesUp(r)
      PROVE  Explained'
  BY <1>8 DEF PublisherGivesUp
<1>9. CASE LifecycleDeploys
  BY <1>9 DEF LifecycleDeploys, Creates
<1> QED
  BY <1>1, <1>2, <1>3, <1>4, <1>5, <1>6, <1>7, <1>8, <1>9 DEF Next, Azure

(* Whatever a failed run leaves behind is explained, for any number of     *)
(* runs and of deployments of the lifecycle workflow.                      *)
THEOREM LeftoversExplained == Spec => []LeftoverExplained
<1>1. Init => Explained
  BY PublicationAssumption
     DEF Init, Explained, Armament, OwnAccount, Observed, Blocking, Working, NotYet
<1>2. TypeOK /\ Served /\ Explained /\ [Next]_vars => Explained'
  BY ExplainedStep
<1>3. Explained => LeftoverExplained
  BY DEF Explained, Blocking, LeftoverExplained
<1> QED
  BY <1>1, <1>2, <1>3, TypeCorrect, AlwaysServed, PTL DEF Spec


-----------------------------------------------------------------------------
(* The publication command and its readers (ReportDelivery).               *)

-----------------------------------------------------------------------------
(* The inductive invariant.                                                *)

Live(p) == cli[p].pc \in Underway

\* As long as nothing overlapped, one invocation is under way at most.
Solo == ~overlapped => \A p, q \in Invocations : Live(p) /\ Live(q) => p = q

Fit(e) == Drawable(e) /\ ~e.report.private /\ e.ttl > 0 /\ e.at <= now

\* Who may still write or upload has an envelope, of its own.
OwnEnvelopes ==
    \A p \in Invocations :
        /\ Live(p) \/ uploads[p] > 0 => cli[p].envelope \in Envelope
        /\ cli[p].envelope \in Envelope
             => cli[p].envelope.by = p /\ Fit(cli[p].envelope)

StoredFit ==
    /\ publicBlob \in Envelope => Fit(publicBlob)
    /\ \A p \in Invocations : content[p] \in Envelope => Fit(content[p])

\* An inode is named after the invocation that made it.
NewInodes == \A p \in Invocations : cli[p].pc \in {"idle", "built"} => p \notin {temp, file}

\* Alone, a writer holds the temporary file, and that is not the published one.
Alone ==
    ~overlapped =>
        /\ file # NoFile => content[file] \in Envelope /\ temp # file
        /\ \A p \in Invocations :
             cli[p].pc \in {"opened", "closed"} =>
                 /\ temp # NoFile /\ cli[p].inode = temp
                 /\ content[temp] = IF At(p, "opened") THEN Empty ELSE cli[p].envelope

OneUpload ==
    \A p \in Invocations :
        /\ uploads[p] \in {0, 1}
        /\ uploads[p] = 1 => cli[p].pc \in {"sent", "refused", "killed"}

ServedInTime ==
    \A p \in Invocations :
        /\ At(p, "stored") => p \in served
        /\ cli[p].pc \in {"written", "published"} => p \in served \/ overlapped

\* What readers find is not newer than what the one invocation would put there.
NewestLast ==
    ~overlapped /\ ~late =>
        \A p \in Invocations : Live(p) =>
            /\ publicBlob \in Envelope => publicBlob.at <= cli[p].envelope.at
            /\ file # NoFile => content[file].at <= cli[p].envelope.at

DeliveryInv == /\ DeliveryTypeOK /\ Solo /\ OwnEnvelopes /\ StoredFit /\ NewInodes
        /\ Alone /\ OneUpload /\ ServedInTime /\ NewestLast

-----------------------------------------------------------------------------
(* Every variable keeps its type.                                          *)

\* Whoever accepts a lifetime accepts a positive number.
LEMMA LifetimesPositive == \A n \in Lifetimes : n \in Nat /\ n > 0
<1> SUFFICES ASSUME NEW n \in Lifetimes PROVE n \in Nat /\ n > 0
  BY ZenonT(30)
<1>1. n \in Nat /\ 60 <= n
  BY SMTT(30) DEF Lifetimes
<1> QED
  BY <1>1, SMTT(30)

USE DeliveryAssumption, ContentAssumption

\* The initial values have their type.
LEMMA TypeInit == DeliveryInit => DeliveryTypeOK
<1> SUFFICES ASSUME DeliveryInit PROVE DeliveryTypeOK
  OBVIOUS
<1>1. now \in 0..MaxTime
  BY DEF DeliveryInit
<1>2. [pc |-> "idle", envelope |-> NoFile, inode |-> NoFile]
        \in Process
  BY DEF Process, Underway, Ended
<1> QED
  BY <1>1, <1>2 DEF DeliveryInit, DeliveryTypeOK

\* Every step keeps the type of every variable.
LEMMA TypeStep ==
  DeliveryTypeOK /\ [DeliveryNext]_deliveryVars => DeliveryTypeOK'
<1> SUFFICES ASSUME DeliveryTypeOK, [DeliveryNext]_deliveryVars PROVE DeliveryTypeOK'
  OBVIOUS
<1> USE DEF DeliveryTypeOK, Process, Underway, Ended
<1>1. CASE Tick
  BY <1>1 DEF Tick
<1>2. ASSUME NEW p \in Invocations, Prepare(p) PROVE DeliveryTypeOK'
  <2>1. PICK job \in Jobs : cli' = [cli EXCEPT ![p] =
           [pc |-> IF job.to = "file" THEN "built" ELSE "ready",
            envelope |-> Dated(p, job), inode |-> NoFile]]
    BY <1>2 DEF Prepare
  <2>2. Sanitized(job.report) \in Handoff
    BY DEF Sanitized, Handoff
  <2>3. Dated(p, job) \in Envelope
    BY <2>2 DEF Dated, Envelope
  <2>4. \A stage \in {"built", "ready"} :
           [pc |-> stage, envelope |-> Dated(p, job), inode |-> NoFile] \in Process
    BY <2>3
  <2>5. cli' \in [Invocations -> Process]
    BY <2>1, <2>4
  <2> QED
    BY <1>2, <2>5 DEF Prepare
<1>3. ASSUME NEW p \in Invocations, Refuse(p) PROVE DeliveryTypeOK'
  BY <1>3 DEF Refuse, Goes, At
<1>4. ASSUME NEW p \in Invocations, Open(p) PROVE DeliveryTypeOK'
  <2>1. PICK i \in Invocations : /\ temp' = i
                                /\ cli' = [cli EXCEPT ![p] =
                                     [pc |-> "opened", envelope |-> @.envelope, inode |-> i]]
                                /\ content' = [content EXCEPT ![i] = Empty]
    BY <1>4 DEF Open
  <2>2. [pc |-> "opened", envelope |-> cli[p].envelope, inode |-> i] \in Process
    OBVIOUS
  <2>3. cli' \in [Invocations -> Process]
    BY <2>1, <2>2
  <2>4. content' \in [Invocations -> Envelope \cup {NoFile, Empty, Torn}]
    BY <2>1
  <2> QED
    BY <1>4, <2>1, <2>3, <2>4 DEF Open
<1>5. ASSUME NEW p \in Invocations, Write(p) PROVE DeliveryTypeOK'
  <2>1. PICK bytes \in {cli[p].envelope, Torn} :
           content' = [content EXCEPT ![cli[p].inode] = bytes]
    BY <1>5 DEF Write
  <2>2. content' \in [Invocations -> Envelope \cup {NoFile, Empty, Torn}]
    BY <2>1
  <2>3. cli' \in [Invocations -> Process]
    BY <1>5 DEF Write, Goes
  <2> QED
    BY <1>5, <2>2, <2>3 DEF Write, Readable
<1>6. ASSUME NEW p \in Invocations, Replace(p) PROVE DeliveryTypeOK'
  BY <1>6 DEF Replace, Goes, At, Readable
<1>7. ASSUME NEW p \in Invocations, Unauthorized(p) PROVE DeliveryTypeOK'
  BY <1>7 DEF Unauthorized, Goes, At
<1>8. ASSUME NEW p \in Invocations, Send(p) PROVE DeliveryTypeOK'
  BY <1>8 DEF Send, Goes, At
<1>9. ASSUME NEW p \in Invocations, Store(p) PROVE DeliveryTypeOK'
  BY <1>9 DEF Store
<1>10. ASSUME NEW p \in Invocations, TurnDown(p) PROVE DeliveryTypeOK'
  BY <1>10 DEF TurnDown
<1>11. ASSUME NEW p \in Invocations, Answered(p) PROVE DeliveryTypeOK'
  BY <1>11 DEF Answered, Goes, Answer, At
<1>12. ASSUME NEW p \in Invocations, GiveUp(p) PROVE DeliveryTypeOK'
  BY <1>12 DEF GiveUp, Goes, At
<1>13. ASSUME NEW p \in Invocations, Kill(p) PROVE DeliveryTypeOK'
  BY <1>13 DEF Kill, Goes, At
<1>14. CASE UNCHANGED deliveryVars
  BY <1>14 DEF deliveryVars
<1>15. QED
  BY <1>1, <1>2, <1>3, <1>4, <1>5, <1>6, <1>7, <1>8, <1>9, <1>10, <1>11, <1>12, <1>13, <1>14
  DEF DeliveryNext

-----------------------------------------------------------------------------
(* Envelopes.                                                              *)

\* The fields of an envelope.
LEMMA EnvelopeFields ==
    \A e \in Envelope : e.by \in Invocations /\ e.at \in 0..MaxTime /\ e.ttl \in Nat
  BY DEF Envelope

\* A record of these four fields is an envelope.
LEMMA EnvelopeOf ==
    ASSUME NEW p \in Invocations, NEW r \in Handoff, NEW t \in 0..MaxTime, NEW n \in Nat
    PROVE  [by |-> p, report |-> r, at |-> t, ttl |-> n] \in Envelope
  BY Zenon DEF Envelope

\* What the sanitizer lets through can be drawn, is public and lives a while.
LEMMA DatedFit ==
    ASSUME DeliveryTypeOK, NEW p \in Invocations, NEW job \in Jobs, Publishable(job)
    PROVE  Dated(p, job) \in Envelope /\ Dated(p, job).by = p /\ Fit(Dated(p, job))
<1> DEFINE report == Sanitized(job.report)
<1>1. report \in Handoff /\ report.flaws = job.report.flaws /\ report.private = FALSE
  BY DEF Sanitized, Handoff
<1>2. job.ttl \in Lifetimes /\ job.report.flaws \cap Refused = {}
  BY Zenon DEF Publishable
<1>3. PageRefuses \cup PageNeeds \subseteq Refused
  BY DEF Refused, PageRefuses, PageNeeds
<1> HIDE DEF report
<1>4. Dated(p, job) = [by |-> p, report |-> report, at |-> now, ttl |-> job.ttl]
  BY DEF Dated, report
<1>5. /\ now \in 0..MaxTime /\ now <= now
      /\ job.ttl \in Nat /\ job.ttl > 0
  <2>1. now \in 0..MaxTime
    BY Zenon DEF DeliveryTypeOK
  <2>3. job.ttl \in Nat /\ job.ttl > 0
    BY <1>2, LifetimesPositive, Zenon
  <2>4. \A n \in 0..MaxTime : n <= n
    OBVIOUS
  <2> QED
    BY <2>1, <2>3, <2>4, Zenon
<1>6. Dated(p, job) \in Envelope
  <2>1. report \in Handoff
    BY <1>1
  <2>2. [by |-> p, report |-> report, at |-> now, ttl |-> job.ttl] \in Envelope
    BY <1>5, <2>1, EnvelopeOf, Zenon
  <2> QED
    BY <1>4, <2>2, Zenon
<1>7. Drawable(Dated(p, job))
  BY <1>1, <1>2, <1>3, <1>4 DEF Drawable
<1>8. Dated(p, job).by = p /\ ~Dated(p, job).report.private
      /\ Dated(p, job).ttl > 0 /\ Dated(p, job).at <= now
  <2>1. /\ Dated(p, job).by = p /\ Dated(p, job).report = report
        /\ Dated(p, job).at = now /\ Dated(p, job).ttl = job.ttl
    BY <1>4
  <2>2. ~report.private
    BY <1>1, Zenon
  <2> QED
    BY <1>5, <2>1, <2>2, Zenon
<1> QED
  BY <1>6, <1>7, <1>8 DEF Fit

-----------------------------------------------------------------------------
(* Every part of the invariant is preserved.                               *)

\* Whoever starts beside another one is noticed.
LEMMA SoloStep == DeliveryTypeOK /\ Solo /\ [DeliveryNext]_deliveryVars => Solo'
<1> SUFFICES ASSUME DeliveryTypeOK, Solo, [DeliveryNext]_deliveryVars PROVE Solo'
  OBVIOUS
<1> USE DEF DeliveryTypeOK, Process, Underway, Ended, Solo, Live
<1>1. CASE Tick
  BY <1>1 DEF Tick
<1>2. ASSUME NEW p \in Invocations, Prepare(p) PROVE Solo'
  <2>1. ~overlapped' => \A q \in Invocations : cli[q].pc \notin Underway
    BY <1>2, Zenon DEF Prepare
  <2>2. \A q \in Invocations \ {p} : cli'[q] = cli[q]
    BY <1>2 DEF Prepare
  <2> QED
    BY <2>1, <2>2
<1>3. ASSUME NEW p \in Invocations, Refuse(p) PROVE Solo'
  BY <1>3 DEF Refuse, Goes, At
<1>4. ASSUME NEW p \in Invocations, Open(p) PROVE Solo'
  BY <1>4 DEF Open, At
<1>5. ASSUME NEW p \in Invocations, Write(p) PROVE Solo'
  BY <1>5 DEF Write, Goes, At, Readable
<1>6. ASSUME NEW p \in Invocations, Replace(p) PROVE Solo'
  BY <1>6 DEF Replace, Goes, At, Readable
<1>7. ASSUME NEW p \in Invocations, Unauthorized(p) PROVE Solo'
  BY <1>7 DEF Unauthorized, Goes, At
<1>8. ASSUME NEW p \in Invocations, Send(p) PROVE Solo'
  BY <1>8 DEF Send, Goes, At
<1>9. ASSUME NEW p \in Invocations, Store(p) PROVE Solo'
  BY <1>9 DEF Store, At
<1>10. ASSUME NEW p \in Invocations, TurnDown(p) PROVE Solo'
  BY <1>10 DEF TurnDown, At
<1>11. ASSUME NEW p \in Invocations, Answered(p) PROVE Solo'
  BY <1>11 DEF Answered, Goes, Answer, At
<1>12. ASSUME NEW p \in Invocations, GiveUp(p) PROVE Solo'
  BY <1>12 DEF GiveUp, Goes, At
<1>13. ASSUME NEW p \in Invocations, Kill(p) PROVE Solo'
  BY <1>13 DEF Kill, Goes, At
<1>14. CASE UNCHANGED deliveryVars
  BY <1>14 DEF deliveryVars, At
<1>15. QED
  BY <1>1, <1>2, <1>3, <1>4, <1>5, <1>6, <1>7, <1>8, <1>9, <1>10, <1>11, <1>12, <1>13, <1>14
  DEF DeliveryNext

\* An invocation keeps the envelope it made, and that one is fit to be read.
LEMMA OwnEnvelopesStep ==
  DeliveryTypeOK /\ OwnEnvelopes /\ OneUpload
  /\ [DeliveryNext]_deliveryVars => OwnEnvelopes'
<1> SUFFICES ASSUME DeliveryTypeOK, OwnEnvelopes, OneUpload, [DeliveryNext]_deliveryVars
             PROVE  OwnEnvelopes'
  OBVIOUS
<1> USE DEF DeliveryTypeOK, Process, Underway, Ended, OwnEnvelopes, Live, Fit, Drawable
<1>1. CASE Tick
  BY <1>1, EnvelopeFields DEF Tick, At
<1>2. ASSUME NEW p \in Invocations, Prepare(p) PROVE OwnEnvelopes'
  <2>1. PICK job \in Jobs :
           /\ Publishable(job)
           /\ cli' = [cli EXCEPT ![p] =
                [pc |-> IF job.to = "file" THEN "built" ELSE "ready",
                 envelope |-> Dated(p, job), inode |-> NoFile]]
    BY <1>2, Zenon DEF Prepare
  <2> DEFINE e == Dated(p, job)
  <2>2. e \in Envelope /\ e.by = p /\ Fit(e)
    BY <2>1, DatedFit
  <2>3. UNCHANGED <<now, uploads>>
    BY <1>2 DEF Prepare
  <2>4. cli'[p].envelope = e
    BY <2>1
  <2> HIDE DEF e
  <2>5. \A q \in Invocations \ {p} : cli'[q] = cli[q]
    BY <2>1
  <2> QED
    BY <2>2, <2>3, <2>4, <2>5
<1>3. ASSUME NEW p \in Invocations, Refuse(p) PROVE OwnEnvelopes'
  BY <1>3 DEF Refuse, Goes, At
<1>4. ASSUME NEW p \in Invocations, Open(p) PROVE OwnEnvelopes'
  BY <1>4 DEF Open, At
<1>5. ASSUME NEW p \in Invocations, Write(p) PROVE OwnEnvelopes'
  BY <1>5 DEF Write, Goes, At, Readable
<1>6. ASSUME NEW p \in Invocations, Replace(p) PROVE OwnEnvelopes'
  BY <1>6 DEF Replace, Goes, At, Readable
<1>7. ASSUME NEW p \in Invocations, Unauthorized(p) PROVE OwnEnvelopes'
  BY <1>7 DEF Unauthorized, Goes, At
<1>8. ASSUME NEW p \in Invocations, Send(p) PROVE OwnEnvelopes'
  BY <1>8 DEF Send, Goes, At
<1>9. ASSUME NEW p \in Invocations, Store(p) PROVE OwnEnvelopes'
  BY <1>9 DEF Store, At
<1>10. ASSUME NEW p \in Invocations, TurnDown(p) PROVE OwnEnvelopes'
  BY <1>10 DEF TurnDown, At
<1>11. ASSUME NEW p \in Invocations, Answered(p) PROVE OwnEnvelopes'
  BY <1>11 DEF Answered, Goes, Answer, At
<1>12. ASSUME NEW p \in Invocations, GiveUp(p) PROVE OwnEnvelopes'
  BY <1>12 DEF GiveUp, Goes, At
<1>13. ASSUME NEW p \in Invocations, Kill(p) PROVE OwnEnvelopes'
  BY <1>13 DEF Kill, Goes, At
<1>14. CASE UNCHANGED deliveryVars
  BY <1>14 DEF deliveryVars, At
<1>15. QED
  BY <1>1, <1>2, <1>3, <1>4, <1>5, <1>6, <1>7, <1>8, <1>9, <1>10, <1>11, <1>12, <1>13, <1>14
  DEF DeliveryNext

\* What is written or stored is the envelope of an invocation.
LEMMA StoredFitStep ==
  DeliveryTypeOK /\ OwnEnvelopes /\ StoredFit /\ [DeliveryNext]_deliveryVars => StoredFit'
<1> SUFFICES ASSUME DeliveryTypeOK, OwnEnvelopes, StoredFit, [DeliveryNext]_deliveryVars
             PROVE  StoredFit'
  OBVIOUS
<1> USE
DEF DeliveryTypeOK, Process, Underway, Ended, OwnEnvelopes, StoredFit, Live, Fit, Drawable
<1>1. CASE Tick
  BY <1>1, EnvelopeFields DEF Tick, At
<1>2. ASSUME NEW p \in Invocations, Prepare(p) PROVE StoredFit'
  BY <1>2 DEF Prepare, At
<1>3. ASSUME NEW p \in Invocations, Refuse(p) PROVE StoredFit'
  BY <1>3 DEF Refuse, Goes, At
<1>4. ASSUME NEW p \in Invocations, Open(p) PROVE StoredFit'
  BY <1>4 DEF Open, At
<1>5. ASSUME NEW p \in Invocations, Write(p) PROVE StoredFit'
  BY <1>5 DEF Write, Goes, At, Readable
<1>6. ASSUME NEW p \in Invocations, Replace(p) PROVE StoredFit'
  BY <1>6 DEF Replace, Goes, At, Readable
<1>7. ASSUME NEW p \in Invocations, Unauthorized(p) PROVE StoredFit'
  BY <1>7 DEF Unauthorized, Goes, At
<1>8. ASSUME NEW p \in Invocations, Send(p) PROVE StoredFit'
  BY <1>8 DEF Send, Goes, At
<1>9. ASSUME NEW p \in Invocations, Store(p) PROVE StoredFit'
  BY <1>9 DEF Store, At
<1>10. ASSUME NEW p \in Invocations, TurnDown(p) PROVE StoredFit'
  BY <1>10 DEF TurnDown, At
<1>11. ASSUME NEW p \in Invocations, Answered(p) PROVE StoredFit'
  BY <1>11 DEF Answered, Goes, Answer, At
<1>12. ASSUME NEW p \in Invocations, GiveUp(p) PROVE StoredFit'
  BY <1>12 DEF GiveUp, Goes, At
<1>13. ASSUME NEW p \in Invocations, Kill(p) PROVE StoredFit'
  BY <1>13 DEF Kill, Goes, At
<1>14. CASE UNCHANGED deliveryVars
  BY <1>14 DEF deliveryVars, At
<1>15. QED
  BY <1>1, <1>2, <1>3, <1>4, <1>5, <1>6, <1>7, <1>8, <1>9, <1>10, <1>11, <1>12, <1>13, <1>14
  DEF DeliveryNext

\* A new file is made by the first open only.
LEMMA NewInodesStep ==
  DeliveryTypeOK /\ NewInodes /\ [DeliveryNext]_deliveryVars => NewInodes'
<1> SUFFICES ASSUME DeliveryTypeOK, NewInodes, [DeliveryNext]_deliveryVars PROVE NewInodes'
  OBVIOUS
<1> USE DEF DeliveryTypeOK, Process, Underway, Ended, NewInodes
<1>1. CASE Tick
  BY <1>1 DEF Tick
<1>2. ASSUME NEW p \in Invocations, Prepare(p) PROVE NewInodes'
  BY <1>2 DEF Prepare, At
<1>3. ASSUME NEW p \in Invocations, Refuse(p) PROVE NewInodes'
  BY <1>3 DEF Refuse, Goes, At
<1>4. ASSUME NEW p \in Invocations, Open(p) PROVE NewInodes'
  BY <1>4 DEF Open, At
<1>5. ASSUME NEW p \in Invocations, Write(p) PROVE NewInodes'
  BY <1>5 DEF Write, Goes, At, Readable
<1>6. ASSUME NEW p \in Invocations, Replace(p) PROVE NewInodes'
  BY <1>6 DEF Replace, Goes, At, Readable
<1>7. ASSUME NEW p \in Invocations, Unauthorized(p) PROVE NewInodes'
  BY <1>7 DEF Unauthorized, Goes, At
<1>8. ASSUME NEW p \in Invocations, Send(p) PROVE NewInodes'
  BY <1>8 DEF Send, Goes, At
<1>9. ASSUME NEW p \in Invocations, Store(p) PROVE NewInodes'
  BY <1>9 DEF Store, At
<1>10. ASSUME NEW p \in Invocations, TurnDown(p) PROVE NewInodes'
  BY <1>10 DEF TurnDown, At
<1>11. ASSUME NEW p \in Invocations, Answered(p) PROVE NewInodes'
  BY <1>11 DEF Answered, Goes, Answer, At
<1>12. ASSUME NEW p \in Invocations, GiveUp(p) PROVE NewInodes'
  BY <1>12 DEF GiveUp, Goes, At
<1>13. ASSUME NEW p \in Invocations, Kill(p) PROVE NewInodes'
  BY <1>13 DEF Kill, Goes, At
<1>14. CASE UNCHANGED deliveryVars
  BY <1>14 DEF deliveryVars, At
<1>15. QED
  BY <1>1, <1>2, <1>3, <1>4, <1>5, <1>6, <1>7, <1>8, <1>9, <1>10, <1>11, <1>12, <1>13, <1>14
  DEF DeliveryNext

\* Alone, a writer completes the temporary file before the file that is published is replaced.
LEMMA AloneStep ==
  DeliveryTypeOK /\ Solo /\ OwnEnvelopes /\ NewInodes /\ Alone
  /\ [DeliveryNext]_deliveryVars => Alone'
<1> SUFFICES ASSUME DeliveryTypeOK, Solo, OwnEnvelopes, NewInodes, Alone, [DeliveryNext]_deliveryVars
             PROVE  Alone'
  OBVIOUS
<1> USE
DEF DeliveryTypeOK, Process, Underway, Ended, Solo, OwnEnvelopes, NewInodes, Alone, Live
<1>1. CASE Tick
  BY <1>1 DEF Tick, At
<1>2. ASSUME NEW p \in Invocations, Prepare(p) PROVE Alone'
  BY <1>2 DEF Prepare, At
<1>3. ASSUME NEW p \in Invocations, Refuse(p) PROVE Alone'
  BY <1>3 DEF Refuse, Goes, At
<1>4. ASSUME NEW p \in Invocations, Open(p) PROVE Alone'
  BY <1>4 DEF Open, At
<1>5. ASSUME NEW p \in Invocations, Write(p) PROVE Alone'
  BY <1>5 DEF Write, Goes, At, Readable
<1>6. ASSUME NEW p \in Invocations, Replace(p) PROVE Alone'
  BY <1>6 DEF Replace, Goes, At, Readable
<1>7. ASSUME NEW p \in Invocations, Unauthorized(p) PROVE Alone'
  BY <1>7 DEF Unauthorized, Goes, At
<1>8. ASSUME NEW p \in Invocations, Send(p) PROVE Alone'
  BY <1>8 DEF Send, Goes, At
<1>9. ASSUME NEW p \in Invocations, Store(p) PROVE Alone'
  BY <1>9 DEF Store, At
<1>10. ASSUME NEW p \in Invocations, TurnDown(p) PROVE Alone'
  BY <1>10 DEF TurnDown, At
<1>11. ASSUME NEW p \in Invocations, Answered(p) PROVE Alone'
  BY <1>11 DEF Answered, Goes, Answer, At
<1>12. ASSUME NEW p \in Invocations, GiveUp(p) PROVE Alone'
  BY <1>12 DEF GiveUp, Goes, At
<1>13. ASSUME NEW p \in Invocations, Kill(p) PROVE Alone'
  BY <1>13 DEF Kill, Goes, At
<1>14. CASE UNCHANGED deliveryVars
  BY <1>14 DEF deliveryVars, At
<1>15. QED
  BY <1>1, <1>2, <1>3, <1>4, <1>5, <1>6, <1>7, <1>8, <1>9, <1>10, <1>11, <1>12, <1>13, <1>14
  DEF DeliveryNext

\* An invocation uploads once.
LEMMA OneUploadStep ==
  DeliveryTypeOK /\ OneUpload /\ [DeliveryNext]_deliveryVars => OneUpload'
<1> SUFFICES ASSUME DeliveryTypeOK, OneUpload, [DeliveryNext]_deliveryVars PROVE OneUpload'
  OBVIOUS
<1> USE DEF DeliveryTypeOK, Process, Underway, Ended, OneUpload
<1>1. CASE Tick
  BY <1>1 DEF Tick
<1>2. ASSUME NEW p \in Invocations, Prepare(p) PROVE OneUpload'
  BY <1>2 DEF Prepare, At
<1>3. ASSUME NEW p \in Invocations, Refuse(p) PROVE OneUpload'
  BY <1>3 DEF Refuse, Goes, At
<1>4. ASSUME NEW p \in Invocations, Open(p) PROVE OneUpload'
  BY <1>4 DEF Open, At
<1>5. ASSUME NEW p \in Invocations, Write(p) PROVE OneUpload'
  BY <1>5 DEF Write, Goes, At, Readable
<1>6. ASSUME NEW p \in Invocations, Replace(p) PROVE OneUpload'
  BY <1>6 DEF Replace, Goes, At, Readable
<1>7. ASSUME NEW p \in Invocations, Unauthorized(p) PROVE OneUpload'
  BY <1>7 DEF Unauthorized, Goes, At
<1>8. ASSUME NEW p \in Invocations, Send(p) PROVE OneUpload'
  BY <1>8 DEF Send, Goes, At
<1>9. ASSUME NEW p \in Invocations, Store(p) PROVE OneUpload'
  BY <1>9 DEF Store, At
<1>10. ASSUME NEW p \in Invocations, TurnDown(p) PROVE OneUpload'
  BY <1>10 DEF TurnDown, At
<1>11. ASSUME NEW p \in Invocations, Answered(p) PROVE OneUpload'
  BY <1>11 DEF Answered, Goes, Answer, At
<1>12. ASSUME NEW p \in Invocations, GiveUp(p) PROVE OneUpload'
  BY <1>12 DEF GiveUp, Goes, At
<1>13. ASSUME NEW p \in Invocations, Kill(p) PROVE OneUpload'
  BY <1>13 DEF Kill, Goes, At
<1>14. CASE UNCHANGED deliveryVars
  BY <1>14 DEF deliveryVars, At
<1>15. QED
  BY <1>1, <1>2, <1>3, <1>4, <1>5, <1>6, <1>7, <1>8, <1>9, <1>10, <1>11, <1>12, <1>13, <1>14
  DEF DeliveryNext

\* What was published has been there to read.
LEMMA ServedInTimeStep ==
  DeliveryTypeOK /\ OwnEnvelopes /\ Alone /\ ServedInTime
  /\ [DeliveryNext]_deliveryVars => ServedInTime'
<1> SUFFICES ASSUME DeliveryTypeOK, OwnEnvelopes, Alone, ServedInTime, [DeliveryNext]_deliveryVars
             PROVE  ServedInTime'
  OBVIOUS
<1> USE DEF DeliveryTypeOK, Process, Underway, Ended, OwnEnvelopes, Alone, ServedInTime, Live
<1>1. CASE Tick
  BY <1>1 DEF Tick, At
<1>2. ASSUME NEW p \in Invocations, Prepare(p) PROVE ServedInTime'
  BY <1>2 DEF Prepare, At
<1>3. ASSUME NEW p \in Invocations, Refuse(p) PROVE ServedInTime'
  BY <1>3 DEF Refuse, Goes, At
<1>4. ASSUME NEW p \in Invocations, Open(p) PROVE ServedInTime'
  BY <1>4 DEF Open, At
<1>5. ASSUME NEW p \in Invocations, Write(p) PROVE ServedInTime'
  BY <1>5 DEF Write, Goes, At, Readable
<1>6. ASSUME NEW p \in Invocations, Replace(p) PROVE ServedInTime'
  BY <1>6 DEF Replace, Goes, At, Readable
<1>7. ASSUME NEW p \in Invocations, Unauthorized(p) PROVE ServedInTime'
  BY <1>7 DEF Unauthorized, Goes, At
<1>8. ASSUME NEW p \in Invocations, Send(p) PROVE ServedInTime'
  BY <1>8 DEF Send, Goes, At
<1>9. ASSUME NEW p \in Invocations, Store(p) PROVE ServedInTime'
  BY <1>9 DEF Store, At
<1>10. ASSUME NEW p \in Invocations, TurnDown(p) PROVE ServedInTime'
  BY <1>10 DEF TurnDown, At
<1>11. ASSUME NEW p \in Invocations, Answered(p) PROVE ServedInTime'
  BY <1>11 DEF Answered, Goes, Answer, At
<1>12. ASSUME NEW p \in Invocations, GiveUp(p) PROVE ServedInTime'
  BY <1>12 DEF GiveUp, Goes, At
<1>13. ASSUME NEW p \in Invocations, Kill(p) PROVE ServedInTime'
  BY <1>13 DEF Kill, Goes, At
<1>14. CASE UNCHANGED deliveryVars
  BY <1>14 DEF deliveryVars, At
<1>15. QED
  BY <1>1, <1>2, <1>3, <1>4, <1>5, <1>6, <1>7, <1>8, <1>9, <1>10, <1>11, <1>12, <1>13, <1>14
  DEF DeliveryNext

\* Whoever starts later dates its envelope later.
LEMMA NewestLastStep ==
  DeliveryTypeOK /\ Solo /\ OwnEnvelopes /\ StoredFit /\ NewInodes /\ Alone /\ OneUpload
    /\ NewestLast
  /\ [DeliveryNext]_deliveryVars => NewestLast'
<1> SUFFICES ASSUME DeliveryTypeOK, Solo, OwnEnvelopes, StoredFit, NewInodes, Alone,
                    OneUpload, NewestLast, [DeliveryNext]_deliveryVars
             PROVE  NewestLast'
  OBVIOUS
<1> USE
DEF DeliveryTypeOK, Process, Underway, Ended, Solo, OwnEnvelopes, StoredFit, NewInodes, Alone,
      OneUpload, NewestLast, Live, Fit
<1>1. CASE Tick
  BY <1>1 DEF Tick, At
<1>2. ASSUME NEW p \in Invocations, Prepare(p) PROVE NewestLast'
  <2>1. PICK job \in Jobs :
           /\ Publishable(job)
           /\ cli' = [cli EXCEPT ![p] =
                [pc |-> IF job.to = "file" THEN "built" ELSE "ready",
                 envelope |-> Dated(p, job), inode |-> NoFile]]
    BY <1>2, Zenon DEF Prepare
  <2>2. cli'[p].envelope.at = now
    BY <2>1 DEF Dated
  <2>3. ~overlapped' => ~overlapped /\ \A q \in Invocations : cli[q].pc \notin Underway
    BY <1>2, Zenon DEF Prepare
  <2>4. \A q \in Invocations \ {p} : cli'[q] = cli[q]
    BY <2>1
  <2>5. UNCHANGED <<now, file, content, publicBlob, late>>
    BY <1>2 DEF Prepare
  <2> QED
    BY <2>2, <2>3, <2>4, <2>5
<1>3. ASSUME NEW p \in Invocations, Refuse(p) PROVE NewestLast'
  BY <1>3 DEF Refuse, Goes, At
<1>4. ASSUME NEW p \in Invocations, Open(p) PROVE NewestLast'
  <2> SUFFICES ASSUME ~overlapped', ~late', NEW q \in Invocations, Live(q)'
               PROVE  /\ publicBlob' \in Envelope => publicBlob'.at <= cli'[q].envelope.at
                      /\ file' # NoFile => content'[file'].at <= cli'[q].envelope.at
    OBVIOUS
  <2>1. ~overlapped /\ ~late /\ UNCHANGED <<file, publicBlob>> /\ cli'[q].envelope = cli[q].envelope
    BY <1>4 DEF Open, At
  <2>2. Live(q)
    BY <1>4 DEF Open, At
  <2>3. PICK i \in {IF temp = NoFile THEN p ELSE temp} : temp' = i /\ content' = [content EXCEPT ![i] = Empty]
    BY <1>4 DEF Open
  <2>4. i # file
    BY <1>4, <2>1, <2>3 DEF Open, At
  <2> QED
    BY <2>1, <2>2, <2>3, <2>4
<1>5. ASSUME NEW p \in Invocations, Write(p) PROVE NewestLast'
  BY <1>5 DEF Write, Goes, At, Readable
<1>6. ASSUME NEW p \in Invocations, Replace(p) PROVE NewestLast'
  BY <1>6 DEF Replace, Goes, At, Readable
<1>7. ASSUME NEW p \in Invocations, Unauthorized(p) PROVE NewestLast'
  BY <1>7 DEF Unauthorized, Goes, At
<1>8. ASSUME NEW p \in Invocations, Send(p) PROVE NewestLast'
  BY <1>8 DEF Send, Goes, At
<1>9. ASSUME NEW p \in Invocations, Store(p) PROVE NewestLast'
  <2> SUFFICES ASSUME ~overlapped', ~late', NEW q \in Invocations, Live(q)'
               PROVE  /\ publicBlob' \in Envelope => publicBlob'.at <= cli'[q].envelope.at
                      /\ file' # NoFile => content'[file'].at <= cli'[q].envelope.at
    OBVIOUS
  <2>1. /\ ~overlapped /\ UNCHANGED <<file, content>> /\ publicBlob' = cli[p].envelope
        /\ cli'[q].envelope = cli[q].envelope /\ (Live(q) <=> Live(q)')
    BY <1>9 DEF Store
  <2>2. ~late /\ cli[p].pc \notin {"refused", "killed"}
    BY <1>9, Zenon DEF Store
  <2>3. Live(p) /\ p = q
    BY <1>9, <2>1, <2>2 DEF Store
  <2>4. cli[p].envelope.at \in Nat
    BY <2>3, EnvelopeFields
  <2> QED
    BY <2>1, <2>2, <2>3, <2>4
<1>10. ASSUME NEW p \in Invocations, TurnDown(p) PROVE NewestLast'
  BY <1>10 DEF TurnDown, At
<1>11. ASSUME NEW p \in Invocations, Answered(p) PROVE NewestLast'
  BY <1>11 DEF Answered, Goes, Answer, At
<1>12. ASSUME NEW p \in Invocations, GiveUp(p) PROVE NewestLast'
  BY <1>12 DEF GiveUp, Goes, At
<1>13. ASSUME NEW p \in Invocations, Kill(p) PROVE NewestLast'
  BY <1>13 DEF Kill, Goes, At
<1>14. CASE UNCHANGED deliveryVars
  BY <1>14 DEF deliveryVars, At
<1>15. QED
  BY <1>1, <1>2, <1>3, <1>4, <1>5, <1>6, <1>7, <1>8, <1>9, <1>10, <1>11, <1>12, <1>13, <1>14
  DEF DeliveryNext

-----------------------------------------------------------------------------
(* The theorems.                                                           *)

\* The invariant holds.
THEOREM DeliveryInvariant == DeliverySpec => []DeliveryInv
<1>1. DeliveryInit => DeliveryInv
  <2> SUFFICES ASSUME DeliveryInit PROVE DeliveryInv
    OBVIOUS
  <2>1. DeliveryTypeOK
    BY TypeInit
  <2>2. \A p \in Invocations : cli[p].pc = "idle" /\ cli[p].envelope = NoFile /\ uploads[p] = 0
    BY DEF DeliveryInit
  <2>3. NoFile \notin Envelope /\ Empty \notin Envelope
    OBVIOUS
  <2>4. publicBlob = NoFile /\ file = NoFile /\ temp = NoFile
        /\ \A p \in Invocations : content[p] = NoFile
    BY DEF DeliveryInit
  <2> QED
    BY <2>1, <2>2, <2>3, <2>4
       DEF DeliveryInv, Solo, OwnEnvelopes, StoredFit, NewInodes, Alone, OneUpload,
           ServedInTime, NewestLast, Live, Underway, At
<1>2. DeliveryInv /\ [DeliveryNext]_deliveryVars => DeliveryInv'
  BY TypeStep, SoloStep, OwnEnvelopesStep, StoredFitStep, NewInodesStep, AloneStep,
     OneUploadStep, ServedInTimeStep, NewestLastStep DEF DeliveryInv
<1>3. QED
  BY <1>1, <1>2, PTL DEF DeliverySpec

\* Every variable keeps its type, for every set of invocations and of jobs.
THEOREM DeliveryTypeCorrect == DeliverySpec => []DeliveryTypeOK
  BY DeliveryInvariant, PTL DEF DeliveryInv

\* Readers of the file never see part of one, unless invocations overlapped.
THEOREM WholeReports == DeliverySpec => []WholeUnlessOverlapped
<1>1. DeliveryInv => WholeUnlessOverlapped
  BY DEF DeliveryInv, Alone, DeliveryTypeOK, WholeUnlessOverlapped
<1>2. QED
  BY <1>1, DeliveryInvariant, PTL

\* What readers find can be drawn and is public, whatever was asked for.
THEOREM DrawableReports == DeliverySpec => []ServedIsDrawable
<1>1. DeliveryInv => ServedIsDrawable
  BY DEF DeliveryInv, StoredFit, Fit, ServedIsDrawable
<1>2. QED
  BY <1>1, DeliveryInvariant, PTL

\* Whoever reports success has been read, or was not alone.
THEOREM TrueSuccess == DeliverySpec => []SuccessWasServed
<1>1. DeliveryInv => SuccessWasServed
  BY DEF DeliveryInv, ServedInTime, SuccessWasServed
<1>2. QED
  BY <1>1, DeliveryInvariant, PTL

\* Alone and without a late upload, what readers find never gets older.
THEOREM NewestReports == DeliverySpec => NeverOlder
<1> DEFINE Newer == ~(overlapped' \/ late') =>
              /\ ~OlderThan(publicBlob', publicBlob)
              /\ \A f \in {file} \cap Invocations, g \in {file'} \cap Invocations :
                   ~OlderThan(content'[g], content[f])
<1>1. DeliveryInv /\ [DeliveryNext]_deliveryVars => Newer
  <2> SUFFICES ASSUME DeliveryInv, [DeliveryNext]_deliveryVars, ~overlapped', ~late'
               PROVE  /\ ~OlderThan(publicBlob', publicBlob)
                      /\ \A f \in {file} \cap Invocations, g \in {file'} \cap Invocations :
                           ~OlderThan(content'[g], content[f])
    OBVIOUS
  <2> USE DEF DeliveryInv, OlderThan, DeliveryTypeOK, Process
  <2>1. \A e \in Envelope : ~(e.at < e.at)
    BY EnvelopeFields
  <2>2. CASE UNCHANGED <<file, content, publicBlob>>
    BY <2>1, <2>2
  <2>3. ASSUME NEW p \in Invocations, Open(p) \/ Write(p) \/ Kill(p)
       
             PROVE  UNCHANGED <<file, publicBlob>> /\ (file # NoFile => content'[file] = content[file])
    <3>1. ~overlapped
      BY <2>3 DEF Open, Write, Kill
    <3>2. CASE Open(p)
      BY <3>1, <3>2 DEF Open, At, Alone, NewInodes
    <3>3. CASE Write(p)
      BY <3>1, <3>3 DEF Write, At, Alone
    <3>4. CASE Kill(p)
      BY <3>1, <3>4 DEF Kill, At, Alone
    <3> QED
      BY <2>3, <3>2, <3>3, <3>4
  <2>4. ASSUME NEW p \in Invocations, Replace(p) PROVE Newer
    <3>1. ~overlapped /\ ~late /\ UNCHANGED <<content, publicBlob>> /\ cli[p].pc = "closed"
      BY <2>4 DEF Replace, At
    <3>2. temp # NoFile /\ file' = temp /\ content[temp] = cli[p].envelope
      BY <2>4, <3>1 DEF Replace, At, Alone
    <3>3. file # NoFile => content[file].at <= cli[p].envelope.at
      BY <3>1 DEF NewestLast, Live, Underway
    <3> QED
      BY <2>1, <3>1, <3>2, <3>3, EnvelopeFields
  <2>5. ASSUME NEW p \in Invocations, Store(p) PROVE Newer
    <3>1. ~overlapped /\ UNCHANGED <<file, content>> /\ publicBlob' = cli[p].envelope
      BY <2>5 DEF Store
    <3>2. ~late /\ cli[p].pc \notin {"refused", "killed"}
      BY <2>5, Zenon DEF Store
    <3>3. Live(p)
      BY <2>5, <3>2 DEF Store, OneUpload, Live, Underway
    <3>4. publicBlob \in Envelope => publicBlob.at <= cli[p].envelope.at
      BY <3>1, <3>2, <3>3 DEF NewestLast
    <3> QED
      BY <2>1, <3>1, <3>4, EnvelopeFields
  <2>6. QED
    BY <2>1, <2>2, <2>3, <2>4, <2>5
      
       DEF DeliveryNext, deliveryVars, Tick, Prepare, Refuse, Unauthorized, Send, TurnDown, Answered, GiveUp
<1>2. QED
  BY <1>1, DeliveryInvariant, PTL DEF DeliverySpec, NeverOlder
===============================================================================
