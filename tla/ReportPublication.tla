-------------------------- MODULE ReportPublication --------------------------
(***************************************************************************)
(* The executor of the existing-collector report publication               *)
(* (infra/scripts/execute_existing_collector_report_publication.sh) and the *)
(* workflow that runs it.  It looks that no report Storage account exists, *)
(* deploys one, publishes a report into it from the collector VM, fetches  *)
(* the report back, and promises to undo the deployment when it fails.     *)
(*                                                                         *)
(* Azure is outside the program and does not stop when the executor does:  *)
(* a deployment goes on after the command that started it has died, so     *)
(* does the publisher script on the VM, and the lifecycle workflow, which  *)
(* is in another concurrency group, may deploy the same account.           *)
(***************************************************************************)
EXTENDS Naturals, FiniteSets

CONSTANTS
    Runs,          \* runs of the publication workflow, in one concurrency group
    Lifecycle,     \* the lifecycle workflow, which deploys the same account
    None,          \* no account, no report
    MaxLifecycle   \* bound: deployments of the lifecycle workflow

ASSUME PublicationAssumption ==
    /\ Lifecycle \notin Runs
    /\ None \notin Runs \cup {Lifecycle}
    /\ MaxLifecycle \in Nat

VARIABLES
    owner,         \* who brought the report Storage account into existence
    built,         \* the reviewed resources that exist
    blob,          \* whose report the public URL serves
    deployment,    \* per run, the state of its ARM deployment
    made,          \* per run, the resources its deployment has put
    publication,   \* per run, the state of its publisher script on the VM
    pc,            \* per run, the executor's next step
    armed,         \* per run, rollback_required
    notes,         \* per run, the evidence files written
    exit,          \* per run, how the executor ended
    newTo,         \* history: the runs whose What-If preceded the account
    mishap,        \* history: per run, what went wrong while it undid its work
    lifecycles     \* deployments of the lifecycle workflow so far

account == <<owner, built, blob, newTo>>
cloud == <<deployment, made, publication>>
evidence == <<notes, exit, mishap>>
vars == <<account, cloud, evidence, pc, armed, lifecycles>>

(* The account, its Blob service with the $web container, the data role.   *)
Resources == {"account", "container", "role"}

Working == {"inventory", "whatif", "deploy", "deploying", "verify", "analyse",
            "publish", "publishing", "fetch", "record", "disarm", "summary"}
RollingBack == {"rb_inventory", "rb_delete", "rb_check"}
Active == Working \cup RollingBack
Looked == Active \ {"inventory", "whatif"}

JobStates == {"none", "running", "succeeded", "failed"}
Notes == {"verified", "summary", "rolled_back"}
Mishaps == {"unseen", "undeleted", "outlived"}

Init ==
    /\ owner = None /\ built = {} /\ blob = None
    /\ deployment = [r \in Runs |-> "none"]
    /\ made = [r \in Runs |-> {}]
    /\ publication = [r \in Runs |-> "none"]
    /\ pc = [r \in Runs |-> "idle"]
    /\ armed = [r \in Runs |-> FALSE]
    /\ notes = [r \in Runs |-> {}]
    /\ exit = [r \in Runs |-> "none"]
    /\ newTo = {}
    /\ mishap = [r \in Runs |-> {}]
    /\ lifecycles = 0

Goto(r, from, to) == pc[r] = from /\ pc' = [pc EXCEPT ![r] = to]

(* Plausible bug: managed run commands, of which a VM runs several at once. *)
VMAlwaysFree == TRUE

(* A VM executes one invoked command at a time and refuses a second one.   *)
VMFree == \A r \in Runs : publication[r] # "running"

(* One deployment of a name is active at a time in a resource group.       *)
NameFree == \A r \in Runs : deployment[r] # "running"

-----------------------------------------------------------------------------
(* Before the deployment.                                                  *)

Start(r) ==
    /\ \A q \in Runs : pc[q] \notin Active
    /\ Goto(r, "idle", "inventory")
    /\ UNCHANGED <<account, cloud, evidence, armed, lifecycles>>

(* No report account by name or tag, the publisher preflight on the VM.    *)
Inventory(r) ==
    /\ Goto(r, "inventory", "whatif")
    /\ owner = None
    /\ VMFree
    /\ UNCHANGED <<account, cloud, evidence, armed, lifecycles>>

(* Plausible bug: resources that exist already are accepted as NoChange.   *)
WhatIfAllowsNoChange(r) ==
    /\ Goto(r, "whatif", "deploy")
    /\ UNCHANGED <<account, cloud, evidence, armed, lifecycles>>

(* Provider validation and a What-If of exactly four creates.              *)
WhatIf(r) ==
    /\ Goto(r, "whatif", "deploy")
    /\ owner = None
    /\ UNCHANGED <<account, cloud, evidence, armed, lifecycles>>

-----------------------------------------------------------------------------
(* Deployment, verification, publication.                                  *)

Submitted(r) == [deployment EXCEPT ![r] = IF NameFree THEN "running" ELSE "failed"]

(* Plausible bug: the rollback is armed once the deployment has succeeded. *)
DeployUnarmed(r) ==
    /\ Goto(r, "deploy", "deploying")
    /\ deployment' = Submitted(r)
    /\ UNCHANGED <<account, made, publication, evidence, armed, lifecycles>>

(* rollback_required=true, then az deployment group create.                *)
Deploy(r) ==
    /\ Goto(r, "deploy", "deploying")
    /\ armed' = [armed EXCEPT ![r] = TRUE]
    /\ deployment' = Submitted(r)
    /\ UNCHANGED <<account, made, publication, evidence, lifecycles>>

DeployReturns(r) ==
    /\ Goto(r, "deploying", "verify")
    /\ deployment[r] = "succeeded"
    /\ UNCHANGED <<account, cloud, evidence, armed, lifecycles>>

(* Account, Blob service, container and role as reviewed.                  *)
Verify(r) ==
    /\ Goto(r, "verify", "analyse")
    /\ built = Resources
    /\ UNCHANGED <<account, cloud, evidence, armed, lifecycles>>

(* The bounded wait for healthy probes, then the diagnosis pipeline.       *)
Analyse(r) ==
    /\ Goto(r, "analyse", "publish")
    /\ UNCHANGED <<account, cloud, evidence, armed, lifecycles>>

(* The Run Command that starts the publisher script on the collector VM.   *)
Publish(r) ==
    /\ Goto(r, "publish", "publishing")
    /\ VMFree
    /\ publication' = [publication EXCEPT ![r] = "running"]
    /\ UNCHANGED <<account, deployment, made, evidence, armed, lifecycles>>

PublishReturns(r) ==
    /\ Goto(r, "publishing", "fetch")
    /\ publication[r] = "succeeded"
    /\ UNCHANGED <<account, cloud, evidence, armed, lifecycles>>

(* The public URL answers with the report this run analysed.               *)
Fetch(r) ==
    /\ Goto(r, "fetch", "record")
    /\ blob = r
    /\ UNCHANGED <<account, cloud, evidence, armed, lifecycles>>

Note(r, n) == notes' = [notes EXCEPT ![r] = @ \cup {n}]

(* live-integration-verification.json and the workflow's outputs.          *)
Record(r) ==
    /\ Goto(r, "record", "disarm")
    /\ Note(r, "verified")
    /\ UNCHANGED <<account, cloud, exit, mishap, armed, lifecycles>>

(* rollback_required=false.                                                *)
Disarm(r) ==
    /\ Goto(r, "disarm", "summary")
    /\ armed' = [armed EXCEPT ![r] = FALSE]
    /\ UNCHANGED <<account, cloud, evidence, lifecycles>>

(* execution-summary.json, exit 0.                                         *)
Summary(r) ==
    /\ Goto(r, "summary", "done")
    /\ Note(r, "summary")
    /\ exit' = [exit EXCEPT ![r] = "ok"]
    /\ UNCHANGED <<account, cloud, mishap, armed, lifecycles>>

-----------------------------------------------------------------------------
(* How a run ends otherwise: on_exit and rollback_publication.             *)

Happened(r, m) == mishap' = [mishap EXCEPT ![r] = @ \cup {m}]

(* set -e, fail or a refused command: exit status other than 0.  The       *)
(* deployment may still be under way in Azure.                             *)
Fail(r) ==
    /\ pc[r] \in Working
    /\ pc' = [pc EXCEPT ![r] = IF armed[r] THEN "rb_inventory" ELSE "done"]
    /\ exit' = [exit EXCEPT ![r] = IF armed[r] THEN @ ELSE "failed"]
    /\ IF deployment[r] = "running" THEN Happened(r, "outlived")
                                    ELSE UNCHANGED mishap
    /\ UNCHANGED <<account, cloud, notes, armed, lifecycles>>

(* The run is cancelled, or its runner dies.  Bash runs the EXIT trap of a *)
(* signalled shell with the status of its last command, 0, and on_exit     *)
(* then does nothing.                                                      *)
Stop(r) ==
    /\ pc[r] \in Active
    /\ pc' = [pc EXCEPT ![r] = "done"]
    /\ exit' = [exit EXCEPT ![r] = "stopped"]
    /\ UNCHANGED <<account, cloud, notes, mishap, armed, lifecycles>>

(* az storage account show, then the role assignments of the account.      *)
RollbackInventory(r) ==
    /\ Goto(r, "rb_inventory", "rb_delete")
    /\ owner # None
    /\ UNCHANGED <<account, cloud, evidence, armed, lifecycles>>

(* An account that is absent, and one that az cannot show.                 *)
RollbackSeesNothing(r) ==
    /\ Goto(r, "rb_inventory", "rb_check")
    /\ IF owner = None THEN UNCHANGED mishap ELSE Happened(r, "unseen")
    /\ UNCHANGED <<account, cloud, notes, exit, armed, lifecycles>>

Removed == /\ owner' = None /\ built' = {} /\ blob' = None /\ newTo' = {}

(* Role assignments, then the account.  The function runs under "|| true", *)
(* so that a deletion that fails does not stop it.                         *)
RollbackDelete(r) ==
    /\ Goto(r, "rb_delete", "rb_check")
    /\ \/ Removed /\ UNCHANGED mishap
       \/ /\ owner # None
          /\ built' \in {built, built \ {"role"}}
          /\ Happened(r, "undeleted")
          /\ UNCHANGED <<owner, blob, newTo>>
    /\ UNCHANGED <<cloud, notes, exit, armed, lifecycles>>

(* az storage account show once more: an account that is shown means a     *)
(* failed rollback, anything else is recorded as rolled back.              *)
RollbackCheck(r) ==
    /\ Goto(r, "rb_check", "done")
    /\ exit' = [exit EXCEPT ![r] = "failed"]
    /\ \/ owner = None /\ Note(r, "rolled_back") /\ UNCHANGED mishap
       \/ owner # None /\ Note(r, "rolled_back") /\ Happened(r, "unseen")
       \/ owner # None /\ Happened(r, "undeleted") /\ UNCHANGED notes
    /\ UNCHANGED <<account, cloud, armed, lifecycles>>

-----------------------------------------------------------------------------
(* Azure and the lifecycle workflow.                                       *)

Creates(who) ==
    IF owner = None
    THEN owner' = who /\ newTo' = {r \in Runs : pc[r] \in Looked}
    ELSE UNCHANGED <<owner, newTo>>

(* A deployment puts the account before what lies in it.                   *)
Put(r, x) ==
    /\ deployment[r] = "running"
    /\ x \in Resources \ made[r]
    /\ IF x = "account" THEN Creates(r)
                        ELSE /\ "account" \in made[r] \cap built
                             /\ UNCHANGED <<owner, newTo>>
    /\ built' = built \cup {x}
    /\ made' = [made EXCEPT ![r] = @ \cup {x}]
    /\ UNCHANGED <<blob, deployment, publication, evidence, pc, armed, lifecycles>>

DeploymentEnds(r) ==
    /\ deployment[r] = "running"
    /\ \E s \in {"failed"} \cup (IF made[r] = Resources THEN {"succeeded"} ELSE {}) :
         deployment' = [deployment EXCEPT ![r] = s]
    /\ UNCHANGED <<account, made, publication, evidence, pc, armed, lifecycles>>

(* publish_to_azure_blob with the VM's identity, repeated up to 18 times:  *)
(* every attempt writes the same report.                                   *)
PublisherPuts(r) ==
    /\ publication[r] = "running"
    /\ built = Resources
    /\ blob' = r
    /\ publication' = [publication EXCEPT ![r] = "succeeded"]
    /\ UNCHANGED <<owner, built, newTo, deployment, made, evidence, pc, armed, lifecycles>>

PublisherGivesUp(r) ==
    /\ publication[r] = "running"
    /\ publication' = [publication EXCEPT ![r] = "failed"]
    /\ UNCHANGED <<account, deployment, made, evidence, pc, armed, lifecycles>>

(* infra/main.bicep with deployPublicReportEndpoint deploys the same       *)
(* module under the same deterministic account name.                       *)
LifecycleDeploys ==
    /\ lifecycles < MaxLifecycle
    /\ lifecycles' = lifecycles + 1
    /\ Creates(Lifecycle)
    /\ built' = Resources
    /\ UNCHANGED <<blob, cloud, evidence, pc, armed>>

Execute(r) ==
    \/ Start(r) \/ Inventory(r) \/ WhatIf(r) \/ Deploy(r) \/ DeployReturns(r)
    \/ Verify(r) \/ Analyse(r) \/ Publish(r) \/ PublishReturns(r) \/ Fetch(r)
    \/ Record(r) \/ Disarm(r) \/ Summary(r)
    \/ RollbackInventory(r) \/ RollbackSeesNothing(r) \/ RollbackDelete(r)
    \/ RollbackCheck(r)

Azure(r) ==
    \/ \E x \in Resources : Put(r, x)
    \/ DeploymentEnds(r) \/ PublisherPuts(r) \/ PublisherGivesUp(r)

Next ==
    \/ \E r \in Runs : Execute(r) \/ Fail(r) \/ Stop(r) \/ Azure(r)
    \/ LifecycleDeploys

Spec == Init /\ [][Next]_vars

-----------------------------------------------------------------------------
(* Properties.                                                             *)

(* Every variable keeps its type.                                          *)
TypeOK ==
    /\ owner \in Runs \cup {Lifecycle, None}
    /\ built \subseteq Resources
    /\ blob \in Runs \cup {None}
    /\ newTo \subseteq Runs
    /\ deployment \in [Runs -> JobStates]
    /\ made \in [Runs -> SUBSET Resources]
    /\ publication \in [Runs -> JobStates]
    /\ pc \in [Runs -> Active \cup {"idle", "done"}]
    /\ armed \in [Runs -> BOOLEAN]
    /\ notes \in [Runs -> SUBSET Notes]
    /\ exit \in [Runs -> {"none", "ok", "failed", "stopped"}]
    /\ mishap \in [Runs -> SUBSET Mishaps]
    /\ lifecycles \in 0 .. MaxLifecycle

(* An account that a failed run leaves behind has an explanation: Azure    *)
(* answered wrongly during the rollback, the deployment went on after its  *)
(* command had failed, or the whole live path had been verified before     *)
(* the failure and is still served.                                        *)
LeftoverExplained ==
    \A r \in Runs :
        exit[r] = "failed" /\ owner = r =>
            mishap[r] # {} \/ ("verified" \in notes[r] /\ blob = r)

(* A run that succeeded stays served: the account with all its resources   *)
(* exists and the public URL returns the report of that very run, whatever *)
(* earlier and later runs, their rollbacks and their left-over deployments *)
(* and publishers do.                                                      *)
SuccessIsServed ==
    \A r \in Runs : exit[r] = "ok" => built = Resources /\ blob = r

(* A rollback deletes no account that existed when its run looked, be it   *)
(* another run's or the lifecycle workflow's.                              *)
PreexistingSpared ==
    [][owner # None /\ owner' = None =>
         \A r \in Runs : pc[r] = "rb_delete" => r \in newTo]_vars
=============================================================================
