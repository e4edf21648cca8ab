----------------------------- MODULE AuthorityClaim -----------------------------
(***************************************************************************)
(* Durable single-use deployment authorization.  A workflow run consumes a *)
(* committed request by creating the tag authority-consumed/<request id>   *)
(* (durable-authorization-claim-v2.yml, with authority_claim_v2.py); the   *)
(* job that can log in to Azure (azure-mcp-live-deploy.yml) runs after.    *)
(*                                                                         *)
(* Runs are dispatched, run concurrently, fail at any step and are rerun   *)
(* by hand, in whole or only their failed jobs.  The answer to the request *)
(* that creates the tag may be lost after the tag was created.             *)
(***************************************************************************)
EXTENDS Naturals, FiniteSets

CONSTANTS Runs,            \* workflow runs
          Requests,        \* request files
          Ids,             \* request ids (UUIDv7)
          IdOf,            \* [Requests -> Ids], the id each file declares
          Commits,         \* commits a run may execute
          Delta,           \* <<request, commit>> where the tree differs from
                           \* the reviewed source by that request file alone
          WellFormed,      \* requests with the exact schema, digest, identity,
                           \* finite authority flags and an active status
          InScope,         \* requests for the operation and target deployed
          IssuedAt,        \* [Requests -> Nat]
          ValidUntil,      \* [Requests -> Nat]
          MaxAttempts,     \* bound on the reruns of one run
          MaxTime,         \* bound on the clock
          None             \* no tag

Attempts == 1..MaxAttempts

ASSUME ClaimAssumption ==
    /\ IdOf \in [Requests -> Ids]
    /\ Delta \subseteq Requests \X Commits
    /\ WellFormed \subseteq Requests
    /\ InScope \subseteq Requests
    /\ IssuedAt \in [Requests -> Nat]
    /\ ValidUntil \in [Requests -> Nat]
    /\ MaxAttempts \in Nat \ {0}
    /\ MaxTime \in Nat
    /\ None \notin Commits

VARIABLES
    phase,      \* [Runs -> Phases], where the current attempt of a run stands
    request,    \* [Runs -> Requests], the dispatched request_path
    commit,     \* [Runs -> Commits], GITHUB_SHA
    confirmed,  \* [Runs -> BOOLEAN], the confirmation names the request id
    attempt,    \* [Runs -> Attempts], GITHUB_RUN_ATTEMPT
    ledger,     \* [Ids -> Commits or None], refs/tags/authority-consumed/<id>
    winners,    \* history: <<id, run, attempt>> told that they created the tag
    logins,     \* history: <<id, run, attempt>> that logged in to Azure
    built,      \* history: <<kind, run, attempt>> deployments they created
    deleted,    \* history: ids whose tag an administrator has deleted
    clock

inputs == <<request, commit, confirmed>>
outside == <<deleted, clock>>
vars == <<phase, inputs, attempt, ledger, winners, logins, built, outside>>

ClaimPhases == {"validate", "create", "upload"}
DeployPhases == {"approval", "enforce", "login", "context", "entra", "infra",
                 "verify"}
Phases == {"undispatched", "claim_failed", "deploy_failed", "succeeded"}
              \cup ClaimPhases \cup DeployPhases

Kinds == {"providers", "entra", "infra"}

TypeOK ==
    /\ phase \in [Runs -> Phases]
    /\ request \in [Runs -> Requests]
    /\ commit \in [Runs -> Commits]
    /\ confirmed \in [Runs -> BOOLEAN]
    /\ attempt \in [Runs -> Attempts]
    /\ ledger \in [Ids -> Commits \cup {None}]
    /\ winners \subseteq Ids \X Runs \X Attempts
    /\ logins \subseteq Ids \X Runs \X Attempts
    /\ built \subseteq Kinds \X Runs \X Attempts
    /\ deleted \subseteq Ids
    /\ clock \in 0..MaxTime

RequestId(r) == IdOf[request[r]]
Stamp(r) == <<RequestId(r), r, attempt[r]>>

Goto(r, next) == phase' = [phase EXCEPT ![r] = next]

Init ==
    /\ phase = [r \in Runs |-> "undispatched"]
    /\ request \in [Runs -> Requests]
    /\ commit \in [Runs -> Commits]
    /\ confirmed \in [Runs -> BOOLEAN]
    /\ attempt = [r \in Runs |-> 1]
    /\ ledger = [i \in Ids |-> None]
    /\ winners = {}
    /\ logins = {}
    /\ built = {}
    /\ deleted = {}
    /\ clock = 0

Dispatch(r) ==
    /\ phase[r] = "undispatched"
    /\ Goto(r, "validate")
    /\ UNCHANGED <<inputs, attempt, ledger, winners, logins, built, outside>>

-----------------------------------------------------------------------------
(* The claim job.                                                          *)

\* Mutant: the tree delta is not checked.
ValidAnyTree(r) ==
    /\ request[r] \in WellFormed
    /\ IssuedAt[request[r]] <= clock
    /\ clock <= ValidUntil[request[r]]
    /\ IssuedAt[request[r]] < ValidUntil[request[r]]

\* validate_request and the tree check of the workflow.
Valid(r) ==
    /\ request[r] \in WellFormed
    /\ <<request[r], commit[r]>> \in Delta
    /\ IssuedAt[request[r]] <= clock
    /\ clock <= ValidUntil[request[r]]
    /\ IssuedAt[request[r]] < ValidUntil[request[r]]

Validate(r) ==
    /\ phase[r] = "validate"
    /\ Goto(r, IF Valid(r) THEN "create" ELSE "claim_failed")
    /\ UNCHANGED <<inputs, attempt, ledger, winners, logins, built, outside>>

\* POST git/refs creates the tag, and the answer says so.
Consume(r) ==
    /\ phase[r] = "create"
    /\ ledger[RequestId(r)] = None
    /\ ledger' = [ledger EXCEPT ![RequestId(r)] = commit[r]]
    /\ winners' = winners \cup {Stamp(r)}
    /\ Goto(r, "upload")
    /\ UNCHANGED <<inputs, attempt, logins, built, outside>>

\* POST git/refs creates the tag, but the step sees an error or dies.
ConsumeUnheard(r) ==
    /\ phase[r] = "create"
    /\ ledger[RequestId(r)] = None
    /\ ledger' = [ledger EXCEPT ![RequestId(r)] = commit[r]]
    /\ Goto(r, "claim_failed")
    /\ UNCHANGED <<inputs, attempt, winners, logins, built, outside>>

\* Mutant: "already exists" counts as success.
ReplayAdmitted(r) ==
    /\ phase[r] = "create"
    /\ ledger[RequestId(r)] # None
    /\ winners' = winners \cup {Stamp(r)}
    /\ Goto(r, "upload")
    /\ UNCHANGED <<inputs, attempt, ledger, logins, built, outside>>

\* The tag exists: the replay is refused.
Replay(r) ==
    /\ phase[r] = "create"
    /\ ledger[RequestId(r)] # None
    /\ Goto(r, "claim_failed")
    /\ UNCHANGED <<inputs, attempt, ledger, winners, logins, built, outside>>

\* The evidence is uploaded, the claim job succeeds, and the run waits for the
\* approval of its environment.
Upload(r) ==
    /\ phase[r] = "upload"
    /\ Goto(r, "approval")
    /\ UNCHANGED <<inputs, attempt, ledger, winners, logins, built, outside>>

-----------------------------------------------------------------------------
(* The deploy job: it needs the claim job of its run.                      *)

Approve(r) ==
    /\ phase[r] = "approval"
    /\ Goto(r, "enforce")
    /\ UNCHANGED <<inputs, attempt, ledger, winners, logins, built, outside>>

\* Mutant: reruns are admitted.
AdmittedAgain(r) == confirmed[r] /\ request[r] \in InScope

Admitted(r) ==
    /\ attempt[r] = 1
    /\ confirmed[r]
    /\ request[r] \in InScope

Enforce(r) ==
    /\ phase[r] = "enforce"
    /\ Goto(r, IF Admitted(r) THEN "login" ELSE "deploy_failed")
    /\ UNCHANGED <<inputs, attempt, ledger, winners, logins, built, outside>>

Login(r) ==
    /\ phase[r] = "login"
    /\ logins' = logins \cup {Stamp(r)}
    /\ Goto(r, "context")
    /\ UNCHANGED <<inputs, attempt, ledger, winners, built, outside>>

\* Mutant: the Entra deployment is skipped.
CheckContextSkips(r) ==
    /\ phase[r] = "context"
    /\ Goto(r, "infra")
    /\ UNCHANGED <<inputs, attempt, ledger, winners, logins, built, outside>>

\* A command of the run changes Azure.  It may do so and yet report a failure.
Build(r, kind, next) ==
    /\ built' = built \cup {<<kind, r, attempt[r]>>}
    /\ Goto(r, next) \/ Goto(r, "deploy_failed")
    /\ UNCHANGED <<inputs, attempt, ledger, winners, logins, outside>>

\* Context and permission checks, registration of the providers that are not
\* registered yet, What-If.
CheckContext(r) ==
    /\ phase[r] = "context"
    /\ \/ Build(r, "providers", "entra")
       \/ /\ Goto(r, "entra")
          /\ UNCHANGED <<inputs, attempt, ledger, winners, logins, built, outside>>

DeployEntra(r) == phase[r] = "entra" /\ Build(r, "entra", "infra")

DeployInfra(r) == phase[r] = "infra" /\ Build(r, "infra", "verify")

Verify(r) ==
    /\ phase[r] = "verify"
    /\ Goto(r, "succeeded")
    /\ UNCHANGED <<inputs, attempt, ledger, winners, logins, built, outside>>

-----------------------------------------------------------------------------
(* The environment.                                                        *)

\* A step fails, the job times out, the approval is refused, a runner dies.
StepFails(r) ==
    /\ \/ phase[r] \in ClaimPhases /\ Goto(r, "claim_failed")
       \/ phase[r] \in DeployPhases /\ Goto(r, "deploy_failed")
    /\ UNCHANGED <<inputs, attempt, ledger, winners, logins, built, outside>>

\* "Re-run all jobs" of a finished run.
RerunAll(r) ==
    /\ phase[r] \in {"claim_failed", "deploy_failed", "succeeded"}
    /\ attempt[r] < MaxAttempts
    /\ attempt' = [attempt EXCEPT ![r] = @ + 1]
    /\ Goto(r, "validate")
    /\ UNCHANGED <<inputs, ledger, winners, logins, built, outside>>

\* "Re-run failed jobs", or the deploy job alone: the outputs of a claim job
\* that succeeded are reused.
RerunDeploy(r) ==
    /\ phase[r] \in {"deploy_failed", "succeeded"}
    /\ attempt[r] < MaxAttempts
    /\ attempt' = [attempt EXCEPT ![r] = @ + 1]
    /\ Goto(r, "approval")
    /\ UNCHANGED <<inputs, ledger, winners, logins, built, outside>>

\* The tags are not protected by a ruleset: an administrator may delete one.
DeleteTag(i) ==
    /\ ledger[i] # None
    /\ ledger' = [ledger EXCEPT ![i] = None]
    /\ deleted' = deleted \cup {i}
    /\ UNCHANGED <<phase, inputs, attempt, winners, logins, built, clock>>

Tick ==
    /\ clock < MaxTime
    /\ clock' = clock + 1
    /\ UNCHANGED <<phase, inputs, attempt, ledger, winners, logins, built, deleted>>

ClaimJob(r) ==
    \/ Validate(r) \/ Consume(r) \/ ConsumeUnheard(r) \/ Replay(r)
    \/ Upload(r)

DeployJob(r) ==
    \/ Enforce(r) \/ Login(r) \/ CheckContext(r)
    \/ DeployEntra(r) \/ DeployInfra(r) \/ Verify(r)

Next ==
    \/ \E r \in Runs :
         \/ Dispatch(r) \/ ClaimJob(r) \/ Approve(r) \/ DeployJob(r)
         \/ StepFails(r) \/ RerunAll(r) \/ RerunDeploy(r)
    \/ \E i \in Ids : DeleteTag(i)
    \/ Tick

Spec == Init /\ [][Next]_vars

-----------------------------------------------------------------------------
(* Properties.                                                             *)

\* A request is claimed at most once: however many runs race for it, at most
\* one attempt of one run is told that it created the tag
\* (the first-writer creation of durable-authorization-claim-v2.yml:101-118),
\* as long as nobody deletes the tag.
AtMostOneWinner ==
    \A x, y \in winners : x[1] = y[1] /\ x[1] \notin deleted => x = y

\* A request buys one login to Azure, whatever fails afterwards and however
\* the run is rerun (azure-mcp-live-deploy.yml:27, 68).
OneLoginPerRequest ==
    \A x, y \in logins : x[1] = y[1] /\ x[1] \notin deleted => x = y

\* The attempt that logs in is the one that created the tag, and the tag, if
\* nobody deleted it, points to the commit that attempt executes.
LoginHoldsClaim ==
    \A x \in logins :
        /\ x \in winners
        /\ x[1] \notin deleted => ledger[x[1]] = commit[x[2]]

\* Every deployment was made by an attempt that logged in; the infrastructure
\* is only deployed after the Entra application of the same attempt.
BuiltByWinner ==
    \A b \in built :
        /\ <<RequestId(b[2]), b[2], b[3]>> \in logins
        /\ b[1] = "infra" => <<"entra", b[2], b[3]>> \in built

\* A consumption record never changes and, failures and reruns of its run
\* included, only disappears by an administrator's hand.
ConsumptionIsFinal ==
    [][\A i \in Ids : ledger[i] # None /\ i \notin deleted'
                         => ledger'[i] = ledger[i]]_ledger

\* What was deployed is what was reviewed, confirmed and in scope: the checks
\* of the claim job and of the deploy job both stand between a dispatch and
\* any change in Azure, on every path through failures and reruns.
BuiltAsReviewed ==
    \A b \in built :
        /\ request[b[2]] \in WellFormed \cap InScope
        /\ <<request[b[2]], commit[b[2]]>> \in Delta
        /\ confirmed[b[2]]

\* One run logs in once, whatever is rerun, even when its tag is deleted behind
\* its back and claimed again, by the run itself or by another one
\* (azure-mcp-live-deploy.yml:27, 68, 87).
OneLoginPerRun ==
    \A x, y \in logins : x[2] = y[2] => x = y
=============================================================================
