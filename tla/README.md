# TLA+ specification of the ServiceTracer governed Azure operations lab

The repository collects diagnostic evidence from a remote-access service in
Azure, diagnoses it, publishes a sanitized report, and governs every change it
makes to Azure: single-use authorizations, pinned plans, typed confirmations,
bounded retries and rollbacks. These modules model the parts of it whose
correctness depends on order, concurrency, failure or repetition; TLC checks
them on small instances, and TLAPS proves the central facts for every instance.

Run from this directory, with a TLA+ tool box whose library holds the community
modules:

    tlc -config SpoolAllFaults.cfg MCJsonlSpool
    tlapm AuthorityClaim_proofs.tla

`PROJECT.json` lists every run with its module, configuration and properties,
every definition with the source lines it models, the hazards, the findings and
the theorems.

## 1. Inventory

Each part: its state; its operations; who it talks to; what is hard; what makes
it correct. "Modelled" names the module.

**Evidence collector** (`servicetracer/src/servicetracer/collector.py`,
`collector_cli.py`, the systemd unit) — modelled by `JsonlSpool`.
State: an append-only JSON-lines file, its content on disk, one lock per
process. Operations: `append` (rebuild the identity index from the file, check
the whole batch, write, flush, fsync, acknowledge), `status`, the threaded HTTP
front end, the syslog front ends, one-shot `ingest`. Hard: handler threads that
race for the lock, kills between and inside lines, power loss before fsync, I/O
errors, lost receipts and retries. Correct when: one identity has one content,
duplicates are stored once, a refused batch leaves nothing, and a receipt
vouches for what stays.

**Single-use authorization ledger** (`infra/scripts/authority_claim_v2.py`,
`durable-authorization-claim-v2.yml`, `azure-mcp-live-deploy.yml`) — modelled by
`AuthorityClaim`. State: one Git tag per consumed request, the runs and their
attempts, what was built in Azure. Operations: validate, create the tag, upload
evidence, approve, enforce, log in, deploy Entra, deploy infrastructure,
verify, rerun all or only the failed job. Hard: racing runs with no concurrency
group, a lost answer to the creation of the tag, reruns that reuse the outputs
of an earlier job, deletion of tags, partial deployments. Correct when: a
request buys at most one login and everything built was reviewed and claimed.

**Governed persistence controller** (`infra/scripts/governed_persistence.py`) —
modelled by `GovernedPersistence` (the document and its control messages) and
`PersistenceEvaluator` (`evaluate_collector_demo_api`). State: one JSON document
with phase, attempt, budgets, strategy, authority, history. Operations: eight
control messages, and the evaluator that turns evidence into advice. Hard: long
legal sequences of messages, retry budgets at their boundary, flags that outlive
what they attest. Correct when: attempts are bounded, closing needs proof,
closed documents stay closed, and the history explains the document.

**What-If cron scheduler** (`infra/scripts/run_collector_demo_api_what_if_cycle.sh`,
`verify_collector_demo_api_scheduler_artifact.py`, the workflow
`collector-demo-api.yml`, and the scripts whose files a run uploads:
`assess_collector_demo_api_readiness.py`, `assert_collector_demo_api_what_if.py`,
`verify_collector_demo_api_evidence.py`) — modelled by `WhatIfScheduler`, which uses
`DemoApiEvidence` for those files and `PersistenceEvaluator` for the advice. State: a
host lock, `state.json`, the GitHub run list. Operations: one cycle: lock, check main,
count the attempt, list runs, dispatch, discover its run, poll, download, verify,
evaluate, save. Hard: main moves, other people dispatch, runs are listed late, polling
windows close early, any command fails, the host stops, a run fails after it uploaded
good evidence, quotas and change lists at their limits. Correct when: advice rests on
a run of the reviewed commit, "proceed" is recorded only where Azure was fit for the
deployment, and a decision stops the dispatches.

**Report publication** (`infra/scripts/execute_existing_collector_report_publication.sh`,
its workflow, `infra/modules/report_publication.bicep`) — modelled by
`ReportPublication`. State: the Storage account with container and role, the
public blob, the runs, their `rollback_required`. Operations: inventory, What-If,
deploy, verify, analyse, publish, fetch, record, and the EXIT trap with its
rollback. Hard: Azure goes on when the executor stops; three looks at Azure
before the deployment and another workflow that may deploy in between; a
rollback whose own commands fail; cancellation. Correct when: a success stays
served, nothing older is deleted, and what a failure leaves can be explained.

**Publication planning and readiness** (`plan_existing_collector_report_publication.sh`,
`verify_existing_collector_publication_plan.py`,
`assess_existing_collector_publication_readiness.py` and their workflows) — modelled
by `PublicationPlan` (classification, manifest, prices, roles, quota) and
`PublicationPlanning` (planner, artifact and assessor over an Azure that others
change). State: the planner's artifact and the assessor's record of blocking
checks. Hard: a planner that fails half-way, files that are lost, cut or replaced,
a dozen commands that each look at another moment. Correct when: no assessment
begins on a plan that is not whole, and "ready" was clear check by check.

**Report delivery** (`publish_cli.py`, `report_publication.py`) — modelled by
`ReportDelivery`. State: the published file, its temporary file, the blob, uploads
on their way. Operations: sanitize, date, write and rename, or put with a managed
identity. Hard: invocations that overlap and share the name of the temporary file,
kills between its writes, uploads that are given up and stored later. Correct when:
readers find a whole envelope that the page can draw, success means that it could be
read, and nobody goes back to an older one.

**Diagnosis pipeline** (`evidence.py`, `analyzer.py`, `containment.py`, `cli.py`,
`azure_demo.py`, `demo_report.py`, `demo_data.py`) — modelled by `EvidenceAssembly`,
`IncidentReport` and, with the service, the collectors and the operator around
them, `IncidentInvestigation`. State: none of its own; it reads the evidence files
of an incident and of its containment and writes a report. Operations: normalize
and refuse records, assemble attempts, localize, assess the load balancer, plan
and judge a drain, hand over. Hard: records that are lost, late, repeated or in
any order; contradictions; equal failure rates; a report that is acted upon after
more evidence came. Correct when: what it says of a transaction is true and never
revised, no healthy backend is handed over or drained, and a drain is called
effective only on evidence. The live test (`azure_demo.py`) makes transactions of its
own and writes their records; it is an action of `IncidentInvestigation`. The
tickets and the layer assessment of the full report and the generator of demo data
are not modelled.

**Demo API** (`demo_api/core.py`, `runtime.py`, `standalone_server.py`) — modelled by
`DemoReport` and `DemoServer`. State: a cached identity with two lifetimes under a
lock, shared by server threads. Operations: health, a run over the lab's backends,
the query of the metadata service. Hard: the clock is read before the lock, a reply
that is no object raises through the thread pool, restarts and other deployments
behind the same URL. Correct when: nobody is told of an identity older than its
lifetime and a wait. The Azure Functions variant (`function_app.py`), which wraps the
same functions, and the two installers are not modelled.

**Browser front end** (`docs/app.js`, `docs/live-monitor.js`) — modelled by
`DemoPage` and `LiveMonitor`, composed with the server in `LiveDemo`. State: one
report, one screen, the completed steps, the monitor's panel, in one event loop.
Hard: a reset during a run, overlapping runs, polls that are aborted, lost or
answered by something else, a page that is hidden and shown again, a monitor that
stops half-way through its initialization. Correct when: what is shown as live, current
or verified is so, and every run ends.

**Azure reality observer** (`azure_mcp_reality`) — modelled by `RealityObserver` over
`AzureEstate`. State: what one call has read so far. Operations: a fixed sequence of
git and az commands, any of which may fail. Hard: the repository, the CLI's account
and the group change between the commands, and an error may look like absence.
Correct when: what is returned was true part by part and in the order of the reads.

**Clean-up assessment** (`scripts/servicetracer_resource_group_cleanup.py`) —
modelled by `CleanupAssessment` over the same estate. State: a collection and its
evidence directory. Hard: interruptions between the files of a package, two
collections in one directory, a query that returns its first rows only. Correct
when: a package is of one collection and a candidate it puts forward was free.

**Convergence attestation** (`experiments/convergence`) — modelled by
`ConvergenceAttestation`. State: the node states while the evaluation goes through
node and edge observations. Hard: the order of the observations, cycles in the
topology, stale and future classifications. Correct when: the verdict is that of the
declarative rule and no trusted node depends on a broken link.

**Listener boundary analysis** (`analyze_listener_boundary_evidence.py`), **recovery
and replacement validators** (`infra/recovery`, `infra/replacement`) — not modelled:
they compare the fields of one saved document with expected values, without state,
order or actors, and a model would repeat the list of fields.

**Not to be modelled.** Authorization claim v1 (`authority_claim.py`): its verifier
wants the committed request to name the commit that contains it (lines 233-245), which
no commit can satisfy, and no workflow calls it. The lab factory and the OpenAI
provider: look-ups and single calls. The repository's own document validators
(`.project`): the same kind as the recovery validators. Bicep, CI and the lifecycle
workflow: declarations whose effect lies in Azure; where another part meets the
lifecycle workflow, that part models what it does.

How the parts interact: the executor of the publication runs the diagnosis
pipeline, whose spool is the collector's; its publisher runs on the collector
VM. The scheduler calls the evaluator of the persistence controller on what the
quarantined workflow uploads. The claim workflow hands its outputs to the live
deployment. The front end reads the report that `publish_cli` puts and calls the demo
API. The readiness assessment works on the planner's artifact, and the executor on a
plan that a human confirms. The observer and the clean-up collection read the same
repository and group and know nothing of each other.

## 2. Modules

| Module | Models | Extends or uses |
| --- | --- | --- |
| `EvidenceLog` | what the collector promises: a write-once store with receipts | |
| `JsonlSpool` | the collector | `EvidenceLog` by refinement |
| `AuthorityClaim` | claim workflow v2 and live deployment | |
| `PersistenceEvaluator` | `evaluate_collector_demo_api` as an operator | |
| `GovernedPersistence` | the control messages of the document | |
| `DemoApiEvidence` | the files a run uploads, from a state of Azure: readiness, What-If, verification | `PersistenceEvaluator` |
| `WhatIfScheduler` | the cron cycle and the workflow it dispatches | `DemoApiEvidence` |
| `ReportPublication` | the publication executor, Azure around it | |
| `PublicationPlan` | what planner, verifier and assessor decide, as operators | |
| `PublicationPlanning` | planner, artifact and assessor, Azure around them | `PublicationPlan` |
| `ReportDelivery` | the publication command, the files and the blob | |
| `EvidenceAssembly` | from records to attempts, and what is refused | |
| `IncidentReport` | from attempts to localization, containment and handoff | `EvidenceAssembly` |
| `OutcomeLedger` | what evidence promises: outcomes learned once, never revised | |
| `IncidentInvestigation` | the service, collection, the live test, the command, the operator | `IncidentReport`, `OutcomeLedger` by refinement |
| `DemoReport` | what the demo API makes of the backends' answers | |
| `DemoServer` | its threads, the identity cache, the network to the browser | `DemoReport` |
| `LiveMonitor` | the health panel of the page | `DemoServer` |
| `DemoPage` | the page: loading, runs, resets, workflow steps | `LiveMonitor` |
| `LiveDemo` | the visitor, the browser, the server and time together | `DemoPage` |
| `AzureEstate` | external: repository, CLI profile and resource group, with their history | |
| `RealityObserver` | one observation, command by command | `AzureEstate` |
| `CleanupAssessment` | collections, assessment and package | `AzureEstate` |
| `AzureObservation` | both observers over one estate | `RealityObserver`, `CleanupAssessment` |
| `ConvergenceAttestation` | the evaluation of attestations | |
| `MC*` | constants and symmetry for TLC | the module each names |
| `AuthorityClaim_proofs`, `GovernedPersistence_proofs`, `WhatIfScheduler_proofs`, `PublicationPlanning_proofs`, `LiveDemo_proofs` | theorems | the module each names |
| `ServiceTracer_proofs` | theorems about the spool and the investigation | `JsonlSpool`, `IncidentInvestigation` |
| `ReportPublication_proofs` | theorems about executor and delivery | `ReportPublication`, `ReportDelivery` |
| `AzureObservation_proofs` | theorems about observers and attestation | `AzureObservation`, `ConvergenceAttestation` |

A comment "plausible bug" or "mutant" marks a changed form of a definition; the
specifications never use these forms. They are there to show that each property
fails when the code is changed in that way.

### Correspondence with the code

*JsonlSpool.* A client is one connection or one syslog datagram; `Submit` and
`Refuse` are the front end, `Acquire` the lock, `RejectBatch`, `DuplicateBatch`
and `AcceptBatch` the three outcomes of the index check, `WriteRecord`,
`WriteNewline` and `Sync` the writes, in the order of the code, `WriteFails` an
exception in any of them, `Reply` the receipt. `lines` is the file's complete
lines, `tail` an unterminated last line, `durable` what a power loss spares.
Record contents are an identity and a body; parsing is refused or not.

*AuthorityClaim.* An attempt of a run goes through the claim job, the approval
of the environment and the deploy job; every step may fail. `Consume`,
`ConsumeUnheard` and `Replay` are the three answers to the creation of the tag.
`RerunDeploy` keeps the outputs of the claim job, as GitHub does. A deployment
command may change Azure and report failure (`Build`). Tags may be deleted by an
administrator; the properties say which ones survive that.

*GovernedPersistence.* One action per control message, each with the guards, the
assignments and the history entry of `apply_control_message`; observations come
from the sets the code accepts. `GrantRollback` stands for the edit of the
authority that the rollback message requires and no message performs.

*PersistenceEvaluator.* Evidence is the four documents of a run's artifact, each
present or not and with what the evaluator reads of it; `Evaluate` follows the
order of its tests.

*DemoApiEvidence.* A world is what one run could find in Azure: the collector's state
and addresses, locks, legacy and dedicated resources, the address quota, the answer of
What-If, and the fields of the running service. Each script is an operator from a world
to the file it writes: the readiness blockers in their order, `Classified` for the six
targets and the changes beside them, `ServiceVerified` for the health, extension and
cross-origin fields. A field comparison is the set of fields that are wrong.

*WhatIfScheduler.* `pc` is the line of the script; every step may fail
(`set -euo pipefail`) or be the last before the host stops. Runs carry who
dispatched them, their head commit and result, and a result carries the files that
`DemoApiEvidence` derives from the world the run saw. The retry branch of lines 127-137
is in the model and never taken, which `NoAutomaticRetry` proves of the evaluator.

*ReportPublication.* `pc` is the stage of the script. An ARM deployment is a job
of its own (`deployment`, `made`) that puts resources one by one, ends when it
likes and outlives its command; so is the publisher script (`publication`). `Fail`
is any non-zero exit, followed by the trap; `Stop` is a cancellation or the loss
of the runner. Bash runs the EXIT trap of a signalled shell with the status of
the last command that ended, 0, so that `on_exit` skips the rollback; a command
that turns the signal into a non-zero exit is a `Fail`. `rollback_publication`
runs under `|| true`, so none of its failures stops it. That ARM runs one
deployment per name and a VM one invoked command at a time are rules of Azure.

*PublicationPlan, PublicationPlanning.* `planner` and `assessor` are the command each
script is at. `azure` is what their commands look at, and `AzureChanges` may change it
between any two of them; `written` remembers what the planner wrote, `artifact` is
what the storage of workflow artifacts gives back, from which `ArtifactChanges` may
lose a file or alter it; `saw` remembers the Azure each of the assessor's commands
looked at. A What-If answers with the plan of the reviewed template or with one of
`OddPlans`, those of another template, account, principal or with more changes.

*ReportDelivery.* A file name refers to an inode: opening a temporary file that exists
truncates it, a writer keeps the inode it opened, and the rename moves the inode.
`Kill` may come between any two steps. An upload is on its way once or more until the
store takes or drops it, whether or not its client still waits. A handoff is the set of
its flaws; `Refused` and `Sanitized` are the sanitizer, `Drawable` is what `app.js`
needs.

*DemoReport, DemoServer, LiveMonitor, DemoPage, LiveDemo.* A call is what one caller in
the browser waits for, from the thread that serves it to the answer. Times are kept
relative to now, in ticks; a thread's `ago` is the age of the clock it read before the
lock. Every handler of the page and every continuation of an `await` is one action of
one event loop. `Visits` says who sits before the page: whether the monitor is there,
whether the visitor waits for each run, which lab and which sources are configured.
`AnswerForeign` is another service at the same URL, `Restart` a restarted or another
deployment. `phase` is how far `initializeMonitor` came: without the expected host
(`stopped`) no answer can be verified; with it, but stopped by a missing or relative URL
(`bound`), the panel never polls and still verifies the answers of runs; then it awaits
its first poll and watches, until `pagehide` clears the interval (`HideAndReturn`, on a
page that the browser keeps and shows again), which nothing sets anew (`left`).

*AzureEstate, RealityObserver, CleanupAssessment.* `past` is the history of the estate,
so that a property can ask when a part was true. Each git or az command of the
observer is an action that reads the last estate; `Answers` gives the outcomes of one
command, `RunJson` what the code makes of them. A collection of the clean-up script goes
through the contract, the session, one query, the deployment history and the three files
of its package; `Answered` are the first `RowLimit` rows in the order of their kinds.
NSG rules and other candidates are rows of one kind, and the graph answers at once.

*ConvergenceAttestation.* One step is one iteration of the loop over node observations
and then of the loop over edges, in any order, where the code has the order of the
documents. `Descendants` is the closure that `_descendants` computes with a queue.

*EvidenceAssembly, IncidentReport.* Operators, one per function or rule of
`evidence.py`, `analyzer.py`, `containment.py` and `demo_report.py`. An evidence
file is the set of its records: `_normalize_records` skips a second copy, groups
are sorted by correlation identity, and only the tie between two probe
observations of one instant reads the order of the file, so those are a sequence.
Stages, transactions and backends are numbered in the order in which the code
sorts them; rates are compared by cross-multiplication.

*IncidentInvestigation.* `session` is what users' transactions really did,
numbered as they start; each leaves one record per stage it came to (`Emitted`).
`Deliver` appends any of them, or a stray record, to the evidence file in use, at
any time and in any order; a record that never arrives is lost. `Analyse` is one
run of the command with or without containment evidence, with the error exits of
`main`. `Drain` is the operator who follows a handoff and opens the second
evidence file, as the commands in `servicetracer/README.md` do; nothing keeps late
records of older transactions out of that file, nor does a drain have to work.
`LiveTest` is one run of `azure_demo.py`: it samples the backends until it met all of
them or has no attempt left, and writes its records into a file of its own, of which it
may leave the first ones only.

## 3. Runs

| Run | Question | Instance | Size |
| --- | --- | --- | --- |
| `SpoolAllFaults` | what holds of the file under every fault | 2 HTTP and 1 syslog client, 2 identities, 2 bodies, 8 batches, 2 faults of 5 kinds | pass |
| `SpoolRestarts` | does the spool implement the store, is every batch served | the same with 4 batches and 3 kinds of faults, fairness | pass |
| `ClaimRace` | what a request buys | 2 runs of 3 attempts, 3 requests (one a copy, one invalid), 2 ids, 2 commits, 3 instants | pass |
| `PersistenceLoop` | what every sequence of messages preserves | 5 messages, budgets 0 and 1, 2 strategies | pass |
| `SchedulerCycle` | what the recorded advice rests on, does a decision stop the dispatches | 2 commits, 2 runs, 11 worlds, budget 1, foreign deployments | pass |
| `PublicationPlanning` | what a verified plan and a readiness rest on | 2 accounts, 2 principals, 4 price lists, 7 odd plans, 2 troubles | pass |
| `PublicationRollback` | what is left and what stays served | 3 runs, 1 lifecycle deployment | pass |
| `ReportDelivery` | what readers find | 3 invocations, 17 jobs, 3 instants | pass |
| `Investigation` | what a report may say | 3 transactions, 2 stages, 2 backends, 2 stray records, 4 and 2 records of evidence | pass |
| `LiveDemo` | what the page shows and whether its runs end | 2 run slots, 2 steps, 2 visits, 6 deployments, 5 samples, fairness | pass |
| `MonitorUnpolled` | does "verified" pass when polling stops | the same deployments, 1 visit with a monitor | violation |
| `AzureObservation` | what the results of the observers may be relied on for | 5 resources, 2 estate changes, 3 environments, 2 collections | pass |

What the passing runs show. The spool never holds two contents for one identity nor a
second copy, whatever the interleaving and the fault; receipts are durable unless a
fault came between write and fsync; the file reopens unless a write was torn; between
whole-line faults the spool is a write-once store, whose receipts vouch for readable
records and whose refused batches leave nothing. A request whose tag nobody deletes
buys one login of one attempt, a run never logs in twice even if tags are deleted, and
all that is built was validated, claimed and deployed in the reviewed order. A
document's attempts are bounded by its budget and its changes of strategy, its history
explains its fields, closing is recommended only on a test of the system as it is, and
it does not reopen. The scheduler's recorded advice rests on a run of the reviewed
commit that is not left over from an earlier cycle; "proceed" rests on a world in
which the collector is where it was proven to be, an address is there or left and
nothing else would change; and a decision ends the dispatches for that commit. An assessment begins only on a plan that is whole, and "ready" means
that each check looked at an Azure that was clear. A failed publication leaves an
account only for a listed reason, a successful one stays served, and a rollback never
touches an account that was there before. Whatever evidence is lost, late or repeated,
an assembled attempt is true of its transaction and no later record revises it; a
suspect really failed and a drain leaves another backend that was seen; "stabilized"
is said only when no fully evidenced transaction of the second file failed or met the
suspect; and a probe gap rests on the latest observation. Readers of a report file or
blob find a whole envelope while invocations do not overlap, always one that can be
drawn, and never an older one while no failed upload arrives. The page starts no run
and shows no result without a report, shows results of its present report only, calls
live what came from the API, and its monitor, while it polls, says "verified" only of an
identity of bounded age; every run ends. An observation was true part by part in the
order of its reads; a clean-up package with a manifest is of one collection; a candidate put
forward was free as long as the query was not cut short.

Bounds. Two faults reach every pair such as "interrupted write, then power
loss"; two identities and two bodies give overlapping, contradicting and
repeating batches, and the third client makes a queue behind the lock. Two runs
with three attempts give a race, a full rerun and a rerun of the deploy job in
both; a tag can be deleted and claimed again within them. Five messages reach
the budget's end, the restrategize that raises it and a close; the records only
grow with further messages. Two commits and runs let main move once and one foreign run compete.
Three publications let one leave a deployment or a publisher behind, a second
meet it, and a third look at the result; one lifecycle deployment can fall
between any two steps. Three transactions over two backends give a backend that
fails, one that serves and a tie; two stages give a failure with and without a
success before it and a gap in the path; four records complete two transactions
or leave gaps in three, and two judge a drain. The eleven worlds of the scheduler are
a first deployment, an existing one, and nine in which one thing is wrong, at the limit
of the quota among them. Two troubles of the planning are two of: a failed command, an
odd plan, a lost or altered file; Azure itself changes as often as it likes. Three
invocations let one be killed, a second meet its temporary file and a third replace
what both left. In the demo the lifetimes (2 and 1 ticks), the wait (1), the poll
interval (2) and its time limit (1) are in the relations of the code: a failure is
cached shorter than a success and a poll is given up before the next is due; two run
slots let runs overlap. Two estate changes fall between any three reads; five rows
with a limit of four let the query be cut. Every bound is a
constant (`MaxFaults`, `MaxAttempts`, `MaxTime`, `MaxMessages`, `MaxCommit`,
`MaxRuns`, `MaxLifecycle`, `MaxTroubles`, `MaxEvidence`, `MaxContainment`,
`LiveAttempts`, `MaxWait`, `MaxChanges`, `RowLimit`).

Symmetry is used only in runs that check no liveness, over sets whose members no
definition tells apart.

Fairness. `SpoolRestarts` assumes weak fairness of every client's next step
(`Serve`): a handler thread runs on, the lock is a `threading.Lock` that a woken
waiter gets, and the unit restarts the collector (`Restart=` in
`servicetracer-collector.service`), while the number of faults is bounded.
`LiveDemo` assumes weak fairness of each run's continuation in the page
(the event loop runs what is due) and that each posted call is answered or fails in the
end (the server's request time limit, the browser's connection); nothing is assumed of
the visitor, nor of the monitor. It lets time pass only when no browser timer is due and
takes an answer that left the server to be handled within a tick. The other runs check
safety only.

Deadlock is checked in `LiveDemo`. The other systems stop when their clients are
served, their runs are over or their bounds are used up.

### Disagreements between code and documentation

One is the property of the violation run, and `PROJECT.json` quotes both sides: a panel
whose interval was cleared by `pagehide` (`live-monitor.js:299-301`), or that set the
expected host and then threw before it polled (`:285-289`), calls a host verified for
ever (`MonitorUnpolled`), although the design says that it polls every 15 seconds and
warns when the endpoint is unavailable
(`docs/designs/frontend-azure-provenance-monitor.md:39`, `:179`). Hence `VerifiedIsRecent`
speaks of a panel that polls.

Others came up while modelling. The models have the behaviour of the code, and the
passing properties are stated so that they hold of it. First those in which a document,
a comment or a test says otherwise:

- The scheduler's verifier accepts only version 2 of the What-If assessment
  (`verify_collector_demo_api_scheduler_artifact.py:138`) and the classifier writes
  version 3. The runbook
  (`docs/runbooks/collector-demo-api-cron-scheduler.md:131-137`) promises that an
  accepted plan proceeds. The
  workflow is quarantined at this commit. `SchedulerCycle` has runs of both versions.
- A cycle that dispatches and fails before its state record
  (`run_collector_demo_api_what_if_cycle.sh:201`, with the exits that follow the
  dispatch) leaves nothing by which the next one (`:141`) could know it: the next cycle
  dispatches for the same commit again, whatever the retry budget. The runbook allows a
  retry only where the controller advised it (`:150`, `:209`).
- A spool with a torn last line cannot be indexed again (`collector.py:107-131`),
  although `collectors/README.md:96` has the collector restarted. Hence
  `ReopensUnlessTorn`.
- A receipt for a duplicate may vouch for bytes that were never synced, if the process
  that wrote them was killed before its fsync (`collector.py:151-168`); a power loss
  then takes them away, against `collectors/README.md:91` and
  `servicetracer/README.md:122`. Hence the exception in `AckedDurable`.
- The deploy job never reads its tag again (`azure-mcp-live-deploy.yml:87`), so that it
  logs in although the tag was deleted while the run waited. The design of the
  ledger wants it read before the login
  (`.project/designs/durable-single-use-authorization-ledger-v1.md:139`). Hence the
  deleted tags in `OneLoginPerRequest`; `OneLoginPerRun` says what holds even then.
- Two invocations that overlap can publish an empty or half-written file, since they
  share the temporary name (`report_publication.py:212`), although the docstring at
  `:208` says that readers never see one. Hence `WholeUnlessOverlapped`.
- The verdict on a drain is about the suspect computed anew (`containment.py:139`),
  which need not be the backend that was drained, although the report speaks of
  stabilization "after draining" it (`:192`). Hence `StabilizedIsEarned` speaks of the
  suspect of the report.
- The clean-up evidence says `query_complete: True` whatever the query returned
  (`servicetracer_resource_group_cleanup.py:200`), so that the refusal of truncated
  results (`:97`), which a test covers, never guards collected evidence; references are
  sorted last and cut first. Hence the exception in `ClearedWasFree`.

And those on which the documents are silent, and of which a reader should know:

- "complete" is never advised from a run's own files: the evaluator wants the
  criterion `twenty_correlated_transactions_verified` (`governed_persistence.py:262-271`),
  which `verify_collector_demo_api_evidence.py:108-126` never writes.
- A run that failed is evaluated on files that nobody verified
  (`run_collector_demo_api_what_if_cycle.sh:267`). Hence the exception in
  `AdviceIsGrounded`.
- "rolled_back" may be recorded while the account exists or is still being deployed
  (`execute_existing_collector_report_publication.sh:126-136`).
- The "healthier" peer of a handoff may fail as often as the suspect
  (`analyzer.py:239-248`).
- The clean-up script calls `az account show --subscription`, which
  `azure_cli_compat.py` says the CLI rejects.
- The observer reports a subscription whose access was lost between two commands as
  `not_present`, since "could not be found" is taken for an absent group
  (`observer.py:102-107`). Hence the second case in `PartsWereTrueInOrder`. A command
  that times out raises `subprocess.TimeoutExpired`, which `cli.py` does not catch.
- The page keeps the "fixture" label after a failed run although the report may be an
  earlier live one (`app.js:408-413`), and counts verified services wrongly when runs
  overlap (`app.js:307-317`). Published reports carry no attempt counts, since the
  sanitizer drops them, and are never called stable.
- The readiness assessment does not compare the account its fresh What-If creates with
  the one of the plan, and ends with exit status 0 when it is not ready.

## 4. Proofs

TLAPS checks every theorem to its leaves. Every invariant, action property and
refinement that a passing run checks is stated by a theorem: the run shows it on its
instance, the theorem for every value of the constants. What the theorems assume are
the named ASSUMEs of the modules, which TLC evaluates in every run:

- bounds are naturals, and the order between them that the code has (the lifetime of a
  failure is shorter than that of a success, the timeout of a poll shorter than its
  interval);
- a sentinel is none of the data it stands beside: `None` no client and no body,
  `NoReport` no report and no handoff, `Nothing` no evidence;
- sets are of the kind that their comments say: deployments are records, the samples of
  a lab are sequences of replies, the callers of the server that are health requests are
  none of the runs;
- an initial estate is `Consistent`: what is deployed, referenced or tagged exists.

*ServiceTracer_proofs*, the spool. `SpoolInv` says who holds the lock and what is left
to write (`LockHeld`, `TodoLeft`), that the records a lock holder has still to write are
new and do not contradict one another (`WriterChecked`), that text without its line end
is a record being written or was torn (`UnfinishedLine`, `Untorn`), that the disk holds
a prefix of the file (`SyncedPrefix`) and, until a process is killed or a write fails,
that what waits for its receipt is on it (`AllSynced`). `WriterChecked` is what makes
`OneContent` and `WrittenOnce` inductive: the check and the writes are several steps,
between which faults and other clients come. `ReceiptsAreDurable` and `SpoolReopens`
follow from the other parts. `SpoolImplementsEvidenceLog` proves every step to be one of
`EvidenceLog` or to leave it as it is, under the two hypotheses of its statement: no
line is torn (`WholeLines`), and power losses do not come together with kills or I/O
errors (`NothingUnsyncedLost`). The second cannot be dropped: a batch whose process was
killed before its fsync is a duplicate when it is sent again, its receipt is written
without one, and a power loss takes the records away. With power losses or kills alone,
the spool does implement the log.

*ServiceTracer_proofs*, the investigation. `CollectionFaithful` is the inductive
invariant: whatever arrived and is not stray is what its transaction left behind, and a
transaction that has not started left nothing. `OutcomesTrue` follows, because the
records of one transaction then fail at one stage only, the last it came to, so
that the required prefix ends where the transaction did. `OutcomesNeverRevised` is
the refinement of `OutcomeLedger`: one more record either makes the evidence
contradict itself, and refusal is preserved by every further record
(`RejectionGrows`), or completes at most its own transaction, and leaves the failed
stages of a complete one as they were (`FailedStagesFixed`). A live test is a step of
the same kind: its records are those of transactions that were not started before.
`StabilizedEarned` needs that full evidence makes an attempt (`FullEvidenceCompletes`).
`SuspectFailedIndeed` is an invariant of its own, since a report outlives its evidence:
what was localized then is true of transactions that do not change (`LocalizationTrue`,
`EvidenceStays`). The suspect has failed because its rate is above another one, which
the code compares by cross-multiplication: `RatesOrdered` shows this to be an order that
a suspect is on top of. `GapIsCurrent` needs a latest probe, which exists because a
non-empty finite set has an element that no other surpasses (`SomeUnsurpassed`, by
well-founded induction on the subsets).

*AuthorityClaim_proofs.* `TypeCorrect`, then one inductive invariant that says,
per attempt, how far it has come and which tag it saw created: the outputs that
let an attempt past `Enforce` were written only by the step that created the tag,
with the run and attempt in it. From it: `OneWinner`, `OneLogin`,
`OneLoginPerRunThm`, `OnlyTheWinnerBuilds`, `TagIsFinal`. The invariant is needed
because the login comes several steps, an approval and possibly a rerun after
the claim. `OnlyReviewedIsBuilt` has another one, `ReviewInv`: a run beyond its
validation has a reviewed request, a run beyond the checks of the deploy job is
confirmed and in scope; reruns of a single job do not come round either.

*GovernedPersistence_proofs.* `PersistenceInvariant` strengthens the type of the
document with the bound on attempts and the link between phase and
verification; `BudgetBoundsAttempts`, `CompletedWasVerified` and `TerminalStays`
follow. `TrailExplains` is inductive with the type: every message that changes the
document appends one entry, which continues the chain, and counts for what it is
(`AppendEntry`).

*WhatIfScheduler_proofs.* Of the evaluator, for all evidence: `OperationsAreGated`,
`CompleteIffPassed`, `ExhaustedStops`, and `NoAutomaticRetry`: the scheduler's retry
branch is dead. Of the specification, `TypeCorrect` and an inductive invariant of four
parts: `Adopted` (a run the cycle took is of its pinned commit and not among those
listed before the dispatch), `YoungRuns` (runs are numbered in the order in which they
appear), `StateRests` (what is recorded was so when it was recorded, and heads of runs
do not change), `Stops` (main only moves on, so that a stop concerns an older commit or
is still on record, and no cycle is under way for it). From it
`DecisionsAreOfTheReviewedHead`, `LeftoversAreIgnored` and, as an action property,
`DecidedIsFinal`. `ProceedRestsOnSafety` adds that a result is one of those
`DemoApiEvidence` derives from a world, and that files which pass classifier, readiness
and evaluator come from a world in which deploying is safe, whatever worlds there are.

*PublicationPlanning_proofs.* The invariant adds to the type what the planner has
written by each of its commands (`WhilePlanned`), that its manifest lists every file it
wrote (`AllListed`), that a field of the artifact that differs from what was written has
a damaged file (`FieldsHaveFiles`), and, per command of the assessor, that the check
blocks or was clear in the Azure it saw (`Seen`). `PlansAreIntact` and
`ReadinessWasClear` follow for any price lists, roles, odd plans and troubles.

*ReportPublication_proofs*, the executor. `TypeCorrect`; `SparesPreexisting` from the
invariant `LookedBefore` (a run past its What-If looked before the account came about,
and a run that has not looked has no rollback armed); `SuccessStaysServed` from `Served`,
six conjuncts: one active run, an absent account is empty, the VM runs only the
active run's script, none once it has succeeded, the resources stand from the
verification on, and beside a success no run is past its What-If. The success
itself is not inductive: a leftover publisher or a rollback could undo it, and
the other conjuncts say why neither can be there. `LeftoversExplained` rests on
`Served` and on four parts more (`Explained`): when a run is armed, that an account has
a deployment, that a deployment which goes on behind a run was noted, and that an
account left without a mishap keeps every other run before its What-If, so that
nobody takes away what explains it.

*ReportPublication_proofs*, the delivery. Nine conjuncts: while no two invocations
overlapped one is under way (`Solo`), inodes that are renamed are whole and those in use
are new, an invocation has one upload at most, and what readers find is not newer than
what the one invocation would put there (`NewestLast`). `WholeReports`,
`DrawableReports`, `TrueSuccess` and the action property `NewestReports` follow, for any
number of invocations.

*LiveDemo_proofs.* `DemoInv` has three parts. `ServerInv`: the cached identity can be
served only while its remaining lifetime and its age together are within the lifetime
of a success, and what a caller was given is younger than `MaxAge`. `MonitorInv`: how
old a verified identity may be, by the phase of the monitor and whether a poll is under
way, when the time it has taken and the time to the next one make up the interval; the
bound of `RecentlyVerified`, for a panel that polls, is its worst case. Before the host
is known nothing is verified, and once the interval is cleared nothing bounds the age. It has to know that nothing between
server and network ends a poll (`PollStays`). `PageInv`: there is no report before one
is loaded, and without one nothing runs, can be run or is drawn. `RunsHaveReports`,
`ShownStaysCurrent` and `LabelsAreTrue` are parts of it; the first two are not inductive
alone, since loading sets and takes away the report whatever runs and resets go on.

*AzureObservation_proofs.* The history of the estate is consistent and only grows, so
that what was true at an index of it stays true at that index. `ObserverInv` gives each
reading the index at which it was true, in the order of the commands (`TrueAt`), and
names the last witness for what is still to come; `ObservedInOrder` follows for any
history. `CleanupInv` says that one collection writes to a directory (`OneWriter`), that
its files appear in their order and are of that collection (`FilesInOrder`), and that
the evidence of a collection is what the graph answered at one index; from it
`PackagesAreWhole` and `ClearedCandidatesWereFree`. Of the attestation, the invariant
gives each node the state that the observations gone through so far give it
declaratively. `VerdictHolds` says that the result does not depend on the order of the
iterations, `TrustHolds` that trust never passes a broken, unobserved, stale or future
link. The two statements are proved for every well-formed topology and are not among
the runs.

Only model-checked: the liveness properties `UncontestedAcked`, `EveryRequestEnds` and
`EveryRunEnds`, since the prover does not reason about fairness and ENABLED. The
violation run stays with TLC for what it is, a counterexample.

## 5. Not modelled, and what is left

Not modelled, by part: the document validators, the listener boundary analysis, the
lab factory, the OpenAI provider, claim v1, Bicep and CI, for the reasons given in the
inventory; the installers of the demo API, sequences of host commands without a partner
in the repository; tickets and the layer assessment of the full report; the generator
of demo data.

Not modelled, by behaviour: parsing, formatting and HTTP details (no property is about
them); two collector processes on one spool file (the documentation reserves a file to
one process); concurrent edits of the persistence document (the command has no lock and
nothing says who serialises it); that document after a crash in the middle of
`write_text` (every later command refuses it); a host crash between the rename of a
report and its way to the disk (the code syncs nothing there); the delay of Azure
Resource Graph; the digest of the pinned archive in the planner; a call of `gh` that
hangs, which keeps the scheduler's lock for ever, since the script gives it no timeout:
every property that the lock comes back would assume this away; the time a page is
frozen or its timers are throttled, in which it shows what it last showed (the bounds of
`VerifiedIsRecent` count the time in which the page runs, and `HideAndReturn` takes none);
a failure rate that is not a number, which only a handoff written by hand could hold,
since the analyzer divides counts. That an upload given up by its client is stored later
is modelled and exempted from `NeverOlder`: the code cannot prevent it, and no document
speaks of it.

Left to do: the publication executor composed with the delivery of its report, so that
a run's success is about the envelope that `publish_cli` writes.
