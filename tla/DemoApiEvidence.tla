---------------------------- MODULE DemoApiEvidence ----------------------------
(***************************************************************************)
(* The evidence of a collector demo API workflow run: what the readiness   *)
(* assessor, the What-If classifier and the service verifier conclude from *)
(* what they find in Azure (infra/scripts/assess_collector_demo_api_       *)
(* readiness.py, assert_collector_demo_api_what_if.py and                  *)
(* verify_collector_demo_api_evidence.py), and which blockers the          *)
(* controller tells apart (governed_persistence.py).                       *)
(*                                                                         *)
(* A payload is the set "wrong" of its fields that differ from the         *)
(* contract; a validator is the set of the fields it compares.             *)
(***************************************************************************)
EXTENDS PersistenceEvaluator, Sequences, FiniteSets

-----------------------------------------------------------------------------
(* Readiness.                                                              *)

Parameters == {"adminUsername", "dataDiskSizeGb", "collectorPort",
               "collectorSourceRepository", "collectorSourceRef"}
LegacyKeys == {"frontend", "backend_pool", "probe", "http_rule", "https_rule"}
DedicatedKeys == {"public_ip", "load_balancer", "http_nsg_rule",
                  "https_nsg_rule", "vm_extension"}
Statuses == {"not_present", "observed_existing"}

\* What is wrong with the observation of a group of resources.
StateBlockers(seen, expected) ==
    IF DOMAIN seen # expected
    THEN {"state_not_observable"}
    ELSE {"state_invalid" : k \in {k \in expected : seen[k] \notin Statuses}}

Residue(seen) ==
    {k \in LegacyKeys : DOMAIN seen = LegacyKeys /\ seen[k] = "observed_existing"}

MachineBlockers(w) ==
    UNION { IF w.provisioned THEN {} ELSE {"collector_vm_not_succeeded"},
            IF w.power \in {"VM running", "VM deallocated"} THEN {}
            ELSE {"collector_vm_power_state_unexpected"},
            IF Len(w.addresses) = 1 THEN {}
            ELSE {"collector_nic_primary_configuration_ambiguous"},
            IF w.addresses = <<"proven">> THEN {}
            ELSE {"collector_private_ip_drift"},
            IF Parameters \subseteq w.parameters THEN {}
            ELSE {"collector_module_parameters_missing"} }

ScopeBlockers(w) ==
    UNION { IF "ReadOnly" \in w.locks
            THEN {"resource_group_read_only_lock_present"} ELSE {},
            StateBlockers(w.legacy, LegacyKeys),
            StateBlockers(w.dedicated, DedicatedKeys),
            IF Residue(w.legacy) = {} THEN {}
            ELSE {"legacy_remote_load_balancer_child_residue_present"} }

\* The one quota of public addresses, when exactly one is listed; a count
\* that is not a whole number is None.
Observable(usage) == Len(usage) = 1

ValidQuota(quota) ==
    /\ quota.current # None
    /\ quota.limit # None
    /\ quota.limit >= quota.current

\* Mutant: the last address counts as free when it is taken.
RemainingIsNotNegative(quota) == quota.limit - quota.current >= 0

Sufficient(quota) == quota.limit - quota.current >= 1

QuotaBlockers(w) ==
    IF w.public_ip = "observed_existing" THEN {}
    ELSE IF ~Observable(w.usage) THEN {"public_ip_quota_not_observable"}
    ELSE IF ~ValidQuota(w.usage[1]) THEN {"public_ip_quota_invalid"}
    ELSE IF ~Sufficient(w.usage[1]) THEN {"public_ip_quota_insufficient"}
    ELSE {}

ReadinessBlockers(w) == MachineBlockers(w) \cup ScopeBlockers(w) \cup QuotaBlockers(w)

\* The classes the controller knows; every other blocker is unknown to it.
StaleOrUncertain ==
    {"public_ip_quota_not_observable", "collector_private_ip_drift",
     "collector_vm_not_succeeded", "collector_vm_power_state_unexpected",
     "collector_nic_primary_configuration_ambiguous",
     "collector_module_parameters_missing"}

Class(blocker) ==
    CASE blocker \in StaleOrUncertain -> "stale"
      [] blocker = "public_ip_quota_insufficient" -> "strategy"
      [] blocker = "resource_group_read_only_lock_present" -> "boundary"
      [] OTHER -> "unknown"

Classes(blockers) == {Class(b) : b \in blockers}

-----------------------------------------------------------------------------
(* What-If: a change names what it would do to one resource.               *)

Targets == {"public_ip", "load_balancer", "backend_pool", "http_rule",
            "https_rule", "extension"}
Passive == {"Ignore", "NoChange"}

AddressFields == {"allocation", "dnsLabel"}
AddressDelta == {"exposureDelta"}
PoolFields == {"poolNetwork", "addressCount", "addressName", "ipAddress",
               "virtualNetwork"}
NamedItems == {"frontends", "pools", "probes", "rules"}
Placeholder == {"placeholder"}
BalancerFields == NamedItems \cup Placeholder \cup
    {"sku", "frontendAddress", "probePort", "rulePorts", "outboundSnat", "references"}
BalancerModifyFields == {"priorType", "tier", "tags"}
RuleFields == {"destination", "destinationPort"}
ExtensionModifyFields == {"customScript", "forceUpdateTag", "settings"}

Modifies(c) == c.change = "Modify"

\* The fields compared for a change of a target; a new extension has none.
Compared(c) ==
    CASE c.target = "public_ip" ->
            AddressFields \cup (IF Modifies(c) THEN AddressDelta ELSE {})
      [] c.target = "backend_pool" -> PoolFields
      [] c.target = "load_balancer" ->
            BalancerFields \cup (IF Modifies(c) THEN BalancerModifyFields ELSE {})
      [] c.target \in {"http_rule", "https_rule"} -> RuleFields
      [] c.target = "extension" ->
            IF Modifies(c) THEN ExtensionModifyFields ELSE {}

AllowedChanges(target) ==
    {"Create", "NoChange"} \cup
    IF target \in {"http_rule", "https_rule"} THEN {} ELSE {"Modify"}

TargetAccepted(c) ==
    /\ c.change \in AllowedChanges(c.target)
    /\ c.typed
    /\ Compared(c) \cap c.wrong = {}

ManagedPathClear(changes) ==
    \A i \in DOMAIN changes : changes[i].target = "managed" => changes[i].change \in Passive

Distinct(changes) ==
    \A i, j \in DOMAIN changes : changes[i].id = changes[j].id => i = j

TargetsPresent(changes) ==
    \A t \in Targets : \E i \in DOMAIN changes : changes[i].target = t

OthersUntouched(changes) ==
    \A i \in DOMAIN changes : changes[i].target \notin Targets
                              => changes[i].change \in Passive

Classified(answer) ==
    /\ answer.succeeded
    /\ ManagedPathClear(answer.changes)
    /\ Distinct(answer.changes)
    /\ \A i \in DOMAIN answer.changes :
         answer.changes[i].target \in Targets => TargetAccepted(answer.changes[i])
    /\ TargetsPresent(answer.changes)
    /\ OthersUntouched(answer.changes)

-----------------------------------------------------------------------------
(* The deployed service.                                                   *)

HealthFields == {"healthStatus", "healthSchema", "targetConfigured",
                 "hostingModel", "healthHost"}
ExtensionFields == {"extensionState", "extensionTag"}
RunFields == {"runSchema", "transactionCount", "boundary", "runHost"}
CrossOriginFields == {"allowOrigin", "allowMethods"}

ServiceVerified(service) ==
    service \cap UNION {HealthFields, ExtensionFields, RunFields, CrossOriginFields} = {}

\* What the record of a verified service says true of, and what the controller
\* requires to be true in it.
CriteriaRecorded ==
    {"service_validated", "tls_verified", "health_verified", "azure_host_verified",
     "exact_source_verified", "extension_verified", "cors_verified"}
CriteriaRead ==
    {"tls_verified", "health_verified", "twenty_correlated_transactions_verified",
     "cors_verified", "service_validated"}

-----------------------------------------------------------------------------
(* A run of the workflow: the files it leaves when it finds world w.       *)

NoFiles == [request |-> TRUE, readiness |-> Absent, what_if |-> "absent",
            deployment |-> FALSE, verification |-> "absent"]

WhatIfFiles(w) ==
    LET blockers == ReadinessBlockers(w)
    IN  [NoFiles EXCEPT
           !.readiness = Classes(blockers),
           !.what_if = IF blockers = {} /\ Classified(w.answer) THEN "accepted"
                       ELSE "absent"]

Planned(files) == files.readiness = {} /\ files.what_if = "accepted"

\* A verified service leaves a record of what was verified. The controller asks
\* for more than the verifier records, so that it never takes it as passed.
VerifyFiles(w) ==
    [NoFiles EXCEPT !.verification =
        IF ~ServiceVerified(w.service) THEN "absent"
        ELSE IF CriteriaRead \subseteq CriteriaRecorded THEN "passed" ELSE "failed"]

DeployFiles(w) ==
    IF Planned(WhatIfFiles(w))
    THEN [WhatIfFiles(w) EXCEPT !.deployment = TRUE,
                                !.verification = VerifyFiles(w).verification]
    ELSE WhatIfFiles(w)

Files(operation, w) ==
    CASE operation = "what-if" -> WhatIfFiles(w)
      [] operation = "deploy" -> DeployFiles(w)
      [] operation = "verify" -> VerifyFiles(w)

\* The run did what it was asked to do.
Achieved(operation, files) ==
    CASE operation = "what-if" -> Planned(files)
      [] OTHER -> files.verification # "absent"
=============================================================================
