---------------------------- MODULE MCWhatIfScheduler ----------------------------
(* Small instances of WhatIfScheduler for TLC.                              *)
EXTENDS WhatIfScheduler, TLC

Change(target, change) ==
    [id |-> <<target, 1>>, target |-> target, change |-> change,
     typed |-> TRUE, wrong |-> {}]

TargetOrder == <<"public_ip", "load_balancer", "backend_pool", "http_rule",
                 "https_rule", "extension">>

\* The first deployment: all six are new, and a leftover is ignored.
FirstPlan ==
    Append([i \in 1..6 |-> Change(TargetOrder[i], "Create")],
           Change("managed", "Ignore"))

\* The collector as it should be found, one public address left, no service yet.
Clear ==
    [provisioned |-> TRUE, power |-> "VM running", addresses |-> <<"proven">>,
     parameters |-> Parameters, locks |-> {"CanNotDelete"},
     legacy |-> [k \in LegacyKeys |-> "not_present"],
     dedicated |-> [k \in DedicatedKeys |-> "not_present"],
     public_ip |-> "not_present",
     usage |-> <<[current |-> 2, limit |-> 3]>>,
     answer |-> [succeeded |-> TRUE, changes |-> FirstPlan],
     service |-> {"healthStatus"}]

\* Deployed before: the address exists, the balancer is brought up to date.
Deployed ==
    [Clear EXCEPT
       !.power = "VM deallocated",
       !.dedicated = [k \in DedicatedKeys |-> "observed_existing"],
       !.public_ip = "observed_existing",
       !.usage = <<>>,
       !.service = {},
       !.answer.changes = <<Change("public_ip", "NoChange"),
                            Change("load_balancer", "Modify"),
                            Change("backend_pool", "NoChange"),
                            Change("http_rule", "NoChange"),
                            Change("https_rule", "NoChange"),
                            Change("extension", "Modify")>>]

With(changes) == [Clear EXCEPT !.answer.changes = FirstPlan \o changes]
Instead(i, change) == [Clear EXCEPT !.answer.changes[i] = change]

\* One thing is not as it should be.
Odd ==
    [moved |-> [Clear EXCEPT !.addresses = <<"other">>],
     used_up |-> [Clear EXCEPT !.usage[1].current = 3],
     locked |-> [Clear EXCEPT !.locks = {"ReadOnly"}, !.provisioned = FALSE],
     residue |-> [Clear EXCEPT !.legacy["probe"] = "observed_existing"],
     creates |-> With(<<Change("other", "Create")>>),
     deletes |-> With(<<Change("other", "Delete")>>),
     managed |-> With(<<[Change("managed", "Create") EXCEPT !.id = <<"managed", 2>>]>>),
     rule |-> Instead(4, Change("http_rule", "Modify")),
     tags |-> [Deployed EXCEPT !.answer.changes[2].wrong = {"tags"},
                               !.service = {"extensionTag"}]]

AzureWorlds == [clear |-> Clear, deployed |-> Deployed] @@ Odd
=============================================================================
