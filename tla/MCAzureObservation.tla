------------------------- MODULE MCAzureObservation -------------------------
(* A small instance of AzureObservation for TLC: five rows, of which a     *)
(* query returns four.                                                     *)
EXTENDS AzureObservation

CONSTANTS c1, c2, run1, run2, pip, lb, nic, storage, ai, None

MCCommits == {c1, c2}
MCResources == {pip, lb, nic, storage, ai}
MCTags == {<<nic, storage>>}

(* The estate as the runbook describes it. *)
Legacy ==
  [head |-> c1, index |-> c1, profile |-> "allowed", access |-> TRUE, group |-> TRUE,
   resources |-> MCResources, deployed |-> {ai}, attached |-> {lb}, tags |-> MCTags]
MCInitialEstates == {Legacy}

(* Nothing tells one run of the script from another. *)
MCSymmetry == Permutations({run1, run2})

Allowed ==
  [subscription |-> "uuid", resource_group |-> "name", index_file |-> TRUE, denied |-> {},
   timeout |-> 20, max_resources |-> 200, max_accounts |-> 10]
MCEnvironments ==
  {Allowed,
   [Allowed EXCEPT !.max_resources = 4],
   [Allowed EXCEPT !.denied = {"AZURE_MCP_ALLOW_MUTATION"}]}
=============================================================================
