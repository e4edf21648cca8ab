-------------------------- MODULE RealityObserver --------------------------
(***************************************************************************)
(* get_current_reality (azure_mcp_reality): one bounded observation of the *)
(* repository and of one resource group, made of a fixed sequence of git   *)
(* and az commands.  Each command is a step, since the estate may change   *)
(* between two of them; an error of any of them ends the call with no      *)
(* observation at all.  The scope comes from the environment, the account  *)
(* check from whatever account the CLI's profile has active.               *)
(***************************************************************************)
EXTENDS AzureEstate

CONSTANT Environments   \* the environments the tool may be configured with

VARIABLE obs      \* the call: where it is, and what it has read so far

(* A command answers, is refused (an error, a throttle, a timeout),        *)
(* prints what is no JSON of the expected kind, or says that something     *)
(* was not found: the group, or the subscription whose access was lost. A  *)
(* null that is printed for something absent counts as not found as well.  *)
Answers(w, there) ==
  {"refused", "garbled"}
    \cup IF w.access /\ there THEN {"ok"} ELSE {"not_found"}

(* RealitySettings.from_env: the settings one environment gives, if any.   *)
(* An integer out of its range, a scope that is no UUID or no group name,  *)
(* a root without a state index, or a variable that asks for more than     *)
(* reading: the tool does not start.                                       *)
FromEnv(env) ==
  /\ env.subscription = "uuid"
  /\ env.resource_group = "name"
  /\ env.index_file
  /\ env.denied = {}
  /\ env.timeout \in 5..60
  /\ env.max_resources \in 1..500
  /\ env.max_accounts \in 1..25

\* Mutant: where absence is an answer, so is every failure.
RunJsonLenient(answer, allowNotFound) ==
  IF answer = "ok" THEN "value" ELSE IF allowNotFound THEN "none" ELSE "error"

(* _run_json: the value, None where absence is an answer, or an error.     *)
RunJson(answer, allowNotFound) ==
  IF answer = "ok" THEN "value"
  ELSE IF answer = "not_found" /\ allowNotFound THEN "none"
  ELSE "error"

(* The compatibility runner drops --subscription from az account show: the *)
(* answer is of the active account, which is then held to the allowlist.   *)
AccountContext(w) == w.profile

(* Nothing is read yet: head, status and index have values no observation  *)
(* returns.                                                                *)
Idle ==
  [pc |-> "idle", from |-> 0, limits |-> <<0, 0>>, head |-> "unread", clean |-> FALSE,
   status |-> "unread", resources |-> {}, todo |-> {}, deployments |-> <<>>,
   index |-> "unread"]
Failed == [Idle EXCEPT !.pc = "failed"]

ObserverInit == obs = Idle

(* from_env reads the environment on every call of the tool. *)
Configure ==
  /\ obs.pc = "idle"
  /\ \E env \in Environments :
        obs' = IF FromEnv(env)
               THEN [Idle EXCEPT !.pc = "head", !.from = Len(past),
                                 !.limits = <<env.max_resources, env.max_accounts>>]
               ELSE Failed

(* Any command may fail, and nothing read so far is returned. *)
CommandFails ==
  /\ obs.pc \in {"head", "status", "account", "group", "list", "deployments", "index"}
  /\ obs' = Failed

ReadHead ==
  /\ obs.pc = "head"
  /\ obs' = [obs EXCEPT !.pc = "status", !.head = estate.head]

ReadStatus ==
  /\ obs.pc = "status"
  /\ obs' = [obs EXCEPT !.pc = "account", !.clean = Clean(estate)]

CheckAccount ==
  /\ obs.pc = "account"
  /\ obs' = IF AccountContext(estate) = "allowed"
            THEN [obs EXCEPT !.pc = "group"]
            ELSE Failed

(* az group show: the one command whose failure may be an answer. *)
ShowGroup ==
  /\ obs.pc = "group"
  /\ \E answer \in Answers(estate, estate.group) :
        obs' = CASE RunJson(answer, TRUE) = "value" ->
                      [obs EXCEPT !.pc = "list", !.status = "observed"]
                 [] RunJson(answer, TRUE) = "none" ->
                      [obs EXCEPT !.pc = "index", !.status = "not_present"]
                 [] OTHER -> Failed

(* az resource list, and the bounds on what one observation may hold. *)
ListResources ==
  /\ obs.pc = "list"
  /\ \E answer \in Answers(estate, estate.group) :
        LET listed == estate.resources
            accounts == listed \cap Accounts
        IN  obs' = IF /\ RunJson(answer, FALSE) = "value"
                      /\ Cardinality(listed) <= obs.limits[1]
                      /\ Cardinality(accounts) <= obs.limits[2]
                   THEN [obs EXCEPT !.pc = IF accounts = {} THEN "index" ELSE "deployments",
                                    !.resources = listed,
                                    !.todo = accounts]
                   ELSE Failed

(* One list of deployments for every account the inventory holds. *)
ListDeployments ==
  /\ obs.pc = "deployments"
  /\ \E a \in obs.todo, answer \in Answers(estate, TRUE) :
        obs' = IF RunJson(answer, FALSE) = "value" /\ a \in estate.resources
               THEN [obs EXCEPT !.pc = IF obs.todo = {a} THEN "index" ELSE "deployments",
                                !.todo = @ \ {a},
                                !.deployments = [b \in DOMAIN @ \cup {a} |->
                                   IF b = a THEN a \in estate.deployed ELSE @[b]]]
               ELSE Failed

(* _load_state_index, read last: then the observation is whole. *)
LoadStateIndex ==
  /\ obs.pc = "index"
  /\ obs' = [obs EXCEPT !.pc = "done", !.index = estate.index]

Observe ==
  \/ Configure \/ CommandFails \/ ReadHead \/ ReadStatus \/ CheckAccount
  \/ ShowGroup \/ ListResources \/ ListDeployments \/ LoadStateIndex

-----------------------------------------------------------------------------
(* An observation that is returned was true part by part, and in the order *)
(* it was read: the commit, then whether the tree was clean, then the      *)
(* allowed account, the group, its resources, each account's deployments   *)
(* while the account was there, and last the state index.  Two parts may   *)
(* be of different moments, but a later part is never older than an        *)
(* earlier one, so a call during which nothing changed is exact.  And      *)
(* not_present means that the group was absent, or that the subscription   *)
(* could no longer be read: its "could not be found" is taken for an       *)
(* absent group.                                                           *)
PartsWereTrueInOrder ==
  obs.pc = "done" =>
    \E i, j, k, l, m, n \in obs.from .. Len(past) :
      /\ i <= j /\ j <= k /\ k <= l /\ l <= m /\ m <= n
      /\ past[i].head = obs.head
      /\ Clean(past[j]) = obs.clean
      /\ past[k].profile = "allowed"
      /\ IF obs.status = "observed"
         THEN /\ past[l].group /\ past[l].access
              /\ past[m].resources = obs.resources
              /\ DOMAIN obs.deployments = obs.resources \cap Accounts
              /\ \A a \in DOMAIN obs.deployments : \E p \in m..n :
                    /\ a \in past[p].resources
                    /\ obs.deployments[a] = (a \in past[p].deployed)
         ELSE /\ ~past[l].group \/ ~past[l].access
              /\ obs.resources = {}
      /\ past[n].index = obs.index
=============================================================================
