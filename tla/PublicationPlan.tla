---------------------------- MODULE PublicationPlan ----------------------------
(***************************************************************************)
(* How the evidence for the publication of the report is judged: the plan  *)
(* of Azure (verify_existing_collector_publication_plan.py), and the       *)
(* price, quota and role answers                                           *)
(* (assess_existing_collector_publication_readiness.py). Pure operators.   *)
(***************************************************************************)
EXTENDS Naturals, FiniteSets, Functions, FiniteSetsExt

CONSTANTS Accounts,     \* storage accounts
          Principals,   \* managed identities
          None

-----------------------------------------------------------------------------
(* A What-If answer: a set of changes of resources. part: what the ID says *)
(* the resource is below its account; type: what the payload says.         *)

Parts == {"account", "blob_service", "container", "role"}
Change == [of : Accounts \cup {None}, part : Parts \cup {"other"},
           type : Parts \cup {"other"},
           change : {"Create", "Modify", "Delete", "Ignore", "NoChange"},
           reviewed : BOOLEAN, principal : Principals \cup {None}]

Creates(payload) == {c \in payload.changes : c.change = "Create"}
Affected(payload) == {c \in payload.changes : c.change \notin {"Ignore", "NoChange"}}

OfType(payload, type) == {c \in Creates(payload) : c.type = type}

\* Every Create is where the account of the plan has it.
Scoped(payload) ==
    \E account \in OfType(payload, "account") :
        /\ account.of # None
        /\ \A c \in Creates(payload) :
             c.type # "account" => c.of = account.of /\ c.part = c.type

\* classify_what_if: four creates, one of each type, below one account, with
\* the reviewed properties, and no other effect on anything.
ExactPlan(payload, principal) ==
    /\ payload.ok
    /\ \A c \in Affected(payload) : c.change = "Create"
    /\ Cardinality(Creates(payload)) = 4
    /\ \A type \in Parts : Cardinality(OfType(payload, type)) = 1
    /\ Scoped(payload)
    /\ \A c \in Creates(payload) : c.reviewed
    /\ \A c \in OfType(payload, "role") : c.principal = principal

-----------------------------------------------------------------------------
(* The artifact of a planner: which of its files are listed in the         *)
(* manifest, are there, and are not as they were written.                  *)

MinFiles == 10

Read == {"request", "summary", "validation", "what_if", "report_storage",
         "collector_roles", "parameters"}

\* Mutant: the digests are not compared.
ManifestPresent(artifact) ==
    /\ artifact.listed \subseteq artifact.present
    /\ Cardinality(artifact.listed) >= MinFiles

\* verify_manifest: what is listed is there, as it was; and enough is listed.
ManifestHolds(artifact) ==
    /\ artifact.listed \subseteq artifact.present
    /\ artifact.listed \cap artifact.damaged = {}
    /\ Cardinality(artifact.listed) >= MinFiles

\* main: the manifest, every file it reads, the request, the summary and the
\* parameters, a clean baseline, the validation, and the What-If.
PlanVerified(artifact, request) ==
    /\ ManifestHolds(artifact)
    /\ Read \subseteq artifact.present
    /\ artifact.request = request
    /\ artifact.principal = artifact.parameter
    /\ ~artifact.report_storage /\ ~artifact.collector_roles
    /\ artifact.validated
    /\ ExactPlan(artifact.what_if, artifact.principal)

-----------------------------------------------------------------------------
(* Prices.                                                                 *)

Categories == {"data_stored", "write_operations", "read_operations",
               "other_operations", "data_retrieval"}

\* COST_ASSUMPTIONS: units of each meter a month, and the contingency.
Units == [c \in Categories |-> IF c = "read_operations" THEN 100 ELSE 10]
Contingency == 2

\* An item is one row of the price list: the category its names match, or
\* None, and its price.
Candidates(items, category) == {i \in items : i.category = category}

Cost(price) == MapThenSumSet(LAMBDA c : Units[c] * price[c], Categories) + Contingency

HighestPrice(items, category) ==
    Max({i.price : i \in Candidates(items, category)})

\* estimate_cost: a meter without a price leaves the cost unresolved.
UnderCeiling(items, ceiling) ==
    /\ \A c \in Categories : Candidates(items, c) # {}
    /\ Cost([c \in Categories |-> HighestPrice(items, c)]) <= ceiling

-----------------------------------------------------------------------------
(* Roles and quota.                                                        *)

\* role_grants_action: one permission entry allows the action and does not
\* take it away again; another entry's notActions do not matter.
GrantsAction(role) == \E p \in role.permissions : p.allows /\ ~p.excludes

\* assignment_scope_applies: the scope is the account to come or above it.
ScopeApplies(scope) == scope # "other_group"

\* The first assignment whose role has exactly one definition and grants.
DeclaredGrant(assignments) ==
    \E a \in assignments : /\ ~a.role.ambiguous
                           /\ ScopeApplies(a.scope)
                           /\ GrantsAction(a.role)

\* parse_storage_usage: an answer without a numeric entry has no headroom.
HasHeadroom(usage) == usage.kind = "entry" /\ usage.current + 1 <= usage.limit
=============================================================================
