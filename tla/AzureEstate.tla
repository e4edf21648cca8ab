---------------------------- MODULE AzureEstate ----------------------------
(***************************************************************************)
(* What the read-only observers of the repository look at: the working     *)
(* tree they run in, the Azure CLI's profile and one resource group.  None *)
(* of it is code of the repository; it is modelled from the commands the   *)
(* observers run and from the answers they expect.                         *)
(*                                                                         *)
(* Nothing holds the estate still while it is read, so its whole history   *)
(* is kept: past[i] is the estate after i - 1 changes, and a reader is     *)
(* told of nothing but the present one.                                    *)
(***************************************************************************)
EXTENDS Naturals, Sequences, FiniteSets, SequencesExt

CONSTANTS
  Commits,        \* commits the working tree may be at
  Resources,      \* resources the observed group may hold
  Accounts,       \* those that are Cognitive Services accounts
  Pip,            \* the public address among them
  Holders,        \* those whose properties may refer to that address
  Tags,           \* <<r, c>>: a tag of r that names the candidate c
  InitialEstates, \* the estates the history may begin with
  MaxChanges      \* bound: changes made to the estate

VARIABLE past

Estates ==
  [head : Commits,           \* what HEAD points to
   index : Commits,          \* the commit whose state index is in the tree
   profile : {"allowed", "other"},   \* the CLI's active account: the allowed
                                      \* one, or another or a disabled one
   access : BOOLEAN,         \* may the identity read the subscription now?
   group : BOOLEAN,          \* does the resource group exist?
   resources : SUBSET Resources,
   deployed : SUBSET Accounts,   \* accounts that have a model deployment
   attached : SUBSET Holders,    \* holders that refer to the address
   tags : SUBSET Tags]

estate == Last(past)

Clean(w) == w.index = w.head

(* Azure keeps no reference or tag of a resource that is not there. *)
Consistent(w) ==
  /\ w.attached \subseteq w.resources
  /\ \A t \in w.tags : t[1] \in w.resources

(* A resource takes its references, deployments and tags with it, and the  *)
(* address cannot be deleted while something refers to it.                 *)
Without(w, gone) ==
  [w EXCEPT !.resources = @ \ gone,
            !.deployed = @ \ gone,
            !.attached = @ \ gone,
            !.tags = {t \in @ : t[1] \notin gone}]

RepositoryChanges(w) ==
  {[w EXCEPT !.head = c, !.index = c] : c \in IF Clean(w) THEN Commits ELSE {}}
    \cup {[w EXCEPT !.index = c] : c \in Commits}

SessionChanges(w) ==
  {[w EXCEPT !.profile = p] : p \in {"allowed", "other"}}
    \cup {[w EXCEPT !.access = ~@]}

GroupChanges(w) ==
  IF w.group
  THEN {[Without(w, w.resources) EXCEPT !.group = FALSE]}
         \cup {[w EXCEPT !.resources = @ \cup {r}] : r \in Resources}
         \cup {Without(w, {r}) : r \in w.resources
                                       \ (IF w.attached = {} THEN {} ELSE {Pip})}
  ELSE {[w EXCEPT !.group = TRUE]}

SettingChanges(w) ==
  {[w EXCEPT !.deployed = (@ \cup {a}) \ (@ \cap {a})] : a \in Accounts \cap w.resources}
    \cup {[w EXCEPT !.attached = (@ \cup {h}) \ (@ \cap {h})] :
             h \in IF Pip \in w.resources THEN Holders \cap w.resources ELSE {}}
    \cup {[w EXCEPT !.tags = (@ \cup {t}) \ (@ \cap {t})] :
             t \in {t \in Tags : t[1] \in w.resources}}

ASSUME AzureEstateAssumption ==
  /\ MaxChanges \in Nat
  /\ Pip \in Resources /\ Accounts \cup Holders \subseteq Resources
  /\ \A w \in InitialEstates : w \in Estates /\ Consistent(w)

EstateInit == past \in {<<w>> : w \in InitialEstates}

Change ==
  /\ Len(past) <= MaxChanges
  /\ \E w \in (RepositoryChanges(estate) \cup SessionChanges(estate)
                 \cup GroupChanges(estate) \cup SettingChanges(estate)) \ {estate} :
        past' = Append(past, w)
=============================================================================
