------------------------- MODULE CleanupAssessment -------------------------
(***************************************************************************)
(* scripts/servicetracer_resource_group_cleanup.py --collect: collects the *)
(* dependencies of an exact list of clean-up candidates with one Resource  *)
(* Graph query, assesses each candidate, and writes evidence, assessment   *)
(* and manifest into a directory of its own.  It deletes nothing: what it  *)
(* produces is read by whoever authorises a deletion later.  Several       *)
(* collections, one after another or at once, may be given one directory.  *)
(***************************************************************************)
EXTENDS AzureEstate

CONSTANTS
  Collections,   \* runs of the script
  Candidates,    \* the exact clean-up candidates, the address among them
  Historical,    \* those of the superseded collector-hosted deployment
  Reviewed,      \* commits whose contract forbids every mutation
  RowLimit,      \* --first: the rows one query returns
  Nothing

VARIABLES
  collection,    \* the runs: where each is and what it has collected
  directory      \* the evidence directory they share

(* validate_contract: no authority over Azure, peer resource groups, and   *)
(* the allowlist of candidates as the script has it.                       *)
ValidContract(commit) == commit \in Reviewed

(* The rows of the query, by what they are about: the candidates that      *)
(* exist (an NSG rule among them is a row of the same standing), each      *)
(* reference to a public address, and each resource whose tags name a      *)
(* candidate.                                                              *)
Rows(w) ==
  [kind : {"candidate"}, of : w.resources \cap Candidates, to : {Nothing}]
    \cup [kind : {"public_ip_reference"}, of : w.attached, to : {Pip}]
    \cup {[kind |-> "tag_reference", of |-> t[1], to |-> t[2]] : t \in w.tags}

(* What a collection keeps of its query. *)
AllRows ==
  [kind : {"candidate", "public_ip_reference", "tag_reference"},
   of : Resources, to : Candidates \cup {Pip, Nothing}]
Evidence == [rows : SUBSET AllRows, cut : BOOLEAN, query_complete : {TRUE}, at : Nat]

ASSUME CleanupAssumption ==
  /\ Tags \subseteq Resources \X Candidates
  /\ Nothing \notin Evidence

RowOrder(row) ==
  CASE row.kind = "candidate" -> 1
    [] row.kind = "public_ip_reference" -> 2
    [] row.kind = "tag_reference" -> 3

(* What a query of at most RowLimit rows returns, in the order of their    *)
(* kinds: references are the first to be cut off.                          *)
Answered(w) ==
  {rows \in SUBSET Rows(w) :
     /\ Cardinality(rows) = IF Cardinality(Rows(w)) < RowLimit
                            THEN Cardinality(Rows(w)) ELSE RowLimit
     /\ \A r \in rows, s \in Rows(w) \ rows : RowOrder(r) <= RowOrder(s)}

(* candidate_matches: any row that carries a candidate's name and type is  *)
(* an observation of it, a reference it makes or a tag it has included.    *)
Matches(rows, candidate) == {r \in rows : r.of = candidate}

\* Mutant: only what bears on the candidate's own rows is looked at.
BlockersOfItsRows(rows, candidate) ==
  {b \in {"historical", "tagged"} :
     \/ b = "historical" /\ candidate \in Historical
     \/ b = "tagged" /\ \E r \in rows : r.kind = "tag_reference" /\ r.to = candidate}

Blockers(rows, candidate) ==
  {b \in {"attached", "historical", "tagged"} :
     \/ /\ b = "attached"
        /\ candidate = Pip
        /\ \E r \in rows : r.kind = "public_ip_reference" /\ r.to = Pip
     \/ b = "historical" /\ candidate \in Historical
     \/ b = "tagged" /\ \E r \in rows : r.kind = "tag_reference" /\ r.to = candidate}

(* assess: what is said of each candidate. *)
Assess(rows) ==
  [c \in Candidates |->
     IF Matches(rows, c) = {} THEN "not_determined"
     ELSE IF Blockers(rows, c) # {} THEN "blocked"
     ELSE "requires_what_if_and_human_authorization"]

NotStarted == [pc |-> "idle", evidence |-> Nothing]
Stopped == [pc |-> "stopped", evidence |-> Nothing]
NoDirectory == [there |-> FALSE, evidence |-> Nothing,
                assessment |-> Nothing, manifest |-> Nothing]

CleanupInit ==
  /\ collection = [c \in Collections |-> NotStarted]
  /\ directory = NoDirectory

Goto(c, pc) == collection' = [collection EXCEPT ![c].pc = pc]

(* main: the contract is validated before Azure is asked anything. *)
ValidateContract(c) ==
  /\ collection[c].pc = "idle"
  /\ Goto(c, IF ValidContract(estate.head) THEN "account" ELSE "stopped")
  /\ UNCHANGED directory

(* az account show and az extension show: of the explicit subscription,    *)
(* and both must succeed.  An error of these or of the query stops it.     *)
CheckSession(c) ==
  /\ collection[c].pc = "account"
  /\ Goto(c, "query")
  /\ UNCHANGED directory

CollectionFails(c) ==
  /\ collection[c].pc \in {"account", "query"}
  /\ collection' = [collection EXCEPT ![c] = Stopped]
  /\ UNCHANGED directory

QueryGraph(c) ==
  /\ collection[c].pc = "query"
  /\ estate.access
  /\ \E rows \in Answered(estate) :
        collection' = [collection EXCEPT ![c] =
          [pc |-> "deployments",
           evidence |-> [rows |-> rows,
                         cut |-> rows # Rows(estate),
                         query_complete |-> TRUE,
                         at |-> Len(past)]]]
  /\ UNCHANGED directory

(* The deployment history may be missing: a failure is recorded as one and *)
(* stops nothing.  assess runs before anything is written, so evidence it  *)
(* would refuse leaves no directory behind.                                *)
ListDeploymentHistory(c) ==
  /\ collection[c].pc = "deployments"
  /\ Goto(c, IF collection[c].evidence.query_complete THEN "package" ELSE "stopped")
  /\ UNCHANGED directory

\* Mutant: mkdir with exist_ok.
MakeDirectoryUnlessThere(c) ==
  /\ collection[c].pc = "package"
  /\ Goto(c, "evidence")
  /\ directory' = [directory EXCEPT !.there = TRUE]

(* write_package: the directory must be new, which makes it one            *)
(* collection's own; then the files one after another.                     *)
MakeDirectory(c) ==
  /\ collection[c].pc = "package"
  /\ IF directory.there
     THEN /\ collection' = [collection EXCEPT ![c] = Stopped]
          /\ UNCHANGED directory
     ELSE /\ Goto(c, "evidence")
          /\ directory' = [directory EXCEPT !.there = TRUE]

WriteEvidence(c) ==
  /\ collection[c].pc = "evidence"
  /\ Goto(c, "assessment")
  /\ directory' = [directory EXCEPT !.evidence = collection[c].evidence]

WriteAssessment(c) ==
  /\ collection[c].pc = "assessment"
  /\ Goto(c, "manifest")
  /\ directory' = [directory EXCEPT !.assessment = Assess(collection[c].evidence.rows)]

(* The manifest holds the digests of the files that are there. *)
WriteManifest(c) ==
  /\ collection[c].pc = "manifest"
  /\ collection' = [collection EXCEPT ![c] = Stopped]
  /\ directory' = [directory EXCEPT !.manifest =
                     [evidence |-> directory.evidence, assessment |-> directory.assessment]]

(* The run is interrupted, or a write fails, with the package half done. *)
Interrupted(c) ==
  /\ collection[c].pc \in {"deployments", "package", "evidence", "assessment", "manifest"}
  /\ collection' = [collection EXCEPT ![c] = Stopped]
  /\ UNCHANGED directory

Collect(c) ==
  \/ ValidateContract(c) \/ CheckSession(c) \/ CollectionFails(c) \/ QueryGraph(c)
  \/ ListDeploymentHistory(c) \/ MakeDirectory(c) \/ WriteEvidence(c)
  \/ WriteAssessment(c) \/ WriteManifest(c) \/ Interrupted(c)

-----------------------------------------------------------------------------
(* A package with a manifest is of one collection and whole: the manifest  *)
(* describes the evidence and the assessment beside it, and the assessment *)
(* is of that evidence, however many collections were given the directory  *)
(* and wherever each of them was interrupted.                              *)
PackageWhole ==
  directory.manifest # Nothing =>
    /\ directory.manifest = [evidence |-> directory.evidence,
                             assessment |-> directory.assessment]
    /\ directory.evidence # Nothing
    /\ directory.assessment = Assess(directory.evidence.rows)

(* A candidate a package puts forward for deletion was, when the graph was *)
(* queried, there and free of all the script looks for: no load balancer   *)
(* and no interface referred to the address, no resource's tags named it,  *)
(* and it was no part of the superseded deployment.  This is so only while *)
(* the query's rows were not cut off, which the script never checks.       *)
ClearedWasFree ==
  directory.assessment # Nothing =>
    \A c \in Candidates :
      (/\ directory.assessment[c] = "requires_what_if_and_human_authorization"
       /\ ~directory.evidence.cut)
        => LET w == past[directory.evidence.at]
           IN  /\ c \in w.resources
               /\ c \notin Historical
               /\ c = Pip => w.attached = {}
               /\ \A t \in w.tags : t[2] # c
=============================================================================
