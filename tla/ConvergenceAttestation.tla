----------------------- MODULE ConvergenceAttestation -----------------------
(***************************************************************************)
(* Dependency attestation (experiments/convergence): evaluate takes a      *)
(* topology, what is observed of its edges and nodes, and decides which    *)
(* nodes may still be trusted.  It goes through the node observations and  *)
(* then through the edges, poisoning what depends on whatever is not       *)
(* valid; here each iteration is a step, taken in any order.               *)
(*                                                                         *)
(* The node observations are those the watchdog adapter makes of the       *)
(* service watchdog's classifications (watchdog_attestation.py).           *)
(***************************************************************************)
EXTENDS Integers

CONSTANTS
  Nodes, Edges,        \* the topology
  From, To,          \* the nodes an edge leads from and to
  Golden,              \* the edges that name a golden action
  EdgeObservations,    \* what was observed of edges, of some or all of them
  Classifications,     \* the watchdog's record of each subject it has one of
  EvaluationTime,      \* when the records are evaluated
  MaxAge               \* how long a classification stays fresh

States == {"VALID", "FAULTED", "UNKNOWN"}
Outcomes == {"SATISFIED", "UNSATISFIED", "UNKNOWN", "DISABLED"}

(* What the theorems assume of the topology and of the records. *)
WellFormed ==
  /\ From \in [Edges -> Nodes]
  /\ To \in [Edges -> Nodes]
  /\ EvaluationTime \in Nat
  /\ MaxAge \in Nat
  /\ \A s \in DOMAIN Classifications :
        Classifications[s].outcome \in Outcomes /\ Classifications[s].observed_at \in Nat

(* wrap_watchdog_classification: a classification from the future, a stale *)
(* one and a disabled target establish nothing.                            *)
Attested(record) ==
  IF \/ record.observed_at > EvaluationTime
     \/ EvaluationTime > record.observed_at + MaxAge
  THEN "UNKNOWN"
  ELSE CASE record.outcome = "SATISFIED" -> "VALID"
         [] record.outcome = "UNSATISFIED" -> "FAULTED"
         [] OTHER -> "UNKNOWN"

(* as_node_observation, of every subject that has a record. *)
NodeObservations == [s \in DOMAIN Classifications |-> Attested(Classifications[s])]

(* No evidence means no trust: an edge that was not observed is UNKNOWN. *)
EdgeState(e) == IF e \in DOMAIN EdgeObservations THEN EdgeObservations[e] ELSE "UNKNOWN"

(* _descendants: start and what edges lead to from it, the smallest set    *)
(* that holds start and is closed under the edges.                         *)
Closed(S) == \A e \in Edges : From[e] \in S => To[e] \in S
Descendants(start) ==
  {n \in Nodes : \A S \in SUBSET Nodes : start \in S /\ Closed(S) => n \in S}

VARIABLES
  outcome,         \* "running", "raised" or "returned"
  nodesLeft,       \* node observations not yet gone through
  edgesLeft,       \* edges not yet gone through
  node_states,
  candidate_actions

attestationVars == <<outcome, nodesLeft, edgesLeft, node_states, candidate_actions>>

AttestationInit ==
  /\ outcome = "running"
  /\ nodesLeft = DOMAIN NodeObservations
  /\ edgesLeft = Edges
  /\ node_states = [n \in Nodes |-> "VALID"]
  /\ candidate_actions = {}

(* _poison: what was trusted no longer is; an own verdict is more specific *)
(* and stays.                                                              *)
Poison(affected, states) ==
  [n \in Nodes |-> IF n \in affected /\ states[n] = "VALID" THEN "POISONED" ELSE states[n]]

ApplyNode(s) ==
  /\ outcome = "running" /\ s \in nodesLeft
  /\ IF s \notin Nodes
     THEN outcome' = "raised" /\ UNCHANGED <<nodesLeft, node_states>>
     ELSE /\ nodesLeft' = nodesLeft \ {s}
          /\ node_states' =
               IF NodeObservations[s] = "VALID" THEN node_states
               ELSE Poison(Descendants(s) \ {s},
                           [node_states EXCEPT ![s] = NodeObservations[s]])
          /\ UNCHANGED outcome
  /\ UNCHANGED <<edgesLeft, candidate_actions>>

ApplyEdge(e) ==
  /\ outcome = "running" /\ nodesLeft = {} /\ e \in edgesLeft
  /\ IF EdgeState(e) \notin States
     THEN outcome' = "raised" /\ UNCHANGED <<edgesLeft, node_states, candidate_actions>>
     ELSE /\ edgesLeft' = edgesLeft \ {e}
          /\ node_states' = IF EdgeState(e) = "VALID" THEN node_states
                            ELSE Poison(Descendants(To[e]), node_states)
          /\ candidate_actions' = IF EdgeState(e) = "FAULTED" /\ e \in Golden
                                  THEN candidate_actions \cup {e} ELSE candidate_actions
          /\ UNCHANGED outcome
  /\ UNCHANGED nodesLeft

Return ==
  /\ outcome = "running" /\ nodesLeft = {} /\ edgesLeft = {}
  /\ outcome' = "returned"
  /\ UNCHANGED <<nodesLeft, edgesLeft, node_states, candidate_actions>>

AttestationNext ==
  \/ \E s \in nodesLeft : ApplyNode(s)
  \/ \E e \in edgesLeft : ApplyEdge(e)
  \/ Return

AttestationSpec == AttestationInit /\ [][AttestationNext]_attestationVars

-----------------------------------------------------------------------------
NodeStates == States \cup {"POISONED"}

AttestationTypeOK ==
  /\ outcome \in {"running", "raised", "returned"}
  /\ nodesLeft \subseteq DOMAIN NodeObservations
  /\ edgesLeft \subseteq Edges
  /\ node_states \in [Nodes -> NodeStates]
  /\ candidate_actions \subseteq Edges

Broken(n) == n \in DOMAIN NodeObservations /\ NodeObservations[n] # "VALID"
Tainted(n) ==
  \/ \E b \in Nodes : Broken(b) /\ n \in Descendants(b) \ {b}
  \/ \E e \in Edges : EdgeState(e) # "VALID" /\ n \in Descendants(To[e])

(* What evaluate returns does not depend on the order it went through the  *)
(* observations in: a node is what was observed of it if that is not       *)
(* valid, else poisoned if it depends on a node or an edge that is not     *)
(* valid, else valid.                                                      *)
VerdictIsDeclared ==
  outcome = "returned" =>
    \A n \in Nodes :
      node_states[n] = IF Broken(n) THEN NodeObservations[n]
                       ELSE IF Tainted(n) THEN "POISONED" ELSE "VALID"

(* Trust never passes a broken link: in what evaluate returns, an edge     *)
(* leads to a valid node only if it was observed valid and its own origin  *)
(* is valid, and a valid node is one whose own record, if it has one, is a *)
(* satisfied classification neither stale nor from the future.             *)
TrustIsUnbroken ==
  outcome = "returned" =>
    /\ \A e \in Edges : node_states[To[e]] = "VALID" =>
          EdgeState(e) = "VALID" /\ node_states[From[e]] = "VALID"
    /\ \A n \in Nodes \cap DOMAIN Classifications : node_states[n] = "VALID" =>
          /\ Classifications[n].outcome = "SATISFIED"
          /\ Classifications[n].observed_at <= EvaluationTime
          /\ EvaluationTime <= Classifications[n].observed_at + MaxAge
=============================================================================
