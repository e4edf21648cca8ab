---------------------------- MODULE OutcomeLedger ----------------------------
(***************************************************************************)
(* What an incident's evidence promises its readers ("Evidence rules" of   *)
(* servicetracer/README.md): the outcome of a transaction is unknown until *)
(* it has been observed, is learned once and is never revised; evidence    *)
(* that contradicts itself is withheld as a whole and for good.            *)
(***************************************************************************)
CONSTANTS Transactions, Outcomes, Unknown, Withheld

VARIABLE outcome   \* [Transactions -> Outcomes, Unknown or Withheld]

Init == outcome = [t \in Transactions |-> Unknown]

\* More outcomes are known, or all are withheld.
Learned(before, after) ==
    \/ /\ DOMAIN after = Transactions
       /\ \A t \in Transactions :
             \/ after[t] = before[t]
             \/ before[t] = Unknown /\ after[t] \in Outcomes
    \/ after = [t \in Transactions |-> Withheld]

Next == Learned(outcome, outcome')

Spec == Init /\ [][Next]_outcome
=============================================================================
