--------------------------- MODULE MCGovernedPersistence ---------------------------
(* Small instances of GovernedPersistence for TLC.                          *)
EXTENDS GovernedPersistence, TLC

CONSTANTS mark, planA, planB

Symmetry == Permutations({planA, planB})
=============================================================================
