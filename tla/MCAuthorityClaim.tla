----------------------------- MODULE MCAuthorityClaim -----------------------------
(* Small instances of AuthorityClaim for TLC.                               *)
EXTENDS AuthorityClaim, TLC

CONSTANTS reqA, reqCopy, reqBad, idA, idB, head, later, run1, run2

\* reqCopy is another file that declares the id of reqA; reqBad has an id of
\* its own and is refused by the verifier.
MCIdOf == [q \in Requests |-> IF q = reqBad THEN idB ELSE idA]

\* The tree delta is exact at the request's own commit only.
MCDelta == {<<reqA, head>>, <<reqBad, head>>, <<reqCopy, later>>}
              \cap (Requests \X Commits)

MCWellFormed == {reqA, reqCopy} \cap Requests
MCInScope == {reqA, reqBad} \cap Requests

MCIssuedAt == [q \in Requests |-> IF q = reqCopy THEN 1 ELSE 0]
MCValidUntil == [q \in Requests |-> IF q = reqCopy THEN 2 ELSE 1]

Symmetry == Permutations(Runs)
=============================================================================
