------------------------------ MODULE MCJsonlSpool ------------------------------
(* Small instances of JsonlSpool for TLC.                                   *)
EXTENDS JsonlSpool

CONSTANTS http1, http2, syslog1, i1, i2, b1, b2

R(i, b) == [id |-> i, body |-> b]

\* Batches that agree, overlap, contradict each other or themselves, repeat
\* a record, are malformed or empty.
MCOffers == { <<R(i1, b1)>>, <<R(i1, b2)>>, <<R(i2, b1), R(i1, b1)>>,
              <<R(i1, b1), R(i2, b1)>>, <<R(i2, b1), R(i2, b2)>>,
              <<R(i1, b1), R(i1, b1)>>, <<Malformed>>, <<>> }

\* Four of them, for the liveness properties.
FewOffers == { <<R(i1, b1)>>, <<R(i1, b2)>>, <<R(i2, b1), R(i1, b1)>>,
               <<R(i1, b1), R(i1, b1)>> }
=============================================================================
