------------------------------ MODULE DemoReport ------------------------------
(***************************************************************************)
(* What the demo API makes of the answers of the two lab backends          *)
(* (demo_api/runtime.py, demo_api/core.py), and when the browser calls the *)
(* result a stable localization (docs/app.js).                             *)
(***************************************************************************)
EXTENDS Naturals, FiniteSets

CONSTANTS Unresolved,  \* the backend of a transaction nobody answered
          None         \* an absent rate or request field

KnownBackends == {"VPN-01", "VPN-02"}
Backends == KnownBackends \cup {Unresolved}

ASSUME DemoReportAssumption == Unresolved \notin KnownBackends

-----------------------------------------------------------------------------
(* One transaction: what came back over the load balancer.                 *)

Replies == [kind : {"unreachable", "garbled", "other_schema", "reply", "no_object"},
            backend : Backends, success : BOOLEAN]

Transactions == [backend : Backends, success : BOOLEAN]

\* A reply without a usable body is a failure of nobody in particular, one of
\* another schema a failure of whoever sent it.
Transaction(reply) ==
    [backend |-> IF reply.kind \in {"other_schema", "reply"} THEN reply.backend
                 ELSE Unresolved,
     success |-> reply.kind = "reply" /\ reply.success]

\* JSON that is no object has no get(): the exception leaves the pool of
\* threads and the handler, and the client gets no answer at all.
Raises(replies) == \E i \in DOMAIN replies : replies[i].kind = "no_object"

-----------------------------------------------------------------------------
(* The report of a request.                                                *)

Total(ts, b)  == Cardinality({i \in DOMAIN ts : ts[i].backend = b})
Failed(ts, b) == Cardinality({i \in DOMAIN ts : ts[i].backend = b /\ ~ts[i].success})

\* round(failed / total, 4) in ten-thousandths. Two different rates of at most
\* 50 attempts are four of them apart: rounding keeps their order.
FailureRate(total, failed) ==
    IF total = 0 THEN None ELSE (20000 * failed + total) \div (2 * total)

Observed(ts) == {b \in KnownBackends : Total(ts, b) > 0}

Rate(ts, b) == FailureRate(Total(ts, b), Failed(ts, b))

\* max and min over VPN-01, VPN-02: of two that are alike, the first.
Extreme(ts, isSecond) ==
    IF Cardinality(Observed(ts)) = 2 THEN IF isSecond THEN "VPN-02" ELSE "VPN-01"
    ELSE CHOOSE b \in Backends : Observed(ts) = {b} \ {Unresolved}

Suspect(ts) == Extreme(ts, Rate(ts, "VPN-02") > Rate(ts, "VPN-01"))
Healthy(ts) == Extreme(ts, Rate(ts, "VPN-02") < Rate(ts, "VPN-01"))

\* finding: the text names VPN-02, or it declines to name a backend.
\* route: where step one of the fixed TECHNICIAN_WORKFLOW sends the user.
Handoff(ts) ==
    LET rates == [b \in KnownBackends |-> Rate(ts, b)]
        concentrated == /\ Suspect(ts) = "VPN-02" /\ Healthy(ts) = "VPN-01"
                        /\ rates["VPN-02"] > rates["VPN-01"]
    IN  [suspect |-> Suspect(ts), healthy |-> Healthy(ts), rates |-> rates,
         counts |-> [b \in KnownBackends |-> Total(ts, b)],
         finding |-> IF concentrated THEN "VPN-02" ELSE Unresolved,
         route |-> "VPN-01"]

\* The handoff of servicetracer itself, published or committed as the fixture:
\* it names its suspect and its peer, and no attempt counts.
PublishedHandoff(suspect, healthy) ==
    [suspect |-> suspect, healthy |-> healthy,
     rates |-> [b \in KnownBackends |-> IF b = suspect THEN 10000 ELSE 0],
     counts |-> [b \in KnownBackends |-> 0],
     finding |-> suspect, route |-> healthy]

-----------------------------------------------------------------------------
(* The request and its limits.                                             *)

MinAttempts == 2
MaxAttempts == 50
MaxRequestBytes == 4096

\* normalize_attempts: a missing number stands for 20, anything else must be an
\* integer within bounds.
AttemptsAccepted(value) == value = None \/ value \in MinAttempts..MaxAttempts

\* localizationIsStable of the page: both sampled, and the suspect fails more.
Stable(h) ==
    /\ {h.suspect, h.healthy} \subseteq KnownBackends
    /\ h.suspect # h.healthy
    /\ \A b \in KnownBackends : h.counts[b] > 0
    /\ h.rates[h.suspect] > h.rates[h.healthy]
=============================================================================
