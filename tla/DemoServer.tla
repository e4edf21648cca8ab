------------------------------ MODULE DemoServer ------------------------------
(***************************************************************************)
(* The demo API process (demo_api/standalone_server.py): one thread for    *)
(* each call, and the identity of the host that all threads share in a     *)
(* cache with an expiry. Time passes in ticks; every time is kept relative *)
(* to now, so that no clock has to be bounded.                             *)
(***************************************************************************)
EXTENDS DemoReport, Integers, Sequences

CONSTANTS Slots,     \* the runs a page can have under way at once
          Samples,   \* the sequences of replies a run may see
          Servers,   \* what may be deployed behind the URL; lab: the samples
                     \* that the backends behind it can give
          OkTTL,     \* IDENTITY_SUCCESS_CACHE_SECONDS in ticks
          FailTTL,   \* IDENTITY_FAILURE_CACHE_SECONDS in ticks
          MaxWait,   \* ticks a thread waits for the lock and the query at most
          NoReport

Getters == {"probe", "poll"}
Callers == Getters \cup Slots

ASSUME DemoServerAssumption ==
    /\ OkTTL \in Nat /\ FailTTL \in Nat /\ MaxWait \in Nat
    /\ 0 < FailTTL /\ FailTTL < OkTTL
    /\ Slots \cap Getters = {}
    /\ Samples \subseteq Seq(Replies)
    /\ Servers \subseteq [configured : BOOLEAN, host : {"expected", "other"},
                         sourced : BOOLEAN, origins : SUBSET STRING,
                         lab : SUBSET Samples]

VARIABLES server,  \* the deployment that answers
          cache,   \* _IDENTITY_CACHE
          calls    \* what each caller in the browser waits for

serverVars == <<server, cache, calls>>

\* What a host is known as: unverified, expected (the one the page was
\* configured for) or other.
Ttl(identity) == IF identity = "unverified" THEN FailTTL ELSE OkTTL

MaxAge == OkTTL + MaxWait

\* at: none, sent, identity, answered, failed or foreign; ago: how long ago the
\* thread read its clock; age: how old the identity it answered was by then.
NoCall == [at |-> "none", ago |-> 0, report |-> NoReport,
           identity |-> "unverified", age |-> 0]

\* left: how long the entry is still valid, negative when it expired.
Empty  == [identity |-> "unverified", left |-> -MaxWait, age |-> MaxAge]

ServerInit ==
    /\ server \in Servers
    /\ cache = Empty
    /\ calls = [c \in Callers |-> NoCall]

-----------------------------------------------------------------------------
(* The requests.                                                           *)

\* What the page posts: its own origin and {"attempts": 20}.
PageRequest == [origin |-> "page", bytes |-> 15, json |-> TRUE, attempts |-> 20]

\* do_POST goes on past all its early answers: 403, 503, 400, 413, 400, 400.
Accepted(request) ==
    /\ request.origin \in {None} \cup server.origins
    /\ server.configured
    /\ request.bytes \in 0..MaxRequestBytes
    /\ request.json
    /\ AttemptsAccepted(request.attempts)

To(c, change) == calls' = [calls EXCEPT ![c] = change]

AtIdentity(report) == [NoCall EXCEPT !.at = "identity", !.report = report]
FailedCall == [NoCall EXCEPT !.at = "failed"]

\* What build_api_response makes of the replies to its transactions.
ReportOn(replies) == Handoff([i \in DOMAIN replies |-> Transaction(replies[i])])

\* do_POST, with a transaction that raises or without.
Transact(c) ==
    /\ c \in Slots /\ calls[c].at = "sent"
    /\ IF ~Accepted(PageRequest)
       THEN To(c, FailedCall)
       ELSE \E replies \in server.lab :
              To(c, IF Raises(replies) THEN FailedCall
                    ELSE AtIdentity(ReportOn(replies)))
    /\ UNCHANGED <<server, cache>>

\* do_GET of /api/health, up to the identity of the host.
StartHealth(c) ==
    /\ c \in Getters /\ calls[c].at = "sent"
    /\ To(c, AtIdentity(NoReport))
    /\ UNCHANGED <<server, cache>>

-----------------------------------------------------------------------------
(* azure_host_identity: the clock is read before the lock is taken.        *)

\* What the metadata service lets the thread say of its host.
Identified ==
    {"unverified"} \cup IF server.sourced THEN {server.host} ELSE {}

Hit(ago) == cache.left + ago > 0

Filled(identity, ago) ==
    [identity |-> identity, left |-> Ttl(identity) - ago, age |-> 0]

\* Under the lock: the cached answer, or a query whose answer is cached.
Identify(ago) ==
    IF Hit(ago) THEN cache' = cache
    ELSE \E identity \in Identified : cache' = Filled(identity, ago)

\* The answer leaves, a health answer of a misconfigured server as HTTP 503.
Answer(c) ==
    /\ calls[c].at = "identity"
    /\ Identify(calls[c].ago)
    /\ To(c, IF c \in Getters /\ ~server.configured THEN FailedCall
             ELSE [calls[c] EXCEPT !.at = "answered", !.ago = 0,
                                   !.identity = cache'.identity,
                                   !.age = cache'.age])
    /\ UNCHANGED server

\* The metadata service answers JSON that is no object: the exception is not
\* among those that are caught, the lock is freed and nobody is answered.
AnswerRaises(c) ==
    /\ calls[c].at = "identity" /\ ~Hit(calls[c].ago)
    /\ To(c, FailedCall)
    /\ UNCHANGED <<server, cache>>

\* A thread of somebody else, or one whose client has gone.
OtherClient ==
    /\ \E ago \in 0..MaxWait : Identify(ago)
    /\ UNCHANGED <<server, calls>>

-----------------------------------------------------------------------------
(* The network, the host and time.                                         *)

Pending(c) == calls[c].at \in {"sent", "identity"}

Lose(c) ==
    /\ Pending(c)
    /\ To(c, FailedCall)
    /\ UNCHANGED <<server, cache>>

\* Something else answers at this URL, with JSON of its own.
AnswerForeign(c) ==
    /\ calls[c].at = "sent"
    /\ To(c, [NoCall EXCEPT !.at = "foreign"])
    /\ UNCHANGED <<server, cache>>

\* The service is restarted or another one deployed before the same lab: its
\* memory is gone, and so are the connections.
Restart ==
    /\ server' \in Servers /\ server'.lab = server.lab
    /\ cache' = Empty
    /\ calls' = [c \in Callers |-> IF Pending(c) THEN FailedCall ELSE calls[c]]

Older(n, bound) == IF n < bound THEN n + 1 ELSE bound

\* A thread is served within MaxWait: a query lasts 1.5 seconds at most.
ServerTick ==
    /\ \A c \in Callers : calls[c].at = "identity" => calls[c].ago < MaxWait
    /\ cache' = [cache EXCEPT !.left = IF @ > -MaxWait THEN @ - 1 ELSE @,
                              !.age = Older(@, MaxAge)]
    /\ calls' = [c \in Callers |->
                   IF calls[c].at = "identity"
                   THEN [calls[c] EXCEPT !.ago = @ + 1] ELSE calls[c]]
    /\ UNCHANGED server

ServerStep(c) == Transact(c) \/ StartHealth(c) \/ Answer(c) \/ AnswerRaises(c)

=============================================================================
