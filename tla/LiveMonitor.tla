------------------------------ MODULE LiveMonitor ------------------------------
(***************************************************************************)
(* The panel that watches the demo API (docs/live-monitor.js): it polls    *)
(* the health of the API on a timer, and sees every run of the page go out *)
(* and come back through a wrapper around fetch. Both write one state.     *)
(***************************************************************************)
EXTENDS DemoServer

CONSTANTS PollEvery,    \* HEALTH_INTERVAL_MS in ticks
          PollTimeout   \* HEALTH_TIMEOUT_MS in ticks

ASSUME LiveMonitorAssumption ==
    /\ PollEvery \in Nat /\ PollTimeout \in Nat
    /\ 0 < PollTimeout /\ PollTimeout < PollEvery

VARIABLES panel,    \* there is a monitor on this page
          phase,    \* how far initializeMonitor came, and whether the interval runs
          state,    \* what setMonitorState set last
          evidence, \* how long ago the host named there was identified
          timer,    \* ticks to the next call of the interval
          waiting   \* ticks the poll under way has taken

monitorVars == <<panel, phase, state, evidence, timer, waiting>>

\* stopped: no host to compare with; bound: a host, and no polling; first: the
\* first poll is awaited; watching: the interval runs; left: it was cleared.
Phases == {"loading", "stopped", "bound", "first", "watching", "left"}

\* "verified" in either wording, of a health answer or of a run; every other
\* outcome of either is a warning.
States == {"resolving", "in_flight", "verified", "warning"}

MaxEvidence == MaxAge + PollEvery + PollTimeout

MonitorInit ==
    /\ phase = IF panel THEN "loading" ELSE "stopped"
    /\ state = "resolving"
    /\ evidence = 0 /\ timer = 0 /\ waiting = 0

Show(s, age) ==
    IF panel THEN state' = s /\ evidence' = age ELSE UNCHANGED <<state, evidence>>

\* verifiedRuntimeIdentity: verified, and the host this page was bound to, if it
\* was bound to one, whether or not it polls.
Verified(call) ==
    /\ phase \notin {"loading", "stopped"}
    /\ call.at = "answered" /\ call.identity = "expected"

\* renderHealth, renderHealthFailure; renderTransactionResponse,
\* renderTransactionFailure.
ShowOutcome(call) ==
    IF Verified(call) THEN Show("verified", call.age) ELSE Show("warning", 0)

\* pollHealth: one poll at a time; it is aborted after HEALTH_TIMEOUT_MS.
SendPoll ==
    IF calls["poll"].at = "none"
    THEN To("poll", [NoCall EXCEPT !.at = "sent"]) /\ waiting' = 0
    ELSE UNCHANGED <<calls, waiting>>

\* initializeMonitor: the configuration names an endpoint and a host; or it
\* cannot be read or names no host; or its host is taken over, and then it names
\* no endpoint or one that is no absolute URL.
StartMonitor ==
    /\ phase = "loading"
    /\ \/ phase' = "first" /\ SendPoll /\ UNCHANGED <<state, evidence>>
       \/ /\ phase' \in {"stopped", "bound"}
          /\ Show("warning", 0) /\ UNCHANGED <<calls, waiting>>
    /\ UNCHANGED <<server, cache, panel, timer>>

\* pollHealth catches its own failure: the interval is set after any answer.
WatchesAfter(call) == IF phase = "first" THEN "watching" ELSE phase

\* The poll is over: an answer, a failure, or the abort.
PollEnds(call) ==
    /\ To("poll", NoCall)
    /\ ShowOutcome(call)
    /\ phase' = WatchesAfter(call)
    /\ timer' = IF phase = "first" THEN PollEvery ELSE timer
    /\ waiting' = 0
    /\ UNCHANGED <<server, cache, panel>>

PollReturns ==
    /\ calls["poll"].at \in {"answered", "failed", "foreign"}
    /\ PollEnds(calls["poll"])

\* Mutant: an aborted poll is no failure worth a word.
PollAbortsSilently ==
    /\ calls["poll"].at # "none" /\ waiting = PollTimeout
    /\ To("poll", NoCall)
    /\ phase' = WatchesAfter(FailedCall)
    /\ timer' = IF phase = "first" THEN PollEvery ELSE timer
    /\ waiting' = 0
    /\ UNCHANGED <<server, cache, panel, state, evidence>>

PollAborts ==
    /\ calls["poll"].at # "none" /\ waiting = PollTimeout
    /\ PollEnds(FailedCall)

\* setInterval fires.
PollDue ==
    /\ phase = "watching" /\ timer = 0
    /\ timer' = PollEvery
    /\ SendPoll
    /\ UNCHANGED <<server, cache, panel, phase, state, evidence>>

\* Time passes only when no timer of the browser is due and every answer that
\* was sent has been handled.
MonitorTick ==
    /\ \A c \in Callers : calls[c].at \in {"none", "sent", "identity"}
    /\ ~(phase = "watching" /\ timer = 0)
    /\ calls["poll"].at # "none" => waiting < PollTimeout
    /\ timer' = IF phase = "watching" THEN timer - 1 ELSE timer
    /\ waiting' = IF calls["poll"].at # "none" THEN waiting + 1 ELSE waiting
    /\ evidence' = IF state = "verified" THEN Older(evidence, MaxEvidence) ELSE evidence
    /\ UNCHANGED <<panel, phase, state>>

\* pagehide, on a page that the browser keeps and shows again: the interval is
\* cleared and nothing sets it anew.
HideAndReturn ==
    /\ phase = "watching"
    /\ phase' = "left"
    /\ timer' = 0
    /\ UNCHANGED <<server, cache, calls, panel, state, evidence, waiting>>

MonitorStep == StartMonitor \/ PollReturns \/ PollAborts \/ PollDue \/ HideAndReturn

-----------------------------------------------------------------------------
(* Properties.                                                             *)

\* While it polls, a host that the panel calls verified was identified no longer
\* ago than its time to live in the cache, one wait for the lock, one interval
\* and one timeout, whatever is deployed, lost or delayed since then, and
\* whichever of polls and runs wrote last (lines 90-105, 198-217, 276-297;
\* standalone_server.py 115-130).
VerifiedIsRecent ==
    phase \in {"first", "watching"} /\ state = "verified" => evidence < MaxEvidence

\* "It polls /api/health every 15 seconds": no panel goes on calling a host
\* verified that it has not asked for longer than that
\* (docs/designs/frontend-azure-provenance-monitor.md:39 and 179).
VerifiedExpires == state = "verified" => evidence < MaxEvidence
=============================================================================
