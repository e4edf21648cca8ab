---------------------------- MODULE LiveDemo_proofs ----------------------------
(***************************************************************************)
(* Proofs about the live demonstration, for any deployments behind the     *)
(* URL, any replies of the backends, any runs at once and any lengths of   *)
(* the cache's lifetimes and of the monitor's interval and timeout: what   *)
(* the page shows is true, and what its monitor shows is recent.           *)
(***************************************************************************)
EXTENDS LiveDemo, TLAPS

-----------------------------------------------------------------------------
(* The inductive invariant.                                                *)

Identities == {"unverified", "expected", "other"}

ApiHandoffs == {ReportOn(replies) : replies \in Samples}

Calls == [at : {"none", "sent", "identity", "answered", "failed", "foreign"},
          ago : 0..MaxWait, report : ApiHandoffs \cup {NoReport},
          identity : Identities, age : 0..MaxAge]

(* What a caller may be given: an identity that is younger than MaxAge, and *)
(* a handoff if the call is a run.                                          *)
GoodCall(c, call) ==
    /\ call \in Calls
    /\ call.at = "answered" => call.age < MaxAge
    /\ c \in Slots /\ call.at \in {"identity", "answered"} => call.report \in ApiHandoffs

CallsInv ==
    /\ calls \in [Callers -> Calls]
    /\ \A c \in Callers : GoodCall(c, calls[c])

(* The entry that may still be served is as old as its use of the lifetime. *)
CacheInv ==
    /\ cache \in [identity : Identities, left : Int, age : 0..MaxAge]
    /\ cache.left >= -MaxWait
    /\ cache.left > -MaxWait => cache.left + cache.age <= OkTTL

ServerInv == server \in Servers /\ CacheInv /\ CallsInv

MonitorTyped ==
    /\ panel \in BOOLEAN
    /\ phase \in Phases
    /\ state \in States
    /\ evidence \in 0..MaxEvidence
    /\ timer \in 0..PollEvery
    /\ waiting \in 0..PollTimeout

PollUnderWay == calls["poll"].at # "none"

(* How old a verified identity may be by now: the poll under way, or the    *)
(* next one, is never far.                                                  *)
WatchInv ==
    /\ ~panel => phase = "stopped"
    /\ phase \in {"loading", "stopped"} => state # "verified"
    /\ phase \in {"loading", "stopped", "bound"} => ~PollUnderWay
    /\ phase = "first" =>
         PollUnderWay /\ (state = "verified" => evidence < MaxAge + waiting)
    /\ phase = "watching" /\ ~PollUnderWay =>
         (state = "verified" => evidence < MaxAge + (PollEvery - timer))
    /\ phase = "watching" /\ PollUnderWay =>
         /\ timer + waiting = PollEvery
         /\ state = "verified" => evidence < MaxAge + PollEvery + waiting

MonitorInv == MonitorTyped /\ WatchInv

Labels == {"none", "live", "fixture", "ready", "api", "unavailable"}

Screens == [enabled : BOOLEAN, label : Labels, results : Handoffs \cup {NoReport},
            list : {NoList} \cup [Steps -> BOOLEAN], message : BOOLEAN]

PageTyped ==
    /\ load \in {"config", "live", "fallback", "probe", "done", "failed"}
    /\ source \in [live : BOOLEAN, api : BOOLEAN]
    /\ report \in Reports \cup {NoReport}
    /\ ready \in BOOLEAN
    /\ completed \in SUBSET Steps
    /\ runs \in [Slots -> {"idle", "first_delay", "posted", "second_delay"}]
    /\ screen \in Screens

(* There is no report before the page has loaded one, and without a report  *)
(* nothing runs, can be run or is drawn.                                    *)
PageInv ==
    /\ PageTyped
    /\ load \in {"config", "live", "fallback"} => report = NoReport
    /\ NoRunWithoutReport
    /\ report = NoReport => screen.results = NoReport
    /\ ShownIsCurrent
    /\ LiveLabelIsTrue

DemoInv == ServerInv /\ MonitorInv /\ PageInv /\ patient \in BOOLEAN

-----------------------------------------------------------------------------
(* The demo API and the network.                                           *)

LEMMA Times ==
    /\ OkTTL \in Nat /\ FailTTL \in Nat /\ MaxWait \in Nat
    /\ 0 < FailTTL /\ FailTTL < OkTTL
    /\ MaxAge \in Nat /\ MaxAge = OkTTL + MaxWait
    /\ PollEvery \in Nat /\ PollTimeout \in Nat
    /\ 0 < PollTimeout /\ PollTimeout < PollEvery
    /\ MaxEvidence \in Nat /\ MaxEvidence = MaxAge + PollEvery + PollTimeout
BY DemoServerAssumption, LiveMonitorAssumption DEF MaxAge, MaxEvidence

LEMMA Caller ==
    /\ "poll" \in Callers /\ "probe" \in Callers /\ Slots \subseteq Callers
    /\ "poll" \notin Slots /\ "probe" \notin Slots
    /\ "poll" # "probe"
BY DemoServerAssumption DEF Callers, Getters

LEMMA PlainCalls ==
    ASSUME NEW c, NEW at \in {"none", "sent", "failed", "foreign"}
    PROVE  GoodCall(c, [NoCall EXCEPT !.at = at])
BY Times DEF GoodCall, NoCall, Calls, Identities

(* A call whose thread has its answer but for the identity of the host.     *)
LEMMA CallsAtIdentity ==
    ASSUME NEW c, NEW h \in ApiHandoffs \cup {NoReport},
           c \in Slots => h \in ApiHandoffs
    PROVE  GoodCall(c, AtIdentity(h))
<1> DEFINE asked == [NoCall EXCEPT !.at = "identity"]
<1>1. asked = [at |-> "identity", ago |-> 0, report |-> NoReport,
               identity |-> "unverified", age |-> 0]
  BY DEF NoCall
<1>2. AtIdentity(h) = [asked EXCEPT !.report = h]
  BY DEF AtIdentity
<1> HIDE DEF asked
<1>3. AtIdentity(h) = [at |-> "identity", ago |-> 0, report |-> h,
                       identity |-> "unverified", age |-> 0]
  BY <1>1, <1>2
<1> QED BY <1>3, Times DEF GoodCall, Calls, Identities

(* What the host of a call is said to be is young when the call is answered. *)
LEMMA CallsAnswered ==
    ASSUME NEW c, NEW call, GoodCall(c, call), call.at = "identity",
           NEW identity \in Identities, NEW age \in 0..MaxAge, age < MaxAge
    PROVE  GoodCall(c, [call EXCEPT !.at = "answered", !.ago = 0,
                                    !.identity = identity, !.age = age])
<1> DEFINE answered   == [call EXCEPT !.at = "answered"]
           now        == [answered EXCEPT !.ago = 0]
           identified == [now EXCEPT !.identity = identity]
<1>1. answered \in Calls /\ answered.at = "answered" /\ answered.report = call.report
  BY DEF GoodCall, Calls
<1> HIDE DEF answered
<1>2. now \in Calls /\ now.at = "answered" /\ now.report = call.report
  BY <1>1, Times DEF Calls
<1> HIDE DEF now
<1>3. identified \in Calls /\ identified.at = "answered" /\ identified.report = call.report
  BY <1>2 DEF Calls
<1> HIDE DEF identified
<1>4. GoodCall(c, [identified EXCEPT !.age = age])
  BY <1>3, Times DEF GoodCall, Calls
<1> QED BY <1>4 DEF identified, now, answered

LEMMA CallSet ==
    ASSUME CallsInv, NEW c \in Callers, NEW call, GoodCall(c, call), To(c, call)
    PROVE  CallsInv'
<1>1. calls' \in [Callers -> Calls]
  BY DEF CallsInv, GoodCall, To
<1>2. \A d \in Callers : calls'[d] = IF d = c THEN call ELSE calls[d]
  BY DEF CallsInv, To
<1>3. \A d \in Callers : GoodCall(d, calls'[d])
  BY <1>2 DEF CallsInv
<1> QED BY <1>1, <1>3 DEF CallsInv, GoodCall

(* What is identified is cached, and what was cached is young enough.       *)
LEMMA IdentifyStep ==
    ASSUME server \in Servers, CacheInv, NEW ago \in 0..MaxWait, Identify(ago)
    PROVE  /\ CacheInv'
           /\ cache'.identity \in Identities
           /\ cache'.age \in 0..MaxAge /\ cache'.age < MaxAge
<1> USE Times
<1>1. CASE Hit(ago)
  <2>1. cache' = cache /\ cache.left + ago > 0
    BY <1>1 DEF Identify, Hit
  <2>2. cache.left \in Int /\ cache.age \in 0..MaxAge /\ cache.identity \in Identities
    BY DEF CacheInv
  <2>3. cache.left > -MaxWait
    BY <2>1, <2>2
  <2>4. cache.age < MaxAge
    BY <2>1, <2>2, <2>3 DEF CacheInv
  <2> QED BY <2>1, <2>2, <2>4 DEF CacheInv
<1>2. CASE ~Hit(ago)
  <2>1. PICK identity \in Identified : cache' = Filled(identity, ago)
    BY <1>2 DEF Identify
  <2>2. identity \in Identities
    BY DemoServerAssumption DEF Identified, Identities
  <2>3. Ttl(identity) \in Nat /\ Ttl(identity) > 0 /\ Ttl(identity) <= OkTTL
    BY DEF Ttl
  <2>4. cache' = [identity |-> identity, left |-> Ttl(identity) - ago, age |-> 0]
    BY <2>1 DEF Filled
  <2>5. Ttl(identity) - ago \in Int /\ Ttl(identity) - ago >= -MaxWait
        /\ Ttl(identity) - ago <= OkTTL
    BY <2>3
  <2> QED BY <2>2, <2>4, <2>5 DEF CacheInv
<1> QED BY <1>1, <1>2

LEMMA ServerStepInv ==
    ASSUME ServerInv, NEW c \in Callers, ServerStep(c)
    PROVE  ServerInv'
<1> USE Times DEF ServerInv
<1>0. calls[c] \in Calls /\ GoodCall(c, calls[c])
  BY DEF CallsInv
<1>1. GoodCall(c, FailedCall)
  BY PlainCalls DEF FailedCall
<1>2. CASE Transact(c)
  <2>1. UNCHANGED <<server, cache>> /\ c \in Slots
    BY <1>2 DEF Transact
  <2>2. CASE To(c, FailedCall)
    BY <1>1, <2>1, <2>2, CallSet DEF CacheInv
  <2>3. CASE ~To(c, FailedCall)
    <3>1. PICK replies \in server.lab : To(c, AtIdentity(ReportOn(replies)))
      BY <1>2, <2>3 DEF Transact
    <3>2. replies \in Samples
      BY DemoServerAssumption
    <3>3. ReportOn(replies) \in ApiHandoffs
      BY <3>2 DEF ApiHandoffs
    <3>4. GoodCall(c, AtIdentity(ReportOn(replies)))
      BY <3>3, CallsAtIdentity
    <3> QED BY <2>1, <3>1, <3>4, CallSet DEF CacheInv
  <2> QED BY <2>2, <2>3
<1>3. CASE StartHealth(c)
  <2>1. c \notin Slots
    BY <1>3, DemoServerAssumption DEF StartHealth
  <2>2. GoodCall(c, AtIdentity(NoReport))
    BY <2>1, CallsAtIdentity
  <2> QED BY <1>3, <2>2, CallSet DEF StartHealth, CacheInv
<1>4. CASE Answer(c)
  <2>1. Identify(calls[c].ago) /\ calls[c].ago \in 0..MaxWait
    BY <1>0, <1>4 DEF Answer, Calls
  <2>2. /\ CacheInv' /\ cache'.identity \in Identities
        /\ cache'.age \in 0..MaxAge /\ cache'.age < MaxAge
    BY <2>1, IdentifyStep
  <2>3. PICK identity \in Identities, age \in 0..MaxAge :
           age < MaxAge /\ cache'.identity = identity /\ cache'.age = age
    BY <2>2
  <2> DEFINE call == [calls[c] EXCEPT !.at = "answered", !.ago = 0,
                                     !.identity = identity, !.age = age]
  <2>4. GoodCall(c, call)
    BY <1>0, <1>4, <2>3, CallsAnswered DEF Answer
  <2>6. To(c, FailedCall) \/ To(c, call)
    BY <1>4, <2>3 DEF Answer
  <2> HIDE DEF call
  <2>5. CallsInv'
    BY <1>1, <2>4, <2>6, CallSet
  <2> QED BY <1>4, <2>2, <2>5 DEF Answer
<1>5. CASE AnswerRaises(c)
  BY <1>1, <1>5, CallSet DEF AnswerRaises, CacheInv
<1> QED BY <1>2, <1>3, <1>4, <1>5 DEF ServerStep

LEMMA NetworkInv ==
    ASSUME ServerInv, Network
    PROVE  ServerInv'
<1> USE Times DEF ServerInv
<1>1. ASSUME NEW c \in Callers, ServerStep(c)
      PROVE  ServerInv'
  BY <1>1, ServerStepInv
<1>2. ASSUME NEW c \in Callers, Lose(c)
      PROVE  ServerInv'
  <2>1. GoodCall(c, FailedCall)
    BY PlainCalls DEF FailedCall
  <2> QED BY <1>2, <2>1, CallSet DEF Lose, CacheInv
<1>3. ASSUME NEW c \in Callers, AnswerForeign(c)
      PROVE  ServerInv'
  <2>1. GoodCall(c, [NoCall EXCEPT !.at = "foreign"])
    BY PlainCalls
  <2> QED BY <1>3, <2>1, CallSet DEF AnswerForeign, CacheInv
<1>4. CASE OtherClient
  BY <1>4, IdentifyStep DEF OtherClient, CallsInv
<1>5. CASE Restart
  <2>1. server' \in Servers
    BY <1>5 DEF Restart
  <2>2. CacheInv'
    BY <1>5 DEF Restart, CacheInv, Empty, Identities
  <2>3. \A c \in Callers : GoodCall(c, FailedCall)
    BY PlainCalls DEF FailedCall
  <2>4. \A c \in Callers : GoodCall(c, calls'[c])
    BY <1>5, <2>3 DEF Restart, CallsInv
  <2>5. calls' \in [Callers -> Calls]
    BY <1>5, <2>3 DEF Restart, CallsInv, GoodCall
  <2> QED BY <2>1, <2>2, <2>4, <2>5 DEF CallsInv, GoodCall
<1> QED BY <1>1, <1>2, <1>3, <1>4, <1>5 DEF Network

LEMMA ServerTickInv ==
    ASSUME ServerInv, ServerTick
    PROVE  ServerInv'
<1> USE Times DEF ServerInv
<1>1. CacheInv'
  <2>1. cache.left \in Int /\ cache.age \in 0..MaxAge /\ cache.identity \in Identities
    BY DEF CacheInv
  <2> DEFINE left == IF cache.left > -MaxWait THEN cache.left - 1 ELSE cache.left
             age == Older(cache.age, MaxAge)
  <2>2. left \in Int /\ left >= -MaxWait /\ age \in 0..MaxAge
    BY <2>1 DEF Older, CacheInv
  <2>3. left > -MaxWait => left + age <= OkTTL
    BY <2>1 DEF Older, CacheInv
  <2>4. cache' = [cache EXCEPT !.left = left, !.age = age]
    BY DEF ServerTick
  <2> HIDE DEF left, age
  <2>5. cache'.left = left /\ cache'.age = age
        /\ cache' \in [identity : Identities, left : Int, age : 0..MaxAge]
    BY <2>1, <2>2, <2>4 DEF CacheInv
  <2> QED BY <2>2, <2>3, <2>5 DEF CacheInv
<1>2. CallsInv'
  <2>1. ASSUME NEW c \in Callers
        PROVE  GoodCall(c, IF calls[c].at = "identity"
                           THEN [calls[c] EXCEPT !.ago = @ + 1] ELSE calls[c])
    <3>1. GoodCall(c, calls[c])
      BY DEF CallsInv
    <3>2. CASE calls[c].at = "identity"
      <4>1. calls[c].ago + 1 \in 0..MaxWait
        BY <3>1, <3>2 DEF ServerTick, GoodCall, Calls
      <4> QED BY <3>1, <3>2, <4>1 DEF GoodCall, Calls
    <3> QED BY <3>1, <3>2
  <2>2. \A c \in Callers : GoodCall(c, calls'[c])
    BY <2>1 DEF ServerTick
  <2>3. calls' \in [Callers -> Calls]
    BY <2>1 DEF ServerTick, GoodCall
  <2> QED BY <2>2, <2>3 DEF CallsInv, GoodCall
<1> QED BY <1>1, <1>2 DEF ServerTick

(* The page and its monitor only send calls and forget them.                *)
LEMMA PageCall ==
    ASSUME ServerInv, NEW c \in Callers, NEW at \in {"none", "sent"},
           To(c, [NoCall EXCEPT !.at = at]), UNCHANGED <<server, cache>>
    PROVE  ServerInv'
BY PlainCalls, CallSet DEF ServerInv, CacheInv

LEMMA ForgottenCall ==
    ASSUME ServerInv, NEW c \in Callers, To(c, NoCall), UNCHANGED <<server, cache>>
    PROVE  ServerInv'
<1>1. NoCall = [NoCall EXCEPT !.at = "none"]
  BY DEF NoCall
<1>2. To(c, [NoCall EXCEPT !.at = "none"])
  BY <1>1 DEF To
<1> QED BY <1>2, PageCall

LEMMA ServerUntouched ==
    ASSUME ServerInv, UNCHANGED serverVars
    PROVE  ServerInv'
BY DEF ServerInv, CacheInv, CallsInv, serverVars

LEMMA BrowserServer ==
    ASSUME ServerInv, Browser
    PROVE  ServerInv'
<1> USE Caller
<1>1. CASE LoadStep
  <2>1. CASE LoadConfig \/ LoadLive \/ LoadFails
    BY <2>1, ServerUntouched DEF LoadConfig, LoadLive, LoadFails
  <2>2. CASE LoadFallback
    <3>1. CASE UNCHANGED calls
      BY <2>2, <3>1, ServerUntouched DEF LoadFallback, serverVars
    <3>2. CASE To("probe", [NoCall EXCEPT !.at = "sent"])
      BY <2>2, <3>2, PageCall DEF LoadFallback
    <3> QED BY <2>2, <3>1, <3>2 DEF LoadFallback
  <2>3. CASE ProbeReturns
    BY <2>3, ForgottenCall DEF ProbeReturns
  <2> QED BY <1>1, <2>1, <2>2, <2>3 DEF LoadStep
<1>2. ASSUME NEW r \in Slots, RunStep(r)
      PROVE  ServerInv'
  <2>1. CASE Post(r)
    <3>1. CASE UNCHANGED calls
      BY <2>1, <3>1, ServerUntouched DEF Post, serverVars
    <3>2. CASE To(r, [NoCall EXCEPT !.at = "sent"])
      BY <2>1, <3>2, PageCall DEF Post
    <3> QED BY <2>1, <3>1, <3>2 DEF Post
  <2>2. CASE RunReturns(r)
    BY <2>2, ForgottenCall DEF RunReturns
  <2>3. CASE Populate(r)
    BY <2>3, ServerUntouched DEF Populate
  <2> QED BY <1>2, <2>1, <2>2, <2>3 DEF RunStep
<1>3. ASSUME NEW r \in Slots, ClickRun(r)
      PROVE  ServerInv'
  BY <1>3, ServerUntouched DEF ClickRun
<1>4. CASE ClickReset
  BY <1>4, ServerUntouched DEF ClickReset
<1>5. ASSUME NEW s \in Steps, CompleteStep(s)
      PROVE  ServerInv'
  BY <1>5, ServerUntouched DEF CompleteStep
<1> QED BY <1>1, <1>2, <1>3, <1>4, <1>5 DEF Browser

LEMMA MonitorServer ==
    ASSUME ServerInv, MonitorStep
    PROVE  ServerInv'
<1> USE Caller
<1>1. ASSUME SendPoll, UNCHANGED <<server, cache>>
      PROVE  ServerInv'
  BY <1>1, PageCall, ServerUntouched DEF SendPoll, serverVars
<1>2. CASE StartMonitor
  BY <1>1, <1>2, ServerUntouched DEF StartMonitor, serverVars
<1>3. CASE PollReturns \/ PollAborts
  BY <1>3, ForgottenCall DEF PollReturns, PollAborts, PollEnds
<1>4. CASE PollDue
  BY <1>1, <1>4 DEF PollDue
<1>5. CASE HideAndReturn
  BY <1>5, ServerUntouched DEF HideAndReturn, serverVars
<1> QED BY <1>2, <1>3, <1>4, <1>5 DEF MonitorStep

-----------------------------------------------------------------------------
(* The monitor.                                                            *)

(* Whatever happens between server and network, a poll under way stays so.  *)
LEMMA PollStays ==
    ASSUME ServerInv, Network \/ ServerTick
    PROVE  PollUnderWay' = PollUnderWay
<1> DEFINE Kept == (calls'["poll"].at = "none") <=> (calls["poll"].at = "none")
<1> USE Caller
<1>1. calls \in [Callers -> Calls]
  BY DEF ServerInv, CallsInv
<1>2. ASSUME NEW c \in Callers, NEW call, To(c, call), calls[c].at # "none", call.at # "none"
      PROVE  Kept
  BY <1>1, <1>2 DEF To
<1>3. FailedCall.at = "failed"
  BY DEF FailedCall, NoCall
<1>4. \A h : AtIdentity(h).at = "identity"
  BY DEF AtIdentity, NoCall
<1>5. ASSUME NEW c \in Callers, ServerStep(c)
      PROVE  Kept
  <2>1. calls[c].at # "none"
    BY <1>5 DEF ServerStep, Transact, StartHealth, Answer, AnswerRaises
  <2>2. CASE To(c, FailedCall)
    BY <1>2, <1>3, <2>1, <2>2
  <2>3. ASSUME NEW h, To(c, AtIdentity(h))
        PROVE  Kept
    BY <1>2, <1>4, <2>1, <2>3
  <2>4. CASE Transact(c)
    BY <2>2, <2>3, <2>4 DEF Transact
  <2>5. CASE StartHealth(c)
    BY <2>3, <2>5 DEF StartHealth
  <2>6. CASE Answer(c)
    <3>1. CASE ~To(c, FailedCall)
      <4>1. PICK identity, age :
              To(c, [calls[c] EXCEPT !.at = "answered", !.ago = 0,
                                     !.identity = identity, !.age = age])
        BY <2>6, <3>1 DEF Answer
      <4> DEFINE call == [calls[c] EXCEPT !.at = "answered", !.ago = 0,
                                         !.identity = identity, !.age = age]
      <4>2. call.at = "answered"
        BY <1>1 DEF Calls
      <4> HIDE DEF call
      <4>3. To(c, call)
        BY <4>1 DEF call
      <4> QED BY <1>2, <2>1, <4>2, <4>3
    <3> QED BY <2>2, <3>1
  <2>7. CASE AnswerRaises(c)
    BY <2>2, <2>7 DEF AnswerRaises
  <2> QED BY <1>5, <2>4, <2>5, <2>6, <2>7 DEF ServerStep
<1>6. ASSUME NEW c \in Callers, Lose(c)
      PROVE  Kept
  BY <1>2, <1>3, <1>6 DEF Lose, Pending
<1>7. ASSUME NEW c \in Callers, AnswerForeign(c)
      PROVE  Kept
  <2>1. [NoCall EXCEPT !.at = "foreign"].at = "foreign"
    BY DEF NoCall
  <2> QED BY <1>2, <1>7, <2>1 DEF AnswerForeign
<1>8. ASSUME OtherClient
     PROVE  Kept
  BY <1>8 DEF OtherClient
<1>9. ASSUME Restart
     PROVE  Kept
  BY <1>3, <1>9 DEF Restart, Pending
<1>10. ASSUME ServerTick
      PROVE  Kept
  BY <1>1, <1>10 DEF ServerTick, Calls
<1>11. Kept
  BY <1>5, <1>6, <1>7, <1>8, <1>9, <1>10 DEF Network
<1> QED BY <1>11 DEF PollUnderWay

LEMMA MonitorUntouched ==
    ASSUME MonitorInv, UNCHANGED monitorVars, PollUnderWay' = PollUnderWay
    PROVE  MonitorInv'
BY DEF MonitorInv, MonitorTyped, WatchInv, monitorVars

(* What the panel shows of the outcome of a call.                           *)
LEMMA Outcome ==
    ASSUME NEW c, NEW call, GoodCall(c, call), ShowOutcome(call)
    PROVE  \/ ~panel /\ UNCHANGED <<state, evidence>>
           \/ panel /\ state' = "warning" /\ evidence' = 0
           \/ /\ panel /\ phase \notin {"loading", "stopped"}
              /\ state' = "verified" /\ evidence' \in 0..MaxAge /\ evidence' < MaxAge
<1>1. CASE Verified(call)
  <2>1. call.age \in 0..MaxAge /\ call.age < MaxAge
    BY <1>1 DEF Verified, GoodCall, Calls
  <2> QED BY <1>1, <2>1 DEF ShowOutcome, Show, Verified
<1>2. CASE ~Verified(call)
  BY <1>2 DEF ShowOutcome, Show
<1> QED BY <1>1, <1>2

(* The outcome of a run, or its start, is shown in passing.                 *)
LEMMA Passing ==
    ASSUME MonitorInv, UNCHANGED <<panel, phase, timer, waiting>>,
           PollUnderWay' = PollUnderWay,
           \/ UNCHANGED <<state, evidence>>
           \/ panel /\ state' \in {"warning", "in_flight"} /\ evidence' = 0
           \/ /\ panel /\ phase \notin {"loading", "stopped"}
              /\ state' = "verified" /\ evidence' \in 0..MaxAge /\ evidence' < MaxAge
    PROVE  MonitorInv'
<1> USE Times
<1>1. MonitorTyped'
  BY DEF MonitorInv, MonitorTyped, States
<1>2. WatchInv'
  <2>1. CASE UNCHANGED <<state, evidence>>
    BY <2>1 DEF MonitorInv, MonitorTyped, WatchInv
  <2>2. CASE panel /\ state' \in {"warning", "in_flight"} /\ evidence' = 0
    BY <2>2 DEF MonitorInv, MonitorTyped, WatchInv
  <2>3. CASE /\ panel /\ phase \notin {"loading", "stopped"}
             /\ state' = "verified" /\ evidence' \in 0..MaxAge /\ evidence' < MaxAge
    BY <2>3 DEF MonitorInv, MonitorTyped, WatchInv
  <2> QED BY <2>1, <2>2, <2>3
<1> QED BY <1>1, <1>2 DEF MonitorInv

(* Sending or forgetting another call leaves the poll where it is.          *)
LEMMA OtherCall ==
    ASSUME ServerInv, NEW c \in Callers, c # "poll", NEW call, To(c, call)
    PROVE  PollUnderWay' = PollUnderWay
BY Caller DEF ServerInv, CallsInv, To, PollUnderWay

LEMMA BrowserMonitor ==
    ASSUME ServerInv, MonitorInv, Browser
    PROVE  MonitorInv'
<1> USE Caller
<1>1. ASSUME UNCHANGED <<calls, monitorVars>>
      PROVE  MonitorInv'
  BY <1>1, MonitorUntouched DEF PollUnderWay
<1>2. CASE LoadStep
  <2>1. CASE LoadConfig \/ LoadLive \/ LoadFails
    BY <1>1, <2>1 DEF LoadConfig, LoadLive, LoadFails, serverVars
  <2>2. CASE LoadFallback
    <3>1. CASE UNCHANGED calls
      BY <1>1, <2>2, <3>1 DEF LoadFallback
    <3>2. CASE To("probe", [NoCall EXCEPT !.at = "sent"])
      BY <2>2, <3>2, OtherCall, MonitorUntouched DEF LoadFallback
    <3> QED BY <2>2, <3>1, <3>2 DEF LoadFallback
  <2>3. CASE ProbeReturns
    BY <2>3, OtherCall, MonitorUntouched DEF ProbeReturns
  <2> QED BY <1>2, <2>1, <2>2, <2>3 DEF LoadStep
<1>3. ASSUME NEW r \in Slots, RunStep(r)
      PROVE  MonitorInv'
  <2>1. CASE Post(r)
    <3>1. CASE ready
      <4>1. /\ To(r, [NoCall EXCEPT !.at = "sent"]) /\ Show("in_flight", 0)
            /\ UNCHANGED <<panel, phase, timer, waiting>>
        BY <2>1, <3>1 DEF Post
      <4>2. PollUnderWay' = PollUnderWay
        BY <4>1, OtherCall
      <4> QED BY <4>1, <4>2, Passing DEF Show
    <3>2. CASE ~ready
      BY <1>1, <2>1, <3>2 DEF Post, monitorVars
    <3> QED BY <3>1, <3>2
  <2>2. CASE RunReturns(r)
    <3>1. /\ To(r, NoCall) /\ ShowOutcome(calls[r])
          /\ UNCHANGED <<panel, phase, timer, waiting>>
      BY <2>2 DEF RunReturns
    <3>2. PollUnderWay' = PollUnderWay
      BY <3>1, OtherCall
    <3>3. GoodCall(r, calls[r])
      BY DEF ServerInv, CallsInv
    <3> QED BY <3>1, <3>2, <3>3, Outcome, Passing
  <2>3. CASE Populate(r)
    BY <1>1, <2>3 DEF Populate, serverVars
  <2> QED BY <1>3, <2>1, <2>2, <2>3 DEF RunStep
<1>4. ASSUME NEW r \in Slots, ClickRun(r)
      PROVE  MonitorInv'
  BY <1>1, <1>4 DEF ClickRun, serverVars
<1>5. CASE ClickReset
  BY <1>1, <1>5 DEF ClickReset, serverVars
<1>6. ASSUME NEW s \in Steps, CompleteStep(s)
      PROVE  MonitorInv'
  BY <1>1, <1>6 DEF CompleteStep, serverVars
<1> QED BY <1>2, <1>3, <1>4, <1>5, <1>6 DEF Browser

(* The poll that is sent, and the poll that is still under way.             *)
LEMMA PollSent ==
    ASSUME ServerInv, MonitorInv, SendPoll
    PROVE  /\ PollUnderWay'
           /\ waiting' = IF PollUnderWay THEN waiting ELSE 0
<1> DEFINE sent == [NoCall EXCEPT !.at = "sent"]
<1>1. sent.at = "sent"
  BY DEF NoCall
<1>2. IF calls["poll"].at = "none" THEN To("poll", sent) /\ waiting' = 0
      ELSE UNCHANGED <<calls, waiting>>
  BY DEF SendPoll
<1> HIDE DEF sent
<1>3. calls \in [Callers -> Calls] /\ "poll" \in Callers
  BY Caller DEF ServerInv, CallsInv
<1>4. CASE ~PollUnderWay
  <2>1. To("poll", sent) /\ waiting' = 0
    BY <1>4, <1>2 DEF PollUnderWay
  <2>2. calls'["poll"] = sent
    BY <1>3, <2>1 DEF To
  <2>3. calls'["poll"].at = "sent"
    BY <1>1, <2>2, Zenon
  <2>4. PollUnderWay'
    BY <2>3 DEF PollUnderWay
  <2> QED BY <1>4, <2>1, <2>4
<1>5. CASE PollUnderWay
  BY <1>5, <1>2 DEF PollUnderWay
<1> QED BY <1>4, <1>5

LEMMA MonitorStepInv ==
    ASSUME ServerInv, MonitorInv, MonitorStep
    PROVE  MonitorInv'
<1> USE Times, Caller
<1>1. CASE StartMonitor
  <2>1. /\ phase = "loading" /\ ~PollUnderWay /\ panel /\ state # "verified"
        /\ UNCHANGED <<panel, timer>>
    BY <1>1 DEF StartMonitor, MonitorInv, WatchInv
  <2>2. CASE phase' = "first"
    <3>1. PollUnderWay' /\ waiting' = 0 /\ UNCHANGED <<state, evidence>>
      BY <1>1, <2>1, <2>2, PollSent DEF StartMonitor
    <3> QED BY <2>1, <2>2, <3>1 DEF MonitorInv, MonitorTyped, WatchInv, Phases
  <2>3. CASE phase' \in {"stopped", "bound"}
    <3>1. /\ state' = "warning" /\ evidence' = 0
          /\ UNCHANGED <<calls, waiting>>
      BY <1>1, <2>1, <2>3 DEF StartMonitor, Show
    <3>2. ~PollUnderWay'
      BY <2>1, <3>1 DEF PollUnderWay
    <3> QED BY <2>1, <2>3, <3>1, <3>2 DEF MonitorInv, MonitorTyped, WatchInv, States, Phases
  <2> QED BY <1>1, <2>2, <2>3 DEF StartMonitor
<1>2. ASSUME NEW call, GoodCall("poll", call), PollUnderWay, PollEnds(call)
      PROVE  MonitorInv'
  <2>1. phase \in {"first", "watching", "left"} /\ panel
    BY <1>2 DEF MonitorInv, MonitorTyped, WatchInv, Phases
  <2>2. ~PollUnderWay'
    <3>1. calls \in [Callers -> Calls] /\ To("poll", NoCall)
      BY <1>2 DEF ServerInv, CallsInv, PollEnds
    <3> QED BY <3>1 DEF To, PollUnderWay, NoCall
  <2>3. /\ phase' = IF phase = "left" THEN "left" ELSE "watching"
        /\ waiting' = 0 /\ panel' = panel
        /\ timer' = IF phase = "first" THEN PollEvery ELSE timer
    BY <1>2, <2>1 DEF PollEnds, WatchesAfter
  <2>4. /\ state' \in States /\ evidence' \in 0..MaxAge
        /\ state' = "verified" => evidence' < MaxAge
    BY <1>2, <2>1, Outcome DEF PollEnds, States
  <2>5. timer' \in 0..PollEvery
    BY <2>3 DEF MonitorInv, MonitorTyped
  <2>6. MonitorTyped'
    BY <2>1, <2>3, <2>4, <2>5 DEF MonitorInv, MonitorTyped, Phases
  <2> QED BY <2>1, <2>2, <2>3, <2>4, <2>5, <2>6 DEF MonitorInv, MonitorTyped, WatchInv
<1>3. CASE PollReturns
  <2>1. GoodCall("poll", calls["poll"])
    BY DEF ServerInv, CallsInv
  <2> QED BY <1>2, <1>3, <2>1 DEF PollReturns, PollUnderWay
<1>4. CASE PollAborts
  <2>1. GoodCall("poll", FailedCall)
    BY PlainCalls DEF FailedCall
  <2> QED BY <1>2, <1>4, <2>1 DEF PollAborts, PollUnderWay
<1>5. CASE PollDue
  <2>1. /\ phase = "watching" /\ timer = 0 /\ timer' = PollEvery /\ SendPoll
        /\ UNCHANGED <<panel, phase, state, evidence>>
    BY <1>5 DEF PollDue
  <2>2. ~PollUnderWay
    BY <2>1 DEF MonitorInv, MonitorTyped, WatchInv
  <2>3. PollUnderWay' /\ waiting' = 0
    BY <2>1, <2>2, PollSent
  <2> QED BY <2>1, <2>2, <2>3 DEF MonitorInv, MonitorTyped, WatchInv
<1>6. CASE HideAndReturn
  <2>1. /\ phase = "watching" /\ phase' = "left" /\ timer' = 0
        /\ UNCHANGED <<panel, state, evidence, waiting>>
    BY <1>6 DEF HideAndReturn
  <2>2. MonitorTyped'
    BY <2>1 DEF MonitorInv, MonitorTyped, Phases
  <2> QED BY <2>1, <2>2 DEF MonitorInv, WatchInv
<1> QED BY <1>1, <1>3, <1>4, <1>5, <1>6 DEF MonitorStep

(* Time passes: the evidence ages as the timer runs down.                   *)
LEMMA MonitorTickInv ==
    ASSUME ServerInv, MonitorInv, ServerTick, MonitorTick
    PROVE  MonitorInv'
<1> USE Times
<1>1. PollUnderWay' = PollUnderWay
  BY PollStays
<1>2. /\ timer' = IF phase = "watching" THEN timer - 1 ELSE timer
      /\ waiting' = IF PollUnderWay THEN waiting + 1 ELSE waiting
      /\ evidence' = IF state = "verified" THEN Older(evidence, MaxEvidence) ELSE evidence
      /\ UNCHANGED <<panel, phase, state>>
      /\ ~(phase = "watching" /\ timer = 0)
      /\ PollUnderWay => waiting < PollTimeout
  BY DEF MonitorTick, PollUnderWay
<1>3. Older(evidence, MaxEvidence) \in 0..MaxEvidence
      /\ Older(evidence, MaxEvidence) <= evidence + 1
  BY DEF Older, MonitorInv, MonitorTyped
<1>4. MonitorTyped'
  BY <1>2, <1>3 DEF MonitorInv, MonitorTyped
<1>5. evidence' \in Nat /\ evidence \in Nat /\ (state = "verified" => evidence' <= evidence + 1)
  BY <1>2, <1>3 DEF MonitorInv, MonitorTyped
<1>6. WatchInv'
  BY <1>1, <1>2, <1>5 DEF MonitorInv, MonitorTyped, WatchInv
<1> QED BY <1>4, <1>6 DEF MonitorInv

-----------------------------------------------------------------------------
(* The page.                                                               *)

LEMMA Posted ==
    /\ NoReport \notin Handoffs
    /\ NoReport \notin Reports
    /\ ApiHandoffs \subseteq Handoffs
    /\ Fixture \in Handoffs /\ Published \subseteq Handoffs
    /\ \A rep \in Reports : rep.handoff \in Handoffs
BY DemoPageAssumption DEF ApiHandoffs, Handoffs, Reports

LEMMA PageUntouched ==
    ASSUME PageInv, UNCHANGED pageVars
    PROVE  PageInv'
BY DEF PageInv, PageTyped, NoRunWithoutReport, Quiet, ShownIsCurrent, LiveLabelIsTrue, pageVars

(* The screen without results, steps or message.                            *)
Blank(label, rep) ==
    [enabled |-> rep # NoReport, label |-> label, results |-> NoReport,
     list |-> NoList, message |-> FALSE]

LEMMA ClearedScreen ==
    ASSUME NEW scr \in Screens, NEW label \in Labels, NEW rep
    PROVE  Cleared([scr EXCEPT !.label = label], rep) = Blank(label, rep)
<1> DEFINE named    == [scr EXCEPT !.label = label]
           offered  == [named EXCEPT !.enabled = rep # NoReport]
           empty    == [offered EXCEPT !.results = NoReport]
           unlisted == [empty EXCEPT !.list = NoList]
           fields   == {"enabled", "label", "results", "list", "message"}
<1>1. DOMAIN named = fields /\ named = [f \in fields |-> named[f]] /\ named.label = label
  BY DEF Screens
<1> HIDE DEF named
<1>2. /\ DOMAIN offered = fields /\ offered = [f \in fields |-> offered[f]]
      /\ offered.label = label /\ offered.enabled = (rep # NoReport)
  BY <1>1
<1> HIDE DEF offered
<1>3. /\ DOMAIN empty = fields /\ empty = [f \in fields |-> empty[f]]
      /\ empty.label = label /\ empty.enabled = (rep # NoReport) /\ empty.results = NoReport
  BY <1>2
<1> HIDE DEF empty
<1>4. /\ DOMAIN unlisted = fields /\ unlisted = [f \in fields |-> unlisted[f]]
      /\ unlisted.label = label /\ unlisted.enabled = (rep # NoReport)
      /\ unlisted.results = NoReport /\ unlisted.list = NoList
  BY <1>3
<1> HIDE DEF unlisted
<1> DEFINE blank == [unlisted EXCEPT !.message = FALSE]
<1>5. /\ DOMAIN blank = fields /\ blank = [f \in fields |-> blank[f]]
      /\ blank.label = label /\ blank.enabled = (rep # NoReport)
      /\ blank.results = NoReport /\ blank.list = NoList /\ blank.message = FALSE
  BY <1>4
<1> HIDE DEF blank
<1>6. DOMAIN Blank(label, rep) = fields
      /\ Blank(label, rep) = [f \in fields |-> Blank(label, rep)[f]]
  BY DEF Blank
<1>7. \A f \in fields : blank[f] = Blank(label, rep)[f]
  BY <1>5 DEF Blank
<1>8. blank = Blank(label, rep)
  BY <1>5, <1>6, <1>7
<1>9. Cleared(named, rep) = blank
  BY DEF Cleared, blank, unlisted, empty, offered
<1> QED BY <1>8, <1>9 DEF named

LEMMA BlankScreen ==
    ASSUME NEW label \in Labels, NEW rep
    PROVE  /\ Blank(label, rep) \in Screens
           /\ Blank(label, rep).enabled <=> rep # NoReport
           /\ Blank(label, rep).label = label
           /\ Blank(label, rep).results = NoReport
BY DEF Blank, Screens

(* The page when its report has been set and its panels are cleared.        *)
LEMMA ClearedPage ==
    ASSUME PageInv, NEW label \in Labels, NEW rep \in Reports \cup {NoReport},
           report' = rep, rep = NoReport => report = NoReport,
           screen' = Blank(label, rep),
           load' \in {"config", "live", "fallback", "probe", "done", "failed"},
           load' \in {"config", "live", "fallback"} => rep = NoReport,
           completed' = {}, ready' \in BOOLEAN, UNCHANGED <<source, runs>>,
           label = "api" => rep.mode = "api",
           label = "live" => rep.mode = "live"
    PROVE  PageInv'
<1>1. /\ screen' \in Screens /\ screen'.label = label /\ screen'.results = NoReport
      /\ screen'.enabled <=> rep # NoReport
  BY BlankScreen
<1>2. PageTyped'
  BY <1>1 DEF PageInv, PageTyped
<1>3. NoRunWithoutReport'
  BY <1>1 DEF PageInv, NoRunWithoutReport, Quiet
<1>4. ShownIsCurrent' /\ LiveLabelIsTrue'
  BY <1>1 DEF ShownIsCurrent, LiveLabelIsTrue
<1> QED BY <1>1, <1>2, <1>3, <1>4 DEF PageInv

LEMMA LoadedPage ==
    ASSUME PageInv, NEW mode \in {"live", "fixture"}, NEW handoff \in Handoffs,
           Loaded(mode, handoff, mode), load' = "done", UNCHANGED <<source, ready, runs>>
    PROVE  PageInv'
<1> DEFINE rep == [mode |-> mode, handoff |-> handoff]
<1>1. rep \in Reports /\ rep.mode = mode
  BY DEF Reports
<1>2. report' = rep /\ completed' = {}
      /\ screen' = Cleared([screen EXCEPT !.label = mode], report')
  BY DEF Loaded
<1> HIDE DEF rep
<1>3. screen' = Blank(mode, rep)
  <2>1. screen \in Screens /\ mode \in Labels
    BY DEF PageInv, PageTyped, Labels
  <2>2. Cleared([screen EXCEPT !.label = mode], rep) = Blank(mode, rep)
    BY <2>1, ClearedScreen
  <2> QED BY <1>2, <2>2
<1>4. mode \in Labels /\ rep # NoReport /\ ready' \in BOOLEAN
  BY <1>1, Posted DEF Labels, PageInv, PageTyped
<1> QED BY <1>1, <1>2, <1>3, <1>4, ClearedPage

(* The label of the screen changes and nothing else that is on it.          *)
LEMMA LabelledScreen ==
    ASSUME NEW scr \in Screens, NEW label \in Labels
    PROVE  LET new == [scr EXCEPT !.label = label]
           IN  /\ new \in Screens /\ new.label = label
               /\ new.enabled = scr.enabled /\ new.results = scr.results
BY DEF Screens

(* The page while a report of another origin takes the place of its own and *)
(* a run is on its way or the page is still loading.                        *)
LEMMA LabelledPage ==
    ASSUME PageInv, NEW label \in Labels, NEW rep \in Reports,
           report' = rep, screen' = [screen EXCEPT !.label = label],
           load' \in {"probe", "done", "failed"},
           ready' \in BOOLEAN, UNCHANGED <<source, completed>>,
           runs' \in [Slots -> {"idle", "first_delay", "posted", "second_delay"}],
           ~Quiet' \/ report = NoReport,
           label = "api" => rep.mode = "api",
           label # "live"
    PROVE  PageInv'
<1>1. /\ screen' \in Screens /\ screen'.label = label
      /\ screen'.enabled = screen.enabled /\ screen'.results = screen.results
  BY LabelledScreen DEF PageInv, PageTyped
<1>2. rep # NoReport
  BY Posted
<1>3. PageTyped'
  BY <1>1 DEF PageInv, PageTyped
<1>4. NoRunWithoutReport'
  BY <1>2 DEF NoRunWithoutReport
<1>5. ShownIsCurrent'
  BY <1>1 DEF ShownIsCurrent, PageInv
<1>6. LiveLabelIsTrue'
  BY <1>1 DEF LiveLabelIsTrue
<1> QED BY <1>2, <1>3, <1>4, <1>5, <1>6 DEF PageInv

LEMMA LoadInv ==
    ASSUME ServerInv, PageInv, LoadStep
    PROVE  PageInv'
<1> USE Posted DEF PageInv
<1>1. CASE LoadConfig
  <2>1. /\ source' \in [live : BOOLEAN, api : BOOLEAN] /\ load' \in {"live", "fallback"}
        /\ load = "config" /\ UNCHANGED <<report, ready, completed, runs, screen>>
    <3>1. source' \in [live : BOOLEAN, api : BOOLEAN]
      <4>1. source \in [live : BOOLEAN, api : BOOLEAN]
        BY DEF PageTyped
      <4>2. [live |-> FALSE, api |-> FALSE] \in [live : BOOLEAN, api : BOOLEAN]
        OBVIOUS
      <4>3. source' = source \/ source' = [live |-> FALSE, api |-> FALSE]
        BY <1>1 DEF LoadConfig
      <4> QED BY <4>1, <4>2, <4>3
    <3>2. load' \in {"live", "fallback"}
      BY <1>1 DEF LoadConfig
    <3> QED BY <1>1, <3>1, <3>2 DEF LoadConfig
  <2> QED BY <2>1 DEF PageTyped, NoRunWithoutReport, Quiet, ShownIsCurrent, LiveLabelIsTrue
<1>2. CASE LoadLive
  <2>1. CASE load' = "done"
    <3>1. PICK handoff \in Published : Loaded("live", handoff, "live")
      BY <1>2, <2>1 DEF LoadLive
    <3> QED BY <1>2, <2>1, <3>1, LoadedPage DEF LoadLive
  <2>2. CASE load' # "done"
    BY <1>2, <2>2 DEF LoadLive, PageTyped, NoRunWithoutReport, Quiet, ShownIsCurrent,
                      LiveLabelIsTrue
  <2> QED BY <2>1, <2>2
<1>3. CASE LoadFallback
  <2>1. CASE source.api
    <3> DEFINE rep == [mode |-> "fixture", handoff |-> Fixture]
    <3>1. rep \in Reports
      BY DEF Reports
    <3>2. /\ report' = rep /\ screen' = [screen EXCEPT !.label = "fixture"]
          /\ load' = "probe" /\ report = NoReport
          /\ UNCHANGED <<completed, source, ready, runs>>
      BY <1>3, <2>1 DEF LoadFallback
    <3> HIDE DEF rep
    <3>3. "fixture" \in Labels /\ ready' \in BOOLEAN
          /\ runs' \in [Slots -> {"idle", "first_delay", "posted", "second_delay"}]
      BY <3>2 DEF Labels, PageTyped
    <3> QED BY <3>1, <3>2, <3>3, LabelledPage
  <2>2. CASE ~source.api
    BY <1>3, <2>2, LoadedPage DEF LoadFallback
  <2> QED BY <2>1, <2>2
<1>4. CASE LoadFails
  <2>1. /\ load = "fallback" /\ load' = "failed" /\ report = NoReport /\ report' = NoReport
        /\ screen' = [screen EXCEPT !.enabled = FALSE, !.label = "none"]
        /\ UNCHANGED <<source, ready, completed, runs>>
    BY <1>4 DEF LoadFails
  <2> DEFINE off == [screen EXCEPT !.enabled = FALSE]
  <2>2. off \in Screens /\ ~off.enabled /\ off.results = screen.results
    BY DEF PageTyped, Screens
  <2>3. screen' = [off EXCEPT !.label = "none"]
    BY <2>1
  <2> HIDE DEF off
  <2>4. screen' \in Screens /\ screen'.label = "none" /\ ~screen'.enabled
        /\ screen'.results = screen.results
    <3>1. "none" \in Labels
      BY DEF Labels
    <3> QED BY <2>2, <2>3, <3>1, LabelledScreen
  <2>5. PageTyped' /\ NoRunWithoutReport'
    BY <2>1, <2>4 DEF PageTyped, NoRunWithoutReport, Quiet
  <2> QED BY <2>1, <2>4, <2>5 DEF ShownIsCurrent, LiveLabelIsTrue
<1>5. CASE ProbeReturns
  <2>1. PICK label \in {"ready", "fixture"} :
          screen' = Cleared([screen EXCEPT !.label = label], report)
    BY <1>5 DEF ProbeReturns
  <2>2. /\ load = "probe" /\ load' = "done" /\ completed' = {} /\ ready' \in BOOLEAN
        /\ UNCHANGED <<report, source, runs>>
    BY <1>5 DEF ProbeReturns
  <2>3. label \in Labels /\ screen \in Screens /\ label # "api" /\ label # "live"
    BY DEF Labels, PageTyped
  <2>4. screen' = Blank(label, report)
    BY <2>1, <2>3, ClearedScreen
  <2>5. PICK rep \in Reports \cup {NoReport} : report = rep
    BY DEF PageTyped
  <2> QED BY <2>2, <2>3, <2>4, <2>5, ClearedPage
<1> QED BY <1>1, <1>2, <1>3, <1>4, <1>5 DEF LoadStep

LEMMA ResetInv ==
    ASSUME PageInv, ClickReset
    PROVE  PageInv'
<1>1. PICK rep \in Reports \cup {NoReport}, label \in Labels :
        report = rep /\ screen.label = label
  BY DEF PageInv, PageTyped, Screens
<1>2. screen = [screen EXCEPT !.label = label]
  BY <1>1 DEF PageInv, PageTyped, Screens
<1>3. screen' = Cleared(screen, rep)
  BY <1>1 DEF ClickReset
<1>4. screen \in Screens
  BY DEF PageInv, PageTyped
<1>5. Cleared([screen EXCEPT !.label = label], rep) = Blank(label, rep)
  BY <1>4, ClearedScreen
<1>6. screen' = Blank(label, rep)
  BY <1>2, <1>3, <1>5
<1>7. /\ completed' = {} /\ UNCHANGED <<load, source, report, ready, runs>>
  BY DEF ClickReset
<1>8. (label = "api" => rep.mode = "api") /\ (label = "live" => rep.mode = "live")
  BY <1>1 DEF PageInv, LiveLabelIsTrue
<1>9. /\ load' \in {"config", "live", "fallback", "probe", "done", "failed"}
      /\ load' \in {"config", "live", "fallback"} => rep = NoReport
      /\ ready' \in BOOLEAN
  BY <1>1, <1>7 DEF PageInv, PageTyped
<1> QED BY <1>1, <1>6, <1>7, <1>8, <1>9, ClearedPage

LEMMA RunInv ==
    ASSUME ServerInv, PageInv, NEW r \in Slots, ClickRun(r) \/ RunStep(r)
    PROVE  PageInv'
<1> DEFINE Waits == {"idle", "first_delay", "posted", "second_delay"}
<1> USE Posted DEF PageInv
<1>1. runs \in [Slots -> Waits] /\ screen \in Screens
  BY DEF PageTyped
<1>2. ASSUME NEW at \in Waits, RunTo(r, at)
      PROVE  runs' \in [Slots -> Waits] /\ runs'[r] = at
  BY <1>1, <1>2 DEF RunTo
<1>3. /\ report \in Reports /\ report # NoReport
      /\ load \in {"probe", "done", "failed"}
  BY <1>1 DEF ClickRun, RunStep, Post, RunReturns, Populate, NoRunWithoutReport, Quiet, PageTyped
<1>4. CASE ClickRun(r)
  <2>1. /\ screen' \in Screens /\ screen'.label = screen.label
        /\ UNCHANGED <<load, source, report, ready, completed>>
    BY <1>1, <1>4 DEF ClickRun, Screens
  <2>2. runs' \in [Slots -> Waits] /\ ~Quiet'
    BY <1>2, <1>4 DEF ClickRun, Quiet
  <2> QED BY <1>3, <2>1, <2>2 DEF PageTyped, NoRunWithoutReport, ShownIsCurrent, LiveLabelIsTrue
<1>5. CASE Post(r)
  <2>1. UNCHANGED <<load, source, report, ready, completed, screen>>
    BY <1>5 DEF Post
  <2>2. runs' \in [Slots -> Waits] /\ ~Quiet'
    BY <1>2, <1>5 DEF Post, Quiet
  <2> QED BY <1>3, <2>1, <2>2 DEF PageTyped, NoRunWithoutReport, ShownIsCurrent, LiveLabelIsTrue
<1>6. CASE RunReturns(r)
  <2>1. runs' \in [Slots -> Waits] /\ ~Quiet'
    BY <1>2, <1>6 DEF RunReturns, Quiet
  <2>2. UNCHANGED <<load, source, completed>>
    BY <1>6 DEF RunReturns
  <2>3. "api" \in Labels /\ "unavailable" \in Labels
    BY DEF Labels
  <2>4. CASE calls[r].at = "answered"
    <3> DEFINE rep == [mode |-> "api", handoff |-> calls[r].report]
    <3>1. calls[r].report \in ApiHandoffs
      BY <2>4, Caller DEF ServerInv, CallsInv, GoodCall
    <3>2. rep \in Reports /\ rep.mode = "api"
      BY <3>1 DEF Reports
    <3>3. report' = rep /\ screen' = [screen EXCEPT !.label = "api"] /\ ready' = ready
      BY <1>6, <2>4 DEF RunReturns
    <3> HIDE DEF rep
    <3>4. ready' \in BOOLEAN /\ load' \in {"probe", "done", "failed"}
      BY <1>3, <2>2, <3>3 DEF PageTyped
    <3> QED BY <2>1, <2>2, <2>3, <3>2, <3>3, <3>4, LabelledPage
  <2>5. CASE calls[r].at # "answered"
    <3>1. report' = report /\ screen' = [screen EXCEPT !.label = "unavailable"] /\ ready' = FALSE
      BY <1>6, <2>5 DEF RunReturns
    <3>2. ready' \in BOOLEAN /\ load' \in {"probe", "done", "failed"}
      BY <1>3, <2>2, <3>1
    <3>3. PICK rep \in Reports : rep = report
      BY <1>3
    <3> QED BY <2>1, <2>2, <2>3, <3>1, <3>2, <3>3, LabelledPage
  <2> QED BY <2>4, <2>5
<1>7. CASE Populate(r)
  <2>1. UNCHANGED <<load, source, report, ready, completed>>
    BY <1>7 DEF Populate
  <2>2. runs' \in [Slots -> Waits]
    BY <1>2, <1>7 DEF Populate
  <2>3. PICK results \in Handoffs, list \in {NoList} \cup [Steps -> BOOLEAN] :
          /\ results = report.handoff
          /\ screen' = [screen EXCEPT !.results = results, !.list = list]
    <3>1. report.handoff \in Handoffs /\ Unmarked \in [Steps -> BOOLEAN]
      BY <1>3 DEF Unmarked
    <3> QED BY <1>7, <3>1 DEF Populate
  <2> DEFINE drawn == [screen EXCEPT !.results = results]
  <2>4. drawn \in Screens /\ drawn.label = screen.label /\ drawn.results = results
    BY <1>1 DEF Screens
  <2>5. screen' = [drawn EXCEPT !.list = list]
    BY <2>3
  <2> HIDE DEF drawn
  <2>6. screen' \in Screens /\ screen'.label = screen.label /\ screen'.results = results
    BY <2>4, <2>5 DEF Screens
  <2> QED BY <1>3, <2>1, <2>2, <2>3, <2>6
          DEF PageTyped, NoRunWithoutReport, ShownIsCurrent, LiveLabelIsTrue
<1> QED BY <1>4, <1>5, <1>6, <1>7 DEF RunStep

LEMMA CompleteInv ==
    ASSUME PageInv, NEW s \in Steps, CompleteStep(s)
    PROVE  PageInv'
<1>1. screen \in Screens /\ s \in DOMAIN screen.list
  BY DEF PageInv, PageTyped, CompleteStep
<1>2. screen.list \in [Steps -> BOOLEAN]
  BY <1>1 DEF Screens, NoList
<1>3. PICK list \in [Steps -> BOOLEAN], message \in BOOLEAN :
        screen' = [screen EXCEPT !.list = list, !.message = message]
  <2>1. [screen.list EXCEPT ![s] = TRUE] \in [Steps -> BOOLEAN]
    BY <1>2
  <2>2. (screen.message \/ completed' = Steps) \in BOOLEAN
    OBVIOUS
  <2> QED BY <2>1, <2>2 DEF CompleteStep
<1> DEFINE marked == [screen EXCEPT !.list = list]
<1>4. /\ marked \in Screens /\ marked.label = screen.label
      /\ marked.results = screen.results /\ marked.enabled = screen.enabled
  BY <1>1 DEF Screens
<1>5. screen' = [marked EXCEPT !.message = message]
  BY <1>3
<1> HIDE DEF marked
<1>6. /\ screen' \in Screens /\ screen'.label = screen.label
      /\ screen'.results = screen.results /\ screen'.enabled = screen.enabled
  BY <1>4, <1>5 DEF Screens
<1>7. completed' \in SUBSET Steps /\ UNCHANGED <<load, source, report, ready, runs>>
  BY DEF CompleteStep, PageInv, PageTyped
<1> QED BY <1>6, <1>7
        DEF PageInv, PageTyped, NoRunWithoutReport, Quiet, ShownIsCurrent, LiveLabelIsTrue

-----------------------------------------------------------------------------
(* The live demonstration as a whole.                                      *)

LEMMA DemoInit == Init => DemoInv
<1> SUFFICES ASSUME Init PROVE DemoInv
  OBVIOUS
<1> USE Times, Posted
<1>1. PICK v \in Visits : panel = v.panel /\ patient = v.patient /\ source \in v.sources
  BY DEF Init
<1>2. panel \in BOOLEAN /\ patient \in BOOLEAN /\ source \in [live : BOOLEAN, api : BOOLEAN]
  BY <1>1, LiveDemoAssumption
<1>3. ServerInv
  <2>1. CacheInv
    BY DEF Init, ServerInit, CacheInv, Empty, Identities
  <2>2. \A c : GoodCall(c, NoCall)
    BY DEF GoodCall, NoCall, Calls, Identities
  <2>3. CallsInv
    BY <2>2 DEF Init, ServerInit, CallsInv, GoodCall
  <2> QED BY <2>1, <2>3 DEF Init, ServerInit, ServerInv
<1>4. MonitorInv
  <2>1. ~PollUnderWay
    BY Caller DEF Init, ServerInit, PollUnderWay, NoCall
  <2> QED BY <1>2, <2>1 DEF Init, MonitorInit, MonitorInv, MonitorTyped, WatchInv, States, Phases
<1>5. PageInv
  <2>1. screen \in Screens
    BY DEF Init, PageInit, Screens, Labels
  <2> QED BY <1>2, <2>1 DEF Init, PageInit, PageInv, PageTyped, NoRunWithoutReport, Quiet,
                            ShownIsCurrent, LiveLabelIsTrue
<1> QED BY <1>2, <1>3, <1>4, <1>5 DEF DemoInv

LEMMA DemoStep == DemoInv /\ [Next]_<<vars, patient>> => DemoInv'
<1> SUFFICES ASSUME DemoInv, [Next]_<<vars, patient>> PROVE DemoInv'
  OBVIOUS
<1> USE DEF DemoInv
<1>1. CASE UNCHANGED <<vars, patient>>
  BY <1>1, ServerUntouched, MonitorUntouched, PageUntouched
     DEF vars, serverVars, monitorVars, pageVars, PollUnderWay
<1>2. CASE Browser /\ UNCHANGED patient
  <2>1. PageInv'
    BY <1>2, LoadInv, RunInv, ResetInv, CompleteInv DEF Browser
  <2> QED BY <1>2, <2>1, BrowserServer, BrowserMonitor
<1>3. CASE Network /\ UNCHANGED patient
  <2>1. UNCHANGED <<monitorVars, pageVars>>
    BY <1>3 DEF Network
  <2> QED BY <1>3, <2>1, NetworkInv, PollStays, MonitorUntouched, PageUntouched
<1>4. CASE Tick /\ UNCHANGED patient
  BY <1>4, ServerTickInv, MonitorTickInv, PageUntouched DEF Tick
<1>5. CASE MonitorStep /\ UNCHANGED <<pageVars, patient>>
  BY <1>5, MonitorServer, MonitorStepInv, PageUntouched
<1> QED BY <1>1, <1>2, <1>3, <1>4, <1>5 DEF Next

(* Server, monitor and page keep their invariant, whatever is deployed,     *)
(* lost, delayed or clicked (demo_api/standalone_server.py, docs/app.js,    *)
(* docs/live-monitor.js).                                                   *)
THEOREM DemoInvariant == Spec => []DemoInv
BY DemoInit, DemoStep, PTL DEF Spec

(* A host that the panel calls verified was identified no longer ago than   *)
(* the cache, the wait, an interval and a timeout allow (live-monitor.js).  *)
THEOREM RecentlyVerified == Spec => []VerifiedIsRecent
<1>1. DemoInv => VerifiedIsRecent
  BY Times DEF DemoInv, MonitorInv, MonitorTyped, WatchInv, VerifiedIsRecent
<1> QED BY <1>1, DemoInvariant, PTL

(* No run of the analysis is under way, or can be started, without a report *)
(* to draw (app.js: runAnalysis, resetDemo, loadReport).                    *)
THEOREM RunsHaveReports == Spec => []NoRunWithoutReport
<1>1. DemoInv => NoRunWithoutReport
  BY DEF DemoInv, PageInv
<1> QED BY <1>1, DemoInvariant, PTL

(* Once all runs have ended, the panel shows the report that the page holds *)
(* (app.js: populateReport, setApiReport).                                  *)
THEOREM ShownStaysCurrent == Spec => []ShownIsCurrent
<1>1. DemoInv => ShownIsCurrent
  BY DEF DemoInv, PageInv
<1> QED BY <1>1, DemoInvariant, PTL

(* The page calls its evidence live only when it is (app.js: setApiReport).  *)
THEOREM LabelsAreTrue == Spec => []LiveLabelIsTrue
<1>1. DemoInv => LiveLabelIsTrue
  BY DEF DemoInv, PageInv
<1> QED BY <1>1, DemoInvariant, PTL
=============================================================================
