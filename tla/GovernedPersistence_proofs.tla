----------------------- MODULE GovernedPersistence_proofs -----------------------
(***************************************************************************)
(* Proofs about GovernedPersistence, for every retry budget, watermark and *)
(* strategy, and for documents that take any number of messages.           *)
(***************************************************************************)
EXTENDS GovernedPersistence, FiniteSetTheorems, SequenceTheorems, TLAPS

\* A document that may still be executed has an attempt left for it: replacing
\* the strategy buys the one that "proceed" takes.
AttemptLeft == CanProceed => doc.attempt <= doc.budget + doc.revision

\* The recorded verification and its history stand together.
VerifiedOnce == doc.verified => proof # "none"

IInv ==
    /\ TypeOK
    /\ AttemptsBounded
    /\ AttemptLeft
    /\ VerifiedOnce
    /\ CompletionWasVerified

-----------------------------------------------------------------------------
(* What Record keeps and what it changes.                                  *)

\* Recording a message in a document gives a document.
LEMMA RecordType ==
    ASSUME doc \in Documents, NEW changed \in Documents,
           NEW message \in Messages, NEW o \in Observations,
           NEW next \in Messages \cup {None}
    PROVE  Record(message, o, changed, next) \in Documents
<1> DEFINE e == [message |-> message, before |-> doc.phase,
                 after |-> changed.phase, attempt |-> changed.attempt]
<1>1. e \in Entries
  BY DEF Documents, Entries
<1>2. Append(changed.history, e) \in Seq(Entries)
  BY <1>1 DEF Documents
<1>3. o.failure \in FailureClasses \cup {None}
  BY DEF Observations
<1> QED
  BY <1>2, <1>3 DEF Record, Documents

\* Recording a message leaves what the invariant speaks of as it was.
LEMMA RecordKeeps ==
    ASSUME NEW changed \in Documents, NEW message, NEW o, NEW next
    PROVE  LET d == Record(message, o, changed, next)
           IN  /\ d.phase = changed.phase
               /\ d.attempt = changed.attempt
               /\ d.budget = changed.budget
               /\ d.revision = changed.revision
               /\ d.verified = changed.verified
               /\ d.next = next
  BY DEF Record, Documents

-----------------------------------------------------------------------------
(* The inductive invariant.                                                *)

LEMMA InitIInv == Init => IInv
<1> SUFFICES ASSUME Init PROVE IInv
  OBVIOUS
<1> USE PersistenceAssumption DEF Init
<1>1. /\ doc.phase = "planned" /\ doc.attempt = 0 /\ doc.revision = 0
      /\ doc.budget \in Nat /\ doc.verified = FALSE
      /\ doc.next = "proceed"
  OBVIOUS
<1>2. <<>> \in Seq(Entries)
  OBVIOUS
<1>3. "planned" \in Phases /\ "proceed" \in Messages
  BY DEF Phases, Messages
<1>4. {FALSE} \subseteq BOOLEAN
  OBVIOUS
<1>5. doc \in Documents
  <2>1. doc.verified \in BOOLEAN /\ doc.granted \in BOOLEAN
    BY <1>4
  <2>2. doc.phase \in Phases /\ doc.next \in Messages /\ doc.history \in Seq(Entries)
    BY <1>2, <1>3
  <2>3. doc.attempt \in Nat /\ doc.revision \in Nat /\ doc.budget \in Budgets
    OBVIOUS
  <2>4. doc.strategy \in Strategies /\ doc.watermark = None /\ doc.failure = None
    OBVIOUS
  <2>5. doc = [phase |-> doc.phase, attempt |-> doc.attempt, budget |-> doc.budget,
               strategy |-> doc.strategy, revision |-> doc.revision,
               watermark |-> doc.watermark, verified |-> doc.verified,
               granted |-> doc.granted, failure |-> doc.failure,
               next |-> doc.next, history |-> doc.history]
    OBVIOUS
  <2> QED
    BY <2>1, <2>2, <2>3, <2>4, <2>5 DEF Documents
<1> QED
  BY <1>1, <1>5 DEF IInv, TypeOK, AttemptsBounded, AttemptLeft, CanProceed, VerifiedOnce,
              CompletionWasVerified

\* Any step that records a message, given what it changes in the document.
LEMMA RecordStep ==
    ASSUME IInv, NEW o \in Observations, NEW message \in Messages,
           NEW next \in Messages \cup {None}, NEW changed \in Documents,
           doc' = Record(message, o, changed, next),
           proof' \in {"none", "current", "outdated"},
           changed.attempt <= changed.budget + 1 + changed.revision,
           changed.phase \in {"planned", "awaiting_human", "blocked"}
               => changed.attempt <= changed.budget + changed.revision,
           changed.verified => proof' # "none",
           changed.phase = "completed" => changed.verified,
           next = "complete" => proof' = "current"
    PROVE  IInv'
<1>1. doc' \in Documents
  BY RecordType DEF IInv, TypeOK
<1>2. /\ doc'.phase = changed.phase
      /\ doc'.attempt = changed.attempt
      /\ doc'.budget = changed.budget
      /\ doc'.revision = changed.revision
      /\ doc'.verified = changed.verified
      /\ doc'.next = next
  BY RecordKeeps
<1> QED
  BY <1>1, <1>2 DEF IInv, TypeOK, AttemptsBounded, AttemptLeft, CanProceed,
                    VerifiedOnce, CompletionWasVerified

\* Every message, and the grant of a rollback, keeps the inductive invariant.
LEMMA NextIInv ==
    ASSUME IInv, [Next]_vars
    PROVE  IInv'
<1> USE PersistenceAssumption
<1>0. /\ doc \in Documents
      /\ doc.attempt \in Nat /\ doc.revision \in Nat /\ doc.budget \in Nat
      /\ proof \in {"none", "current", "outdated"}
      /\ doc.phase \in Phases /\ doc.verified \in BOOLEAN
  BY DEF IInv, TypeOK, Documents
<1>1. ASSUME NEW o \in Observations, Proceed(o)
      PROVE  IInv'
  <2> DEFINE changed == [doc EXCEPT !.phase = "acting", !.attempt = @ + 1]
  <2>0. doc.attempt + 1 \in Nat
    BY <1>0
  <2>1. changed \in Documents
    BY <2>0, <1>0 DEF Documents, Phases
  <2>2. /\ changed.attempt = doc.attempt + 1 /\ changed.phase = "acting"
        /\ changed.budget = doc.budget /\ changed.revision = doc.revision
        /\ changed.verified = doc.verified
    BY <1>0 DEF Documents
  <2>3. doc.attempt <= doc.budget + doc.revision
    BY <1>1 DEF Proceed, IInv, AttemptLeft
  <2>4. doc' = Record("proceed", o, changed, "verify")
    BY <1>1 DEF Proceed
  <2>5. /\ proof' \in {"none", "current", "outdated"}
        /\ doc.verified => proof' # "none"
    BY <1>0, <1>1 DEF Proceed, Outdate, IInv, VerifiedOnce
  <2> HIDE DEF changed
  <2> QED
    BY <1>0, <2>1, <2>2, <2>3, <2>4, <2>5, RecordStep DEF Messages
<1>2. ASSUME NEW o \in Observations, Fix(o)
      PROVE  IInv'
  <2> DEFINE changed == [doc EXCEPT !.phase = "acting", !.attempt = @ + 1]
  <2>0. doc.attempt + 1 \in Nat
    BY <1>0
  <2>1. changed \in Documents
    BY <2>0, <1>0 DEF Documents, Phases
  <2>2. /\ changed.attempt = doc.attempt + 1 /\ changed.phase = "acting"
        /\ changed.budget = doc.budget /\ changed.revision = doc.revision
        /\ changed.verified = doc.verified
    BY <1>0 DEF Documents
  <2>3. doc.attempt < doc.budget + 1
    BY <1>2 DEF Fix, CanFix
  <2>4. doc' = Record("fix", o, changed, "verify")
    BY <1>2 DEF Fix
  <2>5. /\ proof' \in {"none", "current", "outdated"}
        /\ doc.verified => proof' # "none"
    BY <1>0, <1>2 DEF Fix, Outdate, IInv, VerifiedOnce
  <2> HIDE DEF changed
  <2> QED
    BY <1>0, <2>1, <2>2, <2>3, <2>4, <2>5, RecordStep DEF Messages
<1>3. ASSUME NEW o \in Observations, SyncWithReality(o)
      PROVE  IInv'
  <2> DEFINE changed == [doc EXCEPT !.phase = "synchronizing",
                                    !.watermark = o.watermark]
             next == IF o.failure = "strategy_failure" THEN "restrategize"
                     ELSE "verify"
  <2>1. changed \in Documents /\ next \in Messages /\ next # "complete"
    BY <1>0 DEF Documents, Phases, Observations, Messages
  <2>2. /\ changed.attempt = doc.attempt /\ changed.phase = "synchronizing"
        /\ changed.budget = doc.budget /\ changed.revision = doc.revision
        /\ changed.verified = doc.verified
    BY <1>0 DEF Documents
  <2>3. doc' = Record("sync_with_reality", o, changed, next) /\ proof' = proof
    BY <1>3 DEF SyncWithReality
  <2>4. /\ doc.attempt <= doc.budget + 1 + doc.revision
        /\ doc.verified => proof # "none"
    BY DEF IInv, AttemptsBounded, VerifiedOnce
  <2> HIDE DEF changed, next
  <2> QED
    BY <1>0, <2>1, <2>2, <2>3, <2>4, RecordStep DEF Messages
<1>4. ASSUME NEW o \in Observations, Restrategize(o)
      PROVE  IInv'
  <2> DEFINE changed == [doc EXCEPT !.phase = "planned", !.strategy = o.strategy,
                                    !.revision = @ + 1]
  <2>0. doc.revision + 1 \in Nat /\ o.strategy \in Strategies
    BY <1>0, <1>4 DEF Restrategize, Observations
  <2>1. changed \in Documents
    BY <2>0, <1>0 DEF Documents, Phases
  <2>2. /\ changed.attempt = doc.attempt /\ changed.phase = "planned"
        /\ changed.budget = doc.budget /\ changed.revision = doc.revision + 1
        /\ changed.verified = doc.verified
    BY <1>0 DEF Documents
  <2>3. doc' = Record("restrategize", o, changed, "proceed") /\ proof' = proof
    BY <1>4 DEF Restrategize
  <2>4. /\ doc.attempt <= doc.budget + 1 + doc.revision
        /\ doc.verified => proof # "none"
    BY DEF IInv, AttemptsBounded, VerifiedOnce
  <2> HIDE DEF changed
  <2> QED
    BY <1>0, <2>1, <2>2, <2>3, <2>4, RecordStep DEF Messages
<1>5. ASSUME NEW o \in Observations, Verify(o)
      PROVE  IInv'
  <2> DEFINE changed == [doc EXCEPT !.phase = "verifying", !.verified = o.verified]
             next == IF o.verified THEN "complete" ELSE "fix"
  <2>1. /\ changed \in Documents /\ next \in Messages
        /\ next = "complete" => o.verified
    BY <1>0 DEF Documents, Phases, Observations, Messages
  <2>2. /\ changed.attempt = doc.attempt /\ changed.phase = "verifying"
        /\ changed.budget = doc.budget /\ changed.revision = doc.revision
        /\ changed.verified = o.verified
    BY <1>0 DEF Documents
  <2>3. /\ doc' = Record("verify", o, changed, next)
        /\ proof' = IF o.verified THEN "current" ELSE "none"
    BY <1>5 DEF Verify
  <2>4. doc.attempt <= doc.budget + 1 + doc.revision
    BY DEF IInv, AttemptsBounded
  <2> HIDE DEF changed, next
  <2> QED
    BY <1>0, <2>1, <2>2, <2>3, <2>4, RecordStep DEF Messages
<1>6. ASSUME NEW o \in Observations, Rollback(o)
      PROVE  IInv'
  <2> DEFINE changed == [doc EXCEPT !.phase = "rolling_back"]
  <2>1. changed \in Documents
    BY <1>0 DEF Documents, Phases
  <2>2. /\ changed.attempt = doc.attempt /\ changed.phase = "rolling_back"
        /\ changed.budget = doc.budget /\ changed.revision = doc.revision
        /\ changed.verified = doc.verified
    BY <1>0 DEF Documents
  <2>3. doc' = Record("rollback", o, changed, "verify")
    BY <1>6 DEF Rollback
  <2>4. /\ doc.attempt <= doc.budget + 1 + doc.revision
        /\ proof' \in {"none", "current", "outdated"}
        /\ doc.verified => proof' # "none"
    BY <1>0, <1>6 DEF Rollback, Outdate, IInv, VerifiedOnce, AttemptsBounded
  <2> HIDE DEF changed
  <2> QED
    BY <1>0, <2>1, <2>2, <2>3, <2>4, RecordStep DEF Messages
<1>7. ASSUME NEW o \in Observations, Escalate(o)
      PROVE  IInv'
  <2> DEFINE changed == [doc EXCEPT !.phase = "escalated"]
  <2>1. changed \in Documents
    BY <1>0 DEF Documents, Phases, TerminalPhases
  <2>2. /\ changed.attempt = doc.attempt /\ changed.phase = "escalated"
        /\ changed.budget = doc.budget /\ changed.revision = doc.revision
        /\ changed.verified = doc.verified
    BY <1>0 DEF Documents
  <2>3. doc' = Record("escalate", o, changed, None) /\ proof' = proof
    BY <1>7 DEF Escalate
  <2>4. /\ doc.attempt <= doc.budget + 1 + doc.revision
        /\ doc.verified => proof # "none"
    BY DEF IInv, AttemptsBounded, VerifiedOnce
  <2> HIDE DEF changed
  <2> QED
    BY <1>0, <2>1, <2>2, <2>3, <2>4, RecordStep DEF Messages
<1>8. ASSUME NEW o \in Observations, Complete(o)
      PROVE  IInv'
  <2> DEFINE changed == [doc EXCEPT !.phase = "completed", !.verified = TRUE]
  <2>1. changed \in Documents
    BY <1>0 DEF Documents, Phases, TerminalPhases
  <2>2. /\ changed.attempt = doc.attempt /\ changed.phase = "completed"
        /\ changed.budget = doc.budget /\ changed.revision = doc.revision
        /\ changed.verified
    BY <1>0 DEF Documents
  <2>3. doc' = Record("complete", o, changed, None)
    BY <1>8 DEF Complete
  <2>4. /\ doc.attempt <= doc.budget + 1 + doc.revision
        /\ proof' \in {"none", "current", "outdated"}
        /\ proof' # "none"
    BY <1>0, <1>8 DEF Complete, CanComplete, IInv, VerifiedOnce, AttemptsBounded
  <2> HIDE DEF changed
  <2> QED
    BY <1>0, <2>1, <2>2, <2>3, <2>4, RecordStep DEF Messages
<1>9. CASE GrantRollback
  <2>1. doc' \in Documents
    BY <1>0, <1>9 DEF GrantRollback, Documents
  <2>2. /\ doc'.phase = doc.phase /\ doc'.attempt = doc.attempt
        /\ doc'.budget = doc.budget /\ doc'.revision = doc.revision
        /\ doc'.verified = doc.verified /\ proof' = proof
        /\ doc'.next = doc.next
    BY <1>0, <1>9 DEF GrantRollback, Documents
  <2> QED
    BY <2>1, <2>2 DEF IInv, TypeOK, AttemptsBounded, AttemptLeft, CanProceed,
                      VerifiedOnce, CompletionWasVerified
<1>10. CASE UNCHANGED vars
  BY <1>10 DEF vars, IInv, TypeOK, AttemptsBounded, AttemptLeft, CanProceed,
               VerifiedOnce, CompletionWasVerified
<1> QED
  BY <1>1, <1>2, <1>3, <1>4, <1>5, <1>6, <1>7, <1>8, <1>9, <1>10 DEF Next

-----------------------------------------------------------------------------
(* Safety.                                                                 *)

\* The inductive invariant holds throughout.
THEOREM PersistenceInvariant == Spec => []IInv
<1>1. IInv /\ [Next]_vars => IInv'
  BY NextIInv
<1> QED
  BY InitIInv, <1>1, PTL DEF Spec

\* The document keeps its type, whatever messages are applied to it.
THEOREM DocumentType == Spec => []TypeOK
<1>1. IInv => TypeOK
  BY DEF IInv
<1> QED
  BY <1>1, PersistenceInvariant, PTL

\* The retry budget, counted once more for each replaced strategy, bounds the
\* attempts of proceed and fix together.
THEOREM BudgetBoundsAttempts == Spec => []AttemptsBounded
<1>1. IInv => AttemptsBounded
  BY DEF IInv
<1> QED
  BY <1>1, PersistenceInvariant, PTL

\* No document is completed without a verification that was not denied since,
\* and none recommends its completion on an outdated one.
THEOREM CompletedWasVerified == Spec => []CompletionWasVerified
<1>1. IInv => CompletionWasVerified
  BY DEF IInv
<1> QED
  BY <1>1, PersistenceInvariant, PTL

\* A completed or escalated document is never touched again.
THEOREM TerminalStays == Spec => TerminalIsFinal
<1>1. [Next]_vars => [doc.phase \notin TerminalPhases]_doc
  BY DEF Next, vars, Proceed, Fix, SyncWithReality, Restrategize, Verify,
         Rollback, Escalate, Complete, GrantRollback, Open
<1> QED
  BY <1>1, PTL DEF Spec, TerminalIsFinal

-----------------------------------------------------------------------------
(* The audit trail.                                                        *)

At(h, i) == IF i = 0 THEN "planned" ELSE h[i].after

Chained(h) == \A i \in DOMAIN h : h[i].before = At(h, i - 1)

Counted(h, message) == Cardinality({i \in DOMAIN h : h[i].message = message})

\* What an entry at the end of a trail adds to it.
LEMMA AppendEntry ==
    ASSUME NEW h \in Seq(Entries), NEW e \in Entries, Chained(h),
           e.before = At(h, Len(h))
    PROVE  /\ Chained(Append(h, e))
           /\ At(Append(h, e), Len(Append(h, e))) = e.after
           /\ \A message :
                /\ Counted(h, message) \in Nat
                /\ Counted(Append(h, e), message) =
                     Counted(h, message) + IF e.message = message THEN 1 ELSE 0
<1> DEFINE g == Append(h, e)
<1>1. /\ Len(h) \in Nat /\ Len(g) = Len(h) + 1
      /\ DOMAIN h = 1..Len(h) /\ DOMAIN g = 1..(Len(h) + 1)
      /\ g[Len(h) + 1] = e
      /\ \A i \in 1..Len(h) : g[i] = h[i]
  BY AppendProperties, LenProperties
<1> HIDE DEF g
<1>2. ASSUME NEW i \in DOMAIN g PROVE g[i].before = At(g, i - 1)
  <2>1. CASE i \in 1..Len(h)
    <3>1. g[i] = h[i] /\ h[i].before = At(h, i - 1)
      BY <1>1, <2>1 DEF Chained
    <3>2. i - 1 = 0 \/ i - 1 \in 1..Len(h)
      BY <1>1, <2>1
    <3>3. At(g, i - 1) = At(h, i - 1)
      BY <1>1, <3>2 DEF At
    <3> QED BY <3>1, <3>3
  <2>2. CASE i = Len(h) + 1
    <3>1. g[i] = e /\ i - 1 = Len(h)
      BY <1>1, <2>2
    <3>2. At(g, Len(h)) = At(h, Len(h))
      BY <1>1 DEF At
    <3> QED BY <3>1, <3>2
  <2> QED BY <1>1, <1>2, <2>1, <2>2
<1>3. At(g, Len(g)) = e.after
  BY <1>1 DEF At
<1>4. ASSUME NEW message
      PROVE  /\ Counted(h, message) \in Nat
             /\ Counted(g, message) = Counted(h, message) + IF e.message = message THEN 1 ELSE 0
  <2> DEFINE S == {i \in DOMAIN h : h[i].message = message}
             T == {i \in DOMAIN g : g[i].message = message}
  <2>0. Counted(h, message) = Cardinality(S) /\ Counted(g, message) = Cardinality(T)
    BY DEF Counted
  <2>1. IsFiniteSet(S)
    <3>1. S \subseteq 1..Len(h) /\ IsFiniteSet(1..Len(h))
      BY <1>1, FS_Interval
    <3> QED BY <3>1, FS_Subset
  <2>2. Cardinality(S) \in Nat
    BY <2>1, FS_CardinalityType
  <2>3. CASE e.message = message
    <3>1. T = S \cup {Len(h) + 1} /\ Len(h) + 1 \notin S
      BY <1>1, <2>3
    <3>2. Cardinality(T) = Cardinality(S) + 1
      BY <2>1, <3>1, FS_AddElement
    <3> HIDE DEF S, T
    <3> QED BY <2>0, <2>2, <2>3, <3>2
  <2>4. CASE e.message # message
    <3>1. T = S
      BY <1>1, <2>4
    <3> HIDE DEF S, T
    <3> QED BY <2>0, <2>2, <2>4, <3>1
  <2> QED BY <2>3, <2>4
<1> QED BY <1>2, <1>3, <1>4 DEF g, Chained

\* The trail of a document, as AuditTrailExplains states it.
LEMMA TrailOfDocument ==
    AuditTrailExplains <=>
      /\ Chained(doc.history)
      /\ doc.phase = At(doc.history, Len(doc.history))
      /\ doc.attempt = Counted(doc.history, "proceed") + Counted(doc.history, "fix")
      /\ doc.revision = Counted(doc.history, "restrategize")
  BY DEF AuditTrailExplains, Chained, At, Count, Counted

\* A message whose changes its entry accounts for keeps the trail complete.
LEMMA RecordExplains ==
    ASSUME doc \in Documents, AuditTrailExplains,
           NEW o, NEW message \in Messages, NEW next, NEW changed \in Documents,
           doc' = Record(message, o, changed, next),
           changed.history = doc.history,
           changed.attempt = doc.attempt + (IF message \in {"proceed", "fix"} THEN 1 ELSE 0),
           changed.revision = doc.revision + (IF message = "restrategize" THEN 1 ELSE 0)
    PROVE  AuditTrailExplains'
<1> DEFINE h == doc.history
           e == [message |-> message, before |-> doc.phase,
                 after |-> changed.phase, attempt |-> changed.attempt]
<1>1. /\ h \in Seq(Entries) /\ e \in Entries
      /\ Chained(h) /\ e.before = At(h, Len(h))
      /\ doc.attempt = Counted(h, "proceed") + Counted(h, "fix")
      /\ doc.revision = Counted(h, "restrategize")
  BY TrailOfDocument DEF Documents, Entries
<1>2. /\ doc'.history = Append(h, e)
      /\ doc'.phase = e.after /\ doc'.attempt = changed.attempt /\ doc'.revision = changed.revision
  BY DEF Record, Documents
<1>3. e.message = message
  OBVIOUS
<1> HIDE DEF e, h
<1> DEFINE g == Append(h, e)
<1>4. /\ Chained(g) /\ At(g, Len(g)) = e.after
      /\ \A m : /\ Counted(h, m) \in Nat
                /\ Counted(g, m) = Counted(h, m) + IF e.message = m THEN 1 ELSE 0
  BY <1>1, AppendEntry
<1> HIDE DEF g
<1>5. /\ doc'.attempt = Counted(g, "proceed") + Counted(g, "fix")
      /\ doc'.revision = Counted(g, "restrategize")
  BY <1>1, <1>2, <1>3, <1>4
<1>6. doc'.history = g
  BY <1>2 DEF g
<1> QED BY <1>2, <1>4, <1>5, <1>6 DEF AuditTrailExplains, Chained, At, Count, Counted

LEMMA InitExplains == Init => AuditTrailExplains
<1> SUFFICES ASSUME Init PROVE AuditTrailExplains
  OBVIOUS
<1>1. /\ doc.history = <<>> /\ doc.phase = "planned" /\ doc.attempt = 0 /\ doc.revision = 0
  BY DEF Init
<1>2. Chained(<<>>) /\ At(<<>>, Len(<<>>)) = "planned"
  BY DEF Chained, At
<1>3. \A m : Counted(<<>>, m) = 0
  <2>1. \A m : {i \in DOMAIN <<>> : <<>>[i].message = m} = {}
    OBVIOUS
  <2> QED BY <2>1, FS_EmptySet DEF Counted
<1> QED BY <1>1, <1>2, <1>3, TrailOfDocument

LEMMA NextExplains ==
    ASSUME IInv, AuditTrailExplains, [Next]_vars
    PROVE  AuditTrailExplains'
<1> USE PersistenceAssumption
<1>0. doc \in Documents /\ doc.attempt \in Nat /\ doc.revision \in Nat
  BY DEF IInv, TypeOK, Documents
<1>1. ASSUME NEW o \in Observations, Proceed(o) \/ Fix(o)
      PROVE  AuditTrailExplains'
  <2> DEFINE changed == [doc EXCEPT !.phase = "acting", !.attempt = @ + 1]
  <2>0. doc.attempt + 1 \in Nat
    BY <1>0
  <2>1. changed \in Documents
    BY <1>0, <2>0 DEF Documents, Phases
  <2>2. /\ changed.history = doc.history /\ changed.attempt = doc.attempt + 1
        /\ changed.revision = doc.revision
    BY <1>0 DEF Documents
  <2>3. PICK m \in {"proceed", "fix"} : doc' = Record(m, o, changed, "verify")
    BY <1>1 DEF Proceed, Fix
  <2> HIDE DEF changed
  <2>4. /\ m \in Messages
        /\ changed.attempt = doc.attempt + (IF m \in {"proceed", "fix"} THEN 1 ELSE 0)
        /\ changed.revision = doc.revision + (IF m = "restrategize" THEN 1 ELSE 0)
    BY <1>0, <2>2 DEF Messages
  <2> QED BY <1>0, <2>1, <2>2, <2>3, <2>4, RecordExplains
<1>2. ASSUME NEW o \in Observations, Restrategize(o)
      PROVE  AuditTrailExplains'
  <2> DEFINE changed == [doc EXCEPT !.phase = "planned", !.strategy = o.strategy,
                                    !.revision = @ + 1]
             m == "restrategize"
  <2>0. doc.revision + 1 \in Nat /\ o.strategy \in Strategies
    BY <1>0, <1>2 DEF Restrategize, Observations
  <2>1. changed \in Documents
    BY <1>0, <2>0 DEF Documents, Phases
  <2>2. /\ changed.history = doc.history /\ changed.attempt = doc.attempt
        /\ changed.revision = doc.revision + 1
    BY <1>0 DEF Documents
  <2>3. doc' = Record(m, o, changed, "proceed")
    BY <1>2 DEF Restrategize
  <2> HIDE DEF changed
  <2>4. /\ m \in Messages
        /\ changed.attempt = doc.attempt + (IF m \in {"proceed", "fix"} THEN 1 ELSE 0)
        /\ changed.revision = doc.revision + (IF m = "restrategize" THEN 1 ELSE 0)
    BY <1>0, <2>2 DEF Messages
  <2> HIDE DEF m
  <2> QED BY <1>0, <2>1, <2>2, <2>3, <2>4, RecordExplains
<1>3. ASSUME NEW message \in Messages \ {"proceed", "fix", "restrategize"}, NEW o, NEW next,
             NEW changed \in Documents,
             changed.history = doc.history, changed.attempt = doc.attempt,
             changed.revision = doc.revision,
             doc' = Record(message, o, changed, next)
      PROVE  AuditTrailExplains'
  BY <1>0, <1>3, RecordExplains
<1>4. ASSUME NEW o \in Observations, SyncWithReality(o)
      PROVE  AuditTrailExplains'
  <2> DEFINE changed == [doc EXCEPT !.phase = "synchronizing", !.watermark = o.watermark]
             next == IF o.failure = "strategy_failure" THEN "restrategize" ELSE "verify"
  <2>1. /\ changed \in Documents /\ changed.history = doc.history
        /\ changed.attempt = doc.attempt /\ changed.revision = doc.revision
    BY <1>0 DEF Documents, Phases, Observations
  <2>2. doc' = Record("sync_with_reality", o, changed, next)
    BY <1>4 DEF SyncWithReality
  <2> HIDE DEF changed, next
  <2> QED BY <1>3, <2>1, <2>2 DEF Messages
<1>5. ASSUME NEW o \in Observations, Verify(o)
      PROVE  AuditTrailExplains'
  <2> DEFINE changed == [doc EXCEPT !.phase = "verifying", !.verified = o.verified]
             next == IF o.verified THEN "complete" ELSE "fix"
  <2>1. /\ changed \in Documents /\ changed.history = doc.history
        /\ changed.attempt = doc.attempt /\ changed.revision = doc.revision
    BY <1>0 DEF Documents, Phases, Observations
  <2>2. doc' = Record("verify", o, changed, next)
    BY <1>5 DEF Verify
  <2> HIDE DEF changed, next
  <2> QED BY <1>3, <2>1, <2>2 DEF Messages
<1>6. ASSUME NEW o \in Observations, Rollback(o)
      PROVE  AuditTrailExplains'
  <2> DEFINE changed == [doc EXCEPT !.phase = "rolling_back"]
  <2>1. /\ changed \in Documents /\ changed.history = doc.history
        /\ changed.attempt = doc.attempt /\ changed.revision = doc.revision
    BY <1>0 DEF Documents, Phases
  <2>2. doc' = Record("rollback", o, changed, "verify")
    BY <1>6 DEF Rollback
  <2> HIDE DEF changed
  <2> QED BY <1>3, <2>1, <2>2 DEF Messages
<1>7. ASSUME NEW o \in Observations, Escalate(o)
      PROVE  AuditTrailExplains'
  <2> DEFINE changed == [doc EXCEPT !.phase = "escalated"]
  <2>1. /\ changed \in Documents /\ changed.history = doc.history
        /\ changed.attempt = doc.attempt /\ changed.revision = doc.revision
    BY <1>0 DEF Documents, Phases, TerminalPhases
  <2>2. doc' = Record("escalate", o, changed, None)
    BY <1>7 DEF Escalate
  <2> HIDE DEF changed
  <2> QED BY <1>3, <2>1, <2>2 DEF Messages
<1>8. ASSUME NEW o \in Observations, Complete(o)
      PROVE  AuditTrailExplains'
  <2> DEFINE changed == [doc EXCEPT !.phase = "completed", !.verified = TRUE]
  <2>1. /\ changed \in Documents /\ changed.history = doc.history
        /\ changed.attempt = doc.attempt /\ changed.revision = doc.revision
    BY <1>0 DEF Documents, Phases, TerminalPhases
  <2>2. doc' = Record("complete", o, changed, None)
    BY <1>8 DEF Complete
  <2> HIDE DEF changed
  <2> QED BY <1>3, <2>1, <2>2 DEF Messages
<1>9. ASSUME doc'.history = doc.history, doc'.phase = doc.phase,
             doc'.attempt = doc.attempt, doc'.revision = doc.revision
      PROVE  AuditTrailExplains'
  BY <1>9 DEF AuditTrailExplains, Count
<1>10. CASE GrantRollback
  BY <1>0, <1>9, <1>10 DEF GrantRollback, Documents
<1>11. CASE UNCHANGED vars
  BY <1>9, <1>11 DEF vars
<1> QED
  BY <1>1, <1>2, <1>4, <1>5, <1>6, <1>7, <1>8, <1>10, <1>11 DEF Next

\* The audit trail explains the document, however many messages it took and
\* for every budget, watermark and strategy.
THEOREM TrailExplains == Spec => []AuditTrailExplains
<1>1. IInv /\ AuditTrailExplains /\ [Next]_vars => AuditTrailExplains'
  BY NextExplains
<1> QED
  BY InitExplains, <1>1, PersistenceInvariant, PTL DEF Spec
=============================================================================
