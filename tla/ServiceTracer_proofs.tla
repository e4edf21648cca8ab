-------------------------- MODULE ServiceTracer_proofs --------------------------
(***************************************************************************)
(* Proofs about the evidence path of servicetracer.  The first part: for   *)
(* any clients, batches and faults, what the spool's file may hold, and    *)
(* that the spool implements the write-once store of EvidenceLog.  The     *)
(* second part: for any service path, any number of backends and           *)
(* transactions, any stray records and no bound on evidence but the        *)
(* model's, what is assembled from lossy, late and repeated evidence is    *)
(* true, once learned it is not revised, and what the report says of the   *)
(* suspect, of the drain and of the probes is so.                          *)
(***************************************************************************)
EXTENDS JsonlSpool, IncidentInvestigation, SequenceTheorems, FiniteSetTheorems,
        WellFoundedInduction, TLAPS

-----------------------------------------------------------------------------
(* The spool (JsonlSpool).                                                 *)

Texts == Record \cup {Garbled}

(* The type of the state. *)
SpoolTyped ==
    /\ batch \in [Clients -> Offers]
    /\ pc \in [Clients -> Phases]
    /\ todo \in [Clients -> SUBSET Nat]
    /\ lock \in Clients \cup {None}
    /\ lines \in Seq(Texts)
    /\ tail \in Texts \cup {Empty}
    /\ durable \in [lines : Seq(Texts), tail : Texts \cup {Empty}]
    /\ acked \in SUBSET Record
    /\ faults.kinds \in SUBSET Faults

(* The lock is held exactly by the client in the critical section.         *)
LockHeld == \A c \in Clients : pc[c] \in Holding <=> lock = c

(* What is past the front end is a batch of records.                       *)
FrontDoor == \A c \in Clients : pc[c] \in InFlight => ~Refused(c)

(* A writer has something left to write, and nobody else has.              *)
TodoLeft ==
    \A c \in Clients :
        /\ pc[c] \in {"writing", "newline"} <=> todo[c] # {}
        /\ todo[c] \subseteq DOMAIN batch[c]

(* What a writer still has to write contradicts nothing in the file, nor   *)
(* anything else it has to write, and is not in the file, its unfinished   *)
(* line aside.                                                             *)
Unwritten(c) == IF pc[c] = "newline" THEN todo[c] \ {Foremost(todo[c])} ELSE todo[c]

WriterChecked ==
    \A c \in Clients : \A i \in todo[c] :
        /\ \A r \in Readable : SameIdentity(batch[c][i], r) => batch[c][i] = r
        /\ \A j \in todo[c] : i # j => ~SameIdentity(batch[c][i], batch[c][j])
        /\ i \in Unwritten(c) => batch[c][i] \notin Entries

UnfinishedLine ==
    \A c \in Clients :
        pc[c] = "newline" => tail \in {batch[c][Foremost(todo[c])], Garbled}

(* Without a torn write the file is whole lines, but for the line that is  *)
(* being written.                                                          *)
Untorn ==
    "tear" \notin faults.kinds =>
        /\ Garbled \notin Entries
        /\ \A c \in Clients : pc[c] = "newline" => tail = batch[c][Foremost(todo[c])]
        /\ tail = Empty \/ \E c \in Clients : pc[c] = "newline"

(* Every record of a batch is in the file or still to be written.          *)
BatchCovered ==
    "tear" \notin faults.kinds =>
        /\ \A c \in Clients :
               pc[c] \in {"writing", "newline", "sync"} =>
                   Members(batch[c]) \subseteq Members(lines) \cup {batch[c][i] : i \in todo[c]}
        /\ \A c \in Clients : pc[c] = "reply" => Members(batch[c]) \subseteq Members(lines)

(* What was synced is a prefix of the file.                                *)
SyncedPrefix ==
    /\ Len(durable.lines) <= Len(lines)
    /\ \A i \in 1..Len(durable.lines) : durable.lines[i] = lines[i]

(* As long as no write was interrupted, all that is not being written is   *)
(* synced.                                                                 *)
Uninterrupted == faults.kinds \subseteq {"power", "lost_reply"}

AllSynced ==
    Uninterrupted =>
        /\ (\A c \in Clients : pc[c] \notin {"writing", "newline", "sync"})
               => durable.lines = lines
        /\ \A c \in Clients : pc[c] = "reply" => Members(batch[c]) \subseteq Members(durable.lines)
        /\ acked \subseteq Members(durable.lines)

SpoolInv ==
    /\ SpoolTyped /\ LockHeld /\ FrontDoor /\ TodoLeft
    /\ WriterChecked /\ UnfinishedLine /\ Untorn /\ BatchCovered
    /\ OneContentPerIdentity /\ NoSecondCopy
    /\ SyncedPrefix /\ AllSynced

-----------------------------------------------------------------------------
(* The operators of the model.                                             *)

(* A set of positions has a first one.                                     *)
LEMMA Least ==
    ASSUME NEW S, S \subseteq Nat, S # {}
    PROVE  \E n \in S : \A m \in S : n <= m
<1>1. OpToRel(<, Nat) = {ss \in Nat \X Nat : ss[1] < ss[2]}
  BY Zenon DEF OpToRel
<1>2. IsWellFoundedOn({ss \in Nat \X Nat : ss[1] < ss[2]}, Nat)
  BY <1>1, NatLessThanWellFounded
<1>3. PICK x \in S : \A y \in S : <<y, x>> \notin {ss \in Nat \X Nat : ss[1] < ss[2]}
  BY <1>2, WFMin
<1>4. ASSUME NEW y \in S
      PROVE  x <= y
  <2>1. <<y, x>> \in Nat \X Nat /\ <<y, x>>[1] = y /\ <<y, x>>[2] = x
    OBVIOUS
  <2>2. ~(y < x)
    BY <1>3, <2>1
  <2> QED
    BY <2>2
<1> QED
  BY <1>4

LEMMA FirstIsLeft ==
    ASSUME NEW S, S \subseteq Nat, S # {}
    PROVE  Foremost(S) \in S
BY Least DEF Foremost

(* A terminated line is one more member of the file.                       *)
LEMMA MembersAppend ==
    ASSUME NEW seq \in Seq(Texts), NEW e \in Texts
    PROVE  /\ Append(seq, e) \in Seq(Texts)
           /\ Len(Append(seq, e)) = Len(seq) + 1
           /\ \A i \in 1..Len(seq) : Append(seq, e)[i] = seq[i]
           /\ Append(seq, e)[Len(seq) + 1] = e
           /\ Members(Append(seq, e)) = Members(seq) \cup {e}
<1>1. /\ Append(seq, e) \in Seq(Texts)
      /\ Len(Append(seq, e)) = Len(seq) + 1
      /\ \A i \in 1..Len(seq) : Append(seq, e)[i] = seq[i]
      /\ Append(seq, e)[Len(seq) + 1] = e
  BY AppendProperties
<1>2. DOMAIN Append(seq, e) = 1..(Len(seq) + 1) /\ DOMAIN seq = 1..Len(seq) /\ Len(seq) \in Nat
  BY <1>1, LenProperties
<1>3. Members(Append(seq, e)) = Members(seq) \cup {e}
  BY <1>1, <1>2 DEF Members
<1> QED
  BY <1>1, <1>3

(* A cut file holds nothing it did not hold.                               *)
LEMMA MembersPrefix ==
    ASSUME NEW seq \in Seq(Texts), NEW k \in 0..Len(seq)
    PROVE  /\ SubSeq(seq, 1, k) \in Seq(Texts)
           /\ Len(SubSeq(seq, 1, k)) = k
           /\ \A i \in 1..k : SubSeq(seq, 1, k)[i] = seq[i]
           /\ Members(SubSeq(seq, 1, k)) \subseteq Members(seq)
<1>0. Len(seq) \in Nat /\ DOMAIN seq = 1..Len(seq) /\ \A i \in 1..Len(seq) : seq[i] \in Texts
  BY LenProperties, ElementOfSeq
<1>1. /\ SubSeq(seq, 1, k) \in Seq(Texts)
      /\ Len(SubSeq(seq, 1, k)) = k
      /\ \A i \in 1..k : SubSeq(seq, 1, k)[i] = seq[i]
  <2>1. \A i \in 1..k : seq[i] \in Texts
    BY <1>0
  <2> QED
    BY <2>1, SubSeqProperties, <1>0
<1>2. DOMAIN SubSeq(seq, 1, k) = 1..k
  BY <1>1, LenProperties
<1> QED
  BY <1>0, <1>1, <1>2 DEF Members

(* What passed the front end is a batch of records.                        *)
LEMMA BatchOfRecords ==
    ASSUME NEW c \in Clients, batch \in [Clients -> Offers], ~Refused(c)
    PROVE  /\ batch[c] \in Seq(Record)
           /\ DOMAIN batch[c] = 1..Len(batch[c])
           /\ Len(batch[c]) \in Nat
           /\ \A i \in DOMAIN batch[c] : batch[c][i] \in Record
           /\ Members(batch[c]) \subseteq Record
<1>1. batch[c] \in Seq(Record \cup {Malformed})
  BY SpoolAssumption
<1>2. DOMAIN batch[c] = 1..Len(batch[c]) /\ Len(batch[c]) \in Nat
  BY <1>1, LenProperties
<1>3. \A i \in DOMAIN batch[c] : batch[c][i] \in Record
  BY <1>1, <1>2, ElementOfSeq DEF Refused, Members
<1>4. batch[c] \in Seq(Record)
  BY <1>1, <1>2, <1>3, LenProperties, SeqDef
<1> QED
  BY <1>2, <1>3, <1>4 DEF Members

(* What the preflight accepts is new, consistent and complete.             *)
LEMMA AcceptedIsNew ==
    ASSUME NEW b \in Seq(Record), NEW entries \in SUBSET Record, Admits(b, entries)
    PROVE  /\ Accepted(b, entries) \subseteq DOMAIN b
           /\ \A i \in Accepted(b, entries) :
                 /\ b[i] \notin entries
                 /\ \A r \in entries : ~SameIdentity(b[i], r)
                 /\ \A j \in Accepted(b, entries) : i # j => ~SameIdentity(b[i], b[j])
           /\ Members(b) \subseteq entries \cup {b[i] : i \in Accepted(b, entries)}
<1>0. DOMAIN b = 1..Len(b) /\ Len(b) \in Nat /\ \A i \in DOMAIN b : b[i] \in Record
  BY LenProperties, ElementOfSeq
<1>1. \A i \in DOMAIN b : \A r \in entries \cup {b[j] : j \in 1..(i - 1)} :
          SameIdentity(b[i], r) => b[i] = r
  BY DEF Admits, Conflicts
<1>2. ASSUME NEW i \in Accepted(b, entries), NEW j \in Accepted(b, entries), i # j
      PROVE  ~SameIdentity(b[i], b[j])
  <2>1. i \in DOMAIN b /\ j \in DOMAIN b
    BY DEF Accepted
  <2>2. CASE j < i
    <3>1. j \in 1..(i - 1)
      BY <1>0, <2>1, <2>2
    <3> QED
      BY <1>1, <2>1, <3>1 DEF Accepted
  <2>3. CASE i < j
    <3>1. i \in 1..(j - 1)
      BY <1>0, <2>1, <2>3
    <3>2. b[j] # b[i]
      BY <3>1 DEF Accepted
    <3> QED
      BY <1>1, <2>1, <3>1, <3>2 DEF SameIdentity
  <2> QED
    BY <1>0, <1>2, <2>1, <2>2, <2>3
<1>3. ASSUME NEW k \in DOMAIN b, b[k] \notin entries
      PROVE  \E i \in Accepted(b, entries) : b[i] = b[k]
  <2> DEFINE S == {i \in DOMAIN b : b[i] = b[k]}
  <2>1. PICK i \in S : \A j \in S : i <= j
    <3>1. S \subseteq Nat /\ k \in S
      BY <1>0
    <3> QED
      BY <3>1, Least
  <2>2. b[i] \notin {b[j] : j \in 1..(i - 1)}
    BY <1>0, <2>1
  <2> QED
    BY <1>3, <2>1, <2>2 DEF Accepted
<1>4. Members(b) \subseteq entries \cup {b[i] : i \in Accepted(b, entries)}
  BY <1>3 DEF Members
<1>5. \A i \in Accepted(b, entries) : i \in DOMAIN b /\ b[i] \notin entries
  BY DEF Accepted
<1> QED
  BY <1>1, <1>2, <1>4, <1>5

-----------------------------------------------------------------------------
(* The invariant.                                                          *)

LEMMA InitSpoolInv == SpoolInit => SpoolInv
<1> SUFFICES ASSUME SpoolInit
             PROVE  SpoolInv
  OBVIOUS
<1>1. /\ lines = <<>> /\ tail = Empty /\ durable.lines = <<>> /\ faults.kinds = {} /\ acked = {}
      /\ lock = None
      /\ \A c \in Clients : pc[c] = "idle" /\ todo[c] = {}
  BY DEF SpoolInit
<1>2. Members(lines) = {} /\ Entries = {} /\ Readable = {} /\ Len(lines) = 0
  <2>1. DOMAIN lines = {}
    BY <1>1
  <2> QED
    BY <1>1, <2>1 DEF Members, Entries, Readable
<1>3. SpoolTyped
  <2>1. <<>> \in Seq(Texts)
    OBVIOUS
  <2> QED
    BY <1>1, <2>1 DEF SpoolInit, SpoolTyped, Phases
<1>4. LockHeld /\ FrontDoor /\ TodoLeft
  BY <1>1, SpoolAssumption DEF LockHeld, FrontDoor, TodoLeft, Holding, InFlight
<1>5. WriterChecked /\ UnfinishedLine /\ Untorn /\ BatchCovered
  BY <1>1, <1>2 DEF WriterChecked, UnfinishedLine, Untorn, BatchCovered
<1>6. OneContentPerIdentity /\ NoSecondCopy
  BY <1>1, <1>2, SpoolAssumption DEF OneContentPerIdentity, NoSecondCopy
<1>7. SyncedPrefix /\ AllSynced
  BY <1>1, <1>2 DEF SyncedPrefix, AllSynced
<1> QED
  BY <1>3, <1>4, <1>5, <1>6, <1>7 DEF SpoolInv

(* A client that moves on without touching the file: it asks for the lock, *)
(* gives it back, or answers.                                              *)
Calm == Phases \ {"writing", "newline", "sync"}

LEMMA QuietStep ==
    ASSUME SpoolInv, NEW c \in Clients, NEW phase \in Calm,
           pc[c] \in Calm, Goto(c, phase),
           UNCHANGED <<batch, todo, file, durable>>,
           faults'.kinds \in SUBSET Faults, faults.kinds \subseteq faults'.kinds,
           lock' \in Clients \cup {None},
           \A d \in Clients : lock' = d <=> IF d = c THEN phase \in Holding ELSE lock = d,
           phase \in InFlight => ~Refused(c),
           \/ phase # "reply"
           \/ /\ Members(batch[c]) \subseteq Entries
              /\ \A d \in Clients : pc[d] \in Calm,
           \/ UNCHANGED acked
           \/ pc[c] = "reply" /\ acked' = acked \cup Members(batch[c])
    PROVE  SpoolInv'
<1> USE DEF SpoolInv
<1>1. /\ pc' \in [Clients -> Phases] /\ pc'[c] = phase
      /\ \A d \in Clients \ {c} : pc'[d] = pc[d]
      /\ lines' = lines /\ tail' = tail /\ batch' = batch /\ todo' = todo /\ durable' = durable
  BY DEF Goto, Calm, file, SpoolTyped
<1>2. Entries' = Entries /\ Readable' = Readable
  BY <1>1 DEF Entries, Readable, Members
<1>3. \A d \in Clients : pc'[d] # pc[d] => d = c
  BY <1>1
<1>4. SpoolTyped'
  <2>1. acked' \in SUBSET Record
    <3>1. CASE UNCHANGED acked
      BY <3>1 DEF SpoolTyped
    <3>2. CASE pc[c] = "reply" /\ acked' = acked \cup Members(batch[c])
      <4>1. ~Refused(c)
        BY <3>2 DEF FrontDoor, InFlight
      <4> QED
        BY <3>2, <4>1, BatchOfRecords DEF SpoolTyped
    <3> QED
      BY <3>1, <3>2
  <2> QED
    BY <1>1, <2>1 DEF SpoolTyped
<1>5. LockHeld'
  BY <1>1 DEF LockHeld
<1>6. FrontDoor'
  BY <1>1 DEF FrontDoor, Refused
<1>7. TodoLeft'
  BY <1>1 DEF TodoLeft, Calm
<1>8. WriterChecked' /\ UnfinishedLine'
  <2>1. \A d \in Clients : Unwritten(d)' = Unwritten(d)
    BY <1>1 DEF Unwritten, Calm
  <2>3. WriterChecked'
    BY <1>1, <1>2, <2>1 DEF WriterChecked
  <2>4. UnfinishedLine'
    BY <1>1 DEF UnfinishedLine, Calm
  <2> QED
    BY <2>3, <2>4
<1>9. "tear" \notin faults'.kinds => "tear" \notin faults.kinds
  OBVIOUS
<1>10. Untorn'
  BY <1>1, <1>2, <1>9 DEF Untorn, Calm
<1>11. BatchCovered'
  <2>1. ASSUME "tear" \notin faults'.kinds, phase = "reply"
        PROVE  Members(batch[c]) \subseteq Members(lines)
    <3>1. tail = Empty
      BY <1>9, <2>1 DEF Untorn, Calm
    <3> QED
      BY <2>1, <3>1 DEF Entries
  <2>2. Members(lines)' = Members(lines) /\ \A d \in Clients : Members(batch[d])' = Members(batch[d])
    BY <1>1 DEF Members
  <2>3. ASSUME "tear" \notin faults'.kinds, NEW d \in Clients, pc'[d] = "reply"
        PROVE  Members(batch[d]) \subseteq Members(lines)
    <3>1. CASE d = c
      BY <1>1, <2>1, <2>3, <3>1
    <3>2. CASE d # c
      BY <1>1, <1>9, <2>3, <3>2 DEF BatchCovered
    <3> QED
      BY <3>1, <3>2
  <2>4. ASSUME "tear" \notin faults'.kinds, NEW d \in Clients,
               pc'[d] \in {"writing", "newline", "sync"}
        PROVE  Members(batch[d]) \subseteq Members(lines) \cup {batch[d][i] : i \in todo[d]}
    <3>1. pc'[d] = pc[d]
      BY <1>1, <2>4 DEF Calm
    <3> QED
      BY <1>9, <2>4, <3>1 DEF BatchCovered
  <2> QED
    BY <1>1, <2>2, <2>3, <2>4 DEF BatchCovered
<1>12. OneContentPerIdentity' /\ NoSecondCopy' /\ SyncedPrefix'
  BY <1>1, <1>2 DEF OneContentPerIdentity, NoSecondCopy, SyncedPrefix, Members
<1>13. AllSynced'
  <2> SUFFICES ASSUME Uninterrupted'
               PROVE  /\ (\A d \in Clients : pc'[d] \in Calm) => durable.lines = lines
                      /\ \A d \in Clients : pc'[d] = "reply" =>
                             Members(batch[d]) \subseteq Members(durable.lines)
                      /\ acked' \subseteq Members(durable.lines)
    <3>1. /\ Members(durable.lines)' = Members(durable.lines)
          /\ \A d \in Clients : Members(batch[d])' = Members(batch[d])
      BY <1>1 DEF Members
    <3>2. \A d \in Clients : (pc[d] \notin {"writing", "newline", "sync"})' <=> pc'[d] \in Calm
      BY <1>1 DEF Calm
    <3> QED
      BY <1>1, <3>1, <3>2 DEF AllSynced
  <2>1. Uninterrupted
    BY DEF Uninterrupted
  <2>2. (\A d \in Clients : pc'[d] \in Calm) => durable.lines = lines
    BY <1>1, <2>1 DEF AllSynced, Calm
  <2>3. ASSUME phase = "reply"
        PROVE  Members(batch[c]) \subseteq Members(durable.lines)
    <3>1. tail = Empty
      BY <2>1, <2>3 DEF Untorn, Calm, Uninterrupted
    <3>2. durable.lines = lines
      BY <2>1, <2>3 DEF AllSynced, Calm
    <3> QED
      BY <2>3, <3>1, <3>2 DEF Entries
  <2>4. acked' \subseteq Members(durable.lines)
    BY <2>1 DEF AllSynced
  <2> QED
    BY <1>1, <2>1, <2>2, <2>3, <2>4 DEF AllSynced
<1> QED
  BY <1>4, <1>5, <1>6, <1>7, <1>8, <1>10, <1>11, <1>12, <1>13

(* While a client holds the lock nobody else writes or is about to.        *)
LEMMA OneWriter ==
    ASSUME SpoolInv, NEW c \in Clients, pc[c] \in Holding, NEW d \in Clients, d # c
    PROVE  pc[d] \notin Holding /\ todo[d] = {}
BY DEF SpoolInv, LockHeld, TodoLeft, Holding

LEMMA AcceptStep ==
    ASSUME SpoolInv, NEW c \in Clients, AcceptBatch(c)
    PROVE  SpoolInv'
<1> DEFINE new == Accepted(batch[c], Entries)
<1> USE DEF SpoolInv
<1>1. /\ pc' \in [Clients -> Phases] /\ pc[c] = "locked" /\ pc'[c] = "writing"
      /\ todo' = [todo EXCEPT ![c] = new] /\ todo'[c] = new /\ new # {}
      /\ \A d \in Clients \ {c} : pc'[d] = pc[d] /\ todo'[d] = todo[d]
      /\ lines' = lines /\ tail' = tail /\ batch' = batch /\ durable' = durable
      /\ lock' = lock /\ acked' = acked /\ faults' = faults
  BY DEF AcceptBatch, Goto, file, SpoolTyped, Phases
<1>2. Entries' = Entries /\ Readable' = Readable /\ Members(lines)' = Members(lines)
  BY <1>1 DEF Entries, Readable, Members
<1>3. \A d \in Clients \ {c} : pc[d] \notin Holding /\ todo[d] = {}
  BY <1>1, OneWriter DEF Holding
<1>4. ~Refused(c) /\ Admits(batch[c], Entries)
  BY <1>1 DEF AcceptBatch, FrontDoor, InFlight
<1>5. batch[c] \in Seq(Record) /\ DOMAIN batch[c] \subseteq Nat
  BY <1>4, BatchOfRecords DEF SpoolTyped
<1>6. Entries \subseteq Record
  <2>1. Entries \subseteq Texts
    <3>1. \A i \in DOMAIN lines : lines[i] \in Texts
      BY LenProperties, ElementOfSeq DEF SpoolTyped
    <3> QED
      BY <3>1 DEF Entries, Members, SpoolTyped
  <2> QED
    BY <1>4, <2>1 DEF Admits, Loads, Texts
<1>7. /\ new \subseteq DOMAIN batch[c]
      /\ \A i \in new :
            /\ batch[c][i] \notin Entries
            /\ \A r \in Entries : ~SameIdentity(batch[c][i], r)
            /\ \A j \in new : i # j => ~SameIdentity(batch[c][i], batch[c][j])
      /\ Members(batch[c]) \subseteq Entries \cup {batch[c][i] : i \in new}
  BY <1>4, <1>5, <1>6, AcceptedIsNew
<1> HIDE DEF new
<1>8. SpoolTyped'
  <2>1. todo' \in [Clients -> SUBSET Nat]
    BY <1>1, <1>5, <1>7 DEF SpoolTyped
  <2> QED
    BY <1>1, <2>1 DEF SpoolTyped
<1>9. LockHeld' /\ FrontDoor'
  BY <1>1 DEF LockHeld, FrontDoor, Holding, InFlight, Refused
<1>10. TodoLeft'
  BY <1>1, <1>7 DEF TodoLeft
<1>11. WriterChecked'
  <2>1. Unwritten(c)' = new
    BY <1>1 DEF Unwritten
  <2> QED
    BY <1>1, <1>2, <1>3, <1>7, <2>1 DEF WriterChecked, Readable
<1>12. UnfinishedLine' /\ Untorn'
  BY <1>1, <1>2, <1>3 DEF UnfinishedLine, Untorn, Holding
<1>13. BatchCovered'
  <2>1. ASSUME "tear" \notin faults.kinds
        PROVE  Members(batch[c]) \subseteq Members(lines) \cup {batch[c][i] : i \in new}
    <3>1. tail = Empty
      BY <1>1, <1>3, <2>1 DEF Untorn, Holding
    <3> QED
      BY <1>7, <3>1 DEF Entries
  <2>2. \A d \in Clients : Members(batch[d])' = Members(batch[d])
    BY <1>1 DEF Members
  <2>3. \A d \in Clients \ {c} : pc'[d] \notin {"writing", "newline", "sync"}
    BY <1>1, <1>3 DEF Holding
  <2> QED
    BY <1>1, <1>2, <2>1, <2>2, <2>3 DEF BatchCovered
<1>14. OneContentPerIdentity' /\ NoSecondCopy' /\ SyncedPrefix'
  BY <1>1, <1>2 DEF OneContentPerIdentity, NoSecondCopy, SyncedPrefix
<1>15. AllSynced'
  BY <1>1 DEF AllSynced, Uninterrupted, Members
<1> QED
  BY <1>8, <1>9, <1>10, <1>11, <1>12, <1>13, <1>14, <1>15

(* The record a writer writes next.                                        *)
LEMMA NextRecord ==
    ASSUME SpoolInv, NEW c \in Clients, pc[c] \in {"writing", "newline"}
    PROVE  Foremost(todo[c]) \in todo[c] /\ batch[c][Foremost(todo[c])] \in Record
<1>1. todo[c] # {} /\ todo[c] \subseteq Nat /\ todo[c] \subseteq DOMAIN batch[c]
  BY DEF SpoolInv, TodoLeft, SpoolTyped
<1>2. ~Refused(c)
  BY DEF SpoolInv, FrontDoor, InFlight
<1> QED
  BY <1>1, <1>2, FirstIsLeft, BatchOfRecords DEF SpoolInv, SpoolTyped

(* What it writes has an identity of its own.                              *)
LEMMA RecordWritten ==
    ASSUME SpoolInv, NEW c \in Clients, WriteRecord(c),
           NEW r, r = batch[c][Foremost(todo[c])]
    PROVE  /\ r \in Record /\ r \notin Entries
           /\ \A s \in Readable : ~SameIdentity(r, s)
           /\ tail' \in {r, Garbled} /\ tail' # Empty
           /\ tail = Empty => tail' = r
           /\ Members(lines)' = Members(lines) /\ Entries' = Members(lines) \cup {tail'}
           /\ Readable' \subseteq Readable \cup {r}
<1>1. pc[c] = "writing" /\ lines' = lines /\ tail' = Join(tail, r)
  BY DEF WriteRecord
<1>2. Foremost(todo[c]) \in todo[c] /\ r \in Record
  BY <1>1, NextRecord
<1>3. r \notin Entries /\ \A s \in Readable : ~SameIdentity(r, s)
  <2>1. Foremost(todo[c]) \in Unwritten(c)
    BY <1>1, <1>2 DEF Unwritten
  <2> QED
    BY <1>2, <2>1 DEF SpoolInv, WriterChecked, Readable
<1>4. tail' \in {r, Garbled} /\ tail' # Empty /\ (tail = Empty => tail' = r)
  BY <1>1, <1>2, SpoolAssumption DEF Join
<1>5. Members(lines)' = Members(lines) /\ Entries' = Members(lines) \cup {tail'}
  BY <1>1, <1>4 DEF Entries, Members
<1>6. Readable' \subseteq Readable \cup {r}
  BY <1>4, <1>5 DEF Readable, Entries
<1> QED
  BY <1>2, <1>3, <1>4, <1>5, <1>6

LEMMA WriteRecordStep ==
    ASSUME SpoolInv, NEW c \in Clients, WriteRecord(c)
    PROVE  SpoolInv'
<1> DEFINE i == Foremost(todo[c])
           r == batch[c][i]
<1> USE DEF SpoolInv
<1>1. /\ pc' \in [Clients -> Phases] /\ pc[c] = "writing" /\ pc'[c] = "newline"
      /\ \A d \in Clients \ {c} : pc'[d] = pc[d]
      /\ todo' = todo /\ lines' = lines /\ batch' = batch /\ durable' = durable
      /\ lock' = lock /\ acked' = acked /\ faults' = faults
  BY DEF WriteRecord, Goto, SpoolTyped, Phases
<1>2. \A d \in Clients \ {c} : pc[d] \notin Holding /\ todo[d] = {}
  BY <1>1, OneWriter DEF Holding
<1>3. i \in todo[c]
  BY <1>1, NextRecord
<1>4. /\ r \in Record /\ r \notin Entries
      /\ \A s \in Readable : ~SameIdentity(r, s)
      /\ tail' \in {r, Garbled} /\ tail' # Empty
      /\ tail = Empty => tail' = r
      /\ Members(lines)' = Members(lines) /\ Entries' = Members(lines) \cup {tail'}
      /\ Readable' \subseteq Readable \cup {r}
  BY RecordWritten
<1> HIDE DEF i, r
<1>8. SpoolTyped'
  BY <1>1, <1>3, <1>4 DEF SpoolTyped, Texts
<1>9. LockHeld' /\ FrontDoor' /\ TodoLeft'
  BY <1>1 DEF LockHeld, FrontDoor, TodoLeft, Holding, InFlight, Refused
<1>10. WriterChecked'
  <2>1. Unwritten(c)' = todo[c] \ {i}
    BY <1>1 DEF Unwritten, i
  <2>2. Unwritten(c) = todo[c]
    BY <1>1 DEF Unwritten
  <2>3. ASSUME NEW j \in todo[c]
        PROVE  /\ \A s \in Readable' : SameIdentity(batch[c][j], s) => batch[c][j] = s
               /\ \A k \in todo[c] : j # k => ~SameIdentity(batch[c][j], batch[c][k])
               /\ j # i => batch[c][j] \notin Entries'
    <3>0. batch[c][j] \in Record
      BY <1>1, BatchOfRecords DEF TodoLeft, FrontDoor, InFlight, SpoolTyped
    <3>1. /\ \A s \in Readable : SameIdentity(batch[c][j], s) => batch[c][j] = s
          /\ \A k \in todo[c] : j # k => ~SameIdentity(batch[c][j], batch[c][k])
          /\ batch[c][j] \notin Entries
      BY <2>2 DEF WriterChecked
    <3>2. j # i => ~SameIdentity(batch[c][j], r)
      BY <1>3, <3>1 DEF r
    <3>3. j # i => batch[c][j] \notin {r, Garbled}
      BY <3>0, <3>2, SpoolAssumption DEF SameIdentity
    <3>4. j # i => batch[c][j] \notin Entries'
      BY <1>4, <3>1, <3>3 DEF Entries
    <3>5. \A s \in Readable' : SameIdentity(batch[c][j], s) => batch[c][j] = s
      BY <1>4, <3>1, <3>2 DEF r
    <3> QED
      BY <3>1, <3>4, <3>5
  <2> QED
    BY <1>1, <1>2, <2>1, <2>3 DEF WriterChecked
<1>11. UnfinishedLine'
  BY <1>1, <1>2, <1>4 DEF UnfinishedLine, Holding, r, i
<1>12. Untorn'
  <2>1. ASSUME "tear" \notin faults.kinds
        PROVE  Garbled \notin Entries /\ tail = Empty
    BY <1>1, <1>2, <2>1 DEF Untorn, Holding
  <2>2. ASSUME "tear" \notin faults.kinds
        PROVE  Garbled \notin Entries' /\ tail' = r
    BY <1>3, <1>4, <2>1, <2>2, SpoolAssumption DEF Entries
  <2> QED
    BY <1>1, <1>2, <2>2 DEF Untorn, Holding, r, i
<1>13. BatchCovered'
  <2>1. \A d \in Clients : Members(batch[d])' = Members(batch[d])
    BY <1>1 DEF Members
  <2>2. \A d \in Clients : pc'[d] \in {"writing", "newline", "sync"}
                               => pc[d] \in {"writing", "newline", "sync"}
    BY <1>1
  <2> QED
    BY <1>1, <1>4, <2>1, <2>2 DEF BatchCovered
<1>14. OneContentPerIdentity'
  BY <1>4 DEF OneContentPerIdentity, SameIdentity
<1>15. NoSecondCopy'
  <2>1. r \notin Members(lines)
    BY <1>4 DEF Entries
  <2> QED
    BY <1>1, <1>4, <2>1, SpoolAssumption DEF NoSecondCopy
<1>16. SyncedPrefix'
  BY <1>1 DEF SyncedPrefix
<1>17. AllSynced'
  <2>1. /\ Members(durable.lines)' = Members(durable.lines)
        /\ \A d \in Clients : Members(batch[d])' = Members(batch[d])
    BY <1>1 DEF Members
  <2> QED
    BY <1>1, <2>1 DEF AllSynced, Uninterrupted
<1> QED
  BY <1>8, <1>9, <1>10, <1>11, <1>12, <1>13, <1>14, <1>15, <1>16, <1>17

(* A line that ends adds no record to those that are read.                 *)
LEMMA LineEnded ==
    ASSUME SpoolInv, NEW c \in Clients, WriteNewline(c)
    PROVE  /\ Len(lines) \in Nat /\ DOMAIN lines = 1..Len(lines)
           /\ DOMAIN lines' = 1..(Len(lines) + 1)
           /\ lines' \in Seq(Texts) /\ Len(lines') = Len(lines) + 1
           /\ \A k \in 1..Len(lines) : lines'[k] = lines[k]
           /\ lines'[Len(lines) + 1] = tail
           /\ Members(lines)' = Members(lines) \cup {tail}
           /\ Entries' = Entries /\ Readable' = Readable
<1>1. pc[c] = "newline" /\ tail' = Empty /\ lines' = EndLine(tail, lines)
  BY DEF WriteNewline
<1>2. tail \in Texts /\ tail # Empty
  BY <1>1, NextRecord, SpoolAssumption DEF SpoolInv, UnfinishedLine, Texts
<1>3. lines' = Append(lines, tail) /\ lines \in Seq(Texts)
  BY <1>1, <1>2 DEF EndLine, SpoolInv, SpoolTyped
<1>4. /\ Len(lines) \in Nat /\ DOMAIN lines = 1..Len(lines)
      /\ DOMAIN lines' = 1..(Len(lines) + 1)
      /\ lines' \in Seq(Texts) /\ Len(lines') = Len(lines) + 1
      /\ \A k \in 1..Len(lines) : lines'[k] = lines[k]
      /\ lines'[Len(lines) + 1] = tail
      /\ Members(lines') = Members(lines) \cup {tail}
  BY <1>2, <1>3, MembersAppend, LenProperties
<1>5. Members(lines)' = Members(lines')
  BY DEF Members
<1>6. Entries' = Entries
  BY <1>1, <1>2, <1>4, <1>5 DEF Entries
<1> QED
  BY <1>4, <1>5, <1>6 DEF Readable

LEMMA WriteNewlineStep ==
    ASSUME SpoolInv, NEW c \in Clients, WriteNewline(c)
    PROVE  SpoolInv'
<1> DEFINE i == Foremost(todo[c])
           left == todo[c] \ {i}
<1> USE DEF SpoolInv
<1>1. /\ pc' \in [Clients -> Phases] /\ pc[c] = "newline"
      /\ pc'[c] = IF left = {} THEN "sync" ELSE "writing"
      /\ \A d \in Clients \ {c} : pc'[d] = pc[d] /\ todo'[d] = todo[d]
      /\ todo' \in [Clients -> SUBSET Nat] /\ todo'[c] = left
      /\ batch' = batch /\ durable' = durable
      /\ lock' = lock /\ acked' = acked /\ faults' = faults
      /\ tail' = Empty
  BY DEF WriteNewline, Goto, SpoolTyped, Phases
<1>2. \A d \in Clients \ {c} : pc[d] \notin Holding /\ todo[d] = {}
  BY <1>1, OneWriter DEF Holding
<1>3. i \in todo[c]
  BY <1>1, NextRecord
<1>4. /\ Len(lines) \in Nat /\ DOMAIN lines = 1..Len(lines) /\ DOMAIN lines' = 1..(Len(lines) + 1)
      /\ lines' \in Seq(Texts) /\ Len(lines') = Len(lines) + 1
      /\ \A k \in 1..Len(lines) : lines'[k] = lines[k]
      /\ lines'[Len(lines) + 1] = tail
      /\ Members(lines)' = Members(lines) \cup {tail} /\ Entries' = Entries /\ Readable' = Readable
  BY LineEnded
<1>7. \A d \in Clients : Members(batch[d])' = Members(batch[d])
  BY <1>1 DEF Members
<1> HIDE DEF i, left
<1>8. SpoolTyped'
  BY <1>1, <1>4 DEF SpoolTyped
<1>9. LockHeld' /\ FrontDoor'
  BY <1>1 DEF LockHeld, FrontDoor, Holding, InFlight, Refused
<1>10. TodoLeft'
  BY <1>1 DEF TodoLeft, left
<1>11. WriterChecked'
  <2>1. /\ Unwritten(c) = left
        /\ Unwritten(c)' \subseteq left
    BY <1>1 DEF Unwritten, left, i
  <2> QED
    BY <1>1, <1>2, <1>4, <2>1 DEF WriterChecked, left
<1>12. UnfinishedLine'
  BY <1>1, <1>2 DEF UnfinishedLine, Holding
<1>13. Untorn'
  BY <1>1, <1>2, <1>4 DEF Untorn, Holding
<1>14. BatchCovered'
  <2>1. ASSUME "tear" \notin faults.kinds
        PROVE  Members(batch[c]) \subseteq Members(lines)' \cup {batch[c][k] : k \in left}
    <3>1. tail = batch[c][i]
      BY <1>1, <2>1 DEF Untorn, i
    <3>2. Members(batch[c]) \subseteq Members(lines) \cup {batch[c][k] : k \in todo[c]}
      BY <1>1, <2>1 DEF BatchCovered
    <3> QED
      BY <1>4, <3>1, <3>2 DEF left
  <2>2. \A d \in Clients \ {c} : pc'[d] \notin {"writing", "newline", "sync"}
    BY <1>1, <1>2 DEF Holding
  <2>3. ASSUME "tear" \notin faults.kinds, NEW d \in Clients, pc'[d] = "reply"
        PROVE  Members(batch[d]) \subseteq Members(lines)'
    BY <1>1, <1>4, <2>3 DEF BatchCovered
  <2> QED
    BY <1>1, <1>7, <2>1, <2>2, <2>3 DEF BatchCovered
<1>15. OneContentPerIdentity'
  BY <1>4 DEF OneContentPerIdentity
<1>16. NoSecondCopy'
  BY <1>1, <1>4, SpoolAssumption DEF NoSecondCopy, Members
<1>17. SyncedPrefix'
  BY <1>1, <1>4, LenProperties DEF SyncedPrefix, SpoolTyped
<1>18. AllSynced'
  <2>1. Members(durable.lines)' = Members(durable.lines)
    BY <1>1 DEF Members
  <2>2. pc'[c] \in {"writing", "newline", "sync"}
    BY <1>1
  <2>3. \A d \in Clients : pc'[d] = "reply" => pc[d] = "reply"
    BY <1>1
  <2> QED
    BY <1>1, <1>7, <2>1, <2>2, <2>3 DEF AllSynced, Uninterrupted
<1> QED
  BY <1>8, <1>9, <1>10, <1>11, <1>12, <1>13, <1>14, <1>15, <1>16, <1>17, <1>18

LEMMA SyncStep ==
    ASSUME SpoolInv, NEW c \in Clients, Sync(c)
    PROVE  SpoolInv'
<1> USE DEF SpoolInv
<1>1. /\ pc' \in [Clients -> Phases] /\ pc[c] = "sync" /\ pc'[c] = "reply"
      /\ \A d \in Clients \ {c} : pc'[d] = pc[d]
      /\ durable' = [lines |-> lines, tail |-> tail] /\ lock' = None
      /\ todo' = todo /\ batch' = batch /\ acked' = acked /\ faults' = faults
      /\ lines' = lines /\ tail' = tail
  BY DEF Sync, Goto, SpoolTyped, Phases, file
<1>2. /\ \A d \in Clients \ {c} : pc[d] \notin Holding /\ todo[d] = {}
      /\ todo[c] = {}
  BY <1>1, OneWriter DEF Holding, TodoLeft
<1>3. Entries' = Entries /\ Readable' = Readable /\ Members(lines)' = Members(lines)
  BY <1>1 DEF Entries, Readable, Members
<1>4. \A d \in Clients : Members(batch[d])' = Members(batch[d])
  BY <1>1 DEF Members
<1>5. SpoolTyped'
  BY <1>1 DEF SpoolTyped
<1>6. LockHeld'
  BY <1>1, <1>2, SpoolAssumption DEF LockHeld, Holding
<1>7. FrontDoor'
  BY <1>1 DEF FrontDoor, InFlight, Refused
<1>8. TodoLeft'
  BY <1>1, <1>2 DEF TodoLeft
<1>9. WriterChecked' /\ UnfinishedLine' /\ Untorn'
  BY <1>1, <1>2, <1>3 DEF WriterChecked, UnfinishedLine, Untorn, Holding
<1>10. ASSUME "tear" \notin faults.kinds
       PROVE  Members(batch[c]) \subseteq Members(lines)
  BY <1>1, <1>2, <1>10 DEF BatchCovered
<1>11. BatchCovered'
  BY <1>1, <1>2, <1>3, <1>4, <1>10 DEF BatchCovered, Holding
<1>12. OneContentPerIdentity' /\ NoSecondCopy'
  BY <1>1, <1>3 DEF OneContentPerIdentity, NoSecondCopy
<1>13. SyncedPrefix'
  <2>1. Len(lines) \in Nat
    BY LenProperties DEF SpoolTyped
  <2> QED
    BY <1>1, <2>1 DEF SyncedPrefix
<1>14. AllSynced'
  <2> SUFFICES ASSUME Uninterrupted
               PROVE  /\ \A d \in Clients : pc'[d] = "reply" =>
                             Members(batch[d]) \subseteq Members(lines)
                      /\ acked \subseteq Members(lines)
    <3>1. Members(durable.lines)' = Members(lines)
      BY <1>1 DEF Members
    <3> QED
      BY <1>1, <1>4, <3>1 DEF AllSynced, Uninterrupted
  <2>1. Members(durable.lines) \subseteq Members(lines)
    <3>1. Len(lines) \in Nat /\ Len(durable.lines) \in Nat
      BY LenProperties DEF SpoolTyped
    <3>2. \A i \in 1..Len(durable.lines) : i \in 1..Len(lines) /\ durable.lines[i] = lines[i]
      BY <3>1 DEF SyncedPrefix
    <3>3. /\ Members(lines) = {lines[i] : i \in 1..Len(lines)}
          /\ Members(durable.lines) = {durable.lines[i] : i \in 1..Len(durable.lines)}
      BY LenProperties DEF Members, SpoolTyped
    <3> QED
      BY <3>2, <3>3
  <2>2. Members(batch[c]) \subseteq Members(lines)
    BY <1>10 DEF Uninterrupted
  <2> QED
    BY <1>1, <2>1, <2>2 DEF AllSynced
<1> QED
  BY <1>5, <1>6, <1>7, <1>8, <1>9, <1>11, <1>12, <1>13, <1>14

(* The process is gone, and the file is what the fault left of it.         *)
LEMMA AbandonStep ==
    ASSUME SpoolInv, Abandon, UNCHANGED <<batch, acked>>,
           faults'.kinds \in SUBSET Faults,
           lines' \in Seq(Texts), tail' \in Texts \cup {Empty},
           durable' \in [lines : Seq(Texts), tail : Texts \cup {Empty}],
           Entries' \subseteq Entries \cup {Garbled}, NoSecondCopy', SyncedPrefix',
           "tear" \notin faults'.kinds => Garbled \notin Entries' /\ tail' = Empty,
           Uninterrupted' => durable'.lines = lines' /\ acked \subseteq Members(lines')
    PROVE  SpoolInv'
<1> USE DEF SpoolInv
<1>1. /\ pc' \in [Clients -> Phases] /\ lock' = None
      /\ \A c \in Clients : pc'[c] \notin InFlight /\ todo'[c] = {}
      /\ todo' \in [Clients -> SUBSET Nat]
      /\ batch' = batch /\ acked' = acked
  <2>1. \A c \in Clients : AfterLoss(c) \in Phases \ InFlight
    BY DEF AfterLoss, Phases, InFlight
  <2> QED
    BY <2>1 DEF Abandon, SpoolTyped
<1>2. SpoolTyped'
  BY <1>1 DEF SpoolTyped
<1>3. LockHeld' /\ FrontDoor' /\ TodoLeft'
  BY <1>1, SpoolAssumption DEF LockHeld, FrontDoor, TodoLeft, Holding, InFlight
<1>4. WriterChecked' /\ UnfinishedLine' /\ Untorn'
  BY <1>1 DEF WriterChecked, UnfinishedLine, Untorn, InFlight
<1>5. BatchCovered'
  BY <1>1 DEF BatchCovered, InFlight
<1>6. OneContentPerIdentity'
  BY DEF OneContentPerIdentity, Readable
<1>7. AllSynced'
  <2>1. Uninterrupted' => Members(durable.lines)' = Members(lines') /\ durable'.lines = lines'
    BY DEF Members
  <2>2. \A c \in Clients : pc'[c] # "reply"
    BY <1>1 DEF InFlight
  <2> QED
    BY <1>1, <2>1, <2>2 DEF AllSynced
<1> QED
  BY <1>2, <1>3, <1>4, <1>5, <1>6, <1>7

LEMMA InjectedKinds ==
    ASSUME faults.kinds \in SUBSET Faults, NEW kind, NEW torn \in BOOLEAN, Inject(kind, torn),
           torn => "tear" \in Faults
    PROVE  /\ faults'.kinds \in SUBSET Faults
           /\ faults.kinds \subseteq faults'.kinds
           /\ kind \in faults'.kinds
           /\ torn => "tear" \in faults'.kinds
BY DEF Inject

(* Text left at the end of the file is text that was torn, now or before.  *)
LEMMA KillStep ==
    ASSUME SpoolInv, Kill
    PROVE  SpoolInv'
<1> USE DEF SpoolInv
<1>1. /\ tail' \in TornTails /\ CutBetweenLines
      /\ Inject("kill", tail' # Empty) /\ Abandon
      /\ batch' = batch /\ lines' = lines /\ durable' = durable /\ acked' = acked
  BY DEF Kill
<1>2. tail' # Empty => "tear" \in Faults
  BY <1>1 DEF TornTails, CutBetweenLines, Untorn, SpoolTyped
<1>3. /\ faults'.kinds \in SUBSET Faults
      /\ faults.kinds \subseteq faults'.kinds
      /\ "kill" \in faults'.kinds
      /\ tail' # Empty => "tear" \in faults'.kinds
  BY <1>1, <1>2, InjectedKinds DEF SpoolTyped
<1>4. tail' \in {tail, Garbled} /\ Members(lines)' = Members(lines)
  BY <1>1 DEF TornTails, Members
<1>5. Entries' \subseteq Entries \cup {Garbled}
  BY <1>4 DEF Entries
<1>6. NoSecondCopy'
  BY <1>1, <1>4, SpoolAssumption DEF NoSecondCopy
<1>7. SyncedPrefix'
  BY <1>1 DEF SyncedPrefix
<1>8. "tear" \notin faults'.kinds => Garbled \notin Entries' /\ tail' = Empty
  BY <1>3, <1>4 DEF Untorn, Entries
<1>9. ~Uninterrupted'
  BY <1>3 DEF Uninterrupted
<1>10. tail' \in Texts \cup {Empty}
  BY <1>4 DEF SpoolTyped, Texts
<1> QED
  BY <1>1, <1>3, <1>5, <1>6, <1>7, <1>8, <1>9, <1>10, AbandonStep DEF SpoolTyped

LEMMA PowerLossStep ==
    ASSUME SpoolInv, PowerLoss
    PROVE  SpoolInv'
<1> USE DEF SpoolInv
<1>1. PICK k \in Len(durable.lines)..Len(lines) :
         /\ lines' = SubSeq(lines, 1, k)
         /\ tail' \in CutTails(k)
         /\ durable' = [lines |-> lines', tail |-> tail']
  BY DEF PowerLoss
<1>2. /\ CutBetweenLines /\ Inject("power", tail' # Empty) /\ Abandon
      /\ batch' = batch /\ acked' = acked
  BY DEF PowerLoss
<1>3. /\ Len(lines) \in Nat /\ Len(durable.lines) \in Nat /\ k \in Nat /\ k <= Len(lines)
      /\ DOMAIN lines = 1..Len(lines) /\ DOMAIN durable.lines = 1..Len(durable.lines)
      /\ \A i \in 1..Len(lines) : lines[i] \in Texts
  BY LenProperties, ElementOfSeq DEF SpoolTyped
<1>4. /\ lines' \in Seq(Texts) /\ Len(lines') = k /\ DOMAIN lines' = 1..k
      /\ \A i \in 1..k : lines'[i] = lines[i]
      /\ Members(lines') \subseteq Members(lines)
  BY <1>1, <1>3, MembersPrefix, LenProperties DEF SpoolTyped
<1>5. /\ \/ tail' \in {Empty, Garbled}
         \/ k = Len(lines) /\ tail' = tail
         \/ k < Len(lines) /\ tail' = lines[k + 1]
      /\ "tear" \notin Faults => tail' \in {Empty, tail}
  <2>1. CASE k < Len(lines)
    BY <1>1, <1>3, <2>1 DEF CutTails
  <2>2. CASE k = Len(lines)
    BY <1>1, <1>3, <2>2 DEF CutTails
  <2>3. k < Len(lines) \/ k = Len(lines)
    <3>1. k \in Nat /\ Len(lines) \in Nat /\ k <= Len(lines)
      BY <1>3
    <3> QED
      BY ONLY <3>1
  <2> QED
    BY <2>1, <2>2, <2>3
<1>6. tail' # Empty => "tear" \in Faults
  BY <1>2, <1>5 DEF CutBetweenLines, Untorn, SpoolTyped
<1>7. /\ faults'.kinds \in SUBSET Faults
      /\ faults.kinds \subseteq faults'.kinds
      /\ tail' # Empty => "tear" \in faults'.kinds
  BY <1>2, <1>6, InjectedKinds DEF SpoolTyped
<1>8. Members(lines)' = Members(lines')
  BY DEF Members
<1>9. tail' \in Texts \cup {Empty}
  <2>1. k < Len(lines) => lines[k + 1] \in Texts
    BY <1>3
  <2>2. tail \in Texts \cup {Empty} /\ Garbled \in Texts
    BY DEF SpoolTyped, Texts
  <2> QED
    BY <1>5, <2>1, <2>2
<1>10. Entries' \subseteq Entries \cup {Garbled}
  <2>1. k < Len(lines) => lines[k + 1] \in Members(lines)
    BY <1>3 DEF Members
  <2> QED
    BY <1>4, <1>5, <1>8, <2>1 DEF Entries
<1>11. NoSecondCopy'
  <2>1. ASSUME tail' \in Record
        PROVE  tail' \notin Members(lines')
    <3>1. CASE tail' = tail
      BY <1>4, <2>1, <3>1 DEF NoSecondCopy
    <3>2. CASE k < Len(lines) /\ tail' = lines[k + 1]
      BY <1>3, <1>4, <2>1, <3>2 DEF NoSecondCopy, Members
    <3> QED
      BY <1>5, <2>1, <3>1, <3>2, SpoolAssumption
  <2> QED
    BY <1>3, <1>4, <1>8, <2>1 DEF NoSecondCopy
<1>12. SyncedPrefix'
  BY <1>1, <1>3, <1>4 DEF SyncedPrefix
<1>13. "tear" \notin faults'.kinds => Garbled \notin Entries' /\ tail' = Empty
  BY <1>4, <1>7, <1>8 DEF Untorn, Entries
<1>14. Uninterrupted' => durable'.lines = lines' /\ acked \subseteq Members(lines')
  <2>1. Members(durable.lines) \subseteq Members(lines')
    BY <1>3, <1>4 DEF Members, SyncedPrefix
  <2>2. Uninterrupted' => Uninterrupted
    BY <1>7 DEF Uninterrupted
  <2> QED
    BY <1>1, <2>1, <2>2 DEF AllSynced
<1>15. durable' \in [lines : Seq(Texts), tail : Texts \cup {Empty}]
  BY <1>1, <1>4, <1>9
<1> QED
  BY <1>2, <1>4, <1>7, <1>9, <1>10, <1>11, <1>12, <1>13, <1>14, <1>15, AbandonStep

LEMMA WriteFailsStep ==
    ASSUME SpoolInv, NEW c \in Clients, WriteFails(c)
    PROVE  SpoolInv'
<1> USE DEF SpoolInv
<1>1. /\ pc[c] \in {"writing", "newline", "sync"}
      /\ pc[c] = "newline" => "tear" \in Faults
      /\ tail' \in IF pc[c] = "writing" THEN TornTails ELSE {tail}
      /\ Inject("ioerror", tail' # Empty)
      /\ pc' \in [Clients -> Phases] /\ pc'[c] \in {"idle", "unseen"}
      /\ \A d \in Clients \ {c} : pc'[d] = pc[d] /\ todo'[d] = todo[d]
      /\ todo' \in [Clients -> SUBSET Nat] /\ todo'[c] = {}
      /\ lock' = None /\ batch' = batch /\ lines' = lines /\ durable' = durable /\ acked' = acked
  BY DEF WriteFails, Goto, AfterLoss, Phases, SpoolTyped
<1>2. \A d \in Clients \ {c} : pc[d] \notin Holding /\ todo[d] = {}
  BY <1>1, OneWriter DEF Holding
<1>3. tail' \in {tail, Garbled} /\ Members(lines)' = Members(lines)
  BY <1>1 DEF TornTails, Members
<1>4. tail' # Empty => "tear" \in Faults
  BY <1>1, <1>2 DEF TornTails, Untorn, SpoolTyped, Holding
<1>5. /\ faults'.kinds \in SUBSET Faults
      /\ faults.kinds \subseteq faults'.kinds
      /\ "ioerror" \in faults'.kinds
      /\ tail' # Empty => "tear" \in faults'.kinds
  BY <1>1, <1>4, InjectedKinds DEF SpoolTyped
<1>6. Entries' \subseteq Entries \cup {Garbled}
  BY <1>3 DEF Entries
<1>7. SpoolTyped'
  BY <1>1, <1>3, <1>5 DEF SpoolTyped, Texts
<1>8. LockHeld' /\ FrontDoor' /\ TodoLeft'
  BY <1>1, <1>2, SpoolAssumption DEF LockHeld, FrontDoor, TodoLeft, Holding, InFlight, Refused
<1>9. WriterChecked' /\ UnfinishedLine'
  BY <1>1, <1>2 DEF WriterChecked, UnfinishedLine, Holding
<1>10. Untorn'
  BY <1>1, <1>2, <1>3, <1>5 DEF Untorn, Entries, Holding
<1>11. BatchCovered'
  <2>1. \A d \in Clients : Members(batch[d])' = Members(batch[d])
    BY <1>1 DEF Members
  <2> QED
    BY <1>1, <1>2, <1>3, <1>5, <2>1 DEF BatchCovered, Holding
<1>12. OneContentPerIdentity'
  BY <1>6 DEF OneContentPerIdentity, Readable
<1>13. NoSecondCopy'
  BY <1>1, <1>3, SpoolAssumption DEF NoSecondCopy
<1>14. SyncedPrefix'
  BY <1>1 DEF SyncedPrefix
<1>15. AllSynced'
  BY <1>5 DEF AllSynced, Uninterrupted
<1> QED
  BY <1>7, <1>8, <1>9, <1>10, <1>11, <1>12, <1>13, <1>14, <1>15

LEMMA NextSpoolInv == SpoolInv /\ [SpoolNext]_spoolVars => SpoolInv'
<1> SUFFICES ASSUME SpoolInv, [SpoolNext]_spoolVars
             PROVE  SpoolInv'
  OBVIOUS
<1>0. /\ faults.kinds \in SUBSET Faults /\ lock \in Clients \cup {None} /\ LockHeld /\ FrontDoor
      /\ \A c \in Clients : pc[c] \in Phases
  BY DEF SpoolInv, SpoolTyped
<1>1. ASSUME NEW c \in Clients, Refuse(c) \/ Submit(c)
      PROVE  SpoolInv'
  <2>1. PICK phase \in {"rejected", "waiting"} :
            /\ Goto(c, phase) /\ pc[c] = "idle"
            /\ phase = "waiting" => ~Refused(c)
            /\ UNCHANGED <<batch, todo, lock, file, durable, acked, faults>>
    BY <1>1 DEF Refuse, Submit
  <2> QED
    BY <1>0, <2>1, QuietStep DEF Calm, Phases, InFlight, Holding, LockHeld
<1>2. ASSUME NEW c \in Clients, Acquire(c)
      PROVE  SpoolInv'
  <2>1. /\ pc[c] = "waiting" /\ lock = None /\ lock' = c /\ Goto(c, "locked")
        /\ UNCHANGED <<batch, todo, file, durable, acked, faults>>
    BY <1>2 DEF Acquire
  <2>2. ~Refused(c)
    BY <1>0, <2>1 DEF FrontDoor, InFlight
  <2>3. \A d \in Clients : d # c => lock # d /\ lock' # d
    BY <2>1, SpoolAssumption
  <2> QED
    BY <1>0, <2>1, <2>2, <2>3, QuietStep DEF Calm, Phases, InFlight, Holding
<1>3. ASSUME NEW c \in Clients, pc[c] = "locked"
      PROVE  /\ \A d \in Clients : pc[d] \in Calm
             /\ \A d \in Clients : d # c => lock # d
             /\ ~Refused(c)
  BY <1>0, <1>3 DEF LockHeld, FrontDoor, InFlight, Holding, Calm
<1>4. ASSUME NEW c \in Clients, RejectBatch(c)
      PROVE  SpoolInv'
  <2>1. /\ pc[c] = "locked" /\ lock' = None /\ Goto(c, "rejected")
        /\ UNCHANGED <<batch, todo, file, durable, acked, faults>>
    BY <1>4 DEF RejectBatch
  <2>2. \A d \in Clients : lock' # d
    BY <2>1, SpoolAssumption
  <2> QED
    BY <1>0, <1>3, <2>1, <2>2, QuietStep DEF Calm, Phases, InFlight, Holding
<1>5. ASSUME NEW c \in Clients, DuplicateBatch(c)
      PROVE  SpoolInv'
  <2>1. /\ pc[c] = "locked" /\ lock' = None /\ Goto(c, "reply")
        /\ Admits(batch[c], Entries) /\ Accepted(batch[c], Entries) = {}
        /\ UNCHANGED <<batch, todo, file, durable, acked, faults>>
    BY <1>5 DEF DuplicateBatch
  <2>2. \A d \in Clients : lock' # d
    BY <2>1, SpoolAssumption
  <2>3. Members(batch[c]) \subseteq Entries
    <3>1. batch[c] \in Seq(Record)
      BY <1>3, <2>1, BatchOfRecords DEF SpoolInv, SpoolTyped
    <3>2. Entries \in SUBSET Record
      <4>1. \A i \in DOMAIN lines : lines[i] \in Texts
        BY LenProperties, ElementOfSeq DEF SpoolInv, SpoolTyped
      <4> QED
        BY <2>1, <4>1 DEF Entries, Members, SpoolInv, SpoolTyped, Admits, Loads, Texts
    <3> QED
      BY <2>1, <3>1, <3>2, AcceptedIsNew
  <2> QED
    BY <1>0, <1>3, <2>1, <2>2, <2>3, QuietStep DEF Calm, Phases, InFlight, Holding
<1>6. ASSUME NEW c \in Clients, Reply(c)
      PROVE  SpoolInv'
  <2>1. PICK phase \in {"unseen", "acked"} :
            /\ Goto(c, phase) /\ pc[c] = "reply"
            /\ acked' = acked \/ acked' = acked \cup Members(batch[c])
            /\ UNCHANGED <<batch, todo, lock, file, durable, faults>>
    BY <1>6 DEF Reply
  <2> QED
    BY <1>0, <2>1, QuietStep DEF Calm, Phases, InFlight, Holding, LockHeld
<1>7. ASSUME NEW c \in Clients, LoseReply(c)
      PROVE  SpoolInv'
  <2>1. PICK phase \in {"unseen", "idle"} :
            /\ Goto(c, phase) /\ pc[c] = "reply" /\ Inject("lost_reply", FALSE)
            /\ UNCHANGED <<batch, todo, lock, file, durable, acked>>
    BY <1>7 DEF LoseReply, AfterLoss
  <2>2. faults'.kinds \in SUBSET Faults /\ faults.kinds \subseteq faults'.kinds
    BY <1>0, <2>1, InjectedKinds
  <2> QED
    BY <1>0, <2>1, <2>2, QuietStep DEF Calm, Phases, InFlight, Holding, LockHeld
<1>8. CASE UNCHANGED spoolVars
  <2>1. /\ lines' = lines /\ tail' = tail /\ batch' = batch /\ pc' = pc /\ todo' = todo
        /\ lock' = lock /\ durable' = durable /\ acked' = acked /\ faults' = faults
    BY <1>8 DEF spoolVars
  <2>2. Entries' = Entries /\ Readable' = Readable /\ Members(lines)' = Members(lines)
    BY <2>1 DEF Entries, Readable, Members
  <2>3. /\ Members(durable.lines)' = Members(durable.lines)
        /\ \A c \in Clients : /\ Members(batch[c])' = Members(batch[c])
                              /\ Refused(c)' = Refused(c) /\ Unwritten(c)' = Unwritten(c)
    BY <2>1 DEF Members, Refused, Unwritten
  <2>4. (SpoolTyped /\ LockHeld /\ FrontDoor /\ TodoLeft)'
    BY <2>1, <2>3 DEF SpoolInv, SpoolTyped, LockHeld, FrontDoor, TodoLeft
  <2>5. (WriterChecked /\ UnfinishedLine /\ Untorn /\ BatchCovered)'
    BY <2>1, <2>2, <2>3 DEF SpoolInv, WriterChecked, UnfinishedLine, Untorn, BatchCovered
  <2>6. (OneContentPerIdentity /\ NoSecondCopy /\ SyncedPrefix /\ AllSynced)'
    BY <2>1, <2>2, <2>3 DEF SpoolInv, OneContentPerIdentity, NoSecondCopy, SyncedPrefix,
                            AllSynced, Uninterrupted
  <2> QED
    BY <2>4, <2>5, <2>6 DEF SpoolInv
<1> QED
  BY <1>1, <1>2, <1>4, <1>5, <1>6, <1>7, <1>8, AcceptStep, WriteRecordStep, WriteNewlineStep,
     SyncStep, KillStep, PowerLossStep, WriteFailsStep DEF SpoolNext, Serve

(* Every behaviour keeps the invariant, whatever the clients send and      *)
(* whatever faults come when.                                              *)
THEOREM SpoolInvariant == SpoolSpec => []SpoolInv
BY InitSpoolInv, NextSpoolInv, PTL DEF SpoolSpec

(* No identity ever has two contents in the file.                          *)
THEOREM OneContent == SpoolSpec => []OneContentPerIdentity
<1>1. SpoolInv => OneContentPerIdentity
  BY DEF SpoolInv
<1> QED
  BY <1>1, SpoolInvariant, PTL

(* No record is ever in the file twice.                                    *)
THEOREM WrittenOnce == SpoolSpec => []NoSecondCopy
<1>1. SpoolInv => NoSecondCopy
  BY DEF SpoolInv
<1> QED
  BY <1>1, SpoolInvariant, PTL

(* What a receipt vouches for is on the disk, as long as no process was    *)
(* killed and no write failed or was torn.                                 *)
THEOREM ReceiptsAreDurable == SpoolSpec => []AckedDurable
<1>1. SpoolInv => AckedDurable
  BY DEF SpoolInv, AllSynced, Uninterrupted, AckedDurable
<1> QED
  BY <1>1, SpoolInvariant, PTL

(* As long as no write was torn, the spool can be indexed again.           *)
THEOREM SpoolReopens == SpoolSpec => []ReopensUnlessTorn
<1>1. SpoolInv => ReopensUnlessTorn
  <2> SUFFICES ASSUME SpoolInv, "tear" \notin faults.kinds
               PROVE  Loads(Entries)
    BY DEF ReopensUnlessTorn, ReopensClean
  <2>1. Garbled \notin Entries
    BY DEF SpoolInv, Untorn
  <2> QED
    BY <2>1 DEF SpoolInv, OneContentPerIdentity, Readable, Loads
<1> QED
  BY <1>1, SpoolInvariant, PTL

-----------------------------------------------------------------------------
(* The spool implements the write-once store.                              *)

(* The store that a set of records is.                                     *)
StoredIn(R) == [i \in Ids |-> IF \E r \in R : r.id = i
                              THEN (CHOOSE r \in R : r.id = i).body
                              ELSE None]

LEMMA StoredBodies ==
    ASSUME NEW R \in SUBSET Record, \A r, s \in R : SameIdentity(r, s) => r = s
    PROVE  /\ \A r \in R : StoredIn(R)[r.id] = r.body
           /\ \A i \in Ids : StoredIn(R)[i] = None <=> ~\E r \in R : r.id = i
           /\ \A i \in Ids : StoredIn(R)[i] # None => [id |-> i, body |-> StoredIn(R)[i]] \in R
<1>1. ASSUME NEW r \in R
      PROVE  r.id \in Ids /\ r.body \in Bodies /\ StoredIn(R)[r.id] = r.body
  <2>1. r.id \in Ids /\ r.body \in Bodies
    BY DEF Record
  <2>2. (CHOOSE s \in R : s.id = r.id) = r
    BY DEF SameIdentity
  <2> QED
    BY <2>1, <2>2 DEF StoredIn
<1>2. \A i \in Ids : StoredIn(R)[i] = None <=> ~\E r \in R : r.id = i
  <2> TAKE i \in Ids
  <2>1. (\E r \in R : r.id = i) => StoredIn(R)[i] # None
    BY <1>1, SpoolAssumption
  <2>2. ~(\E r \in R : r.id = i) => StoredIn(R)[i] = None
    BY DEF StoredIn
  <2> QED
    BY <2>1, <2>2
<1>3. ASSUME NEW i \in Ids, StoredIn(R)[i] # None
      PROVE  [id |-> i, body |-> StoredIn(R)[i]] \in R
  <2>1. PICK r \in R : r.id = i
    BY <1>2, <1>3
  <2>2. StoredIn(R)[i] = r.body
    BY <1>1, <2>1
  <2>3. r = [id |-> i, body |-> r.body]
    BY <2>1 DEF Record
  <2> QED
    BY <2>2, <2>3
<1> QED
  BY <1>1, <1>2, <1>3

LEMMA StoredTotal == ASSUME NEW R PROVE StoredIn(R) = [i \in Ids |-> StoredIn(R)[i]]
BY DEF StoredIn

(* The three steps of the store. *)
LEMMA OneMoreStored ==
    ASSUME NEW R \in SUBSET Record, NEW S \in SUBSET Record,
           \A r, s \in R : SameIdentity(r, s) => r = s,
           \A r, s \in S : SameIdentity(r, s) => r = s,
           NEW x \in Record, S = R \cup {x}, \A r \in R : ~SameIdentity(x, r)
    PROVE  /\ StoredIn(R)[x.id] = None
           /\ StoredIn(S) = [StoredIn(R) EXCEPT ![x.id] = x.body]
<1>1. x.id \in Ids
  BY DEF Record
<1>2. StoredIn(R)[x.id] = None
  BY <1>1, StoredBodies DEF SameIdentity
<1>3. ASSUME NEW i \in Ids
      PROVE  StoredIn(S)[i] = IF i = x.id THEN x.body ELSE StoredIn(R)[i]
  <2>1. CASE i = x.id
    BY <2>1, StoredBodies
  <2>2. CASE i # x.id /\ \E r \in R : r.id = i
    <3>1. PICK r \in R : r.id = i
      BY <2>2
    <3> QED
      BY <2>2, <3>1, StoredBodies
  <2>3. CASE i # x.id /\ ~\E r \in R : r.id = i
    BY <2>3, StoredBodies
  <2> QED
    BY <2>1, <2>2, <2>3
<1>4. DOMAIN StoredIn(R) = Ids
  BY DEF StoredIn
<1> QED
  BY <1>1, <1>2, <1>3, <1>4, StoredTotal

LEMMA SomeLost ==
    ASSUME NEW R \in SUBSET Record, NEW S \in SUBSET R,
           \A r, s \in R : SameIdentity(r, s) => r = s
    PROVE  StoredIn(S) = [i \in Ids |-> IF i \in {j \in Ids : ~\E s \in S : s.id = j}
                                        THEN None ELSE StoredIn(R)[i]]
<1>1. ASSUME NEW i \in Ids, \E s \in S : s.id = i
      PROVE  StoredIn(S)[i] = StoredIn(R)[i]
  <2>1. PICK s \in S : s.id = i
    BY <1>1
  <2> QED
    BY <2>1, StoredBodies
<1>2. ASSUME NEW i \in Ids, ~\E s \in S : s.id = i
      PROVE  StoredIn(S)[i] = None
  BY <1>2, StoredBodies
<1> QED
  BY <1>1, <1>2, StoredTotal

(* The faults the refinement can bear.  A torn line leaves a record that   *)
(* is there and cannot be read.  A kill or an I/O error leaves records     *)
(* that were never synced; a retry is told they are duplicates, and a      *)
(* power loss then takes away what its receipt vouched for.  Either alone  *)
(* loses nothing that was promised.                                        *)
WholeLines == "tear" \notin Faults
NothingUnsyncedLost == "power" \notin Faults \/ Faults \cap {"kill", "ioerror"} = {}

LEMMA ReadableRecords == SpoolInv => Readable \in SUBSET Record
<1> SUFFICES ASSUME SpoolInv
             PROVE  Readable \subseteq Record
  OBVIOUS
<1>1. \A i \in DOMAIN lines : lines[i] \in Texts
  BY LenProperties, ElementOfSeq DEF SpoolInv, SpoolTyped
<1> QED
  BY <1>1 DEF Readable, Entries, Members, SpoolInv, SpoolTyped, Texts

(* What a step does to the records that are read and those that are        *)
(* vouched for.                                                            *)
LEMMA StoreStep ==
    ASSUME WholeLines, NothingUnsyncedLost, SpoolInv, SpoolInv', [SpoolNext]_spoolVars
    PROVE  \/ Readable' = Readable /\ acked' = acked
           \/ /\ acked' = acked
              /\ \E x \in Record : /\ Readable' = Readable \cup {x}
                                   /\ \A r \in Readable : ~SameIdentity(x, r)
           \/ acked' = acked /\ Readable' \subseteq Readable /\ acked \subseteq Readable'
           \/ /\ Readable' = Readable
              /\ \E records \in SUBSET Readable : acked' = acked \cup records
<1>1. /\ "tear" \notin faults.kinds /\ "tear" \notin faults'.kinds
      /\ Garbled \notin Entries /\ Garbled \notin Entries'
      /\ Readable = Entries /\ Readable' = Entries'
  BY DEF SpoolInv, SpoolTyped, Untorn, WholeLines, Readable
<1>2. ASSUME NEW c \in Clients,
             \/ Refuse(c) \/ Submit(c) \/ Acquire(c) \/ RejectBatch(c) \/ DuplicateBatch(c)
             \/ AcceptBatch(c) \/ Sync(c) \/ LoseReply(c)
      PROVE  Readable' = Readable /\ acked' = acked
  <2>1. lines' = lines /\ tail' = tail /\ acked' = acked
    BY <1>2 DEF Refuse, Submit, Acquire, RejectBatch, DuplicateBatch, AcceptBatch, Sync, LoseReply,
                file
  <2> QED
    BY <2>1 DEF Readable, Entries, Members
<1>3. ASSUME NEW c \in Clients, WriteRecord(c)
      PROVE  /\ acked' = acked
             /\ \E x \in Record : /\ Readable' = Readable \cup {x}
                                  /\ \A r \in Readable : ~SameIdentity(x, r)
  <2> DEFINE x == batch[c][Foremost(todo[c])]
  <2>1. /\ x \in Record
        /\ \A s \in Readable : ~SameIdentity(x, s)
        /\ tail = Empty => tail' = x
        /\ Entries' = Members(lines) \cup {tail'}
    BY <1>3, RecordWritten
  <2>2. pc[c] = "writing" /\ acked' = acked
    BY <1>3 DEF WriteRecord
  <2>3. tail = Empty
    <3>1. \A d \in Clients : pc[d] # "newline"
      BY <2>2, OneWriter DEF Holding
    <3> QED
      BY <1>1, <3>1 DEF SpoolInv, Untorn
  <2> QED
    BY <1>1, <2>1, <2>2, <2>3 DEF Entries
<1>4. ASSUME NEW c \in Clients, WriteNewline(c)
      PROVE  Readable' = Readable /\ acked' = acked
  BY <1>4, LineEnded DEF WriteNewline
<1>5. ASSUME NEW c \in Clients, Reply(c)
      PROVE  /\ Readable' = Readable
             /\ \E records \in SUBSET Readable : acked' = acked \cup records
  <2>1. /\ pc[c] = "reply" /\ lines' = lines /\ tail' = tail
        /\ acked' = acked \cup {} \/ acked' = acked \cup Members(batch[c])
    BY <1>5 DEF Reply, file
  <2>2. Members(batch[c]) \subseteq Readable
    BY <1>1, <2>1 DEF SpoolInv, BatchCovered, Entries
  <2>3. Readable' = Readable
    BY <2>1 DEF Readable, Entries, Members
  <2> QED
    BY <2>1, <2>2, <2>3
<1>6. ASSUME Kill \/ \E c \in Clients : WriteFails(c)
      PROVE  Readable' = Readable /\ acked' = acked
  <2>1. tail' = tail /\ lines' = lines /\ acked' = acked
    BY <1>6 DEF Kill, WriteFails, TornTails, WholeLines
  <2> QED
    BY <2>1 DEF Readable, Entries, Members
<1>7. ASSUME PowerLoss
      PROVE  acked' = acked /\ Readable' \subseteq Readable /\ acked \subseteq Readable'
  <2>1. Inject("power", tail' # Empty) /\ acked' = acked
    BY <1>7 DEF PowerLoss
  <2>2. Readable' \subseteq Readable
    <3>1. PICK k \in Len(durable.lines)..Len(lines) : lines' = SubSeq(lines, 1, k) /\ tail' \in CutTails(k)
      BY <1>7 DEF PowerLoss
    <3>2. lines \in Seq(Texts) /\ k \in 0..Len(lines)
      BY <3>1, LenProperties DEF SpoolInv, SpoolTyped
    <3>3. Members(lines)' \subseteq Members(lines)
      BY <3>1, <3>2, MembersPrefix DEF Members
    <3>4. tail' \in {Empty, tail}
      BY <3>1 DEF CutTails, WholeLines
    <3> QED
      BY <3>3, <3>4 DEF Readable, Entries
  <2>3. acked \subseteq Readable'
    <3>1. "power" \in Faults
      BY <2>1 DEF Inject
    <3>2. Faults \subseteq {"power", "lost_reply"}
      BY <3>1, SpoolAssumption DEF WholeLines, NothingUnsyncedLost, FaultKinds
    <3>3. (acked \subseteq Members(durable.lines))'
      BY <3>2 DEF SpoolInv, AllSynced, Uninterrupted, SpoolTyped
    <3>4. durable'.lines = lines'
      BY <1>7 DEF PowerLoss
    <3> QED
      BY <1>1, <2>1, <3>3, <3>4 DEF Entries, Members
  <2> QED
    BY <2>1, <2>2, <2>3
<1>8. CASE UNCHANGED spoolVars
  BY <1>8 DEF spoolVars, Readable, Entries, Members
<1> QED
  BY <1>2, <1>3, <1>4, <1>5, <1>6, <1>7, <1>8 DEF SpoolNext, Serve

(* A spool whose faults fall between lines and take no synced record away  *)
(* is a write-once store: nothing stored is replaced, only what is stored  *)
(* is promised, nothing promised is lost.                                  *)
THEOREM SpoolImplementsEvidenceLog ==
    ASSUME WholeLines, NothingUnsyncedLost
    PROVE  SpoolSpec => ImplementsEvidenceLog
<1> DEFINE stored == StoredIn(Readable)
<1>1. SpoolInv => Log!Kept = Readable
  <2> SUFFICES ASSUME SpoolInv
               PROVE  Log!Kept = Readable
    OBVIOUS
  <2>1. Readable \in SUBSET Record /\ \A r, s \in Readable : SameIdentity(r, s) => r = s
    BY ReadableRecords DEF SpoolInv, OneContentPerIdentity
  <2>2. Log!Kept = {[id |-> i, body |-> stored[i]] : i \in {j \in Ids : stored[j] # None}}
    BY DEF Log!Kept, StoredIn
  <2>3. \A r \in Readable : r.id \in Ids /\ r = [id |-> r.id, body |-> stored[r.id]]
                           /\ stored[r.id] # None
    <3>1. \A r \in Readable : r.id \in Ids /\ r = [id |-> r.id, body |-> r.body]
      BY <2>1 DEF Record
    <3> QED
      BY <2>1, <3>1, StoredBodies
  <2>4. \A i \in Ids : stored[i] # None => [id |-> i, body |-> stored[i]] \in Readable
    BY <2>1, StoredBodies
  <2> HIDE DEF stored
  <2> QED
    BY <2>2, <2>3, <2>4
<1>2. SpoolInit => Log!Init
  <2> SUFFICES ASSUME SpoolInit
               PROVE  Readable = {} /\ acked = {}
    BY DEF Log!Init
  <2>1. DOMAIN lines = {} /\ tail = Empty /\ acked = {}
    BY DEF SpoolInit
  <2> QED
    BY <2>1 DEF Readable, Entries, Members
<1>3. SpoolInv /\ SpoolInv' /\ [SpoolNext]_spoolVars => [Log!Next]_<<stored, acked>>
  <2> SUFFICES ASSUME SpoolInv, SpoolInv', [SpoolNext]_spoolVars
               PROVE  Log!Next \/ (stored' = stored /\ acked' = acked)
    OBVIOUS
  <2>0. stored' = StoredIn(Readable')
    BY DEF StoredIn
  <2>1. /\ Readable \in SUBSET Record /\ \A r, s \in Readable : SameIdentity(r, s) => r = s
        /\ Readable' \in SUBSET Record /\ \A r, s \in Readable' : SameIdentity(r, s) => r = s
    <3>1. (Readable \in SUBSET Record)' /\ OneContentPerIdentity'
      BY ReadableRecords, PTL DEF SpoolInv
    <3> QED
      BY <3>1, ReadableRecords DEF SpoolInv, OneContentPerIdentity
  <2>2. CASE Readable' = Readable /\ acked' = acked
    BY <2>0, <2>2
  <2>3. ASSUME acked' = acked,
               NEW x \in Record, Readable' = Readable \cup {x},
               \A r \in Readable : ~SameIdentity(x, r)
        PROVE  Log!Next
    <3>1. stored[x.id] = None /\ stored' = [stored EXCEPT ![x.id] = x.body]
      BY <2>0, <2>1, <2>3, OneMoreStored
    <3>2. x.id \in Ids /\ x.body \in Bodies
      BY DEF Record
    <3>3. Log!Store(x.id, x.body)
      BY <2>3, <3>1 DEF Log!Store, StoredIn
    <3> QED
      BY <3>2, <3>3 DEF Log!Next
  <2>4. ASSUME acked' = acked, Readable' \subseteq Readable, acked \subseteq Readable'
        PROVE  Log!Next
    <3>1. PICK lost \in SUBSET Ids : lost = {j \in Ids : ~\E s \in Readable' : s.id = j}
      OBVIOUS
    <3>2. stored' = [i \in Ids |-> IF i \in lost THEN None ELSE stored[i]]
      BY <2>0, <2>1, <2>4, <3>1, SomeLost
    <3>3. \A r \in acked : r.id \notin lost
      BY <2>4, <3>1
    <3>4. Log!Lose(lost)
      BY <2>4, <3>2, <3>3 DEF Log!Lose, StoredIn
    <3> QED
      BY <3>4 DEF Log!Next
  <2>5. ASSUME Readable' = Readable, NEW records \in SUBSET Readable, acked' = acked \cup records
        PROVE  Log!Next
    <3>1. stored' = stored /\ records \in SUBSET Log!Kept
      BY <1>1, <2>0, <2>5
    <3>2. Log!Promise(records)
      BY <2>5, <3>1 DEF Log!Promise, StoredIn
    <3> QED
      BY <3>1, <3>2 DEF Log!Next
  <2> HIDE DEF stored
  <2> QED
    BY <2>2, <2>3, <2>4, <2>5, StoreStep
<1>4. SpoolInv /\ SpoolInv' /\ [SpoolNext]_spoolVars
          => [Log!Next]_<<[i \in Ids |-> IF \E r \in Readable : r.id = i
                                         THEN (CHOOSE r \in Readable : r.id = i).body
                                         ELSE None], acked>>
  BY <1>3 DEF StoredIn
<1> QED
  BY <1>2, <1>4, SpoolInvariant, PTL DEF SpoolSpec, ImplementsEvidenceLog, Log!Spec

-----------------------------------------------------------------------------
(* The investigation (IncidentInvestigation).                              *)

(* The invariant: who started went through a backend, and what was         *)
(* collected was left behind by a transaction or is stray.                 *)
SessionsTyped ==
    session \in [Transactions -> {NotStarted} \cup [gateway : Gateways, fails : Stages \cup {NoStage},
                                               live : BOOLEAN]]

Collected ==
    /\ incident \subseteq Emitted \cup Stray
    /\ containment \subseteq Emitted \cup Stray

CollectionInv == SessionsTyped /\ Collected

----------------------------------------------------------------------------
(* Assembly. *)

(* Evidence that contradicts itself still does when more arrives. *)
LEMMA RejectionGrows ==
    ASSUME NEW E, NEW F, E \subseteq F, Rejected(E)
    PROVE  Rejected(F)
<1>1. CASE IdentityReused(E)
  BY <1>1 DEF IdentityReused, Rejected
<1>2. CASE Unmapped(E)
  BY <1>2 DEF Unmapped, Rejected
<1>3. ASSUME NEW t \in Transactions, Contradictory(E, t)
      PROVE  Rejected(F)
  <2>1. EventsOf(E, t) \subseteq EventsOf(F, t)
    BY DEF EventsOf
  <2>2. GatewaysSeen(E, t) \subseteq GatewaysSeen(F, t)
    BY <2>1 DEF GatewaysSeen
  <2>3. Contradictory(F, t)
    BY <1>3, <2>1, <2>2 DEF Contradictory
  <2> QED
    BY <2>3 DEF Rejected
<1> QED
  BY <1>1, <1>2, <1>3 DEF Rejected

(* A complete transaction shows every failed stage it will ever show, unless *)
(* what arrives later contradicts it.                                        *)
LEMMA FailedStagesFixed ==
    ASSUME NEW E \in SUBSET Records, NEW F \in SUBSET Records, E \subseteq F,
           NEW t \in Transactions, Complete(E, t), ~Contradictory(F, t)
    PROVE  FailedStages(F, t) = FailedStages(E, t)
<1>1. EventsOf(E, t) \subseteq EventsOf(F, t)
  BY DEF EventsOf
<1>2. GatewaysSeen(F, t) # {}
  BY <1>1 DEF Complete, GatewaysSeen
<1>3. ASSUME NEW x \in EventsOf(F, t), x.status \in TerminalStatuses
      PROVE  x.stage \in FailedStages(E, t)
  <2>0. x.stage \in Stages
    BY DEF EventsOf, Records
  <2>1. CASE x.stage \in RequiredPrefix(E, t)
    <3>1. PICK e \in EventsOf(E, t) : e.stage = x.stage
      BY <2>1 DEF Complete
    <3>2. e.status = x.status
      BY <1>1, <1>2, <3>1 DEF Contradictory
    <3> QED
      BY <1>3, <3>1, <3>2 DEF FailedStages
  <2>2. CASE x.stage \notin RequiredPrefix(E, t)
    <3>1. PICK f \in FailedStages(E, t) : ~(x.stage <= f)
      BY <2>0, <2>2 DEF RequiredPrefix
    <3>2. PICK e \in EventsOf(E, t) : e.status \in TerminalStatuses /\ e.stage = f
      BY DEF FailedStages
    <3>3. e.stage \in Stages
      BY DEF EventsOf, Records
    <3>4. x.stage > e.stage
      BY <2>0, <3>1, <3>2, <3>3, AssemblyAssumption DEF Stages
    <3> QED
      BY <1>1, <1>2, <3>2, <3>4 DEF Contradictory
  <2> QED
    BY <2>1, <2>2
<1>4. FailedStages(F, t) \subseteq FailedStages(E, t)
  BY <1>3 DEF FailedStages
<1>5. FailedStages(E, t) \subseteq FailedStages(F, t)
  BY <1>1 DEF FailedStages
<1> QED
  BY <1>4, <1>5

(* An attempt, once assembled, is assembled in the same way from any         *)
(* evidence that has more records and does not contradict itself.            *)
LEMMA AttemptFixed ==
    ASSUME NEW E \in SUBSET Records, NEW F \in SUBSET Records, E \subseteq F,
           NEW t \in Transactions, Complete(E, t), ~Contradictory(F, t)
    PROVE  Complete(F, t) /\ Attempt(F, t) = Attempt(E, t)
<1>1. EventsOf(E, t) \subseteq EventsOf(F, t)
  BY DEF EventsOf
<1>2. RequiredPrefix(F, t) = RequiredPrefix(E, t)
  BY FailedStagesFixed DEF RequiredPrefix
<1>3. Complete(F, t)
  BY <1>1, <1>2 DEF Complete, GatewaysSeen
<1>4. GatewaysSeen(F, t) = GatewaysSeen(E, t)
  <2>1. GatewaysSeen(E, t) \subseteq GatewaysSeen(F, t)
    BY <1>1 DEF GatewaysSeen
  <2>2. PICK g : g \in GatewaysSeen(E, t)
    BY DEF Complete
  <2>3. \A h \in GatewaysSeen(F, t) : h = g
    BY <2>1, <2>2 DEF Contradictory
  <2> QED
    BY <2>1, <2>2, <2>3
<1>5. Gateway(F, t) = Gateway(E, t)
  BY <1>4 DEF Gateway
<1>6. ASSUME NEW s \in Stages
      PROVE  StageStatus(F, t, s) = StageStatus(E, t, s)
  <2>1. CASE s \notin RequiredPrefix(E, t)
    BY <1>2, <2>1 DEF StageStatus
  <2>2. CASE s \in RequiredPrefix(E, t)
    <3> DEFINE e == CHOOSE x \in EventsOf(E, t) : x.stage = s
               f == CHOOSE x \in EventsOf(F, t) : x.stage = s
    <3>1. \E x \in EventsOf(E, t) : x.stage = s
      BY <2>2 DEF Complete
    <3>2. e \in EventsOf(E, t) /\ e.stage = s
      BY <3>1
    <3>3. f \in EventsOf(F, t) /\ f.stage = s
      BY <3>1, <1>1
    <3> HIDE DEF e, f
    <3>4. e.status = f.status
      BY <1>1, <1>3, <3>2, <3>3 DEF Contradictory, Complete
    <3> QED
      BY <1>2, <2>2, <3>4 DEF StageStatus, e, f
  <2> QED
    BY <2>1, <2>2
<1>7. [s \in Stages |-> StageStatus(F, t, s)] = [s \in Stages |-> StageStatus(E, t, s)]
  BY <1>6
<1> QED
  BY <1>3, <1>5, <1>7 DEF Attempt

(* The failure an attempt tells of is the one failed stage of its evidence.  *)
LEMMA FirstFailureOfAttempt ==
    ASSUME NEW E \in SUBSET Records, NEW t \in Transactions, Complete(E, t),
           ~Contradictory(E, t)
    PROVE  /\ FailedStages(E, t) = {} => FirstFailure(Attempt(E, t)) = NoStage
           /\ \A f \in FailedStages(E, t) : FirstFailure(Attempt(E, t)) = f
           /\ FailedStages(E, t) \subseteq Stages
<1> DEFINE a == Attempt(E, t)
<1>1. FailedStages(E, t) \subseteq Stages
  BY DEF FailedStages, EventsOf, Records
<1>2. \A s \in Stages : a.stages[s] = StageStatus(E, t, s)
  BY DEF Attempt
<1>3. ASSUME NEW s \in Stages, Failing(a, s)
      PROVE  s \in FailedStages(E, t)
  <2>1. StageStatus(E, t, s) \in TerminalStatuses
    BY <1>2, <1>3 DEF Failing
  <2>2. s \in RequiredPrefix(E, t)
    BY <2>1 DEF StageStatus, TerminalStatuses
  <2> DEFINE e == CHOOSE x \in EventsOf(E, t) : x.stage = s
  <2>3. e \in EventsOf(E, t) /\ e.stage = s
    BY <2>2 DEF Complete
  <2>4. e.status \in TerminalStatuses
    BY <2>1, <2>2 DEF StageStatus
  <2> HIDE DEF e
  <2> QED
    BY <2>3, <2>4 DEF FailedStages
<1>4. ASSUME NEW f \in FailedStages(E, t)
      PROVE  Failing(a, f) /\ \A q \in FailedStages(E, t) : q = f
  <2>1. \A q \in FailedStages(E, t) : q = f
    <3>1. ASSUME NEW q \in FailedStages(E, t), q # f
          PROVE  FALSE
      <4>1. PICK x \in EventsOf(E, t) : x.status \in TerminalStatuses /\ x.stage = f
        BY DEF FailedStages
      <4>2. PICK y \in EventsOf(E, t) : y.status \in TerminalStatuses /\ y.stage = q
        BY DEF FailedStages
      <4>3. f < q \/ q < f
        BY <1>1, <3>1, AssemblyAssumption DEF Stages
      <4> QED
        BY <4>1, <4>2, <4>3 DEF Contradictory, Complete
    <3> QED
      BY <3>1
  <2>2. f \in RequiredPrefix(E, t)
    BY <1>1, <2>1, AssemblyAssumption DEF RequiredPrefix, Stages
  <2> DEFINE e == CHOOSE x \in EventsOf(E, t) : x.stage = f
  <2>3. PICK x \in EventsOf(E, t) : x.status \in TerminalStatuses /\ x.stage = f
    BY DEF FailedStages
  <2>4. e \in EventsOf(E, t) /\ e.stage = f
    BY <2>3
  <2>5. StageStatus(E, t, f) = e.status
    BY <2>2 DEF StageStatus
  <2> HIDE DEF e
  <2>6. e.status = x.status
    BY <2>3, <2>4 DEF Contradictory, Complete
  <2> QED
    BY <1>1, <1>2, <2>1, <2>3, <2>5, <2>6 DEF Failing
<1> HIDE DEF a
<1>5. ASSUME FailedStages(E, t) = {}
      PROVE  FirstFailure(a) = NoStage
  BY <1>3, <1>5 DEF FirstFailure
<1>6. ASSUME NEW f \in FailedStages(E, t)
      PROVE  FirstFailure(a) = f
  <2>1. f \in Stages /\ Failing(a, f)
    BY <1>1, <1>4
  <2>2. \A q \in Stages : Failing(a, q) => q = f
    BY <1>3, <1>4
  <2>3. f <= f
    BY <2>1, AssemblyAssumption DEF Stages
  <2> QED
    BY <2>1, <2>2, <2>3 DEF FirstFailure
<1> QED
  BY <1>1, <1>5, <1>6 DEF a

----------------------------------------------------------------------------
(* What was collected was left behind by a transaction, or is stray. *)

LEMMA EmittedTyped ==
    ASSUME SessionsTyped
    PROVE  Emitted \cup Stray \subseteq Records
<1>1. ASSUME NEW t \in Transactions, NEW s \in StagesRun(t)
      PROVE  RecordOf(t, s) \in Records
  <2>1. s \in Stages /\ session[t].gateway \in Gateways
    BY <1>1 DEF StagesRun, Started, SessionsTyped
  <2> QED
    BY <2>1 DEF RecordOf, GatewayNamed, Records, SupportedStageStatuses, TerminalStatuses
<1> QED
  BY <1>1, InvestigationAssumption DEF Emitted

LEMMA EmittedTypedNext == SessionsTyped' => (Emitted \cup Stray \subseteq Records)'
<1>1. SessionsTyped => Emitted \cup Stray \subseteq Records
  BY EmittedTyped
<1> QED
  BY <1>1, PTL

(* What a transaction left behind stays as it is while others start. *)
LEMMA CollectionStep ==
    ASSUME CollectionInv, [Next]_vars
    PROVE  CollectionInv'
<1> USE DEF CollectionInv
<1>1. ASSUME NEW t \in Transactions, Connect(t)
      PROVE  CollectionInv'
  <2>1. SessionsTyped'
    BY <1>1 DEF Connect, SessionsTyped
  <2>2. ASSUME NEW u \in Transactions, NEW s \in StagesRun(u)
        PROVE  s \in StagesRun(u)' /\ RecordOf(u, s)' = RecordOf(u, s)
    <3>1. u # t
      BY <1>1, <2>2 DEF Connect, StagesRun
    <3>2. session'[u] = session[u]
      BY <1>1, <3>1 DEF Connect, SessionsTyped
    <3> QED
      BY <2>2, <3>2 DEF StagesRun, Started, RecordOf, GatewayNamed
  <2>3. Emitted \subseteq Emitted'
    BY <2>2 DEF Emitted
  <2> QED
    BY <1>1, <2>1, <2>3 DEF Connect, Collected
<1>2. ASSUME NEW r \in Collectable \cup Stray, Deliver(r)
      PROVE  CollectionInv'
  <2>1. Emitted' = Emitted
    BY <1>2 DEF Deliver, Emitted, StagesRun, Started, RecordOf, GatewayNamed
  <2> QED
    BY <1>2, <2>1 DEF Deliver, Collected, SessionsTyped, Collectable
<1>6. CASE LiveTest
  <2>0. PICK T \in SUBSET Transactions : \E flows \in [T -> LiveSessions] :
           /\ IsLiveRun(T, flows)
           /\ session' = [t \in Transactions |-> IF t \in T THEN flows[t] ELSE session[t]]
           /\ \E records \in SUBSET (Emitted') :
                 IF drained = NoGateway
                 THEN incident' = records /\ UNCHANGED containment
                 ELSE containment' = records /\ UNCHANGED incident
    BY <1>6 DEF LiveTest
  <2>1. PICK flows \in [T -> LiveSessions] :
           /\ IsLiveRun(T, flows)
           /\ session' = [t \in Transactions |-> IF t \in T THEN flows[t] ELSE session[t]]
           /\ \E records \in SUBSET (Emitted') :
                 IF drained = NoGateway
                 THEN incident' = records /\ UNCHANGED containment
                 ELSE containment' = records /\ UNCHANGED incident
    BY <2>0
  <2>2. SessionsTyped'
    BY <2>1 DEF SessionsTyped, LiveSessions
  <2>3. ASSUME NEW u \in Transactions, NEW s \in StagesRun(u)
        PROVE  s \in StagesRun(u)' /\ RecordOf(u, s)' = RecordOf(u, s)
    <3>1. u \notin T
      BY <2>1, <2>3 DEF IsLiveRun, StagesRun
    <3>2. session'[u] = session[u]
      BY <2>1, <3>1
    <3> QED
      BY <2>3, <3>2 DEF StagesRun, Started, RecordOf, GatewayNamed
  <2>4. Emitted \subseteq Emitted'
    BY <2>3 DEF Emitted
  <2>5. Stray' = Stray
    OBVIOUS
  <2> QED
    BY <2>1, <2>2, <2>4, <2>5 DEF Collected
<1>3. ASSUME NEW performed \in BOOLEAN, Analyse(performed)
      PROVE  CollectionInv'
  BY <1>3 DEF Analyse, Collected, SessionsTyped, Emitted, StagesRun, Started, RecordOf,
              GatewayNamed
<1>4. CASE Drain
  BY <1>4 DEF Drain, Collected, SessionsTyped, Emitted, StagesRun, Started, RecordOf,
              GatewayNamed
<1>5. CASE UNCHANGED vars
  BY <1>5 DEF vars, Collected, SessionsTyped, Emitted, StagesRun, Started, RecordOf,
              GatewayNamed
<1> QED
  BY <1>1, <1>2, <1>3, <1>4, <1>5, <1>6 DEF Next

THEOREM CollectionFaithful == Spec => []CollectionInv
<1>1. Init => CollectionInv
  BY DEF Init, CollectionInv, SessionsTyped, Collected
<1>2. CollectionInv /\ [Next]_vars => CollectionInv'
  BY CollectionStep
<1> QED
  BY <1>1, <1>2, PTL DEF Spec

(* What is collected keeps the shape of a record, a session that of one.     *)
THEOREM TypeCorrect == Spec => []TypeOK
<1>1. CollectionInv => TypeOK
  <2> SUFFICES ASSUME CollectionInv PROVE TypeOK
    OBVIOUS
  <2> DEFINE S == {NotStarted} \cup [gateway : Gateways, fails : Stages \cup {NoStage},
                                      live : BOOLEAN]
             T == [gateway : Gateways \cup {NoGateway}, fails : Stages \cup {NoStage},
                   live : BOOLEAN]
  <2>1. S \subseteq T
    <3>1. NotStarted \in T
      BY DEF NotStarted
    <3>2. [gateway : Gateways, fails : Stages \cup {NoStage}, live : BOOLEAN] \subseteq T
      OBVIOUS
    <3> QED
      BY <3>1, <3>2
  <2>2. session \in [Transactions -> S]
    BY DEF CollectionInv, SessionsTyped
  <2> HIDE DEF S
  <2>3. session \in [Transactions -> T]
    BY <2>1, <2>2
  <2> QED
    BY <2>3, EmittedTyped DEF CollectionInv, Collected, TypeOK
<1> QED
  BY <1>1, CollectionFaithful, PTL

----------------------------------------------------------------------------
(* Outcomes are true. *)

(* Without stray records, a transaction's events are records it left.        *)
LEMMA GenuineEvents ==
    ASSUME SessionsTyped, NEW E \in SUBSET (Emitted \cup Stray), NEW t \in Transactions,
           Untainted(EventsOf(E, t)), NEW e \in EventsOf(E, t)
    PROVE  e.stage \in StagesRun(t) /\ e = RecordOf(t, e.stage)
<1>1. e \in Emitted /\ e.txn = t
  BY DEF Untainted, EventsOf
<1>2. PICK u \in Transactions : \E s \in StagesRun(u) : e = RecordOf(u, s)
  BY <1>1 DEF Emitted
<1> QED
  BY <1>1, <1>2 DEF RecordOf

(* Such events never contradict each other.                                  *)
LEMMA GenuineConsistent ==
    ASSUME SessionsTyped, NEW E \in SUBSET (Emitted \cup Stray), NEW t \in Transactions,
           Untainted(EventsOf(E, t))
    PROVE  /\ ~Contradictory(E, t)
           /\ GatewaysSeen(E, t) \subseteq {session[t].gateway}
           /\ FailedStages(E, t) \subseteq {session[t].fails}
<1>1. \A e \in EventsOf(E, t) : e.stage \in StagesRun(t) /\ e = RecordOf(t, e.stage)
  BY GenuineEvents
<1>2. GatewaysSeen(E, t) \subseteq {session[t].gateway}
  BY <1>1 DEF GatewaysSeen, RecordOf, GatewayNamed
<1>3. \A e \in EventsOf(E, t) : e.status \in TerminalStatuses => e.stage = session[t].fails
  BY <1>1 DEF RecordOf, TerminalStatuses
<1>4. ASSUME NEW e \in EventsOf(E, t), NEW f \in EventsOf(E, t)
      PROVE  /\ e.stage = f.stage => e.status = f.status
             /\ e.status \in TerminalStatuses => ~(f.stage > e.stage)
  <2>1. e.stage = f.stage => e = f
    BY <1>1
  <2>2. f.stage \in Stages /\ (session[t].fails = NoStage \/ f.stage <= session[t].fails)
    BY <1>1 DEF StagesRun
  <2>3. e.stage \in Stages
    BY <1>1 DEF StagesRun
  <2>4. NoStage \notin Stages
    BY DEF NoStage, Stages
  <2>5. ASSUME e.status \in TerminalStatuses
        PROVE  ~(f.stage > e.stage)
    BY <1>3, <2>2, <2>3, <2>4, <2>5, AssemblyAssumption DEF Stages
  <2> QED
    BY <2>1, <2>5
<1> QED
  BY <1>2, <1>3, <1>4 DEF Contradictory, FailedStages

LEMMA AttemptTrue ==
    ASSUME SessionsTyped, NEW E \in SUBSET (Emitted \cup Stray), NEW t \in Transactions,
           Untainted(EventsOf(E, t)), Complete(E, t)
    PROVE  /\ Attempt(E, t).gateway = session[t].gateway
           /\ FirstFailure(Attempt(E, t)) = session[t].fails
<1>1. E \in SUBSET Records
  BY EmittedTyped
<1>2. Gateway(E, t) = session[t].gateway
  BY GenuineConsistent DEF Gateway, Complete
<1>3. CASE FailedStages(E, t) # {}
  <2>1. session[t].fails \in FailedStages(E, t)
    BY <1>3, GenuineConsistent
  <2> QED
    BY <1>1, <1>2, <2>1, FirstFailureOfAttempt, GenuineConsistent DEF Attempt
<1>4. CASE FailedStages(E, t) = {}
  <2>1. FirstFailure(Attempt(E, t)) = NoStage
    BY <1>1, <1>4, FirstFailureOfAttempt, GenuineConsistent
  <2>2. PICK x : x \in EventsOf(E, t)
    BY DEF Complete, GatewaysSeen
  <2>3. Started(t)
    BY <2>2, GenuineEvents DEF StagesRun
  <2>4. session[t].fails \in Stages \cup {NoStage}
    BY <2>3 DEF Started, SessionsTyped
  <2>5. ASSUME session[t].fails \in Stages
        PROVE  FALSE
    <3>1. session[t].fails \in RequiredPrefix(E, t)
      BY <1>4, <2>5 DEF RequiredPrefix
    <3>2. PICK e \in EventsOf(E, t) : e.stage = session[t].fails
      BY <3>1 DEF Complete
    <3>3. e.status = "timeout"
      BY <3>2, GenuineEvents DEF RecordOf
    <3> QED
      BY <1>4, <3>3 DEF FailedStages, TerminalStatuses
  <2> QED
    BY <1>2, <2>1, <2>4, <2>5 DEF Attempt
<1> QED
  BY <1>3, <1>4

LEMMA UntaintedAccepted ==
    ASSUME SessionsTyped, NEW E \in SUBSET (Emitted \cup Stray), Untainted(E)
    PROVE  ~Rejected(E)
<1>1. ASSUME NEW e \in E
      PROVE  \E t \in Transactions : \E s \in StagesRun(t) : e = RecordOf(t, s)
  BY DEF Untainted, Emitted
<1>2. ~IdentityReused(E)
  BY <1>1 DEF IdentityReused, RecordOf
<1>3. ~Unmapped(E)
  BY <1>1 DEF Unmapped, RecordOf, SupportedStageStatuses, TerminalStatuses
<1>4. \A t \in Transactions : Untainted(EventsOf(E, t))
  BY DEF Untainted, EventsOf
<1> QED
  BY <1>2, <1>3, <1>4, GenuineConsistent DEF Rejected

(* However evidence is lost, delayed or repeated, an attempt says of its     *)
(* transaction what happened, and evidence that is not stray is accepted.    *)
THEOREM OutcomesTrue == Spec => []OutcomesAreTrue
<1>1. CollectionInv => OutcomesAreTrue
  <2> SUFFICES ASSUME CollectionInv, NEW E \in {incident, containment}
               PROVE  /\ \A a \in Attempts(E) :
                            Untainted(EventsOf(E, a.txn)) =>
                               /\ a.gateway = session[a.txn].gateway
                               /\ FirstFailure(a) = session[a.txn].fails
                      /\ Untainted(E) => ~Rejected(E)
    BY DEF OutcomesAreTrue
  <2>1. SessionsTyped /\ E \in SUBSET (Emitted \cup Stray)
    BY DEF CollectionInv, Collected
  <2>2. ASSUME NEW a \in Attempts(E), Untainted(EventsOf(E, a.txn))
        PROVE  a.gateway = session[a.txn].gateway /\ FirstFailure(a) = session[a.txn].fails
    <3>1. PICK t \in Transactions : Complete(E, t) /\ a = Attempt(E, t)
      BY DEF Attempts
    <3>2. a.txn = t
      BY <3>1 DEF Attempt
    <3> QED
      BY <2>1, <2>2, <3>1, <3>2, AttemptTrue
  <2> QED
    BY <2>1, <2>2, UntaintedAccepted
<1> QED
  BY <1>1, CollectionFaithful, PTL

----------------------------------------------------------------------------
(* Outcomes are never revised: the first spool implements OutcomeLedger. *)

LEMMA OutcomeTyped ==
    ASSUME NEW E \in SUBSET Records, NEW t \in Transactions, Complete(E, t), ~Contradictory(E, t)
    PROVE  <<Gateway(E, t), FirstFailure(Attempt(E, t))>> \in Gateways \X (Stages \cup {NoStage})
<1>1. Gateway(E, t) \in GatewaysSeen(E, t)
  BY DEF Gateway, Complete
<1>2. Gateway(E, t) \in Gateways
  BY <1>1 DEF GatewaysSeen, EventsOf, Records
<1>3. FirstFailure(Attempt(E, t)) \in Stages \cup {NoStage}
  <2>1. CASE FailedStages(E, t) = {}
    BY <2>1, FirstFailureOfAttempt
  <2>2. CASE FailedStages(E, t) # {}
    <3>1. PICK f : f \in FailedStages(E, t)
      BY <2>2
    <3> QED
      BY <3>1, FirstFailureOfAttempt
  <2> QED
    BY <2>1, <2>2
<1> QED
  BY <1>2, <1>3

(* More records complete more transactions, and change no outcome known.      *)
LEMMA EvidenceLearns ==
    ASSUME NEW E \in SUBSET Records, NEW F \in SUBSET Records, E \subseteq F
    PROVE  Ledger!Learned(LearnedFrom(E), LearnedFrom(F))
<1> DEFINE before == LearnedFrom(E)
           after == LearnedFrom(F)
<1>1. CASE Rejected(F)
  BY <1>1 DEF Ledger!Learned, LearnedFrom
<1>2. CASE ~Rejected(F)
  <2>1. ~Rejected(E)
    BY <1>2, RejectionGrows
  <2>2. \A u \in Transactions : ~Contradictory(F, u)
    BY <1>2 DEF Rejected
  <2>3. DOMAIN after = Transactions
    BY <1>2 DEF LearnedFrom
  <2>4. ASSUME NEW u \in Transactions
        PROVE  /\ before[u] = IF Complete(E, u) THEN <<Gateway(E, u), FirstFailure(Attempt(E, u))>>
                              ELSE <<NoGateway, NoStage>>
               /\ after[u] = IF Complete(F, u) THEN <<Gateway(F, u), FirstFailure(Attempt(F, u))>>
                             ELSE <<NoGateway, NoStage>>
    BY <1>2, <2>1 DEF LearnedFrom
  <2>5. ASSUME NEW u \in Transactions
        PROVE  \/ after[u] = before[u]
               \/ /\ before[u] = <<NoGateway, NoStage>>
                  /\ after[u] \in Gateways \X (Stages \cup {NoStage})
    <3>1. CASE Complete(E, u)
      <4>1. Complete(F, u) /\ Attempt(F, u) = Attempt(E, u)
        BY <2>2, <3>1, AttemptFixed
      <4>2. Gateway(F, u) = Gateway(E, u)
        BY <4>1 DEF Attempt
      <4> QED
        BY <2>4, <3>1, <4>1, <4>2
    <3>2. CASE ~Complete(E, u) /\ Complete(F, u)
      <4>1. <<Gateway(F, u), FirstFailure(Attempt(F, u))>> \in Gateways \X (Stages \cup {NoStage})
        BY <2>2, <3>2, OutcomeTyped
      <4> QED
        BY <2>4, <3>2, <4>1
    <3>3. CASE ~Complete(E, u) /\ ~Complete(F, u)
      BY <2>4, <3>3
    <3> QED
      BY <3>1, <3>2, <3>3
  <2> HIDE DEF before, after
  <2>6. Ledger!Learned(before, after)
    BY <2>3, <2>5 DEF Ledger!Learned
  <2> QED
    BY <2>6 DEF before, after
<1> QED
  BY <1>1, <1>2

(* The outcome of a transaction is learned once and never revised, and what  *)
(* contradicts itself is withheld for good.                                  *)
THEOREM OutcomesNeverRevised == Spec => NeverRevised
<1>1. Init => Ledger!Init
  <2> SUFFICES ASSUME Init
               PROVE  LearnedFrom(incident) = [t \in Transactions |-> <<NoGateway, NoStage>>]
    BY DEF Ledger!Init
  <2>1. incident = {}
    BY DEF Init
  <2>2. ~Rejected({})
    BY DEF Rejected, IdentityReused, Unmapped, Contradictory, EventsOf, GatewaysSeen
  <2>3. \A t \in Transactions : ~Complete({}, t)
    BY DEF Complete, GatewaysSeen, EventsOf
  <2> QED
    BY <2>1, <2>2, <2>3 DEF LearnedFrom
<1>2. CollectionInv /\ [Next]_vars => [Ledger!Next]_(LearnedFrom(incident))
  <2> SUFFICES ASSUME CollectionInv, [Next]_vars
               PROVE  \/ Ledger!Learned(LearnedFrom(incident), LearnedFrom(incident)')
                      \/ LearnedFrom(incident)' = LearnedFrom(incident)
    BY DEF Ledger!Next
  <2>1. incident \in SUBSET Records /\ incident' \in SUBSET Records
    <3>1. CollectionInv'
      BY CollectionStep
    <3>2. (Emitted \cup Stray \subseteq Records)'
      BY <3>1, EmittedTypedNext DEF CollectionInv
    <3> QED
      BY <3>1, <3>2, EmittedTyped DEF CollectionInv, Collected
  <2>2. incident \subseteq incident'
    BY DEF Next, vars, Connect, LiveTest, Deliver, Analyse, Drain
  <2>3. Ledger!Learned(LearnedFrom(incident), LearnedFrom(incident'))
    BY <2>1, <2>2, EvidenceLearns
  <2>4. LearnedFrom(incident)' = LearnedFrom(incident')
    BY DEF LearnedFrom, Rejected, IdentityReused, Unmapped, Contradictory, EventsOf,
           GatewaysSeen, Complete, Gateway, Attempt, StageStatus, RequiredPrefix, FailedStages
  <2> QED
    BY <2>3, <2>4
<1>3. CollectionInv /\ [Next]_vars => [Ledger!Next]_(LearnedFrom(incident))
  BY <1>2
<1> QED
  BY <1>1, <1>3, CollectionFaithful, PTL DEF Spec, NeverRevised, Ledger!Spec

----------------------------------------------------------------------------
(* Choices of a best element: the latest probe, the suspect. *)

(* In a finite set some element is not surpassed, when "surpasses" is a      *)
(* transitive relation in which nothing surpasses itself.                    *)
LEMMA SomeUnsurpassed ==
    ASSUME NEW S, IsFiniteSet(S), S # {}, NEW R,
           \A x, y, z \in S : <<x, y>> \in R /\ <<y, z>> \in R => <<x, z>> \in R,
           \A x \in S : <<x, x>> \notin R
    PROVE  \E x \in S : \A y \in S : <<y, x>> \notin R
<1> DEFINE Above(x) == {y \in S : <<y, x>> \in R}
           T == {Above(x) : x \in S}
<1>1. T \subseteq FiniteSubsetsOf(S) /\ T # {}
  <2>1. \A x \in S : Above(x) \in SUBSET S
    OBVIOUS
  <2>2. FiniteSubsetsOf(S) = SUBSET S
    BY FS_FiniteSubsetsOfFinite
  <2> HIDE DEF Above
  <2> QED BY <2>1, <2>2
<1>2. IsWellFoundedOn(StrictSubsetOrdering(S), FiniteSubsetsOf(S))
  BY FS_StrictSubsetOrderingWellFounded
<1>3. PICK m \in T : \A n \in T : <<n, m>> \notin StrictSubsetOrdering(S)
  <2> HIDE DEF T
  <2> QED BY <1>1, <1>2, WFMin
<1>4. PICK x \in S : m = Above(x)
  OBVIOUS
<1>5. ASSUME NEW y \in S, <<y, x>> \in R
      PROVE  FALSE
  <2>1. Above(y) \subseteq Above(x)
    BY <1>5
  <2>2. y \in Above(x) /\ y \notin Above(y)
    BY <1>5
  <2>3. Above(x) \in SUBSET S /\ Above(y) \in SUBSET S
    OBVIOUS
  <2>4. <<Above(y), Above(x)>> \in StrictSubsetOrdering(S)
    BY <2>1, <2>2, <2>3 DEF StrictSubsetOrdering
  <2> QED BY <1>3, <1>4, <2>4
<1> QED BY <1>4, <1>5

(* The latest probe of a backend is one of its observations, and none is of  *)
(* a later instant.                                                          *)
LEMMA LatestProbeIsLatest ==
    ASSUME NEW probes \in Seq(Probes), NEW b, \E i \in DOMAIN probes : probes[i].backend = b
    PROVE  \E j \in DOMAIN probes :
              /\ LatestProbe(probes, b) = probes[j]
              /\ probes[j].backend = b
              /\ \A i \in DOMAIN probes : probes[i].backend = b => probes[i].at <= probes[j].at
<1> DEFINE of == {i \in DOMAIN probes : probes[i].backend = b}
           After(j, i) == probes[i].at < probes[j].at \/ (probes[i].at = probes[j].at /\ i < j)
           R == {p \in of \X of : After(p[1], p[2])}
           j0 == CHOOSE i \in of : \A j \in of :
                    \/ probes[j].at < probes[i].at
                    \/ probes[j].at = probes[i].at /\ j <= i
<1>1. DOMAIN probes = 1..Len(probes) /\ Len(probes) \in Nat
  OBVIOUS
<1>2. \A i \in of : i \in Nat /\ probes[i].at \in Nat
  <2>1. \A i \in DOMAIN probes : probes[i] \in Probes
    OBVIOUS
  <2> QED BY <1>1, <2>1 DEF Probes
<1>3. IsFiniteSet(of)
  <2>1. IsFiniteSet(1..Len(probes)) /\ of \in SUBSET (1..Len(probes))
    BY <1>1, FS_Interval
  <2> QED BY <2>1, FS_Subset
<1>4. of # {}
  OBVIOUS
<1>5. \A x, y, z \in of : <<x, y>> \in R /\ <<y, z>> \in R => <<x, z>> \in R
  <2> HIDE DEF of
  <2> QED BY <1>2
<1>6. \A x \in of : <<x, x>> \notin R
  BY <1>2
<1>7. PICK i \in of : \A j \in of : <<j, i>> \notin R
  <2> HIDE DEF of, R
  <2> QED BY <1>3, <1>4, <1>5, <1>6, SomeUnsurpassed
<1>8. ASSUME NEW j \in of
      PROVE  probes[j].at < probes[i].at \/ (probes[j].at = probes[i].at /\ j <= i)
  <2>1. ~After(j, i)
    BY <1>7
  <2>2. i \in Nat /\ j \in Nat /\ probes[i].at \in Nat /\ probes[j].at \in Nat
    BY <1>2
  <2> HIDE DEF of
  <2> QED BY <2>1, <2>2
<1>9. /\ j0 \in of
      /\ \A j \in of : probes[j].at < probes[j0].at \/ (probes[j].at = probes[j0].at /\ j <= j0)
  <2> HIDE DEF of
  <2> QED BY <1>8
<1>10. LatestProbe(probes, b) = probes[j0]
  BY DEF LatestProbe
<1> HIDE DEF j0
<1>11. \A j \in of : probes[j].at <= probes[j0].at
  BY <1>2, <1>9
<1> QED BY <1>9, <1>10, <1>11

(* A probe gap is never reported over a later unhealthy observation, for any *)
(* observations in any order of arrival.                                     *)
THEOREM GapIsCurrent == Spec => []ProbeGapIsCurrent
<1>1. ProbeGapIsCurrent
  <2> DEFINE l == Localization(Attempts(incident))
  <2> HIDE DEF l
  <2> SUFFICES ASSUME NEW probes \in ProbeLogs, ProbeGap(l, probes)
               PROVE  \E j \in DOMAIN probes :
                         /\ probes[j].backend = l.suspect /\ probes[j].healthy
                         /\ \A i \in DOMAIN probes :
                               probes[i].backend = l.suspect /\ ~probes[i].healthy
                               => probes[i].at <= probes[j].at
    BY DEF ProbeGapIsCurrent, l
  <2>1. probes \in Seq(Probes)
    BY InvestigationAssumption
  <2> QED BY <2>1, LatestProbeIsLatest DEF ProbeGap
<1> QED BY <1>1, PTL

----------------------------------------------------------------------------
(* A stabilized service. *)

(* A transaction of which all evidence has arrived is assembled.             *)
LEMMA FullEvidenceCompletes ==
    ASSUME SessionsTyped, NEW E \in SUBSET (Emitted \cup Stray), Untainted(E),
           NEW t \in Transactions, FullyEvidenced(E, t)
    PROVE  Complete(E, t)
<1>1. PICK s \in StagesRun(t) : GatewayNamed(t, s) # NoGateway
  BY DEF FullyEvidenced
<1>2. \A q \in StagesRun(t) : RecordOf(t, q) \in EventsOf(E, t) /\ RecordOf(t, q).stage = q
  BY DEF FullyEvidenced, EventsOf, RecordOf
<1>3. GatewaysSeen(E, t) # {}
  <2>1. RecordOf(t, s).gateway = GatewayNamed(t, s)
    BY DEF RecordOf
  <2> QED BY <1>1, <1>2, <2>1 DEF GatewaysSeen
<1>4. ASSUME NEW q \in RequiredPrefix(E, t)
      PROVE  q \in StagesRun(t)
  <2>1. q \in Stages /\ Started(t)
    BY DEF RequiredPrefix, FullyEvidenced
  <2>2. CASE session[t].fails = NoStage
    BY <2>1, <2>2 DEF StagesRun
  <2>3. CASE session[t].fails # NoStage
    <3> DEFINE f == session[t].fails
    <3>1. f \in Stages
      BY <2>1, <2>3 DEF SessionsTyped, Started
    <3>2. f \in StagesRun(t)
      BY <2>1, <3>1, AssemblyAssumption DEF StagesRun, Stages
    <3>3. RecordOf(t, f).status = "timeout"
      BY DEF RecordOf
    <3>4. f \in FailedStages(E, t)
      BY <1>2, <3>2, <3>3 DEF FailedStages, TerminalStatuses
    <3>5. q <= f
      BY <3>4 DEF RequiredPrefix
    <3> QED BY <2>1, <3>5 DEF StagesRun
  <2> QED BY <2>2, <2>3
<1> QED BY <1>2, <1>3, <1>4 DEF Complete

(* When the service is called stabilized, no transaction with full evidence  *)
(* failed or went through the suspect.                                       *)
THEOREM StabilizedEarned == Spec => []StabilizedIsEarned
<1>1. CollectionInv => StabilizedIsEarned
  <2> DEFINE l == Localization(Attempts(incident))
             C == Attempts(containment)
  <2> HIDE DEF l
  <2> SUFFICES ASSUME CollectionInv, Untainted(containment),
                      Containment(l, TRUE, C) = "stabilized_under_containment",
                      NEW t \in Transactions, FullyEvidenced(containment, t)
               PROVE  session[t].fails = NoStage /\ session[t].gateway # l.suspect
    BY DEF StabilizedIsEarned, l
  <2>1. SessionsTyped /\ containment \in SUBSET (Emitted \cup Stray)
    BY DEF CollectionInv, Collected
  <2>2. Complete(containment, t)
    BY <2>1, FullEvidenceCompletes
  <2>3. Untainted(EventsOf(containment, t))
    BY DEF Untainted, EventsOf
  <2> DEFINE a == Attempt(containment, t)
  <2>4. a \in C
    BY <2>2 DEF Attempts
  <2>5. a.gateway = session[t].gateway /\ FirstFailure(a) = session[t].fails
    BY <2>1, <2>2, <2>3, AttemptTrue
  <2> HIDE DEF a, C
  <2>6. l.suspect \notin Observed(C) /\ Failures(C) = {}
    BY DEF Containment, DrainVerdict
  <2> QED BY <2>4, <2>5, <2>6 DEF Observed, Failures
<1> QED
  BY <1>1, CollectionFaithful, PTL

----------------------------------------------------------------------------
(* The suspect. *)

(* Rates compared by cross-multiplication are ordered as fractions are.      *)
LEMMA RatesOrdered ==
    ASSUME NEW f1 \in Nat, NEW f2 \in Nat, NEW f3 \in Nat,
           NEW a1 \in Nat \ {0}, NEW a2 \in Nat \ {0}, NEW a3 \in Nat \ {0},
           f1 * a2 >= f2 * a1, f2 * a3 >= f3 * a2
    PROVE  /\ f1 * a3 >= f3 * a1
           /\ f1 * a2 > f2 * a1 \/ f2 * a3 > f3 * a2 => f1 * a3 > f3 * a1
<1>1. (f1 * a2) * a3 >= (f2 * a1) * a3
  <2> DEFINE p == f1 * a2
             q == f2 * a1
  <2>1. p \in Nat /\ q \in Nat /\ p >= q
    OBVIOUS
  <2> HIDE DEF p, q
  <2>2. p * a3 >= q * a3
    BY <2>1
  <2> QED BY <2>2 DEF p, q
<1>2. (f2 * a3) * a1 >= (f3 * a2) * a1
  <2> DEFINE p == f2 * a3
             q == f3 * a2
  <2>1. p \in Nat /\ q \in Nat /\ p >= q
    OBVIOUS
  <2> HIDE DEF p, q
  <2>2. p * a1 >= q * a1
    BY <2>1
  <2> QED BY <2>2 DEF p, q
<1>3. /\ f1 * a2 > f2 * a1 => (f1 * a2) * a3 > (f2 * a1) * a3
      /\ f2 * a3 > f3 * a2 => (f2 * a3) * a1 > (f3 * a2) * a1
  <2> DEFINE p == f1 * a2
             q == f2 * a1
             u == f2 * a3
             v == f3 * a2
  <2>1. p \in Nat /\ q \in Nat /\ u \in Nat /\ v \in Nat
    OBVIOUS
  <2> HIDE DEF p, q, u, v
  <2>2. (p > q => p * a3 > q * a3) /\ (u > v => u * a1 > v * a1)
    BY <2>1
  <2> QED BY <2>2 DEF p, q, u, v
<1>4. /\ (f1 * a2) * a3 = (f1 * a3) * a2
      /\ (f2 * a1) * a3 = (f2 * a3) * a1
      /\ (f3 * a2) * a1 = (f3 * a1) * a2
  OBVIOUS
<1> DEFINE x == f1 * a3
           y == f3 * a1
<1>5. x \in Nat /\ y \in Nat
  OBVIOUS
<1>6. /\ x * a2 >= y * a2
      /\ f1 * a2 > f2 * a1 \/ f2 * a3 > f3 * a2 => x * a2 > y * a2
  <2> DEFINE w == f2 * a3
             k == w * a1
             m == x * a2
             n == y * a2
  <2>1. k \in Nat /\ m \in Nat /\ n \in Nat
    OBVIOUS
  <2>2. m >= k /\ k >= n
    BY <1>1, <1>2, <1>4
  <2>3. (f1 * a2 > f2 * a1 => m > k) /\ (f2 * a3 > f3 * a2 => k > n)
    BY <1>3, <1>4
  <2> HIDE DEF k, m, n
  <2>4. m >= n /\ (f1 * a2 > f2 * a1 \/ f2 * a3 > f3 * a2 => m > n)
    BY <2>1, <2>2, <2>3
  <2> QED BY <2>4 DEF m, n
<1> HIDE DEF x, y
<1>7. (x * a2 >= y * a2 => x >= y) /\ (x * a2 > y * a2 => x > y)
  BY <1>5
<1> QED BY <1>6, <1>7 DEF x, y

(* Every observed backend has attempts, and failures if its rate says so.    *)
LEMMA RatesCount ==
    ASSUME NEW A, IsFiniteSet(A), NEW g \in Observed(A)
    PROVE  /\ GatewayRates(A)[g].failed \in Nat
           /\ GatewayRates(A)[g].attempts \in Nat \ {0}
           /\ GatewayRates(A)[g].failed > 0 =>
                \E a \in A : a.gateway = g /\ FirstFailure(a) # NoStage
<1> DEFINE F == {a \in Failures(A) : a.gateway = g}
           B == {a \in A : a.gateway = g}
<1>1. GatewayRates(A)[g].failed = Cardinality(F) /\ GatewayRates(A)[g].attempts = Cardinality(B)
  BY DEF GatewayRates
<1>2. F \in SUBSET A /\ B \in SUBSET A /\ B # {}
  BY DEF Failures, Observed
<1>3. F # {} => \E a \in A : a.gateway = g /\ FirstFailure(a) # NoStage
  BY DEF Failures
<1> HIDE DEF F, B
<1>4. IsFiniteSet(F) /\ IsFiniteSet(B)
  BY <1>2, FS_Subset
<1>5. Cardinality(F) \in Nat /\ Cardinality(B) \in Nat
  BY <1>4, FS_CardinalityType
<1>6. (Cardinality(F) = 0 <=> F = {}) /\ (Cardinality(B) = 0 <=> B = {})
  BY <1>4, FS_EmptySet
<1> QED BY <1>1, <1>2, <1>3, <1>5, <1>6

(* The suspect is an observed backend through which an attempt failed.       *)
LEMMA SuspectFailed ==
    ASSUME NEW A, IsFiniteSet(A), Observed(A) \subseteq Gateways,
           Suspect(GatewayRates(A)) # NoGateway
    PROVE  \E a \in A : /\ a.gateway = Suspect(GatewayRates(A))
                        /\ FirstFailure(a) # NoStage
<1> DEFINE rates == GatewayRates(A)
           D == Observed(A)
           first == CHOOSE g \in D : \A h \in D :
                       ~FailsMore(rates, h, g) /\ (h < g => FailsMore(rates, g, h))
           Surpasses(h, g) == \/ FailsMore(rates, h, g)
                              \/ ~FailsMore(rates, g, h) /\ h < g
           R == {p \in D \X D : Surpasses(p[1], p[2])}
<1>1. DOMAIN rates = D
  BY DEF GatewayRates
<1>2. (\E g \in D : rates[g].failed > 0) /\ Suspect(rates) = first
  BY <1>1 DEF Suspect
<1>3. \A g \in D : /\ rates[g].failed \in Nat /\ rates[g].attempts \in Nat \ {0}
                   /\ rates[g].failed > 0 =>
                        \E a \in A : a.gateway = g /\ FirstFailure(a) # NoStage
                   /\ g \in Nat
  BY RatesCount, AssemblyAssumption DEF Gateways
<1>4. IsFiniteSet(D)
  <2>1. IsFiniteSet(Gateways)
    BY AssemblyAssumption, FS_Interval DEF Gateways
  <2> QED BY <2>1, FS_Subset
<1> HIDE DEF rates, D, first
<1>5. ASSUME NEW x \in D, NEW y \in D, NEW z \in D, Surpasses(x, y), Surpasses(y, z)
      PROVE  Surpasses(x, z)
  <2> DEFINE f1 == rates[x].failed
             f2 == rates[y].failed
             f3 == rates[z].failed
             a1 == rates[x].attempts
             a2 == rates[y].attempts
             a3 == rates[z].attempts
  <2>1. /\ f1 \in Nat /\ f2 \in Nat /\ f3 \in Nat
        /\ a1 \in Nat \ {0} /\ a2 \in Nat \ {0} /\ a3 \in Nat \ {0}
    BY <1>3
  <2>2. /\ f1 * a2 > f2 * a1 \/ (~(f2 * a1 > f1 * a2) /\ x < y)
        /\ f2 * a3 > f3 * a2 \/ (~(f3 * a2 > f2 * a3) /\ y < z)
    BY <1>5 DEF FailsMore
  <2>3. Surpasses(x, z) <=> (f1 * a3 > f3 * a1 \/ (~(f3 * a1 > f1 * a3) /\ x < z))
    BY DEF FailsMore
  <2>4. x \in Nat /\ y \in Nat /\ z \in Nat
    BY <1>3
  <2> HIDE DEF f1, f2, f3, a1, a2, a3, Surpasses
  <2>5. /\ f1 * a2 \in Nat /\ f2 * a1 \in Nat /\ f2 * a3 \in Nat /\ f3 * a2 \in Nat
        /\ f1 * a3 \in Nat /\ f3 * a1 \in Nat
    BY <2>1
  <2>6. f1 * a2 >= f2 * a1 /\ f2 * a3 >= f3 * a2
    BY <2>2, <2>5
  <2>7. /\ f1 * a3 >= f3 * a1
        /\ f1 * a2 > f2 * a1 \/ f2 * a3 > f3 * a2 => f1 * a3 > f3 * a1
    BY <2>1, <2>6, RatesOrdered
  <2> QED BY <2>2, <2>3, <2>4, <2>5, <2>7
<1>6. ASSUME NEW x \in D PROVE ~Surpasses(x, x)
  <2>1. rates[x].failed * rates[x].attempts \in Nat /\ x \in Nat
    BY <1>3
  <2> QED BY <2>1 DEF FailsMore
<1>7. PICK g \in D : \A h \in D : ~Surpasses(h, g)
  <2>1. \A x, y, z \in D : <<x, y>> \in R /\ <<y, z>> \in R => <<x, z>> \in R
    BY <1>5
  <2>2. \A x \in D : <<x, x>> \notin R
    BY <1>6
  <2>3. \E g \in D : \A h \in D : <<h, g>> \notin R
    <3> HIDE DEF R
    <3> QED BY <1>2, <1>4, <2>1, <2>2, SomeUnsurpassed
  <2>4. \A g, h \in D : <<h, g>> \notin R => ~Surpasses(h, g)
    <3> HIDE DEF Surpasses
    <3> QED OBVIOUS
  <2> QED BY <2>3, <2>4
<1>8. first \in D /\ \A h \in D : ~FailsMore(rates, h, first)
  BY <1>7 DEF first
<1>9. rates[first].failed > 0
  <2>1. PICK h \in D : rates[h].failed > 0
    BY <1>2
  <2>2. ~(rates[h].failed * rates[first].attempts > rates[first].failed * rates[h].attempts)
    BY <1>8, <2>1 DEF FailsMore
  <2>3. /\ rates[h].failed \in Nat \ {0} /\ rates[first].failed \in Nat
        /\ rates[h].attempts \in Nat \ {0} /\ rates[first].attempts \in Nat \ {0}
    BY <1>3, <1>8, <2>1
  <2>4. rates[h].failed * rates[first].attempts > 0
    BY <2>3
  <2> QED BY <2>2, <2>3, <2>4
<1> QED BY <1>2, <1>3, <1>8, <1>9 DEF rates

(* The invariant of reports and drains: unless the evidence is stray, a      *)
(* transaction failed through the suspect of the last report, and through    *)
(* the backend that was drained; a handover also had a peer to show.         *)
FailedThrough(g) ==
    \E t \in Transactions : session[t].gateway = g /\ session[t].fails # NoStage

ServedBeside(g) == \E t \in Transactions : Started(t) /\ session[t].gateway # g

SuspectInv ==
    Untainted(incident) =>
        /\ report # NoReport /\ report.localization.suspect # NoGateway =>
             FailedThrough(report.localization.suspect)
        /\ report.status = "technician_investigation_required" =>
             /\ report # NoReport
             /\ report.localization.suspect # NoGateway
             /\ ServedBeside(report.localization.suspect)
        /\ drained # NoGateway => FailedThrough(drained) /\ ServedBeside(drained)

(* What a localization of untainted evidence says of its suspect is true.    *)
LEMMA LocalizationTrue ==
    ASSUME SessionsTyped, NEW E \in SUBSET (Emitted \cup Stray), Untainted(E)
    PROVE  LET l == Localization(Attempts(E))
           IN  /\ l.suspect # NoGateway => FailedThrough(l.suspect)
               /\ ContainmentApplies(l) => l.suspect # NoGateway /\ ServedBeside(l.suspect)
<1> DEFINE A == Attempts(E)
           s == Suspect(GatewayRates(A))
           l == Localization(A)
<1>1. l.suspect = s /\ l.peer = HealthyPeer(GatewayRates(A), s)
  BY DEF Localization
<1>2. ASSUME NEW a \in A
      PROVE  \E t \in Transactions : /\ a.gateway = session[t].gateway
                                     /\ FirstFailure(a) = session[t].fails
                                     /\ Started(t)
  <2>1. PICK t \in Transactions : Complete(E, t) /\ a = Attempt(E, t)
    BY DEF Attempts
  <2>2. Untainted(EventsOf(E, t))
    BY DEF Untainted, EventsOf
  <2>3. a.gateway = session[t].gateway /\ FirstFailure(a) = session[t].fails
    BY <2>1, <2>2, AttemptTrue
  <2>4. PICK e : e \in EventsOf(E, t)
    BY <2>1 DEF Complete, GatewaysSeen
  <2>5. Started(t)
    BY <2>2, <2>4, GenuineEvents DEF StagesRun
  <2> QED BY <2>3, <2>5
<1>3. Observed(A) \subseteq Gateways
  <2>1. ASSUME NEW a \in A PROVE a.gateway \in Gateways
    BY <1>2 DEF Started, SessionsTyped
  <2> QED BY <2>1 DEF Observed
<1>4. IsFiniteSet(A)
  <2> DEFINE T == {u \in Transactions : Complete(E, u)}
             f == [t \in T |-> Attempt(E, t)]
  <2>1. IsFiniteSet(T)
    <3>1. IsFiniteSet(Transactions) /\ T \in SUBSET Transactions
      BY AssemblyAssumption, FS_Interval DEF Transactions
    <3> QED BY <3>1, FS_Subset
  <2>2. f \in Surjection(T, A)
    BY DEF Surjection, Attempts
  <2> HIDE DEF T, f, A
  <2> QED BY <2>1, <2>2, FS_Surjection
<1> HIDE DEF A
<1>5. ASSUME s # NoGateway PROVE FailedThrough(s)
  <2>1. PICK a \in A : a.gateway = s /\ FirstFailure(a) # NoStage
    BY <1>3, <1>4, <1>5, SuspectFailed
  <2> HIDE DEF s
  <2> QED BY <1>2, <2>1 DEF FailedThrough
<1>6. ASSUME ContainmentApplies(l) PROVE s # NoGateway /\ ServedBeside(s)
  <2>1. s # NoGateway /\ HealthyPeer(GatewayRates(A), s) # NoGateway
    BY <1>1, <1>6 DEF ContainmentApplies
  <2>2. DOMAIN GatewayRates(A) = Observed(A)
    BY DEF GatewayRates
  <2> HIDE DEF s
  <2>3. Observed(A) \ {s} # {}
    BY <2>1, <2>2 DEF HealthyPeer
  <2>4. PICK a \in A : a.gateway # s
    BY <2>3 DEF Observed
  <2> QED BY <1>2, <2>1, <2>4 DEF ServedBeside
<1> HIDE DEF s, l
<1> QED BY <1>1, <1>5, <1>6 DEF l, A

(* Sessions, once started, stay; what is collected stays collected.          *)
LEMMA EvidenceStays ==
    ASSUME CollectionInv, [Next]_vars
    PROVE  /\ incident \subseteq incident'
           /\ \A t \in Transactions : Started(t) => session'[t] = session[t] /\ Started(t)'
<1>1. ASSUME NEW t \in Transactions, Connect(t)
      PROVE  \A u \in Transactions : Started(u) => session'[u] = session[u]
  BY <1>1 DEF Connect, CollectionInv, SessionsTyped
<1>2. CASE LiveTest
  <2>1. PICK T \in SUBSET Transactions : \E flows \in [T -> LiveSessions] :
           /\ IsLiveRun(T, flows)
           /\ session' = [t \in Transactions |-> IF t \in T THEN flows[t] ELSE session[t]]
    BY <1>2 DEF LiveTest
  <2>2. \A u \in Transactions : Started(u) => u \notin T /\ session'[u] = session[u]
    BY <2>1 DEF IsLiveRun
  <2>3. incident \subseteq incident'
    BY <1>2 DEF LiveTest
  <2> QED BY <2>2, <2>3 DEF Started
<1>3. ASSUME UNCHANGED session, incident \subseteq incident'
      PROVE  /\ incident \subseteq incident'
             /\ \A t \in Transactions : Started(t) => session'[t] = session[t] /\ Started(t)'
  BY <1>3 DEF Started
<1>4. ASSUME NEW r \in Collectable \cup Stray, Deliver(r)
      PROVE  UNCHANGED session /\ incident \subseteq incident'
  BY <1>4 DEF Deliver
<1>5. ASSUME NEW performed \in BOOLEAN, Analyse(performed)
      PROVE  UNCHANGED session /\ incident \subseteq incident'
  BY <1>5 DEF Analyse
<1>6. CASE Drain
  BY <1>3, <1>6 DEF Drain
<1>7. CASE UNCHANGED vars
  BY <1>3, <1>7 DEF vars
<1>8. ASSUME NEW t \in Transactions, Connect(t)
      PROVE  /\ incident \subseteq incident'
             /\ \A u \in Transactions : Started(u) => session'[u] = session[u] /\ Started(u)'
  BY <1>1, <1>8 DEF Connect, Started
<1> QED BY <1>2, <1>3, <1>4, <1>5, <1>6, <1>7, <1>8 DEF Next

LEMMA NextSuspect ==
    ASSUME CollectionInv, SuspectInv, [Next]_vars
    PROVE  SuspectInv'
<1>0. Untainted(incident') => Untainted(incident)
  BY EvidenceStays DEF Untainted
<1>1. ASSUME NEW g, g # NoGateway, FailedThrough(g) PROVE FailedThrough(g)'
  <2>1. PICK t \in Transactions : session[t].gateway = g /\ session[t].fails # NoStage
    BY <1>1 DEF FailedThrough
  <2>2. Started(t)
    BY <1>1, <2>1 DEF Started, NotStarted
  <2> QED BY <2>1, <2>2, EvidenceStays DEF FailedThrough
<1>2. ASSUME NEW g, ServedBeside(g) PROVE ServedBeside(g)'
  BY <1>2, EvidenceStays DEF ServedBeside
<1>3. ASSUME UNCHANGED <<report, drained>>
      PROVE  SuspectInv'
  <2> SUFFICES ASSUME Untainted(incident')
               PROVE  /\ report # NoReport /\ report.localization.suspect # NoGateway =>
                           FailedThrough(report.localization.suspect)'
                      /\ report.status = "technician_investigation_required" =>
                           /\ report # NoReport
                           /\ report.localization.suspect # NoGateway
                           /\ ServedBeside(report.localization.suspect)'
                      /\ drained # NoGateway => FailedThrough(drained)' /\ ServedBeside(drained)'
    BY <1>3 DEF SuspectInv, FailedThrough, ServedBeside, Untainted
  <2>1. PICK s : s = report.localization.suspect
    OBVIOUS
  <2>2. PICK d : d = drained
    OBVIOUS
  <2>3. /\ s' = s /\ d' = d
        /\ report.localization.suspect' = s /\ drained' = d
    BY <1>3, <2>1, <2>2
  <2> QED BY <1>0, <1>1, <1>2, <1>3, <2>1, <2>2 DEF SuspectInv, FailedThrough, ServedBeside
<1>4. ASSUME NEW performed \in BOOLEAN, Analyse(performed)
      PROVE  SuspectInv'
  <2> SUFFICES ASSUME Untainted(incident)'
               PROVE  /\ report' # NoReport /\ report'.localization.suspect # NoGateway =>
                           FailedThrough(report'.localization.suspect)
                      /\ report'.status = "technician_investigation_required" =>
                           /\ report' # NoReport
                           /\ report'.localization.suspect # NoGateway
                           /\ ServedBeside(report'.localization.suspect)
                      /\ drained # NoGateway => FailedThrough(drained) /\ ServedBeside(drained)
    BY <1>4 DEF SuspectInv, FailedThrough, ServedBeside, Started, Analyse
  <2> DEFINE l == Localization(Attempts(incident))
  <2>1. /\ l.suspect # NoGateway => FailedThrough(l.suspect)
        /\ ContainmentApplies(l) => l.suspect # NoGateway /\ ServedBeside(l.suspect)
    BY <1>0, LocalizationTrue DEF CollectionInv, Collected, Untainted
  <2>2. PICK probes : report' = Report(l, performed, Attempts(containment), probes)
    BY <1>4 DEF Analyse
  <2> HIDE DEF l
  <2>3. report'.localization = l /\ report'.status = HandoffStatus(l) /\ report' # NoReport
    BY <2>2 DEF Report, NoReport
  <2>4. report'.status = "technician_investigation_required" => ContainmentApplies(l)
    BY <2>3 DEF HandoffStatus
  <2> QED BY <1>0, <2>1, <2>3, <2>4 DEF SuspectInv
<1>5. CASE Drain
  <2> SUFFICES ASSUME Untainted(incident)'
               PROVE  /\ report # NoReport /\ report.localization.suspect # NoGateway =>
                           FailedThrough(report.localization.suspect)
                      /\ report.status = "technician_investigation_required" =>
                           /\ report # NoReport
                           /\ report.localization.suspect # NoGateway
                           /\ ServedBeside(report.localization.suspect)
                      /\ drained' # NoGateway => FailedThrough(drained') /\ ServedBeside(drained')
    BY <1>5 DEF SuspectInv, FailedThrough, ServedBeside, Started, Drain
  <2>1. drained' = report.localization.suspect /\ report.status = "technician_investigation_required"
    BY <1>5 DEF Drain
  <2> QED BY <1>0, <2>1 DEF SuspectInv
<1>6. ASSUME NEW t \in Transactions, Connect(t) PROVE SuspectInv'
  BY <1>3, <1>6 DEF Connect
<1>7. CASE LiveTest
  BY <1>3, <1>7 DEF LiveTest
<1>8. ASSUME NEW r \in Collectable \cup Stray, Deliver(r) PROVE SuspectInv'
  BY <1>3, <1>8 DEF Deliver
<1>9. CASE UNCHANGED vars
  BY <1>3, <1>9 DEF vars
<1> QED BY <1>4, <1>5, <1>6, <1>7, <1>8, <1>9 DEF Next

(* No healthy backend is handed over or drained, for any number of backends  *)
(* and transactions and however old the report has become.                   *)
THEOREM SuspectFailedIndeed == Spec => []SuspectReallyFailed
<1>1. Init => SuspectInv
  BY DEF Init, SuspectInv, NoReport
<1>2. CollectionInv /\ SuspectInv /\ [Next]_vars => SuspectInv'
  BY NextSuspect
<1>3. SuspectInv => SuspectReallyFailed
  <2> SUFFICES ASSUME SuspectInv, report # NoReport, Untainted(incident),
                      NEW g \in {report.localization.suspect, drained} \ {NoGateway}
               PROVE  /\ \E t \in Transactions :
                            session[t].gateway = g /\ session[t].fails # NoStage
                      /\ drained = g =>
                            \E t \in Transactions : Started(t) /\ session[t].gateway # g
    BY DEF SuspectReallyFailed
  <2> QED BY DEF SuspectInv, FailedThrough, ServedBeside
<1> QED BY <1>1, <1>2, <1>3, CollectionFaithful, PTL DEF Spec
=============================================================================
