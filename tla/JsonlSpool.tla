------------------------------ MODULE JsonlSpool ------------------------------
(***************************************************************************)
(* The durable evidence spool of the ServiceTracer collector               *)
(* (servicetracer/collector.py, class JsonlSpool) under the front ends     *)
(* that write to it: the threading HTTP server, the structured-syslog      *)
(* servers and the one-shot "ingest" command (collector_cli.py), one       *)
(* process at a time (servicetracer/collectors/README.md:98).              *)
(*                                                                         *)
(* Every client holds one batch of records and one request.  A client of   *)
(* the HTTP server or of "ingest" keeps sending the same batch until it    *)
(* sees an answer; a syslog sender gets no answer and sends once.          *)
(*                                                                         *)
(* The spool is a text file: the complete lines, and an unterminated tail. *)
(* A line is a record or Garbled, text that json.loads refuses.  "durable" *)
(* is the part of the file that survives a power loss.                     *)
(***************************************************************************)
EXTENDS Naturals, Sequences, FiniteSets

CONSTANTS Clients,       \* senders, each with one batch to deliver
          Syslog,        \* the clients that never see an answer
          Unauthorized,  \* the HTTP clients without the bearer token
          Ids, Bodies,   \* evidence identities and record contents
          Malformed,     \* a record that validate_source_record refuses
          Garbled,       \* a line that is not one JSON object
          Empty,         \* no unterminated text at the end of the file
          None,          \* nobody
          Offers,        \* the batches a client may hold
          Faults,        \* the kinds of fault the environment may inject
          MaxFaults      \* how many of them

Record == [id : Ids, body : Bodies]

FaultKinds == {"kill", "power", "tear", "ioerror", "lost_reply"}

ASSUME SpoolAssumption ==
    /\ Syslog \subseteq Clients
    /\ Unauthorized \subseteq Clients
    /\ None \notin Clients \cup Bodies
    /\ Malformed \notin Record
    /\ Garbled \notin Record
    /\ Empty \notin Record \cup {Garbled}
    /\ Offers \subseteq Seq(Record \cup {Malformed})
    /\ Faults \subseteq FaultKinds
    /\ MaxFaults \in Nat

VARIABLES
    batch,    \* [Clients -> Offers], what each client wants to deliver
    pc,       \* where the request of each client stands
    todo,     \* positions of the batch still to be written ("accepted")
    lock,     \* the client whose handler holds JsonlSpool._lock, or None
    lines,    \* the complete lines of the file
    tail,     \* the unterminated text after them
    durable,  \* the file as a power loss would leave it at worst
    acked,    \* records named in a receipt that reached its client
    faults    \* how many faults were injected, and of which kinds

file == <<lines, tail>>
spoolVars == <<batch, pc, todo, lock, lines, tail, durable, acked, faults>>

Phases == {"idle", "waiting", "locked", "writing", "newline", "sync",
           "reply", "acked", "rejected", "unseen"}
InFlight == {"waiting", "locked", "writing", "newline", "sync", "reply"}
Holding == {"locked", "writing", "newline", "sync"}

-----------------------------------------------------------------------------
(* What a reader of the file finds.                                        *)

Members(seq) == {seq[i] : i \in DOMAIN seq}

Entries == Members(lines) \cup ({tail} \ {Empty})

SameIdentity(r, s) == r.id = s.id

\* _load_index raises on the first bad line or divergent identity.
Loads(entries) ==
    /\ Garbled \notin entries
    /\ \A r, s \in entries : SameIdentity(r, s) => r = s

\* Mutant: the batch is compared with the index only, not with itself.
ConflictsIndexOnly(b, entries) ==
    \E i \in DOMAIN b : \E r \in entries : SameIdentity(b[i], r) /\ b[i] # r

\* append raises when a record diverges from the index or from its own batch.
Conflicts(b, entries) ==
    \E i \in DOMAIN b : \E r \in entries \cup {b[j] : j \in 1..(i - 1)} :
        SameIdentity(b[i], r) /\ b[i] # r

Admits(b, entries) == Loads(entries) /\ ~Conflicts(b, entries)

\* Mutant: duplicates inside the batch are not noticed.
AcceptedTwice(b, entries) == {i \in DOMAIN b : b[i] \notin entries}

\* The positions append writes: not in the index, first in the batch.
Accepted(b, entries) ==
    {i \in DOMAIN b : b[i] \notin entries \cup {b[j] : j \in 1..(i - 1)}}

\* What the front end refuses before it asks for the lock.
Refused(c) ==
    \/ c \in Unauthorized
    \/ batch[c] = <<>>
    \/ Malformed \in Members(batch[c])

Foremost(positions) == CHOOSE i \in positions : \A j \in positions : i <= j

\* Text at the end of a file that already has an unterminated end.
Join(end, text) == IF end = Empty THEN text ELSE Garbled

EndLine(text, seq) == IF text = Empty THEN seq ELSE Append(seq, text)

-----------------------------------------------------------------------------
Goto(c, phase) == pc' = [pc EXCEPT ![c] = phase]

\* A syslog client that loses its request does not know and never resends.
AfterLoss(c) == IF c \in Syslog THEN "unseen" ELSE "idle"

SpoolInit ==
    /\ batch \in [Clients -> Offers]
    /\ pc = [c \in Clients |-> "idle"]
    /\ todo = [c \in Clients |-> {}]
    /\ lock = None
    /\ lines = <<>>
    /\ tail = Empty
    /\ durable = [lines |-> <<>>, tail |-> Empty]
    /\ acked = {}
    /\ faults = [count |-> 0, kinds |-> {}]

\* The request is refused by the front end: the client is told (HTTP 4xx,
\* exit status) or, for syslog, the message is dropped.
Refuse(c) ==
    /\ pc[c] = "idle"
    /\ Refused(c)
    /\ Goto(c, "rejected")
    /\ UNCHANGED <<batch, todo, lock, file, durable, acked, faults>>

Submit(c) ==
    /\ pc[c] = "idle"
    /\ ~Refused(c)
    /\ Goto(c, "waiting")
    /\ UNCHANGED <<batch, todo, lock, file, durable, acked, faults>>

\* Mutant: the critical section is not one.
AcquireAnyway(c) ==
    /\ pc[c] = "waiting"
    /\ lock' = c
    /\ Goto(c, "locked")
    /\ UNCHANGED <<batch, todo, file, durable, acked, faults>>

Acquire(c) ==
    /\ pc[c] = "waiting"
    /\ lock = None
    /\ lock' = c
    /\ Goto(c, "locked")
    /\ UNCHANGED <<batch, todo, file, durable, acked, faults>>

\* Mutant: an exception leaves the lock held.
RejectBatchLocked(c) ==
    /\ pc[c] = "locked"
    /\ ~Admits(batch[c], Entries)
    /\ Goto(c, "rejected")
    /\ UNCHANGED <<batch, todo, lock, file, durable, acked, faults>>

\* _load_index or the preflight loop raises ValueError: nothing is written.
RejectBatch(c) ==
    /\ pc[c] = "locked"
    /\ ~Admits(batch[c], Entries)
    /\ Goto(c, "rejected")
    /\ lock' = None
    /\ UNCHANGED <<batch, todo, file, durable, acked, faults>>

\* Mutant: a batch with nothing new is an error.
DuplicateBatchRefused(c) ==
    /\ pc[c] = "locked"
    /\ Admits(batch[c], Entries)
    /\ Accepted(batch[c], Entries) = {}
    /\ Goto(c, "rejected")
    /\ lock' = None
    /\ UNCHANGED <<batch, todo, file, durable, acked, faults>>

\* Every record is an exact duplicate: the receipt is made without a write.
DuplicateBatch(c) ==
    /\ pc[c] = "locked"
    /\ Admits(batch[c], Entries)
    /\ Accepted(batch[c], Entries) = {}
    /\ Goto(c, "reply")
    /\ lock' = None
    /\ UNCHANGED <<batch, todo, file, durable, acked, faults>>

\* Mutant: the spool is opened with mode "w".
AcceptBatchTruncating(c) ==
    /\ pc[c] = "locked"
    /\ Admits(batch[c], Entries)
    /\ Accepted(batch[c], Entries) # {}
    /\ todo' = [todo EXCEPT ![c] = Accepted(batch[c], Entries)]
    /\ lines' = <<>>
    /\ tail' = Empty
    /\ Goto(c, "writing")
    /\ UNCHANGED <<batch, lock, durable, acked, faults>>

AcceptBatch(c) ==
    /\ pc[c] = "locked"
    /\ Admits(batch[c], Entries)
    /\ Accepted(batch[c], Entries) # {}
    /\ todo' = [todo EXCEPT ![c] = Accepted(batch[c], Entries)]
    /\ Goto(c, "writing")
    /\ UNCHANGED <<batch, lock, file, durable, acked, faults>>

WriteRecord(c) ==
    /\ pc[c] = "writing"
    /\ tail' = Join(tail, batch[c][Foremost(todo[c])])
    /\ Goto(c, "newline")
    /\ UNCHANGED <<batch, todo, lock, lines, durable, acked, faults>>

WriteNewline(c) ==
    /\ pc[c] = "newline"
    /\ lines' = EndLine(tail, lines)
    /\ tail' = Empty
    /\ todo' = [todo EXCEPT ![c] = @ \ {Foremost(@)}]
    /\ Goto(c, IF todo'[c] = {} THEN "sync" ELSE "writing")
    /\ UNCHANGED <<batch, lock, durable, acked, faults>>

\* Mutant: no fsync.
SyncNothing(c) ==
    /\ pc[c] = "sync"
    /\ Goto(c, "reply")
    /\ lock' = None
    /\ UNCHANGED <<batch, todo, file, durable, acked, faults>>

\* flush, fsync, and the end of the critical section.
Sync(c) ==
    /\ pc[c] = "sync"
    /\ durable' = [lines |-> lines, tail |-> tail]
    /\ Goto(c, "reply")
    /\ lock' = None
    /\ UNCHANGED <<batch, todo, file, acked, faults>>

\* The receipt: it names the accepted records and the duplicates alike.
Reply(c) ==
    /\ pc[c] = "reply"
    /\ Goto(c, IF c \in Syslog THEN "unseen" ELSE "acked")
    /\ acked' = IF c \in Syslog THEN acked ELSE acked \cup Members(batch[c])
    /\ UNCHANGED <<batch, todo, lock, file, durable, faults>>

-----------------------------------------------------------------------------
(* The environment.                                                        *)

Inject(kind, torn) ==
    /\ kind \in Faults
    /\ faults.count < MaxFaults
    /\ faults' = [count |-> faults.count + 1,
                  kinds |-> faults.kinds \cup {kind}
                                \cup IF torn THEN {"tear"} ELSE {}]

\* The process is gone, and its lock with it: every client in it loses its
\* request.
Abandon ==
    /\ pc' = [c \in Clients |-> IF pc[c] \in InFlight THEN AfterLoss(c) ELSE pc[c]]
    /\ todo' = [c \in Clients |-> {}]
    /\ lock' = None

\* Without "tear" a write that is cut short is cut between two lines.
CutBetweenLines == "tear" \in Faults \/ \A c \in Clients : pc[c] # "newline"

\* The text a writer leaves behind: all of it, or part of the next record.
TornTails ==
    {tail} \cup IF "tear" \in Faults /\ \E c \in Clients : pc[c] = "writing"
                THEN {Garbled} ELSE {}

\* The process is killed (systemd restarts it): the file keeps what the
\* kernel was given, synced or not.
Kill ==
    /\ \E c \in Clients : pc[c] \in InFlight
    /\ CutBetweenLines
    /\ tail' \in TornTails
    /\ Inject("kill", tail' # Empty)
    /\ Abandon
    /\ UNCHANGED <<batch, lines, durable, acked>>

\* The tails a file cut after its first k lines can end with.
CutTails(k) ==
    LET next == IF k < Len(lines) THEN lines[k + 1] ELSE tail
    IN  {Empty} \cup IF "tear" \in Faults /\ next # Empty
                     THEN {next, Garbled}
                     ELSE IF k = Len(lines) THEN {tail} ELSE {}

\* The machine loses power: the file keeps a prefix of its content that
\* contains everything synced.
PowerLoss ==
    /\ CutBetweenLines
    /\ \E k \in Len(durable.lines)..Len(lines) :
         /\ lines' = SubSeq(lines, 1, k)
         /\ tail' \in CutTails(k)
         /\ k = Len(durable.lines) /\ durable.tail # Empty
                => tail' \in {durable.tail, Join(durable.tail, Garbled)}
         /\ durable' = [lines |-> lines', tail |-> tail']
    /\ Inject("power", tail' # Empty)
    /\ Abandon
    /\ UNCHANGED <<batch, acked>>

\* write, flush or fsync raises OSError (disk full, I/O error): the handler
\* dies without an answer, what was written stays written and unsynced.
WriteFails(c) ==
    /\ pc[c] \in {"writing", "newline", "sync"}
    /\ pc[c] = "newline" => "tear" \in Faults
    /\ tail' \in IF pc[c] = "writing" THEN TornTails ELSE {tail}
    /\ Inject("ioerror", tail' # Empty)
    /\ todo' = [todo EXCEPT ![c] = {}]
    /\ Goto(c, AfterLoss(c))
    /\ lock' = None
    /\ UNCHANGED <<batch, lines, durable, acked>>

\* The receipt is lost on its way: the client sends its batch again.
LoseReply(c) ==
    /\ Inject("lost_reply", FALSE)
    /\ pc[c] = "reply"
    /\ Goto(c, AfterLoss(c))
    /\ UNCHANGED <<batch, todo, lock, file, durable, acked>>

-----------------------------------------------------------------------------
Serve(c) ==
    \/ Refuse(c) \/ Submit(c) \/ Acquire(c)
    \/ RejectBatch(c) \/ DuplicateBatch(c) \/ AcceptBatch(c)
    \/ WriteRecord(c) \/ WriteNewline(c) \/ Sync(c) \/ Reply(c)

SpoolNext ==
    \/ \E c \in Clients : Serve(c)
    \/ Kill \/ PowerLoss
    \/ \E c \in Clients : WriteFails(c)
    \/ \E c \in Clients : LoseReply(c)

Fairness == \A c \in Clients : WF_spoolVars(Serve(c))

SpoolSpec == SpoolInit /\ [][SpoolNext]_spoolVars
FairSpec == SpoolSpec /\ Fairness
-----------------------------------------------------------------------------
(* Properties.                                                             *)

\* A record of the file, whether or not its line is terminated.
Readable == Entries \ {Garbled}

\* Two records with one identity never differ in the file: the index that
\* append checked is still the content of the file when append writes
\* (collector.py:142-168), for every interleaving of the handler threads of
\* one process and every crash.
OneContentPerIdentity ==
    \A r, s \in Readable : SameIdentity(r, s) => r = s

\* An exact duplicate is never written again, however often a client repeats
\* its batch after a crash, an error or a lost answer (collector.py:151-158).
NoSecondCopy ==
    /\ \A i, j \in DOMAIN lines :
           i # j /\ lines[i] \in Record => lines[i] # lines[j]
    /\ tail \in Record => tail \notin Members(lines)

\* What a receipt vouches for, as accepted or as a duplicate, has been
\* fsynced by the time the client sees the receipt, and survives a power loss
\* (collector.py:167-178), unless a process died or a write failed before its
\* fsync, or a write was torn.
AckedDurable ==
    faults.kinds \subseteq {"power", "lost_reply"}
        => acked \subseteq Members(durable.lines)

\* Whenever no writer is in its critical section, a reader of the file
\* (the next append, status(), a restarted collector) can load the index.
ReopensClean ==
    (\A c \in Clients : pc[c] \notin Holding) => Loads(Entries)

\* The same, except after a torn write: kills, power losses and errors that
\* fall between two lines leave a spool that loads.
ReopensUnlessTorn == "tear" \notin faults.kinds => ReopensClean

\* A batch that no other client contradicts, nor itself.
Uncontested(c) ==
    /\ c \notin Syslog
    /\ ~Refused(c)
    /\ ~Conflicts(batch[c], UNION {Members(batch[d]) : d \in Clients \ {c}})

\* A client that keeps sending such a batch gets its receipt in the end: a
\* retry of records that are already stored is never turned into a refusal,
\* and the lock is always given back.
UncontestedAcked ==
    \A c \in Clients : Uncontested(c) ~> pc[c] = "acked"

\* Every request ends: the lock of JsonlSpool is released on every path,
\* exceptions included.
EveryRequestEnds ==
    <>[](\A c \in Clients : pc[c] \in {"acked", "rejected", "unseen"})

\* The spool implements the write-once store its clients rely on.
Log == INSTANCE EvidenceLog WITH
           NoBody <- None,
           stored <- [i \in Ids |->
                        IF \E r \in Readable : r.id = i
                        THEN (CHOOSE r \in Readable : r.id = i).body
                        ELSE None],
           promised <- acked

\* Steps of the spool are steps of EvidenceLog: a stored record is never
\* replaced, only what is stored is promised, nothing promised is lost.
ImplementsEvidenceLog == Log!Spec
=============================================================================
