----------------------------- MODULE ReportDelivery -----------------------------
(***************************************************************************)
(* The publication command (servicetracer/publish_cli.py): it sanitizes a  *)
(* technician handoff, dates it and either replaces a local file through a *)
(* temporary one or puts it into a blob (report_publication.py).  Several  *)
(* invocations may be under way, each may be killed, an upload may be lost *)
(* or arrive after its client has given up, and the page (docs/app.js)     *)
(* reads what is there.                                                    *)
(*                                                                         *)
(* A file name refers to an inode: opening a temporary file that is there  *)
(* truncates it, and a writer keeps writing to the inode it opened.        *)
(***************************************************************************)
EXTENDS Naturals, FiniteSets

CONSTANTS Invocations,  \* the invocations of the command
          Jobs,         \* what one may be asked to publish
          MaxTime,      \* bound on the clock
          NoFile, Empty, Torn  \* a missing file and spoilt contents

\* Where a handoff differs from what a sanitizer or a page could ask of it.
Flaws == {"status", "claimed_cause", "cause_state", "incident", "load_balancer",
          "localization", "backend_states", "failure_rates", "rate_range",
          "workflow", "step", "counts"}

Handoff == [flaws : SUBSET Flaws, private : BOOLEAN]

ASSUME DeliveryAssumption ==
    /\ IsFiniteSet(Invocations)
    /\ Jobs \subseteq [report : Handoff, ttl : Nat, source : BOOLEAN,
                       to : {"file", "blob"}]
    /\ MaxTime \in Nat
    /\ NoFile \notin Invocations

VARIABLES
    now,        \* the clock
    cli,        \* where each invocation stands
    temp,       \* the inode of the temporary file
    file,       \* the inode of the published file
    content,    \* what the inodes hold
    publicBlob,       \* the published blob
    uploads,    \* how often an invocation's upload is on its way
    overlapped, \* history: two invocations have been under way at once
    late,       \* history: an upload arrived that was reported as failed
    served      \* history: invocations whose envelope readers could fetch

deliveryVars == <<now, cli, temp, file, content, publicBlob, uploads, overlapped, late, served>>

Envelope == [by : Invocations, report : Handoff, at : 0..MaxTime, ttl : Nat]

ASSUME ContentAssumption == {NoFile, Empty, Torn} \cap Envelope = {}

Ended == {"refused", "written", "published", "killed"}
Underway == {"built", "opened", "closed", "ready", "sent", "stored", "rejected"}

Process == [pc : {"idle"} \cup Underway \cup Ended,
            envelope : Envelope \cup {NoFile}, inode : Invocations \cup {NoFile}]

DeliveryTypeOK ==
    /\ now \in 0..MaxTime
    /\ cli \in [Invocations -> Process]
    /\ {temp, file} \subseteq Invocations \cup {NoFile}
    /\ content \in [Invocations -> Envelope \cup {NoFile, Empty, Torn}]
    /\ publicBlob \in Envelope \cup {NoFile}
    /\ uploads \in [Invocations -> Nat]
    /\ overlapped \in BOOLEAN /\ late \in BOOLEAN
    /\ served \subseteq Invocations

DeliveryInit ==
    /\ now = 0
    /\ cli = [p \in Invocations |-> [pc |-> "idle", envelope |-> NoFile,
                                     inode |-> NoFile]]
    /\ temp = NoFile
    /\ file = NoFile
    /\ content = [p \in Invocations |-> NoFile]
    /\ publicBlob = NoFile
    /\ uploads = [p \in Invocations |-> 0]
    /\ overlapped = FALSE
    /\ late = FALSE
    /\ served = {}

At(p, pc) == cli[p].pc = pc
Goes(p, pc) == cli' = [cli EXCEPT ![p].pc = pc]

-----------------------------------------------------------------------------
(* The envelope.                                                           *)

\* Mutant: the localization object is not required.
RefusedWithoutLocalization ==
    {"status", "claimed_cause", "cause_state", "incident", "load_balancer",
     "backend_states", "failure_rates", "rate_range", "workflow", "step"}

\* What sanitize_technician_handoff refuses; the figures of the incident are
\* copied when they are there.
Refused ==
    {"status", "claimed_cause", "cause_state", "incident", "load_balancer",
     "localization", "backend_states", "failure_rates", "rate_range",
     "workflow", "step"}

Sanitized(report) == [report EXCEPT !.private = FALSE]

Lifetimes == 60..86400

Publishable(job) ==
    /\ job.source
    /\ job.ttl \in Lifetimes
    /\ job.report.flaws \cap Refused = {}

Dated(p, job) ==
    [by |-> p, report |-> Sanitized(job.report), at |-> now, ttl |-> job.ttl]

Prepare(p) ==
    /\ At(p, "idle")
    /\ \E job \in Jobs :
         /\ Publishable(job)
         /\ cli' = [cli EXCEPT ![p] =
                      [pc |-> IF job.to = "file" THEN "built" ELSE "ready",
                       envelope |-> Dated(p, job), inode |-> NoFile]]
    /\ overlapped' = (overlapped \/ \E q \in Invocations : cli[q].pc \in Underway)
    /\ UNCHANGED <<now, temp, file, content, publicBlob, uploads, late, served>>

\* The report cannot be read, or may not be published.
Refuse(p) ==
    /\ At(p, "idle")
    /\ \E job \in Jobs : ~Publishable(job)
    /\ Goes(p, "refused")
    /\ UNCHANGED <<now, temp, file, content, publicBlob, uploads, overlapped, late, served>>

-----------------------------------------------------------------------------
(* write_public_envelope.                                                  *)

\* Mutant: the published file itself is opened.
OpenInPlace(p) ==
    /\ At(p, "built")
    /\ file' = IF file = NoFile THEN p ELSE file
    /\ cli' = [cli EXCEPT ![p].pc = "opened", ![p].inode = file']
    /\ content' = [content EXCEPT ![file'] = Empty]
    /\ temp' = file'
    /\ UNCHANGED <<now, publicBlob, uploads, overlapped, late, served>>

Open(p) ==
    /\ At(p, "built")
    /\ \E inode \in {IF temp = NoFile THEN p ELSE temp} :
         /\ temp' = inode
         /\ cli' = [cli EXCEPT ![p] = [pc |-> "opened", envelope |-> @.envelope,
                                        inode |-> inode]]
         /\ content' = [content EXCEPT ![inode] = Empty]
    /\ UNCHANGED <<now, file, publicBlob, uploads, overlapped, late, served>>

Readable(f, c) ==
    {p \in Invocations : f # NoFile /\ c[f] \in Envelope /\ c[f].by = p}

\* The bytes go to the inode opened before; over another writer's longer ones
\* they leave a tail.
Write(p) ==
    /\ At(p, "opened")
    /\ \E bytes \in {cli[p].envelope} \cup
                    IF content[cli[p].inode] = Empty THEN {} ELSE {Torn} :
         content' = [content EXCEPT ![cli[p].inode] = bytes]
    /\ Goes(p, "closed")
    /\ served' = served \cup Readable(file, content')
    /\ UNCHANGED <<now, temp, file, publicBlob, uploads, overlapped, late>>

\* Another writer may have renamed the temporary file already: OSError.
Replace(p) ==
    /\ At(p, "closed")
    /\ IF temp = NoFile
       THEN /\ Goes(p, "refused")
            /\ UNCHANGED <<temp, file, served>>
       ELSE /\ Goes(p, "written")
            /\ file' = temp
            /\ temp' = NoFile
            /\ served' = served \cup Readable(file', content)
    /\ UNCHANGED <<now, content, publicBlob, uploads, overlapped, late>>

-----------------------------------------------------------------------------
(* publish_to_azure_blob.                                                  *)

\* The destination is refused, or no token is issued.
Unauthorized(p) ==
    /\ At(p, "ready")
    /\ Goes(p, "refused")
    /\ UNCHANGED <<now, temp, file, content, publicBlob, uploads, overlapped, late, served>>

Send(p) ==
    /\ At(p, "ready")
    /\ Goes(p, "sent")
    /\ uploads' = [uploads EXCEPT ![p] = @ + 1]
    /\ UNCHANGED <<now, temp, file, content, publicBlob, overlapped, late, served>>

\* The storage service stores an upload, or turns it down, whether or not its
\* client still waits.
Store(p) ==
    /\ uploads[p] > 0
    /\ uploads' = [uploads EXCEPT ![p] = @ - 1]
    /\ publicBlob' = cli[p].envelope
    /\ cli' = [cli EXCEPT ![p].pc = IF @ = "sent" THEN "stored" ELSE @]
    /\ late' = (late \/ cli[p].pc \in {"refused", "killed"})
    /\ served' = served \cup {p}
    /\ UNCHANGED <<now, temp, file, content, overlapped>>

TurnDown(p) ==
    /\ uploads[p] > 0
    /\ uploads' = [uploads EXCEPT ![p] = @ - 1]
    /\ cli' = [cli EXCEPT ![p].pc = IF @ = "sent" THEN "rejected" ELSE @]
    /\ UNCHANGED <<now, temp, file, content, publicBlob, overlapped, late, served>>

\* Mutant: any answer is a success.
AnyAnswer(p) == IF cli[p].pc \in {"stored", "rejected"} THEN "published" ELSE "refused"

\* The status is 200 or 201.
Answer(p) == IF At(p, "stored") THEN "published" ELSE "refused"

\* Mutant: an upload that is not answered in time is sent again.
GiveUpAndSendAgain(p) ==
    /\ At(p, "sent") /\ uploads[p] = 1
    /\ Goes(p, "ready")
    /\ UNCHANGED <<now, temp, file, content, publicBlob, uploads, overlapped, late, served>>

\* No answer within the timeout.
GiveUp(p) ==
    /\ cli[p].pc \in {"sent", "stored"}
    /\ Goes(p, "refused")
    /\ UNCHANGED <<now, temp, file, content, publicBlob, uploads, overlapped, late, served>>

Answered(p) ==
    /\ cli[p].pc \in {"stored", "rejected"}
    /\ Goes(p, Answer(p))
    /\ UNCHANGED <<now, temp, file, content, publicBlob, uploads, overlapped, late, served>>

-----------------------------------------------------------------------------
(* The environment.                                                        *)

\* The process is killed; what it was writing may be half there.
Kill(p) ==
    /\ cli[p].pc \in Underway
    /\ Goes(p, "killed")
    /\ content' \in {content} \cup
         IF At(p, "opened") THEN {[content EXCEPT ![cli[p].inode] = Torn]} ELSE {}
    /\ UNCHANGED <<now, temp, file, publicBlob, uploads, overlapped, late, served>>

Tick ==
    /\ now < MaxTime
    /\ now' = now + 1
    /\ UNCHANGED <<cli, temp, file, content, publicBlob, uploads, overlapped, late, served>>

DeliveryNext ==
    \/ Tick
    \/ \E p \in Invocations :
         \/ Prepare(p) \/ Refuse(p)
         \/ Open(p) \/ Write(p) \/ Replace(p)
         \/ Unauthorized(p) \/ Send(p) \/ Store(p) \/ TurnDown(p)
         \/ Answered(p) \/ GiveUp(p) \/ Kill(p)

DeliverySpec == DeliveryInit /\ [][DeliveryNext]_deliveryVars

-----------------------------------------------------------------------------
(* The page.                                                               *)

\* What validatePublicEnvelope refuses, and what populateReport cannot draw.
PageRefuses == {"status", "claimed_cause", "workflow"}
PageNeeds == {"incident", "load_balancer", "localization", "backend_states"}

Drawable(envelope) == envelope.report.flaws \cap (PageRefuses \cup PageNeeds) = {}

-----------------------------------------------------------------------------
(* Properties.                                                             *)

\* Readers never see a partial file, whoever is killed when and whatever
\* temporary file was left behind, unless two invocations have overlapped
\* (write_public_envelope, "readers never observe a partial JSON file").
WholeUnlessOverlapped ==
    file # NoFile => content[file] \in Envelope \/ overlapped

\* What can be read can be drawn by the page, carries nothing that the public
\* contract leaves out and is still valid when it is dated.
ServedIsDrawable ==
    \A e \in ({publicBlob} \cup {content[p] : p \in {file} \cap Invocations}) \cap Envelope :
        Drawable(e) /\ ~e.report.private /\ e.ttl > 0

\* An invocation that reports success has made its envelope readable, unless
\* another one was under way with it.
SuccessWasServed ==
    \A p \in Invocations :
        cli[p].pc \in {"written", "published"} => p \in served \/ overlapped

OlderThan(new, old) == new \in Envelope /\ old \in Envelope /\ new.at < old.at

\* Readers never go back to an older report, unless invocations overlapped or an
\* upload that was reported as failed arrived after all.
NeverOlder ==
    [][~(overlapped' \/ late') =>
         /\ ~OlderThan(publicBlob', publicBlob)
         /\ \A f \in {file} \cap Invocations, g \in {file'} \cap Invocations :
              ~OlderThan(content'[g], content[f])]_deliveryVars
=============================================================================
