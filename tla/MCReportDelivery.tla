---------------------------- MODULE MCReportDelivery ----------------------------
(* Small instances of ReportDelivery for TLC.                               *)
EXTENDS ReportDelivery

Job(flaws, ttl, source, to) ==
    [report |-> [flaws |-> flaws, private |-> TRUE], ttl |-> ttl,
     source |-> source, to |-> to]

\* A sound handoff, one without its figures, and one of every flaw; limits of
\* the lifetime; a blank source.
SomeJobs ==
    {Job({}, 60, TRUE, "file"), Job({"counts"}, 900, TRUE, "file"),
     Job({}, 900, TRUE, "blob"), Job({}, 59, TRUE, "blob"),
     Job({}, 86401, TRUE, "file"), Job({}, 900, FALSE, "file")}
    \cup {Job({f}, 900, TRUE, "file") : f \in Flaws \ {"counts"}}
=============================================================================
