------------------------------- MODULE DemoPage -------------------------------
(***************************************************************************)
(* The operator's page (docs/app.js): event handlers and the continuations *)
(* of its awaits interleave in one event loop. A run of the analysis that  *)
(* waits can be joined by another one, because Reset enables the button.   *)
(***************************************************************************)
EXTENDS LiveMonitor

CONSTANTS Steps,       \* the steps of the technician's workflow
          Published,   \* handoffs a live report may carry
          Fixture      \* the handoff committed beside the page

\* What a report holds: a handoff that is published, committed or made on
\* demand.
Handoffs == Published \cup {Fixture} \cup {ReportOn(replies) : replies \in Samples}
Reports == [mode : {"live", "fixture", "api"}, handoff : Handoffs]

ASSUME DemoPageAssumption == NoReport \notin Handoffs \cup Reports

VARIABLES load,        \* how far loadReport has come
          source,      \* the configured URLs, as the page knows them
          report,      \* state.report and where it comes from
          ready,       \* state.demoApiReady
          completed,   \* state.completedSteps
          runs,        \* where each run of runAnalysis waits
          screen       \* what the page shows

pageVars == <<load, source, report, ready, completed, runs, screen>>
vars == <<server, cache, calls, panel, phase, state, evidence, timer, waiting,
          load, source, report, ready, completed, runs, screen>>

NoList == [s \in {} |-> TRUE]

\* The screen: label, the report source (none, live, fixture, ready, api or
\* unavailable); results, the handoff in the result panel; list, the steps in
\* the workflow panel, and which are marked.
PageInit ==
    /\ load = "config"
    /\ report = NoReport
    /\ ready = FALSE
    /\ completed = {}
    /\ runs = [s \in Slots |-> "idle"]
    /\ screen = [enabled |-> FALSE, label |-> "none", results |-> NoReport,
                 list |-> NoList, message |-> FALSE]

-----------------------------------------------------------------------------
(* resetDemo, also at the end of every successful load.                    *)

\* Mutant: the button is enabled whether or not there is a report.
ClearedForRun(scr, rep) ==
    [scr EXCEPT !.enabled = TRUE, !.results = NoReport,
                !.list = NoList, !.message = FALSE]

Cleared(scr, rep) ==
    [scr EXCEPT !.enabled = rep # NoReport, !.results = NoReport,
                !.list = NoList, !.message = FALSE]

ClickReset ==
    /\ completed' = {}
    /\ screen' = Cleared(screen, report)
    /\ UNCHANGED <<serverVars, monitorVars, load, source, report, ready, runs>>

-----------------------------------------------------------------------------
(* loadReport.                                                             *)

\* report-source.json, or defaults without any live source when it fails.
LoadConfig ==
    /\ load = "config"
    /\ source' \in {source, [live |-> FALSE, api |-> FALSE]}
    /\ load' = IF source'.live THEN "live" ELSE "fallback"
    /\ UNCHANGED <<serverVars, monitorVars, report, ready, completed, runs, screen>>

Loaded(mode, handoff, label) ==
    /\ report' = [mode |-> mode, handoff |-> handoff]
    /\ completed' = {}
    /\ screen' = Cleared([screen EXCEPT !.label = label], report')

\* A valid envelope is shown, stale or not; then the demo API is not probed.
LoadLive ==
    /\ load = "live"
    /\ \/ /\ \E handoff \in Published : Loaded("live", handoff, "live")
          /\ load' = "done"
       \/ /\ load' = "fallback"
          /\ UNCHANGED <<report, completed, screen>>
    /\ UNCHANGED <<serverVars, monitorVars, source, ready, runs>>

\* setFallbackReport; without a demo API the page is ready.
LoadFallback ==
    /\ load = "fallback"
    /\ IF source.api
       THEN /\ report' = [mode |-> "fixture", handoff |-> Fixture]
            /\ screen' = [screen EXCEPT !.label = "fixture"]
            /\ To("probe", [NoCall EXCEPT !.at = "sent"])
            /\ load' = "probe"
            /\ UNCHANGED completed
       ELSE /\ Loaded("fixture", Fixture, "fixture")
            /\ load' = "done"
            /\ UNCHANGED calls
    /\ UNCHANGED <<server, cache, monitorVars, source, ready, runs>>

LoadFails ==
    /\ load = "fallback"
    /\ report' = NoReport
    /\ screen' = [screen EXCEPT !.enabled = FALSE, !.label = "none"]
    /\ load' = "failed"
    /\ UNCHANGED <<serverVars, monitorVars, source, ready, completed, runs>>

\* probeDemoApi comes back: the health contract holds or it does not.
ProbeReturns ==
    /\ load = "probe"
    /\ calls["probe"].at \in {"answered", "failed", "foreign"}
    /\ ready' = (calls["probe"].at = "answered")
    /\ completed' = {}
    /\ screen' = Cleared([screen EXCEPT !.label = IF ready' THEN "ready" ELSE "fixture"],
                         report)
    /\ load' = "done"
    /\ To("probe", NoCall)
    /\ UNCHANGED <<server, cache, monitorVars, source, report, runs>>

-----------------------------------------------------------------------------
(* runAnalysis.                                                            *)

RunTo(r, at) == runs' = [runs EXCEPT ![r] = at]

ClickRun(r) ==
    /\ screen.enabled /\ runs[r] = "idle"
    /\ screen' = [screen EXCEPT !.enabled = FALSE]
    /\ RunTo(r, "first_delay")
    /\ UNCHANGED <<serverVars, monitorVars, load, source, report, ready, completed>>

\* Mutant: the label is set before the request, for its expected answer.
PostWithLabel(r) ==
    /\ runs[r] = "first_delay"
    /\ IF ready
       THEN /\ To(r, [NoCall EXCEPT !.at = "sent"])
            /\ RunTo(r, "posted")
            /\ screen' = [screen EXCEPT !.label = "api"]
            /\ Show("in_flight", 0)
       ELSE /\ RunTo(r, "second_delay")
            /\ UNCHANGED <<calls, state, evidence, screen>>
    /\ UNCHANGED <<server, cache, panel, phase, timer, waiting,
                   load, source, report, ready, completed>>

\* After the first delay: post through the monitor's fetch, or go on with the
\* report at hand.
Post(r) ==
    /\ runs[r] = "first_delay"
    /\ IF ready
       THEN /\ To(r, [NoCall EXCEPT !.at = "sent"])
            /\ RunTo(r, "posted")
            /\ Show("in_flight", 0)
       ELSE /\ RunTo(r, "second_delay")
            /\ UNCHANGED <<calls, state, evidence>>
    /\ UNCHANGED <<server, cache, panel, phase, timer, waiting,
                   load, source, report, ready, completed, screen>>

\* Mutant: nobody catches what the request throws.
RunReturnsAnswer(r) ==
    /\ runs[r] = "posted" /\ calls[r].at = "answered"
    /\ report' = [mode |-> "api", handoff |-> calls[r].report]
    /\ screen' = [screen EXCEPT !.label = "api"]
    /\ RunTo(r, "second_delay")
    /\ ShowOutcome(calls[r])
    /\ To(r, NoCall)
    /\ UNCHANGED <<server, cache, panel, phase, timer, waiting, load, source, ready, completed>>

\* setApiReport, or the error path, which gives up the API for good and says
\* that it goes on with the fixture.
RunReturns(r) ==
    /\ runs[r] = "posted"
    /\ calls[r].at \in {"answered", "failed", "foreign"}
    /\ IF calls[r].at = "answered"
       THEN /\ report' = [mode |-> "api", handoff |-> calls[r].report]
            /\ screen' = [screen EXCEPT !.label = "api"]
            /\ UNCHANGED ready
       ELSE /\ ready' = FALSE
            /\ screen' = [screen EXCEPT !.label = "unavailable"]
            /\ UNCHANGED report
    /\ RunTo(r, "second_delay")
    /\ ShowOutcome(calls[r])
    /\ To(r, NoCall)
    /\ UNCHANGED <<server, cache, panel, phase, timer, waiting, load, source, completed>>

Unmarked == [s \in Steps |-> FALSE]

\* Mutant: results that are on the screen are drawn only once.
PopulateOnce(r) ==
    /\ runs[r] = "second_delay"
    /\ screen' = IF screen.results # NoReport THEN screen
                 ELSE [screen EXCEPT !.results = report.handoff,
                                     !.list = IF Stable(report.handoff) THEN Unmarked
                                              ELSE NoList]
    /\ RunTo(r, "idle")
    /\ UNCHANGED <<serverVars, monitorVars, load, source, report, ready, completed>>

\* populateReport: it draws state.report as it is by now.
Populate(r) ==
    /\ runs[r] = "second_delay"
    /\ screen' = [screen EXCEPT !.results = report.handoff,
                                !.list = IF Stable(report.handoff) THEN Unmarked
                                         ELSE NoList]
    /\ RunTo(r, "idle")
    /\ UNCHANGED <<serverVars, monitorVars, load, source, report, ready, completed>>

\* completeWorkflowStep: the message counts the steps completed since the last
\* reset, whichever list they were marked in.
CompleteStep(s) ==
    /\ s \in DOMAIN screen.list /\ ~screen.list[s]
    /\ completed' = completed \cup {s}
    /\ screen' = [screen EXCEPT !.list[s] = TRUE,
                                !.message = @ \/ completed' = Steps]
    /\ UNCHANGED <<serverVars, monitorVars, load, source, report, ready, runs>>

LoadStep == LoadConfig \/ LoadLive \/ LoadFallback \/ LoadFails \/ ProbeReturns
RunStep(r) == Post(r) \/ RunReturns(r) \/ Populate(r)

-----------------------------------------------------------------------------
(* Properties.                                                             *)

Quiet == \A r \in Slots : runs[r] = "idle"

\* A run never draws a report that is not there, although Reset can be clicked
\* while the report still loads, and loading may fail after that (386-421,
\* 423-426, 494-502).
NoRunWithoutReport == (report = NoReport) => Quiet /\ ~screen.enabled

\* When no run is under way, the result panel shows the report the page holds,
\* however runs and resets overlapped (386-451).
ShownIsCurrent ==
    Quiet /\ screen.results # NoReport => screen.results = report.handoff

\* The page calls its evidence live only when it holds a live report: the
\* fixture is never passed off as evidence (172-225, 402-414).
LiveLabelIsTrue ==
    /\ screen.label = "api" => report.mode = "api"
    /\ screen.label = "live" => report.mode = "live"

\* Every click on the run button ends in a drawn report, whatever becomes of
\* the API meanwhile (386-421).
EveryRunEnds == \A r \in Slots : runs[r] # "idle" ~> runs[r] = "idle"
=============================================================================
