------------------------------- MODULE LiveDemo -------------------------------
(***************************************************************************)
(* The live demonstration: the operator's page and its monitor in one      *)
(* browser, the demo API behind them, the network between them.            *)
(***************************************************************************)
EXTENDS DemoPage

CONSTANT Visits   \* who sits before the page, and the lab behind it

ASSUME LiveDemoAssumption ==
    Visits \subseteq [panel : BOOLEAN, patient : BOOLEAN, lab : SUBSET Samples,
                   sources : SUBSET [live : BOOLEAN, api : BOOLEAN]]

VARIABLE patient  \* this visitor waits for the page and for a run, and marks no steps

Init ==
    /\ ServerInit
    /\ \E v \in Visits : /\ panel = v.panel /\ patient = v.patient
                        /\ server.lab = v.lab /\ source \in v.sources
    /\ MonitorInit /\ PageInit

Settled == load \in {"done", "failed"} /\ Quiet

\* One run at a time needs one slot.
PatientSlot == CHOOSE r \in Slots : TRUE

Browser ==
    \/ LoadStep
    \/ \E r \in Slots : RunStep(r)
    \/ \E r \in Slots : (patient => Settled /\ r = PatientSlot) /\ ClickRun(r)
    \/ (patient => Settled) /\ ClickReset
    \/ ~patient /\ \E s \in Steps : CompleteStep(s)

Network ==
    /\ \/ \E c \in Callers : ServerStep(c) \/ Lose(c) \/ AnswerForeign(c)
       \/ panel /\ (OtherClient \/ Restart)
    /\ UNCHANGED <<monitorVars, pageVars>>

\* A page without the monitor asks for no identity that it would look at.
Tick ==
    /\ panel
    /\ ServerTick /\ MonitorTick
    /\ UNCHANGED pageVars

Next ==
    \/ (Browser \/ Network \/ Tick) /\ UNCHANGED patient
    \/ MonitorStep /\ UNCHANGED <<pageVars, patient>>

\* The browser goes through its events, every call is answered or given up.
Settles(c) ==
    (ServerStep(c) \/ Lose(c)) /\ UNCHANGED <<monitorVars, pageVars, patient>>

Spec == Init /\ [][Next]_<<vars, patient>>

FairSpec ==
    /\ Spec
    /\ \A r \in Slots : /\ WF_<<vars, patient>>(RunStep(r) /\ UNCHANGED patient)
                        /\ WF_<<vars, patient>>(Settles(r))
=============================================================================
