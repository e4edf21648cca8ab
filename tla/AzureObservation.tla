-------------------------- MODULE AzureObservation --------------------------
(***************************************************************************)
(* The two read-only observers of one estate that changes as they read it. *)
(***************************************************************************)
EXTENDS RealityObserver, CleanupAssessment

azureVars == <<past, obs, collection, directory>>

Init == EstateInit /\ ObserverInit /\ CleanupInit

Next ==
  \/ Change /\ UNCHANGED <<obs, collection, directory>>
  \/ Observe /\ UNCHANGED <<past, collection, directory>>
  \/ \E c \in Collections : Collect(c) /\ UNCHANGED <<past, obs>>

Spec == Init /\ [][Next]_azureVars
=============================================================================
