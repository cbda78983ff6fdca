---------------------------- MODULE MCMonitoring -----------------------------
(***************************************************************************)
(* The drift detector and the model health check share no state, so their *)
(* states are explored one component at a time: a component takes steps    *)
(* only while the other one is as it was created.  Every state either can *)
(* reach is reached, without the product of the two.                       *)
(***************************************************************************)
EXTENDS DriftDetector, ModelHealth

Init == DriftInit /\ HealthInit

Next ==
    \/ DriftNext /\ HealthInit /\ UNCHANGED healthVars
    \/ HealthNext /\ DriftInit /\ UNCHANGED driftVars

Spec == Init /\ [][Next]_<<driftVars, healthVars>>
==============================================================================
