----------------------------- MODULE MCDeadman -----------------------------
(* Instances of the deadman task for TLC. *)
EXTENDS DeadmanHistory

\* Every combination of the three signals.
MCAllInputs == SUBSET Signal

\* The operator is there, has let go of the button, or was lost by the PIR.
MCFewInputs == {Signal, Sensor, {"button", "tilt"}}

MCSpeeds == {0, 50}
MCOneSpeed == {50}
=============================================================================
