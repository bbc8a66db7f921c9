--------------------------- MODULE MCDeadmanLink ---------------------------
(* Instances of the deadman task with its link for TLC. *)
EXTENDS DeadmanLink

\* The operator is there, has let go of the button, or was lost by the PIR.
MCInputs == {Signal, Sensor, {"button", "tilt"}}
MCSpeeds == {50}
=============================================================================
