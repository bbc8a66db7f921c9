----------------------------- MODULE StopNotice -----------------------------
(***************************************************************************)
(* What the deadman task promises to the robot, at the level of deadman.h  *)
(* (lines 9-13): the operator engages and releases, and the robot is told  *)
(* of each change, in the order of the changes, before the next one.  A    *)
(* stop stays open until it is acknowledged or the operator is back, and   *)
(* it cannot be closed by an acknowledgement before it was told.           *)
(***************************************************************************)
VARIABLES mode,   \* "idle" before the first operator, then as named below
          told    \* the event the task last tried to send

Mode == {"idle", "operating", "stopped", "closed"}
Event == {"none", "deadman_ok", "deadman"}
vars == <<mode, told>>

Init == mode = "idle" /\ told = "none"

Engage ==
  /\ \/ mode = "idle" /\ told = "none"
     \/ mode \in {"stopped", "closed"} /\ told = "deadman"
  /\ mode' = "operating"
  /\ UNCHANGED told

TellOperating ==
  /\ mode = "operating" /\ told # "deadman_ok"
  /\ told' = "deadman_ok"
  /\ UNCHANGED mode

Release ==
  /\ mode = "operating" /\ told = "deadman_ok"
  /\ mode' = "stopped"
  /\ UNCHANGED told

TellStopped ==
  /\ mode = "stopped" /\ told # "deadman"
  /\ told' = "deadman"
  /\ UNCHANGED mode

Close ==
  /\ mode = "stopped" /\ told = "deadman"
  /\ mode' = "closed"
  /\ UNCHANGED told

Next == Engage \/ TellOperating \/ Release \/ TellStopped \/ Close

\* A change of mode is told sooner or later; nothing else has to happen.
Spec == Init /\ [][Next]_vars /\ WF_vars(TellOperating) /\ WF_vars(TellStopped)
=============================================================================
