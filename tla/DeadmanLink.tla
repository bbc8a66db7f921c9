---------------------------- MODULE DeadmanLink ----------------------------
(***************************************************************************)
(* The deadman task with what surrounds it on the board (the application   *)
(* task of app.c and the transmit task of tasks.c) and at the other end of *)
(* the UART: the bridge of serial_test/bridge_emulator.py, which drives    *)
(* the robot and answers ACK:ok to every valid EVT:deadman.                *)
(*                                                                         *)
(* A frame is one item of a queue.  `up` is the wire to the bridge and the *)
(* bridge's input buffer; `down` is everything between the bridge and the  *)
(* application task: the wire, the ISR and parser queues and the           *)
(* application queue, all of them first in, first out.                     *)
(***************************************************************************)
EXTENDS Deadman

CONSTANTS
  MaxCommands,    \* bound: commands the bridge's side sends in a behaviour
  MaxFaults,      \* bound: frames lost or garbled in a behaviour
  Backlog,        \* bound: frames under way when an iteration starts
  QuietReengage   \* the operator only comes back when the stop is settled

ASSUME LinkAssumption ==
  /\ {MaxCommands, MaxFaults, Backlog} \subseteq Nat
  /\ QuietReengage \in BOOLEAN

VARIABLES
  up, down,       \* frames under way, in both directions
  app,            \* the application task: "idle", or "reply" to send
  robot,          \* what the bridge last made the robot do
  commands, faults

linkVars == <<up, down, app, robot, commands, faults>>
lvars == <<vars, linkVars>>

\* robot_reaction: the effect of a frame on the motion of the robot.
Reaction_EventsOnly(r, m) == CASE m = "deadman_ok" -> "operating"
                               [] m = "deadman"    -> "stopped"
                               [] OTHER            -> r
Reaction(r, m) == CASE m \in {"deadman_ok", "spd"} -> "operating"
                    [] m = "deadman"               -> "stopped"
                    [] OTHER                       -> r

\* main: only a valid EVT:deadman is acknowledged.
Acknowledged_Emergency(m) == IF m = "EMERGENCY" THEN Append(down, "ack") ELSE down
Acknowledged(m) == IF m = "deadman" THEN Append(down, "ack") ELSE down

LInit ==
  /\ Init
  /\ up = <<>> /\ down = <<>>
  /\ app = "idle"
  /\ robot = "unknown"
  /\ commands = 0 /\ faults = 0

\* The frames still to be dealt with because of the latest stop: notices on
\* their way up and acknowledgements on their way down.
Settled == /\ \A i \in 1 .. Len(txq) : txq[i] # "deadman"
           /\ \A i \in 1 .. Len(up) : up[i] # "deadman"
           /\ \A i \in 1 .. Len(down) : down[i] # "ack"

\* Both wires carry a full frame in a fraction of a task period, so that only
\* a few frames are under way when the next iteration starts.
Iterate ==
  /\ Len(txq) + Len(up) + Len(down) <= Backlog
  /\ \E in \in Inputs :
       /\ QuietReengage /\ "button" \in in /\ ~present_prev => Settled
       /\ Sample(in)
  /\ UNCHANGED linkVars

Proceed == Respond /\ UNCHANGED linkVars

\* task_uart_tx: from the queue to the wire.
TransmitFrame ==
  /\ Transmit
  /\ up' = Append(up, Head(txq))
  /\ UNCHANGED <<down, app, robot, commands, faults>>

\* task_app, waiting for a message: an ACK sets the flag, a command has to be
\* answered before the next message is looked at.
HandleAck ==
  /\ app = "idle" /\ down # <<>> /\ Head(down) = "ack"
  /\ NotifyAck
  /\ down' = Tail(down)
  /\ UNCHANGED <<up, app, robot, commands, faults>>

HandleCommand ==
  /\ app = "idle" /\ down # <<>> /\ Head(down) = "cmd"
  /\ app' = "reply"
  /\ down' = Tail(down)
  /\ UNCHANGED <<vars, up, robot, commands, faults>>

Answer ==
  /\ app = "reply"
  /\ Reply
  /\ app' = "idle"
  /\ UNCHANGED <<up, down, robot, commands, faults>>

\* The bridge reads a frame: the robot reacts, a valid stop is acknowledged.
BridgeReceive ==
  /\ up # <<>>
  /\ up' = Tail(up)
  /\ robot' = Reaction(robot, Head(up))
  /\ down' = Acknowledged(Head(up))
  /\ UNCHANGED <<vars, app, commands, faults>>

SendCommand ==
  /\ commands < MaxCommands
  /\ commands' = commands + 1
  /\ down' = Append(down, "cmd")
  /\ UNCHANGED <<vars, up, app, robot, faults>>

\* Noise: a frame goes missing, or reaches the bridge with a wrong checksum
\* and is then reacted to, but never acknowledged.
LoseUp ==
  /\ up # <<>> /\ faults < MaxFaults
  /\ up' = Tail(up)
  /\ faults' = faults + 1
  /\ UNCHANGED <<vars, down, app, robot, commands>>

GarbleUp ==
  /\ up # <<>> /\ faults < MaxFaults
  /\ up' = Tail(up)
  /\ robot' = Reaction(robot, Head(up))
  /\ faults' = faults + 1
  /\ UNCHANGED <<vars, down, app, commands>>

LoseDown ==
  /\ down # <<>> /\ faults < MaxFaults
  /\ down' = Tail(down)
  /\ faults' = faults + 1
  /\ UNCHANGED <<vars, up, app, robot, commands>>

DeadmanTask == Iterate \/ Proceed
AppTask == HandleAck \/ HandleCommand \/ Answer
Noise == LoseUp \/ GarbleUp \/ LoseDown

LNext == DeadmanTask \/ TransmitFrame \/ AppTask \/ BridgeReceive \/ SendCommand \/ Noise

LSpec == LInit /\ [][LNext]_lvars

\* Every task is ready again and again and shares the processor with the
\* others; the bridge polls its port in a loop.  Commands and noise may cease.
LFairSpec ==
  /\ LSpec
  /\ WF_lvars(DeadmanTask) /\ WF_lvars(TransmitFrame)
  /\ WF_lvars(AppTask) /\ WF_lvars(BridgeReceive)

-----------------------------------------------------------------------------
LinkTypeOK ==
  /\ TypeOK
  /\ up \in Seq(Message)
  /\ down \in Seq({"ack", "cmd"})
  /\ app \in {"idle", "reply"}
  /\ robot \in {"unknown", "operating", "stopped"}
  /\ commands \in 0 .. MaxCommands
  /\ faults \in 0 .. MaxFaults

\* Once every frame on its way up has arrived, the robot is stopped: it is now,
\* or one of them stops it, and none of those behind makes it operate again.
WillBeStopped ==
  LET coming == up \o txq
      Operates(i) == coming[i] \in {"deadman_ok", "spd"}
  IN \/ robot = "stopped" /\ \A i \in 1 .. Len(coming) : ~Operates(i)
     \/ \E i \in 1 .. Len(coming) :
          coming[i] = "deadman" /\ \A j \in i + 1 .. Len(coming) : ~Operates(j)

\* README.md:18, "reenvio c/500 ms hasta ACK:ok": a stop is never forgotten.
\* While the operator is absent, either the stop is still open and will be sent
\* again, or the frames that are out leave the robot stopped.
StopNeverForgotten ==
  pc = "sample" /\ ~present_prev /\ armed_once
    => ack_pending \/ WillBeStopped

\* A stop that lasts reaches the robot, which then stays stopped.
StopReachesRobot ==
  <>[](armed_once /\ ~present_prev) => <>[](robot = "stopped")

\* EVT:deadman_ok is sent once and never again (deadman.c:145): when it is lost
\* or dropped, the DAT:spd that follow still make the robot operate, as long as
\* the operator stays.
PresenceReachesRobot ==
  <>[]present_prev => <>[](robot = "operating")

\* An acknowledged stop is closed in the end: resending stops.
StopIsSettled ==
  <>[](armed_once /\ ~present_prev) => <>[](~ack_pending)
=============================================================================
