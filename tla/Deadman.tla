------------------------------ MODULE Deadman ------------------------------
(***************************************************************************)
(* The deadman task of the firmware (app/deadman.c) and the state it       *)
(* shares with the other tasks: the ACK flag g_ack_ok, set by the          *)
(* application task, and the UART transmit queue, filled by this task and  *)
(* by the application task and emptied by the transmit task.               *)
(*                                                                         *)
(* One iteration of the task's endless loop is cut at every access to that *)
(* shared state, the points where another task can run in between: `pc`    *)
(* names the access to come, and the assignments to local variables are    *)
(* part of the step of the access they surround.  take_ack() reads and     *)
(* clears the flag in two instructions; it is one step here because the    *)
(* only other writer only ever sets the flag, so setting it between the    *)
(* two instructions and setting it just before them have the same effect.  *)
(*                                                                         *)
(* Left out: message wording, and jitter of the iterations, which          *)
(* vTaskDelayUntil keeps one period apart.                                 *)
(***************************************************************************)
EXTENDS Naturals, Sequences, Drivers

CONSTANTS
  TaskPeriod,     \* DEADMAN_TASK_PERIOD_MS, 20 ms
  SpdPeriod,      \* DEADMAN_SPD_PERIOD_MS, 250 ms
  AlivePeriod,    \* DEADMAN_ALIVE_PERIOD_MS, 1000 ms
  AckTimeout,     \* DEADMAN_ACK_TIMEOUT_MS, 500 ms
  BeepPeriod,     \* the literal 125 ms of the alarm's half period
  DoubleTap,      \* DEADMAN_DOUBLE_TAP_MS, 400 ms
  StableSamples,  \* DEADMAN_INPUT_STABLE_SAMPLES, 3
  Diag,           \* DEADMAN_DIAG: the build that reports what it samples
  DiagPeriod,     \* the literal 300 ms between two such reports
  TickMod,        \* the tick counter counts modulo this, 2^32
  TxLength,       \* UART_TX_QUEUE_LENGTH, 8
  Speeds,         \* the percentages the potentiometer can give
  Inputs          \* the combinations of input signals the sampling can find

Sensor == {"pir", "tilt"}
Signal == Sensor \cup {"button"}

ASSUME DeadmanAssumption ==
  /\ TaskPeriod \in Nat \ {0}
  /\ SpdPeriod \in Nat \ {0} /\ AlivePeriod \in Nat \ {0}
  /\ AckTimeout \in Nat \ {0} /\ BeepPeriod \in Nat \ {0}
  /\ StableSamples \in Nat \ {0}
  /\ Diag \in BOOLEAN /\ DiagPeriod \in Nat \ {0}
  /\ DoubleTap \in Nat /\ TickMod \in Nat \ {0}
  /\ TxLength \in Nat \ {0}
  /\ Speeds \subseteq 0 .. 100
  /\ Inputs \subseteq SUBSET Signal

VARIABLES
  pc,             \* the access to shared state the task makes next
  btn_prev,       \* the button at the latest sampling
  stable,         \* the sensors whose filtered level is active
  change_count,   \* consecutive samples of a sensor that contradict `stable`
  muted,
  last_rise,      \* tick of the latest press of the button
  t_diag,
  tick,           \* xTaskGetTickCount() at the sampling of this iteration
  present_prev, ack_pending, armed_once, beep_on,
  t_spd, t_alive, t_ack, t_beep,
  leds, buzzer,   \* what the drivers made of the latest orders
  g_ack_ok,       \* shared: an ACK:ok arrived
  txq             \* shared: the UART transmit queue

inputVars == <<btn_prev, stable, change_count, muted, last_rise, t_diag>>
timerVars == <<t_spd, t_alive, t_ack, t_beep>>
outVars == <<leds, buzzer>>
localVars == <<inputVars, timerVars, tick, present_prev, ack_pending,
               armed_once, beep_on, outVars>>
taskVars == <<pc, localVars>>
vars == <<taskVars, g_ack_ok, txq>>

PC == {"sample", "rearm", "announce", "operate", "alive",
       "stop", "emergency", "halt", "resend"}

\* What the task puts in the transmit queue; "reply" is any answer of app.c.
DeadmanMessage == {"deadman_ok", "deadman", "EMERGENCY", "spd", "ALIVE", "diag"}
Message == DeadmanMessage \cup {"reply"}

-----------------------------------------------------------------------------
(* Helpers.  A definition whose name ends in a suffix after an underscore is  *)
(* a plausible bug in the definition that follows it; no other definition   *)
(* uses it, and the runs show that the properties tell the two apart.       *)

\* stable_bool_update: the counter it leaves, and whether the level flips.
Bumped(n) == IF n < StableSamples THEN n + 1 ELSE n
Flips_OneSampleLate(s, in) == /\ ~(s \in in <=> s \in stable)
                              /\ Bumped(change_count[s]) > StableSamples
Flips(s, in) == /\ ~(s \in in <=> s \in stable)
                /\ Bumped(change_count[s]) >= StableSamples
FilteredLevel(s, in) == IF Flips(s, in) THEN s \in in ELSE s \in stable
FilteredCount_NeverReset(s, in) ==
  IF (s \in in <=> s \in stable)
    THEN change_count[s]
    ELSE IF Flips(s, in) THEN 0 ELSE Bumped(change_count[s])
FilteredCount(s, in) ==
  IF (s \in in <=> s \in stable) \/ Flips(s, in)
    THEN 0 ELSE Bumped(change_count[s])

\* The operator: button held, PIR and tilt both filtered active.
Present_EitherSensor(in) == "button" \in in /\ \E s \in Sensor : FilteredLevel(s, in)
Present(in) == "button" \in in /\ \A s \in Sensor : FilteredLevel(s, in)

\* now - last_rise, in the unsigned arithmetic of TickType_t.
SinceRise_Signed == IF last_rise <= tick THEN tick - last_rise ELSE TickMod
SinceRise == (tick + TickMod - last_rise) % TickMod

\* A timer that adds the task period and restarts when it reaches `limit`.
Due_BeforeAdding(t, limit) == t >= limit
Due_Late(t, limit) == t + TaskPeriod > limit
Due(t, limit) == t + TaskPeriod >= limit
Advance(t, limit) == IF Due(t, limit) THEN 0 ELSE t + TaskPeriod

\* send_msg: xQueueSend with no waiting, its result ignored.
Send_NoLimit(m) == txq' = Append(txq, m)
Send(m) == txq' = IF Len(txq) < TxLength THEN Append(txq, m) ELSE txq

\* The branches of the change and of the state, lines 138, 146 and 162.
After_AlwaysOperating(present) ==
  IF present THEN "operate" ELSE IF present_prev THEN "stop" ELSE "halt"
After_StopLeftOut(present) ==
  IF ~present THEN "halt" ELSE IF present_prev THEN "operate" ELSE "rearm"
After(present) == CASE present /\ ~present_prev  -> "rearm"
                    [] ~present /\ present_prev  -> "stop"
                    [] present /\ present_prev   -> "operate"
                    [] ~present /\ ~present_prev -> "halt"

\* take_ack clears the flag it read.
DropAck_Forgotten == UNCHANGED g_ack_ok
DropAck == g_ack_ok' = FALSE

\* vTaskDelayUntil: the next iteration starts one period after this one.
EndIteration ==
  /\ pc' = "sample"
  /\ tick' = (tick + TaskPeriod) % TickMod

-----------------------------------------------------------------------------
Init ==
  /\ pc = "sample"
  /\ btn_prev = FALSE
  /\ stable \in SUBSET Sensor
  /\ change_count = [s \in Sensor |-> 0]
  /\ muted = FALSE
  /\ last_rise = 0
  /\ t_diag = 0
  /\ tick = 0
  /\ present_prev = FALSE
  /\ ack_pending = FALSE
  /\ armed_once = FALSE
  /\ beep_on = FALSE
  /\ t_spd = 0 /\ t_alive = 0 /\ t_ack = 0 /\ t_beep = 0
  /\ leds = Lights(0, TRUE, FALSE)
  /\ buzzer = Silence
  /\ g_ack_ok = FALSE
  /\ txq = <<>>

\* Read and filter the inputs, detect a double tap, report in the build for
\* diagnosis, find the transition.
Sample(in) ==
  LET pressed == "button" \in in
      rise == pressed /\ ~btn_prev
      present == Present(in)
  IN
  /\ pc = "sample"
  /\ stable' = {s \in Sensor : FilteredLevel(s, in)}
  /\ change_count' = [s \in Sensor |-> FilteredCount(s, in)]
  /\ muted' = IF rise /\ SinceRise <= DoubleTap THEN ~muted ELSE muted
  /\ last_rise' = IF rise THEN tick ELSE last_rise
  /\ btn_prev' = pressed
  /\ t_diag' = IF Diag THEN Advance(t_diag, DiagPeriod) ELSE t_diag
  /\ IF Diag /\ Due(t_diag, DiagPeriod) THEN Send("diag") ELSE UNCHANGED txq
  /\ present_prev' = present
  /\ pc' = After(present)
  /\ UNCHANGED <<timerVars, tick, ack_pending, armed_once, beep_on, outVars,
                 g_ack_ok>>

\* Absent to present: drop any old ACK and start the operating periodics.
Rearm ==
  /\ pc = "rearm"
  /\ DropAck
  /\ ack_pending' = FALSE
  /\ armed_once' = TRUE
  /\ t_spd' = 0
  /\ t_alive' = 0
  /\ pc' = "announce"
  /\ UNCHANGED <<inputVars, t_ack, t_beep, tick, present_prev, beep_on, outVars, txq>>

Announce ==
  /\ pc = "announce"
  /\ Send("deadman_ok")
  /\ pc' = "operate"
  /\ UNCHANGED <<localVars, g_ack_ok>>

\* Present: show the speed, and report it when its period is over.
Operate(spd) ==
  /\ pc = "operate"
  /\ leds' = Lights(spd * 10, FALSE, FALSE)
  /\ buzzer' = IF muted THEN Off(buzzer) ELSE SetTone(Freq(spd))
  /\ t_spd' = Advance(t_spd, SpdPeriod)
  /\ IF Due(t_spd, SpdPeriod) THEN Send("spd") ELSE UNCHANGED txq
  /\ pc' = "alive"
  /\ UNCHANGED <<inputVars, t_alive, t_ack, t_beep, tick, present_prev,
                 ack_pending, armed_once, beep_on, g_ack_ok>>

Alive ==
  /\ pc = "alive"
  /\ t_alive' = Advance(t_alive, AlivePeriod)
  /\ IF Due(t_alive, AlivePeriod) THEN Send("ALIVE") ELSE UNCHANGED txq
  /\ EndIteration
  /\ UNCHANGED <<inputVars, t_spd, t_ack, t_beep, present_prev, ack_pending,
                 armed_once, beep_on, outVars, g_ack_ok>>

\* sensor_cause: with the button still held, a sensor caused the stop, which
\* is told as well.
AfterStop_AnyCause == "emergency"
AfterStop == IF btn_prev THEN "emergency" ELSE "halt"

\* Present to absent: tell the robot to stop and wait for its ACK, even when the
\* message found no room.
Stop_PendingOnlyIfSent ==
  /\ pc = "stop"
  /\ Send("deadman")
  /\ ack_pending' = (Len(txq) < TxLength)
  /\ t_ack' = 0 /\ t_beep' = 0 /\ beep_on' = FALSE
  /\ pc' = AfterStop
  /\ UNCHANGED <<inputVars, t_spd, t_alive, tick, present_prev, armed_once,
                 outVars, g_ack_ok>>
Stop ==
  /\ pc = "stop"
  /\ Send("deadman")
  /\ ack_pending' = TRUE
  /\ t_ack' = 0
  /\ t_beep' = 0
  /\ beep_on' = FALSE
  /\ pc' = AfterStop
  /\ UNCHANGED <<inputVars, t_spd, t_alive, tick, present_prev, armed_once,
                 outVars, g_ack_ok>>

Emergency ==
  /\ pc = "emergency"
  /\ Send("EMERGENCY")
  /\ pc' = "halt"
  /\ UNCHANGED <<localVars, g_ack_ok>>

\* The alarm sounds once there has been an operator, unless silenced.
Beeping_FromBoot == ~muted
Beeping_WhileOpen == armed_once /\ ~muted /\ ack_pending
Beeping == armed_once /\ ~muted

\* Absent: LEDs of the stop, and the beep once there has been an operator.
Alarm ==
  LET toggles == Beeping /\ Due(t_beep, BeepPeriod)
  IN
  /\ t_beep' = IF Beeping THEN Advance(t_beep, BeepPeriod) ELSE t_beep
  /\ beep_on' = IF toggles THEN ~beep_on ELSE beep_on
  /\ leds' = Lights(0, TRUE, "pir" \in stable)
  /\ buzzer' = CASE ~Beeping \/ (toggles /\ beep_on) -> Off(buzzer)
                 [] toggles /\ ~beep_on             -> SetTone(AlarmFreq)
                 [] Beeping /\ ~toggles             -> buzzer

\* The three ways through the absent branch: no stop is waiting for its ACK,
\* the ACK is there, or it is not and the resend timer advances.
Rest ==
  /\ pc = "halt" /\ ~ack_pending
  /\ Alarm
  /\ EndIteration
  /\ UNCHANGED <<inputVars, t_spd, t_alive, t_ack, present_prev, ack_pending,
                 armed_once, g_ack_ok, txq>>

TakeAck ==
  /\ pc = "halt" /\ ack_pending /\ g_ack_ok
  /\ Alarm
  /\ DropAck
  /\ ack_pending' = FALSE
  /\ EndIteration
  /\ UNCHANGED <<inputVars, t_spd, t_alive, t_ack, present_prev, armed_once, txq>>

AwaitAck ==
  /\ pc = "halt" /\ ack_pending /\ ~g_ack_ok
  /\ Alarm
  /\ t_ack' = Advance(t_ack, AckTimeout)
  /\ IF Due(t_ack, AckTimeout)
       THEN pc' = "resend" /\ UNCHANGED tick
       ELSE EndIteration
  /\ UNCHANGED <<inputVars, t_spd, t_alive, present_prev, ack_pending,
                 armed_once, g_ack_ok, txq>>

Resend ==
  /\ pc = "resend"
  /\ Send("deadman")
  /\ EndIteration
  /\ UNCHANGED <<inputVars, timerVars, present_prev, ack_pending, armed_once,
                 beep_on, outVars, g_ack_ok>>

\* The task after its sampling: everything until the next delay.
Respond ==
  \/ Rearm \/ Announce \/ (\E spd \in Speeds : Operate(spd)) \/ Alive
  \/ Stop \/ Emergency \/ Rest \/ TakeAck \/ AwaitAck \/ Resend

Task == (\E in \in Inputs : Sample(in)) \/ Respond

-----------------------------------------------------------------------------
(* The other tasks, as far as they touch the shared state *)

\* app.c, on ACK:ok: deadman_notify_ack.
NotifyAck ==
  /\ g_ack_ok' = TRUE
  /\ UNCHANGED <<taskVars, txq>>

\* app.c, on a command: its answer waits for room in the queue.
Reply ==
  /\ Len(txq) < TxLength
  /\ txq' = Append(txq, "reply")
  /\ UNCHANGED <<taskVars, g_ack_ok>>

\* task_uart_tx takes the oldest message, encodes it and sends it out.
Transmit ==
  /\ txq # <<>>
  /\ txq' = Tail(txq)
  /\ UNCHANGED <<taskVars, g_ack_ok>>

OtherTasks == NotifyAck \/ Reply \/ Transmit

Next == Task \/ OtherTasks

Spec == Init /\ [][Next]_vars

-----------------------------------------------------------------------------
FlagsOK ==
  /\ pc \in PC
  /\ present_prev \in BOOLEAN
  /\ ack_pending \in BOOLEAN
  /\ armed_once \in BOOLEAN
  /\ beep_on \in BOOLEAN
  /\ g_ack_ok \in BOOLEAN

InputsOK ==
  /\ btn_prev \in BOOLEAN
  /\ stable \subseteq Sensor
  /\ change_count \in [Sensor -> 0 .. StableSamples - 1]
  /\ muted \in BOOLEAN
  /\ last_rise \in 0 .. TickMod - 1
  /\ tick \in 0 .. TickMod - 1

TimersOK ==
  /\ t_spd \in 0 .. SpdPeriod - 1
  /\ t_alive \in 0 .. AlivePeriod - 1
  /\ t_ack \in 0 .. AckTimeout - 1
  /\ t_beep \in 0 .. BeepPeriod - 1
  /\ t_diag \in 0 .. DiagPeriod - 1

OutputsOK ==
  /\ leds \in Light
  /\ buzzer \in Tone

QueueOK == txq \in Seq(Message) /\ Len(txq) <= TxLength

\* Every variable keeps its type; every timer stays below the period at which
\* the code restarts it, so none of the uint32_t timers can wrap, and the
\* transmit queue keeps within its length.
TypeOK == FlagsOK /\ InputsOK /\ TimersOK /\ OutputsOK /\ QueueOK
=============================================================================
