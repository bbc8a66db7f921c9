--------------------------- MODULE DeadmanHistory ---------------------------
(***************************************************************************)
(* The deadman task with a record of what went on around it: the raw       *)
(* inputs of the latest sampling and for how long each sensor has given    *)
(* them, the event last sent, and the time since the last press, the last  *)
(* stop and the last EVT:deadman.  The record is never read by the task;   *)
(* it is what the properties of its inputs and of its timing speak about.  *)
(***************************************************************************)
EXTENDS Deadman

VARIABLES
  last_in,      \* the raw signals of the latest sampling
  run,          \* per sensor, how many of the latest samples agree (capped)
  told,         \* the EVT the task last tried to send
  press_age,    \* ms since the latest press of the button (capped)
  stop_age,     \* ms since the latest change to absent (capped)
  notice_age    \* ms since the latest try to send EVT:deadman (capped)

record == <<last_in, run, told, press_age, stop_age, notice_age>>
hvars == <<vars, record>>

\* The ages stop counting at values that no property tells apart.
PressCap == DoubleTap + TaskPeriod
StopCap == BeepPeriod + TaskPeriod
NoticeCap == AckTimeout + 2 * TaskPeriod

Capped(n, cap) == IF n < cap THEN n ELSE cap
Older(age, cap) == Capped(IF pc' = "sample" THEN age + TaskPeriod ELSE age, cap)

\* Before the first press, stop or notice, the age is as if it were long ago.
HInit ==
  /\ Init
  /\ last_in = stable
  /\ run = [s \in Sensor |-> 1]
  /\ told = "none"
  /\ press_age = PressCap
  /\ stop_age = StopCap
  /\ notice_age = NoticeCap

Pressed(in) == "button" \in in /\ ~btn_prev

HSample(in) ==
  /\ Sample(in)
  /\ last_in' = in
  /\ run' = [s \in Sensor |-> IF s \in in <=> s \in last_in
                                THEN Capped(run[s] + 1, StableSamples) ELSE 1]
  /\ press_age' = IF Pressed(in) THEN 0 ELSE press_age
  /\ stop_age' = IF present_prev /\ ~present_prev' THEN 0 ELSE stop_age
  /\ UNCHANGED <<told, notice_age>>

HRespond ==
  /\ Respond
  /\ told' = CASE pc = "announce"            -> "deadman_ok"
               [] pc \in {"stop", "resend"} -> "deadman"
               [] OTHER                     -> told
  /\ press_age' = Older(press_age, PressCap)
  /\ stop_age' = Older(stop_age, StopCap)
  /\ notice_age' = Older(IF pc \in {"stop", "resend"} THEN 0 ELSE notice_age,
                         NoticeCap)
  /\ UNCHANGED <<last_in, run>>

HTask == (\E in \in Inputs : HSample(in)) \/ HRespond

HOtherTasks == OtherTasks /\ UNCHANGED record

HNext == HTask \/ HOtherTasks

HSpec == HInit /\ [][HNext]_hvars

\* vTaskDelayUntil wakes the task up again and again, and the scheduler runs
\* it among the tasks of its priority; the other tasks may stay silent.
HFairSpec == HSpec /\ WF_hvars(HTask)

RecordTypeOK ==
  /\ last_in \subseteq Signal
  /\ run \in [Sensor -> 1 .. StableSamples]
  /\ told \in {"none", "deadman_ok", "deadman"}
  /\ press_age \in 0 .. PressCap
  /\ stop_age \in 0 .. StopCap
  /\ notice_age \in 0 .. NoticeCap

-----------------------------------------------------------------------------
(* The operator gate *)

Steady(s) == run[s] = StableSamples
Gone(s) == s \notin last_in /\ Steady(s)
There(s) == s \in last_in /\ Steady(s)

\* The filter of stable_bool_update knows exactly as much as it should: while
\* the filtered level agrees with the raw one nothing is counted, and while
\* it disagrees the counter is the number of samples that contradicted it,
\* fewer than it takes to flip.
FilterCounts ==
  \A s \in Sensor :
    IF s \in stable <=> s \in last_in
      THEN change_count[s] = 0
      ELSE change_count[s] = run[s] /\ run[s] < StableSamples

\* Losing any of the three conditions stops the robot (README.md:10-12): once
\* the button is up, or a sensor has been gone for as many samples as the
\* filter asks for, the operator is not taken for present, and by the end of
\* that very iteration the outputs show it and the robot was told.
LossStops ==
  (\/ "button" \notin last_in
   \/ \E s \in Sensor : Gone(s))
  => /\ ~present_prev
     /\ pc = "sample" => leds.green = 0 /\ leds.red /\ told # "deadman_ok"

\* ... and with all three there for long enough, the robot may operate.
OperatorOperates ==
  (/\ "button" \in last_in
   /\ \A s \in Sensor : There(s))
  => /\ present_prev
     /\ pc = "sample" => ~leds.red /\ told = "deadman_ok"

\* A glitch of PIR or tilt shorter than the filter neither stops the robot nor
\* lets it start: the task changes its mind only for the button, or for a
\* sensor whose samples have agreed for long enough.
ChangeOnlyForCause ==
  [][/\ present_prev /\ ~present_prev' =>
          "button" \notin last_in' \/ \E s \in Sensor : Gone(s)'
     /\ ~present_prev /\ present_prev' =>
          /\ "button" \in last_in'
          /\ \/ "button" \notin last_in
             \/ \E s \in Sensor : There(s)']_hvars

\* STS:EMERGENCY only follows the EVT:deadman of a stop a sensor caused, with
\* the button still held (deadman.c:148-153).
EmergencyHasCause ==
  pc = "emergency" => /\ told = "deadman"
                      /\ "button" \in last_in
                      /\ \E s \in Sensor : Gone(s)

-----------------------------------------------------------------------------
(* Notices and alarm *)

\* A stop that was not acknowledged is never left untold for longer than the
\* resend period (README.md:18), whatever happens to the button in between.
NeverSilent == ack_pending => notice_age < AckTimeout + TaskPeriod

\* ... and it is not told more often than that either, so an open stop cannot
\* flood the transmit queue: the first resend comes one task period early,
\* because the timer already counts the iteration of the stop.
RetryCadence ==
  [][pc = "resend" /\ pc' = "sample" =>
       /\ ack_pending
       /\ AckTimeout <= notice_age + TaskPeriod
       /\ notice_age < AckTimeout + TaskPeriod]_hvars

\* The tone of the operation does not survive the stop for longer than half an
\* alarm beep: the stop itself leaves the buzzer as it was, and mute and unmute
\* may come in between.  Before the first operator there is silence
\* (deadman.c:192-194).
Silent == buzzer.ccr = 0
Alarming == buzzer = SetTone(AlarmFreq)
NoStrayTone ==
  pc = "sample" /\ ~present_prev
    => IF armed_once THEN stop_age >= BeepPeriod => Silent \/ Alarming
                     ELSE Silent

\* A stop that lasts, not silenced, keeps beeping.
AlarmBeeps ==
  <>[](armed_once /\ ~present_prev /\ ~muted)
    => /\ []<>Alarming
       /\ []<>Silent

\* Two presses within the window always toggle the mute (deadman.c:114),
\* wherever the tick counter wraps around.
DoubleTapToggles ==
  [][\A in \in Inputs :
       HSample(in) /\ Pressed(in) /\ press_age <= DoubleTap
         => muted' # muted]_hvars

\* The comment of deadman.c:114 read the other way: only a second press within
\* the window changes the mute.
MuteNeedsDoubleTap == [][muted' # muted => press_age <= DoubleTap]_hvars

-----------------------------------------------------------------------------
(* The task implements the notices of StopNotice *)

mode == CASE present_prev                                   -> "operating"
          [] ~present_prev /\ (ack_pending \/ pc = "stop")  -> "stopped"
          [] ~present_prev /\ ~ack_pending /\ pc # "stop"   ->
               IF armed_once THEN "closed" ELSE "idle"

Notice == INSTANCE StopNotice WITH mode <- mode, told <- told

\* Every engagement and every release is told in its order, and a stop is not
\* closed before it was told.
ImplementsNotice == Notice!Spec
=============================================================================
