---------------------------- MODULE PeriphDemo ----------------------------
(***************************************************************************)
(* The build APP_BUILD_MODE_PERIPH_DEMO (app/periph_demo.c): a task reads  *)
(* the mean of the potentiometer and the button, each of them the work of  *)
(* an interrupt routine, shows them with LEDs and buzzer, and sends the    *)
(* mean.  Between two of its readings the routines may run, and time may   *)
(* pass, as long as an iteration ends before the next is due.              *)
(***************************************************************************)
EXTENDS Naturals, Sequences, Button, AdcFilter, Drivers

CONSTANTS
  DemoPeriod,     \* the literal 250 ms, 2500 counts
  TxLength        \* UART_TX_QUEUE_LENGTH, 8

ASSUME DemoAssumption == DemoPeriod \in Nat \ {0} /\ TxLength \in Nat \ {0}

VARIABLES
  pc,             \* the next reading of the task, or "wait" for its period
  clock,          \* counts since its last period began
  spd,            \* the speed it read
  leds, buzzer,   \* what the drivers made of its orders
  txq             \* the transmit queue

\* A record of what went on, which the firmware does not keep.
VARIABLES
  quiet,          \* counts since the latest edge of the pin, or since button_init
                  \* ended, up to QuietCap
  unheard         \* the latest edge came before button_init listened to edges

QuietCap == Window + 2 * DemoPeriod + 1

taskVars == <<pc, clock, spd, leds, buzzer, txq>>
record == <<quiet, unheard>>
pvars == <<buttonVars, adcVars, taskVars, record>>

Init ==
  /\ ButtonInit /\ AdcInit
  /\ pc = "speed" /\ clock = 0 /\ spd = 0
  /\ leds = Lights(0, FALSE, FALSE)
  /\ buzzer = Silence
  /\ txq = <<>>
  /\ quiet = 0 /\ unheard = FALSE

-----------------------------------------------------------------------------
(* periph_demo_task *)

\* Besides the speed the task reads the raw mean (line 25), which only goes into
\* the text of its message.
ReadSpeed ==
  /\ boot = "on" /\ pc = "speed"
  /\ spd' = Percent(g_adc_ema)
  /\ pc' = "button"
  /\ UNCHANGED <<clock, leds, buzzer, txq>>

\* The button, the orders that follow from it, and the message, for which the
\* task does not wait.
ToneFor_KeepsSounding(pressed) == IF pressed THEN SetTone(Freq(spd)) ELSE buzzer
ToneFor(pressed) == IF pressed THEN SetTone(Freq(spd)) ELSE Off(buzzer)

ReadButton(pir) ==
  /\ pc = "button"
  /\ leds' = Lights(spd * 10, g_pressed, pir)
  /\ buzzer' = ToneFor(g_pressed)
  /\ txq' = IF Len(txq) < TxLength THEN Append(txq, "adc") ELSE txq
  /\ pc' = "wait"
  /\ UNCHANGED <<clock, spd>>

\* vTaskDelayUntil
Wake ==
  /\ pc = "wait" /\ clock = DemoPeriod
  /\ pc' = "speed"
  /\ clock' = 0
  /\ UNCHANGED <<spd, leds, buzzer, txq>>

DemoTask == ReadSpeed \/ (\E pir \in BOOLEAN : ReadButton(pir)) \/ Wake

Transmit ==
  /\ txq # <<>>
  /\ txq' = Tail(txq)
  /\ UNCHANGED <<pc, clock, spd, leds, buzzer>>

-----------------------------------------------------------------------------
(* The rest of the system *)

\* Contacts bounce, though not twice within a count.
PinEdge ==
  /\ quiet > 0 \/ boot # "on"
  /\ Edge
  /\ quiet' = 0
  /\ unheard' = (boot = "read")
  /\ UNCHANGED <<adcVars, taskVars>>

TurnPot ==
  /\ \E position \in Positions \ {pot} : Turn(position)
  /\ UNCHANGED <<buttonVars, taskVars, record>>

Tick ==
  /\ Count /\ CountTim3
  /\ boot = "on" => clock < DemoPeriod
  /\ clock' = IF boot = "on" THEN clock + 1 ELSE clock
  /\ quiet' = IF boot = "on" /\ quiet < QuietCap THEN quiet + 1 ELSE quiet
  /\ UNCHANGED <<pc, spd, leds, buzzer, txq, unheard>>

ButtonWorks == ButtonStep /\ UNCHANGED <<adcVars, taskVars, record>>
PotWorks == Tim3 /\ UNCHANGED <<buttonVars, taskVars, record>>
TaskWorks == (DemoTask \/ Transmit) /\ UNCHANGED <<buttonVars, adcVars, record>>

Next == PinEdge \/ TurnPot \/ Tick \/ ButtonWorks \/ PotWorks \/ TaskWorks

\* Timers count, the routines and the tasks run; nobody has to touch anything.
Fairness == WF_pvars(Tick) /\ WF_pvars(ButtonWorks) /\ WF_pvars(PotWorks)
            /\ WF_pvars(TaskWorks)

Spec == Init /\ [][Next]_pvars
FairSpec == Spec /\ Fairness

-----------------------------------------------------------------------------
TaskOK ==
  /\ pc \in {"speed", "button", "wait"}
  /\ clock \in 0 .. DemoPeriod
  /\ spd \in 0 .. 100
  /\ leds \in Light /\ buzzer \in Tone
  /\ txq \in Seq({"adc"}) /\ Len(txq) <= TxLength
  /\ quiet \in 0 .. QuietCap /\ unheard \in BOOLEAN

\* Every variable keeps its type; the mean of the potentiometer never exceeds
\* what a conversion can give, so that adc=%04u has four digits, and what is
\* ordered of LEDs and buzzer fits their registers.
HandTypeOK == ButtonOK /\ AdcOK /\ TaskOK

\* One window after the last bounce g_pressed is the level of the pin, however
\* edges, the window's end and the two routines meet; the only exception is an
\* edge that button_init missed, after it read the pin and before it listened.
ButtonSettles == boot = "on" /\ quiet > Window /\ ~unheard => g_pressed = pin

\* The level that is taken has been there for a whole window, unless an edge
\* came while the routine of the window before was already due.
OnlyRaceSeesBounce ==
  [][boot = "on" /\ g_pressed' # g_pressed => quiet >= Window \/ counting \/ exti]_pvars

\* LED and buzzer follow the button within a window and two periods of the task.
DemoFollows ==
  boot = "on" /\ quiet = QuietCap /\ ~unheard =>
    leds.red = pin /\ (buzzer.ccr > 0) = pin

\* Every sample moves the mean towards the eight values that share the upper
\* bits of the sample, and never beyond them; only there does it stand still.
Nearer(mean, next, sample) ==
  \/ mean < next /\ next \div 8 <= sample \div 8
  \/ next < mean /\ sample \div 8 <= next \div 8
  \/ next = mean /\ mean \div 8 = sample \div 8
MeanApproaches == [][tim3_uif /\ ~tim3_uif' => Nearer(g_adc_ema, g_adc_ema', pot)]_pvars

\* When the potentiometer stays where it is, the brightness comes to within
\* seven counts of it and stays there.
BrightnessSettles ==
  \A p \in Positions :
    LET least == 8 * (p \div 8)
    IN <>[](pot = p) =>
         <>[](leds.green \in Percent(least) * 10 .. Percent(least + 7) * 10)

\* adc.h:14: "0..100 % mapeado del ADC".  With the potentiometer turned all the
\* way up, the speed is 100 % in the end, and the green LED at its brightest.
FullSpeed == leds.green = 1000
FullScaleReached == <>[](pot = AdcMax) => <>FullSpeed
=============================================================================
