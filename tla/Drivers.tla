------------------------------ MODULE Drivers ------------------------------
(***************************************************************************)
(* What the drivers of the LEDs and of the buzzer make of an order         *)
(* (drivers/leds.c, drivers/buzzer.c): the values of the timers' registers *)
(* and of the pins.  Both builds of the firmware use them.                 *)
(***************************************************************************)
EXTENDS Naturals

\* The tone that goes with a speed, from BUZZER_FREQ_MIN_HZ to BUZZER_FREQ_MAX_HZ,
\* and BUZZER_ALARM_HZ.
Freq(spd) == 1000 + (3000 * spd) \div 100
AlarmFreq == 2000

\* buzzer_set_tone: TIM4 counts microseconds up to ARR, with the pin high for
\* the first CCR of them; silence is a CCR of 0, under the period there was.
TimerFreq == 1000000
SetTone(freq) == LET period == TimerFreq \div freq
                 IN [arr |-> period - 1, ccr |-> period \div 2]
Off(b) == [arr |-> b.arr, ccr |-> 0]
Silence == [arr |-> 999, ccr |-> 0]

\* The three colours: the duty of green in thousandths, red and blue on or off.
DutyMax == 1000
Lights(permille, red, blue) ==
  [green |-> IF permille > DutyMax THEN DutyMax ELSE permille,
   red   |-> red,
   blue  |-> blue]

\* What the pins of the LEDs can be given, and what the registers of the buzzer
\* can: 16 bits, with a duty of one half at the most.
Light == [green : 0 .. DutyMax, red : BOOLEAN, blue : BOOLEAN]
Register == 0 .. 2^16 - 1
Tone == {b \in [arr : Register, ccr : Register] : 2 * b.ccr <= b.arr + 1}
=============================================================================
