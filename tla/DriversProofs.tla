---------------------------- MODULE DriversProofs ----------------------------
(***************************************************************************)
(* Lemmas about the drivers: whatever is ordered fits the registers.       *)
(***************************************************************************)
EXTENDS Drivers, TLAPS

\* The tones there are, in hertz and in microseconds per period, fit the
\* registers of the timer, with the pin high for no more than half of the period.
Hertz == 1000 .. 4000
Micros == 250 .. 1000

LEMMA PeriodRange == \A f \in Hertz : TimerFreq \div f \in Micros
<1> SUFFICES ASSUME NEW f \in 1000 .. 4000 PROVE 1000000 \div f \in 250 .. 1000
  BY DEF TimerFreq, Hertz, Micros
<1> DEFINE q == 1000000 \div f
<1>1. q \in Nat /\ q * f <= 1000000 /\ 1000000 < (q + 1) * f
  OBVIOUS
<1>2. q < 1001
  <2>1. q >= 1001 => q * f >= 1001 * f
    BY <1>1
  <2> QED BY <1>1, <2>1
<1>3. q >= 250
  <2>1. q + 1 <= 250 => (q + 1) * f <= 250 * f
    BY <1>1
  <2> QED BY <1>1, <2>1
<1> QED BY <1>1, <1>2, <1>3

LEMMA RegisterRange == Register \subseteq Nat /\ \A n \in 0 .. 1000 : n \in Register
BY DEF Register

LEMMA ToneOfRegisters ==
  ASSUME NEW arr \in Register, NEW ccr \in Register, 2 * ccr <= arr + 1
  PROVE  [arr |-> arr, ccr |-> ccr] \in Tone
BY DEF Tone

LEMMA HalfOf == \A p \in 250 .. 1000 : p \div 2 \in 125 .. 500 /\ 2 * (p \div 2) <= p
OBVIOUS

LEMMA ToneOfPeriod ==
  ASSUME NEW p \in Micros
  PROVE  [arr |-> p - 1, ccr |-> p \div 2] \in Tone
<1> DEFINE half == p \div 2
<1>1. p \in 250 .. 1000 /\ half \in 125 .. 500 /\ 2 * half <= p
  BY HalfOf DEF Micros
<1> HIDE DEF half
<1>2. p - 1 \in 0 .. 1000 /\ (p - 1) + 1 = p /\ half \in 0 .. 1000
  BY <1>1
<1>3. p - 1 \in Register /\ half \in Register
  BY <1>2, RegisterRange
<1>4. 2 * half <= (p - 1) + 1
  BY <1>1, <1>2
<1>5. [arr |-> p - 1, ccr |-> half] \in Tone
  BY <1>3, <1>4, ToneOfRegisters
<1> QED BY <1>5 DEF half

LEMMA SetToneRange == ASSUME NEW freq \in Hertz PROVE SetTone(freq) \in Tone
<1> DEFINE period == TimerFreq \div freq
<1>1. period \in Micros
  BY PeriodRange, Zenon
<1>2. SetTone(freq) = [arr |-> period - 1, ccr |-> period \div 2]
  BY Zenon DEF SetTone
<1> HIDE DEF period
<1> QED BY <1>1, <1>2, ToneOfPeriod

LEMMA ToneRange ==
  ASSUME NEW spd \in 0 .. 100
  PROVE  SetTone(Freq(spd)) \in Tone
<1>1. spd \in Nat /\ spd <= 100
  OBVIOUS
<1>2. (3000 * spd) \div 100 \in 0 .. 3000
  BY <1>1
<1>3. Freq(spd) \in Hertz
  BY <1>2 DEF Freq, Hertz
<1>4. SetTone(Freq(spd)) \in Tone
  BY <1>3, SetToneRange
<1> QED BY <1>4

\* No tone is silent.
LEMMA ToneSounds == ASSUME NEW spd \in 0 .. 100 PROVE SetTone(Freq(spd)).ccr > 0
<1> DEFINE period == TimerFreq \div Freq(spd)
<1>1. (3000 * spd) \div 100 \in 0 .. 3000
  OBVIOUS
<1>2. Freq(spd) \in Hertz
  BY <1>1 DEF Freq, Hertz
<1>3. period \in Micros
  BY <1>2, PeriodRange, Zenon
<1>4. SetTone(Freq(spd)) = [arr |-> period - 1, ccr |-> period \div 2]
  BY Zenon DEF SetTone
<1> HIDE DEF period
<1>5. period \div 2 \in 125 .. 500
  BY <1>3, HalfOf DEF Micros
<1> QED BY <1>4, <1>5

LEMMA OffRange == ASSUME NEW b \in Tone PROVE Off(b) \in Tone
<1> DEFINE arr == b.arr
<1>1. arr \in Register
  BY DEF Tone
<1> HIDE DEF arr
<1>2. 0 \in Register /\ 2 * 0 <= arr + 1
  BY <1>1, RegisterRange
<1>3. [arr |-> arr, ccr |-> 0] \in Tone
  BY <1>1, <1>2, ToneOfRegisters
<1> QED BY <1>3 DEF Off, arr

LEMMA SilenceRange == Silence \in Tone
<1>1. 999 \in Register /\ 0 \in Register /\ 2 * 0 <= 999 + 1
  BY RegisterRange
<1> QED BY <1>1, ToneOfRegisters DEF Silence

\* The duty of the green LED never exceeds the period of its timer.
LEMMA LightsRange ==
  ASSUME NEW permille \in Nat, NEW red \in BOOLEAN, NEW blue \in BOOLEAN
  PROVE  Lights(permille, red, blue) \in Light
<1> DEFINE green == IF permille > DutyMax THEN DutyMax ELSE permille
<1>1. green \in 0 .. DutyMax
  BY DEF DutyMax
<1> HIDE DEF green
<1>2. [green |-> green, red |-> red, blue |-> blue] \in Light
  BY <1>1, Zenon DEF Light
<1> QED BY <1>2, Zenon DEF Lights, green
=============================================================================
