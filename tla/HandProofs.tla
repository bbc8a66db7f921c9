----------------------------- MODULE HandProofs -----------------------------
(***************************************************************************)
(* Theorems about the button, the potentiometer and the task of the        *)
(* peripheral demo, for all periods and windows and all ranges of the ADC. *)
(***************************************************************************)
EXTENDS PeriphDemo, DriversProofs, TLAPS

-----------------------------------------------------------------------------
(* The mean *)

LEMMA Eighth ==
  \A n \in Nat : n \div 8 \in Nat /\ 8 * (n \div 8) <= n /\ n <= 8 * (n \div 8) + 7
OBVIOUS

LEMMA NoWrap == \A n, w \in Nat : n < w => n % w = n
OBVIOUS

\* A sample moves the mean towards it, not beyond, and without a wrap.
LEMMA MeanProperties ==
  ASSUME NEW mean \in 0 .. AdcMax, NEW sample \in 0 .. AdcMax
  PROVE  /\ Mean(mean, sample) \in 0 .. AdcMax
         /\ Nearer(mean, Mean(mean, sample), sample)
<1> DEFINE a == mean \div 8
           b == sample \div 8
           next == mean - a + b
           c == next \div 8
<1>1. /\ a \in Nat /\ 8 * a <= mean /\ mean <= 8 * a + 7
      /\ b \in Nat /\ 8 * b <= sample /\ sample <= 8 * b + 7
      /\ AdcMax \in Nat /\ AdcMax < Word /\ Word \in Nat
  BY Eighth, AdcAssumption DEF Word
<1> HIDE DEF a, b
<1>2. next \in Nat /\ next <= AdcMax
  BY <1>1
<1>3. Mean(mean, sample) = next
  <2>1. next < Word
    BY <1>1, <1>2
  <2>2. next % Word = next
    BY <1>1, <1>2, <2>1, NoWrap
  <2> QED BY <2>2, Zenon DEF Mean, a, b
<1>4. c \in Nat /\ 8 * c <= next /\ next <= 8 * c + 7
  BY <1>2, Eighth
<1> HIDE DEF c
<1>5. \/ mean < next /\ c <= b
      \/ next < mean /\ b <= c
      \/ next = mean /\ a = b
  BY <1>1, <1>2, <1>4
<1> QED BY <1>2, <1>3, <1>5 DEF Nearer, a, b, c

LEMMA PercentRange == ASSUME NEW mean \in 0 .. AdcMax PROVE Percent(mean) \in 0 .. 100
<1> DEFINE v == (mean * 100) \div AdcMax
<1>1. v \in Nat
  <2>1. \A x \in Nat, y \in Nat \ {0} : x \div y \in Nat
    OBVIOUS
  <2> QED BY <2>1, AdcAssumption
<1> HIDE DEF v
<1>2. (IF v > 100 THEN 100 ELSE v) \in 0 .. 100
  BY <1>1
<1> QED BY <1>2 DEF Percent, v

-----------------------------------------------------------------------------
(* Types *)

LEMMA ButtonTypeStep ==
  ASSUME ButtonOK, ButtonStep \/ Edge \/ Count \/ UNCHANGED buttonVars
  PROVE  ButtonOK'
<1> USE ButtonAssumption DEF ButtonOK
<1>1. CASE TakeLevel
  <2>1. g_pressed' \in BOOLEAN
    BY <1>1, Zenon DEF TakeLevel
  <2> QED BY <1>1, <2>1 DEF TakeLevel, tim1Vars
<1>2. CASE EnableEdges
  BY <1>2 DEF EnableEdges, tim1Vars
<1>3. CASE Exti0
  <2>1. counter' \in 0 .. Window - 1
    BY <1>3 DEF Exti0, Restarted
  <2> QED BY <1>3, <2>1 DEF Exti0
<1>4. CASE Tim1Begin
  BY <1>4 DEF Tim1Begin
<1>5. CASE Tim1Take
  BY <1>5 DEF Tim1Take, tim1Vars
<1>6. CASE Edge
  BY <1>6 DEF Edge, tim1Vars
<1>7. CASE Count
  <2>1. counter' \in 0 .. Window - 1
    BY <1>7 DEF Count
  <2>2. uif' \in BOOLEAN /\ counting' \in BOOLEAN
    BY <1>7, Zenon DEF Count
  <2> QED BY <1>7, <2>1, <2>2 DEF Count
<1>8. CASE UNCHANGED buttonVars
  BY <1>8 DEF buttonVars, tim1Vars
<1> QED BY <1>1, <1>2, <1>3, <1>4, <1>5, <1>6, <1>7, <1>8 DEF ButtonStep

LEMMA AdcTypeStep ==
  ASSUME AdcOK, Tim3 \/ CountTim3 \/ (\E p \in Positions : Turn(p)) \/ UNCHANGED adcVars
  PROVE  AdcOK'
<1> USE AdcAssumption DEF AdcOK
<1>1. CASE Tim3
  BY <1>1, MeanProperties DEF Tim3
<1>2. CASE CountTim3
  <2>1. tim3_counter' \in 0 .. SamplePeriod - 1
    BY <1>2 DEF CountTim3
  <2>2. tim3_uif' \in BOOLEAN
    BY <1>2, Zenon DEF CountTim3
  <2> QED BY <1>2, <2>1, <2>2 DEF CountTim3
<1>3. CASE \E p \in Positions : Turn(p)
  BY <1>3 DEF Turn
<1>4. CASE UNCHANGED adcVars
  BY <1>4 DEF adcVars
<1> QED BY <1>1, <1>2, <1>3, <1>4

\* What the queue gets and gives.
LEMMA QueueStep ==
  ASSUME txq \in Seq({"adc"}), Len(txq) <= TxLength,
         \/ txq' = IF Len(txq) < TxLength THEN Append(txq, "adc") ELSE txq
         \/ txq # <<>> /\ txq' = Tail(txq)
  PROVE  txq' \in Seq({"adc"}) /\ Len(txq') <= TxLength
BY DemoAssumption

LEMMA TaskTypeStep ==
  ASSUME AdcOK, ButtonOK, TaskOK, DemoTask \/ Transmit, UNCHANGED record
  PROVE  TaskOK'
<1> USE DemoAssumption DEF TaskOK, record
<1>1. CASE ReadSpeed
  BY <1>1, PercentRange DEF ReadSpeed, AdcOK
<1>2. ASSUME NEW pir \in BOOLEAN, ReadButton(pir) PROVE TaskOK'
  <2>1. txq' \in Seq({"adc"}) /\ Len(txq') <= TxLength
    BY <1>2, QueueStep DEF ReadButton
  <2>2. leds' \in Light
    BY <1>2, LightsRange DEF ReadButton, ButtonOK
  <2>3. buzzer' \in Tone
    BY <1>2, ToneRange, OffRange DEF ReadButton, ToneFor
  <2> QED BY <1>2, <2>1, <2>2, <2>3 DEF ReadButton
<1>3. CASE Wake
  BY <1>3 DEF Wake
<1>4. CASE Transmit
  <2>1. txq' \in Seq({"adc"}) /\ Len(txq') <= TxLength
    BY <1>4, QueueStep DEF Transmit
  <2> QED BY <1>4, <2>1 DEF Transmit
<1> QED BY <1>1, <1>2, <1>3, <1>4 DEF DemoTask

LEMMA HandTypeInit == Init => HandTypeOK
<1> SUFFICES ASSUME Init PROVE HandTypeOK
  OBVIOUS
<1>1. ButtonOK
  <2>1. counter \in 0 .. Window - 1
    BY ButtonAssumption DEF Init, ButtonInit
  <2>2. /\ pin \in BOOLEAN /\ g_pressed \in BOOLEAN /\ exti \in BOOLEAN
        /\ boot \in {"off", "read", "on"}
        /\ counting \in BOOLEAN /\ uif \in BOOLEAN /\ taking \in BOOLEAN
    BY Zenon DEF Init, ButtonInit
  <2> QED BY <2>1, <2>2 DEF ButtonOK
<1>2. AdcOK
  <2>1. /\ pot \in Positions /\ g_adc_ema \in 0 .. AdcMax
        /\ tim3_counter \in 0 .. SamplePeriod - 1
    BY AdcAssumption DEF Init, AdcInit
  <2>2. tim3_uif \in BOOLEAN
    BY Zenon DEF Init, AdcInit
  <2> QED BY <2>1, <2>2 DEF AdcOK
<1>3. leds \in Light /\ buzzer \in Tone
  BY LightsRange, SilenceRange DEF Init
<1>4. QuietCap \in Nat
  BY ButtonAssumption, DemoAssumption DEF QuietCap
<1>5. TaskOK
  <2>1. /\ pc \in {"speed", "button", "wait"} /\ clock \in 0 .. DemoPeriod
        /\ spd \in 0 .. 100 /\ quiet \in 0 .. QuietCap
    BY <1>4, DemoAssumption DEF Init
  <2>2. unheard \in BOOLEAN
    BY Zenon DEF Init
  <2>3. txq \in Seq({"adc"}) /\ Len(txq) <= TxLength
    BY DemoAssumption DEF Init
  <2> QED BY <1>3, <2>1, <2>2, <2>3 DEF TaskOK
<1> QED BY <1>1, <1>2, <1>5 DEF HandTypeOK

LEMMA HandTypeStep == HandTypeOK /\ [Next]_pvars => HandTypeOK'
<1> SUFFICES ASSUME HandTypeOK, [Next]_pvars PROVE HandTypeOK'
  OBVIOUS
<1>t. ButtonOK /\ AdcOK /\ TaskOK
  BY DEF HandTypeOK
<1>q. QuietCap \in Nat
  BY ButtonAssumption, DemoAssumption DEF QuietCap
<1>1. CASE PinEdge
  <2>1. ButtonOK' /\ AdcOK'
    BY <1>1, <1>t, ButtonTypeStep, AdcTypeStep DEF PinEdge
  <2>2. unheard' \in BOOLEAN
    BY <1>1, Zenon DEF PinEdge
  <2>3. TaskOK'
    BY <1>1, <1>t, <1>q, <2>2 DEF PinEdge, TaskOK, taskVars
  <2> QED BY <2>1, <2>3 DEF HandTypeOK
<1>2. CASE TurnPot
  <2>1. ButtonOK' /\ AdcOK'
    BY <1>2, <1>t, ButtonTypeStep, AdcTypeStep DEF TurnPot
  <2>2. TaskOK'
    BY <1>2, <1>t DEF TurnPot, TaskOK, taskVars, record
  <2> QED BY <2>1, <2>2 DEF HandTypeOK
<1>3. CASE Tick
  <2>1. ButtonOK' /\ AdcOK'
    BY <1>3, <1>t, ButtonTypeStep, AdcTypeStep DEF Tick
  <2>2. clock' \in 0 .. DemoPeriod /\ quiet' \in 0 .. QuietCap
    BY <1>3, <1>t, <1>q, DemoAssumption DEF Tick, TaskOK
  <2>3. TaskOK'
    BY <1>3, <1>t, <2>2 DEF Tick, TaskOK
  <2> QED BY <2>1, <2>3 DEF HandTypeOK
<1>4. CASE ButtonWorks
  <2>1. ButtonOK' /\ AdcOK'
    BY <1>4, <1>t, ButtonTypeStep, AdcTypeStep DEF ButtonWorks
  <2>2. TaskOK'
    BY <1>4, <1>t DEF ButtonWorks, TaskOK, taskVars, record
  <2> QED BY <2>1, <2>2 DEF HandTypeOK
<1>5. CASE PotWorks
  <2>1. ButtonOK' /\ AdcOK'
    BY <1>5, <1>t, ButtonTypeStep, AdcTypeStep DEF PotWorks
  <2>2. TaskOK'
    BY <1>5, <1>t DEF PotWorks, TaskOK, taskVars, record
  <2> QED BY <2>1, <2>2 DEF HandTypeOK
<1>6. CASE TaskWorks
  <2>1. ButtonOK' /\ AdcOK'
    BY <1>6, <1>t, ButtonTypeStep, AdcTypeStep DEF TaskWorks
  <2>2. TaskOK'
    BY <1>6, <1>t, TaskTypeStep DEF TaskWorks
  <2> QED BY <2>1, <2>2 DEF HandTypeOK
<1>7. CASE UNCHANGED pvars
  <2>1. ButtonOK' /\ AdcOK'
    BY <1>7, <1>t, ButtonTypeStep, AdcTypeStep DEF pvars
  <2>2. TaskOK'
    BY <1>7, <1>t DEF pvars, TaskOK, taskVars, record
  <2> QED BY <2>1, <2>2 DEF HandTypeOK
<1> QED BY <1>1, <1>2, <1>3, <1>4, <1>5, <1>6, <1>7 DEF Next

\* For all ranges and periods: no mean leaves the range of the ADC, so that
\* the 16-bit arithmetic never wraps, and every order fits its registers.
THEOREM HandTypes == Spec => []HandTypeOK
BY HandTypeInit, HandTypeStep, PTL DEF Spec

\* For all samples and means: each sample brings the mean nearer to it, and
\* only a sample with the same upper bits leaves it where it is.
THEOREM MeanAlwaysApproaches == Spec => MeanApproaches
<1>1. HandTypeOK /\ [Next]_pvars
        => [tim3_uif /\ ~tim3_uif' => Nearer(g_adc_ema, g_adc_ema', pot)]_pvars
  <2> SUFFICES ASSUME HandTypeOK, [Next]_pvars, tim3_uif, ~tim3_uif'
               PROVE  Nearer(g_adc_ema, g_adc_ema', pot)
    OBVIOUS
  <2>1. Tim3
    BY DEF Next, pvars, adcVars, PinEdge, TurnPot, Turn, Tick, CountTim3,
           ButtonWorks, PotWorks, TaskWorks
  <2>2. g_adc_ema \in 0 .. AdcMax /\ pot \in 0 .. AdcMax
    BY AdcAssumption DEF HandTypeOK, AdcOK
  <2> QED BY <2>1, <2>2, MeanProperties DEF Tim3
<1> QED BY <1>1, HandTypes, PTL DEF Spec, MeanApproaches

\* The largest multiple of eight that a conversion can give, 4088 with 12 bits.
Plateau == 8 * (AdcMax \div 8)

\* No sample takes a mean over it that is not over it.
LEMMA PlateauHolds ==
  ASSUME NEW mean \in 0 .. AdcMax, NEW sample \in 0 .. AdcMax, mean <= Plateau
  PROVE  Mean(mean, sample) <= Plateau
<1> DEFINE a == mean \div 8
           b == sample \div 8
           q == AdcMax \div 8
           next == mean - a + b
<1>1. /\ a \in Nat /\ 8 * a <= mean /\ mean <= 8 * a + 7
      /\ b \in Nat /\ 8 * b <= sample /\ sample <= 8 * b + 7
      /\ q \in Nat /\ 8 * q <= AdcMax /\ AdcMax <= 8 * q + 7
      /\ AdcMax \in Nat /\ AdcMax < Word /\ Word \in Nat
  BY Eighth, AdcAssumption DEF Word
<1>2. mean <= 8 * q
  BY DEF Plateau
<1> HIDE DEF a, b, q
<1>3. a <= q /\ b <= q
  BY <1>1
<1>4. next \in Nat /\ next <= 8 * q
  BY <1>1, <1>2, <1>3
<1>5. next < Word
  BY <1>1, <1>4
<1>6. next % Word = next
  BY <1>1, <1>4, <1>5, NoWrap
<1>7. Mean(mean, sample) = next
  BY <1>6, Zenon DEF Mean, a, b
<1> QED BY <1>4, <1>7 DEF Plateau, q

\* adc.h:13-14 promises 0..4095 and 0..100 %. For every range that is no
\* multiple of eight, as 4095 is none: a board that starts with a mean below
\* the last seven values never shows 100 %, however the knob is turned.
THEOREM FullScaleNeverReached ==
  ASSUME Plateau < AdcMax
  PROVE  Spec /\ g_adc_ema <= Plateau => [](Percent(g_adc_ema) < 100)
<1>1. HandTypeOK /\ g_adc_ema <= Plateau /\ [Next]_pvars => (g_adc_ema <= Plateau)'
  <2> SUFFICES ASSUME HandTypeOK, g_adc_ema <= Plateau, [Next]_pvars
               PROVE  g_adc_ema' <= Plateau
    BY DEF Plateau
  <2>1. g_adc_ema \in 0 .. AdcMax /\ pot \in 0 .. AdcMax
    BY AdcAssumption DEF HandTypeOK, AdcOK
  <2>2. CASE Tim3
    BY <2>1, <2>2, PlateauHolds DEF Tim3
  <2>3. CASE UNCHANGED g_adc_ema
    BY <2>3
  <2> QED BY <2>2, <2>3 DEF Next, pvars, adcVars, PinEdge, TurnPot, Turn, Tick, CountTim3,
                            ButtonWorks, PotWorks, TaskWorks
<1>2. HandTypeOK /\ g_adc_ema <= Plateau => Percent(g_adc_ema) < 100
  <2> SUFFICES ASSUME HandTypeOK, g_adc_ema <= Plateau PROVE Percent(g_adc_ema) < 100
    OBVIOUS
  <2> DEFINE v == (g_adc_ema * 100) \div AdcMax
  <2>1. /\ g_adc_ema \in Nat /\ AdcMax \in Nat \ {0} /\ g_adc_ema < AdcMax
    BY AdcAssumption, Eighth DEF HandTypeOK, AdcOK, Plateau
  <2>2. \A x \in Nat, d \in Nat \ {0} : x < 100 * d => x \div d \in Nat /\ x \div d < 100
    OBVIOUS
  <2>3. g_adc_ema * 100 \in Nat /\ g_adc_ema * 100 < 100 * AdcMax
    BY <2>1
  <2>4. v \in Nat /\ v < 100
    BY <2>1, <2>2, <2>3
  <2> HIDE DEF v
  <2>5. (IF v > 100 THEN 100 ELSE v) < 100
    BY <2>4
  <2> QED BY <2>5 DEF Percent, v
<1> QED BY <1>1, <1>2, HandTypes, PTL DEF Spec

-----------------------------------------------------------------------------
(* The button *)

\* A window that runs began with the latest edge; one that is over ended a whole
\* window after it, unless another one runs already; and a level that is not
\* that of the pin has something coming that will take it.
ButtonInv ==
  /\ boot # "on" => ~exti /\ ~counting /\ ~uif /\ ~taking /\ quiet = 0
  /\ boot = "read" /\ ~unheard => g_pressed = pin
  /\ exti => quiet = 0
  /\ counting /\ ~exti => counter = quiet
  /\ uif \/ taking => quiet <= Window
  /\ (uif \/ taking) /\ ~exti /\ ~counting => quiet = Window
  /\ boot = "on" /\ ~unheard /\ ~exti /\ ~counting /\ ~uif /\ ~taking => g_pressed = pin

LEMMA ButtonInvStep == HandTypeOK /\ ButtonInv /\ [Next]_pvars => ButtonInv'
<1> SUFFICES ASSUME HandTypeOK, ButtonInv, [Next]_pvars PROVE ButtonInv'
  OBVIOUS
<1>t. /\ counter \in Nat /\ counter < Window /\ quiet \in Nat /\ quiet <= QuietCap
      /\ Window \in Nat /\ QuietCap \in Nat /\ Window < QuietCap
      /\ boot \in {"off", "read", "on"}
  BY ButtonAssumption, DemoAssumption DEF HandTypeOK, ButtonOK, TaskOK, QuietCap
<1>1. CASE PinEdge
  <2>1. /\ UNCHANGED <<g_pressed, boot, counting, counter, uif, taking>>
        /\ quiet' = 0 /\ pin' = ~pin
    BY <1>1, Zenon DEF PinEdge, Edge, tim1Vars
  <2>2. CASE boot = "on"
    <3>1. exti' /\ ~unheard'
      BY <1>1, <2>2, <1>t, Zenon DEF PinEdge, Edge, Triggers
    <3> QED BY <1>t, <2>1, <2>2, <3>1 DEF ButtonInv
  <2>3. CASE boot # "on"
    <3>1. ~exti' /\ (boot = "read" => unheard')
      BY <1>1, <2>3, Zenon DEF PinEdge, Edge, ButtonInv
    <3> QED BY <1>t, <2>1, <2>3, <3>1 DEF ButtonInv
  <2> QED BY <2>2, <2>3
<1>2. CASE Tick
  <2>0. /\ ~exti /\ ~uif /\ ~taking
        /\ UNCHANGED <<pin, g_pressed, boot, exti, taking, unheard>>
    BY <1>2, Zenon DEF Tick, Count
  <2>1. CASE counting /\ counter + 1 = Window
    <3>1. uif' /\ ~counting'
      BY <1>2, <2>1, Zenon DEF Tick, Count
    <3>2. quiet' = Window
      BY <1>2, <1>t, <2>0, <2>1 DEF Tick, ButtonInv
    <3> QED BY <1>t, <2>0, <2>1, <3>1, <3>2 DEF ButtonInv
  <2>2. CASE counting /\ counter + 1 # Window
    <3>1. ~uif' /\ counting'
      BY <1>2, <2>2, Zenon DEF Tick, Count
    <3>2. counter' = counter + 1 /\ quiet' = quiet + 1
      BY <1>2, <1>t, <2>0, <2>2 DEF Tick, Count, ButtonInv
    <3> QED BY <1>t, <2>0, <2>2, <3>1, <3>2 DEF ButtonInv
  <2>3. CASE ~counting
    <3>1. ~uif' /\ ~counting'
      BY <1>2, <2>3, Zenon DEF Tick, Count
    <3>2. boot # "on" => quiet' = quiet
      BY <1>2 DEF Tick
    <3> QED BY <1>t, <2>0, <2>3, <3>1, <3>2 DEF ButtonInv
  <2> QED BY <2>1, <2>2, <2>3
<1>3. CASE ButtonWorks
  <2> USE <1>t DEF ButtonInv, record, tim1Vars
  <2>1. CASE TakeLevel
    BY <1>3, <2>1 DEF ButtonWorks, TakeLevel
  <2>2. CASE EnableEdges
    BY <1>3, <2>2 DEF ButtonWorks, EnableEdges
  <2>3. CASE Exti0
    BY <1>3, <2>3 DEF ButtonWorks, Exti0, Restarted
  <2>4. CASE Tim1Begin
    BY <1>3, <2>4 DEF ButtonWorks, Tim1Begin
  <2>5. CASE Tim1Take
    BY <1>3, <2>5 DEF ButtonWorks, Tim1Take
  <2> QED BY <1>3, <2>1, <2>2, <2>3, <2>4, <2>5 DEF ButtonWorks, ButtonStep
<1>4. CASE UNCHANGED <<buttonVars, record>>
  BY <1>4 DEF ButtonInv, buttonVars, tim1Vars, record
<1> QED BY <1>1, <1>2, <1>3, <1>4 DEF Next, TurnPot, PotWorks, TaskWorks, pvars

LEMMA ButtonInvariant == Spec => []ButtonInv
<1>1. Init => ButtonInv
  BY DEF Init, ButtonInit, ButtonInv
<1> QED BY <1>1, ButtonInvStep, HandTypes, PTL DEF Spec

LEMMA Settled == HandTypeOK /\ ButtonInv => ButtonSettles
BY ButtonAssumption DEF HandTypeOK, ButtonOK, TaskOK, ButtonInv, ButtonSettles

\* For all windows: one window after the last bounce the level is that of the
\* pin, whatever happened at the window's end.
THEOREM ButtonAlwaysSettles == Spec => []ButtonSettles
BY ButtonInvariant, HandTypes, Settled, PTL

\* For all windows: a level is taken after a whole window of quiet, or else with
\* the next window already under way.
THEOREM BounceOnlyInRace == Spec => OnlyRaceSeesBounce
<1>1. HandTypeOK /\ ButtonInv /\ [Next]_pvars
        => [boot = "on" /\ g_pressed' # g_pressed
              => quiet >= Window \/ counting \/ exti]_pvars
  <2> SUFFICES ASSUME HandTypeOK, ButtonInv, [Next]_pvars,
                      boot = "on", g_pressed' # g_pressed, ~counting, ~exti
               PROVE  quiet >= Window
    OBVIOUS
  <2>1. taking
    BY DEF Next, pvars, buttonVars, tim1Vars, PinEdge, Edge, TurnPot, Tick, Count,
           ButtonWorks, ButtonStep, TakeLevel, EnableEdges, Exti0, Tim1Begin,
           Tim1Take, PotWorks, TaskWorks
  <2>2. quiet = Window
    BY <2>1, Zenon DEF ButtonInv
  <2> QED BY <2>2, ButtonAssumption
<1> QED BY <1>1, ButtonInvariant, HandTypes, PTL DEF Spec, OnlyRaceSeesBounce

-----------------------------------------------------------------------------
(* The task *)

\* What LED and buzzer do not show yet is no longer ago than the task needs: in
\* the wait, it has been so since the button was read; before the reading, since
\* the period before.
Shown == leds.red = pin /\ (buzzer.ccr > 0) = pin
FollowInv ==
  boot = "on" /\ ~unheard /\ ~Shown =>
    quiet <= Window + clock + (IF pc = "wait" THEN 0 ELSE DemoPeriod)
StartInv == boot # "on" => clock = 0 /\ pc = "speed" /\ quiet = 0

LEMMA StartStep == StartInv /\ ButtonInv' /\ [Next]_pvars => StartInv'
<1> SUFFICES ASSUME StartInv, ButtonInv', [Next]_pvars, boot' # "on"
             PROVE  clock' = 0 /\ pc' = "speed" /\ quiet' = 0
  BY DEF StartInv
<1>1. boot # "on"
  BY DEF Next, pvars, buttonVars, tim1Vars, PinEdge, Edge, TurnPot, Tick, Count,
         ButtonWorks, ButtonStep, TakeLevel, EnableEdges, Exti0, Tim1Begin,
         Tim1Take, PotWorks, TaskWorks
<1>2. clock = 0 /\ pc = "speed"
  BY <1>1 DEF StartInv
<1>3. clock' = 0 /\ pc' = "speed"
  BY <1>1, <1>2 DEF Next, pvars, taskVars, PinEdge, TurnPot, Tick, ButtonWorks,
         PotWorks, TaskWorks, DemoTask, ReadSpeed, ReadButton, Wake, Transmit
<1>4. quiet' = 0
  BY DEF ButtonInv
<1> QED BY <1>3, <1>4

\* Reading the button makes LED and buzzer show what it gave.
LEMMA ShowsWhatItRead ==
  ASSUME HandTypeOK, NEW pir \in BOOLEAN, ReadButton(pir)
  PROVE  leds'.red = g_pressed /\ (buzzer'.ccr > 0) = g_pressed
<1>1. leds'.red = g_pressed
  BY DEF ReadButton, Lights
<1>2. CASE g_pressed
  <2>1. buzzer' = SetTone(Freq(spd)) /\ spd \in 0 .. 100
    BY <1>2 DEF ReadButton, ToneFor, HandTypeOK, TaskOK
  <2>2. buzzer'.ccr > 0
    BY <2>1, ToneSounds
  <2> QED BY <1>1, <1>2, <2>2
<1>3. CASE ~g_pressed
  <2>1. buzzer'.ccr = 0
    BY <1>3 DEF ReadButton, ToneFor, Off
  <2>2. (buzzer'.ccr > 0) = FALSE
    BY <2>1
  <2>3. g_pressed = FALSE
    BY <1>3 DEF HandTypeOK, ButtonOK
  <2> QED BY <1>1, <2>2, <2>3, Zenon
<1> QED BY <1>2, <1>3 DEF HandTypeOK, ButtonOK

LEMMA FollowStep ==
  HandTypeOK /\ StartInv /\ ButtonSettles /\ FollowInv /\ [Next]_pvars => FollowInv'
<1> SUFFICES ASSUME HandTypeOK, StartInv, ButtonSettles, FollowInv, [Next]_pvars,
                    boot' = "on", ~unheard', ~Shown'
             PROVE  quiet' <= Window + clock' + (IF pc' = "wait" THEN 0 ELSE DemoPeriod)
  BY DEF FollowInv
<1>t. /\ clock \in Nat /\ clock <= DemoPeriod /\ quiet \in Nat
      /\ Window \in Nat /\ DemoPeriod \in Nat
  BY ButtonAssumption, DemoAssumption DEF HandTypeOK, TaskOK, QuietCap
<1>1. CASE PinEdge
  BY <1>1, <1>t DEF PinEdge, taskVars
<1>2. CASE Tick
  <2>1. boot = "on" /\ ~unheard /\ ~Shown
    BY <1>2 DEF Tick, Count, Shown
  <2>2. clock' = clock + 1 /\ quiet' <= quiet + 1 /\ quiet' \in Nat /\ pc' = pc
    BY <1>2, <1>t, <2>1 DEF Tick, Count
  <2> QED BY <1>t, <2>1, <2>2 DEF FollowInv
<1>3. CASE ButtonWorks
  <2>1. UNCHANGED <<quiet, unheard, clock, pc, pin, leds, buzzer>>
    BY <1>3 DEF ButtonWorks, ButtonStep, TakeLevel, EnableEdges, Exti0, Tim1Begin,
                Tim1Take, record, taskVars
  <2>2. CASE boot = "on"
    BY <1>t, <2>1, <2>2 DEF FollowInv, Shown
  <2>3. CASE boot # "on"
    BY <1>t, <2>1, <2>3 DEF StartInv
  <2> QED BY <2>2, <2>3
<1>4. CASE TaskWorks
  <2>1. UNCHANGED <<quiet, unheard, boot, pin, g_pressed>>
    BY <1>4 DEF TaskWorks, record, buttonVars
  <2>2. CASE ReadSpeed \/ Transmit
    BY <1>t, <2>1, <2>2 DEF ReadSpeed, Transmit, FollowInv, Shown
  <2>3. CASE Wake
    BY <1>t, <2>1, <2>3 DEF Wake, FollowInv, Shown
  <2>4. ASSUME NEW pir \in BOOLEAN, ReadButton(pir)
        PROVE  quiet' <= Window + clock' + (IF pc' = "wait" THEN 0 ELSE DemoPeriod)
    <3>1. g_pressed # pin
      <4>1. leds'.red = g_pressed /\ (buzzer'.ccr > 0) = g_pressed
        BY <2>4, ShowsWhatItRead
      <4> QED BY <2>1, <4>1, Zenon DEF Shown
    <3>2. quiet <= Window
      BY <1>t, <2>1, <3>1 DEF ButtonSettles
    <3> QED BY <1>t, <2>1, <2>4, <3>2 DEF ReadButton
  <2> QED BY <1>4, <2>2, <2>3, <2>4 DEF TaskWorks, DemoTask
<1>5. CASE UNCHANGED <<buttonVars, taskVars, record>>
  BY <1>5, <1>t DEF FollowInv, Shown, buttonVars, taskVars, record
<1> QED BY <1>1, <1>2, <1>3, <1>4, <1>5 DEF Next, TurnPot, PotWorks, pvars

\* For all windows and periods: LED and buzzer follow the button within a window
\* and two periods of the task.
THEOREM DemoAlwaysFollows == Spec => []DemoFollows
<1>1. Init => StartInv /\ FollowInv
  BY DEF Init, ButtonInit, StartInv, FollowInv
<1>2. HandTypeOK /\ FollowInv => DemoFollows
  BY ButtonAssumption, DemoAssumption
     DEF HandTypeOK, TaskOK, FollowInv, Shown, DemoFollows, QuietCap
<1>3. Spec => []StartInv
  BY <1>1, StartStep, ButtonInvariant, PTL DEF Spec
<1> QED BY <1>1, <1>2, <1>3, FollowStep, HandTypes, ButtonAlwaysSettles, PTL DEF Spec
=============================================================================
