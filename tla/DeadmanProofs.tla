--------------------------- MODULE DeadmanProofs ---------------------------
(***************************************************************************)
(* Theorems about the deadman task, for every value of its constants.      *)
(***************************************************************************)
EXTENDS DeadmanHistory, DriversProofs, Integers, TLAPS

-----------------------------------------------------------------------------
(* Remainders, for the arithmetic of counters that wrap around, such as the *)
(* ticks of FreeRTOS                                                        *)

\* Two multiples are a whole step apart.
LEMMA MultipleApart ==
  ASSUME NEW m \in Nat \ {0}, NEW i \in Int, NEW j \in Int, i < j
  PROVE  m * i + m <= m * j
<1>1. m * (j - i) >= m
  BY SMT
<1>2. m * (j - i) = m * j - m * i
  BY SMT
<1>3. m * j \in Int /\ m * i \in Int /\ m * (j - i) \in Int
  BY SMT
<1> QED BY <1>1, <1>2, <1>3

\* Division with a remainder.
LEMMA Divided ==
  ASSUME NEW m \in Nat \ {0}, NEW n \in Nat
  PROVE  n \div m \in Nat /\ n % m \in 0 .. m - 1 /\ n = m * (n \div m) + (n % m)
<1>1. n % m \in 0 .. m - 1
  BY SMT
<1>2. n \div m \in Nat
  BY SMT
<1>3. n = m * (n \div m) + (n % m)
  BY SMT
<1> QED BY <1>1, <1>2, <1>3

\* ... of which there is only one.
LEMMA RemainderUnique ==
  ASSUME NEW m \in Nat \ {0}, NEW n \in Nat, NEW q \in Int, NEW r \in 0 .. m - 1,
         n = m * q + r
  PROVE  n % m = r
<1>1. n \div m \in Nat /\ n % m \in 0 .. m - 1 /\ n = m * (n \div m) + (n % m)
  BY Divided, Zenon
<1> DEFINE d == n \div m   s == n % m
<1> HIDE DEF d, s
<1>2. d \in Int /\ s \in 0 .. m - 1 /\ n = m * d + s
  BY <1>1 DEF d, s
<1>3. m * d \in Int /\ m * q \in Int
  BY <1>2
<1>4. CASE d < q
  BY <1>2, <1>3, <1>4, MultipleApart
<1>5. CASE q < d
  BY <1>2, <1>3, <1>5, MultipleApart
<1>6. CASE d = q
  BY <1>2, <1>3, <1>6 DEF s
<1> QED BY <1>2, <1>4, <1>5, <1>6

\* A remainder may be taken early.
LEMMA RemainderOfSum ==
  ASSUME NEW m \in Nat \ {0}, NEW x \in Nat, NEW y \in Nat
  PROVE  ((x % m) + y) % m = (x + y) % m
<1> DEFINE r == x % m  q == x \div m  k == (r + y) \div m  s == (r + y) % m
<1>1. q \in Nat /\ r \in 0 .. m - 1 /\ x = m * q + r
  BY Divided
<1> HIDE DEF q, r
<1>2. r + y \in Nat
  BY <1>1
<1>3. k \in Nat /\ s \in 0 .. m - 1 /\ r + y = m * k + s
  BY <1>2, Divided
<1> HIDE DEF k, s
<1>4. m * (q + k) = m * q + m * k /\ m * q \in Int /\ m * k \in Int /\ q + k \in Int
  BY <1>1, <1>3
<1>5. x + y = m * (q + k) + s /\ x + y \in Nat
  BY <1>1, <1>3, <1>4
<1>6. (x + y) % m = s
  BY <1>3, <1>4, <1>5, RemainderUnique
<1> QED BY <1>6 DEF s, r

\* What has gone by since l, as told by a counter that wraps around at m, is no
\* more than what really has.
LEMMA ElapsedBound ==
  ASSUME NEW m \in Nat \ {0}, NEW l \in 0 .. m - 1, NEW a \in Nat
  PROVE  (((l + a) % m) + m - l) % m <= a
<1> DEFINE t == (l + a) % m  q == (l + a) \div m  k == a \div m  s == a % m
<1>0. l + a \in Nat
  OBVIOUS
<1>1. q \in Nat /\ t \in 0 .. m - 1 /\ l + a = m * q + t
  BY <1>0, Divided, Zenon
<1>2. k \in Nat /\ s \in 0 .. m - 1 /\ a = m * k + s
  BY Divided
<1> HIDE DEF q, t, k, s
<1>3. /\ m * (k - q + 1) = m * k - m * q + m
      /\ m * q \in Int /\ m * k \in Int /\ k - q + 1 \in Int
  BY <1>1, <1>2
<1>m. m * k >= 0
  BY <1>2
<1>4. t + m - l = m * (k - q + 1) + s /\ t + m - l \in Nat
  BY <1>1, <1>2, <1>3
<1>5. (t + m - l) % m = s
  BY <1>2, <1>3, <1>4, RemainderUnique
<1>6. s <= a
  BY <1>2, <1>m, <1>3
<1> QED BY <1>5, <1>6 DEF t

-----------------------------------------------------------------------------
(* Helpers *)

\* A timer below its limit stays below it: the code adds the period and
\* restarts the timer in the same step in which it reaches the limit.
LEMMA AdvanceBelow ==
  ASSUME NEW limit \in Nat \ {0}, NEW t \in 0 .. limit - 1
  PROVE  Advance(t, limit) \in 0 .. limit - 1
BY DeadmanAssumption DEF Advance, Due

\* send_msg never makes the queue longer than it is, whatever it does.
LEMMA SendBounded ==
  ASSUME NEW m \in Message, QueueOK, Send(m)
  PROVE  QueueOK'
<1>1. CASE Len(txq) < TxLength
  <2>1. txq' = Append(txq, m)
    BY <1>1 DEF Send
  <2>2. txq' \in Seq(Message) /\ Len(txq') = Len(txq) + 1
    BY <2>1 DEF QueueOK
  <2>3. Len(txq) \in Nat
    BY DEF QueueOK
  <2> QED BY <1>1, <2>2, <2>3, DeadmanAssumption DEF QueueOK
<1>2. CASE ~(Len(txq) < TxLength)
  BY <1>2 DEF Send, QueueOK
<1> QED BY <1>1, <1>2

\* The filter's counter stays below the number of samples it waits for.
LEMMA CountBelow ==
  ASSUME InputsOK, NEW s \in Sensor, NEW in
  PROVE  FilteredCount(s, in) \in 0 .. StableSamples - 1
<1>1. change_count[s] \in 0 .. StableSamples - 1
  BY DEF InputsOK
<1>2. Bumped(change_count[s]) \in Nat
  BY <1>1, DeadmanAssumption DEF Bumped
<1> QED BY <1>2, DeadmanAssumption DEF FilteredCount, Flips

LEMMA TickRange == ASSUME NEW t \in Nat PROVE t % TickMod \in 0 .. TickMod - 1
BY DeadmanAssumption

-----------------------------------------------------------------------------
(* Types, one part of TypeOK at a time *)

LEMMA FlagsStep == FlagsOK /\ [Next]_vars => FlagsOK'
<1> SUFFICES ASSUME FlagsOK, [Next]_vars PROVE FlagsOK'
  OBVIOUS
<1> USE DEF FlagsOK, PC
<1>1. ASSUME NEW in \in Inputs, Sample(in) PROVE FlagsOK'
  <2>1. present_prev' \in BOOLEAN
    BY <1>1 DEF Sample, Present
  <2>2. pc' \in PC
    BY <1>1, <2>1 DEF Sample, After
  <2> QED BY <1>1, <2>1, <2>2 DEF Sample
<1>2. CASE Respond
  BY <1>2 DEF Respond, Rearm, Announce, Operate, Alive, Stop, AfterStop, Emergency,
              Rest, TakeAck, AwaitAck, Resend, EndIteration, Alarm, DropAck, localVars
<1>3. CASE OtherTasks
  BY <1>3 DEF OtherTasks, NotifyAck, Reply, Transmit, taskVars, localVars
<1>4. CASE UNCHANGED vars
  BY <1>4 DEF vars, taskVars, localVars
<1> QED BY <1>1, <1>2, <1>3, <1>4 DEF Next, Task

LEMMA InputsStep == InputsOK /\ [Next]_vars => InputsOK'
<1> SUFFICES ASSUME InputsOK, [Next]_vars PROVE InputsOK'
  OBVIOUS
<1>1. ASSUME NEW in \in Inputs, Sample(in) PROVE InputsOK'
  <2>1. change_count' \in [Sensor -> 0 .. StableSamples - 1]
    BY <1>1, CountBelow DEF Sample
  <2>2. btn_prev' \in BOOLEAN /\ stable' \subseteq Sensor
    BY <1>1 DEF Sample
  <2>3. muted' \in BOOLEAN /\ last_rise' \in 0 .. TickMod - 1
    BY <1>1 DEF Sample, InputsOK
  <2>4. tick' = tick
    BY <1>1 DEF Sample
  <2> QED BY <2>1, <2>2, <2>3, <2>4 DEF InputsOK
<1>2. CASE Respond
  <2>1. UNCHANGED inputVars
    BY <1>2 DEF Respond, Rearm, Announce, Operate, Alive, Stop, Emergency,
                Rest, TakeAck, AwaitAck, Resend, localVars
  <2>2. tick' = tick \/ tick' = (tick + TaskPeriod) % TickMod
    BY <1>2 DEF Respond, Rearm, Announce, Operate, Alive, Stop, Emergency,
                Rest, TakeAck, AwaitAck, Resend, EndIteration, localVars
  <2>3. tick + TaskPeriod \in Nat
    BY DeadmanAssumption DEF InputsOK
  <2>4. tick' \in 0 .. TickMod - 1
    BY <2>2, <2>3, TickRange DEF InputsOK
  <2> QED BY <2>1, <2>4 DEF InputsOK, inputVars
<1>3. CASE OtherTasks
  BY <1>3 DEF OtherTasks, NotifyAck, Reply, Transmit, taskVars, localVars,
              inputVars, InputsOK
<1>4. CASE UNCHANGED vars
  BY <1>4 DEF vars, taskVars, localVars, inputVars, InputsOK
<1> QED BY <1>1, <1>2, <1>3, <1>4 DEF Next, Task

LEMMA TimersStep == TimersOK /\ [Next]_vars => TimersOK'
<1> SUFFICES ASSUME TimersOK, [Next]_vars PROVE TimersOK'
  OBVIOUS
<1>1. ASSUME NEW in \in Inputs, Sample(in) PROVE TimersOK'
  <2>1. t_diag' \in {t_diag, Advance(t_diag, DiagPeriod)} /\ UNCHANGED timerVars
    BY <1>1 DEF Sample
  <2>2. t_diag' \in 0 .. DiagPeriod - 1
    BY <2>1, AdvanceBelow, DeadmanAssumption DEF TimersOK
  <2> QED BY <2>1, <2>2 DEF timerVars, TimersOK
<1>2. CASE Respond
  <2>1. t_spd' \in {t_spd, 0, Advance(t_spd, SpdPeriod)}
    BY <1>2 DEF Respond, Rearm, Announce, Operate, Alive, Stop, Emergency,
                Rest, TakeAck, AwaitAck, Resend, localVars, timerVars
  <2>2. t_alive' \in {t_alive, 0, Advance(t_alive, AlivePeriod)}
    BY <1>2 DEF Respond, Rearm, Announce, Operate, Alive, Stop, Emergency,
                Rest, TakeAck, AwaitAck, Resend, localVars, timerVars
  <2>3. t_ack' \in {t_ack, 0, Advance(t_ack, AckTimeout)}
    BY <1>2 DEF Respond, Rearm, Announce, Operate, Alive, Stop, Emergency,
                Rest, TakeAck, AwaitAck, Resend, localVars, timerVars
  <2>4. t_beep' \in {t_beep, 0, Advance(t_beep, BeepPeriod)}
    BY <1>2 DEF Respond, Rearm, Announce, Operate, Alive, Stop, Emergency,
                Rest, TakeAck, AwaitAck, Resend, Alarm, localVars, timerVars
  <2>5. t_spd' \in 0 .. SpdPeriod - 1 /\ t_alive' \in 0 .. AlivePeriod - 1
    BY <2>1, <2>2, AdvanceBelow, DeadmanAssumption DEF TimersOK
  <2>6. t_ack' \in 0 .. AckTimeout - 1 /\ t_beep' \in 0 .. BeepPeriod - 1
    BY <2>3, <2>4, AdvanceBelow, DeadmanAssumption DEF TimersOK
  <2>7. UNCHANGED t_diag
    BY <1>2 DEF Respond, Rearm, Announce, Operate, Alive, Stop, Emergency,
                Rest, TakeAck, AwaitAck, Resend, localVars, inputVars
  <2> QED BY <2>5, <2>6, <2>7 DEF TimersOK
<1>3. CASE OtherTasks
  BY <1>3 DEF OtherTasks, NotifyAck, Reply, Transmit, taskVars, localVars,
              inputVars, timerVars, TimersOK
<1>4. CASE UNCHANGED vars
  BY <1>4 DEF vars, taskVars, localVars, inputVars, timerVars, TimersOK
<1> QED BY <1>1, <1>2, <1>3, <1>4 DEF Next, Task

LEMMA OutputsStep == OutputsOK /\ [Next]_vars => OutputsOK'
<1> SUFFICES ASSUME OutputsOK, [Next]_vars PROVE OutputsOK'
  OBVIOUS
<1>1. leds \in Light /\ buzzer \in Tone
  BY DEF OutputsOK
<1>2. (leds' \in Light /\ buzzer' \in Tone) => OutputsOK'
  BY DEF OutputsOK
<1>3. ASSUME NEW spd \in Speeds, Operate(spd) PROVE OutputsOK'
  <2>1. leds' \in Light
    <3>1. spd * 10 \in Nat
      BY DeadmanAssumption
    <3> QED BY <1>3, <3>1, LightsRange DEF Operate
  <2>2. buzzer' = Off(buzzer) \/ buzzer' = SetTone(Freq(spd))
    BY <1>3 DEF Operate
  <2>3. buzzer' \in Tone
    BY <1>1, <2>2, OffRange, ToneRange, DeadmanAssumption
  <2> QED BY <1>2, <2>1, <2>3
<1>4. ASSUME Alarm PROVE OutputsOK'
  <2>1. leds' \in Light
    <3>1. ("pir" \in stable) \in BOOLEAN /\ 0 \in Nat
      OBVIOUS
    <3>2. Lights(0, TRUE, "pir" \in stable) \in Light
      BY <3>1, LightsRange, Zenon
    <3>3. leds' = Lights(0, TRUE, "pir" \in stable)
      BY <1>4, Zenon DEF Alarm
    <3> QED BY <3>2, <3>3, Zenon
  <2>2. buzzer' \in {buzzer, Off(buzzer), SetTone(AlarmFreq)}
    BY <1>4 DEF Alarm
  <2>3. SetTone(AlarmFreq) \in Tone
    BY SetToneRange DEF AlarmFreq, Hertz
  <2>4. buzzer' \in Tone
    BY <1>1, <2>2, <2>3, OffRange
  <2> QED BY <1>2, <2>1, <2>4
<1>5. CASE UNCHANGED outVars
  BY <1>5 DEF outVars, OutputsOK
<1>6. CASE \E in \in Inputs : Sample(in)
  BY <1>5, <1>6 DEF Sample
<1>7. CASE Rearm \/ Announce \/ Alive \/ Stop \/ Emergency \/ Resend
  BY <1>5, <1>7 DEF Rearm, Announce, Alive, Stop, Emergency, Resend, localVars
<1>8. CASE Rest \/ TakeAck \/ AwaitAck
  BY <1>4, <1>8 DEF Rest, TakeAck, AwaitAck
<1>9. CASE OtherTasks
  BY <1>5, <1>9 DEF OtherTasks, NotifyAck, Reply, Transmit, taskVars, localVars
<1>10. CASE UNCHANGED vars
  BY <1>5, <1>10 DEF vars, taskVars, localVars
<1> QED BY <1>3, <1>6, <1>7, <1>8, <1>9, <1>10 DEF Next, Task, Respond

LEMMA QueueStep == QueueOK /\ [Next]_vars => QueueOK'
<1> SUFFICES ASSUME QueueOK, [Next]_vars PROVE QueueOK'
  OBVIOUS
<1>1. CASE UNCHANGED txq
  BY <1>1 DEF QueueOK
<1>2. CASE \E m \in Message : Send(m)
  BY <1>2, SendBounded
<1>3. CASE Reply
  <2>1. txq' \in Seq(Message) /\ Len(txq') = Len(txq) + 1 /\ Len(txq) \in Nat
    BY <1>3 DEF Reply, QueueOK, Message
  <2> QED BY <1>3, <2>1, DeadmanAssumption DEF Reply, QueueOK
<1>4. CASE Transmit
  <2>1. txq' \in Seq(Message) /\ Len(txq') = Len(txq) - 1 /\ Len(txq) \in Nat
    BY <1>4 DEF Transmit, QueueOK
  <2> QED BY <2>1, DeadmanAssumption DEF QueueOK
<1>5. CASE Task
  <2>1. CASE \E in \in Inputs : Sample(in)
    BY <1>1, <1>2, <2>1 DEF Sample, Message, DeadmanMessage
  <2>2. CASE Respond
    BY <1>1, <1>2, <2>2
       DEF Respond, Rearm, Announce, Operate, Alive, Stop, Emergency, Rest,
           TakeAck, AwaitAck, Resend, Message, DeadmanMessage
  <2> QED BY <1>5, <2>1, <2>2 DEF Task
<1>6. CASE NotifyAck
  BY <1>1, <1>6 DEF NotifyAck
<1>7. CASE UNCHANGED vars
  BY <1>1, <1>7 DEF vars
<1> QED BY <1>3, <1>4, <1>5, <1>6, <1>7 DEF Next, OtherTasks

LEMMA TypeStep == TypeOK /\ [Next]_vars => TypeOK'
BY FlagsStep, InputsStep, TimersStep, OutputsStep, QueueStep DEF TypeOK

LEMMA TypeInit == Init => TypeOK
<1> SUFFICES ASSUME Init PROVE TypeOK
  OBVIOUS
<1>1. FlagsOK
  BY DEF Init, FlagsOK, PC
<1>2. OutputsOK
  <2>1. Lights(0, TRUE, FALSE) \in Light
    BY LightsRange
  <2> QED BY <2>1, SilenceRange DEF Init, OutputsOK
<1>3. InputsOK
  <2>1. stable \subseteq Sensor /\ change_count = [s \in Sensor |-> 0]
    BY DEF Init
  <2>2. 0 \in 0 .. StableSamples - 1 /\ 0 \in 0 .. TickMod - 1
    BY DeadmanAssumption
  <2>3. btn_prev = FALSE /\ muted = FALSE /\ last_rise = 0 /\ tick = 0
    BY DEF Init
  <2> QED BY <2>1, <2>2, <2>3 DEF InputsOK
<1>4. TimersOK
  BY DeadmanAssumption DEF Init, TimersOK
<1>5. QueueOK
  BY DeadmanAssumption DEF Init, QueueOK
<1> QED BY <1>1, <1>2, <1>3, <1>4, <1>5 DEF TypeOK

\* Whatever the periods, the queue length and the speeds are, every variable
\* of the task keeps its type: each timer stays below its period, and the
\* transmit queue within its length.
THEOREM TaskTypeCorrect == Spec => []TypeOK
BY TypeInit, TypeStep, PTL DEF Spec

-----------------------------------------------------------------------------
(* The recorded history *)

LEMMA HNextIsNext == [HNext]_hvars => [Next]_vars
BY DEF HNext, HTask, HSample, HRespond, HOtherTasks, Next, Task, hvars

LEMMA HTypeCorrect == HSpec => []TypeOK
<1>1. HInit => TypeOK
  BY TypeInit DEF HInit
<1>2. TypeOK /\ [HNext]_hvars => TypeOK'
  BY TypeStep, HNextIsNext
<1> QED BY <1>1, <1>2, PTL DEF HSpec

-----------------------------------------------------------------------------
(* The operator gate *)

RunOK == run \in [Sensor -> 1 .. StableSamples]

\* The gate's view of the inputs, which the properties of the gate follow from.
GateInv ==
  /\ RunOK
  /\ FilterCounts
  /\ btn_prev <=> "button" \in last_in
  /\ present_prev <=> "button" \in last_in /\ \A s \in Sensor : s \in stable

\* One sample of one sensor keeps the filter's counter in step with the record.
LEMMA FilterSample ==
  ASSUME RunOK, InputsOK, FilterCounts, NEW in, HSample(in), NEW s \in Sensor
  PROVE  /\ run'[s] \in 1 .. StableSamples
         /\ IF s \in stable' <=> s \in last_in'
              THEN change_count'[s] = 0
              ELSE change_count'[s] = run'[s] /\ run'[s] < StableSamples
<1>1. /\ change_count[s] \in 0 .. StableSamples - 1
      /\ run[s] \in 1 .. StableSamples
      /\ StableSamples \in Nat \ {0}
  BY DeadmanAssumption DEF InputsOK, RunOK
<1>2. /\ change_count'[s] = FilteredCount(s, in)
      /\ s \in stable' <=> FilteredLevel(s, in)
      /\ last_in' = in
      /\ run'[s] = IF s \in in <=> s \in last_in
                     THEN Capped(run[s] + 1, StableSamples) ELSE 1
  BY DEF HSample, Sample
<1>3. IF s \in stable <=> s \in last_in
        THEN change_count[s] = 0
        ELSE change_count[s] = run[s] /\ run[s] < StableSamples
  BY DEF FilterCounts
<1>4. Bumped(change_count[s]) = change_count[s] + 1
  BY <1>1 DEF Bumped
<1>5. CASE s \in in <=> s \in stable
  BY <1>1, <1>2, <1>3, <1>5 DEF FilteredCount, FilteredLevel, Flips, Capped
<1>6. CASE ~(s \in in <=> s \in stable)
  BY <1>1, <1>2, <1>3, <1>4, <1>6 DEF FilteredCount, FilteredLevel, Flips, Capped
<1> QED BY <1>5, <1>6

LEMMA GateInvInit == HInit => GateInv
BY DeadmanAssumption
   DEF HInit, Init, GateInv, RunOK, FilterCounts, Sensor

LEMMA GateInvStep == TypeOK /\ GateInv /\ [HNext]_hvars => GateInv'
<1> SUFFICES ASSUME TypeOK, GateInv, [HNext]_hvars PROVE GateInv'
  OBVIOUS
<1>1. ASSUME NEW in \in Inputs, HSample(in) PROVE GateInv'
  <2>1. RunOK'
    <3>1. \A s \in Sensor : run'[s] \in 1 .. StableSamples
      BY <1>1, FilterSample DEF GateInv, TypeOK
    <3>2. run' = [s \in Sensor |-> run'[s]]
      BY <1>1 DEF HSample
    <3> QED BY <3>1, <3>2 DEF RunOK
  <2>2. FilterCounts'
    BY <1>1, FilterSample DEF GateInv, TypeOK, FilterCounts
  <2>3. btn_prev' <=> "button" \in last_in'
    BY <1>1 DEF HSample, Sample
  <2>4. present_prev' <=> "button" \in last_in' /\ \A s \in Sensor : s \in stable'
    BY <1>1 DEF HSample, Sample, Present
  <2> QED BY <2>1, <2>2, <2>3, <2>4 DEF GateInv
<1>2. CASE UNCHANGED <<btn_prev, stable, change_count, present_prev, last_in, run>>
  BY <1>2 DEF GateInv, RunOK, FilterCounts
<1>3. CASE HRespond
  <2>1. UNCHANGED <<inputVars, present_prev>>
    BY <1>3 DEF HRespond, Respond, Rearm, Announce, Operate, Alive, Stop, Emergency,
                Rest, TakeAck, AwaitAck, Resend, localVars
  <2> QED BY <1>2, <1>3, <2>1 DEF HRespond, inputVars
<1>4. CASE HOtherTasks
  BY <1>2, <1>4 DEF HOtherTasks, OtherTasks, NotifyAck, Reply, Transmit, taskVars,
                    localVars, inputVars, record
<1>5. CASE UNCHANGED hvars
  BY <1>2, <1>5 DEF hvars, vars, taskVars, localVars, inputVars, record
<1> QED BY <1>1, <1>3, <1>4, <1>5 DEF HNext, HTask

LEMMA GateInvariant == HSpec => []GateInv
<1>1. TypeOK /\ GateInv /\ [HNext]_hvars => GateInv'
  BY GateInvStep
<1> QED BY <1>1, GateInvInit, HTypeCorrect, PTL DEF HSpec

\* For any number of samples, the filter's counter is exactly the number of
\* latest samples that contradict its level, and too few to flip it.
THEOREM FilterCountsExactly == HSpec => []FilterCounts
<1>1. GateInv => FilterCounts
  BY DEF GateInv
<1> QED BY <1>1, GateInvariant, PTL

-----------------------------------------------------------------------------
(* The task between two samplings *)

\* Where the task is tells whether it takes the operator for present, what the
\* outputs already show, what was told last, and whether a stop is open.
ProgressInv ==
  /\ told \in {"none", "deadman_ok", "deadman"}
  /\ pc \in {"rearm", "announce", "operate", "alive"} => present_prev
  /\ pc \in {"stop", "emergency", "halt", "resend"} => ~present_prev
  /\ pc \in {"operate", "alive"} \/ (pc \in {"sample", "stop"} /\ present_prev) \/ pc = "stop"
       => told = "deadman_ok" /\ armed_once /\ ~ack_pending
  /\ pc = "announce" => armed_once /\ ~ack_pending
  /\ pc \in {"emergency", "halt", "resend"} \/ (pc = "sample" /\ ~present_prev)
       => told # "deadman_ok" /\ (armed_once <=> told = "deadman")
  /\ pc \in {"rearm", "announce"} => told # "deadman_ok"
  /\ pc = "rearm" => (armed_once <=> told = "deadman")
  /\ ack_pending => armed_once
  /\ pc \in {"emergency", "resend"} => ack_pending
  /\ pc = "alive" \/ (pc = "sample" /\ present_prev) => ~leds.red
  /\ pc = "resend" \/ (pc = "sample" /\ ~present_prev) => leds.red /\ leds.green = 0

LEMMA ProgressInit == HInit => ProgressInv
BY DEF HInit, Init, ProgressInv, Lights, DutyMax

LEMMA ProgressStep == TypeOK /\ ProgressInv /\ [HNext]_hvars => ProgressInv'
<1> SUFFICES ASSUME TypeOK, ProgressInv, [HNext]_hvars PROVE ProgressInv'
  OBVIOUS
<1> USE DEF ProgressInv
<1>1. ASSUME NEW in \in Inputs, HSample(in) PROVE ProgressInv'
  <2>1. present_prev' \in BOOLEAN
    BY <1>1, FlagsStep, HNextIsNext DEF TypeOK, FlagsOK
  <2>2. CASE present_prev' /\ ~present_prev
    BY <1>1, <2>2 DEF HSample, Sample, After, outVars
  <2>3. CASE ~present_prev' /\ present_prev
    BY <1>1, <2>3 DEF HSample, Sample, After, outVars
  <2>4. CASE present_prev' /\ present_prev
    BY <1>1, <2>4 DEF HSample, Sample, After, outVars
  <2>5. CASE ~present_prev' /\ ~present_prev
    BY <1>1, <2>5 DEF HSample, Sample, After, outVars
  <2> QED BY <2>2, <2>3, <2>4, <2>5
<1>2. ASSUME HRespond PROVE ProgressInv'
  <2>1. CASE Rearm
    BY <1>2, <2>1 DEF HRespond, Rearm, outVars
  <2>2. CASE Announce
    BY <1>2, <2>2 DEF HRespond, Announce, localVars, outVars
  <2>3. ASSUME NEW spd \in Speeds, Operate(spd) PROVE ProgressInv'
    BY <1>2, <2>3 DEF HRespond, Operate, Lights
  <2>4. CASE Alive
    BY <1>2, <2>4 DEF HRespond, Alive, EndIteration, outVars
  <2>5. CASE Stop
    BY <1>2, <2>5 DEF HRespond, Stop, AfterStop, outVars
  <2>6. CASE Emergency
    BY <1>2, <2>6 DEF HRespond, Emergency, localVars, outVars
  <2>7. ASSUME Alarm PROVE leds'.red /\ leds'.green = 0
    BY <2>7 DEF Alarm, Lights, DutyMax
  <2>8. CASE Rest
    BY <1>2, <2>7, <2>8 DEF HRespond, Rest, EndIteration
  <2>9. CASE TakeAck
    BY <1>2, <2>7, <2>9 DEF HRespond, TakeAck, EndIteration
  <2>10. CASE AwaitAck
    BY <1>2, <2>7, <2>10 DEF HRespond, AwaitAck, EndIteration
  <2>11. CASE Resend
    BY <1>2, <2>11 DEF HRespond, Resend, EndIteration, outVars
  <2> QED BY <1>2, <2>1, <2>2, <2>3, <2>4, <2>5, <2>6, <2>8, <2>9, <2>10, <2>11
          DEF HRespond, Respond
<1>3. CASE UNCHANGED <<pc, present_prev, told, armed_once, ack_pending, leds>>
  BY <1>3
<1>4. CASE HOtherTasks
  BY <1>3, <1>4 DEF HOtherTasks, OtherTasks, NotifyAck, Reply, Transmit, taskVars,
                    localVars, outVars, record
<1>5. CASE UNCHANGED hvars
  BY <1>3, <1>5 DEF hvars, vars, taskVars, localVars, outVars, record
<1> QED BY <1>1, <1>2, <1>4, <1>5 DEF HNext, HTask

LEMMA ProgressInvariant == HSpec => []ProgressInv
<1>1. TypeOK /\ ProgressInv /\ [HNext]_hvars => ProgressInv'
  BY ProgressStep
<1> QED BY <1>1, ProgressInit, HTypeCorrect, PTL DEF HSpec

\* A sensor whose latest samples agree is filtered to that level.
LEMMA SteadyIsFiltered ==
  ASSUME GateInv, NEW s \in Sensor, Steady(s)
  PROVE  s \in stable <=> s \in last_in
<1>1. run[s] = StableSamples /\ ~(StableSamples < StableSamples)
  BY DeadmanAssumption DEF Steady
<1> QED BY <1>1 DEF GateInv, FilterCounts

\* For any number of filter samples: once one of the three conditions is lost,
\* the operator is not taken for present, and the iteration that finds it ends
\* with the outputs stopped and no deadman_ok as the latest word to the robot.
THEOREM LossAlwaysStops == HSpec => []LossStops
<1>1. GateInv /\ ProgressInv => LossStops
  <2> SUFFICES ASSUME GateInv, ProgressInv,
                      "button" \notin last_in \/ \E s \in Sensor : Gone(s)
               PROVE  /\ ~present_prev
                      /\ pc = "sample" => leds.green = 0 /\ leds.red /\ told # "deadman_ok"
    BY DEF LossStops
  <2>1. ~present_prev
    BY SteadyIsFiltered DEF GateInv, Gone
  <2> QED BY <2>1 DEF ProgressInv
<1> QED BY <1>1, GateInvariant, ProgressInvariant, PTL

\* ... and while all three have been there for long enough, it may operate.
THEOREM OperatorAlwaysOperates == HSpec => []OperatorOperates
<1>1. GateInv /\ ProgressInv => OperatorOperates
  <2> SUFFICES ASSUME GateInv, ProgressInv,
                      "button" \in last_in, \A s \in Sensor : There(s)
               PROVE  /\ present_prev
                      /\ pc = "sample" => ~leds.red /\ told = "deadman_ok"
    BY DEF OperatorOperates
  <2>1. present_prev
    BY SteadyIsFiltered DEF GateInv, There
  <2> QED BY <2>1 DEF ProgressInv
<1> QED BY <1>1, GateInvariant, ProgressInvariant, PTL

\* A sensor whose filtered level a sampling flips has then given the new level
\* for as many samples as the filter asks for.
LEMMA FlipIsSteady ==
  ASSUME TypeOK, GateInv, NEW in \in Inputs, HSample(in),
         NEW s \in Sensor, ~(s \in stable <=> s \in stable')
  PROVE  (s \in stable' <=> s \in last_in') /\ Steady(s)'
<1>1. Flips(s, in) /\ (s \in stable' <=> s \in in)
  BY DEF HSample, Sample, FilteredLevel
<1>2. Bumped(change_count[s]) = change_count[s] + 1
  BY DeadmanAssumption DEF Bumped, TypeOK, InputsOK
<1>3. /\ run[s] \in 1 .. StableSamples /\ StableSamples \in Nat
      /\ change_count[s] \in 0 .. StableSamples - 1
  BY DeadmanAssumption DEF GateInv, RunOK, TypeOK, InputsOK
<1>4. run'[s] = IF s \in in <=> s \in last_in
                  THEN Capped(run[s] + 1, StableSamples) ELSE 1
  BY DEF HSample
<1>5. IF s \in stable <=> s \in last_in
        THEN change_count[s] = 0
        ELSE change_count[s] = run[s] /\ run[s] < StableSamples
  BY DEF GateInv, FilterCounts
<1>6. run'[s] = StableSamples
  BY <1>1, <1>2, <1>3, <1>4, <1>5 DEF Flips, Capped
<1>7. last_in' = in
  BY DEF HSample
<1> QED BY <1>1, <1>6, <1>7 DEF Steady

\* The task never changes its mind about the operator because of a glitch.
THEOREM OnlyForCause == HSpec => ChangeOnlyForCause
<1> DEFINE Step == /\ present_prev /\ ~present_prev' =>
                        "button" \notin last_in' \/ \E s \in Sensor : Gone(s)'
                   /\ ~present_prev /\ present_prev' =>
                        /\ "button" \in last_in'
                        /\ \/ "button" \notin last_in
                           \/ \E s \in Sensor : There(s)'
<1>1. TypeOK /\ GateInv /\ [HNext]_hvars => [Step]_hvars
  <2> SUFFICES ASSUME TypeOK, GateInv, [HNext]_hvars, ~(UNCHANGED hvars) PROVE Step
    OBVIOUS
  <2>1. GateInv'
    BY GateInvStep
  <2>2. ASSUME NEW in \in Inputs, HSample(in) PROVE Step
    <3>1. \A s \in Sensor : ~(s \in stable <=> s \in stable') => (s \in stable' <=> s \in last_in') /\ Steady(s)'
      BY <2>2, FlipIsSteady
    <3> QED BY <2>1, <3>1 DEF GateInv, Gone, There
  <2>3. CASE HRespond \/ HOtherTasks
    <3>1. UNCHANGED present_prev
      BY <2>3 DEF HRespond, HOtherTasks, Respond, Rearm, Announce, Operate, Alive,
                  Stop, Emergency, Rest, TakeAck, AwaitAck, Resend, OtherTasks,
                  NotifyAck, Reply, Transmit, taskVars, localVars
    <3> QED BY <3>1
  <2> QED BY <2>2, <2>3 DEF HNext, HTask
<1> QED BY <1>1, GateInvariant, HTypeCorrect, PTL DEF HSpec, ChangeOnlyForCause

-----------------------------------------------------------------------------
(* The cause of an emergency *)

\* A stop with the button held was caused by a sensor that is gone for good.
CauseInv ==
  /\ pc = "emergency" => btn_prev
  /\ pc \in {"stop", "emergency"} /\ btn_prev => \E s \in Sensor : Gone(s)

LEMMA CauseStep ==
  TypeOK /\ GateInv /\ CauseInv /\ [HNext]_hvars => CauseInv'
<1> SUFFICES ASSUME TypeOK, GateInv, CauseInv, [HNext]_hvars PROVE CauseInv'
  OBVIOUS
<1>1. ASSUME NEW in \in Inputs, HSample(in) PROVE CauseInv'
  <2>1. GateInv' /\ present_prev' \in BOOLEAN
    BY GateInvStep, FlagsStep, HNextIsNext DEF TypeOK, FlagsOK
  <2>2. pc' # "emergency" /\ (pc' = "stop" => present_prev /\ ~present_prev')
    BY <1>1, <2>1 DEF HSample, Sample, After
  <2>3. CASE pc' = "stop" /\ btn_prev'
    <3>1. PICK s \in Sensor : s \notin stable' /\ s \in stable
      BY <2>1, <2>2, <2>3 DEF GateInv
    <3>2. s \notin last_in' /\ Steady(s)'
      BY <1>1, <3>1, FlipIsSteady
    <3> QED BY <2>2, <3>2 DEF CauseInv, Gone
  <2> QED BY <2>2, <2>3 DEF CauseInv
<1>2. ASSUME HRespond PROVE CauseInv'
  <2>1. UNCHANGED <<btn_prev, last_in, run>>
    BY <1>2 DEF HRespond, Respond, Rearm, Announce, Operate, Alive, Stop, Emergency,
                Rest, TakeAck, AwaitAck, Resend, localVars, inputVars
  <2>2. CASE Stop
    BY <2>1, <2>2 DEF Stop, AfterStop, CauseInv, Gone, Steady
  <2>3. CASE ~Stop
    <3>1. pc' \notin {"stop", "emergency"}
      BY <1>2, <2>3 DEF HRespond, Respond, Rearm, Announce, Operate, Alive, Emergency,
                        Rest, TakeAck, AwaitAck, Resend, EndIteration
    <3> QED BY <3>1 DEF CauseInv
  <2> QED BY <2>2, <2>3
<1>3. CASE UNCHANGED <<pc, btn_prev, last_in, run>>
  BY <1>3 DEF CauseInv, Gone, Steady
<1>4. CASE HOtherTasks
  BY <1>3, <1>4 DEF HOtherTasks, OtherTasks, NotifyAck, Reply, Transmit, taskVars,
                    localVars, inputVars, record
<1>5. CASE UNCHANGED hvars
  BY <1>3, <1>5 DEF hvars, vars, taskVars, localVars, inputVars, record
<1> QED BY <1>1, <1>2, <1>4, <1>5 DEF HNext, HTask

\* For any number of filter samples: the robot is told of an emergency only
\* after its EVT:deadman, with the button held, and for a sensor whose samples
\* have been gone for as long as the filter asks.
THEOREM EmergencyAlwaysHasCause == HSpec => []EmergencyHasCause
<1>1. HInit => CauseInv
  BY DEF HInit, Init, CauseInv
<1>2. TypeOK /\ GateInv /\ CauseInv /\ [HNext]_hvars => CauseInv'
  BY CauseStep
<1>3. GateInv /\ ProgressInv /\ CauseInv => EmergencyHasCause
  BY DEF GateInv, ProgressInv, CauseInv, EmergencyHasCause
<1> QED BY <1>1, <1>2, <1>3, HTypeCorrect, GateInvariant, ProgressInvariant, PTL
        DEF HSpec

-----------------------------------------------------------------------------
(* Notices *)

\* The age of the latest notice against the resend timer: the timer restarts at
\* the resend, one period before the age, which restarts with the notice.
NoticeInv ==
  /\ notice_age \in Nat
  /\ ack_pending /\ pc \in {"sample", "emergency", "halt"} => notice_age <= t_ack + TaskPeriod
  /\ ack_pending => notice_age < AckTimeout + TaskPeriod

LEMMA NoticeStep ==
  TypeOK /\ ProgressInv /\ NoticeInv /\ [HNext]_hvars => NoticeInv'
<1> SUFFICES ASSUME TypeOK, ProgressInv, NoticeInv, [HNext]_hvars PROVE NoticeInv'
  OBVIOUS
<1>t. /\ t_ack \in Nat /\ t_ack < AckTimeout
      /\ TaskPeriod \in Nat \ {0} /\ AckTimeout \in Nat \ {0}
      /\ NoticeCap \in Nat /\ AckTimeout + TaskPeriod <= NoticeCap
  BY DeadmanAssumption DEF TypeOK, TimersOK, NoticeCap
<1>1. ASSUME NEW in \in Inputs, HSample(in) PROVE NoticeInv'
  <2>1. UNCHANGED <<t_ack, ack_pending, notice_age>> /\ pc = "sample"
    BY <1>1 DEF HSample, Sample, timerVars
  <2> QED BY <2>1, <1>t DEF NoticeInv
<1>2. ASSUME HRespond PROVE NoticeInv'
  <2> USE <1>t DEF NoticeInv
  <2>n. notice_age' = Older(IF pc \in {"stop", "resend"} THEN 0 ELSE notice_age, NoticeCap)
    BY <1>2 DEF HRespond
  <2>1. CASE Rearm \/ Announce \/ (\E spd \in Speeds : Operate(spd)) \/ Alive
    <3>1. ~ack_pending'
      BY <2>1 DEF Rearm, Announce, Operate, Alive, ProgressInv, localVars
    <3>2. notice_age' \in Nat
      BY <2>n DEF Older, Capped
    <3> QED BY <3>1, <3>2
  <2>2. CASE Stop
    <3>1. notice_age' = 0 /\ t_ack' = 0
      BY <2>n, <2>2 DEF Stop, AfterStop, Older, Capped
    <3> QED BY <3>1
  <2>3. CASE Emergency
    <3>1. UNCHANGED <<t_ack, ack_pending>> /\ pc = "emergency" /\ pc' = "halt"
      BY <2>3 DEF Emergency, localVars, timerVars
    <3>2. notice_age' \in Nat /\ notice_age' <= notice_age
      BY <2>n, <3>1 DEF Older, Capped
    <3> QED BY <3>1, <3>2
  <2>4. CASE Rest \/ TakeAck
    <3>1. ~ack_pending'
      BY <2>4 DEF Rest, TakeAck
    <3>2. notice_age' \in Nat
      BY <2>n DEF Older, Capped
    <3> QED BY <3>1, <3>2
  <2>5. CASE AwaitAck
    <3>1. ack_pending /\ pc = "halt" /\ UNCHANGED ack_pending
      BY <2>5 DEF AwaitAck
    <3>2. CASE Due(t_ack, AckTimeout)
      <4>1. pc' = "resend"
        BY <2>5, <3>2 DEF AwaitAck
      <4>2. notice_age' \in Nat /\ notice_age' <= notice_age
        BY <2>n, <3>1, <4>1 DEF Older, Capped
      <4> QED BY <3>1, <4>1, <4>2
    <3>3. CASE ~Due(t_ack, AckTimeout)
      <4>1. t_ack' = t_ack + TaskPeriod /\ t_ack' < AckTimeout /\ pc' = "sample"
        BY <2>5, <3>3 DEF AwaitAck, Due, Advance, EndIteration
      <4>2. notice_age' \in Nat /\ notice_age' <= notice_age + TaskPeriod
        BY <2>n, <3>1, <4>1 DEF Older, Capped
      <4>3. notice_age' <= t_ack' + TaskPeriod
        BY <3>1, <4>1, <4>2
      <4> QED BY <4>1, <4>2, <4>3
    <3> QED BY <3>2, <3>3
  <2>6. CASE Resend
    <3>1. pc' = "sample" /\ UNCHANGED t_ack
      BY <2>6 DEF Resend, EndIteration, timerVars
    <3>2. notice_age' \in Nat /\ notice_age' <= TaskPeriod
      BY <2>n, <2>6, <3>1 DEF Resend, Older, Capped
    <3> QED BY <3>1, <3>2
  <2> QED BY <1>2, <2>1, <2>2, <2>3, <2>4, <2>5, <2>6 DEF HRespond, Respond
<1>3. CASE UNCHANGED <<pc, t_ack, ack_pending, notice_age>>
  BY <1>3 DEF NoticeInv
<1>4. CASE HOtherTasks
  BY <1>3, <1>4 DEF HOtherTasks, OtherTasks, NotifyAck, Reply, Transmit, taskVars,
                    localVars, timerVars, record
<1>5. CASE UNCHANGED hvars
  BY <1>3, <1>5 DEF hvars, vars, taskVars, localVars, timerVars, record
<1> QED BY <1>1, <1>2, <1>4, <1>5 DEF HNext, HTask

\* For all periods and timeouts: an open stop is told again before the timeout
\* plus one task period are over.
THEOREM NeverSilentForLong == HSpec => []NeverSilent
<1>1. HInit => NoticeInv
  BY DeadmanAssumption DEF HInit, Init, NoticeInv, NoticeCap
<1>2. TypeOK /\ ProgressInv /\ NoticeInv /\ [HNext]_hvars => NoticeInv'
  BY NoticeStep
<1>3. NoticeInv => NeverSilent
  BY DEF NoticeInv, NeverSilent
<1> QED BY <1>1, <1>2, <1>3, HTypeCorrect, ProgressInvariant, PTL DEF HSpec

\* The resend timer is never ahead of the age of the latest notice.
PaceInv ==
  /\ ack_pending /\ pc \in {"sample", "emergency", "halt"} => t_ack <= notice_age
  /\ pc = "resend" => ack_pending /\ t_ack = 0 /\ AckTimeout <= notice_age + TaskPeriod

LEMMA PaceStep ==
  TypeOK /\ ProgressInv /\ NoticeInv /\ PaceInv /\ [HNext]_hvars => PaceInv'
<1> SUFFICES ASSUME TypeOK, ProgressInv, NoticeInv, PaceInv, [HNext]_hvars PROVE PaceInv'
  OBVIOUS
<1>t. /\ t_ack \in Nat /\ t_ack < AckTimeout /\ notice_age \in Nat
      /\ TaskPeriod \in Nat \ {0} /\ AckTimeout \in Nat \ {0}
      /\ NoticeCap \in Nat /\ AckTimeout + TaskPeriod <= NoticeCap
  BY DeadmanAssumption DEF TypeOK, TimersOK, NoticeCap, NoticeInv
<1>1. ASSUME NEW in \in Inputs, HSample(in) PROVE PaceInv'
  <2>1. /\ UNCHANGED <<t_ack, ack_pending, notice_age>> /\ pc = "sample"
        /\ pc' # "resend"
    BY <1>1 DEF HSample, Sample, timerVars, After
  <2> QED BY <2>1 DEF PaceInv
<1>2. ASSUME HRespond PROVE PaceInv'
  <2> USE <1>t DEF PaceInv
  <2>n. notice_age' = Older(IF pc \in {"stop", "resend"} THEN 0 ELSE notice_age, NoticeCap)
    BY <1>2 DEF HRespond
  <2>1. CASE Rearm \/ Announce \/ (\E spd \in Speeds : Operate(spd)) \/ Alive
    <3>1. ~ack_pending'
      BY <2>1 DEF Rearm, Announce, Operate, Alive, ProgressInv, localVars
    <3>2. pc' # "resend"
      BY <2>1 DEF Rearm, Announce, Operate, Alive, EndIteration
    <3> QED BY <3>1, <3>2
  <2>2. CASE Stop
    <3>1. notice_age' = 0 /\ t_ack' = 0 /\ pc' # "resend"
      BY <2>n, <2>2 DEF Stop, AfterStop, Older, Capped
    <3> QED BY <3>1
  <2>3. CASE Emergency
    <3>1. UNCHANGED <<t_ack, ack_pending>> /\ pc = "emergency" /\ pc' = "halt"
      BY <2>3 DEF Emergency, localVars, timerVars
    <3>2. notice_age' = IF notice_age < NoticeCap THEN notice_age ELSE NoticeCap
      BY <2>n, <3>1 DEF Older, Capped
    <3> QED BY <3>1, <3>2
  <2>4. CASE Rest \/ TakeAck
    <3>1. ~ack_pending' /\ pc' # "resend"
      BY <2>4 DEF Rest, TakeAck, EndIteration
    <3> QED BY <3>1
  <2>5. CASE AwaitAck
    <3>1. ack_pending /\ pc = "halt" /\ UNCHANGED ack_pending
      BY <2>5 DEF AwaitAck
    <3>2. CASE Due(t_ack, AckTimeout)
      <4>1. pc' = "resend" /\ t_ack' = 0 /\ AckTimeout <= t_ack + TaskPeriod
        BY <2>5, <3>2 DEF AwaitAck, Due, Advance
      <4>2. notice_age' = IF notice_age < NoticeCap THEN notice_age ELSE NoticeCap
        BY <2>n, <3>1, <4>1 DEF Older, Capped
      <4> QED BY <3>1, <4>1, <4>2
    <3>3. CASE ~Due(t_ack, AckTimeout)
      <4>1. t_ack' = t_ack + TaskPeriod /\ t_ack' < AckTimeout /\ pc' = "sample"
        BY <2>5, <3>3 DEF AwaitAck, Due, Advance, EndIteration
      <4>2. notice_age' = IF notice_age + TaskPeriod < NoticeCap
                            THEN notice_age + TaskPeriod ELSE NoticeCap
        BY <2>n, <3>1, <4>1 DEF Older, Capped
      <4> QED BY <3>1, <4>1, <4>2
    <3> QED BY <3>2, <3>3
  <2>6. CASE Resend
    <3>1. pc = "resend" /\ pc' = "sample" /\ UNCHANGED t_ack
      BY <2>6 DEF Resend, EndIteration, timerVars
    <3>2. notice_age' \in Nat
      BY <2>n DEF Older, Capped
    <3> QED BY <3>1, <3>2
  <2> QED BY <1>2, <2>1, <2>2, <2>3, <2>4, <2>5, <2>6 DEF HRespond, Respond
<1>3. CASE UNCHANGED <<pc, t_ack, ack_pending, notice_age>>
  BY <1>3 DEF PaceInv
<1>4. CASE HOtherTasks
  BY <1>3, <1>4 DEF HOtherTasks, OtherTasks, NotifyAck, Reply, Transmit, taskVars,
                    localVars, timerVars, record
<1>5. CASE UNCHANGED hvars
  BY <1>3, <1>5 DEF hvars, vars, taskVars, localVars, timerVars, record
<1> QED BY <1>1, <1>2, <1>4, <1>5 DEF HNext, HTask

\* For all periods and timeouts: a resend comes no earlier than the timeout less
\* one task period after the notice before, and only for an open stop.
THEOREM RetriesInCadence == HSpec => RetryCadence
<1> DEFINE Step == pc = "resend" /\ pc' = "sample" =>
                     /\ ack_pending
                     /\ AckTimeout <= notice_age + TaskPeriod
                     /\ notice_age < AckTimeout + TaskPeriod
<1>1. HInit => NoticeInv /\ PaceInv
  BY DeadmanAssumption DEF HInit, Init, NoticeInv, NoticeCap, PaceInv
<1>2. NoticeInv /\ PaceInv => [Step]_hvars
  BY DEF NoticeInv, PaceInv
<1>3. TypeOK /\ ProgressInv /\ NoticeInv /\ [HNext]_hvars => NoticeInv'
  BY NoticeStep
<1> QED BY <1>1, <1>2, <1>3, PaceStep, HTypeCorrect, ProgressInvariant, PTL
        DEF HSpec, RetryCadence

-----------------------------------------------------------------------------
(* The double tap *)

\* Within the window, the ticks are those of the latest press and of the time
\* since then, however often the counter wrapped around.
TapInv ==
  /\ press_age \in Nat
  /\ press_age <= DoubleTap => tick = (last_rise + press_age) % TickMod

LEMMA TapStep == TypeOK /\ TapInv /\ [HNext]_hvars => TapInv'
<1> SUFFICES ASSUME TypeOK, TapInv, [HNext]_hvars PROVE TapInv'
  OBVIOUS
<1>t. /\ last_rise \in Nat /\ tick \in 0 .. TickMod - 1 /\ press_age \in Nat
      /\ TaskPeriod \in Nat \ {0} /\ TickMod \in Nat \ {0} /\ DoubleTap \in Nat
      /\ PressCap \in Nat /\ PressCap = DoubleTap + TaskPeriod
  BY DeadmanAssumption DEF TypeOK, InputsOK, PressCap, TapInv
<1>1. ASSUME NEW in \in Inputs, HSample(in) PROVE TapInv'
  <2>1. tick' = tick
    BY <1>1 DEF HSample, Sample
  <2>2. CASE Pressed(in)
    <3>1. press_age' = 0 /\ last_rise' = tick
      BY <1>1, <2>2 DEF HSample, Sample, Pressed
    <3>2. tick = (tick + 0) % TickMod
      BY <1>t
    <3> QED BY <2>1, <3>1, <3>2 DEF TapInv
  <2>3. CASE ~Pressed(in)
    <3>1. press_age' = press_age /\ last_rise' = last_rise
      BY <1>1, <2>3 DEF HSample, Sample, Pressed
    <3> QED BY <2>1, <3>1 DEF TapInv
  <2> QED BY <2>2, <2>3
<1>2. ASSUME HRespond PROVE TapInv'
  <2>1. press_age' = Older(press_age, PressCap) /\ last_rise' = last_rise
    BY <1>2 DEF HRespond, Respond, Rearm, Announce, Operate, Alive, Stop, Emergency,
                Rest, TakeAck, AwaitAck, Resend, localVars, inputVars
  <2>2. \/ pc' = "sample" /\ tick' = (tick + TaskPeriod) % TickMod
        \/ pc' # "sample" /\ tick' = tick
    BY <1>2 DEF HRespond, Respond, Rearm, Announce, Operate, Alive, Stop, AfterStop,
                Emergency, Rest, TakeAck, AwaitAck, Resend, EndIteration, localVars
  <2>3. CASE pc' = "sample"
    <3>1. press_age' = IF press_age + TaskPeriod < PressCap
                         THEN press_age + TaskPeriod ELSE PressCap
      BY <2>1, <2>3 DEF Older, Capped
    <3>2. CASE press_age' <= DoubleTap
      <4>1. press_age' = press_age + TaskPeriod /\ press_age <= DoubleTap
        BY <1>t, <3>1, <3>2
      <4>2. tick' = (((last_rise + press_age) % TickMod) + TaskPeriod) % TickMod
        BY <2>2, <2>3, <4>1 DEF TapInv
      <4>3. last_rise + press_age \in Nat /\ TaskPeriod \in Nat
        BY <1>t
      <4>4. tick' = ((last_rise + press_age) + TaskPeriod) % TickMod
        BY <1>t, <4>2, <4>3, RemainderOfSum, Zenon
      <4>5. last_rise' + press_age' = (last_rise + press_age) + TaskPeriod
        BY <1>t, <2>1, <4>1
      <4> QED BY <1>t, <4>1, <4>4, <4>5 DEF TapInv
    <3> QED BY <1>t, <3>1, <3>2 DEF TapInv
  <2>4. CASE pc' # "sample"
    <3>1. press_age' = IF press_age < PressCap THEN press_age ELSE PressCap
      BY <2>1, <2>4 DEF Older, Capped
    <3> QED BY <1>t, <2>1, <2>2, <2>4, <3>1 DEF TapInv
  <2> QED BY <2>3, <2>4
<1>3. CASE UNCHANGED <<press_age, last_rise, tick>>
  BY <1>3 DEF TapInv
<1>4. CASE HOtherTasks
  BY <1>3, <1>4 DEF HOtherTasks, OtherTasks, NotifyAck, Reply, Transmit, taskVars,
                    localVars, inputVars, record
<1>5. CASE UNCHANGED hvars
  BY <1>3, <1>5 DEF hvars, vars, taskVars, localVars, inputVars, record
<1> QED BY <1>1, <1>2, <1>4, <1>5 DEF HNext, HTask

\* For every window and every width of the tick counter: a second press within
\* the window always toggles the mute.
THEOREM DoubleTapAlwaysToggles == HSpec => DoubleTapToggles
<1> DEFINE Step == \A in \in Inputs :
                     HSample(in) /\ Pressed(in) /\ press_age <= DoubleTap
                       => muted' # muted
<1>1. HInit => TapInv
  BY DeadmanAssumption DEF HInit, Init, TapInv, PressCap
<1>2. TypeOK /\ TapInv => [Step]_hvars
  <2> SUFFICES ASSUME TypeOK, TapInv, NEW in \in Inputs, HSample(in), Pressed(in),
                      press_age <= DoubleTap
               PROVE  muted' # muted
    OBVIOUS
  <2>1. tick = (last_rise + press_age) % TickMod
    BY DEF TapInv
  <2>2. /\ TickMod \in Nat \ {0} /\ last_rise \in 0 .. TickMod - 1 /\ press_age \in Nat
        /\ tick \in 0 .. TickMod - 1
    BY DeadmanAssumption DEF TypeOK, InputsOK, TapInv
  <2>3. (((last_rise + press_age) % TickMod) + TickMod - last_rise) % TickMod <= press_age
    BY <2>2, ElapsedBound
  <2>4. SinceRise <= press_age
    BY <2>1, <2>3 DEF SinceRise
  <2>5. SinceRise \in Nat /\ DoubleTap \in Nat
    BY <2>2, DeadmanAssumption DEF SinceRise
  <2>6. SinceRise <= DoubleTap
    BY <2>2, <2>4, <2>5
  <2>7. muted' = ~muted /\ muted \in BOOLEAN
    BY <2>6 DEF HSample, Sample, Pressed, TypeOK, InputsOK
  <2> QED BY <2>7
<1> QED BY <1>1, <1>2, TapStep, HTypeCorrect, PTL DEF HSpec, DoubleTapToggles

-----------------------------------------------------------------------------
(* The buzzer of an absent operator *)

\* A tone of the operation is as old as its stop, and the alarm's timer, which
\* restarts with the stop, is never behind; a resend is made after the timer
\* has advanced and before the iteration is over.
ToneInv ==
  /\ stop_age \in Nat
  /\ pc = "stop" => stop_age = 0
  /\ ~present_prev =>
       \/ Silent
       \/ armed_once /\ Alarming
       \/ armed_once /\ stop_age + (IF pc = "resend" THEN TaskPeriod ELSE 0) <= t_beep

LEMMA ToneStep ==
  TypeOK /\ ProgressInv /\ ToneInv /\ [HNext]_hvars => ToneInv'
<1> SUFFICES ASSUME TypeOK, ProgressInv, ToneInv, [HNext]_hvars PROVE ToneInv'
  OBVIOUS
<1>t. /\ t_beep \in Nat /\ t_beep < BeepPeriod /\ BeepPeriod \in Nat
      /\ TaskPeriod \in Nat \ {0} /\ StopCap \in Nat
      /\ stop_age \in Nat
  BY DeadmanAssumption DEF TypeOK, TimersOK, StopCap, ToneInv
<1>1. ASSUME NEW in \in Inputs, HSample(in) PROVE ToneInv'
  <2>1. /\ pc = "sample" /\ UNCHANGED <<t_beep, armed_once, buzzer>>
        /\ stop_age' = IF present_prev /\ ~present_prev' THEN 0 ELSE stop_age
    BY <1>1 DEF HSample, Sample, timerVars, outVars
  <2>2. present_prev' \in BOOLEAN
    BY <1>1, FlagsStep, HNextIsNext DEF TypeOK, FlagsOK
  <2>3. pc' # "resend" /\ (pc' = "stop" => present_prev /\ ~present_prev')
    BY <1>1, <2>2 DEF HSample, Sample, After
  <2> QED BY <1>t, <2>1, <2>2, <2>3 DEF ToneInv, ProgressInv, Silent, Alarming
<1>2. ASSUME HRespond PROVE ToneInv'
  <2>1. stop_age' = Older(stop_age, StopCap) /\ stop_age' \in Nat
    BY <1>2, <1>t DEF HRespond, Older, Capped
  <2>2. CASE Rearm \/ Announce \/ (\E spd \in Speeds : Operate(spd)) \/ Alive
    <3>1. present_prev' /\ pc' # "stop"
      BY <2>2 DEF Rearm, Announce, Operate, Alive, ProgressInv, EndIteration, localVars
    <3> QED BY <2>1, <3>1 DEF ToneInv
  <2>3. CASE Stop
    <3>1. pc = "stop" /\ pc' \notin {"sample", "stop", "resend"} /\ t_beep' = 0 /\ armed_once'
      BY <2>3 DEF Stop, AfterStop, ProgressInv
    <3>2. stop_age' = 0
      BY <2>1, <3>1, <1>t DEF ToneInv, Older, Capped
    <3> QED BY <3>1, <3>2 DEF ToneInv
  <2>4. CASE Emergency
    <3>1. /\ pc = "emergency" /\ pc' = "halt"
          /\ UNCHANGED <<t_beep, armed_once, buzzer, present_prev>>
      BY <2>4 DEF Emergency, localVars, timerVars, outVars
    <3>2. stop_age' <= stop_age
      BY <2>1, <3>1, <1>t DEF Older, Capped
    <3> QED BY <1>t, <2>1, <3>1, <3>2 DEF ToneInv, Silent, Alarming
  <2>5. CASE Resend
    <3>1. /\ pc = "resend" /\ pc' = "sample"
          /\ UNCHANGED <<t_beep, armed_once, buzzer, present_prev>>
      BY <2>5 DEF Resend, EndIteration, timerVars, outVars
    <3>2. stop_age' <= stop_age + TaskPeriod
      BY <2>1, <3>1, <1>t DEF Older, Capped
    <3> QED BY <1>t, <2>1, <3>1, <3>2 DEF ToneInv, Silent, Alarming
  <2>6. CASE Rest \/ TakeAck \/ AwaitAck
    <3>1. /\ pc = "halt" /\ Alarm /\ UNCHANGED <<armed_once, present_prev>>
          /\ pc' \in {"sample", "resend"} /\ (pc' = "resend" => armed_once)
      BY <2>6 DEF Rest, TakeAck, AwaitAck, EndIteration, ProgressInv
    <3>2. CASE ~Beeping
      <4>1. buzzer' = Off(buzzer)
        BY <3>1, <3>2 DEF Alarm
      <4> QED BY <2>1, <3>1, <4>1 DEF ToneInv, Silent, Off
    <3>3. CASE Beeping /\ Due(t_beep, BeepPeriod)
      <4>1. buzzer' = Off(buzzer) \/ buzzer' = SetTone(AlarmFreq)
        BY <3>1, <3>3, FlagsStep DEF Alarm, TypeOK, FlagsOK
      <4>2. armed_once'
        BY <3>1, <3>3 DEF Beeping
      <4> QED BY <2>1, <3>1, <4>1, <4>2 DEF ToneInv, Silent, Alarming, Off
    <3>4. CASE Beeping /\ ~Due(t_beep, BeepPeriod)
      <4>1. buzzer' = buzzer /\ t_beep' = t_beep + TaskPeriod
        BY <3>1, <3>4 DEF Alarm, Advance
      <4>2. stop_age' <= IF pc' = "resend" THEN stop_age ELSE stop_age + TaskPeriod
        BY <2>1, <3>1, <1>t DEF Older, Capped
      <4> QED BY <1>t, <2>1, <3>1, <4>1, <4>2 DEF ToneInv, Silent, Alarming
    <3> QED BY <3>2, <3>3, <3>4
  <2> QED BY <1>2, <2>2, <2>3, <2>4, <2>5, <2>6 DEF HRespond, Respond
<1>3. CASE UNCHANGED <<pc, present_prev, armed_once, t_beep, stop_age, buzzer>>
  BY <1>3 DEF ToneInv, Silent, Alarming
<1>4. CASE HOtherTasks
  BY <1>3, <1>4 DEF HOtherTasks, OtherTasks, NotifyAck, Reply, Transmit, taskVars,
                    localVars, timerVars, outVars, record
<1>5. CASE UNCHANGED hvars
  BY <1>3, <1>5 DEF hvars, vars, taskVars, localVars, timerVars, outVars, record
<1> QED BY <1>1, <1>2, <1>4, <1>5 DEF HNext, HTask

\* For all periods: half a beep after a stop, the tone of the operation is
\* gone, whatever the mute did meanwhile, and before the first operator there
\* is silence.
THEOREM NoStrayToneEver == HSpec => []NoStrayTone
<1>1. HInit => ToneInv
  BY DeadmanAssumption DEF HInit, Init, ToneInv, StopCap, Silent, Silence
<1>2. TypeOK /\ ProgressInv /\ ToneInv /\ [HNext]_hvars => ToneInv'
  BY ToneStep
<1>3. TypeOK /\ ToneInv => NoStrayTone
  BY DeadmanAssumption DEF TypeOK, FlagsOK, TimersOK, ToneInv, NoStrayTone
<1> QED BY <1>1, <1>2, <1>3, HTypeCorrect, ProgressInvariant, PTL DEF HSpec

\* Every step of the task is a step of StopNotice or leaves it alone: the
\* robot is told of every change of the operator, in order, and no stop is
\* closed that was not told.  (That the telling happens at all is liveness.)
THEOREM NoticesImplemented == HSpec => Notice!Init /\ [][Notice!Next]_(Notice!vars)
<1> USE DEF Notice!Next, Notice!vars, Notice!Engage, Notice!TellOperating,
            Notice!Release, Notice!TellStopped, Notice!Close, mode
<1>1. HInit => Notice!Init
  BY DEF HInit, Init, Notice!Init
<1>2. TypeOK /\ ProgressInv /\ ProgressInv' /\ [HNext]_hvars
        => [Notice!Next]_(Notice!vars)
  <2> SUFFICES ASSUME TypeOK, ProgressInv, ProgressInv', [HNext]_hvars
               PROVE  [Notice!Next]_(Notice!vars)
    OBVIOUS
  <2>1. CASE UNCHANGED <<present_prev, ack_pending, armed_once, pc, told>>
    BY <2>1
  <2>2. ASSUME NEW in \in Inputs, HSample(in) PROVE [Notice!Next]_(Notice!vars)
    <3>1. /\ pc = "sample" /\ UNCHANGED <<ack_pending, armed_once, told>>
          /\ present_prev \in BOOLEAN /\ present_prev' \in BOOLEAN
      BY <2>2, FlagsStep, HNextIsNext DEF HSample, Sample, TypeOK, FlagsOK
    <3>2. CASE present_prev /\ present_prev'
      BY <3>1, <3>2
    <3>3. CASE ~present_prev /\ ~present_prev'
      <4>1. pc' = "halt"
        BY <2>2, <3>3 DEF HSample, Sample, After
      <4> QED BY <3>1, <3>3, <4>1
    <3>4. CASE present_prev /\ ~present_prev'
      <4>1. pc' = "stop"
        BY <2>2, <3>4 DEF HSample, Sample, After
      <4> QED BY <3>1, <3>4, <4>1 DEF ProgressInv
    <3>5. CASE ~present_prev /\ present_prev'
      BY <3>1, <3>5 DEF ProgressInv
    <3> QED BY <3>1, <3>2, <3>3, <3>4, <3>5
  <2>3. ASSUME HRespond PROVE [Notice!Next]_(Notice!vars)
    BY <2>3 DEF HRespond, Respond, ProgressInv, Rearm, Announce, Operate, Alive, Stop,
                AfterStop, Emergency, Rest, TakeAck, AwaitAck, Resend, EndIteration,
                localVars
  <2>4. CASE HOtherTasks
    BY <2>1, <2>4 DEF HOtherTasks, OtherTasks, NotifyAck, Reply, Transmit, taskVars,
                      localVars, record
  <2>5. CASE UNCHANGED hvars
    BY <2>1, <2>5 DEF hvars, vars, taskVars, localVars, record
  <2> QED BY <2>2, <2>3, <2>4, <2>5 DEF HNext, HTask
<1> QED BY <1>1, <1>2, HTypeCorrect, ProgressInvariant, PTL DEF HSpec
=============================================================================
