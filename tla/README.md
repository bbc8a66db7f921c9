# Formal verification of the deadman firmware

The repository is the firmware of an STM32F103 "Blue Pill" under FreeRTOS. It holds a
robot stopped unless an operator is present: a button held down, a PIR that sees
somebody, and a tilt sensor at rest. It talks to a bridge over a serial line in frames
`@LL:TTT:PAYLOAD:CC\n`. This directory models its tasks, interrupt routines, drivers and
protocol in TLA+, model-checks them with TLC and proves the main invariants with TLAPS.

    tlc -workers 2 -config deadman_inputs.cfg MCDeadman.tla     (likewise for each run below)
    tlapm DeadmanProofs.tla     (and LinkProofs, RxPipelineProofs, RequestProofs, FrameParserProofs,
                                 NoisyLineProofs, HandProofs, DriversProofs)

Paths below are relative to `src/codigo/firmware` unless they start with `src/`.

## 1. Inventory

| Component | State it keeps | Operations | Interacts with |
|---|---|---|---|
| deadman task, `app/deadman.c` | filters of PIR and tilt, mute, the timers, `present_prev`, `ack_pending`, `armed_once`, `beep_on`; shared `g_ack_ok` | one iteration each 20 ms: sample, change of presence, operating or stopped branch; `deadman_notify_ack` | transmit queue (drops when full), drivers, application task (flag) |
| application task, `app/app.c`, `app/tasks.c:81` | `g_rx_count`, `g_error_count` | `app_handle_message`: ACK, LED commands, ping, status?, unknown; `app_build_status_message` | application, actuator and transmit queues (waits when full), counters of the others |
| reception, `drivers/uart_comm.c`, `app/tasks.c:28` | ISR queue, IRQ and drop counts | `usart1_isr`, `task_uart_rx` | line, parser queue |
| parser task and parser, `app/tasks.c:40`, `protocol/parser.c` | nine-state machine, its buffers, three counters | `parser_consume_byte`, `parser_fail`, validation | parser queue, application queue |
| protocol, `protocol/protocol.c` | none | encode, decode, checksum | parser, transmit task |
| actuators, `app/actuators.c`, `app/tasks.c:93` | status LED | on, off, toggle | actuator queue |
| transmit task, `app/tasks.c:105` | none | encode and send a message, blocking | transmit queue, line |
| button, `drivers/button.c` | `g_pressed`, TIM1 window | `button_init`, `exti0_isr`, `tim1_up_isr` | read by the deadman task and the demo |
| potentiometer, `drivers/adc.c` | running mean in 16 bits, TIM3 | `tim3_isr`, percentage | read by the deadman task and the demo |
| LEDs and buzzer, `drivers/leds.c`, `drivers/buzzer.c` | registers of TIM2 and TIM4, pins | brightness, red, blue, tone, off | deadman task, demo |
| presence, `drivers/presence.c` | none | reads of two pins | deadman task, demo |
| peripheral demo, `app/periph_demo.c` | none | one iteration each 250 ms: read, show, send | button, potentiometer, LEDs, buzzer, transmit queue |
| start-up, `main.c`, `platform/system_init.c`, `app/tasks.c:123` | none | order of the set-up | reception runs before its queue exists |
| bridge and robot, `src/codigo/serial_test/bridge_emulator.py` | motion of the robot | read a frame, react, answer `ACK:ok` to a valid `EVT:deadman` | line |
| template telemetry, host tests, evidence | - | - | not part of the program's behaviour |

What makes it hard: six tasks and four interrupt routines without a lock; a flag, counters
and queues shared between them; three different policies for a full queue (the ISR drops and
counts, the deadman task drops silently, the others wait); a line that loses and garbles
bytes; an acknowledgement without a number, which cannot be told from a late one; timers
that add up periods; a tick counter that wraps around; a pin that bounces while the
interrupt routines look at it; means in unsigned 16 bits.

What makes each component right:

* deadman task: no operation without an operator, and the loss of one always stops and is
  told, again and again until it is acknowledged; glitches do nothing; the alarm sounds
  when it should and only then;
* reception and application: every byte is parsed, on its way, or counted as dropped;
  requests are handled, ordered and answered once and in order; the numbers of a status
  message fit together; the pipeline never locks up;
* parser: it delivers only what was sent, never writes past its buffers, and finds back to
  the frames after noise;
* button and potentiometer: level and mean settle to those of pin and knob, without an
  overflow, and LEDs and buzzer follow.

`PROJECT.json` lists every component with its status, and every hazard at its line.

## 2. Modules

| Module | Models |
|---|---|
| `Deadman` | the task of `deadman.c` and the state it shares; also the steps of other tasks that touch it |
| `DeadmanHistory` | the same with a record of inputs, events and ages; the properties of the task |
| `StopNotice` | abstract: what the task promises to tell the robot |
| `DeadmanLink` | `Deadman` composed with application task, transmit task, both directions of the line, bridge and robot |
| `RxPipeline` | `usart1_isr`, `task_uart_rx`, `task_parser`, `task_app`, `task_actuators`, `task_uart_tx`, their queues and priorities |
| `ByteChannel` | abstract: what the reception of bytes promises |
| `FrameCodec` | `protocol.c` byte by byte: checksum, encoding, decoding |
| `FrameParser` | `parser.c`: one action for each state of `parser_consume_byte` |
| `NoisyLine` | `FrameParser` at the end of a line that loses and garbles bytes |
| `Button` | `button.c`: `button_init` in two steps, EXTI0, TIM1 and their routines |
| `AdcFilter` | `adc.c`: TIM3, its routine with the mean, the percentage |
| `Drivers` | `leds.c`, `buzzer.c`: the registers an order leaves |
| `PeriphDemo` | the other build: its task composed with `Button`, `AdcFilter` and `Drivers` |
| `DeadmanProofs`, `LinkProofs`, `HandProofs` | theorems about the module of the name and its compositions |
| `RxPipelineProofs`, `RequestProofs` | theorems about the pipeline: its bytes; its requests, answers and reports |
| `FrameParserProofs`, `NoisyLineProofs` | theorems about codec and parser; about whole frames on a faulty line |
| `DriversProofs` | lemmas: ranges of the registers |
| `MCDeadman`, `MCDeadmanLink`, `MCRxPipeline`, `MCNoisyLine`, `MCPeriphDemo` | values of the constants for TLC |

A definition whose name ends in an underscore and a suffix (`Due_Late`) is a plausible bug
in the definition after it. No specification uses it; replacing the definition by it makes
the property named in `PROJECT.json` fail, which shows that the property says something
about the code.

### Deadman

The endless loop is cut at every access to shared state. `pc` names the access to come:
`sample` (read inputs, filter them, report in the build with `DEADMAN_DIAG`, find the
change), `rearm` and `announce` (absent to present, lines 138-145), `operate` and `alive`
(162-186), `stop` and `emergency` (146-158), `halt` (188-216) and `resend` (217). `After`
names the branch a sampling leads to. What the code assigns between two accesses belongs to
the step of one of them, so the model has every interleaving that another task could see.
`take_ack` is one step: its read and its clear are two instructions, but the only other
writer only sets the flag. `halt` has three outcomes, `Rest`, `TakeAck`, `AwaitAck`, for
the conditions of lines 209-216. `leds` and `buzzer` are what `Drivers` makes of the orders:
duty and pins, and the registers ARR and CCR of the buzzer's timer. The constant `Diag`
chooses between the two builds; `spd=` and the rest of the `DEADMAN_DIAG` report are wording.

Abstractions: `vTaskDelayUntil` keeps iterations exactly one period apart (`tick` is the
time of the sampling); a message is its kind; the two filters are functions over `Sensor`
since the code calls the same helper twice. `Inputs` names the combinations of signals a
sampling may find; the button is one of them, already debounced: `Button` says what that is
worth. `Speeds` is any subset of 0..100.

### DeadmanLink

A frame is one item of a FIFO: `up` to the bridge, `down` to the application task (line,
ISR queue, parser and application queue in one). A garbled frame upwards is still reacted
to by the robot but not acknowledged, as in `bridge_emulator.py`, where only a frame with
the right checksum is answered. `Backlog` bounds the frames under way when an iteration
starts: at 115200 baud a frame takes less than 6 ms and an iteration 20 ms. `QuietReengage`
restricts the operator, in one run and in one theorem, to come back when the last stop is
settled.

### RxPipeline

All queues have their own length. A task of priority 2 moves only when none of priority 3
can (`Preempted`); tasks of one priority interleave freely; the ISR comes in anywhere. A
blocked `xQueueSend` is a task that holds its item (`rx_byte`, `parser_msg`, `todo`)
until there is room. `TasksStart` is the creation of the queues: FreeRTOS keeps
interrupts masked from the first `xQueueCreate` until the scheduler starts, so nothing comes
in between. `message` and `todo` are what `app_handle_message` still has to do for the
message it took: order before answer, error count after it. For `status?` it first reads the
five counters that other tasks and the ISR keep, one step each (`AppRead`), in one of
`ReadOrders`, because C leaves the order of evaluation of the arguments of `snprintf` open;
its own two counters nobody else writes. A frame is start, body and end here, one byte each,
and `Consume` is the parser condensed to three states; that the nine-state parser really
loses no more than this is checked in `NoisyLine` on real frames (`LossCostsOneMessage`).
`MaxBurst` says how many bytes may arrive before the two tasks of priority 3 have caught
up; the instances take the length of the ISR queue. In the firmware this is 64 bytes, or
5.5 ms of line time, for two short loops that nothing but ISRs preempts.

### FrameCodec, FrameParser, NoisyLine

Bytes are ASCII codes, and the frames are those of the firmware: `MCNoisyLine` assumes the
vectors of `host_tests/test_protocol.c` and `test_parser.c`, which TLC evaluates. A payload has
at most 251 bytes, since the length of a body is sent in two digits; the firmware's has 48. A
checksum bit is the parity of the number of bytes that have the bit set, which is XOR; a bit is
named by what it is worth. `snprintf` with `%s` stops at a NUL (`UpToNul`), and the message is
refused when the copy does not fit (`CopyFits`, which no frame the parser can read violates
with the firmware's 48 and 64 bytes). `body_index` is the length of the body read so far.
`NoisyLine` loses any byte, or replaces it by one of `NoiseBytes`, at most once in a frame.

### Button, AdcFilter, PeriphDemo

Time is counted in the counts of TIM1 and TIM3, 0.1 ms each. The pin may change whenever
it likes, but once in a count at the most (`PinEdge`). `Exti0` restarts the window from any
state of the timer: still counting, over with its routine due, or stopped. `tim1_up_isr`
clears the flag in one step and reads the pin in another, since EXTI0 has the higher priority
and may come in between. The routines run within a count: `Count` waits for them, because
nothing masks them for 0.1 ms once the scheduler runs. `TakeLevel` and `EnableEdges` are the
two halves of `button_init`; an edge between them is the record `unheard`.

A conversion is one step with the position of the knob as its result, as the routine waits for
it. `Mean` is line 87 in unsigned 16-bit arithmetic. The demo's task reads the mean and the
button in two steps, with routines and time in between, shows them and sends; an iteration ends
before the next is due. It reads the mean twice, as a raw value and as a speed; the raw value
only goes into the text of the message, and is left out with it. The sensors it shows in blue
are a free input. The wrap-around of its counters at 2^32 is left out.

## 3. Runs

Runs take between a few seconds and about a minute. "Expect violation" marks findings.

| Run | Properties | Bounds and why they are enough |
|---|---|---|
| `deadman_inputs` | `TypeOK`, `FilterCounts`, `LossStops`, `OperatorOperates`, `EmergencyHasCause`, `ChangeOnlyForCause` | all 8 inputs at every sampling, the real filter of 3 samples, the build with `DEADMAN_DIAG`, whose report competes for the queue every second iteration; the other timers with period 1, so that every branch is taken each time; queue of 1, so that it is both full and empty |
| `deadman_timing` | `NeverSilent`, `NoStrayTone`, `RetryCadence`, `DoubleTapToggles`, `AlarmBeeps`, `ImplementsNotice` | periods 3 and 5 with a task period of 2: no multiples, as 125 ms is none of 20 ms; the tick counter wraps after 8, within one double tap and the next |
| `link_reliable` | `StopNeverForgotten`, `StopReachesRobot`, `StopIsSettled` | no faults, one command that takes room in the queue, an operator who comes and goes at will |
| `link_lossy_quiet` | `LinkTypeOK`, `StopNeverForgotten`, `StopReachesRobot`, `PresenceReachesRobot` | two faults: notice and its resend, or notice and ACK; a command whose answer may take the last place of the queue of 3 just before an `EVT:deadman` or its resend, which is then dropped; a quiet re-engagement |
| `link_lossy` (expect violation) | `StopNeverForgotten` | one fault, an operator at will |
| `deadman_mute` (expect violation) | `MuteNeedsDoubleTap` | the real periods |
| `rx_answers` | `HandledInOrder`, `AnsweredOnceInOrder`, `ImplementsChannel` | four frames of three kinds of request, queues of 1 (ISR 2): each queue is full and empty, and bytes are dropped |
| `rx_overflow` | `PipeTypeOK`, `EveryByteAccounted`, `LossCostsOneRequest`, `ReportAddsUp`, `DropOnlyWhenChoked`, `Drains` | six requests for the status through queues of 1: more than all of them hold, so that every writer blocks at once, the parser fails in the middle of a frame, and bytes come in between any two counters that are read; counters read from the left or from the right |
| `frame_noise` | `ParserTypeOK`, `FieldsInStep`, `NothingForged`, `LossCostsOneMessage`, `IntactDelivered`, `BlackoutEnds` | three frames with `ping`, `led=off`, `ok`, two faults anywhere, nine noise bytes: one for each way a state may take a byte; payload buffer of 8, so that a wrong length may still swallow a frame |
| `frame_nul` (expect violation) | `NothingForged` | one frame, one byte turned into NUL |
| `hand_inputs` | `HandTypeOK`, `ButtonSettles`, `DemoFollows`, `OnlyRaceSeesBounce`, `MeanApproaches`, `BrightnessSettles` | window of 2 counts, so that an edge may come at its start, in it and at its end; period of 3, no multiple; a sample each count; 4 bits, with positions 5 and 9 whose upper bits differ, so that the mean rises and falls; queue of 1, full and empty |
| `adc_full_scale` (expect violation) | `FullScaleReached` | the real 12 bits, a knob between 4080 and 4095 |

What they show:

* The gate. `LossStops` and `OperatorOperates` relate raw inputs to outputs and to what
  the robot was told, through the filters; `ChangeOnlyForCause` excludes that glitches add up.
* From the hand to the robot. `ButtonSettles` says that `g_pressed` is the level of the pin
  one window (20 ms) after the last bounce; `LossStops` that the iteration that samples it,
  20 ms later at most, ends with the robot told. The two models are checked apart: all that
  `Deadman` needs of the button is that it is a Boolean, which its theorems take as it comes.
* The notices. `NeverSilent` and `RetryCadence` enclose the resend period; the first
  resend comes one task period early since the timer counts the iteration of the stop
  as well. `ImplementsNotice`: every change is told, in order, and no stop is closed untold.
* The buzzer. `NoStrayTone` speaks of the register values: before the first operator there is
  silence; half a beep after a stop there is silence or the alarm's tone, never that of the
  operation, however mute and unmute fall in between.
* The link. Without faults and drops every stop reaches the robot and is settled, even when the
  operator comes back before the ACK. With faults, or with an `EVT:deadman` that finds the queue
  full, this holds for a quiet re-engagement only (`link_lossy_quiet`). `EmergencyHasCause` says
  what the task tries to send; an `STS:EMERGENCY` may go out whose `EVT:deadman` was dropped, and
  it is `StopNeverForgotten` and `StopReachesRobot` that make up for that.
  `EVT:deadman_ok` is sent once; when it is lost the `DAT:spd` after it make up for it.
* The pipeline. Bytes are lost at the entrance only, only while the application queue is
  full, and the counters of `status?` account for each. A lost byte costs at most one
  request. No circle of full queues locks up, whatever the interleaving. `cmd=ok` is never
  said before the order is queued, and `Drains` says that an order that is queued is carried
  out in the end. That it is carried out before `cmd=ok` is said is neither true nor promised:
  the actuator task may run after the transmit task. `ReportAddsUp`: the
  counters of one status message are not from one moment, but they disagree by no more than
  what came in since the request was taken up.
* The parser. No damaged frame is taken for another message, in this run with two faults
  and, as a theorem, for one fault in each frame but for two kinds of fault (section 4). One
  of them is the NUL of finding 3. `IntactDelivered` makes precise what reusing `@` achieves: an intact frame
  is only lost when its start was swallowed as part of another body, and
  `BlackoutEnds` bounds that to a length field and one maximal body after the last fault.
* Button and potentiometer. However edges, the end of the window and the two routines meet,
  there is always one more look at the pin after the last bounce. A level that has not been
  there for a whole window is taken in one case only, an edge while the routine of the window
  before is already due (`OnlyRaceSeesBounce`), and is corrected one window later. The one edge
  that is never seen falls between the two halves of `button_init` (`unheard`): a button
  let go in these microseconds counts as held until it is touched again, and for that time
  `ButtonSettles` says nothing; it bounds the error to one window after the next edge. The mean
  moves towards the sample with every step, never beyond, never wraps, and stands still only
  among the eight values with the sample's upper bits.

### Findings

1. `link_lossy`: an ACK of an earlier stop that arrives after the operator came back is
   still in `g_ack_ok` (or on its way) at the next stop and closes it at once. If the
   `EVT:deadman` of that stop is lost, it is never sent again: the robot goes on without an
   operator, against `src/README.md:18`. Noise is not needed for it: an `EVT:deadman` that is
   dropped at a full transmit queue (`send_msg`, `deadman.c:42`) is lost in the same way, so that
   a quiet re-engagement is needed with a full queue as well, even on a perfect line.
2. `deadman_mute`: `last_rise` starts at 0, so that one press within 400 ms of the start
   of the scheduler silences the alarm, against `deadman.c:114`, which asks for two.
3. `frame_nul`: the parser's checksum stops at a NUL. Where the bytes behind it cancel
   each other out, as in `led=off`, one changed byte goes undetected, against
   `protocol.c:95-96`. The real parser, compiled for the host, accepts that frame.
4. `adc_full_scale`: `raw >> 3` and `mean >> 3` both lose their low bits, so that a mean that
   comes from below stands still at 4088 for a full-scale sample of 4095: 99 %, against
   `drivers/adc.h:13-14`, which promises `0..4095` and `0..100 %`.

### Fairness

* `HFairSpec`: weak fairness of the deadman task only. `vTaskDelayUntil` makes it ready each
  period, and the scheduler runs ready tasks of one priority in turns. Nothing is assumed
  of the other tasks.
* `LFairSpec`: weak fairness of the four loops: deadman task, transmit task, application task,
  bridge. Commands and noise may cease; a fault is never fair, and faults are bounded.
* `RxPipeline!Fairness`: weak fairness of each task, which for the tasks of priority 2 only
  means a turn when none of priority 3 is ready for ever; of the start; and of the arrival of
  the bytes of a frame that was begun, since the sender writes it in one piece.
* `PeriphDemo!Fairness`: weak fairness of time, of the two pairs of routines and of the two
  tasks. Nobody has to touch button or knob, and `BrightnessSettles` only speaks of a knob
  that is left alone in the end.

Deadlock is checked in all runs; `Finished` (pipeline) and `Quiescent` (line) are the states
where a bounded sender has sent all it may, and nothing is left to do.

## 4. Proofs

Each module of proofs assumes only the named assumptions of the module it is about (periods,
lengths, windows and samples are positive, speeds are at most 100, conversions fit 16 bits),
and proves for all of those values and all inputs:

`DeadmanProofs`

* `TaskTypeCorrect`: `TypeOK` is inductive as it stands; it is split into flags, inputs,
  timers, outputs and queue, with one lemma each. The timers' part says that no `uint32_t`
  timer can overflow; the outputs' part, with the ranges of `DriversProofs`, that every tone
  fits the 16-bit registers and every duty the period.
* `FilterCountsExactly`: the counter of a filter is the length of the contradicting run.
  `FilterCounts` is inductive only together with the relation of `run` to the samples
  (`GateInv`).
* `LossAlwaysStops`, `OperatorAlwaysOperates`: from `GateInv`, that a steady sensor is a
  filtered one, and `ProgressInv`, which says for each `pc` what the iteration has already
  told and shown; the outputs are only right at the end of an iteration, so that the plain
  property is not inductive.
* `OnlyForCause`: the action property, from the same invariants.
* `EmergencyAlwaysHasCause`: `CauseInv` says at `stop` that with the button held a sensor is
  gone, which the filter's run proves.
* `NeverSilentForLong`, `RetriesInCadence`: `NoticeInv` and `PaceInv` bound the age of the
  notice by `t_ack` from above and from below at every `pc`; neither bound holds without the
  one at the resend, where the timer has restarted and the notice not yet been sent.
* `DoubleTapAlwaysToggles`: `TapInv` says that `tick` is the latest press plus the time since,
  modulo the width of the counter; the lemma `ElapsedBound` then bounds the unsigned
  difference, wherever the counter wrapped around.
* `NoStrayToneEver`: `ToneInv` ties the age of the stop to `t_beep` as long as the tone of
  the operation is on.
* `NoticesImplemented`: initial states and steps of the task are those of `StopNotice`.

`LinkProofs`

* `LinkTypeCorrect`: from `TypeOK`, since every step of the composition is a step of `Deadman`
  or leaves it alone.
* `StopRemembered`: `StopNeverForgotten` under `QuietReengage`, for any number of faults and
  commands and any queue. Its invariant `StopInv` has four parts: `Sequel`, where the task is
  against whether the operator is present; `Ordered`, nothing that moves the robot is behind a
  stop on its way; `BareBefore`, while the operator is present neither a notice nor an ACK
  of an earlier stop is under way, nor in the flag; `Heard`, once an ACK is there or the
  stop is closed, the robot has stopped and nothing on its way moves it. `BareBefore` is where
  `QuietReengage` is needed; finding 1 is the behaviour without it.

`RxPipelineProofs`

* `PipeTypes`: types and lengths of the queues, and that the actuators only get orders of LED
  commands, which needs what may be left to do for a message (`Job`).
* `BytesAccounted`: `EveryByteAccounted` is inductive over the types; each step moves one byte
  from one of its terms to another.
* `DropsOnlyWhenChoked`, where `MaxBurst <= IsrLength`: `BurstInv` says that the ISR queue
  holds no more than what came in since the tasks of priority 3 last caught up, unless the
  application held them up. The assumption is the statement's own: with longer bursts bytes
  are dropped.
* `NeverLockedUp`, `StepsUseUpWork`: what can be proved of `Drains`. As long as something is in a
  queue or in a task's hands, some task waits neither for an item nor for room: a full queue
  has a reader that can go on, down to transmit and actuator tasks, which wait for nobody.
  `Work` weighs each item by the steps it still causes. Every step of a task lowers it, and
  only a byte that comes in raises it, by 20 at most. What is left to TLC is that a task that
  can go on does so in the end.
* `ChannelImplemented`: initial states and steps are those of `ByteChannel`; the bytes inside
  are two queues and the byte between them, and stay what they are when it moves.

`RequestProofs`, for any number of requests and every interleaving; its invariant is
`RequestInv`

* The bytes. The other side sends start, body and end of each request in turn (`Stream`). What
  is in a queue, or held by a task that waits for room, stands at ascending positions of that
  stream (`Within`), and queues in line hold consecutive parts of it. `FlowInv` says that there
  is a position the parser has come to and a number of requests whose messages may be in hand.
* `LossCostsOne`: what makes it work is one inequality (`Enough`): of the bytes up to where the
  parser is, every three, given to it or lost, make for a message or a loss, but for those of
  the frame it is in. That a wrong byte is looked at once more as a start is needed in it.
* `HandledInOrderOfSending`: the same positions, one level up: requests handled, queued and at
  the door of the queue stand at ascending places among the requests sent.
* `ReportsAddUp`: the tasks of the higher priority were idle when the first counter was read, so
  that every byte counted until then has been parsed, or the parser waits for the application
  itself (`Stuck`); `ReadOK` keeps that for each number in the report, whichever is read first.
  `TodoOK` says which are left to read, `PartsOK` that a message took three bytes and an error
  at least one. It uses `BytesAccounted`.
* `AnsweredInOrder`: `Serves` says that a thing to be done for the request in n-th place among
  those that want it is the n-th that is done, with those queued and the one held counted in.

`FrameParserProofs`, for any bytes on the line

* `ParserTypeCorrect`, `BodyNeverOverruns`: neither is inductive alone. `FieldsInStep` says
  for each state how much of each field was read; with it the check of the declared length at
  line 147 is enough for the unchecked write at line 163.
* `OneByteDetected`: changing one byte of any data changes the checksum. A different byte has a
  different bit (`BitsTell`), that bit has another parity (`ParityFlips`, by the cardinality of
  the set of bytes that have it), and the checksum tells each parity.
* `DamagedBodyRefused`: so the parser builds no message from a frame with one byte of its body
  changed. `body[k] # Nul` is needed, and finding 3 is what happens without it.
* `OtherDigitsRefused`: with the body as it was sent, the parser builds no message from other
  checksum digits than those of the encoder, since two digits tell what they are written for
  (`HexTells`).
* For `OneFaultForgesNothing` below: `Adrift` says what a parser may be that one fault brought
  out of step with the frame on the line. It waits for a start, or it is one byte ahead or
  behind in head, body or tail (`HeadOff`, `BodyOff`, `TailOff`), or it was declared too short
  a body (`TooShort`), or it has everything with one byte or digit wrong (`BodyWrong`,
  `CheckWrong`). `LossAdrift` and `WrongAdrift` lead into it, and `AdriftNext` shows that no
  further byte of the frame delivers anything.
* `BodyRead`: what the codec puts in a body it takes apart again, for the messages that are
  `Legible`: one the encoder accepts, with a payload that is not empty and has no NUL and no
  carriage return in it; the copy of a body that was sent fits its buffer (`CopyOfSentFits`).
  Those with an empty payload the decoder refuses, and a carriage return the parser passes over.

`NoisyLineProofs`, for any number of frames and faults, and messages that are `Legible`

* `IntactFramesDelivered`: `InFrame(m, p)` says what state and fields of the parser are when it
  has read the first `p` bytes of the frame of `m` and nothing else. `NextOfFrame` carries it
  from each byte to the next, `EndOfFrame` delivers the message, and `StartFound` shows that any
  state but `READ_BODY` comes to `p = 1` at a start, whatever it was doing.
* `BlackoutsEnd`: a parser that is not within the frame being sent got into its state by the
  byte hit last or after it (`Lag`), so that its body is over after `Blackout` intact bytes. A
  start in a payload would be one more way in, so that the theorem asks for payloads without
  (`NoStart`); no message of the firmware has an `@`. With a blackout one byte shorter it is
  false, as TLC shows.
* `LostBytesCostOne`: `Spare` counts the bytes lost beyond one for each message missing. A frame
  has at least 13 bytes; thus a body that swallows frames needs a spare byte for every 13 bytes
  left of it (`BodyPaid`), and `LengthPaid` says that whoever reads a length that is not the
  frame's own has lost enough of that frame, or of the one before: `FalseLength` computes it for
  each place of the two digits and the separator. The theorem asks for payloads of at most 52
  bytes and without `@`. Both hold for the firmware (48 bytes). They are no weakness of the
  proof: TLC finds two messages lost for one byte with payloads of 90 bytes.
* `OneFaultForgesNothing`: `NothingForged` for any number of frames with one byte lost or
  garbled in each at most (`OnlyMildFaults`). In its invariant `ForgeInv` the parser is within
  the frame being sent or `Adrift` and the frame was hit (`WithinFrame`), and between frames it
  is ready or still awaits the end of the frame before, which the next byte may supply
  (`BetweenFrames`, `FrameBegins`). Three things are assumed. Payloads hold neither a start nor
  an end character; those of the firmware hold none. No byte of a body turns into NUL, since that
  is finding 3. And no digit of the length is read as one that declares more. That cannot be left
  out: `@08:CMD:xdbs:4F`, `@06:CMD:ca:4E` and `@0A:CMD:pingxx:2B`, each with its newline, are
  three valid frames, and with the first length read as `28` they are one valid frame of 40
  bytes, whose checksum is that of the third. The real parser, compiled for the host, accepts it.
  Such frames have to follow one another by chance, and no run has met them with the firmware's
  own commands.

`HandProofs`

* `HandTypes`: the mean stays at or below `AdcMax` because `mean \div 8` is taken away before
  `sample \div 8` is added; no step of the 16-bit arithmetic wraps.
* `MeanAlwaysApproaches`: from the same arithmetic, for every width of the conversion.
* `FullScaleNeverReached`: finding 4 for every range that is no multiple of eight: the mean never
  passes `Plateau`, 4088 with 12 bits, from below, and the speed stays under 100 %. The
  exception is a board that starts with the knob above it, as the first sample is the first
  mean.
* `ButtonAlwaysSettles`, `BounceOnlyInRace`: `ButtonInv` relates the counter of the window to
  the time since the latest edge, and says that whenever `g_pressed` is not the level of the
  pin, something is pending that will take it.
* `DemoAlwaysFollows`: `FollowInv` bounds the time since the latest edge by the window and the
  time in the period as long as LED and buzzer do not show the pin.

Only model-checked:

* all liveness (`AlarmBeeps`, `StopReachesRobot`, `StopIsSettled`, `PresenceReachesRobot`,
  `Drains`, `BrightnessSettles`, and the liveness in `ImplementsNotice` and
  `ImplementsChannel`), for the prover has no reasoning about fairness and `ENABLED`;
* `NothingForged` with two faults in a frame, or one fault of the two kinds named above. With
  two it does not hold for all values of the constants: an XOR is blind to some pairs
  of wrong bytes, so that whether a message can be forged depends on the messages and on the
  noise;
* what the checksum of given data is, which TLC computes in the test vectors.

## 5. Not modelled

* Telemetry of the template (`sensors.c`, `app_build_telemetry_message`): nothing calls it.
* The text of messages, among them the status message, which is cut off at 48 characters
  once its seven counters have more than 20 digits together; the bridge's own parser of frames;
  logging.
* Presence: two reads of a pin without state, free inputs of the models; their polarity.
* Start-up, where its order does not matter: clocks, pin modes, prescalers, priorities of
  interrupts. The counting of TIM2 and TIM4 behind the registers that `Drivers` gives.
* Jitter of iterations, stack and heap sizes (a failing `xTaskCreate`), the kernel and the
  peripheral library.
* Crashes and restarts: nothing is persisted, and a reset is the initial state, from which
  every run starts with any level of pin and sensors. What the bridge makes of a firmware
  that starts anew is no part of the repository.
* Host tests, build files and hardware evidence; the tests' vectors are in `MCNoisyLine`.

## 6. Plan

Done, in the order of the plan: the deadman task of both builds, with its promise and its
proofs; its link with bridge and robot, and the theorem for any number of faults; the reception
pipeline with the status message and its theorems about bytes, requests, answers and reports;
codec, parser and noisy line with theirs; button,
potentiometer, drivers and demo with theirs.

What is left is of a smaller kind:

1. The deadman task as one more writer of the transmit queue in `RxPipeline`: a flood of
   commands against its notices, which `link_lossy_quiet` shows with one command and a queue of
   three messages.
2. The bridge's parser of lines, which accepts more than the firmware's parser does.
