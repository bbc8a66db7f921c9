----------------------------- MODULE RxPipeline -----------------------------
(***************************************************************************)
(* The way of a request through the firmware: usart1_isr puts each byte in *)
(* a queue (drivers/uart_comm.c), task_uart_rx carries it to the parser's  *)
(* queue, task_parser makes messages of the bytes, task_app handles them   *)
(* (app/app.c), and the actuator and transmit tasks carry out the orders   *)
(* and send the answers (app/tasks.c).  All queues but the first block     *)
(* their writer when they are full; the ISR drops the byte and counts it.  *)
(*                                                                         *)
(* Tasks are scheduled as FreeRTOS does: a task runs only when no task of  *)
(* a higher priority is ready (3: reception and parser, 2: the others),    *)
(* and tasks of one priority take turns.  The ISR interrupts any task.     *)
(*                                                                         *)
(* A frame is three bytes here, its start, its body (the request itself)   *)
(* and its end, and the parser has one state for each: the nine states and *)
(* the checksum of the real one are the subject of module FrameParser.     *)
(***************************************************************************)
EXTENDS Naturals, Sequences, FiniteSets, SequencesExt

CONSTANTS
  IsrLength,      \* UART_RX_ISR_QUEUE_LENGTH, 64
  ParserLength,   \* PARSER_INPUT_QUEUE_LENGTH, 64
  AppLength,      \* APP_MESSAGE_QUEUE_LENGTH, 8
  TxLength,       \* UART_TX_QUEUE_LENGTH, 8
  ActuatorLength, \* ACTUATOR_QUEUE_LENGTH, 8
  Requests,       \* the requests the other side may send
  ReadOrders,     \* the orders in which a compiler may have the arguments of
                  \* snprintf in app_build_status_message evaluated
  MaxFrames,      \* bound: frames the other side sends
  MaxBurst        \* bound: bytes that come in before the two tasks of the
                  \* higher priority have caught up with them

\* The counters of the status message, named as there.
Foreign == {"irq", "pb", "pm", "pe", "qd"}
Counter == Foreign \cup {"rx", "ae"}

LedCommand == {"on", "off", "toggle"}
Request == LedCommand \cup {"ack", "dat", "ping", "status", "unknown"}

ASSUME PipelineAssumption ==
  /\ IsrLength \in Nat \ {0} /\ ParserLength \in Nat \ {0}
  /\ AppLength \in Nat \ {0} /\ TxLength \in Nat \ {0}
  /\ ActuatorLength \in Nat \ {0}
  /\ Requests \subseteq Request
  /\ ReadOrders # {} /\ ReadOrders \subseteq [1 .. 5 -> Foreign]
  /\ \A reading \in ReadOrders, c \in Foreign : \E i \in 1 .. 5 : reading[i] = c
  /\ MaxFrames \in Nat /\ MaxBurst \in Nat

None == "none"
Start == "@"
End == "newline"
Byte == Request \cup {Start, End}

VARIABLES
  started,        \* tasks_start has created the queues
  isrq, parserq, appq, txq, actuatorq,
  rx_byte,        \* task_uart_rx: the byte it carries
  parser,         \* task_parser: [state, body] of its FSM
  parser_msg,     \* task_parser: the message it waits to hand over
  message,        \* task_app: the message it handles, or None
  todo,           \* task_app: what it still has to do for it
  report,         \* task_app: the counters it has read for its answer
  led,            \* the status LED, TRUE when lit
  count,          \* the counters
  wire,           \* the other side: the bytes still to come of its frame
  burst           \* bytes since the tasks of priority 3 were last idle

\* A record of what went on, which the firmware does not keep.
VARIABLES
  sent,           \* the requests the other side sent
  handled,        \* the requests task_app took up
  answers,        \* the answers sent out
  orders,         \* the orders the actuators carried out
  boot_lost,      \* bytes that came before the queues were there
  delivered,      \* the byte task_parser took last
  choked,         \* since the tasks of priority 3 last caught up, a full
                  \* application queue has held them up
  asked           \* bytes received when task_app took up its message,
                  \* (0 when it waits for one)

lineVars == <<started, wire, sent, boot_lost>>
rxVars == <<isrq, rx_byte>>
parserVars == <<parser, parser_msg, delivered>>
appVars == <<message, todo, report, handled, asked>>
txVars == <<txq, answers>>
actuatorVars == <<actuatorq, led, orders>>
rvars == <<lineVars, burst, rxVars, parserq, parserVars, appq, appVars, txVars,
           actuatorVars, count, choked>>

Waiting == [state |-> "WAIT_START", body |-> None]

-----------------------------------------------------------------------------
(* Queues, counters and scheduling.  A suffix after an underscore names a    *)
(* plausible bug in the definition that follows.                             *)

Room_ForOneMore(q, length) == Len(q) <= length
Room(q, length) == Len(q) < length

Put_AtFront(q, e) == <<e>> \o q
Put(q, e) == Append(q, e)

Counted(cs) == count' = [c \in Counter |-> IF c \in cs THEN count[c] + 1 ELSE count[c]]

RxReady_Polling == TRUE
RxReady == \/ rx_byte = None /\ isrq # <<>>
           \/ rx_byte # None /\ Room(parserq, ParserLength)
ParserReady == \/ parser_msg = None /\ parserq # <<>>
               \/ parser_msg # None /\ Room(appq, AppLength)

\* Some task of priority 3 can run, so that none of priority 2 does.
Preempted_NoPriority == FALSE
Preempted == started /\ (RxReady \/ ParserReady)

-----------------------------------------------------------------------------
Init ==
  /\ started = FALSE /\ wire = <<>> /\ sent = <<>> /\ boot_lost = 0 /\ burst = 0
  /\ isrq = <<>> /\ parserq = <<>> /\ appq = <<>> /\ txq = <<>> /\ actuatorq = <<>>
  /\ rx_byte = None
  /\ parser = Waiting /\ parser_msg = None /\ delivered = None
  /\ message = None /\ todo = <<>> /\ report = <<>> /\ handled = <<>> /\ asked = 0
  /\ led = FALSE
  /\ answers = <<>> /\ orders = <<>>
  /\ count = [c \in Counter |-> 0]
  /\ choked = FALSE

\* The other side begins to send a frame.
SendFrame(r) ==
  /\ wire = <<>> /\ Len(sent) < MaxFrames
  /\ wire' = <<Start, r, End>>
  /\ sent' = Append(sent, r)
  /\ UNCHANGED <<started, boot_lost, burst, rxVars, parserq, parserVars, appq,
                 appVars, txVars, actuatorVars, count, choked>>

\* tasks_start: create the queues and give the ISR its own.
TasksStart ==
  /\ ~started
  /\ started' = TRUE
  /\ UNCHANGED <<wire, sent, boot_lost, burst, rxVars, parserq, parserVars, appq,
                 appVars, txVars, actuatorVars, count, choked>>

\* usart1_isr: count the byte and queue it, or count it as dropped.  Reception
\* is enabled before there is a queue: such a byte is in neither count.
Arrival_DropUncounted == {"irq"}
Arrival_DropNotReceived ==
  IF started /\ ~Room(isrq, IsrLength) THEN {"qd"} ELSE {"irq"}
Arrival == IF started /\ ~Room(isrq, IsrLength) THEN {"irq", "qd"} ELSE {"irq"}

Isr ==
  /\ wire # <<>>
  /\ burst < MaxBurst
  /\ wire' = Tail(wire)
  /\ burst' = IF started THEN burst + 1 ELSE burst
  /\ boot_lost' = IF started THEN boot_lost ELSE boot_lost + 1
  /\ isrq' = IF started /\ Room(isrq, IsrLength) THEN Put(isrq, Head(wire)) ELSE isrq
  /\ Counted(Arrival)
  /\ UNCHANGED <<started, sent, rx_byte, parserq, parserVars, appq, appVars, txVars,
                 actuatorVars, choked>>

\* The tasks of priority 3 have caught up and wait: for bytes, or for room in
\* the application queue.
CatchUp ==
  /\ burst > 0 \/ choked
  /\ ~Preempted
  /\ burst' = 0
  /\ choked' = (parser_msg # None)
  /\ UNCHANGED <<lineVars, rxVars, parserq, parserVars, appq, appVars, txVars,
                 actuatorVars, count>>

-----------------------------------------------------------------------------
(* task_uart_rx: take a byte, hand it on when there is room. *)

RxTake ==
  /\ started /\ rx_byte = None /\ isrq # <<>>
  /\ rx_byte' = Head(isrq)
  /\ isrq' = Tail(isrq)
  /\ UNCHANGED <<lineVars, burst, parserq, parserVars, appq, appVars, txVars,
                 actuatorVars, count, choked>>

RxHand ==
  /\ rx_byte # None /\ Room(parserq, ParserLength)
  /\ parserq' = Put(parserq, rx_byte)
  /\ rx_byte' = None
  /\ UNCHANGED <<lineVars, burst, isrq, parserVars, appq, appVars, txVars,
                 actuatorVars, count, choked>>

-----------------------------------------------------------------------------
(* task_parser *)

\* parser_fail: the parser starts over, and the byte that was wrong may be the
\* start of the next frame.
AfterFail_Dropped(b) == Waiting
AfterFail(b) == IF b = Start THEN [state |-> "READ_BODY", body |-> None] ELSE Waiting

\* parser_consume_byte, condensed to one state per part of the frame.
Consume(p, b) ==
  CASE p.state = "WAIT_START" ->
         [result |-> "IN_PROGRESS", next |-> IF b = Start
            THEN [state |-> "READ_BODY", body |-> None] ELSE p]
    [] p.state = "READ_BODY" ->
         [result |-> "IN_PROGRESS", next |-> [state |-> "EXPECT_END", body |-> b]]
    [] p.state = "EXPECT_END" ->
         IF b = End /\ p.body \in Request
           THEN [result |-> "MESSAGE_READY", next |-> Waiting]
           ELSE [result |-> "ERROR", next |-> AfterFail(b)]

ParserTake ==
  LET b == Head(parserq)
      step == Consume(parser, b)
      ready == step.result = "MESSAGE_READY"
  IN
  /\ started /\ parser_msg = None /\ parserq # <<>>
  /\ parserq' = Tail(parserq)
  /\ delivered' = b
  /\ parser' = step.next
  /\ parser_msg' = IF ready THEN parser.body ELSE None
  /\ Counted({"pb"} \cup (IF ready THEN {"pm"} ELSE {})
                    \cup (IF step.result = "ERROR" THEN {"pe"} ELSE {}))
  /\ choked' = (choked \/ (ready /\ ~Room(appq, AppLength)))
  /\ UNCHANGED <<lineVars, burst, rxVars, appq, appVars, txVars, actuatorVars>>

ParserHand ==
  /\ parser_msg # None /\ Room(appq, AppLength)
  /\ appq' = Put(appq, parser_msg)
  /\ parser_msg' = None
  /\ UNCHANGED <<lineVars, burst, rxVars, parserq, parser, delivered, appVars, txVars,
                 actuatorVars, count, choked>>

-----------------------------------------------------------------------------
(* task_app: app_handle_message *)

\* What there is to do for a request: an order to the actuators comes before
\* the answer, and only an unknown command counts as an error, after its
\* answer; an ACK and the types the variant does not expect are not answered.
Todo_AnswerFirst(r) == CASE r \in LedCommand        -> <<"answer", "actuate">>
                         [] r \in {"ping", "status"} -> <<"answer">>
                         [] r = "unknown"            -> <<"answer", "count">>
                         [] r \in {"ack", "dat"}     -> <<>>
Todo(r) == CASE r \in LedCommand        -> <<"actuate", "answer">>
             [] r \in {"ping", "status"} -> <<"answer">>
             [] r = "unknown"            -> <<"answer", "count">>
             [] r \in {"ack", "dat"}     -> <<>>

Answer == {"cmd=ok", "pong=1", "status", "code=unknown_cmd"}
AnswerTo(r) == CASE r \in LedCommand -> "cmd=ok"
                 [] r = "ping"       -> "pong=1"
                 [] r = "status"     -> "status"
                 [] r = "unknown"    -> "code=unknown_cmd"

AppTake ==
  LET r == Head(appq)
  IN
  /\ started /\ todo = <<>> /\ appq # <<>> /\ ~Preempted
  /\ Counted({"rx"})
  /\ handled' = Append(handled, r)
  /\ appq' = Tail(appq)
  /\ IF r = "status"
       THEN \E reading \in ReadOrders : todo' = reading \o Todo(r)
       ELSE todo' = Todo(r)
  /\ IF todo' = <<>>
       THEN UNCHANGED <<message, asked>>
       ELSE message' = r /\ asked' = count["irq"]
  /\ UNCHANGED <<lineVars, burst, rxVars, parserq, parserVars, report, txVars,
                 actuatorVars, choked>>

\* The next thing to do is done; without another one the task waits again.
AppDoes(what) ==
  /\ todo # <<>> /\ Head(todo) = what /\ ~Preempted
  /\ todo' = Tail(todo)
  /\ IF todo' = <<>> THEN message' = None /\ asked' = 0 ELSE UNCHANGED <<message, asked>>
  /\ UNCHANGED <<lineVars, burst, rxVars, parserq, parserVars, appq, handled, answers,
                 led, orders, choked>>

\* app_build_status_message reads the counters of the others one by one.
AppRead(c) ==
  /\ AppDoes(c)
  /\ report' = [d \in DOMAIN report \cup {c} |-> IF d = c THEN count[c] ELSE report[d]]
  /\ UNCHANGED <<txq, actuatorq, count>>

AppActuate ==
  /\ AppDoes("actuate")
  /\ Room(actuatorq, ActuatorLength)
  /\ actuatorq' = Put(actuatorq, message)
  /\ UNCHANGED <<report, txq, count>>

AppAnswer ==
  /\ AppDoes("answer")
  /\ Room(txq, TxLength)
  /\ txq' = Put(txq, AnswerTo(message))
  /\ report' = <<>>
  /\ UNCHANGED <<actuatorq, count>>

AppCount ==
  /\ AppDoes("count")
  /\ Counted({"ae"})
  /\ UNCHANGED <<report, txq, actuatorq>>

-----------------------------------------------------------------------------
(* The tasks at the other end *)

\* actuators_apply_command.
LedAfter(c, lit) == CASE c = "on" -> TRUE [] c = "off" -> FALSE [] c = "toggle" -> ~lit

Actuate ==
  /\ started /\ actuatorq # <<>> /\ ~Preempted
  /\ led' = LedAfter(Head(actuatorq), led)
  /\ actuatorq' = Tail(actuatorq)
  /\ orders' = Append(orders, Head(actuatorq))
  /\ UNCHANGED <<lineVars, burst, rxVars, parserq, parserVars, appq, appVars, txVars,
                 count, choked>>

Transmit ==
  /\ started /\ txq # <<>> /\ ~Preempted
  /\ answers' = Append(answers, Head(txq))
  /\ txq' = Tail(txq)
  /\ UNCHANGED <<lineVars, burst, rxVars, parserq, parserVars, appq, appVars,
                 actuatorVars, count, choked>>

-----------------------------------------------------------------------------
RxTask == RxTake \/ RxHand
ParserTask == ParserTake \/ ParserHand
AppTask == AppTake \/ (\E c \in Foreign : AppRead(c)) \/ AppActuate \/ AppAnswer \/ AppCount

\* All is said and done: the other side has sent all it may send.
Finished ==
  /\ started /\ Len(sent) = MaxFrames /\ wire = <<>> /\ burst = 0
  /\ isrq = <<>> /\ rx_byte = None /\ parserq = <<>> /\ parser_msg = None
  /\ appq = <<>> /\ todo = <<>> /\ txq = <<>> /\ actuatorq = <<>>
  /\ UNCHANGED rvars

Next == \/ \E r \in Requests : SendFrame(r)
        \/ TasksStart \/ Isr \/ CatchUp
        \/ RxTask \/ ParserTask \/ AppTask \/ Actuate \/ Transmit
        \/ Finished

\* The scheduler starts, and gives each task its turn as long as it can run;
\* the bytes of a frame the other side began arrive.
Fairness ==
  /\ WF_rvars(TasksStart) /\ WF_rvars(Isr) /\ WF_rvars(CatchUp)
  /\ WF_rvars(RxTask) /\ WF_rvars(ParserTask)
  /\ WF_rvars(AppTask) /\ WF_rvars(Actuate) /\ WF_rvars(Transmit)

Spec == Init /\ [][Next]_rvars
FairSpec == Spec /\ Fairness

-----------------------------------------------------------------------------
\* The bytes taken in and not yet given to the parser, oldest first.
Carried == IF rx_byte = None THEN <<>> ELSE <<rx_byte>>
Inside == parserq \o Carried \o isrq
Held == Len(parserq) + Len(Carried) + Len(isrq)

ReceptionOK ==
  /\ started \in BOOLEAN
  /\ wire \in Seq(Byte)
  /\ isrq \in Seq(Byte) /\ Len(isrq) <= IsrLength
  /\ parserq \in Seq(Byte) /\ Len(parserq) <= ParserLength
  /\ rx_byte \in Byte \cup {None}
  /\ burst \in 0 .. MaxBurst
  /\ boot_lost \in Nat
  /\ count \in [Counter -> Nat]
  /\ choked \in BOOLEAN

\* What task_app may have to do for a request.
Job(r) == IF r \in {None, "ack", "dat"} THEN {}
          ELSE Foreign \cup {"answer", "count"} \cup
                 (IF r \in LedCommand THEN {"actuate"} ELSE {})

HandlingOK ==
  /\ parser.state \in {"WAIT_START", "READ_BODY", "EXPECT_END"}
  /\ parser_msg \in Request \cup {None}
  /\ appq \in Seq(Request) /\ Len(appq) <= AppLength
  /\ message \in Request \cup {None}
  /\ todo \in Seq(Job(message))
  /\ actuatorq \in Seq(LedCommand) /\ Len(actuatorq) <= ActuatorLength
  /\ txq \in Seq(Answer) /\ Len(txq) <= TxLength
  /\ led \in BOOLEAN

\* The pipeline's variables keep their types and its queues their lengths, and
\* the actuators are given the orders of LED commands only.
PipeTypeOK == ReceptionOK /\ HandlingOK

\* The counters that status? reports (app.c:128-135) account for every byte:
\* each one the ISR counted was dropped, is on its way or was parsed, except
\* for those that came before there was a queue.
EveryByteAccounted ==
  count["irq"] = boot_lost + count["qd"] + Held + count["pb"]

\* The numbers of one answer to status? fit together, although they are read
\* one after the other while bytes come in: no message is counted as handled
\* that is not counted as received, none has fewer than three bytes, and all
\* bytes are in the count of the ISR, but for those that came in meanwhile.
ReportAddsUp ==
  message = "status" /\ todo = <<"answer">> =>
    LET r == report
        meanwhile == count["irq"] - asked
    IN /\ count["rx"] <= r["pm"]
       /\ 3 * r["pm"] + r["pe"] <= r["pb"] + meanwhile
       /\ r["pb"] + r["qd"] <= r["irq"] + meanwhile

\* Bytes are lost at the entrance only, and only while the application holds
\* up the tasks in front of it: as long as bursts fit the ISR queue, the two
\* tasks of priority 3 keep up with the line.
DropOnlyWhenChoked == [][count'["qd"] > count["qd"] => choked]_rvars

\* The application handles requests that were sent, each at most once and in
\* their order, and misses none unless bytes were lost.
IsSubsequence(s, t) ==
  \E f \in [1 .. Len(s) -> 1 .. Len(t)] :
    /\ \A i \in 1 .. Len(s) : s[i] = t[f[i]]
    /\ \A i, j \in 1 .. Len(s) : i < j => f[i] < f[j]

HandledInOrder ==
  /\ IsSubsequence(handled, sent)
  /\ count["qd"] + boot_lost = 0 => IsPrefix(handled, sent)

\* parser.c:30-33: the parser starts over "para no perder la siguiente trama
\* valida", so that one lost byte never costs more than one request.
Quiet == /\ started /\ wire = <<>> /\ Inside = <<>> /\ parser_msg = None /\ appq = <<>>
LossCostsOneRequest == Quiet => Len(sent) - count["rx"] <= count["qd"] + boot_lost

\* The requests, of those handled, to answer and to give an order for.
ToAnswer == {n \in DOMAIN handled : Contains(Todo(handled[n]), "answer")}
ToOrder == {n \in DOMAIN handled : handled[n] \in LedCommand}
Place(n, S) == Cardinality({m \in S : m <= n})

\* Every request is answered once, in order, but for the last one, whose turn
\* may be yet to come; its order as well; and cmd=ok is not said before the
\* order for it is with the actuators.
AnsweredOnceInOrder ==
  LET out == answers \o txq
      done == orders \o actuatorq
      IsAnswered(n) == Place(n, ToAnswer) <= Len(out)
      IsOrdered(n) == Place(n, ToOrder) <= Len(done)
  IN /\ Cardinality(ToAnswer) \in Len(out) .. Len(out) + 1
     /\ Cardinality(ToOrder) \in Len(done) .. Len(done) + 1
     /\ \A n \in ToAnswer : IsAnswered(n) =>
          out[Place(n, ToAnswer)] = AnswerTo(handled[n])
     /\ \A n \in ToOrder : IsOrdered(n) => done[Place(n, ToOrder)] = handled[n]
     /\ \A n \in ToOrder : IsAnswered(n) => IsOrdered(n)

\* However the queues fill up, no task waits for ever on another one: all that
\* came in is handled, carried out and answered in the end.
Drains == <>[](Quiet /\ todo = <<>> /\ txq = <<>> /\ actuatorq = <<>>)

\* The reception of bytes implements the channel it promises to be.
Channel == INSTANCE ByteChannel WITH inside <- Inside, delivered <- delivered
ImplementsChannel == Channel!Spec
=============================================================================
