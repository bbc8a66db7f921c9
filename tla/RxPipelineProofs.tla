--------------------------- MODULE RxPipelineProofs ---------------------------
(***************************************************************************)
(* Theorems about the reception pipeline, for all lengths of its queues    *)
(* and any number of requests.                                             *)
(***************************************************************************)
EXTENDS RxPipeline, SequenceTheorems, TLAPS

-----------------------------------------------------------------------------
(* Queues and counters *)

LEMMA PutProperties ==
  ASSUME NEW S, NEW q \in Seq(S), NEW e \in S
  PROVE  Put(q, e) \in Seq(S) /\ Len(Put(q, e)) = Len(q) + 1 /\ Len(q) \in Nat
BY AppendProperties, LenProperties DEF Put

LEMMA TakeProperties ==
  ASSUME NEW S, NEW q \in Seq(S), q # <<>>
  PROVE  /\ Head(q) \in S /\ Tail(q) \in Seq(S)
         /\ Len(Tail(q)) = Len(q) - 1 /\ Len(q) \in Nat
BY HeadTailProperties, LenProperties

\* A queue with room for another element keeps within its length.
LEMMA PutWithin ==
  ASSUME NEW S, NEW q \in Seq(S), NEW e \in S, NEW length \in Nat, Room(q, length)
  PROVE  Put(q, e) \in Seq(S) /\ Len(Put(q, e)) <= length
<1>1. Len(q) < length
  BY DEF Room
<1> QED BY <1>1, PutProperties

LEMMA TakeWithin ==
  ASSUME NEW S, NEW q \in Seq(S), NEW length \in Nat, q # <<>>, Len(q) <= length
  PROVE  Tail(q) \in Seq(S) /\ Len(Tail(q)) <= length
BY TakeProperties

LEMMA CountedProperties ==
  ASSUME count \in [Counter -> Nat], NEW cs, Counted(cs)
  PROVE  /\ count' \in [Counter -> Nat]
         /\ \A c \in Counter : count'[c] = IF c \in cs THEN count[c] + 1 ELSE count[c]
BY DEF Counted

LEMMA Lengths ==
  /\ IsrLength \in Nat \ {0} /\ ParserLength \in Nat \ {0} /\ AppLength \in Nat \ {0}
  /\ TxLength \in Nat \ {0} /\ ActuatorLength \in Nat \ {0} /\ MaxBurst \in Nat
BY PipelineAssumption

-----------------------------------------------------------------------------
(* Types *)

LEMMA TypeInit == Init => PipeTypeOK
<1> SUFFICES ASSUME Init PROVE PipeTypeOK
  OBVIOUS
<1>1. \A S, q : q = <<>> => q \in Seq(S) /\ Len(q) = 0
  BY EmptySeq
<1>2. /\ wire \in Seq(Byte)
      /\ isrq \in Seq(Byte) /\ Len(isrq) = 0 /\ parserq \in Seq(Byte) /\ Len(parserq) = 0
      /\ appq \in Seq(Request) /\ Len(appq) = 0 /\ todo \in Seq(Job(message))
      /\ actuatorq \in Seq(LedCommand) /\ Len(actuatorq) = 0
      /\ txq \in Seq(Answer) /\ Len(txq) = 0
  BY <1>1, Zenon DEF Init
<1>3. ReceptionOK
  <2>1. count \in [Counter -> Nat]
    BY DEF Init
  <2>2. started \in BOOLEAN /\ choked \in BOOLEAN /\ rx_byte \in Byte \cup {None}
    BY Zenon DEF Init
  <2>3. burst \in 0 .. MaxBurst /\ boot_lost \in Nat
    BY Lengths DEF Init
  <2> QED BY <1>2, <2>1, <2>2, <2>3, Lengths DEF ReceptionOK
<1>4. HandlingOK
  <2>1. parser.state = "WAIT_START"
    BY DEF Init, Waiting
  <2>2. /\ parser_msg \in Request \cup {None} /\ message \in Request \cup {None}
        /\ led \in BOOLEAN
    BY Zenon DEF Init
  <2> QED BY <1>2, <2>1, <2>2, Lengths DEF HandlingOK
<1> QED BY <1>3, <1>4 DEF PipeTypeOK

\* The tasks behind the parser leave the reception alone but for its counters.
Downstream == AppTask \/ Actuate \/ Transmit

LEMMA DownstreamLeaves ==
  ASSUME count \in [Counter -> Nat], Downstream
  PROVE  /\ UNCHANGED <<lineVars, burst, rxVars, parserq, parserVars, choked>>
         /\ count' \in [Counter -> Nat]
         /\ count'["irq"] = count["irq"] /\ count'["qd"] = count["qd"]
         /\ count'["pb"] = count["pb"]
<1>1. UNCHANGED <<lineVars, burst, rxVars, parserq, parserVars, choked>>
  BY DEF Downstream, AppTask, AppTake, AppRead, AppActuate, AppAnswer, AppCount,
         AppDoes, Actuate, Transmit
<1>2. UNCHANGED count \/ Counted({"rx"}) \/ Counted({"ae"})
  BY DEF Downstream, AppTask, AppTake, AppRead, AppActuate, AppAnswer, AppCount,
         AppDoes, Actuate, Transmit
<1>3. "irq" \in Counter /\ "qd" \in Counter /\ "pb" \in Counter
  BY DEF Counter, Foreign
<1> QED BY <1>1, <1>2, <1>3, CountedProperties

LEMMA ReceptionStep == PipeTypeOK /\ [Next]_rvars => ReceptionOK'
<1> SUFFICES ASSUME PipeTypeOK, [Next]_rvars PROVE ReceptionOK'
  OBVIOUS
<1> USE Lengths
<1>r. ReceptionOK
  BY DEF PipeTypeOK
<1>1. ASSUME NEW r \in Requests, SendFrame(r) PROVE ReceptionOK'
  <2>1. Start \in Byte /\ End \in Byte /\ r \in Byte
    BY PipelineAssumption DEF Byte
  <2>2. wire' \in Seq(Byte)
    BY <1>1, <2>1 DEF SendFrame
  <2> QED BY <1>1, <1>r, <2>2 DEF SendFrame, ReceptionOK, rxVars
<1>2. CASE TasksStart
  BY <1>2, <1>r DEF TasksStart, ReceptionOK, rxVars
<1>3. CASE Isr
  <2>1. Head(wire) \in Byte /\ wire' \in Seq(Byte)
    BY <1>3, <1>r, TakeProperties DEF Isr, ReceptionOK
  <2>2. isrq' \in Seq(Byte) /\ Len(isrq') <= IsrLength
    BY <1>3, <1>r, <2>1, PutWithin DEF Isr, ReceptionOK
  <2>3. count' \in [Counter -> Nat]
    BY <1>3, <1>r, CountedProperties DEF Isr, ReceptionOK
  <2> QED BY <1>3, <1>r, <2>1, <2>2, <2>3 DEF Isr, ReceptionOK
<1>4. CASE CatchUp
  BY <1>4, <1>r DEF CatchUp, ReceptionOK, rxVars, lineVars
<1>5. CASE RxTake
  <2>1. Head(isrq) \in Byte /\ isrq' \in Seq(Byte) /\ Len(isrq') <= IsrLength
    BY <1>5, <1>r, TakeProperties, TakeWithin DEF RxTake, ReceptionOK
  <2> QED BY <1>5, <1>r, <2>1 DEF RxTake, ReceptionOK, lineVars
<1>6. CASE RxHand
  <2>1. parserq' \in Seq(Byte) /\ Len(parserq') <= ParserLength
    BY <1>6, <1>r, PutWithin DEF RxHand, ReceptionOK
  <2> QED BY <1>6, <1>r, <2>1 DEF RxHand, ReceptionOK, lineVars
<1>7. CASE ParserTake
  <2>1. parserq' \in Seq(Byte) /\ Len(parserq') <= ParserLength
    BY <1>7, <1>r, TakeWithin DEF ParserTake, ReceptionOK
  <2>2. count' \in [Counter -> Nat]
    BY <1>7, <1>r, CountedProperties DEF ParserTake, ReceptionOK
  <2>3. choked' \in BOOLEAN
    BY <1>7, <1>r DEF ParserTake, ReceptionOK
  <2> QED BY <1>7, <1>r, <2>1, <2>2, <2>3 DEF ParserTake, ReceptionOK, lineVars, rxVars
<1>8. CASE ParserHand
  BY <1>8, <1>r DEF ParserHand, ReceptionOK, lineVars, rxVars
<1>9. CASE Downstream
  BY <1>9, <1>r, DownstreamLeaves DEF ReceptionOK, lineVars, rxVars
<1>10. CASE UNCHANGED rvars
  BY <1>10, <1>r DEF rvars, ReceptionOK, lineVars, rxVars
<1> QED BY <1>1, <1>2, <1>3, <1>4, <1>5, <1>6, <1>7, <1>8, <1>9, <1>10
        DEF Next, RxTask, ParserTask, Finished, Downstream

\* parser_consume_byte gives out requests only, and stays in its states.
LEMMA ConsumeProperties ==
  ASSUME NEW p, NEW b, p.state \in {"WAIT_START", "READ_BODY", "EXPECT_END"}
  PROVE  /\ Consume(p, b).result = "MESSAGE_READY" => p.body \in Request
         /\ Consume(p, b).next.state \in {"WAIT_START", "READ_BODY", "EXPECT_END"}
<1>1. CASE p.state = "WAIT_START"
  BY <1>1 DEF Consume
<1>2. CASE p.state = "READ_BODY"
  BY <1>2 DEF Consume
<1>3. CASE p.state = "EXPECT_END"
  BY <1>3 DEF Consume, AfterFail, Waiting
<1> QED BY <1>1, <1>2, <1>3

LEMMA TodoProperties ==
  ASSUME NEW r \in Request
  PROVE  /\ Todo(r) \in Seq(Job(r))
         /\ r = "status" => \A reading \in ReadOrders : reading \o Todo(r) \in Seq(Job(r))
<1>1. CASE r \in LedCommand
  <2>1. Todo(r) = <<"actuate", "answer">>
    BY <1>1 DEF Todo, LedCommand
  <2>2. "actuate" \in Job(r) /\ "answer" \in Job(r)
    BY <1>1 DEF Job, LedCommand, None
  <2> QED BY <1>1, <2>1, <2>2 DEF LedCommand
<1>2. CASE r \in {"ping", "status"}
  <2>1. Todo(r) = <<"answer">> /\ "answer" \in Job(r)
    BY <1>2 DEF Todo, Job, LedCommand, None
  <2>2. Todo(r) \in Seq(Job(r))
    BY <2>1
  <2>3. ASSUME NEW reading \in ReadOrders PROVE reading \in Seq(Job(r))
    <3>1. Foreign \subseteq Job(r)
      BY <1>2 DEF Job, None
    <3>2. reading \in [1 .. 5 -> Job(r)]
      BY <3>1, PipelineAssumption
    <3> QED BY <3>2, SeqDef
  <2> QED BY <2>2, <2>3, ConcatProperties
<1>3. CASE r = "unknown"
  <2>1. Todo(r) = <<"answer", "count">>
    BY <1>3 DEF Todo, LedCommand
  <2>2. "answer" \in Job(r) /\ "count" \in Job(r)
    BY <1>3 DEF Job, None
  <2> QED BY <1>3, <2>1, <2>2
<1>4. CASE r \in {"ack", "dat"}
  <2>1. Todo(r) = <<>>
    BY <1>4 DEF Todo, LedCommand
  <2> QED BY <1>4, <2>1
<1> QED BY <1>1, <1>2, <1>3, <1>4 DEF Request

LEMMA NothingLeft == \A S, q : q = <<>> => q \in Seq(S)
BY EmptySeq

LEMMA HandlingStep == PipeTypeOK /\ [Next]_rvars => HandlingOK'
<1> SUFFICES ASSUME PipeTypeOK, [Next]_rvars PROVE HandlingOK'
  OBVIOUS
<1> USE Lengths
<1>h. HandlingOK
  BY DEF PipeTypeOK
<1>1. CASE UNCHANGED <<parser, parser_msg, appq, message, todo, actuatorq, txq, led>>
  BY <1>1, <1>h DEF HandlingOK
<1>2. CASE UNCHANGED rvars \/ (\E r \in Requests : SendFrame(r)) \/ TasksStart
           \/ Isr \/ CatchUp \/ RxTake \/ RxHand
  BY <1>1, <1>2 DEF rvars, SendFrame, TasksStart, Isr, CatchUp, RxTake, RxHand,
                    parserVars, appVars, txVars, actuatorVars
<1>3. CASE ParserTake
  <2>1. parser'.state \in {"WAIT_START", "READ_BODY", "EXPECT_END"}
    BY <1>3, <1>h, ConsumeProperties DEF ParserTake, HandlingOK
  <2>2. parser_msg' \in Request \cup {None}
    BY <1>3, <1>h, ConsumeProperties DEF ParserTake, HandlingOK
  <2> QED BY <1>3, <1>h, <2>1, <2>2
          DEF ParserTake, HandlingOK, appVars, txVars, actuatorVars
<1>4. CASE ParserHand
  <2>1. appq' \in Seq(Request) /\ Len(appq') <= AppLength
    BY <1>4, <1>h, PutWithin DEF ParserHand, HandlingOK
  <2> QED BY <1>4, <1>h, <2>1 DEF ParserHand, HandlingOK, appVars, txVars, actuatorVars
<1>5. CASE AppTake
  <2> DEFINE r == Head(appq)
  <2>1. r \in Request /\ appq' \in Seq(Request) /\ Len(appq') <= AppLength
    BY <1>5, <1>h, TakeProperties, TakeWithin DEF AppTake, HandlingOK
  <2>2. todo' \in Seq(Job(r))
    BY <1>5, <2>1, TodoProperties DEF AppTake
  <2>3. message' \in Request \cup {None} /\ todo' \in Seq(Job(message'))
    <3>1. CASE todo' = <<>>
      BY <1>5, <1>h, <3>1, EmptySeq DEF AppTake, HandlingOK
    <3>2. CASE todo' # <<>>
      BY <1>5, <2>1, <2>2, <3>2 DEF AppTake
    <3> QED BY <3>1, <3>2
  <2> QED BY <1>5, <1>h, <2>1, <2>3
          DEF AppTake, HandlingOK, parserVars, txVars, actuatorVars
<1>6. ASSUME NEW what, AppDoes(what)
      PROVE  /\ what \in Job(message) /\ UNCHANGED <<parser, parser_msg, appq, led>>
             /\ message' \in Request \cup {None} /\ todo' \in Seq(Job(message'))
  <2>1. what \in Job(message) /\ todo' \in Seq(Job(message))
    BY <1>6, <1>h, TakeProperties DEF AppDoes, HandlingOK
  <2>2. message' \in Request \cup {None}
    BY <1>6, <1>h DEF AppDoes, HandlingOK
  <2>3. todo' \in Seq(Job(message'))
    BY <1>6, <2>1, NothingLeft DEF AppDoes
  <2> QED BY <1>6, <2>1, <2>2, <2>3 DEF AppDoes, parserVars
<1>7. ASSUME NEW c \in Foreign, AppRead(c) PROVE HandlingOK'
  BY <1>6, <1>7, <1>h DEF AppRead, HandlingOK
<1>8. CASE AppActuate
  <2>1. message \in LedCommand
    BY <1>6, <1>8 DEF AppActuate, Job, Foreign
  <2>2. actuatorq' \in Seq(LedCommand) /\ Len(actuatorq') <= ActuatorLength
    BY <1>8, <1>h, <2>1, PutWithin DEF AppActuate, HandlingOK
  <2> QED BY <1>6, <1>8, <1>h, <2>2 DEF AppActuate, HandlingOK
<1>9. CASE AppAnswer
  <2>1. message \in Request \ {"ack", "dat"}
    BY <1>6, <1>8, <1>9, <1>h DEF AppAnswer, Job, HandlingOK
  <2>2. AnswerTo(message) \in Answer
    BY <2>1 DEF AnswerTo, Answer, Request, LedCommand
  <2>3. txq' \in Seq(Answer) /\ Len(txq') <= TxLength
    BY <1>9, <1>h, <2>2, PutWithin DEF AppAnswer, HandlingOK
  <2> QED BY <1>6, <1>9, <1>h, <2>3 DEF AppAnswer, HandlingOK
<1>10. CASE AppCount
  BY <1>6, <1>10, <1>h DEF AppCount, HandlingOK
<1>11. CASE Actuate
  <2>1. Head(actuatorq) \in LedCommand /\ actuatorq' \in Seq(LedCommand)
        /\ Len(actuatorq') <= ActuatorLength
    BY <1>11, <1>h, TakeProperties, TakeWithin DEF Actuate, HandlingOK
  <2>2. led' \in BOOLEAN
    BY <1>11, <1>h, <2>1 DEF Actuate, HandlingOK, LedAfter, LedCommand
  <2> QED BY <1>11, <1>h, <2>1, <2>2 DEF Actuate, HandlingOK, parserVars, appVars, txVars
<1>12. CASE Transmit
  <2>1. txq' \in Seq(Answer) /\ Len(txq') <= TxLength
    BY <1>12, <1>h, TakeWithin DEF Transmit, HandlingOK
  <2> QED BY <1>12, <1>h, <2>1
          DEF Transmit, HandlingOK, parserVars, appVars, actuatorVars
<1> QED BY <1>2, <1>3, <1>4, <1>5, <1>7, <1>8, <1>9, <1>10, <1>11, <1>12
        DEF Next, RxTask, ParserTask, AppTask, Finished

\* For all lengths of the queues: every one of them keeps within its length and
\* holds nothing but what its reader understands.
THEOREM PipeTypes == Spec => []PipeTypeOK
<1>1. PipeTypeOK /\ [Next]_rvars => PipeTypeOK'
  BY ReceptionStep, HandlingStep DEF PipeTypeOK
<1> QED BY <1>1, TypeInit, PTL DEF Spec

-----------------------------------------------------------------------------
(* Bytes *)

\* The number of bytes held, by where they are.
Carrying(b) == IF b = None THEN 0 ELSE 1

LEMMA HeldIs ==
  ASSUME ReceptionOK
  PROVE  /\ Len(parserq) \in Nat /\ Len(isrq) \in Nat /\ Carrying(rx_byte) \in Nat
         /\ Held = Len(parserq) + Carrying(rx_byte) + Len(isrq)
<1>1. Len(parserq) \in Nat /\ Len(isrq) \in Nat
  BY LenProperties DEF ReceptionOK
<1>2. CASE rx_byte = None
  BY <1>1, <1>2 DEF Held, Carried, Carrying
<1>3. CASE rx_byte # None
  BY <1>1, <1>3 DEF Held, Carried, Carrying
<1> QED BY <1>2, <1>3

LEMMA Balance ==
  ASSUME NEW i \in Nat, NEW l \in Nat, NEW d \in Nat, NEW h \in Nat, NEW p \in Nat,
         i = l + d + h + p
  PROVE  /\ i + 1 = (l + 1) + d + h + p
         /\ i + 1 = l + (d + 1) + h + p
         /\ i + 1 = l + d + (h + 1) + p
         /\ i = l + d + (h - 1) + (p + 1)
OBVIOUS

LEMMA AccountStep == PipeTypeOK /\ EveryByteAccounted /\ [Next]_rvars => EveryByteAccounted'
<1> SUFFICES ASSUME PipeTypeOK, EveryByteAccounted, [Next]_rvars PROVE EveryByteAccounted'
  OBVIOUS
<1>r. ReceptionOK /\ ReceptionOK'
  BY ReceptionStep DEF PipeTypeOK
<1>h. /\ Len(parserq) \in Nat /\ Len(isrq) \in Nat /\ Carrying(rx_byte) \in Nat
      /\ Held = Len(parserq) + Carrying(rx_byte) + Len(isrq)
  BY <1>r, HeldIs
<1>i. /\ Len(parserq') \in Nat /\ Len(isrq') \in Nat /\ Carrying(rx_byte') \in Nat
      /\ Held' = Len(parserq') + Carrying(rx_byte') + Len(isrq')
  <2>1. Len(parserq') \in Nat /\ Len(isrq') \in Nat
    BY <1>r, LenProperties DEF ReceptionOK
  <2>2. CASE rx_byte' = None
    BY <2>1, <2>2 DEF Held, Carried, Carrying
  <2>3. CASE rx_byte' # None
    BY <2>1, <2>3 DEF Held, Carried, Carrying
  <2> QED BY <2>2, <2>3
<1>c. /\ "irq" \in Counter /\ "qd" \in Counter /\ "pb" \in Counter
      /\ count["irq"] \in Nat /\ count["qd"] \in Nat /\ count["pb"] \in Nat
      /\ boot_lost \in Nat
  BY <1>r DEF Counter, Foreign, ReceptionOK
<1>e. count["irq"] = boot_lost + count["qd"] + Held + count["pb"]
  BY DEF EveryByteAccounted
<1>b. /\ count["irq"] + 1 = (boot_lost + 1) + count["qd"] + Held + count["pb"]
      /\ count["irq"] + 1 = boot_lost + (count["qd"] + 1) + Held + count["pb"]
      /\ count["irq"] + 1 = boot_lost + count["qd"] + (Held + 1) + count["pb"]
      /\ count["irq"] = boot_lost + count["qd"] + (Held - 1) + (count["pb"] + 1)
  <2>1. Held \in Nat
    BY <1>h
  <2> QED BY <1>c, <1>e, <2>1, Balance
<1>g. SUFFICES count'["irq"] = boot_lost' + count'["qd"] + Held' + count'["pb"]
  BY DEF EveryByteAccounted
<1>1. CASE UNCHANGED <<isrq, parserq, rx_byte, boot_lost>>
           /\ count'["irq"] = count["irq"] /\ count'["qd"] = count["qd"]
           /\ count'["pb"] = count["pb"]
  <2>1. Held' = Held
    BY <1>1, <1>h, <1>i
  <2> QED BY <1>1, <1>e, <2>1
<1>2. CASE UNCHANGED rvars \/ (\E r \in Requests : SendFrame(r)) \/ TasksStart
           \/ CatchUp \/ ParserHand
  BY <1>1, <1>2 DEF rvars, lineVars, rxVars, SendFrame, TasksStart, CatchUp, ParserHand
<1>3. CASE Isr
  <2>1. /\ UNCHANGED <<parserq, rx_byte>> /\ count'["irq"] = count["irq"] + 1
        /\ count'["pb"] = count["pb"]
    BY <1>3, <1>c, <1>r, CountedProperties DEF Isr, Arrival, ReceptionOK
  <2>2. CASE ~started
    <3>1. isrq' = isrq /\ boot_lost' = boot_lost + 1 /\ count'["qd"] = count["qd"]
      BY <1>3, <1>c, <1>r, <2>2, CountedProperties DEF Isr, Arrival, ReceptionOK
    <3>2. Held' = Held
      BY <1>h, <1>i, <2>1, <3>1
    <3> QED BY <1>b, <2>1, <3>1, <3>2
  <2>3. CASE started /\ Room(isrq, IsrLength)
    <3>1. boot_lost' = boot_lost /\ count'["qd"] = count["qd"]
      BY <1>3, <1>c, <1>r, <2>3, CountedProperties DEF Isr, Arrival, ReceptionOK
    <3>2. Len(isrq') = Len(isrq) + 1
      BY <1>3, <1>r, <2>3, PutProperties, TakeProperties DEF Isr, ReceptionOK
    <3>3. Held' = Held + 1
      BY <1>h, <1>i, <2>1, <3>2
    <3> QED BY <1>b, <2>1, <3>1, <3>3
  <2>4. CASE started /\ ~Room(isrq, IsrLength)
    <3>1. isrq' = isrq /\ boot_lost' = boot_lost /\ count'["qd"] = count["qd"] + 1
      BY <1>3, <1>c, <1>r, <2>4, CountedProperties DEF Isr, Arrival, ReceptionOK
    <3>2. Held' = Held
      BY <1>h, <1>i, <2>1, <3>1
    <3> QED BY <1>b, <2>1, <3>1, <3>2
  <2> QED BY <2>2, <2>3, <2>4
<1>4. CASE RxTake
  <2>1. Len(isrq') = Len(isrq) - 1 /\ rx_byte = None /\ rx_byte' \in Byte
    BY <1>4, <1>r, TakeProperties DEF RxTake, ReceptionOK
  <2>2. rx_byte' # None
    BY <2>1 DEF Byte, Request, LedCommand, Start, End, None
  <2>3. Carrying(rx_byte) = 0 /\ Carrying(rx_byte') = 1
    BY <2>1, <2>2 DEF Carrying
  <2>4. UNCHANGED <<boot_lost, parserq, count>>
    BY <1>4 DEF RxTake, lineVars
  <2>5. Held' = Held
    BY <1>h, <1>i, <2>1, <2>3, <2>4
  <2> QED BY <1>e, <2>4, <2>5
<1>5. CASE RxHand
  <2>1. Len(parserq') = Len(parserq) + 1
    BY <1>5, <1>r, PutProperties DEF RxHand, ReceptionOK
  <2>2. Carrying(rx_byte) = 1 /\ Carrying(rx_byte') = 0
    BY <1>5 DEF RxHand, Carrying
  <2>3. UNCHANGED <<boot_lost, isrq, count>>
    BY <1>5 DEF RxHand, lineVars
  <2>4. Held' = Held
    BY <1>h, <1>i, <2>1, <2>2, <2>3
  <2> QED BY <1>e, <2>3, <2>4
<1>6. CASE ParserTake
  <2>1. Len(parserq') = Len(parserq) - 1
    BY <1>6, <1>r, TakeProperties DEF ParserTake, ReceptionOK
  <2>2. UNCHANGED <<boot_lost, isrq, rx_byte>>
    BY <1>6 DEF ParserTake, lineVars, rxVars
  <2>3. /\ count'["pb"] = count["pb"] + 1 /\ count'["irq"] = count["irq"]
        /\ count'["qd"] = count["qd"]
    <3>1. PICK cs \in SUBSET {"pm", "pe"} : Counted({"pb"} \cup cs)
      <4> DEFINE step == Consume(parser, Head(parserq))
                 ms == IF step.result = "MESSAGE_READY" THEN {"pm"} ELSE {}
                 es == IF step.result = "ERROR" THEN {"pe"} ELSE {}
      <4>1. Counted({"pb"} \cup ms \cup es)
        BY <1>6, Zenon DEF ParserTake
      <4>2. ms \cup es \in SUBSET {"pm", "pe"} /\ {"pb"} \cup ms \cup es = {"pb"} \cup (ms \cup es)
        OBVIOUS
      <4> HIDE DEF ms, es
      <4>3. Counted({"pb"} \cup (ms \cup es))
        BY <4>1, <4>2
      <4> QED BY <4>2, <4>3
    <3> QED BY <1>c, <1>r, <3>1, CountedProperties DEF ReceptionOK
  <2>4. Held' = Held - 1
    BY <1>h, <1>i, <2>1, <2>2
  <2> QED BY <1>b, <2>2, <2>3, <2>4
<1>7. CASE Downstream
  BY <1>1, <1>7, <1>r, DownstreamLeaves DEF ReceptionOK, lineVars, rxVars
<1> QED BY <1>2, <1>3, <1>4, <1>5, <1>6, <1>7
        DEF Next, RxTask, ParserTask, Finished, Downstream

\* For all lengths of the queues: each byte the ISR counted was dropped, came
\* before there was a queue, is on its way or was given to the parser.
THEOREM BytesAccounted == Spec => []EveryByteAccounted
<1>1. Init => EveryByteAccounted
  BY EmptySeq DEF Init, EveryByteAccounted, Held, Carried, Counter, Foreign
<1> QED BY <1>1, AccountStep, PipeTypes, PTL DEF Spec

-----------------------------------------------------------------------------
(* Drops *)

\* The ISR queue holds no more than came in since the tasks last caught up,
\* unless the application held them up.
BurstInv ==
  /\ ~started => isrq = <<>>
  /\ ~choked => Len(isrq) <= burst

LEMMA CaughtUp ==
  ASSUME PipeTypeOK, started, ~Preempted, parser_msg = None
  PROVE  isrq = <<>>
<1>1. parserq = <<>>
  BY DEF Preempted, ParserReady
<1>2. Room(parserq, ParserLength)
  BY <1>1, EmptySeq, Lengths DEF Room
<1> QED BY <1>2 DEF Preempted, RxReady

LEMMA BurstStep == PipeTypeOK /\ BurstInv /\ [Next]_rvars => BurstInv'
<1> SUFFICES ASSUME PipeTypeOK, BurstInv, [Next]_rvars PROVE BurstInv'
  OBVIOUS
<1>r. ReceptionOK
  BY DEF PipeTypeOK
<1>n. Len(isrq) \in Nat /\ burst \in Nat /\ (isrq = <<>> => Len(isrq) = 0)
  BY <1>r, LenProperties, EmptySeq, Lengths DEF ReceptionOK
<1>1. CASE UNCHANGED <<started, isrq, burst>> /\ (choked => choked')
  BY <1>1 DEF BurstInv
<1>2. CASE UNCHANGED rvars \/ (\E r \in Requests : SendFrame(r)) \/ RxHand \/ ParserHand
  BY <1>1, <1>2 DEF rvars, lineVars, rxVars, SendFrame, RxHand, ParserHand
<1>p. CASE ParserTake
  <2>1. choked => choked'
    BY <1>p, Zenon DEF ParserTake
  <2> QED BY <1>1, <1>p, <2>1 DEF ParserTake, lineVars, rxVars
<1>3. CASE TasksStart
  BY <1>3, <1>n DEF TasksStart, BurstInv, rxVars
<1>4. CASE Isr
  <2>1. isrq' = isrq \/ (started /\ Len(isrq') = Len(isrq) + 1)
    BY <1>4, <1>r, PutProperties, TakeProperties DEF Isr, ReceptionOK
  <2>2. UNCHANGED <<started, choked>> /\ burst' = IF started THEN burst + 1 ELSE burst
    BY <1>4 DEF Isr
  <2> QED BY <1>4, <1>n, <2>1, <2>2 DEF Isr, BurstInv
<1>5. CASE CatchUp
  <2>1. UNCHANGED <<started, isrq>> /\ burst' = 0 /\ choked' = (parser_msg # None)
    BY <1>5 DEF CatchUp, lineVars, rxVars
  <2>2. ~choked' => isrq = <<>>
    BY <1>5, <2>1, CaughtUp DEF CatchUp, BurstInv
  <2> QED BY <1>n, <2>1, <2>2 DEF BurstInv
<1>6. CASE RxTake
  <2>1. Len(isrq') = Len(isrq) - 1 /\ started /\ UNCHANGED <<started, burst, choked>>
    BY <1>6, <1>r, TakeProperties DEF RxTake, ReceptionOK, lineVars
  <2> QED BY <1>n, <2>1 DEF BurstInv
<1>7. CASE Downstream
  BY <1>1, <1>7, <1>r, DownstreamLeaves DEF ReceptionOK, lineVars, rxVars
<1> QED BY <1>2, <1>p, <1>3, <1>4, <1>5, <1>6, <1>7
        DEF Next, RxTask, ParserTask, Finished, Downstream

\* For all lengths of the queues: as long as no burst is longer than the ISR
\* queue, a byte is dropped only while a full application queue holds up the
\* two tasks in front of it.
THEOREM DropsOnlyWhenChoked ==
  ASSUME MaxBurst <= IsrLength
  PROVE  Spec => DropOnlyWhenChoked
<1> DEFINE Step == count'["qd"] > count["qd"] => choked
<1>1. Init => BurstInv
  BY EmptySeq DEF Init, BurstInv
<1>2. PipeTypeOK /\ BurstInv /\ [Next]_rvars => [Step]_rvars
  <2> SUFFICES ASSUME PipeTypeOK, BurstInv, [Next]_rvars, ~UNCHANGED rvars PROVE Step
    OBVIOUS
  <2>r. ReceptionOK
    BY DEF PipeTypeOK
  <2>c. "qd" \in Counter /\ count["qd"] \in Nat
    BY <2>r DEF Counter, Foreign, ReceptionOK
  <2>1. CASE Isr
    <3>1. CASE started /\ ~Room(isrq, IsrLength)
      <4>1. Len(isrq) \in Nat /\ ~(Len(isrq) < IsrLength) /\ burst < MaxBurst /\ burst \in Nat
        BY <2>r, <2>1, <3>1, LenProperties, Lengths DEF Isr, Room, ReceptionOK
      <4>2. ~(Len(isrq) <= burst)
        BY <4>1, Lengths
      <4> QED BY <4>2 DEF BurstInv
    <3>2. CASE ~(started /\ ~Room(isrq, IsrLength))
      <4>1. count'["qd"] = count["qd"]
        BY <2>r, <2>c, <2>1, <3>2, CountedProperties DEF Isr, Arrival, ReceptionOK
      <4> QED BY <2>c, <4>1
    <3> QED BY <3>1, <3>2
  <2>2. CASE ~Isr
    <3>1. count'["qd"] = count["qd"]
      <4>1. CASE ParserTake
        BY <2>r, <2>c, <4>1, CountedProperties DEF ParserTake, ReceptionOK
      <4>2. CASE Downstream
        BY <2>r, <4>2, DownstreamLeaves DEF ReceptionOK
      <4>3. CASE ~ParserTake /\ ~Downstream
        BY <2>2, <4>3 DEF Next, RxTask, ParserTask, Downstream, rvars, SendFrame,
                          TasksStart, CatchUp, RxTake, RxHand, ParserHand, Finished
      <4> QED BY <4>1, <4>2, <4>3
    <3> QED BY <2>c, <3>1
  <2> QED BY <2>1, <2>2
<1> QED BY <1>1, <1>2, BurstStep, PipeTypes, PTL DEF Spec, DropOnlyWhenChoked

-----------------------------------------------------------------------------
(* The channel.  `Inside` is the concatenation of two queues and of the byte  *)
(* between them.                                                             *)

LEMMA AppendBehind ==
  ASSUME NEW S, NEW s \in Seq(S), NEW t \in Seq(S), NEW e \in S
  PROVE  s \o Append(t, e) = Append(s \o t, e)
<1>1. s \o t \in Seq(S) /\ <<e>> \in Seq(S)
  BY ConcatProperties
<1>2. Append(s \o t, e) = (s \o t) \o <<e>> /\ Append(t, e) = t \o <<e>>
  BY <1>1, AppendIsConcat
<1> QED BY <1>1, <1>2, ConcatAssociative

LEMMA TailOfConcat ==
  ASSUME NEW S, NEW s \in Seq(S), NEW t \in Seq(S), s # <<>>
  PROVE  s \o t # <<>> /\ Head(s \o t) = Head(s) /\ Tail(s \o t) = Tail(s) \o t
<1>1. /\ Tail(s) \in Seq(S) /\ Len(Tail(s)) = Len(s) - 1 /\ Len(s) \in Nat \ {0}
      /\ Len(t) \in Nat
  BY HeadTailProperties, EmptySeq, LenProperties
<1>2. /\ s \o t \in Seq(S) /\ Len(s \o t) = Len(s) + Len(t)
      /\ \A i \in 1 .. Len(s) + Len(t) :
           (s \o t)[i] = IF i <= Len(s) THEN s[i] ELSE t[i - Len(s)]
  BY ConcatProperties
<1>3. s \o t # <<>>
  BY ConcatEqualIffEmpty
<1>4. Head(s \o t) = Head(s)
  <2>1. Head(s \o t) = (s \o t)[1] /\ Head(s) = s[1]
    OBVIOUS
  <2> QED BY <1>1, <1>2, <2>1
<1>5. /\ Tail(s \o t) \in Seq(S) /\ Len(Tail(s \o t)) = Len(s) + Len(t) - 1
      /\ \A i \in 1 .. Len(Tail(s \o t)) : Tail(s \o t)[i] = (s \o t)[i + 1]
  BY <1>2, <1>3, HeadTailProperties
<1>6. /\ Tail(s) \o t \in Seq(S) /\ Len(Tail(s) \o t) = Len(s) + Len(t) - 1
      /\ \A i \in 1 .. Len(s) + Len(t) - 1 :
           (Tail(s) \o t)[i] = IF i <= Len(s) - 1 THEN Tail(s)[i] ELSE t[i - (Len(s) - 1)]
  BY <1>1, ConcatProperties
<1>7. \A i \in 1 .. Len(Tail(s)) : Tail(s)[i] = s[i + 1]
  BY HeadTailProperties
<1>8. ASSUME NEW i \in 1 .. Len(Tail(s \o t))
      PROVE  Tail(s \o t)[i] = (Tail(s) \o t)[i]
  <2>1. i \in 1 .. Len(s) + Len(t) - 1 /\ i + 1 \in 1 .. Len(s) + Len(t)
    BY <1>1, <1>5
  <2>2. Tail(s \o t)[i] = IF i + 1 <= Len(s) THEN s[i + 1] ELSE t[i + 1 - Len(s)]
    BY <1>2, <1>5, <2>1
  <2>3. CASE i + 1 <= Len(s)
    <3>1. i \in 1 .. Len(Tail(s)) /\ i <= Len(s) - 1
      BY <1>1, <2>1, <2>3
    <3> QED BY <1>6, <1>7, <2>1, <2>2, <2>3, <3>1
  <2>4. CASE ~(i + 1 <= Len(s))
    <3>1. ~(i <= Len(s) - 1) /\ i - (Len(s) - 1) = i + 1 - Len(s)
      BY <1>1, <2>1, <2>4
    <3> QED BY <1>6, <2>1, <2>2, <2>4, <3>1
  <2> QED BY <2>3, <2>4
<1> QED BY <1>3, <1>4, <1>5, <1>6, <1>8, SeqEqual

\* A byte that moves from one queue to the next stays where it was in line.
LEMMA HandedOn ==
  ASSUME NEW S, NEW s \in Seq(S), NEW t \in Seq(S), t # <<>>
  PROVE  s \o <<Head(t)>> \o Tail(t) = s \o t
<1>1. Head(t) \in S /\ Tail(t) \in Seq(S)
  BY HeadTailProperties
<1>2. <<Head(t)>> \in Seq(S) /\ <<Head(t)>> # <<>>
  BY <1>1
<1>3. Head(<<Head(t)>>) = Head(t) /\ Tail(<<Head(t)>>) = <<>>
  OBVIOUS
<1>4. <<Head(t)>> \o Tail(t) = t
  <2>1. /\ Len(t) \in Nat \ {0} /\ Len(Tail(t)) = Len(t) - 1
        /\ \A i \in 1 .. Len(Tail(t)) : Tail(t)[i] = t[i + 1]
    BY HeadTailProperties, EmptySeq
  <2>2. /\ <<Head(t)>> \o Tail(t) \in Seq(S) /\ Len(<<Head(t)>> \o Tail(t)) = Len(t)
        /\ \A i \in 1 .. Len(t) : (<<Head(t)>> \o Tail(t))[i]
                                    = IF i <= 1 THEN <<Head(t)>>[i] ELSE Tail(t)[i - 1]
    BY <1>1, <1>2, <2>1, ConcatProperties
  <2>3. Head(t) = t[1]
    OBVIOUS
  <2>4. ASSUME NEW i \in 1 .. Len(t)
        PROVE  (<<Head(t)>> \o Tail(t))[i] = t[i]
    <3>1. CASE i = 1
      BY <2>1, <2>2, <2>3, <3>1
    <3>2. CASE i # 1
      <4>1. i - 1 \in 1 .. Len(Tail(t)) /\ ~(i <= 1)
        BY <2>1, <3>2
      <4> QED BY <2>1, <2>2, <4>1
    <3> QED BY <3>1, <3>2
  <2> QED BY <2>2, <2>4, SeqEqual
<1> QED BY <1>1, <1>2, <1>4, ConcatAssociative


LEMMA CarriedIsSeq == ASSUME ReceptionOK PROVE Carried \in Seq(Byte)
<1>1. CASE rx_byte = None
  BY <1>1, EmptySeq DEF Carried
<1>2. CASE rx_byte # None
  BY <1>2 DEF Carried, ReceptionOK
<1> QED BY <1>1, <1>2

\* Every byte moves through the reception as through one channel: taken in
\* behind the others or lost on the spot, and given to the parser in its turn.
LEMMA ChannelStep ==
  PipeTypeOK /\ [Next]_rvars => [Channel!Next]_(Channel!vars)
<1> SUFFICES ASSUME PipeTypeOK, [Next]_rvars PROVE [Channel!Next]_(Channel!vars)
  OBVIOUS
<1>r. /\ ReceptionOK /\ parserq \in Seq(Byte) /\ isrq \in Seq(Byte)
      /\ Carried \in Seq(Byte) /\ parserq \o Carried \in Seq(Byte)
  BY CarriedIsSeq, ConcatProperties DEF PipeTypeOK, ReceptionOK
<1>1. CASE UNCHANGED <<parserq, rx_byte, isrq, delivered>>
  BY <1>1 DEF Channel!vars, Inside, Carried
<1>2. CASE \/ UNCHANGED rvars \/ (\E q \in Requests : SendFrame(q))
           \/ TasksStart \/ CatchUp \/ ParserHand
  BY <1>1, <1>2 DEF rvars, rxVars, parserVars, SendFrame, TasksStart, CatchUp, ParserHand
<1>3. CASE Isr
  <2>1. UNCHANGED <<parserq, rx_byte, delivered>>
    BY <1>3 DEF Isr, parserVars
  <2>2. CASE isrq' = isrq
    BY <1>1, <2>1, <2>2
  <2>3. CASE isrq' # isrq
    <3>1. isrq' = Append(isrq, Head(wire)) /\ wire \in Seq(Byte) /\ wire # <<>>
      BY <1>3, <1>r, <2>3 DEF Isr, Put, ReceptionOK
    <3>2. Head(wire) \in Byte
      BY <3>1, HeadTailProperties
    <3>3. Inside' = Append(Inside, Head(wire))
      <4>1. Inside' = (parserq \o Carried) \o Append(isrq, Head(wire))
        BY <2>1, <3>1 DEF Inside, Carried
      <4>2. (parserq \o Carried) \o Append(isrq, Head(wire))
              = Append((parserq \o Carried) \o isrq, Head(wire))
        BY <1>r, <3>2, AppendBehind
      <4> QED BY <4>1, <4>2 DEF Inside
    <3> QED BY <2>1, <3>2, <3>3 DEF Channel!Next, Channel!TakeIn
  <2> QED BY <2>2, <2>3
<1>4. CASE RxTake
  <2>1. /\ UNCHANGED <<parserq, delivered>> /\ rx_byte = None /\ isrq # <<>>
        /\ rx_byte' = Head(isrq) /\ isrq' = Tail(isrq)
    BY <1>4 DEF RxTake, parserVars
  <2>2. Head(isrq) # None
    BY <1>r, <2>1, HeadTailProperties DEF Byte, Request, LedCommand, Start, End, None
  <2>3. Carried = <<>> /\ Carried' = <<Head(isrq)>>
    BY <2>1, <2>2 DEF Carried
  <2>4. Inside = parserq \o isrq /\ Inside' = parserq \o <<Head(isrq)>> \o Tail(isrq)
    BY <1>r, <2>1, <2>3, ConcatEmptySeq DEF Inside
  <2>5. Inside' = Inside
    BY <1>r, <2>1, <2>4, HandedOn
  <2> QED BY <2>1, <2>5 DEF Channel!vars
<1>5. CASE RxHand
  <2>1. /\ UNCHANGED <<isrq, delivered>> /\ rx_byte # None /\ rx_byte' = None
        /\ parserq' = Append(parserq, rx_byte) /\ rx_byte \in Byte
    BY <1>5, <1>r DEF RxHand, Put, parserVars, ReceptionOK
  <2>2. Carried = <<rx_byte>> /\ Carried' = <<>>
    BY <2>1 DEF Carried
  <2>3. parserq' = parserq \o Carried
    BY <1>r, <2>1, <2>2, AppendIsConcat
  <2>4. parserq' \o Carried' = parserq \o Carried
    BY <1>r, <2>2, <2>3, ConcatEmptySeq
  <2> QED BY <2>1, <2>4 DEF Channel!vars, Inside
<1>6. CASE ParserTake
  <2>1. /\ UNCHANGED <<isrq, rx_byte>> /\ parserq # <<>>
        /\ parserq' = Tail(parserq) /\ delivered' = Head(parserq)
    BY <1>6 DEF ParserTake, rxVars
  <2>2. /\ parserq \o Carried # <<>> /\ Head(parserq \o Carried) = Head(parserq)
        /\ Tail(parserq \o Carried) = Tail(parserq) \o Carried
    BY <1>r, <2>1, TailOfConcat
  <2>3. /\ Inside # <<>> /\ Head(Inside) = Head(parserq)
        /\ Tail(Inside) = Tail(parserq) \o Carried \o isrq
    BY <1>r, <2>2, TailOfConcat DEF Inside
  <2>4. Inside' = Tail(Inside)
    BY <2>1, <2>3 DEF Inside, Carried
  <2> QED BY <2>1, <2>3, <2>4 DEF Channel!Next, Channel!Deliver
<1>7. CASE Downstream
  BY <1>1, <1>7, <1>r, DownstreamLeaves DEF ReceptionOK, rxVars, parserVars
<1> QED BY <1>2, <1>3, <1>4, <1>5, <1>6, <1>7
        DEF Next, RxTask, ParserTask, Finished, Downstream

\* For all lengths of the queues: initial states and steps of the pipeline are
\* those of ByteChannel.  (That nothing stays inside for ever is liveness.)
THEOREM ChannelImplemented == Spec => Channel!Init /\ [][Channel!Next]_(Channel!vars)
<1>1. Init => Channel!Init
  BY EmptySeq, ConcatEmptySeq, Zenon
     DEF Init, Channel!Init, Channel!NoByte, None, Inside, Carried
<1> QED BY <1>1, ChannelStep, PipeTypes, PTL DEF Spec

-----------------------------------------------------------------------------
(* Why it drains *)

\* What is left to do, in steps of the tasks at most: each weight is at least
\* one more than that of what the step makes of it, and a request may have five
\* counters to read and an answer to give.
Intake == 20 * Len(isrq) + 19 * Carrying(rx_byte) + 18 * Len(parserq)
Handling == 17 * Carrying(parser_msg) + 16 * Len(appq) + 2 * Len(todo)
Output == Len(actuatorq) + Len(txq)
Work == Intake + Handling + Output

\* Some task waits neither for an item nor for room: the guards of RxTask,
\* ParserTask, AppTask, Actuate and Transmit. Those of priority 2 give way to the
\* first two only, so that some task runs.
TaskReady ==
  \/ RxReady \/ ParserReady
  \/ todo = <<>> /\ appq # <<>>
  \/ /\ todo # <<>>
     /\ (Head(todo) = "actuate" => Room(actuatorq, ActuatorLength))
     /\ (Head(todo) = "answer" => Room(txq, TxLength))
  \/ actuatorq # <<>> \/ txq # <<>>

Task == RxTask \/ ParserTask \/ AppTask \/ Actuate \/ Transmit

\* Before the queues are there nothing is in them.
Empty == /\ isrq = <<>> /\ rx_byte = None /\ parserq = <<>> /\ parser_msg = None
         /\ appq = <<>> /\ todo = <<>> /\ actuatorq = <<>> /\ txq = <<>>
AsleepInv == ~started => Empty

LEMMA WorkIs ==
  ASSUME PipeTypeOK
  PROVE  /\ Len(isrq) \in Nat /\ Len(parserq) \in Nat /\ Len(appq) \in Nat
         /\ Len(todo) \in Nat /\ Len(actuatorq) \in Nat /\ Len(txq) \in Nat
         /\ Carrying(rx_byte) \in {0, 1} /\ Carrying(parser_msg) \in {0, 1}
         /\ Intake \in Nat /\ Handling \in Nat /\ Output \in Nat /\ Work \in Nat
<1>1. /\ Len(isrq) \in Nat /\ Len(parserq) \in Nat /\ Len(appq) \in Nat
      /\ Len(todo) \in Nat /\ Len(actuatorq) \in Nat /\ Len(txq) \in Nat
  BY LenProperties DEF PipeTypeOK, ReceptionOK, HandlingOK
<1>2. Carrying(rx_byte) \in {0, 1} /\ Carrying(parser_msg) \in {0, 1}
  BY DEF Carrying
<1>3. Carrying(rx_byte) \in Nat /\ Carrying(parser_msg) \in Nat
  BY <1>2
<1>4. \A a, b, c \in Nat : /\ 20 * a + 19 * b + 18 * c \in Nat
                            /\ 17 * a + 16 * b + 2 * c \in Nat
                            /\ a + b \in Nat /\ a + b + c \in Nat
  OBVIOUS
<1>5. Intake \in Nat /\ Handling \in Nat /\ Output \in Nat
  BY <1>1, <1>3, <1>4, Zenon DEF Intake, Handling, Output
<1>6. Work \in Nat
  BY <1>4, <1>5, Zenon DEF Work
<1> QED BY <1>1, <1>2, <1>5, <1>6

\* Nothing is left to do only where nothing is.
LEMMA NoWork ==
  ASSUME PipeTypeOK, Empty
  PROVE  Work = 0
<1>1. Len(<<>>) = 0
  BY EmptySeq
<1> QED BY <1>1 DEF Empty, Work, Intake, Handling, Output, Carrying

\* A sequence of five.
LEMMA FiveLong ==
  ASSUME NEW S, NEW s \in [1 .. 5 -> S]
  PROVE  s \in Seq(S) /\ Len(s) = 5
<1>1. s \in Seq(S)
  BY SeqDef
<1>2. 1 .. Len(s) = 1 .. 5 /\ Len(s) \in Nat
  BY <1>1, LenProperties
<1>3. \A n \in Nat : 1 .. n = 1 .. 5 => n = 5
  <2> SUFFICES ASSUME NEW n \in Nat, 1 .. n = 1 .. 5 PROVE n = 5
    OBVIOUS
  <2>1. 5 \in 1 .. n /\ n + 1 \notin 1 .. 5
    OBVIOUS
  <2> QED BY <2>1
<1> QED BY <1>1, <1>2, <1>3

\* What a request gives task_app to do.
LEMMA TodoIsShort ==
  ASSUME NEW r \in Request
  PROVE  /\ Len(Todo(r)) \in 0 .. 2
         /\ r = "status" => \A reading \in ReadOrders : Len(reading \o Todo(r)) = 6
<1>1. CASE r \in LedCommand
  BY <1>1 DEF Todo, LedCommand
<1>2. CASE r = "ping"
  BY <1>2 DEF Todo, LedCommand
<1>3. CASE r = "status"
  <2>1. Todo(r) = <<"answer">>
    BY <1>3 DEF Todo, LedCommand
  <2>2. ASSUME NEW reading \in ReadOrders PROVE reading \in Seq(Foreign) /\ Len(reading) = 5
    <3>1. reading \in [1 .. 5 -> Foreign]
      BY PipelineAssumption
    <3> QED BY <3>1, FiveLong
  <2>3. <<"answer">> \in Seq({"answer"}) /\ Len(<<"answer">>) = 1
    OBVIOUS
  <2>4. ASSUME NEW reading \in ReadOrders PROVE Len(reading \o <<"answer">>) = 6
    <3> DEFINE S == Foreign \cup {"answer"}
    <3>1. reading \in [1 .. 5 -> S] /\ Len(reading) = 5
      BY <2>2, PipelineAssumption
    <3>2. reading \in Seq(S) /\ <<"answer">> \in Seq(S)
      BY <3>1, FiveLong
    <3>3. Len(reading \o <<"answer">>) = Len(reading) + Len(<<"answer">>)
      BY <3>2, ConcatProperties, Zenon
    <3> QED BY <2>3, <3>1, <3>3
  <2> QED BY <2>1, <2>3, <2>4
<1>4. CASE r = "unknown"
  BY <1>4 DEF Todo, LedCommand
<1>5. CASE r \in {"ack", "dat"}
  BY <1>5, EmptySeq DEF Todo, LedCommand
<1> QED BY <1>1, <1>2, <1>3, <1>4, <1>5 DEF Request

-----------------------------------------------------------------------------
LEMMA ReadyOrDone ==
  ASSUME PipeTypeOK, AsleepInv, Work > 0
  PROVE  started /\ TaskReady
<1> USE Lengths
<1>1. started
  BY NoWork DEF AsleepInv
<1>2. ASSUME ~TaskReady PROVE FALSE
  <2>1. actuatorq = <<>> /\ txq = <<>>
    BY <1>2 DEF TaskReady
  <2>2. Room(<<>>, ActuatorLength) /\ Room(<<>>, TxLength)
        /\ Room(<<>>, AppLength) /\ Room(<<>>, ParserLength)
    BY EmptySeq DEF Room
  <2>3. todo = <<>>
    BY <1>2, <2>1, <2>2 DEF TaskReady
  <2>4. appq = <<>>
    BY <1>2, <2>3 DEF TaskReady
  <2>5. parser_msg = None
    BY <1>2, <2>2, <2>4 DEF TaskReady, ParserReady
  <2>6. parserq = <<>>
    BY <1>2, <2>5 DEF TaskReady, ParserReady
  <2>7. rx_byte = None
    BY <1>2, <2>2, <2>6 DEF TaskReady, RxReady
  <2>8. isrq = <<>>
    BY <1>2, <2>7 DEF TaskReady, RxReady
  <2>9. Work = 0
    BY <2>1, <2>3, <2>4, <2>5, <2>6, <2>7, <2>8, NoWork DEF Empty
  <2> QED BY <2>9
<1> QED BY <1>1, <1>2

\* A byte carried counts as one.
LEMMA CarryingIs ==
  /\ Carrying(None) = 0
  /\ \A b : b # None => Carrying(b) = 1
  /\ \A b : Carrying(b) \in 0 .. 1
BY DEF Carrying

\* Each step of a task leaves less to do than there was.
LEMMA TaskStep ==
  ASSUME PipeTypeOK, Task
  PROVE  Work' < Work
<1>r. ReceptionOK /\ HandlingOK
  BY DEF PipeTypeOK
<1>n. /\ Len(isrq) \in Nat /\ Len(parserq) \in Nat /\ Len(appq) \in Nat
      /\ Len(todo) \in Nat /\ Len(actuatorq) \in Nat /\ Len(txq) \in Nat
      /\ Intake \in Nat /\ Handling \in Nat /\ Output \in Nat
  BY WorkIs
<1>s. Work' = Intake' + Handling' + Output' /\ Work = Intake + Handling + Output
  BY DEF Work
<1>c. /\ Carrying(None) = 0 /\ \A b : b # None => Carrying(b) = 1
      /\ \A b : Carrying(b) \in 0 .. 1
  BY CarryingIs
<1>1. CASE RxTake
  <2>1. rx_byte = None /\ rx_byte' # None /\ Len(isrq') = Len(isrq) - 1
    <3>1. Head(isrq) \in Byte /\ Len(Tail(isrq)) = Len(isrq) - 1
      BY <1>1, <1>r, TakeProperties DEF RxTake, ReceptionOK
    <3>2. None \notin Byte
      BY DEF None, Byte, Request, LedCommand, Start, End
    <3> QED BY <1>1, <3>1, <3>2 DEF RxTake
  <2>2. UNCHANGED <<parserq, parser_msg, appq, todo, actuatorq, txq>>
    BY <1>1 DEF RxTake, parserVars, appVars, actuatorVars, txVars
  <2>3. Carrying(rx_byte) = 0 /\ Carrying(rx_byte') = 1
    BY <1>c, <2>1, Zenon
  <2>4. Intake' = Intake - 1
    BY <1>n, <2>1, <2>2, <2>3 DEF Intake
  <2>5. Handling' = Handling /\ Output' = Output
    BY <2>2 DEF Handling, Output
  <2> QED BY <1>n, <1>s, <2>4, <2>5
<1>2. CASE RxHand
  <2>1. rx_byte # None /\ rx_byte' = None /\ Len(parserq') = Len(parserq) + 1
    BY <1>2, <1>r, PutProperties DEF RxHand, ReceptionOK
  <2>2. UNCHANGED <<isrq, parser_msg, appq, todo, actuatorq, txq>>
    BY <1>2 DEF RxHand, parserVars, appVars, actuatorVars, txVars
  <2>3. Carrying(rx_byte) = 1 /\ Carrying(rx_byte') = 0
    BY <1>c, <2>1, Zenon
  <2>4. Intake' = Intake - 1
    BY <1>n, <2>1, <2>2, <2>3 DEF Intake
  <2>5. Handling' = Handling /\ Output' = Output
    BY <2>2 DEF Handling, Output
  <2> QED BY <1>n, <1>s, <2>4, <2>5
<1>3. CASE ParserTake
  <2>1. parser_msg = None /\ Len(parserq') = Len(parserq) - 1
    BY <1>3, <1>r, TakeProperties DEF ParserTake, ReceptionOK
  <2>2. UNCHANGED <<isrq, rx_byte, appq, todo, actuatorq, txq>>
    BY <1>3 DEF ParserTake, rxVars, appVars, actuatorVars, txVars
  <2>3. Carrying(parser_msg) = 0 /\ Carrying(parser_msg') \in 0 .. 1
        /\ Carrying(rx_byte) \in 0 .. 1
    BY <1>c, <2>1, Zenon
  <2>4. Intake' = Intake - 18
    BY <1>n, <2>1, <2>2, <2>3 DEF Intake
  <2>5. Handling' = Handling + 17 * Carrying(parser_msg')
    BY <1>n, <2>2, <2>3 DEF Handling
  <2>6. Output' = Output
    BY <2>2 DEF Output
  <2> QED BY <1>n, <1>s, <2>3, <2>4, <2>5, <2>6
<1>4. CASE ParserHand
  <2>1. parser_msg # None /\ parser_msg' = None /\ Len(appq') = Len(appq) + 1
    BY <1>4, <1>r, PutProperties DEF ParserHand, HandlingOK
  <2>2. UNCHANGED <<isrq, rx_byte, parserq, todo, actuatorq, txq>>
    BY <1>4 DEF ParserHand, rxVars, appVars, actuatorVars, txVars
  <2>3. Carrying(parser_msg) = 1 /\ Carrying(parser_msg') = 0
    BY <1>c, <2>1, Zenon
  <2>4. Handling' = Handling - 1
    BY <1>n, <2>1, <2>2, <2>3 DEF Handling
  <2>5. Intake' = Intake /\ Output' = Output
    BY <2>2 DEF Intake, Output
  <2> QED BY <1>n, <1>s, <2>4, <2>5
<1>5. CASE AppTake
  <2>1. Head(appq) \in Request /\ Len(appq') = Len(appq) - 1
    BY <1>5, <1>r, TakeProperties DEF AppTake, HandlingOK
  <2>2. UNCHANGED <<isrq, rx_byte, parserq, parser_msg, actuatorq, txq>> /\ Len(todo) = 0
    BY <1>5, EmptySeq DEF AppTake, rxVars, parserVars, actuatorVars, txVars
  <2>3. Len(todo') \in 0 .. 6
    <3>1. CASE Head(appq) = "status"
      <4>1. \E reading \in ReadOrders : todo' = reading \o Todo(Head(appq))
        BY <1>5, <3>1, Zenon DEF AppTake
      <4> QED BY <2>1, <3>1, <4>1, TodoIsShort
    <3>2. CASE Head(appq) # "status"
      <4>1. todo' = Todo(Head(appq))
        BY <1>5, <3>2, Zenon DEF AppTake
      <4> QED BY <2>1, <4>1, TodoIsShort
    <3> QED BY <3>1, <3>2
  <2>4. Carrying(parser_msg) \in 0 .. 1
    BY <1>c
  <2>5. Handling' = Handling - 16 + 2 * Len(todo')
    BY <1>n, <2>1, <2>2, <2>3, <2>4 DEF Handling
  <2>6. Intake' = Intake /\ Output' = Output
    BY <2>2 DEF Intake, Output
  <2>7. Handling' \in Int /\ Handling' <= Handling - 4
    <3> DEFINE l == Len(todo')
    <3>1. l \in 0 .. 6 /\ Handling' = Handling - 16 + 2 * l
      BY <2>3, <2>5
    <3> HIDE DEF l
    <3> QED BY <1>n, <3>1
  <2>8. Work' = Intake + Handling' + Output
    BY <1>s, <2>6
  <2>9. \A i, h, o \in Nat, k \in Int : k <= h - 4 => i + k + o < i + h + o
    OBVIOUS
  <2> QED BY <1>n, <1>s, <2>7, <2>8, <2>9, Zenon
<1>6. ASSUME NEW what, AppDoes(what)
      PROVE  /\ Handling' = Handling - 2
             /\ UNCHANGED <<isrq, rx_byte, parserq>> /\ Intake' = Intake
  <2>1. Len(todo') = Len(todo) - 1
    BY <1>6, <1>r, TakeProperties DEF AppDoes, HandlingOK
  <2>2. UNCHANGED <<isrq, rx_byte, parserq, parser_msg, appq>>
    BY <1>6 DEF AppDoes, rxVars, parserVars
  <2>3. Carrying(parser_msg) \in 0 .. 1
    BY <1>c
  <2>4. Handling' = Handling - 2
    BY <1>n, <2>1, <2>2, <2>3 DEF Handling
  <2>5. Intake' = Intake
    BY <2>2 DEF Intake
  <2> QED BY <2>2, <2>4, <2>5
<1>7. CASE (\E c \in Foreign : AppRead(c)) \/ AppCount
  <2>1. Output' = Output
    BY <1>7 DEF AppRead, AppCount, Output
  <2>2. Handling' = Handling - 2 /\ Intake' = Intake
    BY <1>6, <1>7 DEF AppRead, AppCount
  <2> QED BY <1>n, <1>s, <2>1, <2>2
<1>8. CASE AppActuate
  <2>1. Len(actuatorq') = Len(actuatorq) + 1 /\ txq' = txq
    <3>1. \A e : Len(Put(actuatorq, e)) = Len(actuatorq) + 1
      BY <1>r DEF HandlingOK, Put
    <3> QED BY <1>8, <3>1 DEF AppActuate
  <2>2. Output' = Output + 1
    BY <1>n, <2>1 DEF Output
  <2>3. Handling' = Handling - 2 /\ Intake' = Intake
    BY <1>6, <1>8 DEF AppActuate
  <2> QED BY <1>n, <1>s, <2>2, <2>3
<1>9. CASE AppAnswer
  <2>1. Len(txq') = Len(txq) + 1 /\ actuatorq' = actuatorq
    <3>1. \A e : Len(Put(txq, e)) = Len(txq) + 1
      BY <1>r DEF HandlingOK, Put
    <3> QED BY <1>9, <3>1 DEF AppAnswer
  <2>2. Output' = Output + 1
    BY <1>n, <2>1 DEF Output
  <2>3. Handling' = Handling - 2 /\ Intake' = Intake
    BY <1>6, <1>9 DEF AppAnswer
  <2> QED BY <1>n, <1>s, <2>2, <2>3
<1>10. CASE Actuate \/ Transmit
  <2>1. \/ Len(actuatorq') = Len(actuatorq) - 1 /\ txq' = txq
        \/ Len(txq') = Len(txq) - 1 /\ actuatorq' = actuatorq
    BY <1>10, <1>r, TakeProperties
       DEF Actuate, Transmit, HandlingOK, actuatorVars, txVars
  <2>2. Output' = Output - 1
    BY <1>n, <2>1 DEF Output
  <2>3. Handling' = Handling /\ Intake' = Intake
    BY <1>10 DEF Actuate, Transmit, rxVars, parserVars, appVars, Handling, Intake
  <2> QED BY <1>n, <1>s, <2>2, <2>3
<1> QED BY <1>1, <1>2, <1>3, <1>4, <1>5, <1>7, <1>8, <1>9, <1>10
        DEF Task, RxTask, ParserTask, AppTask

\* What is not a step of a task gives the tasks one byte more to do, or nothing.
LEMMA OtherStep ==
  ASSUME PipeTypeOK, [Next]_rvars, ~Task
  PROVE  Work' = Work \/ (started /\ Isr /\ Work' = Work + 20)
<1>r. ReceptionOK /\ HandlingOK
  BY DEF PipeTypeOK
<1>1. CASE UNCHANGED <<isrq, rx_byte, parserq, parser_msg, appq, todo, actuatorq, txq>>
  BY <1>1 DEF Work, Intake, Handling, Output
<1>2. CASE UNCHANGED rvars \/ (\E r \in Requests : SendFrame(r)) \/ TasksStart \/ CatchUp
  BY <1>1, <1>2 DEF rvars, SendFrame, TasksStart, CatchUp, rxVars, parserVars, appVars,
                    txVars, actuatorVars
<1>3. CASE Isr
  <2>1. UNCHANGED <<rx_byte, parserq, parser_msg, appq, todo, actuatorq, txq>>
    BY <1>3 DEF Isr, parserVars, appVars, txVars, actuatorVars
  <2>2. CASE isrq' = isrq
    BY <1>1, <2>1, <2>2
  <2>3. CASE isrq' # isrq
    <3>1. started /\ Len(isrq') = Len(isrq) + 1
      BY <1>3, <1>r, <2>3, TakeProperties, PutProperties DEF Isr, ReceptionOK
    <3>2. /\ Len(isrq) \in Nat /\ Len(parserq) \in Nat /\ Carrying(rx_byte) \in {0, 1}
          /\ Intake \in Nat /\ Handling \in Nat /\ Output \in Nat
      BY WorkIs
    <3>3. Intake' = Intake + 20
      BY <2>1, <3>1, <3>2 DEF Intake
    <3>4. Handling' = Handling /\ Output' = Output
      BY <2>1 DEF Handling, Output
    <3>5. Work' = Work + 20
      BY <3>2, <3>3, <3>4 DEF Work
    <3> QED BY <1>3, <3>1, <3>5
  <2> QED BY <2>2, <2>3
<1> QED BY <1>2, <1>3 DEF Next, Task, Finished

\* Nothing starts a task before tasks_start.
LEMMA AsleepStep == AsleepInv /\ [Next]_rvars => AsleepInv'
<1> SUFFICES ASSUME AsleepInv, [Next]_rvars, ~started' PROVE Empty'
  BY DEF AsleepInv
<1>1. ~started /\ Empty
  <2>1. CASE UNCHANGED started
    BY <2>1 DEF AsleepInv
  <2>2. CASE \/ UNCHANGED rvars \/ (\E r \in Requests : SendFrame(r))
             \/ Isr \/ CatchUp \/ Finished
    BY <2>1, <2>2 DEF rvars, lineVars, SendFrame, Isr, CatchUp, Finished
  <2>3. CASE RxTask \/ ParserTask
    BY <2>1, <2>3 DEF RxTask, RxTake, RxHand, ParserTask, ParserTake, ParserHand, lineVars
  <2>4. CASE AppTask \/ Actuate \/ Transmit
    BY <2>1, <2>4 DEF AppTask, AppTake, AppRead, AppActuate, AppAnswer, AppCount, AppDoes,
                      Actuate, Transmit, lineVars
  <2>5. CASE TasksStart
    BY <2>5 DEF TasksStart
  <2> QED BY <2>2, <2>3, <2>4, <2>5 DEF Next
<1>2. ~Task
  BY <1>1 DEF Empty, Task, RxTask, RxTake, RxHand, ParserTask, ParserTake, ParserHand, AppTask,
              AppTake, AppRead, AppActuate, AppAnswer, AppCount, AppDoes, Actuate, Transmit
<1>3. UNCHANGED <<isrq, rx_byte, parserq, parser_msg, appq, todo, actuatorq, txq>>
  BY <1>1, <1>2 DEF Next, Task, SendFrame, TasksStart, Isr, CatchUp, Finished, rvars, rxVars,
                    parserVars, appVars, txVars, actuatorVars
<1> QED BY <1>1, <1>3 DEF Empty

\* tasks.c:35 and 59 and app.c:24, 84 and 97 wait without a limit where a queue
\* is full. For all lengths of the queues and every interleaving: however they
\* fill up, as long as there is something to do some task waits for nothing.
THEOREM NeverLockedUp == Spec => [](Work \in Nat /\ (Work > 0 => started /\ TaskReady))
<1>1. Init => AsleepInv
  BY DEF Init, AsleepInv, Empty
<1>2. PipeTypeOK /\ AsleepInv => Work \in Nat /\ (Work > 0 => started /\ TaskReady)
  BY WorkIs, ReadyOrDone
<1> QED BY <1>1, <1>2, AsleepStep, PipeTypes, PTL DEF Spec

\* And each step of a task brings the end nearer, each byte that comes in moves
\* it away by a fixed distance: nothing goes round in circles. With the theorem
\* before this is why Drains holds, as far as it is about states and steps.
THEOREM StepsUseUpWork ==
  Spec => [][/\ (Task => Work' < Work)
             /\ (~Task => Work' = Work \/ (Isr /\ Work' = Work + 20))]_rvars
<1>1. ASSUME PipeTypeOK, [Next]_rvars
      PROVE  [/\ (Task => Work' < Work)
              /\ (~Task => Work' = Work \/ (Isr /\ Work' = Work + 20))]_rvars
  BY <1>1, TaskStep, OtherStep
<1> QED BY <1>1, PipeTypes, PTL DEF Spec
=============================================================================
