----------------------------- MODULE LinkProofs -----------------------------
(***************************************************************************)
(* Theorems about the deadman task and its link to the robot, for every    *)
(* value of the constants: any number of lost and garbled frames and of    *)
(* commands, any length of the transmit queue, any backlog.                *)
(***************************************************************************)
EXTENDS DeadmanLink, DeadmanProofs

-----------------------------------------------------------------------------
(* Types *)

\* A step of the link is a step of the deadman task, of the tasks around it,
\* or none of theirs.
LEMMA LinkStepIsStep == [LNext]_lvars => [Next]_vars
BY DEF LNext, DeadmanTask, Iterate, Proceed, TransmitFrame, AppTask, HandleAck,
       HandleCommand, Answer, BridgeReceive, SendCommand, Noise, LoseUp, GarbleUp,
       LoseDown, lvars, Next, Task, OtherTasks

LinkPart ==
  /\ up \in Seq(Message)
  /\ down \in Seq({"ack", "cmd"})
  /\ app \in {"idle", "reply"}
  /\ robot \in {"unknown", "operating", "stopped"}
  /\ commands \in 0 .. MaxCommands
  /\ faults \in 0 .. MaxFaults

LEMMA LinkTypeInit == LInit => LinkTypeOK
<1> SUFFICES ASSUME LInit PROVE LinkTypeOK
  OBVIOUS
<1>1. TypeOK
  BY TypeInit DEF LInit
<1>2. up \in Seq(Message) /\ down \in Seq({"ack", "cmd"})
  BY DEF LInit
<1> QED BY <1>1, <1>2, LinkAssumption DEF LInit, LinkTypeOK

\* The robot does one of two things once it has been told.
LEMMA ReactionType ==
  ASSUME NEW m, robot \in {"unknown", "operating", "stopped"}
  PROVE  Reaction(robot, m) \in {"unknown", "operating", "stopped"}
BY DEF Reaction

LEMMA LinkTypeStep == LinkTypeOK /\ [LNext]_lvars => LinkTypeOK'
<1> SUFFICES ASSUME LinkTypeOK, [LNext]_lvars PROVE LinkTypeOK'
  OBVIOUS
<1>1. TypeOK'
  BY LinkStepIsStep, TypeStep DEF LinkTypeOK
<1>2. LinkPart
  BY DEF LinkTypeOK, LinkPart
<1>3. txq \in Seq(Message)
  BY DEF LinkTypeOK, TypeOK, QueueOK
<1>4. MaxCommands \in Nat /\ MaxFaults \in Nat
  BY LinkAssumption
<1>5. LinkPart'
  <2>1. CASE UNCHANGED linkVars
    BY <1>2, <2>1 DEF LinkPart, linkVars
  <2>2. CASE TransmitFrame
    BY <1>2, <1>3, <2>2 DEF LinkPart, TransmitFrame, Transmit
  <2>3. CASE AppTask
    <3>1. CASE HandleAck \/ HandleCommand
      <4>1. down # <<>> /\ down' = Tail(down)
        BY <3>1 DEF HandleAck, HandleCommand
      <4>2. down' \in Seq({"ack", "cmd"})
        BY <1>2, <4>1 DEF LinkPart
      <4> QED BY <1>2, <3>1, <4>2 DEF LinkPart, HandleAck, HandleCommand
    <3>2. CASE Answer
      BY <1>2, <3>2 DEF LinkPart, Answer
    <3> QED BY <2>3, <3>1, <3>2 DEF AppTask
  <2>4. CASE BridgeReceive
    <3>1. down' \in Seq({"ack", "cmd"}) /\ up' \in Seq(Message)
      BY <1>2, <2>4 DEF LinkPart, BridgeReceive, Acknowledged
    <3>2. robot' \in {"unknown", "operating", "stopped"}
      BY <1>2, <2>4, ReactionType DEF LinkPart, BridgeReceive
    <3> QED BY <1>2, <2>4, <3>1, <3>2 DEF LinkPart, BridgeReceive
  <2>5. CASE SendCommand
    BY <1>2, <1>4, <2>5 DEF LinkPart, SendCommand
  <2>6. CASE LoseUp \/ LoseDown
    <3>1. CASE LoseUp
      <4>1. up' \in Seq(Message)
        BY <1>2, <3>1 DEF LinkPart, LoseUp
      <4> QED BY <1>2, <1>4, <3>1, <4>1 DEF LinkPart, LoseUp
    <3>2. CASE LoseDown
      <4>1. down' \in Seq({"ack", "cmd"})
        BY <1>2, <3>2 DEF LinkPart, LoseDown
      <4> QED BY <1>2, <1>4, <3>2, <4>1 DEF LinkPart, LoseDown
    <3> QED BY <2>6, <3>1, <3>2
  <2>7. CASE GarbleUp
    <3>1. robot' \in {"unknown", "operating", "stopped"}
      BY <1>2, <2>7, ReactionType DEF LinkPart, GarbleUp
    <3>2. up' \in Seq(Message)
      BY <1>2, <2>7 DEF LinkPart, GarbleUp
    <3> QED BY <1>2, <1>4, <2>7, <3>1, <3>2 DEF LinkPart, GarbleUp
  <2>8. CASE UNCHANGED lvars
    BY <2>1, <2>8 DEF lvars
  <2> QED BY <2>1, <2>2, <2>3, <2>4, <2>5, <2>6, <2>7, <2>8
          DEF LNext, DeadmanTask, Iterate, Proceed, Noise
<1> QED BY <1>1, <1>5 DEF LinkTypeOK, LinkPart

\* The link keeps its types: only ACKs and commands come down, only messages
\* of the firmware go up, and the robot does what it was last told.
THEOREM LinkTypeCorrect == LSpec => []LinkTypeOK
BY LinkTypeInit, LinkTypeStep, PTL DEF LSpec

-----------------------------------------------------------------------------
(* What is under way *)

Free(q, S) == \A i \in 1 .. Len(q) : q[i] \notin S
Movers == {"deadman_ok", "spd"}
Stops == {"deadman"}
Acks == {"ack"}

\* Behind a notice of the stop comes nothing that would move the robot.
StopsLast(q) ==
  \A i, j \in 1 .. Len(q) : i < j /\ q[i] \in Stops => q[j] \notin Movers

LEMMA FreeAppend ==
  ASSUME NEW T, NEW q \in Seq(T), NEW m \in T, NEW S
  PROVE  Free(Append(q, m), S) <=> Free(q, S) /\ m \notin S
BY DEF Free

LEMMA FreeTail ==
  ASSUME NEW T, NEW q \in Seq(T), q # <<>>, NEW S, Free(q, S)
  PROVE  Free(Tail(q), S) /\ Head(q) \notin S
BY DEF Free

LEMMA StopsLastAppend ==
  ASSUME NEW T, NEW q \in Seq(T), NEW m \in T, StopsLast(q),
         m \in Movers => Free(q, Stops)
  PROVE  StopsLast(Append(q, m))
BY DEF StopsLast, Free

LEMMA StopsLastTail ==
  ASSUME NEW T, NEW q \in Seq(T), q # <<>>, StopsLast(q)
  PROVE  /\ StopsLast(Tail(q))
         /\ Head(q) \in Stops => Free(Tail(q), Movers)
BY DEF StopsLast, Free

\* send_msg of something that neither moves nor stops the robot, or that only
\* stops it.
LEMMA SendHarmless ==
  ASSUME NEW m \in Message \ Movers, txq \in Seq(Message),
         \/ Send(m)
         \/ txq' = Append(txq, m)
         \/ UNCHANGED txq
  PROVE  /\ Free(txq, Movers) => Free(txq', Movers)
         /\ m \notin Stops /\ Free(txq, Stops) => Free(txq', Stops)
         /\ StopsLast(txq) => StopsLast(txq')
<1>1. txq' = txq \/ txq' = Append(txq, m)
  BY DEF Send
<1>2. CASE txq' = txq
  BY <1>2
<1>3. CASE txq' = Append(txq, m)
  <2>1. m \in Message /\ m \notin Movers
    OBVIOUS
  <2>2. \A S : Free(Append(txq, m), S) <=> Free(txq, S) /\ m \notin S
    BY <2>1, FreeAppend
  <2>3. StopsLast(txq) => StopsLast(Append(txq, m))
    BY <2>1, StopsLastAppend
  <2> QED BY <1>3, <2>1, <2>2, <2>3
<1> QED BY <1>1, <1>2, <1>3

-----------------------------------------------------------------------------
(* The invariant.  An operator who only comes back when the last stop is       *)
(* settled finds nothing of it under way; so no ACK can be taken for that of   *)
(* a later stop, and an ACK is only there when the robot stopped for good.     *)

Sequel ==
  /\ pc \in {"rearm", "announce", "operate", "alive"} => present_prev
  /\ pc \in {"stop", "emergency", "halt", "resend"} => ~present_prev
  /\ present_prev /\ pc # "rearm" => armed_once
  /\ pc \in {"stop", "emergency", "resend"} => armed_once
  /\ ack_pending => armed_once

Ordered ==
  /\ StopsLast(txq) /\ StopsLast(up)
  /\ ~Free(up, Stops) => Free(txq, Movers)

Bare == Free(txq, Stops) /\ Free(up, Stops) /\ Free(down, Acks)
BareBefore ==
  present_prev \/ pc = "stop" \/ ~armed_once => Bare /\ (pc # "rearm" => ~g_ack_ok)

Stopped == robot = "stopped" /\ Free(up, Movers) /\ Free(txq, Movers)
Known == ~Free(down, Acks) \/ g_ack_ok \/ ~ack_pending
Heard == ~present_prev /\ pc # "stop" /\ armed_once /\ Known => Stopped

StopInv == Sequel /\ Ordered /\ BareBefore /\ Heard

LEMMA StopInit == LInit => StopInv
<1> SUFFICES ASSUME LInit PROVE StopInv
  OBVIOUS
<1>1. \A S : Free(<<>>, S)
  BY DEF Free
<1>2. StopsLast(<<>>)
  BY DEF StopsLast
<1> QED BY <1>1, <1>2 DEF LInit, Init, StopInv, Sequel, Ordered, BareBefore, Bare, Heard

\* The sampling, of an operator who comes back only when the stop is settled.
LEMMA SampleKeeps ==
  ASSUME LinkTypeOK, StopInv, QuietReengage, Iterate
  PROVE  StopInv'
<1>1. PICK in \in Inputs :
        /\ "button" \in in /\ ~present_prev => Settled
        /\ Sample(in)
  BY DEF Iterate
<1>2. /\ pc = "sample" /\ pc' = After(present_prev')
      /\ present_prev' = Present(in)
      /\ UNCHANGED <<armed_once, ack_pending, g_ack_ok>>
  BY <1>1 DEF Sample
<1>3. UNCHANGED <<up, down, robot>>
  BY DEF Iterate, linkVars
<1>4. /\ Free(txq, Movers) => Free(txq', Movers)
      /\ Free(txq, Stops) => Free(txq', Stops)
      /\ StopsLast(txq) => StopsLast(txq')
  <2>1. Send("diag") \/ UNCHANGED txq
    BY <1>1 DEF Sample
  <2>2. "diag" \in Message \ Movers /\ "diag" \notin Stops
    BY DEF Message, DeadmanMessage, Movers, Stops
  <2>3. txq \in Seq(Message)
    BY DEF LinkTypeOK, TypeOK, QueueOK
  <2> QED BY <2>1, <2>2, <2>3, SendHarmless
<1>5. present_prev' => "button" \in in
  BY <1>2 DEF Present
<1>6. ~present_prev /\ present_prev' => Bare
  BY <1>1, <1>5 DEF Settled, Bare, Free, Stops, Acks
<1>7. present_prev \in BOOLEAN /\ present_prev' \in BOOLEAN
  BY <1>2 DEF LinkTypeOK, TypeOK, FlagsOK, Present
<1>8. /\ present_prev' /\ ~present_prev => pc' = "rearm"
      /\ ~present_prev' /\ present_prev => pc' = "stop"
      /\ present_prev' /\ present_prev => pc' = "operate"
      /\ ~present_prev' /\ ~present_prev => pc' = "halt"
  BY <1>2, <1>7 DEF After
<1>9. Sequel'
  BY <1>2, <1>7, <1>8 DEF StopInv, Sequel
<1>10. Ordered'
  BY <1>3, <1>4 DEF StopInv, Ordered
<1>11. BareBefore'
  BY <1>2, <1>3, <1>4, <1>6, <1>7, <1>8 DEF StopInv, BareBefore, Bare
<1>12. Heard'
  BY <1>2, <1>3, <1>4, <1>7, <1>8 DEF StopInv, Heard, Known, Stopped
<1> QED BY <1>9, <1>10, <1>11, <1>12 DEF StopInv

\* The rest of the iteration.
LEMMA ResponseKeeps ==
  ASSUME LinkTypeOK, StopInv, Proceed
  PROVE  StopInv'
<1>0. /\ UNCHANGED <<up, down, robot>>
      /\ txq \in Seq(Message)
      /\ present_prev \in BOOLEAN /\ armed_once \in BOOLEAN
      /\ ack_pending \in BOOLEAN /\ g_ack_ok \in BOOLEAN
  BY DEF Proceed, linkVars, LinkTypeOK, TypeOK, FlagsOK, QueueOK
<1> USE <1>0
<1>1. CASE Rearm
  <2>1. /\ pc = "rearm" /\ pc' = "announce" /\ UNCHANGED <<txq, present_prev>>
        /\ ~g_ack_ok' /\ ~ack_pending' /\ armed_once'
    BY <1>1 DEF Rearm, DropAck
  <2>2. present_prev /\ Bare
    BY <2>1 DEF StopInv, Sequel, BareBefore
  <2> QED BY <2>1, <2>2 DEF StopInv, Sequel, Ordered, BareBefore, Bare, Heard
<1>2. CASE Announce \/ \E spd \in Speeds : Operate(spd)
  <2>1. /\ pc \in {"announce", "operate"} /\ pc' \in {"operate", "alive"}
        /\ UNCHANGED <<present_prev, armed_once, ack_pending, g_ack_ok>>
    BY <1>2 DEF Announce, Operate, localVars
  <2>2. present_prev /\ armed_once /\ Bare /\ ~g_ack_ok
    BY <2>1 DEF StopInv, Sequel, BareBefore
  <2>3. UNCHANGED txq \/ \E m \in Movers : Send(m)
    BY <1>2 DEF Announce, Operate, Movers
  <2>4. Free(txq', Stops) /\ StopsLast(txq')
    <3>1. CASE UNCHANGED txq
      BY <2>2, <3>1 DEF StopInv, Ordered, Bare
    <3>2. ASSUME NEW m \in Movers, txq' = Append(txq, m)
          PROVE  Free(txq', Stops) /\ StopsLast(txq')
      <4>1. m \in Message /\ m \notin Stops
        BY DEF Movers, Stops, Message, DeadmanMessage
      <4> QED BY <2>2, <3>2, <4>1, FreeAppend, StopsLastAppend
              DEF StopInv, Ordered, Bare
    <3> QED BY <2>3, <3>1, <3>2 DEF Send
  <2> QED BY <2>1, <2>2, <2>4 DEF StopInv, Sequel, Ordered, BareBefore, Bare, Heard
<1>3. CASE Alive
  <2>1. /\ pc = "alive" /\ pc' = "sample"
        /\ UNCHANGED <<present_prev, armed_once, ack_pending, g_ack_ok>>
        /\ Send("ALIVE") \/ UNCHANGED txq
    BY <1>3 DEF Alive, EndIteration
  <2>2. present_prev /\ armed_once /\ Bare /\ ~g_ack_ok
    BY <2>1 DEF StopInv, Sequel, BareBefore
  <2>3. "ALIVE" \in Message \ Movers /\ "ALIVE" \notin Stops
    BY DEF Message, DeadmanMessage, Movers, Stops
  <2>4. Free(txq', Stops) /\ StopsLast(txq')
    BY <2>1, <2>2, <2>3, SendHarmless DEF StopInv, Ordered, Bare
  <2> QED BY <2>1, <2>2, <2>4 DEF StopInv, Sequel, Ordered, BareBefore, Bare, Heard
<1>4. CASE Stop
  <2>1. /\ pc = "stop" /\ pc' \in {"emergency", "halt"} /\ ack_pending'
        /\ UNCHANGED <<present_prev, armed_once, g_ack_ok>>
        /\ Send("deadman")
    BY <1>4 DEF Stop, AfterStop
  <2>2. ~present_prev /\ armed_once /\ Bare /\ ~g_ack_ok
    BY <2>1 DEF StopInv, Sequel, BareBefore
  <2>3. "deadman" \in Message \ Movers
    BY DEF Message, DeadmanMessage, Movers
  <2>4. StopsLast(txq')
    BY <2>1, <2>3, SendHarmless DEF StopInv, Ordered
  <2> QED BY <2>1, <2>2, <2>4
          DEF StopInv, Sequel, Ordered, BareBefore, Bare, Heard, Known
<1>5. CASE Emergency \/ Resend
  <2>1. /\ pc \in {"emergency", "resend"} /\ pc' \in {"halt", "sample"}
        /\ UNCHANGED <<present_prev, armed_once, ack_pending, g_ack_ok>>
        /\ Send("EMERGENCY") \/ Send("deadman")
    BY <1>5 DEF Emergency, Resend, EndIteration, localVars
  <2>2. ~present_prev /\ armed_once
    BY <2>1 DEF StopInv, Sequel
  <2>3. {"EMERGENCY", "deadman"} \subseteq Message \ Movers
    BY DEF Message, DeadmanMessage, Movers
  <2>4. /\ Free(txq, Movers) => Free(txq', Movers)
        /\ StopsLast(txq')
    BY <2>1, <2>3, SendHarmless DEF StopInv, Ordered
  <2> QED BY <2>1, <2>2, <2>4
          DEF StopInv, Sequel, Ordered, BareBefore, Bare, Heard, Known, Stopped
<1>6. CASE Rest \/ TakeAck \/ AwaitAck
  <2>1. /\ pc = "halt" /\ pc' \in {"sample", "resend"}
        /\ UNCHANGED <<present_prev, armed_once, txq>>
        /\ pc' = "resend" => ack_pending
        /\ ack_pending' => ack_pending
        /\ g_ack_ok' => g_ack_ok
        /\ ~ack_pending' => ~ack_pending \/ g_ack_ok
    BY <1>6 DEF Rest, TakeAck, AwaitAck, EndIteration, DropAck
  <2>2. ~present_prev
    BY <2>1 DEF StopInv, Sequel
  <2> QED BY <2>1, <2>2
          DEF StopInv, Sequel, Ordered, BareBefore, Bare, Heard, Known, Stopped
<1> QED BY <1>1, <1>2, <1>3, <1>4, <1>5, <1>6 DEF Proceed, Respond

\* The transmit task moves a frame on.
LEMMA TransmitKeeps ==
  ASSUME LinkTypeOK, StopInv, TransmitFrame
  PROVE  StopInv'
<1>1. /\ txq # <<>> /\ txq' = Tail(txq) /\ up' = Append(up, Head(txq))
      /\ UNCHANGED <<down, robot, pc, present_prev, armed_once, ack_pending, g_ack_ok>>
  BY DEF TransmitFrame, Transmit, taskVars, localVars
<1>2. txq \in Seq(Message) /\ up \in Seq(Message) /\ Head(txq) \in Message
  <2>1. txq \in Seq(Message) /\ up \in Seq(Message)
    BY DEF LinkTypeOK, TypeOK, QueueOK
  <2> QED BY <1>1, <2>1
<1>3. \A S : Free(txq, S) => Free(Tail(txq), S) /\ Head(txq) \notin S
  BY <1>1, <1>2, FreeTail
<1>4. \A S : Free(up', S) <=> Free(up, S) /\ Head(txq) \notin S
  BY <1>1, <1>2, FreeAppend
<1>5. Ordered'
  <2>1. /\ StopsLast(Tail(txq))
        /\ Head(txq) \in Stops => Free(Tail(txq), Movers)
    BY <1>1, <1>2, StopsLastTail DEF StopInv, Ordered
  <2>2. Head(txq) \in Movers => Free(up, Stops)
    BY <1>3 DEF StopInv, Ordered
  <2>3. StopsLast(up')
    BY <1>1, <1>2, <2>2, StopsLastAppend DEF StopInv, Ordered
  <2>4. ~Free(up', Stops) => Free(Tail(txq), Movers)
    BY <1>3, <1>4, <2>1 DEF StopInv, Ordered
  <2> QED BY <1>1, <2>1, <2>3, <2>4 DEF Ordered
<1>6. BareBefore'
  BY <1>1, <1>3, <1>4 DEF StopInv, BareBefore, Bare
<1>7. Heard'
  BY <1>1, <1>3, <1>4 DEF StopInv, Heard, Known, Stopped
<1> QED BY <1>1, <1>5, <1>6, <1>7 DEF StopInv, Sequel

\* The application task takes an ACK or a command from what has come down.
LEMMA AppKeeps ==
  ASSUME LinkTypeOK, StopInv, AppTask
  PROVE  StopInv'
<1>0. /\ UNCHANGED <<up, robot, pc, present_prev, armed_once, ack_pending>>
      /\ txq \in Seq(Message) /\ down \in Seq({"ack", "cmd"})
  BY DEF AppTask, HandleAck, HandleCommand, Answer, NotifyAck, Reply, vars, taskVars,
         localVars, LinkTypeOK, TypeOK, QueueOK
<1> USE <1>0
<1>1. CASE HandleAck
  <2>1. UNCHANGED txq /\ ~Free(down, Acks)
    BY <1>1 DEF HandleAck, NotifyAck, Free, Acks
  <2>2. Stopped \/ present_prev \/ pc = "stop" \/ ~armed_once
    BY <2>1 DEF StopInv, Heard, Known
  <2>3. ~(present_prev \/ pc = "stop" \/ ~armed_once)
    BY <2>1 DEF StopInv, BareBefore, Bare
  <2> QED BY <2>1, <2>2, <2>3
          DEF StopInv, Sequel, Ordered, BareBefore, Heard, Stopped
<1>2. CASE HandleCommand
  <2>1. UNCHANGED <<txq, g_ack_ok>> /\ down # <<>> /\ down' = Tail(down)
    BY <1>2 DEF HandleCommand, vars
  <2>2. Free(down, Acks) => Free(down', Acks)
    BY <2>1, FreeTail
  <2> QED BY <2>1, <2>2
          DEF StopInv, Sequel, Ordered, BareBefore, Bare, Heard, Known, Stopped
<1>3. CASE Answer
  <2>1. UNCHANGED <<down, g_ack_ok>> /\ txq' = Append(txq, "reply")
    BY <1>3 DEF Answer, Reply
  <2>2. "reply" \in Message \ Movers /\ "reply" \notin Stops
    BY DEF Message, Movers, Stops
  <2>3. /\ Free(txq, Movers) => Free(txq', Movers)
        /\ Free(txq, Stops) => Free(txq', Stops)
        /\ StopsLast(txq')
    BY <2>1, <2>2, SendHarmless DEF StopInv, Ordered
  <2> QED BY <2>1, <2>3
          DEF StopInv, Sequel, Ordered, BareBefore, Bare, Heard, Known, Stopped
<1> QED BY <1>1, <1>2, <1>3 DEF AppTask

\* The bridge, or noise, takes a frame from what is on its way up; the robot
\* reacts to it or not, and it is acknowledged or not.
LEMMA UpKeeps ==
  ASSUME LinkTypeOK, StopInv, BridgeReceive \/ GarbleUp \/ LoseUp
  PROVE  StopInv'
<1>0. /\ UNCHANGED <<txq, g_ack_ok, pc, present_prev, armed_once, ack_pending>>
      /\ up # <<>> /\ up' = Tail(up)
      /\ robot' \in {robot, Reaction(robot, Head(up))}
      /\ down' \in {down, Acknowledged(Head(up))}
      /\ Head(up) \in Stops /\ down' # down => robot' = Reaction(robot, Head(up))
  BY DEF BridgeReceive, GarbleUp, LoseUp, vars, taskVars, localVars
<1>1. up \in Seq(Message) /\ down \in Seq({"ack", "cmd"})
  BY DEF LinkTypeOK
<1>2. /\ \A S : Free(up, S) => Free(Tail(up), S) /\ Head(up) \notin S
      /\ StopsLast(Tail(up))
      /\ Head(up) \in Stops => Free(Tail(up), Movers)
  BY <1>0, <1>1, FreeTail, StopsLastTail DEF StopInv, Ordered
<1>3. Ordered'
  BY <1>0, <1>2 DEF StopInv, Ordered
<1>4. CASE Head(up) \in Stops
  <2>1. ~Free(up, Stops) /\ Free(txq, Movers)
    BY <1>2, <1>4 DEF StopInv, Ordered
  <2>2. ~(present_prev \/ pc = "stop" \/ ~armed_once)
    BY <2>1 DEF StopInv, BareBefore, Bare
  <2>3. Reaction(robot, Head(up)) = "stopped"
    BY <1>4 DEF Reaction, Stops
  <2>4. Heard'
    <3>1. CASE down' = down
      <4>1. Known' => Known
        BY <1>0, <3>1 DEF Known
      <4> QED BY <1>0, <1>2, <2>1, <2>3, <3>1, <4>1 DEF StopInv, Heard, Stopped
    <3>2. CASE down' # down
      BY <1>0, <1>2, <1>4, <2>1, <2>3, <3>2 DEF Heard, Stopped
    <3> QED BY <3>1, <3>2
  <2> QED BY <1>0, <1>3, <2>2, <2>4 DEF StopInv, Sequel, BareBefore
<1>5. CASE Head(up) \notin Stops
  <2>1. UNCHANGED down
    BY <1>0, <1>5 DEF Acknowledged, Stops
  <2>2. BareBefore'
    BY <1>0, <1>2, <2>1 DEF StopInv, BareBefore, Bare
  <2>3. Head(up) \notin Movers => Reaction(robot, Head(up)) = robot
    BY <1>5 DEF Reaction, Movers, Stops
  <2>4. Heard'
    BY <1>0, <1>2, <2>1, <2>3 DEF StopInv, Heard, Known, Stopped
  <2> QED BY <1>0, <1>3, <2>2, <2>4 DEF StopInv, Sequel
<1> QED BY <1>4, <1>5

\* A command comes in on its way down, or a frame is lost there.
LEMMA DownKeeps ==
  ASSUME LinkTypeOK, StopInv, SendCommand \/ LoseDown
  PROVE  StopInv'
<1>1. UNCHANGED <<txq, g_ack_ok, pc, present_prev, armed_once, ack_pending, up, robot>>
  BY DEF SendCommand, LoseDown, vars, taskVars, localVars
<1>2. Free(down, Acks) => Free(down', Acks)
  <2>1. down \in Seq({"ack", "cmd"})
    BY DEF LinkTypeOK
  <2>2. CASE SendCommand
    <3>1. down' = Append(down, "cmd") /\ "cmd" \notin Acks
      BY <2>2 DEF SendCommand, Acks
    <3> QED BY <2>1, <3>1, FreeAppend
  <2>3. CASE LoseDown
    BY <2>1, <2>3, FreeTail DEF LoseDown
  <2> QED BY <2>2, <2>3
<1> QED BY <1>1, <1>2
        DEF StopInv, Sequel, Ordered, BareBefore, Bare, Heard, Known, Stopped

LEMMA StopStep ==
  LinkTypeOK /\ StopInv /\ QuietReengage /\ [LNext]_lvars => StopInv'
<1> SUFFICES ASSUME LinkTypeOK, StopInv, QuietReengage, [LNext]_lvars PROVE StopInv'
  OBVIOUS
<1>1. CASE UNCHANGED lvars
  BY <1>1 DEF lvars, vars, taskVars, localVars, linkVars, StopInv, Sequel, Ordered,
              BareBefore, Bare, Heard, Known, Stopped
<1> QED BY <1>1, SampleKeeps, ResponseKeeps, TransmitKeeps, AppKeeps, UpKeeps, DownKeeps
        DEF LNext, DeadmanTask, Noise

\* When the robot is stopped, and nothing that would move it is under way, then
\* it stays so.
LEMMA StoppedStays ==
  ASSUME LinkTypeOK, Stopped
  PROVE  WillBeStopped
<1>1. up \in Seq(Message) /\ txq \in Seq(Message)
  BY DEF LinkTypeOK, TypeOK, QueueOK
<1>2. \A i \in 1 .. Len(up \o txq) : (up \o txq)[i] \notin Movers
  BY <1>1 DEF Stopped, Free
<1> QED BY <1>2 DEF WillBeStopped, Stopped, Movers

\* However many frames are lost or garbled on the way up and down, however full
\* the transmit queue gets: with an operator who comes back only when the last
\* stop is settled, a stop that is not open any more is one that the robot has
\* carried out, or will when what is under way has arrived.
THEOREM StopRemembered ==
  ASSUME QuietReengage
  PROVE  LSpec => []StopNeverForgotten
<1>1. ASSUME StopInv, LinkTypeOK PROVE StopNeverForgotten
  <2> SUFFICES ASSUME pc = "sample", ~present_prev, armed_once, ~ack_pending
               PROVE  WillBeStopped
    BY DEF StopNeverForgotten
  <2>1. Stopped
    BY <1>1 DEF StopInv, Heard, Known
  <2> QED BY <1>1, <2>1, StoppedStays
<1>2. LinkTypeOK /\ StopInv /\ [LNext]_lvars => StopInv'
  BY StopStep
<1> QED BY <1>1, <1>2, StopInit, LinkTypeCorrect, PTL DEF LSpec
=============================================================================
