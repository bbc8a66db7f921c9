------------------------------ MODULE NoisyLine ------------------------------
(***************************************************************************)
(* The parser at the end of a serial line that may lose or garble bytes:   *)
(* usart1_isr drops a byte when its queue is full (uart_comm.c:84), and    *)
(* noise changes one, which is what the checksum is there for              *)
(* (protocol.c:95-96).  A frame has at most one garbled byte.              *)
(***************************************************************************)
EXTENDS FrameParser, SequencesExt

CONSTANTS
  Messages,       \* the messages that are sent
  NoiseBytes,     \* what a garbled byte may turn into
  MaxFrames,      \* bound: frames that are sent
  MaxFaults       \* bound: bytes lost or garbled

ASSUME LineAssumption ==
  /\ Messages \subseteq [type : Type, payload : Seq(Byte)]
  /\ \A m \in Messages : Encodable(m)
  /\ NoiseBytes \subseteq Byte
  /\ MaxFrames \in Nat /\ MaxFaults \in Nat

VARIABLES
  line,           \* the bytes still to come of the frame being sent
  sent,           \* the messages sent, the one being sent included
  got,            \* the messages the parser delivered
  lost, garbled,  \* the faults so far
  spoilt,         \* a byte of the frame being sent was garbled
  hit,            \* a byte of the frame being sent was garbled or lost
  found,          \* its start was not taken for a byte of another body
  calm            \* intact bytes since the last fault, up to CalmLimit

lvars == <<pvars, line, sent, got, lost, garbled, spoilt, hit, found, calm>>

\* The longest body a wrong length may make the parser swallow, with the
\* length field in front of it.
Blackout == MaxBodySize + 3
CalmLimit == Blackout + MaxFrameSize

LineInit ==
  /\ PInit
  /\ line = <<>> /\ sent = <<>> /\ got = <<>>
  /\ lost = 0 /\ garbled = 0 /\ spoilt = FALSE /\ hit = FALSE /\ found = TRUE
  /\ calm = CalmLimit

SendFrame(m) ==
  /\ line = <<>> /\ Len(sent) < MaxFrames
  /\ line' = Frame(m)
  /\ sent' = Append(sent, m)
  /\ spoilt' = FALSE /\ hit' = FALSE /\ found' = TRUE
  /\ UNCHANGED <<pvars, got, lost, garbled, calm>>

\* task_parser takes a byte and hands on the message it completes.
Parse(b) ==
  /\ Consume(b)
  /\ got' = IF result' = "MESSAGE_READY" THEN Append(got, message') ELSE got
  /\ line' = Tail(line)
  /\ found' = (found /\ ~(Head(line) = StartChar /\ state = "READ_BODY"))

Arrive ==
  /\ line # <<>>
  /\ Parse(Head(line))
  /\ calm' = IF calm < CalmLimit THEN calm + 1 ELSE calm
  /\ UNCHANGED <<sent, lost, garbled, spoilt, hit>>

Garble(b) ==
  /\ line # <<>> /\ b # Head(line) /\ ~spoilt /\ lost + garbled < MaxFaults
  /\ Parse(b)
  /\ garbled' = garbled + 1
  /\ spoilt' = TRUE /\ hit' = TRUE /\ calm' = 0
  /\ UNCHANGED <<sent, lost>>

Lose ==
  /\ line # <<>> /\ lost + garbled < MaxFaults
  /\ line' = Tail(line)
  /\ lost' = lost + 1
  /\ hit' = TRUE /\ calm' = 0
  /\ UNCHANGED <<pvars, sent, got, garbled, spoilt, found>>

\* All frames are sent.
Quiescent == line = <<>> /\ Len(sent) = MaxFrames /\ UNCHANGED lvars

LineNext == \/ \E m \in Messages : SendFrame(m)
            \/ Arrive
            \/ \E b \in NoiseBytes : Garble(b)
            \/ Lose
            \/ Quiescent

LineSpec == LineInit /\ [][LineNext]_lvars

-----------------------------------------------------------------------------
\* protocol.c:95-96: what was damaged is detected.  The parser delivers
\* messages that were sent, each at most once and in their order.
IsSubsequence(s, t) ==
  \E f \in [1 .. Len(s) -> 1 .. Len(t)] :
    /\ \A i \in 1 .. Len(s) : s[i] = t[f[i]]
    /\ \A i, j \in 1 .. Len(s) : i < j => f[i] < f[j]
NothingForged == IsSubsequence(got, sent)

\* A lost byte never costs more than one message, however it shifts the rest.
LossCostsOneMessage ==
  line = <<>> /\ garbled = 0 => Len(sent) - Len(got) <= lost

FrameEnds == line # <<>> /\ line' = <<>>

\* parser.c:30-33: the byte that made a frame fail may be the start of the
\* next one.  A frame that arrives intact is delivered by its last byte,
\* unless its start was swallowed as a part of another body.
IntactDelivered ==
  [][FrameEnds /\ ~hit' /\ found => got' = Append(got, Last(sent))]_lvars

\* A garbled length swallows frames behind it, but not for ever: a frame that
\* starts more than Blackout bytes after the last fault is delivered.
BlackoutEnds ==
  [][FrameEnds /\ ~hit' /\ calm - (Len(Frame(Last(sent))) - 1) >= Blackout
      => got' = Append(got, Last(sent))]_lvars
=============================================================================
