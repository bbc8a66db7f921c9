---------------------------- MODULE ByteChannel ----------------------------
(***************************************************************************)
(* What the reception of bytes promises: a byte from the wire is either    *)
(* taken in, behind those taken in before it, or lost on the spot; one     *)
(* that was taken in reaches the parser, once and in its turn.             *)
(***************************************************************************)
EXTENDS Sequences

CONSTANT Byte

VARIABLES
  inside,     \* the bytes taken in and not yet given to the parser
  delivered   \* the byte the parser was given last, or NoByte

NoByte == "none"
vars == <<inside, delivered>>

Init == inside = <<>> /\ delivered = NoByte

TakeIn == \E b \in Byte : inside' = Append(inside, b) /\ UNCHANGED delivered

Deliver ==
  /\ inside # <<>>
  /\ inside' = Tail(inside)
  /\ delivered' = Head(inside)

Next == TakeIn \/ Deliver

\* Nothing that was taken in stays inside for ever.
Spec == Init /\ [][Next]_vars /\ WF_vars(Deliver)
=============================================================================
