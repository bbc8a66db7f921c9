----------------------------- MODULE FrameCodec -----------------------------
(***************************************************************************)
(* The frames of protocol.c: '@LL:TTT:PAYLOAD:CC' and a newline, where LL  *)
(* is the length of the body TTT:PAYLOAD and CC the XOR of LL:TTT:PAYLOAD, *)
(* both in two upper case hexadecimal digits.  A byte is its ASCII code.   *)
(***************************************************************************)
EXTENDS Naturals, Sequences, FiniteSets, FiniteSetsExt

CONSTANTS
  MaxPayload,      \* PROTOCOL_MAX_PAYLOAD_LENGTH, 48
  MaxFrameSize     \* PROTOCOL_MAX_FRAME_SIZE, 64

\* The length of a body is sent in two hexadecimal digits.
ASSUME CodecAssumption == MaxPayload \in 1 .. 251 /\ MaxFrameSize \in Nat

Byte == 0 .. 255
StartChar == 64       \* '@'
SeparatorChar == 58   \* ':'
EndChar == 10         \* newline
Return == 13          \* carriage return
Nul == 0

TypeLength == 3
MaxBodySize == TypeLength + 1 + MaxPayload

\* protocol_type_to_text, for the types the protocol knows.
TypeText == [CMD |-> <<67, 77, 68>>, DAT |-> <<68, 65, 84>>, EVT |-> <<69, 86, 84>>,
             STS |-> <<83, 84, 83>>, ACK |-> <<65, 67, 75>>, ERR |-> <<69, 82, 82>>]
Type == DOMAIN TypeText

Invalid == [type |-> "INVALID", payload |-> <<>>]

-----------------------------------------------------------------------------
\* hex_char_to_nibble: its domain are the characters it accepts.
Digits == 48 .. 57
UpperLetters == 65 .. 70
HexChar == Digits \cup UpperLetters
Nibble(c) == IF c \in Digits THEN c - 48 ELSE c - 65 + 10

\* %02X
HexDigit(n) == IF n < 10 THEN n + 48 ELSE n - 10 + 65
Hex(n) == <<HexDigit(n \div 16), HexDigit(n % 16)>>

HexValue(field) == Nibble(field[1]) * 16 + Nibble(field[2])

\* protocol_compute_checksum: a bit of the XOR is set when an odd number of
\* bytes has it set.  A bit is named by what it is worth.
Bit(w, byte) == (byte \div w) % 2
Parity(w, data) == Cardinality({k \in DOMAIN data : Bit(w, data[k]) = 1}) % 2
Checksum(data) ==
  128 * Parity(128, data) + 64 * Parity(64, data) + 32 * Parity(32, data)
    + 16 * Parity(16, data) + 8 * Parity(8, data) + 4 * Parity(4, data)
    + 2 * Parity(2, data) + Parity(1, data)

-----------------------------------------------------------------------------
\* protocol_encode_frame
Body(m) == TypeText[m.type] \o <<SeparatorChar>> \o m.payload
ChecksumInput(m) == Hex(Len(Body(m))) \o <<SeparatorChar>> \o Body(m)
Frame(m) == <<StartChar>> \o ChecksumInput(m) \o <<SeparatorChar>>
              \o Hex(Checksum(ChecksumInput(m))) \o <<EndChar>>
Encodable(m) == /\ m.type \in Type
                /\ Len(m.payload) <= MaxPayload
                /\ Len(Frame(m)) < MaxFrameSize

\* protocol_decode_body: the message in a body, or Invalid.
DecodeBody(body) ==
  IF /\ Len(body) >= TypeLength + 2
     /\ body[TypeLength + 1] = SeparatorChar
     /\ Len(body) - TypeLength - 1 <= MaxPayload
     /\ \E t \in Type : TypeText[t] = SubSeq(body, 1, TypeLength)
    THEN [type |-> CHOOSE t \in Type : TypeText[t] = SubSeq(body, 1, TypeLength),
          payload |-> SubSeq(body, TypeLength + 2, Len(body))]
    ELSE Invalid
=============================================================================
