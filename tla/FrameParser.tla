----------------------------- MODULE FrameParser -----------------------------
(***************************************************************************)
(* The parser of parser.c, a state machine fed with one byte at a time.    *)
(* body_index is the length of the body read so far.                       *)
(***************************************************************************)
EXTENDS FrameCodec

VARIABLES
  state,                  \* parser_state_t
  length_field, checksum_field,
  expected_body_length,
  body,
  result,                 \* what parser_consume_byte returned last
  message                 \* the message it built last

fields == <<length_field, checksum_field, expected_body_length, body>>
pvars == <<state, fields, result, message>>

State == {"WAIT_START", "READ_LEN_HI", "READ_LEN_LO", "EXPECT_LEN_SEPARATOR",
          "READ_BODY", "EXPECT_CHECK_SEPARATOR", "READ_CHECK_HI", "READ_CHECK_LO",
          "EXPECT_END"}

PInit ==
  /\ state = "WAIT_START"
  /\ length_field = <<>> /\ checksum_field = <<>>
  /\ expected_body_length = 0 /\ body = <<>>
  /\ result = "IN_PROGRESS" /\ message = Invalid

-----------------------------------------------------------------------------
InProgress(next) == state' = next /\ result' = "IN_PROGRESS" /\ UNCHANGED message

\* parser_reset, but for the state.
Cleared_KeepsIndex == /\ length_field' = <<>> /\ checksum_field' = <<>>
                      /\ expected_body_length' = 0 /\ UNCHANGED body
Cleared == /\ length_field' = <<>> /\ checksum_field' = <<>>
           /\ expected_body_length' = 0 /\ body' = <<>>

\* parser_fail: drop what was read of the frame; the byte that was wrong may
\* be the start of the next one.
AfterFail_Dropped(b) == "WAIT_START"
AfterFail(b) == IF b = StartChar THEN "READ_LEN_HI" ELSE "WAIT_START"
Fail(b) == /\ Cleared
           /\ state' = AfterFail(b)
           /\ result' = "ERROR" /\ UNCHANGED message

\* A declared length has to make sense and fit the buffer.
LengthFits_OffByOne(n) == n # 0 /\ n <= MaxBodySize + 1
LengthFits_Unbounded(n) == n # 0
LengthFits(n) == n # 0 /\ n <= MaxBodySize

\* parser_validate_and_build.  snprintf copies length and body into a buffer of
\* MaxFrameSize + 1 bytes, the body up to a NUL only; the checksum is computed
\* over the copy, when the buffer could take it with its own NUL.
UpToNul(s) == IF \E i \in DOMAIN s : s[i] = Nul
                THEN SubSeq(s, 1, Min({i \in DOMAIN s : s[i] = Nul}) - 1)
                ELSE s
CopyFits == Len(length_field) + 1 + Len(UpToNul(body)) <= MaxFrameSize
ChecksumHolds_Unchecked == TRUE
ChecksumHolds == Checksum(length_field \o <<SeparatorChar>> \o UpToNul(body))
                   = HexValue(checksum_field)
Built == IF CopyFits /\ ChecksumHolds THEN DecodeBody(body) ELSE Invalid

-----------------------------------------------------------------------------
(* parser_consume_byte, one action for each state *)

WaitStart(b) ==
  /\ state = "WAIT_START"
  /\ InProgress(IF b = StartChar THEN "READ_LEN_HI" ELSE "WAIT_START")
  /\ UNCHANGED fields

ReadLenHi(b) ==
  /\ state = "READ_LEN_HI"
  /\ \/ /\ b \in HexChar
        /\ length_field' = <<b>>
        /\ InProgress("READ_LEN_LO")
        /\ UNCHANGED <<checksum_field, expected_body_length, body>>
     \/ b \notin HexChar /\ Fail(b)

ReadLenLo(b) ==
  LET declared == HexValue(Append(length_field, b)) IN
  /\ state = "READ_LEN_LO"
  /\ \/ /\ b \in HexChar /\ LengthFits(declared)
        /\ length_field' = Append(length_field, b)
        /\ expected_body_length' = declared
        /\ InProgress("EXPECT_LEN_SEPARATOR")
        /\ UNCHANGED <<checksum_field, body>>
     \/ ~(b \in HexChar /\ LengthFits(declared)) /\ Fail(b)

ExpectLenSeparator(b) ==
  /\ state = "EXPECT_LEN_SEPARATOR"
  /\ \/ b = SeparatorChar /\ InProgress("READ_BODY") /\ UNCHANGED fields
     \/ b # SeparatorChar /\ Fail(b)

ReadBody(b) ==
  /\ state = "READ_BODY"
  /\ body' = Append(body, b)
  /\ InProgress(IF Len(body) + 1 >= expected_body_length
                  THEN "EXPECT_CHECK_SEPARATOR" ELSE "READ_BODY")
  /\ UNCHANGED <<length_field, checksum_field, expected_body_length>>

ExpectCheckSeparator(b) ==
  /\ state = "EXPECT_CHECK_SEPARATOR"
  /\ \/ b = SeparatorChar /\ InProgress("READ_CHECK_HI") /\ UNCHANGED fields
     \/ b # SeparatorChar /\ Fail(b)

ReadCheckHi(b) ==
  /\ state = "READ_CHECK_HI"
  /\ \/ /\ b \in HexChar
        /\ checksum_field' = <<b>>
        /\ InProgress("READ_CHECK_LO")
        /\ UNCHANGED <<length_field, expected_body_length, body>>
     \/ b \notin HexChar /\ Fail(b)

ReadCheckLo(b) ==
  /\ state = "READ_CHECK_LO"
  /\ \/ /\ b \in HexChar
        /\ checksum_field' = Append(checksum_field, b)
        /\ InProgress("EXPECT_END")
        /\ UNCHANGED <<length_field, expected_body_length, body>>
     \/ b \notin HexChar /\ Fail(b)

ExpectEnd(b) ==
  /\ state = "EXPECT_END"
  /\ \/ /\ b = EndChar /\ Built # Invalid
        /\ Cleared
        /\ state' = "WAIT_START"
        /\ message' = Built
        /\ result' = "MESSAGE_READY"
     \/ ~(b = EndChar /\ Built # Invalid) /\ Fail(b)

\* A carriage return is passed over in every state.
PassOver(b) == b = Return /\ InProgress(state) /\ UNCHANGED fields

Consume(b) ==
  \/ PassOver(b)
  \/ /\ b # Return
     /\ \/ WaitStart(b) \/ ReadLenHi(b) \/ ReadLenLo(b) \/ ExpectLenSeparator(b)
        \/ ReadBody(b) \/ ExpectCheckSeparator(b)
        \/ ReadCheckHi(b) \/ ReadCheckLo(b) \/ ExpectEnd(b)

\* The parser fed with any bytes whatever.
PNext == \E b \in Byte : Consume(b)
ParserSpec == PInit /\ [][PNext]_pvars

-----------------------------------------------------------------------------
\* The parser keeps its types, and its fields the lengths of their buffers.
ParserTypeOK ==
  /\ state \in State
  /\ result \in {"IN_PROGRESS", "MESSAGE_READY", "ERROR"}
  /\ length_field \in Seq(HexChar) /\ Len(length_field) <= 2
  /\ checksum_field \in Seq(HexChar) /\ Len(checksum_field) <= 2
  /\ expected_body_length \in 0 .. MaxBodySize
  /\ body \in Seq(Byte) /\ Len(body) <= MaxBodySize

\* What was read of each part of the frame is what its state says: in
\* particular there is room for one more byte of the body, and of the length
\* declared for it, whenever the parser writes one without looking
\* (parser.c:161-166), and both checksum digits are there in the end.
BeforeBody == {"WAIT_START", "READ_LEN_HI", "READ_LEN_LO", "EXPECT_LEN_SEPARATOR"}
FieldsInStep ==
  /\ state \in BeforeBody => body = <<>>
  /\ state \in {"WAIT_START", "READ_LEN_HI"} => length_field = <<>>
  /\ state = "READ_LEN_LO" => Len(length_field) = 1
  /\ state = "EXPECT_LEN_SEPARATOR" => expected_body_length > 0
  /\ state = "READ_BODY" => Len(body) < expected_body_length
  /\ state \notin BeforeBody \cup {"READ_BODY"} => Len(body) = expected_body_length
  /\ state \notin {"READ_CHECK_LO", "EXPECT_END"} => checksum_field = <<>>
  /\ state = "READ_CHECK_LO" => Len(checksum_field) = 1
  /\ state = "EXPECT_END" => Len(checksum_field) = 2
=============================================================================
