-------------------------- MODULE FrameParserProofs --------------------------
(***************************************************************************)
(* For all lengths of the payload buffer and any bytes on the line, the    *)
(* parser never reads a body past its buffer or past its declared length.  *)
(* What the codec writes it reads back, and one wrong byte it refuses. A   *)
(* parser that one fault brought out of step delivers nothing either, until*)
(* it finds a start again (Adrift).                                        *)
(***************************************************************************)
EXTENDS FrameParser, FiniteSetTheorems, SequenceTheorems, Integers, TLAPS

ParserInv == ParserTypeOK /\ FieldsInStep

-----------------------------------------------------------------------------
\* A hexadecimal character stands for a number below 16.
LEMMA NibbleRange ==
  ASSUME NEW c \in HexChar
  PROVE  Nibble(c) \in 0 .. 15
BY DEF HexChar, Digits, UpperLetters, Nibble

\* parser.c:134-144: two hexadecimal characters declare a natural number.
LEMMA DeclaredIsNatural ==
  ASSUME NEW s \in Seq(HexChar), Len(s) = 1, NEW b \in HexChar
  PROVE  HexValue(Append(s, b)) \in Nat
<1>1. s[1] \in HexChar
  BY ElementOfSeq
<1>2. Append(s, b)[1] = s[1] /\ Append(s, b)[2] = b
  <2>1. Append(s, b)[Len(s) + 1] = b
    BY AppendProperties
  <2>2. \A i \in 1 .. Len(s) : Append(s, b)[i] = s[i]
    BY AppendProperties
  <2>3. Len(s) + 1 = 2 /\ 1 \in 1 .. Len(s)
    OBVIOUS
  <2> QED BY <2>1, <2>2, <2>3, Zenon
<1>3. Nibble(s[1]) \in 0 .. 15 /\ Nibble(b) \in 0 .. 15
  BY <1>1, NibbleRange
<1>4. HexValue(Append(s, b)) = Nibble(s[1]) * 16 + Nibble(b)
  BY <1>2, Zenon DEF HexValue
<1>5. \A x, y \in 0 .. 15 : x * 16 + y \in Nat
  OBVIOUS
<1> QED BY <1>3, <1>4, <1>5, Zenon

\* The maximal length of a body is a natural number.
LEMMA MaxBodyIsNatural == MaxBodySize \in Nat
BY CodecAssumption DEF MaxBodySize, TypeLength

\* A sequence that grows by one element.
LEMMA Grown ==
  ASSUME NEW S, NEW s \in Seq(S), NEW e \in S
  PROVE  /\ Append(s, e) \in Seq(S) /\ Len(Append(s, e)) = Len(s) + 1
         /\ <<e>> \in Seq(S) /\ Len(<<e>>) = 1
         /\ <<>> \in Seq(S) /\ Len(<<>>) = 0
         /\ Len(s) \in Nat
BY AppendProperties, LenProperties, EmptySeq

\* A parser that gives up is as good as a new one.
LEMMA FailKeepsInv ==
  ASSUME NEW b, Fail(b)
  PROVE  ParserInv'
<1> USE MaxBodyIsNatural
<1>1. /\ length_field' = <<>> /\ checksum_field' = <<>> /\ body' = <<>>
      /\ expected_body_length' = 0 /\ result' = "ERROR"
      /\ state' \in {"WAIT_START", "READ_LEN_HI"}
  BY DEF Fail, Cleared, AfterFail
<1>2. ParserTypeOK'
  BY <1>1 DEF ParserTypeOK, State
<1>3. FieldsInStep'
  BY <1>1 DEF FieldsInStep, BeforeBody
<1> QED BY <1>2, <1>3 DEF ParserInv

-----------------------------------------------------------------------------
\* parser_consume_byte keeps the invariant, whatever byte it is given.
LEMMA ConsumeKeepsInv ==
  ASSUME ParserInv, NEW b \in Byte, Consume(b)
  PROVE  ParserInv'
<1> USE MaxBodyIsNatural
<1>0. ParserTypeOK /\ FieldsInStep
  BY DEF ParserInv
<1>1. CASE PassOver(b)
  BY <1>0, <1>1 DEF PassOver, InProgress, fields, ParserInv, ParserTypeOK, FieldsInStep
<1>2. CASE WaitStart(b)
  BY <1>0, <1>2 DEF WaitStart, InProgress, fields, ParserInv, ParserTypeOK,
                    FieldsInStep, BeforeBody, State
<1>3. CASE ReadLenHi(b)
  <2>1. CASE Fail(b)
    BY <2>1, FailKeepsInv
  <2>2. CASE /\ b \in HexChar
             /\ length_field' = <<b>>
             /\ InProgress("READ_LEN_LO")
             /\ UNCHANGED <<checksum_field, expected_body_length, body>>
    <3>1. length_field' \in Seq(HexChar) /\ Len(length_field') = 1
      BY <2>2
    <3> QED BY <1>0, <1>3, <2>2, <3>1 DEF ReadLenHi, InProgress, ParserInv,
              ParserTypeOK, FieldsInStep, BeforeBody, State
  <2> QED BY <1>3, <2>1, <2>2 DEF ReadLenHi
<1>4. CASE ReadLenLo(b)
  <2> DEFINE declared == HexValue(Append(length_field, b))
  <2>1. CASE Fail(b)
    BY <2>1, FailKeepsInv
  <2>2. CASE /\ b \in HexChar /\ LengthFits(declared)
             /\ length_field' = Append(length_field, b)
             /\ expected_body_length' = declared
             /\ InProgress("EXPECT_LEN_SEPARATOR")
             /\ UNCHANGED <<checksum_field, body>>
    <3>1. length_field \in Seq(HexChar) /\ Len(length_field) = 1
      BY <1>0, <1>4 DEF ReadLenLo, ParserTypeOK, FieldsInStep
    <3>2. declared \in 0 .. MaxBodySize /\ declared > 0
      BY <2>2, <3>1, DeclaredIsNatural DEF LengthFits
    <3>3. length_field' \in Seq(HexChar) /\ Len(length_field') <= 2
      <4>1. /\ Append(length_field, b) \in Seq(HexChar)
            /\ Len(Append(length_field, b)) = Len(length_field) + 1
        BY <2>2, <3>1, Grown, Zenon
      <4> QED BY <2>2, <3>1, <4>1
    <3>4. expected_body_length' \in 0 .. MaxBodySize /\ expected_body_length' > 0
      BY <2>2, <3>2
    <3>5. /\ state = "READ_LEN_LO"
          /\ state' = "EXPECT_LEN_SEPARATOR" /\ result' = "IN_PROGRESS"
          /\ UNCHANGED <<checksum_field, body>>
      BY <1>4, <2>2 DEF InProgress, ReadLenLo
    <3> HIDE DEF declared
    <3> QED BY <1>0, <3>3, <3>4, <3>5 DEF ParserInv, ParserTypeOK, FieldsInStep,
              BeforeBody, State
  <2> QED BY <1>4, <2>1, <2>2 DEF ReadLenLo
<1>5. CASE ExpectLenSeparator(b)
  <2>1. CASE Fail(b)
    BY <2>1, FailKeepsInv
  <2>2. CASE InProgress("READ_BODY") /\ UNCHANGED fields
    <3>1. Len(<<>>) = 0
      OBVIOUS
    <3> QED BY <1>0, <1>5, <2>2, <3>1 DEF ExpectLenSeparator, InProgress, fields,
              ParserInv, ParserTypeOK, FieldsInStep, BeforeBody, State
  <2> QED BY <1>5, <2>1, <2>2 DEF ExpectLenSeparator
<1>6. CASE ReadBody(b)
  <2>1. /\ state = "READ_BODY" /\ body' = Append(body, b)
        /\ state' = IF Len(body) + 1 >= expected_body_length
                      THEN "EXPECT_CHECK_SEPARATOR" ELSE "READ_BODY"
        /\ result' = "IN_PROGRESS"
        /\ UNCHANGED <<length_field, checksum_field, expected_body_length>>
    BY <1>6 DEF ReadBody, InProgress
  <2>2. /\ body' \in Seq(Byte) /\ Len(body') = Len(body) + 1 /\ Len(body) \in Nat
    BY <1>0, <2>1, Grown DEF ParserTypeOK
  <2>3. Len(body) < expected_body_length /\ expected_body_length \in 0 .. MaxBodySize
    BY <1>0, <2>1 DEF ParserTypeOK, FieldsInStep
  <2>4. ParserTypeOK'
    BY <1>0, <2>1, <2>2, <2>3 DEF ParserTypeOK, State
  <2>5. FieldsInStep'
    BY <1>0, <2>1, <2>2, <2>3 DEF FieldsInStep, BeforeBody
  <2> QED BY <2>4, <2>5 DEF ParserInv
<1>7. CASE ExpectCheckSeparator(b)
  <2>1. CASE Fail(b)
    BY <2>1, FailKeepsInv
  <2>2. CASE InProgress("READ_CHECK_HI") /\ UNCHANGED fields
    BY <1>0, <1>7, <2>2 DEF ExpectCheckSeparator, InProgress, fields, ParserInv,
       ParserTypeOK, FieldsInStep, BeforeBody, State
  <2> QED BY <1>7, <2>1, <2>2 DEF ExpectCheckSeparator
<1>8. CASE ReadCheckHi(b)
  <2>1. CASE Fail(b)
    BY <2>1, FailKeepsInv
  <2>2. CASE /\ b \in HexChar
             /\ checksum_field' = <<b>>
             /\ InProgress("READ_CHECK_LO")
             /\ UNCHANGED <<length_field, expected_body_length, body>>
    <3>1. checksum_field' \in Seq(HexChar) /\ Len(checksum_field') = 1
      BY <2>2
    <3> QED BY <1>0, <1>8, <2>2, <3>1 DEF ReadCheckHi, InProgress, ParserInv,
              ParserTypeOK, FieldsInStep, BeforeBody, State
  <2> QED BY <1>8, <2>1, <2>2 DEF ReadCheckHi
<1>9. CASE ReadCheckLo(b)
  <2>1. CASE Fail(b)
    BY <2>1, FailKeepsInv
  <2>2. CASE /\ b \in HexChar
             /\ checksum_field' = Append(checksum_field, b)
             /\ InProgress("EXPECT_END")
             /\ UNCHANGED <<length_field, expected_body_length, body>>
    <3>1. state = "READ_CHECK_LO" /\ Len(checksum_field) = 1
      BY <1>0, <1>9 DEF ReadCheckLo, FieldsInStep
    <3>2. checksum_field' \in Seq(HexChar) /\ Len(checksum_field') = 2
      <4>1. checksum_field \in Seq(HexChar)
        BY <1>0 DEF ParserTypeOK
      <4>2. /\ Append(checksum_field, b) \in Seq(HexChar)
            /\ Len(Append(checksum_field, b)) = Len(checksum_field) + 1
        BY <2>2, <4>1, Grown, Zenon
      <4> QED BY <2>2, <3>1, <4>2
    <3> QED BY <1>0, <2>2, <3>1, <3>2 DEF InProgress, ParserInv, ParserTypeOK,
              FieldsInStep, BeforeBody, State
  <2> QED BY <1>9, <2>1, <2>2 DEF ReadCheckLo
<1>10. CASE ExpectEnd(b)
  <2>1. CASE Fail(b)
    BY <2>1, FailKeepsInv
  <2>2. CASE Cleared /\ state' = "WAIT_START" /\ result' = "MESSAGE_READY"
    BY <2>2 DEF Cleared, ParserInv, ParserTypeOK, FieldsInStep, BeforeBody, State
  <2> QED BY <1>10, <2>1, <2>2 DEF ExpectEnd
<1> QED BY <1>1, <1>2, <1>3, <1>4, <1>5, <1>6, <1>7, <1>8, <1>9, <1>10 DEF Consume

-----------------------------------------------------------------------------
\* The types and FieldsInStep together are inductive: neither holds up alone,
\* for the length declared is what bounds the body.
LEMMA ParserInvHolds == ParserSpec => []ParserInv
<1>1. PInit => ParserInv
  BY MaxBodyIsNatural DEF PInit, ParserInv, ParserTypeOK, FieldsInStep, BeforeBody, State
<1>2. ParserInv /\ [PNext]_pvars => ParserInv'
  <2> SUFFICES ASSUME ParserInv, [PNext]_pvars
               PROVE  ParserInv'
    OBVIOUS
  <2>1. CASE PNext
    BY <2>1, ConsumeKeepsInv DEF PNext
  <2>2. CASE UNCHANGED pvars
    BY <2>2 DEF pvars, fields, ParserInv, ParserTypeOK, FieldsInStep
  <2> QED BY <2>1, <2>2
<1> QED BY <1>1, <1>2, PTL DEF ParserSpec

\* Whatever bytes come in, no field of the parser outgrows its buffer.
THEOREM ParserTypeCorrect == ParserSpec => []ParserTypeOK
BY ParserInvHolds, PTL DEF ParserInv

\* Whatever bytes come in, the parser only writes a byte of a body while there
\* is room for it, and validates a frame only with all its parts read.
THEOREM BodyNeverOverruns == ParserSpec => []FieldsInStep
BY ParserInvHolds, PTL DEF ParserInv

-----------------------------------------------------------------------------
(* Sequences *)

\* What stands where in a concatenation.
LEMMA ConcatAt ==
  ASSUME NEW S, NEW s \in Seq(S), NEW t \in Seq(S)
  PROVE  /\ s \o t \in Seq(S) /\ Len(s \o t) = Len(s) + Len(t)
         /\ \A i \in 1 .. Len(s) : (s \o t)[i] = s[i]
         /\ \A i \in 1 .. Len(t) : (s \o t)[Len(s) + i] = t[i]
<1>1. /\ s \o t \in Seq(S) /\ Len(s \o t) = Len(s) + Len(t)
      /\ \A i \in 1 .. Len(s) + Len(t) :
           (s \o t)[i] = IF i <= Len(s) THEN s[i] ELSE t[i - Len(s)]
  BY ConcatProperties
<1>2. Len(s) \in Nat /\ Len(t) \in Nat
  OBVIOUS
<1>3. ASSUME NEW i \in 1 .. Len(s)
      PROVE  (s \o t)[i] = s[i]
  <2>1. i \in 1 .. Len(s) + Len(t) /\ i <= Len(s)
    BY <1>2, <1>3
  <2> QED BY <1>1, <2>1
<1>4. ASSUME NEW i \in 1 .. Len(t)
      PROVE  (s \o t)[Len(s) + i] = t[i]
  <2>1. Len(s) + i \in 1 .. Len(s) + Len(t) /\ ~(Len(s) + i <= Len(s))
    BY <1>2, <1>4
  <2>2. Len(s) + i - Len(s) = i
    BY <1>2, <1>4
  <2>3. (s \o t)[Len(s) + i] = t[Len(s) + i - Len(s)]
    BY <1>1, <2>1
  <2> QED BY <2>2, <2>3
<1> QED BY <1>1, <1>3, <1>4

LEMMA BytesAt ==
  ASSUME NEW s \in Seq(Byte), NEW t \in Seq(Byte), NEW u, u = s \o t
  PROVE  /\ u \in Seq(Byte) /\ Len(u) = Len(s) + Len(t)
         /\ \A i \in 1 .. Len(s) : u[i] = s[i]
         /\ \A i \in 1 .. Len(t) : u[Len(s) + i] = t[i]
BY ConcatAt

\* Two sequences of the same length and elements are the same.
LEMMA SameSequence ==
  ASSUME NEW S, NEW s \in Seq(S), NEW t \in Seq(S), Len(s) = Len(t),
         \A i \in 1 .. Len(s) : s[i] = t[i]
  PROVE  s = t
BY SeqEqual

\* Two digits make a field.
LEMMA PairAppended ==
  ASSUME NEW S, NEW a \in S, NEW b \in S
  PROVE  Append(<<a>>, b) = <<a, b>>
<1>1. /\ <<a>> \in Seq(S) /\ <<a, b>> \in Seq(S)
      /\ Len(<<a>>) = 1 /\ Len(<<a, b>>) = 2
  OBVIOUS
<1>2. /\ Append(<<a>>, b) \in Seq(S) /\ Len(Append(<<a>>, b)) = 2
      /\ \A i \in 1 .. 1 : Append(<<a>>, b)[i] = <<a>>[i]
      /\ Append(<<a>>, b)[2] = b
  BY <1>1, AppendProperties
<1>3. \A i \in 1 .. 2 : Append(<<a>>, b)[i] = <<a, b>>[i]
  BY <1>2
<1> QED BY <1>1, <1>2, <1>3, SeqEqual

-----------------------------------------------------------------------------
(* The codec *)

\* A digit is read back as the number it was written for.
LEMMA DigitRead ==
  ASSUME NEW n \in 0 .. 15
  PROVE  HexDigit(n) \in HexChar /\ Nibble(HexDigit(n)) = n
BY DEF HexDigit, HexChar, Digits, UpperLetters, Nibble

\* Two digits are read back as the number of a byte they were written for.
LEMMA HexRead ==
  ASSUME NEW n \in Byte
  PROVE  /\ Hex(n) \in Seq(HexChar) /\ Len(Hex(n)) = 2
         /\ Hex(n)[1] \in HexChar /\ Hex(n)[2] \in HexChar
         /\ Hex(n) = <<Hex(n)[1], Hex(n)[2]>>
         /\ HexValue(Hex(n)) = n
<1>1. n \div 16 \in 0 .. 15 /\ n % 16 \in 0 .. 15 /\ n = 16 * (n \div 16) + (n % 16)
  BY DEF Byte
<1>2. /\ HexDigit(n \div 16) \in HexChar /\ Nibble(HexDigit(n \div 16)) = n \div 16
      /\ HexDigit(n % 16) \in HexChar /\ Nibble(HexDigit(n % 16)) = n % 16
  BY <1>1, DigitRead, Zenon
<1>3. /\ Hex(n) = <<HexDigit(n \div 16), HexDigit(n % 16)>>
      /\ Hex(n)[1] = HexDigit(n \div 16) /\ Hex(n)[2] = HexDigit(n % 16)
  BY DEF Hex
<1>4. Hex(n) \in Seq(HexChar) /\ Len(Hex(n)) = 2
  BY <1>2, <1>3
<1>5. HexValue(Hex(n)) = (n \div 16) * 16 + (n % 16)
  BY <1>2, <1>3, Zenon DEF HexValue
<1>6. HexValue(Hex(n)) = n
  BY <1>1, <1>5
<1> QED BY <1>2, <1>3, <1>4, <1>6, Zenon

\* None of the characters with a meaning of their own is a digit.
LEMMA HexCharIsByte ==
  /\ HexChar \subseteq Byte
  /\ SeparatorChar \notin HexChar /\ StartChar \notin HexChar /\ EndChar \notin HexChar
  /\ Return \notin HexChar /\ Nul \notin HexChar
BY DEF HexChar, Digits, UpperLetters, Byte, SeparatorChar, StartChar, EndChar, Return, Nul

\* A parity is a bit.
LEMMA ParityIsBit ==
  ASSUME NEW w, NEW data \in Seq(Byte)
  PROVE  Parity(w, data) \in 0 .. 1
<1> DEFINE K == {k \in DOMAIN data : Bit(w, data[k]) = 1}
<1>1. IsFiniteSet(DOMAIN data)
  <2>1. DOMAIN data = 1 .. Len(data) /\ 1 \in Int /\ Len(data) \in Int
    OBVIOUS
  <2>2. IsFiniteSet(1 .. Len(data))
    BY <2>1, FS_Interval
  <2> QED BY <2>1, <2>2, Zenon
<1>2. IsFiniteSet(K)
  BY <1>1, FS_Subset
<1>3. Cardinality(K) \in Nat
  BY <1>2, FS_CardinalityType
<1>4. \A n \in Nat : n % 2 \in 0 .. 1
  OBVIOUS
<1> HIDE DEF K
<1>5. Cardinality(K) % 2 \in 0 .. 1
  BY <1>3, <1>4, Zenon
<1> QED BY <1>5, Zenon DEF Parity, K

\* The checksum is a byte.
LEMMA ChecksumIsByte ==
  ASSUME NEW data \in Seq(Byte)
  PROVE  Checksum(data) \in Byte
<1> DEFINE a == Parity(128, data)  b == Parity(64, data)  c == Parity(32, data)
           d == Parity(16, data)  e == Parity(8, data)  f == Parity(4, data)
           g == Parity(2, data)  h == Parity(1, data)
<1>1. /\ a \in 0 .. 1 /\ b \in 0 .. 1 /\ c \in 0 .. 1 /\ d \in 0 .. 1
      /\ e \in 0 .. 1 /\ f \in 0 .. 1 /\ g \in 0 .. 1 /\ h \in 0 .. 1
  BY ParityIsBit, Zenon
<1>2. Checksum(data) = 128 * a + 64 * b + 32 * c + 16 * d + 8 * e + 4 * f + 2 * g + h
  BY DEF Checksum
<1> HIDE DEF a, b, c, d, e, f, g, h
<1> QED BY <1>1, <1>2 DEF Byte

\* The bits of a byte, and what they are worth.
Worths == {1, 2, 4, 8, 16, 32, 64, 128}

LEMMA BitIsBit ==
  ASSUME NEW w \in Worths, NEW a \in Byte
  PROVE  Bit(w, a) \in 0 .. 1
BY DEF Worths, Byte, Bit

\* A byte is what its bits are worth, so that different bytes differ in a bit.
LEMMA BitsTell ==
  ASSUME NEW a \in Byte, NEW b \in Byte, \A w \in Worths : Bit(w, a) = Bit(w, b)
  PROVE  a = b
<1>1. \A c \in Byte :
        c = 128 * Bit(128, c) + 64 * Bit(64, c) + 32 * Bit(32, c) + 16 * Bit(16, c)
              + 8 * Bit(8, c) + 4 * Bit(4, c) + 2 * Bit(2, c) + Bit(1, c)
  BY DEF Byte, Bit
<1>2. /\ Bit(128, a) = Bit(128, b) /\ Bit(64, a) = Bit(64, b) /\ Bit(32, a) = Bit(32, b)
      /\ Bit(16, a) = Bit(16, b) /\ Bit(8, a) = Bit(8, b) /\ Bit(4, a) = Bit(4, b)
      /\ Bit(2, a) = Bit(2, b) /\ Bit(1, a) = Bit(1, b)
  BY DEF Worths
<1> QED BY <1>1, <1>2

\* Data that differ in one byte only.
DifferAt(k, new, data) ==
  /\ Len(new) = Len(data) /\ k \in 1 .. Len(data) /\ new[k] # data[k]
  /\ \A i \in 1 .. Len(data) : i # k => new[i] = data[i]

\* A byte that changes a bit changes the parity of the bit.
LEMMA ParityFlips ==
  ASSUME NEW w \in Worths, NEW data \in Seq(Byte), NEW new \in Seq(Byte),
         NEW k, DifferAt(k, new, data), Bit(w, new[k]) # Bit(w, data[k])
  PROVE  Parity(w, new) # Parity(w, data)
<1> DEFINE K == {i \in DOMAIN data : Bit(w, data[i]) = 1}
           N == {i \in DOMAIN new : Bit(w, new[i]) = 1}
<1>1. /\ DOMAIN data = 1 .. Len(data) /\ DOMAIN new = DOMAIN data /\ k \in DOMAIN data
      /\ new[k] \in Byte /\ data[k] \in Byte
      /\ \A i \in DOMAIN data : i # k => new[i] = data[i]
  BY DEF DifferAt
<1>2. Bit(w, new[k]) \in 0 .. 1 /\ Bit(w, data[k]) \in 0 .. 1
  BY <1>1, BitIsBit
<1>3. IsFiniteSet(K) /\ IsFiniteSet(N)
  <2>1. 1 \in Int /\ Len(data) \in Int
    OBVIOUS
  <2>2. IsFiniteSet(DOMAIN data)
    BY <1>1, <2>1, FS_Interval, Zenon
  <2> QED BY <1>1, <2>2, FS_Subset
<1>4. \/ k \notin K /\ N = K \cup {k}
      \/ k \notin N /\ K = N \cup {k}
  <2>1. \/ Bit(w, new[k]) = 1 /\ Bit(w, data[k]) = 0
        \/ Bit(w, new[k]) = 0 /\ Bit(w, data[k]) = 1
    BY <1>2
  <2>2. k \in DOMAIN data /\ 0 # 1
    BY <1>1
  <2> QED BY <1>1, <2>1, <2>2, Zenon
<1> HIDE DEF K, N
<1>5. /\ Cardinality(K) \in Nat /\ Cardinality(N) \in Nat
      /\ \/ Cardinality(N) = Cardinality(K) + 1
         \/ Cardinality(K) = Cardinality(N) + 1
  BY <1>3, <1>4, FS_CardinalityType, FS_AddElement, Zenon
<1>6. \A x, y \in Nat : y = x + 1 => x % 2 # y % 2
  OBVIOUS
<1>7. Cardinality(K) % 2 # Cardinality(N) % 2
  BY <1>5, <1>6, Zenon
<1> QED BY <1>7, Zenon DEF Parity, K, N

\* protocol.c:95-96: whatever the data, a single byte that changes changes the
\* checksum, so that the validation may find out.
THEOREM OneByteDetected ==
  ASSUME NEW data \in Seq(Byte), NEW new \in Seq(Byte), NEW k, DifferAt(k, new, data)
  PROVE  Checksum(new) # Checksum(data)
<1>1. new[k] \in Byte /\ data[k] \in Byte /\ new[k] # data[k]
  BY DEF DifferAt
<1>2. PICK w \in Worths : Bit(w, new[k]) # Bit(w, data[k])
  BY <1>1, BitsTell
<1>3. Parity(w, new) # Parity(w, data)
  BY <1>2, ParityFlips
<1>4. \A v \in Worths : Parity(v, new) \in 0 .. 1 /\ Parity(v, data) \in 0 .. 1
  BY ParityIsBit
<1>5. ASSUME Checksum(new) = Checksum(data)
      PROVE  \A v \in Worths : Parity(v, new) = Parity(v, data)
  <2> DEFINE a == Parity(128, new)   aa == Parity(128, data)
             c == Parity(64, new)    cc == Parity(64, data)
             d == Parity(32, new)    dd == Parity(32, data)
             e == Parity(16, new)    ee == Parity(16, data)
             f == Parity(8, new)     ff == Parity(8, data)
             g == Parity(4, new)     gg == Parity(4, data)
             h == Parity(2, new)     hh == Parity(2, data)
             i == Parity(1, new)     ii == Parity(1, data)
  <2>1. /\ a \in 0 .. 1 /\ c \in 0 .. 1 /\ d \in 0 .. 1 /\ e \in 0 .. 1
        /\ f \in 0 .. 1 /\ g \in 0 .. 1 /\ h \in 0 .. 1 /\ i \in 0 .. 1
        /\ aa \in 0 .. 1 /\ cc \in 0 .. 1 /\ dd \in 0 .. 1 /\ ee \in 0 .. 1
        /\ ff \in 0 .. 1 /\ gg \in 0 .. 1 /\ hh \in 0 .. 1 /\ ii \in 0 .. 1
    BY <1>4 DEF Worths
  <2>2. 128 * a + 64 * c + 32 * d + 16 * e + 8 * f + 4 * g + 2 * h + i
          = 128 * aa + 64 * cc + 32 * dd + 16 * ee + 8 * ff + 4 * gg + 2 * hh + ii
    BY <1>5 DEF Checksum
  <2>3. /\ a = aa /\ c = cc /\ d = dd /\ e = ee
        /\ f = ff /\ g = gg /\ h = hh /\ i = ii
    <3> HIDE DEF a, c, d, e, f, g, h, i, aa, cc, dd, ee, ff, gg, hh, ii
    <3> QED BY <2>1, <2>2
  <2> QED BY <2>3 DEF Worths
<1> QED BY <1>2, <1>3, <1>5

-----------------------------------------------------------------------------
(* Messages and their frames *)

Message == [type : Type, payload : Seq(Byte)]

\* What the firmware sends and the parser can read back: protocol_decode_body
\* wants a payload, the payload of a message is a C string, and
\* parser_consume_byte passes over carriage returns.
Legible(m) == /\ Encodable(m) /\ m.payload # <<>>
              /\ \A i \in 1 .. Len(m.payload) : m.payload[i] \notin {Nul, Return}

\* Characters without a meaning of their own.
Letter == 65 .. 90

\* The name of a type is three letters, which no other type has.
LEMMA TypeNames ==
  ASSUME NEW t \in Type
  PROVE  /\ TypeText[t] \in Seq(Letter) /\ Len(TypeText[t]) = 3
         /\ \A i \in 1 .. 3 : TypeText[t][i] \in Letter
         /\ \A u \in Type : TypeText[u] = TypeText[t] => u = t
<1>1. t \in {"CMD", "DAT", "EVT", "STS", "ACK", "ERR"}
  BY DEF Type, TypeText
<1>2. /\ TypeText["CMD"] = <<67, 77, 68>> /\ TypeText["DAT"] = <<68, 65, 84>>
      /\ TypeText["EVT"] = <<69, 86, 84>> /\ TypeText["STS"] = <<83, 84, 83>>
      /\ TypeText["ACK"] = <<65, 67, 75>> /\ TypeText["ERR"] = <<69, 82, 82>>
  BY DEF TypeText
<1> DEFINE Name(s) == /\ s \in Seq(Letter) /\ Len(s) = 3
                      /\ \A i \in 1 .. 3 : s[i] \in Letter
<1>3. /\ Name(<<67, 77, 68>>) /\ Name(<<68, 65, 84>>) /\ Name(<<69, 86, 84>>)
      /\ Name(<<83, 84, 83>>) /\ Name(<<65, 67, 75>>) /\ Name(<<69, 82, 82>>)
  BY DEF Letter
<1>4. Name(TypeText[t])
  <2> HIDE DEF Name
  <2> QED BY <1>1, <1>2, <1>3
<1>5. ASSUME NEW u \in Type, TypeText[u] = TypeText[t]
      PROVE  u = t
  <2>1. u \in {"CMD", "DAT", "EVT", "STS", "ACK", "ERR"}
    BY DEF Type, TypeText
  <2>2. TypeText[u][1] = TypeText[t][1] /\ TypeText[u][2] = TypeText[t][2]
    BY <1>5
  <2> QED BY <1>1, <1>2, <2>1, <2>2
<1> QED BY <1>4, <1>5

\* protocol.c:126-133: the type, the separator and the payload.
LEMMA BodyShape ==
  ASSUME NEW m \in Message
  PROVE  /\ Body(m) \in Seq(Byte) /\ Len(Body(m)) = Len(m.payload) + 4
         /\ Len(m.payload) \in Nat
         /\ \A i \in 1 .. 3 : Body(m)[i] = TypeText[m.type][i]
         /\ Body(m)[4] = SeparatorChar
         /\ \A i \in 1 .. Len(m.payload) : Body(m)[4 + i] = m.payload[i]
<1>1. m.type \in Type /\ m.payload \in Seq(Byte)
  BY DEF Message
<1>2. TypeText[m.type] \in Seq(Byte) /\ Len(TypeText[m.type]) = 3
  <2>1. TypeText[m.type] \in Seq(Letter) /\ Len(TypeText[m.type]) = 3
    BY <1>1, TypeNames
  <2>2. Letter \subseteq Byte
    BY DEF Letter, Byte
  <2> QED BY <2>1, <2>2
<1>3. <<SeparatorChar>> \in Seq(Byte) /\ Len(<<SeparatorChar>>) = 1
      /\ <<SeparatorChar>>[1] = SeparatorChar
  BY DEF SeparatorChar, Byte
<1> DEFINE h == TypeText[m.type] \o <<SeparatorChar>>
<1>4. /\ h \in Seq(Byte) /\ Len(h) = 4
      /\ \A i \in 1 .. 3 : h[i] = TypeText[m.type][i]
      /\ h[4] = SeparatorChar
  <2>1. /\ h \in Seq(Byte) /\ Len(h) = Len(TypeText[m.type]) + Len(<<SeparatorChar>>)
        /\ \A i \in 1 .. Len(TypeText[m.type]) : h[i] = TypeText[m.type][i]
        /\ \A i \in 1 .. Len(<<SeparatorChar>>) :
             h[Len(TypeText[m.type]) + i] = <<SeparatorChar>>[i]
    <3> DEFINE u == TypeText[m.type]  v == <<SeparatorChar>>
    <3>1. u \in Seq(Byte) /\ v \in Seq(Byte) /\ h = u \o v
      BY <1>2, <1>3
    <3> HIDE DEF u, v, h
    <3>2. /\ h \in Seq(Byte) /\ Len(h) = Len(u) + Len(v)
          /\ \A i \in 1 .. Len(u) : h[i] = u[i]
          /\ \A i \in 1 .. Len(v) : h[Len(u) + i] = v[i]
      BY <3>1, ConcatAt
    <3> QED BY <3>2, Zenon DEF u, v
  <2> HIDE DEF h
  <2>2. 1 \in 1 .. 1 /\ 3 + 1 = 4
    OBVIOUS
  <2>3. h[3 + 1] = <<SeparatorChar>>[1]
    BY <1>2, <1>3, <2>1, <2>2, Zenon
  <2> QED BY <1>2, <1>3, <2>1, <2>2, <2>3
<1>5. Body(m) = h \o m.payload
  BY DEF Body
<1> HIDE DEF h
<1>6. /\ Body(m) \in Seq(Byte) /\ Len(Body(m)) = Len(h) + Len(m.payload)
      /\ \A i \in 1 .. Len(h) : Body(m)[i] = h[i]
      /\ \A i \in 1 .. Len(m.payload) : Body(m)[Len(h) + i] = m.payload[i]
  <2> DEFINE b == Body(m)  u == m.payload
  <2>1. u \in Seq(Byte) /\ h \in Seq(Byte) /\ b = h \o u
    BY <1>1, <1>4, <1>5
  <2> HIDE DEF b, u
  <2>2. /\ b \in Seq(Byte) /\ Len(b) = Len(h) + Len(u)
        /\ \A i \in 1 .. Len(h) : b[i] = h[i]
        /\ \A i \in 1 .. Len(u) : b[Len(h) + i] = u[i]
    BY <2>1, ConcatAt
  <2> QED BY <2>2, Zenon DEF b, u
<1>7. Len(m.payload) \in Nat
  BY <1>1
<1>8. \A i \in 1 .. 3 : i \in 1 .. 4
  OBVIOUS
<1>9. 4 \in 1 .. 4 /\ 4 + Len(m.payload) = Len(m.payload) + 4
  BY <1>7
<1> QED BY <1>4, <1>6, <1>7, <1>8, <1>9, Zenon

\* protocol_decode_body takes apart what protocol_encode_frame put together.
THEOREM BodyRead ==
  ASSUME NEW m \in Message, Legible(m)
  PROVE  DecodeBody(Body(m)) = m
<1> DEFINE b == Body(m)
<1>1. /\ b \in Seq(Byte) /\ Len(b) = Len(m.payload) + 4
      /\ Len(m.payload) \in Nat
      /\ \A i \in 1 .. 3 : b[i] = TypeText[m.type][i]
      /\ b[4] = SeparatorChar
      /\ \A i \in 1 .. Len(m.payload) : b[4 + i] = m.payload[i]
  BY BodyShape
<1> HIDE DEF b
<1>2. m.type \in Type /\ m.payload \in Seq(Byte)
      /\ m = [type |-> m.type, payload |-> m.payload]
  BY DEF Message
<1>3. Len(m.payload) >= 1 /\ Len(m.payload) <= MaxPayload
  BY <1>2 DEF Legible, Encodable
<1>4. SubSeq(b, 1, 3) = TypeText[m.type]
  <2>1. TypeText[m.type] \in Seq(Letter) /\ Len(TypeText[m.type]) = 3
    BY <1>2, TypeNames
  <2>2. SubSeq(b, 1, 3) \in Seq(Byte) /\ Len(SubSeq(b, 1, 3)) = 3
        /\ \A i \in 1 .. 3 : SubSeq(b, 1, 3)[i] = b[i]
    BY <1>1, <1>3
  <2>3. TypeText[m.type] \in Seq(Byte)
    BY <2>1 DEF Letter, Byte
  <2> QED BY <1>1, <2>1, <2>2, <2>3, SameSequence
<1>5. SubSeq(b, 5, Len(b)) = m.payload
  <2>1. SubSeq(b, 5, Len(b)) \in Seq(Byte)
        /\ Len(SubSeq(b, 5, Len(b))) = Len(m.payload)
        /\ \A i \in 1 .. Len(m.payload) : SubSeq(b, 5, Len(b))[i] = b[4 + i]
    BY <1>1, <1>3
  <2> QED BY <1>1, <1>2, <2>1, SameSequence
<1>6. (CHOOSE t \in Type : TypeText[t] = SubSeq(b, 1, TypeLength)) = m.type
  BY <1>2, <1>4, TypeNames, Zenon DEF TypeLength
<1>7. /\ Len(b) >= TypeLength + 2 /\ b[TypeLength + 1] = SeparatorChar
      /\ Len(b) - TypeLength - 1 <= MaxPayload
      /\ TypeLength + 2 = 5
  BY <1>1, <1>3, CodecAssumption DEF TypeLength
<1>8. \E t \in Type : TypeText[t] = SubSeq(b, 1, TypeLength)
  BY <1>2, <1>4, Zenon DEF TypeLength
<1>9. DecodeBody(b) = [type |-> m.type, payload |-> m.payload]
  BY <1>5, <1>6, <1>7, <1>8, Zenon DEF DecodeBody
<1> QED BY <1>2, <1>9 DEF b

-----------------------------------------------------------------------------
(* The bytes of a frame *)

\* One byte behind a sequence.
LEMMA OneBehind ==
  ASSUME NEW s \in Seq(Byte), NEW e \in Byte
  PROVE  /\ s \o <<e>> \in Seq(Byte) /\ Len(s \o <<e>>) = Len(s) + 1
         /\ Len(s) \in Nat
         /\ \A i \in 1 .. Len(s) : (s \o <<e>>)[i] = s[i]
         /\ (s \o <<e>>)[Len(s) + 1] = e
<1>1. <<e>> \in Seq(Byte) /\ Len(<<e>>) = 1 /\ <<e>>[1] = e /\ Len(s) \in Nat
  OBVIOUS
<1> DEFINE v == <<e>>  u == s \o v
<1> HIDE DEF v, u
<1>2. /\ u \in Seq(Byte) /\ Len(u) = Len(s) + Len(v)
      /\ \A i \in 1 .. Len(s) : u[i] = s[i]
      /\ \A i \in 1 .. Len(v) : u[Len(s) + i] = v[i]
  BY <1>1, ConcatAt DEF u, v
<1>3. Len(v) = 1 /\ v[1] = e
  BY <1>1 DEF v
<1>4. u[Len(s) + 1] = e /\ Len(u) = Len(s) + 1
  BY <1>2, <1>3
<1> QED BY <1>1, <1>2, <1>4 DEF u, v

\* One byte in front of a sequence.
LEMMA OneInFront ==
  ASSUME NEW s \in Seq(Byte), NEW e \in Byte
  PROVE  /\ <<e>> \o s \in Seq(Byte) /\ Len(<<e>> \o s) = Len(s) + 1
         /\ (<<e>> \o s)[1] = e
         /\ \A i \in 1 .. Len(s) : (<<e>> \o s)[1 + i] = s[i]
<1>1. <<e>> \in Seq(Byte) /\ Len(<<e>>) = 1 /\ <<e>>[1] = e /\ Len(s) \in Nat
  OBVIOUS
<1> DEFINE v == <<e>>  u == v \o s
<1> HIDE DEF v, u
<1>2. /\ u \in Seq(Byte) /\ Len(u) = Len(v) + Len(s)
      /\ \A i \in 1 .. Len(v) : u[i] = v[i]
      /\ \A i \in 1 .. Len(s) : u[Len(v) + i] = s[i]
  BY <1>1, ConcatAt DEF u, v
<1>3. Len(v) = 1 /\ v[1] = e
  BY <1>1 DEF v
<1>4. /\ u[1] = e /\ Len(u) = Len(s) + 1
      /\ \A i \in 1 .. Len(s) : u[1 + i] = s[i]
  BY <1>1, <1>2, <1>3
<1> QED BY <1>2, <1>4 DEF u, v

\* The length, a separator and the body.
LEMMA InputLayout ==
  ASSUME NEW h \in Seq(Byte), Len(h) = 2, NEW y \in Byte, NEW b \in Seq(Byte)
  PROVE  LET u == h \o <<y>> \o b IN
         /\ u \in Seq(Byte) /\ Len(u) = Len(b) + 3
         /\ u[1] = h[1] /\ u[2] = h[2] /\ u[3] = y
         /\ \A i \in 1 .. Len(b) : u[3 + i] = b[i]
<1> DEFINE s == h \o <<y>>  u == s \o b
<1>1. /\ s \in Seq(Byte) /\ Len(s) = 3
      /\ s[1] = h[1] /\ s[2] = h[2] /\ s[3] = y
  <2>1. /\ s \in Seq(Byte) /\ Len(s) = Len(h) + 1
        /\ \A i \in 1 .. Len(h) : s[i] = h[i]
        /\ s[Len(h) + 1] = y
    BY OneBehind
  <2> HIDE DEF s
  <2> QED BY <2>1
<1> HIDE DEF s
<1>u. u = s \o b
  OBVIOUS
<1> HIDE DEF u
<1>2. /\ u \in Seq(Byte) /\ Len(u) = Len(s) + Len(b)
      /\ \A i \in 1 .. Len(s) : u[i] = s[i]
      /\ \A i \in 1 .. Len(b) : u[Len(s) + i] = b[i]
  <2>1. s \in Seq(Byte)
    BY <1>1
  <2> QED BY <2>1, <1>u, BytesAt
<1>3. /\ u \in Seq(Byte) /\ Len(u) = Len(b) + 3
      /\ u[1] = h[1] /\ u[2] = h[2] /\ u[3] = y
      /\ \A i \in 1 .. Len(b) : u[3 + i] = b[i]
  BY <1>1, <1>2
<1> QED BY <1>3 DEF u, s

\* f is s with the start in front, and a separator, two digits c and the end
\* behind.
FrameOf(f, s, c) ==
  /\ f \in Seq(Byte) /\ Len(f) = Len(s) + 5
  /\ f[1] = StartChar
  /\ \A i \in 1 .. Len(s) : f[1 + i] = s[i]
  /\ f[Len(s) + 2] = SeparatorChar /\ f[Len(s) + 3] = c[1]
  /\ f[Len(s) + 4] = c[2] /\ f[Len(s) + 5] = EndChar

LEMMA FrameLayout ==
  ASSUME NEW s \in Seq(Byte), NEW c \in Seq(Byte), Len(c) = 2
  PROVE  FrameOf(<<StartChar>> \o s \o <<SeparatorChar>> \o c \o <<EndChar>>, s, c)
<1> DEFINE n == Len(s)  x == StartChar  y == SeparatorChar  z == EndChar
           p == <<x>> \o s  q == p \o <<y>>  r == q \o c  u == r \o <<z>>
<1>0. n \in Nat /\ x \in Byte /\ y \in Byte /\ z \in Byte
  BY DEF StartChar, SeparatorChar, EndChar, Byte
<1> HIDE DEF x, y, z
<1>1. /\ p \in Seq(Byte) /\ Len(p) = n + 1 /\ p[1] = x
      /\ \A i \in 1 .. n : p[1 + i] = s[i]
  BY <1>0, OneInFront
<1> HIDE DEF p
<1>2. /\ q \in Seq(Byte) /\ Len(q) = n + 2
      /\ \A i \in 1 .. n + 1 : q[i] = p[i]
      /\ q[n + 2] = y
  <2>1. /\ q \in Seq(Byte) /\ Len(q) = Len(p) + 1
        /\ \A i \in 1 .. Len(p) : q[i] = p[i]
        /\ q[Len(p) + 1] = y
    BY <1>0, <1>1, OneBehind
  <2> HIDE DEF q, n
  <2> QED BY <1>0, <1>1, <2>1
<1> HIDE DEF q
<1>3. /\ r \in Seq(Byte) /\ Len(r) = n + 4
      /\ \A i \in 1 .. n + 2 : r[i] = q[i]
      /\ r[n + 3] = c[1] /\ r[n + 4] = c[2]
  <2>0. r = q \o c
    OBVIOUS
  <2> HIDE DEF r, n
  <2>1. /\ r \in Seq(Byte) /\ Len(r) = Len(q) + Len(c)
        /\ \A i \in 1 .. Len(q) : r[i] = q[i]
        /\ \A i \in 1 .. Len(c) : r[Len(q) + i] = c[i]
    <3>1. q \in Seq(Byte)
      BY <1>2
    <3>2. \A v \in Seq(Byte) : r = q \o v =>
            /\ r \in Seq(Byte) /\ Len(r) = Len(q) + Len(v)
            /\ \A i \in 1 .. Len(q) : r[i] = q[i]
            /\ \A i \in 1 .. Len(v) : r[Len(q) + i] = v[i]
      BY <3>1, BytesAt
    <3> QED BY <2>0, <3>2, Zenon
  <2> QED BY <1>0, <1>2, <2>1
<1> HIDE DEF r
<1>4. /\ u \in Seq(Byte) /\ Len(u) = n + 5
      /\ \A i \in 1 .. n + 4 : u[i] = r[i]
      /\ u[n + 5] = z
  <2>1. /\ u \in Seq(Byte) /\ Len(u) = Len(r) + 1
        /\ \A i \in 1 .. Len(r) : u[i] = r[i]
        /\ u[Len(r) + 1] = z
    BY <1>0, <1>3, OneBehind
  <2> HIDE DEF u, n
  <2> QED BY <1>0, <1>3, <2>1
<1> HIDE DEF u, n
<1>5. /\ u[1] = x /\ \A i \in 1 .. n : u[1 + i] = s[i]
      /\ u[n + 2] = y /\ u[n + 3] = c[1] /\ u[n + 4] = c[2] /\ u[n + 5] = z
  <2>1. \A i \in 1 .. n + 1 : u[i] = p[i]
    <3> TAKE i \in 1 .. n + 1
    <3>1. i \in 1 .. n + 2 /\ i \in 1 .. n + 4
      BY <1>0
    <3> QED BY <1>2, <1>3, <1>4, <3>1, Zenon
  <2>2. 1 \in 1 .. n + 1 /\ \A i \in 1 .. n : 1 + i \in 1 .. n + 1
    BY <1>0
  <2>3. u[1] = x /\ \A i \in 1 .. n : u[1 + i] = s[i]
    BY <1>1, <2>1, <2>2, Zenon
  <2>4. n + 2 \in 1 .. n + 2 /\ {n + 2, n + 3, n + 4} \subseteq 1 .. n + 4
    BY <1>0
  <2>5. u[n + 2] = y /\ u[n + 3] = c[1] /\ u[n + 4] = c[2]
    <3>1. n + 2 \in 1 .. n + 4 /\ n + 3 \in 1 .. n + 4 /\ n + 4 \in 1 .. n + 4
      BY <2>4
    <3> QED BY <1>2, <1>3, <1>4, <2>4, <3>1, Zenon
  <2> QED BY <1>4, <2>3, <2>5, Zenon
<1>6. FrameOf(u, s, c)
  BY <1>4, <1>5, Zenon DEF FrameOf, n, x, y, z
<1> QED BY <1>6, Zenon DEF u, r, q, p, x, y, z

-----------------------------------------------------------------------------
(* The frame of a message that can be read back *)

LengthDigits(m) == Hex(Len(Body(m)))
CheckDigits(m) == Hex(Checksum(ChecksumInput(m)))

\* What is legible is short enough for its length to have two digits.
LEMMA BodyFits ==
  ASSUME NEW m \in Message, Legible(m)
  PROVE  /\ Len(Body(m)) \in 5 .. 255 /\ Len(Body(m)) <= MaxBodySize
         /\ Body(m) \in Seq(Byte) /\ Len(Body(m)) \in Byte
         /\ \A i \in 1 .. Len(Body(m)) : Body(m)[i] \notin {Nul, Return}
<1> DEFINE b == Body(m)
<1>1. /\ b \in Seq(Byte) /\ Len(b) = Len(m.payload) + 4
      /\ Len(m.payload) \in Nat
      /\ \A i \in 1 .. 3 : b[i] = TypeText[m.type][i]
      /\ b[4] = SeparatorChar
      /\ \A i \in 1 .. Len(m.payload) : b[4 + i] = m.payload[i]
  BY BodyShape
<1>2. m.type \in Type /\ m.payload \in Seq(Byte)
  BY DEF Message
<1>3. Len(m.payload) >= 1 /\ Len(m.payload) <= MaxPayload
      /\ \A i \in 1 .. Len(m.payload) : m.payload[i] \notin {Nul, Return}
  BY <1>2 DEF Legible, Encodable
<1>4. \A i \in 1 .. 3 : TypeText[m.type][i] \in Letter
  BY <1>2, TypeNames
<1> HIDE DEF b
<1>5. ASSUME NEW i \in 1 .. Len(b)
      PROVE  b[i] \notin {Nul, Return}
  <2>1. CASE i \in 1 .. 3
    <3>1. b[i] \in Letter
      BY <1>1, <1>4, <2>1
    <3>2. \A x \in Letter : x \notin {Nul, Return}
      BY DEF Letter, Nul, Return
    <3> QED BY <3>1, <3>2, Zenon
  <2>2. CASE i = 4
    BY <1>1, <2>2 DEF SeparatorChar, Nul, Return
  <2>3. CASE i > 4
    <3>1. i - 4 \in 1 .. Len(m.payload) /\ 4 + (i - 4) = i
      BY <1>1, <2>3
    <3> QED BY <1>1, <1>3, <3>1
  <2> QED BY <1>1, <2>1, <2>2, <2>3
<1>6. Len(b) \in 5 .. 255 /\ Len(b) <= MaxBodySize /\ Len(b) \in Byte
  <2> DEFINE k == Len(m.payload)
  <2>1. k \in Nat /\ k >= 1 /\ k <= MaxPayload /\ Len(b) = k + 4
    BY <1>1, <1>3
  <2> HIDE DEF k
  <2> QED BY <2>1, CodecAssumption DEF MaxBodySize, TypeLength, Byte
<1> QED BY <1>1, <1>5, <1>6 DEF b

\* The copy of a body without a NUL is the whole body.
LEMMA WholeCopied ==
  ASSUME NEW m \in Message, Legible(m)
  PROVE  UpToNul(Body(m)) = Body(m)
<1>1. \A i \in 1 .. Len(Body(m)) : Body(m)[i] # Nul
  BY BodyFits
<1>2. DOMAIN Body(m) = 1 .. Len(Body(m))
  BY BodyFits
<1> QED BY <1>1, <1>2, Zenon DEF UpToNul

\* The digits in a frame are read back as the numbers they were written for.
LEMMA FrameDigits ==
  ASSUME NEW m \in Message, Legible(m)
  PROVE  LET h == LengthDigits(m)  c == CheckDigits(m) IN
         /\ h \in Seq(HexChar) /\ Len(h) = 2 /\ h = <<h[1], h[2]>>
         /\ h[1] \in HexChar /\ h[2] \in HexChar
         /\ HexValue(h) = Len(Body(m))
         /\ c \in Seq(HexChar) /\ Len(c) = 2 /\ c = <<c[1], c[2]>>
         /\ c[1] \in HexChar /\ c[2] \in HexChar
         /\ HexValue(c) = Checksum(ChecksumInput(m))
<1> DEFINE b == Body(m)  n == Len(b)  h == LengthDigits(m)  s == ChecksumInput(m)
           c == CheckDigits(m)
<1>1. b \in Seq(Byte) /\ n \in Byte
  BY BodyFits
<1>2. /\ h \in Seq(HexChar) /\ Len(h) = 2 /\ h = <<h[1], h[2]>>
      /\ h[1] \in HexChar /\ h[2] \in HexChar /\ HexValue(h) = n
  BY <1>1, HexRead, Zenon DEF LengthDigits
<1>3. HexChar \subseteq Byte /\ SeparatorChar \in Byte
  BY HexCharIsByte DEF SeparatorChar, Byte
<1>4. h \in Seq(Byte)
  <2> HIDE DEF h
  <2> QED BY <1>2, <1>3
<1>5. s \in Seq(Byte)
  <2>1. s = h \o <<SeparatorChar>> \o b
    BY DEF ChecksumInput, LengthDigits
  <2> HIDE DEF s, h, b
  <2> QED BY <1>1, <1>2, <1>3, <1>4, <2>1, InputLayout
<1>6. Checksum(s) \in Byte
  BY <1>5, ChecksumIsByte
<1>7. /\ c \in Seq(HexChar) /\ Len(c) = 2 /\ c = <<c[1], c[2]>>
      /\ c[1] \in HexChar /\ c[2] \in HexChar /\ HexValue(c) = Checksum(s)
  BY <1>6, HexRead, Zenon DEF CheckDigits
<1> QED BY <1>2, <1>7, Zenon

\* protocol.c:135-151: what stands where in a frame.
LEMMA FrameShape ==
  ASSUME NEW m \in Message, Legible(m)
  PROVE  LET b == Body(m)  n == Len(b)  f == Frame(m) IN
         /\ f \in Seq(Byte) /\ Len(f) = n + 8
         /\ f[1] = StartChar
         /\ f[2] = LengthDigits(m)[1] /\ f[3] = LengthDigits(m)[2]
         /\ f[4] = SeparatorChar
         /\ \A i \in 1 .. n : f[4 + i] = b[i]
         /\ f[n + 5] = SeparatorChar
         /\ f[n + 6] = CheckDigits(m)[1] /\ f[n + 7] = CheckDigits(m)[2]
         /\ f[n + 8] = EndChar
<1> DEFINE b == Body(m)  n == Len(b)  f == Frame(m)
           h == LengthDigits(m)  c == CheckDigits(m)  s == ChecksumInput(m)
<1>1. n \in 5 .. 255 /\ b \in Seq(Byte) /\ n \in Byte
  BY BodyFits
<1>2. h \in Seq(HexChar) /\ Len(h) = 2
  BY FrameDigits, Zenon
<1>3. HexChar \subseteq Byte
      /\ SeparatorChar \in Byte /\ StartChar \in Byte /\ EndChar \in Byte
  BY HexCharIsByte DEF SeparatorChar, StartChar, EndChar, Byte
<1>4. h \in Seq(Byte)
  BY <1>2, <1>3
<1>5. /\ s \in Seq(Byte) /\ Len(s) = n + 3
      /\ s[1] = h[1] /\ s[2] = h[2] /\ s[3] = SeparatorChar
      /\ \A i \in 1 .. n : s[3 + i] = b[i]
  <2>1. s = h \o <<SeparatorChar>> \o b
    BY DEF ChecksumInput, LengthDigits
  <2> HIDE DEF s, h, b
  <2> QED BY <1>1, <1>2, <1>3, <1>4, <2>1, InputLayout
<1>7. c \in Seq(HexChar) /\ Len(c) = 2
  BY FrameDigits, Zenon
<1>8. c \in Seq(Byte)
  BY <1>3, <1>7
<1>9. FrameOf(f, s, c)
  <2>1. f = <<StartChar>> \o s \o <<SeparatorChar>> \o c \o <<EndChar>>
    BY DEF Frame, CheckDigits
  <2> HIDE DEF s, f, c
  <2> QED BY <1>5, <1>7, <1>8, <2>1, FrameLayout, Zenon
<1> HIDE DEF s, f, c, h, b, n
<1>0. /\ f \in Seq(Byte) /\ Len(f) = Len(s) + 5
      /\ f[1] = StartChar
      /\ \A i \in 1 .. Len(s) : f[1 + i] = s[i]
      /\ f[Len(s) + 2] = SeparatorChar /\ f[Len(s) + 3] = c[1]
      /\ f[Len(s) + 4] = c[2] /\ f[Len(s) + 5] = EndChar
  BY <1>9, Zenon DEF FrameOf
<1>10. /\ Len(f) = n + 8
       /\ f[2] = h[1] /\ f[3] = h[2] /\ f[4] = SeparatorChar
       /\ f[n + 5] = SeparatorChar
       /\ f[n + 6] = c[1] /\ f[n + 7] = c[2] /\ f[n + 8] = EndChar
  <2>1. Len(f) = n + 8 /\ 1 \in 1 .. Len(s) /\ 2 \in 1 .. Len(s) /\ 3 \in 1 .. Len(s)
    BY <1>1, <1>5, <1>0
  <2>2. f[2] = h[1] /\ f[3] = h[2] /\ f[4] = SeparatorChar
    <3>1. f[1 + 1] = s[1] /\ f[1 + 2] = s[2] /\ f[1 + 3] = s[3]
      BY <1>0, <2>1, Zenon
    <3>2. 1 + 1 = 2 /\ 1 + 2 = 3 /\ 1 + 3 = 4
      OBVIOUS
    <3> QED BY <1>5, <3>1, <3>2, Zenon
  <2>3. Len(s) + 2 = n + 5 /\ Len(s) + 3 = n + 6 /\ Len(s) + 4 = n + 7 /\ Len(s) + 5 = n + 8
    BY <1>1, <1>5
  <2> QED BY <1>0, <2>1, <2>2, <2>3, Zenon
<1>11. \A i \in 1 .. n : f[4 + i] = b[i]
  <2> TAKE i \in 1 .. n
  <2>1. 3 + i \in 1 .. Len(s) /\ 1 + (3 + i) = 4 + i
    BY <1>1, <1>5
  <2>2. f[1 + (3 + i)] = s[3 + i]
    BY <1>0, <2>1, Zenon
  <2> QED BY <1>5, <2>1, <2>2
<1> QED BY <1>0, <1>10, <1>11, Zenon DEF f, c, h, b, n

\* parser.c:59-61: a body that was sent in a frame fits the buffer it is copied
\* to, since protocol_encode_frame only makes frames that are longer than that.
LEMMA CopyOfSentFits ==
  ASSUME NEW m \in Message, Legible(m), length_field = LengthDigits(m), body = Body(m)
  PROVE  CopyFits
<1>1. UpToNul(body) = Body(m) /\ Len(length_field) = 2
  BY WholeCopied, FrameDigits, Zenon
<1>2. Len(Frame(m)) = Len(Body(m)) + 8 /\ Len(Body(m)) \in Nat
  BY FrameShape, BodyFits
<1>3. Len(Frame(m)) < MaxFrameSize /\ MaxFrameSize \in Nat
  BY CodecAssumption DEF Legible, Encodable
<1> QED BY <1>1, <1>2, <1>3 DEF CopyFits

\* No byte of a frame is passed over.
LEMMA NoReturnInFrame ==
  ASSUME NEW m \in Message, Legible(m), NEW i \in 1 .. Len(Frame(m))
  PROVE  Frame(m)[i] # Return /\ Frame(m)[i] \in Byte
<1> DEFINE b == Body(m)  n == Len(b)  f == Frame(m)
           h == LengthDigits(m)  c == CheckDigits(m)
<1>1. /\ f \in Seq(Byte) /\ Len(f) = n + 8
      /\ f[1] = StartChar
      /\ f[2] = h[1] /\ f[3] = h[2]
      /\ f[4] = SeparatorChar
      /\ \A j \in 1 .. n : f[4 + j] = b[j]
      /\ f[n + 5] = SeparatorChar
      /\ f[n + 6] = c[1] /\ f[n + 7] = c[2]
      /\ f[n + 8] = EndChar
  BY FrameShape, Zenon
<1>2. n \in 5 .. 255 /\ \A j \in 1 .. n : b[j] # Return
  BY BodyFits, Zenon
<1>3. h[1] \in HexChar /\ h[2] \in HexChar /\ c[1] \in HexChar /\ c[2] \in HexChar
  BY FrameDigits, Zenon
<1>4. /\ \A x \in HexChar : x # Return
      /\ SeparatorChar # Return /\ StartChar # Return /\ EndChar # Return
  BY HexCharIsByte DEF SeparatorChar, StartChar, EndChar, Return
<1>5. i \in 1 .. Len(f)
  OBVIOUS
<1> HIDE DEF b, n, f, h, c
<1>6. f[i] \in Byte
  BY <1>1, <1>5
<1>7. \/ i = 1 \/ i = 2 \/ i = 3 \/ i = 4
      \/ \E j \in 1 .. n : i = 4 + j
      \/ i = n + 5 \/ i = n + 6 \/ i = n + 7 \/ i = n + 8
  <2>1. CASE i > 4 /\ i < n + 5
    <3>1. i - 4 \in 1 .. n /\ i = 4 + (i - 4)
      BY <1>1, <1>2, <1>5, <2>1
    <3> QED BY <3>1
  <2> QED BY <1>1, <1>2, <1>5, <2>1
<1>8. f[i] # Return
  BY <1>1, <1>2, <1>3, <1>4, <1>7, Zenon
<1> QED BY <1>6, <1>8 DEF f

-----------------------------------------------------------------------------
(* The parser within a frame *)

\* p bytes of the frame of m were read, and nothing of anything else.
InHead(m, p) == \/ p = 1 /\ state = "READ_LEN_HI"
                \/ p = 2 /\ state = "READ_LEN_LO" /\ length_field = <<LengthDigits(m)[1]>>
InBody(m, p) ==
  /\ p >= 3 /\ length_field = LengthDigits(m) /\ expected_body_length = Len(Body(m))
  /\ \/ p = 3 /\ state = "EXPECT_LEN_SEPARATOR"
     \/ /\ p \in 4 .. Len(Body(m)) + 3 /\ state = "READ_BODY" /\ Len(body) = p - 4
        /\ \A i \in 1 .. Len(body) : body[i] = Body(m)[i]
InTail(m, p) ==
  /\ length_field = LengthDigits(m) /\ expected_body_length = Len(Body(m))
  /\ body = Body(m)
  /\ \/ p = Len(body) + 4 /\ state = "EXPECT_CHECK_SEPARATOR"
     \/ p = Len(body) + 5 /\ state = "READ_CHECK_HI"
     \/ p = Len(body) + 6 /\ state = "READ_CHECK_LO" /\ checksum_field = <<CheckDigits(m)[1]>>
     \/ p = Len(body) + 7 /\ state = "EXPECT_END" /\ checksum_field = CheckDigits(m)
InFrame(m, p) == InHead(m, p) \/ InBody(m, p) \/ InTail(m, p)

\* Each state has an action of its own.
LEMMA ActionOfState ==
  ASSUME NEW x, x # Return, Consume(x)
  PROVE  /\ state = "WAIT_START" => WaitStart(x)
         /\ state = "READ_LEN_HI" => ReadLenHi(x)
         /\ state = "READ_LEN_LO" => ReadLenLo(x)
         /\ state = "EXPECT_LEN_SEPARATOR" => ExpectLenSeparator(x)
         /\ state = "READ_BODY" => ReadBody(x)
         /\ state = "EXPECT_CHECK_SEPARATOR" => ExpectCheckSeparator(x)
         /\ state = "READ_CHECK_HI" => ReadCheckHi(x)
         /\ state = "READ_CHECK_LO" => ReadCheckLo(x)
         /\ state = "EXPECT_END" => ExpectEnd(x)
<1>1. \/ WaitStart(x) \/ ReadLenHi(x) \/ ReadLenLo(x) \/ ExpectLenSeparator(x)
      \/ ReadBody(x) \/ ExpectCheckSeparator(x)
      \/ ReadCheckHi(x) \/ ReadCheckLo(x) \/ ExpectEnd(x)
  BY DEF Consume, PassOver
<1>2. /\ WaitStart(x) => state = "WAIT_START"
      /\ ReadLenHi(x) => state = "READ_LEN_HI"
      /\ ReadLenLo(x) => state = "READ_LEN_LO"
      /\ ExpectLenSeparator(x) => state = "EXPECT_LEN_SEPARATOR"
      /\ ReadBody(x) => state = "READ_BODY"
      /\ ExpectCheckSeparator(x) => state = "EXPECT_CHECK_SEPARATOR"
      /\ ReadCheckHi(x) => state = "READ_CHECK_HI"
      /\ ReadCheckLo(x) => state = "READ_CHECK_LO"
      /\ ExpectEnd(x) => state = "EXPECT_END"
  BY Zenon DEF WaitStart, ReadLenHi, ReadLenLo, ExpectLenSeparator, ReadBody,
        ExpectCheckSeparator, ReadCheckHi, ReadCheckLo, ExpectEnd
<1>3. CASE state = "WAIT_START"
  BY <1>1, <1>2, <1>3
<1>4. CASE state = "READ_LEN_HI"
  BY <1>1, <1>2, <1>4
<1>5. CASE state = "READ_LEN_LO"
  BY <1>1, <1>2, <1>5
<1>6. CASE state = "EXPECT_LEN_SEPARATOR"
  BY <1>1, <1>2, <1>6
<1>7. CASE state = "READ_BODY"
  BY <1>1, <1>2, <1>7
<1>8. CASE state = "EXPECT_CHECK_SEPARATOR"
  BY <1>1, <1>2, <1>8
<1>9. CASE state = "READ_CHECK_HI"
  BY <1>1, <1>2, <1>9
<1>10. CASE state = "READ_CHECK_LO"
  BY <1>1, <1>2, <1>10
<1>11. CASE state = "EXPECT_END"
  BY <1>1, <1>2, <1>11
<1> QED BY <1>1, <1>2, <1>3, <1>4, <1>5, <1>6, <1>7, <1>8, <1>9, <1>10, <1>11

\* A start that is not taken for a byte of a body begins a frame, whatever
\* came before it.
LEMMA StartFound ==
  ASSUME NEW m \in Message, Legible(m), state \in State, state # "READ_BODY",
         Consume(StartChar)
  PROVE  InFrame(m, 1)'
<1>1. StartChar # Return /\ StartChar # SeparatorChar /\ StartChar # EndChar
      /\ StartChar \notin HexChar
  BY HexCharIsByte DEF StartChar, Return, SeparatorChar, EndChar
<1>2. state' = "READ_LEN_HI"
  <2>1. Fail(StartChar) => state' = "READ_LEN_HI"
    BY DEF Fail, AfterFail
  <2>2. WaitStart(StartChar) => state' = "READ_LEN_HI"
    BY DEF WaitStart, InProgress
  <2>3. /\ ReadLenHi(StartChar) => Fail(StartChar)
        /\ ReadLenLo(StartChar) => Fail(StartChar)
        /\ ExpectLenSeparator(StartChar) => Fail(StartChar)
        /\ ExpectCheckSeparator(StartChar) => Fail(StartChar)
        /\ ReadCheckHi(StartChar) => Fail(StartChar)
        /\ ReadCheckLo(StartChar) => Fail(StartChar)
        /\ ExpectEnd(StartChar) => Fail(StartChar)
    BY <1>1, Zenon DEF ReadLenHi, ReadLenLo, ExpectLenSeparator, ExpectCheckSeparator,
       ReadCheckHi, ReadCheckLo, ExpectEnd
  <2>4. \/ WaitStart(StartChar) \/ ReadLenHi(StartChar) \/ ReadLenLo(StartChar)
        \/ ExpectLenSeparator(StartChar) \/ ReadBody(StartChar)
        \/ ExpectCheckSeparator(StartChar) \/ ReadCheckHi(StartChar)
        \/ ReadCheckLo(StartChar) \/ ExpectEnd(StartChar)
    BY <1>1, Zenon DEF Consume, PassOver
  <2>5. ReadBody(StartChar) => state = "READ_BODY"
    BY DEF ReadBody
  <2> QED BY <2>1, <2>2, <2>3, <2>4, <2>5, Zenon
<1> QED BY <1>2 DEF InFrame, InHead

\* What the bytes behind the first p of a frame are.
LEMMA ByteOfFrame ==
  ASSUME NEW m \in Message, Legible(m), NEW p \in 1 .. Len(Body(m)) + 7
  PROVE  LET x == Frame(m)[p + 1]  n == Len(Body(m)) IN
         /\ x # Return /\ x \in Byte
         /\ p = 1 => x = LengthDigits(m)[1]
         /\ p = 2 => x = LengthDigits(m)[2]
         /\ p = 3 => x = SeparatorChar
         /\ p \in 4 .. n + 3 => x = Body(m)[p - 3]
         /\ p = n + 4 => x = SeparatorChar
         /\ p = n + 5 => x = CheckDigits(m)[1]
         /\ p = n + 6 => x = CheckDigits(m)[2]
         /\ p = n + 7 => x = EndChar
<1> DEFINE b == Body(m)  n == Len(b)  f == Frame(m)
           h == LengthDigits(m)  c == CheckDigits(m)  x == f[p + 1]
<1>1. /\ f \in Seq(Byte) /\ Len(f) = n + 8
      /\ f[1] = StartChar
      /\ f[2] = h[1] /\ f[3] = h[2]
      /\ f[4] = SeparatorChar
      /\ \A j \in 1 .. n : f[4 + j] = b[j]
      /\ f[n + 5] = SeparatorChar
      /\ f[n + 6] = c[1] /\ f[n + 7] = c[2]
      /\ f[n + 8] = EndChar
  BY FrameShape, Zenon
<1>2. n \in 5 .. 255
  BY BodyFits, Zenon
<1>3. x # Return /\ x \in Byte
  <2>1. p + 1 \in 1 .. Len(Frame(m))
    BY <1>1, <1>2
  <2> QED BY <2>1, NoReturnInFrame, Zenon
<1>4. p \in 4 .. n + 3 => x = b[p - 3]
  <2> SUFFICES ASSUME p \in 4 .. n + 3 PROVE x = b[p - 3]
    OBVIOUS
  <2>1. p - 3 \in 1 .. n /\ 4 + (p - 3) = p + 1
    BY <1>2
  <2>2. f[4 + (p - 3)] = b[p - 3]
    BY <1>1, <2>1, Zenon
  <2> QED BY <2>1, <2>2
<1>5. p \in 1 .. n + 7
  OBVIOUS
<1> HIDE DEF b, n, f, h, c
<1>6. /\ p = 1 => x = h[1]
      /\ p = 2 => x = h[2]
      /\ p = 3 => x = SeparatorChar
      /\ p = n + 4 => x = SeparatorChar
      /\ p = n + 5 => x = c[1]
      /\ p = n + 6 => x = c[2]
      /\ p = n + 7 => x = EndChar
  <2>1. /\ 1 + 1 = 2 /\ 2 + 1 = 3 /\ 3 + 1 = 4
        /\ (n + 4) + 1 = n + 5 /\ (n + 5) + 1 = n + 6 /\ (n + 6) + 1 = n + 7
        /\ (n + 7) + 1 = n + 8
    BY <1>2
  <2> QED BY <1>1, <2>1, Zenon
<1> QED BY <1>3, <1>4, <1>6, Zenon DEF b, n, f, h, c

\* The next byte of the frame keeps the parser within it.
LEMMA NextInHead ==
  ASSUME NEW m \in Message, Legible(m), NEW p \in Nat, InHead(m, p), ParserInv,
         Consume(Frame(m)[p + 1])
  PROVE  InFrame(m, p + 1)'
<1> DEFINE n == Len(Body(m))  h == LengthDigits(m)  x == Frame(m)[p + 1]
<1>1. n \in 5 .. 255 /\ n <= MaxBodySize
  BY BodyFits, Zenon
<1>2. /\ h = <<h[1], h[2]>> /\ h[1] \in HexChar /\ h[2] \in HexChar /\ HexValue(h) = n
  BY FrameDigits, Zenon
<1>3. CASE p = 1 /\ state = "READ_LEN_HI"
  <2>1. p \in 1 .. n + 7
    BY <1>1, <1>3
  <2>2. x # Return /\ x = h[1]
    BY <1>3, <2>1, ByteOfFrame, Zenon
  <2>3. ReadLenHi(x)
    BY <1>3, <2>2, ActionOfState
  <2>4. length_field' = <<h[1]>> /\ state' = "READ_LEN_LO"
    BY <1>2, <2>2, <2>3, Zenon DEF ReadLenHi, InProgress
  <2>5. p + 1 = 2
    BY <1>3
  <2> QED BY <2>4, <2>5, Zenon DEF InFrame, InHead
<1>4. CASE p = 2 /\ state = "READ_LEN_LO" /\ length_field = <<h[1]>>
  <2>1. p \in 1 .. n + 7
    BY <1>1, <1>4
  <2>2. x # Return /\ x = h[2]
    BY <1>4, <2>1, ByteOfFrame, Zenon
  <2>3. ReadLenLo(x)
    BY <1>4, <2>2, ActionOfState
  <2>4. Append(length_field, x) = h
    BY <1>2, <1>4, <2>2, PairAppended, Zenon
  <2>5. LengthFits(n)
    <3> HIDE DEF n
    <3> QED BY <1>1, MaxBodyIsNatural DEF LengthFits
  <2>6. length_field' = h /\ expected_body_length' = n /\ state' = "EXPECT_LEN_SEPARATOR"
    BY <1>2, <2>2, <2>3, <2>4, <2>5, Zenon DEF ReadLenLo, InProgress
  <2>7. p + 1 = 3 /\ p + 1 >= 3
    BY <1>4
  <2> QED BY <2>6, <2>7, Zenon DEF InFrame, InBody
<1> QED BY <1>3, <1>4, Zenon DEF InHead

LEMMA NextInBody ==
  ASSUME NEW m \in Message, Legible(m), NEW p \in Nat, InBody(m, p), ParserInv,
         Consume(Frame(m)[p + 1])
  PROVE  InFrame(m, p + 1)'
<1> DEFINE b == Body(m)  n == Len(b)  h == LengthDigits(m)  x == Frame(m)[p + 1]
<1>1. n \in 5 .. 255 /\ b \in Seq(Byte)
  BY BodyFits, Zenon
<1>2. length_field = h /\ expected_body_length = n /\ body \in Seq(Byte)
  BY Zenon DEF InBody, ParserInv, ParserTypeOK
<1>3. CASE p = 3 /\ state = "EXPECT_LEN_SEPARATOR"
  <2>1. p \in 1 .. n + 7
    BY <1>1, <1>3
  <2>2. x # Return /\ x = SeparatorChar
    BY <1>3, <2>1, ByteOfFrame, Zenon
  <2>3. ExpectLenSeparator(x)
    BY <1>3, <2>2, ActionOfState
  <2>4. length_field' = h /\ expected_body_length' = n /\ body' = body
        /\ state' = "READ_BODY"
    BY <1>2, <2>2, <2>3 DEF ExpectLenSeparator, InProgress, fields
  <2>5. body = <<>>
    BY <1>3 DEF ParserInv, FieldsInStep, BeforeBody
  <2>6. Len(body') = 0
    BY <2>4, <2>5
  <2>7. p + 1 >= 3 /\ p + 1 \in 4 .. n + 3 /\ Len(body') = (p + 1) - 4 /\ 1 .. 0 = {}
    <3> HIDE DEF n
    <3> QED BY <1>1, <1>3, <2>6
  <2> QED BY <2>4, <2>6, <2>7, Zenon DEF InFrame, InBody
<1>4. CASE /\ p \in 4 .. n + 3 /\ state = "READ_BODY" /\ Len(body) = p - 4
           /\ \A i \in 1 .. Len(body) : body[i] = b[i]
  <2>1. p \in 1 .. n + 7
    BY <1>1, <1>4
  <2>2. x # Return /\ x = b[p - 3] /\ x \in Byte
    BY <1>4, <2>1, ByteOfFrame, Zenon
  <2>3. ReadBody(x)
    BY <1>4, <2>2, ActionOfState
  <2>4. /\ body' = Append(body, x)
        /\ state' = IF Len(body) + 1 >= n THEN "EXPECT_CHECK_SEPARATOR" ELSE "READ_BODY"
        /\ length_field' = h /\ expected_body_length' = n
    BY <1>2, <2>3, Zenon DEF ReadBody, InProgress
  <2> HIDE DEF x, b, n, h
  <2>5. /\ body' \in Seq(Byte) /\ Len(body') = p - 3
        /\ \A i \in 1 .. p - 3 : body'[i] = b[i]
    <3>1. /\ Append(body, x) \in Seq(Byte) /\ Len(Append(body, x)) = Len(body) + 1
          /\ \A i \in 1 .. Len(body) : Append(body, x)[i] = body[i]
          /\ Append(body, x)[Len(body) + 1] = x
      BY <1>2, <2>2, AppendProperties
    <3> QED BY <1>1, <1>4, <2>2, <2>4, <3>1
  <2>6. CASE p = n + 3
    <3>1. Len(body') = n /\ \A i \in 1 .. n : body'[i] = b[i]
      BY <1>1, <2>5, <2>6
    <3>2. Len(b) = Len(body')
      BY <3>1 DEF n
    <3>3. body' = b
      BY <1>1, <2>5, <3>1, <3>2, SameSequence
    <3>4. state' = "EXPECT_CHECK_SEPARATOR" /\ p + 1 = Len(body') + 4
      BY <1>1, <1>4, <2>4, <2>6, <3>1
    <3> QED BY <2>4, <3>3, <3>4, Zenon DEF InFrame, InTail, b, h, n
  <2>7. CASE p # n + 3
    <3>1. /\ state' = "READ_BODY" /\ p + 1 \in 4 .. n + 3 /\ p + 1 >= 3
          /\ Len(body') = (p + 1) - 4
      BY <1>1, <1>4, <2>4, <2>5, <2>7
    <3>2. \A i \in 1 .. Len(body') : body'[i] = b[i]
      BY <2>5
    <3> QED BY <2>4, <3>1, <3>2, Zenon DEF InFrame, InBody, b, h, n
  <2> QED BY <2>6, <2>7
<1> QED BY <1>3, <1>4, Zenon DEF InBody

LEMMA NextInTail ==
  ASSUME NEW m \in Message, Legible(m), NEW p \in Nat, InTail(m, p), ParserInv,
         p <= Len(Body(m)) + 6, Consume(Frame(m)[p + 1])
  PROVE  InFrame(m, p + 1)'
<1> DEFINE b == Body(m)  n == Len(b)  h == LengthDigits(m)  c == CheckDigits(m)
           x == Frame(m)[p + 1]
<1>1. n \in 5 .. 255
  BY BodyFits, Zenon
<1>2. length_field = h /\ expected_body_length = n /\ body = b
  BY Zenon DEF InTail
<1>3. /\ c = <<c[1], c[2]>> /\ c[1] \in HexChar /\ c[2] \in HexChar
  BY FrameDigits, Zenon
<1>4. CASE p = n + 4 /\ state = "EXPECT_CHECK_SEPARATOR"
  <2>1. p \in 1 .. n + 7 /\ p + 1 = n + 5
    BY <1>1, <1>4
  <2>2. x # Return /\ x = SeparatorChar
    BY <1>4, <2>1, ByteOfFrame, Zenon
  <2>3. ExpectCheckSeparator(x)
    BY <1>4, <2>2, ActionOfState
  <2>4. length_field' = h /\ expected_body_length' = n /\ body' = b
        /\ state' = "READ_CHECK_HI"
    BY <1>2, <2>2, <2>3 DEF ExpectCheckSeparator, InProgress, fields
  <2> QED BY <2>1, <2>4, Zenon DEF InFrame, InTail
<1>5. CASE p = n + 5 /\ state = "READ_CHECK_HI"
  <2>1. p \in 1 .. n + 7 /\ p + 1 = n + 6
    BY <1>1, <1>5
  <2>2. x # Return /\ x = c[1]
    BY <1>5, <2>1, ByteOfFrame, Zenon
  <2>3. ReadCheckHi(x)
    BY <1>5, <2>2, ActionOfState
  <2>4. length_field' = h /\ expected_body_length' = n /\ body' = b
        /\ state' = "READ_CHECK_LO" /\ checksum_field' = <<c[1]>>
    BY <1>2, <1>3, <2>2, <2>3, Zenon DEF ReadCheckHi, InProgress
  <2> QED BY <2>1, <2>4, Zenon DEF InFrame, InTail
<1>6. CASE p = n + 6 /\ state = "READ_CHECK_LO" /\ checksum_field = <<c[1]>>
  <2>1. p \in 1 .. n + 7 /\ p + 1 = n + 7
    BY <1>1, <1>6
  <2>2. x # Return /\ x = c[2]
    BY <1>6, <2>1, ByteOfFrame, Zenon
  <2>3. ReadCheckLo(x)
    BY <1>6, <2>2, ActionOfState
  <2>4. Append(checksum_field, x) = c
    BY <1>3, <1>6, <2>2, PairAppended, Zenon
  <2>5. length_field' = h /\ expected_body_length' = n /\ body' = b
        /\ state' = "EXPECT_END" /\ checksum_field' = c
    BY <1>2, <1>3, <2>2, <2>3, <2>4, Zenon DEF ReadCheckLo, InProgress
  <2> QED BY <2>1, <2>5, Zenon DEF InFrame, InTail
<1>7. p # n + 7
  BY <1>1
<1> QED BY <1>2, <1>4, <1>5, <1>6, <1>7, Zenon DEF InTail

LEMMA NextOfFrame ==
  ASSUME NEW m \in Message, Legible(m), NEW p \in 1 .. Len(Body(m)) + 6,
         InFrame(m, p), ParserInv, Consume(Frame(m)[p + 1])
  PROVE  InFrame(m, p + 1)'
<1>1. p \in Nat /\ p <= Len(Body(m)) + 6
  BY BodyFits
<1> QED BY <1>1, NextInHead, NextInBody, NextInTail, Zenon DEF InFrame

\* The end of the frame completes its message.
LEMMA EndOfFrame ==
  ASSUME NEW m \in Message, Legible(m), InFrame(m, Len(Body(m)) + 7), ParserInv,
         Consume(EndChar)
  PROVE  state' = "WAIT_START" /\ result' = "MESSAGE_READY" /\ message' = m
<1> DEFINE n == Len(Body(m))
<1>1. n \in 5 .. 255
  BY BodyFits
<1>2. /\ length_field = LengthDigits(m) /\ body = Body(m) /\ state = "EXPECT_END"
      /\ checksum_field = CheckDigits(m)
  <2>1. /\ n + 7 # 1 /\ n + 7 # 2 /\ n + 7 # 3 /\ n + 7 \notin 4 .. n + 3
        /\ n + 7 # n + 4 /\ n + 7 # n + 5 /\ n + 7 # n + 6
    BY <1>1
  <2> QED BY <2>1, Zenon DEF InFrame, InHead, InBody, InTail
<1>3. HexValue(CheckDigits(m)) = Checksum(ChecksumInput(m))
  BY FrameDigits, Zenon
<1>4. ChecksumHolds
  <2>1. ChecksumInput(m) = LengthDigits(m) \o <<SeparatorChar>> \o Body(m)
    BY DEF ChecksumInput, LengthDigits
  <2>2. UpToNul(body) = Body(m)
    BY <1>2, WholeCopied
  <2> QED BY <1>2, <1>3, <2>1, <2>2, Zenon DEF ChecksumHolds
<1>5. Built = m
  BY <1>2, <1>4, BodyRead, CopyOfSentFits, Zenon DEF Built
<1>6. m # Invalid
  <2>1. m.payload # <<>> /\ Invalid.payload = <<>>
    BY DEF Legible, Invalid
  <2> QED BY <2>1
<1>7. ExpectEnd(EndChar)
  <2>1. EndChar # Return
    BY DEF EndChar, Return
  <2> QED BY <1>2, <2>1, ActionOfState
<1> QED BY <1>5, <1>6, <1>7, Zenon DEF ExpectEnd, Fail

-----------------------------------------------------------------------------
(* A body with a wrong byte *)

\* protocol.c:95-96 as far as parser.c:57-62 makes it true: with one byte of
\* the body changed the message is not built, unless the byte became a NUL.
THEOREM DamagedBodyRefused ==
  ASSUME NEW m \in Message, Legible(m),
         length_field = LengthDigits(m), checksum_field = CheckDigits(m),
         body \in Seq(Byte), NEW k, DifferAt(k, body, Body(m)), body[k] # Nul
  PROVE  Built = Invalid
<1> DEFINE s == Body(m)  h == LengthDigits(m)
<1>1. /\ s \in Seq(Byte) /\ Len(s) \in Nat /\ \A i \in 1 .. Len(s) : s[i] # Nul
  BY BodyFits
<1>2. /\ h \in Seq(HexChar) /\ Len(h) = 2
      /\ HexValue(CheckDigits(m)) = Checksum(ChecksumInput(m))
  BY FrameDigits, Zenon
<1>3. h \in Seq(Byte) /\ SeparatorChar \in Byte
  <2> HIDE DEF h
  <2>1. HexChar \subseteq Byte
    BY HexCharIsByte
  <2>2. SeparatorChar \in Byte
    BY DEF SeparatorChar, Byte
  <2> QED BY <1>2, <2>1, <2>2
<1>4. PICK t : t = body
  OBVIOUS
<1>5. /\ t \in Seq(Byte) /\ Len(t) = Len(s) /\ k \in 1 .. Len(s)
      /\ t[k] # s[k] /\ t[k] # Nul
      /\ \A i \in 1 .. Len(s) : i # k => t[i] = s[i]
  BY <1>4, Zenon DEF DifferAt
<1>6. PICK d : d = ChecksumInput(m)
  OBVIOUS
<1>7. d = h \o <<SeparatorChar>> \o s
  BY <1>6 DEF ChecksumInput, LengthDigits
<1>8. PICK v : v = h \o <<SeparatorChar>> \o t
  OBVIOUS
<1> HIDE DEF s, h
<1>9. /\ d \in Seq(Byte) /\ Len(d) = Len(s) + 3
      /\ d[1] = h[1] /\ d[2] = h[2] /\ d[3] = SeparatorChar
      /\ \A i \in 1 .. Len(s) : d[3 + i] = s[i]
  BY <1>1, <1>2, <1>3, <1>7, InputLayout
<1>10. /\ v \in Seq(Byte) /\ Len(v) = Len(t) + 3
       /\ v[1] = h[1] /\ v[2] = h[2] /\ v[3] = SeparatorChar
       /\ \A i \in 1 .. Len(t) : v[3 + i] = t[i]
  BY <1>2, <1>3, <1>5, <1>8, InputLayout
<1>11. DifferAt(3 + k, v, d)
  <2>1. Len(v) = Len(d) /\ 3 + k \in 1 .. Len(d)
    BY <1>1, <1>5, <1>9, <1>10
  <2>2. v[3 + k] # d[3 + k]
    BY <1>5, <1>9, <1>10, Zenon
  <2>3. ASSUME NEW i \in 1 .. Len(d), i # 3 + k
        PROVE  v[i] = d[i]
    <3>1. CASE i \in 1 .. 3
      <4>1. i = 1 \/ i = 2 \/ i = 3
        BY <3>1
      <4> QED BY <1>9, <1>10, <4>1, Zenon
    <3>2. CASE i > 3
      <4>1. i - 3 \in 1 .. Len(s) /\ i - 3 # k /\ 3 + (i - 3) = i
        BY <1>1, <1>5, <1>9, <2>3, <3>2
      <4>2. v[3 + (i - 3)] = t[i - 3] /\ d[3 + (i - 3)] = s[i - 3]
            /\ t[i - 3] = s[i - 3]
        BY <1>5, <1>9, <1>10, <4>1, Zenon
      <4> QED BY <4>1, <4>2, Zenon
    <3>3. i \in 1 .. 3 \/ i > 3
      BY <1>9
    <3> QED BY <3>1, <3>2, <3>3
  <2> QED BY <2>1, <2>2, <2>3, Zenon DEF DifferAt
<1>12. UpToNul(t) = t
  <2>1. DOMAIN t = 1 .. Len(s)
    BY <1>5
  <2>2. \A i \in DOMAIN t : t[i] # Nul
    BY <1>1, <1>5, <2>1, Zenon
  <2> QED BY <2>2, Zenon DEF UpToNul
<1>13. Checksum(v) # Checksum(d)
  BY <1>9, <1>10, <1>11, OneByteDetected, Zenon
<1>14. ~ChecksumHolds
  <2>1. length_field = h
    BY DEF h
  <2> QED BY <1>2, <1>4, <1>6, <1>8, <1>12, <1>13, <2>1, Zenon DEF ChecksumHolds
<1> QED BY <1>14, Zenon DEF Built

-----------------------------------------------------------------------------
(* The parser out of step with a frame *)

\* It has taken p bytes of the frame of m to be over, but has read the start of
\* a frame where there is none, or one byte more or less than there was.
HeadOff(m, p) ==
  LET n == Len(Body(m)) IN
  \/ state = "READ_LEN_HI" /\ p \in {2, 3, 4, n + 5, n + 6, n + 7}
  \/ state = "READ_LEN_LO" /\ p \in {1, 3, 5, n + 6, n + 7}
  \/ state = "EXPECT_LEN_SEPARATOR" /\ p \in {2, 4, 6, n + 7}
BodyOff(m, p) ==
  LET n == Len(Body(m)) IN
  \/ /\ state = "READ_BODY" /\ expected_body_length = n
     /\ p \in 5 .. n + 4 /\ Len(body) = p - 5
  \/ state = "EXPECT_CHECK_SEPARATOR" /\ p = n + 5
TailOff(m, p) ==
  LET n == Len(Body(m)) IN
  \/ state = "READ_CHECK_HI" /\ p = n + 6
  \/ state = "READ_CHECK_LO" /\ p = n + 7
  \/ state = "EXPECT_END" /\ p = 1

\* It has read, or is about to read, a length below the true one.
TooShort(m, p) ==
  LET n == Len(Body(m))  e == expected_body_length IN
  \/ /\ p = 2 /\ state = "READ_LEN_LO"
     /\ \E d \in HexChar :
          /\ length_field = <<d>>
          /\ LET D == HexValue(<<d, LengthDigits(m)[2]>>) IN LengthFits(D) => D < n
  \/ /\ p >= 3 /\ e < n
     /\ \/ state = "EXPECT_LEN_SEPARATOR" /\ p = 3
        \/ state = "READ_BODY" /\ p \in 4 .. e + 3 /\ Len(body) = p - 4
        \/ state = "EXPECT_CHECK_SEPARATOR" /\ p = e + 4
        \/ state = "READ_CHECK_HI" /\ p = e + 5
        \/ state = "READ_CHECK_LO" /\ p = e + 6
        \/ state = "EXPECT_END" /\ p = e + 7

\* It has read a body with one wrong byte.
OneWrong(s, b) ==
  \E k \in 1 .. Len(s) :
    s[k] # b[k] /\ s[k] # Nul /\ \A i \in 1 .. Len(s) : i # k => s[i] = b[i]
BodyWrong(m, p) ==
  LET n == Len(Body(m)) IN
  /\ length_field = LengthDigits(m) /\ expected_body_length = n
  /\ OneWrong(body, Body(m))
  /\ \/ state = "READ_BODY" /\ p \in 5 .. n + 3 /\ Len(body) = p - 4
     \/ /\ Len(body) = n
        /\ \/ state = "EXPECT_CHECK_SEPARATOR" /\ p = n + 4
           \/ state = "READ_CHECK_HI" /\ p = n + 5
           \/ state = "READ_CHECK_LO" /\ p = n + 6 /\ checksum_field = <<CheckDigits(m)[1]>>
           \/ state = "EXPECT_END" /\ p = n + 7 /\ checksum_field = CheckDigits(m)

\* It has read a wrong digit of the checksum.
CheckWrong(m, p) ==
  LET n == Len(Body(m)) IN
  /\ length_field = LengthDigits(m) /\ expected_body_length = n /\ body = Body(m)
  /\ \/ /\ state = "READ_CHECK_LO" /\ p = n + 6
        /\ \E d \in HexChar : checksum_field = <<d>> /\ d # CheckDigits(m)[1]
     \/ state = "EXPECT_END" /\ p = n + 7 /\ checksum_field # CheckDigits(m)

\* One way or the other it will find the frame to be wrong.
Adrift(m, p) ==
  \/ state = "WAIT_START"
  \/ HeadOff(m, p) \/ BodyOff(m, p) \/ TailOff(m, p)
  \/ TooShort(m, p) \/ BodyWrong(m, p) \/ CheckWrong(m, p)

\* Only the end of a frame delivers a message, and only one that was built.
LEMMA OnlyEndDelivers ==
  ASSUME NEW x, Consume(x), result' = "MESSAGE_READY"
  PROVE  /\ state = "EXPECT_END" /\ x = EndChar /\ Built # Invalid
         /\ message' = Built /\ state' = "WAIT_START"
<1>1. ~Fail(x)
  BY DEF Fail
<1>2. \A next : ~InProgress(next)
  BY DEF InProgress
<1> QED BY <1>1, <1>2, Zenon DEF Consume, PassOver, WaitStart, ReadLenHi, ReadLenLo,
       ExpectLenSeparator, ReadBody, ExpectCheckSeparator, ReadCheckHi, ReadCheckLo, ExpectEnd

\* A byte that does not fit sends the parser back to the start of a frame.
LEMMA Refused ==
  ASSUME NEW x, x # Return, Consume(x),
         \/ state = "WAIT_START"
         \/ state \in {"READ_LEN_HI", "READ_LEN_LO", "READ_CHECK_HI", "READ_CHECK_LO"}
            /\ x \notin HexChar
         \/ state \in {"EXPECT_LEN_SEPARATOR", "EXPECT_CHECK_SEPARATOR"}
            /\ x # SeparatorChar
         \/ state = "EXPECT_END" /\ ~(x = EndChar /\ Built # Invalid)
  PROVE  state' = AfterFail(x)
<1>1. Fail(x) => state' = AfterFail(x)
  BY DEF Fail
<1>2. CASE state = "WAIT_START"
  BY <1>2, ActionOfState DEF WaitStart, InProgress, AfterFail
<1>3. CASE state = "READ_LEN_HI" /\ x \notin HexChar
  BY <1>1, <1>3, ActionOfState, Zenon DEF ReadLenHi
<1>4. CASE state = "READ_LEN_LO" /\ x \notin HexChar
  BY <1>1, <1>4, ActionOfState, Zenon DEF ReadLenLo
<1>5. CASE state = "READ_CHECK_HI" /\ x \notin HexChar
  BY <1>1, <1>5, ActionOfState, Zenon DEF ReadCheckHi
<1>6. CASE state = "READ_CHECK_LO" /\ x \notin HexChar
  BY <1>1, <1>6, ActionOfState, Zenon DEF ReadCheckLo
<1>7. CASE state = "EXPECT_LEN_SEPARATOR" /\ x # SeparatorChar
  BY <1>1, <1>7, ActionOfState, Zenon DEF ExpectLenSeparator
<1>8. CASE state = "EXPECT_CHECK_SEPARATOR" /\ x # SeparatorChar
  BY <1>1, <1>8, ActionOfState, Zenon DEF ExpectCheckSeparator
<1>9. CASE state = "EXPECT_END" /\ ~(x = EndChar /\ Built # Invalid)
  BY <1>1, <1>9, ActionOfState, Zenon DEF ExpectEnd
<1> QED BY <1>2, <1>3, <1>4, <1>5, <1>6, <1>7, <1>8, <1>9

\* A byte that a state does not take sends the parser back to wait for a start.
LEMMA Misread ==
  ASSUME NEW x, x # Return, x # StartChar, Consume(x),
         \/ state = "WAIT_START"
         \/ state \in {"READ_LEN_HI", "READ_LEN_LO", "READ_CHECK_HI", "READ_CHECK_LO"}
            /\ x \notin HexChar
         \/ state \in {"EXPECT_LEN_SEPARATOR", "EXPECT_CHECK_SEPARATOR"}
            /\ x # SeparatorChar
         \/ state = "EXPECT_END" /\ ~(x = EndChar /\ Built # Invalid)
  PROVE  state' = "WAIT_START"
<1>1. state' = AfterFail(x)
  BY Refused, Zenon
<1> QED BY <1>1 DEF AfterFail

\* What stands where in a frame, as far as the parser can tell.
LEMMA KindOfByte ==
  ASSUME NEW m \in Message, Legible(m), NEW p \in 1 .. Len(Body(m)) + 7
  PROVE  LET x == Frame(m)[p + 1]  n == Len(Body(m)) IN
         /\ x # Return
         /\ p \in {1, 2, n + 5, n + 6} => x \in HexChar /\ x # SeparatorChar
         /\ p \in {3, n + 4} => x = SeparatorChar /\ x \notin HexChar
         /\ p \in {4, 5, 6} => x # SeparatorChar
         /\ p = n + 7 => x = EndChar /\ x \notin HexChar /\ x # SeparatorChar
<1> DEFINE b == Body(m)  n == Len(b)  h == LengthDigits(m)  c == CheckDigits(m)
           x == Frame(m)[p + 1]
<1>1. /\ x # Return
      /\ p = 1 => x = h[1]
      /\ p = 2 => x = h[2]
      /\ p = 3 => x = SeparatorChar
      /\ p \in 4 .. n + 3 => x = b[p - 3]
      /\ p = n + 4 => x = SeparatorChar
      /\ p = n + 5 => x = c[1]
      /\ p = n + 6 => x = c[2]
      /\ p = n + 7 => x = EndChar
  BY ByteOfFrame, Zenon
<1>2. /\ h[1] \in HexChar /\ h[2] \in HexChar /\ c[1] \in HexChar /\ c[2] \in HexChar
  BY FrameDigits, Zenon
<1>3. /\ SeparatorChar \notin HexChar /\ EndChar \notin HexChar /\ SeparatorChar # EndChar
  BY HexCharIsByte DEF SeparatorChar, EndChar
<1>4. n \in 5 .. 255
  BY BodyFits, Zenon
<1>5. \A i \in 1 .. 3 : b[i] # SeparatorChar
  <2>1. \A i \in 1 .. 3 : b[i] = TypeText[m.type][i]
    BY BodyShape
  <2>2. \A i \in 1 .. 3 : TypeText[m.type][i] \in Letter
    BY TypeNames DEF Message
  <2>3. \A y \in Letter : y # SeparatorChar
    BY DEF Letter, SeparatorChar
  <2> QED BY <2>1, <2>2, <2>3, Zenon
<1> HIDE DEF b, n, h, c, x
<1>6. p \in {4, 5, 6} => x # SeparatorChar
  <2> SUFFICES ASSUME p \in {4, 5, 6} PROVE x # SeparatorChar
    OBVIOUS
  <2>1. p \in 4 .. n + 3 /\ p - 3 \in 1 .. 3
    BY <1>4
  <2> QED BY <1>1, <1>5, <2>1, Zenon
<1> QED BY <1>1, <1>2, <1>3, <1>6, Zenon DEF b, n, h, c, x

\* The six states of Adrift each go on with the next byte, or back to the start.
LEMMA HeadOffNext ==
  ASSUME NEW m \in Message, Legible(m), NEW p \in 1 .. Len(Body(m)) + 7, HeadOff(m, p),
         NEW x, x = Frame(m)[p + 1], x # StartChar, Consume(x)
  PROVE  state' = "WAIT_START" \/ (p <= Len(Body(m)) + 6 /\ HeadOff(m, p + 1)')
<1> DEFINE n == Len(Body(m))
<1>1. /\ x # Return
      /\ p \in {1, 2, n + 5, n + 6} => x \in HexChar /\ x # SeparatorChar
      /\ p = 3 => x = SeparatorChar /\ x \notin HexChar
      /\ p \in {4, 5, 6} => x # SeparatorChar
      /\ p = n + 7 => x = EndChar /\ x \notin HexChar /\ x # SeparatorChar
  BY KindOfByte, Zenon
<1>2. n \in 5 .. 255
  BY BodyFits, Zenon
<1>3. \/ state = "READ_LEN_HI" /\ p \in {2, 3, 4, n + 5, n + 6, n + 7}
      \/ state = "READ_LEN_LO" /\ p \in {1, 3, 5, n + 6, n + 7}
      \/ state = "EXPECT_LEN_SEPARATOR" /\ p \in {2, 4, 6, n + 7}
  BY Zenon DEF HeadOff
<1> HIDE DEF n
<1>4. CASE state = "READ_LEN_HI" /\ x \in HexChar
  <2>1. state' = "READ_LEN_LO"
    BY <1>1, <1>4, ActionOfState, Zenon DEF ReadLenHi, InProgress
  <2>2. p \in {2, 4, n + 5, n + 6}
    BY <1>1, <1>3, <1>4
  <2>3. p <= n + 6 /\ p + 1 \in {1, 3, 5, n + 6, n + 7}
    BY <1>2, <2>2
  <2> QED BY <2>1, <2>3, Zenon DEF HeadOff, n
<1>5. CASE state = "READ_LEN_LO" /\ x \in HexChar
  <2>1. state' = "EXPECT_LEN_SEPARATOR" \/ Fail(x)
    BY <1>1, <1>5, ActionOfState, Zenon DEF ReadLenLo, InProgress
  <2>2. Fail(x) => state' = "WAIT_START"
    BY DEF Fail, AfterFail
  <2>3. p \in {1, 5, n + 6}
    BY <1>1, <1>3, <1>5
  <2>4. p <= n + 6 /\ p + 1 \in {2, 4, 6, n + 7}
    BY <1>2, <2>3
  <2> QED BY <2>1, <2>2, <2>4, Zenon DEF HeadOff, n
<1>6. CASE state = "EXPECT_LEN_SEPARATOR"
  <2>1. x # SeparatorChar
    BY <1>1, <1>3, <1>6
  <2> QED BY <1>1, <1>6, <2>1, Misread
<1>7. CASE state \in {"READ_LEN_HI", "READ_LEN_LO"} /\ x \notin HexChar
  BY <1>1, <1>7, Misread
<1> QED BY <1>3, <1>4, <1>5, <1>6, <1>7

LEMMA BodyOffNext ==
  ASSUME NEW m \in Message, Legible(m), NEW p \in 1 .. Len(Body(m)) + 7, BodyOff(m, p),
         NEW x \in Byte, x = Frame(m)[p + 1], x # StartChar, Consume(x), ParserInv
  PROVE  state' = "WAIT_START" \/ (p <= Len(Body(m)) + 6 /\ BodyOff(m, p + 1)')
<1> DEFINE n == Len(Body(m))
<1>1. x # Return /\ (p = n + 5 => x # SeparatorChar)
  BY KindOfByte, Zenon
<1>2. n \in 5 .. 255
  BY BodyFits, Zenon
<1>3. CASE /\ state = "READ_BODY" /\ expected_body_length = n
           /\ p \in 5 .. n + 4 /\ Len(body) = p - 5
  <2>1. /\ body' = Append(body, x) /\ expected_body_length' = expected_body_length
        /\ state' = IF Len(body) + 1 >= expected_body_length
                      THEN "EXPECT_CHECK_SEPARATOR" ELSE "READ_BODY"
    BY <1>1, <1>3, ActionOfState, Zenon DEF ReadBody, InProgress
  <2>2. body \in Seq(Byte)
    BY DEF ParserInv, ParserTypeOK
  <2>3. Len(body') = p - 4
    BY <1>3, <2>1, <2>2, Grown
  <2> HIDE DEF n
  <2>4. CASE p = n + 4
    <3>1. state' = "EXPECT_CHECK_SEPARATOR" /\ p + 1 = n + 5 /\ p <= n + 6
      BY <1>2, <1>3, <2>1, <2>4
    <3> QED BY <3>1, Zenon DEF BodyOff, n
  <2>5. CASE p # n + 4
    <3>1. /\ state' = "READ_BODY" /\ p + 1 \in 5 .. n + 4 /\ p <= n + 6
          /\ Len(body') = (p + 1) - 5
      BY <1>2, <1>3, <2>1, <2>3, <2>5
    <3>2. expected_body_length' = n
      BY <1>3, <2>1
    <3> QED BY <3>1, <3>2, Zenon DEF BodyOff, n
  <2> QED BY <2>4, <2>5
<1>4. CASE state = "EXPECT_CHECK_SEPARATOR" /\ p = n + 5
  BY <1>1, <1>4, Misread
<1> QED BY <1>3, <1>4, Zenon DEF BodyOff

LEMMA TailOffNext ==
  ASSUME NEW m \in Message, Legible(m), NEW p \in 1 .. Len(Body(m)) + 7, TailOff(m, p),
         NEW x, x = Frame(m)[p + 1], x # StartChar, Consume(x)
  PROVE  state' = "WAIT_START" \/ (p <= Len(Body(m)) + 6 /\ TailOff(m, p + 1)')
<1> DEFINE n == Len(Body(m))
<1>1. /\ x # Return /\ (p = 1 => x \in HexChar) /\ (p = n + 6 => x \in HexChar)
      /\ (p = n + 7 => x \notin HexChar)
  BY KindOfByte, Zenon
<1>2. n \in 5 .. 255
  BY BodyFits, Zenon
<1>3. CASE state = "READ_CHECK_HI" /\ p = n + 6
  <2>1. state' = "READ_CHECK_LO"
    BY <1>1, <1>3, ActionOfState, Zenon DEF ReadCheckHi, InProgress
  <2> HIDE DEF n
  <2>2. p <= n + 6 /\ p + 1 = n + 7
    BY <1>2, <1>3
  <2> QED BY <2>1, <2>2, Zenon DEF TailOff, n
<1>4. CASE state = "READ_CHECK_LO" /\ p = n + 7
  BY <1>1, <1>4, Misread
<1>5. CASE state = "EXPECT_END" /\ p = 1
  <2>1. x # EndChar
    BY <1>1, <1>5, HexCharIsByte
  <2> QED BY <1>1, <1>5, <2>1, Misread
<1> QED BY <1>3, <1>4, <1>5, Zenon DEF TailOff

LEMMA TooShortNext ==
  ASSUME NEW m \in Message, Legible(m), NEW p \in 1 .. Len(Body(m)) + 7, TooShort(m, p),
         NEW x \in Byte, x = Frame(m)[p + 1], x # StartChar, Consume(x), ParserInv,
         p # Len(Body(m)) + 7 => x # EndChar
  PROVE  state' = "WAIT_START" \/ (p <= Len(Body(m)) + 6 /\ TooShort(m, p + 1)')
<1> DEFINE n == Len(Body(m))  e == expected_body_length  h == LengthDigits(m)
<1>1. /\ x # Return
      /\ p = 2 => x = h[2]
      /\ p = 3 => x = SeparatorChar
  BY ByteOfFrame, Zenon
<1>2. n \in 5 .. 255 /\ h[2] \in HexChar
  BY BodyFits, FrameDigits, Zenon
<1>3. e \in Nat /\ body \in Seq(Byte)
  BY MaxBodyIsNatural DEF ParserInv, ParserTypeOK
<1>4. Fail(x) => state' = "WAIT_START"
  BY DEF Fail, AfterFail
<1>5. ASSUME p = 2, state = "READ_LEN_LO", NEW d \in HexChar, length_field = <<d>>,
             LengthFits(HexValue(<<d, h[2]>>)) => HexValue(<<d, h[2]>>) < n
      PROVE  state' = "WAIT_START" \/ (p <= n + 6 /\ TooShort(m, p + 1)')
  <2> HIDE DEF n
  <2>1. ReadLenLo(x) /\ Append(length_field, x) = <<d, h[2]>>
    BY <1>1, <1>2, <1>5, ActionOfState, PairAppended, Zenon
  <2>2. \/ Fail(x)
        \/ /\ LengthFits(HexValue(<<d, h[2]>>)) /\ state' = "EXPECT_LEN_SEPARATOR"
           /\ e' = HexValue(<<d, h[2]>>)
    BY <2>1, Zenon DEF ReadLenLo, InProgress
  <2>3. p <= n + 6 /\ p + 1 = 3 /\ p + 1 >= 3
    BY <1>2, <1>5
  <2> QED BY <1>4, <1>5, <2>2, <2>3, Zenon DEF TooShort, n
<1>6. ASSUME p = 3, state = "EXPECT_LEN_SEPARATOR", e < n
      PROVE  p <= n + 6 /\ TooShort(m, p + 1)'
  <2>1. ExpectLenSeparator(x) /\ x = SeparatorChar
    BY <1>1, <1>6, ActionOfState, Zenon
  <2>2. state' = "READ_BODY" /\ e' = e /\ body' = body
    BY <2>1 DEF ExpectLenSeparator, InProgress, fields
  <2>3. body = <<>> /\ e > 0
    BY <1>6 DEF ParserInv, FieldsInStep, BeforeBody
  <2>4. Len(body') = 0
    BY <2>2, <2>3
  <2> HIDE DEF n, e
  <2>5. p <= n + 6 /\ p + 1 >= 3 /\ p + 1 \in 4 .. e' + 3 /\ Len(body') = (p + 1) - 4
        /\ e' < n
    BY <1>2, <1>3, <1>6, <2>2, <2>3, <2>4
  <2> QED BY <2>2, <2>5, Zenon DEF TooShort, n, e
<1>7. ASSUME state = "READ_BODY", e < n, p \in 4 .. e + 3, Len(body) = p - 4
      PROVE  p <= n + 6 /\ TooShort(m, p + 1)'
  <2>1. /\ body' = Append(body, x) /\ e' = e
        /\ state' = IF Len(body) + 1 >= e
                      THEN "EXPECT_CHECK_SEPARATOR" ELSE "READ_BODY"
    BY <1>1, <1>7, ActionOfState, Zenon DEF ReadBody, InProgress
  <2>2. Len(body') = Len(body) + 1
    BY <1>3, <2>1, Grown
  <2> HIDE DEF n, e
  <2>3. p <= n + 6 /\ p + 1 >= 3 /\ e' < n
    BY <1>2, <1>3, <1>7, <2>1
  <2>4. CASE p = e + 3
    <3>1. state' = "EXPECT_CHECK_SEPARATOR" /\ p + 1 = e' + 4
      BY <1>3, <1>7, <2>1, <2>4
    <3> QED BY <2>3, <3>1, Zenon DEF TooShort, n, e
  <2>5. CASE p # e + 3
    <3>1. state' = "READ_BODY" /\ p + 1 \in 4 .. e' + 3 /\ Len(body') = (p + 1) - 4
      BY <1>3, <1>7, <2>1, <2>2, <2>5
    <3> QED BY <2>3, <3>1, Zenon DEF TooShort, n, e
  <2> QED BY <2>4, <2>5
<1>8. ASSUME state = "EXPECT_CHECK_SEPARATOR", e < n, p = e + 4
      PROVE  state' = "WAIT_START" \/ (p <= n + 6 /\ TooShort(m, p + 1)')
  <2>1. Fail(x) \/ (state' = "READ_CHECK_HI" /\ e' = e)
    BY <1>1, <1>8, ActionOfState DEF ExpectCheckSeparator, InProgress, fields
  <2> HIDE DEF n, e
  <2>2. p <= n + 6 /\ p + 1 >= 3 /\ p + 1 = e + 5
    BY <1>2, <1>3, <1>8
  <2> QED BY <1>4, <1>8, <2>1, <2>2, Zenon DEF TooShort, n, e
<1>9. ASSUME state = "READ_CHECK_HI", e < n, p = e + 5
      PROVE  state' = "WAIT_START" \/ (p <= n + 6 /\ TooShort(m, p + 1)')
  <2>1. Fail(x) \/ (state' = "READ_CHECK_LO" /\ e' = e)
    BY <1>1, <1>9, ActionOfState, Zenon DEF ReadCheckHi, InProgress
  <2> HIDE DEF n, e
  <2>2. p <= n + 6 /\ p + 1 >= 3 /\ p + 1 = e + 6
    BY <1>2, <1>3, <1>9
  <2> QED BY <1>4, <1>9, <2>1, <2>2, Zenon DEF TooShort, n, e
<1>10. ASSUME state = "READ_CHECK_LO", e < n, p = e + 6
       PROVE  state' = "WAIT_START" \/ (p <= n + 6 /\ TooShort(m, p + 1)')
  <2>1. Fail(x) \/ (state' = "EXPECT_END" /\ e' = e)
    BY <1>1, <1>10, ActionOfState, Zenon DEF ReadCheckLo, InProgress
  <2> HIDE DEF n, e
  <2>2. p <= n + 6 /\ p + 1 >= 3 /\ p + 1 = e + 7
    BY <1>2, <1>3, <1>10
  <2> QED BY <1>4, <1>10, <2>1, <2>2, Zenon DEF TooShort, n, e
<1>11. ASSUME state = "EXPECT_END", e < n, p = e + 7
       PROVE  state' = "WAIT_START"
  <2>1. p # n + 7
    <3> HIDE DEF n, e
    <3> QED BY <1>2, <1>3, <1>11
  <2> QED BY <1>1, <1>11, <2>1, Misread
<1> QED BY <1>5, <1>6, <1>7, <1>8, <1>9, <1>10, <1>11, Zenon DEF TooShort

\* Two digits tell apart what they are written for.
LEMMA HexTells ==
  ASSUME NEW a \in HexChar, NEW b \in HexChar, NEW c \in HexChar, NEW d \in HexChar,
         HexValue(<<a, b>>) = HexValue(<<c, d>>)
  PROVE  a = c /\ b = d
<1>1. \A x \in HexChar : Nibble(x) \in 0 .. 15
  BY NibbleRange
<1>2. \A x, y \in HexChar : Nibble(x) = Nibble(y) => x = y
  BY DEF HexChar, Digits, UpperLetters, Nibble
<1>3. Nibble(a) * 16 + Nibble(b) = Nibble(c) * 16 + Nibble(d)
  BY DEF HexValue
<1>4. Nibble(a) = Nibble(c) /\ Nibble(b) = Nibble(d)
  BY <1>1, <1>3
<1> QED BY <1>2, <1>4

\* A field of two digits is the pair of them.
LEMMA PairRead ==
  ASSUME NEW S, NEW s \in Seq(S), Len(s) = 2
  PROVE  s = <<s[1], s[2]>> /\ s[1] \in S /\ s[2] \in S
<1>1. s[1] \in S /\ s[2] \in S
  <2>1. 1 \in 1 .. Len(s) /\ 2 \in 1 .. Len(s)
    OBVIOUS
  <2> QED BY <2>1, ElementOfSeq, Zenon
<1>2. <<s[1], s[2]>> \in Seq(S) /\ Len(<<s[1], s[2]>>) = 2
  BY <1>1
<1>3. \A i \in 1 .. Len(s) : s[i] = <<s[1], s[2]>>[i]
  OBVIOUS
<1> QED BY <1>1, <1>2, <1>3, SameSequence

\* parser.c:90-103: for every message and for its body as it was sent, digits
\* other than those protocol_encode_frame wrote are no checksum of it, and the
\* parser builds no message.
THEOREM OtherDigitsRefused ==
  ASSUME NEW m \in Message, Legible(m), length_field = LengthDigits(m), body = Body(m),
         checksum_field \in Seq(HexChar), Len(checksum_field) = 2,
         checksum_field # CheckDigits(m)
  PROVE  Built = Invalid
<1> DEFINE c == CheckDigits(m)  g == checksum_field
<1>1. c = <<c[1], c[2]>> /\ c[1] \in HexChar /\ c[2] \in HexChar
      /\ HexValue(c) = Checksum(ChecksumInput(m))
  BY FrameDigits, Zenon
<1>2. g = <<g[1], g[2]>> /\ g[1] \in HexChar /\ g[2] \in HexChar
  BY PairRead, Zenon
<1>3. HexValue(g) # HexValue(c)
  <2> SUFFICES ASSUME HexValue(g) = HexValue(c) PROVE FALSE
    OBVIOUS
  <2> HIDE DEF c, g
  <2>1. HexValue(<<g[1], g[2]>>) = HexValue(<<c[1], c[2]>>)
    BY <1>1, <1>2
  <2>2. g[1] = c[1] /\ g[2] = c[2]
    BY <1>1, <1>2, <2>1, HexTells
  <2>3. g = c
    BY <1>1, <1>2, <2>2
  <2> QED BY <2>3 DEF g, c
<1>4. Checksum(ChecksumInput(m)) = Checksum(length_field \o <<SeparatorChar>> \o UpToNul(body))
  <2>1. ChecksumInput(m) = LengthDigits(m) \o <<SeparatorChar>> \o Body(m)
    BY DEF ChecksumInput, LengthDigits
  <2>2. UpToNul(body) = Body(m)
    BY WholeCopied
  <2> QED BY <2>1, <2>2, Zenon
<1> QED BY <1>1, <1>3, <1>4, Zenon DEF Built, ChecksumHolds

\* Nothing is built of a body with a wrong byte, or with wrong digits.
LEMMA WrongRefused ==
  ASSUME NEW m \in Message, Legible(m), NEW p, state = "EXPECT_END", ParserInv,
         BodyWrong(m, p) \/ CheckWrong(m, p)
  PROVE  Built = Invalid
<1> DEFINE b == Body(m)  n == Len(b)
<1>1. /\ body \in Seq(Byte)
      /\ checksum_field \in Seq(HexChar) /\ Len(checksum_field) = 2
  BY Zenon DEF ParserInv, ParserTypeOK, FieldsInStep
<1>2. CASE BodyWrong(m, p)
  <2>1. /\ length_field = LengthDigits(m) /\ OneWrong(body, b) /\ Len(body) = n
        /\ checksum_field = CheckDigits(m)
    BY <1>2, Zenon DEF BodyWrong
  <2>2. PICK k \in 1 .. Len(body) :
          body[k] # b[k] /\ body[k] # Nul /\ \A i \in 1 .. Len(body) : i # k => body[i] = b[i]
    BY <2>1, Zenon DEF OneWrong
  <2>3. DifferAt(k, body, b)
    BY <2>1, <2>2, Zenon DEF DifferAt
  <2> QED BY <1>1, <2>1, <2>2, <2>3, DamagedBodyRefused, Zenon
<1>3. CASE CheckWrong(m, p)
  <2>1. /\ length_field = LengthDigits(m) /\ body = b
        /\ checksum_field # CheckDigits(m)
    BY <1>3, Zenon DEF CheckWrong
  <2> QED BY <1>1, <2>1, OtherDigitsRefused, Zenon
<1> QED BY <1>2, <1>3

LEMMA BodyWrongNext ==
  ASSUME NEW m \in Message, Legible(m), NEW p \in 1 .. Len(Body(m)) + 7, BodyWrong(m, p),
         NEW x \in Byte, x = Frame(m)[p + 1], x # StartChar, Consume(x), ParserInv
  PROVE  state' = "WAIT_START" \/ (p <= Len(Body(m)) + 6 /\ BodyWrong(m, p + 1)')
<1> DEFINE b == Body(m)  n == Len(b)  h == LengthDigits(m)  c == CheckDigits(m)
<1>1. /\ x # Return
      /\ p \in 4 .. n + 3 => x = b[p - 3]
      /\ p = n + 4 => x = SeparatorChar
      /\ p = n + 5 => x = c[1]
      /\ p = n + 6 => x = c[2]
  BY ByteOfFrame, Zenon
<1>2. n \in 5 .. 255 /\ b \in Seq(Byte) /\ Len(b) = n
  BY BodyFits, Zenon
<1>3. body \in Seq(Byte) /\ length_field = h /\ expected_body_length = n /\ OneWrong(body, b)
  BY Zenon DEF ParserInv, ParserTypeOK, BodyWrong
<1>4. c = <<c[1], c[2]>> /\ c[1] \in HexChar /\ c[2] \in HexChar
  BY FrameDigits, Zenon
<1>5. ASSUME state = "READ_BODY", p \in 5 .. n + 3, Len(body) = p - 4
      PROVE  p <= n + 6 /\ BodyWrong(m, p + 1)'
  <2>1. /\ body' = Append(body, x) /\ length_field' = h /\ expected_body_length' = n
        /\ state' = IF Len(body) + 1 >= n THEN "EXPECT_CHECK_SEPARATOR" ELSE "READ_BODY"
    BY <1>1, <1>3, <1>5, ActionOfState, Zenon DEF ReadBody, InProgress
  <2> HIDE DEF b, n, h, c
  <2>2. PICK k \in 1 .. Len(body) :
          body[k] # b[k] /\ body[k] # Nul /\ \A i \in 1 .. Len(body) : i # k => body[i] = b[i]
    BY <1>3, Zenon DEF OneWrong
  <2>3. /\ Len(body') = p - 3 /\ body'[p - 3] = b[p - 3]
        /\ \A i \in 1 .. Len(body) : body'[i] = body[i]
    <3>1. /\ Len(Append(body, x)) = Len(body) + 1
          /\ \A i \in 1 .. Len(body) : Append(body, x)[i] = body[i]
          /\ Append(body, x)[Len(body) + 1] = x
      BY <1>3, AppendProperties
    <3>2. p \in 4 .. n + 3 /\ Len(body) + 1 = p - 3
      BY <1>2, <1>5
    <3> QED BY <1>1, <2>1, <3>1, <3>2, Zenon
  <2>4. OneWrong(body', b)
    <3>1. k \in 1 .. Len(body') /\ body'[k] # b[k] /\ body'[k] # Nul
      BY <1>2, <1>5, <2>2, <2>3
    <3>2. ASSUME NEW i \in 1 .. Len(body'), i # k
          PROVE  body'[i] = b[i]
      <4>1. i \in 1 .. Len(body) \/ i = p - 3
        BY <1>2, <1>5, <2>3, <3>2
      <4> QED BY <2>2, <2>3, <3>2, <4>1, Zenon
    <3> QED BY <3>1, <3>2, Zenon DEF OneWrong
  <2>5. OneWrong(body, b)'
    BY <2>4, Zenon DEF OneWrong, b
  <2>6. p <= n + 6
    BY <1>2, <1>5
  <2>7. CASE p = n + 3
    <3>1. state' = "EXPECT_CHECK_SEPARATOR" /\ Len(body') = n /\ p + 1 = n + 4
      BY <1>2, <1>5, <2>1, <2>3, <2>7
    <3> QED BY <2>1, <2>5, <2>6, <3>1, Zenon DEF BodyWrong, b, n, h
  <2>8. CASE p # n + 3
    <3>1. state' = "READ_BODY" /\ p + 1 \in 5 .. n + 3 /\ Len(body') = (p + 1) - 4
      BY <1>2, <1>5, <2>1, <2>3, <2>8
    <3> QED BY <2>1, <2>5, <2>6, <3>1, Zenon DEF BodyWrong, b, n, h
  <2> QED BY <2>7, <2>8
<1>6. ASSUME UNCHANGED <<length_field, expected_body_length, body>>
      PROVE  length_field' = h /\ expected_body_length' = n /\ OneWrong(body, b)'
             /\ Len(body') = Len(body)
  BY <1>3, <1>6, Zenon DEF OneWrong
<1>7. ASSUME state = "EXPECT_CHECK_SEPARATOR", p = n + 4, Len(body) = n
      PROVE  p <= n + 6 /\ BodyWrong(m, p + 1)'
  <2>1. ExpectCheckSeparator(x) /\ x = SeparatorChar
    BY <1>1, <1>7, ActionOfState, Zenon
  <2>2. /\ state' = "READ_CHECK_HI"
        /\ UNCHANGED <<length_field, expected_body_length, body>>
    BY <2>1 DEF ExpectCheckSeparator, InProgress, fields
  <2>3. length_field' = h /\ expected_body_length' = n /\ OneWrong(body, b)'
        /\ Len(body') = n
    BY <1>6, <1>7, <2>2, Zenon
  <2> HIDE DEF b, n, h, c
  <2>4. p <= n + 6 /\ p + 1 = n + 5
    BY <1>2, <1>7
  <2> QED BY <2>2, <2>3, <2>4, Zenon DEF BodyWrong, b, n, h
<1>8. ASSUME state = "READ_CHECK_HI", p = n + 5, Len(body) = n
      PROVE  p <= n + 6 /\ BodyWrong(m, p + 1)'
  <2>1. ReadCheckHi(x) /\ x = c[1]
    BY <1>1, <1>8, ActionOfState, Zenon
  <2>2. /\ state' = "READ_CHECK_LO" /\ checksum_field' = <<c[1]>>
        /\ UNCHANGED <<length_field, expected_body_length, body>>
    BY <1>4, <2>1, Zenon DEF ReadCheckHi, InProgress
  <2>3. length_field' = h /\ expected_body_length' = n /\ OneWrong(body, b)'
        /\ Len(body') = n
    BY <1>6, <1>8, <2>2, Zenon
  <2> HIDE DEF b, n, h, c
  <2>4. p <= n + 6 /\ p + 1 = n + 6
    BY <1>2, <1>8
  <2> QED BY <2>2, <2>3, <2>4, Zenon DEF BodyWrong, b, n, h, c
<1>9. ASSUME state = "READ_CHECK_LO", p = n + 6, Len(body) = n,
             checksum_field = <<c[1]>>
      PROVE  p <= n + 6 /\ BodyWrong(m, p + 1)'
  <2>1. ReadCheckLo(x) /\ x = c[2]
    BY <1>1, <1>9, ActionOfState, Zenon
  <2>2. Append(checksum_field, x) = c
    BY <1>4, <1>9, <2>1, PairAppended, Zenon
  <2>3. /\ state' = "EXPECT_END" /\ checksum_field' = c
        /\ UNCHANGED <<length_field, expected_body_length, body>>
    BY <1>4, <2>1, <2>2, Zenon DEF ReadCheckLo, InProgress
  <2>4. length_field' = h /\ expected_body_length' = n /\ OneWrong(body, b)'
        /\ Len(body') = n
    BY <1>6, <1>9, <2>3, Zenon
  <2> HIDE DEF b, n, h, c
  <2>5. p <= n + 6 /\ p + 1 = n + 7
    BY <1>2, <1>9
  <2> QED BY <2>3, <2>4, <2>5, Zenon DEF BodyWrong, b, n, h, c
<1>10. ASSUME state = "EXPECT_END"
       PROVE  state' = "WAIT_START"
  <2>1. Built = Invalid
    BY <1>10, WrongRefused, Zenon
  <2> QED BY <1>1, <1>10, <2>1, Misread, Zenon
<1> QED BY <1>5, <1>7, <1>8, <1>9, <1>10, Zenon DEF BodyWrong

LEMMA CheckWrongNext ==
  ASSUME NEW m \in Message, Legible(m), NEW p \in 1 .. Len(Body(m)) + 7, CheckWrong(m, p),
         NEW x \in Byte, x = Frame(m)[p + 1], x # StartChar, Consume(x), ParserInv
  PROVE  state' = "WAIT_START" \/ (p <= Len(Body(m)) + 6 /\ CheckWrong(m, p + 1)')
<1> DEFINE b == Body(m)  n == Len(b)  h == LengthDigits(m)  c == CheckDigits(m)
<1>1. x # Return /\ (p = n + 6 => x = c[2])
  BY ByteOfFrame, Zenon
<1>2. n \in 5 .. 255
  BY BodyFits, Zenon
<1>3. length_field = h /\ expected_body_length = n /\ body = b
  BY Zenon DEF CheckWrong
<1>4. c = <<c[1], c[2]>> /\ c[1] \in HexChar /\ c[2] \in HexChar
  BY FrameDigits, Zenon
<1>5. ASSUME state = "READ_CHECK_LO", p = n + 6, NEW d \in HexChar,
             checksum_field = <<d>>, d # c[1]
      PROVE  p <= n + 6 /\ CheckWrong(m, p + 1)'
  <2>1. ReadCheckLo(x) /\ x = c[2]
    BY <1>1, <1>5, ActionOfState, Zenon
  <2>2. Append(checksum_field, x) = <<d, c[2]>>
    BY <1>4, <1>5, <2>1, PairAppended, Zenon
  <2>3. <<d, c[2]>> # c
    <3> HIDE DEF c
    <3>1. <<d, c[2]>>[1] = d
      OBVIOUS
    <3> QED BY <1>5, <3>1
  <2>4. /\ state' = "EXPECT_END" /\ checksum_field' # c
        /\ length_field' = h /\ expected_body_length' = n /\ body' = b
    BY <1>3, <1>4, <2>1, <2>2, <2>3, Zenon DEF ReadCheckLo, InProgress
  <2> HIDE DEF b, n, h, c
  <2>5. p <= n + 6 /\ p + 1 = n + 7
    BY <1>2, <1>5
  <2> QED BY <2>4, <2>5, Zenon DEF CheckWrong, b, n, h, c
<1>6. ASSUME state = "EXPECT_END"
      PROVE  state' = "WAIT_START"
  <2>1. Built = Invalid
    BY <1>6, WrongRefused, Zenon
  <2> QED BY <1>1, <1>6, <2>1, Misread, Zenon
<1> QED BY <1>5, <1>6, Zenon DEF CheckWrong

\* A parser out of step with a frame delivers nothing, and is back at the start
\* when the frame is over.
LEMMA AdriftNext ==
  ASSUME NEW m \in Message, Legible(m), NEW p \in 1 .. Len(Body(m)) + 7, Adrift(m, p),
         NEW x \in Byte, x = Frame(m)[p + 1], x # StartChar, Consume(x), ParserInv,
         p # Len(Body(m)) + 7 => x # EndChar
  PROVE  /\ result' # "MESSAGE_READY"
         /\ state' = "WAIT_START" \/ (p <= Len(Body(m)) + 6 /\ Adrift(m, p + 1)')
<1> DEFINE n == Len(Body(m))
<1>1. x # Return /\ n \in 5 .. 255
  BY ByteOfFrame, BodyFits, Zenon
<1>2. result' # "MESSAGE_READY"
  <2> SUFFICES ASSUME result' = "MESSAGE_READY" PROVE FALSE
    OBVIOUS
  <2>1. state = "EXPECT_END" /\ x = EndChar /\ Built # Invalid
    BY OnlyEndDelivers, Zenon
  <2>2. p = n + 7
    BY <2>1
  <2>3. ~BodyWrong(m, p) /\ ~CheckWrong(m, p)
    BY <2>1, WrongRefused, Zenon
  <2>4. ~HeadOff(m, p) /\ ~BodyOff(m, p)
    BY <2>1 DEF HeadOff, BodyOff
  <2>5. ~TailOff(m, p)
    <3>1. p # 1
      BY <1>1, <2>2
    <3> QED BY <2>1, <3>1 DEF TailOff
  <2>6. ~TooShort(m, p)
    <3> DEFINE e == expected_body_length
    <3>1. e \in Nat
      BY MaxBodyIsNatural DEF ParserInv, ParserTypeOK
    <3> HIDE DEF e, n
    <3>2. e < n => p # e + 7
      BY <1>1, <2>2, <3>1
    <3> QED BY <2>1, <3>2 DEF TooShort, e, n
  <2> QED BY <2>1, <2>3, <2>4, <2>5, <2>6 DEF Adrift
<1>3. state' = "WAIT_START" \/ (p <= n + 6 /\ Adrift(m, p + 1)')
  <2>1. CASE state = "WAIT_START"
    BY <1>1, <2>1, Misread
  <2>2. CASE HeadOff(m, p)
    BY <2>2, HeadOffNext, Zenon DEF Adrift
  <2>3. CASE BodyOff(m, p)
    BY <2>3, BodyOffNext, Zenon DEF Adrift
  <2>4. CASE TailOff(m, p)
    BY <2>4, TailOffNext, Zenon DEF Adrift
  <2>5. CASE TooShort(m, p)
    BY <2>5, TooShortNext, Zenon DEF Adrift
  <2>6. CASE BodyWrong(m, p)
    BY <2>6, BodyWrongNext, Zenon DEF Adrift
  <2>7. CASE CheckWrong(m, p)
    BY <2>7, CheckWrongNext, Zenon DEF Adrift
  <2> QED BY <2>1, <2>2, <2>3, <2>4, <2>5, <2>6, <2>7 DEF Adrift
<1> QED BY <1>2, <1>3

\* A byte that is lost, or read as one that is passed over, sets the parser
\* adrift.
LEMMA LossAdrift ==
  ASSUME NEW m \in Message, Legible(m), NEW p \in 1 .. Len(Body(m)) + 6, InFrame(m, p),
         UNCHANGED <<state, fields>>, ParserInv
  PROVE  Adrift(m, p + 1)'
<1> DEFINE b == Body(m)  n == Len(b)
<1>1. n \in 5 .. 255 /\ p \in 1 .. n + 6
  BY BodyFits, Zenon
<1>2. /\ state' = state /\ expected_body_length' = expected_body_length /\ body' = body
  BY DEF fields
<1>3. CASE InHead(m, p)
  <2>1. (p + 1 = 2 /\ state' = "READ_LEN_HI") \/ (p + 1 = 3 /\ state' = "READ_LEN_LO")
    BY <1>2, <1>3 DEF InHead
  <2> QED BY <2>1, Zenon DEF Adrift, HeadOff
<1>4. CASE InBody(m, p)
  <2>1. CASE p = 3 /\ state = "EXPECT_LEN_SEPARATOR"
    <3>1. p + 1 = 4 /\ state' = "EXPECT_LEN_SEPARATOR"
      BY <1>2, <2>1
    <3> QED BY <3>1, Zenon DEF Adrift, HeadOff
  <2>2. CASE p \in 4 .. n + 3 /\ state = "READ_BODY" /\ Len(body) = p - 4
    <3>1. expected_body_length' = n
      BY <1>2, <1>4, Zenon DEF InBody
    <3> HIDE DEF n
    <3>2. p + 1 \in 5 .. n + 4 /\ Len(body') = (p + 1) - 5 /\ state' = "READ_BODY"
      BY <1>1, <1>2, <2>2
    <3> QED BY <3>1, <3>2, Zenon DEF Adrift, BodyOff, n
  <2> QED BY <1>4, <2>1, <2>2, Zenon DEF InBody
<1>5. CASE InTail(m, p)
  <2>1. \/ p = n + 4 /\ state = "EXPECT_CHECK_SEPARATOR"
        \/ p = n + 5 /\ state = "READ_CHECK_HI"
        \/ p = n + 6 /\ state = "READ_CHECK_LO"
        \/ p = n + 7
    BY <1>5, Zenon DEF InTail
  <2> HIDE DEF n
  <2>2. \/ p + 1 = n + 5 /\ state' = "EXPECT_CHECK_SEPARATOR"
        \/ p + 1 = n + 6 /\ state' = "READ_CHECK_HI"
        \/ p + 1 = n + 7 /\ state' = "READ_CHECK_LO"
    BY <1>1, <1>2, <2>1
  <2> QED BY <2>2, Zenon DEF Adrift, BodyOff, TailOff, n
<1> QED BY <1>3, <1>4, <1>5, Zenon DEF InFrame

\* A byte of a frame that comes in wrong sets the parser adrift, unless it makes
\* the length longer, or ends the copy of the body.
LEMMA WrongInHead ==
  ASSUME NEW m \in Message, Legible(m), NEW p \in 1 .. 3, InHead(m, p) \/ InBody(m, p),
         NEW x \in Byte, x # Frame(m)[p + 1], x # Return, Consume(x), ParserInv,
         LET h == LengthDigits(m)
             D == IF p = 1 THEN HexValue(<<x, h[2]>>) ELSE HexValue(<<h[1], x>>) IN
           p \in {1, 2} /\ x \in HexChar /\ LengthFits(D) => D <= Len(Body(m))
  PROVE  Adrift(m, p + 1)'
<1> DEFINE n == Len(Body(m))  h == LengthDigits(m)
<1>1. n \in 5 .. 255
  BY BodyFits, Zenon
<1>2. h = <<h[1], h[2]>> /\ h[1] \in HexChar /\ h[2] \in HexChar /\ HexValue(h) = n
  BY FrameDigits, Zenon
<1>3. p \in 1 .. n + 7
  <2> HIDE DEF n
  <2> QED BY <1>1
<1>4. /\ p = 1 => x # h[1]
      /\ p = 2 => x # h[2]
      /\ p = 3 => x # SeparatorChar
  BY <1>3, ByteOfFrame, Zenon
<1>5. \A a, b \in HexChar : HexValue(<<a, b>>) \in Nat
  BY NibbleRange DEF HexValue
<1>6. HexValue(<<h[1], h[2]>>) = n
  BY <1>2
<1>7. AfterFail(x) \in {"WAIT_START", "READ_LEN_HI"}
  BY DEF AfterFail
<1>8. state' = "WAIT_START" => Adrift(m, p + 1)'
  BY Zenon DEF Adrift
<1>9. state' = "READ_LEN_HI" => Adrift(m, p + 1)'
  <2>1. p + 1 \in {2, 3, 4}
    OBVIOUS
  <2> QED BY <2>1, Zenon DEF Adrift, HeadOff
<1>10. state' = AfterFail(x) => Adrift(m, p + 1)'
  BY <1>7, <1>8, <1>9
<1>11. Fail(x) => state' = AfterFail(x)
  BY DEF Fail
<1>12. CASE p = 1 /\ state = "READ_LEN_HI"
  <2>1. ASSUME x \notin HexChar
        PROVE  Adrift(m, p + 1)'
    BY <1>10, <1>12, <2>1, Refused
  <2>2. ASSUME x \in HexChar
        PROVE  Adrift(m, p + 1)'
    <3>1. state' = "READ_LEN_LO" /\ length_field' = <<x>> /\ p + 1 = 2
      BY <1>12, <2>2, ActionOfState DEF ReadLenHi, InProgress
    <3> DEFINE D == HexValue(<<x, h[2]>>)
    <3>2. LengthFits(D) => D <= n
      BY <1>12, <2>2, Zenon
    <3>3. D # n
      BY <1>2, <1>4, <1>6, <1>12, <2>2, HexTells
    <3>4. D \in Nat
      BY <1>2, <1>5, <2>2
    <3> HIDE DEF D, n
    <3>5. LengthFits(D) => D < n
      BY <1>1, <3>2, <3>3, <3>4
    <3> QED BY <2>2, <3>1, <3>5, Zenon DEF Adrift, TooShort, D, n
  <2> QED BY <2>1, <2>2
<1>13. CASE p = 2 /\ state = "READ_LEN_LO" /\ length_field = <<h[1]>>
  <2> DEFINE D == HexValue(<<h[1], x>>)
  <2>1. ASSUME ~(x \in HexChar /\ LengthFits(HexValue(Append(length_field, x))))
        PROVE  Adrift(m, p + 1)'
    BY <1>10, <1>11, <1>13, <2>1, ActionOfState, Zenon DEF ReadLenLo
  <2>2. ASSUME x \in HexChar, LengthFits(HexValue(Append(length_field, x)))
        PROVE  Adrift(m, p + 1)'
    <3>1. Append(length_field, x) = <<h[1], x>>
      BY <1>2, <1>13, <2>2, PairAppended, Zenon
    <3>2. /\ state' = "EXPECT_LEN_SEPARATOR"
          /\ expected_body_length' = D
      BY <1>13, <2>2, <3>1, ActionOfState, Zenon DEF ReadLenLo, InProgress
    <3>3. p + 1 = 3 /\ p + 1 >= 3 /\ p # 1
      BY <1>13
    <3>4. D <= n
      BY <1>13, <2>2, <3>1, <3>3, Zenon
    <3>5. D # n
      BY <1>2, <1>4, <1>6, <1>13, <2>2, HexTells
    <3>6. D \in Nat
      BY <1>2, <1>5, <2>2
    <3> HIDE DEF D, n
    <3>7. expected_body_length' < n
      BY <1>1, <3>2, <3>4, <3>5, <3>6
    <3> QED BY <3>2, <3>3, <3>7, Zenon DEF Adrift, TooShort, n
  <2> QED BY <2>1, <2>2
<1>14. CASE p = 3 /\ state = "EXPECT_LEN_SEPARATOR"
  BY <1>4, <1>10, <1>14, Refused
<1>15. \/ p = 1 /\ state = "READ_LEN_HI"
       \/ p = 2 /\ state = "READ_LEN_LO" /\ length_field = <<h[1]>>
       \/ p = 3 /\ state = "EXPECT_LEN_SEPARATOR"
  <2>1. p \notin 4 .. n + 3 /\ ~(p = 1 /\ p >= 3)
    OBVIOUS
  <2> QED BY <2>1, Zenon DEF InHead, InBody
<1> QED BY <1>12, <1>13, <1>14, <1>15

\* A wrong byte where a byte of the body is awaited.
LEMMA WrongInBody ==
  ASSUME NEW m \in Message, Legible(m), NEW p \in 4 .. Len(Body(m)) + 3, InBody(m, p),
         NEW x \in Byte, x # Frame(m)[p + 1], x # Return, x # Nul, Consume(x), ParserInv
  PROVE  Adrift(m, p + 1)'
<1> DEFINE b == Body(m)  n == Len(b)  h == LengthDigits(m)
<1>1. n \in 5 .. 255 /\ b \in Seq(Byte) /\ Len(b) = n
  BY BodyFits, Zenon
<1>2. p \in 1 .. n + 7 /\ p \in 4 .. n + 3
  <2> HIDE DEF n, b
  <2>1. p \in 4 .. n + 3
    BY DEF n, b
  <2> QED BY <1>1, <2>1
<1>3. x # b[p - 3]
  BY <1>2, ByteOfFrame, Zenon
<1>4. body \in Seq(Byte) /\ length_field = h /\ expected_body_length = n
  BY Zenon DEF ParserInv, ParserTypeOK, InBody
<1>5. /\ state = "READ_BODY" /\ Len(body) = p - 4
      /\ \A i \in 1 .. Len(body) : body[i] = b[i]
  <2>1. p # 3
    OBVIOUS
  <2> QED BY <2>1, Zenon DEF InBody
<1>6. /\ body' = Append(body, x) /\ length_field' = h /\ expected_body_length' = n
      /\ state' = IF Len(body) + 1 >= n THEN "EXPECT_CHECK_SEPARATOR" ELSE "READ_BODY"
  BY <1>4, <1>5, ActionOfState, Zenon DEF ReadBody, InProgress
<1> HIDE DEF b, n, h
<1>7. /\ Len(body') = p - 3 /\ body'[p - 3] = x
      /\ \A i \in 1 .. Len(body) : body'[i] = body[i]
  <2>1. /\ Len(Append(body, x)) = Len(body) + 1
        /\ \A i \in 1 .. Len(body) : Append(body, x)[i] = body[i]
        /\ Append(body, x)[Len(body) + 1] = x
    BY <1>4, AppendProperties
  <2>2. Len(body) + 1 = p - 3
    BY <1>1, <1>2, <1>5
  <2> QED BY <1>6, <2>1, <2>2, Zenon
<1>8. OneWrong(body', b)
  <2>1. p - 3 \in 1 .. Len(body')
    BY <1>1, <1>2, <1>7
  <2>2. ASSUME NEW i \in 1 .. Len(body'), i # p - 3
        PROVE  body'[i] = b[i]
    <3>1. i \in 1 .. Len(body)
      BY <1>1, <1>2, <1>5, <1>7, <2>2
    <3> QED BY <1>5, <1>7, <3>1, Zenon
  <2> QED BY <1>3, <1>7, <2>1, <2>2, Zenon DEF OneWrong
<1>9. OneWrong(body, b)'
  BY <1>8, Zenon DEF OneWrong, b
<1>10. CASE p = n + 3
  <2>1. state' = "EXPECT_CHECK_SEPARATOR" /\ Len(body') = n /\ p + 1 = n + 4
    BY <1>1, <1>5, <1>6, <1>7, <1>10
  <2> QED BY <1>6, <1>9, <2>1, Zenon DEF Adrift, BodyWrong, b, n, h
<1>11. CASE p # n + 3
  <2>1. state' = "READ_BODY" /\ p + 1 \in 5 .. n + 3 /\ Len(body') = (p + 1) - 4
    BY <1>1, <1>2, <1>5, <1>6, <1>7, <1>11
  <2> QED BY <1>6, <1>9, <2>1, Zenon DEF Adrift, BodyWrong, b, n, h
<1> QED BY <1>10, <1>11

\* A wrong byte where the separator, a digit of the checksum or the end is awaited.
LEMMA WrongInTail ==
  ASSUME NEW m \in Message, Legible(m), NEW p \in 1 .. Len(Body(m)) + 7, InTail(m, p),
         NEW x \in Byte, x # Frame(m)[p + 1], x # Return, Consume(x), ParserInv
  PROVE  /\ p <= Len(Body(m)) + 6 => Adrift(m, p + 1)'
         /\ p = Len(Body(m)) + 7 => state' \in {"WAIT_START", "READ_LEN_HI"}
<1> DEFINE b == Body(m)  n == Len(b)  h == LengthDigits(m)  c == CheckDigits(m)
<1>1. n \in 5 .. 255 /\ b \in Seq(Byte)
  BY BodyFits, Zenon
<1>2. /\ p = n + 4 => x # SeparatorChar
      /\ p = n + 5 => x # c[1]
      /\ p = n + 6 => x # c[2]
      /\ p = n + 7 => x # EndChar
  BY ByteOfFrame, Zenon
<1>3. length_field = h /\ expected_body_length = n /\ body = b
  BY Zenon DEF InTail
<1>4. c = <<c[1], c[2]>> /\ c[1] \in HexChar /\ c[2] \in HexChar
  BY FrameDigits, Zenon
<1>5. AfterFail(x) \in {"WAIT_START", "READ_LEN_HI"}
  BY DEF AfterFail
<1>6. ASSUME state' = AfterFail(x), p \in {n + 4, n + 5, n + 6}
      PROVE  p <= n + 6 /\ Adrift(m, p + 1)'
  <2> HIDE DEF n
  <2>1. p <= n + 6 /\ p + 1 \in {n + 5, n + 6, n + 7}
    BY <1>1, <1>6
  <2>2. state' = "READ_LEN_HI" \/ state' = "WAIT_START"
    BY <1>5, <1>6
  <2> QED BY <2>1, <2>2, Zenon DEF Adrift, HeadOff, n
<1>7. ASSUME state = "EXPECT_CHECK_SEPARATOR", p = n + 4
      PROVE  p <= n + 6 /\ Adrift(m, p + 1)'
  BY <1>2, <1>6, <1>7, Refused
<1>8. ASSUME state = "READ_CHECK_HI", p = n + 5
      PROVE  p <= n + 6 /\ Adrift(m, p + 1)'
  <2>1. ASSUME x \notin HexChar
        PROVE  p <= n + 6 /\ Adrift(m, p + 1)'
    BY <1>6, <1>8, <2>1, Refused
  <2>2. ASSUME x \in HexChar
        PROVE  p <= n + 6 /\ Adrift(m, p + 1)'
    <3>1. /\ state' = "READ_CHECK_LO" /\ checksum_field' = <<x>>
          /\ length_field' = h /\ expected_body_length' = n /\ body' = b
      BY <1>3, <1>8, <2>2, ActionOfState, Zenon DEF ReadCheckHi, InProgress
    <3> HIDE DEF b, n, h, c
    <3>2. p <= n + 6 /\ p + 1 = n + 6 /\ x # c[1]
      BY <1>1, <1>2, <1>8
    <3> QED BY <2>2, <3>1, <3>2, Zenon DEF Adrift, CheckWrong, b, n, h, c
  <2> QED BY <2>1, <2>2
<1>9. ASSUME state = "READ_CHECK_LO", p = n + 6, checksum_field = <<c[1]>>
      PROVE  p <= n + 6 /\ Adrift(m, p + 1)'
  <2>1. ASSUME x \notin HexChar
        PROVE  p <= n + 6 /\ Adrift(m, p + 1)'
    BY <1>6, <1>9, <2>1, Refused
  <2>2. ASSUME x \in HexChar
        PROVE  p <= n + 6 /\ Adrift(m, p + 1)'
    <3>1. Append(checksum_field, x) = <<c[1], x>>
      BY <1>4, <1>9, <2>2, PairAppended, Zenon
    <3>2. /\ state' = "EXPECT_END" /\ checksum_field' = <<c[1], x>>
          /\ length_field' = h /\ expected_body_length' = n /\ body' = b
      BY <1>3, <1>9, <2>2, <3>1, ActionOfState, Zenon DEF ReadCheckLo, InProgress
    <3> HIDE DEF b, n, h, c
    <3>3. <<c[1], x>> # c
      <4>1. <<c[1], x>>[2] = x
        OBVIOUS
      <4> QED BY <1>2, <1>9, <4>1
    <3>4. p <= n + 6 /\ p + 1 = n + 7
      BY <1>1, <1>9
    <3> QED BY <3>2, <3>3, <3>4, Zenon DEF Adrift, CheckWrong, b, n, h, c
  <2> QED BY <2>1, <2>2
<1>10. ASSUME state = "EXPECT_END", p = n + 7
       PROVE  ~(p <= n + 6) /\ state' \in {"WAIT_START", "READ_LEN_HI"}
  <2>1. state' = AfterFail(x)
    BY <1>2, <1>10, Refused
  <2>2. ~(p <= n + 6)
    <3> HIDE DEF n
    <3> QED BY <1>1, <1>10
  <2> QED BY <1>5, <2>1, <2>2
<1>11. p <= n + 6 => p # n + 7
  <2>1. p \in 1 .. n + 7
    OBVIOUS
  <2> HIDE DEF n
  <2> QED BY <1>1, <2>1
<1>12. \/ p = n + 4 /\ state = "EXPECT_CHECK_SEPARATOR"
       \/ p = n + 5 /\ state = "READ_CHECK_HI"
       \/ p = n + 6 /\ state = "READ_CHECK_LO" /\ checksum_field = <<c[1]>>
       \/ p = n + 7 /\ state = "EXPECT_END"
  BY Zenon DEF InTail
<1> HIDE DEF n, c
<1>13. CASE p = n + 4 /\ state = "EXPECT_CHECK_SEPARATOR"
  BY <1>7, <1>11, <1>13 DEF n
<1>14. CASE p = n + 5 /\ state = "READ_CHECK_HI"
  BY <1>8, <1>11, <1>14 DEF n
<1>15. CASE p = n + 6 /\ state = "READ_CHECK_LO" /\ checksum_field = <<c[1]>>
  BY <1>9, <1>11, <1>15 DEF n
<1>16. CASE p = n + 7 /\ state = "EXPECT_END"
  BY <1>10, <1>16 DEF n
<1> QED BY <1>12, <1>13, <1>14, <1>15, <1>16

\* A byte that comes in as another one sets the parser adrift, or back to the start.
LEMMA WrongAdrift ==
  ASSUME NEW m \in Message, Legible(m), NEW p \in 1 .. Len(Body(m)) + 7, InFrame(m, p),
         NEW x \in Byte, x # Frame(m)[p + 1], x # Return, Consume(x), ParserInv,
         LET h == LengthDigits(m)
             D == IF p = 1 THEN HexValue(<<x, h[2]>>) ELSE HexValue(<<h[1], x>>) IN
           p \in {1, 2} /\ x \in HexChar /\ LengthFits(D) => D <= Len(Body(m)),
         p \in 4 .. Len(Body(m)) + 3 => x # Nul
  PROVE  /\ result' # "MESSAGE_READY"
         /\ p <= Len(Body(m)) + 6 => Adrift(m, p + 1)'
         /\ p = Len(Body(m)) + 7 => state' \in {"WAIT_START", "READ_LEN_HI"}
<1> DEFINE n == Len(Body(m))
<1>1. n \in 5 .. 255
  BY BodyFits, Zenon
<1>2. p = n + 7 => x # EndChar
  BY ByteOfFrame, Zenon
<1>3. result' # "MESSAGE_READY"
  <2> SUFFICES ASSUME result' = "MESSAGE_READY" PROVE FALSE
    OBVIOUS
  <2>1. state = "EXPECT_END" /\ x = EndChar
    BY OnlyEndDelivers, Zenon
  <2>2. p = n + 7
    <3>1. InTail(m, p) => body = Body(m)
      BY Zenon DEF InTail
    <3> QED BY <2>1, <3>1 DEF InFrame, InHead, InBody, InTail
  <2> QED BY <1>2, <2>1, <2>2
<1>4. CASE p \in 1 .. 3
  <2>1. InHead(m, p) \/ InBody(m, p)
    <3>1. p # n + 4 /\ p # n + 5 /\ p # n + 6 /\ p # n + 7
      <4> HIDE DEF n
      <4> QED BY <1>1, <1>4
    <3> QED BY <3>1 DEF InFrame, InTail
  <2>2. Adrift(m, p + 1)'
    BY <1>4, <2>1, WrongInHead, Zenon
  <2>3. p # n + 7
    <3> HIDE DEF n
    <3> QED BY <1>1, <1>4
  <2> QED BY <1>3, <2>2, <2>3
<1>5. CASE p \in 4 .. n + 3
  <2>1. p # 1 /\ p # 2 /\ p # n + 4 /\ p # n + 5 /\ p # n + 6 /\ p # n + 7
    <3> HIDE DEF n
    <3> QED BY <1>1, <1>5
  <2>2. InBody(m, p)
    BY <2>1 DEF InFrame, InHead, InTail
  <2>3. Adrift(m, p + 1)'
    BY <1>5, <2>2, WrongInBody, Zenon
  <2> QED BY <1>3, <2>1, <2>3
<1>6. CASE p > n + 3
  <2>1. p # 1 /\ p # 2 /\ p # 3 /\ p \notin 4 .. n + 3
    <3> HIDE DEF n
    <3> QED BY <1>1, <1>6
  <2>2. InTail(m, p)
    BY <2>1, Zenon DEF InFrame, InHead, InBody
  <2> QED BY <1>3, <2>2, WrongInTail, Zenon
<1> QED BY <1>1, <1>4, <1>5, <1>6

\* The parser waits for a frame, for the length of one, or for the end of the
\* last one.
Between == {"WAIT_START", "READ_LEN_HI", "EXPECT_END"}

\* Whatever comes for the start of a frame, the parser is within the frame then
\* or adrift.
LEMMA StartWrong ==
  ASSUME NEW m \in Message, Legible(m), NEW x, x # StartChar, Consume(x), state \in Between
  PROVE  InFrame(m, 1)' \/ Adrift(m, 1)'
<1>1. state' = "WAIT_START" => Adrift(m, 1)'
  BY Zenon DEF Adrift
<1>2. state' = "READ_LEN_HI" => InFrame(m, 1)'
  BY Zenon DEF InFrame, InHead
<1>3. state' = "EXPECT_END" => Adrift(m, 1)'
  BY Zenon DEF Adrift, TailOff
<1>4. state' = "READ_LEN_LO" => Adrift(m, 1)'
  <2>1. 1 \in {1, 3, 5}
    OBVIOUS
  <2> QED BY <2>1 DEF Adrift, HeadOff
<1>5. CASE x = Return
  <2>1. state' = state
    <3>1. PassOver(x)
      BY <1>5, Zenon DEF Consume
    <3> QED BY <3>1 DEF PassOver, InProgress
  <2> QED BY <1>1, <1>2, <1>3, <2>1 DEF Between
<1>6. CASE x # Return
  <2>1. CASE state = "WAIT_START"
    BY <1>1, <1>6, <2>1, Misread
  <2>2. CASE state = "READ_LEN_HI"
    <3>1. x \in HexChar => state' = "READ_LEN_LO"
      BY <1>6, <2>2, ActionOfState, Zenon DEF ReadLenHi, InProgress
    <3>2. x \notin HexChar => state' = "WAIT_START"
      BY <1>6, <2>2, Misread
    <3> QED BY <1>1, <1>4, <3>1, <3>2
  <2>3. CASE state = "EXPECT_END"
    <3>1. state' = "WAIT_START"
      <4>1. CASE x = EndChar /\ Built # Invalid
        BY <1>6, <2>3, <4>1, ActionOfState DEF ExpectEnd
      <4>2. CASE ~(x = EndChar /\ Built # Invalid)
        BY <1>6, <2>3, <4>2, Misread
      <4> QED BY <4>1, <4>2
    <3> QED BY <1>1, <3>1
  <2> QED BY <2>1, <2>2, <2>3 DEF Between
<1> QED BY <1>5, <1>6

\* A frame that has lost its start finds the parser ready, or at the end it awaits.
LEMMA StartLost ==
  ASSUME NEW m \in Message, Legible(m), state' = state, state \in Between
  PROVE  InFrame(m, 1)' \/ Adrift(m, 1)'
<1>1. CASE state = "WAIT_START"
  BY <1>1, Zenon DEF Adrift
<1>2. CASE state = "READ_LEN_HI"
  BY <1>2, Zenon DEF InFrame, InHead
<1>3. CASE state = "EXPECT_END"
  BY <1>3, Zenon DEF Adrift, TailOff
<1> QED BY <1>1, <1>2, <1>3 DEF Between

\* All of a frame but its end is read in the state that waits for the end.
LEMMA EndAwaited ==
  ASSUME NEW m \in Message, Legible(m), InFrame(m, Len(Body(m)) + 7)
  PROVE  state = "EXPECT_END"
<1> DEFINE n == Len(Body(m))
<1>1. n \in 5 .. 255
  BY BodyFits, Zenon
<1>2. /\ n + 7 # 1 /\ n + 7 # 2 /\ n + 7 # 3 /\ n + 7 \notin 4 .. n + 3
      /\ n + 7 # n + 4 /\ n + 7 # n + 5 /\ n + 7 # n + 6
  <2> HIDE DEF n
  <2> QED BY <1>1
<1> QED BY <1>2, Zenon DEF InFrame, InHead, InBody, InTail
=============================================================================
