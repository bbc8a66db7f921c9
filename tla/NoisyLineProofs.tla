--------------------------- MODULE NoisyLineProofs ---------------------------
(***************************************************************************)
(* For messages of any length and any number of faults: what the parser    *)
(* makes of the frames on the line, and how it finds back to them.         *)
(***************************************************************************)
EXTENDS NoisyLine, FrameParserProofs

-----------------------------------------------------------------------------
(* The line *)

AllLegible == \A m \in Messages : Legible(m)

Sending == Last(sent)
Size == Len(Frame(Sending))
Gone == Size - Len(line)     \* the bytes of the frame that are over

\* What is to come of a frame is what is behind the bytes that are over; the
\* frame was not hit before it began.
RestOfFrame ==
  line # <<>> => /\ sent # <<>> /\ Len(line) <= Size
                 /\ \A i \in 1 .. Len(line) : line[i] = Frame(Sending)[Gone + i]
                 /\ Len(line) = Size => ~hit
LineTypes == sent \in Seq(Messages) /\ line \in Seq(Byte) /\ calm \in Nat
LineOK == LineTypes /\ RestOfFrame

\* The frame that is being sent is one of a legible message.
LEMMA SendingOne ==
  ASSUME AllLegible, LineOK, line # <<>>
  PROVE  /\ Sending \in Messages /\ Sending \in Message /\ Legible(Sending)
         /\ Frame(Sending) \in Seq(Byte)
         /\ Size = Len(Body(Sending)) + 8 /\ Len(Body(Sending)) \in 5 .. 255
         /\ Len(Body(Sending)) <= MaxBodySize
         /\ Len(line) \in 1 .. Size /\ Gone \in 0 .. Len(Body(Sending)) + 7
         /\ Head(line) = Frame(Sending)[Gone + 1]
         /\ Head(line) \in Byte /\ Head(line) # Return
         /\ Tail(line) = <<>> <=> Gone = Len(Body(Sending)) + 7
<1>1. sent \in Seq(Messages) /\ sent # <<>> /\ line \in Seq(Byte)
  BY DEF LineOK, LineTypes, RestOfFrame
<1>2. Sending \in Messages
  <2>1. Len(sent) \in 1 .. Len(sent)
    BY <1>1
  <2> QED BY <1>1, <2>1 DEF Sending, Last
<1>3. Sending \in Message /\ Legible(Sending)
  BY <1>2, LineAssumption DEF AllLegible, Message
<1> DEFINE f == Frame(Sending)  n == Len(Body(Sending))
<1>4. f \in Seq(Byte) /\ Len(f) = n + 8
  BY <1>3, FrameShape, Zenon
<1>5. n \in 5 .. 255 /\ n <= MaxBodySize
  BY <1>3, BodyFits, Zenon
<1>6. Len(line) <= Len(f) /\ \A i \in 1 .. Len(line) : line[i] = f[Len(f) - Len(line) + i]
  BY Zenon DEF LineOK, RestOfFrame, Size, Gone
<1> HIDE DEF f, n
<1>7. Len(line) \in 1 .. n + 8 /\ Head(line) = line[1]
  BY <1>1, <1>4, <1>5, <1>6
<1> DEFINE g == Len(f) - Len(line)
<1>8. g \in 0 .. n + 7
  BY <1>4, <1>5, <1>7
<1>9. Head(line) = f[g + 1] /\ g + 1 \in 1 .. Len(f)
  <2>1. 1 \in 1 .. Len(line) /\ g + 1 \in 1 .. Len(f)
    BY <1>4, <1>5, <1>7
  <2>2. line[1] = f[g + 1]
    BY <1>6, <2>1, Zenon
  <2> QED BY <1>7, <2>1, <2>2, Zenon
<1>10. f[g + 1] # Return /\ f[g + 1] \in Byte
  BY <1>3, <1>9, NoReturnInFrame, Zenon DEF f
<1>11. Tail(line) = <<>> <=> g = n + 7
  <2>1. Tail(line) \in Seq(Byte) /\ Len(Tail(line)) = Len(line) - 1
    BY <1>1
  <2>2. Tail(line) = <<>> <=> Len(Tail(line)) = 0
    BY <2>1
  <2> QED BY <1>4, <1>5, <1>7, <2>1, <2>2
<1> HIDE DEF g
<1> QED BY <1>2, <1>3, <1>4, <1>5, <1>7, <1>8, <1>9, <1>10, <1>11
    DEF f, n, g, Size, Gone

\* A byte less of the line.
LEMMA ByteGone ==
  ASSUME AllLegible, LineOK, line # <<>>, line' = Tail(line), sent' = sent
  PROVE  /\ RestOfFrame' /\ line' \in Seq(Byte)
         /\ Sending' = Sending /\ Size' = Size /\ Gone' = Gone + 1
<1> DEFINE f == Frame(Sending)
<1>1. line \in Seq(Byte) /\ sent # <<>> /\ Len(line) <= Len(f)
      /\ \A i \in 1 .. Len(line) : line[i] = f[Len(f) - Len(line) + i]
  BY Zenon DEF LineOK, LineTypes, RestOfFrame, Size, Gone
<1>2. Sending' = Sending
  BY DEF Sending, Last
<1>3. f' = f /\ Len(f) \in Nat
  <2>1. Frame(Sending) \in Seq(Byte)
    BY SendingOne
  <2> QED BY <1>2, <2>1
<1> HIDE DEF f
<1>4. /\ line' \in Seq(Byte) /\ Len(line') = Len(line) - 1
      /\ \A i \in 1 .. Len(line') : line'[i] = line[i + 1]
      /\ Len(line) \in Nat /\ Len(line) # 0
  BY <1>1
<1>5. ASSUME NEW i \in 1 .. Len(line')
      PROVE  line'[i] = f[Len(f) - Len(line') + i]
  <2>1. i + 1 \in 1 .. Len(line)
        /\ Len(f) - Len(line) + (i + 1) = Len(f) - Len(line') + i
    BY <1>3, <1>4
  <2>2. line[i + 1] = f[Len(f) - Len(line) + (i + 1)]
    BY <1>1, <2>1, Zenon
  <2> QED BY <1>4, <2>1, <2>2
<1>6. Len(line') <= Len(f) /\ Len(line') # Len(f)
  <2> DEFINE l == Len(line)  k == Len(line')  z == Len(f)
  <2>1. l \in Nat /\ z \in Nat /\ k = l - 1 /\ l <= z /\ l # 0
    BY <1>1, <1>3, <1>4, Zenon
  <2> HIDE DEF l, k, z
  <2>2. k <= z /\ k # z
    BY <2>1
  <2> QED BY <2>2 DEF k, z
<1>7. RestOfFrame'
  BY <1>1, <1>2, <1>3, <1>5, <1>6, Zenon DEF RestOfFrame, Size, Gone, f
<1> QED BY <1>2, <1>3, <1>4, <1>7 DEF Size, Gone, f

\* The line and the parser at its end are what they should be.
LineInv == LineOK /\ ParserInv

LEMMA LineInvStep ==
  ASSUME AllLegible, LineInv, [LineNext]_lvars
  PROVE  LineInv'
<1>0. LineOK /\ ParserInv /\ sent \in Seq(Messages) /\ line \in Seq(Byte) /\ calm \in Nat
  BY DEF LineInv, LineOK, LineTypes
<1>1. ASSUME NEW m \in Messages, SendFrame(m)
      PROVE  LineInv'
  <2>1. /\ line' = Frame(m) /\ sent' = Append(sent, m) /\ hit' = FALSE
        /\ calm' = calm /\ UNCHANGED pvars
    BY <1>1 DEF SendFrame
  <2>2. sent' \in Seq(Messages) /\ Sending' = m /\ sent' # <<>>
    <3>1. Append(sent, m) \in Seq(Messages) /\ Len(Append(sent, m)) = Len(sent) + 1
          /\ Append(sent, m)[Len(sent) + 1] = m
      BY <1>0, AppendProperties
    <3> QED BY <1>0, <2>1, <3>1 DEF Sending, Last
  <2>3. m \in Message /\ Legible(m)
    BY LineAssumption DEF AllLegible, Message
  <2>4. Frame(m) \in Seq(Byte) /\ Len(Frame(m)) \in Nat
    <3>1. Frame(m) \in Seq(Byte)
      BY <2>3, FrameShape, Zenon
    <3> QED BY <3>1
  <2>5. Size' = Len(line') /\ Gone' = 0 /\ Frame(Sending)' = line'
    BY <2>1, <2>2, <2>4 DEF Size, Gone
  <2>6. RestOfFrame'
    <3>1. Len(line') <= Size' /\ \A i \in 1 .. Len(line') : line'[i] = line'[Gone' + i]
      BY <2>1, <2>4, <2>5
    <3> QED BY <2>1, <2>2, <2>5, <3>1, Zenon DEF RestOfFrame
  <2>7. LineTypes'
    BY <1>0, <2>1, <2>2, <2>4 DEF LineTypes
  <2>8. ParserInv'
    BY <1>0, <2>1 DEF pvars, fields, ParserInv, ParserTypeOK, FieldsInStep
  <2> QED BY <2>6, <2>7, <2>8 DEF LineInv, LineOK
<1>2. ASSUME NEW x \in Byte, line # <<>>, Parse(x), sent' = sent, calm' \in Nat
      PROVE  LineInv'
  <2>1. line' = Tail(line) /\ Consume(x)
    BY <1>2 DEF Parse
  <2>2. ParserInv'
    BY <1>0, <2>1, ConsumeKeepsInv
  <2>3. RestOfFrame' /\ line' \in Seq(Byte)
    BY <1>0, <1>2, <2>1, ByteGone
  <2> QED BY <1>0, <1>2, <2>2, <2>3 DEF LineInv, LineOK, LineTypes
<1>3. CASE Arrive
  <2>1. line # <<>> /\ Parse(Head(line)) /\ sent' = sent /\ calm' \in Nat
    BY <1>0, <1>3 DEF Arrive
  <2>2. Head(line) \in Byte
    BY <1>0, <2>1, SendingOne
  <2> QED BY <1>2, <2>1, <2>2
<1>4. ASSUME NEW x \in NoiseBytes, Garble(x)
      PROVE  LineInv'
  <2>1. line # <<>> /\ Parse(x) /\ sent' = sent /\ calm' = 0 /\ x \in Byte
    BY <1>4, LineAssumption DEF Garble
  <2> QED BY <1>2, <2>1
<1>5. CASE Lose
  <2>1. line # <<>> /\ line' = Tail(line) /\ sent' = sent /\ calm' = 0 /\ UNCHANGED pvars
    BY <1>5 DEF Lose
  <2>2. RestOfFrame' /\ line' \in Seq(Byte)
    BY <1>0, <2>1, ByteGone
  <2>3. ParserInv'
    BY <1>0, <2>1 DEF pvars, fields, ParserInv, ParserTypeOK, FieldsInStep
  <2> QED BY <1>0, <2>1, <2>2, <2>3 DEF LineInv, LineOK, LineTypes
<1>6. CASE UNCHANGED lvars
  <2>1. /\ line' = line /\ sent' = sent /\ hit' = hit /\ calm' = calm /\ UNCHANGED pvars
    BY <1>6 DEF lvars
  <2>2. LineOK'
    BY <1>0, <2>1 DEF LineOK, LineTypes, RestOfFrame, Size, Gone, Sending
  <2>3. ParserInv'
    BY <1>0, <2>1 DEF pvars, fields, ParserInv, ParserTypeOK, FieldsInStep
  <2> QED BY <2>2, <2>3 DEF LineInv
<1> QED BY <1>1, <1>3, <1>4, <1>5, <1>6 DEF LineNext, Quiescent

LEMMA LineInvInit == LineInit => LineInv
<1> SUFFICES ASSUME LineInit PROVE LineInv
  OBVIOUS
<1>1. PInit /\ line = <<>> /\ sent = <<>> /\ calm = CalmLimit
  BY DEF LineInit
<1>2. ParserInv
  BY <1>1, MaxBodyIsNatural DEF PInit, ParserInv, ParserTypeOK, FieldsInStep, BeforeBody, State
<1>3. CalmLimit \in Nat
  BY MaxBodyIsNatural, CodecAssumption DEF CalmLimit, Blackout
<1> QED BY <1>1, <1>2, <1>3 DEF LineInv, LineOK, LineTypes, RestOfFrame

-----------------------------------------------------------------------------
(* The parser and the frame on the line *)

\* The parser has read what is over of the frame being sent.
OnFrame == InFrame(Sending, Gone)

LEMMA OnFrameLater ==
  ASSUME NEW m, NEW p, InFrame(m, p)', Sending' = m, Gone' = p
  PROVE  OnFrame'
BY DEF OnFrame, InFrame, InHead, InBody, InTail

\* A parser that has read the bytes of a frame reads the next one, and one that
\* is not in a body finds the start.
LEMMA StaysOnFrame ==
  ASSUME AllLegible, LineInv, Arrive, line' # <<>>,
         (Gone >= 1 /\ OnFrame) \/ (Gone = 0 /\ state # "READ_BODY")
  PROVE  OnFrame'
<1>0. LineOK /\ ParserInv /\ line # <<>> /\ sent' = sent
      /\ line' = Tail(line) /\ Consume(Head(line))
  BY DEF LineInv, Arrive, Parse
<1>1. PICK m : m = Sending
  OBVIOUS
<1>2. PICK p : p = Gone
  OBVIOUS
<1>3. /\ m \in Message /\ Legible(m) /\ p \in 0 .. Len(Body(m)) + 7
      /\ Len(Body(m)) \in 5 .. 255
      /\ Head(line) = Frame(m)[p + 1]
      /\ Tail(line) = <<>> <=> p = Len(Body(m)) + 7
  BY <1>0, <1>1, <1>2, SendingOne, Zenon
<1>4. Sending' = m /\ Gone' = p + 1
  BY <1>0, <1>1, <1>2, ByteGone, Zenon
<1>5. p # Len(Body(m)) + 7
  BY <1>0, <1>3
<1>6. CASE p >= 1 /\ InFrame(m, p)
  <2>1. p \in 1 .. Len(Body(m)) + 6
    BY <1>3, <1>5, <1>6
  <2>2. InFrame(m, p + 1)'
    BY <1>0, <1>3, <1>6, <2>1, NextOfFrame, Zenon
  <2> QED BY <1>4, <2>2, OnFrameLater, Zenon
<1>7. CASE p = 0 /\ state # "READ_BODY"
  <2>1. 0 + 1 = 1
    OBVIOUS
  <2>2. Frame(m)[1] = StartChar
    BY <1>3, FrameShape, Zenon
  <2>3. state \in State
    BY <1>0 DEF ParserInv, ParserTypeOK
  <2>4. InFrame(m, 1)'
    BY <1>0, <1>3, <1>7, <2>1, <2>2, <2>3, StartFound, Zenon
  <2> QED BY <1>4, <1>7, <2>1, <2>4, OnFrameLater, Zenon
<1> QED BY <1>1, <1>2, <1>6, <1>7, Zenon DEF OnFrame

\* The last byte of a frame that was read delivers its message.
LEMMA DeliveredAtEnd ==
  ASSUME AllLegible, LineInv, [LineNext]_lvars, FrameEnds, ~hit', OnFrame
  PROVE  got' = Append(got, Last(sent))
<1>0. LineOK /\ ParserInv /\ line # <<>> /\ line' = <<>>
  BY DEF LineInv, FrameEnds
<1>1. Arrive
  <2>1. ASSUME NEW m \in Messages, SendFrame(m)
        PROVE  FALSE
    BY <1>0, <2>1 DEF SendFrame
  <2>2. ASSUME NEW x \in NoiseBytes, Garble(x)
        PROVE  FALSE
    BY <2>2 DEF Garble
  <2>3. ~Lose
    BY DEF Lose
  <2>4. ~UNCHANGED lvars
    BY <1>0 DEF lvars
  <2>5. ~Quiescent
    BY <2>4 DEF Quiescent
  <2> QED BY <2>1, <2>2, <2>3, <2>4, <2>5 DEF LineNext
<1>2. line' = Tail(line) /\ Consume(Head(line))
      /\ got' = IF result' = "MESSAGE_READY" THEN Append(got, message') ELSE got
  BY <1>1, Zenon DEF Arrive, Parse
<1>3. PICK m : m = Sending
  OBVIOUS
<1>4. /\ m \in Message /\ Legible(m) /\ Gone = Len(Body(m)) + 7
      /\ Head(line) = Frame(m)[Gone + 1] /\ Len(Body(m)) \in 5 .. 255
  BY <1>0, <1>2, <1>3, SendingOne, Zenon
<1>5. Head(line) = EndChar
  <2>1. Frame(m)[Len(Body(m)) + 8] = EndChar
    BY <1>4, FrameShape, Zenon
  <2>2. Gone + 1 = Len(Body(m)) + 8
    BY <1>4
  <2> QED BY <1>4, <2>1, <2>2, Zenon
<1>6. InFrame(m, Len(Body(m)) + 7)
  BY <1>3, <1>4, Zenon DEF OnFrame
<1>7. result' = "MESSAGE_READY" /\ message' = m
  BY <1>0, <1>2, <1>4, <1>5, <1>6, EndOfFrame, Zenon
<1> QED BY <1>2, <1>3, <1>7 DEF Sending

\* A frame that begins has nothing over.
LEMMA NothingGone ==
  ASSUME AllLegible, LineInv, NEW m \in Messages, SendFrame(m)
  PROVE  Gone' = 0
<1>1. line' = Frame(m) /\ sent' = Append(sent, m) /\ sent \in Seq(Messages)
  BY DEF SendFrame, LineInv, LineOK, LineTypes
<1>2. Sending' = m
  <2>1. Len(Append(sent, m)) = Len(sent) + 1 /\ Append(sent, m)[Len(sent) + 1] = m
    BY <1>1, AppendProperties
  <2> QED BY <1>1, <2>1 DEF Sending, Last
<1>3. Len(Frame(m)) \in Nat
  <2>1. m \in Message /\ Legible(m)
    BY LineAssumption DEF AllLegible, Message
  <2>2. Frame(m) \in Seq(Byte)
    BY <2>1, FrameShape, Zenon
  <2> QED BY <2>2
<1> QED BY <1>1, <1>2, <1>3 DEF Gone, Size

LEMMA OnFrameUnchanged ==
  ASSUME UNCHANGED lvars
  PROVE  /\ Gone' = Gone /\ OnFrame' = OnFrame
         /\ line' = line /\ hit' = hit /\ found' = found /\ calm' = calm
         /\ state' = state /\ body' = body
<1>1. UNCHANGED <<line, sent, got, lost, garbled, spoilt, hit, found, calm>>
      /\ UNCHANGED <<state, length_field, checksum_field, expected_body_length, body>>
  BY DEF lvars, pvars, fields
<1>2. Sending' = Sending /\ Size' = Size /\ Gone' = Gone
  BY <1>1 DEF Sending, Size, Gone
<1>3. OnFrame' = OnFrame
  BY <1>1, <1>2 DEF OnFrame, InFrame, InHead, InBody, InTail
<1> QED BY <1>1, <1>2, <1>3

\* While a frame that is not hit comes in, and its start was found, the parser
\* has read what is over of it.
IntactInv == line # <<>> /\ ~hit /\ found /\ Gone >= 1 => OnFrame

LEMMA IntactStep ==
  ASSUME AllLegible, LineInv, IntactInv, [LineNext]_lvars
  PROVE  IntactInv'
<1>1. ASSUME NEW m \in Messages, SendFrame(m)
      PROVE  IntactInv'
  BY <1>1, NothingGone DEF IntactInv
<1>2. CASE Arrive
  <2> SUFFICES ASSUME line' # <<>>, ~hit', found'
               PROVE  OnFrame'
    BY DEF IntactInv
  <2>1. /\ line # <<>> /\ hit' = hit /\ line' = Tail(line)
        /\ found /\ ~(Head(line) = StartChar /\ state = "READ_BODY")
    BY <1>2 DEF Arrive, Parse
  <2>2. Gone \in Nat /\ (Gone = 0 => Head(line) = StartChar)
    <3>1. LineOK
      BY DEF LineInv
    <3>2. PICK m : m = Sending
      OBVIOUS
    <3>3. m \in Message /\ Legible(m) /\ Gone \in 0 .. Len(Body(m)) + 7
          /\ Head(line) = Frame(m)[Gone + 1] /\ Len(Body(m)) \in 5 .. 255
      BY <2>1, <3>1, <3>2, SendingOne, Zenon
    <3>4. Frame(m)[1] = StartChar /\ 0 + 1 = 1
      BY <3>3, FrameShape
    <3> QED BY <3>3, <3>4
  <2>3. (Gone >= 1 /\ OnFrame) \/ (Gone = 0 /\ state # "READ_BODY")
    BY <2>1, <2>2 DEF IntactInv
  <2> QED BY <1>2, <2>3, StaysOnFrame
<1>3. ASSUME NEW x \in NoiseBytes, Garble(x)
      PROVE  IntactInv'
  BY <1>3 DEF Garble, IntactInv
<1>4. CASE Lose
  BY <1>4 DEF Lose, IntactInv
<1>5. CASE UNCHANGED lvars
  BY <1>5, OnFrameUnchanged DEF IntactInv
<1> QED BY <1>1, <1>2, <1>3, <1>4, <1>5 DEF LineNext, Quiescent

\* The last byte of an intact frame that was found has all others before it.
LEMMA IntactAtEnd ==
  ASSUME AllLegible, LineInv, IntactInv, [LineNext]_lvars
  PROVE  FrameEnds /\ ~hit' /\ found => got' = Append(got, Last(sent))
<1> SUFFICES ASSUME FrameEnds, ~hit', found
             PROVE  got' = Append(got, Last(sent))
  OBVIOUS
<1>1. OnFrame
  <2>1. line # <<>> /\ line' = <<>> /\ LineOK
    BY DEF FrameEnds, LineInv
  <2>2. line' = Tail(line) /\ ~hit
    <3>1. ASSUME NEW m \in Messages, SendFrame(m)
          PROVE  FALSE
      BY <2>1, <3>1 DEF SendFrame
    <3>2. ASSUME NEW x \in NoiseBytes, Garble(x)
          PROVE  FALSE
      BY <3>2 DEF Garble
    <3>3. ~Lose
      BY DEF Lose
    <3>4. ~UNCHANGED lvars
      BY <2>1 DEF lvars
    <3> QED BY <3>1, <3>2, <3>3, <3>4 DEF LineNext, Quiescent, Arrive, Parse
  <2>3. Gone >= 1
    <3>1. Gone = Len(Body(Sending)) + 7 /\ Len(Body(Sending)) \in 5 .. 255
      BY <2>1, <2>2, SendingOne
    <3> QED BY <3>1
  <2> QED BY <2>1, <2>2, <2>3 DEF IntactInv
<1> QED BY <1>1, DeliveredAtEnd

\* For messages of any length and any faults: a frame that comes in intact is
\* delivered by its last byte, unless its start was taken for a byte of
\* another body.
THEOREM IntactFramesDelivered ==
  ASSUME \A m \in Messages : Legible(m)
  PROVE  LineSpec => IntactDelivered
<1>0. AllLegible
  BY DEF AllLegible
<1>1. LineInit => LineInv /\ IntactInv
  BY LineInvInit DEF LineInit, IntactInv
<1>2. LineInv /\ IntactInv /\ [LineNext]_lvars => (LineInv /\ IntactInv)'
  BY <1>0, LineInvStep, IntactStep
<1>3. LineInv /\ IntactInv /\ [LineNext]_lvars
        => [FrameEnds /\ ~hit' /\ found => got' = Append(got, Last(sent))]_lvars
  BY <1>0, IntactAtEnd
<1> QED BY <1>1, <1>2, <1>3, PTL DEF LineSpec, IntactDelivered

-----------------------------------------------------------------------------
(* The end of a blackout *)

\* The payload has no character that begins a frame.
NoStart(m) == \A i \in 1 .. Len(m.payload) : m.payload[i] # StartChar

AllPlain == \A m \in Messages : Legible(m) /\ NoStart(m)

\* Then only the first byte of its frame is one.
LEMMA StartOnlyFirst ==
  ASSUME NEW m \in Message, Legible(m), NoStart(m), NEW p \in 1 .. Len(Body(m)) + 7
  PROVE  Frame(m)[p + 1] # StartChar
<1> DEFINE b == Body(m)  n == Len(b)  h == LengthDigits(m)  c == CheckDigits(m)
           x == Frame(m)[p + 1]
<1>1. /\ p = 1 => x = h[1]
      /\ p = 2 => x = h[2]
      /\ p = 3 => x = SeparatorChar
      /\ p \in 4 .. n + 3 => x = b[p - 3]
      /\ p = n + 4 => x = SeparatorChar
      /\ p = n + 5 => x = c[1]
      /\ p = n + 6 => x = c[2]
      /\ p = n + 7 => x = EndChar
  BY ByteOfFrame, Zenon
<1>2. /\ h[1] \in HexChar /\ h[2] \in HexChar /\ c[1] \in HexChar /\ c[2] \in HexChar
  BY FrameDigits, Zenon
<1>3. /\ \A y \in HexChar : y # StartChar
      /\ SeparatorChar # StartChar /\ EndChar # StartChar
  BY HexCharIsByte DEF SeparatorChar, StartChar, EndChar
<1>4. n \in 5 .. 255 /\ p \in 1 .. n + 7
  BY BodyFits
<1>5. \A i \in 1 .. n : b[i] # StartChar
  <2>1. /\ n = Len(m.payload) + 4 /\ Len(m.payload) \in Nat
        /\ \A i \in 1 .. 3 : b[i] = TypeText[m.type][i]
        /\ b[4] = SeparatorChar
        /\ \A i \in 1 .. Len(m.payload) : b[4 + i] = m.payload[i]
    BY BodyShape
  <2>2. \A i \in 1 .. 3 : TypeText[m.type][i] \in Letter
    BY TypeNames DEF Message
  <2>3. \A y \in Letter : y # StartChar
    BY DEF Letter, StartChar
  <2>4. \A i \in 1 .. 3 : b[i] # StartChar
    BY <2>1, <2>2, <2>3, Zenon
  <2> TAKE i \in 1 .. n
  <2>5. CASE i > 4
    <3>1. i - 4 \in 1 .. Len(m.payload) /\ 4 + (i - 4) = i
      BY <1>4, <2>1, <2>5
    <3>2. b[4 + (i - 4)] = m.payload[i - 4]
      BY <2>1, <3>1, Zenon
    <3>3. m.payload[i - 4] # StartChar
      BY <3>1 DEF NoStart
    <3> QED BY <3>1, <3>2, <3>3
  <2>6. i > 4 \/ i \in 1 .. 3 \/ i = 4
    BY <1>4
  <2> QED BY <1>3, <2>1, <2>4, <2>5, <2>6, Zenon
<1> HIDE DEF b, n, h, c, x
<1>6. CASE p \in 4 .. n + 3
  <2>1. p - 3 \in 1 .. n
    BY <1>4, <1>6
  <2> QED BY <1>1, <1>5, <1>6, <2>1, Zenon DEF x
<1>7. \/ p = 1 \/ p = 2 \/ p = 3 \/ p \in 4 .. n + 3
      \/ p = n + 4 \/ p = n + 5 \/ p = n + 6 \/ p = n + 7
  BY <1>4
<1> QED BY <1>1, <1>2, <1>3, <1>6, <1>7, Zenon DEF x

\* The parser is within the frame being sent, and nothing of it was hit.
Synced == line # <<>> /\ ~hit /\ Gone >= 1 /\ OnFrame

\* Otherwise it entered what it is in with the byte that was hit last, or after
\* it: no intact byte but the first of a frame is a start.
Lag == /\ state = "READ_LEN_HI" => calm = 0
       /\ state = "READ_LEN_LO" => calm <= 1
       /\ state = "EXPECT_LEN_SEPARATOR" => calm <= 2
       /\ state = "READ_BODY" => calm <= Len(body) + 3
LagInv == Synced \/ Lag

\* A byte that is not a start leaves a parser in step with the bytes it reads.
LEMMA LagStep ==
  ASSUME ParserInv, Lag, NEW x \in Byte, Consume(x), x # Return, x # StartChar,
         calm \in Nat, calm' \in Nat, calm' <= calm + 1
  PROVE  Lag'
<1>1. /\ body \in Seq(Byte) /\ state \in State
      /\ state \in BeforeBody => body = <<>>
  BY DEF ParserInv, ParserTypeOK, FieldsInStep
<1>2. CASE Fail(x)
  <2>1. state' = "WAIT_START"
    BY <1>2 DEF Fail, AfterFail
  <2> QED BY <2>1 DEF Lag
<1>3. CASE state = "WAIT_START"
  <2>1. state' = "WAIT_START"
    BY <1>3, ActionOfState DEF WaitStart, InProgress
  <2> QED BY <2>1 DEF Lag
<1>4. CASE state = "READ_LEN_HI" /\ ~Fail(x)
  <2>1. state' = "READ_LEN_LO"
    BY <1>4, ActionOfState DEF ReadLenHi, InProgress
  <2> QED BY <1>4, <2>1 DEF Lag
<1>5. CASE state = "READ_LEN_LO" /\ ~Fail(x)
  <2>1. state' = "EXPECT_LEN_SEPARATOR"
    BY <1>5, ActionOfState DEF ReadLenLo, InProgress
  <2> QED BY <1>5, <2>1 DEF Lag
<1>6. CASE state = "EXPECT_LEN_SEPARATOR" /\ ~Fail(x)
  <2>1. state' = "READ_BODY" /\ body' = body
    BY <1>6, ActionOfState DEF ExpectLenSeparator, InProgress, fields
  <2>2. Len(body') = 0
    BY <1>1, <1>6, <2>1 DEF BeforeBody
  <2> QED BY <1>6, <2>1, <2>2 DEF Lag
<1>7. CASE state = "READ_BODY"
  <2>1. state' \in {"READ_BODY", "EXPECT_CHECK_SEPARATOR"} /\ body' = Append(body, x)
    BY <1>7, ActionOfState DEF ReadBody, InProgress
  <2>2. Len(body') = Len(body) + 1 /\ Len(body) \in Nat
    BY <1>1, <2>1, Grown
  <2> QED BY <1>7, <2>1, <2>2 DEF Lag
<1>8. CASE /\ state \in {"EXPECT_CHECK_SEPARATOR", "READ_CHECK_HI", "READ_CHECK_LO",
                         "EXPECT_END"}
           /\ ~Fail(x)
  <2>1. state' \in {"READ_CHECK_HI", "READ_CHECK_LO", "EXPECT_END", "WAIT_START"}
    BY <1>8, ActionOfState DEF ExpectCheckSeparator, ReadCheckHi, ReadCheckLo, ExpectEnd,
       InProgress
  <2> QED BY <2>1 DEF Lag
<1> QED BY <1>1, <1>2, <1>3, <1>4, <1>5, <1>6, <1>7, <1>8 DEF State

LEMMA LagInvStep ==
  ASSUME AllPlain, LineInv, LagInv, [LineNext]_lvars
  PROVE  LagInv'
<1>0. LineOK /\ ParserInv /\ AllLegible /\ calm \in Nat /\ body \in Seq(Byte)
  BY DEF LineInv, AllPlain, AllLegible, LineOK, LineTypes, ParserInv, ParserTypeOK
<1>1. ASSUME NEW m \in Messages, SendFrame(m)
      PROVE  LagInv'
  <2>1. ~Synced
    BY <1>1 DEF SendFrame, Synced
  <2>2. state' = state /\ body' = body /\ calm' = calm
    BY <1>1 DEF SendFrame, pvars, fields
  <2> QED BY <2>1, <2>2 DEF LagInv, Lag
<1>2. ASSUME calm' = 0, ParserInv'
      PROVE  LagInv'
  <2>1. body' \in Seq(Byte)
    BY <1>2 DEF ParserInv, ParserTypeOK
  <2> QED BY <1>2, <2>1 DEF LagInv, Lag
<1>3. ParserInv'
  BY <1>0, LineInvStep DEF LineInv
<1>4. CASE Arrive
  <2>1. /\ line # <<>> /\ Consume(Head(line)) /\ hit' = hit
        /\ line' = Tail(line) /\ sent' = sent
        /\ calm' \in Nat /\ calm' <= calm + 1
    BY <1>0, <1>4 DEF Arrive, Parse
  <2>2. PICK m : m = Sending
    OBVIOUS
  <2>3. /\ m \in Message /\ Legible(m) /\ Gone \in 0 .. Len(Body(m)) + 7
        /\ Head(line) = Frame(m)[Gone + 1] /\ Len(Body(m)) \in 5 .. 255
        /\ Head(line) \in Byte /\ Head(line) # Return
        /\ line' = <<>> <=> Gone = Len(Body(m)) + 7
    BY <1>0, <2>1, <2>2, SendingOne, Zenon
  <2>4. NoStart(m) /\ Gone' = Gone + 1
    <3>1. m \in Messages
      BY <1>0, <2>1, <2>2, SendingOne
    <3> QED BY <1>0, <2>1, <3>1, ByteGone DEF AllPlain
  <2>5. Gone = 0 \/ Gone \in 1 .. Len(Body(m)) + 7
    BY <2>3
  <2>6. CASE Synced /\ line' # <<>>
    <3>1. OnFrame'
      BY <1>0, <1>4, <2>6, StaysOnFrame DEF Synced
    <3> QED BY <2>1, <2>3, <2>4, <2>6, <3>1 DEF LagInv, Synced
  <2>7. CASE Synced /\ line' = <<>>
    <3>1. Head(line) = EndChar /\ InFrame(m, Len(Body(m)) + 7)
      <4>1. Frame(m)[Len(Body(m)) + 8] = EndChar
        BY <2>3, FrameShape, Zenon
      <4>2. Gone + 1 = Len(Body(m)) + 8
        BY <2>3, <2>7
      <4>3. InFrame(m, Gone)
        BY <2>2, <2>7, Zenon DEF Synced, OnFrame
      <4> QED BY <2>3, <2>7, <4>1, <4>2, <4>3, Zenon
    <3>2. state' = "WAIT_START"
      BY <1>0, <2>1, <2>3, <3>1, EndOfFrame, Zenon
    <3> QED BY <3>2 DEF LagInv, Lag
  <2>8. CASE Lag /\ Gone # 0
    <3>1. Head(line) # StartChar
      BY <2>3, <2>4, <2>5, <2>8, StartOnlyFirst, Zenon
    <3>2. Lag'
      BY <1>0, <2>1, <2>3, <2>8, <3>1, LagStep
    <3> QED BY <3>2 DEF LagInv
  <2>9. CASE Lag /\ Gone = 0 /\ state # "READ_BODY"
    <3>1. line' # <<>> /\ ~hit
      <4>1. Len(line) = Size
        BY <1>0, <2>1, <2>9, SendingOne DEF Gone
      <4> QED BY <1>0, <2>1, <2>3, <2>9, <4>1 DEF LineOK, RestOfFrame
    <3>2. OnFrame'
      BY <1>0, <1>4, <2>9, <3>1, StaysOnFrame
    <3> QED BY <2>1, <2>3, <2>4, <2>9, <3>1, <3>2 DEF LagInv, Synced
  <2>10. CASE Lag /\ state = "READ_BODY"
    <3>1. state' \in {"READ_BODY", "EXPECT_CHECK_SEPARATOR"} /\ body' = Append(body, Head(line))
      BY <2>1, <2>3, <2>10, ActionOfState DEF ReadBody, InProgress
    <3>2. Len(body') = Len(body) + 1 /\ Len(body) \in Nat
      BY <1>0, <2>3, <3>1, Grown
    <3> QED BY <1>0, <2>1, <2>10, <3>1, <3>2 DEF LagInv, Lag
  <2> QED BY <2>6, <2>7, <2>8, <2>9, <2>10 DEF LagInv
<1>5. ASSUME NEW x \in NoiseBytes, Garble(x)
      PROVE  LagInv'
  BY <1>2, <1>3, <1>5 DEF Garble
<1>6. CASE Lose
  BY <1>2, <1>3, <1>6 DEF Lose
<1>7. CASE UNCHANGED lvars
  BY <1>7, OnFrameUnchanged DEF LagInv, Lag, Synced
<1> QED BY <1>1, <1>4, <1>5, <1>6, <1>7 DEF LineNext, Quiescent

\* A frame that begins after a blackout is not swallowed.
CalmInv == line # <<>> /\ ~hit /\ Gone >= 1 /\ calm - Gone >= Blackout => OnFrame

LEMMA CalmStep ==
  ASSUME AllPlain, LineInv, LagInv, CalmInv, [LineNext]_lvars
  PROVE  CalmInv'
<1>0. /\ LineOK /\ ParserInv /\ AllLegible /\ calm \in Nat
      /\ body \in Seq(Byte) /\ expected_body_length \in 0 .. MaxBodySize
  BY DEF LineInv, AllPlain, AllLegible, LineOK, LineTypes, ParserInv, ParserTypeOK
<1>1. ASSUME NEW m \in Messages, SendFrame(m)
      PROVE  CalmInv'
  BY <1>0, <1>1, NothingGone DEF CalmInv
<1>2. CASE Arrive
  <2> SUFFICES ASSUME line' # <<>>, ~hit', calm' - Gone' >= Blackout
               PROVE  OnFrame'
    BY DEF CalmInv
  <2>1. /\ line # <<>> /\ hit' = hit /\ line' = Tail(line) /\ sent' = sent
        /\ calm' \in Nat /\ calm' <= calm + 1
    BY <1>0, <1>2 DEF Arrive, Parse
  <2>2. Gone' = Gone + 1 /\ Gone \in Nat
    <3>1. Gone \in 0 .. Len(Body(Sending)) + 7 /\ Len(Body(Sending)) \in 5 .. 255
      BY <1>0, <2>1, SendingOne
    <3> QED BY <1>0, <2>1, <3>1, ByteGone
  <2>3. calm - Gone >= Blackout
    <3>1. Blackout \in Nat
      BY MaxBodyIsNatural DEF Blackout
    <3>2. \A a, b, c, d, z \in Nat :
            a <= b + 1 /\ c = d + 1 /\ a - c >= z => b - d >= z
      OBVIOUS
    <3>3. Gone' \in Nat
      BY <2>2
    <3>4. calm' - Gone' >= Blackout
      OBVIOUS
    <3> QED BY <1>0, <2>1, <2>2, <3>1, <3>2, <3>3, <3>4, Zenon
  <2>4. CASE Gone = 0
    <3>1. Lag
      BY <2>4 DEF LagInv, Synced
    <3>2. state # "READ_BODY"
      <4> SUFFICES ASSUME state = "READ_BODY" PROVE FALSE
        OBVIOUS
      <4>1. calm <= Len(body) + 3 /\ Len(body) < expected_body_length
        BY <3>1, <1>0 DEF Lag, ParserInv, FieldsInStep
      <4>2. Len(body) \in Nat
        BY <1>0
      <4>3. calm >= MaxBodySize + 3
        BY <1>0, <2>3, <2>4, MaxBodyIsNatural DEF Blackout
      <4> QED BY <1>0, <4>1, <4>2, <4>3, MaxBodyIsNatural
    <3> QED BY <1>0, <1>2, <2>4, <3>2, StaysOnFrame
  <2>5. CASE Gone >= 1
    <3>1. OnFrame
      BY <2>1, <2>3, <2>5 DEF CalmInv
    <3> QED BY <1>0, <1>2, <2>5, <3>1, StaysOnFrame
  <2> QED BY <2>2, <2>4, <2>5
<1>3. ASSUME NEW x \in NoiseBytes, Garble(x)
      PROVE  CalmInv'
  BY <1>3 DEF Garble, CalmInv
<1>4. CASE Lose
  BY <1>4 DEF Lose, CalmInv
<1>5. CASE UNCHANGED lvars
  BY <1>5, OnFrameUnchanged DEF CalmInv
<1> QED BY <1>1, <1>2, <1>3, <1>4, <1>5 DEF LineNext, Quiescent

LEMMA CalmAtEnd ==
  ASSUME AllPlain, LineInv, CalmInv, [LineNext]_lvars
  PROVE  FrameEnds /\ ~hit' /\ calm - (Len(Frame(Last(sent))) - 1) >= Blackout
           => got' = Append(got, Last(sent))
<1> SUFFICES ASSUME FrameEnds, ~hit', calm - (Len(Frame(Last(sent))) - 1) >= Blackout
             PROVE  got' = Append(got, Last(sent))
  OBVIOUS
<1>0. AllLegible
  BY DEF AllPlain, AllLegible
<1>1. OnFrame
  <2>1. line # <<>> /\ line' = <<>> /\ LineOK
    BY DEF FrameEnds, LineInv
  <2>2. line' = Tail(line) /\ ~hit
    <3>1. ASSUME NEW m \in Messages, SendFrame(m)
          PROVE  FALSE
      BY <2>1, <3>1 DEF SendFrame
    <3>2. ASSUME NEW x \in NoiseBytes, Garble(x)
          PROVE  FALSE
      BY <3>2 DEF Garble
    <3>3. ~Lose
      BY DEF Lose
    <3>4. ~UNCHANGED lvars
      BY <2>1 DEF lvars
    <3> QED BY <3>1, <3>2, <3>3, <3>4 DEF LineNext, Quiescent, Arrive, Parse
  <2>3. Gone >= 1 /\ Gone = Len(Frame(Last(sent))) - 1
    <3>1. /\ Gone = Len(Body(Sending)) + 7 /\ Len(Body(Sending)) \in 5 .. 255
          /\ Size = Len(Body(Sending)) + 8
      BY <1>0, <2>1, <2>2, SendingOne
    <3> QED BY <3>1 DEF Size, Sending
  <2> QED BY <2>1, <2>2, <2>3 DEF CalmInv
<1> QED BY <1>0, <1>1, DeliveredAtEnd

\* For messages of any length, none of them with a start in its payload, and
\* any faults: a frame that comes in intact is delivered when the last fault
\* was more than a blackout before it, a length field and the longest body.
THEOREM BlackoutsEnd ==
  ASSUME \A m \in Messages : Legible(m) /\ NoStart(m)
  PROVE  LineSpec => BlackoutEnds
<1>0. AllPlain /\ AllLegible
  BY DEF AllPlain, AllLegible
<1>1. LineInit => LineInv /\ LagInv /\ CalmInv
  BY LineInvInit DEF LineInit, PInit, LagInv, Lag, CalmInv
<1>2. LineInv /\ LagInv /\ CalmInv /\ [LineNext]_lvars => (LineInv /\ LagInv /\ CalmInv)'
  BY <1>0, LineInvStep, LagInvStep, CalmStep
<1>3. LineInv /\ LagInv /\ CalmInv /\ [LineNext]_lvars
        => [FrameEnds /\ ~hit' /\ calm - (Len(Frame(Last(sent))) - 1) >= Blackout
              => got' = Append(got, Last(sent))]_lvars
  BY <1>0, CalmAtEnd
<1> QED BY <1>1, <1>2, <1>3, PTL DEF LineSpec, BlackoutEnds

-----------------------------------------------------------------------------
(* What a lost byte costs *)

\* The bytes lost that no lost message accounts for.
Spare == lost - (Len(sent) - Len(got))

\* The bytes of a body that are still to come.
Left == expected_body_length - Len(body)

LossTypes == lost \in Nat /\ garbled \in Nat /\ \E S : got \in Seq(S)

\* A message is only owed by the frame that is coming in: its start is there to
\* be found, or was found and nothing of it lost.
OnlyOneOwed ==
  \/ Spare >= 0
  \/ line # <<>> /\ Gone = 0 /\ Spare >= -1 /\ state # "READ_BODY"
  \/ Synced /\ Spare >= -1

\* A body that swallows frames, none of them shorter than 13 bytes, has been
\* paid for.
BodyPaid ==
  state = "READ_BODY" => \/ 13 * Spare >= Left - Len(line)
                         \/ Spare >= -1 /\ Len(line) >= Left + 4

\* A length is read from two bytes of one frame, and the other bytes of the
\* frame are lost, or from two frames, with most of the first one lost.
LengthPaid ==
  /\ state = "READ_LEN_HI" => Spare >= Gone - 2
  /\ state = "READ_LEN_LO" =>
       /\ Spare >= Gone - 3
       /\ \/ Spare >= 8
          \/ \E i \in 2 .. Gone : length_field = <<Frame(Sending)[i]>>
  /\ state = "EXPECT_LEN_SEPARATOR" =>
       /\ Spare >= Gone - 4 /\ expected_body_length = HexValue(length_field)
       /\ \/ Spare >= 8
          \/ \E i, j \in 2 .. Gone :
               i < j /\ length_field = <<Frame(Sending)[i], Frame(Sending)[j]>>

LossOK == OnlyOneOwed /\ BodyPaid /\ LengthPaid /\ (sent = <<>> => state = "WAIT_START")
LossInv == LossTypes /\ (garbled = 0 => LossOK)

\* How the parser enters each state in front of the checksum.
LEMMA HowEntered ==
  ASSUME NEW x, x # Return, Consume(x), state \in State
  PROVE  /\ state' = "READ_LEN_HI" => x = StartChar
         /\ state' = "READ_LEN_LO" =>
              state = "READ_LEN_HI" /\ x \in HexChar /\ length_field' = <<x>>
         /\ state' = "EXPECT_LEN_SEPARATOR" =>
              /\ state = "READ_LEN_LO" /\ x \in HexChar
              /\ length_field' = Append(length_field, x)
              /\ expected_body_length' = HexValue(length_field')
         /\ state' = "READ_BODY" =>
              /\ expected_body_length' = expected_body_length
              /\ \/ state = "EXPECT_LEN_SEPARATOR" /\ x = SeparatorChar /\ body' = body
                 \/ state = "READ_BODY" /\ body' = Append(body, x)
<1>1. CASE Fail(x)
  BY <1>1 DEF Fail, AfterFail
<1>2. CASE state = "WAIT_START"
  BY <1>2, ActionOfState DEF WaitStart, InProgress
<1>3. CASE state = "READ_LEN_HI" /\ ~Fail(x)
  <2>1. x \in HexChar /\ length_field' = <<x>> /\ state' = "READ_LEN_LO"
    BY <1>3, ActionOfState, Zenon DEF ReadLenHi, InProgress
  <2> QED BY <1>3, <2>1
<1>4. CASE state = "READ_LEN_LO" /\ ~Fail(x)
  <2>1. /\ x \in HexChar /\ length_field' = Append(length_field, x)
        /\ state' = "EXPECT_LEN_SEPARATOR"
        /\ expected_body_length' = HexValue(length_field')
    BY <1>4, ActionOfState, Zenon DEF ReadLenLo, InProgress
  <2> QED BY <1>4, <2>1
<1>5. CASE state = "EXPECT_LEN_SEPARATOR" /\ ~Fail(x)
  <2>1. /\ x = SeparatorChar /\ state' = "READ_BODY" /\ body' = body
        /\ expected_body_length' = expected_body_length
    BY <1>5, ActionOfState DEF ExpectLenSeparator, InProgress, fields
  <2> QED BY <1>5, <2>1
<1>6. CASE state = "READ_BODY"
  <2>1. /\ body' = Append(body, x) /\ expected_body_length' = expected_body_length
        /\ state' \in {"READ_BODY", "EXPECT_CHECK_SEPARATOR"}
    BY <1>6, ActionOfState DEF ReadBody, InProgress
  <2> QED BY <1>6, <2>1
<1>7. CASE /\ state \in {"EXPECT_CHECK_SEPARATOR", "READ_CHECK_HI", "READ_CHECK_LO",
                         "EXPECT_END"}
           /\ ~Fail(x)
  <2>1. state' \in {"READ_CHECK_HI", "READ_CHECK_LO", "EXPECT_END", "WAIT_START"}
    BY <1>7, ActionOfState DEF ExpectCheckSeparator, ReadCheckHi, ReadCheckLo, ExpectEnd,
       InProgress
  <2> QED BY <2>1
<1> QED BY <1>1, <1>2, <1>3, <1>4, <1>5, <1>6, <1>7 DEF State

\* What a length read one place late, or out of the text, may exceed the true
\* one by: nothing to speak of, because bodies are short.
LEMMA LateLength ==
  ASSUME NEW n \in 5 .. 255, NEW D \in 0 .. 56,
         NEW a \in 0 .. 15, NEW c \in 0 .. 15, NEW u \in 0 .. 15, NEW v \in 0 .. 15,
         n = a * 16 + c, D = u * 16 + v, u = a \/ u = c \/ u >= 10
  PROVE  D - n <= 39
<1>1. u <= 3
  OBVIOUS
<1>2. CASE n >= 17
  BY <1>2
<1>3. CASE n <= 16 /\ u = a
  <2>1. a <= 1
    BY <1>3
  <2>2. D <= 31
    BY <1>3, <2>1
  <2> QED BY <2>2
<1>4. CASE n <= 16 /\ u = c
  <2>1. CASE a = 0
    <3>1. n = u
      BY <1>4, <2>1
    <3> QED BY <1>1, <3>1
  <2>2. CASE a >= 1
    <3>1. u = 0 /\ D <= 15
      BY <1>4, <2>2
    <3> QED BY <3>1
  <2> QED BY <2>1, <2>2
<1> QED BY <1>1, <1>2, <1>3, <1>4

\* A length that ends at byte k pays for itself from the eighth byte on.
LEMMA LatePays ==
  ASSUME NEW n \in 5 .. 255, NEW D \in 0 .. 56, NEW k \in 8 .. n + 8,
         k = 8 => D - n <= 39
  PROVE  13 * (k - 5) >= D - (n + 8 - k)
<1>1. CASE k = 8
  BY <1>1
<1>2. CASE k >= 9
  <2>1. 13 * (k - 5) >= 52
    BY <1>2
  <2>2. D - (n + 8 - k) <= 56 - 13 + k
    OBVIOUS
  <2> QED BY <1>2
<1> QED BY <1>1, <1>2

\* A bound on a bound.
LEMMA Below ==
  ASSUME NEW d \in Nat, NEW s \in Nat, d <= s, s <= 56
  PROVE  d \in 0 .. 56
OBVIOUS

\* Where two digits and the separator behind them can stand.
LEMMA PlaceOfLength ==
  ASSUME NEW k \in Int, NEW i \in 2 .. k - 1, NEW j \in 2 .. k - 1, i < j,
         k \notin 5 .. 7
  PROVE  (k = 4 /\ i = 2 /\ j = 3) \/ (k = 8 /\ i \in {2, 3, 4, 5, 6, 7}) \/ k >= 9
OBVIOUS

\* Two digits of a frame with a separator behind them are its length, or
\* enough of the frame is missing between them to pay for what they declare.
LEMMA FalseLength ==
  ASSUME NEW m \in Message, Legible(m), MaxPayload <= 52,
         NEW k \in 1 .. Len(Frame(m)), Frame(m)[k] = SeparatorChar,
         NEW i \in 2 .. k - 1, NEW j \in 2 .. k - 1, i < j,
         Frame(m)[i] \in HexChar, Frame(m)[j] \in HexChar,
         NEW D, D = HexValue(<<Frame(m)[i], Frame(m)[j]>>), D <= MaxBodySize
  PROVE  LET n == Len(Body(m)) IN
         \/ k = 4 /\ D = n
         \/ k >= 8 /\ 13 * (k - 5) >= D - (n + 8 - k)
<1> DEFINE b == Body(m)  n == Len(b)  f == Frame(m)  h == LengthDigits(m)
           u == Nibble(f[i])  v == Nibble(f[j])
           a == Nibble(h[1])  c == Nibble(h[2])
<1>1. /\ f \in Seq(Byte) /\ Len(f) = n + 8
      /\ f[2] = h[1] /\ f[3] = h[2] /\ f[4] = SeparatorChar
      /\ \A l \in 1 .. n : f[4 + l] = b[l]
  BY FrameShape, Zenon
<1>2. n \in 5 .. 255
  BY BodyFits, Zenon
<1>3. h = <<h[1], h[2]>> /\ HexValue(h) = n /\ h[1] \in HexChar /\ h[2] \in HexChar
  BY FrameDigits, Zenon
<1>4. n = a * 16 + c /\ a \in 0 .. 15 /\ c \in 0 .. 15
  <2>1. n = a * 16 + c
    BY <1>3, Zenon DEF HexValue
  <2>2. a \in 0 .. 15 /\ c \in 0 .. 15
    BY <1>3, NibbleRange
  <2> QED BY <2>1, <2>2, Zenon
<1>5. u \in 0 .. 15 /\ v \in 0 .. 15 /\ D = u * 16 + v
  <2>1. u \in 0 .. 15 /\ v \in 0 .. 15
    BY NibbleRange
  <2>2. D = u * 16 + v
    <3>1. <<f[i], f[j]>>[1] = f[i] /\ <<f[i], f[j]>>[2] = f[j]
      OBVIOUS
    <3> QED BY <3>1, Zenon DEF HexValue
  <2> QED BY <2>1, <2>2, Zenon
<1>6. D \in 0 .. 56
  <2>1. MaxBodySize <= 56 /\ MaxBodySize \in Nat
    BY CodecAssumption DEF MaxBodySize, TypeLength
  <2> HIDE DEF u, v
  <2>2. D \in Nat
    BY <1>5
  <2> QED BY <2>1, <2>2, Below, Zenon
<1>7. \A y \in Letter : y # SeparatorChar /\ (y \in HexChar => Nibble(y) >= 10)
  BY DEF Letter, SeparatorChar, HexChar, Digits, UpperLetters, Nibble
<1>8. SeparatorChar \notin HexChar
  BY HexCharIsByte
<1>9. \A l \in 1 .. 3 : b[l] \in Letter
  <2>1. \A l \in 1 .. 3 : b[l] = TypeText[m.type][l]
    BY BodyShape
  <2>2. \A l \in 1 .. 3 : TypeText[m.type][l] \in Letter
    BY TypeNames DEF Message
  <2> QED BY <2>1, <2>2, Zenon
<1>10. k \in 1 .. n + 8 /\ i \in 2 .. k - 1 /\ j \in 2 .. k - 1 /\ i < j
       /\ f[k] = SeparatorChar /\ f[i] \in HexChar
  BY <1>1
<1>11. (i = 2 => u = a) /\ (i = 3 => u = c) /\ (j = 3 => v = c)
  BY <1>1, Zenon
<1> HIDE DEF b, n, f, h
<1>12. \A l \in 5 .. 7 : f[l] \in Letter
  <2> TAKE l \in 5 .. 7
  <2>1. l - 4 \in 1 .. 3 /\ l - 4 \in 1 .. n /\ 4 + (l - 4) = l
    BY <1>2
  <2>2. f[4 + (l - 4)] = b[l - 4]
    BY <1>1, <2>1, Zenon
  <2> QED BY <1>9, <2>1, <2>2, Zenon
<1>13. k \notin 5 .. 7 /\ (i \in 5 .. 7 => u >= 10) /\ i # 4
  BY <1>1, <1>7, <1>8, <1>10, <1>12, Zenon
<1> HIDE DEF u, v, a, c
<1>14. (k = 4 /\ i = 2 /\ j = 3) \/ (k = 8 /\ i \in {2, 3, 4, 5, 6, 7}) \/ k >= 9
  <2>1. k \in Int
    BY <1>2, <1>10
  <2> QED BY <1>10, <1>13, <2>1, PlaceOfLength, Zenon
<1>15. CASE k = 4 /\ i = 2 /\ j = 3
  <2>1. D = n
    BY <1>4, <1>5, <1>11, <1>15, Zenon
  <2> QED BY <1>15, <2>1 DEF n, b
<1>16. k = 8 /\ i \in {2, 3, 4, 5, 6, 7} => D - n <= 39
  <2> SUFFICES ASSUME i \in {2, 3, 4, 5, 6, 7} PROVE D - n <= 39
    OBVIOUS
  <2>1. i \in {2, 3} \/ i \in 5 .. 7
    BY <1>13
  <2>2. u = a \/ u = c \/ u >= 10
    BY <1>11, <1>13, <2>1
  <2> QED BY <1>2, <1>4, <1>5, <1>6, <2>2, LateLength, Zenon
<1>17. CASE (k = 8 /\ i \in {2, 3, 4, 5, 6, 7}) \/ k >= 9
  <2>1. k \in 8 .. n + 8 /\ (k = 8 => D - n <= 39)
    <3>1. k >= 8 /\ (k = 8 => i \in {2, 3, 4, 5, 6, 7})
      BY <1>2, <1>10, <1>17
    <3>2. k \in 8 .. n + 8
      BY <1>2, <1>10, <3>1
    <3> QED BY <1>16, <3>1, <3>2, Zenon
  <2>2. 13 * (k - 5) >= D - (n + 8 - k)
    BY <1>2, <1>6, <2>1, LatePays, Zenon
  <2>3. k >= 8
    BY <1>2, <2>1
  <2> QED BY <2>2, <2>3, Zenon DEF n, b
<1> QED BY <1>14, <1>15, <1>17, Zenon

\* What each step makes of the spare bytes.
LEMMA SpareStep ==
  ASSUME LineInv, LossTypes, [LineNext]_lvars
  PROVE  /\ LossTypes' /\ Spare \in Int /\ Spare' \in Int
         /\ Arrive => Spare' = IF result' = "MESSAGE_READY" THEN Spare + 1 ELSE Spare
         /\ Lose => Spare' = Spare + 1
         /\ \A m \in Messages : SendFrame(m) => Spare' = Spare - 1
<1>0. lost \in Nat /\ garbled \in Nat /\ sent \in Seq(Messages)
  BY DEF LossTypes, LineInv, LineOK, LineTypes
<1>1. PICK S : got \in Seq(S)
  BY DEF LossTypes
<1>2. Len(got) \in Nat /\ Len(sent) \in Nat
  BY <1>0, <1>1
<1>3. Spare \in Int
  BY <1>0, <1>2 DEF Spare
<1>4. ASSUME NEW x, Parse(x)
      PROVE  /\ \E T : got' \in Seq(T)
             /\ Len(got') = IF result' = "MESSAGE_READY" THEN Len(got) + 1 ELSE Len(got)
  <2>1. got' = IF result' = "MESSAGE_READY" THEN Append(got, message') ELSE got
    BY <1>4 DEF Parse
  <2>2. PICK e : e = message'
    OBVIOUS
  <2>3. got \in Seq(S \cup {e})
    BY <1>1
  <2>4. Append(got, e) \in Seq(S \cup {e}) /\ Len(Append(got, e)) = Len(got) + 1
    BY <2>3, Grown
  <2> QED BY <2>1, <2>2, <2>3, <2>4, Zenon
<1>5. ASSUME NEW m \in Messages, SendFrame(m)
      PROVE  LossTypes' /\ Spare' = Spare - 1
  <2>1. sent' = Append(sent, m) /\ got' = got /\ lost' = lost /\ garbled' = garbled
    BY <1>5 DEF SendFrame
  <2>2. Len(sent') = Len(sent) + 1
    BY <1>0, <2>1, AppendProperties
  <2>3. LossTypes'
    BY <1>0, <1>1, <2>1, Zenon DEF LossTypes
  <2> QED BY <1>0, <1>2, <2>1, <2>2, <2>3 DEF Spare
<1>6. ASSUME Arrive
      PROVE  /\ LossTypes'
             /\ Spare' = IF result' = "MESSAGE_READY" THEN Spare + 1 ELSE Spare
  <2>1. Parse(Head(line)) /\ sent' = sent /\ lost' = lost /\ garbled' = garbled
    BY <1>6 DEF Arrive
  <2>2. /\ \E T : got' \in Seq(T)
        /\ Len(got') = IF result' = "MESSAGE_READY" THEN Len(got) + 1 ELSE Len(got)
    BY <1>4, <2>1, Zenon
  <2>3. LossTypes'
    BY <1>0, <2>1, <2>2, Zenon DEF LossTypes
  <2>4. Spare' = IF result' = "MESSAGE_READY" THEN Spare + 1 ELSE Spare
    BY <1>0, <1>2, <2>1, <2>2 DEF Spare
  <2> QED BY <2>3, <2>4
<1>7. ASSUME NEW x \in NoiseBytes, Garble(x)
      PROVE  LossTypes' /\ Spare' \in Int
  <2>1. Parse(x) /\ sent' = sent /\ lost' = lost /\ garbled' = garbled + 1
    BY <1>7 DEF Garble
  <2>2. /\ \E T : got' \in Seq(T)
        /\ Len(got') = IF result' = "MESSAGE_READY" THEN Len(got) + 1 ELSE Len(got)
    BY <1>4, <2>1, Zenon
  <2>3. garbled' \in Nat
    BY <1>0, <2>1
  <2>4. LossTypes'
    BY <1>0, <2>1, <2>2, <2>3, Zenon DEF LossTypes
  <2> QED BY <1>0, <1>2, <2>1, <2>2, <2>4 DEF Spare
<1>8. ASSUME Lose
      PROVE  LossTypes' /\ Spare' = Spare + 1
  <2>1. sent' = sent /\ got' = got /\ lost' = lost + 1 /\ garbled' = garbled
    BY <1>8 DEF Lose
  <2>2. lost' \in Nat
    BY <1>0, <2>1
  <2>3. LossTypes'
    BY <1>0, <1>1, <2>1, <2>2, Zenon DEF LossTypes
  <2> QED BY <1>0, <1>2, <2>1, <2>3 DEF Spare
<1>9. ASSUME UNCHANGED lvars
      PROVE  LossTypes' /\ Spare' = Spare
  <2>1. sent' = sent /\ got' = got /\ lost' = lost /\ garbled' = garbled
    BY <1>9 DEF lvars
  <2>2. LossTypes'
    BY <1>0, <1>1, <2>1, Zenon DEF LossTypes
  <2> QED BY <1>3, <2>1, <2>2 DEF Spare
<1>10. LossTypes' /\ Spare' \in Int
  <2>1. (\E m \in Messages : SendFrame(m)) => LossTypes' /\ Spare' \in Int
    BY <1>3, <1>5
  <2>2. Arrive => LossTypes' /\ Spare' \in Int
    BY <1>3, <1>6
  <2>3. Lose => LossTypes' /\ Spare' \in Int
    BY <1>3, <1>8
  <2>4. (\E x \in NoiseBytes : Garble(x)) => LossTypes' /\ Spare' \in Int
    BY <1>7
  <2>5. UNCHANGED lvars => LossTypes' /\ Spare' \in Int
    BY <1>3, <1>9
  <2> QED BY <2>1, <2>2, <2>3, <2>4, <2>5 DEF LineNext, Quiescent
<1>11. Arrive => Spare' = IF result' = "MESSAGE_READY" THEN Spare + 1 ELSE Spare
  BY <1>6
<1>12. Lose => Spare' = Spare + 1
  BY <1>8
<1>13. \A m \in Messages : SendFrame(m) => Spare' = Spare - 1
  BY <1>5
<1> QED BY <1>3, <1>10, <1>11, <1>12, <1>13

\* A parser that is within the frame being sent, or finds its start, still is
\* after the next byte, or has completed the message.
LEMMA SyncedNext ==
  ASSUME AllLegible, LineInv, Arrive,
         Synced \/ (Gone = 0 /\ state # "READ_BODY")
  PROVE  Synced' \/ (line' = <<>> /\ result' = "MESSAGE_READY")
<1>0. LineOK /\ ParserInv /\ line # <<>> /\ sent' = sent /\ hit' = hit
      /\ line' = Tail(line) /\ Consume(Head(line))
  BY DEF LineInv, Arrive, Parse
<1>1. PICK m : m = Sending
  OBVIOUS
<1>2. /\ m \in Message /\ Legible(m) /\ Gone \in 0 .. Len(Body(m)) + 7
      /\ Len(line) \in 1 .. Size /\ Size = Len(Body(m)) + 8
      /\ Head(line) = Frame(m)[Gone + 1] /\ Len(Body(m)) \in 5 .. 255
      /\ Tail(line) = <<>> <=> Gone = Len(Body(m)) + 7
  BY <1>0, <1>1, SendingOne, Zenon
<1>3. Gone' = Gone + 1
  BY <1>0, ByteGone
<1>4. ~hit
  <2>1. Gone = 0 => Len(line) = Size
    BY <1>2 DEF Gone
  <2> QED BY <1>0, <2>1 DEF Synced, LineOK, RestOfFrame
<1>5. CASE line' # <<>>
  <2>1. (Gone >= 1 /\ OnFrame) \/ (Gone = 0 /\ state # "READ_BODY")
    BY DEF Synced
  <2>2. OnFrame'
    BY <1>5, <2>1, StaysOnFrame
  <2>3. Gone' >= 1
    BY <1>2, <1>3
  <2> QED BY <1>0, <1>4, <1>5, <2>2, <2>3 DEF Synced
<1>6. CASE line' = <<>>
  <2>1. Gone = Len(Body(m)) + 7 /\ Gone # 0 /\ Gone + 1 = Len(Body(m)) + 8
    BY <1>0, <1>2, <1>6
  <2>2. InFrame(m, Len(Body(m)) + 7)
    BY <1>1, <2>1, Zenon DEF Synced, OnFrame
  <2>3. Head(line) = EndChar
    <3>1. Frame(m)[Len(Body(m)) + 8] = EndChar
      BY <1>2, FrameShape, Zenon
    <3> QED BY <1>2, <2>1, <3>1, Zenon
  <2>4. result' = "MESSAGE_READY"
    BY <1>0, <1>2, <2>2, <2>3, EndOfFrame, Zenon
  <2> QED BY <1>6, <2>4
<1> QED BY <1>5, <1>6

\* What a byte that arrives owes.
LEMMA OnlyOneOwedArrive ==
  ASSUME AllLegible, LineInv, LossTypes, OnlyOneOwed, Arrive
  PROVE  OnlyOneOwed'
<1>1. /\ Spare \in Int
      /\ Spare' = IF result' = "MESSAGE_READY" THEN Spare + 1 ELSE Spare
  BY SpareStep DEF LineNext
<1>2. CASE Spare >= 0
  BY <1>1, <1>2 DEF OnlyOneOwed
<1>3. CASE ~(Spare >= 0)
  <2>1. Spare >= -1 /\ (Synced \/ (Gone = 0 /\ state # "READ_BODY"))
    BY <1>3 DEF OnlyOneOwed
  <2>2. Synced' \/ result' = "MESSAGE_READY"
    BY <2>1, SyncedNext
  <2> QED BY <1>1, <2>1, <2>2 DEF OnlyOneOwed
<1> QED BY <1>2, <1>3

\* Where a length is read after a byte that arrives.
LEMMA LengthPaidArrive ==
  ASSUME AllPlain, LineInv, LossTypes, OnlyOneOwed, LengthPaid, Arrive
  PROVE  LengthPaid'
<1>0. /\ LineOK /\ ParserInv /\ AllLegible /\ line # <<>> /\ sent' = sent
      /\ line' = Tail(line) /\ Consume(Head(line)) /\ state \in State
  BY DEF LineInv, Arrive, Parse, AllPlain, AllLegible, ParserInv, ParserTypeOK
<1>1. Spare \in Int /\ Spare' \in Int /\ Spare' >= Spare /\ Spare >= -1
  <2>1. /\ Spare \in Int
        /\ Spare' = IF result' = "MESSAGE_READY" THEN Spare + 1 ELSE Spare
    BY SpareStep DEF LineNext
  <2> QED BY <2>1 DEF OnlyOneOwed
<1>2. PICK m : m = Sending
  OBVIOUS
<1>3. PICK g : g = Gone
  OBVIOUS
<1>4. /\ m \in Messages /\ m \in Message /\ Legible(m) /\ g \in 0 .. Len(Body(m)) + 7
      /\ Head(line) = Frame(m)[g + 1] /\ Len(Body(m)) \in 5 .. 255
      /\ Head(line) \in Byte /\ Head(line) # Return /\ Len(Frame(m)) = Len(Body(m)) + 8
  BY <1>0, <1>2, <1>3, SendingOne, Zenon DEF Size
<1>5. Gone' = g + 1 /\ Sending' = m
  BY <1>0, <1>2, <1>3, ByteGone, Zenon
<1>6. PICK x : x = Head(line)
  OBVIOUS
<1>7. /\ state' = "READ_LEN_HI" => x = StartChar
      /\ state' = "READ_LEN_LO" =>
           state = "READ_LEN_HI" /\ x \in HexChar /\ length_field' = <<x>>
      /\ state' = "EXPECT_LEN_SEPARATOR" =>
           /\ state = "READ_LEN_LO" /\ x \in HexChar
           /\ length_field' = Append(length_field, x)
           /\ expected_body_length' = HexValue(length_field')
  BY <1>0, <1>4, <1>6, HowEntered, Zenon
<1>8. /\ x = StartChar => g = 0
      /\ x \in HexChar => g # 0
  <2>1. Frame(m)[1] = StartChar /\ 0 + 1 = 1 /\ StartChar \notin HexChar
    BY <1>4, FrameShape, HexCharIsByte
  <2>2. g = 0 \/ g \in 1 .. Len(Body(m)) + 7
    BY <1>4
  <2>3. NoStart(m)
    BY <1>4 DEF AllPlain
  <2> QED BY <1>4, <1>6, <2>1, <2>2, <2>3, StartOnlyFirst, Zenon
<1>9. CASE state' = "READ_LEN_HI"
  <2>1. Gone' = 1
    BY <1>5, <1>7, <1>8, <1>9
  <2>2. Spare' >= 1 - 2
    BY <1>1
  <2> QED BY <1>9, <2>1, <2>2 DEF LengthPaid
<1>10. CASE state' = "READ_LEN_LO"
  <2>1. Spare >= g - 2
    BY <1>3, <1>7, <1>10 DEF LengthPaid
  <2>2. Spare' >= (g + 1) - 3
    BY <1>1, <1>4, <2>1
  <2>3. g + 1 \in 2 .. g + 1
    BY <1>4, <1>7, <1>8, <1>10
  <2>4. length_field' = <<Frame(m)[g + 1]>>
    BY <1>4, <1>6, <1>7, <1>10
  <2> QED BY <1>5, <1>10, <2>2, <2>3, <2>4, Zenon DEF LengthPaid
<1>11. CASE state' = "EXPECT_LEN_SEPARATOR"
  <2>1. /\ Spare >= g - 3
        /\ \/ Spare >= 8
           \/ \E i \in 2 .. g : length_field = <<Frame(m)[i]>>
    BY <1>2, <1>3, <1>7, <1>11, Zenon DEF LengthPaid
  <2>2. Spare' >= (g + 1) - 4
    BY <1>1, <1>4, <2>1
  <2>3. CASE Spare >= 8
    <3>1. Spare' >= 8
      BY <1>1, <2>3
    <3> QED BY <1>5, <1>7, <1>11, <2>2, <3>1, Zenon DEF LengthPaid
  <2>4. ASSUME NEW i \in 2 .. g, length_field = <<Frame(m)[i]>>
        PROVE  LengthPaid'
    <3>1. i \in 2 .. g + 1 /\ g + 1 \in 2 .. g + 1 /\ i < g + 1
          /\ i \in 1 .. Len(Frame(m))
      BY <1>4, <2>4
    <3>2. Frame(m)[i] \in Byte
      BY <1>4, <3>1, NoReturnInFrame
    <3>3. length_field' = <<Frame(m)[i], Frame(m)[g + 1]>>
      BY <1>4, <1>6, <1>7, <1>11, <2>4, <3>2, PairAppended
    <3> QED BY <1>5, <1>7, <1>11, <2>2, <3>1, <3>3, Zenon DEF LengthPaid
  <2> QED BY <2>1, <2>3, <2>4
<1>12. CASE state' \notin {"READ_LEN_HI", "READ_LEN_LO", "EXPECT_LEN_SEPARATOR"}
  BY <1>12 DEF LengthPaid
<1> QED BY <1>9, <1>10, <1>11, <1>12

\* What a body that is read has cost, after a byte that arrives.
LEMMA BodyPaidArrive ==
  ASSUME AllLegible, MaxPayload <= 52, LineInv, LossTypes, OnlyOneOwed, BodyPaid,
         LengthPaid, Arrive
  PROVE  BodyPaid'
<1> SUFFICES ASSUME state' = "READ_BODY"
             PROVE  \/ 13 * Spare' >= Left' - Len(line')
                    \/ Spare' >= -1 /\ Len(line') >= Left' + 4
  BY DEF BodyPaid
<1>0. /\ LineOK /\ ParserInv /\ line # <<>> /\ sent' = sent
      /\ line' = Tail(line) /\ Consume(Head(line)) /\ state \in State
      /\ line \in Seq(Byte) /\ body \in Seq(Byte) /\ length_field \in Seq(HexChar)
      /\ expected_body_length \in 0 .. MaxBodySize
  BY DEF LineInv, LineOK, LineTypes, Arrive, Parse, ParserInv, ParserTypeOK
<1>1. Spare \in Int /\ Spare' \in Int /\ Spare' >= Spare /\ Spare >= -1
  <2>1. /\ Spare \in Int
        /\ Spare' = IF result' = "MESSAGE_READY" THEN Spare + 1 ELSE Spare
    BY SpareStep DEF LineNext
  <2> QED BY <2>1 DEF OnlyOneOwed
<1>2. PICK m : m = Sending
  OBVIOUS
<1>3. PICK x : x = Head(line)
  OBVIOUS
<1>4. /\ m \in Message /\ Legible(m) /\ Gone \in 0 .. Len(Body(m)) + 7
      /\ x = Frame(m)[Gone + 1] /\ Len(Body(m)) \in 5 .. 255
      /\ x \in Byte /\ x # Return /\ Size = Len(Body(m)) + 8 /\ Len(line) \in 1 .. Size
  BY <1>0, <1>2, <1>3, SendingOne, Zenon
<1>5. Len(line') = Len(line) - 1 /\ Len(line) \in Nat
  BY <1>0
<1>6. /\ expected_body_length' = expected_body_length
      /\ \/ state = "EXPECT_LEN_SEPARATOR" /\ x = SeparatorChar /\ body' = body
         \/ state = "READ_BODY" /\ body' = Append(body, x)
  BY <1>0, <1>3, <1>4, HowEntered, Zenon
<1>7. MaxBodySize \in Nat /\ MaxBodySize <= 56
  BY CodecAssumption DEF MaxBodySize, TypeLength
<1>8. Left \in Int
  BY <1>0, <1>7 DEF Left
<1>9. CASE state = "READ_BODY" /\ body' = Append(body, x)
  <2>1. Left' = Left - 1
    BY <1>0, <1>4, <1>6, <1>7, <1>9, Grown DEF Left
  <2>2. \/ 13 * Spare >= Left - Len(line)
        \/ Spare >= -1 /\ Len(line) >= Left + 4
    BY <1>9 DEF BodyPaid
  <2> QED BY <1>1, <1>5, <1>8, <2>1, <2>2
<1>10. CASE state = "EXPECT_LEN_SEPARATOR" /\ x = SeparatorChar /\ body' = body
  <2> DEFINE n == Len(Body(m))  k == Gone + 1  D == expected_body_length
  <2>1. body = <<>>
    BY <1>0, <1>10 DEF ParserInv, FieldsInStep, BeforeBody
  <2>2. Left' = D
    BY <1>0, <1>6, <1>7, <1>10, <2>1 DEF Left
  <2>3. /\ Spare >= Gone - 4 /\ D = HexValue(length_field)
        /\ \/ Spare >= 8
           \/ \E i, j \in 2 .. Gone :
                i < j /\ length_field = <<Frame(m)[i], Frame(m)[j]>>
    BY <1>2, <1>10, Zenon DEF LengthPaid
  <2>4. Gone = n + 8 - Len(line)
    BY <1>4 DEF Gone
  <2>5. n \in Int /\ k \in Int /\ D \in 0 .. 56 /\ Gone \in Int
    BY <1>0, <1>4, <1>7
  <2>6. Len(line') = n + 8 - k
    BY <1>5, <2>4, <2>5
  <2>7. CASE Spare >= 8
    <3> HIDE DEF n, k, D
    <3>1. 13 * Spare' >= D - Len(line')
      BY <1>1, <1>5, <1>4, <2>5, <2>7
    <3> QED BY <2>2, <3>1
  <2>8. ASSUME NEW i \in 2 .. Gone, NEW j \in 2 .. Gone, i < j,
               length_field = <<Frame(m)[i], Frame(m)[j]>>
        PROVE  \/ 13 * Spare' >= D - Len(line')
               \/ Spare' >= -1 /\ Len(line') >= D + 4
    <3>1. Frame(m)[i] \in HexChar /\ Frame(m)[j] \in HexChar
      <4>1. length_field[1] = Frame(m)[i] /\ length_field[2] = Frame(m)[j]
            /\ Len(length_field) = 2
        BY <2>8
      <4>2. 1 \in 1 .. Len(length_field) /\ 2 \in 1 .. Len(length_field)
        BY <4>1
      <4>3. \A l \in 1 .. Len(length_field) : length_field[l] \in HexChar
        BY <1>0
      <4> QED BY <4>1, <4>2, <4>3, Zenon
    <3>2. Frame(m)[k] = SeparatorChar
      BY <1>4, <1>10
    <3>3. /\ k \in 1 .. Len(Frame(m)) /\ i \in 2 .. k - 1 /\ j \in 2 .. k - 1
      <4>1. Len(Frame(m)) = n + 8
        BY <1>2, <1>4 DEF Size
      <4> QED BY <1>4, <2>5, <4>1
    <3>4. D = HexValue(<<Frame(m)[i], Frame(m)[j]>>) /\ D <= MaxBodySize
      BY <1>0, <1>7, <2>3, <2>8
    <3>5. \/ k = 4 /\ D = n
          \/ k >= 8 /\ 13 * (k - 5) >= D - (n + 8 - k)
      BY <1>4, <2>8, <3>1, <3>2, <3>3, <3>4, FalseLength, Zenon
    <3> HIDE DEF n, D
    <3> QED BY <1>1, <1>5, <2>3, <2>5, <2>6, <3>5
  <2> QED BY <2>2, <2>3, <2>7, <2>8
<1> QED BY <1>6, <1>9, <1>10

\* A byte that is lost pays for one step of whatever is going wrong.
LEMMA LossPaysLose ==
  ASSUME AllLegible, LineInv, LossTypes, OnlyOneOwed, BodyPaid, LengthPaid, Lose
  PROVE  OnlyOneOwed' /\ BodyPaid' /\ LengthPaid'
<1>0. /\ LineOK /\ line # <<>> /\ sent' = sent /\ line' = Tail(line)
      /\ line \in Seq(Byte) /\ body \in Seq(Byte)
      /\ expected_body_length \in 0 .. MaxBodySize
      /\ state' = state /\ body' = body /\ length_field' = length_field
      /\ expected_body_length' = expected_body_length
  BY DEF LineInv, LineOK, LineTypes, Lose, ParserInv, ParserTypeOK, pvars, fields
<1>1. Spare \in Int /\ Spare' = Spare + 1 /\ Spare >= -1
  <2>1. Spare \in Int /\ Spare' = Spare + 1
    BY SpareStep DEF LineNext
  <2> QED BY <2>1 DEF OnlyOneOwed
<1>2. PICK m : m = Sending
  OBVIOUS
<1>3. PICK g : g = Gone
  OBVIOUS
<1>4. g \in 0 .. Len(Body(m)) + 7 /\ Len(Body(m)) \in 5 .. 255
  BY <1>0, <1>2, <1>3, SendingOne, Zenon
<1>5. Gone' = g + 1 /\ Sending' = m
  BY <1>0, <1>2, <1>3, ByteGone, Zenon
<1>6. Len(line') = Len(line) - 1 /\ Len(line) \in Nat
  BY <1>0
<1>7. Left' = Left /\ Left \in Int
  BY <1>0, MaxBodyIsNatural DEF Left
<1>8. OnlyOneOwed'
  BY <1>1 DEF OnlyOneOwed
<1>9. BodyPaid'
  <2> SUFFICES ASSUME state = "READ_BODY"
               PROVE  13 * Spare' >= Left' - Len(line')
    BY <1>0 DEF BodyPaid
  <2>1. \/ 13 * Spare >= Left - Len(line)
        \/ Spare >= -1 /\ Len(line) >= Left + 4
    BY DEF BodyPaid
  <2> QED BY <1>1, <1>6, <1>7, <2>1
<1>10. LengthPaid'
  <2>0. 2 .. g \subseteq 2 .. g + 1
    BY <1>4
  <2>1. CASE state = "READ_LEN_HI"
    <3>1. Spare' >= (g + 1) - 2
      BY <1>1, <1>3, <1>4, <2>1 DEF LengthPaid
    <3> QED BY <1>0, <1>5, <2>1, <3>1 DEF LengthPaid
  <2>2. CASE state = "READ_LEN_LO"
    <3>1. /\ Spare >= g - 3
          /\ Spare >= 8 \/ \E i \in 2 .. g : length_field = <<Frame(m)[i]>>
      BY <1>2, <1>3, <2>2, Zenon DEF LengthPaid
    <3>2. Spare' >= (g + 1) - 3 /\ (Spare >= 8 => Spare' >= 8)
      BY <1>1, <1>4, <3>1
    <3>3. Spare' >= 8 \/ \E i \in 2 .. g + 1 : length_field' = <<Frame(m)[i]>>
      BY <1>0, <2>0, <3>1, <3>2, Zenon
    <3> QED BY <1>0, <1>5, <2>2, <3>2, <3>3 DEF LengthPaid
  <2>3. CASE state = "EXPECT_LEN_SEPARATOR"
    <3>1. /\ Spare >= g - 4 /\ expected_body_length = HexValue(length_field)
          /\ \/ Spare >= 8
             \/ \E i, j \in 2 .. g :
                  i < j /\ length_field = <<Frame(m)[i], Frame(m)[j]>>
      BY <1>2, <1>3, <2>3, Zenon DEF LengthPaid
    <3>2. Spare' >= (g + 1) - 4 /\ (Spare >= 8 => Spare' >= 8)
      BY <1>1, <1>4, <3>1
    <3>3. \/ Spare' >= 8
          \/ \E i, j \in 2 .. g + 1 :
               i < j /\ length_field' = <<Frame(m)[i], Frame(m)[j]>>
      BY <1>0, <2>0, <3>1, <3>2, Zenon
    <3>4. expected_body_length' = HexValue(length_field')
      BY <1>0, <3>1, Zenon
    <3> QED BY <1>0, <1>5, <2>3, <3>2, <3>3, <3>4 DEF LengthPaid
  <2>4. CASE state \notin {"READ_LEN_HI", "READ_LEN_LO", "EXPECT_LEN_SEPARATOR"}
    BY <1>0, <2>4 DEF LengthPaid
  <2> QED BY <2>1, <2>2, <2>3, <2>4
<1> QED BY <1>8, <1>9, <1>10

\* A frame that begins owes its message, unless the parser is in the body of
\* another one: that was paid for.
LEMMA LossPaysSend ==
  ASSUME AllLegible, LineInv, LossTypes, LossOK, NEW m \in Messages, SendFrame(m)
  PROVE  OnlyOneOwed' /\ BodyPaid' /\ LengthPaid'
<1>0. /\ LineOK /\ line = <<>> /\ sent' = Append(sent, m) /\ line' = Frame(m)
      /\ sent \in Seq(Messages) /\ body \in Seq(Byte)
      /\ expected_body_length \in 0 .. MaxBodySize
      /\ state' = state /\ body' = body /\ length_field' = length_field
      /\ expected_body_length' = expected_body_length
      /\ state = "READ_BODY" => Len(body) < expected_body_length
  BY DEF LineInv, LineOK, LineTypes, SendFrame, ParserInv, ParserTypeOK, FieldsInStep,
     pvars, fields
<1>1. Spare \in Int /\ Spare' = Spare - 1 /\ Spare >= 0
  <2>1. Spare \in Int /\ Spare' = Spare - 1
    BY SpareStep DEF LineNext
  <2> QED BY <1>0, <2>1 DEF LossOK, OnlyOneOwed, Synced
<1>2. Gone' = 0
  BY NothingGone
<1>3. \A r \in Messages : /\ Len(Frame(r)) \in Nat /\ Len(Frame(r)) >= 13
  <2> TAKE r \in Messages
  <2>1. r \in Message /\ Legible(r)
    BY LineAssumption DEF AllLegible, Message
  <2>2. Len(Frame(r)) = Len(Body(r)) + 8
    BY <2>1, FrameShape, Zenon
  <2>3. Len(Body(r)) \in 5 .. 255
    BY <2>1, BodyFits, Zenon
  <2>4. \A n \in 5 .. 255 : n + 8 \in Nat /\ n + 8 >= 13
    OBVIOUS
  <2> QED BY <2>2, <2>3, <2>4, Zenon
<1>4. Len(line') \in Nat /\ Len(line') >= 13 /\ line' # <<>>
  <2>1. Len(line') \in Nat /\ Len(line') >= 13
    BY <1>0, <1>3
  <2>2. line' # <<>>
    <3>1. Len(<<>>) = 0
      OBVIOUS
    <3> QED BY <2>1, <3>1
  <2> QED BY <2>1, <2>2
<1>5. Left' = Left /\ Left \in Int /\ (state = "READ_BODY" => Left >= 1)
  BY <1>0, MaxBodyIsNatural DEF Left
<1>6. state = "READ_BODY" => 13 * Spare >= Left
  <2> SUFFICES ASSUME state = "READ_BODY" PROVE 13 * Spare >= Left
    OBVIOUS
  <2>1. \/ 13 * Spare >= Left - Len(line)
        \/ Spare >= -1 /\ Len(line) >= Left + 4
    BY DEF LossOK, BodyPaid
  <2>2. Len(line) = 0
    BY <1>0
  <2> QED BY <1>1, <1>5, <2>1, <2>2
<1>7. BodyPaid'
  <2> SUFFICES ASSUME state = "READ_BODY"
               PROVE  13 * Spare' >= Left' - Len(line')
    BY <1>0 DEF BodyPaid
  <2> QED BY <1>1, <1>4, <1>5, <1>6
<1>8. OnlyOneOwed'
  <2>1. CASE state = "READ_BODY"
    <3>1. Spare' >= 0
      BY <1>1, <1>5, <1>6, <2>1
    <3> QED BY <3>1 DEF OnlyOneOwed
  <2>2. CASE state # "READ_BODY"
    <3>1. Spare' >= -1
      BY <1>1
    <3> QED BY <1>0, <1>2, <1>4, <2>2, <3>1 DEF OnlyOneOwed
  <2> QED BY <2>1, <2>2
<1>9. LengthPaid'
  <2>1. CASE state \notin {"READ_LEN_HI", "READ_LEN_LO", "EXPECT_LEN_SEPARATOR"}
    BY <1>0, <2>1 DEF LengthPaid
  <2>2. CASE state \in {"READ_LEN_HI", "READ_LEN_LO", "EXPECT_LEN_SEPARATOR"}
    <3>1. Sending \in Messages
      <4>1. sent # <<>>
        BY <2>2 DEF LossOK
      <4>2. Len(sent) \in 1 .. Len(sent)
        BY <1>0, <4>1
      <4> QED BY <1>0, <4>2 DEF Sending, Last
    <3>2. Gone = Size /\ Size \in Nat /\ Size >= 13
      <4>1. Size \in Nat /\ Size >= 13
        BY <1>3, <3>1 DEF Size
      <4>2. Len(line) = 0
        BY <1>0
      <4> QED BY <4>1, <4>2 DEF Gone
    <3>3. Spare >= Gone - 4
      BY <1>1, <2>2, <3>2 DEF LossOK, LengthPaid
    <3>4. /\ state = "READ_LEN_LO" => Spare >= Gone - 3
          /\ state = "EXPECT_LEN_SEPARATOR" => expected_body_length = HexValue(length_field)
      BY DEF LossOK, LengthPaid
    <3>5. Spare' >= 8
      BY <1>1, <3>2, <3>3
    <3>6. Spare' >= 0 - 2 /\ Spare' >= 0 - 3 /\ Spare' >= 0 - 4
      BY <1>1
    <3>7. state' = "EXPECT_LEN_SEPARATOR" => expected_body_length' = HexValue(length_field')
      BY <1>0, <3>4, Zenon
    <3> QED BY <1>2, <2>2, <3>5, <3>6, <3>7 DEF LengthPaid
  <2> QED BY <2>1, <2>2
<1> QED BY <1>7, <1>8, <1>9

LEMMA LossInvStep ==
  ASSUME AllPlain, MaxPayload <= 52, LineInv, LossInv, [LineNext]_lvars
  PROVE  LossInv'
<1>0. AllLegible /\ LineOK /\ LossTypes
  BY DEF AllPlain, AllLegible, LineInv, LossInv
<1>1. LossTypes'
  BY <1>0, SpareStep
<1>2. ASSUME NEW m \in Messages, SendFrame(m), garbled' = 0
      PROVE  LossOK'
  <2>1. garbled = 0 /\ sent' = Append(sent, m) /\ sent \in Seq(Messages)
    BY <1>0, <1>2 DEF SendFrame, LineOK, LineTypes
  <2>2. LossOK
    BY <2>1 DEF LossInv
  <2>3. sent' # <<>>
    <3>1. Len(sent') = Len(sent) + 1 /\ Len(sent) \in Nat /\ Len(<<>>) = 0
      BY <2>1, AppendProperties
    <3> QED BY <3>1
  <2> QED BY <1>0, <1>2, <2>2, <2>3, LossPaysSend DEF LossOK
<1>3. ASSUME Arrive, garbled' = 0
      PROVE  LossOK'
  <2>1. garbled = 0 /\ sent' = sent /\ line # <<>>
    BY <1>3 DEF Arrive
  <2>2. LossOK /\ sent' # <<>>
    BY <1>0, <2>1 DEF LossInv, LineOK, RestOfFrame
  <2>3. OnlyOneOwed'
    BY <1>0, <1>3, <2>2, OnlyOneOwedArrive DEF LossOK
  <2>4. LengthPaid'
    BY <1>0, <1>3, <2>2, LengthPaidArrive DEF LossOK
  <2>5. BodyPaid'
    BY <1>0, <1>3, <2>2, BodyPaidArrive DEF LossOK
  <2> QED BY <2>2, <2>3, <2>4, <2>5 DEF LossOK
<1>4. ASSUME NEW x \in NoiseBytes, Garble(x)
      PROVE  garbled' # 0
  <2>1. garbled' = garbled + 1 /\ garbled \in Nat
    BY <1>0, <1>4 DEF Garble, LossTypes
  <2> QED BY <2>1
<1>5. ASSUME Lose, garbled' = 0
      PROVE  LossOK'
  <2>1. garbled = 0 /\ sent' = sent /\ line # <<>>
    BY <1>5 DEF Lose
  <2>2. LossOK /\ sent' # <<>>
    BY <1>0, <2>1 DEF LossInv, LineOK, RestOfFrame
  <2> QED BY <1>0, <1>5, <2>2, LossPaysLose DEF LossOK
<1>6. ASSUME UNCHANGED lvars, garbled' = 0
      PROVE  LossOK'
  <2>1. /\ UNCHANGED <<line, sent, got, lost, garbled>>
        /\ UNCHANGED <<state, length_field, expected_body_length, body>>
    BY <1>6 DEF lvars, pvars, fields
  <2>2. Gone' = Gone /\ OnFrame' = OnFrame /\ hit' = hit
    BY <1>6, OnFrameUnchanged
  <2>3. Spare' = Spare /\ Left' = Left /\ Sending' = Sending
    BY <2>1 DEF Spare, Left, Sending
  <2>4. LossOK
    BY <1>6, <2>1 DEF LossInv
  <2>5. OnlyOneOwed'
    BY <2>1, <2>2, <2>3, <2>4, Zenon DEF LossOK, OnlyOneOwed, Synced
  <2>6. BodyPaid'
    BY <2>1, <2>3, <2>4, Zenon DEF LossOK, BodyPaid
  <2>7. LengthPaid'
    BY <2>1, <2>2, <2>3, <2>4, Zenon DEF LossOK, LengthPaid
  <2> QED BY <2>1, <2>4, <2>5, <2>6, <2>7 DEF LossOK
<1>7. garbled' = 0 => LossOK'
  BY <1>2, <1>3, <1>4, <1>5, <1>6 DEF LineNext, Quiescent
<1> QED BY <1>1, <1>7 DEF LossInv

\* For payloads of up to 52 bytes - the firmware's have 48 - none of them with a
\* start in it, and any number of bytes lost: none of them costs more than a
\* message.  A wrong length that swallows several frames is only read from a
\* frame most of which is lost, and each lost byte pays for 13 bytes, which is
\* the shortest frame.  Longer bodies are not paid for that way: with payloads
\* of 90 bytes it is false.
THEOREM LostBytesCostOne ==
  ASSUME MaxPayload <= 52, \A m \in Messages : Legible(m) /\ NoStart(m)
  PROVE  LineSpec => []LossCostsOneMessage
<1>0. AllPlain /\ AllLegible
  BY DEF AllPlain, AllLegible
<1>1. LineInit => LineInv /\ LossInv
  <2> SUFFICES ASSUME LineInit PROVE LossInv
    BY LineInvInit
  <2>1. /\ state = "WAIT_START" /\ sent = <<>> /\ got = <<>> /\ lost = 0 /\ garbled = 0
    BY DEF LineInit, PInit
  <2>2. Spare = 0
    BY <2>1 DEF Spare
  <2>3. LossTypes
    <3>1. got \in Seq({})
      BY <2>1
    <3> QED BY <2>1, <3>1 DEF LossTypes
  <2>4. LossOK
    BY <2>1, <2>2 DEF LossOK, OnlyOneOwed, BodyPaid, LengthPaid
  <2> QED BY <2>3, <2>4 DEF LossInv
<1>2. LineInv /\ LossInv /\ [LineNext]_lvars => (LineInv /\ LossInv)'
  BY <1>0, LineInvStep, LossInvStep
<1>3. LineInv /\ LossInv => LossCostsOneMessage
  <2> SUFFICES ASSUME LineInv, LossInv, line = <<>>, garbled = 0
               PROVE  Len(sent) - Len(got) <= lost
    BY DEF LossCostsOneMessage
  <2>1. Spare >= 0
    BY DEF LossInv, LossOK, OnlyOneOwed, Synced
  <2>2. PICK S : got \in Seq(S)
    BY DEF LossInv, LossTypes
  <2>3. lost \in Nat /\ Len(got) \in Nat /\ Len(sent) \in Nat
    BY <2>2 DEF LossInv, LossTypes, LineInv, LineOK, LineTypes
  <2> QED BY <2>1, <2>3 DEF Spare
<1> QED BY <1>1, <1>2, <1>3, PTL DEF LineSpec

-----------------------------------------------------------------------------
(* Nothing is forged *)

\* The payload has no character that ends a frame.
NoEnd(m) == \A i \in 1 .. Len(m.payload) : m.payload[i] # EndChar

AllPure == \A m \in Messages : Legible(m) /\ NoStart(m) /\ NoEnd(m)

\* Then only the last byte of its frame is one.
LEMMA EndOnlyLast ==
  ASSUME NEW m \in Message, Legible(m), NoEnd(m), NEW p \in 1 .. Len(Body(m)) + 6
  PROVE  Frame(m)[p + 1] # EndChar
<1> DEFINE b == Body(m)  n == Len(b)  h == LengthDigits(m)  c == CheckDigits(m)
           x == Frame(m)[p + 1]
<1>0. n \in 5 .. 255 /\ p \in 1 .. n + 6 /\ p \in 1 .. n + 7
  BY BodyFits
<1>1. /\ p = 1 => x = h[1]
      /\ p = 2 => x = h[2]
      /\ p = 3 => x = SeparatorChar
      /\ p \in 4 .. n + 3 => x = b[p - 3]
      /\ p = n + 4 => x = SeparatorChar
      /\ p = n + 5 => x = c[1]
      /\ p = n + 6 => x = c[2]
  BY <1>0, ByteOfFrame, Zenon
<1>2. /\ h[1] \in HexChar /\ h[2] \in HexChar /\ c[1] \in HexChar /\ c[2] \in HexChar
  BY FrameDigits, Zenon
<1>3. (\A y \in HexChar : y # EndChar) /\ SeparatorChar # EndChar
  BY HexCharIsByte DEF SeparatorChar, EndChar
<1>4. \A i \in 1 .. n : b[i] # EndChar
  <2>1. /\ n = Len(m.payload) + 4 /\ Len(m.payload) \in Nat
        /\ \A i \in 1 .. 3 : b[i] = TypeText[m.type][i]
        /\ b[4] = SeparatorChar
        /\ \A i \in 1 .. Len(m.payload) : b[4 + i] = m.payload[i]
    BY BodyShape
  <2>2. \A i \in 1 .. 3 : TypeText[m.type][i] \in Letter
    BY TypeNames DEF Message
  <2>3. \A y \in Letter : y # EndChar
    BY DEF Letter, EndChar
  <2>4. \A i \in 1 .. 3 : b[i] # EndChar
    BY <2>1, <2>2, <2>3, Zenon
  <2> TAKE i \in 1 .. n
  <2>5. CASE i > 4
    <3>1. i - 4 \in 1 .. Len(m.payload) /\ 4 + (i - 4) = i
      BY <1>0, <2>1, <2>5
    <3>2. b[4 + (i - 4)] = m.payload[i - 4]
      BY <2>1, <3>1, Zenon
    <3>3. m.payload[i - 4] # EndChar
      BY <3>1 DEF NoEnd
    <3> QED BY <3>1, <3>2, <3>3
  <2>6. i > 4 \/ i \in 1 .. 3 \/ i = 4
    BY <1>0
  <2> QED BY <1>3, <2>1, <2>4, <2>5, <2>6, Zenon
<1> HIDE DEF b, n, h, c, x
<1>5. CASE p \in 4 .. n + 3
  <2>1. p - 3 \in 1 .. n
    BY <1>0, <1>5
  <2> QED BY <1>1, <1>4, <1>5, <2>1, Zenon DEF x
<1>6. \/ p = 1 \/ p = 2 \/ p = 3 \/ p \in 4 .. n + 3
      \/ p = n + 4 \/ p = n + 5 \/ p = n + 6
  BY <1>0
<1> QED BY <1>1, <1>2, <1>3, <1>5, <1>6, Zenon DEF x

\* g is a subsequence of the first k elements of s.
Sub(g, s, k) ==
  \E f \in [1 .. Len(g) -> 1 .. k] :
    /\ \A i \in 1 .. Len(g) : g[i] = s[f[i]]
    /\ \A i, j \in 1 .. Len(g) : i < j => f[i] < f[j]

\* The empty sequence is a subsequence, and what grows behind k elements, or by the
\* next element on both sides, remains one.
LEMMA SubOfNone ==
  ASSUME NEW s, NEW k
  PROVE  Sub(<<>>, s, k)
<1> DEFINE f == [i \in 1 .. Len(<<>>) |-> 1]
<1>1. 1 .. Len(<<>>) = {}
  OBVIOUS
<1>2. f \in [1 .. Len(<<>>) -> 1 .. k]
  BY <1>1
<1> QED BY <1>1, <1>2 DEF Sub

LEMMA SubOfMore ==
  ASSUME NEW g, NEW s, NEW k \in Nat, Sub(g, s, k)
  PROVE  Sub(g, s, k + 1)
<1>1. PICK f \in [1 .. Len(g) -> 1 .. k] :
        /\ \A i \in 1 .. Len(g) : g[i] = s[f[i]]
        /\ \A i, j \in 1 .. Len(g) : i < j => f[i] < f[j]
  BY Zenon DEF Sub
<1>2. f \in [1 .. Len(g) -> 1 .. k + 1]
  <2>1. 1 .. k \subseteq 1 .. k + 1
    OBVIOUS
  <2> QED BY <1>1, <2>1
<1> QED BY <1>1, <1>2, Zenon DEF Sub

LEMMA SubOfLonger ==
  ASSUME NEW S, NEW g, NEW s \in Seq(S), NEW k \in 0 .. Len(s), NEW e \in S, Sub(g, s, k)
  PROVE  Sub(g, Append(s, e), k)
<1>1. PICK f \in [1 .. Len(g) -> 1 .. k] :
        /\ \A i \in 1 .. Len(g) : g[i] = s[f[i]]
        /\ \A i, j \in 1 .. Len(g) : i < j => f[i] < f[j]
  BY Zenon DEF Sub
<1>2. \A j \in 1 .. Len(s) : Append(s, e)[j] = s[j]
  BY AppendProperties
<1>3. \A i \in 1 .. Len(g) : f[i] \in 1 .. Len(s)
  <2>1. 1 .. k \subseteq 1 .. Len(s)
    OBVIOUS
  <2> QED BY <1>1, <2>1
<1>4. \A i \in 1 .. Len(g) : g[i] = Append(s, e)[f[i]]
  BY <1>1, <1>2, <1>3, Zenon
<1> QED BY <1>1, <1>4, Zenon DEF Sub

LEMMA SubAndOne ==
  ASSUME NEW S, NEW g \in Seq(S), NEW s, NEW k \in Nat, NEW e \in S, e = s[k + 1],
         Sub(g, s, k)
  PROVE  Sub(Append(g, e), s, k + 1)
<1>1. PICK f \in [1 .. Len(g) -> 1 .. k] :
        /\ \A i \in 1 .. Len(g) : g[i] = s[f[i]]
        /\ \A i, j \in 1 .. Len(g) : i < j => f[i] < f[j]
  BY Zenon DEF Sub
<1> DEFINE l == Len(g)  a == Append(g, e)
           F == [i \in 1 .. l + 1 |-> IF i = l + 1 THEN k + 1 ELSE f[i]]
<1>2. /\ l \in Nat /\ Len(a) = l + 1 /\ a[l + 1] = e
      /\ \A i \in 1 .. l : a[i] = g[i]
  BY AppendProperties
<1>3. \A i \in 1 .. l : f[i] \in 1 .. k
  BY <1>1
<1>4. \A i \in 1 .. l : F[i] = f[i] /\ F[i] \in 1 .. k
  BY <1>2, <1>3
<1>5. F[l + 1] = k + 1
  BY <1>2
<1>6. \A i \in 1 .. l + 1 : i \in 1 .. l \/ i = l + 1
  BY <1>2
<1>7. F \in [1 .. l + 1 -> 1 .. k + 1]
  <2>1. \A i \in 1 .. l + 1 : F[i] \in 1 .. k + 1
    BY <1>4, <1>5, <1>6
  <2>2. F = [i \in 1 .. l + 1 |-> F[i]]
    OBVIOUS
  <2> HIDE DEF F
  <2> QED BY <2>1, <2>2
<1> HIDE DEF l, a, F
<1>8. \A i \in 1 .. l + 1 : a[i] = s[F[i]]
  BY <1>1, <1>2, <1>4, <1>5, <1>6, Zenon DEF l
<1>9. ASSUME NEW i \in 1 .. l + 1, NEW j \in 1 .. l + 1, i < j
      PROVE  F[i] < F[j]
  <2>1. i \in 1 .. l
    BY <1>2, <1>9
  <2>2. CASE j \in 1 .. l
    BY <1>1, <1>4, <1>9, <2>1, <2>2 DEF l
  <2>3. CASE j = l + 1
    BY <1>4, <1>5, <2>1, <2>3
  <2> QED BY <1>6, <2>2, <2>3
<1>10. Sub(a, s, k + 1)
  BY <1>2, <1>7, <1>8, <1>9, Zenon DEF Sub
<1> QED BY <1>10 DEF a

\* Up to k messages sent, all that was delivered was sent, in this order.
Told(k) == Sub(got, sent, k)

\* A parser that has lost the end of the frame of m, when k messages were sent
\* before, has not delivered it and still may.
Late(m, k) == InFrame(m, Len(Body(m)) + 7) /\ Told(k)
Ready == {"WAIT_START", "READ_LEN_HI"}

\* A frame that is being sent is only delivered at its end, when the parser is
\* within it, and what comes in between is delivered at most once.
BetweenFrames ==
  line = <<>> /\ sent # <<>> => state \in Ready \/ Late(Sending, Len(sent) - 1)
FrameBegins ==
  line # <<>> /\ Gone = 0 =>
    /\ Told(Len(sent) - 1)
    /\ \/ state \in Ready
       \/ Len(sent) >= 2 /\ Late(sent[Len(sent) - 1], Len(sent) - 2)
WithinFrame ==
  line # <<>> /\ Gone >= 1 =>
    \/ InFrame(Sending, Gone) /\ Told(Len(sent) - 1)
    \/ Adrift(Sending, Gone) /\ hit
ForgeInv ==
  /\ got \in Seq(Messages) /\ Told(Len(sent))
  /\ sent = <<>> => state = "WAIT_START"
  /\ BetweenFrames /\ FrameBegins /\ WithinFrame

\* What is known of a byte of the frame that is being sent.
LEMMA ByteSent ==
  ASSUME AllPure, LineInv, ForgeInv, line # <<>>
  PROVE  /\ Sending \in Messages /\ Sending \in Message /\ Legible(Sending)
         /\ NoStart(Sending) /\ NoEnd(Sending)
         /\ sent \in Seq(Messages) /\ sent # <<>> /\ Len(sent) \in Nat \ {0}
         /\ Sending = sent[Len(sent)]
         /\ Len(Body(Sending)) \in 5 .. 255 /\ Gone \in 0 .. Len(Body(Sending)) + 7
         /\ Head(line) = Frame(Sending)[Gone + 1] /\ Head(line) \in Byte
         /\ Tail(line) = <<>> <=> Gone = Len(Body(Sending)) + 7
<1>1. AllLegible /\ LineOK
  BY DEF AllPure, AllLegible, LineInv
<1>2. sent \in Seq(Messages) /\ sent # <<>>
  BY <1>1 DEF LineOK, LineTypes, RestOfFrame
<1>3. Len(sent) \in Nat \ {0}
  BY <1>2
<1>4. Sending \in Messages
  BY <1>1, SendingOne, Zenon
<1> QED BY <1>1, <1>2, <1>3, <1>4, SendingOne, Zenon DEF AllPure, Sending, Last

\* After a byte of a frame, its end included.
LEMMA ForgeLater ==
  ASSUME AllPure, LineInv, ForgeInv, line # <<>>,
         NEW m, m = Sending, NEW p \in Nat, p = Gone,
         line' = Tail(line), sent' = sent, got' \in Seq(Messages),
         Sub(got', sent, Len(sent)),
         p = Len(Body(m)) + 7 =>
           \/ state' \in Ready
           \/ InFrame(m, Len(Body(m)) + 7)' /\ Sub(got', sent, Len(sent) - 1),
         p # Len(Body(m)) + 7 =>
           \/ InFrame(m, p + 1)' /\ Sub(got', sent, Len(sent) - 1)
           \/ Adrift(m, p + 1)' /\ hit'
  PROVE  ForgeInv'
<1>0. AllLegible /\ LineOK
  BY DEF AllPure, AllLegible, LineInv
<1>1. Sending' = m /\ Gone' = p + 1
  BY <1>0, ByteGone, Zenon
<1>2. sent # <<>> /\ (line' = <<>> <=> p = Len(Body(m)) + 7)
  BY ByteSent, Zenon
<1>3. Told(Len(sent))'
  BY DEF Told
<1>4. Sub(got', sent, Len(sent) - 1) => Told(Len(sent) - 1)'
  BY DEF Told
<1>5. BetweenFrames'
  <2> SUFFICES ASSUME line' = <<>>, state' \notin Ready
               PROVE  Late(Sending, Len(sent) - 1)'
    BY Zenon DEF BetweenFrames
  <2>1. InFrame(m, Len(Body(m)) + 7)' /\ Told(Len(sent) - 1)'
    BY <1>2, <1>4, Zenon
  <2>2. Late(m, Len(sent) - 1)'
    BY <2>1, Zenon DEF Late
  <2> QED BY <1>1, <2>2 DEF Late, InFrame, InHead, InBody, InTail
<1>6. Gone' # 0 /\ FrameBegins'
  <2>1. p + 1 # 0
    OBVIOUS
  <2> QED BY <1>1, <2>1 DEF FrameBegins
<1>7. WithinFrame'
  <2> SUFFICES ASSUME line' # <<>>
               PROVE  \/ InFrame(Sending, Gone)' /\ Told(Len(sent) - 1)'
                      \/ Adrift(Sending, Gone)' /\ hit'
    BY Zenon DEF WithinFrame
  <2>1. InFrame(m, p + 1)' => InFrame(Sending, Gone)'
    BY <1>1, OnFrameLater, Zenon DEF OnFrame
  <2>2. Adrift(m, p + 1)' => Adrift(Sending, Gone)'
    BY <1>1, Zenon
  <2> QED BY <1>2, <1>4, <2>1, <2>2, Zenon
<1> QED BY <1>2, <1>3, <1>5, <1>6, <1>7 DEF ForgeInv

\* Before a frame begins the parser is at the start of one, or waits for the end
\* of the one before.
LEMMA AtBegin ==
  ASSUME AllPure, LineInv, ForgeInv, line # <<>>, Gone = 0
  PROVE  /\ state \in Between
         /\ state \notin Ready =>
              \E q \in Messages :
                /\ Len(sent) >= 2 /\ q = sent[Len(sent) - 1]
                /\ InFrame(q, Len(Body(q)) + 7) /\ Sub(got, sent, Len(sent) - 2)
<1>1. sent \in Seq(Messages)
  BY ByteSent, Zenon
<1>2. ASSUME state \notin Ready
      PROVE  \E q \in Messages :
                /\ Len(sent) >= 2 /\ q = sent[Len(sent) - 1]
                /\ InFrame(q, Len(Body(q)) + 7) /\ Sub(got, sent, Len(sent) - 2)
  <2>1. Len(sent) >= 2 /\ Late(sent[Len(sent) - 1], Len(sent) - 2)
    BY <1>2, Zenon DEF ForgeInv, FrameBegins
  <2>2. Len(sent) - 1 \in 1 .. Len(sent)
    BY <1>1, <2>1
  <2>3. sent[Len(sent) - 1] \in Messages
    BY <1>1, <2>2, ElementOfSeq, Zenon
  <2> QED BY <2>1, <2>3, Zenon DEF Late, Told
<1>3. state \in Between
  <2>1. CASE state \in Ready
    BY <2>1 DEF Ready, Between
  <2>2. CASE state \notin Ready
    <3>1. PICK q \in Messages : InFrame(q, Len(Body(q)) + 7)
      BY <1>2, <2>2, Zenon
    <3>2. q \in Message /\ Legible(q)
      BY LineAssumption DEF AllPure, Message
    <3>3. state = "EXPECT_END"
      BY <3>1, <3>2, EndAwaited, Zenon
    <3> QED BY <3>3 DEF Between
  <2> QED BY <2>1, <2>2
<1> QED BY <1>2, <1>3, Zenon

\* What comes in the place of the start of a frame completes the message before
\* it, or none.
LEMMA LateDelivered ==
  ASSUME AllPure, LineInv, ForgeInv, line # <<>>, Gone = 0, NEW x, Consume(x),
         got' = IF result' = "MESSAGE_READY" THEN Append(got, message') ELSE got
  PROVE  got' \in Seq(Messages) /\ Sub(got', sent, Len(sent) - 1)
<1>1. sent \in Seq(Messages) /\ Len(sent) \in Nat \ {0} /\ got \in Seq(Messages)
      /\ Sub(got, sent, Len(sent) - 1)
  BY ByteSent, Zenon DEF ForgeInv, FrameBegins, Told
<1>2. CASE result' # "MESSAGE_READY"
  BY <1>1, <1>2
<1>3. CASE result' = "MESSAGE_READY"
  <2>1. state = "EXPECT_END" /\ x = EndChar
    BY <1>3, OnlyEndDelivers, Zenon
  <2>2. state \notin Ready
    BY <2>1 DEF Ready
  <2>3. PICK q \in Messages :
          /\ Len(sent) >= 2 /\ q = sent[Len(sent) - 1]
          /\ InFrame(q, Len(Body(q)) + 7) /\ Sub(got, sent, Len(sent) - 2)
    BY <2>2, AtBegin, Zenon
  <2>4. q \in Message /\ Legible(q) /\ ParserInv
    BY LineAssumption DEF AllPure, Message, LineInv
  <2>5. message' = q
    BY <2>1, <2>3, <2>4, EndOfFrame, Zenon
  <2>6. got' = Append(got, q)
    BY <1>3, <2>5, Zenon
  <2>7. Len(sent) - 2 \in Nat /\ (Len(sent) - 2) + 1 = Len(sent) - 1
    BY <1>1, <2>3
  <2>8. Sub(Append(got, q), sent, (Len(sent) - 2) + 1)
    <3>1. q = sent[(Len(sent) - 2) + 1]
      BY <2>3, <2>7
    <3> QED BY <1>1, <2>3, <2>7, <3>1, SubAndOne, Zenon
  <2>9. Append(got, q) \in Seq(Messages)
    BY <1>1, AppendProperties
  <2> QED BY <2>6, <2>7, <2>8, <2>9
<1> QED BY <1>2, <1>3

\* A byte that comes in as it was sent.
LEMMA ForgeArrive ==
  ASSUME AllPure, LineInv, ForgeInv, Arrive
  PROVE  ForgeInv'
<1>1. PICK m : m = Sending
  OBVIOUS
<1>2. PICK p : p = Gone
  OBVIOUS
<1>3. PICK x : x = Head(line)
  OBVIOUS
<1> DEFINE n == Len(Body(m))  k == Len(sent)
<1>4. /\ line # <<>> /\ line' = Tail(line) /\ sent' = sent /\ hit' = hit /\ Consume(x)
      /\ got' = IF result' = "MESSAGE_READY" THEN Append(got, message') ELSE got
  BY <1>3, Zenon DEF Arrive, Parse
<1>5. /\ m \in Messages /\ m \in Message /\ Legible(m) /\ NoStart(m) /\ NoEnd(m)
      /\ k \in Nat \ {0} /\ m = sent[k] /\ n \in 5 .. 255 /\ p \in 0 .. n + 7
      /\ x = Frame(m)[p + 1] /\ x \in Byte
  BY <1>1, <1>2, <1>3, <1>4, ByteSent, Zenon
<1>6. got \in Seq(Messages) /\ Sub(got, sent, k) /\ ParserInv /\ p \in Nat
  BY <1>5 DEF ForgeInv, Told, LineInv
<1>7. k - 1 \in Nat /\ (k - 1) + 1 = k
  BY <1>5
<1>8. CASE p = 0
  <2>1. state \in Between /\ got' \in Seq(Messages) /\ Sub(got', sent, k - 1)
    BY <1>2, <1>4, <1>8, AtBegin, LateDelivered, Zenon
  <2>2. Sub(got', sent, k)
    BY <1>7, <2>1, SubOfMore
  <2>3. InFrame(m, 1)'
    <3>1. x = StartChar
      <4>1. 0 + 1 = 1
        OBVIOUS
      <4> QED BY <1>5, <1>8, <4>1, FrameShape, Zenon
    <3>2. state \in State /\ state # "READ_BODY"
      BY <2>1 DEF Between, State
    <3> QED BY <1>4, <1>5, <3>1, <3>2, StartFound, Zenon
  <2>4. p # n + 7 /\ InFrame(m, p + 1)'
    <3>1. p # n + 7 /\ p + 1 = 1
      BY <1>5, <1>8
    <3> QED BY <2>3, <3>1
  <2> QED BY <1>1, <1>2, <1>4, <1>6, <2>1, <2>2, <2>4, ForgeLater, Zenon
<1>9. CASE p # 0 /\ InFrame(m, p) /\ Told(k - 1) /\ p # n + 7
  <2>1. p \in 1 .. n + 6
    <3>1. p \in 0 .. n + 7 /\ n \in 5 .. 255
      BY <1>5
    <3> HIDE DEF n
    <3> QED BY <1>9, <3>1
  <2>2. InFrame(m, p + 1)'
    BY <1>4, <1>5, <1>6, <1>9, <2>1, NextOfFrame, Zenon
  <2>3. got' = got
    <3>1. x # EndChar
      BY <1>5, <2>1, EndOnlyLast, Zenon
    <3> QED BY <1>4, <3>1, OnlyEndDelivers, Zenon
  <2>4. Sub(got', sent, k - 1) /\ Sub(got', sent, k) /\ got' \in Seq(Messages)
    BY <1>6, <1>9, <2>3, Zenon DEF Told
  <2> QED BY <1>1, <1>2, <1>4, <1>6, <1>9, <2>2, <2>4, ForgeLater, Zenon
<1>10. CASE p # 0 /\ InFrame(m, p) /\ Told(k - 1) /\ p = n + 7
  <2>1. x = EndChar
    <3>1. p \in 1 .. n + 7
      BY <1>5, <1>10
    <3> QED BY <1>5, <1>10, <3>1, ByteOfFrame, Zenon
  <2>2. state' = "WAIT_START" /\ got' = Append(got, m)
    BY <1>4, <1>5, <1>6, <1>10, <2>1, EndOfFrame, Zenon
  <2>3. state' \in Ready
    BY <2>2 DEF Ready
  <2>4. got' \in Seq(Messages)
    BY <1>5, <1>6, <2>2, AppendProperties
  <2>5. Sub(got', sent, k)
    <3>1. m = sent[(k - 1) + 1] /\ Sub(got, sent, k - 1)
      BY <1>5, <1>7, <1>10 DEF Told
    <3>2. Sub(Append(got, m), sent, (k - 1) + 1)
      <4> HIDE DEF k
      <4> QED BY <1>5, <1>6, <1>7, <3>1, SubAndOne, Zenon
    <3> QED BY <1>7, <2>2, <3>2
  <2> QED BY <1>1, <1>2, <1>4, <1>6, <1>10, <2>3, <2>4, <2>5, ForgeLater, Zenon
<1>11. CASE p # 0 /\ Adrift(m, p) /\ hit
  <2>1. p \in 1 .. n + 7
    BY <1>5, <1>11
  <2>2. x # StartChar /\ (p # n + 7 => x # EndChar)
    <3>1. x # StartChar
      BY <1>5, <2>1, StartOnlyFirst, Zenon
    <3>2. p # n + 7 => p \in 1 .. n + 6
      <4>1. n \in 5 .. 255
        BY <1>5
      <4>2. p \in 1 .. n + 7
        BY <2>1
      <4> HIDE DEF n
      <4> QED BY <4>1, <4>2
    <3> QED BY <1>5, <3>1, <3>2, EndOnlyLast, Zenon
  <2>3. /\ result' # "MESSAGE_READY"
        /\ state' = "WAIT_START" \/ (p <= n + 6 /\ Adrift(m, p + 1)')
    BY <1>4, <1>5, <1>6, <1>11, <2>1, <2>2, AdriftNext, Zenon
  <2>4. Adrift(m, p + 1)'
    BY <2>3, Zenon DEF Adrift
  <2>5. p = n + 7 => state' \in Ready
    <3>1. p = n + 7 => ~(p <= n + 6)
      BY <1>5
    <3> QED BY <2>3, <3>1 DEF Ready
  <2>6. got' = got
    BY <1>4, <2>3, Zenon
  <2>7. got' \in Seq(Messages) /\ Sub(got', sent, k) /\ hit'
    BY <1>4, <1>6, <1>11, <2>6
  <2> QED BY <1>1, <1>2, <1>4, <1>6, <2>4, <2>5, <2>7, ForgeLater, Zenon
<1>12. p # 0 => (InFrame(m, p) /\ Told(k - 1)) \/ (Adrift(m, p) /\ hit)
  <2> SUFFICES ASSUME p # 0
               PROVE  (InFrame(m, p) /\ Told(k - 1)) \/ (Adrift(m, p) /\ hit)
    OBVIOUS
  <2>1. Gone >= 1
    BY <1>2, <1>5
  <2> QED BY <1>1, <1>2, <1>4, <2>1, Zenon DEF ForgeInv, WithinFrame
<1> QED BY <1>8, <1>9, <1>10, <1>11, <1>12

\* A digit of the length that is read as another one, so that more is declared.
Declared(b) == IF Gone = 1 THEN HexValue(<<b, Frame(Sending)[3]>>)
                           ELSE HexValue(<<Frame(Sending)[2], b>>)
Stretches(b) == /\ Gone \in {1, 2} /\ b \in HexChar
                /\ LengthFits(Declared(b)) /\ Declared(b) > Len(Body(Sending))

\* A byte of the body that is read as a NUL, which ends the copy that the
\* checksum is computed over.
Truncates(b) == b = Nul /\ Gone \in 4 .. Len(Body(Sending)) + 3

\* A frame has one fault at most, and it is none of these.
Fault == Lose \/ \E b \in NoiseBytes : Garble(b)
MildFault == \/ Lose /\ ~hit
             \/ \E b \in NoiseBytes : Garble(b) /\ ~hit /\ ~Stretches(b) /\ ~Truncates(b)
OnlyMildFaults == [][Fault => MildFault]_lvars

\* A byte that comes in as another one.
LEMMA ForgeGarble ==
  ASSUME AllPure, LineInv, ForgeInv, NEW x \in NoiseBytes, Garble(x),
         ~hit, ~Stretches(x), ~Truncates(x)
  PROVE  ForgeInv'
<1>1. PICK m : m = Sending
  OBVIOUS
<1>2. PICK p : p = Gone
  OBVIOUS
<1> DEFINE n == Len(Body(m))  k == Len(sent)  f == Frame(m)  h == LengthDigits(m)
<1>4. /\ line # <<>> /\ line' = Tail(line) /\ sent' = sent /\ hit' /\ Consume(x)
      /\ x # Head(line)
      /\ got' = IF result' = "MESSAGE_READY" THEN Append(got, message') ELSE got
  BY Zenon DEF Garble, Parse
<1>5. /\ m \in Messages /\ m \in Message /\ Legible(m)
      /\ k \in Nat \ {0} /\ n \in 5 .. 255 /\ p \in 0 .. n + 7
      /\ x # f[p + 1] /\ x \in Byte
  BY <1>1, <1>2, <1>4, ByteSent, LineAssumption
<1>6. got \in Seq(Messages) /\ Sub(got, sent, k) /\ ParserInv /\ p \in Nat
  BY <1>5 DEF ForgeInv, Told, LineInv
<1>7. k - 1 \in Nat /\ (k - 1) + 1 = k
  BY <1>5
<1>8. CASE p = 0
  <2>1. state \in Between /\ got' \in Seq(Messages) /\ Sub(got', sent, k - 1)
    BY <1>2, <1>4, <1>8, AtBegin, LateDelivered, Zenon
  <2>2. Sub(got', sent, k)
    BY <1>7, <2>1, SubOfMore
  <2>3. x # StartChar
    <3>1. 0 + 1 = 1
      OBVIOUS
    <3> QED BY <1>5, <1>8, <3>1, FrameShape, Zenon
  <2>4. InFrame(m, 1)' \/ Adrift(m, 1)'
    BY <1>4, <1>5, <2>1, <2>3, StartWrong, Zenon
  <2>5. p # n + 7 /\ p + 1 = 1
    BY <1>5, <1>8
  <2>6. InFrame(m, p + 1)' \/ Adrift(m, p + 1)'
    BY <2>4, <2>5
  <2> QED BY <1>1, <1>2, <1>4, <1>6, <2>1, <2>2, <2>5, <2>6, ForgeLater, Zenon
<1>9. ASSUME p # 0
      PROVE  p \in 1 .. n + 7 /\ InFrame(m, p) /\ Told(k - 1)
  <2>1. p \in 1 .. n + 7 /\ Gone >= 1
    BY <1>2, <1>5, <1>9
  <2> QED BY <1>1, <1>2, <1>4, <2>1, Zenon DEF ForgeInv, WithinFrame
<1>10. CASE p # 0 /\ x = Return
  <2>1. PassOver(x)
    BY <1>4, <1>10, Zenon DEF Consume
  <2>2. UNCHANGED <<state, fields>> /\ result' = "IN_PROGRESS"
    BY <2>1 DEF PassOver, InProgress
  <2>3. got' = got
    BY <1>4, <2>2
  <2>4. got' \in Seq(Messages) /\ Sub(got', sent, k) /\ Sub(got', sent, k - 1)
    BY <1>6, <1>9, <1>10, <2>3 DEF Told
  <2>5. p # n + 7 => Adrift(m, p + 1)'
    <3> SUFFICES ASSUME p # n + 7 PROVE Adrift(m, p + 1)'
      OBVIOUS
    <3>1. p \in 1 .. n + 6
      <4>1. p \in 1 .. n + 7 /\ n \in 5 .. 255
        BY <1>5, <1>9, <1>10
      <4> HIDE DEF n
      <4> QED BY <4>1
    <3> QED BY <1>5, <1>6, <1>9, <1>10, <2>2, <3>1, LossAdrift
  <2>6. p = n + 7 => InFrame(m, n + 7)'
    <3> SUFFICES ASSUME p = n + 7 PROVE InFrame(m, n + 7)'
      OBVIOUS
    <3>1. InFrame(m, n + 7)
      BY <1>9, <1>10
    <3>2. UNCHANGED <<state, length_field, checksum_field, expected_body_length, body>>
      BY <2>2 DEF fields
    <3> QED BY <3>1, <3>2, Zenon DEF InFrame, InHead, InBody, InTail
  <2> QED BY <1>1, <1>2, <1>4, <1>6, <2>4, <2>5, <2>6, ForgeLater, Zenon
<1>11. CASE p # 0 /\ x # Return
  <2>1. LET D == IF p = 1 THEN HexValue(<<x, h[2]>>) ELSE HexValue(<<h[1], x>>) IN
          p \in {1, 2} /\ x \in HexChar /\ LengthFits(D) => D <= n
    <3> DEFINE D == IF p = 1 THEN HexValue(<<x, h[2]>>) ELSE HexValue(<<h[1], x>>)
    <3> SUFFICES ASSUME p \in {1, 2}, x \in HexChar, LengthFits(D)
                 PROVE  D <= n
      OBVIOUS
    <3>1. f[2] = h[1] /\ f[3] = h[2]
      BY <1>5, FrameShape, Zenon
    <3>2. D = Declared(x)
      BY <1>1, <1>2, <3>1 DEF Declared
    <3>3. ~(D > n)
      BY <1>1, <1>2, <3>2 DEF Stretches
    <3>4. D \in Nat
      <4>1. h[1] \in HexChar /\ h[2] \in HexChar
        BY <1>5, FrameDigits, Zenon
      <4>2. \A a, b \in HexChar : HexValue(<<a, b>>) \in Nat
        BY NibbleRange DEF HexValue
      <4>3. HexValue(<<x, h[2]>>) \in Nat /\ HexValue(<<h[1], x>>) \in Nat
        BY <4>1, <4>2, Zenon
      <4> QED BY <4>3
    <3> HIDE DEF D, n
    <3> QED BY <1>5, <3>3, <3>4
  <2>2. p \in 4 .. n + 3 => x # Nul
    BY <1>1, <1>2 DEF Truncates
  <2>3. p \in 1 .. n + 7 /\ InFrame(m, p)
    BY <1>9, <1>11
  <2>4. /\ result' # "MESSAGE_READY"
        /\ p <= n + 6 => Adrift(m, p + 1)'
        /\ p = n + 7 => state' \in Ready
    <3> HIDE DEF f
    <3> QED BY <1>4, <1>5, <1>6, <1>11, <2>1, <2>2, <2>3, WrongAdrift, Zenon DEF f, Ready
  <2>5. p # n + 7 => Adrift(m, p + 1)'
    <3>1. p # n + 7 => p <= n + 6
      <4>1. p \in 1 .. n + 7 /\ n \in 5 .. 255
        BY <1>5, <2>3
      <4> HIDE DEF n
      <4> QED BY <4>1
    <3> QED BY <2>4, <3>1
  <2>6. got' = got
    BY <1>4, <2>4, Zenon
  <2>7. got' \in Seq(Messages) /\ Sub(got', sent, k)
    BY <1>6, <2>6
  <2> QED BY <1>1, <1>2, <1>4, <1>6, <2>4, <2>5, <2>7, ForgeLater, Zenon
<1> QED BY <1>8, <1>10, <1>11

\* A byte that does not come in.
LEMMA ForgeLose ==
  ASSUME AllPure, LineInv, ForgeInv, Lose, ~hit
  PROVE  ForgeInv'
<1>1. PICK m : m = Sending
  OBVIOUS
<1>2. PICK p : p = Gone
  OBVIOUS
<1> DEFINE n == Len(Body(m))  k == Len(sent)
<1>4. /\ line # <<>> /\ line' = Tail(line) /\ sent' = sent /\ hit' /\ got' = got
      /\ UNCHANGED <<state, fields>>
  BY DEF Lose, pvars
<1>5. /\ m \in Messages /\ m \in Message /\ Legible(m)
      /\ k \in Nat \ {0} /\ n \in 5 .. 255 /\ p \in 0 .. n + 7
  BY <1>1, <1>2, <1>4, ByteSent
<1>6. got' \in Seq(Messages) /\ Sub(got', sent, k) /\ ParserInv /\ p \in Nat
  BY <1>4, <1>5 DEF ForgeInv, Told, LineInv
<1>7. CASE p = 0
  <2>1. state \in Between /\ Sub(got', sent, k - 1)
    BY <1>2, <1>4, <1>7, AtBegin DEF ForgeInv, FrameBegins, Told
  <2>2. InFrame(m, 1)' \/ Adrift(m, 1)'
    BY <1>4, <1>5, <2>1, StartLost, Zenon
  <2>3. p # n + 7 /\ p + 1 = 1
    BY <1>5, <1>7
  <2>4. InFrame(m, p + 1)' \/ Adrift(m, p + 1)'
    BY <2>2, <2>3
  <2> QED BY <1>1, <1>2, <1>4, <1>6, <2>1, <2>3, <2>4, ForgeLater, Zenon
<1>8. CASE p # 0
  <2>1. p \in 1 .. n + 7 /\ Gone >= 1
    BY <1>2, <1>5, <1>8
  <2>2. InFrame(m, p) /\ Sub(got', sent, k - 1)
    <3>1. InFrame(m, p) /\ Told(k - 1)
      BY <1>1, <1>2, <1>4, <2>1, Zenon DEF ForgeInv, WithinFrame
    <3> QED BY <1>4, <3>1 DEF Told
  <2>3. p # n + 7 => Adrift(m, p + 1)'
    <3> SUFFICES ASSUME p # n + 7 PROVE Adrift(m, p + 1)'
      OBVIOUS
    <3>1. p \in 1 .. n + 6
      <4>1. p \in 1 .. n + 7 /\ n \in 5 .. 255
        BY <1>5, <2>1
      <4> HIDE DEF n
      <4> QED BY <4>1
    <3> QED BY <1>4, <1>5, <1>6, <2>2, <3>1, LossAdrift
  <2>4. p = n + 7 => InFrame(m, n + 7)'
    <3> SUFFICES ASSUME p = n + 7 PROVE InFrame(m, n + 7)'
      OBVIOUS
    <3>1. InFrame(m, n + 7)
      BY <2>2
    <3>2. UNCHANGED <<state, length_field, checksum_field, expected_body_length, body>>
      BY <1>4 DEF fields
    <3> QED BY <3>1, <3>2, Zenon DEF InFrame, InHead, InBody, InTail
  <2> QED BY <1>1, <1>2, <1>4, <1>6, <2>2, <2>3, <2>4, ForgeLater, Zenon
<1> QED BY <1>7, <1>8

\* A frame that begins.
LEMMA ForgeSend ==
  ASSUME AllPure, LineInv, ForgeInv, NEW m \in Messages, SendFrame(m)
  PROVE  ForgeInv'
<1> DEFINE k == Len(sent)
<1>1. /\ line = <<>> /\ sent' = Append(sent, m) /\ got' = got /\ sent \in Seq(Messages)
      /\ UNCHANGED <<state, length_field, checksum_field, expected_body_length, body>>
  BY DEF SendFrame, LineInv, LineOK, LineTypes, pvars, fields
<1>2. Gone' = 0
  <2>1. AllLegible
    BY DEF AllPure, AllLegible
  <2> QED BY <2>1, NothingGone
<1>3. /\ k \in Nat /\ Len(sent') = k + 1
      /\ \A i \in 1 .. k : sent'[i] = sent[i]
      /\ sent' # <<>>
  <2>1. /\ k \in Nat /\ Len(sent') = k + 1
        /\ \A i \in 1 .. k : sent'[i] = sent[i]
    BY <1>1, AppendProperties
  <2>2. sent' # <<>>
    <3>1. Len(<<>>) = 0
      OBVIOUS
    <3> QED BY <2>1, <3>1
  <2> QED BY <2>1, <2>2
<1>4. got \in Seq(Messages) /\ Sub(got, sent, k)
  BY DEF ForgeInv, Told
<1>5. \A j \in 0 .. k : Sub(got, sent, j) => Sub(got', sent', j)
  BY <1>1, SubOfLonger
<1>6. Told(Len(sent))' /\ Told(Len(sent) - 1)'
  <2>1. Sub(got', sent', k)
    BY <1>3, <1>4, <1>5
  <2>2. Sub(got', sent', k + 1)
    BY <1>3, <2>1, SubOfMore
  <2>3. Len(sent') - 1 = k
    BY <1>3
  <2> HIDE DEF k
  <2> QED BY <1>3, <2>1, <2>2, <2>3 DEF Told
<1>7. \/ state' \in Ready
      \/ Len(sent') >= 2 /\ Late(sent[Len(sent) - 1], Len(sent) - 2)'
  <2>1. CASE state \in Ready
    BY <1>1, <2>1
  <2>2. CASE state \notin Ready
    <3>1. sent # <<>>
      BY <2>2 DEF ForgeInv, Ready
    <3>2. InFrame(Sending, Len(Body(Sending)) + 7) /\ Sub(got, sent, k - 1)
      BY <1>1, <2>2, <3>1, Zenon DEF ForgeInv, BetweenFrames, Late, Told
    <3>3. PICK q : q = Sending
      OBVIOUS
    <3>4. k >= 1 /\ k - 1 \in 0 .. k /\ k \in 1 .. k
      BY <1>1, <3>1
    <3>5. sent'[Len(sent') - 1] = q /\ Len(sent') - 2 = k - 1 /\ Len(sent') >= 2
      <4>1. Len(sent') - 1 = k /\ Len(sent') - 2 = k - 1 /\ Len(sent') >= 2
        BY <1>3, <3>4
      <4>2. sent'[k] = sent[k] /\ q = sent[k]
        BY <1>3, <3>3, <3>4, Zenon DEF Sending, Last
      <4> QED BY <4>1, <4>2, Zenon
    <3>6. Sub(got', sent', k - 1)
      BY <1>5, <3>2, <3>4, Zenon
    <3>7. InFrame(q, Len(Body(q)) + 7)'
      <4>1. InFrame(q, Len(Body(q)) + 7)
        BY <3>2, <3>3, Zenon
      <4> QED BY <1>1, <4>1, Zenon DEF InFrame, InHead, InBody, InTail
    <3>8. Late(q, Len(sent) - 2)'
      <4>1. Told(Len(sent) - 2)'
        BY <3>5, <3>6, Zenon DEF Told
      <4> QED BY <3>7, <4>1, Zenon DEF Late
    <3>9. Late(sent[Len(sent) - 1], Len(sent) - 2)'
      BY <3>5, <3>8, Zenon
    <3> QED BY <3>5, <3>9
  <2> QED BY <2>1, <2>2
<1>8. FrameBegins'
  BY <1>6, <1>7, Zenon DEF FrameBegins
<1>9. BetweenFrames' /\ WithinFrame'
  <2>1. line' # <<>>
    <3>1. m \in Message /\ Legible(m)
      BY LineAssumption DEF AllPure, Message
    <3>2. Len(Frame(m)) = Len(Body(m)) + 8 /\ Len(Body(m)) \in 5 .. 255
      BY <3>1, FrameShape, BodyFits, Zenon
    <3>3. line' = Frame(m) /\ Len(<<>>) = 0
      BY DEF SendFrame
    <3> QED BY <3>2, <3>3
  <2>2. ~(Gone' >= 1)
    BY <1>2
  <2> QED BY <2>1, <2>2, Zenon DEF BetweenFrames, WithinFrame
<1> QED BY <1>1, <1>3, <1>4, <1>6, <1>8, <1>9 DEF ForgeInv

\* Every step with mild faults only keeps the invariant.
LEMMA ForgeInvStep ==
  ASSUME AllPure, LineInv, ForgeInv, [LineNext]_lvars, [Fault => MildFault]_lvars
  PROVE  ForgeInv'
<1>1. ASSUME NEW m \in Messages, SendFrame(m)
      PROVE  ForgeInv'
  BY <1>1, ForgeSend
<1>2. CASE Arrive
  BY <1>2, ForgeArrive
<1>3. CASE UNCHANGED lvars
  <2>1. /\ UNCHANGED <<line, sent, got, hit>>
        /\ UNCHANGED <<state, length_field, checksum_field, expected_body_length, body>>
    BY <1>3 DEF lvars, pvars, fields
  <2>2. Sending' = Sending /\ Gone' = Gone
    BY <2>1 DEF Sending, Gone, Size
  <2>3. BetweenFrames'
    BY <2>1, <2>2 DEF ForgeInv, BetweenFrames, Late, Told, InFrame, InHead, InBody, InTail
  <2>4. FrameBegins'
    BY <2>1, <2>2 DEF ForgeInv, FrameBegins, Late, Told, InFrame, InHead, InBody, InTail
  <2>5. WithinFrame'
    <3>1. InFrame(Sending, Gone)' = InFrame(Sending, Gone)
      BY <2>1, <2>2 DEF InFrame, InHead, InBody, InTail
    <3>2. Adrift(Sending, Gone)' = Adrift(Sending, Gone)
      BY <2>1, <2>2 DEF Adrift, HeadOff, BodyOff, TailOff, TooShort, OneWrong, BodyWrong,
                        CheckWrong
    <3>3. Told(Len(sent) - 1)' = Told(Len(sent) - 1)
      BY <2>1 DEF Told
    <3> QED BY <2>1, <2>2, <3>1, <3>2, <3>3 DEF ForgeInv, WithinFrame
  <2> QED BY <2>1, <2>3, <2>4, <2>5 DEF ForgeInv, Told
<1>4. CASE Fault
  <2>1. CASE UNCHANGED lvars
    BY <1>3, <2>1
  <2>2. CASE Fault => MildFault
    <3>1. CASE Lose /\ ~hit
      BY <3>1, ForgeLose
    <3>2. ASSUME NEW x \in NoiseBytes, Garble(x), ~hit, ~Stretches(x), ~Truncates(x)
          PROVE  ForgeInv'
      BY <3>2, ForgeGarble
    <3> QED BY <1>4, <2>2, <3>1, <3>2 DEF MildFault
  <2> QED BY <2>1, <2>2
<1> QED BY <1>1, <1>2, <1>3, <1>4 DEF LineNext, Quiescent, Fault

\* protocol.c:95-96 for a frame with one fault: whatever it is that was lost or
\* garbled in each of any number of frames, nothing is delivered that was not
\* sent, nothing twice and nothing out of order - unless the fault turned a
\* byte of a body into a NUL, which the check cannot see, or made a length
\* longer, so that several frames are read as one.
THEOREM OneFaultForgesNothing ==
  ASSUME \A m \in Messages : Legible(m) /\ NoStart(m) /\ NoEnd(m)
  PROVE  LineSpec /\ OnlyMildFaults => []NothingForged
<1>0. AllPure /\ AllLegible
  BY DEF AllPure, AllLegible
<1>1. LineInit => LineInv /\ ForgeInv
  <2> SUFFICES ASSUME LineInit PROVE ForgeInv
    BY LineInvInit
  <2>1. state = "WAIT_START" /\ sent = <<>> /\ got = <<>> /\ line = <<>>
    BY DEF LineInit, PInit
  <2>2. Told(Len(sent)) /\ got \in Seq(Messages)
    BY <2>1, SubOfNone DEF Told
  <2> QED BY <2>1, <2>2 DEF ForgeInv, BetweenFrames, FrameBegins, WithinFrame
<1>2. LineInv /\ ForgeInv /\ [LineNext]_lvars /\ [Fault => MildFault]_lvars
        => (LineInv /\ ForgeInv)'
  BY <1>0, LineInvStep, ForgeInvStep
<1>3. ForgeInv => NothingForged
  BY Zenon DEF ForgeInv, Told, Sub, NothingForged, IsSubsequence
<1> QED BY <1>1, <1>2, <1>3, PTL DEF LineSpec, OnlyMildFaults
=============================================================================
