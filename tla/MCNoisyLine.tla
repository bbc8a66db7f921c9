----------------------------- MODULE MCNoisyLine -----------------------------
(* Instances of the parser on a noisy line for TLC. *)
EXTENDS NoisyLine

Msg(t, p) == [type |-> t, payload |-> p]

\* ping, led=off and ok, as the operator and the bridge send them.
Ping == Msg("CMD", <<112, 105, 110, 103>>)
LedOff == Msg("CMD", <<108, 101, 100, 61, 111, 102, 102>>)
AckOk == Msg("ACK", <<111, 107>>)

\* host_tests/test_protocol.c:87-103 and test_parser.c:147-155.
Sharp == <<48, 56, 58, 88, 89, 90, 58, 112, 105, 110, 103>>
ASSUME TestVectors ==
  /\ Frame(Ping) = <<64, 48, 56, 58, 67, 77, 68, 58, 112, 105, 110, 103, 58, 53, 50, 10>>
  /\ SubSeq(Frame(LedOff), 17, 19) = <<48, 55, 10>>
  /\ Checksum(Sharp) = 4 * 16 + 3
  /\ \A m \in {Ping, LedOff, AckOk} : DecodeBody(Body(m)) = m
  /\ DecodeBody(SubSeq(Sharp, 4, 11)) = Invalid

MCMessages == {Ping, LedOff, AckOk}
MCLedOff == {LedOff}

\* A byte that means something in some state, or in none: start, separator,
\* end, return, digits that shorten or stretch a body, and a letter.
MCNoise == {StartChar, SeparatorChar, EndChar, Return, 48, 49, 67, 68, 102}
MCNoiseNul == {Nul}
=============================================================================
