---------------------------- MODULE RequestProofs ----------------------------
(***************************************************************************)
(* Theorems about what becomes of a request on its way through the         *)
(* firmware, for all lengths of the queues and any number of requests.     *)
(***************************************************************************)
EXTENDS RxPipelineProofs, FiniteSetTheorems, Integers

-----------------------------------------------------------------------------
(* What is on its way.  A queue holds, in their order, some of the elements  *)
(* that a sequence s has behind position a and up to position b.             *)

Placed(f, q, a, b, s) ==
  /\ f \in [1 .. Len(q) -> Int]
  /\ \A i \in 1 .. Len(q) : a + i <= f[i] /\ f[i] <= b - Len(q) + i /\ s[f[i]] = q[i]
  /\ \A i, j \in 1 .. Len(q) : i <= j => f[j] - f[i] >= j - i

Within(q, a, b, s) == Len(q) <= b - a /\ \E f : Placed(f, q, a, b, s)

LEMMA PlacedAt ==
  ASSUME NEW f, NEW q, NEW a, NEW b, NEW s, Placed(f, q, a, b, s), NEW i \in 1 .. Len(q)
  PROVE  /\ f[i] \in Int /\ a + i <= f[i] /\ f[i] <= b - Len(q) + i /\ s[f[i]] = q[i]
         /\ \A j \in 1 .. Len(q) : i <= j => f[j] - f[i] >= j - i
BY DEF Placed

LEMMA WithinEmpty ==
  ASSUME NEW a \in Nat, NEW b \in Nat, NEW s, a <= b
  PROVE  Within(<<>>, a, b, s)
<1> DEFINE f == [i \in 1 .. 0 |-> i]
<1>1. Len(<<>>) = 0 /\ 0 <= b - a
  OBVIOUS
<1>2. Placed(f, <<>>, a, b, s)
  BY <1>1 DEF Placed
<1> QED BY <1>1, <1>2 DEF Within

LEMMA WithinWiden ==
  ASSUME NEW S, NEW q \in Seq(S), NEW s,
         NEW a \in Nat, NEW b \in Nat, NEW c \in Nat, NEW d \in Nat,
         Within(q, a, b, s), c <= a, b <= d
  PROVE  Within(q, c, d, s)
<1>1. Len(q) \in Nat /\ Len(q) <= b - a
  BY LenProperties DEF Within
<1>2. PICK f : Placed(f, q, a, b, s)
  BY DEF Within
<1>3. \A i \in 1 .. Len(q) : c + i <= f[i] /\ f[i] <= d - Len(q) + i /\ s[f[i]] = q[i]
  <2> SUFFICES ASSUME NEW i \in 1 .. Len(q)
               PROVE  c + i <= f[i] /\ f[i] <= d - Len(q) + i /\ s[f[i]] = q[i]
    OBVIOUS
  <2>1. f[i] \in Int /\ a + i <= f[i] /\ f[i] <= b - Len(q) + i /\ s[f[i]] = q[i]
    BY <1>2, PlacedAt
  <2> QED BY <1>1, <2>1
<1>p. Placed(f, q, c, d, s)
  BY <1>2, <1>3 DEF Placed
<1>4. Len(q) <= d - c
  BY <1>1
<1> QED BY <1>4, <1>p DEF Within

\* The elements up to position b are all that counts.
LEMMA WithinExtended ==
  ASSUME NEW S, NEW q \in Seq(S), NEW s, NEW t, NEW a \in Nat, NEW b \in Nat,
         Within(q, a, b, s), \A n \in a + 1 .. b : t[n] = s[n]
  PROVE  Within(q, a, b, t)
<1>1. Len(q) \in Nat /\ Len(q) <= b - a
  BY LenProperties DEF Within
<1>2. PICK f : Placed(f, q, a, b, s)
  BY DEF Within
<1>3. ASSUME NEW i \in 1 .. Len(q) PROVE f[i] \in a + 1 .. b
  <2>1. f[i] \in Int /\ a + i <= f[i] /\ f[i] <= b - Len(q) + i
    BY <1>2, PlacedAt
  <2> QED BY <1>1, <2>1
<1>4. Placed(f, q, a, b, t)
  BY <1>2, <1>3 DEF Placed
<1> QED BY <1>1, <1>4 DEF Within

\* The element that leaves a queue stands before all that stay.
LEMMA WithinTake ==
  ASSUME NEW S, NEW q \in Seq(S), q # <<>>, NEW s, NEW a \in Nat, NEW b \in Nat,
         Within(q, a, b, s)
  PROVE  \E y \in a + 1 .. b : s[y] = Head(q) /\ Within(Tail(q), y, b, s)
<1>1. /\ Len(q) \in Nat \ {0} /\ Len(q) <= b - a /\ Len(Tail(q)) = Len(q) - 1
      /\ \A i \in 1 .. Len(Tail(q)) : Tail(q)[i] = q[i + 1]
      /\ Head(q) = q[1]
  BY HeadTailProperties, EmptySeq DEF Within
<1>2. PICK f : Placed(f, q, a, b, s)
  BY DEF Within
<1> DEFINE y == f[1]  g == [i \in 1 .. Len(Tail(q)) |-> f[i + 1]]
<1>3. y \in a + 1 .. b /\ s[y] = Head(q) /\ y <= b - Len(q) + 1
  BY <1>1, <1>2 DEF Placed
<1>4. \A i \in 1 .. Len(Tail(q)) : i + 1 \in 1 .. Len(q) /\ 1 \in 1 .. Len(q) /\ 1 <= i + 1
  BY <1>1
<1>5. g \in [1 .. Len(Tail(q)) -> Int] /\ f \in [1 .. Len(q) -> Int]
  BY <1>2, <1>4 DEF Placed
<1>6. \A i \in 1 .. Len(Tail(q)) : y + i <= g[i] /\ g[i] <= b - Len(Tail(q)) + i
                                   /\ s[g[i]] = Tail(q)[i]
  <2> SUFFICES ASSUME NEW i \in 1 .. Len(Tail(q))
               PROVE  y + i <= g[i] /\ g[i] <= b - Len(Tail(q)) + i /\ s[g[i]] = Tail(q)[i]
    OBVIOUS
  <2>1. g[i] = f[i + 1] /\ Tail(q)[i] = q[i + 1] /\ f[i + 1] \in Int /\ f[1] \in Int
    BY <1>1, <1>4, <1>5
  <2>2. f[i + 1] - f[1] >= i + 1 - 1 /\ f[i + 1] <= b - Len(q) + (i + 1)
        /\ s[f[i + 1]] = q[i + 1]
    BY <1>2, <1>4 DEF Placed
  <2> QED BY <1>1, <2>1, <2>2
<1>7. \A i, j \in 1 .. Len(Tail(q)) : i <= j => g[j] - g[i] >= j - i
  <2> SUFFICES ASSUME NEW i \in 1 .. Len(Tail(q)), NEW j \in 1 .. Len(Tail(q)), i <= j
               PROVE  g[j] - g[i] >= j - i
    OBVIOUS
  <2>1. f[j + 1] - f[i + 1] >= (j + 1) - (i + 1)
    BY <1>2, <1>4 DEF Placed
  <2> QED BY <1>4, <2>1
<1>8. Len(Tail(q)) <= b - y
  BY <1>1, <1>3
<1> HIDE DEF g, y
<1>9. Within(Tail(q), y, b, s)
  BY <1>5, <1>6, <1>7, <1>8 DEF Within, Placed
<1> QED BY <1>3, <1>9

\* The element that joins a queue stands behind all that are in it.
LEMMA WithinPut ==
  ASSUME NEW S, NEW q \in Seq(S), NEW e \in S, NEW s,
         NEW a \in Nat, NEW b \in Nat, NEW y \in Nat,
         Within(q, a, b, s), b < y, s[y] = e
  PROVE  Within(Append(q, e), a, y, s)
<1> DEFINE p == Append(q, e)
<1>1. /\ Len(q) \in Nat /\ Len(q) <= b - a /\ Len(p) = Len(q) + 1
      /\ \A i \in 1 .. Len(q) : p[i] = q[i]
      /\ p[Len(q) + 1] = e
  BY LenProperties, AppendProperties DEF Within
<1>2. PICK f : Placed(f, q, a, b, s)
  BY DEF Within
<1> HIDE DEF p
<1> DEFINE g == [i \in 1 .. Len(p) |-> IF i <= Len(q) THEN f[i] ELSE y]
<1>3. /\ \A i \in 1 .. Len(p) : (i <= Len(q) => i \in 1 .. Len(q))
                                /\ (~(i <= Len(q)) => i = Len(q) + 1)
      /\ \A i \in 1 .. Len(p) : g[i] = IF i <= Len(q) THEN f[i] ELSE y
  BY <1>1
<1>4. g \in [1 .. Len(p) -> Int]
  BY <1>2, <1>3 DEF Placed
<1> HIDE DEF g
<1>5. \A i \in 1 .. Len(p) : a + i <= g[i] /\ g[i] <= y - Len(p) + i /\ s[g[i]] = p[i]
  <2> SUFFICES ASSUME NEW i \in 1 .. Len(p)
               PROVE  a + i <= g[i] /\ g[i] <= y - Len(p) + i /\ s[g[i]] = p[i]
    OBVIOUS
  <2>1. CASE i <= Len(q)
    <3>1. i \in 1 .. Len(q) /\ g[i] = f[i] /\ p[i] = q[i]
      BY <1>1, <1>3, <2>1
    <3>2. f[i] \in Int /\ a + i <= f[i] /\ f[i] <= b - Len(q) + i /\ s[f[i]] = q[i]
      BY <1>2, <3>1, PlacedAt
    <3> QED BY <1>1, <3>1, <3>2
  <2>2. CASE ~(i <= Len(q))
    BY <1>1, <1>3, <2>2
  <2> QED BY <2>1, <2>2
<1>6. \A i, j \in 1 .. Len(p) : i <= j => g[j] - g[i] >= j - i
  <2> SUFFICES ASSUME NEW i \in 1 .. Len(p), NEW j \in 1 .. Len(p), i <= j
               PROVE  g[j] - g[i] >= j - i
    OBVIOUS
  <2>1. CASE j <= Len(q)
    BY <1>1, <1>2, <1>3, <2>1 DEF Placed
  <2>2. CASE ~(j <= Len(q)) /\ i <= Len(q)
    <3>1. f[i] <= b - Len(q) + i /\ f[i] \in Int
      BY <1>2, <1>3, <2>2 DEF Placed
    <3> QED BY <1>1, <1>3, <2>2, <3>1
  <2>3. CASE ~(j <= Len(q)) /\ ~(i <= Len(q))
    BY <1>1, <1>3, <2>3
  <2> QED BY <2>1, <2>2, <2>3
<1>7. Len(p) <= y - a
  BY <1>1
<1>8. Placed(g, p, a, y, s)
  BY <1>4, <1>5, <1>6 DEF Placed
<1> QED BY <1>7, <1>8 DEF Within, p

LEMMA WithinOne ==
  ASSUME NEW e, NEW s, NEW a \in Nat, NEW y \in Nat, a < y, s[y] = e
  PROVE  Within(<<e>>, a, y, s)
<1>1. Within(<<>>, a, a, s) /\ <<>> \in Seq({e})
  BY WithinEmpty
<1>2. Append(<<>>, e) = <<e>>
  OBVIOUS
<1> QED BY <1>1, <1>2, WithinPut

\* A queue as long as the stretch of s it was taken from is that stretch.
LEMMA WithinAll ==
  ASSUME NEW S, NEW q \in Seq(S), NEW s, NEW a \in Nat, NEW b \in Nat,
         Within(q, a, b, s), b <= a + Len(q)
  PROVE  \A i \in 1 .. Len(q) : s[a + i] = q[i]
<1>1. Len(q) \in Nat /\ Len(q) <= b - a
  BY LenProperties DEF Within
<1>2. PICK f : Placed(f, q, a, b, s)
  BY DEF Within
<1> SUFFICES ASSUME NEW i \in 1 .. Len(q) PROVE s[a + i] = q[i]
  OBVIOUS
<1>3. f[i] \in Int /\ a + i <= f[i] /\ f[i] <= b - Len(q) + i /\ s[f[i]] = q[i]
  BY <1>2, PlacedAt
<1>4. f[i] = a + i
  BY <1>1, <1>3
<1> QED BY <1>3, <1>4

-----------------------------------------------------------------------------
(* The bytes the other side sends for its requests: of request k + 1, those  *)
(* at positions 3 * k + 1 to 3 * k + 3.                                      *)

Stream(t) ==
  [n \in 1 .. 3 * Len(t) |-> IF n % 3 = 1 THEN Start
                             ELSE IF n % 3 = 2 THEN t[(n + 1) \div 3] ELSE End]

LEMMA StreamAt ==
  ASSUME NEW t \in Seq(Request), NEW k \in 0 .. Len(t) - 1
  PROVE  /\ Stream(t)[3 * k + 1] = Start
         /\ Stream(t)[3 * k + 2] = t[k + 1]
         /\ Stream(t)[3 * k + 3] = End
<1>1. Len(t) \in Nat /\ k \in Nat /\ k < Len(t)
  BY LenProperties
<1>2. /\ 3 * k + 1 \in 1 .. 3 * Len(t) /\ (3 * k + 1) % 3 = 1
      /\ 3 * k + 2 \in 1 .. 3 * Len(t) /\ (3 * k + 2) % 3 = 2
      /\ ((3 * k + 2) + 1) \div 3 = k + 1
      /\ 3 * k + 3 \in 1 .. 3 * Len(t) /\ (3 * k + 3) % 3 = 0
  BY <1>1
<1> QED BY <1>2 DEF Stream

\* Every position is that of a start, of a request or of an end.
LEMMA StreamPart ==
  ASSUME NEW t \in Seq(Request), NEW n \in 1 .. 3 * Len(t)
  PROVE  \E k \in 0 .. Len(t) - 1 :
           \/ n = 3 * k + 1 /\ Stream(t)[n] = Start
           \/ n = 3 * k + 2 /\ Stream(t)[n] = t[k + 1] /\ Stream(t)[n] \in Request
           \/ n = 3 * k + 3 /\ Stream(t)[n] = End
<1>1. Len(t) \in Nat /\ n \in Nat
  BY LenProperties
<1> DEFINE k == (n - 1) \div 3
<1>2. k \in 0 .. Len(t) - 1 /\ n \in {3 * k + 1, 3 * k + 2, 3 * k + 3}
  BY <1>1
<1> HIDE DEF k
<1>3. /\ Stream(t)[3 * k + 1] = Start
      /\ Stream(t)[3 * k + 2] = t[k + 1]
      /\ Stream(t)[3 * k + 3] = End
  BY <1>2, StreamAt
<1>4. t[k + 1] \in Request
  BY <1>1, <1>2, ElementOfSeq
<1> QED BY <1>2, <1>3, <1>4

\* One more request adds its bytes behind the others.
LEMMA StreamAppend ==
  ASSUME NEW t \in Seq(Request), NEW r \in Request
  PROVE  /\ \A n \in 1 .. 3 * Len(t) : Stream(Append(t, r))[n] = Stream(t)[n]
         /\ Stream(Append(t, r))[3 * Len(t) + 1] = Start
         /\ Stream(Append(t, r))[3 * Len(t) + 2] = r
         /\ Stream(Append(t, r))[3 * Len(t) + 3] = End
<1> DEFINE u == Append(t, r)
<1>1. /\ u \in Seq(Request) /\ Len(t) \in Nat /\ Len(u) = Len(t) + 1
      /\ \A i \in 1 .. Len(t) : u[i] = t[i]
      /\ u[Len(t) + 1] = r
  BY AppendProperties, LenProperties
<1> HIDE DEF u
<1>2. ASSUME NEW n \in 1 .. 3 * Len(t) PROVE Stream(u)[n] = Stream(t)[n]
  <2>1. PICK k \in 0 .. Len(t) - 1 :
           \/ n = 3 * k + 1 /\ Stream(t)[n] = Start
           \/ n = 3 * k + 2 /\ Stream(t)[n] = t[k + 1]
           \/ n = 3 * k + 3 /\ Stream(t)[n] = End
    BY StreamPart
  <2>2. k \in 0 .. Len(u) - 1 /\ k + 1 \in 1 .. Len(t)
    BY <1>1
  <2>3. /\ Stream(u)[3 * k + 1] = Start
        /\ Stream(u)[3 * k + 2] = u[k + 1]
        /\ Stream(u)[3 * k + 3] = End
    BY <1>1, <2>2, StreamAt
  <2> QED BY <1>1, <2>1, <2>2, <2>3
<1>3. Len(t) \in 0 .. Len(u) - 1
  BY <1>1
<1>4. /\ Stream(u)[3 * Len(t) + 1] = Start
      /\ Stream(u)[3 * Len(t) + 2] = u[Len(t) + 1]
      /\ Stream(u)[3 * Len(t) + 3] = End
  BY <1>1, <1>3, StreamAt
<1> QED BY <1>1, <1>2, <1>4 DEF u

LEMMA BytesDiffer ==
  /\ Start # End /\ Start \notin Request /\ End \notin Request
  /\ None \notin Byte
BY DEF Start, End, Request, LedCommand, None, Byte

-----------------------------------------------------------------------------
(* Bytes in line: x is the position in the stream of the byte the parser     *)
(* took last, and what waits behind it stands behind it there.               *)

Lined(x, pq, c, iq, w, t) ==
  \E y, z, v \in Nat :
    /\ Within(pq, x, y, Stream(t)) /\ Within(c, y, z, Stream(t))
    /\ Within(iq, z, v, Stream(t)) /\ Within(w, v, 3 * Len(t), Stream(t))

LEMMA WithinOrder ==
  ASSUME NEW S, NEW q \in Seq(S), NEW s, NEW a \in Nat, NEW b \in Nat, Within(q, a, b, s)
  PROVE  a <= b
<1>1. Len(q) \in Nat /\ Len(q) <= b - a
  BY LenProperties DEF Within
<1> QED BY <1>1

LEMMA LinedOrder ==
  ASSUME NEW x \in Nat, NEW pq \in Seq(Byte), NEW c \in Seq(Byte), NEW iq \in Seq(Byte),
         NEW w \in Seq(Byte), NEW t \in Seq(Request), Lined(x, pq, c, iq, w, t)
  PROVE  x <= 3 * Len(t)
<1> DEFINE N == 3 * Len(t)
<1>1. PICK y \in Nat, z \in Nat, v \in Nat :
        /\ Within(pq, x, y, Stream(t)) /\ Within(c, y, z, Stream(t))
        /\ Within(iq, z, v, Stream(t)) /\ Within(w, v, N, Stream(t))
  BY DEF Lined
<1>2. N \in Nat
  BY LenProperties
<1> HIDE DEF N
<1>3. x <= y /\ y <= z /\ z <= v /\ v <= N
  BY <1>1, <1>2, WithinOrder
<1>4. x <= N
  BY <1>2, <1>3
<1> QED BY <1>4 DEF N

LEMMA TupleAppend ==
  ASSUME NEW S, NEW a \in S, NEW b \in S, NEW c \in S
  PROVE  /\ Append(<<>>, a) = <<a>> /\ Append(<<a>>, b) = <<a, b>>
         /\ Append(<<a, b>>, c) = <<a, b, c>>
<1>1. /\ <<a>> \in Seq(S) /\ <<a, b>> \in Seq(S) /\ <<a, b, c>> \in Seq(S)
      /\ Len(<<a>>) = 1 /\ Len(<<a, b>>) = 2 /\ Len(<<a, b, c>>) = 3
  OBVIOUS
<1>2. Append(<<>>, a) = <<a>>
  OBVIOUS
<1>3. Append(<<a>>, b) = <<a, b>>
  <2>1. /\ Append(<<a>>, b) \in Seq(S) /\ Len(Append(<<a>>, b)) = 2
        /\ \A i \in 1 .. 1 : Append(<<a>>, b)[i] = <<a>>[i]
        /\ Append(<<a>>, b)[2] = b
    BY <1>1, AppendProperties
  <2>2. \A i \in 1 .. 2 : Append(<<a>>, b)[i] = <<a, b>>[i]
    BY <2>1
  <2> QED BY <1>1, <2>1, <2>2, SeqEqual
<1>4. Append(<<a, b>>, c) = <<a, b, c>>
  <2>1. /\ Append(<<a, b>>, c) \in Seq(S) /\ Len(Append(<<a, b>>, c)) = 3
        /\ \A i \in 1 .. 2 : Append(<<a, b>>, c)[i] = <<a, b>>[i]
        /\ Append(<<a, b>>, c)[3] = c
    BY <1>1, AppendProperties
  <2>2. \A i \in 1 .. 3 : Append(<<a, b>>, c)[i] = <<a, b, c>>[i]
    BY <2>1
  <2> QED BY <1>1, <2>1, <2>2, SeqEqual
<1> QED BY <1>2, <1>3, <1>4

\* SendFrame.
LEMMA LinedSend ==
  ASSUME NEW x \in Nat, NEW pq \in Seq(Byte), NEW c \in Seq(Byte), NEW iq \in Seq(Byte),
         NEW t \in Seq(Request), NEW r \in Request, Lined(x, pq, c, iq, <<>>, t)
  PROVE  Lined(x, pq, c, iq, <<Start, r, End>>, Append(t, r))
<1> DEFINE N == 3 * Len(t)  s == Stream(t)  u == Stream(Append(t, r))
<1>1. PICK y \in Nat, z \in Nat, v \in Nat :
        /\ Within(pq, x, y, s) /\ Within(c, y, z, s)
        /\ Within(iq, z, v, s) /\ Within(<<>>, v, N, s)
  BY DEF Lined
<1>2. N \in Nat /\ 3 * Len(Append(t, r)) = N + 3
  BY LenProperties, AppendProperties
<1>3. /\ \A n \in 1 .. N : u[n] = s[n]
      /\ u[N + 1] = Start /\ u[N + 2] = r /\ u[N + 3] = End
  BY StreamAppend, Zenon
<1> HIDE DEF N, s, u
<1>4. x <= y /\ y <= z /\ z <= v /\ v <= N
  <2>1. <<>> \in Seq(Byte)
    OBVIOUS
  <2> QED BY <1>1, <1>2, <2>1, WithinOrder
<1>5. /\ \A n \in x + 1 .. y : u[n] = s[n]
      /\ \A n \in y + 1 .. z : u[n] = s[n]
      /\ \A n \in z + 1 .. v : u[n] = s[n]
  BY <1>2, <1>3, <1>4
<1>6. Within(pq, x, y, u) /\ Within(c, y, z, u) /\ Within(iq, z, v, u)
  BY <1>1, <1>5, WithinExtended
<1>7. Within(<<Start, r, End>>, v, N + 3, u)
  <2>1. <<>> \in Seq(Byte) /\ <<Start>> \in Seq(Byte) /\ <<Start, r>> \in Seq(Byte)
        /\ Start \in Byte /\ r \in Byte /\ End \in Byte
    BY DEF Byte
  <2>2. Within(<<>>, v, N, u)
    BY <1>2, <1>4, WithinEmpty
  <2>a. /\ N + 1 \in Nat /\ N + 2 \in Nat /\ N + 3 \in Nat
        /\ N < N + 1 /\ N + 1 < N + 2 /\ N + 2 < N + 3
    BY <1>2
  <2>b. /\ Append(<<>>, Start) = <<Start>> /\ Append(<<Start>>, r) = <<Start, r>>
        /\ Append(<<Start, r>>, End) = <<Start, r, End>>
    BY <2>1, TupleAppend
  <2>3. Within(Append(<<>>, Start), v, N + 1, u)
    BY <1>2, <1>3, <2>1, <2>2, <2>a, WithinPut, Zenon
  <2>4. Within(Append(<<Start>>, r), v, N + 2, u)
    BY <1>3, <2>1, <2>3, <2>a, <2>b, WithinPut, Zenon
  <2>5. Within(Append(<<Start, r>>, End), v, N + 3, u)
    BY <1>3, <2>1, <2>4, <2>a, <2>b, WithinPut, Zenon
  <2> QED BY <2>5, <2>b, Zenon
<1> QED BY <1>2, <1>6, <1>7 DEF Lined, u

\* Isr: the byte from the wire is queued or dropped.
LEMMA LinedIsr ==
  ASSUME NEW x \in Nat, NEW pq \in Seq(Byte), NEW c \in Seq(Byte), NEW iq \in Seq(Byte),
         NEW w \in Seq(Byte), w # <<>>, NEW t \in Seq(Request), Lined(x, pq, c, iq, w, t)
  PROVE  /\ Lined(x, pq, c, Append(iq, Head(w)), Tail(w), t)
         /\ Lined(x, pq, c, iq, Tail(w), t)
<1> DEFINE N == 3 * Len(t)  s == Stream(t)
<1>1. PICK y \in Nat, z \in Nat, v \in Nat :
        /\ Within(pq, x, y, s) /\ Within(c, y, z, s)
        /\ Within(iq, z, v, s) /\ Within(w, v, N, s)
  BY DEF Lined
<1>2. N \in Nat
  BY LenProperties
<1> HIDE DEF N, s
<1>3. PICK p \in v + 1 .. N : s[p] = Head(w) /\ Within(Tail(w), p, N, s)
  BY <1>1, <1>2, WithinTake
<1>4. p \in Nat /\ v < p /\ z <= z /\ v <= p /\ Head(w) \in Byte
  BY <1>2, HeadTailProperties
<1>5. Within(Append(iq, Head(w)), z, p, s)
  BY <1>1, <1>3, <1>4, WithinPut
<1>6. Within(iq, z, p, s)
  BY <1>1, <1>4, WithinWiden
<1> QED BY <1>1, <1>3, <1>4, <1>5, <1>6 DEF Lined, N, s

\* RxTake.
LEMMA LinedTake ==
  ASSUME NEW x \in Nat, NEW pq \in Seq(Byte), NEW iq \in Seq(Byte), iq # <<>>,
         NEW w \in Seq(Byte), NEW t \in Seq(Request), Lined(x, pq, <<>>, iq, w, t)
  PROVE  Lined(x, pq, <<Head(iq)>>, Tail(iq), w, t)
<1> DEFINE N == 3 * Len(t)  s == Stream(t)
<1>1. PICK y \in Nat, z \in Nat, v \in Nat :
        /\ Within(pq, x, y, s) /\ Within(<<>>, y, z, s)
        /\ Within(iq, z, v, s) /\ Within(w, v, N, s)
  BY DEF Lined
<1> HIDE DEF N, s
<1>2. PICK p \in z + 1 .. v : s[p] = Head(iq) /\ Within(Tail(iq), p, v, s)
  BY <1>1, WithinTake
<1>3. p \in Nat /\ y <= z
  <2>1. <<>> \in Seq(Byte)
    OBVIOUS
  <2>2. y <= z
    BY <1>1, <2>1, WithinOrder, Zenon
  <2> QED BY <2>2
<1>4. y < p
  BY <1>3
<1>5. Within(<<Head(iq)>>, y, p, s)
  BY <1>2, <1>3, <1>4, WithinOne
<1> QED BY <1>1, <1>2, <1>3, <1>5 DEF Lined, N, s

\* RxHand.
LEMMA LinedHand ==
  ASSUME NEW x \in Nat, NEW pq \in Seq(Byte), NEW b \in Byte, NEW iq \in Seq(Byte),
         NEW w \in Seq(Byte), NEW t \in Seq(Request), Lined(x, pq, <<b>>, iq, w, t)
  PROVE  Lined(x, Append(pq, b), <<>>, iq, w, t)
<1> DEFINE N == 3 * Len(t)  s == Stream(t)
<1>1. PICK y \in Nat, z \in Nat, v \in Nat :
        /\ Within(pq, x, y, s) /\ Within(<<b>>, y, z, s)
        /\ Within(iq, z, v, s) /\ Within(w, v, N, s)
  BY DEF Lined
<1> HIDE DEF N, s
<1>2. <<b>> \in Seq(Byte) /\ <<b>> # <<>> /\ Head(<<b>>) = b
  OBVIOUS
<1>3. PICK p \in y + 1 .. z : s[p] = Head(<<b>>) /\ Within(Tail(<<b>>), p, z, s)
  BY <1>1, <1>2, WithinTake, Zenon
<1>4. p \in Nat /\ y < p /\ p <= z
  OBVIOUS
<1>5. Within(Append(pq, b), x, p, s)
  BY <1>1, <1>2, <1>3, <1>4, WithinPut
<1>6. Within(<<>>, p, z, s)
  BY <1>4, WithinEmpty
<1> QED BY <1>1, <1>4, <1>5, <1>6 DEF Lined, N, s

\* ParserTake.
LEMMA LinedParse ==
  ASSUME NEW x \in Nat, NEW pq \in Seq(Byte), pq # <<>>, NEW c \in Seq(Byte),
         NEW iq \in Seq(Byte), NEW w \in Seq(Byte), NEW t \in Seq(Request),
         Lined(x, pq, c, iq, w, t)
  PROVE  \E y \in x + 1 .. 3 * Len(t) :
           Stream(t)[y] = Head(pq) /\ Lined(y, Tail(pq), c, iq, w, t)
<1> DEFINE N == 3 * Len(t)  s == Stream(t)
<1>1. PICK y \in Nat, z \in Nat, v \in Nat :
        /\ Within(pq, x, y, s) /\ Within(c, y, z, s)
        /\ Within(iq, z, v, s) /\ Within(w, v, N, s)
  BY DEF Lined
<1> HIDE DEF N, s
<1>2. PICK p \in x + 1 .. y : s[p] = Head(pq) /\ Within(Tail(pq), p, y, s)
  BY <1>1, WithinTake
<1>3. p \in Nat /\ x < p
  OBVIOUS
<1>4. Lined(p, Tail(pq), c, iq, w, t)
  BY <1>1, <1>2 DEF Lined, N, s
<1>5. p <= 3 * Len(t) /\ Len(t) \in Nat
  BY <1>3, <1>4, LinedOrder, HeadTailProperties, LenProperties
<1>6. p \in x + 1 .. 3 * Len(t)
  BY <1>3, <1>5
<1> QED BY <1>2, <1>4, <1>6 DEF s

-----------------------------------------------------------------------------
(* Requests in hand: those handled, those in the application queue and the   *)
(* one at its door are some of the first m of the requests sent.             *)

Handed(m, h, aq, ms, t) ==
  \E k, l \in Nat : Within(h, 0, k, t) /\ Within(aq, k, l, t) /\ Within(ms, l, m, t)

\* SendFrame.
LEMMA HandedSend ==
  ASSUME NEW m \in Nat, NEW h \in Seq(Request), NEW aq \in Seq(Request),
         NEW ms \in Seq(Request), NEW t \in Seq(Request), NEW r \in Request,
         m <= Len(t), Handed(m, h, aq, ms, t)
  PROVE  Handed(m, h, aq, ms, Append(t, r))
<1> DEFINE u == Append(t, r)
<1>1. PICK k \in Nat, l \in Nat :
        Within(h, 0, k, t) /\ Within(aq, k, l, t) /\ Within(ms, l, m, t)
  BY DEF Handed
<1>2. Len(t) \in Nat /\ \A i \in 1 .. Len(t) : u[i] = t[i]
  BY LenProperties, AppendProperties
<1> HIDE DEF u
<1>3. 0 \in Nat /\ 0 <= k /\ k <= l /\ l <= m
  BY <1>1, WithinOrder
<1>4. /\ \A n \in 0 + 1 .. k : u[n] = t[n]
      /\ \A n \in k + 1 .. l : u[n] = t[n]
      /\ \A n \in l + 1 .. m : u[n] = t[n]
  BY <1>2, <1>3
<1>5. Within(h, 0, k, u) /\ Within(aq, k, l, u) /\ Within(ms, l, m, u)
  BY <1>1, <1>3, <1>4, WithinExtended
<1> QED BY <1>5 DEF Handed, u

\* ParserTake, with a message.
LEMMA HandedReady ==
  ASSUME NEW m \in Nat, NEW h \in Seq(Request), NEW aq \in Seq(Request),
         NEW t \in Seq(Request), NEW n \in Nat, m < n, Handed(m, h, aq, <<>>, t)
  PROVE  Handed(n, h, aq, <<t[n]>>, t)
<1>1. PICK k \in Nat, l \in Nat :
        Within(h, 0, k, t) /\ Within(aq, k, l, t) /\ Within(<<>>, l, m, t)
  BY DEF Handed
<1>2. l <= m
  <2>1. <<>> \in Seq(Request)
    OBVIOUS
  <2> QED BY <1>1, <2>1, WithinOrder, Zenon
<1>3. l < n
  BY <1>2
<1>4. Within(<<t[n]>>, l, n, t)
  BY <1>3, WithinOne
<1> QED BY <1>1, <1>4 DEF Handed

\* ParserTake, without one.
LEMMA HandedWiden ==
  ASSUME NEW m \in Nat, NEW h \in Seq(Request), NEW aq \in Seq(Request),
         NEW ms \in Seq(Request), NEW t \in Seq(Request), NEW n \in Nat, m <= n,
         Handed(m, h, aq, ms, t)
  PROVE  Handed(n, h, aq, ms, t)
<1>1. PICK k \in Nat, l \in Nat :
        Within(h, 0, k, t) /\ Within(aq, k, l, t) /\ Within(ms, l, m, t)
  BY DEF Handed
<1>2. l <= l
  OBVIOUS
<1>3. Within(ms, l, n, t)
  BY <1>1, <1>2, WithinWiden
<1> QED BY <1>1, <1>3 DEF Handed

\* ParserHand.
LEMMA HandedOver ==
  ASSUME NEW m \in Nat, NEW h \in Seq(Request), NEW aq \in Seq(Request),
         NEW r \in Request, NEW t \in Seq(Request), Handed(m, h, aq, <<r>>, t)
  PROVE  Handed(m, h, Append(aq, r), <<>>, t)
<1>1. PICK k \in Nat, l \in Nat :
        Within(h, 0, k, t) /\ Within(aq, k, l, t) /\ Within(<<r>>, l, m, t)
  BY DEF Handed
<1>2. <<r>> \in Seq(Request) /\ <<r>> # <<>> /\ Head(<<r>>) = r
  OBVIOUS
<1>3. PICK p \in l + 1 .. m : t[p] = Head(<<r>>) /\ Within(Tail(<<r>>), p, m, t)
  BY <1>1, <1>2, WithinTake, Zenon
<1>4. p \in Nat /\ l < p /\ p <= m
  OBVIOUS
<1>5. Within(Append(aq, r), k, p, t)
  BY <1>1, <1>2, <1>3, <1>4, WithinPut
<1>6. Within(<<>>, p, m, t)
  BY <1>4, WithinEmpty
<1> QED BY <1>1, <1>4, <1>5, <1>6 DEF Handed

\* AppTake.
LEMMA HandedTake ==
  ASSUME NEW m \in Nat, NEW h \in Seq(Request), NEW aq \in Seq(Request), aq # <<>>,
         NEW ms \in Seq(Request), NEW t \in Seq(Request), Handed(m, h, aq, ms, t)
  PROVE  Handed(m, Append(h, Head(aq)), Tail(aq), ms, t)
<1>1. PICK k \in Nat, l \in Nat :
        Within(h, 0, k, t) /\ Within(aq, k, l, t) /\ Within(ms, l, m, t)
  BY DEF Handed
<1>2. PICK p \in k + 1 .. l : t[p] = Head(aq) /\ Within(Tail(aq), p, l, t)
  BY <1>1, WithinTake
<1>3. p \in Nat /\ k < p /\ 0 \in Nat /\ Head(aq) \in Request
  BY HeadTailProperties
<1>4. Within(Append(h, Head(aq)), 0, p, t)
  BY <1>1, <1>2, <1>3, WithinPut
<1> QED BY <1>1, <1>2, <1>3, <1>4 DEF Handed

-----------------------------------------------------------------------------
(* What the parser makes of the bytes it gets.  Of the x bytes up to the one *)
(* it took last, those it was not given were lost on the way; every three of *)
(* them, given or lost, make for a message or a loss, but for the bytes of   *)
(* the frame it is in.  Here l is the sum of messages and losses.            *)

Begun(p) == CASE p.state = "WAIT_START" -> 0
              [] p.state = "READ_BODY"  -> 1
              [] p.state = "EXPECT_END" -> IF p.body \in Request THEN 2 ELSE 0

Reading(p, x, t) ==
  /\ p.state = "WAIT_START" => x = 0 \/ Stream(t)[x] # Start
  /\ p.state = "READ_BODY" => x > 0 /\ Stream(t)[x] = Start
  /\ p.state = "EXPECT_END" => x > 0 /\ Stream(t)[x] = p.body

Enough(p, x, l) == x <= 3 * l + Begun(p)

\* Between the byte at x, which the parser took last, and the one at y, which
\* it takes now, y - x - 1 bytes were lost.
LEMMA EnoughStep ==
  ASSUME NEW t \in Seq(Request), NEW p, NEW x \in Nat, NEW y \in x + 1 .. 3 * Len(t),
         NEW l \in Int,
         p.state \in {"WAIT_START", "READ_BODY", "EXPECT_END"},
         Reading(p, x, t), Enough(p, x, l)
  PROVE  LET step == Consume(p, Stream(t)[y])
             ready == IF step.result = "MESSAGE_READY" THEN 1 ELSE 0
         IN Reading(step.next, y, t) /\ Enough(step.next, y, l + ready + (y - x - 1))
<1> DEFINE b == Stream(t)[y]
<1>1. Len(t) \in Nat /\ y \in Nat /\ x < y /\ y \in 1 .. 3 * Len(t)
  BY LenProperties
<1>2. PICK j \in 0 .. Len(t) - 1 :
           \/ y = 3 * j + 1 /\ b = Start
           \/ y = 3 * j + 2 /\ b = t[j + 1] /\ b \in Request
           \/ y = 3 * j + 3 /\ b = End
  BY <1>1, StreamPart
<1> DEFINE step == Consume(p, b)
           ready == IF step.result = "MESSAGE_READY" THEN 1 ELSE 0
<1>g. SUFFICES Reading(step.next, y, t) /\ Enough(step.next, y, l + ready + (y - x - 1))
  OBVIOUS
<1>b. b = Stream(t)[y]
  OBVIOUS
<1> HIDE DEF b
<1>3. CASE x = 0
  <2>1. p.state = "WAIT_START"
    BY <1>3 DEF Reading
  <2>2. 0 <= 3 * l
    BY <1>3, <2>1 DEF Enough, Begun
  <2>3. CASE b = Start
    <3>1. Consume(p, b) = [result |-> "IN_PROGRESS",
                           next |-> [state |-> "READ_BODY", body |-> None]]
      BY <2>1, <2>3 DEF Consume
    <3>2. Begun(Consume(p, b).next) = 1 /\ Reading(Consume(p, b).next, y, t)
      BY <1>1, <1>b, <2>3, <3>1 DEF Begun, Reading
    <3>3. y <= 3 * (l + 0 + (y - x - 1)) + 1
      BY <1>1, <1>3, <2>2
    <3> QED BY <3>1, <3>2, <3>3 DEF Enough
  <2>4. CASE b # Start
    <3>1. Consume(p, b) = [result |-> "IN_PROGRESS", next |-> p]
      BY <2>1, <2>4 DEF Consume
    <3>2. Begun(p) = 0 /\ Reading(p, y, t)
      BY <1>b, <2>1, <2>4 DEF Begun, Reading
    <3>3. y >= 2
      BY <1>1, <1>2, <2>4
    <3>4. y <= 3 * (l + 0 + (y - x - 1)) + 0
      BY <1>1, <1>3, <2>2, <3>3
    <3> QED BY <3>1, <3>2, <3>4 DEF Enough
  <2> QED BY <2>3, <2>4
<1>4. CASE x # 0
  <2>1. x \in 1 .. 3 * Len(t)
    BY <1>1, <1>4
  <2> DEFINE a == Stream(t)[x]
  <2>2. PICK k \in 0 .. Len(t) - 1 :
           \/ x = 3 * k + 1 /\ a = Start
           \/ x = 3 * k + 2 /\ a = t[k + 1] /\ a \in Request
           \/ x = 3 * k + 3 /\ a = End
    BY <2>1, StreamPart
  <2> HIDE DEF a
  <2>k. k \in Nat /\ j \in Nat /\ l \in Int
    OBVIOUS
  <2>3. CASE p.state = "WAIT_START"
    <3>1. a # Start /\ x <= 3 * l
      BY <1>4, <2>3 DEF Reading, Enough, Begun, a
    <3>2. CASE b = Start
      <4>1. Consume(p, b) = [result |-> "IN_PROGRESS",
                             next |-> [state |-> "READ_BODY", body |-> None]]
        BY <2>3, <3>2 DEF Consume
      <4>2. Begun(Consume(p, b).next) = 1 /\ Reading(Consume(p, b).next, y, t)
        BY <1>1, <1>b, <3>2, <4>1 DEF Begun, Reading
      <4>3. y <= 3 * (l + 0 + (y - x - 1)) + 1
        BY <1>1, <3>1
      <4> QED BY <4>1, <4>2, <4>3 DEF Enough
    <3>3. CASE b # Start
      <4>1. Consume(p, b) = [result |-> "IN_PROGRESS", next |-> p]
        BY <2>3, <3>3 DEF Consume
      <4>2. Begun(p) = 0 /\ Reading(p, y, t)
        BY <1>b, <2>3, <3>3 DEF Begun, Reading
      <4>3. y <= 3 * (l + 0 + (y - x - 1)) + 0
        <5>1. CASE x = 3 * k + 2
          <6>1. k + 1 <= l
            BY <2>k, <3>1, <5>1
          <6> QED BY <1>1, <2>k, <5>1, <6>1
        <5>2. CASE x = 3 * k + 3
          <6>1. k + 1 <= l /\ (y = 3 * j + 2 \/ y = 3 * j + 3)
            BY <1>2, <2>k, <3>1, <3>3, <5>2
          <6> QED BY <1>1, <2>k, <5>2, <6>1
        <5> QED BY <2>2, <3>1, <5>1, <5>2
      <4> QED BY <4>1, <4>2, <4>3 DEF Enough
    <3> QED BY <3>2, <3>3
  <2>4. CASE p.state = "READ_BODY"
    <3>1. a = Start /\ x <= 3 * l + 1
      BY <1>4, <2>4 DEF Reading, Enough, Begun, a
    <3>2. x = 3 * k + 1
      BY <2>2, <3>1, BytesDiffer
    <3>3. Consume(p, b) = [result |-> "IN_PROGRESS",
                           next |-> [state |-> "EXPECT_END", body |-> b]]
      BY <2>4 DEF Consume
    <3>4. Begun(Consume(p, b).next) = (IF b \in Request THEN 2 ELSE 0)
          /\ Reading(Consume(p, b).next, y, t)
      BY <1>1, <1>b, <3>3 DEF Begun, Reading
    <3>5. CASE b \in Request
      <4>1. y <= 3 * (l + 0 + (y - x - 1)) + 2
        BY <1>1, <3>1
      <4> QED BY <3>3, <3>4, <3>5, <4>1 DEF Enough
    <3>6. CASE b \notin Request
      <4>1. y <= 3 * (l + 0 + (y - x - 1)) + 0
        BY <1>1, <1>2, <2>k, <3>1, <3>2, <3>6
      <4> QED BY <3>3, <3>4, <3>6, <4>1 DEF Enough
    <3> QED BY <3>5, <3>6
  <2>5. CASE p.state = "EXPECT_END" /\ b = End /\ p.body \in Request
    <3>1. x <= 3 * l + 2
      BY <2>5 DEF Enough, Begun
    <3>2. Consume(p, b) = [result |-> "MESSAGE_READY", next |-> Waiting]
      BY <2>5 DEF Consume
    <3>3. Begun(Consume(p, b).next) = 0 /\ Reading(Consume(p, b).next, y, t)
      BY <1>b, <2>5, <3>2, BytesDiffer DEF Begun, Reading, Waiting
    <3>4. y <= 3 * (l + 1 + (y - x - 1)) + 0
      BY <1>1, <3>1
    <3> QED BY <3>2, <3>3, <3>4 DEF Enough
  <2>6. CASE p.state = "EXPECT_END" /\ ~(b = End /\ p.body \in Request)
    <3>1. p.body = a
      BY <2>6 DEF Reading, a
    <3>2. Consume(p, b) = [result |-> "ERROR", next |-> AfterFail(b)]
      BY <2>6 DEF Consume
    <3>3. CASE b = Start
      <4>1. AfterFail(b) = [state |-> "READ_BODY", body |-> None]
        BY <3>3 DEF AfterFail
      <4>2. Begun(Consume(p, b).next) = 1 /\ Reading(Consume(p, b).next, y, t)
        BY <1>1, <1>b, <3>2, <3>3, <4>1 DEF Begun, Reading
      <4>3. x <= 3 * l + (IF a \in Request THEN 2 ELSE 0)
        BY <2>6, <3>1 DEF Enough, Begun
      <4>4. y <= 3 * (l + 0 + (y - x - 1)) + 1
        BY <1>1, <1>2, <2>2, <2>k, <3>3, <4>3, BytesDiffer
      <4> QED BY <3>2, <4>2, <4>4 DEF Enough
    <3>4. CASE b # Start
      <4>1. AfterFail(b) = Waiting
        BY <3>4 DEF AfterFail
      <4>2. Begun(Consume(p, b).next) = 0 /\ Reading(Consume(p, b).next, y, t)
        BY <1>1, <1>b, <3>2, <3>4, <4>1 DEF Begun, Reading, Waiting
      <4>3. x <= 3 * l + (IF a \in Request THEN 2 ELSE 0)
        BY <2>6, <3>1 DEF Enough, Begun
      <4>4. y <= 3 * (l + 0 + (y - x - 1)) + 0
        BY <1>1, <1>2, <2>2, <2>6, <2>k, <3>1, <3>4, <4>3, BytesDiffer
      <4> QED BY <3>2, <4>2, <4>4 DEF Enough
    <3> QED BY <3>3, <3>4
  <2> QED BY <2>3, <2>4, <2>5, <2>6
<1> QED BY <1>3, <1>4

-----------------------------------------------------------------------------
(* Tallies: the counters against the requests they count. *)

Slot(m) == IF m = None THEN <<>> ELSE <<m>>

RecordOK == sent \in Seq(Request) /\ handled \in Seq(Request)

Tallied ==
  /\ count["irq"] + Len(wire) = 3 * Len(sent)
  /\ count["pm"] = Len(handled) + Len(appq) + Len(Slot(parser_msg))
  /\ count["rx"] = Len(handled)

LEMMA SlotProperties ==
  ASSUME NEW m \in Request \cup {None}
  PROVE  /\ Slot(m) \in Seq(Request)
         /\ m = None => Slot(m) = <<>> /\ Len(Slot(m)) = 0
         /\ m # None => Slot(m) = <<m>> /\ Len(Slot(m)) = 1 /\ m \in Request
<1>1. CASE m = None
  <2>1. Slot(m) = <<>>
    BY <1>1 DEF Slot
  <2> QED BY <1>1, <2>1, EmptySeq
<1>2. CASE m # None
  <2>1. Slot(m) = <<m>> /\ m \in Request
    BY <1>2 DEF Slot
  <2> QED BY <1>2, <2>1
<1> QED BY <1>1, <1>2

LEMMA NoneIsNoRequest == None \notin Request
BY DEF None, Request, LedCommand

LEMMA RecordStep == PipeTypeOK /\ RecordOK /\ [Next]_rvars => RecordOK'
<1> SUFFICES ASSUME PipeTypeOK, RecordOK, [Next]_rvars PROVE RecordOK'
  OBVIOUS
<1>1. CASE UNCHANGED <<sent, handled>>
  BY <1>1 DEF RecordOK
<1>2. ASSUME NEW r \in Requests, SendFrame(r) PROVE RecordOK'
  <2>1. r \in Request /\ sent' = Append(sent, r) /\ handled' = handled
    BY <1>2, PipelineAssumption DEF SendFrame, appVars
  <2> QED BY <2>1, AppendProperties DEF RecordOK
<1>3. CASE AppTake
  <2>1. Head(appq) \in Request
    BY <1>3, TakeProperties DEF AppTake, PipeTypeOK, HandlingOK
  <2>2. handled' = Append(handled, Head(appq)) /\ sent' = sent
    BY <1>3 DEF AppTake, lineVars
  <2> QED BY <2>1, <2>2, AppendProperties DEF RecordOK
<1>4. CASE \/ TasksStart \/ Isr \/ CatchUp \/ RxTake \/ RxHand \/ ParserTake
           \/ ParserHand \/ UNCHANGED rvars
  BY <1>1, <1>4 DEF TasksStart, Isr, CatchUp, RxTake, RxHand, ParserTake, ParserHand,
                    rvars, lineVars, appVars
<1>5. CASE \/ (\E c \in Foreign : AppRead(c)) \/ AppActuate \/ AppAnswer \/ AppCount
           \/ Actuate \/ Transmit
  BY <1>1, <1>5 DEF AppRead, AppActuate, AppAnswer, AppCount, AppDoes, Actuate, Transmit,
                    lineVars, appVars
<1> QED BY <1>2, <1>3, <1>4, <1>5 DEF Next, RxTask, ParserTask, AppTask, Finished

LEMMA CountOf ==
  ASSUME PipeTypeOK
  PROVE  /\ count \in [Counter -> Nat]
         /\ \A c \in Counter : count[c] \in Nat
         /\ {"irq", "pb", "pm", "pe", "qd", "rx", "ae"} \subseteq Counter
BY DEF PipeTypeOK, ReceptionOK, Counter, Foreign

\* What task_parser counts for a byte.
LEMMA ParserCounts ==
  ASSUME PipeTypeOK, ParserTake
  PROVE  LET step == Consume(parser, Head(parserq)) IN
         /\ count' \in [Counter -> Nat]
         /\ count'["pb"] = count["pb"] + 1
         /\ count'["pm"] = count["pm"] + (IF step.result = "MESSAGE_READY" THEN 1 ELSE 0)
         /\ count'["pe"] = count["pe"] + (IF step.result = "ERROR" THEN 1 ELSE 0)
         /\ \A c \in {"irq", "qd", "rx", "ae"} : count'[c] = count[c]
<1> DEFINE step == Consume(parser, Head(parserq))
           ms == IF step.result = "MESSAGE_READY" THEN {"pm"} ELSE {}
           es == IF step.result = "ERROR" THEN {"pe"} ELSE {}
           cs == {"pb"} \cup ms \cup es
<1>1. Counted(cs)
  BY Zenon DEF ParserTake
<1>2. /\ "pb" \in cs /\ ("pm" \in cs <=> step.result = "MESSAGE_READY")
      /\ ("pe" \in cs <=> step.result = "ERROR")
      /\ \A c \in {"irq", "qd", "rx", "ae"} : c \notin cs
  OBVIOUS
<1> HIDE DEF cs, step
<1>3. /\ count' \in [Counter -> Nat]
      /\ \A c \in Counter : count'[c] = IF c \in cs THEN count[c] + 1 ELSE count[c]
  BY <1>1, CountOf, CountedProperties
<1>4. /\ count'["pb"] = count["pb"] + 1
      /\ count'["pm"] = IF "pm" \in cs THEN count["pm"] + 1 ELSE count["pm"]
      /\ count'["pe"] = IF "pe" \in cs THEN count["pe"] + 1 ELSE count["pe"]
      /\ \A c \in {"irq", "qd", "rx", "ae"} : count'[c] = count[c]
  BY <1>2, <1>3, CountOf
<1> QED BY <1>2, <1>3, <1>4, CountOf DEF step

\* task_app counts what it takes, and unknown commands.
LEMMA AppTakeCounts ==
  ASSUME PipeTypeOK, AppTake
  PROVE  /\ count' \in [Counter -> Nat] /\ count'["rx"] = count["rx"] + 1
         /\ \A c \in {"irq", "qd", "pb", "pm", "pe", "ae"} : count'[c] = count[c]
<1>1. Counted({"rx"})
  BY DEF AppTake
<1> QED BY <1>1, CountOf, CountedProperties

LEMMA AppCountCounts ==
  ASSUME PipeTypeOK, AppCount
  PROVE  /\ count' \in [Counter -> Nat]
         /\ \A c \in {"irq", "qd", "pb", "pm", "pe", "rx"} : count'[c] = count[c]
<1>1. Counted({"ae"})
  BY DEF AppCount
<1> QED BY <1>1, CountOf, CountedProperties

LEMMA IsrCounts ==
  ASSUME PipeTypeOK, Isr
  PROVE  /\ count' \in [Counter -> Nat] /\ count'["irq"] = count["irq"] + 1
         /\ count'["qd"] \in {count["qd"], count["qd"] + 1}
         /\ \A c \in {"pb", "pm", "pe", "rx", "ae"} : count'[c] = count[c]
<1>1. Counted(Arrival) /\ Arrival \in {{"irq"}, {"irq", "qd"}}
  BY DEF Isr, Arrival
<1> QED BY <1>1, CountOf, CountedProperties

LEMMA TalliedStep ==
  PipeTypeOK /\ PipeTypeOK' /\ RecordOK /\ Tallied /\ [Next]_rvars => Tallied'
<1> SUFFICES ASSUME PipeTypeOK, PipeTypeOK', RecordOK, Tallied, [Next]_rvars
             PROVE  Tallied'
  OBVIOUS
<1>c. /\ count["irq"] \in Nat /\ count["pm"] \in Nat /\ count["rx"] \in Nat
      /\ count["irq"] + Len(wire) = 3 * Len(sent)
      /\ count["pm"] = Len(handled) + Len(appq) + Len(Slot(parser_msg))
      /\ count["rx"] = Len(handled)
  BY CountOf DEF Tallied
<1>t. /\ wire \in Seq(Byte) /\ appq \in Seq(Request) /\ parser_msg \in Request \cup {None}
      /\ sent \in Seq(Request) /\ handled \in Seq(Request)
  BY DEF PipeTypeOK, ReceptionOK, HandlingOK, RecordOK
<1>n. /\ Len(wire) \in Nat /\ Len(appq) \in Nat /\ Len(sent) \in Nat
      /\ Len(handled) \in Nat /\ Len(Slot(parser_msg)) \in Nat
  BY <1>t, LenProperties, SlotProperties
<1>1. CASE UNCHANGED <<sent, wire, handled, appq, parser_msg>>
           /\ count'["irq"] = count["irq"] /\ count'["pm"] = count["pm"]
           /\ count'["rx"] = count["rx"]
  BY <1>1 DEF Tallied
<1>2. ASSUME NEW r \in Requests, SendFrame(r) PROVE Tallied'
  <2>1. /\ r \in Request /\ wire = <<>> /\ wire' = <<Start, r, End>>
        /\ sent' = Append(sent, r) /\ UNCHANGED <<handled, appq, parser_msg, count>>
    BY <1>2, PipelineAssumption DEF SendFrame, appVars, parserVars
  <2>2. Len(wire) = 0 /\ Len(wire') = 3 /\ Len(sent') = Len(sent) + 1
    BY <1>t, <2>1, AppendProperties, EmptySeq
  <2>3. count["irq"] + 3 = 3 * (Len(sent) + 1)
    BY <1>c, <1>n, <2>2
  <2> QED BY <1>c, <2>1, <2>2, <2>3 DEF Tallied
<1>3. CASE Isr
  <2>1. /\ wire # <<>> /\ wire' = Tail(wire) /\ UNCHANGED <<sent, handled, appq, parser_msg>>
    BY <1>3 DEF Isr, appVars, parserVars
  <2>2. Len(wire') = Len(wire) - 1
    BY <1>t, <2>1, TakeProperties
  <2> QED BY <1>3, <1>c, <1>n, <2>1, <2>2, IsrCounts DEF Tallied
<1>4. CASE ParserTake
  <2> DEFINE step == Consume(parser, Head(parserq))
  <2>1. /\ UNCHANGED <<sent, wire, handled, appq>> /\ parser_msg = None
        /\ parser_msg' = IF step.result = "MESSAGE_READY" THEN parser.body ELSE None
    BY <1>4 DEF ParserTake, lineVars, appVars
  <2>2. step.result = "MESSAGE_READY" => parser.body \in Request
    BY <1>t, ConsumeProperties DEF PipeTypeOK, HandlingOK
  <2> HIDE DEF step
  <2>3. /\ Len(Slot(parser_msg)) = 0
        /\ Len(Slot(parser_msg')) = IF step.result = "MESSAGE_READY" THEN 1 ELSE 0
    <3>1. parser_msg' \in Request \cup {None}
      BY <2>1, <2>2
    <3> QED BY <1>t, <2>1, <2>2, <3>1, SlotProperties, NoneIsNoRequest
  <2>4. /\ count'["irq"] = count["irq"] /\ count'["rx"] = count["rx"]
        /\ count'["pm"] = count["pm"] + (IF step.result = "MESSAGE_READY" THEN 1 ELSE 0)
    BY <1>4, ParserCounts DEF step
  <2> QED BY <1>c, <1>n, <2>1, <2>3, <2>4 DEF Tallied
<1>5. CASE ParserHand
  <2>1. /\ UNCHANGED <<sent, wire, handled, count>> /\ parser_msg # None
        /\ parser_msg' = None /\ appq' = Append(appq, parser_msg)
    BY <1>5 DEF ParserHand, lineVars, appVars, Put
  <2>2. /\ Len(Slot(parser_msg)) = 1 /\ Len(Slot(parser_msg')) = 0
        /\ Len(appq') = Len(appq) + 1
    BY <1>t, <2>1, SlotProperties, AppendProperties
  <2> QED BY <1>c, <1>n, <2>1, <2>2 DEF Tallied
<1>6. CASE AppTake
  <2>1. /\ UNCHANGED <<sent, wire, parser_msg>> /\ appq # <<>> /\ appq' = Tail(appq)
        /\ handled' = Append(handled, Head(appq))
    BY <1>6 DEF AppTake, lineVars, parserVars
  <2>2. Len(appq') = Len(appq) - 1 /\ Len(handled') = Len(handled) + 1
    BY <1>t, <2>1, TakeProperties, AppendProperties
  <2>3. /\ count'["irq"] = count["irq"] /\ count'["pm"] = count["pm"]
        /\ count'["rx"] = count["rx"] + 1
    BY <1>6, AppTakeCounts
  <2> QED BY <1>c, <1>n, <2>1, <2>2, <2>3 DEF Tallied
<1>7. CASE AppCount
  <2>1. UNCHANGED <<sent, wire, handled, appq, parser_msg>>
    BY <1>7 DEF AppCount, AppDoes, lineVars, parserVars
  <2> QED BY <1>1, <1>7, <2>1, AppCountCounts
<1>8. CASE \/ TasksStart \/ CatchUp \/ RxTake \/ RxHand \/ UNCHANGED rvars
  BY <1>1, <1>8 DEF TasksStart, CatchUp, RxTake, RxHand, rvars, lineVars, appVars,
                    parserVars
<1>9. CASE (\E c \in Foreign : AppRead(c)) \/ AppActuate \/ AppAnswer \/ Actuate \/ Transmit
  BY <1>1, <1>9 DEF AppRead, AppActuate, AppAnswer, AppDoes, Actuate, Transmit, lineVars,
                    appVars, parserVars
<1> QED BY <1>2, <1>3, <1>4, <1>5, <1>6, <1>7, <1>8, <1>9
        DEF Next, RxTask, ParserTask, AppTask, Finished

-----------------------------------------------------------------------------
(* The flow of requests: how far the parser is in the stream (x), and which  *)
(* of the requests sent may be in hand (the first m).                        *)

Flow(x, m) ==
  /\ Reading(parser, x, sent)
  /\ Enough(parser, x, count["pm"] + (x - count["pb"]))
  /\ Lined(x, parserq, Carried, isrq, wire, sent)
  /\ 3 * m <= x
  /\ Handed(m, handled, appq, Slot(parser_msg), sent)

FlowInv == \E x, m \in Nat : Flow(x, m)

LEMMA FlowInit == Init => FlowInv
<1> SUFFICES ASSUME Init PROVE FlowInv
  OBVIOUS
<1>1. /\ sent = <<>> /\ handled = <<>> /\ appq = <<>> /\ Slot(parser_msg) = <<>>
      /\ parserq = <<>> /\ Carried = <<>> /\ isrq = <<>> /\ wire = <<>>
  BY DEF Init, Slot, Carried
<1>2. /\ Len(sent) = 0 /\ 0 \in Nat /\ 0 <= 0 /\ 3 * 0 = 0
      /\ \A s : Within(<<>>, 0, 0, s)
  BY <1>1, WithinEmpty
<1>3. Lined(0, parserq, Carried, isrq, wire, sent)
  BY <1>1, <1>2 DEF Lined
<1>4. Handed(0, handled, appq, Slot(parser_msg), sent)
  BY <1>1, <1>2 DEF Handed
<1>5. Reading(parser, 0, sent)
  BY DEF Init, Waiting, Reading
<1>6. Enough(parser, 0, count["pm"] + (0 - count["pb"]))
  <2>1. count["pm"] = 0 /\ count["pb"] = 0 /\ Begun(parser) = 0
    BY DEF Init, Counter, Foreign, Begun, Waiting
  <2> QED BY <2>1 DEF Enough
<1> QED BY <1>2, <1>3, <1>4, <1>5, <1>6 DEF Flow, FlowInv

LEMMA FlowSend ==
  ASSUME PipeTypeOK, RecordOK, FlowInv, NEW r \in Requests, SendFrame(r)
  PROVE  FlowInv'
<1>1. PICK x \in Nat, m \in Nat : Flow(x, m)
  BY DEF FlowInv
<1>2. /\ r \in Request /\ wire = <<>> /\ wire' = <<Start, r, End>>
      /\ sent' = Append(sent, r)
      /\ UNCHANGED <<parserq, rx_byte, isrq, parser, parser_msg, appq, handled, count>>
  BY PipelineAssumption DEF SendFrame, rxVars, parserVars, appVars
<1>t. /\ sent \in Seq(Request) /\ handled \in Seq(Request) /\ appq \in Seq(Request)
      /\ Slot(parser_msg) \in Seq(Request) /\ parserq \in Seq(Byte)
      /\ Carried \in Seq(Byte) /\ isrq \in Seq(Byte) /\ wire \in Seq(Byte)
  BY SlotProperties, CarriedIsSeq DEF PipeTypeOK, ReceptionOK, HandlingOK, RecordOK
<1>3. x <= 3 * Len(sent) /\ Len(sent) \in Nat
  BY <1>1, <1>t, LinedOrder, LenProperties DEF Flow
<1>4. Carried' = Carried /\ Slot(parser_msg)' = Slot(parser_msg)
  BY <1>2 DEF Carried
<1>5. Lined(x, parserq, Carried, isrq, wire, sent)'
  <2>1. Lined(x, parserq, Carried, isrq, <<Start, r, End>>, Append(sent, r))
    BY <1>1, <1>2, <1>t, LinedSend DEF Flow
  <2> QED BY <1>2, <1>4, <2>1
<1>6. Handed(m, handled, appq, Slot(parser_msg), sent)'
  <2>1. m <= Len(sent)
    BY <1>1, <1>3 DEF Flow
  <2>2. Handed(m, handled, appq, Slot(parser_msg), Append(sent, r))
    BY <1>1, <1>2, <1>t, <2>1, HandedSend DEF Flow
  <2> QED BY <1>2, <1>4, <2>2
<1>7. Reading(parser, x, sent)'
  <2>1. x # 0 => Stream(Append(sent, r))[x] = Stream(sent)[x]
    BY <1>2, <1>3, <1>t, StreamAppend
  <2>2. Reading(parser, x, Append(sent, r))
    BY <1>1, <2>1 DEF Flow, Reading
  <2> QED BY <1>2, <2>2
<1>8. Enough(parser, x, count["pm"] + (x - count["pb"]))' /\ 3 * m <= x
  BY <1>1, <1>2 DEF Flow
<1> QED BY <1>5, <1>6, <1>7, <1>8 DEF Flow, FlowInv

\* What the flow rests on, and that it moves with the bytes in line only.
flowCounts == <<count["pm"], count["pb"]>>

LEMMA FlowInLine ==
  ASSUME NEW x \in Nat, NEW m \in Nat, Flow(x, m),
         UNCHANGED <<sent, parser, parser_msg, appq, handled, flowCounts>>,
         Lined(x, parserq, Carried, isrq, wire, sent)'
  PROVE  FlowInv'
<1>1. Slot(parser_msg)' = Slot(parser_msg)
  OBVIOUS
<1>2. Reading(parser, x, sent)' /\ Handed(m, handled, appq, Slot(parser_msg), sent)'
  BY <1>1 DEF Flow
<1>3. Enough(parser, x, count["pm"] + (x - count["pb"]))' /\ 3 * m <= x
  BY DEF Flow, flowCounts
<1> QED BY <1>2, <1>3 DEF Flow, FlowInv

LEMMA FlowTypes ==
  ASSUME PipeTypeOK, RecordOK
  PROVE  /\ sent \in Seq(Request) /\ handled \in Seq(Request) /\ appq \in Seq(Request)
         /\ parser_msg \in Request \cup {None}
         /\ Slot(parser_msg) \in Seq(Request) /\ parserq \in Seq(Byte)
         /\ Carried \in Seq(Byte) /\ isrq \in Seq(Byte) /\ wire \in Seq(Byte)
         /\ Len(sent) \in Nat
BY SlotProperties, CarriedIsSeq, LenProperties
   DEF PipeTypeOK, ReceptionOK, HandlingOK, RecordOK

LEMMA FlowIsr ==
  ASSUME PipeTypeOK, RecordOK, FlowInv, Isr
  PROVE  FlowInv'
<1>1. PICK x \in Nat, m \in Nat : Flow(x, m)
  BY DEF FlowInv
<1>2. /\ wire # <<>> /\ wire' = Tail(wire)
      /\ isrq' = isrq \/ isrq' = Append(isrq, Head(wire))
      /\ UNCHANGED <<sent, parserq, rx_byte, parser, parser_msg, appq, handled>>
  BY DEF Isr, Put, parserVars, appVars
<1>3. UNCHANGED flowCounts
  BY IsrCounts DEF flowCounts
<1>4. Carried' = Carried
  BY <1>2 DEF Carried
<1>5. /\ Lined(x, parserq, Carried, Append(isrq, Head(wire)), Tail(wire), sent)
      /\ Lined(x, parserq, Carried, isrq, Tail(wire), sent)
  BY <1>1, <1>2, FlowTypes, LinedIsr DEF Flow
<1>6. Lined(x, parserq, Carried, isrq, wire, sent)'
  BY <1>2, <1>4, <1>5
<1> QED BY <1>1, <1>2, <1>3, <1>6, FlowInLine

LEMMA FlowRxTake ==
  ASSUME PipeTypeOK, RecordOK, FlowInv, RxTake
  PROVE  FlowInv'
<1>1. PICK x \in Nat, m \in Nat : Flow(x, m)
  BY DEF FlowInv
<1>2. /\ isrq # <<>> /\ isrq' = Tail(isrq) /\ rx_byte = None /\ rx_byte' = Head(isrq)
      /\ UNCHANGED <<sent, wire, parserq, parser, parser_msg, appq, handled, count>>
  BY DEF RxTake, lineVars, parserVars, appVars
<1>3. UNCHANGED flowCounts
  BY <1>2 DEF flowCounts
<1>4. Carried = <<>> /\ Carried' = <<Head(isrq)>>
  <2>1. Head(isrq) # None
    BY <1>2, FlowTypes, HeadTailProperties, BytesDiffer
  <2> QED BY <1>2, <2>1 DEF Carried
<1>5. Lined(x, parserq, <<Head(isrq)>>, Tail(isrq), wire, sent)
  BY <1>1, <1>2, <1>4, FlowTypes, LinedTake DEF Flow
<1>6. Lined(x, parserq, Carried, isrq, wire, sent)'
  BY <1>2, <1>4, <1>5
<1> QED BY <1>1, <1>2, <1>3, <1>6, FlowInLine

LEMMA FlowRxHand ==
  ASSUME PipeTypeOK, RecordOK, FlowInv, RxHand
  PROVE  FlowInv'
<1>1. PICK x \in Nat, m \in Nat : Flow(x, m)
  BY DEF FlowInv
<1>2. /\ rx_byte # None /\ rx_byte' = None /\ rx_byte \in Byte
      /\ parserq' = Append(parserq, rx_byte)
      /\ UNCHANGED <<sent, wire, isrq, parser, parser_msg, appq, handled, count>>
  BY DEF RxHand, Put, lineVars, parserVars, appVars, PipeTypeOK, ReceptionOK
<1>3. UNCHANGED flowCounts
  BY <1>2 DEF flowCounts
<1>4. Carried = <<rx_byte>> /\ Carried' = <<>>
  BY <1>2 DEF Carried
<1>5. Lined(x, Append(parserq, rx_byte), <<>>, isrq, wire, sent)
  BY <1>1, <1>2, <1>4, FlowTypes, LinedHand DEF Flow
<1>6. Lined(x, parserq, Carried, isrq, wire, sent)'
  BY <1>2, <1>4, <1>5
<1> QED BY <1>1, <1>2, <1>3, <1>6, FlowInLine

\* The request whose end comes at y stands behind those in hand.
LEMMA FlowParserTake ==
  ASSUME PipeTypeOK, RecordOK, FlowInv, ParserTake
  PROVE  FlowInv'
<1> DEFINE b == Head(parserq)
           step == Consume(parser, b)
           ready == IF step.result = "MESSAGE_READY" THEN 1 ELSE 0
<1>1. PICK x \in Nat, m \in Nat : Flow(x, m)
  BY DEF FlowInv
<1>2. /\ parserq # <<>> /\ parserq' = Tail(parserq) /\ parser' = step.next
      /\ parser_msg = None
      /\ parser_msg' = IF step.result = "MESSAGE_READY" THEN parser.body ELSE None
      /\ UNCHANGED <<sent, wire, isrq, rx_byte, appq, handled>>
  BY DEF ParserTake, lineVars, rxVars, appVars
<1>3. count'["pm"] = count["pm"] + ready /\ count'["pb"] = count["pb"] + 1
  BY ParserCounts
<1>c. count["pm"] \in Nat /\ count["pb"] \in Nat
  BY CountOf
<1>s. parser.state \in {"WAIT_START", "READ_BODY", "EXPECT_END"}
  BY DEF PipeTypeOK, HandlingOK
<1> HIDE DEF b
<1>4. PICK y \in x + 1 .. 3 * Len(sent) :
        Stream(sent)[y] = b /\ Lined(y, Tail(parserq), Carried, isrq, wire, sent)
  BY <1>1, <1>2, FlowTypes, LinedParse DEF Flow, b
<1>y. y \in Nat /\ x < y
  BY FlowTypes
<1>5. Reading(step.next, y, sent)
      /\ Enough(step.next, y, (count["pm"] + (x - count["pb"])) + ready + (y - x - 1))
  <2>1. count["pm"] + (x - count["pb"]) \in Int
    BY <1>c
  <2> QED BY <1>1, <1>4, <1>s, <2>1, FlowTypes, EnoughStep DEF Flow
<1>6. Enough(parser, y, count["pm"] + (y - count["pb"]))'
  <2>1. (count["pm"] + (x - count["pb"])) + ready + (y - x - 1)
          = (count["pm"] + ready) + (y - (count["pb"] + 1))
    BY <1>c, <1>y
  <2> QED BY <1>2, <1>3, <1>5, <2>1
<1>7. Reading(parser, y, sent)'
  BY <1>2, <1>5
<1>8. Lined(y, parserq, Carried, isrq, wire, sent)'
  <2>1. Carried' = Carried
    BY <1>2 DEF Carried
  <2> QED BY <1>2, <1>4, <2>1
<1>9. \E n \in Nat : 3 * n <= y /\ Handed(n, handled, appq, Slot(parser_msg), sent)'
  <2>1. Handed(m, handled, appq, <<>>, sent)
    BY <1>1, <1>2, FlowTypes, SlotProperties DEF Flow
  <2>2. CASE step.result = "MESSAGE_READY"
    <3>1. parser.state = "EXPECT_END" /\ parser.body \in Request
      <4>1. parser.state = "WAIT_START" => step.result = "IN_PROGRESS"
        BY DEF Consume
      <4>2. parser.state = "READ_BODY" => step.result = "IN_PROGRESS"
        BY DEF Consume
      <4> QED BY <1>s, <2>2, <4>1, <4>2, ConsumeProperties
    <3>2. x > 0 /\ Stream(sent)[x] = parser.body
      BY <1>1, <3>1 DEF Flow, Reading
    <3>3. x \in 1 .. 3 * Len(sent)
      BY <1>y, <3>2, FlowTypes
    <3>p. PICK k \in 0 .. Len(sent) - 1 :
             \/ x = 3 * k + 1 /\ Stream(sent)[x] = Start
             \/ x = 3 * k + 2 /\ Stream(sent)[x] = sent[k + 1] /\ Stream(sent)[x] \in Request
             \/ x = 3 * k + 3 /\ Stream(sent)[x] = End
      BY <3>3, FlowTypes, StreamPart, Zenon
    <3>4. x = 3 * k + 2 /\ parser.body = sent[k + 1]
      BY <3>1, <3>2, <3>p, BytesDiffer
    <3>5. k + 1 \in Nat /\ m < k + 1 /\ 3 * (k + 1) <= y
      BY <1>1, <1>y, <3>4 DEF Flow
    <3>6. Handed(k + 1, handled, appq, <<sent[k + 1]>>, sent)
      BY <2>1, <3>5, FlowTypes, HandedReady
    <3>7. Slot(parser_msg)' = <<sent[k + 1]>>
      BY <1>2, <2>2, <3>1, <3>4, NoneIsNoRequest DEF Slot
    <3>8. Handed(k + 1, handled, appq, Slot(parser_msg), sent)'
      BY <1>2, <3>6, <3>7
    <3> QED BY <3>5, <3>8
  <2>3. CASE step.result # "MESSAGE_READY"
    <3>1. Slot(parser_msg)' = <<>>
      BY <1>2, <2>3 DEF Slot
    <3>2. Handed(m, handled, appq, Slot(parser_msg), sent)'
      BY <1>2, <2>1, <3>1
    <3>3. 3 * m <= y
      BY <1>1, <1>y DEF Flow
    <3> QED BY <3>2, <3>3
  <2> QED BY <2>2, <2>3
<1> QED BY <1>6, <1>7, <1>8, <1>9, <1>y DEF Flow, FlowInv

LEMMA FlowParserHand ==
  ASSUME PipeTypeOK, RecordOK, FlowInv, ParserHand
  PROVE  FlowInv'
<1>1. PICK x \in Nat, m \in Nat : Flow(x, m)
  BY DEF FlowInv
<1>2. /\ parser_msg # None /\ parser_msg' = None /\ appq' = Append(appq, parser_msg)
      /\ UNCHANGED <<sent, wire, isrq, rx_byte, parserq, parser, handled, count>>
  BY DEF ParserHand, Put, lineVars, rxVars, appVars
<1>3. Slot(parser_msg) = <<parser_msg>> /\ parser_msg \in Request /\ Slot(parser_msg)' = <<>>
  BY <1>2, FlowTypes, SlotProperties DEF Slot
<1>4. Handed(m, handled, Append(appq, parser_msg), <<>>, sent)
  BY <1>1, <1>3, FlowTypes, HandedOver DEF Flow
<1>5. Handed(m, handled, appq, Slot(parser_msg), sent)'
  BY <1>2, <1>3, <1>4
<1>6. Lined(x, parserq, Carried, isrq, wire, sent)' /\ Reading(parser, x, sent)'
  BY <1>1, <1>2 DEF Flow, Carried
<1>7. Enough(parser, x, count["pm"] + (x - count["pb"]))' /\ 3 * m <= x
  BY <1>1, <1>2 DEF Flow
<1> QED BY <1>5, <1>6, <1>7 DEF Flow, FlowInv

LEMMA FlowAppTake ==
  ASSUME PipeTypeOK, RecordOK, FlowInv, AppTake
  PROVE  FlowInv'
<1>1. PICK x \in Nat, m \in Nat : Flow(x, m)
  BY DEF FlowInv
<1>2. /\ appq # <<>> /\ appq' = Tail(appq) /\ handled' = Append(handled, Head(appq))
      /\ UNCHANGED <<sent, wire, isrq, rx_byte, parserq, parser, parser_msg>>
  BY DEF AppTake, lineVars, rxVars, parserVars
<1>3. count'["pm"] = count["pm"] /\ count'["pb"] = count["pb"]
  BY AppTakeCounts
<1>4. Handed(m, Append(handled, Head(appq)), Tail(appq), Slot(parser_msg), sent)
  BY <1>1, <1>2, FlowTypes, HandedTake DEF Flow
<1>5. Handed(m, handled, appq, Slot(parser_msg), sent)'
  BY <1>2, <1>4
<1>6. Lined(x, parserq, Carried, isrq, wire, sent)' /\ Reading(parser, x, sent)'
  BY <1>1, <1>2 DEF Flow, Carried
<1>7. Enough(parser, x, count["pm"] + (x - count["pb"]))' /\ 3 * m <= x
  BY <1>1, <1>2, <1>3 DEF Flow
<1> QED BY <1>5, <1>6, <1>7 DEF Flow, FlowInv

LEMMA FlowElsewhere ==
  ASSUME PipeTypeOK, RecordOK, FlowInv,
         UNCHANGED <<sent, wire, isrq, rx_byte, parserq, parser, parser_msg, appq, handled,
                     flowCounts>>
  PROVE  FlowInv'
<1>1. PICK x \in Nat, m \in Nat : Flow(x, m)
  BY DEF FlowInv
<1>2. Lined(x, parserq, Carried, isrq, wire, sent)'
  BY <1>1 DEF Flow, Carried
<1> QED BY <1>1, <1>2, FlowInLine

LEMMA FlowStep == PipeTypeOK /\ RecordOK /\ FlowInv /\ [Next]_rvars => FlowInv'
<1> SUFFICES ASSUME PipeTypeOK, RecordOK, FlowInv, [Next]_rvars PROVE FlowInv'
  OBVIOUS
<1>1. CASE TasksStart \/ CatchUp \/ UNCHANGED rvars
  BY <1>1, FlowElsewhere DEF TasksStart, CatchUp, rvars, lineVars, rxVars, parserVars,
                             appVars, flowCounts
<1>2. CASE (\E c \in Foreign : AppRead(c)) \/ AppActuate \/ AppAnswer \/ Actuate \/ Transmit
  BY <1>2, FlowElsewhere DEF AppRead, AppActuate, AppAnswer, AppDoes, Actuate, Transmit,
                             lineVars, rxVars, parserVars, appVars, flowCounts
<1>3. CASE AppCount
  <2>1. UNCHANGED <<sent, wire, isrq, rx_byte, parserq, parser, parser_msg, appq, handled>>
    BY <1>3 DEF AppCount, AppDoes, lineVars, rxVars, parserVars
  <2>2. UNCHANGED flowCounts
    BY <1>3, AppCountCounts DEF flowCounts
  <2> QED BY <2>1, <2>2, FlowElsewhere
<1> QED BY <1>1, <1>2, <1>3, FlowSend, FlowIsr, FlowRxTake, FlowRxHand, FlowParserTake,
           FlowParserHand, FlowAppTake
        DEF Next, RxTask, ParserTask, AppTask, Finished

\* All of it holds together.
RequestInv == PipeTypeOK /\ RecordOK /\ Tallied /\ FlowInv

LEMMA RequestInvHolds == Spec => []RequestInv
<1>1. Init => RequestInv
  <2> SUFFICES ASSUME Init PROVE RequestInv
    OBVIOUS
  <2>1. PipeTypeOK /\ FlowInv
    BY TypeInit, FlowInit
  <2>2. /\ sent = <<>> /\ handled = <<>> /\ wire = <<>> /\ appq = <<>>
        /\ Slot(parser_msg) = <<>>
    BY DEF Init, Slot
  <2>3. RecordOK
    BY <2>2, EmptySeq DEF RecordOK
  <2>4. count["irq"] = 0 /\ count["pm"] = 0 /\ count["rx"] = 0
    BY DEF Init, Counter, Foreign
  <2>5. Tallied
    BY <2>2, <2>4, EmptySeq DEF Tallied
  <2> QED BY <2>1, <2>3, <2>5 DEF RequestInv
<1>2. RequestInv /\ [Next]_rvars => RequestInv'
  BY ReceptionStep, HandlingStep, RecordStep, TalliedStep, FlowStep
     DEF RequestInv, PipeTypeOK
<1> QED BY <1>1, <1>2, PTL DEF Spec

-----------------------------------------------------------------------------
(* Loss and order *)

\* No more requests are short than bytes: s were sent and r arrived, x of the
\* bytes came through, p were parsed and b of them wait to make up a request.
LEMMA Shortfall ==
  ASSUME NEW s \in Nat, NEW r \in Nat, NEW x \in Nat, NEW p \in Nat, NEW q \in Nat,
         NEW l \in Nat, NEW b \in 0 .. 2,
         x <= 3 * s, x <= 3 * (r + (x - p)) + b, 3 * s = l + q + p
  PROVE  s - r <= q + l
OBVIOUS

\* For all lengths of the queues, however many bytes a full queue or the start
\* of the scheduler swallows: once all has been taken in, no more requests are
\* missing than bytes were lost, because the parser starts over at a wrong byte
\* and looks at it again.
THEOREM LossCostsOne == Spec => []LossCostsOneRequest
<1>1. RequestInv /\ EveryByteAccounted => LossCostsOneRequest
  <2> SUFFICES ASSUME RequestInv, EveryByteAccounted, Quiet
               PROVE  Len(sent) - count["rx"] <= count["qd"] + boot_lost
    BY DEF LossCostsOneRequest
  <2>1. PICK x \in Nat, m \in Nat : Flow(x, m)
    BY DEF RequestInv, FlowInv
  <2>t. PipeTypeOK /\ RecordOK /\ Tallied
    BY DEF RequestInv
  <2>2. x <= 3 * Len(sent) /\ Len(sent) \in Nat
    BY <2>1, <2>t, FlowTypes, LinedOrder DEF Flow
  <2>3. Begun(parser) \in 0 .. 2
    BY <2>t DEF Begun, PipeTypeOK, HandlingOK
  <2>4. x <= 3 * (count["pm"] + (x - count["pb"])) + Begun(parser)
    BY <2>1 DEF Flow, Enough
  <2>5. count["irq"] = 3 * Len(sent) /\ count["pm"] = count["rx"]
    <3>1. wire = <<>> /\ appq = <<>> /\ Slot(parser_msg) = <<>>
      BY DEF Quiet, Slot
    <3>2. Len(wire) = 0 /\ Len(appq) = 0 /\ Len(Slot(parser_msg)) = 0
      BY <3>1, EmptySeq
    <3> QED BY <2>t, <3>2, CountOf, LenProperties DEF Tallied, RecordOK
  <2>6. Held = 0
    <3>1. /\ parserq \o Carried \in Seq(Byte)
          /\ parserq = <<>> /\ Carried = <<>> /\ isrq = <<>>
      <4>1. parserq \o Carried \in Seq(Byte)
        BY <2>t, FlowTypes, ConcatProperties
      <4>2. parserq \o Carried = <<>> /\ isrq = <<>>
        BY <2>t, <4>1, FlowTypes, ConcatEqualIffEmpty DEF Quiet, Inside
      <4> QED BY <2>t, <4>1, <4>2, FlowTypes, ConcatEqualIffEmpty
    <3> QED BY <3>1, EmptySeq DEF Held
  <2>7. count["irq"] = boot_lost + count["qd"] + count["pb"]
    BY <2>t, <2>6, CountOf DEF EveryByteAccounted, PipeTypeOK, ReceptionOK
  <2>8. /\ count["pm"] \in Nat /\ count["pb"] \in Nat /\ count["qd"] \in Nat
        /\ count["rx"] \in Nat /\ boot_lost \in Nat
    BY <2>t, CountOf DEF PipeTypeOK, ReceptionOK
  <2>9. x <= 3 * (count["rx"] + (x - count["pb"])) + Begun(parser)
    BY <2>4, <2>5, Zenon
  <2>10. 3 * Len(sent) = boot_lost + count["qd"] + count["pb"]
    BY <2>5, <2>7, Zenon
  <2> QED BY <2>1, <2>2, <2>3, <2>8, <2>9, <2>10, Shortfall, Zenon
<1> QED BY <1>1, RequestInvHolds, BytesAccounted, PTL

LEMMA WithinIsSubsequence ==
  ASSUME NEW S, NEW q \in Seq(S), NEW t \in Seq(S), NEW b \in Nat, b <= Len(t),
         Within(q, 0, b, t)
  PROVE  IsSubsequence(q, t)
<1>1. Len(q) \in Nat /\ Len(t) \in Nat /\ Len(q) <= b - 0
  BY LenProperties DEF Within
<1>2. PICK f : Placed(f, q, 0, b, t)
  BY DEF Within
<1>3. ASSUME NEW i \in 1 .. Len(q) PROVE f[i] \in 1 .. Len(t) /\ q[i] = t[f[i]]
  <2>1. f[i] \in Int /\ 0 + i <= f[i] /\ f[i] <= b - Len(q) + i /\ t[f[i]] = q[i]
    BY <1>2, PlacedAt
  <2> QED BY <1>1, <2>1
<1>4. ASSUME NEW i \in 1 .. Len(q), NEW j \in 1 .. Len(q), i < j PROVE f[i] < f[j]
  <2>1. f[i] \in Int /\ f[j] \in Int /\ f[j] - f[i] >= j - i
    BY <1>2, <1>4, PlacedAt
  <2> QED BY <1>4, <2>1
<1>5. f \in [1 .. Len(q) -> 1 .. Len(t)]
  BY <1>2, <1>3 DEF Placed
<1> QED BY <1>3, <1>4, <1>5 DEF IsSubsequence

\* For all lengths of the queues: the application handles requests that were
\* sent, each at most once and in their order, and those it has handled are the
\* first that were sent as long as no byte was lost.
THEOREM HandledInOrderOfSending == Spec => []HandledInOrder
<1>1. RequestInv /\ EveryByteAccounted => HandledInOrder
  <2> SUFFICES ASSUME RequestInv, EveryByteAccounted PROVE HandledInOrder
    OBVIOUS
  <2>t. PipeTypeOK /\ RecordOK /\ Tallied
    BY DEF RequestInv
  <2>1. PICK x \in Nat, m \in Nat : Flow(x, m)
    BY DEF RequestInv, FlowInv
  <2>2. PICK k \in Nat, l \in Nat : /\ Within(handled, 0, k, sent)
                                    /\ Within(appq, k, l, sent)
                                    /\ Within(Slot(parser_msg), l, m, sent)
    BY <2>1 DEF Flow, Handed
  <2>3. /\ Len(handled) \in Nat /\ Len(appq) \in Nat /\ Len(Slot(parser_msg)) \in Nat
        /\ Len(handled) <= k - 0 /\ Len(appq) <= l - k /\ Len(Slot(parser_msg)) <= m - l
    BY <2>2, <2>t, FlowTypes, LenProperties DEF Within
  <2>4. x <= 3 * Len(sent) /\ Len(sent) \in Nat /\ 3 * m <= x
    BY <2>1, <2>t, FlowTypes, LinedOrder DEF Flow
  <2>5. k <= Len(sent)
    BY <2>3, <2>4
  <2>6. IsSubsequence(handled, sent)
    BY <2>2, <2>5, <2>t, FlowTypes, WithinIsSubsequence
  <2>7. ASSUME count["qd"] + boot_lost = 0 PROVE IsPrefix(handled, sent)
    <3> DEFINE N == 3 * Len(sent)
    <3>1. PICK y \in Nat, z \in Nat, v \in Nat :
            /\ Within(parserq, x, y, Stream(sent)) /\ Within(Carried, y, z, Stream(sent))
            /\ Within(isrq, z, v, Stream(sent)) /\ Within(wire, v, N, Stream(sent))
      BY <2>1 DEF Flow, Lined
    <3>2. /\ Len(parserq) \in Nat /\ Len(Carried) \in Nat /\ Len(isrq) \in Nat
          /\ Len(wire) \in Nat
          /\ Len(parserq) <= y - x /\ Len(Carried) <= z - y /\ Len(isrq) <= v - z
          /\ Len(wire) <= N - v
      BY <2>t, <3>1, FlowTypes, LenProperties DEF Within
    <3>3. /\ count["pm"] \in Nat /\ count["pb"] \in Nat /\ count["qd"] \in Nat
          /\ count["irq"] \in Nat /\ boot_lost \in Nat
      BY <2>t, CountOf DEF PipeTypeOK, ReceptionOK
    <3>4. x <= count["pb"]
      <4>1. count["irq"] + Len(wire) = N /\ N \in Nat
        BY <2>4, <2>t DEF Tallied
      <4>2. count["irq"] = Len(parserq) + Len(Carried) + Len(isrq) + count["pb"]
        BY <2>7, <3>2, <3>3 DEF EveryByteAccounted, Held
      <4> HIDE DEF N
      <4> QED BY <3>2, <3>3, <4>1, <4>2
    <3>5. Begun(parser) \in 0 .. 2
      BY <2>t DEF Begun, PipeTypeOK, HandlingOK
    <3>6. x <= 3 * (count["pm"] + (x - count["pb"])) + Begun(parser)
      BY <2>1 DEF Flow, Enough
    <3>7. m <= count["pm"]
      BY <2>4, <3>3, <3>4, <3>5, <3>6
    <3>8. count["pm"] = Len(handled) + Len(appq) + Len(Slot(parser_msg))
      BY <2>t DEF Tallied
    <3>9. k <= 0 + Len(handled) /\ Len(handled) <= Len(sent)
      BY <2>3, <2>5, <3>3, <3>7, <3>8
    <3>10. \A i \in 1 .. Len(handled) : sent[i] = handled[i]
      <4>1. 0 \in Nat /\ handled \in Seq(Request)
        BY <2>t, FlowTypes
      <4>2. \A i \in 1 .. Len(handled) : sent[0 + i] = handled[i]
        BY <2>2, <3>9, <4>1, WithinAll
      <4> QED BY <2>3, <4>2
    <3>11. SubSeq(handled, 1, Len(handled)) = SubSeq(sent, 1, Len(handled))
      <4>1. /\ \A i \in 1 .. Len(handled) : handled[i] \in Request /\ sent[i] \in Request
            /\ 1 \in Int /\ Len(handled) \in Int
        BY <2>3, <2>t, <3>10, FlowTypes, ElementOfSeq
      <4>2. /\ SubSeq(handled, 1, Len(handled)) \in Seq(Request)
            /\ SubSeq(sent, 1, Len(handled)) \in Seq(Request)
            /\ Len(SubSeq(handled, 1, Len(handled))) = Len(handled)
            /\ Len(SubSeq(sent, 1, Len(handled))) = Len(handled)
        BY <2>3, <4>1, SubSeqProperties
      <4>3. \A i \in 1 .. Len(handled) :
               SubSeq(handled, 1, Len(handled))[i] = SubSeq(sent, 1, Len(handled))[i]
        <5> SUFFICES ASSUME NEW i \in 1 .. Len(handled)
                     PROVE  SubSeq(handled, 1, Len(handled))[i]
                              = SubSeq(sent, 1, Len(handled))[i]
          OBVIOUS
        <5>1. i \in 1 .. Len(handled) - 1 + 1 /\ 1 + i - 1 = i
          BY <2>3
        <5>2. /\ SubSeq(handled, 1, Len(handled))[i] = handled[1 + i - 1]
              /\ SubSeq(sent, 1, Len(handled))[i] = sent[1 + i - 1]
          BY <4>1, <5>1, SubSeqProperties
        <5> QED BY <3>10, <5>1, <5>2
      <4> QED BY <4>2, <4>3, SeqEqual
    <3> QED BY <3>9, <3>11 DEF IsPrefix
  <2> QED BY <2>6, <2>7 DEF HandledInOrder
<1> QED BY <1>1, RequestInvHolds, BytesAccounted, PTL

-----------------------------------------------------------------------------
(* The report *)

\* The parser has a message for which there is no room.
Stuck == parser_msg # None /\ ~Room(appq, AppLength)

\* What is still to do for a message: to read the counters that are not in the
\* report yet, and to answer after the last one.
TodoOK ==
  /\ message = None <=> todo = <<>>
  /\ message # None => started
  /\ message = "status" =>
       /\ Len(todo) >= 1 /\ todo[Len(todo)] = "answer"
       /\ \A i \in 1 .. Len(todo) - 1 : todo[i] \in Foreign
       /\ \A c \in Foreign \ DOMAIN report : \E i \in 1 .. Len(todo) : todo[i] = c
  /\ message # "status" =>
       /\ report = <<>>
       /\ \A i \in 1 .. Len(todo) : todo[i] \notin Foreign

\* The numbers read so far.  Since the tasks of the higher priority were idle
\* when the first one was read, all bytes counted before have been parsed, or
\* the parser waits for the application.
ReadOK ==
  /\ asked \in Nat
  /\ message = "status" =>
       /\ asked <= count["irq"]
       /\ DOMAIN report \subseteq Foreign
       /\ \A c \in DOMAIN report : report[c] \in Nat /\ report[c] <= count[c]
       /\ "irq" \in DOMAIN report => asked <= report["irq"]
       /\ "pm" \in DOMAIN report => count["rx"] <= report["pm"]
       /\ "pb" \in DOMAIN report => \/ asked <= report["pb"] + boot_lost + count["qd"]
                                    \/ Stuck /\ count["pb"] = report["pb"]

\* A message takes three bytes, and an error at least one more than those that
\* are part of the next frame.
Parts(p) == CASE p.state = "WAIT_START" -> 0
              [] p.state = "READ_BODY"  -> 1
              [] p.state = "EXPECT_END" -> 2
PartsOK == 3 * count["pm"] + count["pe"] + Parts(parser) <= count["pb"]

LEMMA TodoInit == Init => TodoOK
<1> SUFFICES ASSUME Init PROVE TodoOK
  OBVIOUS
<1>1. message = None /\ todo = <<>> /\ report = <<>>
  BY DEF Init
<1>2. None # "status" /\ Len(<<>>) = 0
  BY DEF None
<1> QED BY <1>1, <1>2 DEF TodoOK

\* What is to do after a request has been taken.
LEMMA TodoNew ==
  ASSUME NEW r \in Request, r # "status"
  PROVE  /\ r \in LedCommand => Todo(r) = <<"actuate", "answer">>
         /\ r = "ping" => Todo(r) = <<"answer">>
         /\ r = "unknown" => Todo(r) = <<"answer", "count">>
         /\ r \in {"ack", "dat"} => Todo(r) = <<>>
         /\ r \in LedCommand \cup {"ping", "unknown", "ack", "dat"}
         /\ \A i \in 1 .. Len(Todo(r)) : Todo(r)[i] \notin Foreign
<1> DEFINE rest(t) == \A i \in 1 .. Len(t) : t[i] \notin Foreign
<1>1. /\ r \in LedCommand => Todo(r) = <<"actuate", "answer">>
      /\ r = "ping" => Todo(r) = <<"answer">>
      /\ r = "unknown" => Todo(r) = <<"answer", "count">>
      /\ r \in {"ack", "dat"} => Todo(r) = <<>>
      /\ r \in LedCommand \cup {"ping", "unknown", "ack", "dat"}
  BY DEF Todo, Request, LedCommand
<1>2. "actuate" \notin Foreign /\ "answer" \notin Foreign /\ "count" \notin Foreign
  BY DEF Foreign
<1>3. rest(<<"actuate", "answer">>) /\ rest(<<"answer">>) /\ rest(<<"answer", "count">>)
  BY <1>2
<1>4. rest(<<>>)
  OBVIOUS
<1> HIDE DEF rest
<1>5. rest(Todo(r))
  BY <1>1, <1>3, <1>4
<1> QED BY <1>1, <1>5 DEF rest

LEMMA TodoStatus ==
  ASSUME NEW reading \in ReadOrders
  PROVE  LET todos == reading \o Todo("status") IN
         /\ Len(todos) = 6 /\ todos # <<>> /\ todos[6] = "answer"
         /\ \A i \in 1 .. 5 : todos[i] \in Foreign
         /\ \A c \in Foreign : \E i \in 1 .. 6 : todos[i] = c
<1>1. reading \in [1 .. 5 -> Foreign] /\ \A c \in Foreign : \E i \in 1 .. 5 : reading[i] = c
  BY PipelineAssumption
<1> DEFINE S == Foreign \cup {"answer"}
<1>2. reading \in Seq(S) /\ Len(reading) = 5
  <2>1. reading \in [1 .. 5 -> S]
    BY <1>1
  <2>2. reading \in Seq(S)
    BY <2>1, SeqDef
  <2>3. Len(reading) \in Nat /\ 1 .. Len(reading) = 1 .. 5
    BY <2>1, <2>2, LenProperties, Zenon
  <2>4. Len(reading) = 5
    <3> DEFINE n == Len(reading)
    <3> HIDE DEF n
    <3>1. n \in Nat /\ 5 \in 1 .. n /\ (n \in 1 .. n <=> n \in 1 .. 5)
      <4>1. 5 \in 1 .. 5
        OBVIOUS
      <4> QED BY <2>3, <4>1 DEF n
    <3>2. n = 5
      BY <3>1
    <3> QED BY <3>2 DEF n
  <2> QED BY <2>2, <2>4
<1>3. Todo("status") = <<"answer">> /\ <<"answer">> \in Seq(S) /\ Len(<<"answer">>) = 1
  BY DEF Todo, LedCommand
<1> HIDE DEF S
<1> DEFINE todos == reading \o <<"answer">>
<1>4. /\ Len(todos) = 5 + 1
      /\ \A i \in 1 .. 5 + 1 : todos[i] = IF i <= 5 THEN reading[i] ELSE <<"answer">>[i - 5]
  <2>1. /\ Len(todos) = Len(reading) + Len(<<"answer">>)
        /\ \A i \in 1 .. Len(reading) + Len(<<"answer">>) :
             todos[i] = IF i <= Len(reading) THEN reading[i]
                                            ELSE <<"answer">>[i - Len(reading)]
    BY <1>2, <1>3, ConcatProperties, Zenon
  <2> HIDE DEF todos
  <2> QED BY <1>2, <1>3, <2>1
<1>5. Len(todos) = 6 /\ todos[6] = "answer" /\ \A i \in 1 .. 5 : todos[i] = reading[i]
  BY <1>4
<1>6. todos # <<>>
  BY <1>5, EmptySeq
<1> HIDE DEF todos
<1>7. \A c \in Foreign : \E i \in 1 .. 6 : todos[i] = c
  BY <1>1, <1>5
<1> QED BY <1>1, <1>3, <1>5, <1>6, <1>7 DEF todos

LEMMA TodoAppTake ==
  ASSUME PipeTypeOK, TodoOK, AppTake
  PROVE  TodoOK'
<1> DEFINE r == Head(appq)
<1>1. /\ todo = <<>> /\ started /\ started' = started /\ report' = report
      /\ message = None /\ report = <<>>
  BY DEF AppTake, TodoOK, lineVars, None
<1>2. r \in Request
  BY TakeProperties DEF AppTake, PipeTypeOK, HandlingOK
<1>3. CASE r = "status"
  <2>1. PICK reading \in ReadOrders : todo' = reading \o Todo("status")
    BY <1>3 DEF AppTake
  <2>2. /\ Len(todo') = 6 /\ todo' # <<>> /\ todo'[6] = "answer"
        /\ \A i \in 1 .. 5 : todo'[i] \in Foreign
        /\ \A c \in Foreign : \E i \in 1 .. 6 : todo'[i] = c
    BY <2>1, TodoStatus
  <2>3. message' = "status" /\ "status" # None
    BY <1>3, <2>2 DEF AppTake, None
  <2> QED BY <1>1, <2>2, <2>3 DEF TodoOK
<1>4. CASE r # "status"
  <2>1. todo' = Todo(r)
    BY <1>4 DEF AppTake
  <2>2. \A i \in 1 .. Len(todo') : todo'[i] \notin Foreign
    BY <1>2, <1>4, <2>1, TodoNew
  <2>3. message' = IF todo' = <<>> THEN None ELSE r
    BY <1>1 DEF AppTake
  <2>4. message' # "status" /\ (message' = None <=> todo' = <<>>)
    BY <1>2, <1>4, <2>3, NoneIsNoRequest DEF None
  <2> QED BY <1>1, <2>2, <2>4 DEF TodoOK
<1> QED BY <1>3, <1>4

\* The head of what is to do is done, and the rest remains.
LEMMA TodoRest ==
  ASSUME PipeTypeOK, TodoOK, NEW what, AppDoes(what)
  PROVE  /\ todo # <<>> /\ todo[1] = what /\ todo' = Tail(todo)
         /\ Len(todo) \in Nat \ {0} /\ Len(todo') = Len(todo) - 1
         /\ \A i \in 1 .. Len(todo') : todo'[i] = todo[i + 1]
         /\ todo' = <<>> <=> Len(todo) = 1
         /\ message # None /\ message' = IF todo' = <<>> THEN None ELSE message
         /\ asked' = IF todo' = <<>> THEN 0 ELSE asked
         /\ started /\ UNCHANGED <<started, boot_lost, parser_msg, appq, parser>>
<1>1. todo \in Seq(Job(message)) /\ todo # <<>> /\ Head(todo) = what /\ todo' = Tail(todo)
  BY DEF AppDoes, PipeTypeOK, HandlingOK
<1>2. /\ todo' \in Seq(Job(message)) /\ Len(todo) \in Nat \ {0} /\ Len(todo') = Len(todo) - 1
      /\ \A i \in 1 .. Len(todo') : todo'[i] = todo[i + 1]
  BY <1>1, HeadTailProperties, EmptySeq
<1>3. todo' = <<>> <=> Len(todo) = 1
  BY <1>2, EmptySeq
<1>4. todo[1] = Head(todo)
  OBVIOUS
<1>5. message # None /\ started
  BY <1>1 DEF TodoOK
<1> QED BY <1>1, <1>2, <1>3, <1>4, <1>5 DEF AppDoes, lineVars, parserVars

LEMMA TodoAppRead ==
  ASSUME PipeTypeOK, TodoOK, NEW c \in Foreign, AppRead(c)
  PROVE  /\ TodoOK' /\ message = "status" /\ UNCHANGED <<message, asked>>
         /\ DOMAIN report' = DOMAIN report \cup {c} /\ report'[c] = count[c]
         /\ \A d \in DOMAIN report : d # c => report'[d] = report[d]
<1>1. /\ todo # <<>> /\ todo[1] = c /\ todo' = Tail(todo)
      /\ Len(todo) \in Nat \ {0} /\ Len(todo') = Len(todo) - 1
      /\ \A i \in 1 .. Len(todo') : todo'[i] = todo[i + 1]
      /\ todo' = <<>> <=> Len(todo) = 1
      /\ message # None /\ message' = IF todo' = <<>> THEN None ELSE message
      /\ asked' = IF todo' = <<>> THEN 0 ELSE asked
      /\ started /\ UNCHANGED started
  BY TodoRest DEF AppRead
<1>2. message = "status"
  BY <1>1 DEF TodoOK
<1>3. /\ todo[Len(todo)] = "answer" /\ \A i \in 1 .. Len(todo) - 1 : todo[i] \in Foreign
      /\ \A d \in Foreign \ DOMAIN report : \E i \in 1 .. Len(todo) : todo[i] = d
  BY <1>2 DEF TodoOK
<1>4. Len(todo) > 1
  BY <1>1, <1>3 DEF Foreign
<1>5. todo' # <<>> /\ message' = "status" /\ asked' = asked
  BY <1>1, <1>2, <1>4
<1>6. report' = [d \in DOMAIN report \cup {c} |-> IF d = c THEN count[c] ELSE report[d]]
  BY DEF AppRead
<1>7. /\ DOMAIN report' = DOMAIN report \cup {c} /\ report'[c] = count[c]
      /\ \A d \in DOMAIN report : d # c => report'[d] = report[d]
  BY <1>6
<1>8. todo'[Len(todo')] = "answer" /\ \A i \in 1 .. Len(todo') - 1 : todo'[i] \in Foreign
  BY <1>1, <1>3, <1>4
<1>9. ASSUME NEW d \in Foreign \ DOMAIN report' PROVE \E i \in 1 .. Len(todo') : todo'[i] = d
  <2>1. PICK i \in 1 .. Len(todo) : todo[i] = d
    BY <1>3, <1>7
  <2>2. i # 1
    BY <1>1, <1>7, <2>1
  <2>3. i - 1 \in 1 .. Len(todo') /\ todo'[i - 1] = todo[(i - 1) + 1] /\ (i - 1) + 1 = i
    BY <1>1, <2>2
  <2> QED BY <2>1, <2>3
<1>10. TodoOK'
  BY <1>1, <1>4, <1>5, <1>8, <1>9 DEF TodoOK, None
<1> QED BY <1>2, <1>5, <1>7, <1>10

\* Anything but a reading comes last for status?, after all readings.
LEMMA TodoFinish ==
  ASSUME PipeTypeOK, TodoOK, NEW what, what \notin Foreign, AppDoes(what),
         report' = IF what = "answer" THEN <<>> ELSE report
  PROVE  TodoOK' /\ message' # "status" /\ asked' \in {0, asked}
<1>1. /\ todo # <<>> /\ todo[1] = what /\ todo' = Tail(todo)
      /\ Len(todo) \in Nat \ {0} /\ Len(todo') = Len(todo) - 1
      /\ \A i \in 1 .. Len(todo') : todo'[i] = todo[i + 1]
      /\ todo' = <<>> <=> Len(todo) = 1
      /\ message # None /\ message' = IF todo' = <<>> THEN None ELSE message
      /\ asked' = IF todo' = <<>> THEN 0 ELSE asked
      /\ started /\ UNCHANGED started
  BY TodoRest
<1>2. CASE message = "status"
  <2>1. todo[Len(todo)] = "answer" /\ \A i \in 1 .. Len(todo) - 1 : todo[i] \in Foreign
    BY <1>2 DEF TodoOK
  <2>2. Len(todo) = 1
    BY <1>1, <2>1
  <2>3. what = "answer"
    BY <1>1, <2>1, <2>2
  <2>4. report' = <<>> /\ todo' = <<>> /\ message' = None /\ Len(todo') = 0
    BY <1>1, <2>2, <2>3
  <2>5. None # "status"
    BY DEF None
  <2> QED BY <1>1, <2>4, <2>5 DEF TodoOK
<1>3. CASE message # "status"
  <2>1. report = <<>> /\ \A i \in 1 .. Len(todo) : todo[i] \notin Foreign
    BY <1>3 DEF TodoOK
  <2>2. report' = <<>>
    BY <2>1
  <2>3. message' # "status"
    BY <1>1, <1>3 DEF None
  <2>4. \A i \in 1 .. Len(todo') : todo'[i] \notin Foreign
    <3>1. \A i \in 1 .. Len(todo') : i + 1 \in 1 .. Len(todo)
      BY <1>1
    <3> QED BY <1>1, <2>1, <3>1
  <2> QED BY <1>1, <2>2, <2>3, <2>4 DEF TodoOK
<1> QED BY <1>2, <1>3

LEMMA AppFinishes ==
  ASSUME PipeTypeOK, TodoOK, AppActuate \/ AppAnswer \/ AppCount
  PROVE  TodoOK' /\ message' # "status" /\ asked' \in {0, asked}
<1>1. "actuate" \notin Foreign /\ "answer" \notin Foreign /\ "count" \notin Foreign
  BY DEF Foreign
<1>2. CASE AppActuate
  BY <1>1, <1>2, TodoFinish DEF AppActuate
<1>3. CASE AppAnswer
  BY <1>1, <1>3, TodoFinish DEF AppAnswer
<1>4. CASE AppCount
  BY <1>1, <1>4, TodoFinish DEF AppCount
<1> QED BY <1>2, <1>3, <1>4

\* The steps that are not those of task_app.
Elsewhere ==
  \/ \E r \in Requests : SendFrame(r)
  \/ TasksStart \/ Isr \/ CatchUp \/ RxTask \/ ParserTask \/ Actuate \/ Transmit

LEMMA NextIs == [Next]_rvars => AppTask \/ Elsewhere \/ UNCHANGED rvars
BY DEF Next, Elsewhere, Finished

LEMMA ElsewhereLeaves ==
  ASSUME Elsewhere
  PROVE  UNCHANGED <<message, todo, report, handled, asked>> /\ (started => started')
BY DEF Elsewhere, SendFrame, TasksStart, Isr, CatchUp, RxTask, RxTake, RxHand, ParserTask,
       ParserTake, ParserHand, Actuate, Transmit, appVars, lineVars

LEMMA TodoStep == PipeTypeOK /\ TodoOK /\ [Next]_rvars => TodoOK'
<1> SUFFICES ASSUME PipeTypeOK, TodoOK, [Next]_rvars PROVE TodoOK'
  OBVIOUS
<1>1. CASE UNCHANGED <<message, todo, report>> /\ (started => started')
  BY <1>1 DEF TodoOK
<1>2. CASE Elsewhere \/ UNCHANGED rvars
  BY <1>1, <1>2, ElsewhereLeaves DEF rvars, appVars, lineVars
<1>3. CASE AppTask
  BY <1>3, TodoAppTake, TodoAppRead, AppFinishes DEF AppTask
<1> QED BY <1>2, <1>3, NextIs

LEMMA PartsStep == PipeTypeOK /\ PartsOK /\ [Next]_rvars => PartsOK'
<1> SUFFICES ASSUME PipeTypeOK, PartsOK, [Next]_rvars PROVE PartsOK'
  OBVIOUS
<1>c. count["pm"] \in Nat /\ count["pe"] \in Nat /\ count["pb"] \in Nat
  BY CountOf
<1>1. CASE /\ parser' = parser /\ count'["pm"] = count["pm"]
           /\ count'["pe"] = count["pe"] /\ count'["pb"] = count["pb"]
  BY <1>1 DEF PartsOK, Parts
<1>2. CASE ParserTake
  <2> DEFINE b == Head(parserq)
             step == Consume(parser, b)
  <2>1. /\ count'["pb"] = count["pb"] + 1
        /\ count'["pm"] = count["pm"] + (IF step.result = "MESSAGE_READY" THEN 1 ELSE 0)
        /\ count'["pe"] = count["pe"] + (IF step.result = "ERROR" THEN 1 ELSE 0)
    BY <1>2, ParserCounts
  <2>2. parser' = step.next
    BY <1>2 DEF ParserTake
  <2>3. parser.state \in {"WAIT_START", "READ_BODY", "EXPECT_END"}
    BY DEF PipeTypeOK, HandlingOK
  <2> HIDE DEF b
  <2>4. Parts(parser') + 3 * (IF step.result = "MESSAGE_READY" THEN 1 ELSE 0)
          + (IF step.result = "ERROR" THEN 1 ELSE 0) <= Parts(parser) + 1
    <3>1. CASE parser.state = "WAIT_START"
      BY <2>2, <3>1 DEF Consume, Parts
    <3>2. CASE parser.state = "READ_BODY"
      BY <2>2, <3>2 DEF Consume, Parts
    <3>3. CASE parser.state = "EXPECT_END" /\ b = End /\ parser.body \in Request
      BY <2>2, <3>3 DEF Consume, Parts, Waiting
    <3>4. CASE parser.state = "EXPECT_END" /\ ~(b = End /\ parser.body \in Request)
      <4>1. step = [result |-> "ERROR", next |-> AfterFail(b)]
        BY <3>4 DEF Consume
      <4>2. Parts(AfterFail(b)) \in 0 .. 1 /\ Parts(parser) = 2
        BY <3>4 DEF AfterFail, Waiting, Parts
      <4> QED BY <2>2, <4>1, <4>2
    <3> QED BY <2>3, <3>1, <3>2, <3>3, <3>4
  <2>5. Parts(parser) \in 0 .. 2 /\ Parts(parser') \in 0 .. 2
    <3>1. parser'.state \in {"WAIT_START", "READ_BODY", "EXPECT_END"}
      BY <2>2, <2>3, ConsumeProperties
    <3> QED BY <2>3, <3>1 DEF Parts
  <2>6. 3 * count["pm"] + count["pe"] + Parts(parser) <= count["pb"]
    BY DEF PartsOK
  <2> DEFINE m == IF step.result = "MESSAGE_READY" THEN 1 ELSE 0
             e == IF step.result = "ERROR" THEN 1 ELSE 0
  <2>7. m \in 0 .. 1 /\ e \in 0 .. 1
    OBVIOUS
  <2>8. Parts(parser') + 3 * m + e <= Parts(parser) + 1
    BY <2>4
  <2>9. count'["pm"] = count["pm"] + m /\ count'["pe"] = count["pe"] + e
    BY <2>1
  <2> HIDE DEF m, e, step
  <2>10. 3 * (count["pm"] + m) + (count["pe"] + e) + Parts(parser') <= count["pb"] + 1
    BY <1>c, <2>5, <2>6, <2>7, <2>8
  <2> QED BY <2>1, <2>9, <2>10 DEF PartsOK
<1>3. CASE Isr
  BY <1>1, <1>3, IsrCounts DEF Isr, parserVars
<1>4. CASE AppTake
  BY <1>1, <1>4, AppTakeCounts DEF AppTake, parserVars
<1>5. CASE AppCount
  <2>1. UNCHANGED parser
    BY <1>5 DEF AppCount, AppDoes, parserVars
  <2> QED BY <1>1, <1>5, <2>1, AppCountCounts
<1>6. CASE \/ (\E r \in Requests : SendFrame(r)) \/ TasksStart \/ CatchUp \/ RxTake \/ RxHand
           \/ ParserHand \/ (\E c \in Foreign : AppRead(c)) \/ AppActuate \/ AppAnswer
           \/ Actuate \/ Transmit \/ UNCHANGED rvars
  <2>1. UNCHANGED <<parser, count>>
    BY <1>6 DEF SendFrame, TasksStart, CatchUp, RxTake, RxHand, ParserHand, AppRead,
                AppActuate, AppAnswer, AppDoes, Actuate, Transmit, parserVars, rvars
  <2> QED BY <1>1, <2>1
<1> QED BY <1>2, <1>3, <1>4, <1>5, <1>6
        DEF Next, RxTask, ParserTask, AppTask, Finished

\* What is read of the counters stays true of them while they grow.
LEMMA ReadKept ==
  ASSUME PipeTypeOK, PipeTypeOK', ReadOK, UNCHANGED <<message, asked, report>>,
         \A c \in Foreign : count'[c] >= count[c], count'["rx"] = count["rx"],
         boot_lost' >= boot_lost, Stuck => Stuck' /\ count'["pb"] = count["pb"]
  PROVE  ReadOK'
<1>1. CASE message # "status"
  BY <1>1 DEF ReadOK
<1>2. CASE message = "status"
  <2>1. /\ asked \in Nat /\ asked <= count["irq"] /\ DOMAIN report \subseteq Foreign
        /\ \A c \in DOMAIN report : report[c] \in Nat /\ report[c] <= count[c]
        /\ "irq" \in DOMAIN report => asked <= report["irq"]
        /\ "pm" \in DOMAIN report => count["rx"] <= report["pm"]
        /\ "pb" \in DOMAIN report => \/ asked <= report["pb"] + boot_lost + count["qd"]
                                     \/ Stuck /\ count["pb"] = report["pb"]
    BY <1>2 DEF ReadOK
  <2>2. /\ \A c \in Foreign : count[c] \in Nat /\ count'[c] \in Nat
        /\ boot_lost \in Nat /\ boot_lost' \in Nat
    BY DEF PipeTypeOK, ReceptionOK, Counter
  <2>3. "irq" \in Foreign /\ "qd" \in Foreign /\ "pb" \in Foreign
    BY DEF Foreign
  <2>4. asked' = asked /\ report' = report /\ asked <= count'["irq"]
    BY <2>1, <2>2, <2>3
  <2>5. \A c \in DOMAIN report : report[c] \in Nat /\ report[c] <= count'[c]
    BY <2>1, <2>2
  <2>6. "pb" \in DOMAIN report => \/ asked <= report["pb"] + boot_lost' + count'["qd"]
                                  \/ Stuck' /\ count'["pb"] = report["pb"]
    BY <2>1, <2>2, <2>3
  <2>7. "pm" \in DOMAIN report => count'["rx"] <= report["pm"]
    BY <2>1
  <2> HIDE DEF Stuck
  <2> QED BY <1>2, <2>1, <2>4, <2>5, <2>6, <2>7 DEF ReadOK
<1> QED BY <1>1, <1>2

LEMMA ReadElsewhere ==
  ASSUME PipeTypeOK, PipeTypeOK', ReadOK, Elsewhere
  PROVE  ReadOK'
<1>1. UNCHANGED <<message, asked, report>>
  BY ElsewhereLeaves
<1>2. /\ \A c \in Counter : count[c] \in Nat
      /\ Foreign \subseteq Counter /\ Foreign = {"irq", "pb", "pm", "pe", "qd"}
      /\ boot_lost \in Nat
  BY CountOf DEF Counter, Foreign, PipeTypeOK, ReceptionOK
<1>3. CASE Isr
  <2>1. boot_lost' >= boot_lost
    BY <1>2, <1>3 DEF Isr
  <2>2. Stuck => Stuck'
    BY <1>3 DEF Isr, Stuck, parserVars
  <2>3. /\ \A c \in Foreign : count'[c] >= count[c]
        /\ count'["rx"] = count["rx"] /\ count'["pb"] = count["pb"]
    BY <1>2, <1>3, IsrCounts
  <2> QED BY <1>1, <2>1, <2>2, <2>3, ReadKept
<1>4. CASE ParserTake
  <2>1. boot_lost' >= boot_lost
    BY <1>2, <1>4 DEF ParserTake, lineVars
  <2>2. ~Stuck
    BY <1>4 DEF ParserTake, Stuck
  <2>3. /\ \A c \in Foreign : count'[c] >= count[c]
        /\ count'["rx"] = count["rx"]
    <3>1. /\ count'["pm"] >= count["pm"] /\ count'["pe"] >= count["pe"]
          /\ count'["pb"] >= count["pb"] /\ count'["irq"] = count["irq"]
          /\ count'["qd"] = count["qd"] /\ count'["rx"] = count["rx"]
      BY <1>2, <1>4, ParserCounts, CountOf
    <3> QED BY <1>2, <3>1
  <2> QED BY <1>1, <2>1, <2>2, <2>3, ReadKept
<1>5. CASE \/ (\E r \in Requests : SendFrame(r)) \/ TasksStart \/ CatchUp \/ RxTask
           \/ ParserHand \/ Actuate \/ Transmit
  <2>1. UNCHANGED <<boot_lost, count>>
    BY <1>5 DEF SendFrame, TasksStart, CatchUp, RxTask, RxTake, RxHand, ParserHand,
                Actuate, Transmit, lineVars
  <2>2. Stuck => Stuck'
    BY <1>5 DEF SendFrame, TasksStart, CatchUp, RxTask, RxTake, RxHand, ParserHand,
                Actuate, Transmit, parserVars, Stuck
  <2>3. \A c \in Foreign : count'[c] >= count[c]
    BY <1>2, <2>1
  <2> QED BY <1>1, <1>2, <2>1, <2>2, <2>3, ReadKept
<1> QED BY <1>3, <1>4, <1>5 DEF Elsewhere, ParserTask

\* While task_app runs, no byte is on its way unless the parser waits for it.
LEMMA NothingOnItsWay ==
  ASSUME PipeTypeOK, started, ~Preempted
  PROVE  Stuck \/ Held = 0
<1>1. CASE parser_msg # None
  BY <1>1 DEF Preempted, ParserReady, Stuck
<1>2. CASE parser_msg = None
  <2>1. parserq = <<>> /\ isrq = <<>>
    BY <1>2, CaughtUp DEF Preempted, ParserReady
  <2>2. Room(parserq, ParserLength)
    BY <2>1, EmptySeq, Lengths DEF Room
  <2>3. Carried = <<>>
    BY <2>2 DEF Preempted, RxReady, Carried
  <2> QED BY <2>1, <2>3, EmptySeq DEF Held
<1> QED BY <1>1, <1>2

LEMMA ReadAppRead ==
  ASSUME PipeTypeOK, TodoOK, ReadOK, Tallied, EveryByteAccounted, RecordOK,
         NEW c \in Foreign, AppRead(c)
  PROVE  ReadOK'
<1>1. /\ message = "status" /\ message' = "status" /\ asked' = asked
      /\ DOMAIN report' = DOMAIN report \cup {c} /\ report'[c] = count[c]
      /\ \A d \in DOMAIN report : d # c => report'[d] = report[d]
  BY TodoAppRead
<1>2. /\ asked \in Nat /\ asked <= count["irq"] /\ DOMAIN report \subseteq Foreign
      /\ \A d \in DOMAIN report : report[d] \in Nat /\ report[d] <= count[d]
      /\ "irq" \in DOMAIN report => asked <= report["irq"]
      /\ "pm" \in DOMAIN report => count["rx"] <= report["pm"]
      /\ "pb" \in DOMAIN report => \/ asked <= report["pb"] + boot_lost + count["qd"]
                                   \/ Stuck /\ count["pb"] = report["pb"]
  BY <1>1 DEF ReadOK
<1>3. /\ UNCHANGED <<count, boot_lost, parser_msg, appq>> /\ started /\ ~Preempted
  BY TodoRest DEF AppRead, AppDoes
<1>4. /\ \A d \in Foreign : count[d] \in Nat
      /\ "irq" \in Foreign /\ "pb" \in Foreign /\ "qd" \in Foreign /\ boot_lost \in Nat
  BY DEF PipeTypeOK, ReceptionOK, Counter, Foreign
<1>5. \A d \in DOMAIN report' : report'[d] \in Nat /\ report'[d] <= count[d]
  BY <1>1, <1>2, <1>4
<1>6. "irq" \in DOMAIN report' => asked <= report'["irq"]
  BY <1>1, <1>2
<1>7. "pm" \in DOMAIN report' => count["rx"] <= report'["pm"]
  <2>1. count["rx"] <= count["pm"]
    <3>1. Len(handled) \in Nat /\ Len(appq) \in Nat /\ Len(Slot(parser_msg)) \in Nat
      BY FlowTypes, LenProperties
    <3> QED BY <3>1 DEF Tallied
  <2> QED BY <1>1, <1>2, <2>1
<1>8. "pb" \in DOMAIN report' => \/ asked <= report'["pb"] + boot_lost + count["qd"]
                                 \/ Stuck /\ count["pb"] = report'["pb"]
  <2>1. CASE c # "pb"
    BY <1>1, <1>2, <2>1
  <2>2. CASE c = "pb"
    <3>1. report'["pb"] = count["pb"]
      BY <1>1, <2>2
    <3>2. Stuck \/ Held = 0
      BY <1>3, NothingOnItsWay
    <3>3. Held = 0 => asked <= count["pb"] + boot_lost + count["qd"]
      BY <1>2, <1>4 DEF EveryByteAccounted
    <3> QED BY <3>1, <3>2, <3>3
  <2> QED BY <2>1, <2>2
<1>9. Stuck' = Stuck
  BY <1>3 DEF Stuck
<1>10. /\ count' = count /\ boot_lost' = boot_lost /\ DOMAIN report' \subseteq Foreign
  BY <1>1, <1>2, <1>3
<1> HIDE DEF Stuck
<1>11. "pb" \in DOMAIN report' => \/ asked' <= report'["pb"] + boot_lost' + count'["qd"]
                                  \/ Stuck' /\ count'["pb"] = report'["pb"]
  BY <1>1, <1>8, <1>9, <1>10
<1> QED BY <1>1, <1>2, <1>5, <1>6, <1>7, <1>10, <1>11 DEF ReadOK

LEMMA ReadStep ==
  /\ PipeTypeOK /\ PipeTypeOK' /\ RecordOK /\ Tallied /\ EveryByteAccounted
  /\ TodoOK /\ ReadOK /\ [Next]_rvars
  => ReadOK'
<1> SUFFICES ASSUME PipeTypeOK, PipeTypeOK', RecordOK, Tallied, EveryByteAccounted,
                    TodoOK, ReadOK, [Next]_rvars
             PROVE  ReadOK'
  OBVIOUS
<1>a. asked \in Nat
  BY DEF ReadOK
<1>1. CASE Elsewhere
  BY <1>1, ReadElsewhere
<1>2. CASE UNCHANGED rvars
  <2>1. UNCHANGED <<message, asked, report, count, boot_lost, parser_msg, appq>>
    BY <1>2 DEF rvars, appVars, lineVars, parserVars
  <2> QED BY <2>1 DEF ReadOK, Stuck
<1>3. CASE AppTake
  <2>1. report = <<>> /\ report' = <<>> /\ DOMAIN report' = {}
    BY <1>3 DEF AppTake, TodoOK, None
  <2>2. asked' \in {asked, count["irq"]} /\ (message' = message \/ asked' = count["irq"])
    BY <1>3 DEF AppTake
  <2>3. message' = "status" => asked' = count'["irq"]
    <3>1. message # "status"
      BY <1>3 DEF AppTake, TodoOK, None
    <3>2. count'["irq"] = count["irq"]
      BY <1>3, AppTakeCounts
    <3> QED BY <2>2, <3>1, <3>2
  <2>4. asked' \in Nat /\ count["irq"] \in Nat /\ count'["irq"] \in Nat
    BY <1>3, <1>a, <2>2, AppTakeCounts, CountOf
  <2> QED BY <2>1, <2>3, <2>4 DEF ReadOK
<1>4. CASE AppActuate \/ AppAnswer \/ AppCount
  BY <1>4, <1>a, AppFinishes DEF ReadOK
<1> QED BY <1>1, <1>2, <1>3, <1>4, NextIs, ReadAppRead DEF AppTask

\* Reports add up because of what holds while they are put together.
ReportInv == TodoOK /\ ReadOK /\ PartsOK

LEMMA ReportInvHolds == Spec => []ReportInv
<1>1. Init => ReportInv
  <2> SUFFICES ASSUME Init PROVE ReportInv
    OBVIOUS
  <2>1. message = None /\ asked = 0 /\ parser = Waiting
    BY DEF Init
  <2>2. ReadOK
    BY <2>1 DEF ReadOK, None
  <2>3. count["pm"] = 0 /\ count["pe"] = 0 /\ count["pb"] = 0 /\ Parts(parser) = 0
    BY <2>1 DEF Init, Counter, Foreign, Parts, Waiting
  <2>4. PartsOK
    BY <2>3 DEF PartsOK
  <2> QED BY <2>2, <2>4, TodoInit DEF ReportInv
<1>2. RequestInv /\ RequestInv' /\ EveryByteAccounted /\ ReportInv /\ [Next]_rvars
      => ReportInv'
  BY TodoStep, ReadStep, PartsStep DEF RequestInv, ReportInv
<1> QED BY <1>1, <1>2, RequestInvHolds, BytesAccounted, PTL DEF Spec

\* For all lengths of the queues and however the bytes come in: the numbers of
\* one answer to status? fit together, although they are read one by one and
\* the tasks they count for go on in between.
THEOREM ReportsAddUp == Spec => []ReportAddsUp
<1>1. RequestInv /\ EveryByteAccounted /\ ReportInv => ReportAddsUp
  <2> SUFFICES ASSUME RequestInv, EveryByteAccounted, ReportInv,
                      message = "status", todo = <<"answer">>
               PROVE  /\ count["rx"] <= report["pm"]
                      /\ 3 * report["pm"] + report["pe"]
                           <= report["pb"] + (count["irq"] - asked)
                      /\ report["pb"] + report["qd"]
                           <= report["irq"] + (count["irq"] - asked)
    BY DEF ReportAddsUp
  <2>t. PipeTypeOK /\ TodoOK /\ ReadOK /\ PartsOK
    BY DEF RequestInv, ReportInv
  <2>1. Foreign \subseteq DOMAIN report
    <3>1. Len(todo) = 1 /\ todo[1] = "answer" /\ "answer" \notin Foreign
      BY DEF Foreign
    <3>2. \A c \in Foreign \ DOMAIN report : \E i \in 1 .. Len(todo) : todo[i] = c
      BY <2>t DEF TodoOK
    <3>3. ASSUME NEW c \in Foreign \ DOMAIN report PROVE FALSE
      BY <3>1, <3>2
    <3> QED BY <3>3
  <2>2. /\ "irq" \in DOMAIN report /\ "pb" \in DOMAIN report /\ "pm" \in DOMAIN report
        /\ "pe" \in DOMAIN report /\ "qd" \in DOMAIN report
    BY <2>1 DEF Foreign
  <2>3. /\ asked \in Nat /\ asked <= count["irq"]
        /\ \A c \in DOMAIN report : report[c] \in Nat /\ report[c] <= count[c]
        /\ asked <= report["irq"]
        /\ count["rx"] <= report["pm"]
        /\ \/ asked <= report["pb"] + boot_lost + count["qd"]
           \/ count["pb"] = report["pb"]
    BY <2>t, <2>2 DEF ReadOK
  <2>4. /\ report["irq"] \in Nat /\ report["pb"] \in Nat /\ report["pm"] \in Nat
        /\ report["pe"] \in Nat /\ report["qd"] \in Nat
        /\ report["pb"] <= count["pb"] /\ report["pm"] <= count["pm"]
        /\ report["pe"] <= count["pe"] /\ report["qd"] <= count["qd"]
    BY <2>2, <2>3
  <2>5. /\ count["irq"] \in Nat /\ count["pb"] \in Nat /\ count["pm"] \in Nat
        /\ count["pe"] \in Nat /\ count["qd"] \in Nat /\ boot_lost \in Nat
    BY <2>t, CountOf DEF PipeTypeOK, ReceptionOK
  <2>6. Held \in Nat /\ count["irq"] = boot_lost + count["qd"] + Held + count["pb"]
    BY <2>t, HeldIs DEF EveryByteAccounted, PipeTypeOK
  <2>7. 3 * count["pm"] + count["pe"] <= count["pb"]
    <3>1. Parts(parser) \in 0 .. 2
      BY <2>t DEF Parts, PipeTypeOK, HandlingOK
    <3> QED BY <2>t, <2>5, <3>1 DEF PartsOK
  <2>8. 3 * report["pm"] + report["pe"] <= report["pb"] + (count["irq"] - asked)
    BY <2>3, <2>4, <2>5, <2>6, <2>7
  <2>9. report["pb"] + report["qd"] <= report["irq"] + (count["irq"] - asked)
    BY <2>3, <2>4, <2>5, <2>6
  <2> QED BY <2>3, <2>8, <2>9
<1> QED BY <1>1, RequestInvHolds, ReportInvHolds, BytesAccounted, PTL

-----------------------------------------------------------------------------
(* Places: a request that stands in n-th place among those to be answered    *)
(* gets the n-th answer.                                                     *)

LEMMA PartOfInterval ==
  ASSUME NEW N \in Nat, NEW S \in SUBSET (1 .. N)
  PROVE  IsFiniteSet(S) /\ Cardinality(S) \in Nat
<1>1. 1 \in Int /\ N \in Int
  OBVIOUS
<1>2. IsFiniteSet(1 .. N)
  BY <1>1, FS_Interval
<1> QED BY <1>2, FS_Subset, FS_CardinalityType, Zenon

LEMMA PlaceProperties ==
  ASSUME NEW N \in Nat, NEW S \in SUBSET (1 .. N), NEW n \in S
  PROVE  /\ IsFiniteSet(S) /\ Cardinality(S) \in Nat
         /\ Place(n, S) \in 1 .. Cardinality(S)
         /\ n = N => Place(n, S) = Cardinality(S)
         /\ N \in S /\ n # N => Place(n, S) < Cardinality(S)
<1> DEFINE T == {m \in S : m <= n}
<1>1. IsFiniteSet(S)
  BY PartOfInterval
<1>2. IsFiniteSet(T) /\ Cardinality(T) \in Nat /\ Cardinality(S) \in Nat
      /\ Cardinality(T) <= Cardinality(S) /\ (Cardinality(S) = Cardinality(T) => S = T)
  BY <1>1, FS_Subset, FS_CardinalityType
<1>3. n \in 1 .. N /\ n \in T
  OBVIOUS
<1>4. Cardinality(T) # 0
  BY <1>2, <1>3, FS_EmptySet
<1>5. n = N => T = S
  <2>1. \A m \in S : m <= N
    OBVIOUS
  <2> QED BY <2>1
<1>6. N \in S /\ n # N => T # S
  BY <1>3
<1>7. Place(n, S) = Cardinality(T)
  BY DEF Place
<1> HIDE DEF T
<1> QED BY <1>1, <1>2, <1>4, <1>5, <1>6, <1>7

LEMMA PlaceBehind ==
  ASSUME NEW N \in Nat, NEW S \in SUBSET (1 .. N)
  PROVE  /\ IsFiniteSet(S) /\ Cardinality(S) \in Nat
         /\ Cardinality(S \cup {N + 1}) = Cardinality(S) + 1
         /\ S \cup {N + 1} \in SUBSET (1 .. N + 1)
         /\ Place(N + 1, S \cup {N + 1}) = Cardinality(S) + 1
         /\ \A n \in S : Place(n, S \cup {N + 1}) = Place(n, S)
<1> DEFINE T == S \cup {N + 1}
<1>1. IsFiniteSet(S) /\ Cardinality(S) \in Nat
  BY PartOfInterval
<1>2. N + 1 \notin S /\ T \in SUBSET (1 .. N + 1) /\ N + 1 \in Nat /\ N + 1 \in T
  OBVIOUS
<1>3. Cardinality(T) = Cardinality(S) + 1
  BY <1>1, <1>2, FS_AddElement
<1>4. Place(N + 1, T) = Cardinality(T)
  BY <1>2, PlaceProperties
<1>5. \A n \in S : {m \in T : m <= n} = {m \in S : m <= n}
  OBVIOUS
<1>6. \A n \in S : Place(n, T) = Place(n, S)
  BY <1>5 DEF Place
<1> QED BY <1>1, <1>2, <1>3, <1>4, <1>6

\* What has been given out so far serves the elements of S at their place, all
\* of them or, while it is open, all but the last.
Serves(out, S, v, open) ==
  /\ Cardinality(S) = IF open THEN Len(out) + 1 ELSE Len(out)
  /\ \A n \in S : Place(n, S) <= Len(out) => out[Place(n, S)] = v[n]

LEMMA ServesNew ==
  ASSUME NEW V, NEW out \in Seq(V), NEW N \in Nat, NEW S \in SUBSET (1 .. N), NEW v, NEW w,
         \A n \in 1 .. N : w[n] = v[n], Serves(out, S, v, FALSE)
  PROVE  Serves(out, S, w, FALSE) /\ Serves(out, S \cup {N + 1}, w, TRUE)
<1>1. Len(out) \in Nat
  BY LenProperties
<1>2. /\ Cardinality(S) = Len(out)
      /\ \A n \in S : Place(n, S) <= Len(out) => out[Place(n, S)] = w[n]
  BY DEF Serves
<1>3. \A n \in S \cup {N + 1} : Place(n, S \cup {N + 1}) <= Len(out)
                                  => n \in S /\ Place(n, S \cup {N + 1}) = Place(n, S)
  <2>1. /\ Place(N + 1, S \cup {N + 1}) = Cardinality(S) + 1
        /\ \A n \in S : Place(n, S \cup {N + 1}) = Place(n, S)
    BY PlaceBehind
  <2>2. Cardinality(S) = Len(out) /\ ~(Len(out) + 1 <= Len(out))
    BY <1>1, <1>2
  <2> QED BY <2>1, <2>2
<1>4. Cardinality(S \cup {N + 1}) = Len(out) + 1
  BY <1>2, PlaceBehind
<1> QED BY <1>2, <1>3, <1>4 DEF Serves

LEMMA ServesDone ==
  ASSUME NEW V, NEW out \in Seq(V), NEW N \in Nat, NEW S \in SUBSET (1 .. N), NEW v,
         Serves(out, S, v, TRUE), N \in S, v[N] \in V
  PROVE  Serves(Append(out, v[N]), S, v, FALSE)
<1> DEFINE more == Append(out, v[N])
<1>1. /\ Len(out) \in Nat /\ Len(more) = Len(out) + 1
      /\ \A i \in 1 .. Len(out) : more[i] = out[i]
      /\ more[Len(out) + 1] = v[N]
  BY AppendProperties, LenProperties
<1>2. /\ Cardinality(S) = Len(out) + 1
      /\ \A n \in S : Place(n, S) <= Len(out) => out[Place(n, S)] = v[n]
  BY DEF Serves
<1> HIDE DEF more
<1>3. ASSUME NEW n \in S, Place(n, S) <= Len(more) PROVE more[Place(n, S)] = v[n]
  <2>1. Place(n, S) \in 1 .. Len(out) + 1
    BY <1>2, PlaceProperties
  <2>2. CASE n = N
    BY <1>1, <1>2, <2>2, PlaceProperties
  <2>3. CASE n # N
    <3>1. Place(n, S) < Len(out) + 1
      BY <1>2, <2>3, PlaceProperties
    <3> QED BY <1>1, <1>2, <2>1, <3>1
  <2> QED BY <2>2, <2>3
<1> QED BY <1>1, <1>2, <1>3 DEF Serves, more

-----------------------------------------------------------------------------
(* Answers and orders *)

\* An answer is due once, and an order only with its answer behind it.
OneEach(t) ==
  /\ \A i, j \in 1 .. Len(t) : t[i] = "answer" /\ t[j] = "answer" => i = j
  /\ \A i \in 1 .. Len(t) : t[i] = "actuate" => i = 1 /\ Len(t) = 2 /\ t[2] = "answer"

Out == answers \o txq
Done == orders \o actuatorq
Replies == [n \in DOMAIN handled |-> AnswerTo(handled[n])]

AnswerInv ==
  /\ answers \in Seq(Answer) /\ orders \in Seq(LedCommand)
  /\ OneEach(todo)
  /\ message # None => message = handled[Len(handled)]
  /\ Contains(todo, "answer") => Len(handled) \in ToAnswer
  /\ Contains(todo, "actuate") => Len(handled) \in ToOrder
  /\ Serves(Out, ToAnswer, Replies, Contains(todo, "answer"))
  /\ Serves(Done, ToOrder, handled, Contains(todo, "actuate"))

LEMMA TodoShapes ==
  /\ LET t == <<"actuate", "answer">> IN
       OneEach(t) /\ Contains(t, "answer") /\ Contains(t, "actuate")
  /\ LET t == <<"answer">> IN
       OneEach(t) /\ Contains(t, "answer") /\ ~Contains(t, "actuate")
  /\ LET t == <<"answer", "count">> IN
       OneEach(t) /\ Contains(t, "answer") /\ ~Contains(t, "actuate")
  /\ OneEach(<<>>) /\ ~Contains(<<>>, "answer") /\ ~Contains(<<>>, "actuate")
<1>1. LET t == <<"actuate", "answer">> IN
        OneEach(t) /\ Contains(t, "answer") /\ Contains(t, "actuate")
  BY DEF OneEach, Contains
<1>2. LET t == <<"answer">> IN
        OneEach(t) /\ Contains(t, "answer") /\ ~Contains(t, "actuate")
  BY DEF OneEach, Contains
<1>3. LET t == <<"answer", "count">> IN
        OneEach(t) /\ Contains(t, "answer") /\ ~Contains(t, "actuate")
  BY DEF OneEach, Contains
<1>4. OneEach(<<>>) /\ ~Contains(<<>>, "answer") /\ ~Contains(<<>>, "actuate")
  BY DEF OneEach, Contains
<1> QED BY <1>1, <1>2, <1>3, <1>4

LEMMA TodoOnce ==
  ASSUME PipeTypeOK, AppTake
  PROVE  /\ OneEach(todo')
         /\ Contains(todo', "answer") <=> Contains(Todo(Head(appq)), "answer")
         /\ Contains(todo', "actuate") <=> Head(appq) \in LedCommand
<1> DEFINE r == Head(appq)
<1>1. r \in Request
  BY TakeProperties DEF AppTake, PipeTypeOK, HandlingOK
<1>2. CASE r # "status"
  <2>1. todo' = Todo(r)
    BY <1>2 DEF AppTake
  <2>2. /\ r \in LedCommand => Todo(r) = <<"actuate", "answer">>
        /\ r = "ping" => Todo(r) = <<"answer">>
        /\ r = "unknown" => Todo(r) = <<"answer", "count">>
        /\ r \in {"ack", "dat"} => Todo(r) = <<>>
        /\ r \in LedCommand \cup {"ping", "unknown", "ack", "dat"}
    BY <1>1, <1>2, TodoNew
  <2>3. "ping" \notin LedCommand /\ "unknown" \notin LedCommand
        /\ "ack" \notin LedCommand /\ "dat" \notin LedCommand
    BY DEF LedCommand
  <2> HIDE DEF r
  <2> QED BY <2>1, <2>2, <2>3, TodoShapes DEF r
<1>3. CASE r = "status"
  <2>1. PICK reading \in ReadOrders : todo' = reading \o Todo("status")
    BY <1>3 DEF AppTake
  <2>2. /\ Len(todo') = 6 /\ todo'[6] = "answer"
        /\ \A i \in 1 .. 5 : todo'[i] \in Foreign
    BY <2>1, TodoStatus
  <2>3. "answer" \notin Foreign /\ "actuate" \notin Foreign
    BY DEF Foreign
  <2>4. \A i \in 1 .. Len(todo') : todo'[i] # "actuate" /\ (todo'[i] = "answer" => i = 6)
    BY <2>2, <2>3
  <2>5. OneEach(todo') /\ ~Contains(todo', "actuate")
    BY <2>4 DEF OneEach, Contains
  <2>6. Contains(todo', "answer")
    BY <2>2 DEF Contains
  <2>7. Todo("status") = <<"answer">> /\ "status" \notin LedCommand
    BY DEF Todo, LedCommand
  <2> QED BY <1>3, <2>5, <2>6, <2>7, TodoShapes
<1> QED BY <1>2, <1>3

\* What is done leaves the rest of what is to do.
LEMMA RestOnce ==
  ASSUME PipeTypeOK, TodoOK, OneEach(todo), NEW what, AppDoes(what)
  PROVE  /\ OneEach(todo')
         /\ Contains(todo', "answer") <=> Contains(todo, "answer") /\ what # "answer"
         /\ Contains(todo', "actuate") <=> Contains(todo, "actuate") /\ what # "actuate"
         /\ what \in {"answer", "actuate"} => Contains(todo, what)
         /\ what = "answer" => ~Contains(todo, "actuate")
<1>1. /\ todo[1] = what /\ Len(todo) \in Nat \ {0} /\ Len(todo') = Len(todo) - 1
      /\ \A i \in 1 .. Len(todo') : todo'[i] = todo[i + 1]
  BY TodoRest
<1>2. \A i \in 1 .. Len(todo') : i + 1 \in 1 .. Len(todo) /\ i + 1 # 1
  BY <1>1
<1>3. \A i \in 1 .. Len(todo) : i # 1 => i - 1 \in 1 .. Len(todo') /\ todo'[i - 1] = todo[i]
  BY <1>1
<1>4. 1 \in 1 .. Len(todo)
  BY <1>1
<1>5. \A e : Contains(todo, e) <=> what = e \/ Contains(todo', e)
  BY <1>1, <1>2, <1>3, <1>4 DEF Contains
<1>6. \A i, j \in 1 .. Len(todo) : todo[i] = "answer" /\ todo[j] = "answer" => i = j
  BY DEF OneEach
<1>7. \A i \in 1 .. Len(todo) :
         todo[i] = "actuate" => i = 1 /\ Len(todo) = 2 /\ todo[2] = "answer"
  BY DEF OneEach
<1>8. \A i \in 1 .. Len(todo') : todo'[i] # "actuate"
  BY <1>1, <1>2, <1>7
<1>9. \A i, j \in 1 .. Len(todo') : todo'[i] = "answer" /\ todo'[j] = "answer" => i = j
  <2> SUFFICES ASSUME NEW i \in 1 .. Len(todo'), NEW j \in 1 .. Len(todo'),
                      todo'[i] = "answer", todo'[j] = "answer"
               PROVE  i = j
    OBVIOUS
  <2>1. i + 1 = j + 1
    BY <1>1, <1>2, <1>6
  <2> QED BY <1>1, <2>1
<1>10. OneEach(todo')
  BY <1>8, <1>9 DEF OneEach
<1>11. ~Contains(todo', "actuate")
  BY <1>8 DEF Contains
<1>12. what = "answer" => ~Contains(todo', "answer")
  BY <1>1, <1>2, <1>4, <1>6 DEF Contains
<1> QED BY <1>5, <1>10, <1>11, <1>12

LEMMA AnswerTypes ==
  ASSUME PipeTypeOK, RecordOK, AnswerInv
  PROVE  /\ Len(handled) \in Nat /\ DOMAIN handled = 1 .. Len(handled)
         /\ ToAnswer \in SUBSET (1 .. Len(handled)) /\ ToOrder \in SUBSET (1 .. Len(handled))
         /\ answers \in Seq(Answer) /\ txq \in Seq(Answer) /\ Out \in Seq(Answer)
         /\ orders \in Seq(LedCommand) /\ actuatorq \in Seq(LedCommand)
         /\ Done \in Seq(LedCommand)
<1>1. /\ answers \in Seq(Answer) /\ txq \in Seq(Answer)
      /\ orders \in Seq(LedCommand) /\ actuatorq \in Seq(LedCommand)
  BY DEF PipeTypeOK, HandlingOK, AnswerInv
<1>2. Out \in Seq(Answer) /\ Done \in Seq(LedCommand)
  BY <1>1, ConcatProperties DEF Out, Done
<1>3. Len(handled) \in Nat /\ DOMAIN handled = 1 .. Len(handled)
  BY LenProperties DEF RecordOK
<1> QED BY <1>1, <1>2, <1>3 DEF ToAnswer, ToOrder

LEMMA AnswersAppTake ==
  ASSUME PipeTypeOK, RecordOK, TodoOK, AnswerInv, AppTake
  PROVE  AnswerInv'
<1> DEFINE r == Head(appq)  N == Len(handled)
<1>1. /\ r \in Request /\ handled' = Append(handled, r) /\ todo = <<>>
      /\ UNCHANGED <<answers, txq, orders, actuatorq>>
      /\ message = None /\ message' \in {None, r}
  <2>1. r \in Request
    BY TakeProperties DEF AppTake, PipeTypeOK, HandlingOK
  <2> QED BY <2>1 DEF AppTake, TodoOK, txVars, actuatorVars
<1>2. /\ N \in Nat /\ handled \in Seq(Request)
      /\ Len(handled') = N + 1 /\ handled'[N + 1] = r
      /\ \A n \in 1 .. N : handled'[n] = handled[n]
      /\ DOMAIN handled = 1 .. N /\ DOMAIN handled' = 1 .. N + 1
  BY <1>1, LenProperties, AppendProperties DEF RecordOK
<1>3. /\ OneEach(todo')
      /\ Contains(todo', "answer") <=> Contains(Todo(r), "answer")
      /\ Contains(todo', "actuate") <=> r \in LedCommand
  BY TodoOnce
<1> HIDE DEF r, N
<1>n. 1 .. N + 1 = (1 .. N) \cup {N + 1}
  BY <1>2
<1>4. ToAnswer' = IF Contains(todo', "answer") THEN ToAnswer \cup {N + 1} ELSE ToAnswer
  <2>1. /\ ToAnswer' = {n \in 1 .. N + 1 : Contains(Todo(handled'[n]), "answer")}
        /\ ToAnswer = {n \in 1 .. N : Contains(Todo(handled[n]), "answer")}
    BY <1>2 DEF ToAnswer
  <2> QED BY <1>2, <1>3, <1>n, <2>1
<1>5. ToOrder' = IF Contains(todo', "actuate") THEN ToOrder \cup {N + 1} ELSE ToOrder
  <2>1. /\ ToOrder' = {n \in 1 .. N + 1 : handled'[n] \in LedCommand}
        /\ ToOrder = {n \in 1 .. N : handled[n] \in LedCommand}
    BY <1>2 DEF ToOrder
  <2> QED BY <1>2, <1>3, <1>n, <2>1
<1>6. /\ ToAnswer \in SUBSET (1 .. N) /\ ToOrder \in SUBSET (1 .. N)
      /\ Out \in Seq(Answer) /\ Done \in Seq(LedCommand)
  BY AnswerTypes DEF N
<1>7. Out' = Out /\ Done' = Done
  BY <1>1 DEF Out, Done
<1>8. Serves(Out, ToAnswer, Replies, FALSE) /\ Serves(Done, ToOrder, handled, FALSE)
  <2>1. ~Contains(todo, "answer") /\ ~Contains(todo, "actuate")
    BY <1>1, TodoShapes
  <2> QED BY <2>1 DEF AnswerInv, Serves
<1>9. \A n \in 1 .. N : Replies'[n] = Replies[n]
  BY <1>2, <1>n DEF Replies
<1>10. /\ Serves(Out, ToAnswer, Replies', FALSE)
       /\ Serves(Out, ToAnswer \cup {N + 1}, Replies', TRUE)
  BY <1>2, <1>6, <1>8, <1>9, ServesNew
<1>11. /\ Serves(Done, ToOrder, handled', FALSE)
       /\ Serves(Done, ToOrder \cup {N + 1}, handled', TRUE)
  BY <1>2, <1>6, <1>8, ServesNew
<1>12. Serves(Out', ToAnswer', Replies', Contains(todo', "answer"))
  BY <1>4, <1>7, <1>10 DEF Serves
<1>13. Serves(Done', ToOrder', handled', Contains(todo', "actuate"))
  BY <1>5, <1>7, <1>11 DEF Serves
<1>14. /\ message' # None => message' = handled'[Len(handled')]
       /\ Contains(todo', "answer") => Len(handled') \in ToAnswer'
       /\ Contains(todo', "actuate") => Len(handled') \in ToOrder'
       /\ answers' \in Seq(Answer) /\ orders' \in Seq(LedCommand)
  BY <1>1, <1>2, <1>4, <1>5, AnswerTypes
<1> QED BY <1>3, <1>12, <1>13, <1>14 DEF AnswerInv

\* What all steps of task_app that do something for a request have in common.
LEMMA AnswersDoes ==
  ASSUME PipeTypeOK, RecordOK, TodoOK, AnswerInv, NEW what, AppDoes(what)
  PROVE  /\ UNCHANGED <<handled, answers, orders, ToAnswer, ToOrder, Replies>>
         /\ OneEach(todo') /\ (message' # None => message' = handled'[Len(handled')])
         /\ message # None /\ message = handled[Len(handled)]
         /\ Contains(todo', "answer") <=> Contains(todo, "answer") /\ what # "answer"
         /\ Contains(todo', "actuate") <=> Contains(todo, "actuate") /\ what # "actuate"
         /\ what \in {"answer", "actuate"} => Contains(todo, what)
<1>1. /\ OneEach(todo')
      /\ Contains(todo', "answer") <=> Contains(todo, "answer") /\ what # "answer"
      /\ Contains(todo', "actuate") <=> Contains(todo, "actuate") /\ what # "actuate"
      /\ what \in {"answer", "actuate"} => Contains(todo, what)
  BY RestOnce DEF AnswerInv
<1>2. UNCHANGED <<handled, answers, orders>>
  BY DEF AppDoes
<1>3. UNCHANGED <<ToAnswer, ToOrder, Replies>>
  BY <1>2 DEF ToAnswer, ToOrder, Replies
<1>4. message # None /\ message' = IF todo' = <<>> THEN None ELSE message
  BY TodoRest
<1>5. message = handled[Len(handled)]
  BY <1>4 DEF AnswerInv
<1> QED BY <1>1, <1>2, <1>3, <1>4, <1>5

LEMMA AnswersReadCount ==
  ASSUME PipeTypeOK, RecordOK, TodoOK, AnswerInv,
         NEW what \in Foreign \cup {"count"}, AppDoes(what), UNCHANGED <<txq, actuatorq>>
  PROVE  AnswerInv'
<1>1. what # "answer" /\ what # "actuate"
  BY DEF Foreign
<1>2. Out' = Out /\ Done' = Done
  BY AnswersDoes DEF Out, Done
<1>3. /\ Serves(Out, ToAnswer, Replies, Contains(todo, "answer"))
      /\ Serves(Done, ToOrder, handled, Contains(todo, "actuate"))
  BY DEF AnswerInv
<1>4. /\ Serves(Out, ToAnswer, Replies, Contains(todo, "answer"))'
      /\ Serves(Done, ToOrder, handled, Contains(todo, "actuate"))'
  BY <1>1, <1>2, <1>3, AnswersDoes DEF Serves
<1> QED BY <1>1, <1>4, AnswersDoes DEF AnswerInv

LEMMA AnswersAppAnswer ==
  ASSUME PipeTypeOK, RecordOK, TodoOK, AnswerInv, AppAnswer
  PROVE  AnswerInv'
<1> DEFINE N == Len(handled)  a == AnswerTo(message)
<1>1. AppDoes("answer") /\ txq' = Append(txq, a) /\ UNCHANGED actuatorq
  BY DEF AppAnswer, Put
<1>2. /\ UNCHANGED <<handled, answers, orders, ToAnswer, ToOrder, Replies>>
      /\ OneEach(todo') /\ (message' # None => message' = handled'[Len(handled')])
      /\ message = handled[N]
      /\ ~Contains(todo', "answer") /\ Contains(todo, "answer")
      /\ Contains(todo', "actuate") <=> Contains(todo, "actuate")
  BY <1>1, AnswersDoes
<1>3. N \in ToAnswer /\ N \in DOMAIN handled
  BY <1>2 DEF AnswerInv, ToAnswer
<1>4. Replies[N] = a
  BY <1>2, <1>3 DEF Replies
<1>5. a \in Answer
  <2>1. message \in Request /\ Contains(Todo(message), "answer")
    BY <1>2, <1>3, ElementOfSeq, AnswerTypes DEF ToAnswer, RecordOK
  <2>2. message \notin {"ack", "dat"}
    BY <2>1, TodoNew, TodoShapes
  <2> QED BY <2>1, <2>2 DEF AnswerTo, Answer, Request, LedCommand
<1> HIDE DEF N, a
<1>6. Out' = Append(Out, a)
  BY <1>1, <1>2, <1>5, AnswerTypes, AppendBehind DEF Out
<1>7. Serves(Out, ToAnswer, Replies, TRUE)
  BY <1>2 DEF AnswerInv, Serves
<1>8. Serves(Append(Out, Replies[N]), ToAnswer, Replies, FALSE)
  <2>1. ToAnswer \in SUBSET (1 .. N) /\ N \in Nat /\ Out \in Seq(Answer)
    BY AnswerTypes DEF N
  <2> QED BY <1>3, <1>4, <1>5, <1>7, <2>1, ServesDone
<1>9. Serves(Out, ToAnswer, Replies, Contains(todo, "answer"))'
  BY <1>2, <1>4, <1>6, <1>8 DEF Serves
<1>10. Serves(Done, ToOrder, handled, Contains(todo, "actuate"))'
  <2>1. Done' = Done
    BY <1>1, <1>2 DEF Done
  <2>2. Serves(Done, ToOrder, handled, Contains(todo, "actuate"))
    BY DEF AnswerInv
  <2> QED BY <1>2, <2>1, <2>2 DEF Serves
<1>11. Contains(todo', "actuate") => Len(handled') \in ToOrder'
  BY <1>2 DEF AnswerInv
<1>12. answers' \in Seq(Answer) /\ orders' \in Seq(LedCommand)
  BY <1>2, AnswerTypes
<1> QED BY <1>2, <1>9, <1>10, <1>11, <1>12 DEF AnswerInv

LEMMA AnswersAppActuate ==
  ASSUME PipeTypeOK, RecordOK, TodoOK, AnswerInv, AppActuate
  PROVE  AnswerInv'
<1> DEFINE N == Len(handled)
<1>1. AppDoes("actuate") /\ actuatorq' = Append(actuatorq, message) /\ UNCHANGED txq
  BY DEF AppActuate, Put
<1>2. /\ UNCHANGED <<handled, answers, orders, ToAnswer, ToOrder, Replies>>
      /\ OneEach(todo') /\ (message' # None => message' = handled'[Len(handled')])
      /\ message = handled[N]
      /\ ~Contains(todo', "actuate") /\ Contains(todo, "actuate")
      /\ Contains(todo', "answer") <=> Contains(todo, "answer")
  BY <1>1, AnswersDoes
<1>3. N \in ToOrder /\ handled[N] \in LedCommand
  BY <1>2 DEF AnswerInv, ToOrder
<1> HIDE DEF N
<1>4. Done' = Append(Done, handled[N])
  BY <1>1, <1>2, <1>3, AnswerTypes, AppendBehind DEF Done
<1>5. Serves(Done, ToOrder, handled, TRUE)
  BY <1>2 DEF AnswerInv, Serves
<1>6. Serves(Append(Done, handled[N]), ToOrder, handled, FALSE)
  <2>1. ToOrder \in SUBSET (1 .. N) /\ N \in Nat /\ Done \in Seq(LedCommand)
    BY AnswerTypes DEF N
  <2> QED BY <1>3, <1>5, <2>1, ServesDone
<1>7. Serves(Done, ToOrder, handled, Contains(todo, "actuate"))'
  BY <1>2, <1>4, <1>6 DEF Serves
<1>8. Serves(Out, ToAnswer, Replies, Contains(todo, "answer"))'
  <2>1. Out' = Out
    BY <1>1, <1>2 DEF Out
  <2>2. Serves(Out, ToAnswer, Replies, Contains(todo, "answer"))
    BY DEF AnswerInv
  <2> QED BY <1>2, <2>1, <2>2 DEF Serves
<1>9. Contains(todo', "answer") => Len(handled') \in ToAnswer'
  BY <1>2 DEF AnswerInv
<1>10. answers' \in Seq(Answer) /\ orders' \in Seq(LedCommand)
  BY <1>2, AnswerTypes
<1> QED BY <1>2, <1>7, <1>8, <1>9, <1>10 DEF AnswerInv

\* What the tasks at the other end take from a queue they put behind what they
\* took before.
LEMMA TakenInTurn ==
  ASSUME NEW S, NEW s \in Seq(S), NEW t \in Seq(S), t # <<>>
  PROVE  Append(s, Head(t)) \in Seq(S) /\ Append(s, Head(t)) \o Tail(t) = s \o t
<1>1. Head(t) \in S
  BY HeadTailProperties
<1>2. Append(s, Head(t)) = s \o <<Head(t)>> /\ Append(s, Head(t)) \in Seq(S)
  BY <1>1, AppendIsConcat, AppendProperties
<1> QED BY <1>2, HandedOn

LEMMA AnswersTransmit ==
  ASSUME PipeTypeOK, RecordOK, AnswerInv, Transmit
  PROVE  AnswerInv'
<1>1. /\ txq # <<>> /\ answers' = Append(answers, Head(txq)) /\ txq' = Tail(txq)
      /\ UNCHANGED <<handled, message, todo, orders, actuatorq>>
  BY DEF Transmit, appVars, actuatorVars
<1>2. answers' \in Seq(Answer) /\ Out' = Out
  BY <1>1, AnswerTypes, TakenInTurn DEF Out
<1>3. UNCHANGED <<ToAnswer, ToOrder, Replies, Done>>
  BY <1>1 DEF ToAnswer, ToOrder, Replies, Done
<1> QED BY <1>1, <1>2, <1>3 DEF AnswerInv, Serves

LEMMA AnswersActuate ==
  ASSUME PipeTypeOK, RecordOK, AnswerInv, Actuate
  PROVE  AnswerInv'
<1>1. /\ actuatorq # <<>> /\ orders' = Append(orders, Head(actuatorq))
      /\ actuatorq' = Tail(actuatorq) /\ UNCHANGED <<handled, message, todo, answers, txq>>
  BY DEF Actuate, appVars, txVars
<1>2. orders' \in Seq(LedCommand) /\ Done' = Done
  BY <1>1, AnswerTypes, TakenInTurn DEF Done
<1>3. UNCHANGED <<ToAnswer, ToOrder, Replies, Out>>
  BY <1>1 DEF ToAnswer, ToOrder, Replies, Out
<1> QED BY <1>1, <1>2, <1>3 DEF AnswerInv, Serves

LEMMA AnswersStep ==
  PipeTypeOK /\ RecordOK /\ TodoOK /\ AnswerInv /\ [Next]_rvars => AnswerInv'
<1> SUFFICES ASSUME PipeTypeOK, RecordOK, TodoOK, AnswerInv, [Next]_rvars PROVE AnswerInv'
  OBVIOUS
<1>1. CASE UNCHANGED <<handled, message, todo, answers, txq, orders, actuatorq>>
  <2>1. UNCHANGED <<ToAnswer, ToOrder, Replies, Out, Done>>
    BY <1>1 DEF ToAnswer, ToOrder, Replies, Out, Done
  <2> QED BY <1>1, <2>1 DEF AnswerInv, Serves
<1>2. CASE \/ (\E r \in Requests : SendFrame(r)) \/ TasksStart \/ Isr \/ CatchUp \/ RxTask
           \/ ParserTask \/ UNCHANGED rvars
  BY <1>1, <1>2 DEF SendFrame, TasksStart, Isr, CatchUp, RxTask, RxTake, RxHand, ParserTask,
                    ParserTake, ParserHand, rvars, appVars, txVars, actuatorVars
<1>3. CASE (\E c \in Foreign : AppRead(c)) \/ AppCount
  BY <1>3, AnswersReadCount DEF AppRead, AppCount
<1> QED BY <1>2, <1>3, AnswersAppTake, AnswersAppActuate, AnswersAppAnswer,
           AnswersTransmit, AnswersActuate
        DEF Next, AppTask, Finished

LEMMA AnswersInit == Init => AnswerInv
<1> SUFFICES ASSUME Init PROVE AnswerInv
  OBVIOUS
<1>1. /\ answers = <<>> /\ txq = <<>> /\ orders = <<>> /\ actuatorq = <<>>
      /\ handled = <<>> /\ todo = <<>> /\ message = None
  BY DEF Init
<1>2. Out = <<>> /\ Done = <<>>
  BY <1>1 DEF Out, Done
<1>3. ToAnswer = {} /\ ToOrder = {}
  BY <1>1 DEF ToAnswer, ToOrder
<1>4. Cardinality({}) = 0
  BY FS_EmptySet
<1>5. Serves(Out, ToAnswer, Replies, FALSE) /\ Serves(Done, ToOrder, handled, FALSE)
  BY <1>2, <1>3, <1>4 DEF Serves
<1>6. OneEach(todo) /\ ~Contains(todo, "answer") /\ ~Contains(todo, "actuate")
  BY <1>1, TodoShapes
<1>7. answers \in Seq(Answer) /\ orders \in Seq(LedCommand)
  BY <1>1
<1> QED BY <1>1, <1>5, <1>6, <1>7 DEF AnswerInv, Serves

\* For all lengths of the queues: every request is answered once and in order,
\* its order is given once and in order, and cmd=ok is not said before the
\* order for it is with the actuators.
THEOREM AnsweredInOrder == Spec => []AnsweredOnceInOrder
<1>1. RequestInv /\ ReportInv /\ AnswerInv => AnsweredOnceInOrder
  <2> SUFFICES ASSUME RequestInv, ReportInv, AnswerInv PROVE AnsweredOnceInOrder
    OBVIOUS
  <2> DEFINE N == Len(handled)
  <2>t. PipeTypeOK /\ RecordOK /\ TodoOK
    BY DEF RequestInv, ReportInv
  <2>1. /\ N \in Nat /\ ToAnswer \in SUBSET (1 .. N) /\ ToOrder \in SUBSET (1 .. N)
        /\ Len(Out) \in Nat /\ Len(Done) \in Nat
    BY <2>t, AnswerTypes, LenProperties
  <2>2. /\ OneEach(todo)
        /\ Contains(todo, "answer") => N \in ToAnswer
        /\ Contains(todo, "actuate") => N \in ToOrder
        /\ Serves(Out, ToAnswer, Replies, Contains(todo, "answer"))
        /\ Serves(Done, ToOrder, handled, Contains(todo, "actuate"))
    BY DEF AnswerInv
  <2> HIDE DEF N
  <2>3. /\ Cardinality(ToAnswer) \in Len(Out) .. Len(Out) + 1
        /\ Cardinality(ToOrder) \in Len(Done) .. Len(Done) + 1
    BY <2>1, <2>2 DEF Serves
  <2>4. \A n \in ToAnswer : Place(n, ToAnswer) <= Len(Out) =>
          Out[Place(n, ToAnswer)] = AnswerTo(handled[n])
    BY <2>2 DEF Serves, Replies, ToAnswer
  <2>5. \A n \in ToOrder : Place(n, ToOrder) <= Len(Done) =>
          Done[Place(n, ToOrder)] = handled[n]
    BY <2>2 DEF Serves
  <2>6. ASSUME NEW n \in ToOrder, Place(n, ToAnswer) <= Len(Out)
        PROVE  Place(n, ToOrder) <= Len(Done)
    <3>1. CASE ~Contains(todo, "actuate")
      <4>1. Cardinality(ToOrder) = Len(Done)
        BY <2>2, <3>1 DEF Serves
      <4>2. Place(n, ToOrder) \in 1 .. Cardinality(ToOrder)
        BY <2>1, PlaceProperties
      <4> QED BY <2>1, <4>1, <4>2
    <3>2. CASE Contains(todo, "actuate")
      <4>1. Contains(todo, "answer")
        BY <3>2, <2>2 DEF Contains, OneEach
      <4>2. /\ Cardinality(ToAnswer) = Len(Out) + 1 /\ N \in ToAnswer
            /\ Cardinality(ToOrder) = Len(Done) + 1 /\ N \in ToOrder
        BY <2>2, <3>2, <4>1 DEF Serves
      <4>3. n # N
        <5>1. Place(N, ToAnswer) = Cardinality(ToAnswer)
          BY <2>1, <4>2, PlaceProperties
        <5> QED BY <2>1, <2>6, <4>2, <5>1
      <4>4. Place(n, ToOrder) \in 1 .. Cardinality(ToOrder)
            /\ Place(n, ToOrder) < Cardinality(ToOrder)
        BY <2>1, <4>2, <4>3, PlaceProperties
      <4> QED BY <2>1, <4>2, <4>4
    <3> QED BY <3>1, <3>2
  <2> QED BY <2>3, <2>4, <2>5, <2>6 DEF AnsweredOnceInOrder, Out, Done
<1>2. RequestInv /\ ReportInv /\ AnswerInv /\ [Next]_rvars => AnswerInv'
  BY AnswersStep DEF RequestInv, ReportInv
<1> QED BY <1>1, <1>2, AnswersInit, RequestInvHolds, ReportInvHolds, PTL DEF Spec
=============================================================================
