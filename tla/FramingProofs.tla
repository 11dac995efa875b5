---------------------------- MODULE FramingProofs ----------------------------
(***************************************************************************)
(* Theorems about SseFraming: the types with the memory bound and the      *)
(* exact byte count, and that the cut of the stream into chunks does not   *)
(* matter, for every alphabet, cap and length.                             *)
(*                                                                         *)
(* The argument goes byte by byte.  What the parser has to remember of the *)
(* bytes read so far is three things, each a function of those bytes: the  *)
(* payloads of the complete events (Events), the data of the event under   *)
(* construction (Rest), and the unterminated line (Open).  ByteRead says   *)
(* how one more byte changes them; LinesRead that the cursor loop makes    *)
(* the same changes.                                                       *)
(***************************************************************************)
EXTENDS SseFraming, FiniteRecursion, SequenceTheorems, TLAPS

-------------------------------------------------------------------------------
(* Loops that collect. *)

\* f[k] is what the first k of n pieces make when they are joined.
Collects(f, n, piece) == f[0] = <<>> /\ \A k \in 1 .. n : f[k] = f[k - 1] \o piece[k]

\* Pieces can be collected.
LEMMA CollectExists ==
    ASSUME NEW V, NEW n \in Nat, NEW piece \in [1 .. n -> Seq(V)]
    PROVE  \E f \in [0 .. n -> Seq(V)] : Collects(f, n, piece)
<1> DEFINE W == Seq(V)
           z == <<>>
           step == [x \in (1 .. n) \X W |-> x[2] \o piece[x[1]]]
<1>1. z \in W OBVIOUS
<1>2. step \in [(1 .. n) \X W -> W]
  <2>1. ASSUME NEW x \in (1 .. n) \X W PROVE x[2] \o piece[x[1]] \in W
    <3>1. x[2] \in Seq(V) /\ piece[x[1]] \in Seq(V) OBVIOUS
    <3> QED BY <3>1
  <2> QED BY <2>1
<1>3. PICK f \in [0 .. n -> W] : IsLoop(f, n, z, step)
  <2> HIDE DEF W, z, step
  <2> QED BY <1>1, <1>2, LoopExists, Zenon
<1>4. ASSUME NEW k \in 1 .. n PROVE f[k] = f[k - 1] \o piece[k]
  <2>1. f[k - 1] \in W OBVIOUS
  <2>2. <<k, f[k - 1]>> \in (1 .. n) \X W BY <2>1
  <2>3. step[<<k, f[k - 1]>>] = f[k - 1] \o piece[k] BY <2>2
  <2> QED BY <1>3, <2>3 DEF IsLoop
<1> QED BY <1>3, <1>4 DEF IsLoop, Collects

\* What is collected depends on the pieces only.
LEMMA CollectAgree ==
    ASSUME NEW k \in Nat, NEW f, NEW g, NEW p, Collects(f, k, p), Collects(g, k, p)
    PROVE  f[k] = g[k]
<1> DEFINE S == {i \in 0 .. k : f[i] = g[i]}
<1>1. 0 \in S BY DEF Collects
<1>2. ASSUME NEW i \in 1 .. k, i - 1 \in S PROVE i \in S
  <2>1. f[i] = f[i - 1] \o p[i] /\ g[i] = g[i - 1] \o p[i] BY DEF Collects
  <2>2. f[i - 1] = g[i - 1] /\ i \in 0 .. k BY <1>2
  <2>3. f[i] = g[i] BY <2>1, <2>2, Zenon
  <2> QED BY <2>2, <2>3
<1> HIDE DEF S
<1>3. 0 .. k \subseteq S BY <1>1, <1>2, InductiveSet
<1> QED BY <1>3 DEF S

-------------------------------------------------------------------------------
(* Sequences of bytes. *)

\* Two sequences are equal if they agree everywhere.
LEMMA SameSeq ==
    ASSUME NEW V, NEW s \in Seq(V), NEW t \in Seq(V), Len(s) = Len(t),
           \A i \in 1 .. Len(s) : s[i] = t[i]
    PROVE  s = t
OBVIOUS

\* Joining is associative.
LEMMA BytesAssociative ==
    ASSUME NEW a \in Seq(Byte), NEW b \in Seq(Byte), NEW c \in Seq(Byte)
    PROVE  (a \o b) \o c = a \o (b \o c)
BY ConcatAssociative

\* Appending to the second of two sequences appends to both.
LEMMA AppendLast ==
    ASSUME NEW a \in Seq(Seq(Byte)), NEW b \in Seq(Seq(Byte)), NEW y \in Seq(Byte)
    PROVE  Append(a \o b, y) = a \o Append(b, y)
<1> DEFINE V == Seq(Byte)
<1>1. a \in Seq(V) /\ b \in Seq(V) /\ y \in V OBVIOUS
<1> HIDE DEF V
<1> DEFINE c == Append(a \o b, y)
           d == a \o Append(b, y)
<1>2. a \o b \in Seq(V) /\ Len(a \o b) = Len(a) + Len(b) BY <1>1, ConcatProperties
<1>3. Append(b, y) \in Seq(V) /\ Len(Append(b, y)) = Len(b) + 1 BY <1>1
<1>4. /\ c \in Seq(V) /\ Len(c) = Len(a) + Len(b) + 1 BY <1>1, <1>2
<1>5. /\ d \in Seq(V) /\ Len(d) = Len(a) + (Len(b) + 1) BY <1>1, <1>3, ConcatProperties
<1>6. ASSUME NEW i \in 1 .. Len(c) PROVE c[i] = d[i]
  BY <1>1, <1>2, <1>3, <1>4
<1>7. Len(a) \in Nat /\ Len(b) \in Nat BY <1>1
<1> HIDE DEF c, d
<1>8. Len(c) = Len(d) BY <1>4, <1>5, <1>7
<1>9. c = d BY <1>4, <1>5, <1>6, <1>8, SameSeq
<1> QED BY <1>9 DEF c, d

\* A part of a sequence.
LEMMA PartOf ==
    ASSUME NEW V, NEW s \in Seq(V), NEW m \in Nat \ {0}, NEW n \in Nat, n <= Len(s)
    PROVE  /\ SubSeq(s, m, n) \in Seq(V)
           /\ Len(SubSeq(s, m, n)) = IF m <= n THEN n - m + 1 ELSE 0
           /\ \A i \in 1 .. n - m + 1 : SubSeq(s, m, n)[i] = s[m + i - 1]
<1>1. \A i \in m .. n : s[i] \in V OBVIOUS
<1> QED BY <1>1, SubSeqProperties

\* One more byte.
LEMMA OneMore ==
    ASSUME NEW V, NEW p \in Seq(V), NEW x \in V
    PROVE  /\ Append(p, x) \in Seq(V) /\ Len(Append(p, x)) = Len(p) + 1
           /\ Append(p, x)[Len(p) + 1] = x
           /\ \A i \in 1 .. Len(p) : Append(p, x)[i] = p[i]
OBVIOUS

\* A part of a sequence that is not changed by one more byte.
LEMMA PartOfAppend ==
    ASSUME NEW V, NEW p \in Seq(V), NEW x \in V, NEW m \in Nat \ {0}, NEW n \in Nat, n <= Len(p)
    PROVE  SubSeq(Append(p, x), m, n) = SubSeq(p, m, n)
<1> DEFINE q == Append(p, x)
           a == SubSeq(p, m, n)
           b == SubSeq(q, m, n)
<1>1. q \in Seq(V) /\ Len(q) = Len(p) + 1 /\ \A i \in 1 .. Len(p) : q[i] = p[i] BY OneMore
<1>2. /\ a \in Seq(V) /\ Len(a) = (IF m <= n THEN n - m + 1 ELSE 0)
      /\ \A i \in 1 .. n - m + 1 : a[i] = p[m + i - 1]
  BY PartOf
<1>3. n <= Len(q) BY <1>1
<1> HIDE DEF q
<1>4. /\ b \in Seq(V) /\ Len(b) = (IF m <= n THEN n - m + 1 ELSE 0)
      /\ \A i \in 1 .. n - m + 1 : b[i] = q[m + i - 1]
  BY <1>1, <1>3, PartOf
<1> HIDE DEF a, b
<1>5. ASSUME NEW i \in 1 .. Len(a) PROVE a[i] = b[i]
  <2>1. i \in 1 .. n - m + 1 /\ m + i - 1 \in 1 .. Len(p) BY <1>2
  <2> QED BY <1>1, <1>2, <1>4, <2>1
<1>6. a = b BY <1>2, <1>4, <1>5, SameSeq
<1> QED BY <1>6 DEF a, b, q

\* The greatest element of a bounded set of naturals.
LEMMA MaxFacts ==
    ASSUME NEW n \in Nat, NEW S \in SUBSET (0 .. n), S # {}
    PROVE  Max(S) \in S /\ \A y \in S : y <= Max(S)
<1>1. PICK x \in S : \A y \in S : y <= x BY GreatestNatural
<1>2. \E z \in S : \A y \in S : z >= y BY <1>1
<1> DEFINE M == CHOOSE z \in S : \A y \in S : z >= y
<1>3. M \in S /\ \A y \in S : M >= y BY <1>2
<1> HIDE DEF M
<1>4. M \in Nat BY <1>3
<1>5. \A y \in S : y <= M BY <1>3, <1>4
<1>6. Max(S) = M BY DEF Max, M
<1> QED BY <1>3, <1>5, <1>6

-------------------------------------------------------------------------------
(* The bytes read, as the properties see them. *)

\* Stripping a line and its field keeps it a sequence of bytes.
LEMMA LineTypes ==
    ASSUME NEW s \in Seq(Byte)
    PROVE  /\ StripCr(s) \in Seq(Byte)
           /\ s # <<>> => DataOf(s) \in Seq(Byte)
<1>1. StripCr(s) \in Seq(Byte)
  <2>1. CASE s # <<>>
    <3>1. Len(s) - 1 \in Nat /\ Len(s) - 1 <= Len(s) BY <2>1
    <3>2. SubSeq(s, 1, Len(s) - 1) \in Seq(Byte) BY <3>1, PartOf
    <3> QED BY <3>2 DEF StripCr
  <2> QED BY <2>1 DEF StripCr
<1>2. ASSUME s # <<>> PROVE DataOf(s) \in Seq(Byte)
  <2>1. Tail(s) \in Seq(Byte) BY <1>2
  <2>2. Tail(s) # <<>> => Tail(Tail(s)) \in Seq(Byte) BY <2>1
  <2> QED BY <2>1, <2>2 DEF DataOf
<1> QED BY <1>1, <1>2

\* The ends of lines up to byte n.
LEMMA EndsBefore ==
    ASSUME NEW s \in Seq(Byte), NEW n \in Nat
    PROVE  LET before == {m \in Ends(s) : m < n}
               cut == IF before = {} THEN 0 ELSE Max(before)
           IN  /\ cut \in Nat /\ cut <= Len(s)
               /\ cut < n \/ cut = 0
               /\ cut = 0 \/ cut \in before
               /\ \A y \in before : y <= cut
<1> DEFINE before == {m \in Ends(s) : m < n}
           cut == IF before = {} THEN 0 ELSE Max(before)
<1>1. before \in SUBSET (0 .. Len(s)) /\ before \subseteq Nat BY DEF Ends
<1>2. \A y \in before : y < n OBVIOUS
<1>3. Len(s) \in Nat OBVIOUS
<1> HIDE DEF before
<1>4. CASE before = {} BY <1>3, <1>4 DEF before
<1>5. CASE before # {}
  <2>1. Max(before) \in before /\ \A y \in before : y <= Max(before)
    BY <1>1, <1>3, <1>5, MaxFacts
  <2>2. cut = Max(before) BY <1>5
  <2> HIDE DEF cut
  <2>3. cut \in before /\ \A y \in before : y <= cut BY <2>1, <2>2
  <2>4. cut \in 0 .. Len(s) /\ cut < n BY <1>1, <1>2, <2>3
  <2>5. cut \in Nat /\ cut <= Len(s) BY <1>3, <2>4
  <2> QED BY <2>3, <2>4, <2>5 DEF cut, before
<1> QED BY <1>4, <1>5 DEF before

\* A line is a sequence of bytes.
LEMMA LineEndingType ==
    ASSUME NEW s \in Seq(Byte), NEW n \in 1 .. Len(s)
    PROVE  LineEndingAt(s, n) \in Seq(Byte)
<1> DEFINE before == {m \in Ends(s) : m < n}
           cut == IF before = {} THEN 0 ELSE Max(before)
<1>1. cut \in Nat BY EndsBefore
<1> HIDE DEF cut
<1>2. cut + 1 \in Nat \ {0} /\ n - 1 \in Nat /\ n - 1 <= Len(s) BY <1>1
<1>3. SubSeq(s, cut + 1, n - 1) \in Seq(Byte) BY <1>2, PartOf
<1>4. StripCr(SubSeq(s, cut + 1, n - 1)) \in Seq(Byte) BY <1>3, LineTypes
<1> QED BY <1>4 DEF LineEndingAt, cut, before

\* What the line that ends at byte k adds to the data of its event.
Piece(s, k) == IF HasData(s, k) THEN DataOf(LineEndingAt(s, k)) \o <<"nl">> ELSE <<>>

\* It is a sequence of bytes.
LEMMA PieceType ==
    ASSUME NEW s \in Seq(Byte), NEW k \in 1 .. Len(s)
    PROVE  Piece(s, k) \in Seq(Byte)
<1>1. CASE HasData(s, k)
  <2>1. LineEndingAt(s, k) \in Seq(Byte) BY LineEndingType
  <2>2. LineEndingAt(s, k) # <<>> BY <1>1 DEF HasData, IsData
  <2>3. DataOf(LineEndingAt(s, k)) \in Seq(Byte) BY <2>1, <2>2, LineTypes
  <2>4. <<"nl">> \in Seq(Byte) BY FramingAssumption
  <2> QED BY <1>1, <2>3, <2>4, ConcatProperties DEF Piece
<1>2. CASE ~HasData(s, k) BY <1>2 DEF Piece
<1> QED BY <1>1, <1>2

\* Joined collects the pieces of its lines.
LEMMA JoinedLoop ==
    ASSUME NEW s \in Seq(Byte), NEW n \in 0 .. Len(s), NEW m \in 0 .. n
    PROVE  \E f \in [0 .. n - m -> Seq(Byte)] :
             /\ Collects(f, n - m, [k \in 1 .. n - m |-> Piece(s, m + k)])
             /\ Joined(s, m, n) = f[n - m]
<1> DEFINE D(k) == DataOf(LineEndingAt(s, k))
           j[k \in m .. n] ==
             IF k = m THEN <<>>
             ELSE IF HasData(s, k) THEN j[k - 1] \o DataOf(LineEndingAt(s, k)) \o <<"nl">>
                  ELSE j[k - 1]
           Body(g) == [k \in m .. n |->
             IF k = m THEN <<>>
             ELSE IF HasData(s, k) THEN g[k - 1] \o DataOf(LineEndingAt(s, k)) \o <<"nl">>
                  ELSE g[k - 1]]
           N == n - m
           piece == [k \in 1 .. n - m |-> Piece(s, m + k)]
<1>1. Joined(s, m, n) = j[n] BY DEF Joined
<1>2. j = CHOOSE g : g = Body(g) OBVIOUS
<1>3. N \in Nat OBVIOUS
<1>4. piece \in [1 .. N -> Seq(Byte)]
  <2>1. ASSUME NEW k \in 1 .. N PROVE Piece(s, m + k) \in Seq(Byte)
    <3>1. m + k \in 1 .. Len(s) OBVIOUS
    <3> QED BY <3>1, PieceType
  <2> QED BY <2>1
<1> HIDE DEF j
<1>5. PICK f \in [0 .. N -> Seq(Byte)] : Collects(f, N, piece)
  <2> HIDE DEF N, piece
  <2> QED BY <1>3, <1>4, CollectExists
<1>6. ASSUME NEW k \in 1 .. N PROVE f[k] = f[k - 1] \o Piece(s, m + k)
  <2>1. f[k] = f[k - 1] \o piece[k] BY <1>5 DEF Collects
  <2>2. piece[k] = Piece(s, m + k) OBVIOUS
  <2> QED BY <2>1, <2>2
<1> DEFINE h == [k \in m .. n |-> f[k - m]]
<1>7. h = Body(h)
  <2>1. ASSUME NEW k \in m .. n PROVE h[k] = Body(h)[k]
    <3>1. CASE k = m
      <4>1. h[k] = f[0] BY <3>1
      <4>2. f[0] = <<>> BY <1>5 DEF Collects
      <4> QED BY <3>1, <4>1, <4>2
    <3>2. CASE k # m
      <4>1. k - 1 \in m .. n /\ k - m \in 1 .. N /\ k - m - 1 \in 0 .. N /\ k \in 1 .. Len(s)
            /\ m + (k - m) = k /\ (k - 1) - m = (k - m) - 1
        BY <3>2
      <4>2. h[k] = f[k - m] /\ h[k - 1] = f[(k - m) - 1] BY <4>1
      <4>3. f[k - m] = f[(k - m) - 1] \o Piece(s, k) BY <1>6, <4>1
      <4>4. f[(k - m) - 1] \in Seq(Byte) BY <4>1
      <4> DEFINE u == f[(k - m) - 1]
      <4>5. CASE HasData(s, k)
        <5>1. D(k) \in Seq(Byte)
          <6>1. LineEndingAt(s, k) \in Seq(Byte) BY <4>1, LineEndingType
          <6>2. LineEndingAt(s, k) # <<>> BY <4>5 DEF HasData, IsData
          <6> QED BY <6>1, <6>2, LineTypes
        <5>2. <<"nl">> \in Seq(Byte) BY FramingAssumption
        <5> HIDE DEF D
        <5>3. u \in Seq(Byte) BY <4>4
        <5> HIDE DEF u
        <5>4. (u \o D(k)) \o <<"nl">> = u \o (D(k) \o <<"nl">>)
          <6> DEFINE d == D(k)
                     nl == <<"nl">>
          <6>1. d \in Seq(Byte) /\ nl \in Seq(Byte) BY <5>1, <5>2
          <6> HIDE DEF d, nl
          <6>2. (u \o d) \o nl = u \o (d \o nl) BY <5>3, <6>1, BytesAssociative, Zenon
          <6> QED BY <6>2 DEF d, nl
        <5>5. h[k] = u \o (D(k) \o <<"nl">>) BY <4>2, <4>3, <4>5 DEF Piece, D, u
        <5>6. Body(h)[k] = (h[k - 1] \o D(k)) \o <<"nl">> BY <3>2, <4>5 DEF D
        <5> QED BY <4>2, <5>4, <5>5, <5>6 DEF u
      <4>6. CASE ~HasData(s, k)
        <5>1. h[k] = u \o <<>> BY <4>2, <4>3, <4>6 DEF Piece
        <5>2. u \o <<>> = u BY <4>4
        <5>3. Body(h)[k] = h[k - 1] BY <3>2, <4>6
        <5> QED BY <4>2, <5>1, <5>2, <5>3
      <4> QED BY <4>5, <4>6
    <3> QED BY <3>1, <3>2
  <2> QED BY <2>1
<1>8. j = Body(j)
  <2> HIDE DEF Body, h
  <2> QED BY <1>2, <1>7
<1> DEFINE S == {k \in 0 .. N : j[m + k] = f[k]}
<1>9. 0 \in S
  <2>1. m \in m .. n /\ m + 0 = m BY <1>3
  <2>2. j[m] = <<>> BY <1>8, <2>1
  <2> QED BY <1>3, <1>5, <2>1, <2>2 DEF Collects
<1>10. ASSUME NEW k \in 1 .. N, k - 1 \in S PROVE k \in S
  <2>1. m + k \in m .. n /\ m + k # m /\ (m + k) - 1 = m + (k - 1) /\ m + k \in 1 .. Len(s)
        /\ k - 1 \in 0 .. N /\ k \in 0 .. N
    OBVIOUS
  <2>2. j[(m + k) - 1] = f[k - 1] BY <1>10, <2>1
  <2>3. f[k - 1] \in Seq(Byte) BY <2>1
  <2>4. h[m + k] = f[k] /\ h[(m + k) - 1] = f[k - 1]
    <3>1. (m + k) - 1 \in m .. n /\ (m + k) - m = k /\ ((m + k) - 1) - m = k - 1 OBVIOUS
    <3> QED BY <2>1, <3>1
  <2>5. j[m + k] = Body(j)[m + k] BY <1>8
  <2>6. h[m + k] = Body(h)[m + k] BY <1>7
  <2> HIDE DEF h
  <2>7. Body(j)[m + k] = Body(h)[m + k] BY <2>1, <2>2, <2>4
  <2>8. j[m + k] = f[k] BY <2>4, <2>5, <2>6, <2>7
  <2> QED BY <2>1, <2>8
<1> HIDE DEF S
<1>11. 0 .. N \subseteq S BY <1>3, <1>9, <1>10, InductiveSet
<1>12. N \in S BY <1>3, <1>11
<1>13. j[n] = f[N]
  <2>1. m + N = n OBVIOUS
  <2> QED BY <1>12, <2>1 DEF S
<1> QED BY <1>1, <1>5, <1>13

\* The line that has no end yet.
Open(s) == SubSeq(s, (IF Ends(s) = {} THEN 0 ELSE Max(Ends(s))) + 1, Len(s))

\* The ends of lines seen so far, with one more byte.
LEMMA EndsAppend ==
    ASSUME NEW p \in Seq(Byte), NEW x \in Byte
    PROVE  /\ Ends(p) \subseteq 1 .. Len(p)
           /\ Ends(Append(p, x)) = Ends(p) \cup (IF x = "nl" THEN {Len(p) + 1} ELSE {})
           /\ \A n \in 1 .. Len(p) + 1 :
                {m \in Ends(Append(p, x)) : m < n} = {m \in Ends(p) : m < n}
           /\ {m \in Ends(p) : m < Len(p) + 1} = Ends(p)
<1> DEFINE q == Append(p, x)
<1>1. /\ q \in Seq(Byte) /\ Len(q) = Len(p) + 1 /\ q[Len(p) + 1] = x
      /\ \A i \in 1 .. Len(p) : q[i] = p[i]
  BY OneMore
<1>2. Len(p) \in Nat OBVIOUS
<1> HIDE DEF q
<1>3. Ends(p) \subseteq 1 .. Len(p) BY DEF Ends
<1>4. Ends(q) = Ends(p) \cup (IF x = "nl" THEN {Len(p) + 1} ELSE {})
  <2>1. \A m : m \in 1 .. Len(q) <=> m \in 1 .. Len(p) \/ m = Len(p) + 1 BY <1>1, <1>2
  <2>2. \A m : m \in Ends(q) <=> m \in Ends(p) \/ (m = Len(p) + 1 /\ x = "nl")
    BY <1>1, <1>2, <2>1 DEF Ends
  <2> QED BY <2>2
<1>5. ASSUME NEW n \in 1 .. Len(p) + 1
      PROVE  {m \in Ends(q) : m < n} = {m \in Ends(p) : m < n}
  BY <1>2, <1>3, <1>4
<1>6. {m \in Ends(p) : m < Len(p) + 1} = Ends(p)
  BY <1>2, <1>3
<1> QED BY <1>3, <1>4, <1>5, <1>6 DEF q

\* One more byte does not change the lines before it, and it ends the open one.
LEMMA LineEndingAppend ==
    ASSUME NEW p \in Seq(Byte), NEW x \in Byte
    PROVE  /\ \A n \in 1 .. Len(p) : LineEndingAt(Append(p, x), n) = LineEndingAt(p, n)
           /\ LineEndingAt(Append(p, x), Len(p) + 1) = StripCr(Open(p))
<1> DEFINE q == Append(p, x)
           Cut(s, n) == LET before == {m \in Ends(s) : m < n}
                        IN  IF before = {} THEN 0 ELSE Max(before)
<1>1. Len(p) \in Nat OBVIOUS
<1>2. ASSUME NEW n \in 1 .. Len(p) + 1
      PROVE  LineEndingAt(q, n) = StripCr(SubSeq(p, Cut(p, n) + 1, n - 1))
  <2>1. Cut(p, n) \in Nat BY <1>1, EndsBefore
  <2>2. Cut(q, n) = Cut(p, n)
    <3>1. {m \in Ends(q) : m < n} = {m \in Ends(p) : m < n} BY EndsAppend
    <3> HIDE DEF q
    <3> QED BY <3>1, Zenon
  <2>3. LineEndingAt(q, n) = StripCr(SubSeq(q, Cut(q, n) + 1, n - 1)) BY DEF LineEndingAt
  <2> HIDE DEF Cut, q
  <2>4. Cut(p, n) + 1 \in Nat \ {0} /\ n - 1 \in Nat /\ n - 1 <= Len(p) BY <1>1, <2>1
  <2>5. SubSeq(q, Cut(p, n) + 1, n - 1) = SubSeq(p, Cut(p, n) + 1, n - 1)
    BY <2>4, PartOfAppend DEF q
  <2> QED BY <2>2, <2>3, <2>5
<1>3. ASSUME NEW n \in 1 .. Len(p) PROVE LineEndingAt(q, n) = LineEndingAt(p, n)
  <2>1. LineEndingAt(p, n) = StripCr(SubSeq(p, Cut(p, n) + 1, n - 1)) BY DEF LineEndingAt
  <2>2. n \in 1 .. Len(p) + 1 BY <1>1
  <2> HIDE DEF Cut, q
  <2> QED BY <1>2, <2>1, <2>2
<1>4. LineEndingAt(q, Len(p) + 1) = StripCr(Open(p))
  <2>1. Len(p) + 1 \in 1 .. Len(p) + 1 /\ (Len(p) + 1) - 1 = Len(p) BY <1>1
  <2>2. Cut(p, Len(p) + 1) = IF Ends(p) = {} THEN 0 ELSE Max(Ends(p)) BY EndsAppend
  <2> HIDE DEF Cut, q
  <2>3. LineEndingAt(q, Len(p) + 1) = StripCr(SubSeq(p, Cut(p, Len(p) + 1) + 1, Len(p)))
    BY <1>2, <2>1
  <2> QED BY <2>2, <2>3 DEF Open
<1> QED BY <1>3, <1>4

\* What kind of line ends at a byte is not changed by later bytes.
LEMMA PieceAppend ==
    ASSUME NEW p \in Seq(Byte), NEW x \in Byte, NEW n \in 1 .. Len(p)
    PROVE  /\ Blank(Append(p, x), n) <=> Blank(p, n)
           /\ HasData(Append(p, x), n) <=> HasData(p, n)
           /\ Piece(Append(p, x), n) = Piece(p, n)
<1> DEFINE q == Append(p, x)
<1>1. LineEndingAt(q, n) = LineEndingAt(p, n) BY LineEndingAppend
<1>2. n \in Ends(q) <=> n \in Ends(p)
  <2>1. Len(p) \in Nat /\ n # Len(p) + 1 OBVIOUS
  <2> QED BY <2>1, EndsAppend
<1> HIDE DEF q
<1>3. Blank(q, n) <=> Blank(p, n) BY <1>1, <1>2 DEF Blank
<1>4. HasData(q, n) <=> HasData(p, n) BY <1>1, <1>2 DEF HasData
<1>5. Piece(q, n) = Piece(p, n) BY <1>1, <1>4 DEF Piece
<1> QED BY <1>3, <1>4, <1>5 DEF q

\* The open line, with one more byte.
LEMMA OpenAppend ==
    ASSUME NEW p \in Seq(Byte), NEW x \in Byte
    PROVE  /\ Open(p) \in Seq(Byte)
           /\ Open(Append(p, x)) = IF x = "nl" THEN <<>> ELSE Append(Open(p), x)
<1> DEFINE q == Append(p, x)
           c == IF Ends(p) = {} THEN 0 ELSE Max(Ends(p))
<1>1. /\ q \in Seq(Byte) /\ Len(q) = Len(p) + 1 /\ q[Len(p) + 1] = x
      /\ \A i \in 1 .. Len(p) : q[i] = p[i]
  BY OneMore
<1>2. Len(p) \in Nat OBVIOUS
<1>3. c \in Nat /\ c <= Len(p)
  <2>1. Len(p) + 1 \in Nat BY <1>2
  <2>2. {m \in Ends(p) : m < Len(p) + 1} = Ends(p) BY EndsAppend
  <2> QED BY <2>1, <2>2, EndsBefore
<1>4. Open(p) = SubSeq(p, c + 1, Len(p)) BY DEF Open
<1>5. Ends(q) = Ends(p) \cup (IF x = "nl" THEN {Len(p) + 1} ELSE {}) BY EndsAppend
<1>6. Ends(p) \subseteq 1 .. Len(p) BY EndsAppend
<1> HIDE DEF q
<1>7. Open(p) \in Seq(Byte)
  <2>1. c + 1 \in Nat \ {0} /\ Len(p) <= Len(p) BY <1>2, <1>3
  <2> HIDE DEF c
  <2> QED BY <1>2, <1>4, <2>1, PartOf
<1>8. CASE x = "nl"
  <2>1. Ends(q) = Ends(p) \cup {Len(p) + 1} BY <1>5, <1>8
  <2>2. Ends(q) \in SUBSET (0 .. Len(p) + 1) /\ Ends(q) # {} BY <1>2, <1>6, <2>1
  <2>3. Len(p) + 1 \in Nat BY <1>2
  <2>4. Max(Ends(q)) \in Ends(q) /\ \A y \in Ends(q) : y <= Max(Ends(q))
    BY <2>2, <2>3, MaxFacts
  <2> DEFINE M == Max(Ends(q))
  <2>5. M \in Ends(q) /\ \A y \in Ends(q) : y <= M BY <2>4
  <2> HIDE DEF M
  <2>6. M \in 0 .. Len(p) + 1 /\ Len(p) + 1 <= M BY <2>1, <2>2, <2>5
  <2>7. M = Len(p) + 1 BY <1>2, <2>6
  <2>8. Open(q) = SubSeq(q, Len(p) + 2, Len(p) + 1)
    <3>1. M + 1 = Len(p) + 2 BY <1>2, <2>7
    <3> QED BY <1>1, <2>2, <3>1 DEF Open, M
  <2>9. Open(q) = <<>>
    <3>1. Len(p) + 1 \in Int /\ Len(p) + 2 \in Int /\ Len(p) + 1 < Len(p) + 2 BY <1>2
    <3> QED BY <2>8, <3>1, SubSeqEmpty
  <2> QED BY <1>7, <1>8, <2>9 DEF q
<1>9. CASE x # "nl"
  <2>1. Ends(q) = Ends(p) BY <1>5, <1>9
  <2>2. Open(q) = SubSeq(q, c + 1, Len(p) + 1) BY <1>1, <2>1 DEF Open
  <2> HIDE DEF c
  <2>3. /\ c + 1 \in 1 .. Len(q) /\ Len(p) + 1 \in c + 1 .. Len(q) /\ (Len(p) + 1) - 1 = Len(p)
        /\ c + 1 \in Nat \ {0} /\ Len(p) <= Len(p)
    BY <1>1, <1>2, <1>3
  <2>4. SubSeq(q, c + 1, Len(p) + 1) = SubSeq(q, c + 1, Len(p)) \o <<q[Len(p) + 1]>>
    BY <1>1, <2>3, SubSeqRecursiveSecond
  <2>5. SubSeq(q, c + 1, Len(p)) = SubSeq(p, c + 1, Len(p))
    BY <1>2, <2>3, PartOfAppend DEF q
  <2>6. Open(q) = Open(p) \o <<x>> BY <1>1, <1>4, <2>2, <2>4, <2>5
  <2>7. Append(Open(p), x) = Open(p) \o <<x>> BY <1>7, AppendIsConcat
  <2> QED BY <1>7, <1>9, <2>6, <2>7 DEF q
<1> QED BY <1>8, <1>9

\* Joined, line by line.
LEMMA JoinedNext ==
    ASSUME NEW s \in Seq(Byte), NEW n \in 0 .. Len(s), NEW m \in 0 .. n
    PROVE  /\ Joined(s, m, n) \in Seq(Byte)
           /\ m = n => Joined(s, m, n) = <<>>
           /\ m < n => Joined(s, m, n) = Joined(s, m, n - 1) \o Piece(s, n)
<1> DEFINE P(k) == [i \in 1 .. k - m |-> Piece(s, m + i)]
<1>1. PICK f \in [0 .. n - m -> Seq(Byte)] :
        Collects(f, n - m, P(n)) /\ Joined(s, m, n) = f[n - m]
  BY JoinedLoop
<1>2. n - m \in 0 .. n - m BY <1>1
<1>3. f[n - m] \in Seq(Byte) BY <1>2
<1>4. ASSUME m = n PROVE Joined(s, m, n) = <<>>
  <2>1. n - m = 0 BY <1>4
  <2> QED BY <1>1, <2>1 DEF Collects
<1>5. ASSUME m < n PROVE Joined(s, m, n) = Joined(s, m, n - 1) \o Piece(s, n)
  <2>1. n - 1 \in 0 .. Len(s) /\ m \in 0 .. n - 1 BY <1>5
  <2>2. PICK g \in [0 .. (n - 1) - m -> Seq(Byte)] :
          Collects(g, (n - 1) - m, P(n - 1)) /\ Joined(s, m, n - 1) = g[(n - 1) - m]
    <3> HIDE DEF P
    <3> QED BY <2>1, JoinedLoop DEF P
  <2> DEFINE k == (n - 1) - m
             N == n - m
  <2>3. k \in Nat /\ N \in Nat /\ k <= N /\ k <= k /\ k + 1 = N /\ N - 1 = k /\ N \in 1 .. N /\ m + N = n
    BY <1>5
  <2>4. \A i \in 1 .. k : P(n)[i] = P(n - 1)[i] BY <2>3
  <2>5. P(n)[N] = Piece(s, n) BY <2>3
  <2>6. Collects(f, N, P(n)) /\ Collects(g, k, P(n - 1)) BY <1>1, <2>2
  <2>7. Joined(s, m, n - 1) = g[k] /\ Joined(s, m, n) = f[N] BY <1>1, <2>2
  <2> HIDE DEF P, k, N
  <2>8. f[k] = g[k]
    <3> DEFINE P1 == P(n)
               P2 == P(n - 1)
    <3>1. Collects(f, N, P1) /\ Collects(g, k, P2) /\ \A i \in 1 .. k : P1[i] = P2[i]
      BY <2>4, <2>6
    <3> HIDE DEF P1, P2
    <3>2. \A i \in 1 .. k : i \in 1 .. N BY <2>3
    <3>3. Collects(f, k, P1) /\ Collects(g, k, P1) BY <3>1, <3>2 DEF Collects
    <3> QED BY <2>3, <3>3, CollectAgree, Zenon
  <2>9. f[N] = f[N - 1] \o P(n)[N] BY <2>3, <2>6 DEF Collects
  <2> QED BY <2>3, <2>5, <2>7, <2>8, <2>9
<1> QED BY <1>1, <1>3, <1>4, <1>5

\* Later bytes do not change it.
LEMMA JoinedAppend ==
    ASSUME NEW p \in Seq(Byte), NEW x \in Byte, NEW n \in 0 .. Len(p), NEW m \in 0 .. n
    PROVE  Joined(Append(p, x), m, n) = Joined(p, m, n)
<1> DEFINE q == Append(p, x)
           N == n - m
           P == [i \in 1 .. n - m |-> Piece(p, m + i)]
           Q == [i \in 1 .. n - m |-> Piece(q, m + i)]
<1>1. q \in Seq(Byte) /\ Len(q) = Len(p) + 1 BY OneMore
<1>2. Len(p) \in Nat OBVIOUS
<1>3. n \in 0 .. Len(q) BY <1>1, <1>2
<1>4. ASSUME NEW i \in 1 .. N PROVE P[i] = Q[i]
  <2>1. m + i \in 1 .. Len(p) OBVIOUS
  <2>2. Piece(q, m + i) = Piece(p, m + i) BY <2>1, PieceAppend
  <2> QED BY <2>2
<1> HIDE DEF q
<1>5. PICK f \in [0 .. n - m -> Seq(Byte)] : Collects(f, n - m, P) /\ Joined(p, m, n) = f[n - m]
  BY JoinedLoop
<1>6. PICK g \in [0 .. n - m -> Seq(Byte)] : Collects(g, n - m, Q) /\ Joined(q, m, n) = g[n - m]
  BY <1>1, <1>3, JoinedLoop
<1>7. N \in Nat /\ N <= N OBVIOUS
<1>8. Collects(f, N, P) /\ Collects(g, N, Q) BY <1>5, <1>6
<1>9. f[N] = g[N]
  <2> HIDE DEF N, P, Q
  <2>1. Collects(g, N, P) BY <1>4, <1>8 DEF Collects
  <2> QED BY <1>7, <1>8, <2>1, CollectAgree, Zenon
<1> QED BY <1>5, <1>6, <1>9 DEF q

\* The last blank line up to byte n.
LastBlank(s, n) == Max({0} \cup {m \in 1 .. n : Blank(s, m)})

\* It is where it should be.
LEMMA LastBlankType ==
    ASSUME NEW s, NEW n \in Nat
    PROVE  /\ LastBlank(s, n) \in 0 .. n
           /\ n > 0 /\ Blank(s, n) => LastBlank(s, n) = n
           /\ n > 0 /\ ~Blank(s, n) => LastBlank(s, n) = LastBlank(s, n - 1)
<1> DEFINE S == {0} \cup {m \in 1 .. n : Blank(s, m)}
           M == Max(S)
<1>1. S \in SUBSET (0 .. n) /\ S # {} OBVIOUS
<1>2. M \in S /\ \A y \in S : y <= M
  <2> HIDE DEF S
  <2> QED BY <1>1, MaxFacts
<1>3. LastBlank(s, n) = M BY DEF LastBlank
<1>4. n > 0 /\ Blank(s, n) => n \in S OBVIOUS
<1>5. ASSUME n > 0, ~Blank(s, n) PROVE LastBlank(s, n) = LastBlank(s, n - 1)
  <2>1. S = {0} \cup {m \in 1 .. n - 1 : Blank(s, m)} BY <1>5
  <2> QED BY <2>1 DEF LastBlank
<1> HIDE DEF M, S
<1>6. M \in 0 .. n BY <1>1, <1>2
<1>7. n > 0 /\ Blank(s, n) => M = n
  <2>1. n > 0 /\ Blank(s, n) => n <= M BY <1>2, <1>4
  <2> QED BY <1>6, <2>1
<1> QED BY <1>3, <1>5, <1>6, <1>7

\* Later bytes do not change it.
LEMMA LastBlankAppend ==
    ASSUME NEW p \in Seq(Byte), NEW x \in Byte, NEW n \in 0 .. Len(p)
    PROVE  LastBlank(Append(p, x), n) = LastBlank(p, n)
<1>1. \A m \in 1 .. n : m \in 1 .. Len(p) OBVIOUS
<1>2. \A m \in 1 .. n : Blank(Append(p, x), m) <=> Blank(p, m) BY <1>1, PieceAppend
<1>3. {m \in 1 .. n : Blank(Append(p, x), m)} = {m \in 1 .. n : Blank(p, m)} BY <1>2
<1> QED BY <1>3 DEF LastBlank

\* The payload of an event that has data is a sequence of bytes.
LEMMA PayloadType ==
    ASSUME NEW d \in Seq(Byte), d # <<>>
    PROVE  Payload(d) \in Seq(Byte)
<1>1. Len(d) - 1 \in Nat /\ Len(d) - 1 <= Len(d) OBVIOUS
<1> QED BY <1>1, PartOf DEF Payload

\* The event that a blank line at byte k ends, if any.
EventPiece(s, k) ==
    IF Blank(s, k) /\ Joined(s, LastBlank(s, k - 1), k) # <<>>
    THEN <<Payload(Joined(s, LastBlank(s, k - 1), k))>>
    ELSE <<>>

\* It is at most one payload.
LEMMA EventPieceType ==
    ASSUME NEW s \in Seq(Byte), NEW k \in 1 .. Len(s)
    PROVE  /\ Joined(s, LastBlank(s, k - 1), k) \in Seq(Byte)
           /\ EventPiece(s, k) \in Seq(Seq(Byte))
<1> DEFINE t == Joined(s, LastBlank(s, k - 1), k)
<1>1. k - 1 \in Nat /\ k \in 0 .. Len(s) OBVIOUS
<1>2. LastBlank(s, k - 1) \in 0 .. k - 1 BY <1>1, LastBlankType
<1>3. LastBlank(s, k - 1) \in 0 .. k BY <1>1, <1>2
<1>4. t \in Seq(Byte) BY <1>1, <1>3, JoinedNext
<1> HIDE DEF t
<1>5. t # <<>> => Payload(t) \in Seq(Byte) BY <1>4, PayloadType
<1>6. t # <<>> => <<Payload(t)>> \in Seq(Seq(Byte))
  <2> DEFINE y == Payload(t)
  <2>1. t # <<>> => y \in Seq(Byte) BY <1>5
  <2> HIDE DEF y
  <2>2. t # <<>> => <<y>> \in Seq(Seq(Byte)) BY <2>1
  <2> QED BY <2>2 DEF y
<1>7. <<>> \in Seq(Seq(Byte)) OBVIOUS
<1>8. EventPiece(s, k) = IF Blank(s, k) /\ t # <<>> THEN <<Payload(t)>> ELSE <<>>
  BY DEF EventPiece, t
<1> QED BY <1>4, <1>6, <1>7, <1>8 DEF t

\* Events collects the events of the blank lines.
LEMMA EventsLoop ==
    ASSUME NEW s \in Seq(Byte)
    PROVE  \E f \in [0 .. Len(s) -> Seq(Seq(Byte))] :
             /\ Collects(f, Len(s), [k \in 1 .. Len(s) |-> EventPiece(s, k)])
             /\ Events(s) = f[Len(s)]
<1> DEFINE N == Len(s)
           e[n \in 0 .. Len(s)] ==
             IF n = 0 THEN <<>>
             ELSE IF Blank(s, n)
                  THEN LET start == Max({0} \cup {m \in 1 .. n - 1 : Blank(s, m)})
                           text == Joined(s, start, n)
                       IN  IF text = <<>> THEN e[n - 1] ELSE Append(e[n - 1], Payload(text))
                  ELSE e[n - 1]
           T(n) == Joined(s, LastBlank(s, n - 1), n)
           Body(g) == [n \in 0 .. Len(s) |->
             IF n = 0 THEN <<>>
             ELSE IF Blank(s, n)
                  THEN IF T(n) = <<>> THEN g[n - 1] ELSE Append(g[n - 1], Payload(T(n)))
                  ELSE g[n - 1]]
           piece == [k \in 1 .. Len(s) |-> EventPiece(s, k)]
<1>1. Events(s) = e[Len(s)] BY DEF Events
<1>2. e = CHOOSE g : g = Body(g) BY DEF LastBlank
<1>3. N \in Nat OBVIOUS
<1>4. piece \in [1 .. N -> Seq(Seq(Byte))] BY EventPieceType
<1> HIDE DEF e
<1>5. PICK f \in [0 .. N -> Seq(Seq(Byte))] : Collects(f, N, piece)
  <2> HIDE DEF N, piece
  <2> QED BY <1>3, <1>4, CollectExists
<1>6. ASSUME NEW k \in 1 .. N PROVE f[k] = f[k - 1] \o EventPiece(s, k)
  <2>1. f[k] = f[k - 1] \o piece[k] BY <1>5 DEF Collects
  <2>2. piece[k] = EventPiece(s, k) OBVIOUS
  <2> QED BY <2>1, <2>2
<1>7. ASSUME NEW k \in 1 .. N, NEW u \in Seq(Seq(Byte))
      PROVE  u \o EventPiece(s, k) = IF Blank(s, k)
                                     THEN IF T(k) = <<>> THEN u ELSE Append(u, Payload(T(k)))
                                     ELSE u
  <2>1. u \o <<>> = u OBVIOUS
  <2>2. T(k) # <<>> => Append(u, Payload(T(k))) = u \o <<Payload(T(k))>>
    <3>1. T(k) \in Seq(Byte) BY EventPieceType
    <3> DEFINE t == T(k)
               y == Payload(t)
    <3>2. t # <<>> => y \in Seq(Byte) BY <3>1, PayloadType
    <3> HIDE DEF y
    <3>3. t # <<>> => Append(u, y) = u \o <<y>> BY <3>2, AppendIsConcat
    <3> QED BY <3>3 DEF y
  <2>3. EventPiece(s, k) = IF Blank(s, k) /\ T(k) # <<>> THEN <<Payload(T(k))>> ELSE <<>>
    BY DEF EventPiece
  <2> HIDE DEF T
  <2> QED BY <2>1, <2>2, <2>3
<1> HIDE DEF T
<1>8. f = Body(f)
  <2>1. ASSUME NEW n \in 0 .. N PROVE f[n] = Body(f)[n]
    <3>1. CASE n = 0 BY <1>5, <3>1 DEF Collects
    <3>2. CASE n # 0
      <4>1. n \in 1 .. N /\ n - 1 \in 0 .. N BY <1>3, <3>2
      <4>2. f[n - 1] \in Seq(Seq(Byte)) BY <4>1
      <4>3. f[n] = f[n - 1] \o EventPiece(s, n) BY <1>6, <4>1
      <4> QED BY <1>7, <3>2, <4>1, <4>2, <4>3
    <3> QED BY <3>1, <3>2
  <2> QED BY <2>1
<1>9. e = Body(e)
  <2> HIDE DEF Body
  <2> QED BY <1>2, <1>8
<1> DEFINE S == {k \in 0 .. N : e[k] = f[k]}
<1>10. 0 \in S BY <1>3, <1>5, <1>9 DEF Collects
<1>11. ASSUME NEW k \in 1 .. N, k - 1 \in S PROVE k \in S
  <2>1. k \in 0 .. N /\ k # 0 /\ e[k - 1] = f[k - 1] BY <1>11
  <2>2. e[k] = Body(e)[k] BY <1>9
  <2>3. f[k] = Body(f)[k] BY <1>8
  <2>4. Body(e)[k] = Body(f)[k] BY <2>1
  <2> QED BY <2>1, <2>2, <2>3, <2>4
<1> HIDE DEF S
<1>12. 0 .. N \subseteq S BY <1>3, <1>10, <1>11, InductiveSet
<1>13. e[N] = f[N] BY <1>3, <1>12 DEF S
<1> QED BY <1>1, <1>5, <1>13

\* Events, with one more byte.
LEMMA EventsAppend ==
    ASSUME NEW p \in Seq(Byte), NEW x \in Byte
    PROVE  /\ Events(p) \in Seq(Seq(Byte))
           /\ Events(<<>>) = <<>>
           /\ Events(Append(p, x)) = Events(p) \o EventPiece(Append(p, x), Len(p) + 1)
<1> DEFINE q == Append(p, x)
           N == Len(p)
           P == [k \in 1 .. Len(p) |-> EventPiece(p, k)]
           Q == [k \in 1 .. Len(q) |-> EventPiece(q, k)]
<1>1. q \in Seq(Byte) /\ Len(q) = N + 1 BY OneMore
<1>2. N \in Nat OBVIOUS
<1>3. ASSUME NEW k \in 1 .. N PROVE EventPiece(q, k) = EventPiece(p, k)
  <2>1. k - 1 \in 0 .. Len(p) /\ k - 1 \in Nat /\ k \in 0 .. Len(p) OBVIOUS
  <2>2. LastBlank(q, k - 1) = LastBlank(p, k - 1) BY <2>1, LastBlankAppend
  <2> DEFINE b == LastBlank(p, k - 1)
  <2>3. b \in 0 .. k - 1 BY <2>1, LastBlankType
  <2> HIDE DEF b
  <2>4. b \in 0 .. k BY <2>1, <2>3
  <2>5. Joined(q, b, k) = Joined(p, b, k) BY <2>1, <2>4, JoinedAppend
  <2>6. Blank(q, k) <=> Blank(p, k) BY PieceAppend
  <2> HIDE DEF q
  <2>7. LastBlank(q, k - 1) = b /\ LastBlank(p, k - 1) = b BY <2>2 DEF b
  <2> QED BY <2>5, <2>6, <2>7, Zenon DEF EventPiece
<1>4. PICK f \in [0 .. N -> Seq(Seq(Byte))] : Collects(f, N, P) /\ Events(p) = f[N]
  BY EventsLoop
<1> HIDE DEF q
<1>5. PICK g \in [0 .. Len(q) -> Seq(Seq(Byte))] :
        Collects(g, Len(q), Q) /\ Events(q) = g[Len(q)]
  BY <1>1, EventsLoop
<1>6. /\ N + 1 \in 1 .. N + 1 /\ (N + 1) - 1 = N /\ N \in 0 .. N
      /\ \A k \in 1 .. N : k \in 1 .. N + 1
  BY <1>2
<1>7. Q[N + 1] = EventPiece(q, N + 1) /\ \A k \in 1 .. N : Q[k] = P[k] BY <1>1, <1>3, <1>6
<1> HIDE DEF N, P, Q
<1>8. g[N + 1] = g[N] \o EventPiece(q, N + 1) BY <1>1, <1>5, <1>6, <1>7 DEF Collects
<1>9. Collects(g, N, P) BY <1>1, <1>5, <1>6, <1>7 DEF Collects
<1>10. f[N] = g[N] BY <1>2, <1>4, <1>9, CollectAgree, Zenon
<1>11. Events(q) = Events(p) \o EventPiece(q, N + 1) BY <1>1, <1>4, <1>5, <1>8, <1>10
<1>12. Events(p) \in Seq(Seq(Byte)) BY <1>4, <1>6
<1>13. Events(<<>>) = <<>>
  <2> DEFINE z == <<>>
             Z == [k \in 1 .. Len(z) |-> EventPiece(z, k)]
  <2>1. z \in Seq(Byte) /\ Len(z) = 0 OBVIOUS
  <2> HIDE DEF z
  <2>2. PICK h \in [0 .. Len(z) -> Seq(Seq(Byte))] :
          Collects(h, Len(z), Z) /\ Events(z) = h[Len(z)]
    BY <2>1, EventsLoop
  <2> QED BY <2>1, <2>2 DEF Collects, z
<1> QED BY <1>11, <1>12, <1>13 DEF q, N

\* The data of the event under construction, and what one more byte makes of
\* it and of the events: nothing, unless it ends a line.  A blank line ends the
\* event, a data line joins it, another line is ignored.
LEMMA ByteRead ==
    ASSUME NEW p \in Seq(Byte), NEW x \in Byte
    PROVE  LET q == Append(p, x)
               line == StripCr(Open(p))
           IN  /\ Rest(p) \in Seq(Byte)
               /\ x # "nl" => Events(q) = Events(p) /\ Rest(q) = Rest(p)
               /\ x = "nl" /\ line = <<>> =>
                    /\ Rest(q) = <<>>
                    /\ Events(q) = IF Rest(p) = <<>> THEN Events(p)
                                   ELSE Append(Events(p), Payload(Rest(p)))
               /\ x = "nl" /\ line # <<>> =>
                    /\ Events(q) = Events(p)
                    /\ Rest(q) = IF IsData(line) /\ Utf8(DataOf(line))
                                 THEN Rest(p) \o (DataOf(line) \o <<"nl">>)
                                 ELSE Rest(p)
<1> DEFINE q == Append(p, x)
           line == StripCr(Open(p))
           N == Len(p)
           b == LastBlank(p, N)
<1>1. q \in Seq(Byte) /\ Len(q) = N + 1 BY OneMore
<1>2. N \in Nat /\ N + 1 \in Nat /\ (N + 1) - 1 = N /\ N + 1 > 0 OBVIOUS
<1>3. Rest(p) = Joined(p, b, N) /\ Rest(q) = Joined(q, LastBlank(q, N + 1), N + 1)
  BY <1>1 DEF Rest, LastBlank
<1>4. b \in 0 .. N BY <1>2, LastBlankType
<1>5. LineEndingAt(q, N + 1) = line BY LineEndingAppend
<1>6. N + 1 \in Ends(q) <=> x = "nl"
  <2>1. N + 1 \notin Ends(p) BY <1>2, EndsAppend
  <2> QED BY <2>1, EndsAppend
<1>7. LastBlank(q, N) = b
  <2>1. N \in 0 .. Len(p) BY <1>2
  <2> QED BY <2>1, LastBlankAppend
<1>8. Joined(q, b, N) = Rest(p)
  <2>1. N \in 0 .. Len(p) BY <1>2
  <2> HIDE DEF b
  <2> QED BY <1>3, <1>4, <2>1, JoinedAppend
<1>9. Rest(p) \in Seq(Byte)
  <2>1. N \in 0 .. Len(p) BY <1>2
  <2> HIDE DEF b, N
  <2> QED BY <1>3, <1>4, <2>1, JoinedNext DEF N
<1>10. Events(p) \in Seq(Seq(Byte)) /\ Events(q) = Events(p) \o EventPiece(q, N + 1)
  BY EventsAppend
<1>11. line \in Seq(Byte) BY OpenAppend, LineTypes
<1> HIDE DEF q, line, N, b
<1>12. Joined(q, b, N + 1) = Rest(p) \o Piece(q, N + 1)
  <2>1. N + 1 \in 0 .. Len(q) /\ b \in 0 .. N + 1 /\ b < N + 1 BY <1>1, <1>2, <1>4
  <2>2. Joined(q, b, N + 1) = Joined(q, b, (N + 1) - 1) \o Piece(q, N + 1)
    <3> DEFINE M == N + 1
    <3>1. M \in 0 .. Len(q) /\ b \in 0 .. M /\ b < M BY <2>1
    <3> HIDE DEF M
    <3>2. Joined(q, b, M) = Joined(q, b, M - 1) \o Piece(q, M) BY <1>1, <3>1, JoinedNext
    <3> QED BY <3>2 DEF M
  <2> QED BY <1>2, <1>8, <2>2
<1>13. Blank(q, N + 1) <=> x = "nl" /\ line = <<>> BY <1>5, <1>6 DEF Blank
<1>14. HasData(q, N + 1) <=> x = "nl" /\ IsData(line) /\ Utf8(DataOf(line))
  BY <1>5, <1>6 DEF HasData
<1>15. Piece(q, N + 1) = IF HasData(q, N + 1) THEN DataOf(line) \o <<"nl">> ELSE <<>>
  BY <1>5 DEF Piece
<1>16. Rest(p) \o <<>> = Rest(p) /\ Events(p) \o <<>> = Events(p) BY <1>9, <1>10
<1>17. EventPiece(q, N + 1) = IF Blank(q, N + 1) /\ Joined(q, b, N + 1) # <<>>
                             THEN <<Payload(Joined(q, b, N + 1))>> ELSE <<>>
  BY <1>2, <1>7 DEF EventPiece
<1>18. ~Blank(q, N + 1) => LastBlank(q, N + 1) = b BY <1>2, <1>7, LastBlankType
<1>19. ASSUME ~Blank(q, N + 1)
       PROVE  Events(q) = Events(p) /\ Rest(q) = Rest(p) \o Piece(q, N + 1)
  BY <1>3, <1>10, <1>12, <1>16, <1>17, <1>18, <1>19
<1>20. ASSUME x # "nl" PROVE Events(q) = Events(p) /\ Rest(q) = Rest(p)
  BY <1>13, <1>14, <1>15, <1>16, <1>19, <1>20
<1>21. ASSUME x = "nl", line = <<>>
       PROVE  /\ Rest(q) = <<>>
              /\ Events(q) = IF Rest(p) = <<>> THEN Events(p)
                             ELSE Append(Events(p), Payload(Rest(p)))
  <2>1. Blank(q, N + 1) BY <1>13, <1>21
  <2>2. ~HasData(q, N + 1) BY <1>14, <1>21 DEF IsData
  <2>3. Joined(q, b, N + 1) = Rest(p) BY <1>12, <1>15, <1>16, <2>2
  <2>4. LastBlank(q, N + 1) = N + 1 BY <1>2, <2>1, LastBlankType
  <2>5. Rest(q) = <<>>
    <3>1. N + 1 \in 0 .. Len(q) /\ N + 1 \in 0 .. N + 1 BY <1>1, <1>2
    <3> QED BY <1>1, <1>3, <2>4, <3>1, JoinedNext
  <2>6. Rest(p) # <<>> => Append(Events(p), Payload(Rest(p))) = Events(p) \o <<Payload(Rest(p))>>
    <3> DEFINE y == Payload(Rest(p))
               V == Seq(Byte)
    <3>1. Rest(p) # <<>> => y \in V BY <1>9, PayloadType
    <3>2. Events(p) \in Seq(V) BY <1>10
    <3> HIDE DEF y, V
    <3>3. Rest(p) # <<>> => Append(Events(p), y) = Events(p) \o <<y>> BY <3>1, <3>2, AppendIsConcat
    <3> QED BY <3>3 DEF y
  <2> QED BY <1>10, <1>16, <1>17, <2>1, <2>3, <2>5, <2>6
<1>22. ASSUME x = "nl", line # <<>>
       PROVE  /\ Events(q) = Events(p)
              /\ Rest(q) = IF IsData(line) /\ Utf8(DataOf(line))
                           THEN Rest(p) \o (DataOf(line) \o <<"nl">>)
                           ELSE Rest(p)
  <2>1. ~Blank(q, N + 1) BY <1>13, <1>22
  <2>2. Events(q) = Events(p) /\ Rest(q) = Rest(p) \o Piece(q, N + 1) BY <1>19, <2>1
  <2> QED BY <1>14, <1>15, <1>16, <1>22, <2>2
<1> QED BY <1>9, <1>20, <1>21, <1>22 DEF q, line

\* Nothing read: nothing to remember.
LEMMA NothingRead == Open(<<>>) = <<>> /\ Rest(<<>>) = <<>> /\ Events(<<>>) = <<>>
<1> DEFINE z == <<>>
<1>1. z \in Seq(Byte) /\ Len(z) = 0 OBVIOUS
<1>2. Ends(z) = {} BY <1>1 DEF Ends
<1>3. "nl" \in Byte BY FramingAssumption
<1>4. Events(<<>>) = <<>> BY <1>1, <1>3, EventsAppend
<1> HIDE DEF z
<1>5. Open(z) = <<>>
  <2>1. Open(z) = SubSeq(z, 0 + 1, 0) BY <1>1, <1>2 DEF Open
  <2>2. SubSeq(z, 0 + 1, 0) = <<>>
    <3>1. 0 + 1 \in Int /\ 0 \in Int /\ 0 < 0 + 1 OBVIOUS
    <3> QED BY <3>1, SubSeqEmpty
  <2> QED BY <2>1, <2>2
<1>6. Rest(z) = <<>>
  <2>1. 0 \in Nat BY <1>1
  <2>2. LastBlank(z, 0) \in 0 .. 0 BY <2>1, LastBlankType
  <2>3. LastBlank(z, 0) = 0 BY <2>2
  <2>4. Rest(z) = Joined(z, 0, 0) BY <1>1, <2>3 DEF Rest, LastBlank
  <2>5. 0 \in 0 .. Len(z) /\ 0 \in 0 .. 0 BY <1>1
  <2> QED BY <1>1, <2>4, <2>5, JoinedNext
<1> QED BY <1>4, <1>5, <1>6 DEF z

-------------------------------------------------------------------------------
(* The cursor loop. *)

Causes == {"chunk", "buffer", "event"}

\* The registers: the event's data within the cap and its exact byte count.
Registers ==
    {s \in [data : Seq(Byte), bytes : Nat, out : Seq(Seq(Byte)), over : SUBSET Causes] :
       s.bytes = Len(s.data) /\ s.bytes <= Cap}

\* What State puts together.
LEMMA StateFacts ==
    ASSUME NEW d \in Seq(Byte), Len(d) <= Cap, NEW o \in Seq(Seq(Byte)), NEW v \in SUBSET Causes
    PROVE  /\ State(d, Len(d), o, v) \in Registers
           /\ State(d, Len(d), o, v).data = d /\ State(d, Len(d), o, v).out = o
           /\ State(d, Len(d), o, v).over = v
BY DEF State, Registers

\* The empty event fits.
LEMMA FreshState ==
    ASSUME NEW n, NEW o \in Seq(Seq(Byte)), NEW v \in SUBSET Causes
    PROVE  /\ State(<<>>, FreshCount(n), o, v) \in Registers
           /\ State(<<>>, FreshCount(n), o, v).data = <<>>
           /\ State(<<>>, FreshCount(n), o, v).out = o
           /\ State(<<>>, FreshCount(n), o, v).over = v
<1>1. <<>> \in Seq(Byte) /\ Len(<<>>) = 0 /\ 0 <= Cap BY FramingAssumption
<1>2. FreshCount(n) = 0 BY DEF FreshCount
<1> DEFINE z == <<>>
<1>3. z \in Seq(Byte) /\ Len(z) = 0 /\ Len(z) <= Cap BY <1>1
<1> HIDE DEF z
<1>4. /\ State(z, 0, o, v) \in Registers
      /\ State(z, 0, o, v).data = z /\ State(z, 0, o, v).out = o /\ State(z, 0, o, v).over = v
  BY <1>3 DEF State, Registers
<1> QED BY <1>2, <1>4 DEF z

\* One line keeps the bound and the count, discards nothing silently, and
\* unless it had to discard changes the event as ByteRead says.
LEMMA LineStep ==
    ASSUME NEW s \in Registers, NEW raw \in Seq(Byte)
    PROVE  LET r == Line(s, raw)
               line == StripCr(raw)
           IN  /\ r \in Registers
               /\ s.over \subseteq r.over
               /\ line = <<>> =>
                    /\ r.data = <<>>
                    /\ r.out = IF s.data = <<>> THEN s.out ELSE Append(s.out, Payload(s.data))
               /\ line # <<>> /\ r.over = {} =>
                    /\ r.out = s.out
                    /\ r.data = IF IsData(line) /\ Utf8(DataOf(line))
                                THEN s.data \o (DataOf(line) \o <<"nl">>)
                                ELSE s.data
<1> DEFINE r == Line(s, raw)
           line == StripCr(raw)
           t == DataOf(line)
<1>1. /\ s.data \in Seq(Byte) /\ s.bytes = Len(s.data) /\ s.bytes <= Cap /\ s.bytes \in Nat
      /\ s.out \in Seq(Seq(Byte)) /\ s.over \in SUBSET Causes
  BY DEF Registers
<1>2. line \in Seq(Byte) BY LineTypes
<1>3. line # <<>> => t \in Seq(Byte) BY <1>2, LineTypes
<1>4. CASE line = <<>>
  <2>1. r = EndEvent(s) BY <1>4 DEF Line
  <2>2. CASE s.data = <<>>
    <3>1. r = s BY <2>1, <2>2 DEF EndEvent
    <3> QED BY <1>4, <2>2, <3>1
  <2>3. CASE s.data # <<>>
    <3> DEFINE y == Payload(s.data)
               o == Append(s.out, y)
    <3>1. y \in Seq(Byte) BY <1>1, <2>3, PayloadType
    <3>2. o \in Seq(Seq(Byte))
      <4> HIDE DEF y
      <4> QED BY <1>1, <3>1
    <3>3. r = State(<<>>, FreshCount(s.bytes), o, s.over) BY <2>1, <2>3 DEF EndEvent
    <3> HIDE DEF o, r
    <3>4. r \in Registers /\ r.data = <<>> /\ r.out = o /\ r.over = s.over
      BY <1>1, <3>2, <3>3, FreshState
    <3> QED BY <1>4, <2>3, <3>4 DEF o, r
  <2> QED BY <2>2, <2>3
<1>5. CASE line # <<>> /\ IsData(line) /\ Utf8(t)
  <2>1. r = AddLine(s, t) BY <1>5 DEF Line
  <2>2. t \in Seq(Byte) BY <1>3, <1>5
  <2> DEFINE nl == <<"nl">>
             d == (s.data \o t) \o nl
             n == s.bytes + Len(t) + 1
  <2>3. nl \in Seq(Byte) /\ Len(nl) = 1 BY FramingAssumption
  <2>4. AddLine(s, t) = IF n > Cap
                        THEN State(<<>>, FreshCount(n), s.out, s.over \cup {"event"})
                        ELSE State(d, n, s.out, s.over)
    BY DEF AddLine
  <2> HIDE DEF nl, t, line, r
  <2>5. d \in Seq(Byte) /\ Len(d) = n
    <3> DEFINE a == s.data
               e == a \o t
    <3>1. a \in Seq(Byte) /\ Len(a) = s.bytes /\ s.bytes \in Nat BY <1>1
    <3> HIDE DEF a
    <3>2. e \in Seq(Byte) /\ Len(e) = Len(a) + Len(t) BY <2>2, <3>1, ConcatProperties
    <3>3. Len(t) \in Nat BY <2>2
    <3> HIDE DEF e
    <3>4. e \o nl \in Seq(Byte) /\ Len(e \o nl) = Len(e) + Len(nl) BY <2>3, <3>2, ConcatProperties
    <3>5. Len(e \o nl) = n BY <2>3, <3>1, <3>2, <3>3, <3>4
    <3> QED BY <3>4, <3>5 DEF a, e
  <2>6. d = s.data \o (t \o nl) BY <1>1, <2>2, <2>3, BytesAssociative
  <2>7. n \in Nat BY <1>1, <2>2
  <2>8. Cap \in Nat BY FramingAssumption
  <2> HIDE DEF d, n
  <2>9. CASE n > Cap
    <3>1. r = State(<<>>, FreshCount(n), s.out, s.over \cup {"event"}) BY <2>1, <2>4, <2>9
    <3>2. s.over \cup {"event"} \in SUBSET Causes BY <1>1 DEF Causes
    <3>3. r \in Registers /\ r.over = s.over \cup {"event"} BY <1>1, <3>1, <3>2, FreshState
    <3> QED BY <1>5, <3>3 DEF r, line
  <2>10. CASE ~(n > Cap)
    <3>1. r = State(d, Len(d), s.out, s.over) /\ Len(d) <= Cap BY <2>1, <2>4, <2>5, <2>7, <2>8, <2>10
    <3>2. r \in Registers /\ r.over = s.over /\ r.out = s.out /\ r.data = d
      BY <1>1, <2>5, <3>1, StateFacts
    <3> QED BY <1>5, <2>6, <3>2 DEF r, line, t, nl
  <2> QED BY <2>9, <2>10
<1>6. CASE line # <<>> /\ ~(IsData(line) /\ Utf8(t))
  <2>1. r = s BY <1>6 DEF Line
  <2> QED BY <1>6, <2>1
<1> QED BY <1>4, <1>5, <1>6

\* What the cursor loop has done after k bytes of b.
IsScan(f, b, s0) ==
    /\ f[0] = [s |-> s0, from |-> 1]
    /\ \A k \in 1 .. Len(b) :
         f[k] = IF b[k] = "nl"
                THEN [s |-> Line(f[k - 1].s, SubSeq(b, f[k - 1].from, k - 1)), from |-> k + 1]
                ELSE f[k - 1]

\* Registers and a cursor.
Scan(b) == [s : Registers, from : 1 .. Len(b) + 1]

\* Lines is that loop.
LEMMA LinesLoop ==
    ASSUME NEW b \in Seq(Byte), NEW s0 \in Registers
    PROVE  \E f \in [0 .. Len(b) -> Scan(b)] : IsScan(f, b, s0) /\ Lines(b, s0) = f[Len(b)]
<1> DEFINE N == Len(b)
           Move(v, k) == IF b[k] = "nl"
                         THEN [s |-> Line(v.s, SubSeq(b, v.from, k - 1)), from |-> k + 1]
                         ELSE v
           step[n \in 1 .. Len(b) + 1] ==
             IF n = 1 THEN [s |-> s0, from |-> 1]
             ELSE LET prev == step[n - 1]
                  IN  IF b[n - 1] = "nl"
                      THEN [s |-> Line(prev.s, SubSeq(b, prev.from, n - 2)), from |-> n]
                      ELSE prev
           Body(g) == [n \in 1 .. Len(b) + 1 |->
             IF n = 1 THEN [s |-> s0, from |-> 1]
             ELSE IF b[n - 1] = "nl"
                  THEN [s |-> Line(g[n - 1].s, SubSeq(b, g[n - 1].from, n - 2)), from |-> n]
                  ELSE g[n - 1]]
           z == [s |-> s0, from |-> 1]
           V == Scan(b)
           mv == [x \in (1 .. N) \X V |-> Move(x[2], x[1])]
<1>1. Lines(b, s0) = step[N + 1] BY DEF Lines
<1>2. step = CHOOSE g : g = Body(g) OBVIOUS
<1>3. N \in Nat OBVIOUS
<1> HIDE DEF step
<1>4. z \in V BY <1>3 DEF Scan
<1>5. ASSUME NEW k \in 1 .. N, NEW v \in V PROVE Move(v, k) \in V
  <2>1. v.s \in Registers /\ v.from \in 1 .. N + 1 BY DEF Scan
  <2>2. v.from \in Nat \ {0} /\ k - 1 \in Nat /\ k - 1 <= Len(b) BY <1>3, <2>1
  <2> DEFINE raw == SubSeq(b, v.from, k - 1)
  <2>3. raw \in Seq(Byte) BY <2>2, PartOf
  <2> HIDE DEF raw
  <2>4. Line(v.s, raw) \in Registers BY <2>1, <2>3, LineStep
  <2>5. k + 1 \in 1 .. Len(b) + 1 BY <1>3
  <2>6. [s |-> Line(v.s, raw), from |-> k + 1] \in V BY <2>4, <2>5 DEF Scan
  <2> QED BY <2>6 DEF raw
<1>6. mv \in [(1 .. N) \X V -> V]
  <2> HIDE DEF Move, V, N
  <2> QED BY <1>5
<1>7. PICK f \in [0 .. N -> V] : IsLoop(f, N, z, mv)
  <2> HIDE DEF N, V, z, mv
  <2> QED BY <1>3, <1>4, <1>6, LoopExists, Zenon
<1>8. ASSUME NEW k \in 1 .. N PROVE f[k] = Move(f[k - 1], k)
  <2>1. f[k - 1] \in V BY <1>3
  <2> HIDE DEF Move, V
  <2>2. <<k, f[k - 1]>> \in (1 .. N) \X V BY <2>1
  <2>3. mv[<<k, f[k - 1]>>] = Move(f[k - 1], k) BY <2>2
  <2> QED BY <1>7, <2>3 DEF IsLoop
<1>9. f[0] = z BY <1>7 DEF IsLoop
<1> DEFINE h == [n \in 1 .. Len(b) + 1 |-> f[n - 1]]
<1>10. h = Body(h)
  <2>1. ASSUME NEW n \in 1 .. N + 1 PROVE h[n] = Body(h)[n]
    <3>1. CASE n = 1
      <4>1. h[n] = f[0] BY <3>1
      <4> QED BY <1>9, <3>1, <4>1
    <3>2. CASE n # 1
      <4>1. n - 1 \in 1 .. N /\ n - 1 \in 1 .. N + 1 /\ (n - 1) - 1 = n - 2 /\ (n - 1) + 1 = n
        BY <1>3, <3>2
      <4>2. h[n] = f[n - 1] /\ h[n - 1] = f[n - 2] BY <4>1
      <4>3. f[n - 1] = Move(f[n - 2], n - 1) BY <1>8, <4>1
      <4> HIDE DEF h
      <4>4. Body(h)[n] = Move(h[n - 1], n - 1) BY <3>2, <4>1
      <4> QED BY <4>2, <4>3, <4>4
    <3> QED BY <3>1, <3>2
  <2> QED BY <2>1
<1>11. step = Body(step)
  <2> HIDE DEF Body, h
  <2> QED BY <1>2, <1>10
<1> DEFINE S == {k \in 0 .. N : step[k + 1] = f[k]}
<1>12. 0 \in S
  <2>1. 1 \in 1 .. Len(b) + 1 /\ 0 + 1 = 1 BY <1>3
  <2>2. step[1] = z BY <1>11, <2>1
  <2> QED BY <1>3, <1>9, <2>1, <2>2
<1>13. ASSUME NEW k \in 1 .. N, k - 1 \in S PROVE k \in S
  <2>1. /\ k \in 0 .. N /\ k + 1 \in 1 .. Len(b) + 1 /\ k + 1 # 1
        /\ (k + 1) - 1 = k /\ (k + 1) - 2 = k - 1 /\ (k - 1) + 1 = k
    BY <1>3
  <2>2. step[k] = f[k - 1] BY <1>13, <2>1
  <2>3. step[k + 1] = Move(step[k], k) BY <1>11, <2>1
  <2>4. step[k + 1] = f[k] BY <1>8, <2>2, <2>3
  <2> QED BY <2>1, <2>4
<1> HIDE DEF S
<1>14. 0 .. N \subseteq S BY <1>3, <1>12, <1>13, InductiveSet
<1>15. step[N + 1] = f[N] BY <1>3, <1>14 DEF S
<1>16. IsScan(f, b, s0) BY <1>8, <1>9 DEF IsScan
<1> QED BY <1>1, <1>15, <1>16

\* The cursor stands behind the last end of a line; what was discarded stays
\* noted.
LEMMA ScanFacts ==
    ASSUME NEW b \in Seq(Byte), NEW s0 \in Registers, NEW f \in [0 .. Len(b) -> Scan(b)],
           IsScan(f, b, s0), NEW k \in 0 .. Len(b)
    PROVE  /\ f[k].s \in Registers
           /\ f[k].from \in 1 .. k + 1
           /\ \A i \in f[k].from .. k : b[i] # "nl"
           /\ s0.over \subseteq f[k].s.over
<1> DEFINE S == {j \in 0 .. Len(b) :
                   /\ f[j].from \in 1 .. j + 1
                   /\ \A i \in f[j].from .. j : b[i] # "nl"
                   /\ s0.over \subseteq f[j].s.over}
<1>1. Len(b) \in Nat OBVIOUS
<1>2. \A j \in 0 .. Len(b) : f[j].s \in Registers /\ f[j].from \in 1 .. Len(b) + 1 BY DEF Scan
<1>3. 0 \in S
  <2>1. f[0].s = s0 /\ f[0].from = 1 BY DEF IsScan
  <2> QED BY <1>1, <2>1
<1>4. ASSUME NEW j \in 1 .. Len(b), j - 1 \in S PROVE j \in S
  <2>1. j - 1 \in 0 .. Len(b) /\ j \in 0 .. Len(b) BY <1>1
  <2>2. /\ f[j - 1].from \in 1 .. (j - 1) + 1
        /\ \A i \in f[j - 1].from .. j - 1 : b[i] # "nl"
        /\ s0.over \subseteq f[j - 1].s.over
    BY <1>4
  <2> DEFINE raw == SubSeq(b, f[j - 1].from, j - 1)
  <2>3. f[j] = IF b[j] = "nl" THEN [s |-> Line(f[j - 1].s, raw), from |-> j + 1] ELSE f[j - 1]
    BY DEF IsScan
  <2>4. CASE b[j] = "nl"
    <3>1. f[j - 1].from \in Nat \ {0} /\ j - 1 \in Nat /\ j - 1 <= Len(b) BY <1>1, <2>2
    <3>2. raw \in Seq(Byte) BY <3>1, PartOf
    <3> HIDE DEF raw
    <3>3. f[j - 1].s.over \subseteq Line(f[j - 1].s, raw).over BY <1>2, <2>1, <3>2, LineStep
    <3>4. f[j].s = Line(f[j - 1].s, raw) /\ f[j].from = j + 1 BY <2>3, <2>4
    <3>5. \A i \in f[j].from .. j : b[i] # "nl" BY <3>4
    <3> QED BY <2>1, <2>2, <3>3, <3>4, <3>5
  <2>5. CASE b[j] # "nl"
    <3>1. f[j] = f[j - 1] BY <2>3, <2>5
    <3>2. f[j].from \in 1 .. j + 1 BY <2>2, <3>1
    <3>3. ASSUME NEW i \in f[j].from .. j PROVE b[i] # "nl"
      <4>1. i \in f[j - 1].from .. j - 1 \/ i = j BY <3>1, <3>2
      <4> QED BY <2>2, <2>5, <4>1
    <3> QED BY <2>1, <2>2, <3>1, <3>2, <3>3
  <2> QED BY <2>4, <2>5
<1> HIDE DEF S
<1>5. 0 .. Len(b) \subseteq S BY <1>1, <1>3, <1>4, InductiveSet
<1> QED BY <1>2, <1>5 DEF S

\* No line ends in the first n bytes.
NoEnd(b, n) == \A i \in 1 .. n : b[i] # "nl"

\* Up to its first end of a line the loop only looks.
LEMMA ScanQuiet ==
    ASSUME NEW b \in Seq(Byte), NEW s0 \in Registers, NEW f \in [0 .. Len(b) -> Scan(b)],
           IsScan(f, b, s0), NEW n \in 0 .. Len(b), NoEnd(b, n)
    PROVE  f[n].s = s0 /\ f[n].from = 1
<1> DEFINE S == {j \in 0 .. n : f[j] = f[0]}
<1>1. 0 \in S OBVIOUS
<1>2. ASSUME NEW j \in 1 .. n, j - 1 \in S PROVE j \in S
  <2>1. j \in 1 .. Len(b) /\ b[j] # "nl" /\ j \in 0 .. n BY DEF NoEnd
  <2>2. f[j] = f[j - 1] BY <2>1 DEF IsScan
  <2> QED BY <1>2, <2>1, <2>2
<1> HIDE DEF S
<1>3. n \in Nat OBVIOUS
<1>4. 0 .. n \subseteq S BY <1>1, <1>2, <1>3, InductiveSet
<1>5. f[n] = f[0] BY <1>3, <1>4 DEF S
<1>6. f[0] = [s |-> s0, from |-> 1] BY DEF IsScan
<1> QED BY <1>5, <1>6

\* One more byte in the buffer: what the loop does to the registers and the
\* cursor is what the byte does to the events, the data and the open line.
LEMMA ScanByte ==
    ASSUME NEW b \in Seq(Byte), NEW s0 \in Registers, NEW f \in [0 .. Len(b) -> Scan(b)],
           IsScan(f, b, s0), NEW k \in 1 .. Len(b), NEW p \in Seq(Byte),
           NEW before \in Seq(Seq(Byte)),
           f[k].s.over = {},
           Events(p) = before \o f[k - 1].s.out,
           Rest(p) = f[k - 1].s.data,
           Open(p) = SubSeq(b, f[k - 1].from, k - 1)
    PROVE  /\ Events(Append(p, b[k])) = before \o f[k].s.out
           /\ Rest(Append(p, b[k])) = f[k].s.data
           /\ Open(Append(p, b[k])) = SubSeq(b, f[k].from, k)
<1> DEFINE x == b[k]
           q == Append(p, x)
           s == f[k - 1].s
           c == f[k - 1].from
           raw == SubSeq(b, c, k - 1)
           line == StripCr(Open(p))
<1>1. Len(b) \in Nat /\ k - 1 \in 0 .. Len(b) /\ x \in Byte OBVIOUS
<1>2. s \in Registers /\ c \in 1 .. (k - 1) + 1 BY <1>1, ScanFacts
<1>3. f[k] = IF x = "nl" THEN [s |-> Line(s, raw), from |-> k + 1] ELSE f[k - 1]
  BY DEF IsScan
<1>4. Open(q) = IF x = "nl" THEN <<>> ELSE Append(Open(p), x) BY <1>1, OpenAppend
<1>5. raw \in Seq(Byte)
  <2>1. c \in Nat \ {0} /\ k - 1 \in Nat /\ k - 1 <= Len(b) BY <1>1, <1>2
  <2> HIDE DEF c
  <2> QED BY <2>1, PartOf
<1>6. s.out \in Seq(Seq(Byte)) /\ s.data \in Seq(Byte) BY <1>2 DEF Registers
<1>7. Open(p) = raw /\ Events(p) = before \o s.out /\ Rest(p) = s.data OBVIOUS
<1>8. /\ x # "nl" => Events(q) = Events(p) /\ Rest(q) = Rest(p)
      /\ x = "nl" /\ line = <<>> =>
           /\ Rest(q) = <<>>
           /\ Events(q) = IF Rest(p) = <<>> THEN Events(p)
                          ELSE Append(Events(p), Payload(Rest(p)))
      /\ x = "nl" /\ line # <<>> =>
           /\ Events(q) = Events(p)
           /\ Rest(q) = IF IsData(line) /\ Utf8(DataOf(line))
                        THEN Rest(p) \o (DataOf(line) \o <<"nl">>)
                        ELSE Rest(p)
  BY <1>1, ByteRead
<1>9. CASE x # "nl"
  <2>1. f[k] = f[k - 1] BY <1>3, <1>9
  <2>2. c \in 1 .. Len(b) /\ k \in c .. Len(b) BY <1>1, <1>2
  <2> HIDE DEF c
  <2>3. SubSeq(b, c, k) = SubSeq(b, c, k - 1) \o <<x>> BY <2>2, SubSeqRecursiveSecond
  <2>4. Append(raw, x) = raw \o <<x>> BY <1>1, <1>5, AppendIsConcat
  <2>5. Open(q) = SubSeq(b, c, k) BY <1>4, <1>7, <1>9, <2>3, <2>4
  <2> QED BY <1>7, <1>8, <1>9, <2>1, <2>5 DEF c
<1>10. CASE x = "nl"
  <2>1. f[k].s = Line(s, raw) /\ f[k].from = k + 1 BY <1>3, <1>10
  <2>2. SubSeq(b, k + 1, k) = <<>>
    <3>1. k + 1 \in Int /\ k \in Int /\ k < k + 1 OBVIOUS
    <3> QED BY <3>1, SubSeqEmpty
  <2>3. Open(q) = SubSeq(b, f[k].from, k) BY <1>4, <1>10, <2>1, <2>2
  <2>4. line = StripCr(raw) BY <1>7
  <2> DEFINE r == f[k].s
  <2> HIDE DEF s, raw, q, x, line
  <2>5. /\ line = <<>> =>
             /\ r.data = <<>>
             /\ r.out = IF s.data = <<>> THEN s.out ELSE Append(s.out, Payload(s.data))
        /\ line # <<>> /\ r.over = {} =>
             /\ r.out = s.out
             /\ r.data = IF IsData(line) /\ Utf8(DataOf(line))
                         THEN s.data \o (DataOf(line) \o <<"nl">>)
                         ELSE s.data
    <3> DEFINE w == Line(s, raw)
               l == StripCr(raw)
    <3>1. /\ l = <<>> =>
               /\ w.data = <<>>
               /\ w.out = IF s.data = <<>> THEN s.out ELSE Append(s.out, Payload(s.data))
          /\ l # <<>> /\ w.over = {} =>
               /\ w.out = s.out
               /\ w.data = IF IsData(l) /\ Utf8(DataOf(l))
                           THEN s.data \o (DataOf(l) \o <<"nl">>)
                           ELSE s.data
      BY <1>2, <1>5, LineStep, Zenon
    <3>2. r = w /\ line = l BY <2>1, <2>4
    <3> HIDE DEF w, l, r
    <3> QED BY <3>1, <3>2, Zenon
  <2>6. r.over = {} OBVIOUS
  <2> HIDE DEF r
  <2>7. CASE line # <<>> BY <1>7, <1>8, <1>10, <2>3, <2>5, <2>6, <2>7 DEF r, q, x
  <2>8. CASE line = <<>>
    <3>1. Rest(q) = <<>> /\ r.data = <<>> BY <1>8, <1>10, <2>5, <2>8
    <3>2. CASE s.data = <<>>
      <4>1. Events(q) = Events(p) /\ r.out = s.out BY <1>7, <1>8, <1>10, <2>5, <2>8, <3>2
      <4> QED BY <1>7, <2>3, <3>1, <4>1 DEF r, q, x
    <3>3. CASE s.data # <<>>
      <4> DEFINE y == Payload(s.data)
                 o == s.out
      <4>1. Events(q) = Append(before \o o, y) /\ r.out = Append(o, y)
        BY <1>7, <1>8, <1>10, <2>5, <2>8, <3>3
      <4>2. y \in Seq(Byte) BY <1>6, <3>3, PayloadType
      <4>3. o \in Seq(Seq(Byte)) BY <1>6
      <4> HIDE DEF y, o
      <4>4. Append(before \o o, y) = before \o Append(o, y)
        BY <4>2, <4>3, AppendLast, Zenon
      <4>5. Events(q) = before \o r.out BY <4>1, <4>4
      <4> QED BY <2>3, <3>1, <4>5 DEF r, q, x
    <3> QED BY <3>2, <3>3
  <2> QED BY <2>7, <2>8
<1> QED BY <1>9, <1>10

\* A discard stays noted from byte to byte.
LEMMA ScanKeeps ==
    ASSUME NEW b \in Seq(Byte), NEW s0 \in Registers, NEW f \in [0 .. Len(b) -> Scan(b)],
           IsScan(f, b, s0), NEW k \in 1 .. Len(b)
    PROVE  f[k - 1].s.over \subseteq f[k].s.over
<1> DEFINE s == f[k - 1].s
           c == f[k - 1].from
           raw == SubSeq(b, c, k - 1)
<1>1. Len(b) \in Nat /\ k - 1 \in 0 .. Len(b) OBVIOUS
<1>2. s \in Registers /\ c \in 1 .. (k - 1) + 1 BY <1>1, ScanFacts
<1>3. f[k] = IF b[k] = "nl" THEN [s |-> Line(s, raw), from |-> k + 1] ELSE f[k - 1]
  BY DEF IsScan
<1>4. raw \in Seq(Byte)
  <2>1. c \in Nat \ {0} /\ k - 1 \in Nat /\ k - 1 <= Len(b) BY <1>1, <1>2
  <2> HIDE DEF c
  <2> QED BY <2>1, PartOf
<1> HIDE DEF raw, s
<1>5. s.over \subseteq Line(s, raw).over BY <1>2, <1>4, LineStep
<1> QED BY <1>3, <1>5 DEF s

\* The bytes r followed by the first i of the chunk c.
Grown(r, c, i) == r \o SubSeq(c, 1, i)

\* It grows byte by byte.
LEMMA GrownFacts ==
    ASSUME NEW r \in Seq(Byte), NEW c \in Seq(Byte)
    PROVE  /\ \A i \in 0 .. Len(c) : Grown(r, c, i) \in Seq(Byte)
           /\ Grown(r, c, 0) = r /\ Grown(r, c, Len(c)) = r \o c
           /\ \A i \in 1 .. Len(c) : Grown(r, c, i) = Append(Grown(r, c, i - 1), c[i])
<1> DEFINE R(i) == r \o SubSeq(c, 1, i)
<1>2. Len(c) \in Nat OBVIOUS
<1>7. \A i \in 0 .. Len(c) : R(i) \in Seq(Byte)
  <2> TAKE i \in 0 .. Len(c)
  <2>1. 1 \in Nat \ {0} /\ i \in Nat /\ i <= Len(c) BY <1>2
  <2>2. SubSeq(c, 1, i) \in Seq(Byte) BY <2>1, PartOf
  <2> QED BY <2>2, ConcatProperties
<1>8. R(0) = r /\ R(Len(c)) = r \o c
  <2>1. SubSeq(c, 1, 0) = <<>>
    <3>1. 1 \in Int /\ 0 \in Int /\ 0 < 1 OBVIOUS
    <3> QED BY <3>1, SubSeqEmpty
  <2>2. SubSeq(c, 1, Len(c)) = c BY SubSeqFull
  <2>3. r \o <<>> = r OBVIOUS
  <2> QED BY <2>1, <2>2, <2>3
<1>9. ASSUME NEW i \in 1 .. Len(c) PROVE R(i) = Append(R(i - 1), c[i])
  <2>1. 1 \in 1 .. Len(c) /\ i \in 1 .. Len(c) /\ i - 1 \in 0 .. Len(c) /\ i - 1 \in Nat
        /\ i - 1 <= Len(c) /\ 1 \in Nat \ {0}
    BY <1>2
  <2>2. SubSeq(c, 1, i) = SubSeq(c, 1, i - 1) \o <<c[i]>> BY <2>1, SubSeqRecursiveSecond
  <2> DEFINE u == SubSeq(c, 1, i - 1)
             v == <<c[i]>>
  <2>3. u \in Seq(Byte) BY <2>1, PartOf
  <2>4. v \in Seq(Byte) /\ c[i] \in Byte OBVIOUS
  <2>5. R(i) = r \o (u \o v) BY <2>2
  <2>6. R(i - 1) = r \o u /\ R(i - 1) \in Seq(Byte) BY <1>7, <2>1
  <2>7. Append(R(i - 1), c[i]) = R(i - 1) \o v BY <2>4, <2>6, AppendIsConcat
  <2> HIDE DEF u, v, R
  <2>8. (r \o u) \o v = r \o (u \o v) BY <2>3, <2>4, BytesAssociative
  <2> QED BY <2>5, <2>6, <2>7, <2>8
<1> QED BY <1>7, <1>8, <1>9 DEF Grown

\* What the loop knows after k bytes of b is what the bytes p ask for, if the
\* payloads before were those of before.
Agrees(f, b, k, p, before) ==
    f[k].s.over = {} =>
      /\ Events(p) = before \o f[k].s.out
      /\ Rest(p) = f[k].s.data
      /\ Open(p) = SubSeq(b, f[k].from, k)

\* The loop keeps up with the bytes.
LEMMA ScanAgrees ==
    ASSUME NEW b \in Seq(Byte), NEW s0 \in Registers, NEW f \in [0 .. Len(b) -> Scan(b)],
           IsScan(f, b, s0), NEW k \in 1 .. Len(b), NEW p \in Seq(Byte),
           NEW before \in Seq(Seq(Byte)), Agrees(f, b, k - 1, p, before)
    PROVE  Agrees(f, b, k, Append(p, b[k]), before)
<1> SUFFICES ASSUME f[k].s.over = {}
             PROVE  /\ Events(Append(p, b[k])) = before \o f[k].s.out
                    /\ Rest(Append(p, b[k])) = f[k].s.data
                    /\ Open(Append(p, b[k])) = SubSeq(b, f[k].from, k)
  BY DEF Agrees
<1>1. f[k - 1].s.over \subseteq f[k].s.over BY ScanKeeps
<1>2. f[k - 1].s.over = {} BY <1>1
<1>3. /\ Events(p) = before \o f[k - 1].s.out
      /\ Rest(p) = f[k - 1].s.data
      /\ Open(p) = SubSeq(b, f[k - 1].from, k - 1)
  BY <1>2 DEF Agrees
<1> QED BY <1>3, ScanByte

\* It starts with the open line in the buffer.
LEMMA ScanStart ==
    ASSUME NEW b \in Seq(Byte), NEW s0 \in Registers, NEW f \in [0 .. Len(b) -> Scan(b)],
           IsScan(f, b, s0), NEW n \in 0 .. Len(b), NoEnd(b, n), NEW r,
           Events(r) \in Seq(Seq(Byte)), s0.data = Rest(r), s0.out = <<>>,
           SubSeq(b, 1, n) = Open(r)
    PROVE  Agrees(f, b, n, r, Events(r))
<1>1. f[n].s = s0 /\ f[n].from = 1 BY ScanQuiet
<1>2. Events(r) \o <<>> = Events(r) OBVIOUS
<1>3. Events(r) \o f[n].s.out = Events(r) BY <1>1, <1>2
<1>4. Rest(r) = f[n].s.data BY <1>1
<1>5. Open(r) = SubSeq(b, f[n].from, n) BY <1>1
<1> QED BY <1>3, <1>4, <1>5 DEF Agrees

\* b is m bytes followed by the chunk c.
Follows(b, m, c) == Len(b) = m + Len(c) /\ \A i \in 1 .. Len(c) : b[m + i] = c[i]

\* Over a whole chunk, behind a buffer of m bytes.
LEMMA ScanChunk ==
    ASSUME NEW b \in Seq(Byte), NEW s0 \in Registers, NEW f \in [0 .. Len(b) -> Scan(b)],
           IsScan(f, b, s0), NEW r \in Seq(Byte), NEW c \in Seq(Byte),
           NEW before \in Seq(Seq(Byte)), NEW m \in Nat, Len(b) = m + Len(c),
           \A i \in 1 .. Len(c) : b[m + i] = c[i], Agrees(f, b, m, r, before)
    PROVE  Agrees(f, b, Len(b), r \o c, before)
<1> DEFINE S == {i \in 0 .. Len(c) : Agrees(f, b, m + i, Grown(r, c, i), before)}
<1>1. Len(c) \in Nat OBVIOUS
<1>2. 0 \in S
  <2>1. m + 0 = m /\ Grown(r, c, 0) = r BY GrownFacts
  <2> QED BY <1>1, <2>1
<1>3. ASSUME NEW i \in 1 .. Len(c), i - 1 \in S PROVE i \in S
  <2>1. /\ m + i \in 1 .. Len(b) /\ (m + i) - 1 = m + (i - 1)
        /\ i - 1 \in 0 .. Len(c) /\ i \in 0 .. Len(c)
    BY <1>1
  <2>2. Agrees(f, b, (m + i) - 1, Grown(r, c, i - 1), before) BY <1>3, <2>1
  <2>3. Grown(r, c, i - 1) \in Seq(Byte) BY <2>1, GrownFacts
  <2> DEFINE k == m + i
             p == Grown(r, c, i - 1)
  <2>4. k \in 1 .. Len(b) /\ p \in Seq(Byte) /\ Agrees(f, b, k - 1, p, before) BY <2>1, <2>2, <2>3
  <2> HIDE DEF k, p
  <2>5. Agrees(f, b, k, Append(p, b[k]), before) BY <2>4, ScanAgrees
  <2>6. Grown(r, c, i) = Append(p, b[k])
    <3>1. b[k] = c[i] BY DEF k
    <3>2. \A j \in 1 .. Len(c) : Grown(r, c, j) = Append(Grown(r, c, j - 1), c[j]) BY GrownFacts
    <3>3. Grown(r, c, i) = Append(p, c[i]) BY <3>2, Zenon DEF p
    <3> QED BY <3>1, <3>3, Zenon
  <2> QED BY <2>1, <2>5, <2>6 DEF k
<1> HIDE DEF S
<1>4. 0 .. Len(c) \subseteq S BY <1>1, <1>2, <1>3, InductiveSet
<1>5. Len(c) \in S BY <1>1, <1>4
<1>6. Grown(r, c, Len(c)) = r \o c BY GrownFacts
<1> QED BY <1>5, <1>6 DEF S

\* Where the loop ends: registers and cursor are as they should be, and no end
\* of a line is left behind the cursor.
LEMMA LinesEnd ==
    ASSUME NEW b \in Seq(Byte), NEW s0 \in Registers
    PROVE  LET e == Lines(b, s0)
           IN  /\ e.s \in Registers
               /\ e.from \in 1 .. Len(b) + 1
               /\ \A i \in e.from .. Len(b) : b[i] # "nl"
               /\ s0.over \subseteq e.s.over
<1>1. PICK f \in [0 .. Len(b) -> Scan(b)] : IsScan(f, b, s0) /\ Lines(b, s0) = f[Len(b)]
  BY LinesLoop
<1>2. Len(b) \in 0 .. Len(b) OBVIOUS
<1>3. /\ f[Len(b)].s \in Registers
      /\ f[Len(b)].from \in 1 .. Len(b) + 1
      /\ \A i \in f[Len(b)].from .. Len(b) : b[i] # "nl"
      /\ s0.over \subseteq f[Len(b)].s.over
  BY <1>1, <1>2, ScanFacts
<1> QED BY <1>1, <1>3

\* A chunk c after the bytes r, the open line in the first m bytes of the
\* buffer b: unless something is discarded, the loop leaves in the registers and in
\* the buffer what the bytes with the chunk ask for.
LEMMA LinesRead ==
    ASSUME NEW b \in Seq(Byte), NEW s0 \in Registers, NEW r \in Seq(Byte), NEW c \in Seq(Byte),
           NEW m \in Nat, Follows(b, m, c), NoEnd(b, m), SubSeq(b, 1, m) = Open(r),
           s0.data = Rest(r), s0.out = <<>>, Lines(b, s0).s.over = {}
    PROVE  LET e == Lines(b, s0)
           IN  /\ Events(r \o c) = Events(r) \o e.s.out
               /\ Rest(r \o c) = e.s.data
               /\ Open(r \o c) = SubSeq(b, e.from, Len(b))
<1>1. PICK f \in [0 .. Len(b) -> Scan(b)] : IsScan(f, b, s0) /\ Lines(b, s0) = f[Len(b)]
  BY LinesLoop
<1>2. Events(r) \in Seq(Seq(Byte))
  <2>1. "nl" \in Byte BY FramingAssumption
  <2> QED BY <2>1, EventsAppend
<1>3. m \in 0 .. Len(b)
  <2>1. Len(c) \in Nat /\ Len(b) = m + Len(c) BY DEF Follows
  <2> QED BY <2>1
<1>4. Agrees(f, b, m, r, Events(r)) BY <1>1, <1>2, <1>3, ScanStart
<1>5. Agrees(f, b, Len(b), r \o c, Events(r))
  <2> DEFINE before == Events(r)
  <2>1. before \in Seq(Seq(Byte)) /\ Agrees(f, b, m, r, before) BY <1>2, <1>4
  <2> HIDE DEF before
  <2>2. Len(b) = m + Len(c) /\ \A i \in 1 .. Len(c) : b[m + i] = c[i] BY DEF Follows
  <2>3. Agrees(f, b, Len(b), r \o c, before) BY <1>1, <2>1, <2>2, ScanChunk
  <2> QED BY <2>3 DEF before
<1>6. f[Len(b)].s.over = {} BY <1>1
<1> QED BY <1>1, <1>5, <1>6 DEF Agrees

-------------------------------------------------------------------------------
(* The invariant. *)

\* Until something is discarded or the stream ends, the parser remembers of the
\* bytes read exactly the data of the event under construction and the open
\* line.
Remembers == overflow = {} /\ ~ended => data = Rest(read) /\ buffer = Open(read)

\* The inductive invariant.
FramingInv == TypeOK /\ ChunkingIrrelevant /\ Remembers

\* A buffer followed by a chunk.
LEMMA JoinFacts ==
    ASSUME NEW o \in Seq(Byte), NEW c \in Seq(Byte)
    PROVE  /\ o \o c \in Seq(Byte) /\ Len(o \o c) = Len(o) + Len(c)
           /\ \A i \in 1 .. Len(o) : (o \o c)[i] = o[i]
           /\ \A i \in 1 .. Len(c) : (o \o c)[Len(o) + i] = c[i]
           /\ SubSeq(o \o c, 1, Len(o)) = o
<1> DEFINE b == o \o c
           m == Len(o)
           w == SubSeq(b, 1, m)
<1>1. /\ b \in Seq(Byte) /\ Len(b) = m + Len(c)
      /\ \A i \in 1 .. m + Len(c) : b[i] = IF i <= m THEN o[i] ELSE c[i - m]
  BY ConcatProperties
<1>2. m \in Nat /\ Len(c) \in Nat OBVIOUS
<1> HIDE DEF b, m
<1>3. ASSUME NEW i \in 1 .. m PROVE b[i] = o[i] BY <1>1, <1>2
<1>4. ASSUME NEW i \in 1 .. Len(c) PROVE b[m + i] = c[i]
  <2>1. m + i \in 1 .. m + Len(c) /\ ~(m + i <= m) /\ (m + i) - m = i BY <1>2
  <2> QED BY <1>1, <2>1
<1>5. w = o
  <2>1. 1 \in Nat \ {0} /\ m <= Len(b) BY <1>1, <1>2
  <2>2. /\ w \in Seq(Byte) /\ Len(w) = (IF 1 <= m THEN m - 1 + 1 ELSE 0)
        /\ \A i \in 1 .. m - 1 + 1 : w[i] = b[1 + i - 1]
    BY <1>1, <1>2, <2>1, PartOf
  <2> HIDE DEF w
  <2>3. Len(w) = m BY <1>2, <2>2
  <2>4. ASSUME NEW i \in 1 .. m PROVE w[i] = o[i]
    <3>1. i \in 1 .. m - 1 + 1 /\ 1 + i - 1 = i BY <1>2
    <3> QED BY <1>3, <2>2, <3>1
  <2>5. Len(w) = Len(o) /\ \A i \in 1 .. Len(w) : w[i] = o[i] BY <2>3, <2>4 DEF m
  <2> QED BY <2>2, <2>5, SameSeq
<1> QED BY <1>1, <1>3, <1>4, <1>5 DEF b, m, w

\* The first state.
LEMMA InitInv == Init => FramingInv
<1> SUFFICES ASSUME Init PROVE FramingInv
  OBVIOUS
<1>0. /\ buffer = <<>> /\ data = <<>> /\ bytes = 0 /\ payloads = <<>> /\ read = <<>>
      /\ overflow = {} /\ ended = FALSE
  BY DEF Init
<1>1. TypeOK
  <2>1. buffer \in Seq(Byte) /\ Len(buffer) = 0 /\ data \in Seq(Byte) /\ Len(data) = 0 BY <1>0
  <2>2. read \in Seq(Byte) /\ Len(read) = 0 /\ payloads \in Seq(Seq(Byte)) BY <1>0
  <2>3. Cap \in Nat /\ MaxRead \in Nat BY FramingAssumption
  <2>5. \A n \in 1 .. Len(buffer) : buffer[n] # "nl" BY <2>1
  <2>4. Len(buffer) <= Cap /\ Len(data) <= Cap /\ bytes = Len(data) /\ Len(read) <= MaxRead
    BY <1>0, <2>1, <2>2, <2>3
  <2>6. overflow \subseteq {"chunk", "buffer", "event"} /\ ended \in BOOLEAN BY <1>0
  <2> QED BY <2>1, <2>2, <2>4, <2>5, <2>6, Zenon DEF TypeOK
<1>2. Remembers BY <1>0, NothingRead DEF Remembers
<1>3. ChunkingIrrelevant BY <1>0, NothingRead DEF ChunkingIrrelevant
<1> QED BY <1>1, <1>2, <1>3 DEF FramingInv

\* Registers at the start of a chunk.
Start(chunk) ==
    IF Len(buffer) + Len(chunk) > Cap
    THEN State(<<>>, FreshCount(bytes), <<>>, overflow \cup {"buffer"})
    ELSE State(data, bytes, <<>>, overflow)

\* The buffer the loop works on.
Work(chunk) == (IF Len(buffer) + Len(chunk) > Cap THEN <<>> ELSE buffer) \o chunk

\* They are within the cap; the buffer is emptied exactly if a discard is noted.
LEMMA StartFacts ==
    ASSUME TypeOK, NEW chunk \in Seq(Byte), Len(chunk) <= Cap
    PROVE  /\ Start(chunk) \in Registers
           /\ Work(chunk) \in Seq(Byte) /\ Len(Work(chunk)) <= Cap
           /\ Start(chunk).over = {} =>
                /\ overflow = {} /\ Work(chunk) = buffer \o chunk
                /\ Start(chunk).data = data /\ Start(chunk).out = <<>>
<1>1. /\ buffer \in Seq(Byte) /\ data \in Seq(Byte) /\ Len(data) <= Cap /\ bytes = Len(data)
      /\ overflow \in SUBSET Causes /\ Cap \in Nat
  BY FramingAssumption DEF TypeOK, Causes
<1>2. <<>> \in Seq(Seq(Byte)) OBVIOUS
<1>3. CASE Len(buffer) + Len(chunk) > Cap
  <2> DEFINE v == overflow \cup {"buffer"}
  <2>1. v \in SUBSET Causes /\ v # {} BY <1>1 DEF Causes
  <2> HIDE DEF v
  <2>2. State(<<>>, FreshCount(bytes), <<>>, v) \in Registers
        /\ State(<<>>, FreshCount(bytes), <<>>, v).over = v
    <3> DEFINE z == <<>>
    <3>1. z \in Seq(Seq(Byte)) BY <1>2
    <3> HIDE DEF z
    <3>2. State(<<>>, FreshCount(bytes), z, v) \in Registers
          /\ State(<<>>, FreshCount(bytes), z, v).over = v
      BY <2>1, <3>1, FreshState
    <3> QED BY <3>2 DEF z
  <2>3. Start(chunk) = State(<<>>, FreshCount(bytes), <<>>, v) BY <1>3 DEF Start, v
  <2>4. Work(chunk) = <<>> \o chunk BY <1>3 DEF Work
  <2>5. <<>> \o chunk = chunk OBVIOUS
  <2> QED BY <2>1, <2>2, <2>3, <2>4, <2>5
<1>4. CASE ~(Len(buffer) + Len(chunk) > Cap)
  <2>1. Start(chunk) = State(data, Len(data), <<>>, overflow) BY <1>1, <1>4 DEF Start
  <2>2. Work(chunk) = buffer \o chunk BY <1>4 DEF Work
  <2>3. Work(chunk) \in Seq(Byte) /\ Len(Work(chunk)) = Len(buffer) + Len(chunk)
    BY <1>1, <2>2, JoinFacts
  <2>4. Len(Work(chunk)) <= Cap
    <3>1. Len(buffer) \in Nat /\ Len(chunk) \in Nat BY <1>1
    <3> QED BY <1>1, <1>4, <2>3, <3>1
  <2> DEFINE z == <<>>
  <2>5. z \in Seq(Seq(Byte)) BY <1>2
  <2> HIDE DEF z
  <2>6. /\ State(data, Len(data), z, overflow) \in Registers
        /\ State(data, Len(data), z, overflow).data = data
        /\ State(data, Len(data), z, overflow).out = z
        /\ State(data, Len(data), z, overflow).over = overflow
    BY <1>1, <2>5, StateFacts
  <2> QED BY <2>1, <2>2, <2>3, <2>4, <2>6 DEF z
<1> QED BY <1>3, <1>4

\* LinesRead for a buffer that holds the open line.
LEMMA ChunkRead ==
    ASSUME NEW r \in Seq(Byte), NEW c \in Seq(Byte), NEW s0 \in Registers,
           Open(r) \in Seq(Byte), NoEnd(Open(r), Len(Open(r))),
           s0.data = Rest(r), s0.out = <<>>, Lines(Open(r) \o c, s0).s.over = {}
    PROVE  /\ Events(r \o c) = Events(r) \o Lines(Open(r) \o c, s0).s.out
           /\ Rest(r \o c) = Lines(Open(r) \o c, s0).s.data
           /\ Open(r \o c) = SubSeq(Open(r) \o c, Lines(Open(r) \o c, s0).from, Len(Open(r) \o c))
<1> DEFINE o == Open(r)
           b == o \o c
           m == Len(o)
<1>0. o \in Seq(Byte) OBVIOUS
<1>1. b \in Seq(Byte) /\ m \in Nat BY <1>0, JoinFacts
<1>2. Follows(b, m, c) BY JoinFacts DEF Follows
<1>3. NoEnd(b, m) BY JoinFacts DEF NoEnd
<1>4. SubSeq(b, 1, m) = Open(r) BY JoinFacts
<1>5. Lines(b, s0).s.over = {} OBVIOUS
<1> HIDE DEF b, m, o
<1>6. LET e == Lines(b, s0)
      IN  /\ Events(r \o c) = Events(r) \o e.s.out
          /\ Rest(r \o c) = e.s.data
          /\ Open(r \o c) = SubSeq(b, e.from, Len(b))
  BY <1>1, <1>2, <1>3, <1>4, <1>5, LinesRead, Zenon
<1> QED BY <1>6 DEF b, o

\* What one chunk within the cap does.
LEMMA ParsedFacts ==
    ASSUME NEW chunk \in Seq(Byte), Parsed(chunk)
    PROVE  LET b == Work(chunk)
               e == Lines(b, Start(chunk))
           IN  /\ Len(chunk) <= Cap
               /\ buffer' = SubSeq(b, e.from, Len(b))
               /\ data' = e.s.data /\ bytes' = e.s.bytes
               /\ payloads' = payloads \o e.s.out
               /\ overflow' = e.s.over
BY DEF Parsed, Work, Start

\* A chunk within the cap keeps the invariant.
LEMMA ParsedInv ==
    ASSUME FramingInv, ~ended, NEW chunk \in Seq(Byte), Len(read) + Len(chunk) <= MaxRead,
           read' = read \o chunk, Parsed(chunk), ended' = ended
    PROVE  FramingInv'
<1>0. SUFFICES ASSUME NEW b, b = Work(chunk), NEW s0, s0 = Start(chunk), NEW e, e = Lines(b, s0)
             PROVE  FramingInv'
  OBVIOUS
<1>1. TypeOK /\ ChunkingIrrelevant /\ Remembers BY DEF FramingInv
<1>2. /\ Len(chunk) <= Cap
      /\ buffer' = SubSeq(b, e.from, Len(b))
      /\ data' = e.s.data /\ bytes' = e.s.bytes
      /\ payloads' = payloads \o e.s.out
      /\ overflow' = e.s.over
  BY <1>0, ParsedFacts
<1>3. /\ s0 \in Registers /\ b \in Seq(Byte) /\ Len(b) <= Cap
      /\ s0.over = {} => /\ overflow = {} /\ b = buffer \o chunk
                         /\ s0.data = data /\ s0.out = <<>>
  BY <1>0, <1>1, <1>2, StartFacts
<1>4. /\ e.s \in Registers /\ e.from \in 1 .. Len(b) + 1
      /\ \A i \in e.from .. Len(b) : b[i] # "nl"
      /\ s0.over \subseteq e.s.over
  BY <1>0, <1>3, LinesEnd
<1>5. TypeOK'
  <2>1. Cap \in Nat BY FramingAssumption
  <2>2. /\ e.s.data \in Seq(Byte) /\ e.s.bytes = Len(e.s.data) /\ e.s.bytes <= Cap
        /\ e.s.out \in Seq(Seq(Byte)) /\ e.s.over \subseteq Causes
    BY <1>4 DEF Registers
  <2>3. /\ buffer' \in Seq(Byte) /\ Len(buffer') <= Cap
        /\ \A n \in 1 .. Len(buffer') : buffer'[n] # "nl"
    <3> DEFINE w == SubSeq(b, e.from, Len(b))
    <3>1. e.from \in Nat \ {0} /\ Len(b) \in Nat /\ Len(b) <= Len(b) BY <1>3, <1>4
    <3>2. /\ w \in Seq(Byte) /\ Len(w) = (IF e.from <= Len(b) THEN Len(b) - e.from + 1 ELSE 0)
          /\ \A i \in 1 .. Len(b) - e.from + 1 : w[i] = b[e.from + i - 1]
      BY <1>3, <3>1, PartOf
    <3> HIDE DEF w
    <3>3. Len(w) <= Cap BY <1>3, <2>1, <3>1, <3>2
    <3>4. ASSUME NEW n \in 1 .. Len(w) PROVE w[n] # "nl"
      <4>1. n \in 1 .. Len(b) - e.from + 1 /\ e.from + n - 1 \in e.from .. Len(b)
        BY <3>1, <3>2
      <4> QED BY <1>4, <3>2, <4>1
    <3> QED BY <1>2, <3>2, <3>3, <3>4 DEF w
  <2>4. payloads' \in Seq(Seq(Byte))
    <3> DEFINE V == Seq(Byte)
               x == e.s.out
    <3>1. payloads \in Seq(V) /\ x \in Seq(V) BY <1>1, <2>2 DEF TypeOK
    <3> HIDE DEF V, x
    <3>2. payloads \o x \in Seq(V) BY <3>1, ConcatProperties
    <3> QED BY <1>2, <3>2 DEF V, x
  <2>5. read' \in Seq(Byte) /\ Len(read') <= MaxRead
    <3>1. read \in Seq(Byte) BY <1>1 DEF TypeOK
    <3>2. read \o chunk \in Seq(Byte) /\ Len(read \o chunk) = Len(read) + Len(chunk)
      BY <3>1, ConcatProperties
    <3> QED BY <3>2
  <2>6. ended' \in BOOLEAN BY <1>1 DEF TypeOK
  <2>7. data' \in Seq(Byte) /\ Len(data') <= Cap /\ bytes' = Len(data') BY <1>2, <2>2
  <2>8. overflow' \subseteq {"chunk", "buffer", "event"} BY <1>2, <2>2 DEF Causes
  <2> QED BY <2>3, <2>4, <2>5, <2>6, <2>7, <2>8, Zenon DEF TypeOK
<1>6. ASSUME overflow' = {}
      PROVE  payloads' = Events(read') /\ data' = Rest(read') /\ buffer' = Open(read')
  <2>1. e.s.over = {} /\ s0.over = {} BY <1>2, <1>4, <1>6
  <2>2. overflow = {} /\ b = buffer \o chunk /\ s0.data = data /\ s0.out = <<>> BY <1>3, <2>1
  <2>3. payloads = Events(read) /\ data = Rest(read) /\ buffer = Open(read)
    BY <1>1, <2>2 DEF ChunkingIrrelevant, Remembers
  <2>4. read \in Seq(Byte) /\ buffer \in Seq(Byte) /\ NoEnd(buffer, Len(buffer))
    BY <1>1 DEF TypeOK, NoEnd
  <2>5. /\ read \in Seq(Byte) /\ Open(read) \in Seq(Byte) /\ NoEnd(Open(read), Len(Open(read)))
        /\ s0.data = Rest(read) /\ Lines(Open(read) \o chunk, s0).s.over = {}
        /\ s0 \in Registers /\ s0.out = <<>>
    BY <1>0, <1>3, <2>1, <2>2, <2>3, <2>4
  <2>6. /\ Events(read \o chunk) = Events(read) \o Lines(Open(read) \o chunk, s0).s.out
        /\ Rest(read \o chunk) = Lines(Open(read) \o chunk, s0).s.data
        /\ Open(read \o chunk) = SubSeq(Open(read) \o chunk, Lines(Open(read) \o chunk, s0).from,
                                        Len(Open(read) \o chunk))
    BY <2>5, ChunkRead
  <2>8. /\ Events(read \o chunk) = Events(read) \o e.s.out
        /\ Rest(read \o chunk) = e.s.data
        /\ Open(read \o chunk) = SubSeq(b, e.from, Len(b))
    BY <1>0, <2>2, <2>3, <2>6
  <2> QED BY <1>2, <2>3, <2>8
<1>7. ChunkingIrrelevant' /\ Remembers'
  BY <1>6 DEF ChunkingIrrelevant, Remembers
<1> QED BY <1>5, <1>7 DEF FramingInv

\* An oversized chunk is noted and changes nothing else.
LEMMA OversizedInv ==
    ASSUME FramingInv, NEW chunk \in Seq(Byte), Len(read) + Len(chunk) <= MaxRead,
           read' = read \o chunk, Oversized(chunk), ended' = ended
    PROVE  FramingInv'
<1>1. TypeOK BY DEF FramingInv
<1>2. overflow' = overflow \cup {"chunk"} /\ UNCHANGED <<buffer, data, bytes, payloads, ended>>
  BY DEF Oversized
<1>3. read' \in Seq(Byte) /\ Len(read') <= MaxRead
  <2>1. read \in Seq(Byte) BY <1>1 DEF TypeOK
  <2>2. read \o chunk \in Seq(Byte) /\ Len(read \o chunk) = Len(read) + Len(chunk)
    BY <2>1, ConcatProperties
  <2> QED BY <2>2
<1>4. overflow' # {} /\ overflow' \subseteq {"chunk", "buffer", "event"} BY <1>1, <1>2 DEF TypeOK
<1>5. TypeOK' BY <1>1, <1>2, <1>3, <1>4 DEF TypeOK
<1>6. ChunkingIrrelevant' /\ Remembers' BY <1>4 DEF ChunkingIrrelevant, Remembers
<1> QED BY <1>5, <1>6 DEF FramingInv

\* The end of the stream: the unterminated event is delivered.
LEMMA FinishInv ==
    ASSUME FramingInv, Finish
    PROVE  FramingInv'
<1>1. TypeOK /\ ChunkingIrrelevant /\ Remembers BY DEF FramingInv
<1>2. /\ ~ended /\ ended' = TRUE
      /\ payloads' = IF data = <<>> THEN payloads ELSE Append(payloads, Payload(data))
      /\ data' = <<>> /\ bytes' = 0 /\ buffer' = <<>>
      /\ read' = read /\ overflow' = overflow
  BY DEF Finish
<1>3. TypeOK'
  <2>1. <<>> \in Seq(Byte) /\ Len(<<>>) = 0 /\ Cap \in Nat BY FramingAssumption
  <2>2. payloads' \in Seq(Seq(Byte))
    <3>1. payloads \in Seq(Seq(Byte)) /\ data \in Seq(Byte) BY <1>1 DEF TypeOK
    <3> DEFINE y == Payload(data)
    <3>2. data # <<>> => y \in Seq(Byte) BY <3>1, PayloadType
    <3> HIDE DEF y
    <3>3. data # <<>> => Append(payloads, y) \in Seq(Seq(Byte)) BY <3>1, <3>2
    <3> QED BY <1>2, <3>1, <3>3 DEF y
  <2>3. /\ data' \in Seq(Byte) /\ Len(data') = 0 /\ buffer' \in Seq(Byte) /\ Len(buffer') = 0
    BY <1>2, <2>1
  <2>4. Len(data') <= Cap /\ Len(buffer') <= Cap /\ bytes' = Len(data') BY <1>2, <2>1, <2>3
  <2>5. \A n \in 1 .. Len(buffer') : buffer'[n] # "nl" BY <2>3
  <2>6. /\ read' \in Seq(Byte) /\ Len(read') <= MaxRead
        /\ overflow' \subseteq {"chunk", "buffer", "event"} /\ ended' \in BOOLEAN
    BY <1>1, <1>2 DEF TypeOK
  <2> QED BY <2>2, <2>3, <2>4, <2>5, <2>6, Zenon DEF TypeOK
<1>4. ASSUME overflow = {}
      PROVE  payloads' = IF Rest(read) # <<>> THEN Append(Events(read), Payload(Rest(read)))
                         ELSE Events(read)
  <2>1. payloads = Events(read) /\ data = Rest(read)
    BY <1>1, <1>2, <1>4 DEF ChunkingIrrelevant, Remembers
  <2> QED BY <1>2, <2>1
<1>5. ChunkingIrrelevant' BY <1>2, <1>4 DEF ChunkingIrrelevant
<1>6. Remembers' BY <1>2 DEF Remembers
<1> QED BY <1>3, <1>5, <1>6 DEF FramingInv

\* Every state of the parser satisfies the invariant, for every alphabet, cap,
\* chunk size and length of the stream.
THEOREM FramingInvariant == Spec => []FramingInv
<1>1. FramingInv /\ [Next]_vars => FramingInv'
  <2> SUFFICES ASSUME FramingInv, [Next]_vars PROVE FramingInv'
    OBVIOUS
  <2>1. CASE Read
    <3>0. PICK n \in 1 .. MaxChunk :
            Len(read) + n <= MaxRead /\ \E chunk \in [1 .. n -> Byte] : Push(chunk)
      BY <2>1 DEF Read
    <3>1. PICK chunk \in [1 .. n -> Byte] : Push(chunk) BY <3>0
    <3>2. chunk \in Seq(Byte) /\ Len(chunk) = n
      <4>1. MaxChunk \in Nat BY FramingAssumption
      <4>2. n \in Nat BY <4>1
      <4> QED BY <4>2
    <3>3. Len(read) + Len(chunk) <= MaxRead BY <3>0, <3>2
    <3>4. /\ ~ended /\ read' = read \o chunk /\ ended' = ended
          /\ Oversized(chunk) \/ Parsed(chunk)
      BY <3>1 DEF Push
    <3>5. CASE Oversized(chunk) BY <3>2, <3>3, <3>4, <3>5, OversizedInv
    <3>6. CASE Parsed(chunk) BY <3>2, <3>3, <3>4, <3>6, ParsedInv
    <3> QED BY <3>4, <3>5, <3>6
  <2>2. CASE Finish BY <2>2, FinishInv
  <2>3. CASE Done \/ UNCHANGED vars
    <3>1. /\ buffer' = buffer /\ data' = data /\ bytes' = bytes /\ payloads' = payloads
          /\ read' = read /\ overflow' = overflow /\ ended' = ended
      BY <2>3 DEF Done, vars
    <3>2. TypeOK' = TypeOK BY <3>1, Zenon DEF TypeOK
    <3>3. ChunkingIrrelevant' = ChunkingIrrelevant BY <3>1, Zenon DEF ChunkingIrrelevant
    <3>4. Remembers' = Remembers BY <3>1, Zenon DEF Remembers
    <3> QED BY <3>2, <3>3, <3>4, Zenon DEF FramingInv
  <2> QED BY <2>1, <2>2, <2>3 DEF Next
<1> QED BY <1>1, InitInv, PTL DEF Spec

\* The parser's memory is bounded by the cap and its byte count is exact
\* (TypeOK): buffer, data_lines and data_lines_bytes through every discard and
\* reset.
THEOREM FramingTypes == Spec => []TypeOK
<1>1. FramingInv => TypeOK BY DEF FramingInv
<1> QED BY <1>1, FramingInvariant, PTL

\* However the bytes are cut into chunks, push() and finish() return the payloads
\* of the whole stream (ChunkingIrrelevant), as long as nothing exceeds the cap.
THEOREM FramingChunks == Spec => []ChunkingIrrelevant
<1>1. FramingInv => ChunkingIrrelevant BY DEF FramingInv
<1> QED BY <1>1, FramingInvariant, PTL
==============================================================================
