---------------------------- MODULE GatewayProofs ----------------------------
(***************************************************************************)
(* What holds of the gateway for every configuration file, every header,   *)
(* every model name and every listing of the upstream.                     *)
(*                                                                         *)
(* The argument: each phase of the start adds one check to what is known   *)
(* of the configuration (StartInv); a handler has run only behind          *)
(* require_auth (AuthInv), and what extract_key reads from a header is     *)
(* that header's trimmed text, which ct_eq compares as a whole.  The URL   *)
(* is made of a name that passed validate_model_segment.                   *)
(***************************************************************************)
EXTENDS Gateway, FiniteRecursion, SequenceTheorems, FiniteSetTheorems, FunctionTheorems

-------------------------------------------------------------------------------
(* Texts. *)

\* The first and the last of a set of positions.
LEMMA Ends ==
    ASSUME NEW n \in Nat, NEW S \in SUBSET (1 .. n), S # {}
    PROVE  /\ (CHOOSE i \in S : \A j \in S : i <= j) \in S
           /\ \A j \in S : (CHOOSE i \in S : \A k \in S : i <= k) <= j
           /\ (CHOOSE i \in S : \A j \in S : j <= i) \in S
           /\ \A j \in S : j <= (CHOOSE i \in S : \A k \in S : k <= i)
<1>1. \E x \in S : \A y \in S : x <= y
  <2>1. S \in SUBSET Nat
    OBVIOUS
  <2> QED BY <2>1, LeastNatural
<1>2. \E x \in S : \A y \in S : y <= x
  <2>1. S \in SUBSET (0 .. n)
    OBVIOUS
  <2> QED BY <2>1, GreatestNatural
<1> QED BY <1>1, <1>2

\* The smallest of a set of positions.
LEMMA MinFirst ==
    ASSUME NEW n \in Nat, NEW S \in SUBSET (1 .. n), S # {}
    PROVE  Min(S) \in S /\ \A j \in S : Min(S) <= j
<1>1. S \in SUBSET Nat
  OBVIOUS
<1>2. \E x \in S : \A y \in S : x <= y
  BY <1>1, LeastNatural
<1> QED BY <1>2 DEF Min

\* A sequence of strings and its positions.
LEMMA TextFacts ==
    ASSUME NEW s \in Text
    PROVE  /\ Len(s) \in Nat /\ DOMAIN s = 1 .. Len(s)
           /\ s = <<>> <=> Len(s) = 0
           /\ \A i \in 1 .. Len(s) : s[i] \in STRING
BY DEF Text

\* Sequences of one and of two elements.
LEMMA SmallTexts ==
    ASSUME NEW S, NEW a \in S, NEW b \in S
    PROVE  /\ <<a>> \in Seq(S) /\ Len(<<a>>) = 1 /\ <<a>>[1] = a
           /\ <<a, b>> \in Seq(S) /\ Len(<<a, b>>) = 2 /\ <<a, b>>[1] = a /\ <<a, b>>[2] = b
OBVIOUS

\* A part of a text.
LEMMA PartFacts ==
    ASSUME NEW s \in Text, NEW m \in 1 .. Len(s) + 1, NEW n \in m - 1 .. Len(s)
    PROVE  /\ SubSeq(s, m, n) \in Text /\ Len(SubSeq(s, m, n)) = n - m + 1
           /\ \A i \in 1 .. n - m + 1 : SubSeq(s, m, n)[i] = s[m + i - 1]
<1>1. Len(s) \in Nat /\ m \in Int /\ n \in Int
  BY TextFacts
<1>2. \A i \in m .. n : s[i] \in STRING
  BY <1>1, TextFacts
<1>3. /\ SubSeq(s, m, n) \in Seq(STRING)
      /\ Len(SubSeq(s, m, n)) = IF m <= n THEN n - m + 1 ELSE 0
      /\ \A i \in 1 .. n - m + 1 : SubSeq(s, m, n)[i] = s[m + i - 1]
  BY <1>1, <1>2, SubSeqProperties
<1>4. (IF m <= n THEN n - m + 1 ELSE 0) = n - m + 1
  BY <1>1
<1> QED BY <1>3, <1>4 DEF Text

\* What trimming leaves: nothing of a blank text, otherwise the part between
\* the first and the last character that is not a blank.
LEMMA TrimFacts ==
    ASSUME NEW s \in Text
    PROVE  \/ /\ \A i \in 1 .. Len(s) : s[i] = "blank"
              /\ Trim(s) = <<>>
           \/ \E f, l \in 1 .. Len(s) :
                /\ f <= l /\ s[f] # "blank" /\ s[l] # "blank"
                /\ \A i \in 1 .. Len(s) : s[i] # "blank" => f <= i /\ i <= l
                /\ Trim(s) = SubSeq(s, f, l)
<1> DEFINE ink == {i \in DOMAIN s : s[i] # "blank"}
           f == CHOOSE i \in ink : \A j \in ink : i <= j
           l == CHOOSE i \in ink : \A j \in ink : j <= i
<1>0. Len(s) \in Nat /\ DOMAIN s = 1 .. Len(s)
  BY TextFacts
<1>1. CASE ink = {}
  <2>1. Trim(s) = <<>>
    BY <1>1 DEF Trim
  <2> QED BY <1>0, <1>1, <2>1
<1>2. CASE ink # {}
  <2>1. Trim(s) = SubSeq(s, f, l)
    BY <1>2 DEF Trim
  <2>2. ink \in SUBSET (1 .. Len(s))
    BY <1>0
  <2> HIDE DEF ink
  <2>3. /\ f \in ink /\ l \in ink
        /\ \A j \in ink : f <= j /\ j <= l
    BY <1>0, <1>2, <2>2, Ends
  <2> HIDE DEF f, l
  <2>4. f <= l
    BY <2>3
  <2>5. s[f] # "blank" /\ s[l] # "blank" /\ f \in 1 .. Len(s) /\ l \in 1 .. Len(s)
    BY <1>0, <2>3 DEF ink
  <2>6. \A i \in 1 .. Len(s) : s[i] # "blank" => f <= i /\ i <= l
    BY <1>0, <2>3 DEF ink
  <2> QED BY <2>1, <2>4, <2>5, <2>6
<1> QED BY <1>1, <1>2

\* A trimmed text is a text.
LEMMA TrimType ==
    ASSUME NEW s \in Text
    PROVE  Trim(s) \in Text
<1>0. Len(s) \in Nat
  BY TextFacts
<1>1. CASE Trim(s) = <<>>
  BY <1>1 DEF Text
<1>2. CASE Trim(s) # <<>>
  <2>1. PICK f, l \in 1 .. Len(s) : f <= l /\ Trim(s) = SubSeq(s, f, l)
    BY <1>2, TrimFacts
  <2>2. f \in 1 .. Len(s) + 1 /\ l \in f - 1 .. Len(s)
    BY <1>0, <2>1
  <2> QED BY <2>1, <2>2, PartFacts
<1> QED BY <1>1, <1>2

\* A text without a blank at either end is its own trimmed form.
LEMMA TrimClean ==
    ASSUME NEW s \in Text, s # <<>>, s[1] # "blank", s[Len(s)] # "blank"
    PROVE  Trim(s) = s
<1>0. Len(s) \in Nat /\ Len(s) > 0
  BY TextFacts
<1>1. PICK f, l \in 1 .. Len(s) :
        /\ f <= l
        /\ \A i \in 1 .. Len(s) : s[i] # "blank" => f <= i /\ i <= l
        /\ Trim(s) = SubSeq(s, f, l)
  BY <1>0, TrimFacts
<1>2. f = 1 /\ l = Len(s)
  BY <1>0, <1>1
<1>3. SubSeq(s, 1, Len(s)) = s
  BY SubSeqFull DEF Text
<1> QED BY <1>1, <1>2, <1>3

\* And only such a text is.
LEMMA TrimmedEnds ==
    ASSUME NEW s \in Text, s # <<>>, Trim(s) = s
    PROVE  s[1] # "blank" /\ s[Len(s)] # "blank"
<1>0. Len(s) \in Nat /\ Len(s) > 0
  BY TextFacts
<1>1. PICK f, l \in 1 .. Len(s) :
        /\ f <= l /\ s[f] # "blank" /\ s[l] # "blank"
        /\ Trim(s) = SubSeq(s, f, l)
  BY TrimFacts
<1>2. f \in 1 .. Len(s) + 1 /\ l \in f - 1 .. Len(s)
  BY <1>0, <1>1
<1>3. Len(s) = l - f + 1
  BY <1>1, <1>2, PartFacts
<1>4. f = 1 /\ l = Len(s)
  BY <1>0, <1>3
<1> QED BY <1>1, <1>4

\* A blank in front does not change the trimmed form.
LEMMA TrimBlankFirst ==
    ASSUME NEW s \in Text, s # <<>>, s[1] = "blank"
    PROVE  Trim(s) = Trim(SubSeq(s, 2, Len(s)))
<1> DEFINE t == SubSeq(s, 2, Len(s))
<1>0. Len(s) \in Nat /\ Len(s) > 0
  BY TextFacts
<1>1. t \in Text /\ Len(t) = Len(s) - 1 /\ \A i \in 1 .. Len(s) - 1 : t[i] = s[i + 1]
  <2>1. 2 \in 1 .. Len(s) + 1 /\ Len(s) \in 2 - 1 .. Len(s)
    BY <1>0
  <2>2. /\ t \in Text /\ Len(t) = Len(s) - 2 + 1
        /\ \A i \in 1 .. Len(s) - 2 + 1 : t[i] = s[2 + i - 1]
    BY <2>1, PartFacts
  <2>3. Len(s) - 2 + 1 = Len(s) - 1 /\ \A i \in 1 .. Len(s) - 1 : 2 + i - 1 = i + 1
    BY <1>0
  <2> QED BY <2>2, <2>3
<1> HIDE DEF t
<1>2. CASE \A i \in 1 .. Len(s) : s[i] = "blank"
  <2>1. \A i \in 1 .. Len(t) : t[i] = "blank"
    BY <1>0, <1>1, <1>2
  <2>2. Trim(s) = <<>> /\ Trim(t) = <<>>
    BY <1>1, <1>2, <2>1, TrimFacts
  <2> QED BY <2>2 DEF t
<1>3. CASE \E i \in 1 .. Len(s) : s[i] # "blank"
  <2>1. PICK f, l \in 1 .. Len(s) :
          /\ f <= l /\ s[f] # "blank" /\ s[l] # "blank"
          /\ \A i \in 1 .. Len(s) : s[i] # "blank" => f <= i /\ i <= l
          /\ Trim(s) = SubSeq(s, f, l)
    BY <1>3, TrimFacts
  <2>2. f > 1 /\ l > 1
    BY <1>0, <2>1
  <2>3. f - 1 \in 1 .. Len(t) /\ l - 1 \in 1 .. Len(t) /\ t[f - 1] = s[f] /\ t[l - 1] = s[l]
    BY <1>0, <1>1, <2>1, <2>2
  <2>4. PICK g, m \in 1 .. Len(t) :
          /\ g <= m /\ t[g] # "blank" /\ t[m] # "blank"
          /\ \A i \in 1 .. Len(t) : t[i] # "blank" => g <= i /\ i <= m
          /\ Trim(t) = SubSeq(t, g, m)
    BY <1>1, <2>1, <2>3, TrimFacts
  <2>5. g + 1 \in 1 .. Len(s) /\ m + 1 \in 1 .. Len(s) /\ s[g + 1] = t[g] /\ s[m + 1] = t[m]
    BY <1>0, <1>1, <2>4
  <2>6. g = f - 1 /\ m = l - 1
    <3>1. f <= g + 1 /\ m + 1 <= l
      BY <2>1, <2>4, <2>5
    <3>2. g <= f - 1 /\ l - 1 <= m
      BY <2>1, <2>3, <2>4
    <3> QED BY <1>0, <1>1, <2>1, <2>4, <3>1, <3>2
  <2>7. SubSeq(t, f - 1, l - 1) = SubSeq(s, f, l)
    <3> DEFINE u == SubSeq(t, f - 1, l - 1)
               v == SubSeq(s, f, l)
    <3>1. /\ u \in Text /\ Len(u) = (l - 1) - (f - 1) + 1
          /\ \A i \in 1 .. (l - 1) - (f - 1) + 1 : u[i] = t[(f - 1) + i - 1]
      <4>1. f - 1 \in 1 .. Len(t) + 1 /\ l - 1 \in (f - 1) - 1 .. Len(t)
        BY <1>0, <1>1, <2>1, <2>3
      <4> QED BY <1>1, <4>1, PartFacts
    <3>2. /\ v \in Text /\ Len(v) = l - f + 1
          /\ \A i \in 1 .. l - f + 1 : v[i] = s[f + i - 1]
      <4>1. f \in 1 .. Len(s) + 1 /\ l \in f - 1 .. Len(s)
        BY <1>0, <2>1
      <4> QED BY <4>1, PartFacts
    <3> HIDE DEF u, v
    <3>3. Len(u) = Len(v) /\ Len(v) = l - f + 1
      BY <1>0, <2>1, <3>1, <3>2
    <3>4. ASSUME NEW i \in 1 .. l - f + 1 PROVE u[i] = v[i]
      <4>1. u[i] = t[f + i - 2] /\ v[i] = s[f + i - 1]
        BY <1>0, <2>1, <3>1, <3>2
      <4>2. f + i - 2 \in 1 .. Len(s) - 1
        BY <1>0, <2>1, <2>2
      <4> QED BY <1>1, <4>1, <4>2
    <3>5. u = v
      BY <3>1, <3>2, <3>3, <3>4, SeqEqual DEF Text
    <3> QED BY <3>5 DEF u, v
  <2> QED BY <2>1, <2>4, <2>6, <2>7 DEF t
<1> QED BY <1>2, <1>3

-------------------------------------------------------------------------------
(* Authentication. *)

\* ct_eq compares the whole texts.
LEMMA CtEq ==
    ASSUME NEW a \in Text, NEW b \in Text
    PROVE  ct_eq(a, b) <=> a = b
<1>0. /\ Len(a) \in Nat /\ DOMAIN a = 1 .. Len(a)
      /\ Len(b) \in Nat /\ DOMAIN b = 1 .. Len(b)
  BY TextFacts
<1>1. ASSUME a = b PROVE ct_eq(a, b)
  BY <1>1 DEF ct_eq
<1>2. ASSUME ct_eq(a, b) PROVE a = b
  <2>1. Len(a) = Len(b)
    BY <1>2 DEF ct_eq
  <2>2. ASSUME NEW i \in 1 .. Len(a) PROVE a[i] = b[i]
    BY <1>0, <1>2, <2>1 DEF ct_eq
  <2> QED BY <2>1, <2>2, SeqEqual DEF Text
<1> QED BY <1>1, <1>2

\* A header's readable value is empty or the trimmed value.
LEMMA ReadableFacts ==
    ASSUME NEW h \in Optional
    PROVE  /\ Readable(h) \in Text
           /\ Readable(h) # <<>> => h # None /\ Readable(h) = Trim(h[1])
<1>1. CASE h = None
  BY <1>1 DEF Readable, Text
<1>2. CASE h # None
  <2>1. h[1] \in Text
    BY <1>2 DEF Optional, None
  <2>2. Trim(h[1]) \in Text /\ <<>> \in Text
    BY <2>1, TrimType DEF Text
  <2> QED BY <1>2, <2>2 DEF Readable
<1> QED BY <1>1, <1>2

\* The credentials of a Bearer value are the text after the scheme.
LEMMA BearerFacts ==
    ASSUME NEW v \in Text
    PROVE  /\ BearerKey(v) \in Text
           /\ BearerKey(v) # <<>> =>
                /\ Len(v) > 1 /\ v[1] \in {"Bearer", "bearer"} /\ v[2] = "blank"
                /\ BearerKey(v) = Trim(Tail(v))
<1> DEFINE blanks == {i \in DOMAIN v : v[i] = "blank"}
           i == CHOOSE n \in blanks : \A m \in blanks : n <= m
<1>0. Len(v) \in Nat /\ DOMAIN v = 1 .. Len(v)
  BY TextFacts
<1>1. CASE blanks # {} /\ SubSeq(v, 1, i - 1) \in {<<"Bearer">>, <<"bearer">>}
  <2>1. BearerKey(v) = Trim(SubSeq(v, i + 1, Len(v)))
    BY <1>1 DEF BearerKey
  <2>2. blanks \in SUBSET (1 .. Len(v))
    BY <1>0
  <2>3. i \in blanks /\ SubSeq(v, 1, i - 1) \in {<<"Bearer">>, <<"bearer">>}
    <3> HIDE DEF blanks
    <3> QED BY <1>0, <1>1, <2>2, Ends
  <2>4. i \in 1 .. Len(v) /\ v[i] = "blank"
    BY <1>0, <2>3
  <2> HIDE DEF i, blanks
  <2>5. /\ Len(SubSeq(v, 1, i - 1)) = i - 1
        /\ \A n \in 1 .. i - 1 : SubSeq(v, 1, i - 1)[n] = v[n]
    <3>1. 1 \in 1 .. Len(v) + 1 /\ i - 1 \in 1 - 1 .. Len(v)
      BY <1>0, <2>4
    <3>2. /\ Len(SubSeq(v, 1, i - 1)) = (i - 1) - 1 + 1
          /\ \A n \in 1 .. (i - 1) - 1 + 1 : SubSeq(v, 1, i - 1)[n] = v[1 + n - 1]
      BY <3>1, PartFacts
    <3>3. (i - 1) - 1 + 1 = i - 1 /\ \A n \in 1 .. i - 1 : 1 + n - 1 = n
      BY <2>4
    <3> QED BY <3>2, <3>3
  <2>6. i = 2 /\ v[1] \in {"Bearer", "bearer"}
    <3> DEFINE u == SubSeq(v, 1, i - 1)
    <3>1. ASSUME NEW w \in {<<"Bearer">>, <<"bearer">>}
          PROVE  Len(w) = 1 /\ w[1] \in {"Bearer", "bearer"}
      OBVIOUS
    <3> HIDE DEF u
    <3>2. Len(u) = 1 /\ u[1] \in {"Bearer", "bearer"}
      BY <2>3, <3>1 DEF u
    <3>3. i - 1 = 1 /\ v[1] = u[1]
      BY <2>4, <2>5, <3>2 DEF u
    <3> QED BY <2>4, <3>2, <3>3
  <2>7. SubSeq(v, 3, Len(v)) \in Text
    <3>1. 3 \in 1 .. Len(v) + 1 /\ Len(v) \in 3 - 1 .. Len(v)
      BY <1>0, <2>4, <2>6
    <3> QED BY <3>1, PartFacts
  <2>8. Trim(Tail(v)) = Trim(SubSeq(v, 3, Len(v)))
    <3> DEFINE t == Tail(v)
    <3>1. /\ t \in Text /\ Len(t) = Len(v) - 1 /\ t # <<>> /\ t[1] = "blank"
          /\ \A n \in 1 .. Len(v) - 1 : t[n] = v[n + 1]
      <4>1. v \in Seq(STRING) /\ v # <<>> /\ Len(v) > 1
        BY <1>0, <2>4, <2>6 DEF Text
      <4>2. t \in Seq(STRING) /\ Len(t) = Len(v) - 1 /\ \A n \in 1 .. Len(v) - 1 : t[n] = v[n + 1]
        BY <4>1, HeadTailProperties
      <4>3. t[1] = v[2]
        <5>1. 1 \in 1 .. Len(v) - 1 /\ 1 + 1 = 2
          BY <1>0, <4>1
        <5> QED BY <4>2, <5>1
      <4>4. t # <<>>
        <5>1. Len(t) > 0
          BY <1>0, <4>1, <4>2
        <5> HIDE DEF t
        <5> QED BY <5>1
      <4> QED BY <2>4, <2>6, <4>2, <4>3, <4>4 DEF Text
    <3> HIDE DEF t
    <3>2. Trim(t) = Trim(SubSeq(t, 2, Len(t)))
      BY <3>1, TrimBlankFirst
    <3>3. SubSeq(t, 2, Len(t)) = SubSeq(v, 3, Len(v))
      <4> DEFINE x == SubSeq(t, 2, Len(t))
                 y == SubSeq(v, 3, Len(v))
      <4>1. /\ x \in Text /\ Len(x) = Len(t) - 2 + 1
            /\ \A n \in 1 .. Len(t) - 2 + 1 : x[n] = t[2 + n - 1]
        <5>1. 2 \in 1 .. Len(t) + 1 /\ Len(t) \in 2 - 1 .. Len(t)
          BY <1>0, <2>4, <2>6, <3>1
        <5> QED BY <3>1, <5>1, PartFacts
      <4>2. /\ y \in Text /\ Len(y) = Len(v) - 3 + 1
            /\ \A n \in 1 .. Len(v) - 3 + 1 : y[n] = v[3 + n - 1]
        <5>1. 3 \in 1 .. Len(v) + 1 /\ Len(v) \in 3 - 1 .. Len(v)
          BY <1>0, <2>4, <2>6
        <5> QED BY <5>1, PartFacts
      <4> HIDE DEF x, y
      <4>3. Len(x) = Len(y) /\ Len(y) = Len(v) - 2
        BY <1>0, <3>1, <4>1, <4>2
      <4>4. ASSUME NEW n \in 1 .. Len(v) - 2 PROVE x[n] = y[n]
        <5>1. x[n] = t[n + 1] /\ y[n] = v[n + 2] /\ n + 1 \in 1 .. Len(v) - 1
          BY <1>0, <3>1, <4>1, <4>2
        <5>2. t[n + 1] = v[(n + 1) + 1] /\ (n + 1) + 1 = n + 2
          BY <3>1, <5>1
        <5> QED BY <5>1, <5>2
      <4>5. x = y
        BY <4>1, <4>2, <4>3, <4>4, SeqEqual DEF Text
      <4> QED BY <4>5 DEF x, y
    <3> QED BY <3>2, <3>3 DEF t
  <2>9. Trim(SubSeq(v, 3, Len(v))) \in Text
    BY <2>7, TrimType
  <2> QED BY <1>0, <2>1, <2>4, <2>6, <2>8, <2>9
<1>2. CASE ~(blanks # {} /\ SubSeq(v, 1, i - 1) \in {<<"Bearer">>, <<"bearer">>})
  <2>1. BearerKey(v) = <<>>
    BY <1>2 DEF BearerKey
  <2> QED BY <2>1 DEF Text
<1> QED BY <1>1, <1>2

\* extract_key takes the first header that yields a key.
LEMMA ExtractFirst ==
    ASSUME NEW h
    PROVE  extract_key(h) =
             IF BearerKey(Readable(h.authorization)) # <<>>
             THEN BearerKey(Readable(h.authorization))
             ELSE IF Readable(h.api_key) # <<>> THEN Readable(h.api_key)
             ELSE Readable(h.x_api_key)
<1> DEFINE keys == <<BearerKey(Readable(h.authorization)),
                     Readable(h.api_key), Readable(h.x_api_key)>>
           found == {n \in 1 .. 3 : keys[n] # <<>>}
<1>1. extract_key(h) = IF found = {} THEN <<>> ELSE keys[Min(found)]
  BY DEF extract_key
<1>2. /\ keys[1] = BearerKey(Readable(h.authorization))
      /\ keys[2] = Readable(h.api_key) /\ keys[3] = Readable(h.x_api_key)
  OBVIOUS
<1> HIDE DEF keys
<1>3. \A n \in 1 .. 3 : n \in found <=> keys[n] # <<>>
  OBVIOUS
<1>4. found \in SUBSET (1 .. 3)
  OBVIOUS
<1> HIDE DEF found
<1>5. found # {} => Min(found) \in found /\ \A n \in found : Min(found) <= n
  BY <1>4, MinFirst
<1>6. CASE keys[1] # <<>>
  <2>1. 1 \in found
    BY <1>3, <1>6
  <2>2. Min(found) = 1 /\ found # {}
    <3>1. found # {} /\ Min(found) \in 1 .. 3 /\ Min(found) <= 1
      BY <1>4, <1>5, <2>1
    <3> QED BY <3>1
  <2> QED BY <1>1, <1>2, <1>6, <2>1, <2>2
<1>7. CASE keys[1] = <<>> /\ keys[2] # <<>>
  <2>1. 2 \in found /\ 1 \notin found
    BY <1>3, <1>7
  <2>2. Min(found) = 2 /\ found # {}
    <3>1. found # {} /\ Min(found) \in 1 .. 3 /\ Min(found) <= 2 /\ Min(found) # 1
      BY <1>4, <1>5, <2>1
    <3> QED BY <3>1
  <2> QED BY <1>1, <1>2, <1>7, <2>1, <2>2
<1>8. CASE keys[1] = <<>> /\ keys[2] = <<>>
  <2>1. CASE keys[3] # <<>>
    <3>1. Min(found) = 3 /\ found # {}
      BY <1>3, <1>4, <1>5, <1>8, <2>1
    <3> QED BY <1>1, <1>2, <1>8, <3>1
  <2>2. CASE keys[3] = <<>>
    <3>1. found = {}
      BY <1>3, <1>4, <1>8, <2>2
    <3> QED BY <1>1, <1>2, <1>8, <2>2, <3>1
  <2> QED BY <2>1, <2>2
<1> QED BY <1>6, <1>7, <1>8

\* The type of what a client may send.
HeaderType == [authorization : Optional, api_key : Optional, x_api_key : Optional]

\* A key that passed validation is found in any header that carries it alone.
LEMMA KeyPresented ==
    ASSUME NEW k \in Text, Trim(k) # <<>>, Visible(k), Trim(k) = k
    PROVE  /\ extract_key([authorization |-> <<<<"Bearer", "blank">> \o k>>,
                           api_key |-> None, x_api_key |-> None]) = k
           /\ extract_key([authorization |-> None, api_key |-> <<k>>, x_api_key |-> None]) = k
           /\ extract_key([authorization |-> None, api_key |-> None, x_api_key |-> <<k>>]) = k
<1>0. Len(k) \in Nat /\ Len(k) > 0 /\ k # <<>> /\ k[1] # "blank" /\ k[Len(k)] # "blank"
  BY TextFacts, TrimmedEnds
<1>1. Readable(None) = <<>> /\ Readable(<<k>>) = k
  BY DEF Readable, None
<1>2. BearerKey(<<>>) = <<>>
  <2>1. {i \in DOMAIN <<>> : <<>>[i] = "blank"} = {}
    OBVIOUS
  <2> QED BY <2>1 DEF BearerKey
<1> DEFINE v == <<"Bearer", "blank">> \o k
<1>3. /\ v \in Text /\ Len(v) = Len(k) + 2 /\ v[1] = "Bearer" /\ v[2] = "blank"
      /\ \A i \in 1 .. Len(k) : v[i + 2] = k[i]
  <2> DEFINE b == <<"Bearer", "blank">>
  <2>1. b \in Seq(STRING) /\ Len(b) = 2 /\ b[1] = "Bearer" /\ b[2] = "blank" /\ k \in Seq(STRING)
    <3>1. "Bearer" \in STRING /\ "blank" \in STRING
      BY Literals
    <3>2. k \in Seq(STRING)
      BY DEF Text
    <3> QED BY <3>1, <3>2, SmallTexts, Zenon
  <2> HIDE DEF b
  <2>2. /\ b \o k \in Seq(STRING) /\ Len(b \o k) = Len(b) + Len(k)
        /\ \A i \in 1 .. Len(b) + Len(k) :
             (b \o k)[i] = IF i <= Len(b) THEN b[i] ELSE k[i - Len(b)]
    BY <2>1, ConcatProperties
  <2>3. (b \o k)[1] = "Bearer" /\ (b \o k)[2] = "blank"
    BY <1>0, <2>1, <2>2
  <2>4. ASSUME NEW i \in 1 .. Len(k) PROVE (b \o k)[i + 2] = k[i]
    <3>1. i + 2 \in 1 .. Len(b) + Len(k) /\ ~(i + 2 <= Len(b)) /\ (i + 2) - Len(b) = i
      BY <1>0, <2>1
    <3> QED BY <2>2, <3>1
  <2>5. Len(b \o k) = Len(k) + 2
    BY <1>0, <2>1, <2>2
  <2> QED BY <2>2, <2>3, <2>4, <2>5 DEF Text, b
<1> HIDE DEF v
<1>4. Visible(v)
  <2>1. ASSUME NEW i \in 1 .. Len(v) PROVE v[i] # "non-ASCII"
    <3>1. CASE i > 2
      <4>1. i - 2 \in 1 .. Len(k) /\ v[i] = k[i - 2]
        BY <1>0, <1>3, <3>1, (i - 2) + 2 = i
      <4> QED BY <4>1 DEF Visible, Contains
    <3>2. CASE i \in {1, 2}
      BY <1>3, <3>2
    <3> QED BY <1>0, <1>3, <3>1, <3>2
  <2> QED BY <2>1 DEF Visible, Contains
<1>5. Trim(v) = v
  <2>1. v # <<>> /\ v[1] # "blank"
    BY <1>0, <1>3
  <2>2. v[Len(v)] = k[Len(k)]
    BY <1>0, <1>3, Len(k) \in 1 .. Len(k)
  <2> QED BY <1>0, <1>3, <2>1, <2>2, TrimClean
<1>6. Readable(<<v>>) = v
  BY <1>4, <1>5 DEF Readable, None
<1>7. BearerKey(v) = k
  <2> DEFINE blanks == {i \in DOMAIN v : v[i] = "blank"}
             i == CHOOSE n \in blanks : \A m \in blanks : n <= m
  <2>1. DOMAIN v = 1 .. Len(v)
    BY <1>3, TextFacts
  <2>2. 2 \in blanks /\ 1 \notin blanks /\ blanks \in SUBSET (1 .. Len(v)) /\ Len(v) \in Nat
    BY <1>0, <1>3, <2>1
  <2>3. i = 2
    <3> HIDE DEF blanks
    <3>1. i \in blanks /\ i <= 2
      BY <2>2, Ends
    <3> HIDE DEF i
    <3> QED BY <2>2, <3>1
  <2>4. SubSeq(v, 1, 1) = <<"Bearer">>
    <3>1. 1 \in 1 .. Len(v) + 1 /\ 1 \in 1 - 1 .. Len(v)
      BY <1>0, <1>3
    <3>2. /\ SubSeq(v, 1, 1) \in Text /\ Len(SubSeq(v, 1, 1)) = 1 - 1 + 1
          /\ \A n \in 1 .. 1 - 1 + 1 : SubSeq(v, 1, 1)[n] = v[1 + n - 1]
      BY <1>3, <3>1, PartFacts
    <3>3. Len(SubSeq(v, 1, 1)) = 1 /\ SubSeq(v, 1, 1)[1] = "Bearer"
      BY <1>3, <3>2
    <3> DEFINE x == SubSeq(v, 1, 1)
               y == <<"Bearer">>
    <3>4. y \in Seq(STRING) /\ Len(y) = 1 /\ y[1] = "Bearer"
      <4>1. "Bearer" \in STRING
        BY Literals
      <4> QED BY <4>1, SmallTexts, Zenon
    <3>5. x \in Seq(STRING) /\ Len(x) = 1 /\ x[1] = "Bearer"
      BY <3>2, <3>3 DEF Text
    <3> HIDE DEF x, y
    <3>6. \A j \in 1 .. Len(x) : x[j] = y[j]
      BY <3>4, <3>5
    <3>7. x = y
      BY <3>4, <3>5, <3>6, SeqEqual
    <3> QED BY <3>7 DEF x, y
  <2>5. SubSeq(v, 3, Len(v)) = k
    <3> DEFINE x == SubSeq(v, 3, Len(v))
    <3>1. 3 \in 1 .. Len(v) + 1 /\ Len(v) \in 3 - 1 .. Len(v)
      BY <1>0, <1>3
    <3>2. /\ x \in Text /\ Len(x) = Len(v) - 3 + 1
          /\ \A n \in 1 .. Len(v) - 3 + 1 : x[n] = v[3 + n - 1]
      BY <1>3, <3>1, PartFacts
    <3> HIDE DEF x
    <3>3. Len(x) = Len(k)
      BY <1>0, <1>3, <3>2
    <3>4. ASSUME NEW n \in 1 .. Len(k) PROVE x[n] = k[n]
      <4>1. n \in 1 .. Len(v) - 3 + 1 /\ 3 + n - 1 = n + 2
        BY <1>0, <1>3
      <4> QED BY <1>3, <3>2, <4>1
    <3>5. x = k
      BY <3>2, <3>3, <3>4, SeqEqual DEF Text
    <3> QED BY <3>5 DEF x
  <2>6. BearerKey(v) = IF blanks # {} /\ SubSeq(v, 1, i - 1) \in {<<"Bearer">>, <<"bearer">>}
                       THEN Trim(SubSeq(v, i + 1, Len(v))) ELSE <<>>
    BY DEF BearerKey
  <2>7. blanks # {} /\ i - 1 = 1 /\ i + 1 = 3
    BY <2>2, <2>3
  <2> HIDE DEF i, blanks
  <2> QED BY <2>4, <2>5, <2>6, <2>7
<1>8. extract_key([authorization |-> <<v>>, api_key |-> None, x_api_key |-> None]) = k
  BY <1>0, <1>6, <1>7, ExtractFirst
<1>9. /\ extract_key([authorization |-> None, api_key |-> <<k>>, x_api_key |-> None]) = k
      /\ extract_key([authorization |-> None, api_key |-> None, x_api_key |-> <<k>>]) = k
  BY <1>0, <1>1, <1>2, ExtractFirst
<1> QED BY <1>8, <1>9 DEF v

\* A key that validation let through opens the gateway.
LEMMA KeyOpens ==
    ASSUME config \in ConfigType, NEW k \in ToSet(config.keys), NEW h, extract_key(h) = k,
           k # <<>>
    PROVE  require_auth(h)
<1>1. k \in Text /\ Len(k) \in Nat
  BY TextFacts DEF ConfigType, ToSet
<1>2. ct_eq(k, k) /\ Len(k) <= Len(k)
  BY <1>1, CtEq
<1> QED BY <1>2 DEF require_auth

\* What require_auth lets through presents a configured key.
LEMMA OpensByKey ==
    ASSUME config \in ConfigType, NEW h \in HeaderType, require_auth(h), config.keys # <<>>
    PROVE  \E k \in ToSet(config.keys) :
             \/ h.api_key # None /\ Trim(h.api_key[1]) = k
             \/ h.x_api_key # None /\ Trim(h.x_api_key[1]) = k
             \/ h.authorization # None
                  /\ LET v == Trim(h.authorization[1])
                     IN  Len(v) > 1 /\ v[1] \in {"Bearer", "bearer"} /\ v[2] = "blank"
                           /\ Trim(Tail(v)) = k
<1> DEFINE p == extract_key(h)
           a == Readable(h.authorization)
<1>0. h.authorization \in Optional /\ h.api_key \in Optional /\ h.x_api_key \in Optional
  BY DEF HeaderType
<1>1. /\ a \in Text /\ Readable(h.api_key) \in Text /\ Readable(h.x_api_key) \in Text
      /\ BearerKey(a) \in Text
  BY <1>0, ReadableFacts, BearerFacts
<1>2. p \in Text
  BY <1>1, ExtractFirst
<1>3. PICK k \in ToSet(config.keys) : ct_eq(k, p)
  BY DEF require_auth
<1>4. p # <<>>
  BY DEF require_auth
<1>5. k \in Text
  BY DEF ConfigType, ToSet
<1>6. k = p
  BY <1>2, <1>3, <1>5, CtEq
<1>7. CASE BearerKey(a) # <<>>
  <2>1. p = BearerKey(a)
    BY <1>7, ExtractFirst
  <2>2. /\ Len(a) > 1 /\ a[1] \in {"Bearer", "bearer"} /\ a[2] = "blank"
        /\ BearerKey(a) = Trim(Tail(a))
    BY <1>1, <1>7, BearerFacts
  <2>3. a # <<>>
    BY <2>2
  <2>4. h.authorization # None /\ a = Trim(h.authorization[1])
    BY <1>0, <2>3, ReadableFacts
  <2> QED BY <1>6, <2>1, <2>2, <2>4
<1>8. CASE BearerKey(a) = <<>>
  <2>1. p = IF Readable(h.api_key) # <<>> THEN Readable(h.api_key) ELSE Readable(h.x_api_key)
    BY <1>8, ExtractFirst
  <2> HIDE DEF p
  <2> QED BY <1>0, <1>4, <1>6, <2>1, ReadableFacts
<1> QED BY <1>7, <1>8

-------------------------------------------------------------------------------
(* Model names and the URL. *)

\* A prefix begins the text: it is not longer and agrees in every token.
LEMMA PrefixFacts ==
    ASSUME NEW p \in Text, NEW s \in Text, IsPrefix(p, s)
    PROVE  Len(p) <= Len(s) /\ \A i \in 1 .. Len(p) : s[i] = p[i]
<1>0. Len(p) \in Nat /\ Len(s) \in Nat /\ Len(p) <= Len(s)
      /\ SubSeq(p, 1, Len(p)) = SubSeq(s, 1, Len(p))
  BY TextFacts DEF IsPrefix
<1>1. 1 \in 1 .. Len(p) + 1 /\ Len(p) \in 1 - 1 .. Len(p)
      /\ 1 \in 1 .. Len(s) + 1 /\ Len(p) \in 1 - 1 .. Len(s)
  BY <1>0
<1>2. \A i \in 1 .. Len(p) - 1 + 1 : SubSeq(p, 1, Len(p))[i] = p[1 + i - 1]
  BY <1>1, PartFacts
<1>3. \A i \in 1 .. Len(p) - 1 + 1 : SubSeq(s, 1, Len(p))[i] = s[1 + i - 1]
  BY <1>1, PartFacts
<1>4. ASSUME NEW i \in 1 .. Len(p) PROVE s[i] = p[i]
  <2>1. i \in 1 .. Len(p) - 1 + 1 /\ 1 + i - 1 = i
    BY <1>0
  <2> QED BY <1>0, <1>2, <1>3, <2>1
<1> QED BY <1>0, <1>4

\* The number of tokens that the longest of some prefixes takes off a name.
Longest(S, name, t) ==
    /\ t \in 0 .. Len(name)
    /\ t = 0 \/ \E p \in S : IsPrefix(p, name) /\ Len(p) = t
    /\ \A p \in S : IsPrefix(p, name) => Len(p) <= t

\* The loop of strip_prefix finds the longest prefix that matches, wherever it
\* is: after n iterations best is the longest of the first n.
LEMMA StripLongest ==
    ASSUME NEW prefixes \in Seq(Text), NEW name \in Text
    PROVE  \E t : /\ Longest(ToSet(prefixes), name, t)
                  /\ strip_prefix(prefixes, name) = SubSeq(name, t + 1, Len(name))
<1> DEFINE N == Len(prefixes)
           V == 0 .. Len(name)
           better(n, t) == IF IsPrefix(prefixes[n], name) /\ Len(prefixes[n]) > t
                           THEN Len(prefixes[n]) ELSE t
           best[n \in 0 .. Len(prefixes)] ==
             IF n = 0 THEN 0
             ELSE IF IsPrefix(prefixes[n], name) /\ Len(prefixes[n]) > best[n - 1]
                  THEN Len(prefixes[n]) ELSE best[n - 1]
           Unfold(g) == [n \in 0 .. Len(prefixes) |->
                          IF n = 0 THEN 0
                          ELSE IF IsPrefix(prefixes[n], name) /\ Len(prefixes[n]) > g[n - 1]
                               THEN Len(prefixes[n]) ELSE g[n - 1]]
           step == [x \in (1 .. N) \X V |-> better(x[1], x[2])]
           Upto(m) == {prefixes[i] : i \in 1 .. m}
<1>1. strip_prefix(prefixes, name) = SubSeq(name, best[Len(prefixes)] + 1, Len(name))
  BY DEF strip_prefix
<1>2. best = CHOOSE g : g = Unfold(g)
  OBVIOUS
<1> HIDE DEF best
<1>3. N \in Nat /\ Len(name) \in Nat
  BY TextFacts
<1>4. ASSUME NEW n \in 1 .. N
      PROVE  /\ prefixes[n] \in Text /\ Len(prefixes[n]) \in Nat
             /\ IsPrefix(prefixes[n], name) => Len(prefixes[n]) <= Len(name)
  <2>1. prefixes[n] \in Text
    BY <1>3
  <2> QED BY <2>1, TextFacts, PrefixFacts
<1>5. ASSUME NEW n \in 1 .. N, NEW t \in V PROVE better(n, t) \in V
  BY <1>3, <1>4
<1>6. step \in [(1 .. N) \X V -> V]
  <2> HIDE DEF better, V
  <2> QED BY <1>5
<1>7. PICK f \in [0 .. N -> V] : f[0] = 0 /\ \A k \in 1 .. N : f[k] = step[<<k, f[k - 1]>>]
  <2> DEFINE z == 0
  <2>1. z \in V
    BY <1>3
  <2> HIDE DEF step, N, V, z
  <2>2. \E f \in [0 .. N -> V] : IsLoop(f, N, z, step)
    BY <1>3, <1>6, <2>1, LoopExists, Zenon
  <2> QED BY <2>2, Zenon DEF z, IsLoop
<1>8. ASSUME NEW k \in 1 .. N PROVE f[k - 1] \in V /\ f[k] = better(k, f[k - 1])
  <2> HIDE DEF better, V
  <2>1. k - 1 \in 0 .. N
    BY <1>3
  <2>2. f[k - 1] \in V /\ <<k, f[k - 1]>> \in (1 .. N) \X V
    BY <1>7, <2>1
  <2>3. step[<<k, f[k - 1]>>] = better(k, f[k - 1])
    BY <2>2
  <2> QED BY <1>7, <2>2, <2>3
<1>9. f = Unfold(f)
  <2>1. ASSUME NEW n \in 0 .. N PROVE f[n] = Unfold(f)[n]
    <3>1. CASE n = 0
      BY <1>7, <3>1
    <3>2. CASE n # 0
      <4>1. n \in 1 .. N
        BY <1>3, <3>2
      <4>2. f[n] = better(n, f[n - 1])
        BY <1>8, <4>1
      <4> QED BY <3>2, <4>2
    <3> QED BY <3>1, <3>2
  <2> QED BY <2>1
<1> HIDE DEF step
<1>10. best = Unfold(best)
  <2> HIDE DEF Unfold
  <2> QED BY <1>2, <1>9
<1>11. best[0] = 0 /\ \A k \in 1 .. N : best[k] = better(k, best[k - 1])
  <2>1. \A m \in 0 .. N : best[m] = Unfold(best)[m]
    BY <1>10
  <2>2. 0 \in 0 .. N /\ \A k \in 1 .. N : k \in 0 .. N /\ k # 0
    BY <1>3
  <2>3. best[0] = 0
    BY <2>1, <2>2
  <2>4. ASSUME NEW k \in 1 .. N PROVE best[k] = better(k, best[k - 1])
    BY <2>1, <2>2
  <2> QED BY <2>3, <2>4
<1> HIDE DEF Unfold
<1>12. 0 .. N \subseteq {m \in 0 .. N : Longest(Upto(m), name, best[m])}
  <2> DEFINE S == {m \in 0 .. N : Longest(Upto(m), name, best[m])}
  <2>1. 0 \in S
    BY <1>3, <1>11 DEF Longest
  <2>2. ASSUME NEW k \in 1 .. N, k - 1 \in S PROVE k \in S
    <3> DEFINE t == best[k - 1]
               p == prefixes[k]
    <3>1. Longest(Upto(k - 1), name, t)
      BY <2>2
    <3>2. Upto(k) = Upto(k - 1) \cup {p}
      BY <1>3
    <3>3. best[k] = better(k, t)
      BY <1>11
    <3>4. Len(p) \in Nat /\ (IsPrefix(p, name) => Len(p) <= Len(name))
      BY <1>4
    <3>5. \A q \in Upto(k - 1) : Len(q) \in Nat
      BY <1>3, <1>4
    <3> HIDE DEF Upto, t
    <3>6. t \in 0 .. Len(name)
      BY <3>1 DEF Longest
    <3>7. Longest(Upto(k), name, best[k])
      <4>1. CASE IsPrefix(p, name) /\ Len(p) > t
        <5>1. best[k] = Len(p)
          BY <3>3, <4>1
        <5> HIDE DEF p
        <5> QED BY <1>3, <3>1, <3>2, <3>4, <3>5, <3>6, <4>1, <5>1 DEF Longest
      <4>2. CASE ~(IsPrefix(p, name) /\ Len(p) > t)
        <5>1. best[k] = t
          BY <3>3, <4>2
        <5> HIDE DEF p
        <5> QED BY <1>3, <3>1, <3>2, <3>4, <3>5, <3>6, <4>2, <5>1 DEF Longest
      <4> QED BY <4>1, <4>2
    <3> QED BY <1>3, <3>7
  <2> HIDE DEF S
  <2>3. 0 .. N \subseteq S
    BY <1>3, <2>1, <2>2, InductiveSet
  <2> QED BY <2>3 DEF S
<1>13. N \in 0 .. N /\ Upto(N) = ToSet(prefixes)
  BY <1>3 DEF ToSet
<1>14. Longest(ToSet(prefixes), name, best[N])
  BY <1>12, <1>13
<1> QED BY <1>1, <1>14

\* So what is left is a text, and depends on the set of the prefixes only.
LEMMA StripType ==
    ASSUME NEW prefixes \in Seq(Text), NEW name \in Text
    PROVE  strip_prefix(prefixes, name) \in Text
<1>1. PICK t : /\ Longest(ToSet(prefixes), name, t)
               /\ strip_prefix(prefixes, name) = SubSeq(name, t + 1, Len(name))
  BY StripLongest
<1>2. Len(name) \in Nat /\ t \in 0 .. Len(name)
  BY <1>1, TextFacts DEF Longest
<1>3. t + 1 \in 1 .. Len(name) + 1 /\ Len(name) \in t + 1 - 1 .. Len(name)
  BY <1>2
<1>4. SubSeq(name, t + 1, Len(name)) \in Text
  BY <1>3, PartFacts
<1> QED BY <1>1, <1>4

LEMMA StripOrder ==
    ASSUME NEW prefixes \in Seq(Text), NEW order \in Seq(Text), NEW name \in Text,
           ToSet(order) = ToSet(prefixes)
    PROVE  strip_prefix(order, name) = strip_prefix(prefixes, name)
<1>1. PICK t : /\ Longest(ToSet(prefixes), name, t)
               /\ strip_prefix(prefixes, name) = SubSeq(name, t + 1, Len(name))
  BY StripLongest
<1>2. PICK u : /\ Longest(ToSet(order), name, u)
               /\ strip_prefix(order, name) = SubSeq(name, u + 1, Len(name))
  BY StripLongest
<1>3. t \in Nat /\ u \in Nat
  BY <1>1, <1>2, TextFacts DEF Longest
<1>4. t <= u /\ u <= t
  BY <1>1, <1>2, <1>3 DEF Longest
<1>5. t = u
  BY <1>3, <1>4
<1> QED BY <1>1, <1>2, <1>5

\* A name resolves to a name.
LEMMA ResolveType ==
    ASSUME config \in ConfigType,
           NEW prefixes \in Seq(Text), NEW name \in Text
    PROVE  resolve(prefixes, name) \in Text
<1> DEFINE stripped == strip_prefix(prefixes, name)
           mapped == {pair[2] : pair \in {q \in ToSet(config.map) : q[1] = stripped}}
<1>1. stripped \in Text
  BY StripType
<1>2. mapped \subseteq Text
  <2>1. config.map \in Seq(Text \X Text)
    BY DEF ConfigType
  <2>2. \A q \in ToSet(config.map) : q \in Text \X Text
    BY <2>1 DEF ToSet
  <2> QED BY <2>2
<1>3. config.default \in Text
  BY DEF ConfigType
<1> HIDE DEF stripped
<1>4. mapped # {} => (CHOOSE target \in mapped : TRUE) \in mapped
  OBVIOUS
<1> HIDE DEF mapped
<1>5. resolve(prefixes, name) = CASE mapped # {} -> CHOOSE target \in mapped : TRUE
                                  [] mapped = {} /\ stripped = <<>> -> config.default
                                  [] OTHER -> stripped
  BY DEF resolve, mapped, stripped
<1> QED BY <1>1, <1>2, <1>3, <1>4, <1>5

\* A dot segment that begins at a position ends there.
Dotted(s, i) == s[i] \in {"dot", "dots"} => i < Len(s) /\ s[i + 1] # "/"

\* A path without unsafe tokens whose segments, after the first, are neither
\* empty nor dots.
CleanPath(s) ==
    /\ s # <<>>
    /\ \A i \in 1 .. Len(s) : s[i] \notin Unsafe
    /\ \A i \in 1 .. Len(s) : s[i] = "/" =>
         i < Len(s) /\ s[i + 1] # "/" /\ Dotted(s, i + 1)

\* What validate_model_segment accepts is such a path, and its first segment
\* is neither empty nor dots.
LEMMA SegmentFacts ==
    ASSUME NEW s \in Text, validate_model_segment(s)
    PROVE  CleanPath(s) /\ s[1] # "/" /\ Dotted(s, 1)
<1>0. Len(s) \in Nat /\ DOMAIN s = 1 .. Len(s)
  BY TextFacts
<1>1. s # <<>> /\ Len(s) > 0 /\ 1 \in DOMAIN s
  BY <1>0, TextFacts DEF validate_model_segment
<1>2. \A i \in 1 .. Len(s) : s[i] \notin Unsafe
  BY <1>0 DEF validate_model_segment
<1>3. \A i \in 1 .. Len(s) :
        /\ s[i] = "/" => ~(i = 1 \/ s[i - 1] = "/") /\ i # Len(s)
        /\ s[i] \in {"dot", "dots"} => ~((i = 1 \/ s[i - 1] = "/") /\ (i = Len(s) \/ s[i + 1] = "/"))
  BY <1>0 DEF validate_model_segment
<1>n. Len(s) \in Nat /\ 1 + 1 = 2
  BY <1>0
<1>4. s[1] # "/" /\ (s[1] \in {"dot", "dots"} => 1 # Len(s) /\ s[2] # "/")
  BY <1>1, <1>3, <1>n
<1>5. Dotted(s, 1)
  BY <1>1, <1>4, <1>n DEF Dotted
<1>6. ASSUME NEW i \in 1 .. Len(s), s[i] = "/"
      PROVE  i < Len(s) /\ s[i + 1] # "/" /\ Dotted(s, i + 1)
  <2>0. i # Len(s)
    BY <1>3, <1>6
  <2>1. i < Len(s) /\ i + 1 \in 1 .. Len(s) /\ (i + 1) - 1 = i
    BY <1>n, <2>0
  <2>2. s[i + 1] # "/"
    BY <1>3, <1>6, <2>1
  <2>3. s[i + 1] \in {"dot", "dots"} => i + 1 # Len(s) /\ s[(i + 1) + 1] # "/"
    BY <1>3, <1>6, <2>1
  <2>4. i + 1 # Len(s) => i + 1 < Len(s)
    BY <1>n, <2>1
  <2>5. Dotted(s, i + 1)
    BY <2>3, <2>4 DEF Dotted
  <2> QED BY <2>1, <2>2, <2>5
<1> QED BY <1>1, <1>2, <1>4, <1>5, <1>6 DEF CleanPath

\* What UrlStaysInside asks of a URL.
Inside(u) == CleanPath(u) /\ Len(u) > 1 /\ u[1] \in {"models", "tunedModels"} /\ u[2] = "/"

\* The resource of a name that validate_model_segment accepts is inside.
LEMMA ResourceInside ==
    ASSUME NEW s \in Text, validate_model_segment(s)
    PROVE  resource_path(s) \in Text /\ Inside(resource_path(s))
<1>0. Len(s) \in Nat /\ CleanPath(s) /\ s[1] # "/" /\ Dotted(s, 1) /\ Len(s) > 0
  BY SegmentFacts, TextFacts DEF CleanPath
<1>1. ASSUME NEW a \in {"models", "tunedModels"}, IsPrefix(<<a, "/">>, s)
      PROVE  Inside(s)
  <2> DEFINE b == <<a, "/">>
  <2>1. b \in Text /\ Len(b) = 2 /\ b[1] = a /\ b[2] = "/"
    <3>1. a \in STRING /\ "/" \in STRING
      BY Literals
    <3> QED BY <3>1, SmallTexts, Zenon DEF Text
  <2> HIDE DEF b
  <2>2. Len(b) <= Len(s) /\ \A i \in 1 .. Len(b) : s[i] = b[i]
    BY <1>1, <2>1, PrefixFacts DEF b
  <2>3. Len(s) > 1 /\ s[1] = a /\ s[2] = "/"
    BY <1>0, <2>1, <2>2
  <2> QED BY <1>0, <2>3 DEF Inside
<1> DEFINE b == <<"models", "/">>
           u == b \o s
<1>2. u \in Text /\ Inside(u)
  <2>1. b \in Seq(STRING) /\ Len(b) = 2 /\ b[1] = "models" /\ b[2] = "/"
    <3>1. "models" \in STRING /\ "/" \in STRING
      BY Literals
    <3> QED BY <3>1, SmallTexts, Zenon
  <2>2. s \in Seq(STRING)
    BY DEF Text
  <2> HIDE DEF b
  <2>3. /\ u \in Seq(STRING) /\ Len(u) = Len(b) + Len(s)
        /\ \A i \in 1 .. Len(b) + Len(s) : u[i] = IF i <= Len(b) THEN b[i] ELSE s[i - Len(b)]
    BY <2>1, <2>2, ConcatProperties
  <2> HIDE DEF u
  <2>4. Len(u) = Len(s) + 2 /\ Len(u) \in Nat /\ u # <<>>
    BY <1>0, <2>1, <2>3
  <2>5. u[1] = "models" /\ u[2] = "/"
    BY <1>0, <2>1, <2>3
  <2>6. ASSUME NEW i \in 1 .. Len(s) PROVE u[i + 2] = s[i]
    <3>1. i + 2 \in 1 .. Len(b) + Len(s) /\ ~(i + 2 <= Len(b)) /\ (i + 2) - Len(b) = i
      BY <1>0, <2>1
    <3> QED BY <2>3, <3>1
  <2>7. \A i \in 1 .. Len(u) : i \in {1, 2} \/ (i - 2 \in 1 .. Len(s) /\ u[i] = s[i - 2])
    <3> TAKE i \in 1 .. Len(u)
    <3>1. CASE i > 2
      <4>1. i - 2 \in 1 .. Len(s) /\ (i - 2) + 2 = i
        BY <2>4, <3>1
      <4> QED BY <2>6, <4>1
    <3> QED BY <2>4, <3>1
  <2>8. ASSUME NEW i \in 1 .. Len(u) PROVE u[i] \notin Unsafe
    <3>1. "models" \notin Unsafe /\ "/" \notin Unsafe
      BY GatewayAssumption
    <3>2. CASE i \in {1, 2}
      BY <2>5, <3>1, <3>2
    <3>3. CASE i - 2 \in 1 .. Len(s) /\ u[i] = s[i - 2]
      BY <1>0, <3>3 DEF CleanPath
    <3> QED BY <2>7, <3>2, <3>3
  <2>9. ASSUME NEW j \in 1 .. Len(s), Dotted(s, j) PROVE Dotted(u, j + 2)
    <3>1. u[j + 2] = s[j]
      BY <2>6
    <3>2. CASE j < Len(s)
      <4>1. j + 1 \in 1 .. Len(s) /\ (j + 1) + 2 = (j + 2) + 1 /\ j + 2 < Len(u)
        BY <1>0, <2>4, <3>2
      <4>2. u[(j + 2) + 1] = s[j + 1]
        BY <2>6, <4>1
      <4> QED BY <2>9, <3>1, <4>1, <4>2 DEF Dotted
    <3>3. CASE ~(j < Len(s))
      BY <2>9, <3>1, <3>3 DEF Dotted
    <3> QED BY <3>2, <3>3
  <2>10. ASSUME NEW i \in 1 .. Len(u), u[i] = "/"
         PROVE  i < Len(u) /\ u[i + 1] # "/" /\ Dotted(u, i + 1)
    <3>1. CASE i = 1
      BY <2>5, <2>10, <3>1
    <3>2. CASE i = 2
      <4>1. u[3] = s[1] /\ 2 < Len(u)
        BY <1>0, <2>4, <2>6, 1 \in 1 .. Len(s), 1 + 2 = 3
      <4>2. Dotted(u, 3)
        BY <1>0, <2>9, 1 \in 1 .. Len(s), 1 + 2 = 3
      <4> QED BY <1>0, <3>2, <4>1, <4>2, 2 + 1 = 3
    <3>3. CASE i - 2 \in 1 .. Len(s) /\ u[i] = s[i - 2]
      <4> DEFINE j == i - 2
      <4>1. j \in 1 .. Len(s) /\ s[j] = "/" /\ j + 2 = i
        BY <2>10, <3>3
      <4> HIDE DEF j
      <4>2. j < Len(s) /\ s[j + 1] # "/" /\ Dotted(s, j + 1)
        BY <1>0, <4>1 DEF CleanPath
      <4>3. j + 1 \in 1 .. Len(s) /\ (j + 1) + 2 = i + 1 /\ i < Len(u)
        BY <1>0, <2>4, <4>1, <4>2
      <4>4. u[i + 1] = s[j + 1] /\ Dotted(u, i + 1)
        BY <2>6, <2>9, <4>2, <4>3
      <4> QED BY <4>2, <4>3, <4>4
    <3> QED BY <2>7, <3>1, <3>2, <3>3
  <2>11. Len(u) > 1
    BY <1>0, <2>4
  <2> QED BY <2>3, <2>4, <2>5, <2>8, <2>10, <2>11 DEF Inside, CleanPath, Text
<1> HIDE DEF u
<1>3. CASE \E p \in {<<"models", "/">>, <<"tunedModels", "/">>} : IsPrefix(p, s)
  <2>1. Inside(s)
    BY <1>1, <1>3
  <2> QED BY <1>3, <2>1 DEF resource_path
<1>4. CASE ~(\E p \in {<<"models", "/">>, <<"tunedModels", "/">>} : IsPrefix(p, s))
  BY <1>2, <1>4 DEF resource_path, u
<1> QED BY <1>3, <1>4

\* A URL that is inside satisfies what UrlStaysInside asks of it.
LEMMA InsideStays ==
    ASSUME url = <<>> \/ (url \in Text /\ Inside(url))
    PROVE  UrlStaysInside
<1> SUFFICES ASSUME url # <<>> PROVE UrlStaysInside
  BY DEF UrlStaysInside
<1>1. url \in Text /\ Inside(url) /\ Len(url) \in Nat /\ DOMAIN url = 1 .. Len(url)
  BY TextFacts
<1>2. ASSUME NEW i \in 2 .. Len(url), url[i] = "/"
      PROVE  /\ i < Len(url) /\ url[i + 1] # "/"
             /\ url[i + 1] \in {"dot", "dots"} => i + 1 < Len(url) /\ url[i + 2] # "/"
  BY <1>1, <1>2, (i + 1) + 1 = i + 2 DEF Inside, CleanPath, Dotted
<1> QED BY <1>1, <1>2 DEF UrlStaysInside, Inside, CleanPath
-------------------------------------------------------------------------------
(* The inductive invariant.                                                *)

\* What each phase of the start has established (Config::load, AppState::new,
\* the registry check and the route table of main).
StartInv ==
    /\ config \in ConfigType
    /\ phase \in {"load", "build", "check", "mount", "serve", "refused"}
    /\ phase \in {"build", "check", "mount", "serve"} =>
         validate(config) /\ (~source.exists => source.path # "set")
    /\ phase \in {"check", "mount", "serve"} =>
         config.privacy # "broken" /\ config.memory # "unopenable"
    /\ phase \in {"mount", "serve"} =>
         ToSet(config.protocols) \cup {config.upstream} \subseteq Registered
    /\ phase = "serve" =>
         mounted = [e \in Offered |-> Owner(e)] /\ \A e \in Offered : ~Conflict(e)

\* A handler has run only for a request that require_auth let through; the
\* model it asks for is a text.
AuthInv ==
    answer.handler # "none" =>
        /\ request.headers \in HeaderType /\ require_auth(request.headers)
        /\ request.model \in Text

\* The names a listing leaves behind are names.
ListInv == listing \subseteq Text

\* The upstream is asked for no resource or for one that is inside.
UrlInv == url = <<>> \/ (url \in Text /\ Inside(url))

\* Nothing happens to a request before the gateway serves.
IdleInv == phase # "serve" => answer = NoAnswer

GatewayInv == StartInv /\ AuthInv /\ ListInv /\ IdleInv /\ UrlInv

\* The default configuration is a configuration and a valid one.
LEMMA DefaultValid == DefaultConfig \in ConfigType /\ validate(DefaultConfig)
<1>1. <<>> \in Seq(Text) /\ <<>> \in Seq(Text \X Text) /\ <<>> \in Text
  BY DEF Text
<1>2. "http" \in STRING /\ "valid" \in STRING /\ "openai" \in STRING /\ "anthropic" \in STRING
      /\ "off" \in STRING
  BY Literals
<1>3. <<"openai", "anthropic">> \in Seq(STRING)
  BY <1>2, SmallTexts, Zenon
<1>4. DefaultConfig \in ConfigType
  BY <1>1, <1>2, <1>3 DEF DefaultConfig, ConfigType
<1>5. ToSet(<<>>) = {}
  BY DEF ToSet
<1>6. validate(DefaultConfig)
  BY <1>5 DEF DefaultConfig, validate
<1> QED BY <1>4, <1>6

\* Steps that leave the configuration alone leave what the start established.
LEMMA StartKept ==
    ASSUME StartInv, UNCHANGED <<phase, source, config, mounted>>
    PROVE  StartInv'
<1>1. Offered' = Offered /\ \A e : Claims(e)' = Claims(e)
  BY DEF Offered, Claims
<1>2. \A e : Owner(e)' = Owner(e)
  BY <1>1 DEF Owner
<1>3. \A e : Conflict(e)' <=> Conflict(e)
  BY <1>1, <1>2 DEF Conflict
<1> QED BY <1>1, <1>2, <1>3 DEF StartInv

\* Every step of the start establishes what its phase promises.
LEMMA StartSteps ==
    ASSUME StartInv, Load \/ BuildState \/ CheckProtocols \/ MountRoutes
    PROVE  StartInv'
<1>1. CASE Load
  <2>1. CASE ~source.exists /\ source.path # "set" /\ config' = DefaultConfig /\ phase' = "build"
             /\ UNCHANGED source
    BY <2>1, DefaultValid DEF StartInv
  <2>2. CASE /\ phase' = IF source.exists /\ source.wellFormed /\ validate(config)
                         THEN "build" ELSE "refused"
             /\ UNCHANGED <<config, source>>
    BY <2>2 DEF StartInv
  <2> QED BY <1>1, <2>1, <2>2 DEF Load
<1>2. CASE BuildState
  BY <1>2 DEF BuildState, StartInv
<1>3. CASE CheckProtocols
  BY <1>3 DEF CheckProtocols, StartInv
<1>4. CASE MountRoutes
  <2>1. config' = config /\ source' = source /\ phase = "mount"
    BY <1>4 DEF MountRoutes
  <2>2. Offered' = Offered /\ \A e : Claims(e)' = Claims(e)
    BY <2>1 DEF Offered, Claims
  <2>3. \A e : Owner(e)' = Owner(e)
    BY <2>1, <2>2 DEF Owner
  <2>4. \A e : Conflict(e)' <=> Conflict(e)
    BY <2>1, <2>2, <2>3 DEF Conflict
  <2>5. /\ phase' = IF \E e \in Offered : Conflict(e) THEN "refused" ELSE "serve"
        /\ mounted' = [e \in Offered |-> Owner(e)]
    BY <1>4 DEF MountRoutes
  <2> QED BY <2>1, <2>2, <2>3, <2>4, <2>5 DEF StartInv
<1> QED BY <1>1, <1>2, <1>3, <1>4


\* The names a listing holds are texts.
LEMMA EntryText ==
    ASSUME NEW h \in Optional, h # None
    PROVE  h[1] \in Text
BY DEF Optional, None

\* Gemini's prefix is a text of two tokens.
LEMMA ModelsPrefix ==
    /\ <<"models", "/">> \in Text /\ Len(<<"models", "/">>) = 2
    /\ <<"models", "/">>[1] = "models" /\ <<"models", "/">>[2] = "/"
<1>1. "models" \in STRING /\ "/" \in STRING
  BY Literals
<1> QED BY <1>1, SmallTexts, Zenon DEF Text

\* parse_models shows names.
LEMMA ParseType ==
    ASSUME NEW entries \in Seq(Optional)
    PROVE  parse_models(entries) \subseteq Text
<1> DEFINE id(n) == IF config.upstream = "gemini" /\ IsPrefix(<<"models", "/">>, n)
                    THEN SubSeq(n, 3, Len(n)) ELSE n
<1>1. ASSUME NEW n \in Text PROVE id(n) \in Text
  <2>1. CASE IsPrefix(<<"models", "/">>, n)
    <3>1. 2 <= Len(n) /\ Len(n) \in Nat
      BY <2>1, ModelsPrefix, PrefixFacts, TextFacts
    <3>2. 3 \in 1 .. Len(n) + 1 /\ Len(n) \in 3 - 1 .. Len(n)
      BY <3>1
    <3> QED BY <3>2, PartFacts
  <2>2. CASE ~IsPrefix(<<"models", "/">>, n)
    BY <2>2
  <2> QED BY <2>1, <2>2
<1> HIDE DEF id
<1>2. ASSUME NEW m \in ToSet(entries), m # None PROVE id(m[1]) \in Text
  <2>1. m \in Optional
    BY DEF ToSet
  <2> QED BY <1>1, <1>2, <2>1, EntryText
<1>3. parse_models(entries) = {id(n[1]) : n \in {m \in ToSet(entries) : m # None}}
  BY DEF parse_models, id
<1> QED BY <1>2, <1>3

\* A request leaves names, a URL that is inside, and an answer of a handler
\* only behind require_auth.
LEMMA ServeStep ==
    ASSUME GatewayInv,
           NEW method \in {"GET", "POST"}, NEW path \in Paths, NEW h \in Headers,
           NEW model \in ModelNames \cup listing, Serve(method, path, h, model)
    PROVE  GatewayInv'
<1>0. /\ phase = "serve" /\ UNCHANGED <<phase, source, config, mounted>>
      /\ request'.headers = h /\ request'.model = model
  BY DEF Serve
<1>1. StartInv'
  BY <1>0, StartKept DEF GatewayInv
<1>2. model \in Text /\ config \in ConfigType /\ listing \subseteq Text
  BY GatewayAssumption DEF GatewayInv, ListInv, StartInv
<1>3. IdleInv'
  BY <1>0 DEF IdleInv
<1>4. CASE answer'.handler = "none" /\ url' = <<>> /\ UNCHANGED <<listing, names>>
  BY <1>1, <1>2, <1>3, <1>4 DEF GatewayInv, AuthInv, ListInv, UrlInv
<1>5. ASSUME require_auth(h), NEW e, Handle(e, model)
      PROVE  AuthInv' /\ ListInv' /\ UrlInv'
  <2>1. AuthInv'
    <3>1. require_auth(h)'
      BY <1>0, <1>5 DEF require_auth
    <3>2. h \in HeaderType
      BY GatewayAssumption DEF HeaderType
    <3>3. require_auth(request.headers)' <=> require_auth(h)'
      BY <1>0 DEF require_auth
    <3> QED BY <1>0, <1>2, <3>1, <3>2, <3>3 DEF AuthInv
  <2>2. CASE Converse(e, model)
    <3> DEFINE name == resolve(config.prefixes, model)
    <3>1. name \in Text
      BY <1>2, ResolveType DEF ConfigType
    <3> HIDE DEF name
    <3>2. /\ UNCHANGED listing
          /\ \/ url' = <<>>
             \/ url' = resource_path(name) /\ validate_model_segment(name)
      BY <2>2 DEF Converse, name
    <3>3. UrlInv'
      BY <3>1, <3>2, ResourceInside DEF UrlInv
    <3> QED BY <1>2, <2>1, <3>2, <3>3 DEF ListInv
  <2>3. CASE ListModels(e)
    <3>1. PICK u \in Upstreams : UNCHANGED listing \/ (u.models # None /\ listing' = parse_models(u.models[1]))
      BY <2>3 DEF ListModels
    <3>2. url' = <<>>
      BY <2>3 DEF ListModels
    <3>3. u.models # None => u.models[1] \in Seq(Optional)
      BY GatewayAssumption DEF None
    <3>4. listing' \subseteq Text
      BY <1>2, <3>1, <3>3, ParseType
    <3> QED BY <2>1, <3>2, <3>4 DEF ListInv, UrlInv
  <2>4. CASE CountTokens(e)
    BY <1>2, <2>1, <2>4 DEF CountTokens, ListInv, UrlInv
  <2> QED BY <1>5, <2>2, <2>3, <2>4 DEF Handle
<1> DEFINE hit == {e \in DOMAIN mounted : e.method = method /\ e.path = path}
<1>6. \/ answer'.handler = "none" /\ url' = <<>> /\ UNCHANGED <<listing, names>>
      \/ require_auth(h) /\ \E e \in hit : Handle(e, model)
  BY DEF Serve, Respond
<1> HIDE DEF hit
<1>7. CASE require_auth(h) /\ \E e \in hit : Handle(e, model)
  BY <1>1, <1>3, <1>5, <1>7 DEF GatewayInv
<1> QED BY <1>4, <1>6, <1>7

\* The invariant holds initially and is kept by every step.
THEOREM GatewayInvariant == Spec => []GatewayInv
<1>1. Init => GatewayInv
  <2> SUFFICES ASSUME Init PROVE GatewayInv
    OBVIOUS
  <2>1. StartInv
    BY GatewayAssumption DEF Init, StartInv
  <2>2. answer = NoAnswer /\ answer.handler = "none" /\ listing = {} /\ url = <<>>
    BY DEF Init, NoAnswer
  <2> QED BY <2>1, <2>2 DEF GatewayInv, AuthInv, ListInv, IdleInv, UrlInv
<1>2. GatewayInv /\ [Next]_vars => GatewayInv'
  <2> SUFFICES ASSUME GatewayInv, [Next]_vars PROVE GatewayInv'
    OBVIOUS
  <2>1. CASE Load \/ BuildState \/ CheckProtocols \/ MountRoutes
    <3>1. StartInv'
      BY <2>1, StartSteps DEF GatewayInv
    <3>2. answer = NoAnswer /\ answer' = NoAnswer /\ url' = url /\ listing' = listing
      BY <2>1 DEF Load, BuildState, CheckProtocols, MountRoutes, Idle, GatewayInv, IdleInv
    <3> QED BY <3>1, <3>2 DEF GatewayInv, AuthInv, ListInv, IdleInv, UrlInv, NoAnswer
  <2>2. CASE \E method \in {"GET", "POST"}, path \in Paths, h \in Headers,
                model \in ModelNames \cup listing : Serve(method, path, h, model)
    BY <2>2, ServeStep
  <2>3. CASE Sent
    <3>1. UNCHANGED <<phase, source, config, mounted>> /\ answer' = NoAnswer /\ url' = <<>>
          /\ listing' = listing
      BY <2>3 DEF Sent
    <3>2. StartInv'
      BY <3>1, StartKept DEF GatewayInv
    <3> QED BY <3>1, <3>2 DEF GatewayInv, AuthInv, ListInv, IdleInv, UrlInv, NoAnswer
  <2>4. CASE UNCHANGED vars
    <3>1. StartInv'
      BY <2>4, StartKept DEF GatewayInv, vars
    <3>2. AuthInv'
      BY <2>4 DEF GatewayInv, AuthInv, require_auth, vars
    <3> QED BY <2>4, <3>1, <3>2 DEF GatewayInv, ListInv, IdleInv, UrlInv, vars
  <2> QED BY <2>1, <2>2, <2>3, <2>4 DEF Next, Refused
<1> QED BY <1>1, <1>2, PTL DEF Spec

-------------------------------------------------------------------------------
(* The theorems. *)

\* The first claim of an endpoint is a claim, and the first.
LEMMA OwnerFirst ==
    ASSUME config \in ConfigType, NEW n \in DOMAIN config.protocols,
           NEW e \in endpoints(config.protocols[n])
    PROVE  /\ e \in Offered
           /\ n \in Claims(e)
           /\ \E m \in 1 .. n : /\ Owner(e) = config.protocols[m]
                                /\ \A l \in 1 .. m - 1 : e \notin endpoints(config.protocols[l])
<1>1. config.protocols \in Seq(STRING)
  BY DEF ConfigType
<1>2. Len(config.protocols) \in Nat /\ DOMAIN config.protocols = 1 .. Len(config.protocols)
  BY <1>1
<1>3. n \in Claims(e)
  BY DEF Claims
<1>4. e \in Offered
  BY DEF Offered, ToSet
<1>5. Claims(e) \in SUBSET (1 .. Len(config.protocols)) /\ Claims(e) # {}
  BY <1>2, <1>3 DEF Claims
<1>6. Min(Claims(e)) \in Claims(e) /\ \A j \in Claims(e) : Min(Claims(e)) <= j
  BY <1>2, <1>5, MinFirst
<1> DEFINE m == Min(Claims(e))
<1> HIDE DEF m
<1>7. m \in 1 .. Len(config.protocols) /\ m <= n /\ n \in 1 .. Len(config.protocols)
  BY <1>2, <1>3, <1>5, <1>6 DEF m
<1>8. ASSUME NEW l \in 1 .. m - 1 PROVE e \notin endpoints(config.protocols[l])
  <2>1. l \in DOMAIN config.protocols /\ ~(m <= l)
    BY <1>2, <1>7
  <2>2. l \notin Claims(e)
    BY <1>6, <2>1 DEF m
  <2> QED BY <2>1, <2>2 DEF Claims
<1>9. m \in 1 .. n /\ Owner(e) = config.protocols[m]
  BY <1>2, <1>7 DEF Owner, m
<1> QED BY <1>3, <1>4, <1>8, <1>9

\* What was configured is what is served (ServesAsConfigured), for every
\* configuration: a start that any of validate, AppState::new, the registry
\* check or the route table refuses never serves.
THEOREM GatewayServes == Spec => []ServesAsConfigured
<1>1. GatewayInv => ServesAsConfigured
  <2> SUFFICES ASSUME StartInv, phase = "serve" PROVE ServesAsConfigured
    BY DEF GatewayInv, ServesAsConfigured, StartupChecked, OpenOnlyOnPurpose,
           AnsweredInItsProtocol
  <2>1. StartupChecked /\ OpenOnlyOnPurpose
    BY DEF StartInv, StartupChecked, OpenOnlyOnPurpose
  <2>2. ASSUME NEW n \in DOMAIN config.protocols, NEW e \in endpoints(config.protocols[n])
        PROVE  /\ e \in DOMAIN mounted
               /\ e.kind # "Models" => mounted[e] = config.protocols[n]
               /\ e.kind = "Models" =>
                    \E m \in 1 .. n :
                      /\ config.protocols[m] = mounted[e]
                      /\ \A l \in 1 .. m - 1 : e \notin endpoints(config.protocols[l])
    <3>1. config \in ConfigType /\ mounted = [x \in Offered |-> Owner(x)]
          /\ \A x \in Offered : ~Conflict(x)
      BY DEF StartInv
    <3>2. /\ e \in Offered /\ n \in Claims(e)
          /\ \E m \in 1 .. n : /\ Owner(e) = config.protocols[m]
                               /\ \A l \in 1 .. m - 1 : e \notin endpoints(config.protocols[l])
      BY <3>1, OwnerFirst
    <3>3. e \in DOMAIN mounted /\ mounted[e] = Owner(e)
      BY <3>1, <3>2
    <3>4. e.kind # "Models" => config.protocols[n] = Owner(e)
      BY <3>1, <3>2 DEF Conflict
    <3> QED BY <3>2, <3>3, <3>4
  <2>3. AnsweredInItsProtocol
    BY <2>2 DEF AnsweredInItsProtocol
  <2> QED BY <2>1, <2>3 DEF ServesAsConfigured
<1> QED BY <1>1, GatewayInvariant, PTL

\* The keys that open the gateway are exactly the configured ones (KeysExact),
\* for every set of keys that validate lets through and whatever the headers.
THEOREM GatewayKeysExact == Spec => []KeysExact
<1>1. GatewayInv => KeysExact
  <2> SUFFICES ASSUME GatewayInv PROVE KeysWork /\ OnlyKeyholders
    BY DEF KeysExact
  <2>0. config \in ConfigType /\ (phase = "serve" => validate(config))
    BY DEF GatewayInv, StartInv
  <2>1. KeysWork
    <3> SUFFICES ASSUME phase = "serve", NEW k \in ToSet(config.keys)
                 PROVE  /\ require_auth([authorization |-> <<<<"Bearer", "blank">> \o k>>,
                                         api_key |-> None, x_api_key |-> None])
                        /\ require_auth([authorization |-> None, api_key |-> <<k>>,
                                         x_api_key |-> None])
                        /\ require_auth([authorization |-> None, api_key |-> None,
                                         x_api_key |-> <<k>>])
      BY DEF KeysWork
    <3>1. Trim(k) # <<>> /\ Visible(k) /\ Trim(k) = k
      BY <2>0 DEF validate
    <3>2. k \in Text /\ k # <<>>
      BY <2>0, <3>1 DEF ConfigType, ToSet
    <3> QED BY <2>0, <3>1, <3>2, KeyPresented, KeyOpens
  <2>2. OnlyKeyholders
    BY <2>0, OpensByKey DEF OnlyKeyholders, GatewayInv, AuthInv
  <2> QED BY <2>1, <2>2
<1> QED BY <1>1, GatewayInvariant, PTL

\* The URL the upstream is asked for stays inside (UrlStaysInside), whatever
\* the client asks for and the configuration makes of it.
THEOREM GatewayUrlsInside == Spec => []UrlStaysInside
<1>1. GatewayInv => UrlStaysInside
  BY InsideStays DEF GatewayInv, UrlInv
<1> QED BY <1>1, GatewayInvariant, PTL

\* An upstream that names its models as Gemini does: every name is the
\* resource of a name that is valid and does not repeat the prefix models/.
WellNamed ==
    \A u \in Upstreams : \A i \in DOMAIN u.models : \A m \in ToSet(u.models[i]) :
      m # None =>
        \E x \in {SubSeq(m[1], j, Len(m[1])) : j \in 1 .. Len(m[1])} :
          /\ validate_model_segment(x)
          /\ ~IsPrefix(<<"models", "/">>, x)
          /\ m[1] = resource_path(x)

\* The listing a client was shown leads back to what the upstream listed.
ReachInv ==
    /\ phase # "serve" => listing = {}
    /\ config.upstream = "gemini" =>
         \A id \in listing : validate_model_segment(id) /\ resource_path(id) \in names

\* The id shown for the resource of such a name is the name itself.
LEMMA IdOfResource ==
    ASSUME NEW x \in Text, validate_model_segment(x), ~IsPrefix(<<"models", "/">>, x),
           NEW n, n = resource_path(x)
    PROVE  x = IF IsPrefix(<<"models", "/">>, n) THEN SubSeq(n, 3, Len(n)) ELSE n
<1> DEFINE b == <<"models", "/">>
<1>1. CASE \E p \in {<<"models", "/">>, <<"tunedModels", "/">>} : IsPrefix(p, x)
  BY <1>1 DEF resource_path
<1>2. CASE ~\E p \in {<<"models", "/">>, <<"tunedModels", "/">>} : IsPrefix(p, x)
  <2>1. n = b \o x
    BY <1>2 DEF resource_path
  <2>2. b \in Text /\ Len(b) = 2
    BY ModelsPrefix
  <2> HIDE DEF b
  <2>3. /\ n \in Text /\ Len(n) = Len(b) + Len(x)
        /\ \A i \in 1 .. Len(b) + Len(x) : n[i] = IF i <= Len(b) THEN b[i] ELSE x[i - Len(b)]
    <3>1. b \in Seq(STRING) /\ x \in Seq(STRING)
      BY <2>2 DEF Text
    <3>2. /\ b \o x \in Seq(STRING) /\ Len(b \o x) = Len(b) + Len(x)
          /\ \A i \in 1 .. Len(b) + Len(x) :
               (b \o x)[i] = IF i <= Len(b) THEN b[i] ELSE x[i - Len(b)]
      BY <3>1, ConcatProperties
    <3> QED BY <2>1, <3>2 DEF Text
  <2>4. Len(x) \in Nat /\ Len(n) = Len(x) + 2
    BY <2>2, <2>3, TextFacts
  <2>5. /\ 1 \in 1 .. Len(n) + 1 /\ 2 \in 1 - 1 .. Len(n) /\ 3 \in 1 .. Len(n) + 1
        /\ Len(n) \in 3 - 1 .. Len(n) /\ 1 \in 1 .. Len(b) + 1 /\ 2 \in 1 - 1 .. Len(b)
    BY <2>2, <2>4
  <2>6. /\ SubSeq(n, 1, 2) \in Text /\ Len(SubSeq(n, 1, 2)) = 2 - 1 + 1
        /\ \A i \in 1 .. 2 - 1 + 1 : SubSeq(n, 1, 2)[i] = n[1 + i - 1]
    BY <2>3, <2>5, PartFacts
  <2>7. /\ SubSeq(b, 1, 2) \in Text /\ Len(SubSeq(b, 1, 2)) = 2 - 1 + 1
        /\ \A i \in 1 .. 2 - 1 + 1 : SubSeq(b, 1, 2)[i] = b[1 + i - 1]
    BY <2>2, <2>5, PartFacts
  <2>8. /\ SubSeq(n, 3, Len(n)) \in Text /\ Len(SubSeq(n, 3, Len(n))) = Len(n) - 3 + 1
        /\ \A i \in 1 .. Len(n) - 3 + 1 : SubSeq(n, 3, Len(n))[i] = n[3 + i - 1]
    BY <2>3, <2>5, PartFacts
  <2>9. SubSeq(b, 1, 2) = SubSeq(n, 1, 2)
    <3> DEFINE y == SubSeq(b, 1, 2)
               z == SubSeq(n, 1, 2)
    <3>1. y \in Seq(STRING) /\ z \in Seq(STRING) /\ Len(y) = Len(z) /\ Len(y) = 2
      BY <2>6, <2>7 DEF Text
    <3>2. ASSUME NEW i \in 1 .. 2 PROVE y[i] = z[i]
      <4>1. i \in 1 .. 2 - 1 + 1 /\ 1 + i - 1 = i /\ i \in 1 .. Len(b) + Len(x) /\ i <= Len(b)
        BY <2>2, <2>4
      <4>2. n[i] = b[i]
        BY <2>3, <4>1
      <4> QED BY <2>6, <2>7, <4>1, <4>2
    <3> HIDE DEF y, z
    <3>3. y = z
      BY <3>1, <3>2, SeqEqual
    <3> QED BY <3>3 DEF y, z
  <2>10. SubSeq(n, 3, Len(n)) = x
    <3> DEFINE y == SubSeq(n, 3, Len(n))
    <3>1. y \in Seq(STRING) /\ x \in Seq(STRING) /\ Len(y) = Len(x)
      BY <2>4, <2>8 DEF Text
    <3>2. ASSUME NEW i \in 1 .. Len(x) PROVE y[i] = x[i]
      <4>1. i \in 1 .. Len(n) - 3 + 1 /\ 3 + i - 1 = i + 2 /\ i + 2 \in 1 .. Len(b) + Len(x)
            /\ ~(i + 2 <= Len(b)) /\ (i + 2) - Len(b) = i
        BY <2>2, <2>4
      <4>2. n[i + 2] = x[i]
        BY <2>3, <4>1
      <4> QED BY <2>8, <4>1, <4>2
    <3> HIDE DEF y
    <3>3. y = x
      BY <3>1, <3>2, SeqEqual
    <3> QED BY <3>3 DEF y
  <2>11. IsPrefix(b, n)
    <3>1. Len(b) <= Len(n)
      BY <2>2, <2>4
    <3> QED BY <2>2, <2>9, <3>1 DEF IsPrefix
  <2> QED BY <2>10, <2>11 DEF b
<1> QED BY <1>1, <1>2

\* Every id of a listing of such an upstream leads back to what it listed.
LEMMA ParseReaches ==
    ASSUME WellNamed, config.upstream = "gemini",
           NEW u \in Upstreams, u.models # None, NEW id \in parse_models(u.models[1])
    PROVE  /\ validate_model_segment(id)
           /\ resource_path(id) \in UNION {ToSet(m) : m \in ToSet(u.models[1])}
<1>1. u.models[1] \in Seq(Optional) /\ 1 \in DOMAIN u.models
  BY GatewayAssumption DEF None
<1>2. PICK m \in ToSet(u.models[1]) :
        /\ m # None
        /\ id = IF IsPrefix(<<"models", "/">>, m[1]) THEN SubSeq(m[1], 3, Len(m[1])) ELSE m[1]
  BY DEF parse_models
<1>3. m \in Optional
  BY <1>1 DEF ToSet
<1>4. m[1] \in Text /\ m[1] \in ToSet(m)
  <2>1. m[1] \in Text
    BY <1>2, <1>3, EntryText
  <2>2. 1 \in DOMAIN m
    BY <1>2, <1>3 DEF Optional, None
  <2> QED BY <2>1, <2>2 DEF ToSet
<1>5. PICK j \in 1 .. Len(m[1]) :
        LET x == SubSeq(m[1], j, Len(m[1]))
        IN  /\ validate_model_segment(x)
            /\ ~IsPrefix(<<"models", "/">>, x)
            /\ m[1] = resource_path(x)
  BY <1>1, <1>2 DEF WellNamed
<1> DEFINE x == SubSeq(m[1], j, Len(m[1]))
<1>6. x \in Text
  <2>1. Len(m[1]) \in Nat
    BY <1>4, TextFacts
  <2>2. j \in 1 .. Len(m[1]) + 1 /\ Len(m[1]) \in j - 1 .. Len(m[1])
    BY <2>1
  <2> QED BY <1>4, <2>2, PartFacts
<1>7. validate_model_segment(x) /\ ~IsPrefix(<<"models", "/">>, x) /\ m[1] = resource_path(x)
  BY <1>5
<1> HIDE DEF x
<1>8. id = x
  BY <1>2, <1>6, <1>7, IdOfResource
<1>9. resource_path(id) \in ToSet(m)
  BY <1>4, <1>7, <1>8
<1> QED BY <1>2, <1>7, <1>8, <1>9

\* Every order of the prefixes has the same prefixes.
LEMMA OrderSet ==
    ASSUME NEW prefixes \in Seq(Text), NEW order \in SetToSeqs(ToSet(prefixes))
    PROVE  order \in Seq(Text) /\ ToSet(order) = ToSet(prefixes)
<1> DEFINE S == ToSet(prefixes)
           D == 1 .. Cardinality(S)
<1>1. IsFiniteSet(S)
  <2>1. Len(prefixes) \in Nat /\ DOMAIN prefixes = 1 .. Len(prefixes)
    OBVIOUS
  <2>2. IsFiniteSet(1 .. Len(prefixes))
    BY <2>1, FS_Interval, 1 \in Int
  <2>3. prefixes \in Surjection(1 .. Len(prefixes), S)
    BY <2>1 DEF Surjection, ToSet
  <2> QED BY <2>2, <2>3, FS_Surjection
<1>2. Cardinality(S) \in Nat
  BY <1>1, FS_CardinalityType
<1>3. Cardinality(D) = Cardinality(S)
  <2> DEFINE c == Cardinality(S)
  <2>1. c \in Int
    BY <1>2
  <2> HIDE DEF c
  <2>2. Cardinality(1 .. c) = IF 1 > c THEN 0 ELSE c - 1 + 1
    BY <2>1, FS_Interval, 1 \in Int
  <2> QED BY <1>2, <2>2 DEF c
<1>4. order \in [D -> S] /\ \A i, j \in D : i # j => order[i] # order[j]
  BY DEF SetToSeqs
<1> HIDE DEF S, D
<1>5. order \in Injection(D, S)
  BY <1>4 DEF Injection, IsInjective
<1>6. order \in Surjection(D, S)
  BY <1>1, <1>3, <1>5, FS_Injection
<1>7. ToSet(order) = S
  BY <1>4, <1>6 DEF Surjection, ToSet
<1>8. order \in Seq(Text)
  <2>1. S \subseteq Text
    BY DEF S, ToSet
  <2> QED BY <1>2, <1>4, <2>1 DEF D
<1> QED BY <1>7, <1>8 DEF S

\* Names lead where they should (NamesResolve): whatever the order of the
\* prefixes, and from a listing of an upstream that names its models as Gemini
\* does back to what was listed.
THEOREM GatewayNamesResolve ==
    ASSUME WellNamed
    PROVE  Spec => []NamesResolve
<1>1. Init => ReachInv
  BY DEF Init, ReachInv
<1>2. GatewayInv /\ ReachInv /\ [Next]_vars => ReachInv'
  <2> SUFFICES ASSUME GatewayInv, ReachInv, [Next]_vars PROVE ReachInv'
    OBVIOUS
  <2>1. CASE Load \/ BuildState \/ CheckProtocols \/ MountRoutes
    <3>1. phase # "serve" /\ listing' = listing
      BY <2>1 DEF Load, BuildState, CheckProtocols, MountRoutes, Idle
    <3> QED BY <3>1 DEF ReachInv
  <2>2. ASSUME NEW method \in {"GET", "POST"}, NEW path \in Paths, NEW h \in Headers,
               NEW model \in ModelNames \cup listing, Serve(method, path, h, model)
        PROVE  ReachInv'
    <3>1. config' = config /\ phase' = "serve"
      BY <2>2 DEF Serve
    <3>2. \/ UNCHANGED <<listing, names>>
          \/ \E u \in Upstreams : /\ u.models # None
                                  /\ listing' = parse_models(u.models[1])
                                  /\ names' = UNION {ToSet(m) : m \in ToSet(u.models[1])}
      BY <2>2 DEF Serve, Handle, Converse, ListModels, CountTokens
    <3>3. CASE UNCHANGED <<listing, names>>
      BY <3>1, <3>3 DEF ReachInv
    <3>4. ASSUME NEW u \in Upstreams, u.models # None, listing' = parse_models(u.models[1]),
                 names' = UNION {ToSet(m) : m \in ToSet(u.models[1])}
          PROVE  ReachInv'
      BY <3>1, <3>4, ParseReaches DEF ReachInv
    <3> QED BY <3>2, <3>3, <3>4
  <2>3. CASE Sent
    BY <2>3 DEF Sent, ReachInv
  <2>4. CASE UNCHANGED vars
    BY <2>4 DEF vars, ReachInv
  <2> QED BY <2>1, <2>2, <2>3, <2>4 DEF Next, Refused
<1>3. GatewayInv /\ ReachInv => NamesResolve
  <2> SUFFICES ASSUME GatewayInv, ReachInv PROVE NamesResolve
    OBVIOUS
  <2>1. ASSUME answer.handler = "conversation", NEW order \in SetToSeqs(ToSet(config.prefixes))
        PROVE  resolve(order, request.model) = resolve(config.prefixes, request.model)
    <3>1. config.prefixes \in Seq(Text)
      BY DEF GatewayInv, StartInv, ConfigType
    <3>2. order \in Seq(Text) /\ ToSet(order) = ToSet(config.prefixes)
      BY <3>1, OrderSet
    <3>3. request.model \in Text
      BY <2>1 DEF GatewayInv, AuthInv
    <3>4. strip_prefix(order, request.model) = strip_prefix(config.prefixes, request.model)
      BY <3>1, <3>2, <3>3, StripOrder
    <3> QED BY <3>4 DEF resolve
  <2>2. PrefixOrderIrrelevant
    BY <2>1 DEF PrefixOrderIrrelevant
  <2>3. ListedModelsReachable
    BY DEF ReachInv, ListedModelsReachable
  <2> QED BY <2>2, <2>3 DEF NamesResolve
<1> QED BY <1>1, <1>2, <1>3, GatewayInvariant, PTL DEF Spec
==============================================================================
