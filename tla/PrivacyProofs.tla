---------------------------- MODULE PrivacyProofs ----------------------------
(***************************************************************************)
(* What holds of the two halves of core/privacy.rs for every list of rules *)
(* that RedactionEngine::new accepts, all texts and any number of blocks:  *)
(* of the session that redacts a request (Redaction) and of the channel    *)
(* that restores its streamed answer (RestoreStream).                      *)
(***************************************************************************)
EXTENDS Redaction, RestoreStream, FiniteRecursion, SequenceTheorems, FiniteSetTheorems, TLAPS

-------------------------------------------------------------------------------
(* Texts. *)

\* The characters and bytes of a text.  They are strings; those that the code writes
\* itself are listed because to the provers a literal is not a member of STRING.
Byte == STRING \cup {"<", ">", Backslash} \cup {Digit[n] : n \in 1 .. 10}

Text == Seq(Byte)

LEMMA StringText == Seq(STRING) \subseteq Text
BY DEF Text, Byte

\* A text with the shape of a token.
Shaped(t) ==
    /\ t \in Text /\ Len(t) >= 2
    /\ \A n \in 1 .. Len(t) : (t[n] = "<" <=> n = 1) /\ (t[n] = ">" <=> n = Len(t))

\* w stands at position n of s, character by character.
LEMMA OccursChars ==
    ASSUME NEW s \in Text, NEW w \in Text, NEW n \in Nat \ {0}
    PROVE  OccursAt(s, n, w) <=>
             /\ n + Len(w) - 1 <= Len(s)
             /\ \A i \in 1 .. Len(w) : s[n + i - 1] = w[i]
<1> DEFINE m == n + Len(w) - 1
           x == SubSeq(s, n, m)
<1> SUFFICES ASSUME m <= Len(s) PROVE x = w <=> \A i \in 1 .. Len(w) : s[n + i - 1] = w[i]
  BY DEF OccursAt
<1>1. Len(w) \in Nat /\ Len(s) \in Nat BY LenProperties DEF Text
<1>2. \A i \in n .. m : s[i] \in Byte BY <1>1 DEF Text
<1>3. /\ x \in Seq(Byte) /\ Len(x) = IF n <= m THEN m - n + 1 ELSE 0
      /\ \A i \in 1 .. m - n + 1 : x[i] = s[n + i - 1]
  BY <1>1, <1>2, SubSeqProperties
<1>4. Len(x) = Len(w) /\ m - n + 1 = Len(w) BY <1>1, <1>3
<1> HIDE DEF x, m
<1>5. ASSUME \A i \in 1 .. Len(w) : s[n + i - 1] = w[i] PROVE x = w
  BY <1>3, <1>4, <1>5, SeqEqual DEF Text
<1> QED BY <1>3, <1>4, <1>5

\* A part of a text.
LEMMA Part ==
    ASSUME NEW s \in Text, NEW m \in Nat \ {0}, NEW n \in Nat, n <= Len(s)
    PROVE  /\ SubSeq(s, m, n) \in Text
           /\ Len(SubSeq(s, m, n)) = IF m <= n THEN n - m + 1 ELSE 0
           /\ m <= n + 1 => Len(SubSeq(s, m, n)) = n - m + 1
           /\ m > n => SubSeq(s, m, n) = <<>>
           /\ \A i \in 1 .. n - m + 1 : SubSeq(s, m, n)[i] = s[m + i - 1]
<1> DEFINE x == SubSeq(s, m, n)
<1>1. \A i \in m .. n : s[i] \in Byte BY DEF Text
<1>2. /\ x \in Text
      /\ Len(x) = IF m <= n THEN n - m + 1 ELSE 0
      /\ \A i \in 1 .. n - m + 1 : x[i] = s[m + i - 1]
  BY <1>1, SubSeqProperties DEF Text
<1> HIDE DEF x
<1>3. m <= n + 1 => Len(x) = n - m + 1 BY <1>2
<1>4. m > n => x = <<>> BY <1>2, EmptySeq DEF Text
<1> QED BY <1>2, <1>3, <1>4 DEF x

\* The empty text, texts of one character, and joining three.
LEMMA Small ==
    /\ <<>> \in Text /\ Len(<<>>) = 0
    /\ \A s \in Text : /\ Len(s) \in Nat /\ <<>> \o s = s /\ s \o <<>> = s
                       /\ Len(s) = 0 => s = <<>>
                       /\ \A n \in 1 .. Len(s) : <<s[n]>> \in Text /\ s[n] \in Byte
    /\ \A c \in Byte : <<c>> \in Text /\ Len(<<c>>) = 1 /\ <<c>>[1] = c
<1>1. <<>> \in Text /\ Len(<<>>) = 0 BY DEF Text
<1>2. ASSUME NEW c \in Byte PROVE <<c>> \in Text /\ Len(<<c>>) = 1 /\ <<c>>[1] = c BY DEF Text
<1>3. ASSUME NEW s \in Text
      PROVE  Len(s) \in Nat /\ <<>> \o s = s /\ s \o <<>> = s /\ (Len(s) = 0 => s = <<>>)
  BY ConcatEmptySeq, EmptySeq, LenProperties DEF Text
<1>4. ASSUME NEW s \in Text, NEW n \in 1 .. Len(s) PROVE s[n] \in Byte BY DEF Text
<1> QED BY <1>1, <1>2, <1>3, <1>4

LEMMA JoinThree ==
    ASSUME NEW a \in Text, NEW b \in Text, NEW c \in Text
    PROVE  (a \o b) \o c = a \o (b \o c)
BY ConcatAssociative DEF Text

\* The same for three given texts.
Assoc(a, b, c) == (a \o b) \o c = a \o (b \o c)

LEMMA Associates ==
    ASSUME NEW a, NEW b, NEW c, a \in Text, b \in Text, c \in Text
    PROVE  Assoc(a, b, c)
BY JoinThree DEF Assoc

\* Two texts one after the other.
LEMMA Joined ==
    ASSUME NEW a \in Text, NEW b \in Text
    PROVE  /\ a \o b \in Text /\ Len(a \o b) = Len(a) + Len(b)
           /\ \A i \in 1 .. Len(a) : (a \o b)[i] = a[i]
           /\ \A i \in 1 .. Len(b) : (a \o b)[Len(a) + i] = b[i]
           /\ SubSeq(a \o b, 1, Len(a)) = a
           /\ SubSeq(a \o b, Len(a) + 1, Len(a \o b)) = b
<1> DEFINE s == a \o b
<1>0. Len(a) \in Nat /\ Len(b) \in Nat BY DEF Text
<1>1. /\ s \in Text /\ Len(s) = Len(a) + Len(b)
      /\ \A i \in 1 .. Len(a) + Len(b) : s[i] = IF i <= Len(a) THEN a[i] ELSE b[i - Len(a)]
  BY ConcatProperties DEF Text
<1> HIDE DEF s
<1>2. \A i \in 1 .. Len(a) : s[i] = a[i] BY <1>0, <1>1
<1>3. ASSUME NEW i \in 1 .. Len(b) PROVE s[Len(a) + i] = b[i] BY <1>0, <1>1
<1>4. SubSeq(s, 1, Len(a)) = a
  <2> DEFINE x == SubSeq(s, 1, Len(a))
  <2>1. x \in Text /\ Len(x) = Len(a) /\ \A i \in 1 .. Len(a) : x[i] = s[i]
    <3>1. /\ x \in Text /\ Len(x) = IF 1 <= Len(a) THEN Len(a) - 1 + 1 ELSE 0
          /\ \A i \in 1 .. Len(a) - 1 + 1 : x[i] = s[1 + i - 1]
      BY <1>0, <1>1, Part
    <3> HIDE DEF x
    <3> QED BY <1>0, <3>1
  <2> HIDE DEF x
  <2> QED BY <1>2, <2>1, SeqEqual DEF Text
<1>5. SubSeq(s, Len(a) + 1, Len(s)) = b
  <2> DEFINE x == SubSeq(s, Len(a) + 1, Len(s))
             m == Len(a) + 1
  <2>0. /\ x \in Text /\ Len(x) = IF m <= Len(s) THEN Len(s) - m + 1 ELSE 0
        /\ \A i \in 1 .. Len(s) - m + 1 : x[i] = s[m + i - 1]
    BY <1>0, <1>1, Part
  <2> HIDE DEF x
  <2>1. x \in Text /\ Len(x) = Len(b) /\ \A i \in 1 .. Len(b) : x[i] = s[Len(a) + i]
    BY <1>0, <1>1, <2>0
  <2>2. x = b BY <1>3, <2>1, SeqEqual DEF Text
  <2> QED BY <2>2 DEF x
<1> QED BY <1>1, <1>2, <1>3, <1>4, <1>5 DEF s

\* A text cut at d.
LEMMA Cut ==
    ASSUME NEW s \in Text, NEW d \in 0 .. Len(s)
    PROVE  /\ SubSeq(s, 1, d) \in Text /\ Len(SubSeq(s, 1, d)) = d
           /\ SubSeq(s, d + 1, Len(s)) \in Text /\ Len(SubSeq(s, d + 1, Len(s))) = Len(s) - d
           /\ SubSeq(s, 1, d) \o SubSeq(s, d + 1, Len(s)) = s
<1>0. Len(s) \in Nat BY DEF Text
<1>1. SubSeq(s, 1, d) \in Text /\ Len(SubSeq(s, 1, d)) = d
  <2>1. 1 <= d + 1 /\ d - 1 + 1 = d /\ d \in Nat /\ d <= Len(s) /\ 1 \in Nat \ {0} BY <1>0
  <2> QED BY <2>1, Part
<1>2. SubSeq(s, d + 1, Len(s)) \in Text /\ Len(SubSeq(s, d + 1, Len(s))) = Len(s) - d
  <2>1. /\ d + 1 <= Len(s) + 1 /\ Len(s) - (d + 1) + 1 = Len(s) - d
        /\ Len(s) \in Nat /\ Len(s) <= Len(s) /\ d + 1 \in Nat \ {0} BY <1>0
  <2> QED BY <2>1, Part
<1>3. SubSeq(s, 1, d) \o SubSeq(s, d + 1, Len(s)) = SubSeq(s, 1, Len(s))
  <2>1. s \in Seq(Byte) /\ 1 \in 1 .. Len(s) + 1 /\ d \in 1 - 1 .. Len(s) /\ Len(s) \in d .. Len(s)
    BY <1>0 DEF Text
  <2> QED BY <2>1, ConcatAdjacentSubSeq
<1>4. SubSeq(s, 1, Len(s)) = s BY SubSeqFull DEF Text
<1> QED BY <1>1, <1>2, <1>3, <1>4

\* An occurrence in the first or in the second of two texts is one in both.
LEMMA OccursJoined ==
    ASSUME NEW a \in Text, NEW b \in Text, NEW w \in Text, NEW n \in Nat \ {0}
    PROVE  /\ n + Len(w) - 1 <= Len(a) => (OccursAt(a \o b, n, w) <=> OccursAt(a, n, w))
           /\ OccursAt(a \o b, Len(a) + n, w) <=> OccursAt(b, n, w)
<1> DEFINE s == a \o b
<1>0. Len(a) \in Nat /\ Len(b) \in Nat /\ Len(w) \in Nat BY DEF Text
<1>1. /\ s \in Text /\ Len(s) = Len(a) + Len(b)
      /\ \A i \in 1 .. Len(a) : s[i] = a[i]
      /\ \A i \in 1 .. Len(b) : s[Len(a) + i] = b[i]
  BY Joined
<1> HIDE DEF s
<1>2. ASSUME n + Len(w) - 1 <= Len(a) PROVE OccursAt(s, n, w) <=> OccursAt(a, n, w)
  <2>1. \A i \in 1 .. Len(w) : s[n + i - 1] = a[n + i - 1]
    <3> TAKE i \in 1 .. Len(w)
    <3>1. n + i - 1 \in 1 .. Len(a) BY <1>0, <1>2
    <3> QED BY <1>1, <3>1
  <2>2. n + Len(w) - 1 <= Len(s) BY <1>0, <1>1, <1>2
  <2>3. OccursAt(s, n, w) <=> \A i \in 1 .. Len(w) : s[n + i - 1] = w[i] BY <1>1, <2>2, OccursChars
  <2>4. OccursAt(a, n, w) <=> \A i \in 1 .. Len(w) : a[n + i - 1] = w[i] BY <1>2, OccursChars
  <2> QED BY <2>1, <2>3, <2>4
<1>3. OccursAt(s, Len(a) + n, w) <=> OccursAt(b, n, w)
  <2>1. CASE n + Len(w) - 1 <= Len(b)
    <3>1. \A i \in 1 .. Len(w) : s[(Len(a) + n) + i - 1] = b[n + i - 1]
      <4> TAKE i \in 1 .. Len(w)
      <4>1. n + i - 1 \in 1 .. Len(b) /\ (Len(a) + n) + i - 1 = Len(a) + (n + i - 1) BY <1>0, <2>1
      <4> QED BY <1>1, <4>1
    <3>2. Len(a) + n \in Nat \ {0} BY <1>0
    <3>3. Len(a) + n + Len(w) - 1 <= Len(s) BY <1>0, <1>1, <2>1
    <3> DEFINE m == Len(a) + n
    <3>4. \A i \in 1 .. Len(w) : s[m + i - 1] = b[n + i - 1] BY <3>1
    <3>5. m \in Nat \ {0} /\ m + Len(w) - 1 <= Len(s) BY <3>2, <3>3
    <3> HIDE DEF m
    <3>6. OccursAt(s, m, w) <=> \A i \in 1 .. Len(w) : s[m + i - 1] = w[i] BY <1>1, <3>5, OccursChars
    <3>7. OccursAt(b, n, w) <=> \A i \in 1 .. Len(w) : b[n + i - 1] = w[i] BY <2>1, OccursChars
    <3>8. OccursAt(s, m, w) <=> OccursAt(b, n, w) BY <3>4, <3>6, <3>7
    <3> QED BY <3>8 DEF m
  <2>2. CASE ~(n + Len(w) - 1 <= Len(b)) BY <1>0, <1>1, <2>2 DEF OccursAt
  <2> QED BY <2>1, <2>2
<1> QED BY <1>2, <1>3 DEF s

-------------------------------------------------------------------------------
(* Tokens in a text. *)

\* Tokens do not overlap: where one stands, every token that starts before its end
\* also ends by then, and only the same token starts with it.
LEMMA Fence ==
    ASSUME NEW s \in Text, NEW t, NEW u, Shaped(t), Shaped(u),
           NEW m \in Nat \ {0}, NEW n \in Nat \ {0}, OccursAt(s, m, t), OccursAt(s, n, u),
           n <= m + Len(t) - 1
    PROVE  /\ n + Len(u) - 1 <= m + Len(t) - 1
           /\ n < m => n + Len(u) - 1 < m
           /\ n >= m => n = m /\ u = t
<1>0. t \in Text /\ u \in Text /\ Len(t) \in Nat /\ Len(u) \in Nat /\ Len(t) >= 2 /\ Len(u) >= 2
  BY DEF Shaped, Text
<1>1. /\ m + Len(t) - 1 <= Len(s) /\ \A i \in 1 .. Len(t) : s[m + i - 1] = t[i]
      /\ n + Len(u) - 1 <= Len(s) /\ \A i \in 1 .. Len(u) : s[n + i - 1] = u[i]
  BY <1>0, OccursChars
<1>2. /\ t[1] = "<" /\ \A i \in 2 .. Len(t) : t[i] # "<"
      /\ t[Len(t)] = ">" /\ \A i \in 1 .. Len(t) - 1 : t[i] # ">"
      /\ u[1] = "<" /\ \A i \in 2 .. Len(u) : u[i] # "<"
      /\ u[Len(u)] = ">" /\ \A i \in 1 .. Len(u) - 1 : u[i] # ">"
  BY <1>0 DEF Shaped
<1>3. CASE n < m
  <2>1. ASSUME n + Len(u) - 1 >= m PROVE FALSE
    <3> DEFINE i == m - n + 1
    <3>1. i \in 2 .. Len(u) /\ n + i - 1 = m BY <1>0, <1>3, <2>1
    <3> HIDE DEF i
    <3>2. s[m] = u[i] BY <1>1, <3>1
    <3>3. s[m] = t[1] BY <1>0, <1>1
    <3> QED BY <1>2, <3>1, <3>2, <3>3
  <2> QED BY <1>0, <1>3, <2>1
<1>4. CASE n > m
  <2> DEFINE i == n - m + 1
  <2>1. i \in 2 .. Len(t) /\ m + i - 1 = n BY <1>0, <1>4
  <2> HIDE DEF i
  <2>2. s[n] = t[i]
    <3>1. i \in 1 .. Len(t) BY <1>0, <2>1
    <3> QED BY <1>1, <2>1, <3>1
  <2>3. s[n] = u[1]
    <3>1. 1 \in 1 .. Len(u) /\ n + 1 - 1 = n BY <1>0
    <3> QED BY <1>1, <3>1
  <2> QED BY <1>2, <2>1, <2>2, <2>3
<1>5. CASE n = m
  <2>1. ~(Len(u) < Len(t))
    <3> SUFFICES ASSUME Len(u) < Len(t) PROVE FALSE OBVIOUS
    <3>1. Len(u) \in 1 .. Len(t) - 1 /\ Len(u) \in 1 .. Len(u) BY <1>0
    <3>2. Len(u) \in 1 .. Len(t) BY <1>0, <3>1
    <3>3. s[n + Len(u) - 1] = u[Len(u)] BY <1>1, <3>1
    <3>4. s[m + Len(u) - 1] = t[Len(u)] BY <1>1, <3>2
    <3>5. t[Len(u)] = u[Len(u)] BY <1>5, <3>3, <3>4
    <3> QED BY <1>2, <3>1, <3>5
  <2>2. ~(Len(t) < Len(u))
    <3> SUFFICES ASSUME Len(t) < Len(u) PROVE FALSE OBVIOUS
    <3>1. Len(t) \in 1 .. Len(u) - 1 /\ Len(t) \in 1 .. Len(t) BY <1>0
    <3>2. Len(t) \in 1 .. Len(u) BY <1>0, <3>1
    <3>3. s[n + Len(t) - 1] = u[Len(t)] BY <1>1, <3>2
    <3>4. s[m + Len(t) - 1] = t[Len(t)] BY <1>1, <3>1
    <3>5. t[Len(t)] = u[Len(t)] BY <1>5, <3>3, <3>4
    <3> QED BY <1>2, <3>1, <3>5
  <2>3. Len(t) = Len(u) BY <1>0, <2>1, <2>2
  <2>4. \A i \in 1 .. Len(t) : t[i] = u[i] BY <1>1, <1>5, <2>3
  <2>5. t = u BY <1>0, <2>3, <2>4, SeqEqual DEF Text
  <2> QED BY <1>0, <1>5, <2>3, <2>5
<1> QED BY <1>0, <1>3, <1>4, <1>5

\* The tokens of T that stand at position n of s, and the one that is replaced.
TokensAt(s, n, T) == {t \in T : OccursAt(s, n, t)}

Standing(s, n, T) == CHOOSE t \in TokensAt(s, n, T) : TRUE

\* T is a set of tokens and orig has a text for each of them.
Stands(T, orig) == \A t \in T : Shaped(t) /\ orig[t] \in Text

\* What becomes of s from each of its positions on when every token of T is
\* replaced by its original.
ResolveFrom(s, T, orig) ==
    CHOOSE r : r = [n \in 1 .. Len(s) + 1 |->
      IF n > Len(s) THEN <<>>
      ELSE IF TokensAt(s, n, T) = {} THEN <<s[n]>> \o r[n + 1]
           ELSE orig[Standing(s, n, T)] \o r[n + Len(Standing(s, n, T))]]

Resolve(s, T, orig) == ResolveFrom(s, T, orig)[1]

LEMMA StandingOne ==
    ASSUME NEW s \in Text, NEW T, NEW orig, Stands(T, orig), NEW n \in 1 .. Len(s)
    PROVE  /\ TokensAt(s, n, T) # {} =>
                /\ Standing(s, n, T) \in T /\ OccursAt(s, n, Standing(s, n, T))
                /\ Len(Standing(s, n, T)) \in Nat /\ Len(Standing(s, n, T)) >= 2
                /\ n + Len(Standing(s, n, T)) \in n + 1 .. Len(s) + 1
           /\ \A t \in T : OccursAt(s, n, t) => Standing(s, n, T) = t
<1> DEFINE u == Standing(s, n, T)
<1>1. ASSUME TokensAt(s, n, T) # {} PROVE u \in T /\ OccursAt(s, n, u)
  BY <1>1 DEF TokensAt, Standing
<1> HIDE DEF u
<1>0. Len(s) \in Nat BY DEF Text
<1>2. ASSUME TokensAt(s, n, T) # {}
      PROVE  Len(u) \in Nat /\ Len(u) >= 2 /\ n + Len(u) \in n + 1 .. Len(s) + 1
  <2>1. u \in Text /\ Len(u) >= 2 BY <1>1, <1>2 DEF Stands, Shaped
  <2>2. Len(u) \in Nat BY <2>1 DEF Text
  <2>3. n + Len(u) - 1 <= Len(s) BY <1>1, <1>2 DEF OccursAt
  <2> QED BY <1>0, <2>1, <2>2, <2>3
<1>3. ASSUME NEW t \in T, OccursAt(s, n, t) PROVE u = t
  <2>1. TokensAt(s, n, T) # {} BY <1>3 DEF TokensAt
  <2>2. u \in T /\ OccursAt(s, n, u) BY <1>1, <2>1
  <2>3. Shaped(u) /\ Shaped(t) BY <2>2 DEF Stands
  <2>4. n \in Nat \ {0} /\ Len(t) \in Nat /\ Len(t) >= 2 BY <1>0, <2>3 DEF Shaped, Text
  <2>5. n <= n + Len(t) - 1 /\ n >= n BY <2>4
  <2> QED BY <1>3, <2>2, <2>3, <2>4, <2>5, Fence
<1> QED BY <1>1, <1>2, <1>3 DEF u

\* The equations of ResolveFrom.
Resolves(r, s, T, orig) ==
    /\ r \in [1 .. Len(s) + 1 -> Text]
    /\ r[Len(s) + 1] = <<>>
    /\ \A n \in 1 .. Len(s) :
         /\ TokensAt(s, n, T) = {} => r[n] = <<s[n]>> \o r[n + 1]
         /\ \A t \in T : OccursAt(s, n, t) => r[n] = orig[t] \o r[n + Len(t)]

LEMMA ResolveSteps ==
    ASSUME NEW s \in Text, NEW T, NEW orig, Stands(T, orig)
    PROVE  Resolves(ResolveFrom(s, T, orig), s, T, orig)
<1> DEFINE N == Len(s)
           At(n) == TokensAt(s, n, T)
           On(n) == Standing(s, n, T)
           F == [1 .. N + 1 -> Text]
           St(k, f) == IF At(k) = {} THEN <<s[k]>> \o f[k + 1] ELSE orig[On(k)] \o f[k + Len(On(k))]
           step == [x \in (1 .. N) \X F |-> St(x[1], x[2])]
           Body(r) == [n \in 1 .. N + 1 |-> IF n > N THEN <<>> ELSE St(n, r)]
<1>0. N \in Nat /\ <<>> \in Text BY DEF Text
<1>1. ASSUME NEW n \in 1 .. N
      PROVE  At(n) # {} => orig[On(n)] \in Text /\ n + Len(On(n)) \in n + 1 .. N + 1
  BY StandingOne DEF Stands
<1>2. \A n \in 1 .. N : \A t \in T : OccursAt(s, n, t) => On(n) = t /\ At(n) # {}
  <2> TAKE n \in 1 .. N
  <2> TAKE t \in T
  <2>1. OccursAt(s, n, t) => On(n) = t BY StandingOne
  <2> QED BY <2>1 DEF TokensAt
<1>3. ASSUME NEW n \in 1 .. N PROVE <<s[n]>> \in Text
  BY DEF Text
<1> HIDE DEF At, On
<1>4. ASSUME NEW k \in 1 .. N, NEW g \in F PROVE St(k, g) \in Text
  <2>1. CASE At(k) = {}
    <3>1. g[k + 1] \in Text BY <1>0
    <3>2. <<s[k]>> \o g[k + 1] \in Text BY <1>3, <3>1, Joined
    <3> QED BY <2>1, <3>2
  <2>2. CASE At(k) # {}
    <3>1. orig[On(k)] \in Text /\ k + Len(On(k)) \in 1 .. N + 1 BY <1>0, <1>1, <2>2
    <3>2. g[k + Len(On(k))] \in Text BY <3>1
    <3>3. orig[On(k)] \o g[k + Len(On(k))] \in Text BY <3>1, <3>2, Joined
    <3> QED BY <2>2, <3>3
  <2> QED BY <2>1, <2>2
<1>5. ASSUME NEW k \in 1 .. N, NEW g, NEW h, \A i \in k + 1 .. N + 1 : g[i] = h[i]
      PROVE  St(k, g) = St(k, h)
  BY <1>0, <1>1, <1>5
<1>6. ASSUME NEW k \in 1 .. N, NEW g \in F PROVE step[<<k, g>>] = St(k, g)
  <2> HIDE DEF F, St
  <2> QED OBVIOUS
<1> HIDE DEF St
<1>7. FromAbove(step, N, Text)
  <2> HIDE DEF step
  <2> QED BY <1>4, <1>5, <1>6 DEF FromAbove
<1>8. \E r : r = Body(r)
  <2> HIDE DEF step, N
  <2>1. PICK f \in F : f[N + 1] = <<>> /\ \A k \in 1 .. N : f[k] = step[<<k, f>>]
    BY <1>0, <1>7, BackwardExists
  <2>2. \A k \in 1 .. N : f[k] = St(k, f) BY <1>6, <2>1
  <2>3. ASSUME NEW n \in 1 .. N + 1 PROVE f[n] = Body(f)[n]
    <3>1. CASE n = N + 1 BY <1>0, <2>1, <3>1
    <3>2. CASE n # N + 1
      <4>1. n \in 1 .. N BY <1>0, <3>2
      <4> QED BY <1>0, <2>2, <4>1
    <3> QED BY <3>1, <3>2
  <2>4. f = Body(f) BY <2>3
  <2> QED BY <2>4
<1> DEFINE r == ResolveFrom(s, T, orig)
<1>9. r = Body(r)
  <2>1. r = CHOOSE x : x = Body(x) BY DEF ResolveFrom, St, At, On
  <2> HIDE DEF r, Body
  <2> QED BY <1>8, <2>1
<1> HIDE DEF r
<1>10. r[N + 1] = <<>> BY <1>0, <1>9
<1>11. ASSUME NEW n \in 1 .. N PROVE r[n] = St(n, r) BY <1>0, <1>9
<1> DEFINE S == {n \in 1 .. N + 1 : r[n] \in Text}
<1>12. ASSUME NEW k \in 1 .. N + 1, \A m \in k + 1 .. N + 1 : m \in S PROVE k \in S
  <2>1. CASE k = N + 1 BY <1>0, <1>10, <2>1
  <2>2. CASE k # N + 1
    <3> DEFINE g == [i \in 1 .. N + 1 |-> IF i > k THEN r[i] ELSE <<>>]
    <3>1. g \in F BY <1>0, <1>12
    <3>2. k \in 1 .. N BY <1>0, <2>2
    <3>3. \A i \in k + 1 .. N + 1 : g[i] = r[i] BY <1>0
    <3> HIDE DEF g, F
    <3>4. St(k, g) = St(k, r) BY <1>5, <3>2, <3>3
    <3> QED BY <1>4, <1>11, <3>1, <3>2, <3>4
  <2> QED BY <2>1, <2>2
<1> HIDE DEF S
<1>13. 1 .. N + 1 \subseteq S BY <1>0, <1>12, DownwardSet
<1>14. r \in F
  <2>1. \A n \in 1 .. N + 1 : r[n] \in Text BY <1>13 DEF S
  <2>2. DOMAIN r = 1 .. N + 1 /\ r = [n \in DOMAIN r |-> r[n]] BY <1>9
  <2> QED BY <2>1, <2>2
<1>15. ASSUME NEW n \in 1 .. N, At(n) = {} PROVE r[n] = <<s[n]>> \o r[n + 1]
  BY <1>11, <1>15 DEF St
<1>16. ASSUME NEW n \in 1 .. N, NEW t \in T, OccursAt(s, n, t) PROVE r[n] = orig[t] \o r[n + Len(t)]
  BY <1>2, <1>11, <1>16 DEF St
<1>17. Resolves(r, s, T, orig) BY <1>10, <1>14, <1>15, <1>16 DEF At, Resolves
<1> QED BY <1>17 DEF r

\* Replacing the tokens of a text whose second part starts after no unfinished
\* token: from every position of the second part, and of the whole.
LEMMA ResolveTail ==
    ASSUME NEW a \in Text, NEW b \in Text, NEW T, NEW orig, Stands(T, orig), NEW n \in 1 .. Len(b) + 1
    PROVE  ResolveFrom(a \o b, T, orig)[Len(a) + n] = ResolveFrom(b, T, orig)[n]
<1> DEFINE s == a \o b
           r == ResolveFrom(s, T, orig)
           q == ResolveFrom(b, T, orig)
<1>0. Len(a) \in Nat /\ Len(b) \in Nat BY DEF Text
<1>1. /\ s \in Text /\ Len(s) = Len(a) + Len(b)
      /\ \A i \in 1 .. Len(b) : s[Len(a) + i] = b[i]
  BY Joined
<1>2. ASSUME NEW t \in T, NEW i \in 1 .. Len(b)
      PROVE  /\ t \in Text /\ Len(t) \in Nat /\ Len(t) >= 2
             /\ OccursAt(s, Len(a) + i, t) <=> OccursAt(b, i, t)
  <2>1. t \in Text /\ Len(t) >= 2 BY DEF Stands, Shaped
  <2>2. i \in Nat \ {0} BY <1>0
  <2> QED BY <2>1, <2>2, OccursJoined DEF Text
<1> HIDE DEF s
<1>3a. Resolves(r, s, T, orig) /\ Resolves(q, b, T, orig) BY <1>1, ResolveSteps
<1> HIDE DEF r, q
<1>3. /\ r[Len(s) + 1] = <<>>
      /\ \A i \in 1 .. Len(s) :
           /\ TokensAt(s, i, T) = {} => r[i] = <<s[i]>> \o r[i + 1]
           /\ \A t \in T : OccursAt(s, i, t) => r[i] = orig[t] \o r[i + Len(t)]
  BY <1>3a DEF Resolves
<1>4. /\ q[Len(b) + 1] = <<>>
      /\ \A i \in 1 .. Len(b) :
           /\ TokensAt(b, i, T) = {} => q[i] = <<b[i]>> \o q[i + 1]
           /\ \A t \in T : OccursAt(b, i, t) => q[i] = orig[t] \o q[i + Len(t)]
  BY <1>3a DEF Resolves
<1> DEFINE S == {i \in 1 .. Len(b) + 1 : r[Len(a) + i] = q[i]}
<1>5. ASSUME NEW i \in 1 .. Len(b) + 1, \A m \in i + 1 .. Len(b) + 1 : m \in S PROVE i \in S
  <2>1. CASE i = Len(b) + 1
    <3>1. Len(a) + i = Len(s) + 1 BY <1>0, <1>1, <2>1
    <3> QED BY <1>3, <1>4, <2>1, <3>1
  <2>2. CASE i # Len(b) + 1
    <3>1. i \in 1 .. Len(b) /\ Len(a) + i \in 1 .. Len(s) BY <1>0, <1>1, <2>2
    <3>2. CASE TokensAt(b, i, T) = {}
      <4>1. TokensAt(s, Len(a) + i, T) = {} BY <1>2, <3>1, <3>2 DEF TokensAt
      <4>2. r[Len(a) + i] = <<b[i]>> \o r[Len(a) + (i + 1)]
        <5>1. (Len(a) + i) + 1 = Len(a) + (i + 1) BY <1>0
        <5> QED BY <1>1, <1>3, <3>1, <4>1, <5>1
      <4>3. q[i] = <<b[i]>> \o q[i + 1] BY <1>4, <3>1, <3>2
      <4>4. i + 1 \in S BY <1>0, <1>5, <3>1
      <4> QED BY <4>2, <4>3, <4>4
    <3>3. CASE TokensAt(b, i, T) # {}
      <4>1. PICK t \in T : OccursAt(b, i, t) BY <3>3 DEF TokensAt
      <4>2. Len(t) \in Nat /\ Len(t) >= 2 /\ OccursAt(s, Len(a) + i, t) BY <1>2, <3>1, <4>1
      <4>3. r[Len(a) + i] = orig[t] \o r[Len(a) + (i + Len(t))]
        <5>1. (Len(a) + i) + Len(t) = Len(a) + (i + Len(t)) BY <1>0, <4>2
        <5> QED BY <1>3, <3>1, <4>2, <5>1
      <4>4. q[i] = orig[t] \o q[i + Len(t)] BY <1>4, <3>1, <4>1
      <4>5. i + Len(t) - 1 <= Len(b) BY <4>1 DEF OccursAt
      <4>6. i + Len(t) \in i + 1 .. Len(b) + 1 BY <1>0, <4>2, <4>5
      <4>7. i + Len(t) \in S BY <1>5, <4>6
      <4> QED BY <4>3, <4>4, <4>7
    <3> QED BY <3>2, <3>3
  <2> QED BY <2>1, <2>2
<1> HIDE DEF S
<1>6. 1 .. Len(b) + 1 \subseteq S BY <1>0, <1>5, DownwardSet
<1>7. n \in S BY <1>6
<1> QED BY <1>7 DEF S, r, q, s

\* No token of T runs from a into b.
Parted(a, b, T) ==
    \A m \in 1 .. Len(a) : \A t \in T : OccursAt(a \o b, m, t) => m + Len(t) - 1 <= Len(a)

\* Replacing in two texts that no token spans is replacing in the whole.
LEMMA ResolveJoined ==
    ASSUME NEW a \in Text, NEW b \in Text, NEW T, NEW orig, Stands(T, orig), Parted(a, b, T)
    PROVE  Resolve(a \o b, T, orig) = Resolve(a, T, orig) \o Resolve(b, T, orig)
<1> DEFINE s == a \o b
           r == ResolveFrom(s, T, orig)
           p == ResolveFrom(a, T, orig)
           e == Resolve(b, T, orig)
<1>0. Len(a) \in Nat /\ Len(b) \in Nat BY DEF Text
<1>1. /\ s \in Text /\ Len(s) = Len(a) + Len(b)
      /\ \A i \in 1 .. Len(a) : s[i] = a[i]
  BY Joined
<1>2. ASSUME NEW t \in T, NEW i \in 1 .. Len(a)
      PROVE  /\ t \in Text /\ Len(t) \in Nat /\ Len(t) >= 2
             /\ OccursAt(s, i, t) <=> OccursAt(a, i, t)
  <2>1. t \in Text /\ Len(t) >= 2 BY DEF Stands, Shaped
  <2>2. i \in Nat \ {0} BY <1>0
  <2>3. CASE i + Len(t) - 1 <= Len(a) BY <2>1, <2>2, <2>3, OccursJoined DEF Text
  <2>4. CASE ~(i + Len(t) - 1 <= Len(a))
    <3>1. ~OccursAt(s, i, t) BY <2>4 DEF Parted
    <3>2. ~OccursAt(a, i, t) BY <2>4 DEF OccursAt
    <3> QED BY <2>1, <3>1, <3>2 DEF Text
  <2> QED BY <2>3, <2>4
<1>7. r[Len(a) + 1] = e
  <2>1. 1 \in 1 .. Len(b) + 1 BY <1>0
  <2> QED BY <2>1, ResolveTail DEF Resolve
<1>8. e \in Text
  <2>1. ResolveFrom(b, T, orig) \in [1 .. Len(b) + 1 -> Text] BY ResolveSteps DEF Resolves
  <2>2. 1 \in 1 .. Len(b) + 1 BY <1>0
  <2> QED BY <2>1, <2>2 DEF Resolve
<1> HIDE DEF s
<1>3a. Resolves(r, s, T, orig) /\ Resolves(p, a, T, orig) BY <1>1, ResolveSteps
<1> HIDE DEF r, p, e
<1>3. /\ \A i \in 1 .. Len(s) :
           /\ TokensAt(s, i, T) = {} => r[i] = <<s[i]>> \o r[i + 1]
           /\ \A t \in T : OccursAt(s, i, t) => r[i] = orig[t] \o r[i + Len(t)]
  BY <1>3a DEF Resolves
<1>4. /\ p \in [1 .. Len(a) + 1 -> Text]
      /\ p[Len(a) + 1] = <<>>
      /\ \A i \in 1 .. Len(a) :
           /\ TokensAt(a, i, T) = {} => p[i] = <<a[i]>> \o p[i + 1]
           /\ \A t \in T : OccursAt(a, i, t) => p[i] = orig[t] \o p[i + Len(t)]
  BY <1>3a DEF Resolves
<1> DEFINE S == {i \in 1 .. Len(a) + 1 : r[i] = p[i] \o e}
<1>5. ASSUME NEW i \in 1 .. Len(a) + 1, \A m \in i + 1 .. Len(a) + 1 : m \in S PROVE i \in S
  <2>1. CASE i = Len(a) + 1
    <3>1. <<>> \o e = e BY <1>8 DEF Text
    <3> QED BY <1>4, <1>7, <2>1, <3>1
  <2>2. CASE i # Len(a) + 1
    <3>1. i \in 1 .. Len(a) /\ i \in 1 .. Len(s) BY <1>0, <1>1, <2>2
    <3>2. CASE TokensAt(a, i, T) = {}
      <4>1. TokensAt(s, i, T) = {} BY <1>2, <3>1, <3>2 DEF TokensAt
      <4>2. r[i] = <<a[i]>> \o r[i + 1] BY <1>1, <1>3, <3>1, <4>1
      <4>3. p[i] = <<a[i]>> \o p[i + 1] BY <1>4, <3>1, <3>2
      <4>4. i + 1 \in S BY <1>0, <1>5, <3>1
      <4>5. <<a[i]>> \in Text /\ p[i + 1] \in Text BY <1>0, <1>4, <3>1 DEF Text
      <4>6. (<<a[i]>> \o p[i + 1]) \o e = <<a[i]>> \o (p[i + 1] \o e)
        <5>a. Assoc(<<a[i]>>, p[i + 1], e) BY <1>8, <4>5, Associates
        <5> QED BY <5>a DEF Assoc
      <4> QED BY <4>2, <4>3, <4>4, <4>6
    <3>3. CASE TokensAt(a, i, T) # {}
      <4>1. PICK t \in T : OccursAt(a, i, t) BY <3>3 DEF TokensAt
      <4>2. Len(t) \in Nat /\ Len(t) >= 2 /\ OccursAt(s, i, t) BY <1>2, <3>1, <4>1
      <4>3. r[i] = orig[t] \o r[i + Len(t)] BY <1>3, <3>1, <4>2
      <4>4. p[i] = orig[t] \o p[i + Len(t)] BY <1>4, <3>1, <4>1
      <4>5. i + Len(t) - 1 <= Len(a) BY <4>1 DEF OccursAt
      <4>6. i + Len(t) \in i + 1 .. Len(a) + 1 BY <1>0, <4>2, <4>5
      <4>7. i + Len(t) \in S BY <1>5, <4>6
      <4>8. orig[t] \in Text /\ p[i + Len(t)] \in Text BY <1>0, <1>4, <4>6 DEF Stands
      <4>9. (orig[t] \o p[i + Len(t)]) \o e = orig[t] \o (p[i + Len(t)] \o e)
        <5>a. Assoc(orig[t], p[i + Len(t)], e) BY <1>8, <4>8, Associates
        <5> QED BY <5>a DEF Assoc
      <4> QED BY <4>3, <4>4, <4>7, <4>9
    <3> QED BY <3>2, <3>3
  <2> QED BY <2>1, <2>2
<1> HIDE DEF S
<1>6. 1 .. Len(a) + 1 \subseteq S BY <1>0, <1>5, DownwardSet
<1>9. 1 \in S BY <1>0, <1>6
<1> QED BY <1>9 DEF S, r, p, e, s, Resolve

LEMMA ResolveText ==
    ASSUME NEW s \in Text, NEW T, NEW orig, Stands(T, orig)
    PROVE  Resolve(s, T, orig) \in Text /\ Resolve(<<>>, T, orig) = <<>>
<1> DEFINE e == <<>>
<1>1. ResolveFrom(s, T, orig) \in [1 .. Len(s) + 1 -> Text] BY ResolveSteps DEF Resolves
<1>2. 1 \in 1 .. Len(s) + 1 /\ e \in Text /\ Len(e) + 1 = 1 BY DEF Text
<1> HIDE DEF e
<1>3. Resolves(ResolveFrom(e, T, orig), e, T, orig) BY <1>2, ResolveSteps
<1>4. ResolveFrom(e, T, orig)[Len(e) + 1] = <<>> BY <1>3 DEF Resolves
<1> QED BY <1>1, <1>2, <1>4 DEF Resolve, e

\* Text without a token stays as it is.
LEMMA ResolvePlain ==
    ASSUME NEW s \in Text, NEW T, NEW orig, Stands(T, orig), \A n \in 1 .. Len(s) : TokensAt(s, n, T) = {}
    PROVE  Resolve(s, T, orig) = s
<1> DEFINE r == ResolveFrom(s, T, orig)
           S == {i \in 1 .. Len(s) + 1 : r[i] = SubSeq(s, i, Len(s))}
<1>0. Len(s) \in Nat BY DEF Text
<1>1a. Resolves(r, s, T, orig) BY ResolveSteps
<1> HIDE DEF r
<1>1. /\ r[Len(s) + 1] = <<>> /\ \A i \in 1 .. Len(s) : r[i] = <<s[i]>> \o r[i + 1] BY <1>1a DEF Resolves
<1>2. ASSUME NEW i \in 1 .. Len(s) + 1, \A m \in i + 1 .. Len(s) + 1 : m \in S PROVE i \in S
  <2>1. CASE i = Len(s) + 1
    <3>1. SubSeq(s, i, Len(s)) = <<>>
      <4>1. SubSeq(s, i, Len(s)) \in Text /\ Len(SubSeq(s, i, Len(s))) = 0 BY <1>0, <2>1, Part
      <4> QED BY <4>1 DEF Text
    <3> QED BY <1>1, <2>1, <3>1
  <2>2. CASE i # Len(s) + 1
    <3>1. i \in 1 .. Len(s) /\ i + 1 \in S BY <1>0, <1>2, <2>2
    <3>2. s \in Seq(Byte) /\ i \in 1 .. Len(s) + 1 /\ i \in i - 1 .. Len(s) /\ Len(s) \in i .. Len(s)
      BY <1>0, <3>1 DEF Text
    <3>3. SubSeq(s, i, i) \o SubSeq(s, i + 1, Len(s)) = SubSeq(s, i, Len(s)) BY <3>2, ConcatAdjacentSubSeq
    <3>4. SubSeq(s, i, i) = <<s[i]>>
      <4>1. SubSeq(s, i, i) \in Text /\ Len(SubSeq(s, i, i)) = 1 /\ SubSeq(s, i, i)[1] = s[i]
        <5>1. /\ SubSeq(s, i, i) \in Text /\ Len(SubSeq(s, i, i)) = IF i <= i THEN i - i + 1 ELSE 0
              /\ \A j \in 1 .. i - i + 1 : SubSeq(s, i, i)[j] = s[i + j - 1]
          BY <1>0, <3>1, Part
        <5>2. i - i + 1 = 1 /\ i + 1 - 1 = i /\ i <= i BY <3>1
        <5> QED BY <5>1, <5>2
      <4>2. <<s[i]>> \in Text /\ Len(<<s[i]>>) = 1 /\ <<s[i]>>[1] = s[i] BY <3>1, Small
      <4>3. \A j \in 1 .. 1 : SubSeq(s, i, i)[j] = <<s[i]>>[j] BY <4>1, <4>2
      <4> HIDE DEF Byte
      <4> QED BY <4>1, <4>2, <4>3, SeqEqual DEF Text
    <3> QED BY <1>1, <3>1, <3>3, <3>4
  <2> QED BY <2>1, <2>2
<1> HIDE DEF S
<1>3. 1 .. Len(s) + 1 \subseteq S BY <1>0, <1>2, DownwardSet
<1>4. 1 \in S BY <1>0, <1>3
<1>5. SubSeq(s, 1, Len(s)) = s BY SubSeqFull DEF Text
<1> QED BY <1>4, <1>5 DEF S, r, Resolve

\* A token becomes its original.
LEMMA ResolveToken ==
    ASSUME NEW T, NEW orig, Stands(T, orig), NEW t \in T
    PROVE  Resolve(t, T, orig) = orig[t]
<1>1. t \in Text /\ Len(t) \in Nat /\ Len(t) >= 2 /\ orig[t] \in Text BY DEF Stands, Shaped, Text
<1>2. OccursAt(t, 1, t)
  <2>1. SubSeq(t, 1, Len(t)) = t BY <1>1, SubSeqFull DEF Text
  <2>2. 1 + Len(t) - 1 = Len(t) BY <1>1
  <2> QED BY <1>1, <2>1, <2>2 DEF OccursAt
<1> DEFINE r == ResolveFrom(t, T, orig)
<1>3a. Resolves(r, t, T, orig) BY <1>1, ResolveSteps
<1> HIDE DEF r
<1>3. /\ r[Len(t) + 1] = <<>>
      /\ \A n \in 1 .. Len(t) : \A u \in T : OccursAt(t, n, u) => r[n] = orig[u] \o r[n + Len(u)]
  BY <1>3a DEF Resolves
<1>4. 1 \in 1 .. Len(t) /\ 1 + Len(t) = Len(t) + 1 BY <1>1
<1>5. r[1] = orig[t] \o r[1 + Len(t)] BY <1>2, <1>3, <1>4
<1>6. orig[t] \o <<>> = orig[t] BY <1>1, ConcatEmptySeq DEF Text
<1> QED BY <1>3, <1>4, <1>5, <1>6 DEF r, Resolve

-------------------------------------------------------------------------------
(* The two ways to say what a text becomes: one pass, and the restorer's loop. *)

\* Whatever satisfies the equations of ResolveFrom has its value.
Follows(q, s, T, orig) ==
    /\ q[Len(s) + 1] = <<>>
    /\ \A n \in 1 .. Len(s) :
         q[n] = IF TokensAt(s, n, T) = {} THEN <<s[n]>> \o q[n + 1]
                ELSE orig[Standing(s, n, T)] \o q[n + Len(Standing(s, n, T))]

LEMMA ResolveUnique ==
    ASSUME NEW s \in Text, NEW T, NEW orig, Stands(T, orig), NEW q, Follows(q, s, T, orig)
    PROVE  q[1] = Resolve(s, T, orig)
<1> DEFINE r == ResolveFrom(s, T, orig)
           On(n) == Standing(s, n, T)
           At(n) == TokensAt(s, n, T)
           S == {n \in 1 .. Len(s) + 1 : q[n] = r[n]}
<1>0. Len(s) \in Nat BY DEF Text
<1>1. Resolves(r, s, T, orig) BY ResolveSteps
<1>2. \A n \in 1 .. Len(s) : At(n) # {} => On(n) \in T /\ OccursAt(s, n, On(n)) /\ n + Len(On(n)) \in n + 1 .. Len(s) + 1
  BY StandingOne
<1> HIDE DEF r, At, On
<1>3. ASSUME NEW k \in 1 .. Len(s) + 1, \A m \in k + 1 .. Len(s) + 1 : m \in S PROVE k \in S
  <2>1. CASE k = Len(s) + 1 BY <1>1, <2>1 DEF Resolves, Follows
  <2>2. CASE k # Len(s) + 1
    <3>1. k \in 1 .. Len(s) BY <1>0, <2>2
    <3>2. CASE At(k) = {}
      <4>1. q[k] = <<s[k]>> \o q[k + 1] BY <3>1, <3>2 DEF At, Follows
      <4>2. r[k] = <<s[k]>> \o r[k + 1] BY <1>1, <3>1, <3>2 DEF Resolves, At
      <4>3. k + 1 \in S BY <1>0, <1>3, <3>1
      <4> QED BY <4>1, <4>2, <4>3
    <3>3. CASE At(k) # {}
      <4>1. q[k] = orig[On(k)] \o q[k + Len(On(k))] BY <3>1, <3>3 DEF At, On, Follows
      <4>2. r[k] = orig[On(k)] \o r[k + Len(On(k))] BY <1>1, <1>2, <3>1, <3>3 DEF Resolves
      <4>3. k + Len(On(k)) \in S BY <1>2, <1>3, <3>1, <3>3
      <4> QED BY <4>1, <4>2, <4>3
    <3> QED BY <3>2, <3>3
  <2> QED BY <2>1, <2>2
<1> HIDE DEF S
<1>4. 1 .. Len(s) + 1 \subseteq S BY <1>0, <1>3, DownwardSet
<1>5. 1 \in S BY <1>0, <1>4
<1> QED BY <1>5 DEF S, r, Resolve

\* No token of T starts in s from m up to n.
Gap(s, m, n, T) == \A k \in m .. n : TokensAt(s, k, T) = {}

\* t is the first token of the text made of a, t and c.
First(a, t, c, T, orig) ==
    /\ a \in Text /\ c \in Text /\ t \in T /\ Stands(T, orig)
    /\ Gap(a \o (t \o c), 1, Len(a), T)

\* Everything in front of the first token stays, the token becomes its original.
LEMMA ResolveFirst ==
    ASSUME NEW a, NEW t, NEW c, NEW T, NEW orig, First(a, t, c, T, orig)
    PROVE  Resolve(a \o (t \o c), T, orig) = (a \o orig[t]) \o Resolve(c, T, orig)
<1> SUFFICES ASSUME a \in Text, c \in Text, t \in T, Stands(T, orig), Gap(a \o (t \o c), 1, Len(a), T)
             PROVE  Resolve(a \o (t \o c), T, orig) = (a \o orig[t]) \o Resolve(c, T, orig)
  BY DEF First
<1>0. /\ t \in Text /\ Shaped(t) /\ t \o c \in Text /\ Len(a) \in Nat /\ Len(t) \in Nat /\ Len(t) >= 2
      /\ a \o (t \o c) \in Text
  <2>1. t \in Text /\ Shaped(t) /\ Len(t) >= 2 BY DEF Stands, Shaped
  <2>2. t \o c \in Text BY <2>1, Joined
  <2>3. a \o (t \o c) \in Text BY <2>2, Joined
  <2> QED BY <2>1, <2>2, <2>3 DEF Text
<1>1. Parted(a, t \o c, T) BY DEF Parted, Gap, TokensAt
<1>2. Parted(t, c, T)
  <2> SUFFICES ASSUME NEW m \in 1 .. Len(t), NEW u \in T, OccursAt(t \o c, m, u)
               PROVE  m + Len(u) - 1 <= Len(t)
    BY DEF Parted
  <2>1. OccursAt(t \o c, 1, t)
    <3>1. SubSeq(t \o c, 1, Len(t)) = t /\ Len(t \o c) = Len(t) + Len(c) BY <1>0, Joined
    <3>2. 1 + Len(t) - 1 = Len(t) /\ Len(c) \in Nat BY <1>0 DEF Text
    <3>3. Len(t) <= Len(t \o c) BY <1>0, <3>1, <3>2
    <3> QED BY <3>1, <3>2, <3>3 DEF OccursAt
  <2>2. Shaped(u) BY DEF Stands
  <2>3. m \in Nat \ {0} /\ 1 \in Nat \ {0} /\ m <= 1 + Len(t) - 1 BY <1>0
  <2>4. m + Len(u) - 1 <= 1 + Len(t) - 1 BY <1>0, <2>1, <2>2, <2>3, Fence
  <2> QED BY <1>0, <2>4
<1>3. Resolve(a, T, orig) = a
  <2>1. ASSUME NEW n \in 1 .. Len(a) PROVE TokensAt(a, n, T) = {}
    <3> SUFFICES ASSUME NEW u \in T, OccursAt(a, n, u) PROVE FALSE BY DEF TokensAt
    <3>1. u \in Text BY DEF Stands, Shaped
    <3>2. n + Len(u) - 1 <= Len(a) BY DEF OccursAt
    <3>3. n \in Nat \ {0} BY <1>0
    <3>4. OccursAt(a \o (t \o c), n, u) BY <1>0, <3>1, <3>2, <3>3, OccursJoined
    <3> QED BY <3>4 DEF TokensAt, Gap
  <2> QED BY <2>1, ResolvePlain
<1>4. Resolve(t, T, orig) = orig[t] BY ResolveToken
<1>5. Resolve(t \o c, T, orig) = orig[t] \o Resolve(c, T, orig)
  <2>1. Resolve(t \o c, T, orig) = Resolve(t, T, orig) \o Resolve(c, T, orig) BY <1>0, <1>2, ResolveJoined
  <2> QED BY <1>4, <2>1
<1>6. Resolve(a \o (t \o c), T, orig) = Resolve(a, T, orig) \o Resolve(t \o c, T, orig)
  BY <1>0, <1>1, ResolveJoined
<1>7. a \o (orig[t] \o Resolve(c, T, orig)) = (a \o orig[t]) \o Resolve(c, T, orig)
  <2>1. orig[t] \in Text /\ Resolve(c, T, orig) \in Text BY ResolveText DEF Stands
  <2>2. Assoc(a, orig[t], Resolve(c, T, orig)) BY <2>1, Associates
  <2> QED BY <2>2 DEF Assoc
<1> QED BY <1>3, <1>5, <1>6, <1>7

-------------------------------------------------------------------------------
(* RestoreStream: the operators. *)

LEMMA StreamMin ==
    ASSUME NEW S \in SUBSET Nat, S # {}
    PROVE  Min(S) \in S /\ \A y \in S : Min(S) <= y
<1>1. \E x \in S : \A y \in S : x <= y BY LeastNatural
<1> QED BY <1>1 DEF Min

LEMMA StreamMax ==
    ASSUME NEW n \in Nat, NEW S \in SUBSET (0 .. n), S # {}
    PROVE  Max(S) \in S /\ \A y \in S : y <= Max(S)
<1>1. \E x \in S : \A y \in S : y <= x BY GreatestNatural
<1>2. \E x \in S : \A y \in S : x >= y BY <1>1
<1>3. Max(S) \in S /\ \A y \in S : Max(S) >= y BY <1>2 DEF Max
<1> QED BY <1>3

\* JSON escaping makes a text of a text.
LEMMA EscapeText ==
    ASSUME NEW s \in Text
    PROVE  JsonEscape(s) \in Text
<1> DEFINE N == Len(s)
           St(k, x) == IF s[k] \in {Backslash, Quote} THEN x \o <<Backslash, s[k]>> ELSE Append(x, s[k])
           step == [p \in (1 .. N) \X Text |-> St(p[1], p[2])]
           Body(g) == [n \in 0 .. N |-> IF n = 0 THEN <<>> ELSE St(n, g[n - 1])]
<1>0. N \in Nat /\ <<>> \in Text BY DEF Text
<1>1. ASSUME NEW k \in 1 .. N, NEW x \in Text PROVE St(k, x) \in Text
  <2>1. s[k] \in Byte BY Small
  <2>0. Backslash \in Byte BY DEF Backslash, Byte
  <2>2. <<Backslash, s[k]>> \in Text BY <2>0, <2>1 DEF Text
  <2>3. x \o <<Backslash, s[k]>> \in Text BY <2>2, Joined
  <2>4. Append(x, s[k]) \in Text BY <2>1 DEF Text
  <2> QED BY <2>3, <2>4
<1> HIDE DEF St, N
<1>2. step \in [(1 .. N) \X Text -> Text] BY <1>1
<1>3. ASSUME NEW k \in 1 .. N, NEW x \in Text PROVE step[<<k, x>>] = St(k, x) OBVIOUS
<1> HIDE DEF step
<1>4. PICK f \in [0 .. N -> Text] : IsLoop(f, N, <<>>, step) BY <1>0, <1>2, LoopExists
<1>5. f = Body(f)
  <2>1. f[0] = <<>> /\ \A k \in 1 .. N : f[k] = step[<<k, f[k - 1]>>] BY <1>4 DEF IsLoop
  <2>2. ASSUME NEW k \in 1 .. N PROVE f[k] = St(k, f[k - 1])
    <3>1. f[k - 1] \in Text BY <1>0
    <3> QED BY <1>3, <2>1, <3>1
  <2>3. ASSUME NEW k \in 0 .. N PROVE f[k] = Body(f)[k] BY <1>0, <2>1, <2>2
  <2> QED BY <2>3
<1> DEFINE g == CHOOSE x : x = Body(x)
<1>6. g = Body(g)
  <2> HIDE DEF Body
  <2> QED BY <1>5
<1>7. JsonEscape(s) = g[N] BY DEF JsonEscape, St, N
<1> HIDE DEF g
<1> DEFINE S == {k \in 0 .. N : g[k] \in Text}
<1>8. 0 \in S BY <1>0, <1>6
<1>9. ASSUME NEW k \in 1 .. N, k - 1 \in S PROVE k \in S
  <2>1. g[k] = St(k, g[k - 1]) BY <1>0, <1>6
  <2> QED BY <1>1, <1>9, <2>1
<1> HIDE DEF S
<1>10. 0 .. N \subseteq S BY <1>0, <1>8, <1>9, InductiveSet
<1>11. N \in S BY <1>0, <1>10
<1> QED BY <1>7, <1>11 DEF S

\* What each token of the session is replaced by.
Spliced(e) == [t \in StreamTokens |-> Splice(e, t)]

LEMMA StreamStands ==
    ASSUME NEW e \in BOOLEAN
    PROVE  /\ Stands(StreamTokens, Spliced(e))
           /\ \A t \in StreamTokens : Spliced(e)[t] = Splice(e, t) /\ Len(t) \in 3 .. MaxTokenLen
<1> SUFFICES ASSUME NEW t \in StreamTokens
             PROVE  Shaped(t) /\ Splice(e, t) \in Text /\ Len(t) \in 3 .. MaxTokenLen
  BY DEF Spliced, Stands
<1>1. /\ t \in Text /\ Len(t) \in 3 .. MaxTokenLen /\ MaxTokenLen \in Nat
      /\ \A n \in 1 .. Len(t) : (t[n] = "<" <=> n = 1) /\ (t[n] = ">" <=> n = Len(t))
  BY StringText, TokenGrammar
<1>2. Shaped(t) BY <1>1 DEF Shaped
<1>3. Original[t] \in Text BY StringText, TokenGrammar
<1>4. Splice(e, t) \in Text BY <1>3, EscapeText DEF Splice
<1> QED BY <1>1, <1>2, <1>4

LEMMA StreamTokenAt ==
    ASSUME NEW s, NEW n PROVE TokenAt(s, n) = TokensAt(s, n, StreamTokens)
BY DEF TokenAt, TokensAt, OccursAt

\* restore_text of a complete text.
LEMMA WholeText ==
    ASSUME NEW e \in BOOLEAN, NEW s \in Text
    PROVE  RestoreWhole(s, e) = Resolve(s, StreamTokens, Spliced(e))
<1> DEFINE T == StreamTokens
           orig == Spliced(e)
           On(n) == CHOOSE u \in TokenAt(s, n) : TRUE
           Body(r) == [n \in 1 .. Len(s) + 1 |->
                         IF n > Len(s) THEN <<>>
                         ELSE IF TokenAt(s, n) = {} THEN <<s[n]>> \o r[n + 1]
                              ELSE Splice(e, On(n)) \o r[n + Len(On(n))]]
           q == CHOOSE r : r = Body(r)
           f == ResolveFrom(s, T, orig)
<1>0. Len(s) \in Nat BY DEF Text
<1>1. RestoreWhole(s, e) = q[1] BY DEF RestoreWhole
<1>2. Stands(T, orig) /\ \A t \in T : orig[t] = Splice(e, t) BY StreamStands
<1>3. \A n : TokenAt(s, n) = TokensAt(s, n, T) /\ On(n) = Standing(s, n, T)
  BY StreamTokenAt DEF Standing
<1>4. ASSUME NEW n \in 1 .. Len(s), TokensAt(s, n, T) # {}
      PROVE  /\ Splice(e, On(n)) = orig[Standing(s, n, T)]
             /\ Standing(s, n, T) \in T /\ OccursAt(s, n, Standing(s, n, T))
  <2>1. Standing(s, n, T) \in T /\ OccursAt(s, n, Standing(s, n, T)) BY <1>2, <1>4, StandingOne
  <2>2. On(n) = Standing(s, n, T) BY <1>3
  <2> HIDE DEF On, orig
  <2> QED BY <1>2, <2>1, <2>2
<1>5. Resolves(f, s, T, orig) BY <1>2, ResolveSteps
<1> HIDE DEF orig, f, On
<1>6. f = Body(f)
  <2>1. f \in [1 .. Len(s) + 1 -> Text] BY <1>5 DEF Resolves
  <2>2. ASSUME NEW n \in 1 .. Len(s) + 1 PROVE f[n] = Body(f)[n]
    <3>1. CASE n = Len(s) + 1 BY <1>0, <1>5, <3>1 DEF Resolves
    <3>2. CASE n # Len(s) + 1
      <4>1. n \in 1 .. Len(s) BY <1>0, <3>2
      <4>2. CASE TokensAt(s, n, T) = {}
        <5>1. f[n] = <<s[n]>> \o f[n + 1] BY <1>5, <4>1, <4>2 DEF Resolves
        <5> QED BY <1>0, <1>3, <4>1, <4>2, <5>1
      <4>3. CASE TokensAt(s, n, T) # {}
        <5> DEFINE u == Standing(s, n, T)
        <5>1. u \in T /\ OccursAt(s, n, u) BY <1>4, <4>1, <4>3
        <5> HIDE DEF u
        <5>2. f[n] = orig[u] \o f[n + Len(u)] BY <1>5, <4>1, <5>1 DEF Resolves
        <5>3. On(n) = u /\ Splice(e, On(n)) = orig[u] BY <1>3, <1>4, <4>1, <4>3 DEF u
        <5>4. ~(n > Len(s)) /\ TokenAt(s, n) # {} BY <1>0, <1>3, <4>1, <4>3
        <5>5. Body(f)[n] = Splice(e, On(n)) \o f[n + Len(On(n))] BY <5>4
        <5> HIDE DEF Body
        <5> QED BY <5>2, <5>3, <5>5
      <4> QED BY <4>2, <4>3
    <3> QED BY <3>1, <3>2
  <2> QED BY <2>1, <2>2
<1>7. q = Body(q)
  <2> HIDE DEF Body
  <2> QED BY <1>6
<1> HIDE DEF q
<1>8. q[Len(s) + 1] = <<>> BY <1>0, <1>7
<1>9. ASSUME NEW n \in 1 .. Len(s)
      PROVE  q[n] = IF TokensAt(s, n, T) = {} THEN <<s[n]>> \o q[n + 1]
                    ELSE orig[Standing(s, n, T)] \o q[n + Len(Standing(s, n, T))]
  <2>1. q[n] = IF TokenAt(s, n) = {} THEN <<s[n]>> \o q[n + 1]
               ELSE Splice(e, On(n)) \o q[n + Len(On(n))]
    <3>1. n \in 1 .. Len(s) + 1 /\ ~(n > Len(s)) BY <1>0
    <3>2. Body(q)[n] = IF TokenAt(s, n) = {} THEN <<s[n]>> \o q[n + 1]
                       ELSE Splice(e, On(n)) \o q[n + Len(On(n))]
      BY <3>1
    <3> HIDE DEF Body
    <3>3. q[n] = Body(q)[n] BY <1>7
    <3> QED BY <3>2, <3>3
  <2> QED BY <1>3, <1>4, <2>1
<1>10. q[1] = Resolve(s, T, orig)
  <2>1. Follows(q, s, T, orig) BY <1>8, <1>9 DEF Follows
  <2> QED BY <1>2, <2>1, ResolveUnique
<1> QED BY <1>1, <1>10 DEF orig

\* An occurrence in the rest of a text is one in the text.
LEMMA OccursRest ==
    ASSUME NEW s \in Text, NEW i \in 1 .. Len(s) + 1, NEW m \in Nat \ {0}, NEW w \in Text
    PROVE  OccursAt(SubSeq(s, i, Len(s)), m, w) <=> OccursAt(s, i + m - 1, w)
<1> DEFINE d == i - 1
           a == SubSeq(s, 1, d)
           c == SubSeq(s, d + 1, Len(s))
<1>0. Len(s) \in Nat /\ d \in 0 .. Len(s) /\ d + 1 = i /\ d + m = i + m - 1 BY DEF Text
<1> HIDE DEF d
<1>1. a \in Text /\ Len(a) = d /\ c \in Text /\ a \o c = s BY <1>0, Cut
<1> HIDE DEF a, c
<1>2. OccursAt(a \o c, Len(a) + m, w) <=> OccursAt(c, m, w) BY <1>1, OccursJoined
<1>3. OccursAt(s, i + m - 1, w) <=> OccursAt(c, m, w) BY <1>0, <1>1, <1>2
<1> QED BY <1>0, <1>3 DEF c

\* A text without tokens of T, and one that a token of T ends.
Free(s, T) == \A n \in 1 .. Len(s) : TokensAt(s, n, T) = {}

Ended(s, T) == s = <<>> \/ \E q \in Text, t \in T : s = q \o t

\* The first token of b from n on is t, at k.
FirstFrom(b, n, k, t, T) ==
    n \in 1 .. Len(b) /\ k \in n .. Len(b) /\ t \in T /\ OccursAt(b, k, t) /\ Gap(b, n, k - 1, T)

\* From n on b is a text that becomes z and that a token ends, and then r.
Emits(b, n, z, r, T, orig) ==
    \E q \in Text : SubSeq(b, n, Len(b)) = q \o r /\ Resolve(q, T, orig) = z /\ Ended(q, T)

\* One round of the find / emit / drain loop.
LEMMA Round ==
    ASSUME NEW b \in Text, NEW T, NEW orig, Stands(T, orig), NEW n, NEW k, NEW t, FirstFrom(b, n, k, t, T),
           NEW z, NEW r \in Text, Emits(b, k + Len(t), z, r, T, orig)
    PROVE  Emits(b, n, (SubSeq(b, n, k - 1) \o orig[t]) \o z, r, T, orig)
<1>a. PICK q \in Text : SubSeq(b, k + Len(t), Len(b)) = q \o r /\ Resolve(q, T, orig) = z /\ Ended(q, T)
  BY DEF Emits
<1> USE DEF FirstFrom
<1> DEFINE N == Len(b)
           a == SubSeq(b, n, k - 1)
           x == a \o (t \o q)
<1>0. N \in Nat BY DEF Text
<1>1. t \in Text /\ Len(t) \in Nat /\ Len(t) >= 2 /\ orig[t] \in Text BY DEF Stands, Shaped, Text
<1>2. k + Len(t) - 1 <= N /\ SubSeq(b, k, k + Len(t) - 1) = t BY DEF OccursAt
<1>3. a \in Text /\ Len(a) = k - n
  <2>1. n \in Nat \ {0} /\ k - 1 \in Nat /\ k - 1 <= N /\ n <= (k - 1) + 1 /\ (k - 1) - n + 1 = k - n BY <1>0
  <2> QED BY <2>1, Part
<1>4. SubSeq(b, n, N) = a \o (t \o (q \o r))
  <2> DEFINE e == k + Len(t) - 1
  <2>1. /\ b \in Seq(Byte) /\ n \in 1 .. N + 1 /\ k - 1 \in n - 1 .. N /\ e \in k - 1 .. N
        /\ k \in 1 .. N + 1 /\ N \in e .. N /\ N \in k - 1 .. N /\ (k - 1) + 1 = k /\ e + 1 = k + Len(t)
    BY <1>0, <1>1, <1>2 DEF Text
  <2> HIDE DEF e
  <2>2. SubSeq(b, n, k - 1) \o SubSeq(b, (k - 1) + 1, N) = SubSeq(b, n, N) BY <2>1, ConcatAdjacentSubSeq
  <2>3. SubSeq(b, k, e) \o SubSeq(b, e + 1, N) = SubSeq(b, k, N) BY <2>1, ConcatAdjacentSubSeq
  <2>4. SubSeq(b, k, e) = t BY <1>2 DEF e
  <2>5. SubSeq(b, e + 1, N) = q \o r BY <1>a, <2>1
  <2>6. SubSeq(b, k, N) = t \o (q \o r) BY <2>3, <2>4, <2>5
  <2> QED BY <2>1, <2>2, <2>6
<1> HIDE DEF a
<1>5. t \o q \in Text /\ x \in Text /\ x \o r \in Text /\ q \o r \in Text
  <2>1. t \o q \in Text /\ q \o r \in Text BY <1>1, Joined
  <2>2. x \in Text BY <1>3, <2>1, Joined
  <2> QED BY <2>1, <2>2, Joined
<1>6. SubSeq(b, n, N) = x \o r
  <2>1. t \o (q \o r) = (t \o q) \o r
    <3>a. Assoc(t, q, r) BY <1>1, Associates
    <3> QED BY <3>a DEF Assoc
  <2>2. a \o ((t \o q) \o r) = (a \o (t \o q)) \o r
    <3>a. Assoc(a, t \o q, r) BY <1>3, <1>5, Associates
    <3> QED BY <3>a DEF Assoc
  <2> QED BY <1>4, <2>1, <2>2
<1>7. \A m \in 1 .. Len(a) : TokensAt(x, m, T) = {}
  <2> SUFFICES ASSUME NEW m \in 1 .. Len(a), NEW u \in T, OccursAt(x, m, u) PROVE FALSE
    BY DEF TokensAt
  <2> HIDE DEF x
  <2>1. u \in Text /\ Len(u) \in Nat BY DEF Stands, Shaped, Text
  <2>2. m + Len(u) - 1 <= Len(x) BY DEF OccursAt
  <2>3. m \in Nat \ {0} /\ n \in 1 .. N + 1 /\ n + m - 1 \in n .. k - 1 BY <1>0, <1>3
  <2>4. OccursAt(x \o r, m, u) BY <1>5, <2>1, <2>2, <2>3, OccursJoined
  <2>5. OccursAt(b, n + m - 1, u) BY <1>6, <2>1, <2>3, <2>4, OccursRest
  <2> QED BY <2>3, <2>5 DEF TokensAt, Gap
<1>9. Resolve(x, T, orig) = (a \o orig[t]) \o Resolve(q, T, orig)
  <2>1. Gap(a \o (t \o q), 1, Len(a), T) BY <1>7 DEF Gap
  <2>2. First(a, t, q, T, orig) BY <1>3, <2>1 DEF First
  <2> QED BY <2>2, ResolveFirst
<1>10. Ended(x, T)
  <2>1. CASE q = <<>>
    <3>1. x = a \o t BY <1>1, <2>1, Small
    <3> QED BY <1>3, <3>1 DEF Ended
  <2>2. CASE q # <<>>
    <3>1. PICK y \in Text, u \in T : q = y \o u BY <1>a, <2>2 DEF Ended
    <3>2. u \in Text /\ t \o y \in Text BY <1>1, Joined DEF Stands, Shaped
    <3>3. a \o (t \o y) \in Text BY <1>3, <3>2, Joined
    <3>6. t \in Text /\ y \in Text /\ u \in Text BY <1>1, <3>2
    <3>4. (t \o y) \o u = t \o (y \o u)
      <4>a. Assoc(t, y, u) BY <3>6, Associates
      <4> QED BY <4>a DEF Assoc
    <3>5. a \o ((t \o y) \o u) = (a \o (t \o y)) \o u
      <4>a. Assoc(a, t \o y, u) BY <1>3, <3>2, Associates
      <4> QED BY <4>a DEF Assoc
    <3> QED BY <3>1, <3>3, <3>4, <3>5 DEF Ended
  <2> QED BY <2>1, <2>2
<1> HIDE DEF x
<1>11. Resolve(x, T, orig) = (a \o orig[t]) \o z BY <1>9, <1>a
<1> QED BY <1>5, <1>6, <1>10, <1>11 DEF a, Emits

\* The loop emits what restore_text makes of the text up to the last token and
\* keeps the rest.
LEMMA RestoreLoop ==
    ASSUME json \in BOOLEAN, NEW b \in Text
    PROVE  \E q, r \in Text :
             /\ b = q \o r
             /\ RestoreTokens(b) = [out |-> Resolve(q, StreamTokens, Spliced(json)), rest |-> r]
             /\ Free(r, StreamTokens) /\ Ended(q, StreamTokens)
<1> DEFINE N == Len(b)
           T == StreamTokens
           orig == Spliced(json)
           M(n) == Matches(b, n)
           st(n) == Min(M(n))
           tok(n) == CHOOSE t \in TokenAt(b, st(n)) : TRUE
           nx(n) == st(n) + Len(tok(n))
           St(n, f) == IF M(n) = {} THEN [out |-> <<>>, rest |-> Suffix(b, n)]
                       ELSE [out |-> SubSeq(b, n, st(n) - 1) \o Splice(json, tok(n)) \o f[nx(n)].out,
                             rest |-> f[nx(n)].rest]
           Body(f) == [n \in 1 .. N + 1 |-> St(n, f)]
           V == [out : Text, rest : Text]
           step == [x \in (1 .. N) \X [1 .. N + 1 -> V] |-> St(x[1], x[2])]
           g == CHOOSE f : f = Body(f)
<1>0. N \in Nat BY DEF Text
<1>1. Stands(T, orig) /\ \A t \in T : orig[t] = Splice(json, t) BY StreamStands
<1>2. ASSUME NEW n \in 1 .. N + 1
      PROVE  /\ M(n) = {m \in n .. N : TokensAt(b, m, T) # {}}
             /\ M(n) # {} =>
                  /\ n \in 1 .. N /\ st(n) \in n .. N /\ Gap(b, n, st(n) - 1, T)
                  /\ tok(n) \in T /\ OccursAt(b, st(n), tok(n)) /\ nx(n) \in n + 1 .. N + 1
                  /\ Splice(json, tok(n)) = orig[tok(n)] /\ orig[tok(n)] \in Text
  <2>1. M(n) = {m \in n .. N : TokensAt(b, m, T) # {}} BY StreamTokenAt DEF Matches
  <2>2. ASSUME M(n) # {} PROVE st(n) \in M(n) /\ \A y \in M(n) : st(n) <= y
    <3>1. M(n) \in SUBSET Nat BY <1>0, <2>1
    <3> HIDE DEF M
    <3> QED BY <2>2, <3>1, StreamMin
  <2>3. tok(n) = Standing(b, st(n), T) BY StreamTokenAt DEF Standing
  <2> HIDE DEF st, M, tok, orig
  <2>4. ASSUME M(n) # {}
        PROVE  n \in 1 .. N /\ st(n) \in n .. N /\ Gap(b, n, st(n) - 1, T)
    <3>1. st(n) \in n .. N BY <2>1, <2>2, <2>4
    <3>2. ASSUME NEW m \in n .. st(n) - 1, TokensAt(b, m, T) # {} PROVE FALSE
      <4>1. m \in M(n) BY <1>0, <2>1, <3>1, <3>2
      <4>2. st(n) <= m BY <2>2, <2>4, <4>1
      <4> QED BY <1>0, <3>1, <4>2
    <3> QED BY <1>0, <3>1, <3>2 DEF Gap
  <2>5. ASSUME M(n) # {}
        PROVE  tok(n) \in T /\ OccursAt(b, st(n), tok(n)) /\ nx(n) \in n + 1 .. N + 1
    <3>1. TokensAt(b, st(n), T) # {} /\ st(n) \in 1 .. N BY <1>0, <2>1, <2>2, <2>5
    <3>2. /\ tok(n) \in T /\ OccursAt(b, st(n), tok(n))
          /\ st(n) + Len(tok(n)) \in st(n) + 1 .. N + 1
      BY <1>1, <2>3, <3>1, StandingOne
    <3> QED BY <1>0, <2>4, <2>5, <3>2
  <2> QED BY <1>1, <2>1, <2>4, <2>5 DEF Stands
<1> HIDE DEF M, st, tok, nx, orig
<1>3. ASSUME NEW n \in 1 .. N + 1 PROVE Suffix(b, n) = SubSeq(b, n, N) /\ SubSeq(b, n, N) \in Text
  <2>1. n \in Nat \ {0} /\ N <= N BY <1>0
  <2> QED BY <1>0, <2>1, Part DEF Suffix
<1>4. ASSUME NEW n \in 1 .. N + 1, NEW f \in [1 .. N + 1 -> V] PROVE St(n, f) \in V
  <2>1. CASE M(n) = {} BY <1>3, <2>1, Small
  <2>2. CASE M(n) # {}
    <3> DEFINE a == SubSeq(b, n, st(n) - 1)
               o == orig[tok(n)]
               z == f[nx(n)]
    <3>1. a \in Text
      <4>1. n \in Nat \ {0} /\ st(n) - 1 \in Nat /\ st(n) - 1 <= N BY <1>0, <1>2, <2>2
      <4> QED BY <4>1, Part
    <3>2. nx(n) \in 1 .. N + 1 BY <1>0, <1>2, <2>2
    <3>3. z.out \in Text /\ z.rest \in Text BY <3>2
    <3>4. o \in Text BY <1>2, <2>2
    <3> HIDE DEF a, o, z
    <3>5. a \o o \in Text BY <3>1, <3>4, Joined
    <3>6. (a \o o) \o z.out \in Text BY <3>3, <3>5, Joined
    <3>7. St(n, f) = [out |-> (a \o o) \o z.out, rest |-> z.rest] BY <1>2, <2>2 DEF a, o, z
    <3> QED BY <3>3, <3>6, <3>7
  <2> QED BY <2>1, <2>2
<1>5. ASSUME NEW k \in 1 .. N, NEW f, NEW h, \A i \in k + 1 .. N + 1 : f[i] = h[i]
      PROVE  St(k, f) = St(k, h)
  <2>1. CASE M(k) = {} BY <2>1
  <2>2. CASE M(k) # {}
    <3>1. k \in 1 .. N + 1 BY <1>0
    <3>2. f[nx(k)] = h[nx(k)] BY <1>2, <1>5, <2>2, <3>1
    <3> QED BY <2>2, <3>2
  <2> QED BY <2>1, <2>2
<1>6. ASSUME NEW k \in 1 .. N, NEW f \in [1 .. N + 1 -> V] PROVE step[<<k, f>>] = St(k, f)
  <2> HIDE DEF V, St
  <2> QED OBVIOUS
<1>7. ASSUME NEW f PROVE St(N + 1, f) = [out |-> <<>>, rest |-> SubSeq(b, N + 1, N)]
  <2>1. N + 1 \in 1 .. N + 1 BY <1>0
  <2>2. M(N + 1) = {} BY <1>0, <1>2, <2>1
  <2> QED BY <1>3, <2>1, <2>2
<1> HIDE DEF St
<1>8. \E f : f = Body(f)
  <2>1. FromAbove(step, N, V)
    <3>1. 1 .. N \subseteq 1 .. N + 1 BY <1>0
    <3> HIDE DEF step, V
    <3>2. ASSUME NEW k \in 1 .. N, NEW f \in [1 .. N + 1 -> V] PROVE step[<<k, f>>] = St(k, f) /\ St(k, f) \in V
      BY <1>4, <1>6, <3>1
    <3>3. ASSUME NEW k \in 1 .. N, NEW f \in [1 .. N + 1 -> V], NEW h \in [1 .. N + 1 -> V],
                 \A i \in k + 1 .. N + 1 : f[i] = h[i]
          PROVE  step[<<k, f>>] = step[<<k, h>>]
      <4>1. St(k, f) = St(k, h) BY <1>5, <3>3
      <4> QED BY <3>2, <4>1
    <3> QED BY <3>2, <3>3 DEF FromAbove
  <2> DEFINE a == [out |-> <<>>, rest |-> SubSeq(b, N + 1, N)]
  <2>2. a \in V
    <3>1. N + 1 \in 1 .. N + 1 BY <1>0
    <3> QED BY <1>3, <3>1, Small
  <2>3. \A f : St(N + 1, f) = a BY <1>7
  <2> HIDE DEF step, V, a, N
  <2>4. PICK f \in [1 .. N + 1 -> V] : f[N + 1] = a /\ \A k \in 1 .. N : f[k] = step[<<k, f>>]
    BY <1>0, <2>1, <2>2, BackwardExists
  <2>5. \A k \in 1 .. N : f[k] = St(k, f) BY <1>6, <2>4
  <2>6. ASSUME NEW n \in 1 .. N + 1 PROVE f[n] = St(n, f)
    <3>1. CASE n = N + 1 BY <2>3, <2>4, <3>1
    <3>2. CASE n # N + 1
      <4>1. n \in 1 .. N BY <1>0, <3>2
      <4> QED BY <2>5, <4>1
    <3> QED BY <3>1, <3>2
  <2>7. f = Body(f) BY <2>6
  <2> QED BY <2>7
<1>9. g = Body(g)
  <2> HIDE DEF Body
  <2> QED BY <1>8
<1>10. RestoreTokens(b) = g[1]
  BY DEF RestoreTokens, St, M, st, tok, nx
<1> HIDE DEF g
<1>11. ASSUME NEW n \in 1 .. N + 1 PROVE g[n] = St(n, g) BY <1>9
<1> DEFINE Good(n) == /\ g[n].rest \in Text /\ Free(g[n].rest, T) /\ g[n] = [out |-> g[n].out, rest |-> g[n].rest]
                      /\ Emits(b, n, g[n].out, g[n].rest, T, orig)
           S == {n \in 1 .. N + 1 : Good(n)}
<1>12. ASSUME NEW n \in 1 .. N + 1, \A m \in n + 1 .. N + 1 : m \in S PROVE n \in S
  <2>1. CASE M(n) = {}
    <3> DEFINE r == SubSeq(b, n, N)
    <3>1. r \in Text /\ <<>> \in Text /\ r = <<>> \o r BY <1>3, Small
    <3>2. g[n] = [out |-> <<>>, rest |-> r] BY <1>3, <1>11, <2>1 DEF St
    <3>3. Free(r, T)
      <4> SUFFICES ASSUME NEW m \in 1 .. Len(r), NEW u \in T, OccursAt(r, m, u) PROVE FALSE
        BY DEF Free, TokensAt
      <4>1. u \in Text BY <1>1 DEF Stands, Shaped
      <4>2. Len(r) = N - n + 1
        <5>1. n \in Nat \ {0} /\ N <= N /\ n <= N + 1 BY <1>0
        <5> QED BY <1>0, <5>1, Part
      <4>3. m \in Nat \ {0} /\ n + m - 1 \in n .. N BY <1>0, <4>2
      <4>4. OccursAt(b, n + m - 1, u) BY <4>1, <4>3, OccursRest
      <4>5. TokensAt(b, n + m - 1, T) # {} BY <4>4 DEF TokensAt
      <4> QED BY <1>2, <2>1, <4>3, <4>5
    <3>4. Ended(<<>>, T) BY DEF Ended
    <3> HIDE DEF r
    <3>5. Resolve(<<>>, T, orig) = <<>> BY <1>1, Small, ResolveText
    <3>6. Emits(b, n, <<>>, r, T, orig) BY <3>1, <3>4, <3>5 DEF r, Emits
    <3>7. g[n].out = <<>> /\ g[n].rest = r BY <3>2
    <3> QED BY <3>1, <3>2, <3>3, <3>6, <3>7
  <2>2. CASE M(n) # {}
    <3> DEFINE k == st(n)
               t == tok(n)
    <3>1. /\ n \in 1 .. N /\ k \in n .. N /\ Gap(b, n, k - 1, T)
          /\ t \in T /\ OccursAt(b, k, t) /\ nx(n) \in n + 1 .. N + 1 /\ nx(n) = k + Len(t)
          /\ Splice(json, t) = orig[t]
      BY <1>2, <2>2 DEF nx
    <3>2. g[n] = [out |-> (SubSeq(b, n, k - 1) \o orig[t]) \o g[nx(n)].out, rest |-> g[nx(n)].rest]
      BY <1>2, <1>11, <2>2 DEF St
    <3> HIDE DEF k, t
    <3> DEFINE z == g[nx(n)].out
               r == g[nx(n)].rest
    <3>3. r \in Text /\ Free(r, T) /\ Emits(b, k + Len(t), z, r, T, orig)
      <4>1. nx(n) \in S BY <1>12, <3>1
      <4> QED BY <3>1, <4>1
    <3> HIDE DEF z, r
    <3>4. FirstFrom(b, n, k, t, T) BY <3>1 DEF FirstFrom
    <3>5. Emits(b, n, (SubSeq(b, n, k - 1) \o orig[t]) \o z, r, T, orig) BY <1>1, <3>3, <3>4, Round
    <3> DEFINE o == (SubSeq(b, n, k - 1) \o orig[t]) \o z
    <3>6. g[n] = [out |-> o, rest |-> r] BY <3>2 DEF z, r
    <3>7. Emits(b, n, o, r, T, orig) BY <3>5
    <3> HIDE DEF o
    <3>8. g[n].out = o /\ g[n].rest = r BY <3>6
    <3> QED BY <3>3, <3>6, <3>7, <3>8
  <2> QED BY <2>1, <2>2
<1> HIDE DEF S
<1>13. 1 .. N + 1 \subseteq S BY <1>0, <1>12, DownwardSet
<1>14. 1 \in S BY <1>0, <1>13
<1>15. Good(1) BY <1>14 DEF S
<1> DEFINE z == g[1].out
           r == g[1].rest
<1>16. r \in Text /\ Free(r, T) /\ g[1] = [out |-> z, rest |-> r] /\ Emits(b, 1, z, r, T, orig) BY <1>15
<1> HIDE DEF z, r
<1>17. PICK q \in Text : SubSeq(b, 1, N) = q \o r /\ Resolve(q, T, orig) = z /\ Ended(q, T)
  BY <1>16 DEF Emits
<1>18. SubSeq(b, 1, N) = b BY SubSeqFull DEF Text
<1> QED BY <1>10, <1>16, <1>17, <1>18 DEF orig

-------------------------------------------------------------------------------
(* RestoreStream: where a text may be cut. *)

LEMMA PartedPrefix ==
    ASSUME NEW T, NEW orig, Stands(T, orig), NEW a \in Text, NEW b \in Text, NEW c \in Text, Parted(a, b \o c, T)
    PROVE  Parted(a, b, T)
<1> SUFFICES ASSUME NEW m \in 1 .. Len(a), NEW u \in T, OccursAt(a \o b, m, u)
             PROVE  m + Len(u) - 1 <= Len(a)
  BY DEF Parted
<1>1. u \in Text /\ m \in Nat \ {0} BY DEF Stands, Shaped, Text
<1>2. a \o b \in Text /\ m + Len(u) - 1 <= Len(a \o b) BY Joined DEF OccursAt
<1>3. OccursAt((a \o b) \o c, m, u) BY <1>1, <1>2, OccursJoined
<1>4. (a \o b) \o c = a \o (b \o c)
  <2>a. Assoc(a, b, c) BY Associates
  <2> QED BY <2>a DEF Assoc
<1>5. OccursAt(a \o (b \o c), m, u) BY <1>3, <1>4
<1> QED BY <1>5 DEF Parted

LEMMA PartedJoin ==
    ASSUME NEW T, NEW orig, Stands(T, orig), NEW a \in Text, NEW b \in Text, NEW c \in Text,
           Parted(a, b \o c, T), Parted(b, c, T)
    PROVE  Parted(a \o b, c, T)
<1> DEFINE s == (a \o b) \o c
<1>0. /\ a \o b \in Text /\ Len(a \o b) = Len(a) + Len(b) /\ b \o c \in Text
      /\ Len(a) \in Nat /\ Len(b) \in Nat
  BY Joined DEF Text
<1>1. s = a \o (b \o c)
  <2>a. Assoc(a, b, c) BY Associates
  <2> QED BY <2>a DEF Assoc
<1> SUFFICES ASSUME NEW m \in 1 .. Len(a) + Len(b), NEW u \in T, OccursAt(s, m, u)
             PROVE  m + Len(u) - 1 <= Len(a) + Len(b)
  BY <1>0 DEF Parted
<1> HIDE DEF s
<1>2. u \in Text /\ Len(u) \in Nat BY DEF Stands, Shaped, Text
<1>3. CASE m <= Len(a)
  <2>1. m \in 1 .. Len(a) BY <1>0, <1>3
  <2>2. m + Len(u) - 1 <= Len(a) BY <1>1, <2>1 DEF Parted
  <2> QED BY <1>0, <1>2, <2>2
<1>4. CASE ~(m <= Len(a))
  <2> DEFINE i == m - Len(a)
  <2>1. i \in 1 .. Len(b) /\ i \in Nat \ {0} /\ Len(a) + i = m BY <1>0, <1>4
  <2> HIDE DEF i
  <2>2. OccursAt(a \o (b \o c), Len(a) + i, u) BY <1>1, <2>1
  <2>3. OccursAt(b \o c, i, u) BY <1>0, <1>2, <2>1, <2>2, OccursJoined
  <2>4. i + Len(u) - 1 <= Len(b) BY <2>1, <2>3 DEF Parted
  <2> QED BY <1>0, <1>2, <2>1, <2>4
<1> QED BY <1>3, <1>4

\* Nothing straddles the end of a token.
LEMMA EndedParted ==
    ASSUME NEW T, NEW orig, Stands(T, orig), NEW q \in Text, NEW c \in Text, Ended(q, T)
    PROVE  Parted(q, c, T)
<1>1. CASE q = <<>>
  <2>1. Len(q) = 0 BY <1>1
  <2> QED BY <2>1 DEF Parted
<1>2. CASE q # <<>>
  <2>1. PICK a \in Text, t \in T : q = a \o t BY <1>2 DEF Ended
  <2>2. Shaped(t) /\ t \in Text /\ Len(t) \in Nat /\ Len(t) >= 2 /\ Len(a) \in Nat
    <3>1. Shaped(t) BY DEF Stands
    <3>2. t \in Text /\ Len(t) >= 2 BY <3>1 DEF Shaped
    <3> QED BY <3>1, <3>2, Small
  <2>3. /\ q \o c \in Text /\ Len(q) = Len(a) + Len(t)
    <3>1. Len(a \o t) = Len(a) + Len(t) BY <2>2, Joined
    <3> QED BY <2>1, <3>1, Joined
  <2>4. OccursAt(q \o c, Len(a) + 1, t)
    <3>1. OccursAt(t \o c, 1, t)
      <4>1. SubSeq(t \o c, 1, Len(t)) = t /\ Len(t \o c) = Len(t) + Len(c) /\ t \o c \in Text BY <2>2, Joined
      <4>2. 1 + Len(t) - 1 = Len(t) /\ Len(c) \in Nat BY <2>2 DEF Text
      <4>3. Len(t) <= Len(t \o c) BY <2>2, <4>1, <4>2
      <4> QED BY <4>1, <4>2, <4>3 DEF OccursAt
    <3>2. t \o c \in Text /\ 1 \in Nat \ {0} BY <2>2, Joined
    <3>3. OccursAt(a \o (t \o c), Len(a) + 1, t) BY <2>2, <3>1, <3>2, OccursJoined
    <3>4. (a \o t) \o c = a \o (t \o c)
      <4>a. Assoc(a, t, c) BY <2>2, Associates
      <4> QED BY <4>a DEF Assoc
    <3> QED BY <2>1, <3>3, <3>4
  <2> SUFFICES ASSUME NEW m \in 1 .. Len(q), NEW u \in T, OccursAt(q \o c, m, u)
               PROVE  m + Len(u) - 1 <= Len(q)
    BY DEF Parted
  <2>5. Shaped(u) BY DEF Stands
  <2>6. m \in Nat \ {0} /\ Len(a) + 1 \in Nat \ {0} /\ m <= (Len(a) + 1) + Len(t) - 1 BY <2>2, <2>3
  <2>7. m + Len(u) - 1 <= (Len(a) + 1) + Len(t) - 1 BY <2>2, <2>3, <2>4, <2>5, <2>6, Fence
  <2> QED BY <2>2, <2>3, <2>7
<1> QED BY <1>1, <1>2

LEMMA FreeParts ==
    ASSUME NEW T, NEW orig, Stands(T, orig), NEW a \in Text, NEW b \in Text, Free(a \o b, T)
    PROVE  Free(a, T) /\ Free(b, T)
<1>0. Len(a) \in Nat /\ Len(b) \in Nat /\ Len(a \o b) = Len(a) + Len(b) BY Joined DEF Text
<1>1. ASSUME NEW n \in 1 .. Len(a), NEW u \in T, OccursAt(a, n, u) PROVE FALSE
  <2>1. u \in Text /\ n \in Nat \ {0} /\ n + Len(u) - 1 <= Len(a) BY <1>1 DEF Stands, Shaped, OccursAt
  <2>2. OccursAt(a \o b, n, u) BY <1>1, <2>1, OccursJoined
  <2>3. n \in 1 .. Len(a \o b) BY <1>0
  <2> QED BY <2>2, <2>3 DEF Free, TokensAt
<1>2. ASSUME NEW n \in 1 .. Len(b), NEW u \in T, OccursAt(b, n, u) PROVE FALSE
  <2>1. u \in Text /\ n \in Nat \ {0} BY DEF Stands, Shaped
  <2>2. OccursAt(a \o b, Len(a) + n, u) BY <1>2, <2>1, OccursJoined
  <2>3. Len(a) + n \in 1 .. Len(a \o b) BY <1>0
  <2> QED BY <2>2, <2>3 DEF Free, TokensAt
<1> QED BY <1>1, <1>2 DEF Free, TokensAt

-------------------------------------------------------------------------------
(* RestoreStream: the hold-back. *)

\* The window starts at a character, and is the latest such start that leaves room
\* for a token.
LEMMA Window ==
    ASSUME NEW b \in Text
    PROVE  LET w == WindowStart(b)
           IN  /\ w \in 0 .. Len(b) /\ IsCharBoundary(b, w)
               /\ w = 0 \/ w + MaxTokenLen - 1 <= Len(b)
               /\ \A n \in 0 .. Len(b) :
                    n + MaxTokenLen - 1 <= Len(b) /\ IsCharBoundary(b, n) => n <= w
<1> DEFINE raw == IF Len(b) > MaxTokenLen - 1 THEN Len(b) - (MaxTokenLen - 1) ELSE 0
           S == {n \in 0 .. raw : n = 0 \/ IsCharBoundary(b, n)}
           w == Max(S)
<1>0. Len(b) \in Nat /\ MaxTokenLen \in Nat \ {0} BY TokenGrammar DEF Text
<1>1. /\ raw \in 0 .. Len(b) /\ (raw = 0 \/ raw + MaxTokenLen - 1 <= Len(b))
      /\ \A n \in 0 .. Len(b) : n + MaxTokenLen - 1 <= Len(b) => n <= raw
  BY <1>0
<1>2. WindowStart(b) = w BY DEF WindowStart
<1> HIDE DEF raw
<1>3. 0 \in S /\ S \in SUBSET (0 .. raw) /\ raw \in Nat BY <1>0, <1>1
<1>4. S # {} BY <1>3
<1>5. w \in S /\ \A y \in S : y <= w
  <2> HIDE DEF S
  <2> QED BY <1>3, <1>4, StreamMax
<1> HIDE DEF w
<1>6. IsCharBoundary(b, w)
  <2>1. IsCharBoundary(b, 0) BY DEF IsCharBoundary
  <2> QED BY <1>5, <2>1
<1>7. \A n \in 0 .. Len(b) : n + MaxTokenLen - 1 <= Len(b) /\ IsCharBoundary(b, n) => n <= w
  <2> SUFFICES ASSUME NEW n \in 0 .. Len(b), n + MaxTokenLen - 1 <= Len(b), IsCharBoundary(b, n)
               PROVE  n <= w
    OBVIOUS
  <2>1. n \in S BY <1>0, <1>1
  <2> QED BY <1>5, <2>1
<1>8. w \in 0 .. Len(b) /\ (w = 0 \/ w + MaxTokenLen - 1 <= Len(b)) BY <1>0, <1>1, <1>5
<1> QED BY <1>2, <1>6, <1>7, <1>8

\* "<" is a character of its own.
Whole(s) == \A n \in 1 .. Len(s) - 1 : s[n] = "<" => s[n + 1] # "c~"

\* What is released has room for a token behind each "<"; what is held starts
\* with "<" and has not.
LEMMA Held ==
    ASSUME NEW b \in Text, Whole(b)
    PROVE  LET k == Keep(b)
           IN  /\ k \in 0 .. Len(b)
               /\ k < Len(b) => b[k + 1] = "<" /\ Len(b) - k <= MaxTokenLen - 1
               /\ \A i \in 1 .. k : b[i] = "<" => i + MaxTokenLen - 1 <= Len(b)
<1> DEFINE w == WindowStart(b)
           S == {n \in w + 1 .. Len(b) : b[n] = "<"}
           m == Min(S)
<1>0. Len(b) \in Nat /\ MaxTokenLen \in Nat \ {0} BY TokenGrammar DEF Text
<1>1. /\ w \in 0 .. Len(b) /\ (w = 0 \/ w + MaxTokenLen - 1 <= Len(b))
      /\ \A n \in 0 .. Len(b) :
           n + MaxTokenLen - 1 <= Len(b) /\ IsCharBoundary(b, n) => n <= w
  BY Window
<1>2. Keep(b) = IF S = {} THEN Len(b) ELSE m - 1 BY DEF Keep
<1> HIDE DEF w
<1>3. ASSUME S # {} PROVE m \in S /\ \A y \in S : m <= y
  <2>1. S \in SUBSET Nat BY <1>0, <1>1
  <2> HIDE DEF S
  <2> QED BY <1>3, <2>1, StreamMin
<1> HIDE DEF m
<1> DEFINE k == Keep(b)
<1>4. k \in 0 .. Len(b) /\ \A i \in 1 .. k : i \notin S
  <2>1. CASE S = {} BY <1>0, <1>2, <2>1
  <2>2. CASE S # {}
    <3>1. m \in w + 1 .. Len(b) /\ k = m - 1 BY <1>2, <1>3, <2>2
    <3>2. k \in 0 .. Len(b) BY <1>0, <1>1, <3>1
    <3>3. ASSUME NEW i \in 1 .. k, i \in S PROVE FALSE
      <4>1. m <= i BY <1>3, <2>2, <3>3
      <4> QED BY <1>0, <1>1, <3>1, <4>1
    <3> QED BY <3>2, <3>3
  <2> QED BY <2>1, <2>2
<1> HIDE DEF k
<1>5. ASSUME NEW i \in 1 .. k, b[i] = "<" PROVE i + MaxTokenLen - 1 <= Len(b)
  <2>1. i \in 1 .. Len(b) /\ i \notin S BY <1>0, <1>4
  <2>2. i <= w BY <1>0, <1>1, <1>5, <2>1
  <2> QED BY <1>0, <1>1, <2>1, <2>2
<1>6. ASSUME k < Len(b) PROVE b[k + 1] = "<" /\ Len(b) - k <= MaxTokenLen - 1
  <2>1. S # {} BY <1>0, <1>2, <1>6 DEF k
  <2>2. k = m - 1 /\ m \in w + 1 .. Len(b) /\ b[m] = "<" BY <1>2, <1>3, <2>1 DEF k
  <2>3. ASSUME m + MaxTokenLen - 1 <= Len(b) PROVE FALSE
    <3>1. IsCharBoundary(b, m)
      <4>1. CASE m = Len(b) BY <4>1 DEF IsCharBoundary
      <4>2. CASE m # Len(b)
        <5>1. m \in 1 .. Len(b) - 1 BY <1>0, <1>1, <2>2, <4>2
        <5>2. b[m + 1] # "c~" BY <2>2, <5>1 DEF Whole
        <5> QED BY <5>2 DEF IsCharBoundary
      <4> QED BY <4>1, <4>2
    <3>2. m \in 0 .. Len(b) BY <1>0, <1>1, <2>2
    <3>3. m <= w BY <1>1, <2>3, <3>1, <3>2
    <3> QED BY <1>0, <1>1, <2>2, <3>3
  <2>4. k + 1 = m BY <1>0, <1>1, <2>2
  <2> QED BY <1>0, <1>1, <2>2, <2>3, <2>4
<1> QED BY <1>4, <1>5, <1>6 DEF k

-------------------------------------------------------------------------------
(* RestoreStream: the invariant and the theorems. *)

\* Whatever still arrives, no token runs from what was released into what is held.
Closed(p, b) == \A x \in Text : Parted(p, b \o x, StreamTokens)

\* What fragment f makes of released text p and held text b.
FedWith(p, b, f) ==
    LET g == RestoreTokens(b \o f)
        orig == Spliced(json)
        held == Suffix(g.rest, Keep(g.rest) + 1)
    IN  /\ IsCharBoundary(g.rest, WindowStart(g.rest))
        /\ held \in Text /\ Free(held, StreamTokens)
        /\ held = <<>> \/ (held[1] = "<" /\ Len(held) <= MaxTokenLen - 1)
        /\ \E q \in Text :
             /\ (p \o b) \o f = q \o held /\ Closed(q, held)
             /\ Resolve(q, StreamTokens, orig)
                  = (Resolve(p, StreamTokens, orig) \o g.out) \o Prefix(g.rest, Keep(g.rest))

LEMMA FeedText ==
    ASSUME json \in BOOLEAN, NEW p \in Text, NEW b \in Text, NEW f \in Text,
           Closed(p, b), Whole((p \o b) \o f)
    PROVE  FedWith(p, b, f)
<1> DEFINE T == StreamTokens
           orig == Spliced(json)
           g == RestoreTokens(b \o f)
           R(s) == Resolve(s, T, orig)
<1>1. Stands(T, orig) /\ \A t \in T : Len(t) \in 3 .. MaxTokenLen BY StreamStands
<1>2. b \o f \in Text BY Joined
<1>3. PICK q \in Text, r \in Text :
        b \o f = q \o r /\ g = [out |-> R(q), rest |-> r] /\ Free(r, T) /\ Ended(q, T)
  BY <1>2, RestoreLoop
<1> HIDE DEF orig
<1> DEFINE k == Keep(r)
           a == SubSeq(r, 1, k)
           h == SubSeq(r, k + 1, Len(r))
           y == (p \o q) \o a
<1>4. g.out = R(q) /\ g.rest = r BY <1>3
<1>5. Prefix(g.rest, Keep(g.rest)) = a /\ Suffix(g.rest, Keep(g.rest) + 1) = h
  BY <1>4 DEF Prefix, Suffix
<1> HIDE DEF g
<1>6. /\ p \o b \in Text /\ (p \o b) \o f \in Text /\ p \o q \in Text /\ q \o r \in Text
      /\ (p \o b) \o f = (p \o q) \o r
  <2>1. p \o b \in Text /\ p \o q \in Text /\ q \o r \in Text BY Joined
  <2>2. (p \o b) \o f = p \o (b \o f) /\ (p \o q) \o r = p \o (q \o r)
    <3>a. Assoc(p, b, f) /\ Assoc(p, q, r) BY Associates
    <3> QED BY <3>a DEF Assoc
  <2> QED BY <1>3, <2>1, <2>2, Joined
<1>7. Whole(r)
  <2> SUFFICES ASSUME NEW n \in 1 .. Len(r) - 1, r[n] = "<" PROVE r[n + 1] # "c~"
    BY DEF Whole
  <2> DEFINE s == (p \o q) \o r
             d == Len(p \o q)
  <2>1. /\ Whole(s) /\ d \in Nat /\ Len(r) \in Nat /\ Len(s) = d + Len(r)
        /\ \A i \in 1 .. Len(r) : s[d + i] = r[i]
    <3> DEFINE front == p \o q
    <3>1. front \in Text /\ Whole(front \o r) BY <1>6, Joined
    <3> HIDE DEF front
    <3>2. /\ Len(front \o r) = Len(front) + Len(r) /\ \A i \in 1 .. Len(r) : (front \o r)[Len(front) + i] = r[i]
      BY <3>1, Joined
    <3>3. Len(front) \in Nat /\ Len(r) \in Nat BY <3>1, Small
    <3> QED BY <3>1, <3>2, <3>3 DEF front
  <2> HIDE DEF s, d
  <2>2. /\ d + n \in 1 .. Len(s) - 1 /\ (d + n) + 1 = d + (n + 1)
        /\ n \in 1 .. Len(r) /\ n + 1 \in 1 .. Len(r)
    BY <2>1
  <2>3. s[d + n] = r[n] /\ s[(d + n) + 1] = r[n + 1] BY <2>1, <2>2
  <2>4. s[d + n] = "<" => s[(d + n) + 1] # "c~" BY <2>1, <2>2 DEF Whole
  <2> QED BY <2>3, <2>4
<1>8. /\ k \in 0 .. Len(r)
      /\ k < Len(r) => r[k + 1] = "<" /\ Len(r) - k <= MaxTokenLen - 1
      /\ \A i \in 1 .. k : r[i] = "<" => i + MaxTokenLen - 1 <= Len(r)
  BY <1>7, Held
<1> HIDE DEF k
<1>9. a \in Text /\ Len(a) = k /\ h \in Text /\ Len(h) = Len(r) - k /\ a \o h = r BY <1>8, Cut
<1>10. h = <<>> \/ (h[1] = "<" /\ Len(h) <= MaxTokenLen - 1)
  <2>0. Len(r) \in Nat BY DEF Text
  <2>1. CASE k < Len(r)
    <3>1. k + 1 \in Nat \ {0} /\ Len(r) <= Len(r) /\ 1 \in 1 .. Len(r) - (k + 1) + 1 /\ (k + 1) + 1 - 1 = k + 1
      BY <1>8, <2>0, <2>1
    <3>2. h[1] = r[(k + 1) + 1 - 1] BY <2>0, <3>1, Part
    <3> QED BY <1>8, <1>9, <2>1, <3>1, <3>2
  <2>2. CASE ~(k < Len(r))
    <3>1. Len(h) = 0 BY <1>8, <1>9, <2>0, <2>2
    <3> QED BY <1>9, <3>1, Small
  <2> QED BY <2>1, <2>2
<1> HIDE DEF a, h
<1>11. Free(a, T) /\ Free(h, T) BY <1>1, <1>3, <1>9, FreeParts
<1>12. ASSUME NEW x \in Text PROVE Parted(a, h \o x, T)
  <2> SUFFICES ASSUME NEW i \in 1 .. Len(a), NEW u \in T, OccursAt(a \o (h \o x), i, u) PROVE FALSE
    BY DEF Parted
  <2>1. u \in Text /\ Shaped(u) /\ Len(u) \in Nat /\ Len(u) <= MaxTokenLen /\ u[1] = "<" /\ Len(u) >= 2
    <3>1. u \in Text /\ Shaped(u) /\ Len(u) >= 2 BY <1>1 DEF Stands, Shaped
    <3>2. u[1] = "<" BY <3>1 DEF Shaped, Text
    <3> QED BY <1>1, <3>1, <3>2 DEF Text
  <2>0. Len(r) \in Nat /\ MaxTokenLen \in Nat BY TokenGrammar DEF Text
  <2>2. r \o x \in Text /\ OccursAt(r \o x, i, u) /\ \A n \in 1 .. Len(r) : (r \o x)[n] = r[n]
    <3>0. a \in Text /\ h \in Text /\ x \in Text BY <1>9
    <3>a. Assoc(a, h, x) BY <3>0, Associates
    <3>1. (a \o h) \o x = a \o (h \o x) BY <3>a DEF Assoc
    <3> QED BY <1>9, <3>1, Joined
  <2>3. i \in Nat \ {0} /\ i \in 1 .. k /\ i \in 1 .. Len(r) BY <1>8, <1>9, <2>0
  <2>4. r[i] = "<"
    <3>1. \A j \in 1 .. Len(u) : (r \o x)[i + j - 1] = u[j]
      <4> DEFINE z == r \o x
      <4>1. z \in Text /\ OccursAt(z, i, u) BY <2>2
      <4> HIDE DEF z
      <4>2. \A j \in 1 .. Len(u) : z[i + j - 1] = u[j] BY <2>1, <2>3, <4>1, OccursChars
      <4> QED BY <4>2 DEF z
    <3>2. 1 \in 1 .. Len(u) /\ i + 1 - 1 = i BY <2>1, <2>3
    <3>3. (r \o x)[i] = u[1] BY <3>1, <3>2
    <3> QED BY <2>1, <2>2, <2>3, <3>3
  <2>5. i + Len(u) - 1 <= Len(r) BY <1>8, <2>0, <2>1, <2>3, <2>4
  <2>6. OccursAt(r, i, u) BY <2>1, <2>2, <2>3, <2>5, OccursJoined
  <2> QED BY <1>3, <2>3, <2>6 DEF Free, TokensAt
<1>13. ASSUME NEW x \in Text PROVE Parted(p \o q, r \o x, T)
  <2>1. r \o x \in Text /\ f \o x \in Text BY Joined
  <2>2. b \o (f \o x) = q \o (r \o x)
    <3>1. (b \o f) \o x = b \o (f \o x)
      <4>a. Assoc(b, f, x) BY Associates
      <4> QED BY <4>a DEF Assoc
    <3>2. (q \o r) \o x = q \o (r \o x)
      <4>a. Assoc(q, r, x) BY Associates
      <4> QED BY <4>a DEF Assoc
    <3> QED BY <1>3, <3>1, <3>2
  <2>3. Parted(p, b \o (f \o x), T) BY <2>1 DEF Closed
  <2>4. Parted(p, q \o (r \o x), T) BY <2>2, <2>3
  <2>5. Parted(q, r \o x, T) BY <1>1, <1>3, <2>1, EndedParted
  <2> QED BY <1>1, <2>1, <2>4, <2>5, PartedJoin
<1>14. y \in Text /\ Closed(y, h)
  <2>1. y \in Text BY <1>6, <1>9, Joined
  <2> SUFFICES ASSUME NEW x \in Text PROVE Parted(y, h \o x, T)
    BY <2>1 DEF Closed
  <2>2. h \o x \in Text BY <1>9, Joined
  <2>3. r \o x = a \o (h \o x)
    <3>1. a \in Text /\ h \in Text /\ x \in Text BY <1>9
    <3>2. Assoc(a, h, x) BY <3>1, Associates
    <3>3. (a \o h) \o x = a \o (h \o x) BY <3>2 DEF Assoc
    <3> QED BY <1>9, <3>3
  <2>4. Parted(p \o q, a \o (h \o x), T) BY <1>13, <2>3
  <2>5. Parted(a, h \o x, T) BY <1>12
  <2> QED BY <1>1, <1>6, <1>9, <2>2, <2>4, <2>5, PartedJoin
<1>15. R(y) = (R(p) \o R(q)) \o a
  <2>1. R(a) = a BY <1>1, <1>9, <1>11, ResolvePlain DEF Free
  <2>2. Parted(p \o q, a, T)
    <3>1. Parted(p \o q, r \o <<>>, T) BY <1>13, Small
    <3>2. Parted(p \o q, a \o h, T) BY <1>9, <3>1, Small
    <3> QED BY <1>1, <1>6, <1>9, <3>2, PartedPrefix
  <2>3. R(y) = R(p \o q) \o R(a) BY <1>1, <1>6, <1>9, <2>2, ResolveJoined
  <2>4. Parted(p, q, T)
    <3>1. Parted(p, b \o f, T) BY DEF Closed
    <3>2. Parted(p, q \o r, T) BY <1>3, <3>1
    <3> QED BY <1>1, <3>2, PartedPrefix
  <2>5. R(p \o q) = R(p) \o R(q) BY <1>1, <2>4, ResolveJoined
  <2> QED BY <2>1, <2>3, <2>5
<1>16. (p \o b) \o f = y \o h
  <2>1. (p \o q) \o r = ((p \o q) \o a) \o h
    <3> DEFINE z == p \o q
    <3>1. z \in Text /\ a \in Text /\ h \in Text BY <1>6, <1>9
    <3> HIDE DEF z
    <3>2. (z \o a) \o h = z \o (a \o h)
      <4>a. Assoc(z, a, h) BY <3>1, Associates
      <4> QED BY <4>a DEF Assoc
    <3>3. z \o r = (z \o a) \o h BY <1>9, <3>2
    <3> QED BY <3>3 DEF z
  <2> QED BY <1>6, <2>1
<1> HIDE DEF y
<1>17. IsCharBoundary(g.rest, WindowStart(g.rest)) BY <1>4, Window
<1>18. R(y) = (R(p) \o g.out) \o a BY <1>4, <1>15
<1> QED BY <1>5, <1>9, <1>10, <1>11, <1>14, <1>16, <1>17, <1>18 DEF g, orig, FedWith

\* Between calls: what was fed is a released part, of which the client has what
\* restore_text makes of it, and the held part, in which no token is complete.
StreamInv ==
    /\ json \in BOOLEAN /\ ended \in BOOLEAN /\ panicked = FALSE
    /\ fed \in Text /\ buffer \in Text /\ Whole(fed) /\ Free(buffer, StreamTokens)
    /\ buffer = <<>> \/ (buffer[1] = "<" /\ Len(buffer) <= MaxTokenLen - 1)
    /\ ended => buffer = <<>> /\ out = Resolve(fed, StreamTokens, Spliced(json))
    /\ ~ended => \E p \in Text : /\ fed = p \o buffer /\ Closed(p, buffer)
                                 /\ out = Resolve(p, StreamTokens, Spliced(json))

LEMMA StreamInvInit == StreamInit => StreamInv
<1> SUFFICES ASSUME StreamInit PROVE StreamInv OBVIOUS
<1> DEFINE e == <<>>
<1>1. e \in Text /\ Len(e) = 0 /\ e = e \o e BY Small
<1>2. json \in BOOLEAN /\ ended = FALSE /\ panicked = FALSE /\ fed = e /\ buffer = e /\ out = e
  BY DEF StreamInit
<1>3. Stands(StreamTokens, Spliced(json)) BY <1>2, StreamStands
<1>4. out = Resolve(e, StreamTokens, Spliced(json)) BY <1>1, <1>2, <1>3, ResolveText
<1> HIDE DEF e
<1>5. Whole(e) /\ Free(e, StreamTokens) /\ Closed(e, e) BY <1>1 DEF Whole, Free, Closed, Parted
<1> QED BY <1>1, <1>2, <1>4, <1>5 DEF StreamInv, e

\* What the client has when the stream ends is what restore_text makes of the whole.
LEMMA StreamWhole ==
    ASSUME StreamInv
    PROVE  out \o buffer = Resolve(fed, StreamTokens, Spliced(json))
<1> DEFINE T == StreamTokens
           orig == Spliced(json)
<1>1. Stands(T, orig) BY StreamStands DEF StreamInv
<1>2. CASE ended
  <2>1. Resolve(fed, T, orig) \in Text BY <1>1, ResolveText DEF StreamInv
  <2> QED BY <1>2, <2>1, Small DEF StreamInv
<1>3. CASE ~ended
  <2>1. PICK p \in Text : fed = p \o buffer /\ Closed(p, buffer) /\ out = Resolve(p, T, orig)
    BY <1>3 DEF StreamInv
  <2>2. buffer \in Text /\ Free(buffer, T) BY DEF StreamInv
  <2>3. Parted(p, buffer \o <<>>, T) BY <2>1, Small DEF Closed
  <2>4. Parted(p, buffer, T) BY <2>2, <2>3, Small
  <2>5. Resolve(p \o buffer, T, orig) = Resolve(p, T, orig) \o Resolve(buffer, T, orig)
    BY <1>1, <2>2, <2>4, ResolveJoined
  <2>6. Resolve(buffer, T, orig) = buffer BY <1>1, <2>2, ResolvePlain DEF Free
  <2> QED BY <2>1, <2>5, <2>6
<1> QED BY <1>2, <1>3 DEF StreamInv

LEMMA StreamInvNext == StreamInv /\ [StreamNext]_streamVars => StreamInv'
<1> SUFFICES ASSUME StreamInv, [StreamNext]_streamVars PROVE StreamInv' OBVIOUS
<1>1. ASSUME NEW fragment \in Fragments, Feed(fragment) PROVE StreamInv'
  <2> DEFINE T == StreamTokens
             orig == Spliced(json)
             g == RestoreTokens(buffer \o fragment)
             held == Suffix(g.rest, Keep(g.rest) + 1)
  <2>1. /\ ~ended /\ fed' = fed \o fragment /\ json' = json /\ ended' = ended
        /\ panicked' = ~IsCharBoundary(g.rest, WindowStart(g.rest))
        /\ out' = (out \o g.out) \o Prefix(g.rest, Keep(g.rest))
        /\ buffer' = held
    BY <1>1 DEF Feed
  <2>2. PICK p \in Text : fed = p \o buffer /\ Closed(p, buffer) /\ out = Resolve(p, T, orig)
    BY <2>1 DEF StreamInv
  <2>3. fragment \in Text /\ buffer \in Text /\ fed \in Text /\ json \in BOOLEAN /\ Whole(fed)
    BY StringText, TokenGrammar DEF StreamInv
  <2>4. fed \o fragment \in Text /\ Whole(fed \o fragment)
    <3> DEFINE s == fed \o fragment
               d == Len(fed)
    <3>1. /\ s \in Text /\ d \in Nat /\ Len(fragment) \in Nat /\ Len(s) = d + Len(fragment)
          /\ \A i \in 1 .. d : s[i] = fed[i]
      BY <2>3, Joined DEF Text
    <3>a. \A j \in 1 .. Len(fragment) : s[d + j] = fragment[j] BY <2>3, Joined
    <3>2. \A j \in 1 .. Len(fragment) : fragment[j] = "c~" => j > 1 /\ fragment[j - 1] # "<"
      BY TokenGrammar
    <3> HIDE DEF s
    <3>3. ASSUME NEW n \in 1 .. Len(s) - 1, s[n] = "<", s[n + 1] = "c~" PROVE FALSE
      <4>1. CASE n < d
        <5>1. n \in 1 .. d - 1 /\ n \in 1 .. d /\ n + 1 \in 1 .. d BY <3>1, <4>1
        <5>2. fed[n] = "<" /\ fed[n + 1] = "c~" BY <3>1, <3>3, <5>1
        <5> QED BY <2>3, <5>1, <5>2 DEF Whole
      <4>2. CASE n >= d
        <5> DEFINE j == n + 1 - d
        <5>1. j \in 1 .. Len(fragment) /\ d + j = n + 1 BY <3>1, <4>2
        <5> HIDE DEF j
        <5>2. fragment[j] = "c~" BY <3>3, <3>a, <5>1
        <5>3. j > 1 /\ fragment[j - 1] # "<" BY <3>2, <5>1, <5>2
        <5>4. j - 1 \in 1 .. Len(fragment) /\ d + (j - 1) = n BY <3>1, <5>1, <5>3
        <5>5. s[d + (j - 1)] = fragment[j - 1] BY <3>a, <5>4
        <5> QED BY <3>3, <5>3, <5>4, <5>5
      <4> QED BY <3>1, <4>1, <4>2
    <3>4. Whole(s) BY <3>3 DEF Whole
    <3> QED BY <3>1, <3>4 DEF s
  <2>5. /\ IsCharBoundary(g.rest, WindowStart(g.rest))
        /\ held \in Text /\ Free(held, T)
        /\ held = <<>> \/ (held[1] = "<" /\ Len(held) <= MaxTokenLen - 1)
        /\ \E q \in Text :
             /\ (p \o buffer) \o fragment = q \o held /\ Closed(q, held)
             /\ Resolve(q, T, orig)
                  = (Resolve(p, T, orig) \o g.out) \o Prefix(g.rest, Keep(g.rest))
    <3>1. FedWith(p, buffer, fragment) BY <2>2, <2>3, <2>4, FeedText
    <3> QED BY <3>1 DEF FedWith
  <2> HIDE DEF g, held, orig
  <2>6. \E q \in Text : fed' = q \o buffer' /\ Closed(q, buffer') /\ out' = Resolve(q, T, orig)
    BY <2>1, <2>2, <2>5
  <2>7. orig' = orig BY <2>1 DEF orig, Spliced, Splice
  <2> QED BY <2>1, <2>3, <2>4, <2>5, <2>6, <2>7 DEF StreamInv, orig, Closed
<1>2. CASE Finish
  <2>1. /\ ended' = TRUE /\ out' = out \o buffer /\ buffer' = <<>>
        /\ json' = json /\ fed' = fed /\ panicked' = panicked
    BY <1>2 DEF Finish
  <2>2. out' = Resolve(fed, StreamTokens, Spliced(json)) BY <2>1, StreamWhole
  <2>3. Spliced(json)' = Spliced(json) BY <2>1 DEF Spliced, Splice
  <2>4. <<>> \in Text /\ Free(<<>>, StreamTokens) BY Small DEF Free
  <2> QED BY <2>1, <2>2, <2>3, <2>4 DEF StreamInv
<1>3. CASE UNCHANGED streamVars
  <2>1. /\ json' = json /\ buffer' = buffer /\ fed' = fed /\ out' = out /\ panicked' = panicked /\ ended' = ended
    BY <1>3 DEF streamVars
  <2>2. Spliced(json)' = Spliced(json) BY <2>1 DEF Spliced, Splice
  <2> QED BY <2>1, <2>2 DEF StreamInv
<1>4. CASE Done BY <1>3, <1>4 DEF Done
<1> QED BY <1>1, <1>2, <1>3, <1>4 DEF StreamNext

LEMMA StreamInvariant == StreamSpec => []StreamInv
<1>1. StreamInit => StreamInv BY StreamInvInit
<1>2. StreamInv /\ [StreamNext]_streamVars => StreamInv' BY StreamInvNext
<1> QED BY <1>1, <1>2, PTL DEF StreamSpec

\* However the upstream cuts its text into fragments, whatever the tokens and the
\* originals, RestoreStream::feed and finish give the client what restore_text makes
\* of the whole text, and no slice falls inside a character.
THEOREM StreamMatchesWholeThm == StreamSpec => []StreamMatchesWhole
<1>1. StreamInv => StreamMatchesWhole
  <2> SUFFICES ASSUME StreamInv PROVE StreamMatchesWhole OBVIOUS
  <2>1. fed \in Text /\ json \in BOOLEAN /\ panicked = FALSE BY DEF StreamInv
  <2>2. RestoreWhole(fed, json) = Resolve(fed, StreamTokens, Spliced(json)) BY <2>1, WholeText
  <2>3. out \o buffer = Resolve(fed, StreamTokens, Spliced(json)) BY StreamWhole
  <2> QED BY <2>1, <2>2, <2>3 DEF StreamMatchesWhole, Restored
<1>2. StreamSpec => []StreamInv BY StreamInvariant
<1> QED BY <1>1, <1>2, PTL

\* RestoreStream::feed never holds back max_token_len bytes or more, and what it
\* holds starts with the "<" of a possible token.
THEOREM HoldBackBoundedThm == StreamSpec => []HoldBackBounded
<1>1. StreamInv => HoldBackBounded BY DEF StreamInv, HoldBackBounded
<1>2. StreamSpec => []StreamInv BY StreamInvariant
<1> QED BY <1>1, <1>2, PTL

-------------------------------------------------------------------------------
(* Redaction: the numbers in tokens. *)

\* The texts that Render gives.
Number == {s \in Seq(Digits) : Len(s) >= 1}

LEMMA DigitDistinct ==
    /\ \A i, j \in 1 .. 10 : Digit[i] = Digit[j] => i = j
    /\ \A i \in 2 .. 10 : Digit[i] # "0"
    /\ Digit[1] = "0"
<1>1. \A i, j \in 1 .. 10 : Digit[i] = Digit[j] => i = j BY DEF Digit
<1>2. Digit[1] = "0" BY DEF Digit
<1> QED BY <1>1, <1>2

\* The equations of Render.
LEMMA RenderSteps ==
    ASSUME NEW n \in Nat
    PROVE  /\ Render(n) \in Number
           /\ n < Base => Render(n) = <<Digit[n + 1]>>
           /\ n >= Base => Render(n) = Append(Render(n \div Base), Digit[(n % Base) + 1])
<1> DEFINE St(k, f) == IF k < Base THEN <<Digit[k + 1]>> ELSE Append(f[k \div Base], Digit[(k % Base) + 1])
           F == [Nat -> Number]
           step == [x \in Nat \X F |-> St(x[1], x[2])]
           Body(f) == [k \in Nat |-> St(k, f)]
           g == CHOOSE f : f = Body(f)
<1>0. Base \in 2 .. 10 BY RedactionAssumption
<1>1. ASSUME NEW k \in Nat
      PROVE  /\ k < Base => Digit[k + 1] \in Digits
             /\ Digit[(k % Base) + 1] \in Digits
             /\ k >= Base => k \div Base \in 0 .. k - 1
  <2>1. k < Base => k + 1 \in 1 .. Base BY <1>0
  <2>2. (k % Base) + 1 \in 1 .. Base BY <1>0
  <2>3. k >= Base => k \div Base \in 0 .. k - 1 BY <1>0
  <2> QED BY <2>1, <2>2, <2>3 DEF Digits
<1>2. ASSUME NEW d \in Digits PROVE <<d>> \in Number BY DEF Number
<1>3. ASSUME NEW s \in Number, NEW d \in Digits PROVE Append(s, d) \in Number BY DEF Number
<1>4. ASSUME NEW k \in Nat, NEW f \in F PROVE St(k, f) \in Number
  <2>1. CASE k < Base BY <1>1, <1>2, <2>1
  <2>2. CASE ~(k < Base)
    <3>1. k \div Base \in Nat BY <1>0, <1>1, <2>2
    <3>2. f[k \div Base] \in Number BY <3>1
    <3> QED BY <1>1, <1>3, <2>2, <3>2
  <2> QED BY <2>1, <2>2
<1>5. ASSUME NEW k \in Nat, NEW f, NEW h, \A i \in 0 .. k - 1 : f[i] = h[i] PROVE St(k, f) = St(k, h)
  BY <1>0, <1>1, <1>5
<1>6. ASSUME NEW k \in Nat, NEW f \in F PROVE step[<<k, f>>] = St(k, f)
  <2> HIDE DEF F, St
  <2> QED OBVIOUS
<1> HIDE DEF St
<1>7. FromBelow(step, Number)
  <2> HIDE DEF step
  <2> SUFFICES ASSUME NEW k \in Nat, NEW f \in [Nat -> Number], NEW h \in [Nat -> Number]
               PROVE  /\ step[<<k, f>>] \in Number
                      /\ (\A i \in 0 .. k - 1 : f[i] = h[i]) => step[<<k, f>>] = step[<<k, h>>]
    BY DEF FromBelow
  <2>1. step[<<k, f>>] = St(k, f) /\ step[<<k, h>>] = St(k, h) BY <1>6
  <2>2. St(k, f) \in Number BY <1>4
  <2>3. (\A i \in 0 .. k - 1 : f[i] = h[i]) => St(k, f) = St(k, h) BY <1>5
  <2> QED BY <2>1, <2>2, <2>3
<1>8. Digit[1] \in Digits /\ <<Digit[1]>> \in Number
  <2>1. 1 \in 1 .. Base BY <1>0
  <2> QED BY <1>2, <2>1 DEF Digits
<1>9. \E f : f = Body(f)
  <2> HIDE DEF step
  <2>1. PICK f \in F : \A k \in Nat : f[k] = step[<<k, f>>] BY <1>7, <1>8, CourseExists
  <2>2. f = Body(f) BY <1>6, <2>1
  <2> QED BY <2>2
<1>10. g = Body(g)
  <2> HIDE DEF Body
  <2> QED BY <1>9
<1>11. \A k \in Nat : Render(k) = g[k] BY DEF Render, St
<1> HIDE DEF g
<1>12. \A k \in Nat : g[k] = St(k, g) BY <1>10
<1> DEFINE S == {m \in 0 .. n : \A k \in 0 .. m : g[k] \in Number}
<1>13. ASSUME NEW m \in Nat, \A k \in 0 .. m - 1 : g[k] \in Number PROVE g[m] \in Number
  <2> DEFINE f == [k \in Nat |-> IF k < m THEN g[k] ELSE <<Digit[1]>>]
  <2>1. f \in F BY <1>8, <1>13
  <2>2. \A k \in 0 .. m - 1 : f[k] = g[k] OBVIOUS
  <2> HIDE DEF f, F
  <2>3. St(m, f) = St(m, g) BY <1>5, <2>2
  <2> QED BY <1>4, <1>12, <2>1, <2>3
<1>14. 0 \in S BY <1>13
<1>15. ASSUME NEW m \in 1 .. n, m - 1 \in S PROVE m \in S BY <1>13, <1>15
<1> HIDE DEF S
<1>16. 0 .. n \subseteq S BY <1>14, <1>15, InductiveSet
<1>17. g[n] \in Number
  <2>1. n \in S BY <1>16
  <2> QED BY <2>1 DEF S
<1>18. n < Base => Render(n) = <<Digit[n + 1]>> BY <1>11, <1>12 DEF St
<1>19. n >= Base => Render(n) = Append(Render(n \div Base), Digit[(n % Base) + 1])
  <2>1. n \div Base \in Nat BY <1>0
  <2>2. n >= Base => ~(n < Base) BY <1>0
  <2> QED BY <1>11, <1>12, <2>1, <2>2 DEF St
<1> QED BY <1>11, <1>17, <1>18, <1>19

\* A counter is rendered without a leading zero, and no two alike.
LEMMA RenderFacts ==
    /\ \A n \in Nat \ {0} : Render(n)[1] # "0"
    /\ \A m, n \in Nat : Render(m) = Render(n) => m = n
<1>0. Base \in 2 .. 10 BY RedactionAssumption
<1>1. ASSUME NEW n \in Nat \ {0} PROVE Render(n)[1] # "0"
  <2> DEFINE S == {k \in Nat \ {0} : Render(k)[1] = "0"}
  <2> SUFFICES ASSUME S # {} PROVE FALSE OBVIOUS
  <2>1. PICK k \in S : \A j \in S : k <= j
    <3>1. S \in SUBSET Nat OBVIOUS
    <3> HIDE DEF S
    <3> QED BY <3>1, LeastNatural
  <2>2. k \in Nat \ {0} /\ Render(k)[1] = "0" OBVIOUS
  <2>3. CASE k < Base
    <3>1. Render(k) = <<Digit[k + 1]>> BY <2>2, <2>3, RenderSteps
    <3>2. k + 1 \in 2 .. 10 BY <1>0, <2>2, <2>3
    <3>3. Render(k)[1] = Digit[k + 1] BY <3>1
    <3> QED BY <2>2, <3>2, <3>3, DigitDistinct
  <2>4. CASE ~(k < Base)
    <3>1. k >= Base /\ k \div Base \in Nat \ {0} /\ k \div Base < k BY <1>0, <2>2, <2>4
    <3>2. Render(k) = Append(Render(k \div Base), Digit[(k % Base) + 1]) BY <2>2, <3>1, RenderSteps
    <3>3. Render(k \div Base) \in Seq(Digits) /\ Len(Render(k \div Base)) >= 1
      BY <3>1, RenderSteps DEF Number
    <3>4. Render(k)[1] = Render(k \div Base)[1] BY <3>2, <3>3
    <3>5. k \div Base \in S BY <2>2, <3>1, <3>4
    <3>6. k <= k \div Base BY <2>1, <3>5
    <3> QED BY <1>0, <2>2, <3>1, <3>6
  <2> QED BY <2>3, <2>4
<1>2. ASSUME NEW m \in Nat, NEW n \in Nat, Render(m) = Render(n) PROVE m = n
  <2> DEFINE Bad(k) == \E j \in Nat : j # k /\ Render(j) = Render(k)
             S == {k \in Nat : Bad(k)}
  <2> SUFFICES ASSUME S # {} PROVE FALSE BY <1>2
  <2>1. PICK k \in S : \A j \in S : k <= j
    <3>1. S \in SUBSET Nat OBVIOUS
    <3> HIDE DEF S
    <3> QED BY <3>1, LeastNatural
  <2>2. PICK j \in Nat : j # k /\ Render(j) = Render(k) OBVIOUS
  <2>a. k \in Nat OBVIOUS
  <2>3. j >= k
    <3>1. j \in S BY <2>2, <2>a
    <3> QED BY <2>1, <3>1
  <2> DEFINE Q(i) == Render(i \div Base)
             D(i) == Digit[(i % Base) + 1]
  <2>4. ASSUME NEW i \in Nat
        PROVE  /\ i < Base => Render(i) = <<Digit[i + 1]>> /\ i + 1 \in 1 .. 10
               /\ i >= Base => Render(i) = Append(Q(i), D(i))
               /\ Q(i) \in Seq(Digits) /\ Len(Q(i)) >= 1 /\ i \div Base \in Nat /\ (i % Base) + 1 \in 1 .. 10
    <3>1. i \div Base \in Nat /\ (i % Base) + 1 \in 1 .. 10 BY <1>0
    <3>2. i < Base => i + 1 \in 1 .. 10 BY <1>0
    <3> QED BY <3>1, <3>2, RenderSteps DEF Number
  <2> HIDE DEF Q, D, S
  <2>5. CASE j < Base
    <3>1. k < Base BY <1>0, <2>a, <2>2, <2>3, <2>5
    <3>2. Digit[j + 1] = Digit[k + 1]
      <4>1. <<Digit[j + 1]>> = <<Digit[k + 1]>> BY <2>2, <2>4, <2>5, <2>a, <3>1
      <4> QED BY <4>1
    <3>3. j + 1 = k + 1 BY <2>4, <2>5, <2>a, <3>1, <3>2, DigitDistinct
    <3> QED BY <2>2, <2>a, <3>3
  <2>6. CASE j >= Base /\ k < Base
    <3>1. Append(Q(j), D(j)) = <<Digit[k + 1]>> BY <2>2, <2>4, <2>6, <2>a
    <3>2. Len(Append(Q(j), D(j))) = Len(Q(j)) + 1 /\ Len(Q(j)) \in Nat BY <2>4
    <3>3. Len(<<Digit[k + 1]>>) = 1 OBVIOUS
    <3> QED BY <2>4, <3>1, <3>2, <3>3
  <2>7. CASE j >= Base /\ k >= Base
    <3>1. Append(Q(j), D(j)) = Append(Q(k), D(k)) BY <2>2, <2>4, <2>7, <2>a
    <3>2. Q(j) = Q(k) /\ D(j) = D(k)
      <4>1. Q(j) \in Seq(Digits) /\ Q(k) \in Seq(Digits) BY <2>4, <2>a
      <4> QED BY <3>1, <4>1, AppendInjective
    <3>3. (j % Base) + 1 = (k % Base) + 1 BY <2>4, <2>a, <3>2, DigitDistinct DEF D
    <3>4. j % Base = k % Base BY <1>0, <2>a, <3>3
    <3>5. j \div Base # k \div Base BY <1>0, <2>2, <2>a, <3>4
    <3>6. k \div Base \in S BY <2>4, <2>a, <3>2, <3>5 DEF S, Q
    <3>7. k <= k \div Base BY <2>1, <3>6
    <3> QED BY <1>0, <2>7, <2>a, <3>7
  <2> QED BY <1>0, <2>5, <2>6, <2>7, <2>a
<1> QED BY <1>1, <1>2

-------------------------------------------------------------------------------
(* Redaction: tokens. *)

\* The name part of a template that RedactionEngine::new accepts.
Named(p) == p \in Text /\ \A n \in 1 .. Len(p) : p[n] \in NameChars

\* The n-th token of the rule with this name part.
Token(p, n) == <<"<">> \o p \o Render(n) \o <<">">>

LEMMA NumberText ==
    ASSUME NEW n \in Nat
    PROVE  /\ Render(n) \in Text /\ Len(Render(n)) \in Nat /\ Len(Render(n)) >= 1
           /\ \A i \in 1 .. Len(Render(n)) : Render(n)[i] \in Digits /\ Render(n)[i] \in NameChars
<1>1. Render(n) \in Number BY RenderSteps
<1>2. Digits \subseteq Byte
  <2>1. Base \in 2 .. 10 BY RedactionAssumption
  <2>2. ASSUME NEW d \in Digits PROVE d \in Byte
    <3>1. PICK i \in 1 .. Base : d = Digit[i] BY DEF Digits
    <3>2. i \in 1 .. 10 BY <2>1
    <3> QED BY <3>1, <3>2 DEF Byte
  <2> QED BY <2>2
<1>3. Digits \subseteq NameChars BY RedactionAssumption
<1> DEFINE r == Render(n)
<1> HIDE DEF r
<1>4. r \in Seq(Digits) /\ Len(r) >= 1 BY <1>1 DEF Number, r
<1>5. r \in Text BY <1>2, <1>4 DEF Text
<1>6. \A i \in 1 .. Len(r) : r[i] \in Digits BY <1>4
<1> QED BY <1>3, <1>4, <1>5, <1>6 DEF r

\* t is made of "<", p, r and ">".
Spells(t, p, r) ==
    /\ t \in Text /\ p \in Text /\ r \in Text
    /\ Len(p) \in Nat /\ Len(r) \in Nat /\ Len(t) = Len(p) + Len(r) + 2
    /\ t[1] = "<" /\ t[Len(p) + Len(r) + 2] = ">"
    /\ \A i \in 1 .. Len(p) : t[1 + i] = p[i]
    /\ \A i \in 1 .. Len(r) : t[1 + Len(p) + i] = r[i]

\* The characters of a token.
LEMMA TokenChars ==
    ASSUME NEW p, Named(p), NEW n \in Nat
    PROVE  Spells(Token(p, n), p, Render(n))
<1> DEFINE r == Render(n)
           a == <<"<">>
           z == <<">">>
<1>1. r \in Text /\ Len(r) \in Nat /\ p \in Text /\ Len(p) \in Nat
  <2>1. p \in Text BY DEF Named
  <2> QED BY <2>1, NumberText, Small
<1>2. a \in Text /\ Len(a) = 1 /\ a[1] = "<" /\ z \in Text /\ Len(z) = 1 /\ z[1] = ">"
  <2>1. "<" \in Byte /\ ">" \in Byte BY DEF Byte
  <2> QED BY <2>1, Small
<1> HIDE DEF r, a, z
<1> DEFINE b == a \o p
<1>3. /\ b \in Text /\ Len(b) = 1 + Len(p) /\ b[1] = "<"
      /\ \A i \in 1 .. Len(p) : b[1 + i] = p[i]
  <2>1. 1 \in 1 .. Len(a) BY <1>2
  <2>2. /\ b \in Text /\ Len(b) = Len(a) + Len(p)
        /\ \A i \in 1 .. Len(a) : b[i] = a[i]
        /\ \A i \in 1 .. Len(p) : b[Len(a) + i] = p[i]
    BY <1>1, <1>2, Joined
  <2> HIDE DEF b
  <2> QED BY <1>1, <1>2, <2>1, <2>2
<1> HIDE DEF b
<1> DEFINE c == b \o r
<1>4. /\ c \in Text /\ Len(c) = 1 + Len(p) + Len(r) /\ c[1] = "<"
      /\ \A i \in 1 .. Len(p) : c[1 + i] = p[i]
      /\ \A i \in 1 .. Len(r) : c[1 + Len(p) + i] = r[i]
  <2>1. 1 \in 1 .. Len(b) /\ \A i \in 1 .. Len(p) : 1 + i \in 1 .. Len(b) BY <1>1, <1>3
  <2>2. /\ c \in Text /\ Len(c) = Len(b) + Len(r)
        /\ \A i \in 1 .. Len(b) : c[i] = b[i]
        /\ \A i \in 1 .. Len(r) : c[Len(b) + i] = r[i]
    BY <1>1, <1>3, Joined
  <2> HIDE DEF c
  <2> QED BY <1>3, <2>1, <2>2
<1> HIDE DEF c
<1> DEFINE t == c \o z
<1>5. /\ t \in Text /\ Len(t) = Len(p) + Len(r) + 2
      /\ t[1] = "<" /\ t[Len(p) + Len(r) + 2] = ">"
      /\ \A i \in 1 .. Len(p) : t[1 + i] = p[i]
      /\ \A i \in 1 .. Len(r) : t[1 + Len(p) + i] = r[i]
  <2>1. /\ 1 \in 1 .. Len(c) /\ Len(c) + 1 = Len(p) + Len(r) + 2 /\ 1 \in 1 .. Len(z)
        /\ \A i \in 1 .. Len(p) : 1 + i \in 1 .. Len(c)
        /\ \A i \in 1 .. Len(r) : 1 + Len(p) + i \in 1 .. Len(c)
    BY <1>1, <1>2, <1>4
  <2>2. /\ t \in Text /\ Len(t) = Len(c) + Len(z)
        /\ \A i \in 1 .. Len(c) : t[i] = c[i]
        /\ \A i \in 1 .. Len(z) : t[Len(c) + i] = z[i]
    BY <1>2, <1>4, Joined
  <2> HIDE DEF t
  <2>3. Len(t) = Len(p) + Len(r) + 2 BY <1>2, <2>1, <2>2
  <2>4. t[1] = "<" BY <1>4, <2>1, <2>2
  <2>5. t[Len(p) + Len(r) + 2] = ">"
    <3>1. t[Len(c) + 1] = ">" BY <1>2, <2>1, <2>2
    <3> QED BY <2>1, <3>1
  <2>6. \A i \in 1 .. Len(p) : t[1 + i] = p[i] BY <1>4, <2>1, <2>2
  <2>7. \A i \in 1 .. Len(r) : t[1 + Len(p) + i] = r[i] BY <1>4, <2>1, <2>2
  <2> QED BY <2>2, <2>3, <2>4, <2>5, <2>6, <2>7
<1>6. Token(p, n) = t BY DEF Token, t, c, b, a, r, z
<1> HIDE DEF t
<1>7. Spells(t, p, r) BY <1>1, <1>5 DEF Spells
<1> QED BY <1>6, <1>7 DEF r

LEMMA TokenShaped ==
    ASSUME NEW p, Named(p), NEW n \in Nat
    PROVE  Shaped(Token(p, n))
<1> DEFINE t == Token(p, n)
           r == Render(n)
<1>0. Spells(t, p, r) BY TokenChars
<1>2a. \A i \in 1 .. Len(r) : r[i] \in NameChars BY NumberText
<1> HIDE DEF t, r
<1>1. /\ t \in Text /\ Len(t) = Len(p) + Len(r) + 2
      /\ t[1] = "<" /\ t[Len(p) + Len(r) + 2] = ">"
      /\ \A i \in 1 .. Len(p) : t[1 + i] = p[i]
      /\ \A i \in 1 .. Len(r) : t[1 + Len(p) + i] = r[i]
  BY <1>0 DEF Spells
<1>2. /\ Len(r) \in Nat /\ Len(p) \in Nat
      /\ \A i \in 1 .. Len(p) : p[i] \in NameChars
      /\ \A i \in 1 .. Len(r) : r[i] \in NameChars
  BY <1>0, <1>2a DEF Named, Spells
<1>3. "<" \notin NameChars /\ ">" \notin NameChars BY RedactionAssumption
<1>4. ASSUME NEW i \in 1 .. Len(t), i # 1, i # Len(t) PROVE t[i] \in NameChars
  <2>1. CASE i <= 1 + Len(p)
    <3>1. i - 1 \in 1 .. Len(p) /\ 1 + (i - 1) = i BY <1>1, <1>2, <1>4, <2>1
    <3> QED BY <1>1, <1>2, <3>1
  <2>2. CASE i > 1 + Len(p)
    <3>1. i - (1 + Len(p)) \in 1 .. Len(r) /\ 1 + Len(p) + (i - (1 + Len(p))) = i BY <1>1, <1>2, <1>4, <2>2
    <3> QED BY <1>1, <1>2, <3>1
  <2> QED BY <1>2, <2>1, <2>2
<1>5. \A i \in 1 .. Len(t) : (t[i] = "<" <=> i = 1) /\ (t[i] = ">" <=> i = Len(t))
  <2> TAKE i \in 1 .. Len(t)
  <2>1. CASE i = 1 BY <1>1, <1>2, <2>1
  <2>2. CASE i = Len(t) BY <1>1, <1>2, <2>2
  <2>3. CASE i # 1 /\ i # Len(t) BY <1>3, <1>4, <2>3
  <2> QED BY <2>1, <2>2, <2>3
<1>6. Len(t) >= 2 BY <1>1, <1>2
<1>7. Shaped(t) BY <1>1, <1>5, <1>6 DEF Shaped
<1> QED BY <1>7 DEF t

\* q continues with a number.
Continues(q, p) ==
    /\ Len(q) < Len(p) /\ SubSeq(p, 1, Len(q)) = q
    /\ LET x == SubSeq(p, Len(q) + 1, Len(p))
       IN  x # <<>> /\ (\A i \in 1 .. Len(x) : x[i] \in Digits) /\ x[1] # "0"

\* Two rules mint the same token only if the name of one is the name of the other
\* and a number.
LEMMA TokenLonger ==
    ASSUME NEW p, NEW q, Named(p), Named(q), NEW m \in Nat \ {0}, NEW n \in Nat \ {0},
           Token(p, m) = Token(q, n), Len(q) <= Len(p)
    PROVE  (p = q /\ m = n) \/ Continues(q, p)
<1> DEFINE t == Token(p, m)
           r == Render(m)
           u == Render(n)
<1>0. m \in Nat /\ n \in Nat OBVIOUS
<1>a. Spells(t, p, r) /\ Spells(t, q, u) BY <1>0, TokenChars
<1>b. Len(r) >= 1 /\ Len(u) >= 1 /\ \A i \in 1 .. Len(u) : u[i] \in Digits BY <1>0, NumberText
<1>4. u[1] # "0" BY RenderFacts
<1>5. r = u => m = n BY <1>0, RenderFacts
<1> HIDE DEF t, r, u
<1>1. /\ t \in Text /\ Len(t) = Len(p) + Len(r) + 2
      /\ \A i \in 1 .. Len(p) : t[1 + i] = p[i]
      /\ \A i \in 1 .. Len(r) : t[1 + Len(p) + i] = r[i]
  BY <1>a DEF Spells
<1>2. /\ Len(t) = Len(q) + Len(u) + 2
      /\ \A i \in 1 .. Len(q) : t[1 + i] = q[i]
      /\ \A i \in 1 .. Len(u) : t[1 + Len(q) + i] = u[i]
  BY <1>a DEF Spells
<1>3. /\ Len(r) \in Nat /\ Len(p) \in Nat /\ Len(u) \in Nat /\ Len(q) \in Nat /\ p \in Text /\ q \in Text
      /\ Len(r) >= 1 /\ Len(u) >= 1 /\ r \in Text /\ u \in Text
      /\ \A i \in 1 .. Len(u) : u[i] \in Digits
  BY <1>a, <1>b DEF Spells
<1>6. Len(p) + Len(r) = Len(q) + Len(u)
  <2>1. Len(p) + Len(r) + 2 = Len(q) + Len(u) + 2 BY <1>1, <1>2
  <2>2. Len(p) \in Nat /\ Len(r) \in Nat /\ Len(q) \in Nat /\ Len(u) \in Nat BY <1>3
  <2> QED BY <2>1, <2>2
<1>7. CASE Len(p) = Len(q)
  <2>1. \A i \in 1 .. Len(p) : p[i] = q[i] BY <1>1, <1>2, <1>7
  <2>2. p = q BY <1>3, <1>7, <2>1, SeqEqual DEF Text
  <2>3. Len(r) = Len(u) BY <1>3, <1>6, <1>7
  <2>4. \A i \in 1 .. Len(r) : r[i] = u[i] BY <1>1, <1>2, <1>7, <2>3
  <2>5. r = u BY <1>3, <2>3, <2>4, SeqEqual DEF Text
  <2> QED BY <1>5, <2>2, <2>5
<1>8. CASE Len(q) < Len(p)
  <2> DEFINE y == SubSeq(p, 1, Len(q))
             x == SubSeq(p, Len(q) + 1, Len(p))
             d == Len(p) - Len(q)
  <2>1. /\ 1 \in Nat \ {0} /\ Len(q) <= Len(p) /\ 1 <= Len(q) + 1 /\ Len(q) - 1 + 1 = Len(q)
        /\ Len(q) + 1 \in Nat \ {0} /\ Len(p) <= Len(p) /\ Len(q) + 1 <= Len(p) + 1 /\ Len(p) - (Len(q) + 1) + 1 = d
        /\ d \in Nat /\ d >= 1
    BY <1>3, <1>8
  <2>2. y \in Text /\ Len(y) = Len(q) /\ \A i \in 1 .. Len(q) : y[i] = p[1 + i - 1]
    BY <1>3, <2>1, Part
  <2>3. x \in Text /\ Len(x) = d /\ \A i \in 1 .. d : x[i] = p[Len(q) + 1 + i - 1]
    <3>1. /\ x \in Text /\ Len(x) = Len(p) - (Len(q) + 1) + 1
          /\ \A i \in 1 .. Len(p) - (Len(q) + 1) + 1 : x[i] = p[Len(q) + 1 + i - 1]
      <4> DEFINE k == Len(q) + 1
      <4>1. k \in Nat \ {0} /\ Len(p) \in Nat /\ p \in Text /\ k <= Len(p) + 1 /\ Len(p) <= Len(p) BY <1>3, <2>1
      <4> HIDE DEF k
      <4>2. /\ SubSeq(p, k, Len(p)) \in Text /\ Len(SubSeq(p, k, Len(p))) = Len(p) - k + 1
            /\ \A i \in 1 .. Len(p) - k + 1 : SubSeq(p, k, Len(p))[i] = p[k + i - 1]
        BY <4>1, Part
      <4> QED BY <4>2 DEF k, x
    <3> HIDE DEF x, d
    <3> QED BY <2>1, <3>1
  <2> HIDE DEF y, x
  <2>4. y = q
    <3>1. ASSUME NEW i \in 1 .. Len(q) PROVE y[i] = q[i]
      <4>1. 1 + i - 1 = i /\ i \in 1 .. Len(p) BY <1>3, <1>8
      <4> QED BY <1>1, <1>2, <2>2, <4>1
    <3> QED BY <1>3, <2>2, <3>1, SeqEqual DEF Text
  <2>5. ASSUME NEW i \in 1 .. d PROVE x[i] = u[i] /\ i \in 1 .. Len(u)
    <3>1. /\ Len(q) + 1 + i - 1 = Len(q) + i /\ Len(q) + i \in 1 .. Len(p) /\ i \in 1 .. Len(u)
          /\ 1 + (Len(q) + i) = 1 + Len(q) + i
      BY <1>3, <1>6, <1>8
    <3>2. x[i] = p[Len(q) + i] BY <2>3, <3>1
    <3>3. t[1 + (Len(q) + i)] = p[Len(q) + i] BY <1>1, <3>1
    <3>4. t[1 + Len(q) + i] = u[i] BY <1>2, <3>1
    <3> QED BY <3>1, <3>2, <3>3, <3>4
  <2>6. \A i \in 1 .. Len(x) : x[i] \in Digits BY <1>3, <2>3, <2>5
  <2>7. x # <<>>
    <3>a. Len(x) = d /\ d >= 1 BY <2>1, <2>3
    <3> HIDE DEF d
    <3>1. Len(x) # 0 BY <3>a
    <3> QED BY <3>1, Small
  <2>8. x[1] # "0"
    <3>1. 1 \in 1 .. d BY <2>1
    <3> QED BY <1>4, <2>5, <3>1
  <2> QED BY <1>8, <2>4, <2>6, <2>7, <2>8 DEF Continues, y, x
<1> QED BY <1>3, <1>7, <1>8

LEMMA TokenEqual ==
    ASSUME NEW p, NEW q, Named(p), Named(q), NEW m \in Nat \ {0}, NEW n \in Nat \ {0}, Token(p, m) = Token(q, n)
    PROVE  (p = q /\ m = n) \/ (DigitSuffixCollides(p, q) /\ DigitSuffixCollides(q, p))
<1>1. Len(p) \in Nat /\ Len(q) \in Nat BY DEF Named, Text
<1>2. CASE Len(q) <= Len(p)
  <2>1. (p = q /\ m = n) \/ Continues(q, p) BY <1>2, TokenLonger
  <2>2. ASSUME Continues(q, p) PROVE DigitSuffixCollides(p, q) /\ DigitSuffixCollides(q, p)
    <3>1. Len(p) >= Len(q) /\ ~(Len(q) >= Len(p)) BY <1>1, <2>2 DEF Continues
    <3> QED BY <2>2, <3>1 DEF Continues, DigitSuffixCollides
  <2> QED BY <2>1, <2>2
<1>3. CASE Len(p) <= Len(q)
  <2>1. (p = q /\ m = n) \/ Continues(p, q) BY <1>3, TokenLonger
  <2>2. ASSUME Continues(p, q) PROVE DigitSuffixCollides(p, q) /\ DigitSuffixCollides(q, p)
    <3>1. Len(q) >= Len(p) /\ ~(Len(p) >= Len(q)) BY <1>1, <2>2 DEF Continues
    <3> QED BY <2>2, <3>1 DEF Continues, DigitSuffixCollides
  <2> QED BY <2>1, <2>2
<1> QED BY <1>1, <1>2, <1>3

-------------------------------------------------------------------------------
(* Redaction: the rules and the vault. *)

RulePrefix(rs, i) == TemplatePrefix(rs[i].template)

\* What a word of a rule is: it is not empty and holds no delimiter of a token.
Bare(w) == w \in Text /\ Len(w) >= 1 /\ \A n \in 1 .. Len(w) : w[n] # "<" /\ w[n] # ">"

\* The rules of an engine.
Sound(rs) ==
    /\ Len(rs) \in Nat
    /\ \A i \in 1 .. Len(rs) : Named(RulePrefix(rs, i)) /\ \A w \in rs[i].words : Bare(w)
    /\ \A i, j \in 1 .. Len(rs) : i # j =>
         RulePrefix(rs, i) # RulePrefix(rs, j)
         /\ (~DigitSuffixCollides(RulePrefix(rs, i), RulePrefix(rs, j)) \/ ~DigitSuffixCollides(RulePrefix(rs, j), RulePrefix(rs, i)))

LEMMA AcceptedSound ==
    ASSUME NEW rs \in RuleSets, Accepted(rs)
    PROVE  Sound(rs)
<1>1. rs \in Seq(RuleRecord) BY RedactionAssumption
<1>2. Len(rs) \in Nat /\ \A i \in 1 .. Len(rs) : rs[i] \in RuleRecord BY <1>1
<1>3. ASSUME NEW i \in 1 .. Len(rs) PROVE Named(RulePrefix(rs, i))
  <2> DEFINE t == rs[i].template
  <2>1. t \in Seq(STRING) BY <1>2 DEF RuleRecord
  <2>2. ValidTemplate(t) BY DEF Accepted
  <2> HIDE DEF t
  <2>3. t \in Text /\ Len(t) \in Nat BY <2>1, StringText
  <2>4. Len(t) > 3 /\ \A n \in 2 .. Len(t) - 2 : t[n] \in NameChars BY <2>2 DEF ValidTemplate
  <2> DEFINE p == SubSeq(t, 2, Len(t) - 2)
             k == Len(t) - 2
  <2>5. 2 \in Nat \ {0} /\ k \in Nat /\ k <= Len(t) /\ 2 <= k + 1 BY <2>3, <2>4
  <2>6. p \in Text /\ Len(p) = k - 2 + 1 /\ \A n \in 1 .. k - 2 + 1 : p[n] = t[2 + n - 1]
    <3> HIDE DEF k
    <3>1. /\ SubSeq(t, 2, k) \in Text /\ Len(SubSeq(t, 2, k)) = k - 2 + 1
          /\ \A n \in 1 .. k - 2 + 1 : SubSeq(t, 2, k)[n] = t[2 + n - 1]
      BY <2>3, <2>5, Part
    <3> QED BY <3>1 DEF k
  <2> HIDE DEF p
  <2>7. ASSUME NEW n \in 1 .. Len(p) PROVE p[n] \in NameChars
    <3>1. n \in 1 .. k - 2 + 1 /\ 2 + n - 1 \in 2 .. Len(t) - 2 BY <2>3, <2>4, <2>6
    <3> QED BY <2>4, <2>6, <3>1
  <2>8. RulePrefix(rs, i) = p BY DEF RulePrefix, TemplatePrefix, p, t
  <2> QED BY <2>6, <2>7, <2>8 DEF Named
<1>4. ASSUME NEW i \in 1 .. Len(rs), NEW w \in rs[i].words PROVE Bare(w)
  <2>1. rs[i].words \subseteq Seq(STRING) BY <1>2 DEF RuleRecord
  <2>2. w \in Text /\ Len(w) \in Nat BY <2>1, StringText
  <2>3. w # <<>> BY DEF Accepted, CanMatchEmpty
  <2>4. Len(w) # 0 BY <2>2, <2>3, Small
  <2>5. \A n \in 1 .. Len(w) : w[n] \notin {"<", ">"} BY RedactionAssumption
  <2> QED BY <2>2, <2>4, <2>5 DEF Bare
<1>5. ASSUME NEW i \in 1 .. Len(rs), NEW j \in 1 .. Len(rs), i # j
      PROVE  RulePrefix(rs, i) # RulePrefix(rs, j)
             /\ (~DigitSuffixCollides(RulePrefix(rs, i), RulePrefix(rs, j)) \/ ~DigitSuffixCollides(RulePrefix(rs, j), RulePrefix(rs, i)))
  <2>1. ASSUME NEW k \in 1 .. Len(rs), NEW l \in 1 .. Len(rs), k < l
        PROVE  RulePrefix(rs, k) # RulePrefix(rs, l) /\ ~DigitSuffixCollides(RulePrefix(rs, k), RulePrefix(rs, l))
    BY <2>1 DEF Accepted, RulePrefix
  <2>2. i < j \/ j < i BY <1>2, <1>5
  <2> QED BY <2>1, <2>2
<1> QED BY <1>2, <1>3, <1>4, <1>5 DEF Sound

Counter(v, rs, i) == Get(v.counters, rs[i].name, 0)

\* t is a token that a rule has minted.
MintedBy(t, v, rs) ==
    \E i \in 1 .. Len(rs) : \E n \in 1 .. Counter(v, rs, i) : t = Token(RulePrefix(rs, i), n)

\* Values and tokens are paired one to one.
Paired(v) ==
    /\ \A key \in DOMAIN v.v2t : v.v2t[key] \in DOMAIN v.t2o /\ v.t2o[v.v2t[key]] = key[2]
    /\ \A t \in DOMAIN v.t2o : \E key \in DOMAIN v.v2t : v.v2t[key] = t
    /\ \A k, l \in DOMAIN v.v2t : v.v2t[k] = v.v2t[l] => k = l

\* The vault of a session with the rules rs.
VaultOK(v, rs) ==
    /\ v = [t2o |-> v.t2o, v2t |-> v.v2t, counters |-> v.counters, version |-> v.version]
    /\ IsFiniteSet(DOMAIN v.t2o) /\ Cardinality(DOMAIN v.t2o) <= MaxTokens
    /\ v.version = Cardinality(DOMAIN v.t2o)
    /\ \A i \in 1 .. Len(rs) : Counter(v, rs, i) \in Nat
    /\ \A t \in DOMAIN v.t2o : MintedBy(t, v, rs) /\ v.t2o[t] \in Text
    /\ Paired(v)

\* A later vault of the same session.
Grown(v, w) == \A t \in DOMAIN v.t2o : t \in DOMAIN w.t2o /\ w.t2o[t] = v.t2o[t]

LEMMA VaultStands ==
    ASSUME NEW rs, Sound(rs), NEW v, VaultOK(v, rs)
    PROVE  Stands(DOMAIN v.t2o, v.t2o)
<1> SUFFICES ASSUME NEW t \in DOMAIN v.t2o PROVE Shaped(t) /\ v.t2o[t] \in Text BY DEF Stands
<1>1. PICK i \in 1 .. Len(rs) : \E n \in 1 .. Counter(v, rs, i) : t = Token(RulePrefix(rs, i), n)
  BY DEF VaultOK, MintedBy
<1>2. PICK n \in 1 .. Counter(v, rs, i) : t = Token(RulePrefix(rs, i), n) BY <1>1
<1>3. Counter(v, rs, i) \in Nat BY DEF VaultOK
<1>4. n \in Nat BY <1>3
<1>5. Named(RulePrefix(rs, i)) BY DEF Sound
<1>6. Shaped(Token(RulePrefix(rs, i), n)) BY <1>4, <1>5, TokenShaped
<1> QED BY <1>2, <1>6 DEF VaultOK

\* The next token of a rule is not one of the vault's.
LEMMA TokenFresh ==
    ASSUME NEW rs, Sound(rs), NEW v, VaultOK(v, rs), NEW i \in 1 .. Len(rs)
    PROVE  Token(RulePrefix(rs, i), Counter(v, rs, i) + 1) \notin DOMAIN v.t2o
<1> DEFINE n == Counter(v, rs, i) + 1
           p == RulePrefix(rs, i)
<1> SUFFICES ASSUME Token(p, n) \in DOMAIN v.t2o PROVE FALSE OBVIOUS
<1>1. PICK j \in 1 .. Len(rs) : \E m \in 1 .. Counter(v, rs, j) : Token(p, n) = Token(RulePrefix(rs, j), m)
  BY DEF VaultOK, MintedBy
<1> DEFINE q == RulePrefix(rs, j)
<1>2. PICK m \in 1 .. Counter(v, rs, j) : Token(p, n) = Token(q, m) BY <1>1
<1>3. Counter(v, rs, i) \in Nat /\ Counter(v, rs, j) \in Nat BY DEF VaultOK
<1>4. n \in Nat \ {0} /\ m \in Nat \ {0} BY <1>3
<1>5. Named(p) /\ Named(q) BY DEF Sound
<1>6. (p = q /\ n = m) \/ (DigitSuffixCollides(p, q) /\ DigitSuffixCollides(q, p))
  <2> HIDE DEF n, p, q
  <2> QED BY <1>2, <1>4, <1>5, TokenEqual
<1>7. CASE i = j
  <2>1. ~DigitSuffixCollides(p, p)
    <3>1. p \in Text /\ Len(p) \in Nat BY <1>5, Small DEF Named
    <3> HIDE DEF p
    <3>2. SubSeq(p, Len(p) + 1, Len(p)) = <<>>
      <4>1. Len(p) + 1 \in Nat \ {0} /\ Len(p) <= Len(p) /\ Len(p) + 1 > Len(p) BY <3>1
      <4> QED BY <3>1, <4>1, Part
    <3>3. Len(p) >= Len(p) BY <3>1
    <3> QED BY <3>2, <3>3 DEF DigitSuffixCollides
  <2>2. n = m BY <1>6, <1>7, <2>1
  <2>3. m <= Counter(v, rs, i) BY <1>3, <1>7
  <2> QED BY <1>3, <1>4, <2>2, <2>3
<1>8. CASE i # j
  <2>1. p # q /\ (~DigitSuffixCollides(p, q) \/ ~DigitSuffixCollides(q, p)) BY <1>8 DEF Sound
  <2> QED BY <1>6, <2>1
<1> QED BY <1>7, <1>8

\* What token_for promises: the vault stays in order and keeps its tokens, it refuses
\* only at the cap, and its token stands for the word.
Promise(v, r, word, rs) ==
    /\ VaultOK(r.vault, rs) /\ Grown(v, r.vault) /\ r.failed \in BOOLEAN
    /\ r.failed => Cardinality(DOMAIN r.vault.t2o) = MaxTokens
    /\ ~r.failed => r.text \in DOMAIN r.vault.t2o /\ r.vault.t2o[r.text] = word

LEMMA TokenForKeeps ==
    ASSUME NEW rs, Sound(rs), NEW v, VaultOK(v, rs), NEW i \in 1 .. Len(rs), NEW word \in Text
    PROVE  Promise(v, TokenFor(v, rs[i], word), word, rs)
<1> DEFINE name == rs[i].name
           key == <<name, word>>
           n == Counter(v, rs, i) + 1
           token == Token(RulePrefix(rs, i), n)
           counted == [v EXCEPT !.counters = Put(@, name, n)]
           w == [t2o |-> Put(v.t2o, token, word), v2t |-> Put(v.v2t, key, token),
                 counters |-> Put(v.counters, name, n), version |-> v.version + 1]
           r == TokenFor(v, rs[i], word)
<1>0. /\ IsFiniteSet(DOMAIN v.t2o) /\ Cardinality(DOMAIN v.t2o) \in Nat /\ MaxTokens \in Nat
      /\ Cardinality(DOMAIN v.t2o) <= MaxTokens
  BY FS_CardinalityType, RedactionAssumption DEF VaultOK
<1>1. CASE Known(v, key)
  <2>1. r = [vault |-> v, text |-> v.v2t[key], failed |-> FALSE] BY <1>1 DEF TokenFor, Minted
  <2>2. v.v2t[key] \in DOMAIN v.t2o /\ v.t2o[v.v2t[key]] = word BY <1>1 DEF VaultOK, Paired, Known
  <2>3. r.vault = v /\ r.text = v.v2t[key] /\ r.failed = FALSE BY <2>1
  <2> HIDE DEF r, key
  <2> QED BY <2>2, <2>3 DEF Promise, Grown, r
<1>2. CASE ~Known(v, key) /\ AtCap(v)
  <2>1. r = [vault |-> v, text |-> <<>>, failed |-> TRUE] BY <1>2 DEF TokenFor, Refused, Failed
  <2>2. r.vault = v /\ r.failed = TRUE BY <2>1
  <2>3. Cardinality(DOMAIN v.t2o) = MaxTokens BY <1>0, <1>2 DEF AtCap
  <2> HIDE DEF r, key
  <2> QED BY <2>2, <2>3 DEF Promise, Grown, r
<1>3. CASE ~Known(v, key) /\ ~AtCap(v)
  <2>1. token \notin DOMAIN v.t2o BY TokenFresh
  <2>2. [counted EXCEPT !.t2o = Put(@, token, word), !.v2t = Put(@, key, token), !.version = @ + 1] = w
    <3>1. v = [t2o |-> v.t2o, v2t |-> v.v2t, counters |-> v.counters, version |-> v.version] BY DEF VaultOK
    <3> HIDE DEF token, key, n, name
    <3> DEFINE a == v.t2o
               b == v.v2t
               c == v.counters
               d == v.version
    <3> HIDE DEF a, b, c, d
    <3>2. v = [t2o |-> a, v2t |-> b, counters |-> c, version |-> d] BY <3>1 DEF a, b, c, d
    <3>3. counted = [t2o |-> a, v2t |-> b, counters |-> Put(c, name, n), version |-> d] BY <3>2
    <3> HIDE DEF counted
    <3>4. [counted EXCEPT !.t2o = Put(@, token, word), !.v2t = Put(@, key, token), !.version = @ + 1]
            = [t2o |-> Put(a, token, word), v2t |-> Put(b, key, token), counters |-> Put(c, name, n), version |-> d + 1]
      <4> DEFINE e == Put(c, name, n)
      <4>1. counted = [t2o |-> a, v2t |-> b, counters |-> e, version |-> d] BY <3>3
      <4>2. counted.t2o = a /\ counted.v2t = b /\ counted.version = d BY <4>1
      <4> DEFINE x == Put(a, token, word)
                 y == Put(b, key, token)
                 z == d + 1
      <4> HIDE DEF e, x, y, z
      <4>3. [counted EXCEPT !.t2o = x, !.v2t = y, !.version = z]
              = [t2o |-> x, v2t |-> y, counters |-> e, version |-> z]
        <5> DEFINE q == [counted EXCEPT !.t2o = x, !.v2t = y, !.version = z]
                   K == {"t2o", "v2t", "counters", "version"}
        <5>1. /\ counted.t2o = a /\ counted.v2t = b /\ counted.counters = e /\ counted.version = d
              /\ DOMAIN counted = K
          BY <4>1
        <5>2. DOMAIN q = K /\ q = [k \in DOMAIN q |-> q[k]] BY <5>1
        <5>3. q.t2o = x /\ q.v2t = y /\ q.counters = e /\ q.version = z BY <5>1
        <5> HIDE DEF q
        <5>4. q = [t2o |-> x, v2t |-> y, counters |-> e, version |-> z] BY <5>2, <5>3
        <5> QED BY <5>4 DEF q
      <4> QED BY <4>2, <4>3 DEF e, x, y, z
    <3> QED BY <3>4 DEF a, b, c, d
  <2>3. r = [vault |-> w, text |-> token, failed |-> FALSE]
    <3>1. Get(v.t2o, token, word) = word BY <2>1 DEF Get
    <3>2. token = <<"<">> \o TemplatePrefix(rs[i].template) \o Render(n) \o <<">">> BY DEF Token, RulePrefix
    <3>3. n = Get(v.counters, rs[i].name, 0) + 1 BY DEF Counter
    <3> HIDE DEF w
    <3>4. r = Minted([counted EXCEPT !.t2o = Put(@, token, word), !.v2t = Put(@, key, token), !.version = @ + 1], token)
      BY <1>3, <3>1, <3>2, <3>3 DEF TokenFor
    <3> QED BY <2>2, <3>4 DEF Minted
  <2>4. r.vault = w /\ r.text = token /\ r.failed = FALSE BY <2>3
  <2> HIDE DEF r
  <2> DEFINE D == DOMAIN v.t2o
  <2>5. /\ DOMAIN w.t2o = D \cup {token} /\ w.t2o[token] = word
        /\ \A t \in D : w.t2o[t] = v.t2o[t]
    BY <2>1 DEF Put
  <2>6. /\ DOMAIN w.v2t = DOMAIN v.v2t \cup {key} /\ w.v2t[key] = token
        /\ \A k \in DOMAIN v.v2t : k # key /\ w.v2t[k] = v.v2t[k]
    BY <1>3 DEF Put, Known
  <2>7. ASSUME NEW j \in 1 .. Len(rs)
        PROVE  /\ Counter(v, rs, j) \in Nat /\ Counter(w, rs, j) \in Nat /\ Counter(v, rs, j) <= Counter(w, rs, j)
               /\ Counter(w, rs, i) = n
    <3>1. Counter(v, rs, j) \in Nat /\ Counter(v, rs, i) \in Nat BY DEF VaultOK
    <3>2. n \in Nat BY <3>1
    <3>3. w.counters = Put(v.counters, name, n) OBVIOUS
    <3>4. CASE rs[j].name = name
      <4>1. Counter(w, rs, j) = n BY <3>3, <3>4 DEF Counter, Get, Put
      <4>2. Counter(v, rs, j) = Counter(v, rs, i) BY <3>4 DEF Counter
      <4>3. Counter(w, rs, i) = n BY <3>3 DEF Counter, Get, Put
      <4> HIDE DEF w
      <4> QED BY <3>1, <3>2, <4>1, <4>2, <4>3
    <3>5. CASE rs[j].name # name
      <4>1. Counter(w, rs, j) = Counter(v, rs, j) BY <3>3, <3>5 DEF Counter, Get, Put
      <4>3. Counter(w, rs, i) = n BY <3>3 DEF Counter, Get, Put
      <4> HIDE DEF w
      <4> QED BY <3>1, <3>2, <4>1, <4>3
    <3> QED BY <3>4, <3>5
  <2>8. w = [t2o |-> w.t2o, v2t |-> w.v2t, counters |-> w.counters, version |-> w.version] OBVIOUS
  <2>9. w.version = v.version + 1 OBVIOUS
  <2> HIDE DEF w, token, key, n
  <2>10. /\ IsFiniteSet(D \cup {token}) /\ Cardinality(D \cup {token}) = Cardinality(D) + 1
         /\ Cardinality(D) + 1 <= MaxTokens
    <3>1. IsFiniteSet(D \cup {token}) /\ Cardinality(D \cup {token}) = Cardinality(D) + 1
      BY <1>0, <2>1, FS_AddElement
    <3>2. ~(Cardinality(D) >= MaxTokens) BY <1>3 DEF AtCap
    <3> QED BY <1>0, <3>1, <3>2
  <2>11. Paired(w)
    <3>1. Paired(v) BY DEF VaultOK
    <3>2. \A k \in DOMAIN w.v2t : w.v2t[k] \in DOMAIN w.t2o /\ w.t2o[w.v2t[k]] = k[2]
      <4> TAKE k \in DOMAIN w.v2t
      <4>1. CASE k = key
        <5>1. key[2] = word BY DEF key
        <5> QED BY <2>5, <2>6, <4>1, <5>1
      <4>2. CASE k \in DOMAIN v.v2t
        <5>1. v.v2t[k] \in D /\ v.t2o[v.v2t[k]] = k[2] BY <3>1, <4>2 DEF Paired
        <5> QED BY <2>5, <2>6, <4>2, <5>1
      <4> QED BY <2>6, <4>1, <4>2
    <3>3. \A t \in DOMAIN w.t2o : \E k \in DOMAIN w.v2t : w.v2t[k] = t
      <4> TAKE t \in DOMAIN w.t2o
      <4>1. CASE t = token BY <2>6, <4>1
      <4>2. CASE t \in D
        <5>1. PICK k \in DOMAIN v.v2t : v.v2t[k] = t BY <3>1, <4>2 DEF Paired
        <5> QED BY <2>6, <5>1
      <4> QED BY <2>5, <4>1, <4>2
    <3>4. ASSUME NEW k \in DOMAIN w.v2t, NEW l \in DOMAIN w.v2t, w.v2t[k] = w.v2t[l] PROVE k = l
      <4>1. \A x \in DOMAIN v.v2t : v.v2t[x] \in D BY <3>1 DEF Paired
      <4>2. \A x, y \in DOMAIN v.v2t : v.v2t[x] = v.v2t[y] => x = y BY <3>1 DEF Paired
      <4>3. \A x \in DOMAIN v.v2t : w.v2t[x] # token BY <2>1, <2>6, <4>1
      <4> QED BY <2>6, <3>4, <4>2, <4>3
    <3> QED BY <3>2, <3>3, <3>4 DEF Paired
  <2>12. ASSUME NEW t \in DOMAIN w.t2o PROVE MintedBy(t, w, rs) /\ w.t2o[t] \in Text
    <3>1. CASE t = token
      <4>1. n \in 1 .. Counter(w, rs, i)
        <5>1. Counter(w, rs, i) = n /\ Counter(w, rs, i) \in Nat /\ Counter(v, rs, i) \in Nat BY <2>7
        <5>2. n = Counter(v, rs, i) + 1 BY DEF n
        <5> QED BY <5>1, <5>2
      <4>2. t = Token(RulePrefix(rs, i), n) BY <3>1 DEF token
      <4> QED BY <2>5, <3>1, <4>1, <4>2 DEF MintedBy
    <3>2. CASE t \in D
      <4>1. v.t2o[t] \in Text /\ MintedBy(t, v, rs) BY <3>2 DEF VaultOK
      <4>2. PICK j \in 1 .. Len(rs) : \E m \in 1 .. Counter(v, rs, j) : t = Token(RulePrefix(rs, j), m)
        BY <4>1 DEF MintedBy
      <4>3. PICK m \in 1 .. Counter(v, rs, j) : t = Token(RulePrefix(rs, j), m) BY <4>2
      <4>4. m \in 1 .. Counter(w, rs, j) BY <2>7
      <4>5. MintedBy(t, w, rs) BY <4>3, <4>4 DEF MintedBy
      <4> QED BY <2>5, <3>2, <4>1, <4>5
    <3> QED BY <2>5, <3>1, <3>2
  <2>13. VaultOK(w, rs)
    <3>1. \A j \in 1 .. Len(rs) : Counter(w, rs, j) \in Nat BY <2>7
    <3>2. w.version = Cardinality(DOMAIN w.t2o) BY <2>5, <2>9, <2>10 DEF VaultOK
    <3>3. IsFiniteSet(DOMAIN w.t2o) /\ Cardinality(DOMAIN w.t2o) <= MaxTokens BY <2>5, <2>10
    <3> QED BY <2>8, <2>11, <2>12, <3>1, <3>2, <3>3 DEF VaultOK
  <2>14. Grown(v, w) BY <2>5 DEF Grown
  <2>15. token \in DOMAIN w.t2o /\ w.t2o[token] = word BY <2>5
  <2>16. Promise(v, r, word, rs) BY <2>4, <2>13, <2>14, <2>15 DEF Promise
  <2> QED BY <2>16 DEF r
<1> QED BY <1>1, <1>2, <1>3

-------------------------------------------------------------------------------
(* Redaction: the automaton. *)

CacheOK(v, c) ==
    /\ c.version \in Int /\ c.version <= v.version
    /\ c.tokens \subseteq DOMAIN v.t2o
    /\ c.version = v.version => c.tokens = DOMAIN v.t2o

\* The automaton that is used knows exactly the tokens of the vault.
LEMMA AutomatonCurrent ==
    ASSUME NEW rs, NEW v, VaultOK(v, rs), NEW c, CacheOK(v, c)
    PROVE  CacheOK(v, WithAutomaton(v, c)) /\ WithAutomaton(v, c).tokens = DOMAIN v.t2o
<1> DEFINE d == WithAutomaton(v, c)
<1>0. v.version \in Int
  <2>1. v.version \in Nat BY FS_CardinalityType DEF VaultOK
  <2> QED BY <2>1
<1>1. CASE c.version = v.version BY <1>1 DEF WithAutomaton, CacheOK
<1>2. CASE c.version # v.version /\ v.t2o = <<>>
  <2>1. d = c BY <1>2 DEF WithAutomaton
  <2>2. DOMAIN v.t2o = {} BY <1>2
  <2> QED BY <2>1, <2>2 DEF CacheOK
<1>3. CASE c.version # v.version /\ v.t2o # <<>>
  <2>1. d = [version |-> v.version, tokens |-> DOMAIN v.t2o] BY <1>3 DEF WithAutomaton
  <2>2. d.version = v.version /\ d.tokens = DOMAIN v.t2o BY <2>1
  <2> QED BY <1>0, <2>2 DEF CacheOK
<1> QED BY <1>1, <1>2, <1>3

LEMMA CacheKept ==
    ASSUME NEW rs, NEW v, VaultOK(v, rs), NEW w, VaultOK(w, rs), Grown(v, w), NEW c, CacheOK(v, c)
    PROVE  CacheOK(w, c)
<1>1. /\ v.version = Cardinality(DOMAIN v.t2o) /\ w.version = Cardinality(DOMAIN w.t2o)
      /\ IsFiniteSet(DOMAIN v.t2o) /\ IsFiniteSet(DOMAIN w.t2o)
  BY DEF VaultOK
<1>2. DOMAIN v.t2o \subseteq DOMAIN w.t2o BY DEF Grown
<1>3. v.version <= w.version /\ (w.version = v.version => DOMAIN w.t2o = DOMAIN v.t2o)
  BY <1>1, <1>2, FS_Subset
<1>4. v.version \in Int /\ w.version \in Int
  <2>1. v.version \in Nat /\ w.version \in Nat BY <1>1, FS_CardinalityType
  <2> QED BY <2>1
<1>5. /\ c.version \in Int /\ c.version <= v.version /\ c.tokens \subseteq DOMAIN v.t2o
      /\ c.version = v.version => c.tokens = DOMAIN v.t2o
  BY DEF CacheOK
<1>6. c.version <= w.version BY <1>3, <1>4, <1>5
<1>7. ASSUME c.version = w.version PROVE c.tokens = DOMAIN w.t2o
  <2>1. v.version = w.version BY <1>3, <1>4, <1>5, <1>7
  <2> QED BY <1>3, <1>5, <1>7, <2>1
<1> QED BY <1>2, <1>5, <1>6, <1>7 DEF CacheOK

-------------------------------------------------------------------------------
(* Redaction: find_iter. *)

Span == [from : Nat, to : Nat]

\* The words can be searched for.
Words(W) == \A w \in W : w \in Text /\ Len(w) >= 1

\* f lists, in their order, disjoint occurrences of words in s from n on, and every
\* occurrence from n on starts within one of them.
Found(f, s, n, W) ==
    /\ f \in Seq(Span)
    /\ \A k \in 1 .. Len(f) :
         /\ n <= f[k].from /\ f[k].from <= f[k].to /\ f[k].to <= Len(s)
         /\ SubSeq(s, f[k].from, f[k].to) \in W
    /\ \A k, l \in 1 .. Len(f) : k < l => f[k].to < f[l].from
    /\ \A m \in n .. Len(s) : \A w \in W :
         OccursAt(s, m, w) => \E k \in 1 .. Len(f) : f[k].from <= m /\ m <= f[k].to

\* No word occurs at n.
LEMMA FoundNext ==
    ASSUME NEW s \in Text, NEW W, NEW n \in 1 .. Len(s), NEW f, Found(f, s, n + 1, W), TokensAt(s, n, W) = {}
    PROVE  Found(f, s, n, W)
<1>0. Len(s) \in Nat BY Small
<1>1. f \in Seq(Span) /\ Len(f) \in Nat BY DEF Found
<1>2. ASSUME NEW k \in 1 .. Len(f)
      PROVE  /\ n <= f[k].from /\ f[k].from <= f[k].to /\ f[k].to <= Len(s)
             /\ SubSeq(s, f[k].from, f[k].to) \in W
  <2>1. /\ n + 1 <= f[k].from /\ f[k].from <= f[k].to /\ f[k].to <= Len(s)
        /\ SubSeq(s, f[k].from, f[k].to) \in W
    BY DEF Found
  <2>2. f[k].from \in Nat
    <3>1. f[k] \in Span BY <1>1
    <3> QED BY <3>1 DEF Span
  <2> QED BY <1>0, <2>1, <2>2
<1>3. \A k, l \in 1 .. Len(f) : k < l => f[k].to < f[l].from BY DEF Found
<1>4. ASSUME NEW m \in n .. Len(s), NEW w \in W, OccursAt(s, m, w)
      PROVE  \E k \in 1 .. Len(f) : f[k].from <= m /\ m <= f[k].to
  <2>1. m # n BY <1>4 DEF TokensAt
  <2>2. m \in n + 1 .. Len(s) BY <1>0, <2>1
  <2> QED BY <1>4, <2>2 DEF Found
<1> QED BY <1>1, <1>2, <1>3, <1>4 DEF Found

\* A word occurs at n and ends at e.
LEMMA FoundHere ==
    ASSUME NEW s \in Text, NEW W, NEW n \in 1 .. Len(s), NEW e \in n .. Len(s), SubSeq(s, n, e) \in W,
           NEW f, Found(f, s, e + 1, W)
    PROVE  Found(<<[from |-> n, to |-> e]>> \o f, s, n, W)
<1> DEFINE x == [from |-> n, to |-> e]
           h == <<x>>
           g == h \o f
<1>0. Len(s) \in Nat /\ n \in Nat /\ e \in Nat BY Small
<1>1. f \in Seq(Span) /\ Len(f) \in Nat BY DEF Found
<1>2. h \in Seq(Span) /\ Len(h) = 1 /\ h[1] = x BY <1>0 DEF Span
<1>3. x.from = n /\ x.to = e OBVIOUS
<1> HIDE DEF x, h
<1>4. g \in Seq(Span) /\ Len(g) = 1 + Len(f) /\ g[1] = x /\ \A k \in 1 .. Len(f) : g[1 + k] = f[k]
  <2>1. /\ g \in Seq(Span) /\ Len(g) = Len(h) + Len(f)
        /\ \A k \in 1 .. Len(h) + Len(f) : g[k] = IF k <= Len(h) THEN h[k] ELSE f[k - Len(h)]
    BY <1>1, <1>2, ConcatProperties
  <2> HIDE DEF g
  <2>2. g[1] = x
    <3>1. 1 \in 1 .. Len(h) + Len(f) /\ 1 <= Len(h) BY <1>1, <1>2
    <3> QED BY <1>2, <2>1, <3>1
  <2>3. ASSUME NEW k \in 1 .. Len(f) PROVE g[1 + k] = f[k]
    <3>1. 1 + k \in 1 .. Len(h) + Len(f) /\ ~(1 + k <= Len(h)) /\ (1 + k) - Len(h) = k BY <1>1, <1>2
    <3> QED BY <2>1, <3>1
  <2> QED BY <1>2, <2>1, <2>2, <2>3
<1> HIDE DEF g
<1>5. ASSUME NEW k \in 1 .. Len(f)
      PROVE  /\ e + 1 <= f[k].from /\ f[k].from <= f[k].to /\ f[k].to <= Len(s)
             /\ SubSeq(s, f[k].from, f[k].to) \in W
             /\ f[k].from \in Nat /\ f[k].to \in Nat
  <2>1. f[k] \in Span BY <1>1
  <2> QED BY <2>1 DEF Found, Span
<1>6. ASSUME NEW k \in 1 .. Len(g) PROVE k = 1 \/ (k - 1 \in 1 .. Len(f) /\ g[k] = f[k - 1])
  <2>1. CASE k # 1
    <3>1. k - 1 \in 1 .. Len(f) /\ 1 + (k - 1) = k BY <1>1, <1>4, <2>1
    <3> QED BY <1>4, <3>1
  <2> QED BY <2>1
<1>7. ASSUME NEW k \in 1 .. Len(g)
      PROVE  /\ n <= g[k].from /\ g[k].from <= g[k].to /\ g[k].to <= Len(s)
             /\ SubSeq(s, g[k].from, g[k].to) \in W
  <2>1. CASE k = 1 BY <1>0, <1>3, <1>4, <2>1
  <2>2. CASE k - 1 \in 1 .. Len(f) /\ g[k] = f[k - 1]
    <3>1. /\ e + 1 <= g[k].from /\ g[k].from <= g[k].to /\ g[k].to <= Len(s)
          /\ SubSeq(s, g[k].from, g[k].to) \in W /\ g[k].from \in Nat
      BY <1>5, <2>2
    <3> QED BY <1>0, <3>1
  <2> QED BY <1>6, <2>1, <2>2
<1>8. ASSUME NEW k \in 1 .. Len(g), NEW l \in 1 .. Len(g), k < l PROVE g[k].to < g[l].from
  <2>1. l - 1 \in 1 .. Len(f) /\ g[l] = f[l - 1]
    <3>1. l # 1 BY <1>1, <1>4, <1>8
    <3> QED BY <1>6, <3>1
  <2>2. CASE k = 1
    <3>1. g[k].to = e BY <1>3, <1>4, <2>2
    <3>2. e + 1 <= g[l].from /\ g[l].from \in Nat BY <1>5, <2>1
    <3> QED BY <1>0, <3>1, <3>2
  <2>3. CASE k - 1 \in 1 .. Len(f) /\ g[k] = f[k - 1]
    <3>1. k - 1 < l - 1 BY <1>1, <1>4, <1>8
    <3>2. f[k - 1].to < f[l - 1].from BY <2>1, <2>3, <3>1 DEF Found
    <3> QED BY <2>1, <2>3, <3>2
  <2> QED BY <1>6, <2>2, <2>3
<1>9. ASSUME NEW m \in n .. Len(s), NEW w \in W, OccursAt(s, m, w)
      PROVE  \E k \in 1 .. Len(g) : g[k].from <= m /\ m <= g[k].to
  <2>1. CASE m <= e
    <3>1. 1 \in 1 .. Len(g) BY <1>1, <1>4
    <3>2. g[1].from <= m /\ m <= g[1].to BY <1>0, <1>3, <1>4, <2>1
    <3> QED BY <3>1, <3>2
  <2>2. CASE ~(m <= e)
    <3>1. m \in e + 1 .. Len(s) BY <1>0, <2>2
    <3>2. PICK k \in 1 .. Len(f) : f[k].from <= m /\ m <= f[k].to BY <1>9, <3>1 DEF Found
    <3>3. 1 + k \in 1 .. Len(g) /\ g[1 + k] = f[k] BY <1>1, <1>4
    <3> QED BY <3>2, <3>3
  <2> QED BY <2>1, <2>2
<1>10. Found(g, s, n, W) BY <1>4, <1>7, <1>8, <1>9 DEF Found
<1> QED BY <1>10 DEF g, h, x

LEMMA FindFacts ==
    ASSUME NEW s \in Text, NEW W, Words(W)
    PROVE  Found(FindIter(s, W), s, 1, W)
<1> DEFINE N == Len(s)
           At(n) == TokensAt(s, n, W)
           end(n) == n + Max({Len(w) : w \in At(n)})
           V == Seq(Span)
           St(n, f) == IF At(n) = {} THEN f[n + 1] ELSE <<[from |-> n, to |-> end(n) - 1]>> \o f[end(n)]
           Body(f) == [n \in 1 .. N + 1 |-> IF n > N THEN <<>> ELSE St(n, f)]
           step == [x \in (1 .. N) \X [1 .. N + 1 -> V] |-> St(x[1], x[2])]
           g == CHOOSE f : f = Body(f)
<1>0. N \in Nat BY Small
<1>1. ASSUME NEW n \in 1 .. N, At(n) # {}
      PROVE  end(n) \in n + 1 .. N + 1 /\ SubSeq(s, n, end(n) - 1) \in W
  <2> DEFINE L == {Len(w) : w \in At(n)}
  <2>1. \A w \in At(n) : w \in W /\ OccursAt(s, n, w) BY DEF TokensAt
  <2>2. \A w \in At(n) : Len(w) \in 1 .. N /\ n + Len(w) - 1 <= N /\ SubSeq(s, n, n + Len(w) - 1) = w
    <3> TAKE w \in At(n)
    <3>1. w \in Text /\ Len(w) >= 1 BY <2>1 DEF Words
    <3>2. Len(w) \in Nat BY <3>1, Small
    <3>3. n + Len(w) - 1 <= N /\ SubSeq(s, n, n + Len(w) - 1) = w BY <2>1 DEF OccursAt
    <3> QED BY <1>0, <3>1, <3>2, <3>3
  <2> HIDE DEF At
  <2>3. L \in SUBSET (0 .. N) /\ L # {}
    <3>1. \A w \in At(n) : Len(w) \in 0 .. N BY <1>0, <2>2
    <3>2. L \subseteq 0 .. N BY <3>1
    <3> QED BY <1>1, <3>2
  <2>4. Max(L) \in L
    <3> HIDE DEF L
    <3>1. \E x \in L : \A y \in L : y <= x BY <1>0, <2>3, GreatestNatural
    <3>2. \E x \in L : \A y \in L : x >= y BY <3>1
    <3> QED BY <3>2 DEF Max
  <2>5. PICK w \in At(n) : Max(L) = Len(w) BY <2>4
  <2> HIDE DEF L
  <2>6. end(n) = n + Len(w) BY <2>5 DEF L
  <2>7. Len(w) \in 1 .. N /\ n + Len(w) - 1 <= N /\ SubSeq(s, n, n + Len(w) - 1) = w /\ w \in W BY <2>1, <2>2
  <2> HIDE DEF end
  <2>8. end(n) \in n + 1 .. N + 1 BY <1>0, <2>6, <2>7
  <2>9. end(n) - 1 = n + Len(w) - 1 BY <2>6
  <2> QED BY <2>7, <2>8, <2>9
<1> HIDE DEF At, end
<1>2. ASSUME NEW n \in 1 .. N, NEW f \in [1 .. N + 1 -> V] PROVE St(n, f) \in V
  <2>1. CASE At(n) = {}
    <3>1. n + 1 \in 1 .. N + 1 BY <1>0
    <3> QED BY <2>1, <3>1
  <2>2. CASE At(n) # {}
    <3> DEFINE x == [from |-> n, to |-> end(n) - 1]
    <3>1. end(n) \in 1 .. N + 1 /\ n \in Nat /\ end(n) - 1 \in Nat BY <1>0, <1>1, <2>2
    <3>2. x \in Span BY <3>1 DEF Span
    <3>3. f[end(n)] \in V BY <3>1
    <3> HIDE DEF x
    <3>4. <<x>> \in V BY <3>2
    <3>5. <<x>> \o f[end(n)] \in V BY <3>3, <3>4, ConcatProperties
    <3> QED BY <2>2, <3>5 DEF x
  <2> QED BY <2>1, <2>2
<1>3. ASSUME NEW k \in 1 .. N, NEW f, NEW h, \A i \in k + 1 .. N + 1 : f[i] = h[i]
      PROVE  St(k, f) = St(k, h)
  <2>1. k + 1 \in k + 1 .. N + 1 BY <1>0
  <2>2. At(k) # {} => end(k) \in k + 1 .. N + 1 BY <1>1
  <2> QED BY <1>3, <2>1, <2>2
<1>4. ASSUME NEW k \in 1 .. N, NEW f \in [1 .. N + 1 -> V] PROVE step[<<k, f>>] = St(k, f)
  <2> HIDE DEF V, St
  <2> QED OBVIOUS
<1> HIDE DEF St
<1>5. \E f : f = Body(f)
  <2>1. FromAbove(step, N, V)
    <3> HIDE DEF step, V
    <3> QED BY <1>2, <1>3, <1>4 DEF FromAbove
  <2>2. <<>> \in V OBVIOUS
  <2> HIDE DEF step, V, N
  <2>4. PICK f \in [1 .. N + 1 -> V] : f[N + 1] = <<>> /\ \A k \in 1 .. N : f[k] = step[<<k, f>>]
    BY <1>0, <2>1, <2>2, BackwardExists
  <2>5. \A k \in 1 .. N : f[k] = St(k, f) BY <1>4, <2>4
  <2>6. ASSUME NEW n \in 1 .. N + 1 PROVE f[n] = IF n > N THEN <<>> ELSE St(n, f)
    <3>1. CASE n = N + 1 BY <1>0, <2>4, <3>1
    <3>2. CASE n # N + 1
      <4>1. n \in 1 .. N /\ ~(n > N) BY <1>0, <3>2
      <4> QED BY <2>5, <4>1
    <3> QED BY <3>1, <3>2
  <2>7. f = Body(f) BY <2>6
  <2> QED BY <2>7
<1>6. g = Body(g)
  <2> HIDE DEF Body
  <2> QED BY <1>5
<1>7. FindIter(s, W) = g[1] BY DEF FindIter, St, At, end, TokensAt
<1> HIDE DEF g
<1>8. g[N + 1] = <<>> /\ \A n \in 1 .. N : g[n] = St(n, g)
  <2>1. N + 1 \in 1 .. N + 1 /\ N + 1 > N BY <1>0
  <2>2. \A n \in 1 .. N : n \in 1 .. N + 1 /\ ~(n > N) BY <1>0
  <2> QED BY <1>6, <2>1, <2>2
<1> DEFINE S == {n \in 1 .. N + 1 : Found(g[n], s, n, W)}
<1>9. ASSUME NEW n \in 1 .. N + 1, \A m \in n + 1 .. N + 1 : m \in S PROVE n \in S
  <2>1. CASE n = N + 1
    <3>1. Found(<<>>, s, N + 1, W) BY <1>0 DEF Found
    <3> QED BY <1>8, <2>1, <3>1
  <2>2. CASE n # N + 1
    <3>1. n \in 1 .. N /\ g[n] = St(n, g) BY <1>0, <1>8, <2>2
    <3>2. CASE At(n) = {}
      <4>1. n + 1 \in S BY <1>0, <1>9, <3>1
      <4>2. g[n] = g[n + 1] BY <3>1, <3>2 DEF St
      <4>3. Found(g[n], s, n + 1, W) BY <4>1, <4>2
      <4>4. Found(g[n], s, n, W) BY <3>1, <3>2, <4>3, FoundNext DEF At
      <4> QED BY <4>4
    <3>3. CASE At(n) # {}
      <4> DEFINE e == end(n) - 1
      <4>1. end(n) \in n + 1 .. N + 1 /\ SubSeq(s, n, e) \in W BY <1>1, <3>1, <3>3
      <4>2. e \in n .. N /\ e + 1 = end(n) BY <1>0, <4>1
      <4>3. end(n) \in S BY <1>9, <4>1
      <4>4. g[n] = <<[from |-> n, to |-> e]>> \o g[end(n)] BY <3>1, <3>3 DEF St
      <4> HIDE DEF e
      <4>5. Found(g[end(n)], s, e + 1, W) BY <4>2, <4>3
      <4>6. Found(<<[from |-> n, to |-> e]>> \o g[end(n)], s, n, W) BY <3>1, <4>1, <4>2, <4>5, FoundHere
      <4> QED BY <4>4, <4>6
    <3> QED BY <3>2, <3>3
  <2> QED BY <2>1, <2>2
<1> HIDE DEF S
<1>10. 1 .. N + 1 \subseteq S BY <1>0, <1>9, DownwardSet
<1>11. 1 \in S BY <1>0, <1>10
<1> QED BY <1>7, <1>11 DEF S

\* The word that a span of the search covers stands there.
LEMMA SpanOccurs ==
    ASSUME NEW s \in Text, NEW W, NEW f, Found(f, s, 1, W), NEW k \in 1 .. Len(f)
    PROVE  LET w == SubSeq(s, f[k].from, f[k].to)
           IN  /\ f[k].from \in 1 .. Len(s) /\ f[k].to \in f[k].from .. Len(s)
               /\ w \in W /\ w \in Text /\ Len(w) = f[k].to - f[k].from + 1
               /\ OccursAt(s, f[k].from, w)
<1> DEFINE i == f[k].from
           j == f[k].to
           w == SubSeq(s, i, j)
<1>1. f[k] \in Span BY DEF Found
<1>2. i \in Nat /\ j \in Nat BY <1>1 DEF Span
<1>3. 1 <= i /\ i <= j /\ j <= Len(s) /\ w \in W BY DEF Found
<1> HIDE DEF i, j
<1>4. Len(s) \in Nat BY Small
<1>5. i \in Nat \ {0} /\ i <= j + 1 BY <1>2, <1>3
<1>6. w \in Text /\ Len(w) = j - i + 1 BY <1>2, <1>3, <1>5, Part
<1>7. OccursAt(s, i, w)
  <2>1. i + Len(w) - 1 = j BY <1>2, <1>6
  <2> QED BY <1>3, <2>1 DEF OccursAt
<1>8. i \in 1 .. Len(s) /\ j \in i .. Len(s) BY <1>2, <1>3, <1>4
<1> QED BY <1>3, <1>6, <1>7, <1>8 DEF i, j

\* Every occurrence of a token is a span of the search for tokens.
LEMMA TokenSpans ==
    ASSUME NEW s \in Text, NEW T, NEW orig, Stands(T, orig), NEW f, Found(f, s, 1, T),
           NEW m \in 1 .. Len(s), NEW t \in T, OccursAt(s, m, t)
    PROVE  \E k \in 1 .. Len(f) : f[k].from = m /\ f[k].to = m + Len(t) - 1
<1>1. PICK k \in 1 .. Len(f) : f[k].from <= m /\ m <= f[k].to BY DEF Found
<1> DEFINE i == f[k].from
           j == f[k].to
           w == SubSeq(s, i, j)
<1>2. /\ i \in 1 .. Len(s) /\ j \in i .. Len(s)
      /\ w \in T /\ w \in Text /\ Len(w) = j - i + 1 /\ OccursAt(s, i, w)
  BY SpanOccurs
<1> HIDE DEF i, j, w
<1>3. Len(s) \in Nat BY Small
<1>4. Shaped(w) /\ Shaped(t) BY <1>2 DEF Stands
<1>5. i \in Nat \ {0} /\ m \in Nat \ {0} /\ m <= i + Len(w) - 1 /\ m >= i
  <2>1. i <= m /\ m <= j BY <1>1 DEF i, j
  <2> QED BY <1>2, <1>3, <2>1
<1>6. m = i /\ t = w BY <1>2, <1>4, <1>5, Fence
<1>7. i + Len(w) - 1 = j BY <1>2, <1>3
<1> QED BY <1>6, <1>7 DEF i, j

-------------------------------------------------------------------------------
(* Redaction: what redacted texts are restored to. *)

\* Tokens that do not stand in a text do not matter to it.
LEMMA ResolveSame ==
    ASSUME NEW s \in Text, NEW T, NEW orig, Stands(T, orig), NEW U, NEW other, Stands(U, other),
           \A n \in 1 .. Len(s) : TokensAt(s, n, U) = TokensAt(s, n, T),
           \A t \in T : t \in U => other[t] = orig[t]
    PROVE  Resolve(s, U, other) = Resolve(s, T, orig)
<1> DEFINE q == ResolveFrom(s, U, other)
<1>1. Resolves(q, s, U, other) BY ResolveSteps
<1> HIDE DEF q
<1>2. q[Len(s) + 1] = <<>> BY <1>1 DEF Resolves
<1>3. ASSUME NEW n \in 1 .. Len(s)
      PROVE  q[n] = IF TokensAt(s, n, T) = {} THEN <<s[n]>> \o q[n + 1]
                    ELSE orig[Standing(s, n, T)] \o q[n + Len(Standing(s, n, T))]
  <2>1. CASE TokensAt(s, n, T) = {} BY <1>1, <2>1 DEF Resolves
  <2>2. CASE TokensAt(s, n, T) # {}
    <3> DEFINE t == Standing(s, n, T)
    <3>1. t \in T /\ OccursAt(s, n, t) BY <2>2, StandingOne
    <3>2. t = Standing(s, n, U) BY DEF Standing
    <3>3. t \in U BY <2>2, <3>2, StandingOne
    <3> HIDE DEF t
    <3>4. q[n] = other[t] \o q[n + Len(t)] BY <1>1, <3>1, <3>3 DEF Resolves
    <3>5. q[n] = orig[t] \o q[n + Len(t)] BY <3>1, <3>3, <3>4
    <3> QED BY <2>2, <3>5 DEF t
  <2> QED BY <2>1, <2>2
<1>4. q[1] = Resolve(s, T, orig)
  <2>1. Follows(q, s, T, orig) BY <1>2, <1>3 DEF Follows
  <2> QED BY <2>1, ResolveUnique
<1> QED BY <1>4 DEF q, Resolve

\* What occurs in a part occurs in the whole.
LEMMA ContainsPart ==
    ASSUME NEW a \in Text, NEW b \in Text, NEW t \in Text, Len(t) >= 1
    PROVE  (Contains(a, t) \/ Contains(b, t)) => Contains(a \o b, t)
<1> DEFINE s == a \o b
<1>0. Len(a) \in Nat /\ Len(b) \in Nat /\ Len(t) \in Nat /\ Len(s) = Len(a) + Len(b) BY Small, Joined
<1>1. ASSUME NEW n \in 1 .. Len(a), OccursAt(a, n, t) PROVE Contains(s, t)
  <2>1. n + Len(t) - 1 <= Len(a) BY <1>1 DEF OccursAt
  <2>2. n \in Nat \ {0} BY <1>0
  <2>3. OccursAt(s, n, t) BY <1>1, <2>1, <2>2, OccursJoined
  <2> HIDE DEF s
  <2>4. n \in 1 .. Len(s) BY <1>0
  <2> QED BY <2>3, <2>4 DEF Contains
<1>2. ASSUME NEW n \in 1 .. Len(b), OccursAt(b, n, t) PROVE Contains(s, t)
  <2>2. n \in Nat \ {0} BY <1>0
  <2>3. OccursAt(s, Len(a) + n, t) BY <1>2, <2>2, OccursJoined
  <2> HIDE DEF s
  <2>4. Len(a) + n \in 1 .. Len(s) BY <1>0
  <2> QED BY <2>3, <2>4 DEF Contains
<1> QED BY <1>1, <1>2 DEF Contains

\* A token between two texts: whatever has the shape of a token is this one or lies
\* in one of the texts, and no token runs into it.
LEMMA Between ==
    ASSUME NEW a \in Text, NEW u, Shaped(u), NEW b \in Text, NEW t, Shaped(t),
           NEW n \in 1 .. Len((a \o u) \o b), OccursAt((a \o u) \o b, n, t)
    PROVE  /\ t = u \/ Contains(a, t) \/ Contains(b, t)
           /\ n <= Len(a) => n + Len(t) - 1 <= Len(a)
<1> DEFINE c == a \o u
           s == c \o b
<1>0. /\ u \in Text /\ t \in Text /\ Len(u) \in Nat /\ Len(t) \in Nat /\ Len(t) >= 2 /\ Len(u) >= 2
      /\ Len(a) \in Nat /\ Len(b) \in Nat
  BY Small DEF Shaped
<1>1. c \in Text /\ Len(c) = Len(a) + Len(u) BY <1>0, Joined
<1>2. OccursAt(c, Len(a) + 1, u)
  <2>1. OccursAt(u, 1, u)
    <3>1. SubSeq(u, 1, Len(u)) = u BY <1>0, SubSeqFull DEF Text
    <3>2. 1 + Len(u) - 1 = Len(u) BY <1>0
    <3> QED BY <1>0, <3>1, <3>2 DEF OccursAt
  <2> QED BY <1>0, <2>1, OccursJoined
<1>a. ASSUME NEW i \in Nat \ {0}, i + Len(t) - 1 <= Len(a) PROVE OccursAt(c, i, t) <=> OccursAt(a, i, t)
  BY <1>0, <1>a, OccursJoined
<1> HIDE DEF c
<1>3. s \in Text /\ Len(s) = Len(c) + Len(b) BY <1>1, Joined
<1>4. OccursAt(s, Len(a) + 1, u)
  <2>1. Len(a) + 1 \in Nat \ {0} /\ (Len(a) + 1) + Len(u) - 1 <= Len(c) BY <1>0, <1>1
  <2> QED BY <1>0, <1>1, <1>2, <2>1, OccursJoined
<1>b. ASSUME NEW i \in Nat \ {0}, i + Len(t) - 1 <= Len(c) PROVE OccursAt(s, i, t) <=> OccursAt(c, i, t)
  BY <1>0, <1>1, <1>b, OccursJoined
<1>c. ASSUME NEW i \in Nat \ {0} PROVE OccursAt(s, Len(c) + i, t) <=> OccursAt(b, i, t)
  BY <1>0, <1>1, <1>c, OccursJoined
<1>5. OccursAt(s, n, t) /\ n \in 1 .. Len(s) BY DEF c
<1> HIDE DEF s
<1>6. n \in Nat \ {0} /\ Len(a) + 1 \in Nat \ {0} BY <1>0, <1>1, <1>3, <1>5
<1>7. CASE n <= (Len(a) + 1) + Len(u) - 1
  <2>1. /\ n < Len(a) + 1 => n + Len(t) - 1 < Len(a) + 1
        /\ n >= Len(a) + 1 => n = Len(a) + 1 /\ t = u
    BY <1>3, <1>4, <1>5, <1>6, <1>7, Fence
  <2>2. CASE n <= Len(a)
    <3>1. n + Len(t) - 1 <= Len(a) BY <1>0, <1>6, <2>1, <2>2
    <3>2. OccursAt(c, n, t)
      <4>1. n + Len(t) - 1 <= Len(c) BY <1>0, <1>1, <1>6, <3>1
      <4> QED BY <1>5, <1>6, <1>b, <4>1
    <3>3. OccursAt(a, n, t) BY <1>6, <1>a, <3>1, <3>2
    <3>4. n \in 1 .. Len(a) BY <1>0, <1>6, <2>2
    <3> QED BY <3>1, <3>3, <3>4 DEF Contains
  <2>3. CASE ~(n <= Len(a))
    <3>1. n >= Len(a) + 1 BY <1>0, <1>6, <2>3
    <3> QED BY <2>1, <2>3, <3>1
  <2> QED BY <2>2, <2>3
<1>8. CASE ~(n <= (Len(a) + 1) + Len(u) - 1)
  <2> DEFINE i == n - Len(c)
  <2>1. i \in Nat \ {0} /\ Len(c) + i = n /\ i \in 1 .. Len(b) /\ ~(n <= Len(a))
    BY <1>0, <1>1, <1>3, <1>5, <1>8
  <2> HIDE DEF i
  <2>2. OccursAt(b, i, t) BY <1>5, <1>c, <2>1
  <2> QED BY <2>1, <2>2 DEF Contains
<1> QED BY <1>7, <1>8

\* No token starts in a word.
LEMMA BareFree ==
    ASSUME NEW T, NEW orig, Stands(T, orig), NEW w, Bare(w), NEW b \in Text
    PROVE  Parted(w, b, T) /\ Resolve(w, T, orig) = w
<1>0. w \in Text /\ Len(w) \in Nat BY Small DEF Bare
<1>1. ASSUME NEW s \in Text, \A i \in 1 .. Len(w) : s[i] = w[i],
             NEW m \in 1 .. Len(w), NEW t \in T, OccursAt(s, m, t)
      PROVE  FALSE
  <2>1. t \in Text /\ Len(t) \in Nat /\ Len(t) >= 2 /\ t[1] = "<"
    <3>1. t \in Text /\ Len(t) >= 2 /\ \A n \in 1 .. Len(t) : t[n] = "<" <=> n = 1 BY DEF Stands, Shaped
    <3>2. Len(t) \in Nat BY <3>1, Small
    <3>3. 1 \in 1 .. Len(t) BY <3>1, <3>2
    <3> QED BY <3>1, <3>2, <3>3
  <2>2. m \in Nat \ {0} BY <1>0
  <2>3. \A i \in 1 .. Len(t) : s[m + i - 1] = t[i] BY <1>1, <2>1, <2>2, OccursChars
  <2>4. 1 \in 1 .. Len(t) /\ m + 1 - 1 = m BY <2>1, <2>2
  <2>5. s[m] = "<" BY <2>1, <2>3, <2>4
  <2> QED BY <1>1, <2>5 DEF Bare
<1>2. Parted(w, b, T)
  <2>1. w \o b \in Text /\ \A i \in 1 .. Len(w) : (w \o b)[i] = w[i] BY <1>0, Joined
  <2>2. ASSUME NEW m \in 1 .. Len(w), NEW t \in T PROVE ~OccursAt(w \o b, m, t) BY <1>1, <2>1
  <2> QED BY <2>2 DEF Parted
<1>3. Resolve(w, T, orig) = w
  <2>1. \A n \in 1 .. Len(w) : TokensAt(w, n, T) = {}
    <3> SUFFICES ASSUME NEW n \in 1 .. Len(w), NEW t \in T, OccursAt(w, n, t) PROVE FALSE BY DEF TokensAt
    <3> QED BY <1>0, <1>1
  <2> QED BY <1>0, <2>1, ResolvePlain
<1> QED BY <1>2, <1>3

\* A word that no token reaches into, and the token that replaces it, are restored to
\* the same.
LEMMA Replaced ==
    ASSUME NEW T, NEW orig, Stands(T, orig), NEW a \in Text, NEW b \in Text, NEW w, Bare(w),
           NEW u \in T, orig[u] = w, Parted(a, w \o b, T)
    PROVE  Resolve((a \o u) \o b, T, orig) = Resolve((a \o w) \o b, T, orig)
<1> DEFINE R(s) == Resolve(s, T, orig)
<1>0. u \in Text /\ w \in Text /\ Shaped(u) BY DEF Stands, Shaped, Bare
<1>1. u \o b \in Text /\ w \o b \in Text BY <1>0, Joined
<1>2. Assoc(a, u, b) /\ Assoc(a, w, b) BY <1>0, Associates
<1>3. R(a \o (w \o b)) = R(a) \o R(w \o b) BY <1>1, ResolveJoined
<1>4. R(w \o b) = R(w) \o R(b)
  <2>1. Parted(w, b, T) BY BareFree
  <2> QED BY <1>0, <2>1, ResolveJoined
<1>5. R(w) = w BY BareFree
<1>6. R(u) = w BY ResolveToken
<1>7. R(u \o b) = R(u) \o R(b)
  <2>1. u = <<>> \o u /\ <<>> \in Text BY <1>0, Small
  <2>2. Ended(u, T) BY <2>1 DEF Ended
  <2>3. Parted(u, b, T) BY <1>0, <2>2, EndedParted
  <2> QED BY <1>0, <2>3, ResolveJoined
<1>8. Parted(a, u \o b, T)
  <2> SUFFICES ASSUME NEW m \in 1 .. Len(a), NEW t \in T, OccursAt(a \o (u \o b), m, t)
               PROVE  m + Len(t) - 1 <= Len(a)
    BY DEF Parted
  <2>1. OccursAt((a \o u) \o b, m, t) BY <1>2 DEF Assoc
  <2>2. m \in 1 .. Len((a \o u) \o b)
    <3>1. Len((a \o u) \o b) = Len(a) + Len(u) + Len(b) /\ Len(a) \in Nat /\ Len(u) \in Nat /\ Len(b) \in Nat
      <4>1. a \o u \in Text /\ Len(a \o u) = Len(a) + Len(u) BY <1>0, Joined
      <4> QED BY <1>0, <4>1, Joined, Small
    <3> QED BY <3>1
  <2>3. m <= Len(a)
    <3>1. Len(a) \in Nat BY Small
    <3> QED BY <3>1
  <2>4. Shaped(t) BY DEF Stands
  <2> QED BY <1>0, <2>1, <2>2, <2>3, <2>4, Between
<1>9. R(a \o (u \o b)) = R(a) \o R(u \o b) BY <1>1, <1>8, ResolveJoined
<1>10. R(a \o (u \o b)) = R(a \o (w \o b)) BY <1>3, <1>4, <1>5, <1>6, <1>7, <1>9
<1> QED BY <1>2, <1>10 DEF Assoc

-------------------------------------------------------------------------------
(* Redaction: one rule over one text. *)

\* No token of T is spelt in s.
Silent(s, T) == \A t \in T : ~Contains(s, t)

\* txt is what the session has made of src so far: what looks like a token in it is
\* one or was in src already, and it is restored to src unless src spells a token.
Kept(src, txt, v) ==
    /\ src \in Text /\ txt \in Text
    /\ \A t : Shaped(t) /\ Contains(txt, t) => t \in DOMAIN v.t2o \/ Contains(src, t)
    /\ Silent(src, DOMAIN v.t2o) => Resolve(txt, DOMAIN v.t2o, v.t2o) = src

\* At first a text is itself.
LEMMA KeptSelf ==
    ASSUME NEW rs, Sound(rs), NEW v, VaultOK(v, rs), NEW s \in Text
    PROVE  Kept(s, s, v)
<1> DEFINE T == DOMAIN v.t2o
<1>1. Stands(T, v.t2o) BY VaultStands
<1>2. ASSUME Silent(s, T) PROVE Resolve(s, T, v.t2o) = s
  <2>1. \A n \in 1 .. Len(s) : TokensAt(s, n, T) = {} BY <1>2 DEF Silent, Contains, TokensAt
  <2> QED BY <1>1, <2>1, ResolvePlain
<1> QED BY <1>2 DEF Kept

\* New tokens change nothing for a text that has been redacted before.
LEMMA KeptGrown ==
    ASSUME NEW rs, Sound(rs), NEW v, VaultOK(v, rs), NEW w, VaultOK(w, rs), Grown(v, w),
           NEW src, NEW txt, Kept(src, txt, v)
    PROVE  Kept(src, txt, w)
<1> DEFINE T == DOMAIN v.t2o
           U == DOMAIN w.t2o
<1>1. Stands(T, v.t2o) /\ Stands(U, w.t2o) BY VaultStands
<1>2. \A t \in T : t \in U /\ w.t2o[t] = v.t2o[t] BY DEF Grown
<1>3. src \in Text /\ txt \in Text BY DEF Kept
<1>4. \A t : Shaped(t) /\ Contains(txt, t) => t \in T \/ Contains(src, t) BY DEF Kept
<1>5. ASSUME Silent(src, U) PROVE Resolve(txt, U, w.t2o) = src
  <2>1. Silent(src, T) BY <1>2, <1>5 DEF Silent
  <2>2. Resolve(txt, T, v.t2o) = src BY <2>1 DEF Kept
  <2>3. \A n \in 1 .. Len(txt) : TokensAt(txt, n, U) = TokensAt(txt, n, T)
    <3> SUFFICES ASSUME NEW n \in 1 .. Len(txt), NEW t PROVE t \in TokensAt(txt, n, U) <=> t \in TokensAt(txt, n, T)
      OBVIOUS
    <3>1. ASSUME t \in TokensAt(txt, n, U) PROVE t \in TokensAt(txt, n, T)
      <4>1. t \in U /\ OccursAt(txt, n, t) BY <3>1 DEF TokensAt
      <4>2. Shaped(t) BY <1>1, <4>1 DEF Stands
      <4>3. Contains(txt, t) BY <4>1 DEF Contains
      <4>4. ~Contains(src, t) BY <1>5, <4>1 DEF Silent
      <4> QED BY <1>4, <4>1, <4>2, <4>3, <4>4 DEF TokensAt
    <3>2. ASSUME t \in TokensAt(txt, n, T) PROVE t \in TokensAt(txt, n, U) BY <1>2, <3>2 DEF TokensAt
    <3> QED BY <3>1, <3>2
  <2>4. \A t \in T : t \in U => w.t2o[t] = v.t2o[t] BY <1>2
  <2> HIDE DEF T, U
  <2>5. Resolve(txt, U, w.t2o) = Resolve(txt, T, v.t2o) BY <1>1, <1>3, <2>3, <2>4, ResolveSame
  <2> QED BY <2>2, <2>5
<1> QED BY <1>2, <1>3, <1>4, <1>5 DEF Kept

\* a, a word and b become a, a token and b.
LEMMA KeptReplaced ==
    ASSUME NEW rs, Sound(rs), NEW v, VaultOK(v, rs), NEW src, NEW a \in Text, NEW b \in Text, NEW x, Bare(x),
           Kept(src, (a \o x) \o b, v), NEW u \in DOMAIN v.t2o, v.t2o[u] = x,
           Silent(src, DOMAIN v.t2o) => Parted(a, x \o b, DOMAIN v.t2o)
    PROVE  Kept(src, (a \o u) \o b, v)
<1> DEFINE T == DOMAIN v.t2o
           old == (a \o x) \o b
           new == (a \o u) \o b
<1>1. Stands(T, v.t2o) BY VaultStands
<1>2. x \in Text /\ u \in Text /\ Shaped(u) BY <1>1 DEF Bare, Stands, Shaped
<1>3. a \o x \in Text /\ a \o u \in Text BY <1>2, Joined
<1>4. old \in Text /\ new \in Text /\ src \in Text BY <1>3, Joined DEF Kept
<1>5. ASSUME NEW t, Shaped(t), Contains(new, t) PROVE t \in T \/ Contains(src, t)
  <2>1. PICK n \in 1 .. Len(new) : OccursAt(new, n, t) BY <1>5 DEF Contains
  <2>2. t = u \/ Contains(a, t) \/ Contains(b, t) BY <1>2, <1>5, <2>1, Between
  <2>3. t \in Text /\ Len(t) >= 1
    <3>1. t \in Text /\ Len(t) >= 2 BY <1>5 DEF Shaped
    <3>2. Len(t) \in Nat BY <3>1, Small
    <3> QED BY <3>1, <3>2
  <2>4. Contains(a, t) => Contains(a \o x, t) BY <1>2, <2>3, ContainsPart
  <2>5. Contains(a \o x, t) \/ Contains(b, t) => Contains(old, t) BY <1>3, <2>3, ContainsPart
  <2>6. t = u \/ Contains(old, t) BY <2>2, <2>4, <2>5
  <2>7. Contains(old, t) => t \in T \/ Contains(src, t) BY <1>5 DEF Kept
  <2> QED BY <2>6, <2>7
<1>6. ASSUME Silent(src, T) PROVE Resolve(new, T, v.t2o) = src
  <2>1. Parted(a, x \o b, T) BY <1>6
  <2>2. Resolve(new, T, v.t2o) = Resolve(old, T, v.t2o) BY <1>1, <2>1, Replaced
  <2>3. Resolve(old, T, v.t2o) = src BY <1>6 DEF Kept
  <2> QED BY <2>2, <2>3
<1> HIDE DEF new, old
<1>7. Kept(src, new, v) BY <1>4, <1>5, <1>6 DEF Kept
<1> QED BY <1>7 DEF new

\* Three neighbouring parts of a text.
LEMMA PartJoin ==
    ASSUME NEW s \in Text, NEW i \in 0 .. Len(s), NEW j \in i .. Len(s), NEW k \in j .. Len(s)
    PROVE  /\ SubSeq(s, i + 1, j) \in Text /\ Len(SubSeq(s, i + 1, j)) = j - i
           /\ SubSeq(s, i + 1, j) \o SubSeq(s, j + 1, k) = SubSeq(s, i + 1, k)
<1>0. Len(s) \in Nat BY Small
<1>1. s \in Seq(Byte) /\ i + 1 \in 1 .. Len(s) + 1 /\ j \in (i + 1) - 1 .. Len(s) /\ k \in j .. Len(s)
  BY <1>0 DEF Text
<1>2. i + 1 \in Nat \ {0} /\ j \in Nat /\ j <= Len(s) /\ i + 1 <= j + 1 /\ j - (i + 1) + 1 = j - i BY <1>0
<1>3. SubSeq(s, i + 1, j) \in Text /\ Len(SubSeq(s, i + 1, j)) = j - (i + 1) + 1 BY <1>2, Part
<1>4. SubSeq(s, i + 1, j) \o SubSeq(s, j + 1, k) = SubSeq(s, i + 1, k) BY <1>1, ConcatAdjacentSubSeq
<1> QED BY <1>2, <1>3, <1>4

\* What has been written of s is a text that a token ends and then s from x on.
Written(src, s, out_, last, v) ==
    \E o \in Text, x \in 0 .. last :
      /\ out_ = o \o SubSeq(s, x + 1, last)
      /\ Ended(o, DOMAIN v.t2o)
      /\ Kept(src, o \o SubSeq(s, x + 1, Len(s)), v)

\* A match is left as it is.
LEMMA WriteSame ==
    ASSUME NEW src, NEW s \in Text, NEW y \in Text, NEW last \in 0 .. Len(s), NEW v, Written(src, s, y, last, v),
           NEW i \in last + 1 .. Len(s), NEW j \in i .. Len(s)
    PROVE  Written(src, s, (y \o SubSeq(s, last + 1, i - 1)) \o SubSeq(s, i, j), j, v)
<1>0. Len(s) \in Nat BY Small
<1>1. PICK o \in Text, x \in 0 .. last :
        /\ y = o \o SubSeq(s, x + 1, last) /\ Ended(o, DOMAIN v.t2o)
        /\ Kept(src, o \o SubSeq(s, x + 1, Len(s)), v)
  BY DEF Written
<1> DEFINE e == i - 1
           a == SubSeq(s, x + 1, last)
           b == SubSeq(s, last + 1, e)
           c == SubSeq(s, e + 1, j)
<1>2. /\ x \in 0 .. Len(s) /\ last \in x .. Len(s) /\ e \in last .. Len(s) /\ j \in e .. Len(s) /\ e + 1 = i
      /\ last \in 0 .. Len(s) /\ e \in 0 .. Len(s) /\ e \in x .. Len(s) /\ x \in 0 .. j /\ j \in j .. Len(s)
  BY <1>0
<1> HIDE DEF e
<1>3. a \in Text /\ a \o b = SubSeq(s, x + 1, e) BY <1>2, PartJoin
<1>4. b \in Text BY <1>2, PartJoin
<1>5. SubSeq(s, x + 1, e) \o c = SubSeq(s, x + 1, j) BY <1>2, PartJoin
<1>6. c \in Text BY <1>2, PartJoin
<1> HIDE DEF a, b, c
<1>7. a \o b \in Text /\ o \o a \in Text BY <1>3, <1>4, Joined
<1>8. Assoc(o, a, b) /\ Assoc(o, a \o b, c) BY <1>3, <1>4, <1>6, <1>7, Associates
<1>9. ((o \o a) \o b) \o c = o \o ((a \o b) \o c) BY <1>8 DEF Assoc
<1>10. (y \o b) \o c = o \o SubSeq(s, x + 1, j) BY <1>1, <1>3, <1>5, <1>9 DEF a
<1>11. Written(src, s, (y \o b) \o c, j, v) BY <1>1, <1>2, <1>10 DEF Written
<1> QED BY <1>2, <1>11 DEF b, c, e

\* The match s[i .. j] touches no token of the text.
Untouched(s, i, j, T) ==
    \A m \in 1 .. Len(s) : \A t \in T : OccursAt(s, m, t) => i > m + Len(t) - 1 \/ j < m

\* A match becomes a token.
LEMMA WriteToken ==
    ASSUME NEW rs, Sound(rs), NEW v, VaultOK(v, rs), NEW w, VaultOK(w, rs), Grown(v, w),
           NEW src, NEW s \in Text, NEW y \in Text, NEW last \in 0 .. Len(s), Written(src, s, y, last, v),
           NEW z, VaultOK(z, rs), Grown(z, w), Kept(src, s, z),
           NEW i \in last + 1 .. Len(s), NEW j \in i .. Len(s), Untouched(s, i, j, DOMAIN z.t2o),
           NEW u \in DOMAIN w.t2o, w.t2o[u] = SubSeq(s, i, j), Bare(SubSeq(s, i, j))
    PROVE  Written(src, s, (y \o SubSeq(s, last + 1, i - 1)) \o u, j, w)
<1>0. Len(s) \in Nat BY Small
<1>1. PICK o \in Text, x \in 0 .. last :
        /\ y = o \o SubSeq(s, x + 1, last) /\ Ended(o, DOMAIN v.t2o)
        /\ Kept(src, o \o SubSeq(s, x + 1, Len(s)), v)
  BY DEF Written
<1> DEFINE e == i - 1
           T == DOMAIN w.t2o
           p == SubSeq(s, x + 1, last)
           q == SubSeq(s, last + 1, e)
           a == o \o SubSeq(s, x + 1, e)
           c == SubSeq(s, e + 1, j)
           b == SubSeq(s, j + 1, Len(s))
           rest == SubSeq(s, x + 1, Len(s))
<1>2. /\ x \in 0 .. Len(s) /\ last \in x .. Len(s) /\ e \in last .. Len(s) /\ j \in e .. Len(s) /\ e + 1 = i
      /\ last \in 0 .. Len(s) /\ e \in 0 .. Len(s) /\ e \in x .. Len(s) /\ j \in 0 .. Len(s)
      /\ j \in j .. Len(s) /\ Len(s) \in j .. Len(s) /\ Len(s) \in Len(s) .. Len(s) /\ Len(s) \in e .. Len(s)
      /\ j \in 0 .. j
  BY <1>0
<1> HIDE DEF e
<1>3. SubSeq(s, x + 1, e) \in Text /\ Len(SubSeq(s, x + 1, e)) = e - x /\ SubSeq(s, x + 1, e) \o SubSeq(s, e + 1, Len(s)) = rest
  BY <1>2, PartJoin
<1>4. p \in Text /\ p \o q = SubSeq(s, x + 1, e) BY <1>2, PartJoin
<1>5. q \in Text BY <1>2, PartJoin
<1>6. c \in Text /\ c \o b = SubSeq(s, e + 1, Len(s)) BY <1>2, PartJoin
<1>7. b \in Text /\ rest \in Text
  <2>1. j + 1 \in Nat \ {0} /\ x + 1 \in Nat \ {0} /\ Len(s) <= Len(s) BY <1>0
  <2> QED BY <1>0, <2>1, Part
<1>8. a \in Text /\ Len(a) = Len(o) + (e - x)
  <2>1. a \in Text /\ Len(a) = Len(o) + Len(SubSeq(s, x + 1, e)) BY <1>3, Joined
  <2> QED BY <1>3, <2>1
<1>9. y \o q = a
  <2>1. Assoc(o, p, q) BY <1>4, <1>5, Associates
  <2> QED BY <1>1, <1>4, <2>1 DEF Assoc
<1>10. o \o rest = (a \o c) \o b
  <2> DEFINE d == SubSeq(s, x + 1, e)
  <2>1. d \in Text /\ c \o b \in Text /\ d \o (c \o b) = rest BY <1>3, <1>6, <1>7, Joined
  <2> HIDE DEF d, c, b, rest
  <2>2. Assoc(o, d, c \o b) BY <2>1, Associates
  <2>3. a = o \o d BY DEF d
  <2>4. Assoc(a, c, b) BY <1>6, <1>7, <1>8, Associates
  <2> HIDE DEF a
  <2> QED BY <2>1, <2>2, <2>3, <2>4 DEF Assoc
<1>11. Stands(T, w.t2o) /\ Stands(DOMAIN z.t2o, z.t2o) BY VaultStands
<1>12. Kept(src, (a \o c) \o b, w)
  <2>1. Kept(src, o \o rest, v) BY <1>1
  <2> HIDE DEF a, c, b, rest
  <2>2. Kept(src, o \o rest, w) BY <2>1, KeptGrown
  <2> QED BY <1>10, <2>2
<1>13. Ended(o, T)
  <2>1. DOMAIN v.t2o \subseteq T BY DEF Grown
  <2> QED BY <1>1, <2>1 DEF Ended
<1>14. ASSUME Silent(src, T) PROVE Parted(a, c \o b, T)
  <2> SUFFICES ASSUME NEW n \in 1 .. Len(a), NEW t \in T, OccursAt(a \o (c \o b), n, t)
               PROVE  n + Len(t) - 1 <= Len(a)
    BY DEF Parted
  <2> HIDE DEF a, c, b
  <2>1. OccursAt(o \o rest, n, t)
    <3>1. Assoc(a, c, b) BY <1>6, <1>7, <1>8, Associates
    <3> QED BY <1>10, <3>1 DEF Assoc
  <2> HIDE DEF rest
  <2>2. Shaped(t) /\ t \in Text /\ Len(t) \in Nat /\ Len(o) \in Nat
    <3>1. Shaped(t) /\ t \in Text BY <1>11 DEF Stands, Shaped
    <3> QED BY <3>1, Small
  <2>3. CASE n <= Len(o)
    <3>1. Parted(o, rest, T) BY <1>7, <1>11, <1>13, EndedParted
    <3>2. n \in 1 .. Len(o) BY <2>2, <2>3, <1>8, <1>2, <1>0
    <3>3. n + Len(t) - 1 <= Len(o) BY <2>1, <3>1, <3>2 DEF Parted
    <3> QED BY <1>0, <1>2, <1>8, <2>2, <3>2, <3>3
  <2>4. CASE ~(n <= Len(o))
    <3> DEFINE d == n - Len(o)
    <3>1. d \in Nat \ {0} /\ Len(o) + d = n /\ d <= e - x /\ x + 1 \in 1 .. Len(s) + 1 /\ (x + 1) + d - 1 = x + d
          /\ x + d \in 1 .. Len(s) /\ x + d <= e
      BY <1>0, <1>2, <1>8, <2>2, <2>4
    <3> HIDE DEF d
    <3>2. OccursAt(rest, d, t) BY <1>7, <2>1, <2>2, <3>1, OccursJoined
    <3>3. OccursAt(s, (x + 1) + d - 1, t) BY <2>2, <3>1, <3>2, OccursRest DEF rest
    <3>4. OccursAt(s, x + d, t) BY <3>1, <3>3
    <3>5. Contains(s, t) BY <3>1, <3>4 DEF Contains
    <3>6. ~Contains(src, t) BY <1>14 DEF Silent
    <3>7. t \in DOMAIN z.t2o BY <2>2, <3>5, <3>6 DEF Kept
    <3>8. i > (x + d) + Len(t) - 1 \/ j < x + d BY <3>1, <3>4, <3>7 DEF Untouched
    <3>9. ~(j < x + d) BY <1>0, <1>2, <3>1
    <3>10. i > (x + d) + Len(t) - 1 BY <3>8, <3>9
    <3>11. e + 1 > (x + d) + Len(t) - 1 BY <1>2, <3>10
    <3>12. n = Len(o) + d /\ Len(a) = Len(o) + (e - x) BY <1>8, <3>1
    <3>13. e \in Nat /\ x \in Nat /\ d \in Nat BY <1>0, <1>2, <3>1
    <3> QED BY <2>2, <3>11, <3>12, <3>13
  <2> QED BY <2>3, <2>4
<1>15. Bare(c) /\ w.t2o[u] = c BY <1>2
<1>16. Kept(src, (a \o u) \o b, w)
  <2> HIDE DEF a, b, c
  <2> QED BY <1>7, <1>8, <1>12, <1>14, <1>15, KeptReplaced
<1>17. a \o u \in Text
  <2>1. u \in Text BY <1>11 DEF Stands, Shaped
  <2> QED BY <1>8, <2>1, Joined
<1>18. Ended(a \o u, T) BY <1>8 DEF Ended
<1>19. (y \o q) \o u = (a \o u) \o SubSeq(s, j + 1, j)
  <2>1. SubSeq(s, j + 1, j) = <<>>
    <3>1. j + 1 \in Nat \ {0} /\ j \in Nat /\ j <= Len(s) /\ j + 1 > j BY <1>0
    <3> QED BY <3>1, Part
  <2> HIDE DEF a, q
  <2> QED BY <1>9, <1>17, <2>1, Small
<1> HIDE DEF a, q
<1>20. Written(src, s, (y \o q) \o u, j, w) BY <1>2, <1>16, <1>17, <1>18, <1>19 DEF Written, b
<1> QED BY <1>20 DEF q, e

LEMMA GrownTrans ==
    ASSUME NEW v, NEW w, NEW z, Grown(v, w), Grown(w, z)
    PROVE  Grown(v, z)
BY DEF Grown

\* What applying a rule to the text of src promises.
Applied(r, src, v, c, rs) ==
    /\ VaultOK(r.vault, rs) /\ Grown(v, r.vault) /\ r.cache = c /\ r.failed \in BOOLEAN
    /\ r.failed => Cardinality(DOMAIN r.vault.t2o) = MaxTokens
    /\ ~r.failed => Kept(src, r.text, r.vault)

\* The state of the pass over the matches f of a rule in s, after k of them.
PassOK(p, k, f, src, s, v, rs) ==
    /\ VaultOK(p.vault, rs) /\ Grown(v, p.vault) /\ p.failed \in BOOLEAN
    /\ p.failed => Cardinality(DOMAIN p.vault.t2o) = MaxTokens
    /\ ~p.failed =>
         /\ p.out \in Text /\ p.last \in 0 .. Len(s) /\ Written(src, s, p.out, p.last, p.vault)
         /\ \A l \in k + 1 .. Len(f) : p.last < f[l].from

\* What becomes of the match s[i .. j].
Becomes(v, rule, word) == IF IsAllowed(word) THEN Minted(v, word) ELSE TokenFor(v, rule, word)

\* One match.
PassStep(p, k, f, spans, rule, s) ==
    LET m == f[k]
        t == Becomes(p.vault, rule, SubSeq(s, m.from, m.to))
    IN  IF p.failed \/ Overlaps(m, spans) THEN p
        ELSE [vault |-> t.vault, failed |-> t.failed, last |-> m.to,
              out |-> p.out \o SubSeq(s, p.last + 1, m.from - 1) \o t.text]

LEMMA PassKeeps ==
    ASSUME NEW rs, Sound(rs), NEW i \in 1 .. Len(rs), NEW v, VaultOK(v, rs),
           NEW src, NEW s \in Text, Kept(src, s, v),
           NEW f, Found(f, s, 1, rs[i].words), NEW spans, Found(spans, s, 1, DOMAIN v.t2o),
           NEW k \in 1 .. Len(f), NEW p, PassOK(p, k - 1, f, src, s, v, rs)
    PROVE  PassOK(PassStep(p, k, f, spans, rs[i], s), k, f, src, s, v, rs)
<1> DEFINE a == f[k].from
           b == f[k].to
           word == SubSeq(s, a, b)
           t == Becomes(p.vault, rs[i], word)
           q == PassStep(p, k, f, spans, rs[i], s)
<1>0. Len(f) \in Nat /\ Len(s) \in Nat BY Small DEF Found
<1>1. a \in 1 .. Len(s) /\ b \in a .. Len(s) /\ word \in rs[i].words /\ word \in Text BY SpanOccurs
<1>2. Bare(word) BY <1>1 DEF Sound
<1>3. \A l \in k + 1 .. Len(f) : l \in 1 .. Len(f) /\ k < l /\ l \in (k - 1) + 1 .. Len(f) BY <1>0
<1>4. \A l \in k + 1 .. Len(f) : b < f[l].from BY <1>3 DEF Found
<1>5. VaultOK(p.vault, rs) /\ Grown(v, p.vault) BY DEF PassOK
<1>6. CASE p.failed \/ Overlaps(f[k], spans)
  <2>1. q = p BY <1>6 DEF PassStep
  <2> HIDE DEF q
  <2>2. PassOK(p, k, f, src, s, v, rs) BY <1>3 DEF PassOK
  <2> QED BY <2>1, <2>2 DEF q
<1>7. CASE ~p.failed /\ ~Overlaps(f[k], spans)
  <2>1. q = [vault |-> t.vault, failed |-> t.failed, last |-> b,
             out |-> (p.out \o SubSeq(s, p.last + 1, a - 1)) \o t.text]
    BY <1>7 DEF PassStep
  <2>2. /\ q.vault = t.vault /\ q.failed = t.failed /\ q.last = b
        /\ q.out = (p.out \o SubSeq(s, p.last + 1, a - 1)) \o t.text
    <3> DEFINE o == (p.out \o SubSeq(s, p.last + 1, a - 1)) \o t.text
    <3>1. q = [vault |-> t.vault, failed |-> t.failed, last |-> b, out |-> o] BY <2>1
    <3> HIDE DEF q, t, b, o
    <3>2. q.vault = t.vault /\ q.failed = t.failed /\ q.last = b /\ q.out = o BY <3>1
    <3> QED BY <3>2 DEF o
  <2>3. /\ p.out \in Text /\ p.last \in 0 .. Len(s) /\ Written(src, s, p.out, p.last, p.vault)
        /\ p.last < a
    <3>1. /\ p.out \in Text /\ p.last \in 0 .. Len(s) /\ Written(src, s, p.out, p.last, p.vault)
          /\ \A l \in (k - 1) + 1 .. Len(f) : p.last < f[l].from
      BY <1>7 DEF PassOK
    <3>2. k \in (k - 1) + 1 .. Len(f) BY <1>0
    <3> QED BY <3>1, <3>2
  <2> HIDE DEF q
  <2>4. a \in p.last + 1 .. Len(s) /\ b \in 0 .. Len(s) /\ SubSeq(s, p.last + 1, a - 1) \in Text
    <3>1. a \in p.last + 1 .. Len(s) /\ b \in 0 .. Len(s) BY <1>0, <1>1, <2>3
    <3>2. p.last + 1 \in Nat \ {0} /\ a - 1 \in Nat /\ a - 1 <= Len(s)
      <4> DEFINE l == p.last
      <4>1. l \in 0 .. Len(s) /\ a \in l + 1 .. Len(s) /\ Len(s) \in Nat BY <1>0, <2>3, <3>1, Small
      <4> HIDE DEF l, a
      <4>2. l + 1 \in Nat \ {0} /\ a - 1 \in Nat /\ a - 1 <= Len(s) BY <4>1
      <4> QED BY <4>2 DEF l
    <3> QED BY <3>1, <3>2, Part
  <2>5. CASE IsAllowed(word)
    <3>1. t = [vault |-> p.vault, text |-> word, failed |-> FALSE] BY <2>5 DEF Becomes, Minted
    <3> HIDE DEF t
    <3>2. t.vault = p.vault /\ t.text = word /\ t.failed = FALSE
      <4> HIDE DEF word
      <4> QED BY <3>1
    <3>3. Written(src, s, (p.out \o SubSeq(s, p.last + 1, a - 1)) \o word, b, p.vault)
      <4> HIDE DEF a, b
      <4> QED BY <1>1, <2>3, <2>4, WriteSame
    <3>4. q.out \in Text
      <4>1. p.out \o SubSeq(s, p.last + 1, a - 1) \in Text BY <2>3, <2>4, Joined
      <4>2. (p.out \o SubSeq(s, p.last + 1, a - 1)) \o word \in Text BY <1>1, <4>1, Joined
      <4> QED BY <2>2, <3>2, <4>2
    <3>5. q.vault = p.vault /\ q.failed = FALSE /\ q.last = b BY <2>2, <3>2
    <3>6. Written(src, s, q.out, q.last, q.vault) BY <2>2, <3>2, <3>3
    <3>7. \A l \in k + 1 .. Len(f) : q.last < f[l].from BY <1>4, <3>5
    <3>8. VaultOK(q.vault, rs) /\ Grown(v, q.vault) /\ q.last \in 0 .. Len(s) BY <1>5, <2>4, <3>5
    <3> HIDE DEF a, b, word
    <3>9. PassOK(q, k, f, src, s, v, rs) BY <3>4, <3>5, <3>6, <3>7, <3>8 DEF PassOK
    <3> QED BY <3>9 DEF q
  <2>6. CASE ~IsAllowed(word)
    <3>1. t = TokenFor(p.vault, rs[i], word) BY <2>6 DEF Becomes
    <3> HIDE DEF t
    <3>2. Promise(p.vault, t, word, rs)
      <4> HIDE DEF word
      <4> QED BY <1>1, <1>5, <3>1, TokenForKeeps
    <3>3. /\ VaultOK(t.vault, rs) /\ Grown(p.vault, t.vault) /\ t.failed \in BOOLEAN
          /\ t.failed => Cardinality(DOMAIN t.vault.t2o) = MaxTokens
          /\ ~t.failed => t.text \in DOMAIN t.vault.t2o /\ t.vault.t2o[t.text] = word
      BY <3>2 DEF Promise
    <3>4. Grown(v, t.vault) BY <1>5, <3>3, GrownTrans
    <3>5. CASE t.failed BY <2>2, <3>3, <3>4, <3>5 DEF PassOK, q
    <3>6. CASE ~t.failed
      <4>1. Untouched(s, a, b, DOMAIN v.t2o)
        <5> SUFFICES ASSUME NEW m \in 1 .. Len(s), NEW x \in DOMAIN v.t2o, OccursAt(s, m, x)
                     PROVE  a > m + Len(x) - 1 \/ b < m
          BY DEF Untouched
        <5>1. Stands(DOMAIN v.t2o, v.t2o) BY VaultStands
        <5>2. PICK l \in 1 .. Len(spans) : spans[l].from = m /\ spans[l].to = m + Len(x) - 1
          BY <5>1, TokenSpans
        <5>3. ~(a <= spans[l].to /\ b >= spans[l].from) BY <1>7 DEF Overlaps
        <5>4. Len(x) \in Nat
          <6>1. x \in Text BY <5>1 DEF Stands, Shaped
          <6> QED BY <6>1, Small
        <5> DEFINE h == spans[l]
        <5>5. h.from = m /\ h.to = m + Len(x) - 1 /\ ~(a <= h.to /\ b >= h.from) BY <5>2, <5>3
        <5> HIDE DEF h
        <5>6. ~(a <= m + Len(x) - 1 /\ b >= m) BY <5>5
        <5>7. a \in Int /\ b \in Int /\ m \in Int BY <1>0, <1>1
        <5> HIDE DEF a, b
        <5> QED BY <5>4, <5>6, <5>7
      <4>2. Written(src, s, (p.out \o SubSeq(s, p.last + 1, a - 1)) \o t.text, b, t.vault)
        <5> DEFINE pv == p.vault
                   y == p.out
                   last == p.last
                   tv == t.vault
                   u == t.text
        <5>1. /\ VaultOK(pv, rs) /\ VaultOK(tv, rs) /\ Grown(pv, tv) /\ Grown(v, tv)
              /\ y \in Text /\ last \in 0 .. Len(s) /\ Written(src, s, y, last, pv)
              /\ u \in DOMAIN tv.t2o /\ tv.t2o[u] = SubSeq(s, a, b) /\ Bare(SubSeq(s, a, b))
              /\ a \in last + 1 .. Len(s) /\ b \in a .. Len(s)
          BY <1>1, <1>2, <1>5, <2>3, <2>4, <3>3, <3>4, <3>6
        <5> HIDE DEF pv, y, last, tv, u, a, b
        <5>2. Written(src, s, (y \o SubSeq(s, last + 1, a - 1)) \o u, b, tv) BY <4>1, <5>1, WriteToken
        <5> QED BY <5>2 DEF pv, y, last, tv, u
      <4>3. q.out \in Text
        <5>1. t.text \in Text
          <6>1. Stands(DOMAIN t.vault.t2o, t.vault.t2o) BY <3>3, VaultStands
          <6> QED BY <3>3, <3>6, <6>1 DEF Stands, Shaped
        <5>2. p.out \o SubSeq(s, p.last + 1, a - 1) \in Text BY <2>3, <2>4, Joined
        <5>3. (p.out \o SubSeq(s, p.last + 1, a - 1)) \o t.text \in Text BY <5>1, <5>2, Joined
        <5> QED BY <2>2, <5>3
      <4>4. q.vault = t.vault /\ q.failed = FALSE /\ q.last = b BY <2>2, <3>3, <3>6
      <4>5. Written(src, s, q.out, q.last, q.vault) BY <2>2, <4>2
      <4>6. \A l \in k + 1 .. Len(f) : q.last < f[l].from BY <1>4, <4>4
      <4>7. VaultOK(q.vault, rs) /\ Grown(v, q.vault) /\ q.last \in 0 .. Len(s) BY <2>4, <3>3, <3>4, <4>4
      <4> HIDE DEF a, b, word
      <4>8. PassOK(q, k, f, src, s, v, rs) BY <4>3, <4>4, <4>5, <4>6, <4>7 DEF PassOK
      <4> QED BY <4>8 DEF q
    <3> QED BY <3>3, <3>5, <3>6
  <2> QED BY <2>5, <2>6
<1> QED BY <1>6, <1>7

LEMMA ApplyKeeps ==
    ASSUME NEW rs, Sound(rs), NEW i \in 1 .. Len(rs), NEW v, VaultOK(v, rs),
           NEW src, NEW s \in Text, Kept(src, s, v), NEW c, c.tokens = DOMAIN v.t2o
    PROVE  Applied(ApplyRule(rs[i], s, v, c), src, v, c, rs)
<1> DEFINE f == FindIter(s, rs[i].words)
           spans == FindIter(s, c.tokens)
           M == Len(f)
           St(k, p) == PassStep(p, k, f, spans, rs[i], s)
           first == [vault |-> v, out |-> <<>>, last |-> 0, failed |-> FALSE]
           Body(g) == [k \in 0 .. M |-> IF k = 0 THEN first ELSE St(k, g[k - 1])]
           pass == CHOOSE g : g = Body(g)
           r == ApplyRule(rs[i], s, v, c)
<1>1. Found(f, s, 1, rs[i].words)
  <2>1. Words(rs[i].words) BY DEF Words, Sound, Bare
  <2> QED BY <2>1, FindFacts
<1>2. Found(spans, s, 1, DOMAIN v.t2o)
  <2>1. Stands(DOMAIN v.t2o, v.t2o) BY VaultStands
  <2>2. Words(DOMAIN v.t2o)
    <3> SUFFICES ASSUME NEW t \in DOMAIN v.t2o PROVE t \in Text /\ Len(t) >= 1 BY DEF Words
    <3>1. t \in Text /\ Len(t) >= 2 BY <2>1 DEF Stands, Shaped
    <3>2. Len(t) \in Nat BY <3>1, Small
    <3> QED BY <3>1, <3>2
  <2> QED BY <2>2, FindFacts
<1>3. M \in Nat /\ Len(s) \in Nat BY <1>1, Small DEF Found
<1>4. r = [vault |-> pass[M].vault, failed |-> pass[M].failed, cache |-> c,
           text |-> pass[M].out \o SubSeq(s, pass[M].last + 1, Len(s))]
  BY DEF ApplyRule, PassStep, Becomes
<1> HIDE DEF f, spans, St
<1>5. \E g : g = Body(g)
  <2> DEFINE Upto(g, m) == DOMAIN g = 0 .. m /\ g = [k \in 0 .. m |-> g[k]] /\ g[0] = first /\ \A k \in 1 .. m : g[k] = St(k, g[k - 1])
             S == {m \in 0 .. M : \E g : Upto(g, m)}
  <2> HIDE DEF first, M
  <2>1. 0 \in S
    <3> DEFINE g == [k \in 0 .. 0 |-> first]
    <3>1. Upto(g, 0) OBVIOUS
    <3> HIDE DEF Upto
    <3> QED BY <1>3, <3>1
  <2>2. ASSUME NEW m \in 1 .. M, m - 1 \in S PROVE m \in S
    <3>1. PICK g : Upto(g, m - 1) BY <2>2
    <3> DEFINE x == St(m, g[m - 1])
               h == [k \in 0 .. m |-> IF k = m THEN x ELSE g[k]]
    <3>2. h[0] = first BY <3>1
    <3>3. ASSUME NEW k \in 1 .. m PROVE h[k] = St(k, h[k - 1])
      <4>1. h[k - 1] = g[k - 1] OBVIOUS
      <4>2. CASE k = m BY <4>1, <4>2
      <4>3. CASE k # m
        <5>1. k \in 1 .. m - 1 /\ k \in 0 .. m BY <4>3
        <5>2. h[k] = g[k] BY <4>3, <5>1
        <5>3. g[k] = St(k, g[k - 1]) BY <3>1, <5>1
        <5> QED BY <4>1, <5>2, <5>3
      <4> QED BY <4>2, <4>3
    <3>4. Upto(h, m) BY <3>2, <3>3
    <3> HIDE DEF Upto
    <3>5. m \in 0 .. M BY <1>3
    <3> QED BY <3>4, <3>5
  <2> HIDE DEF S
  <2>3. 0 .. M \subseteq S BY <1>3, <2>1, <2>2, InductiveSet
  <2>4. M \in S BY <1>3, <2>3
  <2>5. PICK g : Upto(g, M) BY <2>4 DEF S
  <2>6. ASSUME NEW k \in 0 .. M PROVE g[k] = IF k = 0 THEN first ELSE St(k, g[k - 1])
    <3>1. k = 0 \/ k \in 1 .. M BY <1>3
    <3>2. g[0] = first /\ \A j \in 1 .. M : g[j] = St(j, g[j - 1]) BY <2>5
    <3>3. \A j \in 1 .. M : j # 0 BY <1>3
    <3> QED BY <3>1, <3>2, <3>3
  <2>7. g = Body(g) BY <2>5, <2>6
  <2> QED BY <2>7
<1>6. pass = Body(pass)
  <2> HIDE DEF Body
  <2> QED BY <1>5
<1> HIDE DEF pass
<1>7. pass[0] = first /\ \A k \in 1 .. M : pass[k] = St(k, pass[k - 1])
  <2>1. 0 \in 0 .. M /\ \A k \in 1 .. M : k \in 0 .. M /\ k # 0 BY <1>3
  <2> HIDE DEF first, M
  <2> QED BY <1>6, <2>1
<1> DEFINE Good(k) == PassOK(pass[k], k, f, src, s, v, rs)
           S == {k \in 0 .. M : Good(k)}
<1>8. Good(0)
  <2> DEFINE p == first
  <2>1. p.vault = v /\ p.out = <<>> /\ p.last = 0 /\ p.failed = FALSE OBVIOUS
  <2> HIDE DEF p
  <2>2. \A l \in 0 + 1 .. Len(f) : p.last < f[l].from
    <3> TAKE l \in 0 + 1 .. Len(f)
    <3>1. l \in 1 .. Len(f) OBVIOUS
    <3>2. f[l].from \in 1 .. Len(s) BY <1>1, <3>1, SpanOccurs
    <3> QED BY <1>3, <2>1, <3>2
  <2>3. Written(src, s, <<>>, 0, v)
    <3>1. SubSeq(s, 0 + 1, 0) = <<>> BY <1>3, Part
    <3>2. SubSeq(s, 0 + 1, Len(s)) = s BY SubSeqFull DEF Text
    <3>3. <<>> \o s = s /\ <<>> \in Text /\ <<>> \o <<>> = <<>> BY Small
    <3>4. Ended(<<>>, DOMAIN v.t2o) BY DEF Ended
    <3>5. <<>> = <<>> \o SubSeq(s, 0 + 1, 0) BY <3>1, <3>3
    <3>6. Kept(src, <<>> \o SubSeq(s, 0 + 1, Len(s)), v) BY <3>2, <3>3
    <3>7. 0 \in 0 .. 0 OBVIOUS
    <3> QED BY <3>3, <3>4, <3>5, <3>6, <3>7 DEF Written
  <2>4. Grown(v, v) BY DEF Grown
  <2>5. PassOK(p, 0, f, src, s, v, rs)
    <3>1. <<>> \in Text /\ 0 \in 0 .. Len(s) BY <1>3, Small
    <3> QED BY <2>1, <2>2, <2>3, <2>4, <3>1 DEF PassOK
  <2> QED BY <1>7, <2>5 DEF p
<1> HIDE DEF first
<1>9. 0 \in S BY <1>3, <1>8
<1>10. ASSUME NEW k \in 1 .. M, k - 1 \in S PROVE k \in S
  <2>1. pass[k] = St(k, pass[k - 1]) BY <1>7
  <2>2. PassOK(pass[k - 1], k - 1, f, src, s, v, rs) BY <1>10
  <2>3. PassOK(St(k, pass[k - 1]), k, f, src, s, v, rs) BY <1>1, <1>2, <2>2, PassKeeps DEF St
  <2>4. Good(k) BY <2>1, <2>3
  <2> QED BY <1>3, <2>4
<1> HIDE DEF S
<1>11. 0 .. M \subseteq S BY <1>3, <1>9, <1>10, InductiveSet
<1>12. M \in S BY <1>3, <1>11
<1>13. PassOK(pass[M], M, f, src, s, v, rs) BY <1>12 DEF S
<1> DEFINE p == pass[M]
<1>14. /\ r.vault = p.vault /\ r.failed = p.failed /\ r.cache = c
       /\ r.text = p.out \o SubSeq(s, p.last + 1, Len(s))
  <2> DEFINE o == p.out \o SubSeq(s, p.last + 1, Len(s))
  <2>1. r = [vault |-> p.vault, failed |-> p.failed, cache |-> c, text |-> o] BY <1>4
  <2> HIDE DEF p, r, o
  <2>2. r.vault = p.vault /\ r.failed = p.failed /\ r.cache = c /\ r.text = o BY <2>1
  <2> QED BY <2>2 DEF o
<1> HIDE DEF p, r
<1>15. /\ VaultOK(p.vault, rs) /\ Grown(v, p.vault) /\ p.failed \in BOOLEAN
       /\ p.failed => Cardinality(DOMAIN p.vault.t2o) = MaxTokens
       /\ ~p.failed => p.last \in 0 .. Len(s) /\ Written(src, s, p.out, p.last, p.vault)
  BY <1>13 DEF PassOK, p
<1>16. ASSUME ~p.failed PROVE Kept(src, r.text, p.vault)
  <2>1. p.last \in 0 .. Len(s) BY <1>15, <1>16
  <2>2. PICK o \in Text, x \in 0 .. p.last :
          /\ p.out = o \o SubSeq(s, x + 1, p.last)
          /\ Kept(src, o \o SubSeq(s, x + 1, Len(s)), p.vault)
    BY <1>15, <1>16 DEF Written
  <2> DEFINE y == p.last
             a == SubSeq(s, x + 1, y)
             b == SubSeq(s, y + 1, Len(s))
  <2>3. x \in 0 .. Len(s) /\ y \in x .. Len(s) /\ Len(s) \in y .. Len(s) /\ y + 1 \in Nat \ {0} /\ Len(s) <= Len(s) BY <1>3, <2>1
  <2> HIDE DEF y
  <2>4. a \in Text /\ a \o b = SubSeq(s, x + 1, Len(s)) BY <2>3, PartJoin
  <2>5. b \in Text BY <1>3, <2>3, Part
  <2> HIDE DEF a, b
  <2>6. Assoc(o, a, b) BY <2>4, <2>5, Associates
  <2>7. (o \o a) \o b = o \o SubSeq(s, x + 1, Len(s)) BY <2>4, <2>6 DEF Assoc
  <2>8. r.text = (o \o a) \o b BY <1>14, <2>2 DEF a, b, y
  <2> QED BY <2>2, <2>7, <2>8
<1>17. Applied(r, src, v, c, rs) BY <1>14, <1>15, <1>16 DEF Applied
<1> QED BY <1>17 DEF r

-------------------------------------------------------------------------------
(* Redaction: redact_text and restore_text. *)

\* The state after some of the rules.
AfterOK(p, src) ==
    /\ VaultOK(p.vault, rules) /\ Grown(vault, p.vault) /\ CacheOK(p.vault, p.cache) /\ p.failed \in BOOLEAN
    /\ p.failed => Cardinality(DOMAIN p.vault.t2o) = MaxTokens
    /\ ~p.failed => Kept(src, p.text, p.vault)

RuleStep(p, i) ==
    IF p.failed THEN p
    ELSE ApplyRule(rules[i], p.text, p.vault, WithAutomaton(p.vault, p.cache))

LEMMA RuleKeeps ==
    ASSUME Sound(rules), NEW src, NEW i \in 1 .. Len(rules), NEW p, AfterOK(p, src)
    PROVE  AfterOK(RuleStep(p, i), src)
<1> DEFINE c == WithAutomaton(p.vault, p.cache)
           r == ApplyRule(rules[i], p.text, p.vault, c)
<1>1. CASE p.failed BY <1>1 DEF RuleStep
<1>2. CASE ~p.failed
  <2>1. VaultOK(p.vault, rules) /\ Grown(vault, p.vault) /\ CacheOK(p.vault, p.cache) /\ Kept(src, p.text, p.vault)
    BY <1>2 DEF AfterOK
  <2>2. CacheOK(p.vault, c) /\ c.tokens = DOMAIN p.vault.t2o BY <2>1, AutomatonCurrent
  <2>3. p.text \in Text BY <2>1 DEF Kept
  <2>4. RuleStep(p, i) = r BY <1>2 DEF RuleStep
  <2> HIDE DEF c
  <2>5. Applied(r, src, p.vault, c, rules)
    <3> DEFINE pv == p.vault
               t == p.text
    <3>1. VaultOK(pv, rules) /\ Kept(src, t, pv) /\ t \in Text /\ c.tokens = DOMAIN pv.t2o BY <2>1, <2>2, <2>3
    <3> HIDE DEF pv, t
    <3>2. Applied(ApplyRule(rules[i], t, pv, c), src, pv, c, rules) BY <3>1, ApplyKeeps
    <3> QED BY <3>2 DEF pv, t
  <2> HIDE DEF r
  <2>6. /\ VaultOK(r.vault, rules) /\ Grown(p.vault, r.vault) /\ r.cache = c /\ r.failed \in BOOLEAN
        /\ r.failed => Cardinality(DOMAIN r.vault.t2o) = MaxTokens
        /\ ~r.failed => Kept(src, r.text, r.vault)
    BY <2>5 DEF Applied
  <2>7. Grown(vault, r.vault) BY <2>1, <2>6, GrownTrans
  <2>8. CacheOK(r.vault, c) BY <2>1, <2>2, <2>6, CacheKept
  <2>9. AfterOK(r, src) BY <2>6, <2>7, <2>8 DEF AfterOK
  <2> QED BY <2>4, <2>9
<1> QED BY <1>1, <1>2 DEF AfterOK

\* A text is redacted by all rules.
LEMMA RedactKeeps ==
    ASSUME Sound(rules), VaultOK(vault, rules), CacheOK(vault, cache), NEW text \in Text
    PROVE  AfterOK(RedactText(text), text)
<1> DEFINE N == Len(rules)
           St(i, p) == RuleStep(p, i)
           first == [vault |-> vault, failed |-> FALSE, cache |-> cache, text |-> text]
           Body(g) == [i \in 0 .. N |-> IF i = 0 THEN first ELSE St(i, g[i - 1])]
           after == CHOOSE g : g = Body(g)
<1>0. N \in Nat BY DEF Sound
<1>1. RedactText(text) = after[N] BY DEF RedactText, RuleStep
<1> HIDE DEF St
<1>2. \E g : g = Body(g)
  <2> DEFINE Upto(g, m) == DOMAIN g = 0 .. m /\ g = [k \in 0 .. m |-> g[k]] /\ g[0] = first /\ \A k \in 1 .. m : g[k] = St(k, g[k - 1])
             S == {m \in 0 .. N : \E g : Upto(g, m)}
  <2> HIDE DEF first, N
  <2>1. 0 \in S
    <3> DEFINE g == [k \in 0 .. 0 |-> first]
    <3>1. Upto(g, 0) OBVIOUS
    <3> HIDE DEF Upto
    <3> QED BY <1>0, <3>1
  <2>2. ASSUME NEW m \in 1 .. N, m - 1 \in S PROVE m \in S
    <3>1. PICK g : Upto(g, m - 1) BY <2>2
    <3> DEFINE x == St(m, g[m - 1])
               h == [k \in 0 .. m |-> IF k = m THEN x ELSE g[k]]
    <3>2. h[0] = first BY <3>1
    <3>3. ASSUME NEW k \in 1 .. m PROVE h[k] = St(k, h[k - 1])
      <4>1. h[k - 1] = g[k - 1] OBVIOUS
      <4>2. CASE k = m BY <4>1, <4>2
      <4>3. CASE k # m
        <5>1. k \in 1 .. m - 1 /\ k \in 0 .. m BY <4>3
        <5>2. h[k] = g[k] BY <4>3, <5>1
        <5>3. g[k] = St(k, g[k - 1]) BY <3>1, <5>1
        <5> QED BY <4>1, <5>2, <5>3
      <4> QED BY <4>2, <4>3
    <3>4. Upto(h, m) BY <3>2, <3>3
    <3> HIDE DEF Upto
    <3>5. m \in 0 .. N BY <1>0
    <3> QED BY <3>4, <3>5
  <2> HIDE DEF S
  <2>3. 0 .. N \subseteq S BY <1>0, <2>1, <2>2, InductiveSet
  <2>4. N \in S BY <1>0, <2>3
  <2>5. PICK g : Upto(g, N) BY <2>4 DEF S
  <2>6. ASSUME NEW k \in 0 .. N PROVE g[k] = IF k = 0 THEN first ELSE St(k, g[k - 1])
    <3>1. k = 0 \/ k \in 1 .. N BY <1>0
    <3>2. g[0] = first /\ \A j \in 1 .. N : g[j] = St(j, g[j - 1]) BY <2>5
    <3>3. \A j \in 1 .. N : j # 0 BY <1>0
    <3> QED BY <3>1, <3>2, <3>3
  <2>7. g = Body(g) BY <2>5, <2>6
  <2> QED BY <2>7
<1>3. after = Body(after)
  <2> HIDE DEF Body
  <2> QED BY <1>2
<1> HIDE DEF after
<1>4. after[0] = first /\ \A k \in 1 .. N : after[k] = St(k, after[k - 1])
  <2>1. 0 \in 0 .. N /\ \A k \in 1 .. N : k \in 0 .. N /\ k # 0 BY <1>0
  <2> HIDE DEF first, N
  <2> QED BY <1>3, <2>1
<1> DEFINE S == {k \in 0 .. N : AfterOK(after[k], text)}
<1>5. AfterOK(after[0], text)
  <2> DEFINE p == first
  <2>1. p.vault = vault /\ p.failed = FALSE /\ p.cache = cache /\ p.text = text OBVIOUS
  <2> HIDE DEF p
  <2>2. Kept(text, text, vault) BY KeptSelf
  <2>3. Grown(vault, vault) BY DEF Grown
  <2>4. AfterOK(p, text) BY <2>1, <2>2, <2>3 DEF AfterOK
  <2> QED BY <1>4, <2>4 DEF p
<1> HIDE DEF first
<1>6. 0 \in S BY <1>0, <1>5
<1>7. ASSUME NEW k \in 1 .. N, k - 1 \in S PROVE k \in S
  <2>1. AfterOK(after[k - 1], text) BY <1>7
  <2>2. AfterOK(St(k, after[k - 1]), text) BY <2>1, RuleKeeps DEF St
  <2> QED BY <1>0, <1>4, <2>2
<1> HIDE DEF S
<1>8. 0 .. N \subseteq S BY <1>0, <1>6, <1>7, InductiveSet
<1>9. N \in S BY <1>0, <1>8
<1> QED BY <1>1, <1>9 DEF S

\* The state of restore_text after k of the tokens f that it found in s.
RestoredOK(p, k, f, s, T, orig) ==
    /\ p.out \in Text /\ p.last \in 0 .. Len(s)
    /\ \A l \in 1 .. Len(f) : IF l <= k THEN f[l].to <= p.last ELSE p.last < f[l].from
    /\ p.out \o Resolve(SubSeq(s, p.last + 1, Len(s)), T, orig) = Resolve(s, T, orig)

\* After the tokens up to the k-th none starts before the next.
LEMMA GapTo ==
    ASSUME NEW T, NEW orig, Stands(T, orig), NEW s \in Text, NEW f, Found(f, s, 1, T), NEW k \in 0 .. Len(f),
           NEW last \in 0 .. Len(s), \A l \in 1 .. Len(f) : l <= k => f[l].to <= last,
           NEW e \in last .. Len(s), \A l \in 1 .. Len(f) : l > k => f[l].from > e
    PROVE  Gap(SubSeq(s, last + 1, Len(s)), 1, e - last, T)
<1> SUFFICES ASSUME NEW m \in 1 .. e - last, NEW t \in T, OccursAt(SubSeq(s, last + 1, Len(s)), m, t)
             PROVE  FALSE
  BY DEF Gap, TokensAt
<1>0. Len(s) \in Nat /\ Len(f) \in Nat BY Small DEF Found
<1>1. last + 1 \in 1 .. Len(s) + 1 /\ m \in Nat \ {0} /\ (last + 1) + m - 1 = last + m /\ last + m \in 1 .. Len(s)
      /\ last < last + m /\ last + m <= e
  BY <1>0
<1>2. t \in Text BY DEF Stands, Shaped
<1>3. OccursAt(s, (last + 1) + m - 1, t) BY <1>1, <1>2, OccursRest
<1>4. OccursAt(s, last + m, t) BY <1>1, <1>3
<1>5. PICK l \in 1 .. Len(f) : f[l].from = last + m
  <2> DEFINE d == last + m
  <2>1. d \in 1 .. Len(s) /\ OccursAt(s, d, t) BY <1>1, <1>4
  <2> HIDE DEF d
  <2>2. \E l \in 1 .. Len(f) : f[l].from = d /\ f[l].to = d + Len(t) - 1 BY <2>1, TokenSpans
  <2> QED BY <2>2 DEF d
<1>6. f[l].to \in f[l].from .. Len(s) /\ f[l].from \in 1 .. Len(s) BY SpanOccurs
<1>7. CASE l <= k
  <2>1. f[l].to <= last BY <1>7
  <2> QED BY <1>0, <1>1, <1>5, <1>6, <2>1
<1>8. CASE l > k
  <2>1. f[l].from > e BY <1>8
  <2> QED BY <1>0, <1>1, <1>5, <2>1
<1> QED BY <1>0, <1>7, <1>8

LEMMA RestoreStep ==
    ASSUME NEW T, NEW orig, Stands(T, orig), NEW s \in Text, NEW f, Found(f, s, 1, T), NEW k \in 1 .. Len(f),
           NEW p, RestoredOK(p, k - 1, f, s, T, orig)
    PROVE  RestoredOK([out |-> p.out \o SubSeq(s, p.last + 1, f[k].from - 1) \o orig[SubSeq(s, f[k].from, f[k].to)],
                       last |-> f[k].to], k, f, s, T, orig)
<1> DEFINE N == Len(s)
           i == f[k].from
           j == f[k].to
           e == i - 1
           last == p.last
           o == p.out
           t == SubSeq(s, i, j)
           a == SubSeq(s, last + 1, e)
           c == SubSeq(s, j + 1, N)
           rest == SubSeq(s, last + 1, N)
           R(x) == Resolve(x, T, orig)
<1>0. N \in Nat /\ Len(f) \in Nat BY Small DEF Found
<1>1. i \in 1 .. N /\ j \in i .. N /\ t \in T /\ t \in Text BY SpanOccurs
<1>2. /\ o \in Text /\ last \in 0 .. N /\ o \o R(rest) = R(s)
      /\ \A l \in 1 .. Len(f) : IF l <= k - 1 THEN f[l].to <= last ELSE last < f[l].from
  BY DEF RestoredOK
<1>3. last < i
  <2>1. ~(k <= k - 1) BY <1>0
  <2> QED BY <1>2, <2>1
<1>4. \A l \in 1 .. Len(f) : f[l].from \in 1 .. N /\ f[l].to \in f[l].from .. N BY SpanOccurs
<1>5. \A l, m \in 1 .. Len(f) : l < m => f[l].to < f[m].from BY DEF Found
<1> HIDE DEF i, j, last, o, N
<1>6. e \in last .. N /\ e + 1 = i /\ j \in e .. N /\ N \in j .. N /\ last \in 0 .. N /\ N \in e .. N /\ e \in 0 .. N /\ j \in 0 .. N
      /\ e \in Nat
  BY <1>0, <1>1, <1>2, <1>3
<1>7. Gap(rest, 1, e - last, T)
  <2>1. \A l \in 1 .. Len(f) : l <= k - 1 => f[l].to <= last BY <1>2
  <2>2. ASSUME NEW l \in 1 .. Len(f), l > k - 1 PROVE f[l].from > e
    <3>1. l = k \/ k < l BY <1>0, <2>2
    <3>2. CASE l = k BY <1>1, <1>0, <3>2, <1>6 DEF i
    <3>3. CASE k < l
      <4>1. j < f[l].from BY <1>5, <3>3 DEF j
      <4> QED BY <1>0, <1>1, <1>4, <1>6, <4>1
    <3> QED BY <3>1, <3>2, <3>3
  <2>3. k - 1 \in 0 .. Len(f) BY <1>0
  <2> HIDE DEF e
  <2> QED BY <1>2, <1>6, <2>1, <2>2, <2>3, GapTo DEF N
<1> HIDE DEF e
<1>8. a \in Text /\ Len(a) = e - last /\ a \o SubSeq(s, e + 1, N) = rest BY <1>6, PartJoin DEF N
<1>9. t \o c = SubSeq(s, e + 1, N)
  <2>1. SubSeq(s, e + 1, j) \o SubSeq(s, j + 1, N) = SubSeq(s, e + 1, N) BY <1>6, PartJoin DEF N
  <2> QED BY <1>6, <2>1
<1>10. c \in Text
  <2>1. j + 1 \in Nat \ {0} /\ N <= N BY <1>0, <1>6
  <2> QED BY <1>0, <2>1, Part DEF N
<1>11. rest = a \o (t \o c) BY <1>8, <1>9
<1> HIDE DEF a, t, c, rest
<1>12. First(a, t, c, T, orig)
  <2>1. Gap(a \o (t \o c), 1, Len(a), T) BY <1>7, <1>8, <1>11
  <2> QED BY <1>1, <1>8, <1>10, <2>1 DEF First
<1>13. R(rest) = (a \o orig[t]) \o R(c)
  <2>1. R(a \o (t \o c)) = (a \o orig[t]) \o R(c) BY <1>12, ResolveFirst
  <2> QED BY <1>11, <2>1
<1>14. orig[t] \in Text /\ R(c) \in Text BY <1>1, <1>10, ResolveText DEF Stands
<1>15. a \o orig[t] \in Text /\ o \o a \in Text BY <1>2, <1>8, <1>14, Joined
<1>16. (o \o a) \o orig[t] \in Text BY <1>14, <1>15, Joined
<1>17. ((o \o a) \o orig[t]) \o R(c) = R(s)
  <2> DEFINE x == orig[t]
             z == R(c)
  <2> HIDE DEF x, z
  <2>1. Assoc(o, a, x) /\ Assoc(o, a \o x, z) BY <1>2, <1>8, <1>14, <1>15, Associates DEF x, z
  <2>2. ((o \o a) \o x) \o z = o \o ((a \o x) \o z) BY <2>1 DEF Assoc
  <2>3. o \o ((a \o x) \o z) = R(s) BY <1>2, <1>13 DEF x, z
  <2> QED BY <2>2, <2>3 DEF x, z
<1> DEFINE q == [out |-> (o \o a) \o orig[t], last |-> j]
<1>18. q.out = (o \o a) \o orig[t] /\ q.last = j OBVIOUS
<1>19. q = [out |-> p.out \o SubSeq(s, p.last + 1, f[k].from - 1) \o orig[SubSeq(s, f[k].from, f[k].to)], last |-> f[k].to]
  BY DEF o, last, i, j, e, a, t
<1> HIDE DEF q
<1>20. ASSUME NEW l \in 1 .. Len(f) PROVE IF l <= k THEN f[l].to <= q.last ELSE q.last < f[l].from
  <2>1. CASE l > k
    <3>1. j < f[l].from BY <1>5, <2>1 DEF j
    <3> QED BY <1>0, <1>18, <2>1, <3>1
  <2>2. CASE l = k
    <3>1. f[l].to = j BY <2>2 DEF j
    <3> QED BY <1>0, <1>1, <1>18, <2>2, <3>1
  <2>3. CASE l < k
    <3>1. f[l].to < i BY <1>5, <2>3 DEF i
    <3> QED BY <1>0, <1>1, <1>4, <1>18, <2>3, <3>1
  <2> QED BY <1>0, <2>1, <2>2, <2>3
<1>21. q.out \o R(SubSeq(s, q.last + 1, N)) = R(s) BY <1>17, <1>18 DEF c
<1>22. RestoredOK(q, k, f, s, T, orig) BY <1>6, <1>16, <1>18, <1>20, <1>21 DEF RestoredOK, N
<1> QED BY <1>19, <1>22

\* restore_text of an answer replaces exactly the tokens of the vault.
LEMMA RestoreTextResolves ==
    ASSUME Sound(rules), VaultOK(vault, rules), NEW c, c.tokens = DOMAIN vault.t2o, NEW s \in Text
    PROVE  RestoreText(s, c) = Resolve(s, DOMAIN vault.t2o, vault.t2o)
<1> DEFINE T == DOMAIN vault.t2o
           orig == vault.t2o
           f == FindIter(s, c.tokens)
           M == Len(f)
           St(k, p) == [out |-> p.out \o SubSeq(s, p.last + 1, f[k].from - 1) \o orig[SubSeq(s, f[k].from, f[k].to)],
                        last |-> f[k].to]
           first == [out |-> <<>>, last |-> 0]
           Body(g) == [k \in 0 .. M |-> IF k = 0 THEN first ELSE St(k, g[k - 1])]
           done == CHOOSE g : g = Body(g)
<1>1. Stands(T, orig) BY VaultStands
<1>2. Found(f, s, 1, T)
  <2>2. Words(T)
    <3> SUFFICES ASSUME NEW t \in T PROVE t \in Text /\ Len(t) >= 1 BY DEF Words
    <3>1. t \in Text /\ Len(t) >= 2 BY <1>1 DEF Stands, Shaped
    <3>2. Len(t) \in Nat BY <3>1, Small
    <3> QED BY <3>1, <3>2
  <2> QED BY <2>2, FindFacts
<1>3. M \in Nat /\ Len(s) \in Nat BY <1>2, Small DEF Found
<1>4. RestoreText(s, c) = done[M].out \o SubSeq(s, done[M].last + 1, Len(s)) BY DEF RestoreText
<1>a. ASSUME NEW k \in 1 .. M, NEW p, RestoredOK(p, k - 1, f, s, T, orig) PROVE RestoredOK(St(k, p), k, f, s, T, orig)
  <2> HIDE DEF f, T, orig
  <2> QED BY <1>1, <1>2, <1>a, RestoreStep
<1> HIDE DEF f, St, T, orig
<1>5. \E g : g = Body(g)
  <2> DEFINE Upto(g, m) == DOMAIN g = 0 .. m /\ g = [k \in 0 .. m |-> g[k]] /\ g[0] = first /\ \A k \in 1 .. m : g[k] = St(k, g[k - 1])
             S == {m \in 0 .. M : \E g : Upto(g, m)}
  <2> HIDE DEF first, M
  <2>1. 0 \in S
    <3> DEFINE g == [k \in 0 .. 0 |-> first]
    <3>1. Upto(g, 0) OBVIOUS
    <3> HIDE DEF Upto
    <3> QED BY <1>3, <3>1
  <2>2. ASSUME NEW m \in 1 .. M, m - 1 \in S PROVE m \in S
    <3>1. PICK g : Upto(g, m - 1) BY <2>2
    <3> DEFINE x == St(m, g[m - 1])
               h == [k \in 0 .. m |-> IF k = m THEN x ELSE g[k]]
    <3>2. h[0] = first BY <3>1
    <3>3. ASSUME NEW k \in 1 .. m PROVE h[k] = St(k, h[k - 1])
      <4>1. h[k - 1] = g[k - 1] OBVIOUS
      <4>2. CASE k = m BY <4>1, <4>2
      <4>3. CASE k # m
        <5>1. k \in 1 .. m - 1 /\ k \in 0 .. m BY <4>3
        <5>2. h[k] = g[k] BY <4>3, <5>1
        <5>3. g[k] = St(k, g[k - 1]) BY <3>1, <5>1
        <5> QED BY <4>1, <5>2, <5>3
      <4> QED BY <4>2, <4>3
    <3>4. Upto(h, m) BY <3>2, <3>3
    <3> HIDE DEF Upto
    <3>5. m \in 0 .. M BY <1>3
    <3> QED BY <3>4, <3>5
  <2> HIDE DEF S
  <2>3. 0 .. M \subseteq S BY <1>3, <2>1, <2>2, InductiveSet
  <2>4. M \in S BY <1>3, <2>3
  <2>5. PICK g : Upto(g, M) BY <2>4 DEF S
  <2>6. ASSUME NEW k \in 0 .. M PROVE g[k] = IF k = 0 THEN first ELSE St(k, g[k - 1])
    <3>1. k = 0 \/ k \in 1 .. M BY <1>3
    <3>2. g[0] = first /\ \A j \in 1 .. M : g[j] = St(j, g[j - 1]) BY <2>5
    <3>3. \A j \in 1 .. M : j # 0 BY <1>3
    <3> QED BY <3>1, <3>2, <3>3
  <2>7. g = Body(g) BY <2>5, <2>6
  <2> QED BY <2>7
<1>6. done = Body(done)
  <2> HIDE DEF Body
  <2> QED BY <1>5
<1> HIDE DEF done
<1>7. done[0] = first /\ \A k \in 1 .. M : done[k] = St(k, done[k - 1])
  <2>1. 0 \in 0 .. M /\ \A k \in 1 .. M : k \in 0 .. M /\ k # 0 BY <1>3
  <2> HIDE DEF first, M
  <2> QED BY <1>6, <2>1
<1> DEFINE S == {k \in 0 .. M : RestoredOK(done[k], k, f, s, T, orig)}
<1>8. RestoredOK(done[0], 0, f, s, T, orig)
  <2> DEFINE p == first
  <2>1. p.out = <<>> /\ p.last = 0 OBVIOUS
  <2> HIDE DEF p
  <2>2. \A l \in 1 .. Len(f) : IF l <= 0 THEN f[l].to <= p.last ELSE p.last < f[l].from
    <3> TAKE l \in 1 .. Len(f)
    <3>2. f[l].from \in 1 .. Len(s) BY <1>2, SpanOccurs
    <3> QED BY <1>3, <2>1, <3>2
  <2>3. SubSeq(s, 0 + 1, Len(s)) = s BY SubSeqFull DEF Text
  <2>4. Resolve(s, T, orig) \in Text BY <1>1, ResolveText
  <2>5. <<>> \in Text /\ <<>> \o Resolve(s, T, orig) = Resolve(s, T, orig) BY <2>4, Small
  <2>6. 0 \in 0 .. Len(s) BY <1>3
  <2>7. RestoredOK(p, 0, f, s, T, orig) BY <2>1, <2>2, <2>3, <2>5, <2>6 DEF RestoredOK
  <2> QED BY <1>7, <2>7 DEF p
<1> HIDE DEF first
<1>9. 0 \in S BY <1>3, <1>8
<1>10. ASSUME NEW k \in 1 .. M, k - 1 \in S PROVE k \in S
  <2>1. RestoredOK(done[k - 1], k - 1, f, s, T, orig) BY <1>10
  <2>2. RestoredOK(St(k, done[k - 1]), k, f, s, T, orig) BY <1>a, <2>1
  <2> QED BY <1>3, <1>7, <2>2
<1> HIDE DEF S
<1>11. 0 .. M \subseteq S BY <1>3, <1>9, <1>10, InductiveSet
<1>12. M \in S BY <1>3, <1>11
<1> DEFINE p == done[M]
           last == p.last
           rest == SubSeq(s, last + 1, Len(s))
<1>13. RestoredOK(p, M, f, s, T, orig) BY <1>12 DEF S
<1> HIDE DEF p
<1>14. /\ last \in 0 .. Len(s) /\ p.out \o Resolve(rest, T, orig) = Resolve(s, T, orig)
       /\ \A l \in 1 .. Len(f) : IF l <= M THEN f[l].to <= last ELSE last < f[l].from
  BY <1>13 DEF RestoredOK
<1> HIDE DEF last
<1>15. rest \in Text /\ Len(rest) = Len(s) - last
  <2>1. last + 1 \in Nat \ {0} /\ last + 1 <= Len(s) + 1 /\ Len(s) <= Len(s) /\ Len(s) - (last + 1) + 1 = Len(s) - last BY <1>3, <1>14
  <2> QED BY <1>3, <2>1, Part
<1>16. Gap(rest, 1, Len(s) - last, T)
  <2>1. \A l \in 1 .. Len(f) : l <= M => f[l].to <= last BY <1>14
  <2>2. \A l \in 1 .. Len(f) : ~(l > M) BY <1>3
  <2>3. M \in 0 .. Len(f) /\ Len(s) \in last .. Len(s) BY <1>3, <1>14
  <2>4. \A l \in 1 .. Len(f) : l > M => f[l].from > Len(s) BY <2>2
  <2> HIDE DEF M
  <2> QED BY <1>1, <1>2, <1>14, <2>1, <2>3, <2>4, GapTo
<1> HIDE DEF rest
<1>17. Resolve(rest, T, orig) = rest
  <2>1. \A n \in 1 .. Len(rest) : TokensAt(rest, n, T) = {} BY <1>15, <1>16 DEF Gap
  <2> QED BY <1>1, <1>15, <2>1, ResolvePlain
<1>18. RestoreText(s, c) = p.out \o rest BY <1>4 DEF p, rest, last
<1> QED BY <1>14, <1>17, <1>18 DEF T, orig

-------------------------------------------------------------------------------
(* Redaction: the session. *)

RedactionInv ==
    /\ rules \in RuleSets /\ Accepted(rules)
    /\ VaultOK(vault, rules) /\ CacheOK(vault, cache)
    /\ phase \in {"redacting", "forwarded", "rejected"}
    /\ request \in Seq(Text) /\ work \in Seq(Text)
    /\ phase # "rejected" => Len(work) = Len(request) /\ \A k \in 1 .. Len(work) : Kept(request[k], work[k], vault)
    /\ phase = "rejected" => work = <<>> /\ Cardinality(DOMAIN vault.t2o) = MaxTokens
    /\ answer.block # 0 =>
         /\ phase = "forwarded" /\ answer.block \in 1 .. Len(work)
         /\ Silent(request[answer.block], DOMAIN vault.t2o) => answer.text = request[answer.block]

LEMMA EmptyVaultOK ==
    ASSUME NEW rs
    PROVE  VaultOK(EmptyVault, rs) /\ CacheOK(EmptyVault, NoCache)
<1> DEFINE v == EmptyVault
           c == NoCache
<1>1. v = [t2o |-> <<>>, v2t |-> <<>>, counters |-> <<>>, version |-> 0] BY DEF EmptyVault
<1>2. c = [version |-> -1, tokens |-> {}] BY DEF NoCache
<1> HIDE DEF v, c
<1>3. v.t2o = <<>> /\ v.v2t = <<>> /\ v.counters = <<>> /\ v.version = 0 BY <1>1
<1>4. DOMAIN v.t2o = {} /\ DOMAIN v.v2t = {} /\ DOMAIN v.counters = {} BY <1>3
<1>5. v = [t2o |-> v.t2o, v2t |-> v.v2t, counters |-> v.counters, version |-> v.version] BY <1>1, <1>3
<1>6. IsFiniteSet(DOMAIN v.t2o) /\ Cardinality(DOMAIN v.t2o) = 0 BY <1>4, FS_EmptySet
<1>7. Cardinality(DOMAIN v.t2o) <= MaxTokens
  <2>1. MaxTokens \in Nat BY RedactionAssumption
  <2> QED BY <1>6, <2>1
<1>8. \A i \in 1 .. Len(rs) : Counter(v, rs, i) \in Nat BY <1>4 DEF Counter, Get
<1>9. Paired(v) BY <1>4 DEF Paired
<1>10. VaultOK(v, rs) BY <1>3, <1>4, <1>5, <1>6, <1>7, <1>8, <1>9 DEF VaultOK
<1>11. c.version = -1 /\ c.tokens = {} BY <1>2
<1>12. CacheOK(v, c) BY <1>3, <1>4, <1>11 DEF CacheOK
<1> QED BY <1>10, <1>12 DEF v, c

LEMMA RedactionInvInit == Init => RedactionInv
<1> SUFFICES ASSUME Init PROVE RedactionInv OBVIOUS
<1>1. rules \in RuleSets /\ Accepted(rules) /\ vault = EmptyVault /\ cache = NoCache /\ request = <<>> /\ work = <<>>
      /\ phase = "redacting"
  BY DEF Init
<1>2. answer.block = 0 BY DEF Init
<1>3. VaultOK(vault, rules) /\ CacheOK(vault, cache) BY <1>1, EmptyVaultOK
<1>4. Len(work) = 0 /\ Len(request) = 0 /\ request \in Seq(Text) /\ work \in Seq(Text) BY <1>1
<1>5. \A k \in 1 .. Len(work) : Kept(request[k], work[k], vault) BY <1>4
<1> QED BY <1>1, <1>2, <1>3, <1>4, <1>5 DEF RedactionInv

\* The next text is redacted.
LEMMA RedactBlockKeeps ==
    ASSUME RedactionInv, NEW text \in Texts, RedactBlock(text)
    PROVE  RedactionInv'
<1> DEFINE r == RedactText(text)
<1>0. Sound(rules) BY AcceptedSound DEF RedactionInv
<1>1. text \in Text BY RedactionAssumption, StringText
<1>2. VaultOK(vault, rules) /\ CacheOK(vault, cache) /\ phase = "redacting" BY DEF RedactionInv, RedactBlock
<1>3. AfterOK(r, text) BY <1>0, <1>1, <1>2, RedactKeeps
<1>4. /\ vault' = r.vault /\ cache' = r.cache /\ request' = Append(request, text)
      /\ work' = IF r.failed THEN <<>> ELSE Append(work, r.text)
      /\ phase' = IF r.failed THEN "rejected" ELSE "redacting"
      /\ rules' = rules /\ answer' = answer
  BY DEF RedactBlock
<1> HIDE DEF r
<1>5. /\ VaultOK(r.vault, rules) /\ Grown(vault, r.vault) /\ CacheOK(r.vault, r.cache) /\ r.failed \in BOOLEAN
      /\ r.failed => Cardinality(DOMAIN r.vault.t2o) = MaxTokens
      /\ ~r.failed => Kept(text, r.text, r.vault)
  BY <1>3 DEF AfterOK
<1>6. /\ request \in Seq(Text) /\ work \in Seq(Text) /\ Len(work) = Len(request)
      /\ \A k \in 1 .. Len(work) : Kept(request[k], work[k], vault)
      /\ rules \in RuleSets /\ Accepted(rules) /\ answer.block = 0
  BY <1>2 DEF RedactionInv
<1>7. rules' \in RuleSets /\ Accepted(rules') /\ VaultOK(vault', rules') /\ CacheOK(vault', cache') BY <1>4, <1>5, <1>6
<1>8. request' \in Seq(Text) /\ answer'.block = 0 BY <1>1, <1>4, <1>6
<1>9. CASE r.failed
  <2>1. phase' = "rejected" /\ work' = <<>> /\ Cardinality(DOMAIN vault'.t2o) = MaxTokens BY <1>4, <1>5, <1>9
  <2>2. work' \in Seq(Text) BY <2>1
  <2>3. Accepted(rules)' BY <1>4, <1>6
  <2>4. VaultOK(vault, rules)' /\ CacheOK(vault, cache)' BY <1>7
  <2> QED BY <1>7, <1>8, <2>1, <2>2, <2>3, <2>4 DEF RedactionInv
<1>10. CASE ~r.failed
  <2>1. phase' = "redacting" /\ work' = Append(work, r.text) /\ Kept(text, r.text, r.vault) BY <1>4, <1>5, <1>10
  <2>2. r.text \in Text BY <2>1 DEF Kept
  <2>3. /\ work' \in Seq(Text) /\ Len(work') = Len(request') /\ Len(work') = Len(work) + 1 /\ Len(work) \in Nat
        /\ request'[Len(work) + 1] = text /\ work'[Len(work) + 1] = r.text
        /\ \A k \in 1 .. Len(work) : request'[k] = request[k] /\ work'[k] = work[k]
    BY <1>1, <1>4, <1>6, <2>1, <2>2
  <2>4. ASSUME NEW k \in 1 .. Len(work') PROVE Kept(request'[k], work'[k], vault')
    <3>1. CASE k = Len(work) + 1 BY <1>4, <2>1, <2>3, <3>1
    <3>2. CASE k # Len(work) + 1
      <4>1. k \in 1 .. Len(work) BY <2>3, <3>2
      <4>2. Kept(request[k], work[k], vault) BY <1>6, <4>1
      <4>3. Kept(request[k], work[k], r.vault) BY <1>0, <1>2, <1>5, <4>2, KeptGrown
      <4> QED BY <1>4, <2>3, <4>1, <4>3
    <3> QED BY <3>1, <3>2
  <2>5. Accepted(rules)' BY <1>4, <1>6
  <2>6. VaultOK(vault, rules)' /\ CacheOK(vault, cache)' BY <1>7
  <2>7. (\A k \in 1 .. Len(work) : Kept(request[k], work[k], vault))' BY <2>4
  <2> QED BY <1>7, <1>8, <2>1, <2>3, <2>5, <2>6, <2>7 DEF RedactionInv
<1> QED BY <1>5, <1>9, <1>10

\* An answer that repeats block k is restored.
LEMMA RestoreKeeps ==
    ASSUME RedactionInv, NEW k \in 1 .. Len(work), Restore(k)
    PROVE  RedactionInv'
<1> DEFINE c == WithAutomaton(vault, cache)
           T == DOMAIN vault.t2o
<1>0. Sound(rules) BY AcceptedSound DEF RedactionInv
<1>1. /\ phase = "forwarded" /\ cache' = c /\ answer' = [block |-> k, text |-> RestoreText(work[k], c)]
      /\ rules' = rules /\ vault' = vault /\ request' = request /\ work' = work /\ phase' = phase
  BY DEF Restore
<1>2. VaultOK(vault, rules) /\ CacheOK(vault, cache) BY DEF RedactionInv
<1>3. CacheOK(vault, c) /\ c.tokens = T BY <1>2, AutomatonCurrent
<1>4. Kept(request[k], work[k], vault) BY <1>1 DEF RedactionInv
<1>5. work[k] \in Text BY <1>4 DEF Kept
<1> HIDE DEF c
<1>6. RestoreText(work[k], c) = Resolve(work[k], T, vault.t2o) BY <1>0, <1>2, <1>3, <1>5, RestoreTextResolves
<1>7. Silent(request[k], T) => RestoreText(work[k], c) = request[k] BY <1>4, <1>6 DEF Kept
<1>8. answer'.block = k /\ answer'.text = RestoreText(work[k], c) BY <1>1
<1>9. CacheOK(vault, cache)' BY <1>1, <1>3
<1>10. VaultOK(vault, rules)' /\ Accepted(rules)' /\ rules' \in RuleSets BY <1>1, <1>2 DEF RedactionInv
<1>11. phase' = "forwarded" /\ phase' # "rejected" /\ request' \in Seq(Text) /\ work' \in Seq(Text) /\ Len(work') = Len(request')
  BY <1>1 DEF RedactionInv
<1>12. (\A i \in 1 .. Len(work) : Kept(request[i], work[i], vault))' BY <1>1 DEF RedactionInv
<1>13. answer'.block \in 1 .. Len(work') BY <1>1, <1>8
<1>14. Silent(request'[answer'.block], DOMAIN vault'.t2o) => answer'.text = request'[answer'.block] BY <1>1, <1>7, <1>8
<1> QED BY <1>9, <1>10, <1>11, <1>12, <1>13, <1>14 DEF RedactionInv

LEMMA RedactionInvNext == RedactionInv /\ [Next]_vars => RedactionInv'
<1> SUFFICES ASSUME RedactionInv, [Next]_vars PROVE RedactionInv' OBVIOUS
<1>1. ASSUME NEW text \in Texts, RedactBlock(text) PROVE RedactionInv' BY <1>1, RedactBlockKeeps
<1>2. CASE Forward
  <2>1. /\ phase = "redacting" /\ phase' = "forwarded"
        /\ rules' = rules /\ vault' = vault /\ cache' = cache /\ request' = request /\ work' = work /\ answer' = answer
    BY <1>2 DEF Forward
  <2>2. /\ rules \in RuleSets /\ Accepted(rules) /\ VaultOK(vault, rules) /\ CacheOK(vault, cache)
        /\ request \in Seq(Text) /\ work \in Seq(Text) /\ Len(work) = Len(request)
        /\ \A k \in 1 .. Len(work) : Kept(request[k], work[k], vault)
        /\ answer.block = 0
    BY <2>1 DEF RedactionInv
  <2>3. VaultOK(vault, rules)' /\ CacheOK(vault, cache)' /\ Accepted(rules)' BY <2>1, <2>2
  <2>4. (\A k \in 1 .. Len(work) : Kept(request[k], work[k], vault))' BY <2>1, <2>2
  <2> QED BY <2>1, <2>2, <2>3, <2>4 DEF RedactionInv
<1>3. ASSUME NEW k \in 1 .. Len(work), Restore(k) PROVE RedactionInv' BY <1>3, RestoreKeeps
<1>4. CASE UNCHANGED vars
  <2>1. /\ rules' = rules /\ vault' = vault /\ cache' = cache /\ request' = request /\ work' = work
        /\ phase' = phase /\ answer' = answer
    BY <1>4 DEF vars
  <2>2. VaultOK(vault, rules)' /\ CacheOK(vault, cache)' /\ Accepted(rules)' BY <2>1 DEF RedactionInv
  <2>3. phase' # "rejected" => (\A k \in 1 .. Len(work) : Kept(request[k], work[k], vault))' BY <2>1 DEF RedactionInv
  <2>4. answer'.block # 0 =>
          ((Silent(request[answer.block], DOMAIN vault.t2o))' => answer'.text = request'[answer'.block])
    BY <2>1 DEF RedactionInv
  <2> QED BY <2>1, <2>2, <2>3, <2>4 DEF RedactionInv
<1>5. CASE Finished BY <1>4, <1>5 DEF Finished
<1> QED BY <1>1, <1>2, <1>3, <1>4, <1>5 DEF Next

LEMMA RedactionInvariant == Spec => []RedactionInv
<1>1. Init => RedactionInv BY RedactionInvInit
<1>2. RedactionInv /\ [Next]_vars => RedactionInv' BY RedactionInvNext
<1> QED BY <1>1, <1>2, PTL DEF Spec

\* Whatever the rules that RedactionEngine::new accepted, the vault of a session never
\* outgrows MAX_SESSION_TOKENS, pairs the values of a rule with tokens one to one, and
\* the cached automaton knows no token that the vault does not.
THEOREM RedactionTypeThm == Spec => []TypeOK
<1>1. RedactionInv => TypeOK
  <2> SUFFICES ASSUME RedactionInv PROVE TypeOK OBVIOUS
  <2>1. /\ Cardinality(DOMAIN vault.t2o) <= MaxTokens /\ vault.version = Cardinality(DOMAIN vault.t2o) /\ Paired(vault)
        /\ cache.tokens \subseteq DOMAIN vault.t2o /\ phase \in {"redacting", "forwarded", "rejected"}
    BY DEF RedactionInv, VaultOK, CacheOK
  <2>2. OneSymbolPerValue BY <2>1 DEF Paired, OneSymbolPerValue, Tokens
  <2>3. Len(work) <= Len(request)
    <3>1. Len(request) \in Nat BY DEF RedactionInv
    <3>2. CASE phase = "rejected"
      <4>1. Len(work) = 0 BY <3>2 DEF RedactionInv
      <4> QED BY <3>1, <4>1
    <3>3. CASE phase # "rejected"
      <4>1. Len(work) = Len(request) BY <3>3 DEF RedactionInv
      <4> QED BY <3>1, <4>1
    <3> QED BY <3>2, <3>3
  <2> QED BY <2>1, <2>2, <2>3 DEF TypeOK, Tokens
<1> QED BY <1>1, RedactionInvariant, PTL

\* token_for fails only at the cap: with the rules that the engine accepts two values
\* never get the same token, so the collision error of token_for is unreachable.
THEOREM RejectedOnlyWhenFullThm == Spec => []RejectedOnlyWhenFull
<1>1. RedactionInv => RejectedOnlyWhenFull BY DEF RedactionInv, RejectedOnlyWhenFull, Tokens
<1> QED BY <1>1, RedactionInvariant, PTL

\* An answer that repeats a forwarded block reaches the client as the client wrote that
\* block: for all rules, allow lists, texts, numbers of blocks and caps, unless the
\* client itself wrote one of the session's tokens.
THEOREM RoundTripThm == Spec => []RoundTrip
<1>1. RedactionInv => RoundTrip
  <2> SUFFICES ASSUME RedactionInv, answer.block # 0,
                      \A k \in 1 .. Len(request) : \A t \in Tokens : ~Contains(request[k], t)
               PROVE  answer.text = request[answer.block]
    BY DEF RoundTrip
  <2>1. /\ phase = "forwarded" /\ answer.block \in 1 .. Len(work)
        /\ Silent(request[answer.block], DOMAIN vault.t2o) => answer.text = request[answer.block]
    BY DEF RedactionInv
  <2>2. Len(work) = Len(request) BY <2>1 DEF RedactionInv
  <2>3. answer.block \in 1 .. Len(request) BY <2>1, <2>2
  <2>4. Silent(request[answer.block], DOMAIN vault.t2o) BY <2>3 DEF Silent, Tokens
  <2> QED BY <2>1, <2>4
<1> QED BY <1>1, RedactionInvariant, PTL
==============================================================================
