--------------------------- MODULE FiniteRecursion ---------------------------
(***************************************************************************)
(* Facts about naturals and about loops that the proofs of the components  *)
(* share.  A loop over the elements of a list is modelled by a function    *)
(* defined by recursion on the number of iterations; the facts say that    *)
(* the function exists and that what every iteration preserves holds at    *)
(* the end.                                                                *)
(***************************************************************************)
EXTENDS Integers, WellFoundedInduction, TLAPS

\* A set of naturals that is not empty has a least element.
LEMMA LeastNatural ==
    ASSUME NEW S \in SUBSET Nat, S # {}
    PROVE  \E x \in S : \A y \in S : x <= y
<1>1. PICK x \in S : \A y \in S : <<y, x>> \notin OpToRel(<, Nat)
  BY NatLessThanWellFounded, WFMin
<1>2. ASSUME NEW y \in S PROVE ~(y < x)
  BY <1>1 DEF OpToRel
<1> QED BY <1>2

\* A set of naturals that is not empty and bounded has a greatest element.
LEMMA GreatestNatural ==
    ASSUME NEW n \in Nat, NEW S \in SUBSET (0 .. n), S # {}
    PROVE  \E x \in S : \A y \in S : y <= x
<1> DEFINE T == {m \in 0 .. n : n - m \in S}
<1>1. T \in SUBSET Nat
  OBVIOUS
<1>2. T # {}
  <2>1. PICK y \in S : TRUE
    OBVIOUS
  <2>2. n - y \in T
    BY n - (n - y) = y
  <2> QED BY <2>2
<1>3. PICK m \in T : \A k \in T : m <= k
  BY <1>1, <1>2, LeastNatural
<1>4. ASSUME NEW y \in S PROVE y <= n - m
  <2>1. n - y \in T
    BY n - (n - y) = y
  <2>2. m <= n - y
    BY <1>3, <2>1
  <2> QED BY <2>2
<1> QED BY <1>4

\* Induction: a set that has 0 and, with every k - 1, also k has all naturals up
\* to n.
LEMMA InductiveSet ==
    ASSUME NEW n \in Nat, NEW S, 0 \in S, \A k \in 1 .. n : k - 1 \in S => k \in S
    PROVE  0 .. n \subseteq S
<1> SUFFICES ASSUME (0 .. n) \ S # {} PROVE FALSE
  OBVIOUS
<1>1. PICK k \in (0 .. n) \ S : \A m \in (0 .. n) \ S : k <= m
  BY LeastNatural, (0 .. n) \ S \in SUBSET Nat
<1>2. k \in 1 .. n
  BY <1>1
<1>3. k - 1 \in S
  BY <1>1, <1>2
<1> QED BY <1>1, <1>2, <1>3

\* f is the value of a loop after each of its n iterations: it starts with a, and
\* each iteration is a function of its number and of the value before it.
IsLoop(f, n, a, step) == f[0] = a /\ \A k \in 1 .. n : f[k] = step[<<k, f[k - 1]>>]

\* Every loop over a set V has such a function.
LEMMA LoopExists ==
    ASSUME NEW n \in Nat, NEW V, NEW a \in V, NEW step \in [(1 .. n) \X V -> V]
    PROVE  \E f \in [0 .. n -> V] : IsLoop(f, n, a, step)
<1> DEFINE Loop(f, m) == f[0] = a /\ \A k \in 1 .. m : f[k] = step[<<k, f[k - 1]>>]
           S == {m \in 0 .. n : \E f \in [0 .. m -> V] : Loop(f, m)}
<1>1. 0 \in S
  <2> DEFINE f == [i \in 0 .. 0 |-> a]
  <2>1. f \in [0 .. 0 -> V] /\ Loop(f, 0) OBVIOUS
  <2> HIDE DEF f, Loop
  <2> QED BY <2>1
<1>2. ASSUME NEW k \in 1 .. n, k - 1 \in S PROVE k \in S
  <2>1. PICK f \in [0 .. k - 1 -> V] : Loop(f, k - 1) BY <1>2
  <2> DEFINE x == step[<<k, f[k - 1]>>]
             g == [i \in 0 .. k |-> IF i = k THEN x ELSE f[i]]
  <2>2. x \in V OBVIOUS
  <2> HIDE DEF x
  <2>3. g \in [0 .. k -> V] BY <2>2
  <2>4. g[0] = a BY <2>1
  <2>5. ASSUME NEW j \in 1 .. k PROVE g[j] = step[<<j, g[j - 1]>>]
    <3>1. CASE j = k
      <4>1. k \in 0 .. k /\ k - 1 \in 0 .. k /\ k - 1 # k OBVIOUS
      <4>2. g[k] = x /\ g[k - 1] = f[k - 1] BY <4>1
      <4> QED BY <3>1, <4>2 DEF x
    <3>2. CASE j # k
      <4>1. j \in 1 .. k - 1 /\ j - 1 # k BY <3>2
      <4>2. g[j] = f[j] /\ g[j - 1] = f[j - 1] BY <3>2, <4>1
      <4> QED BY <2>1, <4>1, <4>2
    <3> QED BY <3>1, <3>2
  <2>6. Loop(g, k) BY <2>4, <2>5
  <2> HIDE DEF g, Loop
  <2> QED BY <2>3, <2>6
<1> HIDE DEF S
<1>3. 0 .. n \subseteq S BY <1>1, <1>2, InductiveSet
<1> QED BY <1>3 DEF S, IsLoop

\* Induction downwards, from what holds of all greater numbers.
LEMMA DownwardSet ==
    ASSUME NEW n \in Nat, NEW S,
           \A k \in 1 .. n + 1 : (\A m \in k + 1 .. n + 1 : m \in S) => k \in S
    PROVE  1 .. n + 1 \subseteq S
<1> DEFINE T == {m \in 0 .. n + 1 : \A i \in n + 2 - m .. n + 1 : i \in S}
<1>1. 0 \in T OBVIOUS
<1>2. ASSUME NEW k \in 1 .. n + 1, k - 1 \in T PROVE k \in T
  <2>1. \A i \in n + 3 - k .. n + 1 : i \in S BY <1>2
  <2>2. n + 2 - k \in 1 .. n + 1 OBVIOUS
  <2>3. n + 2 - k \in S BY <2>1, <2>2
  <2> QED BY <2>1, <2>3
<1> HIDE DEF T
<1>3. 0 .. n + 1 \subseteq T BY <1>1, <1>2, InductiveSet
<1>4. n + 1 \in T BY <1>3
<1> QED BY <1>4 DEF T

\* step computes a value at k from the values below k.
FromBelow(step, V) ==
    \A k \in Nat : \A g, h \in [Nat -> V] :
      /\ step[<<k, g>>] \in V
      /\ (\A i \in 0 .. k - 1 : g[i] = h[i]) => step[<<k, g>>] = step[<<k, h>>]

\* There is a function on the naturals that follows such a step.
LEMMA CourseExists ==
    ASSUME NEW V, NEW a \in V, NEW step, FromBelow(step, V)
    PROVE  \E f \in [Nat -> V] : \A k \in Nat : f[k] = step[<<k, f>>]
<1> DEFINE St(k, f) == step[<<k, f>>]
           X == [Nat -> V]
           Upto(f, n) == \A k \in 0 .. n : f[k] = St(k, f)
           Same(g, h, n) == \A i \in 0 .. n : g[i] = h[i]
<1>1. ASSUME NEW k \in Nat, NEW g \in X, NEW h \in X, Same(g, h, k - 1)
      PROVE  St(k, g) = St(k, h)
  BY <1>1 DEF FromBelow
<1>2. ASSUME NEW k \in Nat, NEW g \in X PROVE St(k, g) \in V
  BY DEF FromBelow
<1> HIDE DEF St
<1>3. ASSUME NEW f \in X, NEW m \in Nat, \A k \in 0 .. m - 1 : f[k] = St(k, f)
      PROVE  \E g \in X : Upto(g, m)
  <2> DEFINE x == St(m, f)
             g == [i \in Nat |-> IF i = m THEN x ELSE f[i]]
  <2>1. x \in V BY <1>2
  <2> HIDE DEF x
  <2>2. g \in X BY <2>1
  <2>3. g[m] = x /\ \A i \in 0 .. m - 1 : g[i] = f[i] OBVIOUS
  <2> HIDE DEF g, X
  <2>4. ASSUME NEW k \in 0 .. m PROVE g[k] = St(k, g)
    <3>1. Same(g, f, k - 1) BY <2>3
    <3> HIDE DEF Same
    <3>2. St(k, g) = St(k, f) BY <1>1, <2>2, <3>1
    <3>3. CASE k = m BY <2>3, <3>2, <3>3 DEF x
    <3>4. CASE k # m
      <4>1. k \in 0 .. m - 1 BY <3>4
      <4> QED BY <1>3, <2>3, <3>2, <4>1
    <3> QED BY <3>3, <3>4
  <2> QED BY <2>2, <2>4
<1>4. \A n \in Nat : \E f \in X : Upto(f, n)
  <2> SUFFICES ASSUME NEW n \in Nat PROVE \E f \in X : Upto(f, n) OBVIOUS
  <2> DEFINE S == {m \in 0 .. n : \E f \in X : Upto(f, m)}
  <2>1. 0 \in S
    <3> DEFINE c == [i \in Nat |-> a]
    <3>1. c \in X OBVIOUS
    <3> HIDE DEF c, X
    <3>2. \A k \in 0 .. 0 - 1 : c[k] = St(k, c) OBVIOUS
    <3> HIDE DEF Upto
    <3> QED BY <1>3, <3>1, <3>2
  <2>2. ASSUME NEW m \in 1 .. n, m - 1 \in S PROVE m \in S
    <3> HIDE DEF X
    <3>1. PICK f \in X : Upto(f, m - 1) BY <2>2
    <3>2. \A k \in 0 .. m - 1 : f[k] = St(k, f) BY <3>1
    <3> HIDE DEF Upto
    <3> QED BY <1>3, <3>2
  <2> HIDE DEF S
  <2>3. 0 .. n \subseteq S BY <2>1, <2>2, InductiveSet
  <2>4. n \in S BY <2>3
  <2> QED BY <2>4 DEF S
<1> HIDE DEF X
<1>5. ASSUME NEW n \in Nat, NEW f \in X, NEW g \in X, Upto(f, n), Upto(g, n)
      PROVE  Same(f, g, n)
  <2> DEFINE S == {m \in 0 .. n : Same(f, g, m)}
  <2>1. ASSUME NEW m \in 0 .. n, Same(f, g, m - 1) PROVE Same(f, g, m)
    <3>1. St(m, f) = St(m, g)
      <4> HIDE DEF Same
      <4> QED BY <1>1, <2>1
    <3>2. f[m] = g[m] BY <1>5, <3>1
    <3> QED BY <2>1, <3>2
  <2>2. Same(f, g, 0 - 1) OBVIOUS
  <2> HIDE DEF Same, Upto
  <2>3. 0 \in S BY <2>1, <2>2
  <2>4. ASSUME NEW m \in 1 .. n, m - 1 \in S PROVE m \in S BY <2>1, <2>4
  <2> HIDE DEF S
  <2>5. 0 .. n \subseteq S BY <2>3, <2>4, InductiveSet
  <2>6. n \in S BY <2>5
  <2> QED BY <2>6 DEF S
<1>6. PICK at \in [Nat -> X] : \A n \in Nat : Upto(at[n], n)
  <2> DEFINE c == [n \in Nat |-> CHOOSE f \in X : Upto(f, n)]
  <2> HIDE DEF Upto
  <2>1. c \in [Nat -> X] /\ \A n \in Nat : Upto(c[n], n) BY <1>4
  <2> QED BY <2>1
<1> DEFINE F == [k \in Nat |-> at[k][k]]
<1>7. F \in X BY DEF X
<1>8. ASSUME NEW n \in Nat PROVE Same(F, at[n], n)
  <2> SUFFICES ASSUME NEW k \in 0 .. n PROVE F[k] = at[n][k] OBVIOUS
  <2> HIDE DEF Upto, Same
  <2>1. at[n] \in X /\ Upto(at[n], n) /\ at[k] \in X /\ Upto(at[k], k) BY <1>6
  <2>2. Upto(at[n], k) BY <2>1 DEF Upto
  <2>3. Same(at[n], at[k], k) BY <1>5, <2>1, <2>2
  <2>4. at[n][k] = at[k][k] BY <2>3 DEF Same
  <2> QED BY <2>4
<1>9. ASSUME NEW n \in Nat PROVE F[n] = St(n, F)
  <2> DEFINE g == at[n]
  <2>1. Same(F, g, n) BY <1>8
  <2>2. g \in X /\ g[n] = St(n, g)
    <3>1. Upto(at[n], n) /\ at[n] \in X BY <1>6
    <3> QED BY <3>1
  <2> HIDE DEF g, F
  <2>3. Same(F, g, n - 1) /\ F[n] = g[n] BY <2>1
  <2> HIDE DEF Same
  <2>4. St(n, F) = St(n, g) BY <1>1, <1>7, <2>2, <2>3
  <2> QED BY <2>2, <2>3, <2>4
<1> HIDE DEF F
<1> QED BY <1>7, <1>9 DEF St, X

\* step computes a value at k from the values above k, up to n + 1.
FromAbove(step, n, V) ==
    \A k \in 1 .. n : \A g, h \in [1 .. n + 1 -> V] :
      /\ step[<<k, g>>] \in V
      /\ (\A i \in k + 1 .. n + 1 : g[i] = h[i]) => step[<<k, g>>] = step[<<k, h>>]

\* There is a function on 1 .. n + 1 that follows such a step: a search through a
\* text, from each of its positions on.
LEMMA BackwardExists ==
    ASSUME NEW n \in Nat, NEW V, NEW a \in V, NEW step, FromAbove(step, n, V)
    PROVE  \E f \in [1 .. n + 1 -> V] :
             f[n + 1] = a /\ \A k \in 1 .. n : f[k] = step[<<k, f>>]
<1> DEFINE Y == [1 .. n + 1 -> V]
           X == [Nat -> V]
           St(k, f) == step[<<k, f>>]
           Turn(h) == [i \in 1 .. n + 1 |-> h[n + 1 - i]]
           Up(k, h) == IF k \in 1 .. n THEN St(n + 1 - k, Turn(h)) ELSE a
           up == [x \in Nat \X X |-> Up(x[1], x[2])]
<1>1. ASSUME NEW h \in X PROVE Turn(h) \in Y OBVIOUS
<1>2. ASSUME NEW k \in 1 .. n, NEW g \in Y PROVE St(k, g) \in V BY DEF FromAbove
<1>3. ASSUME NEW k \in 1 .. n, NEW g \in Y, NEW h \in Y, \A i \in k + 1 .. n + 1 : g[i] = h[i]
      PROVE  St(k, g) = St(k, h)
  BY <1>3 DEF FromAbove
<1> HIDE DEF St
<1>4. ASSUME NEW k \in Nat, NEW h \in X PROVE Up(k, h) \in V
  <2>1. Turn(h) \in Y BY <1>1
  <2> HIDE DEF Turn, Y
  <2>2. CASE k \in 1 .. n
    <3>1. n + 1 - k \in 1 .. n BY <2>2
    <3> QED BY <1>2, <2>1, <2>2, <3>1
  <2>3. CASE k \notin 1 .. n BY <2>3
  <2> QED BY <2>2, <2>3
<1>5. ASSUME NEW k \in Nat, NEW h \in X PROVE up[<<k, h>>] = Up(k, h)
  <2> HIDE DEF Up, X
  <2> QED OBVIOUS
<1>6. ASSUME NEW k \in Nat, NEW g \in X, NEW h \in X, \A i \in 0 .. k - 1 : g[i] = h[i]
      PROVE  Up(k, g) = Up(k, h)
  <2>1. CASE k \in 1 .. n
    <3>1. \A i \in n + 2 - k .. n + 1 : Turn(g)[i] = Turn(h)[i] BY <1>6, <2>1
    <3>2. Turn(g) \in Y /\ Turn(h) \in Y BY <1>1
    <3>3. n + 1 - k \in 1 .. n /\ (n + 1 - k) + 1 = n + 2 - k BY <2>1
    <3> HIDE DEF Turn, Y
    <3>4. St(n + 1 - k, Turn(g)) = St(n + 1 - k, Turn(h)) BY <1>3, <3>1, <3>2, <3>3
    <3> QED BY <2>1, <3>4
  <2>2. CASE k \notin 1 .. n BY <2>2
  <2> QED BY <2>1, <2>2
<1> HIDE DEF up, Up
<1>7. FromBelow(up, V) BY <1>4, <1>5, <1>6 DEF FromBelow
<1>8. PICK h \in X : \A k \in Nat : h[k] = up[<<k, h>>] BY <1>7, CourseExists
<1>9. \A k \in Nat : h[k] = Up(k, h) BY <1>5, <1>8
<1> DEFINE f == Turn(h)
<1>10. f \in Y BY <1>1
<1>11. f[n + 1] = a
  <2>1. f[n + 1] = h[0] OBVIOUS
  <2>2. Up(0, h) = a BY DEF Up
  <2> HIDE DEF f
  <2> QED BY <1>9, <2>1, <2>2
<1>12. ASSUME NEW k \in 1 .. n PROVE f[k] = St(k, f)
  <2>1. f[k] = h[n + 1 - k] /\ n + 1 - k \in 1 .. n /\ n + 1 - (n + 1 - k) = k OBVIOUS
  <2> HIDE DEF Turn, f
  <2>2. Up(n + 1 - k, h) = St(k, f) BY <2>1 DEF Up, f
  <2>3. h[n + 1 - k] = Up(n + 1 - k, h) BY <1>9, <2>1
  <2> QED BY <2>1, <2>2, <2>3
<1> HIDE DEF f
<1> QED BY <1>10, <1>11, <1>12 DEF St
==============================================================================
