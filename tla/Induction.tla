----------------------------- MODULE Induction -----------------------------
(***************************************************************************)
(* Induction over the naturals in the form the proofs of this project use  *)
(* it: for a set, instead of for a predicate.  From it follow the unfolding *)
(* of functions defined step by step and the largest of finitely many      *)
(* numbers.                                                                *)
(***************************************************************************)
EXTENDS WellFoundedInduction, FiniteSets, FiniteSetTheorems, FunctionTheorems, TLAPS

\* A set that holds zero, and with every number the next, holds them all.
THEOREM NatInduct ==
  ASSUME NEW S, 0 \in S, \A n \in Nat : n \in S => n + 1 \in S
  PROVE  Nat \subseteq S
<1> DEFINE R == OpToRel(<, Nat)
           T == Nat \ S
<1>1. IsWellFoundedOn(R, Nat)
  BY NatLessThanWellFounded
<1>2. \A x, y \in Nat : <<x, y>> \in R <=> x < y
  BY DEF OpToRel
<1> HIDE DEF R
<1>3. SUFFICES ASSUME T # {} PROVE FALSE
  OBVIOUS
<1>4. PICK x \in T : \A y \in T : ~(<<y, x>> \in R)
  BY <1>1, <1>3, WFMin
<1>5. x \in Nat /\ x # 0 /\ x - 1 \in Nat /\ x - 1 < x /\ (x - 1) + 1 = x
  BY <1>4
<1>6. <<x - 1, x>> \in R
  BY <1>2, <1>5
<1>7. x - 1 \notin T
  BY <1>4, <1>6
<1>8. x - 1 \in S
  BY <1>5, <1>7
<1> QED BY <1>4, <1>5, <1>8

\* StepMaps(A) takes a value of A to the next one, for every number of the step.
StepMaps(A) == [Nat -> [A -> A]]

\* A start and the steps define a sequence of values.
LEMMA RecExists ==
  ASSUME NEW A, NEW a \in A, NEW h \in StepMaps(A)
  PROVE  \E g \in [Nat -> A] : g[0] = a /\ \A n \in Nat : g[n + 1] = h[n][g[n]]
<1> DEFINE P(n, g) == /\ g \in [0..n -> A]
                      /\ g[0] = a
                      /\ \A m \in Nat : m < n => g[m + 1] = h[m][g[m]]
           S == {n \in Nat : \E g : P(n, g)}
           U == {n \in Nat : \A p, q \in Nat : \A f, g :
                   p >= n /\ q >= n /\ P(p, f) /\ P(q, g) => f[n] = g[n]}
<1>1. Nat \subseteq S
  <2> USE DEF StepMaps
  <2>1. 0 \in S
    <3>1. P(0, [i \in 0..0 |-> a])
      OBVIOUS
    <3> QED BY <3>1
  <2>2. ASSUME NEW n \in Nat, n \in S PROVE n + 1 \in S
    <3>1. PICK g : P(n, g)
      BY <2>2
    <3> DEFINE e == [i \in 0..(n + 1) |-> IF i = n + 1 THEN h[n][g[n]] ELSE g[i]]
    <3>2. g[n] \in A /\ h[n][g[n]] \in A
      BY <3>1
    <3>3. e \in [0..(n + 1) -> A]
      BY <3>1, <3>2
    <3>4. e[0] = a
      BY <3>1
    <3>5. ASSUME NEW m \in Nat, m < n + 1 PROVE e[m + 1] = h[m][e[m]]
      <4>1. CASE m = n
        <5>1. e[n + 1] = h[n][g[n]]
          OBVIOUS
        <5>2. e[n] = g[n]
          OBVIOUS
        <5> HIDE DEF e
        <5> QED BY <4>1, <5>1, <5>2
      <4>2. CASE m < n
        <5>1. e[m + 1] = g[m + 1] /\ e[m] = g[m]
          BY <4>2
        <5>2. g[m + 1] = h[m][g[m]]
          BY <3>1, <4>2
        <5> QED BY <5>1, <5>2
      <4> QED BY <3>5, <4>1, <4>2
    <3> HIDE DEF e
    <3>6. P(n + 1, e)
      BY <3>3, <3>4, <3>5
    <3> HIDE DEF P
    <3>7. n + 1 \in Nat
      OBVIOUS
    <3> QED BY <3>6, <3>7
  <2> HIDE DEF S
  <2> QED BY <2>1, <2>2, NatInduct
<1>2. Nat \subseteq U
  <2> USE DEF StepMaps
  <2>1. 0 \in U
    OBVIOUS
  <2>2. ASSUME NEW n \in Nat, n \in U PROVE n + 1 \in U
    <3>1. ASSUME NEW p \in Nat, NEW q \in Nat, NEW f, NEW g,
                 p >= n + 1, q >= n + 1, P(p, f), P(q, g)
          PROVE  f[n + 1] = g[n + 1]
      <4>1. n < p /\ n < q /\ p >= n /\ q >= n
        BY <3>1
      <4>2. f[n] = g[n]
        <5> HIDE DEF P
        <5> QED BY <2>2, <3>1, <4>1
      <4>3. f[n + 1] = h[n][f[n]]
        BY <3>1, <4>1
      <4>4. g[n + 1] = h[n][g[n]]
        BY <3>1, <4>1
      <4> QED BY <4>2, <4>3, <4>4
    <3> HIDE DEF P
    <3>2. n + 1 \in Nat
      OBVIOUS
    <3>3. \A p, q \in Nat : \A f, g :
            p >= n + 1 /\ q >= n + 1 /\ P(p, f) /\ P(q, g) => f[n + 1] = g[n + 1]
      BY <3>1
    <3> QED BY <3>2, <3>3
  <2> HIDE DEF U
  <2> QED BY <2>1, <2>2, NatInduct
<1> DEFINE G == [n \in Nat |-> CHOOSE g : P(n, g)]
           F == [n \in Nat |-> G[n][n]]
<1>3. \A n \in Nat : P(n, G[n])
  <2> HIDE DEF P
  <2> QED BY <1>1
<1> HIDE DEF G
<1>4. F \in [Nat -> A] /\ F[0] = a
  BY <1>3
<1>5. ASSUME NEW n \in Nat PROVE F[n + 1] = h[n][F[n]]
  <2>1. G[n + 1][n + 1] = h[n][G[n + 1][n]]
    BY <1>3
  <2>2. G[n][n] = G[n + 1][n]
    <3>1. P(n, G[n]) /\ P(n + 1, G[n + 1])
      BY <1>3
    <3> HIDE DEF P
    <3> QED BY <1>2, <3>1
  <2> QED BY <2>1, <2>2
<1> QED BY <1>4, <1>5

\* The same for a given number of steps.
StepsTo(n, A) == [1..n -> [A -> A]]

\* A start and so many steps define a sequence of values.
LEMMA RecUpTo ==
  ASSUME NEW A, NEW a \in A, NEW n \in Nat, NEW h \in StepsTo(n, A)
  PROVE  \E f : /\ f = [k \in 0..n |-> IF k = 0 THEN a ELSE h[k][f[k - 1]]]
              /\ f \in [0..n -> A]
<1> DEFINE H == [k \in Nat |-> IF k < n THEN h[k + 1] ELSE [x \in A |-> a]]
<1>1. H \in StepMaps(A)
  BY DEF StepMaps, StepsTo
<1>2. \A k \in Nat : k < n => H[k] = h[k + 1]
  BY DEF StepsTo
<1> HIDE DEF H
<1>3. PICK g \in [Nat -> A] : g[0] = a /\ \A k \in Nat : g[k + 1] = H[k][g[k]]
  BY ONLY <1>1, a \in A, RecExists, SMTT(60)
<1> DEFINE f == [k \in 0..n |-> g[k]]
<1>4. f \in [0..n -> A]
  OBVIOUS
<1>5. ASSUME NEW k \in 0..n PROVE f[k] = IF k = 0 THEN a ELSE h[k][f[k - 1]]
  <2>1. CASE k = 0
    BY <1>3, <2>1
  <2>2. CASE k # 0
    <3>1. k - 1 \in Nat /\ k - 1 < n /\ (k - 1) + 1 = k /\ k - 1 \in 0..n
      BY <2>2
    <3>2. g[k] = H[k - 1][g[k - 1]]
      BY <1>3, <3>1
    <3>3. H[k - 1][g[k - 1]] = h[k][g[k - 1]]
      BY <1>2, <1>3, <3>1
    <3> QED BY <2>2, <3>1, <3>2, <3>3
  <2> QED BY <2>1, <2>2
<1> HIDE DEF f
<1> QED BY <1>4, <1>5

\* Two sequences with the same start and the same steps are the same.
LEMMA RecAgree ==
  ASSUME NEW n \in Nat, NEW f, NEW g, f[0] = g[0],
         \A k \in 1..n : f[k - 1] = g[k - 1] => f[k] = g[k]
  PROVE  \A k \in 0..n : f[k] = g[k]
<1> DEFINE S == {k \in Nat : k <= n => f[k] = g[k]}
<1>1. 0 \in S
  OBVIOUS
<1>2. ASSUME NEW k \in Nat, k \in S PROVE k + 1 \in S
  <2>1. CASE k + 1 <= n
    <3>1. k <= n /\ k + 1 \in 1..n /\ (k + 1) - 1 = k
      BY <2>1
    <3> QED BY <1>2, <3>1
  <2>2. CASE ~(k + 1 <= n)
    BY <2>2
  <2> QED BY <2>1, <2>2
<1> HIDE DEF S
<1>3. Nat \subseteq S
  BY <1>1, <1>2, NatInduct
<1> QED BY <1>3 DEF S

\* Some numbers have a smallest.
LEMMA LeastOf ==
  ASSUME NEW S, S \subseteq Nat, S # {}
  PROVE  \E m \in S : \A i \in S : m <= i
<1> DEFINE R == OpToRel(<, Nat)
<1>1. IsWellFoundedOn(R, Nat)
  BY NatLessThanWellFounded
<1>2. \A x, y \in Nat : <<x, y>> \in R <=> x < y
  BY DEF OpToRel
<1> HIDE DEF R
<1>3. PICK m \in S : \A y \in S : ~(<<y, m>> \in R)
  BY <1>1, WFMin
<1>4. \A i \in S : i \in Nat /\ ~(i < m)
  BY <1>2, <1>3
<1>5. m \in Nat /\ \A i \in S : m <= i
  BY <1>4
<1> QED BY <1>5

\* Finitely many numbers have an upper bound.
LEMMA FiniteBound ==
  ASSUME NEW S, S \subseteq Nat, IsFiniteSet(S)
  PROVE  \E b \in Nat : \A i \in S : i <= b
<1> DEFINE B == {n \in Nat : \A f \in [1..n -> Nat] : \E b \in Nat : \A i \in 1..n : f[i] <= b}
<1>1. 0 \in B
  <2>1. \A f \in [1..0 -> Nat] : \A i \in 1..0 : f[i] <= 0
    OBVIOUS
  <2> QED BY <2>1
<1>2. ASSUME NEW n \in Nat, n \in B PROVE n + 1 \in B
  <2>1. ASSUME NEW f \in [1..(n + 1) -> Nat]
        PROVE  \E b \in Nat : \A i \in 1..(n + 1) : f[i] <= b
    <3>1. [i \in 1..n |-> f[i]] \in [1..n -> Nat]
      OBVIOUS
    <3>2. PICK b \in Nat : \A i \in 1..n : [j \in 1..n |-> f[j]][i] <= b
      BY <1>2, <3>1
    <3>3. \A i \in 1..n : f[i] <= b
      BY <3>2
    <3>4. f[n + 1] \in Nat /\ b + f[n + 1] \in Nat
      OBVIOUS
    <3>5. \A i \in 1..(n + 1) : f[i] <= b + f[n + 1]
      BY <3>3, <3>4
    <3> QED BY <3>4, <3>5
  <2>2. n + 1 \in Nat
    OBVIOUS
  <2> QED BY ONLY <2>1, <2>2
<1> HIDE DEF B
<1>3. Nat \subseteq B
  BY <1>1, <1>2, NatInduct
<1>4. PICK n \in Nat : ExistsSurjection(1..n, S)
  BY FS_NatSurjection
<1>5. PICK f \in Surjection(1..n, S) : TRUE
  BY <1>4 DEF ExistsSurjection
<1>6. f \in [1..n -> Nat] /\ \A s \in S : \E i \in 1..n : f[i] = s
  BY <1>5 DEF Surjection
<1>7. PICK b \in Nat : \A i \in 1..n : f[i] <= b
  BY <1>3, <1>6 DEF B
<1> QED BY <1>6, <1>7

\* Finitely many numbers, if there are any, have a largest.
LEMMA FiniteMax ==
  ASSUME NEW S, S \subseteq Nat, S # {}, IsFiniteSet(S)
  PROVE  \E m \in S : \A i \in S : i <= m
<1> DEFINE N == {n \in Nat : (\E i \in S : n <= i)}
<1>1. PICK b \in Nat : \A i \in S : i <= b
  BY FiniteBound
<1>2. SUFFICES ASSUME \A m \in S : \E i \in S : ~(i <= m) PROVE FALSE
  OBVIOUS
<1>3. 0 \in N
  <2>1. PICK i \in S : TRUE
    OBVIOUS
  <2> QED BY <2>1
<1>4. ASSUME NEW n \in Nat, n \in N PROVE n + 1 \in N
  <2>1. PICK i \in S : n <= i
    BY <1>4
  <2>2. PICK j \in S : ~(j <= i)
    BY <1>2
  <2>3. n + 1 <= j
    BY <2>1, <2>2
  <2> QED BY <2>3
<1> HIDE DEF N
<1>5. b + 1 \in N
  BY <1>3, <1>4, NatInduct
<1> QED BY <1>1, <1>5 DEF N

\* The image of a finite set under a function is finite.
LEMMA FiniteImage ==
  ASSUME NEW S, NEW T, NEW f \in [S -> T], IsFiniteSet(S)
  PROVE  IsFiniteSet({f[x] : x \in S})
<1>1. f \in Surjection(S, {f[x] : x \in S})
  BY DEF Surjection
<1> QED BY <1>1, FS_Surjection

=============================================================================
