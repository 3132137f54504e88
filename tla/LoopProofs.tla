----------------------------- MODULE LoopProofs -----------------------------
(***************************************************************************)
(* The facts about Sum and Without that the other proofs cite.  The        *)
(* library's induction theorems take an operator parameter; here induction *)
(* is over a set of naturals (SetInduction), derived from the existence of *)
(* minimal elements (WFMin), which is first order.                         *)
(***************************************************************************)
EXTENDS Loops, FiniteSetTheorems, SequenceTheorems, FunctionTheorems, TLAPS

\* A set of naturals that holds 0 and is closed under successor is Nat.
LEMMA SetInduction ==
  ASSUME NEW T, T \subseteq Nat, 0 \in T, \A k \in T : k+1 \in T
  PROVE  T = Nat
<1> DEFINE M == Nat \ T
<1> DEFINE R == OpToRel(<, Nat)
<1>1. SUFFICES ASSUME M # {} PROVE FALSE
  OBVIOUS
<1>2. PICK x \in M : \A y \in M : <<y, x>> \notin R
  <2>1. IsWellFoundedOn(R, Nat)  BY NatLessThanWellFounded
  <2>2. M \subseteq Nat  OBVIOUS
  <2> HIDE DEF M, R
  <2> QED  BY <1>1, <2>1, <2>2, WFMin
<1>3. x \in Nat /\ x # 0 /\ x - 1 \in Nat
  OBVIOUS
<1>4. x - 1 \in M
  BY <1>3
<1>5. <<x-1, x>> \in R
  BY <1>3 DEF OpToRel
<1> QED  BY <1>2, <1>4, <1>5

\* The recursive definition of the prefix sums has a solution.
LEMMA PrefixSumsExist ==
  ASSUME NEW n \in Nat, NEW a \in [1..n -> Int]
  PROVE  \E g \in [0..n -> Int] :
            g = [i \in 0..n |-> IF i = 0 THEN 0 ELSE g[i-1] + a[i]]
<1> DEFINE Solves(g, k) == g = [i \in 0..k |-> IF i = 0 THEN 0 ELSE g[i-1] + a[i]]
<1> DEFINE T == {k \in Nat : k <= n => \E g \in [0..k -> Int] : Solves(g, k)}
<1>1. 0 \in T
  <2> DEFINE z == [i \in 0..0 |-> 0]
  <2>1. z \in [0..0 -> Int] /\ Solves(z, 0)  OBVIOUS
  <2> QED  BY <2>1
<1>2. ASSUME NEW k \in T PROVE k+1 \in T
  <2> HIDE DEF Solves
  <2>0. k \in Nat /\ (k <= n => \E g \in [0..k -> Int] : Solves(g, k))
    BY <1>2
  <2>1. SUFFICES ASSUME k+1 <= n
                 PROVE  \E g \in [0..(k+1) -> Int] : Solves(g, k+1)
    BY <2>0
  <2>2. PICK h \in [0..k -> Int] : Solves(h, k)
    BY <2>0, <2>1
  <2> USE DEF Solves
  <2> DEFINE g == [i \in 0..(k+1) |-> IF i <= k THEN h[i] ELSE h[k] + a[k+1]]
  <2>3. g \in [0..(k+1) -> Int]
    BY <2>1, <2>2
  <2>4. ASSUME NEW i \in 0..(k+1)
        PROVE  g[i] = IF i = 0 THEN 0 ELSE g[i-1] + a[i]
    <3>1. CASE i = 0  BY <3>1, <2>2
    <3>2. CASE i \in 1..k
      <4>1. g[i] = h[i] /\ g[i-1] = h[i-1]  BY <3>2
      <4>2. h[i] = h[i-1] + a[i]  BY <3>2, <2>2
      <4> QED  BY <4>1, <4>2, <3>2
    <3>3. CASE i = k+1  BY <3>3, <2>1
    <3> QED  BY <3>1, <3>2, <3>3
  <2>5. Solves(g, k+1)
    BY <2>4
  <2> HIDE DEF g
  <2> QED  BY <2>3, <2>5
<1>3. T = Nat
  <2>1. T \subseteq Nat  OBVIOUS
  <2> HIDE DEF T
  <2> QED  BY <1>1, <1>2, <2>1, SetInduction
<1>4. n \in T
  BY <1>3
<1> QED  BY <1>4, SMTT(30)

\* What the prefix sums satisfy.
LEMMA PrefixSumsStep ==
  ASSUME NEW n \in Nat, NEW a \in [1..n -> Int]
  PROVE  /\ PrefixSums(a, n) \in [0..n -> Int]
         /\ PrefixSums(a, n)[0] = 0
         /\ \A i \in 1..n : PrefixSums(a, n)[i] = PrefixSums(a, n)[i-1] + a[i]
<1> DEFINE Eq(g) == g = [i \in 0..n |-> IF i = 0 THEN 0 ELSE g[i-1] + a[i]]
<1> DEFINE p == CHOOSE g : Eq(g)
<1>1. PrefixSums(a, n) = p
  BY DEF PrefixSums
<1>2. PICK g \in [0..n -> Int] : Eq(g)
  BY PrefixSumsExist
<1>3. Eq(p)
  BY <1>2
<1> HIDE DEF p
<1>4. ASSUME NEW i \in 1..n PROVE p[i] = p[i-1] + a[i]
  BY <1>3
<1>5. p[0] = 0
  BY <1>3
<1> DEFINE T == {k \in Nat : k <= n => p[k] \in Int}
<1>6. 0 \in T
  BY <1>5
<1>7. ASSUME NEW k \in T PROVE k+1 \in T
  <2>1. SUFFICES ASSUME k+1 <= n PROVE p[k+1] \in Int
    OBVIOUS
  <2>2. p[k+1] = p[k] + a[k+1]
    BY <2>1, <1>4
  <2> QED  BY <2>1, <2>2
<1>8. T = Nat
  <2>1. T \subseteq Nat  OBVIOUS
  <2> HIDE DEF T
  <2> QED  BY <1>6, <1>7, <2>1, SetInduction
<1>9. p \in [0..n -> Int]
  <2>1. \A i \in 0..n : p[i] \in Int  BY <1>8, SMTT(30)
  <2>2. DOMAIN p = 0..n /\ p = [i \in DOMAIN p |-> p[i]]
    BY <1>3, Zenon
  <2> QED  BY <2>1, <2>2
<1> QED  BY <1>1, <1>4, <1>5, <1>9

\* p adds the entries of a one at a time.
Recurs(p, a, n) == /\ p \in [0..n -> Int]
                   /\ p[0] = 0
                   /\ \A k \in 0..(n-1) : p[k+1] = p[k] + a[k+1]

\* The prefix sums, read forwards.
LEMMA PrefixSumsRecurs ==
  ASSUME NEW n \in Nat, NEW a \in [1..n -> Int]
  PROVE  Recurs(PrefixSums(a, n), a, n)
<1> DEFINE p == PrefixSums(a, n)
<1>1. /\ p \in [0..n -> Int] /\ p[0] = 0
      /\ \A i \in 1..n : p[i] = p[i-1] + a[i]
  BY PrefixSumsStep
<1> HIDE DEF p
<1>2. ASSUME NEW k \in 0..(n-1) PROVE p[k+1] = p[k] + a[k+1]
  <2>1. k+1 \in 1..n /\ (k+1)-1 = k  OBVIOUS
  <2>2. p[k+1] = p[(k+1)-1] + a[k+1]  BY <2>1, <1>1
  <2> QED  BY <2>1, <2>2
<1>3. Recurs(p, a, n)
  BY <1>1, <1>2 DEF Recurs
<1> QED  BY <1>3 DEF p

\* Adding what is not negative never leads below zero.
LEMMA PrefixSumsNonneg ==
  ASSUME NEW n \in Nat, NEW a \in [1..n -> Int], \A i \in 1..n : a[i] >= 0
  PROVE  \A k \in 0..n : PrefixSums(a, n)[k] >= 0
<1> DEFINE p == PrefixSums(a, n)
           T == {k \in Nat : k <= n => p[k] >= 0}
<1>1. Recurs(p, a, n)
  BY PrefixSumsRecurs
<1> HIDE DEF p
<1>2. 0 \in T
  BY <1>1 DEF Recurs
<1>3. ASSUME NEW k \in T PROVE k + 1 \in T
  <2> SUFFICES ASSUME k + 1 <= n PROVE p[k + 1] >= 0
    OBVIOUS
  <2>1. k \in 0..(n - 1) /\ k + 1 \in 1..n /\ k \in 0..n /\ p[k] >= 0
    OBVIOUS
  <2>2. p[k + 1] = p[k] + a[k + 1] /\ p[k] \in Int /\ a[k + 1] \in Int /\ a[k + 1] >= 0
    BY <1>1, <2>1 DEF Recurs
  <2> QED  BY <2>1, <2>2
<1>4. T = Nat
  <2>1. T \subseteq Nat  OBVIOUS
  <2> HIDE DEF T
  <2> QED  BY <1>2, <1>3, <2>1, SetInduction
<1> QED  BY <1>4 DEF p

\* The prefix sums of a longer sequence start with those of a shorter one.
LEMMA PrefixSumsExtend ==
  ASSUME NEW n \in Nat, NEW m \in 0..n, NEW a \in [1..n -> Int], NEW b \in [1..m -> Int],
         \A i \in 1..m : b[i] = a[i]
  PROVE  PrefixSums(b, m)[m] = PrefixSums(a, n)[m]
<1> DEFINE p == PrefixSums(a, n)
           q == PrefixSums(b, m)
           T == {k \in Nat : k <= m => q[k] = p[k]}
<1>1. /\ p[0] = 0 /\ \A i \in 1..n : p[i] = p[i-1] + a[i]
      /\ q[0] = 0 /\ \A i \in 1..m : q[i] = q[i-1] + b[i]
  <2>1. m \in Nat
    OBVIOUS
  <2> QED  BY <2>1, PrefixSumsStep
<1> HIDE DEF p, q
<1>2. 0 \in T
  BY <1>1
<1>3. ASSUME NEW k \in T PROVE k + 1 \in T
  <2> SUFFICES ASSUME k + 1 <= m PROVE q[k + 1] = p[k + 1]
    OBVIOUS
  <2>1. k + 1 \in 1..m /\ k + 1 \in 1..n /\ (k + 1) - 1 = k /\ q[k] = p[k]
    OBVIOUS
  <2>2. q[k + 1] = q[(k + 1) - 1] + b[k + 1] /\ p[k + 1] = p[(k + 1) - 1] + a[k + 1]
    BY <1>1, <2>1
  <2> QED  BY <2>1, <2>2
<1>4. T = Nat
  <2>1. T \subseteq Nat  OBVIOUS
  <2> HIDE DEF T
  <2> QED  BY <1>2, <1>3, <2>1, SetInduction
<1> QED  BY <1>4 DEF p, q

-----------------------------------------------------------------------------
\* An enumeration of a finite set visits every element exactly once.
LEMMA EnumerationType ==
  ASSUME NEW S, IsFiniteSet(S)
  PROVE  /\ Cardinality(S) \in Nat
         /\ Enumeration(S) \in [1..Cardinality(S) -> S]
         /\ \A x \in S : \E i \in 1..Cardinality(S) : Enumeration(S)[i] = x
         /\ \A i, j \in 1..Cardinality(S) :
               Enumeration(S)[i] = Enumeration(S)[j] => i = j
<1>1. Cardinality(S) \in Nat /\ ExistsBijection(1..Cardinality(S), S)
  BY FS_CardinalityType
<1>2. Enumeration(S) \in Bijection(1..Cardinality(S), S)
  BY <1>1, Zenon DEF Enumeration, ExistsBijection
<1> QED
  BY <1>1, <1>2 DEF Bijection, Injection, Surjection, IsInjective

\* The sum of integers is an integer; of naturals, a natural.
LEMMA SumType ==
  ASSUME NEW S, IsFiniteSet(S), NEW f, \A x \in S : f[x] \in Int
  PROVE  /\ Sum(f, S) \in Int
         /\ (\A x \in S : f[x] >= 0) => Sum(f, S) >= 0
<1> DEFINE n == Cardinality(S)
<1> DEFINE e == Enumeration(S)
<1> DEFINE a == [i \in 1..n |-> f[e[i]]]
<1> DEFINE p == PrefixSums(a, n)
<1>1. n \in Nat /\ a \in [1..n -> Int]
  BY EnumerationType
<1>2. Sum(f, S) = p[n]
  BY DEF Sum
<1>3. /\ p \in [0..n -> Int]
      /\ p[0] = 0
      /\ \A i \in 1..n : p[i] = p[i-1] + a[i]
  <2> HIDE DEF n, a
  <2> QED  BY <1>1, PrefixSumsStep
<1>4. ASSUME \A x \in S : f[x] >= 0 PROVE p[n] >= 0
  <2>1. \A i \in 1..n : a[i] >= 0
    BY <1>4, EnumerationType
  <2> DEFINE T == {k \in Nat : k <= n => p[k] >= 0}
  <2> HIDE DEF n, a, p
  <2>2. 0 \in T
    BY <1>3
  <2>3. ASSUME NEW k \in T PROVE k+1 \in T
    <3>1. k \in Nat /\ (k <= n => p[k] >= 0)  OBVIOUS
    <3> QED  BY <3>1, <2>1, <1>1, <1>3
  <2>4. T = Nat
    <3>1. T \subseteq Nat  OBVIOUS
    <3> HIDE DEF T
    <3> QED  BY <2>2, <2>3, <3>1, SetInduction
  <2> QED  BY <2>4, <1>1
<1> HIDE DEF n, a, p
<1> QED  BY <1>1, <1>2, <1>3, <1>4

\* A sum depends only on the entries of the set.
LEMMA SumEqual ==
  ASSUME NEW S, IsFiniteSet(S), NEW f, NEW g, \A x \in S : f[x] = g[x]
  PROVE  Sum(f, S) = Sum(g, S)
<1> DEFINE n == Cardinality(S)
<1> DEFINE e == Enumeration(S)
<1>1. [i \in 1..n |-> f[e[i]]] = [i \in 1..n |-> g[e[i]]]
  BY EnumerationType
<1> QED  BY <1>1, Zenon DEF Sum

\* Changing one entry changes the sum by the difference.
LEMMA SumUpdate ==
  ASSUME NEW S, IsFiniteSet(S), NEW f, NEW g, NEW c \in S,
         \A x \in S : f[x] \in Int, \A x \in S : g[x] \in Int,
         \A x \in S \ {c} : g[x] = f[x]
  PROVE  Sum(g, S) = Sum(f, S) + g[c] - f[c]
<1> DEFINE n == Cardinality(S)
<1> DEFINE e == Enumeration(S)
<1> DEFINE a == [i \in 1..n |-> f[e[i]]]
<1> DEFINE b == [i \in 1..n |-> g[e[i]]]
<1> DEFINE p == PrefixSums(a, n)
<1> DEFINE q == PrefixSums(b, n)
<1>1. n \in Nat /\ a \in [1..n -> Int] /\ b \in [1..n -> Int]
  BY EnumerationType
<1>2. Sum(f, S) = p[n] /\ Sum(g, S) = q[n]
  BY DEF Sum
<1>3. PICK m \in 1..n : e[m] = c
  BY EnumerationType
<1>4. a[m] = f[c] /\ b[m] = g[c]
  BY <1>3
<1>5. \A i \in 1..n : i # m => b[i] = a[i]
  BY <1>3, EnumerationType
<1> HIDE DEF n, e, a, b
<1>6. /\ Recurs(p, a, n)
  BY <1>1, PrefixSumsRecurs
<1>7. /\ Recurs(q, b, n)
  BY <1>1, PrefixSumsRecurs
<1> HIDE DEF p, q
<1> DEFINE T == {k \in Nat : k <= n =>
                    q[k] = p[k] + (IF k < m THEN 0 ELSE b[m] - a[m])}
<1>8. 0 \in T
  BY <1>6, <1>7 DEF Recurs
<1>9. ASSUME NEW k \in T PROVE k+1 \in T
  <2>1. SUFFICES ASSUME k+1 <= n
                 PROVE  q[k+1] = p[k+1] + (IF k+1 < m THEN 0 ELSE b[m] - a[m])
    OBVIOUS
  <2>2. /\ k \in Nat /\ k \in 0..(n-1) /\ k+1 \in 1..n
        /\ q[k] = p[k] + (IF k < m THEN 0 ELSE b[m] - a[m])
    BY <2>1, <1>1
  <2> HIDE DEF T
  <2>3. p[k+1] = p[k] + a[k+1] /\ q[k+1] = q[k] + b[k+1]
    BY <2>2, <1>1, <1>6, <1>7 DEF Recurs
  <2>4. /\ a[k+1] \in Int /\ b[k+1] \in Int
        /\ p[k] \in Int /\ q[k] \in Int
    BY <2>2, <1>1, <1>6, <1>7 DEF Recurs
  <2>5. a[m] \in Int /\ b[m] \in Int
    BY <1>1
  <2>6. CASE k+1 = m  BY <2>2, <2>3, <2>4, <2>5, <2>6
  <2>7. CASE k+1 # m
    <3>1. b[k+1] = a[k+1]  BY <2>2, <2>7, <1>5
    <3> QED  BY <3>1, <2>2, <2>3, <2>4, <2>5, <2>7
  <2> QED  BY <2>6, <2>7
<1>10. T = Nat
  <2>1. T \subseteq Nat  OBVIOUS
  <2> HIDE DEF T
  <2> QED  BY <1>8, <1>9, <2>1, SetInduction
<1>11. q[n] = p[n] + (b[m] - a[m])
  <2>1. n \in T  BY <1>10, <1>1
  <2>2. n \in Nat /\ ~(n < m)  BY <1>1
  <2> QED  BY <2>1, <2>2
<1>12. a[m] \in Int /\ b[m] \in Int /\ p[n] \in Int /\ q[n] \in Int
  BY <1>1, <1>6, <1>7 DEF Recurs
<1> QED  BY <1>2, <1>4, <1>11, <1>12

\* SumUpdate for natural counters of which one moves by one.
LEMMA SumBump ==
  ASSUME NEW S, IsFiniteSet(S), NEW f, NEW g, NEW c \in S,
         \A x \in S : f[x] \in Nat, g[c] = f[c] + 1,
         \A x \in S \ {c} : g[x] = f[x]
  PROVE  Sum(g, S) = Sum(f, S) + 1
<1>1. \A x \in S : f[x] \in Int
  OBVIOUS
<1>2. \A x \in S : g[x] \in Int
  <2>1. ASSUME NEW x \in S PROVE g[x] \in Int
    BY <2>1
  <2> QED  BY <2>1
<1>3. Sum(g, S) = Sum(f, S) + g[c] - f[c]
  BY <1>1, <1>2, SumUpdate
<1>4. Sum(f, S) \in Int
  BY <1>1, SumType
<1> QED  BY <1>1, <1>3, <1>4

\* Entrywise addition adds the sums.
LEMMA SumAdd ==
  ASSUME NEW S, IsFiniteSet(S), NEW f, NEW g, NEW h,
         \A x \in S : f[x] \in Int /\ g[x] \in Int /\ h[x] = f[x] + g[x]
  PROVE  Sum(h, S) = Sum(f, S) + Sum(g, S)
<1> DEFINE n == Cardinality(S)
<1> DEFINE e == Enumeration(S)
<1> DEFINE a == [i \in 1..n |-> f[e[i]]]
<1> DEFINE b == [i \in 1..n |-> g[e[i]]]
<1> DEFINE d == [i \in 1..n |-> h[e[i]]]
<1> DEFINE p == PrefixSums(a, n)
<1> DEFINE q == PrefixSums(b, n)
<1> DEFINE r == PrefixSums(d, n)
<1>1. /\ n \in Nat /\ a \in [1..n -> Int] /\ b \in [1..n -> Int]
      /\ d \in [1..n -> Int]
      /\ \A i \in 1..n : d[i] = a[i] + b[i]
  BY EnumerationType
<1>2. Sum(f, S) = p[n] /\ Sum(g, S) = q[n] /\ Sum(h, S) = r[n]
  BY DEF Sum
<1> HIDE DEF n, e, a, b, d
<1>3. /\ Recurs(p, a, n)
  BY <1>1, PrefixSumsRecurs
<1>4. /\ Recurs(q, b, n)
  BY <1>1, PrefixSumsRecurs
<1>5. /\ Recurs(r, d, n)
  BY <1>1, PrefixSumsRecurs
<1> HIDE DEF p, q, r
<1> DEFINE T == {k \in Nat : k <= n => r[k] = p[k] + q[k]}
<1>6. 0 \in T
  BY <1>3, <1>4, <1>5 DEF Recurs
<1>7. ASSUME NEW k \in T PROVE k+1 \in T
  <2>1. SUFFICES ASSUME k+1 <= n PROVE r[k+1] = p[k+1] + q[k+1]
    OBVIOUS
  <2>2. k \in Nat /\ k \in 0..(n-1) /\ k+1 \in 1..n /\ r[k] = p[k] + q[k]
    BY <2>1, <1>1
  <2> HIDE DEF T
  <2>3. /\ p[k+1] = p[k] + a[k+1] /\ q[k+1] = q[k] + b[k+1]
        /\ r[k+1] = r[k] + d[k+1] /\ d[k+1] = a[k+1] + b[k+1]
    <3>1. p[k+1] = p[k] + a[k+1]  BY <2>2, <1>1, <1>3 DEF Recurs
    <3>2. q[k+1] = q[k] + b[k+1]  BY <2>2, <1>1, <1>4 DEF Recurs
    <3>3. r[k+1] = r[k] + d[k+1]  BY <2>2, <1>1, <1>5 DEF Recurs
    <3>4. d[k+1] = a[k+1] + b[k+1]  BY <2>2, <1>1
    <3> QED  BY <3>1, <3>2, <3>3, <3>4
  <2>4. /\ a[k+1] \in Int /\ b[k+1] \in Int
        /\ p[k] \in Int /\ q[k] \in Int
    BY <2>2, <1>1, <1>3, <1>4 DEF Recurs
  <2> QED  BY <2>2, <2>3, <2>4
<1>8. T = Nat
  <2>1. T \subseteq Nat  OBVIOUS
  <2> HIDE DEF T
  <2> QED  BY <1>6, <1>7, <2>1, SetInduction
<1> QED  BY <1>8, <1>1, <1>2

\* The sum of zeroes is zero.
LEMMA SumZero ==
  ASSUME NEW S, IsFiniteSet(S), NEW f, \A x \in S : f[x] = 0
  PROVE  Sum(f, S) = 0
<1>1. Sum(f, S) \in Int
  BY SumType
<1>2. Sum(f, S) = Sum(f, S) + Sum(f, S)
  <2>1. \A x \in S : f[x] \in Int /\ f[x] = f[x] + f[x]  OBVIOUS
  <2> QED  BY <2>1, SumAdd
<1>3. \A s \in Int : s = s + s => s = 0
  OBVIOUS
<1> QED  BY <1>1, <1>2, <1>3, Zenon

\* No entry of a non-negative family exceeds the sum.
LEMMA SumBoundsEntry ==
  ASSUME NEW S, IsFiniteSet(S), NEW f, NEW c \in S,
         \A x \in S : f[x] \in Nat
  PROVE  f[c] <= Sum(f, S)
<1> DEFINE g == [x \in S |-> IF x = c THEN 0 ELSE f[x]]
<1>1. Sum(g, S) = Sum(f, S) + g[c] - f[c]
  <2>1. \A x \in S : /\ f[x] \in Int /\ g[x] \in Int
                     /\ x # c => g[x] = f[x]
    OBVIOUS
  <2> HIDE DEF g
  <2> QED  BY <2>1, SumUpdate
<1>2. Sum(g, S) \in Int /\ Sum(g, S) >= 0 /\ Sum(f, S) \in Int
  <2>1. \A x \in S : g[x] \in Int /\ g[x] >= 0 /\ f[x] \in Int  OBVIOUS
  <2> HIDE DEF g
  <2> QED  BY <2>1, SumType
<1>3. g[c] = 0 /\ f[c] \in Int  OBVIOUS
<1> HIDE DEF g
<1> QED  BY <1>1, <1>2, <1>3
\* Where no entry exceeds m times another family's, neither does the sum.
LEMMA SumScale ==
  ASSUME NEW S, IsFiniteSet(S), NEW f, NEW g, NEW m \in Nat,
         \A x \in S : f[x] \in Int /\ g[x] \in Int /\ f[x] <= m * g[x]
  PROVE  Sum(f, S) <= m * Sum(g, S)
<1> DEFINE n == Cardinality(S)
<1> DEFINE e == Enumeration(S)
<1> DEFINE a == [i \in 1..n |-> f[e[i]]]
<1> DEFINE b == [i \in 1..n |-> g[e[i]]]
<1> DEFINE p == PrefixSums(a, n)
<1> DEFINE q == PrefixSums(b, n)
<1>1. /\ n \in Nat /\ a \in [1..n -> Int] /\ b \in [1..n -> Int]
      /\ \A i \in 1..n : a[i] <= m * b[i]
  BY EnumerationType
<1>2. Sum(f, S) = p[n] /\ Sum(g, S) = q[n]
  BY DEF Sum
<1> HIDE DEF n, e, a, b
<1>3. /\ Recurs(p, a, n)
  BY <1>1, PrefixSumsRecurs
<1>4. /\ Recurs(q, b, n)
  BY <1>1, PrefixSumsRecurs
<1> HIDE DEF p, q
<1> DEFINE T == {k \in Nat : k <= n => p[k] <= m * q[k]}
<1>5. 0 \in T
  BY <1>3, <1>4 DEF Recurs
<1>6. ASSUME NEW k \in T PROVE k+1 \in T
  <2>1. SUFFICES ASSUME k+1 <= n PROVE p[k+1] <= m * q[k+1]
    OBVIOUS
  <2>2. k \in Nat /\ k \in 0..(n-1) /\ k+1 \in 1..n /\ p[k] <= m * q[k]
    BY <2>1, <1>1
  <2> HIDE DEF T
  <2>3. p[k+1] = p[k] + a[k+1] /\ q[k+1] = q[k] + b[k+1]
    BY <2>2, <1>1, <1>3, <1>4 DEF Recurs
  <2>4. /\ a[k+1] \in Int /\ b[k+1] \in Int /\ a[k+1] <= m * b[k+1]
        /\ p[k] \in Int /\ q[k] \in Int
    BY <2>2, <1>1, <1>3, <1>4 DEF Recurs
  <2>5. \A x, y, u, v \in Int :
          x <= m * u /\ y <= m * v => x + y <= m * (u + v)
    OBVIOUS
  <2> QED  BY <2>2, <2>3, <2>4, <2>5
<1>7. T = Nat
  <2>1. T \subseteq Nat  OBVIOUS
  <2> HIDE DEF T
  <2> QED  BY <1>5, <1>6, <2>1, SetInduction
<1> QED  BY <1>7, <1>1, <1>2

\* Adding one for every member of A counts A.
LEMMA SumCounts ==
  ASSUME NEW S, IsFiniteSet(S), NEW A, A \subseteq S, NEW f,
         \A x \in S : f[x] = IF x \in A THEN 1 ELSE 0
  PROVE  Sum(f, S) = Cardinality(A)
<1> DEFINE n == Cardinality(S)
<1> DEFINE e == Enumeration(S)
<1> DEFINE a == [i \in 1..n |-> f[e[i]]]
<1> DEFINE p == PrefixSums(a, n)
<1> DEFINE V(k) == {e[i] : i \in 1..k} \cap A
<1>1. /\ n \in Nat /\ e \in [1..n -> S]
      /\ \A x \in S : \E i \in 1..n : e[i] = x
      /\ \A i, j \in 1..n : e[i] = e[j] => i = j
  BY EnumerationType
<1>2. Sum(f, S) = p[n]
  BY DEF Sum
<1> HIDE DEF n, e
<1>3. a \in [1..n -> Int] /\ \A i \in 1..n : a[i] = IF e[i] \in A THEN 1 ELSE 0
  BY <1>1
<1> HIDE DEF a
<1>4. Recurs(p, a, n)
  BY <1>1, <1>3, PrefixSumsRecurs
<1> HIDE DEF p
<1> DEFINE T == {k \in Nat : k <= n => /\ IsFiniteSet(V(k))
                                       /\ p[k] = Cardinality(V(k))}
<1>5. 0 \in T
  <2>1. V(0) = {}  OBVIOUS
  <2> QED  BY <2>1, <1>1, <1>4, FS_EmptySet DEF Recurs
<1>6. ASSUME NEW k \in T PROVE k+1 \in T
  <2>1. SUFFICES ASSUME k+1 <= n
                 PROVE  IsFiniteSet(V(k+1)) /\ p[k+1] = Cardinality(V(k+1))
    OBVIOUS
  <2>2. /\ k \in Nat /\ k \in 0..(n-1) /\ k+1 \in 1..n
        /\ IsFiniteSet(V(k)) /\ p[k] = Cardinality(V(k))
    BY <2>1, <1>1
  <2>3. p[k+1] = p[k] + a[k+1]
    BY <2>2, <1>4 DEF Recurs
  <2>4. e[k+1] \notin {e[i] : i \in 1..k}
    BY <1>1, <2>2
  <2>5. 1..(k+1) = 1..k \cup {k+1}
    BY <2>2
  <2>6. Cardinality(V(k)) \in Nat
    BY <2>2, FS_CardinalityType
  <2>7. CASE e[k+1] \in A
    <3>1. V(k+1) = V(k) \cup {e[k+1]}  BY <2>5, <2>7
    <3>2. e[k+1] \notin V(k)  BY <2>4
    <3> HIDE DEF V
    <3>3. IsFiniteSet(V(k+1)) /\ Cardinality(V(k+1)) = Cardinality(V(k)) + 1
      BY <2>2, <3>1, <3>2, FS_AddElement
    <3> QED  BY <1>3, <2>2, <2>3, <2>7, <3>3
  <2>8. CASE e[k+1] \notin A
    <3>1. V(k+1) = V(k)  BY <2>5, <2>8
    <3> HIDE DEF V
    <3> QED  BY <1>3, <2>2, <2>3, <2>6, <2>8, <3>1
  <2> QED  BY <2>7, <2>8
<1>7. T = Nat
  <2>1. T \subseteq Nat  OBVIOUS
  <2> HIDE DEF T
  <2> QED  BY <1>5, <1>6, <2>1, SetInduction
<1>8. V(n) = A
  BY <1>1
<1> HIDE DEF V
<1> QED  BY <1>1, <1>2, <1>7, <1>8

\* A bounded set of naturals that is not empty has a largest member.
LEMMA LargestExists ==
  ASSUME NEW S, S \subseteq Nat, S # {}, NEW m \in Nat, \A x \in S : x <= m
  PROVE  \E x \in S : \A y \in S : y <= x
<1>1. SUFFICES ASSUME \A x \in S : \E y \in S : ~(y <= x) PROVE FALSE
  OBVIOUS
<1> DEFINE T == {k \in Nat : \A x \in S : x + k <= m}
<1>2. 0 \in T
  OBVIOUS
<1>3. ASSUME NEW k \in T PROVE k+1 \in T
  <2> SUFFICES ASSUME NEW x \in S PROVE x + (k+1) <= m
    OBVIOUS
  <2>1. PICK y \in S : ~(y <= x)  BY <1>1
  <2>2. y + k <= m /\ x \in Nat /\ y \in Nat /\ k \in Nat  OBVIOUS
  <2> QED  BY <2>1, <2>2
<1>4. T = Nat
  <2>1. T \subseteq Nat  OBVIOUS
  <2> HIDE DEF T
  <2> QED  BY <1>2, <1>3, <2>1, SetInduction
<1>5. PICK x \in S : TRUE
  OBVIOUS
<1>6. m + 1 \in T
  BY <1>4
<1> QED  BY <1>5, <1>6

\* A list without copies is as long as the set it names is large.
LEMMA LengthIsSize ==
  ASSUME NEW A, NEW s \in Seq(A),
         \A i, j \in 1..Len(s) : s[i] = s[j] => i = j
  PROVE  LET S == {s[i] : i \in 1..Len(s)} IN
         IsFiniteSet(S) /\ Cardinality(S) = Len(s)
<1> DEFINE S == {s[i] : i \in 1..Len(s)}
           f == [i \in 1..Len(s) |-> s[i]]
<1>1. Len(s) \in Nat  OBVIOUS
<1>2. IsFiniteSet(1..Len(s)) /\ Cardinality(1..Len(s)) = Len(s)
  <2>1. Len(s) \in Int /\ 1 \in Int  BY <1>1
  <2>2. /\ IsFiniteSet(1..Len(s))
        /\ Cardinality(1..Len(s)) = IF 1 > Len(s) THEN 0 ELSE Len(s) - 1 + 1
    BY <2>1, FS_Interval
  <2> QED  BY <1>1, <2>2
<1>3. f \in Bijection(1..Len(s), S)
  <2>1. f \in [1..Len(s) -> S]  OBVIOUS
  <2>2. \A i, j \in 1..Len(s) : f[i] = f[j] => i = j  OBVIOUS
  <2>3. \A x \in S : \E i \in 1..Len(s) : f[i] = x  OBVIOUS
  <2> HIDE DEF f, S
  <2> QED  BY <2>1, <2>2, <2>3, Fun_IsBij
<1> HIDE DEF f, S
<1>4. IsFiniteSet(S) /\ Cardinality(S) = Cardinality(1..Len(s))
  <2>1. ExistsBijection(1..Len(s), S)
    BY <1>3 DEF ExistsBijection
  <2> QED  BY <1>2, <2>1, FS_Bijection
<1> QED  BY <1>2, <1>4 DEF S
-----------------------------------------------------------------------------
\* One turn of the loop that leaves the members of gone out, at position n of the list.
Turn(list, gone, s, n) == IF list[n] \in gone THEN s ELSE Append(s, list[n])

\* g holds what the first k turns keep.
Turns(list, gone, g, k) ==
  g[0] = <<>> /\ \A n \in 1..k : g[n] = Turn(list, gone, g[n-1], n)

\* What a turn makes of a sequence.
LEMMA TurnType ==
  ASSUME NEW A, NEW list \in Seq(A), NEW gone, NEW s \in Seq(A),
         NEW n \in 1..Len(list)
  PROVE  Turn(list, gone, s, n) \in Seq(A)
<1>1. list[n] \in A  OBVIOUS
<1> QED  BY <1>1, AppendProperties DEF Turn

\* The loop can be run for any number of turns.
LEMMA TurnsExist ==
  ASSUME NEW A, NEW list \in Seq(A), NEW gone
  PROVE  \E g \in [0..Len(list) -> Seq(A)] : Turns(list, gone, g, Len(list))
<1> DEFINE T == {k \in Nat : k <= Len(list) =>
                               \E g \in [0..k -> Seq(A)] : Turns(list, gone, g, k)}
<1>0. Len(list) \in Nat  OBVIOUS
<1>1. 0 \in T
  <2> DEFINE z == [i \in 0..0 |-> <<>>]
  <2>1. z \in [0..0 -> Seq(A)] /\ z[0] = <<>>  OBVIOUS
  <2>2. Turns(list, gone, z, 0)  BY <2>1 DEF Turns
  <2> QED  BY <2>1, <2>2
<1>2. ASSUME NEW k \in T PROVE k+1 \in T
  <2>0. k \in Nat /\ (k <= Len(list) =>
                        \E g \in [0..k -> Seq(A)] : Turns(list, gone, g, k))
    OBVIOUS
  <2>1. SUFFICES ASSUME k+1 <= Len(list)
                 PROVE  \E g \in [0..(k+1) -> Seq(A)] : Turns(list, gone, g, k+1)
    BY <2>0
  <2>2. PICK h \in [0..k -> Seq(A)] : Turns(list, gone, h, k)
    BY <1>0, <2>0, <2>1
  <2> DEFINE t == Turn(list, gone, h[k], k+1)
  <2> DEFINE g == [i \in 0..(k+1) |-> IF i <= k THEN h[i] ELSE t]
  <2>3. t \in Seq(A)
    <3>1. k+1 \in 1..Len(list) /\ h[k] \in Seq(A)  BY <1>0, <2>0, <2>1, <2>2
    <3> QED  BY <3>1, TurnType
  <2> HIDE DEF t
  <2>4. g \in [0..(k+1) -> Seq(A)]
    BY <2>0, <2>2, <2>3
  <2>5. g[0] = <<>>
    BY <2>0, <2>2 DEF Turns
  <2>6. ASSUME NEW n \in 1..(k+1)
        PROVE  g[n] = Turn(list, gone, g[n-1], n)
    <3>1. CASE n \in 1..k
      <4>1. g[n] = h[n] /\ g[n-1] = h[n-1]  BY <3>1, <2>0
      <4> QED  BY <4>1, <3>1, <2>2 DEF Turns
    <3>2. CASE n = k+1
      <4>1. g[n] = t /\ g[n-1] = h[k]  BY <3>2, <2>0
      <4> QED  BY <4>1, <3>2 DEF t
    <3> QED  BY <3>1, <3>2, <2>0
  <2> HIDE DEF g
  <2> QED  BY <2>4, <2>5, <2>6 DEF Turns
<1>3. Len(list) \in T
  <2>1. T \subseteq Nat  OBVIOUS
  <2> HIDE DEF T
  <2> QED  BY <1>0, <1>1, <1>2, <2>1, SetInduction
<1> QED  BY <1>3

\* Without is the loop run to its end.
LEMMA KeptTurns ==
  ASSUME NEW A, NEW list \in Seq(A), NEW gone
  PROVE  Turns(list, gone, Kept(list, gone), Len(list))
<1> DEFINE b(g, n) == IF n = 0 THEN <<>>
                      ELSE IF list[n] \in gone THEN g[n-1] ELSE Append(g[n-1], list[n])
<1> DEFINE Eq(g) == g = [n \in 0..Len(list) |-> b(g, n)]
<1> DEFINE p == Kept(list, gone)
<1>0. Len(list) \in Nat  OBVIOUS
<1>1. p = CHOOSE g : Eq(g)
  BY DEF Kept
<1>2. PICK g \in [0..Len(list) -> Seq(A)] : Turns(list, gone, g, Len(list))
  BY TurnsExist
<1>3. Eq(g)
  <2>1. ASSUME NEW n \in 0..Len(list) PROVE g[n] = b(g, n)
    <3>1. CASE n = 0
      <4>1. b(g, n) = <<>>  BY <3>1
      <4>2. g[n] = <<>>  BY <3>1, <1>2 DEF Turns
      <4> QED  BY <4>1, <4>2
    <3>2. CASE n # 0
      <4>1. n \in 1..Len(list)  BY <1>0, <3>2
      <4>2. g[n] = Turn(list, gone, g[n-1], n)  BY <4>1, <1>2 DEF Turns
      <4>3. b(g, n) = Turn(list, gone, g[n-1], n)  BY <3>2, Zenon DEF Turn
      <4> QED  BY <4>2, <4>3
    <3> QED  BY <3>1, <3>2
  <2>2. g = [n \in 0..Len(list) |-> g[n]]
    BY <1>2
  <2> HIDE DEF b
  <2>3. [n \in 0..Len(list) |-> g[n]] = [n \in 0..Len(list) |-> b(g, n)]
    BY <2>1
  <2> QED  BY <2>2, <2>3
<1> HIDE DEF p
<1>4. Eq(p)
  <2> HIDE DEF Eq
  <2> QED  BY <1>1, <1>3
<1>5. \A n \in 0..Len(list) : p[n] = b(p, n)
  <2> HIDE DEF b
  <2> QED  BY <1>4
<1>6. p[0] = <<>>
  BY <1>0, <1>5
<1>7. \A n \in 1..Len(list) : p[n] = Turn(list, gone, p[n-1], n)
  BY <1>0, <1>5 DEF Turn
<1> QED  BY <1>6, <1>7 DEF Turns, p

\* What the loop keeps: members of the list, none of them gone, and no
\* more of them than it has seen; fewer when the first one was.
LEMMA WithoutAllProperties ==
  ASSUME NEW A, NEW list \in Seq(A), NEW gone
  PROVE  /\ WithoutAll(list, gone) \in Seq(A)
         /\ Len(WithoutAll(list, gone)) <= Len(list)
         /\ list # <<>> /\ Head(list) \in gone => Len(WithoutAll(list, gone)) < Len(list)
         /\ \A i \in 1..Len(WithoutAll(list, gone)) : WithoutAll(list, gone)[i] \notin gone
<1> DEFINE p == Kept(list, gone)
<1> DEFINE Fine(s, n) ==
      /\ s \in Seq(A) /\ Len(s) <= n
      /\ n > 0 /\ Head(list) \in gone => Len(s) < n
      /\ \A i \in 1..Len(s) : s[i] \notin gone
<1> DEFINE T == {n \in Nat : n <= Len(list) => Fine(p[n], n)}
<1>0. Len(list) \in Nat  OBVIOUS
<1>4. p[0] = <<>> /\ \A n \in 1..Len(list) : p[n] = Turn(list, gone, p[n-1], n)
  BY KeptTurns DEF Turns
<1> HIDE DEF p
<1>5. 0 \in T
  <2>1. p[0] \in Seq(A) /\ Len(p[0]) = 0  BY <1>4
  <2> QED  BY <2>1
<1>6. ASSUME NEW k \in T PROVE k+1 \in T
  <2>0. k \in Nat  OBVIOUS
  <2>1. SUFFICES ASSUME k+1 <= Len(list) PROVE Fine(p[k+1], k+1)
    BY <2>0
  <2>2. Fine(p[k], k)
    BY <1>0, <2>0, <2>1
  <2>3. p[k+1] = Turn(list, gone, p[k], k+1)
    <3>1. k+1 \in 1..Len(list) /\ (k+1)-1 = k  BY <1>0, <2>0, <2>1
    <3> QED  BY <3>1, <1>4
  <2>4. k+1 \in 1..Len(list) /\ list[k+1] \in A
    BY <1>0, <2>0, <2>1
  <2>5. CASE list[k+1] \in gone
    <3>1. p[k+1] = p[k]  BY <2>3, <2>5 DEF Turn
    <3>2. Head(list) \in gone /\ k > 0 => Len(p[k]) < k  BY <2>2
    <3>3. Len(p[k]) \in Nat  BY <2>2
    <3> QED  BY <2>0, <2>2, <3>1, <3>2, <3>3
  <2>6. CASE list[k+1] \notin gone
    <3> DEFINE s == p[k]
    <3>1. p[k+1] = Append(s, list[k+1])  BY <2>3, <2>6 DEF Turn
    <3>2. s \in Seq(A) /\ Len(s) \in Nat  BY <2>2
    <3>3. /\ Append(s, list[k+1]) \in Seq(A)
          /\ Len(Append(s, list[k+1])) = Len(s) + 1
          /\ \A i \in 1..Len(s) : Append(s, list[k+1])[i] = s[i]
          /\ Append(s, list[k+1])[Len(s) + 1] = list[k+1]
      BY <2>4, <3>2, AppendProperties
    <3>4. Head(list) \in gone => k > 0
      <4>1. list # <<>> => Head(list) = list[1]  OBVIOUS
      <4>2. list # <<>>  BY <2>4
      <4> QED  BY <4>1, <4>2, <2>0, <2>6
    <3>5. \A i \in 1..(Len(s) + 1) : p[k+1][i] \notin gone
      BY <2>2, <2>6, <3>1, <3>2, <3>3
    <3>6. Len(s) <= k /\ (Head(list) \in gone /\ k > 0 => Len(s) < k)
      BY <2>2
    <3> HIDE DEF s
    <3> QED  BY <2>0, <3>1, <3>2, <3>3, <3>4, <3>5, <3>6
  <2> QED  BY <2>5, <2>6
<1>7. T = Nat
  <2>1. T \subseteq Nat  OBVIOUS
  <2> HIDE DEF T
  <2> QED  BY <1>5, <1>6, <2>1, SetInduction
<1>8. Fine(p[Len(list)], Len(list))
  BY <1>0, <1>7
<1>9. WithoutAll(list, gone) = p[Len(list)]
  BY DEF WithoutAll, p
<1>10. list # <<>> => Len(list) > 0
  OBVIOUS
<1> QED  BY <1>8, <1>9, <1>10

\* A list without copies stays one, and loses what is gone and
\* nothing else.
LEMMA WithoutAllExact ==
  ASSUME NEW A, NEW list \in Seq(A), NEW gone,
         \A i, j \in 1..Len(list) : list[i] = list[j] => i = j
  PROVE  LET w == WithoutAll(list, gone) IN
         /\ {w[i] : i \in 1..Len(w)} = {list[i] : i \in 1..Len(list)} \ gone
         /\ \A i, j \in 1..Len(w) : w[i] = w[j] => i = j
<1> DEFINE p == Kept(list, gone)
<1> DEFINE Exact(s, n) ==
      /\ s \in Seq(A)
      /\ \A i \in 1..Len(s) : s[i] \notin gone /\ \E m \in 1..n : s[i] = list[m]
      /\ \A m \in 1..n : list[m] \notin gone => \E i \in 1..Len(s) : s[i] = list[m]
      /\ \A i, j \in 1..Len(s) : s[i] = s[j] => i = j
<1> DEFINE T == {n \in Nat : n <= Len(list) => Exact(p[n], n)}
<1>0. Len(list) \in Nat  OBVIOUS
<1>1. p[0] = <<>> /\ \A n \in 1..Len(list) : p[n] = Turn(list, gone, p[n-1], n)
  BY KeptTurns DEF Turns
<1> HIDE DEF p
<1>2. 0 \in T
  <2>1. p[0] \in Seq(A) /\ Len(p[0]) = 0  BY <1>1
  <2> QED  BY <2>1
<1>3. ASSUME NEW k \in T PROVE k+1 \in T
  <2>0. k \in Nat  OBVIOUS
  <2>1. SUFFICES ASSUME k+1 <= Len(list) PROVE Exact(p[k+1], k+1)
    BY <2>0
  <2>2. Exact(p[k], k)
    BY <1>0, <2>0, <2>1
  <2>3. k+1 \in 1..Len(list) /\ (k+1)-1 = k /\ list[k+1] \in A
    BY <1>0, <2>0, <2>1
  <2>4. p[k+1] = Turn(list, gone, p[k], k+1)
    BY <1>1, <2>3
  <2>5. \A m \in 1..(k+1) : m \in 1..k \/ m = k+1
    BY <2>0
  <2>6. 1..k \subseteq 1..(k+1) /\ 1..k \subseteq 1..Len(list) /\ k+1 \notin 1..k
    BY <1>0, <2>0, <2>1
  <2>7. CASE list[k+1] \in gone
    <3>1. p[k+1] = p[k]  BY <2>4, <2>7 DEF Turn
    <3> QED  BY <2>2, <2>5, <2>6, <2>7, <3>1
  <2>8. CASE list[k+1] \notin gone
    <3> DEFINE s == p[k]  t == p[k+1]
    <3>1. t = Append(s, list[k+1])  BY <2>4, <2>8 DEF Turn
    <3>2. s \in Seq(A) /\ Len(s) \in Nat  BY <2>2
    <3>3. /\ t \in Seq(A) /\ Len(t) = Len(s) + 1
          /\ \A i \in 1..Len(s) : t[i] = s[i]
          /\ t[Len(s) + 1] = list[k+1]
      BY <2>3, <3>1, <3>2, AppendProperties
    <3>4. \A i \in 1..Len(t) : i \in 1..Len(s) \/ i = Len(s) + 1
      BY <3>2, <3>3
    <3>5. 1..Len(s) \subseteq 1..Len(t) /\ Len(s) + 1 \in 1..Len(t)
      BY <3>2, <3>3
    <3>6. \A i \in 1..Len(s) : s[i] # list[k+1]
      <4> SUFFICES ASSUME NEW i \in 1..Len(s), s[i] = list[k+1] PROVE FALSE
        OBVIOUS
      <4>1. PICK m \in 1..k : s[i] = list[m]  BY <2>2
      <4> QED  BY <2>3, <2>6, <4>1
    <3>7. \A i \in 1..Len(t) : t[i] \notin gone /\ \E m \in 1..(k+1) : t[i] = list[m]
      <4> SUFFICES ASSUME NEW i \in 1..Len(t)
                   PROVE  t[i] \notin gone /\ \E m \in 1..(k+1) : t[i] = list[m]
        OBVIOUS
      <4>1. CASE i \in 1..Len(s)
        <5>1. t[i] = s[i]  BY <3>3, <4>1
        <5>2. PICK m \in 1..k : s[i] = list[m]  BY <2>2, <4>1
        <5>3. s[i] \notin gone /\ m \in 1..(k+1)  BY <2>2, <2>6, <4>1
        <5> QED  BY <5>1, <5>2, <5>3
      <4>2. CASE i = Len(s) + 1
        <5>1. k+1 \in 1..(k+1)  BY <2>0
        <5> QED  BY <2>8, <3>3, <4>2, <5>1
      <4> QED  BY <3>4, <4>1, <4>2
    <3>8. \A m \in 1..(k+1) : list[m] \notin gone => \E i \in 1..Len(t) : t[i] = list[m]
      <4> SUFFICES ASSUME NEW m \in 1..(k+1), list[m] \notin gone
                   PROVE  \E i \in 1..Len(t) : t[i] = list[m]
        OBVIOUS
      <4>1. CASE m \in 1..k
        <5>1. PICK i \in 1..Len(s) : s[i] = list[m]  BY <2>2, <4>1
        <5>2. t[i] = list[m] /\ i \in 1..Len(t)  BY <3>3, <3>5, <5>1
        <5> QED  BY <5>2
      <4>2. CASE m = k+1
        BY <3>3, <3>5, <4>2
      <4> QED  BY <2>5, <4>1, <4>2
    <3>9. \A i, j \in 1..Len(t) : t[i] = t[j] => i = j
      BY <2>2, <3>3, <3>4, <3>6, SMTT(30)
    <3> QED  BY <3>3, <3>7, <3>8, <3>9
  <2> QED  BY <2>7, <2>8
<1>4. T = Nat
  <2>1. T \subseteq Nat  OBVIOUS
  <2> HIDE DEF T
  <2> QED  BY <1>2, <1>3, <2>1, SetInduction
<1>5. Exact(p[Len(list)], Len(list))
  BY <1>0, <1>4
<1>6. WithoutAll(list, gone) = p[Len(list)]
  BY DEF WithoutAll, p
<1> DEFINE w == p[Len(list)]
<1>7. Exact(w, Len(list))
  BY <1>5
<1> HIDE DEF w
<1>8. {w[i] : i \in 1..Len(w)} = {list[i] : i \in 1..Len(list)} \ gone
  <2>1. \A i \in 1..Len(w) : w[i] \in {list[m] : m \in 1..Len(list)} \ gone
    BY <1>7
  <2>2. \A m \in 1..Len(list) :
          list[m] \notin gone => list[m] \in {w[i] : i \in 1..Len(w)}
    BY <1>7
  <2> QED  BY <2>1, <2>2
<1> QED  BY <1>6, <1>7, <1>8 DEF w

\* The same of the loop that leaves one value out.
LEMMA WithoutProperties ==
  ASSUME NEW A, NEW list \in Seq(A), NEW a
  PROVE  /\ Without(list, a) \in Seq(A)
         /\ Len(Without(list, a)) <= Len(list)
         /\ list # <<>> /\ Head(list) = a => Len(Without(list, a)) < Len(list)
         /\ \A i \in 1..Len(Without(list, a)) : Without(list, a)[i] # a
BY WithoutAllProperties DEF Without

LEMMA WithoutExact ==
  ASSUME NEW A, NEW list \in Seq(A), NEW a,
         \A i, j \in 1..Len(list) : list[i] = list[j] => i = j
  PROVE  LET w == Without(list, a) IN
         /\ {w[i] : i \in 1..Len(w)} = {list[i] : i \in 1..Len(list)} \ {a}
         /\ \A i, j \in 1..Len(w) : w[i] = w[j] => i = j
BY WithoutAllExact, Zenon DEF Without
-----------------------------------------------------------------------------
\* A loop that looks for a position finds the first there is.
LEMMA FirstExists ==
  ASSUME NEW I \in SUBSET Nat, I # {}
  PROVE  First(I) \in I /\ \A j \in I : First(I) <= j
<1>1. \E i \in I : \A j \in I : i <= j
  <2> SUFFICES ASSUME \A i \in I : \E j \in I : j < i PROVE FALSE
    OBVIOUS
  <2> DEFINE T == {k \in Nat : \A j \in I : j > k}
  <2>1. 0 \in T
    <3> SUFFICES ASSUME NEW j \in I, ~(j > 0) PROVE FALSE
      OBVIOUS
    <3> QED  OBVIOUS
  <2>2. \A k \in T : k + 1 \in T
    <3> SUFFICES ASSUME NEW k \in T, NEW j \in I, ~(j > k + 1) PROVE FALSE
      OBVIOUS
    <3>1. PICK m \in I : m < j
      OBVIOUS
    <3>2. m > k /\ j > k
      OBVIOUS
    <3> QED  BY <3>1, <3>2
  <2>3. T = Nat
    <3>1. T \subseteq Nat  OBVIOUS
    <3> HIDE DEF T
    <3> QED  BY <2>1, <2>2, <3>1, SetInduction
  <2>4. PICK i \in I : TRUE
    OBVIOUS
  <2> QED  BY <2>3, <2>4
<1> QED  BY <1>1 DEF First

\* The positions at which a list holds something are finitely many, no more
\* than the list is long.
LEMMA HitsType ==
  ASSUME NEW A, NEW list \in Seq(A), NEW P
  PROVE  /\ IsFiniteSet(Hits(list, P))
         /\ Cardinality(Hits(list, P)) \in Nat
         /\ Cardinality(Hits(list, P)) <= Len(list)
<1>1. Len(list) \in Nat /\ Hits(list, P) \subseteq 1..Len(list)
  BY DEF Hits
<1>2. IsFiniteSet(1..Len(list)) /\ Cardinality(1..Len(list)) = Len(list)
  <2>1. /\ IsFiniteSet(1..Len(list))
        /\ Cardinality(1..Len(list)) = IF 1 > Len(list) THEN 0 ELSE Len(list) - 1 + 1
    <3>1. 1 \in Int /\ Len(list) \in Int  BY <1>1
    <3> QED  BY <3>1, FS_Interval
  <2> QED  BY <1>1, <2>1
<1>3. /\ IsFiniteSet(Hits(list, P))
      /\ Cardinality(Hits(list, P)) <= Cardinality(1..Len(list))
  BY <1>1, <1>2, FS_Subset
<1> QED  BY <1>2, <1>3, FS_CardinalityType

\* A value appended is one hit more or none.
LEMMA HitsAppend ==
  ASSUME NEW A, NEW list \in Seq(A), NEW x \in A, NEW P
  PROVE  /\ Hits(Append(list, x), P) =
              Hits(list, P) \cup (IF x \in P THEN {Len(list) + 1} ELSE {})
         /\ Cardinality(Hits(Append(list, x), P)) =
              Cardinality(Hits(list, P)) + (IF x \in P THEN 1 ELSE 0)
<1> DEFINE more == Append(list, x)
           n == Len(list)
<1>1. /\ n \in Nat /\ DOMAIN list = 1..n
      /\ DOMAIN more = 1..(n+1)
      /\ \A i \in 1..n : more[i] = list[i]
      /\ more[n+1] = x
  BY AppendProperties
<1>2. 1..(n+1) = 1..n \cup {n+1} /\ n+1 \notin 1..n
  BY <1>1
<1> HIDE DEF more, n
<1>3. CASE x \in P
  <2>1. Hits(more, P) = Hits(list, P) \cup {n+1}
    BY <1>1, <1>2, <1>3 DEF Hits
  <2>2. n+1 \notin Hits(list, P)
    BY <1>1, <1>2 DEF Hits
  <2>3. Cardinality(Hits(more, P)) = Cardinality(Hits(list, P)) + 1
    BY <2>1, <2>2, HitsType, FS_AddElement
  <2> QED  BY <1>3, <2>1, <2>3 DEF more, n
<1>4. CASE x \notin P
  <2>1. Hits(more, P) = Hits(list, P)
    BY <1>1, <1>2, <1>4 DEF Hits
  <2>2. Cardinality(Hits(list, P)) \in Nat
    BY HitsType
  <2> QED  BY <1>4, <2>1, <2>2 DEF more, n
<1> QED  BY <1>3, <1>4

\* Hits of a smaller set are no more; those of two sets no more than together.
LEMMA HitsCover ==
  ASSUME NEW A, NEW list \in Seq(A), NEW P, NEW Q, NEW R,
         \A i \in DOMAIN list : list[i] \in P => list[i] \in Q \/ list[i] \in R
  PROVE  Cardinality(Hits(list, P)) <=
           Cardinality(Hits(list, Q)) + Cardinality(Hits(list, R))
<1> DEFINE p == Hits(list, P)  q == Hits(list, Q)  r == Hits(list, R)
<1>1. p \subseteq q \cup r
  BY DEF Hits
<1>2. IsFiniteSet(p) /\ IsFiniteSet(q) /\ IsFiniteSet(r)
  BY HitsType
<1> HIDE DEF p, q, r
<1>3. /\ IsFiniteSet(q \cup r) /\ IsFiniteSet(q \cap r)
      /\ Cardinality(q \cup r) = Cardinality(q) + Cardinality(r) - Cardinality(q \cap r)
  <2>1. IsFiniteSet(q \cap r)
    <3>1. q \cap r \subseteq q  OBVIOUS
    <3> QED  BY <1>2, <3>1, FS_Subset
  <2> QED  BY <1>2, <2>1, FS_Union
<1>4. Cardinality(p) <= Cardinality(q \cup r)
  BY <1>1, <1>3, FS_Subset
<1>5. /\ Cardinality(p) \in Nat /\ Cardinality(q) \in Nat /\ Cardinality(r) \in Nat
      /\ Cardinality(q \cap r) \in Nat /\ Cardinality(q \cup r) \in Nat
  BY <1>2, <1>3, FS_CardinalityType
<1> QED  BY <1>3, <1>4, <1>5 DEF p, q, r

LEMMA HitsMonotone ==
  ASSUME NEW A, NEW list \in Seq(A), NEW P, NEW Q,
         \A i \in DOMAIN list : list[i] \in P => list[i] \in Q
  PROVE  Cardinality(Hits(list, P)) <= Cardinality(Hits(list, Q))
<1>1. Hits(list, P) \subseteq Hits(list, Q)
  BY DEF Hits
<1> QED  BY <1>1, HitsType, FS_Subset

\* No hits count nothing.
LEMMA HitsNone ==
  ASSUME NEW list, NEW P, \A i \in DOMAIN list : list[i] \notin P
  PROVE  Cardinality(Hits(list, P)) = 0
<1>1. Hits(list, P) = {}
  BY DEF Hits
<1> QED  BY <1>1, FS_EmptySet

\* A list of members of a set is one of members of a larger set.
LEMMA SeqGrows ==
  ASSUME NEW S, NEW T, S \subseteq T, NEW list \in Seq(S)
  PROVE  list \in Seq(T)
<1>1. Len(list) \in Nat /\ list \in [1..Len(list) -> S]
  OBVIOUS
<1>2. list \in [1..Len(list) -> T]
  BY <1>1
<1> QED  BY <1>1, <1>2, SeqDef

\* The positions of a list that satisfy something are as many as a number can
\* tell.
LEMMA PositionsCounted ==
  ASSUME NEW n \in Nat, NEW S \in SUBSET (1..n)
  PROVE  /\ IsFiniteSet(S) /\ Cardinality(S) \in Nat /\ Cardinality(S) <= n
         /\ Cardinality(S) = 0 <=> S = {}
         /\ Cardinality(S) = n <=> S = 1..n
<1>1. IsFiniteSet(1..n) /\ Cardinality(1..n) = n
  BY FS_Interval
<1>2. IsFiniteSet(S) /\ Cardinality(S) <= n /\ (Cardinality(S) = n => S = 1..n)
  BY <1>1, FS_Subset
<1>3. Cardinality(S) \in Nat /\ (Cardinality(S) = 0 <=> S = {})
  BY <1>2, FS_CardinalityType, FS_EmptySet
<1> QED  BY <1>1, <1>2, <1>3

\* What holds at 0 and goes on holding, one step at a time, holds up to n.
LEMMA RangeInduction ==
  ASSUME NEW n \in Nat, NEW T, 0 \in T, \A i \in 1..n : i - 1 \in T => i \in T
  PROVE  \A i \in 0..n : i \in T
<1> DEFINE U == {k \in Nat : k <= n => k \in T}
<1>1. 0 \in U
  OBVIOUS
<1>2. ASSUME NEW k \in U PROVE k + 1 \in U
  <2> SUFFICES ASSUME k + 1 <= n PROVE k + 1 \in T
    OBVIOUS
  <2>1. k + 1 \in 1..n /\ (k + 1) - 1 = k /\ k \in T
    OBVIOUS
  <2> QED  BY <2>1
<1>3. U = Nat
  <2>1. U \subseteq Nat
    OBVIOUS
  <2> HIDE DEF U
  <2> QED  BY <1>1, <1>2, <2>1, SetInduction
<1> QED  BY <1>3

\* A loop of n turns, each of which maps one value to the next, runs.
Looping(n, V, x, turn) == n \in Nat /\ x \in V /\ turn \in [V \X (1..n) -> V]
RunOf(g, n, x, turn) == g[0] = x /\ \A i \in 1..n : g[i] = turn[<<g[i-1], i>>]

LEMMA LoopRuns ==
  ASSUME NEW n, NEW V, NEW x, NEW turn, Looping(n, V, x, turn)
  PROVE  \E g \in [0..n -> V] : RunOf(g, n, x, turn)
<1>0. n \in Nat /\ x \in V /\ turn \in [V \X (1..n) -> V]
  BY DEF Looping
<1> DEFINE Runs(g, k) == g[0] = x /\ \A i \in 1..k : g[i] = turn[<<g[i-1], i>>]
           T == {k \in 0..n : \E g \in [0..k -> V] : Runs(g, k)}
<1>1. 0 \in T
  <2> DEFINE z == [i \in 0..0 |-> x]
  <2>1. z \in [0..0 -> V] /\ Runs(z, 0)
    BY <1>0
  <2> HIDE DEF z, Runs
  <2> QED  BY <1>0, <2>1
<1>2. ASSUME NEW k \in 1..n, k - 1 \in T PROVE k \in T
  <2>1. PICK h \in [0..(k-1) -> V] : Runs(h, k - 1)
    BY <1>2
  <2> DEFINE w == turn[<<h[k-1], k>>]
             g == [i \in 0..k |-> IF i = k THEN w ELSE h[i]]
  <2>2. k - 1 \in 0..(k-1) /\ h[k-1] \in V
    BY <1>0
  <2>3. w \in V
    BY <1>0, <2>2
  <2> HIDE DEF w
  <2>4. g \in [0..k -> V]
    BY <2>3
  <2>5. g[k] = w /\ \A i \in 0..(k-1) : g[i] = h[i]
    OBVIOUS
  <2> HIDE DEF g
  <2>6. g[0] = x
    BY <2>1, <2>5
  <2>7. ASSUME NEW i \in 1..k PROVE g[i] = turn[<<g[i-1], i>>]
    <3>1. CASE i = k
      BY <2>2, <2>5, <3>1 DEF w
    <3>2. CASE i \in 1..(k-1)
      <4>1. i - 1 \in 0..(k-1) /\ i \in 0..(k-1)
        BY <3>2
      <4>2. g[i] = h[i] /\ g[i-1] = h[i-1]
        BY <2>5, <4>1
      <4>3. h[i] = turn[<<h[i-1], i>>]
        BY <2>1, <3>2
      <4> QED  BY <4>2, <4>3
    <3> QED  BY <3>1, <3>2
  <2>8. Runs(g, k)
    BY <2>6, <2>7
  <2> HIDE DEF Runs
  <2>9. \E f \in [0..k -> V] : Runs(f, k)
    BY <2>4, <2>8
  <2>10. k \in 0..n
    OBVIOUS
  <2> QED  BY <2>9, <2>10
<1>3. \A k \in 0..n : k \in T
  <2> HIDE DEF T
  <2> QED  BY <1>0, <1>1, <1>2, RangeInduction
<1>4. PICK g \in [0..n -> V] : Runs(g, n)
  BY <1>0, <1>3
<1> QED  BY <1>4, Zenon DEF RunOf

LEMMA RunExists ==
  ASSUME NEW n \in Nat, NEW x \in Nat, NEW turn \in [Nat \X (1..n) -> Nat]
  PROVE  \E g \in [0..n -> Nat] :
            g[0] = x /\ \A i \in 1..n : g[i] = turn[<<g[i-1], i>>]
<1>1. Looping(n, Nat, x, turn)
  BY DEF Looping
<1>2. PICK g \in [0..n -> Nat] : RunOf(g, n, x, turn)
  BY <1>1, LoopRuns
<1> QED  BY <1>2, Zenon DEF RunOf

\* Going through a list that names everyone with an entry, and nobody twice,
\* adds up all entries.
LEMMA SumOverList ==
  ASSUME NEW S, IsFiniteSet(S), NEW f, \A x \in S : f[x] \in Int,
         NEW list \in Seq(S),
         \A i, j \in 1..Len(list) : list[i] = list[j] => i = j,
         \A x \in S : f[x] # 0 => \E i \in 1..Len(list) : list[i] = x
  PROVE  PrefixSums([i \in 1..Len(list) |-> f[list[i]]], Len(list))[Len(list)] = Sum(f, S)
<1> DEFINE n == Len(list)
           a == [i \in 1..n |-> f[list[i]]]
           p == PrefixSums(a, n)
           Named(k) == {list[i] : i \in 1..k}
           g(k) == [x \in S |-> IF x \in Named(k) THEN f[x] ELSE 0]
           T == {k \in 0..n : p[k] = Sum(g(k), S)}
<1>1. n \in Nat /\ \A i \in 1..n : list[i] \in S
  OBVIOUS
<1>2. a \in [1..n -> Int]
  BY <1>1
<1>3. p[0] = 0 /\ \A i \in 1..n : p[i] = p[i-1] + a[i]
  <2> HIDE DEF a, n
  <2> QED  BY <1>1, <1>2, PrefixSumsStep
<1>4. \A i \in 1..n : a[i] = f[list[i]]
  OBVIOUS
<1> HIDE DEF p, a
<1>5. 0 \in T
  <2>1. Named(0) = {}
    OBVIOUS
  <2>2. \A x \in S : g(0)[x] = 0
    BY <2>1
  <2> HIDE DEF g
  <2>3. Sum(g(0), S) = 0
    BY <2>2, SumZero
  <2> QED  BY <1>1, <1>3, <2>3
<1>6. ASSUME NEW k \in 1..n, k - 1 \in T PROVE k \in T
  <2> DEFINE c == list[k]
             before == g(k-1)
             after == g(k)
  <2>1. k - 1 \in 0..n /\ p[k-1] = Sum(before, S)
    BY <1>6
  <2>2. c \in S
    BY <1>1
  <2>3. c \notin Named(k-1)
    <3> SUFFICES ASSUME NEW i \in 1..(k-1), list[i] = c PROVE FALSE
      OBVIOUS
    <3>1. i \in 1..n /\ i # k
      BY <1>1
    <3> QED  BY <3>1
  <2>4. Named(k) = Named(k-1) \cup {c}
    <3>1. 1..k = (1..(k-1)) \cup {k}
      OBVIOUS
    <3> QED  BY <3>1
  <2>5. after[c] = f[c] /\ before[c] = 0
    BY <2>2, <2>3, <2>4
  <2>6. \A x \in S \ {c} : after[x] = before[x]
    BY <2>4
  <2>7. \A x \in S : before[x] \in Int
    OBVIOUS
  <2>8. \A x \in S : after[x] \in Int
    OBVIOUS
  <2> HIDE DEF before, after, Named, g, c
  <2>9. Sum(after, S) = Sum(before, S) + after[c] - before[c]
    <3>1. IsFiniteSet(S)
      OBVIOUS
    <3> QED  BY ONLY <3>1, <2>2, <2>6, <2>7, <2>8, SumUpdate
  <2>10. Sum(before, S) \in Int /\ f[c] \in Int
    BY <2>2, <2>7, SumType
  <2>11. p[k] = Sum(after, S)
    BY <1>3, <1>4, <2>1, <2>5, <2>9, <2>10 DEF c
  <2>12. k \in 0..n
    BY <1>1
  <2> QED  BY <2>11, <2>12 DEF after
<1>7. n \in T
  <2>1. \A k \in 0..n : k \in T
    <3> HIDE DEF T, n
    <3> QED  BY <1>1, <1>5, <1>6, RangeInduction
  <2> HIDE DEF T
  <2> QED  BY <1>1, <2>1
<1>8. \A x \in S : g(n)[x] = f[x]
  <2> SUFFICES ASSUME NEW x \in S PROVE g(n)[x] = f[x]
    OBVIOUS
  <2>1. CASE x \in Named(n)
    BY <2>1
  <2>2. CASE x \notin Named(n)
    <3>1. f[x] = 0
      BY <2>2
    <3> QED  BY <2>2, <3>1
  <2> QED  BY <2>1, <2>2
<1> HIDE DEF g
<1>9. Sum(g(n), S) = Sum(f, S)
  BY <1>8, SumEqual
<1> QED  BY <1>7, <1>9 DEF p, a
=============================================================================
