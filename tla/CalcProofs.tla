----------------------------- MODULE CalcProofs -----------------------------
(***************************************************************************)
(* What the pure functions of Calculations return, for any amounts, lists, *)
(* numbers and limits.  A recursive function is defined by its recursion   *)
(* only where one exists; DescentExists supplies it, and LoopRuns where    *)
(* the recursion is a loop over a list.                                    *)
(***************************************************************************)
EXTENDS Calculations, LoopProofs

-----------------------------------------------------------------------------
(* Quotients.                                                              *)

\* A quotient is rounded down.
LEMMA QuotientBounds ==
  ASSUME NEW a \in Nat, NEW b \in Nat, b > 0
  PROVE  a \div b \in Nat /\ b * (a \div b) <= a /\ a < b * (a \div b) + b
OBVIOUS

\* It reaches m exactly when the number is m times the divisor.
LEMMA QuotientReaches ==
  ASSUME NEW a \in Nat, NEW b \in Nat, b > 0, NEW m \in Nat
  PROVE  a \div b \in Nat /\ (a \div b >= m <=> a >= m * b)
<1>1. a \div b \in Nat /\ b * (a \div b) <= a /\ a < b * (a \div b) + b
  BY QuotientBounds
<1> DEFINE q == a \div b
<1> HIDE DEF q
<1>2. q \in Nat /\ b * q <= a /\ a < b * q + b
  BY <1>1 DEF q
<1>3. ASSUME q >= m PROVE a >= m * b
  <2>1. b * q >= b * m  BY <1>2, <1>3
  <2> QED  BY <1>2, <2>1
<1>4. ASSUME ~(q >= m) PROVE ~(a >= m * b)
  <2>1. q + 1 <= m  BY <1>2, <1>4
  <2>2. b * (q + 1) <= b * m  BY <1>2, <2>1
  <2>3. b * (q + 1) = b * q + b  BY <1>2
  <2> QED  BY <1>2, <2>2, <2>3
<1> QED  BY <1>2, <1>3, <1>4 DEF q
-----------------------------------------------------------------------------
(* The operands and the limits.                                            *)

\* The operands are naturals and lists of amounts.
LEMMA OperandsRead ==
  ASSUME CalculationsTypeOK
  PROVE  /\ X \in Nat /\ Y \in Nat /\ Z \in Nat /\ operands.n = <<X, Y, Z>>
         /\ Left \in Seq(Operands) /\ Right \in Seq(Operands) /\ Operands \subseteq Int
<1>1. /\ operands.n \in [1..3 -> Naturals3 \cup {0}]
      /\ Left \in Lists /\ Right \in Lists
  BY DEF CalculationsTypeOK, Left, Right
<1>2. Naturals3 \cup {0} \subseteq Nat /\ Operands \subseteq Int /\ MaxOperands \in Nat
  BY CalculationsAssumption
<1>3. \A list \in Lists : list \in Seq(Operands)
  <2> SUFFICES ASSUME NEW m \in 0..MaxOperands, NEW list \in [1..m -> Operands]
               PROVE  list \in Seq(Operands)
    BY DEF Lists
  <2> QED  BY <1>2
<1>4. X \in Nat /\ Y \in Nat /\ Z \in Nat
  BY <1>1, <1>2 DEF X, Y, Z
<1>5. operands.n = <<X, Y, Z>>
  BY <1>1 DEF X, Y, Z
<1> QED  BY <1>1, <1>2, <1>3, <1>4, <1>5

\* The limits are naturals above zero.
LEMMA SizesRead ==
  /\ MaxItems \in Nat /\ MaxItems > 0 /\ MaxSlice \in Nat /\ MaxSlice > 0
  /\ MaxTiers \in Nat /\ MaxTiers > 0 /\ MaxBatchSize \in Nat /\ MaxBatchSize > 0
  /\ FullScale \in Nat /\ FullScale > 0 /\ IntMax \in Nat /\ IntMax > 0
  /\ PageMax \in Nat /\ PageMax > 0 /\ MaxEvents \in Nat /\ MaxEvents > 0
  /\ HalfKey \in Nat /\ HalfKey > 0 /\ YearLength \in Nat /\ YearLength > 0
  /\ MaxOperations \in Nat /\ MaxOperations > 0
  /\ MaxSlice >= 2
BY CalculationsAssumption

\* The smaller and the larger of two numbers.
LEMMA LesserIs ==
  ASSUME NEW x \in Int, NEW y \in Int
  PROVE  Min({x, y}) = IF x <= y THEN x ELSE y
<1>1. Min({x, y}) \in {x, y} /\ \A z \in {x, y} : Min({x, y}) <= z
  BY DEF Min
<1> QED  BY <1>1

LEMMA GreaterIs ==
  ASSUME NEW x \in Int, NEW y \in Int
  PROVE  Max({x, y}) = IF x >= y THEN x ELSE y
<1>1. Max({x, y}) \in {x, y} /\ \A z \in {x, y} : Max({x, y}) >= z
  BY DEF Max
<1> QED  BY <1>1
-----------------------------------------------------------------------------
(* Versions and advisories.                                                *)

\* A minor bump, the order of versions and the window of a page.
LEMMA VersionsHold == CalculationsTypeOK => VersionsOrdered
<1> SUFFICES ASSUME CalculationsTypeOK PROVE VersionsOrdered
  OBVIOUS
<1> DEFINE v == operands.n
           w == <<Y, X, Z>>
<1>1. X \in Nat /\ Y \in Nat /\ Z \in Nat /\ v = <<X, Y, Z>> /\ PageMax \in Nat \ {0}
  BY OperandsRead, SizesRead
<1>2. /\ v[1] = X /\ v[2] = Y /\ v[3] = Z
      /\ w[1] = Y /\ w[2] = X /\ w[3] = Z
  BY <1>1
<1>3. Older(v, w) <=> X < Y
  BY <1>1, <1>2 DEF Older
<1>4. Older(w, v) <=> Y < X
  BY <1>1, <1>2 DEF Older
<1>5. v = w <=> X = Y
  BY <1>1
<1>6. v # <<>> /\ w # <<>>
  BY <1>1
<1>7. ClampPageSize(Y) \in 1..PageMax
  BY <1>1 DEF ClampPageSize, Between
<1>8. IsMinorBump(v, w) => AssessCompatibility(v, w) = "Compatible" /\ Older(v, w)
  BY <1>1, <1>2, <1>6 DEF IsMinorBump, AssessCompatibility, Older
<1>9. PaginationWindow(X, Y).limit \in 1..PageMax
  BY <1>7 DEF PaginationWindow
<1>10. /\ Older(v, w) \/ Older(w, v) \/ v = w
       /\ ~(Older(v, w) /\ NotNewer(w, v))
  BY <1>1, <1>3, <1>4, <1>5 DEF NotNewer
<1> HIDE DEF v, w
<1> QED  BY <1>8, <1>9, <1>10 DEF VersionsOrdered, v, w

\* The ranges of the advisories do not overlap, so each scan finds at most one.
LEMMA ScansHold == CalculationsTypeOK => ScansAgree
<1> SUFFICES ASSUME CalculationsTypeOK PROVE ScansAgree
  OBVIOUS
<1> DEFINE v == operands.n
           one == Advisories[1]
           two == Advisories[2]
           gone == {a \in Range(Advisories) : ~Affects(a, v)}
           p == Kept(Advisories, gone)
           T == Range(Advisories)
<1>1. X \in Nat /\ Y \in Nat /\ Z \in Nat /\ v[1] = X /\ v[2] = Y /\ v[3] = Z
  BY OperandsRead
<1>2. /\ one = [id |-> "RUSTSEC-2024-0001", from |-> <<0, 1, 0>>, fixed |-> <<20, 0, 0>>, severity |-> 3]
      /\ two = [id |-> "RUSTSEC-2024-0002", from |-> <<20, 0, 0>>, fixed |-> <<21, 0, 0>>, severity |-> 2]
      /\ Advisories = <<one, two>>
  BY DEF Advisories
<1>3. Len(Advisories) = 2 /\ T = {one, two} /\ Advisories \in Seq(T)
  <2> HIDE DEF one, two
  <2>1. Len(<<one, two>>) = 2 /\ DOMAIN <<one, two>> = 1..2
    OBVIOUS
  <2>2. T = {one, two}
    BY <1>2, <2>1 DEF Range
  <2> QED  BY <1>2, <2>1, <2>2
<1> HIDE DEF v, T
<1>4. Older(v, <<0, 1, 0>>) <=> X = 0 /\ Y < 1
  BY <1>1 DEF Older
<1>5. Older(v, <<20, 0, 0>>) <=> X < 20
  BY <1>1 DEF Older
<1>6. Older(v, <<21, 0, 0>>) <=> X < 21
  BY <1>1 DEF Older
<1>7. Affects(one, v) <=> ~(X = 0 /\ Y < 1) /\ X < 20
  <2> HIDE DEF one
  <2> QED  BY <1>2, <1>4, <1>5 DEF Affects
<1>8. Affects(two, v) <=> X = 20
  <2> HIDE DEF two
  <2> QED  BY <1>1, <1>2, <1>5, <1>6 DEF Affects
<1>9. /\ one \in gone <=> ~Affects(one, v)
      /\ two \in gone <=> ~Affects(two, v)
  BY <1>3 DEF T
<1>10. /\ p[0] = <<>> /\ p[1] = Turn(Advisories, gone, p[0], 1)
       /\ p[2] = Turn(Advisories, gone, p[1], 2)
  <2> HIDE DEF gone
  <2>1. Turns(Advisories, gone, p, 2)
    BY <1>3, KeptTurns
  <2> HIDE DEF p
  <2>2. 1 \in 1..2 /\ 2 \in 1..2 /\ 1 - 1 = 0 /\ 2 - 1 = 1
    OBVIOUS
  <2>3. \A n \in 1..2 : p[n] = Turn(Advisories, gone, p[n-1], n)
    BY <2>1 DEF Turns
  <2> QED  BY <2>1, <2>2, <2>3 DEF Turns
<1>11. ScanAll(v) = p[2]
  BY <1>3, Zenon DEF ScanAll, WithoutAll
<1> HIDE DEF gone, p
<1>12. p[1] = IF Affects(one, v) THEN <<one>> ELSE <<>>
  <2>1. p[1] = IF one \in gone THEN <<>> ELSE Append(<<>>, one)
    BY <1>10 DEF Turn
  <2> HIDE DEF one
  <2> QED  BY <1>9, <2>1
<1>13. p[2] = IF Affects(two, v) THEN Append(p[1], two) ELSE p[1]
  BY <1>9, <1>10 DEF Turn
<1> HIDE DEF one, two
<1>14. ScanAll(v) = IF Affects(one, v) THEN <<one>> ELSE IF Affects(two, v) THEN <<two>> ELSE <<>>
  <2>1. Append(<<>>, two) = <<two>> /\ ~(Affects(one, v) /\ Affects(two, v))
    BY <1>1, <1>7, <1>8
  <2> QED  BY <1>11, <1>12, <1>13, <2>1
<1>15. /\ Range(<<>>) = {} /\ \A a : Range(<<a>>) = {a} /\ <<a>> # <<>> /\ Len(<<a>>) = 1 /\ <<a>>[1] = a
       /\ Len(<<>>) = 0
  BY DEF Range
<1>16. \A s \in Nat : Max({0} \cup {s}) = s
  <2>1. \A s : {0} \cup {s} = {s, 0}
    OBVIOUS
  <2> QED  BY <2>1, GreaterIs
<1>17. Max({0}) = 0
  <2>1. {0} = {0, 0}
    OBVIOUS
  <2> QED  BY <2>1, GreaterIs
<1>18. CASE Affects(one, v)
  <2>1. ScanAll(v) = <<one>>
    BY <1>14, <1>18
  <2>2. ScanDependency(v) = [advisory |-> one.id, severity |-> 3, is_vulnerable |-> TRUE]
    <3>1. ScanAll(v) # <<>> /\ ScanAll(v)[1] = one /\ one.severity = 3
      BY <1>2, <1>15, <2>1
    <3> QED  BY <3>1, Zenon DEF ScanDependency
  <2>3. MaxSeverity(v) = 3
    <3>1. {a.severity : a \in {one}} = {3}
      BY <1>2
    <3>2. MaxSeverity(v) = Max({0} \cup {3})
      BY <1>15, <2>1, <3>1 DEF MaxSeverity
    <3> QED  BY <1>16, <3>2
  <2> QED  BY <1>1, <1>4, <1>5, <1>6, <1>7, <1>15, <1>18, <2>1, <2>2, <2>3
           DEF ScansAgree, ScanEventEmitted, v
<1>19. CASE Affects(two, v)
  <2>1. ScanAll(v) = <<two>>
    BY <1>7, <1>8, <1>14, <1>19
  <2>2. ScanDependency(v) = [advisory |-> two.id, severity |-> 2, is_vulnerable |-> TRUE]
    <3>1. ScanAll(v) # <<>> /\ ScanAll(v)[1] = two /\ two.severity = 2
      BY <1>2, <1>15, <2>1
    <3> QED  BY <3>1, Zenon DEF ScanDependency
  <2>3. MaxSeverity(v) = 2
    <3>1. {a.severity : a \in {two}} = {2}
      BY <1>2
    <3>2. MaxSeverity(v) = Max({0} \cup {2})
      BY <1>15, <2>1, <3>1 DEF MaxSeverity
    <3> QED  BY <1>16, <3>2
  <2> QED  BY <1>1, <1>4, <1>5, <1>6, <1>8, <1>15, <1>19, <2>1, <2>2, <2>3
           DEF ScansAgree, ScanEventEmitted, v
<1>20. CASE ~Affects(one, v) /\ ~Affects(two, v)
  <2>1. ScanAll(v) = <<>>
    BY <1>14, <1>20
  <2>2. ScanDependency(v) = [advisory |-> "CLEAN", severity |-> 0, is_vulnerable |-> FALSE]
    BY <2>1 DEF ScanDependency
  <2>3. MaxSeverity(v) = 0
    <3>1. {0} \cup {a.severity : a \in {}} = {0}
      OBVIOUS
    <3>2. MaxSeverity(v) = Max({0})
      BY <1>15, <2>1, <3>1 DEF MaxSeverity
    <3> QED  BY <1>17, <3>2
  <2> QED  BY <1>1, <1>4, <1>5, <1>6, <1>7, <1>8, <1>15, <1>20, <2>1, <2>2, <2>3
           DEF ScansAgree, ScanEventEmitted, v
<1> QED  BY <1>18, <1>19, <1>20
-----------------------------------------------------------------------------
(* Recursion over what gets smaller.                                       *)

\* A definition in which every argument refers to a smaller one, or to none:
\* size is below m, and next is where the argument refers to.
Descends(S, V, stop, value, next, combine, size, m) ==
  /\ m \in Nat /\ size \in [S -> 0..m] /\ stop \in SUBSET S
  /\ value \in [S -> V] /\ next \in [S -> S] /\ combine \in [S \X V -> V]
  /\ \A s \in S \ stop : size[next[s]] < size[s]
Solves(g, S, stop, value, next, combine) ==
  \A s \in S : g[s] = IF s \in stop THEN value[s] ELSE combine[<<s, g[next[s]]>>]

\* Such a definition has a solution.
LEMMA DescentExists ==
  ASSUME NEW S, NEW V, NEW stop, NEW value, NEW next, NEW combine, NEW size, NEW m,
         Descends(S, V, stop, value, next, combine, size, m)
  PROVE  \E g \in [S -> V] : Solves(g, S, stop, value, next, combine)
<1>0. /\ m \in Nat /\ size \in [S -> 0..m] /\ stop \in SUBSET S
      /\ value \in [S -> V] /\ next \in [S -> S] /\ combine \in [S \X V -> V]
      /\ \A s \in S \ stop : size[next[s]] < size[s]
  BY DEF Descends
<1> DEFINE Turned(g) == [s \in S |-> IF s \in stop THEN value[s]
                                     ELSE combine[<<s, g[next[s]]>>]]
           Good(g, k) == \A s \in S : size[s] <= k => g[s] = Turned(g)[s]
           T == {k \in 0..m : \E g \in [S -> V] : Good(g, k)}
<1>1. 0 \in T
  <2>1. \A s \in S : size[s] <= 0 => s \in stop
    BY <1>0
  <2>2. Good(value, 0)
    BY <1>0, <2>1
  <2> HIDE DEF Good
  <2> QED  BY <1>0, <2>2
<1>2. ASSUME NEW g \in [S -> V]
      PROVE  /\ Turned(g) \in [S -> V]
             /\ \A s \in S : Turned(g)[s] = IF s \in stop THEN value[s]
                                            ELSE combine[<<s, g[next[s]]>>]
  BY <1>0
<1> HIDE DEF Turned
<1>3. ASSUME NEW k \in 1..m, k - 1 \in T PROVE k \in T
  <2>1. PICK g \in [S -> V] : Good(g, k - 1)
    BY <1>3
  <2> DEFINE h == Turned(g)
  <2>2. h \in [S -> V]
    BY <1>2
  <2>3. ASSUME NEW s \in S, size[s] <= k PROVE h[s] = Turned(h)[s]
    <3>1. CASE s \in stop
      BY <1>2, <2>2, <3>1
    <3>2. CASE s \notin stop
      <4>1. next[s] \in S /\ size[next[s]] <= k - 1
        BY <1>0, <2>3, <3>2
      <4>2. g[next[s]] = h[next[s]]
        BY <1>0, <2>1, <4>1
      <4>3. h[s] = combine[<<s, g[next[s]]>>]
        BY <1>2, <3>2
      <4>4. Turned(h)[s] = combine[<<s, h[next[s]]>>]
        <5> HIDE DEF h
        <5> QED  BY <1>2, <2>2, <3>2
      <4> QED  BY <4>2, <4>3, <4>4, Zenon
    <3> QED  BY <3>1, <3>2
  <2>4. Good(h, k)
    BY <2>3
  <2> HIDE DEF Good, h
  <2> QED  BY <1>0, <2>2, <2>4
<1>4. \A k \in 0..m : k \in T
  <2> HIDE DEF T
  <2> QED  BY <1>0, <1>1, <1>3, RangeInduction
<1>5. PICK g \in [S -> V] : Good(g, m)
  BY <1>0, <1>4
<1>6. \A s \in S : g[s] = Turned(g)[s]
  BY <1>0, <1>5
<1>7. \A s \in S : Turned(g)[s] = IF s \in stop THEN value[s] ELSE combine[<<s, g[next[s]]>>]
  BY <1>2
<1>8. Solves(g, S, stop, value, next, combine)
  BY <1>6, <1>7, Zenon DEF Solves
<1> QED  BY <1>8
-----------------------------------------------------------------------------
(* Roots.                                                                  *)

\* The root of n, rounded down.
IsRoot(n, r) == r \in Nat /\ r * r <= n /\ n < (r + 1) * (r + 1)

\* The binary search of approximate_sqrt ends, and at the root.
LEMMA SearchFinds ==
  ASSUME NEW n \in Nat
  PROVE  IsRoot(n, ApproximateSqrt(n))
<1> DEFINE S == (1..(n + 1)) \X (0..n)
           mid(s) == s[1] + ((s[2] - s[1]) \div 2)
           left(s) == <<s[1], mid(s) - 1>>
           right(s) == <<mid(s) + 1, s[2]>>
           Body(g, s) == IF s[1] > s[2] THEN s[1] - 1
                         ELSE IF mid(s) <= n \div mid(s) THEN g[right(s)] ELSE g[left(s)]
           Eq(g) == g = [s \in S |-> Body(g, s)]
           p == CHOOSE g : Eq(g)
<1>1. CASE n = 0
  BY <1>1 DEF ApproximateSqrt, IsRoot
<1>2. CASE n # 0
  <2>1. ApproximateSqrt(n) = p[<<1, n>>]
    BY <1>2, Zenon DEF ApproximateSqrt
  <2>2. ASSUME NEW s \in S, s[1] <= s[2]
        PROVE  /\ mid(s) \in s[1]..s[2] /\ mid(s) \in 1..n
               /\ left(s) \in S /\ right(s) \in S
               /\ left(s)[1] = s[1] /\ left(s)[2] = mid(s) - 1
               /\ right(s)[1] = mid(s) + 1 /\ right(s)[2] = s[2]
    <3>1. s[1] \in 1..(n + 1) /\ s[2] \in 0..n
      OBVIOUS
    <3>2. mid(s) \in s[1]..s[2]
      BY <2>2, <3>1
    <3> HIDE DEF mid
    <3> QED  BY <2>2, <3>1, <3>2
  <2> HIDE DEF mid, left, right
  <2>3. \E g \in [S -> Nat] : Eq(g)
    <3> DEFINE stop == {s \in S : s[1] > s[2]}
               value == [s \in S |-> s[1] - 1]
               next == [s \in S |-> IF s \in stop THEN s
                                    ELSE IF mid(s) <= n \div mid(s) THEN right(s) ELSE left(s)]
               size == [s \in S |-> IF s \in stop THEN 0 ELSE s[2] + 1 - s[1]]
               combine == [q \in S \X Nat |-> q[2]]
    <3>1. /\ stop \in SUBSET S /\ value \in [S -> Nat] /\ size \in [S -> 0..n]
          /\ combine \in [S \X Nat -> Nat]
      OBVIOUS
    <3>2. next \in [S -> S]
      BY <2>2
    <3>3. ASSUME NEW s \in S \ stop PROVE size[next[s]] < size[s]
      <4>1. s \in S /\ s[1] <= s[2] /\ s[1] \in 1..(n + 1) /\ s[2] \in 0..n
        OBVIOUS
      <4>2. CASE mid(s) <= n \div mid(s)
        <5>1. next[s] = right(s)
          BY <4>1, <4>2
        <5> QED  BY <2>2, <4>1, <5>1
      <4>3. CASE ~(mid(s) <= n \div mid(s))
        <5>1. next[s] = left(s)
          BY <4>1, <4>3
        <5> QED  BY <2>2, <4>1, <5>1
      <4> QED  BY <4>2, <4>3
    <3>4. \A s \in S : /\ s \in stop <=> s[1] > s[2]
                       /\ value[s] = s[1] - 1
                       /\ s \notin stop => next[s] = IF mid(s) <= n \div mid(s) THEN right(s) ELSE left(s)
      OBVIOUS
    <3>5. \A s \in S, v \in Nat : combine[<<s, v>>] = v
      OBVIOUS
    <3> HIDE DEF stop, value, next, size, combine, S
    <3>51. Descends(S, Nat, stop, value, next, combine, size, n)
      BY <3>1, <3>2, <3>3 DEF Descends
    <3>52. PICK g \in [S -> Nat] : Solves(g, S, stop, value, next, combine)
      BY <3>51, DescentExists
    <3>6. \A s \in S : g[s] = IF s \in stop THEN value[s] ELSE combine[<<s, g[next[s]]>>]
      BY <3>52, Zenon DEF Solves
    <3>7. ASSUME NEW s \in S PROVE g[s] = Body(g, s)
      <4>1. g[next[s]] \in Nat
        BY <3>2
      <4>2. g[s] = IF s \in stop THEN value[s] ELSE g[next[s]]
        BY <3>5, <3>6, <4>1
      <4> QED  BY <3>4, <4>2
    <3>8. Eq(g)
      <4> HIDE DEF Body
      <4> QED  BY <3>7
    <3> HIDE DEF Eq
    <3> QED  BY <3>8
  <2>4. Eq(p)
    <3> HIDE DEF Eq
    <3> QED  BY <2>3
  <2>5. \A s \in S : p[s] = Body(p, s)
    <3> HIDE DEF Body, p, S
    <3> QED  BY <2>4
  <2> DEFINE Inv(s) == /\ (s[1] - 1) * (s[1] - 1) <= n /\ n < (s[2] + 1) * (s[2] + 1)
                       /\ s[1] <= s[2] + 1
             T == {k \in 0..n : \A s \in S : Inv(s) /\ s[2] + 1 - s[1] <= k => IsRoot(n, p[s])}
  <2> HIDE DEF p
  <2>6. ASSUME NEW s \in S, Inv(s), s[1] = s[2] + 1 PROVE IsRoot(n, p[s])
    <3>1. s[1] \in 1..(n + 1) /\ s[2] \in 0..n
      OBVIOUS
    <3>2. p[s] = s[2] /\ s[1] - 1 = s[2]
      BY <2>5, <2>6, <3>1
    <3> QED  BY <2>6, <3>1, <3>2 DEF IsRoot
  <2>7. 0 \in T
    <3>1. ASSUME NEW s \in S, Inv(s), s[2] + 1 - s[1] <= 0 PROVE s[1] = s[2] + 1
      <4>1. s[1] \in 1..(n + 1) /\ s[2] \in 0..n
        OBVIOUS
      <4> QED  BY <3>1, <4>1
    <3> HIDE DEF Inv
    <3> QED  BY <2>6, <3>1
  <2>8. ASSUME NEW k \in 1..n, k - 1 \in T PROVE k \in T
    <3> SUFFICES ASSUME NEW s \in S, Inv(s), s[2] + 1 - s[1] <= k PROVE IsRoot(n, p[s])
      OBVIOUS
    <3>1. s[1] \in 1..(n + 1) /\ s[2] \in 0..n
      OBVIOUS
    <3>2. CASE s[1] > s[2]
      <4>1. s[1] = s[2] + 1
        BY <3>1, <3>2
      <4> HIDE DEF Inv
      <4> QED  BY <2>6, <4>1
    <3>3. CASE s[1] <= s[2]
      <4> DEFINE m == mid(s)
      <4>1. m \in s[1]..s[2] /\ m \in 1..n
        BY <2>2, <3>3
      <4>2. n \div m >= m <=> n >= m * m
        BY <4>1, QuotientReaches
      <4>3. n \div m \in Nat
        BY <4>1, QuotientReaches
      <4>4. \A t \in S : Inv(t) /\ t[2] + 1 - t[1] <= k - 1 => IsRoot(n, p[t])
        BY <2>8
      <4>5. CASE m <= n \div m
        <5>1. p[s] = p[right(s)]
          BY <2>5, <3>1, <3>3, <4>5
        <5>2. right(s) \in S /\ right(s)[1] = m + 1 /\ right(s)[2] = s[2]
          BY <2>2, <3>3
        <5> HIDE DEF m
        <5>3. m * m <= n /\ (m + 1) - 1 = m
          BY <4>1, <4>2, <4>3, <4>5
        <5>4. Inv(right(s)) /\ right(s)[2] + 1 - right(s)[1] <= k - 1
          BY <3>1, <4>1, <5>2, <5>3
        <5> HIDE DEF Inv
        <5> QED  BY <4>4, <5>1, <5>2, <5>4
      <4>6. CASE ~(m <= n \div m)
        <5>1. p[s] = p[left(s)]
          BY <2>5, <3>1, <3>3, <4>6
        <5>2. left(s) \in S /\ left(s)[1] = s[1] /\ left(s)[2] = m - 1
          BY <2>2, <3>3
        <5> HIDE DEF m
        <5>3. n < m * m /\ (m - 1) + 1 = m
          BY <4>1, <4>2, <4>3, <4>6
        <5>4. Inv(left(s)) /\ left(s)[2] + 1 - left(s)[1] <= k - 1
          BY <3>1, <4>1, <5>2, <5>3
        <5> HIDE DEF Inv
        <5> QED  BY <4>4, <5>1, <5>2, <5>4
      <4> QED  BY <4>5, <4>6
    <3> QED  BY <3>1, <3>2, <3>3
  <2>9. \A k \in 0..n : k \in T
    <3> HIDE DEF T
    <3> QED  BY <2>7, <2>8, RangeInduction
  <2>10. <<1, n>> \in S /\ Inv(<<1, n>>) /\ n + 1 - 1 <= n
    OBVIOUS
  <2>11. IsRoot(n, p[<<1, n>>])
    <3> HIDE DEF Inv
    <3>1. n \in 0..n /\ <<1, n>>[1] = 1 /\ <<1, n>>[2] = n
      OBVIOUS
    <3> QED  BY <2>9, <2>10, <3>1
  <2> QED  BY <2>1, <2>11
<1> QED  BY <1>1, <1>2

\* There is one root.
LEMMA RootUnique ==
  ASSUME NEW n \in Nat, NEW r, IsRoot(n, r), NEW q, IsRoot(n, q)
  PROVE  r = q
<1>1. r \in Nat /\ q \in Nat
  BY DEF IsRoot
<1>2. ASSUME NEW a \in Nat, NEW b \in Nat, IsRoot(n, a), IsRoot(n, b), a < b PROVE FALSE
  <2>1. (a + 1) * (a + 1) <= b * b
    <3>1. a + 1 <= b
      BY <1>2
    <3>2. (a + 1) * (a + 1) <= (a + 1) * b
      BY <3>1
    <3>3. (a + 1) * b <= b * b
      BY <3>1
    <3>4. (a + 1) * (a + 1) \in Int /\ (a + 1) * b \in Int /\ b * b \in Int
      OBVIOUS
    <3> QED  BY <3>2, <3>3, <3>4
  <2>2. n < (a + 1) * (a + 1) /\ b * b <= n
    BY <1>2 DEF IsRoot
  <2>3. (a + 1) * (a + 1) \in Int /\ b * b \in Int
    OBVIOUS
  <2> QED  BY <2>1, <2>2, <2>3
<1> QED  BY <1>1, <1>2

\* The mean of x and n / x is never below the root.
LEMMA MeanAboveRoot ==
  ASSUME NEW n \in Nat, NEW r, IsRoot(n, r), NEW x \in Nat, x > 0
  PROVE  (x + (n \div x)) \div 2 >= r
<1> DEFINE q == n \div x
<1>1. q \in Nat /\ r \in Nat /\ r * r <= n
  BY QuotientReaches DEF IsRoot
<1>2. n < (q + 1) * x
  <2>1. q + 1 \in Nat /\ ~(q >= q + 1)
    BY <1>1
  <2>2. n \div x >= q + 1 <=> n >= (q + 1) * x
    BY <2>1, QuotientReaches
  <2>3. (q + 1) * x \in Nat
    BY <2>1
  <2> QED  BY <2>1, <2>2, <2>3
<1> HIDE DEF q
<1>3. x + q >= 2 * r
  <2> SUFFICES ASSUME x + q < 2 * r PROVE FALSE
    BY <1>1
  <2> DEFINE b == q + 1
  <2>1. b \in Nat /\ x + b <= 2 * r
    BY <1>1
  <2>2. b * x > r * r
    BY <1>1, <1>2
  <2> HIDE DEF b
  <2>3. b <= 2 * r - x
    BY <1>1, <2>1
  <2>4. b * x <= (2 * r - x) * x
    BY <1>1, <2>1, <2>3
  <2>5. (2 * r - x) * x = r * r - (r - x) * (r - x)
    BY <1>1
  <2>6. (r - x) * (r - x) >= 0
    BY <1>1
  <2>7. (r - x) * (r - x) \in Int /\ r * r \in Int /\ b * x \in Int
    BY <1>1, <2>1
  <2> QED  BY <2>2, <2>4, <2>5, <2>6, <2>7
<1>4. (x + q) \div 2 >= r
  BY <1>1, <1>3
<1> QED  BY <1>4 DEF q

\* Where the mean is no smaller than x, x is the root.
LEMMA MeanAtRoot ==
  ASSUME NEW n \in Nat, NEW r, IsRoot(n, r), NEW x \in Nat, x > 0, x >= r,
         (x + (n \div x)) \div 2 >= x
  PROVE  x = r
<1> DEFINE q == n \div x
<1>1. q \in Nat /\ r \in Nat /\ n < (r + 1) * (r + 1)
  BY QuotientReaches DEF IsRoot
<1>2. (x + q) \div 2 >= x
  OBVIOUS
<1>3. q >= x <=> n >= x * x
  BY QuotientReaches
<1> HIDE DEF q
<1>4. q >= x
  BY <1>1, <1>2
<1>5. n >= x * x
  BY <1>3, <1>4
<1> SUFFICES ASSUME x >= r + 1 PROVE FALSE
  BY <1>1
<1>6. (r + 1) * (r + 1) <= x * x
  <2>1. (r + 1) * (r + 1) <= (r + 1) * x
    BY <1>1
  <2>2. (r + 1) * x <= x * x
    BY <1>1
  <2>3. (r + 1) * (r + 1) \in Int /\ (r + 1) * x \in Int /\ x * x \in Int
    BY <1>1
  <2> QED  BY <2>1, <2>2, <2>3
<1>7. (r + 1) * (r + 1) \in Int /\ x * x \in Int
  BY <1>1
<1> QED  BY <1>1, <1>5, <1>6, <1>7

\* Newton's method ends, and at the root.
LEMMA NewtonFinds ==
  ASSUME NEW n \in Nat, NEW r, IsRoot(n, r)
  PROVE  Isqrt(n) = r
<1> DEFINE mean(x) == (x + (n \div x)) \div 2
           Body(g, x) == IF mean(x) < x THEN g[mean(x)] ELSE x
           Eq(g) == g = [x \in 1..n |-> Body(g, x)]
           p == CHOOSE g : Eq(g)
<1>1. r \in Nat
  BY DEF IsRoot
<1>2. CASE n < 2
  <2>1. Isqrt(n) = n
    BY <1>2 DEF Isqrt
  <2>2. IsRoot(n, n)
    BY <1>2 DEF IsRoot
  <2> QED  BY <2>1, <2>2, RootUnique
<1>3. CASE n >= 2
  <2> DEFINE first == (n + 1) \div 2
  <2>1. first \in Nat /\ first < n /\ first >= 1 /\ ~(n < 2)
    BY <1>3
  <2>2. Isqrt(n) = p[first]
    <3>1. Isqrt(n) = IF n < 2 THEN n ELSE IF first < n THEN p[first] ELSE n
      BY Zenon DEF Isqrt
    <3> HIDE DEF p, first
    <3> QED  BY <2>1, <3>1
  <2>3. first >= r
    <3>1. n \div n = 1
      BY <1>3
    <3>2. (n + (n \div n)) \div 2 >= r
      BY <1>3, MeanAboveRoot
    <3> QED  BY <3>1, <3>2
  <2> HIDE DEF first
  <2>4. ASSUME NEW x \in 1..n
        PROVE  mean(x) \in Nat /\ mean(x) >= r /\ mean(x) >= 1
    <3>1. n \div x \in Nat /\ (n \div x >= 1 <=> n >= 1 * x)
      BY QuotientReaches
    <3>2. n \div x >= 1
      BY <3>1
    <3>3. (x + (n \div x)) \div 2 >= r
      BY MeanAboveRoot
    <3> QED  BY <3>1, <3>2, <3>3
  <2>5. \A x \in 1..n : x >= r /\ ~(mean(x) < x) => x = r
    <3> SUFFICES ASSUME NEW x \in 1..n, x >= r, ~(mean(x) < x) PROVE x = r
      OBVIOUS
    <3>1. mean(x) >= x
      BY <2>4
    <3> QED  BY <3>1, MeanAtRoot
  <2> HIDE DEF mean
  <2>6. \E g \in [1..n -> Nat] : Eq(g)
    <3> DEFINE S == 1..n
               stop == {x \in S : ~(mean(x) < x)}
               value == [x \in S |-> x]
               next == [x \in S |-> IF x \in stop THEN x ELSE mean(x)]
               combine == [q \in S \X Nat |-> q[2]]
    <3>1. /\ stop \in SUBSET S /\ value \in [S -> Nat] /\ value \in [S -> 0..n]
          /\ combine \in [S \X Nat -> Nat]
      OBVIOUS
    <3>2. next \in [S -> S]
      BY <2>4
    <3>3. \A s \in S \ stop : value[next[s]] < value[s]
      BY <2>4
    <3>4. \A s \in S : /\ s \in stop <=> ~(mean(s) < s)
                       /\ value[s] = s
                       /\ s \notin stop => next[s] = mean(s)
      OBVIOUS
    <3>5. \A s \in S, v \in Nat : combine[<<s, v>>] = v
      OBVIOUS
    <3> HIDE DEF stop, value, next, combine, S
    <3>51. Descends(S, Nat, stop, value, next, combine, value, n)
      BY <3>1, <3>2, <3>3 DEF Descends
    <3>52. PICK g \in [S -> Nat] : Solves(g, S, stop, value, next, combine)
      BY <3>51, DescentExists
    <3>6. \A s \in S : g[s] = IF s \in stop THEN value[s] ELSE combine[<<s, g[next[s]]>>]
      BY <3>52, Zenon DEF Solves
    <3>7. ASSUME NEW s \in S PROVE g[s] = Body(g, s)
      <4>1. g[next[s]] \in Nat
        BY <3>2
      <4>2. g[s] = IF s \in stop THEN value[s] ELSE g[next[s]]
        BY <3>5, <3>6, <4>1
      <4> QED  BY <3>4, <4>2
    <3>8. Eq(g)
      <4> HIDE DEF Body
      <4> QED  BY <3>7 DEF S
    <3> HIDE DEF Eq
    <3> QED  BY <3>8 DEF S
  <2>7. Eq(p)
    <3> HIDE DEF Eq
    <3> QED  BY <2>6
  <2>8. \A x \in 1..n : p[x] = Body(p, x)
    <3> HIDE DEF Body, p
    <3> QED  BY <2>7
  <2> DEFINE T == {k \in 0..n : \A x \in 1..n : x <= k /\ x >= r => p[x] = r}
  <2> HIDE DEF p
  <2>9. 0 \in T
    OBVIOUS
  <2>10. ASSUME NEW k \in 1..n, k - 1 \in T PROVE k \in T
    <3> SUFFICES ASSUME NEW x \in 1..n, x <= k, x >= r PROVE p[x] = r
      OBVIOUS
    <3>1. CASE mean(x) < x
      <4>1. mean(x) \in 1..n /\ mean(x) <= k - 1 /\ mean(x) >= r
        BY <2>4, <3>1
      <4>2. p[mean(x)] = r
        BY <2>10, <4>1
      <4> QED  BY <2>8, <3>1, <4>2
    <3>2. CASE ~(mean(x) < x)
      <4>1. x = r
        BY <2>5, <3>2
      <4> QED  BY <2>8, <3>2, <4>1
    <3> QED  BY <3>1, <3>2
  <2>11. \A k \in 0..n : k \in T
    <3> HIDE DEF T
    <3> QED  BY <2>9, <2>10, RangeInduction
  <2>12. p[first] = r
    <3>1. first \in 1..n /\ first \in 0..n
      BY <2>1
    <3> QED  BY <2>3, <2>11, <3>1
  <2> QED  BY <2>2, <2>12
<1> QED  BY <1>2, <1>3

\* A batch sized by the root is neither empty nor larger than asked for.
LEMMA BatchSizeIs ==
  ASSUME NEW n \in Nat, NEW most \in Nat, most > 0
  PROVE  LET size == OptimalBatchSize(n, most) IN
         size <= n /\ size <= most /\ (size = 0 <=> n = 0)
<1> DEFINE r == ApproximateSqrt(n)
<1>1. r \in Nat /\ r * r <= n
  BY SearchFinds DEF IsRoot
<1> HIDE DEF r
<1>2. r <= n
  <2>1. CASE r = 0
    BY <2>1
  <2>2. CASE r >= 1
    <3>1. r * r >= r
      BY <1>1, <2>2
    <3>2. r * r \in Nat
      BY <1>1
    <3> QED  BY <1>1, <3>1, <3>2
  <2> QED  BY <1>1, <2>1, <2>2
<1>3. CASE n = 0
  BY <1>3 DEF OptimalBatchSize
<1>4. CASE n # 0 /\ n <= 10
  <2>1. OptimalBatchSize(n, most) = Min({n, most})
    BY <1>4 DEF OptimalBatchSize
  <2> QED  BY <1>4, <2>1, LesserIs
<1>5. CASE n > 10
  <2>1. OptimalBatchSize(n, most) = Max({1, Min({r, most})})
    BY <1>5 DEF OptimalBatchSize, r
  <2>2. Min({r, most}) = IF r <= most THEN r ELSE most
    BY <1>1, LesserIs
  <2>3. Max({1, Min({r, most})}) = IF 1 >= Min({r, most}) THEN 1 ELSE Min({r, most})
    BY <1>1, <2>2, GreaterIs
  <2> QED  BY <1>1, <1>2, <1>5, <2>1, <2>2, <2>3
<1> QED  BY <1>3, <1>4, <1>5
-----------------------------------------------------------------------------
(* Scales and tiers.                                                       *)

\* A part of a whole, on a scale: within it, full exactly where the part is
\* the whole.
LEMMA PartOfScale ==
  ASSUME NEW a \in Nat, NEW b \in Nat, b > 0, a <= b, NEW scale \in Nat, scale > 0
  PROVE  /\ (a * scale) \div b \in 0..scale
         /\ (a * scale) \div b = scale <=> a = b
<1> DEFINE n == a * scale
           m == scale * b
<1>1. n \in Nat /\ m \in Nat
  OBVIOUS
<1>2. m = b * scale
  OBVIOUS
<1>3. a = b => n = m
  BY <1>2
<1>4. a < b => n < m
  <2> SUFFICES ASSUME a < b PROVE n < m
    OBVIOUS
  <2>1. a * scale < b * scale
    OBVIOUS
  <2> QED  BY <1>2, <2>1
<1>5. n \div b \in Nat /\ (n \div b >= scale <=> n >= m)
  <2> HIDE DEF n
  <2> QED  BY <1>1, QuotientReaches
<1>6. n \div b >= scale + 1 <=> n >= (scale + 1) * b
  <2> HIDE DEF n
  <2> QED  BY <1>1, QuotientReaches
<1>7. (scale + 1) * b = m + b
  OBVIOUS
<1> HIDE DEF n, m
<1> QED  BY <1>1, <1>3, <1>4, <1>5, <1>6, <1>7 DEF n

\* A larger number has no smaller quotient.
LEMMA QuotientGrows ==
  ASSUME NEW a \in Nat, NEW c \in Nat, a <= c, NEW b \in Nat, b > 0
  PROVE  a \div b <= c \div b
<1> DEFINE q == a \div b
<1>1. q \in Nat
  BY QuotientReaches
<1> HIDE DEF q
<1>2. a >= q * b
  BY <1>1, QuotientReaches DEF q
<1>3. q * b \in Nat
  BY <1>1
<1>4. c >= q * b
  BY <1>2, <1>3
<1>5. c \div b \in Nat /\ c \div b >= q
  BY <1>1, <1>4, QuotientReaches
<1> QED  BY <1>1, <1>5 DEF q

\* How close the deadline is grows with the clock up to the whole scale.
LEMMA ProximityScales ==
  ASSUME NEW x \in Nat, NEW y \in Nat, NEW z \in Nat
  PROVE  /\ DeadlineProximity(x, y, z) \in 0..FullScale
         /\ DeadlineProximity(x, y, z) <= DeadlineProximity(x + 1, y, z)
         /\ y < z => (DeadlineProximity(x, y, z) = FullScale <=> x >= z)
<1> DEFINE at(t) == ((t - y) * FullScale) \div (z - y)
<1>1. FullScale \in Nat /\ FullScale > 0
  BY SizesRead
<1>2. ASSUME NEW t \in Nat, y <= t, t < z
      PROVE  at(t) \in 0..FullScale /\ at(t) # FullScale
  <2>1. t - y \in Nat /\ z - y \in Nat /\ z - y > 0 /\ t - y <= z - y /\ t - y # z - y
    BY <1>2
  <2> QED  BY <1>1, <2>1, PartOfScale
<1>3. ASSUME y <= x, x + 1 < z PROVE at(x) <= at(x + 1)
  <2>1. z - y \in Nat /\ z - y > 0 /\ x - y \in Nat /\ (x + 1) - y \in Nat
    BY <1>3
  <2>2. /\ (x - y) * FullScale \in Nat /\ ((x + 1) - y) * FullScale \in Nat
        /\ (x - y) * FullScale <= ((x + 1) - y) * FullScale
    <3> DEFINE d == x - y
    <3>1. d \in Nat /\ (x + 1) - y = d + 1
      BY <2>1
    <3> HIDE DEF d
    <3>2. (d + 1) * FullScale = d * FullScale + FullScale
      BY <1>1, <3>1
    <3>3. d * FullScale \in Nat
      BY <1>1, <3>1
    <3> QED  BY <1>1, <3>1, <3>2, <3>3 DEF d
  <2> QED  BY <2>1, <2>2, QuotientGrows
<1>4. \A t \in Nat : DeadlineProximity(t, y, z) =
        IF z <= y \/ t < y THEN 0 ELSE IF t >= z THEN FullScale ELSE at(t)
  BY DEF DeadlineProximity
<1>5. x + 1 \in Nat
  OBVIOUS
<1> HIDE DEF at
<1>6. DeadlineProximity(x, y, z) \in 0..FullScale
  BY <1>1, <1>2, <1>4
<1>7. DeadlineProximity(x + 1, y, z) \in 0..FullScale
  BY <1>1, <1>2, <1>4, <1>5
<1>8. DeadlineProximity(x, y, z) <= DeadlineProximity(x + 1, y, z)
  BY <1>1, <1>3, <1>4, <1>5, <1>6, <1>7
<1>9. y < z => (DeadlineProximity(x, y, z) = FullScale <=> x >= z)
  BY <1>1, <1>2, <1>4
<1> QED  BY <1>6, <1>8, <1>9

\* What a product saturates at, and what it is below that.
LEMMA SaturatedIs ==
  ASSUME NEW x \in Nat
  PROVE  /\ Saturated(x) \in Nat /\ Saturated(x) <= x
         /\ x <= IntMax => Saturated(x) = x
BY SizesRead DEF Saturated, Between

\* Quotients grow with what they measure and reach the scale at the end.
LEMMA ScalesHold == CalculationsTypeOK => ScalesMonotone
<1> SUFFICES ASSUME CalculationsTypeOK PROVE ScalesMonotone
  OBVIOUS
<1>1. /\ X \in Nat /\ Y \in Nat /\ Z \in Nat /\ FullScale \in Nat /\ FullScale > 0
      /\ MaxEvents \in Nat /\ IntMax \in Nat /\ MaxSlice >= 2 /\ MaxSlice \in Nat
      /\ HalfKey \in Nat /\ HalfKey > 0
  BY OperandsRead, SizesRead
<1>2. Z > 0 => LET progress == CompoundProgress(X, <<Z, Y + 1>>)[1] IN
               /\ progress = FullScale => X >= Z
               /\ X >= Z /\ X * FullScale <= IntMax => progress = FullScale
  <2> DEFINE goals == <<Z, Y + 1>>
             progress == CompoundProgress(X, goals)[1]
             product == X * FullScale
             q == Saturated(product) \div Z
  <2> SUFFICES ASSUME Z > 0
               PROVE  /\ progress = FullScale => X >= Z
                      /\ X >= Z /\ product <= IntMax => progress = FullScale
    OBVIOUS
  <2>1. Len(goals) = 2 /\ goals[1] = Z /\ goals[2] = Y + 1 /\ goals # <<>>
    OBVIOUS
  <2>2. ~(goals = <<>> \/ Len(goals) > MaxSlice \/ \E i \in 1..Len(goals) : goals[i] <= 0)
    BY <1>1, <2>1
  <2>3. product \in Nat
    BY <1>1
  <2>4. /\ Saturated(product) \in Nat /\ Saturated(product) <= product
        /\ product <= IntMax => Saturated(product) = product
    <3> HIDE DEF product
    <3> QED  BY <2>3, SaturatedIs
  <2>5. product >= FullScale * Z <=> X >= Z
    <3>1. X >= Z => X * FullScale >= Z * FullScale
      BY <1>1
    <3>2. X < Z => X * FullScale < Z * FullScale
      BY <1>1
    <3>3. Z * FullScale = FullScale * Z /\ Z * FullScale \in Nat
      BY <1>1
    <3> QED  BY <1>1, <2>3, <3>1, <3>2, <3>3
  <2> DEFINE end == FullScale * Z
             reached == Saturated(product)
  <2>6. q \in Nat /\ (q >= FullScale <=> reached >= end)
    <3> HIDE DEF product, reached
    <3> QED  BY <1>1, <2>4, QuotientReaches DEF reached
  <2> HIDE DEF goals
  <2>7. progress = Between(0, q, FullScale)
    <3>1. CompoundProgress(X, goals) =
            [i \in 1..Len(goals) |->
               Between(0, Saturated(X * FullScale) \div goals[i], FullScale)]
      BY <2>2, Zenon DEF CompoundProgress
    <3>2. 1 \in 1..Len(goals)
      BY <2>1
    <3> QED  BY <2>1, <3>1, <3>2
  <2> HIDE DEF q, progress
  <2>8. progress = FullScale <=> q >= FullScale
    BY <1>1, <2>6, <2>7 DEF Between
  <2>9. end \in Nat
    BY <1>1
  <2> HIDE DEF product, end
  <2>10. progress = FullScale => product >= end
    BY <2>3, <2>4, <2>6, <2>8, <2>9
  <2>11. product >= end /\ product <= IntMax => progress = FullScale
    BY <2>3, <2>4, <2>6, <2>8, <2>9
  <2> QED  BY <2>5, <2>10, <2>11 DEF end
<1>3. FirstUnmet(<<Y, Z>>, X) = <<>> \/ X < <<Y, Z>>[FirstUnmet(<<Y, Z>>, X)[1] + 1]
  <2> DEFINE goals == <<Y, Z>>
             unmet == {i \in 1..Len(Visited(goals)) : X < Visited(goals)[i]}
             same == {i \in 1..Len(Visited(goals)) : X < goals[i]}
  <2>1. MaxItems \in Nat /\ MaxItems > 0
    BY SizesRead
  <2>2. goals \in Seq(Nat) /\ Len(goals) = 2
    BY <1>1
  <2> HIDE DEF goals
  <2>3. Len(Visited(goals)) \in 0..2
    BY <2>1, <2>2 DEF Visited
  <2>4. same \subseteq Nat
    BY <2>3
  <2>5. same # {} => Min(same) \in same
    <3> SUFFICES ASSUME same # {} PROVE Min(same) \in same
      OBVIOUS
    <3>1. First(same) \in same /\ \A j \in same : First(same) <= j
      BY <2>4, FirstExists
    <3> HIDE DEF same
    <3> QED  BY <3>1 DEF Min
  <2>6. FirstUnmet(goals, X) = IF same = {} THEN <<>> ELSE <<Min(same) - 1>>
    BY DEF FirstUnmet
  <2> SUFFICES ASSUME same # {} PROVE X < goals[FirstUnmet(goals, X)[1] + 1]
    BY <2>6 DEF goals
  <2> DEFINE k == Min(same)
  <2>7. k \in Nat /\ X < goals[k]
    BY <2>3, <2>5
  <2>8. FirstUnmet(goals, X)[1] = k - 1
    BY <2>6
  <2> HIDE DEF k
  <2>9. (k - 1) + 1 = k
    BY <2>7
  <2> QED  BY <2>7, <2>8, <2>9
<1>4. /\ Utilization(X, Y) = 100 => X >= Y
      /\ X >= Y /\ X * 100 < HalfKey => Utilization(X, Y) = 100
  <2>1. CASE Y = 0
    BY <1>1, <2>1 DEF Utilization
  <2>2. CASE Y # 0
    <3> DEFINE m == Min({X * 100, HalfKey - 1})
               q == m \div Y
    <3>1. m = IF X * 100 <= HalfKey - 1 THEN X * 100 ELSE HalfKey - 1
      BY <1>1, LesserIs
    <3>2. m \in Nat /\ m <= X * 100 /\ (X * 100 < HalfKey => m = X * 100)
      BY <1>1, <3>1
    <3> HIDE DEF m
    <3>3. q \in Nat /\ (q >= 100 <=> m >= 100 * Y)
      BY <1>1, <2>2, <3>2, QuotientReaches
    <3>4. Utilization(X, Y) = Min({q, 100})
      BY <2>2 DEF Utilization, m
    <3> HIDE DEF q
    <3>5. Min({q, 100}) = IF q <= 100 THEN q ELSE 100
      BY <3>3, LesserIs
    <3> QED  BY <1>1, <3>2, <3>3, <3>4, <3>5
  <2> QED  BY <2>1, <2>2
<1>5. WithinBudget(X, Y) <=> RejectedWrites(X, Y) = 0
  <2>1. Max({0, X - Y}) = IF 0 >= X - Y THEN 0 ELSE X - Y
    BY <1>1, GreaterIs
  <2> QED  BY <1>1, <2>1 DEF WithinBudget, RejectedWrites
<1>6. HitRate(X, Y) = 100 <=> X > 0 /\ Y = 0
  <2>1. CASE X + Y = 0
    BY <1>1, <2>1 DEF HitRate
  <2>2. CASE X + Y # 0
    <3>1. (X * 100) \div (X + Y) = 100 <=> X = X + Y
      BY <1>1, <2>2, PartOfScale
    <3> QED  BY <1>1, <2>2, <3>1 DEF HitRate
  <2> QED  BY <2>1, <2>2
<1>7. X <= Y => LazyProgress(X, Y) <= 100
  <2>1. CASE Y = 0
    BY <2>1 DEF LazyProgress
  <2>2. CASE Y # 0 /\ X <= Y
    <3>1. (X * 100) \div Y \in 0..100
      BY <1>1, <2>2, PartOfScale
    <3> QED  BY <2>2, <3>1 DEF LazyProgress
  <2> QED  BY <2>1, <2>2
<1>8. Metrics(X, Y).effectiveness <= 100 /\ Metrics(X, Y).memory_saved <= X
  <2> DEFINE saved == Max({0, X - Y})
  <2>1. saved \in 0..X
    <3>1. saved = IF 0 >= X - Y THEN 0 ELSE X - Y
      BY <1>1, GreaterIs
    <3> QED  BY <1>1, <3>1
  <2>2. Metrics(X, Y).memory_saved = saved /\ Metrics(X, Y).effectiveness = Effectiveness(X, Y)
    BY DEF Metrics
  <2>3. Effectiveness(X, Y) = IF X = 0 THEN 0 ELSE (saved * 100) \div X
    BY DEF Effectiveness
  <2> HIDE DEF saved
  <2>4. X # 0 => (saved * 100) \div X \in 0..100
    BY <1>1, <2>1, PartOfScale
  <2> QED  BY <1>1, <2>1, <2>2, <2>3, <2>4
<1>9. GasSavings(X) <= GasSavings(X + 1) /\ GasSavings(X) <= FullScale
  <2>1. ASSUME NEW n \in Nat
        PROVE  GasSavings(n) = IF n <= 1 THEN 0
                               ELSE IF (n - 1) * 30 <= FullScale THEN (n - 1) * 30 ELSE FullScale
    <3>1. (n - 1) * 30 \in Int
      OBVIOUS
    <3> QED  BY <1>1, <3>1, LesserIs DEF GasSavings
  <2>2. X + 1 \in Nat
    BY <1>1
  <2> QED  BY <1>1, <2>1, <2>2
<1>10. EmitsBatchSummary(Y, X) <=> Y > 0 /\ RemainingEventBudget(X) > 0
  <2>1. Max({0, MaxEvents - X}) = IF 0 >= MaxEvents - X THEN 0 ELSE MaxEvents - X
    BY <1>1, GreaterIs
  <2> QED  BY <1>1, <2>1 DEF EmitsBatchSummary, WithinEventBudget, RemainingEventBudget
<1>11. /\ DeadlineProximity(X, Y, Z) \in 0..FullScale
       /\ DeadlineProximity(X, Y, Z) <= DeadlineProximity(X + 1, Y, Z)
       /\ Y < Z => (DeadlineProximity(X, Y, Z) = FullScale <=> X >= Z)
  BY <1>1, ProximityScales
<1> QED  BY <1>2, <1>3, <1>4, <1>5, <1>6, <1>7, <1>8, <1>9, <1>10, <1>11, Zenon
         DEF ScalesMonotone
-----------------------------------------------------------------------------
(* Powers of two.                                                          *)

\* The powers of two double from one on, and outgrow their exponents.
LEMMA PowersDouble ==
  ASSUME NEW n \in Nat
  PROVE  /\ PowersOfTwo(n)[0] = 1
         /\ \A k \in 1..n : PowersOfTwo(n)[k] = 2 * PowersOfTwo(n)[k-1]
         /\ \A k \in 0..n : PowersOfTwo(n)[k] \in Nat /\ PowersOfTwo(n)[k] >= k + 1
<1> DEFINE Body(g, k) == IF k = 0 THEN 1 ELSE 2 * g[k-1]
           Eq(g) == g = [k \in 0..n |-> Body(g, k)]
           p == CHOOSE g : Eq(g)
<1>1. PowersOfTwo(n) = p
  BY DEF PowersOfTwo
<1>2. \E g : Eq(g)
  <2> DEFINE turn == [q \in Nat \X (1..n) |-> 2 * q[1]]
  <2>1. turn \in [Nat \X (1..n) -> Nat] /\ \A v \in Nat, k \in 1..n : turn[<<v, k>>] = 2 * v
    OBVIOUS
  <2> HIDE DEF turn
  <2>2. PICK g \in [0..n -> Nat] : RunOf(g, n, 1, turn)
    <3>1. Looping(n, Nat, 1, turn)
      BY <2>1 DEF Looping
    <3> QED  BY <3>1, LoopRuns
  <2>3. ASSUME NEW k \in 0..n PROVE g[k] = Body(g, k)
    <3>1. CASE k = 0
      BY <2>2, <3>1 DEF RunOf
    <3>2. CASE k \in 1..n
      <4>1. g[k-1] \in Nat
        BY <3>2
      <4>2. turn[<<g[k-1], k>>] = 2 * g[k-1]
        BY <2>1, <3>2, <4>1
      <4> QED  BY <2>2, <3>2, <4>2 DEF RunOf
    <3> QED  BY <3>1, <3>2
  <2>4. Eq(g)
    <3> HIDE DEF Body
    <3> QED  BY <2>3
  <2> QED  BY <2>4
<1>3. Eq(p)
  <2> HIDE DEF Eq
  <2> QED  BY <1>2
<1>4. \A k \in 0..n : p[k] = Body(p, k)
  <2> HIDE DEF Body, p
  <2> QED  BY <1>3
<1> HIDE DEF p
<1>5. p[0] = 1 /\ \A k \in 1..n : p[k] = 2 * p[k-1]
  BY <1>4
<1> DEFINE T == {k \in 0..n : p[k] \in Nat /\ p[k] >= k + 1}
<1>6. 0 \in T /\ \A k \in 1..n : k - 1 \in T => k \in T
  BY <1>5
<1>7. \A k \in 0..n : k \in T
  <2> HIDE DEF T
  <2> QED  BY <1>6, RangeInduction
<1> QED  BY <1>1, <1>5, <1>7

\* The bits of two numbers are compared from the lowest one on.
Compared(g, x, y) ==
  \A a \in 0..x, b \in 0..y :
     g[<<a, b>>] = IF a = 0 \/ b = 0 THEN 0
                   ELSE 2 * g[<<a \div 2, b \div 2>>] + (a % 2) * (b % 2)

\* The bits that two numbers share exist: each turn halves both.
LEMMA AndDescends ==
  ASSUME NEW x \in Nat, NEW y \in Nat
  PROVE  \E g \in [(0..x) \X (0..y) -> Nat] :
           And(x, y) = g[<<x, y>>] /\ Compared(g, x, y)
<1> DEFINE S == (0..x) \X (0..y)
           half(s) == <<s[1] \div 2, s[2] \div 2>>
           bit(s) == (s[1] % 2) * (s[2] % 2)
           Body(g, s) == IF s[1] = 0 \/ s[2] = 0 THEN 0 ELSE 2 * g[half(s)] + bit(s)
           Eq(g) == g = [s \in S |-> Body(g, s)]
           p == CHOOSE g : Eq(g)
<1>1. And(x, y) = p[<<x, y>>]
  BY DEF And
<1>2. ASSUME NEW s \in S
      PROVE  /\ half(s) \in S /\ bit(s) \in Nat
             /\ s[1] \in 0..x /\ s[1] # 0 => half(s)[1] < s[1]
  <2>1. s[1] \in 0..x /\ s[2] \in 0..y
    OBVIOUS
  <2>2. \A a \in Nat : a \div 2 \in 0..a /\ a % 2 \in Nat /\ (a # 0 => a \div 2 < a)
    OBVIOUS
  <2>3. s[1] % 2 \in Nat /\ s[2] % 2 \in Nat /\ s[1] \div 2 \in 0..x /\ s[2] \div 2 \in 0..y
    BY <2>1, <2>2
  <2>4. \A a, b \in Nat : a * b \in Nat
    OBVIOUS
  <2> QED  BY <2>1, <2>2, <2>3, <2>4
<1> HIDE DEF half, bit
<1>3. \E g \in [S -> Nat] : Eq(g) /\ \A s \in S : g[s] = Body(g, s)
  <2> DEFINE stop == {s \in S : s[1] = 0 \/ s[2] = 0}
             value == [s \in S |-> 0]
             next == [s \in S |-> half(s)]
             size == [s \in S |-> s[1]]
             combine == [q \in S \X Nat |-> 2 * q[2] + bit(q[1])]
  <2>1. /\ stop \in SUBSET S /\ value \in [S -> Nat]
        /\ next \in [S -> S] /\ size \in [S -> 0..x]
    BY <1>2
  <2>2. combine \in [S \X Nat -> Nat] /\ \A s \in S, v \in Nat : combine[<<s, v>>] = 2 * v + bit(s)
    BY <1>2
  <2>3. \A s \in S \ stop : size[next[s]] < size[s]
    BY <1>2
  <2>4. \A s \in S : /\ s \in stop <=> s[1] = 0 \/ s[2] = 0
                     /\ value[s] = 0 /\ next[s] = half(s)
    OBVIOUS
  <2> HIDE DEF stop, value, next, size, combine, S
  <2>5. Descends(S, Nat, stop, value, next, combine, size, x)
    BY <2>1, <2>2, <2>3 DEF Descends
  <2>6. PICK g \in [S -> Nat] : Solves(g, S, stop, value, next, combine)
    BY <2>5, DescentExists
  <2>7. \A s \in S : g[s] = IF s \in stop THEN value[s] ELSE combine[<<s, g[next[s]]>>]
    BY <2>6, Zenon DEF Solves
  <2>8. ASSUME NEW s \in S PROVE g[s] = Body(g, s)
    <3>1. g[half(s)] \in Nat
      BY <1>2 DEF S
    <3>2. combine[<<s, g[half(s)]>>] = 2 * g[half(s)] + bit(s)
      BY <2>2, <3>1
    <3>3. g[s] = IF s \in stop THEN 0 ELSE combine[<<s, g[half(s)]>>]
      BY <2>4, <2>7, Zenon
    <3> QED  BY <2>4, <3>2, <3>3, Zenon
  <2>9. Eq(g)
    <3> HIDE DEF Body
    <3> QED  BY <2>8
  <2> QED  BY <2>8, <2>9
<1>4. Eq(p)
  <2> HIDE DEF Eq
  <2> QED  BY <1>3
<1>5. PICK g \in [S -> Nat] : Eq(g) /\ \A s \in S : g[s] = Body(g, s)
  BY <1>3
<1>6. \A s \in S : p[s] = Body(p, s)
  <2> HIDE DEF Body, p, S
  <2> QED  BY <1>4
<1> DEFINE T == {k \in 0..x : \A s \in S : s[1] <= k => p[s] = g[s]}
<1> HIDE DEF p
<1>7. ASSUME NEW s \in S, s[1] # 0 => p[half(s)] = g[half(s)] PROVE p[s] = g[s]
  <2>1. Body(p, s) = Body(g, s)
    BY <1>7
  <2> HIDE DEF Body
  <2> QED  BY <1>5, <1>6, <2>1
<1>8. 0 \in T
  <2>1. \A s \in S : s[1] <= 0 => s[1] = 0
    BY <1>2
  <2> QED  BY <1>7, <2>1
<1>9. ASSUME NEW k \in 1..x, k - 1 \in T PROVE k \in T
  <2> SUFFICES ASSUME NEW s \in S, s[1] <= k PROVE p[s] = g[s]
    OBVIOUS
  <2>1. s[1] # 0 => half(s) \in S /\ half(s)[1] <= k - 1
    BY <1>2
  <2>2. s[1] # 0 => p[half(s)] = g[half(s)]
    BY <1>9, <2>1
  <2> QED  BY <1>7, <2>2
<1>10. \A k \in 0..x : k \in T
  <2> HIDE DEF T
  <2> QED  BY <1>8, <1>9, RangeInduction
<1>11. p[<<x, y>>] = g[<<x, y>>]
  <2>1. x \in T /\ <<x, y>> \in S /\ <<x, y>>[1] <= x
    <3> HIDE DEF T
    <3> QED  BY <1>10
  <2> HIDE DEF S
  <2> QED  BY <2>1
<1>12. ASSUME NEW a \in 0..x, NEW b \in 0..y
       PROVE  g[<<a, b>>] = IF a = 0 \/ b = 0 THEN 0
                            ELSE 2 * g[<<a \div 2, b \div 2>>] + (a % 2) * (b % 2)
  <2>1. <<a, b>> \in S /\ <<a, b>>[1] = a /\ <<a, b>>[2] = b
    OBVIOUS
  <2>2. half(<<a, b>>) = <<a \div 2, b \div 2>> /\ bit(<<a, b>>) = (a % 2) * (b % 2)
    BY DEF half, bit
  <2> HIDE DEF S
  <2>3. g[<<a, b>>] = Body(g, <<a, b>>)
    BY <1>5, <2>1
  <2> QED  BY <2>1, <2>2, <2>3, Zenon
<1>13. Compared(g, x, y)
  BY <1>12 DEF Compared
<1> QED  BY <1>1, <1>5, <1>11, <1>13

\* A number is twice its half, and one more when it is odd.
LEMMA HalfIs ==
  ASSUME NEW a \in Nat
  PROVE  /\ a \div 2 \in Nat
         /\ \/ a = 2 * (a \div 2) /\ a % 2 = 0
            \/ a = 2 * (a \div 2) + 1 /\ a % 2 = 1
<1> DEFINE h == a \div 2
           bit == a % 2
<1>1. h \in Nat /\ (bit = 0 \/ bit = 1)
  OBVIOUS
<1>2. bit = 0 => a = 2 * h
  OBVIOUS
<1>3. bit = 1 => a = 2 * h + 1
  OBVIOUS
<1> HIDE DEF h, bit
<1>4. h \in Nat /\ ((a = 2 * h /\ bit = 0) \/ (a = 2 * h + 1 /\ bit = 1))
  BY <1>1, <1>2, <1>3
<1> QED  BY <1>4 DEF h, bit

\* A number that shares no bit with the one before it is a power of two.
LEMMA PowersShareNothing ==
  ASSUME NEW n \in Nat
  PROVE  IsPowerOfTwo(n) <=> \E k \in 0..n : n = PowersOfTwo(n)[k]
<1> DEFINE power == PowersOfTwo(n)
           IsPower(a) == \E k \in 0..n : a = power[k]
<1>1. /\ power[0] = 1 /\ \A k \in 1..n : power[k] = 2 * power[k-1]
      /\ \A k \in 0..n : power[k] \in Nat /\ power[k] >= k + 1
  BY PowersDouble
<1> HIDE DEF power
<1>2. CASE n = 0
  BY <1>1, <1>2 DEF IsPowerOfTwo, power
<1>3. CASE n # 0
  <2>1. n - 1 \in Nat /\ n > 0
    BY <1>3
  <2>2. PICK g \in [(0..n) \X (0..(n-1)) -> Nat] :
           And(n, n - 1) = g[<<n, n - 1>>] /\ Compared(g, n, n - 1)
    BY <2>1, AndDescends
  <2>3. \A a \in 0..n, b \in 0..(n-1) : g[<<a, b>>] \in Nat
    OBVIOUS
  <2>4. ASSUME NEW c \in 1..n, 2 * c <= n PROVE IsPower(2 * c) <=> IsPower(c)
    <3>1. ASSUME IsPower(c) PROVE IsPower(2 * c)
      <4>1. PICK k \in 0..n : c = power[k]
        BY <3>1
      <4>2. k + 1 \in 1..n /\ (k + 1) - 1 = k
        BY <1>1, <2>4, <4>1
      <4>3. power[k+1] = 2 * c
        BY <1>1, <4>1, <4>2
      <4> QED  BY <4>2, <4>3
    <3>2. ASSUME IsPower(2 * c) PROVE IsPower(c)
      <4>1. PICK k \in 0..n : 2 * c = power[k]
        BY <3>2
      <4>2. k \in 1..n
        BY <1>1, <4>1
      <4>3. k - 1 \in 0..n /\ power[k-1] \in Nat /\ 2 * c = 2 * power[k-1]
        BY <1>1, <4>1, <4>2
      <4>4. c = power[k-1]
        BY <4>3
      <4> QED  BY <4>3, <4>4
    <3> QED  BY <3>1, <3>2
  <2>5. ASSUME NEW c \in 1..n PROVE ~IsPower(2 * c + 1)
    <3> SUFFICES ASSUME NEW k \in 0..n, 2 * c + 1 = power[k] PROVE FALSE
      OBVIOUS
    <3>1. k \in 1..n
      BY <1>1
    <3>2. power[k-1] \in Nat /\ 2 * c + 1 = 2 * power[k-1]
      BY <1>1, <3>1
    <3> QED  BY <3>2
  <2>6. IsPower(1)
    BY <1>1
  <2> DEFINE Same(a) == a <= n - 1 => g[<<a, a>>] = a
             Less(a) == a >= 1 => (g[<<a, a - 1>>] = 0 <=> IsPower(a))
             T == {k \in 0..n : \A a \in 0..n : a <= k => Same(a) /\ Less(a)}
  <2> HIDE DEF IsPower
  <2>7. 0 \in T
    <3>1. ASSUME NEW a \in 0..n, a <= 0 PROVE Same(a) /\ Less(a)
      <4>1. a = 0 /\ 0 \in 0..n /\ (a <= n - 1 => 0 \in 0..(n-1))
        BY <3>1
      <4> QED  BY <2>2, <4>1 DEF Compared
    <3> QED  BY <3>1
  <2>8. ASSUME NEW k \in 1..n, k - 1 \in T PROVE k \in T
    <3>1. \A a \in 0..n : a <= k - 1 => Same(a) /\ Less(a)
      BY <2>8
    <3> SUFFICES ASSUME NEW a \in 0..n, a <= k, a >= 1 PROVE Same(a) /\ Less(a)
      BY <2>8, <3>1
    <3> DEFINE c == a \div 2
    <3>2. c \in 0..n /\ c <= k - 1 /\ ((a = 2 * c /\ a % 2 = 0) \/ (a = 2 * c + 1 /\ a % 2 = 1))
      <4> HIDE DEF T
      <4>1. a \in Nat
        OBVIOUS
      <4>2. c \in Nat /\ ((a = 2 * c /\ a % 2 = 0) \/ (a = 2 * c + 1 /\ a % 2 = 1))
        BY <4>1, HalfIs
      <4> HIDE DEF c
      <4> QED  BY <4>2
    <3> HIDE DEF c
    <3>3. Same(c) /\ Less(c)
      BY <3>1, <3>2
    <3>4. a - 1 \in 0..(n-1)
      BY <2>1
    <3>5. Same(a)
      <4> SUFFICES ASSUME a <= n - 1 PROVE g[<<a, a>>] = a
        OBVIOUS
      <4>1. a \in 0..(n-1) /\ c <= n - 1 /\ c \in 0..(n-1)
        BY <3>2
      <4>2. g[<<c, c>>] = c
        BY <3>3, <4>1
      <4>3. g[<<a, a>>] = 2 * g[<<c, c>>] + (a % 2) * (a % 2)
        BY <2>2, <4>1 DEF c, Compared
      <4> QED  BY <3>2, <4>1, <4>2, <4>3
    <3>6. a # 1 => g[<<a, a - 1>>] = 2 * g[<<c, (a - 1) \div 2>>] + (a % 2) * ((a - 1) % 2)
      <4>1. a \in 0..n /\ a # 0 /\ (a # 1 => a - 1 # 0)
        OBVIOUS
      <4> DEFINE b == a - 1
      <4>2. b \in 0..(n-1) /\ (a # 1 => b # 0)
        BY <3>4, <4>1
      <4> HIDE DEF b
      <4>3. a # 1 => g[<<a, b>>] = 2 * g[<<c, b \div 2>>] + (a % 2) * (b % 2)
        BY <2>2, <4>1, <4>2 DEF c, Compared
      <4> QED  BY <4>3 DEF b
    <3>7. Less(a)
      <4>1. CASE a = 1
        <5>1. g[<<1, 0>>] = 0
          <6>1. 1 \in 0..n /\ 0 \in 0..(n-1)
            BY <2>1
          <6> QED  BY <2>2, <6>1 DEF Compared
        <5> QED  BY <2>6, <4>1, <5>1
      <4>2. CASE a # 1 /\ a = 2 * c /\ a % 2 = 0
        <5>1. c >= 1 /\ c \in 1..n /\ (a - 1) \div 2 = c - 1 /\ (a - 1) % 2 = 1
          BY <3>2, <4>2
        <5>2. g[<<a, a - 1>>] = 2 * g[<<c, c - 1>>] + (a % 2) * ((a - 1) % 2)
          BY <3>6, <4>2, <5>1
        <5>3. g[<<c, c - 1>>] \in Nat
          BY <2>3, <3>2, <3>4, <5>1
        <5>4. g[<<a, a - 1>>] = 2 * g[<<c, c - 1>>]
          BY <4>2, <5>1, <5>2, <5>3
        <5>5. g[<<c, c - 1>>] = 0 <=> IsPower(c)
          BY <3>3, <5>1
        <5>6. IsPower(a) <=> IsPower(c)
          BY <2>4, <4>2, <5>1
        <5> QED  BY <5>3, <5>4, <5>5, <5>6
      <4>3. CASE a # 1 /\ a = 2 * c + 1 /\ a % 2 = 1
        <5>1. c >= 1 /\ c \in 1..n /\ (a - 1) \div 2 = c /\ (a - 1) % 2 = 0 /\ c <= n - 1
          BY <3>2, <4>3
        <5>2. g[<<a, a - 1>>] = 2 * g[<<c, c>>] + (a % 2) * ((a - 1) % 2)
          BY <3>6, <4>3, <5>1
        <5>3. g[<<c, c>>] = c
          BY <3>3, <5>1
        <5>4. g[<<a, a - 1>>] = 2 * c
          BY <4>3, <5>1, <5>2, <5>3
        <5>5. ~IsPower(a)
          BY <2>5, <4>3, <5>1
        <5> QED  BY <5>1, <5>4, <5>5
      <4> QED  BY <3>2, <4>1, <4>2, <4>3
    <3> QED  BY <3>5, <3>7
  <2>9. \A k \in 0..n : k \in T
    <3> HIDE DEF T
    <3> QED  BY <2>7, <2>8, RangeInduction
  <2>10. Less(n)
    <3>1. n \in T /\ n \in 0..n /\ n <= n
      <4> HIDE DEF T
      <4> QED  BY <2>9
    <3> QED  BY <3>1
  <2>11. IsPowerOfTwo(n) <=> IsPower(n)
    BY <2>1, <2>2, <2>10 DEF IsPowerOfTwo
  <2> QED  BY <2>11 DEF IsPower, power
<1> QED  BY <1>2, <1>3

\* Both searches end at the one root there is; powers of two share no bit
\* with the number below.
LEMMA RootsHold == CalculationsTypeOK => RootsExact
<1> SUFFICES ASSUME CalculationsTypeOK PROVE RootsExact
  OBVIOUS
<1>1. X \in Nat /\ Y \in Nat
  BY OperandsRead
<1>2. IsRoot(X, ApproximateSqrt(X))
  BY <1>1, SearchFinds
<1>3. Isqrt(X) = ApproximateSqrt(X)
  BY <1>1, <1>2, NewtonFinds
<1>4. Y > 0 => LET size == OptimalBatchSize(X, Y) IN
               size <= X /\ size <= Y /\ (size = 0 <=> X = 0)
  BY <1>1, BatchSizeIs
<1>5. IsPowerOfTwo(X) <=> \E k \in 0..X : X = PowersOfTwo(X)[k]
  BY <1>1, PowersShareNothing
<1>6. LET r == ApproximateSqrt(X) IN r * r <= X /\ X < (r + 1) * (r + 1)
  BY <1>2 DEF IsRoot
<1> QED  BY <1>3, <1>4, <1>5, <1>6, Zenon DEF RootsExact

\* Tiers in order are those their thresholds delimit.
LEMMA TiersHold == CalculationsTypeOK => TiersOrdered
<1> SUFFICES ASSUME CalculationsTypeOK, X > 0, 2 * X <= IntMax
             PROVE  TieredFee(X, <<<<Y, 1>>, <<Y + Z, 2>>>>) =
                      <<(X * (IF X <= Y THEN 1 ELSE 2)) \div FullScale>>
  BY DEF TiersOrdered
<1>1. /\ X \in Nat /\ Y \in Nat /\ Z \in Nat /\ MaxTiers \in Nat /\ MaxTiers >= 2
      /\ IntMax \in Nat
  BY OperandsRead, SizesRead, CalculationsAssumption
<1> DEFINE tiers == <<<<Y, 1>>, <<Y + Z, 2>>>>
           reaching == {i \in 1..Len(tiers) : X <= tiers[i][1]}
           chosen == IF reaching = {} THEN Len(tiers) ELSE Min(reaching)
<1>2. /\ Len(tiers) = 2 /\ tiers # <<>>
      /\ tiers[1][1] = Y /\ tiers[2][1] = Y + Z /\ tiers[1][2] = 1 /\ tiers[2][2] = 2
  OBVIOUS
<1>3. chosen \in {1, 2} =>
        TieredFee(X, tiers) = <<(X * tiers[chosen][2]) \div FullScale>>
  <2>1. ~(tiers = <<>> \/ Len(tiers) > MaxTiers \/ X <= 0)
    BY <1>1, <1>2
  <2>2. chosen \in {1, 2} => ~(X * tiers[chosen][2] > IntMax)
    <3>1. ~(X * 1 > IntMax) /\ ~(X * 2 > IntMax)
      BY <1>1
    <3> HIDE DEF tiers, chosen
    <3> QED  BY <1>2, <3>1
  <2> HIDE DEF tiers
  <2> QED  BY <2>1, <2>2, Zenon DEF TieredFee
<1> HIDE DEF tiers
<1>4. CASE X <= Y
  <2>1. reaching = {1, 2}
    BY <1>1, <1>2, <1>4
  <2>2. Min({1, 2}) = 1
    BY LesserIs
  <2>3. chosen = 1
    BY <2>1, <2>2
  <2> QED  BY <1>2, <1>3, <1>4, <2>3, Zenon DEF tiers
<1>5. CASE X > Y /\ X <= Y + Z
  <2>1. reaching = {2, 2}
    BY <1>1, <1>2, <1>5
  <2>2. Min({2, 2}) = 2
    BY LesserIs
  <2>3. reaching # {} /\ ~(X <= Y)
    BY <1>1, <1>5, <2>1
  <2>4. chosen = 2
    BY <2>1, <2>2, <2>3
  <2> QED  BY <1>2, <1>3, <2>3, <2>4, Zenon DEF tiers
<1>6. CASE X > Y + Z
  <2>1. reaching = {}
    BY <1>1, <1>2, <1>6
  <2>2. chosen = 2 /\ ~(X <= Y)
    BY <1>1, <1>2, <1>6, <2>1
  <2> QED  BY <1>2, <1>3, <2>2, Zenon DEF tiers
<1> QED  BY <1>1, <1>4, <1>5, <1>6
-----------------------------------------------------------------------------
(* Storage.                                                                *)

\* The three flags, read out of their sum.
LEMMA FlagsRead ==
  ASSUME NEW a \in 0..1, NEW b \in 0..1, NEW c \in 0..1
  PROVE  /\ And(4 * c + 2 * b + a, 1) = a
         /\ And(4 * c + 2 * b + a, 2) = 2 * b
         /\ And(4 * c + 2 * b + a, 4) = 4 * c
<1> DEFINE m == 4 * c + 2 * b + a
           h == 2 * c + b
<1>1. /\ m \in Nat /\ h \in 0..m /\ c \in 0..m /\ m \in 0..m /\ 0 \in 0..m
      /\ m \div 2 = h /\ m % 2 = a /\ h \div 2 = c /\ h % 2 = b /\ c \div 2 = 0 /\ c % 2 = c
      /\ (m = 0 => a = 0 /\ b = 0 /\ c = 0) /\ (h = 0 => b = 0 /\ c = 0)
  OBVIOUS
<1>2. /\ 1 \div 2 = 0 /\ 1 % 2 = 1 /\ 2 \div 2 = 1 /\ 2 % 2 = 0 /\ 4 \div 2 = 2 /\ 4 % 2 = 0
      /\ 1 \in Nat /\ 2 \in Nat /\ 4 \in Nat
  OBVIOUS
<1> HIDE DEF m, h
<1>3. ASSUME NEW y \in Nat, NEW g \in [(0..m) \X (0..y) -> Nat], Compared(g, m, y),
             NEW x \in 0..m, y >= 1
      PROVE  g[<<x, 1>>] = x % 2
  <2>1. 1 \in 0..y /\ 0 \in 0..y
    BY <1>3
  <2>2. x \div 2 \in 0..m /\ x % 2 \in Nat /\ (x = 0 => x % 2 = 0)
    BY <1>1
  <2>3. g[<<x \div 2, 0>>] = 0
    BY <1>3, <2>1, <2>2 DEF Compared
  <2>4. g[<<x, 1>>] = IF x = 0 \/ 1 = 0 THEN 0 ELSE 2 * g[<<x \div 2, 1 \div 2>>] + (x % 2) * (1 % 2)
    BY <1>3, <2>1 DEF Compared
  <2> HIDE DEF Compared
  <2> QED  BY <1>2, <2>2, <2>3, <2>4
<1>4. ASSUME NEW y \in Nat, NEW g \in [(0..m) \X (0..y) -> Nat], Compared(g, m, y),
             NEW x \in 0..m, y >= 2
      PROVE  g[<<x, 2>>] = 2 * ((x \div 2) % 2)
  <2>1. 2 \in 0..y
    BY <1>4
  <2>2. x \div 2 \in 0..m /\ x % 2 \in Nat /\ (x = 0 => (x \div 2) % 2 = 0)
    BY <1>1
  <2> DEFINE w == x \div 2
  <2>3. g[<<w, 1>>] = w % 2
    <3>1. w \in 0..m /\ y >= 1
      BY <1>4, <2>2
    <3> HIDE DEF w
    <3> QED  BY <1>3, <1>4, <3>1
  <2>4. g[<<x, 2>>] = IF x = 0 \/ 2 = 0 THEN 0 ELSE 2 * g[<<x \div 2, 2 \div 2>>] + (x % 2) * (2 % 2)
    BY <1>4, <2>1 DEF Compared
  <2> QED  BY <1>2, <2>2, <2>3, <2>4
<1>5. ASSUME NEW g \in [(0..m) \X (0..4) -> Nat], Compared(g, m, 4)
      PROVE  g[<<m, 4>>] = 4 * c
  <2>1. 4 \in 0..4 /\ 4 >= 2
    OBVIOUS
  <2>2. g[<<h, 2>>] = 2 * ((h \div 2) % 2)
    BY <1>1, <1>2, <1>4, <1>5, <2>1
  <2>3. g[<<h, 2>>] = 2 * c
    BY <1>1, <2>2
  <2>4. g[<<m, 4>>] = IF m = 0 \/ 4 = 0 THEN 0 ELSE 2 * g[<<m \div 2, 4 \div 2>>] + (m % 2) * (4 % 2)
    BY <1>1, <1>5, <2>1 DEF Compared
  <2>5. g[<<m, 4>>] = IF m = 0 THEN 0 ELSE 2 * g[<<h, 2>>] + a * 0
    BY <1>1, <1>2, <2>4
  <2> QED  BY <1>1, <2>3, <2>5
<1>6. And(m, 1) = a
  <2>1. PICK g \in [(0..m) \X (0..1) -> Nat] : And(m, 1) = g[<<m, 1>>] /\ Compared(g, m, 1)
    BY <1>1, <1>2, AndDescends
  <2> QED  BY <1>1, <1>2, <1>3, <2>1
<1>7. And(m, 2) = 2 * b
  <2>1. PICK g \in [(0..m) \X (0..2) -> Nat] : And(m, 2) = g[<<m, 2>>] /\ Compared(g, m, 2)
    BY <1>1, <1>2, AndDescends
  <2> QED  BY <1>1, <1>2, <1>4, <2>1
<1>8. And(m, 4) = 4 * c
  <2>1. PICK g \in [(0..m) \X (0..4) -> Nat] : And(m, 4) = g[<<m, 4>>] /\ Compared(g, m, 4)
    BY <1>1, <1>2, AndDescends
  <2> QED  BY <1>5, <2>1
<1> QED  BY <1>6, <1>7, <1>8 DEF m

\* Setting or clearing one flag leaves the others.
LEMMA FlagsKept ==
  ASSUME NEW z \in 0..7, NEW f \in {1, 2, 4}, NEW g \in {1, 2, 4}
  PROVE  /\ And(z + f - And(z, f), g) # 0 <=> f = g \/ And(z, g) # 0
         /\ And(z - And(z, f), g) # 0 <=> f # g /\ And(z, g) # 0
<1> DEFINE Sum3(a, b, c) == 4 * c + 2 * b + a
<1>1. PICK a \in 0..1, b \in 0..1, c \in 0..1 : z = Sum3(a, b, c)
  <2> DEFINE h == z \div 2
             c == h \div 2
  <2>1. h \in 0..3
    OBVIOUS
  <2>2. (z = 2 * h /\ z % 2 = 0) \/ (z = 2 * h + 1 /\ z % 2 = 1)
    BY HalfIs
  <2>3. PICK a \in 0..1 : z = 2 * h + a
    BY <2>1, <2>2
  <2> HIDE DEF h
  <2>4. c \in 0..1
    BY <2>1
  <2>5. (h = 2 * c /\ h % 2 = 0) \/ (h = 2 * c + 1 /\ h % 2 = 1)
    BY <2>1, HalfIs
  <2>6. PICK b \in 0..1 : h = 2 * c + b
    BY <2>4, <2>5
  <2> HIDE DEF c
  <2>7. z = Sum3(a, b, c)
    BY <2>3, <2>4, <2>6
  <2> QED  BY <2>4, <2>7
<1>2. \A p, q, r \in 0..1 : /\ And(Sum3(p, q, r), 1) = p
                            /\ And(Sum3(p, q, r), 2) = 2 * q
                            /\ And(Sum3(p, q, r), 4) = 4 * r
  BY FlagsRead
<1> HIDE DEF Sum3
<1>3. And(z, 1) = a /\ And(z, 2) = 2 * b /\ And(z, 4) = 4 * c
  BY <1>1, <1>2
<1>4. CASE f = 1
  <2>1. z + 1 - a = Sum3(1, b, c) /\ z - a = Sum3(0, b, c)
    BY <1>1 DEF Sum3
  <2> QED  BY <1>2, <1>3, <1>4, <2>1
<1>5. CASE f = 2
  <2>1. z + 2 - 2 * b = Sum3(a, 1, c) /\ z - 2 * b = Sum3(a, 0, c)
    BY <1>1 DEF Sum3
  <2> QED  BY <1>2, <1>3, <1>5, <2>1
<1>6. CASE f = 4
  <2>1. z + 4 - 4 * c = Sum3(a, b, 1) /\ z - 4 * c = Sum3(a, b, 0)
    BY <1>1 DEF Sum3
  <2> QED  BY <1>2, <1>3, <1>6, <2>1
<1> QED  BY <1>4, <1>5, <1>6

\* The three flags are three bits; a key is a quotient and a remainder.
LEMMA StorageHolds == CalculationsTypeOK => StorageFaithful
<1> SUFFICES ASSUME CalculationsTypeOK PROVE StorageFaithful
  OBVIOUS
<1>1. /\ X \in Nat /\ Y \in Nat /\ Z \in Nat /\ HalfKey \in Nat /\ HalfKey > 0
      /\ Left \in Seq(Operands)
  BY OperandsRead, SizesRead
<1> DEFINE flags == {FlagActive, FlagGoalReached, FlagWithdrawn}
           campaign == [CompactCampaign(X, Y) EXCEPT !.flags = Z % 8]
           z == Z % 8
<1>2. z \in 0..7 /\ flags = {1, 2, 4}
  BY <1>1 DEF FlagActive, FlagGoalReached, FlagWithdrawn
<1>3. /\ campaign.flags = z
      /\ \A f : /\ SetFlag(campaign, f).flags = z + f - And(z, f)
                /\ ClearFlag(campaign, f).flags = z - And(z, f)
  <2>1. campaign = [goal |-> X, deadline |-> Y, raised |-> 0, flags |-> z]
    BY DEF CompactCampaign
  <2> HIDE DEF campaign, z
  <2> QED  BY <2>1 DEF SetFlag, ClearFlag
<1> HIDE DEF campaign, z
<1>4. \A f, g \in flags :
        /\ HasFlag(SetFlag(campaign, f), g) <=> f = g \/ HasFlag(campaign, g)
        /\ HasFlag(ClearFlag(campaign, f), g) <=> f # g /\ HasFlag(campaign, g)
  <2> SUFFICES ASSUME NEW f \in flags, NEW g \in flags
               PROVE  /\ HasFlag(SetFlag(campaign, f), g) <=> f = g \/ HasFlag(campaign, g)
                      /\ HasFlag(ClearFlag(campaign, f), g) <=> f # g /\ HasFlag(campaign, g)
    OBVIOUS
  <2>1. f \in {1, 2, 4} /\ g \in {1, 2, 4}
    BY <1>2
  <2> QED  BY <1>2, <1>3, <2>1, FlagsKept DEF HasFlag
<1>5. HasFlag(CompactCampaign(X, Y), FlagActive)
  <2>1. 0 \in 0..1 /\ 1 \in 0..1 /\ 4 * 0 + 2 * 0 + 1 = 1
    OBVIOUS
  <2>2. And(4 * 0 + 2 * 0 + 1, 1) = 1
    BY <2>1, FlagsRead
  <2>3. And(1, 1) = 1
    BY <2>1, <2>2
  <2> QED  BY <2>3 DEF HasFlag, CompactCampaign, FlagActive
<1>6. Y < HalfKey => UnpackStorageKey(GenerateStorageKey(X, Y)) = <<X, Y>>
  <2> SUFFICES ASSUME Y < HalfKey PROVE UnpackStorageKey(GenerateStorageKey(X, Y)) = <<X, Y>>
    OBVIOUS
  <2> DEFINE key == X * HalfKey + Y
  <2>1. key \in Nat
    BY <1>1
  <2>2. key \div HalfKey = X
    <3> HIDE DEF key
    <3>1. key = X * HalfKey + Y
      BY DEF key
    <3> QED  BY <1>1, <2>1, <3>1
  <2>3. key % HalfKey = Y
    <3> HIDE DEF key
    <3>1. key = X * HalfKey + Y
      BY DEF key
    <3> QED  BY <1>1, <2>1, <3>1
  <2> QED  BY <2>2, <2>3 DEF UnpackStorageKey, GenerateStorageKey
<1>7. Range(CompactMap(Left)) = Range(Left) \ {0}
  BY DEF Range, CompactMap
<1>8. OptimizationBeneficial(X, Y, Z) => X > Y
  BY <1>1 DEF OptimizationBeneficial, StorageCost
<1>9. GasBatchSize(X, Y * 1000) = Min({X, Y})
  <2> DEFINE gas == Y * 1000
             fit == gas \div 1000
  <2>1. fit = Y
    BY <1>1
  <2>2. GasBatchSize(X, gas) = Min({X, fit})
    BY DEF GasBatchSize
  <2> HIDE DEF fit
  <2> QED  BY <2>1, <2>2
<1> QED  BY <1>4, <1>5, <1>6, <1>7, <1>8, <1>9, Zenon DEF StorageFaithful, campaign, z
-----------------------------------------------------------------------------
(* Suites of security tests.                                               *)

\* The members of a tuple of ten.
LEMMA TenRead ==
  ASSUME NEW a, NEW b, NEW c, NEW d, NEW e, NEW f, NEW g, NEW h, NEW i, NEW j,
         NEW ten, ten = <<a, b, c, d, e, f, g, h, i, j>>
  PROVE  /\ Len(ten) = 10 /\ DOMAIN ten = 1..10
         /\ ten[1] = a /\ ten[2] = b /\ ten[3] = c /\ ten[4] = d /\ ten[5] = e
         /\ ten[6] = f /\ ten[7] = g /\ ten[8] = h /\ ten[9] = i /\ ten[10] = j
OBVIOUS

\* What a run counts: the failures are part of the cases, the critical ones
\* part of the failures.
LEMMA SuiteCounts ==
  ASSUME NEW n \in Nat, NEW outcomes, Len(outcomes) = n, DOMAIN outcomes = 1..n
  PROVE  LET ran == RunTestSuite(outcomes) IN
         /\ ran.total = n /\ ran.failed \in 0..n /\ ran.critical \in 0..n
         /\ ran.passed = n - ran.failed
         /\ ran.failed = 0 => ran.critical = 0
         /\ (\A i \in 1..n : outcomes[i][2] # "CRITICAL") => ran.critical = 0
         /\ ran.critical = 0 <=> \A i \in 1..n : outcomes[i][1] \/ outcomes[i][2] # "CRITICAL"
<1> DEFINE failed == {i \in DOMAIN outcomes : ~outcomes[i][1]}
           critical == {i \in failed : outcomes[i][2] = "CRITICAL"}
           ran == RunTestSuite(outcomes)
<1>1. /\ ran.total = n /\ ran.failed = Cardinality(failed)
      /\ ran.critical = Cardinality(critical) /\ ran.passed = n - Cardinality(failed)
  BY DEF RunTestSuite
<1>2. failed \in SUBSET (1..n) /\ critical \in SUBSET (1..n) /\ (failed = {} => critical = {})
  OBVIOUS
<1>3. /\ (\A i \in 1..n : outcomes[i][2] # "CRITICAL") => critical = {}
      /\ critical = {} <=> \A i \in 1..n : outcomes[i][1] \/ outcomes[i][2] # "CRITICAL"
  OBVIOUS
<1> HIDE DEF failed, critical, ran
<1>4. /\ Cardinality(failed) \in 0..n /\ (Cardinality(failed) = 0 <=> failed = {})
      /\ Cardinality(critical) \in 0..n /\ (Cardinality(critical) = 0 <=> critical = {})
  <2>1. /\ Cardinality(failed) \in Nat /\ Cardinality(failed) <= n
        /\ (Cardinality(failed) = 0 <=> failed = {})
    BY <1>2, PositionsCounted
  <2>2. /\ Cardinality(critical) \in Nat /\ Cardinality(critical) <= n
        /\ (Cardinality(critical) = 0 <=> critical = {})
    BY <1>2, PositionsCounted
  <2> QED  BY <2>1, <2>2
<1> QED  BY <1>1, <1>2, <1>3, <1>4 DEF ran

\* Of the ten probes each failure costs ten points and a critical one ten more;
\* the critical ones are that of the caller and the last, which is told.
LEMMA ProbesScored ==
  \A told \in BOOLEAN :
    LET probed == RunTestSuite(ProbeResults(X = Y, Y, Z, X, Z <= Y, told)) IN
    /\ SuiteScore(probed) = Max({0, 100 - 10 * (probed.failed + probed.critical)})
    /\ SuiteReport(probed) = "critical" <=> X # Y \/ ~told
<1> TAKE told \in BOOLEAN
<1> DEFINE authorized == X = Y
           inRange == Z <= Y
           ten == ProbeResults(authorized, Y, Z, X, inRange, told)
           probed == RunTestSuite(ten)
           f == probed.failed
           c == probed.critical
<1>1. authorized \in BOOLEAN /\ (X # Y <=> ~authorized)
  OBVIOUS
<1> HIDE DEF authorized, inRange
<1>2. /\ Len(ten) = 10 /\ DOMAIN ten = 1..10
      /\ ten[1] = <<TRUE, "CRITICAL">> /\ ten[2] = <<TRUE, "HIGH">>
      /\ ten[3] = <<authorized, "CRITICAL">>
      /\ ten[4] = <<Y <= Z + YearLength, "MEDIUM">>
      /\ ten[5] = <<X <= MaxOperations, "HIGH">>
      /\ ten[6] = <<told, "MEDIUM">> /\ ten[7] = <<told, "HIGH">>
      /\ ten[8] = <<inRange, "HIGH">> /\ ten[9] = <<told, "MEDIUM">>
      /\ ten[10] = <<told, "CRITICAL">>
  <2> DEFINE p1 == <<TRUE, "CRITICAL">>
             p2 == <<TRUE, "HIGH">>
             p3 == <<authorized, "CRITICAL">>
             p4 == <<Y <= Z + YearLength, "MEDIUM">>
             p5 == <<X <= MaxOperations, "HIGH">>
             p6 == <<told, "MEDIUM">>
             p7 == <<told, "HIGH">>
             p8 == <<inRange, "HIGH">>
             p9 == <<told, "MEDIUM">>
             p10 == <<told, "CRITICAL">>
  <2>1. ten = <<p1, p2, p3, p4, p5, p6, p7, p8, p9, p10>>
    BY Zenon DEF ProbeResults
  <2> HIDE DEF ten, p1, p2, p3, p4, p5, p6, p7, p8, p9, p10
  <2>2. /\ Len(ten) = 10 /\ DOMAIN ten = 1..10
        /\ ten[1] = p1 /\ ten[2] = p2 /\ ten[3] = p3 /\ ten[4] = p4 /\ ten[5] = p5
        /\ ten[6] = p6 /\ ten[7] = p7 /\ ten[8] = p8 /\ ten[9] = p9 /\ ten[10] = p10
    BY <2>1, TenRead
  <2> QED  BY <2>2, Zenon DEF p1, p2, p3, p4, p5, p6, p7, p8, p9, p10
<1>3. probed = RunTestSuite(ten)
  OBVIOUS
<1> HIDE DEF ten, probed
<1>4. /\ probed.total = 10 /\ f \in 0..10 /\ c \in 0..10 /\ probed.passed = 10 - f
      /\ c = 0 <=> \A i \in 1..10 : ten[i][1] \/ ten[i][2] # "CRITICAL"
  <2> DEFINE calm == \A i \in 1..10 : ten[i][1] \/ ten[i][2] # "CRITICAL"
             ran == RunTestSuite(ten)
  <2>1. 10 \in Nat
    OBVIOUS
  <2>2. /\ ran.total = 10 /\ ran.failed \in 0..10 /\ ran.critical \in 0..10
        /\ ran.passed = 10 - ran.failed /\ (ran.critical = 0 <=> calm)
    BY <1>2, <2>1, SuiteCounts, Zenon
  <2>3. probed = ran
    BY <1>3, Zenon
  <2> HIDE DEF calm, ran
  <2>4. /\ probed.total = 10 /\ f \in 0..10 /\ c \in 0..10 /\ probed.passed = 10 - f
        /\ c = 0 <=> calm
    BY <2>2, <2>3
  <2> QED  BY <2>4, Zenon DEF calm
<1>5. (\A i \in 1..10 : ten[i][1] \/ ten[i][2] # "CRITICAL") <=> authorized /\ told
  <2>1. \A i \in 1..10 : i \in {1, 2, 3, 4, 5, 6, 7, 8, 9, 10}
    OBVIOUS
  <2>2. 3 \in 1..10 /\ 10 \in 1..10
    OBVIOUS
  <2>3. /\ "HIGH" # "CRITICAL" /\ "MEDIUM" # "CRITICAL"
        /\ ten[1][1] = TRUE /\ ten[2][2] = "HIGH" /\ ten[4][2] = "MEDIUM"
        /\ ten[5][2] = "HIGH" /\ ten[6][2] = "MEDIUM" /\ ten[7][2] = "HIGH"
        /\ ten[8][2] = "HIGH" /\ ten[9][2] = "MEDIUM"
        /\ ten[3][2] = "CRITICAL" /\ ten[10][2] = "CRITICAL"
    BY <1>2
  <2>4. ten[3][1] = authorized /\ ten[10][1] = told
    <3>1. ASSUME NEW pair, NEW x, NEW y, pair = <<x, y>> PROVE pair[1] = x
      BY <3>1
    <3> QED  BY <1>2, <3>1, Zenon
  <2>5. ASSUME authorized, told, NEW i \in 1..10
        PROVE  ten[i][1] \/ ten[i][2] # "CRITICAL"
    BY <2>1, <2>3, <2>4, <2>5, Zenon
  <2>6. ASSUME \A i \in 1..10 : ten[i][1] \/ ten[i][2] # "CRITICAL"
        PROVE  authorized /\ told
    BY <2>2, <2>3, <2>4, <2>6, Zenon
  <2> QED  BY <2>5, <2>6, Zenon
<1>6. SuiteReport(probed) = "critical" <=> ~authorized \/ ~told
  <2>1. SuiteReport(probed) = "critical" <=> c # 0
    BY <1>4 DEF SuiteReport
  <2> HIDE DEF c
  <2> QED  BY <1>4, <1>5, <2>1, Zenon
<1>7. SuiteScore(probed) = Max({0, 100 - 10 * (f + c)})
  <2>1. SuiteScore(probed) = Max({0, ((10 - f) * 100) \div 10 - c * 10})
    BY <1>4 DEF SuiteScore
  <2> HIDE DEF f, c
  <2>2. ((10 - f) * 100) \div 10 - c * 10 = 100 - 10 * (f + c)
    BY <1>4
  <2> QED  BY <2>1, <2>2, Zenon DEF f, c
<1>8. SuiteReport(probed) = "critical" <=> X # Y \/ ~told
  BY <1>1, <1>6, Zenon
<1> QED  BY <1>7, <1>8, Zenon DEF probed, ten, authorized, inRange

\* A suite without failures has the full score; one with a critical one not.
LEMMA SuitesHold == CalculationsTypeOK => SuitesConsistent
<1> SUFFICES ASSUME CalculationsTypeOK PROVE SuitesConsistent
  OBVIOUS
<1> DEFINE severity(i) == IF i \in DOMAIN Right /\ Right[i] > 0 THEN "CRITICAL" ELSE "HIGH"
           outcomes == [i \in 1..Len(Left) |-> <<Left[i] > 0, severity(i)>>]
           ran == RunTestSuite(outcomes)
           n == Len(Left)
           severities == [i \in 1..Len(Left) |-> outcomes[i][2]]
<1>1. /\ X \in Nat /\ Y \in Nat /\ Z \in Nat /\ IntMax \in Nat /\ YearLength \in Nat
      /\ n \in Nat /\ (n = 0 <=> Left = <<>>)
  BY OperandsRead, SizesRead
<1>2. Len(outcomes) = n /\ DOMAIN outcomes = 1..n
  BY <1>1
<1>3. /\ ran.total = n /\ ran.failed \in 0..n /\ ran.critical \in 0..n
      /\ ran.passed = n - ran.failed
      /\ ran.failed = 0 => ran.critical = 0
      /\ (\A i \in 1..n : outcomes[i][2] # "CRITICAL") => ran.critical = 0
  <2> HIDE DEF outcomes, n
  <2> QED  BY <1>1, <1>2, SuiteCounts
<1>4. PostureValid(severities) => ran.critical = 0
  <2>1. DOMAIN severities = 1..n /\ \A i \in 1..n : severities[i] = outcomes[i][2]
    OBVIOUS
  <2> HIDE DEF severities, ran, outcomes, n
  <2> QED  BY <1>3, <2>1 DEF PostureValid, Range
<1> HIDE DEF ran, outcomes
<1> DEFINE rate == (ran.passed * 100) \div n
<1>5. SuiteScore(ran) = IF n = 0 THEN 0 ELSE Max({0, rate - ran.critical * 10})
  BY <1>3 DEF SuiteScore
<1>6. n # 0 => rate \in 0..100 /\ (rate = 100 <=> ran.passed = n)
  <2> SUFFICES ASSUME n # 0 PROVE rate \in 0..100 /\ (rate = 100 <=> ran.passed = n)
    OBVIOUS
  <2> DEFINE p == ran.passed
  <2>1. p \in Nat /\ p <= n /\ n \in Nat /\ n > 0 /\ 100 \in Nat /\ 100 > 0
    BY <1>1, <1>3
  <2> HIDE DEF n, p
  <2>2. (p * 100) \div n \in 0..100 /\ ((p * 100) \div n = 100 <=> p = n)
    BY <2>1, PartOfScale
  <2> QED  BY <2>2 DEF p
<1> HIDE DEF rate, n
<1>7. n # 0 => Max({0, rate - ran.critical * 10}) =
                 IF 0 >= rate - ran.critical * 10 THEN 0 ELSE rate - ran.critical * 10
  <2> SUFFICES ASSUME n # 0
               PROVE  Max({0, rate - ran.critical * 10}) =
                        IF 0 >= rate - ran.critical * 10 THEN 0 ELSE rate - ran.critical * 10
    OBVIOUS
  <2>1. rate - ran.critical * 10 \in Int
    BY <1>3, <1>6
  <2> QED  BY <2>1, GreaterIs
<1>8. /\ SuiteScore(ran) \in 0..100
      /\ SuiteScore(ran) = 100 => ran.failed = 0 /\ ran.critical = 0
      /\ ran.failed = 0 /\ ran.critical = 0 /\ n # 0 => SuiteScore(ran) = 100
  <2>1. CASE n = 0
    BY <1>5, <2>1
  <2>2. CASE n # 0
    <3> DEFINE s == SuiteScore(ran)
               c == ran.critical
               p == ran.passed
    <3>1. s = IF 0 >= rate - c * 10 THEN 0 ELSE rate - c * 10
      BY <1>5, <1>7, <2>2
    <3>2. /\ c \in Nat /\ rate \in 0..100 /\ (rate = 100 <=> p = n)
          /\ p = n - ran.failed /\ ran.failed \in Nat /\ n \in Nat
      BY <1>1, <1>3, <1>6, <2>2
    <3> HIDE DEF s, c, p
    <3>3. /\ s \in 0..100
          /\ s = 100 <=> rate = 100 /\ c = 0
      BY <3>1, <3>2
    <3>4. rate = 100 <=> ran.failed = 0
      BY <3>2
    <3> QED  BY <3>3, <3>4 DEF s, c
  <2> QED  BY <2>1, <2>2
<1>9. /\ SuiteReport(ran) = "all passed" <=> ran.critical = 0 /\ ran.failed = 0
      /\ SuiteReport(ran) = "critical" <=> ran.critical # 0
  BY <1>3 DEF SuiteReport
<1>10. /\ SuiteScore(ran) = 100 => SuiteReport(ran) = "all passed"
       /\ SuiteReport(ran) = "all passed" /\ Left # <<>> => MeetsRequirements(ran, 100)
       /\ MeetsRequirements(ran, 0) <=> SuiteReport(ran) # "critical"
  <2>1. SuiteScore(ran) = 100 => SuiteReport(ran) = "all passed"
    BY <1>8, <1>9
  <2>2. SuiteReport(ran) = "all passed" /\ Left # <<>> => MeetsRequirements(ran, 100)
    <3>1. 100 >= 100
      OBVIOUS
    <3>2. Left # <<>> => n # 0
      BY <1>1
    <3> QED  BY <1>8, <1>9, <3>1, <3>2 DEF MeetsRequirements
  <2>3. MeetsRequirements(ran, 0) <=> SuiteReport(ran) # "critical"
    <3>1. SuiteScore(ran) >= 0
      BY <1>8
    <3> QED  BY <1>9, <3>1 DEF MeetsRequirements
  <2> QED  BY <2>1, <2>2, <2>3
<1>11. \A told \in BOOLEAN :
         LET probed == RunTestSuite(ProbeResults(X = Y, Y, Z, X, Z <= Y, told)) IN
         /\ SuiteScore(probed) = Max({0, 100 - 10 * (probed.failed + probed.critical)})
         /\ SuiteReport(probed) = "critical" <=> X # Y \/ ~told
  BY ProbesScored, Zenon
<1>12. PostureValid(severities) => SuiteReport(ran) # "critical"
  BY <1>4, <1>9
<1>13. SuiteScore(ran) \in 0..100
  BY <1>8
<1> QED  BY <1>10, <1>11, <1>12, <1>13, Zenon DEF SuitesConsistent, ran, outcomes
-----------------------------------------------------------------------------
(* Sums and extremes of lists.                                             *)

\* Sums compare as their entries do.
LEMMA SumsCompared ==
  ASSUME NEW n \in Nat, NEW a \in [1..n -> Int], NEW b \in [1..n -> Int],
         NEW c \in Int, NEW e \in Int, NEW d \in Int,
         \A i \in 1..n : c * a[i] <= e * b[i] + d
  PROVE  c * PrefixSums(a, n)[n] <= e * PrefixSums(b, n)[n] + n * d
<1> DEFINE p == PrefixSums(a, n)
           q == PrefixSums(b, n)
           T == {k \in 0..n : c * p[k] <= e * q[k] + k * d}
<1>1. /\ p \in [0..n -> Int] /\ p[0] = 0 /\ \A i \in 1..n : p[i] = p[i-1] + a[i]
      /\ q \in [0..n -> Int] /\ q[0] = 0 /\ \A i \in 1..n : q[i] = q[i-1] + b[i]
  BY PrefixSumsStep
<1> HIDE DEF p, q
<1>2. 0 \in T
  <2>1. c * 0 = 0 /\ e * 0 = 0 /\ 0 * d = 0
    OBVIOUS
  <2> QED  BY <1>1, <2>1
<1>3. ASSUME NEW k \in 1..n, k - 1 \in T PROVE k \in T
  <2> DEFINE P == p[k-1]  Q == q[k-1]  A == a[k]  B == b[k]
  <2>1. P \in Int /\ Q \in Int /\ A \in Int /\ B \in Int /\ p[k] = P + A /\ q[k] = Q + B
    <3>1. k \in 1..n /\ k - 1 \in 0..n
      OBVIOUS
    <3> QED  BY <1>1, <3>1
  <2>2. c * P <= e * Q + (k - 1) * d /\ c * A <= e * B + d
    BY <1>3
  <2> HIDE DEF P, Q, A, B
  <2>3. /\ c * (P + A) = c * P + c * A /\ e * (Q + B) = e * Q + e * B
        /\ k * d = (k - 1) * d + d
    BY <2>1
  <2>4. {c * P, c * A, e * Q, e * B, (k - 1) * d} \subseteq Int
    BY <2>1
  <2>5. c * p[k] <= e * q[k] + k * d
    BY <2>1, <2>2, <2>3, <2>4
  <2> QED  BY <2>5
<1>4. \A k \in 0..n : k \in T
  <2> HIDE DEF T
  <2> QED  BY <1>2, <1>3, RangeInduction
<1> QED  BY <1>4 DEF p, q

\* A list that is not empty has a least and a greatest element.
LEMMA ExtremesExist ==
  ASSUME NEW list \in Seq(Int), list # <<>>
  PROVE  /\ Least(list) \in Int /\ Greatest(list) \in Int
         /\ \E i \in 1..Len(list) : list[i] = Least(list)
         /\ \E i \in 1..Len(list) : list[i] = Greatest(list)
         /\ \A i \in 1..Len(list) : Least(list) <= list[i] /\ list[i] <= Greatest(list)
<1> DEFINE n == Len(list)
           T == {k \in 0..n : k = 0 \/ ((\E i \in 1..k : \A j \in 1..k : list[i] <= list[j])
                                    /\ (\E i \in 1..k : \A j \in 1..k : list[j] <= list[i]))}
<1>1. n \in Nat /\ n # 0 /\ (\A i \in 1..n : list[i] \in Int) /\ DOMAIN list = 1..n
  OBVIOUS
<1> HIDE DEF n
<1>2. 0 \in T
  BY <1>1
<1>3. ASSUME NEW k \in 1..n, k - 1 \in T PROVE k \in T
  <2>1. CASE k - 1 = 0
    <3>1. k = 1 /\ \A j \in 1..k : j = 1
      BY <2>1
    <3> QED  BY <1>1, <3>1
  <2>2. CASE k - 1 # 0
    <3>1. PICK i \in 1..(k-1) : \A j \in 1..(k-1) : list[i] <= list[j]
      BY <1>3, <2>2
    <3>2. PICK l \in 1..(k-1) : \A j \in 1..(k-1) : list[j] <= list[l]
      BY <1>3, <2>2
    <3>3. /\ \A j \in 1..k : j \in 1..(k-1) \/ j = k
          /\ i \in 1..k /\ l \in 1..k /\ k \in 1..k
          /\ \A j \in 1..k : list[j] \in Int
      BY <1>1
    <3>4. list[i] \in Int /\ list[l] \in Int /\ list[k] \in Int
      BY <3>3
    <3>5. CASE list[i] <= list[k] /\ list[k] <= list[l]
      <4>1. \A j \in 1..k : list[i] <= list[j] /\ list[j] <= list[l]
        BY <3>1, <3>2, <3>3, <3>5
      <4> QED  BY <3>3, <4>1
    <3>6. CASE list[k] < list[i]
      <4>1. \A j \in 1..k : list[k] <= list[j]
        BY <3>1, <3>3, <3>4, <3>6
      <4>2. list[k] <= list[l]
        BY <3>1, <3>4, <3>6
      <4>3. \A j \in 1..k : list[j] <= list[l]
        BY <3>2, <3>3, <4>2
      <4> QED  BY <3>3, <4>1, <4>3
    <3>7. CASE list[l] < list[k]
      <4>1. \A j \in 1..k : list[j] <= list[k]
        BY <3>2, <3>3, <3>4, <3>7
      <4>2. list[i] <= list[k]
        BY <3>1, <3>4, <3>7
      <4>3. \A j \in 1..k : list[i] <= list[j]
        BY <3>1, <3>3, <4>2
      <4> QED  BY <3>3, <4>1, <4>3
    <3> QED  BY <3>4, <3>5, <3>6, <3>7
  <2> QED  BY <2>1, <2>2
<1>4. \A k \in 0..n : k \in T
  <2> HIDE DEF T
  <2> QED  BY <1>1, <1>2, <1>3, RangeInduction
<1>5. /\ \E i \in 1..n : \A j \in 1..n : list[i] <= list[j]
      /\ \E i \in 1..n : \A j \in 1..n : list[j] <= list[i]
  <2>1. n \in T
    <3> HIDE DEF T
    <3> QED  BY <1>1, <1>4
  <2> QED  BY <1>1, <2>1
<1>6. /\ \A x \in Range(list) : \E i \in 1..n : list[i] = x
      /\ \A i \in 1..n : list[i] \in Range(list)
  BY <1>1 DEF Range
<1>7. /\ \E x \in Range(list) : \A y \in Range(list) : x <= y
      /\ \E x \in Range(list) : \A y \in Range(list) : y <= x
  <2>1. PICK i \in 1..n : \A j \in 1..n : list[i] <= list[j]
    BY <1>5
  <2>2. list[i] \in Range(list) /\ \A y \in Range(list) : list[i] <= y
    BY <1>6, <2>1, Zenon
  <2>3. PICK k \in 1..n : \A j \in 1..n : list[j] <= list[k]
    BY <1>5
  <2>4. list[k] \in Range(list) /\ \A y \in Range(list) : y <= list[k]
    BY <1>6, <2>3, Zenon
  <2> QED  BY <2>2, <2>4, Zenon
<1>8. /\ Least(list) \in Range(list) /\ \A y \in Range(list) : Least(list) <= y
      /\ Greatest(list) \in Range(list) /\ \A y \in Range(list) : y <= Greatest(list)
  BY <1>7 DEF Least, Greatest
<1> QED  BY <1>1, <1>6, <1>8 DEF n

\* A weighted average lies within the amounts it averages.
LEMMA AverageBetween ==
  ASSUME NEW a \in Seq(Int), NEW w \in Seq(Int), WeightedAverage(a, w) # <<>>
  PROVE  WeightedAverage(a, w)[1] \in Least(a)..Greatest(a)
<1> DEFINE n == Len(a)
           product == [i \in 1..n |-> a[i] * w[i]]
           P == Total(product)
           W == Total(w)
           low == Least(a)
           high == Greatest(a)
<1>1. /\ n \in Nat /\ Len(w) = n /\ W # 0
      /\ \A i \in 1..n : a[i] >= 0 /\ w[i] >= 0
      /\ WeightedAverage(a, w) = <<P \div W>>
  <2>1. ~(\/ Len(a) # Len(w) \/ Len(a) > MaxSlice
          \/ \E i \in 1..Len(a) : a[i] < 0 \/ w[i] < 0
          \/ Total(product) > IntMax \/ Total(w) > IntMax
          \/ Total(w) = 0)
    BY Zenon DEF WeightedAverage
  <2>2. WeightedAverage(a, w) = <<P \div W>>
    BY <2>1, Zenon DEF WeightedAverage
  <2>3. \A i \in 1..n : a[i] \in Int /\ w[i] \in Int
    BY <2>1
  <2> HIDE DEF P
  <2> QED  BY <2>1, <2>2, <2>3
<1>2. /\ a \in [1..n -> Int] /\ w \in [1..n -> Int]
      /\ product \in [1..n -> Int] /\ Len(product) = n
      /\ \A i \in 1..n : product[i] = a[i] * w[i]
  BY <1>1
<1>3. P = PrefixSums(product, n)[n] /\ W = PrefixSums(w, n)[n]
  <2> HIDE DEF product
  <2> QED  BY <1>1, <1>2 DEF Total
<1> HIDE DEF product, P, W
<1>4. W \in Int /\ P \in Int /\ W >= 0 /\ P >= 0
  <2>1. \A i \in 1..n : product[i] >= 0
    <3> TAKE i \in 1..n
    <3>1. a[i] \in Nat /\ w[i] \in Nat
      BY <1>1, <1>2
    <3> QED  BY <1>2, <3>1
  <2>2. n \in 0..n
    BY <1>1
  <2> QED  BY <1>1, <1>2, <1>3, <2>1, <2>2, PrefixSumsStep, PrefixSumsNonneg
<1>5. n # 0
  <2> SUFFICES ASSUME n = 0 PROVE FALSE
    OBVIOUS
  <2>1. PrefixSums(w, n)[0] = 0
    BY <1>1, <1>2, PrefixSumsStep
  <2> HIDE DEF n
  <2> QED  BY <1>1, <1>3, <2>1
<1>6. /\ low \in Nat /\ high \in Nat
      /\ \A i \in 1..n : low <= a[i] /\ a[i] <= high
  <2>1. /\ low \in Int /\ high \in Int
        /\ \E i \in 1..n : a[i] = low
        /\ \E i \in 1..n : a[i] = high
        /\ \A i \in 1..n : low <= a[i] /\ a[i] <= high
    <3>1. a # <<>>
      BY <1>5
    <3> QED  BY <3>1, ExtremesExist
  <2> HIDE DEF low, high
  <2> QED  BY <1>1, <1>2, <2>1
<1> HIDE DEF low, high, n
<1>7. /\ 0 \in Int /\ 1 \in Int /\ low \in Int /\ high \in Int
      /\ \A i \in 1..n : a[i] \in Int /\ w[i] \in Int
      /\ W \in Nat /\ W > 0 /\ P \in Nat
  BY <1>1, <1>2, <1>4, <1>6
<1>8. ASSUME NEW i \in 1..n
      PROVE  low * w[i] <= 1 * product[i] + 0 /\ 1 * product[i] <= high * w[i] + 0
  <2> DEFINE u == a[i]
             v == w[i]
  <2>1. u \in Int /\ v \in Nat /\ low <= u /\ u <= high /\ product[i] = u * v
    BY <1>1, <1>2, <1>6, <1>7
  <2> HIDE DEF u, v
  <2>2. low * v <= u * v /\ u * v <= high * v
    BY <1>7, <2>1
  <2>3. u * v \in Int /\ high * v \in Int
    BY <1>7, <2>1
  <2> QED  BY <2>1, <2>2, <2>3 DEF v
<1>9. low * W <= P /\ P <= high * W
  <2>1. low * PrefixSums(w, n)[n] <= 1 * PrefixSums(product, n)[n] + n * 0
    BY <1>1, <1>2, <1>7, <1>8, SumsCompared, ZenonT(30)
  <2>2. 1 * PrefixSums(product, n)[n] <= high * PrefixSums(w, n)[n] + n * 0
    BY <1>1, <1>2, <1>7, <1>8, SumsCompared, ZenonT(30)
  <2>3. low * W <= 1 * P + n * 0 /\ 1 * P <= high * W + n * 0
    BY <1>3, <2>1, <2>2
  <2>4. high * W \in Int /\ n * 0 = 0 /\ 1 * P = P
    BY <1>1, <1>7
  <2> QED  BY <1>7, <2>3, <2>4
<1>10. P \div W \in low..high
  <2>1. P \div W \in Nat /\ (P \div W >= low <=> P >= low * W)
    BY <1>6, <1>7, QuotientReaches
  <2>2. high + 1 \in Nat
    BY <1>6
  <2>3. P \div W >= high + 1 <=> P >= (high + 1) * W
    BY <1>7, <2>2, QuotientReaches
  <2>4. (high + 1) * W = high * W + W /\ high * W \in Int /\ low * W \in Int
    BY <1>7
  <2> DEFINE q == P \div W
  <2> HIDE DEF q
  <2>5. q \in Nat /\ q >= low /\ ~(q >= high + 1)
    BY <1>7, <1>9, <2>1, <2>3, <2>4 DEF q
  <2>6. q \in low..high
    BY <1>6, <2>5
  <2> QED  BY <2>6 DEF q
<1> QED  BY <1>1, <1>10 DEF low, high

\* What a bounded loop visits is the start of the list.
LEMMA VisitedStart ==
  ASSUME NEW S, NEW list \in Seq(S)
  PROVE  /\ Visited(list) \in Seq(S) /\ Len(Visited(list)) \in 0..Len(list)
         /\ DOMAIN Visited(list) = 1..Len(Visited(list))
         /\ \A i \in 1..Len(Visited(list)) : Visited(list)[i] = list[i]
         /\ Len(Visited(list)) = 0 <=> list = <<>>
<1> DEFINE m == IF Len(list) < MaxItems THEN Len(list) ELSE MaxItems
<1>1. MaxItems \in Nat /\ MaxItems > 0 /\ Len(list) \in Nat
  BY SizesRead
<1>2. m \in 0..Len(list) /\ (m = 0 <=> Len(list) = 0) /\ m \in Nat
  BY <1>1
<1>3. Visited(list) = SubSeq(list, 1, m)
  BY Zenon DEF Visited
<1> HIDE DEF m
<1>4. /\ SubSeq(list, 1, m) \in Seq(S) /\ Len(SubSeq(list, 1, m)) = m
      /\ \A i \in 1..m : SubSeq(list, 1, m)[i] = list[i]
  BY <1>1, <1>2, SubSeqProperties
<1>5. Len(list) = 0 <=> list = <<>>
  OBVIOUS
<1>6. DOMAIN SubSeq(list, 1, m) = 1..m
  BY <1>4
<1> QED  BY <1>2, <1>3, <1>4, <1>5, <1>6

\* An average, a rank and the extremes of a list.
LEMMA AveragesHold == CalculationsTypeOK => AveragesWithin
<1> SUFFICES ASSUME CalculationsTypeOK PROVE AveragesWithin
  OBVIOUS
<1>1. /\ Left \in Seq(Operands) /\ Right \in Seq(Operands) /\ Operands \subseteq Int
      /\ FullScale \in Nat /\ FullScale > 0
  BY OperandsRead, SizesRead
<1>2. Left \in Seq(Int) /\ Right \in Seq(Int)
  BY <1>1, SeqGrows
<1>3. WeightedAverage(Left, Right) # <<>> =>
        WeightedAverage(Left, Right)[1] \in Least(Left)..Greatest(Left)
  BY <1>2, AverageBetween
<1> DEFINE Ranked == ~(Left = <<>> \/ Len(Left) > MaxSlice)
<1>4. /\ Ranked => MinMax(Left) = <<Least(Left), Greatest(Left)>>
      /\ ~Ranked => MinMax(Left) = <<>>
      /\ \A x : ~Ranked => PercentileRank(x, Left) = <<>>
      /\ Ranked <=> MinMax(Left) # <<>>
  <2>1. /\ Ranked => MinMax(Left) = <<Least(Left), Greatest(Left)>>
        /\ ~Ranked => MinMax(Left) = <<>>
        /\ \A x : ~Ranked => PercentileRank(x, Left) = <<>>
    BY Zenon DEF MinMax, PercentileRank
  <2>2. <<Least(Left), Greatest(Left)>> # <<>>
    OBVIOUS
  <2> QED  BY <2>1, <2>2, Zenon
<1>5. ASSUME NEW x \in Operands, Ranked
      PROVE  PercentileRank(x, Left) = <<FullScale>> <=> x >= MinMax(Left)[2]
  <2> DEFINE n == Len(Left)
             below == {i \in DOMAIN Left : Left[i] <= x}
             c == Cardinality(below)
  <2>1. n \in Nat /\ n > 0 /\ DOMAIN Left = 1..n /\ x \in Int
    BY <1>1, <1>5
  <2>2. below \in SUBSET (1..n)
    BY <2>1
  <2> HIDE DEF below
  <2>3. c \in Nat /\ c <= n /\ (c = n <=> below = 1..n)
    BY <2>1, <2>2, PositionsCounted
  <2>4. PercentileRank(x, Left) = <<(c * FullScale) \div n>>
    BY <1>5, Zenon DEF PercentileRank, below
  <2> HIDE DEF c, n
  <2>5. (c * FullScale) \div n = FullScale <=> c = n
    BY <1>1, <2>1, <2>3, PartOfScale
  <2>6. /\ MinMax(Left)[2] = Greatest(Left) /\ Greatest(Left) \in Int
        /\ \E i \in 1..n : Left[i] = Greatest(Left)
        /\ \A i \in 1..n : Left[i] \in Int /\ Left[i] <= Greatest(Left)
    BY <1>2, <1>4, <1>5, <2>1, ExtremesExist DEF n
  <2>7. below = 1..n <=> x >= Greatest(Left)
    <3>1. below = 1..n <=> \A i \in 1..n : Left[i] <= x
      BY <2>1 DEF below
    <3> QED  BY <2>1, <2>6, <3>1
  <2>8. PercentileRank(x, Left) = <<FullScale>> <=> (c * FullScale) \div n = FullScale
    BY <2>4
  <2> QED  BY <2>3, <2>5, <2>6, <2>7, <2>8
<1>6. ASSUME NEW x \in Operands
      PROVE  PercentileRank(x, Left) = <<FullScale>> <=>
               MinMax(Left) # <<>> /\ x >= MinMax(Left)[2]
  <2>1. <<FullScale>> # <<>>
    OBVIOUS
  <2> HIDE DEF Ranked
  <2> QED  BY <1>4, <1>5, <2>1, Zenon
<1>7. Visited(Left) = Left /\ MinMax(Left) # <<>> =>
        MinMax(Left) = <<AggregateStats(Left).min, AggregateStats(Left).max>>
  BY <1>4 DEF AggregateStats
<1> QED  BY <1>3, <1>6, <1>7 DEF AveragesWithin
-----------------------------------------------------------------------------
(* Loops.                                                                  *)

\* A sum that saturates at each addition is exact when no prefix leaves the
\* range.
LEMMA SaturatedSum ==
  ASSUME NEW list \in Seq(Int),
         \A k \in 0..Len(Visited(list)) :
            Total(SubSeq(list, 1, k)) = Saturated(Total(SubSeq(list, 1, k)))
  PROVE  BoundedSum(list) = Total(Visited(list))
<1> DEFINE n == Len(Visited(list))
           Body(g, i) == IF i = 0 THEN 0 ELSE Saturated(g[i-1] + list[i])
           Eq(g) == g = [i \in 0..n |-> Body(g, i)]
           p == CHOOSE g : Eq(g)
           s == PrefixSums(Visited(list), n)
<1>1. /\ n \in Nat /\ Visited(list) \in [1..n -> Int] /\ Len(list) \in Nat /\ n <= Len(list)
      /\ \A i \in 1..n : Visited(list)[i] = list[i] /\ list[i] \in Int
  <2>1. /\ Visited(list) \in Seq(Int) /\ n \in 0..Len(list)
        /\ \A i \in 1..n : Visited(list)[i] = list[i]
    BY VisitedStart
  <2> QED  BY <2>1
<1>2. BoundedSum(list) = p[n]
  BY Zenon DEF BoundedSum
<1>3. Total(Visited(list)) = s[n]
  BY DEF Total
<1>4. \A x \in Int : Saturated(x) \in Int
  <2>1. IntMax \in Nat
    BY SizesRead
  <2> QED  BY <2>1 DEF Saturated, Between
<1> HIDE DEF n
<1>5. \E g : Eq(g)
  <2> DEFINE turn == [q \in Int \X (1..n) |-> Saturated(q[1] + list[q[2]])]
  <2>1. /\ turn \in [Int \X (1..n) -> Int]
        /\ \A v \in Int, i \in 1..n : turn[<<v, i>>] = Saturated(v + list[i])
    <3>1. ASSUME NEW v \in Int, NEW i \in 1..n PROVE Saturated(v + list[i]) \in Int
      <4>1. v + list[i] \in Int
        BY <1>1
      <4> QED  BY <1>4, <4>1
    <3> QED  BY <3>1
  <2> HIDE DEF turn
  <2>2. Looping(n, Int, 0, turn)
    BY <1>1, <2>1 DEF Looping
  <2>3. PICK g \in [0..n -> Int] : RunOf(g, n, 0, turn)
    BY <2>2, LoopRuns
  <2>4. ASSUME NEW i \in 0..n PROVE g[i] = Body(g, i)
    <3>1. CASE i = 0
      BY <2>3, <3>1 DEF RunOf
    <3>2. CASE i \in 1..n
      <4>1. g[i-1] \in Int
        BY <1>1, <3>2
      <4>2. turn[<<g[i-1], i>>] = Saturated(g[i-1] + list[i])
        BY <2>1, <3>2, <4>1
      <4> QED  BY <2>3, <3>2, <4>2 DEF RunOf
    <3> QED  BY <1>1, <3>1, <3>2
  <2>5. Eq(g)
    <3> HIDE DEF Body
    <3> QED  BY <2>4
  <2> QED  BY <2>5
<1>6. Eq(p)
  <2> HIDE DEF Eq
  <2> QED  BY <1>5
<1>7. \A i \in 0..n : p[i] = Body(p, i)
  <2> HIDE DEF Body, p
  <2> QED  BY <1>6
<1> HIDE DEF p
<1>8. s \in [0..n -> Int] /\ s[0] = 0 /\ \A i \in 1..n : s[i] = s[i-1] + list[i]
  <2>1. s \in [0..n -> Int] /\ s[0] = 0 /\ \A i \in 1..n : s[i] = s[i-1] + Visited(list)[i]
    BY <1>1, PrefixSumsStep
  <2> QED  BY <1>1, <2>1
<1>9. ASSUME NEW k \in 0..n PROVE Saturated(s[k]) = s[k]
  <2> DEFINE part == SubSeq(list, 1, k)
  <2>1. part \in [1..k -> Int] /\ Len(part) = k /\ \A i \in 1..k : part[i] = Visited(list)[i]
    <3>1. k \in Nat /\ k <= Len(list)
      BY <1>1
    <3>2. part \in Seq(Int) /\ Len(part) = k /\ \A i \in 1..k : part[i] = list[i]
      BY <3>1, SubSeqProperties
    <3> HIDE DEF part
    <3>3. part \in [1..k -> Int]
      BY <3>2
    <3>4. \A i \in 1..k : i \in 1..n
      BY <1>1
    <3> QED  BY <1>1, <3>2, <3>3, <3>4
  <2>2. Total(part) = Saturated(Total(part))
    BY DEF n
  <2> HIDE DEF part
  <2>3. PrefixSums(part, k)[k] = s[k]
    BY <1>1, <2>1, PrefixSumsExtend
  <2> QED  BY <2>1, <2>2, <2>3 DEF Total
<1> HIDE DEF s
<1> DEFINE T == {k \in 0..n : p[k] = s[k]}
<1>10. 0 \in T
  BY <1>1, <1>7, <1>8
<1>11. ASSUME NEW k \in 1..n, k - 1 \in T PROVE k \in T
  <2>1. p[k] = Saturated(p[k-1] + list[k])
    BY <1>1, <1>7
  <2>2. p[k-1] = s[k-1] /\ s[k] = s[k-1] + list[k]
    BY <1>8, <1>11
  <2>3. Saturated(s[k]) = s[k]
    BY <1>1, <1>9
  <2> QED  BY <2>1, <2>2, <2>3
<1>12. \A k \in 0..n : k \in T
  <2> HIDE DEF T
  <2> QED  BY <1>1, <1>10, <1>11, RangeInduction
<1> QED  BY <1>1, <1>2, <1>3, <1>12

\* One turn of deduplicate_sorted, and what it builds.
DropTurn(s, x) == IF s # <<>> /\ s[Len(s)] = x THEN s ELSE Append(s, x)

\* The loop that drops repeats, turn by turn.
LEMMA DeduplicateRuns ==
  ASSUME NEW S, NEW list \in Seq(S)
  PROVE  LET n == Len(Visited(list)) IN
         \E p : /\ DeduplicateSorted(list) = p[n] /\ p[0] = <<>>
                /\ \A i \in 1..n : p[i] = DropTurn(p[i-1], list[i])
<1> DEFINE n == Len(Visited(list))
           Body(g, i) == IF i = 0 THEN <<>> ELSE DropTurn(g[i-1], list[i])
           Eq(g) == g = [i \in 0..n |-> Body(g, i)]
           p == CHOOSE g : Eq(g)
<1>1. n \in Nat /\ \A i \in 1..n : list[i] \in S
  <2>1. n \in 0..Len(list) /\ Len(list) \in Nat
    BY VisitedStart
  <2> HIDE DEF n
  <2> QED  BY <2>1
<1>2. DeduplicateSorted(list) = p[n]
  <2> DEFINE Long(g, i) == IF i = 0 THEN <<>>
                           ELSE IF g[i-1] # <<>> /\ g[i-1][Len(g[i-1])] = list[i] THEN g[i-1]
                           ELSE Append(g[i-1], list[i])
  <2>1. DeduplicateSorted(list) = (CHOOSE g : g = [i \in 0..n |-> Long(g, i)])[n]
    BY Zenon DEF DeduplicateSorted
  <2>2. \A g, i : Long(g, i) = Body(g, i)
    BY Zenon DEF DropTurn
  <2> HIDE DEF Long, Body
  <2>3. \A g : [i \in 0..n |-> Long(g, i)] = [i \in 0..n |-> Body(g, i)]
    BY <2>2, Zenon
  <2> QED  BY <2>1, <2>3, Zenon
<1> HIDE DEF n
<1>3. \A s \in Seq(S), x \in S : DropTurn(s, x) \in Seq(S)
  BY DEF DropTurn
<1>4. \E g : Eq(g)
  <2> DEFINE turn == [q \in Seq(S) \X (1..n) |-> DropTurn(q[1], list[q[2]])]
  <2>1. /\ turn \in [Seq(S) \X (1..n) -> Seq(S)]
        /\ \A s \in Seq(S), i \in 1..n : turn[<<s, i>>] = DropTurn(s, list[i])
    <3>1. ASSUME NEW s \in Seq(S), NEW i \in 1..n PROVE DropTurn(s, list[i]) \in Seq(S)
      BY <1>1, <1>3
    <3> QED  BY <3>1
  <2> HIDE DEF turn
  <2>2. Looping(n, Seq(S), <<>>, turn)
    BY <1>1, <2>1 DEF Looping
  <2>3. PICK g \in [0..n -> Seq(S)] : RunOf(g, n, <<>>, turn)
    BY <2>2, LoopRuns
  <2>4. ASSUME NEW i \in 0..n PROVE g[i] = Body(g, i)
    <3>1. CASE i = 0
      BY <2>3, <3>1 DEF RunOf
    <3>2. CASE i \in 1..n
      <4>1. g[i-1] \in Seq(S)
        BY <1>1, <3>2
      <4>2. turn[<<g[i-1], i>>] = DropTurn(g[i-1], list[i])
        BY <2>1, <3>2, <4>1
      <4> QED  BY <2>3, <3>2, <4>2 DEF RunOf
    <3> QED  BY <1>1, <3>1, <3>2
  <2>5. Eq(g)
    <3> HIDE DEF Body
    <3> QED  BY <2>4
  <2> QED  BY <2>5
<1>5. Eq(p)
  <2> HIDE DEF Eq
  <2> QED  BY <1>4
<1>6. \A i \in 0..n : p[i] = Body(p, i)
  <2> HIDE DEF Body, p
  <2> QED  BY <1>5
<1> HIDE DEF p
<1>7. p[0] = <<>> /\ \A i \in 1..n : p[i] = DropTurn(p[i-1], list[i])
  BY <1>1, <1>6
<1> QED  BY <1>2, <1>7 DEF n

\* What is kept of the first k elements: the same values, no two neighbours
\* equal, in order when they were; the last one kept is the last one seen.
Deduplicated(s, list, k) ==
  /\ s \in Seq(Int)
  /\ k # 0 => Len(s) > 0 /\ s[Len(s)] = list[k]
  /\ \A i \in 1..Len(s) : \E j \in 1..k : s[i] = list[j]
  /\ \A j \in 1..k : \E i \in 1..Len(s) : s[i] = list[j]
  /\ \A i \in 2..Len(s) : s[i] # s[i-1]
  /\ (\A i \in 2..k : list[i] >= list[i-1]) =>
       \A i, j \in 1..Len(s) : i < j => s[i] < s[j]

\* A turn keeps the elements, the order and the absence of repeats.
LEMMA DropTurnKeeps ==
  ASSUME NEW n \in Nat, NEW list, \A i \in 1..n : list[i] \in Int,
         NEW k \in 1..n, NEW s, Deduplicated(s, list, k - 1)
  PROVE  Deduplicated(DropTurn(s, list[k]), list, k)
<1> DEFINE x == list[k]
           t == DropTurn(s, x)
           m == Len(s)
<1>1. s \in Seq(Int) /\ m \in Nat /\ x \in Int /\ \A i \in 1..m : s[i] \in Int
  <2>1. s \in Seq(Int)
    BY DEF Deduplicated
  <2>2. x \in Int
    OBVIOUS
  <2> QED  BY <2>1, <2>2
<1>2. /\ \A j \in 1..k : j \in 1..(k-1) \/ j = k
      /\ \A j \in 1..(k-1) : j \in 1..k
      /\ k \in 1..k /\ k # 0
  OBVIOUS
<1>3. /\ k - 1 # 0 => m > 0 /\ s[m] = list[k-1]
      /\ \A i \in 1..m : \E j \in 1..(k-1) : s[i] = list[j]
      /\ \A j \in 1..(k-1) : \E i \in 1..m : s[i] = list[j]
      /\ \A i \in 2..m : s[i] # s[i-1]
      /\ (\A i \in 2..(k-1) : list[i] >= list[i-1]) =>
           \A i, j \in 1..m : i < j => s[i] < s[j]
  BY DEF Deduplicated
<1>4. CASE m > 0 /\ s[m] = x
  <2>1. t = s
    BY <1>1, <1>4 DEF DropTurn
  <2>2. m \in 1..m
    BY <1>1, <1>4
  <2>3. \A i \in 1..m : \E j \in 1..k : s[i] = list[j]
    BY <1>2, <1>3
  <2>4. \A j \in 1..k : \E i \in 1..m : s[i] = list[j]
    BY <1>2, <1>3, <1>4, <2>2
  <2>5. (\A i \in 2..k : list[i] >= list[i-1]) => \A i \in 2..(k-1) : list[i] >= list[i-1]
    OBVIOUS
  <2>6. Deduplicated(s, list, k)
    <3> HIDE DEF m
    <3> QED  BY <1>1, <1>3, <1>4, <2>3, <2>4, <2>5 DEF Deduplicated, m
  <2> QED  BY <2>1, <2>6
<1>5. CASE ~(m > 0 /\ s[m] = x)
  <2>1. t = Append(s, x)
    <3>1. ~(s # <<>> /\ s[Len(s)] = x)
      BY <1>1, <1>5
    <3> QED  BY <3>1 DEF DropTurn
  <2>2. /\ t \in Seq(Int) /\ Len(t) = m + 1 /\ t[m + 1] = x
        /\ \A i \in 1..m : t[i] = s[i]
    BY <1>1, <2>1, AppendProperties
  <2> HIDE DEF t, x, m
  <2>3. /\ \A i \in 1..(m+1) : i \in 1..m \/ i = m + 1
        /\ \A i \in 1..m : i \in 1..(m+1)
        /\ m + 1 \in 1..(m+1) /\ m + 1 > 0
    BY <1>1
  <2>4. ASSUME NEW i \in 1..(m+1) PROVE \E j \in 1..k : t[i] = list[j]
    <3>1. CASE i \in 1..m
      <4>1. PICK j \in 1..(k-1) : s[i] = list[j]
        BY <1>3, <3>1
      <4> QED  BY <1>2, <2>2, <3>1, <4>1
    <3>2. CASE i = m + 1
      BY <1>2, <2>2, <3>2 DEF x
    <3> QED  BY <2>3, <3>1, <3>2
  <2>5. ASSUME NEW j \in 1..k PROVE \E i \in 1..(m+1) : t[i] = list[j]
    <3>1. CASE j \in 1..(k-1)
      <4>1. PICK i \in 1..m : s[i] = list[j]
        BY <1>3, <3>1
      <4> QED  BY <2>2, <2>3, <4>1
    <3>2. CASE j = k
      BY <2>2, <2>3, <3>2 DEF x
    <3> QED  BY <1>2, <3>1, <3>2
  <2>6. ASSUME NEW i \in 2..(m+1) PROVE t[i] # t[i-1]
    <3>1. CASE i \in 2..m
      <4>1. i \in 1..m /\ i - 1 \in 1..m
        BY <1>1, <3>1
      <4> QED  BY <1>3, <2>2, <3>1, <4>1
    <3>2. CASE i = m + 1
      <4>1. m > 0 /\ m \in 1..m /\ i - 1 = m
        BY <1>1, <3>2
      <4> QED  BY <1>5, <2>2, <3>2, <4>1
    <3> QED  BY <1>1, <3>1, <3>2
  <2>7. ASSUME \A i \in 2..k : list[i] >= list[i-1], NEW i \in 1..(m+1), NEW j \in 1..(m+1), i < j
        PROVE  t[i] < t[j]
    <3>1. \A a, b \in 1..m : a < b => s[a] < s[b]
      <4>1. \A a \in 2..(k-1) : list[a] >= list[a-1]
        BY <2>7
      <4> QED  BY <1>3, <4>1
    <3>2. CASE j \in 1..m
      <4>1. i \in 1..m
        BY <1>1, <2>7, <3>2
      <4> QED  BY <2>2, <2>7, <3>1, <3>2, <4>1
    <3>3. CASE j = m + 1
      <4>1. i \in 1..m /\ m > 0 /\ m \in 1..m
        BY <1>1, <2>7, <3>3
      <4>2. s[m] <= x
        <5>1. k - 1 # 0
          <6>1. \E h \in 1..(k-1) : s[i] = list[h]
            BY <1>3, <4>1
          <6> QED  BY <6>1
        <5>2. s[m] = list[k-1]
          BY <1>3, <5>1
        <5>3. k \in 2..k
          BY <5>1
        <5>4. list[k] >= list[k-1]
          BY <2>7, <5>3
        <5>5. k - 1 \in 1..n
          BY <5>1
        <5> QED  BY <5>2, <5>4, <5>5 DEF x
      <4>3. s[m] < x
        BY <1>1, <1>5, <4>1, <4>2
      <4>4. s[i] <= s[m]
        BY <1>1, <3>1, <4>1
      <4> QED  BY <1>1, <2>2, <3>3, <4>1, <4>3, <4>4
    <3> QED  BY <2>3, <3>2, <3>3
  <2>8. Deduplicated(t, list, k)
    BY <1>1, <2>2, <2>3, <2>4, <2>5, <2>6, <2>7 DEF Deduplicated, x
  <2> QED  BY <2>8 DEF t, x
<1> QED  BY <1>4, <1>5

\* A list without repeats holds what the loop visited; neighbours differ; when
\* the list was in order nothing is in it twice.
LEMMA DeduplicateHolds ==
  ASSUME NEW list \in Seq(Int)
  PROVE  Deduplicated(DeduplicateSorted(list), list, Len(Visited(list)))
<1> DEFINE n == Len(Visited(list))
<1>1. n \in Nat /\ \A i \in 1..n : list[i] \in Int
  <2>1. n \in 0..Len(list) /\ Len(list) \in Nat
    BY VisitedStart
  <2> HIDE DEF n
  <2> QED  BY <2>1
<1>2. PICK p : /\ DeduplicateSorted(list) = p[n] /\ p[0] = <<>>
               /\ \A i \in 1..n : p[i] = DropTurn(p[i-1], list[i])
  BY DeduplicateRuns
<1> HIDE DEF n
<1> DEFINE T == {k \in 0..n : Deduplicated(p[k], list, k)}
<1>3. 0 \in T
  <2>1. <<>> \in Seq(Int) /\ Len(<<>>) = 0
    OBVIOUS
  <2>2. Deduplicated(<<>>, list, 0)
    BY <2>1 DEF Deduplicated
  <2> QED  BY <1>1, <1>2, <2>2
<1>4. ASSUME NEW k \in 1..n, k - 1 \in T PROVE k \in T
  <2>1. Deduplicated(p[k-1], list, k - 1)
    BY <1>4
  <2>2. Deduplicated(DropTurn(p[k-1], list[k]), list, k)
    BY <1>1, <2>1, DropTurnKeeps
  <2> QED  BY <1>1, <1>2, <2>2
<1>5. \A k \in 0..n : k \in T
  <2> HIDE DEF T
  <2> QED  BY <1>1, <1>3, <1>4, RangeInduction
<1> QED  BY <1>1, <1>2, <1>5 DEF n

\* Search, count, sum and the loop without repeats visit the same elements.
LEMMA LoopsHold == CalculationsTypeOK => LoopsAgree
<1> SUFFICES ASSUME CalculationsTypeOK PROVE LoopsAgree
  OBVIOUS
<1> DEFINE Positive == {x \in Operands : x > 0}
           v == Visited(Left)
           n == Len(v)
           hits == Hits(v, Positive)
           once == DeduplicateSorted(Left)
<1>1. Left \in Seq(Operands) /\ Operands \subseteq Int
  BY OperandsRead
<1>2. Left \in Seq(Int)
  BY <1>1, SeqGrows
<1>3. /\ v \in Seq(Operands) /\ n \in 0..Len(Left) /\ DOMAIN v = 1..n
      /\ \A i \in 1..n : v[i] = Left[i]
      /\ n = 0 <=> Left = <<>>
  BY <1>1, VisitedStart
<1>4. n \in Nat
  BY <1>3
<1> HIDE DEF v, n, Positive
<1>5. hits \in SUBSET (1..n) /\ \A i \in 1..n : i \in hits <=> Left[i] \in Positive
  BY <1>3 DEF Hits
<1>6. CountMatching(Left, Positive) = Cardinality(hits)
  BY DEF CountMatching, v
<1>7. FindFirst(Left, Positive) = IF hits = {} THEN <<>> ELSE <<Left[First(hits)]>>
  BY DEF FindFirst, v
<1> HIDE DEF hits
<1>8. /\ Cardinality(hits) \in Nat
      /\ Cardinality(hits) = 0 <=> hits = {}
      /\ Cardinality(hits) = n <=> hits = 1..n
  BY <1>4, <1>5, PositionsCounted
<1>9. FindFirst(Left, Positive) # <<>> <=> CountMatching(Left, Positive) > 0
  BY <1>6, <1>7, <1>8
<1>10. AllSatisfy(Left, Positive) <=> CountMatching(Left, Positive) = AggregateStats(Left).count
  <2>1. AggregateStats(Left).count = n
    BY <1>3 DEF AggregateStats, n, v
  <2>2. AllSatisfy(Left, Positive) <=> \A i \in 1..n : Left[i] \in Positive
    BY DEF AllSatisfy, n, v
  <2>3. hits = 1..n <=> \A i \in 1..n : Left[i] \in Positive
    BY <1>5
  <2> QED  BY <1>6, <1>8, <2>1, <2>2, <2>3
<1>11. (\A k \in 0..n : Total(SubSeq(Left, 1, k)) = Saturated(Total(SubSeq(Left, 1, k))))
         => BoundedSum(Left) = Total(v)
  BY <1>2, SaturatedSum DEF n, v
<1>12. Deduplicated(once, Left, n)
  BY <1>2, DeduplicateHolds DEF n, v
<1> HIDE DEF once
<1>13. /\ once \in Seq(Int) /\ Len(once) \in Nat /\ DOMAIN once = 1..Len(once)
       /\ Range(once) = {once[i] : i \in 1..Len(once)}
       /\ Range(v) = {v[i] : i \in 1..n}
  <2>1. once \in Seq(Int)
    BY <1>12 DEF Deduplicated
  <2>2. DOMAIN once = 1..Len(once) /\ Len(once) \in Nat
    BY <2>1
  <2>3. Range(once) = {once[i] : i \in 1..Len(once)} /\ Range(v) = {v[i] : i \in 1..n}
    BY <1>3, <2>2, Zenon DEF Range
  <2> QED  BY <2>1, <2>2, <2>3
<1>14. Range(once) = Range(v)
  <2>1. /\ \A i \in 1..Len(once) : \E j \in 1..n : once[i] = Left[j]
        /\ \A j \in 1..n : \E i \in 1..Len(once) : once[i] = Left[j]
    BY <1>12 DEF Deduplicated
  <2>2. ASSUME NEW x PROVE x \in Range(once) <=> x \in Range(v)
    <3>1. x \in Range(once) <=> \E i \in 1..Len(once) : once[i] = x
      BY <1>13
    <3>2. x \in Range(v) <=> \E j \in 1..n : Left[j] = x
      BY <1>3, <1>13
    <3> QED  BY <2>1, <3>1, <3>2
  <2> QED  BY <2>2
<1>15. \A i \in 2..Len(once) : once[i] # once[i - 1]
  BY <1>12 DEF Deduplicated
<1>16. (\A i \in 2..n : Left[i] >= Left[i - 1]) => Len(once) = Cardinality(Range(once))
  <2> SUFFICES ASSUME \A i \in 2..n : Left[i] >= Left[i - 1]
               PROVE  Len(once) = Cardinality(Range(once))
    OBVIOUS
  <2>1. \A i, j \in 1..Len(once) : i < j => once[i] < once[j]
    BY <1>12 DEF Deduplicated
  <2>2. ASSUME NEW i \in 1..Len(once), NEW j \in 1..Len(once), once[i] = once[j] PROVE i = j
    <3>1. once[i] \in Int /\ once[j] \in Int
      BY <1>13
    <3>2. ~(i < j) /\ ~(j < i)
      BY <2>1, <2>2, <3>1
    <3> QED  BY <1>13, <3>2
  <2>3. Cardinality({once[i] : i \in 1..Len(once)}) = Len(once)
    BY <1>13, <2>2, LengthIsSize
  <2> QED  BY <1>13, <2>3
<1> QED  BY <1>9, <1>10, <1>11, <1>14, <1>15, <1>16, Zenon DEF LoopsAgree, Positive, v, n, once
-----------------------------------------------------------------------------
(* Batches of contributions.                                               *)

\* A filter that finds nothing to leave out keeps the list, and one that leaves
\* out everything keeps nothing.
LEMMA WithoutNone ==
  ASSUME NEW A, NEW list \in Seq(A), NEW gone, \A i \in 1..Len(list) : list[i] \notin gone
  PROVE  WithoutAll(list, gone) = list
<1> DEFINE n == Len(list)
           p == Kept(list, gone)
           T == {k \in 0..n : /\ p[k] \in Seq(A) /\ Len(p[k]) = k
                              /\ \A i \in 1..k : p[k][i] = list[i]}
<1>1. /\ n \in Nat /\ \A i \in 1..n : list[i] \in A /\ list[i] \notin gone
  OBVIOUS
<1>2. p[0] = <<>> /\ \A k \in 1..n : p[k] = Turn(list, gone, p[k-1], k)
  BY KeptTurns DEF Turns
<1>3. WithoutAll(list, gone) = p[n]
  BY DEF WithoutAll
<1> HIDE DEF p, n
<1>4. 0 \in T
  <2>1. <<>> \in Seq(A) /\ Len(<<>>) = 0
    OBVIOUS
  <2>2. p[0] \in Seq(A) /\ Len(p[0]) = 0 /\ 0 \in 0..n
    BY <1>1, <1>2, <2>1
  <2>3. \A i \in 1..0 : p[0][i] = list[i]
    OBVIOUS
  <2> QED  BY <2>2, <2>3
<1>5. ASSUME NEW k \in 1..n, k - 1 \in T PROVE k \in T
  <2> DEFINE s == p[k-1]
             x == list[k]
  <2>1. /\ s \in Seq(A) /\ Len(s) = k - 1 /\ x \in A
        /\ \A i \in 1..(k-1) : s[i] = list[i]
    BY <1>1, <1>5
  <2>2. p[k] = Append(s, x)
    BY <1>1, <1>2 DEF Turn
  <2> HIDE DEF s
  <2>3. /\ Append(s, x) \in Seq(A) /\ Len(Append(s, x)) = (k - 1) + 1
        /\ Append(s, x)[(k - 1) + 1] = x
        /\ \A i \in 1..(k-1) : Append(s, x)[i] = s[i]
    BY <2>1, AppendProperties
  <2>4. (k - 1) + 1 = k /\ \A i \in 1..k : i \in 1..(k-1) \/ i = k
    BY <1>1
  <2> HIDE DEF x
  <2>5. \A i \in 1..k : p[k][i] = list[i]
    BY <2>1, <2>2, <2>3, <2>4 DEF x
  <2>6. k \in 0..n /\ p[k] \in Seq(A) /\ Len(p[k]) = k
    BY <1>1, <2>2, <2>3, <2>4
  <2> QED  BY <2>5, <2>6
<1>6. n \in T
  <2> HIDE DEF T
  <2>1. \A k \in 0..n : k \in T
    BY <1>1, <1>4, <1>5, RangeInduction
  <2> QED  BY <1>1, <2>1
<1>7. /\ p[n] \in Seq(A) /\ Len(p[n]) = Len(list)
      /\ \A i \in 1..Len(list) : p[n][i] = list[i]
  BY <1>6 DEF n
<1> QED  BY <1>3, <1>7, SeqEqual

\* Nothing is left where everything is dropped.
LEMMA WithoutEvery ==
  ASSUME NEW A, NEW list \in Seq(A), NEW gone, A \subseteq gone
  PROVE  WithoutAll(list, gone) = <<>>
<1> DEFINE w == WithoutAll(list, gone)
<1>1. w \in Seq(A) /\ \A i \in 1..Len(w) : w[i] \notin gone
  BY WithoutAllProperties
<1> HIDE DEF w
<1>2. Len(w) \in Nat /\ \A i \in 1..Len(w) : w[i] \in A
  BY <1>1
<1>3. Len(w) = 0
  <2> SUFFICES ASSUME Len(w) # 0 PROVE FALSE
    OBVIOUS
  <2>1. 1 \in 1..Len(w)
    BY <1>2
  <2> QED  BY <1>1, <1>2, <2>1
<1>4. w = <<>>
  BY <1>1, <1>3
<1> QED  BY <1>4 DEF w

\* Rounding the fee of each entry down loses less than one token an entry.
LEMMA FeesClose ==
  ASSUME NEW n \in Nat, n # 0, NEW a \in [1..n -> Int], \A i \in 1..n : a[i] >= 0,
         NEW rate \in Nat, NEW scale \in Nat, scale > 0
  PROVE  LET fees  == [i \in 1..n |-> (a[i] * rate) \div scale]
             whole == (PrefixSums(a, n)[n] * rate) \div scale IN
         PrefixSums(fees, n)[n] \in (whole - n + 1)..whole
<1> DEFINE fees == [i \in 1..n |-> (a[i] * rate) \div scale]
           A == PrefixSums(a, n)[n]
           S == PrefixSums(fees, n)[n]
           whole == (A * rate) \div scale
<1>1. ASSUME NEW i \in 1..n
      PROVE  /\ fees[i] \in Nat
             /\ scale * fees[i] <= rate * a[i] + 0
             /\ rate * a[i] <= scale * fees[i] + (scale - 1)
  <2> DEFINE m == a[i] * rate
             q == m \div scale
  <2>1. a[i] \in Nat
    OBVIOUS
  <2>2. m \in Nat /\ m = rate * a[i]
    BY <2>1
  <2>3. fees[i] = q
    OBVIOUS
  <2> HIDE DEF m, fees
  <2>4. q \in Nat /\ scale * q <= m /\ m < scale * q + scale
    BY <2>2, QuotientBounds
  <2> HIDE DEF q
  <2>5. scale * q \in Int
    BY <2>4
  <2>6. scale * q <= m + 0 /\ m <= scale * q + (scale - 1)
    BY <2>2, <2>4, <2>5
  <2> QED  BY <2>2, <2>3, <2>4, <2>6
<1>2. fees \in [1..n -> Int] /\ \A i \in 1..n : fees[i] >= 0
  <2>1. \A i \in 1..n : fees[i] \in Int /\ fees[i] >= 0
    <3> TAKE i \in 1..n
    <3>1. fees[i] \in Nat
      BY <1>1
    <3> HIDE DEF fees
    <3> QED  BY <3>1
  <2> QED  BY <2>1
<1> HIDE DEF fees
<1>3. A \in Nat /\ S \in Nat
  <2>0. n \in 0..n
    OBVIOUS
  <2>1. A \in Int /\ A >= 0
    BY <2>0, PrefixSumsStep, PrefixSumsNonneg
  <2>2. S \in Int /\ S >= 0
    BY <1>2, <2>0, PrefixSumsStep, PrefixSumsNonneg
  <2> QED  BY <2>1, <2>2
<1>4. 0 \in Int /\ rate \in Int /\ scale \in Int /\ scale - 1 \in Int
  OBVIOUS
<1>5. scale * S <= rate * A + n * 0
  BY <1>1, <1>2, <1>4, SumsCompared, ZenonT(30)
<1>6. rate * A <= scale * S + n * (scale - 1)
  BY <1>1, <1>2, <1>4, SumsCompared, ZenonT(30)
<1> DEFINE m == A * rate
<1> HIDE DEF A, S
<1>7. m \in Nat /\ m = rate * A
  BY <1>3
<1>8. S * scale <= m
  <2>1. scale * S = S * scale /\ n * 0 = 0 /\ S * scale \in Int
    BY <1>3
  <2> QED  BY <1>5, <1>7, <2>1
<1>9. m < (S + n) * scale
  <2>1. /\ (S + n) * scale = scale * S + n * scale
        /\ n * (scale - 1) = n * scale - n
        /\ scale * S \in Int /\ n * scale \in Int
    BY <1>3
  <2> QED  BY <1>6, <1>7, <2>1
<1>10. whole \in Nat /\ (whole >= S <=> m >= S * scale)
  BY <1>3, <1>7, QuotientReaches
<1>11. whole >= S + n <=> m >= (S + n) * scale
  <2>1. S + n \in Nat
    BY <1>3
  <2> QED  BY <1>7, <2>1, QuotientReaches
<1> HIDE DEF whole
<1>12. whole >= S /\ ~(whole >= S + n)
  <2>1. S * scale \in Int /\ (S + n) * scale \in Int
    BY <1>3
  <2> HIDE DEF m
  <2> QED  BY <1>7, <1>8, <1>9, <1>10, <1>11, <2>1
<1>13. S \in (whole - n + 1)..whole
  BY <1>3, <1>10, <1>12
<1> QED  BY <1>13 DEF whole, A, S, fees

\* The least amount, the total and the fees of a valid batch.
LEMMA BatchesHold == CalculationsTypeOK => BatchFeesClose
<1> SUFFICES ASSUME CalculationsTypeOK PROVE BatchFeesClose
  OBVIOUS
<1> DEFINE n == Len(Left)
           entries == [i \in 1..Len(Left) |-> <<Right[i], Left[i]>>]
           batch == SummarizeBatch(entries)
           a == Amount(entries)
<1> SUFFICES ASSUME Len(Left) = Len(Right), Left # <<>>, ValidateBatch(entries)
             PROVE  /\ batch.min_amount > 0 /\ batch.total_amount >= batch.count
                    /\ FilterAboveThreshold(entries, batch.min_amount - 1) = entries
                    /\ FilterAboveThreshold(entries, batch.max_amount) = <<>>
                    /\ \A rate \in 0..FullScale :
                         LET whole == (batch.total_amount * rate) \div FullScale IN
                         ComputeBatchFee(entries, rate) \in (whole - Len(Left) + 1)..whole
  BY Zenon DEF BatchFeesClose
<1>1. /\ Left \in Seq(Operands) /\ Right \in Seq(Operands) /\ Operands \subseteq Int
      /\ FullScale \in Nat /\ FullScale > 0 /\ n \in Nat /\ n # 0
  <2>1. Left \in Seq(Operands) /\ Right \in Seq(Operands) /\ Operands \subseteq Int
    BY OperandsRead, Zenon
  <2>2. FullScale \in Nat /\ FullScale > 0
    BY SizesRead
  <2>3. n \in Nat /\ n # 0
    BY <2>1
  <2> QED  BY <2>1, <2>2, <2>3
<1>2. /\ Len(entries) = n /\ DOMAIN entries = 1..n
      /\ entries \in Seq(Range(entries)) /\ Range(entries) = {entries[i] : i \in 1..n}
      /\ \A i \in 1..n : entries[i][2] = Left[i] /\ Left[i] \in Int
  <2>1. DOMAIN entries = 1..n /\ entries = [i \in 1..n |-> entries[i]]
    BY <1>1
  <2>2. ASSUME NEW i \in 1..n PROVE entries[i][2] = Left[i] /\ Left[i] \in Int
    <3>1. entries[i] = <<Right[i], Left[i]>>
      OBVIOUS
    <3>2. Left[i] \in Operands
      BY <1>1
    <3>3. Left[i] \in Int
      BY <1>1, <3>2
    <3>4. <<Right[i], Left[i]>>[2] = Left[i]
      OBVIOUS
    <3> HIDE DEF entries
    <3> QED  BY <3>1, <3>3, <3>4, Zenon
  <2> HIDE DEF entries, n
  <2>3. Range(entries) = {entries[i] : i \in 1..n}
    BY <2>1 DEF Range
  <2> DEFINE R == Range(entries)
  <2>4. entries \in [1..n -> R]
    BY <2>1, <2>3
  <2> HIDE DEF R
  <2>5. entries \in Seq(R) /\ Len(entries) = n
    BY <1>1, <2>4
  <2> QED  BY <2>1, <2>2, <2>3, <2>5 DEF R
<1>3. a = [i \in 1..n |-> entries[i][2]]
  BY <1>2, Zenon DEF Amount
<1> HIDE DEF entries
<1>4. /\ a \in [1..n -> Int] /\ a \in Seq(Int) /\ Len(a) = n
      /\ \A i \in 1..n : a[i] = entries[i][2] /\ a[i] > 0
  <2>1. \A i \in 1..n : entries[i][2] > 0
    BY <1>2 DEF ValidateBatch
  <2>2. \A i \in 1..n : entries[i][2] \in Int
    BY <1>2
  <2> HIDE DEF a, n
  <2>3. a \in [1..n -> Int] /\ \A i \in 1..n : a[i] = entries[i][2]
    BY <1>3, <2>2
  <2>4. a \in Seq(Int) /\ Len(a) = n
    BY <1>1, <2>3
  <2> QED  BY <2>1, <2>3, <2>4
<1> DEFINE A == PrefixSums(a, n)[n]
<1>5. /\ batch.count = n /\ batch.total_amount = A
      /\ batch.max_amount = Greatest(a) /\ batch.min_amount = Least(a)
  <2>1. Total(a) = A
    BY <1>4 DEF Total
  <2> HIDE DEF n
  <2> QED  BY <1>2, <2>1 DEF SummarizeBatch
<1> HIDE DEF batch, a
<1>6. /\ Least(a) \in Int /\ Greatest(a) \in Int /\ Least(a) > 0
      /\ \A i \in 1..n : Least(a) <= a[i] /\ a[i] <= Greatest(a)
  <2>1. a # <<>>
    BY <1>1, <1>4
  <2>2. /\ Least(a) \in Int /\ Greatest(a) \in Int
        /\ \E i \in 1..Len(a) : a[i] = Least(a)
        /\ \A i \in 1..Len(a) : Least(a) <= a[i] /\ a[i] <= Greatest(a)
    BY <1>4, <2>1, ExtremesExist
  <2> HIDE DEF n
  <2> QED  BY <1>4, <2>2
<1> HIDE DEF n
<1>7. A >= n
  <2>1. 0 \in Int /\ 1 \in Int /\ 0 - 1 \in Int
    OBVIOUS
  <2>2. \A i \in 1..n : 0 * a[i] <= 1 * a[i] + (0 - 1)
    BY <1>4
  <2>3. 0 * A <= 1 * A + n * (0 - 1)
    BY <1>1, <1>4, <2>1, <2>2, SumsCompared, ZenonT(30)
  <2>4. A \in Int
    BY <1>1, <1>4, PrefixSumsStep
  <2> HIDE DEF A
  <2> QED  BY <1>1, <2>3, <2>4
<1>8. FilterAboveThreshold(entries, Least(a) - 1) = entries
  <2> DEFINE gone == {e \in Range(entries) : e[2] <= Least(a) - 1}
  <2>1. \A i \in 1..Len(entries) : entries[i] \notin gone
    <3> SUFFICES ASSUME NEW i \in 1..n, entries[i][2] <= Least(a) - 1 PROVE FALSE
      BY <1>2, Zenon
    <3>1. entries[i][2] = a[i] /\ a[i] \in Int /\ Least(a) <= a[i]
      BY <1>4, <1>6
    <3> QED  BY <1>6, <3>1
  <2>2. FilterAboveThreshold(entries, Least(a) - 1) = WithoutAll(entries, gone)
    BY Zenon DEF FilterAboveThreshold
  <2> HIDE DEF gone
  <2> QED  BY <1>2, <2>1, <2>2, WithoutNone
<1>9. FilterAboveThreshold(entries, Greatest(a)) = <<>>
  <2> DEFINE gone == {e \in Range(entries) : e[2] <= Greatest(a)}
  <2>1. Range(entries) \subseteq gone
    BY <1>2, <1>4, <1>6
  <2>2. FilterAboveThreshold(entries, Greatest(a)) = WithoutAll(entries, gone)
    BY Zenon DEF FilterAboveThreshold
  <2> HIDE DEF gone
  <2> QED  BY <1>2, <2>1, <2>2, WithoutEvery
<1>10. ASSUME NEW rate \in 0..FullScale
       PROVE  LET whole == (A * rate) \div FullScale IN
              ComputeBatchFee(entries, rate) \in (whole - n + 1)..whole
  <2> DEFINE fees == [i \in 1..n |-> (a[i] * rate) \div FullScale]
  <2>1. ComputeBatchFee(entries, rate) = PrefixSums(fees, n)[n]
    <3>1. fees = [i \in 1..n |-> (entries[i][2] * rate) \div FullScale]
      BY <1>4
    <3>2. ComputeBatchFee(entries, rate) = Total(fees)
      BY <1>2, <3>1, Zenon DEF ComputeBatchFee
    <3>3. Len(fees) = n
      BY <1>1
    <3> QED  BY <3>2, <3>3, Zenon DEF Total
  <2>2. rate \in Nat /\ \A i \in 1..n : a[i] >= 0
    BY <1>1, <1>4
  <2>3. PrefixSums(fees, n)[n] \in
          (((A * rate) \div FullScale) - n + 1)..((A * rate) \div FullScale)
    BY <1>1, <1>4, <2>2, FeesClose
  <2> QED  BY <2>1, <2>3, Zenon
<1> QED  BY <1>5, <1>6, <1>7, <1>8, <1>9, <1>10, Zenon DEF n

\* What the helper functions return, for any operands.
LEMMA CalculationsMeaning == CalculationsTypeOK => CalculationsSound
BY RootsHold, AveragesHold, LoopsHold, BatchesHold, ScalesHold, TiersHold, StorageHolds,
   VersionsHold, ScansHold, SuitesHold DEF CalculationsSound
=============================================================================
