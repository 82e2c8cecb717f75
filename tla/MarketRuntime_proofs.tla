------------------------- MODULE MarketRuntime_proofs -------------------------
(***************************************************************************)
(* Proofs about the internal market for any snapshots, any users' orders,  *)
(* any limits and costs, any number of orders, requests and failed         *)
(* appends.                                                                *)
(***************************************************************************)
EXTENDS MarketRuntime, FiniteSetTheorems, NaturalsInduction, TLAPS

(***************************************************************************)
(* Sums.  SumFunction adds the values of a function in an order it leaves  *)
(* open; a running sum adds them from the first to the last.               *)
(***************************************************************************)
Running(r, f, n) ==
  /\ r \in [0..n -> Int]
  /\ r[0] = 0
  /\ \A k \in 1..n : r[k] = r[k - 1] + f[k]

IsSum(g, f, n) ==
  g = [s \in SUBSET (1..n) |->
         IF s = {} THEN 0
         ELSE f[CHOOSE x \in s : TRUE] + g[s \ {CHOOSE x \in s : TRUE}]]

LEMMA LeastOf ==
  ASSUME NEW S \in SUBSET Nat, S # {}
  PROVE  \E n \in S : \A m \in S : n <= m
<1>1. PICK n \in S : \A m \in S : ~(<<m, n>> \in OpToRel(<, Nat))
  BY NatLessThanWellFounded, WFMin, Zenon
<1>2. \A m \in S : ~(m < n)
  BY <1>1 DEF OpToRel
<1> QED
  BY <1>2

LEMMA RunningExists ==
  ASSUME NEW n \in Nat, NEW f \in [1..n -> Int]
  PROVE  \E r : Running(r, f, n)
<1> DEFINE Bad == {m \in 0..n : ~\E r : Running(r, f, m)}
<1>1. SUFFICES ASSUME n \in Bad PROVE FALSE
  OBVIOUS
<1>2. PICK m \in Bad : \A i \in Bad : m <= i
  <2>1. Bad \in SUBSET Nat /\ Bad # {}
    BY <1>1
  <2> HIDE DEF Bad
  <2> QED
    BY <2>1, LeastOf
<1>3. CASE m = 0
  <2>1. Running([k \in 0..0 |-> 0], f, 0)
    BY DEF Running
  <2> QED
    BY <1>2, <1>3, <2>1
<1>4. CASE m # 0
  <2>1. m \in 1..n /\ m - 1 \in 0..n /\ m - 1 \notin Bad
    BY <1>2, <1>4
  <2>2. PICK r : Running(r, f, m - 1)
    BY <2>1
  <2> DEFINE q == [k \in 0..m |-> IF k = m THEN r[m - 1] + f[m] ELSE r[k]]
  <2>3. Running(q, f, m)
    BY <2>1, <2>2 DEF Running
  <2> QED
    BY <1>2, <2>3
<1> QED
  BY <1>3, <1>4

(* Two running sums of the same values are the same.                       *)
LEMMA RunningSame ==
  ASSUME NEW n \in Nat, NEW f, NEW g, NEW p, NEW r, Running(p, f, n), Running(r, g, n),
         \A k \in 1..n : f[k] = g[k]
  PROVE  \A k \in 0..n : p[k] = r[k]
<1> DEFINE Bad == {k \in 0..n : p[k] # r[k]}
<1>1. SUFFICES ASSUME Bad # {} PROVE FALSE
  OBVIOUS
<1>2. PICK m \in Bad : \A i \in Bad : m <= i
  <2>1. Bad \in SUBSET Nat
    OBVIOUS
  <2> HIDE DEF Bad
  <2> QED
    BY <1>1, <2>1, LeastOf
<1>3. m # 0
  BY <1>2 DEF Running
<1>4. m \in 1..n /\ m - 1 \in 0..n /\ m - 1 \notin Bad
  BY <1>2, <1>3
<1>5. p[m - 1] = r[m - 1] /\ p[m] = p[m - 1] + f[m] /\ r[m] = r[m - 1] + g[m]
  BY <1>4 DEF Running
<1> QED
  BY <1>2, <1>4, <1>5

Ints(f, n) == f \in [1..n -> Int]

ButAt(f, g, n, i) == \A k \in 1..n : k # i => f[k] = g[k]

(* Two running sums of values that differ at one index.                    *)
LEMMA RunningBut ==
  ASSUME NEW n \in Nat, NEW f, NEW g, NEW p, NEW r, NEW i \in 1..n,
         Ints(f, n), Ints(g, n), Running(p, f, n), Running(r, g, n), ButAt(f, g, n, i)
  PROVE  r[n] = p[n] - f[i] + g[i]
<1> USE DEF Ints, ButAt
<1> DEFINE Right(k) == r[k] = IF k < i THEN p[k] ELSE p[k] - f[i] + g[i]
           Bad == {k \in 0..n : ~Right(k)}
<1>1. SUFFICES ASSUME Bad # {} PROVE FALSE
  OBVIOUS
<1>2. PICK m \in Bad : \A k \in Bad : m <= k
  <2>1. Bad \in SUBSET Nat
    OBVIOUS
  <2> HIDE DEF Bad
  <2> QED
    BY <1>1, <2>1, LeastOf
<1>3. m # 0
  BY <1>2 DEF Running
<1>4. m \in 1..n /\ m - 1 \in 0..n /\ m - 1 \notin Bad
  BY <1>2, <1>3
<1>5. /\ p[m] = p[m - 1] + f[m] /\ r[m] = r[m - 1] + g[m]
      /\ p[m - 1] \in Int /\ r[m - 1] \in Int /\ p[m] \in Int /\ r[m] \in Int
      /\ f[m] \in Int /\ g[m] \in Int /\ f[i] \in Int /\ g[i] \in Int
  BY <1>4 DEF Running
<1>6. Right(m - 1)
  BY <1>4
<1>7. CASE m = i
  BY <1>2, <1>4, <1>5, <1>6, <1>7
<1>8. CASE m # i
  <2>1. f[m] = g[m]
    BY <1>4, <1>8
  <2>2. CASE m < i
    BY <1>2, <1>4, <1>5, <1>6, <2>1, <2>2
  <2>3. CASE m > i
    <3>1. ~(m < i) /\ ~(m - 1 < i)
      BY <1>4, <2>3
    <3> QED
      BY <1>2, <1>4, <1>5, <1>6, <2>1, <3>1
  <2> QED
    BY <1>4, <1>8, <2>2, <2>3
<1> QED
  BY <1>7, <1>8

(* There is one way to fill in the recursion of a sum.                     *)
LEMMA SumUnique ==
  ASSUME NEW n \in Nat, NEW f, NEW g, NEW h, IsSum(g, f, n), IsSum(h, f, n)
  PROVE  g[1..n] = h[1..n]
<1> DEFINE Bad == {s \in SUBSET (1..n) : g[s] # h[s]}
           Sizes == {Cardinality(s) : s \in Bad}
<1>1. SUFFICES ASSUME 1..n \in Bad PROVE FALSE
  OBVIOUS
<1>2. ASSUME NEW s \in SUBSET (1..n)
      PROVE  IsFiniteSet(s) /\ Cardinality(s) \in Nat
  <2>1. IsFiniteSet(1..n)
    BY FS_Interval
  <2>2. IsFiniteSet(s)
    BY <2>1, FS_Subset
  <2> QED
    BY <2>2, FS_CardinalityType
<1>3. PICK s \in Bad : \A t \in Bad : Cardinality(s) <= Cardinality(t)
  <2>1. Sizes \in SUBSET Nat /\ Sizes # {}
    BY <1>1, <1>2
  <2>2. \E m \in Sizes : \A k \in Sizes : m <= k
    <3> HIDE DEF Sizes
    <3> QED
      BY <2>1, LeastOf
  <2> QED
    BY <2>2
<1> DEFINE x == CHOOSE x \in s : TRUE
           t == s \ {x}
<1>4. s # {}
  <2>1. {} \in SUBSET (1..n)
    OBVIOUS
  <2>2. g[{}] = 0 /\ h[{}] = 0
    BY <2>1 DEF IsSum
  <2> QED
    BY <1>3, <2>2
<1>5. x \in s
  BY <1>4
<1>6. t \in SUBSET (1..n) /\ Cardinality(t) = Cardinality(s) - 1
  BY <1>2, <1>3, <1>5, FS_RemoveElement
<1>7. g[t] = h[t]
  BY <1>2, <1>3, <1>6
<1>8. g[s] = f[x] + g[t] /\ h[s] = f[x] + h[t]
  BY <1>3, <1>4 DEF IsSum
<1> QED
  BY <1>3, <1>7, <1>8

LEMMA SumExists ==
  ASSUME NEW n \in Nat, NEW f \in [1..n -> Int], NEW r, Running(r, f, n)
  PROVE  \E g : IsSum(g, f, n) /\ g[1..n] = r[n]
<1> DEFINE Only(s) == [k \in 1..n |-> IF k \in s THEN f[k] ELSE 0]
           Of(s) == CHOOSE p : Running(p, Only(s), n)
           g == [s \in SUBSET (1..n) |-> Of(s)[n]]
<1>1. ASSUME NEW s \in SUBSET (1..n) PROVE Running(Of(s), Only(s), n)
  <2>1. Only(s) \in [1..n -> Int]
    OBVIOUS
  <2>2. \E p : Running(p, Only(s), n)
    BY <2>1, RunningExists
  <2> QED
    BY <2>2
<1>2. g[{}] = 0
  <2>1. {} \in SUBSET (1..n)
    OBVIOUS
  <2>2. Running(Of({}), Only({}), n)
    BY <1>1, <2>1
  <2>3. Running([k \in 0..n |-> 0], [k \in 1..n |-> 0], n)
    BY DEF Running
  <2>4. Of({})[n] = [k \in 0..n |-> 0][n]
    BY <2>2, <2>3, RunningSame
  <2> QED
    BY <2>1, <2>4
<1>3. ASSUME NEW s \in SUBSET (1..n), NEW x \in s PROVE g[s] = f[x] + g[s \ {x}]
  <2>1. s \ {x} \in SUBSET (1..n) /\ x \in 1..n
    OBVIOUS
  <2>2. Running(Of(s), Only(s), n) /\ Running(Of(s \ {x}), Only(s \ {x}), n)
    BY <1>1, <2>1
  <2>3. /\ Only(s) \in [1..n -> Int] /\ Only(s \ {x}) \in [1..n -> Int]
        /\ Only(s)[x] = f[x] /\ Only(s \ {x})[x] = 0 /\ f[x] \in Int
        /\ \A k \in 1..n : k # x => Only(s \ {x})[k] = Only(s)[k]
    BY <2>1
  <2>4. g[s] = Of(s)[n] /\ g[s \ {x}] = Of(s \ {x})[n]
    BY <2>1
  <2> HIDE DEF Only, Of, g
  <2>5. Of(s)[n] \in Int /\ Of(s \ {x})[n] \in Int
    <3>1. n \in 0..n
      OBVIOUS
    <3> QED
      BY <2>2, <3>1 DEF Running
  <2>6. Of(s)[n] = Of(s \ {x})[n] - Only(s \ {x})[x] + Only(s)[x]
    <3>1. PICK F, G, p, q : /\ F = Only(s \ {x}) /\ G = Only(s)
                            /\ p = Of(s \ {x}) /\ q = Of(s)
      OBVIOUS
    <3>2. /\ F \in [1..n -> Int] /\ G \in [1..n -> Int]
          /\ Running(p, F, n) /\ Running(q, G, n) /\ x \in 1..n
          /\ \A k \in 1..n : k # x => F[k] = G[k]
      BY <2>1, <2>2, <2>3, <3>1
    <3>3. q[n] = p[n] - F[x] + G[x]
      <4>1. Ints(F, n) /\ Ints(G, n) /\ ButAt(F, G, n, x)
        BY <3>2 DEF Ints, ButAt
      <4>2. Running(p, F, n) /\ Running(q, G, n) /\ x \in 1..n
        BY <3>2
      <4> QED
        BY <4>1, <4>2, RunningBut
    <3> QED
      BY <3>1, <3>3
  <2> QED
    BY <2>3, <2>4, <2>5, <2>6
<1>4. g[1..n] = r[n]
  <2>1. 1..n \in SUBSET (1..n) /\ \A k \in 1..n : Only(1..n)[k] = f[k]
    OBVIOUS
  <2>2. Running(Of(1..n), Only(1..n), n)
    BY <1>1, <2>1
  <2>3. g[1..n] = Of(1..n)[n]
    BY <2>1
  <2> HIDE DEF Only, Of, g
  <2>4. n \in 0..n
    OBVIOUS
  <2> QED
    BY <2>1, <2>2, <2>3, <2>4, RunningSame
<1>5. IsSum(g, f, n)
  <2>1. g = [s \in SUBSET (1..n) |-> g[s]]
    OBVIOUS
  <2> HIDE DEF g
  <2>2. ASSUME NEW s \in SUBSET (1..n)
        PROVE  g[s] = IF s = {} THEN 0
                      ELSE f[CHOOSE x \in s : TRUE] + g[s \ {CHOOSE x \in s : TRUE}]
    <3>1. CASE s = {}
      BY <1>2, <3>1
    <3>2. CASE s # {}
      <4>1. (CHOOSE x \in s : TRUE) \in s
        BY <3>2
      <4> QED
        BY <1>3, <3>2, <4>1
    <3> QED
      BY <3>1, <3>2
  <2> QED
    BY <2>1, <2>2 DEF IsSum
<1> QED
  BY <1>4, <1>5

LEMMA SumIs ==
  ASSUME NEW n \in Nat, NEW f \in [1..n -> Int]
  PROVE  \E r : Running(r, f, n) /\ SumFunction(f) = r[n]
<1>1. PICK r : Running(r, f, n)
  BY RunningExists
<1>2. PICK g : IsSum(g, f, n) /\ g[1..n] = r[n]
  BY <1>1, SumExists
<1> DEFINE it == CHOOSE it : it = [s \in SUBSET (1..n) |->
                   IF s = {} THEN 0
                   ELSE f[CHOOSE x \in s : TRUE] + it[s \ {CHOOSE x \in s : TRUE}]]
<1>3. SumFunction(f) = it[1..n]
  BY DEF SumFunction, SumFunctionOnSet, FoldFunctionOnSet, MapThenFoldSet
<1>4. IsSum(it, f, n)
  BY <1>2 DEF IsSum
<1> HIDE DEF it
<1> QED
  BY <1>1, <1>2, <1>3, <1>4, SumUnique

(* What a sum does when one value changes, ends one index later, or every  *)
(* value is bounded.                                                       *)
LEMMA SumType ==
  ASSUME NEW n \in Nat, NEW f \in [1..n -> Int]
  PROVE  SumFunction(f) \in Int
<1>1. PICK r : Running(r, f, n) /\ SumFunction(f) = r[n]
  BY SumIs
<1>2. n \in 0..n
  OBVIOUS
<1> QED
  BY <1>1, <1>2 DEF Running

LEMMA SumBut ==
  ASSUME NEW n \in Nat, NEW f \in [1..n -> Int], NEW g \in [1..n -> Int], NEW i \in 1..n,
         \A k \in 1..n : k # i => f[k] = g[k]
  PROVE  SumFunction(g) = SumFunction(f) - f[i] + g[i]
<1>1. PICK p : Running(p, f, n) /\ SumFunction(f) = p[n]
  BY SumIs
<1>2. PICK r : Running(r, g, n) /\ SumFunction(g) = r[n]
  BY SumIs
<1>3. r[n] = p[n] - f[i] + g[i]
  BY <1>1, <1>2, RunningBut DEF Ints, ButAt
<1> QED
  BY <1>1, <1>2, <1>3

LEMMA SumMore ==
  ASSUME NEW n \in Nat, NEW f \in [1..n -> Int], NEW g \in [1..(n + 1) -> Int],
         \A k \in 1..n : f[k] = g[k]
  PROVE  SumFunction(g) = SumFunction(f) + g[n + 1]
<1>1. PICK p : Running(p, f, n) /\ SumFunction(f) = p[n]
  BY SumIs
<1>2. PICK r : Running(r, g, n + 1) /\ SumFunction(g) = r[n + 1]
  BY SumIs
<1>3. Running([k \in 0..n |-> r[k]], g, n)
  BY <1>2 DEF Running
<1>4. p[n] = r[n]
  <2> DEFINE q == [k \in 0..n |-> r[k]]
  <2>1. n \in 0..n /\ q[n] = r[n]
    OBVIOUS
  <2>2. Running(q, g, n)
    BY <1>3
  <2> HIDE DEF q
  <2>3. p[n] = q[n]
    BY <1>1, <2>1, <2>2, RunningSame
  <2> QED
    BY <2>1, <2>3
<1>5. r[n + 1] = r[n] + g[n + 1]
  BY <1>2 DEF Running
<1> QED
  BY <1>1, <1>2, <1>4, <1>5

LEMMA SumNone ==
  ASSUME NEW f, f \in [1..0 -> Int]
  PROVE  SumFunction(f) = 0
<1>1. PICK r : Running(r, f, 0) /\ SumFunction(f) = r[0]
  BY SumIs
<1> QED
  BY <1>1 DEF Running

LEMMA SumBound ==
  ASSUME NEW n \in Nat, NEW f \in [1..n -> Int], NEW g \in [1..n -> Int],
         NEW h \in [1..n -> Int], NEW c \in Int,
         \A k \in 1..n : h[k] <= f[k] + c * g[k]
  PROVE  SumFunction(h) <= SumFunction(f) + c * SumFunction(g)
<1>1. PICK p : Running(p, f, n) /\ SumFunction(f) = p[n]
  BY SumIs
<1>2. PICK q : Running(q, g, n) /\ SumFunction(g) = q[n]
  BY SumIs
<1>3. PICK r : Running(r, h, n) /\ SumFunction(h) = r[n]
  BY SumIs
<1> DEFINE Bad == {k \in 0..n : ~(r[k] <= p[k] + c * q[k])}
<1>4. SUFFICES ASSUME n \in Bad PROVE FALSE
  BY <1>1, <1>2, <1>3
<1>5. PICK m \in Bad : \A k \in Bad : m <= k
  <2>1. Bad \in SUBSET Nat
    OBVIOUS
  <2> HIDE DEF Bad
  <2> QED
    BY <1>4, <2>1, LeastOf
<1>6. m # 0
  BY <1>1, <1>2, <1>3, <1>5 DEF Running
<1>7. m \in 1..n /\ m - 1 \in 0..n /\ m - 1 \notin Bad
  BY <1>5, <1>6
<1>8. r[m - 1] <= p[m - 1] + c * q[m - 1]
  BY <1>7
<1>9. /\ p[m] = p[m - 1] + f[m] /\ q[m] = q[m - 1] + g[m] /\ r[m] = r[m - 1] + h[m]
      /\ {p[m - 1], q[m - 1], r[m - 1]} \subseteq Int
      /\ f[m] \in Int /\ g[m] \in Int /\ h[m] \in Int /\ h[m] <= f[m] + c * g[m]
  BY <1>1, <1>2, <1>3, <1>7 DEF Running
<1>10. c * q[m] = c * q[m - 1] + c * g[m]
  BY <1>9
<1>11. r[m] <= p[m] + c * q[m]
  <2>1. \A x, y, z, u, v, w, s, t \in Int :
          x <= y + z /\ u <= v + w /\ s = y + v /\ t = z + w => x + u <= s + t
    OBVIOUS
  <2>2. c * q[m] \in Int /\ c * q[m - 1] \in Int /\ c * g[m] \in Int /\ p[m] \in Int
    <3>1. q[m] \in Int /\ p[m] \in Int
      BY <1>1, <1>2, <1>7 DEF Running
    <3>2. \A x, y \in Int : x * y \in Int
      OBVIOUS
    <3>3. q[m - 1] \in Int /\ g[m] \in Int
      BY <1>9
    <3> QED
      BY <3>1, <3>2, <3>3, Zenon
  <2>3. r[m - 1] + h[m] <= p[m] + c * q[m]
    BY <1>8, <1>9, <1>10, <2>1, <2>2, Zenon
  <2> QED
    BY <1>9, <2>3
<1> QED
  BY <1>5, <1>11

LEMMA SumLeast ==
  ASSUME NEW n \in Nat, NEW f \in [1..n -> Int], \A k \in 1..n : f[k] >= 0
  PROVE  SumFunction(f) >= 0
<1> DEFINE z == [k \in 1..n |-> 0]
           r == [k \in 0..n |-> 0]
<1>1. z \in [1..n -> Int] /\ \A k \in 1..n : z[k] <= f[k] + 0 * f[k]
  OBVIOUS
<1>2. Running(r, z, n) /\ r[n] = 0 /\ n \in 0..n
  BY DEF Running
<1>3. PICK p : Running(p, z, n) /\ SumFunction(z) = p[n]
  BY <1>1, SumIs
<1>4. SumFunction(z) = 0
  BY <1>2, <1>3, RunningSame
<1>5. SumFunction(f) \in Int
  BY SumType
<1> HIDE DEF z
<1>6. SumFunction(z) <= SumFunction(f) + 0 * SumFunction(f)
  <2>1. 0 \in Int
    OBVIOUS
  <2> QED
    BY <1>1, <2>1, SumBound, Zenon
<1> QED
  BY <1>4, <1>5, <1>6

(***************************************************************************)
(* Matching: what an order takes from the levels of the book.              *)
(***************************************************************************)
Levels == Seq(BookLevel)

LEMMA MaxOf ==
  ASSUME NEW n \in Nat, NEW S \in SUBSET (0..n), S # {}
  PROVE  Max(S) \in S /\ \A y \in S : Max(S) >= y
<1> DEFINE T == {n - y : y \in S}
<1>1. T \in SUBSET Nat /\ T # {}
  <2>1. \A y \in S : n - y \in Nat
    OBVIOUS
  <2>2. PICK y : y \in S
    OBVIOUS
  <2>3. n - y \in T
    BY <2>2
  <2> QED
    BY <2>1, <2>3
<1>2. PICK t \in T : \A u \in T : t <= u
  <2> HIDE DEF T
  <2> QED
    BY <1>1, LeastOf
<1>3. PICK x \in S : t = n - x
  BY <1>2
<1>4. \A y \in S : x >= y
  BY <1>2, <1>3
<1>5. \E z \in S : \A y \in S : z >= y
  BY <1>4
<1> QED
  BY <1>5 DEF Max

LEMMA MinOfTwo ==
  ASSUME NEW x \in Int, NEW y \in Int
  PROVE  /\ Min({x, y}) = IF x <= y THEN x ELSE y
         /\ Max({x, y}) = IF x >= y THEN x ELSE y
  BY DEF Min, Max

LEMMA LevelsTyped ==
  ASSUME NEW levels \in Levels
  PROVE  /\ Len(levels) \in Nat /\ DOMAIN levels = 1..Len(levels)
         /\ \A k \in 1..Len(levels) : levels[k].price \in Int /\ levels[k].size \in Nat
<1>1. \A k \in 1..Len(levels) : levels[k] \in BookLevel
  BY DEF Levels
<1> QED
  BY <1>1 DEF Levels, BookLevel

(* How deep the book is up to a level.                                     *)
LEMMA DepthIs ==
  ASSUME NEW levels \in Levels
  PROVE  /\ \A k \in 0..Len(levels) : Depth(levels, k) \in Nat
         /\ Depth(levels, 0) = 0
         /\ \A k \in 1..Len(levels) : Depth(levels, k) = Depth(levels, k - 1) + levels[k].size
<1> DEFINE sizes(k) == [j \in 1..k |-> levels[j].size]
<1>1. ASSUME NEW k \in 0..Len(levels) PROVE sizes(k) \in [1..k -> Int] /\ k \in Nat
  BY LevelsTyped
<1>2. ASSUME NEW k \in 0..Len(levels) PROVE Depth(levels, k) \in Nat
  <2>1. \A j \in 1..k : sizes(k)[j] >= 0
    BY LevelsTyped
  <2>2. SumFunction(sizes(k)) \in Int /\ SumFunction(sizes(k)) >= 0
    <3> HIDE DEF sizes
    <3> QED
      BY <1>1, <2>1, SumType, SumLeast
  <2> QED
    BY <2>2 DEF Depth
<1>3. Depth(levels, 0) = 0
  <2>1. sizes(0) \in [1..0 -> Int]
    BY <1>1, LevelsTyped
  <2> QED
    BY <2>1, SumNone DEF Depth
<1>4. ASSUME NEW k \in 1..Len(levels)
      PROVE  Depth(levels, k) = Depth(levels, k - 1) + levels[k].size
  <2>1. k - 1 \in Nat /\ k - 1 \in 0..Len(levels) /\ k \in 0..Len(levels) /\ (k - 1) + 1 = k
    BY LevelsTyped
  <2>2. sizes(k - 1) \in [1..(k - 1) -> Int] /\ sizes(k) \in [1..((k - 1) + 1) -> Int]
    BY <1>1, <2>1
  <2>3. \A j \in 1..(k - 1) : sizes(k - 1)[j] = sizes(k)[j]
    BY <2>1
  <2>4. sizes(k)[k] = levels[k].size
    BY <2>1
  <2> HIDE DEF sizes
  <2>5. SumFunction(sizes(k)) = SumFunction(sizes(k - 1)) + sizes(k)[(k - 1) + 1]
    BY <2>1, <2>2, <2>3, SumMore
  <2> QED
    BY <2>1, <2>4, <2>5 DEF Depth, sizes
<1> QED
  BY <1>2, <1>3, <1>4

(* The walk stops at the first level that does not execute.                *)
LEMMA ReachIs ==
  ASSUME NEW o, NEW levels \in Levels
  PROVE  /\ Reach(o, levels) \in 0..Len(levels)
         /\ \A k \in 1..Reach(o, levels) : Executable(o, levels[k])
         /\ Reach(o, levels) < Len(levels) => ~Executable(o, levels[Reach(o, levels) + 1])
<1> DEFINE S == {0} \cup {n \in DOMAIN levels : \A k \in 1..n : Executable(o, levels[k])}
           r == Reach(o, levels)
<1>1. Len(levels) \in Nat /\ DOMAIN levels = 1..Len(levels)
  BY LevelsTyped
<1>2. S \in SUBSET (0..Len(levels)) /\ S # {}
  BY <1>1
<1>3. r \in S /\ \A y \in S : r >= y
  <2> HIDE DEF S
  <2>1. r = Max(S)
    BY DEF Reach, S
  <2> QED
    BY <1>1, <1>2, <2>1, MaxOf
<1> HIDE DEF r
<1>4. r \in 0..Len(levels) /\ \A k \in 1..r : Executable(o, levels[k])
  BY <1>1, <1>3
<1>5. ASSUME r < Len(levels), Executable(o, levels[r + 1]) PROVE FALSE
  <2>1. \A k \in 1..(r + 1) : Executable(o, levels[k])
    BY <1>4, <1>5
  <2>2. r + 1 \in S
    BY <1>1, <1>4, <1>5, <2>1
  <2> QED
    BY <1>1, <1>3, <1>4, <2>2
<1> QED
  BY <1>4, <1>5 DEF r

LEMMA DepthGrows ==
  ASSUME NEW levels \in Levels, NEW j \in 0..Len(levels), NEW k \in j..Len(levels)
  PROVE  Depth(levels, j) <= Depth(levels, k)
<1> DEFINE D(i) == Depth(levels, i)
           Bad == {i \in j..Len(levels) : ~(D(j) <= D(i))}
<1>1. SUFFICES ASSUME k \in Bad PROVE FALSE
  OBVIOUS
<1>2. Len(levels) \in Nat /\ j \in Nat /\ \A i \in 0..Len(levels) : D(i) \in Nat
  BY LevelsTyped, DepthIs
<1>3. PICK m \in Bad : \A i \in Bad : m <= i
  <2>1. Bad \in SUBSET Nat
    BY <1>2
  <2> HIDE DEF Bad
  <2> QED
    BY <1>1, <2>1, LeastOf
<1>4. m # j
  BY <1>2, <1>3
<1>5. m - 1 \in j..Len(levels) /\ m - 1 \notin Bad /\ m \in 1..Len(levels)
  BY <1>2, <1>3, <1>4
<1>6. D(j) <= D(m - 1)
  BY <1>5
<1>7. D(m) = D(m - 1) + levels[m].size /\ levels[m].size \in Nat
  BY <1>5, DepthIs, LevelsTyped
<1> HIDE DEF D
<1>8. D(j) \in Nat /\ D(m - 1) \in Nat
  BY <1>2, <1>5
<1>9. D(j) <= D(m)
  BY <1>6, <1>7, <1>8
<1> QED
  BY <1>3, <1>9

Least(x, y) == IF x <= y THEN x ELSE y

LEMMA TakenAt ==
  ASSUME NEW o, NEW levels \in Levels, o.remaining \in Nat, NEW k \in 1..Len(levels)
  PROVE  LET before == Depth(levels, k - 1)
         IN Taken(o, levels)[k] =
              IF k > Reach(o, levels) \/ o.remaining <= before THEN 0
              ELSE Least(levels[k].size, o.remaining - before)
<1> DEFINE before == Depth(levels, k - 1)
<1>1. DOMAIN levels = 1..Len(levels) /\ levels[k].size \in Nat /\ before \in Nat
  <2>1. k - 1 \in 0..Len(levels)
    BY LevelsTyped
  <2> QED
    BY <2>1, LevelsTyped, DepthIs
<1>2. Taken(o, levels)[k] =
        IF k > Reach(o, levels) THEN 0
        ELSE Min({levels[k].size, Max({0, o.remaining - before})})
  BY <1>1 DEF Taken
<1> HIDE DEF before
<1>3. Max({0, o.remaining - before}) = IF 0 >= o.remaining - before THEN 0 ELSE o.remaining - before
  <2>1. 0 \in Int /\ o.remaining - before \in Int
    BY <1>1
  <2> QED
    BY <2>1, MinOfTwo, Zenon
<1>4. Min({levels[k].size, Max({0, o.remaining - before})}) =
        Least(levels[k].size, Max({0, o.remaining - before}))
  <2>1. Max({0, o.remaining - before}) \in Int /\ levels[k].size \in Int
    BY <1>1, <1>3
  <2> QED
    BY <2>1, MinOfTwo, Zenon DEF Least
<1> QED
  BY <1>1, <1>2, <1>3, <1>4 DEF before, Least

(* Level by level, best first, until the order is filled or the walk       *)
(* breaks off.                                                             *)
LEMMA TakenIs ==
  ASSUME NEW o, NEW levels \in Levels, o.remaining \in Nat
  PROVE  LET t == Taken(o, levels)
         IN /\ t \in [1..Len(levels) -> Int]
            /\ \A k \in 1..Len(levels) :
                 /\ 0 <= t[k] /\ t[k] <= levels[k].size
                 /\ k > Reach(o, levels) => t[k] = 0
            /\ SumFunction(t) = Least(o.remaining, Depth(levels, Reach(o, levels)))
<1> DEFINE n == Len(levels)
           t == Taken(o, levels)
           R == Reach(o, levels)
           D(k) == Depth(levels, k)
<1>1. /\ n \in Nat /\ DOMAIN levels = 1..n /\ R \in 0..n
      /\ \A k \in 1..n : levels[k].size \in Nat
      /\ \A k \in 0..n : D(k) \in Nat
      /\ D(0) = 0
      /\ \A k \in 1..n : D(k) = D(k - 1) + levels[k].size
  BY LevelsTyped, ReachIs, DepthIs
<1>2. \A k \in 1..n : t[k] = IF k > R \/ o.remaining <= D(k - 1) THEN 0
                            ELSE Least(levels[k].size, o.remaining - D(k - 1))
  BY TakenAt
<1>3. t = [k \in 1..n |-> t[k]]
  BY <1>1 DEF Taken
<1> HIDE DEF n, t, R, D
<1>4. ASSUME NEW k \in 1..n
      PROVE  t[k] \in Int /\ 0 <= t[k] /\ t[k] <= levels[k].size /\ (k > R => t[k] = 0)
  <2>1. D(k - 1) \in Nat /\ levels[k].size \in Nat
    BY <1>1
  <2>2. t[k] = IF k > R \/ o.remaining <= D(k - 1) THEN 0
               ELSE Least(levels[k].size, o.remaining - D(k - 1))
    BY <1>2
  <2> QED
    BY <2>1, <2>2 DEF Least
<1>5. t \in [1..n -> Int]
  BY <1>3, <1>4
<1>6. PICK r : Running(r, t, n) /\ SumFunction(t) = r[n]
  BY <1>1, <1>5, SumIs
<1> DEFINE Right(k) == r[k] = Least(o.remaining, D(IF k <= R THEN k ELSE R))
           Bad == {k \in 0..n : ~Right(k)}
<1>7. ASSUME Bad # {} PROVE FALSE
  <2>1. PICK m \in Bad : \A k \in Bad : m <= k
    <3>1. Bad \in SUBSET Nat
      OBVIOUS
    <3> HIDE DEF Bad
    <3> QED
      BY <1>7, <3>1, LeastOf
  <2>2. m # 0
    <3>1. r[0] = 0
      BY <1>6 DEF Running
    <3>2. Right(0)
      BY <1>1, <3>1 DEF Least
    <3> QED
      BY <2>1, <3>2
  <2>3. m \in 1..n /\ m - 1 \in 0..n /\ m - 1 \notin Bad
    BY <1>1, <2>1, <2>2
  <2>4. r[m] = r[m - 1] + t[m] /\ t[m] \in Int /\ Right(m - 1)
    BY <1>4, <1>6, <2>3 DEF Running
  <2>5. CASE m > R
    <3>1. t[m] = 0
      BY <1>4, <2>3, <2>5
    <3>2. ~(m <= R) /\ (IF m - 1 <= R THEN m - 1 ELSE R) = R
      BY <1>1, <2>3, <2>5
    <3>3. r[m - 1] = Least(o.remaining, D(R)) /\ r[m - 1] \in Int
      BY <1>6, <2>3, <2>4, <3>2 DEF Running
    <3>4. r[m] = Least(o.remaining, D(R))
      BY <2>4, <3>1, <3>3
    <3>5. Right(m)
      BY <3>2, <3>4
    <3> QED
      BY <2>1, <3>5
  <2>6. CASE m <= R
    <3>1. m - 1 <= R
      BY <1>1, <2>3, <2>6
    <3>2. r[m - 1] = Least(o.remaining, D(m - 1))
      BY <2>4, <3>1
    <3>3. t[m] = IF o.remaining <= D(m - 1) THEN 0
                 ELSE Least(levels[m].size, o.remaining - D(m - 1))
      BY <1>1, <1>2, <2>3, <2>6
    <3>4. D(m) = D(m - 1) + levels[m].size /\ D(m - 1) \in Nat /\ levels[m].size \in Nat
      BY <1>1, <2>3
    <3>5. r[m] = Least(o.remaining, D(m))
      BY <2>4, <3>2, <3>3, <3>4 DEF Least
    <3>6. Right(m)
      BY <2>6, <3>5
    <3> QED
      BY <2>1, <3>6
  <2> QED
    BY <1>1, <2>3, <2>5, <2>6
<1>8. SumFunction(t) = Least(o.remaining, D(R))
  <2>1. n \in 0..n /\ (IF n <= R THEN n ELSE R) = R
    BY <1>1
  <2>2. Right(n)
    BY <1>7, <2>1
  <2> QED
    BY <1>6, <2>1, <2>2
<1> QED
  BY <1>4, <1>5, <1>8 DEF n, t, R, D

(***************************************************************************)
(* What a match does to an order and to the account.                       *)
(***************************************************************************)
Order ==
  [side : Sides, type : {"MARKET", "LIMIT"}, limit : Nat, source : {"MANUAL", "STRATEGY"},
   approval : Nat, requested : Nat, filled : Nat, remaining : Nat, cancelled : Nat,
   rejected : Nat, value : Nat, status : Statuses \cup {"PENDING_SUBMIT"}, open : BOOLEAN,
   events : Nat]

Account ==
  [cash : Int, fees : Nat, position : Int, lossReached : BOOLEAN, orders : Seq(Order)]

Values(o, levels) ==
  [n \in DOMAIN levels |-> ExecutionPrice(o, levels[n].price) * Taken(o, levels)[n]]

LEMMA Products ==
  /\ \A x, y \in Int : x * y \in Int
  /\ \A x, y \in Nat : x * y \in Nat
  /\ \A x, y, z \in Int : z >= 0 /\ x <= y => x * z <= y * z
  /\ \A x, y, z \in Int : (x + y) * z = x * z + y * z
<1>1. \A x, y, z \in Int : z >= 0 /\ x <= y => x * z <= y * z
  <2> SUFFICES ASSUME NEW x \in Int, NEW y \in Int, NEW z \in Int, z >= 0, x <= y
               PROVE  x * z <= y * z
    OBVIOUS
  <2>1. (y - x) * z >= 0
    OBVIOUS
  <2>2. (y - x) * z = y * z - x * z
    OBVIOUS
  <2> QED
    BY <2>1, <2>2
<1> QED
  BY <1>1

LEMMA PriceIs ==
  ASSUME NEW o \in Order, NEW price \in Int, price > 0
  PROVE  /\ ExecutionPrice(o, price) \in Nat
         /\ o.type = "LIMIT" => ExecutionPrice(o, price) = price
         /\ o.type = "MARKET" /\ o.side = "BUY" =>
              ExecutionPrice(o, price) = price + SlippageTicks * TickSize
<1> DEFINE slip == SlippageTicks * TickSize
<1>1. slip \in Nat
  BY TraderAssumption, Products
<1>3. ExecutionPrice(o, price) =
        IF o.type = "LIMIT" THEN price
        ELSE IF o.side = "BUY" THEN price + slip ELSE Max({0, price - slip})
  BY DEF ExecutionPrice
<1> HIDE DEF slip
<1>4. Max({0, price - slip}) \in Nat
  <2>1. 0 \in Int /\ price - slip \in Int
    BY <1>1
  <2>2. Max({0, price - slip}) = IF 0 >= price - slip THEN 0 ELSE price - slip
    BY <2>1, MinOfTwo, Zenon
  <2> QED
    BY <2>1, <2>2
<1>5. ExecutionPrice(o, price) \in Nat
  BY <1>1, <1>3, <1>4
<1>6. o.type = "LIMIT" => ExecutionPrice(o, price) = price
  BY <1>3
<1>7. o.type = "MARKET" /\ o.side = "BUY" => ExecutionPrice(o, price) = price + slip
  BY <1>3
<1> QED
  BY <1>5, <1>6, <1>7 DEF slip

(* A fill at a level is worth its price, or more by the slippage.          *)
LEMMA ValueAt ==
  ASSUME NEW o \in Order, NEW levels \in Levels, NEW k \in 1..Len(levels)
  PROVE  LET t == Taken(o, levels)
             v == Values(o, levels)
         IN /\ v[k] \in Nat
            /\ o.side = "BUY" /\ o.type = "LIMIT" => v[k] <= o.limit * t[k]
            /\ o.side = "BUY" /\ o.type = "MARKET" =>
                 v[k] = levels[k].price * t[k] + (SlippageTicks * TickSize) * t[k]
<1> DEFINE t == Taken(o, levels)
           v == Values(o, levels)
           price == levels[k].price
           paid == ExecutionPrice(o, price)
           slip == SlippageTicks * TickSize
<1>1. o.remaining \in Nat /\ o.limit \in Nat
  BY DEF Order
<1>2. t[k] \in Nat /\ (k > Reach(o, levels) => t[k] = 0)
  <2>1. t[k] \in Int /\ 0 <= t[k] /\ (k > Reach(o, levels) => t[k] = 0)
    BY <1>1, TakenIs
  <2> QED
    BY <2>1
<1>3. v[k] = paid * t[k] /\ price \in Int /\ slip \in Int
  BY LevelsTyped, TraderAssumption, Products DEF Values
<1>4. paid \in Int
  <2>2. paid = IF o.type = "LIMIT" THEN price
               ELSE IF o.side = "BUY" THEN price + slip ELSE Max({0, price - slip})
    BY DEF ExecutionPrice
  <2>3. 0 \in Int /\ price - slip \in Int
    BY <1>3
  <2>4. Max({0, price - slip}) = IF 0 >= price - slip THEN 0 ELSE price - slip
    BY <2>3, MinOfTwo, Zenon
  <2> HIDE DEF price, slip, paid
  <2> QED
    BY <1>3, <2>2, <2>3, <2>4
<1>5. CASE k > Reach(o, levels)
  <2>1. t[k] = 0
    BY <1>2, <1>5
  <2> HIDE DEF t, v, price, paid, slip
  <2>2. v[k] = 0 /\ o.limit * t[k] = 0 /\ price * t[k] = 0 /\ slip * t[k] = 0
    BY <1>1, <1>3, <1>4, <2>1
  <2>3. v[k] \in Nat /\ v[k] <= o.limit * t[k] /\ v[k] = price * t[k] + slip * t[k]
    BY <2>2
  <2> QED
    BY <2>3 DEF t, v, price, slip
<1>6. CASE ~(k > Reach(o, levels))
  <2>1. k \in 1..Reach(o, levels)
    BY <1>6, LevelsTyped, ReachIs
  <2>2. Executable(o, levels[k])
    BY <2>1, ReachIs
  <2>3. price > 0 /\ (o.type = "LIMIT" /\ o.side = "BUY" => price <= o.limit)
    BY <2>2 DEF Executable, Priced
  <2>4. /\ paid \in Nat
        /\ o.type = "LIMIT" => paid = price
        /\ o.type = "MARKET" /\ o.side = "BUY" => paid = price + slip
    BY <1>3, <2>3, PriceIs
  <2> HIDE DEF t, v, price, paid, slip
  <2>5. v[k] \in Nat
    BY <1>2, <1>3, <2>4, Products
  <2>6. ASSUME o.side = "BUY", o.type = "LIMIT" PROVE v[k] <= o.limit * t[k]
    <3>1. paid <= o.limit /\ t[k] \in Int /\ t[k] >= 0 /\ o.limit \in Int
      BY <1>1, <1>2, <2>3, <2>4, <2>6
    <3>2. paid * t[k] <= o.limit * t[k]
      BY <1>4, <3>1, Products
    <3> QED
      BY <1>3, <3>2
  <2>7. ASSUME o.side = "BUY", o.type = "MARKET" PROVE v[k] = price * t[k] + slip * t[k]
    <3>1. paid = price + slip /\ t[k] \in Int
      BY <1>2, <2>4, <2>7
    <3>2. (price + slip) * t[k] = price * t[k] + slip * t[k]
      BY <1>3, <3>1, Products
    <3> QED
      BY <1>3, <3>1, <3>2
  <2> QED
    BY <2>5, <2>6, <2>7 DEF t, v, price, slip
<1> QED
  BY <1>5, <1>6

Prices(o, levels) == [n \in DOMAIN levels |-> levels[n].price * Taken(o, levels)[n]]

Fees(o, levels) == [n \in DOMAIN levels |-> Costs(o.side, Values(o, levels)[n])]

LEMMA ZeroSum ==
  ASSUME NEW n \in Nat
  PROVE  SumFunction([k \in 1..n |-> 0]) = 0
<1> DEFINE z == [k \in 1..n |-> 0]
           r == [k \in 0..n |-> 0]
<1>1. z \in [1..n -> Int] /\ Running(r, z, n) /\ r[n] = 0 /\ n \in 0..n
  BY DEF Running
<1>2. PICK p : Running(p, z, n) /\ SumFunction(z) = p[n]
  BY <1>1, SumIs
<1> QED
  BY <1>1, <1>2, RunningSame

LEMMA CostsNat ==
  ASSUME NEW side, NEW value \in Nat
  PROVE  Costs(side, value) \in Nat
<1>1. FeeBps \in Nat /\ TaxBps \in Nat
  BY TraderAssumption
<1>2. ASSUME NEW bps \in Nat PROVE Share(value, bps) \in Nat
  <2>1. 2 * value * bps \in Nat
    BY Products
  <2> DEFINE m == 2 * value * bps + 10000
  <2>2. m \in Nat
    BY <2>1
  <2> HIDE DEF m
  <2>3. m \div 20000 \in Nat
    BY <2>2
  <2> QED
    BY <2>3 DEF Share, m
<1>3. Share(value, FeeBps) \in Nat /\ Share(value, TaxBps) \in Nat
  BY <1>1, <1>2
<1> QED
  BY <1>3 DEF Costs

LEMMA WalkSums ==
  ASSUME NEW o \in Order, NEW levels \in Levels
  PROVE  LET q == SumFunction(Taken(o, levels))
             v == SumFunction(Values(o, levels))
         IN /\ q \in Nat /\ q <= o.remaining
            /\ q = Least(o.remaining, Depth(levels, Reach(o, levels)))
            /\ v \in Nat
            /\ SumFunction(Fees(o, levels)) \in Nat
            /\ SumFunction(Prices(o, levels)) \in Int
            /\ o.side = "BUY" /\ o.type = "LIMIT" => v <= o.limit * q
            /\ o.side = "BUY" /\ o.type = "MARKET" =>
                 v <= SumFunction(Prices(o, levels)) + (SlippageTicks * TickSize) * q
<1> DEFINE n == Len(levels)
           t == Taken(o, levels)
           v == Values(o, levels)
           c == Fees(o, levels)
           b == Prices(o, levels)
           z == [k \in 1..n |-> 0]
           slip == SlippageTicks * TickSize
<1>1. n \in Nat /\ DOMAIN levels = 1..n /\ o.remaining \in Nat /\ o.limit \in Int
  BY LevelsTyped DEF Order
<1>2. t \in [1..n -> Int] /\ \A k \in 1..n : 0 <= t[k]
  BY <1>1, TakenIs
<1>3. SumFunction(t) = Least(o.remaining, Depth(levels, Reach(o, levels)))
  BY <1>1, TakenIs
<1>4. SumFunction(t) \in Nat /\ SumFunction(t) <= o.remaining
  <2>1. Depth(levels, Reach(o, levels)) \in Nat
    BY ReachIs, DepthIs
  <2> QED
    BY <1>1, <1>3, <2>1 DEF Least
<1>5. v \in [1..n -> Int] /\ \A k \in 1..n : v[k] >= 0
  <2>1. \A k \in 1..n : v[k] \in Nat
    BY ValueAt
  <2>2. v = [k \in 1..n |-> v[k]]
    BY <1>1 DEF Values
  <2> HIDE DEF v
  <2> QED
    BY <2>1, <2>2
<1>6. SumFunction(v) \in Nat
  <2> HIDE DEF v, n
  <2>1. SumFunction(v) \in Int /\ SumFunction(v) >= 0
    BY <1>1, <1>5, SumType, SumLeast
  <2> QED
    BY <2>1
<1>7. c \in [1..n -> Int] /\ \A k \in 1..n : c[k] >= 0
  <2>1. \A k \in 1..n : c[k] \in Nat
    <3>1. \A k \in 1..n : v[k] \in Nat
      BY ValueAt
    <3>2. \A k \in 1..n : c[k] = Costs(o.side, v[k])
      BY <1>1 DEF Fees
    <3> HIDE DEF v, c
    <3> QED
      BY <3>1, <3>2, CostsNat
  <2>2. c = [k \in 1..n |-> c[k]]
    BY <1>1 DEF Fees
  <2> HIDE DEF c
  <2> QED
    BY <2>1, <2>2
<1>8. SumFunction(c) \in Nat
  <2> HIDE DEF c, n
  <2>1. SumFunction(c) \in Int /\ SumFunction(c) >= 0
    BY <1>1, <1>7, SumType, SumLeast
  <2> QED
    BY <2>1
<1>9. b \in [1..n -> Int] /\ \A k \in 1..n : b[k] = levels[k].price * t[k]
  <2>1. \A k \in 1..n : b[k] = levels[k].price * t[k] /\ levels[k].price \in Int /\ t[k] \in Int
    BY <1>1, <1>2, LevelsTyped DEF Prices
  <2>2. b = [k \in 1..n |-> b[k]]
    BY <1>1 DEF Prices
  <2> HIDE DEF b, t
  <2>3. \A k \in 1..n : b[k] \in Int
    BY <2>1, Products
  <2> QED
    BY <2>1, <2>2, <2>3
<1>10. SumFunction(b) \in Int
  <2> HIDE DEF b, n
  <2> QED
    BY <1>1, <1>9, SumType
<1>11. ASSUME o.side = "BUY", o.type = "LIMIT" PROVE SumFunction(v) <= o.limit * SumFunction(t)
  <2>1. \A k \in 1..n : v[k] <= o.limit * t[k]
    BY <1>11, ValueAt
  <2>2. \A k \in 1..n : o.limit * t[k] \in Int
    <3> HIDE DEF t, n
    <3> QED
      BY <1>1, <1>2, Products
  <2>3. z \in [1..n -> Int] /\ SumFunction(z) = 0 /\ \A k \in 1..n : z[k] = 0
    BY <1>1, ZeroSum
  <2> HIDE DEF v, t, z, n
  <2>4. \A k \in 1..n : v[k] <= z[k] + o.limit * t[k]
    BY <2>1, <2>2, <2>3
  <2>5. SumFunction(v) <= SumFunction(z) + o.limit * SumFunction(t)
    BY <1>1, <1>2, <1>5, <2>3, <2>4, SumBound, Zenon
  <2>6. o.limit * SumFunction(t) \in Int
    BY <1>1, <1>4, Products
  <2> QED
    BY <2>3, <2>5, <2>6
<1>12. ASSUME o.side = "BUY", o.type = "MARKET"
       PROVE  SumFunction(v) <= SumFunction(b) + slip * SumFunction(t)
  <2>1. \A k \in 1..n : v[k] = levels[k].price * t[k] + slip * t[k]
    BY <1>12, ValueAt
  <2>2. slip \in Int
    BY TraderAssumption, Products
  <2> HIDE DEF v, t, b, slip, n
  <2>3. \A k \in 1..n : v[k] <= b[k] + slip * t[k]
    <3>1. \A k \in 1..n : v[k] = b[k] + slip * t[k] /\ v[k] \in Int
      BY <1>5, <1>9, <2>1
    <3> QED
      BY <3>1
  <2> QED
    BY <1>1, <1>2, <1>5, <1>9, <2>2, <2>3, SumBound, Zenon
<1> QED
  BY <1>3, <1>4, <1>6, <1>8, <1>10, <1>11, <1>12

(* What no handler changes of an order.                                    *)
SameOrder(o, p) ==
  /\ p.side = o.side /\ p.type = o.type /\ p.limit = o.limit /\ p.approval = o.approval
  /\ p.events >= o.events

(* q shares filled for v.                                                  *)
FilledBy(o, p, q, v) ==
  /\ p.filled = o.filled + q
  /\ p.remaining = o.remaining - q
  /\ p.value = o.value + v
  /\ p.open <=> p.remaining > 0

LEMMA WalkedIs ==
  ASSUME NEW o \in Order, NEW levels \in Levels, NEW v \in Nat
  PROVE  LET t == Taken(o, levels)
             p == Walked(o, t, v)
         IN p \in Order /\ SameOrder(o, p) /\ FilledBy(o, p, SumFunction(t), v)
<1> DEFINE t == Taken(o, levels)
           q == SumFunction(t)
           p == Walked(o, t, v)
           left == o.remaining - q
           fills == Cardinality({n \in DOMAIN t : t[n] > 0})
           e == o.events + fills + (IF left = 0 \/ o.filled + q > 0 THEN 1 ELSE 0)
           s == CASE left = 0 -> "FILLED"
                  [] o.filled + q > 0 -> "PARTIALLY_FILLED"
                  [] OTHER -> o.status
<1>1. q \in Nat /\ q <= o.remaining
  BY WalkSums
<1>2. o.remaining \in Nat /\ o.filled \in Nat /\ o.value \in Nat /\ o.events \in Nat
  BY DEF Order
<1>3. e \in Nat /\ e >= o.events
  <2>1. DOMAIN t = 1..Len(levels)
    BY LevelsTyped DEF Taken
  <2>2. IsFiniteSet(1..Len(levels))
    BY LevelsTyped, FS_Interval
  <2>3. IsFiniteSet({n \in DOMAIN t : t[n] > 0})
    <3>1. {n \in DOMAIN t : t[n] > 0} \in SUBSET (1..Len(levels))
      BY <2>1
    <3> QED
      BY <2>2, <3>1, FS_Subset
  <2>4. fills \in Nat
    BY <2>3, FS_CardinalityType
  <2> HIDE DEF fills
  <2> QED
    BY <1>2, <2>4
<1>4. s \in Statuses \cup {"PENDING_SUBMIT"}
  <2>1. o.status \in Statuses \cup {"PENDING_SUBMIT"}
    BY DEF Order
  <2>2. s \in {"FILLED", "PARTIALLY_FILLED", o.status}
    <3> HIDE DEF left, q
    <3>1. CASE left = 0
      BY <3>1
    <3>2. CASE left # 0 /\ o.filled + q > 0
      BY <3>2
    <3>3. CASE left # 0 /\ ~(o.filled + q > 0)
      BY <3>3
    <3> QED
      BY <3>1, <3>2, <3>3
  <2> QED
    BY <2>1, <2>2 DEF Statuses, OpenStatuses
<1>5. p = [o EXCEPT !.filled = o.filled + q, !.remaining = left, !.value = o.value + v,
                    !.open = left > 0, !.status = s, !.events = e]
  BY DEF Walked
<1> HIDE DEF q, p, s, e, t
<1>6. left \in Nat /\ o.filled + q \in Nat /\ o.value + v \in Nat /\ (left > 0) \in BOOLEAN
  BY <1>1, <1>2
<1>7. p \in Order
  <2> HIDE DEF left
  <2> QED
    BY <1>3, <1>4, <1>5, <1>6 DEF Order
<1>8. SameOrder(o, p) /\ FilledBy(o, p, q, v)
  BY <1>1, <1>2, <1>3, <1>5, <1>6 DEF Order, SameOrder, FilledBy
<1> QED
  BY <1>7, <1>8 DEF q, p, t

(* An account after a match of its ith order.                              *)
MatchedBy(a, b, i, q, v, c) ==
  LET o == a.orders[i]
      p == b.orders[i]
  IN /\ b.orders = [a.orders EXCEPT ![i] = p]
     /\ p \in Order /\ SameOrder(o, p) /\ FilledBy(o, p, q, v)
     /\ b.position = a.position + (IF o.side = "BUY" THEN q ELSE -q)
     /\ b.fees = a.fees + c
     /\ b.cash = a.cash - c + (IF o.side = "BUY" THEN -v ELSE v)

LEMMA OrdersTyped ==
  ASSUME NEW orders \in Seq(Order)
  PROVE  /\ Len(orders) \in Nat /\ DOMAIN orders = 1..Len(orders)
         /\ \A i \in 1..Len(orders) : orders[i] \in Order
         /\ \A i \in 1..Len(orders), p \in Order :
              LET new == [orders EXCEPT ![i] = p]
              IN /\ new \in Seq(Order) /\ Len(new) = Len(orders) /\ new[i] = p
                 /\ \A j \in 1..Len(orders) : j # i => new[j] = orders[j]
  OBVIOUS

LEMMA MatchIs ==
  ASSUME NEW a \in Account, NEW i \in 1..Len(a.orders), NEW levels \in Levels,
         NEW loss \in BOOLEAN
  PROVE  LET o == a.orders[i]
             b == Match(a, i, levels, loss)
         IN /\ b \in Account
            /\ MatchedBy(a, b, i, SumFunction(Taken(o, levels)), SumFunction(Values(o, levels)),
                         SumFunction(Fees(o, levels)))
<1> DEFINE o == a.orders[i]
           b == Match(a, i, levels, loss)
           t == Taken(o, levels)
           q == SumFunction(t)
           v == SumFunction(Values(o, levels))
           c == SumFunction(Fees(o, levels))
           p == Walked(o, t, v)
           new == [a.orders EXCEPT ![i] = p]
<1>1. a.orders \in Seq(Order) /\ a.cash \in Int /\ a.fees \in Nat /\ a.position \in Int
      /\ a.lossReached \in BOOLEAN
  BY DEF Account
<1>2. o \in Order /\ o.side \in {"BUY", "SELL"}
  BY <1>1, OrdersTyped DEF Order, Sides
<1>3. q \in Nat /\ v \in Nat /\ c \in Nat
  BY <1>2, WalkSums
<1>4. p \in Order /\ SameOrder(o, p) /\ FilledBy(o, p, q, v)
  BY <1>2, <1>3, WalkedIs
<1>5. b = [a EXCEPT !.cash = a.cash - c + (IF o.side = "BUY" THEN -v ELSE v),
                    !.fees = a.fees + c,
                    !.position = a.position + (IF o.side = "BUY" THEN q ELSE -q),
                    !.lossReached = IF ~(o.side = "BUY") /\ q > 0 THEN loss ELSE a.lossReached,
                    !.orders = new]
  BY DEF Match, Values, Fees
<1> HIDE DEF b, o, q, v, c, p, t
<1>6. new \in Seq(Order) /\ new[i] = p
  BY <1>1, <1>4, OrdersTyped
<1> HIDE DEF new
<1>7. b \in Account
  <2> DEFINE cash == a.cash - c + (IF o.side = "BUY" THEN -v ELSE v)
             position == a.position + (IF o.side = "BUY" THEN q ELSE -q)
             reached == IF ~(o.side = "BUY") /\ q > 0 THEN loss ELSE a.lossReached
  <2>1. cash \in Int /\ a.fees + c \in Nat /\ position \in Int /\ reached \in BOOLEAN
    BY <1>1, <1>3
  <2> HIDE DEF cash, position, reached
  <2>2. b = [a EXCEPT !.cash = cash, !.fees = a.fees + c, !.position = position,
                      !.lossReached = reached, !.orders = new]
    BY <1>5 DEF cash, position, reached
  <2> QED
    BY <1>6, <2>1, <2>2 DEF Account
<1>8. /\ b.orders = new
      /\ b.position = a.position + (IF o.side = "BUY" THEN q ELSE -q)
      /\ b.fees = a.fees + c
      /\ b.cash = a.cash - c + (IF o.side = "BUY" THEN -v ELSE v)
  BY <1>5 DEF Account
<1>9. b.orders[i] = p /\ b.orders = [a.orders EXCEPT ![i] = p]
  BY <1>6, <1>8 DEF new
<1>10. MatchedBy(a, b, i, q, v, c)
  BY <1>4, <1>8, <1>9 DEF MatchedBy, o
<1> QED
  BY <1>7, <1>10 DEF b, o, q, v, c, t

(***************************************************************************)
(* The totals over an account's orders, each of a function of the order.   *)
(***************************************************************************)
SumOf(orders, A) == SumFunction([i \in DOMAIN orders |-> A[orders[i]]])

FilledOn(side) == [o \in Order |-> IF o.side = side THEN o.filled ELSE 0]
WorthOn(side) == [o \in Order |-> IF o.side = side THEN o.value ELSE 0]
OpenOn(side) == [o \in Order |-> IF o.open /\ o.side = side THEN o.remaining ELSE 0]
Held == [o \in Order |-> IF o.open /\ o.side = "BUY" THEN o.limit * o.remaining ELSE 0]
Slip == [o \in Order |-> IF o.type = "MARKET" THEN SlippageTicks * TickSize * o.filled ELSE 0]

Ints1(A) == A \in [Order -> Int]

LEMMA AmountsTyped ==
  /\ \A side \in Sides : Ints1(FilledOn(side)) /\ Ints1(WorthOn(side)) /\ Ints1(OpenOn(side))
  /\ Ints1(Held) /\ Ints1(Slip)
<1>1. ASSUME NEW o \in Order
      PROVE  /\ o.filled \in Int /\ o.value \in Int /\ o.remaining \in Int
             /\ o.limit * o.remaining \in Int
             /\ SlippageTicks * TickSize * o.filled \in Int
  <2>1. o.filled \in Int /\ o.value \in Int /\ o.remaining \in Int /\ o.limit \in Int
    BY DEF Order
  <2>2. SlippageTicks \in Int /\ TickSize \in Int
    BY TraderAssumption
  <2> QED
    BY <2>1, <2>2, Products
<1>2. ASSUME NEW side \in Sides
      PROVE  Ints1(FilledOn(side)) /\ Ints1(WorthOn(side)) /\ Ints1(OpenOn(side))
  BY <1>1 DEF Ints1, FilledOn, WorthOn, OpenOn
<1>3. Ints1(Held)
  BY <1>1 DEF Ints1, Held
<1>4. Ints1(Slip)
  BY <1>1 DEF Ints1, Slip
<1> QED
  BY <1>2, <1>3, <1>4

LEMMA TotalsAre ==
  ASSUME NEW orders \in Seq(Order)
  PROVE  /\ \A side \in Sides : /\ Filled(orders, side) = SumOf(orders, FilledOn(side))
                                /\ Worth(orders, side) = SumOf(orders, WorthOn(side))
                                /\ OpenQuantity(orders, side) = SumOf(orders, OpenOn(side))
         /\ ReservedCash(orders) = SumOf(orders, Held)
         /\ Slipped(orders) = SumOf(orders, Slip)
<1>1. \A i \in DOMAIN orders : orders[i] \in Order
  BY OrdersTyped
<1>2. ASSUME NEW side \in Sides PROVE Filled(orders, side) = SumOf(orders, FilledOn(side))
  <2>1. [i \in DOMAIN orders |-> IF orders[i].side = side THEN orders[i].filled ELSE 0]
          = [i \in DOMAIN orders |-> FilledOn(side)[orders[i]]]
    BY <1>1 DEF FilledOn
  <2> QED
    BY <2>1 DEF Filled, Total, SumOf
<1>3. ASSUME NEW side \in Sides PROVE Worth(orders, side) = SumOf(orders, WorthOn(side))
  <2>1. [i \in DOMAIN orders |-> IF orders[i].side = side THEN orders[i].value ELSE 0]
          = [i \in DOMAIN orders |-> WorthOn(side)[orders[i]]]
    BY <1>1 DEF WorthOn
  <2> QED
    BY <2>1 DEF Worth, Total, SumOf
<1>4. ASSUME NEW side \in Sides PROVE OpenQuantity(orders, side) = SumOf(orders, OpenOn(side))
  <2>1. [i \in DOMAIN orders |-> IF orders[i].open /\ orders[i].side = side
                                THEN orders[i].remaining ELSE 0]
          = [i \in DOMAIN orders |-> OpenOn(side)[orders[i]]]
    BY <1>1 DEF OpenOn
  <2> QED
    BY <2>1 DEF OpenQuantity, Total, SumOf
<1>5. ReservedCash(orders) = SumOf(orders, Held)
  <2>1. [i \in DOMAIN orders |-> IF orders[i].open /\ orders[i].side = "BUY"
                                THEN orders[i].limit * orders[i].remaining ELSE 0]
          = [i \in DOMAIN orders |-> Held[orders[i]]]
    BY <1>1 DEF Held
  <2> QED
    BY <2>1 DEF ReservedCash, Total, SumOf
<1>6. Slipped(orders) = SumOf(orders, Slip)
  <2>1. [i \in DOMAIN orders |-> IF orders[i].type = "MARKET"
                                THEN SlippageTicks * TickSize * orders[i].filled ELSE 0]
          = [i \in DOMAIN orders |-> Slip[orders[i]]]
    BY <1>1 DEF Slip
  <2> QED
    BY <2>1 DEF Slipped, Total, SumOf
<1> QED
  BY <1>2, <1>3, <1>4, <1>5, <1>6

LEMMA SumOfIs ==
  ASSUME NEW orders \in Seq(Order), NEW A, Ints1(A)
  PROVE  /\ SumOf(orders, A) \in Int
         /\ SumOf(<<>>, A) = 0
         /\ \A i \in 1..Len(orders), p \in Order :
              SumOf([orders EXCEPT ![i] = p], A) = SumOf(orders, A) - A[orders[i]] + A[p]
         /\ \A p \in Order : SumOf(Append(orders, p), A) = SumOf(orders, A) + A[p]
<1> DEFINE n == Len(orders)
           f == [i \in DOMAIN orders |-> A[orders[i]]]
<1>1. n \in Nat /\ DOMAIN orders = 1..n /\ \A i \in 1..n : orders[i] \in Order
  BY OrdersTyped
<1>2. f \in [1..n -> Int] /\ SumOf(orders, A) = SumFunction(f)
  BY <1>1 DEF Ints1, SumOf
<1>3. SumOf(orders, A) \in Int
  <2> HIDE DEF f, n
  <2> QED
    BY <1>1, <1>2, SumType
<1>4. SumOf(<<>>, A) = 0
  <2> DEFINE e == [i \in DOMAIN <<>> |-> A[<<>>[i]]]
  <2>1. e \in [1..0 -> Int]
    OBVIOUS
  <2> HIDE DEF e
  <2>2. SumFunction(e) = 0
    BY <2>1, SumNone
  <2> QED
    BY <2>2 DEF e, SumOf
<1>5. ASSUME NEW i \in 1..n, NEW p \in Order
      PROVE  SumOf([orders EXCEPT ![i] = p], A) = SumOf(orders, A) - A[orders[i]] + A[p]
  <2> DEFINE new == [orders EXCEPT ![i] = p]
             g == [j \in DOMAIN new |-> A[new[j]]]
  <2>1. /\ DOMAIN new = 1..n /\ new[i] = p /\ \A j \in 1..n : new[j] \in Order
        /\ \A j \in 1..n : j # i => new[j] = orders[j]
    BY <1>1
  <2>2. Ints(g, n) /\ g[i] = A[p] /\ SumOf(new, A) = SumFunction(g)
    BY <2>1 DEF Ints, Ints1, SumOf
  <2>3. Ints(f, n) /\ ButAt(f, g, n, i) /\ f[i] = A[orders[i]]
    BY <1>1, <1>2, <2>1 DEF Ints, ButAt
  <2> HIDE DEF f, g, n, new
  <2>4. SumFunction(g) = SumFunction(f) - f[i] + g[i]
    BY <1>1, <2>2, <2>3, SumBut DEF Ints, ButAt
  <2> QED
    BY <1>2, <2>2, <2>3, <2>4 DEF new
<1>6. ASSUME NEW p \in Order PROVE SumOf(Append(orders, p), A) = SumOf(orders, A) + A[p]
  <2> DEFINE new == Append(orders, p)
             g == [j \in DOMAIN new |-> A[new[j]]]
  <2>1. /\ DOMAIN new = 1..(n + 1) /\ new[n + 1] = p
        /\ \A j \in 1..n : new[j] = orders[j]
    BY <1>1
  <2>2. \A j \in 1..(n + 1) : new[j] \in Order
    BY <1>1, <2>1
  <2>3. g \in [1..(n + 1) -> Int] /\ g[n + 1] = A[p] /\ SumOf(new, A) = SumFunction(g)
    BY <1>1, <2>1, <2>2 DEF Ints1, SumOf
  <2>4. \A j \in 1..n : f[j] = g[j]
    BY <1>1, <2>1
  <2> HIDE DEF f, g, n, new
  <2>5. SumFunction(g) = SumFunction(f) + g[n + 1]
    BY <1>1, <1>2, <2>3, <2>4, SumMore
  <2> QED
    BY <1>2, <2>3, <2>5 DEF new
<1> QED
  BY <1>3, <1>4, <1>5, <1>6

LEMMA AmountsAre ==
  ASSUME NEW o \in Order
  PROVE  /\ \A side \in Sides :
              /\ FilledOn(side)[o] = IF o.side = side THEN o.filled ELSE 0
              /\ WorthOn(side)[o] = IF o.side = side THEN o.value ELSE 0
              /\ OpenOn(side)[o] = IF o.open /\ o.side = side THEN o.remaining ELSE 0
         /\ Held[o] = IF o.open /\ o.side = "BUY" THEN o.limit * o.remaining ELSE 0
         /\ Slip[o] = IF o.type = "MARKET" THEN SlippageTicks * TickSize * o.filled ELSE 0
  BY DEF FilledOn, WorthOn, OpenOn, Held, Slip

TotalsTyped(orders) ==
  /\ \A side \in Sides : /\ Filled(orders, side) \in Int /\ Worth(orders, side) \in Int
                         /\ OpenQuantity(orders, side) \in Int
  /\ ReservedCash(orders) \in Int /\ Slipped(orders) \in Int

(* The totals of new are those of orders, less o, more p.                  *)
TotalsMoved(orders, new, o, p) ==
  /\ \A side \in Sides :
       /\ Filled(new, side) = Filled(orders, side) - FilledOn(side)[o] + FilledOn(side)[p]
       /\ Worth(new, side) = Worth(orders, side) - WorthOn(side)[o] + WorthOn(side)[p]
       /\ OpenQuantity(new, side) = OpenQuantity(orders, side) - OpenOn(side)[o] + OpenOn(side)[p]
  /\ ReservedCash(new) = ReservedCash(orders) - Held[o] + Held[p]
  /\ Slipped(new) = Slipped(orders) - Slip[o] + Slip[p]

TotalsAdded(orders, new, p) ==
  /\ \A side \in Sides :
       /\ Filled(new, side) = Filled(orders, side) + FilledOn(side)[p]
       /\ Worth(new, side) = Worth(orders, side) + WorthOn(side)[p]
       /\ OpenQuantity(new, side) = OpenQuantity(orders, side) + OpenOn(side)[p]
  /\ ReservedCash(new) = ReservedCash(orders) + Held[p]
  /\ Slipped(new) = Slipped(orders) + Slip[p]

LEMMA TotalsInt ==
  ASSUME NEW orders \in Seq(Order)
  PROVE  TotalsTyped(orders)
<1>1. \A A : Ints1(A) => SumOf(orders, A) \in Int
  BY SumOfIs
<1> QED
  BY <1>1, AmountsTyped, TotalsAre DEF TotalsTyped

LEMMA TotalsChange ==
  ASSUME NEW orders \in Seq(Order), NEW i \in 1..Len(orders), NEW p \in Order
  PROVE  TotalsMoved(orders, [orders EXCEPT ![i] = p], orders[i], p)
<1> DEFINE new == [orders EXCEPT ![i] = p]
<1>1. new \in Seq(Order)
  BY OrdersTyped
<1>2. \A A : Ints1(A) => SumOf(new, A) = SumOf(orders, A) - A[orders[i]] + A[p]
  BY SumOfIs
<1> HIDE DEF new
<1>3. ASSUME NEW side \in Sides
      PROVE /\ Filled(new, side) = Filled(orders, side) - FilledOn(side)[orders[i]] + FilledOn(side)[p]
            /\ Worth(new, side) = Worth(orders, side) - WorthOn(side)[orders[i]] + WorthOn(side)[p]
            /\ OpenQuantity(new, side)
                 = OpenQuantity(orders, side) - OpenOn(side)[orders[i]] + OpenOn(side)[p]
  BY <1>1, <1>2, AmountsTyped, TotalsAre
<1>4. /\ ReservedCash(new) = ReservedCash(orders) - Held[orders[i]] + Held[p]
      /\ Slipped(new) = Slipped(orders) - Slip[orders[i]] + Slip[p]
  BY <1>1, <1>2, AmountsTyped, TotalsAre
<1> QED
  BY <1>3, <1>4 DEF TotalsMoved, new

LEMMA TotalsAppend ==
  ASSUME NEW orders \in Seq(Order), NEW p \in Order
  PROVE  TotalsAdded(orders, Append(orders, p), p)
<1> DEFINE new == Append(orders, p)
<1>1. new \in Seq(Order)
  OBVIOUS
<1>2. \A A : Ints1(A) => SumOf(new, A) = SumOf(orders, A) + A[p]
  BY SumOfIs
<1> HIDE DEF new
<1>3. ASSUME NEW side \in Sides
      PROVE /\ Filled(new, side) = Filled(orders, side) + FilledOn(side)[p]
            /\ Worth(new, side) = Worth(orders, side) + WorthOn(side)[p]
            /\ OpenQuantity(new, side) = OpenQuantity(orders, side) + OpenOn(side)[p]
  BY <1>1, <1>2, AmountsTyped, TotalsAre
<1>4. /\ ReservedCash(new) = ReservedCash(orders) + Held[p]
      /\ Slipped(new) = Slipped(orders) + Slip[p]
  BY <1>1, <1>2, AmountsTyped, TotalsAre
<1> QED
  BY <1>3, <1>4 DEF TotalsAdded, new

LEMMA SlippedNat ==
  ASSUME NEW orders \in Seq(Order)
  PROVE  Slipped(orders) \in Int /\ Slipped(orders) >= 0
<1> DEFINE f == [i \in DOMAIN orders |-> Slip[orders[i]]]
           n == Len(orders)
<1>1. n \in Nat /\ DOMAIN orders = 1..n /\ \A i \in 1..n : orders[i] \in Order
  BY OrdersTyped
<1>2. ASSUME NEW o \in Order PROVE Slip[o] \in Nat
  <2>1. o.filled \in Nat /\ SlippageTicks \in Nat /\ TickSize \in Nat
    BY TraderAssumption DEF Order
  <2>2. SlippageTicks * TickSize * o.filled \in Nat
    BY <2>1, Products
  <2> QED
    BY <2>2, AmountsAre
<1>3. f \in [1..n -> Int] /\ \A i \in 1..n : f[i] >= 0
  BY <1>1, <1>2
<1>4. Slipped(orders) = SumFunction(f)
  BY TotalsAre DEF SumOf
<1> HIDE DEF f, n
<1> QED
  BY <1>1, <1>3, <1>4, SumType, SumLeast

(***************************************************************************)
(* The account holds through a match: its figures as plain numbers.        *)
(***************************************************************************)
Holds(a) == AccountBalances(a) /\ SharesReserved(a) /\ CashReserved(a) /\ PositionCapped(a)

BooksTyped(pos, cash, fees, fb, fs, wb, ws, ob, os, rc, sl) ==
  {pos, cash, fees, fb, fs, wb, ws, ob, os, rc, sl} \subseteq Int

Books(pos, cash, fees, fb, fs, wb, ws, ob, os, rc, sl) ==
  /\ pos = fb - fs
  /\ cash = InitialCash - fees + ws - wb
  /\ os <= pos
  /\ cash + fees + sl >= rc
  /\ pos + ob <= MaxPosition

(* The figures before a buy and before a sale.                             *)
BeforeBuy(pos, cash, fees, fb, fs, wb, ws, ob, os, rc, sl, q, v, c, r, s) ==
  /\ BooksTyped(pos, cash, fees, fb, fs, wb, ws, ob, os, rc, sl) /\ {q, v, c, r, s} \subseteq Int
  /\ Books(pos, cash, fees, fb, fs, wb, ws, ob, os, rc, sl)
  /\ q >= 0
  /\ v - s <= r + (cash + fees + sl - rc)

BeforeSale(pos, cash, fees, fb, fs, wb, ws, ob, os, rc, sl, q, v, c, s) ==
  /\ BooksTyped(pos, cash, fees, fb, fs, wb, ws, ob, os, rc, sl) /\ {q, v, c, s} \subseteq Int
  /\ Books(pos, cash, fees, fb, fs, wb, ws, ob, os, rc, sl)
  /\ q >= 0 /\ v >= 0 /\ s >= 0

LEMMA BooksBuy ==
  \A pos, cash, fees, fb, fs, wb, ws, ob, os, rc, sl, q, v, c, r, s :
    BeforeBuy(pos, cash, fees, fb, fs, wb, ws, ob, os, rc, sl, q, v, c, r, s)
    => Books(pos + q, cash - c + (-v), fees + c, fb + q, fs, wb + v, ws, ob - q, os,
             rc - r, sl + s)
  BY TraderAssumption DEF Books, BooksTyped, BeforeBuy

LEMMA BooksSell ==
  \A pos, cash, fees, fb, fs, wb, ws, ob, os, rc, sl, q, v, c, s :
    BeforeSale(pos, cash, fees, fb, fs, wb, ws, ob, os, rc, sl, q, v, c, s)
    => Books(pos + (-q), cash - c + v, fees + c, fb, fs + q, wb, ws + v, ob, os - q,
             rc, sl + s)
<1> TAKE pos, cash, fees, fb, fs, wb, ws, ob, os, rc, sl, q, v, c, s
<1> HAVE BeforeSale(pos, cash, fees, fb, fs, wb, ws, ob, os, rc, sl, q, v, c, s)
<1>1. /\ pos \in Int /\ cash \in Int /\ fees \in Int /\ fb \in Int /\ fs \in Int /\ wb \in Int
      /\ ws \in Int /\ ob \in Int /\ os \in Int /\ rc \in Int /\ sl \in Int /\ q \in Int
      /\ v \in Int /\ c \in Int /\ s \in Int /\ InitialCash \in Int /\ MaxPosition \in Int
  BY TraderAssumption DEF BooksTyped, BeforeSale
<1>2. /\ pos = fb - fs
      /\ cash = InitialCash - fees + ws - wb
      /\ os <= pos
      /\ cash + fees + sl >= rc
      /\ pos + ob <= MaxPosition
      /\ q >= 0 /\ v >= 0 /\ s >= 0
  BY DEF Books, BeforeSale
<1>3. pos + (-q) = fb - (fs + q) /\ os - q <= pos + (-q) /\ pos + (-q) + ob <= MaxPosition
  BY <1>1, <1>2
<1>4. /\ cash - c + v = InitialCash - (fees + c) + (ws + v) - wb
      /\ (cash - c + v) + (fees + c) + (sl + s) >= rc
  BY <1>1, <1>2
<1> QED
  BY <1>3, <1>4 DEF Books

BooksOf(a) ==
  Books(a.position, a.cash, a.fees, Filled(a.orders, "BUY"), Filled(a.orders, "SELL"),
        Worth(a.orders, "BUY"), Worth(a.orders, "SELL"),
        OpenQuantity(a.orders, "BUY"), OpenQuantity(a.orders, "SELL"),
        ReservedCash(a.orders), Slipped(a.orders))

LEMMA HoldsAre ==
  ASSUME NEW a
  PROVE  Holds(a) <=> BooksOf(a)
  BY DEF Holds, BooksOf, Books, AccountBalances, SharesReserved, CashReserved, PositionCapped

AccountInts(a) ==
  BooksTyped(a.position, a.cash, a.fees, Filled(a.orders, "BUY"), Filled(a.orders, "SELL"),
             Worth(a.orders, "BUY"), Worth(a.orders, "SELL"),
             OpenQuantity(a.orders, "BUY"), OpenQuantity(a.orders, "SELL"),
             ReservedCash(a.orders), Slipped(a.orders))

LEMMA AccountIntsHold ==
  ASSUME NEW a \in Account
  PROVE  AccountInts(a)
<1>1. a.orders \in Seq(Order) /\ a.position \in Int /\ a.cash \in Int /\ a.fees \in Nat
  BY DEF Account
<1>2. TotalsTyped(a.orders)
  BY <1>1, TotalsInt
<1> QED
  BY <1>1, <1>2 DEF TotalsTyped, AccountInts, BooksTyped, Sides

SlipOf(o, q) == IF o.type = "MARKET" THEN SlippageTicks * TickSize * q ELSE 0

(* What a fill of q for v adds to an order's share of each total.          *)
FillAdds(o, p, q, v) ==
  /\ \A side \in Sides :
       /\ o.side = side => /\ FilledOn(side)[p] = FilledOn(side)[o] + q
                           /\ WorthOn(side)[p] = WorthOn(side)[o] + v
                           /\ OpenOn(side)[p] = OpenOn(side)[o] - q
       /\ o.side # side => /\ FilledOn(side)[p] = FilledOn(side)[o]
                           /\ WorthOn(side)[p] = WorthOn(side)[o]
                           /\ OpenOn(side)[p] = OpenOn(side)[o]
  /\ o.side = "BUY" => Held[p] = Held[o] - o.limit * q
  /\ o.side # "BUY" => Held[p] = Held[o]
  /\ Slip[p] = Slip[o] + SlipOf(o, q)

LEMMA FillAddsThis ==
  ASSUME NEW o \in Order, NEW p \in Order, NEW q \in Nat, NEW v \in Nat,
         SameOrder(o, p), FilledBy(o, p, q, v), o.open, q <= o.remaining
  PROVE  FillAdds(o, p, q, v)
<1>1. /\ p.side = o.side /\ p.type = o.type /\ p.limit = o.limit /\ p.filled = o.filled + q
      /\ p.remaining = o.remaining - q /\ p.value = o.value + v /\ (p.open <=> p.remaining > 0)
  BY DEF SameOrder, FilledBy
<1>2. /\ o.filled \in Nat /\ o.remaining \in Nat /\ o.value \in Nat /\ o.limit \in Nat
      /\ p.remaining \in Nat
  BY DEF Order
<1>3. ~p.open => p.remaining = 0 /\ q = o.remaining
  BY <1>1, <1>2
<1>4. ASSUME NEW side \in Sides, o.side = side
      PROVE  /\ FilledOn(side)[p] = FilledOn(side)[o] + q
             /\ WorthOn(side)[p] = WorthOn(side)[o] + v
             /\ OpenOn(side)[p] = OpenOn(side)[o] - q
  <2>1. FilledOn(side)[p] = FilledOn(side)[o] + q /\ WorthOn(side)[p] = WorthOn(side)[o] + v
    BY <1>1, <1>4, AmountsAre
  <2>2. OpenOn(side)[o] = o.remaining
    BY <1>4, AmountsAre
  <2>3. OpenOn(side)[p] = IF p.open THEN p.remaining ELSE 0
    BY <1>1, <1>4, AmountsAre
  <2>4. OpenOn(side)[p] = p.remaining
    BY <1>3, <2>3
  <2> QED
    BY <1>1, <2>1, <2>2, <2>4
<1>5. ASSUME NEW side \in Sides, o.side # side
      PROVE  /\ FilledOn(side)[p] = FilledOn(side)[o]
             /\ WorthOn(side)[p] = WorthOn(side)[o]
             /\ OpenOn(side)[p] = OpenOn(side)[o]
  BY <1>1, <1>5, AmountsAre
<1>6. ASSUME o.side = "BUY" PROVE Held[p] = Held[o] - o.limit * q
  <2>1. Held[o] = o.limit * o.remaining
    BY <1>6, AmountsAre
  <2>2. o.limit * (o.remaining - q) = o.limit * o.remaining - o.limit * q
    BY <1>2
  <2>3. CASE p.open
    BY <1>1, <1>6, <2>1, <2>2, <2>3, AmountsAre
  <2>4. CASE ~p.open
    <3>1. Held[p] = 0
      BY <2>4, AmountsAre
    <3>2. o.limit * q \in Int /\ o.limit * o.remaining = o.limit * q
      BY <1>2, <1>3, <2>4, Products
    <3> QED
      BY <2>1, <3>1, <3>2
  <2> QED
    BY <2>3, <2>4
<1>7. ASSUME o.side # "BUY" PROVE Held[p] = Held[o]
  BY <1>1, <1>7, AmountsAre
<1>8. Slip[p] = Slip[o] + SlipOf(o, q)
  <2>1. CASE o.type = "MARKET"
    <3> DEFINE slip == SlippageTicks * TickSize
    <3>1. slip \in Int
      BY TraderAssumption, Products
    <3>2. Slip[p] = slip * p.filled /\ Slip[o] = slip * o.filled /\ SlipOf(o, q) = slip * q
      BY <1>1, <2>1, AmountsAre DEF SlipOf
    <3> HIDE DEF slip
    <3>3. slip * (o.filled + q) = slip * o.filled + slip * q
      BY <1>2, <3>1
    <3> QED
      BY <1>1, <3>2, <3>3
  <2>2. CASE o.type # "MARKET"
    BY <1>1, <2>2, AmountsAre DEF SlipOf
  <2> QED
    BY <2>1, <2>2
<1> QED
  BY <1>4, <1>5, <1>6, <1>7, <1>8 DEF FillAdds

(* y is x less f, more g; g is f up, down or alone.                        *)
Raised(x, f, y, g, q) ==
  {x, f, y, g, q} \subseteq Int /\ y = x - f + g /\ g = f + q

Lowered(x, f, y, g, q) ==
  {x, f, y, g, q} \subseteq Int /\ y = x - f + g /\ g = f - q

Alike(x, f, y, g) ==
  {x, f, y, g} \subseteq Int /\ y = x - f + g /\ g = f

LEMMA Deltas ==
  /\ \A x, f, y, g, q : Raised(x, f, y, g, q) => y = x + q
  /\ \A x, f, y, g, q : Lowered(x, f, y, g, q) => y = x - q
  /\ \A x, f, y, g : Alike(x, f, y, g) => y = x
  BY DEF Raised, Lowered, Alike

(* ... and so to the totals.                                               *)
TotalsFilled(old, new, o, q, v) ==
  /\ o.side = "BUY" =>
       /\ Filled(new, "BUY") = Filled(old, "BUY") + q /\ Filled(new, "SELL") = Filled(old, "SELL")
       /\ Worth(new, "BUY") = Worth(old, "BUY") + v /\ Worth(new, "SELL") = Worth(old, "SELL")
       /\ OpenQuantity(new, "BUY") = OpenQuantity(old, "BUY") - q
       /\ OpenQuantity(new, "SELL") = OpenQuantity(old, "SELL")
       /\ ReservedCash(new) = ReservedCash(old) - o.limit * q
  /\ o.side # "BUY" =>
       /\ Filled(new, "SELL") = Filled(old, "SELL") + q /\ Filled(new, "BUY") = Filled(old, "BUY")
       /\ Worth(new, "SELL") = Worth(old, "SELL") + v /\ Worth(new, "BUY") = Worth(old, "BUY")
       /\ OpenQuantity(new, "SELL") = OpenQuantity(old, "SELL") - q
       /\ OpenQuantity(new, "BUY") = OpenQuantity(old, "BUY")
       /\ ReservedCash(new) = ReservedCash(old)
  /\ Slipped(new) = Slipped(old) + SlipOf(o, q)

LEMMA SlipOfNat ==
  ASSUME NEW o, NEW q \in Nat
  PROVE  SlipOf(o, q) \in Nat
<1>1. SlippageTicks * TickSize * q \in Nat
  BY TraderAssumption, Products
<1> QED
  BY <1>1 DEF SlipOf

LEMMA SideDeltas ==
  ASSUME NEW old \in Seq(Order), NEW new \in Seq(Order), NEW o \in Order, NEW p \in Order,
         NEW q \in Nat, NEW v \in Nat,
         TotalsMoved(old, new, o, p), FillAdds(o, p, q, v), NEW side \in Sides
  PROVE  /\ o.side = side => /\ Filled(new, side) = Filled(old, side) + q
                             /\ Worth(new, side) = Worth(old, side) + v
                             /\ OpenQuantity(new, side) = OpenQuantity(old, side) - q
         /\ o.side # side => /\ Filled(new, side) = Filled(old, side)
                             /\ Worth(new, side) = Worth(old, side)
                             /\ OpenQuantity(new, side) = OpenQuantity(old, side)
<1>1. /\ Filled(new, side) = Filled(old, side) - FilledOn(side)[o] + FilledOn(side)[p]
      /\ Worth(new, side) = Worth(old, side) - WorthOn(side)[o] + WorthOn(side)[p]
      /\ OpenQuantity(new, side) = OpenQuantity(old, side) - OpenOn(side)[o] + OpenOn(side)[p]
  BY DEF TotalsMoved
<1>2. /\ Filled(new, side) \in Int /\ Worth(new, side) \in Int /\ OpenQuantity(new, side) \in Int
      /\ Filled(old, side) \in Int /\ Worth(old, side) \in Int /\ OpenQuantity(old, side) \in Int
  BY TotalsInt DEF TotalsTyped
<1>3. /\ FilledOn(side)[o] \in Int /\ WorthOn(side)[o] \in Int /\ OpenOn(side)[o] \in Int
      /\ FilledOn(side)[p] \in Int /\ WorthOn(side)[p] \in Int /\ OpenOn(side)[p] \in Int
  BY AmountsTyped DEF Ints1
<1>4. q \in Int /\ v \in Int
  OBVIOUS
<1>5. CASE o.side = side
  <2>1. /\ FilledOn(side)[p] = FilledOn(side)[o] + q
        /\ WorthOn(side)[p] = WorthOn(side)[o] + v
        /\ OpenOn(side)[p] = OpenOn(side)[o] - q
    BY <1>5 DEF FillAdds
  <2>2. /\ Raised(Filled(old, side), FilledOn(side)[o], Filled(new, side), FilledOn(side)[p], q)
        /\ Raised(Worth(old, side), WorthOn(side)[o], Worth(new, side), WorthOn(side)[p], v)
        /\ Lowered(OpenQuantity(old, side), OpenOn(side)[o], OpenQuantity(new, side),
                   OpenOn(side)[p], q)
    BY <1>1, <1>2, <1>3, <1>4, <2>1 DEF Raised, Lowered
  <2> QED
    BY <1>5, <2>2, Deltas
<1>6. CASE o.side # side
  <2>1. /\ FilledOn(side)[p] = FilledOn(side)[o]
        /\ WorthOn(side)[p] = WorthOn(side)[o]
        /\ OpenOn(side)[p] = OpenOn(side)[o]
    BY <1>6 DEF FillAdds
  <2>2. /\ Alike(Filled(old, side), FilledOn(side)[o], Filled(new, side), FilledOn(side)[p])
        /\ Alike(Worth(old, side), WorthOn(side)[o], Worth(new, side), WorthOn(side)[p])
        /\ Alike(OpenQuantity(old, side), OpenOn(side)[o], OpenQuantity(new, side),
                 OpenOn(side)[p])
    BY <1>1, <1>2, <1>3, <2>1 DEF Alike
  <2> QED
    BY <1>6, <2>2, Deltas
<1> QED
  BY <1>5, <1>6

LEMMA FillTotals ==
  ASSUME NEW old \in Seq(Order), NEW new \in Seq(Order), NEW o \in Order, NEW p \in Order,
         NEW q \in Nat, NEW v \in Nat,
         TotalsMoved(old, new, o, p), FillAdds(o, p, q, v)
  PROVE  TotalsFilled(old, new, o, q, v)
<1>1. "BUY" \in Sides /\ "SELL" \in Sides /\ o.side \in {"BUY", "SELL"}
  BY DEF Sides, Order
<1>2. o.side = "BUY" =>
       /\ Filled(new, "BUY") = Filled(old, "BUY") + q /\ Filled(new, "SELL") = Filled(old, "SELL")
       /\ Worth(new, "BUY") = Worth(old, "BUY") + v /\ Worth(new, "SELL") = Worth(old, "SELL")
       /\ OpenQuantity(new, "BUY") = OpenQuantity(old, "BUY") - q
       /\ OpenQuantity(new, "SELL") = OpenQuantity(old, "SELL")
  BY <1>1, SideDeltas
<1>3. o.side # "BUY" =>
       /\ Filled(new, "SELL") = Filled(old, "SELL") + q /\ Filled(new, "BUY") = Filled(old, "BUY")
       /\ Worth(new, "SELL") = Worth(old, "SELL") + v /\ Worth(new, "BUY") = Worth(old, "BUY")
       /\ OpenQuantity(new, "SELL") = OpenQuantity(old, "SELL") - q
       /\ OpenQuantity(new, "BUY") = OpenQuantity(old, "BUY")
  BY <1>1, SideDeltas
<1>4. /\ ReservedCash(new) \in Int /\ ReservedCash(old) \in Int
      /\ Slipped(new) \in Int /\ Slipped(old) \in Int
  BY TotalsInt DEF TotalsTyped
<1>5. Held[o] \in Int /\ Held[p] \in Int /\ Slip[o] \in Int /\ Slip[p] \in Int
  BY AmountsTyped DEF Ints1
<1>6. o.limit * q \in Int /\ SlipOf(o, q) \in Int
  <2>1. o.limit \in Int
    BY DEF Order
  <2> QED
    BY <2>1, Products, SlipOfNat
<1>7. /\ ReservedCash(new) = ReservedCash(old) - Held[o] + Held[p]
      /\ Slipped(new) = Slipped(old) - Slip[o] + Slip[p]
  BY DEF TotalsMoved
<1>8. /\ o.side = "BUY" => Held[p] = Held[o] - o.limit * q
      /\ o.side # "BUY" => Held[p] = Held[o]
      /\ Slip[p] = Slip[o] + SlipOf(o, q)
  BY DEF FillAdds
<1>9. /\ o.side = "BUY" => ReservedCash(new) = ReservedCash(old) - o.limit * q
      /\ o.side # "BUY" => ReservedCash(new) = ReservedCash(old)
      /\ Slipped(new) = Slipped(old) + SlipOf(o, q)
  <2>1. Raised(Slipped(old), Slip[o], Slipped(new), Slip[p], SlipOf(o, q))
    BY <1>4, <1>5, <1>6, <1>7, <1>8 DEF Raised
  <2>2. ASSUME o.side = "BUY" PROVE ReservedCash(new) = ReservedCash(old) - o.limit * q
    <3>1. Lowered(ReservedCash(old), Held[o], ReservedCash(new), Held[p], o.limit * q)
      BY <1>4, <1>5, <1>6, <1>7, <1>8, <2>2 DEF Lowered
    <3> QED
      BY <3>1, Deltas
  <2>3. ASSUME o.side # "BUY" PROVE ReservedCash(new) = ReservedCash(old)
    <3>1. Alike(ReservedCash(old), Held[o], ReservedCash(new), Held[p])
      BY <1>4, <1>5, <1>7, <1>8, <2>3 DEF Alike
    <3> QED
      BY <3>1, Deltas
  <2> QED
    BY <2>1, <2>2, <2>3, Deltas
<1> QED
  BY <1>2, <1>3, <1>9 DEF TotalsFilled

(* What a buy costs stays within its limit, or, of a market order, within  *)
(* the cash that is free, but for the slippage.                            *)
Afforded(a, o, q, v) ==
  o.side = "BUY" =>
    v - SlipOf(o, q)
      <= o.limit * q + (a.cash + a.fees + Slipped(a.orders) - ReservedCash(a.orders))

LEMMA OrderFields ==
  \A o \in Order :
    /\ o.side \in Sides /\ o.side \in {"BUY", "SELL"} /\ o.type \in {"MARKET", "LIMIT"}
    /\ o.limit \in Nat /\ o.limit \in Int /\ o.open \in BOOLEAN
    /\ o.requested \in Nat /\ o.filled \in Nat /\ o.remaining \in Nat /\ o.value \in Nat
    /\ o.events \in Nat
  BY DEF Order, Sides

LEMMA MatchHolds ==
  ASSUME NEW a \in Account, NEW b \in Account, NEW i \in 1..Len(a.orders), Holds(a),
         NEW q \in Nat, NEW v \in Nat, NEW c \in Nat, MatchedBy(a, b, i, q, v, c),
         a.orders[i].open, q <= a.orders[i].remaining, Afforded(a, a.orders[i], q, v)
  PROVE  Holds(b)
<1> DEFINE o == a.orders[i]
           p == b.orders[i]
           s == SlipOf(o, q)
           r == o.limit * q
<1>1. a.orders \in Seq(Order) /\ b.orders \in Seq(Order) /\ o \in Order /\ p \in Order
  BY OrdersTyped DEF Account, MatchedBy
<1>2. TotalsMoved(a.orders, b.orders, o, p)
  BY <1>1, TotalsChange DEF MatchedBy
<1>3. FillAdds(o, p, q, v)
  BY <1>1, FillAddsThis DEF MatchedBy
<1>4. TotalsFilled(a.orders, b.orders, o, q, v)
  BY <1>1, <1>2, <1>3, FillTotals
<1>5. /\ b.position = a.position + (IF o.side = "BUY" THEN q ELSE -q)
      /\ b.fees = a.fees + c
      /\ b.cash = a.cash - c + (IF o.side = "BUY" THEN -v ELSE v)
  BY DEF MatchedBy
<1>6. o.side \in {"BUY", "SELL"} /\ r \in Int /\ s \in Nat
  <2>1. o.side \in {"BUY", "SELL"} /\ o.limit \in Int
    BY <1>1, OrderFields
  <2> HIDE DEF o, p
  <2>2. r \in Int
    BY <2>1, Products
  <2>3. s \in Nat
    BY SlipOfNat
  <2> HIDE DEF r, s
  <2> QED
    BY <2>1, <2>2, <2>3
<1>7. BooksOf(a) /\ AccountInts(a)
  BY HoldsAre, AccountIntsHold
<1>8. q \in Int /\ v \in Int /\ c \in Int /\ s \in Int /\ q >= 0 /\ v >= 0 /\ s >= 0
  BY <1>6
<1>9. o.side = "BUY" =>
        v - s <= r + (a.cash + a.fees + Slipped(a.orders) - ReservedCash(a.orders))
  BY DEF Afforded
<1> HIDE DEF o, p, s, r
<1>10. CASE o.side = "BUY"
  <2>1. Books(a.position + q, a.cash - c + (-v), a.fees + c,
              Filled(a.orders, "BUY") + q, Filled(a.orders, "SELL"),
              Worth(a.orders, "BUY") + v, Worth(a.orders, "SELL"),
              OpenQuantity(a.orders, "BUY") - q, OpenQuantity(a.orders, "SELL"),
              ReservedCash(a.orders) - r, Slipped(a.orders) + s)
    <3>1. BeforeBuy(a.position, a.cash, a.fees, Filled(a.orders, "BUY"), Filled(a.orders, "SELL"),
                    Worth(a.orders, "BUY"), Worth(a.orders, "SELL"),
                    OpenQuantity(a.orders, "BUY"), OpenQuantity(a.orders, "SELL"),
                    ReservedCash(a.orders), Slipped(a.orders), q, v, c, r, s)
      BY <1>6, <1>7, <1>8, <1>9, <1>10 DEF BooksOf, AccountInts, BeforeBuy
    <3> QED
      BY <3>1, BooksBuy
  <2>2. BooksOf(b)
    BY <1>4, <1>5, <1>10, <2>1 DEF BooksOf, TotalsFilled, s, r
  <2> QED
    BY <2>2, HoldsAre
<1>11. CASE o.side = "SELL"
  <2>1. Books(a.position + (-q), a.cash - c + v, a.fees + c,
              Filled(a.orders, "BUY"), Filled(a.orders, "SELL") + q,
              Worth(a.orders, "BUY"), Worth(a.orders, "SELL") + v,
              OpenQuantity(a.orders, "BUY"), OpenQuantity(a.orders, "SELL") - q,
              ReservedCash(a.orders), Slipped(a.orders) + s)
    <3>1. BeforeSale(a.position, a.cash, a.fees, Filled(a.orders, "BUY"), Filled(a.orders, "SELL"),
                     Worth(a.orders, "BUY"), Worth(a.orders, "SELL"),
                     OpenQuantity(a.orders, "BUY"), OpenQuantity(a.orders, "SELL"),
                     ReservedCash(a.orders), Slipped(a.orders), q, v, c, s)
      BY <1>7, <1>8 DEF BooksOf, AccountInts, BeforeSale
    <3> QED
      BY <3>1, BooksSell
  <2>2. BooksOf(b)
    BY <1>4, <1>5, <1>11, <2>1 DEF BooksOf, TotalsFilled, s, r
  <2> QED
    BY <2>2, HoldsAre
<1> QED
  BY <1>6, <1>10, <1>11

(***************************************************************************)
(* The account holds when orders are closed.                               *)
(***************************************************************************)
SameFills(a, b) ==
  /\ b.position = a.position /\ b.cash = a.cash /\ b.fees = a.fees
  /\ \A side \in Sides : /\ Filled(b.orders, side) = Filled(a.orders, side)
                         /\ Worth(b.orders, side) = Worth(a.orders, side)
  /\ Slipped(b.orders) = Slipped(a.orders)

NoMoreOpen(a, b) ==
  /\ \A side \in Sides : OpenQuantity(b.orders, side) <= OpenQuantity(a.orders, side)
  /\ ReservedCash(b.orders) <= ReservedCash(a.orders)

LEMMA ReleaseHolds ==
  ASSUME NEW a \in Account, NEW b \in Account, Holds(a), SameFills(a, b), NoMoreOpen(a, b)
  PROVE  Holds(b)
<1>1. "BUY" \in Sides /\ "SELL" \in Sides
  BY DEF Sides
<1>2. BooksOf(a) /\ AccountInts(a) /\ AccountInts(b)
  BY HoldsAre, AccountIntsHold
<1>3. BooksOf(b)
  <2> DEFINE pos == a.position
             cash == a.cash
             fees == a.fees
             fb == Filled(a.orders, "BUY")
             fs == Filled(a.orders, "SELL")
             wb == Worth(a.orders, "BUY")
             ws == Worth(a.orders, "SELL")
             ob == OpenQuantity(a.orders, "BUY")
             os == OpenQuantity(a.orders, "SELL")
             rc == ReservedCash(a.orders)
             sl == Slipped(a.orders)
             ob2 == OpenQuantity(b.orders, "BUY")
             os2 == OpenQuantity(b.orders, "SELL")
             rc2 == ReservedCash(b.orders)
  <2>1. /\ pos \in Int /\ cash \in Int /\ fees \in Int /\ ob \in Int /\ os \in Int /\ rc \in Int
        /\ sl \in Int /\ ob2 \in Int /\ os2 \in Int /\ rc2 \in Int /\ MaxPosition \in Int
    BY <1>2, TraderAssumption DEF AccountInts, BooksTyped
  <2>2. Books(pos, cash, fees, fb, fs, wb, ws, ob, os, rc, sl)
    BY <1>2 DEF BooksOf
  <2>3. ob2 <= ob /\ os2 <= os /\ rc2 <= rc
    BY <1>1 DEF NoMoreOpen
  <2>4. BooksOf(b) <=> Books(pos, cash, fees, fb, fs, wb, ws, ob2, os2, rc2, sl)
    BY <1>1 DEF BooksOf, SameFills
  <2> HIDE DEF pos, cash, fees, fb, fs, wb, ws, ob, os, rc, sl, ob2, os2, rc2
  <2>5. os2 <= pos /\ cash + fees + sl >= rc2 /\ pos + ob2 <= MaxPosition
    BY <2>1, <2>2, <2>3 DEF Books
  <2> QED
    BY <2>2, <2>4, <2>5 DEF Books
<1> QED
  BY <1>3, HoldsAre

(* An order closed, or as it was.                                          *)
ClosedFrom(o, p) ==
  /\ SameOrder(o, p) /\ p.filled = o.filled /\ p.value = o.value
  /\ \/ ~p.open
     \/ p.open /\ o.open /\ p.remaining = o.remaining

LEMMA ClosedAmounts ==
  ASSUME NEW o \in Order, NEW p \in Order, ClosedFrom(o, p)
  PROVE  /\ \A side \in Sides : /\ FilledOn(side)[p] = FilledOn(side)[o]
                                /\ WorthOn(side)[p] = WorthOn(side)[o]
                                /\ OpenOn(side)[p] <= OpenOn(side)[o]
         /\ Slip[p] = Slip[o]
         /\ Held[p] <= Held[o]
<1>1. /\ p.side = o.side /\ p.type = o.type /\ p.limit = o.limit /\ p.filled = o.filled
      /\ p.value = o.value /\ (~p.open \/ (p.open /\ o.open /\ p.remaining = o.remaining))
  BY DEF ClosedFrom, SameOrder
<1>2. o.remaining \in Nat /\ o.limit \in Nat
  BY OrderFields
<1>3. ASSUME NEW side \in Sides
      PROVE  /\ FilledOn(side)[p] = FilledOn(side)[o] /\ WorthOn(side)[p] = WorthOn(side)[o]
  BY <1>1, AmountsAre
<1>4. ASSUME NEW side \in Sides
      PROVE  OpenOn(side)[p] <= OpenOn(side)[o]
  <2>1. /\ OpenOn(side)[p] = (IF p.open /\ p.side = side THEN p.remaining ELSE 0)
        /\ OpenOn(side)[o] = (IF o.open /\ o.side = side THEN o.remaining ELSE 0)
    BY AmountsAre
  <2>2. OpenOn(side)[o] \in Nat
    BY <1>2, <2>1
  <2>3. CASE ~p.open
    BY <2>1, <2>2, <2>3
  <2>4. CASE p.open
    <3>1. OpenOn(side)[p] = OpenOn(side)[o]
      BY <1>1, <2>1, <2>4
    <3> QED
      BY <2>2, <3>1
  <2> QED
    BY <2>3, <2>4
<1>5. Held[p] <= Held[o]
  <2>1. /\ Held[p] = (IF p.open /\ p.side = "BUY" THEN p.limit * p.remaining ELSE 0)
        /\ Held[o] = (IF o.open /\ o.side = "BUY" THEN o.limit * o.remaining ELSE 0)
    BY AmountsAre
  <2>2. Held[o] \in Nat
    <3>1. o.limit * o.remaining \in Nat
      BY <1>2, Products
    <3> QED
      BY <2>1, <3>1
  <2>3. CASE ~p.open
    BY <2>1, <2>2, <2>3
  <2>4. CASE p.open
    <3>1. Held[p] = Held[o]
      BY <1>1, <2>1, <2>4
    <3> QED
      BY <2>2, <3>1
  <2> QED
    BY <2>3, <2>4
<1>6. Slip[p] = Slip[o]
  BY <1>1, AmountsAre
<1> QED
  BY <1>3, <1>4, <1>5, <1>6

AtMost(x, f, y, g) ==
  {x, f, y, g} \subseteq Int /\ y = x - f + g /\ g <= f

LEMMA NoMore ==
  \A x, f, y, g : AtMost(x, f, y, g) => y <= x
  BY DEF AtMost

LEMMA CloseOne ==
  ASSUME NEW a \in Account, NEW i \in 1..Len(a.orders), NEW p \in Order,
         ClosedFrom(a.orders[i], p), Holds(a)
  PROVE  LET b == [a EXCEPT !.orders = [a.orders EXCEPT ![i] = p]]
         IN b \in Account /\ Holds(b)
<1> DEFINE o == a.orders[i]
           new == [a.orders EXCEPT ![i] = p]
           b == [a EXCEPT !.orders = new]
<1>1. a.orders \in Seq(Order) /\ o \in Order /\ new \in Seq(Order)
  BY OrdersTyped DEF Account
<1>2. TotalsMoved(a.orders, new, o, p)
  BY <1>1, TotalsChange
<1>3. ClosedFrom(o, p)
  OBVIOUS
<1> HIDE DEF o, new
<1>4. /\ b \in Account /\ b.orders = new /\ b.position = a.position /\ b.cash = a.cash
      /\ b.fees = a.fees
  BY <1>1 DEF Account
<1> HIDE DEF b
<1>5. TotalsTyped(a.orders) /\ TotalsTyped(new)
  BY <1>1, TotalsInt
<1>6. ASSUME NEW side \in Sides
      PROVE  /\ Filled(new, side) = Filled(a.orders, side)
             /\ Worth(new, side) = Worth(a.orders, side)
             /\ OpenQuantity(new, side) <= OpenQuantity(a.orders, side)
  <2>1. /\ FilledOn(side)[p] = FilledOn(side)[o]
        /\ WorthOn(side)[p] = WorthOn(side)[o]
        /\ OpenOn(side)[p] <= OpenOn(side)[o]
    BY <1>1, <1>3, ClosedAmounts
  <2>2. /\ FilledOn(side)[o] \in Int /\ WorthOn(side)[o] \in Int /\ OpenOn(side)[o] \in Int
        /\ FilledOn(side)[p] \in Int /\ WorthOn(side)[p] \in Int /\ OpenOn(side)[p] \in Int
    BY <1>1, AmountsTyped DEF Ints1
  <2>3. /\ Alike(Filled(a.orders, side), FilledOn(side)[o], Filled(new, side), FilledOn(side)[p])
        /\ Alike(Worth(a.orders, side), WorthOn(side)[o], Worth(new, side), WorthOn(side)[p])
        /\ AtMost(OpenQuantity(a.orders, side), OpenOn(side)[o], OpenQuantity(new, side),
                  OpenOn(side)[p])
    BY <1>2, <1>5, <2>1, <2>2 DEF TotalsMoved, TotalsTyped, Alike, AtMost
  <2> QED
    BY <2>3, Deltas, NoMore
<1>7. Slipped(new) = Slipped(a.orders) /\ ReservedCash(new) <= ReservedCash(a.orders)
  <2>1. Slip[p] = Slip[o] /\ Held[p] <= Held[o]
    BY <1>1, <1>3, ClosedAmounts
  <2>2. Held[o] \in Int /\ Held[p] \in Int /\ Slip[o] \in Int /\ Slip[p] \in Int
    BY <1>1, AmountsTyped DEF Ints1
  <2>3. /\ Alike(Slipped(a.orders), Slip[o], Slipped(new), Slip[p])
        /\ AtMost(ReservedCash(a.orders), Held[o], ReservedCash(new), Held[p])
    BY <1>2, <1>5, <2>1, <2>2 DEF TotalsMoved, TotalsTyped, Alike, AtMost
  <2> QED
    BY <2>3, Deltas, NoMore
<1>8. SameFills(a, b) /\ NoMoreOpen(a, b)
  BY <1>4, <1>6, <1>7 DEF SameFills, NoMoreOpen
<1> QED
  BY <1>4, <1>8, ReleaseHolds DEF b, new

LEMMA SumAtMost ==
  ASSUME NEW n \in Nat, NEW f \in [1..n -> Int], NEW g \in [1..n -> Int],
         \A k \in 1..n : g[k] <= f[k]
  PROVE  SumFunction(g) <= SumFunction(f)
<1>1. PICK c \in Int : c = 0
  OBVIOUS
<1>2. \A k \in 1..n : g[k] <= f[k] + c * f[k]
  BY <1>1
<1>3. SumFunction(g) <= SumFunction(f) + c * SumFunction(f)
  BY <1>2, SumBound, Zenon
<1>4. SumFunction(f) \in Int
  BY SumType
<1> QED
  BY <1>1, <1>3, <1>4

(* Orders closed, or as they were.                                         *)
ClosedOrders(old, new) ==
  /\ DOMAIN new = DOMAIN old
  /\ \A i \in DOMAIN old : ClosedFrom(old[i], new[i])

LEMMA CloseAll ==
  ASSUME NEW a \in Account, NEW new \in Seq(Order), ClosedOrders(a.orders, new), Holds(a)
  PROVE  LET b == [a EXCEPT !.orders = new]
         IN b \in Account /\ Holds(b)
<1> DEFINE old == a.orders
           n == Len(old)
           b == [a EXCEPT !.orders = new]
           Of(orders, A) == [i \in DOMAIN orders |-> A[orders[i]]]
<1>1. /\ b \in Account /\ b.orders = new /\ b.position = a.position /\ b.cash = a.cash
      /\ b.fees = a.fees /\ old \in Seq(Order)
  BY DEF Account
<1>2. /\ n \in Nat /\ DOMAIN old = 1..n /\ DOMAIN new = 1..n
      /\ \A i \in 1..n : old[i] \in Order /\ new[i] \in Order /\ ClosedFrom(old[i], new[i])
  BY <1>1, OrdersTyped DEF ClosedOrders
<1> HIDE DEF b
<1>3. ASSUME NEW A, Ints1(A), \A i \in 1..n : A[new[i]] = A[old[i]]
      PROVE  SumOf(new, A) = SumOf(old, A)
  <2>1. [i \in DOMAIN new |-> A[new[i]]] = [i \in DOMAIN old |-> A[old[i]]]
    BY <1>2, <1>3
  <2> QED
    BY <2>1 DEF SumOf
<1>4. ASSUME NEW A, Ints1(A), \A i \in 1..n : A[new[i]] <= A[old[i]]
      PROVE  SumOf(new, A) <= SumOf(old, A)
  <2>1. /\ Of(old, A) \in [1..n -> Int] /\ Of(new, A) \in [1..n -> Int]
        /\ \A k \in 1..n : Of(new, A)[k] <= Of(old, A)[k]
    BY <1>2, <1>4 DEF Ints1
  <2> HIDE DEF n
  <2>2. n \in Nat
    BY <1>2
  <2>3. SumFunction(Of(new, A)) <= SumFunction(Of(old, A))
    <3> HIDE DEF Of
    <3> QED
      BY <2>1, <2>2, SumAtMost
  <2> QED
    BY <2>3 DEF SumOf
<1>5. ASSUME NEW i \in 1..n
      PROVE  /\ \A side \in Sides : /\ FilledOn(side)[new[i]] = FilledOn(side)[old[i]]
                                    /\ WorthOn(side)[new[i]] = WorthOn(side)[old[i]]
                                    /\ OpenOn(side)[new[i]] <= OpenOn(side)[old[i]]
             /\ Slip[new[i]] = Slip[old[i]]
             /\ Held[new[i]] <= Held[old[i]]
  <2>1. old[i] \in Order /\ new[i] \in Order /\ ClosedFrom(old[i], new[i])
    BY <1>2
  <2> HIDE DEF old
  <2> QED
    BY <2>1, ClosedAmounts
<1>6. ASSUME NEW side \in Sides
      PROVE  /\ SumOf(new, FilledOn(side)) = SumOf(old, FilledOn(side))
             /\ SumOf(new, WorthOn(side)) = SumOf(old, WorthOn(side))
             /\ SumOf(new, OpenOn(side)) <= SumOf(old, OpenOn(side))
  <2>1. Ints1(FilledOn(side)) /\ Ints1(WorthOn(side)) /\ Ints1(OpenOn(side))
    BY AmountsTyped
  <2> QED
    BY <1>3, <1>4, <1>5, <2>1
<1>7. SumOf(new, Slip) = SumOf(old, Slip) /\ SumOf(new, Held) <= SumOf(old, Held)
  BY <1>3, <1>4, <1>5, AmountsTyped
<1> HIDE DEF old, n
<1>8. SameFills(a, b) /\ NoMoreOpen(a, b)
  <2>1. old = a.orders
    BY DEF old
  <2> QED
    BY <1>1, <1>6, <1>7, <2>1, TotalsAre DEF SameFills, NoMoreOpen
<1> QED
  BY <1>1, <1>8, ReleaseHolds DEF b

(* cancel() and what is left of a market order.                            *)
LEMMA CancelledIs ==
  ASSUME NEW o \in Order
  PROVE  /\ Cancelled(o) \in Order /\ ClosedFrom(o, Cancelled(o)) /\ ~Cancelled(o).open
         /\ RestCancelled(o) \in Order
         /\ (o.open <=> o.remaining > 0) =>
              /\ ClosedFrom(o, RestCancelled(o))
              /\ RestCancelled(o).open => o.type = "LIMIT"
<1>1. /\ o.cancelled \in Nat /\ o.remaining \in Nat /\ o.events \in Nat /\ o.open \in BOOLEAN
      /\ o.cancelled + o.remaining \in Nat /\ o.events + 1 \in Nat /\ o.events + 1 >= o.events
      /\ o.events >= o.events
  BY DEF Order
<1>2. Cancelled(o) \in Order /\ ClosedFrom(o, Cancelled(o)) /\ ~Cancelled(o).open
  <2>1. CASE ~o.open
    BY <1>1, <2>1 DEF Cancelled, ClosedFrom, SameOrder
  <2>2. CASE o.open
    <3> DEFINE p == [o EXCEPT !.cancelled = o.cancelled + o.remaining, !.remaining = 0,
                              !.open = FALSE, !.status = "CANCELLED", !.events = o.events + 1]
    <3>1. Cancelled(o) = p
      BY <2>2 DEF Cancelled
    <3>2. p \in Order
      BY <1>1 DEF Order, Statuses
    <3>3. ClosedFrom(o, p) /\ ~p.open
      BY <1>1 DEF Order, ClosedFrom, SameOrder
    <3> HIDE DEF p
    <3> QED
      BY <3>1, <3>2, <3>3
  <2> QED
    BY <2>1, <2>2
<1>3. CASE o.type = "LIMIT" \/ o.remaining = 0
  <2>1. RestCancelled(o) = o
    BY <1>3 DEF RestCancelled
  <2> QED
    BY <1>1, <1>2, <1>3, <2>1 DEF ClosedFrom, SameOrder
<1>4. CASE ~(o.type = "LIMIT" \/ o.remaining = 0)
  <2> DEFINE s == IF o.filled > 0 THEN "PARTIALLY_FILLED" ELSE "CANCELLED"
             p == [o EXCEPT !.cancelled = o.cancelled + o.remaining, !.remaining = 0,
                            !.open = FALSE, !.status = s, !.events = o.events + 1]
  <2>1. RestCancelled(o) = p
    BY <1>4 DEF RestCancelled
  <2>2. s \in Statuses
    BY DEF Statuses, OpenStatuses
  <2> HIDE DEF s
  <2>3. p \in Order
    BY <1>1, <2>2 DEF Order
  <2>4. ClosedFrom(o, p) /\ ~p.open
    BY <1>1 DEF Order, ClosedFrom, SameOrder
  <2> HIDE DEF p
  <2> QED
    BY <1>2, <2>1, <2>3, <2>4
<1> QED
  BY <1>3, <1>4

(***************************************************************************)
(* An order is submitted.                                                  *)
(***************************************************************************)
Request ==
  [side : Sides, type : {"MARKET", "LIMIT"}, limit : Nat, quantity : Nat \ {0},
   source : {"MANUAL", "STRATEGY"}, approval : Nat]

Snapshot == [last : Nat \ {0}, bids : Levels, asks : Levels]

(* Room for an open order, in shares and in cash.                          *)
Fits(a, p) ==
  /\ p.side = "SELL" => OpenQuantity(a.orders, "SELL") + p.remaining <= a.position
  /\ p.side = "BUY" =>
       /\ a.position + (OpenQuantity(a.orders, "BUY") + p.remaining) <= MaxPosition
       /\ a.cash + a.fees + Slipped(a.orders) >= ReservedCash(a.orders) + p.limit * p.remaining

LEMMA AddHolds ==
  ASSUME NEW a \in Account, NEW p \in Order, Holds(a), p.filled = 0, p.value = 0,
         p.open => Fits(a, p)
  PROVE  LET b == [a EXCEPT !.orders = Append(a.orders, p)]
         IN /\ b \in Account /\ Holds(b)
            /\ ReservedCash(b.orders)
                 = ReservedCash(a.orders)
                     + (IF p.open /\ p.side = "BUY" THEN p.limit * p.remaining ELSE 0)
            /\ Slipped(b.orders) = Slipped(a.orders)
<1> DEFINE new == Append(a.orders, p)
           b == [a EXCEPT !.orders = new]
<1>1. a.orders \in Seq(Order)
  BY DEF Account
<1>2. TotalsAdded(a.orders, new, p) /\ TotalsTyped(a.orders) /\ new \in Seq(Order)
  BY <1>1, TotalsAppend, TotalsInt
<1> HIDE DEF new
<1>3. /\ b \in Account /\ b.orders = new /\ b.position = a.position /\ b.cash = a.cash
      /\ b.fees = a.fees
  BY <1>2 DEF Account
<1> HIDE DEF b
<1>4. p.remaining \in Nat /\ p.side \in {"BUY", "SELL"} /\ p.limit * p.remaining \in Int
  BY OrderFields, Products
<1>5. "BUY" \in Sides /\ "SELL" \in Sides
  BY DEF Sides
<1>6. ASSUME NEW side \in Sides
      PROVE  /\ Filled(new, side) = Filled(a.orders, side)
             /\ Worth(new, side) = Worth(a.orders, side)
             /\ OpenQuantity(new, side) = OpenQuantity(a.orders, side)
                                            + (IF p.open /\ p.side = side THEN p.remaining ELSE 0)
  <2>1. /\ FilledOn(side)[p] = 0 /\ WorthOn(side)[p] = 0
        /\ OpenOn(side)[p] = (IF p.open /\ p.side = side THEN p.remaining ELSE 0)
    BY AmountsAre
  <2>2. /\ Filled(new, side) = Filled(a.orders, side) + FilledOn(side)[p]
        /\ Worth(new, side) = Worth(a.orders, side) + WorthOn(side)[p]
        /\ OpenQuantity(new, side) = OpenQuantity(a.orders, side) + OpenOn(side)[p]
        /\ Filled(a.orders, side) \in Int /\ Worth(a.orders, side) \in Int
    BY <1>2 DEF TotalsAdded, TotalsTyped
  <2> QED
    BY <2>1, <2>2
<1>7. /\ ReservedCash(new) = ReservedCash(a.orders)
                               + (IF p.open /\ p.side = "BUY" THEN p.limit * p.remaining ELSE 0)
      /\ Slipped(new) = Slipped(a.orders)
  <2>1. Held[p] = IF p.open /\ p.side = "BUY" THEN p.limit * p.remaining ELSE 0
    BY AmountsAre
  <2>2. SlippageTicks * TickSize * 0 = 0
    <3>1. SlippageTicks * TickSize \in Nat
      BY TraderAssumption, Products
    <3> QED
      BY <3>1
  <2>3. Slip[p] = 0
    BY <2>2, AmountsAre
  <2>4. /\ ReservedCash(new) = ReservedCash(a.orders) + Held[p]
        /\ Slipped(new) = Slipped(a.orders) + Slip[p] /\ Slipped(a.orders) \in Int
    BY <1>2 DEF TotalsAdded, TotalsTyped
  <2> QED
    BY <2>1, <2>3, <2>4
<1>8. Holds(b)
  <2>1. BooksOf(a) /\ AccountInts(a)
    BY HoldsAre, AccountIntsHold
  <2> DEFINE pos == a.position
             cash == a.cash
             fees == a.fees
             fb == Filled(a.orders, "BUY")
             fs == Filled(a.orders, "SELL")
             wb == Worth(a.orders, "BUY")
             ws == Worth(a.orders, "SELL")
             ob == OpenQuantity(a.orders, "BUY")
             os == OpenQuantity(a.orders, "SELL")
             rc == ReservedCash(a.orders)
             sl == Slipped(a.orders)
             x == IF p.open /\ p.side = "BUY" THEN p.remaining ELSE 0
             y == IF p.open /\ p.side = "SELL" THEN p.remaining ELSE 0
             r == IF p.open /\ p.side = "BUY" THEN p.limit * p.remaining ELSE 0
  <2>2. /\ pos \in Int /\ cash \in Int /\ fees \in Int /\ ob \in Int /\ os \in Int /\ rc \in Int
        /\ sl \in Int /\ MaxPosition \in Int
    BY <2>1, TraderAssumption DEF AccountInts, BooksTyped
  <2>3. Books(pos, cash, fees, fb, fs, wb, ws, ob, os, rc, sl)
    BY <2>1 DEF BooksOf
  <2>4. /\ x = 0 \/ pos + (ob + x) <= MaxPosition
        /\ y = 0 \/ os + y <= pos
        /\ r = 0 \/ cash + fees + sl >= rc + r
    BY DEF Fits
  <2>5. BooksOf(b) <=> Books(pos, cash, fees, fb, fs, wb, ws, ob + x, os + y, rc + r, sl)
    BY <1>3, <1>5, <1>6, <1>7 DEF BooksOf
  <2> HIDE DEF pos, cash, fees, fb, fs, wb, ws, ob, os, rc, sl, x, y, r
  <2>6. os <= pos /\ cash + fees + sl >= rc /\ pos + ob <= MaxPosition
    BY <2>3 DEF Books
  <2>7. pos + (ob + x) <= MaxPosition
    BY <2>2, <2>4, <2>6
  <2>8. os + y <= pos
    BY <2>2, <2>4, <2>6
  <2>9. cash + fees + sl >= rc + r
    BY <2>2, <2>4, <2>6
  <2>10. Books(pos, cash, fees, fb, fs, wb, ws, ob + x, os + y, rc + r, sl)
    BY <2>3, <2>7, <2>8, <2>9 DEF Books
  <2> QED
    BY <2>5, <2>10, HoldsAre
<1> QED
  BY <1>3, <1>7, <1>8 DEF b, new

(* The order validate() sees, and the one it lets through.                 *)
Accepted(request) ==
  [NewOrder(request) EXCEPT !.status = "ACCEPTED", !.open = TRUE, !.events = @ + 1]

LEMMA NewOrdersTyped ==
  ASSUME NEW request \in Request
  PROVE  /\ LET o == NewOrder(request)
            IN /\ o \in Order /\ o.side = request.side /\ o.type = request.type
               /\ o.limit = request.limit /\ o.requested = request.quantity
               /\ o.approval = request.approval
         /\ LET p == Accepted(request)
            IN /\ p \in Order /\ p.side = request.side /\ p.type = request.type
               /\ p.limit = request.limit /\ p.remaining = request.quantity
               /\ p.approval = request.approval /\ p.open /\ p.filled = 0 /\ p.value = 0
         /\ LET r == Rejected(NewOrder(request))
            IN /\ r \in Order /\ r.approval = request.approval /\ ~r.open /\ r.filled = 0
               /\ r.value = 0
<1> DEFINE o == NewOrder(request)
<1>1. /\ request.side \in Sides /\ request.type \in {"MARKET", "LIMIT"} /\ request.limit \in Nat
      /\ request.quantity \in Nat /\ request.source \in {"MANUAL", "STRATEGY"}
      /\ request.approval \in Nat
  BY DEF Request
<1>2. o \in Order
  BY <1>1 DEF NewOrder, Order, Statuses
<1>3. Accepted(request) \in Order /\ Rejected(o) \in Order
  <2>1. /\ Accepted(request) = [o EXCEPT !.status = "ACCEPTED", !.open = TRUE,
                                         !.events = o.events + 1]
        /\ Rejected(o) = [o EXCEPT !.rejected = o.remaining, !.remaining = 0,
                                   !.status = "REJECTED", !.events = o.events + 1]
    BY DEF Accepted, Rejected
  <2>2. "ACCEPTED" \in Statuses /\ "REJECTED" \in Statuses
    BY DEF Statuses, OpenStatuses
  <2> HIDE DEF o
  <2>3. o.events + 1 \in Nat /\ o.remaining \in Nat
    BY <1>2, OrderFields
  <2>4. Accepted(request) \in Order
    BY <1>2, <2>1, <2>2, <2>3 DEF Order
  <2>5. Rejected(o) \in Order
    <3>1. PICK n \in Nat, e \in Nat : n = o.remaining /\ e = o.events + 1
      BY <2>3
    <3>2. [o EXCEPT !.rejected = n, !.remaining = 0, !.status = "REJECTED", !.events = e] \in Order
      BY <1>2, <2>2 DEF Order
    <3> QED
      BY <2>1, <3>1, <3>2
  <2> QED
    BY <2>4, <2>5
<1>4. /\ o.side = request.side /\ o.type = request.type /\ o.limit = request.limit
      /\ o.requested = request.quantity /\ o.approval = request.approval
  BY DEF NewOrder
<1>5. LET p == Accepted(request)
      IN /\ p.side = request.side /\ p.type = request.type
         /\ p.limit = request.limit /\ p.remaining = request.quantity
         /\ p.approval = request.approval /\ p.open /\ p.filled = 0 /\ p.value = 0
  BY DEF Accepted, NewOrder
<1>6. LET r == Rejected(o)
      IN r.approval = request.approval /\ ~r.open /\ r.filled = 0 /\ r.value = 0
  BY DEF Rejected, NewOrder
<1> QED
  BY <1>2, <1>3, <1>4, <1>5, <1>6

(* What an open order asks for at rest: its price is a limit.              *)
Resting(orders) == \A i \in DOMAIN orders : orders[i].open => orders[i].type = "LIMIT"

Sound(a) == a \in Account /\ Holds(a) /\ Resting(a.orders)

LEMMA FitsWhenTaken ==
  ASSUME NEW a \in Account, NEW request \in Request, NEW mkt \in Snapshot, NEW kill \in BOOLEAN,
         Holds(a), request.type = "MARKET" => request.limit = 0,
         ~Refused(a, NewOrder(request), mkt, kill)
  PROVE  /\ Fits(a, Accepted(request))
         /\ request.side = "BUY" /\ request.type = "MARKET" =>
              Estimate(mkt.asks, request.quantity).cost <= a.cash - ReservedCash(a.orders)
<1> DEFINE o == NewOrder(request)
           p == Accepted(request)
           n == request.quantity
           ob == OpenQuantity(a.orders, "BUY")
           os == OpenQuantity(a.orders, "SELL")
           rc == ReservedCash(a.orders)
           sl == Slipped(a.orders)
           cost == Estimate(mkt.asks, n).cost
<1>1. /\ o.side = request.side /\ o.type = request.type /\ o.limit = request.limit
      /\ o.requested = n
  BY NewOrdersTyped
<1>2. p.side = request.side /\ p.limit = request.limit /\ p.remaining = n
  BY NewOrdersTyped
<1>3. /\ request.side \in Sides /\ request.type \in {"MARKET", "LIMIT"} /\ request.limit \in Nat
      /\ n \in Nat /\ request.limit * n \in Int
  <2>1. request.limit \in Nat /\ n \in Nat
    BY DEF Request
  <2> QED
    BY <2>1, Products DEF Request
<1>4. AccountInts(a) /\ BooksOf(a)
  BY AccountIntsHold, HoldsAre
<1>5. /\ a.position \in Int /\ a.cash \in Int /\ a.fees \in Nat /\ ob \in Int /\ os \in Int
      /\ rc \in Int /\ sl \in Int /\ sl >= 0 /\ MaxPosition \in Int
  BY <1>4, SlippedNat, TraderAssumption DEF AccountInts, BooksTyped, Account
<1>6. a.cash + a.fees + sl >= rc
  BY <1>4 DEF BooksOf, Books
<1>7. /\ request.side = "SELL" => ~(n > a.position - os)
      /\ request.side = "BUY" => ~(a.position + ob + n > MaxPosition)
      /\ request.side = "BUY" =>
           ~(a.cash - rc < (IF request.type = "LIMIT" THEN request.limit * n ELSE cost))
  BY <1>1 DEF Refused, OverSellable, OverPosition, OverCash
<1>8. cost \in Int
  <2> DEFINE m == [type |-> "MARKET", remaining |-> n]
             taken == Taken(m, mkt.asks)
             f == [k \in DOMAIN mkt.asks |-> mkt.asks[k].price * taken[k]]
  <2>1. mkt.asks \in Levels
    BY DEF Snapshot
  <2>2. m.remaining \in Nat
    BY <1>3
  <2> HIDE DEF m
  <2>3. taken \in [1..Len(mkt.asks) -> Int]
    BY <2>1, <2>2, TakenIs
  <2> HIDE DEF taken
  <2>4. /\ Len(mkt.asks) \in Nat /\ DOMAIN mkt.asks = 1..Len(mkt.asks)
        /\ \A k \in 1..Len(mkt.asks) : mkt.asks[k].price \in Int
    BY <2>1, LevelsTyped
  <2>5. f \in [1..Len(mkt.asks) -> Int]
    <3>1. \A k \in 1..Len(mkt.asks) : mkt.asks[k].price * taken[k] \in Int
      BY <2>3, <2>4, Products
    <3> QED
      BY <2>4, <3>1
  <2>6. cost = SumFunction(f)
    BY DEF Estimate, f, taken, m
  <2> HIDE DEF f
  <2> QED
    BY <2>4, <2>5, <2>6, SumType
<1> HIDE DEF o, p, n, ob, os, rc, sl, cost
<1>9. /\ request.side = "SELL" => os + n <= a.position
      /\ request.side = "BUY" => a.position + (ob + n) <= MaxPosition
  BY <1>3, <1>5, <1>7
<1>10. request.side = "BUY" => a.cash + a.fees + sl >= rc + request.limit * n
  <2>1. CASE request.type = "LIMIT"
    BY <1>3, <1>5, <1>7, <2>1
  <2>2. CASE request.type = "MARKET"
    <3>1. request.limit = 0
      BY <2>2
    <3>2. request.limit * n = 0
      BY <1>3, <3>1
    <3> QED
      BY <1>5, <1>6, <3>2
  <2> QED
    BY <1>3, <2>1, <2>2
<1>11. request.side = "BUY" /\ request.type = "MARKET" => cost <= a.cash - rc
  BY <1>5, <1>7, <1>8
<1>12. Fits(a, p)
  BY <1>2, <1>9, <1>10 DEF Fits, ob, os, rc, sl
<1> QED
  BY <1>11, <1>12 DEF p, cost, n, rc

(* A submitted order is the account's last; the others stay as they are.   *)
Submitted(a, b, request) ==
  /\ Len(b.orders) = Len(a.orders) + 1
  /\ \A j \in 1..Len(a.orders) : b.orders[j] = a.orders[j]
  /\ b.orders[Len(a.orders) + 1].approval = request.approval

LEMMA AppendedOrders ==
  ASSUME NEW a \in Account, NEW p \in Order
  PROVE  LET b == [a EXCEPT !.orders = Append(a.orders, p)]
             n == Len(a.orders)
         IN /\ b.orders = Append(a.orders, p) /\ n \in Nat /\ DOMAIN a.orders = 1..n
            /\ Len(b.orders) = n + 1 /\ DOMAIN b.orders = 1..(n + 1)
            /\ b.orders[n + 1] = p
            /\ \A j \in 1..n : b.orders[j] = a.orders[j]
            /\ b.position = a.position /\ b.cash = a.cash /\ b.fees = a.fees
<1>1. a.orders \in Seq(Order)
  BY DEF Account
<1>2. [a EXCEPT !.orders = Append(a.orders, p)].orders = Append(a.orders, p)
  BY DEF Account
<1>3. LET b == [a EXCEPT !.orders = Append(a.orders, p)]
      IN b.position = a.position /\ b.cash = a.cash /\ b.fees = a.fees
  BY DEF Account
<1> QED
  BY <1>1, <1>2, <1>3

(* What a market order buys for is what validate() estimated.              *)
LEMMA EstimateIs ==
  ASSUME NEW p \in Order, p.type = "MARKET", NEW levels \in Levels
  PROVE  Estimate(levels, p.remaining).cost = SumFunction(Prices(p, levels))
<1> DEFINE m == [type |-> "MARKET", remaining |-> p.remaining]
<1>1. ASSUME NEW k \in DOMAIN levels
      PROVE  Executable(m, levels[k]) <=> Executable(p, levels[k])
  BY DEF Executable
<1>2. Reach(m, levels) = Reach(p, levels)
  <2>1. DOMAIN levels = 1..Len(levels) /\ Len(levels) \in Nat
    BY LevelsTyped
  <2>2. ASSUME NEW n \in DOMAIN levels
        PROVE  (\A k \in 1..n : Executable(m, levels[k])) <=> (\A k \in 1..n : Executable(p, levels[k]))
    <3>1. \A k \in 1..n : k \in DOMAIN levels
      BY <2>1
    <3> QED
      BY <1>1, <3>1
  <2>3. {n \in DOMAIN levels : \A k \in 1..n : Executable(m, levels[k])}
          = {n \in DOMAIN levels : \A k \in 1..n : Executable(p, levels[k])}
    BY <2>2
  <2> QED
    BY <2>3 DEF Reach
<1>3. Taken(m, levels) = Taken(p, levels)
  BY <1>2 DEF Taken
<1>4. [k \in DOMAIN levels |-> levels[k].price * Taken(m, levels)[k]] = Prices(p, levels)
  BY <1>3 DEF Prices
<1> QED
  BY <1>4 DEF Estimate

LEMMA SubmitHolds ==
  ASSUME NEW a, Sound(a), NEW request \in Request, NEW mkt \in Snapshot, NEW kill \in BOOLEAN,
         NEW loss \in BOOLEAN, request.type = "MARKET" => request.limit = 0
  PROVE  LET b == Submit(a, request, mkt, kill, loss)
         IN Sound(b) /\ Submitted(a, b, request)
<1> DEFINE n == Len(a.orders)
           b == Submit(a, request, mkt, kill, loss)
<1>1. a \in Account /\ Holds(a) /\ Resting(a.orders)
  BY DEF Sound
<1>2. CASE Refused(a, NewOrder(request), mkt, kill)
  <2> DEFINE r == Rejected(NewOrder(request))
             c == [a EXCEPT !.orders = Append(a.orders, r)]
  <2>1. b = c
    BY <1>2 DEF Submit
  <2>2. r \in Order /\ r.approval = request.approval /\ ~r.open /\ r.filled = 0 /\ r.value = 0
    BY NewOrdersTyped
  <2> HIDE DEF r, b
  <2>3. c \in Account /\ Holds(c)
    BY <1>1, <2>2, AddHolds
  <2>4. /\ n \in Nat /\ DOMAIN a.orders = 1..n /\ Len(c.orders) = n + 1
        /\ DOMAIN c.orders = 1..(n + 1) /\ c.orders[n + 1] = r
        /\ \A j \in 1..n : c.orders[j] = a.orders[j]
    BY <1>1, <2>2, AppendedOrders
  <2> HIDE DEF c
  <2>5. Resting(c.orders)
    BY <1>1, <2>2, <2>4 DEF Resting
  <2>6. Sound(c) /\ Submitted(a, c, request)
    BY <2>2, <2>3, <2>4, <2>5 DEF Sound, Submitted
  <2> QED
    BY <2>1, <2>6 DEF b
<1>3. CASE ~Refused(a, NewOrder(request), mkt, kill)
  <2> DEFINE p == Accepted(request)
             i == n + 1
             c == [a EXCEPT !.orders = Append(a.orders, p)]
             levels == mkt[Opposing(request.side)]
             d == Match(c, i, levels, loss)
             q == SumFunction(Taken(p, levels))
             v == SumFunction(Values(p, levels))
             f == SumFunction(Fees(p, levels))
             w == d.orders[i]
             e == [d EXCEPT !.orders = [d.orders EXCEPT ![i] = RestCancelled(d.orders[i])]]
  <2>1. b = e
    <3>1. NewOrder(request).side = request.side
      BY NewOrdersTyped
    <3> QED
      BY <1>3, <3>1 DEF Submit, Accepted
  <2>2. /\ p \in Order /\ p.side = request.side /\ p.type = request.type
        /\ p.limit = request.limit /\ p.remaining = request.quantity
        /\ p.approval = request.approval /\ p.open /\ p.filled = 0 /\ p.value = 0
    BY NewOrdersTyped
  <2>3. /\ Fits(a, p)
        /\ request.side = "BUY" /\ request.type = "MARKET" =>
             Estimate(mkt.asks, request.quantity).cost <= a.cash - ReservedCash(a.orders)
    BY <1>1, <1>3, FitsWhenTaken
  <2>4. levels \in Levels /\ (request.side = "BUY" => levels = mkt.asks)
    BY DEF Snapshot, Opposing, Request, Sides
  <2> HIDE DEF p, b, levels
  <2>5. /\ c \in Account /\ Holds(c)
        /\ ReservedCash(c.orders)
             = ReservedCash(a.orders) + (IF p.side = "BUY" THEN p.limit * p.remaining ELSE 0)
        /\ Slipped(c.orders) = Slipped(a.orders)
    BY <1>1, <2>2, <2>3, AddHolds
  <2>6. /\ n \in Nat /\ DOMAIN a.orders = 1..n /\ Len(c.orders) = i
        /\ DOMAIN c.orders = 1..i /\ c.orders[i] = p /\ i \in 1..Len(c.orders)
        /\ \A j \in 1..n : c.orders[j] = a.orders[j]
        /\ c.cash = a.cash /\ c.fees = a.fees
    BY <1>1, <2>2, AppendedOrders
  <2> HIDE DEF c, n
  <2>7. d \in Account /\ MatchedBy(c, d, i, q, v, f)
    BY <2>4, <2>5, <2>6, MatchIs
  <2>8. /\ q \in Nat /\ q <= p.remaining /\ v \in Nat /\ f \in Nat
        /\ SumFunction(Prices(p, levels)) \in Int
        /\ p.side = "BUY" /\ p.type = "LIMIT" => v <= p.limit * q
        /\ p.side = "BUY" /\ p.type = "MARKET" =>
             v <= SumFunction(Prices(p, levels)) + (SlippageTicks * TickSize) * q
    BY <2>2, <2>4, WalkSums
  <2> HIDE DEF q, v, f, d
  <2>9. Afforded(c, p, q, v)
    <3> SUFFICES ASSUME p.side = "BUY"
                 PROVE  v - SlipOf(p, q) <= p.limit * q
                          + (c.cash + c.fees + Slipped(c.orders) - ReservedCash(c.orders))
      BY DEF Afforded
    <3> DEFINE free == c.cash + c.fees + Slipped(c.orders) - ReservedCash(c.orders)
    <3>1. AccountInts(c) /\ BooksOf(c) /\ AccountInts(a)
      BY <1>1, <2>5, AccountIntsHold, HoldsAre
    <3>2. /\ c.cash \in Int /\ c.fees \in Int /\ Slipped(c.orders) \in Int
          /\ ReservedCash(c.orders) \in Int /\ ReservedCash(a.orders) \in Int
      BY <3>1 DEF AccountInts, BooksTyped
    <3>3. free >= 0 /\ free \in Int
      <4>1. c.cash + c.fees + Slipped(c.orders) >= ReservedCash(c.orders)
        BY <3>1 DEF BooksOf, Books
      <4> QED
        BY <3>2, <4>1
    <3>4. p.type \in {"MARKET", "LIMIT"} /\ p.limit \in Nat /\ p.limit * q \in Int
      BY <2>2, <2>8, OrderFields, Products
    <3>5. CASE p.type = "LIMIT"
      <4>1. SlipOf(p, q) = 0 /\ v <= p.limit * q
        BY <2>8, <3>5 DEF SlipOf
      <4> HIDE DEF free
      <4>2. v - SlipOf(p, q) <= p.limit * q + free
        BY <2>8, <3>3, <3>4, <4>1
      <4> QED
        BY <4>2 DEF free
    <3>6. CASE p.type = "MARKET"
      <4> DEFINE slip == (SlippageTicks * TickSize) * q
                 cost == SumFunction(Prices(p, levels))
      <4>1. SlipOf(p, q) = slip /\ v <= cost + slip /\ slip \in Int /\ cost \in Int
        <5>1. SlippageTicks * TickSize \in Nat
          BY TraderAssumption, Products
        <5>2. slip \in Int
          BY <2>8, <5>1, Products
        <5> QED
          BY <2>8, <3>6, <5>2 DEF SlipOf
      <4>2. p.limit = 0 /\ request.type = "MARKET" /\ request.side = "BUY"
        BY <2>2, <3>6
      <4>3. cost <= a.cash - ReservedCash(a.orders)
        BY <2>2, <2>3, <2>4, <3>6, <4>2, EstimateIs
      <4>4. p.limit * q = 0 /\ p.limit * p.remaining = 0
        BY <2>2, <2>8, <4>2, OrderFields
      <4>5. ReservedCash(c.orders) = ReservedCash(a.orders) /\ c.cash = a.cash
        BY <2>5, <2>6, <3>2, <4>4
      <4>6. c.fees >= 0 /\ Slipped(c.orders) >= 0
        BY <2>5, SlippedNat DEF Account
      <4> HIDE DEF slip, cost
      <4>7. v - slip <= c.cash - ReservedCash(c.orders)
        BY <2>8, <3>2, <4>1, <4>3, <4>5
      <4>8. v - slip <= c.cash + c.fees + Slipped(c.orders) - ReservedCash(c.orders)
        BY <2>8, <3>2, <4>1, <4>6, <4>7
      <4>9. v - slip <= 0 + free
        BY <2>8, <3>2, <4>1, <4>8
      <4> QED
        BY <4>1, <4>4, <4>9 DEF free
    <3> QED
      BY <3>4, <3>5, <3>6
  <2>10. Holds(d)
    BY <2>2, <2>5, <2>6, <2>7, <2>8, <2>9, MatchHolds
  <2>11. /\ w \in Order /\ w.approval = p.approval /\ w.type = p.type
         /\ (w.open <=> w.remaining > 0)
         /\ d.orders = [c.orders EXCEPT ![i] = w]
    BY <2>6, <2>7 DEF MatchedBy, SameOrder, FilledBy
  <2>12. /\ RestCancelled(w) \in Order /\ ClosedFrom(w, RestCancelled(w))
         /\ RestCancelled(w).open => w.type = "LIMIT"
    BY <2>11, CancelledIs
  <2>13. i \in 1..Len(d.orders) /\ Len(d.orders) = i /\ DOMAIN d.orders = 1..i
         /\ \A j \in 1..n : d.orders[j] = c.orders[j]
    <3>1. c.orders \in Seq(Order)
      BY <2>5 DEF Account
    <3> HIDE DEF w
    <3> QED
      BY <2>6, <2>11, <3>1
  <2>14. e \in Account /\ Holds(e)
    BY <2>7, <2>10, <2>12, <2>13, CloseOne
  <2>15. /\ Len(e.orders) = i /\ DOMAIN e.orders = 1..i /\ e.orders[i] = RestCancelled(w)
         /\ \A j \in 1..n : e.orders[j] = d.orders[j]
    <3>1. e.orders = [d.orders EXCEPT ![i] = RestCancelled(w)] /\ d.orders \in Seq(Order)
      BY <2>7 DEF Account
    <3> HIDE DEF e, w
    <3> QED
      BY <2>6, <2>12, <2>13, <3>1
  <2> HIDE DEF e, w
  <2>16. RestCancelled(w).approval = request.approval /\ RestCancelled(w).type = w.type
    BY <2>2, <2>11, <2>12 DEF ClosedFrom, SameOrder
  <2>17. Resting(e.orders)
    BY <1>1, <2>6, <2>12, <2>13, <2>15, <2>16 DEF Resting
  <2>18. Submitted(a, e, request)
    BY <2>6, <2>13, <2>15, <2>16 DEF Submitted, n
  <2> QED
    BY <2>1, <2>14, <2>17, <2>18 DEF Sound, b
<1> QED
  BY <1>2, <1>3

(***************************************************************************)
(* The open orders of a tick, one after the other.                         *)
(***************************************************************************)
MatchStep(s, i, loss) ==
  LET o == s.acct.orders[i]
      levels == s.book[Opposing(o.side)]
  IN IF ~o.open THEN s
     ELSE [acct |-> Match(s.acct, i, levels, loss),
           book |-> [s.book EXCEPT ![Opposing(o.side)] = LevelsLeft(levels, Taken(o, levels))]]

MatchFold(g, n, base, loss) ==
  g = [s \in SUBSET (1..n) |->
         IF s = {} THEN base ELSE MatchStep(g[s \ {Max(s)}], Max(s), loss)]

LEMMA MaxUpTo ==
  ASSUME NEW n \in Nat
  PROVE  /\ \A s \in SUBSET (1..n) : s # {} => Max(s) \in s /\ \A y \in s : Max(s) >= y
         /\ n # 0 => Max(1..n) = n /\ (1..n) \ {n} = 1..(n - 1)
         /\ n # 0 => \A s \in SUBSET (1..n) : n \in s => Max(s) = n
<1>1. ASSUME NEW s \in SUBSET (1..n), s # {} PROVE Max(s) \in s /\ \A y \in s : Max(s) >= y
  <2>1. s \in SUBSET (0..n)
    OBVIOUS
  <2> QED
    BY <1>1, <2>1, MaxOf
<1>2. ASSUME n # 0, NEW s \in SUBSET (1..n), n \in s PROVE Max(s) = n
  <2>1. /\ Max(s) \in s /\ Max(s) >= n
    BY <1>1, <1>2
  <2>2. Max(s) \in 1..n
    BY <2>1
  <2> QED
    BY <2>1, <2>2
<1>3. ASSUME n # 0 PROVE Max(1..n) = n /\ (1..n) \ {n} = 1..(n - 1)
  <2>1. n \in 1..n /\ 1..n \in SUBSET (1..n)
    BY <1>3
  <2> QED
    BY <1>2, <1>3, <2>1
<1> QED
  BY <1>1, <1>2, <1>3

LEMMA MatchFoldExists ==
  ASSUME NEW n \in Nat, NEW base, NEW loss
  PROVE  \E g : MatchFold(g, n, base, loss)
<1> DEFINE Bad == {k \in 0..n : ~\E g : MatchFold(g, k, base, loss)}
<1>1. SUFFICES ASSUME n \in Bad PROVE FALSE
  OBVIOUS
<1>2. PICK k \in Bad : \A j \in Bad : k <= j
  <2>1. Bad \in SUBSET Nat /\ Bad # {}
    BY <1>1
  <2> HIDE DEF Bad
  <2> QED
    BY <2>1, LeastOf
<1>3. k # 0
  <2>1. SUBSET (1..0) = {{}}
    OBVIOUS
  <2>2. MatchFold([s \in {{}} |-> base], 0, base, loss)
    BY <2>1 DEF MatchFold
  <2> QED
    BY <1>2, <2>2
<1>4. PICK g : MatchFold(g, k - 1, base, loss)
  <2>1. k - 1 \in 0..n /\ k - 1 \notin Bad
    BY <1>2, <1>3
  <2> QED
    BY <2>1
<1> DEFINE h == [s \in SUBSET (1..k) |->
                   IF k \in s THEN MatchStep(g[s \ {k}], k, loss) ELSE g[s]]
<1>5. k \in Nat /\ k >= 1 /\ k - 1 \in Nat
  BY <1>2, <1>3
<1>6. ASSUME NEW s \in SUBSET (1..(k - 1))
      PROVE  /\ s \in SUBSET (1..k) /\ k \notin s
             /\ g[s] = IF s = {} THEN base ELSE MatchStep(g[s \ {Max(s)}], Max(s), loss)
  <2>1. s \in SUBSET (1..k) /\ k \notin s
    BY <1>5
  <2> QED
    BY <1>4, <2>1 DEF MatchFold
<1>7. ASSUME NEW s \in SUBSET (1..k)
      PROVE  h[s] = IF s = {} THEN base ELSE MatchStep(h[s \ {Max(s)}], Max(s), loss)
  <2>1. CASE k \in s
    <3>1. Max(s) = k
      BY <1>5, <2>1, MaxUpTo
    <3>2. s \ {k} \in SUBSET (1..(k - 1))
      BY <1>5
    <3>3. h[s \ {k}] = g[s \ {k}]
      BY <1>6, <3>2
    <3> QED
      BY <2>1, <3>1, <3>3
  <2>2. CASE k \notin s /\ s # {}
    <3>1. s \in SUBSET (1..(k - 1))
      BY <1>5, <2>2
    <3>2. s \ {Max(s)} \in SUBSET (1..(k - 1))
      BY <3>1
    <3>3. h[s \ {Max(s)}] = g[s \ {Max(s)}] /\ h[s] = g[s]
      BY <1>6, <3>1, <3>2
    <3> QED
      BY <1>6, <2>2, <3>1, <3>3
  <2>3. CASE s = {}
    <3>1. s \in SUBSET (1..(k - 1))
      BY <2>3
    <3> QED
      BY <1>6, <2>3, <3>1
  <2> QED
    BY <2>1, <2>2, <2>3
<1>8. h = [s \in SUBSET (1..k) |->
             IF s = {} THEN base ELSE MatchStep(h[s \ {Max(s)}], Max(s), loss)]
  <2>1. h = [s \in SUBSET (1..k) |-> h[s]]
    OBVIOUS
  <2> HIDE DEF h
  <2> QED
    BY <1>7, <2>1
<1> HIDE DEF h
<1>9. MatchFold(h, k, base, loss)
  BY <1>8 DEF MatchFold
<1> QED
  BY <1>2, <1>9

LEMMA MatchOpenIs ==
  ASSUME NEW a \in Account, NEW mkt, NEW loss
  PROVE  \E g : /\ MatchFold(g, Len(a.orders), [acct |-> a, book |-> mkt], loss)
                /\ MatchOpen(a, mkt, loss) = g[1..Len(a.orders)].acct
<1> DEFINE n == Len(a.orders)
           base == [acct |-> a, book |-> mkt]
           idx == [i \in DOMAIN a.orders |-> i]
           iter == CHOOSE iter : iter = [s \in SUBSET DOMAIN idx |->
                     IF s = {} THEN base
                     ELSE MatchStep(iter[s \ {Max(s)}], idx[Max(s)], loss)]
<1>1. n \in Nat /\ DOMAIN a.orders = 1..n
  <2>1. a.orders \in Seq(Order)
    BY DEF Account
  <2> QED
    BY <2>1, OrdersTyped
<1>2. MatchOpen(a, mkt, loss) = iter[DOMAIN idx].acct
  BY DEF MatchOpen, MatchStep, FoldLeftDomain, FoldLeft, MapThenFoldSet
<1>3. DOMAIN idx = 1..n /\ \A i \in 1..n : idx[i] = i
  BY <1>1
<1> HIDE DEF idx, base, n
<1>4. PICK g : MatchFold(g, n, base, loss)
  BY <1>1, MatchFoldExists
<1>5. \A s \in SUBSET (1..n) : s # {} => idx[Max(s)] = Max(s)
  BY <1>1, <1>3, MaxUpTo
<1>6. g = [s \in SUBSET DOMAIN idx |->
             IF s = {} THEN base ELSE MatchStep(g[s \ {Max(s)}], idx[Max(s)], loss)]
  <2>1. g = [s \in SUBSET (1..n) |->
               IF s = {} THEN base ELSE MatchStep(g[s \ {Max(s)}], Max(s), loss)]
    BY <1>4 DEF MatchFold
  <2> QED
    BY <1>3, <1>5, <2>1
<1>7. iter = [s \in SUBSET DOMAIN idx |->
                IF s = {} THEN base ELSE MatchStep(iter[s \ {Max(s)}], idx[Max(s)], loss)]
  BY <1>6, Zenon
<1> HIDE DEF iter
<1>8. iter = [s \in SUBSET (1..n) |->
                IF s = {} THEN base ELSE MatchStep(iter[s \ {Max(s)}], Max(s), loss)]
  BY <1>3, <1>5, <1>7
<1> QED
  BY <1>2, <1>3, <1>8 DEF MatchFold, base, n

LEMMA MatchFoldStep ==
  ASSUME NEW n \in Nat, NEW base, NEW loss, NEW g, MatchFold(g, n, base, loss)
  PROVE  /\ g[1..0] = base
         /\ \A k \in 1..n : g[1..k] = MatchStep(g[1..(k - 1)], k, loss)
<1>1. g[1..0] = base
  <2>1. 1..0 = {} /\ {} \in SUBSET (1..n)
    OBVIOUS
  <2> QED
    BY <2>1 DEF MatchFold
<1>2. ASSUME NEW k \in 1..n PROVE g[1..k] = MatchStep(g[1..(k - 1)], k, loss)
  <2>1. k \in Nat /\ k # 0 /\ 1..k \in SUBSET (1..n) /\ 1..k # {}
    OBVIOUS
  <2>2. Max(1..k) = k /\ (1..k) \ {k} = 1..(k - 1)
    BY <2>1, MaxUpTo
  <2> QED
    BY <2>1, <2>2 DEF MatchFold
<1> QED
  BY <1>1, <1>2

LEMMA LevelsLeftTyped ==
  ASSUME NEW o \in Order, NEW levels \in Levels
  PROVE  LevelsLeft(levels, Taken(o, levels)) \in Levels
<1> DEFINE t == Taken(o, levels)
           n == Len(levels)
<1>1. n \in Nat /\ DOMAIN levels = 1..n /\ \A k \in 1..n : levels[k] \in BookLevel
  BY DEF Levels
<1>2. \A k \in 1..n : t[k] \in Int /\ 0 <= t[k] /\ t[k] <= levels[k].size
  <2>1. o.remaining \in Nat
    BY OrderFields
  <2>2. t \in [1..n -> Int] /\ \A k \in 1..n : 0 <= t[k] /\ t[k] <= levels[k].size
    BY <2>1, TakenIs
  <2> QED
    BY <2>2
<1> HIDE DEF t, n
<1>3. ASSUME NEW k \in 1..n PROVE [levels[k] EXCEPT !.size = @ - t[k]] \in BookLevel
  <2>1. levels[k].size - t[k] \in Nat
    BY <1>1, <1>2 DEF BookLevel
  <2> QED
    BY <1>1, <2>1 DEF BookLevel
<1>4. LevelsLeft(levels, t) = [k \in 1..n |-> [levels[k] EXCEPT !.size = @ - t[k]]]
  BY <1>1 DEF LevelsLeft
<1>5. [k \in 1..n |-> [levels[k] EXCEPT !.size = @ - t[k]]] \in Seq(BookLevel)
  BY <1>1, <1>3
<1> QED
  BY <1>4, <1>5 DEF Levels, t

(* The same orders, filled further or closed.                              *)
OrdersGo(old, new) ==
  /\ Len(new) = Len(old)
  /\ \A j \in 1..Len(old) : new[j].approval = old[j].approval /\ new[j].events >= old[j].events

LEMMA MatchOpenHolds ==
  ASSUME NEW a, Sound(a), NEW mkt \in Snapshot, NEW loss \in BOOLEAN
  PROVE  LET b == MatchOpen(a, mkt, loss)
         IN Sound(b) /\ OrdersGo(a.orders, b.orders)
<1> DEFINE n == Len(a.orders)
           base == [acct |-> a, book |-> mkt]
           Good(s) == Sound(s.acct) /\ OrdersGo(a.orders, s.acct.orders) /\ s.book \in Snapshot
<1>1. /\ n \in Nat /\ DOMAIN a.orders = 1..n /\ a \in Account
      /\ \A j \in 1..n : a.orders[j].events \in Nat
  <2>1. a.orders \in Seq(Order) /\ a \in Account
    BY DEF Account, Sound
  <2> QED
    BY <2>1, OrdersTyped, OrderFields
<1>2. PICK g : MatchFold(g, n, base, loss) /\ MatchOpen(a, mkt, loss) = g[1..n].acct
  BY <1>1, MatchOpenIs
<1>3. g[1..0] = base /\ \A k \in 1..n : g[1..k] = MatchStep(g[1..(k - 1)], k, loss)
  <2> HIDE DEF n, base
  <2> QED
    BY <1>1, <1>2, MatchFoldStep
<1>4. Good(base)
  BY <1>1 DEF OrdersGo
<1>5. ASSUME NEW s, NEW k \in 1..n, Good(s) PROVE Good(MatchStep(s, k, loss))
  <2> DEFINE c == s.acct
             o == c.orders[k]
             side == Opposing(o.side)
             levels == s.book[side]
             d == Match(c, k, levels, loss)
             q == SumFunction(Taken(o, levels))
             v == SumFunction(Values(o, levels))
             f == SumFunction(Fees(o, levels))
             p == d.orders[k]
             left == LevelsLeft(levels, Taken(o, levels))
  <2>1. CASE ~o.open
    <3>1. MatchStep(s, k, loss) = s
      BY <2>1 DEF MatchStep
    <3> QED
      BY <1>5, <3>1
  <2>2. CASE o.open
    <3>1. MatchStep(s, k, loss) = [acct |-> d, book |-> [s.book EXCEPT ![side] = left]]
      BY <2>2 DEF MatchStep
    <3>2. /\ c \in Account /\ Holds(c) /\ Resting(c.orders) /\ Len(c.orders) = n
          /\ \A j \in 1..n : /\ c.orders[j].approval = a.orders[j].approval
                             /\ c.orders[j].events >= a.orders[j].events
          /\ s.book \in Snapshot /\ k \in 1..Len(c.orders)
      BY <1>5 DEF Sound, OrdersGo
    <3> HIDE DEF n
    <3>3. c.orders \in Seq(Order) /\ o \in Order /\ DOMAIN c.orders = 1..n
          /\ \A j \in 1..n : c.orders[j] \in Order
      <4>1. c.orders \in Seq(Order)
        BY <3>2 DEF Account
      <4> QED
        BY <3>2, <4>1, OrdersTyped
    <3>4. side \in {"asks", "bids"} /\ levels \in Levels
      BY <3>2 DEF Opposing, Snapshot
    <3> HIDE DEF c, side, levels
    <3>5. d \in Account /\ MatchedBy(c, d, k, q, v, f)
      BY <3>2, <3>4, MatchIs DEF o
    <3>6. /\ q \in Nat /\ q <= o.remaining /\ v \in Nat /\ f \in Nat
          /\ o.side = "BUY" /\ o.type = "LIMIT" => v <= o.limit * q
      BY <3>3, <3>4, WalkSums
    <3>7. o.type = "LIMIT"
      BY <2>2, <3>2, <3>3 DEF Resting
    <3> HIDE DEF d, q, v, f
    <3>8. Afforded(c, o, q, v)
      <4> SUFFICES ASSUME o.side = "BUY"
                   PROVE  v - SlipOf(o, q) <= o.limit * q
                            + (c.cash + c.fees + Slipped(c.orders) - ReservedCash(c.orders))
        BY DEF Afforded
      <4> DEFINE free == c.cash + c.fees + Slipped(c.orders) - ReservedCash(c.orders)
      <4>1. AccountInts(c) /\ BooksOf(c)
        BY <3>2, AccountIntsHold, HoldsAre
      <4>2. /\ c.cash \in Int /\ c.fees \in Int /\ Slipped(c.orders) \in Int
            /\ ReservedCash(c.orders) \in Int
        BY <4>1 DEF AccountInts, BooksTyped
      <4>3. c.cash + c.fees + Slipped(c.orders) >= ReservedCash(c.orders)
        BY <4>1 DEF BooksOf, Books
      <4>4. free >= 0 /\ free \in Int
        BY <4>2, <4>3
      <4>5. o.limit * q \in Int
        <5>1. o.limit \in Int
          BY <3>3, OrderFields
        <5> HIDE DEF o
        <5> QED
          BY <3>6, <5>1, Products
      <4>6. SlipOf(o, q) = 0 /\ v <= o.limit * q
        BY <3>6, <3>7 DEF SlipOf
      <4> HIDE DEF free, o
      <4>7. v - SlipOf(o, q) <= o.limit * q + free
        BY <3>6, <4>4, <4>5, <4>6
      <4> QED
        BY <4>7 DEF free
    <3>9. Holds(d)
      BY <2>2, <3>2, <3>5, <3>6, <3>8, MatchHolds DEF o
    <3>10. /\ p \in Order /\ d.orders = [c.orders EXCEPT ![k] = p]
           /\ p.approval = o.approval /\ p.type = o.type /\ p.events >= o.events
      BY <3>5 DEF MatchedBy, SameOrder, o
    <3> HIDE DEF p
    <3>11. /\ Len(d.orders) = n /\ DOMAIN d.orders = 1..n /\ d.orders[k] = p
           /\ \A j \in 1..n : j # k => d.orders[j] = c.orders[j]
      BY <3>2, <3>3, <3>10, OrdersTyped
    <3>12. Resting(d.orders)
      BY <3>2, <3>3, <3>7, <3>10, <3>11 DEF Resting
    <3>13. OrdersGo(a.orders, d.orders)
      <4>1. ASSUME NEW j \in 1..n
            PROVE  d.orders[j].approval = a.orders[j].approval
                   /\ d.orders[j].events >= a.orders[j].events
        <5>1. CASE j # k
          BY <3>2, <3>11, <5>1
        <5>2. CASE j = k
          <6>1. p.events \in Nat /\ o.events \in Nat /\ a.orders[k].events \in Nat
            BY <1>1, <3>3, <3>10, OrderFields DEF n
          <6>2. o.approval = a.orders[k].approval /\ o.events >= a.orders[k].events
            BY <3>2 DEF o
          <6> HIDE DEF o
          <6>3. p.approval = a.orders[k].approval /\ p.events >= a.orders[k].events
            BY <3>10, <6>1, <6>2
          <6> QED
            BY <3>11, <5>2, <6>3
        <5> QED
          BY <5>1, <5>2
      <4> QED
        BY <3>11, <4>1 DEF OrdersGo, n
    <3>14. [s.book EXCEPT ![side] = left] \in Snapshot
      <4>1. left \in Levels
        BY <3>3, <3>4, LevelsLeftTyped
      <4> HIDE DEF left
      <4> QED
        BY <3>2, <3>4, <4>1 DEF Snapshot
    <3>15. Sound(d)
      BY <3>5, <3>9, <3>12 DEF Sound
    <3>16. MatchStep(s, k, loss).acct = d
           /\ MatchStep(s, k, loss).book = [s.book EXCEPT ![side] = left]
      BY <3>1
    <3> QED
      BY <3>13, <3>14, <3>15, <3>16
  <2> QED
    BY <2>1, <2>2
<1> HIDE DEF n, base, Good
<1> DEFINE Bad == {k \in 0..n : ~Good(g[1..k])}
<1>6. n \notin Bad
  <2> SUFFICES ASSUME Bad # {} PROVE FALSE
    BY <1>1
  <2>1. PICK m \in Bad : \A k \in Bad : m <= k
    <3>1. Bad \in SUBSET Nat
      OBVIOUS
    <3> HIDE DEF Bad
    <3> QED
      BY <3>1, LeastOf
  <2>2. m # 0
    BY <1>3, <1>4, <2>1
  <2>3. m \in 1..n /\ m - 1 \in 0..n /\ m - 1 \notin Bad
    BY <1>1, <2>1, <2>2
  <2>4. Good(g[1..(m - 1)])
    BY <2>3
  <2>5. Good(g[1..m])
    BY <1>3, <1>5, <2>3, <2>4
  <2> QED
    BY <2>1, <2>5
<1>7. Good(g[1..n])
  BY <1>1, <1>6
<1> QED
  BY <1>2, <1>7 DEF Good

(***************************************************************************)
(* What the journal holds of one order.                                    *)
(***************************************************************************)
TrackType == [created : BOOLEAN, seen : Nat, written : Seq(Nat)]

Closed(w) == \A k \in DOMAIN w : \A n \in 0..(w[k] - 1) : \E h \in 1..(k - 1) : w[h] = n

Covers(w, first) == \A n \in 0..(first - 1) : \E h \in DOMAIN w : w[h] = n

(* The event of an order that is due next.                                 *)
First(t) == IF t.created THEN t.seen + 1 ELSE 0

TrackKept(t, events) ==
  /\ t \in TrackType
  /\ Closed(t.written)
  /\ Covers(t.written, First(t))
  /\ ~t.created => t.seen = 0
  /\ t.seen <= events

InOrder(t) == t.written = [k \in 1..First(t) |-> k - 1]

Run(first, c) == [k \in 1..c |-> first + k - 1]

LEMMA RunAppended ==
  ASSUME NEW w \in Seq(Nat), Closed(w), NEW first \in Nat, Covers(w, first), NEW c \in Nat
  PROVE  LET x == w \o Run(first, c)
         IN /\ x \in Seq(Nat) /\ Closed(x) /\ Covers(x, first + c)
            /\ w = [k \in 1..first |-> k - 1] => x = [k \in 1..(first + c) |-> k - 1]
<1> DEFINE r == Run(first, c)
           x == w \o r
           l == Len(w)
<1>1. r \in Seq(Nat) /\ Len(r) = c /\ \A k \in 1..c : r[k] = first + k - 1
  BY DEF Run
<1>2. /\ l \in Nat /\ x \in Seq(Nat) /\ DOMAIN x = 1..(l + c) /\ DOMAIN w = 1..l /\ Len(x) = l + c
      /\ \A k \in 1..l : x[k] = w[k]
  <2> HIDE DEF r
  <2>1. l \in Nat /\ DOMAIN w = 1..l
    OBVIOUS
  <2>2. x \in Seq(Nat) /\ Len(x) = l + c
    <3>1. r \in Seq(Nat) /\ Len(r) = c
      BY <1>1
    <3>2. x \in Seq(Nat)
      BY <3>1
    <3>3. Len(x) = Len(w) + Len(r)
      BY <3>1
    <3> QED
      BY <3>1, <3>2, <3>3
  <2>3. DOMAIN x = 1..(l + c)
    BY <2>2
  <2>4. \A k \in 1..l : x[k] = w[k]
    BY <1>1
  <2> QED
    BY <2>1, <2>2, <2>3, <2>4
<1>3. \A k \in 1..c : x[l + k] = first + k - 1
  BY <1>1
<1> HIDE DEF r, x, l
<1>4. Closed(x)
  <2> SUFFICES ASSUME NEW k \in 1..(l + c), NEW n \in 0..(x[k] - 1)
               PROVE  \E h \in 1..(k - 1) : x[h] = n
    BY <1>2 DEF Closed
  <2>1. CASE k <= l
    <3>1. k \in 1..l /\ x[k] = w[k]
      BY <1>2, <2>1
    <3>2. PICK h \in 1..(k - 1) : w[h] = n
      BY <1>2, <3>1 DEF Closed
    <3>3. h \in 1..l
      BY <1>2, <3>1
    <3> QED
      BY <1>2, <3>2, <3>3
  <2>2. CASE k > l
    <3>1. k - l \in 1..c /\ k = l + (k - l)
      BY <1>2, <2>2
    <3>2. x[k] = first + (k - l) - 1
      BY <1>3, <3>1
    <3>3. CASE n < first
      <4>1. n \in 0..(first - 1)
        BY <1>2, <3>2, <3>3
      <4>2. PICK h \in DOMAIN w : w[h] = n
        BY <4>1 DEF Covers
      <4>3. h \in 1..(k - 1)
        BY <1>2, <2>2, <4>2
      <4> QED
        BY <1>2, <4>2, <4>3
    <3>4. CASE n >= first
      <4>1. n \in Nat /\ n <= first + (k - l) - 2
        BY <1>2, <3>1, <3>2
      <4>2. n - first + 1 \in 1..c /\ l + (n - first + 1) \in 1..(k - 1)
        BY <1>2, <3>1, <3>4, <4>1
      <4>3. x[l + (n - first + 1)] = first + (n - first + 1) - 1
        BY <1>3, <4>2
      <4>4. x[l + (n - first + 1)] = n
        BY <4>1, <4>3
      <4> QED
        BY <4>2, <4>4
    <3> QED
      BY <1>2, <3>2, <3>3, <3>4
  <2> QED
    BY <1>2, <2>1, <2>2
<1>5. Covers(x, first + c)
  <2> SUFFICES ASSUME NEW n \in 0..(first + c - 1)
               PROVE  \E h \in DOMAIN x : x[h] = n
    BY DEF Covers
  <2>0. DOMAIN x = 1..(l + c)
    BY <1>2
  <2>1. CASE n < first
    <3>1. n \in 0..(first - 1)
      BY <2>1
    <3>2. PICK h \in DOMAIN w : w[h] = n
      BY <3>1 DEF Covers
    <3>3. h \in 1..l /\ h \in 1..(l + c)
      BY <1>2, <3>2
    <3> QED
      BY <1>2, <2>0, <3>2, <3>3
  <2>2. CASE n >= first
    <3>1. n - first + 1 \in 1..c /\ l + (n - first + 1) \in 1..(l + c)
      BY <1>2, <2>2
    <3>2. x[l + (n - first + 1)] = first + (n - first + 1) - 1
      BY <1>3, <3>1
    <3> QED
      BY <2>0, <3>1, <3>2
  <2> QED
    BY <2>1, <2>2
<1>6. ASSUME w = [k \in 1..first |-> k - 1] PROVE x = [k \in 1..(first + c) |-> k - 1]
  <2>1. l = first
    BY <1>6 DEF l
  <2>2. ASSUME NEW k \in 1..(first + c) PROVE x[k] = k - 1
    <3>1. CASE k <= l
      BY <1>2, <1>6, <2>1, <3>1
    <3>2. CASE k > l
      <4>1. k - l \in 1..c /\ k = l + (k - l)
        BY <1>2, <2>1, <3>2
      <4>2. x[k] = first + (k - l) - 1
        BY <1>3, <4>1
      <4> QED
        BY <2>1, <4>2
    <3> QED
      BY <1>2, <3>1, <3>2
  <2>3. x = [k \in 1..(first + c) |-> x[k]]
    BY <1>2, <2>1
  <2> QED
    BY <2>2, <2>3
<1> QED
  BY <1>2, <1>4, <1>5, <1>6 DEF x, r

LEMMA DueIs ==
  ASSUME NEW orders, NEW known, NEW i, orders[i].events \in Nat,
         TrackKept(Track(known, i), orders[i].events)
  PROVE  LET t == Track(known, i)
         IN /\ First(t) \in Nat /\ orders[i].events + 1 - First(t) \in Nat
            /\ Due(orders, known, i) = Run(First(t), orders[i].events + 1 - First(t))
<1> DEFINE t == Track(known, i)
           e == orders[i].events
           s == t.seen
           due == [k \in 1..(e - s) |-> s + k]
<1>1. t.created \in BOOLEAN /\ s \in Nat /\ e \in Nat /\ s <= e /\ (~t.created => s = 0)
  BY DEF TrackKept, TrackType
<1>2. Due(orders, known, i) = (IF t.created THEN <<>> ELSE <<0>>) \o due
  BY DEF Due
<1> HIDE DEF t, e, s
<1>3. due \in Seq(Nat) /\ Len(due) = e - s
  BY <1>1
<1>4. CASE t.created
  <2>1. First(t) = s + 1
    BY <1>4 DEF First, s
  <2>2. Due(orders, known, i) = due
    BY <1>2, <1>3, <1>4
  <2>3. Run(s + 1, e + 1 - (s + 1)) = due
    BY <1>1 DEF Run
  <2>4. e + 1 - (s + 1) \in Nat
    BY <1>1
  <2>5. First(t) \in Nat /\ e + 1 - First(t) \in Nat
        /\ Due(orders, known, i) = Run(First(t), e + 1 - First(t))
    BY <1>1, <2>1, <2>2, <2>3, <2>4
  <2> QED
    BY <2>5 DEF t, e
<1>5. CASE ~t.created
  <2>1. First(t) = 0 /\ s = 0
    BY <1>1, <1>5 DEF First
  <2>2. Due(orders, known, i) = <<0>> \o due
    BY <1>2, <1>5
  <2> DEFINE x == <<0>> \o due
  <2>3. /\ Len(x) = e + 1 /\ x \in Seq(Nat) /\ x[1] = 0
        /\ \A k \in 2..(e + 1) : x[k] = k - 1
    BY <1>1, <1>3, <2>1
  <2>4. Run(0, e + 1 - 0) = x
    <3> HIDE DEF x
    <3>1. x = [k \in 1..(e + 1) |-> x[k]]
      BY <1>1, <2>3
    <3>2. \A k \in 1..(e + 1) : x[k] = 0 + k - 1
      BY <1>1, <2>3
    <3> QED
      BY <3>1, <3>2 DEF Run
  <2>5. First(t) \in Nat /\ e + 1 - First(t) \in Nat
        /\ Due(orders, known, i) = Run(First(t), e + 1 - First(t))
    BY <1>1, <2>1, <2>2, <2>4
  <2> QED
    BY <2>5 DEF t, e
<1> QED
  BY <1>4, <1>5

LEMMA PrefixOfRun ==
  ASSUME NEW first \in Nat, NEW c \in Nat, NEW n \in 0..c
  PROVE  Len(Run(first, c)) = c /\ SubSeq(Run(first, c), 1, n) = Run(first, n)
  BY DEF Run

LEMMA RecordedIs ==
  ASSUME NEW orders, NEW known, NEW i, orders[i].events \in Nat,
         TrackKept(Track(known, i), orders[i].events)
  PROVE  LET r == Recorded(orders, known, i)
         IN /\ TrackKept(r, orders[i].events)
            /\ r.created /\ r.seen = orders[i].events
            /\ InOrder(Track(known, i)) => InOrder(r)
<1> DEFINE t == Track(known, i)
           e == orders[i].events
           c == e + 1 - First(t)
           x == t.written \o Run(First(t), c)
           r == Recorded(orders, known, i)
<1>1. First(t) \in Nat /\ c \in Nat /\ Due(orders, known, i) = Run(First(t), c)
  BY DueIs
<1>2. r = [created |-> TRUE, seen |-> e, written |-> x]
  BY <1>1 DEF Recorded
<1>3. t.written \in Seq(Nat) /\ Closed(t.written) /\ Covers(t.written, First(t)) /\ e \in Nat
  BY DEF TrackKept, TrackType
<1>4. InOrder(t) <=> t.written = [k \in 1..First(t) |-> k - 1]
  BY DEF InOrder
<1>5. First(t) + c = e + 1
  <2> HIDE DEF t, e
  <2> QED
    BY <1>1, <1>3
<1> HIDE DEF t, e, c
<1>6. /\ x \in Seq(Nat) /\ Closed(x) /\ Covers(x, First(t) + c)
      /\ t.written = [k \in 1..First(t) |-> k - 1] => x = [k \in 1..(First(t) + c) |-> k - 1]
  BY <1>1, <1>3, RunAppended
<1> HIDE DEF x, r
<1>7. r.created /\ r.seen = e /\ r.written = x /\ First(r) = e + 1 /\ r \in TrackType
  BY <1>2, <1>3, <1>6 DEF First, TrackType
<1>8. TrackKept(r, e)
  BY <1>3, <1>5, <1>6, <1>7 DEF TrackKept
<1>9. InOrder(t) => InOrder(r)
  BY <1>4, <1>5, <1>6, <1>7 DEF InOrder
<1> QED
  BY <1>7, <1>8, <1>9 DEF t, e, r

LEMMA CutShortIs ==
  ASSUME NEW orders, NEW known, NEW i, orders[i].events \in Nat,
         TrackKept(Track(known, i), orders[i].events),
         NEW n \in 0..Len(Due(orders, known, i))
  PROVE  TrackKept(CutShort(orders, known, i, n), orders[i].events)
<1> DEFINE t == Track(known, i)
           e == orders[i].events
           c == e + 1 - First(t)
           x == t.written \o Run(First(t), n)
           r == CutShort(orders, known, i, n)
<1>1. First(t) \in Nat /\ c \in Nat /\ Due(orders, known, i) = Run(First(t), c)
  BY DueIs
<1>2. /\ t \in TrackType /\ Closed(t.written) /\ Covers(t.written, First(t)) /\ e \in Nat
      /\ (~t.created => t.seen = 0) /\ t.seen <= e
  BY DEF TrackKept
<1>3. n \in 0..c /\ n \in Nat
  <2>1. Len(Run(First(t), c)) = c
    BY <1>1 DEF Run
  <2> QED
    BY <1>1, <2>1
<1>4. SubSeq(Due(orders, known, i), 1, n) = Run(First(t), n)
  <2>1. SubSeq(Run(First(t), c), 1, n) = Run(First(t), n)
    <3> HIDE DEF t, c
    <3> QED
      BY <1>1, <1>3, PrefixOfRun
  <2> QED
    BY <1>1, <2>1
<1>5. r = [t EXCEPT !.created = t.created \/ n > 0, !.written = x]
  BY <1>4 DEF CutShort
<1> HIDE DEF t, e, c
<1>6. t.written \in Seq(Nat) /\ t.created \in BOOLEAN /\ t.seen \in Nat
  BY <1>2 DEF TrackType
<1>7. x \in Seq(Nat) /\ Closed(x) /\ Covers(x, First(t) + n)
  BY <1>1, <1>2, <1>3, <1>6, RunAppended
<1> HIDE DEF x, r
<1>8. /\ (r.created <=> (t.created \/ n > 0)) /\ r.seen = t.seen /\ r.written = x
      /\ r \in TrackType
  BY <1>2, <1>5, <1>6, <1>7 DEF TrackType
<1>9. Covers(x, First(r))
  <2>1. First(r) <= First(t) + n /\ First(r) \in Nat
    BY <1>2, <1>3, <1>6, <1>8 DEF First
  <2> SUFFICES ASSUME NEW k \in 0..(First(r) - 1)
               PROVE  \E h \in DOMAIN x : x[h] = k
    BY DEF Covers
  <2>2. k \in 0..((First(t) + n) - 1)
    BY <1>1, <1>3, <2>1
  <2> QED
    BY <1>7, <2>2, Zenon DEF Covers
<1>10. ~r.created => r.seen = 0
  BY <1>2, <1>8
<1>11. TrackKept(r, e)
  BY <1>2, <1>7, <1>8, <1>9, <1>10 DEF TrackKept
<1> QED
  BY <1>11 DEF r, e

(***************************************************************************)
(* The memory of the process while a handler runs.                         *)
(***************************************************************************)
RequestStatuses == {"PENDING", "APPROVED", "REJECTED", "EXPIRED"}

IsMemory(m) ==
  m = [acct |-> m.acct, tracks |-> m.tracks, requests |-> m.requests,
       killSwitch |-> m.killSwitch, auto |-> m.auto, failures |-> m.failures,
       threw |-> m.threw]

TracksKept(orders, known, clean) ==
  /\ DOMAIN known \subseteq DOMAIN orders
  /\ \A i \in DOMAIN orders :
       /\ TrackKept(Track(known, i), orders[i].events)
       /\ clean => InOrder(Track(known, i))

OnePending(asked) ==
  /\ asked \in Seq(RequestStatuses)
  /\ \A i, j \in DOMAIN asked : asked[i] = "PENDING" /\ asked[j] = "PENDING" => i = j

OrdersApproved(orders, asked) ==
  /\ \A i \in DOMAIN orders : orders[i].approval # 0 =>
       orders[i].approval \in DOMAIN asked /\ asked[orders[i].approval] = "APPROVED"
  /\ \A i, j \in DOMAIN orders :
       orders[i].approval # 0 /\ orders[i].approval = orders[j].approval => i = j

Consistent(m) ==
  /\ IsMemory(m)
  /\ Sound(m.acct)
  /\ m.failures \in Nat /\ m.killSwitch \in BOOLEAN /\ m.auto \in BOOLEAN
  /\ TracksKept(m.acct.orders, m.tracks, m.failures = 0)
  /\ OnePending(m.requests)
  /\ OrdersApproved(m.acct.orders, m.requests)

(* Unless an append failed, everything is recorded.                        *)
Full(m) ==
  m.failures = 0 =>
    \A i \in DOMAIN m.acct.orders : /\ Track(m.tracks, i).created
                                    /\ Track(m.tracks, i).seen = m.acct.orders[i].events

LEMMA SoundOrders ==
  ASSUME NEW a, Sound(a)
  PROVE  /\ a.orders \in Seq(Order) /\ Len(a.orders) \in Nat /\ DOMAIN a.orders = 1..Len(a.orders)
         /\ \A i \in DOMAIN a.orders : a.orders[i] \in Order /\ a.orders[i].events \in Nat
<1>1. a.orders \in Seq(Order)
  BY DEF Sound, Account
<1> QED
  BY <1>1, OrdersTyped, OrderFields

LEMMA NoTrackKept ==
  ASSUME NEW e \in Nat
  PROVE  TrackKept(NoTrack, e) /\ InOrder(NoTrack)
<1>1. NoTrack \in TrackType /\ NoTrack.written = <<>> /\ NoTrack.seen = 0 /\ First(NoTrack) = 0
      /\ ~NoTrack.created
  BY DEF NoTrack, TrackType, First
<1>2. Closed(<<>>) /\ Covers(<<>>, 0)
  BY DEF Closed, Covers
<1>3. <<>> = [k \in 1..0 |-> k - 1]
  OBVIOUS
<1> QED
  BY <1>1, <1>2, <1>3 DEF TrackKept, InOrder

(* More orders and more events: what is recorded stays as good as it was.  *)
OrdersGrow(old, new) ==
  /\ DOMAIN old \subseteq DOMAIN new
  /\ \A i \in DOMAIN old : new[i].events >= old[i].events

(* Nothing is filled, and what was left to fill still is, or nothing is.   *)
Later(old, new) ==
  /\ DOMAIN old \subseteq DOMAIN new
  /\ \A i \in DOMAIN old : /\ new[i].filled = old[i].filled
                           /\ new[i].remaining = old[i].remaining \/ new[i].remaining = 0

LEMMA LaterAgain ==
  ASSUME NEW a, NEW b, NEW c, Later(a, b), Later(b, c)
  PROVE  Later(a, c)
BY DEF Later

LEMMA LaterNone ==
  ASSUME NEW a
  PROVE  Later(a, a)
BY DEF Later

LEMMA TracksGrow ==
  ASSUME NEW a, NEW b, Sound(a), Sound(b), OrdersGrow(a.orders, b.orders), NEW known, NEW clean,
         TracksKept(a.orders, known, clean)
  PROVE  TracksKept(b.orders, known, clean)
<1>1. DOMAIN known \subseteq DOMAIN b.orders
  BY DEF TracksKept, OrdersGrow
<1>2. ASSUME NEW i \in DOMAIN b.orders
      PROVE  /\ TrackKept(Track(known, i), b.orders[i].events)
             /\ clean => InOrder(Track(known, i))
  <2>1. b.orders[i].events \in Nat
    BY SoundOrders
  <2>2. CASE i \in DOMAIN a.orders
    <3>1. /\ TrackKept(Track(known, i), a.orders[i].events) /\ a.orders[i].events \in Nat
          /\ (clean => InOrder(Track(known, i))) /\ b.orders[i].events >= a.orders[i].events
      BY <2>2, SoundOrders DEF TracksKept, OrdersGrow
    <3>2. Track(known, i).seen \in Nat
      BY <3>1 DEF TrackKept, TrackType
    <3>3. TrackKept(Track(known, i), b.orders[i].events)
      BY <2>1, <3>1, <3>2 DEF TrackKept
    <3> QED
      BY <3>1, <3>3
  <2>3. CASE i \notin DOMAIN a.orders
    <3>1. Track(known, i) = NoTrack
      BY <2>3 DEF TracksKept, Track
    <3> QED
      BY <2>1, <3>1, NoTrackKept
  <2> QED
    BY <2>2, <2>3
<1> QED
  BY <1>1, <1>2 DEF TracksKept

LEMMA AccountChanged ==
  ASSUME NEW m, Consistent(m), NEW b, Sound(b), OrdersGrow(m.acct.orders, b.orders),
         OrdersApproved(b.orders, m.requests)
  PROVE  LET x == [m EXCEPT !.acct = b]
         IN /\ Consistent(x) /\ x.acct = b /\ x.requests = m.requests
            /\ x.killSwitch = m.killSwitch /\ x.failures = m.failures /\ x.tracks = m.tracks
<1> DEFINE x == [m EXCEPT !.acct = b]
<1>1. /\ IsMemory(x) /\ x.acct = b /\ x.requests = m.requests /\ x.killSwitch = m.killSwitch
      /\ x.failures = m.failures /\ x.tracks = m.tracks /\ x.auto = m.auto
  BY DEF Consistent, IsMemory
<1> HIDE DEF x
<1>2. TracksKept(b.orders, m.tracks, m.failures = 0)
  BY TracksGrow DEF Consistent
<1>3. Consistent(x)
  BY <1>1, <1>2 DEF Consistent
<1> QED
  BY <1>1, <1>3 DEF x

(* The rest of a handler that threw is skipped.                            *)
SameOrders(m, x) == x.acct = m.acct /\ x.requests = m.requests

LEMMA ThrownHolds ==
  ASSUME NEW m, Consistent(m), NEW x \in Thrown(m)
  PROVE  /\ Consistent(x) /\ Full(x) /\ SameOrders(m, x) /\ x.tracks = m.tracks
         /\ Consistent(Halted(x)) /\ Full(Halted(x)) /\ SameOrders(m, Halted(x))
         /\ Halted(x).tracks = m.tracks /\ x.failures = m.failures + 1
         /\ Halted(x).failures = m.failures + 1
<1>1. x = [m EXCEPT !.failures = m.failures + 1, !.threw = TRUE]
  BY DEF Thrown
<1> DEFINE h == Halted(x)
<1>2. /\ IsMemory(x) /\ x.acct = m.acct /\ x.requests = m.requests
      /\ x.killSwitch = m.killSwitch /\ x.auto = m.auto /\ x.failures = m.failures + 1
      /\ x.tracks = m.tracks
  BY <1>1 DEF Consistent, IsMemory
<1>3. h = [x EXCEPT !.killSwitch = TRUE, !.auto = FALSE]
  BY DEF Halted
<1> HIDE DEF h
<1>4. /\ IsMemory(h) /\ h.acct = m.acct /\ h.requests = m.requests
      /\ h.killSwitch = TRUE /\ h.auto = FALSE /\ h.failures = m.failures + 1
      /\ h.tracks = m.tracks
  BY <1>2, <1>3 DEF IsMemory
<1>5. /\ Sound(m.acct) /\ m.failures \in Nat /\ m.killSwitch \in BOOLEAN /\ m.auto \in BOOLEAN
      /\ OnePending(m.requests) /\ OrdersApproved(m.acct.orders, m.requests)
  BY DEF Consistent
<1>6. m.failures + 1 # 0 /\ m.failures + 1 \in Nat
  BY <1>5
<1>7. TracksKept(m.acct.orders, m.tracks, FALSE)
  BY DEF Consistent, TracksKept
<1>8. TracksKept(m.acct.orders, m.tracks, m.failures + 1 = 0)
  BY <1>6, <1>7
<1>9. Consistent(x) /\ Full(x)
  BY <1>2, <1>5, <1>6, <1>8 DEF Consistent, Full
<1>10. Consistent(h) /\ Full(h)
  BY <1>4, <1>5, <1>6, <1>8 DEF Consistent, Full
<1> QED
  BY <1>2, <1>4, <1>9, <1>10 DEF SameOrders, h

LEMMA CapturedIs ==
  ASSUME NEW a, Sound(a), NEW known, NEW clean, TracksKept(a.orders, known, clean)
  PROVE  LET all == Captured(a.orders, known)
         IN /\ TracksKept(a.orders, all, clean)
            /\ \A i \in DOMAIN a.orders : /\ Track(all, i).created
                                          /\ Track(all, i).seen = a.orders[i].events
<1> DEFINE all == Captured(a.orders, known)
<1>1. /\ DOMAIN all = DOMAIN a.orders
      /\ \A i \in DOMAIN a.orders : Track(all, i) = Recorded(a.orders, known, i)
  BY DEF Captured, Track
<1> HIDE DEF all
<1>2. ASSUME NEW i \in DOMAIN a.orders
      PROVE  /\ TrackKept(Track(all, i), a.orders[i].events)
             /\ Track(all, i).created /\ Track(all, i).seen = a.orders[i].events
             /\ clean => InOrder(Track(all, i))
  <2>1. a.orders[i].events \in Nat /\ TrackKept(Track(known, i), a.orders[i].events)
    BY SoundOrders DEF TracksKept
  <2>2. clean => InOrder(Track(known, i))
    BY DEF TracksKept
  <2> QED
    BY <1>1, <2>1, <2>2, RecordedIs
<1> QED
  BY <1>1, <1>2 DEF TracksKept, all

LEMMA CaptureFailsIs ==
  ASSUME NEW a, Sound(a), NEW known, TracksKept(a.orders, known, FALSE),
         NEW cut \in CaptureFails(a.orders, known)
  PROVE  TracksKept(a.orders, cut, FALSE)
<1> DEFINE Lengths(j) == {k \in 0..Len(Due(a.orders, known, j)) : k < Len(Due(a.orders, known, j))}
           Cut(j, n) == [i \in DOMAIN a.orders |->
                           IF i < j THEN Recorded(a.orders, known, i)
                           ELSE IF i = j THEN CutShort(a.orders, known, i, n)
                           ELSE Track(known, i)]
<1>1. PICK j \in DOMAIN a.orders : \E n \in Lengths(j) : cut = Cut(j, n)
  BY DEF CaptureFails
<1>2. PICK n \in Lengths(j) : cut = Cut(j, n)
  BY <1>1
<1>3. n \in 0..Len(Due(a.orders, known, j))
  BY <1>2
<1>4. /\ DOMAIN cut = DOMAIN a.orders
      /\ \A i \in DOMAIN a.orders :
           Track(cut, i) = IF i < j THEN Recorded(a.orders, known, i)
                           ELSE IF i = j THEN CutShort(a.orders, known, i, n)
                           ELSE Track(known, i)
  BY <1>2 DEF Track
<1>5. ASSUME NEW i \in DOMAIN a.orders PROVE TrackKept(Track(cut, i), a.orders[i].events)
  <2>1. a.orders[i].events \in Nat /\ TrackKept(Track(known, i), a.orders[i].events)
    BY SoundOrders DEF TracksKept
  <2>2. TrackKept(Recorded(a.orders, known, i), a.orders[i].events)
    BY <2>1, RecordedIs
  <2>3. i = j => TrackKept(CutShort(a.orders, known, i, n), a.orders[i].events)
    BY <1>3, <2>1, CutShortIs
  <2> QED
    BY <1>4, <2>1, <2>2, <2>3
<1> QED
  BY <1>4, <1>5 DEF TracksKept

(* captureExecutionJournal() leaves everything recorded, or an append      *)
(* failed.                                                                 *)
LEMMA CaptureHolds ==
  ASSUME NEW m, Consistent(m), NEW x \in Capture(m)
  PROVE  Consistent(x) /\ Full(x) /\ SameOrders(m, x)
<1> DEFINE a == m.acct
           all == Captured(a.orders, m.tracks)
<1>1. /\ Sound(a) /\ TracksKept(a.orders, m.tracks, m.failures = 0)
      /\ TracksKept(a.orders, m.tracks, FALSE)
  BY DEF Consistent, TracksKept
<1>2. CASE x = [m EXCEPT !.tracks = all]
  <2>1. /\ IsMemory(x) /\ x.acct = a /\ x.requests = m.requests /\ x.killSwitch = m.killSwitch
        /\ x.auto = m.auto /\ x.failures = m.failures /\ x.tracks = all
    BY <1>2 DEF Consistent, IsMemory
  <2>2. /\ TracksKept(a.orders, all, m.failures = 0)
        /\ \A i \in DOMAIN a.orders : /\ Track(all, i).created
                                      /\ Track(all, i).seen = a.orders[i].events
    BY <1>1, CapturedIs
  <2> HIDE DEF all
  <2>3. Full(x)
    BY <2>1, <2>2 DEF Full
  <2>4. Consistent(x)
    BY <2>1, <2>2 DEF Consistent
  <2> QED
    BY <2>1, <2>3, <2>4 DEF SameOrders
<1>3. CASE \E t \in Thrown(m), cut \in CaptureFails(a.orders, m.tracks) :
             x = [Halted(t) EXCEPT !.tracks = cut]
  <2>1. PICK t \in Thrown(m), cut \in CaptureFails(a.orders, m.tracks) :
          x = [Halted(t) EXCEPT !.tracks = cut]
    BY <1>3
  <2> DEFINE h == Halted(t)
  <2>2. Consistent(h) /\ SameOrders(m, h) /\ h.failures = m.failures + 1
    BY ThrownHolds
  <2>3. TracksKept(a.orders, cut, FALSE)
    BY <1>1, CaptureFailsIs
  <2> HIDE DEF h
  <2>4. /\ IsMemory(x) /\ x.acct = a /\ x.requests = m.requests /\ x.killSwitch = h.killSwitch
        /\ x.auto = h.auto /\ x.failures = m.failures + 1 /\ x.tracks = cut
    BY <2>1, <2>2 DEF Consistent, IsMemory, SameOrders, h
  <2>5. m.failures + 1 # 0
    BY DEF Consistent
  <2>6. TracksKept(a.orders, cut, x.failures = 0)
    BY <2>3, <2>4, <2>5
  <2>7. Consistent(x)
    BY <2>2, <2>4, <2>6 DEF Consistent, SameOrders
  <2>8. Full(x)
    BY <2>4, <2>5 DEF Full
  <2> QED
    BY <2>4, <2>7, <2>8 DEF SameOrders
<1> QED
  BY <1>2, <1>3 DEF Capture

(***************************************************************************)
(* Orders and requests.                                                    *)
(***************************************************************************)
LEMMA SubmitOrderHolds ==
  ASSUME NEW m, Consistent(m), NEW mkt \in Snapshot, NEW request \in Request,
         request.type = "MARKET" => request.limit = 0,
         request.approval # 0 =>
           /\ request.approval \in DOMAIN m.requests
           /\ m.requests[request.approval] = "APPROVED"
           /\ \A i \in DOMAIN m.acct.orders : m.acct.orders[i].approval # request.approval,
         NEW x \in SubmitOrder(m, mkt, request)
  PROVE  Consistent(x) /\ Full(x) /\ Later(m.acct.orders, x.acct.orders)
<1>1. PICK loss \in LossOutcomes :
        x \in Capture([m EXCEPT !.acct = Submit(m.acct, request, mkt, m.killSwitch, loss)])
  <2>1. IsMemory(m)
    BY DEF Consistent
  <2>2. \A b : [m EXCEPT !.acct = b].killSwitch = m.killSwitch
    BY <2>1 DEF IsMemory
  <2> QED
    BY DEF SubmitOrder
<1> DEFINE a == m.acct
           b == Submit(a, request, mkt, m.killSwitch, loss)
           n == Len(a.orders)
<1>2. Sound(a) /\ loss \in BOOLEAN /\ m.killSwitch \in BOOLEAN
  BY RuntimeAssumption DEF Consistent
<1>3. Sound(b) /\ Submitted(a, b, request)
  BY <1>2, SubmitHolds
<1> HIDE DEF b
<1>4. n \in Nat /\ DOMAIN a.orders = 1..n /\ \A i \in 1..n : a.orders[i].events \in Nat
  BY <1>2, SoundOrders
<1>5. DOMAIN b.orders = 1..(n + 1) /\ \A j \in 1..n : b.orders[j] = a.orders[j]
  <2>1. DOMAIN b.orders = 1..Len(b.orders)
    BY <1>3, SoundOrders
  <2> QED
    BY <1>3, <2>1 DEF Submitted
<1>6. b.orders[n + 1].approval = request.approval
  BY <1>3 DEF Submitted
<1>7. OrdersGrow(a.orders, b.orders)
  <2> HIDE DEF n, a
  <2>1. \A i \in 1..n : i \in 1..(n + 1) /\ b.orders[i].events >= a.orders[i].events
    BY <1>4, <1>5
  <2> QED
    BY <1>4, <1>5, <2>1 DEF OrdersGrow
<1>8. OrdersApproved(b.orders, m.requests)
  <2>1. OrdersApproved(a.orders, m.requests)
    BY DEF Consistent
  <2>2. request.approval # 0 =>
          /\ request.approval \in DOMAIN m.requests
          /\ m.requests[request.approval] = "APPROVED"
          /\ \A i \in DOMAIN a.orders : a.orders[i].approval # request.approval
    OBVIOUS
  <2> HIDE DEF n, a
  <2>3. ASSUME NEW i \in 1..(n + 1), b.orders[i].approval # 0
        PROVE  /\ b.orders[i].approval \in DOMAIN m.requests
               /\ m.requests[b.orders[i].approval] = "APPROVED"
    <3>1. CASE i = n + 1
      BY <1>6, <2>2, <2>3, <3>1
    <3>2. CASE i # n + 1
      <4>1. i \in 1..n
        BY <1>4, <3>2
      <4> QED
        BY <1>4, <1>5, <2>1, <2>3, <4>1 DEF OrdersApproved
    <3> QED
      BY <3>1, <3>2
  <2>4. ASSUME NEW i \in 1..(n + 1), NEW j \in 1..(n + 1), b.orders[i].approval # 0,
               b.orders[i].approval = b.orders[j].approval
        PROVE  i = j
    <3>1. CASE i \in 1..n /\ j \in 1..n
      BY <1>4, <1>5, <2>1, <2>4, <3>1 DEF OrdersApproved
    <3>2. CASE i \in 1..n /\ j = n + 1
      BY <1>4, <1>5, <1>6, <2>2, <2>4, <3>2
    <3>3. CASE i = n + 1 /\ j \in 1..n
      BY <1>4, <1>5, <1>6, <2>2, <2>4, <3>3
    <3> QED
      BY <1>4, <3>1, <3>2, <3>3
  <2> QED
    BY <1>5, <2>3, <2>4 DEF OrdersApproved
<1>9. LET y == [m EXCEPT !.acct = b] IN Consistent(y) /\ y.acct = b
  BY <1>3, <1>7, <1>8, AccountChanged
<1>10. x \in Capture([m EXCEPT !.acct = b])
  BY <1>1 DEF b
<1>11. Consistent(x) /\ Full(x) /\ x.acct = b
  BY <1>9, <1>10, CaptureHolds DEF SameOrders
<1>12. Later(a.orders, b.orders)
  <2> HIDE DEF n, a
  <2> QED
    BY <1>4, <1>5 DEF Later
<1> QED
  BY <1>11, <1>12

(* The requests change; one waits, and what was approved stays approved.   *)
LEMMA RequestsChanged ==
  ASSUME NEW m, Consistent(m), NEW asked, OnePending(asked),
         DOMAIN m.requests \subseteq DOMAIN asked,
         \A i \in DOMAIN m.requests : m.requests[i] = "APPROVED" => asked[i] = "APPROVED"
  PROVE  LET x == [m EXCEPT !.requests = asked]
         IN /\ Consistent(x) /\ (Full(m) => Full(x)) /\ x.acct = m.acct /\ x.requests = asked
<1> DEFINE x == [m EXCEPT !.requests = asked]
<1>1. /\ IsMemory(x) /\ x.acct = m.acct /\ x.requests = asked /\ x.killSwitch = m.killSwitch
      /\ x.failures = m.failures /\ x.tracks = m.tracks /\ x.auto = m.auto
  BY DEF Consistent, IsMemory
<1> HIDE DEF x
<1>2. OrdersApproved(m.acct.orders, asked)
  BY DEF OrdersApproved, Consistent
<1>3. Consistent(x)
  BY <1>1, <1>2 DEF Consistent
<1>4. Full(m) => Full(x)
  BY <1>1 DEF Full
<1> QED
  BY <1>1, <1>3, <1>4 DEF x

LEMMA RecordApprovalHolds ==
  ASSUME NEW m, Consistent(m), NEW x \in RecordApproval(m)
  PROVE  Consistent(x) /\ (Full(m) => Full(x)) /\ SameOrders(m, x)
<1>1. CASE x = m
  BY <1>1 DEF SameOrders
<1>2. CASE x \in Thrown(m)
  BY <1>2, ThrownHolds
<1> QED
  BY <1>1, <1>2 DEF RecordApproval

LEMMA Decided ==
  ASSUME NEW m, Consistent(m), NEW i \in DOMAIN m.requests, m.requests[i] = "PENDING",
         NEW status \in RequestStatuses \ {"PENDING"}
  PROVE  LET x == [m EXCEPT !.requests[i] = status]
         IN /\ Consistent(x) /\ (Full(m) => Full(x)) /\ x.acct = m.acct
            /\ DOMAIN x.requests = DOMAIN m.requests /\ x.requests[i] = status
<1> DEFINE asked == [m.requests EXCEPT ![i] = status]
<1>1. OnePending(m.requests)
  BY DEF Consistent
<1>2. /\ asked \in Seq(RequestStatuses) /\ DOMAIN asked = DOMAIN m.requests
      /\ asked[i] = status /\ \A j \in DOMAIN m.requests : j # i => asked[j] = m.requests[j]
  BY <1>1 DEF OnePending
<1> HIDE DEF asked
<1>3. OnePending(asked)
  BY <1>1, <1>2 DEF OnePending
<1>4. \A j \in DOMAIN m.requests : m.requests[j] = "APPROVED" => asked[j] = "APPROVED"
  BY <1>2
<1>5. LET x == [m EXCEPT !.requests = asked]
      IN Consistent(x) /\ (Full(m) => Full(x)) /\ x.acct = m.acct /\ x.requests = asked
  BY <1>2, <1>3, <1>4, RequestsChanged
<1> QED
  BY <1>2, <1>5 DEF asked

LEMMA ExpireHolds ==
  ASSUME NEW m, Consistent(m), NEW x \in Expire(m)
  PROVE  /\ Consistent(x) /\ (Full(m) => Full(x)) /\ x.acct = m.acct
         /\ DOMAIN x.requests = DOMAIN m.requests
<1>1. CASE x = m
  BY <1>1
<1>2. CASE x # m
  <2>1. PICK i \in PendingRequests(m) : x \in RecordApproval([m EXCEPT !.requests[i] = "EXPIRED"])
    BY <1>2 DEF Expire
  <2>2. i \in DOMAIN m.requests /\ m.requests[i] = "PENDING"
    BY DEF PendingRequests
  <2> DEFINE y == [m EXCEPT !.requests[i] = "EXPIRED"]
  <2>3. "EXPIRED" \in RequestStatuses \ {"PENDING"}
    BY DEF RequestStatuses
  <2>4. /\ Consistent(y) /\ (Full(m) => Full(y)) /\ y.acct = m.acct
        /\ DOMAIN y.requests = DOMAIN m.requests
    BY <2>2, <2>3, Decided
  <2>5. x \in RecordApproval(y)
    BY <2>1
  <2> HIDE DEF y
  <2> QED
    BY <2>4, <2>5, RecordApprovalHolds DEF SameOrders
<1> QED
  BY <1>1, <1>2

LEMMA RequestApprovalHolds ==
  ASSUME NEW m, Consistent(m), NEW x \in RequestApproval(m)
  PROVE  Consistent(x) /\ (Full(m) => Full(x)) /\ x.acct = m.acct
<1>1. CASE PendingRequests(m) # {}
  BY <1>1 DEF RequestApproval
<1>2. CASE PendingRequests(m) = {}
  <2> DEFINE asked == Append(m.requests, "PENDING")
             y == [m EXCEPT !.requests = asked]
  <2>1. x \in RecordApproval(y)
    BY <1>2 DEF RequestApproval
  <2>2. OnePending(m.requests)
    BY DEF Consistent
  <2>3. /\ asked \in Seq(RequestStatuses) /\ DOMAIN m.requests \subseteq DOMAIN asked
        /\ DOMAIN asked = 1..(Len(m.requests) + 1) /\ DOMAIN m.requests = 1..Len(m.requests)
        /\ Len(m.requests) \in Nat
        /\ \A i \in DOMAIN m.requests : asked[i] = m.requests[i]
    BY <2>2 DEF OnePending, RequestStatuses
  <2> HIDE DEF asked
  <2>4. \A i \in DOMAIN m.requests : asked[i] # "PENDING"
    BY <1>2, <2>3 DEF PendingRequests
  <2>5. OnePending(asked)
    BY <2>3, <2>4 DEF OnePending
  <2>6. Consistent(y) /\ (Full(m) => Full(y)) /\ y.acct = m.acct
    BY <2>3, <2>5, RequestsChanged
  <2> HIDE DEF y
  <2> QED
    BY <2>1, <2>6, RecordApprovalHolds DEF SameOrders
<1> QED
  BY <1>1, <1>2

(***************************************************************************)
(* First come, first served.  What a walk leaves of the book has nothing   *)
(* for an order whose limit is no better, unless the walk filled its own.  *)
(***************************************************************************)
Dry(o, levels) == \A k \in DOMAIN levels : k <= Reach(o, levels) => levels[k].size = 0

NoWorse(older, younger) ==
  /\ older.type = "LIMIT" /\ younger.type = "LIMIT"
  /\ older.side = younger.side
  /\ IF older.side = "BUY" THEN older.limit >= younger.limit ELSE older.limit <= younger.limit

LEMMA LevelsLeftIs ==
  ASSUME NEW o \in Order, NEW p \in Order, NEW levels \in Levels
  PROVE  LET left == LevelsLeft(levels, Taken(o, levels))
         IN /\ left \in Levels /\ DOMAIN left = DOMAIN levels
            /\ \A k \in DOMAIN levels : left[k].size = levels[k].size - Taken(o, levels)[k]
            /\ Reach(p, left) = Reach(p, levels)
<1> DEFINE t == Taken(o, levels)
           left == LevelsLeft(levels, t)
<1>1. left \in Levels
  BY LevelsLeftTyped
<1>2. DOMAIN left = DOMAIN levels
  BY DEF LevelsLeft
<1>3. \A k \in DOMAIN levels : levels[k] \in BookLevel
  BY DEF Levels
<1>4. ASSUME NEW k \in DOMAIN levels
      PROVE  left[k].size = levels[k].size - t[k] /\ left[k].price = levels[k].price
  <2>1. left[k] = [levels[k] EXCEPT !.size = levels[k].size - t[k]]
    BY DEF LevelsLeft
  <2> HIDE DEF left, t
  <2> QED
    BY <1>3, <2>1 DEF BookLevel
<1>5. ASSUME NEW n \in DOMAIN levels
      PROVE  (\A k \in 1..n : Executable(p, left[k])) <=> (\A k \in 1..n : Executable(p, levels[k]))
  <2>1. ASSUME NEW k \in 1..n PROVE left[k].price = levels[k].price
    <3>1. k \in DOMAIN levels
      BY LevelsTyped
    <3> HIDE DEF left
    <3> QED
      BY <1>4, <3>1
  <2> HIDE DEF left
  <2> QED
    BY <2>1 DEF Executable, Priced
<1> HIDE DEF left
<1>6. {n \in DOMAIN left : \A k \in 1..n : Executable(p, left[k])}
        = {n \in DOMAIN levels : \A k \in 1..n : Executable(p, levels[k])}
  BY <1>2, <1>5
<1>7. Reach(p, left) = Reach(p, levels)
  BY <1>6 DEF Reach
<1> QED
  BY <1>1, <1>2, <1>4, <1>7 DEF left, t

LEMMA DryStays ==
  ASSUME NEW o \in Order, NEW p \in Order, NEW levels \in Levels, Dry(p, levels)
  PROVE  Dry(p, LevelsLeft(levels, Taken(o, levels)))
<1> DEFINE t == Taken(o, levels)
           left == LevelsLeft(levels, t)
<1>1. /\ DOMAIN left = DOMAIN levels /\ Reach(p, left) = Reach(p, levels)
      /\ \A k \in DOMAIN levels : left[k].size = levels[k].size - t[k]
  BY LevelsLeftIs
<1>2. \A k \in DOMAIN levels : t[k] \in Int /\ 0 <= t[k] /\ t[k] <= levels[k].size
  <2>1. o.remaining \in Nat /\ DOMAIN levels = 1..Len(levels)
    BY OrderFields, LevelsTyped
  <2>2. t \in [1..Len(levels) -> Int]
        /\ \A k \in 1..Len(levels) : 0 <= t[k] /\ t[k] <= levels[k].size
    BY <2>1, TakenIs
  <2> HIDE DEF t
  <2> QED
    BY <2>1, <2>2
<1> HIDE DEF t, left
<1> SUFFICES ASSUME NEW k \in DOMAIN levels, k <= Reach(p, levels)
             PROVE  left[k].size = 0
  BY <1>1 DEF Dry, left, t
<1>3. levels[k].size = 0
  BY DEF Dry
<1> QED
  BY <1>1, <1>2, <1>3

LEMMA DryAfter ==
  ASSUME NEW o \in Order, NEW levels \in Levels, SumFunction(Taken(o, levels)) # o.remaining
  PROVE  Dry(o, LevelsLeft(levels, Taken(o, levels)))
<1> DEFINE t == Taken(o, levels)
           R == Reach(o, levels)
           left == LevelsLeft(levels, t)
           D(k) == Depth(levels, k)
<1>1. /\ o.remaining \in Nat /\ R \in 0..Len(levels) /\ Len(levels) \in Nat
      /\ DOMAIN levels = 1..Len(levels)
  BY OrderFields, ReachIs, LevelsTyped
<1>2. D(R) \in Nat /\ D(R) < o.remaining
  <2>1. D(R) \in Nat
    BY <1>1, DepthIs
  <2>2. SumFunction(t) = Least(o.remaining, D(R))
    BY <1>1, TakenIs
  <2> QED
    BY <1>1, <2>1, <2>2 DEF Least
<1>3. ASSUME NEW k \in 1..Len(levels), k <= R PROVE t[k] = levels[k].size
  <2>1. k \in 0..Len(levels) /\ R \in k..Len(levels) /\ k - 1 \in 0..Len(levels)
    BY <1>1, <1>3
  <2>2. D(k) <= D(R)
    BY <2>1, DepthGrows
  <2>3. D(k) = D(k - 1) + levels[k].size /\ D(k - 1) \in Nat /\ levels[k].size \in Nat
    BY <2>1, DepthIs, LevelsTyped
  <2>4. t[k] = IF k > R \/ o.remaining <= D(k - 1) THEN 0
               ELSE Least(levels[k].size, o.remaining - D(k - 1))
    BY <1>1, TakenAt
  <2> HIDE DEF t, D, R
  <2>5. ~(k > R) /\ ~(o.remaining <= D(k - 1)) /\ levels[k].size <= o.remaining - D(k - 1)
    BY <1>1, <1>2, <1>3, <2>2, <2>3
  <2> QED
    BY <2>4, <2>5 DEF Least
<1>4. /\ DOMAIN left = DOMAIN levels /\ Reach(o, left) = R
      /\ \A k \in DOMAIN levels : left[k].size = levels[k].size - t[k]
  BY LevelsLeftIs
<1>5. ASSUME NEW k \in DOMAIN levels, k <= R PROVE left[k].size = 0
  <2>1. levels[k].size \in Nat
    BY <1>1, LevelsTyped
  <2>2. t[k] = levels[k].size /\ left[k].size = levels[k].size - t[k]
    BY <1>1, <1>3, <1>4, <1>5
  <2> HIDE DEF t, left
  <2> QED
    BY <2>1, <2>2
<1> HIDE DEF left, R
<1>6. Dry(o, left)
  BY <1>4, <1>5 DEF Dry
<1> QED
  BY <1>6 DEF left

LEMMA DryStarves ==
  ASSUME NEW o \in Order, NEW p \in Order, NEW levels \in Levels, Dry(o, levels), NoWorse(o, p)
  PROVE  SumFunction(Taken(p, levels)) = 0
<1> DEFINE t == Taken(p, levels)
           n == Len(levels)
           R == Reach(p, levels)
           T == Reach(o, levels)
<1>1. /\ n \in Nat /\ DOMAIN levels = 1..n /\ R \in 0..n /\ T \in 0..n
      /\ \A k \in 1..R : Executable(p, levels[k])
      /\ T < n => ~Executable(o, levels[T + 1])
      /\ \A k \in 1..n : levels[k].price \in Int
  BY ReachIs, LevelsTyped
<1>2. R <= T
  <2> SUFFICES ASSUME R > T PROVE FALSE
    BY <1>1
  <2>1. T + 1 \in 1..R /\ T < n /\ T + 1 \in 1..n
    BY <1>1
  <2>2. Executable(p, levels[T + 1]) /\ ~Executable(o, levels[T + 1]) /\ levels[T + 1].price \in Int
    BY <1>1, <2>1
  <2>3. o.side \in {"BUY", "SELL"} /\ o.limit \in Int /\ p.limit \in Int
    BY OrderFields
  <2> HIDE DEF T
  <2> QED
    BY <2>2, <2>3 DEF Executable, NoWorse
<1>3. /\ t \in [1..n -> Int]
      /\ \A k \in 1..n : 0 <= t[k] /\ t[k] <= levels[k].size /\ (k > R => t[k] = 0)
  BY OrderFields, TakenIs
<1>4. \A k \in 1..n : k <= T => levels[k].size = 0
  BY <1>1 DEF Dry
<1> HIDE DEF t, n, R, T
<1>5. ASSUME NEW k \in 1..n PROVE t[k] = 0
  <2>1. t[k] \in Int /\ 0 <= t[k] /\ t[k] <= levels[k].size
    BY <1>3
  <2>2. CASE k > R
    BY <1>3, <2>2
  <2>3. CASE ~(k > R)
    <3>1. levels[k].size = 0
      BY <1>1, <1>2, <1>4, <2>3
    <3> QED
      BY <2>1, <3>1
  <2> QED
    BY <2>2, <2>3
<1>6. t = [k \in 1..n |-> 0]
  BY <1>3, <1>5
<1> QED
  BY <1>1, <1>6, ZeroSum DEF t

(* An order that was ahead of another is filled before it.                 *)
Fair(old, new) ==
  \A j \in DOMAIN old : \A i \in 1..(j - 1) :
    /\ old[i].open /\ old[j].open
    /\ NoWorse(old[i], old[j])
    /\ j \in DOMAIN new
    /\ new[j].filled > old[j].filled
    => new[i].remaining = 0

(* The fold over the open orders, when the first k have met the book.      *)
Served(orders, s, k) ==
  /\ s.acct \in Account /\ Len(s.acct.orders) = Len(orders) /\ s.book \in Snapshot
  /\ \A i \in (k + 1)..Len(orders) : s.acct.orders[i] = orders[i]
  /\ \A i \in 1..k : orders[i].open =>
       s.acct.orders[i].remaining = 0 \/ Dry(orders[i], s.book[Opposing(orders[i].side)])
  /\ \A j \in 1..k : \A i \in 1..(j - 1) :
       /\ orders[i].open /\ orders[j].open /\ NoWorse(orders[i], orders[j])
       /\ s.acct.orders[j].filled > orders[j].filled
       => s.acct.orders[i].remaining = 0

LEMMA ServedNext ==
  ASSUME NEW orders \in Seq(Order), NEW s, NEW k \in 1..Len(orders), NEW loss \in BOOLEAN,
         Served(orders, s, k - 1)
  PROVE  Served(orders, MatchStep(s, k, loss), k)
<1> DEFINE n == Len(orders)
           c == s.acct
           o == orders[k]
           x == MatchStep(s, k, loss)
<1>1. n \in Nat /\ DOMAIN orders = 1..n /\ k \in 1..n /\ \A i \in 1..n : orders[i] \in Order
  BY OrdersTyped
<1>2. /\ c \in Account /\ Len(c.orders) = n /\ s.book \in Snapshot /\ c.orders[k] = o
      /\ \A i \in (k + 1)..n : c.orders[i] = orders[i]
      /\ \A i \in 1..(k - 1) : orders[i].open =>
           c.orders[i].remaining = 0 \/ Dry(orders[i], s.book[Opposing(orders[i].side)])
      /\ \A j \in 1..(k - 1) : \A i \in 1..(j - 1) :
           /\ orders[i].open /\ orders[j].open /\ NoWorse(orders[i], orders[j])
           /\ c.orders[j].filled > orders[j].filled
           => c.orders[i].remaining = 0
  BY <1>1 DEF Served
<1>3. CASE ~o.open
  <2>1. x = s
    BY <1>2, <1>3 DEF MatchStep
  <2>2. \A i \in 1..k : i # k => i \in 1..(k - 1)
    BY <1>1
  <2>3. \A i \in 1..k : orders[i].open =>
          c.orders[i].remaining = 0 \/ Dry(orders[i], s.book[Opposing(orders[i].side)])
    BY <1>2, <1>3, <2>2
  <2>4. \A j \in 1..k : \A i \in 1..(j - 1) :
           /\ orders[i].open /\ orders[j].open /\ NoWorse(orders[i], orders[j])
           /\ c.orders[j].filled > orders[j].filled
           => c.orders[i].remaining = 0
    BY <1>2, <1>3, <2>2
  <2> HIDE DEF x
  <2>5. Served(orders, x, k)
    BY <1>2, <2>1, <2>3, <2>4 DEF Served
  <2> QED
    BY <2>5 DEF x
<1>4. CASE o.open
  <2> DEFINE side == Opposing(o.side)
             levels == s.book[side]
             left == LevelsLeft(levels, Taken(o, levels))
             d == Match(c, k, levels, loss)
             q == SumFunction(Taken(o, levels))
             p == d.orders[k]
             book == [s.book EXCEPT ![side] = left]
  <2>1. x.acct = d /\ x.book = book
    BY <1>2, <1>4 DEF MatchStep
  <2>2. side \in {"asks", "bids"} /\ levels \in Levels
    BY <1>2 DEF Opposing, Snapshot
  <2>3. c.orders \in Seq(Order) /\ o \in Order
    BY <1>1, <1>2 DEF Account
  <2>4. /\ d \in Account /\ d.orders = [c.orders EXCEPT ![k] = p]
        /\ p \in Order /\ p.filled = o.filled + q /\ p.remaining = o.remaining - q
    <3>1. k \in 1..Len(c.orders)
      BY <1>1, <1>2
    <3> HIDE DEF levels, c
    <3>2. /\ d \in Account
          /\ MatchedBy(c, d, k, SumFunction(Taken(c.orders[k], levels)),
                       SumFunction(Values(c.orders[k], levels)),
                       SumFunction(Fees(c.orders[k], levels)))
      BY <1>2, <2>2, <3>1, MatchIs
    <3> HIDE DEF d, p
    <3> QED
      BY <1>2, <3>2 DEF MatchedBy, FilledBy, p
  <2>5. q \in Nat /\ q <= o.remaining
    BY <2>2, <2>3, WalkSums
  <2>6. left \in Levels
    BY <2>2, <2>3, LevelsLeftTyped
  <2> HIDE DEF d, p, x, left
  <2>7. /\ Len(d.orders) = n /\ d.orders[k] = p
        /\ \A i \in 1..n : i # k => d.orders[i] = c.orders[i]
    BY <1>1, <1>2, <2>3, <2>4, OrdersTyped
  <2>8. book \in Snapshot /\ book[side] = left /\ \A l \in {"asks", "bids"} : l # side => book[l] = s.book[l]
    BY <1>2, <2>2, <2>6 DEF Snapshot
  <2>9. \A i \in (k + 1)..n : d.orders[i] = orders[i]
    BY <1>1, <1>2, <2>7
  <2> HIDE DEF c, side, levels, book, q
  <2>10. ASSUME NEW i \in 1..k, orders[i].open
         PROVE  d.orders[i].remaining = 0 \/ Dry(orders[i], book[Opposing(orders[i].side)])
    <3>1. CASE i = k
      <4>1. CASE q = o.remaining
        <5>1. o.remaining \in Nat
          BY <2>3, OrderFields
        <5> QED
          BY <2>4, <2>5, <2>7, <3>1, <4>1, <5>1
      <4>2. CASE q # o.remaining
        <5>1. Dry(o, left)
          BY <2>2, <2>3, <4>2, DryAfter DEF q, left
        <5> QED
          BY <2>8, <3>1, <5>1 DEF side
      <4> QED
        BY <4>1, <4>2
    <3>2. CASE i # k
      <4>1. i \in 1..(k - 1) /\ i \in 1..n /\ orders[i] \in Order
        BY <1>1, <3>2
      <4>2. d.orders[i] = c.orders[i]
        BY <2>7, <3>2, <4>1
      <4>3. CASE c.orders[i].remaining = 0
        BY <4>2, <4>3
      <4>4. CASE Dry(orders[i], s.book[Opposing(orders[i].side)])
        <5>1. CASE Opposing(orders[i].side) = side
          <6>1. Dry(orders[i], levels)
            BY <4>4, <5>1 DEF levels
          <6>2. Dry(orders[i], left)
            BY <2>2, <2>3, <4>1, <6>1, DryStays DEF left
          <6> QED
            BY <2>8, <5>1, <6>2
        <5>2. CASE Opposing(orders[i].side) # side
          <6>1. Opposing(orders[i].side) \in {"asks", "bids"}
            BY DEF Opposing
          <6> QED
            BY <2>8, <4>4, <5>2, <6>1
        <5> QED
          BY <5>1, <5>2
      <4> QED
        BY <1>2, <2>10, <4>1, <4>3, <4>4
    <3> QED
      BY <3>1, <3>2
  <2>11. ASSUME NEW j \in 1..k, NEW i \in 1..(j - 1), orders[i].open, orders[j].open,
                NoWorse(orders[i], orders[j]), d.orders[j].filled > orders[j].filled
         PROVE  d.orders[i].remaining = 0
    <3>1. i \in 1..(k - 1) /\ i \in 1..n /\ i # k /\ orders[i] \in Order
      BY <1>1
    <3>2. d.orders[i] = c.orders[i]
      BY <2>7, <3>1
    <3>3. CASE j = k
      <4>1. q # 0
        <5>1. o.filled \in Nat
          BY <2>3, OrderFields
        <5> QED
          BY <2>4, <2>7, <2>11, <3>3, <5>1
      <4>2. ASSUME Dry(orders[i], s.book[Opposing(orders[i].side)]) PROVE FALSE
        <5>1. orders[i].side = o.side /\ NoWorse(orders[i], o)
          BY <2>11, <3>3 DEF NoWorse
        <5>2. Dry(orders[i], levels)
          BY <4>2, <5>1 DEF levels, side
        <5>3. q = 0
          BY <2>2, <2>3, <3>1, <5>1, <5>2, DryStarves DEF q
        <5> QED
          BY <4>1, <5>3
      <4> QED
        BY <1>2, <2>11, <3>1, <3>2, <4>2
    <3>4. CASE j # k
      <4>1. j \in 1..(k - 1) /\ j \in 1..n
        BY <1>1, <3>4
      <4>2. d.orders[j] = c.orders[j]
        BY <2>7, <3>4, <4>1
      <4> QED
        BY <1>2, <2>11, <3>2, <4>1, <4>2
    <3> QED
      BY <3>3, <3>4
  <2>12. Served(orders, x, k)
    BY <2>1, <2>4, <2>7, <2>8, <2>9, <2>10, <2>11 DEF Served
  <2> QED
    BY <2>12 DEF x
<1> QED
  BY <1>3, <1>4

LEMMA MatchOpenFair ==
  ASSUME NEW a, Sound(a), NEW mkt \in Snapshot, NEW loss \in BOOLEAN
  PROVE  Fair(a.orders, MatchOpen(a, mkt, loss).orders)
<1> DEFINE n == Len(a.orders)
           base == [acct |-> a, book |-> mkt]
<1>1. n \in Nat /\ DOMAIN a.orders = 1..n /\ a \in Account /\ a.orders \in Seq(Order)
  <2>1. a.orders \in Seq(Order) /\ a \in Account
    BY DEF Account, Sound
  <2> QED
    BY <2>1, OrdersTyped
<1>2. PICK g : MatchFold(g, n, base, loss) /\ MatchOpen(a, mkt, loss) = g[1..n].acct
  BY <1>1, MatchOpenIs
<1>3. g[1..0] = base /\ \A k \in 1..n : g[1..k] = MatchStep(g[1..(k - 1)], k, loss)
  <2> HIDE DEF n, base
  <2> QED
    BY <1>1, <1>2, MatchFoldStep
<1>4. Served(a.orders, base, 0)
  BY <1>1 DEF Served
<1> HIDE DEF base
<1> DEFINE Bad == {k \in 0..n : ~Served(a.orders, g[1..k], k)}
<1>5. n \notin Bad
  <2> SUFFICES ASSUME Bad # {} PROVE FALSE
    BY <1>1
  <2>1. PICK m \in Bad : \A k \in Bad : m <= k
    <3>1. Bad \in SUBSET Nat
      BY <1>1
    <3> HIDE DEF Bad
    <3> QED
      BY <3>1, LeastOf
  <2>2. m # 0
    BY <1>3, <1>4, <2>1
  <2>3. m \in 1..n /\ m - 1 \in 0..n /\ m - 1 \notin Bad
    BY <1>1, <2>1, <2>2
  <2>4. Served(a.orders, g[1..(m - 1)], m - 1)
    BY <2>3
  <2>5. Served(a.orders, g[1..m], m)
    BY <1>1, <1>3, <2>3, <2>4, ServedNext
  <2> QED
    BY <2>1, <2>5
<1>6. Served(a.orders, g[1..n], n)
  BY <1>1, <1>5
<1> QED
  BY <1>1, <1>2, <1>6 DEF Served, Fair

(***************************************************************************)
(* The strategy.                                                           *)
(***************************************************************************)
LEMMA OpenNat ==
  ASSUME NEW orders \in Seq(Order), NEW side \in Sides
  PROVE  OpenQuantity(orders, side) \in Int /\ OpenQuantity(orders, side) >= 0
<1> DEFINE A == OpenOn(side)
           f == [i \in DOMAIN orders |-> A[orders[i]]]
           n == Len(orders)
<1>1. n \in Nat /\ DOMAIN orders = 1..n /\ \A i \in 1..n : orders[i] \in Order
  BY OrdersTyped
<1>2. ASSUME NEW o \in Order PROVE A[o] \in Nat
  BY AmountsAre, OrderFields
<1>3. f \in [1..n -> Int] /\ \A i \in 1..n : f[i] >= 0
  <2> HIDE DEF A
  <2> QED
    BY <1>1, <1>2
<1>4. OpenQuantity(orders, side) = SumFunction(f)
  BY TotalsAre DEF SumOf
<1> HIDE DEF f, n
<1> QED
  BY <1>1, <1>3, <1>4, SumType, SumLeast

LEMMA PositionNat ==
  ASSUME NEW a, Sound(a)
  PROVE  a.position \in Nat
<1>1. a \in Account /\ a.position \in Int /\ a.orders \in Seq(Order)
  BY DEF Sound, Account
<1>2. "SELL" \in Sides
  BY DEF Sides
<1>3. OpenQuantity(a.orders, "SELL") \in Int /\ OpenQuantity(a.orders, "SELL") >= 0
  BY <1>1, <1>2, OpenNat
<1>4. OpenQuantity(a.orders, "SELL") <= a.position
  BY DEF Sound, Holds, SharesReserved
<1> QED
  BY <1>1, <1>3, <1>4

LEMMA CancelledKeeps ==
  ASSUME NEW o \in Order
  PROVE  LET p == Cancelled(o)
         IN p.filled = o.filled /\ (p.remaining = o.remaining \/ p.remaining = 0)
BY DEF Cancelled, Order

LEMMA OpenOrdersCancelledHolds ==
  ASSUME NEW m, Consistent(m)
  PROVE  LET x == OpenOrdersCancelled(m)
         IN /\ Consistent(x) /\ x.acct.position = m.acct.position /\ x.requests = m.requests
            /\ Later(m.acct.orders, x.acct.orders)
<1> DEFINE a == m.acct
           new == [i \in DOMAIN a.orders |-> Cancelled(a.orders[i])]
           b == [a EXCEPT !.orders = new]
           x == [m EXCEPT !.acct = b]
<1>1. OpenOrdersCancelled(m) = x
  <2>1. IsMemory(m)
    BY DEF Consistent
  <2> QED
    BY <2>1 DEF OpenOrdersCancelled, IsMemory
<1>2. Sound(a) /\ a \in Account /\ Holds(a) /\ OrdersApproved(a.orders, m.requests)
  BY DEF Consistent, Sound
<1>3. /\ a.orders \in Seq(Order) /\ Len(a.orders) \in Nat /\ DOMAIN a.orders = 1..Len(a.orders)
      /\ \A i \in DOMAIN a.orders : a.orders[i] \in Order
  BY <1>2, SoundOrders
<1>4. \A i \in DOMAIN a.orders : /\ Cancelled(a.orders[i]) \in Order
                                 /\ ClosedFrom(a.orders[i], Cancelled(a.orders[i]))
                                 /\ ~Cancelled(a.orders[i]).open
  BY <1>3, CancelledIs
<1>5. /\ new \in Seq(Order) /\ DOMAIN new = DOMAIN a.orders
      /\ \A i \in DOMAIN a.orders : ClosedFrom(a.orders[i], new[i]) /\ ~new[i].open
  BY <1>3, <1>4
<1>12. \A i \in DOMAIN a.orders : /\ new[i].filled = a.orders[i].filled
                                  /\ \/ new[i].remaining = a.orders[i].remaining
                                     \/ new[i].remaining = 0
  BY <1>3, CancelledKeeps
<1> HIDE DEF new
<1>6. b.orders = new /\ b.position = a.position
  BY <1>2 DEF Account
<1>7. b \in Account /\ Holds(b)
  BY <1>2, <1>5, CloseAll DEF ClosedOrders
<1> HIDE DEF b, a
<1>8. Sound(b)
  BY <1>5, <1>6, <1>7 DEF Sound, Resting
<1>9. OrdersGrow(a.orders, b.orders) /\ OrdersApproved(b.orders, m.requests)
  <2>1. \A i \in DOMAIN a.orders : /\ new[i].approval = a.orders[i].approval
                                   /\ new[i].events >= a.orders[i].events
    BY <1>5 DEF ClosedFrom, SameOrder
  <2> QED
    BY <1>2, <1>5, <1>6, <2>1 DEF OrdersGrow, OrdersApproved
<1>10. /\ Consistent(x) /\ x.acct = b /\ x.requests = m.requests
  BY <1>8, <1>9, AccountChanged DEF a
<1>11. Later(a.orders, b.orders)
  BY <1>5, <1>6, <1>12 DEF Later
<1> QED
  BY <1>1, <1>6, <1>10, <1>11 DEF a

LEMMA EntryRequest ==
  ASSUME NEW id \in Nat
  PROVE  LET request == StrategyOrder("BUY", EntryQuantity, id)
         IN request \in Request /\ request.limit = 0 /\ request.approval = id
<1>1. EntryQuantity \in Nat \ {0}
  BY RuntimeAssumption, TraderAssumption
<1> QED
  BY <1>1 DEF StrategyOrder, Request, Sides

LEMMA EnterHolds ==
  ASSUME NEW m, Consistent(m), NEW mkt \in Snapshot, NEW x \in Enter(m, mkt)
  PROVE  Consistent(x) /\ (Full(m) => Full(x)) /\ Later(m.acct.orders, x.acct.orders)
<1>1. CASE x \in RequestApproval(m)
  BY <1>1, RequestApprovalHolds, LaterNone
<1>2. CASE x \in SubmitOrder(m, mkt, StrategyOrder("BUY", EntryQuantity, 0))
  <2> DEFINE request == StrategyOrder("BUY", EntryQuantity, 0)
  <2>1. request \in Request /\ request.limit = 0 /\ request.approval = 0
    BY EntryRequest
  <2>2. x \in SubmitOrder(m, mkt, request)
    BY <1>2
  <2> HIDE DEF request
  <2> QED
    BY <2>1, <2>2, SubmitOrderHolds
<1>3. x \in RequestApproval(m) \cup SubmitOrder(m, mkt, StrategyOrder("BUY", EntryQuantity, 0))
  <2>1. m.acct.position = 0
    BY DEF Enter
  <2> QED
    BY <2>1, Zenon DEF Enter
<1>4. x \in RequestApproval(m) \/ x \in SubmitOrder(m, mkt, StrategyOrder("BUY", EntryQuantity, 0))
  BY <1>3, Zenon
<1> QED
  BY <1>1, <1>2, <1>4, Zenon

LEMMA ExitHolds ==
  ASSUME NEW m, Consistent(m), NEW mkt \in Snapshot, NEW x \in Exit(m, mkt)
  PROVE  Consistent(x) /\ Full(x) /\ Later(m.acct.orders, x.acct.orders)
<1> DEFINE y == OpenOrdersCancelled(m)
<1>1. m.acct.position # 0
  BY DEF Exit
<1>2. Consistent(y) /\ y.acct.position = m.acct.position /\ Later(m.acct.orders, y.acct.orders)
  BY OpenOrdersCancelledHolds
<1>3. PICK c \in Capture(y) :
        IF c.threw THEN x = c
        ELSE x \in SubmitOrder(c, mkt, StrategyOrder("SELL", c.acct.position, 0))
  BY <1>1 DEF Exit, Then
<1> HIDE DEF y
<1>4. Consistent(c) /\ Full(c) /\ SameOrders(y, c)
  BY <1>2, CaptureHolds
<1>7. c.acct = y.acct
  BY <1>4 DEF SameOrders
<1>5. CASE c.threw
  BY <1>2, <1>3, <1>4, <1>5, <1>7
<1>6. CASE ~c.threw
  <2> DEFINE request == StrategyOrder("SELL", c.acct.position, 0)
  <2>1. c.acct.position \in Nat
    <3>1. Sound(c.acct)
      BY <1>4 DEF Consistent
    <3> QED
      BY <3>1, PositionNat
  <2>2. c.acct.position # 0
    BY <1>1, <1>2, <1>4 DEF SameOrders
  <2>3. request \in Request /\ request.limit = 0 /\ request.approval = 0
    BY <2>1, <2>2 DEF StrategyOrder, Request, Sides
  <2>4. x \in SubmitOrder(c, mkt, request)
    BY <1>3, <1>6
  <2> HIDE DEF request
  <2>5. Consistent(x) /\ Full(x) /\ Later(c.acct.orders, x.acct.orders)
    BY <1>4, <2>3, <2>4, SubmitOrderHolds
  <2> QED
    BY <1>2, <1>7, <2>5, LaterAgain
<1> QED
  BY <1>5, <1>6

LEMMA RunStrategyHolds ==
  ASSUME NEW m, Consistent(m), NEW mkt \in Snapshot, NEW x \in RunStrategy(m, mkt)
  PROVE  Consistent(x) /\ (Full(m) => Full(x)) /\ Later(m.acct.orders, x.acct.orders)
<1>1. CASE ~m.auto \/ m.killSwitch
  BY <1>1, LaterNone DEF RunStrategy
<1>2. CASE ~(~m.auto \/ m.killSwitch)
  <2>1. PICK e \in Expire(m) : IF e.threw THEN x = e ELSE x \in {e} \cup Enter(e, mkt) \cup Exit(e, mkt)
    BY <1>2 DEF RunStrategy, Then
  <2>2. Consistent(e) /\ (Full(m) => Full(e)) /\ e.acct = m.acct
    BY ExpireHolds
  <2>3. CASE x = e
    BY <2>2, <2>3, LaterNone
  <2>4. CASE x \in Enter(e, mkt)
    BY <2>2, <2>4, EnterHolds
  <2>5. CASE x \in Exit(e, mkt)
    BY <2>2, <2>5, ExitHolds
  <2> QED
    BY <2>1, <2>3, <2>4, <2>5
<1> QED
  BY <1>1, <1>2

(***************************************************************************)
(* The handlers, each started in the memory the last one left.             *)
(***************************************************************************)
LEMMA ApproveHolds ==
  ASSUME NEW m, Consistent(m), market \in Snapshot, NEW i \in DOMAIN m.requests,
         NEW x \in Approve(m, i)
  PROVE  Consistent(x) /\ (Full(m) => Full(x)) /\ Later(m.acct.orders, x.acct.orders)
<1>1. CASE m.requests[i] # "PENDING"
  BY <1>1, LaterNone DEF Approve
<1>2. CASE m.requests[i] = "PENDING"
  <2> DEFINE y == [m EXCEPT !.requests[i] = "APPROVED"]
             request == StrategyOrder("BUY", EntryQuantity, i)
  <2>1. PICK r \in RecordApproval(y) : IF r.threw THEN x = r ELSE x \in SubmitOrder(r, market, request)
    BY <1>2 DEF Approve, Then
  <2>2. /\ Consistent(y) /\ (Full(m) => Full(y)) /\ y.acct = m.acct
        /\ DOMAIN y.requests = DOMAIN m.requests /\ y.requests[i] = "APPROVED"
    <3>1. "APPROVED" \in RequestStatuses \ {"PENDING"}
      BY DEF RequestStatuses
    <3> QED
      BY <1>2, <3>1, Decided
  <2> HIDE DEF y
  <2>3. Consistent(r) /\ (Full(y) => Full(r)) /\ SameOrders(y, r)
    BY <2>2, RecordApprovalHolds
  <2>4. r.acct = m.acct /\ i \in DOMAIN r.requests /\ r.requests[i] = "APPROVED"
    BY <2>2, <2>3 DEF SameOrders
  <2>5. CASE r.threw
    BY <2>1, <2>2, <2>3, <2>4, <2>5, LaterNone
  <2>6. CASE ~r.threw
    <3>1. i \in Nat
      BY DEF Consistent, OnePending
    <3>2. request \in Request /\ request.limit = 0 /\ request.approval = i
      BY <3>1, EntryRequest
    <3>3. \A j \in DOMAIN m.acct.orders : m.acct.orders[j].approval # i
      <4>1. OrdersApproved(m.acct.orders, m.requests) /\ i # 0
        BY DEF Consistent, OnePending
      <4> QED
        BY <1>2, <4>1 DEF OrdersApproved
    <3>4. x \in SubmitOrder(r, market, request)
      BY <2>1, <2>6
    <3> HIDE DEF request
    <3> QED
      BY <2>3, <2>4, <3>2, <3>3, <3>4, SubmitOrderHolds
  <2> QED
    BY <2>5, <2>6
<1> QED
  BY <1>1, <1>2

LEMMA RejectHolds ==
  ASSUME NEW m, Consistent(m), NEW i \in DOMAIN m.requests, NEW x \in Reject(m, i)
  PROVE  Consistent(x) /\ (Full(m) => Full(x)) /\ x.acct = m.acct
<1>1. CASE m.requests[i] # "PENDING"
  BY <1>1 DEF Reject
<1>2. CASE m.requests[i] = "PENDING"
  <2> DEFINE y == [m EXCEPT !.requests[i] = "REJECTED"]
  <2>1. x \in RecordApproval(y)
    BY <1>2 DEF Reject
  <2>2. Consistent(y) /\ (Full(m) => Full(y)) /\ y.acct = m.acct
    <3>1. "REJECTED" \in RequestStatuses \ {"PENDING"}
      BY DEF RequestStatuses
    <3> QED
      BY <1>2, <3>1, Decided
  <2> HIDE DEF y
  <2> QED
    BY <2>1, <2>2, RecordApprovalHolds DEF SameOrders
<1> QED
  BY <1>1, <1>2

LEMMA MatchedHolds ==
  ASSUME Consistent(Memory), NEW mkt \in Snapshot, NEW x \in Matched(mkt)
  PROVE  /\ Consistent(x) /\ DOMAIN x.acct.orders = DOMAIN Memory.acct.orders
         /\ Fair(Memory.acct.orders, x.acct.orders)
<1>1. PICK loss \in LossOutcomes : x = [Memory EXCEPT !.acct = MatchOpen(@, mkt, loss)]
  BY DEF Matched
<1> DEFINE b == MatchOpen(Memory.acct, mkt, loss)
<1>2. x = [Memory EXCEPT !.acct = b]
  BY <1>1
<1>3. loss \in BOOLEAN /\ Sound(Memory.acct)
  BY RuntimeAssumption DEF Consistent
<1>4. /\ Sound(b) /\ OrdersGo(Memory.acct.orders, b.orders)
      /\ Fair(Memory.acct.orders, b.orders)
  BY <1>3, MatchOpenHolds, MatchOpenFair
<1> HIDE DEF b
<1>5. OrdersApproved(Memory.acct.orders, Memory.requests)
  BY DEF Consistent
<1> DEFINE old == Memory.acct.orders
           asked == Memory.requests
<1>6. DOMAIN old = 1..Len(old) /\ DOMAIN b.orders = 1..Len(old)
  <2>1. DOMAIN old = 1..Len(old) /\ DOMAIN b.orders = 1..Len(b.orders)
    BY <1>3, <1>4, SoundOrders
  <2> QED
    BY <1>4, <2>1 DEF OrdersGo
<1>7. OrdersGrow(old, b.orders) /\ OrdersApproved(b.orders, asked)
  <2> HIDE DEF old, asked
  <2>1. OrdersApproved(old, asked) /\ OrdersGo(old, b.orders)
    BY <1>4, <1>5 DEF old, asked
  <2> QED
    BY <1>6, <2>1 DEF OrdersGrow, OrdersGo, OrdersApproved
<1> HIDE DEF Memory
<1>8. Consistent(x) /\ x.acct = b
  BY <1>2, <1>4, <1>7, AccountChanged
<1> QED
  BY <1>4, <1>6, <1>8

LEMMA CancelledHolds ==
  ASSUME NEW m, Consistent(m), NEW i \in DOMAIN m.acct.orders, m.acct.orders[i].open
  PROVE  LET x == [m EXCEPT !.acct = Cancel(@, i)]
         IN Consistent(x) /\ Later(m.acct.orders, x.acct.orders)
<1> DEFINE a == m.acct
           o == a.orders[i]
           p == Cancelled(o)
           new == [a.orders EXCEPT ![i] = p]
           b == [a EXCEPT !.orders = new]
<1>1. Sound(a) /\ a \in Account /\ Holds(a) /\ OrdersApproved(a.orders, m.requests)
  BY DEF Consistent, Sound
<1>2. [m EXCEPT !.acct = Cancel(@, i)] = [m EXCEPT !.acct = b]
  BY DEF Cancel, Consistent, IsMemory
<1>3. /\ a.orders \in Seq(Order) /\ DOMAIN a.orders = 1..Len(a.orders) /\ Len(a.orders) \in Nat
      /\ \A j \in DOMAIN a.orders : a.orders[j] \in Order
  BY <1>1, SoundOrders
<1>4. /\ p \in Order /\ ClosedFrom(o, p) /\ ~p.open
      /\ p.filled = o.filled /\ (p.remaining = o.remaining \/ p.remaining = 0)
  BY <1>3, CancelledIs, CancelledKeeps
<1>5. \A j \in DOMAIN a.orders : ClosedFrom(a.orders[j], a.orders[j])
  BY <1>3, OrderFields DEF ClosedFrom, SameOrder
<1> HIDE DEF p
<1>6. new \in Seq(Order) /\ DOMAIN new = DOMAIN a.orders
  BY <1>3, <1>4
<1>7. \A j \in DOMAIN a.orders : IF j = i THEN new[j] = p ELSE new[j] = a.orders[j]
  BY <1>3
<1> HIDE DEF new
<1>8. ClosedOrders(a.orders, new)
  BY <1>4, <1>5, <1>6, <1>7 DEF ClosedOrders
<1>9. b.orders = new
  BY <1>1 DEF Account
<1>10. b \in Account /\ Holds(b)
  BY <1>1, <1>6, <1>8, CloseAll
<1> HIDE DEF b
<1>11. Resting(new)
  BY <1>1, <1>4, <1>6, <1>7 DEF Sound, Resting
<1>12. Sound(b)
  BY <1>9, <1>10, <1>11 DEF Sound
<1>13. OrdersGrow(a.orders, b.orders) /\ OrdersApproved(b.orders, m.requests)
  <2>1. \A j \in DOMAIN a.orders : /\ new[j].approval = a.orders[j].approval
                                   /\ new[j].events >= a.orders[j].events
    BY <1>8 DEF ClosedOrders, ClosedFrom, SameOrder
  <2> QED
    BY <1>1, <1>6, <1>9, <2>1 DEF OrdersGrow, OrdersApproved
<1>14. LET x == [m EXCEPT !.acct = b] IN Consistent(x) /\ x.acct = b
  BY <1>12, <1>13, AccountChanged DEF a
<1>15. Later(a.orders, b.orders)
  BY <1>4, <1>6, <1>7, <1>9 DEF Later
<1> QED
  BY <1>2, <1>14, <1>15 DEF b

LEMMA EmptyHolds ==
  Sound(EmptyAccount) /\ EmptyAccount.orders = <<>>
<1> DEFINE a == EmptyAccount
<1>1. /\ a \in Account /\ a.orders = <<>> /\ a.cash = InitialCash /\ a.fees = 0 /\ a.position = 0
      /\ InitialCash \in Nat /\ MaxPosition \in Nat
  BY TraderAssumption DEF EmptyAccount, Account
<1> HIDE DEF a
<1>2. ASSUME NEW A PROVE SumOf(<<>>, A) = 0
  <2>1. [i \in DOMAIN <<>> |-> A[(<<>>)[i]]] \in [1..0 -> Int]
    OBVIOUS
  <2> QED
    BY <2>1, SumNone DEF SumOf
<1>3. <<>> \in Seq(Order) /\ "BUY" \in Sides /\ "SELL" \in Sides
  BY DEF Sides
<1>4. /\ \A side \in Sides : /\ Filled(<<>>, side) = 0
                             /\ Worth(<<>>, side) = 0
                             /\ OpenQuantity(<<>>, side) = 0
      /\ ReservedCash(<<>>) = 0 /\ Slipped(<<>>) = 0
  BY <1>2, <1>3, TotalsAre, Zenon
<1>5. AccountBalances(a)
  BY <1>1, <1>3, <1>4 DEF AccountBalances
<1>6. SharesReserved(a) /\ CashReserved(a) /\ PositionCapped(a)
  BY <1>1, <1>3, <1>4 DEF SharesReserved, CashReserved, PositionCapped
<1>7. Resting(a.orders)
  BY <1>1 DEF Resting
<1> QED
  BY <1>1, <1>5, <1>6, <1>7 DEF Sound, Holds, a

(***************************************************************************)
(* The inductive invariant.                                                *)
(***************************************************************************)
RuntimeInv ==
  /\ Consistent(Memory)
  /\ timer => Full(Memory)
  /\ market \in Markets

(* What a handler does to the orders is fair to the older ones.            *)
FairTo(m) == Fair(acct.orders, m.acct.orders)
FairStep == Fair(acct.orders, acct'.orders)

LEMMA LaterIsFair ==
  ASSUME NEW a, Sound(a), NEW new, Later(a.orders, new)
  PROVE  Fair(a.orders, new)
<1> SUFFICES ASSUME NEW j \in DOMAIN a.orders, NEW i \in 1..(j - 1),
                    j \in DOMAIN new, new[j].filled > a.orders[j].filled
             PROVE  FALSE
  BY DEF Fair
<1>1. a.orders[j].filled \in Nat
  BY SoundOrders, OrderFields
<1>2. new[j].filled = a.orders[j].filled
  BY DEF Later
<1> QED
  BY <1>1, <1>2

LEMMA FairLater ==
  ASSUME NEW a, Sound(a), NEW mid, NEW new, DOMAIN mid = DOMAIN a.orders,
         Fair(a.orders, mid), Later(mid, new)
  PROVE  Fair(a.orders, new)
<1> DEFINE old == a.orders
<1>1. DOMAIN old = 1..Len(old) /\ Len(old) \in Nat
  BY SoundOrders
<1> HIDE DEF old
<1> SUFFICES ASSUME NEW j \in DOMAIN old, NEW i \in 1..(j - 1),
                    old[i].open, old[j].open, NoWorse(old[i], old[j]),
                    j \in DOMAIN new, new[j].filled > old[j].filled
             PROVE  new[i].remaining = 0
  BY DEF Fair, old
<1>2. i \in DOMAIN mid /\ j \in DOMAIN mid
  BY <1>1 DEF old
<1>3. mid[j].filled > old[j].filled
  BY <1>2 DEF Later
<1>4. mid[i].remaining = 0
  BY <1>2, <1>3 DEF Fair, old
<1> QED
  BY <1>2, <1>4 DEF Later

LEMMA SameIsFair ==
  ASSUME Consistent(Memory), NEW m, m.acct = Memory.acct
  PROVE  FairTo(m)
<1>1. Sound(acct) /\ m.acct = acct
  BY DEF Consistent, Memory
<1> QED
  BY <1>1, LaterNone, LaterIsFair DEF FairTo

LEMMA LaterMemory ==
  ASSUME Consistent(Memory), NEW m, Later(Memory.acct.orders, m.acct.orders)
  PROVE  FairTo(m)
<1>1. Sound(acct) /\ Memory.acct = acct
  BY DEF Consistent, Memory
<1> QED
  BY <1>1, LaterIsFair DEF FairTo

LEMMA MarketsAre ==
  Markets \subseteq Snapshot
BY RuntimeAssumption DEF Snapshot, Levels

LEMMA KeptHolds ==
  ASSUME NEW m, Consistent(m), Keep(m)
  PROVE  /\ Consistent(Memory') /\ (Full(m) => Full(Memory'))
         /\ FairTo(m) => FairStep
<1> DEFINE x == Memory'
<1>1. /\ x.acct = m.acct /\ x.tracks = m.tracks /\ x.requests = m.requests
      /\ x.killSwitch = m.killSwitch /\ x.auto = m.auto /\ x.failures = m.failures
  BY DEF Keep, Memory
<1>2. IsMemory(x)
  BY DEF IsMemory, Memory
<1> HIDE DEF x
<1>3. Consistent(x)
  BY <1>1, <1>2 DEF Consistent
<1>4. Full(m) => Full(x)
  BY <1>1 DEF Full
<1>5. FairTo(m) => FairStep
  BY DEF Keep, FairTo, FairStep
<1> QED
  BY <1>3, <1>4, <1>5 DEF x

LEMMA FreshHolds ==
  ASSUME NEW m, IsMemory(m), m.acct = EmptyAccount, m.tracks = <<>>,
         m.killSwitch \in BOOLEAN, m.auto \in BOOLEAN, m.failures \in Nat, OnePending(m.requests)
  PROVE  Consistent(m) /\ Full(m)
<1>1. Sound(m.acct) /\ m.acct.orders = <<>>
  BY EmptyHolds
<1>2. TracksKept(m.acct.orders, m.tracks, m.failures = 0)
  BY <1>1 DEF TracksKept
<1>3. OrdersApproved(m.acct.orders, m.requests)
  BY <1>1 DEF OrdersApproved
<1>4. Full(m)
  BY <1>1 DEF Full
<1> QED
  BY <1>1, <1>2, <1>3, <1>4 DEF Consistent

LEMMA RuntimeInit ==
  Init => RuntimeInv
<1> SUFFICES ASSUME Init PROVE RuntimeInv
  OBVIOUS
<1> DEFINE m == Memory
<1>1. /\ IsMemory(m) /\ m.acct = EmptyAccount /\ m.tracks = <<>> /\ m.requests = <<>>
      /\ m.killSwitch \in BOOLEAN /\ m.auto \in BOOLEAN /\ m.failures \in Nat
  BY DEF Init, Memory, IsMemory
<1>2. market \in Markets
  BY DEF Init
<1> HIDE DEF m
<1>3. OnePending(m.requests)
  BY <1>1 DEF OnePending
<1>4. Consistent(m) /\ Full(m)
  BY <1>1, <1>3, FreshHolds
<1> QED
  BY <1>2, <1>4 DEF RuntimeInv, m

LEMMA ServedHolds ==
  ASSUME RuntimeInv, NEW memories, Serve(memories),
         \A m \in memories : Consistent(m) /\ (Full(Memory) => Full(m)) /\ FairTo(m)
  PROVE  RuntimeInv' /\ FairStep
<1>1. PICK m \in memories : Keep(m)
  BY DEF Serve
<1>2. market' = market /\ timer' = timer
  BY DEF Serve
<1>3. Consistent(m) /\ (Full(Memory) => Full(m)) /\ FairTo(m)
  BY <1>1
<1>4. Consistent(Memory') /\ (Full(m) => Full(Memory')) /\ FairStep
  BY <1>1, <1>3, KeptHolds
<1> QED
  BY <1>2, <1>3, <1>4 DEF RuntimeInv

(* The memory once the open orders have met the book of a tick.            *)
MatchedFairly(t) ==
  Consistent(t) /\ DOMAIN t.acct.orders = DOMAIN acct.orders /\ FairTo(t)

LEMMA MatchedIsFair ==
  ASSUME RuntimeInv, NEW mkt \in Snapshot, NEW t \in Matched(mkt)
  PROVE  MatchedFairly(t)
<1>1. Memory.acct = acct
  BY DEF Memory
<1>2. /\ Consistent(t) /\ DOMAIN t.acct.orders = DOMAIN Memory.acct.orders
      /\ Fair(Memory.acct.orders, t.acct.orders)
  BY MatchedHolds DEF RuntimeInv
<1> QED
  BY <1>1, <1>2 DEF MatchedFairly, FairTo

LEMMA StrategyIsFair ==
  ASSUME RuntimeInv, NEW t, MatchedFairly(t), NEW m, Later(t.acct.orders, m.acct.orders)
  PROVE  FairTo(m)
<1>1. Sound(acct)
  BY DEF RuntimeInv, Consistent, Memory
<1> QED
  BY <1>1, FairLater DEF MatchedFairly, FairTo

LEMMA TickHolds ==
  ASSUME RuntimeInv, Tick
  PROVE  RuntimeInv' /\ FairStep
<1> DEFINE mkt == market'
<1>1. mkt \in Markets /\ mkt \in Snapshot
  BY MarketsAre DEF Tick
<1>2. PICK m \in Then(UNION {Capture(t) : t \in Matched(mkt)}, LAMBDA c : RunStrategy(c, mkt)) :
        Keep(m)
  BY DEF Tick
<1> HIDE DEF mkt
<1>3. PICK t \in Matched(mkt) : \E c \in Capture(t) :
        IF c.threw THEN m = c ELSE m \in RunStrategy(c, mkt)
  BY <1>2 DEF Then
<1>4. PICK c \in Capture(t) : IF c.threw THEN m = c ELSE m \in RunStrategy(c, mkt)
  BY <1>3
<1>5. MatchedFairly(t)
  BY <1>1, MatchedIsFair
<1>6. Consistent(c) /\ Full(c) /\ MatchedFairly(c)
  <2>1. Consistent(c) /\ Full(c) /\ SameOrders(t, c)
    BY <1>5, CaptureHolds DEF MatchedFairly
  <2> QED
    BY <1>5, <2>1 DEF MatchedFairly, SameOrders, FairTo
<1>7. Consistent(m) /\ Full(m) /\ Later(c.acct.orders, m.acct.orders)
  BY <1>1, <1>4, <1>6, RunStrategyHolds, LaterNone
<1>8. FairTo(m)
  BY <1>6, <1>7, StrategyIsFair
<1>9. Consistent(Memory') /\ Full(Memory') /\ FairStep
  BY <1>2, <1>7, <1>8, KeptHolds
<1> QED
  BY <1>1, <1>9 DEF RuntimeInv, mkt

LEMMA VerificationTickHolds ==
  ASSUME RuntimeInv, VerificationTick
  PROVE  RuntimeInv' /\ FairStep
<1> DEFINE mkt == market'
<1>1. mkt \in Markets /\ mkt \in Snapshot /\ ~timer'
  BY MarketsAre DEF VerificationTick
<1>2. PICK m \in Then(Matched(mkt), LAMBDA c : RunStrategy(c, mkt)) : Keep(m)
  BY DEF VerificationTick
<1> HIDE DEF mkt
<1>3. PICK t \in Matched(mkt) : IF t.threw THEN m = t ELSE m \in RunStrategy(t, mkt)
  BY <1>2 DEF Then
<1>4. Consistent(t) /\ MatchedFairly(t)
  BY <1>1, MatchedIsFair DEF MatchedFairly
<1>5. Consistent(m) /\ Later(t.acct.orders, m.acct.orders)
  BY <1>1, <1>3, <1>4, RunStrategyHolds, LaterNone
<1>6. Consistent(Memory') /\ FairStep
  BY <1>2, <1>4, <1>5, StrategyIsFair, KeptHolds
<1> QED
  BY <1>1, <1>6 DEF RuntimeInv, mkt

LEMMA ManualOrderHolds ==
  ASSUME RuntimeInv, NEW u \in UserOrders, ManualOrder(u)
  PROVE  RuntimeInv' /\ FairStep
<1> DEFINE request == [side |-> u.side, type |-> u.type, limit |-> u.limit,
                       quantity |-> u.quantity, source |-> "MANUAL", approval |-> 0]
<1>1. /\ request \in Request /\ request.approval = 0
      /\ request.type = "MARKET" => request.limit = 0
  BY RuntimeAssumption DEF Request
<1>2. Serve(SubmitOrder(Memory, market, request))
  BY DEF ManualOrder
<1> HIDE DEF request
<1>3. Consistent(Memory) /\ market \in Snapshot
  BY MarketsAre DEF RuntimeInv
<1>4. \A m \in SubmitOrder(Memory, market, request) : Consistent(m) /\ Full(m) /\ FairTo(m)
  BY <1>1, <1>3, SubmitOrderHolds, LaterMemory
<1> QED
  BY <1>2, <1>4, ServedHolds

LEMMA CancelOrderHolds ==
  ASSUME RuntimeInv, NEW i, CancelOrder(i)
  PROVE  RuntimeInv' /\ FairStep
<1> DEFINE y == [Memory EXCEPT !.acct = Cancel(@, i)]
<1>1. i \in DOMAIN Memory.acct.orders /\ Memory.acct.orders[i].open /\ Serve(Capture(y))
  BY DEF CancelOrder, Memory
<1>2. Consistent(Memory)
  BY DEF RuntimeInv
<1>3. Consistent(y) /\ FairTo(y)
  <2>1. Consistent(y) /\ Later(Memory.acct.orders, y.acct.orders)
    <3> HIDE DEF Memory
    <3> QED
      BY <1>1, <1>2, CancelledHolds
  <2> QED
    BY <1>2, <2>1, LaterMemory
<1> HIDE DEF y
<1>4. \A m \in Capture(y) : Consistent(m) /\ Full(m) /\ FairTo(m)
  BY <1>3, CaptureHolds DEF SameOrders, FairTo
<1> QED
  BY <1>1, <1>4, ServedHolds

LEMMA ReplayHolds ==
  ASSUME RuntimeInv, Replay
  PROVE  RuntimeInv' /\ FairStep
<1>1. Serve(Capture(Memory)) /\ Consistent(Memory)
  BY DEF Replay, RuntimeInv
<1>2. \A m \in Capture(Memory) : Consistent(m) /\ Full(m) /\ FairTo(m)
  BY <1>1, CaptureHolds, SameIsFair DEF SameOrders
<1> QED
  BY <1>1, <1>2, ServedHolds

LEMMA ApproveOrderHolds ==
  ASSUME RuntimeInv, NEW i, ApproveOrder(i)
  PROVE  RuntimeInv' /\ FairStep
<1> DEFINE memories == Then(Expire(Memory), LAMBDA m : Approve(m, i))
<1>1. Serve(memories) /\ i \in DOMAIN Memory.requests
  BY DEF ApproveOrder, Memory
<1>2. Consistent(Memory) /\ market \in Snapshot
  BY MarketsAre DEF RuntimeInv
<1>3. ASSUME NEW m \in memories PROVE Consistent(m) /\ (Full(Memory) => Full(m)) /\ FairTo(m)
  <2>1. PICK e \in Expire(Memory) : IF e.threw THEN m = e ELSE m \in Approve(e, i)
    BY DEF Then
  <2>2. /\ Consistent(e) /\ (Full(Memory) => Full(e)) /\ i \in DOMAIN e.requests
        /\ e.acct = Memory.acct
    BY <1>1, <1>2, ExpireHolds
  <2>3. CASE e.threw
    BY <1>2, <2>1, <2>2, <2>3, SameIsFair
  <2>4. CASE ~e.threw
    <3>1. m \in Approve(e, i)
      BY <2>1, <2>4
    <3>2. Consistent(m) /\ (Full(e) => Full(m)) /\ Later(e.acct.orders, m.acct.orders)
      BY <1>2, <2>2, <3>1, ApproveHolds
    <3> QED
      BY <1>2, <2>2, <3>2, LaterMemory
  <2> QED
    BY <2>3, <2>4
<1> HIDE DEF memories
<1> QED
  BY <1>1, <1>3, ServedHolds

LEMMA RejectOrderHolds ==
  ASSUME RuntimeInv, NEW i, RejectOrder(i)
  PROVE  RuntimeInv' /\ FairStep
<1> DEFINE memories == Then(Expire(Memory), LAMBDA m : Reject(m, i))
<1>1. Serve(memories) /\ i \in DOMAIN Memory.requests
  BY DEF RejectOrder, Memory
<1>2. Consistent(Memory) /\ market \in Snapshot
  BY MarketsAre DEF RuntimeInv
<1>3. ASSUME NEW m \in memories PROVE Consistent(m) /\ (Full(Memory) => Full(m)) /\ FairTo(m)
  <2>1. PICK e \in Expire(Memory) : IF e.threw THEN m = e ELSE m \in Reject(e, i)
    BY DEF Then
  <2>2. /\ Consistent(e) /\ (Full(Memory) => Full(e)) /\ i \in DOMAIN e.requests
        /\ e.acct = Memory.acct
    BY <1>1, <1>2, ExpireHolds
  <2>3. CASE e.threw
    BY <1>2, <2>1, <2>2, <2>3, SameIsFair
  <2>4. CASE ~e.threw
    <3>1. m \in Reject(e, i)
      BY <2>1, <2>4
    <3>2. Consistent(m) /\ (Full(e) => Full(m)) /\ m.acct = e.acct
      BY <1>2, <2>2, <3>1, RejectHolds
    <3> QED
      BY <1>2, <2>2, <3>2, SameIsFair
  <2> QED
    BY <2>3, <2>4
<1> HIDE DEF memories
<1> QED
  BY <1>1, <1>3, ServedHolds

LEMMA SwitchesHold ==
  ASSUME RuntimeInv, NEW enabled \in BOOLEAN,
         SetKillSwitch(enabled) \/ SetAutoPaperTrading(enabled)
  PROVE  RuntimeInv' /\ FairStep
<1>1. PICK m : /\ Keep(m) /\ UNCHANGED <<market, timer>>
               /\ \/ m = [Memory EXCEPT !.killSwitch = enabled,
                                        !.auto = Memory.auto /\ ~enabled]
                  \/ m = [Memory EXCEPT !.auto = enabled /\ ~killSwitch]
  BY DEF SetKillSwitch, SetAutoPaperTrading, Serve
<1>2. /\ IsMemory(m) /\ m.acct = Memory.acct /\ m.tracks = Memory.tracks
      /\ m.requests = Memory.requests /\ m.failures = Memory.failures
  BY <1>1 DEF Memory, IsMemory
<1>3. m.killSwitch \in BOOLEAN /\ m.auto \in BOOLEAN
  <2>1. Memory.killSwitch \in BOOLEAN /\ Memory.auto \in BOOLEAN
    BY DEF RuntimeInv, Consistent
  <2>2. \/ m.killSwitch = enabled /\ m.auto = (Memory.auto /\ ~enabled)
        \/ m.killSwitch = Memory.killSwitch /\ m.auto = (enabled /\ ~killSwitch)
    BY <1>1 DEF Memory
  <2> QED
    BY <2>1, <2>2
<1>4. Consistent(m)
  BY <1>2, <1>3 DEF RuntimeInv, Consistent
<1>5. Full(Memory) => Full(m)
  BY <1>2 DEF Full
<1>6. Consistent(Memory') /\ (Full(m) => Full(Memory')) /\ FairStep
  BY <1>1, <1>2, <1>4, KeptHolds, SameIsFair DEF RuntimeInv
<1> QED
  BY <1>1, <1>5, <1>6 DEF RuntimeInv

LEMMA ResetHolds ==
  ASSUME RuntimeInv, ResetPaperAccount
  PROVE  RuntimeInv' /\ FairStep
<1> DEFINE y == [Memory EXCEPT !.acct = EmptyAccount, !.tracks = <<>>]
<1>1. Serve({y} \cup {Halted(t) : t \in Thrown(Memory)})
  BY DEF ResetPaperAccount
<1>2. Consistent(Memory)
  BY DEF RuntimeInv
<1>3. Consistent(y) /\ Full(y) /\ FairTo(y)
  <2>1. /\ IsMemory(y) /\ y.acct = EmptyAccount /\ y.tracks = <<>>
        /\ y.requests = Memory.requests /\ y.killSwitch = Memory.killSwitch
        /\ y.auto = Memory.auto /\ y.failures = Memory.failures
    <3>1. IsMemory(Memory)
      BY <1>2 DEF Consistent
    <3>2. PICK x : x = y
      OBVIOUS
    <3>3. /\ IsMemory(x) /\ x.acct = EmptyAccount /\ x.tracks = <<>>
          /\ x.requests = Memory.requests /\ x.killSwitch = Memory.killSwitch
          /\ x.auto = Memory.auto /\ x.failures = Memory.failures
      <4> HIDE DEF Memory
      <4> QED
        BY <3>1, <3>2 DEF IsMemory
    <3> HIDE DEF y
    <3> QED
      BY <3>2, <3>3
  <2> HIDE DEF y
  <2>2. /\ y.killSwitch \in BOOLEAN /\ y.auto \in BOOLEAN /\ y.failures \in Nat
        /\ OnePending(y.requests)
    BY <1>2, <2>1 DEF Consistent
  <2>3. y.acct.orders = <<>>
    BY <2>1, EmptyHolds
  <2>4. FairTo(y)
    BY <2>3 DEF FairTo, Fair
  <2> QED
    BY <2>1, <2>2, <2>4, FreshHolds
<1> HIDE DEF y
<1>4. \A t \in Thrown(Memory) : /\ Consistent(Halted(t)) /\ Full(Halted(t))
                                /\ FairTo(Halted(t))
  BY <1>2, ThrownHolds, SameIsFair DEF SameOrders
<1> DEFINE memories == {y} \cup {Halted(t) : t \in Thrown(Memory)}
<1>5. \A m \in memories : Consistent(m) /\ Full(m) /\ FairTo(m)
  BY <1>3, <1>4
<1> HIDE DEF memories
<1>6. Serve(memories)
  BY <1>1 DEF memories
<1> QED
  BY <1>5, <1>6, ServedHolds

LEMMA StartHolds ==
  ASSUME RuntimeInv, Start
  PROVE  RuntimeInv' /\ FairStep
<1> DEFINE m == Memory'
<1>1. /\ IsMemory(m) /\ m.acct = EmptyAccount /\ m.tracks = <<>> /\ m.requests = <<>>
      /\ m.killSwitch \in BOOLEAN /\ m.auto \in BOOLEAN
  BY DEF Start, Memory, IsMemory
<1>2. m.failures \in Nat
  <2>1. Memory.failures \in Nat
    BY DEF RuntimeInv, Consistent
  <2> QED
    BY <2>1 DEF Start, Memory
<1>3. market' \in Markets
  BY DEF Start
<1> HIDE DEF m
<1>4. OnePending(m.requests)
  BY <1>1 DEF OnePending
<1>5. Consistent(m) /\ Full(m)
  BY <1>1, <1>2, <1>4, FreshHolds
<1>6. FairStep
  <2>1. acct' = EmptyAccount
    BY DEF Start
  <2>2. acct'.orders = <<>>
    BY <2>1, EmptyHolds
  <2> QED
    BY <2>2 DEF FairStep, Fair
<1> QED
  BY <1>3, <1>5, <1>6 DEF RuntimeInv, m

LEMMA RestHolds ==
  ASSUME RuntimeInv, SwitchInstrument \/ Stop \/ UNCHANGED vars
  PROVE  RuntimeInv' /\ FairStep
<1>1. Memory' = Memory /\ timer' = timer
  BY DEF SwitchInstrument, Stop, vars, Memory
<1>2. market' \in Markets
  BY DEF SwitchInstrument, Stop, vars, RuntimeInv
<1>3. FairStep
  <2>1. acct' = acct
    BY DEF SwitchInstrument, Stop, vars
  <2>2. FairTo(Memory) /\ Memory.acct = acct
    BY SameIsFair DEF RuntimeInv, Memory
  <2> QED
    BY <2>1, <2>2 DEF FairTo, FairStep
<1> QED
  BY <1>1, <1>2, <1>3 DEF RuntimeInv

LEMMA RuntimeStep ==
  RuntimeInv /\ [Next]_vars => RuntimeInv' /\ FairStep
<1> SUFFICES ASSUME RuntimeInv, [Next]_vars PROVE RuntimeInv' /\ FairStep
  OBVIOUS
<1>1. CASE Tick
  BY <1>1, TickHolds
<1>2. CASE VerificationTick
  BY <1>2, VerificationTickHolds
<1>3. CASE \E u \in UserOrders : ManualOrder(u)
  BY <1>3, ManualOrderHolds
<1>4. CASE \E i \in 1..MaxOrders : CancelOrder(i)
  BY <1>4, CancelOrderHolds
<1>5. CASE Replay
  BY <1>5, ReplayHolds
<1>6. CASE \E i \in 1..MaxRequests : ApproveOrder(i)
  BY <1>6, ApproveOrderHolds
<1>7. CASE \E i \in 1..MaxRequests : RejectOrder(i)
  BY <1>7, RejectOrderHolds
<1>8. CASE \E enabled \in BOOLEAN : SetKillSwitch(enabled) \/ SetAutoPaperTrading(enabled)
  BY <1>8, SwitchesHold
<1>9. CASE ResetPaperAccount
  BY <1>9, ResetHolds
<1>10. CASE Start
  BY <1>10, StartHolds
<1>11. CASE SwitchInstrument \/ Stop \/ UNCHANGED vars
  BY <1>11, RestHolds
<1> QED
  BY <1>1, <1>2, <1>3, <1>4, <1>5, <1>6, <1>7, <1>8, <1>9, <1>10, <1>11 DEF Next

(***************************************************************************)
(* What the invariant says of the properties.                              *)
(***************************************************************************)
LEMMA DecidedOnce ==
  ASSUME RuntimeInv
  PROVE  ApprovalsDecideOnce
<1>1. OnePending(requests) /\ OrdersApproved(acct.orders, requests)
  BY DEF RuntimeInv, Consistent, Memory
<1> DEFINE P == PendingRequests(Memory)
<1>2. Cardinality(P) <= 1
  <2>1. P = {i \in DOMAIN requests : requests[i] = "PENDING"}
    BY DEF PendingRequests, Memory
  <2>2. \A i, j \in P : i = j
    BY <1>1, <2>1 DEF OnePending
  <2> HIDE DEF P
  <2>3. CASE P = {}
    BY <2>3, FS_EmptySet
  <2>4. CASE P # {}
    <3>1. PICK i : i \in P
      BY <2>4
    <3>2. P = {i}
      BY <2>2, <3>1
    <3>3. Cardinality({i}) = 1
      BY FS_Singleton
    <3> QED
      BY <3>2, <3>3
  <2> QED
    BY <2>3, <2>4
<1>3. \A i \in DOMAIN acct.orders : acct.orders[i].approval # 0 =>
        requests[acct.orders[i].approval] = "APPROVED"
  BY <1>1 DEF OrdersApproved
<1>4. \A i, j \in DOMAIN acct.orders :
        acct.orders[i].approval # 0 /\ acct.orders[i].approval = acct.orders[j].approval => i = j
  BY <1>1 DEF OrdersApproved
<1> QED
  BY <1>2, <1>3, <1>4 DEF ApprovalsDecideOnce

LEMMA JournalIsKept ==
  ASSUME RuntimeInv
  PROVE  JournalKept
<1>1. /\ Sound(acct) /\ failures \in Nat /\ TracksKept(acct.orders, tracks, failures = 0)
      /\ timer /\ failures = 0 =>
           \A i \in DOMAIN acct.orders : /\ Track(tracks, i).created
                                         /\ Track(tracks, i).seen = acct.orders[i].events
  BY DEF RuntimeInv, Consistent, Full, Memory
<1>2. \A i \in DOMAIN acct.orders : acct.orders[i].events \in Nat
  BY <1>1, SoundOrders
<1>3. JournalFollows
  <2> SUFFICES ASSUME failures = 0, NEW i \in DOMAIN acct.orders
               PROVE  LET written == Track(tracks, i).written
                      IN /\ written = [k \in DOMAIN written |-> k - 1]
                         /\ timer => Len(written) = acct.orders[i].events + 1
    BY DEF JournalFollows
  <2> DEFINE t == Track(tracks, i)
             written == t.written
  <2>1. /\ written = [k \in 1..First(t) |-> k - 1] /\ TrackKept(t, acct.orders[i].events)
        /\ timer => t.created /\ t.seen = acct.orders[i].events
    BY <1>1 DEF TracksKept, InOrder
  <2>2. First(t) \in Nat
    BY <2>1 DEF TrackKept, TrackType, First
  <2>3. timer => First(t) = acct.orders[i].events + 1
    BY <2>1 DEF First
  <2> HIDE DEF t
  <2>4. DOMAIN written = 1..First(t)
    BY <2>1
  <2>5. written = [k \in DOMAIN written |-> k - 1]
    BY <2>1, <2>4
  <2>6. Len(written) = First(t)
    BY <2>1, <2>2
  <2>7. timer => Len(written) = acct.orders[i].events + 1
    BY <2>3, <2>6
  <2> QED
    BY <2>5, <2>7 DEF t
<1>4. NothingSkipped
  <2> SUFFICES ASSUME NEW i \in DOMAIN tracks
               PROVE  LET written == tracks[i].written
                      IN /\ \A k \in DOMAIN written : \A n \in 0..(written[k] - 1) :
                              \E h \in 1..(k - 1) : written[h] = n
                         /\ tracks[i].seen > 0 => tracks[i].seen \in Range(written)
    BY DEF NothingSkipped
  <2> DEFINE t == tracks[i]
             w == t.written
  <2>1. TrackKept(t, acct.orders[i].events)
    BY <1>1 DEF TracksKept, Track
  <2>2. Closed(w)
    BY <2>1 DEF TrackKept
  <2>3. ASSUME t.seen > 0 PROVE t.seen \in Range(w)
    <3>1. t.seen \in Nat /\ t.created /\ Covers(w, First(t))
      BY <2>1, <2>3 DEF TrackKept, TrackType
    <3>2. First(t) = t.seen + 1
      BY <3>1 DEF First
    <3>3. t.seen \in 0..(First(t) - 1)
      BY <3>1, <3>2
    <3>4. PICK h \in DOMAIN w : w[h] = t.seen
      BY <3>1, <3>3, Zenon DEF Covers
    <3> QED
      BY <3>4 DEF Range
  <2> QED
    BY <2>2, <2>3 DEF Closed
<1> QED
  BY <1>3, <1>4 DEF JournalKept

LEMMA StepIsFair ==
  ASSUME RuntimeInv, FairStep, NEW j \in DOMAIN acct.orders, NEW i \in 1..(j - 1),
         acct.orders[i].open, acct.orders[j].open, acct.orders[i].side = acct.orders[j].side,
         IF acct.orders[i].side = "BUY" THEN acct.orders[i].limit >= acct.orders[j].limit
                                        ELSE acct.orders[i].limit <= acct.orders[j].limit,
         j \in DOMAIN acct'.orders, acct'.orders[j].filled > acct.orders[j].filled
  PROVE  acct'.orders[i].remaining = 0
<1>1. Sound(acct)
  BY DEF RuntimeInv, Consistent, Memory
<1>2. i \in DOMAIN acct.orders
  <2>1. DOMAIN acct.orders = 1..Len(acct.orders) /\ Len(acct.orders) \in Nat
    BY <1>1, SoundOrders
  <2> QED
    BY <2>1
<1>3. acct.orders[i].type = "LIMIT" /\ acct.orders[j].type = "LIMIT"
  BY <1>1, <1>2 DEF Sound, Resting
<1>4. NoWorse(acct.orders[i], acct.orders[j])
  BY <1>3 DEF NoWorse
<1> QED
  BY <1>4 DEF FairStep, Fair

(***************************************************************************)
(* Theorems                                                                *)
(***************************************************************************)
(* The invariant of the internal market, after every handler and tick.     *)
THEOREM RuntimeInvariant ==
  Spec => []RuntimeInv
<1> QED
  BY RuntimeInit, RuntimeStep, PTL DEF Spec

(* Position and cash are what the fills made them, open sales never exceed *)
(* the holdings, the cash of open buys is there but for fees, taxes and    *)
(* slippage, and the position cannot pass its limit: through every submit, *)
(* cancel, tick, exit and reset of paperTrader.js.                         *)
THEOREM AccountAlwaysHolds ==
  Spec => []AccountHolds
<1>1. RuntimeInv => AccountHolds
  BY DEF RuntimeInv, Consistent, Memory, Sound, Holds, AccountHolds
<1> QED
  BY <1>1, RuntimeInvariant, PTL

(* One approval waits at a time, and an order of the strategy stands for   *)
(* one approved request, which no other order shares (runtime.js).         *)
THEOREM ApprovalsAlwaysDecideOnce ==
  Spec => []ApprovalsDecideOnce
<1>1. RuntimeInv => ApprovalsDecideOnce
  BY DecidedOnce
<1> QED
  BY <1>1, RuntimeInvariant, PTL

(* The journal holds the events of each order in order, all of them while  *)
(* the timer runs and no append failed, and what the recorder counts as    *)
(* seen is there whatever failed (executionJournal.js).                    *)
THEOREM JournalAlwaysKept ==
  Spec => []JournalKept
<1>1. RuntimeInv => JournalKept
  BY JournalIsKept
<1> QED
  BY <1>1, RuntimeInvariant, PTL


(* Among the open orders of one side, none is filled from a tick's book    *)
(* before every older order that asks for no better price is filled        *)
(* completely: the fills of one tick share the book (paperTrader.js).      *)
THEOREM FillsAlwaysFifo ==
  Spec => FifoFills
<1> DEFINE Step == \A j \in DOMAIN acct.orders : \A i \in 1..(j - 1) :
                     LET older == acct.orders[i]
                         younger == acct.orders[j]
                     IN /\ older.open /\ younger.open
                        /\ older.side = younger.side
                        /\ IF older.side = "BUY" THEN older.limit >= younger.limit
                                                 ELSE older.limit <= younger.limit
                        /\ j \in DOMAIN acct'.orders
                        /\ acct'.orders[j].filled > younger.filled
                        => acct'.orders[i].remaining = 0
<1>1. RuntimeInv /\ [Next]_vars => Step
  BY RuntimeStep, StepIsFair
<1>2. RuntimeInv /\ [Next]_vars => [Step]_vars
  BY <1>1
<1> QED
  BY <1>2, RuntimeInvariant, PTL DEF Spec, FifoFills
=============================================================================
