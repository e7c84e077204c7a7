--------------------------- MODULE ChainedScanProofs ---------------------------
(***************************************************************************)
(* The single-pass scan and compaction, for any number of threads, arrays, *)
(* elements and blocks and any division of the blocks over the atomics:    *)
(* what a thread reads of other blocks in its look-back is there and       *)
(* final, it waits for no circle, and it writes what the sequential        *)
(* version writes.                                                         *)
(***************************************************************************)
EXTENDS ChainedScan, FiniteSetTheorems, TLAPS

-----------------------------------------------------------------------------
(* Numbers.                                                                *)

(* Division with a remainder.                                              *)
LEMMA DivMod ==
  ASSUME NEW n \in Nat \ {0}, NEW a \in Nat
  PROVE  a \div n \in Nat /\ a % n \in 0 .. n - 1 /\ a = (a \div n) * n + (a % n)
OBVIOUS

(* a \div n against i is a against a multiple of n.                        *)
LEMMA DivCompare ==
  ASSUME NEW n \in Nat \ {0}, NEW a \in Nat, NEW i \in Nat
  PROVE  a \div n <= i <=> a < (i + 1) * n
<1>1. a = (a \div n) * n + (a % n) /\ a % n \in 0 .. n - 1 /\ a \div n \in Nat
  BY DivMod
<1>2. ASSUME a \div n <= i PROVE a < (i + 1) * n
  BY <1>1, <1>2
<1>3. ASSUME a \div n >= i + 1 PROVE a >= (i + 1) * n
  BY <1>1, <1>3
<1>4. QED
  BY <1>1, <1>2, <1>3

(* A set of natural numbers that is not empty has a least element: the     *)
(* intervals below its elements are ordered by inclusion.                  *)
LEMMA LeastNatural ==
  ASSUME NEW T \in SUBSET Nat, T # {}
  PROVE  \E n \in T : \A m \in T : n <= m
<1> DEFINE below(n) == 0 .. n - 1
           F == {below(n) : n \in T}
           R == StrictSubsetOrdering(Nat)
<1>1. \A n \in T : below(n) \in FiniteSubsetsOf(Nat)
  BY FS_Interval DEF FiniteSubsetsOf
<1>2. PICK x \in F : \A y \in F : ~(<<y, x>> \in R)
  <2>1. F \subseteq FiniteSubsetsOf(Nat) /\ F # {}
    BY <1>1
  <2>2. IsWellFoundedOn(R, FiniteSubsetsOf(Nat))
    BY FS_StrictSubsetOrderingWellFounded
  <2> HIDE DEF F, R
  <2>3. QED
    BY <2>1, <2>2, WFMin
<1>3. PICK n \in T : x = below(n)
  OBVIOUS
<1>4. ASSUME NEW m \in T, m < n PROVE FALSE
  <2>1. below(m) \subseteq below(n) /\ below(m) # below(n)
    BY <1>4
  <2>2. <<below(m), below(n)>> \in R
    BY <2>1 DEF StrictSubsetOrdering
  <2>3. QED
    BY <1>2, <1>3, <2>2
<1>5. QED
  BY <1>4

(* Induction, stated of a set of numbers and not of a predicate.           *)
LEMMA SetInduction ==
  ASSUME NEW S \in SUBSET Nat, 0 \in S, \A n \in S : n + 1 \in S
  PROVE  S = Nat
<1> DEFINE T == Nat \ S
<1>1. ASSUME T # {} PROVE FALSE
  <2>1. PICK n \in T : \A m \in T : n <= m
    BY <1>1, LeastNatural
  <2>2. n # 0 /\ n - 1 \in Nat /\ n - 1 \notin S
    BY <2>1
  <2>3. QED
    BY <2>1, <2>2
<1>2. QED
  BY <1>1

-----------------------------------------------------------------------------
(* The sums of the parts of an array.                                      *)

IsArray(a) ==
  /\ Program(a).compact \in BOOLEAN
  /\ Input(a) \in Seq(Nat)

LEMMA WeightNatural ==
  ASSUME NEW a, IsArray(a), NEW k \in 1 .. Len(Input(a))
  PROVE  Weight(a, k) \in Nat
BY DEF IsArray, Weight

(* The loop of a sum has a function of running sums.                       *)
RunningSums(a, i, j, f) ==
  /\ f \in [i .. j -> Nat]
  /\ f[i] = 0
  /\ \A k \in i + 1 .. j : f[k] = f[k - 1] + Weight(a, k)

(* There is one, by induction over its length.                             *)
LEMMA RunningSumsExist ==
  ASSUME NEW a, IsArray(a), NEW i \in Nat, NEW j \in i .. Len(Input(a))
  PROVE  \E f : RunningSums(a, i, j, f)
<1> DEFINE n == Len(Input(a))
           T == {m \in Nat : i + m <= n => \E f : RunningSums(a, i, i + m, f)}
<1>1. n \in Nat
  BY DEF IsArray
<1>2. 0 \in T
  <2> DEFINE f == [k \in i .. i + 0 |-> 0]
  <2>1. RunningSums(a, i, i + 0, f)
    BY DEF RunningSums
  <2> HIDE DEF f
  <2>2. QED
    BY <2>1
<1>3. ASSUME NEW m \in T PROVE m + 1 \in T
  <2> SUFFICES ASSUME i + (m + 1) <= n PROVE \E f : RunningSums(a, i, i + (m + 1), f)
    OBVIOUS
  <2>1. i + m <= n
    BY <1>1
  <2>2. PICK f : RunningSums(a, i, i + m, f)
    BY <2>1
  <2> DEFINE l == i + m + 1
             g == [k \in i .. i + (m + 1) |-> IF k = l THEN f[l - 1] + Weight(a, l) ELSE f[k]]
  <2>3. l \in 1 .. n /\ l = i + (m + 1) /\ l \in Nat /\ l - 1 \in i .. i + m /\ i < l
    BY <1>1
  <2>4. Weight(a, l) \in Nat
    BY <2>3, WeightNatural
  <2> HIDE DEF l
  <2>5. \A k \in i .. l : k # l => k \in i .. i + m
    BY <2>3
  <2>6. /\ f \in [i .. i + m -> Nat] /\ f[i] = 0
        /\ \A k \in i + 1 .. i + m : f[k] = f[k - 1] + Weight(a, k)
    BY <2>2 DEF RunningSums
  <2>7. g \in [i .. l -> Nat]
    BY <2>3, <2>4, <2>5, <2>6
  <2>8. g[i] = 0
    BY <2>3, <2>6
  <2>9. ASSUME NEW k \in i + 1 .. l PROVE g[k] = g[k - 1] + Weight(a, k)
    <3>1. k - 1 \in i .. l /\ k - 1 # l /\ k \in i .. l
      BY <2>3
    <3>2. CASE k = l
      BY <2>3, <3>1, <3>2
    <3>3. CASE k # l
      BY <2>3, <2>6, <3>1, <3>3
    <3>4. QED
      BY <3>2, <3>3
  <2> HIDE DEF g
  <2>10. RunningSums(a, i, i + (m + 1), g)
    BY <2>3, <2>7, <2>8, <2>9 DEF RunningSums
  <2>11. QED
    BY <2>10
<1>4. T \in SUBSET Nat
  OBVIOUS
<1> HIDE DEF T
<1>5. T = Nat
  BY <1>2, <1>3, <1>4, SetInduction
<1>6. j - i \in Nat /\ i + (j - i) = j /\ j <= n
  BY <1>1
<1>7. j - i \in T
  BY <1>5, <1>6
<1>8. QED
  BY <1>6, <1>7 DEF T

(* And only one: the sums do not depend on where the loop ends.            *)
LEMMA RunningSumsUnique ==
  ASSUME NEW a, NEW i \in Nat, NEW j \in Nat, NEW l \in Nat, NEW f, NEW g,
         RunningSums(a, i, j, f), RunningSums(a, i, l, g),
         NEW k \in Nat, i <= k, k <= j, k <= l
  PROVE  f[k] = g[k]
<1> DEFINE T == {m \in Nat : i + m <= k => f[i + m] = g[i + m]}
<1>1. 0 \in T
  BY DEF RunningSums
<1>2. ASSUME NEW m \in T PROVE m + 1 \in T
  <2> SUFFICES ASSUME i + (m + 1) <= k PROVE f[i + (m + 1)] = g[i + (m + 1)]
    OBVIOUS
  <2> DEFINE n == i + (m + 1)
  <2>1. n \in i + 1 .. j /\ n \in i + 1 .. l /\ n - 1 = i + m /\ i + m <= k
    OBVIOUS
  <2>2. f[n - 1] = g[n - 1]
    BY <2>1
  <2> HIDE DEF n
  <2>3. f[n] = f[n - 1] + Weight(a, n) /\ g[n] = g[n - 1] + Weight(a, n)
    BY <2>1 DEF RunningSums
  <2>4. QED
    BY <2>2, <2>3 DEF n
<1>3. T \in SUBSET Nat
  OBVIOUS
<1> HIDE DEF T
<1>4. T = Nat
  BY <1>1, <1>2, <1>3, SetInduction
<1>5. k - i \in Nat /\ i + (k - i) = k
  OBVIOUS
<1>6. k - i \in T
  BY <1>4, <1>5
<1>7. QED
  BY <1>5, <1>6 DEF T

(* Total is where the running sums end.                                    *)
LEMMA TotalIsRunningSum ==
  ASSUME NEW a, IsArray(a), NEW i \in Nat, NEW j \in i .. Len(Input(a)),
         NEW l \in Nat, j <= l, NEW f, RunningSums(a, i, l, f)
  PROVE  Total(a, i, j) = f[j]
<1> DEFINE loop(s) == [k \in i .. j |-> IF k = i THEN 0 ELSE s[k - 1] + Weight(a, k)]
           sums == CHOOSE s : s = loop(s)
<1>1. PICK g : RunningSums(a, i, j, g)
  BY RunningSumsExist
<1>2. j \in Nat
  BY DEF IsArray
<1>3. g = loop(g)
  BY <1>1, <1>2 DEF RunningSums
<1>4. sums = loop(sums)
  <2> HIDE DEF loop
  <2>1. QED
    BY <1>3
<1>5. Total(a, i, j) = sums[j]
  BY DEF Total
<1> HIDE DEF sums
<1>6. /\ DOMAIN sums = i .. j
      /\ \A k \in i .. j : sums[k] = IF k = i THEN 0 ELSE sums[k - 1] + Weight(a, k)
  BY <1>4
<1> DEFINE T == {m \in Nat : i + m <= j => sums[i + m] = g[i + m]}
<1>7. 0 \in T
  BY <1>1, <1>2, <1>6 DEF RunningSums
<1>8. ASSUME NEW m \in T PROVE m + 1 \in T
  <2> SUFFICES ASSUME i + (m + 1) <= j PROVE sums[i + (m + 1)] = g[i + (m + 1)]
    OBVIOUS
  <2> DEFINE n == i + (m + 1)
  <2>1. n \in i + 1 .. j /\ n \in i .. j /\ n # i /\ n - 1 = i + m /\ i + m <= j
    BY <1>2
  <2>2. sums[n - 1] = g[n - 1]
    BY <2>1
  <2> HIDE DEF n
  <2>3. sums[n] = sums[n - 1] + Weight(a, n) /\ g[n] = g[n - 1] + Weight(a, n)
    BY <1>1, <1>6, <2>1 DEF RunningSums
  <2>4. QED
    BY <2>2, <2>3 DEF n
<1>9. T \in SUBSET Nat
  OBVIOUS
<1> HIDE DEF T
<1>10. T = Nat
  BY <1>7, <1>8, <1>9, SetInduction
<1>11. j - i \in T /\ i + (j - i) = j
  BY <1>2, <1>10
<1>12. sums[j] = g[j]
  BY <1>11 DEF T
<1>13. g[j] = f[j]
  BY <1>1, <1>2, RunningSumsUnique
<1>14. QED
  BY <1>5, <1>12, <1>13

(* Sums of an empty part, of one more element, and their type.             *)
LEMMA TotalSteps ==
  ASSUME NEW a, IsArray(a), NEW i \in Nat, i <= Len(Input(a))
  PROVE  /\ Total(a, i, i) = 0
         /\ \A j \in i .. Len(Input(a)) : Total(a, i, j) \in Nat
         /\ \A j \in i .. Len(Input(a)) :
              j > i => Total(a, i, j) = Total(a, i, j - 1) + Weight(a, j)
<1> DEFINE n == Len(Input(a))
<1>1. n \in Nat /\ i \in i .. n /\ n \in i .. n
  BY DEF IsArray
<1>2. PICK f : RunningSums(a, i, n, f)
  BY <1>1, RunningSumsExist
<1>3. ASSUME NEW j \in i .. n PROVE Total(a, i, j) = f[j]
  BY <1>1, <1>2, TotalIsRunningSum
<1> HIDE DEF n
<1>4. f \in [i .. n -> Nat] /\ f[i] = 0 /\ \A k \in i + 1 .. n : f[k] = f[k - 1] + Weight(a, k)
  BY <1>2 DEF RunningSums
<1>5. Total(a, i, i) = 0
  BY <1>1, <1>3, <1>4
<1>6. \A j \in i .. n : Total(a, i, j) \in Nat
  BY <1>3, <1>4
<1>7. ASSUME NEW j \in i .. n, j > i PROVE Total(a, i, j) = Total(a, i, j - 1) + Weight(a, j)
  BY <1>1, <1>3, <1>4, <1>7
<1>8. QED
  BY <1>5, <1>6, <1>7 DEF n

(* The sum of a part is that of its parts.                                 *)
LEMMA TotalAdds ==
  ASSUME NEW a, IsArray(a), NEW i \in Nat, NEW j \in Nat, NEW k \in Nat,
         i <= j, j <= k, k <= Len(Input(a))
  PROVE  Total(a, i, k) = Total(a, i, j) + Total(a, j, k)
<1> DEFINE n == Len(Input(a))
           T == {m \in Nat : j + m <= n =>
                   Total(a, i, j + m) = Total(a, i, j) + Total(a, j, j + m)}
<1>1. n \in Nat /\ i <= n /\ j <= n /\ j \in i .. n /\ j \in j .. n
  BY DEF IsArray
<1>2. Total(a, j, j) = 0 /\ Total(a, i, j) \in Nat
  BY <1>1, TotalSteps
<1>3. 0 \in T
  BY <1>2
<1>4. ASSUME NEW m \in T PROVE m + 1 \in T
  <2> SUFFICES ASSUME j + (m + 1) <= n
               PROVE  Total(a, i, j + (m + 1)) = Total(a, i, j) + Total(a, j, j + (m + 1))
    OBVIOUS
  <2> DEFINE l == j + (m + 1)
  <2>1. /\ l \in i .. n /\ l \in j .. n /\ l > i /\ l > j /\ l - 1 = j + m /\ j + m <= n
        /\ l - 1 \in i .. n /\ l - 1 \in j .. n /\ l \in 1 .. n
    BY <1>1
  <2>2. Total(a, i, l - 1) = Total(a, i, j) + Total(a, j, l - 1)
    BY <2>1
  <2> HIDE DEF l, T, n
  <2>3. Total(a, i, l) = Total(a, i, l - 1) + Weight(a, l)
    BY <1>1, <2>1, TotalSteps DEF n
  <2>4. Total(a, j, l) = Total(a, j, l - 1) + Weight(a, l)
    BY <1>1, <2>1, TotalSteps DEF n
  <2>5. Total(a, i, l - 1) \in Nat /\ Total(a, j, l - 1) \in Nat
    BY <1>1, <2>1, TotalSteps DEF n
  <2>6. Weight(a, l) \in Nat
    BY <2>1, WeightNatural DEF n
  <2>7. Total(a, i, l) = Total(a, i, j) + Total(a, j, l)
    BY <1>2, <2>2, <2>3, <2>4, <2>5, <2>6
  <2>8. QED
    BY <2>7 DEF l
<1>5. T \in SUBSET Nat
  OBVIOUS
<1> HIDE DEF T
<1>6. T = Nat
  BY <1>3, <1>4, <1>5, SetInduction
<1>7. k - j \in T /\ j + (k - j) = k
  BY <1>6
<1>8. QED
  BY <1>7 DEF T

-----------------------------------------------------------------------------
(* The parts of an array that are its blocks.                              *)

LEMMA MinOfTwo ==
  ASSUME NEW m \in Int, NEW n \in Int
  PROVE  Min({m, n}) = IF m <= n THEN m ELSE n
<1> DEFINE least == IF m <= n THEN m ELSE n
<1>1. least \in {m, n} /\ \A x \in {m, n} : least <= x
  OBVIOUS
<1>2. \A y \in {m, n} : (\A x \in {m, n} : y <= x) => y = least
  OBVIOUS
<1> HIDE DEF least
<1>3. (CHOOSE y \in {m, n} : \A x \in {m, n} : y <= x) = least
  BY <1>1, <1>2
<1>4. QED
  BY <1>3 DEF Min, least

(* Each block begins where the one before ends.                            *)
LEMMA BlockStarts ==
  ASSUME NEW a, IsArray(a), NEW b \in Nat
  PROVE  /\ BlockStart(a, 0) = 0
         /\ BlockStart(a, b) \in Nat /\ BlockStart(a, b + 1) \in Nat
         /\ BlockStart(a, b) <= BlockStart(a, b + 1)
         /\ BlockStart(a, b + 1) <= Len(Input(a))
<1>1. Len(Input(a)) \in Nat /\ BlockSize \in Nat
  BY ScanAssumption DEF IsArray
<1>2. b * BlockSize \in Nat /\ (b + 1) * BlockSize \in Nat
        /\ b * BlockSize <= (b + 1) * BlockSize /\ 0 * BlockSize = 0
  BY <1>1
<1>3. \A c : BlockStart(a, c) = Min({c * BlockSize, Len(Input(a))})
  BY DEF BlockStart
<1>4. /\ BlockStart(a, 0) = Min({0, Len(Input(a))})
      /\ BlockStart(a, b) = Min({b * BlockSize, Len(Input(a))})
      /\ BlockStart(a, b + 1) = Min({(b + 1) * BlockSize, Len(Input(a))})
  BY <1>2, <1>3
<1> DEFINE s == b * BlockSize
           e == (b + 1) * BlockSize
           n == Len(Input(a))
<1> HIDE DEF s, e, n
<1>5. /\ Min({0, n}) = IF 0 <= n THEN 0 ELSE n
      /\ Min({s, n}) = IF s <= n THEN s ELSE n
      /\ Min({e, n}) = IF e <= n THEN e ELSE n
  BY <1>1, <1>2, MinOfTwo DEF s, e, n
<1>6. s \in Nat /\ e \in Nat /\ n \in Nat /\ s <= e
  BY <1>1, <1>2 DEF s, e, n
<1>7. QED
  BY <1>4, <1>5, <1>6 DEF s, e, n

(* The sum before a block and that of the block make the sum before the    *)
(* next one.                                                               *)
LEMMA PrefixOfNext ==
  ASSUME NEW a, IsArray(a), NEW b \in Nat
  PROVE  /\ Before(a, 0) = 0
         /\ Before(a, b) \in Nat /\ Local(a, b) \in Nat /\ Before(a, b + 1) \in Nat
         /\ Before(a, b + 1) = Before(a, b) + Local(a, b)
<1> DEFINE n == Len(Input(a))
           s == BlockStart(a, b)
           e == BlockStart(a, b + 1)
<1>1. n \in Nat /\ s \in Nat /\ e \in Nat /\ s <= e /\ e <= n /\ s <= n /\ BlockStart(a, 0) = 0
  <2>1. n \in Nat
    BY DEF IsArray
  <2>2. s \in Nat /\ e \in Nat /\ s <= e /\ e <= n /\ BlockStart(a, 0) = 0
    BY BlockStarts
  <2> HIDE DEF n, s, e
  <2>3. s <= n
    BY <2>1, <2>2
  <2>4. QED
    BY <2>1, <2>2, <2>3
<1>2. Before(a, b) = Total(a, 0, s) /\ Before(a, b + 1) = Total(a, 0, e) /\ Local(a, b) = Total(a, s, e)
  BY DEF Before, Local
<1>3. Before(a, 0) = Total(a, 0, 0)
  BY <1>1 DEF Before
<1> HIDE DEF n, s, e
<1>4. s \in 0 .. n /\ e \in 0 .. n /\ e \in s .. n
  BY <1>1
<1>5. Total(a, 0, s) \in Nat /\ Total(a, 0, e) \in Nat /\ Total(a, 0, 0) = 0
  BY <1>1, <1>4, TotalSteps DEF n
<1>6. Total(a, s, e) \in Nat
  BY <1>1, <1>4, TotalSteps DEF n
<1>7. Total(a, 0, e) = Total(a, 0, s) + Total(a, s, e)
  BY <1>1, TotalAdds DEF n
<1>8. QED
  BY <1>2, <1>3, <1>5, <1>6, <1>7

(* What a look-back from block b has when it comes to block p, which gives *)
(* the sum of its block or of all blocks up to it.                         *)
LEMMA LookBackSums ==
  ASSUME NEW a, IsArray(a), NEW b \in Nat, NEW p \in Nat, p < b
  PROVE  LET seen(c) == Total(a, BlockStart(a, c), BlockStart(a, b))
         IN  /\ seen(b) = 0 /\ seen(p) \in Nat /\ seen(p + 1) \in Nat
             /\ seen(p) = Local(a, p) + seen(p + 1)
             /\ Before(a, b) = Before(a, p + 1) + seen(p + 1)
<1> DEFINE n == Len(Input(a))
           s == BlockStart(a, p)
           e == BlockStart(a, p + 1)
           d == BlockStart(a, b)
<1>1. n \in Nat /\ s \in Nat /\ e \in Nat /\ d \in Nat /\ s <= e /\ e <= n /\ d <= n
  <2> DEFINE f == BlockStart(a, b + 1)
  <2>1. d \in Nat /\ f \in Nat /\ d <= f /\ f <= n
    BY BlockStarts
  <2>2. s \in Nat /\ e \in Nat /\ s <= e /\ e <= n
    BY BlockStarts
  <2>3. n \in Nat
    BY DEF IsArray
  <2> HIDE DEF n, s, e, d, f
  <2>4. d <= n
    BY <2>1, <2>3
  <2>5. QED
    BY <2>1, <2>2, <2>3, <2>4
<1>2. e <= d
  <2>1. (p + 1) * BlockSize <= b * BlockSize /\ (p + 1) * BlockSize \in Nat /\ b * BlockSize \in Nat
    <3>1. b - (p + 1) \in Nat /\ BlockSize \in Nat /\ p + 1 \in Nat
      BY ScanAssumption
    <3> DEFINE k == b - (p + 1)
    <3>2. b = (p + 1) + k
      OBVIOUS
    <3> HIDE DEF k
    <3>3. k * BlockSize \in Nat /\ (p + 1) * BlockSize \in Nat
      BY <3>1 DEF k
    <3>4. b * BlockSize = (p + 1) * BlockSize + k * BlockSize
      BY <3>1, <3>2 DEF k
    <3>5. QED
      BY <3>3, <3>4
  <2> DEFINE x == (p + 1) * BlockSize
             y == b * BlockSize
  <2>2. e = Min({x, n}) /\ d = Min({y, n})
    BY DEF BlockStart
  <2> HIDE DEF x, y, n, e, d
  <2>3. x \in Nat /\ y \in Nat /\ x <= y /\ n \in Nat
    BY <1>1, <2>1 DEF x, y
  <2>4. e = (IF x <= n THEN x ELSE n) /\ d = (IF y <= n THEN y ELSE n)
    BY <2>2, <2>3, MinOfTwo
  <2>5. QED
    BY <2>3, <2>4
<1>3. Before(a, b) = Total(a, 0, d) /\ Before(a, p + 1) = Total(a, 0, e) /\ Local(a, p) = Total(a, s, e)
  BY DEF Before, Local
<1> HIDE DEF n, s, e, d
<1>4. d \in d .. n /\ d \in e .. n /\ d \in s .. n /\ s <= n
  BY <1>1, <1>2
<1>5. Total(a, d, d) = 0 /\ Total(a, e, d) \in Nat /\ Total(a, s, d) \in Nat
  BY <1>1, <1>4, TotalSteps DEF n
<1>6. Total(a, s, d) = Total(a, s, e) + Total(a, e, d)
  BY <1>1, <1>2, TotalAdds DEF n
<1>7. Total(a, 0, d) = Total(a, 0, e) + Total(a, e, d)
  BY <1>1, <1>2, TotalAdds DEF n
<1>8. QED
  BY <1>3, <1>5, <1>6, <1>7 DEF s, e, d

(* Two selected elements have different places in the output.              *)
LEMMA PlacesDiffer ==
  ASSUME NEW a, IsArray(a), Program(a).compact, NEW k \in Nat, NEW l \in Nat,
         k \in Selected(a, 0, Len(Input(a))), l \in Selected(a, 0, Len(Input(a))), k < l
  PROVE  Total(a, 0, k - 1) # Total(a, 0, l - 1)
<1> DEFINE n == Len(Input(a))
<1>1. n \in Nat /\ k \in 1 .. n /\ l \in 1 .. n /\ Weight(a, k) = 1
  BY DEF IsArray, Selected, Weight
<1>2. /\ k - 1 \in Nat /\ l - 1 \in Nat /\ k - 1 <= n /\ k <= l - 1 /\ l - 1 <= n
      /\ k - 1 <= k /\ k <= n
      /\ k - 1 \in 0 .. n /\ k \in k - 1 .. n /\ l - 1 \in k .. n /\ k > k - 1 /\ k - 1 \in k - 1 .. n
  BY <1>1
<1> HIDE DEF n
<1>3. Total(a, 0, l - 1) = Total(a, 0, k) + Total(a, k, l - 1)
  BY <1>1, <1>2, TotalAdds DEF n
<1>4. Total(a, 0, k) = Total(a, 0, k - 1) + Weight(a, k)
  BY <1>1, TotalSteps DEF n
<1>5. Total(a, 0, k - 1) \in Nat /\ Total(a, k, l - 1) \in Nat
  BY <1>1, <1>2, TotalSteps DEF n
<1>6. QED
  BY <1>1, <1>3, <1>4, <1>5

(* A part that starts from the sum of what is before it stores what the    *)
(* sequential version does.                                                *)
LEMMA StoredAsReference ==
  ASSUME NEW a, IsArray(a), NEW i \in Nat, NEW j \in Nat, i <= j, j <= Len(Input(a))
  PROVE  IsRestriction(Stored(a, i, j, Total(a, 0, i)), reference_sequential(a))
<1> DEFINE n == Len(Input(a))
<1>1. n \in Nat /\ i <= n /\ i \in 0 .. n
  BY DEF IsArray
<1>2. Total(a, 0, i) \in Nat
  BY <1>1, TotalSteps
<1>3. ASSUME NEW k \in i .. n
      PROVE  Total(a, 0, i) + Total(a, i, k) = 0 + Total(a, 0, k) /\ Total(a, 0, k) \in Nat
  <2>1. k \in Nat /\ i <= k /\ k <= n /\ k \in 0 .. n
    BY <1>1
  <2>2. Total(a, 0, k) = Total(a, 0, i) + Total(a, i, k)
    BY <2>1, TotalAdds
  <2>3. Total(a, 0, k) \in Nat
    BY <2>1, TotalSteps
  <2>4. QED
    BY <2>2, <2>3
<1>4. CASE ~Program(a).compact
  <2> DEFINE part == Stored(a, i, j, Total(a, 0, i))
             all == reference_sequential(a)
  <2>1. part = [k \in i .. j - 1 |-> Total(a, 0, i) + Total(a, i, k + 1)]
    BY <1>4 DEF Stored, scan_sequential
  <2>2. all = [k \in 0 .. n - 1 |-> 0 + Total(a, 0, k + 1)]
    BY <1>4 DEF Stored, scan_sequential, reference_sequential
  <2> HIDE DEF part, all
  <2>3. \A k \in i .. j - 1 : k \in 0 .. n - 1 /\ k + 1 \in i .. n
    BY <1>1
  <2>4. QED
    BY <1>3, <2>1, <2>2, <2>3 DEF IsRestriction, part, all
<1>5. CASE Program(a).compact
  <2> DEFINE part == Stored(a, i, j, Total(a, 0, i))
             all == reference_sequential(a)
             S == Selected(a, i, j)
             R == Selected(a, 0, n)
             place(k) == Total(a, 0, i) + Total(a, i, k - 1)
             final(k) == 0 + Total(a, 0, k - 1)
  <2>1. part = [m \in {place(k) : k \in S} |-> Input(a)[CHOOSE k \in S : place(k) = m]]
    BY <1>5 DEF Stored, compact_sequential
  <2>2. all = [m \in {final(k) : k \in R} |-> Input(a)[CHOOSE k \in R : final(k) = m]]
    BY <1>5 DEF Stored, compact_sequential, reference_sequential
  <2>3. \A k \in S : k \in R /\ k - 1 \in i .. n
    BY <1>1 DEF Selected
  <2>4. \A k \in S : place(k) = final(k)
    BY <1>3, <2>3
  <2>5. ASSUME NEW k \in R, NEW l \in R, final(k) = final(l) PROVE k = l
    <3>1. k \in Nat /\ l \in Nat /\ k - 1 \in 0 .. n /\ l - 1 \in 0 .. n
      BY <1>1 DEF Selected
    <3>2. Total(a, 0, k - 1) \in Nat /\ Total(a, 0, l - 1) \in Nat
      BY <3>1, TotalSteps
    <3>3. Total(a, 0, k - 1) = Total(a, 0, l - 1)
      BY <2>5, <3>2
    <3>4. ~(k < l) /\ ~(l < k)
      BY <1>5, <3>1, <3>3, PlacesDiffer
    <3>5. QED
      BY <3>1, <3>4
  <2> HIDE DEF part, all, S, R, place, final
  <2>6. ASSUME NEW m \in {place(k) : k \in S}
        PROVE  m \in DOMAIN all /\ part[m] = all[m]
    <3>1. PICK k \in S : m = place(k)
      OBVIOUS
    <3>2. k \in R /\ m = final(k)
      BY <2>3, <2>4, <3>1
    <3>3. (CHOOSE l \in S : place(l) = m) = k
      BY <2>3, <2>4, <2>5, <3>1, <3>2
    <3>4. (CHOOSE l \in R : final(l) = m) = k
      BY <2>5, <3>2
    <3>5. m \in {final(l) : l \in R}
      BY <3>2
    <3>6. part[m] = Input(a)[k]
      BY <2>1, <3>3
    <3>7. m \in DOMAIN all /\ all[m] = Input(a)[k]
      BY <2>2, <3>4, <3>5
    <3>8. QED
      BY <3>6, <3>7
  <2>7. DOMAIN part = {place(k) : k \in S}
    BY <2>1
  <2>8. QED
    BY <2>6, <2>7 DEF IsRestriction, part, all
<1>6. QED
  BY <1>4, <1>5 DEF IsArray

(* What was written before is kept.                                        *)
LEMMA RestrictionsUnite ==
  ASSUME NEW f, NEW g, NEW h, IsRestriction(f, h), IsRestriction(g, h)
  PROVE  IsRestriction(Overwritten(f, g), h)
<1> DEFINE all == Overwritten(f, g)
<1>1. /\ DOMAIN all = DOMAIN f \cup DOMAIN g
      /\ \A k \in DOMAIN all : all[k] = IF k \in DOMAIN g THEN g[k] ELSE f[k]
  BY DEF Overwritten
<1> HIDE DEF all
<1>2. DOMAIN f \subseteq DOMAIN h /\ DOMAIN g \subseteq DOMAIN h
  BY DEF IsRestriction
<1>3. /\ \A k \in DOMAIN f : f[k] = h[k]
      /\ \A k \in DOMAIN g : g[k] = h[k]
  BY <1>2 DEF IsRestriction
<1>4. DOMAIN all \subseteq DOMAIN h /\ \A k \in DOMAIN all : all[k] = h[k]
  BY <1>1, <1>2, <1>3
<1>5. QED
  BY <1>4 DEF IsRestriction, all

-----------------------------------------------------------------------------
(* The chunks of the ranges.                                               *)

LEMMA FirstChunks ==
  ASSUME NEW a, Size(a) \in Nat, Ranges(a) \in Nat \ {0}
  PROVE  /\ FirstChunk(a, 0) = 0 /\ FirstChunk(a, Ranges(a)) = Size(a)
         /\ \A r \in Nat : FirstChunk(a, r) \in Nat
         /\ \A r, s \in Nat : r <= s => FirstChunk(a, r) <= FirstChunk(a, s)
<1> DEFINE n == Ranges(a)
           q == Size(a) \div n
           m == Size(a) % n
<1>1. q \in Nat /\ m \in 0 .. n - 1 /\ Size(a) = q * n + m
  BY DivMod
<1>2. \A r : FirstChunk(a, r) = r * q + Min({r, m})
  BY DEF FirstChunk
<1> HIDE DEF q, m
<1>3. n \in Nat \ {0}
  OBVIOUS
<1> HIDE DEF n
<1>4. ASSUME NEW r \in Nat PROVE r * q \in Nat /\ Min({r, m}) = IF r <= m THEN r ELSE m
  BY <1>1, <1>3, MinOfTwo
<1>5. ASSUME NEW r \in Nat PROVE FirstChunk(a, r) = r * q + (IF r <= m THEN r ELSE m) /\ r * q \in Nat
  BY <1>2, <1>4
<1>6. FirstChunk(a, 0) = 0
  BY <1>1, <1>3, <1>5
<1>7. FirstChunk(a, n) = Size(a)
  BY <1>1, <1>3, <1>5
<1>8. ASSUME NEW r \in Nat PROVE FirstChunk(a, r) \in Nat
  BY <1>1, <1>3, <1>5
<1>9. ASSUME NEW r \in Nat, NEW s \in Nat, r <= s PROVE FirstChunk(a, r) <= FirstChunk(a, s)
  <2>1. r * q <= s * q
    <3>1. PICK d \in Nat : s = r + d
      BY <1>9
    <3>2. s * q = r * q + d * q /\ d * q \in Nat /\ r * q \in Nat
      BY <1>1, <3>1
    <3>3. QED
      BY <3>2
  <2>2. r * q \in Nat /\ s * q \in Nat
    BY <1>4
  <2>3. /\ FirstChunk(a, r) = r * q + (IF r <= m THEN r ELSE m)
        /\ FirstChunk(a, s) = s * q + (IF s <= m THEN s ELSE m)
    BY <1>5
  <2> DEFINE x == r * q
             y == s * q
  <2> HIDE DEF x, y
  <2>4. x \in Nat /\ y \in Nat /\ x <= y /\ m \in Nat
    BY <1>1, <1>3, <2>1, <2>2 DEF x, y
  <2>5. /\ FirstChunk(a, r) = x + (IF r <= m THEN r ELSE m)
        /\ FirstChunk(a, s) = y + (IF s <= m THEN s ELSE m)
    BY <2>3 DEF x, y
  <2>6. QED
    BY <1>9, <2>4, <2>5
<1>10. QED
  BY <1>6, <1>7, <1>8, <1>9 DEF n

(* Each chunk is in one range; a single range has them all.                *)
LEMMA RangesPartition ==
  ASSUME NEW a, Size(a) \in Nat, Ranges(a) \in Nat \ {0}
  PROVE  /\ \A r \in 0 .. Ranges(a) - 1 : ChunksOf(a, r) \subseteq Blocks(a)
         /\ \A b \in Blocks(a) : \E r \in 0 .. Ranges(a) - 1 : b \in ChunksOf(a, r)
         /\ \A r, s \in Nat : r # s => ChunksOf(a, r) \cap ChunksOf(a, s) = {}
         /\ Ranges(a) = 1 => ChunksOf(a, 0) = Blocks(a)
<1> DEFINE n == Ranges(a)
           first(r) == FirstChunk(a, r)
<1>1. /\ first(0) = 0 /\ first(n) = Size(a) /\ n \in Nat \ {0} /\ Size(a) \in Nat
      /\ \A r \in Nat : first(r) \in Nat
      /\ \A r, s \in Nat : r <= s => first(r) <= first(s)
  BY FirstChunks
<1>2. Blocks(a) = 0 .. Size(a) - 1 /\ \A r : ChunksOf(a, r) = first(r) .. first(r + 1) - 1
  BY DEF Blocks, ChunksOf
<1> HIDE DEF n, first
<1>3. ASSUME NEW r \in 0 .. n - 1 PROVE ChunksOf(a, r) \subseteq Blocks(a)
  <2>1. r \in Nat /\ r + 1 \in Nat /\ n \in Nat /\ r + 1 <= n
    BY <1>1
  <2>2. first(r) \in Nat /\ first(r + 1) \in Nat /\ first(r + 1) <= first(n)
    BY <1>1, <2>1
  <2>3. ChunksOf(a, r) = first(r) .. first(r + 1) - 1
    BY <1>2
  <2>4. first(n) = Size(a) /\ Size(a) \in Nat /\ Blocks(a) = 0 .. Size(a) - 1
    BY <1>1, <1>2
  <2>5. QED
    BY <2>2, <2>3, <2>4
<1>4. ASSUME NEW b \in Blocks(a) PROVE \E r \in 0 .. n - 1 : b \in ChunksOf(a, r)
  <2> DEFINE T == {r \in Nat : b < first(r)}
  <2>1. b \in Nat /\ b < Size(a)
    BY <1>1, <1>2
  <2>2. n \in T
    BY <1>1, <2>1
  <2>3. T \in SUBSET Nat /\ T # {}
    BY <2>2
  <2>4. PICK s \in T : \A r \in T : s <= r
    <3> HIDE DEF T
    <3>1. QED
      BY <2>3, LeastNatural
  <2>5. s \in Nat /\ b < first(s) /\ s <= n
    BY <2>2, <2>4
  <2>6. s # 0
    BY <1>1, <2>1, <2>5
  <2> DEFINE r == s - 1
  <2>7. r \in 0 .. n - 1 /\ r \in Nat /\ r + 1 = s /\ r < s
    BY <1>1, <2>5, <2>6
  <2>8. first(r) \in Nat /\ first(s) \in Nat
    BY <1>1, <2>5, <2>7
  <2>9. ~(b < first(r))
    BY <2>4, <2>7
  <2>10. ChunksOf(a, r) = first(r) .. first(s) - 1
    BY <1>2, <2>7
  <2> HIDE DEF r
  <2>11. b \in ChunksOf(a, r)
    BY <2>1, <2>5, <2>8, <2>9, <2>10
  <2>12. QED
    BY <2>7, <2>11
<1>5. ASSUME NEW r \in Nat, NEW s \in Nat, r < s PROVE ChunksOf(a, r) \cap ChunksOf(a, s) = {}
  <2>1. first(r) \in Nat /\ first(r + 1) \in Nat /\ first(s) \in Nat /\ first(s + 1) \in Nat
          /\ first(r + 1) <= first(s)
    BY <1>1, <1>5
  <2>2. QED
    BY <1>2, <2>1
<1>6. ASSUME n = 1 PROVE ChunksOf(a, 0) = Blocks(a)
  BY <1>1, <1>2, <1>6
<1>7. \A r, s \in Nat : r # s => ChunksOf(a, r) \cap ChunksOf(a, s) = {}
  BY <1>5
<1>8. QED
  BY <1>3, <1>4, <1>6, <1>7 DEF n

-----------------------------------------------------------------------------
(* The tasks of a program.                                                 *)

LEMMA TaskTypes ==
  ASSUME TypeOK
  PROVE  /\ DOMAIN temp_state \subseteq Tasks
         /\ \A a \in Tasks :
              /\ a # NoTask /\ a[2] \in Nat /\ (a \in DOMAIN temp_state <=> a[2] # 0)
              /\ Size(a) \in Nat /\ Ranges(a) \in Nat \ {0}
              /\ Program(a).version \in {"our", "inner", "outer"}
              /\ Program(a).version = "inner" => a[2] # 0
              /\ a \in DOMAIN temp_state => IsArray(a)
              /\ \A b \in Tasks : a[1] = b[1] /\ (a[2] = b[2] => a = b)
              /\ a[2] = 0 => \A c \in Blocks(a) : <<a[1], c + 1>> \in DOMAIN temp_state
              /\ a[2] # 0 /\ a[2] # Len(Program(a).inputs)
                   => <<a[1], a[2] + 1>> \in DOMAIN temp_state
<1>1. PICK p \in DOMAIN Programs :
        /\ DOMAIN claimed = {InitialTask(p)} \cup Arrays(p)
        /\ DOMAIN temp_state = Arrays(p)
  BY DEF TypeOK
<1> DEFINE n == Len(Programs[p].inputs)
<1>2. /\ Programs[p].version \in {"our", "inner", "outer"}
      /\ Programs[p].compact \in BOOLEAN
      /\ Programs[p].ranges \in Nat \ {0}
      /\ Programs[p].inputs \in Seq(Seq(Nat)) /\ Programs[p].inputs # <<>>
  BY ScanAssumption
<1>3. n \in Nat \ {0} /\ DOMAIN Programs[p].inputs = 1 .. n
  BY <1>2
<1>4. ASSUME NEW i \in Int
      PROVE  <<p, i>> \in Arrays(p) <=> i \in 1 .. n
  BY <1>3 DEF Arrays
<1>5. PICK i \in {0, 1} :
        InitialTask(p) = <<p, i>> /\ (Programs[p].version = "inner" => i = 1)
  BY DEF InitialTask
<1>6. \A a \in Tasks : \E k \in 0 .. n : a = <<p, k>> /\ (Programs[p].version = "inner" => k # 0)
  <2>1. ASSUME NEW a \in Arrays(p)
        PROVE  \E k \in 0 .. n : a = <<p, k>> /\ (Programs[p].version = "inner" => k # 0)
    <3>1. PICK k \in DOMAIN Programs[p].inputs : a = <<p, k>>
      BY DEF Arrays
    <3>2. k \in 0 .. n /\ k # 0
      BY <1>3, <3>1
    <3>3. QED
      BY <3>1, <3>2
  <2>2. i \in 0 .. n
    BY <1>3, <1>5
  <2>3. QED
    BY <1>1, <1>5, <2>1, <2>2 DEF Tasks
<1>7. ASSUME NEW a \in Tasks
      PROVE  /\ a # NoTask /\ a[2] \in Nat /\ (a \in DOMAIN temp_state <=> a[2] # 0)
             /\ Size(a) \in Nat /\ Ranges(a) \in Nat \ {0}
             /\ Program(a).version \in {"our", "inner", "outer"}
             /\ Program(a).version = "inner" => a[2] # 0
             /\ a \in DOMAIN temp_state => IsArray(a)
             /\ \A b \in Tasks : a[1] = b[1] /\ (a[2] = b[2] => a = b)
             /\ a[2] = 0 => \A c \in Blocks(a) : <<a[1], c + 1>> \in DOMAIN temp_state
             /\ a[2] # 0 /\ a[2] # Len(Program(a).inputs)
                  => <<a[1], a[2] + 1>> \in DOMAIN temp_state
  <2>1. PICK k \in 0 .. n : a = <<p, k>> /\ (Programs[p].version = "inner" => k # 0)
    BY <1>6
  <2>2. a # NoTask /\ a[1] = p /\ a[2] = k /\ k \in Nat /\ Program(a) = Programs[p]
    BY <1>3, <2>1 DEF NoTask, Program
  <2>3. a \in DOMAIN temp_state <=> a[2] # 0
    BY <1>1, <1>3, <1>4, <2>1, <2>2
  <2>4. a[2] # 0 => Input(a) \in Seq(Nat)
    BY <1>2, <1>3, <2>2 DEF Input
  <2>5. Size(a) \in Nat
    <3>1. CASE a[2] = 0
      BY <1>3, <2>2, <3>1 DEF Size
    <3>2. CASE a[2] # 0
      <4>1. Len(Input(a)) \in Nat /\ BlockSize \in Nat \ {0}
        BY <2>4, <3>2, ScanAssumption
      <4> DEFINE l == Len(Input(a)) + BlockSize - 1
      <4>2. l \in Nat
        BY <4>1
      <4>3. Size(a) = l \div BlockSize
        BY <3>2 DEF Size
      <4> HIDE DEF l
      <4>4. QED
        BY <4>1, <4>2, <4>3, DivMod
    <3>3. QED
      BY <3>1, <3>2
  <2>6. /\ Ranges(a) \in Nat \ {0} /\ Program(a).version \in {"our", "inner", "outer"}
        /\ Program(a).version = "inner" => a[2] # 0
        /\ Program(a).compact \in BOOLEAN
    BY <1>2, <2>1, <2>2 DEF Ranges
  <2>7. a \in DOMAIN temp_state => IsArray(a)
    BY <2>3, <2>4, <2>6 DEF IsArray
  <2>8. ASSUME NEW b \in Tasks PROVE a[1] = b[1] /\ (a[2] = b[2] => a = b)
    <3>1. PICK l \in 0 .. n : b = <<p, l>>
      BY <1>6
    <3>2. QED
      BY <2>1, <3>1
  <2>9. ASSUME a[2] = 0, NEW c \in Blocks(a) PROVE <<a[1], c + 1>> \in DOMAIN temp_state
    BY <1>1, <1>3, <1>4, <2>2, <2>9 DEF Size, Blocks
  <2>10. ASSUME a[2] # 0, a[2] # Len(Program(a).inputs) PROVE <<a[1], a[2] + 1>> \in DOMAIN temp_state
    BY <1>1, <1>3, <1>4, <2>2, <2>10
  <2>11. QED
    BY <2>2, <2>3, <2>5, <2>6, <2>7, <2>8, <2>9, <2>10
<1>8. DOMAIN temp_state \subseteq Tasks
  BY <1>1 DEF Tasks
<1>9. QED
  BY <1>7, <1>8

-----------------------------------------------------------------------------
(* The wait in the look-back follows from the order of the claims.         *)

(* The block a thread works on, and the one it looks at.                   *)
LEMMA BlockTypes ==
  ASSUME TypeOK, ThreadsOnTasks, NEW t \in Threads, pc[t] \in Working
  PROVE  /\ task[t] \in Tasks /\ task[t] # NoTask
         /\ chunk[t] \in claimed[task[t]] /\ chunk[t] \in Blocks(task[t])
         /\ chunk[t] \in Nat /\ Live(task[t])
         /\ pc[t] # "run" => task[t] \in DOMAIN temp_state
<1>1. task[t] # NoTask
  BY DEF ThreadsOnTasks, Working, Unannounced, Looking, Late
<1>2. task[t] \in Tasks
  BY <1>1 DEF TypeOK
<1>3. chunk[t] \in claimed[task[t]] /\ (task[t][2] = 0 => pc[t] = "run")
  BY DEF ThreadsOnTasks
<1>4. claimed[task[t]] \subseteq Blocks(task[t])
  BY <1>2 DEF TypeOK
<1>5. Size(task[t]) \in Nat /\ (task[t] \in DOMAIN temp_state <=> task[t][2] # 0)
  BY <1>2, TaskTypes
<1>6. chunk[t] \in Blocks(task[t]) /\ chunk[t] \in Nat
  BY <1>3, <1>4, <1>5 DEF Blocks
<1>7. QED
  BY <1>1, <1>2, <1>3, <1>5, <1>6 DEF Live

LEMMA SpinsForEarlier ==
  ASSUME TypeOK, ThreadsOnTasks, RangesInOrder, AnnouncedInOrder, LookBackInBounds
  PROVE  WaitsForEarlier
<1> SUFFICES ASSUME NEW t \in Threads, pc[t] = "look",
                    temp_state[task[t]][previous[t]] = "initialized"
             PROVE  \E v \in Threads \ {t}, r \in 0 .. Ranges(task[t]) - 1 :
                      /\ task[v] = task[t]
                      /\ previous[t] \in ChunksOf(task[t], r)
                      /\ \/ chunk[v] \in ChunksOf(task[t], r) /\ chunk[v] <= previous[t]
                         \/ range[v] = r /\ AtClaim(v)
  BY DEF WaitsForEarlier
<1> DEFINE a == task[t]
           p == previous[t]
<1>1. pc[t] \in Working /\ pc[t] \in Looking /\ pc[t] # "run"
  BY DEF Working, Looking
<1>2. /\ a \in Tasks /\ chunk[t] \in claimed[a] /\ chunk[t] \in Blocks(a)
      /\ chunk[t] \in Nat /\ Live(a) /\ a \in DOMAIN temp_state
  BY <1>1, BlockTypes
<1>3. p \in Nat /\ p < chunk[t]
  BY <1>1, <1>2 DEF LookBackInBounds
<1>4. Size(a) \in Nat /\ Ranges(a) \in Nat \ {0}
  BY <1>2, TaskTypes
<1>5. p \in Blocks(a)
  BY <1>2, <1>3, <1>4 DEF Blocks
<1>6. PICK r \in 0 .. Ranges(a) - 1 : p \in ChunksOf(a, r)
  BY <1>4, <1>5, RangesPartition
<1>7. CASE p \in claimed[a]
  <2>1. Held(a, p)
    BY <1>1, <1>2, <1>5, <1>7 DEF AnnouncedInOrder
  <2>2. PICK v \in Threads : pc[v] \in Unannounced /\ task[v] = a /\ chunk[v] = p
    BY <2>1 DEF Held
  <2>3. v # t
    BY <2>2 DEF Unannounced
  <2>4. QED
    BY <1>3, <1>6, <2>2, <2>3
<1>8. CASE p \notin claimed[a]
  <2>1. /\ range[t] # NoRange /\ range[t] < Ranges(a)
        /\ Ranges(a) = 1 \/ range[t] < drawn[a]
        /\ chunk[t] \in ChunksOf(a, range[t])
    BY <1>1 DEF RangesInOrder
  <2>2. range[t] \in Nat
    BY <2>1 DEF TypeOK
  <2>3. drawn[a] \in Nat
    BY <1>2 DEF TypeOK, Tasks
  <2>4. ASSUME NEW s \in 0 .. Ranges(a) - 1, NEW b \in ChunksOf(a, s) \cap claimed[a],
               NEW c \in ChunksOf(a, s), c < b
        PROVE  c \in claimed[a]
    BY <1>2, <2>4 DEF RangesInOrder
  <2>5. r # range[t]
    BY <1>2, <1>3, <1>6, <1>8, <2>1, <2>4
  <2>6. ~(range[t] < r)
    <3> DEFINE f(s) == FirstChunk(a, s)
    <3>1. ASSUME range[t] < r PROVE FALSE
      <4>1. range[t] + 1 \in Nat /\ r \in Nat /\ range[t] + 1 <= r /\ r + 1 \in Nat
        BY <1>4, <2>2, <3>1
      <4>2. f(range[t] + 1) <= f(r) /\ f(range[t] + 1) \in Nat /\ f(r) \in Nat
              /\ f(range[t]) \in Nat /\ f(r + 1) \in Nat
        BY <1>4, <2>2, <4>1, FirstChunks
      <4>3. chunk[t] \in f(range[t]) .. f(range[t] + 1) - 1 /\ p \in f(r) .. f(r + 1) - 1
        BY <1>6, <2>1 DEF ChunksOf
      <4> HIDE DEF f, p
      <4>4. QED
        BY <1>2, <1>3, <4>2, <4>3
    <3>2. QED
      BY <3>1
  <2>7. r < range[t] /\ Ranges(a) # 1
    BY <1>4, <1>6, <2>1, <2>2, <2>5, <2>6
  <2>8. r < drawn[a]
    BY <1>6, <2>1, <2>2, <2>3, <2>7
  <2>9. ChunksOf(a, r) \subseteq claimed[a] \/ \E v \in Threads : task[v] = a /\ range[v] = r
    BY <1>2, <1>6, <2>8 DEF RangesInOrder
  <2>10. PICK v \in Threads : task[v] = a /\ range[v] = r
    BY <1>6, <1>8, <2>9
  <2>11. v # t /\ range[v] # NoRange
    BY <1>6, <2>7, <2>10 DEF NoRange
  <2>12. AtClaim(v) \/ (pc[v] \in Working /\ chunk[v] \in ChunksOf(a, r))
    BY <2>10, <2>11 DEF RangesInOrder
  <2>13. CASE AtClaim(v)
    BY <1>6, <2>10, <2>11, <2>13
  <2>14. CASE pc[v] \in Working /\ chunk[v] \in ChunksOf(a, r)
    BY <1>3, <1>6, <1>8, <2>4, <2>10, <2>11, <2>14, BlockTypes
  <2>15. QED
    BY <2>12, <2>13, <2>14
<1>9. QED
  BY <1>7, <1>8

-----------------------------------------------------------------------------
(* The chunks of the task of an array.                                     *)

PoolInv == ThreadsOnTasks /\ TaskStages /\ PushedOnce /\ RangesInOrder

SumInv ==
  AnnouncedIsThere /\ AnnouncedInOrder /\ LookBackInBounds /\ SequentialThreads /\ SumsSoFar

(* A thread that works on a block, and where it is in the array.           *)
LEMMA BlockFacts ==
  ASSUME TypeOK, ThreadsOnTasks, NEW t \in Threads, pc[t] \in Working, task[t][2] # 0
  PROVE  LET a == task[t]
             b == chunk[t]
         IN  /\ a \in Tasks /\ a \in DOMAIN temp_state /\ Live(a) /\ IsArray(a)
             /\ b \in Blocks(a) /\ b \in Nat /\ b \in claimed[a]
             /\ 0 \in Blocks(a)
             /\ b # 0 => b - 1 \in Blocks(a)
             /\ \A d \in 0 .. b - 1 : d \in Blocks(a) /\ d \in Nat /\ d < b
             /\ \A d \in Blocks(a) : d \in Nat
             /\ temp_state[a] \in
                  [Blocks(a) -> {"initialized", "aggregate available", "prefix available"}]
             /\ aggregate[a] \in [Blocks(a) -> Nat] /\ prefix[a] \in [Blocks(a) -> Nat]
             /\ DOMAIN aggregate = DOMAIN temp_state /\ DOMAIN prefix = DOMAIN temp_state
             /\ DOMAIN output = DOMAIN temp_state
             /\ sum[t] \in Nat /\ previous[t] \in Int
             /\ Local(a, b) \in Nat
             /\ \A u \in Threads \ {t} : pc[u] \in Working /\ task[u] = a => chunk[u] # b
<1> DEFINE a == task[t]
           b == chunk[t]
<1>1. a \in Tasks /\ b \in claimed[a] /\ b \in Blocks(a) /\ b \in Nat /\ Live(a)
  BY BlockTypes
<1>2. a \in DOMAIN temp_state /\ IsArray(a) /\ Size(a) \in Nat
  BY <1>1, TaskTypes
<1>3. /\ 0 \in Blocks(a) /\ (b # 0 => b - 1 \in Blocks(a))
      /\ \A d \in 0 .. b - 1 : d \in Blocks(a) /\ d \in Nat /\ d < b
      /\ \A d \in Blocks(a) : d \in Nat
  BY <1>1, <1>2 DEF Blocks
<1>4. /\ temp_state[a] \in
           [Blocks(a) -> {"initialized", "aggregate available", "prefix available"}]
      /\ aggregate[a] \in [Blocks(a) -> Nat] /\ prefix[a] \in [Blocks(a) -> Nat]
  BY <1>2 DEF TypeOK
<1>5. /\ DOMAIN aggregate = DOMAIN temp_state /\ DOMAIN prefix = DOMAIN temp_state
      /\ DOMAIN output = DOMAIN temp_state
      /\ sum[t] \in Nat /\ previous[t] \in Int
  BY DEF TypeOK
<1>6. Local(a, b) \in Nat
  BY <1>1, <1>2, PrefixOfNext
<1>7. \A u \in Threads \ {t} : pc[u] \in Working /\ task[u] = a => chunk[u] # b
  BY DEF ThreadsOnTasks
<1>8. QED
  BY <1>1, <1>2, <1>3, <1>4, <1>5, <1>6, <1>7

(* What a step of a chunk is to the pool: the thread goes on with its      *)
(* block, or is done with it.                                              *)
BlockStep(t) ==
  /\ pc[t] \in Working /\ task[t][2] # 0
  /\ \E l \in (Working \ {"run"}) \cup {"claim"} : Goto(t, l)
  /\ UNCHANGED control

LEMMA BlockStepFrame ==
  ASSUME TypeOK, ThreadsOnTasks, NEW t \in Threads, RunBlock(t)
  PROVE  BlockStep(t)
<1> USE DEF Working, Unannounced, Looking, Late
<1>1. pc[t] \in Working /\ pc[t] # "run" => task[t][2] # 0
  BY DEF ThreadsOnTasks
<1>2. CASE CheckPrevious(t)
  BY <1>2 DEF CheckPrevious, BlockStep
<1>3. CASE LoadPrefix(t)
  BY <1>1, <1>3 DEF LoadPrefix, BlockStep
<1>4. CASE ScanBlock(t)
  BY <1>1, <1>4 DEF ScanBlock, BlockStep
<1>5. CASE StorePrefix(t)
  BY <1>1, <1>5 DEF StorePrefix, BlockStep
<1>6. CASE PublishPrefix(t)
  BY <1>1, <1>6 DEF PublishPrefix, BlockStep
<1>7. CASE StoreAggregate(t)
  BY <1>1, <1>7 DEF StoreAggregate, BlockStep
<1>8. CASE PublishAggregate(t)
  BY <1>1, <1>8 DEF PublishAggregate, BlockStep
<1>9. CASE LookBack(t)
  BY <1>1, <1>9 DEF LookBack, BlockStep
<1>10. CASE AddPrefix(t)
  BY <1>1, <1>10 DEF AddPrefix, BlockStep
<1>11. CASE AddAggregate(t)
  BY <1>1, <1>11 DEF AddAggregate, BlockStep
<1>12. QED
  BY <1>2, <1>3, <1>4, <1>5, <1>6, <1>7, <1>8, <1>9, <1>10, <1>11 DEF RunBlock

LEMMA BlockStepPool ==
  ASSUME TypeOK, PoolInv, NEW t \in Threads, BlockStep(t)
  PROVE  /\ PoolInv'
         /\ \A a : Live(a)' <=> Live(a)
         /\ \A u \in Threads \ {t} : pc'[u] = pc[u]
         /\ pc'[t] \in (Working \ {"run"}) \cup {"claim"}
         /\ pc' \in [Threads -> PoolLabels \cup Working \cup {"finish"}]
<1>1. PICK l \in (Working \ {"run"}) \cup {"claim"} : pc' = [pc EXCEPT ![t] = l]
  BY DEF BlockStep, Goto
<1>2. pc \in [Threads -> PoolLabels \cup Working \cup {"finish"}]
  BY DEF TypeOK
<1>3. /\ \A u \in Threads \ {t} : pc'[u] = pc[u]
      /\ pc'[t] \in (Working \ {"run"}) \cup {"claim"}
      /\ pc' \in [Threads -> PoolLabels \cup Working \cup {"finish"}]
  BY <1>1, <1>2 DEF PoolLabels
<1>4. /\ UNCHANGED <<open, claimed, drawn, range, round, queued, is_finished, task, chunk>>
      /\ pc[t] \in Working /\ task[t][2] # 0
  BY DEF BlockStep, control, scheduling
<1>5. ThreadsOnTasks'
  BY <1>3, <1>4 DEF Working, Unannounced, Looking, Late, PoolInv, ThreadsOnTasks
<1>6. TaskStages'
  BY <1>3, <1>4 DEF Working, Unannounced, Looking, Late, PoolInv, TaskStages
<1>7. \A a : Live(a)' <=> Live(a)
  BY <1>4 DEF Live
<1>8. PushedOnce'
  BY <1>3, <1>4, <1>7 DEF Working, Untouched, PoolInv, PushedOnce, ToRun, Tasks
<1>9. RangesInOrder'
  <2>1. \A u \in Threads : pc'[u] \in Working => pc[u] \in Working
    BY <1>3, <1>4
  <2>2. \A u \in Threads : (AtClaim(u) \/ pc[u] \in Working) => AtClaim(u)' \/ pc'[u] \in Working
    BY <1>3 DEF AtClaim
  <2>3. \A a : Ranges(a)' = Ranges(a)
    BY DEF Ranges, Program
  <2>4. \A a, r : ChunksOf(a, r)' = ChunksOf(a, r)
    BY DEF ChunksOf, FirstChunk
  <2>5. QED
    BY <1>4, <2>1, <2>2, <2>3, <2>4 DEF PoolInv, RangesInOrder, Tasks
<1>10. QED
  BY <1>3, <1>5, <1>6, <1>7, <1>8, <1>9 DEF PoolInv

(* What a step of a chunk is to the sums: it changes no other block, takes *)
(* back nothing that was announced, and keeps to what the thread has       *)
(* summed up and announced.                                                *)
OwnBlockOnly(t) ==
  LET a == task[t]
      b == chunk[t]
  IN  /\ \A c \in DOMAIN temp_state \ {a} :
           temp_state'[c] = temp_state[c] /\ aggregate'[c] = aggregate[c] /\ prefix'[c] = prefix[c]
      /\ \A d \in Blocks(a) \ {b} :
           /\ temp_state'[a][d] = temp_state[a][d]
           /\ aggregate'[a][d] = aggregate[a][d]
           /\ prefix'[a][d] = prefix[a][d]
      /\ temp_state[a][b] # "initialized" =>
           temp_state'[a][b] # "initialized" /\ aggregate'[a][b] = aggregate[a][b]
      /\ temp_state[a][b] = "prefix available" => temp_state'[a][b] = "prefix available"
      /\ \A u \in Threads \ {t} :
           sequential'[u] = sequential[u] /\ previous'[u] = previous[u] /\ sum'[u] = sum[u]

OwnSums(t) ==
  LET a == task[t]
      b == chunk[t]
  IN  /\ SumSoFar(t)'
      /\ pc'[t] \notin Summing => sum'[t] = 0
      /\ pc'[t] \in Looking => previous'[t] \in 0 .. b - 1
      /\ temp_state'[a][b] = "aggregate available" => b # 0 /\ aggregate'[a][b] = Local(a, b)
      /\ temp_state'[a][b] = "prefix available" =>
           temp_state'[a][0] = "prefix available" /\ prefix'[a][b] = Before(a, b + 1)
      /\ temp_state'[a][b] = "initialized" => pc'[t] \in Unannounced

LEMMA BlockStepSums ==
  ASSUME TypeOK, PoolInv, SumInv, TypeOK', NEW t \in Threads, BlockStep(t),
         DOMAIN temp_state' = DOMAIN temp_state, OwnBlockOnly(t), OwnSums(t)
  PROVE  SumInv'
<1> DEFINE a == task[t]
           b == chunk[t]
<1>1. /\ UNCHANGED <<claimed, task, chunk>> /\ pc[t] \in Working /\ task[t][2] # 0
  BY DEF BlockStep, control, scheduling
<1>2. /\ a \in Tasks /\ a \in DOMAIN temp_state /\ b \in Blocks(a) /\ 0 \in Blocks(a)
      /\ \A u \in Threads \ {t} : pc[u] \in Working /\ task[u] = a => chunk[u] # b
  BY <1>1, BlockFacts DEF PoolInv
<1>3. /\ \A c : Live(c)' <=> Live(c)
      /\ \A u \in Threads \ {t} : pc'[u] = pc[u]
      /\ pc'[t] \in (Working \ {"run"}) \cup {"claim"}
  BY BlockStepPool
<1>4. \A c : Blocks(c)' = Blocks(c)
  BY DEF Blocks, Size, Program, Input
<1>5. /\ \A c, d : Local(c, d)' = Local(c, d)
      /\ \A c, d : Before(c, d)' = Before(c, d)
  BY DEF Local, Before, Total, Weight, BlockStart, Program, Input
<1>6. ASSUME NEW c \in DOMAIN temp_state, NEW d \in Blocks(c), c # a \/ d # b
       PROVE  /\ temp_state'[c][d] = temp_state[c][d]
              /\ aggregate'[c][d] = aggregate[c][d]
              /\ prefix'[c][d] = prefix[c][d]
  BY <1>6 DEF OwnBlockOnly
<1>7. AnnouncedIsThere'
  <2> SUFFICES ASSUME NEW c \in DOMAIN temp_state, Live(c), NEW d \in Blocks(c)
               PROVE  /\ temp_state'[c][d] = "aggregate available" => aggregate'[c][d] = Local(c, d)
                      /\ temp_state'[c][d] = "prefix available" => prefix'[c][d] = Before(c, d + 1)
    BY <1>3, <1>4, <1>5 DEF AnnouncedIsThere
  <2>1. CASE c = a /\ d = b
    BY <2>1 DEF OwnSums
  <2>2. CASE c # a \/ d # b
    BY <1>6, <2>2 DEF SumInv, AnnouncedIsThere
  <2>3. QED
    BY <2>1, <2>2
<1>8. ASSUME NEW c \in DOMAIN temp_state, NEW d \in Blocks(c)
      PROVE  /\ temp_state[c][d] = "prefix available" => temp_state'[c][d] = "prefix available"
             /\ temp_state[c][d] # "initialized" =>
                  temp_state'[c][d] # "initialized" /\ aggregate'[c][d] = aggregate[c][d]
  BY DEF OwnBlockOnly
<1>9. AnnouncedInOrder'
  <2>1. AnnouncedInOrder
    BY DEF SumInv
  <2> SUFFICES ASSUME NEW c \in DOMAIN temp_state, Live(c), NEW d \in Blocks(c)
               PROVE  /\ temp_state'[c][d] = "aggregate available" => d # 0
                      /\ temp_state'[c][d] = "prefix available" => temp_state'[c][0] = "prefix available"
                      /\ temp_state'[c][d] # "initialized" => d \in claimed[c]
                      /\ d \in claimed[c] /\ temp_state'[c][d] = "initialized" => Held(c, d)'
    BY <1>1, <1>3, <1>4 DEF AnnouncedInOrder
  <2>2. CASE c = a /\ d = b
    BY <1>1, <2>2, BlockFacts DEF PoolInv, Held, OwnSums
  <2>3. CASE c # a \/ d # b
    <3>1. temp_state'[c][d] = temp_state[c][d]
      BY <1>6, <2>3
    <3>2. /\ temp_state[c][d] = "aggregate available" => d # 0
          /\ temp_state[c][d] = "prefix available" => temp_state[c][0] = "prefix available"
          /\ temp_state[c][d] # "initialized" => d \in claimed[c]
          /\ d \in claimed[c] /\ temp_state[c][d] = "initialized" => Held(c, d)
      BY <2>1 DEF AnnouncedInOrder
    <3>3. 0 \in Blocks(c)
      <4>1. c \in Tasks
        BY TaskTypes
      <4>2. Size(c) \in Nat
        BY <4>1, TaskTypes
      <4>3. QED
        BY <4>2 DEF Blocks
    <3>4. temp_state[c][0] = "prefix available" => temp_state'[c][0] = "prefix available"
      BY <1>8, <3>3
    <3>5. ASSUME Held(c, d) PROVE Held(c, d)'
      <4>1. PICK u \in Threads : pc[u] \in Unannounced /\ task[u] = c /\ chunk[u] = d
        BY <3>5 DEF Held
      <4>2. u # t
        BY <2>3, <4>1
      <4>3. QED
        BY <1>1, <1>3, <4>1, <4>2 DEF Held
    <3>6. QED
      BY <3>1, <3>2, <3>4, <3>5
  <2>4. QED
    BY <2>2, <2>3
<1>10. LookBackInBounds'
  <2> SUFFICES ASSUME NEW u \in Threads, pc'[u] \in Looking PROVE previous'[u] \in 0 .. chunk[u] - 1
    BY <1>1 DEF LookBackInBounds
  <2>1. CASE u = t
    BY <2>1 DEF OwnSums
  <2>2. CASE u # t
    BY <1>3, <2>2 DEF SumInv, LookBackInBounds, OwnBlockOnly
  <2>3. QED
    BY <2>1, <2>2
<1>11. SequentialThreads'
  <2> SUFFICES ASSUME NEW u \in Threads
               PROVE  /\ pc'[u] \in {"idle", "assist", "leave", "finish", "returned"} => sequential'[u]
                      /\ sequential'[u] \/ task[u][2] # 0
    BY <1>1 DEF SequentialThreads
  <2>1. CASE u = t
    BY <1>1, <1>3, <2>1 DEF Working, Unannounced, Looking, Late
  <2>2. CASE u # t
    BY <1>3, <2>2 DEF SumInv, SequentialThreads, OwnBlockOnly
  <2>3. QED
    BY <2>1, <2>2
<1>12. SumsSoFar'
  <2> SUFFICES ASSUME NEW u \in Threads
               PROVE  /\ pc'[u] \notin Summing => sum'[u] = 0
                      /\ task[u] \in DOMAIN temp_state => SumSoFar(u)'
    BY <1>1 DEF SumsSoFar
  <2>1. CASE u = t
    BY <2>1 DEF OwnSums
  <2>2. CASE u # t
    <3>1. pc'[u] = pc[u] /\ sum'[u] = sum[u] /\ previous'[u] = previous[u]
            /\ sequential'[u] = sequential[u]
      BY <1>3, <2>2 DEF OwnBlockOnly
    <3>2. ASSUME task[u] \in DOMAIN temp_state PROVE SumSoFar(u)'
      <4> DEFINE c == task[u]
                 d == chunk[u]
      <4>1. SumSoFar(u)
        BY <3>2 DEF SumInv, SumsSoFar
      <4>2. c \in Tasks /\ c[2] # 0
        BY <3>2, TaskTypes
      <4>3. ASSUME pc[u] \in Working
            PROVE  /\ d \in Blocks(c) /\ (c # a \/ d # b)
                   /\ temp_state'[c][d] = temp_state[c][d]
                   /\ aggregate'[c][d] = aggregate[c][d]
                   /\ prefix'[c][d] = prefix[c][d]
                   /\ d # 0 => d - 1 \in Blocks(c)
                   /\ pc[u] \in Looking => previous[u] \in Blocks(c)
        <5>1. d \in Blocks(c) /\ (d # 0 => d - 1 \in Blocks(c))
                /\ \A e \in 0 .. d - 1 : e \in Blocks(c)
          BY <4>2, <4>3, BlockFacts DEF PoolInv
        <5>2. c # a \/ d # b
          BY <1>2, <2>2, <4>3
        <5>3. pc[u] \in Looking => previous[u] \in 0 .. d - 1
          BY DEF SumInv, LookBackInBounds
        <5>4. /\ temp_state'[c][d] = temp_state[c][d]
              /\ aggregate'[c][d] = aggregate[c][d]
              /\ prefix'[c][d] = prefix[c][d]
          BY <1>6, <3>2, <5>1, <5>2
        <5>5. QED
          BY <5>1, <5>2, <5>3, <5>4
      <4>4. temp_state[c][0] = "prefix available" => temp_state'[c][0] = "prefix available"
        <5>1. CASE c = a
          BY <1>2, <1>8, <5>1
        <5>2. CASE c # a
          BY <3>2, <5>2 DEF OwnBlockOnly
        <5>3. QED
          BY <5>1, <5>2
      <4> DEFINE e == previous[u]
      <4>5. pc[u] \in Working =>
              /\ d # 0 /\ temp_state[c][d - 1] = "prefix available" =>
                   temp_state'[c][d - 1] = "prefix available"
        BY <1>8, <3>2, <4>3
      <4>6. pc[u] \in Looking =>
              /\ temp_state[c][e] = "prefix available" => temp_state'[c][e] = "prefix available"
              /\ temp_state[c][e] # "initialized" =>
                   temp_state'[c][e] # "initialized" /\ aggregate'[c][e] = aggregate[c][e]
        BY <1>8, <3>2, <4>3 DEF Working
      <4>7. pc[u] \in Working =>
              /\ temp_state'[c][d] = temp_state[c][d]
              /\ aggregate'[c][d] = aggregate[c][d]
              /\ prefix'[c][d] = prefix[c][d]
        BY <4>3
      <4>8. QED
        BY <1>1, <1>5, <3>1, <4>1, <4>4, <4>5, <4>6, <4>7
        DEF SumSoFar, Working, Unannounced, Looking, Late
    <3>3. QED
      BY <3>1, <3>2 DEF SumInv, SumsSoFar
  <2>3. QED
    BY <2>1, <2>2
<1>13. QED
  BY <1>7, <1>9, <1>10, <1>11, <1>12 DEF SumInv

(* What is known of the block of a thread, of the first one, of the one    *)
(* before and of the one it looks at.                                      *)
LEMMA SeenBlocks ==
  ASSUME TypeOK, ThreadsOnTasks, SumInv, NEW t \in Threads, pc[t] \in Working, task[t][2] # 0
  PROVE  LET a == task[t]
             b == chunk[t]
             State == temp_state[a]
         IN  /\ SumSoFar(t)
             /\ pc[t] \notin Summing => sum[t] = 0
             /\ pc[t] \in Looking => previous[t] \in 0 .. b - 1
             /\ pc[t] \notin Unannounced => State[b] # "initialized"
             /\ Before(a, 0) = 0 /\ Before(a, b) \in Nat
             /\ Before(a, b + 1) = Before(a, b) + Local(a, b)
             /\ \A d \in Blocks(a) :
                  /\ State[d] \in {"initialized", "aggregate available", "prefix available"}
                  /\ State[d] = "aggregate available" => d # 0 /\ aggregate[a][d] = Local(a, d)
                  /\ State[d] = "prefix available" =>
                       State[0] = "prefix available" /\ prefix[a][d] = Before(a, d + 1)
<1> DEFINE a == task[t]
           b == chunk[t]
<1>1. /\ a \in DOMAIN temp_state /\ Live(a) /\ IsArray(a) /\ b \in Blocks(a) /\ b \in Nat
      /\ b \in claimed[a]
      /\ temp_state[a] \in
           [Blocks(a) -> {"initialized", "aggregate available", "prefix available"}]
      /\ \A u \in Threads \ {t} : pc[u] \in Working /\ task[u] = a => chunk[u] # b
  BY BlockFacts
<1>2. SumSoFar(t) /\ (pc[t] \notin Summing => sum[t] = 0)
  BY <1>1 DEF SumInv, SumsSoFar
<1>3. pc[t] \in Looking => previous[t] \in 0 .. b - 1
  BY DEF SumInv, LookBackInBounds
<1>4. ASSUME NEW d \in Blocks(a)
      PROVE  /\ temp_state[a][d] \in {"initialized", "aggregate available", "prefix available"}
             /\ temp_state[a][d] = "aggregate available" => d # 0 /\ aggregate[a][d] = Local(a, d)
             /\ temp_state[a][d] = "prefix available" =>
                  temp_state[a][0] = "prefix available" /\ prefix[a][d] = Before(a, d + 1)
             /\ d \in claimed[a] /\ temp_state[a][d] = "initialized" => Held(a, d)
  BY <1>1 DEF SumInv, AnnouncedIsThere, AnnouncedInOrder
<1>5. ASSUME pc[t] \notin Unannounced PROVE temp_state[a][b] # "initialized"
  BY <1>1, <1>4, <1>5 DEF Held, Working
<1>6. Before(a, 0) = 0 /\ Before(a, b) \in Nat /\ Before(a, b + 1) = Before(a, b) + Local(a, b)
  BY <1>1, PrefixOfNext
<1>7. QED
  BY <1>2, <1>3, <1>4, <1>5, <1>6

(* The effects of a step of a chunk.                                       *)
TempTypes ==
  \A c \in DOMAIN temp_state :
    /\ temp_state[c] \in
         [Blocks(c) -> {"initialized", "aggregate available", "prefix available"}]
    /\ aggregate[c] \in [Blocks(c) -> Nat]
    /\ prefix[c] \in [Blocks(c) -> Nat]

BlockEffects(t) ==
  /\ DOMAIN temp_state' = DOMAIN temp_state /\ DOMAIN aggregate' = DOMAIN aggregate
  /\ DOMAIN prefix' = DOMAIN prefix /\ DOMAIN output' = DOMAIN output
  /\ TempTypes'
  /\ sequential' \in [Threads -> BOOLEAN]
  /\ previous' \in [Threads -> Int]
  /\ sum' \in [Threads -> Nat]
  /\ OwnBlockOnly(t)
  /\ OwnSums(t)

LEMMA BlockStepTypes ==
  ASSUME TypeOK, PoolInv, NEW t \in Threads, BlockStep(t), BlockEffects(t)
  PROVE  TypeOK'
<1>1. UNCHANGED <<claimed, drawn, queued, open, is_finished, pending, task, chunk, range, round>>
  BY DEF BlockStep, control, scheduling
<1>2. pc' \in [Threads -> PoolLabels \cup Working \cup {"finish"}]
  BY BlockStepPool
<1>3. PICK p \in DOMAIN Programs :
        /\ DOMAIN claimed = {InitialTask(p)} \cup Arrays(p)
        /\ DOMAIN temp_state = Arrays(p) /\ DOMAIN output = Arrays(p)
        /\ DOMAIN aggregate = Arrays(p) /\ DOMAIN prefix = Arrays(p)
        /\ drawn \in [{InitialTask(p)} \cup Arrays(p) -> Nat]
  BY DEF TypeOK
<1>4. \E q \in DOMAIN Programs :
        /\ DOMAIN claimed' = {InitialTask(q)} \cup Arrays(q)
        /\ DOMAIN temp_state' = Arrays(q) /\ DOMAIN output' = Arrays(q)
        /\ DOMAIN aggregate' = Arrays(q) /\ DOMAIN prefix' = Arrays(q)
        /\ drawn' \in [{InitialTask(q)} \cup Arrays(q) -> Nat]
  BY <1>1, <1>3 DEF BlockEffects
<1>5. \A c : Blocks(c)' = Blocks(c)
  BY DEF Blocks, Size, Program, Input
<1>6. \A q : InitialTask(q)' = InitialTask(q) /\ Arrays(q)' = Arrays(q)
  BY DEF InitialTask, Arrays
<1>7. QED
  BY <1>1, <1>2, <1>4, <1>5, <1>6 DEF TypeOK, BlockEffects, TempTypes, Tasks

(* The steps that read `temp` or scan a block leave `temp` as it is.       *)
LEMMA ReadingStep ==
  ASSUME TypeOK, NEW t \in Threads, UNCHANGED temp, DOMAIN output' = DOMAIN output,
         NEW q \in BOOLEAN, NEW p \in Int, NEW s \in Nat,
         sequential' = [sequential EXCEPT ![t] = q],
         previous' = [previous EXCEPT ![t] = p],
         sum' = [sum EXCEPT ![t] = s],
         OwnSums(t)
  PROVE  BlockEffects(t)
<1>1. UNCHANGED <<temp_state, aggregate, prefix>>
  BY DEF temp
<1>2. /\ sequential \in [Threads -> BOOLEAN]
      /\ previous \in [Threads -> Int] /\ sum \in [Threads -> Nat]
  BY DEF TypeOK
<1>3. \A c : Blocks(c)' = Blocks(c)
  BY DEF Blocks, Size, Program, Input
<1>4. TempTypes'
  BY <1>1, <1>3 DEF TypeOK, TempTypes
<1>5. OwnBlockOnly(t)
  BY <1>1, <1>2 DEF OwnBlockOnly
<1>6. QED
  BY <1>1, <1>2, <1>4, <1>5 DEF BlockEffects

(* No function of the array changes.                                       *)
LEMMA SameArrays ==
  /\ \A c, d : Local(c, d)' = Local(c, d) /\ Before(c, d)' = Before(c, d)
  /\ \A c, d, e : Total(c, BlockStart(c, d), BlockStart(c, e))'
                    = Total(c, BlockStart(c, d), BlockStart(c, e))
BY DEF Local, Before, Total, Weight, BlockStart, Program, Input

LEMMA CheckPreviousEffects ==
  ASSUME TypeOK, PoolInv, SumInv, NEW t \in Threads, CheckPrevious(t)
  PROVE  BlockEffects(t)
<1> DEFINE a == task[t]
           b == chunk[t]
           known == b # 0 /\ temp_state[a][b - 1] = "prefix available"
<1> USE DEF Working, Unannounced, Looking, Late, Summing
<1>1. /\ pc[t] = "run" /\ task[t][2] # 0
      /\ UNCHANGED <<task, chunk, temp_state, aggregate, prefix, output, previous, sum>>
  BY DEF CheckPrevious, control, temp
<1>2. /\ SumSoFar(t) /\ sum[t] = 0
      /\ Before(a, 0) = 0
      /\ \A d \in Blocks(a) :
           /\ temp_state[a][d] = "aggregate available" => d # 0 /\ aggregate[a][d] = Local(a, d)
           /\ temp_state[a][d] = "prefix available" =>
                temp_state[a][0] = "prefix available" /\ prefix[a][d] = Before(a, d + 1)
  BY <1>1, SeenBlocks DEF PoolInv
<1>3. b \in Blocks(a) /\ b \in Nat
  BY <1>1, BlockFacts DEF PoolInv
<1>4. /\ temp_state[a][b] = "initialized"
      /\ ~sequential[t] => temp_state[a][0] = "prefix available"
  BY <1>1, <1>2 DEF SumSoFar
<1>5. /\ sequential \in [Threads -> BOOLEAN]
      /\ pc \in [Threads -> PoolLabels \cup Working \cup {"finish"}]
      /\ previous \in [Threads -> Int] /\ sum \in [Threads -> Nat]
  BY DEF TypeOK
<1>6. PICK l \in {"load", "scan", "fold"}, q \in BOOLEAN :
        /\ pc' = [pc EXCEPT ![t] = l] /\ sequential' = [sequential EXCEPT ![t] = q]
        /\ l = "load" => known
        /\ l = "scan" => b = 0
        /\ l = "fold" => ~q /\ b # 0
  <2>1. CASE sequential[t] /\ known /\ Goto(t, "load") /\ UNCHANGED sequential
    BY <1>5, <2>1 DEF Goto
  <2>2. CASE sequential[t] /\ b = 0 /\ Goto(t, "scan") /\ UNCHANGED sequential
    BY <1>5, <2>2 DEF Goto
  <2>3. CASE /\ ~sequential[t] \/ (b # 0 /\ ~known)
             /\ Goto(t, "fold") /\ sequential' = [sequential EXCEPT ![t] = FALSE]
    BY <1>4, <1>5, <2>3 DEF Goto
  <2>4. QED
    BY <2>1, <2>2, <2>3 DEF CheckPrevious
<1>7. pc'[t] = l /\ sequential'[t] = q
  BY <1>5, <1>6
<1>8. SumSoFar(t)'
  BY <1>1, <1>2, <1>4, <1>6, <1>7, SameArrays DEF SumSoFar
<1>9. OwnSums(t)
  BY <1>1, <1>2, <1>3, <1>4, <1>6, <1>7, <1>8 DEF OwnSums
<1>10. QED
  <2>1. previous' = [previous EXCEPT ![t] = previous[t]] /\ sum' = [sum EXCEPT ![t] = sum[t]]
          /\ previous[t] \in Int /\ sum[t] \in Nat
    BY <1>1, <1>5
  <2>2. UNCHANGED temp /\ DOMAIN output' = DOMAIN output
    BY <1>1 DEF temp
  <2>3. QED
    BY <1>6, <1>9, <2>1, <2>2, ReadingStep

LEMMA LoadPrefixEffects ==
  ASSUME TypeOK, PoolInv, SumInv, NEW t \in Threads, LoadPrefix(t)
  PROVE  BlockEffects(t)
<1> DEFINE a == task[t]
           b == chunk[t]
<1> USE DEF Working, Unannounced, Looking, Late, Summing
<1>1. /\ pc[t] = "load" /\ task[t][2] # 0
      /\ UNCHANGED <<task, chunk, temp_state, aggregate, prefix, output, previous, sequential>>
      /\ sum' = [sum EXCEPT ![t] = prefix[a][b - 1]] /\ pc' = [pc EXCEPT ![t] = "scan"]
  BY DEF LoadPrefix, control, temp, Goto, PoolInv, ThreadsOnTasks
<1>2. /\ b \in Nat /\ b \in Blocks(a) /\ (b # 0 => b - 1 \in Blocks(a))
      /\ prefix[a] \in [Blocks(a) -> Nat]
  BY <1>1, BlockFacts DEF PoolInv
<1>3. /\ SumSoFar(t)
      /\ \A d \in Blocks(a) :
           /\ temp_state[a][d] = "aggregate available" => d # 0 /\ aggregate[a][d] = Local(a, d)
           /\ temp_state[a][d] = "prefix available" =>
                temp_state[a][0] = "prefix available" /\ prefix[a][d] = Before(a, d + 1)
  BY <1>1, SeenBlocks DEF PoolInv
<1>4. temp_state[a][b] = "initialized" /\ b # 0 /\ temp_state[a][b - 1] = "prefix available"
  BY <1>1, <1>3 DEF SumSoFar
<1>5. b - 1 \in Blocks(a) /\ (b - 1) + 1 = b /\ prefix[a][b - 1] \in Nat
  <2>1. b - 1 \in Blocks(a)
    BY <1>2, <1>4
  <2>2. (b - 1) + 1 = b
    BY <1>2
  <2>3. QED
    BY <1>2, <2>1, <2>2
<1>6. temp_state[a][0] = "prefix available" /\ prefix[a][b - 1] = Before(a, b)
  BY <1>3, <1>4, <1>5
<1>7. /\ sequential \in [Threads -> BOOLEAN]
      /\ pc \in [Threads -> PoolLabels \cup Working \cup {"finish"}]
      /\ previous \in [Threads -> Int] /\ sum \in [Threads -> Nat]
  BY DEF TypeOK
<1>8. pc'[t] = "scan" /\ sum'[t] = Before(a, b)
  BY <1>1, <1>6, <1>7
<1>9. SumSoFar(t)'
  BY <1>1, <1>3, <1>4, <1>6, <1>8, SameArrays DEF SumSoFar
<1>10. OwnSums(t)
  BY <1>1, <1>2, <1>3, <1>4, <1>8, <1>9 DEF OwnSums
<1>11. QED
  <2>1. /\ previous' = [previous EXCEPT ![t] = previous[t]] /\ previous[t] \in Int
        /\ sequential' = [sequential EXCEPT ![t] = sequential[t]] /\ sequential[t] \in BOOLEAN
    BY <1>1, <1>7
  <2>2. UNCHANGED temp /\ DOMAIN output' = DOMAIN output
    BY <1>1 DEF temp
  <2>3. QED
    BY <1>1, <1>5, <1>10, <2>1, <2>2, ReadingStep

LEMMA ScanBlockEffects ==
  ASSUME TypeOK, PoolInv, SumInv, NEW t \in Threads, ScanBlock(t)
  PROVE  BlockEffects(t)
<1> DEFINE a == task[t]
           b == chunk[t]
<1> USE DEF Working, Unannounced, Looking, Late, Summing
<1>1. /\ pc[t] \in {"scan", "scanLate"} /\ task[t][2] # 0
      /\ UNCHANGED <<task, chunk, temp_state, aggregate, prefix, previous, sequential>>
      /\ DOMAIN output' = DOMAIN output
  BY DEF ScanBlock, control, temp, Goto, PoolInv, ThreadsOnTasks
<1>2. /\ SumSoFar(t) /\ (pc[t] \notin Unannounced => temp_state[a][b] # "initialized")
      /\ \A d \in Blocks(a) :
           /\ temp_state[a][d] = "aggregate available" => d # 0 /\ aggregate[a][d] = Local(a, d)
           /\ temp_state[a][d] = "prefix available" =>
                temp_state[a][0] = "prefix available" /\ prefix[a][d] = Before(a, d + 1)
  BY <1>1, SeenBlocks DEF PoolInv
<1>3. b \in Blocks(a) /\ b \in Nat
  BY <1>1, BlockFacts DEF PoolInv
<1>4. /\ sequential \in [Threads -> BOOLEAN]
      /\ pc \in [Threads -> PoolLabels \cup Working \cup {"finish"}]
      /\ previous \in [Threads -> Int] /\ sum \in [Threads -> Nat]
  BY DEF TypeOK
<1>5. PICK l \in {"store", "claim"}, s \in Nat :
        /\ pc' = [pc EXCEPT ![t] = l] /\ sum' = [sum EXCEPT ![t] = s]
        /\ l = "store" => pc[t] = "scan" /\ s = sum[t]
        /\ l = "claim" => pc[t] = "scanLate" /\ s = 0
  <2>1. CASE pc[t] = "scan"
    BY <1>4, <2>1 DEF ScanBlock, Goto
  <2>2. CASE pc[t] = "scanLate"
    BY <1>4, <2>2 DEF ScanBlock, Goto
  <2>3. QED
    BY <1>1, <2>1, <2>2
<1>6. pc'[t] = l /\ sum'[t] = s
  BY <1>4, <1>5
<1>7. SumSoFar(t)'
  BY <1>1, <1>2, <1>5, <1>6, SameArrays DEF SumSoFar
<1>8. OwnSums(t)
  BY <1>1, <1>2, <1>3, <1>5, <1>6, <1>7 DEF OwnSums
<1>9. QED
  BY <1>1, <1>4, <1>5, <1>8, ReadingStep DEF temp

LEMMA LookBackEffects ==
  ASSUME TypeOK, PoolInv, SumInv, NEW t \in Threads, LookBack(t)
  PROVE  BlockEffects(t)
<1> DEFINE a == task[t]
           b == chunk[t]
           p == previous[t]
<1> USE DEF Working, Unannounced, Looking, Late, Summing
<1>1. /\ pc[t] = "look" /\ task[t][2] # 0 /\ temp_state[a][p] # "initialized"
      /\ UNCHANGED <<task, chunk, temp_state, aggregate, prefix, output, previous, sequential, sum>>
      /\ pc' = [pc EXCEPT ![t] = IF temp_state[a][p] = "prefix available"
                                   THEN "addPrefix" ELSE "addAggregate"]
  BY DEF LookBack, control, temp, look, Goto, PoolInv, ThreadsOnTasks
<1>2. /\ SumSoFar(t) /\ p \in 0 .. b - 1
      /\ \A d \in Blocks(a) :
           /\ temp_state[a][d] \in {"initialized", "aggregate available", "prefix available"}
           /\ temp_state[a][d] = "aggregate available" => d # 0 /\ aggregate[a][d] = Local(a, d)
           /\ temp_state[a][d] = "prefix available" =>
                temp_state[a][0] = "prefix available" /\ prefix[a][d] = Before(a, d + 1)
  BY <1>1, SeenBlocks DEF PoolInv
<1>3. b \in Blocks(a) /\ b \in Nat /\ p \in Blocks(a)
  BY <1>1, <1>2, BlockFacts DEF PoolInv
<1>4. /\ sequential \in [Threads -> BOOLEAN]
      /\ pc \in [Threads -> PoolLabels \cup Working \cup {"finish"}]
      /\ previous \in [Threads -> Int] /\ sum \in [Threads -> Nat]
  BY DEF TypeOK
<1>5. PICK l \in {"addPrefix", "addAggregate"} :
        /\ pc' = [pc EXCEPT ![t] = l] /\ pc'[t] = l
        /\ l = "addPrefix" => temp_state[a][p] = "prefix available"
        /\ l = "addAggregate" => temp_state[a][p] = "aggregate available"
  BY <1>1, <1>2, <1>3, <1>4
<1>6. l = "addAggregate" => p # 0 /\ aggregate[a][p] = Local(a, p)
  BY <1>2, <1>3, <1>5
<1>7. SumSoFar(t)'
  BY <1>1, <1>2, <1>5, <1>6, SameArrays DEF SumSoFar
<1>8. temp_state[a][b] = "aggregate available"
  BY <1>1, <1>2 DEF SumSoFar
<1>9. OwnSums(t)
  BY <1>1, <1>2, <1>3, <1>5, <1>7, <1>8 DEF OwnSums
<1>10. QED
  <2>1. /\ previous' = [previous EXCEPT ![t] = previous[t]] /\ previous[t] \in Int
        /\ sequential' = [sequential EXCEPT ![t] = sequential[t]] /\ sequential[t] \in BOOLEAN
        /\ sum' = [sum EXCEPT ![t] = sum[t]] /\ sum[t] \in Nat
    BY <1>1, <1>4
  <2>2. UNCHANGED temp /\ DOMAIN output' = DOMAIN output
    BY <1>1 DEF temp
  <2>3. QED
    BY <1>9, <2>1, <2>2, ReadingStep

LEMMA AddPrefixEffects ==
  ASSUME TypeOK, PoolInv, SumInv, NEW t \in Threads, AddPrefix(t)
  PROVE  BlockEffects(t)
<1> DEFINE a == task[t]
           b == chunk[t]
           p == previous[t]
           s == prefix[a][p] + sum[t]
<1> USE DEF Working, Unannounced, Looking, Late, Summing
<1>1. /\ pc[t] = "addPrefix" /\ task[t][2] # 0
      /\ UNCHANGED <<task, chunk, temp_state, aggregate, prefix, output, sequential>>
      /\ pc' = [pc EXCEPT ![t] = "storeLate"]
      /\ sum' = [sum EXCEPT ![t] = s] /\ previous' = [previous EXCEPT ![t] = 0]
  BY DEF AddPrefix, control, temp, Goto, PoolInv, ThreadsOnTasks
<1>2. /\ SumSoFar(t) /\ p \in 0 .. b - 1
      /\ \A d \in Blocks(a) :
           /\ temp_state[a][d] = "aggregate available" => d # 0 /\ aggregate[a][d] = Local(a, d)
           /\ temp_state[a][d] = "prefix available" =>
                temp_state[a][0] = "prefix available" /\ prefix[a][d] = Before(a, d + 1)
  BY <1>1, SeenBlocks DEF PoolInv
<1>3. /\ b \in Blocks(a) /\ b \in Nat /\ p \in Blocks(a) /\ p \in Nat /\ p < b /\ IsArray(a)
      /\ prefix[a] \in [Blocks(a) -> Nat] /\ sum[t] \in Nat
  BY <1>1, <1>2, BlockFacts DEF PoolInv
<1>4. /\ temp_state[a][b] = "aggregate available" /\ ~sequential[t]
      /\ temp_state[a][p] = "prefix available"
      /\ sum[t] = Total(a, BlockStart(a, p + 1), BlockStart(a, b))
  BY <1>1, <1>2 DEF SumSoFar
<1>5. temp_state[a][0] = "prefix available" /\ prefix[a][p] = Before(a, p + 1)
  BY <1>2, <1>3, <1>4
<1>6. s = Before(a, b) /\ s \in Nat
  <2>1. prefix[a][p] \in Nat
    BY <1>3
  <2>2. Before(a, b) = Before(a, p + 1) + Total(a, BlockStart(a, p + 1), BlockStart(a, b))
    BY <1>3, LookBackSums
  <2> DEFINE x == prefix[a][p]
             y == sum[t]
             seen == Total(a, BlockStart(a, p + 1), BlockStart(a, b))
  <2>3. x \in Nat /\ y \in Nat /\ y = seen /\ x = Before(a, p + 1) /\ s = x + y
    BY <1>3, <1>4, <1>5, <2>1
  <2> HIDE DEF s, x, y, seen
  <2>4. Before(a, b) = x + y
    BY <2>2, <2>3 DEF seen
  <2>5. QED
    BY <2>3, <2>4
<1>7. /\ sequential \in [Threads -> BOOLEAN]
      /\ pc \in [Threads -> PoolLabels \cup Working \cup {"finish"}]
      /\ previous \in [Threads -> Int] /\ sum \in [Threads -> Nat]
  BY DEF TypeOK
<1> HIDE DEF s
<1>8. pc'[t] = "storeLate" /\ sum'[t] = s
  BY <1>1, <1>7
<1>9. SumSoFar(t)'
  BY <1>1, <1>4, <1>5, <1>6, <1>8, SameArrays DEF SumSoFar
<1>10. OwnSums(t)
  BY <1>1, <1>2, <1>3, <1>4, <1>8, <1>9 DEF OwnSums
<1>11. QED
  <2>1. sequential' = [sequential EXCEPT ![t] = sequential[t]] /\ sequential[t] \in BOOLEAN /\ 0 \in Int
    BY <1>1, <1>7
  <2>2. UNCHANGED temp /\ DOMAIN output' = DOMAIN output
    BY <1>1 DEF temp
  <2>3. QED
    BY <1>1, <1>6, <1>10, <2>1, <2>2, ReadingStep

LEMMA AddAggregateEffects ==
  ASSUME TypeOK, PoolInv, SumInv, NEW t \in Threads, AddAggregate(t)
  PROVE  BlockEffects(t)
<1> DEFINE a == task[t]
           b == chunk[t]
           p == previous[t]
           s == aggregate[a][p] + sum[t]
           next == p - 1
<1> USE DEF Working, Unannounced, Looking, Late, Summing
<1>1. /\ pc[t] = "addAggregate" /\ task[t][2] # 0
      /\ UNCHANGED <<task, chunk, temp_state, aggregate, prefix, output, sequential>>
      /\ pc' = [pc EXCEPT ![t] = "look"]
      /\ sum' = [sum EXCEPT ![t] = s] /\ previous' = [previous EXCEPT ![t] = next]
  BY DEF AddAggregate, control, temp, Goto, PoolInv, ThreadsOnTasks
<1>2. /\ SumSoFar(t) /\ p \in 0 .. b - 1
      /\ \A d \in Blocks(a) :
           /\ temp_state[a][d] = "aggregate available" => d # 0 /\ aggregate[a][d] = Local(a, d)
           /\ temp_state[a][d] = "prefix available" =>
                temp_state[a][0] = "prefix available" /\ prefix[a][d] = Before(a, d + 1)
  BY <1>1, SeenBlocks DEF PoolInv
<1>3. /\ b \in Blocks(a) /\ b \in Nat /\ p \in Blocks(a) /\ p \in Nat /\ p < b /\ IsArray(a)
      /\ aggregate[a] \in [Blocks(a) -> Nat] /\ sum[t] \in Nat
  BY <1>1, <1>2, BlockFacts DEF PoolInv
<1>4. /\ temp_state[a][b] = "aggregate available" /\ ~sequential[t]
      /\ p # 0 /\ aggregate[a][p] = Local(a, p)
      /\ sum[t] = Total(a, BlockStart(a, p + 1), BlockStart(a, b))
  BY <1>1, <1>2 DEF SumSoFar
<1>5. next \in 0 .. b - 1 /\ next + 1 = p /\ next \in Int
  <2>1. p \in Nat /\ p # 0 /\ p < b /\ b \in Nat
    BY <1>3, <1>4
  <2> HIDE DEF p, b
  <2>2. QED
    BY <2>1
<1>6. s = Total(a, BlockStart(a, next + 1), BlockStart(a, b)) /\ s \in Nat
  <2>1. aggregate[a][p] \in Nat
    BY <1>3
  <2>2. Total(a, BlockStart(a, p), BlockStart(a, b)) =
          Local(a, p) + Total(a, BlockStart(a, p + 1), BlockStart(a, b))
    BY <1>3, LookBackSums
  <2> DEFINE x == aggregate[a][p]
             y == sum[t]
             seen == Total(a, BlockStart(a, p + 1), BlockStart(a, b))
  <2>3. x \in Nat /\ y \in Nat /\ y = seen /\ x = Local(a, p) /\ s = x + y
    BY <1>3, <1>4, <2>1
  <2> HIDE DEF s, x, y, seen
  <2>4. Total(a, BlockStart(a, p), BlockStart(a, b)) = x + y
    BY <2>2, <2>3 DEF seen
  <2>5. QED
    BY <1>5, <2>3, <2>4
<1>7. /\ sequential \in [Threads -> BOOLEAN]
      /\ pc \in [Threads -> PoolLabels \cup Working \cup {"finish"}]
      /\ previous \in [Threads -> Int] /\ sum \in [Threads -> Nat]
  BY DEF TypeOK
<1> HIDE DEF s, next
<1>8. pc'[t] = "look" /\ sum'[t] = s /\ previous'[t] = next
  BY <1>1, <1>7
<1>9. SumSoFar(t)'
  BY <1>1, <1>4, <1>6, <1>8, SameArrays DEF SumSoFar
<1>10. OwnSums(t)
  BY <1>1, <1>2, <1>3, <1>4, <1>5, <1>8, <1>9 DEF OwnSums
<1>11. QED
  BY <1>1, <1>5, <1>6, <1>7, <1>10, ReadingStep DEF temp

(* The steps that write `temp` write one element of one of its arrays.     *)
LEMMA WriteElement ==
  ASSUME NEW f, NEW a \in DOMAIN f, NEW B, NEW V, f[a] \in [B -> V],
         NEW b \in B, NEW v \in V, NEW g,
         g = [f EXCEPT ![a][b] = v] \/ (g = f /\ v = f[a][b])
  PROVE  /\ DOMAIN g = DOMAIN f /\ \A c \in DOMAIN f \ {a} : g[c] = f[c]
         /\ g[a] \in [B -> V] /\ g[a][b] = v
         /\ \A d \in B \ {b} : g[a][d] = f[a][d]
<1>1. CASE g = f /\ v = f[a][b]
  BY <1>1
<1>2. CASE g = [f EXCEPT ![a][b] = v]
  BY <1>2
<1>3. QED
  BY <1>1, <1>2

States == {"initialized", "aggregate available", "prefix available"}

(* The thread writes the state, aggregate and prefix of its block, takes   *)
(* back nothing, and may move on in its look-back.                         *)
Writes(t, st, ag, pr, p, s) ==
  LET a == task[t]
      b == chunk[t]
  IN  /\ st \in States /\ ag \in Nat /\ pr \in Nat /\ p \in Int /\ s \in Nat
      /\ \/ temp_state' = [temp_state EXCEPT ![a][b] = st]
         \/ temp_state' = temp_state /\ st = temp_state[a][b]
      /\ \/ aggregate' = [aggregate EXCEPT ![a][b] = ag]
         \/ aggregate' = aggregate /\ ag = aggregate[a][b]
      /\ \/ prefix' = [prefix EXCEPT ![a][b] = pr]
         \/ prefix' = prefix /\ pr = prefix[a][b]
      /\ temp_state[a][b] # "initialized" => st # "initialized" /\ ag = aggregate[a][b]
      /\ temp_state[a][b] = "prefix available" => st = "prefix available"
      /\ UNCHANGED <<output, sequential>>
      /\ previous' = [previous EXCEPT ![t] = p]
      /\ sum' = [sum EXCEPT ![t] = s]

LEMMA WritingStep ==
  ASSUME TypeOK, PoolInv, NEW t \in Threads, pc[t] \in Working, task[t][2] # 0,
         NEW st, NEW ag, NEW pr, NEW p, NEW s, Writes(t, st, ag, pr, p, s)
  PROVE  /\ temp_state'[task[t]][chunk[t]] = st /\ aggregate'[task[t]][chunk[t]] = ag
         /\ prefix'[task[t]][chunk[t]] = pr
         /\ temp_state'[task[t]][0] =
              IF chunk[t] = 0 THEN st ELSE temp_state[task[t]][0]
         /\ OwnSums(t) => BlockEffects(t)
<1> DEFINE a == task[t]
           b == chunk[t]
<1>1. /\ a \in DOMAIN temp_state /\ b \in Blocks(a) /\ 0 \in Blocks(a)
      /\ temp_state[a] \in [Blocks(a) -> States]
      /\ aggregate[a] \in [Blocks(a) -> Nat] /\ prefix[a] \in [Blocks(a) -> Nat]
      /\ DOMAIN aggregate = DOMAIN temp_state /\ DOMAIN prefix = DOMAIN temp_state
  BY BlockFacts DEF PoolInv, States
<1>2. st \in States /\ ag \in Nat /\ pr \in Nat
  BY DEF Writes
<1>3. /\ DOMAIN temp_state' = DOMAIN temp_state
      /\ \A c \in DOMAIN temp_state \ {a} : temp_state'[c] = temp_state[c]
      /\ temp_state'[a] \in [Blocks(a) -> States] /\ temp_state'[a][b] = st
      /\ \A d \in Blocks(a) \ {b} : temp_state'[a][d] = temp_state[a][d]
  <2>1. \/ temp_state' = [temp_state EXCEPT ![a][b] = st]
        \/ temp_state' = temp_state /\ st = temp_state[a][b]
    BY DEF Writes
  <2> HIDE DEF a, b
  <2>2. QED
    BY ONLY <1>1, <1>2, <2>1, WriteElement
<1>4. /\ DOMAIN aggregate' = DOMAIN temp_state
      /\ \A c \in DOMAIN temp_state \ {a} : aggregate'[c] = aggregate[c]
      /\ aggregate'[a] \in [Blocks(a) -> Nat] /\ aggregate'[a][b] = ag
      /\ \A d \in Blocks(a) \ {b} : aggregate'[a][d] = aggregate[a][d]
  <2>1. \/ aggregate' = [aggregate EXCEPT ![a][b] = ag]
        \/ aggregate' = aggregate /\ ag = aggregate[a][b]
    BY DEF Writes
  <2> HIDE DEF a, b
  <2>2. QED
    BY ONLY <1>1, <1>2, <2>1, WriteElement
<1>5. /\ DOMAIN prefix' = DOMAIN temp_state
      /\ \A c \in DOMAIN temp_state \ {a} : prefix'[c] = prefix[c]
      /\ prefix'[a] \in [Blocks(a) -> Nat] /\ prefix'[a][b] = pr
      /\ \A d \in Blocks(a) \ {b} : prefix'[a][d] = prefix[a][d]
  <2>1. \/ prefix' = [prefix EXCEPT ![a][b] = pr]
        \/ prefix' = prefix /\ pr = prefix[a][b]
    BY DEF Writes
  <2> HIDE DEF a, b
  <2>2. QED
    BY ONLY <1>1, <1>2, <2>1, WriteElement
<1>6. temp_state'[a][0] = IF b = 0 THEN st ELSE temp_state[a][0]
  BY <1>1, <1>3
<1>7. /\ sequential' \in [Threads -> BOOLEAN]
      /\ previous' \in [Threads -> Int] /\ sum' \in [Threads -> Nat]
      /\ \A u \in Threads \ {t} :
           sequential'[u] = sequential[u] /\ previous'[u] = previous[u] /\ sum'[u] = sum[u]
  BY DEF TypeOK, Writes
<1>8. TempTypes'
  <2>1. \A c : Blocks(c)' = Blocks(c)
    BY DEF Blocks, Size, Program, Input
  <2>2. ASSUME NEW c \in DOMAIN temp_state
        PROVE  /\ temp_state'[c] \in [Blocks(c) -> States]
               /\ aggregate'[c] \in [Blocks(c) -> Nat]
               /\ prefix'[c] \in [Blocks(c) -> Nat]
    <3>1. CASE c = a
      BY <1>3, <1>4, <1>5, <3>1
    <3>2. CASE c # a
      BY <1>3, <1>4, <1>5, <3>2 DEF TypeOK, States
    <3>3. QED
      BY <3>1, <3>2
  <2>3. QED
    BY <1>3, <2>1, <2>2 DEF TempTypes, States
<1>9. OwnBlockOnly(t)
  BY <1>3, <1>4, <1>5, <1>7 DEF Writes, OwnBlockOnly
<1>10. QED
  BY <1>1, <1>3, <1>4, <1>5, <1>6, <1>7, <1>8, <1>9 DEF Writes, BlockEffects

LEMMA StorePrefixEffects ==
  ASSUME TypeOK, PoolInv, SumInv, NEW t \in Threads, StorePrefix(t)
  PROVE  BlockEffects(t)
<1> DEFINE a == task[t]
           b == chunk[t]
           pr == sum[t] + Local(a, b)
           State == temp_state[a]
<1> USE DEF Working, Unannounced, Looking, Late, Summing
<1>1. /\ pc[t] \in {"store", "storeLate"} /\ task[t][2] # 0
      /\ UNCHANGED <<task, chunk, temp_state, aggregate, output, previous, sequential, sum>>
      /\ pc' = [pc EXCEPT ![t] = IF pc[t] = "store" THEN "publish" ELSE "publishLate"]
      /\ prefix' = [prefix EXCEPT ![a][b] = pr]
  BY DEF StorePrefix, control, look, Goto, PoolInv, ThreadsOnTasks
<1>2. /\ SumSoFar(t) /\ Before(a, b) \in Nat /\ Before(a, b + 1) = Before(a, b) + Local(a, b)
      /\ \A d \in Blocks(a) :
           /\ State[d] = "aggregate available" => d # 0 /\ aggregate[a][d] = Local(a, d)
           /\ State[d] = "prefix available" =>
                State[0] = "prefix available" /\ prefix[a][d] = Before(a, d + 1)
  BY <1>1, SeenBlocks DEF PoolInv
<1>3. /\ b \in Blocks(a) /\ b \in Nat /\ State \in [Blocks(a) -> States]
      /\ aggregate[a] \in [Blocks(a) -> Nat] /\ Local(a, b) \in Nat
  BY <1>1, BlockFacts DEF PoolInv, States
<1>4. /\ sum[t] = Before(a, b)
      /\ pc[t] = "store" => State[b] = "initialized" /\ (b = 0 \/ State[0] = "prefix available")
      /\ pc[t] = "storeLate" => State[b] = "aggregate available" /\ ~sequential[t]
                                 /\ State[0] = "prefix available"
  BY <1>1, <1>2 DEF SumSoFar
<1>5. pr = Before(a, b + 1) /\ pr \in Nat
  <2> DEFINE x == Before(a, b)
             y == Local(a, b)
  <2>1. pr = x + y /\ x \in Nat /\ y \in Nat /\ Before(a, b + 1) = x + y
    BY <1>2, <1>3, <1>4
  <2> HIDE DEF pr, x, y
  <2>2. QED
    BY <2>1
<1>6. /\ previous \in [Threads -> Int] /\ sum \in [Threads -> Nat]
      /\ pc \in [Threads -> PoolLabels \cup Working \cup {"finish"}]
  BY DEF TypeOK
<1> HIDE DEF pr
<1>7. /\ prefix'[a][b] = pr /\ (OwnSums(t) => BlockEffects(t))
  <2>1. /\ State[b] \in States /\ aggregate[a][b] \in Nat
        /\ previous[t] \in Int /\ sum[t] \in Nat
        /\ previous' = [previous EXCEPT ![t] = previous[t]] /\ sum' = [sum EXCEPT ![t] = sum[t]]
    BY <1>1, <1>3, <1>6
  <2>2. pc[t] \in Working
    BY <1>1
  <2>3. Writes(t, State[b], aggregate[a][b], pr, previous[t], sum[t])
    BY <1>1, <1>5, <2>1 DEF Writes
  <2>4. QED
    BY <1>1, <2>2, <2>3, WritingStep DEF PoolInv
<1>8. PICK l \in {"publish", "publishLate"} :
        pc'[t] = l /\ (l = "publish" <=> pc[t] = "store") /\ (l = "publishLate" <=> pc[t] = "storeLate")
  BY <1>1, <1>6
<1>9. SumSoFar(t)'
  BY <1>1, <1>4, <1>5, <1>7, <1>8, SameArrays DEF SumSoFar
<1>10. OwnSums(t)
  BY <1>1, <1>2, <1>3, <1>4, <1>5, <1>7, <1>8, <1>9 DEF OwnSums
<1>11. QED
  BY <1>7, <1>10

LEMMA PublishPrefixEffects ==
  ASSUME TypeOK, PoolInv, SumInv, NEW t \in Threads, PublishPrefix(t)
  PROVE  BlockEffects(t)
<1> DEFINE a == task[t]
           b == chunk[t]
           State == temp_state[a]
<1> USE DEF Working, Unannounced, Looking, Late, Summing
<1>1. /\ pc[t] \in {"publish", "publishLate"} /\ task[t][2] # 0
      /\ UNCHANGED <<task, chunk, aggregate, prefix, output, previous, sequential>>
      /\ temp_state' = [temp_state EXCEPT ![a][b] = "prefix available"]
  BY DEF PublishPrefix, control, look, Goto, PoolInv, ThreadsOnTasks
<1>2. SumSoFar(t)
  BY <1>1, SeenBlocks DEF PoolInv
<1>3. /\ b \in Blocks(a) /\ b \in Nat /\ State \in [Blocks(a) -> States]
      /\ aggregate[a] \in [Blocks(a) -> Nat] /\ prefix[a] \in [Blocks(a) -> Nat]
  BY <1>1, BlockFacts DEF PoolInv, States
<1>4. /\ sum[t] = Before(a, b) /\ prefix[a][b] = Before(a, b + 1)
      /\ b = 0 \/ State[0] = "prefix available"
      /\ pc[t] = "publishLate" => ~sequential[t]
  BY <1>1, <1>2 DEF SumSoFar
<1>5. /\ previous \in [Threads -> Int] /\ sum \in [Threads -> Nat]
      /\ pc \in [Threads -> PoolLabels \cup Working \cup {"finish"}]
  BY DEF TypeOK
<1>6. PICK l \in {"claim", "scanLate"}, s \in Nat :
        /\ pc'[t] = l /\ sum' = [sum EXCEPT ![t] = s] /\ sum'[t] = s
        /\ l = "claim" => s = 0
        /\ l = "scanLate" => s = sum[t] /\ pc[t] = "publishLate"
  <2>1. CASE pc[t] = "publish"
    BY <1>5, <2>1 DEF PublishPrefix, Goto
  <2>2. CASE pc[t] = "publishLate"
    BY <1>5, <2>2 DEF PublishPrefix, Goto
  <2>3. QED
    BY <1>1, <2>1, <2>2
<1>7. /\ temp_state'[a][b] = "prefix available" /\ temp_state'[a][0] = "prefix available"
      /\ OwnSums(t) => BlockEffects(t)
  <2>1. /\ prefix[a][b] \in Nat /\ aggregate[a][b] \in Nat /\ "prefix available" \in States
        /\ previous[t] \in Int /\ previous' = [previous EXCEPT ![t] = previous[t]]
    BY <1>1, <1>3, <1>5 DEF States
  <2>2. pc[t] \in Working
    BY <1>1
  <2>3. /\ temp_state'[a][b] = "prefix available"
        /\ temp_state'[a][0] = IF b = 0 THEN "prefix available" ELSE temp_state[a][0]
        /\ OwnSums(t) => BlockEffects(t)
    <3>1. Writes(t, "prefix available", aggregate[a][b], prefix[a][b], previous[t], s)
      BY <1>1, <1>3, <1>6, <2>1 DEF Writes
    <3>2. QED
      BY <1>1, <2>2, <3>1, WritingStep
  <2>4. QED
    BY <1>4, <2>3
<1>8. SumSoFar(t)'
  BY <1>1, <1>4, <1>6, <1>7, SameArrays DEF SumSoFar
<1>9. OwnSums(t)
  BY <1>1, <1>3, <1>4, <1>6, <1>7, <1>8 DEF OwnSums
<1>10. QED
  BY <1>7, <1>9

LEMMA StoreAggregateEffects ==
  ASSUME TypeOK, PoolInv, SumInv, NEW t \in Threads, StoreAggregate(t)
  PROVE  BlockEffects(t)
<1> DEFINE a == task[t]
           b == chunk[t]
           State == temp_state[a]
<1> USE DEF Working, Unannounced, Looking, Late, Summing
<1>1. /\ pc[t] = "fold" /\ task[t][2] # 0
      /\ UNCHANGED <<task, chunk, temp_state, prefix, output, previous, sequential, sum>>
      /\ pc' = [pc EXCEPT ![t] = "available"]
      /\ aggregate' = [aggregate EXCEPT ![a][b] = Local(a, b)]
  BY DEF StoreAggregate, control, look, Goto, PoolInv, ThreadsOnTasks
<1>2. SumSoFar(t) /\ sum[t] = 0
  BY <1>1, SeenBlocks DEF PoolInv
<1>3. /\ b \in Blocks(a) /\ b \in Nat /\ State \in [Blocks(a) -> States]
      /\ prefix[a] \in [Blocks(a) -> Nat] /\ Local(a, b) \in Nat
  BY <1>1, BlockFacts DEF PoolInv, States
<1>4. State[b] = "initialized" /\ b # 0 /\ ~sequential[t]
  BY <1>1, <1>2 DEF SumSoFar
<1>5. /\ previous \in [Threads -> Int] /\ sum \in [Threads -> Nat]
      /\ pc \in [Threads -> PoolLabels \cup Working \cup {"finish"}]
  BY DEF TypeOK
<1>6. aggregate'[a][b] = Local(a, b) /\ (OwnSums(t) => BlockEffects(t))
  <2>1. /\ State[b] \in States /\ prefix[a][b] \in Nat
        /\ previous[t] \in Int /\ sum[t] \in Nat
        /\ previous' = [previous EXCEPT ![t] = previous[t]] /\ sum' = [sum EXCEPT ![t] = sum[t]]
    BY <1>1, <1>3, <1>5
  <2>2. pc[t] \in Working
    BY <1>1
  <2>3. QED
    <3>1. Writes(t, State[b], Local(a, b), prefix[a][b], previous[t], sum[t])
      BY <1>1, <1>3, <1>4, <2>1 DEF Writes
    <3>2. QED
      BY <1>1, <2>2, <3>1, WritingStep
<1>7. pc'[t] = "available"
  BY <1>1, <1>5
<1>8. SumSoFar(t)'
  BY <1>1, <1>4, <1>6, <1>7, SameArrays DEF SumSoFar
<1>9. OwnSums(t)
  BY <1>1, <1>2, <1>3, <1>4, <1>6, <1>7, <1>8 DEF OwnSums
<1>10. QED
  BY <1>6, <1>9

LEMMA PublishAggregateEffects ==
  ASSUME TypeOK, PoolInv, SumInv, NEW t \in Threads, PublishAggregate(t)
  PROVE  BlockEffects(t)
<1> DEFINE a == task[t]
           b == chunk[t]
           p == b - 1
           State == temp_state[a]
<1> USE DEF Working, Unannounced, Looking, Late, Summing
<1>1. /\ pc[t] = "available" /\ task[t][2] # 0
      /\ UNCHANGED <<task, chunk, aggregate, prefix, output, sequential, sum>>
      /\ pc' = [pc EXCEPT ![t] = "look"]
      /\ temp_state' = [temp_state EXCEPT ![a][b] = "aggregate available"]
      /\ previous' = [previous EXCEPT ![t] = p]
  BY DEF PublishAggregate, control, look, Goto, PoolInv, ThreadsOnTasks
<1>2. SumSoFar(t) /\ sum[t] = 0
  BY <1>1, SeenBlocks DEF PoolInv
<1>3. /\ b \in Blocks(a) /\ b \in Nat /\ State \in [Blocks(a) -> States] /\ IsArray(a)
      /\ prefix[a] \in [Blocks(a) -> Nat] /\ aggregate[a] \in [Blocks(a) -> Nat]
  BY <1>1, BlockFacts DEF PoolInv, States
<1>4. State[b] = "initialized" /\ b # 0 /\ ~sequential[t] /\ aggregate[a][b] = Local(a, b)
  BY <1>1, <1>2 DEF SumSoFar
<1>5. p \in Nat /\ p < b /\ p \in Int /\ p \in 0 .. b - 1 /\ p + 1 = b
  <2>1. b \in Nat /\ b # 0
    BY <1>3, <1>4
  <2> HIDE DEF b
  <2>2. QED
    BY <2>1
<1>6. Total(a, BlockStart(a, p + 1), BlockStart(a, b)) = 0
  BY <1>3, <1>5, LookBackSums
<1>7. /\ previous \in [Threads -> Int] /\ sum \in [Threads -> Nat]
      /\ pc \in [Threads -> PoolLabels \cup Working \cup {"finish"}]
  BY DEF TypeOK
<1>8. temp_state'[a][b] = "aggregate available" /\ (OwnSums(t) => BlockEffects(t))
  <2>1. /\ "aggregate available" \in States /\ prefix[a][b] \in Nat /\ aggregate[a][b] \in Nat
        /\ sum[t] \in Nat /\ sum' = [sum EXCEPT ![t] = sum[t]]
    BY <1>1, <1>3, <1>7 DEF States
  <2>2. pc[t] \in Working
    BY <1>1
  <2>3. QED
    <3>1. Writes(t, "aggregate available", aggregate[a][b], prefix[a][b], p, sum[t])
      BY <1>1, <1>4, <1>5, <2>1 DEF Writes
    <3>2. QED
      BY <1>1, <2>2, <3>1, WritingStep
<1> HIDE DEF p
<1>9. pc'[t] = "look" /\ previous'[t] = p
  BY <1>1, <1>7
<1>10. SumSoFar(t)'
  BY <1>1, <1>2, <1>4, <1>6, <1>8, <1>9, SameArrays DEF SumSoFar
<1>11. OwnSums(t)
  BY <1>1, <1>2, <1>3, <1>4, <1>5, <1>8, <1>9, <1>10 DEF OwnSums
<1>12. QED
  BY <1>8, <1>11

(* A step of a chunk keeps the invariant.                                  *)
LEMMA RunBlockKeeps ==
  ASSUME TypeOK, PoolInv, SumInv, NEW t \in Threads, RunBlock(t)
  PROVE  TypeOK' /\ PoolInv' /\ SumInv'
<1>1. BlockStep(t)
  BY BlockStepFrame DEF PoolInv
<1>2. BlockEffects(t)
  BY CheckPreviousEffects, LoadPrefixEffects, ScanBlockEffects, StorePrefixEffects,
     PublishPrefixEffects, StoreAggregateEffects, PublishAggregateEffects,
     LookBackEffects, AddPrefixEffects, AddAggregateEffects DEF RunBlock
<1>3. TypeOK'
  BY <1>1, <1>2, BlockStepTypes
<1>4. PoolInv'
  BY <1>1, BlockStepPool
<1>5. SumInv'
  BY <1>1, <1>2, <1>3, BlockStepSums DEF BlockEffects
<1>6. QED
  BY <1>3, <1>4, <1>5

-----------------------------------------------------------------------------
(* The steps of the pool.                                                  *)

(* What they have in common: a step of a thread moves that thread and      *)
(* nothing of `temp`, ...                                                  *)
Moves(t) ==
  /\ pc[t] \in {"idle", "assist", "claim", "leave"}
  /\ \E l \in PoolLabels \cup {"run", "finish"} : Goto(t, l)
  /\ \E a \in Tasks \cup {NoTask} : task' = [task EXCEPT ![t] = a]
  /\ \E c \in Int : Hold(t, c)
  /\ \E q \in BOOLEAN : sequential' = [sequential EXCEPT ![t] = q]
  /\ \E r \in Nat \cup {NoRange} : range' = [range EXCEPT ![t] = r]
  /\ round' \in [Threads -> Nat]
  /\ UNCHANGED <<temp_state, aggregate, prefix, output, pending, previous, sum, is_finished>>

(* ... the thread gets its task from the queue or joins it, is the last    *)
(* one when it finishes it, ...                                            *)
ChangesTask(t) ==
  LET a == task'[t]
  IN  /\ \/ a = task[t] /\ a # NoTask /\ queued' = queued /\ open' \subseteq open
         \/ a = NoTask /\ queued' = queued /\ open' = open
         \/ a \in queued /\ queued' = queued \ {a} /\ open' \subseteq open \cup {a}
         \/ a \in open /\ queued' = queued /\ open' = open
      /\ a = NoTask <=> pc'[t] \in {"idle", "returned"}
      /\ pc'[t] \in {"leave", "finish"} => a \notin open'
      /\ pc'[t] = "finish" => \A u \in Threads \ {t} : task[u] # a
      /\ \/ sequential'[t]
         \/ /\ sequential'[t] = sequential[t] /\ a = task[t]
            /\ pc[t] = "claim" /\ pc'[t] \in {"claim", "run"}

(* ... claims the chunk it holds and no other, in the order of its range,  *)
Claims(t) ==
  /\ DOMAIN claimed' = Tasks
  /\ \A a \in Tasks :
       /\ claimed[a] \subseteq claimed'[a]
       /\ \A d \in claimed'[a] \ claimed[a] :
            pc'[t] = "run" /\ task'[t] = a /\ chunk'[t] = d /\ d \in Blocks(a)
  /\ pc'[t] = "run" =>
       LET a == task'[t]
           c == chunk'[t]
       IN  /\ c \in claimed'[a] \ claimed[a]
           /\ range'[t] # NoRange /\ c \in ChunksOf(a, range'[t])
           /\ \A r \in 0 .. Ranges(a) - 1 : c \in ChunksOf(a, r) =>
                \A d \in ChunksOf(a, r) : d < c => d \in claimed[a]

(* ... and keeps its range until that has no chunks left.                  *)
Draws(t) ==
  /\ drawn' \in [Tasks -> Nat]
  /\ \A a \in Tasks :
       /\ drawn[a] <= drawn'[a]
       /\ \A r \in 0 .. Ranges(a) - 1 :
            r < drawn'[a] => r < drawn[a] \/ (task'[t] = a /\ range'[t] = r)
  /\ range'[t] # NoRange =>
       /\ pc'[t] \in {"assist", "claim", "run"}
       /\ range'[t] < Ranges(task'[t])
       /\ Ranges(task'[t]) = 1 \/ range'[t] < drawn'[task'[t]]
  /\ range[t] # NoRange =>
       \/ task'[t] = task[t] /\ range'[t] = range[t]
       \/ ChunksOf(task[t], range[t]) \subseteq claimed[task[t]]

PoolEffects(t) == Moves(t) /\ ChangesTask(t) /\ Claims(t) /\ Draws(t)

LEMMA PoolStepTypes ==
  ASSUME TypeOK, PoolInv, NEW t \in Threads, PoolEffects(t)
  PROVE  /\ TypeOK'
         /\ \A u \in Threads \ {t} :
              /\ pc'[u] = pc[u] /\ task'[u] = task[u] /\ chunk'[u] = chunk[u]
              /\ sequential'[u] = sequential[u] /\ range'[u] = range[u]
         /\ pc'[t] \in PoolLabels \cup {"run", "finish"}
         /\ task'[t] \in Tasks \cup {NoTask}
         /\ UNCHANGED <<temp_state, aggregate, prefix, output, pending, previous, sum, is_finished>>
<1>1. /\ pc' \in [Threads -> PoolLabels \cup Working \cup {"finish"}]
      /\ task' \in [Threads -> Tasks \cup {NoTask}] /\ chunk' \in [Threads -> Int]
      /\ sequential' \in [Threads -> BOOLEAN] /\ range' \in [Threads -> Nat \cup {NoRange}]
      /\ pc'[t] \in PoolLabels \cup {"run", "finish"} /\ task'[t] \in Tasks \cup {NoTask}
      /\ \A u \in Threads \ {t} :
              /\ pc'[u] = pc[u] /\ task'[u] = task[u] /\ chunk'[u] = chunk[u]
              /\ sequential'[u] = sequential[u] /\ range'[u] = range[u]
  <2> USE DEF PoolEffects, Moves, TypeOK
  <2>1. PICK l \in PoolLabels \cup {"run", "finish"} : pc' = [pc EXCEPT ![t] = l]
    BY DEF Goto
  <2>2. PICK a \in Tasks \cup {NoTask} : task' = [task EXCEPT ![t] = a]
    OBVIOUS
  <2>3. PICK c \in Int : chunk' = [chunk EXCEPT ![t] = c]
    BY DEF Hold
  <2>4. PICK q \in BOOLEAN : sequential' = [sequential EXCEPT ![t] = q]
    OBVIOUS
  <2>5. PICK r \in Nat \cup {NoRange} : range' = [range EXCEPT ![t] = r]
    OBVIOUS
  <2>6. l \in PoolLabels \cup Working \cup {"finish"}
    BY DEF Working, Unannounced
  <2>7. /\ pc \in [Threads -> PoolLabels \cup Working \cup {"finish"}]
        /\ task \in [Threads -> Tasks \cup {NoTask}] /\ chunk \in [Threads -> Int]
        /\ sequential \in [Threads -> BOOLEAN] /\ range \in [Threads -> Nat \cup {NoRange}]
    OBVIOUS
  <2>8. QED
    BY ONLY <2>1, <2>2, <2>3, <2>4, <2>5, <2>6, <2>7, t \in Threads
<1>2. /\ UNCHANGED <<temp_state, aggregate, prefix, output, pending, previous, sum, is_finished>>
      /\ round' \in [Threads -> Nat]
  BY DEF PoolEffects, Moves
<1>3. DOMAIN claimed' = DOMAIN claimed
  BY DEF PoolEffects, Claims, Tasks
<1>4. queued' \subseteq Tasks /\ open' \subseteq Tasks
  BY <1>1 DEF PoolEffects, ChangesTask, TypeOK
<1>5. \A a \in Tasks : claimed'[a] \subseteq Blocks(a)
  BY DEF PoolEffects, Claims, TypeOK
<1>6. \E q \in DOMAIN Programs :
        /\ DOMAIN claimed' = {InitialTask(q)} \cup Arrays(q)
        /\ DOMAIN temp_state' = Arrays(q) /\ DOMAIN output' = Arrays(q)
        /\ DOMAIN aggregate' = Arrays(q) /\ DOMAIN prefix' = Arrays(q)
        /\ drawn' \in [{InitialTask(q)} \cup Arrays(q) -> Nat]
  <2>1. PICK p \in DOMAIN Programs :
          /\ DOMAIN claimed = {InitialTask(p)} \cup Arrays(p)
          /\ DOMAIN temp_state = Arrays(p) /\ DOMAIN output = Arrays(p)
          /\ DOMAIN aggregate = Arrays(p) /\ DOMAIN prefix = Arrays(p)
          /\ drawn \in [{InitialTask(p)} \cup Arrays(p) -> Nat]
    BY DEF TypeOK
  <2>2. drawn' \in [Tasks -> Nat]
    BY DEF PoolEffects, Draws
  <2>3. QED
    BY <1>2, <1>3, <2>1, <2>2 DEF Tasks
<1>7. \A c : Blocks(c)' = Blocks(c)
  BY DEF Blocks, Size, Program, Input
<1>8. \A q : InitialTask(q)' = InitialTask(q) /\ Arrays(q)' = Arrays(q)
  BY DEF InitialTask, Arrays
<1>9. Tasks' = Tasks
  BY <1>3 DEF Tasks
<1>10. TypeOK'
  BY <1>1, <1>2, <1>4, <1>5, <1>6, <1>7, <1>8, <1>9 DEF TypeOK
<1>11. QED
  BY <1>1, <1>2, <1>10

(* No task is created by such a step.                                      *)
LEMMA NothingPushed ==
  ASSUME TypeOK, PoolInv, NEW t \in Threads, PoolEffects(t)
  PROVE  /\ \A a \in Tasks : Live(a)' => Live(a)
         /\ \A a \in Tasks : Untouched(a) => Untouched(a)'
<1>1. ASSUME NEW a \in Tasks, Live(a)' PROVE Live(a)
  <2>1. CASE a \in queued' \cup open'
    BY <2>1 DEF PoolEffects, ChangesTask, Live
  <2>2. CASE \E u \in Threads : task'[u] = a
    <3>1. PICK u \in Threads : task'[u] = a
      BY <2>2
    <3>2. CASE u = t
      BY <3>1, <3>2, TaskTypes DEF PoolEffects, ChangesTask, Live
    <3>3. CASE u # t
      BY <3>1, <3>3, PoolStepTypes DEF Live
    <3>4. QED
      BY <3>2, <3>3
  <2>3. QED
    BY <1>1, <2>1, <2>2 DEF Live
<1>2. ASSUME NEW a \in Tasks, Untouched(a) PROVE Untouched(a)'
  <2>1. ~Live(a) /\ claimed[a] = {}
    BY <1>2 DEF Untouched
  <2>2. ~Live(a)'
    BY <1>1, <2>1
  <2>3. \A d \in claimed'[a] \ claimed[a] : task'[t] = a
    BY DEF PoolEffects, Claims
  <2>4. task'[t] # a
    BY <2>2 DEF Live
  <2>5. claimed'[a] = {}
    BY <2>1, <2>3, <2>4
  <2>6. QED
    BY <2>2, <2>5 DEF Untouched
<1>3. QED
  BY <1>1, <1>2

LEMMA PoolStepThreads ==
  ASSUME TypeOK, PoolInv, NEW t \in Threads, PoolEffects(t)
  PROVE  ThreadsOnTasks'
<1> USE DEF Working, Unannounced, Looking, Late
<1>1. /\ \A u \in Threads \ {t} : pc'[u] = pc[u] /\ task'[u] = task[u] /\ chunk'[u] = chunk[u]
      /\ pc'[t] \in PoolLabels \cup {"run", "finish"}
  BY PoolStepTypes
<1>2. task'[t] = NoTask <=> pc'[t] \in {"idle", "returned"}
  BY DEF PoolEffects, ChangesTask
<1>3. \A u \in Threads : pc[u] \in Working =>
        task[u] \in Tasks /\ chunk[u] \in claimed[task[u]] /\ (task[u][2] = 0 => pc[u] = "run")
  BY BlockTypes DEF PoolInv, ThreadsOnTasks
<1>4. \A a \in Tasks : claimed[a] \subseteq claimed'[a]
  BY DEF PoolEffects, Claims
<1>5. pc'[t] \in Working =>
        pc'[t] = "run" /\ chunk'[t] \in claimed'[task'[t]] /\ chunk'[t] \notin claimed[task'[t]]
  BY <1>1 DEF PoolEffects, Claims, PoolLabels
<1>6. ASSUME NEW u \in Threads, NEW v \in Threads \ {u},
             pc'[u] \in Working, pc'[v] \in Working, task'[v] = task'[u]
      PROVE  chunk'[v] # chunk'[u]
  <2>1. CASE u # t /\ v # t
    BY <1>1, <1>6, <2>1 DEF PoolInv, ThreadsOnTasks
  <2>2. CASE u = t
    BY <1>1, <1>3, <1>5, <1>6, <2>2
  <2>3. CASE v = t
    BY <1>1, <1>3, <1>5, <1>6, <2>3
  <2>4. QED
    BY <2>1, <2>2, <2>3
<1>7. ASSUME NEW u \in Threads
      PROVE  /\ task'[u] = NoTask <=> pc'[u] \in {"idle", "returned"}
             /\ pc'[u] \in Working =>
                  chunk'[u] \in claimed'[task'[u]] /\ (task'[u][2] = 0 => pc'[u] = "run")
  <2>1. CASE u = t
    BY <1>2, <1>5, <2>1
  <2>2. CASE u # t
    BY <1>1, <1>3, <1>4, <2>2 DEF PoolInv, ThreadsOnTasks
  <2>3. QED
    BY <2>1, <2>2
<1>8. QED
  BY <1>6, <1>7 DEF ThreadsOnTasks

LEMMA PoolStepStages ==
  ASSUME TypeOK, PoolInv, NEW t \in Threads, PoolEffects(t)
  PROVE  TaskStages'
<1>1. \A u \in Threads \ {t} : pc'[u] = pc[u] /\ task'[u] = task[u]
  BY PoolStepTypes
<1>2. /\ \A a \in queued : a \in Tasks /\ a # NoTask /\ a \notin open /\ claimed[a] = {}
           /\ \A u \in Threads : task[u] # a
      /\ \A a \in open : a \in Tasks /\ a # NoTask
  BY TaskTypes DEF TypeOK, PoolInv, TaskStages
<1>3. /\ \A u \in Threads : pc[u] \in {"leave", "finish"} => task[u] \notin open /\ task[u] # NoTask
      /\ \A u, v \in Threads : u # v /\ pc[u] = "finish" => task[v] # task[u]
  BY DEF PoolInv, TaskStages, ThreadsOnTasks
<1> DEFINE a == task'[t]
<1>4. /\ \/ a = task[t] /\ a # NoTask /\ queued' = queued /\ open' \subseteq open
         \/ a = NoTask /\ queued' = queued /\ open' = open
         \/ a \in queued /\ queued' = queued \ {a} /\ open' \subseteq open \cup {a}
         \/ a \in open /\ queued' = queued /\ open' = open
      /\ pc'[t] \in {"leave", "finish"} => a \notin open'
      /\ pc'[t] = "finish" => \A u \in Threads \ {t} : task[u] # a
  BY DEF PoolEffects, ChangesTask
<1>5. \A b \in Tasks : a # b => claimed'[b] = claimed[b]
  BY DEF PoolEffects, Claims
<1> HIDE DEF a
<1>6. ASSUME NEW b \in queued'
      PROVE  b \notin open' /\ claimed'[b] = {} /\ \A u \in Threads : task'[u] # b
  <2>1. b \in queued /\ b # a
    BY <1>2, <1>4
  <2>2. b \notin open'
    BY <1>2, <1>4, <2>1
  <2>3. claimed'[b] = {}
    BY <1>2, <1>5, <2>1
  <2>4. \A u \in Threads : task'[u] # b
    BY <1>1, <1>2, <2>1 DEF a
  <2>5. QED
    BY <2>2, <2>3, <2>4
<1>7. ASSUME NEW u \in Threads, pc'[u] \in {"leave", "finish"} PROVE task'[u] \notin open'
  <2>1. CASE u = t
    BY <1>4, <1>7, <2>1 DEF a
  <2>2. CASE u # t
    BY <1>1, <1>2, <1>3, <1>4, <1>7, <2>2
  <2>3. QED
    BY <2>1, <2>2
<1>8. ASSUME NEW u \in Threads, pc'[u] = "finish", NEW v \in Threads \ {u} PROVE task'[v] # task'[u]
  <2>1. CASE u = t
    BY <1>1, <1>4, <1>8, <2>1 DEF a
  <2>2. CASE u # t /\ v # t
    BY <1>1, <1>3, <1>8, <2>2
  <2>3. CASE u # t /\ v = t
    BY <1>1, <1>2, <1>3, <1>4, <1>8, <2>3 DEF a
  <2>4. QED
    BY <2>1, <2>2, <2>3
<1>9. QED
  BY <1>6, <1>7, <1>8 DEF TaskStages

LEMMA PoolStepPushed ==
  ASSUME TypeOK, PoolInv, NEW t \in Threads, PoolEffects(t)
  PROVE  PushedOnce'
<1>1. \A u \in Threads \ {t} : pc'[u] = pc[u] /\ task'[u] = task[u] /\ chunk'[u] = chunk[u]
  BY PoolStepTypes
<1>2. /\ \A a \in Tasks : Live(a)' => Live(a)
      /\ \A a \in Tasks : Untouched(a) => Untouched(a)'
  BY NothingPushed
<1>3. Tasks' = Tasks /\ \A a : Program(a)' = Program(a)
  BY DEF PoolEffects, Claims, Tasks, Program
<1>4. ASSUME NEW a \in Tasks, NEW b \in Tasks, Program(a).version = "our", a[2] = 0, b[2] # 0,
             \/ b[2] - 1 \notin claimed'[a]
             \/ \E u \in Threads : pc'[u] = "run" /\ task'[u] = a /\ chunk'[u] = b[2] - 1
      PROVE  Untouched(b)'
  <2>1. \/ b[2] - 1 \notin claimed[a]
        \/ \E u \in Threads : pc[u] = "run" /\ task[u] = a /\ chunk[u] = b[2] - 1
    <3>1. CASE b[2] - 1 \notin claimed'[a]
      BY <3>1 DEF PoolEffects, Claims
    <3>2. ASSUME NEW u \in Threads, pc'[u] = "run", task'[u] = a, chunk'[u] = b[2] - 1
          PROVE  \/ b[2] - 1 \notin claimed[a]
                 \/ \E v \in Threads : pc[v] = "run" /\ task[v] = a /\ chunk[v] = b[2] - 1
      <4>1. CASE u = t
        BY <3>2, <4>1 DEF PoolEffects, Claims
      <4>2. CASE u # t
        BY <1>1, <3>2, <4>2
      <4>3. QED
        BY <4>1, <4>2
    <3>3. QED
      BY <1>4, <3>1, <3>2
  <2>2. Untouched(b)
    BY <1>4, <2>1 DEF PoolInv, PushedOnce, ToRun
  <2>3. QED
    BY <1>2, <2>2
<1>5. ASSUME NEW a \in Tasks, NEW b \in Tasks,
             Program(a).version = "inner", Live(a)', b[2] > a[2]
      PROVE  Untouched(b)'
  BY <1>2, <1>5 DEF PoolInv, PushedOnce
<1>6. QED
  BY <1>3, <1>4, <1>5 DEF PushedOnce, ToRun

LEMMA PoolStepRanges ==
  ASSUME TypeOK, PoolInv, NEW t \in Threads, PoolEffects(t)
  PROVE  RangesInOrder'
<1>1. /\ \A u \in Threads \ {t} : pc'[u] = pc[u] /\ task'[u] = task[u] /\ chunk'[u] = chunk[u]
                                    /\ range'[u] = range[u]
      /\ pc'[t] \in PoolLabels \cup {"run", "finish"}
      /\ range' \in [Threads -> Nat \cup {NoRange}]
  BY PoolStepTypes DEF TypeOK
<1>2. Tasks' = Tasks /\ (\A a : Ranges(a)' = Ranges(a)) /\ (\A a, r : ChunksOf(a, r)' = ChunksOf(a, r))
  BY DEF PoolEffects, Claims, Tasks, Program, Ranges, ChunksOf, FirstChunk, Size, Input
<1>3. /\ drawn \in [Tasks -> Nat] /\ drawn' \in [Tasks -> Nat]
      /\ \A a \in Tasks :
           /\ drawn[a] <= drawn'[a]
           /\ \A r \in 0 .. Ranges(a) - 1 :
                r < drawn'[a] => r < drawn[a] \/ (task'[t] = a /\ range'[t] = r)
  BY DEF PoolEffects, Draws, TypeOK, Tasks
<1>4. /\ range'[t] # NoRange =>
           /\ pc'[t] \in {"assist", "claim", "run"}
           /\ range'[t] < Ranges(task'[t])
           /\ Ranges(task'[t]) = 1 \/ range'[t] < drawn'[task'[t]]
      /\ range[t] # NoRange =>
           \/ task'[t] = task[t] /\ range'[t] = range[t]
           \/ ChunksOf(task[t], range[t]) \subseteq claimed[task[t]]
  BY DEF PoolEffects, Draws
<1>5. /\ \A a \in Tasks :
           /\ claimed[a] \subseteq claimed'[a]
           /\ \A d \in claimed'[a] \ claimed[a] : pc'[t] = "run" /\ task'[t] = a /\ chunk'[t] = d
      /\ pc'[t] = "run" =>
           /\ range'[t] # NoRange /\ chunk'[t] \in ChunksOf(task'[t], range'[t])
           /\ \A r \in 0 .. Ranges(task'[t]) - 1 : chunk'[t] \in ChunksOf(task'[t], r) =>
                \A d \in ChunksOf(task'[t], r) : d < chunk'[t] => d \in claimed[task'[t]]
  BY DEF PoolEffects, Claims
<1>6. ASSUME NEW u \in Threads
      PROVE  /\ pc'[u] \in Working => range'[u] # NoRange
             /\ range'[u] # NoRange =>
                  /\ AtClaim(u)' \/ pc'[u] \in Working
                  /\ range'[u] < Ranges(task'[u])
                  /\ Ranges(task'[u]) = 1 \/ range'[u] < drawn'[task'[u]]
                  /\ pc'[u] \in Working => chunk'[u] \in ChunksOf(task'[u], range'[u])
  <2>1. CASE u = t
    BY <1>1, <1>4, <1>5, <2>1 DEF PoolLabels, Working, Unannounced, Looking, Late, AtClaim
  <2>2. CASE u # t
    <3>1. /\ pc[u] \in Working => range[u] # NoRange
          /\ range[u] # NoRange =>
               /\ AtClaim(u) \/ pc[u] \in Working
               /\ range[u] < Ranges(task[u])
               /\ Ranges(task[u]) = 1 \/ range[u] < drawn[task[u]]
               /\ pc[u] \in Working => chunk[u] \in ChunksOf(task[u], range[u])
      BY DEF PoolInv, RangesInOrder
    <3>2. pc'[u] = pc[u] /\ task'[u] = task[u] /\ chunk'[u] = chunk[u] /\ range'[u] = range[u]
      BY <1>1, <2>2
    <3>3. ASSUME range[u] # NoRange, range[u] < drawn[task[u]] PROVE range[u] < drawn'[task[u]]
      <4>1. task[u] \in Tasks /\ range[u] \in Nat
        BY <3>1, <3>3 DEF PoolInv, ThreadsOnTasks, AtClaim, Working, Unannounced, Looking, Late,
           TypeOK
      <4>2. drawn[task[u]] \in Nat /\ drawn'[task[u]] \in Nat /\ drawn[task[u]] <= drawn'[task[u]]
        BY <1>3, <4>1
      <4>3. QED
        BY <3>3, <4>1, <4>2
    <3>4. QED
      BY <3>1, <3>2, <3>3 DEF AtClaim
  <2>3. QED
    BY <2>1, <2>2
<1>7. ASSUME NEW a \in Tasks, NEW r \in 0 .. Ranges(a) - 1
      PROVE  /\ \A b \in ChunksOf(a, r) \cap claimed'[a] :
                  \A c \in ChunksOf(a, r) : c < b => c \in claimed'[a]
             /\ r < drawn'[a] =>
                  \/ ChunksOf(a, r) \subseteq claimed'[a]
                  \/ \E u \in Threads : task'[u] = a /\ range'[u] = r
  <2>1. /\ \A b \in ChunksOf(a, r) \cap claimed[a] :
             \A c \in ChunksOf(a, r) : c < b => c \in claimed[a]
        /\ r < drawn[a] =>
             \/ ChunksOf(a, r) \subseteq claimed[a]
             \/ \E u \in Threads : task[u] = a /\ range[u] = r
    BY DEF PoolInv, RangesInOrder
  <2>2. ASSUME NEW b \in ChunksOf(a, r) \cap claimed'[a], NEW c \in ChunksOf(a, r), c < b
        PROVE  c \in claimed'[a]
    <3>1. CASE b \in claimed[a]
      BY <1>5, <2>1, <2>2, <3>1
    <3>2. CASE b \notin claimed[a]
      BY <1>5, <2>2, <3>2
    <3>3. QED
      BY <3>1, <3>2
  <2>3. ASSUME r < drawn'[a]
        PROVE  \/ ChunksOf(a, r) \subseteq claimed'[a]
               \/ \E u \in Threads : task'[u] = a /\ range'[u] = r
    <3>1. Ranges(a) \in Nat /\ r \in Nat /\ r # NoRange
      <4>1. Ranges(a) \in Nat
        BY TaskTypes
      <4>2. QED
        BY <4>1 DEF NoRange
    <3>2. CASE task'[t] = a /\ range'[t] = r
      BY <3>2
    <3>3. CASE r < drawn[a]
      <4>1. CASE ChunksOf(a, r) \subseteq claimed[a]
        BY <1>5, <4>1
      <4>2. ASSUME NEW u \in Threads, task[u] = a, range[u] = r
            PROVE  \/ ChunksOf(a, r) \subseteq claimed'[a]
                   \/ \E v \in Threads : task'[v] = a /\ range'[v] = r
        <5>1. CASE u = t
          BY <1>4, <1>5, <3>1, <4>2, <5>1
        <5>2. CASE u # t
          BY <1>1, <4>2, <5>2
        <5>3. QED
          BY <5>1, <5>2
      <4>3. QED
        BY <2>1, <3>3, <4>1, <4>2
    <3>4. QED
      BY <1>3, <2>3, <3>1, <3>2, <3>3
  <2>4. QED
    BY <2>2, <2>3
<1>8. QED
  BY <1>2, <1>6, <1>7 DEF RangesInOrder

LEMMA PoolStepSums ==
  ASSUME TypeOK, PoolInv, SumInv, NEW t \in Threads, PoolEffects(t)
  PROVE  SumInv'
<1>1. /\ \A u \in Threads \ {t} :
           /\ pc'[u] = pc[u] /\ task'[u] = task[u] /\ chunk'[u] = chunk[u]
           /\ sequential'[u] = sequential[u]
      /\ pc'[t] \in PoolLabels \cup {"run", "finish"} /\ task'[t] \in Tasks \cup {NoTask}
      /\ UNCHANGED <<temp_state, aggregate, prefix, previous, sum>>
  BY PoolStepTypes
<1>2. pc[t] \in {"idle", "assist", "claim", "leave"}
  BY DEF PoolEffects, Moves
<1>3. \A c : Blocks(c)' = Blocks(c)
  BY DEF Blocks, Size, Program, Input
<1>4. \A a \in DOMAIN temp_state : a \in Tasks /\ (Live(a)' => Live(a))
  BY TaskTypes, NothingPushed
<1>5. /\ \A a \in Tasks :
           /\ claimed[a] \subseteq claimed'[a]
           /\ \A d \in claimed'[a] \ claimed[a] : pc'[t] = "run" /\ task'[t] = a /\ chunk'[t] = d
      /\ pc'[t] = "run" => chunk'[t] \in claimed'[task'[t]] \ claimed[task'[t]]
  BY DEF PoolEffects, Claims
<1>6. AnnouncedIsThere'
  BY <1>1, <1>3, <1>4, SameArrays DEF SumInv, AnnouncedIsThere
<1>7. ASSUME NEW a \in DOMAIN temp_state, Live(a)', NEW b \in Blocks(a)
      PROVE  /\ temp_state[a][b] = "aggregate available" => b # 0
             /\ temp_state[a][b] = "prefix available" => temp_state[a][0] = "prefix available"
             /\ temp_state[a][b] # "initialized" => b \in claimed[a]
             /\ b \in claimed[a] /\ temp_state[a][b] = "initialized" => Held(a, b)
  BY <1>4, <1>7 DEF SumInv, AnnouncedInOrder
<1>8. AnnouncedInOrder'
  <2>1. ASSUME NEW a \in DOMAIN temp_state, Live(a)', NEW b \in Blocks(a)
        PROVE  /\ temp_state'[a][b] = "aggregate available" => b # 0
               /\ temp_state'[a][b] = "prefix available" => temp_state'[a][0] = "prefix available"
               /\ temp_state'[a][b] # "initialized" => b \in claimed'[a]
               /\ b \in claimed'[a] /\ temp_state'[a][b] = "initialized" => Held(a, b)'
    <3>1. ASSUME Held(a, b) PROVE Held(a, b)'
      <4>1. PICK u \in Threads : pc[u] \in Unannounced /\ task[u] = a /\ chunk[u] = b
        BY <3>1 DEF Held
      <4>2. u # t
        BY <1>2, <4>1 DEF Unannounced
      <4>3. QED
        BY <1>1, <4>1, <4>2 DEF Held
    <3>2. ASSUME b \in claimed'[a], b \notin claimed[a] PROVE Held(a, b)'
      BY <1>4, <1>5, <3>2 DEF Held, Unannounced
    <3>3. QED
      BY <1>1, <1>4, <1>5, <1>7, <2>1, <3>1, <3>2
  <2>2. QED
    BY <1>1, <1>3, <2>1 DEF AnnouncedInOrder
<1>9. LookBackInBounds'
  BY <1>1 DEF Looking, PoolLabels, SumInv, LookBackInBounds
<1>10. \/ sequential'[t]
       \/ /\ sequential'[t] = sequential[t] /\ task'[t] = task[t]
          /\ pc[t] = "claim" /\ pc'[t] \in {"claim", "run"}
  BY DEF PoolEffects, ChangesTask
<1>11. SequentialThreads'
  <2>1. ASSUME NEW u \in Threads
        PROVE  /\ pc'[u] \in {"idle", "assist", "leave", "finish", "returned"} => sequential'[u]
               /\ sequential'[u] \/ task'[u][2] # 0
    <3>1. /\ pc[u] \in {"idle", "assist", "leave", "finish", "returned"} => sequential[u]
          /\ sequential[u] \/ task[u][2] # 0
      BY DEF SumInv, SequentialThreads
    <3>2. CASE u = t
      BY <1>10, <3>1, <3>2
    <3>3. CASE u # t
      BY <1>1, <3>1, <3>3
    <3>4. QED
      BY <3>2, <3>3
  <2>2. QED
    BY <2>1 DEF SequentialThreads
<1>12. SumsSoFar'
  <2>1. ASSUME NEW u \in Threads
        PROVE  /\ pc'[u] \notin Summing => sum'[u] = 0
               /\ task'[u] \in DOMAIN temp_state => SumSoFar(u)'
    <3>1. /\ pc[u] \notin Summing => sum[u] = 0
          /\ task[u] \in DOMAIN temp_state => SumSoFar(u)
      BY DEF SumInv, SumsSoFar
    <3>2. CASE u = t
      <4>1. sum'[t] = 0
        BY <1>1, <1>2, <3>1, <3>2 DEF Summing, Looking, Late
      <4>2. ASSUME task'[t] \in DOMAIN temp_state PROVE SumSoFar(t)'
        <5>1. PICK a \in DOMAIN temp_state, b \in Int : a = task'[t] /\ b = chunk'[t]
          BY <4>2, PoolStepTypes DEF TypeOK
        <5>2. pc'[t] = "run" => temp_state[a][b] = "initialized"
          <6>1. ASSUME pc'[t] = "run" PROVE temp_state[a][b] = "initialized"
            BY <1>4, <1>5, <1>7, <5>1, <6>1 DEF Live, PoolEffects, Claims
          <6>2. QED
            BY <6>1
        <5>3. ~sequential'[t] => temp_state[a][0] = "prefix available"
          BY <1>10, <3>1, <3>2, <4>2, <5>1 DEF SumSoFar
        <5>4. QED
          BY <1>1, <5>1, <5>2, <5>3
          DEF SumSoFar, PoolLabels, Unannounced, Looking, Late
      <4>3. QED
        BY <3>2, <4>1, <4>2
    <3>3. CASE u # t
      <4>1. task[u] \in DOMAIN temp_state => SumSoFar(u)'
        BY <1>1, <3>1, <3>3, SameArrays DEF SumSoFar
      <4>2. QED
        BY <1>1, <3>1, <3>3, <4>1
    <3>4. QED
      BY <3>2, <3>3
  <2>2. QED
    BY <1>1, <2>1 DEF SumsSoFar
<1>13. QED
  BY <1>6, <1>8, <1>9, <1>11, <1>12 DEF SumInv

LEMMA PoolStepKeeps ==
  ASSUME TypeOK, PoolInv, SumInv, NEW t \in Threads, PoolEffects(t)
  PROVE  TypeOK' /\ PoolInv' /\ SumInv'
BY PoolStepTypes, PoolStepThreads, PoolStepStages, PoolStepPushed, PoolStepRanges, PoolStepSums
   DEF PoolInv

(* A thread between tasks, and one that claims.                            *)
LEMMA IdleThread ==
  ASSUME TypeOK, PoolInv, SumInv, NEW t \in Threads, pc[t] \in {"idle", "leave"}
  PROVE  /\ range[t] = NoRange /\ sequential[t] /\ (pc[t] = "idle" => task[t] = NoTask)
         /\ pc[t] = "leave" => task[t] \in Tasks /\ task[t] # NoTask /\ task[t] \notin open
<1>1. range[t] = NoRange
  BY DEF PoolInv, RangesInOrder, AtClaim, Working, Unannounced, Looking, Late
<1>2. sequential[t]
  BY DEF SumInv, SequentialThreads
<1>3. /\ pc[t] = "idle" => task[t] = NoTask
      /\ pc[t] = "leave" => task[t] # NoTask /\ task[t] \notin open
  BY DEF PoolInv, ThreadsOnTasks, TaskStages
<1>4. task[t] \in Tasks \cup {NoTask}
  BY DEF TypeOK
<1>5. QED
  BY <1>1, <1>2, <1>3, <1>4

LEMMA ClaimingThread ==
  ASSUME TypeOK, PoolInv, SumInv, NEW t \in Threads, AtClaim(t)
  PROVE  /\ task[t] \in Tasks /\ task[t] # NoTask
         /\ pc[t] \in {"assist", "claim"} /\ (pc[t] = "assist" => sequential[t])
         /\ range[t] # NoRange => range[t] \in 0 .. Ranges(task[t]) - 1 /\ range[t] \in Nat
         /\ range[t] # NoRange => Ranges(task[t]) = 1 \/ range[t] < drawn[task[t]]
<1>1. task[t] \in Tasks /\ task[t] # NoTask /\ pc[t] \in {"assist", "claim"}
  BY DEF TypeOK, PoolInv, ThreadsOnTasks, AtClaim
<1>2. pc[t] = "assist" => sequential[t]
  BY DEF SumInv, SequentialThreads
<1>3. range[t] # NoRange =>
        /\ range[t] < Ranges(task[t])
        /\ Ranges(task[t]) = 1 \/ range[t] < drawn[task[t]]
  BY DEF PoolInv, RangesInOrder
<1>4. range[t] \in Nat \cup {NoRange} /\ Ranges(task[t]) \in Nat
  BY <1>1, TaskTypes DEF TypeOK
<1>5. QED
  BY <1>1, <1>2, <1>3, <1>4

(* What a thread keeps is an assignment too.                               *)
LEMMA SameLocals ==
  ASSUME TypeOK, NEW t \in Threads
  PROVE  /\ pc = [pc EXCEPT ![t] = pc[t]] /\ task = [task EXCEPT ![t] = task[t]]
         /\ chunk = [chunk EXCEPT ![t] = chunk[t]]
         /\ sequential = [sequential EXCEPT ![t] = sequential[t]]
         /\ range = [range EXCEPT ![t] = range[t]]
         /\ task[t] \in Tasks \cup {NoTask} /\ chunk[t] \in Int
         /\ sequential[t] \in BOOLEAN /\ range[t] \in Nat \cup {NoRange}
         /\ pc \in [Threads -> PoolLabels \cup Working \cup {"finish"}]
         /\ task \in [Threads -> Tasks \cup {NoTask}] /\ chunk \in [Threads -> Int]
         /\ range \in [Threads -> Nat \cup {NoRange}] /\ round \in [Threads -> Nat]
         /\ sequential \in [Threads -> BOOLEAN]
         /\ drawn \in [Tasks -> Nat] /\ DOMAIN claimed = Tasks
         /\ \A a \in queued : a \in Tasks /\ a # NoTask
         /\ \A a \in open : a \in Tasks /\ a # NoTask
         /\ \A a \in Tasks : drawn[a] <= drawn[a]
<1>1. drawn \in [Tasks -> Nat] /\ DOMAIN claimed = Tasks
  BY DEF TypeOK, Tasks
<1>2. /\ \A a \in queued : a \in Tasks /\ a # NoTask
      /\ \A a \in open : a \in Tasks /\ a # NoTask
  BY TaskTypes DEF TypeOK
<1>3. \A a \in Tasks : drawn[a] <= drawn[a]
  BY <1>1
<1>4. /\ pc \in [Threads -> PoolLabels \cup Working \cup {"finish"}]
      /\ task \in [Threads -> Tasks \cup {NoTask}] /\ chunk \in [Threads -> Int]
      /\ range \in [Threads -> Nat \cup {NoRange}] /\ round \in [Threads -> Nat]
      /\ sequential \in [Threads -> BOOLEAN]
  BY DEF TypeOK
<1>5. QED
  BY <1>1, <1>2, <1>3, <1>4

LEMMA StartSingleEffects ==
  ASSUME TypeOK, PoolInv, SumInv, NEW t \in Threads, StartSingle(t),
         UNCHANGED <<drawn, range, round, sequential, temp, output, pending, previous, sum>>
  PROVE  PoolEffects(t)
<1>1. /\ pc[t] = "idle"
      /\ UNCHANGED <<open, claimed, is_finished, chunk, temp_state, aggregate, prefix>>
  BY DEF StartSingle, temp
<1>2. PICK a \in queued :
        /\ queued' = queued \ {a} /\ task' = [task EXCEPT ![t] = a] /\ Goto(t, "finish")
  BY DEF StartSingle, Exit
<1>3. a \in Tasks /\ a # NoTask /\ a \notin open /\ \A u \in Threads : task[u] # a
  BY SameLocals DEF PoolInv, TaskStages
<1>4. task'[t] = a /\ pc'[t] = "finish"
  BY <1>2 DEF TypeOK, Goto
<1>5. range'[t] = NoRange /\ range[t] = NoRange /\ sequential'[t]
  BY <1>1, IdleThread
<1>6. Moves(t)
  BY <1>1, <1>2, <1>3, SameLocals DEF Moves, Hold, TypeOK
<1>7. ChangesTask(t)
  BY <1>1, <1>2, <1>3, <1>4, <1>5 DEF ChangesTask
<1>8. Claims(t)
  BY <1>1, <1>4, SameLocals DEF Claims
<1>9. Draws(t)
  BY <1>5, SameLocals DEF Draws
<1>10. QED
  BY <1>6, <1>7, <1>8, <1>9 DEF PoolEffects

LEMMA EndTaskEffects ==
  ASSUME TypeOK, PoolInv, SumInv, NEW t \in Threads, EndTask(t),
         UNCHANGED <<drawn, range, round, sequential, temp, output, pending, previous, sum>>
  PROVE  PoolEffects(t)
<1>1. /\ pc[t] = "leave"
      /\ UNCHANGED <<queued, open, claimed, is_finished, chunk, temp_state, aggregate, prefix>>
  BY DEF EndTask, temp
<1>2. range'[t] = NoRange /\ range[t] = NoRange /\ sequential'[t]
        /\ task[t] \in Tasks /\ task[t] # NoTask /\ task[t] \notin open
  BY <1>1, IdleThread
<1>3. PICK l \in {"idle", "finish"}, a \in {NoTask, task[t]} :
        /\ pc' = [pc EXCEPT ![t] = l] /\ task' = [task EXCEPT ![t] = a]
        /\ l = "idle" <=> a = NoTask
        /\ l = "finish" => \A u \in Threads \ {t} : task[u] # a
  <2>1. CASE \E u \in Threads \ {t} : task[u] = task[t]
    BY <2>1 DEF EndTask, Leave, Goto
  <2>2. CASE ~\E u \in Threads \ {t} : task[u] = task[t]
    BY <1>2, <2>2, SameLocals DEF EndTask, Exit, Goto
  <2>3. QED
    BY <2>1, <2>2
<1>4. task'[t] = a /\ pc'[t] = l
  BY <1>3 DEF TypeOK
<1>5. Moves(t)
  BY <1>1, <1>2, <1>3, SameLocals DEF Moves, Hold, Goto, TypeOK, PoolLabels
<1>6. ChangesTask(t)
  BY <1>1, <1>2, <1>3, <1>4 DEF ChangesTask
<1>7. Claims(t)
  BY <1>1, <1>3, <1>4, SameLocals DEF Claims
<1>8. Draws(t)
  BY <1>2, SameLocals DEF Draws
<1>9. QED
  BY <1>5, <1>6, <1>7, <1>8 DEF PoolEffects

LEMMA ReturnEffects ==
  ASSUME TypeOK, PoolInv, SumInv, NEW t \in Threads, Return(t),
         UNCHANGED <<drawn, range, round, sequential, temp, output, pending, previous, sum>>
  PROVE  PoolEffects(t)
<1>1. /\ pc[t] = "idle" /\ Goto(t, "returned")
      /\ UNCHANGED <<queued, open, claimed, is_finished, task, chunk, temp_state, aggregate, prefix>>
  BY DEF Return, temp
<1>2. range'[t] = NoRange /\ range[t] = NoRange /\ sequential'[t] /\ task'[t] = NoTask
  BY <1>1, IdleThread
<1>3. pc'[t] = "returned"
  BY <1>1 DEF TypeOK, Goto
<1>4. Moves(t)
  BY <1>1, SameLocals DEF Moves, Hold, TypeOK, PoolLabels
<1>5. ChangesTask(t)
  BY <1>1, <1>2, <1>3 DEF ChangesTask
<1>6. Claims(t)
  BY <1>1, <1>3, SameLocals DEF Claims
<1>7. Draws(t)
  BY <1>2, SameLocals DEF Draws
<1>8. QED
  BY <1>4, <1>5, <1>6, <1>7 DEF PoolEffects

LEMMA BeginEffects ==
  ASSUME TypeOK, PoolInv, SumInv, NEW t \in Threads, Begin(t),
         UNCHANGED <<temp, output, pending, previous, sum>>
  PROVE  PoolEffects(t)
<1>1. /\ pc[t] = "idle"
      /\ StartLoop(t) \/ JoinTask(t)
      /\ UNCHANGED <<is_finished, drawn, sequential, temp_state, aggregate, prefix>>
  BY DEF Begin, StartLoop, JoinTask, temp
<1>2. range[t] = NoRange /\ sequential[t]
  BY <1>1, IdleThread
<1>3. PICK a \in queued \cup open :
        /\ task' = [task EXCEPT ![t] = a]
        /\ \/ a \in queued /\ queued' = queued \ {a} /\ open' = open \cup {a}
           \/ a \in open /\ queued' = queued /\ open' = open
        /\ \/ /\ a \in queued /\ Size(a) > 0 /\ Hold(t, 0) /\ Goto(t, "run")
              /\ claimed' = [claimed EXCEPT ![a] = {0}]
           \/ /\ claimed' = claimed /\ Hold(t, NoChunk)
              /\ Goto(t, "assist") \/ Goto(t, "claim")
  <2>1. \A a : EntryLabel(a, 0) = "run" /\ EntryLabel(a, NoChunk) = "claim"
    BY DEF Entry, EntryLabel, LoopLabel, NoChunk
  <2>2. CASE StartLoop(t)
    <3>1. PICK a \in queued :
            /\ queued' = queued \ {a} /\ open' = open \cup {a} /\ task' = [task EXCEPT ![t] = a]
            /\ \/ /\ Size(a) > 0 /\ Hold(t, 0)
                  /\ claimed' = [claimed EXCEPT ![a] = {0}]
                  /\ Goto(t, EntryLabel(a, 0))
               \/ /\ Hold(t, NoChunk)
                  /\ UNCHANGED claimed
                  /\ Goto(t, EntryLabel(a, NoChunk))
      BY <2>2 DEF StartLoop
    <3>2. QED
      BY <2>1, <3>1
  <2>3. CASE JoinTask(t)
    BY <2>1, <2>3 DEF JoinTask
  <2>4. QED
    BY <1>1, <2>2, <2>3
<1>4. /\ a \in Tasks /\ a # NoTask
      /\ Size(a) \in Nat /\ Ranges(a) \in Nat \ {0}
      /\ a \in queued => claimed[a] = {}
  BY SameLocals, TaskTypes DEF PoolInv, TaskStages
<1>5. PICK l \in {"assist", "claim", "run"} : pc' = [pc EXCEPT ![t] = l]
  BY <1>3 DEF Goto
<1>6. PICK c \in {0, NoChunk} : chunk' = [chunk EXCEPT ![t] = c]
  BY <1>3 DEF Hold
<1>7. pc'[t] = l /\ task'[t] = a /\ chunk'[t] = c
  BY <1>3, <1>5, <1>6 DEF TypeOK
<1>8. \/ c = 0 /\ l = "run" /\ a \in queued /\ Size(a) > 0 /\ claimed' = [claimed EXCEPT ![a] = {0}]
      \/ c = NoChunk /\ l # "run" /\ claimed' = claimed
  BY <1>3, <1>7 DEF Goto, Hold, TypeOK, NoChunk
<1>9. PICK r \in {0, NoRange} :
        /\ range' = [range EXCEPT ![t] = r] /\ round' \in [Threads -> Nat]
        /\ \/ r = 0 /\ Ranges(a) = 1
           \/ r = NoRange /\ l = "claim"
  <2>1. CASE Ranges(a) = 1
    BY <1>7, <2>1, SameLocals DEF Begin
  <2>2. CASE Ranges(a) # 1
    BY <1>2, <1>7, <2>2, SameLocals DEF Begin
  <2>3. QED
    BY <2>1, <2>2
<1>10. range'[t] = r
  BY <1>9 DEF TypeOK
<1>11. Moves(t)
  <2>1. l \in PoolLabels \cup {"run", "finish"} /\ Goto(t, l)
    BY <1>5 DEF Goto, PoolLabels
  <2>2. c \in Int /\ Hold(t, c)
    BY <1>6 DEF Hold, NoChunk
  <2>3. r \in Nat \cup {NoRange} /\ sequential' = [sequential EXCEPT ![t] = sequential[t]]
          /\ sequential[t] \in BOOLEAN
    BY <1>1, SameLocals
  <2>4. /\ \E m \in PoolLabels \cup {"run", "finish"} : Goto(t, m)
        /\ \E b \in Tasks \cup {NoTask} : task' = [task EXCEPT ![t] = b]
        /\ \E d \in Int : Hold(t, d)
        /\ \E q \in BOOLEAN : sequential' = [sequential EXCEPT ![t] = q]
        /\ \E s \in Nat \cup {NoRange} : range' = [range EXCEPT ![t] = s]
    BY <1>3, <1>4, <1>9, <2>1, <2>2, <2>3
  <2>5. QED
    BY <1>1, <1>9, <2>4 DEF Moves
<1>12. ChangesTask(t)
  BY <1>1, <1>2, <1>3, <1>4, <1>7 DEF ChangesTask
<1>13. Claims(t)
  <2>1. CASE l # "run"
    BY <1>7, <1>8, <2>1, SameLocals DEF Claims
  <2>2. CASE l = "run"
    <3>1. c = 0 /\ r = 0 /\ Ranges(a) = 1 /\ claimed[a] = {} /\ claimed' = [claimed EXCEPT ![a] = {0}]
      BY <1>4, <1>8, <1>9, <2>2
    <3>2. ChunksOf(a, 0) = Blocks(a) /\ 0 \in Blocks(a) /\ (\A d \in Blocks(a) : ~(d < 0))
            /\ 0 .. Ranges(a) - 1 = {0}
      BY <1>4, <1>8, <2>2, <3>1, RangesPartition DEF Blocks
    <3>3. /\ DOMAIN claimed' = Tasks /\ claimed'[a] = {0}
          /\ \A b \in Tasks : b # a => claimed'[b] = claimed[b]
      BY <1>4, <3>1, SameLocals
    <3>4. 0 # NoRange
      BY DEF NoRange
    <3>5. QED
      BY <1>4, <1>7, <1>10, <2>2, <3>1, <3>2, <3>3, <3>4 DEF Claims
  <2>3. QED
    BY <2>1, <2>2
<1>14. Draws(t)
  BY <1>1, <1>2, <1>7, <1>9, <1>10, SameLocals DEF Draws
<1>15. QED
  BY <1>11, <1>12, <1>13, <1>14 DEF PoolEffects

LEMMA DrawRangeEffects ==
  ASSUME TypeOK, PoolInv, SumInv, NEW t \in Threads, DrawRange(t),
         UNCHANGED <<temp, output, pending, previous, sum>>
  PROVE  PoolEffects(t)
<1> DEFINE a == task[t]
           n == Ranges(a)
           d == drawn[a]
           r == d % n
<1>1. /\ pc[t] = "claim" /\ range[t] = NoRange
      /\ range' = [range EXCEPT ![t] = r]
      /\ round' = [round EXCEPT ![t] = @ + 1]
      /\ drawn' = [drawn EXCEPT ![a] = @ + 1]
      /\ UNCHANGED <<queued, open, claimed, is_finished, pc, task, chunk, sequential,
                     temp_state, aggregate, prefix>>
  BY DEF DrawRange, RangeDrawn, temp
<1>2. a \in Tasks /\ a # NoTask /\ n \in Nat \ {0} /\ d \in Nat
  BY <1>1, ClaimingThread, TaskTypes, SameLocals DEF AtClaim
<1>3. r \in 0 .. n - 1 /\ d = (d \div n) * n + r /\ d \div n \in Nat
  BY <1>2, DivMod
<1>4. r <= d /\ (d < n => r = d)
  <2> DEFINE q == d \div n
  <2>1. q \in Nat /\ d = q * n + r
    BY <1>3
  <2> HIDE DEF q, r, d, n
  <2>2. q * n \in Nat
    BY <1>2, <2>1
  <2>3. r <= d
    BY <1>2, <1>3, <2>1, <2>2
  <2>4. ASSUME q # 0 PROVE d >= n
    <3>1. PICK s \in Nat : q = s + 1
      BY <2>1, <2>4
    <3>2. q * n = s * n + n /\ s * n \in Nat
      BY <1>2, <3>1
    <3>3. QED
      BY <1>2, <1>3, <2>1, <3>2
  <2>5. q = 0 => d = r
    BY <1>2, <1>3, <2>1
  <2>6. QED
    BY <1>2, <2>3, <2>4, <2>5
<1> HIDE DEF r
<1>5. /\ drawn' \in [Tasks -> Nat] /\ drawn'[a] = d + 1
      /\ \A b \in Tasks : b # a => drawn'[b] = drawn[b]
  BY <1>1, <1>2, SameLocals
<1>6. range'[t] = r /\ r \in Nat /\ r # NoRange /\ r < n /\ r < d + 1
  BY <1>1, <1>2, <1>3, <1>4, SameLocals DEF NoRange
<1>7. Moves(t)
  <2>1. round' \in [Threads -> Nat]
    BY <1>1, SameLocals
  <2>2. "claim" \in PoolLabels
    BY DEF PoolLabels
  <2>3. QED
    BY <1>1, <1>2, <1>6, <2>1, <2>2, SameLocals DEF Moves, Goto, Hold
<1>8. ChangesTask(t)
  BY <1>1, <1>2 DEF ChangesTask
<1>9. Claims(t)
  BY <1>1, SameLocals DEF Claims
<1>10. Draws(t)
  <2>1. \A b \in Tasks :
          /\ drawn[b] <= drawn'[b]
          /\ \A s \in 0 .. Ranges(b) - 1 :
               s < drawn'[b] => s < drawn[b] \/ (task'[t] = b /\ range'[t] = s)
    <3>1. TAKE b \in Tasks
    <3>2. CASE b # a
      BY <1>5, <3>2, SameLocals
    <3>3. CASE b = a
      BY <1>1, <1>2, <1>4, <1>5, <1>6, <3>3
    <3>4. QED
      BY <3>2, <3>3
  <2>2. task'[t] = a /\ pc'[t] = "claim"
    BY <1>1
  <2>3. QED
    BY <1>1, <1>5, <1>6, <2>1, <2>2 DEF Draws
<1>11. QED
  BY <1>7, <1>8, <1>9, <1>10 DEF PoolEffects

LEMMA ClaimInOrderEffects ==
  ASSUME TypeOK, PoolInv, SumInv, NEW t \in Threads, ClaimInOrder(t),
         UNCHANGED <<temp, output, pending, previous, sum>>
  PROVE  PoolEffects(t)
<1> DEFINE a == task[t]
           r == range[t]
<1>1. /\ AtClaim(t) /\ r # NoRange /\ LeftInRange(t) # {} /\ ClaimChunk(t)
      /\ chunk'[t] = Min(LeftInRange(t))
      /\ UNCHANGED <<queued, open, is_finished, task, drawn, range, round, sequential,
                     temp_state, aggregate, prefix>>
  BY DEF ClaimInOrder, ClaimChunk, temp
<1>2. /\ a \in Tasks /\ a # NoTask
      /\ pc[t] \in {"assist", "claim"} /\ (pc[t] = "assist" => sequential[t])
      /\ r \in 0 .. Ranges(a) - 1 /\ r \in Nat
      /\ Ranges(a) = 1 \/ r < drawn[a]
  BY <1>1, ClaimingThread
<1>3. Size(a) \in Nat /\ Ranges(a) \in Nat \ {0}
  BY <1>2, TaskTypes
<1>4. /\ ChunksOf(a, r) \subseteq Blocks(a)
      /\ \A s \in 0 .. Ranges(a) - 1 : s # r => ChunksOf(a, s) \cap ChunksOf(a, r) = {}
  BY <1>2, <1>3, RangesPartition
<1>5. PICK c \in LeftInRange(t) : chunk'[t] = c /\ \A d \in LeftInRange(t) : c <= d
  <2>1. LeftInRange(t) \in SUBSET Nat
    BY <1>3, <1>4 DEF LeftInRange, Blocks
  <2>2. PICK n \in LeftInRange(t) : \A d \in LeftInRange(t) : n <= d
    BY <1>1, <2>1, LeastNatural
  <2>3. Min(LeftInRange(t)) \in LeftInRange(t) /\ \A d \in LeftInRange(t) : Min(LeftInRange(t)) <= d
    BY <2>2 DEF Min
  <2>4. QED
    BY <1>1, <2>3
<1>6. /\ claimed' = [claimed EXCEPT ![a] = @ \cup {c}] /\ Hold(t, c) /\ Goto(t, "run")
  <2>1. PICK d \in Unclaimed(a) :
          /\ claimed' = [claimed EXCEPT ![a] = @ \cup {d}]
          /\ Hold(t, d)
          /\ Goto(t, IF pc[t] = "assist" THEN EntryLabel(a, d) ELSE "run")
    BY <1>1 DEF ClaimChunk
  <2>2. d = c
    BY <1>5, <2>1, SameLocals DEF Hold
  <2>3. EntryLabel(a, c) = "run"
    BY <1>3, <1>4, <1>5 DEF EntryLabel, LoopLabel, Entry, NoChunk, LeftInRange, Blocks
  <2>4. QED
    BY <2>1, <2>2, <2>3
<1>7. pc'[t] = "run" /\ task'[t] = a /\ range'[t] = r
  BY <1>1, <1>6, SameLocals DEF Goto
<1>8. /\ c \in ChunksOf(a, r) /\ c \notin claimed[a] /\ c \in Blocks(a) /\ c \in Int
      /\ \A d \in ChunksOf(a, r) : d < c => d \in claimed[a]
  BY <1>3, <1>4, <1>5 DEF LeftInRange, Blocks
<1>9. Moves(t)
  BY <1>1, <1>2, <1>6, <1>8, SameLocals DEF Moves
<1>10. ChangesTask(t)
  BY <1>1, <1>2, <1>7 DEF ChangesTask
<1>11. Claims(t)
  BY <1>1, <1>2, <1>4, <1>5, <1>6, <1>7, <1>8, SameLocals DEF Claims
<1>12. Draws(t)
  BY <1>1, <1>2, <1>3, <1>7, SameLocals DEF Draws
<1>13. QED
  BY <1>9, <1>10, <1>11, <1>12 DEF PoolEffects

LEMMA EndRangeEffects ==
  ASSUME TypeOK, PoolInv, SumInv, NEW t \in Threads, EndRange(t),
         UNCHANGED <<temp, output, pending, previous, sum>>
  PROVE  PoolEffects(t)
<1> DEFINE a == task[t]
<1>1. /\ AtClaim(t) /\ range[t] # NoRange /\ LeftInRange(t) = {}
      /\ range' = [range EXCEPT ![t] = NoRange]
      /\ UNCHANGED <<queued, claimed, is_finished, task, drawn, temp_state, aggregate, prefix>>
  BY DEF EndRange, EndLoop, temp
<1>2. /\ a \in Tasks /\ a # NoTask
      /\ pc[t] \in {"assist", "claim"} /\ (pc[t] = "assist" => sequential[t])
  BY <1>1, ClaimingThread
<1>3. ChunksOf(a, range[t]) \subseteq claimed[a]
  BY <1>1 DEF LeftInRange
<1>4. PICK l \in {"assist", "claim", "leave"} :
        /\ pc' = [pc EXCEPT ![t] = l]
        /\ l \in {"assist", "claim"} => l = pc[t] /\ open' = open /\ sequential' = sequential
        /\ l = "leave" => open' = open \ {a} /\ sequential' = [sequential EXCEPT ![t] = TRUE]
        /\ round' \in [Threads -> Nat]
        /\ \E c \in Int : Hold(t, c)
  <2>1. CASE round[t] < Ranges(a)
    BY <1>2, <2>1, SameLocals DEF EndRange, Hold
  <2>2. CASE ~(round[t] < Ranges(a))
    BY <2>2, SameLocals DEF EndRange, EndLoop, After, Goto, NoChunk
  <2>3. QED
    BY <2>1, <2>2
<1>5. pc'[t] = l /\ task'[t] = a /\ range'[t] = NoRange
  BY <1>1, <1>4, SameLocals
<1>6. sequential'[t] \/ (sequential' = sequential /\ pc[t] = "claim" /\ pc'[t] = "claim")
  BY <1>2, <1>4, <1>5, SameLocals
<1>7. Moves(t)
  BY <1>1, <1>2, <1>4, SameLocals DEF Goto, PoolLabels, Moves
<1>8. ChangesTask(t)
  BY <1>1, <1>2, <1>4, <1>5, <1>6 DEF ChangesTask
<1>9. Claims(t)
  BY <1>1, <1>5, SameLocals DEF Claims
<1>10. Draws(t)
  BY <1>1, <1>3, <1>5, SameLocals DEF Draws
<1>11. QED
  BY <1>7, <1>8, <1>9, <1>10 DEF PoolEffects

LEMMA ScheduleEffects ==
  ASSUME TypeOK, PoolInv, SumInv, NEW t \in Threads, Schedule(t)
  PROVE  PoolEffects(t)
<1>1. UNCHANGED <<temp, output, pending, previous, sum>>
  BY DEF Schedule
<1>2. CASE Begin(t)
  BY <1>1, <1>2, BeginEffects
<1>3. CASE DrawRange(t)
  BY <1>1, <1>3, DrawRangeEffects
<1>4. CASE ClaimInOrder(t)
  BY <1>1, <1>4, ClaimInOrderEffects
<1>5. CASE EndRange(t)
  BY <1>1, <1>5, EndRangeEffects
<1>6. CASE /\ StartSingle(t) \/ EndTask(t) \/ Return(t)
           /\ UNCHANGED <<drawn, range, round, sequential>>
  BY <1>1, <1>6, StartSingleEffects, EndTaskEffects, ReturnEffects
<1>7. QED
  BY <1>2, <1>3, <1>4, <1>5, <1>6 DEF Schedule

(* The pool and the order of the ranges.                                   *)
LEMMA ScheduleKeeps ==
  ASSUME TypeOK, PoolInv, SumInv, NEW t \in Threads, Schedule(t)
  PROVE  TypeOK' /\ PoolInv' /\ SumInv'
BY ScheduleEffects, PoolStepKeeps

-----------------------------------------------------------------------------
(* The steps that push a task.                                             *)

(* A thread ends a chunk of the task over all arrays or the finish         *)
(* function of its task; it pushes task e, or none.                        *)
Pushes(t, e) ==
  /\ e \in DOMAIN temp_state \cup {NoTask}
  /\ \/ e = NoTask /\ UNCHANGED <<temp, queued>>
     \/ e # NoTask /\ Untouched(e) /\ PushArray(e)
  /\ \/ /\ pc[t] = "run" /\ task[t] \in Tasks /\ task[t][2] = 0
        /\ Goto(t, "claim") /\ UNCHANGED task
        /\ e # NoTask => Program(e).version = "our" /\ e[2] = chunk[t] + 1
     \/ /\ pc[t] = "finish" /\ Leave(t)
        /\ e # NoTask => Program(e).version = "inner" /\ e[2] = task[t][2] + 1
  /\ is_finished' \in BOOLEAN /\ pending' \in Int /\ DOMAIN output' = DOMAIN output
  /\ UNCHANGED <<open, claimed, drawn, range, round, chunk, sequential, previous, sum>>

(* The other threads, and the tasks but e, stay as they are.               *)
LEMMA PushFrame ==
  ASSUME TypeOK, PoolInv, NEW t \in Threads, NEW e, Pushes(t, e)
  PROVE  /\ \A u \in Threads \ {t} : pc'[u] = pc[u] /\ task'[u] = task[u]
         /\ \/ pc[t] = "run" /\ pc'[t] = "claim" /\ task'[t] = task[t] /\ task[t][2] = 0
               /\ task[t] \in Tasks
            \/ pc[t] = "finish" /\ pc'[t] = "idle" /\ task'[t] = NoTask
         /\ \A u \in Threads : e # NoTask => task[u] # e /\ task'[u] # e
         /\ queued' = queued \cup ({e} \ {NoTask})
         /\ e # NoTask => e \in DOMAIN temp_state /\ e \notin queued \cup open /\ claimed[e] = {}
         /\ \A a \in DOMAIN temp_state \ {e} :
              temp_state'[a] = temp_state[a] /\ aggregate'[a] = aggregate[a] /\ prefix'[a] = prefix[a]
         /\ e # NoTask =>
              temp_state'[e] = FreshState(e) /\ aggregate'[e] = Zero(e) /\ prefix'[e] = Zero(e)
         /\ \A a \in Tasks \ {e} : Live(a)' => Live(a)
         /\ \A a \in Tasks \ {e} : Untouched(a) => Untouched(a)'
<1>1. /\ \A u \in Threads \ {t} : pc'[u] = pc[u] /\ task'[u] = task[u]
      /\ \/ pc[t] = "run" /\ pc'[t] = "claim" /\ task'[t] = task[t] /\ task[t][2] = 0
            /\ task[t] \in Tasks
         \/ pc[t] = "finish" /\ pc'[t] = "idle" /\ task'[t] = NoTask
  <2>1. /\ pc \in [Threads -> PoolLabels \cup Working \cup {"finish"}]
        /\ task \in [Threads -> Tasks \cup {NoTask}]
    BY DEF TypeOK
  <2>2. \/ /\ pc[t] = "run" /\ task[t][2] = 0 /\ task[t] \in Tasks
           /\ pc' = [pc EXCEPT ![t] = "claim"] /\ task' = task
        \/ /\ pc[t] = "finish"
           /\ pc' = [pc EXCEPT ![t] = "idle"] /\ task' = [task EXCEPT ![t] = NoTask]
    BY DEF Pushes, Leave, Goto
  <2>3. QED
    BY ONLY <2>1, <2>2, t \in Threads
<1>2. e # NoTask => e \in DOMAIN temp_state /\ e \notin queued \cup open /\ claimed[e] = {}
                      /\ \A u \in Threads : task[u] # e
  BY DEF Pushes, Untouched, Live
<1>3. queued' = queued \cup ({e} \ {NoTask})
  BY DEF Pushes, PushArray, Push
<1>4. /\ \A a \in DOMAIN temp_state \ {e} :
           temp_state'[a] = temp_state[a] /\ aggregate'[a] = aggregate[a] /\ prefix'[a] = prefix[a]
      /\ e # NoTask =>
           temp_state'[e] = FreshState(e) /\ aggregate'[e] = Zero(e) /\ prefix'[e] = Zero(e)
  <2>1. DOMAIN aggregate = DOMAIN temp_state /\ DOMAIN prefix = DOMAIN temp_state
    BY DEF TypeOK
  <2>2. CASE e = NoTask
    BY <2>2 DEF Pushes, temp
  <2>3. CASE e # NoTask
    BY <1>2, <2>1, <2>3 DEF Pushes, PushArray, Reset
  <2>4. QED
    BY <2>2, <2>3
<1>5. \A u \in Threads : e # NoTask => task[u] # e /\ task'[u] # e
  BY <1>1, <1>2
<1>6. open' = open /\ claimed' = claimed
  BY DEF Pushes
<1>7. \A a \in Tasks \ {e} : Live(a)' => Live(a)
  <2>1. \A a \in Tasks : a # NoTask
    BY TaskTypes
  <2>2. ASSUME NEW a \in Tasks \ {e}, Live(a)' PROVE Live(a)
    BY <1>1, <1>3, <1>6, <2>1, <2>2 DEF Live
  <2>3. QED
    BY <2>2
<1>8. \A a \in Tasks \ {e} : Untouched(a) => Untouched(a)'
  BY <1>6, <1>7 DEF Untouched
<1>9. QED
  BY <1>1, <1>2, <1>3, <1>4, <1>5, <1>7, <1>8

LEMMA PushTypes ==
  ASSUME TypeOK, PoolInv, NEW t \in Threads, NEW e, Pushes(t, e)
  PROVE  TypeOK'
<1>1. /\ pc' \in [Threads -> PoolLabels \cup Working \cup {"finish"}]
      /\ task' \in [Threads -> Tasks \cup {NoTask}]
  <2>1. /\ pc \in [Threads -> PoolLabels \cup Working \cup {"finish"}]
        /\ task \in [Threads -> Tasks \cup {NoTask}]
    BY DEF TypeOK
  <2>2. \/ pc' = [pc EXCEPT ![t] = "claim"] /\ task' = task
        \/ pc' = [pc EXCEPT ![t] = "idle"] /\ task' = [task EXCEPT ![t] = NoTask]
    BY DEF Pushes, Leave, Goto
  <2>3. "claim" \in PoolLabels /\ "idle" \in PoolLabels
    BY DEF PoolLabels
  <2>4. QED
    BY ONLY <2>1, <2>2, <2>3, t \in Threads
<1>2. queued' \subseteq Tasks
  <2>1. queued' = queued \cup ({e} \ {NoTask})
    BY PushFrame
  <2>2. queued \subseteq Tasks /\ e \in Tasks \cup {NoTask}
    BY TaskTypes DEF TypeOK, Pushes
  <2>3. QED
    BY <2>1, <2>2
<1>3. /\ DOMAIN temp_state' = DOMAIN temp_state
      /\ DOMAIN aggregate' = DOMAIN aggregate
      /\ DOMAIN prefix' = DOMAIN prefix
  BY DEF Pushes, PushArray, Reset, temp
<1>4. ASSUME NEW a \in DOMAIN temp_state
      PROVE  /\ temp_state'[a] \in
                  [Blocks(a) -> {"initialized", "aggregate available", "prefix available"}]
             /\ aggregate'[a] \in [Blocks(a) -> Nat]
             /\ prefix'[a] \in [Blocks(a) -> Nat]
  <2>1. CASE a = e
    <3>1. a # NoTask
      BY TaskTypes
    <3>2. temp_state'[a] = FreshState(a) /\ aggregate'[a] = Zero(a) /\ prefix'[a] = Zero(a)
      BY <2>1, <3>1, PushFrame
    <3>3. QED
      BY <3>2 DEF FreshState, Zero
  <2>2. CASE a # e
    <3>1. temp_state'[a] = temp_state[a] /\ aggregate'[a] = aggregate[a] /\ prefix'[a] = prefix[a]
      BY <2>2, PushFrame
    <3>2. QED
      BY <3>1 DEF TypeOK
  <2>3. QED
    BY <2>1, <2>2
<1>5. /\ DOMAIN output' = DOMAIN output /\ is_finished' \in BOOLEAN /\ pending' \in Int
      /\ UNCHANGED <<open, claimed, drawn, range, round, chunk, sequential, previous, sum>>
  BY DEF Pushes
<1>6. \E q \in DOMAIN Programs :
        /\ DOMAIN claimed' = {InitialTask(q)} \cup Arrays(q)
        /\ DOMAIN temp_state' = Arrays(q) /\ DOMAIN output' = Arrays(q)
        /\ DOMAIN aggregate' = Arrays(q) /\ DOMAIN prefix' = Arrays(q)
        /\ drawn' \in [{InitialTask(q)} \cup Arrays(q) -> Nat]
  BY <1>3, <1>5 DEF TypeOK
<1>7. \A c : Blocks(c)' = Blocks(c)
  BY DEF Blocks, Size, Program, Input
<1>8. \A q : InitialTask(q)' = InitialTask(q) /\ Arrays(q)' = Arrays(q)
  BY DEF InitialTask, Arrays
<1>9. Tasks' = Tasks
  BY <1>5 DEF Tasks
<1>10. /\ \A a \in Tasks : claimed[a] \subseteq Blocks(a)
       /\ open \subseteq Tasks
       /\ chunk \in [Threads -> Int]
       /\ range \in [Threads -> Nat \cup {NoRange}]
       /\ round \in [Threads -> Nat]
       /\ sequential \in [Threads -> BOOLEAN]
       /\ previous \in [Threads -> Int]
       /\ sum \in [Threads -> Nat]
  BY DEF TypeOK
<1>11. QED
  BY <1>1, <1>2, <1>3, <1>4, <1>5, <1>6, <1>7, <1>8, <1>9, <1>10 DEF TypeOK

LEMMA PushThreads ==
  ASSUME TypeOK, PoolInv, NEW t \in Threads, NEW e, Pushes(t, e)
  PROVE  ThreadsOnTasks' /\ TaskStages'
<1>1. /\ \A u \in Threads \ {t} : pc'[u] = pc[u] /\ task'[u] = task[u]
      /\ \/ pc[t] = "run" /\ pc'[t] = "claim" /\ task'[t] = task[t] /\ task[t] \in Tasks
         \/ pc[t] = "finish" /\ pc'[t] = "idle" /\ task'[t] = NoTask
      /\ UNCHANGED <<open, claimed, chunk>>
  BY PushFrame DEF Pushes
<1>2. pc'[t] \notin Working
  BY <1>1 DEF Working, Unannounced, Looking, Late
<1>3. \A u \in Threads :
        /\ task[u] = NoTask <=> pc[u] \in {"idle", "returned"}
        /\ pc[u] \in Working =>
             /\ chunk[u] \in claimed[task[u]]
             /\ task[u][2] = 0 => pc[u] = "run"
             /\ \A v \in Threads \ {u} :
                  pc[v] \in Working /\ task[v] = task[u] => chunk[v] # chunk[u]
  BY DEF PoolInv, ThreadsOnTasks
<1>4. \A a \in Tasks : a # NoTask
  BY TaskTypes
<1>5. ThreadsOnTasks'
  BY <1>1, <1>2, <1>3, <1>4 DEF ThreadsOnTasks
<1>6. /\ queued' = queued \cup ({e} \ {NoTask})
      /\ e # NoTask => e \notin open /\ claimed[e] = {} /\ \A u \in Threads : task'[u] # e
  BY PushFrame
<1>7. /\ \A a \in queued : a \notin open /\ claimed[a] = {} /\ \A u \in Threads : task[u] # a
      /\ \A u \in Threads : pc[u] \in {"leave", "finish"} => task[u] \notin open
      /\ \A u \in Threads : pc[u] = "finish" => \A v \in Threads \ {u} : task[v] # task[u]
  BY DEF PoolInv, TaskStages
<1>8. \A a \in queued : a # NoTask
  BY SameLocals
<1>9. /\ \A a \in queued' : a \notin open' /\ claimed'[a] = {} /\ \A u \in Threads : task'[u] # a
      /\ \A u \in Threads : pc'[u] \in {"leave", "finish"} => task'[u] \notin open'
  BY <1>1, <1>6, <1>7, <1>8
<1>10. ASSUME NEW u \in Threads, pc'[u] = "finish", NEW v \in Threads \ {u}
       PROVE  task'[v] # task'[u]
  BY <1>1, <1>3, <1>7, <1>10
<1>11. TaskStages'
  BY <1>9, <1>10 DEF TaskStages
<1>12. QED
  BY <1>5, <1>11

LEMMA PushOrder ==
  ASSUME TypeOK, PoolInv, NEW t \in Threads, NEW e, Pushes(t, e)
  PROVE  PushedOnce'
<1>1. /\ \A u \in Threads \ {t} : pc'[u] = pc[u] /\ task'[u] = task[u]
      /\ pc'[t] # "run"
      /\ UNCHANGED <<open, claimed, chunk>>
  BY PushFrame DEF Pushes
<1>2. /\ \A a \in Tasks \ {e} : Live(a)' => Live(a)
      /\ \A a \in Tasks \ {e} : Untouched(a) => Untouched(a)'
  BY PushFrame
<1>3. /\ Tasks' = Tasks
      /\ \A a \in Tasks : Program(a)' = Program(a)
  BY <1>1 DEF Tasks, Program
<1>4. \A a, b \in Tasks : a[1] = b[1] /\ (a[2] = b[2] => a = b) /\ Program(a) = Program(b)
        /\ a[2] \in Nat
  BY TaskTypes DEF Program
<1>5. e \in Tasks => e # NoTask /\ e \in DOMAIN temp_state /\ e[2] # 0
  BY PushFrame, TaskTypes
<1>6. ASSUME NEW a \in Tasks, NEW b \in Tasks,
             Program(a).version = "our", a[2] = 0, b[2] # 0,
             \/ b[2] - 1 \notin claimed'[a]
             \/ \E u \in Threads : pc'[u] = "run" /\ task'[u] = a /\ chunk'[u] = b[2] - 1
      PROVE  Untouched(b)'
  <2>1. \/ b[2] - 1 \notin claimed[a]
        \/ \E u \in Threads \ {t} : pc[u] = "run" /\ task[u] = a /\ chunk[u] = b[2] - 1
    BY <1>1, <1>6
  <2>2. b # e
    <3>1. SUFFICES ASSUME b = e PROVE FALSE
      OBVIOUS
    <3>2. Program(e).version = "our" /\ e # NoTask
      BY <1>4, <1>5, <1>6, <3>1
    <3>3. pc[t] = "run" /\ task[t] \in Tasks /\ task[t][2] = 0 /\ e[2] = chunk[t] + 1
      BY <3>2 DEF Pushes
    <3>4. task[t] = a /\ chunk[t] = b[2] - 1
      <4>1. chunk[t] \in Int
        BY DEF TypeOK
      <4>2. QED
        BY <1>4, <1>6, <3>1, <3>3, <4>1
    <3>5. pc[t] \in Working /\ \A u \in Threads : pc[u] = "run" => pc[u] \in Working
      BY <3>3 DEF Working, Unannounced
    <3>6. /\ chunk[t] \in claimed[a]
          /\ \A u \in Threads \ {t} : pc[u] = "run" /\ task[u] = a => chunk[u] # chunk[t]
      BY <3>4, <3>5 DEF PoolInv, ThreadsOnTasks
    <3>7. QED
      BY <2>1, <3>4, <3>6
  <2>3. Untouched(b)
    BY <1>6, <2>1 DEF PoolInv, PushedOnce, ToRun
  <2>4. QED
    BY <1>2, <2>2, <2>3
<1>7. ASSUME NEW a \in Tasks, NEW b \in Tasks,
             Program(a).version = "inner", Live(a)', b[2] > a[2]
      PROVE  Untouched(b)'
  <2>1. \A c, d \in Tasks : Program(c).version = "inner" /\ Live(c) /\ d[2] > c[2] => Untouched(d)
    BY DEF PoolInv, PushedOnce
  <2>2. CASE e \notin Tasks
    BY <1>2, <1>7, <2>1, <2>2
  <2>3. CASE e \in Tasks
    <3>1. PICK f \in Tasks : task[t] = f /\ pc[t] = "finish" /\ e[2] = f[2] + 1
      BY <1>4, <1>5, <1>7, <2>3, SameLocals DEF Pushes, PoolInv, ThreadsOnTasks
    <3>2. f \notin open /\ f \notin queued /\ Live(f) /\ \A u \in Threads \ {t} : task[u] # f
      BY <3>1 DEF PoolInv, TaskStages, Live
    <3>3. f # e /\ ~Live(f)'
      <4>1. f # NoTask
        BY TaskTypes
      <4>2. task'[t] = NoTask /\ f # e /\ queued' = queued \cup ({e} \ {NoTask})
        BY <1>5, <2>3, <3>1, PushFrame
      <4>3. QED
        BY <1>1, <3>2, <4>1, <4>2 DEF Live
    <3>4. a[2] \in Nat /\ b[2] \in Nat /\ f[2] \in Nat /\ a # f
      BY <1>4, <1>7, <3>2, <3>3
    <3>5. Program(f).version = "inner"
      BY <1>4, <1>7, <3>2
    <3>6. CASE a = e
      BY <1>2, <1>7, <2>1, <3>1, <3>2, <3>4, <3>5, <3>6
    <3>7. CASE a # e
      <4>1. Live(a)
        BY <1>2, <1>7, <3>7
      <4>2. ~(f[2] > a[2])
        BY <1>7, <2>1, <3>2, <4>1 DEF Untouched
      <4>3. a[2] # f[2]
        BY <1>4, <3>2, <3>4
      <4>4. b # e
        BY <1>7, <3>1, <3>4, <4>2, <4>3
      <4>5. QED
        BY <1>2, <1>7, <2>1, <4>1, <4>4
    <3>8. QED
      BY <3>6, <3>7
  <2>4. QED
    BY <2>2, <2>3
<1>8. QED
  BY <1>3, <1>6, <1>7 DEF PushedOnce, ToRun

LEMMA PushRanges ==
  ASSUME TypeOK, PoolInv, NEW t \in Threads, NEW e, Pushes(t, e)
  PROVE  RangesInOrder'
<1>1. /\ \A u \in Threads \ {t} : pc'[u] = pc[u] /\ task'[u] = task[u]
      /\ \/ pc[t] = "run" /\ pc'[t] = "claim" /\ task'[t] = task[t]
         \/ pc[t] = "finish" /\ range[t] = NoRange /\ pc'[t] = "idle"
      /\ UNCHANGED <<open, claimed, drawn, range, chunk>>
  BY PushFrame DEF PoolInv, RangesInOrder, AtClaim, Working, Unannounced, Looking, Late, Pushes
<1>2. Tasks' = Tasks
  BY <1>1 DEF Tasks
<1>3. /\ \A a : Ranges(a)' = Ranges(a)
      /\ \A a, r : ChunksOf(a, r)' = ChunksOf(a, r)
  BY DEF Ranges, ChunksOf, FirstChunk, Size, Program, Input
<1>4. ASSUME NEW u \in Threads
      PROVE  /\ pc'[u] \in Working => range'[u] # NoRange
             /\ range'[u] # NoRange =>
                  /\ pc'[u] \in {"assist", "claim"} \/ pc'[u] \in Working
                  /\ range'[u] < Ranges(task'[u])
                  /\ Ranges(task'[u]) = 1 \/ range'[u] < drawn'[task'[u]]
                  /\ pc'[u] \in Working => chunk'[u] \in ChunksOf(task'[u], range'[u])
  <2>1. /\ pc[u] \in Working => range[u] # NoRange
        /\ range[u] # NoRange =>
             /\ pc[u] \in {"assist", "claim"} \/ pc[u] \in Working
             /\ range[u] < Ranges(task[u])
             /\ Ranges(task[u]) = 1 \/ range[u] < drawn[task[u]]
             /\ pc[u] \in Working => chunk[u] \in ChunksOf(task[u], range[u])
    BY DEF PoolInv, RangesInOrder, AtClaim
  <2>2. CASE u # t
    BY <1>1, <2>1, <2>2
  <2>3. CASE u = t
    BY <1>1, <2>1, <2>3 DEF Working, Unannounced, Looking, Late
  <2>4. QED
    BY <2>2, <2>3
<1>5. ASSUME NEW a \in Tasks, NEW r \in 0 .. Ranges(a) - 1
      PROVE  /\ \A b \in ChunksOf(a, r) \cap claimed'[a] :
                  \A c \in ChunksOf(a, r) : c < b => c \in claimed'[a]
             /\ r < drawn'[a] =>
                  \/ ChunksOf(a, r) \subseteq claimed'[a]
                  \/ \E u \in Threads : task'[u] = a /\ range'[u] = r
  <2>1. /\ \A b \in ChunksOf(a, r) \cap claimed[a] :
             \A c \in ChunksOf(a, r) : c < b => c \in claimed[a]
        /\ r < drawn[a] =>
             \/ ChunksOf(a, r) \subseteq claimed[a]
             \/ \E u \in Threads : task[u] = a /\ range[u] = r
    BY DEF PoolInv, RangesInOrder
  <2>2. r # NoRange
    BY DEF NoRange
  <2>3. ASSUME NEW u \in Threads, task[u] = a, range[u] = r
        PROVE  task'[u] = a /\ range'[u] = r
    BY <1>1, <2>2, <2>3
  <2>4. QED
    BY <1>1, <2>1, <2>3
<1>6. QED
  BY <1>2, <1>3, <1>4, <1>5 DEF RangesInOrder, AtClaim

(* A new task has announced nothing, and no thread has looked at it.       *)
LEMMA PushSums ==
  ASSUME TypeOK, PoolInv, SumInv, NEW t \in Threads, NEW e, Pushes(t, e)
  PROVE  SumInv'
<1>1. /\ \A u \in Threads \ {t} : pc'[u] = pc[u] /\ task'[u] = task[u]
      /\ pc[t] \in {"run", "finish"} /\ pc'[t] \in {"idle", "claim"}
      /\ task[t] \in DOMAIN temp_state => pc[t] = "finish"
      /\ task'[t] \notin DOMAIN temp_state
      /\ sequential[t]
      /\ UNCHANGED <<open, claimed, chunk, sequential, previous, sum>>
  BY TaskTypes, PushFrame DEF SumInv, SequentialThreads, Pushes
<1>2. /\ \A a \in DOMAIN temp_state \ {e} :
           /\ temp_state'[a] = temp_state[a] /\ aggregate'[a] = aggregate[a]
           /\ prefix'[a] = prefix[a] /\ (Live(a)' => Live(a))
      /\ e # NoTask => temp_state'[e] = FreshState(e) /\ claimed[e] = {}
      /\ \A u \in Threads : e # NoTask => task[u] # e
  BY PushFrame, TaskTypes
<1>3. DOMAIN temp_state' = DOMAIN temp_state
  BY DEF Pushes, PushArray, Reset, temp
<1>4. \A a \in DOMAIN temp_state : a # NoTask
  BY TaskTypes
<1>5. /\ \A a : Blocks(a)' = Blocks(a)
      /\ \A a, b : Local(a, b)' = Local(a, b) /\ Before(a, b)' = Before(a, b)
      /\ \A a, i, j : Total(a, i, j)' = Total(a, i, j) /\ BlockStart(a, i)' = BlockStart(a, i)
  BY SameArrays
<1>6. AnnouncedIsThere'
  <2>1. ASSUME NEW a \in DOMAIN temp_state, Live(a)', NEW b \in Blocks(a)
        PROVE  /\ temp_state'[a][b] = "aggregate available" => aggregate'[a][b] = Local(a, b)
               /\ temp_state'[a][b] = "prefix available" => prefix'[a][b] = Before(a, b + 1)
    <3>1. CASE a = e
      BY <1>2, <1>4, <2>1, <3>1 DEF FreshState
    <3>2. CASE a # e
      BY <1>2, <2>1, <3>2 DEF SumInv, AnnouncedIsThere
    <3>3. QED
      BY <3>1, <3>2
  <2>2. QED
    BY <1>3, <1>5, <2>1 DEF AnnouncedIsThere
<1>7. AnnouncedInOrder'
  <2>1. ASSUME NEW a \in DOMAIN temp_state, Live(a)', NEW b \in Blocks(a)
        PROVE  /\ temp_state'[a][b] = "aggregate available" => b # 0
               /\ temp_state'[a][b] = "prefix available" => temp_state'[a][0] = "prefix available"
               /\ temp_state'[a][b] # "initialized" => b \in claimed'[a]
               /\ b \in claimed'[a] /\ temp_state'[a][b] = "initialized" => Held(a, b)'
    <3>1. CASE a = e
      <4>1. temp_state'[a][b] = "initialized" /\ claimed'[a] = {}
        BY <1>1, <1>2, <1>4, <2>1, <3>1 DEF FreshState
      <4>2. QED
        BY <4>1
    <3>2. CASE a # e
      <4>1. temp_state'[a] = temp_state[a] /\ claimed'[a] = claimed[a] /\ Live(a)
        BY <1>1, <1>2, <2>1, <3>2
      <4>2. Held(a, b) => Held(a, b)'
        <5>1. ASSUME NEW u \in Threads, pc[u] \in Unannounced, task[u] = a, chunk[u] = b
              PROVE  u # t
          BY <1>1, <5>1 DEF Unannounced
        <5>2. QED
          BY <1>1, <5>1 DEF Held
      <4>3. QED
        BY <2>1, <4>1, <4>2 DEF SumInv, AnnouncedInOrder
    <3>3. QED
      BY <3>1, <3>2
  <2>2. QED
    BY <1>3, <1>5, <2>1 DEF AnnouncedInOrder
<1>8. LookBackInBounds'
  BY <1>1 DEF SumInv, LookBackInBounds, Looking
<1>9. SequentialThreads'
  BY <1>1 DEF SumInv, SequentialThreads
<1>10. SumsSoFar'
  <2>1. ASSUME NEW u \in Threads
        PROVE  /\ pc'[u] \notin Summing => sum'[u] = 0
               /\ task'[u] \in DOMAIN temp_state' => SumSoFar(u)'
    <3>1. /\ pc[u] \notin Summing => sum[u] = 0
          /\ task[u] \in DOMAIN temp_state => SumSoFar(u)
      BY DEF SumInv, SumsSoFar
    <3>2. CASE u = t
      BY <1>1, <1>3, <3>1, <3>2 DEF Summing, Looking, Late
    <3>3. CASE u # t
      <4>1. ASSUME task[u] \in DOMAIN temp_state
            PROVE  SumSoFar(u)'
        <5>1. PICK a \in DOMAIN temp_state : a = task[u]
          BY <4>1
        <5>2. /\ temp_state'[a] = temp_state[a]
              /\ aggregate'[a] = aggregate[a]
              /\ prefix'[a] = prefix[a]
          BY <1>2, <1>4, <5>1
        <5>3. /\ pc'[u] = pc[u] /\ task'[u] = a /\ chunk'[u] = chunk[u]
              /\ sequential'[u] = sequential[u] /\ previous'[u] = previous[u] /\ sum'[u] = sum[u]
          BY <1>1, <3>3, <5>1
        <5>4. SumSoFar(u)
          BY <3>1, <4>1
        <5>5. QED
          BY <5>1, <5>2, <5>3, <5>4, ZenonT(30) DEF SumSoFar
      <4>2. QED
        BY <1>1, <1>3, <3>1, <3>3, <4>1
    <3>4. QED
      BY <3>2, <3>3
  <2>2. QED
    BY <2>1 DEF SumsSoFar
<1>11. QED
  BY <1>6, <1>7, <1>8, <1>9, <1>10 DEF SumInv

LEMMA PushKeeps ==
  ASSUME TypeOK, PoolInv, SumInv, NEW t \in Threads, NEW e, Pushes(t, e)
  PROVE  TypeOK' /\ PoolInv' /\ SumInv'
BY PushTypes, PushThreads, PushOrder, PushRanges, PushSums DEF PoolInv

LEMMA RunArrayPushes ==
  ASSUME TypeOK, PoolInv, SumInv, NEW t \in Threads, RunArray(t)
  PROVE  \E e : Pushes(t, e)
<1> DEFINE a == task[t]
           e == <<a[1], chunk[t] + 1>>
<1>1. /\ pc[t] = "run" /\ a[2] = 0 /\ Goto(t, "claim")
      /\ IF Program(e).version = "our"
           THEN PushArray(e) /\ UNCHANGED output
           ELSE /\ output' = [output EXCEPT ![e] = reference_sequential(e)]
                /\ UNCHANGED <<temp, queued>>
      /\ UNCHANGED <<is_finished, task, pending>>
      /\ UNCHANGED <<open, claimed, drawn, range, round, chunk, sequential, previous, sum>>
  BY DEF RunArray, scheduling, look
<1>2. a \in Tasks /\ chunk[t] \in claimed[a] /\ chunk[t] \in Blocks(a)
  BY <1>1, BlockTypes DEF PoolInv, Working, Unannounced
<1>3. e \in DOMAIN temp_state /\ e \in Tasks /\ e # NoTask /\ Program(e) = Program(a)
  BY <1>1, <1>2, TaskTypes DEF Program
<1>4. e[2] = chunk[t] + 1 /\ e[2] # 0 /\ e[2] - 1 = chunk[t]
  BY <1>2, TaskTypes DEF Blocks
<1>5. is_finished' \in BOOLEAN /\ pending' \in Int
  BY <1>1 DEF TypeOK
<1>6. CASE Program(e).version = "our"
  <2>1. Untouched(e)
    BY <1>1, <1>2, <1>3, <1>4, <1>6 DEF PoolInv, PushedOnce, ToRun
  <2>2. PushArray(e) /\ output' = output
    BY <1>1, <1>6
  <2>3. Pushes(t, e)
    BY <1>1, <1>2, <1>3, <1>4, <1>5, <1>6, <2>1, <2>2 DEF Pushes
  <2>4. QED
    BY <2>3
<1>7. CASE Program(e).version # "our"
  BY <1>1, <1>2, <1>5, <1>7 DEF Pushes
<1>8. QED
  BY <1>6, <1>7

LEMMA FinishArrayPushes ==
  ASSUME TypeOK, PoolInv, SumInv, NEW t \in Threads, FinishArray(t)
  PROVE  \E e : Pushes(t, e)
<1>1. /\ pc[t] = "finish" /\ Leave(t) /\ UNCHANGED output
      /\ UNCHANGED <<open, claimed, drawn, range, round, chunk, sequential, previous, sum>>
      /\ CASE Program(task[t]).version = "our"   -> FinishOur /\ UNCHANGED <<queued, temp>>
           [] Program(task[t]).version = "inner" -> FinishInner(task[t]) /\ UNCHANGED pending
           [] Program(task[t]).version = "outer" -> Finish /\ UNCHANGED <<queued, temp, pending>>
  BY DEF FinishArray, scheduling, look
<1>2. PICK a \in Tasks : a = task[t]
  BY <1>1, SameLocals DEF PoolInv, ThreadsOnTasks
<1>3. is_finished \in BOOLEAN /\ pending \in Int
  BY DEF TypeOK
<1>4. ASSUME UNCHANGED <<queued, temp>>, is_finished' \in BOOLEAN, pending' \in Int
      PROVE  \E e : Pushes(t, e)
  BY <1>1, <1>4 DEF Pushes
<1>5. CASE Program(a).version = "our"
  BY <1>1, <1>2, <1>3, <1>4, <1>5 DEF FinishOur
<1>6. CASE Program(a).version = "outer"
  BY <1>1, <1>2, <1>3, <1>4, <1>6 DEF Finish
<1>7. CASE Program(a).version = "inner"
  <2>1. FinishInner(a) /\ UNCHANGED pending
    BY <1>1, <1>2, <1>7
  <2>2. CASE a[2] = Len(Program(a).inputs)
    BY <1>3, <1>4, <2>1, <2>2 DEF FinishInner, Finish
  <2>3. CASE a[2] # Len(Program(a).inputs)
    <3> DEFINE e == <<a[1], a[2] + 1>>
    <3>1. PushArray(e) /\ UNCHANGED is_finished
      BY <2>1, <2>3 DEF FinishInner
    <3>2. a[2] \in Nat /\ a[2] # 0
      BY <1>7, TaskTypes
    <3>3. e \in DOMAIN temp_state /\ e \in Tasks /\ e # NoTask /\ Program(e) = Program(a)
      BY <2>3, <3>2, TaskTypes DEF Program
    <3>4. e[2] = a[2] + 1 /\ e[2] > a[2]
      BY <3>2
    <3>5. Untouched(e)
      BY <1>2, <1>7, <3>3, <3>4 DEF Live, PoolInv, PushedOnce
    <3>6. Pushes(t, e)
      BY <1>1, <1>2, <1>3, <1>7, <2>1, <3>1, <3>3, <3>4, <3>5 DEF Pushes
    <3>7. QED
      BY <3>6
  <2>4. QED
    BY <2>2, <2>3
<1>8. QED
  BY <1>2, <1>5, <1>6, <1>7, TaskTypes

-----------------------------------------------------------------------------
(* The specification.                                                      *)

LEMMA StepKeeps ==
  ASSUME TypeOK, PoolInv, SumInv, NEW t \in Threads, Step(t)
  PROVE  TypeOK' /\ PoolInv' /\ SumInv'
<1>1. CASE Schedule(t)
  BY <1>1, ScheduleKeeps
<1>2. CASE RunArray(t)
  BY <1>2, RunArrayPushes, PushKeeps
<1>3. CASE RunBlock(t)
  BY <1>3, RunBlockKeeps
<1>4. CASE FinishArray(t)
  BY <1>4, FinishArrayPushes, PushKeeps
<1>5. QED
  BY <1>1, <1>2, <1>3, <1>4 DEF Step

LEMMA StutterKeeps ==
  ASSUME TypeOK, PoolInv, SumInv, UNCHANGED vars
  PROVE  TypeOK' /\ PoolInv' /\ SumInv'
<1>1. UNCHANGED <<open, claimed, drawn, range, round, queued, is_finished, pc, task, chunk,
                  temp_state, aggregate, prefix, output, pending, sequential, previous, sum>>
  BY DEF vars, scheduling, temp, look
<1>2. TypeOK'
  BY <1>1 DEF TypeOK, Tasks, Blocks, Size, InitialTask, Arrays, Program, Input
<1>3. PoolInv'
  <2>1. ThreadsOnTasks' /\ TaskStages'
    BY <1>1 DEF PoolInv, ThreadsOnTasks, TaskStages
  <2>2. PushedOnce'
    BY <1>1 DEF PoolInv, PushedOnce, ToRun, Untouched, Live, Tasks, Program
  <2>3. RangesInOrder'
    <3>1. /\ \A a : Ranges(a)' = Ranges(a)
          /\ \A a, r : ChunksOf(a, r)' = ChunksOf(a, r)
      BY DEF Ranges, ChunksOf, FirstChunk, Size, Program, Input
    <3>2. QED
      BY <1>1, <3>1 DEF PoolInv, RangesInOrder, AtClaim, Tasks
  <2>4. QED
    BY <2>1, <2>2, <2>3 DEF PoolInv
<1>4. SumInv'
  <2>1. AnnouncedIsThere' /\ AnnouncedInOrder'
    <3>1. \A a : Blocks(a)' = Blocks(a)
      BY DEF Blocks, Size, Program, Input
    <3>2. AnnouncedIsThere'
      BY <1>1, <3>1, SameArrays DEF SumInv, AnnouncedIsThere, Live
    <3>3. AnnouncedInOrder'
      <4>1. \A a : Live(a)' <=> Live(a)
        BY <1>1 DEF Live
      <4>2. \A a, b : Held(a, b)' <=> Held(a, b)
        BY <1>1 DEF Held
      <4>3. QED
        BY <1>1, <3>1, <4>1, <4>2 DEF SumInv, AnnouncedInOrder
    <3>4. QED
      BY <3>2, <3>3
  <2>2. LookBackInBounds' /\ SequentialThreads'
    BY <1>1 DEF SumInv, LookBackInBounds, SequentialThreads
  <2>3. SumsSoFar'
    BY <1>1, SameArrays DEF SumInv, SumsSoFar, SumSoFar
  <2>4. QED
    BY <2>1, <2>2, <2>3 DEF SumInv
<1>5. QED
  BY <1>2, <1>3, <1>4

LEMMA InitKeeps ==
  ASSUME Init
  PROVE  TypeOK /\ PoolInv /\ SumInv
<1>1. PICK p \in DOMAIN Programs :
        /\ PoolInit(InitialTask(p), {InitialTask(p)} \cup Arrays(p))
        /\ DOMAIN temp_state = Arrays(p) /\ DOMAIN aggregate = Arrays(p)
        /\ DOMAIN prefix = Arrays(p) /\ DOMAIN output = Arrays(p)
        /\ \A a \in Arrays(p) :
             /\ temp_state[a] = IF a = InitialTask(p) THEN FreshState(a)
                                ELSE [b \in Blocks(a) |-> "prefix available"]
             /\ aggregate[a] = IF a = InitialTask(p) THEN Zero(a) ELSE [b \in Blocks(a) |-> 99]
             /\ prefix[a] = IF a = InitialTask(p) THEN Zero(a) ELSE [b \in Blocks(a) |-> 99]
        /\ pending = InitialPending(p)
        /\ drawn = [a \in {InitialTask(p)} \cup Arrays(p) |-> 0]
        /\ range = [t \in Threads |-> NoRange]
        /\ round = [t \in Threads |-> 0]
        /\ sequential = [t \in Threads |-> TRUE]
        /\ previous = [t \in Threads |-> 0]
        /\ sum = [t \in Threads |-> 0]
  BY DEF Init
<1> DEFINE first == InitialTask(p)
<1>2. /\ queued = {first} /\ open = {} /\ is_finished = FALSE
      /\ Tasks = {first} \cup Arrays(p) /\ \A a \in Tasks : claimed[a] = {}
      /\ pc = [t \in Threads |-> "idle"]
      /\ task = [t \in Threads |-> NoTask]
      /\ chunk = [t \in Threads |-> NoChunk]
  BY <1>1 DEF PoolInit, Tasks
<1>3. DOMAIN claimed = {first} \cup Arrays(p)
  BY <1>2 DEF Tasks
<1>4. Programs[p].inputs \in Seq(Seq(Nat)) /\ Len(Programs[p].inputs) \in Nat
  BY ScanAssumption
<1>5. TypeOK
  <2>1. pending \in Int
    <3>1. pending = InitialPending(p)
      BY <1>1
    <3>2. QED
      BY <1>4, <3>1 DEF InitialPending
  <2>2. \A a \in DOMAIN temp_state :
          /\ temp_state[a] \in
               [Blocks(a) -> {"initialized", "aggregate available", "prefix available"}]
          /\ aggregate[a] \in [Blocks(a) -> Nat]
          /\ prefix[a] \in [Blocks(a) -> Nat]
    <3>1. DOMAIN temp_state = Arrays(p)
      BY <1>1
    <3>2. ASSUME NEW a \in Arrays(p)
          PROVE  temp_state[a] \in
                   [Blocks(a) -> {"initialized", "aggregate available", "prefix available"}]
      <4>1. \/ temp_state[a] = [b \in Blocks(a) |-> "initialized"]
            \/ temp_state[a] = [b \in Blocks(a) |-> "prefix available"]
        BY <1>1 DEF FreshState
      <4>2. QED
        BY <4>1
    <3>3. ASSUME NEW a \in Arrays(p)
          PROVE  aggregate[a] \in [Blocks(a) -> Nat] /\ prefix[a] \in [Blocks(a) -> Nat]
      <4>1. /\ aggregate[a] \in {[b \in Blocks(a) |-> 0], [b \in Blocks(a) |-> 99]}
            /\ prefix[a] \in {[b \in Blocks(a) |-> 0], [b \in Blocks(a) |-> 99]}
        BY <1>1 DEF Zero
      <4>2. /\ [b \in Blocks(a) |-> 0] \in [Blocks(a) -> Nat]
            /\ [b \in Blocks(a) |-> 99] \in [Blocks(a) -> Nat]
        OBVIOUS
      <4>3. QED
        BY <4>1, <4>2
    <3>4. QED
      BY <3>1, <3>2, <3>3
  <2>3. /\ pc \in [Threads -> PoolLabels \cup Working \cup {"finish"}]
        /\ task \in [Threads -> Tasks \cup {NoTask}]
        /\ chunk \in [Threads -> Int]
    BY <1>2 DEF PoolLabels, NoChunk
  <2>4. /\ range \in [Threads -> Nat \cup {NoRange}]
        /\ round \in [Threads -> Nat]
        /\ sequential \in [Threads -> BOOLEAN]
        /\ previous \in [Threads -> Int]
        /\ sum \in [Threads -> Nat]
    <3>1. /\ range = [t \in Threads |-> NoRange] /\ round = [t \in Threads |-> 0]
          /\ sequential = [t \in Threads |-> TRUE]
          /\ previous = [t \in Threads |-> 0] /\ sum = [t \in Threads |-> 0]
      BY <1>1
    <3>2. QED
      BY ONLY <3>1
  <2>5. /\ queued \subseteq Tasks /\ open \subseteq Tasks /\ is_finished \in BOOLEAN
        /\ \A a \in Tasks : claimed[a] \subseteq Blocks(a)
    BY <1>2
  <2>6. drawn \in [{first} \cup Arrays(p) -> Nat]
    BY <1>1
  <2>7. QED
    BY <1>1, <1>3, <2>1, <2>2, <2>3, <2>4, <2>5, <2>6 DEF TypeOK
<1>6. /\ \A t \in Threads :
           /\ pc[t] = "idle" /\ task[t] = NoTask /\ range[t] = NoRange
           /\ sequential[t] /\ sum[t] = 0
      /\ NoTask \notin Tasks /\ NoTask \notin DOMAIN temp_state
  BY <1>1, <1>2, <1>5, TaskTypes
<1>7. \A a \in Tasks : Live(a) <=> a = first
  BY <1>2, <1>6 DEF Live
<1>8. \A a \in Tasks : a # first => Untouched(a)
  BY <1>2, <1>7 DEF Untouched
<1>9. PoolInv
  <2>1. ThreadsOnTasks /\ TaskStages
    BY <1>2, <1>6 DEF ThreadsOnTasks, TaskStages, Working, Unannounced, Looking, Late
  <2>2. PushedOnce
    <3>1. \A a, b \in Tasks : a[1] = b[1] /\ (a[2] = b[2] => a = b) /\ a[2] \in Nat
      BY <1>5, TaskTypes
    <3>2. \A a \in Tasks : a[2] = 0 => a = first
      BY <1>2, <1>4 DEF Arrays
    <3>3. ASSUME NEW a \in Tasks, NEW b \in Tasks, a[2] = 0, b[2] # 0
          PROVE  Untouched(b)
      BY <1>8, <3>2, <3>3
    <3>4. ASSUME NEW a \in Tasks, NEW b \in Tasks, Live(a), b[2] > a[2]
          PROVE  Untouched(b)
      BY <1>7, <1>8, <3>1, <3>4
    <3>5. QED
      BY <3>3, <3>4 DEF PushedOnce, ToRun
  <2>3. RangesInOrder
    <3>1. \A a \in Tasks : drawn[a] = 0 /\ claimed[a] = {}
      BY <1>1, <1>2
    <3>2. \A a \in Tasks : \A r \in 0 .. Ranges(a) - 1 : ~(r < drawn[a])
      BY <3>1
    <3>3. QED
      BY <1>6, <3>1, <3>2 DEF RangesInOrder, Working, Unannounced, Looking, Late
  <2>4. QED
    BY <2>1, <2>2, <2>3 DEF PoolInv
<1>10. SumInv
  <2>1. ASSUME NEW a \in DOMAIN temp_state, Live(a), NEW b \in Blocks(a)
        PROVE  temp_state[a][b] = "initialized" /\ claimed[a] = {}
    <3>1. a \in Tasks /\ a \in Arrays(p)
      BY <1>1, <1>5, TaskTypes
    <3>2. a = first
      BY <1>7, <2>1, <3>1
    <3>3. temp_state[a] = FreshState(a) /\ claimed[a] = {}
      BY <1>1, <1>2, <3>1, <3>2
    <3>4. QED
      BY <3>3 DEF FreshState
  <2>2. AnnouncedIsThere /\ AnnouncedInOrder
    BY <2>1 DEF AnnouncedIsThere, AnnouncedInOrder
  <2>3. LookBackInBounds /\ SequentialThreads /\ SumsSoFar
    BY <1>6 DEF LookBackInBounds, SequentialThreads, SumsSoFar, Looking
  <2>4. QED
    BY <2>2, <2>3 DEF SumInv
<1>11. QED
  BY <1>5, <1>9, <1>10

(* A block is scanned from the sum of all that is before it.               *)
LEMMA ScanBlockCorrect ==
  ASSUME TypeOK, PoolInv, SumInv, NEW t \in Threads, ScanBlock(t), OutputCorrect
  PROVE  \A a \in DOMAIN output : IsRestriction(output'[a], reference_sequential(a))
<1> DEFINE c == task[t]
           b == chunk[t]
           i == BlockStart(c, b)
           j == BlockStart(c, b + 1)
           part == Stored(c, i, j, sum[t])
<1>1. /\ pc[t] \in {"scan", "scanLate"}
      /\ output' = [output EXCEPT ![c] = Overwritten(@, part)]
  BY DEF ScanBlock
<1>2. pc[t] \in Working /\ pc[t] # "run" /\ pc[t] \in {"scan", "store", "publish"} \cup Late
  BY <1>1 DEF Working, Unannounced, Looking, Late
<1>3. c[2] # 0
  BY <1>2 DEF PoolInv, ThreadsOnTasks
<1>4. c \in DOMAIN temp_state /\ c \in DOMAIN output /\ IsArray(c) /\ b \in Nat
  BY <1>2, <1>3, BlockFacts DEF PoolInv
<1>5. sum[t] = Total(c, 0, i)
  BY <1>2, <1>4 DEF SumInv, SumsSoFar, SumSoFar, Before
<1>6. i \in Nat /\ j \in Nat /\ i <= j /\ j <= Len(Input(c))
  BY <1>4, BlockStarts
<1> HIDE DEF i, j
<1>7. IsRestriction(part, reference_sequential(c))
  BY <1>4, <1>5, <1>6, StoredAsReference
<1> HIDE DEF part
<1>8. IsRestriction(Overwritten(output[c], part), reference_sequential(c))
  BY <1>4, <1>7, RestrictionsUnite DEF OutputCorrect
<1>9. \A a \in DOMAIN output :
        output'[a] = IF a = c THEN Overwritten(output[c], part) ELSE output[a]
  BY <1>1
<1>10. QED
  BY <1>8, <1>9 DEF OutputCorrect

LEMMA StepCorrect ==
  ASSUME TypeOK, PoolInv, SumInv, NEW t \in Threads, Step(t), OutputCorrect
  PROVE  OutputCorrect'
<1>1. \A a : reference_sequential(a)' = reference_sequential(a)
  BY DEF reference_sequential, Stored, scan_sequential, compact_sequential, Selected, predicate,
         Total, Weight, Program, Input
<1>2. SUFFICES \A a \in DOMAIN output' : IsRestriction(output'[a], reference_sequential(a))
  BY <1>1 DEF OutputCorrect
<1>3. CASE output' = output
  BY <1>3 DEF OutputCorrect
<1>4. CASE ScanBlock(t)
  BY <1>4, ScanBlockCorrect DEF ScanBlock
<1>5. CASE RunArray(t)
  <2> DEFINE c == <<task[t][1], chunk[t] + 1>>
  <2>1. CASE Program(c).version = "our"
    BY <1>3, <1>5, <2>1 DEF RunArray
  <2>2. CASE Program(c).version # "our"
    BY <1>5, <2>2 DEF RunArray, IsRestriction, OutputCorrect
  <2>3. QED
    BY <2>1, <2>2
<1>6. ASSUME \/ Schedule(t) \/ FinishArray(t)
             \/ RunBlock(t) /\ ~ScanBlock(t)
      PROVE  output' = output
  BY <1>6
  DEF Schedule, FinishArray, RunBlock, CheckPrevious, LoadPrefix, StorePrefix, PublishPrefix,
      StoreAggregate, PublishAggregate, LookBack, AddPrefix, AddAggregate
<1>7. QED
  BY <1>3, <1>4, <1>5, <1>6 DEF Step

(* What a look-back relies on, in all reachable states and for any arrays, *)
(* threads, block size and number of ranges: what is announced is there    *)
(* and final (our.rs 126-132, 153-154), no thread looks before the first   *)
(* block, and one that spins waits for a thread that does not wait for it  *)
(* (our.rs 139-150).                                                       *)
THEOREM LookBackInvariant == Spec => []LookBackInv
<1> DEFINE Inv == TypeOK /\ PoolInv /\ SumInv
<1>1. Init => Inv
  BY InitKeeps
<1>2. Inv /\ [Next]_vars => Inv'
  BY StepKeeps, StutterKeeps DEF Next
<1>3. Inv => LookBackInv
  BY SpinsForEarlier DEF PoolInv, SumInv, LookBackInv
<1>4. QED
  BY <1>1, <1>2, <1>3, PTL DEF Spec

(* Each place of an output that was written has the value the sequential   *)
(* version gives it: a scan has the running sums, a compaction the         *)
(* selected elements at their places (our.rs 124-155 of scan and compact). *)
THEOREM OutputIsCorrect == Spec => []OutputCorrect
<1> DEFINE Inv == TypeOK /\ PoolInv /\ SumInv /\ OutputCorrect
<1>1. Init => Inv
  <2>1. ASSUME Init PROVE OutputCorrect
    <3>1. \A a \in DOMAIN output : output[a] = <<>>
      BY <2>1 DEF Init
    <3>2. \A f : IsRestriction(<<>>, f)
      BY DEF IsRestriction
    <3>3. QED
      BY <3>1, <3>2 DEF OutputCorrect
  <2>2. QED
    BY <2>1, InitKeeps
<1>2. Inv /\ [Next]_vars => Inv'
  <2>1. ASSUME Inv, Next PROVE Inv'
    BY <2>1, StepKeeps, StepCorrect DEF Next
  <2>2. ASSUME Inv, UNCHANGED vars PROVE Inv'
    <3>1. output' = output
      BY <2>2 DEF vars
    <3>2. \A a : reference_sequential(a)' = reference_sequential(a)
      BY DEF reference_sequential, Stored, scan_sequential, compact_sequential, Selected,
             predicate, Total, Weight, Program, Input
    <3>3. OutputCorrect'
      BY <2>2, <3>1, <3>2 DEF OutputCorrect
    <3>4. QED
      BY <2>2, <3>3, StutterKeeps
  <2>3. QED
    BY <2>1, <2>2
<1>3. QED
  BY <1>1, <1>2, PTL DEF Spec

-----------------------------------------------------------------------------
(* The end.                                                                *)

(* Every element is in a block.                                            *)
LEMMA BlockOfElement ==
  ASSUME NEW a, IsArray(a), a[2] # 0, NEW k \in 1 .. Len(Input(a))
  PROVE  \E b \in Blocks(a) : b \in Nat /\ k \in BlockStart(a, b) + 1 .. BlockStart(a, b + 1)
<1> DEFINE n == Len(Input(a))
           b == (k - 1) \div BlockSize
           s == b * BlockSize
           e == (b + 1) * BlockSize
<1>1. n \in Nat /\ BlockSize \in Nat \ {0} /\ k - 1 \in Nat /\ k \in Nat /\ k <= n
  BY ScanAssumption DEF IsArray
<1>2. b \in Nat /\ s <= k - 1 /\ k - 1 < e /\ s \in Nat /\ e \in Nat /\ e = s + BlockSize
  <2> DEFINE r == (k - 1) % BlockSize
  <2>1. b \in Nat /\ r \in 0 .. BlockSize - 1 /\ k - 1 = (b * BlockSize) + r
    BY <1>1, DivMod
  <2> HIDE DEF b, r
  <2>2. s \in Nat /\ e = s + BlockSize
    BY <1>1, <2>1
  <2> HIDE DEF s, e
  <2>3. QED
    BY <1>1, <2>1, <2>2 DEF s
<1> HIDE DEF b
<1>3. b \in Blocks(a)
  <2> DEFINE m == n + BlockSize - 1
  <2>1. Size(a) = m \div BlockSize /\ m \in Nat
    BY <1>1 DEF Size
  <2> HIDE DEF m
  <2>2. m \div BlockSize \in Nat /\ (m \div BlockSize <= b <=> m < e)
    BY <1>1, <1>2, <2>1, DivMod, DivCompare
  <2>3. ~(m < e)
    <3> HIDE DEF s, e, n
    <3>1. QED
      BY <1>1, <1>2 DEF m
  <2>4. Size(a) \in Nat /\ ~(Size(a) <= b)
    BY <2>1, <2>2, <2>3
  <2>5. QED
    BY <1>2, <2>4 DEF Blocks
<1>4. BlockStart(a, b) = s /\ BlockStart(a, b + 1) = (IF e <= n THEN e ELSE n)
  <2>1. BlockStart(a, b) = Min({s, n}) /\ BlockStart(a, b + 1) = Min({e, n})
    BY DEF BlockStart
  <2> HIDE DEF s, e, n
  <2>2. QED
    BY <1>1, <1>2, <2>1, MinOfTwo
<1> HIDE DEF s, e, n
<1>5. QED
  BY <1>1, <1>2, <1>3, <1>4 DEF n

LEMMA ReferenceIsFunction ==
  ASSUME NEW a, IsArray(a)
  PROVE  LET all == reference_sequential(a) IN all = [k \in DOMAIN all |-> all[k]]
<1>1. CASE ~Program(a).compact
  BY <1>1 DEF reference_sequential, Stored, scan_sequential
<1>2. CASE Program(a).compact
  <2> DEFINE place(k) == 0 + Total(a, 0, k - 1)
             R == Selected(a, 0, Len(Input(a)))
  <2>1. reference_sequential(a) =
          [m \in {place(k) : k \in R} |-> Input(a)[CHOOSE k \in R : place(k) = m]]
    BY <1>2 DEF reference_sequential, Stored, compact_sequential
  <2> HIDE DEF place, R
  <2>2. QED
    BY <2>1
<1>3. QED
  BY <1>1, <1>2 DEF IsArray

(* An output that has all blocks is the one of the sequential version.     *)
LEMMA BlocksMakeArray ==
  ASSUME NEW a, IsArray(a), a[2] # 0,
         NEW f, IsRestriction(f, reference_sequential(a)), f = [k \in DOMAIN f |-> f[k]],
         \A b \in Blocks(a) : DOMAIN Part(a, b) \subseteq DOMAIN f
  PROVE  f = reference_sequential(a)
<1> DEFINE n == Len(Input(a))
           all == reference_sequential(a)
<1>1. n \in Nat /\ n <= n /\ 0 \in Nat /\ 0 <= n
  BY DEF IsArray
<1>2. ASSUME NEW k \in 1 .. n
      PROVE  \E b \in Blocks(a) :
               /\ b \in Nat /\ k \in BlockStart(a, b) + 1 .. BlockStart(a, b + 1)
               /\ BlockStart(a, b) \in Nat /\ BlockStart(a, b + 1) \in Nat
               /\ BlockStart(a, b + 1) <= n
               /\ Before(a, b) + Total(a, BlockStart(a, b), k - 1) = 0 + Total(a, 0, k - 1)
  <2>1. PICK b \in Blocks(a) : b \in Nat /\ k \in BlockStart(a, b) + 1 .. BlockStart(a, b + 1)
    BY <1>2, BlockOfElement
  <2>2. /\ BlockStart(a, b) \in Nat /\ BlockStart(a, b + 1) \in Nat
        /\ BlockStart(a, b + 1) <= n
    BY <2>1, BlockStarts
  <2>3. k - 1 \in Nat /\ BlockStart(a, b) <= k - 1 /\ k - 1 <= n /\ k - 1 \in 0 .. n
    BY <1>1, <1>2, <2>1, <2>2
  <2>4. /\ Total(a, 0, k - 1) = Before(a, b) + Total(a, BlockStart(a, b), k - 1)
        /\ Total(a, 0, k - 1) \in Nat
    BY <1>1, <2>2, <2>3, TotalAdds, TotalSteps DEF Before
  <2>5. QED
    BY <2>1, <2>2, <2>4
<1>3. DOMAIN all \subseteq DOMAIN f
  <2>1. CASE ~Program(a).compact
    <3>1. all = [k \in 0 .. n - 1 |-> 0 + Total(a, 0, k + 1)]
      BY <2>1 DEF Stored, scan_sequential, reference_sequential
    <3>2. \A b : DOMAIN Part(a, b) = BlockStart(a, b) .. BlockStart(a, b + 1) - 1
      BY <2>1 DEF Part, Stored, scan_sequential
    <3> HIDE DEF all
    <3>3. ASSUME NEW m \in 0 .. n - 1 PROVE m \in DOMAIN f
      <4>1. m + 1 \in 1 .. n
        BY <1>1
      <4>2. PICK b \in Blocks(a) :
              /\ m + 1 \in BlockStart(a, b) + 1 .. BlockStart(a, b + 1)
              /\ BlockStart(a, b) \in Nat /\ BlockStart(a, b + 1) \in Nat
        BY <1>2, <4>1
      <4>3. m \in DOMAIN Part(a, b)
        BY <1>1, <3>2, <4>2
      <4>4. QED
        BY <4>3
    <3>4. QED
      BY <3>1, <3>3
  <2>2. CASE Program(a).compact
    <3> DEFINE S(b) == Selected(a, BlockStart(a, b), BlockStart(a, b + 1))
               R == Selected(a, 0, n)
    <3>1. all = [m \in {0 + Total(a, 0, k - 1) : k \in R} |->
                   Input(a)[CHOOSE k \in R : 0 + Total(a, 0, k - 1) = m]]
      BY <2>2 DEF Stored, compact_sequential, reference_sequential
    <3>2. \A b : DOMAIN Part(a, b) = {Before(a, b) + Total(a, BlockStart(a, b), k - 1) : k \in S(b)}
      BY <2>2 DEF Part, Stored, compact_sequential
    <3> HIDE DEF all
    <3>3. ASSUME NEW k \in R PROVE 0 + Total(a, 0, k - 1) \in DOMAIN f
      <4>1. k \in 1 .. n /\ predicate(Input(a)[k])
        BY DEF Selected
      <4>2. PICK b \in Blocks(a) :
              /\ k \in BlockStart(a, b) + 1 .. BlockStart(a, b + 1)
              /\ Before(a, b) + Total(a, BlockStart(a, b), k - 1) = 0 + Total(a, 0, k - 1)
        BY <1>2, <4>1
      <4>3. k \in S(b)
        BY <4>1, <4>2 DEF Selected
      <4>4. 0 + Total(a, 0, k - 1) \in DOMAIN Part(a, b)
        BY <3>2, <4>2, <4>3
      <4>5. QED
        BY <4>4
    <3> HIDE DEF R
    <3>4. QED
      BY <3>1, <3>3
  <2>3. QED
    BY <2>1, <2>2 DEF IsArray
<1> HIDE DEF all
<1>4. DOMAIN f \subseteq DOMAIN all /\ \A k \in DOMAIN f : f[k] = all[k]
  BY DEF IsRestriction, all
<1>5. all = [k \in DOMAIN all |-> all[k]]
  BY ReferenceIsFunction DEF all
<1>6. QED
  BY <1>3, <1>4, <1>5 DEF all

(* What the end of an array relies on: the look-back, and that an output   *)
(* is no more than its places.                                             *)
CoreInv ==
  /\ TypeOK /\ PoolInv /\ SumInv /\ OutputCorrect
  /\ \A a \in DOMAIN output : output[a] = [k \in DOMAIN output[a] |-> output[a][k]]

(* Places are not taken back.                                              *)
OutputGrows ==
  /\ DOMAIN output' = DOMAIN output
  /\ \A a \in DOMAIN output : DOMAIN output[a] \subseteq DOMAIN output'[a]

LEMMA SameParts ==
  /\ \A a : reference_sequential(a)' = reference_sequential(a)
  /\ \A a, b : Part(a, b)' = Part(a, b)
BY DEF reference_sequential, Part, Before, BlockStart, Stored, scan_sequential,
       compact_sequential, Selected, predicate, Total, Weight, Program, Input

LEMMA CoreKept ==
  ASSUME CoreInv, NEW t \in Threads, Step(t)
  PROVE  CoreInv' /\ OutputGrows
<1>1. TypeOK' /\ PoolInv' /\ SumInv' /\ OutputCorrect'
  BY StepKeeps, StepCorrect DEF CoreInv
<1>2. \/ output' = output
      \/ \E a \in DOMAIN output :
           \/ \E part : output' = [output EXCEPT ![a] = Overwritten(output[a], part)]
           \/ output' = [output EXCEPT ![a] = reference_sequential(a)]
  <2>1. CASE ScanBlock(t)
    BY <2>1, BlockStepFrame, BlockFacts DEF CoreInv, PoolInv, RunBlock, BlockStep, ScanBlock
  <2>2. CASE RunArray(t)
    <3> DEFINE e == <<task[t][1], chunk[t] + 1>>
    <3>1. e \in DOMAIN output
      BY <2>2, BlockTypes, TaskTypes DEF RunArray, CoreInv, PoolInv, Working, Unannounced,
         TypeOK
    <3>2. output' = output \/ output' = [output EXCEPT ![e] = reference_sequential(e)]
      BY <2>2 DEF RunArray
    <3>3. QED
      BY <3>1, <3>2
  <2>3. ASSUME \/ Schedule(t) \/ FinishArray(t)
               \/ RunBlock(t) /\ ~ScanBlock(t)
        PROVE  output' = output
    BY <2>3
    DEF Schedule, FinishArray, RunBlock, CheckPrevious, LoadPrefix, StorePrefix, PublishPrefix,
        StoreAggregate, PublishAggregate, LookBack, AddPrefix, AddAggregate
  <2>4. QED
    BY <2>1, <2>2, <2>3 DEF Step
<1>3. CASE output' = output
  BY <1>1, <1>3 DEF CoreInv, OutputGrows
<1>4. ASSUME NEW a \in DOMAIN output, NEW new, output' = [output EXCEPT ![a] = new],
             DOMAIN output[a] \subseteq DOMAIN new, new = [k \in DOMAIN new |-> new[k]]
      PROVE  CoreInv' /\ OutputGrows
  <2>1. DOMAIN output' = DOMAIN output
    BY <1>4
  <2>2. \A b \in DOMAIN output : output'[b] = IF b = a THEN new ELSE output[b]
    BY <1>4
  <2>3. OutputGrows
    BY <1>4, <2>1, <2>2 DEF OutputGrows
  <2>4. ASSUME NEW b \in DOMAIN output'
        PROVE  output'[b] = [k \in DOMAIN output'[b] |-> output'[b][k]]
    <3>1. CASE b = a
      BY <1>4, <2>2, <3>1
    <3>2. CASE b # a
      BY <2>1, <2>2, <3>2 DEF CoreInv
    <3>3. QED
      BY <3>1, <3>2
  <2>5. QED
    BY <1>1, <2>3, <2>4 DEF CoreInv
<1>5. ASSUME NEW a \in DOMAIN output, NEW part,
             output' = [output EXCEPT ![a] = Overwritten(output[a], part)]
      PROVE  CoreInv' /\ OutputGrows
  <2> DEFINE new == Overwritten(output[a], part)
  <2>1. DOMAIN output[a] \subseteq DOMAIN new /\ new = [k \in DOMAIN new |-> new[k]]
    BY DEF Overwritten
  <2> HIDE DEF new
  <2>2. output' = [output EXCEPT ![a] = new]
    BY <1>5 DEF new
  <2>3. QED
    BY <1>4, <2>1, <2>2
<1>6. ASSUME NEW a \in DOMAIN output, output' = [output EXCEPT ![a] = reference_sequential(a)]
      PROVE  CoreInv' /\ OutputGrows
  <2> DEFINE new == reference_sequential(a)
  <2>1. IsArray(a) /\ DOMAIN output = DOMAIN temp_state
    BY TaskTypes DEF CoreInv, TypeOK
  <2>2. new = [k \in DOMAIN new |-> new[k]]
    BY <2>1, ReferenceIsFunction
  <2>3. DOMAIN output[a] \subseteq DOMAIN new
    BY DEF CoreInv, OutputCorrect, IsRestriction
  <2> HIDE DEF new
  <2>4. output' = [output EXCEPT ![a] = new]
    BY <1>6 DEF new
  <2>5. QED
    BY <1>4, <2>2, <2>3, <2>4
<1>7. QED
  BY <1>2, <1>3, <1>5, <1>6

(* What is scanned stays so.                                               *)
LEMMA ScannedStays ==
  ASSUME CoreInv, CoreInv', OutputGrows, NEW a \in DOMAIN output, Scanned(a)
  PROVE  Scanned(a)'
<1> DEFINE all == reference_sequential(a)
<1>1. output[a] = all
  BY DEF Scanned
<1>2. a \in DOMAIN output' /\ DOMAIN all \subseteq DOMAIN output'[a]
  BY <1>1 DEF OutputGrows
<1>3. /\ DOMAIN output'[a] \subseteq DOMAIN all
      /\ \A k \in DOMAIN output'[a] : output'[a][k] = all[k]
  BY <1>2, SameParts DEF CoreInv, OutputCorrect, IsRestriction
<1>4. output'[a] = [k \in DOMAIN output'[a] |-> output'[a][k]]
  BY <1>2 DEF CoreInv
<1>5. all = [k \in DOMAIN all |-> all[k]]
  BY <1>1 DEF CoreInv
<1>6. output'[a] = all
  BY <1>2, <1>3, <1>4, <1>5
<1>7. QED
  BY <1>6, SameParts DEF Scanned

(* A step that leaves the same tasks to be done.                           *)
LEMMA SameTasksDue ==
  ASSUME CoreInv, CoreInv', OutputGrows, CompletionInv, Tasks' = Tasks, Due' = Due,
         \A a \in Tasks : Live(a)' <=> Live(a), UNCHANGED <<pending, is_finished>>
  PROVE  ArraysScanned' /\ OneTaskOfOuter' /\ PendingCountsTasks' /\ FinishedMeansScanned'
<1>1. \A a : Program(a)' = Program(a)
  BY DEF Program
<1>2. DOMAIN output' = DOMAIN output /\ \A a \in DOMAIN output : Scanned(a) => Scanned(a)'
  BY ScannedStays DEF OutputGrows
<1>3. ArraysScanned'
  BY <1>1, <1>2 DEF CompletionInv, ArraysScanned
<1>4. OneTaskOfOuter'
  BY <1>1 DEF CompletionInv, OneTaskOfOuter
<1>5. PendingCountsTasks'
  BY <1>1 DEF CompletionInv, PendingCountsTasks
<1>6. FinishedMeansScanned'
  BY <1>2 DEF CompletionInv, FinishedMeansScanned
<1>7. QED
  BY <1>3, <1>4, <1>5, <1>6

(* How the steps of the pool end a task: a thread leaves it to others, and *)
(* a task is closed when it has no chunks left, or threads that go on.     *)
PoolEnds(t) ==
  LET a == task[t]
  IN  /\ task'[t] # a /\ a # NoTask => pc[t] = "leave" /\ \E u \in Threads \ {t} : task[u] = a
      /\ \A c \in queued \ queued' : task'[t] = c /\ (c \in open' \/ Unclaimed(c) = {})
      /\ \A c \in open \ open' : a = c /\ task'[t] = c /\ pc'[t] = "leave"
      /\ pc'[t] = "leave" => task'[t] = a /\ (Unclaimed(a) = {} \/ Others(t) # {})
      /\ pc'[t] = "finish" => pc[t] \in {"idle", "leave"}

LEMMA ScheduleEnds ==
  ASSUME CoreInv, NEW t \in Threads, Schedule(t)
  PROVE  PoolEffects(t) /\ PoolEnds(t)
<1>1. PoolEffects(t)
  BY ScheduleEffects DEF CoreInv
<1> SUFFICES PoolEnds(t)
  BY <1>1
<1>2. /\ pc \in [Threads -> PoolLabels \cup Working \cup {"finish"}]
      /\ task \in [Threads -> Tasks \cup {NoTask}]
      /\ pc[t] = "idle" => task[t] = NoTask
  BY DEF CoreInv, TypeOK, PoolInv, ThreadsOnTasks
<1>3. ASSUME pc[t] = "idle", UNCHANGED <<queued, open>>, pc'[t] \notin {"leave", "finish"}
      PROVE  PoolEnds(t)
  BY <1>2, <1>3 DEF PoolEnds
<1>4. CASE Begin(t)
  <2>1. CASE StartLoop(t)
    <3>1. pc[t] = "idle"
      BY <2>1 DEF StartLoop
    <3>2. PICK a \in queued : /\ queued' = queued \ {a} /\ open' = open \cup {a}
                              /\ task' = [task EXCEPT ![t] = a]
                              /\ Goto(t, EntryLabel(a, 0)) \/ Goto(t, EntryLabel(a, NoChunk))
      BY <2>1 DEF StartLoop
    <3>3. task'[t] = a /\ pc'[t] \in {"run", "claim"}
      BY <1>2, <3>2 DEF Goto, EntryLabel, LoopLabel, Entry
    <3>4. QED
      BY <1>2, <3>1, <3>2, <3>3 DEF PoolEnds
  <2>2. CASE JoinTask(t)
    <3>1. pc[t] = "idle" /\ UNCHANGED <<queued, open>>
      BY <2>2 DEF JoinTask
    <3>2. PICK l \in {"assist", "run", "claim"} : Goto(t, l)
      BY <2>2 DEF JoinTask, EntryLabel, LoopLabel, Entry
    <3>3. pc'[t] = l
      BY <1>2, <3>2 DEF Goto
    <3>4. QED
      BY <1>3, <3>1, <3>3
  <2>3. QED
    BY <1>4, <2>1, <2>2 DEF Begin
<1>5. ASSUME UNCHANGED <<queued, open, task>>, pc'[t] \notin {"leave", "finish"}
      PROVE  PoolEnds(t)
  BY <1>5 DEF PoolEnds
<1>6. CASE DrawRange(t)
  BY <1>5, <1>6 DEF DrawRange
<1>7. CASE ClaimInOrder(t)
  <2>1. UNCHANGED <<queued, open, task>>
    BY <1>7 DEF ClaimInOrder, ClaimChunk
  <2>2. PICK l \in {"run", "claim"} : Goto(t, l)
    BY <1>7 DEF ClaimInOrder, ClaimChunk, EntryLabel, LoopLabel, Entry
  <2>3. pc'[t] = l
    BY <1>2, <2>2 DEF Goto
  <2>4. QED
    BY <1>5, <2>1, <2>3
<1>8. CASE EndRange(t)
  <2>1. CASE round[t] < Ranges(task[t])
    BY <1>5, <1>8, <2>1 DEF EndRange, AtClaim
  <2>2. CASE ~(round[t] < Ranges(task[t]))
    BY <1>2, <1>8, <2>2 DEF EndRange, EndLoop, After, Goto, PoolEnds
  <2>3. QED
    BY <2>1, <2>2
<1>9. CASE StartSingle(t)
  <2>1. pc[t] = "idle" /\ open' = open
    BY <1>9 DEF StartSingle
  <2>2. PICK a \in queued : /\ Size(a) = 0 /\ queued' = queued \ {a}
                            /\ task' = [task EXCEPT ![t] = a] /\ Goto(t, "finish")
    BY <1>9 DEF StartSingle, Exit
  <2>3. Unclaimed(a) = {}
    BY <2>2 DEF Unclaimed
  <2>4. task'[t] = a /\ pc'[t] = "finish"
    BY <1>2, <2>2 DEF Goto
  <2>5. QED
    BY <1>2, <2>1, <2>2, <2>3, <2>4 DEF PoolEnds
<1>10. CASE EndTask(t)
  <2>1. pc[t] = "leave" /\ UNCHANGED <<queued, open>>
    BY <1>10 DEF EndTask
  <2>2. CASE \E u \in Threads \ {t} : task[u] = task[t]
    BY <1>2, <1>10, <2>1, <2>2 DEF EndTask, Leave, Goto, PoolEnds
  <2>3. CASE ~\E u \in Threads \ {t} : task[u] = task[t]
    BY <1>2, <1>10, <2>1, <2>3 DEF EndTask, Exit, Goto, PoolEnds
  <2>4. QED
    BY <2>2, <2>3
<1>11. CASE Return(t)
  BY <1>2, <1>5, <1>11 DEF Return, Goto
<1>12. QED
  BY <1>4, <1>6, <1>7, <1>8, <1>9, <1>10, <1>11 DEF Schedule

LEMMA ScheduleCompletes ==
  ASSUME CoreInv, CoreInv', OutputGrows, CompletionInv, NEW t \in Threads, Schedule(t)
  PROVE  CompletionInv'
<1>1. PoolEffects(t) /\ PoolEnds(t)
  BY ScheduleEnds
<1>2. TypeOK /\ PoolInv /\ ThreadsOnTasks /\ TaskStages
  BY DEF CoreInv, PoolInv
<1>3. /\ \A u \in Threads \ {t} : pc'[u] = pc[u] /\ task'[u] = task[u] /\ chunk'[u] = chunk[u]
      /\ UNCHANGED <<output, pending, is_finished>>
  BY <1>1, <1>2, PoolStepTypes
<1>4. Tasks' = Tasks /\ \A a \in Tasks : claimed[a] \subseteq claimed'[a]
  BY <1>1 DEF PoolEffects, Claims, Tasks
<1>5. \A a \in Tasks : Live(a)' <=> Live(a)
  <2>1. ASSUME NEW a \in Tasks, Live(a) PROVE Live(a)'
    <3>1. a # NoTask
      BY <1>2, TaskTypes
    <3>2. CASE a \in queued \cup open
      BY <1>1, <3>2 DEF PoolEnds, Live
    <3>3. ASSUME NEW u \in Threads, task[u] = a PROVE Live(a)'
      <4>1. CASE task'[u] = a
        BY <4>1 DEF Live
      <4>2. CASE task'[u] # a
        <5>1. u = t
          BY <1>3, <3>3, <4>2
        <5>2. PICK v \in Threads \ {t} : task[v] = a
          BY <1>1, <3>1, <3>3, <4>2, <5>1 DEF PoolEnds
        <5>3. task'[v] = a
          BY <1>3, <5>2
        <5>4. QED
          BY <5>3 DEF Live
      <4>3. QED
        BY <4>1, <4>2
    <3>4. QED
      BY <2>1, <3>2, <3>3 DEF Live
  <2>2. QED
    BY <1>1, <1>2, <2>1, NothingPushed
<1>6. \A c, a \in Tasks : ToRun(c, a)' <=> ToRun(c, a)
  <2>1. TAKE c, a \in Tasks
  <2>2. pc[t] # "run"
    BY <1>1 DEF PoolEffects, Moves
  <2>3. pc'[t] = "run" /\ task'[t] = c => chunk'[t] \in claimed'[c] \ claimed[c]
    BY <1>1 DEF PoolEffects, Claims
  <2>4. \A d \in claimed'[c] \ claimed[c] : pc'[t] = "run" /\ task'[t] = c /\ chunk'[t] = d
    BY <1>1 DEF PoolEffects, Claims
  <2> DEFINE d == a[2] - 1
  <2>5. ToRun(c, a) <=> /\ c[2] = 0 /\ a[2] # 0
                        /\ \/ d \notin claimed[c]
                           \/ \E u \in Threads : pc[u] = "run" /\ task[u] = c /\ chunk[u] = d
    BY DEF ToRun
  <2>6. ToRun(c, a)' <=> /\ c[2] = 0 /\ a[2] # 0
                         /\ \/ d \notin claimed'[c]
                            \/ \E u \in Threads : pc'[u] = "run" /\ task'[u] = c /\ chunk'[u] = d
    BY DEF ToRun
  <2> HIDE DEF d
  <2>7. (\E u \in Threads : pc[u] = "run" /\ task[u] = c /\ chunk[u] = d) =>
          (\E u \in Threads : pc'[u] = "run" /\ task'[u] = c /\ chunk'[u] = d)
    BY <1>3, <2>2
  <2>8. d \notin claimed[c] =>
          \/ d \notin claimed'[c]
          \/ \E u \in Threads : pc'[u] = "run" /\ task'[u] = c /\ chunk'[u] = d
    BY <2>4
  <2>9. (\E u \in Threads : pc'[u] = "run" /\ task'[u] = c /\ chunk'[u] = d) =>
          \/ d \notin claimed[c]
          \/ \E u \in Threads : pc[u] = "run" /\ task[u] = c /\ chunk[u] = d
    BY <1>3, <2>3
  <2>10. d \notin claimed'[c] => d \notin claimed[c]
    BY <1>4
  <2>11. QED
    BY <2>5, <2>6, <2>7, <2>8, <2>9, <2>10
<1>7. Due' = Due
  BY <1>4, <1>5, <1>6 DEF Due
<1>8. BlocksScanned'
  <2> SUFFICES ASSUME NEW a \in DOMAIN output', Live(a)', NEW b \in claimed'[a]
               PROVE  \/ \E u \in Threads : pc'[u] \in ToScan /\ task'[u] = a /\ chunk'[u] = b
                      \/ DOMAIN Part(a, b) \subseteq DOMAIN output'[a]
    BY SameParts DEF BlocksScanned, ToScan, Looking, Late
  <2>1. a \in DOMAIN output /\ a \in Tasks /\ output'[a] = output[a]
    BY <1>2, <1>3, TaskTypes DEF TypeOK
  <2>2. CASE b \in claimed[a]
    BY <1>1, <1>3, <1>5, <2>1, <2>2 DEF CompletionInv, BlocksScanned, PoolEffects, Moves,
       ToScan, Looking, Late
  <2>3. CASE b \notin claimed[a]
    BY <1>1, <2>1, <2>3 DEF PoolEffects, Claims, ToScan
  <2>4. QED
    BY <2>2, <2>3
<1>9. ClosedTasks'
  <2> SUFFICES ASSUME NEW a \in Tasks, a \notin queued', a \notin open', Live(a)'
               PROVE  \/ Unclaimed(a)' = {}
                      \/ \E u \in Threads : task'[u] = a /\ pc'[u] \notin {"leave", "finish"}
    BY <1>4 DEF ClosedTasks
  <2>1. Unclaimed(a)' \subseteq Unclaimed(a)
    BY <1>4 DEF Size, Program, Input, Unclaimed
  <2>2. a # NoTask
    BY <1>2, TaskTypes
  <2>3. ASSUME task[t] = a, Unclaimed(a) = {} \/ Others(t) # {}
        PROVE  \/ Unclaimed(a)' = {}
               \/ \E u \in Threads : task'[u] = a /\ pc'[u] \notin {"leave", "finish"}
    <3>1. CASE Unclaimed(a) = {}
      BY <2>1, <3>1
    <3>2. CASE Others(t) # {}
      <4>1. PICK u \in Threads \ {t} : task[u] = a /\ pc[u] # "leave"
        BY <2>3, <3>2 DEF Others, After
      <4>2. pc[u] # "finish"
        BY <1>2, <2>3, <4>1 DEF TaskStages
      <4>3. task'[u] = a /\ pc'[u] \notin {"leave", "finish"}
        BY <1>3, <4>1, <4>2
      <4>4. QED
        BY <4>3
    <3>3. QED
      BY <2>3, <3>1, <3>2
  <2>4. CASE a \in queued
    BY <1>1, <2>1, <2>4 DEF PoolEnds
  <2>5. CASE a \in open
    BY <1>1, <2>3, <2>5 DEF PoolEnds
  <2>6. CASE a \notin queued /\ a \notin open
    <3>1. \/ Unclaimed(a) = {}
          \/ \E u \in Threads : task[u] = a /\ pc[u] \notin {"leave", "finish"}
      BY <1>5, <2>6 DEF CompletionInv, ClosedTasks
    <3>2. CASE Unclaimed(a) = {}
      BY <2>1, <3>2
    <3>3. ASSUME NEW u \in Threads, task[u] = a, pc[u] \notin {"leave", "finish"}
          PROVE  \/ Unclaimed(a)' = {}
                 \/ \E v \in Threads : task'[v] = a /\ pc'[v] \notin {"leave", "finish"}
      <4>1. CASE u # t
        BY <1>3, <3>3, <4>1
      <4>2. CASE u = t
        <5>1. pc[t] # "idle"
          BY <1>2, <2>2, <3>3, <4>2 DEF ThreadsOnTasks
        <5>2. task'[t] = a /\ pc'[t] # "finish"
          BY <1>1, <2>2, <3>3, <4>2, <5>1 DEF PoolEnds
        <5>3. CASE pc'[t] # "leave"
          BY <5>2, <5>3
        <5>4. CASE pc'[t] = "leave"
          BY <1>1, <2>3, <3>3, <4>2, <5>4 DEF PoolEnds
        <5>5. QED
          BY <5>3, <5>4
      <4>3. QED
        BY <4>1, <4>2
    <3>4. QED
      BY <3>1, <3>2, <3>3
  <2>7. QED
    BY <2>4, <2>5, <2>6
<1>10. ArraysScanned' /\ OneTaskOfOuter' /\ PendingCountsTasks' /\ FinishedMeansScanned'
  BY <1>3, <1>4, <1>5, <1>7, SameTasksDue
<1>11. QED
  BY <1>8, <1>9, <1>10 DEF CompletionInv

(* A thread that is to scan its block does so, or stays on the way to it.  *)
LEMMA BlockGetsScanned ==
  ASSUME CoreInv, NEW t \in Threads, RunBlock(t), pc[t] \in ToScan
  PROVE  \/ pc'[t] \in ToScan
         \/ DOMAIN Part(task[t], chunk[t]) \subseteq DOMAIN output'[task[t]]
<1>1. pc \in [Threads -> PoolLabels \cup Working \cup {"finish"}]
  BY DEF CoreInv, TypeOK
<1>2. CASE ScanBlock(t)
  <2> DEFINE a == task[t]
             b == chunk[t]
  <2>1. pc[t] \in {"scan", "scanLate"} /\ pc[t] \in Working /\ a[2] # 0
    BY <1>2, BlockStepFrame DEF CoreInv, PoolInv, ScanBlock, BlockStep
  <2>2. a \in DOMAIN temp_state /\ a \in DOMAIN output
    BY <2>1, BlockFacts DEF CoreInv, PoolInv
  <2>3. sum[t] = Before(a, b)
    BY <2>1, <2>2 DEF CoreInv, SumInv, SumsSoFar, SumSoFar, Late
  <2> DEFINE part == Part(a, b)
  <2>4. output' = [output EXCEPT ![a] = Overwritten(output[a], part)]
    BY <1>2, <2>3 DEF ScanBlock, Part
  <2> HIDE DEF part
  <2>5. output'[a] = Overwritten(output[a], part)
    BY <2>2, <2>4
  <2>6. DOMAIN part \subseteq DOMAIN output'[a]
    BY <2>5 DEF Overwritten
  <2>7. QED
    BY <2>6 DEF part
<1>3. CASE CheckPrevious(t)
  <2>1. PICK l \in {"load", "scan", "fold"} : Goto(t, l)
    BY <1>3 DEF CheckPrevious
  <2>2. QED
    BY <1>1, <2>1 DEF Goto, ToScan
<1>4. ASSUME \/ LoadPrefix(t) \/ StorePrefix(t) \/ PublishPrefix(t)
             \/ StoreAggregate(t) \/ PublishAggregate(t)
             \/ LookBack(t) \/ AddPrefix(t) \/ AddAggregate(t)
      PROVE  pc'[t] \in ToScan
  <2>1. PICK l \in ToScan : Goto(t, l)
    BY <1>4
    DEF LoadPrefix, StorePrefix, PublishPrefix, StoreAggregate, PublishAggregate, LookBack,
        AddPrefix, AddAggregate, ToScan, Looking, Late
  <2>2. QED
    BY <1>1, <2>1 DEF Goto
<1>5. QED
  BY <1>2, <1>3, <1>4 DEF RunBlock

LEMMA RunBlockCompletes ==
  ASSUME CoreInv, CoreInv', OutputGrows, CompletionInv, NEW t \in Threads, RunBlock(t)
  PROVE  CompletionInv'
<1>1. BlockStep(t) /\ ThreadsOnTasks /\ TypeOK /\ PoolInv
  BY BlockStepFrame DEF CoreInv, PoolInv
<1>2. /\ pc[t] \in Working /\ task[t][2] # 0
      /\ UNCHANGED <<open, claimed, queued, is_finished, task, chunk, pending>>
  BY <1>1 DEF BlockStep, control, scheduling
<1>3. /\ \A a : Live(a)' <=> Live(a)
      /\ \A u \in Threads \ {t} : pc'[u] = pc[u]
      /\ pc'[t] \in (Working \ {"run"}) \cup {"claim"}
  BY <1>1, BlockStepPool
<1>4. Tasks' = Tasks
  BY <1>2 DEF Tasks
<1>5. \A c, a \in Tasks : ToRun(c, a)' <=> ToRun(c, a)
  <2>1. TAKE c, a \in Tasks
  <2>2. ASSUME c[2] = 0, NEW u \in Threads, task[u] = c PROVE pc'[u] = pc[u]
    BY <1>2, <1>3, <2>2
  <2>3. QED
    BY <1>2, <2>2 DEF ToRun
<1>6. Due' = Due
  BY <1>3, <1>4, <1>5 DEF Due
<1>7. BlocksScanned'
  <2> SUFFICES ASSUME NEW a \in DOMAIN output', Live(a)', NEW b \in claimed'[a]
               PROVE  \/ \E u \in Threads : pc'[u] \in ToScan /\ task'[u] = a /\ chunk'[u] = b
                      \/ DOMAIN Part(a, b) \subseteq DOMAIN output'[a]
    BY SameParts DEF BlocksScanned, ToScan, Looking, Late
  <2>1. a \in DOMAIN output /\ DOMAIN output[a] \subseteq DOMAIN output'[a]
    BY DEF OutputGrows
  <2>2. \/ \E u \in Threads : pc[u] \in ToScan /\ task[u] = a /\ chunk[u] = b
        \/ DOMAIN Part(a, b) \subseteq DOMAIN output[a]
    BY <1>2, <1>3, <2>1 DEF CompletionInv, BlocksScanned
  <2>3. ASSUME NEW u \in Threads, pc[u] \in ToScan, task[u] = a, chunk[u] = b
        PROVE  \/ \E v \in Threads : pc'[v] \in ToScan /\ task'[v] = a /\ chunk'[v] = b
               \/ DOMAIN Part(a, b) \subseteq DOMAIN output'[a]
    <3>1. CASE u = t
      BY <1>2, <2>3, <3>1, BlockGetsScanned
    <3>2. CASE u # t
      BY <1>2, <1>3, <2>3, <3>2
    <3>3. QED
      BY <3>1, <3>2
  <2>4. QED
    BY <2>1, <2>2, <2>3
<1>8. ClosedTasks'
  <2>1. \A a : Unclaimed(a)' = Unclaimed(a)
    BY <1>2 DEF Unclaimed, Size, Program, Input
  <2>2. pc'[t] \notin {"leave", "finish"}
    BY <1>3 DEF Working, Unannounced, Looking, Late
  <2>3. QED
    BY <1>2, <1>3, <1>4, <2>1, <2>2 DEF CompletionInv, ClosedTasks
<1>9. ArraysScanned' /\ OneTaskOfOuter' /\ PendingCountsTasks' /\ FinishedMeansScanned'
  BY <1>2, <1>3, <1>4, <1>6, SameTasksDue
<1>10. QED
  BY <1>7, <1>8, <1>9 DEF CompletionInv

(* A chunk of the task over all arrays pushes the task of its array, or    *)
(* does its work.                                                          *)
RunsArray(t, f, e) ==
  /\ f \in Tasks /\ f[2] = 0 /\ f \notin DOMAIN output /\ task[t] = f
  /\ pc[t] = "run" /\ chunk[t] \in claimed[f]
  /\ e \in DOMAIN output /\ e \in Tasks /\ e[2] - 1 = chunk[t] /\ e[2] # 0
  /\ Program(e) = Program(f)
  /\ \A c \in Tasks :
       /\ Program(c) = Program(f) /\ (c[2] = f[2] => c = f)
       /\ c[2] - 1 = chunk[t] /\ c[2] # 0 => c = e
  /\ ToRun(f, e) /\ f # e
  /\ UNCHANGED <<claimed, open, is_finished, task, chunk, pending>>
  /\ pc'[t] = "claim" /\ \A u \in Threads \ {t} : pc'[u] = pc[u]
  /\ \/ Program(e).version = "our" /\ PushArray(e) /\ output' = output
     \/ Program(e).version # "our" /\ UNCHANGED <<temp, queued>>
        /\ output' = [output EXCEPT ![e] = reference_sequential(e)]

LEMMA RunArrayFacts ==
  ASSUME CoreInv, NEW t \in Threads, RunArray(t)
  PROVE  \E f, e : RunsArray(t, f, e)
<1> DEFINE f == task[t]
           e == <<f[1], chunk[t] + 1>>
<1>1. /\ pc[t] = "run" /\ f[2] = 0 /\ Goto(t, "claim")
      /\ UNCHANGED <<claimed, open, is_finished, task, chunk, pending>>
  BY DEF RunArray, scheduling
<1>2. f \in Tasks /\ chunk[t] \in claimed[f] /\ chunk[t] \in Blocks(f) /\ chunk[t] \in Nat
  BY <1>1, BlockTypes DEF CoreInv, PoolInv, Working, Unannounced
<1>3. e \in DOMAIN temp_state /\ e \in Tasks /\ f \notin DOMAIN temp_state
  BY <1>1, <1>2, TaskTypes DEF CoreInv
<1>4. DOMAIN output = DOMAIN temp_state
  BY DEF CoreInv, TypeOK
<1>5. e[2] = chunk[t] + 1 /\ e[2] - 1 = chunk[t] /\ e[2] # 0 /\ e[1] = f[1]
  BY <1>2
<1>6. \A c \in Tasks : c[2] \in Nat /\ c[1] = f[1] /\ \A d \in Tasks : c[2] = d[2] => c = d
  BY <1>2, TaskTypes DEF CoreInv
<1>7. \A c \in Tasks : /\ Program(c) = Program(f) /\ (c[2] = f[2] => c = f)
                       /\ c[2] - 1 = chunk[t] /\ c[2] # 0 => c = e
  <2> HIDE DEF e
  <2>1. TAKE c \in Tasks
  <2>2. Program(c) = Program(f)
    BY <1>6 DEF Program
  <2>3. c[2] - 1 = chunk[t] => c[2] = e[2]
    BY <1>2, <1>5, <1>6
  <2>4. QED
    BY <1>2, <1>3, <1>6, <2>2, <2>3
<1>8. Program(e) = Program(f)
  BY <1>5 DEF Program
<1>9. ToRun(f, e)
  BY <1>1, <1>5 DEF ToRun
<1>10. pc'[t] = "claim" /\ \A u \in Threads \ {t} : pc'[u] = pc[u]
  BY <1>1 DEF CoreInv, TypeOK, Goto
<1>11. \/ Program(e).version = "our" /\ PushArray(e) /\ output' = output
       \/ Program(e).version # "our" /\ UNCHANGED <<temp, queued>>
          /\ output' = [output EXCEPT ![e] = reference_sequential(e)]
  BY DEF RunArray
<1> HIDE DEF e
<1>12. RunsArray(t, f, e)
  BY <1>1, <1>2, <1>3, <1>4, <1>5, <1>7, <1>8, <1>9, <1>10, <1>11 DEF RunsArray
<1>13. QED
  BY <1>12

LEMMA RunArrayCompletes ==
  ASSUME CoreInv, CoreInv', OutputGrows, CompletionInv, NEW t \in Threads, RunArray(t)
  PROVE  CompletionInv'
<1>1. PICK f, e : RunsArray(t, f, e)
  BY RunArrayFacts
<1>2. /\ f \in Tasks /\ f[2] = 0 /\ f \notin DOMAIN output /\ task[t] = f
      /\ pc[t] = "run" /\ chunk[t] \in claimed[f]
      /\ e \in DOMAIN output /\ e \in Tasks /\ e[2] - 1 = chunk[t] /\ e[2] # 0
      /\ Program(e) = Program(f)
      /\ \A c \in Tasks :
           /\ Program(c) = Program(f) /\ (c[2] = f[2] => c = f)
           /\ c[2] - 1 = chunk[t] /\ c[2] # 0 => c = e
      /\ ToRun(f, e) /\ f # e
      /\ UNCHANGED <<claimed, open, is_finished, task, chunk, pending>>
      /\ pc'[t] = "claim" /\ \A u \in Threads \ {t} : pc'[u] = pc[u]
  BY <1>1 DEF RunsArray
<1>3. Tasks' = Tasks /\ \A a : Program(a)' = Program(a)
  BY <1>2 DEF Tasks, Program
<1>4. TypeOK /\ PoolInv /\ ThreadsOnTasks /\ TaskStages /\ PushedOnce
  BY DEF CoreInv, PoolInv
<1>5. \A c, a \in Tasks : ToRun(c, a)' <=> ToRun(c, a) /\ a # e
  <2>1. TAKE c, a \in Tasks
  <2>2. ASSUME c[2] # 0 PROVE ToRun(c, a)' <=> ToRun(c, a) /\ a # e
    BY <2>2 DEF ToRun
  <2>3. ASSUME c = f PROVE ToRun(c, a)' <=> ToRun(c, a) /\ a # e
    <3>1. CASE a = e
      <4>1. \A u \in Threads : ~(pc'[u] = "run" /\ task'[u] = f /\ chunk'[u] = chunk[t])
        BY <1>2, <1>4 DEF ThreadsOnTasks, Working, Unannounced
      <4>2. ~ToRun(f, e)'
        BY <1>2, <4>1 DEF ToRun
      <4>3. QED
        BY <2>3, <3>1, <4>2
    <3>2. CASE a # e
      BY <1>2, <2>3, <3>2 DEF ToRun
    <3>3. QED
      BY <3>1, <3>2
  <2>4. QED
    BY <1>2, <2>2, <2>3
<1>6. CASE Program(e).version = "our"
  <2>1. PushArray(e) /\ output' = output
    BY <1>1, <1>6 DEF RunsArray
  <2>2. queued' = queued \cup {e}
    BY <2>1 DEF PushArray, Push
  <2>3. Untouched(e)
    BY <1>2, <1>4, <1>6 DEF PushedOnce
  <2>4. \A a : Live(a)' <=> Live(a) \/ a = e
    BY <1>2, <2>2 DEF Live
  <2>5. Due' = Due
    BY <1>2, <1>3, <1>5, <2>4 DEF Due
  <2>6. BlocksScanned'
    <3> SUFFICES ASSUME NEW a \in DOMAIN output', Live(a)', NEW b \in claimed'[a]
                 PROVE  \/ \E u \in Threads : pc'[u] \in ToScan /\ task'[u] = a /\ chunk'[u] = b
                        \/ DOMAIN Part(a, b) \subseteq DOMAIN output'[a]
      BY SameParts DEF BlocksScanned, ToScan, Looking, Late
    <3>1. a \in DOMAIN output /\ output'[a] = output[a] /\ a # f
      BY <1>2, <2>1
    <3>2. a # e
      BY <1>2, <2>3 DEF Untouched
    <3>3. \/ \E u \in Threads : pc[u] \in ToScan /\ task[u] = a /\ chunk[u] = b
          \/ DOMAIN Part(a, b) \subseteq DOMAIN output[a]
      BY <1>2, <2>4, <3>1, <3>2 DEF CompletionInv, BlocksScanned
    <3>4. QED
      BY <1>2, <3>1, <3>3
  <2>7. ClosedTasks'
    <3> SUFFICES ASSUME NEW a \in Tasks, a \notin queued', a \notin open', Live(a)'
                 PROVE  \/ Unclaimed(a)' = {}
                        \/ \E u \in Threads : task'[u] = a /\ pc'[u] \notin {"leave", "finish"}
      BY <1>3 DEF ClosedTasks
    <3>1. Unclaimed(a)' = Unclaimed(a)
      BY <1>2 DEF Unclaimed, Size, Program, Input
    <3>2. a \notin queued /\ a \notin open /\ Live(a)
      BY <1>2, <2>2, <2>4
    <3>3. \/ Unclaimed(a) = {}
          \/ \E u \in Threads : task[u] = a /\ pc[u] \notin {"leave", "finish"}
      BY <3>2 DEF CompletionInv, ClosedTasks
    <3>4. QED
      BY <1>2, <3>1, <3>3
  <2>8. ArraysScanned'
    BY <1>2, <1>3, <1>6, <2>1, <2>5, ScannedStays DEF CompletionInv, ArraysScanned
  <2>9. OneTaskOfOuter'
    BY <1>2, <1>3, <1>6 DEF OneTaskOfOuter
  <2>10. PendingCountsTasks'
    BY <1>2, <1>3, <2>5 DEF CompletionInv, PendingCountsTasks
  <2>11. FinishedMeansScanned'
    BY <1>2, <2>1, ScannedStays DEF CompletionInv, FinishedMeansScanned
  <2>12. QED
    BY <2>6, <2>7, <2>8, <2>9, <2>10, <2>11 DEF CompletionInv
<1>7. CASE Program(e).version # "our"
  <2>1. output' = [output EXCEPT ![e] = reference_sequential(e)] /\ queued' = queued
    BY <1>1, <1>7 DEF RunsArray
  <2>2. \A a : Live(a)' <=> Live(a)
    BY <1>2, <2>1 DEF Live
  <2>3. \A a \in DOMAIN output : a \in DOMAIN output' /\ (Scanned(a) \/ a = e => Scanned(a)')
    BY <1>2, <2>1, SameParts, ScannedStays DEF Scanned, OutputGrows
  <2>4. DOMAIN output' = DOMAIN output
    BY DEF OutputGrows
  <2>5. Program(f).version = "outer"
    BY <1>2, <1>4, <1>7, TaskTypes
  <2>6. BlocksScanned'
    <3> SUFFICES ASSUME NEW a \in DOMAIN output', Live(a)', NEW b \in claimed'[a]
                 PROVE  \/ \E u \in Threads : pc'[u] \in ToScan /\ task'[u] = a /\ chunk'[u] = b
                        \/ DOMAIN Part(a, b) \subseteq DOMAIN output'[a]
      BY SameParts DEF BlocksScanned, ToScan, Looking, Late
    <3>1. a \in DOMAIN output /\ DOMAIN output[a] \subseteq DOMAIN output'[a] /\ a # f
      BY <1>2 DEF OutputGrows
    <3>2. \/ \E u \in Threads : pc[u] \in ToScan /\ task[u] = a /\ chunk[u] = b
          \/ DOMAIN Part(a, b) \subseteq DOMAIN output[a]
      BY <1>2, <2>2, <3>1 DEF CompletionInv, BlocksScanned
    <3>3. QED
      BY <1>2, <3>1, <3>2
  <2>7. ClosedTasks'
    BY <1>2, <1>3, <2>1, <2>2 DEF Unclaimed, Size, Program, Input, CompletionInv, ClosedTasks
  <2>8. ArraysScanned'
    BY <1>2, <1>3, <1>4, <1>5, <2>2, <2>3, <2>4, <2>5, TaskTypes DEF Due, TypeOK, CompletionInv,
       ArraysScanned
  <2>9. OneTaskOfOuter'
    BY <1>3, <2>2 DEF CompletionInv, OneTaskOfOuter
  <2>10. PendingCountsTasks'
    BY <1>2, <1>3, <2>5 DEF PendingCountsTasks
  <2>11. FinishedMeansScanned'
    BY <1>2, <2>3, <2>4 DEF CompletionInv, FinishedMeansScanned
  <2>12. QED
    BY <2>6, <2>7, <2>8, <2>9, <2>10, <2>11 DEF CompletionInv
<1>8. QED
  BY <1>6, <1>7

(* There is a task for each array.                                         *)
LEMMA ArraysCounted ==
  ASSUME NEW p \in DOMAIN Programs
  PROVE  /\ IsFiniteSet(Arrays(p)) /\ Cardinality(Arrays(p)) = Len(Programs[p].inputs)
         /\ Len(Programs[p].inputs) \in Nat \ {0}
<1> DEFINE n == Len(Programs[p].inputs)
           f == [i \in 1 .. n |-> <<p, i>>]
<1>1. n \in Nat \ {0} /\ DOMAIN Programs[p].inputs = 1 .. n
  BY ScanAssumption
<1> HIDE DEF n
<1>2. Arrays(p) = {<<p, i>> : i \in 1 .. n}
  BY <1>1 DEF Arrays
<1>3. f \in Injection(1 .. n, Arrays(p))
  BY <1>2 DEF Injection, IsInjective
<1>4. f \in Surjection(1 .. n, Arrays(p))
  BY <1>2 DEF Surjection
<1>5. ExistsBijection(1 .. n, Arrays(p))
  BY <1>3, <1>4 DEF ExistsBijection, Bijection
<1>6. IsFiniteSet(1 .. n) /\ Cardinality(1 .. n) = n
  BY <1>1, FS_Interval
<1>7. QED
  BY <1>1, <1>5, <1>6, FS_Bijection DEF n

LEMMA DueIsFinite ==
  ASSUME TypeOK
  PROVE  /\ IsFiniteSet(Due) /\ Cardinality(Due) \in Nat
         /\ \A a \in Due : Cardinality(Due \ {a}) = Cardinality(Due) - 1
         /\ Cardinality(Due) = 0 <=> Due = {}
<1>1. PICK p \in DOMAIN Programs : Tasks = Arrays(p) \cup {InitialTask(p)}
  BY DEF TypeOK, Tasks
<1>2. IsFiniteSet(Tasks)
  BY <1>1, ArraysCounted, FS_AddElement
<1>3. Due \in SUBSET Tasks
  BY DEF Due
<1>4. IsFiniteSet(Due)
  BY <1>2, <1>3, FS_Subset
<1>5. QED
  BY <1>4, FS_CardinalityType, FS_RemoveElement, FS_EmptySet

(* The last thread on a task, in its finish function.  All chunks were     *)
(* claimed, and none is under way.                                         *)
LEMMA LastThread ==
  ASSUME CoreInv, CompletionInv, NEW t \in Threads, NEW f, task[t] = f, pc[t] = "finish"
  PROVE  /\ f \in Tasks /\ Live(f) /\ f \notin queued /\ f \notin open
         /\ \A u \in Threads \ {t} : task[u] # f
         /\ f \in DOMAIN output => Scanned(f)
         /\ f \notin DOMAIN output => \A c, a \in Tasks : ~ToRun(c, a)
<1>1. /\ \A u \in Threads \ {t} : task[u] # f
      /\ f \notin queued /\ f \notin open
  BY DEF CoreInv, PoolInv, TaskStages
<1>2. f \in Tasks /\ f # NoTask /\ Live(f)
  BY DEF CoreInv, TypeOK, PoolInv, ThreadsOnTasks, Live
<1>3. Blocks(f) \subseteq claimed[f]
  BY <1>1, <1>2 DEF CompletionInv, ClosedTasks, Unclaimed, Blocks
<1>4. \A u \in Threads : task[u] = f => pc[u] = "finish"
  BY <1>1
<1>5. DOMAIN output = DOMAIN temp_state
  BY DEF CoreInv, TypeOK
<1>6. ASSUME f \in DOMAIN output PROVE Scanned(f)
  <2> DEFINE g == output[f]
  <2>1. IsArray(f) /\ f[2] # 0
    BY <1>2, <1>5, <1>6, TaskTypes DEF CoreInv
  <2>2. \A b \in Blocks(f) : DOMAIN Part(f, b) \subseteq DOMAIN g
    BY <1>2, <1>3, <1>4, <1>6 DEF CompletionInv, BlocksScanned, ToScan, Looking, Late
  <2>3. IsRestriction(g, reference_sequential(f)) /\ g = [k \in DOMAIN g |-> g[k]]
    BY <1>6 DEF CoreInv, OutputCorrect
  <2> HIDE DEF g
  <2>4. g = reference_sequential(f)
    BY <2>1, <2>2, <2>3, BlocksMakeArray
  <2>5. QED
    BY <2>4 DEF Scanned, g
<1>7. ASSUME f \notin DOMAIN output, NEW c \in Tasks, NEW a \in Tasks PROVE ~ToRun(c, a)
  <2>1. f[2] = 0 /\ (c[2] = 0 => c = f)
    <3>1. f[2] = 0
      BY <1>2, <1>5, <1>7, TaskTypes DEF CoreInv
    <3>2. c[2] = f[2] => c = f
      BY <1>2, <1>7, TaskTypes DEF CoreInv
    <3>3. QED
      BY <3>1, <3>2
  <2>2. a[2] # 0 => a[2] - 1 \in Blocks(f)
    <3>1. PICK p \in DOMAIN Programs : Tasks = Arrays(p) \cup {InitialTask(p)}
      BY DEF CoreInv, TypeOK, Tasks
    <3>2. Programs[p].inputs \in Seq(Seq(Nat)) \ {<<>>}
      BY ScanAssumption
    <3>3. \A d \in Tasks : d[1] = p /\ (d[2] # 0 => d[2] \in 1 .. Len(Programs[p].inputs))
      BY <3>1, <3>2 DEF Arrays, InitialTask
    <3>4. Blocks(f) = 0 .. Len(Programs[p].inputs) - 1
      BY <1>2, <2>1, <3>3 DEF Blocks, Size, Program
    <3> DEFINE n == Len(Programs[p].inputs)
               i == a[2]
    <3>5. n \in Nat /\ (i # 0 => i \in 1 .. n)
      BY <3>2, <3>3
    <3> HIDE DEF n, i
    <3>6. i # 0 => i - 1 \in 0 .. n - 1
      BY <3>5
    <3>7. QED
      BY <3>4, <3>6 DEF n, i
  <2>3. QED
    BY <1>3, <1>4, <2>1, <2>2 DEF ToRun
<1>8. QED
  BY <1>1, <1>2, <1>6, <1>7

(* It leaves its task, f, and may push the next, e.                        *)
FinishesTask(t, f, e) ==
  /\ task[t] = f /\ pc[t] = "finish"
  /\ pc'[t] = "idle" /\ task'[t] = NoTask
  /\ \A u \in Threads \ {t} : pc'[u] = pc[u] /\ task'[u] = task[u]
  /\ UNCHANGED <<open, claimed, chunk, output>>
  /\ queued' = queued \cup ({e} \ {NoTask})
  /\ e # NoTask =>
       /\ e \in DOMAIN output /\ claimed[e] = {}
       /\ Program(e).version = "inner" /\ e[2] = f[2] + 1
  /\ \/ Program(f).version = "our" /\ FinishOur
     \/ /\ Program(f).version = "inner" /\ UNCHANGED pending
        /\ \/ Finish /\ f[2] = Len(Program(f).inputs)
           \/ UNCHANGED is_finished
     \/ Program(f).version = "outer" /\ Finish /\ UNCHANGED pending

LEMMA FinishArrayFacts ==
  ASSUME CoreInv, NEW t \in Threads, FinishArray(t)
  PROVE  \E f, e : FinishesTask(t, f, e)
<1> DEFINE f == task[t]
<1>1. /\ pc[t] = "finish" /\ UNCHANGED <<open, claimed, chunk, output>>
      /\ CASE Program(f).version = "our"   -> FinishOur /\ UNCHANGED <<queued, temp>>
           [] Program(f).version = "inner" -> FinishInner(f) /\ UNCHANGED pending
           [] Program(f).version = "outer" -> Finish /\ UNCHANGED <<queued, temp, pending>>
  BY DEF FinishArray, scheduling, look
<1>2. PICK e : Pushes(t, e)
  BY FinishArrayPushes DEF CoreInv
<1>3. /\ pc'[t] = "idle" /\ task'[t] = NoTask
      /\ \A u \in Threads \ {t} : pc'[u] = pc[u] /\ task'[u] = task[u]
      /\ queued' = queued \cup ({e} \ {NoTask})
      /\ e # NoTask => e \in DOMAIN temp_state /\ claimed[e] = {}
  BY <1>1, <1>2, PushFrame DEF CoreInv
<1>4. e # NoTask => Program(e).version = "inner" /\ e[2] = f[2] + 1
  BY <1>1, <1>2 DEF Pushes
<1>5. DOMAIN output = DOMAIN temp_state
  BY DEF CoreInv, TypeOK
<1>6. Program(f).version \in {"our", "inner", "outer"}
  <2>1. f \in Tasks
    BY <1>1 DEF CoreInv, TypeOK, PoolInv, ThreadsOnTasks
  <2>2. QED
    BY <2>1, TaskTypes DEF CoreInv
<1>7. \/ Program(f).version = "our" /\ FinishOur
      \/ /\ Program(f).version = "inner" /\ UNCHANGED pending
         /\ \/ Finish /\ f[2] = Len(Program(f).inputs)
            \/ UNCHANGED is_finished
      \/ Program(f).version = "outer" /\ Finish /\ UNCHANGED pending
  <2>1. CASE Program(f).version = "our"
    BY <1>1, <2>1
  <2>2. CASE Program(f).version = "inner"
    BY <1>1, <2>2 DEF FinishInner
  <2>3. CASE Program(f).version = "outer"
    BY <1>1, <2>3
  <2>4. QED
    BY <1>6, <2>1, <2>2, <2>3
<1>8. FinishesTask(t, f, e)
  BY <1>1, <1>3, <1>4, <1>5, <1>7 DEF FinishesTask
<1>9. QED
  BY <1>8

LEMMA FinishArrayCompletes ==
  ASSUME CoreInv, CoreInv', OutputGrows, CompletionInv, NEW t \in Threads, FinishArray(t)
  PROVE  CompletionInv'
<1>1. PICK f, e : FinishesTask(t, f, e)
  BY FinishArrayFacts
<1>2. /\ task[t] = f /\ pc[t] = "finish"
      /\ pc'[t] = "idle" /\ task'[t] = NoTask
      /\ \A u \in Threads \ {t} : pc'[u] = pc[u] /\ task'[u] = task[u]
      /\ UNCHANGED <<open, claimed, chunk, output>>
      /\ queued' = queued \cup ({e} \ {NoTask})
      /\ e # NoTask =>
           /\ e \in DOMAIN output /\ claimed[e] = {}
           /\ Program(e).version = "inner" /\ e[2] = f[2] + 1
  BY <1>1 DEF FinishesTask
<1>3. /\ f \in Tasks /\ Live(f) /\ f \notin queued /\ f \notin open
      /\ \A u \in Threads \ {t} : task[u] # f
      /\ f \in DOMAIN output => Scanned(f)
      /\ f \notin DOMAIN output => \A c, a \in Tasks : ~ToRun(c, a)
  BY <1>2, LastThread
<1>4. /\ Tasks' = Tasks /\ \A a : Program(a)' = Program(a)
      /\ \A a \in DOMAIN output : a \in Tasks
      /\ \A a \in Tasks : a # NoTask /\ Program(a) = Program(f) /\ a[2] \in Nat
                          /\ (a[2] = f[2] => a = f)
      /\ DOMAIN output = DOMAIN temp_state
  <2>1. Tasks' = Tasks /\ \A a : Program(a)' = Program(a)
    BY <1>2 DEF Tasks, Program
  <2>2. DOMAIN output = DOMAIN temp_state
    BY DEF CoreInv, TypeOK
  <2>3. ASSUME NEW a \in Tasks
        PROVE  a # NoTask /\ Program(a) = Program(f) /\ a[2] \in Nat /\ (a[2] = f[2] => a = f)
    BY <1>3, TaskTypes DEF CoreInv, Program
  <2>4. \A a \in DOMAIN output : a \in Tasks
    BY <2>2, TaskTypes DEF CoreInv
  <2>5. QED
    BY <2>1, <2>2, <2>3, <2>4
<1>5. \A a \in DOMAIN output : Scanned(a)' <=> Scanned(a)
  BY <1>2, SameParts DEF Scanned
<1>6. e # f
  <2>1. f[2] \in Nat
    BY <1>3, <1>4
  <2>2. CASE e # NoTask
    BY <1>2, <2>1, <2>2
  <2>3. CASE e = NoTask
    BY <1>3, <1>4, <2>3
  <2>4. QED
    BY <2>2, <2>3
<1>7. \A a \in Tasks : Live(a)' <=> (Live(a) /\ a # f) \/ a = e
  <2>1. TAKE a \in Tasks
  <2>2. a # NoTask
    BY <1>4
  <2>3. (\E u \in Threads : task'[u] = a) <=> (\E u \in Threads \ {t} : task[u] = a)
    BY <1>2, <2>2
  <2>4. a = f => /\ ~\E u \in Threads \ {t} : task[u] = a
                 /\ a \notin queued /\ a \notin open
    BY <1>3
  <2>5. a # f => ((\E u \in Threads \ {t} : task[u] = a) <=> (\E u \in Threads : task[u] = a))
    BY <1>2
  <2>6. a \in queued' <=> a \in queued \/ a = e
    BY <1>2, <2>2
  <2>7. QED
    BY <1>2, <1>6, <2>3, <2>4, <2>5, <2>6 DEF Live
<1>8. \A c, a \in Tasks : ToRun(c, a)' <=> ToRun(c, a)
  <2>1. TAKE c, a \in Tasks
  <2>2. \A u \in Threads : /\ pc'[u] = "run" /\ task'[u] = c <=> pc[u] = "run" /\ task[u] = c
                           /\ chunk'[u] = chunk[u]
    BY <1>2
  <2>3. QED
    BY <1>2, <2>2 DEF ToRun
<1>9. BlocksScanned'
  <2> SUFFICES ASSUME NEW a \in DOMAIN output', Live(a)', NEW b \in claimed'[a]
               PROVE  \/ \E u \in Threads : pc'[u] \in ToScan /\ task'[u] = a /\ chunk'[u] = b
                      \/ DOMAIN Part(a, b) \subseteq DOMAIN output'[a]
    BY SameParts DEF BlocksScanned, ToScan, Looking, Late
  <2>1. a \in DOMAIN output /\ output'[a] = output[a] /\ a \in Tasks
    BY <1>2, <1>4
  <2>2. a # e /\ Live(a) /\ b \in claimed[a]
    BY <1>2, <1>4, <1>7, <2>1
  <2>3. \/ \E u \in Threads : pc[u] \in ToScan /\ task[u] = a /\ chunk[u] = b
        \/ DOMAIN Part(a, b) \subseteq DOMAIN output[a]
    BY <2>1, <2>2 DEF CompletionInv, BlocksScanned
  <2>4. pc[t] \notin ToScan
    BY <1>2 DEF ToScan, Looking, Late
  <2>5. QED
    BY <1>2, <2>1, <2>3, <2>4
<1>10. ClosedTasks'
  <2> SUFFICES ASSUME NEW a \in Tasks, a \notin queued', a \notin open', Live(a)'
               PROVE  \/ Unclaimed(a)' = {}
                      \/ \E u \in Threads : task'[u] = a /\ pc'[u] \notin {"leave", "finish"}
    BY <1>4 DEF ClosedTasks
  <2>1. Unclaimed(a)' = Unclaimed(a)
    BY <1>2 DEF Unclaimed, Size, Program, Input
  <2>2. a \notin queued /\ a \notin open /\ a # e /\ Live(a)
    BY <1>2, <1>4, <1>7
  <2>3. \/ Unclaimed(a) = {}
        \/ \E u \in Threads : task[u] = a /\ pc[u] \notin {"leave", "finish"}
    BY <2>2 DEF CompletionInv, ClosedTasks
  <2>4. QED
    BY <1>2, <2>1, <2>3
<1>11. OneTaskOfOuter'
  BY <1>2, <1>4, <1>7 DEF CompletionInv, OneTaskOfOuter
<1>12. ArraysScanned'
  <2>1. ASSUME NEW a \in DOMAIN output, Program(a).version # "inner", a \notin Due' PROVE Scanned(a)
    BY <1>3, <1>4, <1>7, <1>8, <2>1 DEF Due, CompletionInv, ArraysScanned
  <2>2. ASSUME NEW a \in DOMAIN output, NEW c \in Tasks,
               Program(c).version = "inner", Live(c)', a[2] < c[2]
        PROVE  Scanned(a)
    <3>1. CASE c # e
      BY <1>7, <2>2, <3>1 DEF CompletionInv, ArraysScanned
    <3>2. CASE c = e
      BY <1>2, <1>3, <1>4, <2>2, <3>2 DEF CompletionInv, ArraysScanned
    <3>3. QED
      BY <3>1, <3>2
  <2>3. DOMAIN output' = DOMAIN output
    BY <1>2
  <2>4. QED
    BY <1>4, <1>5, <2>1, <2>2, <2>3 DEF ArraysScanned
<1>13. PendingCountsTasks' /\ (is_finished' => is_finished \/ \A a \in DOMAIN output : Scanned(a))
  <2>1. CASE Program(f).version = "our"
    <3>1. FinishOur
      BY <1>1, <2>1 DEF FinishesTask
    <3>2. e = NoTask /\ \A a \in Tasks : Program(a).version = "our"
      BY <1>2, <1>4, <2>1
    <3>3. Due' = Due \ {f}
      <4>1. f \notin Due'
        BY <1>3, <1>4, <1>6, <1>7, <1>8, <3>2 DEF CoreInv, PoolInv, PushedOnce, Untouched, Due
      <4>2. \A a \in Tasks : a # f => (a \in Due' <=> a \in Due)
        BY <1>4, <1>7, <1>8, <3>2 DEF Due
      <4>3. Due \subseteq Tasks /\ Due' \subseteq Tasks
        BY <1>4 DEF Due
      <4>4. QED
        BY <4>1, <4>2, <4>3
    <3>4. f \in Due
      BY <1>3 DEF Due
    <3>5. pending = Cardinality(Due) /\ (is_finished <=> pending = 0)
      BY <3>2 DEF CompletionInv, PendingCountsTasks
    <3>6. Cardinality(Due') = Cardinality(Due) - 1 /\ Cardinality(Due) \in Nat
      BY <3>3, <3>4, DueIsFinite DEF CoreInv
    <3>7. /\ pending' = pending - 1
          /\ is_finished' <=> (is_finished \/ pending = 1)
      BY <3>1 DEF FinishOur, CoreInv, TypeOK
    <3>8. Cardinality(Due) # 0
      BY <3>4, DueIsFinite DEF CoreInv
    <3>9. pending' = Cardinality(Due') /\ (is_finished' <=> pending' = 0)
      BY <3>5, <3>6, <3>7, <3>8
    <3>10. Cardinality(Due)' = Cardinality(Due')
      OBVIOUS
    <3>11. PendingCountsTasks'
      BY <3>9, <3>10 DEF PendingCountsTasks
    <3>12. ASSUME is_finished', NEW a \in DOMAIN output PROVE Scanned(a)
      <4>1. Due' = {}
        <5>1. Cardinality(Due') = 0
          BY <3>9, <3>12
        <5>2. (Cardinality(Due) = 0 <=> Due = {})'
          BY DueIsFinite, PTL DEF CoreInv
        <5>3. QED
          BY <3>10, <5>1, <5>2
      <4>2. a \in DOMAIN output' /\ Program(a).version # "inner"
        BY <1>2, <1>4, <2>1, <3>12
      <4>3. QED
        BY <1>4, <1>5, <1>12, <3>12, <4>1, <4>2 DEF ArraysScanned
    <3>13. QED
      BY <3>11, <3>12
  <2>2. CASE Program(f).version # "our"
    <3>1. PendingCountsTasks'
      BY <1>3, <1>4, <2>2 DEF PendingCountsTasks
    <3>2. ASSUME is_finished', ~is_finished, NEW a \in DOMAIN output PROVE Scanned(a)
      <4>1. a \in Tasks
        BY <1>4, <3>2
      <4>2. CASE Program(f).version = "inner"
        <5>1. f[2] = Len(Program(f).inputs)
          BY <1>1, <2>2, <3>2, <4>2 DEF FinishesTask
        <5>2. a[2] <= f[2] /\ f[2] \in Nat /\ a[2] \in Nat
          <6>1. PICK p \in DOMAIN Programs : Tasks = Arrays(p) \cup {InitialTask(p)}
            BY DEF CoreInv, TypeOK, Tasks
          <6>2. Programs[p].inputs \in Seq(Seq(Nat)) \ {<<>>}
            BY ScanAssumption
          <6>3. \A d \in Tasks : d[1] = p /\ (d[2] # 0 => d[2] \in 1 .. Len(Programs[p].inputs))
            BY <6>1, <6>2 DEF Arrays, InitialTask
          <6>4. f[2] = Len(Programs[p].inputs) /\ Len(Programs[p].inputs) \in Nat
            BY <1>3, <5>1, <6>2, <6>3 DEF Program
          <6>5. a[2] \in Nat /\ (a[2] # 0 => a[2] \in 1 .. Len(Programs[p].inputs))
            BY <1>4, <4>1, <6>3
          <6> DEFINE n == Len(Programs[p].inputs)
                     i == a[2]
          <6>6. i \in Nat /\ n \in Nat /\ (i # 0 => i \in 1 .. n)
            BY <6>4, <6>5
          <6> HIDE DEF n, i
          <6>7. i <= n
            BY <6>6
          <6>8. QED
            BY <6>4, <6>6, <6>7 DEF n, i
        <5>3. a = f \/ a[2] < f[2]
          BY <1>4, <4>1, <5>2
        <5>4. QED
          BY <1>3, <3>2, <4>2, <5>3 DEF CompletionInv, ArraysScanned
      <4>3. CASE Program(f).version = "outer"
        <5>1. f[2] = 0
          BY <1>3, <4>3 DEF CompletionInv, OneTaskOfOuter
        <5>2. f \notin DOMAIN output
          BY <1>3, <1>4, <5>1, TaskTypes DEF CoreInv
        <5>3. a[2] # 0 /\ Program(a).version = "outer"
          BY <1>4, <3>2, <4>1, <4>3, TaskTypes DEF CoreInv
        <5>4. a \notin Due
          BY <1>3, <4>1, <5>2, <5>3 DEF Due, CompletionInv, OneTaskOfOuter
        <5>5. QED
          BY <3>2, <5>3, <5>4 DEF CompletionInv, ArraysScanned
      <4>4. QED
        BY <1>3, <2>2, <4>2, <4>3, TaskTypes DEF CoreInv
    <3>3. is_finished \in BOOLEAN
      BY DEF CoreInv, TypeOK
    <3>4. QED
      BY <3>1, <3>2, <3>3
  <2>3. QED
    BY <2>1, <2>2
<1>14. FinishedMeansScanned'
  BY <1>2, <1>5, <1>13 DEF CompletionInv, FinishedMeansScanned
<1>15. QED
  BY <1>9, <1>10, <1>11, <1>12, <1>13, <1>14 DEF CompletionInv

LEMMA InitCompletes ==
  ASSUME Init, CoreInv
  PROVE  CompletionInv
<1>1. PICK p \in DOMAIN Programs :
        /\ PoolInit(InitialTask(p), {InitialTask(p)} \cup Arrays(p))
        /\ pending = InitialPending(p)
        /\ output = [a \in Arrays(p) |-> <<>>]
  BY DEF Init
<1> DEFINE first == InitialTask(p)
           n == Len(Programs[p].inputs)
<1>2. /\ queued = {first} /\ open = {} /\ is_finished = FALSE
      /\ Tasks = {first} \cup Arrays(p) /\ \A a \in Tasks : claimed[a] = {}
      /\ \A t \in Threads : task[t] = NoTask /\ pc[t] = "idle"
  BY <1>1 DEF PoolInit, Tasks
<1>3. \A a \in Tasks : a # NoTask /\ a[2] \in Nat /\ Program(a) = Programs[p]
  <2>1. \A a \in Tasks : a # NoTask /\ a[2] \in Nat
    BY TaskTypes DEF CoreInv
  <2>2. \A a \in Tasks : a[1] = p
    BY <1>2 DEF Arrays, InitialTask
  <2>3. QED
    BY <2>1, <2>2 DEF Program
<1>4. \A a \in Tasks : Live(a) <=> a = first
  BY <1>2, <1>3 DEF Live
<1>5. n \in Nat \ {0} /\ IsFiniteSet(Arrays(p)) /\ Cardinality(Arrays(p)) = n
  BY ArraysCounted
<1>6. /\ DOMAIN output = Arrays(p)
      /\ \A a \in Arrays(p) : a \in Tasks /\ a[2] \in 1 .. n
  BY <1>1, <1>2, <1>5, ScanAssumption DEF Arrays
<1>7. first \in Tasks /\ first[2] = IF \/ Programs[p].version = "inner"
                                       \/ Programs[p].version = "our" /\ n = 1 THEN 1 ELSE 0
  BY <1>2 DEF InitialTask
<1>8. \A c, a \in Tasks : ToRun(c, a) <=> c[2] = 0 /\ a[2] # 0
  BY <1>2 DEF ToRun
<1>9. BlocksScanned
  BY <1>2, <1>6 DEF BlocksScanned
<1>10. ClosedTasks
  BY <1>2, <1>4 DEF ClosedTasks
<1>11. first[2] = 0 => Due = Tasks
  <2>1. ASSUME first[2] = 0, NEW a \in Tasks PROVE a \in Due
    <3>1. CASE a = first
      BY <1>4, <2>1, <3>1 DEF Due
    <3>2. CASE a # first
      BY <1>2, <1>6, <1>7, <1>8, <2>1, <3>2 DEF Due
    <3>3. QED
      BY <3>1, <3>2
  <2>2. Due \subseteq Tasks
    BY DEF Due
  <2>3. QED
    BY <2>1, <2>2
<1>12. first[2] # 0 /\ Programs[p].version = "our" => Tasks = {first} /\ Due = {first} /\ n = 1
  <2> SUFFICES ASSUME first[2] # 0, Programs[p].version = "our"
               PROVE  Tasks = {first} /\ Due = {first} /\ n = 1
    OBVIOUS
  <2>1. n = 1 /\ first[2] = 1
    BY <1>7
  <2>2. Tasks = {first}
    <3>1. \A a \in Tasks : a = first
      <4>1. \A a \in Arrays(p) : a[2] = 1
        BY <1>6, <2>1
      <4>2. \A a \in Tasks : a[2] = first[2]
        BY <1>2, <2>1, <4>1
      <4>3. QED
        BY <1>7, <4>2, TaskTypes DEF CoreInv
    <3>2. QED
      BY <1>7, <3>1
  <2>3. first \in Due
    BY <1>4, <1>7 DEF Due
  <2>4. Due \subseteq Tasks
    BY DEF Due
  <2>5. QED
    BY <2>1, <2>2, <2>3, <2>4
<1>13. ArraysScanned
  <2>1. ASSUME NEW a \in DOMAIN output, Program(a).version # "inner" PROVE a \in Due
    <3>1. a \in Tasks /\ Programs[p].version # "inner"
      BY <1>3, <1>6, <2>1
    <3>2. CASE first[2] = 0
      BY <1>11, <3>1, <3>2
    <3>3. CASE first[2] # 0
      BY <1>7, <1>12, <3>1, <3>3
    <3>4. QED
      BY <3>2, <3>3
  <2>2. ASSUME NEW a \in DOMAIN output, NEW c \in Tasks, Program(c).version = "inner", Live(c)
        PROVE  ~(a[2] < c[2])
    BY <1>3, <1>4, <1>5, <1>6, <1>7, <2>2
  <2>3. QED
    BY <2>1, <2>2 DEF ArraysScanned
<1>14. OneTaskOfOuter
  <2>1. ASSUME NEW a \in Tasks, Program(a).version = "outer", Live(a) PROVE a[2] = 0
    BY <1>3, <1>4, <1>7, <2>1
  <2>2. QED
    BY <2>1 DEF OneTaskOfOuter
<1>15. PendingCountsTasks
  <2> SUFFICES ASSUME \A a \in Tasks : Program(a).version = "our"
               PROVE  pending = Cardinality(Due) /\ (is_finished <=> pending = 0)
    BY DEF PendingCountsTasks
  <2>1. Programs[p].version = "our"
    BY <1>3, <1>7
  <2>2. pending = (IF n = 1 THEN 1 ELSE n + 1)
    BY <1>1 DEF InitialPending
  <2>3. CASE n = 1
    <3>1. first[2] # 0
      BY <1>7, <2>1, <2>3
    <3>2. Cardinality(Due) = 1
      BY <1>12, <2>1, <3>1, FS_Singleton
    <3>3. QED
      BY <1>2, <2>2, <2>3, <3>2
  <2>4. CASE n # 1
    <3>1. first[2] = 0
      BY <1>7, <2>1, <2>4
    <3>2. first \notin Arrays(p)
      BY <1>6, <3>1
    <3>3. Cardinality(Arrays(p) \cup {first}) = n + 1
      BY <1>5, <3>2, FS_AddElement
    <3>4. Due = Arrays(p) \cup {first}
      BY <1>2, <1>11, <3>1
    <3>5. QED
      BY <1>2, <1>5, <2>2, <2>4, <3>3, <3>4
  <2>5. QED
    BY <2>3, <2>4
<1>16. FinishedMeansScanned
  BY <1>2 DEF FinishedMeansScanned
<1>17. QED
  BY <1>9, <1>10, <1>13, <1>14, <1>15, <1>16 DEF CompletionInv

(* No array is forgotten: when the pool is finished, every output is the   *)
(* one of the sequential version.  A thread leaves no chunk of a task that *)
(* is closed, each chunk that was claimed is scanned before the last       *)
(* thread leaves the task, and `pending` counts the tasks that are not     *)
(* done, those that the chunks of the initial task are to push included    *)
(* (our.rs 160-165).                                                       *)
THEOREM CompleteWhenFinished == Spec => []CompletionInv
<1> DEFINE Inv == CoreInv /\ CompletionInv
<1>1. Init => Inv
  <2> SUFFICES ASSUME Init PROVE CoreInv /\ CompletionInv
    OBVIOUS
  <2>1. \A a \in DOMAIN output : output[a] = <<>>
    BY DEF Init
  <2>2. OutputCorrect
    BY <2>1 DEF OutputCorrect, IsRestriction
  <2>3. CoreInv
    <3> DEFINE empty == <<>>
    <3>1. empty \in [1 .. 0 -> Nat]
      BY DEF empty
    <3> HIDE DEF empty
    <3>2. empty = [k \in DOMAIN empty |-> empty[k]]
      BY <3>1
    <3>3. \A a \in DOMAIN output : output[a] = [k \in DOMAIN output[a] |-> output[a][k]]
      BY <2>1, <3>2 DEF empty
    <3>4. QED
      BY <2>2, <3>3, InitKeeps DEF CoreInv
  <2>4. QED
    BY <2>3, InitCompletes
<1>2. Inv /\ [Next]_vars => Inv'
  <2>1. ASSUME Inv, NEW t \in Threads, Step(t) PROVE Inv'
    BY <2>1, CoreKept, ScheduleCompletes, RunBlockCompletes, RunArrayCompletes,
       FinishArrayCompletes DEF Step
  <2>2. ASSUME Inv, UNCHANGED vars PROVE Inv'
    <3>1. UNCHANGED <<open, claimed, queued, is_finished, pc, task, chunk, output, pending>>
      BY <2>2 DEF vars, scheduling
    <3>2. OutputCorrect'
      BY <2>2, <3>1, SameParts DEF CoreInv, OutputCorrect
    <3>3. CoreInv' /\ OutputGrows
      BY <2>2, <3>1, <3>2, StutterKeeps DEF CoreInv, OutputGrows
    <3>4. Tasks' = Tasks /\ (\A a : Live(a)' <=> Live(a)) /\ \A a, c : ToRun(c, a)' <=> ToRun(c, a)
      BY <3>1 DEF Tasks, Live, ToRun
    <3>5. Due' = Due
      BY <3>4 DEF Due
    <3>6. BlocksScanned'
      BY <2>2, <3>1, <3>4, SameParts DEF CompletionInv, BlocksScanned, ToScan, Looking, Late
    <3>7. ClosedTasks'
      BY <2>2, <3>1, <3>4 DEF Unclaimed, Size, Program, Input, CompletionInv, ClosedTasks
    <3>8. ArraysScanned' /\ OneTaskOfOuter' /\ PendingCountsTasks' /\ FinishedMeansScanned'
      BY <2>2, <3>1, <3>3, <3>4, <3>5, SameTasksDue
    <3>9. QED
      BY <3>3, <3>6, <3>7, <3>8 DEF CompletionInv
  <2>3. QED
    BY <2>1, <2>2 DEF Next
<1>3. Inv => CompletionInv
  OBVIOUS
<1>4. QED
  BY <1>1, <1>2, <1>3, PTL DEF Spec

=============================================================================
