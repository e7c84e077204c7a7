--------------------------- MODULE ReductionProofs ---------------------------
(***************************************************************************)
(* The division of static_parallel and is_prime, for every input.  Then    *)
(* the invariant of Reduction and the theorem that the counter is complete *)
(* when the pool is finished or the threads are joined, for every number   *)
(* of threads, block size and length.                                      *)
(***************************************************************************)
EXTENDS Reduction, Primes, FiniteSetTheorems, TLAPS

-----------------------------------------------------------------------------
(* The division of static_parallel.                                         *)

(* Division with a remainder.                                              *)
LEMMA DivMod ==
  ASSUME NEW n \in Nat \ {0}, NEW a \in Nat
  PROVE  a \div n \in Nat /\ a % n \in 0 .. n - 1 /\ a = (a \div n) * n + (a % n)
OBVIOUS

(* a \div n against i is a against a multiple of n.                        *)
LEMMA DivCompare ==
  ASSUME NEW n \in Nat \ {0}, NEW a \in Nat, NEW i \in Nat
  PROVE  a \div n <= i <=> a < (i + 1) * n
<1>1. a = (a \div n) * n + (a % n) /\ a % n \in 0 .. n - 1 /\ a \div n \in Nat
  BY DivMod
<1>2. ASSUME a \div n <= i PROVE a < (i + 1) * n
  BY <1>1, <1>2
<1>3. ASSUME a \div n >= i + 1 PROVE a >= (i + 1) * n
  BY <1>1, <1>3
<1>4. QED
  BY <1>1, <1>2, <1>3

(* static_parallel: each element is in the range of one thread, also when  *)
(* the number of elements is not a multiple of the number of threads, or   *)
(* less than that.                                                         *)
THEOREM StaticRangesPartition ==
  ASSUME NEW thread_count \in Nat \ {0}, NEW count \in Nat,
         NEW e \in 0 .. count - 1
  PROVE  /\ \E t \in 0 .. thread_count - 1 : e \in StaticRange(t, count, thread_count)
         /\ \A t, u \in 0 .. thread_count - 1 :
              e \in StaticRange(t, count, thread_count) /\ e \in StaticRange(u, count, thread_count)
                => t = u
<1> DEFINE last == (e + 1) * thread_count - 1
<1>1. last \in Nat
  BY DEF last
<1>2. ASSUME NEW t \in Nat
      PROVE  e \in StaticRange(t, count, thread_count)
               <=> t * count <= last /\ last < (t + 1) * count
  <2>1. t * count \in Nat /\ (t + 1) * count \in Nat
    OBVIOUS
  <2>2. (t * count) \div thread_count \in Int /\ ((t + 1) * count) \div thread_count \in Int
    BY <2>1
  <2>3. (t * count) \div thread_count <= e <=> t * count < (e + 1) * thread_count
    BY <2>1, DivCompare
  <2>4. ((t + 1) * count) \div thread_count <= e <=> (t + 1) * count < (e + 1) * thread_count
    BY <2>1, DivCompare
  <2>5. (e + 1) * thread_count \in Nat
    OBVIOUS
  <2>6. QED
    BY <2>1, <2>2, <2>3, <2>4, <2>5 DEF StaticRange, RangeStart
<1>3. ASSUME NEW t \in Nat
      PROVE  t * count <= last /\ last < (t + 1) * count <=> t = last \div count
  <2> HIDE DEF last
  <2>1. last = (last \div count) * count + (last % count)
          /\ last % count \in 0 .. count - 1 /\ last \div count \in Nat
    BY <1>1, DivMod
  <2>2. QED
    BY <2>1, <1>1
<1>4. last \div count \in 0 .. thread_count - 1
  <2>1. last < thread_count * count
    OBVIOUS
  <2>2. last \div count <= thread_count - 1 /\ last \div count \in Nat
    <3> HIDE DEF last
    <3>1. QED
      BY <1>1, <2>1, DivCompare
  <2>3. QED
    BY <2>2
<1>5. QED
  BY <1>2, <1>3, <1>4

-----------------------------------------------------------------------------
(* The function that is counted with.                                      *)

(* What divides a number leaves no remainder, and the other way around.    *)
LEMMA Divides ==
  ASSUME NEW d \in Nat \ {0}, NEW a \in Nat
  PROVE  a % d = 0 <=> \E e \in Nat : a = d * e
<1>1. a = (a \div d) * d + (a % d) /\ a % d \in 0 .. d - 1 /\ a \div d \in Nat
  BY DivMod
<1>2. ASSUME a % d = 0 PROVE a = d * (a \div d)
  BY <1>1, <1>2
<1>3. ASSUME NEW e \in Nat, a = d * e PROVE a % d = 0
  <2> DEFINE q == a \div d
             r == a % d
  <2>1. q \in Nat /\ r \in 0 .. d - 1 /\ d * e = q * d + r
    BY <1>1, <1>3
  <2> HIDE DEF q, r
  <2>2. q <= e
    BY <2>1
  <2>3. q >= e
    BY <2>1
  <2>4. r = 0
    BY <2>1, <2>2, <2>3
  <2>5. QED
    BY <2>4 DEF r
<1>4. QED
  BY <1>1, <1>2, <1>3

(* The smaller of two factors is at most the square root, and a factor of  *)
(* an odd number is odd.                                                   *)
LEMMA SmallFactor ==
  ASSUME NEW a \in Nat, a % 2 # 0, NEW d \in 2 .. a, NEW e \in 2 .. a,
         a = d * e, d <= e
  PROVE  d \in 3 .. a /\ d % 2 = 1 /\ d * d <= a /\ a % d = 0
<1>1. d * d <= a
  OBVIOUS
<1>2. a % d = 0
  <2>1. d \in Nat \ {0} /\ e \in Nat
    OBVIOUS
  <2>2. QED
    BY <2>1, Divides
<1>3. d % 2 # 0
  <2>1. ASSUME d % 2 = 0 PROVE FALSE
    <3>1. PICK k \in Nat : d = 2 * k
      BY <2>1, Divides
    <3>2. a = 2 * (k * e) /\ k * e \in Nat
      BY <3>1
    <3>3. QED
      BY <3>2, Divides
  <2>2. QED
    BY <2>1
<1>4. d % 2 = 1 /\ d # 2
  BY <1>3
<1>5. QED
  BY <1>1, <1>2, <1>4

(* is_prime is right for every number from 2 on, where the programs start  *)
(* to count: no prime is missed, although only odd factors up to the       *)
(* square root are tried.                                                  *)
THEOREM PrimesRecognised ==
  ASSUME NEW input \in Nat, input >= 2
  PROVE  is_prime(input) <=> \A d \in 2 .. input - 1 : input % d # 0
<1>1. ASSUME \A d \in 2 .. input - 1 : input % d # 0 PROVE is_prime(input)
  <2>1. input % 2 # 0 \/ input = 2
    BY <1>1
  <2>2. ASSUME NEW factor \in 3 .. input, factor * factor <= input
        PROVE  input % factor # 0
    <3>1. factor <= input - 1
      BY <2>2
    <3>2. QED
      BY <1>1, <3>1
  <2>3. QED
    BY <2>1, <2>2 DEF is_prime
<1>2. ASSUME is_prime(input), NEW d \in 2 .. input - 1, input % d = 0 PROVE FALSE
  <2>1. input % 2 # 0
    BY <1>2 DEF is_prime
  <2>2. PICK e \in Nat : input = d * e
    BY <1>2, Divides
  <2>3. e \in 2 .. input
    <3>1. e # 0 /\ e # 1
      BY <2>2
    <3>2. e <= input
      BY <2>2
    <3>3. QED
      BY <3>1, <3>2
  <2>4. CASE d <= e
    <3>1. d \in 2 .. input
      OBVIOUS
    <3>2. d \in 3 .. input /\ d % 2 = 1 /\ d * d <= input /\ input % d = 0
      BY <2>1, <2>2, <2>3, <2>4, <3>1, SmallFactor
    <3>3. QED
      BY <1>2, <3>2 DEF is_prime
  <2>5. CASE e <= d
    <3>1. input = e * d /\ d \in 2 .. input
      BY <2>2
    <3>2. e \in 3 .. input /\ e % 2 = 1 /\ e * e <= input /\ input % e = 0
      BY <2>1, <2>3, <2>5, <3>1, SmallFactor
    <3>3. QED
      BY <1>2, <3>2 DEF is_prime
  <2>6. QED
    BY <2>3, <2>4, <2>5
<1>3. QED
  BY <1>1, <1>2

-----------------------------------------------------------------------------
(* The blocks.                                                             *)

(* The smaller of two numbers.                                             *)
LEMMA MinOfTwo ==
  ASSUME NEW a \in Int, NEW b \in Int
  PROVE  Min({a, b}) = IF a <= b THEN a ELSE b
<1>1. \E x \in {a, b} : \A y \in {a, b} : x <= y
  OBVIOUS
<1>2. Min({a, b}) \in {a, b} /\ \A y \in {a, b} : Min({a, b}) <= y
  BY <1>1 DEF Min
<1>3. QED
  BY <1>2

(* Block c starts within the input if and only if it is one of the chunks, *)
(* also when the last block is not a whole one.                            *)
LEMMA BlockCount ==
  ASSUME NEW n \in Nat
  PROVE  Size(n) \in Nat /\ \A c \in Nat : c < Size(n) <=> c * BlockSize < n
<1>1. BlockSize \in Nat \ {0}
  BY ReductionAssumption
<1>2. Size(n) \in Nat
  BY <1>1, DivMod DEF Size
<1>3. ASSUME NEW c \in Nat PROVE c < Size(n) <=> c * BlockSize < n
  <2>1. Size(n) <= c <=> n + BlockSize - 1 < (c + 1) * BlockSize
    BY <1>1, DivCompare DEF Size
  <2>2. (c + 1) * BlockSize = c * BlockSize + BlockSize /\ c * BlockSize \in Nat
    BY <1>1
  <2>3. QED
    BY <1>1, <1>2, <2>1, <2>2
<1>4. QED
  BY <1>2, <1>3

(* The elements of a block.                                                *)
LEMMA BlockElements ==
  ASSUME length \in Nat, NEW c \in Nat, NEW e \in Int
  PROVE  e \in Block(c) <=> e \in Elements /\ c * BlockSize <= e /\ e < (c + 1) * BlockSize
<1>1. c * BlockSize \in Nat /\ (c + 1) * BlockSize \in Nat
  BY ReductionAssumption
<1> DEFINE low == c * BlockSize
           high == (c + 1) * BlockSize
<1>2. Min({high, length}) = IF high <= length THEN high ELSE length
  BY <1>1, MinOfTwo
<1>3. Block(c) = low .. Min({high, length}) - 1 /\ low \in Nat /\ high \in Nat
  BY <1>1 DEF Block
<1> HIDE DEF low, high
<1>4. e \in Block(c) <=> e \in Elements /\ low <= e /\ e < high
  BY <1>2, <1>3 DEF Elements
<1>5. QED
  BY <1>4 DEF low, high

(* The block of an element, and no other, has it.                          *)
LEMMA BlockOfElement ==
  ASSUME length \in Nat, NEW e \in Elements
  PROVE  /\ e \div BlockSize \in Blocks
         /\ \A c \in Nat : e \in Block(c) <=> c = e \div BlockSize
<1> DEFINE b == e \div BlockSize
<1>1. BlockSize \in Nat \ {0} /\ e \in Nat /\ e < length
  BY ReductionAssumption DEF Elements
<1>2. b \in Nat
  BY <1>1, DivMod
<1>3. ASSUME NEW c \in Nat
      PROVE  c * BlockSize <= e /\ e < (c + 1) * BlockSize <=> c = b
  <2>1. b <= c <=> e < (c + 1) * BlockSize
    BY <1>1, DivCompare
  <2>2. c <= b <=> c * BlockSize <= e
    <3>1. CASE c = 0
      BY <1>1, <1>2, <3>1
    <3>2. CASE c # 0
      <4>1. c - 1 \in Nat /\ c - 1 + 1 = c
        BY <3>2
      <4>2. b <= c - 1 <=> e < (c - 1 + 1) * BlockSize
        BY <1>1, <4>1, DivCompare
      <4>3. c * BlockSize \in Nat
        BY <1>1
      <4> HIDE DEF b
      <4>4. QED
        BY <1>1, <1>2, <4>1, <4>2, <4>3
    <3>3. QED
      BY <3>1, <3>2
  <2> HIDE DEF b
  <2>3. QED
    BY <1>1, <1>2, <2>1, <2>2
<1> HIDE DEF b
<1>4. \A c \in Nat : e \in Block(c) <=> c = b
  BY <1>1, <1>3, BlockElements
<1>5. b \in Blocks
  <2>1. b * BlockSize <= e /\ b * BlockSize \in Nat
    BY <1>1, <1>2, <1>3
  <2>2. b * BlockSize < length
    BY <1>1, <2>1
  <2>3. b < Size(length) /\ Size(length) \in Nat
    BY <1>2, <2>2, BlockCount
  <2>4. QED
    BY <1>2, <2>3 DEF Blocks
<1>6. QED
  BY <1>4, <1>5 DEF b

(* A block that can be claimed has an element, and no index beyond the     *)
(* input.                                                                  *)
LEMMA BlockInInput ==
  ASSUME length \in Nat, NEW c \in Blocks
  PROVE  c \in Nat /\ Block(c) # {} /\ Block(c) \subseteq Elements
<1>1. c \in Nat /\ c * BlockSize < length
  BY BlockCount DEF Blocks
<1>2. c * BlockSize \in Nat /\ c * BlockSize < (c + 1) * BlockSize
  BY <1>1, ReductionAssumption
<1>3. c * BlockSize \in Block(c)
  BY <1>1, <1>2, BlockElements DEF Elements
<1>4. ASSUME NEW e \in Block(c) PROVE e \in Elements
  <2>1. e \in Int
    BY <1>1, <1>2, MinOfTwo DEF Block
  <2>2. QED
    BY <1>1, <1>4, <2>1, BlockElements
<1>5. QED
  BY <1>1, <1>3, <1>4

(* On the pool an element waits until its block is claimed and run.        *)
LEMMA WaitingOnPool ==
  ASSUME length \in Nat, OnPool, NEW e \in Elements
  PROVE  Waiting(e) <=>
           \/ e \div BlockSize \notin claimed[length]
           \/ \E t \in Threads : pc[t] = "run" /\ chunk[t] = e \div BlockSize
<1>1. \A c \in Blocks : c \in Nat
  BY BlockInInput
<1>2. /\ e \div BlockSize \in Blocks
      /\ \A c \in Blocks : e \in Block(c) <=> c = e \div BlockSize
  BY <1>1, BlockOfElement
<1>3. DOMAIN claimed = {length} /\ \A t \in Threads : pc[t] # "static"
  BY DEF OnPool
<1>4. QED
  BY <1>2, <1>3 DEF Waiting, Blocks

(* The same of the next state.                                             *)
LEMMA WaitingOnPoolNext ==
  ASSUME length \in Nat, length' = length, OnPool', NEW e \in Elements
  PROVE  Waiting(e)' <=>
           \/ e \div BlockSize \notin claimed'[length]
           \/ \E t \in Threads : pc'[t] = "run" /\ chunk'[t] = e \div BlockSize
<1>1. \A c \in Blocks : c \in Nat
  BY BlockInInput
<1>2. /\ e \div BlockSize \in Blocks
      /\ \A c \in Blocks : e \in Block(c) <=> c = e \div BlockSize
  BY <1>1, BlockOfElement
<1>3. DOMAIN claimed' = {length} /\ \A t \in Threads : pc'[t] # "static"
  BY DEF OnPool
<1>4. \A c : Block(c)' = Block(c)
  BY DEF Block
<1>5. QED
  BY <1>2, <1>3, <1>4 DEF Waiting, Blocks

-----------------------------------------------------------------------------
(* What the invariant says of the next state when nothing is counted: the  *)
(* elements of the chunks that are run are still in the input, and each    *)
(* element is still in one place if the same elements wait.                *)
LEMMA NothingCounted ==
  ASSUME TypeOK, LocalCounts, UNCHANGED sumVars, OnPool', BlockOwned',
         queued' \subseteq {length}, open' \subseteq {length}, is_finished' \in BOOLEAN,
         pc' \in [Threads -> PoolLabels \cup {"run", "static", "add", "finish"}],
         task' \in [Threads -> {length, NoTask}], chunk' \in [Threads -> Int]
  PROVE  TypeOK'
<1>1. length \in Nat /\ length' = length
  BY ReductionAssumption DEF TypeOK, sumVars
<1>2. Elements' = Elements /\ Blocks' = Blocks /\ \A c : Block(c)' = Block(c)
  BY <1>1 DEF Elements, Blocks, Block
<1>3. ASSUME NEW t \in Threads, pc'[t] = "run"
      PROVE  Block(chunk'[t]) # {} /\ Block(chunk'[t]) \subseteq Elements
  <2>1. chunk'[t] \in claimed'[length]
    BY <1>1, <1>3 DEF BlockOwned
  <2>2. chunk'[t] \in Blocks
    BY <1>1, <1>2, <2>1 DEF OnPool
  <2>3. QED
    BY <1>1, <2>2, BlockInInput
<1>4. \A t \in Threads :
        pc'[t] = "run" => Block(chunk[t])' # {} /\ Block(chunk[t])' \subseteq Elements
  BY <1>1, <1>3 DEF Block
<1>5. QED
  BY <1>1, <1>2, <1>4 DEF TypeOK, sumVars

(* Nothing is counted, and the same elements wait.                         *)
LEMMA SameWaiting ==
  ASSUME ElementOnce, UNCHANGED sumVars,
         \A e \in Elements : Waiting(e)' <=> Waiting(e)
  PROVE  ElementOnce'
<1>1. Elements' = Elements /\ counter' = counter
  BY DEF sumVars, Elements
<1>2. \A e : Holders(e)' = Holders(e)
  BY DEF sumVars, Holders
<1>3. SUFFICES ASSUME NEW e \in Elements
      PROVE  \/ Waiting(e)' /\ Holders(e) = {} /\ counter[e] = 0
             \/ /\ ~Waiting(e)' /\ counter[e] = 0
                /\ \E t \in Threads : Holders(e) = {t} /\ local_count'[t][e] = 1
             \/ ~Waiting(e)' /\ Holders(e) = {} /\ counter[e] = 1
  BY <1>1, <1>2 DEF ElementOnce
<1>4. local_count' = local_count
  BY DEF sumVars
<1>5. QED
  BY <1>4 DEF ElementOnce

(* A thread counts the elements of a chunk, which no longer wait.          *)
LEMMA WaitingCounted ==
  ASSUME TypeOK, ElementOnce, NEW t \in Threads, NEW S, CountLocally(t, S),
         UNCHANGED <<length, counter>>,
         \A e \in Elements : /\ e \in S => Waiting(e) /\ ~Waiting(e)'
                             /\ e \notin S => (Waiting(e)' <=> Waiting(e))
  PROVE  /\ ElementOnce' /\ local_count' \in [Threads -> [Elements -> Nat]]
         /\ \A u \in Threads \ {t} : local_count'[u] = local_count[u]
<1>1. Elements' = Elements
  BY DEF Elements
<1>2. /\ \A u \in Threads \ {t} : local_count'[u] = local_count[u]
      /\ local_count'[t] = [e \in Elements |-> local_count[t][e] + IF e \in S THEN 1 ELSE 0]
  BY DEF CountLocally, TypeOK
<1>3. local_count' \in [Threads -> [Elements -> Nat]]
  <2>1. \A u \in Threads : local_count[u] \in [Elements -> Nat]
    BY DEF TypeOK
  <2>2. local_count'[t] \in [Elements -> Nat]
    BY <1>2, <2>1
  <2>3. \A u \in Threads : local_count'[u] \in [Elements -> Nat]
    BY <1>2, <2>1, <2>2
  <2>4. local_count' = [u \in Threads |-> local_count'[u]]
    BY DEF CountLocally, TypeOK
  <2>5. QED
    BY <2>3, <2>4
<1>4. ASSUME NEW e \in Elements
      PROVE  \/ Waiting(e)' /\ Holders(e)' = {} /\ counter[e] = 0
             \/ /\ ~Waiting(e)' /\ counter[e] = 0
                /\ \E u \in Threads : Holders(e)' = {u} /\ local_count'[u][e] = 1
             \/ ~Waiting(e)' /\ Holders(e)' = {} /\ counter[e] = 1
  <2>1. CASE e \in S
    <3>1. Waiting(e) /\ ~Waiting(e)'
      BY <2>1
    <3>2. Holders(e) = {} /\ counter[e] = 0
      BY <3>1 DEF ElementOnce
    <3>3. local_count[t][e] = 0
      BY <3>2 DEF Holders
    <3>4. local_count'[t][e] = 1
      BY <1>2, <2>1, <3>3
    <3>5. \A u \in Threads \ {t} : local_count'[u][e] = 0
      BY <1>2, <3>2 DEF Holders
    <3>6. Holders(e)' = {t}
      BY <3>4, <3>5 DEF Holders
    <3>7. QED
      BY <3>1, <3>2, <3>4, <3>6
  <2>2. CASE e \notin S
    <3>1. Waiting(e)' <=> Waiting(e)
      BY <2>2
    <3>2. local_count[t][e] \in Nat
      BY DEF TypeOK
    <3>3. \A u \in Threads : local_count'[u][e] = local_count[u][e]
      BY <1>2, <2>2, <3>2
    <3>4. Holders(e)' = Holders(e)
      BY <3>3 DEF Holders
    <3>5. QED
      BY <3>1, <3>3, <3>4 DEF ElementOnce
  <2>3. QED
    BY <2>1, <2>2
<1>5. ElementOnce'
  BY <1>1, <1>4 DEF ElementOnce
<1>6. QED
  BY <1>2, <1>3, <1>5

(* A thread adds its local count to the counter.                           *)
LEMMA LocalAdded ==
  ASSUME TypeOK, ElementOnce, NEW t \in Threads, length' = length,
         counter' = [e \in Elements |-> counter[e] + local_count[t][e]],
         local_count' = [local_count EXCEPT ![t] = Nothing],
         \A e \in Elements : Waiting(e)' <=> Waiting(e)
  PROVE  /\ ElementOnce' /\ counter' \in [Elements -> Nat]
         /\ local_count' \in [Threads -> [Elements -> Nat]]
<1>1. Elements' = Elements
  BY DEF Elements
<1>2. local_count \in [Threads -> [Elements -> Nat]] /\ counter \in [Elements -> Nat]
  BY DEF TypeOK
<1>3. counter' \in [Elements -> Nat] /\ local_count' \in [Threads -> [Elements -> Nat]]
  BY <1>2 DEF Nothing
<1>4. ASSUME NEW e \in Elements
      PROVE  \/ Waiting(e)' /\ Holders(e)' = {} /\ counter'[e] = 0
             \/ /\ ~Waiting(e)' /\ counter'[e] = 0
                /\ \E u \in Threads : Holders(e)' = {u} /\ local_count'[u][e] = 1
             \/ ~Waiting(e)' /\ Holders(e)' = {} /\ counter'[e] = 1
  <2>1. /\ local_count'[t][e] = 0
        /\ \A u \in Threads \ {t} : local_count'[u][e] = local_count[u][e]
        /\ counter'[e] = counter[e] + local_count[t][e]
    BY <1>2 DEF Nothing
  <2>2. Holders(e)' = Holders(e) \ {t}
    BY <2>1 DEF Holders
  <2>3. t \notin Holders(e) <=> local_count[t][e] = 0
    BY DEF Holders
  <2>4. counter[e] \in Nat
    BY <1>2
  <2>5. CASE t \in Holders(e)
    <3>1. ~Waiting(e) /\ counter[e] = 0 /\ Holders(e) = {t} /\ local_count[t][e] = 1
      BY <2>5 DEF ElementOnce
    <3>2. QED
      BY <2>1, <2>2, <3>1
  <2>6. CASE t \notin Holders(e)
    <3>1. Holders(e)' = Holders(e) /\ counter'[e] = counter[e]
      BY <2>1, <2>2, <2>3, <2>4, <2>6
    <3>2. \A u \in Threads : Holders(e) = {u} => local_count'[u][e] = local_count[u][e]
      BY <2>1, <2>6
    <3>3. QED
      BY <3>1, <3>2 DEF ElementOnce
  <2>7. QED
    BY <2>5, <2>6
<1>5. ElementOnce'
  BY <1>1, <1>4 DEF ElementOnce
<1>6. QED
  BY <1>3, <1>5

-----------------------------------------------------------------------------
(* The invariant of the version with a pool.                               *)
PoolInv == /\ TypeOK /\ OnPool /\ BlockOwned /\ Stages /\ LocalCounts /\ ElementOnce

(* A thread takes the task, alone.                                         *)
LEMMA StartSums ==
  ASSUME PoolInv, NEW t \in Threads, StartSingle(t) \/ StartLoop(t), UNCHANGED sumVars
  PROVE  PoolInv'
<1> USE DEF PoolInv
<1>1. length \in Nat /\ NoTask # length /\ length' = length
  BY ReductionAssumption DEF TypeOK, NoTask, sumVars
<1>2. /\ pc[t] = "idle" /\ queued = {length} /\ queued' = {}
      /\ task' = [task EXCEPT ![t] = length]
      /\ is_finished' = is_finished
  BY DEF StartSingle, StartLoop, TypeOK
<1>3. /\ \A u \in Threads : pc[u] = "idle"
      /\ claimed[length] = {} /\ open = {} /\ ~is_finished
  BY <1>2 DEF Stages
<1>4. \/ /\ Size(length) = 0 /\ pc' = [pc EXCEPT ![t] = "finish"]
         /\ UNCHANGED <<open, claimed, chunk>>
      \/ /\ Size(length) > 0 /\ pc' = [pc EXCEPT ![t] = "run"] /\ open' = {length}
         /\ claimed' = [claimed EXCEPT ![length] = {0}] /\ chunk' = [chunk EXCEPT ![t] = 0]
      \/ /\ pc' = [pc EXCEPT ![t] = "claim"] /\ open' = {length}
         /\ claimed' = claimed /\ chunk' = [chunk EXCEPT ![t] = NoChunk]
  BY <1>2, <1>3 DEF StartSingle, StartLoop, TypeOK, Goto, Hold, Exit, EntryLabel, Entry,
    LoopLabel, NoChunk
<1>5. Elements' = Elements /\ Blocks' = Blocks /\ Size(length) \in Nat
  BY <1>1, BlockCount DEF Elements, Blocks
<1>6. pc' \in [Threads -> PoolLabels \cup {"run", "static", "add", "finish"}]
  BY <1>4 DEF TypeOK, PoolLabels
<1>7. /\ task' \in [Threads -> {length, NoTask}] /\ chunk' \in [Threads -> Int]
      /\ open' \subseteq {length}
  BY <1>2, <1>3, <1>4 DEF TypeOK, NoChunk
<1>8. claimed' \in [{length} -> SUBSET Blocks] /\ (claimed'[length] = {0} => Size(length) > 0)
  <2>1. claimed \in [{length} -> SUBSET Blocks]
    BY DEF OnPool
  <2>2. QED
    BY <1>3, <1>4, <1>5, <2>1 DEF Blocks
<1>9. OnPool'
  <2>1. ASSUME NEW u \in Threads
        PROVE  /\ pc'[u] # "static" /\ pc'[u] # "returned"
               /\ task'[u] = NoTask <=> pc'[u] \in {"idle", "returned"}
    BY <1>1, <1>2, <1>3, <1>4 DEF OnPool, TypeOK
  <2>2. QED
    BY <1>1, <1>5, <1>8, <2>1 DEF OnPool
<1>10. /\ \A u \in Threads \ {t} : pc'[u] = "idle"
       /\ pc'[t] = "run" => chunk'[t] = 0 /\ claimed'[length] = {0}
       /\ pc'[t] # "run" => claimed'[length] = {}
  BY <1>3, <1>4 DEF TypeOK, OnPool
<1>11. BlockOwned'
  BY <1>1, <1>10 DEF BlockOwned
<1>12. Stages'
  <2>1. \A u \in Threads : pc'[u] = "finish" => u = t
    BY <1>10
  <2>2. \A u \in Threads \ {t} : task'[u] = NoTask
    BY <1>2, <1>3 DEF OnPool
  <2>3. pc'[t] \in {"claim", "run"} \/ (pc'[t] = "finish" /\ Blocks = {} /\ open' = {})
    BY <1>3, <1>4, <1>5 DEF TypeOK, Blocks
  <2>4. claimed'[length] # Blocks => pc'[t] \in {"claim", "run"}
    BY <1>8, <2>3
  <2>5. open' # {} => \A u \in Threads : pc'[u] \notin {"add", "leave", "finish", "returned"}
    BY <1>10, <2>3
  <2>6. QED
    BY <1>1, <1>2, <1>3, <1>5, <2>1, <2>2, <2>4, <2>5 DEF Stages
<1>13. LocalCounts' /\ TypeOK'
  <2>1. \A u \in Threads : local_count'[u] = Nothing /\ Nothing' = Nothing
    BY <1>3, <1>5 DEF LocalCounts, sumVars, Nothing
  <2>2. LocalCounts'
    BY <2>1 DEF LocalCounts
  <2>3. is_finished' \in BOOLEAN
    BY <1>2 DEF TypeOK
  <2>4. QED
    BY <1>2, <1>6, <1>7, <1>9, <1>11, <2>2, <2>3, NothingCounted
<1>14. ElementOnce'
  <2>1. ASSUME NEW e \in Elements PROVE Waiting(e)' <=> Waiting(e)
    <3>1. Waiting(e)
      BY <1>1, <1>3, WaitingOnPool
    <3>2. e \div BlockSize \notin claimed'[length]
            \/ \E u \in Threads : pc'[u] = "run" /\ chunk'[u] = e \div BlockSize
      BY <1>10
    <3>3. Waiting(e)'
      BY <1>1, <1>9, <3>2, WaitingOnPoolNext
    <3>4. QED
      BY <3>1, <3>3
  <2>2. QED
    BY <2>1, SameWaiting
<1>15. QED
  BY <1>9, <1>11, <1>12, <1>13, <1>14

(* A thread joins the task while it is open.                               *)
LEMMA JoinSums ==
  ASSUME PoolInv, NEW t \in Threads, JoinTask(t), UNCHANGED sumVars
  PROVE  PoolInv'
<1> USE DEF PoolInv
<1>1. length \in Nat /\ NoTask # length /\ length' = length
  BY ReductionAssumption DEF TypeOK, NoTask, sumVars
<1>2. /\ pc[t] = "idle" /\ open = {length}
      /\ task' = [task EXCEPT ![t] = length]
      /\ chunk' = [chunk EXCEPT ![t] = NoChunk]
      /\ UNCHANGED <<queued, open, claimed, is_finished>>
  <2>1. open \subseteq {length}
    BY DEF TypeOK
  <2>2. PICK o \in open : task' = [task EXCEPT ![t] = o] /\ Hold(t, NoChunk)
    BY DEF JoinTask
  <2>3. o = length /\ open = {length}
    BY <2>1, <2>2
  <2>4. QED
    BY <2>2, <2>3 DEF JoinTask, Hold
<1>3. \E l \in {"assist", "claim"} : pc' = [pc EXCEPT ![t] = l]
  BY DEF JoinTask, Goto, EntryLabel, Entry, LoopLabel
<1>4. /\ pc'[t] \in {"assist", "claim"} /\ \A u \in Threads \ {t} : pc'[u] = pc[u]
      /\ pc' \in [Threads -> PoolLabels \cup {"run", "static", "add", "finish"}]
  BY <1>3 DEF TypeOK, PoolLabels
<1>5. /\ task' \in [Threads -> {length, NoTask}] /\ chunk' \in [Threads -> Int]
      /\ task'[t] = length /\ \A u \in Threads \ {t} : task'[u] = task[u] /\ chunk'[u] = chunk[u]
  BY <1>2 DEF TypeOK, NoChunk
<1>6. queued = {} /\ ~is_finished /\ queued' = {} /\ ~is_finished'
  BY <1>2 DEF Stages
<1>7. Blocks' = Blocks /\ Nothing' = Nothing
  BY <1>1 DEF Elements, Blocks, Nothing
<1>8. OnPool'
  <2>1. ASSUME NEW u \in Threads
        PROVE  /\ pc'[u] # "static"
               /\ task'[u] = NoTask <=> pc'[u] \in {"idle", "returned"}
               /\ pc'[u] # "returned"
    BY <1>1, <1>4, <1>5, <1>6 DEF OnPool
  <2>2. claimed' \in [{length'} -> SUBSET Blocks']
    BY <1>1, <1>2, <1>7 DEF OnPool
  <2>3. QED
    BY <2>1, <2>2 DEF OnPool
<1>9. BlockOwned'
  <2>1. \A u \in Threads : pc'[u] = "run" => u # t /\ pc[u] = "run" /\ chunk'[u] = chunk[u]
    BY <1>4, <1>5
  <2>2. QED
    BY <1>1, <1>2, <2>1 DEF BlockOwned
<1>10. Stages'
  <2>1. \A u \in Threads : pc'[u] \notin {"add", "leave", "finish", "returned"}
    BY <1>2, <1>4 DEF Stages
  <2>2. QED
    BY <1>4, <1>6, <2>1 DEF Stages
<1>11. LocalCounts'
  BY <1>2, <1>4, <1>7 DEF LocalCounts, sumVars
<1>12. TypeOK'
  <2>1. queued' \subseteq {length} /\ open' \subseteq {length} /\ is_finished' \in BOOLEAN
    BY <1>2 DEF TypeOK
  <2>2. QED
    BY <1>4, <1>5, <1>8, <1>9, <2>1, NothingCounted
<1>13. ElementOnce'
  <2>1. \A u \in Threads : \A c : pc'[u] = "run" /\ chunk'[u] = c <=> pc[u] = "run" /\ chunk[u] = c
    BY <1>2, <1>4, <1>5
  <2>2. ASSUME NEW e \in Elements PROVE Waiting(e)' <=> Waiting(e)
    BY <1>1, <1>2, <1>8, <2>1, WaitingOnPool, WaitingOnPoolNext
  <2>3. QED
    BY <2>2, SameWaiting
<1>14. QED
  BY <1>8, <1>9, <1>10, <1>11, <1>12, <1>13

(* A thread claims a chunk that nobody claimed.                            *)
LEMMA ClaimSums ==
  ASSUME PoolInv, NEW t \in Threads, ClaimChunk(t), UNCHANGED sumVars
  PROVE  PoolInv'
<1> USE DEF PoolInv
<1>1. length \in Nat /\ NoTask # length /\ length' = length
  BY ReductionAssumption DEF TypeOK, NoTask, sumVars
<1>2. pc[t] \in {"assist", "claim"} /\ task[t] = length
  BY DEF ClaimChunk, OnPool, TypeOK
<1>3. PICK c \in Unclaimed(length) :
        /\ claimed' = [claimed EXCEPT ![length] = @ \cup {c}]
        /\ chunk' = [chunk EXCEPT ![t] = c]
        /\ Goto(t, IF pc[t] = "assist" THEN EntryLabel(length, c) ELSE "run")
  BY <1>2 DEF ClaimChunk, Hold
<1>4. c \in Blocks /\ c \in Nat /\ c \notin claimed[length] /\ c # NoChunk
  BY <1>1, <1>3, BlockInInput DEF Unclaimed, Blocks, NoChunk
<1>5. /\ pc' = [pc EXCEPT ![t] = "run"]
      /\ UNCHANGED <<queued, open, is_finished, task>>
  BY <1>3, <1>4 DEF ClaimChunk, Goto, EntryLabel, Entry, LoopLabel
<1>6. /\ pc'[t] = "run" /\ \A u \in Threads \ {t} : pc'[u] = pc[u]
      /\ pc' \in [Threads -> PoolLabels \cup {"run", "static", "add", "finish"}]
  BY <1>5 DEF TypeOK
<1>7. /\ chunk' \in [Threads -> Int] /\ task' \in [Threads -> {length, NoTask}]
      /\ chunk'[t] = c /\ \A u \in Threads \ {t} : chunk'[u] = chunk[u]
  BY <1>3, <1>4, <1>5 DEF TypeOK
<1>8. claimed' \in [{length} -> SUBSET Blocks] /\ claimed'[length] = claimed[length] \cup {c}
  BY <1>3, <1>4 DEF OnPool
<1>9. Blocks' = Blocks /\ Nothing' = Nothing
  BY <1>1 DEF Elements, Blocks, Nothing
<1>10. queued = {} /\ ~is_finished /\ queued' = {} /\ ~is_finished'
  BY <1>1, <1>2, <1>5 DEF Stages
<1>11. OnPool'
  <2>1. ASSUME NEW u \in Threads
        PROVE  /\ pc'[u] # "static"
               /\ task'[u] = NoTask <=> pc'[u] \in {"idle", "returned"}
               /\ pc'[u] # "returned"
    BY <1>1, <1>2, <1>5, <1>6, <1>10 DEF OnPool
  <2>2. QED
    BY <1>1, <1>8, <1>9, <2>1 DEF OnPool
<1>12. BlockOwned'
  <2>1. ASSUME NEW u \in Threads, pc'[u] = "run"
        PROVE  /\ chunk'[u] \in claimed'[length]
               /\ u # t => pc[u] = "run" /\ chunk'[u] = chunk[u] /\ chunk'[u] # c
    BY <1>4, <1>6, <1>7, <1>8, <2>1 DEF BlockOwned
  <2>2. ASSUME NEW u \in Threads, NEW v \in Threads \ {u}, pc'[u] = "run", pc'[v] = "run"
        PROVE  chunk'[v] # chunk'[u]
    BY <1>7, <2>1, <2>2 DEF BlockOwned
  <2>3. QED
    BY <1>1, <2>1, <2>2 DEF BlockOwned
<1>13. Stages'
  <2>1. open' # {} => \A u \in Threads : pc'[u] \notin {"add", "leave", "finish", "returned"}
    BY <1>5, <1>6 DEF Stages
  <2>2. ASSUME NEW u \in Threads, pc'[u] = "finish" PROVE FALSE
    BY <1>1, <1>2, <1>6, <2>2 DEF Stages
  <2>3. QED
    BY <1>6, <1>10, <2>1, <2>2 DEF Stages
<1>14. LocalCounts'
  BY <1>6, <1>9 DEF LocalCounts, sumVars
<1>15. TypeOK'
  <2>1. queued' \subseteq {length} /\ open' \subseteq {length} /\ is_finished' \in BOOLEAN
    BY <1>5 DEF TypeOK
  <2>2. QED
    BY <1>6, <1>7, <1>11, <1>12, <2>1, NothingCounted
<1>16. ElementOnce'
  <2>1. ASSUME NEW e \in Elements PROVE Waiting(e)' <=> Waiting(e)
    <3> DEFINE b == e \div BlockSize
    <3>1. Waiting(e) <=> b \notin claimed[length]
                           \/ \E u \in Threads : pc[u] = "run" /\ chunk[u] = b
      BY <1>1, WaitingOnPool
    <3>2. Waiting(e)' <=> b \notin claimed'[length]
                            \/ \E u \in Threads : pc'[u] = "run" /\ chunk'[u] = b
      BY <1>1, <1>11, WaitingOnPoolNext
    <3> HIDE DEF b
    <3>3. b # c => ((\E u \in Threads : pc'[u] = "run" /\ chunk'[u] = b)
                     <=> \E u \in Threads : pc[u] = "run" /\ chunk[u] = b)
      BY <1>2, <1>6, <1>7
    <3>4. QED
      BY <1>4, <1>6, <1>7, <1>8, <3>1, <3>2, <3>3
  <2>2. QED
    BY <2>1, SameWaiting
<1>17. QED
  BY <1>11, <1>12, <1>13, <1>14, <1>15, <1>16

(* No chunk is left for a thread: another is there if one is left at all.  *)
LEMMA EndLoopSums ==
  ASSUME PoolInv, NEW t \in Threads, EndLoop(t), UNCHANGED sumVars
  PROVE  PoolInv'
<1> USE DEF PoolInv
<1>1. length \in Nat /\ NoTask # length /\ length' = length
  BY ReductionAssumption DEF TypeOK, NoTask, sumVars
<1>2. pc[t] \in {"assist", "claim"} /\ task[t] = length
  BY DEF EndLoop, OnPool, TypeOK
<1>3. /\ open' = {} /\ chunk' = [chunk EXCEPT ![t] = NoChunk]
      /\ pc' = [pc EXCEPT ![t] = IF pc[t] = "assist" THEN "leave" ELSE "add"]
      /\ UNCHANGED <<queued, claimed, is_finished, task>>
  BY <1>2 DEF EndLoop, TypeOK, Hold, Goto, After
<1>4. /\ pc'[t] \in {"leave", "add"} /\ \A u \in Threads \ {t} : pc'[u] = pc[u]
      /\ pc[t] = "assist" => pc'[t] = "leave"
      /\ pc[t] = "claim" => pc'[t] = "add"
      /\ pc' \in [Threads -> PoolLabels \cup {"run", "static", "add", "finish"}]
  BY <1>3 DEF TypeOK, PoolLabels
<1>5. /\ chunk' \in [Threads -> Int] /\ task' \in [Threads -> {length, NoTask}]
      /\ \A u \in Threads \ {t} : chunk'[u] = chunk[u]
  BY <1>3 DEF TypeOK, NoChunk
<1>6. Blocks' = Blocks /\ Nothing' = Nothing
  BY <1>1 DEF Elements, Blocks, Nothing
<1>7. queued = {} /\ ~is_finished /\ queued' = {} /\ ~is_finished'
  BY <1>1, <1>2, <1>3 DEF Stages
<1>8. OnPool'
  <2>1. ASSUME NEW u \in Threads
        PROVE  /\ pc'[u] # "static"
               /\ task'[u] = NoTask <=> pc'[u] \in {"idle", "returned"}
               /\ pc'[u] # "returned"
    BY <1>1, <1>2, <1>3, <1>4, <1>7 DEF OnPool
  <2>2. claimed' \in [{length'} -> SUBSET Blocks']
    BY <1>1, <1>3, <1>6 DEF OnPool
  <2>3. QED
    BY <2>1, <2>2 DEF OnPool
<1>9. \A u \in Threads : pc'[u] = "run" <=> u # t /\ pc[u] = "run"
  BY <1>4
<1>10. BlockOwned'
  BY <1>1, <1>3, <1>5, <1>9 DEF BlockOwned
<1>11. Stages'
  <2>1. ASSUME NEW u \in Threads, pc'[u] = "finish" PROVE FALSE
    BY <1>1, <1>2, <1>4, <2>1 DEF Stages
  <2>2. ASSUME claimed'[length] # Blocks
        PROVE  \E u \in Threads : pc'[u] \in {"assist", "claim", "run"}
    <3>1. Unclaimed(task[t]) # {}
      BY <1>2, <1>3, <2>2 DEF Unclaimed, OnPool, Blocks
    <3>2. PICK u \in Others(t) : TRUE
      BY <3>1 DEF EndLoop
    <3>3. u \in Threads \ {t} /\ task[u] = length /\ pc[u] \notin {"leave", "add"}
      BY <1>2 DEF Others, After
    <3>4. pc[u] # "finish" /\ pc[u] \notin {"idle", "returned", "static"}
      BY <1>1, <1>2, <3>3 DEF OnPool, Stages
    <3>5. pc[u] \in {"assist", "claim", "run"}
      BY <3>3, <3>4 DEF TypeOK, PoolLabels
    <3>6. QED
      BY <1>4, <3>3, <3>5
  <2>3. QED
    BY <1>1, <1>3, <1>6, <1>7, <2>1, <2>2 DEF Stages
<1>12. LocalCounts'
  BY <1>2, <1>4, <1>6 DEF LocalCounts, sumVars
<1>13. TypeOK'
  <2>1. queued' \subseteq {length} /\ open' \subseteq {length} /\ is_finished' \in BOOLEAN
    BY <1>3 DEF TypeOK
  <2>2. QED
    BY <1>4, <1>5, <1>8, <1>10, <2>1, NothingCounted
<1>14. ElementOnce'
  <2>1. \A u \in Threads : \A c : pc'[u] = "run" /\ chunk'[u] = c <=> pc[u] = "run" /\ chunk[u] = c
    BY <1>2, <1>5, <1>9
  <2>2. ASSUME NEW e \in Elements PROVE Waiting(e)' <=> Waiting(e)
    BY <1>1, <1>3, <1>8, <2>1, WaitingOnPool, WaitingOnPoolNext
  <2>3. QED
    BY <2>2, SameWaiting
<1>15. QED
  BY <1>8, <1>10, <1>11, <1>12, <1>13, <1>14

(* A thread leaves the task, or is the last and goes on to finish it; or   *)
(* it sees the pool finished and returns.                                  *)
LEMMA LeaveSums ==
  ASSUME PoolInv, NEW t \in Threads, EndTask(t) \/ Return(t), UNCHANGED sumVars
  PROVE  PoolInv'
<1> USE DEF PoolInv
<1>1. length \in Nat /\ NoTask # length /\ length' = length
  BY ReductionAssumption DEF TypeOK, NoTask, sumVars
<1>2. UNCHANGED <<queued, open, claimed, is_finished, chunk>>
  BY DEF EndTask, Return
<1>3. \/ /\ pc[t] = "leave" /\ task[t] = length
         /\ pc' = [pc EXCEPT ![t] = "idle"] /\ task' = [task EXCEPT ![t] = NoTask]
      \/ /\ pc[t] = "leave" /\ task[t] = length
         /\ \A u \in Threads \ {t} : task[u] # length
         /\ pc' = [pc EXCEPT ![t] = "finish"] /\ task' = task
      \/ /\ pc[t] = "idle" /\ task[t] = NoTask /\ is_finished
         /\ pc' = [pc EXCEPT ![t] = "returned"] /\ task' = task
  <2>1. CASE EndTask(t)
    <3>1. pc[t] = "leave" /\ task[t] = length
      BY <2>1 DEF EndTask, OnPool, TypeOK
    <3>2. QED
      BY <2>1, <3>1 DEF EndTask, Leave, Goto, Exit
  <2>2. CASE Return(t)
    BY <2>2 DEF Return, Goto, OnPool
  <2>3. QED
    BY <2>1, <2>2
<1>4. /\ pc'[t] \in {"idle", "finish", "returned"}
      /\ \A u \in Threads \ {t} : pc'[u] = pc[u] /\ task'[u] = task[u]
      /\ pc' \in [Threads -> PoolLabels \cup {"run", "static", "add", "finish"}]
      /\ task' \in [Threads -> {length, NoTask}]
  BY <1>3 DEF TypeOK, PoolLabels
<1>5. /\ task'[t] = NoTask <=> pc'[t] # "finish"
      /\ pc'[t] = "finish" =>
           pc[t] = "leave" /\ \A u \in Threads \ {t} : task[u] = NoTask
      /\ pc'[t] = "returned" => is_finished
      /\ pc[t] \in {"idle", "leave"} /\ (pc[t] = "idle" => pc'[t] = "returned")
  BY <1>1, <1>3 DEF TypeOK
<1>6. chunk' \in [Threads -> Int] /\ \A u \in Threads : chunk'[u] = chunk[u]
  BY <1>2 DEF TypeOK
<1>7. Blocks' = Blocks /\ Nothing' = Nothing
  BY <1>1 DEF Elements, Blocks, Nothing
<1>8. queued = {}
  BY <1>3 DEF Stages
<1>9. OnPool'
  <2>1. ASSUME NEW u \in Threads
        PROVE  /\ pc'[u] # "static"
               /\ task'[u] = NoTask <=> pc'[u] \in {"idle", "returned"}
               /\ pc'[u] = "returned" => is_finished'
    BY <1>2, <1>4, <1>5 DEF OnPool
  <2>2. claimed' \in [{length'} -> SUBSET Blocks']
    BY <1>1, <1>2, <1>7 DEF OnPool
  <2>3. QED
    BY <2>1, <2>2 DEF OnPool
<1>10. \A u \in Threads : pc'[u] \in {"assist", "claim", "run", "add", "leave"}
         <=> u # t /\ pc[u] \in {"assist", "claim", "run", "add", "leave"}
  BY <1>4
<1>11. \A u \in Threads : pc'[u] = "run" <=> u # t /\ pc[u] = "run"
  BY <1>4
<1>12. BlockOwned'
  BY <1>1, <1>2, <1>6, <1>11 DEF BlockOwned
<1>13. Stages'
  <2>1. open = {} /\ open' = {}
    BY <1>2, <1>3 DEF Stages
  <2>2. ASSUME NEW u \in Threads, pc'[u] = "finish", NEW v \in Threads \ {u}
        PROVE  task'[v] = NoTask
    <3>1. CASE u = t
      BY <1>4, <1>5, <2>2, <3>1
    <3>2. CASE u # t
      <4>1. pc[u] = "finish"
        BY <1>4, <2>2, <3>2
      <4>2. task[t] = NoTask /\ task[v] = NoTask
        BY <2>2, <3>2, <4>1 DEF Stages
      <4>3. pc[t] # "leave"
        BY <4>2 DEF OnPool
      <4>4. task'[t] = NoTask
        BY <1>5, <4>3
      <4>5. QED
        BY <1>4, <4>2, <4>4
    <3>3. QED
      BY <3>1, <3>2
  <2>3. ASSUME claimed'[length] # Blocks
        PROVE  \E u \in Threads : pc'[u] \in {"assist", "claim", "run"}
    <3>1. PICK u \in Threads : pc[u] \in {"assist", "claim", "run"}
      BY <1>2, <1>8, <2>3 DEF Stages
    <3>2. u # t
      BY <1>5, <3>1
    <3>3. QED
      BY <1>4, <3>1, <3>2
  <2>4. is_finished' => \A u \in Threads : task'[u] = NoTask
    <3>1. SUFFICES ASSUME is_finished PROVE \A u \in Threads : task'[u] = NoTask
      BY <1>2
    <3>2. \A u \in Threads : task[u] = NoTask
      BY <3>1 DEF Stages
    <3>3. QED
      BY <1>1, <1>3, <3>2
  <2>5. queued' = {} /\ length' = length /\ Blocks' = Blocks
    BY <1>1, <1>2, <1>7, <1>8
  <2>6. QED
    BY <2>1, <2>2, <2>3, <2>4, <2>5 DEF Stages
<1>14. LocalCounts'
  BY <1>4, <1>5, <1>7 DEF LocalCounts, sumVars
<1>15. TypeOK'
  <2>1. queued' \subseteq {length} /\ open' \subseteq {length} /\ is_finished' \in BOOLEAN
    BY <1>2 DEF TypeOK
  <2>2. QED
    BY <1>4, <1>6, <1>9, <1>12, <2>1, NothingCounted
<1>16. ElementOnce'
  <2>1. \A u \in Threads : \A c : pc'[u] = "run" /\ chunk'[u] = c <=> pc[u] = "run" /\ chunk[u] = c
    BY <1>5, <1>6, <1>11
  <2>2. ASSUME NEW e \in Elements PROVE Waiting(e)' <=> Waiting(e)
    BY <1>1, <1>2, <1>9, <2>1, WaitingOnPool, WaitingOnPoolNext
  <2>3. QED
    BY <2>2, SameWaiting
<1>17. QED
  BY <1>9, <1>12, <1>13, <1>14, <1>15, <1>16

(* A thread runs its chunk: its elements wait no longer, for no other      *)
(* thread has the chunk, and no other chunk has them.                      *)
LEMMA RunSums ==
  ASSUME PoolInv, NEW t \in Threads, RunChunk(t)
  PROVE  PoolInv'
<1> USE DEF PoolInv
<1>1. length \in Nat /\ NoTask # length /\ length' = length
  BY ReductionAssumption DEF TypeOK, NoTask, RunChunk
<1>2. /\ pc[t] = "run" /\ pc' = [pc EXCEPT ![t] = "claim"]
      /\ CountLocally(t, Block(chunk[t])) /\ counter' = counter
      /\ UNCHANGED <<queued, open, claimed, is_finished, task, chunk>>
  BY DEF RunChunk, scheduling, Goto
<1>3. /\ pc'[t] = "claim" /\ \A u \in Threads \ {t} : pc'[u] = pc[u]
      /\ pc' \in [Threads -> PoolLabels \cup {"run", "static", "add", "finish"}]
  BY <1>2 DEF TypeOK, PoolLabels
<1>4. /\ Blocks' = Blocks /\ Elements' = Elements /\ Nothing' = Nothing
      /\ \A c : Block(c)' = Block(c)
  BY <1>1 DEF Elements, Blocks, Nothing, Block
<1>5. task[t] = length /\ queued = {} /\ ~is_finished
  BY <1>1, <1>2 DEF OnPool, Stages, TypeOK
<1>6. OnPool'
  <2>1. ASSUME NEW u \in Threads
        PROVE  /\ pc'[u] # "static" /\ pc'[u] # "returned"
               /\ task'[u] = NoTask <=> pc'[u] \in {"idle", "returned"}
    BY <1>1, <1>2, <1>3, <1>5 DEF OnPool
  <2>2. claimed' \in [{length'} -> SUBSET Blocks']
    BY <1>1, <1>2, <1>4 DEF OnPool
  <2>3. QED
    BY <2>1, <2>2 DEF OnPool
<1>7. \A u \in Threads : pc'[u] = "run" <=> u # t /\ pc[u] = "run"
  BY <1>3
<1>8. BlockOwned'
  BY <1>1, <1>2, <1>7 DEF BlockOwned
<1>9. Stages'
  <2>1. open' # {} => \A u \in Threads : pc'[u] \notin {"add", "leave", "finish", "returned"}
    BY <1>2, <1>3 DEF Stages
  <2>2. ASSUME NEW u \in Threads, pc'[u] = "finish" PROVE FALSE
    BY <1>1, <1>3, <1>5, <2>2 DEF Stages
  <2>3. QED
    BY <1>2, <1>3, <1>5, <2>1, <2>2 DEF Stages
<1> DEFINE c == chunk[t]
<1>10. c \in claimed[length] /\ c \in Blocks /\ c \in Nat
  <2>1. c \in claimed[length]
    BY <1>2 DEF BlockOwned
  <2>2. c \in Blocks
    BY <2>1 DEF OnPool
  <2>3. QED
    BY <1>1, <2>1, <2>2, BlockInInput
<1>11. ASSUME NEW e \in Elements
       PROVE  /\ e \in Block(c) => Waiting(e) /\ ~Waiting(e)'
              /\ e \notin Block(c) => (Waiting(e)' <=> Waiting(e))
  <2> DEFINE b == e \div BlockSize
  <2>1. e \in Block(c) <=> b = c
    BY <1>1, <1>10, BlockOfElement
  <2>2. Waiting(e) <=> b \notin claimed[length]
                         \/ \E u \in Threads : pc[u] = "run" /\ chunk[u] = b
    BY <1>1, WaitingOnPool
  <2>3. Waiting(e)' <=> b \notin claimed[length]
                          \/ \E u \in Threads : pc'[u] = "run" /\ chunk[u] = b
    BY <1>1, <1>2, <1>6, WaitingOnPoolNext
  <2> HIDE DEF b
  <2>4. ASSUME b = c PROVE Waiting(e) /\ ~Waiting(e)'
    <3>1. \A u \in Threads \ {t} : pc[u] = "run" => chunk[u] # c
      BY <1>2 DEF BlockOwned
    <3>2. QED
      BY <1>2, <1>7, <1>10, <2>2, <2>3, <2>4, <3>1
  <2>5. ASSUME b # c PROVE Waiting(e)' <=> Waiting(e)
    BY <1>7, <2>2, <2>3, <2>5
  <2>6. QED
    BY <2>1, <2>4, <2>5
<1>12. /\ ElementOnce' /\ local_count' \in [Threads -> [Elements -> Nat]]
       /\ \A u \in Threads \ {t} : local_count'[u] = local_count[u]
  <2> HIDE DEF c
  <2>1. UNCHANGED <<length, counter>> /\ CountLocally(t, Block(c))
    BY <1>1, <1>2 DEF c
  <2>2. QED
    BY <1>11, <2>1, WaitingCounted
<1>13. LocalCounts'
  BY <1>3, <1>4, <1>12 DEF LocalCounts
<1>14. TypeOK'
  <2>1. \A u \in Threads : pc'[u] = "run" =>
          Block(chunk[u])' # {} /\ Block(chunk[u])' \subseteq Elements
    BY <1>2, <1>4, <1>7 DEF TypeOK, Block
  <2>2. QED
    BY <1>1, <1>2, <1>3, <1>4, <1>12, <2>1 DEF TypeOK
<1>15. QED
  BY <1>6, <1>8, <1>9, <1>12, <1>13, <1>14

(* Adding a local count to the counter disturbs nothing else.              *)
LEMMA AddSums ==
  ASSUME PoolInv, NEW t \in Threads, AddLocal(t)
  PROVE  PoolInv'
<1> USE DEF PoolInv
<1>1. length \in Nat /\ NoTask # length /\ length' = length
  BY ReductionAssumption DEF TypeOK, NoTask, AddLocal
<1>2. pc[t] = "add" /\ task[t] = length
  BY DEF AddLocal, OnPool, TypeOK
<1>3. /\ pc' = [pc EXCEPT ![t] = "leave"]
      /\ UNCHANGED <<queued, open, claimed, is_finished, task, chunk>>
  BY <1>1, <1>2 DEF AddLocal, scheduling, Goto
<1>4. /\ pc'[t] = "leave" /\ \A u \in Threads \ {t} : pc'[u] = pc[u]
      /\ pc' \in [Threads -> PoolLabels \cup {"run", "static", "add", "finish"}]
  BY <1>3 DEF TypeOK, PoolLabels
<1>5. /\ Blocks' = Blocks /\ Elements' = Elements /\ Nothing' = Nothing
      /\ \A c : Block(c)' = Block(c)
  BY <1>1 DEF Elements, Blocks, Nothing, Block
<1>6. OnPool'
  <2>1. ASSUME NEW u \in Threads
        PROVE  /\ pc'[u] # "static"
               /\ task'[u] = NoTask <=> pc'[u] \in {"idle", "returned"}
               /\ pc'[u] = "returned" => is_finished'
    BY <1>1, <1>2, <1>3, <1>4 DEF OnPool
  <2>2. claimed' \in [{length'} -> SUBSET Blocks']
    BY <1>1, <1>3, <1>5 DEF OnPool
  <2>3. QED
    BY <2>1, <2>2 DEF OnPool
<1>7. \A u \in Threads : pc'[u] = "run" <=> pc[u] = "run"
  BY <1>2, <1>4
<1>8. BlockOwned'
  BY <1>1, <1>3, <1>7 DEF BlockOwned
<1>9. Stages'
  <2>1. queued = {} /\ open = {}
    BY <1>2 DEF Stages
  <2>2. \A u \in Threads : /\ pc'[u] = "finish" <=> pc[u] = "finish"
                           /\ pc'[u] \in {"assist", "claim", "run"}
                                <=> pc[u] \in {"assist", "claim", "run"}
    BY <1>2, <1>4
  <2>3. QED
    BY <1>1, <1>3, <1>5, <2>1, <2>2 DEF Stages
<1>10. \A e \in Elements : Waiting(e)' <=> Waiting(e)
  BY <1>1, <1>3, <1>6, <1>7, WaitingOnPool, WaitingOnPoolNext
<1>11. /\ counter' = [e \in Elements |-> counter[e] + local_count[t][e]]
       /\ local_count' = [local_count EXCEPT ![t] = Nothing]
  BY DEF AddLocal
<1>12. /\ ElementOnce' /\ counter' \in [Elements -> Nat]
       /\ local_count' \in [Threads -> [Elements -> Nat]]
  BY <1>1, <1>10, <1>11, LocalAdded
<1>13. LocalCounts'
  <2>1. local_count'[t] = Nothing /\ \A u \in Threads \ {t} : local_count'[u] = local_count[u]
    BY <1>11 DEF TypeOK
  <2>2. QED
    BY <1>4, <1>5, <2>1 DEF LocalCounts
<1>14. TypeOK'
  <2>1. \A u \in Threads : pc'[u] = "run" =>
          Block(chunk[u])' # {} /\ Block(chunk[u])' \subseteq Elements
    BY <1>3, <1>5, <1>7 DEF TypeOK, Block
  <2>2. QED
    BY <1>1, <1>3, <1>4, <1>5, <1>12, <2>1 DEF TypeOK
<1>15. QED
  BY <1>6, <1>8, <1>9, <1>12, <1>13, <1>14

(* The last thread finishes the pool when no other has the task.           *)
LEMMA FinishSums ==
  ASSUME PoolInv, NEW t \in Threads, FinishPool(t)
  PROVE  PoolInv'
<1> USE DEF PoolInv
<1>1. length \in Nat /\ NoTask # length /\ length' = length
  BY ReductionAssumption DEF TypeOK, NoTask, FinishPool, sumVars
<1>2. /\ pc[t] = "finish" /\ is_finished' = TRUE
      /\ pc' = [pc EXCEPT ![t] = "idle"] /\ task' = [task EXCEPT ![t] = NoTask]
      /\ UNCHANGED <<queued, open, claimed, chunk>> /\ UNCHANGED sumVars
  BY DEF FinishPool, Finish, Leave, Goto, scheduling
<1>3. /\ pc'[t] = "idle" /\ \A u \in Threads \ {t} : pc'[u] = pc[u]
      /\ pc' \in [Threads -> PoolLabels \cup {"run", "static", "add", "finish"}]
      /\ task' \in [Threads -> {length, NoTask}]
  BY <1>2 DEF TypeOK, PoolLabels
<1>4. /\ queued = {} /\ open = {} /\ \A u \in Threads : task'[u] = NoTask
  BY <1>1, <1>2 DEF Stages, TypeOK
<1>5. /\ Blocks' = Blocks /\ Nothing' = Nothing
  BY <1>1 DEF Elements, Blocks, Nothing
<1>6. \A u \in Threads \ {t} : pc[u] \in {"idle", "returned"}
  BY <1>2 DEF Stages, OnPool
<1>7. OnPool'
  <2>1. ASSUME NEW u \in Threads
        PROVE  /\ pc'[u] # "static"
               /\ task'[u] = NoTask <=> pc'[u] \in {"idle", "returned"}
    BY <1>3, <1>4, <1>6
  <2>2. claimed' \in [{length'} -> SUBSET Blocks']
    BY <1>1, <1>2, <1>5 DEF OnPool
  <2>3. QED
    BY <1>2, <2>1, <2>2 DEF OnPool
<1>8. \A u \in Threads : pc'[u] # "run" /\ pc[u] # "run"
  BY <1>2, <1>3, <1>6
<1>9. BlockOwned'
  BY <1>8 DEF BlockOwned
<1>10. Stages'
  <2>1. claimed[length] = Blocks
    BY <1>2, <1>4, <1>6 DEF Stages
  <2>2. \A u \in Threads : pc'[u] # "finish"
    BY <1>3, <1>6
  <2>3. QED
    BY <1>1, <1>2, <1>4, <1>5, <2>1, <2>2 DEF Stages
<1>11. LocalCounts'
  BY <1>2, <1>3, <1>5 DEF LocalCounts, sumVars
<1>12. TypeOK'
  <2>1. /\ queued' \subseteq {length} /\ open' \subseteq {length} /\ is_finished' \in BOOLEAN
        /\ chunk' \in [Threads -> Int]
    BY <1>2 DEF TypeOK
  <2>2. QED
    BY <1>2, <1>3, <1>7, <1>9, <2>1, NothingCounted
<1>13. ElementOnce'
  <2>1. \A e \in Elements : Waiting(e)' <=> Waiting(e)
    BY <1>1, <1>2, <1>7, <1>8, WaitingOnPool, WaitingOnPoolNext
  <2>2. QED
    BY <1>2, <2>1, SameWaiting
<1>14. QED
  BY <1>7, <1>9, <1>10, <1>11, <1>12, <1>13

-----------------------------------------------------------------------------
(* The invariant of the version without a pool.                            *)
StaticInv == /\ TypeOK /\ WithoutPool /\ LocalCounts /\ ElementOnce

(* Without a pool an element waits in the range of a thread, and no other. *)
LEMMA WaitingInRange ==
  ASSUME WithoutPool, NEW e \in Elements
  PROVE  Waiting(e) <=> \E t \in Threads : pc[t] = "static" /\ e \in StaticRange(t, length, N)
BY DEF Waiting, WithoutPool

(* The same of the next state.                                             *)
LEMMA WaitingInRangeNext ==
  ASSUME WithoutPool', length' = length, NEW e \in Elements
  PROVE  Waiting(e)' <=> \E t \in Threads : pc'[t] = "static" /\ e \in StaticRange(t, length, N)
BY DEF Waiting, WithoutPool

(* A thread counts its range, which is that of no other thread.            *)
LEMMA RunRange ==
  ASSUME StaticInv, NEW t \in Threads, RunStatic(t)
  PROVE  StaticInv'
<1> USE DEF StaticInv
<1>1. length \in Nat /\ N \in Nat \ {0} /\ length' = length
  BY ReductionAssumption DEF TypeOK, RunStatic
<1>2. /\ pc[t] = "static" /\ pc' = [pc EXCEPT ![t] = "add"]
      /\ CountLocally(t, StaticRange(t, length, N)) /\ counter' = counter
      /\ UNCHANGED <<queued, open, claimed, is_finished, task, chunk>>
  BY DEF RunStatic, scheduling, Goto
<1>3. /\ pc'[t] = "add" /\ \A u \in Threads \ {t} : pc'[u] = pc[u]
      /\ pc' \in [Threads -> PoolLabels \cup {"run", "static", "add", "finish"}]
  BY <1>2 DEF TypeOK
<1>4. Elements' = Elements /\ Nothing' = Nothing
  BY <1>1 DEF Elements, Nothing
<1>5. WithoutPool'
  BY <1>2, <1>3 DEF WithoutPool
<1>6. ASSUME NEW e \in Elements
      PROVE  /\ e \in StaticRange(t, length, N) => Waiting(e) /\ ~Waiting(e)'
             /\ e \notin StaticRange(t, length, N) => (Waiting(e)' <=> Waiting(e))
  <2> DEFINE has(u) == e \in StaticRange(u, length, N)
  <2>1. \A u, v \in Threads : has(u) /\ has(v) => u = v
    BY <1>1, StaticRangesPartition DEF Threads, Elements
  <2>2. Waiting(e) <=> \E u \in Threads : pc[u] = "static" /\ has(u)
    BY WaitingInRange
  <2>3. Waiting(e)' <=> \E u \in Threads : pc'[u] = "static" /\ has(u)
    BY <1>1, <1>5, WaitingInRangeNext
  <2> SUFFICES /\ has(t) => Waiting(e) /\ ~Waiting(e)'
               /\ ~has(t) => (Waiting(e)' <=> Waiting(e))
    OBVIOUS
  <2> HIDE DEF has
  <2>4. QED
    BY <1>2, <1>3, <2>1, <2>2, <2>3
<1>7. /\ ElementOnce' /\ local_count' \in [Threads -> [Elements -> Nat]]
      /\ \A u \in Threads \ {t} : local_count'[u] = local_count[u]
  <2> DEFINE S == StaticRange(t, length, N)
  <2>1. UNCHANGED <<length, counter>> /\ CountLocally(t, S)
    BY <1>1, <1>2
  <2>2. \A e \in Elements : /\ e \in S => Waiting(e) /\ ~Waiting(e)'
                            /\ e \notin S => (Waiting(e)' <=> Waiting(e))
    BY <1>6
  <2> HIDE DEF S
  <2>3. QED
    BY <2>1, <2>2, WaitingCounted
<1>8. LocalCounts'
  BY <1>3, <1>4, <1>7 DEF LocalCounts
<1>9. TypeOK'
  <2>1. \A u \in Threads : pc'[u] # "run"
    BY <1>5 DEF WithoutPool
  <2>2. QED
    BY <1>1, <1>2, <1>3, <1>4, <1>7, <2>1 DEF TypeOK
<1>10. QED
  BY <1>5, <1>7, <1>8, <1>9

(* A thread adds what it counted and ends.                                 *)
LEMMA AddRange ==
  ASSUME StaticInv, NEW t \in Threads, AddLocal(t)
  PROVE  StaticInv'
<1> USE DEF StaticInv
<1>1. length \in Nat /\ length' = length
  BY ReductionAssumption DEF TypeOK, AddLocal
<1>2. /\ pc[t] = "add" /\ pc' = [pc EXCEPT ![t] = "returned"]
      /\ UNCHANGED <<queued, open, claimed, is_finished, task, chunk>>
  BY DEF AddLocal, scheduling, Goto, WithoutPool
<1>3. /\ pc'[t] = "returned" /\ \A u \in Threads \ {t} : pc'[u] = pc[u]
      /\ pc' \in [Threads -> PoolLabels \cup {"run", "static", "add", "finish"}]
  BY <1>2 DEF TypeOK, PoolLabels
<1>4. Elements' = Elements /\ Nothing' = Nothing
  BY <1>1 DEF Elements, Nothing
<1>5. WithoutPool'
  BY <1>2, <1>3 DEF WithoutPool
<1>6. \A e \in Elements : Waiting(e)' <=> Waiting(e)
  <2>1. \A u \in Threads : pc'[u] = "static" <=> pc[u] = "static"
    BY <1>2, <1>3
  <2>2. QED
    BY <1>1, <1>5, <2>1, WaitingInRange, WaitingInRangeNext
<1>7. /\ counter' = [e \in Elements |-> counter[e] + local_count[t][e]]
      /\ local_count' = [local_count EXCEPT ![t] = Nothing]
  BY DEF AddLocal
<1>8. /\ ElementOnce' /\ counter' \in [Elements -> Nat]
      /\ local_count' \in [Threads -> [Elements -> Nat]]
  BY <1>1, <1>6, <1>7, LocalAdded
<1>9. LocalCounts'
  <2>1. local_count'[t] = Nothing /\ \A u \in Threads \ {t} : local_count'[u] = local_count[u]
    BY <1>7 DEF TypeOK
  <2>2. QED
    BY <1>3, <1>4, <2>1 DEF LocalCounts
<1>10. TypeOK'
  <2>1. \A u \in Threads : pc'[u] # "run"
    BY <1>5 DEF WithoutPool
  <2>2. QED
    BY <1>1, <1>2, <1>3, <1>4, <1>8, <2>1 DEF TypeOK
<1>11. QED
  BY <1>5, <1>8, <1>9, <1>10

-----------------------------------------------------------------------------
(* At first every element waits, in a chunk or in a range.                 *)
LEMMA SumsInit ==
  ASSUME Init
  PROVE  SumInv
<1>1. /\ length \in Lengths /\ length \in Nat /\ N \in Nat \ {0} /\ NoTask # length
      /\ counter = Nothing /\ local_count = [t \in Threads |-> Nothing]
  BY ReductionAssumption DEF Init, NoTask
<1>2. LocalCounts /\ counter \in [Elements -> Nat]
        /\ local_count \in [Threads -> [Elements -> Nat]]
  BY <1>1 DEF LocalCounts, Nothing
<1>3. /\ \A t \in Threads : pc[t] \in {"idle", "static"} /\ pc \in [Threads -> {"idle", "static"}]
      /\ task = [t \in Threads |-> NoTask] /\ chunk = [t \in Threads |-> NoChunk]
      /\ queued \subseteq {length} /\ open = {} /\ is_finished = FALSE
  BY DEF Init, PoolInit, StaticInit
<1>4. TypeOK
  <2>1. pc \in [Threads -> PoolLabels \cup {"run", "static", "add", "finish"}]
    BY DEF Init, PoolInit, StaticInit, PoolLabels
  <2>2. task \in [Threads -> {length, NoTask}] /\ chunk \in [Threads -> Int]
    BY <1>3 DEF NoChunk
  <2>3. \A t \in Threads : pc[t] # "run"
    BY <1>3
  <2>4. QED
    BY <1>1, <1>2, <1>3, <2>1, <2>2, <2>3 DEF TypeOK
<1>5. SUFFICES /\ WithoutPool \/ (OnPool /\ BlockOwned /\ Stages)
               /\ \A e \in Elements : Waiting(e)
  <2>1. \A e \in Elements : Holders(e) = {} /\ counter[e] = 0
    BY <1>1 DEF Holders, Nothing
  <2>2. QED
    BY <1>2, <1>4, <2>1 DEF SumInv, ElementOnce
<1>6. CASE PoolInit(length, {length})
  <2>1. /\ queued = {length} /\ claimed = [a \in {length} |-> {}]
        /\ pc = [t \in Threads |-> "idle"]
    BY <1>6 DEF PoolInit
  <2>2. OnPool
    BY <1>1, <1>3, <2>1 DEF OnPool
  <2>3. BlockOwned /\ Stages
    BY <1>3, <2>1 DEF BlockOwned, Stages
  <2>4. \A e \in Elements : Waiting(e)
    BY <1>1, <2>1, <2>2, WaitingOnPool
  <2>5. QED
    BY <2>2, <2>3, <2>4
<1>7. CASE StaticInit
  <2>1. WithoutPool
    BY <1>7 DEF WithoutPool, StaticInit
  <2>2. ASSUME NEW e \in Elements PROVE Waiting(e)
    <3>1. \E t \in Threads : e \in StaticRange(t, length, N)
      BY <1>1, StaticRangesPartition DEF Threads, Elements
    <3>2. \A t \in Threads : pc[t] = "static"
      BY <1>7 DEF StaticInit
    <3>3. QED
      BY <2>1, <3>1, <3>2, WaitingInRange
  <2>3. QED
    BY <2>1, <2>2
<1>8. QED
  BY <1>1, <1>6, <1>7 DEF Init

(* Every step keeps the invariant.                                         *)
LEMMA SumsStep ==
  ASSUME SumInv, NEW t \in Threads, Step(t)
  PROVE  SumInv'
<1>1. CASE OnPool /\ BlockOwned /\ Stages
  <2> SUFFICES PoolInv'
    BY DEF PoolInv, SumInv
  <2>1. PoolInv /\ ~(pc[t] = "static")
    BY <1>1 DEF SumInv, PoolInv, OnPool
  <2>2. CASE PoolStep(t) /\ UNCHANGED sumVars
    BY <2>1, <2>2, StartSums, JoinSums, ClaimSums, EndLoopSums, LeaveSums DEF PoolStep
  <2>3. CASE RunChunk(t)
    BY <2>1, <2>3, RunSums
  <2>4. CASE AddLocal(t)
    BY <2>1, <2>4, AddSums
  <2>5. CASE FinishPool(t)
    BY <2>1, <2>5, FinishSums
  <2>6. ~RunStatic(t)
    BY <2>1 DEF RunStatic
  <2>7. QED
    BY <2>2, <2>3, <2>4, <2>5, <2>6 DEF Step
<1>2. CASE WithoutPool
  <2>1. StaticInv /\ pc[t] \in {"static", "add", "returned"} /\ queued = {} /\ open = {}
    BY <1>2 DEF SumInv, StaticInv, WithoutPool
  <2>2. ~PoolStep(t) /\ ~RunChunk(t) /\ ~FinishPool(t)
    BY <2>1 DEF PoolStep, StartSingle, StartLoop, JoinTask, ClaimChunk, EndLoop, EndTask,
      Return, RunChunk, FinishPool
  <2>3. StaticInv'
    BY <2>1, <2>2, RunRange, AddRange DEF Step
  <2>4. QED
    BY <2>3 DEF StaticInv, SumInv
<1>3. QED
  BY <1>1, <1>2 DEF SumInv

(* A state in which the pool is finished or the threads are joined has no  *)
(* element left to count or to add.                                        *)
LEMMA SumsComplete ==
  ASSUME SumInv
  PROVE  FinishedMeansSummed
<1>1. SUFFICES ASSUME is_finished \/ \A t \in Threads : pc[t] = "returned"
               PROVE  \A e \in Elements : counter[e] = 1
  BY DEF FinishedMeansSummed
<1>2. length \in Nat /\ 0 \in Threads
  BY ReductionAssumption DEF SumInv, TypeOK, Threads
<1>3. \A t \in Threads : pc[t] \in {"idle", "returned"}
  <2>1. CASE OnPool /\ Stages
    BY <1>1, <1>2, <2>1 DEF OnPool, Stages
  <2>2. CASE WithoutPool
    BY <1>1, <2>2 DEF WithoutPool
  <2>3. QED
    BY <2>1, <2>2 DEF SumInv
<1>4. ASSUME NEW e \in Elements PROVE ~Waiting(e) /\ Holders(e) = {}
  <2>1. Holders(e) = {}
    BY <1>3 DEF Holders, LocalCounts, SumInv, Nothing
  <2>2. CASE OnPool /\ Stages
    <3>1. is_finished
      BY <1>1, <1>2, <2>2 DEF OnPool
    <3>2. claimed[length] = Blocks
      BY <1>3, <2>2, <3>1 DEF Stages
    <3>3. e \div BlockSize \in Blocks
      BY <1>2, BlockOfElement
    <3>4. QED
      BY <1>2, <1>3, <2>1, <2>2, <3>2, <3>3, WaitingOnPool
  <2>3. CASE WithoutPool
    BY <1>3, <2>1, <2>3, WaitingInRange
  <2>4. QED
    BY <2>2, <2>3 DEF SumInv
<1>5. QED
  BY <1>4 DEF SumInv, ElementOnce

(* Each element is counted once, by one thread, on the pool and without    *)
(* it, whichever thread runs which chunk and however they overlap.         *)
THEOREM EachElementOnce == Spec => []SumInv
<1>1. Init => SumInv
  BY SumsInit
<1>2. SumInv /\ [Next]_vars => SumInv'
  <2>1. SUFFICES ASSUME SumInv, [Next]_vars PROVE SumInv'
    OBVIOUS
  <2>2. CASE Next
    BY <2>1, <2>2, SumsStep DEF Next
  <2>3. CASE UNCHANGED vars
    <3>1. UNCHANGED <<length, counter, local_count, queued, open, claimed, is_finished,
                      pc, task, chunk>>
      BY <2>3 DEF vars, scheduling, sumVars
    <3>2. /\ Elements' = Elements /\ Blocks' = Blocks /\ Nothing' = Nothing
          /\ \A c : Block(c)' = Block(c)
      BY <3>1 DEF Elements, Blocks, Nothing, Block
    <3>3. TypeOK' /\ LocalCounts'
      BY <2>1, <3>1, <3>2 DEF SumInv, TypeOK, LocalCounts, Block
    <3>4. (WithoutPool \/ (OnPool /\ BlockOwned /\ Stages))'
      BY <2>1, <3>1, <3>2 DEF SumInv, WithoutPool, OnPool, BlockOwned, Stages
    <3>5. \A e \in Elements : Waiting(e)' <=> Waiting(e)
      BY <3>1, <3>2 DEF Waiting, Block
    <3>6. ElementOnce'
      BY <2>1, <3>1, <3>5, SameWaiting DEF SumInv, sumVars
    <3>7. QED
      BY <3>3, <3>4, <3>6 DEF SumInv
  <2>4. QED
    BY <2>1, <2>2, <2>3
<1>3. QED
  BY <1>1, <1>2, PTL DEF Spec

(* The result is complete when the pool is finished, or when the threads   *)
(* of static_parallel are joined.                                          *)
THEOREM CounterComplete == Spec => []FinishedMeansSummed
<1>1. SumInv => FinishedMeansSummed
  BY SumsComplete
<1>2. QED
  BY <1>1, EachElementOnce, PTL
=============================================================================
