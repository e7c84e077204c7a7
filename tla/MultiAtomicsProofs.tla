------------------------- MODULE MultiAtomicsProofs -------------------------
(***************************************************************************)
(* MultiAtomics follows the protocol, so that the theorems of AssistProofs *)
(* hold of it, although its threads hide a task that is not finished.      *)
(* Then the ranges of the atomics of a loop: they divide its chunks; the   *)
(* invariant ChunkInv, one lemma for each kind of step; the pool that the  *)
(* scheduler implements; and the worker that it offers, with the tasks     *)
(* known by the numbers of TaskHistory.                                    *)
(***************************************************************************)
EXTENDS MultiAtomicsPool, AssistProofs

-----------------------------------------------------------------------------
(* Numbers.                                                                *)

(* Division with a remainder.                                              *)
LEMMA DivMod ==
  ASSUME NEW n \in Nat \ {0}, NEW a \in Nat
  PROVE  a \div n \in Nat /\ a % n \in 0 .. n - 1 /\ a = (a \div n) * n + (a % n)
OBVIOUS

(* A set of natural numbers that is not empty has a least element: the     *)
(* intervals below its elements are ordered by inclusion.                  *)
LEMMA LeastNatural ==
  ASSUME NEW T \in SUBSET Nat, T # {}
  PROVE  \E n \in T : \A m \in T : n <= m
<1> DEFINE below(n) == 0 .. n - 1
           F == {below(n) : n \in T}
           R == StrictSubsetOrdering(Nat)
<1>1. \A n \in T : below(n) \in FiniteSubsetsOf(Nat)
  BY FS_Interval DEF FiniteSubsetsOf
<1>2. PICK x \in F : \A y \in F : ~(<<y, x>> \in R)
  <2>1. F \subseteq FiniteSubsetsOf(Nat) /\ F # {}
    BY <1>1
  <2>2. IsWellFoundedOn(R, FiniteSubsetsOf(Nat))
    BY FS_StrictSubsetOrderingWellFounded
  <2> HIDE DEF F, R
  <2>3. QED
    BY <2>1, <2>2, WFMin
<1>3. PICK n \in T : x = below(n)
  OBVIOUS
<1>4. ASSUME NEW m \in T, m < n PROVE FALSE
  <2>1. below(m) \subseteq below(n) /\ below(m) # below(n)
    BY <1>4
  <2>2. <<below(m), below(n)>> \in R
    BY <2>1 DEF StrictSubsetOrdering
  <2>3. QED
    BY <1>2, <1>3, <2>2
<1>5. QED
  BY <1>4

(* Induction, stated of a set of numbers and not of a predicate.           *)
LEMMA SetInduction ==
  ASSUME NEW S \in SUBSET Nat, 0 \in S, \A n \in S : n + 1 \in S
  PROVE  S = Nat
<1> DEFINE T == Nat \ S
<1>1. ASSUME T # {} PROVE FALSE
  <2>1. PICK n \in T : \A m \in T : n <= m
    BY <1>1, LeastNatural
  <2>2. n # 0 /\ n - 1 \in Nat /\ n - 1 \notin S
    BY <2>1
  <2>3. QED
    BY <2>1, <2>2
<1>2. QED
  BY <1>1

-----------------------------------------------------------------------------
(* The protocol.                                                           *)

(* Every step of a thread is a step of the protocol.                       *)
LEMMA StepIsThreadStep ==
  ASSUME NEW t \in Threads, Step(t)
  PROVE  ThreadStep(t)
<1>1. CASE ProtocolStep(t)
  BY <1>1 DEF ThreadStep
<1>2. CASE DrawAtomic(t)
  BY <1>2 DEF DrawAtomic, ChunkLoop, ThreadStep
<1>3. CASE ClaimChunk(t)
  <2>1. /\ pc[t] = "next"
        /\ UNCHANGED <<shared, other, retry, task, signal>>
        /\ Goto(t, "body") \/ Goto(t, "enter") \/ Goto(t, AfterLoop(t))
    BY <1>3 DEF ClaimChunk
  <2>2. CASE state[t] = "DidSignal"
    BY <2>1, <2>2 DEF AfterLoop, ChunkLoop, ThreadStep
  <2>3. CASE state[t] # "DidSignal"
    BY <2>1, <2>3 DEF AfterLoop, ChunkLoop, ThreadStep
  <2>4. QED
    BY <2>2, <2>3
<1>4. CASE RunChunk(t)
  BY <1>4 DEF RunChunk, ChunkLoop, ThreadStep
<1>5. CASE Signal(t)
  BY <1>5 DEF Signal, ThreadStep
<1>6. CASE FinishTask(t)
  BY <1>6 DEF FinishTask, ThreadStep
<1>7. CASE CreateTask(t)
  BY <1>7 DEF CreateTask, ThreadStep
<1>8. QED
  BY <1>1, <1>2, <1>3, <1>4, <1>5, <1>6, <1>7 DEF Step

(* The scheduler implements the protocol: however the threads share the    *)
(* atomics out, between entering a task and task_empty they touch loop     *)
(* data only.                                                              *)
THEOREM ImplementsProtocol == Spec => ProtocolSpec
<1>1. Init => \E a \in Addrs, k \in {"single", "loop"} : ProtocolInit(a, k)
  BY DEF Init
<1>2. [Next]_vars => [ProtocolNext]_protocolVars
  <2>1. CASE UNCHANGED vars
    BY <2>1 DEF vars
  <2>2. ASSUME NEW t \in Threads, Step(t)
        PROVE  ProtocolNext
    BY <2>2, StepIsThreadStep DEF ProtocolNext
  <2>3. QED
    BY <2>1, <2>2 DEF Next
<1>3. QED
  BY <1>1, <1>2, PTL DEF Spec, ProtocolSpec

(* The guarantees of the protocol hold of this scheduler too, for any      *)
(* number of threads, atomics and chunks.                                  *)
THEOREM SchedulerGuarantees ==
  Spec => [](/\ ReferenceCount /\ ExclusiveFinish /\ NullTagBound
             /\ SlotEmptyAtStart /\ FinishMeansDone)
BY ImplementsProtocol, ProtocolGuarantees, PTL

-----------------------------------------------------------------------------
(* distribute, summed up: where range i ends when n chunks are divided     *)
(* over A atomics, the first n % A of which have one chunk more.           *)
EndAt(n, A, i) == (i + 1) * (n \div A) + Least(i + 1, n % A)

(* A task has an atomic at least, and at most as many as the bound.        *)
LEMMA AtomicCount ==
  ASSUME NEW n \in Nat
  PROVE  Atomics(n) \in 1 .. ATOMICS
BY SizesAssumption DEF Atomics, Least, Most

(* The closed form takes the step that the sum over the parts takes.       *)
LEMMA EndAtStep ==
  ASSUME NEW n \in Nat, NEW A \in Nat \ {0}, NEW i \in Nat \ {0}
  PROVE  /\ EndAt(n, A, 0) = Distribute(n, A)[0]
         /\ i < A => EndAt(n, A, i) = Distribute(n, A)[i] + EndAt(n, A, i - 1)
<1> DEFINE q == n \div A
           r == n % A
<1>1. q \in Nat /\ r \in Nat
  BY DivMod
<1>2. \A j \in 0 .. A - 1 : Distribute(n, A)[j] = q + (IF j < r THEN 1 ELSE 0)
  BY DEF Distribute
<1> HIDE DEF q, r
<1>3. Distribute(n, A)[0] = EndAt(n, A, 0)
  BY <1>1, <1>2 DEF EndAt, Least, q, r
<1>4. ASSUME i < A PROVE EndAt(n, A, i) = Distribute(n, A)[i] + EndAt(n, A, i - 1)
  <2>1. (i + 1) * q = i * q + q /\ i - 1 + 1 = i /\ i * q \in Nat
    BY <1>1
  <2>2. Least(i + 1, r) = Least(i, r) + (IF i < r THEN 1 ELSE 0)
    BY <1>1 DEF Least
  <2>3. EndAt(n, A, i) = (i + 1) * q + Least(i + 1, r) /\ EndAt(n, A, i - 1) = i * q + Least(i, r)
    BY <2>1 DEF EndAt, q, r
  <2>4. Distribute(n, A)[i] = q + (IF i < r THEN 1 ELSE 0)
    BY <1>2, <1>4
  <2>5. Least(i, r) \in Nat
    BY <1>1 DEF Least
  <2>6. QED
    BY <1>1, <2>1, <2>2, <2>3, <2>4, <2>5
<1>5. QED
  BY <1>3, <1>4

(* What the loop of distribute over the atomics computes, in closed form.  *)
LEMMA EndsAre ==
  ASSUME NEW n \in Nat
  PROVE  Ends(n) = [i \in 0 .. Atomics(n) - 1 |-> EndAt(n, Atomics(n), i)]
<1> DEFINE A == Atomics(n)
           part == Distribute(n, A)
           sum(end) == [i \in DOMAIN part |-> part[i] + (IF i = 0 THEN 0 ELSE end[i - 1])]
           closed == [i \in 0 .. A - 1 |-> EndAt(n, A, i)]
           e == Ends(n)
<1>1. A \in Nat \ {0} /\ DOMAIN part = 0 .. A - 1
  BY AtomicCount, SizesAssumption DEF Distribute
<1> HIDE DEF A
<1>2. \A i \in 0 .. A - 1 : /\ part[i] \in Nat /\ EndAt(n, A, i) \in Nat
  <2>1. n \div A \in Nat /\ n % A \in Nat
    BY SMTT(20), <1>1, DivMod
  <2>2. ASSUME NEW i \in 0 .. A - 1 PROVE (i + 1) * (n \div A) \in Nat
    BY <2>1
  <2>3. QED
    BY <2>1, <2>2 DEF Distribute, EndAt, Least
<1>3. closed = sum(closed)
  <2> SUFFICES ASSUME NEW i \in 0 .. A - 1
               PROVE  closed[i] = part[i] + (IF i = 0 THEN 0 ELSE closed[i - 1])
    BY <1>1
  <2>1. CASE i = 0
    BY <1>1, <1>2, <2>1, EndAtStep
  <2>2. CASE i # 0
    BY <1>1, <2>2, EndAtStep
  <2>3. QED
    BY <2>1, <2>2
<1>4. e = CHOOSE end : end = sum(end)
  BY DEF Ends, A
<1> HIDE DEF closed, e, part
<1>5. e = sum(e)
  BY <1>3, <1>4
<1> DEFINE T == {i \in Nat : i < A => e[i] = closed[i]}
<1>6. T = Nat
  <2>1. 0 \in T
    BY <1>1, <1>3, <1>5
  <2>2. ASSUME NEW i \in T PROVE i + 1 \in T
    <3>1. SUFFICES ASSUME i + 1 < A PROVE e[i + 1] = closed[i + 1]
      OBVIOUS
    <3>2. i + 1 \in DOMAIN part /\ i + 1 # 0 /\ i + 1 - 1 = i /\ e[i] = closed[i]
      BY <1>1, <3>1
    <3>3. e[i + 1] = part[i + 1] + e[i] /\ closed[i + 1] = part[i + 1] + closed[i]
      BY <1>3, <1>5, <3>2
    <3>4. QED
      BY <3>2, <3>3
  <2>3. T \in SUBSET Nat
    OBVIOUS
  <2> HIDE DEF T
  <2>4. QED
    BY <2>1, <2>2, <2>3, SetInduction
<1>7. \A i \in 0 .. A - 1 : e[i] = closed[i]
  BY <1>1, <1>6
<1>8. e = [i \in 0 .. A - 1 |-> e[i]] /\ closed = [i \in 0 .. A - 1 |-> closed[i]]
  BY <1>1, <1>3, <1>5
<1>9. QED
  BY <1>7, <1>8 DEF closed, e, A

(* The ranges follow one another, and the last ends with the last chunk.   *)
LEMMA EndsShape ==
  ASSUME NEW n \in Nat
  PROVE  LET A == Atomics(n)
         IN  /\ DOMAIN Ends(n) = 0 .. A - 1
             /\ \A i \in 0 .. A - 1 : Ends(n)[i] \in 0 .. n
             /\ \A i, j \in 0 .. A - 1 : i <= j => Ends(n)[i] <= Ends(n)[j]
             /\ Ends(n)[A - 1] = n
<1> DEFINE A == Atomics(n)
           q == n \div A
           r == n % A
<1>1. A \in Nat \ {0} /\ Ends(n) = [i \in 0 .. A - 1 |-> EndAt(n, A, i)]
  <2>1. A \in Nat \ {0}
    BY AtomicCount, SizesAssumption
  <2>2. QED
    BY <2>1, EndsAre
<1> HIDE DEF A
<1>2. q \in Nat /\ r \in 0 .. A - 1 /\ n = q * A + r
  BY <1>1, DivMod
<1>3. \A i \in 0 .. A - 1 : Ends(n)[i] = (i + 1) * q + Least(i + 1, r)
  BY <1>1 DEF EndAt
<1> HIDE DEF q, r
<1>4. ASSUME NEW i \in 0 .. A - 1, NEW j \in 0 .. A - 1, i <= j
      PROVE  Ends(n)[i] <= Ends(n)[j]
  <2>1. j - i \in Nat /\ (j - i) * q \in Nat /\ (j + 1) * q = (i + 1) * q + (j - i) * q
    BY <1>1, <1>2, <1>4
  <2>2. (i + 1) * q \in Nat
    BY <1>1, <1>2
  <2>3. Least(i + 1, r) <= Least(j + 1, r) /\ Least(i + 1, r) \in Nat /\ Least(j + 1, r) \in Nat
    BY <1>1, <1>2, <1>4 DEF Least
  <2>4. QED
    BY <1>3, <2>1, <2>2, <2>3
<1>5. Ends(n)[A - 1] = n
  BY <1>1, <1>2, <1>3 DEF Least
<1>6. ASSUME NEW i \in 0 .. A - 1 PROVE Ends(n)[i] \in 0 .. n
  BY <1>1, <1>2, <1>3, <1>4, <1>5 DEF Least
<1>7. QED
  BY <1>1, <1>4, <1>5, <1>6 DEF A

(* The numbers of a loop: its ranges, and the room for the vain claims.    *)
LEMMA LoopNumbers ==
  ASSUME NEW a \in Addrs, StartInv(a), kind[a] = "loop"
  PROVE  /\ NumAtomics(a) \in 1 .. ATOMICS /\ ATOMICS \in Nat
         /\ DOMAIN work_size[a] = 0 .. NumAtomics(a) - 1
         /\ PoolSize(a) \in Sizes /\ PoolSize(a) \in Nat
         /\ N \in Nat \ {0} /\ U32 \in Nat /\ N * NumAtomics(a) \in Nat
         /\ PoolSize(a) + N * NumAtomics(a) < U32
         /\ \A i \in DOMAIN work_size[a] :
              /\ work_size[a][i] \in 0 .. PoolSize(a)
              /\ StartOf(a, i) \in 0 .. work_size[a][i]
              /\ \A j \in DOMAIN work_size[a] : i < j => work_size[a][i] <= StartOf(a, j)
         /\ work_size[a][NumAtomics(a) - 1] = PoolSize(a)
<1>1. PICK n \in Sizes : work_size[a] = Ends(n)
  BY DEF StartInv
<1> DEFINE A == Atomics(n)
<1>2. n \in Nat /\ A \in 1 .. ATOMICS /\ ATOMICS \in Nat /\ N \in Nat \ {0} /\ U32 \in Nat
      /\ n + N * A < U32
  BY AtomicCount, SizesAssumption, ProtocolAssumption
<1>3. /\ DOMAIN work_size[a] = 0 .. A - 1
      /\ \A i \in 0 .. A - 1 : work_size[a][i] \in 0 .. n
      /\ \A i, j \in 0 .. A - 1 : i <= j => work_size[a][i] <= work_size[a][j]
      /\ work_size[a][A - 1] = n
  BY <1>1, <1>2, EndsShape
<1> HIDE DEF A
<1>4. NumAtomics(a) = A
  BY <1>2, <1>3, FS_Interval DEF NumAtomics
<1>5. PoolSize(a) = n
  BY <1>3, <1>4 DEF PoolSize
<1>6. N * A \in Nat
  BY <1>2
<1>7. ASSUME NEW i \in 0 .. A - 1
      PROVE  /\ StartOf(a, i) \in 0 .. work_size[a][i]
             /\ \A j \in 0 .. A - 1 : i < j => work_size[a][i] <= StartOf(a, j)
  <2>1. StartOf(a, i) \in 0 .. work_size[a][i]
    <3>1. CASE i = 0
      BY <1>2, <1>3, <3>1 DEF StartOf
    <3>2. CASE i # 0
      BY <1>2, <1>3, <3>2 DEF StartOf
    <3>3. QED
      BY <3>1, <3>2
  <2>2. ASSUME NEW j \in 0 .. A - 1, i < j PROVE work_size[a][i] <= StartOf(a, j)
    BY <1>2, <1>3, <2>2 DEF StartOf
  <2>3. QED
    BY <2>1, <2>2
<1>8. QED
  BY <1>1, <1>2, <1>3, <1>4, <1>5, <1>6, <1>7

-----------------------------------------------------------------------------
(* The types of the loop data, besides those of the protocol.              *)
LoopTypeOK ==
  /\ work_size \in [Addrs -> IndexVectors]
  /\ work_indexes \in [Addrs -> IndexVectors]
  /\ \A a \in Addrs : DOMAIN work_indexes[a] = DOMAIN work_size[a]
  /\ work_indexes_index \in [Addrs -> 0 .. U32 - 1]
  /\ done \in [Addrs -> SUBSET Nat]
  /\ current_index \in [Threads -> 0 .. ATOMICS - 1]
  /\ round \in [Threads -> 0 .. ATOMICS]
  /\ chunk \in [Threads -> 0 .. U32 - 1]

(* A vector of indices, elementwise.                                       *)
LEMMA IndexVector ==
  ASSUME NEW k \in 0 .. ATOMICS, NEW f \in [0 .. k - 1 -> 0 .. U32 - 1]
  PROVE  f \in IndexVectors
BY DEF IndexVectors

(* The values of a loop's variables.                                       *)
LEMMA LoopValues ==
  ASSUME LoopTypeOK, NEW a \in Addrs, StartInv(a), kind[a] = "loop"
  PROVE  /\ NumAtomics(a) \in Nat \ {0}
         /\ work_indexes_index[a] \in Nat
         /\ DOMAIN work_indexes[a] = DOMAIN work_size[a]
         /\ \A i \in DOMAIN work_size[a] : work_indexes[a][i] \in 0 .. U32 - 1
         /\ work_indexes[a] = [i \in DOMAIN work_size[a] |-> work_indexes[a][i]]
         /\ done[a] \subseteq Nat
<1>1. work_indexes[a] \in IndexVectors /\ DOMAIN work_indexes[a] = DOMAIN work_size[a]
  BY DEF LoopTypeOK
<1>2. PICK k \in 0 .. ATOMICS : work_indexes[a] \in [0 .. k - 1 -> 0 .. U32 - 1]
  BY <1>1 DEF IndexVectors
<1>3. U32 \in Nat
  BY SizesAssumption
<1>4. NumAtomics(a) \in Nat \ {0}
  BY LoopNumbers
<1>5. QED
  BY <1>1, <1>2, <1>3, <1>4 DEF LoopTypeOK

(* A thread changes its own locals only.                                   *)
LEMMA OwnLoop ==
  ASSUME ProtocolTypeOK, LoopTypeOK, NEW t \in Threads, Step(t), NEW u \in Threads \ {t}
  PROVE  /\ pc'[u] = pc[u] /\ task'[u] = task[u] /\ state'[u] = state[u]
         /\ chunk'[u] = chunk[u] /\ round'[u] = round[u] /\ current_index'[u] = current_index[u]
<1>1. chunk'[u] = chunk[u] /\ round'[u] = round[u] /\ current_index'[u] = current_index[u]
  <2> USE DEF LoopTypeOK, loopData
  <2>1. CASE DrawAtomic(t)
    BY <2>1 DEF DrawAtomic
  <2>2. CASE ClaimChunk(t)
    BY <2>2 DEF ClaimChunk
  <2>3. CASE RunChunk(t) \/ Signal(t) \/ FinishTask(t) \/ CreateTask(t)
    BY <2>3 DEF RunChunk, Signal, FinishTask, CreateTask
  <2>4. QED
    BY <2>1, <2>2, <2>3 DEF Step
<1>2. QED
  BY <1>1, StepIsThreadStep, OwnLocals

(* The threads and draws that are counted.                                 *)
LEMMA Counts ==
  ASSUME NEW a \in Addrs, StartInv(a), kind[a] = "loop"
  PROVE  /\ IsFiniteSet(Holders(a)) /\ Cardinality(Holders(a)) \in Nat
         /\ IsFiniteSet(DrawsLeft(a)) /\ Cardinality(DrawsLeft(a)) \in 0 .. N * NumAtomics(a)
         /\ work_size'[a] = work_size[a] =>
              /\ IsFiniteSet(Holders(a)') /\ Cardinality(Holders(a)') \in Nat
              /\ IsFiniteSet(DrawsLeft(a)')
              /\ Cardinality(DrawsLeft(a)') \in 0 .. N * NumAtomics(a)
<1> DEFINE A == NumAtomics(a)
           D == Threads \X (1 .. A)
<1>1. A \in Nat \ {0} /\ N \in Nat \ {0}
  BY LoopNumbers
<1>2. IsFiniteSet(Threads) /\ Cardinality(Threads) = N
  BY <1>1, FS_Interval DEF Threads
<1>3. IsFiniteSet(1 .. A) /\ Cardinality(1 .. A) = A
  BY <1>1, FS_Interval
<1> HIDE DEF A
<1>4. IsFiniteSet(D) /\ Cardinality(D) = N * A
  BY <1>2, <1>3, FS_Product
<1>5. \A S \in SUBSET D : IsFiniteSet(S) /\ Cardinality(S) \in 0 .. N * A
  <2> SUFFICES ASSUME NEW S \in SUBSET D
               PROVE  IsFiniteSet(S) /\ Cardinality(S) \in 0 .. N * A
    OBVIOUS
  <2> HIDE DEF D
  <2>1. IsFiniteSet(S) /\ Cardinality(S) <= Cardinality(D)
    BY <1>4, FS_Subset
  <2>2. Cardinality(S) \in Nat /\ Cardinality(D) \in Nat
    BY <1>4, <2>1, FS_CardinalityType
  <2>3. QED
    BY <1>4, <2>1, <2>2
<1>6. \A S \in SUBSET Threads : IsFiniteSet(S) /\ Cardinality(S) \in Nat
  BY <1>2, FS_Subset, FS_CardinalityType
<1>7. Holders(a) \in SUBSET Threads /\ Holders(a)' \in SUBSET Threads
  BY DEF Holders, Users
<1>8. /\ DrawsLeft(a) \in SUBSET D
      /\ work_size'[a] = work_size[a] => DrawsLeft(a)' \in SUBSET D
  BY DEF DrawsLeft, NumAtomics, A
<1> HIDE DEF D
<1>9. QED
  BY <1>5, <1>6, <1>7, <1>8 DEF A

(* Where no draw is made, fewer draws may be left later.                   *)
LEMMA DrawsKept ==
  ASSUME LoopTypeOK, NEW a \in Addrs, StartInv(a), kind[a] = "loop", TurnInv(a),
         work_size'[a] = work_size[a], DrawsLeft(a)' \subseteq DrawsLeft(a)
  PROVE  work_indexes_index[a] + Cardinality(DrawsLeft(a)') <= N * NumAtomics(a)
<1>1. Cardinality(DrawsLeft(a)') <= Cardinality(DrawsLeft(a))
  BY Counts, FS_Subset
<1> DEFINE x == Cardinality(DrawsLeft(a))
           y == Cardinality(DrawsLeft(a)')
           m == N * NumAtomics(a)
<1>2. x \in Nat /\ y \in Nat /\ m \in Nat /\ work_indexes_index[a] \in Nat
  <2>1. m \in Nat /\ work_indexes_index[a] \in Nat
    BY LoopNumbers, LoopValues
  <2>2. x \in 0 .. m /\ y \in 0 .. m
    BY Counts
  <2> HIDE DEF x, y, m
  <2>3. QED
    BY <2>1, <2>2
<1>3. work_indexes_index[a] + x <= m
  BY DEF TurnInv
<1>4. y <= x
  BY <1>1
<1> HIDE DEF x, y, m
<1>5. work_indexes_index[a] + y <= m
  BY <1>2, <1>3, <1>4
<1>6. QED
  BY <1>5 DEF y, m

(* Where no chunk is claimed or executed, and each is carried as before.   *)
LEMMA OwnersKept ==
  ASSUME NEW a \in Addrs, RoundInv(a), OwnerInv(a),
         work_size'[a] = work_size[a], done'[a] = done[a],
         \A i \in DOMAIN work_size[a] : Taken(a, i)' = Taken(a, i),
         Carriers(a)' = Carriers(a),
         \A t \in Carriers(a) : current_index'[t] = current_index[t] /\ chunk'[t] = chunk[t]
  PROVE  OwnerInv(a)'
<1>1. Claimed(a)' = Claimed(a)
  BY DEF Claimed
<1>2. \A t \in Carriers(a) : current_index[t] \in DOMAIN work_size[a]
  BY DEF Carriers, Claiming, RoundInv
<1>3. done'[a] \subseteq Claimed(a)'
  BY <1>1 DEF OwnerInv
<1>4. \A t \in Carriers(a)' : chunk'[t] \in Taken(a, current_index[t])' \ done'[a]
  BY <1>2 DEF OwnerInv
<1>5. \A t, u \in Carriers(a)' : chunk'[t] = chunk'[u] => t = u
  BY DEF OwnerInv
<1>6. \A c \in Claimed(a)' \ done'[a] : \E t \in Carriers(a)' : chunk'[t] = c
  BY <1>1 DEF OwnerInv
<1>7. QED
  BY <1>3, <1>4, <1>5, <1>6 DEF OwnerInv

(* The data of a task, and who claims from it, as they were.               *)
SameData(a) ==
  /\ kind'[a] = kind[a] /\ work_size'[a] = work_size[a]
  /\ work_indexes'[a] = work_indexes[a] /\ work_indexes_index'[a] = work_indexes_index[a]
  /\ done'[a] = done[a]

SameHolders(a) ==
  /\ Holders(a)' = Holders(a) /\ Carriers(a)' = Carriers(a)
  /\ \A t \in Holders(a) : current_index'[t] = current_index[t] /\ chunk'[t] = chunk[t]

(* A step that touches no data of a task, and after which the same threads *)
(* claim from it and carry its chunks.                                     *)
LEMMA DataKept ==
  ASSUME LoopTypeOK, NEW a \in Addrs, ChunksInv(a), SameData(a), Fresh(a)' => Fresh(a),
         \A t \in Users(a)' : kind[a] = "loop",
         kind[a] = "loop" =>
           /\ SameHolders(a) /\ RoundInv(a)'
           /\ work_indexes_index[a] + Cardinality(DrawsLeft(a)') <= N * NumAtomics(a)
           /\ Fresh(a)' \/ Published(a)' \/ work_indexes_index[a] >= NumAtomics(a)
           /\ (\A t \in Users(a) : pc[t] \in Drawing) => \A t \in Users(a)' : pc'[t] \in Drawing
  PROVE  ChunksInv(a)'
<1>1. StartInv(a) /\ StartInv(a)'
  BY DEF SameData, StartOf, StartInv, ChunksInv
<1>2. CASE kind[a] # "loop"
  BY <1>1, <1>2 DEF SameData, StartInv, NoAtomics, ChunksInv
<1>3. CASE kind[a] = "loop"
  <2>1. RoundInv(a) /\ TurnInv(a) /\ IndexInv(a) /\ OwnerInv(a)
        /\ \A i \in DOMAIN work_size[a] : Kept(a, i)
    BY <1>3 DEF ChunksInv
  <2>2. TurnInv(a)'
    BY <1>3 DEF TurnInv, NumAtomics, SameData
  <2>3. IndexInv(a)'
    BY <1>3, <2>1 DEF IndexInv, StartOf, SameData, SameHolders
  <2>4. \A i \in DOMAIN work_size[a] : Taken(a, i)' = Taken(a, i)
    BY DEF Taken, StartOf, SameData
  <2>5. \A t \in Carriers(a) : current_index'[t] = current_index[t] /\ chunk'[t] = chunk[t]
    BY <1>3 DEF Carriers, Holders, Claiming, SameHolders
  <2>6. OwnerInv(a)'
    BY <1>3, <2>1, <2>4, <2>5, OwnersKept DEF SameData, SameHolders
  <2>7. ASSUME NEW i \in DOMAIN work_size[a] PROVE Kept(a, i)'
    <3>1. CASE UsedUp(a, i)
      BY <3>1 DEF Kept, UsedUp, SameData
    <3>2. CASE \E t \in Users(a) : pc[t] \in {"next", "body"} /\ current_index[t] = i
      <4>1. PICK t \in Holders(a) : current_index[t] = i
        BY <3>2 DEF Holders, Claiming
      <4>2. t \in Users(a)' /\ pc'[t] \in {"next", "body"} /\ current_index'[t] = i
        BY <1>3, <4>1 DEF SameHolders, Holders, Claiming
      <4>3. QED
        BY <4>2 DEF Kept
    <3>3. CASE /\ work_indexes_index[a] <= i
               /\ \A t \in Users(a) : pc[t] \in {"enter", "next", "body"}
      BY <1>3, <3>3 DEF Kept, SameData, Drawing
    <3>4. QED
      BY <2>1, <3>1, <3>2, <3>3 DEF Kept
  <2>8. QED
    BY <1>1, <1>3, <2>1, <2>2, <2>3, <2>6, <2>7 DEF ChunksInv, SameData
<1>4. QED
  BY <1>2, <1>3

(* A step of a thread that is not at work on a task leaves it as it was.   *)
LEMMA Untouched ==
  ASSUME ProtocolTypeOK, LoopTypeOK, NEW t \in Threads, Step(t), NEW a \in Addrs, ChunksInv(a),
         SameData(a), Fresh(a)' => Fresh(a), kind[a] = "loop" /\ Fresh(a) => Fresh(a)',
         Published(a)' <=> Published(a),
         ~(task[t] = a /\ pc[t] \in Working), ~(task'[t] = a /\ pc'[t] \in Working)
  PROVE  ChunksInv(a)'
<1>1. \A u \in Threads \ {t} :
        /\ pc'[u] = pc[u] /\ task'[u] = task[u] /\ state'[u] = state[u]
        /\ chunk'[u] = chunk[u] /\ round'[u] = round[u] /\ current_index'[u] = current_index[u]
  BY OwnLoop
<1>2. Users(a)' = Users(a) /\ t \notin Users(a)
  BY <1>1 DEF Users
<1>3. \A u \in Users(a) :
        /\ u \in Threads \ {t}
        /\ pc'[u] = pc[u] /\ round'[u] = round[u]
        /\ chunk'[u] = chunk[u] /\ current_index'[u] = current_index[u]
  BY <1>1, <1>2 DEF Users
<1>4. StartInv(a) /\ \A u \in Users(a)' : kind[a] = "loop"
  BY <1>2 DEF ChunksInv, StartInv
<1>5. ASSUME kind[a] = "loop"
      PROVE  /\ SameHolders(a) /\ RoundInv(a)'
             /\ work_indexes_index[a] + Cardinality(DrawsLeft(a)') <= N * NumAtomics(a)
             /\ Fresh(a)' \/ Published(a)' \/ work_indexes_index[a] >= NumAtomics(a)
             /\ (\A u \in Users(a) : pc[u] \in Drawing) => \A u \in Users(a)' : pc'[u] \in Drawing
  <2>1. RoundInv(a) /\ TurnInv(a)
    BY <1>5 DEF ChunksInv
  <2>2. SameHolders(a)
    BY <1>2, <1>3 DEF SameHolders, Holders, Carriers
  <2>3. NumAtomics(a)' = NumAtomics(a)
    BY DEF NumAtomics, SameData
  <2>4. RoundInv(a)'
    BY <1>2, <1>3, <2>1, <2>3 DEF RoundInv, SameData
  <2>5. DrawsLeft(a)' \subseteq DrawsLeft(a)
    BY <1>2, <1>3, <2>3 DEF DrawsLeft
  <2>6. work_indexes_index[a] + Cardinality(DrawsLeft(a)') <= N * NumAtomics(a)
    BY <1>4, <1>5, <2>1, <2>5, DrawsKept DEF SameData
  <2>7. QED
    BY <1>2, <1>3, <1>5, <2>1, <2>2, <2>4, <2>6 DEF TurnInv
<1>6. QED
  BY <1>4, <1>5, DataKept

(* A task that is offered is a loop: its thread works on it.               *)
LEMMA OfferedIsLoop ==
  ASSUME ProtocolInv, NEW a \in Addrs, StartInv(a), Published(a)
  PROVE  kind[a] = "loop" /\ ~Fresh(a)
<1>1. PICK s \in Threads : activities[s].ptr = a
  BY DEF Published
<1>2. a # Null
  BY ProtocolAssumption
<1>3. task[s] = a /\ pc[s] \in {"enter", "next", "body", "signal"}
  BY <1>1, <1>2 DEF ProtocolInv, SlotInv
<1>4. kind[a] = "loop"
  BY <1>3 DEF StartInv, Users, Working
<1>5. QED
  BY <1>3, <1>4, UsedIsNotFresh

(* try_assist: a thread that joins has all its draws left, as it had when  *)
(* it could still join.                                                    *)
LEMMA JoinChunks ==
  ASSUME ProtocolInv, LoopTypeOK, NEW t \in Threads, Step(t), Joins(t), UNCHANGED loopData,
         round[t] = 0, NEW a \in Addrs, ChunksInv(a)
  PROVE  ChunksInv(a)'
<1>1. /\ ProtocolTypeOK /\ SameData(a) /\ deque' = deque
      /\ UNCHANGED <<current_index, round, chunk>>
  BY DEF ProtocolInv, Joins, loopData, taskData, SameData
<1>2. Fresh(a)' = Fresh(a) /\ Published(a)' = Published(a)
  BY <1>1, FreshKept, PtrsKept, StepIsThreadStep DEF Joins
<1>3. task[t] # a /\ pc'[t] = "enter"
  BY ProtocolAssumption DEF Joins
<1>4. CASE task'[t] # a
  BY <1>1, <1>2, <1>3, <1>4, Untouched
<1>5. CASE task'[t] = a
  <2>1. StartInv(a) /\ Published(a) /\ kind[a] = "loop"
    BY <1>5, OfferedIsLoop DEF ChunksInv, Joins
  <2>2. RoundInv(a) /\ TurnInv(a)
    BY <2>1 DEF ChunksInv
  <2>3. Users(a)' = Users(a) \cup {t} /\ t \notin Users(a)
    BY <1>1, <1>3, <1>5, OwnLoop DEF Users, Working
  <2>4. \A u \in Users(a) : u # t /\ pc'[u] = pc[u]
    BY <1>1, <2>3, OwnLoop DEF Users
  <2>5. SameHolders(a)
    BY <1>1, <1>3, <2>3, <2>4 DEF Holders, Carriers, Claiming, SameHolders
  <2>6. NumAtomics(a)' = NumAtomics(a)
    BY <1>1 DEF NumAtomics, SameData
  <2>7. RoundInv(a)'
    <3>1. 0 < NumAtomics(a) /\ 0 <= work_indexes_index[a]
      <4>1. NumAtomics(a) \in Nat \ {0} /\ work_indexes_index[a] \in Nat
        BY <2>1, LoopValues
      <4>2. QED
        BY <4>1
    <3>2. round'[t] = 0 /\ pc'[t] \in Drawing \ Claiming
      BY <1>1, <1>3 DEF Claiming, Drawing
    <3>3. QED
      BY <1>1, <2>2, <2>3, <2>4, <2>6, <3>1, <3>2 DEF RoundInv, SameData
  <2>8. DrawsLeft(a)' \subseteq DrawsLeft(a)
    BY <1>1, <1>2, <1>3, <2>1, <2>3, <2>4, <2>6 DEF DrawsLeft
  <2>9. work_indexes_index[a] + Cardinality(DrawsLeft(a)') <= N * NumAtomics(a)
    BY <1>1, <2>1, <2>2, <2>8, DrawsKept DEF SameData
  <2>10. (\A u \in Users(a) : pc[u] \in Drawing) => \A u \in Users(a)' : pc'[u] \in Drawing
    BY <1>3, <2>3, <2>4 DEF Drawing
  <2>11. QED
    BY <1>1, <1>2, <2>1, <2>5, <2>7, <2>9, <2>10, DataKept
<1>6. QED
  BY <1>4, <1>5

(* start_task: the publishing thread is the first, no atomic is drawn yet. *)
LEMMA PublishChunks ==
  ASSUME ProtocolInv, LoopTypeOK, NEW t \in Threads, Step(t), Publishes(t), UNCHANGED loopData,
         round[t] = 0, NEW a \in Addrs, ChunksInv(a)
  PROVE  ChunksInv(a)'
<1>1. /\ ProtocolTypeOK /\ SameData(a) /\ deque' = deque /\ task' = task
      /\ UNCHANGED <<current_index, round, chunk>>
      /\ pc[t] = "start" /\ pc'[t] = "enter"
  BY DEF ProtocolInv, Publishes, loopData, taskData, SameData
<1>2. \A u \in Threads \ {t} : pc'[u] = pc[u] /\ task'[u] = task[u]
  BY <1>1, OwnLoop
<1>3. Queued(a)' <=> Queued(a)
  BY <1>1 DEF Queued
<1>4. CASE task[t] # a
  <2>1. Fresh(a)' <=> Fresh(a)
    BY <1>1, <1>2, <1>3, <1>4 DEF Fresh
  <2>2. \A s \in Threads : activities'[s].ptr = a <=> activities[s].ptr = a
    BY <1>1, <1>4, ProtocolAssumption DEF Publishes, ProtocolTypeOK
  <2>3. Published(a)' <=> Published(a)
    BY <2>2 DEF Published
  <2>4. QED
    BY <1>1, <1>4, <2>1, <2>3, Untouched
<1>5. CASE task[t] = a
  <2>1. /\ kind[a] = "loop" /\ ~Queued(a) /\ ~Published(a)
        /\ \A u \in Threads \ {t} : task[u] # a
    BY <1>5 DEF Publishes
  <2>2. Fresh(a)
    BY <1>1, <1>5 DEF Fresh
  <2>3. Published(a)'
    BY <1>1, <1>5 DEF Published, Publishes, ProtocolTypeOK
  <2>4. StartInv(a) /\ work_indexes_index[a] = 0
    BY <2>2 DEF ChunksInv, StartInv
  <2>5. Users(a) = {} /\ Users(a)' = {t}
    BY <1>1, <1>2, <1>5, <2>1 DEF Users, Working
  <2>6. SameHolders(a)
    BY <1>1, <2>5 DEF SameHolders, Holders, Carriers, Claiming
  <2>7. NumAtomics(a)' = NumAtomics(a)
    BY <1>1 DEF NumAtomics, SameData
  <2>8. RoundInv(a)'
    <3>1. 0 < NumAtomics(a) /\ 0 <= work_indexes_index[a]
      <4>1. NumAtomics(a) \in Nat \ {0} /\ work_indexes_index[a] \in Nat
        BY <2>1, <2>4, LoopValues
      <4>2. QED
        BY <4>1
    <3>2. QED
      BY <1>1, <2>5, <2>7, <3>1 DEF RoundInv, SameData, Claiming, Drawing
  <2>9. work_indexes_index[a] + Cardinality(DrawsLeft(a)') <= N * NumAtomics(a)
    <3> DEFINE y == Cardinality(DrawsLeft(a)')
               m == N * NumAtomics(a)
    <3>1. m \in Nat /\ y \in 0 .. m
      BY <1>1, <2>1, <2>4, Counts, LoopNumbers DEF SameData
    <3> HIDE DEF y, m
    <3>2. 0 + y <= m
      BY <3>1
    <3>3. QED
      BY <2>4, <3>2 DEF y, m
  <2>10. \A u \in Users(a)' : pc'[u] \in Drawing
    BY <1>1, <2>5 DEF Drawing
  <2>11. QED
    BY <1>1, <2>1, <2>2, <2>3, <2>6, <2>8, <2>9, <2>10, DataKept
<1>6. QED
  BY <1>4, <1>5

(* end_task: a thread that leaves has no draws and no chunk left.          *)
LEMMA LeaveChunks ==
  ASSUME ProtocolInv, LoopTypeOK, NEW t \in Threads, Step(t), Leaves(t), UNCHANGED loopData,
         NEW a \in Addrs, ChunksInv(a)
  PROVE  ChunksInv(a)'
<1>1. /\ ProtocolTypeOK /\ SameData(a) /\ deque' = deque
      /\ UNCHANGED <<current_index, round, chunk>>
      /\ pc[t] = "end" /\ pc'[t] \in {"finish", "loop"}
      /\ task'[t] = task[t] \/ task'[t] = Null
  BY DEF ProtocolInv, Leaves, loopData, taskData, SameData
<1>2. Fresh(a)' = Fresh(a) /\ Published(a)' = Published(a)
  BY <1>1, FreshKept, PtrsKept, StepIsThreadStep DEF Leaves
<1>3. CASE task[t] # a
  BY <1>1, <1>2, <1>3, ProtocolAssumption, Untouched DEF Working
<1>4. CASE task[t] = a
  <2>1. StartInv(a) /\ kind[a] = "loop" /\ ~Published(a) /\ t \in Users(a)
    BY <1>1, <1>4 DEF ChunksInv, StartInv, Users, Working, Leaves
  <2>2. RoundInv(a) /\ TurnInv(a)
    BY <2>1 DEF ChunksInv
  <2>3. Users(a)' = Users(a) \ {t}
    BY <1>1, OwnLoop DEF Users, Working
  <2>4. \A u \in Users(a) \ {t} : pc'[u] = pc[u]
    BY <1>1, OwnLoop DEF Users
  <2>5. SameHolders(a)
    BY <1>1, <2>3, <2>4 DEF Holders, Carriers, Claiming, SameHolders
  <2>6. NumAtomics(a)' = NumAtomics(a)
    BY <1>1 DEF NumAtomics, SameData
  <2>7. RoundInv(a)'
    BY <1>1, <2>2, <2>3, <2>4, <2>6 DEF RoundInv, SameData
  <2>8. DrawsLeft(a)' \subseteq DrawsLeft(a)
    BY <1>1, <1>2, <2>1, <2>3, <2>4, <2>6 DEF DrawsLeft
  <2>9. work_indexes_index[a] + Cardinality(DrawsLeft(a)') <= N * NumAtomics(a)
    BY <1>1, <2>1, <2>2, <2>8, DrawsKept DEF SameData
  <2>10. pc[t] \notin Drawing
    BY <1>1 DEF Drawing
  <2>11. Fresh(a)' \/ Published(a)' \/ work_indexes_index[a] >= NumAtomics(a)
    BY <1>2, <2>2 DEF TurnInv
  <2>12. QED
    BY <1>1, <1>2, <2>1, <2>5, <2>7, <2>9, <2>10, <2>11, DataKept
<1>5. QED
  BY <1>3, <1>4

(* Work on one task leaves the other tasks as they are.                    *)
LEMMA OtherTask ==
  ASSUME ProtocolTypeOK, LoopTypeOK, NEW t \in Threads, Step(t), NEW a \in Addrs, ChunksInv(a),
         task[t] # a, task' = task, deque' = deque, pc[t] # "start", pc'[t] # "start", SameData(a),
         \A s \in Threads : activities'[s].ptr = a <=> activities[s].ptr = a
  PROVE  ChunksInv(a)'
BY FreshKept, StepIsThreadStep, Untouched DEF Published

(* task_empty: the thread has drawn every round, so that the turn went     *)
(* round and no atomic waits to be drawn.                                  *)
LEMMA HideChunks ==
  ASSUME ProtocolInv, LoopTypeOK, NEW t \in Threads, Step(t), Signal(t),
         NEW a \in Addrs, ChunksInv(a)
  PROVE  ChunksInv(a)'
<1>1. Hides(t, "end")
  BY HideEffect DEF Signal
<1>2. /\ ProtocolTypeOK /\ task[t] \in Addrs
      /\ pc[t] \in {"signal", "cas", "add"} /\ pc'[t] \in {"cas", "add", "end"}
      /\ deque' = deque /\ task' = task /\ SameData(a)
      /\ UNCHANGED <<current_index, round, chunk>>
      /\ \A s \in Threads : \/ activities'[s].ptr = activities[s].ptr
                            \/ activities[s].ptr = task[t] /\ activities'[s].ptr = Null
  BY <1>1 DEF ProtocolInv, Hides, Signal, loopData, taskData, SameData
<1>3. pc[t] # "start" /\ pc'[t] # "start" /\ pc[t] \notin Drawing /\ pc'[t] \notin Drawing
  BY <1>2 DEF Drawing
<1>4. CASE task[t] # a
  BY <1>2, <1>3, <1>4, ProtocolAssumption, OtherTask
<1>5. CASE task[t] = a
  <2>1. StartInv(a) /\ kind[a] = "loop" /\ t \in Users(a)
    BY <1>2, <1>5 DEF ChunksInv, StartInv, Users, Working
  <2>2. RoundInv(a) /\ TurnInv(a)
    BY <2>1 DEF ChunksInv
  <2>3. Fresh(a)' = Fresh(a) /\ (Published(a)' => Published(a))
    BY <1>2, <1>3, FreshKept, StepIsThreadStep, ProtocolAssumption DEF Published
  <2>4. work_indexes_index[a] >= NumAtomics(a)
    BY <1>3, <2>1, <2>2 DEF RoundInv
  <2>5. Users(a)' = Users(a)
    BY <1>2, <1>5, <2>1, OwnLoop DEF Users, Working
  <2>6. \A u \in Users(a) \ {t} : pc'[u] = pc[u]
    BY <1>2, OwnLoop DEF Users
  <2>7. SameHolders(a)
    BY <1>2, <2>5, <2>6 DEF Holders, Carriers, Claiming, SameHolders
  <2>8. NumAtomics(a)' = NumAtomics(a)
    BY <1>2 DEF NumAtomics, SameData
  <2>9. RoundInv(a)'
    BY <1>2, <2>2, <2>4, <2>5, <2>6, <2>8 DEF Claiming, RoundInv, SameData
  <2>10. DrawsLeft(a)' \subseteq DrawsLeft(a)
    <3>1. ASSUME NEW d \in DrawsLeft(a)' PROVE d \in DrawsLeft(a)
      BY <1>2, <1>3, <2>3, <2>5, <2>6, <2>8, <3>1 DEF DrawsLeft
    <3>2. QED
      BY <3>1
  <2>11. work_indexes_index[a] + Cardinality(DrawsLeft(a)') <= N * NumAtomics(a)
    BY <1>2, <2>1, <2>2, <2>10, DrawsKept DEF SameData
  <2>12. QED
    BY <1>2, <1>3, <2>1, <2>3, <2>4, <2>7, <2>9, <2>11, DataKept
<1>6. QED
  BY <1>4, <1>5

(* A step of work on a task touches no other, and neither who works on it  *)
(* nor where it is offered.                                                *)
AtWork(t) ==
  /\ pc[t] \in Drawing /\ pc'[t] \in Working
  /\ task[t] \in Addrs
  /\ UNCHANGED <<kind, deque, activities, task, work_size>>
  /\ \A a \in Addrs \ {task[t]} : SameData(a)

(* What stays as it is: the other tasks, and of the task of the thread all *)
(* but what the thread does to it.                                         *)
LEMMA WorkEffect ==
  ASSUME ProtocolInv, LoopTypeOK, NEW t \in Threads, Step(t), AtWork(t),
         NEW a \in Addrs, ChunksInv(a)
  PROVE  /\ task[t] # a => ChunksInv(a)'
         /\ task[t] = a =>
              /\ StartInv(a) /\ kind[a] = "loop" /\ kind'[a] = "loop" /\ ~Fresh(a) /\ ~Fresh(a)'
              /\ RoundInv(a) /\ TurnInv(a) /\ IndexInv(a) /\ OwnerInv(a)
              /\ \A i \in DOMAIN work_size[a] : Kept(a, i)
              /\ t \in Users(a) /\ Users(a)' = Users(a) /\ Published(a)' = Published(a)
              /\ \A u \in Users(a) \ {t} :
                   /\ pc'[u] = pc[u] /\ round'[u] = round[u]
                   /\ chunk'[u] = chunk[u] /\ current_index'[u] = current_index[u]
              /\ StartInv(a)'
<1>1. /\ ProtocolTypeOK /\ task[t] \in Addrs
      /\ pc[t] \in Drawing /\ pc'[t] \in Working
      /\ UNCHANGED <<kind, deque, activities, task, work_size>>
      /\ pc[t] # "start" /\ pc'[t] # "start" /\ pc[t] \in Working
  BY DEF ProtocolInv, AtWork, Drawing, Working
<1>2. ASSUME task[t] # a PROVE ChunksInv(a)'
  BY <1>1, <1>2, OtherTask DEF AtWork
<1>3. ASSUME task[t] = a
      PROVE  /\ StartInv(a) /\ kind[a] = "loop" /\ kind'[a] = "loop" /\ ~Fresh(a) /\ ~Fresh(a)'
             /\ t \in Users(a) /\ Users(a)' = Users(a) /\ Published(a)' = Published(a)
  <2>1. StartInv(a) /\ kind[a] = "loop" /\ t \in Users(a)
    BY <1>1, <1>3 DEF ChunksInv, StartInv, Users
  <2>2. ~Fresh(a) /\ ~Fresh(a)'
    BY <1>1, <1>3, UsedIsNotFresh, FreshKept, StepIsThreadStep
  <2>3. Users(a)' = Users(a)
    BY <1>1, <1>3, <2>1, OwnLoop DEF Users
  <2>4. Published(a)' = Published(a)
    BY <1>1 DEF Published
  <2>5. QED
    BY <1>1, <2>1, <2>2, <2>3, <2>4
<1>4. \A u \in Users(a) \ {t} :
        /\ pc'[u] = pc[u] /\ round'[u] = round[u]
        /\ chunk'[u] = chunk[u] /\ current_index'[u] = current_index[u]
  BY <1>1, OwnLoop DEF Users
<1>5. ASSUME task[t] = a PROVE StartInv(a)'
  BY <1>1, <1>3, <1>5 DEF StartInv
<1>6. task[t] = a => /\ RoundInv(a) /\ TurnInv(a) /\ IndexInv(a) /\ OwnerInv(a)
                     /\ \A i \in DOMAIN work_size[a] : Kept(a, i)
  BY <1>3 DEF ChunksInv
<1>7. QED
  BY <1>2, <1>3, <1>4, <1>5, <1>6

(* The numbers of a task that a thread draws or claims from: there is room *)
(* for its turn and its index.                                             *)
LEMMA RoomLeft ==
  ASSUME LoopTypeOK, NEW a \in Addrs, StartInv(a), kind[a] = "loop", TurnInv(a), IndexInv(a)
  PROVE  /\ work_indexes_index[a] <= N * NumAtomics(a)
         /\ \A d \in DrawsLeft(a) : work_indexes_index[a] + 1 <= N * NumAtomics(a)
         /\ work_indexes_index[a] + 1 < U32
              \/ work_indexes_index[a] + 1 > N * NumAtomics(a)
         /\ \A i \in DOMAIN work_size[a] : \A t \in Holders(a) : work_indexes[a][i] + 1 < U32
<1> DEFINE m == N * NumAtomics(a)
           x == Cardinality(DrawsLeft(a))
           h == Cardinality(Holders(a))
           w == work_indexes_index[a]
           n == PoolSize(a)
<1>1. m \in Nat /\ w \in Nat /\ U32 \in Nat /\ n \in Nat /\ n + m < U32
  BY LoopNumbers, LoopValues
<1>2. x \in 0 .. m /\ h \in Nat
  BY Counts
<1>3. w + x <= m
  BY DEF TurnInv
<1>4. (\A d \in DrawsLeft(a) : x # 0) /\ \A t \in Holders(a) : h # 0
  BY Counts, FS_EmptySet
<1>5. ASSUME NEW i \in DOMAIN work_size[a], NEW t \in Holders(a)
      PROVE  work_indexes[a][i] + 1 < U32
  <2> DEFINE p == work_indexes[a][i]
             e == work_size[a][i]
  <2>1. p \in Nat /\ e \in Nat /\ e <= n
    <3>1. p \in 0 .. U32 - 1
      BY LoopValues
    <3>2. e \in 0 .. n
      BY LoopNumbers
    <3> HIDE DEF p, e, n
    <3>3. QED
      BY <1>1, <3>1, <3>2
  <2>2. Most(p, e) + h <= e + w
    BY DEF IndexInv
  <2>3. h # 0
    BY <1>4
  <2> HIDE DEF m, x, h, w, n, p, e
  <2>4. p + 1 < U32
    BY <1>1, <1>2, <1>3, <2>1, <2>2, <2>3 DEF Most
  <2>5. QED
    BY <2>4 DEF p
<1> HIDE DEF m, x, h, w, n
<1>6. w <= m
  BY <1>1, <1>2, <1>3
<1>7. ASSUME NEW d \in DrawsLeft(a) PROVE w + 1 <= m
  BY <1>1, <1>2, <1>3, <1>4
<1>8. w + 1 < U32 \/ w + 1 > m
  BY <1>1
<1>9. QED
  BY <1>5, <1>6, <1>7, <1>8 DEF m, w

(* The draw of an atomic: the thread that draws uses one of the draws that *)
(* are left to it, and holds the atomic whose turn it is.                  *)
LEMMA DrawChunks ==
  ASSUME ProtocolInv, LoopTypeOK, NEW t \in Threads, Step(t), DrawAtomic(t),
         NEW a \in Addrs, ChunksInv(a)
  PROVE  ChunksInv(a)'
<1> DEFINE w == work_indexes_index[a]
           A == NumAtomics(a)
<1>1. /\ ProtocolTypeOK /\ task[t] \in Addrs
      /\ pc[t] = "enter" /\ pc'[t] = "next"
      /\ current_index' = [current_index EXCEPT ![t] = AtomicDrawn(t)]
      /\ work_indexes_index' = [work_indexes_index EXCEPT ![task[t]]
                                  = (work_indexes_index[task[t]] + 1) % U32]
      /\ round' = [round EXCEPT ![t] = round[t] + 1]
      /\ UNCHANGED <<kind, deque, activities, task, work_size, work_indexes, done, chunk>>
  BY TaskIsAddress DEF ProtocolInv, DrawAtomic, shared, Working, Goto, ProtocolTypeOK
<1>2. AtWork(t)
  BY <1>1 DEF AtWork, Drawing, Working, SameData, LoopTypeOK
<1>3. CASE task[t] # a
  BY <1>2, <1>3, WorkEffect
<1>4. CASE task[t] = a
  <2>1. /\ StartInv(a) /\ kind[a] = "loop" /\ kind'[a] = "loop" /\ ~Fresh(a)'
        /\ RoundInv(a) /\ TurnInv(a) /\ IndexInv(a) /\ OwnerInv(a)
        /\ \A i \in DOMAIN work_size[a] : Kept(a, i)
        /\ t \in Users(a) /\ Users(a)' = Users(a) /\ Published(a)' = Published(a)
        /\ StartInv(a)'
    BY <1>2, <1>4, WorkEffect
  <2>2. \A u \in Users(a) \ {t} :
          /\ pc'[u] = pc[u] /\ round'[u] = round[u]
          /\ chunk'[u] = chunk[u] /\ current_index'[u] = current_index[u]
    BY <1>2, <1>4, WorkEffect
  <2>3. A \in Nat \ {0} /\ w \in Nat /\ round[t] \in Nat /\ round[t] < A /\ round[t] <= w
    BY <1>1, <2>1, LoopValues, SizesAssumption DEF LoopTypeOK, RoundInv
  <2>4. NumAtomics(a)' = A /\ round'[t] = round[t] + 1
    BY <1>1 DEF NumAtomics, LoopTypeOK
  <2>5. <<t, round[t] + 1>> \in DrawsLeft(a)
    BY <1>1, <2>1, <2>3 DEF DrawsLeft, Drawing
  <2>6. w + 1 <= N * A /\ work_indexes_index'[a] = w + 1
    <3>1. w + 1 <= N * A /\ (w + 1 < U32 \/ w + 1 > N * A)
      BY <2>1, <2>5, RoomLeft
    <3>2. N * A \in Nat
      BY <2>1, LoopNumbers
    <3>3. w + 1 < U32
      BY <2>3, <3>1, <3>2
    <3>4. (w + 1) % U32 = w + 1
      BY <2>3, <3>3, SizesAssumption
    <3>5. work_indexes_index'[a] = (w + 1) % U32
      BY <1>1, <1>4 DEF LoopTypeOK
    <3>6. QED
      BY <3>1, <3>4, <3>5
  <2>7. current_index'[t] = w % A /\ DOMAIN work_size[a] = 0 .. A - 1
        /\ w % A \in DOMAIN work_size[a] /\ (w < A => w % A = w)
    <3>1. current_index'[t] = w % A
      BY <1>1, <1>4 DEF AtomicDrawn, LoopTypeOK
    <3>2. DOMAIN work_size[a] = 0 .. A - 1
      BY <2>1, LoopNumbers
    <3>3. w % A \in 0 .. A - 1 /\ (w < A => w % A = w)
      BY <2>3
    <3>4. QED
      BY <3>1, <3>2, <3>3
  <2>8. RoundInv(a)'
    <3>1. \A u \in Users(a) \ {t} : round[u] \in Nat
      BY SizesAssumption DEF LoopTypeOK, Users
    <3>2. \A u \in Users(a) \ {t} :
            /\ pc'[u] = "enter" => round'[u] < A
            /\ pc'[u] \in Claiming => round'[u] \in 1 .. A /\ current_index'[u] \in DOMAIN work_size[a]
            /\ round'[u] <= w + 1
            /\ pc'[u] \notin Drawing => w + 1 >= A
      BY <2>1, <2>2, <2>3, <3>1 DEF RoundInv
    <3>3. /\ pc'[t] # "enter" /\ pc'[t] \in Drawing
          /\ round'[t] \in 1 .. A /\ round'[t] <= w + 1
          /\ current_index'[t] \in DOMAIN work_size[a]
      BY <1>1, <2>3, <2>4, <2>7 DEF Drawing
    <3>4. QED
      BY <1>1, <2>1, <2>4, <2>6, <3>2, <3>3 DEF RoundInv
  <2>9. DrawsLeft(a)' = DrawsLeft(a) \ {<<t, round[t] + 1>>}
    <3>1. ASSUME NEW d \in Threads \X (1 .. A)
          PROVE  d \in DrawsLeft(a)' <=> d \in DrawsLeft(a) /\ d # <<t, round[t] + 1>>
      <4>1. CASE d[1] \in Users(a) \ {t}
        BY <2>1, <2>2, <2>4, <4>1 DEF DrawsLeft
      <4>2. CASE d[1] \notin Users(a)
        BY <2>1, <2>4, <4>2 DEF DrawsLeft
      <4>3. CASE d[1] = t
        BY <1>1, <2>1, <2>3, <2>4, <4>3 DEF DrawsLeft, Drawing
      <4>4. QED
        BY <4>1, <4>2, <4>3
    <3>2. DrawsLeft(a) \subseteq Threads \X (1 .. A) /\ DrawsLeft(a)' \subseteq Threads \X (1 .. A)
      BY <2>4 DEF DrawsLeft
    <3> HIDE DEF A
    <3>3. QED
      BY <3>1, <3>2
  <2>10. TurnInv(a)'
    <3> DEFINE x == Cardinality(DrawsLeft(a))
               y == Cardinality(DrawsLeft(a)')
               m == N * A
    <3>1. x \in 0 .. m /\ m \in Nat /\ w + x <= m
      BY <2>1, Counts, <1>1, LoopNumbers DEF TurnInv
    <3>2. y = x - 1
      <4>1. IsFiniteSet(DrawsLeft(a))
        BY <2>1, Counts
      <4>2. \A d \in DrawsLeft(a) : Cardinality(DrawsLeft(a) \ {d}) = x - 1
        BY <4>1, FS_RemoveElement
      <4>3. QED
        BY <2>5, <2>9, <4>2
    <3>3. Published(a)' \/ w + 1 >= A
      BY <1>1, <2>1, <2>3, <1>4, UsedIsNotFresh DEF TurnInv
    <3> HIDE DEF x, y, m
    <3>4. w + 1 + y <= m
      BY <2>3, <3>1, <3>2
    <3>5. QED
      BY <2>4, <2>6, <3>3, <3>4 DEF TurnInv, y, m
  <2>11. Holders(a)' = Holders(a) \cup {t} /\ t \notin Holders(a) /\ Carriers(a)' = Carriers(a)
         /\ t \notin Carriers(a)
    BY <1>1, <2>1, <2>2 DEF Holders, Carriers, Claiming
  <2>12. IndexInv(a)'
    <3> DEFINE h == Cardinality(Holders(a))
    <3>1. Cardinality(Holders(a)') = h + 1 /\ h \in Nat
      BY <2>1, <2>11, Counts, FS_AddElement
    <3>2. ASSUME NEW i \in DOMAIN work_size[a]
          PROVE  /\ work_indexes[a][i] >= StartOf(a, i)
                 /\ Most(work_indexes[a][i], work_size[a][i]) + (h + 1) <= work_size[a][i] + (w + 1)
      <4> DEFINE p == work_indexes[a][i]
                 e == work_size[a][i]
      <4>1. p \in Nat /\ e \in Nat
        <5>1. p \in 0 .. U32 - 1 /\ U32 \in Nat
          BY <2>1, LoopValues, SizesAssumption
        <5>2. e \in 0 .. PoolSize(a) /\ PoolSize(a) \in Nat
          BY <2>1, LoopNumbers
        <5>3. QED
          BY <5>1, <5>2
      <4>2. p >= StartOf(a, i) /\ Most(p, e) + h <= e + w
        BY <2>1 DEF IndexInv
      <4>3. Most(p, e) \in Nat
        BY <4>1 DEF Most
      <4> HIDE DEF p, e, h
      <4>4. Most(p, e) + (h + 1) <= e + (w + 1)
        BY <2>3, <3>1, <4>1, <4>2, <4>3
      <4>5. QED
        BY <4>2, <4>4 DEF p, e
    <3> HIDE DEF h
    <3>3. QED
      BY <1>1, <2>6, <3>1, <3>2 DEF IndexInv, StartOf
  <2>13. OwnerInv(a)'
    BY <1>1, <2>1, <2>2, <2>11, OwnersKept DEF Taken, StartOf, Carriers
  <2>14. ASSUME NEW i \in DOMAIN work_size[a] PROVE Kept(a, i)'
    <3>1. CASE UsedUp(a, i)
      BY <1>1, <3>1 DEF Kept, UsedUp
    <3>2. CASE \E u \in Users(a) : pc[u] \in {"next", "body"} /\ current_index[u] = i
      <4>1. PICK u \in Users(a) : pc[u] \in {"next", "body"} /\ current_index[u] = i
        BY <3>2
      <4>2. u # t
        BY <1>1, <4>1
      <4>3. QED
        BY <2>1, <2>2, <4>1, <4>2 DEF Kept
    <3>3. CASE w <= i /\ \A u \in Users(a) : pc[u] \in {"enter", "next", "body"}
      <4>1. w < A /\ i \in Nat
        BY <2>3, <2>7, <3>3
      <4>2. CASE w = i
        BY <1>1, <2>1, <2>7, <4>1, <4>2 DEF Kept
      <4>3. CASE w < i
        BY <1>1, <2>1, <2>2, <2>3, <2>6, <3>3, <4>1, <4>3 DEF Kept
      <4>4. QED
        BY <2>3, <3>3, <4>1, <4>2, <4>3
    <3>4. QED
      BY <2>1, <3>1, <3>2, <3>3 DEF Kept
  <2>15. QED
    BY <1>1, <2>1, <2>8, <2>10, <2>12, <2>13, <2>14 DEF ChunksInv
<1>5. QED
  BY <1>3, <1>4

(* The ranges of two atomics have no chunk in common.                      *)
LEMMA RangesApart ==
  ASSUME NEW a \in Addrs, StartInv(a), kind[a] = "loop",
         NEW i \in DOMAIN work_size[a], NEW j \in DOMAIN work_size[a], i # j,
         NEW c \in StartOf(a, i) .. work_size[a][i] - 1
  PROVE  c \notin StartOf(a, j) .. work_size[a][j] - 1
<1>1. i \in Nat /\ j \in Nat
  <2>1. DOMAIN work_size[a] = 0 .. NumAtomics(a) - 1
    BY LoopNumbers
  <2>2. QED
    BY <2>1
<1>2. /\ work_size[a][i] \in Nat /\ work_size[a][j] \in Nat
      /\ StartOf(a, i) \in Nat /\ StartOf(a, j) \in Nat
      /\ i < j => work_size[a][i] <= StartOf(a, j)
      /\ j < i => work_size[a][j] <= StartOf(a, i)
  BY LoopNumbers
<1>3. CASE i < j
  BY <1>2, <1>3
<1>4. CASE j < i
  BY <1>2, <1>4
<1>5. QED
  BY <1>1, <1>3, <1>4

(* What a claim does to the index of the atomic, and to the thread.        *)
LEMMA ClaimEffect ==
  ASSUME ProtocolInv, LoopTypeOK, NEW t \in Threads, Step(t), ClaimChunk(t),
         \A a \in Addrs : ChunksInv(a)
  PROVE  LET a == task[t]
             i == current_index[t]
             c == work_indexes[a][i]
         IN  /\ AtWork(t) /\ pc[t] = "next" /\ a \in Addrs
             /\ i \in DOMAIN work_size[a] /\ c \in Nat /\ work_size[a][i] \in Nat
             /\ work_indexes'[a] = [work_indexes[a] EXCEPT ![i] = c + 1]
             /\ work_indexes'[a][i] = c + 1
             /\ \A j \in DOMAIN work_size[a] \ {i} : work_indexes'[a][j] = work_indexes[a][j]
             /\ chunk'[t] = c /\ current_index'[t] = i
             /\ UNCHANGED <<work_size, work_indexes_index, done>>
             /\ \/ /\ c < work_size[a][i] /\ pc'[t] = "body" /\ round'[t] = round[t]
                \/ /\ c >= work_size[a][i] /\ pc'[t] = "enter" /\ round'[t] = round[t]
                   /\ round[t] < NumAtomics(a)
                \/ /\ c >= work_size[a][i] /\ pc'[t] \in {"signal", "end"} /\ round'[t] = 0
                   /\ round[t] >= NumAtomics(a)
<1> DEFINE a == task[t]
           i == current_index[t]
           c == work_indexes[a][i]
<1>1. /\ ProtocolTypeOK /\ a \in Addrs /\ pc[t] = "next"
      /\ chunk' = [chunk EXCEPT ![t] = c]
      /\ work_indexes' = [work_indexes EXCEPT ![a][i] = (c + 1) % U32]
      /\ UNCHANGED <<kind, deque, activities, task, work_size, work_indexes_index, done>>
      /\ UNCHANGED current_index
  BY TaskIsAddress DEF ProtocolInv, ClaimChunk, shared, Working
<1>2. t \in Users(a) /\ ChunksInv(a)
  BY <1>1 DEF Users, Working
<1>3. StartInv(a) /\ kind[a] = "loop"
  BY <1>2 DEF ChunksInv, StartInv
<1>4. RoundInv(a) /\ TurnInv(a) /\ IndexInv(a)
  BY <1>2, <1>3 DEF ChunksInv
<1>5. i \in DOMAIN work_size[a] /\ round[t] \in Nat /\ NumAtomics(a) \in Nat
  BY <1>1, <1>2, <1>3, <1>4, LoopValues, SizesAssumption DEF RoundInv, Claiming, LoopTypeOK
<1>6. c \in Nat /\ work_size[a][i] \in Nat /\ c + 1 < U32 /\ U32 \in Nat
  <2>1. c \in 0 .. U32 - 1 /\ U32 \in Nat
    BY <1>1, <1>3, <1>5, LoopValues, SizesAssumption
  <2>2. work_size[a][i] \in 0 .. PoolSize(a) /\ PoolSize(a) \in Nat
    BY <1>1, <1>3, <1>5, LoopNumbers
  <2>3. t \in Holders(a)
    BY <1>1, <1>2 DEF Holders, Claiming
  <2>4. c + 1 < U32
    BY <1>1, <1>3, <1>4, <1>5, <2>3, RoomLeft
  <2>5. QED
    BY <2>1, <2>2, <2>4
<1>7. (c + 1) % U32 = c + 1
  BY <1>6
<1>8. /\ work_indexes'[a] = [work_indexes[a] EXCEPT ![i] = c + 1]
      /\ \A b \in Addrs \ {a} : work_indexes'[b] = work_indexes[b]
  BY <1>1, <1>7 DEF LoopTypeOK
<1>9. /\ work_indexes'[a][i] = c + 1
      /\ \A j \in DOMAIN work_size[a] \ {i} : work_indexes'[a][j] = work_indexes[a][j]
  BY <1>1, <1>5, <1>8 DEF LoopTypeOK
<1>10. chunk'[t] = c /\ current_index'[t] = i
  BY <1>1 DEF LoopTypeOK
<1>11. \/ /\ c < work_size[a][i] /\ pc'[t] = "body" /\ round'[t] = round[t]
       \/ /\ c >= work_size[a][i] /\ pc'[t] = "enter" /\ round'[t] = round[t]
          /\ round[t] < NumAtomics(a)
       \/ /\ c >= work_size[a][i] /\ pc'[t] \in {"signal", "end"} /\ round'[t] = 0
          /\ round[t] >= NumAtomics(a)
  <2>1. CASE c < work_size[a][i] /\ Goto(t, "body") /\ UNCHANGED round
    BY <1>1, <2>1 DEF Goto, ProtocolTypeOK
  <2>2. CASE c >= work_size[a][i] /\ RoundsLeft(t) /\ Goto(t, "enter") /\ UNCHANGED round
    BY <1>1, <2>2 DEF Goto, ProtocolTypeOK, RoundsLeft
  <2>3. CASE /\ c >= work_size[a][i] /\ ~RoundsLeft(t) /\ Goto(t, AfterLoop(t))
             /\ round' = [round EXCEPT ![t] = 0]
    BY <1>1, <1>5, <2>3 DEF AfterLoop, Goto, ProtocolTypeOK, LoopTypeOK, RoundsLeft
  <2>4. QED
    BY <2>1, <2>2, <2>3 DEF ClaimChunk
<1>12. AtWork(t)
  BY <1>1, <1>8, <1>11 DEF Drawing, Working, SameData, AtWork
<1>13. QED
  BY <1>1, <1>5, <1>6, <1>8, <1>9, <1>10, <1>11, <1>12

(* A claim that finds a chunk: nobody has it, for the index only grows and *)
(* no other atomic has it in its range.                                    *)
LEMMA TakeChunks ==
  ASSUME ProtocolInv, LoopTypeOK, NEW t \in Threads, Step(t), ClaimChunk(t),
         \A b \in Addrs : ChunksInv(b), pc'[t] = "body"
  PROVE  ChunksInv(task[t])'
<1> DEFINE a == task[t]
           i == current_index[t]
           c == work_indexes[a][i]
           w == work_indexes_index[a]
<1>1. /\ AtWork(t) /\ pc[t] = "next" /\ a \in Addrs
      /\ i \in DOMAIN work_size[a] /\ c \in Nat /\ work_size[a][i] \in Nat
      /\ work_indexes'[a][i] = c + 1
      /\ \A j \in DOMAIN work_size[a] \ {i} : work_indexes'[a][j] = work_indexes[a][j]
      /\ chunk'[t] = c /\ current_index'[t] = i
      /\ UNCHANGED <<work_size, work_indexes_index, done>>
      /\ c < work_size[a][i] /\ round'[t] = round[t]
  BY ClaimEffect
<1>2. /\ task' = task
      /\ ChunksInv(a)
  BY <1>1 DEF AtWork
<1>3. /\ StartInv(a) /\ kind[a] = "loop" /\ kind'[a] = "loop"
      /\ RoundInv(a) /\ TurnInv(a) /\ IndexInv(a) /\ OwnerInv(a)
      /\ \A j \in DOMAIN work_size[a] : Kept(a, j)
      /\ t \in Users(a) /\ Users(a)' = Users(a) /\ Published(a)' = Published(a)
      /\ ~Fresh(a) /\ StartInv(a)'
  BY <1>1, <1>2, WorkEffect
<1>4. \A u \in Users(a) \ {t} :
        /\ pc'[u] = pc[u] /\ round'[u] = round[u]
        /\ chunk'[u] = chunk[u] /\ current_index'[u] = current_index[u]
  BY <1>1, <1>2, WorkEffect
<1>5. a' = a
  BY <1>2
<1> HIDE DEF a
<1>6. NumAtomics(a)' = NumAtomics(a)
  BY <1>1, <1>5 DEF NumAtomics
<1>7. RoundInv(a)'
  BY <1>1, <1>3, <1>4, <1>5, <1>6 DEF Claiming, Drawing, RoundInv
<1>8. TurnInv(a)'
  BY <1>1, <1>3, <1>4, <1>5, <1>6 DEF DrawsLeft, Drawing, TurnInv
<1>9. Holders(a)' = Holders(a) /\ Carriers(a)' = Carriers(a) \cup {t} /\ t \notin Carriers(a)
  BY <1>1, <1>3, <1>4, <1>5 DEF Holders, Carriers, Claiming
<1>10. IndexInv(a)'
  <2>1. ASSUME NEW j \in DOMAIN work_size[a]
        PROVE  /\ work_indexes'[a][j] >= StartOf(a, j)
               /\ Most(work_indexes'[a][j], work_size[a][j]) + Cardinality(Holders(a))
                    <= work_size[a][j] + w
    <3>1. /\ work_indexes[a][j] >= StartOf(a, j)
          /\ Most(work_indexes[a][j], work_size[a][j]) + Cardinality(Holders(a))
               <= work_size[a][j] + w
      BY <1>3 DEF IndexInv
    <3>2. CASE j # i
      BY <1>1, <3>1, <3>2
    <3>3. CASE j = i
      <4>1. Most(c + 1, work_size[a][i]) = Most(c, work_size[a][i])
        BY <1>1 DEF Most
      <4>2. StartOf(a, i) \in Int
        BY <1>1, <1>3, LoopNumbers
      <4>3. c + 1 >= StartOf(a, i)
        BY <1>1, <3>1, <3>3, <4>2
      <4>4. QED
        BY <1>1, <3>1, <3>3, <4>1, <4>3
    <3>4. QED
      BY <3>2, <3>3
  <2>2. QED
    BY <1>1, <1>5, <1>9, <2>1 DEF IndexInv, StartOf
<1>11. /\ Taken(a, i)' = Taken(a, i) \cup {c} /\ c \notin Taken(a, i)
       /\ \A j \in DOMAIN work_size[a] \ {i} : Taken(a, j)' = Taken(a, j) /\ c \notin Taken(a, j)
  <2>1. c >= StartOf(a, i) /\ StartOf(a, i) \in Nat
    BY <1>1, <1>3, LoopNumbers DEF IndexInv
  <2>2. c \in StartOf(a, i) .. work_size[a][i] - 1
    BY <1>1, <2>1
  <2>3. ASSUME NEW j \in DOMAIN work_size[a] \ {i} PROVE Taken(a, j)' = Taken(a, j) /\ c \notin Taken(a, j)
    BY <1>1, <1>3, <1>5, <2>2, RangesApart DEF Taken, StartOf
  <2>4. StartOf(a, i)' = StartOf(a, i)
    BY <1>1, <1>5 DEF StartOf
  <2>5. Taken(a, i)' = {d \in StartOf(a, i) .. work_size[a][i] - 1 : d < c + 1}
    BY <1>1, <1>5, <2>4 DEF Taken
  <2>6. Taken(a, i) = {d \in StartOf(a, i) .. work_size[a][i] - 1 : d < c}
    BY DEF Taken
  <2> HIDE DEF c, i
  <2>7. \A d \in StartOf(a, i) .. work_size[a][i] - 1 : d < c + 1 <=> d < c \/ d = c
    BY <1>1, <2>1
  <2>8. QED
    BY <1>1, <2>1, <2>2, <2>3, <2>5, <2>6, <2>7
<1>12. OwnerInv(a)'
  <2>1. Claimed(a)' = Claimed(a) \cup {c} /\ c \notin Claimed(a)
    BY <1>1, <1>5, <1>11 DEF Claimed
  <2>2. done'[a] \subseteq Claimed(a) /\ c \notin done'[a] /\ done'[a] = done[a]
    BY <1>1, <1>3, <2>1 DEF OwnerInv
  <2>3. \A u \in Carriers(a) :
          /\ u # t /\ chunk'[u] = chunk[u] /\ current_index'[u] = current_index[u]
          /\ current_index[u] \in DOMAIN work_size[a]
          /\ chunk[u] \in Taken(a, current_index[u]) \ done[a]
          /\ chunk[u] # c
    BY <1>3, <1>4, <1>9, <1>11 DEF Carriers, RoundInv, Claiming, OwnerInv
  <2>4. \A u \in Carriers(a)' : chunk'[u] \in Taken(a, current_index[u])' \ done'[a]
    <3>1. ASSUME NEW j \in DOMAIN work_size[a] PROVE Taken(a, j) \subseteq Taken(a, j)'
      <4>1. CASE j = i
        BY <1>1, <1>11, <4>1
      <4>2. CASE j # i
        BY <1>11, <4>2
      <4>3. QED
        BY <4>1, <4>2
    <3>2. \A u \in Carriers(a) : chunk'[u] \in Taken(a, current_index[u])' \ done'[a]
      BY <2>2, <2>3, <3>1
    <3>3. chunk'[t] \in Taken(a, current_index[t])' \ done'[a]
      BY <1>1, <1>11, <2>2
    <3>4. QED
      BY <1>9, <3>2, <3>3
  <2>5. \A u, v \in Carriers(a)' : chunk'[u] = chunk'[v] => u = v
    BY <1>1, <1>3, <1>9, <2>3 DEF OwnerInv
  <2>6. ASSUME NEW d \in Claimed(a)' \ done'[a] PROVE \E u \in Carriers(a)' : chunk'[u] = d
    <3>1. CASE d = c
      BY <1>1, <1>9, <3>1
    <3>2. CASE d # c
      <4>1. d \in Claimed(a) \ done[a]
        BY <2>1, <2>2, <3>2
      <4>2. PICK u \in Carriers(a) : chunk[u] = d
        BY <1>3, <4>1 DEF OwnerInv
      <4>3. QED
        BY <1>9, <2>3, <4>2
    <3>3. QED
      BY <3>1, <3>2
  <2>7. QED
    BY <2>1, <2>2, <2>4, <2>5, <2>6, <1>5 DEF OwnerInv
<1>13. ASSUME NEW j \in DOMAIN work_size[a] PROVE Kept(a, j)'
  <2>1. CASE j = i
    BY <1>1, <1>3, <1>5, <2>1 DEF Kept
  <2>2. CASE j # i
    <3>1. CASE UsedUp(a, j)
      BY <1>1, <1>5, <2>2, <3>1 DEF Kept, UsedUp
    <3>2. CASE \E u \in Users(a) : pc[u] \in {"next", "body"} /\ current_index[u] = j
      <4>1. PICK u \in Users(a) : pc[u] \in {"next", "body"} /\ current_index[u] = j
        BY <3>2
      <4>2. u # t
        BY <2>2, <4>1
      <4>3. QED
        BY <1>3, <1>4, <1>5, <4>1, <4>2 DEF Kept
    <3>3. CASE w <= j /\ \A u \in Users(a) : pc[u] \in {"enter", "next", "body"}
      BY <1>1, <1>3, <1>4, <1>5, <3>3 DEF Kept
    <3>4. QED
      BY <1>3, <3>1, <3>2, <3>3 DEF Kept
  <2>3. QED
    BY <2>1, <2>2
<1>14. ChunksInv(a)'
  BY <1>1, <1>3, <1>5, <1>7, <1>8, <1>10, <1>12, <1>13 DEF ChunksInv
<1>15. QED
  BY <1>14 DEF a

(* A vain claim: the thread goes on to its next draw, or is through.  It   *)
(* leaves the atomic used up, and the others as they were; after its last  *)
(* round no atomic waits to be drawn.                                      *)
LEMMA VainChunks ==
  ASSUME ProtocolInv, LoopTypeOK, NEW t \in Threads, Step(t), ClaimChunk(t),
         \A b \in Addrs : ChunksInv(b), pc'[t] # "body"
  PROVE  ChunksInv(task[t])'
<1> DEFINE a == task[t]
           i == current_index[t]
           c == work_indexes[a][i]
           w == work_indexes_index[a]
           A == NumAtomics(a)
<1>1. /\ AtWork(t) /\ pc[t] = "next" /\ a \in Addrs
      /\ i \in DOMAIN work_size[a] /\ c \in Nat /\ work_size[a][i] \in Nat
      /\ work_indexes'[a][i] = c + 1
      /\ \A j \in DOMAIN work_size[a] \ {i} : work_indexes'[a][j] = work_indexes[a][j]
      /\ UNCHANGED <<work_size, work_indexes_index, done>>
      /\ c >= work_size[a][i]
      /\ \/ pc'[t] = "enter" /\ round'[t] = round[t] /\ round[t] < A
         \/ pc'[t] \in {"signal", "end"} /\ round'[t] = 0 /\ round[t] >= A
  BY ClaimEffect
<1>2. /\ task' = task
      /\ ChunksInv(a)
  BY <1>1 DEF AtWork
<1>3. /\ StartInv(a) /\ kind[a] = "loop" /\ kind'[a] = "loop"
      /\ RoundInv(a) /\ TurnInv(a) /\ IndexInv(a) /\ OwnerInv(a)
      /\ \A j \in DOMAIN work_size[a] : Kept(a, j)
      /\ t \in Users(a) /\ Users(a)' = Users(a) /\ Published(a)' = Published(a)
      /\ ~Fresh(a) /\ StartInv(a)'
  BY <1>1, <1>2, WorkEffect
<1>4. \A u \in Users(a) \ {t} :
        /\ pc'[u] = pc[u] /\ round'[u] = round[u]
        /\ chunk'[u] = chunk[u] /\ current_index'[u] = current_index[u]
  BY <1>1, <1>2, WorkEffect
<1>5. a' = a
  BY <1>2
<1> HIDE DEF a
<1>6. A' = A /\ A \in Nat \ {0} /\ w \in Nat /\ DOMAIN work_size[a] = 0 .. A - 1
      /\ round[t] \in Nat
  <2>1. A' = A
    BY <1>1, <1>5 DEF NumAtomics
  <2>2. A \in Nat \ {0} /\ w \in Nat
    BY <1>1, <1>3, LoopValues
  <2>3. DOMAIN work_size[a] = 0 .. A - 1
    BY <1>1, <1>3, LoopNumbers
  <2>4. round[t] \in Nat
    BY SizesAssumption DEF LoopTypeOK
  <2>5. QED
    BY <2>1, <2>2, <2>3, <2>4
<1>7. pc'[t] \in {"signal", "end"} => w >= A
  BY <1>1, <1>3, <1>6 DEF RoundInv
<1>8. RoundInv(a)'
  <2>1. pc'[t] \notin Claiming
    BY <1>1 DEF Claiming
  <2>2. pc'[t] = "enter" => round'[t] < A
    BY <1>1
  <2>3. round'[t] <= w
    BY <1>1, <1>3, <1>6 DEF RoundInv
  <2>4. pc'[t] \notin Drawing => w >= A
    BY <1>1, <1>7 DEF Drawing
  <2>5. QED
    BY <1>1, <1>3, <1>4, <1>5, <1>6, <2>1, <2>2, <2>3, <2>4 DEF RoundInv
<1>9. TurnInv(a)'
  <2>1. DrawsLeft(a)' \subseteq DrawsLeft(a)
    <3>1. ASSUME NEW d \in DrawsLeft(a)' PROVE d \in DrawsLeft(a)
      <4>1. /\ d \in Threads \X (1 .. A)
            /\ IF d[1] \in Users(a) THEN pc'[d[1]] \in Drawing /\ d[2] > round'[d[1]]
                                    ELSE Published(a)
        BY <1>3, <1>5, <1>6, <3>1 DEF DrawsLeft
      <4>2. CASE d[1] = t
        BY <1>1, <1>3, <4>1, <4>2 DEF Drawing, DrawsLeft
      <4>3. CASE d[1] # t
        BY <1>4, <4>1, <4>3 DEF DrawsLeft
      <4>4. QED
        BY <4>2, <4>3
    <3>2. QED
      BY <3>1
  <2>2. w + Cardinality(DrawsLeft(a)') <= N * A
    BY <1>1, <1>3, <1>5, <2>1, DrawsKept
  <2>3. Fresh(a)' \/ Published(a)' \/ w >= A
    BY <1>3 DEF TurnInv
  <2>4. w' = w
    BY <1>1, <1>5
  <2> HIDE DEF w, A
  <2>5. w' + Cardinality(DrawsLeft(a)') <= N * A'
    BY <1>6, <2>2, <2>4
  <2>6. QED
    BY <1>6, <2>3, <2>4, <2>5 DEF TurnInv, w, A
<1>10. Holders(a)' = Holders(a) \ {t} /\ t \in Holders(a) /\ Carriers(a)' = Carriers(a)
       /\ t \notin Carriers(a)
  BY <1>1, <1>3, <1>4, <1>5 DEF Holders, Carriers, Claiming
<1>11. IndexInv(a)'
  <2> DEFINE h == Cardinality(Holders(a))
  <2>1. Cardinality(Holders(a)') = h - 1 /\ h \in Nat
    BY <1>1, <1>3, <1>10, Counts, FS_RemoveElement
  <2>2. ASSUME NEW j \in DOMAIN work_size[a]
        PROVE  /\ work_indexes'[a][j] >= StartOf(a, j)
               /\ Most(work_indexes'[a][j], work_size[a][j]) + (h - 1) <= work_size[a][j] + w
    <3>1. /\ work_indexes[a][j] >= StartOf(a, j)
          /\ Most(work_indexes[a][j], work_size[a][j]) + h <= work_size[a][j] + w
      BY <1>3 DEF IndexInv
    <3>2. work_indexes[a][j] \in Nat /\ work_size[a][j] \in Nat /\ StartOf(a, j) \in Int
      <4>1. work_indexes[a][j] \in 0 .. U32 - 1
        BY <1>1, <1>3, LoopValues
      <4>2. work_size[a][j] \in 0 .. PoolSize(a) /\ StartOf(a, j) \in 0 .. work_size[a][j]
        BY <1>1, <1>3, LoopNumbers
      <4>3. QED
        BY <4>1, <4>2
    <3> HIDE DEF h
    <3>3. CASE j # i
      <4>1. work_indexes'[a][j] = work_indexes[a][j]
        BY <1>1, <3>3
      <4>2. Most(work_indexes[a][j], work_size[a][j]) \in Int
        BY <3>2 DEF Most
      <4>3. QED
        BY <1>6, <2>1, <3>1, <3>2, <4>1, <4>2
    <3>4. CASE j = i
      <4>1. /\ Most(c + 1, work_size[a][i]) = c + 1 /\ Most(c, work_size[a][i]) = c
            /\ work_indexes'[a][j] = c + 1
        BY <1>1, <3>4 DEF Most
      <4>2. c + h <= work_size[a][j] + w /\ c >= StartOf(a, j)
        BY <3>1, <3>4, <4>1
      <4>3. c \in Nat /\ w \in Nat /\ h \in Nat
        BY <1>1, <1>6, <2>1
      <4> HIDE DEF c, w
      <4>4. c + 1 + (h - 1) <= work_size[a][j] + w /\ c + 1 >= StartOf(a, j)
        BY <3>2, <4>2, <4>3
      <4>5. QED
        BY <3>4, <4>1, <4>4
    <3>5. QED
      BY <3>3, <3>4
  <2>3. QED
    BY <1>1, <1>5, <2>1, <2>2 DEF IndexInv, StartOf
<1>12. OwnerInv(a)'
  <2>1. ASSUME NEW j \in DOMAIN work_size[a] PROVE Taken(a, j)' = Taken(a, j)
    <3>1. StartOf(a, j)' = StartOf(a, j)
      BY <1>1, <1>5 DEF StartOf
    <3>2. \A d \in StartOf(a, j) .. work_size[a][j] - 1 :
            d < work_indexes'[a][j] <=> d < work_indexes[a][j]
      <4>1. CASE j # i
        BY <1>1, <4>1
      <4>2. CASE j = i
        BY <1>1, <1>3, <4>2, LoopNumbers
      <4>3. QED
        BY <4>1, <4>2
    <3>3. QED
      BY <1>1, <1>5, <3>1, <3>2 DEF Taken
  <2>2. \A u \in Carriers(a) : current_index'[u] = current_index[u] /\ chunk'[u] = chunk[u]
    BY <1>4, <1>10 DEF Carriers
  <2>3. a \in Addrs /\ work_size'[a] = work_size[a] /\ done'[a] = done[a]
    BY <1>1
  <2>4. \A j \in DOMAIN work_size[a] : Taken(a, j)' = Taken(a, j)
    BY <2>1
  <2>5. QED
    BY <1>3, <1>5, <1>10, <2>2, <2>3, <2>4, OwnersKept
<1>13. ASSUME NEW j \in DOMAIN work_size[a] PROVE Kept(a, j)'
  <2>1. CASE j = i
    BY <1>1, <1>5, <2>1 DEF Kept, UsedUp
  <2>2. CASE j # i
    <3>1. CASE UsedUp(a, j)
      BY <1>1, <1>5, <2>2, <3>1 DEF Kept, UsedUp
    <3>2. CASE \E u \in Users(a) : pc[u] \in {"next", "body"} /\ current_index[u] = j
      <4>1. PICK u \in Users(a) : pc[u] \in {"next", "body"} /\ current_index[u] = j
        BY <3>2
      <4>2. u # t
        BY <2>2, <4>1
      <4>3. QED
        BY <1>3, <1>4, <1>5, <4>1, <4>2 DEF Kept
    <3>3. CASE w <= j /\ \A u \in Users(a) : pc[u] \in {"enter", "next", "body"}
      BY <1>1, <1>3, <1>4, <1>5, <1>6, <1>7, <3>3 DEF Kept
    <3>4. QED
      BY <1>3, <3>1, <3>2, <3>3 DEF Kept
  <2>3. QED
    BY <2>1, <2>2
<1>14. ChunksInv(a)'
  BY <1>1, <1>3, <1>5, <1>8, <1>9, <1>11, <1>12, <1>13 DEF ChunksInv
<1>15. QED
  BY <1>14 DEF a

(* A claim, vain or not.                                                   *)
LEMMA ClaimChunks ==
  ASSUME ProtocolInv, LoopTypeOK, NEW t \in Threads, Step(t), ClaimChunk(t),
         \A b \in Addrs : ChunksInv(b), NEW a \in Addrs
  PROVE  ChunksInv(a)'
<1>1. AtWork(t)
  BY ClaimEffect
<1>2. task' = task
  BY <1>1 DEF AtWork
<1>3. CASE task[t] # a
  BY <1>1, <1>3, WorkEffect
<1>4. CASE task[t] = a
  BY <1>2, <1>4, TakeChunks, VainChunks
<1>5. QED
  BY <1>3, <1>4

(* The execution of a chunk: it is done, and carried no longer.            *)
LEMMA RunChunks ==
  ASSUME ProtocolInv, LoopTypeOK, NEW t \in Threads, Step(t), RunChunk(t),
         NEW a \in Addrs, ChunksInv(a)
  PROVE  ChunksInv(a)'
<1>1. /\ ProtocolTypeOK /\ task[t] \in Addrs
      /\ pc[t] = "body" /\ pc'[t] = "next"
      /\ done' = [done EXCEPT ![task[t]] = done[task[t]] \cup {chunk[t]}]
      /\ UNCHANGED <<kind, deque, activities, task, work_size, work_indexes, work_indexes_index>>
      /\ UNCHANGED <<current_index, round, chunk>>
  BY TaskIsAddress DEF ProtocolInv, RunChunk, shared, Working, Goto, ProtocolTypeOK
<1>2. AtWork(t)
  BY <1>1 DEF AtWork, Drawing, Working, SameData, LoopTypeOK
<1>3. CASE task[t] # a
  BY <1>2, <1>3, WorkEffect
<1>4. CASE task[t] = a
  <2>1. /\ StartInv(a) /\ kind[a] = "loop" /\ kind'[a] = "loop"
        /\ RoundInv(a) /\ TurnInv(a) /\ IndexInv(a) /\ OwnerInv(a)
        /\ \A i \in DOMAIN work_size[a] : Kept(a, i)
        /\ t \in Users(a) /\ Users(a)' = Users(a) /\ Published(a)' = Published(a)
        /\ ~Fresh(a) /\ ~Fresh(a)'
    BY <1>2, <1>4, WorkEffect
  <2>2. StartInv(a)'
    BY <1>2, <1>4, WorkEffect
  <2>3. \A u \in Users(a) \ {t} :
          /\ pc'[u] = pc[u] /\ round'[u] = round[u]
          /\ chunk'[u] = chunk[u] /\ current_index'[u] = current_index[u]
    BY <1>2, <1>4, WorkEffect
  <2>4. NumAtomics(a)' = NumAtomics(a)
    BY <1>1 DEF NumAtomics
  <2>5. pc[t] \in Claiming /\ pc'[t] \in Claiming /\ pc[t] \in Drawing /\ pc'[t] \in Drawing
    BY <1>1 DEF Claiming, Drawing
  <2>6. RoundInv(a)'
    BY <1>1, <2>1, <2>3, <2>4, <2>5 DEF RoundInv
  <2>7. TurnInv(a)'
    BY <1>1, <2>1, <2>3, <2>4, <2>5 DEF DrawsLeft, TurnInv
  <2>8. /\ Holders(a)' = Holders(a)
        /\ Carriers(a)' = Carriers(a) \ {t} /\ t \in Carriers(a)
    BY <1>1, <2>1, <2>3, <2>5 DEF Holders, Carriers
  <2>9. IndexInv(a)'
    BY <1>1, <2>1, <2>8 DEF IndexInv, StartOf
  <2>10. OwnerInv(a)'
    <3>1. done'[a] = done[a] \cup {chunk[t]}
      BY <1>1, <1>4 DEF LoopTypeOK
    <3>2. \A i : Taken(a, i)' = Taken(a, i)
      BY <1>1 DEF Taken, StartOf
    <3>3. Claimed(a)' = Claimed(a)
      BY <1>1, <3>2 DEF Claimed
    <3>4. chunk[t] \in Claimed(a)
      BY <2>1, <2>5, <2>8 DEF RoundInv, OwnerInv, Claimed
    <3>5. done'[a] \subseteq Claimed(a)'
      BY <2>1, <3>1, <3>3, <3>4 DEF OwnerInv
    <3>6. ASSUME NEW u \in Carriers(a)'
          PROVE  chunk'[u] \in Taken(a, current_index[u])' \ done'[a]
      BY <1>1, <2>1, <2>8, <3>1, <3>2 DEF OwnerInv
    <3>7. \A u, v \in Carriers(a)' : chunk'[u] = chunk'[v] => u = v
      BY <1>1, <2>1, <2>8 DEF OwnerInv
    <3>8. ASSUME NEW c \in Claimed(a)' \ done'[a] PROVE \E u \in Carriers(a)' : chunk'[u] = c
      <4>1. c \in Claimed(a) \ done[a] /\ c # chunk[t]
        BY <3>1, <3>3
      <4>2. PICK u \in Carriers(a) : chunk[u] = c
        BY <2>1, <4>1 DEF OwnerInv
      <4>3. QED
        BY <1>1, <2>8, <4>1, <4>2
    <3>9. QED
      BY <3>5, <3>6, <3>7, <3>8 DEF OwnerInv
  <2>11. ASSUME NEW i \in DOMAIN work_size[a] PROVE Kept(a, i)'
    <3>1. CASE UsedUp(a, i)
      BY <1>1, <3>1 DEF Kept, UsedUp
    <3>2. CASE \E u \in Users(a) : pc[u] \in {"next", "body"} /\ current_index[u] = i
      <4>1. PICK u \in Users(a) : pc[u] \in {"next", "body"} /\ current_index[u] = i
        BY <3>2
      <4>2. pc'[u] \in {"next", "body"} /\ current_index'[u] = i
        BY <1>1, <2>3, <4>1
      <4>3. QED
        BY <2>1, <4>2 DEF Kept
    <3>3. CASE /\ work_indexes_index[a] <= i
               /\ \A u \in Users(a) : pc[u] \in {"enter", "next", "body"}
      BY <1>1, <2>1, <2>3, <3>3 DEF Kept
    <3>4. QED
      BY <2>1, <3>1, <3>2, <3>3 DEF Kept
  <2>12. QED
    BY <1>1, <2>1, <2>2, <2>6, <2>7, <2>9, <2>10, <2>11 DEF ChunksInv
<1>5. QED
  BY <1>3, <1>4

(* finish: nobody knows the task, and its address is free.                 *)
LEMMA FinishChunks ==
  ASSUME ProtocolInv, LoopTypeOK, NEW t \in Threads, Step(t), FinishTask(t),
         NEW a \in Addrs, ChunksInv(a)
  PROVE  ChunksInv(a)'
<1>1. Frees(t)
  BY FreeEffect DEF FinishTask
<1>2. /\ ProtocolTypeOK /\ task[t] \in Addrs /\ pc[t] = "finish" /\ pc'[t] = "after"
      /\ task'[t] = Null /\ Null \notin Addrs
      /\ kind' = [kind EXCEPT ![task[t]] = "free"]
      /\ work_size' = [work_size EXCEPT ![task[t]] = NoAtomics]
      /\ work_indexes' = [work_indexes EXCEPT ![task[t]] = NoAtomics]
      /\ done' = [done EXCEPT ![task[t]] = {}]
      /\ UNCHANGED <<activities, work_indexes_index>>
  BY <1>1, ProtocolAssumption DEF ProtocolInv, Frees, FinishTask
<1>3. (Fresh(a)' <=> Fresh(a)) /\ (Published(a)' <=> Published(a))
  BY <1>1, <1>2 DEF Frees, Published
<1>4. CASE task[t] # a
  BY <1>2, <1>3, <1>4, Untouched DEF SameData, ProtocolTypeOK, LoopTypeOK
<1>5. CASE task[t] = a
  <2>1. kind'[a] = "free" /\ work_size'[a] = NoAtomics /\ done'[a] = {}
    BY <1>2, <1>5 DEF ProtocolTypeOK, LoopTypeOK
  <2>2. ~Fresh(a)'
    BY <1>1, <1>3, <1>5 DEF Frees
  <2>3. Users(a)' = {}
    BY <1>1, <1>2, <1>5, OwnLoop DEF Frees, Users
  <2>4. DOMAIN NoAtomics = {}
    BY DEF NoAtomics
  <2>5. QED
    BY <2>1, <2>2, <2>3, <2>4 DEF ChunksInv, StartInv
<1>6. QED
  BY <1>4, <1>5

(* The atomics of a new loop: each starts where the one before it ends.    *)
LEMMA NewLoop ==
  ASSUME NEW n \in Sizes
  PROVE  /\ DOMAIN Starts(n) = DOMAIN Ends(n)
         /\ N * Cardinality(DOMAIN Ends(n)) \in Nat
         /\ \A i \in DOMAIN Ends(n) :
              /\ i \in Nat
              /\ Ends(n)[i] \in Nat
              /\ Starts(n)[i] \in 0 .. Ends(n)[i]
              /\ Starts(n)[i] = IF i = 0 THEN 0 ELSE Ends(n)[i - 1]
<1> DEFINE A == Atomics(n)
<1>1. n \in Nat /\ A \in 1 .. ATOMICS /\ ATOMICS \in Nat /\ N \in Nat
  BY SizesAssumption, ProtocolAssumption, AtomicCount
<1>2. /\ DOMAIN Ends(n) = 0 .. A - 1
      /\ \A i \in 0 .. A - 1 : Ends(n)[i] \in 0 .. n
      /\ \A i, j \in 0 .. A - 1 : i <= j => Ends(n)[i] <= Ends(n)[j]
  BY <1>1, EndsShape
<1> HIDE DEF A
<1>3. Cardinality(DOMAIN Ends(n)) \in Nat
  BY <1>1, <1>2, FS_Interval, FS_CardinalityType
<1>4. ASSUME NEW i \in DOMAIN Ends(n)
      PROVE  /\ i \in Nat
             /\ Ends(n)[i] \in Nat
             /\ Starts(n)[i] \in 0 .. Ends(n)[i]
             /\ Starts(n)[i] = IF i = 0 THEN 0 ELSE Ends(n)[i - 1]
  <2>1. i \in 0 .. A - 1 /\ Ends(n)[i] \in 0 .. n
    BY <1>2
  <2>2. Starts(n)[i] = IF i = 0 THEN 0 ELSE Ends(n)[i - 1]
    BY DEF Starts
  <2>3. CASE i = 0
    BY <1>1, <2>1, <2>2, <2>3
  <2>4. CASE i # 0
    BY <1>1, <1>2, <2>1, <2>2, <2>4
  <2>5. QED
    BY <2>3, <2>4
<1>5. QED
  BY <1>1, <1>3, <1>4 DEF Starts

(* push_task: nobody knows the address yet; all chunks are to be claimed.  *)
LEMMA CreateChunks ==
  ASSUME ProtocolInv, LoopTypeOK, NEW t \in Threads, Step(t), CreateTask(t),
         NEW a \in Addrs, ChunksInv(a)
  PROVE  ChunksInv(a)'
<1>1. PICK b \in Addrs, k \in {"single", "loop"} : \E r \in Ranges(k) :
        /\ SpawnTask(t, b, k)
        /\ work_size' = [work_size EXCEPT ![b] = r.end]
        /\ work_indexes' = [work_indexes EXCEPT ![b] = r.start]
        /\ work_indexes_index' = [work_indexes_index EXCEPT ![b] = 0]
        /\ UNCHANGED <<done, current_index, round, chunk>>
  BY DEF CreateTask
<1>2. PICK r \in Ranges(k) :
        /\ SpawnTask(t, b, k)
        /\ work_size' = [work_size EXCEPT ![b] = r.end]
        /\ work_indexes' = [work_indexes EXCEPT ![b] = r.start]
        /\ work_indexes_index' = [work_indexes_index EXCEPT ![b] = 0]
        /\ UNCHANGED <<done, current_index, round, chunk>>
  BY <1>1
<1>3. /\ ProtocolTypeOK
      /\ kind[b] = "free" /\ kind' = [kind EXCEPT ![b] = k]
      /\ UNCHANGED <<activities, pc, task>>
      /\ \A e \in Addrs : Fresh(e)' <=> Fresh(e) \/ e = b
      /\ ~Published(b) /\ \A u \in Threads : task[u] # b
  BY <1>2, SpawnEffect DEF ProtocolInv, Spawns
<1>4. (Published(a)' <=> Published(a)) /\ Users(a)' = Users(a)
  BY <1>3 DEF Published, Users
<1>5. CASE b # a
  <2>1. SameData(a)
    BY <1>2, <1>3, <1>5 DEF SameData, ProtocolTypeOK, LoopTypeOK
  <2>2. (Fresh(a)' <=> Fresh(a)) /\ StartInv(a)
    BY <1>3, <1>5 DEF ChunksInv
  <2>3. \A u \in Users(a)' : kind[a] = "loop"
    BY <1>4, <2>2 DEF StartInv
  <2>4. ASSUME kind[a] = "loop"
        PROVE  /\ SameHolders(a) /\ RoundInv(a)'
               /\ work_indexes_index[a] + Cardinality(DrawsLeft(a)') <= N * NumAtomics(a)
               /\ Fresh(a)' \/ Published(a)' \/ work_indexes_index[a] >= NumAtomics(a)
               /\ (\A u \in Users(a) : pc[u] \in Drawing) => \A u \in Users(a)' : pc'[u] \in Drawing
    <3>1. RoundInv(a) /\ TurnInv(a)
      BY <2>4 DEF ChunksInv
    <3>2. SameHolders(a)
      BY <1>2, <1>3, <1>4 DEF SameHolders, Holders, Carriers
    <3>3. NumAtomics(a)' = NumAtomics(a)
      BY <2>1 DEF NumAtomics, SameData
    <3>4. RoundInv(a)'
      BY <1>2, <1>3, <1>4, <2>1, <3>1, <3>3 DEF RoundInv, SameData
    <3>5. DrawsLeft(a)' \subseteq DrawsLeft(a)
      BY <1>2, <1>3, <1>4, <3>3 DEF DrawsLeft
    <3>6. work_indexes_index[a] + Cardinality(DrawsLeft(a)') <= N * NumAtomics(a)
      BY <2>1, <2>2, <2>4, <3>1, <3>5, DrawsKept DEF SameData
    <3>7. QED
      BY <1>3, <1>4, <2>2, <3>1, <3>2, <3>4, <3>6 DEF TurnInv
  <2>5. QED
    BY <2>1, <2>2, <2>3, <2>4, DataKept
<1>6. CASE b = a
  <2>1. /\ kind'[a] = k /\ work_size'[a] = r.end /\ work_indexes'[a] = r.start
        /\ work_indexes_index'[a] = 0 /\ done'[a] = done[a]
    BY <1>2, <1>3, <1>6 DEF ProtocolTypeOK, LoopTypeOK
  <2>2. done[a] = {}
    BY <1>3, <1>6 DEF ChunksInv, StartInv
  <2>3. Users(a)' = {} /\ ~Published(a)' /\ Fresh(a)'
    BY <1>3, <1>4, <1>6 DEF Users
  <2>4. CASE k = "single"
    BY <1>2, <2>1, <2>2, <2>3, <2>4 DEF Ranges, NoAtomics, ChunksInv, StartInv
  <2>5. CASE k = "loop"
    <3>1. PICK n \in Sizes : r = [start |-> Starts(n), end |-> Ends(n)]
      BY <1>2, <2>5 DEF Ranges
    <3>2. work_size'[a] = Ends(n) /\ work_indexes'[a] = Starts(n)
      BY <2>1, <3>1
    <3>3. /\ N * NumAtomics(a)' \in Nat
          /\ \A i \in DOMAIN Ends(n) :
               /\ i \in Nat /\ work_size'[a][i] \in Nat
               /\ work_indexes'[a][i] \in 0 .. work_size'[a][i]
               /\ work_indexes'[a][i] = StartOf(a, i)'
      BY <3>2, NewLoop DEF NumAtomics, StartOf
    <3>4. StartInv(a)'
      BY <2>1, <2>2, <2>3, <2>5, <3>2, <3>3 DEF StartInv
    <3>5. RoundInv(a)'
      BY <2>3 DEF RoundInv
    <3>6. TurnInv(a)'
      <4>1. DrawsLeft(a)' = {}
        BY <2>3 DEF DrawsLeft
      <4>2. Cardinality(DrawsLeft(a)') = 0
        BY <4>1, FS_EmptySet
      <4>3. QED
        BY <2>1, <2>3, <3>3, <4>2 DEF TurnInv
    <3>7. IndexInv(a)'
      BY <2>1, <2>3, <3>2, <3>3, FS_EmptySet DEF Holders, Most, IndexInv
    <3>8. OwnerInv(a)'
      BY <2>1, <2>2, <2>3, <3>2, <3>3 DEF Taken, Claimed, Carriers, OwnerInv
    <3>9. \A i \in DOMAIN Ends(n) : Kept(a, i)'
      BY <2>1, <2>3, <3>3 DEF Kept
    <3>10. QED
      BY <3>2, <3>4, <3>5, <3>6, <3>7, <3>8, <3>9 DEF ChunksInv
  <2>6. QED
    BY <2>4, <2>5
<1>7. QED
  BY <1>5, <1>6

(* A thread that has no task, or one without a loop, leaves all as it is.  *)
LEMMA QuietChunks ==
  ASSUME ProtocolInv, LoopTypeOK, NEW t \in Threads, Step(t), Quiet(t), UNCHANGED loopData,
         NEW a \in Addrs, ChunksInv(a)
  PROVE  ChunksInv(a)'
BY PtrsKept, Untouched DEF ProtocolInv, Quiet, loopData, taskData, SameData

(* A thread leaves a task after its last round, and counts from 0 again.   *)
LEMMA RoundsStep ==
  ASSUME ProtocolInv, LoopTypeOK, RoundsReset, \A a \in Addrs : ChunksInv(a),
         NEW t \in Threads, Step(t)
  PROVE  RoundsReset'
<1>1. \A u \in Threads \ {t} : pc'[u] = pc[u] /\ round'[u] = round[u]
  BY OwnLoop DEF ProtocolInv
<1>2. pc'[t] \notin Drawing => round'[t] = 0
  <2>1. ProtocolTypeOK
    BY DEF ProtocolInv
  <2>2. CASE ClaimChunk(t)
    BY <2>2, ClaimEffect DEF Drawing
  <2>3. CASE DrawAtomic(t) \/ RunChunk(t)
    BY <2>1, <2>3 DEF DrawAtomic, RunChunk, Goto, Drawing, ProtocolTypeOK
  <2>4. CASE CreateTask(t)
    BY <2>4 DEF CreateTask, SpawnTask, local, RoundsReset
  <2>5. CASE Signal(t) \/ FinishTask(t)
    BY <2>5 DEF Signal, FinishTask, FreeTask, Drawing, loopData, RoundsReset
  <2>6. CASE ProtocolStep(t) /\ UNCHANGED loopData
    <3>1. pc[t] \notin Drawing
      BY <2>6 DEF Drawing, ProtocolStep, DoWork, PopTask, LookAround, StealTask, StealNothing,
                  CheckActivity, JoinActivity, StartSingle, StartLoop, EndTask, CountDown
    <3>2. round' = round
      BY <2>6 DEF loopData
    <3>3. QED
      BY <3>1, <3>2 DEF RoundsReset
  <2>7. QED
    BY <2>2, <2>3, <2>4, <2>5, <2>6 DEF Step
<1>3. QED
  BY <1>1, <1>2 DEF RoundsReset

(* Every step of a thread preserves the invariant of every task.           *)
LEMMA ChunksStep ==
  ASSUME ProtocolInv, LoopTypeOK, RoundsReset, NEW t \in Threads, Step(t),
         \A b \in Addrs : ChunksInv(b), NEW a \in Addrs
  PROVE  ChunksInv(a)'
<1>1. ChunksInv(a)
  OBVIOUS
<1>2. CASE ProtocolStep(t) /\ UNCHANGED loopData
  BY <1>1, <1>2, ProtocolStepEffect, QuietChunks, JoinChunks, PublishChunks, LeaveChunks DEF
     RoundsReset, Joins, Publishes, Drawing
<1>3. CASE DrawAtomic(t)
  BY <1>1, <1>3, DrawChunks
<1>4. CASE ClaimChunk(t)
  BY <1>4, ClaimChunks
<1>5. CASE RunChunk(t)
  BY <1>1, <1>5, RunChunks
<1>6. CASE Signal(t)
  BY <1>1, <1>6, HideChunks
<1>7. CASE FinishTask(t)
  BY <1>1, <1>7, FinishChunks
<1>8. CASE CreateTask(t)
  BY <1>1, <1>8, CreateChunks
<1>9. QED
  BY <1>2, <1>3, <1>4, <1>5, <1>6, <1>7, <1>8 DEF Step

-----------------------------------------------------------------------------
(* Type correctness.                                                       *)

(* A vector of indices stays one when one of them moves.                   *)
LEMMA IndexMoved ==
  ASSUME NEW f \in IndexVectors, NEW i, NEW x \in 0 .. U32 - 1
  PROVE  [f EXCEPT ![i] = x] \in IndexVectors
<1>1. PICK k \in 0 .. ATOMICS : f \in [0 .. k - 1 -> 0 .. U32 - 1]
  BY DEF IndexVectors
<1>2. [f EXCEPT ![i] = x] \in [0 .. k - 1 -> 0 .. U32 - 1]
  BY <1>1
<1>3. QED
  BY <1>2, IndexVector

(* The atomics of the tasks that a program creates.                        *)
LEMMA RangeTypes ==
  ASSUME NEW k \in {"single", "loop"}, NEW r \in Ranges(k)
  PROVE  r.start \in IndexVectors /\ r.end \in IndexVectors /\ DOMAIN r.start = DOMAIN r.end
<1>1. NoAtomics \in IndexVectors
  <2>1. 0 \in 0 .. ATOMICS /\ 0 .. 0 - 1 = {}
    BY SizesAssumption
  <2>2. NoAtomics \in [0 .. 0 - 1 -> 0 .. U32 - 1]
    BY <2>1 DEF NoAtomics
  <2>3. QED
    BY <2>1, <2>2, IndexVector
<1>2. ASSUME NEW n \in Sizes
      PROVE  Starts(n) \in IndexVectors /\ Ends(n) \in IndexVectors
  <2> DEFINE A == Atomics(n)
             m == N * A
  <2>1. n \in Nat /\ A \in 1 .. ATOMICS /\ ATOMICS \in Nat /\ N \in Nat /\ U32 \in Nat
        /\ n + m < U32
    BY SizesAssumption, ProtocolAssumption, AtomicCount
  <2>2. /\ DOMAIN Ends(n) = 0 .. A - 1
        /\ \A i \in 0 .. A - 1 : Ends(n)[i] \in 0 .. n
    BY <2>1, EndsShape
  <2>3. m \in Nat
    BY <2>1
  <2>4. A \in 0 .. ATOMICS
    BY <2>1
  <2> HIDE DEF m
  <2>5. \A x \in 0 .. n : x \in 0 .. U32 - 1
    BY <2>1, <2>3
  <2> HIDE DEF A
  <2>6. Ends(n) = [i \in 0 .. A - 1 |-> Ends(n)[i]]
    BY <2>1, EndsAre DEF A
  <2>7. Ends(n) \in [0 .. A - 1 -> 0 .. U32 - 1]
    BY <2>2, <2>5, <2>6
  <2>8. Starts(n) \in [0 .. A - 1 -> 0 .. U32 - 1]
    <3>1. Starts(n) = [i \in 0 .. A - 1 |-> Starts(n)[i]]
      BY <2>2 DEF Starts
    <3>2. ASSUME NEW i \in 0 .. A - 1 PROVE Starts(n)[i] \in 0 .. U32 - 1
      <4>1. Starts(n)[i] \in 0 .. Ends(n)[i] /\ Ends(n)[i] \in 0 .. n
        BY <2>2, NewLoop
      <4>2. QED
        BY <2>1, <2>5, <4>1
    <3>3. QED
      BY <3>1, <3>2
  <2>9. QED
    BY <2>4, <2>7, <2>8, IndexVector
<1>3. CASE k = "single"
  BY <1>1, <1>3 DEF Ranges
<1>4. CASE k = "loop"
  <2>1. PICK n \in Sizes : r = [start |-> Starts(n), end |-> Ends(n)]
    BY <1>4 DEF Ranges
  <2>2. QED
    BY <1>2, <2>1, NewLoop
<1>5. QED
  BY <1>3, <1>4

(* Every step of a thread keeps the loop data within their types.  That an *)
(* atomic drawn is an atomic, and a round one of the rounds, is of the     *)
(* invariant of the task.                                                  *)
LEMMA LoopTypeStep ==
  ASSUME ProtocolInv, LoopTypeOK, \A a \in Addrs : ChunksInv(a), NEW t \in Threads, Step(t)
  PROVE  LoopTypeOK'
<1>1. U32 \in Nat \ {0} /\ ATOMICS \in Nat \ {0}
  <2>1. PICK n \in Sizes : n \in Nat /\ n + N * Atomics(n) < U32
    BY SizesAssumption
  <2>2. N * Atomics(n) \in Nat
    BY <2>1, AtomicCount, SizesAssumption, ProtocolAssumption
  <2>3. QED
    BY <2>1, <2>2, SizesAssumption
<1>2. \A x \in 0 .. U32 - 1 : (x + 1) % U32 \in 0 .. U32 - 1
  BY <1>1
<1>3. ASSUME pc[t] \in Drawing
      PROVE  /\ task[t] \in Addrs /\ kind[task[t]] = "loop"
             /\ StartInv(task[t]) /\ RoundInv(task[t]) /\ t \in Users(task[t])
  BY <1>3, TaskIsAddress DEF Drawing, Working, ProtocolInv, Users, ChunksInv, StartInv
<1>4. CASE ProtocolStep(t) /\ UNCHANGED loopData
  BY <1>4 DEF loopData, taskData, LoopTypeOK
<1>5. CASE DrawAtomic(t)
  <2>1. /\ pc[t] = "enter" /\ pc[t] \in Drawing
        /\ current_index' = [current_index EXCEPT ![t] = AtomicDrawn(t)]
        /\ work_indexes_index' = [work_indexes_index EXCEPT ![task[t]]
                                    = (work_indexes_index[task[t]] + 1) % U32]
        /\ round' = [round EXCEPT ![t] = round[t] + 1]
        /\ UNCHANGED <<work_size, work_indexes, done, chunk>>
    BY <1>5 DEF DrawAtomic, Drawing
  <2>2. NumAtomics(task[t]) \in 1 .. ATOMICS /\ work_indexes_index[task[t]] \in Nat
    BY <1>3, <2>1, LoopNumbers, LoopValues
  <2>3. AtomicDrawn(t) \in 0 .. ATOMICS - 1
    BY <1>1, <2>2 DEF AtomicDrawn
  <2>4. round[t] + 1 \in 0 .. ATOMICS
    BY <1>1, <1>3, <2>1, <2>2 DEF RoundInv, LoopTypeOK
  <2>5. QED
    BY <1>2, <1>3, <2>1, <2>3, <2>4 DEF LoopTypeOK
<1>6. CASE ClaimChunk(t)
  <2> DEFINE a == task[t]
             i == current_index[t]
             c == work_indexes[a][i]
  <2>1. /\ pc[t] \in Drawing /\ pc[t] \in Claiming
        /\ chunk' = [chunk EXCEPT ![t] = c]
        /\ work_indexes' = [work_indexes EXCEPT ![a] = [work_indexes[a] EXCEPT ![i] = (c + 1) % U32]]
        /\ UNCHANGED <<work_size, work_indexes_index, done, current_index>>
        /\ round' = round \/ round' = [round EXCEPT ![t] = 0]
    BY <1>6 DEF ClaimChunk, Drawing, Claiming
  <2>2. i \in DOMAIN work_size[a]
    BY <1>3, <2>1 DEF RoundInv
  <2>3. c \in 0 .. U32 - 1
    BY <1>3, <2>1, <2>2, LoopValues
  <2>4. a \in Addrs /\ work_indexes[a] \in IndexVectors
    BY <1>3, <2>1 DEF LoopTypeOK
  <2> DEFINE f == [work_indexes[a] EXCEPT ![i] = (c + 1) % U32]
  <2>5. f \in IndexVectors
    BY <1>2, <2>3, <2>4, IndexMoved
  <2>6. DOMAIN f = DOMAIN work_indexes[a]
    OBVIOUS
  <2> HIDE DEF f, c
  <2>7. work_indexes' = [work_indexes EXCEPT ![a] = f]
    BY <2>1 DEF f, c
  <2>8. /\ work_indexes' \in [Addrs -> IndexVectors]
        /\ \A b \in Addrs : DOMAIN work_indexes'[b] = DOMAIN work_size[b]
    BY <2>4, <2>5, <2>6, <2>7 DEF LoopTypeOK
  <2>9. round' \in [Threads -> 0 .. ATOMICS]
    BY <1>1, <2>1 DEF LoopTypeOK
  <2>10. chunk' \in [Threads -> 0 .. U32 - 1]
    BY <2>1, <2>3 DEF LoopTypeOK
  <2>11. QED
    BY <2>1, <2>8, <2>9, <2>10 DEF LoopTypeOK
<1>7. CASE RunChunk(t)
  BY <1>3, <1>7, SizesAssumption DEF RunChunk, Drawing, LoopTypeOK
<1>8. CASE Signal(t)
  BY <1>8 DEF Signal, loopData, taskData, LoopTypeOK
<1>9. CASE FinishTask(t)
  BY <1>9, RangeTypes DEF FinishTask, Ranges, LoopTypeOK
<1>10. CASE CreateTask(t)
  <2>1. PICK b \in Addrs, k \in {"single", "loop"} : \E r \in Ranges(k) :
          /\ work_size' = [work_size EXCEPT ![b] = r.end]
          /\ work_indexes' = [work_indexes EXCEPT ![b] = r.start]
          /\ work_indexes_index' = [work_indexes_index EXCEPT ![b] = 0]
          /\ UNCHANGED <<done, current_index, round, chunk>>
    BY <1>10 DEF CreateTask
  <2>2. PICK r \in Ranges(k) :
          /\ work_size' = [work_size EXCEPT ![b] = r.end]
          /\ work_indexes' = [work_indexes EXCEPT ![b] = r.start]
          /\ work_indexes_index' = [work_indexes_index EXCEPT ![b] = 0]
          /\ UNCHANGED <<done, current_index, round, chunk>>
    BY <2>1
  <2>3. r.start \in IndexVectors /\ r.end \in IndexVectors /\ DOMAIN r.start = DOMAIN r.end
    BY RangeTypes
  <2>4. 0 \in 0 .. U32 - 1
    BY <1>1
  <2>5. QED
    BY <2>2, <2>3, <2>4 DEF LoopTypeOK
<1>11. QED
  BY <1>4, <1>5, <1>6, <1>7, <1>8, <1>9, <1>10 DEF Step

(* The first task is queued, with all its chunks to be claimed.            *)
LEMMA LoopInit ==
  ASSUME Init
  PROVE  LoopTypeOK /\ RoundsReset /\ \A b \in Addrs : ChunksInv(b)
<1>1. PICK a \in Addrs, k \in {"single", "loop"} : \E r \in Ranges(k) :
        /\ ProtocolInit(a, k)
        /\ work_size = [b \in Addrs |-> IF b = a THEN r.end ELSE NoAtomics]
        /\ work_indexes = [b \in Addrs |-> IF b = a THEN r.start ELSE NoAtomics]
        /\ work_indexes_index = [b \in Addrs |-> 0]
        /\ done = [b \in Addrs |-> {}]
        /\ current_index = [t \in Threads |-> 0]
        /\ round = [t \in Threads |-> 0]
        /\ chunk = [t \in Threads |-> 0]
  BY DEF Init
<1>2. PICK r \in Ranges(k) :
        /\ ProtocolInit(a, k)
        /\ work_size = [b \in Addrs |-> IF b = a THEN r.end ELSE NoAtomics]
        /\ work_indexes = [b \in Addrs |-> IF b = a THEN r.start ELSE NoAtomics]
        /\ work_indexes_index = [b \in Addrs |-> 0]
        /\ done = [b \in Addrs |-> {}]
        /\ current_index = [t \in Threads |-> 0]
        /\ round = [t \in Threads |-> 0]
        /\ chunk = [t \in Threads |-> 0]
  BY <1>1
<1>3. LoopTypeOK
  <2>1. U32 \in Nat \ {0} /\ ATOMICS \in Nat \ {0}
    <3>1. PICK n \in Sizes : n \in Nat /\ n + N * Atomics(n) < U32
      BY SizesAssumption
    <3>2. N * Atomics(n) \in Nat
      BY <3>1, AtomicCount, SizesAssumption, ProtocolAssumption
    <3>3. QED
      BY <3>1, <3>2, SizesAssumption
  <2>2. 0 \in 0 .. U32 - 1 /\ 0 \in 0 .. ATOMICS - 1 /\ 0 \in 0 .. ATOMICS
    BY <2>1
  <2>3. r.start \in IndexVectors /\ r.end \in IndexVectors /\ DOMAIN r.start = DOMAIN r.end
    BY RangeTypes
  <2>4. [start |-> NoAtomics, end |-> NoAtomics] \in Ranges("single")
    BY DEF Ranges
  <2>5. NoAtomics \in IndexVectors
    BY <2>4, RangeTypes
  <2>6. QED
    BY <1>2, <2>2, <2>3, <2>5 DEF LoopTypeOK
<1>4. RoundsReset
  BY <1>2 DEF RoundsReset
<1>5. ASSUME NEW b \in Addrs PROVE ChunksInv(b)
  <2>1. /\ kind[b] = IF b = a THEN k ELSE "free"
        /\ \A t \in Threads : pc[t] = "loop"
        /\ deque = [t \in Threads |-> IF t = 0 THEN <<a>> ELSE <<>>]
        /\ \A t \in Threads : activities[t] = NullPtr
        /\ done[b] = {} /\ work_indexes_index[b] = 0
    BY <1>2 DEF ProtocolInit
  <2>2. Users(b) = {} /\ ~Published(b)
    BY <2>1, ProtocolAssumption DEF Users, Published, Working, NullPtr
  <2>3. CASE kind[b] # "loop"
    <3>1. work_size[b] = NoAtomics /\ DOMAIN NoAtomics = {}
      <4>1. CASE b = a
        BY <1>2, <2>1, <2>3, <4>1 DEF Ranges, NoAtomics
      <4>2. CASE b # a
        BY <1>2, <4>2 DEF NoAtomics
      <4>3. QED
        BY <4>1, <4>2
    <3>2. QED
      BY <2>1, <2>2, <2>3, <3>1 DEF ChunksInv, StartInv
  <2>4. CASE kind[b] = "loop"
    <3>1. b = a /\ k = "loop"
      BY <2>1, <2>4
    <3>2. PICK n \in Sizes : r = [start |-> Starts(n), end |-> Ends(n)]
      BY <1>2, <3>1 DEF Ranges
    <3>3. work_size[b] = Ends(n) /\ work_indexes[b] = Starts(n)
      BY <1>2, <3>1, <3>2
    <3>4. /\ N * NumAtomics(b) \in Nat
          /\ \A i \in DOMAIN Ends(n) :
               /\ i \in Nat /\ work_size[b][i] \in Nat
               /\ work_indexes[b][i] \in 0 .. work_size[b][i]
               /\ work_indexes[b][i] = StartOf(b, i)
      BY <3>3, NewLoop DEF NumAtomics, StartOf
    <3>5. Fresh(b)
      BY <2>1, <3>1, ProtocolAssumption DEF Threads, Fresh, Queued
    <3>6. StartInv(b) /\ RoundInv(b)
      BY <2>1, <2>2, <2>4, <3>3, <3>4 DEF StartInv, RoundInv
    <3>7. TurnInv(b)
      <4>1. DrawsLeft(b) = {}
        BY <2>2 DEF DrawsLeft
      <4>2. Cardinality(DrawsLeft(b)) = 0
        BY <4>1, FS_EmptySet
      <4>3. QED
        BY <2>1, <3>4, <3>5, <4>2 DEF TurnInv
    <3>8. IndexInv(b)
      BY <2>1, <2>2, <3>3, <3>4, FS_EmptySet DEF Holders, Most, IndexInv
    <3>9. OwnerInv(b)
      BY <2>1, <2>2, <3>3, <3>4 DEF Taken, Claimed, Carriers, OwnerInv
    <3>10. \A i \in DOMAIN Ends(n) : Kept(b, i)
      BY <2>1, <2>2, <3>4 DEF Kept
    <3>11. QED
      BY <3>3, <3>6, <3>7, <3>8, <3>9, <3>10 DEF ChunksInv
  <2>5. QED
    BY <2>3, <2>4
<1>6. QED
  BY <1>3, <1>4, <1>5

(* The invariant of the scheduler holds throughout: no atomic is abandoned *)
(* although a thread may stop without having drawn it, the turn and the    *)
(* indices do not wrap, and each chunk has one owner.  For any number of   *)
(* threads, atomics and chunks.                                            *)
THEOREM ChunkInvariant == Spec => []ChunkInv
<1> DEFINE Chunks == \A a \in Addrs : ChunksInv(a)
           LoopInv == LoopTypeOK /\ RoundsReset /\ Chunks
<1>1. Init => LoopInv
  BY LoopInit
<1>2. ProtocolInv /\ LoopInv /\ [Next]_vars => LoopInv'
  <2>1. SUFFICES ASSUME ProtocolInv, LoopTypeOK, RoundsReset, Chunks, [Next]_vars
                 PROVE  LoopInv'
    OBVIOUS
  <2>2. CASE UNCHANGED vars
    <3>1. UNCHANGED <<work_size, work_indexes, work_indexes_index, done, current_index, round, chunk>>
          /\ UNCHANGED <<kind, deque, activities, task, pc>>
      BY <2>2 DEF vars, protocolVars, shared, local, loopData, taskData
    <3>2. LoopTypeOK' /\ RoundsReset'
      BY <2>1, <3>1 DEF LoopTypeOK, RoundsReset
    <3>3. ASSUME NEW a \in Addrs PROVE ChunksInv(a)'
      <4>1. ChunksInv(a)
        BY <2>1
      <4>2. /\ Users(a)' = Users(a) /\ Published(a)' = Published(a) /\ Fresh(a)' = Fresh(a)
            /\ NumAtomics(a)' = NumAtomics(a)
        BY <3>1 DEF Users, Published, Fresh, Queued, NumAtomics
      <4>3. StartInv(a)' = StartInv(a)
        BY <3>1, <4>2 DEF StartInv, StartOf
      <4>4. RoundInv(a)' = RoundInv(a)
        BY <3>1, <4>2 DEF RoundInv
      <4>5. Holders(a)' = Holders(a) /\ Carriers(a)' = Carriers(a) /\ DrawsLeft(a)' = DrawsLeft(a)
        BY <3>1, <4>2 DEF Holders, Carriers, DrawsLeft
      <4>6. TurnInv(a)' = TurnInv(a) /\ IndexInv(a)' = IndexInv(a)
        BY <3>1, <4>2, <4>5 DEF TurnInv, IndexInv, StartOf
      <4>7. \A i : Taken(a, i)' = Taken(a, i)
        BY <3>1 DEF Taken, StartOf
      <4>8. Claimed(a)' = Claimed(a) /\ \A t \in Threads : Taken(a, current_index[t])' = Taken(a, current_index[t])
        BY <3>1, <4>7 DEF Claimed
      <4>9. OwnerInv(a) => OwnerInv(a)'
        BY <3>1, <4>5, <4>8 DEF Carriers, Users, OwnerInv
      <4>10. \A i : Kept(a, i)' = Kept(a, i)
        BY <3>1, <4>2 DEF Kept, UsedUp
      <4>11. QED
        BY <3>1, <4>1, <4>3, <4>4, <4>6, <4>9, <4>10 DEF ChunksInv
    <3>4. QED
      BY <3>2, <3>3
  <2>3. ASSUME NEW t \in Threads, Step(t) PROVE LoopInv'
    <3>1. LoopTypeOK' /\ RoundsReset'
      BY <2>1, <2>3, LoopTypeStep, RoundsStep
    <3>2. ASSUME NEW a \in Addrs PROVE ChunksInv(a)'
      BY <2>1, <2>3, ChunksStep
    <3>3. QED
      BY <3>1, <3>2
  <2>4. QED
    BY <2>1, <2>2, <2>3 DEF Next
<1>3. ProtocolInv /\ LoopInv => ChunkInv
  <2>1. SUFFICES ASSUME ProtocolInv, LoopTypeOK, RoundsReset, Chunks PROVE ChunkInv
    OBVIOUS
  <2>2. TypeOK
    BY <2>1 DEF TypeOK, LoopTypeOK, ProtocolInv
  <2>3. AtomicKept
    BY <2>1 DEF AtomicKept, ChunksInv
  <2>4. ChunkOwnership
    <3>1. SUFFICES ASSUME NEW t \in Threads, pc[t] = "body"
                   PROVE  /\ chunk[t] \notin done[task[t]]
                          /\ \/ current_index[t] = 0
                             \/ chunk[t] >= work_size[task[t]][current_index[t] - 1]
                          /\ \A u \in Threads \ {t} :
                               pc[u] = "body" /\ task[u] = task[t] => chunk[u] # chunk[t]
      BY DEF ChunkOwnership
    <3>2. task[t] \in Addrs /\ t \in Users(task[t])
      BY <2>1, <3>1, TaskIsAddress DEF Users, Working, ProtocolInv
    <3>3. OwnerInv(task[t]) /\ t \in Carriers(task[t])
      BY <2>1, <3>1, <3>2 DEF ChunksInv, StartInv, Carriers
    <3>4. chunk[t] \in Taken(task[t], current_index[t]) \ done[task[t]]
      BY <3>3 DEF OwnerInv
    <3>5. \A u \in Threads \ {t} : pc[u] = "body" /\ task[u] = task[t] => u \in Carriers(task[t])
      BY DEF Carriers, Users, Working
    <3>6. \A u \in Carriers(task[t]) : chunk[u] = chunk[t] => u = t
      BY <3>3 DEF OwnerInv
    <3>7. current_index[t] = 0 \/ chunk[t] >= work_size[task[t]][current_index[t] - 1]
      BY <3>4 DEF Taken, StartOf
    <3>8. QED
      BY <3>4, <3>5, <3>6, <3>7
  <2>5. QED
    BY <2>1, <2>2, <2>3, <2>4 DEF ChunkInv, RoundsReset
<1>4. Spec => []ProtocolInv
  BY ImplementsProtocol, ProtocolInvariant, PTL
<1> HIDE DEF LoopInv
<1>5. QED
  BY <1>1, <1>2, <1>3, <1>4, PTL DEF Spec

-----------------------------------------------------------------------------
(* The pool that the scheduler stands for.                                 *)

(* The ranges of the atomics cover the chunks of the task without gap.     *)
LEMMA RangesCover ==
  ASSUME NEW a \in Addrs, StartInv(a), kind[a] = "loop", NEW c \in 0 .. PoolSize(a) - 1
  PROVE  \E i \in DOMAIN work_size[a] : c \in StartOf(a, i) .. work_size[a][i] - 1
<1> DEFINE A == NumAtomics(a)
           S == {i \in 0 .. A - 1 : c < work_size[a][i]}
<1>1. /\ A \in 1 .. ATOMICS /\ ATOMICS \in Nat /\ PoolSize(a) \in Nat
      /\ DOMAIN work_size[a] = 0 .. A - 1
      /\ \A i \in DOMAIN work_size[a] :
           work_size[a][i] \in 0 .. PoolSize(a) /\ StartOf(a, i) \in 0 .. work_size[a][i]
      /\ work_size[a][A - 1] = PoolSize(a)
  BY LoopNumbers
<1> HIDE DEF A
<1>2. A - 1 \in S /\ S \in SUBSET Nat
  BY <1>1
<1>3. PICK i \in S : \A j \in S : i <= j
  BY <1>2, LeastNatural
<1>4. StartOf(a, i) <= c
  <2>1. CASE i = 0
    BY <1>1, <2>1 DEF StartOf
  <2>2. CASE i # 0
    <3>1. i - 1 \in 0 .. A - 1 /\ i - 1 \notin S
      BY <1>1, <1>2, <1>3, <2>2
    <3>2. work_size[a][i - 1] \in Nat /\ c \in Nat
      BY <1>1, <3>1
    <3>3. work_size[a][i - 1] <= c
      BY <3>1, <3>2
    <3>4. QED
      BY <2>2, <3>3 DEF StartOf
  <2>3. QED
    BY <2>1, <2>2
<1>5. QED
  BY <1>1, <1>3, <1>4

(* A task has no other chunks to claim than those of its size, and none is *)
(* left when all its atomics are used up.                                  *)
LEMMA ClaimedRange ==
  ASSUME LoopTypeOK, NEW a \in Addrs, StartInv(a), kind[a] = "loop"
  PROVE  /\ Claimed(a) \subseteq 0 .. PoolSize(a) - 1
         /\ (\A i \in DOMAIN work_size[a] : UsedUp(a, i)) => Claimed(a) = 0 .. PoolSize(a) - 1
<1>1. /\ PoolSize(a) \in Nat
      /\ \A i \in DOMAIN work_size[a] :
           work_size[a][i] \in 0 .. PoolSize(a) /\ StartOf(a, i) \in 0 .. work_size[a][i]
  BY LoopNumbers
<1>2. \A i \in DOMAIN work_size[a] : work_indexes[a][i] \in 0 .. U32 - 1 /\ U32 \in Nat
  BY LoopValues, SizesAssumption
<1>3. ASSUME NEW i \in DOMAIN work_size[a], NEW c \in Taken(a, i)
      PROVE  c \in 0 .. PoolSize(a) - 1
  BY <1>1, <1>3 DEF Taken
<1>4. ASSUME \A i \in DOMAIN work_size[a] : UsedUp(a, i), NEW c \in 0 .. PoolSize(a) - 1
      PROVE  c \in Claimed(a)
  <2>1. PICK i \in DOMAIN work_size[a] : c \in StartOf(a, i) .. work_size[a][i] - 1
    BY RangesCover
  <2>2. c < work_indexes[a][i]
    BY <1>1, <1>2, <1>4, <2>1 DEF UsedUp
  <2>3. QED
    BY <2>1, <2>2 DEF Claimed, Taken
<1>5. QED
  BY <1>3, <1>4 DEF Claimed

(* When finish runs, every chunk of the task has been executed.            *)
LEMMA FinishedIsDone ==
  ASSUME ProtocolInv, ChunkInv, NEW t \in Threads, pc[t] = "finish"
  PROVE  /\ task[t] \in Addrs /\ PoolSize(task[t]) # -1
         /\ done[task[t]] = 0 .. PoolSize(task[t]) - 1
<1> DEFINE a == task[t]
<1>1. ProtocolTypeOK /\ LoopTypeOK
  BY DEF ProtocolInv, ChunkInv, TypeOK, LoopTypeOK
<1>2. a \in Addrs /\ a # Null
  BY TaskIsAddress, ProtocolAssumption DEF ProtocolInv
<1>3. ChunksInv(a) /\ StartInv(a)
  BY <1>2 DEF ChunkInv, ChunksInv
<1>4. /\ kind[a] # "free" /\ ~Published(a)
      /\ \A u \in Threads \ {t} : task[u] # a
  BY <1>2 DEF ProtocolInv, ExclusiveFinish
<1>5. Users(a) = {}
  BY <1>4 DEF Users, Working
<1>6. CASE kind[a] = "loop"
  <2>1. /\ NumAtomics(a) \in 1 .. ATOMICS /\ ATOMICS \in Nat /\ PoolSize(a) \in Nat
        /\ DOMAIN work_size[a] = 0 .. NumAtomics(a) - 1
        /\ \A i \in DOMAIN work_size[a] :
             work_size[a][i] \in 0 .. PoolSize(a) /\ StartOf(a, i) \in 0 .. work_size[a][i]
    BY <1>2, <1>3, <1>6, LoopNumbers
  <2>2. ~Fresh(a)
    BY <1>2, UsedIsNotFresh
  <2>3. work_indexes_index[a] >= NumAtomics(a) /\ OwnerInv(a)
    BY <1>3, <1>4, <1>6, <2>2 DEF ChunksInv, TurnInv
  <2>4. \A i \in DOMAIN work_size[a] : UsedUp(a, i)
    <3>1. work_indexes_index[a] \in Nat
      BY <1>1, <1>2, <1>3, <1>6, LoopValues
    <3>2. \A i \in DOMAIN work_size[a] : ~(work_indexes_index[a] <= i)
      BY <2>1, <2>3, <3>1
    <3>3. QED
      BY <1>3, <1>5, <3>2 DEF ChunksInv, Kept
  <2>5. Claimed(a) = 0 .. PoolSize(a) - 1
    BY <1>1, <1>2, <1>3, <1>6, <2>4, ClaimedRange
  <2>6. Claimed(a) \ done[a] = {} /\ done[a] \subseteq Claimed(a)
    BY <1>5, <2>3 DEF OwnerInv, Carriers
  <2>7. done[a] = 0 .. PoolSize(a) - 1
    BY <2>5, <2>6
  <2>8. QED
    BY <1>2, <2>1, <2>7
<1>7. CASE kind[a] # "loop"
  <2>1. kind[a] = "single" /\ done[a] = {}
    BY <1>1, <1>2, <1>3, <1>4, <1>7 DEF StartInv, ProtocolTypeOK
  <2>2. QED
    BY <1>2, <2>1 DEF PoolSize
<1>8. QED
  BY <1>6, <1>7

(* The number of chunks of a new loop.                                     *)
LEMMA NewLoopSize ==
  ASSUME NEW n \in Sizes
  PROVE  Ends(n)[Cardinality(DOMAIN Ends(n)) - 1] = n
<1>1. n \in Nat /\ Atomics(n) \in 1 .. ATOMICS /\ ATOMICS \in Nat
  BY SizesAssumption, AtomicCount
<1>2. DOMAIN Ends(n) = 0 .. Atomics(n) - 1 /\ Ends(n)[Atomics(n) - 1] = n
  BY <1>1, EndsShape
<1>3. Cardinality(DOMAIN Ends(n)) = Atomics(n)
  BY <1>1, <1>2, FS_Interval
<1>4. QED
  BY <1>2, <1>3

(* The size of a task as the pool sees it changes with the task only.      *)
LEMMA SizesKept ==
  ASSUME NEW a, kind'[a] = kind[a], work_size'[a] = work_size[a]
  PROVE  PoolSize(a)' = PoolSize(a)
BY DEF PoolSize, NumAtomics

(* A step of the scheduler is one of the pool, or none.                    *)
LEMMA StepIsPoolStep ==
  ASSUME ProtocolInv, ChunkInv, NEW t \in Threads, Step(t)
  PROVE  [Pool!Next]_(Pool!vars)
<1> DEFINE sizes == [a \in Addrs |-> PoolSize(a)]
<1>1. ProtocolTypeOK /\ LoopTypeOK /\ \A a \in Addrs : ChunksInv(a)
  BY DEF ProtocolInv, ChunkInv, TypeOK, LoopTypeOK
<1>2. ASSUME UNCHANGED <<kind, work_size>> PROVE sizes' = sizes
  BY <1>2, SizesKept
<1>3. ASSUME UNCHANGED <<kind, work_size, done, is_finished>> PROVE UNCHANGED Pool!vars
  BY <1>2, <1>3 DEF Pool!vars
<1>4. CASE ProtocolStep(t) /\ UNCHANGED loopData
  <2>1. CASE CountDown(t)
    <3>1. pc[t] = "after" /\ is_finished' = (is_finished \/ pending = 1)
          /\ UNCHANGED <<kind, work_size, done>>
      BY <1>4, <2>1 DEF CountDown, loopData, taskData
    <3>2. ~is_finished
      BY <3>1, BusyIsNotStopped
    <3>3. CASE pending = 1
      BY <1>2, <3>1, <3>2, <3>3, LastIsFree DEF PoolSize, Pool!Stop, Pool!Absent, Pool!Next
    <3>4. CASE pending # 1
      BY <1>1, <1>3, <3>1, <3>2, <3>4 DEF ProtocolTypeOK
    <3>5. QED
      BY <3>3, <3>4
  <2>2. CASE ~CountDown(t)
    <3>1. UNCHANGED <<kind, work_size, done, is_finished>>
      BY <1>4, <2>2
         DEF ProtocolStep, DoWork, PopTask, LookAround, StealTask, StealNothing, CheckActivity,
             JoinActivity, StartSingle, StartLoop, EndTask, shared, loopData, taskData
    <3>2. QED
      BY <1>3, <3>1
  <2>3. QED
    BY <2>1, <2>2
<1>5. CASE DrawAtomic(t) \/ ClaimChunk(t)
  BY <1>3, <1>5 DEF DrawAtomic, ClaimChunk, shared
<1>6. CASE RunChunk(t)
  <2> DEFINE a == task[t]
             c == chunk[t]
             i == current_index[t]
  <2>1. /\ a \in Addrs /\ pc[t] = "body" /\ t \in Users(a)
        /\ done' = [done EXCEPT ![a] = done[a] \cup {c}]
        /\ UNCHANGED <<kind, work_size, is_finished>>
    BY <1>6, TaskIsAddress DEF ProtocolInv, RunChunk, Users, Working, shared
  <2>2. StartInv(a) /\ kind[a] = "loop" /\ OwnerInv(a) /\ RoundInv(a) /\ t \in Carriers(a)
    BY <1>1, <2>1 DEF ChunksInv, StartInv, Carriers
  <2>3. i \in DOMAIN work_size[a] /\ c \in Taken(a, i) \ done[a]
    BY <2>1, <2>2 DEF OwnerInv, RoundInv, Claiming
  <2>4. c \in 0 .. PoolSize(a) - 1
    <3>1. /\ PoolSize(a) \in Nat /\ work_size[a][i] \in 0 .. PoolSize(a)
          /\ StartOf(a, i) \in 0 .. work_size[a][i]
      BY <2>1, <2>2, <2>3, LoopNumbers
    <3>2. c \in StartOf(a, i) .. work_size[a][i] - 1
      BY <2>3 DEF Taken
    <3> HIDE DEF c
    <3>3. QED
      BY <3>1, <3>2
  <2>5. sizes' = sizes /\ sizes[a] = PoolSize(a)
    BY <1>2, <2>1
  <2>6. Pool!RunChunk(a, c)
    BY <2>1, <2>3, <2>4, <2>5 DEF Pool!RunChunk
  <2>7. QED
    BY <2>1, <2>4, <2>6 DEF Pool!Next
<1>7. CASE Signal(t)
  BY <1>3, <1>7, HideEffect DEF Signal, Hides, loopData, taskData
<1>8. CASE FinishTask(t)
  <2> DEFINE a == task[t]
  <2>1. Frees(t)
    BY <1>8, FreeEffect DEF FinishTask
  <2>2. /\ pc[t] = "finish" /\ a \in Addrs
        /\ kind' = [kind EXCEPT ![a] = "free"]
        /\ work_size' = [work_size EXCEPT ![a] = NoAtomics]
        /\ done' = [done EXCEPT ![a] = {}]
        /\ UNCHANGED is_finished
    BY <1>8, <2>1 DEF FinishTask, Frees
  <2>3. sizes' = [sizes EXCEPT ![a] = -1]
    <3>1. \A e \in Addrs : sizes'[e] = IF e = a THEN -1 ELSE sizes[e]
      <4>1. ASSUME NEW e \in Addrs PROVE sizes'[e] = IF e = a THEN -1 ELSE sizes[e]
        <5>1. CASE e = a
          BY <1>1, <2>2, <5>1 DEF PoolSize, ProtocolTypeOK
        <5>2. CASE e # a
          BY <1>1, <2>2, <5>2, SizesKept DEF ProtocolTypeOK, LoopTypeOK
        <5>3. QED
          BY <5>1, <5>2
      <4>2. QED
        BY <4>1
    <3>2. QED
      BY <2>2, <3>1
  <2>4. Pool!Finish(a)
    BY <2>2, <2>3, FinishedIsDone DEF Pool!Finish, Pool!Absent
  <2>5. QED
    BY <2>2, <2>4 DEF Pool!Next
<1>9. CASE CreateTask(t)
  <2>1. PICK b \in Addrs, k \in {"single", "loop"} : \E r \in Ranges(k) :
          SpawnTask(t, b, k) /\ work_size' = [work_size EXCEPT ![b] = r.end]
    BY <1>9 DEF CreateTask
  <2>2. PICK r \in Ranges(k) :
          SpawnTask(t, b, k) /\ work_size' = [work_size EXCEPT ![b] = r.end]
    BY <2>1
  <2>3. /\ pc[t] \in {"body", "after"} /\ kind[b] = "free"
        /\ kind' = [kind EXCEPT ![b] = k] /\ UNCHANGED <<is_finished, done>>
    BY <1>9, <2>2, SpawnEffect DEF CreateTask, Spawns
  <2>4. ~is_finished /\ sizes[b] = -1
    BY <2>3, BusyIsNotStopped DEF PoolSize
  <2>5. PICK n \in Sizes \cup {0} : PoolSize(b)' = n
    <3>1. kind'[b] = k /\ work_size'[b] = r.end
      BY <1>1, <2>2, <2>3 DEF ProtocolTypeOK, LoopTypeOK
    <3>2. CASE k = "single"
      BY <3>1, <3>2 DEF PoolSize
    <3>3. CASE k = "loop"
      <4>1. PICK n \in Sizes : r = [start |-> Starts(n), end |-> Ends(n)]
        BY <2>2, <3>3 DEF Ranges
      <4>2. PoolSize(b)' = n
        BY <3>1, <3>3, <4>1, NewLoopSize DEF PoolSize, NumAtomics
      <4>3. QED
        BY <4>2
    <3>4. QED
      BY <3>2, <3>3
  <2>6. \A e \in Addrs \ {b} : PoolSize(e)' = PoolSize(e)
    BY <1>1, <2>2, <2>3, SizesKept DEF ProtocolTypeOK, LoopTypeOK
  <2>7. sizes' = [sizes EXCEPT ![b] = n]
    BY <2>5, <2>6
  <2>8. Pool!Create(b, n)
    BY <2>3, <2>4, <2>7 DEF Pool!Create, Pool!Absent
  <2>9. QED
    BY <2>8 DEF Pool!Next
<1>10. QED
  BY <1>4, <1>5, <1>6, <1>7, <1>8, <1>9 DEF Step

(* The scheduler implements the pool it stands for: every chunk of a task  *)
(* is executed once, its finish runs once and after all of them, and the   *)
(* pool stops when no task is left; the atomics do not show.               *)
THEOREM ImplementsTaskPool == Spec => ImplementsPool
<1>1. Init => Pool!Init
  <2>1. SUFFICES ASSUME Init PROVE Pool!Init
    OBVIOUS
  <2>2. PICK a \in Addrs, k \in {"single", "loop"} : \E r \in Ranges(k) :
          /\ ProtocolInit(a, k)
          /\ work_size = [b \in Addrs |-> IF b = a THEN r.end ELSE NoAtomics]
          /\ done = [b \in Addrs |-> {}]
    BY <2>1 DEF Init
  <2>3. PICK r \in Ranges(k) :
          /\ ProtocolInit(a, k)
          /\ work_size = [b \in Addrs |-> IF b = a THEN r.end ELSE NoAtomics]
          /\ done = [b \in Addrs |-> {}]
    BY <2>2
  <2>4. kind = [b \in Addrs |-> IF b = a THEN k ELSE "free"] /\ is_finished = FALSE
    BY <2>3 DEF ProtocolInit
  <2>5. PICK n \in Sizes \cup {0} : PoolSize(a) = n
    <3>1. kind[a] = k /\ work_size[a] = r.end
      BY <2>3, <2>4
    <3>2. CASE k = "single"
      BY <3>1, <3>2 DEF PoolSize
    <3>3. CASE k = "loop"
      <4>1. PICK n \in Sizes : r = [start |-> Starts(n), end |-> Ends(n)]
        BY <2>3, <3>3 DEF Ranges
      <4>2. PoolSize(a) = n
        BY <3>1, <3>3, <4>1, NewLoopSize DEF PoolSize, NumAtomics
      <4>3. QED
        BY <4>2
    <3>4. QED
      BY <3>2, <3>3
  <2>6. \A b \in Addrs \ {a} : PoolSize(b) = -1
    BY <2>4 DEF PoolSize
  <2>7. [b \in Addrs |-> PoolSize(b)] = [b \in Addrs |-> IF b = a THEN n ELSE -1]
    BY <2>5, <2>6
  <2>8. QED
    BY <2>3, <2>4, <2>7 DEF Pool!Init, Pool!Absent
<1>2. ProtocolInv /\ ChunkInv /\ [Next]_vars => [Pool!Next]_(Pool!vars)
  <2>1. SUFFICES ASSUME ProtocolInv, ChunkInv, [Next]_vars
                 PROVE  [Pool!Next]_(Pool!vars)
    OBVIOUS
  <2>2. CASE UNCHANGED vars
    BY <2>2, SizesKept DEF vars, protocolVars, shared, loopData, taskData, Pool!vars
  <2>3. ASSUME NEW t \in Threads, Step(t)
        PROVE  [Pool!Next]_(Pool!vars)
    BY <2>1, <2>3, StepIsPoolStep
  <2>4. QED
    BY <2>1, <2>2, <2>3 DEF Next
<1>3. Spec => []ProtocolInv
  BY ImplementsProtocol, ProtocolInvariant, PTL
<1>4. QED
  BY <1>1, <1>2, <1>3, ChunkInvariant, PTL DEF Spec, ImplementsPool, Pool!Spec

-----------------------------------------------------------------------------
(* The worker of AssistClient.                                             *)

(* The protocol's invariant and that of the chunks.                        *)
SchedulerInv == ProtocolInv /\ ChunkInv

(* What the history says of the tasks that exist.                          *)
HistoryInv == IdentityInv(WorkOf) /\ EndedInv

(* Only finish functions and the creation of tasks change what a task is.  *)
LEMMA TasksKept ==
  ASSUME NEW t \in Threads, Step(t), ~FinishTask(t), ~CreateTask(t)
  PROVE  kind' = kind /\ work_size' = work_size /\ created' = created
<1>1. CASE ProtocolStep(t) /\ UNCHANGED loopData
  BY <1>1
     DEF ProtocolStep, DoWork, PopTask, LookAround, StealTask, StealNothing, CheckActivity,
         JoinActivity, StartSingle, StartLoop, EndTask, CountDown, shared, loopData, taskData
<1>2. CASE Signal(t)
  BY <1>2
     DEF Signal, TaskEmpty, SwapSlot, LoadSlot, CompareExchange, AddReferences, shared,
         loopData, taskData
<1>3. QED
  BY <1>1, <1>2 DEF Step, DrawAtomic, ClaimChunk, RunChunk, shared, loopData, taskData

(* finish_task frees the task of the thread and leaves the others alone.   *)
LEMMA FinishFrees ==
  ASSUME ProtocolInv, LoopTypeOK, NEW t \in Threads, FinishTask(t)
  PROVE  /\ Frees(t) /\ created' = created /\ chunk' = chunk
         /\ \A a \in Addrs : a # task[t] =>
              work_size'[a] = work_size[a] /\ work_indexes'[a] = work_indexes[a]
BY FreeEffect DEF FinishTask, FreeTask, LoopTypeOK

(* The number of chunks of a task that is made with the ranges r.          *)
SizeOf(k, r) == IF k = "single" THEN 0 ELSE r.end[Cardinality(DOMAIN r.end) - 1]

(* Creates(t, b, k, n): the thread creates a task of kind k, of n chunks.  *)
Creates(t, b, k, n) ==
  /\ Spawns(t, b, k) /\ <<k, n>> \in Works
  /\ created' = created + 1 /\ created < MaxTasks /\ pending' = pending + 1
  /\ \A a \in Addrs : a # b =>
       work_size'[a] = work_size[a] /\ work_indexes'[a] = work_indexes[a]
  /\ PoolSize(b)' = n
  /\ chunk' = chunk

(* A task of the program has a work that AssistClient knows.               *)
LEMMA RangesWork ==
  ASSUME NEW k \in {"single", "loop"}, NEW r \in Ranges(k)
  PROVE  <<k, SizeOf(k, r)>> \in Works
<1>1. CASE k = "single"
  BY <1>1 DEF SizeOf, Works
<1>2. CASE k = "loop"
  <2>1. PICK n \in Sizes : r = [start |-> Starts(n), end |-> Ends(n)]
    BY <1>2 DEF Ranges
  <2>2. SizeOf(k, r) = n
    BY <1>2, <2>1, NewLoopSize DEF SizeOf
  <2>3. QED
    BY <1>2, <2>2 DEF Works
<1>3. QED
  BY <1>1, <1>2

(* A task that is created has a work of the program's, at a free address.  *)
LEMMA CreateSpawns ==
  ASSUME ProtocolInv, LoopTypeOK, NEW t \in Threads, CreateTask(t)
  PROVE  \E b \in Addrs, k \in {"single", "loop"}, n \in Nat : Creates(t, b, k, n)
<1>1. PICK b \in Addrs, k \in {"single", "loop"} : \E r \in Ranges(k) :
        /\ SpawnTask(t, b, k)
        /\ work_size' = [work_size EXCEPT ![b] = r.end]
        /\ work_indexes' = [work_indexes EXCEPT ![b] = r.start]
        /\ chunk' = chunk
  BY DEF CreateTask
<1>2. PICK r \in Ranges(k) :
        /\ SpawnTask(t, b, k)
        /\ work_size' = [work_size EXCEPT ![b] = r.end]
        /\ work_indexes' = [work_indexes EXCEPT ![b] = r.start]
        /\ chunk' = chunk
  BY <1>1
<1>3. Spawns(t, b, k)
  BY <1>2, SpawnEffect
<1>4. created' = created + 1 /\ created < MaxTasks /\ pending' = pending + 1
  BY <1>2 DEF SpawnTask, Counted
<1>5. \A a \in Addrs : a # b =>
        work_size'[a] = work_size[a] /\ work_indexes'[a] = work_indexes[a]
  BY <1>2 DEF LoopTypeOK
<1>6. kind'[b] = k /\ work_size'[b] = r.end
  BY <1>2, <1>3 DEF Spawns, LoopTypeOK, ProtocolInv, ProtocolTypeOK
<1>7. PoolSize(b)' = SizeOf(k, r)
  BY <1>6 DEF PoolSize, SizeOf, NumAtomics
<1>8. <<k, SizeOf(k, r)>> \in Works
  BY RangesWork
<1>9. SizeOf(k, r) \in Nat
  BY <1>8, SizesAssumption DEF Works
<1>10. QED
  BY <1>2, <1>3, <1>4, <1>5, <1>7, <1>8, <1>9 DEF Creates

(* A step keeps what the history says of the tasks.                        *)
LEMMA HistoryInvStep ==
  ASSUME SchedulerInv, SchedulerInv', HistoryInv, NEW t \in Threads, Step(t), HistoryNext(WorkOf')
  PROVE  HistoryInv'
<1>1. PICK v : v = WorkOf
  OBVIOUS
<1>2. PICK w : w = WorkOf'
  OBVIOUS
<1>3. /\ ProtocolInv /\ ProtocolInv' /\ ProtocolTypeOK /\ LoopTypeOK
      /\ IdentityInv(v) /\ EndedInv /\ HistoryNext(w) /\ ThreadStep(t)
  BY <1>1, <1>2, StepIsThreadStep
     DEF SchedulerInv, ChunkInv, ProtocolInv, TypeOK, LoopTypeOK, HistoryInv
<1>4. EndedInv'
  BY <1>3, EndedStep
<1> DEFINE S == {a \in Addrs : kind[a] = "free" /\ kind'[a] # "free"}
<1>5. /\ \A a \in Addrs : kind[a] # "free" /\ kind'[a] # "free" => w[a] = v[a]
      /\ \/ S = {} /\ created' = created
         \/ created' = created + 1 /\ \A a, b \in S : a = b
  <2>1. \A a \in Addrs : v[a] = <<kind[a], PoolSize(a)>> /\ w[a] = <<kind'[a], PoolSize(a)'>>
    BY <1>1, <1>2 DEF WorkOf
  <2>2. CASE FinishTask(t)
    <3>1. Frees(t) /\ created' = created
          /\ \A a \in Addrs : a # task[t] => work_size'[a] = work_size[a]
      BY <1>3, <2>2, FinishFrees
    <3>2. \A a \in Addrs : kind'[a] = IF a = task[t] THEN "free" ELSE kind[a]
      BY <1>3, <3>1 DEF Frees, ProtocolTypeOK
    <3>3. S = {}
      BY <3>2
    <3>4. \A a \in Addrs : kind'[a] # "free" => PoolSize(a)' = PoolSize(a)
      BY <3>1, <3>2, SizesKept
    <3>5. QED
      BY <2>1, <3>1, <3>2, <3>3, <3>4
  <2>3. CASE CreateTask(t)
    <3>1. PICK b \in Addrs, k \in {"single", "loop"}, n \in Nat : Creates(t, b, k, n)
      BY <1>3, <2>3, CreateSpawns
    <3>2. /\ kind[b] = "free" /\ kind' = [kind EXCEPT ![b] = k] /\ created' = created + 1
          /\ \A a \in Addrs : a # b => work_size'[a] = work_size[a]
      BY <3>1 DEF Creates, Spawns
    <3>3. \A a \in Addrs : kind'[a] = IF a = b THEN k ELSE kind[a]
      BY <1>3, <3>2 DEF ProtocolTypeOK
    <3>4. \A a \in Addrs \ {b} : PoolSize(a)' = PoolSize(a)
      BY <3>2, <3>3, SizesKept
    <3>5. QED
      BY <2>1, <3>2, <3>3, <3>4
  <2>4. CASE ~FinishTask(t) /\ ~CreateTask(t)
    BY <2>1, <2>4, TasksKept, SizesKept
  <2>5. QED
    BY <2>2, <2>3, <2>4
<1>6. IdentityInv(w)'
  <2> HIDE <1>2
  <2>1. \A a \in Addrs : kind[a] # "free" /\ kind'[a] # "free" => w[a] = v[a]
    BY <1>5
  <2>2. S \in SUBSET Addrs
    OBVIOUS
  <2>3. \/ S = {} /\ created' = created
        \/ created' = created + 1 /\ \A a, b \in S : a = b
    BY <1>5
  <2> HIDE DEF S
  <2>4. S = {a \in Addrs : kind[a] = "free" /\ kind'[a] # "free"}
    BY DEF S
  <2>5. QED
    BY <1>3, <2>1, <2>2, <2>3, <2>4, IdentityStep
<1>7. IdentityInv(WorkOf)'
  BY <1>2, <1>6 DEF IdentityInv
<1>8. QED
  BY <1>4, <1>7 DEF HistoryInv

-----------------------------------------------------------------------------
(* The task at an address, as AssistClient knows it.                       *)
TaskFacts ==
  /\ \A a \in Addrs : kind[a] # "free" =>
       /\ identity[a] \in Client!Tasks /\ identity[a] \notin retired
       /\ identity[a] # Client!NoTask
       /\ identity[a][2] = <<kind[a], PoolSize(a)>>
       /\ \A b \in Addrs : identity[b] = identity[a] => b = a
  /\ \A a \in Started : kind[a] # "free" /\ a \in Addrs /\ ClaimedBar[identity[a]] = Claimed(a)
  /\ \A i \in Client!Tasks : i \in retired => ClaimedBar[i] = 0 .. i[2][2] - 1
  /\ \A i \in Client!Tasks \ retired :
       (\A a \in Started : identity[a] # i) => ClaimedBar[i] = {}

(* The tasks at the addresses are tasks of AssistClient, by the history.   *)
LEMMA InvImpliesTaskFacts == SchedulerInv /\ HistoryInv => TaskFacts
<1>1. SUFFICES ASSUME SchedulerInv, HistoryInv PROVE TaskFacts
  OBVIOUS
<1>2. LoopTypeOK /\ created \in 1 .. MaxTasks /\ IdentityInv(WorkOf)
  BY <1>1
     DEF SchedulerInv, ChunkInv, ProtocolInv, TypeOK, LoopTypeOK, ProtocolTypeOK, HistoryInv
<1>3. \A a \in Addrs : kind[a] # "free" =>
       /\ identity[a] \in Client!Tasks /\ identity[a] \notin retired
       /\ identity[a] # Client!NoTask
       /\ identity[a][2] = <<kind[a], PoolSize(a)>>
       /\ \A b \in Addrs : identity[b] = identity[a] => b = a
  <2>1. SUFFICES ASSUME NEW a \in Addrs, kind[a] # "free"
                 PROVE  /\ identity[a] \in Client!Tasks /\ identity[a] \notin retired
                        /\ identity[a] # Client!NoTask
                        /\ identity[a][2] = <<kind[a], PoolSize(a)>>
                        /\ \A b \in Addrs : identity[b] = identity[a] => b = a
    OBVIOUS
  <2>2. WorkOf[a] = <<kind[a], PoolSize(a)>>
    BY DEF WorkOf
  <2>3. identity[a] = <<identity[a][1], <<kind[a], PoolSize(a)>>>>
    BY <1>2, <2>1, <2>2 DEF IdentityInv
  <2>4. identity[a][1] \in 1 .. MaxTasks
    BY <1>2, <2>1, ProtocolAssumption DEF IdentityInv
  <2>5. StartInv(a) /\ kind[a] \in {"single", "loop"}
    BY <1>1, <2>1
       DEF SchedulerInv, ChunkInv, ChunksInv, ProtocolInv, ProtocolTypeOK
  <2>6. <<kind[a], PoolSize(a)>> \in Works
    <3>1. CASE kind[a] = "single"
      BY <3>1 DEF PoolSize, Works
    <3>2. CASE kind[a] = "loop"
      BY <2>5, <3>2, LoopNumbers DEF Works
    <3>3. QED
      BY <2>5, <3>1, <3>2
  <2>7. identity[a] \in Client!Tasks
    BY <2>3, <2>4, <2>6 DEF Client!Tasks
  <2>8. identity[a] \notin retired
    BY <1>2 DEF IdentityInv
  <2>9. \A b \in Addrs : identity[b] = identity[a] => b = a
    BY <1>2, <2>1 DEF IdentityInv
  <2>10. identity[a] # Client!NoTask
    BY <2>4 DEF Client!NoTask
  <2>11. QED
    BY <2>3, <2>7, <2>8, <2>9, <2>10
<1>4. \A i \in Client!Tasks : ClaimedBar[i] =
        IF i \in retired THEN 0 .. i[2][2] - 1
        ELSE UNION {Claimed(a) : a \in {b \in Started : identity[b] = i}}
  BY DEF ClaimedBar, ClaimedOf, Client!Tasks
<1>5. ASSUME NEW a \in Started
      PROVE  kind[a] # "free" /\ a \in Addrs /\ ClaimedBar[identity[a]] = Claimed(a)
  BY <1>3, <1>4, <1>5 DEF Started
<1>6. ASSUME NEW i \in Client!Tasks \ retired, \A a \in Started : identity[a] # i
      PROVE  ClaimedBar[i] = {}
  <2>1. {b \in Started : identity[b] = i} = {}
    BY <1>6
  <2>2. QED
    BY <1>4, <2>1
<1>7. QED
  BY <1>3, <1>4, <1>5, <1>6 DEF TaskFacts

(* When no claim, start or end of a task changes what is claimed of it,    *)
(* nothing changes for the client.                                         *)
LEMMA ClaimedKept ==
  ASSUME TaskFacts, TaskFacts', retired' = retired, Started' = Started,
         \A a \in Started : identity'[a] = identity[a] /\ Claimed(a)' = Claimed(a)
  PROVE  ClaimedBar' = ClaimedBar
<1>1. ClaimedBar = [i \in Client!Tasks |-> ClaimedBar[i]]
      /\ ClaimedBar' = [i \in Client!Tasks |-> ClaimedBar'[i]]
  BY DEF ClaimedBar, Client!Tasks
<1>2. ASSUME NEW i \in Client!Tasks PROVE ClaimedBar'[i] = ClaimedBar[i]
  <2>1. CASE i \in retired
    BY <2>1 DEF TaskFacts
  <2>2. CASE \E a \in Started : identity[a] = i
    BY <2>2 DEF TaskFacts
  <2>3. CASE i \notin retired /\ \A a \in Started : identity[a] # i
    BY <2>3 DEF TaskFacts
  <2>4. QED
    BY <2>1, <2>2, <2>3
<1>3. QED
  BY <1>1, <1>2

(* Chunks are claimed of the task at b, and of no other.                   *)
LEMMA ClaimedOnce ==
  ASSUME TaskFacts, TaskFacts', retired' = retired, NEW b \in Addrs, kind[b] # "free",
         Started' = Started \cup {b}, identity' = identity,
         \A a \in Started \ {b} : Claimed(a)' = Claimed(a)
  PROVE  ClaimedBar' = [ClaimedBar EXCEPT ![identity[b]] = Claimed(b)']
<1>1. ClaimedBar = [i \in Client!Tasks |-> ClaimedBar[i]]
      /\ ClaimedBar' = [i \in Client!Tasks |-> ClaimedBar'[i]]
  BY DEF ClaimedBar, Client!Tasks
<1>2. identity[b] \in Client!Tasks /\ ClaimedBar'[identity[b]] = Claimed(b)'
  BY DEF TaskFacts
<1>3. ASSUME NEW i \in Client!Tasks, i # identity[b] PROVE ClaimedBar'[i] = ClaimedBar[i]
  <2>1. CASE i \in retired
    BY <2>1 DEF TaskFacts
  <2>2. CASE \E a \in Started : identity[a] = i
    BY <1>3, <2>2 DEF TaskFacts
  <2>3. CASE i \notin retired /\ \A a \in Started : identity[a] # i
    BY <1>3, <2>3 DEF TaskFacts
  <2>4. QED
    BY <2>1, <2>2, <2>3
<1>4. QED
  BY <1>1, <1>2, <1>3

(* The task at b is freed after its chunks were claimed.                   *)
LEMMA ClaimedRetired ==
  ASSUME TaskFacts, TaskFacts', NEW b \in Started, retired' = retired \cup {identity[b]},
         Started' = Started \ {b},
         \A a \in Started' : identity'[a] = identity[a] /\ Claimed(a)' = Claimed(a),
         Claimed(b) = 0 .. PoolSize(b) - 1
  PROVE  ClaimedBar' = ClaimedBar
<1>1. ClaimedBar = [i \in Client!Tasks |-> ClaimedBar[i]]
      /\ ClaimedBar' = [i \in Client!Tasks |-> ClaimedBar'[i]]
  BY DEF ClaimedBar, Client!Tasks
<1>2. kind[b] # "free" /\ b \in Addrs /\ ClaimedBar[identity[b]] = Claimed(b)
  BY DEF TaskFacts
<1>3. identity[b] \in Client!Tasks /\ identity[b][2] = <<kind[b], PoolSize(b)>>
  BY <1>2 DEF TaskFacts
<1>4. ClaimedBar'[identity[b]] = 0 .. PoolSize(b) - 1
  BY <1>3 DEF TaskFacts
<1>5. ASSUME NEW i \in Client!Tasks, i # identity[b] PROVE ClaimedBar'[i] = ClaimedBar[i]
  <2>1. CASE i \in retired
    BY <2>1 DEF TaskFacts
  <2>2. CASE \E a \in Started' : identity[a] = i
    BY <1>5, <2>2 DEF TaskFacts
  <2>3. CASE i \notin retired /\ \A a \in Started' : identity[a] # i
    <3>1. i \notin retired' /\ \A a \in Started : identity[a] # i
      BY <1>5, <2>3
    <3>2. \A a \in Started' : identity'[a] # i
      BY <2>3
    <3>3. ClaimedBar[i] = {}
      BY <2>3, <3>1 DEF TaskFacts
    <3>4. ClaimedBar'[i] = {}
      BY <3>1, <3>2 DEF TaskFacts
    <3>5. QED
      BY <3>3, <3>4
  <2>4. QED
    BY <2>1, <2>2, <2>3
<1>6. QED
  BY <1>1, <1>2, <1>4, <1>5

(* Where a thread is for AssistClient.                                     *)
LabelOK(t) ==
  /\ PcBar[t] = LabelOf(t) /\ TaskBar[t] = TaskOf(t) /\ ChunkBar[t] = ChunkOf(t)
  /\ pc[t] \in {"loop", "pop", "steal", "check", "join", "start"} => LabelOf(t) = "idle"
  /\ pc[t] \in {"enter", "next", "signal", "cas", "add"} => LabelOf(t) = "claim"
  /\ pc[t] = "body" => LabelOf(t) = "run"
  /\ pc[t] = "end" => LabelOf(t) = "leave"
  /\ pc[t] \in {"finish", "after", "returned"} => LabelOf(t) = pc[t]
  /\ pc[t] = "body" => ChunkOf(t) = chunk[t]
  /\ pc[t] # "body" => ChunkOf(t) = -1

(* Every thread is where LabelOK says.                                     *)
LabelFacts == \A t \in Threads : LabelOK(t)

(* LabelOK follows from the definitions of the labels.                     *)
LEMMA LabelsHold == LabelFacts
<1>1. SUFFICES ASSUME NEW t \in Threads PROVE LabelOK(t)
  BY DEF LabelFacts
<1>2. PcBar[t] = LabelOf(t) /\ TaskBar[t] = TaskOf(t) /\ ChunkBar[t] = ChunkOf(t)
  BY DEF PcBar, TaskBar, ChunkBar
<1>3. /\ pc[t] \in {"loop", "pop", "steal", "check", "join", "start"} => LabelOf(t) = "idle"
      /\ pc[t] \in {"enter", "next", "signal", "cas", "add"} => LabelOf(t) = "claim"
      /\ pc[t] = "body" => LabelOf(t) = "run"
      /\ pc[t] = "end" => LabelOf(t) = "leave"
      /\ pc[t] \in {"finish", "after", "returned"} => LabelOf(t) = pc[t]
  BY DEF LabelOf, LabelOutside
<1>4. QED
  BY <1>2, <1>3 DEF LabelOK, ChunkOf

(* What every step starts from, and leads to.                              *)
Setting(t) ==
  /\ SchedulerInv /\ SchedulerInv' /\ TaskFacts /\ TaskFacts' /\ HistoryInv
  /\ Step(t) /\ HistoryNext(WorkOf')

(* What the lemmas on the protocol and its history need.                   *)
LEMMA SettingFacts ==
  ASSUME NEW t \in Threads, Setting(t)
  PROVE  /\ ProtocolInv /\ ProtocolTypeOK /\ LoopTypeOK /\ ProtocolInv' /\ LoopTypeOK'
         /\ ThreadStep(t) /\ EndedInv /\ LabelFacts /\ LabelFacts'
         /\ \A a \in Addrs : ChunksInv(a) /\ ChunksInv(a)'
         /\ \E v, w : /\ IdentityInv(v) /\ HistoryNext(w)
                      /\ \A a \in Addrs : w[a] = <<kind'[a], PoolSize(a)'>>
<1>1. /\ ProtocolInv /\ ProtocolTypeOK /\ LoopTypeOK /\ ProtocolInv' /\ LoopTypeOK'
      /\ ThreadStep(t) /\ EndedInv
      /\ \A a \in Addrs : ChunksInv(a) /\ ChunksInv(a)'
  BY StepIsThreadStep
     DEF Setting, SchedulerInv, ChunkInv, ProtocolInv, TypeOK, LoopTypeOK, HistoryInv
<1>2. LabelFacts /\ LabelFacts'
  BY LabelsHold, PTL
<1>3. IdentityInv(WorkOf) /\ HistoryNext(WorkOf')
  BY DEF Setting, HistoryInv
<1>4. \A a \in Addrs : WorkOf'[a] = <<kind'[a], PoolSize(a)'>>
  BY DEF WorkOf
<1>5. QED
  BY <1>1, <1>2, <1>3, <1>4

(* The other threads stay where they are.                                  *)
LEMMA ThreadBars ==
  ASSUME NEW t \in Threads, Setting(t),
         \A a \in Addrs : kind[a] # "free" /\ kind'[a] # "free" => identity'[a] = identity[a]
  PROVE  /\ PcBar' = [PcBar EXCEPT ![t] = LabelOf(t)']
         /\ TaskBar' = [TaskBar EXCEPT ![t] = TaskOf(t)']
         /\ ChunkBar' = [ChunkBar EXCEPT ![t] = ChunkOf(t)']
         /\ \A u \in Threads \ {t} : TaskOf(u)' = TaskOf(u)
<1>1. ASSUME NEW u \in Threads \ {t}
      PROVE  LabelOf(u)' = LabelOf(u) /\ TaskOf(u)' = TaskOf(u) /\ ChunkOf(u)' = ChunkOf(u)
  <2>1. /\ pc'[u] = pc[u] /\ task'[u] = task[u] /\ state'[u] = state[u] /\ chunk'[u] = chunk[u]
    BY SettingFacts, OwnLoop DEF Setting
  <2>2. task[u] # Null => identity'[task[u]] = identity[task[u]]
    BY <2>1, SettingFacts DEF ProtocolTypeOK, ProtocolInv, ExclusiveFinish
  <2>3. TaskOf(u)' = TaskOf(u)
    BY <2>1, <2>2 DEF TaskOf
  <2>4. LabelOf(u)' = LabelOf(u)
    BY <2>1 DEF LabelOf, LabelOutside
  <2>5. ChunkOf(u)' = ChunkOf(u)
    BY <2>1, <2>4 DEF ChunkOf
  <2>6. QED
    BY <2>3, <2>4, <2>5
<1>2. QED
  BY <1>1 DEF PcBar, TaskBar, ChunkBar

(* A thread at work has a loop that is started.                            *)
LEMMA WorkerFacts ==
  ASSUME NEW t \in Threads, Setting(t), pc[t] \in Working
  PROVE  /\ task[t] \in Addrs /\ task[t] # Null /\ kind[task[t]] = "loop"
         /\ t \in Users(task[t]) /\ task[t] \in Started
         /\ StartInv(task[t]) /\ ChunksInv(task[t]) /\ PoolSize(task[t]) \in Nat
         /\ TaskOf(t) = identity[task[t]] /\ identity[task[t]][2] = <<"loop", PoolSize(task[t])>>
         /\ identity[task[t]] \in Client!Tasks
         /\ ClaimedBar[identity[task[t]]] = Claimed(task[t])
<1>1. task[t] \in Addrs /\ task[t] # Null /\ t \in Users(task[t])
  BY SettingFacts, TaskIsAddress, ProtocolAssumption DEF ProtocolInv, Users
<1>2. StartInv(task[t]) /\ kind[task[t]] = "loop"
  BY SettingFacts, <1>1 DEF ChunksInv, StartInv
<1>3. ChunksInv(task[t])
  BY SettingFacts, <1>1
<1>4. PoolSize(task[t]) \in Nat
  BY <1>1, <1>2, LoopNumbers
<1>5. pc[t] # "start"
  BY DEF Working
<1>6. ~Fresh(task[t])
  BY SettingFacts, <1>1, <1>5, UsedIsNotFresh
<1>7. task[t] \in Started
  BY <1>1, <1>2, <1>6 DEF Started
<1>8. TaskOf(t) = identity[task[t]]
  BY <1>1, <1>5 DEF TaskOf
<1>9. /\ identity[task[t]][2] = <<"loop", PoolSize(task[t])>>
      /\ identity[task[t]] \in Client!Tasks
      /\ ClaimedBar[identity[task[t]]] = Claimed(task[t])
  BY <1>1, <1>2, <1>7 DEF Setting, TaskFacts
<1>10. QED
  BY <1>1, <1>2, <1>3, <1>4, <1>7, <1>8, <1>9

(* The chunks claimed of a task are known from the atomics.                *)
LEMMA SameClaims ==
  ASSUME NEW a, work_size'[a] = work_size[a], work_indexes'[a] = work_indexes[a]
  PROVE  Claimed(a)' = Claimed(a)
BY DEF Taken, StartOf, Claimed

(* A step on no task, or in a chunk, may change nothing but its thread.    *)
LEMMA UnseenBars ==
  ASSUME NEW t \in Threads, Setting(t), kind' = kind, work_size' = work_size,
         \A a \in Addrs : Fresh(a)' <=> Fresh(a), pc'[t] = "end" => pc[t] = "end",
         \A a \in Started : Claimed(a)' = Claimed(a)
  PROVE  /\ queued' = queued /\ open' = open /\ ClaimedBar' = ClaimedBar /\ identity' = identity
         /\ PcBar' = [PcBar EXCEPT ![t] = LabelOf(t)']
         /\ TaskBar' = [TaskBar EXCEPT ![t] = TaskOf(t)']
         /\ ChunkBar' = [ChunkBar EXCEPT ![t] = ChunkOf(t)']
         /\ \A u \in Threads \ {t} : TaskOf(u)' = TaskOf(u)
<1>1. PICK v, w : IdentityInv(v) /\ HistoryNext(w)
  BY SettingFacts
<1>2. /\ identity' = identity /\ retired' = retired /\ Started' = Started
      /\ queued' = queued /\ open' = open
  BY SettingFacts, <1>1, UnseenEffect
<1>3. ClaimedBar' = ClaimedBar
  BY <1>2, ClaimedKept DEF Setting
<1>4. QED
  BY <1>2, <1>3, ThreadBars

(* A step that changes nothing of its thread either is a stutter.          *)
LEMMA Unseen ==
  ASSUME NEW t \in Threads, Setting(t), kind' = kind, work_size' = work_size,
         \A a \in Addrs : Fresh(a)' <=> Fresh(a), pc'[t] = "end" => pc[t] = "end",
         \A a \in Started : Claimed(a)' = Claimed(a),
         LabelOf(t)' = LabelOf(t), TaskOf(t)' = TaskOf(t), ChunkOf(t)' = ChunkOf(t),
         UNCHANGED <<pending, created, is_finished>>
  PROVE  UNCHANGED Client!vars
BY UnseenBars DEF PcBar, TaskBar, ChunkBar, Client!vars, Client!counts

-----------------------------------------------------------------------------
(* The steps of a thread outside its chunk loop.                           *)

ClientMoves(t) == Client!Step(t) \/ UNCHANGED Client!vars

(* Only a step from or to the start of a task enters or creates one.       *)
LEMMA FreshStays ==
  ASSUME NEW t \in Threads, Setting(t), deque' = deque, pc[t] # "start", pc'[t] # "start"
  PROVE  \A a \in Addrs : Fresh(a)' <=> Fresh(a)
BY SettingFacts, FreshKept

(* A step of the protocol claims nothing.                                  *)
LEMMA ClaimsStay ==
  ASSUME UNCHANGED loopData
  PROVE  work_size' = work_size /\ chunk' = chunk /\ \A a \in Started : Claimed(a)' = Claimed(a)
BY SameClaims DEF loopData, taskData

(* A thread returns when the pool is finished, or looks for work.          *)
LEMMA ReturnMove ==
  ASSUME NEW t \in Threads, Setting(t), DoWork(t), UNCHANGED loopData
  PROVE  ClientMoves(t)
<1>1. /\ pc[t] = "loop"
      /\ is_finished => pc'[t] = "returned"
      /\ ~is_finished => pc'[t] = "pop"
      /\ pc'[t] # "end" /\ pc'[t] # "start"
      /\ UNCHANGED <<is_finished, deque, kind, pending, created, task>>
  BY SettingFacts DEF DoWork, Goto, shared, ProtocolTypeOK
<1>2. work_size' = work_size /\ \A a \in Started : Claimed(a)' = Claimed(a)
  BY ClaimsStay
<1>3. \A a \in Addrs : Fresh(a)' <=> Fresh(a)
  BY <1>1, FreshStays
<1>4. /\ LabelOf(t) = "idle"
      /\ is_finished => LabelOf(t)' = "returned"
      /\ ~is_finished => LabelOf(t)' = "idle"
      /\ ChunkOf(t) = -1 /\ ChunkOf(t)' = -1
  BY SettingFacts, <1>1 DEF LabelFacts, LabelOK
<1>5. TaskOf(t) = NoIdentity /\ TaskOf(t)' = NoIdentity
  BY <1>1, SettingFacts DEF ProtocolInv, ThreadInv, Working, TaskOf
<1>6. CASE is_finished
  <2>1. /\ UNCHANGED <<queued, open, ClaimedBar>>
        /\ PcBar' = [PcBar EXCEPT ![t] = LabelOf(t)']
        /\ TaskBar' = [TaskBar EXCEPT ![t] = TaskOf(t)']
        /\ ChunkBar' = [ChunkBar EXCEPT ![t] = ChunkOf(t)']
    BY <1>1, <1>2, <1>3, UnseenBars
  <2>2. TaskOf(t)' = TaskOf(t) /\ ChunkOf(t)' = ChunkOf(t)
    BY <1>4, <1>5
  <2>3. UNCHANGED <<TaskBar, ChunkBar>>
    BY <2>1, <2>2 DEF TaskBar, ChunkBar
  <2>4. PcBar[t] = "idle" /\ PcBar' = [PcBar EXCEPT ![t] = "returned"]
    BY SettingFacts, <1>4, <1>6, <2>1 DEF LabelFacts, LabelOK
  <2>5. Client!Return(t)
    BY <1>1, <1>6, <2>1, <2>3, <2>4 DEF Client!Return, Client!Goto
  <2>6. QED
    BY <1>1, <2>5 DEF ClientMoves, Client!Step, Client!PoolStep, Client!counts
<1>7. CASE ~is_finished
  BY <1>1, <1>2, <1>3, <1>4, <1>5, <1>7, Unseen DEF ClientMoves
<1>8. QED
  BY <1>6, <1>7

(* The search for work is not seen by the client.                          *)
LEMMA SearchMove ==
  ASSUME NEW t \in Threads, Setting(t), UNCHANGED loopData,
         \/ PopTask(t) \/ StealTask(t) \/ LookAround(t) \/ StealNothing(t) \/ CheckActivity(t)
         \/ JoinActivity(t) /\ activities[other[t]].ptr = Null
  PROVE  ClientMoves(t)
<1>1. /\ pc[t] \in {"pop", "steal", "check", "join"}
      /\ pc'[t] \in {"loop", "steal", "check", "join", "start"}
      /\ pc'[t] = "start" \/ (deque' = deque /\ task' = task)
      /\ UNCHANGED <<is_finished, kind, pending, created>>
  BY SettingFacts
     DEF PopTask, StealTask, LookAround, StealNothing, CheckActivity, VisitNext, JoinActivity,
         Goto, shared, ProtocolTypeOK
<1>2. work_size' = work_size /\ \A a \in Started : Claimed(a)' = Claimed(a)
  BY ClaimsStay
<1>3. \A a \in Addrs : Fresh(a)' <=> Fresh(a)
  <2>1. CASE PopTask(t) \/ StealTask(t)
    BY SettingFacts, <2>1, TakeEffect
  <2>2. CASE ~(PopTask(t) \/ StealTask(t))
    BY <1>1, <2>2, SettingFacts, FreshStays DEF LookAround, StealNothing, CheckActivity,
       VisitNext, JoinActivity, Goto, shared, ProtocolTypeOK
  <2>3. QED
    BY <2>1, <2>2
<1>4. LabelOf(t) = "idle" /\ LabelOf(t)' = "idle" /\ ChunkOf(t) = -1 /\ ChunkOf(t)' = -1
  BY SettingFacts, <1>1 DEF LabelFacts, LabelOK
<1>5. TaskOf(t) = NoIdentity /\ TaskOf(t)' = NoIdentity
  BY <1>1, SettingFacts DEF ProtocolInv, ThreadInv, Working, TaskOf
<1>6. pc'[t] # "end"
  BY <1>1
<1>7. UNCHANGED Client!vars
  BY <1>1, <1>2, <1>3, <1>4, <1>5, <1>6, Unseen
<1>8. QED
  BY <1>7 DEF ClientMoves

(* A thread joins a task that is open: it is published, and closed tasks   *)
(* are not.                                                                *)
LEMMA JoinMove ==
  ASSUME NEW t \in Threads, Setting(t), UNCHANGED loopData,
         JoinActivity(t), activities[other[t]].ptr # Null
  PROVE  ClientMoves(t)
<1> DEFINE a == task'[t]
<1>1. /\ Joins(t)
      /\ UNCHANGED <<is_finished, pending, created>>
  BY SettingFacts, JoinEffect DEF JoinActivity
<1>2. /\ pc[t] = "join" /\ pc'[t] = "enter" /\ state'[t] = "Assist" /\ kind' = kind
      /\ deque' = deque /\ a \in Addrs /\ Published(a) /\ task[t] = Null
  BY <1>1 DEF Joins
<1>3. work_size' = work_size /\ \A b \in Started : Claimed(b)' = Claimed(b)
  BY ClaimsStay
<1>4. \A b \in Addrs : Fresh(b)' <=> Fresh(b)
  BY <1>2, FreshStays
<1>5. pc'[t] # "end"
  BY <1>2
<1>6. /\ UNCHANGED <<queued, open, ClaimedBar, identity>>
      /\ PcBar' = [PcBar EXCEPT ![t] = LabelOf(t)']
      /\ TaskBar' = [TaskBar EXCEPT ![t] = TaskOf(t)']
      /\ ChunkBar' = [ChunkBar EXCEPT ![t] = ChunkOf(t)']
  BY <1>2, <1>3, <1>4, <1>5, UnseenBars
<1>7. LabelOf(t) = "idle" /\ LabelOf(t)' = "claim" /\ ChunkOf(t)' = -1
  BY SettingFacts, <1>2 DEF LabelFacts, LabelOK
<1>8. kind[a] = "loop" /\ ~Fresh(a)
  BY SettingFacts, <1>2, OfferedIsLoop DEF ChunksInv
<1>9. TaskOf(t)' = identity[a]
  BY <1>2, <1>6, ProtocolAssumption DEF TaskOf
<1>10. identity[a] \in open /\ identity[a][2] = <<"loop", PoolSize(a)>>
  BY <1>2, <1>8, SettingFacts DEF EndedInv, Started, open, Setting, TaskFacts
<1>11. /\ PcBar[t] = "idle" /\ PcBar' = [PcBar EXCEPT ![t] = "claim"]
       /\ TaskBar' = [TaskBar EXCEPT ![t] = identity[a]]
       /\ ChunkBar' = [ChunkBar EXCEPT ![t] = -1]
  BY SettingFacts, <1>6, <1>7, <1>9 DEF LabelFacts, LabelOK
<1>12. Client!EntryLabel(identity[a], Client!NoChunk) = "claim"
  BY <1>10 DEF Client!EntryLabel, Client!Entry, Client!LoopLabel, Client!NoChunk
<1>13. Client!JoinTask(t)
  BY <1>1, <1>6, <1>10, <1>11, <1>12
     DEF Client!JoinTask, Client!Goto, Client!Hold, Client!NoChunk
<1>14. QED
  BY <1>1, <1>13 DEF ClientMoves, Client!Step, Client!PoolStep, Client!counts

(* Nothing is claimed of a task that was not started.                      *)
LEMMA FreshUnclaimed ==
  ASSUME LoopTypeOK, NEW a \in Addrs, StartInv(a), kind[a] # "free", Fresh(a)
  PROVE  Claimed(a) = {}
<1>1. ASSUME NEW i \in DOMAIN work_size[a] PROVE Taken(a, i) = {}
  BY <1>1, LoopNumbers DEF StartInv, NoAtomics, Taken
<1>2. QED
  BY <1>1 DEF Claimed

(* A task by new_single goes to its finish function, any other is opened.  *)
LEMMA StartMove ==
  ASSUME NEW t \in Threads, Setting(t), UNCHANGED loopData, StartSingle(t) \/ StartLoop(t)
  PROVE  ClientMoves(t)
<1>1. PICK a : a = task[t]
  OBVIOUS
<1>2. /\ pc[t] = "start" /\ kind' = kind /\ task' = task
      /\ UNCHANGED <<is_finished, pending, created>>
  BY DEF StartSingle, StartLoop, shared
<1>3. work_size' = work_size /\ \A b : Claimed(b)' = Claimed(b)
  BY SameClaims DEF loopData, taskData
<1>4. PICK v, w : IdentityInv(v) /\ HistoryNext(w)
  BY SettingFacts
<1>5. /\ a \in Addrs /\ kind[a] # "free" /\ Fresh(a)
      /\ identity' = identity /\ retired' = retired
      /\ Started' = Started \cup {a}
      /\ identity[a] \in queued
      /\ queued' = queued \ {identity[a]}
      /\ StartSingle(t) => open' = open
      /\ StartLoop(t) => open' = open \cup {identity[a]}
  BY SettingFacts, <1>1, <1>4, StartEffect
<1>6. /\ identity[a][2] = <<kind[a], PoolSize(a)>> /\ StartInv(a)
      /\ identity[a] \in Client!Tasks /\ identity[a] \notin retired
      /\ \A b \in Addrs : identity[b] = identity[a] => b = a
  BY SettingFacts, <1>5 DEF Setting, TaskFacts, ChunksInv
<1>7. ClaimedBar' = ClaimedBar
  <2>1. ClaimedBar' = [ClaimedBar EXCEPT ![identity[a]] = Claimed(a)']
    BY <1>3, <1>5, ClaimedOnce DEF Setting
  <2>2. Claimed(a)' = {}
    BY SettingFacts, <1>3, <1>5, <1>6, FreshUnclaimed
  <2>3. ClaimedBar[identity[a]] = {}
    BY <1>5, <1>6 DEF Started, Setting, TaskFacts
  <2>4. QED
    BY <2>1, <2>2, <2>3 DEF ClaimedBar
<1>8. /\ PcBar' = [PcBar EXCEPT ![t] = LabelOf(t)']
      /\ TaskBar' = [TaskBar EXCEPT ![t] = TaskOf(t)']
      /\ ChunkBar' = [ChunkBar EXCEPT ![t] = ChunkOf(t)']
  BY <1>2, <1>3, <1>5, ThreadBars
<1>9. PcBar[t] = "idle" /\ ChunkBar[t] = -1
  BY SettingFacts, <1>2 DEF LabelFacts, LabelOK
<1>10. ASSUME pc'[t] # "start" PROVE TaskOf(t)' = identity[a]
  BY <1>1, <1>2, <1>5, <1>10, ProtocolAssumption DEF TaskOf
<1>11. CASE StartSingle(t)
  <2>1. kind[a] = "single" /\ pc'[t] = "finish"
    BY SettingFacts, <1>1, <1>11 DEF StartSingle, Goto, ProtocolTypeOK
  <2>2. LabelOf(t)' = "finish" /\ ChunkOf(t)' = -1
    BY SettingFacts, <2>1 DEF LabelFacts, LabelOK
  <2>3. /\ PcBar' = [PcBar EXCEPT ![t] = "finish"]
        /\ TaskBar' = [TaskBar EXCEPT ![t] = identity[a]]
        /\ ChunkBar' = ChunkBar
    BY <1>8, <1>9, <1>10, <2>1, <2>2 DEF ChunkBar
  <2>4. Client!Size(identity[a]) = 0 /\ Client!Exit(identity[a]) = "finish"
    BY <1>6, <2>1 DEF Client!Size, Client!Exit, PoolSize
  <2>5. Client!StartSingle(t)
    BY <1>2, <1>5, <1>7, <1>9, <1>11, <2>3, <2>4 DEF Client!StartSingle, Client!Goto
  <2>6. QED
    BY <1>2, <2>5 DEF ClientMoves, Client!Step, Client!PoolStep, Client!counts
<1>12. CASE StartLoop(t)
  <2>1. kind[a] = "loop" /\ pc'[t] = "enter"
    BY SettingFacts, <1>1, <1>12 DEF StartLoop, Goto, ProtocolTypeOK
  <2>2. LabelOf(t)' = "claim" /\ ChunkOf(t)' = -1
    BY SettingFacts, <2>1 DEF LabelFacts, LabelOK
  <2>3. /\ PcBar' = [PcBar EXCEPT ![t] = "claim"]
        /\ TaskBar' = [TaskBar EXCEPT ![t] = identity[a]]
        /\ ChunkBar' = [ChunkBar EXCEPT ![t] = Client!NoChunk]
    BY <1>8, <1>10, <2>1, <2>2 DEF Client!NoChunk
  <2>4. Client!Entry(identity[a]) # "none"
        /\ Client!EntryLabel(identity[a], Client!NoChunk) = "claim"
    BY <1>6, <2>1 DEF Client!Entry, Client!EntryLabel, Client!LoopLabel
  <2>5. Client!StartLoop(t)
    BY <1>2, <1>5, <1>7, <1>9, <1>12, <2>3, <2>4
       DEF Client!StartLoop, Client!Goto, Client!Hold
  <2>6. QED
    BY <1>2, <2>5 DEF ClientMoves, Client!Step, Client!PoolStep, Client!counts
<1>13. QED
  BY <1>11, <1>12

(* The count of references tells whether another thread is on the task.    *)
LEMMA LastIsAlone ==
  ASSUME ProtocolInv, NEW t \in Threads, pc[t] = "end", NEW a, a = task[t]
  PROVE  /\ active_threads[a] - 1 = 0 <=> ~\E u \in Threads \ {t} : task[u] = a
         /\ \A u \in Threads : task[u] = a => u \in Users(a)
<1>1. ProtocolTypeOK /\ a \in Addrs /\ a # Null /\ t \in Users(a)
  BY TaskIsAddress, ProtocolAssumption DEF ProtocolInv, Users, Working
<1>2. ~Fresh(a) /\ ~Published(a)
  BY InvImpliesEndIsClosed DEF EndIsClosed
<1>3. ASSUME NEW u \in Threads, task[u] = a PROVE u \in Users(a)
  BY <1>1, <1>2, <1>3 DEF ProtocolInv, ThreadInv, Fresh, ExclusiveFinish, Users
<1>4. Users(a) \in SUBSET Threads
  BY DEF Users
<1>5. Cardinality(Users(a)) \in Nat /\ Cardinality(Users(a) \ {t}) = Cardinality(Users(a)) - 1
      /\ (Cardinality(Users(a) \ {t}) = 0 => Users(a) \ {t} = {})
      /\ Cardinality({}) = 0
  BY <1>1, <1>4, UserCount
<1>6. active_threads[a] \in Int
  BY <1>1 DEF ProtocolTypeOK
<1>7. CASE Adding(a) = {}
  BY <1>1, <1>2, <1>3, <1>5, <1>6, <1>7 DEF ProtocolInv, ReferenceCount, Users
<1>8. CASE Adding(a) # {}
  <2>1. PICK u \in Adding(a) : TRUE
    BY <1>8
  <2>2. u \in Threads \ {t} /\ task[u] = a
    BY <2>1 DEF Adding, Users
  <2>3. active_threads[a] <= 0
    BY <1>1, <2>1 DEF ProtocolInv, ReferenceCount
  <2>4. QED
    BY <1>3, <1>6, <2>2, <2>3
<1>9. QED
  BY <1>7, <1>8

(* The last thread to leave a task finishes it.                            *)
LEMMA LeaveMove ==
  ASSUME NEW t \in Threads, Setting(t), UNCHANGED loopData, EndTask(t)
  PROVE  ClientMoves(t)
<1>1. PICK a : a = task[t]
  OBVIOUS
<1>2. /\ pc[t] = "end" /\ kind' = kind /\ deque' = deque
      /\ active_threads[a] - 1 = 0 => pc'[t] = "finish" /\ task'[t] = a
      /\ active_threads[a] - 1 # 0 => pc'[t] = "loop" /\ task'[t] = Null
      /\ pc'[t] # "end" /\ pc'[t] # "start"
      /\ UNCHANGED <<is_finished, pending, created>>
  BY SettingFacts, <1>1 DEF EndTask, IsLast, Goto, ProtocolTypeOK
<1>3. work_size' = work_size /\ \A b \in Started : Claimed(b)' = Claimed(b)
  BY ClaimsStay
<1>4. \A b \in Addrs : Fresh(b)' <=> Fresh(b)
  BY <1>2, FreshStays
<1>5. /\ a \in Addrs /\ a # Null /\ kind[a] # "free" /\ TaskOf(t) = identity[a]
      /\ identity[a] \in Client!Tasks
  BY <1>1, <1>2, WorkerFacts DEF Working
<1>6. /\ UNCHANGED <<queued, open, ClaimedBar, identity>>
      /\ PcBar' = [PcBar EXCEPT ![t] = LabelOf(t)']
      /\ TaskBar' = [TaskBar EXCEPT ![t] = TaskOf(t)']
      /\ ChunkBar' = [ChunkBar EXCEPT ![t] = ChunkOf(t)']
  BY <1>2, <1>3, <1>4, UnseenBars
<1>7. /\ PcBar[t] = "leave" /\ TaskBar[t] = identity[a] /\ ChunkBar[t] = -1
      /\ ChunkOf(t)' = -1
      /\ pc'[t] = "finish" => LabelOf(t)' = "finish"
      /\ pc'[t] = "loop" => LabelOf(t)' = "idle"
  BY SettingFacts, <1>2, <1>5 DEF LabelFacts, LabelOK
<1>8. ChunkBar' = ChunkBar
  BY <1>6, <1>7 DEF ChunkBar
<1>9. \A u \in Threads : TaskBar[u] = identity[a] <=> task[u] = a
  <2>1. TAKE u \in Threads
  <2>2. TaskBar[u] = TaskOf(u)
    BY SettingFacts DEF LabelFacts, LabelOK
  <2>3. CASE task[u] = a
    BY <1>1, <1>2, <1>5, <2>2, <2>3, SettingFacts, LastIsAlone DEF Users, Working, TaskOf
  <2>4. CASE task[u] # a /\ (task[u] = Null \/ pc[u] = "start")
    BY <1>5, <2>2, <2>4 DEF TaskOf, NoIdentity, Client!NoTask, Setting, TaskFacts
  <2>5. CASE task[u] # a /\ task[u] # Null /\ pc[u] # "start"
    BY <1>5, <2>2, <2>5, SettingFacts DEF TaskOf, ProtocolTypeOK, Setting, TaskFacts
  <2>6. QED
    BY <2>3, <2>4, <2>5
<1>10. active_threads[a] - 1 = 0 <=> ~\E u \in Threads \ {t} : TaskBar[u] = TaskBar[t]
  BY <1>1, <1>2, <1>7, <1>9, SettingFacts, LastIsAlone
<1>11. Client!Exit(identity[a]) = "finish"
  BY DEF Client!Exit
<1>12. CASE active_threads[a] - 1 = 0
  <2>1. pc'[t] = "finish" /\ task'[t] = a
    BY <1>2, <1>12
  <2>2. TaskOf(t)' = identity[a]
    BY <1>5, <1>6, <2>1 DEF TaskOf
  <2>3. TaskBar' = TaskBar
    BY <1>5, <1>6, <2>2 DEF TaskBar
  <2>4. PcBar' = [PcBar EXCEPT ![t] = "finish"]
    BY <1>6, <1>7, <2>1
  <2>5. Client!EndTask(t)
    BY <1>2, <1>6, <1>7, <1>8, <1>10, <1>11, <1>12, <2>3, <2>4
       DEF Client!EndTask, Client!Goto, Client!Threads, Threads
  <2>6. QED
    BY <1>2, <2>5 DEF ClientMoves, Client!Step, Client!PoolStep, Client!counts
<1>13. CASE active_threads[a] - 1 # 0
  <2>1. pc'[t] = "loop" /\ task'[t] = Null
    BY <1>2, <1>13
  <2>2. TaskOf(t)' = Client!NoTask
    BY <2>1 DEF TaskOf, NoIdentity, Client!NoTask
  <2>3. PcBar' = [PcBar EXCEPT ![t] = "idle"] /\ TaskBar' = [TaskBar EXCEPT ![t] = Client!NoTask]
    BY <1>6, <1>7, <2>1, <2>2
  <2>4. \E u \in Threads \ {t} : TaskBar[u] = TaskBar[t]
    BY <1>10, <1>13
  <2>5. Client!EndTask(t)
    BY <1>2, <1>6, <1>7, <1>8, <2>3, <2>4
       DEF Client!EndTask, Client!Leave, Client!Goto, Client!Threads, Threads
  <2>6. QED
    BY <1>2, <2>5 DEF ClientMoves, Client!Step, Client!PoolStep, Client!counts
<1>14. QED
  BY <1>12, <1>13

(* The pending count of the client is that of the protocol.                *)
LEMMA CountMove ==
  ASSUME NEW t \in Threads, Setting(t), UNCHANGED loopData, CountDown(t)
  PROVE  ClientMoves(t)
<1>1. /\ pc[t] = "after" /\ pc'[t] = "loop" /\ pc'[t] # "end" /\ pc'[t] # "start"
      /\ pending' = pending - 1 /\ is_finished' = (is_finished \/ pending = 1)
      /\ UNCHANGED <<kind, deque, created, task>>
  BY SettingFacts DEF CountDown, Goto, ProtocolTypeOK
<1>2. work_size' = work_size /\ \A b \in Started : Claimed(b)' = Claimed(b)
  BY ClaimsStay
<1>3. \A b \in Addrs : Fresh(b)' <=> Fresh(b)
  BY <1>1, FreshStays
<1>4. /\ UNCHANGED <<queued, open, ClaimedBar>>
      /\ PcBar' = [PcBar EXCEPT ![t] = LabelOf(t)']
      /\ TaskBar' = [TaskBar EXCEPT ![t] = TaskOf(t)']
      /\ ChunkBar' = [ChunkBar EXCEPT ![t] = ChunkOf(t)']
  BY <1>1, <1>2, <1>3, UnseenBars
<1>5. /\ PcBar[t] = "after" /\ LabelOf(t)' = "idle" /\ ChunkOf(t)' = ChunkOf(t)
  BY SettingFacts, <1>1 DEF LabelFacts, LabelOK
<1>6. TaskOf(t)' = TaskOf(t)
  BY <1>1, SettingFacts DEF ProtocolInv, ThreadInv, Working, TaskOf
<1>7. UNCHANGED <<TaskBar, ChunkBar>> /\ PcBar' = [PcBar EXCEPT ![t] = "idle"]
  BY <1>4, <1>5, <1>6 DEF TaskBar, ChunkBar
<1>8. Client!CountDown(t)
  BY <1>1, <1>4, <1>5, <1>7 DEF Client!CountDown, Client!Goto
<1>9. QED
  BY <1>8 DEF ClientMoves, Client!Step

(* Every step of the protocol outside the chunk loop.                      *)
LEMMA ProtocolMove ==
  ASSUME NEW t \in Threads, Setting(t), UNCHANGED loopData, ProtocolStep(t)
  PROVE  ClientMoves(t)
BY ReturnMove, SearchMove, JoinMove, StartMove, LeaveMove, CountMove DEF ProtocolStep

-----------------------------------------------------------------------------
(* The steps in the chunk loop.                                            *)

(* A step of a thread on its task keeps all the other tasks.               *)
LEMMA WorkBars ==
  ASSUME NEW t \in Threads, Setting(t), pc[t] \in Working, pc'[t] # "start",
         kind' = kind, work_size' = work_size, deque' = deque, task' = task,
         \A a \in Addrs : a # task[t] => work_indexes'[a] = work_indexes[a]
  PROVE  /\ PcBar' = [PcBar EXCEPT ![t] = LabelOf(t)']
         /\ TaskBar' = TaskBar /\ TaskBar[t] = identity[task[t]]
         /\ ChunkBar' = [ChunkBar EXCEPT ![t] = ChunkOf(t)']
         /\ queued' = queued
         /\ pc'[t] # "end" \/ pc[t] = "end" => open' = open
         /\ pc'[t] = "end" => open' = open \ {identity[task[t]]}
         /\ ClaimedBar' = [ClaimedBar EXCEPT ![identity[task[t]]] = Claimed(task[t])']
         /\ Claimed(task[t])' = Claimed(task[t]) => ClaimedBar' = ClaimedBar
<1>1. PICK a : a = task[t]
  OBVIOUS
<1>2. a \in Addrs /\ a # Null /\ kind[a] # "free" /\ a \in Started /\ TaskOf(t) = identity[a]
      /\ ClaimedBar[identity[a]] = Claimed(a)
  BY <1>1, WorkerFacts
<1>3. \A b \in Addrs : Fresh(b)' <=> Fresh(b)
  BY FreshStays DEF Working
<1>4. PICK v, w : IdentityInv(v) /\ HistoryNext(w)
  BY SettingFacts
<1>5. /\ identity' = identity /\ retired' = retired /\ Started' = Started /\ queued' = queued
      /\ pc'[t] # "end" \/ pc[t] = "end" => open' = open
      /\ pc'[t] = "end" => open' = open \ {identity[a]}
  <2>1. CASE pc'[t] = "end"
    BY <1>1, <1>2, <1>3, <1>4, <2>1, SettingFacts, CloseEffect, UnseenEffect
  <2>2. CASE pc'[t] # "end"
    BY SettingFacts, <1>3, <1>4, <2>2, UnseenEffect
  <2>3. QED
    BY <2>1, <2>2
<1>6. \A b \in Started : b \in Addrs /\ (b # a => Claimed(b)' = Claimed(b))
  BY <1>1, SameClaims DEF Started
<1>7. ClaimedBar' = [ClaimedBar EXCEPT ![identity[a]] = Claimed(a)']
  BY <1>2, <1>5, <1>6, ClaimedOnce DEF Setting
<1>8. Claimed(a)' = Claimed(a) => ClaimedBar' = ClaimedBar
  BY <1>5, <1>6, ClaimedKept DEF Setting
<1>9. /\ PcBar' = [PcBar EXCEPT ![t] = LabelOf(t)']
      /\ TaskBar' = [TaskBar EXCEPT ![t] = TaskOf(t)']
      /\ ChunkBar' = [ChunkBar EXCEPT ![t] = ChunkOf(t)']
  BY <1>5, ThreadBars
<1>10. TaskOf(t)' = TaskOf(t) /\ TaskBar[t] = identity[a]
  BY SettingFacts, <1>1, <1>2, <1>5 DEF TaskOf, LabelFacts, LabelOK
<1>11. TaskBar' = TaskBar
  BY <1>9, <1>10 DEF TaskBar
<1>12. Claimed(task[t])' = Claimed(a)'
  BY <1>1 DEF Claimed, Taken, StartOf
<1>13. QED
  BY <1>1, <1>5, <1>7, <1>8, <1>9, <1>10, <1>11, <1>12

(* The thread goes on with what it has.                                    *)
LEMMA SameMove ==
  ASSUME NEW t \in Threads, Setting(t), pc[t] \in Working, pc'[t] \notin {"start", "end"},
         kind' = kind, work_size' = work_size, deque' = deque, task' = task,
         \A a \in Addrs : a # task[t] => work_indexes'[a] = work_indexes[a],
         Claimed(task[t])' = Claimed(task[t]),
         LabelOf(t)' = LabelOf(t), ChunkOf(t)' = ChunkOf(t),
         UNCHANGED <<pending, created, is_finished>>
  PROVE  ClientMoves(t)
BY WorkBars DEF PcBar, ChunkBar, ClientMoves, Client!vars, Client!counts

(* A claim yields a chunk that nobody claimed, or nothing.                 *)
LEMMA ClaimedNext ==
  ASSUME LoopTypeOK, NEW a \in Addrs, StartInv(a), kind[a] = "loop", IndexInv(a),
         NEW i \in DOMAIN work_size[a], NEW c \in Nat, c = work_indexes[a][i],
         work_size'[a] = work_size[a], work_indexes'[a][i] = c + 1,
         \A j \in DOMAIN work_size[a] \ {i} : work_indexes'[a][j] = work_indexes[a][j]
  PROVE  /\ c < work_size[a][i] =>
              /\ c \in (0 .. PoolSize(a) - 1) \ Claimed(a)
              /\ Claimed(a)' = Claimed(a) \cup {c}
         /\ ~(c < work_size[a][i]) => Claimed(a)' = Claimed(a)
<1>1. /\ PoolSize(a) \in Nat /\ work_size[a][i] \in 0 .. PoolSize(a)
      /\ StartOf(a, i) \in 0 .. work_size[a][i]
  BY LoopNumbers
<1>2. c >= StartOf(a, i)
  BY DEF IndexInv
<1>3. \A j \in DOMAIN work_size[a] \ {i} : Taken(a, j)' = Taken(a, j)
  BY DEF Taken, StartOf
<1>4. /\ Taken(a, i)' = {d \in StartOf(a, i) .. work_size[a][i] - 1 : d < c + 1}
      /\ Taken(a, i) = {d \in StartOf(a, i) .. work_size[a][i] - 1 : d < c}
  BY DEF Taken, StartOf
<1>5. CASE c < work_size[a][i]
  <2>1. c \in StartOf(a, i) .. work_size[a][i] - 1
    BY <1>1, <1>2, <1>5
  <2>2. \A d \in StartOf(a, i) .. work_size[a][i] - 1 : d < c + 1 <=> d < c \/ d = c
    BY <1>1
  <2>3. Taken(a, i)' = Taken(a, i) \cup {c} /\ c \notin Taken(a, i)
    BY <1>4, <2>1, <2>2
  <2>4. \A j \in DOMAIN work_size[a] \ {i} : c \notin Taken(a, j)
    BY <2>1, RangesApart DEF Taken
  <2>5. c \in 0 .. PoolSize(a) - 1
    BY <1>1, <1>5
  <2>6. QED
    BY <1>3, <1>5, <2>3, <2>4, <2>5 DEF Claimed
<1>6. CASE ~(c < work_size[a][i])
  BY <1>1, <1>3, <1>4, <1>6 DEF Claimed
<1>7. QED
  BY <1>5, <1>6

(* A thread that leaves a task leaves no chunk, or another thread that     *)
(* claims them: AtomicKept, once for the whole task.                       *)
LeaversKept ==
  \A t \in Threads : pc[t] = "end" =>
    \/ Claimed(task[t]) = 0 .. PoolSize(task[t]) - 1
    \/ \E u \in Threads \ {t} : task[u] = task[t] /\ pc[u] \in Claiming

(* By Kept, every atomic is used up or held by another thread.            *)
LEMMA AtomicsKeepLeavers == SchedulerInv => LeaversKept
<1>1. SUFFICES ASSUME SchedulerInv, NEW t \in Threads, pc[t] = "end",
                      \A u \in Threads \ {t} : task[u] = task[t] => pc[u] \notin Claiming
               PROVE  Claimed(task[t]) = 0 .. PoolSize(task[t]) - 1
  BY DEF LeaversKept
<1> DEFINE a == task[t]
<1>2. ProtocolInv /\ LoopTypeOK /\ \A b \in Addrs : ChunksInv(b)
  BY <1>1 DEF SchedulerInv, ChunkInv, TypeOK, LoopTypeOK
<1>3. a \in Addrs /\ t \in Users(a)
  BY <1>1, <1>2, TaskIsAddress DEF ProtocolInv, Users, Working
<1>4. ChunksInv(a) /\ StartInv(a) /\ kind[a] = "loop"
  BY <1>2, <1>3 DEF ChunksInv, StartInv
<1>5. ASSUME NEW i \in DOMAIN work_size[a] PROVE UsedUp(a, i)
  BY <1>1, <1>3, <1>4 DEF ChunksInv, Users, Claiming, Kept
<1>6. QED
  BY <1>2, <1>3, <1>4, <1>5, ClaimedRange

(* The thread ends its loop: no chunk is left, or another thread is.       *)
LEMMA EndMove ==
  ASSUME NEW t \in Threads, Setting(t), pc[t] \in Working, pc'[t] = "end",
         kind' = kind, work_size' = work_size, deque' = deque, task' = task,
         \A a \in Addrs : a # task[t] => work_indexes'[a] = work_indexes[a],
         Claimed(task[t])' = Claimed(task[t]), LabelOf(t) = "claim",
         UNCHANGED <<pending, created, is_finished>>
  PROVE  ClientMoves(t)
<1> DEFINE i == identity[task[t]]
<1>1. /\ PcBar' = [PcBar EXCEPT ![t] = LabelOf(t)']
      /\ TaskBar' = TaskBar /\ TaskBar[t] = i
      /\ ChunkBar' = [ChunkBar EXCEPT ![t] = ChunkOf(t)']
      /\ queued' = queued /\ open' = open \ {i} /\ ClaimedBar' = ClaimedBar
  BY WorkBars
<1>2. PcBar[t] = "claim" /\ LabelOf(t)' = "leave" /\ ChunkOf(t)' = -1
  BY SettingFacts DEF LabelFacts, LabelOK
<1>3. Client!Unclaimed(i) = {} \/ Client!Others(t) # {}
  <2>1. ClaimedBar[i] = Claimed(task[t]) /\ i[2] = <<"loop", PoolSize(task[t])>>
    BY WorkerFacts
  <2>2. Client!Size(i) = PoolSize(task[t])
    BY <2>1 DEF Client!Size
  <2>3. \/ Claimed(task[t])' = (0 .. PoolSize(task[t]) - 1)'
        \/ \E u \in Threads \ {t} : task'[u] = task'[t] /\ pc'[u] \in Claiming
    <3>1. LeaversKept'
      BY AtomicsKeepLeavers, PTL DEF Setting
    <3>2. QED
      BY <3>1 DEF LeaversKept
  <2>4. PoolSize(task[t])' = PoolSize(task[t])
    BY DEF PoolSize, NumAtomics
  <2>5. CASE Claimed(task[t])' = (0 .. PoolSize(task[t]) - 1)'
    BY <2>1, <2>2, <2>4, <2>5 DEF Client!Unclaimed
  <2>6. CASE \E u \in Threads \ {t} : task'[u] = task'[t] /\ pc'[u] \in Claiming
    <3>1. PICK u \in Threads \ {t} : task'[u] = task'[t] /\ pc'[u] \in Claiming
      BY <2>6
    <3>2. task[u] = task[t] /\ pc[u] \in Claiming
      BY SettingFacts, <3>1, OwnLoop DEF Setting
    <3>3. TaskOf(u) = TaskOf(t)
      BY <3>2 DEF TaskOf, Claiming, Working
    <3>4. PcBar[u] \in {"claim", "run"} /\ TaskBar[u] = TaskBar[t]
      BY SettingFacts, <3>2, <3>3 DEF LabelFacts, LabelOK, Claiming
    <3>5. u \in Client!Others(t)
      BY <3>4 DEF Client!Others, Client!After, Client!Threads, Threads
    <3>6. QED
      BY <3>5
  <2>7. QED
    BY <2>3, <2>5, <2>6
<1>4. Client!EndLoop(t)
  BY <1>1, <1>2, <1>3
     DEF Client!EndLoop, Client!Hold, Client!Goto, Client!NoChunk, Client!After
<1>5. QED
  BY <1>4 DEF ClientMoves, Client!Step, Client!PoolStep, Client!counts

(* Drawing an atomic is not seen by the client.                            *)
LEMMA DrawMove ==
  ASSUME NEW t \in Threads, Setting(t), DrawAtomic(t)
  PROVE  ClientMoves(t)
<1>1. /\ pc[t] = "enter" /\ pc'[t] = "next" /\ pc[t] \in Working
      /\ UNCHANGED <<kind, deque, task, work_size, work_indexes, pending, created, is_finished>>
  BY SettingFacts DEF DrawAtomic, Goto, shared, Working, ProtocolTypeOK
<1>2. LabelOf(t) = "claim" /\ LabelOf(t)' = "claim" /\ ChunkOf(t) = -1 /\ ChunkOf(t)' = -1
  BY SettingFacts, <1>1 DEF LabelFacts, LabelOK
<1>3. Claimed(task[t])' = Claimed(task[t])
  BY <1>1 DEF Claimed, Taken, StartOf
<1>4. pc'[t] \notin {"start", "end"}
  BY <1>1
<1>5. QED
  BY <1>1, <1>2, <1>3, <1>4, SameMove

(* A thread claims a chunk, or finds its atomic used up.                   *)
LEMMA ClaimMove ==
  ASSUME NEW t \in Threads, Setting(t), ClaimChunk(t)
  PROVE  ClientMoves(t)
<1>1. PICK a, i, c : a = task[t] /\ i = current_index[t] /\ c = work_indexes[a][i]
  OBVIOUS
<1>2. /\ AtWork(t) /\ pc[t] = "next" /\ a \in Addrs
      /\ i \in DOMAIN work_size[a] /\ c \in Nat /\ work_size[a][i] \in Nat
      /\ work_indexes'[a][i] = c + 1
      /\ \A j \in DOMAIN work_size[a] \ {i} : work_indexes'[a][j] = work_indexes[a][j]
      /\ chunk'[t] = c
      /\ \/ c < work_size[a][i] /\ pc'[t] = "body"
         \/ c >= work_size[a][i] /\ pc'[t] \in {"enter", "signal", "end"}
  BY SettingFacts, <1>1, ClaimEffect DEF Setting
<1>3. /\ pc[t] \in Working
      /\ UNCHANGED <<kind, deque, task, work_size, pending, created, is_finished>>
      /\ \A b \in Addrs : b # task[t] => work_indexes'[b] = work_indexes[b]
  BY <1>2 DEF ClaimChunk, shared, AtWork, SameData, Working
<1>4. /\ kind[a] = "loop" /\ StartInv(a) /\ IndexInv(a)
      /\ identity[a][2] = <<"loop", PoolSize(a)>>
      /\ identity[a] \in Client!Tasks
      /\ ClaimedBar[identity[a]] = Claimed(a)
  BY <1>1, <1>3, WorkerFacts DEF ChunksInv
<1>5. /\ c < work_size[a][i] =>
           /\ c \in (0 .. PoolSize(a) - 1) \ Claimed(a)
           /\ Claimed(a)' = Claimed(a) \cup {c}
      /\ ~(c < work_size[a][i]) => Claimed(a)' = Claimed(a)
  BY SettingFacts, <1>1, <1>2, <1>3, <1>4, ClaimedNext
<1>6. LabelOf(t) = "claim" /\ ChunkOf(t) = -1
  BY SettingFacts, <1>2 DEF LabelFacts, LabelOK
<1>7. Claimed(task[t])' = Claimed(a)' /\ Claimed(task[t]) = Claimed(a)
  BY <1>1, <1>3 DEF Claimed, Taken, StartOf
<1>8. CASE c < work_size[a][i]
  <2>1. pc'[t] = "body"
    BY <1>2, <1>8
  <2>2. LabelOf(t)' = "run" /\ ChunkOf(t)' = c
    BY SettingFacts, <1>2, <2>1 DEF LabelFacts, LabelOK
  <2>3. pc'[t] # "start" /\ pc'[t] # "end"
    BY <2>1
  <2>4. /\ PcBar' = [PcBar EXCEPT ![t] = LabelOf(t)']
        /\ TaskBar' = TaskBar /\ TaskBar[t] = identity[task[t]]
        /\ ChunkBar' = [ChunkBar EXCEPT ![t] = ChunkOf(t)']
        /\ queued' = queued /\ open' = open
        /\ ClaimedBar' = [ClaimedBar EXCEPT ![identity[task[t]]] = Claimed(task[t])']
    BY <1>3, <2>3, WorkBars
  <2>5. /\ PcBar[t] = "claim" /\ PcBar' = [PcBar EXCEPT ![t] = "run"]
        /\ TaskBar[t] = identity[a]
        /\ ChunkBar' = [ChunkBar EXCEPT ![t] = c]
        /\ ClaimedBar' = [ClaimedBar EXCEPT ![identity[a]] = ClaimedBar[identity[a]] \cup {c}]
    BY SettingFacts, <1>1, <1>4, <1>5, <1>6, <1>7, <1>8, <2>2, <2>4 DEF LabelFacts, LabelOK
  <2>6. c \in Client!Unclaimed(identity[a])
    BY <1>4, <1>5, <1>8 DEF Client!Unclaimed, Client!Size
  <2>7. Client!ClaimChunk(t)
    BY <1>3, <2>4, <2>5, <2>6 DEF Client!ClaimChunk, Client!Hold, Client!Goto
  <2>8. QED
    BY <1>3, <2>7 DEF ClientMoves, Client!Step, Client!PoolStep, Client!counts
<1>9. CASE ~(c < work_size[a][i])
  <2>1. Claimed(task[t])' = Claimed(task[t]) /\ pc'[t] \in {"enter", "signal", "end"}
    BY <1>2, <1>5, <1>7, <1>9
  <2>2. CASE pc'[t] = "end"
    BY <1>3, <1>6, <2>1, <2>2, EndMove
  <2>3. CASE pc'[t] # "end"
    BY <1>3, <1>6, <2>1, <2>3, SettingFacts, SameMove DEF LabelFacts, LabelOK
  <2>4. QED
    BY <2>2, <2>3
<1>10. QED
  BY <1>8, <1>9

(* A chunk is executed.                                                    *)
LEMMA RunMove ==
  ASSUME NEW t \in Threads, Setting(t), RunChunk(t)
  PROVE  ClientMoves(t)
<1>1. /\ pc[t] = "body" /\ pc'[t] = "next" /\ pc[t] \in Working
      /\ UNCHANGED <<kind, deque, task, work_size, work_indexes, pending, created, is_finished>>
  BY SettingFacts DEF RunChunk, Goto, shared, Working, ProtocolTypeOK
<1>2. LabelOf(t) = "run" /\ LabelOf(t)' = "claim" /\ ChunkOf(t)' = -1
  BY SettingFacts, <1>1 DEF LabelFacts, LabelOK
<1>3. Claimed(task[t])' = Claimed(task[t])
  BY <1>1 DEF Claimed, Taken, StartOf
<1>4. pc'[t] # "start" /\ pc'[t] # "end"
  BY <1>1
<1>5. /\ PcBar' = [PcBar EXCEPT ![t] = LabelOf(t)']
      /\ TaskBar' = TaskBar
      /\ ChunkBar' = [ChunkBar EXCEPT ![t] = ChunkOf(t)']
      /\ queued' = queued /\ open' = open /\ ClaimedBar' = ClaimedBar
  BY <1>1, <1>3, <1>4, WorkBars
<1>6. /\ PcBar[t] = "run" /\ PcBar' = [PcBar EXCEPT ![t] = "claim"]
      /\ ChunkBar' = [ChunkBar EXCEPT ![t] = -1]
  BY SettingFacts, <1>2, <1>5 DEF LabelFacts, LabelOK
<1>7. Client!RunChunk(t)
  BY <1>1, <1>5, <1>6 DEF Client!RunChunk, Client!Hold, Client!Goto, Client!NoChunk, Client!counts
<1>8. QED
  BY <1>7 DEF ClientMoves, Client!Step

(* Hiding the task changes nothing for the client, but that the thread     *)
(* leaves the task then.                                                   *)
LEMMA SignalMove ==
  ASSUME NEW t \in Threads, Setting(t), Signal(t)
  PROVE  ClientMoves(t)
<1>1. Hides(t, "end") /\ UNCHANGED loopData
  BY SettingFacts, HideEffect DEF Signal
<1>2. /\ pc[t] \in {"signal", "cas", "add"} /\ pc[t] \in Working
      /\ pc'[t] \in {"cas", "add", "end"}
      /\ UNCHANGED <<kind, deque, task, work_size, work_indexes, pending, created, is_finished>>
  BY <1>1 DEF Hides, Working, loopData, taskData
<1>3. Claimed(task[t])' = Claimed(task[t])
  BY <1>2 DEF Claimed, Taken, StartOf
<1>4. LabelOf(t) = "claim" /\ ChunkOf(t) = -1
  BY SettingFacts, <1>2 DEF LabelFacts, LabelOK
<1>5. CASE pc'[t] = "end"
  BY <1>2, <1>3, <1>4, <1>5, EndMove
<1>6. CASE pc'[t] # "end"
  BY <1>2, <1>3, <1>4, <1>6, SettingFacts, SameMove DEF LabelFacts, LabelOK
<1>7. QED
  BY <1>5, <1>6

-----------------------------------------------------------------------------
(* The steps that free and create a task.                                  *)

(* All chunks of a task are claimed when it finishes.                      *)
LEMMA FinishedIsClaimed ==
  ASSUME NEW t \in Threads, Setting(t), pc[t] = "finish"
  PROVE  Claimed(task[t]) = 0 .. PoolSize(task[t]) - 1
<1> DEFINE a == task[t]
<1>1. a \in Addrs /\ PoolSize(a) # -1 /\ done[a] = 0 .. PoolSize(a) - 1
  BY FinishedIsDone DEF Setting, SchedulerInv
<1>2. ChunksInv(a) /\ StartInv(a) /\ kind[a] \in {"single", "loop"}
  BY SettingFacts, <1>1 DEF ChunksInv, PoolSize, ProtocolTypeOK
<1>3. CASE kind[a] = "loop"
  BY <1>1, <1>2, <1>3, SettingFacts, ClaimedRange DEF ChunksInv, OwnerInv
<1>4. CASE kind[a] = "single"
  BY <1>2, <1>4 DEF StartInv, PoolSize, Claimed, NoAtomics
<1>5. QED
  BY <1>2, <1>3, <1>4

(* The finish function frees the task, which the history remembers.        *)
LEMMA FinishMove ==
  ASSUME NEW t \in Threads, Setting(t), FinishTask(t)
  PROVE  ClientMoves(t)
<1>1. PICK a : a = task[t]
  OBVIOUS
<1>2. /\ Frees(t) /\ UNCHANGED <<created, chunk>>
      /\ \A b \in Addrs : b # a =>
           work_size'[b] = work_size[b] /\ work_indexes'[b] = work_indexes[b]
  BY SettingFacts, <1>1, FinishFrees
<1>3. /\ pc[t] = "finish" /\ pc'[t] = "after" /\ a \in Addrs /\ task'[t] = Null
      /\ UNCHANGED <<pending, is_finished>>
  BY <1>1, <1>2 DEF Frees, FinishTask, FreeTask
<1>4. PICK v, w : IdentityInv(v) /\ HistoryNext(w)
  BY SettingFacts
<1>5. /\ Started' = Started \ {a} /\ a \in Started
      /\ retired' = retired \cup {identity[a]}
      /\ \A b \in Started' : identity'[b] = identity[b]
      /\ \A b \in Addrs : kind[b] # "free" /\ b # a => identity'[b] = identity[b]
      /\ queued' = queued /\ open' = open
  BY SettingFacts, <1>1, <1>2, <1>4, RetireEffect
<1>6. Claimed(a) = 0 .. PoolSize(a) - 1
  BY <1>1, <1>3, FinishedIsClaimed
<1>7. \A b \in Started' : Claimed(b)' = Claimed(b)
  BY <1>2, <1>5, SameClaims DEF Started
<1>8. ClaimedBar' = ClaimedBar
  BY <1>5, <1>6, <1>7, ClaimedRetired DEF Setting
<1>9. kind'[a] = "free"
  BY SettingFacts, <1>1, <1>2, <1>3 DEF Frees, ProtocolTypeOK
<1>10. /\ PcBar' = [PcBar EXCEPT ![t] = LabelOf(t)']
      /\ TaskBar' = [TaskBar EXCEPT ![t] = TaskOf(t)']
      /\ ChunkBar' = [ChunkBar EXCEPT ![t] = ChunkOf(t)']
  BY <1>2, <1>5, <1>9, ThreadBars
<1>11. PcBar[t] = "finish" /\ LabelOf(t)' = "after" /\ ChunkOf(t)' = ChunkOf(t)
  BY SettingFacts, <1>3 DEF LabelFacts, LabelOK
<1>12. TaskOf(t)' = Client!NoTask
  BY <1>3 DEF TaskOf, NoIdentity, Client!NoTask
<1>13. /\ PcBar' = [PcBar EXCEPT ![t] = "after"]
       /\ TaskBar' = [TaskBar EXCEPT ![t] = Client!NoTask]
       /\ ChunkBar' = ChunkBar
  BY <1>10, <1>11, <1>12 DEF ChunkBar
<1>14. Client!TakeData(t)
  BY <1>2, <1>3, <1>5, <1>8, <1>11, <1>13 DEF Client!TakeData, Client!Goto, Client!counts
<1>15. QED
  BY <1>14 DEF ClientMoves, Client!Step

(* A chunk or a finish function creates a task.                            *)
LEMMA CreateMove ==
  ASSUME NEW t \in Threads, Setting(t), CreateTask(t)
  PROVE  ClientMoves(t)
<1>1. PICK b \in Addrs, k \in {"single", "loop"}, n \in Nat : Creates(t, b, k, n)
  BY SettingFacts, CreateSpawns
<1>2. /\ Spawns(t, b, k) /\ <<k, n>> \in Works
      /\ pc[t] \in {"body", "after"} /\ kind[b] = "free" /\ kind' = [kind EXCEPT ![b] = k]
      /\ created' = created + 1 /\ created < MaxTasks /\ pending' = pending + 1
      /\ PoolSize(b)' = n
      /\ \A a \in Addrs : a # b =>
           work_size'[a] = work_size[a] /\ work_indexes'[a] = work_indexes[a]
      /\ UNCHANGED <<pc, task, state, chunk, is_finished>>
  BY <1>1 DEF Creates, Spawns
<1>3. PICK v, w : /\ IdentityInv(v) /\ HistoryNext(w)
                  /\ \A a \in Addrs : w[a] = <<kind'[a], PoolSize(a)'>>
  BY SettingFacts
<1>4. /\ retired' = retired /\ Started' = Started
      /\ \A a \in Addrs : kind[a] # "free" => identity'[a] = identity[a]
      /\ queued' = queued \cup {<<created', w[b]>>} /\ open' = open
  BY SettingFacts, <1>2, <1>3, QueueEffect
<1>5. w[b] = <<k, n>> /\ w[b] \in Works
  BY SettingFacts, <1>2, <1>3 DEF ProtocolTypeOK
<1>6. \A a \in Started : a \in Addrs /\ kind[a] # "free" /\ a # b
  BY <1>2 DEF Started
<1>7. ClaimedBar' = ClaimedBar
  BY <1>2, <1>4, <1>6, SameClaims, ClaimedKept DEF Setting
<1>8. /\ PcBar' = [PcBar EXCEPT ![t] = LabelOf(t)']
      /\ TaskBar' = [TaskBar EXCEPT ![t] = TaskOf(t)']
      /\ ChunkBar' = [ChunkBar EXCEPT ![t] = ChunkOf(t)']
  BY <1>2, <1>4, ThreadBars
<1>9. /\ PcBar[t] \in {"run", "after"}
      /\ LabelOf(t)' = LabelOf(t)
      /\ ChunkOf(t)' = ChunkOf(t)
  BY SettingFacts, <1>2 DEF LabelFacts, LabelOK
<1>10. TaskOf(t)' = TaskOf(t)
  <2>1. CASE pc[t] = "body"
    BY <1>2, <1>4, <2>1, WorkerFacts DEF Working, TaskOf
  <2>2. CASE pc[t] = "after"
    BY <1>2, <2>2, SettingFacts DEF ProtocolInv, ThreadInv, Working, TaskOf
  <2>3. QED
    BY <1>2, <2>1, <2>2
<1>11. UNCHANGED <<PcBar, TaskBar, ChunkBar>>
  BY <1>8, <1>9, <1>10 DEF PcBar, TaskBar, ChunkBar
<1>12. Client!CreateTask(t)
  BY <1>2, <1>4, <1>5, <1>7, <1>9, <1>11 DEF Client!CreateTask, Client!Push
<1>13. QED
  BY <1>12 DEF ClientMoves, Client!Step

(* A step of the scheduler is one of the client on its worker, or none.    *)
LEMMA StepIsClientStep ==
  ASSUME NEW t \in Threads, Setting(t)
  PROVE  ClientMoves(t)
BY ProtocolMove, DrawMove, ClaimMove, RunMove, SignalMove, FinishMove, CreateMove
   DEF Setting, Step

-----------------------------------------------------------------------------
(* At the start there is one task, which is queued.                        *)
LEMMA HistoryStarts ==
  ASSUME StartHistory
  PROVE  HistoryInv /\ Client!Init
<1>1. PICK a \in Addrs, k \in {"single", "loop"} : \E r \in Ranges(k) :
        /\ ProtocolInit(a, k)
        /\ work_size = [b \in Addrs |-> IF b = a THEN r.end ELSE NoAtomics]
  BY DEF StartHistory, Init
<1>2. PICK r \in Ranges(k) :
        /\ ProtocolInit(a, k)
        /\ work_size = [b \in Addrs |-> IF b = a THEN r.end ELSE NoAtomics]
  BY <1>1
<1>3. /\ kind = [b \in Addrs |-> IF b = a THEN k ELSE "free"]
      /\ pc = [t \in Threads |-> "loop"] /\ task = [t \in Threads |-> Null]
      /\ deque = [t \in Threads |-> IF t = 0 THEN <<a>> ELSE <<>>]
      /\ created = 1 /\ pending = 1 /\ is_finished = FALSE
  BY <1>2 DEF ProtocolInit
<1> DEFINE w == <<k, SizeOf(k, r)>>
<1>4. k # "free" /\ w \in Works
  BY RangesWork
<1>5. WorkOf[a] = w
  BY <1>2, <1>3, <1>4 DEF PoolSize, SizeOf, NumAtomics, WorkOf
<1> HIDE DEF w
<1>6. /\ identity = [b \in Addrs |-> IF b = a THEN <<1, w>> ELSE NoIdentity]
      /\ ended = {} /\ retired = {}
  BY <1>3, <1>4, <1>5 DEF StartHistory, HistoryInit
<1>7. IdentityInv(WorkOf)
  <2>1. \A b \in Addrs : (kind[b] # "free" <=> b = a)
                         /\ identity[b][1] = IF b = a THEN 1 ELSE 0
    BY <1>3, <1>4, <1>6 DEF NoIdentity
  <2>2. identity = [b \in Addrs |-> IF kind[b] = "free" THEN NoIdentity
                                    ELSE <<identity[b][1], WorkOf[b]>>]
    BY <1>5, <1>6, <2>1
  <2>3. QED
    BY <1>3, <1>6, <2>1, <2>2 DEF IdentityInv
<1>8. EndedInv
  BY <1>3, <1>6 DEF EndedInv
<1>9. \A b \in Addrs : Fresh(b) <=> b = a
  BY <1>3, ProtocolAssumption DEF Queued, Threads, Fresh
<1>10. Started = {}
  BY <1>3, <1>9 DEF Started
<1>11. queued = {<<1, w>>} /\ open = {}
  BY <1>6, <1>9, <1>10 DEF queued, open
<1>12. ClaimedBar = [i \in Client!Tasks |-> {}]
  BY <1>6, <1>10 DEF ClaimedBar, ClaimedOf, Client!Tasks
<1>13. /\ PcBar = [t \in Threads |-> "idle"]
       /\ TaskBar = [t \in Threads |-> Client!NoTask]
       /\ ChunkBar = [t \in Threads |-> -1]
  BY <1>3, LabelsHold DEF LabelFacts, LabelOK, TaskOf, NoIdentity, Client!NoTask, PcBar,
     TaskBar, ChunkBar
<1>14. Client!PoolInit(<<1, w>>, Client!Tasks)
  BY <1>3, <1>11, <1>12, <1>13
     DEF Client!PoolInit, Client!Threads, Threads, Client!NoChunk
<1>15. Client!Init
  BY <1>3, <1>4, <1>14 DEF Client!Init, w
<1>16. QED
  BY <1>7, <1>8, <1>15 DEF HistoryInv

(* The history adds nothing to what the scheduler does.                    *)
LEMMA HistoryIsSchedule == HistorySpec => Spec
<1>1. StartHistory => Init
  BY DEF StartHistory
<1>2. [Next /\ HistoryNext(WorkOf')]_<<vars, history>> => [Next]_vars
  OBVIOUS
<1>3. QED
  BY <1>1, <1>2, PTL DEF HistorySpec, Spec

(* The history is as said in every reachable state.                        *)
LEMMA HistoryInvariant == HistorySpec => [](SchedulerInv /\ HistoryInv)
<1>1. HistorySpec => []SchedulerInv
  BY HistoryIsSchedule, ImplementsProtocol, ProtocolInvariant, ChunkInvariant, PTL
     DEF SchedulerInv
<1>2. StartHistory => HistoryInv
  BY HistoryStarts
<1>3. SchedulerInv /\ SchedulerInv' /\ HistoryInv
        /\ [Next /\ HistoryNext(WorkOf')]_<<vars, history>> => HistoryInv'
  <2>1. SUFFICES ASSUME SchedulerInv, SchedulerInv', HistoryInv,
                        [Next /\ HistoryNext(WorkOf')]_<<vars, history>>
                 PROVE  HistoryInv'
    OBVIOUS
  <2>2. CASE UNCHANGED <<vars, history>>
    <3>1. UNCHANGED <<kind, work_size, created, pc, task, deque, activities, identity, ended, retired>>
      BY <2>2 DEF vars, protocolVars, shared, local, loopData, taskData, history
    <3>2. WorkOf' = WorkOf
      BY <3>1, SizesKept DEF WorkOf
    <3>3. IdentityInv(WorkOf)'
      BY <2>1, <3>1, <3>2 DEF HistoryInv, IdentityInv
    <3>4. EndedInv'
      BY <2>1, <3>1 DEF HistoryInv, EndedInv, Fresh, Queued, Published
    <3>5. QED
      BY <3>3, <3>4 DEF HistoryInv
  <2>3. CASE Next /\ HistoryNext(WorkOf')
    BY <2>1, <2>3, HistoryInvStep DEF Next
  <2>4. QED
    BY <2>1, <2>2, <2>3
<1>4. QED
  BY <1>1, <1>2, <1>3, PTL DEF HistorySpec

(* The scheduler implements the worker that the modules of the programs    *)
(* run on, with the tasks known by their numbers.                          *)
THEOREM ImplementsWorker == HistorySpec => ImplementsAssistPool
<1>1. StartHistory => Client!Init
  BY HistoryStarts
<1>2. SchedulerInv /\ HistoryInv /\ (SchedulerInv /\ HistoryInv)'
        /\ [Next /\ HistoryNext(WorkOf')]_<<vars, history>>
      => [Client!Next]_(Client!vars)
  <2>1. SUFFICES ASSUME SchedulerInv, HistoryInv, SchedulerInv', HistoryInv',
                        [Next /\ HistoryNext(WorkOf')]_<<vars, history>>
                 PROVE  Client!Next \/ UNCHANGED Client!vars
    OBVIOUS
  <2>2. TaskFacts /\ TaskFacts'
    BY <2>1, InvImpliesTaskFacts, PTL
  <2>3. CASE UNCHANGED <<vars, history>>
    <3>1. /\ UNCHANGED <<kind, work_size, work_indexes, chunk, state, created, pending, is_finished,
                         pc, task, deque, identity, ended, retired>>
      BY <2>3 DEF vars, protocolVars, shared, local, signal, loopData, taskData, history
    <3>2. /\ \A a \in Addrs : Fresh(a)' <=> Fresh(a)
          /\ \A a : Claimed(a)' = Claimed(a)
      BY <3>1, SameClaims DEF Fresh, Queued
    <3>3. Started' = Started
      BY <3>1, <3>2 DEF Started
    <3>4. queued' = queued /\ open' = open
      BY <3>1, <3>2, <3>3 DEF queued, open
    <3>5. ClaimedBar' = ClaimedBar
      BY <2>2, <3>1, <3>2, <3>3, ClaimedKept
    <3>6. UNCHANGED <<PcBar, TaskBar, ChunkBar>>
      BY <3>1 DEF LabelOf, LabelOutside, TaskOf, ChunkOf, PcBar, TaskBar, ChunkBar
    <3>7. QED
      BY <3>1, <3>4, <3>5, <3>6 DEF Client!vars, Client!counts
  <2>4. CASE Next /\ HistoryNext(WorkOf')
    <3>1. PICK t \in Threads : Step(t)
      BY <2>4 DEF Next
    <3>2. Setting(t)
      BY <2>1, <2>2, <2>4, <3>1 DEF Setting
    <3>3. ClientMoves(t)
      BY <3>2, StepIsClientStep
    <3>4. QED
      BY <3>3 DEF ClientMoves, Client!Next, Client!Threads, Threads
  <2>5. QED
    BY <2>1, <2>3, <2>4
<1>3. QED
  BY <1>1, <1>2, HistoryInvariant, PTL DEF HistorySpec, ImplementsAssistPool, Client!Spec
=============================================================================
