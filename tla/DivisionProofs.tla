---------------------------- MODULE DivisionProofs ----------------------------
(***************************************************************************)
(* Proofs about the programs that divide a range in parts.  SplitSum:      *)
(* what splits a range loses no element, whoever steals the parts, and the *)
(* pool is finished when all are added; the steps that pass a task on only *)
(* move it from one place to another, they keep the number of places and   *)
(* what waits at each (TasksMoved).  SequentialSort: every array is        *)
(* sorted, by the invariants of the loops of partition and insertion_sort, *)
(* of the calls that are left to do, and of the elements.  QuicksortDeque: *)
(* the tasks and the references are counted and nobody writes to places of *)
(* another, by an invariant (SortingInv) of the parts of the array and the *)
(* blocks that every task has for itself.                                  *)
(***************************************************************************)
EXTENDS SplitSum, SequentialSort, QuicksortDeque, FiniteSetTheorems, SequenceTheorems, TLAPS

Running == {"run", "push", "add", "release"}

SumLabels == ClaimLabels \cup {"run", "push", "add", "release", "finish"}

(* The places, one by one, before and after a step.                        *)
IsRangePlace(p) ==
  \E t \in Threads :
    \/ \E i \in DOMAIN workers[t] : p = <<"deque", t, i>>
    \/ \E i \in DOMAIN split_off[t] : p = <<"push", t, i>>
    \/ pc[t] \in Running /\ p = <<"thread", t, 1>>

LEMMA RangePlacesAre ==
  /\ \A p : p \in RangePlaces <=> IsRangePlace(p)
  /\ \A p : p \in RangePlaces' <=> IsRangePlace(p)'
BY DEF IsRangePlace, RangePlaces, RangesInDeque, RangesToPush, RangeInHand, Running

LEMMA RangesByKind ==
  /\ \A t, i : <<"deque", t, i>> \in RangePlaces <=> t \in Threads /\ i \in DOMAIN workers[t]
  /\ \A t, i : <<"push", t, i>> \in RangePlaces <=> t \in Threads /\ i \in DOMAIN split_off[t]
  /\ \A t : <<"thread", t, 1>> \in RangePlaces <=> t \in Threads /\ pc[t] \in Running
BY RangePlacesAre DEF IsRangePlace

LEMMA RangesByKindThen ==
  /\ \A t, i : <<"deque", t, i>> \in RangePlaces' <=> t \in Threads /\ i \in DOMAIN workers'[t]
  /\ \A t, i : <<"push", t, i>> \in RangePlaces' <=> t \in Threads /\ i \in DOMAIN split_off'[t]
  /\ \A t : <<"thread", t, 1>> \in RangePlaces' <=> t \in Threads /\ pc'[t] \in Running
BY RangePlacesAre DEF IsRangePlace

(* A split gives every element of the range to the thread or to one of the *)
(* subtasks (run in cases/*/deque.rs).                                     *)
LEMMA SplitParts ==
  ASSUME SumTypeOK, NEW d \in Ranges
  PROVE  /\ Subtasks(d) \in Seq(Ranges) /\ Len(Subtasks(d)) \in 0 .. 2
         /\ \A e \in RangeOf(d) :
              e \in Own(d) \/ \E i \in DOMAIN Subtasks(d) : e \in RangeOf(Subtasks(d)[i])
         /\ \A e \in Own(d) :
              e \in RangeOf(d) /\ \A i \in DOMAIN Subtasks(d) : e \notin RangeOf(Subtasks(d)[i])
         /\ \A i \in DOMAIN Subtasks(d) : \A e \in RangeOf(Subtasks(d)[i]) :
              /\ e \in RangeOf(d)
              /\ \A j \in DOMAIN Subtasks(d) : e \in RangeOf(Subtasks(d)[j]) => j = i
<1> DEFINE rest == d[2] - KeptEnd(d)
           mid  == KeptEnd(d) + rest \div 2
<1>1. /\ d[1] \in 0 .. length /\ d[2] \in 0 .. length /\ d[1] <= d[2]
      /\ length \in Nat /\ BlockSize \in Nat \ {0}
  BY SplitAssumption DEF SumTypeOK, Ranges
<1>2. \A a, b \in 0 .. length : a <= b => <<a, b>> \in Ranges
  BY DEF Ranges
<1>3. CASE ~Splits(d)
  BY <1>3 DEF Subtasks, KeptEnd, Own, RangeOf
<1>4. CASE Splits(d) /\ rest < 2 * BlockSize
  BY <1>1, <1>2, <1>4 DEF Subtasks, KeptEnd, Splits, RangeOf, Own
<1>5. CASE Splits(d) /\ ~(rest < 2 * BlockSize)
  <2>1. /\ KeptEnd(d) = d[1] + BlockSize /\ KeptEnd(d) \in 0 .. length
        /\ Subtasks(d) = << <<KeptEnd(d), mid>>, <<mid, d[2]>> >>
    BY <1>1, <1>5 DEF Subtasks, KeptEnd, Splits
  <2>2. mid \in 0 .. length /\ KeptEnd(d) <= mid /\ mid <= d[2]
    BY <1>1, <1>5, <2>1
  <2>3. <<KeptEnd(d), mid>> \in Ranges /\ <<mid, d[2]>> \in Ranges
    BY <1>1, <1>2, <2>1, <2>2
  <2> HIDE DEF mid
  <2>4. /\ Subtasks(d) \in Seq(Ranges) /\ Len(Subtasks(d)) = 2 /\ DOMAIN Subtasks(d) = {1, 2}
        /\ RangeOf(Subtasks(d)[1]) = KeptEnd(d) .. mid - 1
        /\ RangeOf(Subtasks(d)[2]) = mid .. d[2] - 1
    BY <2>1, <2>3 DEF RangeOf
  <2>5. QED
    BY <1>1, <2>1, <2>2, <2>4 DEF Own, RangeOf
<1>6. QED
  BY <1>3, <1>4, <1>5

(* The steps that move tasks, in one: the places of the tasks before and   *)
(* after a step correspond, and the same elements wait at each.            *)
LEMMA TasksMoved ==
  ASSUME PendingCountsRanges, ElementOnce, pending' = pending, counter' = counter,
         length' = length,
         NEW f \in [RangePlaces -> RangePlaces'],
         \A p, q \in RangePlaces : f[p] = f[q] => p = q,
         \A q \in RangePlaces' : \E p \in RangePlaces : f[p] = q,
         \A p \in RangePlaces, q \in RangePlaces' : q = f[p] => ElementsAt(q)' = ElementsAt(p)
  PROVE  PendingCountsRanges' /\ ElementOnce'
<1>1. f \in Bijection(RangePlaces, RangePlaces')
  BY DEF Bijection, Injection, Surjection, IsInjective
<1>2. IsFiniteSet(RangePlaces') /\ Cardinality(RangePlaces') = Cardinality(RangePlaces)
  BY <1>1, FS_Bijection DEF ExistsBijection, PendingCountsRanges
<1>3. PendingCountsRanges'
  BY <1>2 DEF PendingCountsRanges
<1>4. ASSUME NEW e \in Elements, counter[e] = 0,
             NEW p \in RangePlaces, \A q \in RangePlaces : e \in ElementsAt(q) <=> q = p
      PROVE  \E r \in RangePlaces' : \A q \in RangePlaces' : e \in ElementsAt(q)' <=> q = r
  <2>1. \A q \in RangePlaces' : e \in ElementsAt(q)' <=> q = f[p]
    <3>1. SUFFICES ASSUME NEW q \in RangePlaces' PROVE e \in ElementsAt(q)' <=> q = f[p]
      OBVIOUS
    <3>2. PICK s \in RangePlaces : f[s] = q
      OBVIOUS
    <3>3. ElementsAt(q)' = ElementsAt(s)
      BY <3>2
    <3>4. QED
      BY <1>4, <3>2, <3>3
  <2>2. QED
    BY <2>1
<1>5. ASSUME NEW e \in Elements, \A p \in RangePlaces : e \notin ElementsAt(p)
      PROVE  \A q \in RangePlaces' : e \notin ElementsAt(q)'
  <2>1. SUFFICES ASSUME NEW q \in RangePlaces' PROVE e \notin ElementsAt(q)'
    OBVIOUS
  <2>2. PICK s \in RangePlaces : f[s] = q
    OBVIOUS
  <2>3. ElementsAt(q)' = ElementsAt(s)
    BY <2>2
  <2>4. QED
    BY <1>5, <2>3
<1>6. Elements' = Elements
  BY DEF Elements
<1>7. ElementOnce'
  BY <1>4, <1>5, <1>6 DEF ElementOnce
<1>8. QED
  BY <1>3, <1>7

(* A step that leaves all tasks where they are.                            *)
LEMMA TasksStay ==
  ASSUME PendingCountsRanges, ElementOnce, pending' = pending, counter' = counter,
         length' = length, RangePlaces' = RangePlaces,
         \A p \in RangePlaces : ElementsAt(p)' = ElementsAt(p)
  PROVE  PendingCountsRanges' /\ ElementOnce'
<1>1. PICK f : f = [p \in RangePlaces |-> p]
  OBVIOUS
<1>2. /\ f \in [RangePlaces -> RangePlaces'] /\ \A p, q \in RangePlaces : f[p] = f[q] => p = q
      /\ \A q \in RangePlaces' : \E p \in RangePlaces : f[p] = q
      /\ \A p \in RangePlaces, q \in RangePlaces' : q = f[p] => ElementsAt(q)' = ElementsAt(p)
  BY <1>1
<1>3. QED
  BY <1>2, TasksMoved

-----------------------------------------------------------------------------
(* The thread and the labels of a step.                                    *)

LEMMA Moves ==
  ASSUME SumTypeOK, NEW t \in Threads, NEW l \in SumLabels, Goto(t, l)
  PROVE  /\ pc' \in [Threads -> SumLabels] /\ pc'[t] = l
         /\ \A s \in Threads \ {t} : pc'[s] = pc[s]
BY DEF SumTypeOK, Goto, SumLabels

LEMMA NextOtherType ==
  ASSUME NEW t \in Threads, other[t] \in Threads
  PROVE  NextOther(t) \in Threads
<1> DEFINE n == other[t] + Increment(t)
<1>1. N \in Nat \ {0} /\ other[t] \in Int
  BY StealerAssumption DEF Threads
<1>2. n \in Int
  BY <1>1 DEF Increment
<1> HIDE DEF n
<1>3. n % N \in 0 .. N - 1
  BY <1>1, <1>2
<1>4. QED
  BY <1>3 DEF n, NextOther, Threads

(* A step that looks for a task in vain, or sees that all is finished.     *)
LEMMA IdleKeeps ==
  ASSUME SumInv, NEW t \in Threads, NEW l \in ClaimLabels,
         pc[t] \in ClaimLabels, Goto(t, l), other' \in [Threads -> Threads],
         UNCHANGED <<workers, finished, task, sumVars>>
  PROVE  SumInv'
<1>1. /\ pc' \in [Threads -> SumLabels] /\ pc'[t] = l
      /\ \A s \in Threads \ {t} : pc'[s] = pc[s]
  BY Moves DEF SumInv, SumLabels
<1>2. /\ workers' = workers /\ finished' = finished /\ task' = task /\ length' = length
      /\ pending' = pending /\ counter' = counter /\ split_off' = split_off
  BY DEF sumVars
<1>3. ClaimLabels \cap (Running \cup {"finish"}) = {}
  BY DEF ClaimLabels, Running
<1>4. \A s \in Threads : /\ pc'[s] \in Running <=> pc[s] \in Running
                         /\ \/ pc'[s] = pc[s]
                            \/ pc[s] \in ClaimLabels /\ pc'[s] \in ClaimLabels
  BY <1>1, <1>3
<1>5. \A s \in Threads : ToAdd(s)' = ToAdd(s)
  BY <1>2, <1>4 DEF ToAdd, ClaimLabels, Own, KeptEnd, Splits, RangeOf
<1>6. RangePlaces' = RangePlaces
  BY <1>2, <1>4, RangePlacesAre DEF IsRangePlace
<1>7. \A p \in RangePlaces : ElementsAt(p)' = ElementsAt(p)
  <2>1. SUFFICES ASSUME NEW p, IsRangePlace(p) PROVE ElementsAt(p)' = ElementsAt(p)
    BY RangePlacesAre
  <2>2. QED
    BY <1>2, <1>5, <2>1 DEF IsRangePlace, ElementsAt, RangeOf
<1>8. PendingCountsRanges' /\ ElementOnce'
  BY <1>2, <1>6, <1>7, TasksStay DEF SumInv
<1>9. SumTypeOK'
  BY <1>1, <1>2 DEF SumInv, SumTypeOK, SumLabels, Ranges, Elements
<1>10. TasksInHand'
  BY <1>1, <1>2, <1>4 DEF SumInv, TasksInHand, ClaimLabels
<1>11. LastTask'
  BY <1>2, <1>4, <1>3 DEF SumInv, LastTask
<1>12. QED
  BY <1>8, <1>9, <1>10, <1>11 DEF SumInv

LEMMA LoadFinishedKeeps ==
  ASSUME SumInv, NEW t \in Threads, LoadFinished(t), UNCHANGED sumVars
  PROVE  SumInv'
<1>1. PICK l \in ClaimLabels : Goto(t, l)
  BY DEF LoadFinished, ClaimLabels
<1>2. /\ pc[t] \in ClaimLabels /\ other' = other
      /\ UNCHANGED <<workers, finished, task, sumVars>>
  BY DEF LoadFinished, ClaimLabels
<1>3. other' \in [Threads -> Threads]
  BY <1>2 DEF SumInv, SumTypeOK
<1>4. QED
  BY <1>1, <1>2, <1>3, IdleKeeps

LEMMA PopNothingKeeps ==
  ASSUME SumInv, NEW t \in Threads, PopNothing(t), UNCHANGED sumVars
  PROVE  SumInv'
BY IdleKeeps DEF PopNothing, ClaimLabels, SumInv, SumTypeOK

LEMMA StealNothingKeeps ==
  ASSUME SumInv, NEW t \in Threads, StealNothing(t), UNCHANGED sumVars
  PROVE  SumInv'
<1>1. PICK l \in ClaimLabels : Goto(t, l)
  BY DEF StealNothing, LabelAt, ClaimLabels
<1>2. /\ pc[t] \in ClaimLabels /\ other' = [other EXCEPT ![t] = NextOther(t)]
      /\ UNCHANGED <<workers, finished, task, sumVars>>
  BY DEF StealNothing, ClaimLabels
<1>3. other' \in [Threads -> Threads]
  BY <1>2, NextOtherType DEF SumInv, SumTypeOK
<1>4. QED
  BY <1>1, <1>2, <1>3, IdleKeeps

-----------------------------------------------------------------------------
(* A task moves from the deque to the thread, or from the thread to the    *)
(* deque.                                                                  *)

LEMMA PopRangeKeeps ==
  ASSUME SumInv, NEW t \in Threads, PopTask(t), UNCHANGED sumVars
  PROVE  SumInv'
<1>1. PICK n : n = Len(workers[t])
  OBVIOUS
<1>2. /\ workers[t] \in Seq(Ranges) /\ n \in Nat \ {0} /\ DOMAIN workers[t] = 1 .. n
      /\ pc[t] = "pop" /\ workers \in [Threads -> Seq(Ranges)]
  BY <1>1 DEF PopTask, SumInv, SumTypeOK
<1>3. PICK d : d = workers[t][n]
  OBVIOUS
<1>4. d \in Ranges /\ d # NoTask
  BY <1>2, <1>3 DEF Ranges, NoTask
<1>5. /\ task' = [task EXCEPT ![t] = d]
      /\ workers' = [workers EXCEPT ![t] = Front(@)]
      /\ Goto(t, "run")
      /\ finished' = finished /\ other' = other /\ length' = length
      /\ pending' = pending /\ counter' = counter /\ split_off' = split_off
  BY <1>1, <1>3 DEF PopTask, Last, sumVars
<1>6. /\ pc' \in [Threads -> SumLabels] /\ pc'[t] = "run"
      /\ \A s \in Threads \ {t} : pc'[s] = pc[s]
  BY <1>5, Moves DEF SumInv, SumLabels
<1>7. /\ workers'[t] \in Seq(Ranges) /\ Len(workers'[t]) = n - 1
      /\ DOMAIN workers'[t] = 1 .. n - 1
      /\ \A i \in 1 .. n - 1 : workers'[t][i] = workers[t][i]
      /\ \A s \in Threads \ {t} : workers'[s] = workers[s]
      /\ workers' \in [Threads -> Seq(Ranges)]
  BY <1>1, <1>2, <1>5 DEF Front
<1>8. /\ task'[t] = d /\ \A s \in Threads \ {t} : task'[s] = task[s]
      /\ task' \in [Threads -> Ranges \cup {NoTask}]
  BY <1>4, <1>5 DEF SumInv, SumTypeOK
<1>9. ToAdd(t)' = RangeOf(d) /\ \A s \in Threads \ {t} : ToAdd(s)' = ToAdd(s)
  BY <1>6, <1>8 DEF ToAdd, RangeOf, Own, KeptEnd, Splits
<1>10. PendingCountsRanges' /\ ElementOnce'
  <2>1. PICK f : f = [p \in RangePlaces |-> IF p = <<"deque", t, n>> THEN <<"thread", t, 1>> ELSE p]
    OBVIOUS
  <2>2. <<"deque", t, n>> \in RangePlaces /\ <<"thread", t, 1>> \notin RangePlaces
    BY <1>2, RangesByKind DEF Running
  <2>3. \A p : p \in RangePlaces' <=> p = <<"thread", t, 1>> \/ (p \in RangePlaces /\ p # <<"deque", t, n>>)
    <3>1. /\ \A i : i \in DOMAIN workers'[t] <=> i \in DOMAIN workers[t] /\ i # n
          /\ \A s \in Threads \ {t} : DOMAIN workers'[s] = DOMAIN workers[s]
      BY <1>2, <1>7
    <3>2. \A s \in Threads : pc'[s] \in Running <=> pc[s] \in Running \/ s = t
      BY <1>6 DEF Running
    <3>3. split_off' = split_off /\ pc[t] \notin Running
      BY <1>2, <1>5 DEF Running
    <3>4. \A p : IsRangePlace(p)' <=> p = <<"thread", t, 1>> \/ (IsRangePlace(p) /\ p # <<"deque", t, n>>)
      BY <3>1, <3>2, <3>3 DEF IsRangePlace
    <3>5. QED
      BY <3>4, RangePlacesAre
  <2>4. /\ f \in [RangePlaces -> RangePlaces'] /\ \A p, q \in RangePlaces : f[p] = f[q] => p = q
        /\ \A q \in RangePlaces' : \E p \in RangePlaces : f[p] = q
    BY <2>1, <2>2, <2>3
  <2>5. ASSUME NEW p \in RangePlaces, NEW q \in RangePlaces', q = f[p]
        PROVE  ElementsAt(q)' = ElementsAt(p)
    <3>1. CASE p = <<"deque", t, n>>
      BY <1>3, <1>9, <2>1, <2>5, <3>1 DEF ElementsAt
    <3>2. CASE p # <<"deque", t, n>>
      BY <1>2, <1>5, <1>7, <1>9, <2>1, <2>2, <2>5, <3>2, RangePlacesAre DEF IsRangePlace,
         ElementsAt, RangeOf
    <3>3. QED
      BY <3>1, <3>2
  <2>6. QED
    BY <1>5, <2>4, <2>5, TasksMoved DEF SumInv
<1>11. SumTypeOK'
  BY <1>5, <1>6, <1>7, <1>8 DEF SumInv, SumTypeOK, SumLabels, Ranges, Elements
<1>12. TasksInHand'
  BY <1>2, <1>4, <1>5, <1>6, <1>8 DEF SumInv, TasksInHand, ClaimLabels
<1>13. LastTask'
  BY <1>5, <1>6 DEF SumInv, LastTask
<1>14. QED
  BY <1>10, <1>11, <1>12, <1>13 DEF SumInv

(* The places behind a task that leaves the front of a sequence move up.   *)
LEMMA ShiftInjective ==
  ASSUME NEW P, NEW f, NEW k, NEW o, NEW b, NEW n \in Nat,
         \A i : b # <<k, o, i>>,
         \A r \in P : \/ r = <<k, o, 1>> /\ f[r] = b
                      \/ \E i \in 2 .. n : r = <<k, o, i>> /\ f[r] = <<k, o, i - 1>>
                      \/ f[r] = r /\ r # b /\ \A i : r # <<k, o, i>>
  PROVE  \A p, q \in P : f[p] = f[q] => p = q
<1>1. SUFFICES ASSUME NEW p \in P, NEW q \in P, f[p] = f[q] PROVE p = q
  OBVIOUS
<1>2. CASE f[p] = b
  BY <1>1, <1>2
<1>3. CASE \E i \in 2 .. n : p = <<k, o, i>> /\ f[p] = <<k, o, i - 1>>
  <2>1. PICK i \in 2 .. n : p = <<k, o, i>> /\ f[p] = <<k, o, i - 1>>
    BY <1>3
  <2>2. PICK j \in 2 .. n : q = <<k, o, j>> /\ f[q] = <<k, o, j - 1>>
    BY <1>1, <2>1
  <2>3. i - 1 = j - 1
    BY <1>1, <2>1, <2>2
  <2>4. QED
    BY <2>1, <2>2, <2>3
<1>4. CASE f[p] = p /\ p # b /\ \A i : p # <<k, o, i>>
  BY <1>1, <1>4
<1>5. QED
  BY <1>2, <1>3, <1>4

LEMMA StealRangeKeeps ==
  ASSUME SumInv, NEW t \in Threads, StealTask(t), UNCHANGED sumVars
  PROVE  SumInv'
<1>1. PICK o \in Threads : o = NextOther(t)
  BY NextOtherType DEF SumInv, SumTypeOK
<1>2. PICK n : n = Len(workers[o])
  OBVIOUS
<1>3. /\ workers[o] \in Seq(Ranges) /\ n \in Nat \ {0} /\ DOMAIN workers[o] = 1 .. n
      /\ pc[t] = "steal" /\ o # t /\ workers \in [Threads -> Seq(Ranges)]
  BY <1>1, <1>2 DEF StealTask, SumInv, SumTypeOK
<1>4. PICK d : d = workers[o][1]
  OBVIOUS
<1>5. d \in Ranges /\ d # NoTask
  BY <1>3, <1>4 DEF Ranges, NoTask
<1>6. /\ task' = [task EXCEPT ![t] = d]
      /\ workers' = [workers EXCEPT ![o] = Tail(@)]
      /\ Goto(t, "run")
      /\ finished' = finished /\ other' = [other EXCEPT ![t] = t] /\ length' = length
      /\ pending' = pending /\ counter' = counter /\ split_off' = split_off
  BY <1>1, <1>3, <1>4 DEF StealTask, sumVars
<1>7. /\ pc' \in [Threads -> SumLabels] /\ pc'[t] = "run"
      /\ \A s \in Threads \ {t} : pc'[s] = pc[s]
  BY <1>6, Moves DEF SumInv, SumLabels
<1>8. /\ workers'[o] \in Seq(Ranges) /\ Len(workers'[o]) = n - 1
      /\ DOMAIN workers'[o] = 1 .. n - 1
      /\ \A i \in 1 .. n - 1 : workers'[o][i] = workers[o][i + 1]
      /\ \A s \in Threads \ {o} : workers'[s] = workers[s]
      /\ workers' \in [Threads -> Seq(Ranges)]
  BY <1>2, <1>3, <1>6
<1>9. /\ task'[t] = d /\ \A s \in Threads \ {t} : task'[s] = task[s]
      /\ task' \in [Threads -> Ranges \cup {NoTask}]
  BY <1>5, <1>6 DEF SumInv, SumTypeOK
<1>10. ToAdd(t)' = RangeOf(d) /\ \A s \in Threads \ {t} : ToAdd(s)' = ToAdd(s)
  BY <1>7, <1>9 DEF ToAdd, RangeOf, Own, KeptEnd, Splits
<1>11. PendingCountsRanges' /\ ElementOnce'
  <2>1. PICK f : f = [p \in RangePlaces |->
                        IF p = <<"deque", o, 1>> THEN <<"thread", t, 1>>
                        ELSE IF p[1] = "deque" /\ p[2] = o THEN <<"deque", o, p[3] - 1>>
                        ELSE p]
    OBVIOUS
  <2>2. <<"deque", o, 1>> \in RangePlaces /\ <<"thread", t, 1>> \notin RangePlaces
    BY <1>3, RangesByKind DEF Running
  <2>3. /\ \A i \in 2 .. n : <<"deque", o, i>> \in RangePlaces /\ f[<<"deque", o, i>>] = <<"deque", o, i - 1>>
        /\ f[<<"deque", o, 1>>] = <<"thread", t, 1>>
    BY <1>3, <2>1, <2>2, RangesByKind
  <2>4. ASSUME NEW p \in RangePlaces
        PROVE  \/ p = <<"deque", o, 1>>
               \/ \E i \in 2 .. n : p = <<"deque", o, i>>
               \/ f[p] = p /\ p[1] \in {"deque", "push", "thread"} /\ ~(p[1] = "deque" /\ p[2] = o)
                  /\ p # <<"thread", t, 1>> /\ p \in RangePlaces'
    <3>1. PICK s \in Threads : \/ \E i \in DOMAIN workers[s] : p = <<"deque", s, i>>
                               \/ \E i \in DOMAIN split_off[s] : p = <<"push", s, i>>
                               \/ pc[s] \in Running /\ p = <<"thread", s, 1>>
      BY RangePlacesAre DEF IsRangePlace
    <3>2. CASE \E i \in DOMAIN workers[s] : p = <<"deque", s, i>>
      BY <1>3, <1>8, <2>1, <3>2, RangesByKindThen
    <3>3. CASE \E i \in DOMAIN split_off[s] : p = <<"push", s, i>>
      BY <1>6, <2>1, <3>3, RangesByKindThen
    <3>4. CASE pc[s] \in Running /\ p = <<"thread", s, 1>>
      BY <1>3, <1>7, <2>1, <3>4, RangesByKindThen DEF Running
    <3>5. QED
      BY <3>1, <3>2, <3>3, <3>4
  <2>5. /\ <<"thread", t, 1>> \in RangePlaces'
        /\ \A i \in 2 .. n : <<"deque", o, i - 1>> \in RangePlaces'
    BY <1>3, <1>7, <1>8, RangesByKindThen DEF Running
  <2>6. f \in [RangePlaces -> RangePlaces']
    BY <2>1, <2>3, <2>4, <2>5
  <2>7. \A p, q \in RangePlaces : f[p] = f[q] => p = q
    <3>1. PICK b : b = <<"thread", t, 1>>
      OBVIOUS
    <3>2. \A r \in RangePlaces :
            \/ r = <<"deque", o, 1>> /\ f[r] = b
            \/ \E i \in 2 .. n : r = <<"deque", o, i>> /\ f[r] = <<"deque", o, i - 1>>
            \/ f[r] = r /\ r # b /\ \A i : r # <<"deque", o, i>>
      <4>1. SUFFICES ASSUME NEW r \in RangePlaces
                     PROVE  \/ r = <<"deque", o, 1>> /\ f[r] = b
                            \/ \E i \in 2 .. n : r = <<"deque", o, i>> /\ f[r] = <<"deque", o, i - 1>>
                            \/ f[r] = r /\ r # b /\ \A i : r # <<"deque", o, i>>
        OBVIOUS
      <4>2. CASE f[r] = r /\ ~(r[1] = "deque" /\ r[2] = o) /\ r # <<"thread", t, 1>>
        BY <3>1, <4>2
      <4>3. QED
        BY <2>3, <2>4, <3>1, <4>2
    <3>3. n \in Nat /\ \A i : b # <<"deque", o, i>>
      BY <1>3, <3>1
    <3>4. QED
      BY ONLY <3>2, <3>3, ShiftInjective
  <2>8. \A q \in RangePlaces' : \E p \in RangePlaces : f[p] = q
    <3>1. SUFFICES ASSUME NEW q \in RangePlaces' PROVE \E p \in RangePlaces : f[p] = q
      OBVIOUS
    <3>2. PICK s \in Threads : \/ \E i \in DOMAIN workers'[s] : q = <<"deque", s, i>>
                               \/ \E i \in DOMAIN split_off[s] : q = <<"push", s, i>>
                               \/ pc'[s] \in Running /\ q = <<"thread", s, 1>>
      BY <1>6, RangePlacesAre DEF IsRangePlace
    <3>3. CASE \E i \in DOMAIN workers'[s] : q = <<"deque", s, i>>
      <4>1. CASE s = o
        <5>1. PICK i \in 1 .. n - 1 : q = <<"deque", o, i>>
          BY <1>8, <3>3, <4>1
        <5>2. i + 1 \in 2 .. n /\ (i + 1) - 1 = i
          BY <1>3
        <5>3. QED
          BY <2>3, <5>1, <5>2
      <4>2. CASE s # o
        BY <1>8, <2>1, <3>3, <4>2, RangesByKind
      <4>3. QED
        BY <4>1, <4>2
    <3>4. CASE \E i \in DOMAIN split_off[s] : q = <<"push", s, i>>
      BY <2>1, <3>4, RangesByKind
    <3>5. CASE pc'[s] \in Running /\ q = <<"thread", s, 1>>
      BY <1>7, <2>1, <2>2, <2>3, <3>5, RangesByKind
    <3>6. QED
      BY <3>2, <3>3, <3>4, <3>5
  <2>9. ASSUME NEW p \in RangePlaces, NEW q \in RangePlaces', q = f[p]
        PROVE  ElementsAt(q)' = ElementsAt(p)
    <3>1. CASE p = <<"deque", o, 1>>
      BY <1>4, <1>10, <2>3, <2>9, <3>1 DEF ElementsAt
    <3>2. CASE \E i \in 2 .. n : p = <<"deque", o, i>>
      <4>1. PICK i \in 2 .. n : p = <<"deque", o, i>>
        BY <3>2
      <4>2. q = <<"deque", o, i - 1>> /\ i - 1 \in 1 .. n - 1 /\ (i - 1) + 1 = i
        BY <1>3, <2>3, <2>9, <4>1
      <4>3. workers'[o][i - 1] = workers[o][i]
        BY <1>8, <4>2
      <4>4. QED
        BY <4>1, <4>2, <4>3 DEF ElementsAt, RangeOf
    <3>3. CASE f[p] = p /\ ~(p[1] = "deque" /\ p[2] = o) /\ p # <<"thread", t, 1>>
      BY <1>6, <1>8, <1>10, <2>9, <3>3, RangePlacesAre DEF IsRangePlace, ElementsAt, RangeOf
    <3>4. QED
      BY <2>4, <3>1, <3>2, <3>3
  <2>10. QED
    BY <1>6, <2>6, <2>7, <2>8, <2>9, TasksMoved DEF SumInv
<1>12. SumTypeOK'
  BY <1>6, <1>7, <1>8, <1>9 DEF SumInv, SumTypeOK, SumLabels, Ranges, Elements
<1>13. TasksInHand'
  BY <1>3, <1>5, <1>6, <1>7, <1>9 DEF SumInv, TasksInHand, ClaimLabels
<1>14. LastTask'
  BY <1>6, <1>7 DEF SumInv, LastTask
<1>15. QED
  BY <1>11, <1>12, <1>13, <1>14 DEF SumInv

LEMMA PushSubtaskKeeps ==
  ASSUME SumInv, NEW t \in Threads, PushSubtask(t)
  PROVE  SumInv'
<1>1. PICK n, m : n = Len(split_off[t]) /\ m = Len(workers[t]) + 1
  OBVIOUS
<1>2. pc[t] = "push" /\ split_off[t] # <<>> /\ split_off[t] \in Seq(Ranges) /\ workers[t] \in Seq(Ranges)
  BY DEF PushSubtask, SumInv, SumTypeOK, TasksInHand
<1>3. /\ n \in Nat \ {0} /\ m \in Nat \ {0}
      /\ DOMAIN split_off[t] = 1 .. n /\ DOMAIN workers[t] = 1 .. m - 1
      /\ workers \in [Threads -> Seq(Ranges)] /\ split_off \in [Threads -> Seq(Ranges)]
  BY <1>1, <1>2 DEF SumInv, SumTypeOK
<1>4. PICK d : d = split_off[t][1]
  OBVIOUS
<1>5. d \in Ranges
  BY <1>2, <1>3, <1>4
<1>6. PICK l : l = IF n = 1 THEN "add" ELSE "push"
  OBVIOUS
<1>7. /\ workers' = [workers EXCEPT ![t] = Append(@, d)]
      /\ split_off' = [split_off EXCEPT ![t] = Tail(@)]
      /\ Goto(t, l) /\ task' = task
      /\ finished' = finished /\ other' = other /\ length' = length
      /\ pending' = pending /\ counter' = counter
  BY <1>1, <1>2, <1>4, <1>6 DEF PushSubtask, PushTask
<1>8. /\ pc' \in [Threads -> SumLabels] /\ pc'[t] = l /\ l \in {"push", "add"}
      /\ \A s \in Threads \ {t} : pc'[s] = pc[s]
  BY <1>6, <1>7, Moves DEF SumInv, SumLabels
<1>9. /\ workers'[t] \in Seq(Ranges) /\ DOMAIN workers'[t] = 1 .. m
      /\ workers'[t][m] = d /\ \A i \in 1 .. m - 1 : workers'[t][i] = workers[t][i]
      /\ \A s \in Threads \ {t} : workers'[s] = workers[s]
      /\ workers' \in [Threads -> Seq(Ranges)]
  BY <1>1, <1>2, <1>3, <1>5, <1>7
<1>10. /\ split_off'[t] \in Seq(Ranges) /\ Len(split_off'[t]) = n - 1
       /\ DOMAIN split_off'[t] = 1 .. n - 1
       /\ \A i \in 1 .. n - 1 : split_off'[t][i] = split_off[t][i + 1]
       /\ \A s \in Threads \ {t} : split_off'[s] = split_off[s]
       /\ split_off' \in [Threads -> Seq(Ranges)]
  BY <1>1, <1>2, <1>3, <1>7
<1>11. \A s \in Threads : ToAdd(s)' = ToAdd(s)
  BY <1>2, <1>7, <1>8 DEF ToAdd, Own, KeptEnd, Splits, RangeOf
<1>12. PendingCountsRanges' /\ ElementOnce'
  <2>1. \A s \in Threads : \A i \in DOMAIN workers[s] :
          i \in DOMAIN workers'[s] /\ workers'[s][i] = workers[s][i]
    <3>1. SUFFICES ASSUME NEW s \in Threads, NEW i \in DOMAIN workers[s]
                   PROVE  i \in DOMAIN workers'[s] /\ workers'[s][i] = workers[s][i]
      OBVIOUS
    <3>2. CASE s = t
      BY <1>3, <1>9, <3>2
    <3>3. CASE s # t
      BY <1>9, <3>3
    <3>4. QED
      BY <3>2, <3>3
  <2>2. PICK b : b = <<"deque", t, m>>
    OBVIOUS
  <2>3. PICK f : f = [p \in RangePlaces |->
                        IF p = <<"push", t, 1>> THEN b
                        ELSE IF p[1] = "push" /\ p[2] = t THEN <<"push", t, p[3] - 1>>
                        ELSE p]
    OBVIOUS
  <2>4. <<"push", t, 1>> \in RangePlaces /\ b \notin RangePlaces
    BY <1>3, <2>2, RangesByKind
  <2>5. /\ \A i \in 2 .. n : <<"push", t, i>> \in RangePlaces /\ f[<<"push", t, i>>] = <<"push", t, i - 1>>
        /\ f[<<"push", t, 1>>] = b
    BY <1>3, <2>3, <2>4, RangesByKind
  <2>6. ASSUME NEW p \in RangePlaces
        PROVE  \/ p = <<"push", t, 1>>
               \/ \E i \in 2 .. n : p = <<"push", t, i>>
               \/ f[p] = p /\ ~(p[1] = "push" /\ p[2] = t) /\ p # b /\ p \in RangePlaces'
    <3>1. PICK s \in Threads : \/ \E i \in DOMAIN workers[s] : p = <<"deque", s, i>>
                               \/ \E i \in DOMAIN split_off[s] : p = <<"push", s, i>>
                               \/ pc[s] \in Running /\ p = <<"thread", s, 1>>
      BY RangePlacesAre DEF IsRangePlace
    <3>2. CASE \E i \in DOMAIN workers[s] : p = <<"deque", s, i>>
      BY <2>1, <2>3, <2>4, <3>2, RangesByKindThen
    <3>3. CASE \E i \in DOMAIN split_off[s] : p = <<"push", s, i>>
      BY <1>3, <1>10, <2>2, <2>3, <3>3, RangesByKindThen
    <3>4. CASE pc[s] \in Running /\ p = <<"thread", s, 1>>
      BY <1>8, <2>2, <2>3, <3>4, RangesByKindThen DEF Running
    <3>5. QED
      BY <3>1, <3>2, <3>3, <3>4
  <2>7. /\ b \in RangePlaces'
        /\ \A i \in 2 .. n : <<"push", t, i - 1>> \in RangePlaces'
    BY <1>3, <1>9, <1>10, <2>2, RangesByKindThen
  <2>8. f \in [RangePlaces -> RangePlaces']
    BY <2>3, <2>5, <2>6, <2>7
  <2>9. \A p, q \in RangePlaces : f[p] = f[q] => p = q
    <3>1. \A r \in RangePlaces :
            \/ r = <<"push", t, 1>> /\ f[r] = b
            \/ \E i \in 2 .. n : r = <<"push", t, i>> /\ f[r] = <<"push", t, i - 1>>
            \/ f[r] = r /\ r # b /\ \A i : r # <<"push", t, i>>
      <4>1. SUFFICES ASSUME NEW r \in RangePlaces
                     PROVE  \/ r = <<"push", t, 1>> /\ f[r] = b
                            \/ \E i \in 2 .. n : r = <<"push", t, i>> /\ f[r] = <<"push", t, i - 1>>
                            \/ f[r] = r /\ r # b /\ \A i : r # <<"push", t, i>>
        OBVIOUS
      <4>2. CASE f[r] = r /\ ~(r[1] = "push" /\ r[2] = t) /\ r # b
        BY <4>2
      <4>3. QED
        BY <2>5, <2>6, <4>2
    <3>2. n \in Nat /\ \A i : b # <<"push", t, i>>
      BY <1>3, <2>2
    <3>3. QED
      BY ONLY <3>1, <3>2, ShiftInjective
  <2>10. \A q \in RangePlaces' : \E p \in RangePlaces : f[p] = q
    <3>1. SUFFICES ASSUME NEW q \in RangePlaces' PROVE \E p \in RangePlaces : f[p] = q
      OBVIOUS
    <3>2. PICK s \in Threads : \/ \E i \in DOMAIN workers'[s] : q = <<"deque", s, i>>
                               \/ \E i \in DOMAIN split_off'[s] : q = <<"push", s, i>>
                               \/ pc'[s] \in Running /\ q = <<"thread", s, 1>>
      BY RangePlacesAre DEF IsRangePlace
    <3>3. CASE \E i \in DOMAIN workers'[s] : q = <<"deque", s, i>>
      <4>1. CASE q = b
        BY <2>4, <2>5, <4>1
      <4>2. CASE q # b
        <5>1. q \in RangePlaces
          BY <1>3, <1>9, <2>2, <3>3, <4>2, RangesByKind
        <5>2. QED
          BY <2>3, <3>3, <5>1
      <4>3. QED
        BY <4>1, <4>2
    <3>4. CASE \E i \in DOMAIN split_off'[s] : q = <<"push", s, i>>
      <4>1. CASE s = t
        <5>1. PICK i \in 1 .. n - 1 : q = <<"push", t, i>>
          BY <1>10, <3>4, <4>1
        <5>2. i + 1 \in 2 .. n /\ (i + 1) - 1 = i
          BY <1>3
        <5>3. QED
          BY <2>5, <5>1, <5>2
      <4>2. CASE s # t
        BY <1>10, <2>3, <3>4, <4>2, RangesByKind
      <4>3. QED
        BY <4>1, <4>2
    <3>5. CASE pc'[s] \in Running /\ q = <<"thread", s, 1>>
      BY <1>2, <1>8, <2>3, <3>5, RangesByKind DEF Running
    <3>6. QED
      BY <3>2, <3>3, <3>4, <3>5
  <2>11. ASSUME NEW p \in RangePlaces, NEW q \in RangePlaces', q = f[p]
         PROVE  ElementsAt(q)' = ElementsAt(p)
    <3>1. CASE p = <<"push", t, 1>>
      <4>1. q = <<"deque", t, m>>
        BY <2>2, <2>5, <2>11, <3>1
      <4>2. QED
        BY <1>4, <1>9, <3>1, <4>1 DEF ElementsAt, RangeOf
    <3>2. CASE \E i \in 2 .. n : p = <<"push", t, i>>
      <4>1. PICK i \in 2 .. n : p = <<"push", t, i>>
        BY <3>2
      <4>2. q = <<"push", t, i - 1>> /\ i - 1 \in 1 .. n - 1 /\ (i - 1) + 1 = i
        BY <1>3, <2>5, <2>11, <4>1
      <4>3. split_off'[t][i - 1] = split_off[t][i]
        BY <1>10, <4>2
      <4>4. QED
        BY <4>1, <4>2, <4>3 DEF ElementsAt, RangeOf
    <3>3. CASE f[p] = p /\ ~(p[1] = "push" /\ p[2] = t) /\ p # b
      BY <1>10, <1>11, <2>1, <2>11, <3>3, RangePlacesAre DEF IsRangePlace, ElementsAt, RangeOf
    <3>4. QED
      BY <2>6, <3>1, <3>2, <3>3
  <2>12. QED
    BY <1>7, <2>8, <2>9, <2>10, <2>11, TasksMoved DEF SumInv
<1>13. SumTypeOK'
  BY <1>7, <1>8, <1>9, <1>10 DEF SumInv, SumTypeOK, SumLabels, Ranges, Elements
<1>14. TasksInHand'
  <2>1. split_off'[t] = <<>> <=> n = 1
    BY <1>3, <1>10
  <2>2. task[t] # NoTask
    BY <1>2 DEF SumInv, TasksInHand, ClaimLabels
  <2>3. QED
    BY <1>6, <1>7, <1>8, <1>10, <2>1, <2>2 DEF SumInv, TasksInHand, ClaimLabels
<1>15. LastTask'
  BY <1>7, <1>8 DEF SumInv, LastTask
<1>16. QED
  BY <1>12, <1>13, <1>14, <1>15 DEF SumInv

-----------------------------------------------------------------------------
(* run: the range is split, the own part added, the task counted off.      *)

(* Places that are counted are not none.                                   *)
LEMMA SomePending ==
  ASSUME SumInv, NEW p \in RangePlaces
  PROVE  pending # 0 /\ finished = FALSE /\ \A t \in Threads : pc[t] # "finish"
BY FS_EmptySet DEF SumInv, PendingCountsRanges, LastTask, SumTypeOK

LEMMA StartKeeps ==
  ASSUME SumInv, NEW t \in Threads, Start(t)
  PROVE  SumInv'
<1>1. PICK d : d = task[t]
  OBVIOUS
<1>2. pc[t] = "run" /\ d \in Ranges /\ split_off[t] = <<>> /\ d # NoTask
  BY <1>1 DEF Start, SumInv, SumTypeOK, TasksInHand, ClaimLabels
<1>3. PICK new : new = Subtasks(d)
  OBVIOUS
<1>4. PICK k : k = Len(new)
  OBVIOUS
<1>5. /\ new \in Seq(Ranges) /\ k \in 0 .. 2 /\ DOMAIN new = 1 .. k
      /\ \A e \in RangeOf(d) : e \in Own(d) \/ \E i \in 1 .. k : e \in RangeOf(new[i])
      /\ \A e \in Own(d) : e \in RangeOf(d) /\ \A i \in 1 .. k : e \notin RangeOf(new[i])
      /\ \A i \in 1 .. k : \A e \in RangeOf(new[i]) :
           e \in RangeOf(d) /\ \A j \in 1 .. k : e \in RangeOf(new[j]) => j = i
  <2>1. /\ new \in Seq(Ranges) /\ Len(new) \in 0 .. 2
        /\ \A e \in RangeOf(d) :
             e \in Own(d) \/ \E i \in DOMAIN new : e \in RangeOf(new[i])
        /\ \A e \in Own(d) :
             e \in RangeOf(d) /\ \A i \in DOMAIN new : e \notin RangeOf(new[i])
        /\ \A i \in DOMAIN new : \A e \in RangeOf(new[i]) :
             /\ e \in RangeOf(d)
             /\ \A j \in DOMAIN new : e \in RangeOf(new[j]) => j = i
    <3>1. SumTypeOK
      BY DEF SumInv
    <3>2. QED
      BY ONLY <1>2, <1>3, <3>1, SplitParts
  <2>2. DOMAIN new = 1 .. k
    BY <1>4, <2>1
  <2>3. QED
    BY ONLY <1>4, <2>1, <2>2
<1>6. PICK l : l = IF new = <<>> THEN "add" ELSE "push"
  OBVIOUS
<1>7. /\ pending' = pending + k
      /\ split_off' = [split_off EXCEPT ![t] = new]
      /\ Goto(t, l) /\ l \in {"push", "add"} /\ (l = "add" <=> new = <<>>)
      /\ workers' = workers /\ finished' = finished /\ other' = other /\ task' = task
      /\ length' = length /\ counter' = counter
  BY <1>1, <1>3, <1>4, <1>6 DEF Start, Counted
<1>8. /\ pc' \in [Threads -> SumLabels] /\ pc'[t] = l
      /\ \A s \in Threads \ {t} : pc'[s] = pc[s]
  BY <1>7, Moves DEF SumInv, SumLabels
<1>9. /\ split_off'[t] = new /\ \A s \in Threads \ {t} : split_off'[s] = split_off[s]
      /\ split_off' \in [Threads -> Seq(Ranges)]
  BY <1>5, <1>7 DEF SumInv, SumTypeOK
<1>10. ToAdd(t) = RangeOf(d) /\ ToAdd(t)' = Own(d) /\ \A s \in Threads \ {t} : ToAdd(s)' = ToAdd(s)
  BY <1>1, <1>2, <1>7, <1>8 DEF ToAdd, RangeOf, Own, KeptEnd, Splits
<1>11. PICK a : a = <<"thread", t, 1>>
  OBVIOUS
<1>12. a \in RangePlaces /\ \A i : <<"push", t, i>> \notin RangePlaces
  BY <1>2, <1>11, RangesByKind DEF Running
<1>13. \A p : p \in RangePlaces' <=> p \in RangePlaces \/ \E i \in 1 .. k : p = <<"push", t, i>>
  BY <1>2, <1>5, <1>7, <1>8, <1>9, RangePlacesAre DEF IsRangePlace, Running
<1>14. PendingCountsRanges'
  <2>1. IsFiniteSet(RangePlaces) /\ pending = Cardinality(RangePlaces) /\ pending \in Nat
    BY DEF SumInv, SumTypeOK, PendingCountsRanges
  <2>2. CASE k = 0
    <3>1. RangePlaces' = RangePlaces
      BY <1>13, <2>2
    <3>2. QED
      BY <1>7, <2>1, <2>2, <3>1 DEF PendingCountsRanges
  <2>3. CASE k = 1
    <3>1. RangePlaces' = RangePlaces \cup {<<"push", t, 1>>}
      BY <1>13, <2>3
    <3>2. QED
      BY <1>7, <1>12, <2>1, <2>3, <3>1, FS_AddElement DEF PendingCountsRanges
  <2>4. CASE k = 2
    <3>1. RangePlaces' = (RangePlaces \cup {<<"push", t, 1>>}) \cup {<<"push", t, 2>>}
      BY <1>13, <2>4
    <3>2. PICK P : P = RangePlaces \cup {<<"push", t, 1>>}
      OBVIOUS
    <3>3. IsFiniteSet(P) /\ Cardinality(P) = pending + 1
      BY <1>12, <2>1, <3>2, FS_AddElement
    <3>4. <<"push", t, 2>> \notin P
      BY <1>12, <3>2
    <3>5. IsFiniteSet(P \cup {<<"push", t, 2>>}) /\ Cardinality(P \cup {<<"push", t, 2>>}) = pending + 2
      BY <2>1, <3>3, <3>4, FS_AddElement
    <3>6. QED
      BY <1>7, <2>4, <3>1, <3>2, <3>5 DEF PendingCountsRanges
  <2>5. QED
    BY <1>5, <2>2, <2>3, <2>4
<1>15. \A p \in RangePlaces : p # a => ElementsAt(p)' = ElementsAt(p)
  <2>1. SUFFICES ASSUME NEW p, IsRangePlace(p), p # a PROVE ElementsAt(p)' = ElementsAt(p)
    BY RangePlacesAre
  <2>2. QED
    BY <1>2, <1>7, <1>9, <1>10, <1>11, <2>1 DEF IsRangePlace, ElementsAt, RangeOf
<1>16. ElementsAt(a) = RangeOf(d) /\ ElementsAt(a)' = Own(d)
  BY <1>10, <1>11 DEF ElementsAt
<1>17. \A i \in 1 .. k : ElementsAt(<<"push", t, i>>)' = RangeOf(new[i])
  BY <1>9 DEF ElementsAt, RangeOf
<1>18. ElementOnce'
  <2>1. SUFFICES ASSUME NEW e \in Elements
                 PROVE  \/ counter[e] = 0 /\ \E p \in RangePlaces' : \A q \in RangePlaces' : e \in ElementsAt(q)' <=> q = p
                        \/ counter[e] = 1 /\ \A p \in RangePlaces' : e \notin ElementsAt(p)'
    BY <1>7 DEF ElementOnce, Elements
  <2>2. \/ counter[e] = 0 /\ \E p \in RangePlaces : \A q \in RangePlaces : e \in ElementsAt(q) <=> q = p
        \/ counter[e] = 1 /\ \A p \in RangePlaces : e \notin ElementsAt(p)
    BY DEF SumInv, ElementOnce
  <2>3. CASE e \notin RangeOf(d)
    <3>1. \A p \in RangePlaces : e \in ElementsAt(p)' <=> e \in ElementsAt(p)
      BY <1>5, <1>15, <1>16, <2>3
    <3>2. \A i \in 1 .. k : e \notin ElementsAt(<<"push", t, i>>)'
      BY <1>5, <1>17, <2>3
    <3>3. \A q \in RangePlaces' : e \in ElementsAt(q)' <=> q \in RangePlaces /\ e \in ElementsAt(q)
      BY <1>13, <1>12, <3>1, <3>2
    <3>4. \A q \in RangePlaces : q \in RangePlaces'
      BY <1>13
    <3>5. CASE counter[e] = 0 /\ \E p \in RangePlaces : \A q \in RangePlaces : e \in ElementsAt(q) <=> q = p
      <4>1. PICK p \in RangePlaces : \A q \in RangePlaces : e \in ElementsAt(q) <=> q = p
        BY <3>5
      <4>2. \A q \in RangePlaces' : e \in ElementsAt(q)' <=> q = p
        BY <3>3, <4>1
      <4>3. QED
        BY <3>4, <3>5, <4>2
    <3>6. CASE counter[e] = 1 /\ \A p \in RangePlaces : e \notin ElementsAt(p)
      BY <3>3, <3>6
    <3>7. QED
      BY <2>2, <3>5, <3>6
  <2>4. CASE e \in RangeOf(d)
    <3>1. counter[e] = 0 /\ \A q \in RangePlaces : e \in ElementsAt(q) <=> q = a
      BY <1>12, <1>16, <2>2, <2>4
    <3>2. \A q \in RangePlaces : q # a => e \notin ElementsAt(q)'
      BY <1>15, <3>1
    <3>3. CASE e \in Own(d)
      BY <1>5, <1>12, <1>13, <1>16, <1>17, <3>1, <3>2, <3>3
    <3>4. CASE e \notin Own(d)
      <4>1. PICK i \in 1 .. k : e \in RangeOf(new[i])
        BY <1>5, <2>4, <3>4
      <4>2. \A j \in 1 .. k : e \in RangeOf(new[j]) => j = i
        BY <1>5, <4>1
      <4>3. \A q \in RangePlaces : e \notin ElementsAt(q)'
        BY <1>16, <3>2, <3>4
      <4>4. \A q \in RangePlaces' : e \in ElementsAt(q)' <=> q = <<"push", t, i>>
        BY <1>12, <1>13, <1>17, <4>1, <4>2, <4>3
      <4>5. <<"push", t, i>> \in RangePlaces'
        BY <1>13
      <4>6. QED
        BY <3>1, <4>4, <4>5
    <3>5. QED
      BY <3>3, <3>4
  <2>5. QED
    BY <2>3, <2>4
<1>19. SumTypeOK'
  BY <1>5, <1>7, <1>8, <1>9 DEF SumInv, SumTypeOK, SumLabels, Ranges, Elements
<1>20. TasksInHand'
  BY <1>1, <1>2, <1>7, <1>8, <1>9 DEF SumInv, TasksInHand, ClaimLabels
<1>21. LastTask'
  BY <1>7, <1>8, <1>12, SomePending DEF LastTask
<1>22. QED
  BY <1>14, <1>18, <1>19, <1>20, <1>21 DEF SumInv

LEMMA AddSumKeeps ==
  ASSUME SumInv, NEW t \in Threads, AddSum(t)
  PROVE  SumInv'
<1>1. PICK d : d = task[t]
  OBVIOUS
<1>2. pc[t] = "add" /\ d \in Ranges /\ d # NoTask
  BY <1>1 DEF AddSum, SumInv, SumTypeOK, TasksInHand, ClaimLabels
<1>3. /\ counter' = [e \in Elements |-> counter[e] + IF e \in Own(d) THEN 1 ELSE 0]
      /\ Goto(t, "release") /\ pending' = pending /\ split_off' = split_off
      /\ workers' = workers /\ finished' = finished /\ other' = other /\ task' = task
      /\ length' = length
  BY <1>1 DEF AddSum
<1>4. /\ pc' \in [Threads -> SumLabels] /\ pc'[t] = "release"
      /\ \A s \in Threads \ {t} : pc'[s] = pc[s]
  BY <1>3, Moves DEF SumInv, SumLabels
<1>5. ToAdd(t) = Own(d) /\ ToAdd(t)' = {} /\ \A s \in Threads \ {t} : ToAdd(s)' = ToAdd(s)
  BY <1>1, <1>2, <1>3, <1>4 DEF ToAdd, RangeOf, Own, KeptEnd, Splits
<1>6. PICK a : a = <<"thread", t, 1>>
  OBVIOUS
<1>7. a \in RangePlaces
  BY <1>2, <1>6, RangesByKind DEF Running
<1>8. RangePlaces' = RangePlaces
  BY <1>2, <1>3, <1>4, RangePlacesAre DEF IsRangePlace, Running
<1>9. /\ ElementsAt(a) = Own(d) /\ ElementsAt(a)' = {}
      /\ \A p \in RangePlaces : p # a => ElementsAt(p)' = ElementsAt(p)
  <2>1. ElementsAt(a) = Own(d) /\ ElementsAt(a)' = {}
    BY <1>5, <1>6 DEF ElementsAt
  <2>2. ASSUME NEW p, IsRangePlace(p), p # a PROVE ElementsAt(p)' = ElementsAt(p)
    BY <1>3, <1>5, <1>6, <2>2 DEF IsRangePlace, ElementsAt, RangeOf
  <2>3. QED
    BY <2>1, <2>2, RangePlacesAre
<1>10. ElementOnce'
  <2>1. SUFFICES ASSUME NEW e \in Elements
                 PROVE  \/ counter'[e] = 0 /\ \E p \in RangePlaces' : \A q \in RangePlaces' : e \in ElementsAt(q)' <=> q = p
                        \/ counter'[e] = 1 /\ \A p \in RangePlaces' : e \notin ElementsAt(p)'
    BY <1>3 DEF ElementOnce, Elements
  <2>2. \/ counter[e] = 0 /\ \E p \in RangePlaces : \A q \in RangePlaces : e \in ElementsAt(q) <=> q = p
        \/ counter[e] = 1 /\ \A p \in RangePlaces : e \notin ElementsAt(p)
    BY DEF SumInv, ElementOnce
  <2>3. CASE e \in Own(d)
    BY <1>3, <1>7, <1>8, <1>9, <2>2, <2>3
  <2>4. CASE e \notin Own(d)
    BY <1>3, <1>8, <1>9, <2>2, <2>4
  <2>5. QED
    BY <2>3, <2>4
<1>11. PendingCountsRanges'
  BY <1>3, <1>8 DEF SumInv, PendingCountsRanges
<1>12. SumTypeOK'
  BY <1>3, <1>4 DEF SumInv, SumTypeOK, Elements, SumLabels, Ranges
<1>13. TasksInHand'
  BY <1>1, <1>2, <1>3, <1>4 DEF SumInv, TasksInHand, ClaimLabels
<1>14. LastTask'
  BY <1>3, <1>4 DEF SumInv, LastTask
<1>15. QED
  BY <1>10, <1>11, <1>12, <1>13, <1>14 DEF SumInv

LEMMA ReleaseSumKeeps ==
  ASSUME SumInv, NEW t \in Threads, ReleaseSum(t)
  PROVE  SumInv'
<1>1. PICK l : l = IF IsLast(pending) THEN "finish" ELSE "claim"
  OBVIOUS
<1>2. pc[t] = "release" /\ task[t] \in Ranges /\ task[t] # NoTask /\ split_off[t] = <<>>
  BY DEF ReleaseSum, SumInv, SumTypeOK, TasksInHand, ClaimLabels
<1>3. /\ Goto(t, l) /\ l \in {"finish", "claim"} /\ (l = "finish" <=> pending = 1)
      /\ task' = IF l = "finish" THEN task ELSE [task EXCEPT ![t] = NoTask]
      /\ pending' = pending - 1 /\ counter' = counter /\ split_off' = split_off
      /\ workers' = workers /\ finished' = finished /\ other' = other
      /\ length' = length
  BY <1>1 DEF ReleaseSum, Return, IsLast
<1>4. /\ pc' \in [Threads -> SumLabels] /\ pc'[t] = l
      /\ \A s \in Threads \ {t} : pc'[s] = pc[s]
  BY <1>3, Moves DEF SumInv, SumLabels, ClaimLabels
<1>5. /\ task' \in [Threads -> Ranges \cup {NoTask}]
      /\ \A s \in Threads \ {t} : task'[s] = task[s]
      /\ task'[t] = NoTask <=> l = "claim"
  BY <1>2, <1>3 DEF SumInv, SumTypeOK
<1>6. ToAdd(t) = {} /\ \A s \in Threads \ {t} : ToAdd(s)' = ToAdd(s)
  BY <1>2, <1>3, <1>4, <1>5 DEF ToAdd, RangeOf, Own, KeptEnd, Splits
<1>7. PICK a : a = <<"thread", t, 1>>
  OBVIOUS
<1>8. a \in RangePlaces /\ ElementsAt(a) = {}
  BY <1>2, <1>6, <1>7, RangesByKind DEF Running, ElementsAt
<1>9. RangePlaces' = RangePlaces \ {a}
  BY <1>2, <1>3, <1>4, <1>7, RangePlacesAre DEF IsRangePlace, Running
<1>10. \A p \in RangePlaces : p # a => ElementsAt(p)' = ElementsAt(p)
  <2>1. ASSUME NEW p, IsRangePlace(p), p # a PROVE ElementsAt(p)' = ElementsAt(p)
    BY <1>3, <1>6, <1>7, <2>1 DEF IsRangePlace, ElementsAt, RangeOf
  <2>2. QED
    BY <2>1, RangePlacesAre
<1>11. PendingCountsRanges' /\ pending' \in Nat
  <2>1. IsFiniteSet(RangePlaces) /\ pending = Cardinality(RangePlaces) /\ pending \in Nat /\ pending # 0
    BY <1>8, SomePending DEF SumInv, SumTypeOK, PendingCountsRanges
  <2>2. IsFiniteSet(RangePlaces \ {a}) /\ Cardinality(RangePlaces \ {a}) = pending - 1
    BY <1>8, <2>1, FS_RemoveElement
  <2>3. QED
    BY <1>3, <1>9, <2>1, <2>2 DEF PendingCountsRanges
<1>12. ElementOnce'
  <2>1. SUFFICES ASSUME NEW e \in Elements
                 PROVE  \/ counter[e] = 0 /\ \E p \in RangePlaces' : \A q \in RangePlaces' : e \in ElementsAt(q)' <=> q = p
                        \/ counter[e] = 1 /\ \A p \in RangePlaces' : e \notin ElementsAt(p)'
    BY <1>3 DEF ElementOnce, Elements
  <2>2. \/ counter[e] = 0 /\ \E p \in RangePlaces : \A q \in RangePlaces : e \in ElementsAt(q) <=> q = p
        \/ counter[e] = 1 /\ \A p \in RangePlaces : e \notin ElementsAt(p)
    BY DEF SumInv, ElementOnce
  <2>3. \A q \in RangePlaces' : q \in RangePlaces /\ (e \in ElementsAt(q)' <=> e \in ElementsAt(q))
    BY <1>9, <1>10
  <2>4. QED
    BY <1>8, <1>9, <2>2, <2>3
<1>13. SumTypeOK'
  BY <1>3, <1>4, <1>5, <1>11 DEF SumInv, SumTypeOK, SumLabels, Ranges, Elements
<1>14. TasksInHand'
  BY <1>2, <1>3, <1>4, <1>5 DEF SumInv, TasksInHand, ClaimLabels
<1>15. LastTask'
  <2>1. finished = FALSE /\ \A s \in Threads : pc[s] # "finish"
    BY <1>8, SomePending
  <2>2. QED
    BY <1>3, <1>4, <2>1 DEF LastTask
<1>16. QED
  BY <1>11, <1>12, <1>13, <1>14, <1>15 DEF SumInv

LEMMA FinishSumKeeps ==
  ASSUME SumInv, NEW t \in Threads, FinishSum(t)
  PROVE  SumInv'
<1>1. /\ pc[t] = "finish" /\ finished' = TRUE /\ task' = [task EXCEPT ![t] = NoTask]
      /\ Goto(t, "claim") /\ workers' = workers /\ other' = other /\ length' = length
      /\ pending' = pending /\ counter' = counter /\ split_off' = split_off
  BY DEF FinishSum, Finish, Return, sumVars
<1>2. /\ pc' \in [Threads -> SumLabels] /\ pc'[t] = "claim"
      /\ \A s \in Threads \ {t} : pc'[s] = pc[s]
  BY <1>1, Moves DEF SumInv, SumLabels, ClaimLabels
<1>3. /\ task' \in [Threads -> Ranges \cup {NoTask}] /\ task'[t] = NoTask
      /\ \A s \in Threads \ {t} : task'[s] = task[s]
  BY <1>1 DEF SumInv, SumTypeOK
<1>4. \A s \in Threads : ToAdd(s)' = ToAdd(s)
  BY <1>1, <1>2, <1>3 DEF ToAdd, RangeOf, Own, KeptEnd, Splits
<1>5. RangePlaces' = RangePlaces
  BY <1>1, <1>2, RangePlacesAre DEF IsRangePlace, Running
<1>6. \A p \in RangePlaces : ElementsAt(p)' = ElementsAt(p)
  <2>1. ASSUME NEW p, IsRangePlace(p) PROVE ElementsAt(p)' = ElementsAt(p)
    BY <1>1, <1>4, <2>1 DEF IsRangePlace, ElementsAt, RangeOf
  <2>2. QED
    BY <2>1, RangePlacesAre
<1>7. PendingCountsRanges' /\ ElementOnce'
  BY <1>1, <1>5, <1>6, TasksStay DEF SumInv
<1>8. SumTypeOK'
  BY <1>1, <1>2, <1>3 DEF SumInv, SumTypeOK, SumLabels, Ranges, Elements
<1>9. TasksInHand'
  BY <1>1, <1>2, <1>3 DEF SumInv, TasksInHand, ClaimLabels
<1>10. LastTask'
  BY <1>1 DEF SumInv, LastTask
<1>11. QED
  BY <1>7, <1>8, <1>9, <1>10 DEF SumInv

-----------------------------------------------------------------------------
(* The specification.                                                      *)

LEMMA SumInitHolds == SumInit => SumInv
<1>1. SUFFICES ASSUME SumInit PROVE SumInv
  OBVIOUS
<1>2. /\ length \in Lengths /\ length \in Nat /\ N \in Nat \ {0}
      /\ pending = 1 /\ counter = [e \in Elements |-> 0]
      /\ split_off = [s \in Threads |-> <<>>]
      /\ finished = FALSE /\ pc = [s \in Threads |-> "claim"]
      /\ other = [s \in Threads |-> s] /\ task = [s \in Threads |-> NoTask]
  BY <1>1, StealerAssumption, SplitAssumption DEF SumInit, StealerInit
<1>3. PICK d : d = <<0, length>>
  OBVIOUS
<1>4. d \in Ranges /\ RangeOf(d) = Elements /\ 0 \in Threads
  BY <1>2, <1>3 DEF Ranges, RangeOf, Elements, Threads
<1>5. /\ workers \in [Threads -> Seq(Ranges)] /\ workers[0] = <<d>>
      /\ \A s \in Threads \ {0} : workers[s] = <<>>
  <2> DEFINE Mine(s) == {i \in {1} : (i - 1) % N = s}
             Dealt(s) == [k \in 1 .. Cardinality(Mine(s)) |-> << d >>[s + 1 + (k - 1) * N]]
  <2>1. workers = [s \in Threads |-> Dealt(s)]
    BY <1>1, <1>3 DEF SumInit, StealerInit
  <2>2. 0 % N = 0
    BY <1>2
  <2>3. Mine(0) = {1} /\ \A s \in Threads \ {0} : Mine(s) = {}
    BY <2>2
  <2>4. Cardinality(Mine(0)) = 1 /\ \A s \in Threads \ {0} : Cardinality(Mine(s)) = 0
    BY <2>3, FS_Singleton, FS_EmptySet
  <2>5. Dealt(0) = <<d>>
    <3>1. Dealt(0) = [k \in 1 .. 1 |-> << d >>[0 + 1 + (k - 1) * N]]
      BY <2>4
    <3>2. \A k \in 1 .. 1 : 0 + 1 + (k - 1) * N = 1
      BY <1>2
    <3>3. QED
      BY <3>1, <3>2
  <2>6. \A s \in Threads \ {0} : Dealt(s) = <<>>
    BY <2>4
  <2> HIDE DEF Dealt
  <2>7. <<d>> \in Seq(Ranges) /\ <<>> \in Seq(Ranges)
    BY <1>4
  <2>8. QED
    BY <1>4, <2>1, <2>5, <2>6, <2>7
<1>6. SumTypeOK /\ TasksInHand /\ LastTask
  <2>1. <<>> \in Seq(Ranges)
    OBVIOUS
  <2>2. split_off \in [Threads -> Seq(Ranges)]
    BY <1>2, <2>1
  <2>3. pc \in [Threads -> SumLabels] /\ \A s \in Threads : pc[s] = "claim"
    BY <1>2 DEF SumLabels, ClaimLabels
  <2>4. SumTypeOK
    BY <1>2, <1>5, <2>2, <2>3 DEF SumTypeOK, SumLabels
  <2>5. TasksInHand /\ LastTask
    BY <1>2 DEF TasksInHand, LastTask, ClaimLabels
  <2>6. QED
    BY <2>4, <2>5
<1>7. RangePlaces = {<<"deque", 0, 1>>}
  BY <1>2, <1>4, <1>5, RangePlacesAre DEF Running, IsRangePlace
<1>8. PendingCountsRanges
  BY <1>2, <1>7, FS_Singleton DEF PendingCountsRanges
<1>9. ElementsAt(<<"deque", 0, 1>>) = Elements
  BY <1>4, <1>5 DEF ElementsAt
<1>10. ElementOnce
  BY <1>2, <1>7, <1>9 DEF ElementOnce
<1>11. QED
  BY <1>6, <1>8, <1>10 DEF SumInv

LEMMA SumStepKeeps == SumInv /\ [SumNext]_splitVars => SumInv'
<1>1. SUFFICES ASSUME SumInv, [SumNext]_splitVars PROVE SumInv'
  OBVIOUS
<1>2. CASE UNCHANGED splitVars
  <2>1. /\ workers' = workers /\ finished' = finished /\ pc' = pc /\ other' = other /\ task' = task
        /\ length' = length /\ pending' = pending /\ counter' = counter /\ split_off' = split_off
    BY <1>2 DEF splitVars, stealerVars, sumVars
  <2>2. SumTypeOK' /\ TasksInHand' /\ LastTask'
    BY <1>1, <2>1 DEF SumInv, SumTypeOK, TasksInHand, LastTask, Ranges, Elements
  <2>3. RangePlaces' = RangePlaces
    BY <2>1 DEF RangePlaces, RangesInDeque, RangesToPush, RangeInHand
  <2>4. \A p : ElementsAt(p)' = ElementsAt(p)
    BY <2>1 DEF ElementsAt, ToAdd, RangeOf, Own, KeptEnd, Splits
  <2>5. PendingCountsRanges' /\ ElementOnce'
    BY <1>1, <2>1, <2>3, <2>4, TasksStay DEF SumInv
  <2>6. QED
    BY <2>2, <2>5 DEF SumInv
<1>3. CASE SumNext
  <2>1. PICK t \in Threads : SumStep(t)
    BY <1>3 DEF SumNext
  <2>2. QED
    BY <1>1, <2>1, LoadFinishedKeeps, PopRangeKeeps, PopNothingKeeps, StealRangeKeeps, StealNothingKeeps,
       StartKeeps, PushSubtaskKeeps, AddSumKeeps, ReleaseSumKeeps, FinishSumKeeps DEF SumStep, Claim
<1>4. QED
  BY <1>1, <1>2, <1>3

(* The tasks that are left are counted exactly, and every element is in    *)
(* one of them or in one sum (run in cases/*/deque.rs).                    *)
THEOREM EachElementOnce == SumSpec => []SumInv
<1>1. QED
  BY SumInitHolds, SumStepKeeps, PTL DEF SumSpec

(* The sum is complete when the pool is finished: the last decrement of    *)
(* data.pending finds no task left.                                        *)
THEOREM CounterComplete == SumSpec => []FinishedMeansSummed
<1>1. SumInv => FinishedMeansSummed
  <2>1. SUFFICES ASSUME SumInv, finished, NEW e \in Elements PROVE counter[e] = 1
    BY DEF FinishedMeansSummed
  <2>2. RangePlaces = {}
    BY <2>1, SomePending
  <2>3. QED
    BY <2>1, <2>2 DEF SumInv, ElementOnce
<1>2. QED
  BY <1>1, EachElementOnce, PTL


-----------------------------------------------------------------------------

(* A set of natural numbers that is not empty has a least element: the     *)
(* intervals below its elements are ordered by inclusion.                  *)
LEMMA LeastNatural ==
  ASSUME NEW T \in SUBSET Nat, T # {}
  PROVE  \E n \in T : \A m \in T : n <= m
<1> DEFINE below(n) == 0 .. n - 1
           F == {below(n) : n \in T}
           R == StrictSubsetOrdering(Nat)
<1>1. \A n \in T : below(n) \in FiniteSubsetsOf(Nat)
  BY FS_Interval DEF FiniteSubsetsOf
<1>2. PICK x \in F : \A y \in F : ~(<<y, x>> \in R)
  <2>1. F \subseteq FiniteSubsetsOf(Nat) /\ F # {}
    BY <1>1
  <2>2. IsWellFoundedOn(R, FiniteSubsetsOf(Nat))
    BY FS_StrictSubsetOrderingWellFounded
  <2> HIDE DEF F, R
  <2>3. QED
    BY <2>1, <2>2, WFMin
<1>3. PICK n \in T : x = below(n)
  OBVIOUS
<1>4. ASSUME NEW m \in T, m < n PROVE FALSE
  <2>1. below(m) \subseteq below(n) /\ below(m) # below(n)
    BY <1>4
  <2>2. <<below(m), below(n)>> \in R
    BY <2>1 DEF StrictSubsetOrdering
  <2>3. QED
    BY <1>2, <1>3, <2>2
<1>5. QED
  BY <1>4

(* The segment of the call in progress.                                    *)
LEMMA SegmentPlaces ==
  ASSUME SortTypeOK, stack # <<>>
  PROVE  /\ 1 \in DOMAIN stack /\ DOMAIN stack = 1 .. Len(stack) /\ Len(stack) \in Nat
         /\ First = stack[1][1] /\ First + Extent = stack[1][2]
         /\ Len(given) \in Nat /\ First \in 1 .. Len(given) + 1 /\ Extent \in Nat
         /\ First + Extent \in 1 .. Len(given) + 1
         /\ DOMAIN array = 1 .. Len(given) /\ DOMAIN given = 1 .. Len(given)
         /\ \A i \in 0 .. Extent - 1 : First + i \in 1 .. Len(given) /\ At(i) \in Nat
<1>1. /\ DOMAIN stack = 1 .. Len(stack) /\ Len(stack) \in Nat /\ 1 \in DOMAIN stack
      /\ Head(stack) = stack[1]
  BY DEF SortTypeOK
<1>2. Len(given) \in Nat /\ DOMAIN given = 1 .. Len(given)
  BY DEF SortTypeOK
<1>3. /\ stack[1] \in (1 .. Len(given) + 1) \X (1 .. Len(given) + 1)
      /\ stack[1][1] <= stack[1][2]
  BY <1>1 DEF SortTypeOK
<1> DEFINE s == stack[1][1]
           e == stack[1][2]
<1>4. s \in 1 .. Len(given) + 1 /\ e \in 1 .. Len(given) + 1 /\ s <= e
  BY <1>3
<1>5. First = s /\ Extent = e - s
  BY <1>1 DEF First, Extent
<1> HIDE DEF s, e
<1>6. DOMAIN array = 1 .. Len(given)
        /\ \A i \in 1 .. Len(given) : array[i] \in Nat
  BY SequentialAssumption DEF SortTypeOK
<1>7. \A i \in 0 .. Extent - 1 : First + i \in 1 .. Len(given)
  BY <1>2, <1>4, <1>5
<1>8. QED
  BY <1>1, <1>2, <1>4, <1>5, <1>6, <1>7 DEF At, s, e

(* A rearrangement of an array has its elements.                           *)
LEMMA Rearranged ==
  ASSUME SortTypeOK, Permuted, given' = given,
         NEW q \in [DOMAIN given -> DOMAIN given],
         \A i \in DOMAIN given : \E j \in DOMAIN given : q[j] = i,
         \A i, j \in DOMAIN given : q[i] = q[j] => i = j,
         array' = [i \in DOMAIN given |-> array[q[i]]]
  PROVE  Permuted'
<1>1. DOMAIN array = DOMAIN given /\ DOMAIN given = 1 .. Len(given) /\ Len(given) \in Nat
  BY DEF SortTypeOK
<1> DEFINE Having(a, value) == {i \in DOMAIN given : a[i] = value}
<1>2. SUFFICES ASSUME NEW value \in Numbers
      PROVE  Cardinality(Having(array', value)) = Cardinality(Having(array, value))
  <2>1. \A value \in Numbers : Cardinality(Having(array, value)) = Cardinality(Having(given, value))
    BY <1>1 DEF Permuted
  <2>2. (\A value \in Numbers : Cardinality(Having(array', value))
                                = Cardinality(Having(given, value))) => Permuted'
    <3>1. DOMAIN array' = DOMAIN given
      OBVIOUS
    <3>2. \A value : {i \in DOMAIN array' : array'[i] = value} = Having(array', value)
      BY <3>1
    <3>3. \A value : {i \in DOMAIN given' : given'[i] = value} = Having(given, value)
      OBVIOUS
    <3> HIDE DEF Having
    <3>4. QED
      BY <3>2, <3>3 DEF Permuted
  <2>3. QED
    BY <2>1, <2>2
<1> DEFINE S == Having(array', value)
           T == Having(array, value)
           f == [i \in S |-> q[i]]
<1>3. IsFiniteSet(S)
  <2>1. IsFiniteSet(DOMAIN given)
    BY <1>1, FS_Interval
  <2>2. S \subseteq DOMAIN given
    OBVIOUS
  <2> HIDE DEF S
  <2>3. QED
    BY <2>1, <2>2, FS_Subset
<1>4. f \in Bijection(S, T)
  <2>1. f \in [S -> T]
    BY <1>1
  <2>2. \A i, j \in S : f[i] = f[j] => i = j
    OBVIOUS
  <2>3. \A k \in T : \E i \in S : f[i] = k
    BY <1>1
  <2> HIDE DEF S, T, f
  <2>4. f \in Injection(S, T) /\ f \in Surjection(S, T)
    BY <2>1, <2>2, <2>3 DEF Injection, Surjection, IsInjective
  <2>5. QED
    BY <2>4 DEF Bijection
<1> HIDE DEF S, T, f
<1>5. Cardinality(T) = Cardinality(S)
  BY <1>3, <1>4, FS_Bijection DEF ExistsBijection
<1>6. QED
  BY <1>5 DEF S, T

(* The elements of the segment in progress are rearranged, the others      *)
(* stay: only the order within the segment changes.                        *)
LEMMA SegmentRearranged ==
  ASSUME SortTypeOK, SortedButForCalls, Permuted, stack # <<>>, given' = given,
         NEW q \in [DOMAIN given -> DOMAIN given],
         \A i \in DOMAIN given : \E j \in DOMAIN given : q[j] = i,
         \A i, j \in DOMAIN given : q[i] = q[j] => i = j,
         \A i \in DOMAIN given :
           IF First <= i /\ i < First + Extent
             THEN First <= q[i] /\ q[i] < First + Extent ELSE q[i] = i,
         array' = [i \in DOMAIN given |-> array[q[i]]]
  PROVE  /\ array' \in [1 .. Len(given) -> Numbers] /\ Permuted'
         /\ \A i, j \in DOMAIN given : i < j =>
              \/ First <= i /\ j < First + Extent
              \/ array'[i] <= array'[j]
              \/ \E k \in 2 .. Len(stack) : stack[k][1] <= i /\ j < stack[k][2]
<1>1. /\ Len(given) \in Nat /\ array \in [1 .. Len(given) -> Numbers]
      /\ DOMAIN given = 1 .. Len(given) /\ DOMAIN array = 1 .. Len(given)
  BY DEF SortTypeOK
<1>2. Permuted'
  BY Rearranged
<1>3. array' \in [1 .. Len(given) -> Numbers]
  BY <1>1
<1> DEFINE s == First
           e == First + Extent
           Outside(i, j) == \E k \in 2 .. Len(stack) : stack[k][1] <= i /\ j < stack[k][2]
<1>4. s \in Nat /\ e \in Nat /\ s = stack[1][1] /\ e = stack[1][2] /\ Len(stack) \in Nat
  BY SegmentPlaces
<1>5. \A k \in 2 .. Len(stack) : stack[k][1] \in Nat /\ e <= stack[k][1] /\ stack[k][2] \in Nat
  <2> SUFFICES ASSUME NEW k \in 2 .. Len(stack)
               PROVE  stack[k][1] \in Nat /\ e <= stack[k][1] /\ stack[k][2] \in Nat
    OBVIOUS
  <2>1. k \in DOMAIN stack /\ 1 \in DOMAIN stack /\ 1 < k
    BY SegmentPlaces
  <2>2. stack[k] \in (1 .. Len(given) + 1) \X (1 .. Len(given) + 1)
    BY <2>1 DEF SortTypeOK
  <2>3. stack[1][2] <= stack[k][1]
    BY <2>1 DEF SortTypeOK
  <2>4. Len(given) \in Nat
    BY SegmentPlaces
  <2>5. QED
    BY <1>4, <2>2, <2>3, <2>4
<1>6. ASSUME NEW i \in DOMAIN given, NEW j \in DOMAIN given, i < j
      PROVE  array[i] <= array[j] \/ (s <= i /\ j < e) \/ Outside(i, j)
  <2>1. array[i] <= array[j] \/ InOneCall(i, j)
    BY <1>1, <1>6 DEF SortedButForCalls, SortTypeOK
  <2>2. ASSUME InOneCall(i, j) PROVE (s <= i /\ j < e) \/ Outside(i, j)
    <3>1. PICK k \in DOMAIN stack : stack[k][1] <= i /\ j < stack[k][2]
      BY <2>2 DEF InOneCall
    <3>2. k = 1 \/ k \in 2 .. Len(stack)
      BY <3>1, SegmentPlaces
    <3>3. QED
      BY <1>4, <3>1, <3>2
  <2>3. QED
    BY <2>1, <2>2
<1> HIDE DEF s, e
<1>7. ASSUME NEW i \in DOMAIN given, NEW j \in DOMAIN given, i < j, ~(s <= i /\ j < e)
      PROVE  array'[i] <= array'[j] \/ Outside(i, j)
  <2>1. i \in Nat /\ j \in Nat
    BY <1>1
  <2>2. CASE s <= i /\ i < e
    <3>1. s <= q[i] /\ q[i] < e /\ q[j] = j /\ e <= j
      BY <1>4, <1>7, <2>1, <2>2 DEF s, e
    <3>2. q[i] \in Nat /\ q[i] \in DOMAIN given /\ q[i] < j
      BY <1>1, <1>4, <2>1, <3>1
    <3>3. array[q[i]] <= array[j] \/ Outside(q[i], j)
      BY <1>4, <1>6, <2>1, <3>1, <3>2
    <3>4. ~Outside(q[i], j)
      BY <1>4, <1>5, <3>1, <3>2
    <3>5. QED
      BY <3>1, <3>3, <3>4
  <2>3. CASE s <= j /\ j < e
    <3>1. s <= q[j] /\ q[j] < e /\ q[i] = i /\ i < s
      BY <1>4, <1>7, <2>1, <2>3 DEF s, e
    <3>2. q[j] \in Nat /\ q[j] \in DOMAIN given /\ i < q[j]
      BY <1>1, <1>4, <2>1, <3>1
    <3>3. array[i] <= array[q[j]] \/ Outside(i, q[j])
      BY <1>4, <1>6, <2>1, <3>1, <3>2
    <3>4. ~Outside(i, q[j])
      BY <1>4, <1>5, <2>1, <3>1, <3>2
    <3>5. QED
      BY <3>1, <3>3, <3>4
  <2>4. CASE ~(s <= i /\ i < e) /\ ~(s <= j /\ j < e)
    BY <1>4, <1>6, <1>7, <2>1, <2>4 DEF s, e
  <2>5. QED
    BY <2>2, <2>3, <2>4
<1>8. QED
  BY <1>2, <1>3, <1>7 DEF s, e

(* Two elements of the segment are exchanged.                              *)
LEMMA Exchanged ==
  ASSUME SortTypeOK, SortedButForCalls, Permuted, stack # <<>>, given' = given,
         NEW x \in 0 .. Extent - 1, NEW y \in 0 .. Extent - 1, array' = Swapped(x, y)
  PROVE  /\ array' \in [1 .. Len(given) -> Numbers] /\ Permuted'
         /\ \A i, j \in DOMAIN given : i < j =>
              \/ First <= i /\ j < First + Extent
              \/ array'[i] <= array'[j]
              \/ \E k \in 2 .. Len(stack) : stack[k][1] <= i /\ j < stack[k][2]
         /\ \A i \in 0 .. Extent - 1 :
              array'[First + i] = IF i = y THEN At(x) ELSE IF i = x THEN At(y) ELSE At(i)
<1> DEFINE a == First + x
           b == First + y
           q == [i \in DOMAIN given |-> IF i = b THEN a ELSE IF i = a THEN b ELSE i]
<1>1. /\ Len(given) \in Nat /\ First \in Nat /\ Extent \in Nat
      /\ DOMAIN array = DOMAIN given /\ DOMAIN given = 1 .. Len(given)
      /\ \A i \in 0 .. Extent - 1 : First + i \in 1 .. Len(given)
  BY SegmentPlaces
<1>2. a \in DOMAIN given /\ b \in DOMAIN given
        /\ First <= a /\ a < First + Extent /\ First <= b /\ b < First + Extent
  BY <1>1
<1>3. array' = [array EXCEPT ![a] = array[b], ![b] = array[a]]
  BY DEF Swapped, At
<1>4. \A i \in 0 .. Extent - 1 : /\ First + i \in DOMAIN given
                                 /\ First + i = b <=> i = y
                                 /\ First + i = a <=> i = x
  BY <1>1
<1>5. At(x) = array[a] /\ At(y) = array[b] /\ \A i : At(i) = array[First + i]
  BY DEF At
<1> HIDE DEF a, b
<1>6. q \in [DOMAIN given -> DOMAIN given]
  BY <1>2
<1>7. \A i \in DOMAIN given : q[q[i]] = i
  BY <1>2
<1>8. array' = [i \in DOMAIN given |-> array[q[i]]]
  BY <1>1, <1>2, <1>3
<1>9. \A i \in DOMAIN given :
        IF First <= i /\ i < First + Extent
          THEN First <= q[i] /\ q[i] < First + Extent ELSE q[i] = i
  BY <1>2
<1>10. \A i \in DOMAIN given :
         array'[i] = IF i = b THEN array[a] ELSE IF i = a THEN array[b] ELSE array[i]
  BY <1>2, <1>8
<1> HIDE DEF q
<1>11. /\ \A i \in DOMAIN given : \E j \in DOMAIN given : q[j] = i
       /\ \A i, j \in DOMAIN given : q[i] = q[j] => i = j
  BY <1>6, <1>7
<1>12. /\ array' \in [1 .. Len(given) -> Numbers] /\ Permuted'
       /\ \A i, j \in DOMAIN given : i < j =>
            \/ First <= i /\ j < First + Extent
            \/ array'[i] <= array'[j]
            \/ \E k \in 2 .. Len(stack) : stack[k][1] <= i /\ j < stack[k][2]
  BY <1>6, <1>8, <1>9, <1>11, SegmentRearranged
<1>13. \A i \in 0 .. Extent - 1 :
         array'[First + i] = IF i = y THEN At(x) ELSE IF i = x THEN At(y) ELSE At(i)
  BY <1>4, <1>5, <1>10
<1>14. QED
  BY <1>12, <1>13

-----------------------------------------------------------------------------
(* A step that changes neither the array nor the stack keeps what is said  *)
(* of them.                                                                *)
LEMMA SameArray ==
  ASSUME SortInv, UNCHANGED <<given, array, stack>>,
         stage' \in {"sort", "left", "right", "swap", "place", "insert"},
         left' \in Nat, right' \in Nat, index' \in Nat
  PROVE  /\ SortTypeOK' /\ SortedButForCalls' /\ Permuted'
         /\ First' = First /\ Extent' = Extent /\ Pivot' = Pivot /\ \A i : At(i)' = At(i)
<1>1. SortTypeOK /\ SortedButForCalls /\ Permuted
  BY DEF SortInv
<1>2. SortTypeOK'
  BY <1>1 DEF SortTypeOK
<1>3. SortedButForCalls'
  BY <1>1 DEF SortedButForCalls, InOneCall
<1>4. Permuted'
  BY <1>1 DEF Permuted
<1>5. First' = First /\ Extent' = Extent /\ Pivot' = Pivot /\ \A i : At(i)' = At(i)
  BY DEF First, Extent, Pivot, At
<1>6. QED
  BY <1>2, <1>3, <1>4, <1>5

(* A segment is returned from when no two elements of it are out of order. *)
LEMMA Returned ==
  ASSUME SortInv, stack # <<>>, UNCHANGED <<given, array, left, right>>, index' \in Nat,
         stage' = "sort", stack' = Tail(stack),
         \A i, j \in 0 .. Extent - 1 : i < j => At(i) <= At(j)
  PROVE  SortInv'
<1> USE DEF SortInv
<1>1. /\ DOMAIN stack' = 1 .. Len(stack) - 1 /\ Len(stack) \in Nat \ {0}
      /\ DOMAIN stack = 1 .. Len(stack)
      /\ \A k \in DOMAIN stack' : stack'[k] = stack[k + 1] /\ k + 1 \in DOMAIN stack
      /\ stack' \in Seq((1 .. Len(given) + 1) \X (1 .. Len(given) + 1))
  BY DEF SortTypeOK
<1>2. SortTypeOK'
  <2>1. \A k \in DOMAIN stack' : stack'[k][1] <= stack'[k][2]
    BY <1>1 DEF SortTypeOK
  <2>2. \A k, l \in DOMAIN stack' : k < l => stack'[k][2] <= stack'[l][1]
    <3> SUFFICES ASSUME NEW k \in DOMAIN stack', NEW l \in DOMAIN stack', k < l
                 PROVE  stack[k + 1][2] <= stack[l + 1][1]
      BY <1>1
    <3>1. k + 1 \in DOMAIN stack /\ l + 1 \in DOMAIN stack /\ k + 1 < l + 1
      BY <1>1
    <3>2. QED
      BY <3>1 DEF SortTypeOK
  <2>3. QED
    BY <1>1, <2>1, <2>2 DEF SortTypeOK
<1>3. SortedButForCalls'
  <2> SUFFICES ASSUME NEW i \in DOMAIN array, NEW j \in DOMAIN array, i < j
               PROVE  array[i] <= array[j] \/ InOneCall(i, j)'
    BY DEF SortedButForCalls
  <2>1. CASE array[i] <= array[j]
    BY <2>1
  <2>2. CASE InOneCall(i, j)
    <3>1. PICK k \in DOMAIN stack : stack[k][1] <= i /\ j < stack[k][2]
      BY <2>2 DEF InOneCall
    <3>2. CASE k = 1
      <4>1. /\ First \in Nat /\ Extent \in Nat /\ First = stack[1][1]
            /\ First + Extent = stack[1][2] /\ i \in Nat /\ j \in Nat
        BY SegmentPlaces
      <4>2. i - First \in 0 .. Extent - 1 /\ j - First \in 0 .. Extent - 1
              /\ i - First < j - First
        BY <3>1, <3>2, <4>1
      <4>3. At(i - First) <= At(j - First)
        BY <4>2
      <4>4. At(i - First) = array[i] /\ At(j - First) = array[j]
        <5>1. First + (i - First) = i /\ First + (j - First) = j
          BY <4>1
        <5>2. QED
          BY <5>1 DEF At
      <4>5. QED
        BY <4>3, <4>4
    <3>3. CASE k # 1
      <4>1. k - 1 \in DOMAIN stack' /\ stack'[k - 1] = stack[k]
        BY <1>1, <3>1, <3>3
      <4>2. QED
        BY <3>1, <4>1 DEF InOneCall
    <3>4. QED
      BY <3>2, <3>3
  <2>3. QED
    BY <2>1, <2>2 DEF SortedButForCalls
<1>4. Permuted'
  BY DEF Permuted
<1>5. QED
  BY <1>2, <1>3, <1>4 DEF Partitioning, PartitionMeets, Inserting

(* A segment of at most one element is sorted.                             *)
LEMMA ReturnSorts ==
  ASSUME SortInv, ReturnShort
  PROVE  SortInv'
<1>1. stack # <<>> /\ Extent <= 1 /\ SortTypeOK
  BY DEF ReturnShort, SortInv
<1>2. Extent \in Nat
  BY <1>1, SegmentPlaces
<1>3. \A i, j \in 0 .. Extent - 1 : ~(i < j)
  BY <1>1, <1>2
<1>4. QED
  BY <1>1, <1>3, Returned DEF ReturnShort, SortInv, SortTypeOK

(* The two loops start with nothing passed.                                *)
LEMMA CallsSort ==
  ASSUME SortInv, CallInsertionSort \/ CallPartition
  PROVE  SortInv'
<1>1. SortTypeOK /\ stack # <<>> /\ UNCHANGED <<given, array, stack>> /\ Extent > 1
  BY DEF SortInv, CallInsertionSort, CallPartition
<1>2. Extent \in Nat
  BY <1>1, SegmentPlaces
<1>3. \/ stage' = "insert" /\ index' = 1 /\ left' = left /\ right' = right
      \/ stage' = "left" /\ left' = 1 /\ right' = Extent - 1 /\ index' = index
  BY DEF CallInsertionSort, CallPartition, LastIndex
<1>4. /\ SortTypeOK' /\ SortedButForCalls' /\ Permuted'
      /\ First' = First /\ Extent' = Extent /\ Pivot' = Pivot /\ \A i : At(i)' = At(i)
  BY <1>1, <1>2, <1>3, SameArray DEF SortTypeOK
<1>5. Partitioning' /\ Inserting' /\ PartitionMeets'
  BY <1>1, <1>2, <1>3, <1>4 DEF Partitioning, Inserting, PartitionMeets
<1>6. QED
  BY <1>4, <1>5 DEF SortInv

(* The left index passes smaller elements only, and so not right + 1.      *)
LEMMA ScanLeftSorts ==
  ASSUME SortInv, ScanLeft
  PROVE  SortInv'
<1>1. /\ SortTypeOK /\ stage = "left" /\ UNCHANGED <<given, array, stack, right, index>>
      /\ \/ left < Extent /\ At(left) < Pivot /\ left' = left + 1 /\ stage' = "left"
         \/ ~(left < Extent /\ At(left) < Pivot) /\ left' = left /\ stage' = "right"
  BY DEF SortInv, ScanLeft, MayStayLeft
<1>2. /\ stack # <<>> /\ left \in 1 .. Extent /\ right \in left - 1 .. Extent - 1
      /\ \A i \in 1 .. left - 1 : At(i) < Pivot
      /\ \A i \in right + 1 .. Extent - 1 : At(i) >= Pivot
  BY <1>1 DEF SortInv, Partitioning
<1>3. Extent \in Nat /\ Pivot \in Nat /\ \A i \in 0 .. Extent - 1 : At(i) \in Nat
  BY <1>1, <1>2, SegmentPlaces DEF Pivot
<1>4. /\ SortTypeOK' /\ SortedButForCalls' /\ Permuted'
      /\ First' = First /\ Extent' = Extent /\ Pivot' = Pivot /\ \A i : At(i)' = At(i)
  BY <1>1, SameArray DEF SortTypeOK
<1>5. CASE left < Extent /\ At(left) < Pivot
  <2>1. left' = left + 1 /\ stage' = "left" /\ right' = right
    BY <1>1, <1>5
  <2>2. right >= left
    BY <1>2, <1>3, <1>5
  <2>3. \A i \in 1 .. left : At(i) < Pivot
    BY <1>2, <1>5
  <2>4. Partitioning'
    BY <1>1, <1>2, <1>3, <1>4, <1>5, <2>1, <2>2, <2>3 DEF Partitioning
  <2>5. QED
    BY <1>4, <2>1, <2>4 DEF SortInv, Inserting, PartitionMeets
<1>6. CASE ~(left < Extent /\ At(left) < Pivot)
  BY <1>1, <1>2, <1>3, <1>4, <1>6 DEF Partitioning, SortInv, Inserting, PartitionMeets
<1>7. QED
  BY <1>5, <1>6

(* The right index passes no element that the left one passed; when both   *)
(* have stopped, they have elements to exchange or have met.               *)
LEMMA ScanRightSorts ==
  ASSUME SortInv, ScanRight
  PROVE  SortInv'
<1>1. /\ SortTypeOK /\ stage = "right" /\ UNCHANGED <<given, array, stack, left, index>>
      /\ \/ right > 0 /\ At(right) >= Pivot /\ right' = right - 1 /\ stage' = "right"
         \/ /\ ~(right > 0 /\ At(right) >= Pivot) /\ right' = right
            /\ stage' = IF left >= right THEN "place" ELSE "swap"
  BY DEF SortInv, ScanRight, MayStayRight
<1>2. /\ stack # <<>> /\ left \in 1 .. Extent /\ right \in left - 1 .. Extent - 1
      /\ \A i \in 1 .. left - 1 : At(i) < Pivot
      /\ \A i \in right + 1 .. Extent - 1 : At(i) >= Pivot
      /\ left = Extent \/ At(left) >= Pivot
  BY <1>1 DEF SortInv, Partitioning
<1>3. Extent \in Nat /\ Pivot \in Nat /\ \A i \in 0 .. Extent - 1 : At(i) \in Nat
  BY <1>1, <1>2, SegmentPlaces DEF Pivot
<1>4. /\ SortTypeOK' /\ SortedButForCalls' /\ Permuted'
      /\ First' = First /\ Extent' = Extent /\ Pivot' = Pivot /\ \A i : At(i)' = At(i)
  BY <1>1, SameArray DEF SortTypeOK
<1>5. CASE right > 0 /\ At(right) >= Pivot
  <2>1. right' = right - 1 /\ stage' = "right" /\ left' = left
    BY <1>1, <1>5
  <2>2. right >= left
    BY <1>2, <1>3, <1>5
  <2>3. \A i \in right .. Extent - 1 : At(i) >= Pivot
    BY <1>2, <1>3, <1>5
  <2>4. Partitioning'
    BY <1>1, <1>2, <1>3, <1>4, <2>1, <2>2, <2>3 DEF Partitioning
  <2>5. QED
    BY <1>4, <2>1, <2>4 DEF SortInv, Inserting, PartitionMeets
<1>6. CASE ~(right > 0 /\ At(right) >= Pivot)
  <2>1. right' = right /\ left' = left /\ stage' = IF left >= right THEN "place" ELSE "swap"
    BY <1>1, <1>6
  <2>2. right > 0 => At(right) < Pivot
    BY <1>2, <1>3, <1>6
  <2>3. left >= right => left - 1 = right
    BY <1>2, <1>3, <2>2
  <2>4. left < right => right > 0 /\ left # Extent
    BY <1>2, <1>3
  <2>5. Partitioning'
    BY <1>1, <1>2, <1>3, <1>4, <2>1, <2>2, <2>4 DEF Partitioning
  <2>6. PartitionMeets'
    <3>1. ASSUME stage' = "place" PROVE left - 1 = right
      BY <1>2, <1>3, <2>1, <2>3, <3>1
    <3>2. QED
      BY <1>2, <1>4, <2>1, <3>1 DEF PartitionMeets
  <2>7. Inserting'
    BY <2>1 DEF Inserting
  <2>8. QED
    BY <1>4, <2>5, <2>6, <2>7 DEF SortInv
<1>7. QED
  BY <1>5, <1>6

(* The exchanged elements are then on the right sides.                     *)
LEMMA SwapSorts ==
  ASSUME SortInv, Swap
  PROVE  SortInv'
<1>1. /\ SortTypeOK /\ SortedButForCalls /\ Permuted
      /\ stage = "swap" /\ stage' = "left" /\ UNCHANGED <<given, stack, index>>
      /\ array' = Swapped(left, right) /\ left' = left + 1 /\ right' = right - 1
  BY DEF SortInv, Swap
<1>2. /\ stack # <<>> /\ left \in 1 .. Extent /\ right \in left - 1 .. Extent - 1
      /\ \A i \in 1 .. left - 1 : At(i) < Pivot
      /\ \A i \in right + 1 .. Extent - 1 : At(i) >= Pivot
      /\ left < right /\ At(left) >= Pivot /\ At(right) < Pivot
  BY <1>1 DEF SortInv, Partitioning
<1>3. /\ Len(given) \in Nat /\ Extent \in Nat /\ First \in Nat /\ First = stack[1][1]
      /\ First + Extent = stack[1][2] /\ 1 \in DOMAIN stack /\ DOMAIN given = 1 .. Len(given)
      /\ DOMAIN stack = 1 .. Len(stack)
  BY <1>1, <1>2, SegmentPlaces
<1>4. left \in 0 .. Extent - 1 /\ right \in 0 .. Extent - 1
  BY <1>2, <1>3
<1>5. /\ array' \in [1 .. Len(given) -> Numbers] /\ Permuted'
      /\ \A i, j \in DOMAIN given : i < j =>
           \/ First <= i /\ j < First + Extent
           \/ array'[i] <= array'[j]
           \/ \E k \in 2 .. Len(stack) : stack[k][1] <= i /\ j < stack[k][2]
      /\ \A i \in 0 .. Extent - 1 :
           array'[First + i] =
             IF i = right THEN At(left) ELSE IF i = left THEN At(right) ELSE At(i)
  BY <1>1, <1>2, <1>4, Exchanged
<1>6. First' = First /\ Extent' = Extent /\ \A i : At(i)' = array'[First + i]
  BY <1>1 DEF First, Extent, At
<1>7. Pivot' = Pivot
  BY <1>2, <1>3, <1>5, <1>6 DEF Pivot
<1>8. SortTypeOK'
  BY <1>1, <1>2, <1>3, <1>5 DEF SortTypeOK
<1>9. SortedButForCalls'
  <2> SUFFICES ASSUME NEW i \in DOMAIN given, NEW j \in DOMAIN given, i < j
               PROVE  array'[i] <= array'[j] \/ InOneCall(i, j)'
    BY <1>3, <1>5 DEF SortedButForCalls
  <2>1. InOneCall(i, j)' <=> \E k \in DOMAIN stack : stack[k][1] <= i /\ j < stack[k][2]
    BY <1>1 DEF InOneCall
  <2>2. \A k \in 2 .. Len(stack) : k \in DOMAIN stack
    BY <1>3
  <2>3. QED
    BY <1>3, <1>5, <2>1, <2>2
<1>10. Partitioning'
  <2>1. ASSUME NEW i \in 1 .. left PROVE At(i)' < Pivot
    <3>1. i \in 0 .. Extent - 1 /\ i # right /\ (i # left => i \in 1 .. left - 1)
      BY <1>2, <1>3
    <3>2. At(i)' = IF i = left THEN At(right) ELSE At(i)
      BY <1>5, <1>6, <3>1
    <3>3. QED
      BY <1>2, <3>1, <3>2
  <2>2. ASSUME NEW i \in right .. Extent - 1 PROVE At(i)' >= Pivot
    BY <1>2, <1>3, <1>5, <1>6
  <2>3. /\ left + 1 \in 1 .. Extent /\ right - 1 \in left .. Extent - 1
        /\ left + 1 - 1 = left /\ right - 1 + 1 = right
    BY <1>2, <1>3
  <2>4. QED
    BY <1>1, <1>2, <1>6, <1>7, <2>1, <2>2, <2>3 DEF Partitioning
<1>11. PartitionMeets' /\ Inserting'
  BY <1>1 DEF PartitionMeets, Inserting
<1>12. QED
  BY <1>5, <1>8, <1>9, <1>10, <1>11 DEF SortInv

(* The segment splits into the two parts and the pivot between them.       *)
LEMMA PlacePivotSorts ==
  ASSUME SortInv, PlacePivot
  PROVE  SortInv'
<1>1. /\ SortTypeOK /\ SortedButForCalls /\ Permuted
      /\ stage = "place" /\ stage' = "sort" /\ UNCHANGED <<given, left, right, index>>
      /\ array' = Swapped(0, right)
      /\ stack' = << <<First, First + right>>, <<First + right + 1, First + Extent>> >>
                    \o Tail(stack)
  BY DEF SortInv, PlacePivot, RightPart
<1>2. /\ stack # <<>> /\ left \in 1 .. Extent /\ right \in left - 1 .. Extent - 1
      /\ \A i \in 1 .. right : At(i) < Pivot
      /\ \A i \in right + 1 .. Extent - 1 : At(i) >= Pivot
  BY <1>1 DEF SortInv, Partitioning, PartitionMeets
<1> DEFINE n == Len(given)
           s == First
           e == First + Extent
           m == First + right
           L == Len(stack)
<1>3. /\ n \in Nat /\ Extent \in Nat /\ s \in 1 .. n + 1 /\ s = stack[1][1]
      /\ e = stack[1][2] /\ e \in 1 .. n + 1 /\ 1 \in DOMAIN stack /\ DOMAIN given = 1 .. n
      /\ DOMAIN stack = 1 .. Len(stack) /\ Len(stack) \in Nat
      /\ \A i \in 0 .. Extent - 1 : At(i) \in Nat
  BY <1>1, <1>2, SegmentPlaces
<1>4. right \in 0 .. Extent - 1 /\ 0 \in 0 .. Extent - 1
  BY <1>2, <1>3
<1>5. /\ array' \in [1 .. n -> Numbers] /\ Permuted'
      /\ \A i, j \in DOMAIN given : i < j =>
           \/ s <= i /\ j < e
           \/ array'[i] <= array'[j]
           \/ \E k \in 2 .. Len(stack) : stack[k][1] <= i /\ j < stack[k][2]
      /\ \A i \in 0 .. Extent - 1 :
           array'[First + i] =
             IF i = right THEN At(0) ELSE IF i = 0 THEN At(right) ELSE At(i)
  BY <1>1, <1>2, <1>4, Exchanged
<1>6. s \in Nat /\ e \in Nat /\ m \in Nat /\ s <= m /\ m < e
  BY <1>3, <1>4
<1> HIDE DEF L
<1>7. /\ L \in Nat \ {0} /\ L = Len(stack) /\ DOMAIN stack' = 1 .. L + 1
      /\ stack'[1] = <<s, m>> /\ stack'[2] = <<m + 1, e>>
      /\ \A k \in 3 .. L + 1 : stack'[k] = stack[k - 1]
      /\ stack' \in Seq((1 .. n + 1) \X (1 .. n + 1))
  <2> DEFINE P == (1 .. n + 1) \X (1 .. n + 1)
             two == << <<s, m>>, <<m + 1, e>> >>
             rest == Tail(stack)
  <2>1. <<s, m>> \in P /\ <<m + 1, e>> \in P
    BY <1>3, <1>6
  <2>2. stack \in Seq(P) /\ stack' = two \o rest
    BY <1>1 DEF SortTypeOK
  <2>3. L \in Nat \ {0} /\ L = Len(stack)
    BY <1>2, <1>3, <2>2 DEF L
  <2> HIDE DEF P, s, m, e
  <2>4. two \in Seq(P) /\ Len(two) = 2 /\ two[1] = <<s, m>> /\ two[2] = <<m + 1, e>>
    BY <2>1
  <2>5. /\ rest \in Seq(P) /\ Len(rest) = L - 1
        /\ \A k \in 1 .. L - 1 : rest[k] = stack[k + 1]
    BY <1>2, <2>3, <2>2
  <2> HIDE DEF two, rest
  <2>6. /\ stack' \in Seq(P) /\ Len(stack') = L + 1
        /\ \A k \in 1 .. L + 1 : stack'[k] = IF k <= 2 THEN two[k] ELSE rest[k - 2]
    <3>1. Len(two) + Len(rest) = L + 1
      BY <2>3, <2>4, <2>5
    <3>2. /\ two \o rest \in Seq(P) /\ Len(two \o rest) = L + 1
          /\ \A k \in 1 .. L + 1 :
               (two \o rest)[k] = IF k <= 2 THEN two[k] ELSE rest[k - 2]
      <4>1. two \in Seq(P) /\ rest \in Seq(P)
        BY <2>4, <2>5
      <4>2. /\ two \o rest \in Seq(P) /\ Len(two \o rest) = Len(two) + Len(rest)
            /\ \A k \in 1 .. Len(two) + Len(rest) :
                 (two \o rest)[k] = IF k <= Len(two) THEN two[k] ELSE rest[k - Len(two)]
        BY ONLY <4>1, ConcatProperties, Zenon
      <4>3. QED
        BY <2>4, <3>1, <4>2
    <3>3. QED
      BY <2>2, <3>2
  <2>7. DOMAIN stack' = 1 .. L + 1
    BY <2>6
  <2>8. \A k \in 3 .. L + 1 : stack'[k] = stack[k - 1]
    <3> SUFFICES ASSUME NEW k \in 3 .. L + 1 PROVE stack'[k] = stack[k - 1]
      OBVIOUS
    <3>1. k - 2 \in 1 .. L - 1 /\ k \in 1 .. L + 1 /\ k - 2 + 1 = k - 1 /\ ~(k <= 2)
      BY <2>3
    <3>2. QED
      BY <2>5, <2>6, <3>1
  <2>9. 1 \in 1 .. L + 1 /\ 2 \in 1 .. L + 1
    BY <2>3
  <2>10. stack'[1] = <<s, m>> /\ stack'[2] = <<m + 1, e>>
    BY <2>4, <2>6, <2>9
  <2>11. QED
    BY <2>3, <2>6, <2>7, <2>8, <2>10 DEF P
<1>8. \A k \in 2 .. L :
        /\ k \in DOMAIN stack /\ stack[k][1] \in Nat /\ stack[k][2] \in Nat
        /\ e <= stack[k][1] /\ stack[k][1] <= stack[k][2]
        /\ k + 1 \in DOMAIN stack' /\ stack'[k + 1] = stack[k]
  <2> SUFFICES ASSUME NEW k \in 2 .. L
               PROVE  /\ k \in DOMAIN stack /\ stack[k][1] \in Nat /\ stack[k][2] \in Nat
                      /\ e <= stack[k][1] /\ stack[k][1] <= stack[k][2]
                      /\ k + 1 \in DOMAIN stack' /\ stack'[k + 1] = stack[k]
    OBVIOUS
  <2>1. k \in DOMAIN stack /\ 1 < k
    BY <1>3, <1>7
  <2>2. stack[k] \in (1 .. n + 1) \X (1 .. n + 1)
    BY <1>1, <2>1 DEF SortTypeOK
  <2>3. stack[k][1] <= stack[k][2] /\ stack[1][2] <= stack[k][1]
    BY <1>1, <1>3, <2>1 DEF SortTypeOK
  <2>4. k + 1 \in 3 .. L + 1 /\ k + 1 - 1 = k /\ k + 1 \in 1 .. L + 1
    BY <1>7
  <2>5. k + 1 \in DOMAIN stack' /\ stack'[k + 1] = stack[k]
    BY <1>7, <2>4
  <2>6. stack[k][1] \in Nat /\ stack[k][2] \in Nat
    BY <1>3, <2>2
  <2>7. QED
    BY <1>3, <2>1, <2>3, <2>5, <2>6
<1>9. \A k \in DOMAIN stack' :
        \/ k = 1 /\ stack'[k] = <<s, m>>
        \/ k = 2 /\ stack'[k] = <<m + 1, e>>
        \/ k - 1 \in 2 .. L /\ stack'[k] = stack[k - 1]
  <2> SUFFICES ASSUME NEW k \in 1 .. L + 1, k # 1, k # 2
               PROVE  k - 1 \in 2 .. L /\ stack'[k] = stack[k - 1]
    BY <1>7
  <2>1. k \in 3 .. L + 1 /\ k - 1 \in 2 .. L
    BY <1>7
  <2>2. QED
    BY <1>7, <2>1
<1>10. s = First /\ e = First + Extent /\ m = First + right
  OBVIOUS
<1>11. \A k \in DOMAIN stack' : k \in Nat /\ k >= 1
  BY <1>7
<1> HIDE DEF s, e, m, n
<1>12. \A k \in DOMAIN stack' : stack'[k][1] <= stack'[k][2]
  <2> SUFFICES ASSUME NEW k \in DOMAIN stack' PROVE stack'[k][1] <= stack'[k][2]
    OBVIOUS
  <2>1. CASE k = 1
    BY <1>6, <1>7, <2>1
  <2>2. CASE k = 2
    BY <1>6, <1>7, <2>2
  <2>3. CASE k - 1 \in 2 .. L /\ stack'[k] = stack[k - 1]
    BY <1>8, <2>3
  <2>4. QED
    BY <1>9, <2>1, <2>2, <2>3
<1>13. \A k, l \in DOMAIN stack' : k < l => stack'[k][2] <= stack'[l][1]
  <2> SUFFICES ASSUME NEW k \in DOMAIN stack', NEW l \in DOMAIN stack', k < l
               PROVE  stack'[k][2] <= stack'[l][1]
    OBVIOUS
  <2>1. k \in Nat /\ l \in Nat /\ l # 1 /\ (l = 2 => k = 1)
    BY <1>11
  <2>2. CASE l = 2
    BY <1>6, <1>7, <2>1, <2>2
  <2>3. CASE l - 1 \in 2 .. L /\ stack'[l] = stack[l - 1]
    <3>1. e <= stack[l - 1][1] /\ stack[l - 1][1] \in Nat
      BY <1>8, <2>3
    <3>2. CASE k = 1
      <4>1. stack'[k] = <<s, m>>
        BY <1>7, <3>2
      <4>2. QED
        BY <1>6, <2>3, <3>1, <4>1
    <3>3. CASE k = 2
      <4>1. stack'[k] = <<m + 1, e>>
        BY <1>7, <3>3
      <4>2. QED
        BY <2>3, <3>1, <4>1
    <3>4. CASE k - 1 \in 2 .. L /\ stack'[k] = stack[k - 1]
      <4>1. k - 1 \in DOMAIN stack /\ l - 1 \in DOMAIN stack /\ k - 1 < l - 1
        BY <1>8, <2>1, <2>3, <3>4
      <4>2. stack[k - 1][2] <= stack[l - 1][1]
        BY <1>1, <4>1 DEF SortTypeOK
      <4>3. QED
        BY <2>3, <3>4, <4>2
    <3>5. QED
      BY <1>9, <3>2, <3>3, <3>4
  <2>4. QED
    BY <1>9, <2>1, <2>2, <2>3
<1>14. SortTypeOK'
  BY <1>1, <1>5, <1>7, <1>12, <1>13 DEF SortTypeOK, n
<1>15. ASSUME NEW i \in DOMAIN given, NEW j \in DOMAIN given, i < j, s <= i, j < e
       PROVE  array'[i] <= array'[j] \/ InOneCall(i, j)'
  <2>1. i \in Nat /\ j \in Nat
    BY <1>3
  <2>2. CASE j < m
    <3>1. stack'[1][1] <= i /\ j < stack'[1][2] /\ 1 \in DOMAIN stack'
      BY <1>6, <1>7, <1>15, <2>1, <2>2
    <3>2. QED
      BY <3>1 DEF InOneCall
  <2>3. CASE m < i
    <3>1. stack'[2][1] <= i /\ j < stack'[2][2] /\ 2 \in DOMAIN stack'
      BY <1>6, <1>7, <1>15, <2>1, <2>3
    <3>2. QED
      BY <3>1 DEF InOneCall
  <2>4. CASE i <= m /\ m <= j
    <3> DEFINE x == i - s
               y == j - s
    <3>1. /\ x \in 0 .. Extent - 1 /\ y \in 0 .. Extent - 1 /\ s + x = i /\ s + y = j
          /\ x < y /\ x <= right /\ right <= y
      <4>1. First \in Nat /\ Extent \in Nat /\ right \in Nat
        BY <1>3, <1>4, <1>6, <1>10
      <4>2. QED
        BY <1>15, <1>10, <2>1, <2>4, <4>1
    <3> HIDE DEF x, y
    <3>2. array'[i] = IF x = right THEN At(0) ELSE IF x = 0 THEN At(right) ELSE At(x)
      BY <1>5, <3>1 DEF s
    <3>3. array'[j] = IF y = right THEN At(0) ELSE IF y = 0 THEN At(right) ELSE At(y)
      BY <1>5, <3>1 DEF s
    <3>4. At(0) \in Nat /\ Pivot = At(0)
      BY <1>3, <1>4 DEF Pivot
    <3>5. array'[i] \in Nat /\ array'[i] <= At(0)
      <4>1. CASE x = right
        BY <3>2, <3>4, <4>1
      <4>2. CASE x # right
        BY <1>2, <1>3, <1>4, <3>1, <3>2, <3>4, <4>2
      <4>3. QED
        BY <4>1, <4>2
    <3>6. array'[j] \in Nat /\ At(0) <= array'[j]
      <4>1. CASE y = right
        BY <3>3, <3>4, <4>1
      <4>2. CASE y # right
        BY <1>2, <1>3, <1>4, <3>1, <3>3, <3>4, <4>2
      <4>3. QED
        BY <4>1, <4>2
    <3>7. QED
      BY <3>4, <3>5, <3>6
  <2>5. QED
    BY <1>6, <2>1, <2>2, <2>3, <2>4
<1>16. SortedButForCalls'
  <2> SUFFICES ASSUME NEW i \in DOMAIN given, NEW j \in DOMAIN given, i < j
               PROVE  array'[i] <= array'[j] \/ InOneCall(i, j)'
    BY <1>3, <1>5 DEF SortedButForCalls
  <2>1. CASE \E k \in 2 .. L : stack[k][1] <= i /\ j < stack[k][2]
    <3>1. PICK k \in 2 .. L : stack[k][1] <= i /\ j < stack[k][2]
      BY <2>1
    <3>2. k + 1 \in DOMAIN stack' /\ stack'[k + 1] = stack[k]
      BY <1>8
    <3>3. QED
      BY <3>1, <3>2 DEF InOneCall
  <2>2. QED
    BY <1>5, <1>7, <1>15, <2>1
<1>17. QED
  BY <1>1, <1>5, <1>14, <1>16 DEF SortInv, Partitioning, PartitionMeets, Inserting

(* The inner loop of insertion_sort ends: there is a place for the value.  *)
LEMMA InsertionPlaceExists ==
  ASSUME index \in Nat, NEW value \in Nat, \A i \in 0 .. index - 1 : At(i) \in Nat
  PROVE  LET j == InsertionPlace(value)
         IN  /\ j \in 0 .. index
             /\ \A i \in j .. index - 1 : At(i) > value
             /\ j > 0 => At(j - 1) <= value
<1> DEFINE T == {j \in 0 .. index : \A i \in j .. index - 1 : At(i) > value}
<1>1. T \in SUBSET Nat /\ T # {}
  OBVIOUS
<1>2. PICK j \in T : \A k \in T : j <= k
  <2> HIDE DEF T
  <2>1. QED
    BY <1>1, LeastNatural
<1>3. ASSUME j > 0 PROVE At(j - 1) <= value
  <2>1. j - 1 \notin T /\ j - 1 \in 0 .. index - 1 /\ j - 1 \in 0 .. index
    BY <1>2, <1>3
  <2>2. PICK i \in j - 1 .. index - 1 : ~(At(i) > value)
    BY <2>1
  <2>3. \A k \in j .. index - 1 : At(k) > value
    OBVIOUS
  <2>4. i = j - 1
    BY <2>1, <2>2, <2>3
  <2>5. QED
    BY <2>1, <2>2, <2>4
<1>4. \E k \in 0 .. index : /\ \A i \in k .. index - 1 : At(i) > value
                            /\ k > 0 => At(k - 1) <= value
  BY <1>3
<1>5. QED
  BY <1>4 DEF InsertionPlace

(* The places that the elements come from when the one at b is moved to a  *)
(* and those between are shifted.                                          *)
Shift(n, a, b) ==
  [k \in 1 .. n |-> IF k = a THEN b ELSE IF k \in a + 1 .. b THEN k - 1 ELSE k]

(* That is a permutation.                                                  *)
LEMMA ShiftIsPermutation ==
  ASSUME NEW n \in Nat, NEW a \in 1 .. n, NEW b \in a .. n
  PROVE  /\ Shift(n, a, b) \in [1 .. n -> 1 .. n]
         /\ \A i \in 1 .. n : \E k \in 1 .. n : Shift(n, a, b)[k] = i
         /\ \A i, k \in 1 .. n : Shift(n, a, b)[i] = Shift(n, a, b)[k] => i = k
         /\ \A k \in 1 .. n : IF k \in a .. b THEN Shift(n, a, b)[k] \in a .. b
                                              ELSE Shift(n, a, b)[k] = k
<1> DEFINE q == Shift(n, a, b)
<1>1. a \in Nat /\ b \in Nat /\ 1 <= a /\ a <= b /\ b <= n
  OBVIOUS
<1>2. \A k \in 1 .. n :
        q[k] = IF k = a THEN b ELSE IF a + 1 <= k /\ k <= b THEN k - 1 ELSE k
  BY <1>1 DEF Shift
<1>3. q = [k \in 1 .. n |-> q[k]]
  BY DEF Shift
<1> HIDE DEF q
<1>4. \A k \in 1 .. n : q[k] \in 1 .. n
  BY <1>1, <1>2
<1>5. ASSUME NEW i \in 1 .. n PROVE \E k \in 1 .. n : q[k] = i
  <2>1. CASE i = b
    BY <1>1, <1>2, <2>1
  <2>2. CASE a <= i /\ i <= b - 1
    BY <1>1, <1>2, <2>2
  <2>3. CASE i # b /\ ~(a <= i /\ i <= b - 1)
    BY <1>1, <1>2, <2>3
  <2>4. QED
    BY <2>1, <2>2, <2>3
<1>6. \A i, k \in 1 .. n : q[i] = q[k] => i = k
  BY <1>1, <1>2
<1>7. \A k \in 1 .. n : IF k \in a .. b THEN q[k] \in a .. b ELSE q[k] = k
  BY <1>1, <1>2
<1>8. QED
  BY <1>3, <1>4, <1>5, <1>6, <1>7 DEF q

(* An element is inserted among the sorted ones; after the last one the    *)
(* segment is sorted.                                                      *)
LEMMA InsertSorts ==
  ASSUME SortInv, Insert
  PROVE  SortInv'
<1>1. /\ SortTypeOK /\ SortedButForCalls /\ Permuted /\ stage = "insert"
      /\ stack # <<>> /\ index \in 1 .. Extent
      /\ \A i, j \in 0 .. index - 1 : i < j => At(i) <= At(j)
  BY DEF SortInv, Insert, Inserting
<1>2. /\ Len(given) \in Nat /\ Extent \in Nat /\ First \in Nat /\ First >= 1
      /\ First = stack[1][1] /\ First + Extent = stack[1][2] /\ 1 \in DOMAIN stack
      /\ DOMAIN given = 1 .. Len(given) /\ DOMAIN array = DOMAIN given
      /\ DOMAIN stack = 1 .. Len(stack)
      /\ \A i \in 0 .. Extent - 1 : First + i \in 1 .. Len(given) /\ At(i) \in Nat
  BY <1>1, SegmentPlaces
<1>3. CASE index = Extent
  BY <1>1, <1>2, <1>3, Returned DEF Insert
<1>4. CASE index # Extent
  <2> DEFINE D == DOMAIN given
             s == First
             value == At(index)
             j == InsertionPlace(value)
  <2>1. index \in 1 .. Extent - 1 /\ index \in Nat /\ value \in Nat
    BY <1>1, <1>2, <1>4
  <2>2. \A i \in 0 .. index - 1 : At(i) \in Nat
    BY <1>2, <2>1
  <2>3. /\ j \in 0 .. index
        /\ \A i \in j .. index - 1 : At(i) > value
        /\ j > 0 => At(j - 1) <= value
    <3> HIDE DEF value, j
    <3>1. QED
      BY <2>1, <2>2, InsertionPlaceExists DEF j
  <2> DEFINE a == s + j
             b == s + index
             n == Len(given)
             q == Shift(n, a, b)
  <2>4. /\ given' = given /\ stack' = stack /\ left' = left /\ right' = right
        /\ stage' = stage /\ index' = index + 1
        /\ array' = [k \in D |-> IF k = a THEN value
                                 ELSE IF k \in a + 1 .. b THEN array[k - 1]
                                 ELSE array[k]]
    BY <1>2, <1>4 DEF Insert
  <2>5. value = array[b] /\ \A i : At(i) = array[s + i]
    BY DEF At
  <2>6. n \in Nat /\ D = 1 .. n /\ s \in Nat /\ j \in Nat
    BY <1>2, <2>1, <2>3
  <2>7. a \in 1 .. n /\ b \in a .. n /\ s <= a /\ b < s + Extent
    <3>1. index \in 0 .. Extent - 1 /\ j \in 0 .. Extent - 1
      BY <1>2, <2>1, <2>3
    <3>2. a \in 1 .. n /\ b \in 1 .. n
      BY <1>2, <3>1
    <3>3. s \in Nat /\ j \in Nat /\ index \in Nat /\ Extent \in Nat /\ j <= index /\ index < Extent
      BY <1>2, <2>1, <3>1, <2>3
    <3>4. a = s + j /\ b = s + index /\ n \in Nat
      BY <1>2
    <3> HIDE DEF s, value, j, a, b, n
    <3>5. a <= b /\ s <= a /\ b < s + Extent
      BY <3>3, <3>4
    <3>6. QED
      BY <3>2, <3>4, <3>5
  <2>8. \A i \in 0 .. index : /\ i \in Int /\ s + i \in D /\ s + i - 1 = s + (i - 1)
                              /\ s + i = a <=> i = j
                              /\ s + i \in a + 1 .. b <=> i \in j + 1 .. index
    <3>1. \A i \in 0 .. index : i \in 0 .. Extent - 1
      BY <1>2, <2>1
    <3>2. \A i \in 0 .. index : s + i \in D
      BY <1>2, <3>1
    <3>3. ASSUME NEW i \in 0 .. index
          PROVE  /\ i \in Int /\ s + i - 1 = s + (i - 1)
                 /\ s + i = a <=> i = j
                 /\ s + i \in a + 1 .. b <=> i \in j + 1 .. index
      <4>1. i \in Nat /\ index \in Nat /\ s \in Nat /\ j \in Nat /\ a = s + j /\ b = s + index
        BY <2>1, <2>6
      <4> HIDE DEF D, s, value, j, a, b, n
      <4>2. QED
        BY <4>1
    <3>4. QED
      BY <3>2, <3>3
  <2> HIDE DEF D, s, value, j, a, b, n, q
  <2>9. /\ q \in [D -> D]
        /\ \A i \in D : \E k \in D : q[k] = i
        /\ \A i, k \in D : q[i] = q[k] => i = k
        /\ \A k \in D : IF k \in a .. b THEN q[k] \in a .. b ELSE q[k] = k
    <3>1. n \in Nat /\ a \in 1 .. n /\ b \in a .. n
      BY <2>6, <2>7
    <3>2. /\ Shift(n, a, b) \in [1 .. n -> 1 .. n]
          /\ \A i \in 1 .. n : \E k \in 1 .. n : Shift(n, a, b)[k] = i
          /\ \A i, k \in 1 .. n : Shift(n, a, b)[i] = Shift(n, a, b)[k] => i = k
          /\ \A k \in 1 .. n : IF k \in a .. b THEN Shift(n, a, b)[k] \in a .. b
                                               ELSE Shift(n, a, b)[k] = k
      BY ONLY <3>1, ShiftIsPermutation
    <3>3. q = Shift(n, a, b) /\ D = 1 .. n
      BY <2>6 DEF q
    <3>4. QED
      BY ONLY <3>2, <3>3
  <2>10. \A k \in D : q[k] = IF k = a THEN b ELSE IF k \in a + 1 .. b THEN k - 1 ELSE k
    BY <2>6 DEF q, Shift
  <2>11. \A k \in D : array'[k] = IF k = a THEN value
                                   ELSE IF k \in a + 1 .. b THEN array[k - 1] ELSE array[k]
    BY <2>4
  <2>12. \A k \in D : array'[k] = array[q[k]]
    BY <2>5, <2>10, <2>11
  <2>13. \A k \in D : IF s <= k /\ k < s + Extent
                       THEN s <= q[k] /\ q[k] < s + Extent ELSE q[k] = k
    <3>1. a \in Nat /\ b \in Nat /\ s \in Nat /\ Extent \in Nat /\ s <= a /\ b < s + Extent
      BY <1>2, <2>6, <2>7
    <3> TAKE k \in D
    <3>2. k \in Nat /\ (IF k \in a .. b THEN q[k] \in a .. b ELSE q[k] = k)
      BY <2>6, <2>9
    <3>3. CASE k \in a .. b
      BY <3>1, <3>2, <3>3
    <3>4. CASE k \notin a .. b
      BY <3>2, <3>4
    <3>5. QED
      BY <3>3, <3>4
  <2>14. array' = [k \in D |-> array[q[k]]]
    BY <2>4, <2>12
  <2>15. /\ array' \in [1 .. Len(given) -> Numbers] /\ Permuted'
         /\ \A i, k \in D : i < k =>
              \/ s <= i /\ k < s + Extent
              \/ array'[i] <= array'[k]
              \/ \E l \in 2 .. Len(stack) : stack[l][1] <= i /\ k < stack[l][2]
    BY <1>1, <2>4, <2>9, <2>13, <2>14, SegmentRearranged DEF D, s
  <2>16. SortTypeOK'
    BY <1>1, <2>1, <2>4, <2>15 DEF SortTypeOK
  <2>17. SortedButForCalls'
    <3> SUFFICES ASSUME NEW i \in D, NEW k \in D, i < k
                 PROVE  array'[i] <= array'[k] \/ InOneCall(i, k)'
      BY <2>4 DEF SortedButForCalls
    <3>1. InOneCall(i, k)' <=> \E l \in DOMAIN stack : stack[l][1] <= i /\ k < stack[l][2]
      BY <2>4 DEF InOneCall
    <3>2. \A l \in 2 .. Len(stack) : l \in DOMAIN stack
      BY <1>2
    <3>3. QED
      BY <1>2, <2>15, <3>1, <3>2 DEF s
  <2>18. Inserting'
    <3>1. First' = s /\ Extent' = Extent /\ stack' # <<>>
      BY <1>1, <2>4 DEF First, Extent, s
    <3>2. \A i \in 0 .. index : At(i)' = IF i = j THEN value
                                        ELSE IF i \in j + 1 .. index THEN At(i - 1) ELSE At(i)
      <4> SUFFICES ASSUME NEW i \in 0 .. index
                   PROVE  array'[s + i] = IF i = j THEN value
                                          ELSE IF i \in j + 1 .. index THEN At(i - 1) ELSE At(i)
        BY <3>1 DEF At
      <4>1. /\ s + i \in D /\ s + i - 1 = s + (i - 1)
            /\ s + i = a <=> i = j
            /\ s + i \in a + 1 .. b <=> i \in j + 1 .. index
        BY <2>8
      <4>2. At(i - 1) = array[s + i - 1] /\ At(i) = array[s + i]
        BY <2>5, <4>1
      <4>3. PICK k \in D : k = s + i /\ k - 1 = s + (i - 1)
        BY <2>6, <2>8
      <4>4. CASE i = j
        BY <2>11, <4>1, <4>3, <4>4
      <4>5. CASE i # j /\ i \in j + 1 .. index
        BY <2>11, <4>1, <4>2, <4>3, <4>5
      <4>6. CASE i # j /\ i \notin j + 1 .. index
        BY <2>11, <4>1, <4>2, <4>3, <4>6
      <4>7. QED
        BY <4>4, <4>5, <4>6
    <3>3. ASSUME NEW x \in 0 .. index, NEW y \in 0 .. index, x < y
          PROVE  At(x)' <= At(y)'
      <4>1. x \in Int /\ y \in Int /\ j \in Int
        BY <2>1, <2>3
      <4>2. CASE y < j
        BY <1>1, <2>1, <2>3, <3>2, <3>3, <4>1, <4>2
      <4>3. CASE y = j
        <5>1. /\ At(x)' = At(x) /\ At(y)' = value /\ x \in 0 .. index - 1
              /\ j - 1 \in 0 .. index - 1 /\ j > 0 /\ x <= j - 1
          BY <2>1, <2>3, <3>2, <3>3, <4>1, <4>3
        <5>2. At(x) <= At(j - 1)
          BY <1>1, <2>2, <5>1
        <5>3. QED
          BY <2>1, <2>2, <2>3, <5>1, <5>2
      <4>4. CASE y > j /\ x < j
        BY <1>1, <2>1, <2>3, <3>2, <3>3, <4>1, <4>4
      <4>5. CASE y > j /\ x = j
        BY <2>1, <2>2, <2>3, <3>2, <3>3, <4>1, <4>5
      <4>6. CASE y > j /\ x > j
        BY <1>1, <2>1, <2>3, <3>2, <3>3, <4>1, <4>6
      <4>7. QED
        BY <4>1, <4>2, <4>3, <4>4, <4>5, <4>6
    <3>4. index' \in 1 .. Extent' /\ index' - 1 = index
      BY <1>2, <2>1, <2>4, <3>1
    <3>5. QED
      BY <3>1, <3>3, <3>4 DEF Inserting
  <2>19. QED
    BY <1>1, <2>4, <2>15, <2>16, <2>17, <2>18 DEF SortInv, Partitioning, PartitionMeets
<1>5. QED
  BY <1>3, <1>4

-----------------------------------------------------------------------------
(* sort returns with the segments sorted and loses no element, whatever    *)
(* the array: equal elements, a pivot that is the least or the greatest,   *)
(* and segments of any length included.                                    *)
THEOREM SortInvariant == SortSpec => []SortInv
<1>1. SortInit => SortInv
  <2> SUFFICES ASSUME SortInit PROVE SortInv
    OBVIOUS
  <2>1. PICK n \in 0 .. MaxLength : given \in [1 .. n -> Numbers]
    BY DEF SortInit
  <2>2. /\ n \in Nat /\ given \in Seq(Numbers) /\ Len(given) = n /\ DOMAIN given = 1 .. n
    BY <2>1, SequentialAssumption
  <2>3. /\ array = given /\ stack = << <<1, n + 1>> >> /\ stage = "sort"
        /\ left = 0 /\ right = 0 /\ index = 0
    BY <2>2 DEF SortInit
  <2>4. <<1, n + 1>> \in (1 .. n + 1) \X (1 .. n + 1)
    BY <2>2
  <2>5. stack \in Seq((1 .. n + 1) \X (1 .. n + 1)) /\ DOMAIN stack = {1} /\ stack[1] = <<1, n + 1>>
    BY <2>3, <2>4
  <2>6. SortTypeOK
    BY <2>1, <2>2, <2>3, <2>5 DEF SortTypeOK
  <2>7. SortedButForCalls
    BY <2>2, <2>3, <2>5 DEF SortedButForCalls, InOneCall
  <2>8. Permuted
    BY <2>3 DEF Permuted
 <2>9. QED
    BY <2>3, <2>6, <2>7, <2>8 DEF SortInv, Partitioning, PartitionMeets, Inserting
<1>2. SortInv /\ [SortNext]_sortVars => SortInv'
  <2> SUFFICES ASSUME SortInv, [SortNext]_sortVars PROVE SortInv'
    OBVIOUS
  <2>1. CASE SortNext
    BY <2>1, ReturnSorts, CallsSort, ScanLeftSorts, ScanRightSorts, SwapSorts,
      PlacePivotSorts, InsertSorts DEF SortNext
  <2>2. CASE UNCHANGED sortVars
    BY <2>2, SameArray DEF sortVars, SortInv, SortTypeOK, Partitioning, PartitionMeets,
       Inserting
  <2>3. QED
    BY <2>1, <2>2
<1>3. QED
  BY <1>1, <1>2, PTL DEF SortSpec

(* When no call is left the array is sorted.                               *)
THEOREM ReturnsSorted ==
  SortSpec => [](stack = <<>> =>
               /\ \A i, j \in DOMAIN array : i < j => array[i] <= array[j]
               /\ Permuted)
<1>1. SortInv => (stack = <<>> => /\ \A i, j \in DOMAIN array : i < j => array[i] <= array[j]
                                  /\ Permuted)
  BY DEF SortInv, SortedButForCalls, InOneCall
<1>2. QED
  BY <1>1, SortInvariant, PTL

-----------------------------------------------------------------------------
(* The invariant of QuicksortDeque.                                         *)

(* The stage of a task: a task that waits is to be run.                    *)
Stage(p) == IF p[1] = "thread" THEN pc[p[2]] ELSE "run"

Middle(d) == From(d) + Position(d)

(* The places of the array that nobody else may have work on: the segment, *)
(* until a part of it is given to another task.                            *)
RegionOf(d, label) ==
  IF Kind(d) = "reset" THEN {}
  ELSE IF label \in PartitionLabels \cup {"storePivot", "adjust", "left"} THEN From(d) .. To(d) - 1
  ELSE IF label \in {"pushLeft", "right"} THEN Middle(d) .. To(d) - 1
  ELSE IF label \in {"pushRight", "release"} /\ Kind(d) = "partition" THEN {Middle(d)}
  ELSE {}

Region(p) == RegionOf(TaskAt(p), Stage(p))

Refers(p) == Kind(TaskAt(p)) = "partition" /\ Stage(p) \in PartitionLabels

SameSort(p, q) == Refers(p) /\ Refers(q) /\ TaskAt(p)[2] = TaskAt(q)[2]

RegionsApart ==
  \A p, q \in Places : p # q /\ ~SameSort(p, q) => Region(p) \cap Region(q) = {}

(* The blocks that are left to partition.                                  *)
BlocksOf(d, label) ==
  IF label = "run" THEN d[3] .. d[4] - 1
  ELSE IF label \in {"pushBlocks", "pivot", "partition"} THEN d[3] .. OwnEnd(d) - 1
  ELSE {}

BlocksAt(p) == BlocksOf(TaskAt(p), Stage(p))

BlocksApart ==
  \A p, q \in Places : p # q /\ SameSort(p, q) => BlocksAt(p) \cap BlocksAt(q) = {}

BlockOf(s, i) == (i - s[1] - 1) \div BLOCK_SIZE

Unreserved(s) ==
  {i \in s[1] + 1 .. s[2] - 1 : \E p \in References(s) : BlockOf(s, i) \in BlocksAt(p)}

Ready(s) == LeftCount(counters[s]) + RightCount(counters[s])

ElementsCounted ==
  \A s \in Sorts : References(s) # {} =>
    Ready(s) + Cardinality(Unreserved(s)) = s[2] - s[1] - 1

Complete == {"storePivot", "left", "pushLeft", "right", "pushRight", "release"}

Copying(t) == pc[t] \in {"copyLeft", "copyRight"}

LeftArea(s)  == s[1] .. s[1] + LeftCount(counters[s]) - 1
RightArea(s) == s[2] - RightCount(counters[s]) .. s[2] - 1

KindsAt(label) ==
  CASE label \in {"countReset", "createFirst", "pushFirst"} -> {"reset"}
    [] label \in {"adjust", "pushParts"} -> {"recursion"}
    [] label = "release" -> {"sequential", "partition"}
    [] label = "finish" -> {"reset", "sequential", "partition"}
    [] label = "run" -> {"reset", "sequential", "recursion", "partition"}
    [] OTHER -> {"partition"}

ThreadInv(t) ==
  /\ IF pc[t] \in ClaimLabels THEN task[t] = NoTask
     ELSE task[t] # NoTask /\ Kind(task[t]) \in KindsAt(pc[t])
  /\ subtasks[t] # <<>> <=> pc[t] \in PushLabels
  /\ pc[t] \in {"partition", "copyLeft", "copyRight"} => task[t][3] < OwnEnd(task[t])
  /\ pc[t] = "adjust" => pivot[t] \in 0 .. Length(task[t]) - 1
  /\ pc[t] \in Complete /\ Kind(task[t]) = "partition" =>
       Ready(task[t][2]) + 1 = Length(task[t])
  /\ IF Copying(t) THEN /\ LeftPlaces(values[t]) \subseteq LeftArea(task[t][2])
                        /\ RightPlaces(values[t]) \subseteq RightArea(task[t][2])
     ELSE values[t] = NoValues

CopiesApart ==
  \A t, u \in Threads :
    t # u /\ Copying(t) /\ Copying(u) /\ task[t][2] = task[u][2] =>
      PlacesOf(values[t]) \cap PlacesOf(values[u]) = {}

Ending(t) == pc[t] \in {"createFirst", "finish"}

ResetLeft == \E p \in Places : Kind(TaskAt(p)) = "reset"

(* What is known of the places together.                                   *)
PlacesInv ==
  /\ PendingCountsTasks
  /\ ReferencesCounted
  /\ RegionsApart
  /\ BlocksApart
  /\ ElementsCounted
  /\ ResetLeft => \A p \in Places : Kind(TaskAt(p)) = "reset"

EndingInv ==
  /\ \A t \in Threads : Ending(t) => pending_tasks = 0 /\ ~finished /\ \A u \in Threads \ {t} : ~Ending(u)
  /\ finished => pending_tasks = 0

SortingInv ==
  /\ TypeOK
  /\ \A t \in Threads : ThreadInv(t)
  /\ CopiesApart
  /\ PlacesInv
  /\ EndingInv

-----------------------------------------------------------------------------
(* Numbers, sequences and sets of indexes.                                 *)

(* Division with a remainder.                                              *)
LEMMA DivMod ==
  ASSUME NEW n \in Nat \ {0}, NEW a \in Nat
  PROVE  a \div n \in Nat /\ a % n \in 0 .. n - 1 /\ a = (a \div n) * n + (a % n)
OBVIOUS

(* Rounding down to a multiple.                                            *)
LEMMA DivTimes ==
  ASSUME NEW a \in Nat, NEW n \in Nat \ {0}
  PROVE  (a \div n) * n \in 0 .. a
<1>1. PICK q, r, m : q = a \div n /\ r = a % n /\ m = q * n
  OBVIOUS
<1>2. q \in Nat /\ r \in 0 .. n - 1 /\ a = m + r
  BY <1>1, DivMod
<1>3. m \in Int
  BY <1>1, <1>2
<1>4. m >= 0
  BY <1>1, <1>2
<1>5. QED
  BY <1>1, <1>2, <1>3, <1>4

(* A finite set has an element where a function is greatest.               *)
LEMMA Greatest ==
  ASSUME NEW I, IsFiniteSet(I), I # {}, NEW f, \A i \in I : f[i] \in Int
  PROVE  \E i \in I : \A j \in I : f[j] <= f[i]
<1> DEFINE above(i) == {j \in I : f[j] > f[i]}
           T == {Cardinality(above(i)) : i \in I}
<1>1. \A i \in I : IsFiniteSet(above(i)) /\ Cardinality(above(i)) \in Nat
  BY FS_Subset, FS_CardinalityType
<1>2. T \in SUBSET Nat /\ T # {}
  BY <1>1
<1>3. PICK n \in T : \A m \in T : n <= m
  <2> HIDE DEF T
  <2>1. QED
    BY <1>2, LeastNatural
<1>4. PICK i \in I : n = Cardinality(above(i))
  OBVIOUS
<1>5. ASSUME NEW j \in I, ~(f[j] <= f[i]) PROVE FALSE
  <2>1. f[j] > f[i] /\ f[j] \in Int /\ f[i] \in Int
    BY <1>5
  <2>2. above(j) \subseteq above(i) /\ j \in above(i) /\ j \notin above(j)
    BY <2>1
  <2>3. Cardinality(above(j)) \in T
    OBVIOUS
  <2>4. Cardinality(above(i)) <= Cardinality(above(j))
    BY <1>3, <1>4, <2>3
  <2>5. Cardinality(above(j)) <= Cardinality(above(i))
        /\ (Cardinality(above(i)) = Cardinality(above(j)) => above(i) = above(j))
    <3> HIDE DEF above
    <3>1. QED
      BY <1>1, <2>2, FS_Subset
  <2>6. QED
    <3> HIDE DEF above
    <3>1. Cardinality(above(i)) \in Nat /\ Cardinality(above(j)) \in Nat
      BY <1>1
    <3>2. QED
      BY <2>2, <2>4, <2>5, <3>1
<1>6. QED
  BY <1>5

(* A finite set has an element where a function is least.                  *)
LEMMA Least ==
  ASSUME NEW I, IsFiniteSet(I), I # {}, NEW f, \A i \in I : f[i] \in Int
  PROVE  \E i \in I : \A j \in I : f[i] <= f[j]
<1>1. PICK g : g = [i \in I |-> 0 - f[i]]
  OBVIOUS
<1>2. \A i \in I : g[i] \in Int
  BY <1>1
<1>3. PICK i \in I : \A j \in I : g[j] <= g[i]
  BY <1>2, Greatest
<1>4. ASSUME NEW j \in I PROVE f[i] <= f[j]
  BY <1>1, <1>3
<1>5. QED
  BY <1>4

(* Sets whose elements correspond have the same number of elements.        *)
LEMMA SameCount ==
  ASSUME NEW S, NEW T, NEW g, IsFiniteSet(S), \A x \in S : g[x] \in T,
         \A x, y \in S : g[x] = g[y] => x = y, \A y \in T : \E x \in S : g[x] = y
  PROVE  IsFiniteSet(T) /\ Cardinality(T) = Cardinality(S)
<1>1. PICK h : h = [x \in S |-> g[x]]
  OBVIOUS
<1>2. h \in Bijection(S, T)
  BY <1>1 DEF Bijection, Injection, Surjection, IsInjective
<1>3. QED
  BY <1>2, FS_Bijection DEF ExistsBijection

(* The first n numbers are n.                                              *)
LEMMA UpTo ==
  ASSUME NEW n \in Nat
  PROVE  IsFiniteSet(1 .. n) /\ Cardinality(1 .. n) = n
BY FS_Interval

-----------------------------------------------------------------------------
(* The elements of a sequence below a value.                               *)
LEMMA SmallerAre ==
  ASSUME NEW s \in Seq(Int), NEW v \in Int
  PROVE  /\ Len(s) \in Nat /\ DOMAIN s = 1 .. Len(s) /\ \A i \in 1 .. Len(s) : s[i] \in Int
         /\ \A i : i \in Smaller(s, v) <=> i \in 1 .. Len(s) /\ s[i] < v
         /\ \A i : i \in NotSmaller(s, v) <=> i \in 1 .. Len(s) /\ s[i] >= v
         /\ IsFiniteSet(Smaller(s, v)) /\ IsFiniteSet(NotSmaller(s, v))
         /\ Cardinality(Smaller(s, v)) \in 0 .. Len(s)
         /\ Cardinality(NotSmaller(s, v)) \in 0 .. Len(s)
         /\ Cardinality(Smaller(s, v)) + Cardinality(NotSmaller(s, v)) = Len(s)
<1>1. Len(s) \in Nat /\ DOMAIN s = 1 .. Len(s) /\ \A i \in 1 .. Len(s) : s[i] \in Int
  OBVIOUS
<1>2. /\ \A i : i \in Smaller(s, v) <=> i \in 1 .. Len(s) /\ s[i] < v
      /\ \A i : i \in NotSmaller(s, v) <=> i \in 1 .. Len(s) /\ s[i] >= v
  BY <1>1 DEF Smaller, NotSmaller
<1>3. IsFiniteSet(1 .. Len(s)) /\ Cardinality(1 .. Len(s)) = Len(s)
  BY <1>1, UpTo
<1>4. Smaller(s, v) \in SUBSET (1 .. Len(s)) /\ NotSmaller(s, v) \in SUBSET (1 .. Len(s))
  BY <1>2
<1>5. /\ IsFiniteSet(Smaller(s, v)) /\ IsFiniteSet(NotSmaller(s, v))
      /\ Cardinality(Smaller(s, v)) <= Len(s) /\ Cardinality(NotSmaller(s, v)) <= Len(s)
  BY <1>3, <1>4, FS_Subset
<1>6. Cardinality(Smaller(s, v)) \in Nat /\ Cardinality(NotSmaller(s, v)) \in Nat
  BY <1>5, FS_CardinalityType
<1>7. Smaller(s, v) = (1 .. Len(s)) \ NotSmaller(s, v) /\ (1 .. Len(s)) \cap NotSmaller(s, v) = NotSmaller(s, v)
  BY <1>1, <1>2
<1>8. Cardinality(Smaller(s, v)) = Len(s) - Cardinality(NotSmaller(s, v))
  BY <1>3, <1>7, FS_Difference
<1>9. QED
  BY <1>1, <1>2, <1>5, <1>6, <1>8

(* More elements are smaller than a greater value.                         *)
LEMMA SmallerGrows ==
  ASSUME NEW s \in Seq(Int), NEW v \in Int, NEW w \in Int, v <= w
  PROVE  /\ Smaller(s, v) \subseteq Smaller(s, w)
         /\ Cardinality(Smaller(s, v)) <= Cardinality(Smaller(s, w))
<1>1. Smaller(s, v) \subseteq Smaller(s, w)
  BY DEF Smaller
<1>2. IsFiniteSet(Smaller(s, w))
  BY SmallerAre
<1>3. QED
  BY <1>1, <1>2, FS_Subset

(* Each place of the sorted sequence has its element.                      *)
LEMMA SortedPlace ==
  ASSUME NEW s \in Seq(Int), NEW k \in 1 .. Len(s)
  PROVE  \E v \in Range(s) : /\ Cardinality(Smaller(s, v)) < k
                             /\ k <= Cardinality(Smaller(s, v + 1))
<1> DEFINE D == 1 .. Len(s)
           Q == {i \in D : k <= Cardinality(Smaller(s, s[i] + 1))}
<1>1. /\ Len(s) \in Nat /\ DOMAIN s = D /\ \A i \in D : s[i] \in Int /\ s[i] + 1 \in Int
      /\ IsFiniteSet(D) /\ Cardinality(D) = Len(s) /\ D # {}
  BY UpTo
<1>2. Q # {}
  <2>1. PICK i \in D : \A j \in D : s[j] <= s[i]
    <3> HIDE DEF D
    <3>1. QED
      BY <1>1, Greatest
  <2>2. \A j \in D : j \in Smaller(s, s[i] + 1)
    <3>1. SUFFICES ASSUME NEW j \in D PROVE j \in DOMAIN s /\ s[j] < s[i] + 1
      BY DEF Smaller
    <3>2. s[j] \in Int /\ s[i] \in Int /\ s[j] <= s[i] /\ j \in DOMAIN s
      BY <1>1, <2>1
    <3>3. QED
      BY <3>2
  <2>3. Smaller(s, s[i] + 1) = D
    BY <1>1, <2>2 DEF Smaller
  <2>4. k <= Cardinality(Smaller(s, s[i] + 1))
    BY <1>1, <2>3
  <2>5. QED
    BY <2>4
<1>3. IsFiniteSet(Q)
  BY <1>1, FS_Subset
<1>4. PICK i \in Q : \A j \in Q : s[i] <= s[j]
  <2>1. \A j \in Q : s[j] \in Int
    BY <1>1
  <2> HIDE DEF Q
  <2>2. QED
    BY <1>2, <1>3, <2>1, Least
<1>5. Cardinality(Smaller(s, s[i])) < k
  <2>1. s[i] \in Int /\ s[i] + 1 \in Int
    BY <1>1
  <2>2. IsFiniteSet(Smaller(s, s[i])) /\ Cardinality(Smaller(s, s[i])) \in 0 .. Len(s)
    BY <2>1, SmallerAre
  <2>3. SUFFICES ASSUME Cardinality(Smaller(s, s[i])) >= k PROVE FALSE
    BY <1>1, <2>2
  <2>4. Smaller(s, s[i]) # {} /\ Smaller(s, s[i]) \subseteq D
    <3>1. Cardinality(Smaller(s, s[i])) # 0
      BY <1>1, <2>3, <2>2
    <3>2. QED
      BY <1>1, <3>1, FS_EmptySet DEF Smaller
  <2>5. PICK j \in Smaller(s, s[i]) : \A m \in Smaller(s, s[i]) : s[m] <= s[j]
    BY <1>1, <2>4, <2>2, Greatest
  <2>6. j \in D /\ s[j] < s[i] /\ s[j] \in Int /\ s[i] \in Int
    BY <1>1, <2>4, <2>5 DEF Smaller
  <2>7. \A m : m \in Smaller(s, s[j] + 1) <=> m \in Smaller(s, s[i])
    <3>1. \A m : m \in Smaller(s, s[i]) => m \in D /\ s[m] <= s[j] /\ s[m] \in Int
      BY <1>1, <2>5 DEF Smaller
    <3>2. \A m \in D : s[m] < s[i] <=> m \in Smaller(s, s[i])
      BY <1>1 DEF Smaller
    <3>3. \A m : m \in Smaller(s, s[j] + 1) <=> m \in D /\ s[m] < s[j] + 1
      BY <1>1 DEF Smaller
    <3>4. \A m \in D : s[m] < s[j] + 1 <=> s[m] < s[i]
      <4>1. SUFFICES ASSUME NEW m \in D PROVE s[m] < s[j] + 1 <=> s[m] < s[i]
        OBVIOUS
      <4>2. s[m] \in Int /\ (s[m] < s[i] => s[m] <= s[j])
        BY <1>1, <3>1, <3>2
      <4>3. QED
        BY <2>6, <4>2
    <3>5. QED
      BY <3>1, <3>2, <3>3, <3>4
  <2>8. Smaller(s, s[j] + 1) = Smaller(s, s[i])
    BY <2>7
  <2>9. j \in Q
    BY <1>1, <2>3, <2>6, <2>8, <2>2
  <2>10. QED
    BY <1>4, <2>6, <2>9
<1>6. s[i] \in Range(s) /\ k <= Cardinality(Smaller(s, s[i] + 1))
  BY <1>1 DEF Range
<1>7. QED
  BY <1>5, <1>6

(* An element of the sorted sequence is below a value when its place is    *)
(* among as many as there are elements below it.                           *)
LEMMA SortedBelow ==
  ASSUME NEW s \in Seq(Int)
  PROVE  /\ Sorted(s) \in Seq(Int) /\ Len(Sorted(s)) = Len(s)
         /\ \A k \in 1 .. Len(s) : \A v \in Int :
              Sorted(s)[k] < v <=> k <= Cardinality(Smaller(s, v))
<1> DEFINE Fits(k, v) == /\ Cardinality(Smaller(s, v)) < k
                         /\ k <= Cardinality(Smaller(s, v + 1))
<1>1. Len(s) \in Nat
  OBVIOUS
<1>2. ASSUME NEW k \in 1 .. Len(s)
      PROVE  Sorted(s)[k] \in Int /\ Fits(k, Sorted(s)[k])
  <2>1. Sorted(s)[k] = CHOOSE v \in Range(s) : Fits(k, v)
    BY DEF Sorted
  <2>2. \E v \in Range(s) : Fits(k, v)
    BY SortedPlace
  <2>3. Sorted(s)[k] \in Range(s) /\ Fits(k, Sorted(s)[k])
    <3> HIDE DEF Fits
    <3>1. QED
      BY <2>1, <2>2
  <2>4. QED
    BY <2>3 DEF Range
<1>3. Sorted(s) \in Seq(Int) /\ Len(Sorted(s)) = Len(s)
  <2>1. DOMAIN Sorted(s) = 1 .. Len(s) /\ Sorted(s) = [k \in 1 .. Len(s) |-> Sorted(s)[k]]
    BY DEF Sorted
  <2>2. QED
    BY <1>1, <1>2, <2>1
<1>4. ASSUME NEW k \in 1 .. Len(s), NEW v \in Int
      PROVE  Sorted(s)[k] < v <=> k <= Cardinality(Smaller(s, v))
  <2>1. PICK w : w = Sorted(s)[k]
    OBVIOUS
  <2>2. w \in Int /\ Fits(k, w) /\ w + 1 \in Int
    BY <1>2, <2>1
  <2>3. CASE w < v
    <3>1. Cardinality(Smaller(s, w + 1)) <= Cardinality(Smaller(s, v))
      BY <2>2, <2>3, SmallerGrows
    <3>2. Cardinality(Smaller(s, w + 1)) \in Int /\ Cardinality(Smaller(s, v)) \in Int
      BY <2>2, SmallerAre
    <3>3. QED
      BY <2>1, <2>2, <2>3, <3>1, <3>2
  <2>4. CASE ~(w < v)
    <3>1. Cardinality(Smaller(s, v)) <= Cardinality(Smaller(s, w))
      BY <2>2, <2>4, SmallerGrows
    <3>2. Cardinality(Smaller(s, w)) \in Int /\ Cardinality(Smaller(s, v)) \in Int
      BY <2>2, SmallerAre
    <3>3. QED
      BY <2>1, <2>2, <2>4, <3>1, <3>2
  <2>5. QED
    BY <2>3, <2>4
<1>5. QED
  BY <1>3, <1>4

-----------------------------------------------------------------------------
(* Some elements of a sequence, in order: the indexes are numbered.        *)
Rank(I, i) == Cardinality({j \in I : j <= i})

(* The elements of a set of indexes are ranked from 1, each with a rank of *)
(* its own.                                                                *)
LEMMA Ranked ==
  ASSUME NEW n \in Nat, NEW I \in SUBSET (1 .. n)
  PROVE  /\ IsFiniteSet(I) /\ Cardinality(I) \in Nat
         /\ \A i \in I : Rank(I, i) \in 1 .. Cardinality(I)
         /\ \A i, j \in I : Rank(I, i) = Rank(I, j) => i = j
         /\ \A k \in 1 .. Cardinality(I) : \E i \in I : Rank(I, i) = k
<1> DEFINE upto(i) == {j \in I : j <= i}
<1>1. IsFiniteSet(I) /\ Cardinality(I) \in Nat
  BY UpTo, FS_Subset, FS_CardinalityType
<1>2. ASSUME NEW i \in I
      PROVE  IsFiniteSet(upto(i)) /\ Rank(I, i) \in 1 .. Cardinality(I)
  <2>1. IsFiniteSet(upto(i)) /\ Cardinality(upto(i)) <= Cardinality(I)
    BY <1>1, FS_Subset
  <2>2. Cardinality(upto(i)) \in Nat /\ Cardinality(upto(i)) # 0
    <3>1. i \in upto(i)
      OBVIOUS
    <3>2. upto(i) # {}
      BY <3>1
    <3> HIDE DEF upto
    <3>3. QED
      BY <2>1, <3>2, FS_CardinalityType, FS_EmptySet
  <2>3. QED
    BY <1>1, <2>1, <2>2 DEF Rank
<1>3. ASSUME NEW i \in I, NEW j \in I, i < j PROVE Rank(I, i) # Rank(I, j)
  <2>1. upto(i) \subseteq upto(j) /\ j \in upto(j) /\ j \notin upto(i)
    <3>1. i \in Int /\ j \in Int /\ \A m \in I : m \in Int
      OBVIOUS
    <3>2. j <= j /\ ~(j <= i) /\ \A m \in I : m <= i => m <= j
      BY <1>3, <3>1
    <3>3. QED
      BY <3>2
  <2>2. upto(i) # upto(j) /\ IsFiniteSet(upto(j)) /\ upto(i) \in SUBSET upto(j)
    BY <1>2, <2>1
  <2>3. Cardinality(upto(i)) # Cardinality(upto(j))
    <3> HIDE DEF upto
    <3>1. QED
      BY <2>2, FS_Subset
  <2>4. QED
    BY <2>3 DEF Rank
<1>4. ASSUME NEW i \in I, NEW j \in I, Rank(I, i) = Rank(I, j) PROVE i = j
  BY <1>3, <1>4
<1>5. ASSUME NEW k \in 1 .. Cardinality(I) PROVE \E i \in I : Rank(I, i) = k
  <2>1. PICK r : r = [i \in I |-> Rank(I, i)]
    OBVIOUS
  <2>2. r \in Injection(I, 1 .. Cardinality(I))
    BY <1>2, <1>4, <2>1 DEF Injection, IsInjective
  <2>3. IsFiniteSet(1 .. Cardinality(I)) /\ Cardinality(1 .. Cardinality(I)) = Cardinality(I)
    BY <1>1, UpTo
  <2>4. r \in Surjection(I, 1 .. Cardinality(I))
    BY <2>2, <2>3, FS_Injection
  <2>5. QED
    BY <2>1, <2>4 DEF Surjection
<1>6. QED
  BY <1>1, <1>2, <1>4, <1>5

(* Picking elements keeps what there is of each value.                     *)
LEMMA PickedIs ==
  ASSUME NEW s \in Seq(Int), NEW I \in SUBSET DOMAIN s
  PROVE  /\ IsFiniteSet(I) /\ Cardinality(I) \in Nat
         /\ Picked(s, I) \in Seq(Int) /\ Len(Picked(s, I)) = Cardinality(I)
         /\ \A k \in 1 .. Cardinality(I) : \E i \in I : Picked(s, I)[k] = s[i]
         /\ \A v \in Int : Cardinality(Smaller(Picked(s, I), v)) = Cardinality({i \in I : s[i] < v})
<1>1. Len(s) \in Nat /\ DOMAIN s = 1 .. Len(s) /\ I \in SUBSET (1 .. Len(s)) /\ \A i \in I : s[i] \in Int
  OBVIOUS
<1>2. PICK n : n = Cardinality(I)
  OBVIOUS
<1>3. /\ IsFiniteSet(I) /\ n \in Nat
      /\ \A i \in I : Rank(I, i) \in 1 .. n
      /\ \A i, j \in I : Rank(I, i) = Rank(I, j) => i = j
      /\ \A k \in 1 .. n : \E i \in I : Rank(I, i) = k
  BY <1>1, <1>2, Ranked
<1>4. PICK g : g = [k \in 1 .. n |-> CHOOSE i \in I : Rank(I, i) = k]
  OBVIOUS
<1>5. \A k \in 1 .. n : g[k] \in I /\ Rank(I, g[k]) = k
  BY <1>3, <1>4
<1>6. PICK p : p = Picked(s, I)
  OBVIOUS
<1>7. p = [k \in 1 .. n |-> s[g[k]]]
  BY <1>2, <1>4, <1>6 DEF Picked, Rank
<1>8. p \in Seq(Int) /\ Len(p) = n /\ DOMAIN p = 1 .. n /\ \A k \in 1 .. n : p[k] = s[g[k]]
  BY <1>1, <1>3, <1>5, <1>7
<1>9. ASSUME NEW v \in Int
      PROVE  Cardinality(Smaller(p, v)) = Cardinality({i \in I : s[i] < v})
  <2> DEFINE S == Smaller(p, v)
             T == {i \in I : s[i] < v}
  <2>1. IsFiniteSet(S)
    BY <1>8, SmallerAre
  <2>2. \A k \in S : k \in 1 .. n /\ g[k] \in T
    BY <1>5, <1>8 DEF Smaller
  <2>3. \A k, m \in S : g[k] = g[m] => k = m
    BY <1>5, <2>2
  <2>4. \A i \in T : \E k \in S : g[k] = i
    <3>1. SUFFICES ASSUME NEW i \in T PROVE \E k \in S : g[k] = i
      OBVIOUS
    <3>2. PICK k \in 1 .. n : k = Rank(I, i)
      BY <1>3
    <3>3. g[k] = i
      BY <1>3, <1>5, <3>2
    <3>4. k \in S
      BY <1>8, <3>3 DEF Smaller
    <3>5. QED
      BY <3>3, <3>4
  <2>5. QED
    <3> HIDE DEF S, T
    <3>1. Cardinality(T) = Cardinality(S)
      BY <2>1, <2>2, <2>3, <2>4, SameCount
    <3>2. QED
      BY <3>1 DEF S, T
<1>10. QED
  BY <1>2, <1>3, <1>5, <1>6, <1>8, <1>9

-----------------------------------------------------------------------------
(* The sequential partition.                                               *)
LEMMA SequentialParts ==
  ASSUME NEW s \in Seq(Int), Len(s) >= 1
  PROVE  LET L == Picked(s, Smaller(s, s[1]))
             R == Picked(s, NotSmaller(s, s[1]) \ {1})
         IN  /\ L \in Seq(Int) /\ R \in Seq(Int) /\ s[1] \in Int
             /\ Len(L) = PivotPosition(s) /\ Len(L) + 1 + Len(R) = Len(s)
             /\ PartitionedSequentially(s) = L \o <<s[1]>> \o R
             /\ PartitionedSequentially(s) \in Seq(Int)
             /\ Len(PartitionedSequentially(s)) = Len(s)
             /\ PivotPosition(s) \in 0 .. Len(s) - 1
<1> DEFINE L == Picked(s, Smaller(s, s[1]))
           R == Picked(s, NotSmaller(s, s[1]) \ {1})
<1>1. Len(s) \in Nat /\ DOMAIN s = 1 .. Len(s) /\ 1 \in 1 .. Len(s) /\ s[1] \in Int
  OBVIOUS
<1>2. /\ IsFiniteSet(NotSmaller(s, s[1]))
      /\ Cardinality(Smaller(s, s[1])) \in 0 .. Len(s)
      /\ Cardinality(NotSmaller(s, s[1])) \in 0 .. Len(s)
      /\ Cardinality(Smaller(s, s[1])) + Cardinality(NotSmaller(s, s[1])) = Len(s)
  BY <1>1, SmallerAre
<1>3. 1 \in NotSmaller(s, s[1])
  BY <1>1 DEF NotSmaller
<1>4. Cardinality(NotSmaller(s, s[1]) \ {1}) = Cardinality(NotSmaller(s, s[1])) - 1
  BY <1>2, <1>3, FS_RemoveElement
<1>5. L \in Seq(Int) /\ Len(L) = Cardinality(Smaller(s, s[1]))
  BY PickedIs DEF Smaller
<1>6. R \in Seq(Int) /\ Len(R) = Cardinality(NotSmaller(s, s[1]) \ {1})
  BY PickedIs DEF NotSmaller
<1> HIDE DEF L, R
<1>7. L \o <<s[1]>> \o R \in Seq(Int) /\ Len(L \o <<s[1]>> \o R) = Len(L) + 1 + Len(R)
  <2>1. <<s[1]>> \in Seq(Int) /\ Len(<<s[1]>>) = 1
    BY <1>1
  <2>2. PICK c : c = L \o <<s[1]>>
    OBVIOUS
  <2>3. c \in Seq(Int) /\ Len(c) = Len(L) + 1
    BY <1>5, <2>1, <2>2, ConcatProperties
  <2>4. c \o R \in Seq(Int) /\ Len(c \o R) = Len(c) + Len(R)
    BY <1>6, <2>3, ConcatProperties
  <2>5. QED
    BY <2>2, <2>3, <2>4
<1>8. Cardinality(NotSmaller(s, s[1]) \ {1}) \in Int
  BY <1>2, <1>4
<1>9. PartitionedSequentially(s) = L \o <<s[1]>> \o R
  BY DEF PartitionedSequentially, L, R
<1>10. /\ Len(L) = PivotPosition(s) /\ Len(L) + 1 + Len(R) = Len(s)
       /\ PivotPosition(s) \in 0 .. Len(s) - 1
  BY <1>1, <1>2, <1>3, <1>4, <1>5, <1>6, FS_EmptySet DEF PivotPosition
<1>11. QED
  BY <1>1, <1>5, <1>6, <1>7, <1>9, <1>10 DEF L, R

-----------------------------------------------------------------------------
(* Reading and writing parts of an array.                                  *)
LEMMA OverwriteIs ==
  ASSUME NEW n \in Nat, NEW cells \in [0 .. n - 1 -> Int], NEW from \in Int, NEW new \in Seq(Int)
  PROVE  /\ Overwrite(cells, from, new) \in [0 .. n - 1 -> Int]
         /\ \A i \in 0 .. n - 1 :
              /\ i \in from .. from + Len(new) - 1 =>
                   Overwrite(cells, from, new)[i] = new[i - from + 1]
              /\ i \notin from .. from + Len(new) - 1 =>
                   Overwrite(cells, from, new)[i] = cells[i]
<1>1. ASSUME NEW i \in 0 .. n - 1, i \in from .. from + Len(new) - 1
      PROVE  new[i - from + 1] \in Int
  BY <1>1
<1>2. DOMAIN cells = 0 .. n - 1 /\ \A i \in 0 .. n - 1 : cells[i] \in Int
  OBVIOUS
<1>3. QED
  BY <1>1, <1>2 DEF Overwrite

(* A slice of an array has the elements of the segment.                    *)
LEMMA SliceIs ==
  ASSUME NEW n \in Nat, NEW cells \in [0 .. n - 1 -> Int], NEW from \in Nat, NEW to \in 0 .. n,
         from <= to
  PROVE  /\ Slice(cells, from, to) \in Seq(Int)
         /\ Len(Slice(cells, from, to)) = to - from
         /\ \A i \in 1 .. to - from : /\ Slice(cells, from, to)[i] = cells[from + i - 1]
                                      /\ from + i - 1 \in 0 .. n - 1
<1>1. ASSUME NEW i \in 1 .. to - from PROVE from + i - 1 \in 0 .. n - 1
  OBVIOUS
<1>2. to - from \in Nat
  OBVIOUS
<1>3. Slice(cells, from, to) \in [1 .. to - from -> Int]
  BY <1>1 DEF Slice
<1>4. Slice(cells, from, to) \in Seq(Int) /\ Len(Slice(cells, from, to)) = to - from
  BY <1>2, <1>3
<1>5. QED
  BY <1>1, <1>4 DEF Slice

(* The quotient and the remainder are the only ones.                       *)
LEMMA DivUnique ==
  ASSUME NEW n \in Nat \ {0}, NEW q \in Nat, NEW r \in 0 .. n - 1
  PROVE  (q * n + r) \div n = q /\ (q * n + r) % n = r
<1>1. PICK a, y : a = y + r /\ y = q * n
  OBVIOUS
<1>2. a \in Nat /\ y \in Nat /\ a = y + r
  BY <1>1
<1>3. PICK d, e, x : d = a \div n /\ e = a % n /\ x = d * n
  OBVIOUS
<1>4. d \in Nat /\ e \in 0 .. n - 1 /\ a = x + e /\ x \in Int
  <2>1. d \in Nat /\ e \in 0 .. n - 1 /\ a = x + e
    BY <1>2, <1>3, DivMod
  <2>2. QED
    BY <1>3, <2>1
<1>5. d = q
  <2>1. ASSUME d < q PROVE FALSE
    BY <1>1, <1>2, <1>3, <1>4, <2>1
  <2>2. ASSUME q < d PROVE FALSE
    BY <1>1, <1>2, <1>3, <1>4, <2>2
  <2>3. QED
    BY <1>4, <2>1, <2>2
<1>6. e = r
  BY <1>1, <1>2, <1>4, <1>5, <1>3
<1>7. QED
  BY <1>1, <1>5, <1>6, <1>3

(* The numbers with quotient i.                                            *)
LEMMA DivIs ==
  ASSUME NEW n \in Nat \ {0}, NEW a \in Nat, NEW i \in Nat
  PROVE  a \div n = i <=> i * n <= a /\ a < i * n + n
<1>1. PICK x, q, y, r : x = i * n /\ q = a \div n /\ y = q * n /\ r = a % n
  OBVIOUS
<1>2. q \in Nat /\ y \in Int /\ y <= a /\ a < y + n /\ x \in Nat
  BY <1>1, DivMod
<1>3. ASSUME x <= a, a < x + n PROVE q = i
  BY <1>1, <1>2, <1>3, DivUnique
<1>4. QED
  BY <1>1, <1>2, <1>3

(* What is added to the packed counters is added to each, as long as the   *)
(* one on the left does not overflow.                                      *)
LEMMA CountersAdd ==
  ASSUME HALF \in Nat \ {0}, NEW c \in Nat, NEW l \in Nat, NEW r \in Nat, LeftCount(c) + l < HALF
  PROVE  /\ c + (r * HALF + l) \in Nat
         /\ LeftCount(c + (r * HALF + l)) = LeftCount(c) + l
         /\ RightCount(c + (r * HALF + l)) = RightCount(c) + r
<1>1. PICK q, m, x, y : q = c \div HALF /\ m = c % HALF /\ x = q * HALF /\ y = r * HALF
  OBVIOUS
<1>2. q \in Nat /\ m \in 0 .. HALF - 1 /\ c = x + m /\ x \in Int /\ y \in Nat
  <2>1. q \in Nat /\ m \in 0 .. HALF - 1 /\ c = x + m
    BY <1>1, DivMod
  <2>2. x \in Int /\ y \in Nat
    BY <1>1, <2>1
  <2>3. QED
    BY <2>1, <2>2
<1>3. q + r \in Nat /\ m + l \in 0 .. HALF - 1
  BY <1>1, <1>2 DEF LeftCount
<1>4. PICK z, w : z = q + r /\ w = m + l
  OBVIOUS
<1>5. (z * HALF + w) \div HALF = z /\ (z * HALF + w) % HALF = w
  BY <1>3, <1>4, DivUnique
<1>6. z * HALF = x + y
  BY <1>1, <1>2, <1>4
<1>7. PICK e : e = c + (r * HALF + l)
  OBVIOUS
<1>8. e = z * HALF + w /\ e \in Nat
  BY <1>1, <1>2, <1>4, <1>6, <1>7
<1>9. LeftCount(e) = LeftCount(c) + l /\ RightCount(e) = RightCount(c) + r
  BY <1>1, <1>4, <1>5, <1>8 DEF LeftCount, RightCount
<1>10. QED
  BY <1>7, <1>8, <1>9

(* Reversing a sequence of integers gives one of the same length.          *)
LEMMA ReverseIs ==
  ASSUME NEW s \in Seq(Int)
  PROVE  /\ Reverse(s) \in Seq(Int) /\ Len(Reverse(s)) = Len(s)
         /\ \A i \in 1 .. Len(s) : Reverse(s)[i] = s[Len(s) - i + 1]
<1>1. PICK n : n = Len(s)
  OBVIOUS
<1>2. n \in Nat /\ \A i \in 1 .. n : s[i] \in Int
  BY <1>1
<1>3. \A i \in 1 .. n : n - i + 1 \in 1 .. n
  BY <1>2
<1>4. Reverse(s) = [i \in 1 .. n |-> s[(n - i) + 1]]
  BY <1>1 DEF Reverse
<1>5. Reverse(s) \in [1 .. n -> Int]
  BY <1>2, <1>3, <1>4
<1>6. Reverse(s) \in Seq(Int) /\ Len(Reverse(s)) = n
  BY <1>2, <1>5
<1>7. QED
  BY <1>1, <1>4, <1>6

(* The two parts of a block and their places.                              *)
PartsReserved(new, s, from, to, c) ==
  /\ new.left \in Seq(Int) /\ new.right \in Seq(Int)
  /\ Len(new.left) \in Nat /\ Len(new.right) \in Nat
  /\ Len(new.left) + Len(new.right) = Len(s)
  /\ new.left_offset = from + LeftCount(c)
  /\ new.right_offset = to - Len(new.right) - RightCount(c)
  /\ new = [left |-> new.left, right |-> new.right, left_offset |-> new.left_offset,
            right_offset |-> new.right_offset]

(* A partitioned block has its elements on the left and the right, and     *)
(* what the fetch_add adds reserves as many places.                        *)
LEMMA PartitionedIs ==
  ASSUME NEW s \in Seq(Int), NEW value \in Int, NEW from, NEW to, NEW c,
         NEW new, new = Partitioned(s, value, from, to, c)
  PROVE  PartsReserved(new, s, from, to, c)
<1>1. PICK L, P, R : /\ L = Picked(s, Smaller(s, value)) /\ P = Picked(s, NotSmaller(s, value))
                     /\ R = Reverse(P)
  OBVIOUS
<1>2. L \in Seq(Int) /\ Len(L) = Cardinality(Smaller(s, value))
  BY <1>1, PickedIs DEF Smaller
<1>3. P \in Seq(Int) /\ Len(P) = Cardinality(NotSmaller(s, value))
  BY <1>1, PickedIs DEF NotSmaller
<1>4. R \in Seq(Int) /\ Len(R) = Len(P)
  BY <1>1, <1>3, ReverseIs
<1>5. Len(L) + Len(R) = Len(s) /\ Len(L) \in Nat /\ Len(R) \in Nat
  BY <1>2, <1>3, <1>4, SmallerAre
<1>6. new = [left |-> L, right |-> R, left_offset |-> from + LeftCount(c),
             right_offset |-> to - Len(R) - RightCount(c)]
  BY <1>1 DEF Partitioned, RightOffset
<1>7. QED
  BY <1>2, <1>4, <1>5, <1>6 DEF PartsReserved

(* The places that are reserved are new, and next to the ones before.      *)
LEMMA PlacesReserved ==
  ASSUME NEW from \in Nat, NEW to \in Nat, NEW p \in Nat, NEW q \in Nat, NEW x \in Nat, NEW y \in Nat,
         p + x + q + y <= to - from
  PROVE  /\ from + p \in Nat /\ to - y - q \in Nat
         /\ from + p .. from + p + x - 1 \subseteq from .. from + (p + x) - 1
         /\ to - y - q .. to - y - q + y - 1 \subseteq to - (q + y) .. to - 1
         /\ from .. from + p - 1 \subseteq from .. from + (p + x) - 1
         /\ to - q .. to - 1 \subseteq to - (q + y) .. to - 1
         /\ ((from + p .. from + p + x - 1) \cup (to - y - q .. to - y - q + y - 1))
              \cap ((from .. from + p - 1) \cup (to - q .. to - 1)) = {}
<1>1. from + p \in Nat /\ to - y - q \in Nat
  OBVIOUS
<1>2. from + p .. from + p + x - 1 \subseteq from .. from + (p + x) - 1
  OBVIOUS
<1>3. to - y - q .. to - y - q + y - 1 \subseteq to - (q + y) .. to - 1
  OBVIOUS
<1>4. from .. from + p - 1 \subseteq from .. from + (p + x) - 1
  OBVIOUS
<1>5. to - q .. to - 1 \subseteq to - (q + y) .. to - 1
  OBVIOUS
<1>6. \A i \in Int : ~(i \in from + p .. from + p + x - 1 /\ i \in from .. from + p - 1)
  OBVIOUS
<1>7. \A i \in Int : ~(i \in from + p .. from + p + x - 1 /\ i \in to - q .. to - 1)
  OBVIOUS
<1>8. \A i \in Int : ~(i \in to - y - q .. to - y - q + y - 1 /\ i \in from .. from + p - 1)
  OBVIOUS
<1>9. \A i \in Int : ~(i \in to - y - q .. to - y - q + y - 1 /\ i \in to - q .. to - 1)
  OBVIOUS
<1>10. QED
  BY <1>1, <1>2, <1>3, <1>4, <1>5, <1>6, <1>7, <1>8, <1>9
(* The number of blocks of k elements, and the block of each of them.      *)
LEMMA CeilIs ==
  ASSUME NEW k \in Nat \ {0}, NEW n \in Nat \ {0}
  PROVE  CeilDiv(k, n) \in 0 .. k /\ \A j \in 0 .. k - 1 : j \div n \in 0 .. CeilDiv(k, n) - 1
<1>1. PICK a, q, r, m : a = k + n - 1 /\ q = a \div n /\ r = a % n /\ m = q * n
  OBVIOUS
<1>2. /\ a \in Nat /\ q \in Nat /\ r \in 0 .. n - 1 /\ a = m + r /\ m \in Nat
  BY <1>1, DivMod
<1>3. CeilDiv(k, n) = q /\ k <= m /\ m <= k + n - 1
  BY <1>1, <1>2 DEF CeilDiv
<1>4. q <= k
  <2>1. SUFFICES ASSUME q >= k + 1 PROVE FALSE
    BY <1>2
  <2>2. m >= (k + 1) * n
    BY <1>1, <1>2, <2>1
  <2>3. (k + 1) * n = k * n + n /\ k * n >= k
    OBVIOUS
  <2>4. PICK x : x = k * n
    OBVIOUS
  <2>5. QED
    BY <1>2, <1>3, <2>2, <2>3, <2>4
<1>5. ASSUME NEW j \in 0 .. k - 1 PROVE j \div n \in 0 .. q - 1
  <2>1. PICK e, x : e = j \div n /\ x = e * n
    OBVIOUS
  <2>2. e \in Nat /\ x <= j /\ x \in Nat
    BY <2>1, DivMod, DivTimes
  <2>3. e < q
    <3>1. SUFFICES ASSUME e >= q PROVE FALSE
      BY <1>2, <2>2
    <3>2. x >= m
      BY <1>1, <1>2, <2>1, <2>2, <3>1
    <3>3. QED
      BY <1>2, <1>3, <2>2, <3>2
  <2>4. QED
    BY <1>2, <2>1, <2>2, <2>3
<1>6. QED
  BY <1>2, <1>3, <1>4, <1>5
(* Division is monotone.                                                   *)
LEMMA DivGrows ==
  ASSUME NEW n \in Nat \ {0}, NEW a \in Nat, NEW b \in Nat, a <= b
  PROVE  a \div n \in Nat /\ b \div n \in Nat /\ a \div n <= b \div n
<1>1. PICK p, q, x, y, s : p = a \div n /\ q = b \div n /\ x = p * n /\ y = q * n /\ s = b % n
  OBVIOUS
<1>2. p \in Nat /\ q \in Nat /\ x <= a /\ b = y + s /\ s \in 0 .. n - 1 /\ x \in Int /\ y \in Int
  <2>1. p \in Nat /\ x \in 0 .. a
    BY <1>1, DivMod, DivTimes
  <2>2. q \in Nat /\ b = y + s /\ s \in 0 .. n - 1
    BY <1>1, DivMod
  <2>3. y \in Int
    BY <1>1, <2>2
  <2>4. QED
    BY <2>1, <2>2, <2>3
<1>3. p <= q
  <2>1. SUFFICES ASSUME p >= q + 1 PROVE FALSE
    BY <1>2
  <2>2. x >= (q + 1) * n
    BY <1>1, <1>2, <2>1
  <2>3. (q + 1) * n = y + n
    BY <1>1, <1>2
  <2>4. QED
    BY <1>2, <2>2, <2>3
<1>4. QED
  BY <1>1, <1>2, <1>3

(* The bounds of the i-th of n parts of an array of k elements.            *)
LEMMA PartBounds ==
  ASSUME NEW n \in Nat \ {0}, NEW k \in Nat, NEW i \in 1 .. n
  PROVE  /\ (k * (i - 1)) \div n \in 0 .. k /\ (k * i) \div n \in 0 .. k
         /\ (k * (i - 1)) \div n <= (k * i) \div n
<1>1. PICK a, b, c : a = k * (i - 1) /\ b = k * i /\ c = k * n
  OBVIOUS
<1>2. a \in Nat /\ b \in Nat /\ c \in Nat /\ a <= b /\ b <= c
  BY <1>1
<1>3. c \div n = k
  BY <1>1, <1>2, DivUnique
<1>4. a \div n \in Nat /\ b \div n \in Nat /\ a \div n <= b \div n /\ b \div n <= c \div n
  BY <1>2, DivGrows
<1>5. QED
  BY <1>1, <1>3, <1>4

-----------------------------------------------------------------------------
Labels == ClaimLabels \cup TaskLabels \cup {"createFirst", "pushFirst", "pushParts", "finish"}

(* The places, one by one, before and after a step.                        *)
IsPlace(p) ==
  \E t \in Threads :
    \/ \E i \in DOMAIN workers[t] : p = <<"deque", t, i>>
    \/ \E i \in DOMAIN subtasks[t] : p = <<"push", t, i>>
    \/ pc[t] \in TaskLabels /\ p = <<"thread", t, 1>>

(* The places are what IsPlace says, before and after a step.              *)
LEMMA PlacesAre ==
  /\ \A p : p \in Places <=> IsPlace(p)
  /\ \A p : p \in Places' <=> IsPlace(p)'
BY DEF IsPlace, Places, InDeque, ToPush, InHand

(* The places, one kind at a time.                                         *)
LEMMA PlacesByKind ==
  /\ \A t, i : <<"deque", t, i>> \in Places <=> t \in Threads /\ i \in DOMAIN workers[t]
  /\ \A t, i : <<"push", t, i>> \in Places <=> t \in Threads /\ i \in DOMAIN subtasks[t]
  /\ \A t : <<"thread", t, 1>> \in Places <=> t \in Threads /\ pc[t] \in TaskLabels
BY PlacesAre DEF IsPlace

(* The same after a step.                                                  *)
LEMMA PlacesByKindThen ==
  /\ \A t, i : <<"deque", t, i>> \in Places' <=> t \in Threads /\ i \in DOMAIN workers'[t]
  /\ \A t, i : <<"push", t, i>> \in Places' <=> t \in Threads /\ i \in DOMAIN subtasks'[t]
  /\ \A t : <<"thread", t, 1>> \in Places' <=> t \in Threads /\ pc'[t] \in TaskLabels
BY PlacesAre DEF IsPlace

(* The task at a place, and its stage.                                     *)
LEMMA TasksAt ==
  /\ \A t, i : TaskAt(<<"deque", t, i>>) = workers[t][i] /\ Stage(<<"deque", t, i>>) = "run"
  /\ \A t, i : TaskAt(<<"push", t, i>>) = subtasks[t][i] /\ Stage(<<"push", t, i>>) = "run"
  /\ \A t : TaskAt(<<"thread", t, 1>>) = task[t] /\ Stage(<<"thread", t, 1>>) = pc[t]
BY DEF TaskAt, Stage

(* The task and the stage of a place after a step, by the kind of the      *)
(* place.                                                                  *)
LEMMA TasksAtThen ==
  /\ \A t, i : TaskAt(<<"deque", t, i>>)' = workers'[t][i] /\ Stage(<<"deque", t, i>>)' = "run"
  /\ \A t, i : TaskAt(<<"push", t, i>>)' = subtasks'[t][i] /\ Stage(<<"push", t, i>>)' = "run"
  /\ \A t : TaskAt(<<"thread", t, 1>>)' = task'[t] /\ Stage(<<"thread", t, 1>>)' = pc'[t]
BY DEF TaskAt, Stage

(* What is known of the array and the constants.                           *)
LEMMA InputType ==
  ASSUME TypeOK
  PROVE  /\ input \in Seq(Nat) /\ Len(input) \in Nat /\ Len(input) < HALF
         /\ HALF \in Nat \ {0} /\ BLOCK_SIZE \in Nat \ {0}
         /\ \A a : a \in 0 .. Len(input) => a \in Nat
BY QuicksortDequeAssumption DEF TypeOK

(* The tasks by their kind.                                                *)
LEMMA TasksAre ==
  ASSUME TypeOK, NEW d \in Tasks
  PROVE  /\ Kind(d) \in {"reset", "sequential", "recursion", "partition"}
         /\ d # NoTask
         /\ From(d) \in 0 .. Len(input) /\ To(d) \in 0 .. Len(input) /\ From(d) <= To(d)
         /\ Flipped(d) \in BOOLEAN
         /\ d[2] = <<From(d), To(d), Flipped(d)>>
         /\ Kind(d) # "reset" => d[2] \in Sorts /\ From(d) < To(d)
         /\ Kind(d) = "recursion" => Length(d) >= 4
         /\ Kind(d) = "partition" => /\ d = <<"partition", d[2], d[3], d[4]>>
                                     /\ d[3] \in Nat /\ d[4] \in Nat /\ d[3] <= d[4]
                                     /\ d[4] <= Blocks(From(d), To(d))
<1> USE DEF Kind, From, To, Flipped, Length
<1>1. \A s \in Segments : /\ s[1] \in 0 .. Len(input) /\ s[2] \in 0 .. Len(input) /\ s[1] <= s[2]
                          /\ s[3] \in BOOLEAN /\ s = <<s[1], s[2], s[3]>>
  BY DEF Segments
<1>2. \A s \in Sorts : /\ s[1] \in 0 .. Len(input) /\ s[2] \in 0 .. Len(input) /\ s[1] < s[2]
                       /\ s[3] \in BOOLEAN /\ s = <<s[1], s[2], s[3]>>
  BY DEF Sorts
<1>3. CASE d \in {"reset"} \X Segments
  BY <1>1, <1>3 DEF NoTask
<1>4. CASE d \in {"sequential"} \X Sorts
  BY <1>2, <1>4 DEF NoTask
<1>5. CASE d \in {"recursion"} \X {s \in Sorts : s[2] - s[1] >= SEQUENTIAL_CUTOFF}
  <2>. DEFINE Long == {s \in Sorts : s[2] - s[1] >= SEQUENTIAL_CUTOFF}
  <2>1. \A s \in Long : s \in Sorts /\ s[2] - s[1] >= SEQUENTIAL_CUTOFF
    OBVIOUS
  <2>2. d \in {"recursion"} \X Long
    BY <1>5
  <2>. HIDE DEF Long
  <2>3. d[1] = "recursion" /\ d[2] \in Long /\ d # NoTask
    BY <2>2 DEF NoTask
  <2>4. d[2] \in Sorts /\ d[2][2] - d[2][1] >= SEQUENTIAL_CUTOFF
    BY <2>1, <2>3
  <2>5. SEQUENTIAL_CUTOFF \in Nat /\ 4 <= SEQUENTIAL_CUTOFF
    BY QuicksortDequeAssumption
  <2>6. d[2][2] - d[2][1] >= 4
    BY <1>2, <2>4, <2>5, InputType
  <2>7. QED
    BY <1>2, <2>4, <2>6, <2>3
<1>6. CASE d \in {e \in {"partition"} \X Sorts \X (0 .. Len(input)) \X (0 .. Len(input)) :
                    e[3] <= e[4] /\ e[4] <= Blocks(From(e), To(e))}
  <2>1. d \in {"partition"} \X Sorts \X (0 .. Len(input)) \X (0 .. Len(input))
    BY <1>6
  <2>2. d[1] = "partition" /\ d[2] \in Sorts /\ d[3] \in 0 .. Len(input) /\ d[4] \in 0 .. Len(input)
        /\ d = <<d[1], d[2], d[3], d[4]>>
    BY <2>1
  <2>3. d # NoTask
    <3>1. PICK a, b, c, e : d = <<a, b, c, e>>
      BY <2>2
    <3>2. QED
      BY <3>1 DEF NoTask
  <2>4. d[3] <= d[4] /\ d[4] <= Blocks(From(d), To(d))
    BY <1>6
  <2>5. QED
    BY <1>2, <2>2, <2>3, <2>4, InputType
<1>7. QED
  BY <1>3, <1>4, <1>5, <1>6 DEF Tasks

(* Every place has a task.                                                 *)
LEMMA TaskAtType ==
  ASSUME TypeOK, \A t \in Threads : ThreadInv(t), NEW p \in Places
  PROVE  TaskAt(p) \in Tasks
<1>1. PICK t \in Threads : \/ \E i \in DOMAIN workers[t] : p = <<"deque", t, i>>
                           \/ \E i \in DOMAIN subtasks[t] : p = <<"push", t, i>>
                           \/ pc[t] \in TaskLabels /\ p = <<"thread", t, 1>>
  BY PlacesAre DEF IsPlace
<1>2. /\ workers[t] \in Seq(Tasks) /\ subtasks[t] \in Seq(Tasks)
      /\ task[t] \in Tasks \cup {NoTask}
  BY DEF TypeOK
<1>3. CASE \E i \in DOMAIN workers[t] : p = <<"deque", t, i>>
  BY <1>2, <1>3, TasksAt
<1>4. CASE \E i \in DOMAIN subtasks[t] : p = <<"push", t, i>>
  BY <1>2, <1>4, TasksAt
<1>5. CASE pc[t] \in TaskLabels /\ p = <<"thread", t, 1>>
  BY <1>2, <1>5, TasksAt DEF ThreadInv, TaskLabels, PartitionLabels, ClaimLabels
<1>6. QED
  BY <1>1, <1>3, <1>4, <1>5

(* What a step keeps of the place p when it becomes the place q.           *)
KeptAs(p, q) ==
  /\ TaskAt(q)' = TaskAt(p)
  /\ Refers(q)' <=> Refers(p)
  /\ Region(q)' \subseteq Region(p)
  /\ Refers(p) => BlocksAt(q)' = BlocksAt(p)

(* The references to a Sort object are the places that refer to it.        *)
LEMMA ReferencesAre ==
  /\ \A s, p : p \in References(s) <=> p \in Places /\ Refers(p) /\ TaskAt(p)[2] = s
  /\ \A s, p : p \in References(s)' <=> p \in Places' /\ Refers(p)' /\ (TaskAt(p)[2])' = s
BY DEF PartitionLabels, References, Refers, Stage

(* The steps that move tasks, in one: the places of the tasks before and   *)
(* after a step correspond.                                                *)
LEMMA Moved ==
  ASSUME TypeOK, PlacesInv, pending_tasks' = pending_tasks, reference_count' = reference_count,
         counters' = counters, input' = input,
         NEW f \in [Places -> Places'],
         \A p, q \in Places : f[p] = f[q] => p = q,
         \A q \in Places' : \E p \in Places : f[p] = q,
         \A p \in Places, q \in Places' : q = f[p] => KeptAs(p, q)
  PROVE  PlacesInv'
<1>1. ASSUME NEW q \in Places'
      PROVE  \E p \in Places : f[p] = q /\ KeptAs(p, q)
  OBVIOUS
<1>2. ASSUME NEW p \in Places
      PROVE  f[p] \in Places' /\ \A q : q = f[p] => KeptAs(p, q)
  OBVIOUS
<1>3. Sorts' = Sorts
  BY DEF Sorts
<1>4. PendingCountsTasks'
  <2>1. Objects' = Objects
    <3>1. ASSUME NEW s, s \in Objects PROVE s \in Objects'
      <4>1. PICK p \in Places : Kind(TaskAt(p)) = "partition" /\ s = TaskAt(p)[2]
        BY <3>1 DEF Objects, Partitions
      <4>2. PICK q : q = f[p]
        OBVIOUS
      <4>3. q \in Places' /\ TaskAt(q)' = TaskAt(p)
        BY <1>2, <4>2 DEF KeptAs
      <4>4. QED
        BY <4>1, <4>3 DEF Objects, Partitions, Kind
    <3>2. ASSUME NEW s, s \in Objects' PROVE s \in Objects
      <4>1. PICK q \in Places' : Kind(TaskAt(q))' = "partition" /\ s = TaskAt(q)[2]'
        BY <3>2 DEF Objects, Partitions
      <4>2. PICK p \in Places : TaskAt(q)' = TaskAt(p)
        BY <1>1 DEF KeptAs
      <4>3. QED
        BY <4>1, <4>2 DEF Objects, Partitions, Kind
    <3>3. QED
      BY <3>1, <3>2
  <2>2. \A p \in Singles : f[p] \in Singles'
    <3>1. SUFFICES ASSUME NEW p \in Singles PROVE f[p] \in Singles'
      OBVIOUS
    <3>2. PICK q : q = f[p]
      OBVIOUS
    <3>3. p \in Places /\ q \in Places' /\ TaskAt(q)' = TaskAt(p)
      BY <1>2, <3>2 DEF KeptAs, Singles
    <3>4. QED
      BY <3>2, <3>3 DEF Singles, Partitions, Kind
  <2>3. \A q \in Singles' : \E p \in Singles : f[p] = q
    <3>1. SUFFICES ASSUME NEW q \in Singles' PROVE \E p \in Singles : f[p] = q
      OBVIOUS
    <3>2. PICK p \in Places : f[p] = q /\ TaskAt(q)' = TaskAt(p)
      BY <1>1 DEF KeptAs, Singles
    <3>3. QED
      BY <3>1, <3>2 DEF Singles, Partitions, Kind
  <2>4. IsFiniteSet(Singles') /\ Cardinality(Singles') = Cardinality(Singles)
    BY <2>2, <2>3, SameCount DEF Singles, PlacesInv, PendingCountsTasks
  <2>5. QED
    BY <2>1, <2>4 DEF PlacesInv, PendingCountsTasks
<1>5. ASSUME NEW s \in Sorts
      PROVE  /\ IsFiniteSet(References(s)') /\ Cardinality(References(s)') = Cardinality(References(s))
             /\ References(s)' # {} => References(s) # {}
             /\ Unreserved(s)' = Unreserved(s)
  <2>1. \A p \in References(s) : f[p] \in References(s)'
    <3>1. SUFFICES ASSUME NEW p \in References(s) PROVE f[p] \in References(s)'
      OBVIOUS
    <3>2. PICK q : q = f[p]
      OBVIOUS
    <3>3. p \in Places /\ q \in Places' /\ KeptAs(p, q) /\ Refers(p) /\ TaskAt(p)[2] = s
      BY <1>2, <3>2, ReferencesAre
    <3>4. QED
      BY <3>2, <3>3, ReferencesAre DEF KeptAs
  <2>2. ASSUME NEW q \in References(s)'
        PROVE  \E p \in References(s) : f[p] = q /\ BlocksAt(q)' = BlocksAt(p)
    <3>1. q \in Places' /\ Refers(q)' /\ TaskAt(q)[2]' = s
      BY ReferencesAre
    <3>2. PICK p \in Places : f[p] = q /\ KeptAs(p, q)
      BY <1>1, <3>1
    <3>3. QED
      BY <3>1, <3>2, ReferencesAre DEF KeptAs
  <2>3. IsFiniteSet(References(s)') /\ Cardinality(References(s)') = Cardinality(References(s))
    BY <2>1, <2>2, ReferencesAre, SameCount DEF PlacesInv, ReferencesCounted
  <2>4. \A b : (\E p \in References(s) : b \in BlocksAt(p)) <=> \E q \in References(s)' : b \in BlocksAt(q)'
    <3>1. ASSUME NEW b, NEW p \in References(s), b \in BlocksAt(p)
          PROVE  \E q \in References(s)' : b \in BlocksAt(q)'
      <4>1. PICK q : q = f[p]
        OBVIOUS
      <4>2. q \in References(s)' /\ BlocksAt(q)' = BlocksAt(p)
        BY <1>2, <2>1, <4>1, ReferencesAre DEF KeptAs
      <4>3. QED
        BY <3>1, <4>2
    <3>2. QED
      BY <2>2, <3>1
  <2>5. Unreserved(s)' = Unreserved(s)
    BY <2>4 DEF Unreserved, BlockOf
  <2>6. QED
    BY <2>2, <2>3, <2>5
<1>6. ReferencesCounted'
  BY <1>3, <1>5 DEF PlacesInv, ReferencesCounted
<1>7. ElementsCounted'
  BY <1>3, <1>5 DEF PlacesInv, ElementsCounted, Ready
<1>8. ASSUME NEW p \in Places', NEW q \in Places', p # q
      PROVE  /\ ~SameSort(p, q)' => Region(p)' \cap Region(q)' = {}
             /\ SameSort(p, q)' => BlocksAt(p)' \cap BlocksAt(q)' = {}
  <2>1. PICK u \in Places : f[u] = p /\ KeptAs(u, p)
    BY <1>1
  <2>2. PICK v \in Places : f[v] = q /\ KeptAs(v, q)
    BY <1>1
  <2>3. u # v /\ (SameSort(p, q)' <=> SameSort(u, v))
    BY <1>8, <2>1, <2>2 DEF KeptAs, SameSort
  <2>4. CASE ~SameSort(u, v)
    BY <2>1, <2>2, <2>3, <2>4 DEF PlacesInv, RegionsApart, KeptAs
  <2>5. CASE SameSort(u, v)
    BY <2>1, <2>2, <2>3, <2>5 DEF PlacesInv, BlocksApart, SameSort, KeptAs
  <2>6. QED
    BY <2>4, <2>5
<1>9. RegionsApart' /\ BlocksApart'
  BY <1>8 DEF RegionsApart, BlocksApart
<1>10. (ResetLeft => \A p \in Places : Kind(TaskAt(p)) = "reset")'
  <2>1. ASSUME NEW q \in Places', Kind(TaskAt(q))' = "reset", NEW r \in Places'
        PROVE  Kind(TaskAt(r))' = "reset"
    <3>1. PICK p \in Places : TaskAt(q)' = TaskAt(p)
      BY <1>1 DEF KeptAs
    <3>2. PICK u \in Places : TaskAt(r)' = TaskAt(u)
      BY <1>1 DEF KeptAs
    <3>3. Kind(TaskAt(p)) = "reset"
      BY <2>1, <3>1 DEF Kind
    <3>4. Kind(TaskAt(u)) = "reset"
      BY <3>3 DEF PlacesInv, ResetLeft
    <3>5. QED
      BY <3>2, <3>4 DEF Kind
  <2>2. QED
    BY <2>1 DEF ResetLeft
<1>11. QED
  BY <1>4, <1>6, <1>7, <1>9, <1>10 DEF PlacesInv

(* A step that leaves all tasks where they are.                            *)
LEMMA Stays ==
  ASSUME TypeOK, PlacesInv, pending_tasks' = pending_tasks, reference_count' = reference_count,
         counters' = counters, input' = input,
         Places' = Places, \A p \in Places : KeptAs(p, p)
  PROVE  PlacesInv'
<1>1. PICK f : f = [p \in Places |-> p]
  OBVIOUS
<1>2. /\ f \in [Places -> Places'] /\ \A p, q \in Places : f[p] = f[q] => p = q
      /\ \A q \in Places' : \E p \in Places : f[p] = q
      /\ \A p \in Places, q \in Places' : q = f[p] => KeptAs(p, q)
  BY <1>1
<1>3. QED
  BY <1>2, Moved

-----------------------------------------------------------------------------
(* The threads in a step of thread t.                                      *)

(* What Goto changes.                                                      *)
LEMMA Goes ==
  ASSUME TypeOK, NEW t \in Threads, NEW l \in Labels, Goto(t, l)
  PROVE  /\ pc' \in [Threads -> Labels] /\ pc'[t] = l
         /\ \A u \in Threads \ {t} : pc'[u] = pc[u]
BY DEF TypeOK, Goto, Labels

(* What a step of thread t leaves of the other threads.                    *)
Aside(t) ==
  \A u \in Threads \ {t} :
    /\ pc'[u] = pc[u] /\ task'[u] = task[u] /\ subtasks'[u] = subtasks[u]
    /\ pivot'[u] = pivot[u] /\ values'[u] = values[u]

(* A step of thread t keeps what is known of the others when it neither    *)
(* moves counters back nor reserves places of theirs.                      *)
LEMMA ThreadsGo ==
  ASSUME \A u \in Threads : ThreadInv(u), CopiesApart, NEW t \in Threads, Aside(t),
         \A u \in Threads \ {t} :
           /\ pc[u] \in Complete /\ Kind(task[u]) = "partition" =>
                Ready(task[u][2])' = Ready(task[u][2])
           /\ Copying(u) => /\ LeftArea(task[u][2]) \subseteq LeftArea(task[u][2])'
                            /\ RightArea(task[u][2]) \subseteq RightArea(task[u][2])'
           /\ Copying(t)' /\ Copying(u) /\ task'[t][2] = task[u][2] =>
                PlacesOf(values'[t]) \cap PlacesOf(values[u]) = {},
         ThreadInv(t)'
  PROVE  (\A u \in Threads : ThreadInv(u)') /\ CopiesApart'
<1>1. ASSUME NEW u \in Threads \ {t} PROVE ThreadInv(u)'
  <2>1. /\ pc'[u] = pc[u] /\ task'[u] = task[u] /\ subtasks'[u] = subtasks[u]
        /\ pivot'[u] = pivot[u] /\ values'[u] = values[u]
    BY DEF Aside
  <2>2. ThreadInv(u)
    OBVIOUS
  <2>3. (IF pc[u] \in ClaimLabels THEN task[u] = NoTask
         ELSE task[u] # NoTask /\ Kind(task[u]) \in KindsAt(pc[u]))'
    BY <2>1, <2>2 DEF ThreadInv, Kind, KindsAt
  <2>4. (subtasks[u] # <<>> <=> pc[u] \in PushLabels)'
    BY <2>1, <2>2 DEF ThreadInv
  <2>5. (/\ pc[u] \in {"partition", "copyLeft", "copyRight"} => task[u][3] < OwnEnd(task[u])
         /\ pc[u] = "adjust" => pivot[u] \in 0 .. Length(task[u]) - 1)'
    BY <2>1, <2>2 DEF ThreadInv, OwnEnd, Length, From, To
  <2>6. (pc[u] \in Complete /\ Kind(task[u]) = "partition" =>
         Ready(task[u][2]) + 1 = Length(task[u]))'
    <3>1. SUFFICES ASSUME pc[u] \in Complete, Kind(task[u]) = "partition"
                   PROVE  Ready(task[u][2])' + 1 = Length(task[u])
      BY <2>1 DEF Kind, Length, From, To, Ready
    <3>2. Ready(task[u][2])' = Ready(task[u][2])
      BY <3>1
    <3>3. QED
      BY <2>2, <3>1, <3>2 DEF ThreadInv
  <2>7. (IF Copying(u) THEN /\ LeftPlaces(values[u]) \subseteq LeftArea(task[u][2])
                            /\ RightPlaces(values[u]) \subseteq RightArea(task[u][2])
         ELSE values[u] = NoValues)'
    <3>1. CASE Copying(u)
      BY <2>1, <2>2, <3>1 DEF ThreadInv, Copying, LeftPlaces, RightPlaces, LeftArea, RightArea
    <3>2. CASE ~Copying(u)
      BY <2>1, <2>2, <3>2 DEF ThreadInv, Copying, NoValues
    <3>3. QED
      BY <3>1, <3>2
  <2>8. QED
    BY <2>3, <2>4, <2>5, <2>6, <2>7 DEF ThreadInv
<1>2. CopiesApart'
  <2>1. SUFFICES ASSUME NEW u \in Threads, NEW v \in Threads, u # v, Copying(u)', Copying(v)',
                        task'[u][2] = task'[v][2]
                 PROVE  PlacesOf(values'[u]) \cap PlacesOf(values'[v]) = {}
    BY DEF CopiesApart, PlacesOf, LeftPlaces, RightPlaces
  <2>2. CASE u # t /\ v # t
    BY <2>1, <2>2 DEF Aside, Copying, CopiesApart
  <2>3. CASE u = t
    BY <2>1, <2>3 DEF Aside, Copying
  <2>4. CASE v = t
    BY <2>1, <2>4 DEF Aside, Copying
  <2>5. QED
    BY <2>2, <2>3, <2>4
<1>3. QED
  BY <1>1, <1>2

(* The same when nothing is reserved.                                      *)
LEMMA ThreadsStay ==
  ASSUME \A u \in Threads : ThreadInv(u), CopiesApart, NEW t \in Threads, Aside(t),
         counters' = counters, ThreadInv(t)',
         Copying(t)' => Copying(t) /\ task'[t] = task[t] /\ values'[t] = values[t]
  PROVE  (\A u \in Threads : ThreadInv(u)') /\ CopiesApart'
<1>1. \A s : /\ Ready(s)' = Ready(s) /\ LeftArea(s)' = LeftArea(s) /\ RightArea(s)' = RightArea(s)
  BY DEF Ready, LeftArea, RightArea
<1>2. \A u \in Threads \ {t} :
        /\ pc[u] \in Complete /\ Kind(task[u]) = "partition" =>
             Ready(task[u][2])' = Ready(task[u][2])
        /\ Copying(u) => /\ LeftArea(task[u][2]) \subseteq LeftArea(task[u][2])'
                         /\ RightArea(task[u][2]) \subseteq RightArea(task[u][2])'
  <2>1. SUFFICES ASSUME NEW u \in Threads \ {t}
                 PROVE  /\ pc[u] \in Complete /\ Kind(task[u]) = "partition" =>
                             Ready(task[u][2])' = Ready(task[u][2])
                        /\ Copying(u) => /\ LeftArea(task[u][2]) \subseteq LeftArea(task[u][2])'
                                         /\ RightArea(task[u][2]) \subseteq RightArea(task[u][2])'
    OBVIOUS
  <2>2. QED
    BY Aside(t) DEF Ready, LeftArea, RightArea, Aside
<1>3. \A u \in Threads \ {t} :
        Copying(t)' /\ Copying(u) /\ task'[t][2] = task[u][2] =>
          PlacesOf(values'[t]) \cap PlacesOf(values[u]) = {}
  BY DEF CopiesApart
<1>4. QED
  BY <1>2, <1>3, ThreadsGo

(* A step of a thread with a task, and one that leaves the count.          *)
LEMMA EndsWith ==
  ASSUME EndingInv, NEW t \in Threads, \A u \in Threads \ {t} : pc'[u] = pc[u],
         pending_tasks # 0, finished' = finished, Ending(t)' => pending_tasks' = 0
  PROVE  EndingInv'
BY DEF EndingInv, Ending

(* A step that is not the end of a task keeps what is known of the end.    *)
LEMMA EndsAsBefore ==
  ASSUME EndingInv, NEW t \in Threads, \A u \in Threads \ {t} : pc'[u] = pc[u],
         pending_tasks' = pending_tasks, finished' = finished, Ending(t)' => Ending(t)
  PROVE  EndingInv'
BY DEF EndingInv, Ending

(* The sets of tasks depend on the length of the array only.               *)
LEMMA SameTypes ==
  ASSUME input' = input
  PROVE  Sorts' = Sorts /\ Tasks' = Tasks /\ ArraysOf(Int)' = ArraysOf(Int)
BY DEF Sorts, Tasks, Segments, ArraysOf, Blocks, From, To

(* A step of thread t alone: no task moves.                                *)
LEMMA ThreadAlone ==
  ASSUME SortingInv, NEW t \in Threads, NEW l \in Labels, Goto(t, l), Aside(t),
         pc[t] \in TaskLabels <=> l \in TaskLabels,
         pc[t] \in TaskLabels => KeptAs(<<"thread", t, 1>>, <<"thread", t, 1>>),
         UNCHANGED <<workers, input, pending_tasks, objects, subtasks>>,
         task' \in [Threads -> Tasks \cup {NoTask}], other' \in [Threads -> Threads],
         A' \in ArraysOf(Int), B' \in ArraysOf(Int), pivot' \in [Threads -> Int],
         values' \in [Threads -> BlockValues], finished' \in BOOLEAN,
         ThreadInv(t)', EndingInv',
         Copying(t)' => Copying(t) /\ task'[t] = task[t] /\ values'[t] = values[t]
  PROVE  SortingInv'
<1>1. /\ pc' \in [Threads -> Labels] /\ pc'[t] = l
      /\ \A u \in Threads \ {t} : pc'[u] = pc[u]
  BY Goes DEF SortingInv
<1>2. /\ workers' = workers /\ input' = input /\ pending_tasks' = pending_tasks /\ subtasks' = subtasks
      /\ reference_count' = reference_count /\ counters' = counters
  BY DEF objects
<1>3. TypeOK'
  BY <1>1, <1>2, SameTypes DEF SortingInv, TypeOK, Labels
<1>4. (\A u \in Threads : ThreadInv(u)') /\ CopiesApart'
  BY <1>2, ThreadsStay DEF SortingInv
<1>5. PlacesInv'
  <2>1. Places' = Places
    BY <1>1, <1>2, PlacesAre DEF IsPlace
  <2>2. ASSUME NEW p \in Places PROVE KeptAs(p, p)
    <3>1. PICK u \in Threads : \/ \E i \in DOMAIN workers[u] : p = <<"deque", u, i>>
                               \/ \E i \in DOMAIN subtasks[u] : p = <<"push", u, i>>
                               \/ pc[u] \in TaskLabels /\ p = <<"thread", u, 1>>
      BY PlacesAre DEF IsPlace
    <3>2. CASE p = <<"thread", t, 1>> /\ pc[t] \in TaskLabels
      BY <3>2
    <3>3. CASE ~(p = <<"thread", t, 1>> /\ pc[t] \in TaskLabels)
      <4>1. TaskAt(p)' = TaskAt(p) /\ Stage(p)' = Stage(p)
        BY <1>1, <1>2, <3>1, <3>3, TasksAt, TasksAtThen DEF Aside
      <4>2. QED
        BY <1>2, <4>1 DEF KeptAs, Refers, Region, RegionOf, BlocksAt, BlocksOf, Kind, From, To,
                          Middle, Position, OwnEnd
    <3>4. QED
      BY <3>2, <3>3
  <2>3. QED
    BY <1>2, <2>1, <2>2, Stays DEF SortingInv
<1>6. QED
  BY <1>3, <1>4, <1>5 DEF SortingInv

(* A thread that has no task left, or looks for one.                       *)
LEMMA Idle ==
  ASSUME SortingInv, NEW t \in Threads, NEW l \in ClaimLabels, Goto(t, l),
         pc[t] \in ClaimLabels, other' \in [Threads -> Threads],
         UNCHANGED <<workers, finished, task, quicksortVars>>
  PROVE  SortingInv'
<1>1. /\ pc' \in [Threads -> Labels] /\ pc'[t] = l /\ l \in Labels
      /\ \A u \in Threads \ {t} : pc'[u] = pc[u]
  BY Goes DEF SortingInv, Labels
<1>2. /\ task' = task /\ subtasks' = subtasks /\ pivot' = pivot /\ values' = values
      /\ input' = input /\ A' = A /\ B' = B /\ finished' = finished
      /\ UNCHANGED <<workers, input, pending_tasks, objects, subtasks>>
  BY DEF quicksortVars, arrays, local
<1>3. Aside(t)
  BY <1>1, <1>2 DEF Aside
<1>4. ClaimLabels \cap (TaskLabels \cup PushLabels \cup Complete \cup
        {"partition", "copyLeft", "copyRight", "adjust", "createFirst", "finish"}) = {}
  BY DEF ClaimLabels, TaskLabels, PartitionLabels, PushLabels, Complete
<1>5. ThreadInv(t)' /\ ~Copying(t)'
  BY <1>1, <1>2, <1>4 DEF SortingInv, Copying, ThreadInv, NoValues
<1>6. EndingInv'
  BY <1>1, <1>2, <1>4, EndsAsBefore DEF Ending, quicksortVars, SortingInv
<1>7. /\ task' \in [Threads -> Tasks \cup {NoTask}] /\ A' \in ArraysOf(Int) /\ B' \in ArraysOf(Int)
      /\ pivot' \in [Threads -> Int] /\ values' \in [Threads -> BlockValues] /\ finished' \in BOOLEAN
  BY <1>2 DEF SortingInv, TypeOK
<1>8. QED
  BY <1>1, <1>2, <1>3, <1>4, <1>5, <1>6, <1>7, ThreadAlone

(* The steps of claim that take no task keep the invariant.                *)
LEMMA LooksInVain ==
  ASSUME SortingInv, NEW t \in Threads, LoadFinished(t) \/ PopNothing(t) \/ StealNothing(t),
         UNCHANGED quicksortVars
  PROVE  SortingInv'
<1>1. CASE LoadFinished(t)
  <2>1. PICK l \in ClaimLabels : Goto(t, l)
    BY <1>1 DEF LoadFinished, ClaimLabels
  <2>2. /\ pc[t] \in ClaimLabels /\ other' = other
        /\ UNCHANGED <<workers, finished, task, quicksortVars>>
    BY <1>1 DEF LoadFinished, ClaimLabels
  <2>3. other' \in [Threads -> Threads]
    BY <2>2 DEF SortingInv, TypeOK
  <2>4. QED
    BY <2>1, <2>2, <2>3, Idle
<1>2. CASE PopNothing(t)
  BY <1>2, Idle DEF PopNothing, ClaimLabels, SortingInv, TypeOK
<1>3. CASE StealNothing(t)
  <2>1. PICK l \in ClaimLabels : Goto(t, l)
    BY <1>3 DEF StealNothing, LabelAt, ClaimLabels
  <2>2. /\ pc[t] \in ClaimLabels /\ other' = [other EXCEPT ![t] = NextOther(t)]
        /\ UNCHANGED <<workers, finished, task, quicksortVars>>
    BY <1>3 DEF StealNothing, ClaimLabels
  <2>3. other' \in [Threads -> Threads]
    BY <2>2, NextOtherType DEF SortingInv, TypeOK
  <2>4. QED
    BY <2>1, <2>2, <2>3, Idle
<1>4. QED
  BY <1>1, <1>2, <1>3

-----------------------------------------------------------------------------
(* A task moves between a deque, the tasks to push and the thread.         *)

(* The first of the places <<k, o, 1 .. n>> becomes the place b, the       *)
(* others move up.                                                         *)
Opens(P, Q, k, o, n, b) ==
  /\ n \in Nat \ {0}
  /\ \A i : <<k, o, i>> \in P <=> i \in 1 .. n
  /\ \A i : <<k, o, i>> \in Q <=> i \in 1 .. n - 1
  /\ b \notin P /\ b \in Q /\ \A i : b # <<k, o, i>>
  /\ \A p : p # b /\ (\A i : p # <<k, o, i>>) => (p \in P <=> p \in Q)

MapsUp(f, P, Q, k, o, n, b) ==
  /\ f \in [P -> Q]
  /\ \A p, q \in P : f[p] = f[q] => p = q
  /\ \A q \in Q : \E p \in P : f[p] = q
  /\ f[<<k, o, 1>>] = b
  /\ \A i \in 2 .. n : f[<<k, o, i>>] = <<k, o, i - 1>>
  /\ \A p \in P : (\A i : p # <<k, o, i>>) => f[p] = p

(* When a task leaves the front of a deque, the others move up by one.     *)
LEMMA MovesUp ==
  ASSUME NEW P, NEW Q, NEW k, NEW o, NEW n, NEW b, Opens(P, Q, k, o, n, b)
  PROVE  \E f : MapsUp(f, P, Q, k, o, n, b)
<1> USE DEF Opens
<1>1. PICK f : f = [p \in P |-> IF p = <<k, o, 1>> THEN b
                                ELSE IF \E i : p = <<k, o, i>> THEN <<k, o, p[3] - 1>> ELSE p]
  OBVIOUS
<1>2. f[<<k, o, 1>>] = b
  BY <1>1
<1>3. ASSUME NEW i \in 2 .. n PROVE f[<<k, o, i>>] = <<k, o, i - 1>>
  BY <1>1
<1>4. \A p \in P : (\A i : p # <<k, o, i>>) => f[p] = p
  BY <1>1
<1>5. ASSUME NEW p \in P
      PROVE  \/ p = <<k, o, 1>> /\ f[p] = b
             \/ \E i \in 2 .. n : p = <<k, o, i>> /\ f[p] = <<k, o, i - 1>>
             \/ (\A i : p # <<k, o, i>>) /\ f[p] = p /\ p # b
  <2>1. CASE \A i : p # <<k, o, i>>
    BY <1>4, <2>1
  <2>2. CASE \E i : p = <<k, o, i>>
    <3>1. PICK i : p = <<k, o, i>>
      BY <2>2
    <3>2. i \in 1 .. n
      BY <3>1
    <3>3. CASE i = 1
      BY <1>2, <3>1, <3>3
    <3>4. CASE i # 1
      BY <1>3, <3>1, <3>2, <3>4
    <3>5. QED
      BY <3>3, <3>4
  <2>3. QED
    BY <2>1, <2>2
<1>6. \A p \in P : f[p] \in Q
  <2>1. SUFFICES ASSUME NEW p \in P PROVE f[p] \in Q
    OBVIOUS
  <2>2. CASE \E i \in 2 .. n : p = <<k, o, i>> /\ f[p] = <<k, o, i - 1>>
    <3>1. PICK i \in 2 .. n : f[p] = <<k, o, i - 1>>
      BY <2>2
    <3>2. i - 1 \in 1 .. n - 1
      OBVIOUS
    <3>3. QED
      BY <3>1, <3>2
  <2>3. QED
    BY <1>5, <2>2
<1>7. f \in [P -> Q]
  BY <1>1, <1>6
<1>8. ASSUME NEW p \in P, NEW q \in P, f[p] = f[q] PROVE p = q
  <2>1. CASE p = <<k, o, 1>> /\ f[p] = b
    BY <1>5, <1>8, <2>1
  <2>2. CASE (\A i : p # <<k, o, i>>) /\ f[p] = p /\ p # b
    BY <1>5, <1>8, <2>2
  <2>3. CASE \E i \in 2 .. n : p = <<k, o, i>> /\ f[p] = <<k, o, i - 1>>
    <3>1. PICK i \in 2 .. n : p = <<k, o, i>> /\ f[p] = <<k, o, i - 1>>
      BY <2>3
    <3>2. CASE \E j \in 2 .. n : q = <<k, o, j>> /\ f[q] = <<k, o, j - 1>>
      <4>1. PICK j \in 2 .. n : q = <<k, o, j>> /\ f[q] = <<k, o, j - 1>>
        BY <3>2
      <4>2. i - 1 = j - 1
        BY <1>8, <3>1, <4>1
      <4>3. i = j
        BY <4>2
      <4>4. QED
        BY <3>1, <4>1, <4>3
    <3>3. QED
      BY <1>5, <1>8, <3>1, <3>2
  <2>4. QED
    BY <1>5, <2>1, <2>2, <2>3
<1>9. ASSUME NEW q \in Q PROVE \E p \in P : f[p] = q
  <2>1. CASE q = b
    BY <1>2, <2>1
  <2>2. CASE \E i : q = <<k, o, i>>
    <3>1. PICK i : q = <<k, o, i>>
      BY <2>2
    <3>2. i \in 1 .. n - 1
      BY <3>1
    <3>3. i + 1 \in 2 .. n /\ i + 1 \in 1 .. n /\ (i + 1) - 1 = i
      BY <3>2
    <3>4. QED
      BY <1>3, <3>1, <3>3
  <2>3. CASE q # b /\ \A i : q # <<k, o, i>>
    BY <1>4, <2>3
  <2>4. QED
    BY <2>1, <2>2, <2>3
<1>10. QED
  BY <1>2, <1>3, <1>4, <1>7, <1>8, <1>9 DEF MapsUp

(* Popping a task from the own deque moves it from one place to another.   *)
LEMMA PopTaskKeeps ==
  ASSUME SortingInv, NEW t \in Threads, PopTask(t), UNCHANGED quicksortVars
  PROVE  SortingInv'
<1>1. PICK n : n = Len(workers[t])
  OBVIOUS
<1>2. /\ workers[t] \in Seq(Tasks) /\ n \in Nat \ {0} /\ DOMAIN workers[t] = 1 .. n
      /\ pc[t] = "pop" /\ workers \in [Threads -> Seq(Tasks)]
  BY <1>1 DEF PopTask, SortingInv, TypeOK
<1>3. PICK d : d = workers[t][n]
  OBVIOUS
<1>4. d \in Tasks /\ d # NoTask
  BY <1>2, <1>3, TasksAre DEF SortingInv
<1>5. /\ task' = [task EXCEPT ![t] = d]
      /\ workers' = [workers EXCEPT ![t] = Front(@)]
      /\ Goto(t, "run")
      /\ finished' = finished /\ other' = other /\ input' = input /\ A' = A /\ B' = B
      /\ pending_tasks' = pending_tasks /\ subtasks' = subtasks /\ pivot' = pivot /\ values' = values
      /\ reference_count' = reference_count /\ counters' = counters
  BY <1>1, <1>3 DEF PopTask, Last, quicksortVars, arrays, objects, local
<1>6. /\ pc' \in [Threads -> Labels] /\ pc'[t] = "run"
      /\ \A u \in Threads \ {t} : pc'[u] = pc[u]
  BY <1>5, Goes DEF Labels, TaskLabels, PartitionLabels, SortingInv
<1>7. /\ workers'[t] \in Seq(Tasks) /\ DOMAIN workers'[t] = 1 .. n - 1
      /\ \A i \in 1 .. n - 1 : workers'[t][i] = workers[t][i]
      /\ \A u \in Threads \ {t} : workers'[u] = workers[u]
      /\ workers' \in [Threads -> Seq(Tasks)]
  <2>1. workers'[t] = SubSeq(workers[t], 1, n - 1)
    BY <1>1, <1>2, <1>5 DEF Front
  <2>2. /\ SubSeq(workers[t], 1, n - 1) \in Seq(Tasks)
        /\ Len(SubSeq(workers[t], 1, n - 1)) = n - 1
        /\ \A i \in 1 .. n - 1 : SubSeq(workers[t], 1, n - 1)[i] = workers[t][i]
    BY <1>1, <1>2
  <2>3. /\ workers'[t] \in Seq(Tasks) /\ DOMAIN workers'[t] = 1 .. n - 1
        /\ \A i \in 1 .. n - 1 : workers'[t][i] = workers[t][i]
    BY <1>2, <2>1, <2>2
  <2>4. \A u \in Threads \ {t} : workers'[u] = workers[u]
    BY <1>2, <1>5
  <2>5. workers' \in [Threads -> Seq(Tasks)]
    BY <1>2, <1>5, <2>3
  <2>6. QED
    BY <2>3, <2>4, <2>5
<1>8. /\ task'[t] = d /\ \A u \in Threads \ {t} : task'[u] = task[u]
      /\ task' \in [Threads -> Tasks \cup {NoTask}]
  BY <1>4, <1>5 DEF SortingInv, TypeOK
<1>9. PlacesInv'
  <2>1. PICK b, a : b = <<"thread", t, 1>> /\ a = <<"deque", t, n>>
    OBVIOUS
  <2>2. PICK f : f = [p \in Places |-> IF p = a THEN b ELSE p]
    OBVIOUS
  <2>3. a \in Places /\ b \notin Places
    BY <1>2, <2>1, PlacesByKind DEF TaskLabels, PartitionLabels
  <2>4. \A p : p \in Places' <=> p = b \/ (p \in Places /\ p # a)
    <3>1. /\ \A i : i \in DOMAIN workers'[t] <=> i \in DOMAIN workers[t] /\ i # n
          /\ \A u \in Threads \ {t} : DOMAIN workers'[u] = DOMAIN workers[u]
      BY <1>2, <1>7
    <3>2. \A u \in Threads : pc'[u] \in TaskLabels <=> pc[u] \in TaskLabels \/ u = t
      BY <1>6 DEF TaskLabels, PartitionLabels
    <3>3. subtasks' = subtasks /\ pc[t] \notin TaskLabels
      BY <1>2, <1>5 DEF TaskLabels, PartitionLabels
    <3>4. \A p : IsPlace(p)' <=> p = b \/ (IsPlace(p) /\ p # a)
      BY <2>1, <3>1, <3>2, <3>3 DEF IsPlace
    <3>5. QED
      BY <3>4, PlacesAre
  <2>5. /\ f \in [Places -> Places'] /\ \A p, q \in Places : f[p] = f[q] => p = q
        /\ \A q \in Places' : \E p \in Places : f[p] = q
    BY <2>2, <2>3, <2>4
  <2>6. ASSUME NEW p \in Places, NEW q \in Places', q = f[p]
        PROVE  KeptAs(p, q)
    <3>1. TaskAt(q)' = TaskAt(p) /\ Stage(q)' = Stage(p)
      <4>1. CASE p = a
        BY <1>3, <1>6, <1>8, <2>1, <2>2, <2>6, <4>1, TasksAt, TasksAtThen
      <4>2. CASE p # a
        <5>1. q = p /\ p # b /\ IsPlace(p)
          BY <2>2, <2>3, <2>6, <4>2, PlacesAre
        <5>2. PICK u \in Threads : \/ \E i \in DOMAIN workers[u] : p = <<"deque", u, i>>
                                   \/ \E i \in DOMAIN subtasks[u] : p = <<"push", u, i>>
                                   \/ pc[u] \in TaskLabels /\ p = <<"thread", u, 1>>
          BY <5>1 DEF IsPlace
        <5>3. CASE \E i \in DOMAIN workers[u] : p = <<"deque", u, i>>
          <6>1. PICK i \in DOMAIN workers[u] : p = <<"deque", u, i>>
            BY <5>3
          <6>2. workers'[u][i] = workers[u][i]
            BY <1>2, <1>7, <2>1, <4>2, <6>1
          <6>3. QED
            BY <5>1, <6>1, <6>2, TasksAt, TasksAtThen
        <5>4. CASE \E i \in DOMAIN subtasks[u] : p = <<"push", u, i>>
          BY <1>5, <5>1, <5>4, TasksAt, TasksAtThen
        <5>5. CASE pc[u] \in TaskLabels /\ p = <<"thread", u, 1>>
          BY <1>6, <1>8, <2>1, <5>1, <5>5, TasksAt, TasksAtThen
        <5>6. QED
          BY <5>2, <5>3, <5>4, <5>5
      <4>3. QED
        BY <4>1, <4>2
    <3>2. QED
      BY <1>5, <3>1 DEF KeptAs, Refers, Region, RegionOf, BlocksAt, BlocksOf, Kind, From, To,
                        Middle, Position, OwnEnd
  <2>7. QED
    BY <1>5, <2>5, <2>6, Moved DEF SortingInv
<1>10. TypeOK'
  BY <1>5, <1>6, <1>7, <1>8, SameTypes DEF SortingInv, TypeOK, Labels
<1>11. ThreadInv(t)' /\ ~Copying(t)'
  BY <1>2, <1>4, <1>5, <1>6, <1>8, TasksAre DEF SortingInv, Copying, ThreadInv, PushLabels,
     KindsAt, NoValues, ClaimLabels, Complete, Kind
<1>12. (\A u \in Threads : ThreadInv(u)') /\ CopiesApart'
  BY <1>5, <1>6, <1>8, <1>11, ThreadsStay DEF Aside, SortingInv
<1>13. EndingInv'
  BY <1>5, <1>6, EndsAsBefore DEF SortingInv, Ending
<1>14. QED
  BY <1>9, <1>10, <1>12, <1>13 DEF SortingInv

(* Stealing a task moves it and the others of that deque.                  *)
LEMMA StealTaskKeeps ==
  ASSUME SortingInv, NEW t \in Threads, StealTask(t), UNCHANGED quicksortVars
  PROVE  SortingInv'
<1>1. PICK o : o = NextOther(t)
  OBVIOUS
<1>2. o \in Threads /\ o # t
  BY <1>1, NextOtherType DEF StealTask, SortingInv, TypeOK
<1>3. PICK n : n = Len(workers[o])
  OBVIOUS
<1>4. /\ workers[o] \in Seq(Tasks) /\ workers[o] # <<>> /\ n \in Nat \ {0} /\ DOMAIN workers[o] = 1 .. n
      /\ pc[t] = "steal" /\ workers \in [Threads -> Seq(Tasks)]
  BY <1>1, <1>2, <1>3 DEF StealTask, SortingInv, TypeOK
<1>5. PICK d : d = workers[o][1]
  OBVIOUS
<1>6. d \in Tasks /\ d # NoTask
  BY <1>4, <1>5, TasksAre DEF SortingInv
<1>7. /\ task' = [task EXCEPT ![t] = d]
      /\ workers' = [workers EXCEPT ![o] = Tail(@)]
      /\ other' = [other EXCEPT ![t] = t]
      /\ Goto(t, "run")
      /\ finished' = finished /\ input' = input /\ A' = A /\ B' = B
      /\ pending_tasks' = pending_tasks /\ subtasks' = subtasks /\ pivot' = pivot /\ values' = values
      /\ reference_count' = reference_count /\ counters' = counters
  BY <1>1, <1>4, <1>5 DEF StealTask, quicksortVars, arrays, objects, local
<1>8. /\ pc' \in [Threads -> Labels] /\ pc'[t] = "run"
      /\ \A u \in Threads \ {t} : pc'[u] = pc[u]
  BY <1>7, Goes DEF Labels, TaskLabels, PartitionLabels, SortingInv
<1>9. /\ workers'[o] \in Seq(Tasks) /\ DOMAIN workers'[o] = 1 .. n - 1
      /\ \A i \in 1 .. n - 1 : workers'[o][i] = workers[o][i + 1]
      /\ \A u \in Threads \ {o} : workers'[u] = workers[u]
      /\ workers' \in [Threads -> Seq(Tasks)]
  <2>1. workers'[o] = Tail(workers[o])
    BY <1>2, <1>4, <1>7
  <2>2. /\ Tail(workers[o]) \in Seq(Tasks) /\ Len(Tail(workers[o])) = n - 1
        /\ \A i \in 1 .. n - 1 : Tail(workers[o])[i] = workers[o][i + 1]
    BY <1>3, <1>4
  <2>3. /\ workers'[o] \in Seq(Tasks) /\ DOMAIN workers'[o] = 1 .. n - 1
        /\ \A i \in 1 .. n - 1 : workers'[o][i] = workers[o][i + 1]
    BY <1>4, <2>1, <2>2
  <2>4. \A u \in Threads \ {o} : workers'[u] = workers[u]
    BY <1>4, <1>7
  <2>5. workers' \in [Threads -> Seq(Tasks)]
    BY <1>4, <1>7, <2>3
  <2>6. QED
    BY <2>3, <2>4, <2>5
<1>10. /\ task'[t] = d /\ \A u \in Threads \ {t} : task'[u] = task[u]
       /\ task' \in [Threads -> Tasks \cup {NoTask}]
  BY <1>6, <1>7 DEF SortingInv, TypeOK
<1>11. PlacesInv'
  <2>1. PICK b : b = <<"thread", t, 1>>
    OBVIOUS
  <2>2. /\ \A i : <<"deque", o, i>> \in Places <=> i \in 1 .. n
        /\ \A i : <<"deque", o, i>> \in Places' <=> i \in 1 .. n - 1
        /\ b \notin Places /\ b \in Places' /\ \A i : b # <<"deque", o, i>>
    BY <1>2, <1>4, <1>8, <1>9, <2>1, PlacesByKind, PlacesByKindThen DEF TaskLabels, PartitionLabels
  <2>3. ASSUME NEW p, p # b, \A i : p # <<"deque", o, i>> PROVE p \in Places <=> p \in Places'
    <3>1. \A u \in Threads \ {o} : DOMAIN workers'[u] = DOMAIN workers[u]
      BY <1>9
    <3>2. IsPlace(p) <=> IsPlace(p)'
      BY <1>7, <1>8, <2>1, <2>3, <3>1 DEF IsPlace
    <3>3. QED
      BY <3>2, PlacesAre
  <2>4. PICK P, Q : P = Places /\ Q = Places'
    OBVIOUS
  <2>5. /\ \A i : <<"deque", o, i>> \in P <=> i \in 1 .. n
        /\ \A i : <<"deque", o, i>> \in Q <=> i \in 1 .. n - 1
        /\ b \notin P /\ b \in Q /\ \A i : b # <<"deque", o, i>>
        /\ \A p : p # b /\ (\A i : p # <<"deque", o, i>>) => (p \in P <=> p \in Q)
        /\ n \in Nat \ {0}
    BY <1>4, <2>2, <2>3, <2>4
  <2>6. PICK f \in [Places -> Places'] :
          /\ \A p, q \in Places : f[p] = f[q] => p = q
          /\ \A q \in Places' : \E p \in Places : f[p] = q
          /\ f[<<"deque", o, 1>>] = b
          /\ \A i \in 2 .. n : f[<<"deque", o, i>>] = <<"deque", o, i - 1>>
          /\ \A p \in Places : (\A i : p # <<"deque", o, i>>) => f[p] = p
    <3>1. Opens(P, Q, "deque", o, n, b)
      BY <2>5 DEF Opens
    <3>2. PICK f : MapsUp(f, P, Q, "deque", o, n, b)
      BY <3>1, MovesUp
    <3>3. QED
      BY <2>4, <3>2 DEF MapsUp
  <2>7. ASSUME NEW p \in Places, NEW q \in Places', q = f[p]
        PROVE  KeptAs(p, q)
    <3>1. TaskAt(q)' = TaskAt(p) /\ Stage(q)' = Stage(p)
      <4>1. CASE \E i : p = <<"deque", o, i>>
        <5>1. PICK i : p = <<"deque", o, i>>
          BY <4>1
        <5>2. i \in 1 .. n
          BY <2>2, <5>1
        <5>3. CASE i = 1
          BY <1>5, <1>8, <1>10, <2>1, <2>6, <2>7, <5>1, <5>3, TasksAt, TasksAtThen
        <5>4. CASE i # 1
          <6>1. i \in 2 .. n /\ i - 1 \in 1 .. n - 1 /\ (i - 1) + 1 = i
            BY <1>4, <5>2, <5>4
          <6>2. q = <<"deque", o, i - 1>> /\ workers'[o][i - 1] = workers[o][i]
            BY <1>9, <2>6, <2>7, <5>1, <6>1
          <6>3. QED
            BY <5>1, <6>2, TasksAt, TasksAtThen
        <5>5. QED
          BY <5>3, <5>4
      <4>2. CASE \A i : p # <<"deque", o, i>>
        <5>1. q = p /\ p # b
          BY <2>2, <2>6, <2>7, <4>2
        <5>2. PICK u \in Threads : \/ \E i \in DOMAIN workers[u] : p = <<"deque", u, i>>
                                   \/ \E i \in DOMAIN subtasks[u] : p = <<"push", u, i>>
                                   \/ pc[u] \in TaskLabels /\ p = <<"thread", u, 1>>
          BY PlacesAre DEF IsPlace
        <5>3. CASE \E i \in DOMAIN workers[u] : p = <<"deque", u, i>>
          BY <1>9, <4>2, <5>1, <5>3, TasksAt, TasksAtThen
        <5>4. CASE \E i \in DOMAIN subtasks[u] : p = <<"push", u, i>>
          BY <1>7, <5>1, <5>4, TasksAt, TasksAtThen
        <5>5. CASE pc[u] \in TaskLabels /\ p = <<"thread", u, 1>>
          BY <1>8, <1>10, <2>1, <5>1, <5>5, TasksAt, TasksAtThen
        <5>6. QED
          BY <5>2, <5>3, <5>4, <5>5
      <4>3. QED
        BY <4>1, <4>2
    <3>2. QED
      BY <1>7, <3>1 DEF KeptAs, Refers, Region, RegionOf, BlocksAt, BlocksOf, Kind, From, To,
                        Middle, Position, OwnEnd
  <2>8. QED
    BY <1>7, <2>6, <2>7, Moved DEF SortingInv
<1>12. TypeOK'
  BY <1>7, <1>8, <1>9, <1>10, SameTypes DEF SortingInv, TypeOK, Labels
<1>13. ThreadInv(t)' /\ ~Copying(t)'
  BY <1>4, <1>6, <1>7, <1>8, <1>10, TasksAre DEF SortingInv, Copying, ThreadInv, PushLabels,
     KindsAt, NoValues, ClaimLabels, Complete, Kind
<1>14. (\A u \in Threads : ThreadInv(u)') /\ CopiesApart'
  BY <1>7, <1>8, <1>10, <1>13, ThreadsStay DEF Aside, SortingInv
<1>15. EndingInv'
  BY <1>7, <1>8, EndsAsBefore DEF SortingInv, Ending
<1>16. QED
  BY <1>11, <1>12, <1>14, <1>15 DEF SortingInv

(* Pushing a subtask moves it and the others that are to be pushed.        *)
LEMMA PushKeeps ==
  ASSUME SortingInv, NEW t \in Threads, Push(t)
  PROVE  SortingInv'
<1>1. PICK n, m : n = Len(subtasks[t]) /\ m = Len(workers[t]) + 1
  OBVIOUS
<1>2. pc[t] \in PushLabels /\ subtasks[t] # <<>> /\ subtasks[t] \in Seq(Tasks) /\ workers[t] \in Seq(Tasks)
  BY DEF Push, SortingInv, TypeOK, ThreadInv
<1>3. /\ n \in Nat \ {0} /\ m \in Nat \ {0}
      /\ DOMAIN subtasks[t] = 1 .. n /\ DOMAIN workers[t] = 1 .. m - 1
      /\ workers \in [Threads -> Seq(Tasks)] /\ subtasks \in [Threads -> Seq(Tasks)]
  BY <1>1, <1>2 DEF SortingInv, TypeOK
<1>4. PICK d : d = subtasks[t][1]
  OBVIOUS
<1>5. d \in Tasks
  BY <1>2, <1>3, <1>4
<1>6. PICK l, e : /\ l = IF n > 1 THEN pc[t] ELSE AfterPush(pc[t])
                  /\ e = IF l = "claim" THEN NoTask ELSE task[t]
  OBVIOUS
<1>7. /\ workers' = [workers EXCEPT ![t] = Append(@, d)]
      /\ subtasks' = [subtasks EXCEPT ![t] = Tail(@)]
      /\ finished' = finished /\ other' = other /\ input' = input /\ A' = A /\ B' = B
      /\ pending_tasks' = pending_tasks /\ pivot' = pivot /\ values' = values
      /\ reference_count' = reference_count /\ counters' = counters
  BY <1>2, <1>4 DEF Push, PushTask, arrays, objects, local
<1>8. /\ (n = 1 /\ l = AfterPush(pc[t])) \/ (n > 1 /\ l = pc[t])
      /\ \/ l = pc[t]
         \/ pc[t] \in {"pushFirst", "pushParts"} /\ l = "claim"
         \/ pc[t] = "pushBlocks" /\ l = "pivot"
         \/ pc[t] = "pushLeft" /\ l = "right"
         \/ pc[t] = "pushRight" /\ l = "release"
  BY <1>2, <1>3, <1>6 DEF AfterPush, PushLabels
<1>9. /\ pc' \in [Threads -> Labels] /\ pc'[t] = l
      /\ \A u \in Threads \ {t} : pc'[u] = pc[u]
      /\ task'[t] = e /\ \A u \in Threads \ {t} : task'[u] = task[u]
      /\ task' \in [Threads -> Tasks \cup {NoTask}]
  <2>1. pc \in [Threads -> Labels] /\ task \in [Threads -> Tasks \cup {NoTask}]
    BY DEF SortingInv, TypeOK, Labels
  <2>2. l \in Labels
    BY <1>2, <1>8 DEF Labels, TaskLabels, PartitionLabels, ClaimLabels, PushLabels
  <2>3. CASE n > 1
    BY <1>1, <1>2, <1>6, <2>1, <2>3 DEF Push, PushLabels
  <2>4. CASE ~(n > 1)
    <3>1. l = AfterPush(pc[t])
      BY <1>6, <2>4
    <3>2. CASE l = "claim"
      BY <1>1, <1>6, <2>1, <2>2, <2>4, <3>1, <3>2 DEF Push, Return, Goto
    <3>3. CASE l # "claim"
      BY <1>1, <1>6, <2>1, <2>2, <2>4, <3>1, <3>3 DEF Push, Goto
    <3>4. QED
      BY <3>2, <3>3
  <2>5. QED
    BY <1>3, <2>3, <2>4
<1>10. /\ workers'[t] \in Seq(Tasks) /\ DOMAIN workers'[t] = 1 .. m
       /\ workers'[t][m] = d /\ \A i \in 1 .. m - 1 : workers'[t][i] = workers[t][i]
       /\ \A u \in Threads \ {t} : workers'[u] = workers[u]
       /\ workers' \in [Threads -> Seq(Tasks)]
  <2>1. workers'[t] = Append(workers[t], d)
    BY <1>3, <1>7
  <2>2. /\ Append(workers[t], d) \in Seq(Tasks) /\ Len(Append(workers[t], d)) = m
        /\ Append(workers[t], d)[m] = d
        /\ \A i \in 1 .. m - 1 : Append(workers[t], d)[i] = workers[t][i]
    BY <1>1, <1>2, <1>5
  <2>3. /\ workers'[t] \in Seq(Tasks) /\ DOMAIN workers'[t] = 1 .. m
        /\ workers'[t][m] = d /\ \A i \in 1 .. m - 1 : workers'[t][i] = workers[t][i]
    BY <1>3, <2>1, <2>2
  <2>4. \A u \in Threads \ {t} : workers'[u] = workers[u]
    BY <1>3, <1>7
  <2>5. workers' \in [Threads -> Seq(Tasks)]
    BY <1>3, <1>7, <2>3
  <2>6. QED
    BY <2>3, <2>4, <2>5
<1>11. /\ subtasks'[t] \in Seq(Tasks) /\ Len(subtasks'[t]) = n - 1
       /\ DOMAIN subtasks'[t] = 1 .. n - 1
       /\ \A i \in 1 .. n - 1 : subtasks'[t][i] = subtasks[t][i + 1]
       /\ \A u \in Threads \ {t} : subtasks'[u] = subtasks[u]
       /\ subtasks' \in [Threads -> Seq(Tasks)]
  <2>1. subtasks'[t] = Tail(subtasks[t])
    BY <1>3, <1>7
  <2>2. /\ Tail(subtasks[t]) \in Seq(Tasks) /\ Len(Tail(subtasks[t])) = n - 1
        /\ \A i \in 1 .. n - 1 : Tail(subtasks[t])[i] = subtasks[t][i + 1]
    BY <1>1, <1>2
  <2>3. /\ subtasks'[t] \in Seq(Tasks) /\ Len(subtasks'[t]) = n - 1
        /\ DOMAIN subtasks'[t] = 1 .. n - 1
        /\ \A i \in 1 .. n - 1 : subtasks'[t][i] = subtasks[t][i + 1]
    BY <1>3, <2>1, <2>2
  <2>4. \A u \in Threads \ {t} : subtasks'[u] = subtasks[u]
    BY <1>3, <1>7
  <2>5. subtasks' \in [Threads -> Seq(Tasks)]
    BY <1>3, <1>7, <2>3
  <2>6. QED
    BY <2>3, <2>4, <2>5
<1>12. pc[t] \in TaskLabels <=> l \in TaskLabels
  BY <1>2, <1>8 DEF TaskLabels, PartitionLabels, PushLabels
<1>13. PlacesInv'
  <2>1. PICK b : b = <<"deque", t, m>>
    OBVIOUS
  <2>2. /\ \A i : <<"push", t, i>> \in Places <=> i \in 1 .. n
        /\ \A i : <<"push", t, i>> \in Places' <=> i \in 1 .. n - 1
        /\ b \notin Places /\ b \in Places' /\ \A i : b # <<"push", t, i>>
    BY <1>3, <1>10, <1>11, <2>1, PlacesByKind, PlacesByKindThen
  <2>3. ASSUME NEW p, p # b, \A i : p # <<"push", t, i>> PROVE p \in Places <=> p \in Places'
    <3>1. \A u \in Threads \ {t} : DOMAIN subtasks'[u] = DOMAIN subtasks[u]
      BY <1>11
    <3>2. \A u \in Threads \ {t} : DOMAIN workers'[u] = DOMAIN workers[u]
      BY <1>10
    <3>3. \A i : i \in DOMAIN workers'[t] <=> i \in DOMAIN workers[t] \/ i = m
      BY <1>3, <1>10
    <3>4. \A u \in Threads : pc'[u] \in TaskLabels <=> pc[u] \in TaskLabels
      BY <1>9, <1>12
    <3>5. ASSUME NEW u \in Threads
          PROVE  /\ (\E i \in DOMAIN workers[u] : p = <<"deque", u, i>>) <=>
                      \E i \in DOMAIN workers'[u] : p = <<"deque", u, i>>
                 /\ (\E i \in DOMAIN subtasks[u] : p = <<"push", u, i>>) <=>
                      \E i \in DOMAIN subtasks'[u] : p = <<"push", u, i>>
      BY <2>1, <2>3, <3>1, <3>2, <3>3
    <3>6. IsPlace(p) <=> IsPlace(p)'
      BY <3>4, <3>5 DEF IsPlace
    <3>7. QED
      BY <3>6, PlacesAre
  <2>4. PICK P, Q : P = Places /\ Q = Places'
    OBVIOUS
  <2>5. /\ \A i : <<"push", t, i>> \in P <=> i \in 1 .. n
        /\ \A i : <<"push", t, i>> \in Q <=> i \in 1 .. n - 1
        /\ b \notin P /\ b \in Q /\ \A i : b # <<"push", t, i>>
        /\ \A p : p # b /\ (\A i : p # <<"push", t, i>>) => (p \in P <=> p \in Q)
        /\ n \in Nat \ {0}
    BY <1>3, <2>2, <2>3, <2>4
  <2>6. PICK f \in [Places -> Places'] :
          /\ \A p, q \in Places : f[p] = f[q] => p = q
          /\ \A q \in Places' : \E p \in Places : f[p] = q
          /\ f[<<"push", t, 1>>] = b
          /\ \A i \in 2 .. n : f[<<"push", t, i>>] = <<"push", t, i - 1>>
          /\ \A p \in Places : (\A i : p # <<"push", t, i>>) => f[p] = p
    <3>1. Opens(P, Q, "push", t, n, b)
      BY <2>5 DEF Opens
    <3>2. PICK f : MapsUp(f, P, Q, "push", t, n, b)
      BY <3>1, MovesUp
    <3>3. QED
      BY <2>4, <3>2 DEF MapsUp
  <2>7. ASSUME NEW p \in Places, NEW q \in Places', q = f[p]
        PROVE  KeptAs(p, q)
    <3>1. CASE p = <<"thread", t, 1>>
      <4>1. q = p
        BY <2>6, <2>7, <3>1
      <4>2. pc[t] \in TaskLabels /\ l \in TaskLabels /\ l # "claim" /\ task'[t] = task[t]
        BY <1>6, <1>9, <1>12, <3>1, PlacesByKind DEF TaskLabels, PartitionLabels
      <4>3. TaskAt(q)' = TaskAt(p) /\ Stage(p) = pc[t] /\ Stage(q)' = l
        BY <1>9, <3>1, <4>1, <4>2, TasksAt, TasksAtThen
      <4>4. \/ pc[t] = "pushBlocks" /\ l = "pivot"
            \/ pc[t] = "pushLeft" /\ l = "right"
            \/ pc[t] = "pushRight" /\ l = "release"
            \/ l = pc[t]
        BY <1>8, <4>2 DEF TaskLabels, PartitionLabels
      <4>5. Region(q)' = Region(p)
        BY <1>7, <4>3, <4>4 DEF Region, RegionOf, PartitionLabels, Kind, From, To, Middle, Position
      <4>6. Refers(q)' <=> Refers(p)
        BY <4>3, <4>4 DEF Refers, PartitionLabels, Kind
      <4>7. BlocksAt(q)' = BlocksAt(p)
        <5>1. CASE l = pc[t]
          BY <4>3, <5>1 DEF BlocksAt, BlocksOf, OwnEnd
        <5>2. CASE pc[t] \in {"pushBlocks", "pushLeft", "pushRight"} /\ l # pc[t]
          BY <4>3, <4>4, <5>2 DEF BlocksAt, BlocksOf, OwnEnd
        <5>3. QED
          BY <4>4, <5>1, <5>2
      <4>8. QED
        BY <4>3, <4>5, <4>6, <4>7 DEF KeptAs
    <3>2. CASE p # <<"thread", t, 1>>
      <4>1. TaskAt(q)' = TaskAt(p) /\ Stage(q)' = Stage(p)
        <5>1. CASE \E i : p = <<"push", t, i>>
          <6>1. PICK i : p = <<"push", t, i>>
            BY <5>1
          <6>2. i \in 1 .. n
            BY <2>2, <6>1
          <6>3. CASE i = 1
            <7>1. q = <<"deque", t, m>> /\ p = <<"push", t, 1>>
              BY <2>1, <2>6, <2>7, <6>1, <6>3
            <7>2. QED
              BY <1>4, <1>10, <7>1, TasksAt, TasksAtThen
          <6>4. CASE i # 1
            <7>1. i \in 2 .. n /\ i - 1 \in 1 .. n - 1 /\ (i - 1) + 1 = i
              BY <1>3, <6>2, <6>4
            <7>2. q = <<"push", t, i - 1>> /\ subtasks'[t][i - 1] = subtasks[t][i]
              BY <1>11, <2>6, <2>7, <6>1, <7>1
            <7>3. QED
              BY <6>1, <7>2, TasksAt, TasksAtThen
          <6>5. QED
            BY <6>3, <6>4
        <5>2. CASE \A i : p # <<"push", t, i>>
          <6>1. q = p /\ p # b
            BY <2>2, <2>6, <2>7, <5>2
          <6>2. PICK u \in Threads : \/ \E i \in DOMAIN workers[u] : p = <<"deque", u, i>>
                                     \/ \E i \in DOMAIN subtasks[u] : p = <<"push", u, i>>
                                     \/ pc[u] \in TaskLabels /\ p = <<"thread", u, 1>>
            BY PlacesAre DEF IsPlace
          <6>3. CASE \E i \in DOMAIN workers[u] : p = <<"deque", u, i>>
            <7>1. PICK i \in DOMAIN workers[u] : p = <<"deque", u, i>>
              BY <6>3
            <7>2. workers'[u][i] = workers[u][i]
              BY <1>3, <1>10, <7>1
            <7>3. QED
              BY <6>1, <7>1, <7>2, TasksAt, TasksAtThen
          <6>4. CASE \E i \in DOMAIN subtasks[u] : p = <<"push", u, i>>
            BY <1>11, <5>2, <6>1, <6>4, TasksAt, TasksAtThen
          <6>5. CASE pc[u] \in TaskLabels /\ p = <<"thread", u, 1>>
            BY <1>9, <3>2, <6>1, <6>5, TasksAt, TasksAtThen
          <6>6. QED
            BY <6>2, <6>3, <6>4, <6>5
        <5>3. QED
          BY <5>1, <5>2
      <4>2. QED
        BY <1>7, <4>1 DEF KeptAs, Refers, Region, RegionOf, BlocksAt, BlocksOf, Kind, From, To,
                          Middle, Position, OwnEnd
    <3>3. QED
      BY <3>1, <3>2
  <2>8. QED
    BY <1>7, <2>6, <2>7, Moved DEF SortingInv
<1>14. TypeOK'
  BY <1>7, <1>9, <1>10, <1>11, SameTypes DEF SortingInv, TypeOK, Labels
<1>15. ThreadInv(t)' /\ ~Copying(t)'
  <2>1. ThreadInv(t) /\ ~Copying(t) /\ ~Copying(t)'
    BY <1>2, <1>8, <1>9 DEF SortingInv, Copying, PushLabels
  <2>2. subtasks'[t] # <<>> <=> l \in PushLabels
    BY <1>2, <1>3, <1>8, <1>11 DEF PushLabels, AfterPush
  <2>3. values[t] = NoValues /\ task[t] # NoTask /\ Kind(task[t]) \in KindsAt(pc[t])
    BY <1>2, <2>1 DEF ThreadInv, PushLabels, ClaimLabels
  <2>4. IF l \in ClaimLabels THEN e = NoTask ELSE e # NoTask /\ Kind(e) \in KindsAt(l)
    BY <1>2, <1>6, <1>8, <2>3 DEF PushLabels, ClaimLabels, KindsAt
  <2>5. l \in Complete /\ Kind(e) = "partition" => Ready(e[2]) + 1 = Length(e)
    BY <1>2, <1>6, <1>8, <2>1 DEF ThreadInv, Complete, PushLabels
  <2>6. l \notin {"partition", "copyLeft", "copyRight", "adjust"}
    BY <1>2, <1>8 DEF PushLabels
  <2>7. QED
    BY <1>7, <1>9, <2>1, <2>2, <2>3, <2>4, <2>5, <2>6
       DEF ThreadInv, NoValues, Ready, Length, From, To, Kind, KindsAt
<1>16. (\A u \in Threads : ThreadInv(u)') /\ CopiesApart'
  BY <1>7, <1>9, <1>11, <1>15, ThreadsStay DEF Aside, SortingInv
<1>17. EndingInv'
  BY <1>2, <1>7, <1>8, <1>9, EndsAsBefore DEF PushLabels, SortingInv, Ending
<1>18. QED
  BY <1>13, <1>14, <1>16, <1>17 DEF SortingInv

-----------------------------------------------------------------------------
(* The thread with a task.                                                 *)
LEMMA OwnTask ==
  ASSUME SortingInv, NEW t \in Threads, pc[t] \in Labels \ ClaimLabels
  PROVE  /\ task[t] \in Tasks /\ task[t] # NoTask /\ Kind(task[t]) \in KindsAt(pc[t])
         /\ pc[t] \notin PushLabels => subtasks[t] = <<>>
         /\ ~Copying(t) => values[t] = NoValues
         /\ pc[t] \in TaskLabels => <<"thread", t, 1>> \in Places /\ pending_tasks # 0
<1>1. ThreadInv(t) /\ task[t] \in Tasks \cup {NoTask}
  BY DEF SortingInv, TypeOK
<1>2. task[t] \in Tasks /\ task[t] # NoTask /\ Kind(task[t]) \in KindsAt(pc[t])
  BY <1>1 DEF ThreadInv
<1>3. pc[t] \notin PushLabels => subtasks[t] = <<>>
  BY <1>1 DEF ThreadInv
<1>4. ~Copying(t) => values[t] = NoValues
  BY <1>1 DEF ThreadInv
<1>5. ASSUME pc[t] \in TaskLabels PROVE <<"thread", t, 1>> \in Places /\ pending_tasks # 0
  <2>1. <<"thread", t, 1>> \in Places
    BY <1>5, PlacesByKind
  <2>2. Singles # {} \/ Objects # {}
    BY <2>1 DEF Singles, Objects, Partitions
  <2>3. /\ IsFiniteSet(Singles) /\ IsFiniteSet(Objects)
        /\ pending_tasks = Cardinality(Singles) + Cardinality(Objects)
    BY DEF SortingInv, PlacesInv, PendingCountsTasks
  <2>4. Cardinality(Singles) \in Nat /\ Cardinality(Objects) \in Nat
    BY <2>3, FS_CardinalityType
  <2>5. Cardinality(Singles) # 0 \/ Cardinality(Objects) # 0
    BY <2>2, <2>3, FS_EmptySet
  <2>6. QED
    BY <2>1, <2>3, <2>4, <2>5
<1>6. QED
  BY <1>2, <1>3, <1>4, <1>5

(* A step within a task that neither makes nor ends one keeps the          *)
(* invariant, when the task does not get more of the array or of the       *)
(* blocks.                                                                 *)
LEMMA TaskGoesOn ==
  ASSUME SortingInv, NEW t \in Threads, NEW l \in TaskLabels \ PushLabels, Goto(t, l),
         pc[t] \in TaskLabels \ PushLabels, Kind(task[t]) \in KindsAt(l),
         UNCHANGED <<workers, finished, other, task, input, pending_tasks, objects, subtasks>>,
         A' \in ArraysOf(Int), B' \in ArraysOf(Int),
         pivot' \in [Threads -> Int], values' \in [Threads -> BlockValues],
         \A u \in Threads \ {t} : pivot'[u] = pivot[u] /\ values'[u] = values[u],
         RegionOf(task[t], l) \subseteq RegionOf(task[t], pc[t]),
         Kind(task[t]) = "partition" =>
           /\ l \in PartitionLabels <=> pc[t] \in PartitionLabels
           /\ l \in PartitionLabels => BlocksOf(task[t], l) = BlocksOf(task[t], pc[t])
           /\ l \in Complete => pc[t] \in Complete,
         l = "partition" => task[t][3] < OwnEnd(task[t]),
         l = "adjust" => pivot'[t] \in 0 .. Length(task[t]) - 1,
         l # "copyLeft",
         IF l = "copyRight" THEN Copying(t) /\ values' = values ELSE values'[t] = NoValues
  PROVE  SortingInv'
<1>1. /\ pc' \in [Threads -> Labels] /\ pc'[t] = l /\ l \in Labels
      /\ \A u \in Threads \ {t} : pc'[u] = pc[u]
  BY Goes DEF SortingInv, Labels
<1>2. /\ workers' = workers /\ finished' = finished /\ other' = other /\ task' = task
      /\ input' = input /\ pending_tasks' = pending_tasks /\ subtasks' = subtasks
      /\ reference_count' = reference_count /\ counters' = counters
  BY DEF objects
<1>3. /\ task[t] \in Tasks /\ task[t] # NoTask /\ subtasks[t] = <<>> /\ ThreadInv(t)
      /\ pc[t] \notin ClaimLabels /\ l \notin ClaimLabels
  BY OwnTask DEF Labels, TaskLabels, PartitionLabels, ClaimLabels, SortingInv
<1>4. Aside(t)
  BY <1>1, <1>2 DEF Aside
<1>5. KeptAs(<<"thread", t, 1>>, <<"thread", t, 1>>)
  <2>1. RegionOf(task[t], l)' = RegionOf(task[t], l)'
    OBVIOUS
  <2>2. /\ TaskAt(<<"thread", t, 1>>)' = TaskAt(<<"thread", t, 1>>)
        /\ TaskAt(<<"thread", t, 1>>) = task[t]
        /\ Stage(<<"thread", t, 1>>) = pc[t] /\ Stage(<<"thread", t, 1>>)' = l
    BY <1>1, <1>2, TasksAt, TasksAtThen
  <2>3. Refers(<<"thread", t, 1>>)' <=> Refers(<<"thread", t, 1>>)
    BY <2>2 DEF Refers, Kind
  <2>4. /\ Region(<<"thread", t, 1>>)' = RegionOf(task[t], l)
        /\ Region(<<"thread", t, 1>>) = RegionOf(task[t], pc[t])
    BY <1>2, <2>2 DEF Region, RegionOf, Kind, From, To, Middle, Position
  <2>5. Refers(<<"thread", t, 1>>) => BlocksAt(<<"thread", t, 1>>)' = BlocksAt(<<"thread", t, 1>>)
    BY <2>2 DEF Refers, BlocksAt, BlocksOf, OwnEnd
  <2>6. QED
    BY <2>2, <2>3, <2>4, <2>5 DEF KeptAs
<1>6. Copying(t)' => Copying(t) /\ task'[t] = task[t] /\ values'[t] = values[t]
  BY <1>1, <1>2 DEF Copying
<1>7. ThreadInv(t)'
  <2>1. (IF Copying(t) THEN /\ LeftPlaces(values[t]) \subseteq LeftArea(task[t][2])
                            /\ RightPlaces(values[t]) \subseteq RightArea(task[t][2])
         ELSE values[t] = NoValues)'
    <3>1. CASE l = "copyRight"
      BY <1>1, <1>2, <1>3, <3>1 DEF ThreadInv, Copying, LeftPlaces, RightPlaces, LeftArea,
         RightArea
    <3>2. CASE l # "copyRight"
      BY <1>1, <3>2 DEF Copying, NoValues
    <3>3. QED
      BY <3>1, <3>2
  <2>2. (pc[t] \in Complete /\ Kind(task[t]) = "partition" => Ready(task[t][2]) + 1 = Length(task[t]))'
    BY <1>1, <1>2, <1>3 DEF ThreadInv, Ready, Length, From, To, Kind
  <2>3. (/\ IF pc[t] \in ClaimLabels THEN task[t] = NoTask
            ELSE task[t] # NoTask /\ Kind(task[t]) \in KindsAt(pc[t])
         /\ subtasks[t] # <<>> <=> pc[t] \in PushLabels)'
    BY <1>1, <1>2, <1>3 DEF Kind, KindsAt, NoTask
  <2>4. (pc[t] \in {"partition", "copyLeft", "copyRight"} => task[t][3] < OwnEnd(task[t]))'
    BY <1>1, <1>2, <1>3 DEF ThreadInv, OwnEnd, Copying
  <2>5. (pc[t] = "adjust" => pivot[t] \in 0 .. Length(task[t]) - 1)'
    BY <1>1, <1>2 DEF Length, From, To
  <2>6. QED
    BY <2>1, <2>2, <2>3, <2>4, <2>5 DEF ThreadInv
<1>8. EndingInv'
  BY <1>1, <1>2, EndsAsBefore DEF Ending, TaskLabels, PartitionLabels, SortingInv
<1>9. /\ task' \in [Threads -> Tasks \cup {NoTask}] /\ finished' \in BOOLEAN
      /\ other' \in [Threads -> Threads]
  BY <1>2 DEF SortingInv, TypeOK
<1>10. QED
  BY <1>1, <1>2, <1>4, <1>5, <1>6, <1>7, <1>8, <1>9, ThreadAlone

(* The elements of a task's segment.                                       *)
LEMMA SegmentIs ==
  ASSUME TypeOK, NEW d \in Tasks, Kind(d) # "reset"
  PROVE  /\ Source(d) \in [0 .. Len(input) - 1 -> Int]
         /\ Length(d) \in Nat \ {0} /\ Length(d) < HALF
         /\ Segment(d) \in Seq(Int) /\ Len(Segment(d)) = Length(d)
         /\ \A i \in 1 .. Length(d) : /\ Segment(d)[i] = Source(d)[From(d) + i - 1]
                                      /\ From(d) + i - 1 \in 0 .. Len(input) - 1
<1>1. Source(d) \in [0 .. Len(input) - 1 -> Int]
  BY DEF TypeOK, ArraysOf, Source
<1>2. /\ From(d) \in Nat /\ To(d) \in 0 .. Len(input) /\ From(d) < To(d)
      /\ Len(input) \in Nat /\ Len(input) < HALF /\ HALF \in Nat
  BY TasksAre, InputType
<1>3. Length(d) \in Nat \ {0} /\ Length(d) < HALF /\ Length(d) = To(d) - From(d)
  BY <1>2 DEF Length
<1>4. From(d) <= To(d)
  BY <1>2
<1>5. QED
  BY <1>1, <1>2, <1>3, <1>4, SliceIs DEF Segment

(* Storing integers in an array gives an array of integers.                *)
LEMMA StoredType ==
  ASSUME TypeOK, NEW cells \in ArraysOf(Int), NEW from \in Int, NEW new \in Seq(Int)
  PROVE  Overwrite(cells, from, new) \in ArraysOf(Int)
BY InputType, OverwriteIs DEF ArraysOf

(* The reset of a part goes on to count.                                   *)
LEMMA ResetRunKeeps ==
  ASSUME SortingInv, NEW t \in Threads, ResetRun(t)
  PROVE  SortingInv'
<1>1. PICK d : d = task[t]
  OBVIOUS
<1>2. pc[t] = "run" /\ Kind(d) = "reset" /\ Goto(t, "countReset")
  BY <1>1 DEF ResetRun
<1>3. d \in Tasks /\ subtasks[t] = <<>> /\ values[t] = NoValues
  BY <1>1, <1>2, OwnTask DEF Labels, TaskLabels, PartitionLabels, ClaimLabels, PushLabels, Copying
<1>4. /\ A' = Overwrite(A, From(d), SubSeq(input, From(d) + 1, To(d)))
      /\ B' = B /\ pivot' = pivot /\ values' = values
      /\ UNCHANGED <<workers, finished, other, task, input, pending_tasks, objects, subtasks>>
  BY <1>1 DEF ResetRun, local
<1>5. TypeOK
  BY DEF SortingInv
<1>6. A' \in ArraysOf(Int)
  <2>1. /\ From(d) \in 0 .. Len(input) /\ To(d) \in 0 .. Len(input)
        /\ input \in Seq(Nat) /\ Len(input) \in Nat
    BY <1>3, <1>5, TasksAre, InputType
  <2>2. SubSeq(input, From(d) + 1, To(d)) \in Seq(Nat)
    BY <2>1
  <2>3. SubSeq(input, From(d) + 1, To(d)) \in Seq(Int)
    <3>1. PICK s : s = SubSeq(input, From(d) + 1, To(d))
      OBVIOUS
    <3>2. s \in Seq(Nat)
      BY <2>2, <3>1
    <3>3. s \in Seq(Int)
      BY <3>2
    <3>4. QED
      BY <3>1, <3>3
  <2>4. A \in ArraysOf(Int) /\ From(d) \in Int
    BY <1>5, <2>1 DEF TypeOK
  <2>5. QED
    BY <1>4, <1>5, <2>3, <2>4, StoredType
<1>7. /\ B' \in ArraysOf(Int) /\ pivot' \in [Threads -> Int] /\ values' \in [Threads -> BlockValues]
  BY <1>4, <1>5 DEF TypeOK
<1>8. /\ "countReset" \in TaskLabels \ PushLabels /\ pc[t] \in TaskLabels \ PushLabels
      /\ Kind(task[t]) \in KindsAt("countReset")
  BY <1>1, <1>2 DEF TaskLabels, PartitionLabels, PushLabels, KindsAt
<1>9. RegionOf(task[t], "countReset") \subseteq RegionOf(task[t], pc[t])
  BY <1>1, <1>2 DEF RegionOf
<1>10. QED
  BY <1>1, <1>2, <1>3, <1>4, <1>6, <1>7, <1>8, <1>9, TaskGoesOn

(* Sorting a segment goes on to release it.                                *)
LEMMA SequentialRunKeeps ==
  ASSUME SortingInv, NEW t \in Threads, SequentialRun(t)
  PROVE  SortingInv'
<1>1. PICK d : d = task[t]
  OBVIOUS
<1>2. pc[t] = "run" /\ Kind(d) = "sequential" /\ Goto(t, "release")
  BY <1>1 DEF SequentialRun
<1>3. d \in Tasks /\ subtasks[t] = <<>> /\ values[t] = NoValues
  BY <1>1, <1>2, OwnTask DEF Labels, TaskLabels, PartitionLabels, ClaimLabels, PushLabels, Copying
<1>4. /\ B' = Overwrite(B, From(d), Sorted(Segment(d)))
      /\ A' = A /\ pivot' = pivot /\ values' = values
      /\ UNCHANGED <<workers, finished, other, task, input, pending_tasks, objects, subtasks>>
  BY <1>1 DEF SequentialRun, local
<1>5. TypeOK
  BY DEF SortingInv
<1>6. B' \in ArraysOf(Int)
  <2>1. From(d) \in 0 .. Len(input) /\ Len(input) \in Nat
    BY <1>3, <1>5, TasksAre, InputType
  <2>2. Sorted(Segment(d)) \in Seq(Int)
    BY <1>2, <1>3, <1>5, SegmentIs, SortedBelow
  <2>3. B \in ArraysOf(Int) /\ From(d) \in Int
    BY <1>5, <2>1 DEF TypeOK
  <2>4. QED
    BY <1>4, <1>5, <2>2, <2>3, StoredType
<1>7. /\ A' \in ArraysOf(Int) /\ pivot' \in [Threads -> Int] /\ values' \in [Threads -> BlockValues]
  BY <1>4, <1>5 DEF TypeOK
<1>8. /\ "release" \in TaskLabels \ PushLabels /\ pc[t] \in TaskLabels \ PushLabels
      /\ Kind(task[t]) \in KindsAt("release")
  BY <1>1, <1>2 DEF TaskLabels, PartitionLabels, PushLabels, KindsAt
<1>9. RegionOf(task[t], "release") \subseteq RegionOf(task[t], pc[t])
  BY <1>1, <1>2 DEF RegionOf, PartitionLabels
<1>10. QED
  BY <1>1, <1>2, <1>3, <1>4, <1>6, <1>7, <1>8, <1>9, TaskGoesOn

(* Partitioning in place leaves the pivot in the segment.                  *)
LEMMA RecursionRunKeeps ==
  ASSUME SortingInv, NEW t \in Threads, RecursionRun(t)
  PROVE  SortingInv'
<1>1. PICK d : d = task[t]
  OBVIOUS
<1>2. pc[t] = "run" /\ Kind(d) = "recursion" /\ Goto(t, "adjust")
  BY <1>1 DEF RecursionRun
<1>3. d \in Tasks /\ subtasks[t] = <<>> /\ values[t] = NoValues
  BY <1>1, <1>2, OwnTask DEF Labels, TaskLabels, PartitionLabels, ClaimLabels, PushLabels, Copying
<1>4. /\ B' = Overwrite(B, From(d), PartitionedSequentially(Segment(d)))
      /\ pivot' = [pivot EXCEPT ![t] = PivotPosition(Segment(d))]
      /\ A' = A /\ values' = values
      /\ UNCHANGED <<workers, finished, other, task, input, pending_tasks, objects, subtasks>>
  BY <1>1 DEF RecursionRun
<1>5. TypeOK
  BY DEF SortingInv
<1>6. /\ Segment(d) \in Seq(Int) /\ Len(Segment(d)) = Length(d) /\ Length(d) \in Nat \ {0}
      /\ PartitionedSequentially(Segment(d)) \in Seq(Int)
      /\ PivotPosition(Segment(d)) \in 0 .. Length(d) - 1
  <2>1. PICK s : s = Segment(d)
    OBVIOUS
  <2>2. s \in Seq(Int) /\ Len(s) = Length(d) /\ Length(d) \in Nat \ {0}
    BY <1>2, <1>3, <1>5, <2>1, SegmentIs
  <2>3. Len(s) >= 1
    BY <2>2
  <2>4. PartitionedSequentially(s) \in Seq(Int) /\ PivotPosition(s) \in 0 .. Len(s) - 1
    BY <2>2, <2>3, SequentialParts
  <2>5. QED
    BY <2>1, <2>2, <2>4
<1>7. B' \in ArraysOf(Int)
  <2>1. From(d) \in 0 .. Len(input) /\ Len(input) \in Nat
    BY <1>3, <1>5, TasksAre, InputType
  <2>2. B \in ArraysOf(Int) /\ From(d) \in Int
    BY <1>5, <2>1 DEF TypeOK
  <2>3. QED
    BY <1>4, <1>5, <1>6, <2>2, StoredType
<1>8. /\ A' \in ArraysOf(Int) /\ pivot' \in [Threads -> Int] /\ values' \in [Threads -> BlockValues]
      /\ pivot'[t] = PivotPosition(Segment(d))
      /\ \A u \in Threads \ {t} : pivot'[u] = pivot[u] /\ values'[u] = values[u]
  BY <1>4, <1>5, <1>6 DEF TypeOK
<1>9. /\ "adjust" \in TaskLabels \ PushLabels /\ pc[t] \in TaskLabels \ PushLabels
      /\ Kind(task[t]) \in KindsAt("adjust")
  BY <1>1, <1>2 DEF TaskLabels, PartitionLabels, PushLabels, KindsAt
<1>10. RegionOf(task[t], "adjust") \subseteq RegionOf(task[t], pc[t])
  BY <1>1, <1>2 DEF RegionOf, PartitionLabels
<1>11. QED
  BY <1>1, <1>2, <1>3, <1>4, <1>6, <1>7, <1>8, <1>9, <1>10, TaskGoesOn

(* After the pivot is read there is a block to partition or none.          *)
LEMMA LoadPivotKeeps ==
  ASSUME SortingInv, NEW t \in Threads, LoadPivot(t)
  PROVE  SortingInv'
<1>1. PICK d, l : d = task[t] /\ l = IF d[3] < OwnEnd(d) THEN "partition" ELSE "drop"
  OBVIOUS
<1>2. pc[t] = "pivot" /\ Goto(t, l)
  BY <1>1 DEF LoadPivot
<1>3. /\ d \in Tasks /\ subtasks[t] = <<>> /\ values[t] = NoValues /\ Kind(d) = "partition"
  BY <1>1, <1>2, OwnTask
     DEF Labels, TaskLabels, PartitionLabels, ClaimLabels, PushLabels, Copying, KindsAt
<1>4. /\ pivot' = [pivot EXCEPT ![t] = Source(d)[From(d)]]
      /\ A' = A /\ B' = B /\ values' = values
      /\ UNCHANGED <<workers, finished, other, task, input, pending_tasks, objects, subtasks>>
  BY <1>1 DEF LoadPivot, arrays
<1>5. TypeOK
  BY DEF SortingInv
<1>6. Source(d)[From(d)] \in Int
  BY <1>3, <1>5, TasksAre, InputType, SegmentIs
<1>7. /\ A' \in ArraysOf(Int) /\ B' \in ArraysOf(Int) /\ values' \in [Threads -> BlockValues]
      /\ pivot' \in [Threads -> Int]
      /\ \A u \in Threads \ {t} : pivot'[u] = pivot[u] /\ values'[u] = values[u]
  BY <1>4, <1>5, <1>6 DEF TypeOK
<1>8. /\ l \in {"partition", "drop"} /\ l \in TaskLabels \ PushLabels
      /\ pc[t] \in TaskLabels \ PushLabels /\ Kind(task[t]) \in KindsAt(l)
  BY <1>1, <1>2, <1>3 DEF TaskLabels, PartitionLabels, PushLabels, KindsAt
<1>9. RegionOf(task[t], l) \subseteq RegionOf(task[t], pc[t])
  BY <1>1, <1>2, <1>8 DEF RegionOf, PartitionLabels
<1>10. /\ l \in PartitionLabels <=> pc[t] \in PartitionLabels
       /\ BlocksOf(task[t], l) = BlocksOf(task[t], pc[t])
       /\ l \in Complete => pc[t] \in Complete
  BY <1>1, <1>2, <1>3, <1>5, <1>8, TasksAre DEF OwnEnd, BlocksOf, PartitionLabels, Complete
<1>11. QED
  BY <1>1, <1>2, <1>3, <1>4, <1>7, <1>8, <1>9, <1>10, TaskGoesOn

(* The partitioned block of a thread has the fields of one.                *)
LEMMA ValuesType ==
  ASSUME TypeOK, NEW t \in Threads
  PROVE  /\ values[t].left \in Seq(Int) /\ values[t].right \in Seq(Int)
         /\ values[t].left_offset \in Nat /\ values[t].right_offset \in Nat
BY DEF TypeOK, BlockValues

(* Storing in the output array keeps both arrays of integers.              *)
LEMMA StoreOutputType ==
  ASSUME TypeOK, NEW d, NEW from \in Int, NEW new \in Seq(Int), StoreOutput(d, from, new)
  PROVE  A' \in ArraysOf(Int) /\ B' \in ArraysOf(Int)
BY StoredType DEF TypeOK, StoreOutput

(* Copying the left part writes nothing else.                              *)
LEMMA CopyLeftKeeps ==
  ASSUME SortingInv, NEW t \in Threads, CopyLeft(t)
  PROVE  SortingInv'
<1>1. PICK d : d = task[t]
  OBVIOUS
<1>2. pc[t] = "copyLeft" /\ Goto(t, "copyRight")
  BY DEF CopyLeft
<1>3. d \in Tasks /\ subtasks[t] = <<>> /\ Kind(d) = "partition"
  BY <1>1, <1>2, OwnTask
     DEF Labels, TaskLabels, PartitionLabels, ClaimLabels, PushLabels, KindsAt
<1>4. /\ StoreOutput(d, values[t].left_offset, values[t].left)
      /\ pivot' = pivot /\ values' = values
      /\ UNCHANGED <<workers, finished, other, task, input, pending_tasks, objects, subtasks>>
  BY <1>1 DEF CopyLeft, local
<1>5. TypeOK
  BY DEF SortingInv
<1>6. A' \in ArraysOf(Int) /\ B' \in ArraysOf(Int)
  BY <1>4, <1>5, ValuesType, StoreOutputType
<1>7. /\ pivot' \in [Threads -> Int] /\ values' \in [Threads -> BlockValues]
  BY <1>4, <1>5 DEF TypeOK
<1>8. /\ "copyRight" \in TaskLabels \ PushLabels /\ pc[t] \in TaskLabels \ PushLabels
      /\ Kind(task[t]) \in KindsAt("copyRight") /\ Copying(t)
  BY <1>1, <1>2, <1>3 DEF TaskLabels, PartitionLabels, PushLabels, KindsAt, Copying
<1>9. /\ RegionOf(task[t], "copyRight") \subseteq RegionOf(task[t], pc[t])
      /\ "copyRight" \in PartitionLabels /\ pc[t] \in PartitionLabels
      /\ BlocksOf(task[t], "copyRight") = BlocksOf(task[t], pc[t])
      /\ "copyRight" \notin Complete
  BY <1>1, <1>2 DEF RegionOf, BlocksOf, PartitionLabels, Complete
<1>10. QED
  BY <1>1, <1>2, <1>4, <1>6, <1>7, <1>8, <1>9, TaskGoesOn

(* After the right part is copied the reserved places are not needed.      *)
LEMMA CopyRightKeeps ==
  ASSUME SortingInv, NEW t \in Threads, CopyRight(t)
  PROVE  SortingInv'
<1>1. PICK d : d = task[t]
  OBVIOUS
<1>2. pc[t] = "copyRight" /\ Goto(t, "drop")
  BY DEF CopyRight
<1>3. d \in Tasks /\ subtasks[t] = <<>> /\ Kind(d) = "partition"
  BY <1>1, <1>2, OwnTask
     DEF Labels, TaskLabels, PartitionLabels, ClaimLabels, PushLabels, KindsAt
<1>4. /\ StoreOutput(d, values[t].right_offset, values[t].right)
      /\ pivot' = pivot /\ values' = [values EXCEPT ![t] = NoValues]
      /\ UNCHANGED <<workers, finished, other, task, input, pending_tasks, objects, subtasks>>
  BY <1>1 DEF CopyRight
<1>5. TypeOK
  BY DEF SortingInv
<1>6. A' \in ArraysOf(Int) /\ B' \in ArraysOf(Int)
  BY <1>4, <1>5, ValuesType, StoreOutputType
<1>7. /\ pivot' \in [Threads -> Int] /\ values' \in [Threads -> BlockValues] /\ values'[t] = NoValues
      /\ \A u \in Threads \ {t} : pivot'[u] = pivot[u] /\ values'[u] = values[u]
  BY <1>4, <1>5 DEF NoValues, BlockValues, TypeOK
<1>8. /\ "drop" \in TaskLabels \ PushLabels /\ pc[t] \in TaskLabels \ PushLabels
      /\ Kind(task[t]) \in KindsAt("drop")
  BY <1>1, <1>2, <1>3 DEF TaskLabels, PartitionLabels, PushLabels, KindsAt
<1>9. /\ RegionOf(task[t], "drop") \subseteq RegionOf(task[t], pc[t])
      /\ "drop" \in PartitionLabels /\ pc[t] \in PartitionLabels
      /\ BlocksOf(task[t], "drop") = BlocksOf(task[t], pc[t])
      /\ "drop" \notin Complete
  BY <1>1, <1>2 DEF RegionOf, BlocksOf, PartitionLabels, Complete
<1>10. QED
  BY <1>1, <1>2, <1>4, <1>6, <1>7, <1>8, <1>9, TaskGoesOn

(* Storing the pivot writes nothing else.                                  *)
LEMMA StorePivotKeeps ==
  ASSUME SortingInv, NEW t \in Threads, StorePivot(t)
  PROVE  SortingInv'
<1>1. PICK d, x : d = task[t] /\ x = Source(d)[From(d)]
  OBVIOUS
<1>2. pc[t] = "storePivot" /\ Goto(t, "left")
  BY DEF StorePivot
<1>3. d \in Tasks /\ subtasks[t] = <<>> /\ values[t] = NoValues /\ Kind(d) = "partition"
  BY <1>1, <1>2, OwnTask
     DEF Labels, TaskLabels, PartitionLabels, ClaimLabels, PushLabels, Copying, KindsAt
<1>4. /\ B' = Overwrite(B, From(d) + Position(d), <<x>>)
      /\ A' = A /\ pivot' = pivot /\ values' = values
      /\ UNCHANGED <<workers, finished, other, task, input, pending_tasks, objects, subtasks>>
  BY <1>1 DEF StorePivot, local
<1>5. TypeOK
  BY DEF SortingInv
<1>6. B' \in ArraysOf(Int)
  <2>1. From(d) \in Nat /\ From(d) < To(d) /\ To(d) \in 0 .. Len(input) /\ Len(input) \in Nat
    BY <1>3, <1>5, TasksAre, InputType
  <2>2. From(d) \in 0 .. Len(input) - 1 /\ Source(d) \in [0 .. Len(input) - 1 -> Int]
    BY <1>3, <1>5, <2>1, SegmentIs
  <2>3. x \in Int
    BY <1>1, <2>2
  <2>4. <<x>> \in Seq(Int)
    BY <2>3
  <2>5. Position(d) \in Int
    <3>1. d[2] \in Sorts /\ HALF \in Nat \ {0}
      BY <1>3, <1>5, TasksAre, InputType
    <3>2. counters[d[2]] \in Nat
      BY <1>5, <3>1 DEF TypeOK
    <3>3. QED
      BY <3>1, <3>2 DEF Position, LeftCount
  <2>6. From(d) + Position(d) \in Int /\ B \in ArraysOf(Int)
    BY <1>5, <2>1, <2>5 DEF TypeOK
  <2>7. QED
    BY <1>4, <1>5, <2>4, <2>6, StoredType
<1>7. /\ A' \in ArraysOf(Int) /\ pivot' \in [Threads -> Int] /\ values' \in [Threads -> BlockValues]
  BY <1>4, <1>5 DEF TypeOK
<1>8. /\ "left" \in TaskLabels \ PushLabels /\ pc[t] \in TaskLabels \ PushLabels
      /\ Kind(task[t]) \in KindsAt("left")
  BY <1>1, <1>2, <1>3 DEF TaskLabels, PartitionLabels, PushLabels, KindsAt
<1>9. /\ RegionOf(task[t], "left") \subseteq RegionOf(task[t], pc[t])
      /\ "left" \notin PartitionLabels /\ pc[t] \notin PartitionLabels /\ pc[t] \in Complete
  BY <1>1, <1>2 DEF RegionOf, PartitionLabels, Complete
<1>10. QED
  BY <1>1, <1>2, <1>3, <1>4, <1>6, <1>7, <1>8, <1>9, TaskGoesOn

(* The thread that finishes the pool has no task any more.                 *)
LEMMA FinishPoolKeeps ==
  ASSUME SortingInv, NEW t \in Threads, FinishPool(t)
  PROVE  SortingInv'
<1>1. /\ pc[t] = "finish" /\ Goto(t, "claim") /\ finished' = TRUE
      /\ task' = [task EXCEPT ![t] = NoTask]
      /\ workers' = workers /\ other' = other /\ input' = input /\ A' = A /\ B' = B
      /\ pending_tasks' = pending_tasks /\ subtasks' = subtasks /\ pivot' = pivot /\ values' = values
      /\ UNCHANGED <<workers, input, pending_tasks, objects, subtasks>>
  BY DEF FinishPool, Finish, Return, quicksortVars, arrays, local
<1>2. /\ pc' \in [Threads -> Labels] /\ pc'[t] = "claim" /\ "claim" \in Labels
      /\ \A u \in Threads \ {t} : pc'[u] = pc[u]
  BY <1>1, Goes DEF SortingInv, Labels, ClaimLabels
<1>3. /\ task'[t] = NoTask /\ \A u \in Threads \ {t} : task'[u] = task[u]
      /\ task' \in [Threads -> Tasks \cup {NoTask}]
  BY <1>1 DEF SortingInv, TypeOK
<1>4. subtasks[t] = <<>> /\ values[t] = NoValues
  BY <1>1, OwnTask DEF Labels, TaskLabels, PartitionLabels, ClaimLabels, PushLabels, Copying
<1>5. Aside(t)
  BY <1>1, <1>2, <1>3 DEF Aside
<1>6. ThreadInv(t)' /\ ~Copying(t)'
  BY <1>1, <1>2, <1>3, <1>4
     DEF ThreadInv, ClaimLabels, PushLabels, Complete, Copying, NoValues
<1>7. EndingInv'
  BY <1>1, <1>2 DEF SortingInv, EndingInv, Ending
<1>8. pc[t] \notin TaskLabels /\ "claim" \notin TaskLabels
  BY <1>1 DEF TaskLabels, PartitionLabels
<1>9. /\ A' \in ArraysOf(Int) /\ B' \in ArraysOf(Int) /\ pivot' \in [Threads -> Int]
      /\ values' \in [Threads -> BlockValues] /\ finished' \in BOOLEAN /\ other' \in [Threads -> Threads]
  BY <1>1 DEF SortingInv, TypeOK
<1>10. QED
  BY <1>1, <1>2, <1>3, <1>5, <1>6, <1>7, <1>8, <1>9, ThreadAlone

-----------------------------------------------------------------------------
(* A step of thread t that changes its tasks: the one in its hand and the  *)
(* ones to push.                                                           *)
Mine(t) == ToPush(t) \cup InHand(t)

(* The places of thread t outside the deques.                              *)
LEMMA MineAre ==
  ASSUME NEW t
  PROVE  /\ \A p : p \in Mine(t) <=> \/ \E i \in DOMAIN subtasks[t] : p = <<"push", t, i>>
                                     \/ pc[t] \in TaskLabels /\ p = <<"thread", t, 1>>
         /\ \A p : p \in Mine(t)' <=> \/ \E i \in DOMAIN subtasks'[t] : p = <<"push", t, i>>
                                      \/ pc'[t] \in TaskLabels /\ p = <<"thread", t, 1>>
BY DEF Mine, ToPush, InHand

(* A step of thread t that leaves the deques alone keeps all other places. *)
LEMMA OtherPlaces ==
  ASSUME NEW t \in Threads, Aside(t), workers' = workers
  PROVE  /\ Mine(t) \subseteq Places /\ Mine(t)' \subseteq Places'
         /\ \A p : p \in Places \ Mine(t) <=> p \in Places' \ Mine(t)'
         /\ \A p \in Places \ Mine(t) : TaskAt(p)' = TaskAt(p) /\ Stage(p)' = Stage(p)
<1>1. Mine(t) \subseteq Places /\ Mine(t)' \subseteq Places'
  BY DEF Mine, Places
<1>2. ASSUME NEW p
      PROVE  p \in Places \ Mine(t) <=>
               \/ \E u \in Threads : \E i \in DOMAIN workers[u] : p = <<"deque", u, i>>
               \/ \E u \in Threads \ {t} : \/ \E i \in DOMAIN subtasks[u] : p = <<"push", u, i>>
                                           \/ pc[u] \in TaskLabels /\ p = <<"thread", u, 1>>
  BY PlacesAre, MineAre DEF IsPlace
<1>3. ASSUME NEW p
      PROVE  p \in Places' \ Mine(t)' <=>
               \/ \E u \in Threads : \E i \in DOMAIN workers'[u] : p = <<"deque", u, i>>
               \/ \E u \in Threads \ {t} : \/ \E i \in DOMAIN subtasks'[u] : p = <<"push", u, i>>
                                           \/ pc'[u] \in TaskLabels /\ p = <<"thread", u, 1>>
  BY PlacesAre, MineAre DEF IsPlace
<1>4. \A p : p \in Places \ Mine(t) <=> p \in Places' \ Mine(t)'
  BY <1>2, <1>3 DEF Aside
<1>5. ASSUME NEW p \in Places \ Mine(t)
      PROVE  TaskAt(p)' = TaskAt(p) /\ Stage(p)' = Stage(p)
  <2>1. CASE \E u \in Threads : \E i \in DOMAIN workers[u] : p = <<"deque", u, i>>
    BY <2>1, TasksAt, TasksAtThen
  <2>2. CASE \E u \in Threads \ {t} : \/ \E i \in DOMAIN subtasks[u] : p = <<"push", u, i>>
                                      \/ pc[u] \in TaskLabels /\ p = <<"thread", u, 1>>
    BY <2>2, TasksAt, TasksAtThen DEF Aside
  <2>3. QED
    BY <1>2, <2>1, <2>2
<1>6. QED
  BY <1>1, <1>4, <1>5

(* A task that is left alone is kept, unless its counters change when its  *)
(* region depends on them.                                                 *)
LEMMA KeptHere ==
  ASSUME NEW p, TaskAt(p)' = TaskAt(p), Stage(p)' = Stage(p),
         \/ Stage(p) \notin {"pushLeft", "right", "pushRight", "release"}
         \/ Stage(p) \notin {"pushLeft", "right"} /\ Kind(TaskAt(p)) # "partition"
         \/ counters'[TaskAt(p)[2]] = counters[TaskAt(p)[2]]
  PROVE  KeptAs(p, p)
<1>1. PICK d, l : d = TaskAt(p) /\ l = Stage(p)
  OBVIOUS
<1>2. TaskAt(p)' = d /\ Stage(p)' = l
  BY <1>1
<1>3. Refers(p)' <=> Refers(p)
  BY <1>1, <1>2 DEF Refers, Kind
<1>4. BlocksAt(p)' = BlocksAt(p)
  BY <1>1, <1>2 DEF BlocksAt, BlocksOf, OwnEnd
<1>5. Region(p)' = Region(p)
  <2>1. CASE l \notin {"pushLeft", "right", "pushRight", "release"}
    BY <1>1, <1>2, <2>1 DEF Region, RegionOf, PartitionLabels, Kind, From, To
  <2>2. CASE l \in {"pushRight", "release"} /\ Kind(d) # "partition"
    BY <1>1, <1>2, <2>2 DEF Region, RegionOf, PartitionLabels, Kind, From, To
  <2>3. CASE counters'[d[2]] = counters[d[2]]
    BY <1>1, <1>2, <2>3 DEF Region, RegionOf, PartitionLabels, Kind, From, To, Middle, Position
  <2>4. QED
    BY <1>1, <2>1, <2>2, <2>3
<1>6. QED
  BY <1>2, <1>3, <1>4, <1>5 DEF KeptAs

(* What the tasks of thread t become stays in the region of the task.      *)
LEMMA Apart ==
  ASSUME PlacesInv, NEW t \in Threads, Aside(t), workers' = workers,
         NEW b, Mine(t) = {b}, \A p \in Places \ {b} : KeptAs(p, p),
         \A q \in Mine(t)' : Region(q)' \subseteq Region(b),
         \A q \in Mine(t)' : Refers(q)' =>
           IF Refers(b)
             THEN (TaskAt(q)[2])' = TaskAt(b)[2] /\ BlocksAt(q)' \subseteq BlocksAt(b)
             ELSE \A p \in Places \ {b} : ~(Refers(p) /\ TaskAt(p)[2] = (TaskAt(q)[2])'),
         \A p \in Places \ {b} : SameSort(p, b) => \A q \in Mine(t)' : Refers(q)',
         \A q, r \in Mine(t)' : q # r =>
           IF SameSort(q, r)' THEN BlocksAt(q)' \cap BlocksAt(r)' = {}
                              ELSE Region(q)' \cap Region(r)' = {}
  PROVE  RegionsApart' /\ BlocksApart'
<1>1. /\ b \in Places /\ Mine(t)' \subseteq Places'
      /\ \A p : p \in Places \ {b} <=> p \in Places' \ Mine(t)'
  BY OtherPlaces
<1>2. ASSUME NEW p \in Places \ {b}, NEW q \in Mine(t)'
      PROVE  /\ ~SameSort(p, q)' => Region(p)' \cap Region(q)' = {}
             /\ SameSort(p, q)' => BlocksAt(p)' \cap BlocksAt(q)' = {}
  <2>1. KeptAs(p, p) /\ Region(q)' \subseteq Region(b)
    OBVIOUS
  <2>2. ASSUME ~SameSort(p, q)' PROVE Region(p)' \cap Region(q)' = {}
    BY <1>1, <2>1, <2>2 DEF SameSort, KeptAs, PlacesInv, RegionsApart
  <2>3. ASSUME SameSort(p, q)' PROVE BlocksAt(p)' \cap BlocksAt(q)' = {}
    BY <1>1, <2>1, <2>3 DEF SameSort, KeptAs, PlacesInv, BlocksApart
  <2>4. QED
    BY <2>2, <2>3
<1>3. ASSUME NEW p \in Places \ {b}, NEW q \in Places \ {b}, p # q
      PROVE  /\ ~SameSort(p, q)' => Region(p)' \cap Region(q)' = {}
             /\ SameSort(p, q)' => BlocksAt(p)' \cap BlocksAt(q)' = {}
  <2>1. KeptAs(p, p) /\ KeptAs(q, q)
    OBVIOUS
  <2>2. SameSort(p, q)' <=> SameSort(p, q)
    BY <2>1 DEF KeptAs, SameSort
  <2>3. CASE SameSort(p, q)
    BY <1>3, <2>1, <2>2, <2>3 DEF PlacesInv, BlocksApart, SameSort, KeptAs
  <2>4. CASE ~SameSort(p, q)
    BY <1>3, <2>1, <2>2, <2>4 DEF PlacesInv, RegionsApart, KeptAs
  <2>5. QED
    BY <2>3, <2>4
<1>4. ASSUME NEW p \in Places', NEW q \in Places', p # q
      PROVE  /\ ~SameSort(p, q)' => Region(p)' \cap Region(q)' = {}
             /\ SameSort(p, q)' => BlocksAt(p)' \cap BlocksAt(q)' = {}
  <2>1. CASE p \in Mine(t)' /\ q \in Mine(t)'
    BY <1>4, <2>1
  <2>2. CASE p \notin Mine(t)' /\ q \in Mine(t)'
    BY <1>1, <1>2, <2>2
  <2>3. CASE p \in Mine(t)' /\ q \notin Mine(t)'
    BY <1>1, <1>2, <2>3 DEF SameSort
  <2>4. CASE p \notin Mine(t)' /\ q \notin Mine(t)'
    BY <1>1, <1>3, <1>4, <2>4
  <2>5. QED
    BY <2>1, <2>2, <2>3, <2>4
<1>5. QED
  BY <1>4 DEF RegionsApart, BlocksApart

(* The references, the tasks and the Sort objects after the step.          *)
LEMMA ReferencesThen ==
  ASSUME NEW t \in Threads, Aside(t), workers' = workers,
         NEW b, Mine(t) = {b}, \A p \in Places \ {b} : KeptAs(p, p), NEW s
  PROVE  /\ References(s)' = (References(s) \ {b})
                               \cup {q \in Mine(t)' : Refers(q)' /\ (TaskAt(q)[2])' = s}
         /\ \A p \in References(s) \ {b} : BlocksAt(p)' = BlocksAt(p) /\ p \notin Mine(t)'
<1>1. /\ b \in Places /\ Mine(t)' \subseteq Places'
      /\ \A p : p \in Places \ {b} <=> p \in Places' \ Mine(t)'
  BY OtherPlaces
<1>2. ASSUME NEW p \in Places \ {b}
      PROVE  /\ p \in References(s) <=> p \in References(s)'
             /\ p \in References(s) => BlocksAt(p)' = BlocksAt(p)
  BY <1>1, ReferencesAre DEF KeptAs
<1>3. \A p : p \in References(s)' =>
        p \in References(s) \ {b} \/ (p \in Mine(t)' /\ Refers(p)' /\ (TaskAt(p)[2])' = s)
  BY <1>1, <1>2, ReferencesAre
<1>4. \A p : p \in References(s) \ {b} => p \in References(s)'
  BY <1>2, ReferencesAre
<1>5. \A q \in Mine(t)' : Refers(q)' /\ (TaskAt(q)[2])' = s => q \in References(s)'
  BY <1>1, ReferencesAre
<1>6. \A p \in References(s) \ {b} : p \in Places \ {b}
  BY ReferencesAre
<1>7. QED
  BY <1>1, <1>2, <1>3, <1>4, <1>5, <1>6

(* It keeps the references to the Sort objects that its task has nothing   *)
(* to do with.                                                             *)
LEMMA OtherSorts ==
  ASSUME NEW t \in Threads, Aside(t), workers' = workers,
         NEW b, Mine(t) = {b}, \A p \in Places \ {b} : KeptAs(p, p), NEW s,
         ~(Refers(b) /\ TaskAt(b)[2] = s),
         \A q \in Mine(t)' : ~(Refers(q)' /\ (TaskAt(q)[2])' = s)
  PROVE  References(s)' = References(s) /\ Unreserved(s)' = Unreserved(s)
<1>1. b \notin References(s)
  BY ReferencesAre
<1>2. References(s)' = References(s) /\ \A p \in References(s) : BlocksAt(p)' = BlocksAt(p)
  <2>1. /\ References(s)' = (References(s) \ {b})
                               \cup {q \in Mine(t)' : Refers(q)' /\ (TaskAt(q)[2])' = s}
        /\ \A p \in References(s) \ {b} : BlocksAt(p)' = BlocksAt(p)
    BY ReferencesThen
  <2>2. {q \in Mine(t)' : Refers(q)' /\ (TaskAt(q)[2])' = s} = {}
    OBVIOUS
  <2>3. References(s) \ {b} = References(s)
    BY <1>1
  <2>4. QED
    BY <2>1, <2>2, <2>3
<1>3. QED
  BY <1>2 DEF Unreserved, BlockOf

(* What is counted after such a step.                                      *)
LEMMA TasksThen ==
  ASSUME NEW t \in Threads, Aside(t), workers' = workers,
         NEW b, Mine(t) = {b}, \A p \in Places \ {b} : KeptAs(p, p)
  PROVE  /\ Singles' = (Singles \ {b}) \cup {q \in Mine(t)' : Kind(TaskAt(q))' # "partition"}
         /\ \A q \in Mine(t)' : q \notin Singles \ {b}
         /\ Objects' = {TaskAt(p)[2] : p \in Partitions \ {b}}
                         \cup {(TaskAt(q)[2])' : q \in {r \in Mine(t)' : Kind(TaskAt(r))' = "partition"}}
<1>1. /\ b \in Places /\ Mine(t)' \subseteq Places'
      /\ \A p : p \in Places \ {b} <=> p \in Places' \ Mine(t)'
  BY OtherPlaces
<1>2. \A p \in Places \ {b} : TaskAt(p)' = TaskAt(p)
  BY DEF KeptAs
<1>3. Singles' = (Singles \ {b}) \cup {q \in Mine(t)' : Kind(TaskAt(q))' # "partition"}
  BY <1>1, <1>2 DEF Singles, Partitions, Kind
<1>4. \A q \in Mine(t)' : q \notin Singles \ {b}
  BY <1>1 DEF Singles
<1>5. Partitions' = (Partitions \ {b}) \cup {r \in Mine(t)' : Kind(TaskAt(r))' = "partition"}
  BY <1>1, <1>2 DEF Partitions, Kind
<1>6. Objects' = {(TaskAt(p)[2])' : p \in Partitions'}
  BY DEF Objects
<1>7. \A p \in Partitions \ {b} : (TaskAt(p)[2])' = TaskAt(p)[2]
  BY <1>2 DEF Partitions
<1>8. QED
  BY <1>3, <1>4, <1>5, <1>6, <1>7

(* A thread that executes a task and has none to push has one place.       *)
LEMMA OwnPlace ==
  ASSUME SortingInv, NEW t \in Threads, pc[t] \in TaskLabels \ PushLabels
  PROVE  Mine(t) = {<<"thread", t, 1>>} /\ <<"thread", t, 1>> \in Places
BY OwnTask, MineAre DEF Labels, TaskLabels, PartitionLabels, ClaimLabels, Mine, Places

(* A step that touches no reference.                                       *)
LEMMA NoReferences ==
  ASSUME PlacesInv, NEW t \in Threads, Aside(t), workers' = workers, input' = input,
         counters' = counters, reference_count' = reference_count,
         NEW b, Mine(t) = {b}, \A p \in Places \ {b} : KeptAs(p, p),
         ~Refers(b), \A q \in Mine(t)' : ~Refers(q)'
  PROVE  ReferencesCounted' /\ ElementsCounted'
BY OtherSorts DEF Sorts, PlacesInv, ReferencesCounted, ElementsCounted, Ready

(* A reset that ends is counted down once; the last one has no task left   *)
(* beside it.                                                              *)
LEMMA CountResetKeeps ==
  ASSUME SortingInv, NEW t \in Threads, CountReset(t)
  PROVE  SortingInv'
<1>1. PICK b : b = <<"thread", t, 1>>
  OBVIOUS
<1>2. PICK l : l = IF pending_tasks = 1 THEN "createFirst" ELSE "claim"
  OBVIOUS
<1>3. /\ pc[t] = "countReset" /\ pending_tasks' = pending_tasks - 1 /\ Goto(t, l)
      /\ task' = [task EXCEPT ![t] = IF pending_tasks = 1 THEN task[t] ELSE NoTask]
      /\ workers' = workers /\ finished' = finished /\ other' = other /\ input' = input
      /\ A' = A /\ B' = B /\ subtasks' = subtasks /\ pivot' = pivot /\ values' = values
      /\ reference_count' = reference_count /\ counters' = counters
  BY <1>2 DEF SortingInv, TypeOK, CountReset, Return, arrays, objects, local
<1>4. pc[t] \in TaskLabels \ PushLabels /\ pc[t] \in Labels \ ClaimLabels /\ ~Copying(t)
  BY <1>3 DEF Labels, TaskLabels, PartitionLabels, PushLabels, ClaimLabels, Copying
<1>5. /\ task[t] \in Tasks /\ task[t] # NoTask /\ Kind(task[t]) = "reset"
      /\ subtasks[t] = <<>> /\ values[t] = NoValues /\ pending_tasks # 0
  BY <1>3, <1>4, OwnTask DEF KindsAt
<1>6. /\ pc' \in [Threads -> Labels] /\ pc'[t] = l /\ l \in Labels
      /\ \A u \in Threads \ {t} : pc'[u] = pc[u]
  BY <1>2, <1>3, Goes DEF Labels, ClaimLabels, SortingInv
<1>7. /\ task'[t] = (IF pending_tasks = 1 THEN task[t] ELSE NoTask)
      /\ \A u \in Threads \ {t} : task'[u] = task[u]
      /\ task' \in [Threads -> Tasks \cup {NoTask}]
  BY <1>3 DEF SortingInv, TypeOK
<1>8. Aside(t)
  BY <1>3, <1>6, <1>7 DEF Aside
<1>9. TypeOK'
  BY <1>3, <1>5, <1>6, <1>7, SameTypes DEF SortingInv, TypeOK, Labels
<1>10. Mine(t) = {b} /\ b \in Places
  BY <1>1, <1>4, OwnPlace
<1>11. \A p \in Places \ {b} : KeptAs(p, p)
  BY <1>3, <1>8, <1>10, OtherPlaces, KeptHere
<1>12. Mine(t)' = {}
  BY <1>2, <1>3, <1>5, <1>6, MineAre DEF TaskLabels, PartitionLabels
<1>13. TaskAt(b) = task[t] /\ Kind(TaskAt(b)) = "reset" /\ ~Refers(b)
  BY <1>1, <1>5, TasksAt DEF Refers
<1>14. PendingCountsTasks'
  <2>1. Singles' = Singles \ {b}
    BY <1>3, <1>8, <1>10, <1>11, <1>12, TasksThen
  <2>2. Objects' = Objects
    <3>1. Objects' = {TaskAt(p)[2] : p \in Partitions \ {b}}
      BY <1>3, <1>8, <1>10, <1>11, <1>12, TasksThen
    <3>2. Partitions \ {b} = Partitions
      BY <1>13 DEF Partitions
    <3>3. QED
      BY <3>1, <3>2 DEF Objects
  <2>3. b \in Singles
    BY <1>10, <1>13 DEF Singles, Partitions
  <2>4. /\ IsFiniteSet(Singles) /\ IsFiniteSet(Objects)
        /\ pending_tasks = Cardinality(Singles) + Cardinality(Objects)
    BY DEF SortingInv, PlacesInv, PendingCountsTasks
  <2>5. /\ IsFiniteSet(Singles') /\ Cardinality(Singles') = Cardinality(Singles) - 1
        /\ Cardinality(Singles) \in Int /\ Cardinality(Objects) \in Int
    BY <2>1, <2>3, <2>4, FS_RemoveElement, FS_CardinalityType
  <2>6. QED
    BY <1>3, <2>2, <2>4, <2>5 DEF PendingCountsTasks
<1>15. PlacesInv'
  <2>1. ReferencesCounted' /\ ElementsCounted'
    BY <1>3, <1>8, <1>10, <1>11, <1>12, <1>13, NoReferences DEF SortingInv
  <2>2. RegionsApart' /\ BlocksApart'
    BY <1>3, <1>8, <1>10, <1>11, <1>12, <1>13, Apart DEF SameSort, SortingInv
  <2>3. \A p \in Places' : Kind(TaskAt(p))' = "reset"
    BY <1>3, <1>8, <1>10, <1>12, <1>13, OtherPlaces DEF SortingInv, PlacesInv, ResetLeft, Kind
  <2>4. QED
    BY <1>14, <2>1, <2>2, <2>3 DEF PlacesInv
<1>16. ThreadInv(t)' /\ ~Copying(t)'
  BY <1>2, <1>3, <1>5, <1>6, <1>7 DEF Copying, PushLabels, Complete, ClaimLabels, KindsAt,
     ThreadInv, NoValues, Kind
<1>17. (\A u \in Threads : ThreadInv(u)') /\ CopiesApart'
  BY <1>3, <1>8, <1>16, ThreadsStay DEF SortingInv
<1>18. EndingInv'
  BY <1>2, <1>3, <1>5, <1>6, EndsWith DEF Ending, SortingInv
<1>19. QED
  BY <1>9, <1>15, <1>17, <1>18 DEF SortingInv

-----------------------------------------------------------------------------
(* The counters of a Sort object.                                          *)
LEMMA CountersAre ==
  ASSUME TypeOK, NEW s \in Sorts
  PROVE  /\ counters[s] \in Nat /\ HALF \in Nat \ {0}
         /\ LeftCount(counters[s]) \in 0 .. HALF - 1 /\ RightCount(counters[s]) \in Nat
         /\ Ready(s) \in Nat
<1>1. counters[s] \in Nat /\ HALF \in Nat \ {0}
  BY InputType DEF TypeOK
<1>2. counters[s] % HALF \in 0 .. HALF - 1 /\ counters[s] \div HALF \in Nat
  BY <1>1
<1>3. QED
  BY <1>1, <1>2 DEF LeftCount, RightCount, Ready

(* What is left to reserve is finite.                                      *)
LEMMA UnreservedAre ==
  ASSUME TypeOK, NEW s \in Sorts
  PROVE  IsFiniteSet(Unreserved(s)) /\ Cardinality(Unreserved(s)) \in Nat
<1>1. s[1] \in Int /\ s[2] \in Int
  BY InputType DEF Sorts
<1>2. IsFiniteSet(s[1] + 1 .. s[2] - 1)
  BY <1>1, FS_Interval
<1>3. Unreserved(s) \in SUBSET (s[1] + 1 .. s[2] - 1)
  BY DEF Unreserved
<1>4. QED
  BY <1>2, <1>3, FS_Subset, FS_CardinalityType

(* A task waits, or a thread executes it at a stage of its kind.           *)
LEMMA StagesAre ==
  ASSUME SortingInv, NEW p \in Places
  PROVE  \/ Stage(p) = "run"
         \/ \E t \in Threads : p = <<"thread", t, 1>> /\ Stage(p) = pc[t] /\ pc[t] \in TaskLabels
                               /\ TaskAt(p) = task[t] /\ Kind(task[t]) \in KindsAt(pc[t])
<1>1. PICK t \in Threads : \/ \E i \in DOMAIN workers[t] : p = <<"deque", t, i>>
                           \/ \E i \in DOMAIN subtasks[t] : p = <<"push", t, i>>
                           \/ pc[t] \in TaskLabels /\ p = <<"thread", t, 1>>
  BY PlacesAre DEF IsPlace
<1>2. CASE pc[t] \in TaskLabels /\ p = <<"thread", t, 1>>
  BY <1>2, OwnTask, TasksAt DEF Labels, TaskLabels, PartitionLabels, ClaimLabels
<1>3. QED
  BY <1>1, <1>2, TasksAt

(* The place of the pivot is always in the region of a partition task.     *)
LEMMA MiddleIn ==
  ASSUME SortingInv, NEW p \in Partitions
  PROVE  /\ Position(TaskAt(p)) \in 0 .. Length(TaskAt(p)) - 1
         /\ Middle(TaskAt(p)) \in Region(p)
         /\ Region(p) \subseteq From(TaskAt(p)) .. To(TaskAt(p)) - 1
         /\ Ready(TaskAt(p)[2]) <= Length(TaskAt(p)) - 1
<1>1. PICK d, s : d = TaskAt(p) /\ s = d[2]
  OBVIOUS
<1>2. TypeOK /\ p \in Places /\ Kind(d) = "partition" /\ d \in Tasks
  BY <1>1, TaskAtType DEF Partitions, SortingInv
<1>3. /\ s \in Sorts /\ From(d) \in Nat /\ To(d) \in Nat /\ From(d) < To(d) /\ Length(d) = To(d) - From(d)
      /\ s[1] = From(d) /\ s[2] = To(d)
  BY <1>1, <1>2, TasksAre, InputType DEF Length, From, To
<1>4. LeftCount(counters[s]) \in Nat /\ RightCount(counters[s]) \in Nat
  BY <1>2, <1>3, CountersAre
<1>5. Ready(s) <= Length(d) - 1
  <2>1. CASE Stage(p) \in PartitionLabels
    BY <1>1, <1>2, <1>3, <2>1, ReferencesAre, UnreservedAre, CountersAre DEF Refers, SortingInv,
       PlacesInv, ElementsCounted
  <2>2. CASE Stage(p) \notin PartitionLabels
    <3>1. PICK t \in Threads : /\ Stage(p) = pc[t] /\ pc[t] \in TaskLabels
                               /\ d = task[t] /\ Kind(task[t]) \in KindsAt(pc[t])
      BY <1>1, <1>2, <2>2, StagesAre DEF PartitionLabels
    <3>2. pc[t] \in Complete
      BY <1>2, <2>2, <3>1 DEF TaskLabels, Complete, KindsAt
    <3>3. Ready(s) + 1 = Length(d)
      BY <1>1, <1>2, <3>1, <3>2 DEF SortingInv, ThreadInv
    <3>4. Ready(s) \in Nat
      BY <1>2, <1>3, CountersAre
    <3>5. QED
      BY <1>3, <3>3, <3>4
  <2>3. QED
    BY <2>1, <2>2
<1>6. Position(d) \in 0 .. Length(d) - 1
  BY <1>1, <1>3, <1>4, <1>5 DEF Position, Ready
<1>7. Middle(d) \in From(d) .. To(d) - 1 /\ Middle(d) \in Middle(d) .. To(d) - 1
  BY <1>3, <1>6 DEF Middle
<1>8. \/ Stage(p) \in PartitionLabels \cup {"storePivot", "left"}
      \/ Stage(p) \in {"pushLeft", "right"}
      \/ Stage(p) \in {"pushRight", "release"}
  <2>1. CASE Stage(p) = "run"
    BY <2>1 DEF PartitionLabels
  <2>2. CASE Stage(p) # "run"
    BY <1>1, <1>2, <2>2, StagesAre DEF TaskLabels, KindsAt
  <2>3. QED
    BY <2>1, <2>2
<1>9. Middle(d) \in RegionOf(d, Stage(p)) /\ RegionOf(d, Stage(p)) \subseteq From(d) .. To(d) - 1
  <2>1. CASE Stage(p) \in PartitionLabels \cup {"storePivot", "left"}
    BY <1>2, <1>7, <2>1 DEF RegionOf
  <2>2. CASE Stage(p) \in {"pushLeft", "right"}
    BY <1>2, <1>3, <1>7, <2>2 DEF RegionOf, PartitionLabels
  <2>3. CASE Stage(p) \in {"pushRight", "release"}
    BY <1>2, <1>7, <2>3 DEF RegionOf, PartitionLabels
  <2>4. QED
    BY <1>8, <2>1, <2>2, <2>3
<1>10. QED
  BY <1>1, <1>5, <1>6, <1>9 DEF Region

(* A task that is no reference to its Sort object is the only one with it. *)
LEMMA OnlyOne ==
  ASSUME SortingInv, NEW b \in Partitions, ~Refers(b), NEW p \in Partitions, p # b
  PROVE  TaskAt(p)[2] # TaskAt(b)[2]
<1>1. SUFFICES ASSUME TaskAt(p)[2] = TaskAt(b)[2] PROVE FALSE
  OBVIOUS
<1>2. Middle(TaskAt(p)) = Middle(TaskAt(b))
  BY <1>1 DEF Middle, Position, From
<1>3. Middle(TaskAt(p)) \in Region(p) /\ Middle(TaskAt(b)) \in Region(b)
  BY MiddleIn
<1>4. ~SameSort(p, b) /\ p \in Places /\ b \in Places
  BY DEF SameSort, Partitions
<1>5. Region(p) \cap Region(b) = {}
  BY <1>4 DEF SortingInv, PlacesInv, RegionsApart
<1>6. QED
  BY <1>2, <1>3, <1>5

(* A task that ends is counted down once, and it is the only one on its    *)
(* part of the array.                                                      *)
LEMMA ReleaseKeeps ==
  ASSUME SortingInv, NEW t \in Threads, Release(t)
  PROVE  SortingInv'
<1>1. PICK b : b = <<"thread", t, 1>>
  OBVIOUS
<1>2. PICK l : l = IF pending_tasks = 1 THEN "finish" ELSE "claim"
  OBVIOUS
<1>3. /\ pc[t] = "release" /\ pending_tasks' = pending_tasks - 1 /\ Goto(t, l)
      /\ task' = [task EXCEPT ![t] = IF pending_tasks = 1 THEN task[t] ELSE NoTask]
      /\ workers' = workers /\ finished' = finished /\ other' = other /\ input' = input
      /\ A' = A /\ B' = B /\ subtasks' = subtasks /\ pivot' = pivot /\ values' = values
      /\ reference_count' = reference_count /\ counters' = counters
  BY <1>2 DEF SortingInv, TypeOK, Release, Return, arrays, objects, local
<1>4. pc[t] \in TaskLabels \ PushLabels /\ pc[t] \in Labels \ ClaimLabels /\ ~Copying(t)
  BY <1>3 DEF Labels, TaskLabels, PartitionLabels, PushLabels, ClaimLabels, Copying
<1>5. /\ task[t] \in Tasks /\ task[t] # NoTask /\ Kind(task[t]) \in {"sequential", "partition"}
      /\ subtasks[t] = <<>> /\ values[t] = NoValues /\ pending_tasks # 0
  BY <1>3, <1>4, OwnTask DEF KindsAt
<1>6. /\ pc' \in [Threads -> Labels] /\ pc'[t] = l /\ l \in Labels
      /\ \A u \in Threads \ {t} : pc'[u] = pc[u]
  BY <1>2, <1>3, Goes DEF Labels, ClaimLabels, SortingInv
<1>7. /\ task'[t] = (IF pending_tasks = 1 THEN task[t] ELSE NoTask)
      /\ \A u \in Threads \ {t} : task'[u] = task[u]
      /\ task' \in [Threads -> Tasks \cup {NoTask}]
  BY <1>3 DEF SortingInv, TypeOK
<1>8. Aside(t)
  BY <1>3, <1>6, <1>7 DEF Aside
<1>9. TypeOK'
  BY <1>3, <1>5, <1>6, <1>7, SameTypes DEF SortingInv, TypeOK, Labels
<1>10. Mine(t) = {b} /\ b \in Places
  BY <1>1, <1>4, OwnPlace
<1>11. \A p \in Places \ {b} : KeptAs(p, p)
  BY <1>3, <1>8, <1>10, OtherPlaces, KeptHere
<1>12. Mine(t)' = {}
  BY <1>2, <1>3, <1>5, <1>6, MineAre DEF TaskLabels, PartitionLabels
<1>13. /\ TaskAt(b) = task[t] /\ Kind(TaskAt(b)) \in {"sequential", "partition"}
       /\ Stage(b) = "release" /\ ~Refers(b)
  BY <1>1, <1>3, <1>5, TasksAt DEF Refers, PartitionLabels
<1>14. PendingCountsTasks'
  <2>1. Singles' = Singles \ {b}
    BY <1>3, <1>8, <1>10, <1>11, <1>12, TasksThen
  <2>2. Objects' = {TaskAt(p)[2] : p \in Partitions \ {b}}
    BY <1>3, <1>8, <1>10, <1>11, <1>12, TasksThen
  <2>3. /\ IsFiniteSet(Singles) /\ IsFiniteSet(Objects)
        /\ pending_tasks = Cardinality(Singles) + Cardinality(Objects)
        /\ Cardinality(Singles) \in Nat /\ Cardinality(Objects) \in Nat
    BY FS_CardinalityType DEF SortingInv, PlacesInv, PendingCountsTasks
  <2>4. CASE Kind(TaskAt(b)) = "sequential"
    <3>1. Objects' = Objects
      BY <2>2, <2>4 DEF Partitions, Objects
    <3>2. b \in Singles
      BY <1>10, <2>4 DEF Singles, Partitions
    <3>3. IsFiniteSet(Singles') /\ Cardinality(Singles') = Cardinality(Singles) - 1
      BY <2>1, <2>3, <3>2, FS_RemoveElement
    <3>4. QED
      BY <1>3, <2>3, <3>1, <3>3 DEF PendingCountsTasks
  <2>5. CASE Kind(TaskAt(b)) = "partition"
    <3>1. Singles' = Singles
      BY <2>1, <2>5 DEF Singles, Partitions
    <3>2. b \in Partitions
      BY <1>10, <2>5 DEF Partitions
    <3>3. Objects' = Objects \ {TaskAt(b)[2]}
      BY <1>13, <2>2, <3>2, OnlyOne DEF Objects
    <3>4. TaskAt(b)[2] \in Objects
      BY <3>2 DEF Objects
    <3>5. IsFiniteSet(Objects') /\ Cardinality(Objects') = Cardinality(Objects) - 1
      BY <2>3, <3>3, <3>4, FS_RemoveElement
    <3>6. QED
      BY <1>3, <2>3, <3>1, <3>5 DEF PendingCountsTasks
  <2>6. QED
    BY <1>13, <2>4, <2>5
<1>15. PlacesInv'
  <2>1. ReferencesCounted' /\ ElementsCounted'
    BY <1>3, <1>8, <1>10, <1>11, <1>12, <1>13, NoReferences DEF SortingInv
  <2>2. RegionsApart' /\ BlocksApart'
    BY <1>3, <1>8, <1>10, <1>11, <1>12, <1>13, Apart DEF SameSort, SortingInv
  <2>3. ~ResetLeft'
    <3>1. SUFFICES ASSUME NEW p \in Places', Kind(TaskAt(p))' = "reset" PROVE FALSE
      BY DEF ResetLeft
    <3>2. p \in Places /\ TaskAt(p)' = TaskAt(p)
      BY <1>3, <1>8, <1>10, <1>12, OtherPlaces
    <3>3. Kind(TaskAt(p)) = "reset"
      BY <3>1, <3>2 DEF Kind
    <3>4. Kind(TaskAt(b)) = "reset"
      BY <1>10, <3>2, <3>3 DEF SortingInv, PlacesInv, ResetLeft
    <3>5. QED
      BY <1>13, <3>4
  <2>4. QED
    BY <1>14, <2>1, <2>2, <2>3 DEF PlacesInv
<1>16. ThreadInv(t)' /\ ~Copying(t)'
  BY <1>2, <1>3, <1>5, <1>6, <1>7 DEF Copying, PushLabels, Complete, ClaimLabels, KindsAt,
     ThreadInv, NoValues, Kind
<1>17. (\A u \in Threads : ThreadInv(u)') /\ CopiesApart'
  BY <1>3, <1>8, <1>16, ThreadsStay DEF SortingInv
<1>18. EndingInv'
  BY <1>2, <1>3, <1>5, <1>6, EndsWith DEF Ending, SortingInv
<1>19. QED
  BY <1>9, <1>15, <1>17, <1>18 DEF SortingInv

-----------------------------------------------------------------------------
(* The tasks that are made.                                                *)
LEMMA PushPlaces ==
  ASSUME NEW t, NEW n \in Nat
  PROVE  /\ IsFiniteSet({<<"push", t, i>> : i \in 1 .. n})
         /\ Cardinality({<<"push", t, i>> : i \in 1 .. n}) = n
<1> DEFINE T == {<<"push", t, i>> : i \in 1 .. n}
<1>1. PICK g : g = [i \in 1 .. n |-> <<"push", t, i>>]
  OBVIOUS
<1>2. IsFiniteSet(1 .. n) /\ Cardinality(1 .. n) = n
  BY UpTo
<1>3. /\ \A i \in 1 .. n : g[i] \in T
      /\ \A i, j \in 1 .. n : g[i] = g[j] => i = j
      /\ \A y \in T : \E i \in 1 .. n : g[i] = y
  BY <1>1
<1>4. QED
  <2> HIDE DEF T
  <2>1. IsFiniteSet(T) /\ Cardinality(T) = Cardinality(1 .. n)
    BY <1>2, <1>3, SameCount
  <2>2. QED
    BY <1>2, <2>1 DEF T

(* A segment with elements is one of the Sorts.                            *)
LEMMA SortIs ==
  ASSUME TypeOK, NEW from \in 0 .. Len(input), NEW to \in 0 .. Len(input), NEW flipped \in BOOLEAN,
         from < to
  PROVE  <<from, to, flipped>> \in Sorts
BY DEF Sorts

(* The tasks of one thread on a segment.                                   *)
LEMMA SingleTask ==
  ASSUME TypeOK, NEW s \in Sorts
  PROVE  /\ <<"sequential", s>> \in Tasks
         /\ s[2] - s[1] >= SEQUENTIAL_CUTOFF => <<"recursion", s>> \in Tasks
<1>1. <<"sequential", s>> \in Tasks
  BY DEF Tasks
<1>2. ASSUME s[2] - s[1] >= SEQUENTIAL_CUTOFF PROVE <<"recursion", s>> \in Tasks
  BY <1>2 DEF Tasks
<1>3. QED
  BY <1>1, <1>2

(* A part of two elements or more is one task.                             *)
LEMMA PartTaskIs ==
  ASSUME TypeOK, NEW from \in 0 .. Len(input), NEW to \in 0 .. Len(input)
  PROVE  /\ PartTask(from, to) \in Seq(Tasks)
         /\ Len(PartTask(from, to)) = IF to - from < 2 THEN 0 ELSE 1
         /\ \A i \in 1 .. Len(PartTask(from, to)) :
              LET d == PartTask(from, to)[i]
              IN  Kind(d) \in {"sequential", "recursion"} /\ From(d) = from /\ To(d) = to
<1>1. from \in Int /\ to \in Int
  BY InputType
<1>2. CASE to - from < 2
  BY <1>2 DEF PartTask
<1>3. CASE ~(to - from < 2)
  <2>1. PICK k, s : /\ k = IF to - from < SEQUENTIAL_CUTOFF THEN "sequential" ELSE "recursion"
                    /\ s = <<from, to, TRUE>>
    OBVIOUS
  <2>2. s \in Sorts /\ s[1] = from /\ s[2] = to
    <3>1. from < to
      BY <1>1, <1>3
    <3>2. <<from, to, TRUE>> \in Sorts
      BY <3>1, SortIs
    <3>3. QED
      BY <2>1, <3>2
  <2>3. <<k, s>> \in Tasks /\ k \in {"sequential", "recursion"}
    <3>1. SEQUENTIAL_CUTOFF \in Nat
      BY QuicksortDequeAssumption
    <3>2. CASE to - from < SEQUENTIAL_CUTOFF
      BY <2>1, <2>2, <3>2, SingleTask
    <3>3. CASE ~(to - from < SEQUENTIAL_CUTOFF)
      <4>1. to - from >= SEQUENTIAL_CUTOFF
        BY <1>1, <3>1, <3>3
      <4>2. QED
        BY <2>1, <2>2, <3>3, <4>1, SingleTask
    <3>4. QED
      BY <3>2, <3>3
  <2>4. PartTask(from, to) = << <<k, s>> >>
    BY <1>3, <2>1 DEF PartTask
  <2>5. << <<k, s>> >> \in Seq(Tasks) /\ Len(<< <<k, s>> >>) = 1 /\ << <<k, s>> >>[1] = <<k, s>>
    BY <2>3
  <2>6. \A i \in 1 .. 1 : i = 1
    OBVIOUS
  <2>7. Kind(<<k, s>>) = k /\ From(<<k, s>>) = from /\ To(<<k, s>>) = to
    BY <2>2 DEF Kind, From, To
  <2>8. QED
    BY <1>3, <2>3, <2>4, <2>5, <2>6, <2>7
<1>4. QED
  BY <1>2, <1>3

(* The tasks `new` are on parts of d's segment that do not overlap.        *)
OnPartsOf(d, new) ==
  /\ \A i \in 1 .. Len(new) : /\ Kind(new[i]) \in {"sequential", "recursion"}
                              /\ From(new[i]) .. To(new[i]) - 1 \subseteq From(d) .. To(d) - 1
  /\ \A i, j \in 1 .. Len(new) : i # j =>
       (From(new[i]) .. To(new[i]) - 1) \cap (From(new[j]) .. To(new[j]) - 1) = {}

(* The tasks of both parts are as many as count_recursive_calls says, and  *)
(* on the two sides of the pivot.                                          *)
LEMMA PartsAre ==
  ASSUME TypeOK, NEW d \in Tasks, Kind(d) = "recursion", NEW v \in 0 .. Length(d) - 1,
         NEW new, new = PartTask(From(d), From(d) + v) \o PartTask(From(d) + v + 1, To(d))
  PROVE  /\ new \in Seq(Tasks) /\ Len(new) = CountRecursiveCalls(Length(d), v) /\ Len(new) >= 1
         /\ OnPartsOf(d, new)
<1>1. PICK a, c, m : a = From(d) /\ c = To(d) /\ m = a + v
  OBVIOUS
<1>2. /\ a \in 0 .. Len(input) /\ c \in 0 .. Len(input) /\ a \in Nat /\ c \in Nat /\ Len(input) \in Nat
      /\ c - a >= 4 /\ Length(d) = c - a /\ v \in Nat
      /\ m \in 0 .. Len(input) /\ m + 1 \in 0 .. Len(input) /\ a <= m /\ m + 1 <= c
  <2>1. /\ a \in 0 .. Len(input) /\ c \in 0 .. Len(input) /\ Len(input) \in Nat
        /\ c - a >= 4 /\ Length(d) = c - a
    BY <1>1, TasksAre, InputType DEF Length
  <2>2. QED
    BY <1>1, <2>1
<1>3. PICK l, r : l = PartTask(a, m) /\ r = PartTask(m + 1, c)
  OBVIOUS
<1>4. /\ l \in Seq(Tasks) /\ Len(l) = IF m - a < 2 THEN 0 ELSE 1
      /\ \A i \in 1 .. Len(l) : /\ Kind(l[i]) \in {"sequential", "recursion"}
                                /\ From(l[i]) = a /\ To(l[i]) = m
  BY <1>2, <1>3, PartTaskIs
<1>5. /\ r \in Seq(Tasks) /\ Len(r) = IF c - (m + 1) < 2 THEN 0 ELSE 1
      /\ \A i \in 1 .. Len(r) : /\ Kind(r[i]) \in {"sequential", "recursion"}
                                /\ From(r[i]) = m + 1 /\ To(r[i]) = c
  BY <1>2, <1>3, PartTaskIs
<1>6. new = l \o r
  BY <1>1, <1>3
<1>7. /\ new \in Seq(Tasks) /\ Len(new) = Len(l) + Len(r)
      /\ \A i \in 1 .. Len(new) : new[i] = IF i <= Len(l) THEN l[i] ELSE r[i - Len(l)]
  <2>1. l \in Seq(Tasks) /\ r \in Seq(Tasks)
    BY <1>4, <1>5
  <2>2. /\ l \o r \in Seq(Tasks) /\ Len(l \o r) = Len(l) + Len(r)
        /\ \A i \in 1 .. Len(l) + Len(r) : (l \o r)[i] = IF i <= Len(l) THEN l[i] ELSE r[i - Len(l)]
    BY <2>1, ConcatProperties
  <2>3. QED
    BY <1>6, <2>2
<1>8. Len(l) + Len(r) = CountRecursiveCalls(Length(d), v) /\ Len(l) + Len(r) >= 1
  <2>1. m - a = v /\ c - (m + 1) = Length(d) - v - 1
    BY <1>1, <1>2
  <2>2. Len(l) = (IF v > 1 THEN 1 ELSE 0) /\ Len(r) = (IF Length(d) - v > 2 THEN 1 ELSE 0)
    BY <1>2, <1>4, <1>5, <2>1
  <2>3. v > 1 \/ Length(d) - v > 2
    BY <1>2
  <2>4. QED
    BY <2>2, <2>3 DEF CountRecursiveCalls
<1>9. ASSUME NEW i \in 1 .. Len(new)
      PROVE  \/ i <= Len(l) /\ new[i] = l[i] /\ i \in 1 .. Len(l)
             \/ ~(i <= Len(l)) /\ new[i] = r[i - Len(l)] /\ i - Len(l) \in 1 .. Len(r)
  BY <1>4, <1>5, <1>7
<1>10. ASSUME NEW i \in 1 .. Len(new)
       PROVE  /\ Kind(new[i]) \in {"sequential", "recursion"}
              /\ \/ i <= Len(l) /\ From(new[i]) = a /\ To(new[i]) = m
                 \/ ~(i <= Len(l)) /\ From(new[i]) = m + 1 /\ To(new[i]) = c
  BY <1>4, <1>5, <1>9
<1>11. ASSUME NEW i \in 1 .. Len(new)
       PROVE  From(new[i]) .. To(new[i]) - 1 \subseteq a .. c - 1
  BY <1>2, <1>10
<1>12. ASSUME NEW i \in 1 .. Len(new), NEW j \in 1 .. Len(new), i # j
       PROVE  (From(new[i]) .. To(new[i]) - 1) \cap (From(new[j]) .. To(new[j]) - 1) = {}
  <2>1. Len(l) \in 0 .. 1 /\ Len(r) \in 0 .. 1
    BY <1>4, <1>5
  <2>2. (i <= Len(l) /\ ~(j <= Len(l))) \/ (j <= Len(l) /\ ~(i <= Len(l)))
    <3>1. PICK x, y, z : x = Len(l) /\ y = Len(r) /\ z = Len(new)
      OBVIOUS
    <3>2. z = x + y /\ x \in {0, 1} /\ y \in {0, 1}
      BY <1>7, <2>1, <3>1
    <3>3. i \in 1 .. z /\ j \in 1 .. z
      BY <3>1
    <3>4. i \in 1 .. 2 /\ j \in 1 .. 2 /\ x = 1
      BY <1>12, <3>2, <3>3
    <3>5. QED
      BY <1>12, <3>1, <3>4
  <2>3. \A x \in Int : x <= m - 1 => ~(x >= m + 1)
    BY <1>2
  <2>4. (a .. m - 1) \cap (m + 1 .. c - 1) = {}
    BY <1>2, <2>3
  <2>5. QED
    BY <1>10, <2>2, <2>4
<1>13. QED
  BY <1>1, <1>7, <1>8, <1>10, <1>11, <1>12 DEF OnPartsOf

(* The tasks of both parts are counted and take the place of the one that  *)
(* made them.                                                              *)
LEMMA AdjustPendingKeeps ==
  ASSUME SortingInv, NEW t \in Threads, AdjustPending(t)
  PROVE  SortingInv'
<1>1. PICK b, d : b = <<"thread", t, 1>> /\ d = task[t]
  OBVIOUS
<1>2. PICK new : new = PartTask(From(d), From(d) + pivot[t]) \o PartTask(From(d) + pivot[t] + 1, To(d))
  OBVIOUS
<1>3. /\ pc[t] = "adjust" /\ Goto(t, "pushParts")
      /\ pending_tasks' = pending_tasks + CountRecursiveCalls(Length(d), pivot[t]) - 1
      /\ subtasks' = [subtasks EXCEPT ![t] = new]
      /\ workers' = workers /\ finished' = finished /\ other' = other /\ input' = input
      /\ task' = task /\ A' = A /\ B' = B /\ pivot' = pivot /\ values' = values
      /\ reference_count' = reference_count /\ counters' = counters
  BY <1>1, <1>2 DEF AdjustPending, arrays, objects, local
<1>4. pc[t] \in TaskLabels \ PushLabels /\ pc[t] \in Labels \ ClaimLabels /\ ~Copying(t)
  BY <1>3 DEF Labels, TaskLabels, PartitionLabels, PushLabels, ClaimLabels, Copying
<1>5. /\ d \in Tasks /\ d # NoTask /\ Kind(d) = "recursion"
      /\ subtasks[t] = <<>> /\ values[t] = NoValues /\ pending_tasks # 0
  BY <1>1, <1>3, <1>4, OwnTask DEF KindsAt
<1>6. /\ pc' \in [Threads -> Labels] /\ pc'[t] = "pushParts" /\ "pushParts" \in Labels
      /\ \A u \in Threads \ {t} : pc'[u] = pc[u]
  BY <1>3, Goes DEF Labels, SortingInv
<1>7. PICK n : n = Len(new)
  OBVIOUS
<1>8. /\ new \in Seq(Tasks) /\ n = CountRecursiveCalls(Length(d), pivot[t]) /\ n \in Nat \ {0}
      /\ DOMAIN new = 1 .. n
      /\ \A i \in 1 .. n : /\ Kind(new[i]) \in {"sequential", "recursion"}
                           /\ From(new[i]) .. To(new[i]) - 1 \subseteq From(d) .. To(d) - 1
      /\ \A i, j \in 1 .. n : i # j =>
           (From(new[i]) .. To(new[i]) - 1) \cap (From(new[j]) .. To(new[j]) - 1) = {}
  <2>1. pivot[t] \in 0 .. Length(d) - 1 /\ TypeOK
    BY <1>1, <1>3 DEF SortingInv, ThreadInv
  <2>2. PICK v : v = pivot[t]
    OBVIOUS
  <2>3. /\ TypeOK /\ d \in Tasks /\ Kind(d) = "recursion" /\ v \in 0 .. Length(d) - 1
        /\ new = PartTask(From(d), From(d) + v) \o PartTask(From(d) + v + 1, To(d))
    BY <1>2, <1>5, <2>1, <2>2
  <2>4. /\ new \in Seq(Tasks) /\ Len(new) = CountRecursiveCalls(Length(d), v) /\ Len(new) >= 1
        /\ OnPartsOf(d, new)
    BY <2>3, PartsAre
  <2>5. Len(new) \in Nat \ {0} /\ DOMAIN new = 1 .. Len(new)
    BY <2>4
  <2>6. QED
    BY <1>7, <2>2, <2>4, <2>5 DEF OnPartsOf
<1>9. /\ subtasks'[t] = new /\ \A u \in Threads \ {t} : subtasks'[u] = subtasks[u]
      /\ subtasks' \in [Threads -> Seq(Tasks)]
  BY <1>3, <1>8 DEF SortingInv, TypeOK
<1>10. Aside(t)
  BY <1>3, <1>6, <1>9 DEF Aside
<1>11. TypeOK'
  BY <1>3, <1>5, <1>6, <1>8, <1>9, SameTypes DEF SortingInv, TypeOK, Labels
<1>12. Mine(t) = {b} /\ b \in Places
  BY <1>1, <1>4, OwnPlace
<1>13. \A p \in Places \ {b} : KeptAs(p, p)
  BY <1>3, <1>10, <1>12, OtherPlaces, KeptHere
<1>14. Mine(t)' = {<<"push", t, i>> : i \in 1 .. n}
  <2>1. "pushParts" \notin TaskLabels
    BY DEF TaskLabels, PartitionLabels
  <2>2. \A p : p \in Mine(t)' <=> \E i \in 1 .. n : p = <<"push", t, i>>
    BY <1>6, <1>8, <1>9, <2>1, MineAre
  <2>3. QED
    BY <2>2
<1>15. ASSUME NEW q \in Mine(t)'
       PROVE  /\ Kind(TaskAt(q))' \in {"sequential", "recursion"} /\ ~Refers(q)'
              /\ \E i \in 1 .. n : /\ q = <<"push", t, i>>
                                   /\ Region(q)' = From(new[i]) .. To(new[i]) - 1
  <2>1. PICK i \in 1 .. n : q = <<"push", t, i>>
    BY <1>14
  <2>2. TaskAt(q)' = new[i] /\ Stage(q)' = "run"
    BY <1>9, <2>1, TasksAtThen
  <2>3. Kind(new[i]) \in {"sequential", "recursion"}
    BY <1>8
  <2>4. Kind(TaskAt(q))' = Kind(new[i])
    BY <2>2 DEF Kind
  <2>5. Region(q)' = From(new[i]) .. To(new[i]) - 1
    BY <2>2, <2>3 DEF Region, RegionOf, PartitionLabels, Kind, From, To
  <2>6. QED
    BY <2>1, <2>3, <2>4, <2>5 DEF Refers
<1>16. /\ TaskAt(b) = d /\ ~Refers(b) /\ Region(b) = From(d) .. To(d) - 1
  BY <1>1, <1>3, <1>5, TasksAt DEF Refers, Region, RegionOf
<1>17. PendingCountsTasks'
  <2>1. Singles' = (Singles \ {b}) \cup Mine(t)' /\ (Singles \ {b}) \cap Mine(t)' = {}
    <3>1. /\ Singles' = (Singles \ {b}) \cup {q \in Mine(t)' : Kind(TaskAt(q))' # "partition"}
          /\ \A q \in Mine(t)' : q \notin Singles \ {b}
      BY <1>3, <1>10, <1>12, <1>13, TasksThen
    <3>2. {q \in Mine(t)' : Kind(TaskAt(q))' # "partition"} = Mine(t)'
      BY <1>15
    <3>3. QED
      BY <3>1, <3>2
  <2>2. Objects' = Objects
    <3>1. Objects' = {TaskAt(p)[2] : p \in Partitions \ {b}}
                       \cup {(TaskAt(q)[2])' : q \in {r \in Mine(t)' : Kind(TaskAt(r))' = "partition"}}
      BY <1>3, <1>10, <1>12, <1>13, TasksThen
    <3>2. Partitions \ {b} = Partitions
      BY <1>5, <1>16 DEF Partitions
    <3>3. {r \in Mine(t)' : Kind(TaskAt(r))' = "partition"} = {}
      BY <1>15
    <3>4. QED
      BY <3>1, <3>2, <3>3 DEF Objects
  <2>3. /\ IsFiniteSet(Singles) /\ IsFiniteSet(Objects) /\ b \in Singles
        /\ pending_tasks = Cardinality(Singles) + Cardinality(Objects)
        /\ Cardinality(Singles) \in Nat /\ Cardinality(Objects) \in Nat
    BY <1>5, <1>12, <1>16, FS_CardinalityType
       DEF SortingInv, PlacesInv, PendingCountsTasks, Singles, Partitions
  <2>4. IsFiniteSet(Singles \ {b}) /\ Cardinality(Singles \ {b}) = Cardinality(Singles) - 1
    BY <2>3, FS_RemoveElement
  <2>5. IsFiniteSet(Mine(t)') /\ Cardinality(Mine(t)') = n
    <3>1. n \in Nat
      BY <1>8
    <3>2. /\ IsFiniteSet({<<"push", t, i>> : i \in 1 .. n})
          /\ Cardinality({<<"push", t, i>> : i \in 1 .. n}) = n
      BY <3>1, PushPlaces
    <3>3. QED
      BY <1>14, <3>2
  <2>6. IsFiniteSet(Singles') /\ Cardinality(Singles') = Cardinality(Singles) - 1 + n
    <3>1. PICK S, T : S = Singles \ {b} /\ T = Mine(t)'
      OBVIOUS
    <3>2. IsFiniteSet(S \cup T) /\ Cardinality(S \cup T) = Cardinality(S) + Cardinality(T) - Cardinality(S \cap T)
      BY <2>4, <2>5, <3>1, FS_Union
    <3>3. Cardinality(S \cap T) = 0
      BY <2>1, <3>1, FS_EmptySet
    <3>4. QED
      BY <1>8, <2>1, <2>3, <2>4, <2>5, <3>1, <3>2, <3>3
  <2>7. QED
    BY <1>3, <1>8, <2>2, <2>3, <2>6 DEF PendingCountsTasks
<1>18. PlacesInv'
  <2>1. ReferencesCounted' /\ ElementsCounted'
    BY <1>3, <1>10, <1>12, <1>13, <1>15, <1>16, NoReferences DEF SortingInv
  <2>2. RegionsApart' /\ BlocksApart'
    <3>1. \A p \in Places \ {b} : ~SameSort(p, b)
      BY <1>16 DEF SameSort
    <3>2. ASSUME NEW q \in Mine(t)' PROVE Region(q)' \subseteq Region(b)
      <4>1. PICK i \in 1 .. n : Region(q)' = From(new[i]) .. To(new[i]) - 1
        BY <1>15
      <4>2. QED
        BY <1>8, <1>16, <4>1
    <3>3. ASSUME NEW q \in Mine(t)', NEW r \in Mine(t)', q # r
          PROVE  Region(q)' \cap Region(r)' = {} /\ ~SameSort(q, r)'
      <4>1. PICK i \in 1 .. n : q = <<"push", t, i>> /\ Region(q)' = From(new[i]) .. To(new[i]) - 1
        BY <1>15
      <4>2. PICK j \in 1 .. n : r = <<"push", t, j>> /\ Region(r)' = From(new[j]) .. To(new[j]) - 1
        BY <1>15
      <4>3. i # j
        BY <3>3, <4>1, <4>2
      <4>4. QED
        BY <1>8, <1>15, <4>1, <4>2, <4>3 DEF SameSort
    <3>4. QED
      BY <1>3, <1>10, <1>12, <1>13, <1>15, <1>16, <3>1, <3>2, <3>3, Apart DEF SortingInv
  <2>3. ~ResetLeft'
    <3>1. SUFFICES ASSUME NEW p \in Places', Kind(TaskAt(p))' = "reset" PROVE FALSE
      BY DEF ResetLeft
    <3>2. p \notin Mine(t)'
      BY <1>15, <3>1
    <3>3. p \in Places /\ TaskAt(p)' = TaskAt(p)
      BY <1>3, <1>10, <1>12, <3>2, OtherPlaces
    <3>4. Kind(TaskAt(p)) = "reset"
      BY <3>1, <3>3 DEF Kind
    <3>5. Kind(TaskAt(b)) = "reset"
      BY <1>12, <3>3, <3>4 DEF SortingInv, PlacesInv, ResetLeft
    <3>6. QED
      BY <1>5, <1>16, <3>5
  <2>4. QED
    BY <1>17, <2>1, <2>2, <2>3 DEF PlacesInv
<1>19. ThreadInv(t)' /\ ~Copying(t)'
  BY <1>1, <1>3, <1>5, <1>6, <1>7, <1>8, <1>9 DEF Copying, PushLabels, Complete, ClaimLabels,
     KindsAt, ThreadInv, NoValues, Kind
<1>20. (\A u \in Threads : ThreadInv(u)') /\ CopiesApart'
  BY <1>3, <1>10, <1>19, ThreadsStay DEF SortingInv
<1>21. EndingInv'
  BY <1>3, <1>5, <1>6, EndsWith DEF Ending, SortingInv
<1>22. QED
  BY <1>11, <1>18, <1>20, <1>21 DEF SortingInv

(* A subtask has blocks of its segment.                                    *)
LEMMA BlockTaskType ==
  ASSUME TypeOK, NEW d \in Tasks, Kind(d) = "partition", NEW from \in Nat, NEW to \in Nat,
         from <= to, to <= d[4]
  PROVE  <<"partition", d[2], from, to>> \in Tasks
<1>1. PICK e : e = <<"partition", d[2], from, to>>
  OBVIOUS
<1>2. /\ e[1] = "partition" /\ e[2] = d[2] /\ e[3] = from /\ e[4] = to
      /\ From(e) = From(d) /\ To(e) = To(d)
  BY <1>1 DEF From, To
<1>3. d[2] \in Sorts /\ d[4] \in Nat /\ d[4] <= Blocks(From(d), To(d)) /\ d[4] <= Len(input)
  BY InputType, TasksAre DEF Tasks, Kind
<1>4. from \in 0 .. Len(input) /\ to \in 0 .. Len(input)
  BY <1>3, InputType
<1>5. e \in {"partition"} \X Sorts \X (0 .. Len(input)) \X (0 .. Len(input))
  BY <1>1, <1>3, <1>4
<1>6. e[3] <= e[4] /\ e[4] <= Blocks(From(e), To(e))
  <2>1. Blocks(From(d), To(d)) \in Int
    BY TasksAre, InputType DEF Blocks, CeilDiv
  <2>2. QED
    BY <1>2, <1>3, <2>1
<1>7. e \in Tasks
  BY <1>5, <1>6 DEF Tasks
<1>8. QED
  BY <1>1, <1>7

(* The subtasks have the blocks the task does not keep.                    *)
BlocksDealt(d, new) ==
  /\ \A i \in 1 .. Len(new) :
       /\ Kind(new[i]) = "partition" /\ new[i][2] = d[2]
       /\ new[i][3] .. new[i][4] - 1 \subseteq OwnEnd(d) .. d[4] - 1
  /\ \A i, j \in 1 .. Len(new) : i # j =>
       (new[i][3] .. new[i][4] - 1) \cap (new[j][3] .. new[j][4] - 1) = {}
  /\ \A x \in OwnEnd(d) .. d[4] - 1 : \E i \in 1 .. Len(new) : x \in new[i][3] .. new[i][4] - 1

(* The blocks of a task are dealt to itself and its subtasks.              *)
LEMMA BlockTasksAre ==
  ASSUME TypeOK, NEW d \in Tasks, Kind(d) = "partition"
  PROVE  /\ BlockTasks(d) \in Seq(Tasks) /\ BlocksDealt(d, BlockTasks(d))
         /\ OwnEnd(d) \in Nat /\ d[3] <= OwnEnd(d) /\ OwnEnd(d) <= d[4]
<1>1. /\ d[3] \in Nat /\ d[4] \in Nat /\ d[3] <= d[4]
      /\ OwnEnd(d) \in Nat /\ d[3] <= OwnEnd(d) /\ OwnEnd(d) <= d[4]
  BY TasksAre DEF OwnEnd
<1>2. PICK o, e, m : /\ o = OwnEnd(d) /\ e = d[4]
                     /\ m = o + (((e - o) \div 2) \div BLOCK_SIZE) * BLOCK_SIZE
  OBVIOUS
<1>3. PICK Sub : Sub = [p \in Nat \X Nat |-> <<"partition", d[2], p[1], p[2]>>]
  OBVIOUS
<1>4. ASSUME NEW f \in Nat, NEW g \in Nat, f <= g, g <= e, o <= f
      PROVE  /\ Sub[<<f, g>>] \in Tasks /\ Sub[<<f, g>>] = <<"partition", d[2], f, g>>
             /\ Kind(Sub[<<f, g>>]) = "partition" /\ Sub[<<f, g>>][2] = d[2]
             /\ Sub[<<f, g>>][3] = f /\ Sub[<<f, g>>][4] = g
             /\ f .. g - 1 \subseteq o .. e - 1
  BY <1>1, <1>2, <1>3, <1>4, BlockTaskType DEF Kind
<1>5. m \in Nat /\ o <= m /\ m <= e
  <2>1. e - o \in Nat /\ o \in Nat /\ e \in Nat
    BY <1>1, <1>2
  <2>2. BLOCK_SIZE \in Nat \ {0}
    BY InputType
  <2>3. PICK x, y : x = (e - o) \div 2 /\ y = (x \div BLOCK_SIZE) * BLOCK_SIZE
    OBVIOUS
  <2>4. x \in Nat /\ x <= e - o
    BY <2>1, <2>3
  <2>5. y \in 0 .. x
    BY <2>2, <2>3, <2>4, DivTimes
  <2>6. m = o + y
    BY <1>2, <2>3
  <2>7. QED
    BY <2>1, <2>4, <2>5, <2>6
<1>6. CASE e - o = 0
  BY <1>1, <1>2, <1>6 DEF BlockTasks, BlocksDealt
<1>7. CASE e - o = 1
  <2>1. BlockTasks(d) = << Sub[<<o, e>>] >>
    <3>1. e - o < 2 /\ ~(e - o = 0) /\ o \in Nat /\ e \in Nat
      BY <1>1, <1>2, <1>7
    <3>2. BlockTasks(d) = << <<"partition", d[2], o, e>> >>
      BY <1>2, <3>1 DEF BlockTasks
    <3>3. QED
      BY <1>3, <3>1, <3>2
  <2>2. /\ Sub[<<o, e>>] \in Tasks /\ Kind(Sub[<<o, e>>]) = "partition" /\ Sub[<<o, e>>][2] = d[2]
        /\ Sub[<<o, e>>][3] = o /\ Sub[<<o, e>>][4] = e
    BY <1>1, <1>2, <1>4
  <2>3. << Sub[<<o, e>>] >> \in Seq(Tasks) /\ Len(<< Sub[<<o, e>>] >>) = 1 /\ << Sub[<<o, e>>] >>[1] = Sub[<<o, e>>]
        /\ \A i \in 1 .. 1 : i = 1
    BY <2>2
  <2>4. QED
    BY <1>1, <1>2, <2>1, <2>2, <2>3 DEF BlocksDealt
<1>8. CASE e - o > 1
  <2>1. PICK l, r, new : l = Sub[<<o, m>>] /\ r = Sub[<<m, e>>] /\ new = << l, r >>
    OBVIOUS
  <2>2. BlockTasks(d) = new
    <3>1. ~(e - o = 0) /\ ~(e - o < 2)
      BY <1>1, <1>2, <1>8
    <3>2. BlockTasks(d) = << <<"partition", d[2], o, m>>, <<"partition", d[2], m, e>> >>
      BY <1>2, <3>1 DEF BlockTasks
    <3>3. l = <<"partition", d[2], o, m>> /\ r = <<"partition", d[2], m, e>>
      BY <1>1, <1>2, <1>3, <1>5, <2>1
    <3>4. QED
      BY <2>1, <3>2, <3>3
  <2>3. o \in Nat /\ m \in Nat /\ e \in Nat /\ o <= m /\ m <= e /\ o <= o /\ e <= e
    BY <1>1, <1>2, <1>5
  <2>4. /\ l \in Tasks /\ Kind(l) = "partition" /\ l[2] = d[2] /\ l[3] = o /\ l[4] = m
        /\ l[3] .. l[4] - 1 \subseteq o .. e - 1
    BY <1>4, <2>1, <2>3
  <2>5. /\ r \in Tasks /\ Kind(r) = "partition" /\ r[2] = d[2] /\ r[3] = m /\ r[4] = e
        /\ r[3] .. r[4] - 1 \subseteq o .. e - 1
    BY <1>4, <2>1, <2>3
  <2>6. new \in Seq(Tasks) /\ Len(new) = 2 /\ new[1] = l /\ new[2] = r
    BY <2>1, <2>4, <2>5
  <2>7. \A i \in 1 .. 2 : i = 1 \/ i = 2
    OBVIOUS
  <2>8. \A x \in o .. e - 1 : x \in o .. m - 1 \/ x \in m .. e - 1
    BY <1>1, <1>2, <1>5
  <2>9. (o .. m - 1) \cap (m .. e - 1) = {}
    BY <1>1, <1>2, <1>5
  <2>10. BlocksDealt(d, new)
    <3>1. \A i \in 1 .. Len(new) :
            /\ Kind(new[i]) = "partition" /\ new[i][2] = d[2]
            /\ new[i][3] .. new[i][4] - 1 \subseteq o .. e - 1
      BY <2>4, <2>5, <2>6, <2>7
    <3>2. \A i, j \in 1 .. Len(new) : i # j =>
            (new[i][3] .. new[i][4] - 1) \cap (new[j][3] .. new[j][4] - 1) = {}
      <4>1. SUFFICES ASSUME NEW i \in 1 .. 2, NEW j \in 1 .. 2, i # j
                     PROVE  (new[i][3] .. new[i][4] - 1) \cap (new[j][3] .. new[j][4] - 1) = {}
        BY <2>6
      <4>2. (i = 1 /\ j = 2) \/ (i = 2 /\ j = 1)
        BY <2>7, <4>1
      <4>3. QED
        BY <2>4, <2>5, <2>6, <2>9, <4>2
    <3>3. \A x \in o .. e - 1 : \E i \in 1 .. Len(new) : x \in new[i][3] .. new[i][4] - 1
      BY <2>4, <2>5, <2>6, <2>8
    <3>4. QED
      BY <1>2, <3>1, <3>2, <3>3 DEF BlocksDealt
  <2>11. QED
    BY <1>1, <2>2, <2>6, <2>10
<1>9. QED
  BY <1>1, <1>2, <1>6, <1>7, <1>8

(* Splitting a task adds a reference for each subtask, and every block     *)
(* stays with one of them.                                                 *)
LEMMA SplitBlocksKeeps ==
  ASSUME SortingInv, NEW t \in Threads, SplitBlocks(t)
  PROVE  SortingInv'
<1>1. PICK b, d, s : b = <<"thread", t, 1>> /\ d = task[t] /\ s = d[2]
  OBVIOUS
<1>2. PICK new : new = BlockTasks(d)
  OBVIOUS
<1>3. PICK l : l = IF new = <<>> THEN "pivot" ELSE "pushBlocks"
  OBVIOUS
<1>4. /\ pc[t] = "run" /\ Kind(d) = "partition" /\ Goto(t, l)
      /\ reference_count' = [reference_count EXCEPT ![s] = @ + Len(new)]
      /\ subtasks' = [subtasks EXCEPT ![t] = new]
      /\ workers' = workers /\ finished' = finished /\ other' = other /\ input' = input
      /\ task' = task /\ A' = A /\ B' = B /\ pivot' = pivot /\ values' = values
      /\ pending_tasks' = pending_tasks /\ counters' = counters
  BY <1>1, <1>2, <1>3 DEF SplitBlocks, AddedReferences, arrays, local
<1>5. pc[t] \in TaskLabels \ PushLabels /\ pc[t] \in Labels \ ClaimLabels /\ ~Copying(t)
  BY <1>4 DEF Labels, TaskLabels, PartitionLabels, PushLabels, ClaimLabels, Copying
<1>6. /\ d \in Tasks /\ d # NoTask /\ s \in Sorts /\ TypeOK
      /\ subtasks[t] = <<>> /\ values[t] = NoValues /\ pending_tasks # 0
  BY <1>1, <1>4, <1>5, OwnTask, TasksAre DEF SortingInv
<1>7. /\ pc' \in [Threads -> Labels] /\ pc'[t] = l /\ l \in Labels /\ l \in {"pivot", "pushBlocks"}
      /\ \A u \in Threads \ {t} : pc'[u] = pc[u]
  BY <1>3, <1>4, Goes DEF Labels, TaskLabels, PartitionLabels, SortingInv
<1>8. PICK n : n = Len(new)
  OBVIOUS
<1>9. /\ new \in Seq(Tasks) /\ n \in Nat /\ DOMAIN new = 1 .. n /\ (n = 0 <=> new = <<>>)
      /\ BlocksDealt(d, new)
      /\ OwnEnd(d) \in Nat /\ d[3] <= OwnEnd(d) /\ OwnEnd(d) <= d[4] /\ d[3] \in Nat /\ d[4] \in Nat
  BY <1>2, <1>4, <1>6, <1>8, BlockTasksAre, TasksAre
<1>10. /\ subtasks'[t] = new /\ \A u \in Threads \ {t} : subtasks'[u] = subtasks[u]
       /\ subtasks' \in [Threads -> Seq(Tasks)]
  BY <1>4, <1>6, <1>9 DEF TypeOK
<1>11. Aside(t)
  BY <1>4, <1>7, <1>10 DEF Aside
<1>12. /\ reference_count'[s] = reference_count[s] + n
       /\ \A r \in Sorts : r # s => reference_count'[r] = reference_count[r]
       /\ reference_count' \in [Sorts -> Nat]
  BY <1>4, <1>6, <1>8, <1>9 DEF TypeOK
<1>13. TypeOK'
  BY <1>4, <1>6, <1>7, <1>10, <1>12, SameTypes DEF TypeOK, Labels
<1>14. Mine(t) = {b} /\ b \in Places
  BY <1>1, <1>5, OwnPlace
<1>15. \A p \in Places \ {b} : KeptAs(p, p)
  BY <1>4, <1>11, <1>14, OtherPlaces, KeptHere
<1>16. PICK P : P = {<<"push", t, i>> : i \in 1 .. n}
  OBVIOUS
<1>17. Mine(t)' = P \cup {b} /\ b \notin P
  BY <1>1, <1>7, <1>9, <1>10, <1>16, MineAre DEF TaskLabels, PartitionLabels
<1>18. /\ TaskAt(b) = d /\ Refers(b) /\ Region(b) = From(d) .. To(d) - 1
       /\ BlocksAt(b) = d[3] .. d[4] - 1
  BY <1>1, <1>4, TasksAt DEF Refers, Region, RegionOf, BlocksAt, BlocksOf, PartitionLabels
<1>19. /\ TaskAt(b)' = d /\ Refers(b)' /\ Region(b)' = From(d) .. To(d) - 1
       /\ BlocksAt(b)' = d[3] .. OwnEnd(d) - 1
  <2>1. TaskAt(b)' = d /\ Stage(b)' = l
    BY <1>1, <1>4, <1>7, TasksAtThen
  <2>2. QED
    BY <1>4, <1>7, <2>1
       DEF Refers, Region, RegionOf, BlocksAt, BlocksOf, PartitionLabels, Kind, From, To, OwnEnd
<1>20. ASSUME NEW i \in 1 .. n
       PROVE  LET q == <<"push", t, i>>
              IN  /\ TaskAt(q)' = new[i] /\ Kind(new[i]) = "partition" /\ new[i][2] = s
                  /\ Refers(q)' /\ Region(q)' = From(d) .. To(d) - 1
                  /\ BlocksAt(q)' = new[i][3] .. new[i][4] - 1
                  /\ BlocksAt(q)' \subseteq OwnEnd(d) .. d[4] - 1
  <2>1. PICK q : q = <<"push", t, i>>
    OBVIOUS
  <2>2. TaskAt(q)' = new[i] /\ Stage(q)' = "run"
    BY <1>10, <2>1, TasksAtThen
  <2>3. /\ Kind(new[i]) = "partition" /\ new[i][2] = s
        /\ new[i][3] .. new[i][4] - 1 \subseteq OwnEnd(d) .. d[4] - 1
    BY <1>1, <1>8, <1>9 DEF BlocksDealt
  <2>4. From(new[i]) = From(d) /\ To(new[i]) = To(d)
    BY <1>1, <2>3 DEF From, To
  <2>5. QED
    BY <2>1, <2>2, <2>3, <2>4
       DEF Refers, Region, RegionOf, BlocksAt, BlocksOf, PartitionLabels, Kind, From, To
<1>21. ASSUME NEW q \in Mine(t)'
       PROVE  /\ Kind(TaskAt(q))' = "partition" /\ (TaskAt(q)[2])' = s /\ Refers(q)'
              /\ Region(q)' = From(d) .. To(d) - 1 /\ BlocksAt(q)' \subseteq d[3] .. d[4] - 1
  <2>1. CASE q = b
    <3>1. d[3] .. OwnEnd(d) - 1 \subseteq d[3] .. d[4] - 1
      BY <1>9
    <3>2. Kind(TaskAt(q))' = "partition"
      BY <1>4, <1>19, <2>1 DEF Kind
    <3>3. QED
      BY <1>1, <1>19, <2>1, <3>1, <3>2
  <2>2. CASE q \in P
    <3>1. PICK i \in 1 .. n : q = <<"push", t, i>>
      BY <1>16, <2>2
    <3>2. OwnEnd(d) .. d[4] - 1 \subseteq d[3] .. d[4] - 1
      BY <1>9
    <3>3. /\ TaskAt(q)' = new[i] /\ Kind(new[i]) = "partition" /\ new[i][2] = s
          /\ Refers(q)' /\ Region(q)' = From(d) .. To(d) - 1
          /\ BlocksAt(q)' \subseteq OwnEnd(d) .. d[4] - 1
      BY <1>20, <3>1
    <3>4. QED
      BY <3>2, <3>3 DEF Kind
  <2>3. QED
    BY <1>17, <2>1, <2>2
<1>22. PendingCountsTasks'
  <2>1. Singles' = Singles
    <3>1. Singles' = (Singles \ {b}) \cup {q \in Mine(t)' : Kind(TaskAt(q))' # "partition"}
      BY <1>4, <1>11, <1>14, <1>15, TasksThen
    <3>2. {q \in Mine(t)' : Kind(TaskAt(q))' # "partition"} = {}
      BY <1>21
    <3>3. b \notin Singles
      BY <1>4, <1>14, <1>18 DEF Singles, Partitions
    <3>4. QED
      BY <3>1, <3>2, <3>3
  <2>2. Objects' = Objects
    <3>1. Objects' = {TaskAt(p)[2] : p \in Partitions \ {b}}
                       \cup {(TaskAt(q)[2])' : q \in {r \in Mine(t)' : Kind(TaskAt(r))' = "partition"}}
      BY <1>4, <1>11, <1>14, <1>15, TasksThen
    <3>2. {r \in Mine(t)' : Kind(TaskAt(r))' = "partition"} = Mine(t)'
      BY <1>21
    <3>3. b \in Partitions
      BY <1>4, <1>14, <1>18 DEF Partitions
    <3>4. {(TaskAt(q)[2])' : q \in Mine(t)'} = {s}
      BY <1>17, <1>21
    <3>5. QED
      BY <1>1, <1>18, <3>1, <3>2, <3>3, <3>4 DEF Objects
  <2>3. QED
    BY <1>4, <2>1, <2>2 DEF SortingInv, PlacesInv, PendingCountsTasks
<1>23. ASSUME NEW r \in Sorts, r # s
       PROVE  References(r)' = References(r) /\ Unreserved(r)' = Unreserved(r)
  BY <1>1, <1>4, <1>11, <1>14, <1>15, <1>18, <1>21, <1>23, OtherSorts
<1>24. References(s)' = References(s) \cup P /\ References(s) \cap P = {} /\ b \in References(s)
       /\ \A p \in References(s) \ {b} : BlocksAt(p)' = BlocksAt(p)
  <2>1. /\ References(s)' = (References(s) \ {b})
                              \cup {q \in Mine(t)' : Refers(q)' /\ (TaskAt(q)[2])' = s}
        /\ \A p \in References(s) \ {b} : BlocksAt(p)' = BlocksAt(p) /\ p \notin Mine(t)'
    BY <1>4, <1>11, <1>14, <1>15, ReferencesThen
  <2>2. {q \in Mine(t)' : Refers(q)' /\ (TaskAt(q)[2])' = s} = Mine(t)'
    BY <1>21
  <2>3. b \in References(s)
    BY <1>1, <1>14, <1>18, ReferencesAre
  <2>4. QED
    BY <1>17, <2>1, <2>2, <2>3
<1>25. /\ IsFiniteSet(References(s)') /\ reference_count'[s] = Cardinality(References(s)')
  <2>1. IsFiniteSet(References(s)) /\ reference_count[s] = Cardinality(References(s))
    BY <1>6 DEF SortingInv, PlacesInv, ReferencesCounted
  <2>2. IsFiniteSet(P) /\ Cardinality(P) = n
    BY <1>9, <1>16, PushPlaces
  <2>3. PICK R : R = References(s)
    OBVIOUS
  <2>4. /\ IsFiniteSet(R \cup P)
        /\ Cardinality(R \cup P) = Cardinality(R) + Cardinality(P) - Cardinality(R \cap P)
    BY <2>1, <2>2, <2>3, FS_Union
  <2>5. Cardinality(R \cap P) = 0 /\ Cardinality(R) \in Nat
    BY <1>24, <2>1, <2>3, FS_EmptySet, FS_CardinalityType
  <2>6. QED
    BY <1>9, <1>12, <1>24, <2>1, <2>2, <2>3, <2>4, <2>5
<1>26. Unreserved(s)' = Unreserved(s)
  <2>1. ASSUME NEW x, NEW p \in References(s), x \in BlocksAt(p)
        PROVE  \E q \in References(s)' : x \in BlocksAt(q)'
    <3>1. CASE p # b
      BY <1>24, <2>1, <3>1
    <3>2. CASE p = b
      <4>1. x \in d[3] .. d[4] - 1
        BY <1>18, <2>1, <3>2
      <4>2. CASE x \in d[3] .. OwnEnd(d) - 1
        BY <1>19, <1>24, <4>2
      <4>3. CASE x \in OwnEnd(d) .. d[4] - 1
        <5>1. PICK i \in 1 .. n : x \in new[i][3] .. new[i][4] - 1
          BY <1>8, <1>9, <4>3 DEF BlocksDealt
        <5>2. PICK q : q = <<"push", t, i>>
          OBVIOUS
        <5>3. q \in P /\ BlocksAt(q)' = new[i][3] .. new[i][4] - 1
          BY <1>16, <1>20, <5>2
        <5>4. QED
          BY <1>24, <5>1, <5>3
      <4>4. QED
        BY <1>9, <4>1, <4>2, <4>3
    <3>3. QED
      BY <3>1, <3>2
  <2>2. ASSUME NEW x, NEW q \in References(s)', x \in BlocksAt(q)'
        PROVE  \E p \in References(s) : x \in BlocksAt(p)
    <3>1. CASE q \in Mine(t)'
      BY <1>18, <1>21, <1>24, <2>2, <3>1
    <3>2. CASE q \notin Mine(t)'
      BY <1>17, <1>24, <2>2, <3>2
    <3>3. QED
      BY <3>1, <3>2
  <2>3. \A x : (\E p \in References(s) : x \in BlocksAt(p)) <=> \E q \in References(s)' : x \in BlocksAt(q)'
    BY <2>1, <2>2
  <2>4. QED
    BY <2>3 DEF Unreserved, BlockOf
<1>27. PlacesInv'
  <2>1. Sorts' = Sorts
    BY <1>4, SameTypes
  <2>2. ReferencesCounted'
    BY <1>12, <1>23, <1>25, <2>1 DEF SortingInv, PlacesInv, ReferencesCounted
  <2>3. ElementsCounted'
    <3>1. ASSUME NEW r \in Sorts, References(r)' # {}
          PROVE  Ready(r)' + Cardinality(Unreserved(r)') = r[2] - r[1] - 1
      BY <1>4, <1>23, <1>24, <1>26, <3>1 DEF SortingInv, PlacesInv, ElementsCounted, Ready
    <3>2. QED
      BY <2>1, <3>1 DEF ElementsCounted
  <2>4. RegionsApart' /\ BlocksApart'
    <3>1. \A q \in Mine(t)' : Region(q)' \subseteq Region(b)
      BY <1>18, <1>21
    <3>2. \A q \in Mine(t)' : Refers(q)' =>
            IF Refers(b)
              THEN (TaskAt(q)[2])' = TaskAt(b)[2] /\ BlocksAt(q)' \subseteq BlocksAt(b)
              ELSE \A p \in Places \ {b} : ~(Refers(p) /\ TaskAt(p)[2] = (TaskAt(q)[2])')
      BY <1>1, <1>18, <1>21
    <3>3. \A p \in Places \ {b} : SameSort(p, b) => \A q \in Mine(t)' : Refers(q)'
      BY <1>21
    <3>4. ASSUME NEW q \in Mine(t)', NEW r \in Mine(t)', q # r
          PROVE  SameSort(q, r)' /\ BlocksAt(q)' \cap BlocksAt(r)' = {}
      <4>1. SameSort(q, r)'
        BY <1>21 DEF SameSort
      <4>2. (d[3] .. OwnEnd(d) - 1) \cap (OwnEnd(d) .. d[4] - 1) = {}
        BY <1>9
      <4>3. CASE q = b
        <5>1. PICK i \in 1 .. n : r = <<"push", t, i>>
          BY <1>16, <1>17, <3>4, <4>3
        <5>2. BlocksAt(r)' \subseteq OwnEnd(d) .. d[4] - 1
          BY <1>20, <5>1
        <5>3. QED
          BY <1>19, <4>1, <4>2, <4>3, <5>2
      <4>4. CASE r = b
        <5>1. PICK i \in 1 .. n : q = <<"push", t, i>>
          BY <1>16, <1>17, <3>4, <4>4
        <5>2. BlocksAt(q)' \subseteq OwnEnd(d) .. d[4] - 1
          BY <1>20, <5>1
        <5>3. QED
          BY <1>19, <4>1, <4>2, <4>4, <5>2
      <4>5. CASE q # b /\ r # b
        <5>1. PICK i \in 1 .. n : q = <<"push", t, i>>
          BY <1>16, <1>17, <4>5
        <5>2. PICK j \in 1 .. n : r = <<"push", t, j>>
          BY <1>16, <1>17, <4>5
        <5>3. i # j
          BY <3>4, <5>1, <5>2
        <5>4. (new[i][3] .. new[i][4] - 1) \cap (new[j][3] .. new[j][4] - 1) = {}
          BY <1>8, <1>9, <5>3 DEF BlocksDealt
        <5>5. BlocksAt(q)' = new[i][3] .. new[i][4] - 1 /\ BlocksAt(r)' = new[j][3] .. new[j][4] - 1
          BY <1>20, <5>1, <5>2
        <5>6. QED
          BY <4>1, <5>4, <5>5
      <4>6. QED
        BY <4>3, <4>4, <4>5
    <3>5. QED
      BY <1>4, <1>11, <1>14, <1>15, <3>1, <3>2, <3>3, <3>4, Apart DEF SortingInv
  <2>5. ~ResetLeft'
    <3>1. SUFFICES ASSUME NEW p \in Places', Kind(TaskAt(p))' = "reset" PROVE FALSE
      BY DEF ResetLeft
    <3>2. p \notin Mine(t)'
      BY <1>21, <3>1
    <3>3. p \in Places /\ TaskAt(p)' = TaskAt(p)
      BY <1>4, <1>11, <1>14, <3>2, OtherPlaces
    <3>4. Kind(TaskAt(p)) = "reset"
      BY <3>1, <3>3 DEF Kind
    <3>5. Kind(TaskAt(b)) = "reset"
      BY <1>14, <3>3, <3>4 DEF SortingInv, PlacesInv, ResetLeft
    <3>6. QED
      BY <1>4, <1>18, <3>5
  <2>6. QED
    BY <1>22, <2>2, <2>3, <2>4, <2>5 DEF PlacesInv
<1>28. ThreadInv(t)' /\ ~Copying(t)'
  BY <1>1, <1>3, <1>4, <1>6, <1>7, <1>10 DEF Copying, PushLabels, Complete, ClaimLabels,
     KindsAt, ThreadInv, NoValues, Kind
<1>29. (\A u \in Threads : ThreadInv(u)') /\ CopiesApart'
  BY <1>4, <1>11, <1>28, ThreadsStay DEF SortingInv
<1>30. EndingInv'
  BY <1>4, <1>6, <1>7, EndsWith DEF Ending, SortingInv
<1>31. QED
  BY <1>13, <1>27, <1>29, <1>30 DEF SortingInv

(* A reference that is dropped is the last one, or another task has one.   *)
LEMMA LastReference ==
  ASSUME SortingInv, NEW s \in Sorts, NEW b \in References(s)
  PROVE  /\ IsFiniteSet(References(s)) /\ reference_count[s] = Cardinality(References(s))
         /\ reference_count[s] \in Nat \ {0}
         /\ reference_count[s] = 1 => References(s) = {b}
         /\ reference_count[s] # 1 => \E p \in References(s) : p # b
<1>1. PICK R : R = References(s)
  OBVIOUS
<1>2. IsFiniteSet(R) /\ reference_count[s] = Cardinality(R) /\ b \in R
  BY <1>1 DEF SortingInv, PlacesInv, ReferencesCounted
<1>3. /\ IsFiniteSet(R \ {b}) /\ Cardinality(R \ {b}) = Cardinality(R) - 1
      /\ Cardinality(R) \in Nat /\ Cardinality(R \ {b}) \in Nat
  BY <1>2, FS_RemoveElement, FS_CardinalityType
<1>4. Cardinality(R \ {b}) = 0 <=> R \ {b} = {}
  BY <1>3, FS_EmptySet
<1>5. QED
  BY <1>1, <1>2, <1>3, <1>4

(* Dropping a reference leaves the others; the last one finds all places   *)
(* reserved.                                                               *)
LEMMA DropReferenceKeeps ==
  ASSUME SortingInv, NEW t \in Threads, DropReference(t)
  PROVE  SortingInv'
<1>1. PICK b, d, s : b = <<"thread", t, 1>> /\ d = task[t] /\ s = d[2]
  OBVIOUS
<1>2. PICK last : last = (reference_count[s] = 1)
  OBVIOUS
<1>3. PICK l : l = IF last THEN "storePivot" ELSE "claim"
  OBVIOUS
<1>4. /\ pc[t] = "drop" /\ Goto(t, l)
      /\ reference_count' = [reference_count EXCEPT ![s] = @ - 1]
      /\ task' = [task EXCEPT ![t] = IF last THEN d ELSE NoTask]
      /\ workers' = workers /\ finished' = finished /\ other' = other /\ input' = input
      /\ subtasks' = subtasks /\ A' = A /\ B' = B /\ pivot' = pivot /\ values' = values
      /\ pending_tasks' = pending_tasks /\ counters' = counters
  BY <1>1, <1>2, <1>3 DEF SortingInv, TypeOK, DropReference, Return, arrays, local
<1>5. pc[t] \in TaskLabels \ PushLabels /\ pc[t] \in Labels \ ClaimLabels /\ ~Copying(t)
  BY <1>4 DEF Labels, TaskLabels, PartitionLabels, PushLabels, ClaimLabels, Copying
<1>6. /\ d \in Tasks /\ d # NoTask /\ s \in Sorts /\ TypeOK /\ Kind(d) = "partition"
      /\ subtasks[t] = <<>> /\ values[t] = NoValues /\ pending_tasks # 0
  BY <1>1, <1>4, <1>5, OwnTask, TasksAre DEF SortingInv, KindsAt
<1>7. /\ pc' \in [Threads -> Labels] /\ pc'[t] = l /\ l \in Labels
      /\ \A u \in Threads \ {t} : pc'[u] = pc[u]
  BY <1>3, <1>4, Goes DEF Labels, TaskLabels, ClaimLabels, SortingInv
<1>8. /\ task'[t] = (IF last THEN d ELSE NoTask)
      /\ \A u \in Threads \ {t} : task'[u] = task[u]
      /\ task' \in [Threads -> Tasks \cup {NoTask}]
  BY <1>4, <1>6 DEF TypeOK
<1>9. Aside(t)
  BY <1>4, <1>7, <1>8 DEF Aside
<1>10. Mine(t) = {b} /\ b \in Places
  BY <1>1, <1>5, OwnPlace
<1>11. /\ TaskAt(b) = d /\ Refers(b) /\ Region(b) = From(d) .. To(d) - 1 /\ BlocksAt(b) = {}
  BY <1>1, <1>4, <1>6, TasksAt DEF Refers, Region, RegionOf, BlocksAt, BlocksOf, PartitionLabels
<1>12. b \in References(s)
  BY <1>1, <1>10, <1>11, ReferencesAre
<1>13. /\ IsFiniteSet(References(s)) /\ reference_count[s] = Cardinality(References(s))
       /\ reference_count[s] \in Nat \ {0}
       /\ last => References(s) = {b}
       /\ ~last => \E p \in References(s) : p # b
  BY <1>2, <1>6, <1>12, LastReference
<1>14. /\ reference_count'[s] = reference_count[s] - 1
       /\ \A r \in Sorts : r # s => reference_count'[r] = reference_count[r]
       /\ reference_count' \in [Sorts -> Nat]
  BY <1>4, <1>6, <1>13 DEF TypeOK
<1>15. TypeOK'
  BY <1>4, <1>6, <1>7, <1>8, <1>14, SameTypes DEF TypeOK, Labels
<1>16. \A p \in Places \ {b} : KeptAs(p, p)
  BY <1>4, <1>9, <1>10, OtherPlaces, KeptHere
<1>17. Mine(t)' = IF last THEN {b} ELSE {}
  BY <1>1, <1>3, <1>4, <1>6, <1>7, MineAre DEF TaskLabels, PartitionLabels
<1>18. last => /\ TaskAt(b)' = d /\ ~Refers(b)' /\ Region(b)' = From(d) .. To(d) - 1
               /\ Kind(TaskAt(b))' = "partition"
  BY <1>1, <1>3, <1>6, <1>7, <1>8, TasksAtThen DEF Refers, Region, RegionOf, PartitionLabels,
     Kind, From, To
<1>19. \A q \in Mine(t)' : q = b /\ last /\ ~Refers(q)'
  BY <1>17, <1>18
<1>20. PendingCountsTasks'
  <2>1. Singles' = Singles
    BY <1>4, <1>6, <1>9, <1>10, <1>11, <1>16, <1>18, <1>19, TasksThen DEF Singles, Partitions
  <2>2. Objects' = Objects
    <3>1. Objects' = {TaskAt(p)[2] : p \in Partitions \ {b}}
                       \cup {(TaskAt(q)[2])' : q \in {r \in Mine(t)' : Kind(TaskAt(r))' = "partition"}}
      BY <1>4, <1>9, <1>10, <1>16, TasksThen
    <3>2. b \in Partitions
      BY <1>6, <1>10, <1>11 DEF Partitions
    <3>3. CASE last
      BY <1>11, <1>17, <1>18, <3>1, <3>2, <3>3 DEF Objects
    <3>4. CASE ~last
      <4>1. Mine(t)' = {}
        BY <1>17, <3>4
      <4>2. PICK q \in Partitions : q # b /\ TaskAt(q)[2] = s
        <5>1. PICK p \in References(s) : p # b
          BY <1>13, <3>4
        <5>2. p \in Partitions /\ TaskAt(p)[2] = s
          BY ReferencesAre DEF Refers, Partitions
        <5>3. QED
          BY <5>1, <5>2
      <4>3. Objects' = {TaskAt(p)[2] : p \in Partitions \ {b}}
        BY <3>1, <4>1
      <4>4. QED
        BY <1>1, <1>11, <3>2, <4>2, <4>3 DEF Objects
    <3>5. QED
      BY <3>3, <3>4
  <2>3. QED
    BY <1>4, <2>1, <2>2 DEF SortingInv, PlacesInv, PendingCountsTasks
<1>21. ASSUME NEW r \in Sorts, r # s
       PROVE  References(r)' = References(r) /\ Unreserved(r)' = Unreserved(r)
  BY <1>1, <1>4, <1>9, <1>10, <1>11, <1>16, <1>19, <1>21, OtherSorts
<1>22. /\ References(s)' = References(s) \ {b}
       /\ \A p \in References(s) \ {b} : BlocksAt(p)' = BlocksAt(p)
  BY <1>4, <1>9, <1>10, <1>16, <1>19, ReferencesThen
<1>23. IsFiniteSet(References(s)') /\ reference_count'[s] = Cardinality(References(s)')
  BY <1>12, <1>13, <1>14, <1>22, FS_RemoveElement
<1>24. Unreserved(s)' = Unreserved(s)
  BY <1>11, <1>22 DEF Unreserved, BlockOf
<1>25. PlacesInv'
  <2>1. Sorts' = Sorts
    BY <1>4, SameTypes
  <2>2. ReferencesCounted'
    BY <1>14, <1>21, <1>23, <2>1 DEF SortingInv, PlacesInv, ReferencesCounted
  <2>3. ElementsCounted'
    <3>1. ASSUME NEW r \in Sorts, References(r)' # {}
          PROVE  Ready(r)' + Cardinality(Unreserved(r)') = r[2] - r[1] - 1
      BY <1>4, <1>21, <1>22, <1>24, <3>1 DEF SortingInv, PlacesInv, ElementsCounted, Ready
    <3>2. QED
      BY <2>1, <3>1 DEF ElementsCounted
  <2>4. RegionsApart' /\ BlocksApart'
    <3>1. \A q \in Mine(t)' : Region(q)' \subseteq Region(b)
      BY <1>11, <1>18, <1>19
    <3>2. \A p \in Places \ {b} : SameSort(p, b) => \A q \in Mine(t)' : Refers(q)'
      <4>1. SUFFICES ASSUME NEW p \in Places \ {b}, SameSort(p, b), last PROVE FALSE
        BY <1>19
      <4>2. p \in References(s)
        BY <1>1, <1>11, <4>1, ReferencesAre DEF SameSort
      <4>3. QED
        BY <1>13, <4>1, <4>2
    <3>3. QED
      BY <1>4, <1>9, <1>10, <1>16, <1>19, <3>1, <3>2, Apart DEF SortingInv
  <2>5. ~ResetLeft'
    <3>1. SUFFICES ASSUME NEW p \in Places', Kind(TaskAt(p))' = "reset" PROVE FALSE
      BY DEF ResetLeft
    <3>2. p \notin Mine(t)'
      BY <1>18, <1>19, <3>1
    <3>3. p \in Places /\ TaskAt(p)' = TaskAt(p)
      BY <1>4, <1>9, <1>10, <3>2, OtherPlaces
    <3>4. Kind(TaskAt(p)) = "reset"
      BY <3>1, <3>3 DEF Kind
    <3>5. Kind(TaskAt(b)) = "reset"
      BY <1>10, <3>3, <3>4 DEF SortingInv, PlacesInv, ResetLeft
    <3>6. QED
      BY <1>6, <1>11, <3>5
  <2>6. QED
    BY <1>20, <2>2, <2>3, <2>4, <2>5 DEF PlacesInv
<1>26. ThreadInv(t)' /\ ~Copying(t)'
  <2>1. ~Copying(t)' /\ l \notin PushLabels /\ l \notin {"partition", "copyLeft", "copyRight", "adjust"}
        /\ (l \in ClaimLabels <=> ~last) /\ (last => Kind(d) \in KindsAt(l))
    BY <1>3, <1>6, <1>7 DEF Copying, PushLabels, ClaimLabels, KindsAt
  <2>2. last => (Ready(s) + 1 = Length(d))'
    <3>1. SUFFICES ASSUME last PROVE (Ready(s) + 1 = Length(d))'
      OBVIOUS
    <3>2. Unreserved(s) = {}
      BY <1>11, <1>13, <3>1 DEF Unreserved
    <3>3. Ready(s) + Cardinality(Unreserved(s)) = s[2] - s[1] - 1
      BY <1>6, <1>12 DEF SortingInv, PlacesInv, ElementsCounted
    <3>4. Cardinality(Unreserved(s)) = 0 /\ Ready(s) \in Nat
      BY <1>6, <3>2, FS_EmptySet, CountersAre
    <3>5. s[1] \in Int /\ s[2] \in Int
      BY <1>6, InputType DEF Sorts
    <3>6. Ready(s) + 1 = s[2] - s[1]
      BY <3>3, <3>4, <3>5
    <3>7. QED
      BY <1>1, <1>4, <3>6 DEF Ready, Length, From, To
  <2>3. CASE last
    BY <1>1, <1>4, <1>6, <1>7, <1>8, <2>1, <2>2, <2>3 DEF Ready, Length, From, To, ThreadInv,
       NoValues, Kind, KindsAt
  <2>4. CASE ~last
    BY <1>3, <1>4, <1>6, <1>7, <1>8, <2>1, <2>4 DEF Complete, ThreadInv, NoValues
  <2>5. QED
    BY <2>1, <2>3, <2>4
<1>27. (\A u \in Threads : ThreadInv(u)') /\ CopiesApart'
  BY <1>4, <1>9, <1>26, ThreadsStay DEF SortingInv
<1>28. EndingInv'
  BY <1>3, <1>4, <1>6, <1>7, EndsWith DEF Ending, SortingInv
<1>29. QED
  BY <1>15, <1>25, <1>27, <1>28 DEF SortingInv

-----------------------------------------------------------------------------
(* The block of a partition task: its elements are lo .. hi - 1.           *)
IsBlock(d, lo, hi) ==
  /\ lo = From(d) + (1 + d[3] * BLOCK_SIZE)
  /\ hi = IF lo + BLOCK_SIZE <= To(d) THEN lo + BLOCK_SIZE ELSE To(d)

(* The block of a task is the chunk it partitions.                         *)
LEMMA BlockIs ==
  ASSUME TypeOK, NEW d \in Tasks, Kind(d) = "partition", d[3] < OwnEnd(d),
         NEW lo, NEW hi, IsBlock(d, lo, hi)
  PROVE  /\ lo \in Nat /\ hi \in Nat /\ From(d) < lo /\ lo < hi /\ hi <= To(d)
         /\ OwnEnd(d) = d[3] + 1
         /\ \A cells : ChunkOf(cells, From(d), To(d), 1 + d[3] * BLOCK_SIZE, BLOCK_SIZE)
                         = Slice(cells, lo, hi)
         /\ \A i \in From(d) + 1 .. To(d) - 1 : BlockOf(d[2], i) = d[3] <=> i \in lo .. hi - 1
<1>1. PICK from, to, k, n, m : /\ from = From(d) /\ to = To(d) /\ k = d[3] /\ n = to - from - 1
                               /\ m = k * BLOCK_SIZE
  OBVIOUS
<1>2. /\ from \in Nat /\ to \in Nat /\ from < to /\ k \in Nat /\ BLOCK_SIZE \in Nat \ {0}
      /\ d[4] \in Nat /\ d[4] <= Blocks(from, to) /\ n \in Nat
  <2>1. /\ from \in 0 .. Len(input) /\ to \in 0 .. Len(input) /\ from < to /\ k \in Nat
        /\ d[4] \in Nat /\ d[4] <= Blocks(from, to)
    BY <1>1, TasksAre
  <2>2. from \in Nat /\ to \in Nat /\ BLOCK_SIZE \in Nat \ {0}
    BY <2>1, InputType
  <2>3. n \in Nat
    <3>1. n = to - from - 1
      BY <1>1
    <3>2. QED
      BY <2>1, <2>2, <3>1
  <2>4. QED
    BY <2>1, <2>2, <2>3
<1>3. m \in Nat
  BY <1>1, <1>2
<1>4. OwnEnd(d) = k + 1 /\ k + 1 <= d[4]
  <2>1. PICK e, o : e = d[4] /\ o = OwnEnd(d)
    OBVIOUS
  <2>2. o = (IF e - k >= 2 THEN k + 1 ELSE e) /\ k < o /\ e \in Nat /\ k \in Nat
    BY <1>1, <1>2, <2>1 DEF OwnEnd
  <2>3. o = k + 1 /\ k + 1 <= e
    BY <2>2
  <2>4. QED
    BY <2>1, <2>3
<1>5. m < n
  <2>1. PICK x, q, y : x = n + BLOCK_SIZE - 1 /\ q = x \div BLOCK_SIZE /\ y = q * BLOCK_SIZE
    OBVIOUS
  <2>2. x \in Nat /\ Blocks(from, to) = q
    BY <1>1, <1>2, <2>1 DEF Blocks, CeilDiv
  <2>3. y \in 0 .. x /\ q \in Nat
    BY <1>2, <2>1, <2>2, DivTimes, DivMod
  <2>4. k + 1 <= q
    BY <1>2, <1>4, <2>2, <2>3
  <2>5. m + BLOCK_SIZE <= y
    <3>1. (k + 1) * BLOCK_SIZE <= q * BLOCK_SIZE
      BY <1>2, <2>3, <2>4
    <3>2. (k + 1) * BLOCK_SIZE = k * BLOCK_SIZE + BLOCK_SIZE
      BY <1>2
    <3>3. QED
      BY <1>1, <2>1, <3>1, <3>2
  <2>6. QED
    BY <1>2, <1>3, <2>1, <2>2, <2>3, <2>5
<1>6. lo = from + (1 + m) /\ lo \in Nat /\ from < lo /\ lo < to
  BY <1>1, <1>2, <1>3, <1>5 DEF IsBlock
<1>7. hi = (IF lo + BLOCK_SIZE <= to THEN lo + BLOCK_SIZE ELSE to) /\ hi \in Nat /\ lo < hi /\ hi <= to
  BY <1>1, <1>2, <1>6 DEF IsBlock
<1>8. ASSUME NEW cells
      PROVE  ChunkOf(cells, From(d), To(d), 1 + d[3] * BLOCK_SIZE, BLOCK_SIZE) = Slice(cells, lo, hi)
  <2>1. PICK a : a = 1 + d[3] * BLOCK_SIZE
    OBVIOUS
  <2>2. lo = From(d) + a /\ hi = IF From(d) + a + BLOCK_SIZE <= To(d) THEN From(d) + a + BLOCK_SIZE ELSE To(d)
    BY <2>1 DEF IsBlock
  <2>3. QED
    BY <2>1, <2>2 DEF ChunkOf
<1>9. ASSUME NEW i \in from + 1 .. to - 1
      PROVE  BlockOf(d[2], i) = k <=> i \in lo .. hi - 1
  <2>1. d[2][1] = from
    BY <1>1 DEF From
  <2>2. i - from - 1 \in Nat /\ i \in Int
    BY <1>2
  <2>3. BlockOf(d[2], i) = (i - from - 1) \div BLOCK_SIZE
    BY <2>1 DEF BlockOf
  <2>4. BlockOf(d[2], i) = k <=> m <= i - from - 1 /\ i - from - 1 < m + BLOCK_SIZE
    BY <1>1, <1>2, <2>2, <2>3, DivIs
  <2>5. i \in lo .. hi - 1 <=> m <= i - from - 1 /\ i - from - 1 < m + BLOCK_SIZE
    BY <1>1, <1>2, <1>3, <1>6, <1>7, <2>2
  <2>6. QED
    BY <2>4, <2>5
<1>10. QED
  BY <1>1, <1>4, <1>6, <1>7, <1>8, <1>9

(* What a thread reserves for its block, and what is left of the segment.  *)
Reserves(t, b, d, s, c, new, lo, hi) ==
  /\ new = Partitioned(Slice(Source(d), lo, hi), pivot[t], From(d), To(d), c)
  /\ Slice(Source(d), lo, hi) \in Seq(Int) /\ Len(Slice(Source(d), lo, hi)) = hi - lo
  /\ b \in References(s) /\ d \in Tasks /\ Kind(d) = "partition" /\ s \in Sorts
  /\ BlocksAt(b) = {d[3]}
  /\ \A i \in s[1] + 1 .. s[2] - 1 : BlockOf(s, i) = d[3] <=> i \in lo .. hi - 1
  /\ lo \in Nat /\ hi \in Nat /\ s[1] < lo /\ lo < hi /\ hi <= s[2]
  /\ lo .. hi - 1 \subseteq Unreserved(s)
  /\ Ready(s) + Cardinality(Unreserved(s)) = s[2] - s[1] - 1

(* The places that the fetch_add reserves are free, and the places left to *)
(* reserve are those of the other blocks.                                  *)
LEMMA ReservedAre ==
  ASSUME SortingInv, NEW t \in Threads, ReservePlaces(t),
         NEW b, b = <<"thread", t, 1>>, NEW d, d = task[t], NEW s, s = d[2],
         NEW c, c = counters[s], NEW new, new = values'[t],
         NEW lo, NEW hi, IsBlock(d, lo, hi)
  PROVE  Reserves(t, b, d, s, c, new, lo, hi)
<1>1. TypeOK /\ pc[t] = "partition"
  BY DEF SortingInv, ReservePlaces
<1>2. pc[t] \in TaskLabels \ PushLabels /\ pc[t] \in Labels \ ClaimLabels
  BY <1>1 DEF Labels, TaskLabels, PartitionLabels, PushLabels, ClaimLabels
<1>3. /\ d \in Tasks /\ Kind(d) = "partition" /\ s \in Sorts /\ s[1] = From(d) /\ s[2] = To(d)
      /\ d[3] < OwnEnd(d)
  BY <1>1, <1>2, OwnTask, TasksAre DEF KindsAt, SortingInv, ThreadInv, From, To
<1>4. /\ lo \in Nat /\ hi \in Nat /\ s[1] < lo /\ lo < hi /\ hi <= s[2]
      /\ OwnEnd(d) = d[3] + 1
      /\ ChunkOf(Source(d), From(d), To(d), 1 + d[3] * BLOCK_SIZE, BLOCK_SIZE) = Slice(Source(d), lo, hi)
      /\ \A i \in s[1] + 1 .. s[2] - 1 : BlockOf(s, i) = d[3] <=> i \in lo .. hi - 1
  <2>1. PICK cells : cells = Source(d)
    OBVIOUS
  <2>2. /\ lo \in Nat /\ hi \in Nat /\ From(d) < lo /\ lo < hi /\ hi <= To(d)
        /\ OwnEnd(d) = d[3] + 1
        /\ ChunkOf(cells, From(d), To(d), 1 + d[3] * BLOCK_SIZE, BLOCK_SIZE) = Slice(cells, lo, hi)
        /\ \A i \in From(d) + 1 .. To(d) - 1 : BlockOf(d[2], i) = d[3] <=> i \in lo .. hi - 1
    BY <1>1, <1>3, BlockIs
  <2>3. QED
    BY <1>3, <2>1, <2>2
<1>5. new = Partitioned(Slice(Source(d), lo, hi), pivot[t], From(d), To(d), c)
  BY <1>1, <1>4 DEF TypeOK, ReservePlaces
<1>6. Slice(Source(d), lo, hi) \in Seq(Int) /\ Len(Slice(Source(d), lo, hi)) = hi - lo
  <2>1. Source(d) \in [0 .. Len(input) - 1 -> Int] /\ Len(input) \in Nat
    BY <1>1, <1>3, SegmentIs, InputType
  <2>2. hi \in 0 .. Len(input) /\ lo <= hi
    BY <1>1, <1>3, <1>4, <2>1, TasksAre
  <2>3. PICK cells, n : cells = Source(d) /\ n = Len(input)
    OBVIOUS
  <2>4. lo \in Nat /\ hi \in 0 .. n /\ lo <= hi /\ n \in Nat /\ cells \in [0 .. n - 1 -> Int]
    BY <1>4, <2>1, <2>2, <2>3
  <2>5. Slice(cells, lo, hi) \in Seq(Int) /\ Len(Slice(cells, lo, hi)) = hi - lo
    BY <2>4, SliceIs
  <2>6. QED
    BY <2>3, <2>5
<1>7. b \in References(s) /\ BlocksAt(b) = {d[3]}
  <2>1. b \in Places
    BY <1>2, OwnPlace
  <2>2. TaskAt(b) = d /\ Stage(b) = "partition" /\ Refers(b)
    BY <1>1, <1>3, TasksAt DEF Refers, PartitionLabels
  <2>3. d[3] \in Nat
    BY <1>1, <1>3, TasksAre
  <2>4. BlocksAt(b) = d[3] .. OwnEnd(d) - 1
    BY <2>2 DEF BlocksAt, BlocksOf
  <2>5. BlocksAt(b) = {d[3]}
    BY <1>4, <2>3, <2>4
  <2>6. QED
    BY <2>1, <2>2, <2>5, ReferencesAre
<1>8. lo .. hi - 1 \subseteq Unreserved(s)
  <2>1. SUFFICES ASSUME NEW i \in lo .. hi - 1 PROVE i \in Unreserved(s)
    OBVIOUS
  <2>2. s[1] \in Nat /\ s[2] \in Nat
    BY <1>1, <1>3, InputType DEF Sorts
  <2>3. i \in s[1] + 1 .. s[2] - 1
    BY <1>4, <2>2
  <2>4. BlockOf(s, i) \in BlocksAt(b)
    BY <1>4, <1>7, <2>3
  <2>5. QED
    BY <1>7, <2>3, <2>4 DEF Unreserved
<1>9. Ready(s) + Cardinality(Unreserved(s)) = s[2] - s[1] - 1
  BY <1>3, <1>7 DEF SortingInv, PlacesInv, ElementsCounted
<1>10. QED
  BY <1>3, <1>4, <1>5, <1>6, <1>7, <1>8, <1>9 DEF Reserves

(* Reserving places keeps them apart from those of other threads.          *)
LEMMA ReservePlacesKeeps ==
  ASSUME SortingInv, NEW t \in Threads, ReservePlaces(t)
  PROVE  SortingInv'
<1>1. PICK b, d, s, c, new : /\ b = <<"thread", t, 1>> /\ d = task[t] /\ s = d[2]
                             /\ c = counters[s] /\ new = values'[t]
  OBVIOUS
<1>2. PICK lo, hi : IsBlock(d, lo, hi)
  BY DEF IsBlock
<1>3. /\ pc[t] = "partition" /\ Goto(t, "copyLeft")
      /\ counters' = [counters EXCEPT ![s] = c + Reserved(new)]
      /\ values' = [values EXCEPT ![t] = new]
      /\ workers' = workers /\ finished' = finished /\ other' = other /\ input' = input
      /\ subtasks' = subtasks /\ A' = A /\ B' = B /\ pivot' = pivot /\ task' = task
      /\ pending_tasks' = pending_tasks /\ reference_count' = reference_count
  BY <1>1 DEF SortingInv, TypeOK, ReservePlaces, arrays
<1>4. /\ new = Partitioned(Slice(Source(d), lo, hi), pivot[t], From(d), To(d), c)
      /\ Slice(Source(d), lo, hi) \in Seq(Int) /\ Len(Slice(Source(d), lo, hi)) = hi - lo
      /\ b \in References(s) /\ d \in Tasks /\ Kind(d) = "partition" /\ s \in Sorts
      /\ BlocksAt(b) = {d[3]}
      /\ \A i \in s[1] + 1 .. s[2] - 1 : BlockOf(s, i) = d[3] <=> i \in lo .. hi - 1
      /\ lo \in Nat /\ hi \in Nat /\ s[1] < lo /\ lo < hi /\ hi <= s[2]
      /\ lo .. hi - 1 \subseteq Unreserved(s)
      /\ Ready(s) + Cardinality(Unreserved(s)) = s[2] - s[1] - 1
  <2>1. Reserves(t, b, d, s, c, new, lo, hi)
    BY <1>1, <1>2, ReservedAre
  <2>2. QED
    BY <2>1 DEF Reserves
<1>5. pc[t] \in TaskLabels \ PushLabels /\ pc[t] \in Labels \ ClaimLabels /\ ~Copying(t)
  BY <1>3 DEF Labels, TaskLabels, PartitionLabels, PushLabels, ClaimLabels, Copying
<1>6. /\ TypeOK /\ subtasks[t] = <<>> /\ pending_tasks # 0 /\ d # NoTask
      /\ s[1] = From(d) /\ s[2] = To(d) /\ s[1] \in Nat /\ s[2] \in Nat /\ s[2] < HALF
      /\ HALF \in Nat \ {0} /\ d[3] < OwnEnd(d)
  <2>1. TypeOK
    BY DEF SortingInv
  <2>2. subtasks[t] = <<>> /\ pending_tasks # 0 /\ d # NoTask
    BY <1>1, <1>5, OwnTask
  <2>3. s[1] \in 0 .. Len(input) /\ s[2] \in 0 .. Len(input) /\ s[1] = From(d) /\ s[2] = To(d)
    BY <1>1, <1>4, <2>1, TasksAre DEF From, To
  <2>4. d[3] < OwnEnd(d)
    BY <1>1, <1>3 DEF SortingInv, ThreadInv
  <2>5. QED
    BY <2>1, <2>2, <2>3, <2>4, InputType
<1>7. /\ pc' \in [Threads -> Labels] /\ pc'[t] = "copyLeft" /\ "copyLeft" \in Labels
      /\ \A u \in Threads \ {t} : pc'[u] = pc[u]
  BY <1>3, Goes DEF Labels, TaskLabels, PartitionLabels, SortingInv
<1>8. PICK p, q, x, y, U, from, to : /\ p = LeftCount(c) /\ q = RightCount(c)
                                     /\ x = Len(new.left) /\ y = Len(new.right)
                                     /\ U = Unreserved(s) /\ from = s[1] /\ to = s[2]
  OBVIOUS
<1>9. /\ new.left \in Seq(Int) /\ new.right \in Seq(Int) /\ x \in Nat /\ y \in Nat /\ x + y = hi - lo
      /\ new.left_offset = from + p /\ new.right_offset = to - y - q
      /\ new = [left |-> new.left, right |-> new.right, left_offset |-> new.left_offset,
                right_offset |-> new.right_offset]
  <2>1. PICK block : block = Slice(Source(d), lo, hi)
    OBVIOUS
  <2>2. block \in Seq(Int) /\ Len(block) = hi - lo
    BY <1>4, <2>1
  <2>3. pivot[t] \in Int
    BY <1>6 DEF TypeOK
  <2>4. new = Partitioned(block, pivot[t], From(d), To(d), c)
    BY <1>4, <2>1
  <2>5. PICK v, e, f : v = pivot[t] /\ e = From(d) /\ f = To(d)
    OBVIOUS
  <2>6. /\ new.left \in Seq(Int) /\ new.right \in Seq(Int)
        /\ Len(new.left) \in Nat /\ Len(new.right) \in Nat
        /\ Len(new.left) + Len(new.right) = Len(block)
        /\ new.left_offset = e + LeftCount(c)
        /\ new.right_offset = f - Len(new.right) - RightCount(c)
        /\ new = [left |-> new.left, right |-> new.right, left_offset |-> new.left_offset,
                  right_offset |-> new.right_offset]
    <3>1. /\ block \in Seq(Int) /\ v \in Int /\ new = Partitioned(block, v, e, f, c)
      BY <2>2, <2>3, <2>4, <2>5
    <3>2. PartsReserved(new, block, e, f, c)
      BY <3>1, PartitionedIs
    <3>3. QED
      BY <3>2 DEF PartsReserved
  <2>7. e = from /\ f = to
    BY <1>6, <1>8, <2>5
  <2>8. QED
    BY <1>8, <2>2, <2>6, <2>7
<1>10. c \in Nat /\ p \in Nat /\ q \in Nat /\ Ready(s) = p + q
  <2>1. s \in Sorts /\ TypeOK
    BY <1>4, <1>6
  <2>2. c \in Nat /\ p \in 0 .. HALF - 1 /\ q \in Nat /\ HALF \in Nat
    BY <1>1, <1>8, <2>1, CountersAre
  <2>3. Ready(s) = p + q
    BY <1>1, <1>8 DEF Ready
  <2>4. QED
    BY <2>2, <2>3
<1>11. /\ IsFiniteSet(U) /\ Cardinality(U) \in Nat /\ lo .. hi - 1 \subseteq U
       /\ p + q + Cardinality(U) = to - from - 1
       /\ IsFiniteSet(U \ (lo .. hi - 1)) /\ Cardinality(U \ (lo .. hi - 1)) = Cardinality(U) - (hi - lo)
       /\ Cardinality(U \ (lo .. hi - 1)) \in Nat
  <2>1. /\ IsFiniteSet(U) /\ Cardinality(U) \in Nat /\ lo .. hi - 1 \subseteq U
        /\ p + q + Cardinality(U) = to - from - 1
    BY <1>4, <1>6, <1>8, <1>10, UnreservedAre
  <2>2. IsFiniteSet(lo .. hi - 1) /\ Cardinality(lo .. hi - 1) = hi - lo
    <3>1. IsFiniteSet(lo .. hi - 1) /\ Cardinality(lo .. hi - 1) = IF lo > hi - 1 THEN 0 ELSE hi - 1 - lo + 1
      <4>1. lo \in Int /\ hi - 1 \in Int
        BY <1>4
      <4>2. QED
        BY <4>1, FS_Interval
    <3>2. lo \in Nat /\ hi \in Nat /\ lo < hi
      BY <1>4
    <3>3. QED
      BY <3>1, <3>2
  <2>3. PICK V : V = lo .. hi - 1
    OBVIOUS
  <2>4. /\ IsFiniteSet(U \ V) /\ Cardinality(U \ V) = Cardinality(U) - Cardinality(U \cap V)
        /\ Cardinality(U \ V) \in Nat
    BY <2>1, <2>2, <2>3, FS_Difference, FS_CardinalityType
  <2>5. U \cap V = V
    BY <2>1, <2>3
  <2>6. QED
    BY <2>1, <2>2, <2>3, <2>4, <2>5
<1>12. from \in Nat /\ to \in Nat /\ to < HALF /\ p + x + q + y <= to - from - 1
  <2>1. PICK n, m : n = Cardinality(U) /\ m = hi - lo
    OBVIOUS
  <2>2. n \in Nat /\ n - m \in Nat /\ p + q + n = to - from - 1 /\ x + y = m
    BY <1>9, <1>11, <2>1
  <2>3. from \in Nat /\ to \in Nat /\ to < HALF /\ m \in Int
    BY <1>4, <1>6, <1>8, <2>1
  <2>4. p \in Nat /\ q \in Nat /\ x \in Nat /\ y \in Nat
    BY <1>9, <1>10
  <2>5. QED
    BY <2>2, <2>3, <2>4
<1>13. /\ counters'[s] \in Nat
       /\ LeftCount(counters'[s]) = p + x /\ RightCount(counters'[s]) = q + y
       /\ \A r \in Sorts : r # s => counters'[r] = counters[r]
       /\ counters' \in [Sorts -> Nat]
  <2>1. p + x < HALF /\ HALF \in Nat \ {0} /\ p \in Nat /\ x \in Nat /\ y \in Nat /\ c \in Nat
    <3>1. HALF \in Nat \ {0}
      BY <1>6
    <3>2. p \in Nat /\ q \in Nat /\ c \in Nat
      BY <1>10
    <3>3. x \in Nat /\ y \in Nat
      BY <1>9
    <3>4. QED
      BY <1>12, <3>1, <3>2, <3>3
  <2>2. PICK e : e = c + (y * HALF + x)
    OBVIOUS
  <2>3. e \in Nat /\ LeftCount(e) = p + x /\ RightCount(e) = q + y
    <3>1. HALF \in Nat \ {0} /\ x \in Nat /\ y \in Nat /\ c \in Nat /\ LeftCount(c) + x < HALF
      BY <1>8, <2>1
    <3>2. /\ c + (y * HALF + x) \in Nat
          /\ LeftCount(c + (y * HALF + x)) = LeftCount(c) + x
          /\ RightCount(c + (y * HALF + x)) = RightCount(c) + y
      BY <3>1, CountersAdd
    <3>3. QED
      BY <1>8, <2>2, <3>2
  <2>4. counters' = [counters EXCEPT ![s] = e] /\ counters \in [Sorts -> Nat]
    BY <1>3, <1>6, <1>8, <2>2 DEF Reserved, TypeOK
  <2>5. QED
    BY <1>4, <2>3, <2>4
<1>14. /\ new \in BlockValues /\ values' \in [Threads -> BlockValues]
       /\ \A u \in Threads \ {t} : values'[u] = values[u]
  <2>1. from + p \in Nat /\ to - y - q \in Nat
    <3>1. p \in Nat /\ q \in Nat /\ x \in Nat /\ y \in Nat
      BY <1>9, <1>10
    <3>2. QED
      BY <1>12, <3>1
  <2>2. new \in BlockValues
    BY <1>9, <2>1 DEF BlockValues
  <2>3. QED
    BY <1>3, <1>6, <2>2 DEF TypeOK
<1>15. TypeOK'
  BY <1>3, <1>6, <1>7, <1>13, <1>14, SameTypes DEF TypeOK, Labels
<1>16. Aside(t)
  BY <1>3, <1>7, <1>14 DEF Aside
<1>17. Mine(t) = {b} /\ b \in Places
  BY <1>1, <1>5, OwnPlace
<1>18. TaskAt(b) = d /\ Stage(b) = "partition" /\ Refers(b) /\ Region(b) = From(d) .. To(d) - 1
       /\ b \in Partitions
  BY <1>1, <1>3, <1>4, <1>17, TasksAt DEF Refers, Region, RegionOf, PartitionLabels, Partitions
<1>19. /\ TaskAt(b)' = d /\ Refers(b)' /\ Region(b)' = From(d) .. To(d) - 1 /\ BlocksAt(b)' = {}
       /\ Kind(TaskAt(b))' = "partition"
  BY <1>1, <1>3, <1>4, <1>7, TasksAtThen DEF Refers, Region, RegionOf, BlocksAt, BlocksOf,
     PartitionLabels, Kind, From, To
<1>20. ASSUME NEW a \in Partitions, ~Refers(a)
       PROVE  TaskAt(a)[2] \in Sorts /\ TaskAt(a)[2] # s
  BY <1>1, <1>6, <1>18, <1>20, OnlyOne, TaskAtType, TasksAre DEF Partitions, SortingInv
<1>21. \A a \in Places \ {b} : KeptAs(a, a)
  <2>1. SUFFICES ASSUME NEW a \in Places \ {b} PROVE KeptAs(a, a)
    OBVIOUS
  <2>2. TaskAt(a)' = TaskAt(a) /\ Stage(a)' = Stage(a)
    BY <1>3, <1>16, <1>17, OtherPlaces
  <2>3. CASE Stage(a) \notin {"pushLeft", "right", "pushRight", "release"}
    BY <2>2, <2>3, KeptHere
  <2>4. CASE Stage(a) \in {"pushLeft", "right", "pushRight", "release"} /\ Kind(TaskAt(a)) = "partition"
    BY <1>13, <1>20, <2>2, <2>4, KeptHere DEF Partitions, Refers, PartitionLabels
  <2>5. CASE Stage(a) \in {"pushLeft", "right", "pushRight", "release"} /\ Kind(TaskAt(a)) # "partition"
    <3>1. Stage(a) \notin {"pushLeft", "right"}
      <4>1. PICK u \in Threads : Stage(a) = pc[u] /\ TaskAt(a) = task[u] /\ Kind(task[u]) \in KindsAt(pc[u])
        BY <2>5, StagesAre
      <4>2. QED
        BY <2>5, <4>1 DEF KindsAt
    <3>2. QED
      BY <2>2, <2>5, <3>1, KeptHere
  <2>6. QED
    BY <2>3, <2>4, <2>5
<1>22. Mine(t)' = {b}
  BY <1>1, <1>3, <1>6, <1>7, MineAre DEF TaskLabels, PartitionLabels
<1>23. PendingCountsTasks'
  <2>1. Singles' = Singles
    <3>1. Singles' = (Singles \ {b}) \cup {a \in Mine(t)' : Kind(TaskAt(a))' # "partition"}
      BY <1>3, <1>16, <1>17, <1>21, TasksThen
    <3>2. {a \in Mine(t)' : Kind(TaskAt(a))' # "partition"} = {}
      BY <1>19, <1>22
    <3>3. b \notin Singles
      BY <1>18 DEF Singles
    <3>4. QED
      BY <3>1, <3>2, <3>3
  <2>2. Objects' = Objects
    <3>1. Objects' = {TaskAt(a)[2] : a \in Partitions \ {b}}
                       \cup {(TaskAt(a)[2])' : a \in {r \in Mine(t)' : Kind(TaskAt(r))' = "partition"}}
      BY <1>3, <1>16, <1>17, <1>21, TasksThen
    <3>2. {r \in Mine(t)' : Kind(TaskAt(r))' = "partition"} = {b}
      BY <1>19, <1>22
    <3>3. (TaskAt(b)[2])' = TaskAt(b)[2]
      BY <1>18, <1>19
    <3>4. QED
      BY <1>18, <3>1, <3>2, <3>3 DEF Objects
  <2>3. QED
    BY <1>3, <2>1, <2>2 DEF SortingInv, PlacesInv, PendingCountsTasks
<1>24. ASSUME NEW r \in Sorts, r # s
       PROVE  References(r)' = References(r) /\ Unreserved(r)' = Unreserved(r)
  <2>1. ~(Refers(b) /\ TaskAt(b)[2] = r)
    BY <1>1, <1>18, <1>24
  <2>2. \A a \in Mine(t)' : ~(Refers(a)' /\ (TaskAt(a)[2])' = r)
    BY <1>1, <1>19, <1>22, <1>24
  <2>3. QED
    BY <1>3, <1>16, <1>17, <1>21, <2>1, <2>2, OtherSorts
<1>25. /\ References(s)' = References(s)
       /\ \A a \in References(s) \ {b} : BlocksAt(a)' = BlocksAt(a)
  <2>1. /\ References(s)' = (References(s) \ {b})
                              \cup {a \in Mine(t)' : Refers(a)' /\ (TaskAt(a)[2])' = s}
        /\ \A a \in References(s) \ {b} : BlocksAt(a)' = BlocksAt(a)
    BY <1>3, <1>16, <1>17, <1>21, ReferencesThen
  <2>2. {a \in Mine(t)' : Refers(a)' /\ (TaskAt(a)[2])' = s} = {b}
    BY <1>1, <1>19, <1>22
  <2>3. QED
    BY <1>4, <2>1, <2>2
<1>26. Unreserved(s)' = U \ (lo .. hi - 1)
  <2>1. ASSUME NEW i \in s[1] + 1 .. s[2] - 1
        PROVE  (\E a \in References(s)' : BlockOf(s, i) \in BlocksAt(a)')
                 <=> (\E a \in References(s) : BlockOf(s, i) \in BlocksAt(a)) /\ i \notin lo .. hi - 1
    <3>1. BlockOf(s, i) = d[3] <=> i \in lo .. hi - 1
      BY <1>4
    <3>2. ASSUME NEW a \in References(s)', BlockOf(s, i) \in BlocksAt(a)'
          PROVE  a \in References(s) /\ BlockOf(s, i) \in BlocksAt(a) /\ i \notin lo .. hi - 1
      BY <1>4, <1>19, <1>25, <3>1, <3>2, ReferencesAre DEF SameSort, SortingInv, PlacesInv,
         BlocksApart
    <3>3. ASSUME NEW a \in References(s), BlockOf(s, i) \in BlocksAt(a), i \notin lo .. hi - 1
          PROVE  a \in References(s)' /\ BlockOf(s, i) \in BlocksAt(a)'
      BY <1>4, <1>25, <3>1, <3>3
    <3>4. QED
      BY <3>2, <3>3
  <2>2. Unreserved(s)' = {i \in s[1] + 1 .. s[2] - 1 : \E a \in References(s)' : BlockOf(s, i) \in BlocksAt(a)'}
    BY DEF Unreserved, BlockOf
  <2>3. U = {i \in s[1] + 1 .. s[2] - 1 : \E a \in References(s) : BlockOf(s, i) \in BlocksAt(a)}
    BY <1>8 DEF Unreserved
  <2>4. QED
    BY <2>1, <2>2, <2>3
<1>27. /\ \A r \in Sorts : r # s => Ready(r)' = Ready(r)
       /\ Ready(s)' = p + x + (q + y)
  BY <1>13 DEF Ready
<1>28. PlacesInv'
  <2>1. Sorts' = Sorts
    BY <1>3, SameTypes
  <2>2. ReferencesCounted'
    BY <1>3, <1>24, <1>25, <2>1 DEF SortingInv, PlacesInv, ReferencesCounted
  <2>3. ElementsCounted'
    <3>1. ASSUME NEW r \in Sorts, References(r)' # {}
          PROVE  Ready(r)' + Cardinality(Unreserved(r)') = r[2] - r[1] - 1
      <4>1. CASE r = s
        <5>1. PICK n, m : n = Cardinality(U) /\ m = hi - lo
          OBVIOUS
        <5>2. n \in Nat /\ p + q + n = to - from - 1 /\ x + y = m /\ Cardinality(Unreserved(s)') = n - m
          BY <1>9, <1>11, <1>26, <5>1
        <5>3. p \in Nat /\ q \in Nat /\ x \in Nat /\ y \in Nat
          BY <1>9, <1>10
        <5>4. Ready(s)' + Cardinality(Unreserved(s)') = to - from - 1
          BY <1>27, <5>2, <5>3
        <5>5. QED
          BY <1>8, <4>1, <5>4
      <4>2. CASE r # s
        BY <1>24, <1>27, <3>1, <4>2 DEF SortingInv, PlacesInv, ElementsCounted
      <4>3. QED
        BY <4>1, <4>2
    <3>2. QED
      BY <2>1, <3>1 DEF ElementsCounted
  <2>4. RegionsApart' /\ BlocksApart'
    <3>1. \A a \in Mine(t)' : Region(a)' \subseteq Region(b)
      BY <1>18, <1>19, <1>22
    <3>2. \A a \in Mine(t)' : Refers(a)' =>
            IF Refers(b)
              THEN (TaskAt(a)[2])' = TaskAt(b)[2] /\ BlocksAt(a)' \subseteq BlocksAt(b)
              ELSE \A e \in Places \ {b} : ~(Refers(e) /\ TaskAt(e)[2] = (TaskAt(a)[2])')
      BY <1>18, <1>19, <1>22
    <3>3. \A a \in Places \ {b} : SameSort(a, b) => \A e \in Mine(t)' : Refers(e)'
      BY <1>19, <1>22
    <3>4. \A a, e \in Mine(t)' : a = e
      BY <1>22
    <3>5. QED
      BY <1>3, <1>16, <1>17, <1>21, <3>1, <3>2, <3>3, <3>4, Apart DEF SortingInv
  <2>5. ~ResetLeft'
    <3>1. SUFFICES ASSUME NEW a \in Places', Kind(TaskAt(a))' = "reset" PROVE FALSE
      BY DEF ResetLeft
    <3>2. a \notin Mine(t)'
      BY <1>19, <1>22, <3>1
    <3>3. a \in Places /\ TaskAt(a)' = TaskAt(a)
      BY <1>3, <1>16, <1>17, <3>2, OtherPlaces
    <3>4. Kind(TaskAt(a)) = "reset"
      BY <3>1, <3>3 DEF Kind
    <3>5. Kind(TaskAt(b)) = "reset"
      BY <1>17, <3>3, <3>4 DEF SortingInv, PlacesInv, ResetLeft
    <3>6. QED
      BY <1>18, <3>5 DEF Partitions
  <2>6. QED
    BY <1>23, <2>2, <2>3, <2>4, <2>5 DEF PlacesInv
<1>29. /\ LeftPlaces(new) \subseteq LeftArea(s)' /\ RightPlaces(new) \subseteq RightArea(s)'
       /\ LeftArea(s) \subseteq LeftArea(s)' /\ RightArea(s) \subseteq RightArea(s)'
       /\ PlacesOf(new) \cap (LeftArea(s) \cup RightArea(s)) = {}
  <2>1. from = s[1] /\ to = s[2]
    BY <1>8
  <2>2. /\ p + x + q + y <= to - from /\ from \in Nat /\ to \in Nat
        /\ p \in Nat /\ q \in Nat /\ x \in Nat /\ y \in Nat
    <3>1. p \in Nat /\ q \in Nat /\ x \in Nat /\ y \in Nat
      BY <1>9, <1>10
    <3>2. QED
      BY <1>12, <3>1
  <2>3. /\ from + p .. from + p + x - 1 \subseteq from .. from + (p + x) - 1
        /\ to - y - q .. to - y - q + y - 1 \subseteq to - (q + y) .. to - 1
        /\ from .. from + p - 1 \subseteq from .. from + (p + x) - 1
        /\ to - q .. to - 1 \subseteq to - (q + y) .. to - 1
        /\ ((from + p .. from + p + x - 1) \cup (to - y - q .. to - y - q + y - 1))
             \cap ((from .. from + p - 1) \cup (to - q .. to - 1)) = {}
    BY <2>2, PlacesReserved
  <2>4. /\ LeftPlaces(new) = from + p .. from + p + x - 1
        /\ RightPlaces(new) = to - y - q .. to - y - q + y - 1
    BY <1>8, <1>9, <2>1 DEF LeftPlaces, RightPlaces
  <2>5. LeftArea(s) = from .. from + p - 1 /\ RightArea(s) = to - q .. to - 1
    BY <1>1, <1>8, <2>1 DEF LeftArea, RightArea
  <2>6. LeftArea(s)' = from .. from + (p + x) - 1 /\ RightArea(s)' = to - (q + y) .. to - 1
    BY <1>13, <2>1 DEF LeftArea, RightArea
  <2>7. QED
    BY <2>3, <2>4, <2>5, <2>6 DEF PlacesOf
<1>30. ThreadInv(t)'
  <2>1. Copying(t)' /\ "copyLeft" \notin ClaimLabels \cup PushLabels \cup Complete
        /\ Kind(d) \in KindsAt("copyLeft")
    BY <1>4, <1>7 DEF Copying, PushLabels, Complete, ClaimLabels, KindsAt
  <2>2. task'[t] = d /\ task'[t][2] = s
    BY <1>1, <1>3
  <2>3. (IF Copying(t) THEN /\ LeftPlaces(values[t]) \subseteq LeftArea(task[t][2])
                            /\ RightPlaces(values[t]) \subseteq RightArea(task[t][2])
         ELSE values[t] = NoValues)'
    BY <1>1, <1>29, <2>1, <2>2 DEF LeftPlaces, RightPlaces, LeftArea, RightArea
  <2>4. (pc[t] \in {"partition", "copyLeft", "copyRight"} => task[t][3] < OwnEnd(task[t]))'
    BY <1>6, <2>2 DEF OwnEnd
  <2>5. QED
    BY <1>3, <1>6, <1>7, <2>1, <2>2, <2>3, <2>4 DEF ThreadInv, Kind, KindsAt
<1>31. (\A u \in Threads : ThreadInv(u)') /\ CopiesApart'
  <2>1. ASSUME NEW u \in Threads \ {t}, pc[u] \in Complete, Kind(task[u]) = "partition"
        PROVE  Ready(task[u][2])' = Ready(task[u][2])
    <3>1. PICK a : a = <<"thread", u, 1>>
      OBVIOUS
    <3>2. pc[u] \in TaskLabels /\ pc[u] \notin PartitionLabels
      BY <2>1 DEF Complete, TaskLabels, PartitionLabels
    <3>3. a \in Partitions /\ ~Refers(a) /\ TaskAt(a) = task[u]
      BY <2>1, <3>1, <3>2, PlacesByKind, TasksAt DEF Partitions, Refers
    <3>4. task[u][2] \in Sorts /\ task[u][2] # s
      BY <1>20, <3>3
    <3>5. PICK r : r = task[u][2]
      OBVIOUS
    <3>6. Ready(r)' = Ready(r) /\ task'[u] = task[u]
      BY <1>3, <1>27, <3>4, <3>5
    <3>7. QED
      BY <3>5, <3>6 DEF Ready
  <2>2. ASSUME NEW u \in Threads \ {t}, Copying(u)
        PROVE  /\ LeftArea(task[u][2]) \subseteq LeftArea(task[u][2])'
               /\ RightArea(task[u][2]) \subseteq RightArea(task[u][2])'
               /\ task'[t][2] = task[u][2] => PlacesOf(values'[t]) \cap PlacesOf(values[u]) = {}
    <3>1. PICK r : r = task[u][2]
      OBVIOUS
    <3>2. r \in Sorts
      BY <1>6, <2>2, <3>1, OwnTask, TasksAre DEF Copying, Labels, TaskLabels, PartitionLabels,
         ClaimLabels, KindsAt
    <3>3. LeftArea(r) \subseteq LeftArea(r)' /\ RightArea(r) \subseteq RightArea(r)'
      <4>1. CASE r = s
        BY <1>29, <4>1
      <4>2. CASE r # s
        BY <1>13, <3>2, <4>2 DEF LeftArea, RightArea
      <4>3. QED
        BY <4>1, <4>2
    <3>4. task' = task /\ LeftArea(task[u][2])' = LeftArea(r)' /\ RightArea(task[u][2])' = RightArea(r)'
      BY <1>3, <3>1 DEF LeftArea, RightArea
    <3>5. task'[t][2] = r => PlacesOf(values'[t]) \cap PlacesOf(values[u]) = {}
      <4>1. SUFFICES ASSUME r = s PROVE PlacesOf(new) \cap PlacesOf(values[u]) = {}
        BY <1>1, <3>4
      <4>2. LeftPlaces(values[u]) \subseteq LeftArea(s) /\ RightPlaces(values[u]) \subseteq RightArea(s)
        BY <2>2, <3>1, <4>1 DEF SortingInv, ThreadInv
      <4>3. QED
        BY <1>29, <4>2 DEF PlacesOf
    <3>6. QED
      BY <3>1, <3>3, <3>4, <3>5
  <2>3. QED
    BY <1>16, <1>30, <2>1, <2>2, ThreadsGo DEF SortingInv
<1>32. EndingInv'
  BY <1>3, <1>6, <1>7, EndsWith DEF Ending, SortingInv
<1>33. QED
  BY <1>15, <1>28, <1>31, <1>32 DEF SortingInv
-----------------------------------------------------------------------------
(* The task that create_task makes: on its blocks, if it is a partition.   *)
IsNew(new, from, to, flipped) ==
  /\ new = NewTask(from, to, flipped) /\ new \in Tasks
  /\ Kind(new) \in {"sequential", "recursion", "partition"}
  /\ new[2] = <<from, to, flipped>> /\ new[2] \in Sorts /\ From(new) = from /\ To(new) = to
  /\ Kind(new) = "partition" =>
       /\ new[3] = 0
       /\ \A i \in from + 1 .. to - 1 : BlockOf(<<from, to, flipped>>, i) \in 0 .. new[4] - 1

(* The task that create_task makes is on the segment it was given.         *)
LEMMA NewTaskIs ==
  ASSUME TypeOK, NEW from \in 0 .. Len(input), NEW to \in 0 .. Len(input), NEW flipped \in BOOLEAN,
         to - from >= 2
  PROVE  IsNew(NewTask(from, to, flipped), from, to, flipped)
<1>1. PICK s, new : s = <<from, to, flipped>> /\ new = NewTask(from, to, flipped)
  OBVIOUS
<1>2. from \in Nat /\ to \in Nat /\ BLOCK_SIZE \in Nat \ {0} /\ Len(input) \in Nat
      /\ SEQUENTIAL_CUTOFF \in Nat /\ from < to
  BY InputType, QuicksortDequeAssumption
<1>3. s \in Sorts /\ s[1] = from /\ s[2] = to
  BY <1>1, <1>2, SortIs
<1>4. CASE \/ new = <<"sequential", s>>
           \/ new = <<"recursion", s>> /\ to - from >= SEQUENTIAL_CUTOFF
  <2>1. new \in Tasks
    BY <1>3, <1>4, SingleTask
  <2>2. Kind(new) \in {"sequential", "recursion"} /\ new[2] = s
    BY <1>4 DEF Kind
  <2>3. From(new) = from /\ To(new) = to
    BY <1>3, <2>2 DEF From, To
  <2>4. QED
    BY <1>1, <1>3, <2>1, <2>2, <2>3 DEF IsNew
<1>5. CASE new = <<"partition", s, 0, Blocks(from, to)>>
  <2>1. PICK k, n : k = to - from - 1 /\ n = Blocks(from, to)
    OBVIOUS
  <2>2. /\ k \in Nat \ {0} /\ n \in 0 .. k /\ n \in Nat
        /\ \A j \in 0 .. k - 1 : j \div BLOCK_SIZE \in 0 .. n - 1
    <3>1. k \in Nat \ {0}
      BY <1>2, <2>1
    <3>2. CeilDiv(k, BLOCK_SIZE) = n
      BY <2>1 DEF Blocks
    <3>3. /\ CeilDiv(k, BLOCK_SIZE) \in 0 .. k
          /\ \A j \in 0 .. k - 1 : j \div BLOCK_SIZE \in 0 .. CeilDiv(k, BLOCK_SIZE) - 1
      BY <1>2, <3>1, CeilIs
    <3>4. QED
      BY <3>1, <3>2, <3>3
  <2>3. n \in 0 .. Len(input)
    BY <1>2, <2>1, <2>2
  <2>4. /\ new[1] = "partition" /\ new[2] = s /\ new[3] = 0 /\ new[4] = n
        /\ From(new) = from /\ To(new) = to
    BY <1>3, <1>5, <2>1 DEF From, To
  <2>5. new \in Tasks
    <3>1. new \in {"partition"} \X Sorts \X (0 .. Len(input)) \X (0 .. Len(input))
      BY <1>2, <1>3, <1>5, <2>1, <2>3
    <3>2. new[3] <= new[4] /\ new[4] <= Blocks(From(new), To(new))
      BY <2>1, <2>2, <2>4
    <3>3. QED
      BY <3>1, <3>2 DEF Tasks
  <2>6. ASSUME NEW i \in from + 1 .. to - 1 PROVE BlockOf(s, i) \in 0 .. new[4] - 1
    <3>1. i - from - 1 \in 0 .. k - 1
      BY <1>2, <2>1
    <3>2. BlockOf(s, i) = (i - from - 1) \div BLOCK_SIZE
      BY <1>3 DEF BlockOf
    <3>3. QED
      BY <2>2, <2>4, <3>1, <3>2
  <2>7. QED
    BY <1>1, <1>3, <2>4, <2>5, <2>6 DEF IsNew, Kind
<1>6. QED
  BY <1>1, <1>2, <1>4, <1>5 DEF NewTask
(* A segment that is made from the region of a task is of no other task.   *)
LEMMA Fresh ==
  ASSUME SortingInv, NEW b \in Partitions, ~Refers(b), NEW s \in Sorts, s # TaskAt(b)[2],
         s[1] .. s[2] - 1 \subseteq Region(b)
  PROVE  /\ \A p \in Partitions : TaskAt(p)[2] # s
         /\ References(s) = {}
<1>1. ASSUME NEW p \in Partitions, TaskAt(p)[2] = s PROVE FALSE
  <2>1. p # b /\ p \in Places /\ b \in Places /\ ~SameSort(p, b)
    BY <1>1 DEF Partitions, SameSort
  <2>2. Region(p) \cap Region(b) = {}
    BY <2>1 DEF SortingInv, PlacesInv, RegionsApart
  <2>3. Middle(TaskAt(p)) \in Region(p) /\ Region(p) \subseteq From(TaskAt(p)) .. To(TaskAt(p)) - 1
    BY MiddleIn
  <2>4. From(TaskAt(p)) = s[1] /\ To(TaskAt(p)) = s[2]
    BY <1>1 DEF From, To
  <2>5. QED
    BY <2>2, <2>3, <2>4
<1>2. References(s) = {}
  BY <1>1, ReferencesAre DEF Refers, Partitions
<1>3. QED
  BY <1>1, <1>2

(* What is known of the counters when a task was made.                     *)
ObjectMade(new) ==
  LET s == new[2]
  IN  /\ reference_count' \in [Sorts -> Nat] /\ counters' \in [Sorts -> Nat]
      /\ \A r \in Sorts : r # s \/ Kind(new) # "partition" =>
           reference_count'[r] = reference_count[r] /\ counters'[r] = counters[r]
      /\ Kind(new) = "partition" =>
           reference_count'[s] = 1 /\ LeftCount(counters'[s]) = 0 /\ RightCount(counters'[s]) = 0

(* A new Sort object has one reference and empty counters.                 *)
LEMMA ObjectIsMade ==
  ASSUME TypeOK, NEW new, new[2] \in Sorts,
         IF Kind(new) = "partition"
           THEN /\ reference_count' = [reference_count EXCEPT ![new[2]] = 1]
                /\ counters' = [counters EXCEPT ![new[2]] = 0]
           ELSE UNCHANGED objects
  PROVE  ObjectMade(new)
<1>1. reference_count \in [Sorts -> Nat] /\ counters \in [Sorts -> Nat]
  BY DEF TypeOK
<1>2. LeftCount(0) = 0 /\ RightCount(0) = 0
  BY InputType DEF LeftCount, RightCount
<1>3. CASE Kind(new) = "partition"
  BY <1>1, <1>2, <1>3 DEF ObjectMade
<1>4. CASE Kind(new) # "partition"
  BY <1>1, <1>4 DEF ObjectMade, objects
<1>5. QED
  BY <1>3, <1>4
(* The task of a part, made from the region of a partition task.           *)
MakesPart(t, l, from, to, flipped, new) ==
  /\ pc[t] \in {"left", "right"} /\ l \in {"pushLeft", "pushRight"} /\ Goto(t, l)
  /\ from \in 0 .. Len(input) /\ to \in 0 .. Len(input) /\ flipped \in BOOLEAN
  /\ IsNew(new, from, to, flipped) /\ new[2] # task[t][2]
  /\ pending_tasks' = pending_tasks + 1 /\ subtasks' = [subtasks EXCEPT ![t] = <<new>>]
  /\ ObjectMade(new) /\ input' = input
  /\ UNCHANGED <<workers, finished, other, task, arrays, local>>
  /\ from .. to - 1 \subseteq RegionOf(task[t], pc[t])
  /\ RegionOf(task[t], l) \subseteq RegionOf(task[t], pc[t])
  /\ (from .. to - 1) \cap RegionOf(task[t], l) = {}

(* A new task is counted and has a part of the array that its maker gives  *)
(* away.                                                                   *)
LEMMA CreatePartKeeps ==
  ASSUME SortingInv, NEW t \in Threads, NEW l, NEW from, NEW to, NEW flipped, NEW new,
         MakesPart(t, l, from, to, flipped, new)
  PROVE  SortingInv'
<1>. /\ pc[t] \in {"left", "right"} /\ l \in {"pushLeft", "pushRight"} /\ Goto(t, l)
     /\ from \in 0 .. Len(input) /\ to \in 0 .. Len(input) /\ flipped \in BOOLEAN
     /\ IsNew(new, from, to, flipped) /\ new[2] # task[t][2]
     /\ pending_tasks' = pending_tasks + 1 /\ subtasks' = [subtasks EXCEPT ![t] = <<new>>]
     /\ ObjectMade(new) /\ input' = input
     /\ UNCHANGED <<workers, finished, other, task, arrays, local>>
     /\ from .. to - 1 \subseteq RegionOf(task[t], pc[t])
     /\ RegionOf(task[t], l) \subseteq RegionOf(task[t], pc[t])
     /\ (from .. to - 1) \cap RegionOf(task[t], l) = {}
  BY DEF MakesPart
<1>1. PICK b, d, s, q : /\ b = <<"thread", t, 1>> /\ d = task[t] /\ s = <<from, to, flipped>>
                        /\ q = <<"push", t, 1>>
  OBVIOUS
<1>2. /\ new \in Tasks /\ Kind(new) \in {"sequential", "recursion", "partition"}
      /\ new[2] = s /\ s \in Sorts /\ From(new) = from /\ To(new) = to /\ s[1] = from /\ s[2] = to
      /\ Kind(new) = "partition" =>
           /\ new[3] = 0
           /\ \A i \in s[1] + 1 .. s[2] - 1 : BlockOf(s, i) \in 0 .. new[4] - 1
  BY <1>1 DEF IsNew
<1>3. /\ workers' = workers /\ finished' = finished /\ other' = other
      /\ task' = task /\ A' = A /\ B' = B /\ pivot' = pivot /\ values' = values
  BY DEF arrays, local
<1>4. /\ pc[t] \in TaskLabels \ PushLabels /\ pc[t] \in Labels \ ClaimLabels /\ ~Copying(t)
      /\ pc[t] \notin PartitionLabels
  BY DEF Labels, TaskLabels, PartitionLabels, PushLabels, ClaimLabels, Copying
<1>5. /\ TypeOK /\ d \in Tasks /\ d # NoTask /\ Kind(d) = "partition" /\ d[2] \in Sorts /\ d[2] # s
      /\ subtasks[t] = <<>> /\ values[t] = NoValues /\ pending_tasks # 0
  BY <1>1, <1>2, <1>4, OwnTask, TasksAre DEF SortingInv, KindsAt
<1>6. /\ pc' \in [Threads -> Labels] /\ pc'[t] = l /\ l \in Labels /\ l \in TaskLabels
      /\ l \notin PartitionLabels /\ \A u \in Threads \ {t} : pc'[u] = pc[u]
  BY Goes DEF Labels, TaskLabels, PartitionLabels, SortingInv
<1>7. /\ subtasks'[t] = <<new>> /\ \A u \in Threads \ {t} : subtasks'[u] = subtasks[u]
      /\ subtasks' \in [Threads -> Seq(Tasks)]
  BY <1>2, <1>5 DEF TypeOK
<1>8. Aside(t)
  BY <1>3, <1>6, <1>7 DEF Aside
<1>9. /\ reference_count' \in [Sorts -> Nat] /\ counters' \in [Sorts -> Nat]
      /\ \A r \in Sorts : r # s \/ Kind(new) # "partition" =>
           reference_count'[r] = reference_count[r] /\ counters'[r] = counters[r]
      /\ Kind(new) = "partition" =>
           reference_count'[s] = 1 /\ LeftCount(counters'[s]) = 0 /\ RightCount(counters'[s]) = 0
  BY <1>2 DEF ObjectMade
<1>10. TypeOK'
  BY <1>3, <1>5, <1>6, <1>7, <1>9, SameTypes DEF TypeOK, Labels
<1>11. Mine(t) = {b} /\ b \in Places
  BY <1>1, <1>4, OwnPlace
<1>12. /\ TaskAt(b) = d /\ Stage(b) = pc[t] /\ ~Refers(b) /\ Region(b) = RegionOf(d, pc[t])
       /\ b \in Partitions
  BY <1>1, <1>4, <1>5, <1>11, TasksAt DEF Refers, Region, Partitions
<1>13. (\A p \in Partitions : TaskAt(p)[2] # s) /\ References(s) = {}
  BY <1>1, <1>2, <1>5, <1>12, Fresh
<1>14. ASSUME NEW p \in Partitions
       PROVE  counters'[TaskAt(p)[2]] = counters[TaskAt(p)[2]]
  BY <1>5, <1>9, <1>13, TaskAtType, TasksAre DEF Partitions, SortingInv
<1>15. \A p \in Places \ {b} : KeptAs(p, p)
  <2>1. SUFFICES ASSUME NEW p \in Places \ {b} PROVE KeptAs(p, p)
    OBVIOUS
  <2>2. TaskAt(p)' = TaskAt(p) /\ Stage(p)' = Stage(p)
    BY <1>3, <1>8, <1>11, OtherPlaces
  <2>3. CASE Kind(TaskAt(p)) = "partition"
    BY <1>14, <2>2, <2>3, KeptHere DEF Partitions
  <2>4. CASE Kind(TaskAt(p)) # "partition"
    <3>1. Stage(p) \notin {"pushLeft", "right"}
      <4>1. CASE Stage(p) = "run"
        BY <4>1
      <4>2. CASE Stage(p) # "run"
        <5>1. PICK u \in Threads : Stage(p) = pc[u] /\ TaskAt(p) = task[u] /\ Kind(task[u]) \in KindsAt(pc[u])
          BY <4>2, StagesAre
        <5>2. QED
          BY <2>4, <5>1 DEF KindsAt
      <4>3. QED
        BY <4>1, <4>2
    <3>2. QED
      BY <2>2, <2>4, <3>1, KeptHere
  <2>5. QED
    BY <2>3, <2>4
<1>16. Mine(t)' = {b, q} /\ b # q
  BY <1>1, <1>6, <1>7, MineAre
<1>17. /\ TaskAt(b)' = d /\ ~Refers(b)' /\ Region(b)' = RegionOf(d, l)
       /\ Kind(TaskAt(b))' = "partition"
  <2>1. TaskAt(b)' = d /\ Stage(b)' = l
    BY <1>1, <1>3, <1>6, TasksAtThen
  <2>2. counters'[d[2]] = counters[d[2]]
    BY <1>12, <1>14
  <2>3. Region(b)' = RegionOf(d, l)
    BY <2>1, <2>2 DEF Region, RegionOf, Kind, From, To, Middle, Position
  <2>4. QED
    BY <1>5, <1>6, <2>1, <2>3 DEF Refers, Kind
<1>18. /\ TaskAt(q)' = new /\ Kind(TaskAt(q))' = Kind(new) /\ (Refers(q)' <=> Kind(new) = "partition")
       /\ Region(q)' = from .. to - 1
       /\ Kind(new) = "partition" => BlocksAt(q)' = 0 .. new[4] - 1
  <2>1. TaskAt(q)' = new /\ Stage(q)' = "run"
    BY <1>1, <1>7, TasksAtThen
  <2>2. Kind(TaskAt(q))' = Kind(new)
    BY <2>1 DEF Kind
  <2>3. Refers(q)' <=> Kind(new) = "partition"
    BY <2>1, <2>2 DEF Refers, PartitionLabels
  <2>4. Region(q)' = from .. to - 1
    BY <1>2, <2>1 DEF Region, RegionOf, PartitionLabels, Kind, From, To
  <2>5. Kind(new) = "partition" => BlocksAt(q)' = 0 .. new[4] - 1
    BY <1>2, <2>1 DEF BlocksAt, BlocksOf
  <2>6. QED
    BY <2>1, <2>2, <2>3, <2>4, <2>5
<1>19. PendingCountsTasks'
  <2>1. /\ IsFiniteSet(Singles) /\ IsFiniteSet(Objects)
        /\ pending_tasks = Cardinality(Singles) + Cardinality(Objects)
        /\ Cardinality(Singles) \in Nat /\ Cardinality(Objects) \in Nat
    BY FS_CardinalityType DEF SortingInv, PlacesInv, PendingCountsTasks
  <2>2. /\ Singles' = (Singles \ {b}) \cup {p \in Mine(t)' : Kind(TaskAt(p))' # "partition"}
        /\ \A p \in Mine(t)' : p \notin Singles \ {b}
        /\ Objects' = {TaskAt(p)[2] : p \in Partitions \ {b}}
                        \cup {(TaskAt(p)[2])' : p \in {r \in Mine(t)' : Kind(TaskAt(r))' = "partition"}}
    BY <1>3, <1>8, <1>11, <1>15, TasksThen
  <2>3. b \notin Singles
    BY <1>12 DEF Singles
  <2>4. Objects = {TaskAt(p)[2] : p \in Partitions \ {b}} \cup {d[2]}
    BY <1>12 DEF Objects
  <2>5. (TaskAt(b)[2])' = d[2] /\ (TaskAt(q)[2])' = s
    BY <1>2, <1>17, <1>18
  <2>6. CASE Kind(new) # "partition"
    <3>1. {p \in Mine(t)' : Kind(TaskAt(p))' # "partition"} = {q}
      BY <1>16, <1>17, <1>18, <2>6
    <3>2. {r \in Mine(t)' : Kind(TaskAt(r))' = "partition"} = {b}
      BY <1>16, <1>17, <1>18, <2>6
    <3>3. Objects' = Objects
      BY <2>2, <2>4, <2>5, <3>2
    <3>4. Singles' = Singles \cup {q} /\ q \notin Singles
      BY <1>16, <2>2, <2>3, <3>1
    <3>5. IsFiniteSet(Singles') /\ Cardinality(Singles') = Cardinality(Singles) + 1
      BY <2>1, <3>4, FS_AddElement
    <3>6. QED
      BY <2>1, <3>3, <3>5 DEF PendingCountsTasks
  <2>7. CASE Kind(new) = "partition"
    <3>1. {p \in Mine(t)' : Kind(TaskAt(p))' # "partition"} = {}
      BY <1>16, <1>17, <1>18, <2>7
    <3>2. {r \in Mine(t)' : Kind(TaskAt(r))' = "partition"} = {b, q}
      BY <1>16, <1>17, <1>18, <2>7
    <3>3. Singles' = Singles
      BY <2>2, <2>3, <3>1
    <3>4. Objects' = Objects \cup {s}
      BY <2>2, <2>4, <2>5, <3>2
    <3>5. s \notin Objects
      BY <1>13 DEF Objects
    <3>6. IsFiniteSet(Objects') /\ Cardinality(Objects') = Cardinality(Objects) + 1
      BY <2>1, <3>4, <3>5, FS_AddElement
    <3>7. QED
      BY <2>1, <3>3, <3>6 DEF PendingCountsTasks
  <2>8. QED
    BY <2>6, <2>7
<1>20. ASSUME NEW r \in Sorts, r # s \/ Kind(new) # "partition"
       PROVE  References(r)' = References(r) /\ Unreserved(r)' = Unreserved(r)
  <2>1. ~(Refers(b) /\ TaskAt(b)[2] = r)
    BY <1>12
  <2>2. \A p \in Mine(t)' : ~(Refers(p)' /\ (TaskAt(p)[2])' = r)
    BY <1>2, <1>16, <1>17, <1>18, <1>20
  <2>3. QED
    BY <1>3, <1>8, <1>11, <1>15, <2>1, <2>2, OtherSorts
<1>21. ASSUME Kind(new) = "partition"
       PROVE  References(s)' = {q} /\ Unreserved(s)' = s[1] + 1 .. s[2] - 1
  <2>1. /\ References(s)' = (References(s) \ {b})
                              \cup {p \in Mine(t)' : Refers(p)' /\ (TaskAt(p)[2])' = s}
        /\ \A p \in References(s) \ {b} : BlocksAt(p)' = BlocksAt(p) /\ p \notin Mine(t)'
    BY <1>3, <1>8, <1>11, <1>15, ReferencesThen
  <2>2. {p \in Mine(t)' : Refers(p)' /\ (TaskAt(p)[2])' = s} = {q}
    BY <1>2, <1>16, <1>17, <1>18, <1>21
  <2>3. References(s)' = {q}
    BY <1>13, <2>1, <2>2
  <2>4. Unreserved(s)' = {i \in s[1] + 1 .. s[2] - 1 : \E p \in References(s)' : BlockOf(s, i) \in BlocksAt(p)'}
    BY DEF Unreserved, BlockOf
  <2>5. BlocksAt(q)' = 0 .. new[4] - 1
    BY <1>18, <1>21
  <2>6. QED
    BY <1>2, <1>21, <2>3, <2>4, <2>5
<1>22. PlacesInv'
  <2>1. Sorts' = Sorts
    BY SameTypes
  <2>2. ReferencesCounted'
    <3>1. ASSUME NEW r \in Sorts
          PROVE  IsFiniteSet(References(r)') /\ reference_count'[r] = Cardinality(References(r)')
      <4>1. CASE r # s \/ Kind(new) # "partition"
        BY <1>9, <1>20, <4>1 DEF SortingInv, PlacesInv, ReferencesCounted
      <4>2. CASE r = s /\ Kind(new) = "partition"
        <5>1. IsFiniteSet({q}) /\ Cardinality({q}) = 1
          BY FS_Singleton
        <5>2. QED
          BY <1>9, <1>21, <4>2, <5>1
      <4>3. QED
        BY <4>1, <4>2
    <3>2. QED
      BY <2>1, <3>1 DEF ReferencesCounted
  <2>3. ElementsCounted'
    <3>1. ASSUME NEW r \in Sorts, References(r)' # {}
          PROVE  Ready(r)' + Cardinality(Unreserved(r)') = r[2] - r[1] - 1
      <4>1. CASE r # s \/ Kind(new) # "partition"
        BY <1>9, <1>20, <3>1, <4>1 DEF SortingInv, PlacesInv, ElementsCounted, Ready
      <4>2. CASE r = s /\ Kind(new) = "partition"
        <5>1. Ready(s)' = 0
          BY <1>9, <4>2 DEF Ready
        <5>2. s[1] \in Nat /\ s[2] \in Nat /\ s[1] < s[2]
          BY <1>2, <1>5, InputType DEF Sorts
        <5>3. Cardinality(s[1] + 1 .. s[2] - 1) = s[2] - s[1] - 1
          <6>1. PICK m, n : m = s[1] + 1 /\ n = s[2] - 1
            OBVIOUS
          <6>2. m \in Int /\ n \in Int
            BY <5>2, <6>1
          <6>3. Cardinality(m .. n) = IF m > n THEN 0 ELSE n - m + 1
            BY <6>2, FS_Interval
          <6>4. QED
            BY <5>2, <6>1, <6>3
        <5>4. QED
          BY <1>21, <4>2, <5>1, <5>2, <5>3
      <4>3. QED
        BY <4>1, <4>2
    <3>2. QED
      BY <2>1, <3>1 DEF ElementsCounted
  <2>4. RegionsApart' /\ BlocksApart'
    <3>1. \A p \in Mine(t)' : Region(p)' \subseteq Region(b)
      BY <1>1, <1>12, <1>16, <1>17, <1>18
    <3>2. \A p \in Places \ {b} : ~SameSort(p, b)
      BY <1>12 DEF SameSort
    <3>3. \A p \in Mine(t)' : Refers(p)' =>
            \A a \in Places \ {b} : ~(Refers(a) /\ TaskAt(a)[2] = (TaskAt(p)[2])')
      <4>1. SUFFICES ASSUME NEW a \in Places \ {b}, Refers(a), TaskAt(a)[2] = (TaskAt(q)[2])' PROVE FALSE
        BY <1>16, <1>17
      <4>2. a \in Partitions /\ TaskAt(a)[2] = s
        BY <1>2, <1>18, <4>1 DEF Refers, Partitions
      <4>3. QED
        BY <1>13, <4>2
    <3>4. ASSUME NEW p \in Mine(t)', NEW r \in Mine(t)', p # r
          PROVE  Region(p)' \cap Region(r)' = {} /\ ~SameSort(p, r)'
      BY <1>1, <1>16, <1>17, <1>18, <3>4 DEF SameSort
    <3>5. QED
      BY <1>3, <1>8, <1>11, <1>12, <1>15, <3>1, <3>2, <3>3, <3>4, Apart DEF SortingInv
  <2>5. ~ResetLeft'
    <3>1. SUFFICES ASSUME NEW p \in Places', Kind(TaskAt(p))' = "reset" PROVE FALSE
      BY DEF ResetLeft
    <3>2. p \notin Mine(t)'
      BY <1>2, <1>16, <1>17, <1>18, <3>1
    <3>3. p \in Places /\ TaskAt(p)' = TaskAt(p)
      BY <1>3, <1>8, <1>11, <3>2, OtherPlaces
    <3>4. Kind(TaskAt(p)) = "reset"
      BY <3>1, <3>3 DEF Kind
    <3>5. Kind(TaskAt(b)) = "reset"
      BY <1>11, <3>3, <3>4 DEF SortingInv, PlacesInv, ResetLeft
    <3>6. QED
      BY <1>5, <1>12, <3>5
  <2>6. QED
    BY <1>19, <2>2, <2>3, <2>4, <2>5 DEF PlacesInv
<1>23. ThreadInv(t)' /\ ~Copying(t)'
  <2>1. ~Copying(t)' /\ l \in PushLabels /\ l \notin ClaimLabels /\ Kind(d) \in KindsAt(l)
        /\ l \notin {"partition", "copyLeft", "copyRight", "adjust"} /\ pc[t] \in Complete
    BY <1>5, <1>6 DEF Copying, PushLabels, Complete, ClaimLabels, KindsAt
  <2>2. (Ready(d[2]) + 1 = Length(d))'
    BY <1>1, <1>5, <1>12, <1>14, <2>1 DEF SortingInv, ThreadInv, Ready, Length, From, To
  <2>3. (IF pc[t] \in ClaimLabels THEN task[t] = NoTask
         ELSE task[t] # NoTask /\ Kind(task[t]) \in KindsAt(pc[t]))'
    BY <1>1, <1>3, <1>5, <1>6, <2>1 DEF Kind, KindsAt, NoTask
  <2>4. (subtasks[t] # <<>> <=> pc[t] \in PushLabels)'
    BY <1>6, <1>7, <2>1
  <2>5. (pc[t] \in Complete /\ Kind(task[t]) = "partition" => Ready(task[t][2]) + 1 = Length(task[t]))'
    BY <1>1, <1>3, <2>2
  <2>6. (IF Copying(t) THEN /\ LeftPlaces(values[t]) \subseteq LeftArea(task[t][2])
                            /\ RightPlaces(values[t]) \subseteq RightArea(task[t][2])
         ELSE values[t] = NoValues)'
    BY <1>3, <1>5, <2>1 DEF NoValues
  <2>7. (/\ pc[t] \in {"partition", "copyLeft", "copyRight"} => task[t][3] < OwnEnd(task[t])
         /\ pc[t] = "adjust" => pivot[t] \in 0 .. Length(task[t]) - 1)'
    BY <1>6, <2>1
  <2>8. QED
    BY <2>1, <2>3, <2>4, <2>5, <2>6, <2>7 DEF ThreadInv
<1>24. (\A u \in Threads : ThreadInv(u)') /\ CopiesApart'
  <2>1. ASSUME NEW u \in Threads \ {t}, pc[u] \in TaskLabels, Kind(task[u]) = "partition"
        PROVE  counters'[task[u][2]] = counters[task[u][2]]
    <3>1. PICK p : p = <<"thread", u, 1>>
      OBVIOUS
    <3>2. p \in Places /\ TaskAt(p) = task[u]
      BY <2>1, <3>1, PlacesByKind, TasksAt
    <3>3. QED
      BY <1>14, <2>1, <3>2 DEF Partitions
  <2>2. ASSUME NEW u \in Threads \ {t}, pc[u] \in Complete, Kind(task[u]) = "partition"
        PROVE  Ready(task[u][2])' = Ready(task[u][2])
    BY <1>3, <2>1, <2>2 DEF Complete, TaskLabels, Ready
  <2>3. ASSUME NEW u \in Threads \ {t}, Copying(u)
        PROVE  LeftArea(task[u][2])' = LeftArea(task[u][2]) /\ RightArea(task[u][2])' = RightArea(task[u][2])
    BY <1>3, <2>1, <2>3, OwnTask DEF Copying, TaskLabels, PartitionLabels, Labels, ClaimLabels,
       KindsAt, LeftArea, RightArea
  <2>4. QED
    BY <1>8, <1>23, <2>2, <2>3, ThreadsGo DEF SortingInv
<1>25. EndingInv'
  BY <1>3, <1>5, <1>6, EndsWith DEF Ending, SortingInv
<1>26. QED
  BY <1>10, <1>22, <1>24, <1>25 DEF SortingInv
(* The segment of the task that makes the parts.                           *)
LEMMA PartRegions ==
  ASSUME SortingInv, NEW t \in Threads, pc[t] \in {"left", "right"}, NEW d, d = task[t]
  PROVE  /\ d \in Tasks /\ Kind(d) = "partition" /\ d[2] = <<From(d), To(d), Flipped(d)>>
         /\ subtasks[t] = <<>> /\ values[t] = NoValues /\ Flipped(d) \in BOOLEAN
         /\ Middle(d) \in Nat /\ From(d) \in Nat /\ To(d) \in 0 .. Len(input) /\ To(d) \in Nat
         /\ From(d) <= Middle(d) /\ Middle(d) < To(d)
         /\ RegionOf(d, "left") = From(d) .. To(d) - 1
         /\ \A l \in {"right", "pushLeft"} : RegionOf(d, l) = Middle(d) .. To(d) - 1
         /\ \A l \in {"release", "pushRight"} : RegionOf(d, l) = {Middle(d)}
<1>1. PICK b : b = <<"thread", t, 1>>
  OBVIOUS
<1>2. /\ pc[t] \in TaskLabels \ PushLabels /\ pc[t] \in Labels \ ClaimLabels /\ ~Copying(t)
  BY DEF Labels, TaskLabels, PartitionLabels, PushLabels, ClaimLabels, Copying
<1>3. /\ d \in Tasks /\ Kind(d) = "partition" /\ subtasks[t] = <<>> /\ values[t] = NoValues
  BY <1>2, OwnTask DEF KindsAt
<1>4. b \in Partitions /\ TaskAt(b) = d
  BY <1>1, <1>2, <1>3, OwnPlace, TasksAt DEF Partitions
<1>5. Position(d) \in 0 .. Length(d) - 1
  BY <1>4, MiddleIn
<1>6. /\ From(d) \in 0 .. Len(input) /\ To(d) \in 0 .. Len(input) /\ From(d) <= To(d)
      /\ d[2] = <<From(d), To(d), Flipped(d)>> /\ Flipped(d) \in BOOLEAN
  BY <1>3, TasksAre DEF SortingInv
<1>7. From(d) \in Nat /\ To(d) \in Nat
  BY <1>6, InputType DEF SortingInv
<1>8. Middle(d) \in Nat /\ From(d) <= Middle(d) /\ Middle(d) < To(d)
  BY <1>5, <1>7 DEF Middle, Length
<1>9. /\ RegionOf(d, "left") = From(d) .. To(d) - 1
      /\ \A l \in {"right", "pushLeft"} : RegionOf(d, l) = Middle(d) .. To(d) - 1
      /\ \A l \in {"release", "pushRight"} : RegionOf(d, l) = {Middle(d)}
  BY <1>3 DEF RegionOf, PartitionLabels
<1>10. QED
  BY <1>3, <1>6, <1>7, <1>8, <1>9

(* Copying a single element keeps both arrays of integers.                 *)
LEMMA CopySingleType ==
  ASSUME TypeOK, NEW from \in Nat, NEW to \in 0 .. Len(input), NEW flipped, CopySingle(from, to, flipped)
  PROVE  A' \in ArraysOf(Int) /\ B' \in ArraysOf(Int)
<1>1. A \in ArraysOf(Int) /\ B \in ArraysOf(Int)
  BY DEF TypeOK
<1>2. CASE UNCHANGED arrays
  BY <1>1, <1>2 DEF arrays
<1>3. CASE to - from = 1 /\ B' = [B EXCEPT ![from] = A[from]] /\ A' = A
  BY <1>1, <1>3, InputType DEF ArraysOf
<1>4. QED
  BY <1>2, <1>3 DEF CopySingle

(* Creating the task of the left part keeps the invariant.                 *)
LEMMA CreateLeftKeeps ==
  ASSUME SortingInv, NEW t \in Threads, CreateLeft(t)
  PROVE  SortingInv'
<1>1. PICK d, from, to, flipped : /\ d = task[t] /\ from = From(d) /\ to = From(d) + Position(d)
                                  /\ flipped = ~Flipped(d)
  OBVIOUS
<1>2. /\ pc[t] = "left" /\ CreateTask(t, from, to, flipped, "pushLeft", "right")
      /\ UNCHANGED <<workers, finished, other, task, input, local>>
  BY <1>1 DEF CreateLeft
<1>3. TypeOK
  BY DEF SortingInv
<1>4. /\ d \in Tasks /\ Kind(d) = "partition" /\ d[2] = <<From(d), To(d), Flipped(d)>>
      /\ subtasks[t] = <<>> /\ values[t] = NoValues /\ Flipped(d) \in BOOLEAN
      /\ Middle(d) \in Nat /\ From(d) \in Nat /\ To(d) \in 0 .. Len(input) /\ To(d) \in Nat
      /\ From(d) <= Middle(d) /\ Middle(d) < To(d)
      /\ RegionOf(d, "left") = From(d) .. To(d) - 1
      /\ \A l \in {"right", "pushLeft"} : RegionOf(d, l) = Middle(d) .. To(d) - 1
  BY <1>1, <1>2, PartRegions
<1>5. to = Middle(d) /\ Len(input) \in Nat
  BY <1>1, <1>3, InputType DEF Middle
<1>6. from \in 0 .. Len(input) /\ to \in 0 .. Len(input) /\ from \in Nat /\ to \in Nat /\ flipped \in BOOLEAN
  BY <1>1, <1>4, <1>5
<1>7. CASE to - from < 2
  <2>1. /\ CopySingle(from, to, flipped) /\ Goto(t, "right")
        /\ UNCHANGED <<pending_tasks, objects, subtasks>>
    BY <1>2, <1>7 DEF CreateTask
  <2>2. A' \in ArraysOf(Int) /\ B' \in ArraysOf(Int)
    BY <1>3, <1>6, <2>1, CopySingleType
  <2>3. pivot' = pivot /\ values' = values
        /\ UNCHANGED <<workers, finished, other, task, input, pending_tasks, objects, subtasks>>
    BY <1>2, <2>1 DEF local
  <2>4. pivot' \in [Threads -> Int] /\ values' \in [Threads -> BlockValues]
    BY <1>3, <2>3 DEF TypeOK
  <2>5. /\ "right" \in TaskLabels \ PushLabels /\ pc[t] \in TaskLabels \ PushLabels
        /\ Kind(task[t]) \in KindsAt("right")
    BY <1>1, <1>2, <1>4 DEF TaskLabels, PartitionLabels, PushLabels, KindsAt
  <2>6. /\ RegionOf(task[t], "right") \subseteq RegionOf(task[t], pc[t])
        /\ "right" \notin PartitionLabels /\ pc[t] \notin PartitionLabels /\ pc[t] \in Complete
    BY <1>1, <1>2, <1>4 DEF PartitionLabels, Complete
  <2>7. QED
    BY <1>1, <1>2, <1>4, <2>1, <2>2, <2>3, <2>4, <2>5, <2>6, TaskGoesOn
<1>8. CASE ~(to - from < 2)
  <2>1. PICK new : new = NewTask(from, to, flipped)
    OBVIOUS
  <2>2. to - from >= 2
    BY <1>6, <1>8
  <2>3. IsNew(new, from, to, flipped)
    BY <1>3, <1>6, <2>1, <2>2, NewTaskIs
  <2>4. /\ Goto(t, "pushLeft") /\ pending_tasks' = pending_tasks + 1
        /\ subtasks' = [subtasks EXCEPT ![t] = <<new>>] /\ UNCHANGED arrays
        /\ IF Kind(new) = "partition"
             THEN /\ reference_count' = [reference_count EXCEPT ![new[2]] = 1]
                  /\ counters' = [counters EXCEPT ![new[2]] = 0]
             ELSE UNCHANGED objects
    BY <1>2, <1>8, <2>1 DEF CreateTask
  <2>5. ObjectMade(new) /\ new[2] = <<from, to, flipped>>
    BY <1>3, <2>3, <2>4, ObjectIsMade DEF IsNew
  <2>6. new[2] # task[t][2]
    BY <1>1, <1>4, <2>5
  <2>7. /\ from .. to - 1 \subseteq RegionOf(task[t], pc[t])
        /\ RegionOf(task[t], "pushLeft") \subseteq RegionOf(task[t], pc[t])
        /\ (from .. to - 1) \cap RegionOf(task[t], "pushLeft") = {}
    BY <1>1, <1>2, <1>4, <1>5, <1>6
  <2>8. UNCHANGED <<workers, finished, other, task, arrays, local>> /\ input' = input
    BY <1>2, <2>4
  <2>9. pc[t] \in {"left", "right"} /\ "pushLeft" \in {"pushLeft", "pushRight"}
    BY <1>2
  <2>10. MakesPart(t, "pushLeft", from, to, flipped, new)
    BY <1>6, <2>3, <2>4, <2>5, <2>6, <2>7, <2>8, <2>9 DEF MakesPart
  <2>11. QED
    BY <2>10, CreatePartKeeps
<1>9. QED
  BY <1>7, <1>8

(* Creating the task of the right part keeps the invariant.                *)
LEMMA CreateRightKeeps ==
  ASSUME SortingInv, NEW t \in Threads, CreateRight(t)
  PROVE  SortingInv'
<1>1. PICK d, from, to, flipped : /\ d = task[t] /\ from = From(d) + Position(d) + 1 /\ to = To(d)
                                  /\ flipped = ~Flipped(d)
  OBVIOUS
<1>2. /\ pc[t] = "right" /\ CreateTask(t, from, to, flipped, "pushRight", "release")
      /\ UNCHANGED <<workers, finished, other, task, input, local>>
  BY <1>1 DEF CreateRight
<1>3. TypeOK
  BY DEF SortingInv
<1>4. /\ d \in Tasks /\ Kind(d) = "partition" /\ d[2] = <<From(d), To(d), Flipped(d)>>
      /\ subtasks[t] = <<>> /\ values[t] = NoValues /\ Flipped(d) \in BOOLEAN
      /\ Middle(d) \in Nat /\ From(d) \in Nat /\ To(d) \in 0 .. Len(input) /\ To(d) \in Nat
      /\ From(d) <= Middle(d) /\ Middle(d) < To(d)
      /\ RegionOf(d, "right") = Middle(d) .. To(d) - 1
      /\ \A l \in {"release", "pushRight"} : RegionOf(d, l) = {Middle(d)}
  BY <1>1, <1>2, PartRegions
<1>5. from = Middle(d) + 1 /\ Len(input) \in Nat
  BY <1>1, <1>3, InputType DEF Middle
<1>6. from \in 0 .. Len(input) /\ to \in 0 .. Len(input) /\ from \in Nat /\ to \in Nat /\ flipped \in BOOLEAN
  BY <1>1, <1>4, <1>5
<1>7. CASE to - from < 2
  <2>1. /\ CopySingle(from, to, flipped) /\ Goto(t, "release")
        /\ UNCHANGED <<pending_tasks, objects, subtasks>>
    BY <1>2, <1>7 DEF CreateTask
  <2>2. A' \in ArraysOf(Int) /\ B' \in ArraysOf(Int)
    BY <1>3, <1>6, <2>1, CopySingleType
  <2>3. pivot' = pivot /\ values' = values
        /\ UNCHANGED <<workers, finished, other, task, input, pending_tasks, objects, subtasks>>
    BY <1>2, <2>1 DEF local
  <2>4. pivot' \in [Threads -> Int] /\ values' \in [Threads -> BlockValues]
    BY <1>3, <2>3 DEF TypeOK
  <2>5. /\ "release" \in TaskLabels \ PushLabels /\ pc[t] \in TaskLabels \ PushLabels
        /\ Kind(task[t]) \in KindsAt("release")
    BY <1>1, <1>2, <1>4 DEF TaskLabels, PartitionLabels, PushLabels, KindsAt
  <2>6. /\ RegionOf(task[t], "release") \subseteq RegionOf(task[t], pc[t])
        /\ "release" \notin PartitionLabels /\ pc[t] \notin PartitionLabels /\ pc[t] \in Complete
    BY <1>1, <1>2, <1>4 DEF PartitionLabels, Complete
  <2>7. QED
    BY <1>1, <1>2, <1>4, <2>1, <2>2, <2>3, <2>4, <2>5, <2>6, TaskGoesOn
<1>8. CASE ~(to - from < 2)
  <2>1. PICK new : new = NewTask(from, to, flipped)
    OBVIOUS
  <2>2. to - from >= 2
    BY <1>6, <1>8
  <2>3. IsNew(new, from, to, flipped)
    BY <1>3, <1>6, <2>1, <2>2, NewTaskIs
  <2>4. /\ Goto(t, "pushRight") /\ pending_tasks' = pending_tasks + 1
        /\ subtasks' = [subtasks EXCEPT ![t] = <<new>>] /\ UNCHANGED arrays
        /\ IF Kind(new) = "partition"
             THEN /\ reference_count' = [reference_count EXCEPT ![new[2]] = 1]
                  /\ counters' = [counters EXCEPT ![new[2]] = 0]
             ELSE UNCHANGED objects
    BY <1>2, <1>8, <2>1 DEF CreateTask
  <2>5. ObjectMade(new) /\ new[2] = <<from, to, flipped>>
    BY <1>3, <2>3, <2>4, ObjectIsMade DEF IsNew
  <2>6. new[2] # task[t][2]
    BY <1>1, <1>4, <2>5
  <2>7. /\ from .. to - 1 \subseteq RegionOf(task[t], pc[t])
        /\ RegionOf(task[t], "pushRight") \subseteq RegionOf(task[t], pc[t])
        /\ (from .. to - 1) \cap RegionOf(task[t], "pushRight") = {}
    BY <1>1, <1>2, <1>4, <1>5
  <2>8. UNCHANGED <<workers, finished, other, task, arrays, local>> /\ input' = input
    BY <1>2, <2>4
  <2>9. pc[t] \in {"left", "right"} /\ "pushRight" \in {"pushLeft", "pushRight"}
    BY <1>2
  <2>10. MakesPart(t, "pushRight", from, to, flipped, new)
    BY <1>6, <2>3, <2>4, <2>5, <2>6, <2>7, <2>8, <2>9 DEF MakesPart
  <2>11. QED
    BY <2>10, CreatePartKeeps
<1>9. QED
  BY <1>7, <1>8
(* Nothing is left to do when pending_tasks is 0.                          *)
LEMMA NoPlaces ==
  ASSUME SortingInv, pending_tasks = 0
  PROVE  Places = {} /\ \A u \in Threads : pc[u] \notin TaskLabels
<1>1. /\ IsFiniteSet(Singles) /\ IsFiniteSet(Objects)
      /\ pending_tasks = Cardinality(Singles) + Cardinality(Objects)
      /\ Cardinality(Singles) \in Nat /\ Cardinality(Objects) \in Nat
  BY FS_CardinalityType DEF SortingInv, PlacesInv, PendingCountsTasks
<1>2. Cardinality(Singles) = 0 /\ Cardinality(Objects) = 0
  BY <1>1
<1>3. Singles = {} /\ Objects = {}
  BY <1>1, <1>2, FS_EmptySet
<1>4. Places = {}
  BY <1>3 DEF Singles, Objects, Partitions
<1>5. QED
  BY <1>4, PlacesByKind

(* The first task of the sort is made when no other is left.               *)
LEMMA CreateFirstKeeps ==
  ASSUME SortingInv, NEW t \in Threads, CreateFirst(t)
  PROVE  SortingInv'
<1>1. PICK from, to, flipped : from = 0 /\ to = Len(input) /\ flipped = FALSE
  OBVIOUS
<1>2. /\ pc[t] = "createFirst" /\ CreateTask(t, from, to, flipped, "pushFirst", "finish")
      /\ UNCHANGED <<workers, finished, other, task, input, local>>
  BY <1>1 DEF CreateFirst
<1>3. TypeOK
  BY DEF SortingInv
<1>4. /\ pending_tasks = 0 /\ ~finished /\ Ending(t) /\ \A u \in Threads \ {t} : ~Ending(u)
  BY <1>2 DEF SortingInv, EndingInv, Ending
<1>5. Places = {} /\ \A u \in Threads : pc[u] \notin TaskLabels
  BY <1>4, NoPlaces
<1>6. pc[t] \in Labels \ ClaimLabels /\ pc[t] \notin PushLabels /\ ~Copying(t)
  BY <1>2 DEF Labels, ClaimLabels, PushLabels, Copying
<1>7. /\ task[t] \in Tasks /\ task[t] # NoTask /\ Kind(task[t]) = "reset"
      /\ subtasks[t] = <<>> /\ values[t] = NoValues
  BY <1>2, <1>6, OwnTask DEF KindsAt
<1>8. /\ from \in 0 .. Len(input) /\ to \in 0 .. Len(input) /\ from \in Nat /\ to \in Nat
      /\ flipped \in BOOLEAN
  <2>1. PICK n : n = Len(input)
    OBVIOUS
  <2>2. n \in Nat
    BY <1>3, <2>1, InputType
  <2>3. 0 \in 0 .. n /\ n \in 0 .. n
    BY <2>2
  <2>4. QED
    BY <1>1, <2>1, <2>2, <2>3
<1>9. CASE to - from < 2
  <2>1. /\ CopySingle(from, to, flipped) /\ Goto(t, "finish")
        /\ UNCHANGED <<pending_tasks, objects, subtasks>>
    BY <1>2, <1>9 DEF CreateTask
  <2>2. A' \in ArraysOf(Int) /\ B' \in ArraysOf(Int)
    BY <1>3, <1>8, <2>1, CopySingleType
  <2>3. /\ pc' \in [Threads -> Labels] /\ pc'[t] = "finish" /\ "finish" \in Labels
        /\ \A u \in Threads \ {t} : pc'[u] = pc[u]
    BY <1>3, <2>1, Goes DEF Labels
  <2>4. /\ pivot' = pivot /\ values' = values /\ task' = task /\ subtasks' = subtasks
        /\ pending_tasks' = pending_tasks /\ finished' = finished /\ other' = other
        /\ UNCHANGED <<workers, input, pending_tasks, objects, subtasks>>
    BY <1>2, <2>1 DEF local
  <2>5. Aside(t)
    BY <2>3, <2>4 DEF Aside
  <2>6. "finish" \notin TaskLabels /\ ~Copying(t)'
    BY <2>3 DEF TaskLabels, PartitionLabels, Copying
  <2>7. ThreadInv(t)'
    BY <1>7, <2>3, <2>4, <2>6
       DEF ThreadInv, ClaimLabels, KindsAt, PushLabels, Complete, Kind, NoValues, NoTask
  <2>8. EndingInv'
    BY <1>4, <2>3, <2>4, EndsAsBefore DEF SortingInv
  <2>9. /\ task' \in [Threads -> Tasks \cup {NoTask}] /\ other' \in [Threads -> Threads]
        /\ pivot' \in [Threads -> Int] /\ values' \in [Threads -> BlockValues] /\ finished' \in BOOLEAN
    BY <1>3, <2>4 DEF TypeOK
  <2>10. QED
    BY <1>5, <2>1, <2>2, <2>3, <2>4, <2>5, <2>6, <2>7, <2>8, <2>9, ThreadAlone
<1>10. CASE ~(to - from < 2)
  <2>1. PICK new, s, q : /\ new = NewTask(from, to, flipped) /\ s = <<from, to, flipped>>
                         /\ q = <<"push", t, 1>>
    OBVIOUS
  <2>2. to - from >= 2
    BY <1>8, <1>10
  <2>3. IsNew(new, from, to, flipped)
    BY <1>3, <1>8, <2>1, <2>2, NewTaskIs
  <2>4. /\ Goto(t, "pushFirst") /\ pending_tasks' = pending_tasks + 1
        /\ subtasks' = [subtasks EXCEPT ![t] = <<new>>] /\ UNCHANGED arrays
        /\ IF Kind(new) = "partition"
             THEN /\ reference_count' = [reference_count EXCEPT ![new[2]] = 1]
                  /\ counters' = [counters EXCEPT ![new[2]] = 0]
             ELSE UNCHANGED objects
    BY <1>2, <1>10, <2>1 DEF CreateTask
  <2>5. /\ new \in Tasks /\ Kind(new) \in {"sequential", "recursion", "partition"}
        /\ new[2] = s /\ s \in Sorts /\ s[1] = from /\ s[2] = to
        /\ Kind(new) = "partition" =>
             /\ new[3] = 0
             /\ \A i \in s[1] + 1 .. s[2] - 1 : BlockOf(s, i) \in 0 .. new[4] - 1
    BY <2>1, <2>3 DEF IsNew
  <2>6. /\ reference_count' \in [Sorts -> Nat] /\ counters' \in [Sorts -> Nat]
        /\ \A r \in Sorts : r # s \/ Kind(new) # "partition" =>
             reference_count'[r] = reference_count[r] /\ counters'[r] = counters[r]
        /\ Kind(new) = "partition" =>
             reference_count'[s] = 1 /\ LeftCount(counters'[s]) = 0 /\ RightCount(counters'[s]) = 0
    BY <1>3, <2>4, <2>5, ObjectIsMade DEF ObjectMade
  <2>7. /\ pc' \in [Threads -> Labels] /\ pc'[t] = "pushFirst" /\ "pushFirst" \in Labels
        /\ \A u \in Threads \ {t} : pc'[u] = pc[u]
    BY <1>3, <2>4, Goes DEF Labels
  <2>8. /\ subtasks'[t] = <<new>> /\ \A u \in Threads \ {t} : subtasks'[u] = subtasks[u]
        /\ subtasks' \in [Threads -> Seq(Tasks)]
    BY <1>3, <2>4, <2>5 DEF TypeOK
  <2>9. /\ workers' = workers /\ finished' = finished /\ other' = other /\ input' = input
        /\ task' = task /\ A' = A /\ B' = B /\ pivot' = pivot /\ values' = values
    BY <1>2, <2>4 DEF arrays, local
  <2>10. Aside(t)
    BY <2>7, <2>8, <2>9 DEF Aside
  <2>11. TypeOK'
    BY <1>3, <1>4, <2>4, <2>6, <2>7, <2>8, <2>9, SameTypes DEF TypeOK, Labels
  <2>12. Places' = {q}
    <3>1. DOMAIN <<new>> = {1} /\ "pushFirst" \notin TaskLabels
      BY DEF TaskLabels, PartitionLabels
    <3>2. \A p : p \in Mine(t)' <=> p = q
      BY <2>1, <2>7, <2>8, <3>1, MineAre
    <3>3. /\ Mine(t)' \subseteq Places' /\ \A p : p \in Places \ Mine(t) <=> p \in Places' \ Mine(t)'
      BY <2>9, <2>10, OtherPlaces
    <3>4. QED
      BY <1>5, <3>2, <3>3
  <2>13. /\ TaskAt(q)' = new /\ Kind(TaskAt(q))' = Kind(new) /\ (Refers(q)' <=> Kind(new) = "partition")
         /\ Kind(new) = "partition" => BlocksAt(q)' = 0 .. new[4] - 1
    <3>1. TaskAt(q)' = new /\ Stage(q)' = "run"
      BY <2>1, <2>8, TasksAtThen
    <3>2. Kind(TaskAt(q))' = Kind(new)
      BY <3>1 DEF Kind
    <3>3. Refers(q)' <=> Kind(new) = "partition"
      BY <3>1, <3>2 DEF Refers, PartitionLabels
    <3>4. Kind(new) = "partition" => BlocksAt(q)' = 0 .. new[4] - 1
      BY <2>5, <3>1 DEF BlocksAt, BlocksOf
    <3>5. QED
      BY <3>1, <3>2, <3>3, <3>4
  <2>14. PendingCountsTasks'
    <3>1. \A x : IsFiniteSet({x}) /\ Cardinality({x}) = 1
      BY FS_Singleton
    <3>2. IsFiniteSet({}) /\ Cardinality({}) = 0
      BY FS_EmptySet
    <3>3. pending_tasks' = 1
      BY <1>4, <2>4
    <3>4. CASE Kind(new) = "partition"
      <4>1. Partitions' = {q}
        BY <2>12, <2>13, <3>4 DEF Partitions
      <4>2. Singles' = {} /\ Objects' = {s}
        BY <2>5, <2>12, <2>13, <4>1 DEF Singles, Objects
      <4>3. /\ IsFiniteSet(Singles') /\ Cardinality(Singles') = 0
            /\ IsFiniteSet(Objects') /\ Cardinality(Objects') = 1
        BY <3>1, <3>2, <4>2
      <4>4. QED
        BY <3>3, <4>3 DEF PendingCountsTasks
    <3>5. CASE Kind(new) # "partition"
      <4>1. Partitions' = {}
        BY <2>12, <2>13, <3>5 DEF Partitions
      <4>2. Singles' = {q} /\ Objects' = {}
        BY <2>12, <4>1 DEF Singles, Objects
      <4>3. /\ IsFiniteSet(Singles') /\ Cardinality(Singles') = 1
            /\ IsFiniteSet(Objects') /\ Cardinality(Objects') = 0
        BY <3>1, <3>2, <4>2
      <4>4. QED
        BY <3>3, <4>3 DEF PendingCountsTasks
    <3>6. QED
      BY <3>4, <3>5
  <2>15. ASSUME NEW r \in Sorts
         PROVE  References(r)' = IF r = s /\ Kind(new) = "partition" THEN {q} ELSE {}
    BY <2>5, <2>12, <2>13, ReferencesAre
  <2>16. Sorts' = Sorts
    BY <2>9, SameTypes
  <2>17. ReferencesCounted'
    <3>1. ASSUME NEW r \in Sorts
          PROVE  IsFiniteSet(References(r)') /\ reference_count'[r] = Cardinality(References(r)')
      <4>1. CASE r = s /\ Kind(new) = "partition"
        BY <2>6, <2>15, <4>1, FS_Singleton
      <4>2. CASE ~(r = s /\ Kind(new) = "partition")
        <5>1. References(r) = {}
          BY <1>5, ReferencesAre
        <5>2. reference_count[r] = Cardinality(References(r))
          BY DEF SortingInv, PlacesInv, ReferencesCounted
        <5>3. IsFiniteSet({}) /\ Cardinality({}) = 0
          BY FS_EmptySet
        <5>4. QED
          BY <2>6, <2>15, <4>2, <5>1, <5>2, <5>3
      <4>3. QED
        BY <4>1, <4>2
    <3>2. QED
      BY <2>16, <3>1 DEF ReferencesCounted
  <2>18. ElementsCounted'
    <3>1. ASSUME NEW r \in Sorts, References(r)' # {}
          PROVE  Ready(r)' + Cardinality(Unreserved(r)') = r[2] - r[1] - 1
      <4>1. r = s /\ Kind(new) = "partition" /\ References(s)' = {q}
        BY <2>15, <3>1
      <4>2. Ready(s)' = 0
        BY <2>6, <4>1 DEF Ready
      <4>3. s[1] \in Nat /\ s[2] \in Nat /\ s[1] < s[2]
        BY <1>8, <2>2, <2>5
      <4>4. Unreserved(s)' = s[1] + 1 .. s[2] - 1
        BY <2>5, <2>13, <4>1 DEF Unreserved, BlockOf
      <4>5. Cardinality(s[1] + 1 .. s[2] - 1) = s[2] - s[1] - 1
        <5>1. PICK m, n : m = s[1] + 1 /\ n = s[2] - 1
          OBVIOUS
        <5>2. m \in Int /\ n \in Int
          BY <4>3, <5>1
        <5>3. Cardinality(m .. n) = IF m > n THEN 0 ELSE n - m + 1
          BY <5>2, FS_Interval
        <5>4. QED
          BY <4>3, <5>1, <5>3
      <4>6. QED
        BY <4>1, <4>2, <4>3, <4>4, <4>5
    <3>2. QED
      BY <2>16, <3>1 DEF ElementsCounted
  <2>19. PlacesInv'
    BY <2>5, <2>12, <2>13, <2>14, <2>17, <2>18 DEF RegionsApart, BlocksApart, ResetLeft,
       PlacesInv
  <2>20. ThreadInv(t)' /\ ~Copying(t)'
    BY <1>7, <2>7, <2>8, <2>9 DEF Copying, PushLabels, Complete, ClaimLabels, KindsAt,
       ThreadInv, NoValues, Kind, NoTask
  <2>21. (\A u \in Threads : ThreadInv(u)') /\ CopiesApart'
    BY <1>5, <2>10, <2>20, ThreadsGo DEF Complete, Copying, TaskLabels, PartitionLabels,
       SortingInv
  <2>22. EndingInv'
    BY <1>4, <2>7, <2>9 DEF Ending, EndingInv
  <2>23. QED
    BY <2>11, <2>19, <2>21, <2>22 DEF SortingInv
<1>11. QED
  BY <1>9, <1>10
-----------------------------------------------------------------------------
(* Before the first step each thread has its part of the array to fill.    *)
LEMMA FirstTasks ==
  ASSUME Init
  PROVE  /\ \A t \in Threads : workers[t] \in Seq(Tasks) /\ Len(workers[t]) = 1
                               /\ Kind(workers[t][1]) = "reset"
         /\ workers \in [Threads -> Seq(Tasks)]
<1>1. N \in Nat \ {0} /\ Len(input) \in Nat
  BY StealerAssumption, QuicksortDequeAssumption DEF Init
<1>2. PICK first : first = [i \in 1 .. N |->
        <<"reset", <<(Len(input) * (i - 1)) \div N, (Len(input) * i) \div N, FALSE>> >>]
  OBVIOUS
<1>3. workers = [t \in Threads |->
        [k \in 1 .. Cardinality({i \in DOMAIN first : (i - 1) % N = t}) |-> first[t + 1 + (k - 1) * N]]]
  BY <1>2 DEF Init, StealerInit
<1>4. ASSUME NEW t \in Threads
      PROVE  workers[t] = << first[t + 1] >> /\ first[t + 1] \in Tasks /\ Kind(first[t + 1]) = "reset"
  <2>1. t \in 0 .. N - 1 /\ t + 1 \in 1 .. N
    BY <1>1 DEF Threads
  <2>2. {i \in DOMAIN first : (i - 1) % N = t} = {t + 1}
    BY <1>1, <1>2, <2>1
  <2>3. Cardinality({t + 1}) = 1
    BY FS_Singleton
  <2>4. workers[t] = [k \in 1 .. 1 |-> first[t + 1 + (k - 1) * N]]
    BY <1>3, <2>2, <2>3
  <2>5. \A k \in 1 .. 1 : t + 1 + (k - 1) * N = t + 1
    BY <1>1, <2>1
  <2>6. workers[t] = [k \in 1 .. 1 |-> first[t + 1]]
    BY <2>4, <2>5
  <2>7. workers[t] = << first[t + 1] >>
    BY <2>6
  <2>8. PICK i, s : i = t + 1 /\ s = <<(Len(input) * (i - 1)) \div N, (Len(input) * i) \div N, FALSE>>
    OBVIOUS
  <2>9. first[i] = <<"reset", s>>
    BY <1>2, <2>1, <2>8
  <2>10. s \in Segments
    <3>1. PICK a, b, k : /\ k = Len(input) /\ a = (k * (i - 1)) \div N /\ b = (k * i) \div N
                         /\ s = <<a, b, FALSE>>
      BY <2>8
    <3>2. a \in 0 .. k /\ b \in 0 .. k /\ a <= b
      BY <1>1, <2>1, <2>8, <3>1, PartBounds
    <3>3. QED
      BY <3>1, <3>2 DEF Segments
  <2>11. first[i] \in Tasks /\ Kind(first[i]) = "reset"
    BY <2>9, <2>10 DEF Tasks, Kind
  <2>12. QED
    BY <2>7, <2>8, <2>11
<1>5. ASSUME NEW t \in Threads
      PROVE  workers[t] \in Seq(Tasks) /\ Len(workers[t]) = 1 /\ Kind(workers[t][1]) = "reset"
  <2>1. PICK d : workers[t] = <<d>> /\ d \in Tasks /\ Kind(d) = "reset"
    BY <1>4
  <2>2. QED
    BY <2>1
<1>6. QED
  BY <1>3, <1>5

(* At first all tasks are resets, in the deques.                           *)
LEMMA InitSorting ==
  ASSUME Init
  PROVE  SortingInv
<1>1. /\ N \in Nat \ {0} /\ input \in Inputs
      /\ A = [i \in 0 .. Len(input) - 1 |-> Unwritten] /\ B = [i \in 0 .. Len(input) - 1 |-> Unwritten]
      /\ pending_tasks = N /\ finished = FALSE
      /\ pc = [t \in Threads |-> "claim"] /\ other = [t \in Threads |-> t]
      /\ task = [t \in Threads |-> NoTask] /\ subtasks = [t \in Threads |-> <<>>]
      /\ reference_count = [s \in Sorts |-> 0] /\ counters = [s \in Sorts |-> 0]
      /\ pivot = [t \in Threads |-> 0] /\ values = [t \in Threads |-> NoValues]
  BY StealerAssumption DEF Init, StealerInit
<1>2. /\ \A t \in Threads : workers[t] \in Seq(Tasks) /\ Len(workers[t]) = 1
                            /\ Kind(workers[t][1]) = "reset"
      /\ workers \in [Threads -> Seq(Tasks)]
  BY FirstTasks
<1>3. TypeOK
  <2>1. A \in ArraysOf(Int) /\ B \in ArraysOf(Int)
    BY <1>1 DEF ArraysOf, Unwritten
  <2>2. NoValues \in BlockValues
    BY DEF NoValues, BlockValues
  <2>3. /\ task \in [Threads -> Tasks \cup {NoTask}] /\ subtasks \in [Threads -> Seq(Tasks)]
        /\ other \in [Threads -> Threads] /\ finished \in BOOLEAN /\ pending_tasks \in Nat
        /\ pivot \in [Threads -> Int] /\ values \in [Threads -> BlockValues]
        /\ reference_count \in [Sorts -> Nat] /\ counters \in [Sorts -> Nat]
    <3>1. finished \in BOOLEAN /\ pending_tasks \in Nat /\ other \in [Threads -> Threads]
      BY <1>1
    <3>2. values \in [Threads -> BlockValues]
      BY <1>1, <2>2
    <3>3. task \in [Threads -> Tasks \cup {NoTask}]
      BY <1>1
    <3>4. subtasks \in [Threads -> Seq(Tasks)]
      BY <1>1
    <3>5. 0 \in Nat /\ 0 \in Int
      OBVIOUS
    <3>6. /\ pivot \in [Threads -> Int]
          /\ reference_count \in [Sorts -> Nat] /\ counters \in [Sorts -> Nat]
      BY <1>1, <3>5
    <3>7. QED
      BY <3>1, <3>2, <3>3, <3>4, <3>6
  <2>4. pc \in [Threads -> ClaimLabels \cup TaskLabels \cup
                 {"createFirst", "pushFirst", "pushParts", "finish"}]
    BY <1>1 DEF ClaimLabels
  <2>5. QED
    BY <1>1, <1>2, <2>1, <2>3, <2>4 DEF TypeOK
<1>4. \A t \in Threads : pc[t] = "claim" /\ task[t] = NoTask /\ subtasks[t] = <<>> /\ values[t] = NoValues
  BY <1>1
<1>5. \A t \in Threads : ThreadInv(t) /\ ~Copying(t) /\ ~Ending(t)
  BY <1>4 DEF ThreadInv, Copying, Ending, ClaimLabels, PushLabels, Complete
<1>6. CopiesApart /\ EndingInv
  BY <1>1, <1>5 DEF CopiesApart, EndingInv
<1>7. \A p : p \in Places <=> \E t \in Threads : p = <<"deque", t, 1>>
  BY <1>2, <1>4, PlacesAre DEF TaskLabels, PartitionLabels, IsPlace
<1>8. \A p \in Places : Kind(TaskAt(p)) = "reset" /\ Region(p) = {} /\ ~Refers(p)
  <2>1. SUFFICES ASSUME NEW t \in Threads, NEW p, p = <<"deque", t, 1>>
                 PROVE  Kind(TaskAt(p)) = "reset" /\ Region(p) = {} /\ ~Refers(p)
    BY <1>7
  <2>2. TaskAt(p) = workers[t][1]
    BY <2>1, TasksAt
  <2>3. Kind(TaskAt(p)) = "reset"
    BY <1>2, <2>2
  <2>4. QED
    BY <2>3 DEF Region, RegionOf, Refers
<1>9. PendingCountsTasks
  <2>1. Singles = Places /\ Objects = {}
    BY <1>8 DEF Singles, Objects, Partitions
  <2>2. IsFiniteSet(Places) /\ Cardinality(Places) = N
    <3>1. PICK g : g = [t \in Threads |-> <<"deque", t, 1>>]
      OBVIOUS
    <3>2. IsFiniteSet(Threads) /\ Cardinality(Threads) = N
      <4>1. PICK m, n : m = 0 /\ n = N - 1
        OBVIOUS
      <4>2. m \in Int /\ n \in Int
        BY <1>1, <4>1
      <4>3. IsFiniteSet(m .. n) /\ Cardinality(m .. n) = IF m > n THEN 0 ELSE n - m + 1
        BY <4>2, FS_Interval
      <4>4. QED
        BY <1>1, <4>1, <4>3 DEF Threads
    <3>3. /\ \A t \in Threads : g[t] \in Places
          /\ \A t, u \in Threads : g[t] = g[u] => t = u
          /\ \A p \in Places : \E t \in Threads : g[t] = p
      BY <1>7, <3>1
    <3>4. QED
      BY <3>2, <3>3, SameCount
  <2>3. IsFiniteSet({}) /\ Cardinality({}) = 0
    BY FS_EmptySet
  <2>4. QED
    BY <1>1, <2>1, <2>2, <2>3 DEF PendingCountsTasks
<1>10. \A s : References(s) = {}
  BY <1>8, ReferencesAre
<1>11. ReferencesCounted
  BY <1>1, <1>10, FS_EmptySet DEF ReferencesCounted
<1>12. PlacesInv
  BY <1>8, <1>9, <1>10, <1>11 DEF RegionsApart, BlocksApart, SameSort, ElementsCounted,
     PlacesInv
<1>13. QED
  BY <1>3, <1>5, <1>6, <1>12 DEF SortingInv

(* Every step keeps the invariant.                                         *)
LEMMA StepKeepsSorting ==
  ASSUME SortingInv, NEW t \in Threads, Step(t)
  PROVE  SortingInv'
<1>1. CASE Claim(t) /\ UNCHANGED quicksortVars
  <2>1. UNCHANGED quicksortVars
    BY <1>1
  <2>2. CASE LoadFinished(t) \/ PopNothing(t) \/ StealNothing(t)
    BY <2>1, <2>2, LooksInVain
  <2>3. CASE PopTask(t)
    BY <2>1, <2>3, PopTaskKeeps
  <2>4. CASE StealTask(t)
    BY <2>1, <2>4, StealTaskKeeps
  <2>5. QED
    BY <1>1, <2>2, <2>3, <2>4 DEF Claim
<1>2. CASE Push(t)
  BY <1>2, PushKeeps
<1>3. CASE ResetRun(t)
  BY <1>3, ResetRunKeeps
<1>4. CASE CountReset(t)
  BY <1>4, CountResetKeeps
<1>5. CASE CreateFirst(t)
  BY <1>5, CreateFirstKeeps
<1>6. CASE SequentialRun(t)
  BY <1>6, SequentialRunKeeps
<1>7. CASE RecursionRun(t)
  BY <1>7, RecursionRunKeeps
<1>8. CASE AdjustPending(t)
  BY <1>8, AdjustPendingKeeps
<1>9. CASE SplitBlocks(t)
  BY <1>9, SplitBlocksKeeps
<1>10. CASE LoadPivot(t)
  BY <1>10, LoadPivotKeeps
<1>11. CASE ReservePlaces(t)
  BY <1>11, ReservePlacesKeeps
<1>12. CASE CopyLeft(t)
  BY <1>12, CopyLeftKeeps
<1>13. CASE CopyRight(t)
  BY <1>13, CopyRightKeeps
<1>14. CASE DropReference(t)
  BY <1>14, DropReferenceKeeps
<1>15. CASE StorePivot(t)
  BY <1>15, StorePivotKeeps
<1>16. CASE CreateLeft(t)
  BY <1>16, CreateLeftKeeps
<1>17. CASE CreateRight(t)
  BY <1>17, CreateRightKeeps
<1>18. CASE Release(t)
  BY <1>18, ReleaseKeeps
<1>19. CASE FinishPool(t)
  BY <1>19, FinishPoolKeeps
<1>20. QED
  BY <1>1, <1>2, <1>3, <1>4, <1>5, <1>6, <1>7, <1>8, <1>9, <1>10, <1>11, <1>12, <1>13, <1>14,
     <1>15, <1>16, <1>17, <1>18, <1>19 DEF Step

(* So does a step that changes nothing.                                    *)
LEMMA SortingStutters == SortingInv /\ UNCHANGED vars => SortingInv'
<1>1. SUFFICES ASSUME SortingInv, UNCHANGED vars PROVE SortingInv'
  OBVIOUS
<1>2. /\ UNCHANGED <<workers, finished, pc, other, task>>
      /\ UNCHANGED <<input, A, B, pending_tasks, reference_count, counters, subtasks, pivot, values>>
  BY <1>1 DEF vars, stealerVars, quicksortVars, arrays, objects, local
<1>3. TypeOK'
  BY <1>1, <1>2, SameTypes DEF SortingInv, TypeOK
<1>4. (\A t \in Threads : ThreadInv(t)') /\ CopiesApart'
  <2>1. \A s : /\ Ready(s)' = Ready(s) /\ LeftArea(s)' = LeftArea(s) /\ RightArea(s)' = RightArea(s)
    BY <1>2 DEF Ready, LeftArea, RightArea
  <2>2. \A t \in Threads : Copying(t)' = Copying(t)
    BY <1>2 DEF Copying
  <2>3. CopiesApart'
    BY <1>1, <1>2, <2>2 DEF SortingInv, CopiesApart
  <2>4. ASSUME NEW t \in Threads PROVE ThreadInv(t)'
    BY <1>1, <1>2, <2>1, <2>2 DEF SortingInv, ThreadInv
  <2>5. QED
    BY <2>3, <2>4
<1>5. PlacesInv'
  BY <1>1, <1>2, KeptHere, Stays DEF Places, InDeque, ToPush, InHand, TaskAt, Stage, SortingInv
<1>6. EndingInv'
  BY <1>1, <1>2 DEF SortingInv, EndingInv, Ending
<1>7. QED
  BY <1>3, <1>4, <1>5, <1>6 DEF SortingInv

(* The invariant holds in every state of every run.                        *)
LEMMA SortingAlways == Spec => []SortingInv
<1>1. SortingInv /\ [Next]_vars => SortingInv'
  <2>1. ASSUME SortingInv, Next PROVE SortingInv'
    BY <2>1, StepKeepsSorting DEF Next
  <2>2. QED
    BY <2>1, SortingStutters
<1>2. Init => SortingInv
  BY InitSorting
<1>3. QED
  BY <1>1, <1>2, PTL DEF Spec

(* What has been reserved is within the segment.                           *)
LEMMA SortingReserves == SortingInv => ReservedPlaces
<1>1. SUFFICES ASSUME SortingInv PROVE ReservedPlaces
  OBVIOUS
<1>2. \A t, u \in Threads :
        t # u /\ pc[t] \in {"copyLeft", "copyRight"} /\ pc[u] \in {"copyLeft", "copyRight"}
              /\ task[t][2] = task[u][2] =>
          PlacesOf(values[t]) \cap PlacesOf(values[u]) = {}
  BY <1>1 DEF SortingInv, CopiesApart, Copying
<1>3. ASSUME NEW t \in Threads, pc[t] \in {"copyLeft", "copyRight"}
      PROVE  PlacesOf(values[t]) \subseteq From(task[t]) .. To(task[t]) - 1
  <2>1. PICK d, s : d = task[t] /\ s = task[t][2]
    OBVIOUS
  <2>2. /\ PlacesOf(values[t]) \subseteq LeftArea(s) \cup RightArea(s)
        /\ Kind(d) = "partition" /\ task[t] # NoTask /\ TypeOK
    BY <1>1, <1>3, <2>1 DEF SortingInv, ClaimLabels, Copying, KindsAt, ThreadInv, PlacesOf
  <2>3. /\ d \in Tasks /\ s \in Sorts /\ s = d[2]
        /\ From(d) \in 0 .. Len(input) /\ To(d) \in 0 .. Len(input) /\ From(d) < To(d)
    BY <2>1, <2>2, TasksAre DEF TypeOK
  <2>4. PICK m, n, l, r : m = From(d) /\ n = To(d) /\ l = LeftCount(counters[s])
                          /\ r = RightCount(counters[s])
    OBVIOUS
  <2>5. /\ m \in Nat /\ n \in Nat /\ m < n /\ l \in Nat /\ r \in Nat
        /\ s[1] = m /\ s[2] = n /\ Ready(s) = l + r /\ Length(d) = n - m
    BY <2>2, <2>3, <2>4, InputType, CountersAre DEF Ready, Length, From, To
  <2>6. Ready(s) <= Length(d) - 1
    <3>1. PICK p : p = <<"thread", t, 1>>
      OBVIOUS
    <3>2. p \in Partitions /\ TaskAt(p) = d
      BY <1>3, <2>1, <2>2, <3>1, PlacesAre DEF Partitions, TaskAt, IsPlace, TaskLabels, PartitionLabels
    <3>3. QED
      BY <1>1, <2>3, <3>2, MiddleIn
  <2>7. LeftArea(s) = m .. m + l - 1 /\ RightArea(s) = n - r .. n - 1
    BY <2>4, <2>5 DEF LeftArea, RightArea
  <2>8. m .. m + l - 1 \subseteq m .. n - 1 /\ n - r .. n - 1 \subseteq m .. n - 1
    BY <2>5, <2>6
  <2>9. QED
    BY <2>1, <2>2, <2>4, <2>7, <2>8
<1>4. ASSUME NEW t \in Threads, pc[t] = "storePivot"
      PROVE  LeftCount(counters[task[t][2]]) + RightCount(counters[task[t][2]]) + 1 = Length(task[t])
  BY <1>1, <1>4 DEF SortingInv, ClaimLabels, Complete, KindsAt, ThreadInv, Ready
<1>5. QED
  BY <1>2, <1>3, <1>4 DEF ReservedPlaces

(* QuicksortDeque keeps PartitionInv: whatever is sorted and however the   *)
(* threads interleave, pending_tasks is the number of tasks that are left, *)
(* threads that partition blocks of one segment write each to places of    *)
(* their own within it, and the assertion of run_parallel_partition that   *)
(* the counters are complete never fails.                                  *)
THEOREM PartitionSafe == Spec => []PartitionInv
<1>1. SortingInv => PartitionInv
  BY SortingReserves DEF SortingInv, PlacesInv, PartitionInv
<1>2. QED
  BY <1>1, SortingAlways, PTL

(* QuicksortDeque keeps ReferencesCounted: a Sort object has a reference   *)
(* for each task that works on it, so that the thread that finds 1 is the  *)
(* only one that creates the tasks of the parts and frees the object.      *)
THEOREM ReferencesSafe == Spec => []ReferencesCounted
<1>1. SortingInv => ReferencesCounted
  BY DEF SortingInv, PlacesInv
<1>2. QED
  BY <1>1, SortingAlways, PTL
=============================================================================
