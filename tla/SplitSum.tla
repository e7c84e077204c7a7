------------------------------ MODULE SplitSum ------------------------------
(***************************************************************************)
(* The reductions over DequeStealer: prime/deque.rs, sum_array/deque.rs    *)
(* and sum_function/deque.rs, which differ in the value of an element      *)
(* only.  A task is a range of elements.  A long range is split in a block *)
(* the thread keeps and one or two subtasks; the last task to end, by the  *)
(* count of pending tasks, finishes the pool.                              *)
(***************************************************************************)
EXTENDS DequeStealer

CONSTANTS
  BlockSize,
  Lengths      \* numbers of elements to reduce

ASSUME SplitAssumption ==
  /\ BlockSize \in Nat \ {0}
  /\ Lengths \subseteq Nat

VARIABLES
  length,     \* length of the input
  pending,    \* pending: an AtomicU32 of the caller of the pool
  counter,    \* counter[e]: how often element e was added to the sum
  split_off   \* split_off[t]: what the task of t has still to push

sumVars == <<length, pending, counter, split_off>>
splitVars == <<stealerVars, sumVars>>

Elements == 0 .. length - 1

(* A task is <<start, end>>, without the end.                              *)
RangeOf(d) == d[1] .. d[2] - 1

SumInit ==
  /\ length \in Lengths
  /\ StealerInit(<< <<0, length>> >>)
  /\ pending = 1
  /\ counter = [e \in Elements |-> 0]
  /\ split_off = [t \in Threads |-> <<>>]

-----------------------------------------------------------------------------
(* The function run.                                                       *)

Splits(d) == d[2] - d[1] >= 2 * BlockSize

KeptEnd(d) == IF Splits(d) THEN d[1] + BlockSize ELSE d[2]

\* Mutated: the halves overlap in the element in the middle.
SubtasksOverlap(d) ==
  LET rest == d[2] - KeptEnd(d)
      mid  == KeptEnd(d) + rest \div 2
  IN  IF ~Splits(d) THEN <<>>
      ELSE IF rest < 2 * BlockSize THEN << <<KeptEnd(d), d[2]>> >>
      ELSE << <<KeptEnd(d), mid + 1>>, <<mid, d[2]>> >>

Subtasks(d) ==
  LET rest == d[2] - KeptEnd(d)
      mid  == KeptEnd(d) + rest \div 2
  IN  IF ~Splits(d) THEN <<>>
      ELSE IF rest < 2 * BlockSize THEN << <<KeptEnd(d), d[2]>> >>
      ELSE << <<KeptEnd(d), mid>>, <<mid, d[2]>> >>

(* What a split adds to the pending tasks.                                 *)
Counted(new) == Len(new)

(* The subtasks are counted before they are pushed.                        *)
Start(t) ==
  /\ pc[t] = "run"
  /\ LET new == Subtasks(task[t])
     IN  /\ pending' = pending + Counted(new)
         /\ split_off' = [split_off EXCEPT ![t] = new]
         /\ Goto(t, IF new = <<>> THEN "add" ELSE "push")
  /\ UNCHANGED <<workers, finished, other, task, length, counter>>

PushSubtask(t) ==
  /\ pc[t] = "push"
  /\ PushTask(t, Head(split_off[t]))
  /\ split_off' = [split_off EXCEPT ![t] = Tail(@)]
  /\ Goto(t, IF Len(split_off[t]) = 1 THEN "add" ELSE "push")
  /\ UNCHANGED <<finished, other, task, length, pending, counter>>

Own(d) == d[1] .. KeptEnd(d) - 1

AddSum(t) ==
  /\ pc[t] = "add"
  /\ counter' = [e \in Elements |->
                   counter[e] + IF e \in Own(task[t]) THEN 1 ELSE 0]
  /\ Goto(t, "release")
  /\ UNCHANGED <<workers, finished, other, task, length, pending, split_off>>

\* Mutated: compares the new value, not the value fetch_sub returns.
IsLastOfNew(old) == old - 1 = 1
IsLast(old) == old = 1

ReleaseSum(t) ==
  /\ pc[t] = "release"
  /\ pending' = pending - 1
  /\ IF IsLast(pending)
       THEN Goto(t, "finish") /\ UNCHANGED task
       ELSE Return(t)
  /\ UNCHANGED <<workers, finished, other, length, counter, split_off>>

FinishSum(t) ==
  /\ pc[t] = "finish"
  /\ Finish
  /\ Return(t)
  /\ UNCHANGED <<workers, other, sumVars>>

SumStep(t) ==
  \/ Claim(t) /\ UNCHANGED sumVars
  \/ Start(t)
  \/ PushSubtask(t)
  \/ AddSum(t)
  \/ ReleaseSum(t)
  \/ FinishSum(t)

SumNext == \E t \in Threads : SumStep(t)

SumSpec == SumInit /\ [][SumNext]_splitVars

(* The operating system runs every thread of the pool.                     *)
FairSumSpec == SumSpec /\ \A t \in Threads : WF_splitVars(SumStep(t))

-----------------------------------------------------------------------------
Ranges == {d \in (0 .. length) \X (0 .. length) : d[1] <= d[2]}

(* The variables have the types of the program's, and a task is a range.   *)
SumTypeOK ==
  /\ length \in Lengths
  /\ workers \in [Threads -> Seq(Ranges)]
  /\ split_off \in [Threads -> Seq(Ranges)]
  /\ task \in [Threads -> Ranges \cup {NoTask}]
  /\ finished \in BOOLEAN
  /\ pc \in [Threads -> ClaimLabels \cup
                        {"run", "push", "add", "release", "finish"}]
  /\ other \in [Threads -> Threads]
  /\ pending \in Nat
  /\ counter \in [Elements -> Nat]

(* A thread has a task from when it claims one until run returns, and      *)
(* subtasks to push from when they are counted until they are in its deque.*)
TasksInHand ==
  \A t \in Threads :
    /\ task[t] = NoTask <=> pc[t] \in ClaimLabels
    /\ split_off[t] = <<>> <=> pc[t] # "push"

(* The places of the tasks that are not done: in a deque, counted and      *)
(* about to be pushed, or with the thread that executes the task.          *)
RangesInDeque(t) == {<<"deque", t, i>> : i \in DOMAIN workers[t]}
RangesToPush(t)  == {<<"push", t, i>> : i \in DOMAIN split_off[t]}
RangeInHand(t)  == IF pc[t] \in {"run", "push", "add", "release"}
                     THEN {<<"thread", t, 1>>} ELSE {}

RangePlaces == UNION {RangesInDeque(t) \cup RangesToPush(t) \cup RangeInHand(t) : t \in Threads}

(* pending is the number of tasks that are queued, about to be queued or   *)
(* executed, whoever steals them (data.pending in run).                    *)
PendingCountsRanges == IsFiniteSet(RangePlaces) /\ pending = Cardinality(RangePlaces)

(* What thread t is going to add itself.                                   *)
ToAdd(t) ==
  IF pc[t] = "run" THEN RangeOf(task[t])
  ELSE IF pc[t] \in {"push", "add"} THEN Own(task[t]) ELSE {}

(* The elements that wait at a place to be added.                          *)
ElementsAt(p) ==
  CASE p[1] = "deque"  -> RangeOf(workers[p[2]][p[3]])
    [] p[1] = "push"   -> RangeOf(split_off[p[2]][p[3]])
    [] p[1] = "thread" -> ToAdd(p[2])

(* Splitting neither loses an element nor gives it to two tasks: it is in  *)
(* one place until it is added, and it is added once.                      *)
ElementOnce ==
  \A e \in Elements :
    \/ counter[e] = 0 /\ \E p \in RangePlaces : \A q \in RangePlaces : e \in ElementsAt(q) <=> q = p
    \/ counter[e] = 1 /\ \A p \in RangePlaces : e \notin ElementsAt(p)

(* The thread whose decrement was the last finishes a pool without tasks.  *)
LastTask == finished \/ (\E t \in Threads : pc[t] = "finish") => pending = 0

(* The pool is finished only when the sum is complete, so that the counter *)
(* that count_primes or sum loads after the pool has the whole result.     *)
FinishedMeansSummed == finished => \A e \in Elements : counter[e] = 1

(* Every thread of the pool returns: the last task is noticed, and so is   *)
(* the flag by the threads that look for work.                             *)
SumTermination == <>(\A t \in Threads : pc[t] = "returned")

(* The tasks that are left are counted exactly, and every element is in one *)
(* of them or in one sum (run in cases/*/deque.rs).                        *)
SumInv ==
  /\ SumTypeOK
  /\ TasksInHand
  /\ PendingCountsRanges
  /\ ElementOnce
  /\ LastTask
=============================================================================
