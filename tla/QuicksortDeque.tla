--------------------------- MODULE QuicksortDeque ---------------------------
(***************************************************************************)
(* The work-stealing quicksort of src/cases/quicksort/                     *)
(* deque_parallel_partition.rs on the pool of DequeStealer.  The blocks of *)
(* a segment are partitioned by tasks that split themselves and share a    *)
(* Sort object, which they count references to; the last one creates the   *)
(* tasks of the two parts.  Each thread has a task to fill the array with. *)
(***************************************************************************)
EXTENDS DequeStealer, QuicksortSegments

CONSTANTS
  Inputs,             \* the sequences to be sorted
  BLOCK_SIZE,
  SEQUENTIAL_CUTOFF,
  DATAPAR_CUTOFF

(* A segment that is partitioned in place has four elements or more, so    *)
(* that there is a recursive call, and the counters do not overflow.       *)
ASSUME QuicksortDequeAssumption ==
  /\ \A s \in Inputs : s \in Seq(Nat) /\ Len(s) < HALF
  /\ HALF \in Nat /\ BLOCK_SIZE \in Nat \ {0}
  /\ SEQUENTIAL_CUTOFF \in Nat /\ DATAPAR_CUTOFF \in Nat
  /\ 4 <= SEQUENTIAL_CUTOFF /\ SEQUENTIAL_CUTOFF <= DATAPAR_CUTOFF

VARIABLES
  input,            \* what the array is reset to
  A,                \* the array `input` of reset_and_sort
  B,                \* the array `output`
  pending_tasks,
  reference_count,  \* reference_count[s]: of the Sort object s
  counters,         \* counters[s]: of the Sort object s
  subtasks,         \* subtasks[t]: the tasks t has still to push
  pivot,            \* pivot[t]: the pivot as t read it, or its position
  values            \* values[t]: the partitioned block and where it goes

arrays == <<A, B>>
objects == <<reference_count, counters>>
local == <<pivot, values>>
quicksortVars == <<input, arrays, pending_tasks, objects, subtasks, local>>
vars == <<stealerVars, quicksortVars>>

(* Tasks.  A partition task is <<kind, sort, start_block, end_block>>, the *)
(* others <<kind, segment>>; a Sort object or segment is <<from, to,       *)
(* input_output_flipped>>, flipped when its elements are in B.             *)
Kind(d) == d[1]
From(d) == d[2][1]
To(d) == d[2][2]
Flipped(d) == d[2][3]
Length(d) == To(d) - From(d)

Sorts == {s \in (0 .. Len(input)) \X (0 .. Len(input)) \X BOOLEAN : s[1] < s[2]}

Unwritten == -1

Init ==
  /\ input \in Inputs
  /\ A = [i \in 0 .. Len(input) - 1 |-> Unwritten]
  /\ B = [i \in 0 .. Len(input) - 1 |-> Unwritten]
  /\ StealerInit([i \in 1 .. N |->
       <<"reset", <<(Len(input) * (i - 1)) \div N, (Len(input) * i) \div N, FALSE>> >>])
  /\ pending_tasks = N
  /\ reference_count = [s \in Sorts |-> 0]
  /\ counters = [s \in Sorts |-> 0]
  /\ subtasks = [t \in Threads |-> <<>>]
  /\ pivot = [t \in Threads |-> 0]
  /\ values = [t \in Threads |-> NoValues]

-----------------------------------------------------------------------------
(* Pushing the tasks that were made, before the thread goes on.            *)

PushLabels == {"pushFirst", "pushParts", "pushBlocks", "pushLeft", "pushRight"}

AfterPush(label) ==
  CASE label = "pushBlocks" -> "pivot"
    [] label = "pushLeft"   -> "right"
    [] label = "pushRight"  -> "release"
    [] OTHER                -> "claim"

Push(t) ==
  /\ pc[t] \in PushLabels
  /\ PushTask(t, Head(subtasks[t]))
  /\ subtasks' = [subtasks EXCEPT ![t] = Tail(@)]
  /\ IF Len(subtasks[t]) > 1 THEN UNCHANGED <<pc, task>>
     ELSE IF AfterPush(pc[t]) = "claim" THEN Return(t)
     ELSE Goto(t, AfterPush(pc[t])) /\ UNCHANGED task
  /\ UNCHANGED <<finished, other, input, arrays, pending_tasks, objects, local>>

(* create_task: a part of less than two elements is copied where needed,   *)
(* another one is counted and made a task, which the caller pushes.        *)

Blocks(from, to) == CeilDiv(to - from - 1, BLOCK_SIZE)

NewTask(from, to, flipped) ==
  LET s == <<from, to, flipped>>
  IN  IF to - from < SEQUENTIAL_CUTOFF THEN <<"sequential", s>>
      ELSE IF to - from < DATAPAR_CUTOFF THEN <<"recursion", s>>
      ELSE <<"partition", s, 0, Blocks(from, to)>>

\* Mutated: a part of one element is never copied.
CopySingleNever(from, to, flipped) == UNCHANGED arrays

CopySingle(from, to, flipped) ==
  IF to - from = 1 /\ ~flipped
    THEN B' = [B EXCEPT ![from] = A[from]] /\ UNCHANGED A
    ELSE UNCHANGED arrays

CreateTask(t, from, to, flipped, push, next) ==
  IF to - from < 2
    THEN /\ CopySingle(from, to, flipped)
         /\ Goto(t, next)
         /\ UNCHANGED <<pending_tasks, objects, subtasks>>
    ELSE LET new == NewTask(from, to, flipped)
         IN  /\ pending_tasks' = pending_tasks + 1
             /\ subtasks' = [subtasks EXCEPT ![t] = <<new>>]
             /\ IF Kind(new) = "partition"
                  THEN /\ reference_count' = [reference_count EXCEPT ![new[2]] = 1]
                       /\ counters' = [counters EXCEPT ![new[2]] = 0]
                  ELSE UNCHANGED objects
             /\ Goto(t, push)
             /\ UNCHANGED arrays

-----------------------------------------------------------------------------
(* run_reset.                                                              *)

ResetRun(t) ==
  /\ pc[t] = "run" /\ Kind(task[t]) = "reset"
  /\ A' = Overwrite(A, From(task[t]), SubSeq(input, From(task[t]) + 1, To(task[t])))
  /\ Goto(t, "countReset")
  /\ UNCHANGED <<workers, finished, other, task, input, B, pending_tasks, objects, subtasks, local>>

CountReset(t) ==
  /\ pc[t] = "countReset"
  /\ pending_tasks' = pending_tasks - 1
  /\ IF pending_tasks = 1 THEN Goto(t, "createFirst") /\ UNCHANGED task ELSE Return(t)
  /\ UNCHANGED <<workers, finished, other, input, arrays, objects, subtasks, local>>

(* An array of less than two elements is sorted when create_task returns.  *)
CreateFirst(t) ==
  /\ pc[t] = "createFirst"
  /\ CreateTask(t, 0, Len(input), FALSE, "pushFirst", "finish")
  /\ UNCHANGED <<workers, finished, other, task, input, local>>

-----------------------------------------------------------------------------
(* run_sequential and run_recursion_parallel, in place after a copy.       *)

Source(d) == IF Flipped(d) THEN B ELSE A
Segment(d) == Slice(Source(d), From(d), To(d))

SequentialRun(t) ==
  /\ pc[t] = "run" /\ Kind(task[t]) = "sequential"
  /\ B' = Overwrite(B, From(task[t]), Sorted(Segment(task[t])))
  /\ Goto(t, "release")
  /\ UNCHANGED <<workers, finished, other, task, input, A, pending_tasks, objects, subtasks, local>>

RecursionRun(t) ==
  /\ pc[t] = "run" /\ Kind(task[t]) = "recursion"
  /\ B' = Overwrite(B, From(task[t]), PartitionedSequentially(Segment(task[t])))
  /\ pivot' = [pivot EXCEPT ![t] = PivotPosition(Segment(task[t]))]
  /\ Goto(t, "adjust")
  /\ UNCHANGED <<workers, finished, other, task, input, A, pending_tasks, objects, subtasks, values>>

(* create_task_task_parallel for both parts.                               *)
PartTask(from, to) ==
  IF to - from < 2 THEN <<>>
  ELSE << <<IF to - from < SEQUENTIAL_CUTOFF THEN "sequential" ELSE "recursion",
            <<from, to, TRUE>> >> >>

(* There is at least one, so that pending_tasks does not become zero here. *)
AdjustPending(t) ==
  /\ pc[t] = "adjust"
  /\ LET d == task[t]
         p == From(d) + pivot[t]
         new == PartTask(From(d), p) \o PartTask(p + 1, To(d))
     IN  /\ pending_tasks' = pending_tasks + CountRecursiveCalls(Length(d), pivot[t]) - 1
         /\ subtasks' = [subtasks EXCEPT ![t] = new]
  /\ Goto(t, "pushParts")
  /\ UNCHANGED <<workers, finished, other, task, input, arrays, objects, local>>

-----------------------------------------------------------------------------
(* run_parallel_partition: the task keeps one block, the others go to one  *)
(* or two subtasks.  The first of two has a multiple of BLOCK_SIZE blocks, *)
(* possibly none; a task without blocks only drops its reference.          *)

OwnEnd(d) == IF d[4] - d[3] >= 2 THEN d[3] + 1 ELSE d[4]

\* Mutated: a block is in neither subtask.
BlockTasksGap(d) ==
  IF OwnEnd(d) = d[4] THEN <<>> ELSE << <<"partition", d[2], OwnEnd(d) + 1, d[4]>> >>

BlockTasks(d) ==
  LET others == d[4] - OwnEnd(d)
      mid    == OwnEnd(d) + ((others \div 2) \div BLOCK_SIZE) * BLOCK_SIZE
      Subtask(from, to) == <<"partition", d[2], from, to>>
  IN  IF others = 0 THEN <<>>
      ELSE IF others < 2 THEN << Subtask(OwnEnd(d), d[4]) >>
      ELSE << Subtask(OwnEnd(d), mid), Subtask(mid, d[4]) >>

\* Mutated: one reference for two subtasks.
AddedOnce(new) == IF new = <<>> THEN 0 ELSE 1
AddedReferences(new) == Len(new)

SplitBlocks(t) ==
  /\ pc[t] = "run" /\ Kind(task[t]) = "partition"
  /\ LET new == BlockTasks(task[t])
     IN  /\ reference_count' = [reference_count EXCEPT ![task[t][2]] = @ + AddedReferences(new)]
         /\ subtasks' = [subtasks EXCEPT ![t] = new]
         /\ Goto(t, IF new = <<>> THEN "pivot" ELSE "pushBlocks")
  /\ UNCHANGED <<workers, finished, other, task, input, arrays, pending_tasks, counters, local>>

LoadPivot(t) ==
  /\ pc[t] = "pivot"
  /\ pivot' = [pivot EXCEPT ![t] = Source(task[t])[From(task[t])]]
  /\ Goto(t, IF task[t][3] < OwnEnd(task[t]) THEN "partition" ELSE "drop")
  /\ UNCHANGED <<workers, finished, other, task, input, arrays, pending_tasks, objects, subtasks,
                 values>>

ReservePlaces(t) ==
  /\ pc[t] = "partition"
  /\ LET d     == task[t]
         block == ChunkOf(Source(d), From(d), To(d), 1 + d[3] * BLOCK_SIZE, BLOCK_SIZE)
         new   == Partitioned(block, pivot[t], From(d), To(d), counters[d[2]])
     IN  /\ counters' = [counters EXCEPT ![d[2]] = @ + Reserved(new)]
         /\ values' = [values EXCEPT ![t] = new]
  /\ Goto(t, "copyLeft")
  /\ UNCHANGED <<workers, finished, other, task, input, arrays, pending_tasks, reference_count,
                 subtasks, pivot>>

StoreOutput(d, from, new) ==
  IF Flipped(d) THEN A' = Overwrite(A, from, new) /\ UNCHANGED B
                ELSE B' = Overwrite(B, from, new) /\ UNCHANGED A

CopyLeft(t) ==
  /\ pc[t] = "copyLeft"
  /\ StoreOutput(task[t], values[t].left_offset, values[t].left)
  /\ Goto(t, "copyRight")
  /\ UNCHANGED <<workers, finished, other, task, input, pending_tasks, objects, subtasks, local>>

CopyRight(t) ==
  /\ pc[t] = "copyRight"
  /\ StoreOutput(task[t], values[t].right_offset, values[t].right)
  /\ values' = [values EXCEPT ![t] = NoValues]
  /\ Goto(t, "drop")
  /\ UNCHANGED <<workers, finished, other, task, input, pending_tasks, objects, subtasks, pivot>>

DropReference(t) ==
  /\ pc[t] = "drop"
  /\ reference_count' = [reference_count EXCEPT ![task[t][2]] = @ - 1]
  /\ IF reference_count[task[t][2]] = 1
       THEN Goto(t, "storePivot") /\ UNCHANGED task
       ELSE Return(t)
  /\ UNCHANGED <<workers, finished, other, input, arrays, pending_tasks, counters, subtasks, local>>

Position(d) == LeftCount(counters[d[2]])

StorePivot(t) ==
  /\ pc[t] = "storePivot"
  /\ LET d == task[t]
     IN  B' = Overwrite(B, From(d) + Position(d), << Source(d)[From(d)] >>)
  /\ Goto(t, "left")
  /\ UNCHANGED <<workers, finished, other, task, input, A, pending_tasks, objects, subtasks, local>>

CreateLeft(t) ==
  /\ pc[t] = "left"
  /\ LET d == task[t]
     IN  CreateTask(t, From(d), From(d) + Position(d), ~Flipped(d), "pushLeft", "right")
  /\ UNCHANGED <<workers, finished, other, task, input, local>>

CreateRight(t) ==
  /\ pc[t] = "right"
  /\ LET d == task[t]
     IN  CreateTask(t, From(d) + Position(d) + 1, To(d), ~Flipped(d), "pushRight", "release")
  /\ UNCHANGED <<workers, finished, other, task, input, local>>

-----------------------------------------------------------------------------
(* The end of sequential and partition tasks.                              *)

Release(t) ==
  /\ pc[t] = "release"
  /\ pending_tasks' = pending_tasks - 1
  /\ IF pending_tasks = 1 THEN Goto(t, "finish") /\ UNCHANGED task ELSE Return(t)
  /\ UNCHANGED <<workers, finished, other, input, arrays, objects, subtasks, local>>

FinishPool(t) ==
  /\ pc[t] = "finish"
  /\ Finish
  /\ Return(t)
  /\ UNCHANGED <<workers, other, quicksortVars>>

Step(t) ==
  \/ Claim(t) /\ UNCHANGED quicksortVars
  \/ Push(t)
  \/ ResetRun(t)
  \/ CountReset(t)
  \/ CreateFirst(t)
  \/ SequentialRun(t)
  \/ RecursionRun(t)
  \/ AdjustPending(t)
  \/ SplitBlocks(t)
  \/ LoadPivot(t)
  \/ ReservePlaces(t)
  \/ CopyLeft(t)
  \/ CopyRight(t)
  \/ DropReference(t)
  \/ StorePivot(t)
  \/ CreateLeft(t)
  \/ CreateRight(t)
  \/ Release(t)
  \/ FinishPool(t)

Next == \E t \in Threads : Step(t)

Spec == Init /\ [][Next]_vars

(* The operating system runs every thread of the pool.                     *)
FairSpec == Spec /\ \A t \in Threads : WF_vars(Step(t))

-----------------------------------------------------------------------------
Segments == {s \in (0 .. Len(input)) \X (0 .. Len(input)) \X BOOLEAN : s[1] <= s[2]}

Tasks ==
  ({"reset"} \X Segments) \cup ({"sequential"} \X Sorts)
  \cup ({"recursion"} \X {s \in Sorts : s[2] - s[1] >= SEQUENTIAL_CUTOFF})
  \cup {d \in {"partition"} \X Sorts \X (0 .. Len(input)) \X (0 .. Len(input)) :
          d[3] <= d[4] /\ d[4] <= Blocks(From(d), To(d))}

(* The labels of a thread whose task is not counted down, and of these the *)
(* ones where a partition task still needs its Sort object.                *)
PartitionLabels == {"run", "pushBlocks", "pivot", "partition", "copyLeft", "copyRight", "drop"}

TaskLabels ==
  PartitionLabels \cup {"countReset", "adjust", "storePivot", "left", "pushLeft", "right",
                        "pushRight", "release"}

BlockValues == [left : Seq(Int), right : Seq(Int), left_offset : Nat, right_offset : Nat]

ArraysOf(type) == [0 .. Len(input) - 1 -> type]

(* Indexes stay in the arrays, unsigned counters do not wrap, and a task   *)
(* is on a part of the array.                                              *)
TypeOK ==
  /\ input \in Inputs
  /\ A \in ArraysOf(Int) /\ B \in ArraysOf(Int)
  /\ pending_tasks \in Nat
  /\ reference_count \in [Sorts -> Nat] /\ counters \in [Sorts -> Nat]
  /\ workers \in [Threads -> Seq(Tasks)] /\ subtasks \in [Threads -> Seq(Tasks)]
  /\ task \in [Threads -> Tasks \cup {NoTask}]
  /\ other \in [Threads -> Threads] /\ finished \in BOOLEAN
  /\ pc \in [Threads -> ClaimLabels \cup TaskLabels \cup
                        {"createFirst", "pushFirst", "pushParts", "finish"}]
  /\ pivot \in [Threads -> Int]
  /\ values \in [Threads -> BlockValues]

(* The places of the tasks that are not done: in a deque, counted and      *)
(* about to be pushed, or with the thread that executes the task.          *)
InDeque(t) == {<<"deque", t, i>> : i \in DOMAIN workers[t]}
ToPush(t)  == {<<"push", t, i>> : i \in DOMAIN subtasks[t]}
InHand(t)  == IF pc[t] \in TaskLabels THEN {<<"thread", t, 1>>} ELSE {}

Places == UNION {InDeque(t) \cup ToPush(t) \cup InHand(t) : t \in Threads}

TaskAt(p) ==
  CASE p[1] = "deque"  -> workers[p[2]][p[3]]
    [] p[1] = "push"   -> subtasks[p[2]][p[3]]
    [] p[1] = "thread" -> task[p[2]]

(* The references to a Sort object.                                        *)
References(s) ==
  {p \in Places :
     /\ Kind(TaskAt(p)) = "partition" /\ TaskAt(p)[2] = s
     /\ p[1] = "thread" => pc[p[2]] \in PartitionLabels}

(* A Sort object has a reference for each task that works on it, in a      *)
(* deque, to be pushed or executed: the one thread that finds 1 may create *)
(* the tasks of the parts and free the object.                             *)
ReferencesCounted ==
  \A s \in Sorts : IsFiniteSet(References(s)) /\ reference_count[s] = Cardinality(References(s))

(* The tasks on the blocks of one segment count as one: for its Sort       *)
(* object.                                                                 *)
Partitions == {p \in Places : Kind(TaskAt(p)) = "partition"}
Singles    == Places \ Partitions
Objects    == {TaskAt(p)[2] : p \in Partitions}

(* pending_tasks is the number of tasks that wait or are executed, where   *)
(* the tasks on the blocks of one segment count as one: it is zero only    *)
(* between the reset and the sort, and at the end of the sort.             *)
PendingCountsTasks ==
  /\ IsFiniteSet(Singles) /\ IsFiniteSet(Objects)
  /\ pending_tasks = Cardinality(Singles) + Cardinality(Objects)

(* Threads that partition blocks of one segment write to places of their   *)
(* own, and the counters are complete when the last one has dropped its    *)
(* reference (the assertion in run_parallel_partition).                    *)
ReservedPlaces ==
  /\ \A t, u \in Threads :
       t # u /\ pc[t] \in {"copyLeft", "copyRight"} /\ pc[u] \in {"copyLeft", "copyRight"}
             /\ task[t][2] = task[u][2] =>
         PlacesOf(values[t]) \cap PlacesOf(values[u]) = {}
  /\ \A t \in Threads : pc[t] \in {"copyLeft", "copyRight"} =>
       PlacesOf(values[t]) \subseteq From(task[t]) .. To(task[t]) - 1
  /\ \A t \in Threads : pc[t] = "storePivot" =>
       LET c == counters[task[t][2]]
       IN  LeftCount(c) + RightCount(c) + 1 = Length(task[t])

(* The array is sorted when finish is called: single elements and pivots   *)
(* were stored before their task was counted down.                         *)
FinishedMeansSorted == finished => \A i \in DOMAIN B : B[i] = Sorted(input)[i + 1]

(* The sort ends: the last task is noticed and every thread returns.       *)
Termination == <>(\A t \in Threads : pc[t] = "returned")

(* The tasks that are left are counted exactly, and the threads that       *)
(* partition a segment write each to places of its own.                    *)
PartitionInv ==
  /\ TypeOK
  /\ PendingCountsTasks
  /\ ReservedPlaces
=============================================================================
