------------------------------ MODULE Quicksort ------------------------------
(***************************************************************************)
(* The parallel quicksort of src/cases/quicksort (our.rs) with the tasks   *)
(* it ends in for short segments (task_parallel.rs, sequential.rs), and    *)
(* the task-parallel sort alone.  A long segment is partitioned by a       *)
(* data-parallel task from one array into the other: each chunk reserves   *)
(* its places at both ends of the output by one fetch_add on two packed    *)
(* counters.  The halves are sorted with the arrays exchanged, the result  *)
(* always ends in the second array, here B.  It runs on AssistPool.        *)
(***************************************************************************)
EXTENDS QuicksortSegments

CONSTANTS
  N,                  \* number of threads
  Inputs,             \* the sequences to be sorted
  Modes,              \* "DataParallel", "OnlyTaskParallel"
  BLOCK_SIZE,
  CHUNK_DIV,          \* S::CHUNK_SIZE of the scheduler
  SEQUENTIAL_CUTOFF,
  DATAPAR_CUTOFF

(* A segment that is partitioned has at least four elements, so that there *)
(* is a recursive call: the code for none finishes the pool before single  *)
(* elements are copied.  The counters do not overflow.                     *)
ASSUME QuicksortAssumption ==
  /\ N \in Nat \ {0}
  /\ \A s \in Inputs : s \in Seq(Nat) /\ Len(s) > 1 /\ Len(s) < HALF
  /\ Modes \subseteq {"DataParallel", "OnlyTaskParallel"}
  /\ CHUNK_DIV \in Nat \ {0} /\ BLOCK_SIZE \in Nat /\ BLOCK_SIZE >= CHUNK_DIV
  /\ 4 <= SEQUENTIAL_CUTOFF /\ SEQUENTIAL_CUTOFF <= DATAPAR_CUTOFF

CHUNK == BLOCK_SIZE \div CHUNK_DIV

(* A task and its segment, in the order of arrays: the elements from ..    *)
(* to - 1 of both.  flipped: the elements are in B.                        *)
Task(kind, from, to, flipped) ==
  [kind |-> kind, from |-> from, to |-> to, flipped |-> flipped]

NoTask == Task("none", 0, 0, FALSE)

Length(a) == a.to - a.from

(* A partition leaves out the first element, the pivot.                    *)
Size(a) ==
  CASE a.kind = "reset"     -> CeilDiv(Length(a), CHUNK)
    [] a.kind = "partition" -> CeilDiv(Length(a) - 1, CHUNK)
    [] OTHER                -> 0

(* Where the work and the finish functions of a task start.                *)
Entry(a) ==
  CASE a.kind = "reset"     -> "loop"
    [] a.kind = "partition" -> "pivot"
    [] OTHER                -> "none"

After(a) == "leave"

Exit(a) ==
  CASE a.kind = "reset"     -> "createFirst"
    [] a.kind = "partition" -> "storePivot"
    [] OTHER                -> IF a.flipped THEN a.kind ELSE "copy"

VARIABLES
  input,       \* what the array is reset to
  mode,        \* kind of the Reset task
  A,           \* the first array, the input
  B,           \* the second array, the output; the only one without data
               \* parallelism
  pending,     \* pending_tasks
  queued, open, claimed, is_finished, pc, task, chunk,  \* see AssistPool
  counters,    \* counters[a]: the two counters of partition a
  pivot,       \* pivot[t]: the pivot as t read it; in run_go, `right`
  values       \* values[t]: the partitioned chunk and where it goes

INSTANCE AssistPool

\* What a function of a task leaves to the pool.
scheduling == <<open, claimed, is_finished, chunk>>

arrays == <<A, B>>
problem == <<input, mode>>
sortVars == <<problem, arrays, pending, counters, pivot, values>>
vars == <<queued, scheduling, pc, task, sortVars>>

ResetTask == Task("reset", 0, Len(input), FALSE)

Segments == {s \in (0 .. Len(input)) \X (0 .. Len(input)) : s[1] < s[2]}

Tasks == {ResetTask} \cup
  {Task(kind, s[1], s[2], flipped) :
     kind \in {"partition", "sort", "sequential"}, s \in Segments, flipped \in BOOLEAN}

Unwritten == -1

Init ==
  /\ input \in Inputs
  /\ mode \in Modes
  /\ A = [i \in 0 .. Len(input) - 1 |-> Unwritten]
  /\ B = [i \in 0 .. Len(input) - 1 |-> Unwritten]
  /\ pending = 1
  /\ PoolInit(ResetTask, Tasks)
  /\ counters = [a \in Tasks |-> 0]
  /\ pivot = [t \in Threads |-> 0]
  /\ values = [t \in Threads |-> NoValues]

-----------------------------------------------------------------------------
(* create_task of our.rs: the task for a segment, if it needs one.         *)

NewTask(from, to, flipped) ==
  Task(IF to - from < SEQUENTIAL_CUTOFF THEN "sequential"
       ELSE IF to - from < DATAPAR_CUTOFF THEN "sort" ELSE "partition",
       from, to, flipped)

(* create_task of task_parallel.rs.                                        *)
NewInplaceTask(from, to) ==
  Task(IF to - from < SEQUENTIAL_CUTOFF THEN "sequential" ELSE "sort", from, to, TRUE)

-----------------------------------------------------------------------------
(* The task that resets the array, and creates the first task of the sort. *)

(* reset_run: its chunks are blocks, whatever CHUNK_SIZE is; chunks beyond *)
(* the end of the array are empty.                                         *)
ResetBlock(array, c) ==
  [i \in DOMAIN array |-> IF i \div BLOCK_SIZE = c THEN input[i + 1] ELSE array[i]]

ResetRun(t) ==
  /\ pc[t] = "run" /\ task[t].kind = "reset"
  /\ IF mode = "DataParallel" THEN A' = ResetBlock(A, chunk[t]) /\ UNCHANGED B
                              ELSE B' = ResetBlock(B, chunk[t]) /\ UNCHANGED A
  /\ Goto(t, "claim")
  /\ UNCHANGED <<queued, scheduling, task, problem, pending, counters, pivot, values>>

ResetFinish(t) ==
  /\ pc[t] = "createFirst"
  /\ queued' = queued \cup
       {IF mode = "DataParallel" THEN NewTask(0, Len(input), FALSE)
                                 ELSE NewInplaceTask(0, Len(input))}
  /\ Leave(t)
  /\ UNCHANGED <<scheduling, sortVars>>

-----------------------------------------------------------------------------
(* partition_run and parallel_partition_chunk.                             *)

Source(a) == IF a.flipped THEN B ELSE A

(* Store into the output of a task.                                        *)
StoreOutput(a, from, new) ==
  IF a.flipped THEN A' = Overwrite(A, from, new) /\ UNCHANGED B
               ELSE B' = Overwrite(B, from, new) /\ UNCHANGED A

LoadPivot(t) ==
  /\ pc[t] = "pivot"
  /\ pivot' = [pivot EXCEPT ![t] = Source(task[t])[task[t].from]]
  /\ Goto(t, LoopLabel(chunk[t]))
  /\ UNCHANGED <<queued, scheduling, task, problem, arrays, pending, counters, values>>

(* The loop of the chunks starts at 1, as element 0 is the pivot.          *)
ReservePlaces(t) ==
  /\ pc[t] = "run" /\ task[t].kind = "partition"
  /\ LET a == task[t]
         new == Partitioned(ChunkOf(Source(a), a.from, a.to, 1 + chunk[t] * CHUNK, CHUNK),
                            pivot[t], a.from, a.to, counters[a])
     IN  /\ counters' = [counters EXCEPT ![a] = @ + Reserved(new)]
         /\ values' = [values EXCEPT ![t] = new]
  /\ Goto(t, "copyLeft")
  /\ UNCHANGED <<queued, scheduling, task, problem, arrays, pending, pivot>>

CopyLeft(t) ==
  /\ pc[t] = "copyLeft"
  /\ StoreOutput(task[t], values[t].left_offset, values[t].left)
  /\ Goto(t, "copyRight")
  /\ UNCHANGED <<queued, scheduling, task, problem, pending, counters, pivot, values>>

CopyRight(t) ==
  /\ pc[t] = "copyRight"
  /\ StoreOutput(task[t], values[t].right_offset, values[t].right)
  /\ values' = [values EXCEPT ![t] = NoValues]
  /\ Goto(t, "claim")
  /\ UNCHANGED <<queued, scheduling, task, problem, pending, counters, pivot>>

-----------------------------------------------------------------------------
(* partition_finish, and the end of run_go: count and create the tasks for *)
(* the two parts.                                                          *)

(* Where the pivot went, relative to the segment.                          *)
Position(t) ==
  IF task[t].kind = "partition" THEN LeftCount(counters[task[t]]) ELSE pivot[t]

\* Mutated: the pivot is stored into the output, which may be the array A.
StorePivotOutput(t) ==
  /\ pc[t] = "storePivot"
  /\ LET a == task[t]
     IN  StoreOutput(a, a.from + Position(t), << Source(a)[a.from] >>)
  /\ Goto(t, "adjust")
  /\ UNCHANGED <<queued, scheduling, task, problem, pending, counters, pivot, values>>

(* The place of the pivot is final: it is stored into B.                   *)
StorePivot(t) ==
  /\ pc[t] = "storePivot"
  /\ LET a == task[t]
     IN  B' = Overwrite(B, a.from + Position(t), << Source(a)[a.from] >>)
  /\ Goto(t, "adjust")
  /\ UNCHANGED <<queued, scheduling, task, problem, A, pending, counters, pivot, values>>

AdjustPending(t) ==
  /\ pc[t] = "adjust"
  /\ LET calls == CountRecursiveCalls(Length(task[t]), Position(t))
     IN  /\ pending' = pending + calls - 1
         /\ Goto(t, IF calls = 0 /\ pending = 1 THEN "stop" ELSE "left")
  /\ UNCHANGED <<queued, scheduling, task, problem, arrays, counters, pivot, values>>

(* The part of the segment the thread goes on with.                        *)
Part(t) ==
  LET a == task[t]
  IN  IF pc[t] = "left" THEN <<a.from, a.from + Position(t)>>
                        ELSE <<a.from + Position(t) + 1, a.to>>

(* A part of one element is copied when it is not in B.                    *)
CopySingle(t) ==
  LET a == task[t]
      i == Part(t)[1]
  IN  IF a.kind = "partition" /\ a.flipped /\ Part(t)[2] - i = 1
        THEN B' = [B EXCEPT ![i] = A[i]] /\ UNCHANGED A
        ELSE UNCHANGED arrays

CreateTask(t) ==
  /\ pc[t] \in {"left", "right"}
  /\ LET a == task[t]
         from == Part(t)[1]
         to   == Part(t)[2]
     IN  queued' = IF to - from < 2 THEN queued ELSE queued \cup
           {IF a.kind = "partition" THEN NewTask(from, to, ~a.flipped)
                                    ELSE NewInplaceTask(from, to)}
  /\ CopySingle(t)
  /\ IF pc[t] = "left" THEN Goto(t, "right") /\ UNCHANGED task ELSE Leave(t)
  /\ UNCHANGED <<scheduling, problem, pending, counters, pivot, values>>

-----------------------------------------------------------------------------
(* Single tasks: run, run_with_copy and sequential_sort_run.               *)

CopyInput(t) ==
  /\ pc[t] = "copy"
  /\ B' = Overwrite(B, task[t].from, Slice(A, task[t].from, task[t].to))
  /\ Goto(t, task[t].kind)
  /\ UNCHANGED <<queued, scheduling, task, problem, A, pending, counters, pivot, values>>

SortRun(t) ==
  /\ pc[t] = "sort"
  /\ LET segment == Slice(B, task[t].from, task[t].to)
     IN  /\ B' = Overwrite(B, task[t].from, PartitionedSequentially(segment))
         /\ pivot' = [pivot EXCEPT ![t] = PivotPosition(segment)]
  /\ Goto(t, "adjust")
  /\ UNCHANGED <<queued, scheduling, task, problem, A, pending, counters, values>>

SequentialRun(t) ==
  /\ pc[t] = "sequential"
  /\ LET a == task[t]
     IN  B' = Overwrite(B, a.from, Sorted(Slice(B, a.from, a.to)))
  /\ Goto(t, "release")
  /\ UNCHANGED <<queued, scheduling, task, problem, A, pending, counters, pivot, values>>

Release(t) ==
  /\ pc[t] = "release"
  /\ pending' = pending - 1
  /\ IF pending = 1 THEN Goto(t, "stop") /\ UNCHANGED task ELSE Leave(t)
  /\ UNCHANGED <<queued, scheduling, problem, arrays, counters, pivot, values>>

Stop(t) ==
  /\ pc[t] = "stop"
  /\ Finish
  /\ IF task[t].kind = "sequential" THEN Leave(t) ELSE Goto(t, "left") /\ UNCHANGED task
  /\ UNCHANGED <<queued, open, claimed, chunk, sortVars>>

-----------------------------------------------------------------------------
Step(t) ==
  \/ PoolStep(t) /\ UNCHANGED sortVars
  \/ ResetRun(t)
  \/ ResetFinish(t)
  \/ LoadPivot(t)
  \/ ReservePlaces(t)
  \/ CopyLeft(t)
  \/ CopyRight(t)
  \/ StorePivot(t)
  \/ AdjustPending(t)
  \/ CreateTask(t)
  \/ CopyInput(t)
  \/ SortRun(t)
  \/ SequentialRun(t)
  \/ Release(t)
  \/ Stop(t)

Next == \E t \in Threads : Step(t)

Spec == Init /\ [][Next]_vars

(* Every thread is scheduled, takes tasks and leaves when the pool is      *)
(* finished; nobody need assist.                                           *)
FairSpec == Spec /\ \A t \in Threads : WF_vars(Step(t))

-----------------------------------------------------------------------------
Labels == PoolLabels \cup
  {"run", "createFirst", "pivot", "copyLeft", "copyRight", "storePivot", "adjust",
   "left", "right", "copy", "sort", "sequential", "release", "stop"}

(* Chunks and counters stay in the bounds the code relies on: no index is  *)
(* out of an array, no unsigned subtraction wraps.                         *)
TypeOK ==
  /\ DOMAIN A = 0 .. Len(input) - 1 /\ DOMAIN B = DOMAIN A
  /\ pending \in Nat
  /\ is_finished \in BOOLEAN
  /\ queued \subseteq Tasks /\ open \subseteq Tasks
  /\ pc \in [Threads -> Labels]
  /\ task \in [Threads -> Tasks \cup {NoTask}]
  /\ \A t \in Threads :
       values[t].right_offset >= 0 /\ values[t].left_offset \in 0 .. Len(input)

(* Threads on a task whose end is not counted yet.                         *)
Working(t) == task[t] # NoTask /\ pc[t] \notin {"left", "right", "stop"}

PartsOf(t) ==
  LET a     == task[t]
      left  == <<a.from, a.from + Position(t)>>
      right == <<a.from + Position(t) + 1, a.to>>
  IN  CASE pc[t] \in {"adjust", "left"} -> {left, right}
        [] pc[t] = "right"              -> {right}
        [] OTHER                        -> {}

(* pending_tasks is the number of tasks that wait or are executed, and of  *)
(* parts that will become tasks: it is zero only at the end of the sort.   *)
PendingCountsTasks ==
  pending = Cardinality(queued) + Cardinality({task[t] : t \in {u \in Threads : Working(u)}})
    + Cardinality({<<t, s>> \in {u \in Threads : pc[u] \in {"left", "right"}} \X Segments :
                     s \in PartsOf(t) /\ s[2] - s[1] > 1})

(* The segments that are not sorted yet, and the array each one is in.     *)
Unsorted ==
  LET InSource(a) == [from |-> a.from, to |-> a.to, array |-> IF a.flipped THEN "B" ELSE "A"]
      OutputOf(a) == IF a.kind = "partition" /\ a.flipped THEN "A" ELSE "B"
      Whole(t) == /\ task[t].kind \in {"partition", "sort", "sequential"}
                  /\ pc[t] \notin {"adjust", "left", "right", "release", "stop"}
      InB(t) == pc[t] \in {"sort", "sequential"}
  IN  {InSource(a) : a \in queued \ {ResetTask}}
      \cup {InSource([task[t] EXCEPT !.flipped = @ \/ InB(t)]) : t \in {u \in Threads : Whole(u)}}
      \cup UNION {{[from |-> s[1], to |-> s[2], array |-> OutputOf(task[t])] :
                     s \in PartsOf(t) \cap Segments} : t \in Threads}

(* Two threads work on one segment only when they assist with one task:    *)
(* segments to be sorted do not overlap, so that the plain loads and       *)
(* copies of the code are free of data races.                              *)
SegmentsDisjoint ==
  \A u, v \in Unsorted : u # v => u.to <= v.from \/ v.to <= u.from

Resetting == ResetTask \in queued \/ \E t \in Threads : task[t] = ResetTask

Final == Sorted(input)

(* Each segment that is not sorted yet holds, in the array where its task  *)
(* looks for them, the elements that belong into its places.               *)
SegmentsHoldTheirElements ==
  \A u \in Unsorted :
    Sorted(Slice(IF u.array = "A" THEN A ELSE B, u.from, u.to))
      = SubSeq(Final, u.from + 1, u.to)

(* All other places of the output have their final element: pivots and     *)
(* single elements included, whichever array they were in.                 *)
Settled ==
  ~Resetting =>
    \A i \in DOMAIN B :
      (\A u \in Unsorted : i \notin u.from .. u.to - 1) => B[i] = Final[i + 1]

(* The array is sorted when all threads have returned, which the caller of *)
(* the pool waits for.  It need not be when finish is called: a thread may *)
(* still have a single element to copy after its part was sorted by others.*)
ReturnedMeansSorted ==
  (\A t \in Threads : pc[t] = "returned") => \A i \in DOMAIN B : B[i] = Final[i + 1]

(* Threads that partition chunks of one segment write to places of their   *)
(* own, left of all on the right; when the last one has left the counters  *)
(* are complete (the assertion in partition_finish).                       *)
ReservedPlaces ==
  /\ \A t, u \in Threads :
       t # u /\ task[t] = task[u] /\ pc[t] \in {"copyLeft", "copyRight"}
             /\ pc[u] \in {"copyLeft", "copyRight"} =>
         PlacesOf(values[t]) \cap PlacesOf(values[u]) = {}
  /\ \A t \in Threads : task[t].kind = "partition" =>
       LET a == task[t]
           v == values[t]
           c == counters[a]
       IN  /\ LeftCount(c) + RightCount(c) < Length(a)
           /\ LeftPlaces(v) \cap RightPlaces(v) = {}
           /\ PlacesOf(v) \subseteq a.from .. a.to - 1
           /\ pc[t] = "storePivot" => LeftCount(c) + RightCount(c) + 1 = Length(a)

(* The sort ends: the last task is noticed and every thread returns.       *)
Termination == <>(\A t \in Threads : pc[t] = "returned")

(* What the unsynchronised access to the two arrays rests on: each segment *)
(* in work is one task's own, holds its elements, and its places are given *)
(* out once.                                                               *)
SegmentsInv ==
  /\ TypeOK
  /\ SegmentsDisjoint
  /\ SegmentsHoldTheirElements
  /\ Settled
  /\ ReservedPlaces
=============================================================================
