---------------------------- MODULE ChainedScan ----------------------------
(***************************************************************************)
(* The parallel prefix sums of src/cases/scan and the compactions of       *)
(* src/cases/compact, over several arrays, in the three versions of each:  *)
(*   our    a task per array, pushed by the chunks of a first task;        *)
(*   inner  a task per array, each pushed by the one before when it ends;  *)
(*   outer  one task, of which a chunk is an array handled sequentially.   *)
(*                                                                         *)
(* The task of an array is a single-pass scan with look-back.  Its chunks  *)
(* are blocks.  A thread that cannot start from the prefix of the block    *)
(* before publishes the aggregate of its own block, and looks back over    *)
(* the blocks before it, spinning on a block that published nothing yet.   *)
(* A compaction is a scan of the numbers of selected elements.             *)
(*                                                                         *)
(* That no thread spins for ever depends on the order in which blocks are  *)
(* claimed.  The tasks run on AssistPool, with the order of the            *)
(* schedulers: the blocks are divided over the ranges of a task, drawn in  *)
(* turn by the threads, and the blocks of a range are claimed in order     *)
(* (multi_atomics/task.rs 48-61); with a single range it is the order of   *)
(* workassisting/task.rs 78-89.                                            *)
(***************************************************************************)
EXTENDS Integers, SequencesExt, FiniteSetsExt, Functions

CONSTANTS
  N,           \* number of threads
  BlockSize,   \* BLOCK_SIZE / S::CHUNK_SIZE
  Programs     \* the programs: their version, whether they compact, the
               \* number of atomics of a task, and their arrays

ASSUME ScanAssumption ==
  /\ N \in Nat \ {0} /\ BlockSize \in Nat \ {0}
  /\ \A p \in DOMAIN Programs :
       /\ Programs[p].version \in {"our", "inner", "outer"}
       /\ Programs[p].compact \in BOOLEAN
       /\ Programs[p].ranges \in Nat \ {0}
       /\ Programs[p].inputs \in Seq(Seq(Nat)) \ {<<>>}

(* A task is a program and the array it is for, or 0 for all of them.      *)
Program(a) == Programs[a[1]]
Input(a)   == Program(a).inputs[a[2]]
Arrays(p)  == {<<p, i>> : i \in DOMAIN Programs[p].inputs}
NoTask     == <<>>

InitialTask(p) ==
  <<p, IF \/ Programs[p].version = "inner"
          \/ Programs[p].version = "our" /\ Len(Programs[p].inputs) = 1 THEN 1 ELSE 0>>

Size(a) ==
  IF a[2] = 0 THEN Len(Program(a).inputs)
  ELSE (Len(Input(a)) + BlockSize - 1) \div BlockSize

Entry(a) == "loop"
After(a) == "leave"
Exit(a)  == "finish"

VARIABLES
  temp_state,  \* temp_state[a][b]: state of block b of the array of task a
  aggregate,   \* aggregate[a][b]
  prefix,      \* prefix[a][b]
  output,      \* output[a]: the places of the output that were written
  pending,     \* version "our": tasks to finish before the pool is finished
  drawn,       \* drawn[a]: work_indexes_index
  range,       \* range[t]: the range t claims blocks of, or NoRange
  round,       \* round[t]: how many times t drew a range of its task
  sequential,  \* sequential[t]: t has never had to look back in this task
  previous,    \* previous[t]: the block t looks at
  sum,         \* sum[t]: local variable `aggregate`
  queued, open, claimed, is_finished, pc, task, chunk  \* see AssistPool

INSTANCE AssistPool

\* What a function of a task leaves to the pool.
scheduling == <<open, claimed, drawn, range, round>>
temp == <<temp_state, aggregate, prefix>>
look == <<sequential, previous, sum>>
vars == <<scheduling, queued, is_finished, pc, task, chunk, temp, output, pending, look>>

NoRange == -1

-----------------------------------------------------------------------------
(* The elements of an array and of its blocks.  A part of an array has the *)
(* elements from i + 1 to j; it is the slice i .. j of the code.           *)

(* Any predicate will do: it selects the odd values.                       *)
predicate(value) == value % 2 = 1

Selected(a, i, j) == {k \in i + 1 .. j : predicate(Input(a)[k])}

(* fold_sequential and count_sequential: what a part adds to the prefix.   *)
Weight(a, k) ==
  IF ~Program(a).compact THEN Input(a)[k]
  ELSE IF predicate(Input(a)[k]) THEN 1 ELSE 0

Total(a, i, j) ==
  LET sums[k \in i .. j] == IF k = i THEN 0 ELSE sums[k - 1] + Weight(a, k)
  IN  sums[j]

BlockStart(a, b) == Min({b * BlockSize, Len(Input(a))})
Local(a, b)      == Total(a, BlockStart(a, b), BlockStart(a, b + 1))

(* The running sums, at the places of the elements.                        *)
scan_sequential(a, i, j, initial) ==
  [k \in i .. j - 1 |-> initial + Total(a, i, k + 1)]

(* The selected elements, from place `output_index` on.                    *)
compact_sequential(a, i, j, output_index) ==
  LET place(k) == output_index + Total(a, i, k - 1)
      selected == Selected(a, i, j)
  IN  [n \in {place(k) : k \in selected} |->
         Input(a)[CHOOSE k \in selected : place(k) = n]]

(* What is stored for a part of the array.                                 *)
Stored(a, i, j, initial) ==
  IF Program(a).compact THEN compact_sequential(a, i, j, initial)
                        ELSE scan_sequential(a, i, j, initial)

(* The places of an output after more of them were written.                *)
Overwritten(old, new) ==
  [k \in DOMAIN old \cup DOMAIN new |-> IF k \in DOMAIN new THEN new[k] ELSE old[k]]

reference_sequential(a) == Stored(a, 0, Len(Input(a)), 0)

-----------------------------------------------------------------------------
Blocks(a)      == 0 .. Size(a) - 1
FreshState(a)  == [b \in Blocks(a) |-> "initialized"]
Zero(a)        == [b \in Blocks(a) |-> 0]

(* One array needs no initial task.                                        *)
\* Mutated: the initial task is not counted.
InitialPendingArrays(p) == Len(Programs[p].inputs)
\* Mutated: the count of a single array is not set to 1.
InitialPendingAlways(p) == Len(Programs[p].inputs) + 1
InitialPending(p) ==
  IF Len(Programs[p].inputs) = 1 THEN 1 ELSE Len(Programs[p].inputs) + 1

(* `temp` was left by an earlier run on other arrays, but the creation of  *)
(* the initial task has reset its temp.                                    *)
Init ==
  \E p \in DOMAIN Programs :
    LET first == InitialTask(p)
        Left(a, value) == [b \in Blocks(a) |-> value]
    IN  /\ PoolInit(first, {first} \cup Arrays(p))
        /\ temp_state = [a \in Arrays(p) |->
             IF a = first THEN FreshState(a) ELSE Left(a, "prefix available")]
        /\ aggregate = [a \in Arrays(p) |-> IF a = first THEN Zero(a) ELSE Left(a, 99)]
        /\ prefix = [a \in Arrays(p) |-> IF a = first THEN Zero(a) ELSE Left(a, 99)]
        /\ output = [a \in Arrays(p) |-> <<>>]
        /\ pending = InitialPending(p)
        /\ drawn = [a \in {first} \cup Arrays(p) |-> 0]
        /\ range = [t \in Threads |-> NoRange]
        /\ round = [t \in Threads |-> 0]
        /\ sequential = [t \in Threads |-> TRUE]
        /\ previous = [t \in Threads |-> 0]
        /\ sum = [t \in Threads |-> 0]

\* Mutated: reset forgets the states.
ResetKept(a) == temp_state
Reset(a) == [temp_state EXCEPT ![a] = FreshState(a)]

(* create_task and push_task.                                              *)
PushArray(a) ==
  /\ temp_state' = Reset(a)
  /\ aggregate' = [aggregate EXCEPT ![a] = Zero(a)]
  /\ prefix' = [prefix EXCEPT ![a] = Zero(a)]
  /\ Push(a)

-----------------------------------------------------------------------------
(* AssistPool with the order in which the schedulers claim chunks.         *)

Ranges(a) == Program(a).ranges

(* The chunks are divided over the atomics, the remainder over the first.  *)
FirstChunk(a, r) == r * (Size(a) \div Ranges(a)) + Min({r, Size(a) % Ranges(a)})
ChunksOf(a, r)   == FirstChunk(a, r) .. FirstChunk(a, r + 1) - 1

AtClaim(t) == pc[t] \in {"assist", "claim"}

(* A single atomic need not be drawn.  Only then, under workassisting, a   *)
(* thread starts with chunk 0, or claims a chunk before it calls `work`.   *)
Begin(t) ==
  /\ StartLoop(t) \/ JoinTask(t)
  /\ IF Ranges(task'[t]) = 1
       THEN /\ range' = [range EXCEPT ![t] = 0]
            /\ round' = [round EXCEPT ![t] = 1]
       ELSE /\ chunk'[t] = NoChunk /\ pc'[t] = "claim"
            /\ UNCHANGED <<range, round>>
  /\ UNCHANGED <<drawn, sequential>>

\* Mutated: the ranges are drawn from the last to the first.
DrawnBackwards(a) == Ranges(a) - 1 - (drawn[a] % Ranges(a))
RangeDrawn(a) == drawn[a] % Ranges(a)

DrawRange(t) ==
  /\ pc[t] = "claim"
  /\ range[t] = NoRange
  /\ range' = [range EXCEPT ![t] = RangeDrawn(task[t])]
  /\ round' = [round EXCEPT ![t] = @ + 1]
  /\ drawn' = [drawn EXCEPT ![task[t]] = @ + 1]
  /\ UNCHANGED <<queued, open, claimed, is_finished, pc, task, chunk, sequential>>

LeftInRange(t) == ChunksOf(task[t], range[t]) \ claimed[task[t]]

ClaimInOrder(t) ==
  /\ AtClaim(t)
  /\ range[t] # NoRange
  /\ LeftInRange(t) # {}
  /\ ClaimChunk(t)
  /\ chunk'[t] = Min(LeftInRange(t))
  /\ UNCHANGED <<drawn, range, round, sequential>>

(* The index the thread claimed is past the end of the range: it draws     *)
(* another, or its loop ends, and the next call of `run` has its own flag. *)
EndRange(t) ==
  /\ AtClaim(t)
  /\ range[t] # NoRange
  /\ LeftInRange(t) = {}
  /\ range' = [range EXCEPT ![t] = NoRange]
  /\ IF round[t] < Ranges(task[t])
       THEN UNCHANGED <<queued, open, claimed, is_finished, pc, task, chunk, round, sequential>>
       ELSE /\ EndLoop(t)
            /\ round' = [round EXCEPT ![t] = 0]
            /\ sequential' = [sequential EXCEPT ![t] = TRUE]
  /\ UNCHANGED drawn

Schedule(t) ==
  /\ \/ Begin(t)
     \/ DrawRange(t)
     \/ ClaimInOrder(t)
     \/ EndRange(t)
     \/ /\ StartSingle(t) \/ EndTask(t) \/ Return(t)
        /\ UNCHANGED <<drawn, range, round, sequential>>
  /\ UNCHANGED <<temp, output, pending, previous, sum>>

-----------------------------------------------------------------------------
(* A chunk of the task over all arrays: initial_run, and run of outer.rs.  *)

RunArray(t) ==
  LET a == <<task[t][1], chunk[t] + 1>>
  IN  /\ pc[t] = "run"
      /\ task[t][2] = 0
      /\ IF Program(a).version = "our"
           THEN PushArray(a) /\ UNCHANGED output
           ELSE /\ output' = [output EXCEPT ![a] = reference_sequential(a)]
                /\ UNCHANGED <<temp, queued>>
      /\ Goto(t, "claim")
      /\ UNCHANGED <<scheduling, is_finished, task, chunk, pending, look>>

-----------------------------------------------------------------------------
(* A chunk of the task of an array: run of our.rs and inner.rs.            *)

(* What a step that reads or writes `temp` and local variables leaves.     *)
control == <<scheduling, queued, is_finished, task, chunk, pending>>

(* The state of the block before, unless the thread had to look back.      *)
CheckPrevious(t) ==
  /\ pc[t] = "run"
  /\ task[t][2] # 0
  /\ LET known == chunk[t] # 0 /\ temp_state[task[t]][chunk[t] - 1] = "prefix available"
     IN  \/ /\ sequential[t] /\ known
            /\ Goto(t, "load")
            /\ UNCHANGED sequential
         \/ /\ sequential[t] /\ chunk[t] = 0
            /\ Goto(t, "scan")
            /\ UNCHANGED sequential
         \/ /\ ~sequential[t] \/ (chunk[t] # 0 /\ ~known)
            /\ Goto(t, "fold")
            /\ sequential' = [sequential EXCEPT ![t] = FALSE]
  /\ UNCHANGED <<control, temp, output, previous, sum>>

LoadPrefix(t) ==
  /\ pc[t] = "load"
  /\ sum' = [sum EXCEPT ![t] = prefix[task[t]][chunk[t] - 1]]
  /\ Goto(t, "scan")
  /\ UNCHANGED <<control, temp, output, sequential, previous>>

(* Before the prefix is published, or, after a look-back, after it.        *)
ScanBlock(t) ==
  LET a == task[t]
      b == chunk[t]
  IN  /\ pc[t] \in {"scan", "scanLate"}
      /\ output' = [output EXCEPT ![a] =
           Overwritten(@, Stored(a, BlockStart(a, b), BlockStart(a, b + 1), sum[t]))]
      /\ IF pc[t] = "scan"
           THEN Goto(t, "store") /\ UNCHANGED sum
           ELSE Goto(t, "claim") /\ sum' = [sum EXCEPT ![t] = 0]
      /\ UNCHANGED <<control, temp, sequential, previous>>

StorePrefix(t) ==
  /\ pc[t] \in {"store", "storeLate"}
  /\ prefix' = [prefix EXCEPT ![task[t]][chunk[t]] =
       sum[t] + Local(task[t], chunk[t])]
  /\ Goto(t, IF pc[t] = "store" THEN "publish" ELSE "publishLate")
  /\ UNCHANGED <<control, temp_state, aggregate, output, look>>

PublishPrefix(t) ==
  /\ pc[t] \in {"publish", "publishLate"}
  /\ temp_state' = [temp_state EXCEPT ![task[t]][chunk[t]] = "prefix available"]
  /\ IF pc[t] = "publish"
       THEN Goto(t, "claim") /\ sum' = [sum EXCEPT ![t] = 0]
       ELSE Goto(t, "scanLate") /\ UNCHANGED sum
  /\ UNCHANGED <<control, aggregate, prefix, output, sequential, previous>>

StoreAggregate(t) ==
  /\ pc[t] = "fold"
  /\ aggregate' = [aggregate EXCEPT ![task[t]][chunk[t]] =
       Local(task[t], chunk[t])]
  /\ Goto(t, "available")
  /\ UNCHANGED <<control, temp_state, prefix, output, look>>

PublishAggregate(t) ==
  /\ pc[t] = "available"
  /\ temp_state' = [temp_state EXCEPT ![task[t]][chunk[t]] = "aggregate available"]
  /\ previous' = [previous EXCEPT ![t] = chunk[t] - 1]
  /\ Goto(t, "look")
  /\ UNCHANGED <<control, aggregate, prefix, output, sequential, sum>>

(* One turn of the spinning loop that sees something; a thread that would  *)
(* look before the first block panics.                                     *)
LookBack(t) ==
  /\ pc[t] = "look"
  /\ previous[t] >= 0
  /\ temp_state[task[t]][previous[t]] # "initialized"
  /\ Goto(t, IF temp_state[task[t]][previous[t]] = "prefix available"
               THEN "addPrefix" ELSE "addAggregate")
  /\ UNCHANGED <<control, temp, output, look>>

AddPrefix(t) ==
  /\ pc[t] = "addPrefix"
  /\ sum' = [sum EXCEPT ![t] = prefix[task[t]][previous[t]] + @]
  /\ previous' = [previous EXCEPT ![t] = 0]
  /\ Goto(t, "storeLate")
  /\ UNCHANGED <<control, temp, output, sequential>>

AddAggregate(t) ==
  /\ pc[t] = "addAggregate"
  /\ sum' = [sum EXCEPT ![t] = aggregate[task[t]][previous[t]] + @]
  /\ previous' = [previous EXCEPT ![t] = @ - 1]
  /\ Goto(t, "look")
  /\ UNCHANGED <<control, temp, output, sequential>>

-----------------------------------------------------------------------------
(* The finish functions, called by the last thread on a task.              *)

FinishInner(a) ==
  IF a[2] = Len(Program(a).inputs)
    THEN Finish /\ UNCHANGED <<queued, temp>>
    ELSE PushArray(<<a[1], a[2] + 1>>) /\ UNCHANGED is_finished

(* initial_finish and finish of our.rs.                                    *)
FinishOur ==
  /\ pending' = pending - 1
  /\ is_finished' = (is_finished \/ pending = 1)

FinishArray(t) ==
  /\ pc[t] = "finish"
  /\ CASE Program(task[t]).version = "our"   -> FinishOur /\ UNCHANGED <<queued, temp>>
       [] Program(task[t]).version = "inner" -> FinishInner(task[t]) /\ UNCHANGED pending
       [] Program(task[t]).version = "outer" -> Finish /\ UNCHANGED <<queued, temp, pending>>
  /\ Leave(t)
  /\ UNCHANGED <<scheduling, chunk, output, look>>

-----------------------------------------------------------------------------
RunBlock(t) ==
  \/ CheckPrevious(t)
  \/ LoadPrefix(t)
  \/ ScanBlock(t)
  \/ StorePrefix(t)
  \/ PublishPrefix(t)
  \/ StoreAggregate(t)
  \/ PublishAggregate(t)
  \/ LookBack(t)
  \/ AddPrefix(t)
  \/ AddAggregate(t)

Step(t) ==
  \/ Schedule(t)
  \/ RunArray(t)
  \/ RunBlock(t)
  \/ FinishArray(t)

Next == \E t \in Threads : Step(t)

Spec == Init /\ [][Next]_vars

(* The operating system runs every thread.                                 *)
FairSpec == Spec /\ \A t \in Threads : WF_vars(Step(t))

-----------------------------------------------------------------------------
(* Properties                                                              *)

Unannounced == {"run", "load", "scan", "store", "publish", "fold", "available"}
Looking     == {"look", "addPrefix", "addAggregate"}
Late        == {"storeLate", "publishLate", "scanLate"}
Working     == Unannounced \cup Looking \cup Late
Summing     == {"scan", "store", "publish"} \cup Looking \cup Late

Tasks == DOMAIN claimed

TypeOK ==
  /\ \E p \in DOMAIN Programs :
       /\ DOMAIN claimed = {InitialTask(p)} \cup Arrays(p)
       /\ DOMAIN temp_state = Arrays(p) /\ DOMAIN output = Arrays(p)
       /\ DOMAIN aggregate = Arrays(p) /\ DOMAIN prefix = Arrays(p)
       /\ drawn \in [{InitialTask(p)} \cup Arrays(p) -> Nat]
  /\ \A a \in DOMAIN temp_state :
       /\ temp_state[a] \in
            [Blocks(a) -> {"initialized", "aggregate available", "prefix available"}]
       /\ aggregate[a] \in [Blocks(a) -> Nat]
       /\ prefix[a] \in [Blocks(a) -> Nat]
  /\ pending \in Int
  /\ queued \subseteq Tasks /\ open \subseteq Tasks /\ is_finished \in BOOLEAN
  /\ \A a \in Tasks : claimed[a] \subseteq Blocks(a)
  /\ pc \in [Threads -> PoolLabels \cup Working \cup {"finish"}]
  /\ task \in [Threads -> Tasks \cup {NoTask}]
  /\ chunk \in [Threads -> Int]
  /\ range \in [Threads -> Nat \cup {NoRange}]
  /\ round \in [Threads -> Nat]
  /\ sequential \in [Threads -> BOOLEAN]
  /\ previous \in [Threads -> Int]
  /\ sum \in [Threads -> Nat]

(* What is written is what the sequential version writes at that place,    *)
(* whichever mix of aggregates and prefixes a block was started from: no   *)
(* compacted block is written over another, and none past the end.         *)
OutputCorrect ==
  \A a \in DOMAIN output : IsRestriction(output[a], reference_sequential(a))

-----------------------------------------------------------------------------
(* The tasks: the invariants of the pool and of the order of the tasks.    *)

(* A task that was created and is not done, and one that is not created.   *)
Live(a) == a \in queued \cup open \/ \E t \in Threads : task[t] = a
Untouched(a) == ~Live(a) /\ claimed[a] = {}

(* Threads on a task; no two of them work on one block.                    *)
ThreadsOnTasks ==
  \A t \in Threads :
    /\ task[t] = NoTask <=> pc[t] \in {"idle", "returned"}
    /\ pc[t] \in Working =>
         /\ chunk[t] \in claimed[task[t]]
         /\ task[t][2] = 0 => pc[t] = "run"
         /\ \A u \in Threads \ {t} :
              pc[u] \in Working /\ task[u] = task[t] => chunk[u] # chunk[t]

(* A task waits, is open, is closed before a thread leaves it, and is      *)
(* finished by the last thread on it.                                      *)
TaskStages ==
  /\ \A a \in queued :
       a \notin open /\ claimed[a] = {} /\ \A t \in Threads : task[t] # a
  /\ \A t \in Threads : pc[t] \in {"leave", "finish"} => task[t] \notin open
  /\ \A t \in Threads : pc[t] = "finish" =>
       \A u \in Threads \ {t} : task[u] # task[t]

(* The chunk of the task over all arrays that is for this array is to run. *)
ToRun(a, b) ==
  /\ a[2] = 0 /\ b[2] # 0
  /\ \/ b[2] - 1 \notin claimed[a]
     \/ \E t \in Threads : pc[t] = "run" /\ task[t] = a /\ chunk[t] = b[2] - 1

(* `temp` is reset when nobody uses it: a chunk of the initial task pushes *)
(* the task of its array once, and the tasks of inner.rs follow each other.*)
PushedOnce ==
  \A a, b \in Tasks :
    /\ Program(a).version = "our" /\ ToRun(a, b) => Untouched(b)
    /\ Program(a).version = "inner" /\ Live(a) /\ b[2] > a[2] => Untouched(b)

(* A range that was drawn is used up or held, and its blocks are claimed   *)
(* in order.                                                               *)
RangesInOrder ==
  /\ \A t \in Threads :
       /\ pc[t] \in Working => range[t] # NoRange
       /\ range[t] # NoRange =>
            /\ AtClaim(t) \/ pc[t] \in Working
            /\ range[t] < Ranges(task[t])
            /\ Ranges(task[t]) = 1 \/ range[t] < drawn[task[t]]
            /\ pc[t] \in Working => chunk[t] \in ChunksOf(task[t], range[t])
  /\ \A a \in Tasks : \A r \in 0 .. Ranges(a) - 1 :
       /\ \A b \in ChunksOf(a, r) \cap claimed[a] :
            \A c \in ChunksOf(a, r) : c < b => c \in claimed[a]
       /\ r < drawn[a] =>
            \/ ChunksOf(a, r) \subseteq claimed[a]
            \/ \E t \in Threads : task[t] = a /\ range[t] = r

-----------------------------------------------------------------------------
(* The look-back.                                                          *)

Before(a, b) == Total(a, 0, BlockStart(a, b))

(* What a block has announced is there to be read, and final.              *)
AnnouncedIsThere ==
  \A a \in DOMAIN temp_state : Live(a) =>
    \A b \in Blocks(a) :
      /\ temp_state[a][b] = "aggregate available" => aggregate[a][b] = Local(a, b)
      /\ temp_state[a][b] = "prefix available" => prefix[a][b] = Before(a, b + 1)

Held(a, b) ==
  \E t \in Threads : pc[t] \in Unannounced /\ task[t] = a /\ chunk[t] = b

(* Only claimed blocks announce, block 0 its prefix at once and before all *)
(* others, and a claimed block that did not announce yet has a thread.     *)
AnnouncedInOrder ==
  \A a \in DOMAIN temp_state : Live(a) =>
    \A b \in Blocks(a) :
      /\ temp_state[a][b] = "aggregate available" => b # 0
      /\ temp_state[a][b] = "prefix available" => temp_state[a][0] = "prefix available"
      /\ temp_state[a][b] # "initialized" => b \in claimed[a]
      /\ b \in claimed[a] /\ temp_state[a][b] = "initialized" => Held(a, b)

(* No thread looks before the first block: block 0 is always scanned at    *)
(* once, also under multi_atomics, where a thread that had to look back    *)
(* may still draw the range of block 0 (our.rs 110-113, 137, 146).         *)
LookBackInBounds ==
  \A t \in Threads : pc[t] \in Looking => previous[t] \in 0 .. chunk[t] - 1

(* A thread that had to look back has seen a prefix when it claims again.  *)
SequentialThreads ==
  \A t \in Threads :
    /\ pc[t] \in {"idle", "assist", "leave", "finish", "returned"} => sequential[t]
    /\ sequential[t] \/ task[t][2] # 0

(* A thread announces its block after it stored the value, and has summed  *)
(* up the blocks it looked at, or all that are before its own.             *)
SumSoFar(t) ==
  LET a     == task[t]
      b     == chunk[t]
      State == temp_state[a]
  IN  /\ pc[t] \in Unannounced => State[b] = "initialized"
      /\ pc[t] \in Looking \cup {"storeLate", "publishLate"} => State[b] = "aggregate available"
      /\ pc[t] \in {"fold", "available"} => b # 0
      /\ pc[t] = "available" => aggregate[a][b] = Local(a, b)
      /\ pc[t] \in {"publish", "publishLate"} => prefix[a][b] = Before(a, b + 1)
      /\ pc[t] \in {"scan", "store", "publish"} \cup Late => sum[t] = Before(a, b)
      /\ pc[t] \in {"scan", "store", "publish"} => b = 0 \/ State[0] = "prefix available"
      /\ ~sequential[t] /\ pc[t] \in {"claim", "run"} \cup Late => State[0] = "prefix available"
      /\ pc[t] = "load" => b # 0 /\ State[b - 1] = "prefix available"
      /\ pc[t] \in {"fold", "available"} \cup Looking \cup Late => ~sequential[t]
      /\ pc[t] \in Looking =>
           sum[t] = Total(a, BlockStart(a, previous[t] + 1), BlockStart(a, b))
      /\ pc[t] = "addPrefix" => State[previous[t]] = "prefix available"
      /\ pc[t] = "addAggregate" =>
           /\ previous[t] # 0 /\ State[previous[t]] # "initialized"
           /\ aggregate[a][previous[t]] = Local(a, previous[t])

SumsSoFar ==
  \A t \in Threads :
    /\ pc[t] \notin Summing => sum[t] = 0
    /\ task[t] \in DOMAIN temp_state => SumSoFar(t)

(* A thread that spins waits for a block that another thread holds, or     *)
(* will claim when it is done with an earlier one of the same range: the   *)
(* threads cannot wait for each other in a circle (our.rs 139-150).        *)
WaitsForEarlier ==
  \A t \in Threads :
    pc[t] = "look" /\ temp_state[task[t]][previous[t]] = "initialized" =>
      \E v \in Threads \ {t}, r \in 0 .. Ranges(task[t]) - 1 :
        /\ task[v] = task[t]
        /\ previous[t] \in ChunksOf(task[t], r)
        /\ \/ chunk[v] \in ChunksOf(task[t], r) /\ chunk[v] <= previous[t]
           \/ range[v] = r /\ AtClaim(v)

(* The look-back reads only what is final, only before its own block, and  *)
(* waits only for threads that do not wait for it.                         *)
LookBackInv ==
  /\ TypeOK
  /\ ThreadsOnTasks
  /\ TaskStages
  /\ PushedOnce
  /\ RangesInOrder
  /\ AnnouncedIsThere
  /\ AnnouncedInOrder
  /\ LookBackInBounds
  /\ SequentialThreads
  /\ SumsSoFar
  /\ WaitsForEarlier

-----------------------------------------------------------------------------
(* The end.                                                                *)

ToScan == {"run", "load", "scan", "fold", "available"} \cup Looking \cup Late

(* What a block adds to the output.                                        *)
Part(a, b) == Stored(a, BlockStart(a, b), BlockStart(a, b + 1), Before(a, b))

Scanned(a) == output[a] = reference_sequential(a)

(* The tasks that are not done, those included that are to be pushed.      *)
Due == {a \in Tasks : Live(a) \/ \E c \in Tasks : ToRun(c, a)}

(* A claimed block is scanned, or a thread is about to.                    *)
BlocksScanned ==
  \A a \in DOMAIN output : Live(a) =>
    \A b \in claimed[a] :
      \/ \E t \in Threads : pc[t] \in ToScan /\ task[t] = a /\ chunk[t] = b
      \/ DOMAIN Part(a, b) \subseteq DOMAIN output[a]

(* A task that nobody can join any more has no chunks left, or a thread    *)
(* that has not stopped.                                                   *)
ClosedTasks ==
  \A a \in Tasks \ (queued \cup open) : Live(a) =>
    \/ Unclaimed(a) = {}
    \/ \E t \in Threads : task[t] = a /\ pc[t] \notin {"leave", "finish"}

(* An array is scanned when its task is done, or its chunk if there is one *)
(* task for all arrays; in inner.rs, before the task of a later one runs.  *)
ArraysScanned ==
  \A a \in DOMAIN output :
    /\ Program(a).version # "inner" /\ a \notin Due => Scanned(a)
    /\ \A c \in Tasks : Program(c).version = "inner" /\ Live(c) /\ a[2] < c[2] => Scanned(a)

(* The single task of outer.rs is for all arrays.                          *)
OneTaskOfOuter == \A a \in Tasks : Program(a).version = "outer" /\ Live(a) => a[2] = 0

(* In our.rs `pending` counts the tasks that are not done.                 *)
PendingCountsTasks ==
  (\A a \in Tasks : Program(a).version = "our") =>
    pending = Cardinality(Due) /\ (is_finished <=> pending = 0)

(* The pool is finished by the task that ends last, not before.            *)
FinishedMeansScanned == is_finished => \A a \in DOMAIN output : Scanned(a)

(* When `finish` is called every output is complete: no block and no array *)
(* is forgotten, and `pending` counts the tasks that are not done, those   *)
(* that are still to be pushed as well (our.rs 160-165).                   *)
CompletionInv ==
  /\ BlocksScanned
  /\ ClosedTasks
  /\ ArraysScanned
  /\ OneTaskOfOuter
  /\ PendingCountsTasks
  /\ FinishedMeansScanned

(* The pool is finished and every thread returns.                          *)
Termination == <>(\A t \in Threads : pc[t] = "returned")
=============================================================================
