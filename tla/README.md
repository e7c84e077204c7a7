# Work assisting, in TLA+

This directory is a verification development of the repository's task scheduler
("work assisting": data parallelism with self-scheduling on top of task stealing) and of
the parallel algorithms that are written for it. Each TLA+ definition is translated from
the Rust source; `PROJECT.json` has, under `map`, the lines each of them stands for.
Paths below are relative to `src/src/`.

## The system

| Part | State it keeps | Operations | Talks to |
|---|---|---|---|
| `schedulers/workassisting/worker.rs`, `schedulers/multi_atomics/worker.rs` | `is_finished`, a deque and an `activities` slot (a tagged pointer) per thread | `run_on`, `do_work`, `claim_task`, `try_assist`, `start_task`, `call_task`, `end_task`, `task_empty`, `push_task`, `finish` | threads share deques and slots; calls the `work` and `finish` functions of tasks |
| `schedulers/workassisting/task.rs` | per task: `active_threads`, one `work_index`, `work_size` | `new_dataparallel`, `new_single`, `work_loop`, `take_data` | `work_loop` calls the chunk closure and `task_empty` |
| `schedulers/multi_atomics/task.rs` | per task: `active_threads`, vectors `work_indexes` and `work_size`, `work_indexes_index` | the same | the same |
| `utils/ptr.rs` | a word holding pointer and tag | load, store, swap, compare-exchange, fetch-and-add on the tag | used by the slots |
| `scheduler.rs` | none (traits) | the interface a client sees | |
| `cases/scan`, `cases/compact` | per block of an array: `state`, `aggregate`, `prefix`; the outputs; a count of pending tasks | `create_initial_task`, `initial_run`, `run` (decoupled look-back), `reset`, `create_task`, `finish`, in the versions `our`, `inner` and `outer` | clients of the scheduler; threads meet in `temp` |
| `cases/{prime,sum_array,sum_function}` | a counter, local sums | `our.rs` on the scheduler, `static_parallel` on the threads of a scope | client of the scheduler |
| `utils/matrix.rs` | a size and vectors of 32 elements | unchecked accesses, copies, product | used by LU decomposition |
| `cases/quicksort` | two arrays, partition counters, `pending_tasks` | parallel partition, recursion, sequential sort | client of the scheduler, or of the deque pool |
| `cases/lud` | the matrix, one or two synchronisation variables per matrix, `pending` | diagonal tile, border and interior tasks | client of the scheduler, or of the deque pool |
| `utils/deque_stealer.rs`, `cases/{prime,sum_array,sum_function}/deque.rs` | deques, `finished`; `pending`, `counter` | `claim`, `run` (splits its range) | a plain work-stealing pool and its clients |
| sequential, rayon and OpenMP versions; `utils/benchmark.rs`; `thread*.rs` | | | measurement, libraries, foreign code |

What is hard here is concurrency on single words. There is no lock and no message: threads
meet in the slots, in the counters of a task and in the data of an algorithm, and the
correctness of each rests on an argument in a comment (`worker.rs` 193-204, 245-247,
266-271, 298-312, `task.rs` 18-27). There is no failure handling, no timeout and no
persistence, so that crash and retry behaviour do not exist in this code, but for the
`Retry` of a steal.

What makes each component correct:

* scheduler: a task's references are counted exactly while its slot is emptied and others
  join; one thread runs `finish`, when no thread uses or can find the task; each chunk runs
  exactly once; a task is not hidden while it has chunks nobody claimed; no thread leaves while
  work is left, and all leave in the end;
* scan and compact: each block starts from the sum of all blocks before it; a look-back
  ends, in bounds; the pool is finished by the array that ends last, in any order;
* quicksort, LUD: counters reach their target once, after the work they count; no two
  threads touch the same part of the data at the same time unless both only read it.

## Modules

| Module | Models | State and actions |
|---|---|---|
| `TaskPool` | what `scheduler.rs` promises a client: abstract specification | tasks with a size and a set of executed chunks; `Create`, `RunChunk`, `Finish`, `Stop` |
| `AssistProtocol` | what the two `worker.rs` share line for line | every shared word of `Workers` and `TaskObject::active_threads`, and the local variables of each thread that live across an access to shared memory; one action per access |
| `WorkAssisting` | `AssistProtocol` with the chunk loop of `schedulers/workassisting` | adds `work_size`, `work_index`, `chunk` |
| `MultiAtomics` | `AssistProtocol` with the chunk loop of `schedulers/multi_atomics` | adds the vectors of atomics and the shared turn |
| `AssistPool` | the worker of either scheduler, as the functions of a task see it | tasks that wait and are open, claimed chunks, who works on what; `StartSingle`, `StartLoop`, `JoinTask`, `ClaimChunk`, `EndLoop`, `EndTask`, `Return` |
| `AssistClient` | the client of `AssistProtocol` on `AssistPool`: abstract specification of both schedulers | `pending`, tasks by their number |
| `WorkAssistingPool`, `MultiAtomicsPool` (with `TaskHistory`) | the refinement mappings from the schedulers to `AssistClient` | history variables `identity`, `ended`, `retired` |
| `PtrWord` | the word of `utils/ptr.rs` | operators only |
| `ChainedScan` | `cases/scan` and `cases/compact`, their versions `our`, `inner` and `outer`, on `AssistPool` with the claim order of either scheduler | `temp`, the output and `pending` of all arrays, the local variables of `run`; an action per access to `temp` |
| `Reduction` (with `StaticRanges`) | `cases/{prime,sum_array,sum_function}/our.rs` on `AssistPool`, and the `static_parallel` of each | the local sums and the counter, element by element |
| `Primes` | `is_prime` | an operator |
| `SquareMatrix` | the layout of `utils/matrix.rs` | operators only |
| `LuTiles` | which cells the tile operations of `cases/lud.rs` read and write | operators only |
| `LuDecomposition` | abstract specification of a parallel decomposition | version of every cell, operations in progress; `Begin`, `End`, `Stop` |
| `Lud` | `cases/lud/our.rs` on `AssistPool` | versions, `synchronisation_var`, `pending`, the operation of each thread |
| `LudStages` | why `Lud` is correct | operators only: the stages of an iteration, what each says of tasks, threads, `synchronisation_var` and versions |
| `LudStealing` | `cases/lud/workstealing.rs` on `DequeStealer` | the same with two variables per matrix; chunks by name, in the tasks of deques and threads |
| `QuicksortSegments` | what the quicksorts share: packed counters, chunks, `count_recursive_calls` | operators only |
| `Quicksort` | `cases/quicksort/{our,task_parallel}.rs` and the reset, on `AssistPool` | both arrays, `pending_tasks`, counters of each partition, local values of each thread |
| `QuicksortDeque` | `cases/quicksort/deque_parallel_partition.rs` on `DequeStealer` | the same, and the reference count of each `Sort` object |
| `SequentialSort` | `cases/quicksort/sequential.rs` | array, stack of segments, indexes |
| `DequeStealer` | `utils/deque_stealer.rs` | deques, `finished`, `other_index`; one action per access in `claim` |
| `SplitSum` | `cases/{prime,sum_array,sum_function}/deque.rs` on `DequeStealer` | `pending`, the counter, subtasks still to be pushed |
| `AssistProofs`, `WorkAssistingProofs`, `MultiAtomicsProofs`, `ReductionProofs`, `DivisionProofs`, `ChainedScanProofs`, `LudProofs`, `LudStealingProofs` | theorems | |
| `MC*` | values of the constants for TLC | |

`WorkAssisting` and `MultiAtomics` extend `AssistProtocol`: the protocol's actions at the
labels "enter", "next" and "body" are theirs, all others are used as they are. That they only do
what the protocol allows of a chunk loop is checked (`ProtocolSpec` as a property) and
proved (`ImplementsProtocol`), so that what is proved of `AssistProtocol` holds for both.
As the shared actions are on both sides, this is about the chunk loops and the signals at their end only:
that joining, hiding and the count of references are right is shown by `SchedulerInv` and by the refinements of `TaskPool`.
Both implement `TaskPool` under the mapping `size <- work_size` (or the end of the last
range), `stopped <- is_finished`.

The client programs are modelled on `AssistPool`, which has one action where the schedulers have a
dozen. That it promises no more than they keep is checked: `AssistProtocol`'s own client, which creates tasks
in chunks and finish functions and counts them, is written once more on `AssistPool` (`AssistClient`), and both schedulers
implement that (`ImplementsAssistPool`). Three history variables make the mapping possible: the scheduler reuses the address
of a task that was freed, and `AssistClient` knows every task by its number. The mapping says when each thing happens for
a client: a task is started when the slot is stored, a chunk is claimed by `fetch_add`, a thread that claimed an index
past the end has ended its loop when it comes to `end_task`, and a task is open until the first thread has.

### How the code is represented

* A slot is a record of an address and a tag. In the code it is one word with the tag in the lower 16 bits, incremented by
  an addition to the word. `PtrWord` has that word; `WordsImplementTaggedPtrs` (below) is why the record may stand for it.
* A label (`pc`) stands between two accesses to shared memory. Local computation belongs
  to the access before it. All shared words are atomics; the model interleaves their operations.
  The orderings in the code are `Relaxed` in many places. Every decision of the protocol is
  taken on the result of a read-modify-write operation, which reads the newest value of its word
  whatever its ordering, or of a load after an own write of the same word; the two plain
  loads (`is_finished`, `check`) may be stale, and a stale value is one an earlier
  scheduling of the load would have read. That data written by one thread is visible to
  another (`Acquire`/`Release` pairs) is not modelled.
* The client of the scheduler is nondeterministic: it may create a task in any chunk
  and in any finish function, and counts tasks as the cases do (`pending`). `MaxTasks`
  bounds their number.
* Addresses are a finite set and are reused after `take_data`, so that a late thread can meet a
  new task at the address of its old one (the ABA situation of `worker.rs` 305-312).
* `compare_exchange_weak` may fail spuriously; it then yields the value it had, and the
  loop repeats with the same arguments: a stutter.
* A steal from a deque that is not empty may lose a race (`Steal::Retry`).
* Tile operations and copies of a partition take time where others may interfere: a tile operation begins and ends,
  a chunk of a partition reserves its places, copies the left part and the right part. The in-place sort or partition of
  a segment by one thread is one step; that segments in work are disjoint (`SegmentsDisjoint`) makes that sound.
* Values are abstracted to what the properties need: an element of a sum is its identity, a cell of the matrix is the
  number of its updates, elements of the sorted arrays are small numbers with repetitions.
* The deque of the crossbeam library is a sequence; its owner uses the end, thieves the head.

## Runs

All runs but the last must pass; the mutants in `PROJECT.json` change one definition as a plausible
bug would and show that every property of every run can fail. All runs but `WorkAssistingSafety` check that the
program comes to its end under fair scheduling, next to what the table names.

The safety properties of a client that support one another are checked as one invariant, the conjunction of the type
invariant and the named parts: `ChunkInv` (`MultiAtomics`), `LookBackInv` and `CompletionInv` (`ChainedScan`), `SumInv` (`Reduction`,
`SplitSum`), `SyncInv` (`Lud`), `CountersInv` (`LudStealing`), `SegmentsInv` (`Quicksort`), `PartitionInv`
(`QuicksortDeque`), `SortInv` (`SequentialSort`). `ProtocolInv` includes what `ReferenceCount`, `NullTagBound`,
`SlotEmptyAtStart` and `FinishMeansDone` say, by the theorem `ProtocolGuarantees`. `SchedulerInv` (`WorkAssisting`) is
`ProtocolInv` with the invariants of the chunk loop. `SchedulerInv`, `ChunkInv` with `ProtocolInv`, and `SumInv` of
`Reduction` and `SplitSum`, `LookBackInv` (and `CompletionInv` with it), `SyncInv` and `SortInv` as they stand are inductive: the runs check on small instances what the proofs then use.
`CountersInv` of `LudStealing` is not: it follows from `StealInv` (in `LudStealingProofs`), which adds the progress of each matrix.
Nor are `PartitionInv` and `ReferencesCounted` of `QuicksortDeque`: they follow from `SortingInv` (in `DivisionProofs`).

| Run | Bounds | Shows |
|---|---|---|
| `WorkAssistingSafety` | 3 threads, 2 addresses, 2 tasks of 2 chunks | `SchedulerInv` (the inductive invariant, with the reference counts), exclusive finish, chunk ownership, early hiding |
| `WorkAssistingRefines` | 2 threads, 2 addresses, 3 tasks of 0, 1 or 2 chunks | implements `TaskPool`, `AssistClient` and the protocol |
| `MultiAtomics` | 2 threads, 2 addresses, 2 tasks of 0, 1, 3 or 4 chunks, 2 atomics | no atomic abandoned, chunk ownership; implements `TaskPool`, `AssistClient` and the protocol |
| `ChainedScan` | 3 threads, blocks of 2; a scan (`our`) of 1 array of 4 blocks in 2 ranges, a compaction (`our`) of 2 arrays, a compaction (`inner`) of 3 arrays, one empty, a scan (`outer`) of 3 arrays, one empty | publication order, bounds, no circular wait, every output, complete at `finish` |
| `Reduction` | 3 threads, 0, 1, 4 or 7 elements, blocks of 2 or static ranges | each element counted once; complete at `finish`, or when joined |
| `SplitSum` | 3 threads, 0, 3, 4, 9 or 15 elements, blocks of 2 | exact pending count, each element in one place, complete at `finish` |
| `Lud` | 2 threads, 1 matrix of 3 x 3 tiles, 2 row blocks each | roles of `synchronisation_var`, tasks created once, implements `LuDecomposition` |
| `LudStealing` | 3 threads, 1 matrix of 3 x 3 tiles, 2 row blocks | both counters exact, implements `LuDecomposition` |
| `Quicksort` | 2 threads, 9 arrays of 5 to 7 elements, both modes, partition from 5, chunks of 2 | disjoint segments with their elements, settled places, reserved places, pending count, sorted result |
| `QuicksortDeque` | 2 threads, 11 arrays of 0 to 7 elements, blocks of 2 | reference count, pending count, reserved places, sorted at `finish` |
| `SequentialSort` | all arrays of up to 6 elements over 3 values, insertion sort up to 2 | indexes in bounds, they meet, all but the open calls sorted, a permutation |
| `LudStealingSingle` | 2 threads, 1 matrix of one tile | a violation, see below |

Why these bounds: three threads are needed for the interesting races of the slot (one
publishes, one hides, one joins in between); two chunks are needed for a thread to hide a task while another
executes a chunk of it; two addresses let a task be created while its creator is still published, and a third task
must reuse one. In `MultiAtomics` two threads suffice to draw each other's atomics; races of three threads at a slot are
those of the protocol, and it is proved that the scheduler refines that. The elements of the scanned array are such that a sum shows which
blocks it contains; three threads and four blocks give chains of look-backs over aggregates of two
others, and the two ranges of that array the case that a thread which looked back draws the range of block 0. In the
compacted arrays each block selects a different number of elements, so that a wrong prefix leaves a gap or an overlap;
with two arrays the first may be ready before the initial task is; every `temp` starts with what an
earlier run left. `U32` is the smallest word that holds the work size and one vain claim per thread:
`SizesAssumption` states that requirement, which the code does not check. In `MultiAtomics` a thread makes up to one vain claim
per atomic, and there the inequality is strict (9 for a size of 4): if it holds with equality the index is 0 again
after the last vain claim, and `AtomicKept`, which reads the indexes, is false although no thread claims any more. In the decomposition, three tiles in a row are the
least with a second iteration that has borders and an interior, which reuses the variables of the first, and two row blocks
make the count of the first tile more than a flag. The arrays put the pivot at either end and in the middle, repeat
elements, and give two levels of parallel partitions, so that segments are in both arrays at a time; `HALF = 16` is the
least power of two above the lengths. Symmetry is used for
addresses, which are only compared, in `WorkAssistingSafety`, where no liveness is checked.
Runs have `CHECK_DEADLOCK FALSE` because the program ends: all threads returned.
A pool of one thread is not among the runs: the theorems (safety and refinement) hold for any number of threads, termination is checked for two or three.

Fairness is weak fairness of each thread's steps: the operating system runs every thread, and a
chunk's code ends. No strong fairness is assumed: steals and compare-exchanges may fail as often as the
other threads' progress makes them fail. On `AssistPool` weak fairness of a thread's steps makes it take some step it can take, not a
certain one: it need not assist.

### The finding

`LudStealingSingle` shows that `lud/workstealing.rs` does not end on a matrix of a single tile: `schedule_border` has no
chunk to push, and only tasks lower `pending`. `our.rs`, whose structure the file says it follows, tests for the end of
the matrix first. The benchmarks decompose matrices of 8 and 16 tiles.

Three observations without a run of their own. In `deque_parallel_partition.rs` 157 the middle of the remaining blocks is
rounded to a multiple of `BLOCK_SIZE` although it is counted in blocks, so that the first of two subtasks is empty unless
the segment has more than 8192 blocks; the run with blocks of two has such subtasks and shows that the result is right. In
`quicksort/our.rs` 125 a part of one element may be copied after another thread has called `finish`; the result is complete
when the threads have returned (`ReturnedMeansSorted`), and `run` waits for that. `work_loop` of `multi_atomics` draws as many atomics as there are "to
make sure all atomics are finished" (`task.rs` 47), but from a turn that all threads share, so that a thread may hide the
task while an atomic it did not draw has chunks nobody claimed. `AtomicKept` shows that no chunk is lost by it: such an
atomic is with a thread that will use it up, or not drawn, and then no thread stopped. What is lost is the help of further
threads.

## What is proved

`tlapm` checks, for any number of threads, addresses, tasks and chunks:

* `AssistProofs`: `ProtocolInvariant`, that `ProtocolInv` is an invariant of `ProtocolSpec`, and
  `ProtocolGuarantees`, that `ReferenceCount`, `ExclusiveFinish`, `NullTagBound`, `SlotEmptyAtStart` and
  `FinishMeansDone` are. Assumed are only `ProtocolAssumption` (at least one thread, finitely many
  addresses, null is not an address).
* `WorkAssistingProofs`, `MultiAtomicsProofs`: `ImplementsProtocol` (each scheduler refines
  `ProtocolSpec`) and from it `SchedulerGuarantees`, the five properties for each scheduler. With `SizesAssumption`
  (the range of an atomic and the vain claims at it fit `u32`), the chunk loops: `SchedulerInvariant`, `ChunksHaveOneOwner`,
  `HidesWhenClaimed` and `TypeCorrect` for `WorkAssisting`, `ChunkInvariant` for `MultiAtomics`, and `ImplementsTaskPool` for
  both: every chunk runs exactly once, `finish` once and after all of them, the pool stops when no task is left. `ImplementsWorker`, for both: the
  scheduler with the history variables of `TaskHistory` implements `AssistClient`, so that the worker the other modules are about is the one they get.
* `ReductionProofs`: `EachElementOnce` (`SumInv`) and `CounterComplete` (`FinishedMeansSummed`), for the pool and the static
  versions, any number of threads and elements and any block size; `ReductionAssumption` only.
* `DivisionProofs`, the programs that divide a range: of `SplitSum`, `EachElementOnce` (`SumInv`) and `CounterComplete` (`FinishedMeansSummed`), for any number of threads and elements and
  any block size, with `SplitAssumption` and `StealerAssumption` only; of `SequentialSort`, `SortInvariant` (`SortInv`) and `ReturnsSorted`: `sort`
  leaves the array sorted and with the elements it had, for any array of natural numbers and any cutoff from 1; of `QuicksortDeque`, `PartitionSafe`
  (`PartitionInv`) and `ReferencesSafe` (`ReferencesCounted`): tasks and references are counted exactly and no two threads write to one place, for any
  number of threads, arrays of natural numbers, block size and cutoffs that satisfy `QuicksortDequeAssumption`: the partition counters fit
  their half (2^32 in the code), and a segment partitioned by one thread has four elements or more. The three modules share the proof module, hence names such as `SumSpec` in `SplitSum`.
* `ChainedScanProofs`: `LookBackInvariant` (`LookBackInv`), `OutputIsCorrect` (`OutputCorrect`) and `CompleteWhenFinished`
  (`CompletionInv`, with `FinishedMeansScanned`), for the three versions of scans and compactions, any arrays of natural numbers, any block size and any numbers of threads and ranges; `ScanAssumption` only.
* `WordsImplementTaggedPtrs` (`AssistProofs`). Take any addresses that fit the word (both halves of a canonical address
  space), different ones for different tasks and null. In every reachable state of the protocol the word in a slot gives
  back pointer and tag, comparing words compares records, and adding 1 to the word adds 1 to the tag. It needs that no
  tag carries into the pointer: `TagsStayBounded` derives from the inductive invariant that a tag is less than `N`, and the
  theorem assumes `N <= TAGS`, 2^16 in the code. It is the claim of the comment `worker.rs` 193-204.
* `LudProofs`: `SyncInvariant` (`SyncInv`) and `ImplementsAbstract` (`ImplementsLu`): the decomposition on the pool goes through its
  iterations in order, starts every tile operation on final values, without two that conflict at a time, and finishes the pool when all matrices are
  decomposed, for any numbers of threads, matrices, tiles and parts of a tile; `LudAssumption` and `TilesAssumption` only.
* `LudStealingProofs`: `StealingCounts` (`CountersInv`) and `StealingImplements` (`ImplementsLu`): the decomposition on deques counts exactly what is left in
  both variables of a matrix, however ranges are split and stolen, and implements the same specification, for any numbers of threads, matrices, tiles
  (one tile included) and parts; `StealerAssumption` and `TilesAssumption` only.
* The pure functions: `StaticRangesPartition` (in `ReductionProofs`; the ranges of `static_parallel` are a partition for every number of threads and
  elements); `PrimesRecognised` (in `ReductionProofs`; `is_prime` is right from 2 on; it calls 1 prime, but the benchmark starts at 2);
  `MatrixIndex` and `MatrixSlice` (in `LudProofs`; the unchecked accesses of `matrix.rs` stay in the allocation, do not collide, and a slice of 32
  is that part of its row), for sizes that are multiples of 32, as all matrices of the LU decomposition are: `new` rounds
  `size * size / 32` down without a check.

`ReferenceCount` is not inductive: what the counts are depends on which threads may still touch the slot. The
strengthening in `ProtocolInv` says where a task can be (`QueueInv`: in one place of one deque, or with
threads), what a label says about the thread's signal (`ThreadInv`), who can have a published task
(`SlotInv`: its publisher, which has not signalled, and threads that joined through that very slot), that one
thread at a time carries references from a slot to `active_threads` (`AddInv`), and that the client's
count is that of its tasks (`PendingInv`). The proof has one lemma per action; cardinalities of the set of users
are handled by lemmas on adding and removing an element.

The chunk loop of `WorkAssisting` needs more than that a chunk has one owner. `work_index` is a word, so that "claimed" means
something only while it has not wrapped; each thread makes at most one vain claim, so that the index and the threads that
may still claim together exceed `work_size` by at most `N`. A claimed chunk is executed or with
exactly one thread, and once the last chunk is claimed, the thread that has it, or one that claimed past it, is on its
way to empty the slot, or has: that is what makes the early out of `try_assist` and the hiding in `work_loop` right, for a
late thread with an old pointer as well, by `SlotInv`.

In `MultiAtomics` a thread leaves its loop after as many draws as there are atomics, from a turn that all share, and nothing says
which it got. The invariant counts: draws made and draws left are at most one per thread and atomic together (`TurnInv`), so
that the turn does not wrap; a thread that stopped drawing, and a task that is hidden, imply that the turn has gone round once
(`RoundInv`), so that every atomic was drawn. A draw ends in one vain claim, so that an index and the threads in the
loop together exceed the end of the range by at most the draws made (`IndexInv`). With that the three cases of `AtomicKept` are inductive: an
atomic is used up, or with a thread that claims until it is, or not drawn yet, and then all who joined still draw. The numbering of chunks is
the sum of the sizes before an atomic (`Ends`), for which an induction over the atomics is carried out in the proof with
`SetInduction`.

Both refinements of `TaskPool` map a task to its address, `size` and `executed` to what the task object holds. The steps that
are not stutters are the creation (`new_dataparallel`, by the protocol's client), the end of a chunk and the call of `finish`; that
`finish` comes after all chunks is where `ChunkOwnership`, the reference counts and `AtomicKept` meet: nobody has the task any
more, so nobody holds a chunk of it, so every chunk is executed.

The refinements of `AssistClient` need history: an address is reused, while a task of `AssistClient` has a number for ever.
`IdentityInv` (no two tasks have a number, retired or not, and a task keeps it until it is freed) and `EndedInv` (a task that a thread
has stopped claiming of is not published, and a loop that finishes was stopped) are inductive for every client of the protocol.
`TaskFacts` draws from it which chunks a task of the client has claimed: those of the address it is at, or all once it is retired. Then each kind of step is
a step of the client or none, one lemma each. The hard ones are the end of a loop, for which `WorkAssisting` has claimed all chunks and `MultiAtomics` leaves a
thread that goes on claiming (`AtomicsKeepLeavers`), the joining of a task, which is open because it is published, the
last thread to leave (`LastIsAlone`, from the reference counts) and the freeing of a task, all of whose chunks were claimed (`FinishedIsClaimed`).

`SumInv` says where an element may be: in a block that nobody claimed, in a block that a thread is working on, in a local sum or in the
counter, in exactly one of these, once. It is inductive with `Stages` (the task is queued, open or ended, and what that
allows each thread) and `BlockOwned` (a claimed block is with one thread until it is summed). The arithmetic is that of
blocks: `BlockOfElement` and `BlockElements`, an element `e` is in block `e \div BlockSize` and in no other, with the last block shorter; for
the static versions it is `StaticRangesPartition`.

`SumInv` of `SplitSum` follows tasks from place to place: a deque and an index in it, an index in the subtasks to be pushed, or a thread. A
pop, a theft and a push are bijections between the places before and after the step that keep what waits at each (`TasksMoved`; a theft
shifts the indexes of a whole deque), so they change neither the count nor where an element is. A split puts every element of the
range with the thread or in one subtask (`SplitParts`). `LastTask` says that `pending` is 0 from the last decrement on; then there is no place, and every element was added.

`LookBackInv` joins what the pool promises with what the threads sum up. The pool: a task waits, is open, is closed and ended by its last
thread (`TaskStages`), and is pushed once, when nobody uses its `temp` (`PushedOnce`); the blocks of a range are claimed in order, by the
thread that drew it (`RangesInOrder`). The sums: a claimed block that announced nothing has a thread before its announcement
(`AnnouncedInOrder`), what is announced is the total of the block or of all up to it (`AnnouncedIsThere`), and a thread's local sum is that of
the blocks between the one it looks at and its own (`SumsSoFar`). Block 0 announces its prefix at once and before all others: hence the look-back stays in bounds, and a
thread that had to look back and then draws the range of block 0 does not exist, because it has seen a prefix
(`SequentialThreads` with `SumSoFar`). `WaitsForEarlier` follows from the rest: the block waited for was claimed by a thread that holds it, or lies in a range whose
holder is at an earlier block of it. Totals of parts of an array are recursive functions; that they add up (`TotalAdds`) and that
a part started from the total before it stores what the sequential version does (`StoredAsReference`) is proved with `SetInduction`.

`CompletionInv` adds what an output has so far. A claimed block is in the output or a thread is about to write it (`BlocksScanned`); a
task that is closed has all its blocks claimed or a thread that goes on claiming (`ClosedTasks`). So when the last thread ends a task
(`LastThread`: nobody else is with it) every block is written, and the blocks together are the array (`BlocksMakeArray`): the output
is the reference, and stays it (`ArraysScanned`). That `finish` is called then and not before is `PendingCountsTasks`: `pending` is the number of
tasks that are due, and a task which the initial task has yet to push counts. It is inductive together with `LookBackInv` and `OutputCorrect`.

The tasks of a decomposition come and go, and any thread may be the last of one, so that what `synchronisation_var` counts can
only be said with the progress of the matrix. `StagesInv` gives every matrix a stage and an iteration: an iteration starts, its left and its top border are
pushed and run, the count of the first tile is stored, the interior is pushed and runs until that tile is counted, the diagonal tile of the next
iteration is decomposed while the rest of the interior runs ahead of it, and the last thread of the interior starts the next iteration. A stage
determines which tasks exist (`TasksInStage`), the one thread that takes the matrix to the next (`ThreadsInStage`), the value of `synchronisation_var`, which
in the borders depends on whether the other one has ended (`SyncInStage`), and the version of every cell from the chunks that are done
(`VersionIn`). `PoolInv` is what the pool adds: a chunk is done once, by one thread, and a task whose finish function runs has no other
thread and no chunk left. `StopInv` is needed for the end: `pending` counts the matrices not decomposed, and the thread that counts the last is alone. Together
with `TypeOK` these are inductive (`LudInv`); the parts of `SyncInv` that were there before, `OneIteration`, `FirstTileCounted` and `CreatedOnce`, follow.
The proof has, for each action, a lemma on its effect, one that `PoolInv` is kept, and one that every other matrix keeps its stage and this one its stage or has the
next. For the refinement, that a cell has the version of its stage makes every operation `Ready` when it begins (`ChunkReady`, `CopyReady`,
`FirstReady`, `NextReady`), and two operations that are ready at once do not conflict (`ReadyDisjoint`): this is about the tiles alone, by the
one chunk that updates a cell in an iteration (`ChunkWrites`, `InteriorChunk`). The two borders make their copy of the same diagonal tile, so that the abstract set of operations
has a copy that two threads execute once: the second begin and the first end are stutters.

On deques there are no shared tasks and no finish functions: a chunk of `LudStealing` is a name (kind, matrix, iteration, index) held in a task, and a task of the
interior holds a range of names that splits. `StealInv` says where each name is. `ChunkOnce`: no chunk is held twice, by deques, subtasks to be
pushed, or threads that execute it or count it. `StealStagesInv` gives each matrix a stage and an iteration, as `StagesInv` does for `Lud`: at a stage only chunks of
certain kinds and of that iteration are held (`KindsLeft`); either nobody or one thread, at a known label, drives the matrix to the next stage (`DriverInStage`); each
variable is the number of its chunks that are held and not counted, or 0 (`CountersInStage`); and a cell has its new version unless
the chunk that updates it is still to come or to be executed (`ReachedVersion`). `CountersInv` says nothing of a matrix without chunks, and so
cannot exclude that two threads go on with it: hence the stages. `StealThread` ties the work of a thread to the task and the label. A step takes a set of
chunks of one matrix from one place to another (`Shift`): nowhere when they are made or counted. One set of lemmas says what
a shift does to `ChunkOnce` and the counts, so that of each action only the shift has to be found; a split is one that leaves every chunk where it is, and a
pop or a theft takes all chunks of a task from a deque. Every other matrix keeps its stage (`HeldNext` with no chunk of it). The arithmetic of borders and chunks, and that
ready operations do not conflict, is about the tiles alone: `LudStealingProofs` takes it from `LudProofs`, of which it makes an instance with an empty pool.

`SortInv` says what both indexes of the partition have passed, that the segments of open calls follow one another, and that two elements
out of order are in one segment of an open call (`SortedButForCalls`). Each step rearranges elements within the first segment;
`SegmentRearranged` shows once that this keeps the order between that segment and the rest and the number of occurrences of every
value, and is used with an exchange (`Exchanged`) and with the shift of the insertion sort (`ShiftIsPermutation`).

`SortingInv` of `QuicksortDeque` gives every task what it has for itself. A task has a region of the array (`RegionOf`): its segment, then what is
left of it when the left and the right part are given away, at last the place of the pivot. Regions of different tasks are disjoint
(`RegionsApart`), but for tasks on blocks of one segment, which share it and have different blocks of it (`BlocksApart`). This is the comment in
`parallel_partition_chunk` that no other thread modifies this part of the input, and it is what makes a Sort object, named by its segment, new when a task is created for it:
another one with its name would share its region. The places that were reserved and those of the elements in blocks nobody has partitioned yet add up to the segment without the pivot
(`ElementsCounted`); the fetch_add takes from the one and adds to the other the length of a block, so the two ends cannot meet
early, and when the last reference is dropped no block is left and one place remains, for the pivot. What a thread has reserved and not yet written stays within what the counters say and
apart from what others reserved (`ThreadInv`, `CopiesApart`). `pending_tasks` is the number of places with a task that is not a partition plus the number of
Sort objects in use, so a step is looked at by the places it takes away and adds; that as many tasks are made as `count_recursive_calls` says is
`PartsAre`. `EndingInv` says that a thread that found the count to be 1 is alone, and `ResetLeft` that the sort begins after the last reset. The elements that a partition picks are in `Picked` by their rank
and sorting is by order statistics, without a recursion: `PickedIs` and `SortedBelow` give their lengths and types.

`Primes`, `SquareMatrix` and `PtrWord` are pure operators without a run of their own: their theorems are for all arguments.

Only model-checked: every liveness property, which like `ENABLED` is out of reach of the proof system; that the array is sorted when the
pool of `QuicksortDeque` is finished; and the safety of `Quicksort`. The first needs, beyond `SortingInv`, that the elements of a segment stay the
ones that belong there while they are moved between two arrays by several threads, a count for every value of what was copied, reserved and left; the second is the same over chunks that
are claimed from a shared task instead of blocks in tasks. The induction theorems of the library take an operator as
a parameter, which the provers cannot instantiate; an induction over a set (`SetInduction`) or by the least
counterexample (`LeastNatural`) is a first-order statement and is used where one is needed.

## Not modelled

The benchmark harness, thread creation and pinning, the macros, the rayon and OpenMP versions and the third-party sources:
sequential, input and output, libraries or foreign code. Of `matrix.rs`, all but the layout: copies of triangles, the product and
the comparison are sequential loops over floating-point numbers. The wrap-around of sums in `u32` and `u64`. Weak-memory effects on
non-atomic data. The deallocation of data inside a task. The local copy of a top border tile that a thread of the
LU interior keeps from chunk to chunk: what it copies is final. The `0` case of `count_recursive_calls` occurs only
for segments shorter than any cutoff allows; the assumptions of the quicksort modules state that.

## Plan

The order of the modules was: what all else rests on first (the protocol, the schedulers, their promise), then the
clients with the subtlest synchronisation (scan, LU decomposition, quicksort), then the pool they are compared with.

1. done: protocol, both schedulers, `TaskPool`, `AssistPool` and its clients, `DequeStealer` and its clients; the theorems on
   the protocol.
2. done: the word of `ptr.rs`; the refinement mappings to `AssistPool`; scans and compactions of several arrays in all
   versions; the static versions; the layout of the matrix.
3. done: proofs that `SchedulerInv` and `ChunkInv` hold and that both schedulers implement `TaskPool`; the reductions on the pool; the sequential sort.
4. done: the look-back and the output of `ChainedScan`, and that it is complete when the pool is finished.
5. done: the splitting reductions; both schedulers implement `AssistClient`.
6. done: the decomposition on the pool: its invariant, and that it implements `LuDecomposition`; that the operations of one iteration in
   `LuTiles` do not conflict.
7. done: the same for the decomposition on deques.
8. done: the counts and the reserved places of the quicksort on deques.
9. Not done: `FinishedMeansSorted` of `QuicksortDeque`; the invariants of `Quicksort`.
