----------------------------- MODULE Reduction ------------------------------
(***************************************************************************)
(* The reductions of prime, sum_array and sum_function, which differ in    *)
(* the value of an element only.  Work-assisting (our.rs): one task, each  *)
(* thread adds up its chunks in a variable of its own and adds that to the *)
(* counter after the loop; it runs on AssistPool.  Static: no pool, each   *)
(* of the threads of a scope does the same with one range.                 *)
(***************************************************************************)
EXTENDS Integers, FiniteSetsExt, StaticRanges

CONSTANTS
  N,            \* number of threads
  BlockSize,    \* BLOCK_SIZE / S::CHUNK_SIZE
  Lengths       \* numbers of elements to reduce

ASSUME ReductionAssumption ==
  /\ N \in Nat \ {0}
  /\ BlockSize \in Nat \ {0}
  /\ Lengths \subseteq Nat

VARIABLES
  length,       \* length of the input
  counter,      \* counter[e]: how often element e was added to the counter
  local_count,  \* local_count[t][e]: the same for the variable of thread t
  queued, open, claimed, is_finished, pc, task, chunk  \* see AssistPool

(* A task is the length of its input.                                      *)
NoTask == -1

\* Mutated: the last block is lost when it is not a whole one.
SizeRoundedDown(a) == a \div BlockSize
Size(a) == (a + BlockSize - 1) \div BlockSize

Entry(a) == "loop"
After(a) == "add"

\* Mutated: the finish function only drops the task.
ExitIdle(a) == "idle"
Exit(a) == "finish"

INSTANCE AssistPool

\* What a function of the task leaves to the pool.
scheduling == <<queued, open, claimed, chunk>>

sumVars == <<length, counter, local_count>>
vars == <<scheduling, is_finished, pc, task, sumVars>>

Elements == 0 .. length - 1

Nothing == [e \in Elements |-> 0]

(* static_parallel spawns its threads at once.                             *)
StaticInit ==
  /\ queued = {} /\ open = {} /\ claimed = << >>
  /\ is_finished = FALSE
  /\ pc = [t \in Threads |-> "static"]
  /\ task = [t \in Threads |-> NoTask]
  /\ chunk = [t \in Threads |-> NoChunk]

Init ==
  /\ length \in Lengths
  /\ counter = Nothing
  /\ local_count = [t \in Threads |-> Nothing]
  /\ PoolInit(length, {length}) \/ StaticInit

\* Mutated: the end of the block is in the block.
BlockInclusive(c) == c * BlockSize .. Min({(c + 1) * BlockSize, length - 1})

(* The loop of a chunk ends with its block or with the input.              *)
Block(c) == c * BlockSize .. Min({(c + 1) * BlockSize, length}) - 1

CountLocally(t, elements) ==
  local_count' = [local_count EXCEPT ![t] =
    [e \in Elements |-> @[e] + IF e \in elements THEN 1 ELSE 0]]

RunChunk(t) ==
  /\ pc[t] = "run"
  /\ CountLocally(t, Block(chunk[t]))
  /\ Goto(t, "claim")
  /\ UNCHANGED <<scheduling, is_finished, task, length, counter>>

RunStatic(t) ==
  /\ pc[t] = "static"
  /\ CountLocally(t, StaticRange(t, length, N))
  /\ Goto(t, "add")
  /\ UNCHANGED <<scheduling, is_finished, task, length, counter>>

(* A thread of static_parallel ends here and is joined by the scope.       *)
AddLocal(t) ==
  /\ pc[t] = "add"
  /\ counter' = [e \in Elements |-> counter[e] + local_count[t][e]]
  /\ local_count' = [local_count EXCEPT ![t] = Nothing]
  /\ Goto(t, IF task[t] = NoTask THEN "returned" ELSE "leave")
  /\ UNCHANGED <<scheduling, is_finished, task, length>>

FinishPool(t) ==
  /\ pc[t] = "finish"
  /\ Finish
  /\ Leave(t)
  /\ UNCHANGED <<scheduling, sumVars>>

Step(t) ==
  \/ PoolStep(t) /\ UNCHANGED sumVars
  \/ RunChunk(t)
  \/ RunStatic(t)
  \/ AddLocal(t)
  \/ FinishPool(t)

Next == \E t \in Threads : Step(t)

Spec == Init /\ [][Next]_vars

(* Every thread is scheduled, takes tasks and leaves when the pool is      *)
(* finished; nobody need assist.                                           *)
FairSpec == Spec /\ \A t \in Threads : WF_vars(Step(t))

-----------------------------------------------------------------------------
(* The values of the variables; a chunk has elements, all of the input, so *)
(* that no index is out of the array.                                      *)
TypeOK ==
  /\ length \in Lengths
  /\ counter \in [Elements -> Nat]
  /\ local_count \in [Threads -> [Elements -> Nat]]
  /\ queued \subseteq {length} /\ open \subseteq {length}
  /\ is_finished \in BOOLEAN
  /\ pc \in [Threads -> PoolLabels \cup {"run", "static", "add", "finish"}]
  /\ task \in [Threads -> {length, NoTask}]
  /\ chunk \in [Threads -> Int]
  /\ \A t \in Threads :
       pc[t] = "run" => Block(chunk[t]) # {} /\ Block(chunk[t]) \subseteq Elements

Blocks == 0 .. Size(length) - 1

(* The threads of static_parallel leave the pool alone.                    *)
WithoutPool ==
  /\ queued = {} /\ open = {} /\ claimed = << >> /\ ~is_finished
  /\ \A t \in Threads : pc[t] \in {"static", "add", "returned"} /\ task[t] = NoTask

(* A thread on the pool has the task, or is idle, or saw the pool finished.*)
OnPool ==
  /\ claimed \in [{length} -> SUBSET Blocks]
  /\ \A t \in Threads :
       /\ pc[t] # "static"
       /\ task[t] = NoTask <=> pc[t] \in {"idle", "returned"}
       /\ pc[t] = "returned" => is_finished

(* A block that is run was claimed, by one thread.                         *)
BlockOwned ==
  \A t \in Threads : pc[t] = "run" =>
    /\ chunk[t] \in claimed[length]
    /\ \A u \in Threads \ {t} : pc[u] = "run" => chunk[u] # chunk[t]

(* The stages of the task: it waits; it is open, and no thread is past its *)
(* loop; while a block is not claimed some thread is in the loop; the last *)
(* thread finishes it.                                                     *)
Stages ==
  /\ queued # {} => /\ claimed[length] = {} /\ open = {} /\ ~is_finished
                    /\ \A t \in Threads : pc[t] = "idle"
  /\ open # {} => /\ ~is_finished
                  /\ \A t \in Threads : pc[t] \notin {"add", "leave", "finish", "returned"}
  /\ queued = {} /\ claimed[length] # Blocks =>
       \E t \in Threads : pc[t] \in {"assist", "claim", "run"}
  /\ \A t \in Threads : pc[t] = "finish" =>
       \A u \in Threads \ {t} : task[u] = NoTask
  /\ is_finished => queued = {} /\ \A t \in Threads : task[t] = NoTask

(* Only in its loop, or when it is to add it, a thread has a local count.  *)
LocalCounts ==
  \A t \in Threads : pc[t] \notin {"claim", "run", "add"} => local_count[t] = Nothing

(* Element e is in a chunk or a range that nobody has run yet.             *)
Waiting(e) ==
  \/ \E a \in DOMAIN claimed : \E c \in 0 .. Size(a) - 1 :
       /\ e \in Block(c)
       /\ c \notin claimed[a] \/ \E t \in Threads : pc[t] = "run" /\ chunk[t] = c
  \/ \E t \in Threads : pc[t] = "static" /\ e \in StaticRange(t, length, N)

(* The threads that have counted element e in their variable.              *)
Holders(e) == {t \in Threads : local_count[t][e] # 0}

(* Each element is counted once, whichever thread runs its chunk: it waits *)
(* in a chunk, is in the variable of one thread, or in the counter.        *)
ElementOnce ==
  \A e \in Elements :
    \/ Waiting(e) /\ Holders(e) = {} /\ counter[e] = 0
    \/ /\ ~Waiting(e) /\ counter[e] = 0
       /\ \E t \in Threads : Holders(e) = {t} /\ local_count[t][e] = 1
    \/ ~Waiting(e) /\ Holders(e) = {} /\ counter[e] = 1

(* The counter is complete when the pool is finished, and when the threads *)
(* of static_parallel are joined: no thread still has a local count to add *)
(* when the finish function is called.                                     *)
FinishedMeansSummed ==
  is_finished \/ (\A t \in Threads : pc[t] = "returned") =>
    \A e \in Elements : counter[e] = 1

(* The pool is finished and every thread returns, an empty input included. *)
Termination == <>(\A t \in Threads : pc[t] = "returned")

(* Every element is in one place, and every index in the array.            *)
SumInv ==
  /\ TypeOK
  /\ WithoutPool \/ (OnPool /\ BlockOwned /\ Stages)
  /\ LocalCounts
  /\ ElementOnce
=============================================================================
