---------------------------- MODULE MultiAtomics ----------------------------
(***************************************************************************)
(* The scheduler of src/schedulers/multi_atomics: AssistProtocol with the  *)
(* chunks of a task divided over several atomic indices.  A thread draws   *)
(* an atomic in turn, claims chunks from it until it is used up, and does  *)
(* so as many times as there are atomics.  The turn is shared by the       *)
(* threads, so that one thread need not draw every atomic.                 *)
(***************************************************************************)
EXTENDS AssistProtocol

CONSTANTS
  Sizes,       \* work sizes the program passes to new_dataparallel
  ATOMICS,     \* at most so many atomics for a task
  MIN_CHUNKS,  \* and at least so many chunks for each of them
  U32          \* number of values of an AtomicU32

Least(m, n) == IF m < n THEN m ELSE n
Most(m, n)  == IF m < n THEN n ELSE m

(* new_dataparallel: the number of atomics of a task of n chunks.          *)
Atomics(n) == Most(1, Least(ATOMICS, n \div MIN_CHUNKS))

(* Each thread draws an atomic at most Atomics(n) times, and claims from   *)
(* it vainly once each time.  Were the index to reach U32 - fetch_add      *)
(* wraps - a used up atomic would look as if it had chunks again.          *)
ASSUME SizesAssumption ==
  /\ Sizes \subseteq Nat /\ Sizes # {}
  /\ ATOMICS \in Nat \ {0} /\ MIN_CHUNKS \in Nat \ {0}
  /\ U32 \in Nat
  /\ \A n \in Sizes : n + N * Atomics(n) < U32

VARIABLES
  work_size,           \* work_size[a][i]: the end of the range of atomic i
  work_indexes,        \* work_indexes[a][i]: the next chunk of atomic i
  work_indexes_index,  \* work_indexes_index[a]: the atomics drawn so far
  done,                \* done[a]: chunks executed; history of the task at a
  current_index,       \* current_index[t]: the atomic drawn by t
  round,               \* round[t]: how many times t drew
  chunk                \* chunk[t]: chunk_idx of work_loop

taskData == <<work_size, work_indexes, work_indexes_index, done>>
loopData == <<taskData, current_index, round, chunk>>
vars == <<protocolVars, loopData>>

(* distribute: x divided over n parts that differ by at most one.          *)
Distribute(x, n) ==
  [i \in 0 .. n - 1 |-> x \div n + (IF i < x % n THEN 1 ELSE 0)]

(* Where the range of each atomic ends, and where it starts.               *)
Ends(n) ==
  LET part == Distribute(n, Atomics(n))
      end[i \in DOMAIN part] == part[i] + (IF i = 0 THEN 0 ELSE end[i - 1])
  IN  end

Starts(n) == [i \in DOMAIN Ends(n) |-> IF i = 0 THEN 0 ELSE Ends(n)[i - 1]]

NoAtomics == [i \in {} |-> 0]
IndexVectors == UNION {[0 .. k - 1 -> 0 .. U32 - 1] : k \in 0 .. ATOMICS}
NumAtomics(a) == Cardinality(DOMAIN work_size[a])

TypeOK ==
  /\ ProtocolTypeOK
  /\ work_size \in [Addrs -> IndexVectors]
  /\ work_indexes \in [Addrs -> IndexVectors]
  /\ \A a \in Addrs : DOMAIN work_indexes[a] = DOMAIN work_size[a]
  /\ work_indexes_index \in [Addrs -> 0 .. U32 - 1]
  /\ done \in [Addrs -> SUBSET Nat]
  /\ current_index \in [Threads -> 0 .. ATOMICS - 1]
  /\ round \in [Threads -> 0 .. ATOMICS]
  /\ chunk \in [Threads -> 0 .. U32 - 1]

(* The tasks a program creates: new_single, or new_dataparallel with a     *)
(* work size.  A work size of 0 makes a loop with one empty atomic.        *)
Ranges(k) ==
  IF k = "single" THEN {[start |-> NoAtomics, end |-> NoAtomics]}
  ELSE {[start |-> Starts(n), end |-> Ends(n)] : n \in Sizes}

Init ==
  \E a \in Addrs, k \in {"single", "loop"} : \E r \in Ranges(k) :
    /\ ProtocolInit(a, k)
    /\ work_size = [b \in Addrs |-> IF b = a THEN r.end ELSE NoAtomics]
    /\ work_indexes = [b \in Addrs |-> IF b = a THEN r.start ELSE NoAtomics]
    /\ work_indexes_index = [b \in Addrs |-> 0]
    /\ done = [b \in Addrs |-> {}]
    /\ current_index = [t \in Threads |-> 0]
    /\ round = [t \in Threads |-> 0]
    /\ chunk = [t \in Threads |-> 0]

-----------------------------------------------------------------------------
(* The next atomic to work on, for the next round of the `for`.            *)

AtomicDrawn(t) == work_indexes_index[task[t]] % NumAtomics(task[t])

DrawAtomic(t) ==
  /\ pc[t] = "enter"
  /\ current_index' = [current_index EXCEPT ![t] = AtomicDrawn(t)]
  /\ work_indexes_index' = [work_indexes_index EXCEPT ![task[t]] = (@ + 1) % U32]
  /\ round' = [round EXCEPT ![t] = @ + 1]
  /\ Goto(t, "next")
  /\ UNCHANGED <<shared, other, retry, task, signal>>
  /\ UNCHANGED <<work_size, work_indexes, done, chunk>>

\* Mutated: the loop over the atomics ends a round early.
RoundsLeftButOne(t) == round[t] < NumAtomics(task[t]) - 1
RoundsLeft(t) == round[t] < NumAtomics(task[t])

\* Mutated: task_empty is not called when the loop ends.
AfterLoopNoSignal(t) == "end"
AfterLoop(t) == IF state[t] = "DidSignal" THEN "end" ELSE "signal"

(* A chunk of the atomic, or, when it is used up, the next round; after    *)
(* the last round task_empty, which does nothing the second time.          *)
ClaimChunk(t) ==
  LET i == current_index[t]
      c == work_indexes[task[t]][i]
  IN  /\ pc[t] = "next"
      /\ chunk' = [chunk EXCEPT ![t] = c]
      /\ work_indexes' = [work_indexes EXCEPT ![task[t]][i] = (c + 1) % U32]
      /\ \/ /\ c < work_size[task[t]][i]
            /\ Goto(t, "body")
            /\ UNCHANGED round
         \/ /\ c >= work_size[task[t]][i]
            /\ RoundsLeft(t)
            /\ Goto(t, "enter")
            /\ UNCHANGED round
         \/ /\ c >= work_size[task[t]][i]
            /\ ~RoundsLeft(t)
            /\ Goto(t, AfterLoop(t))
            /\ round' = [round EXCEPT ![t] = 0]
      /\ UNCHANGED <<shared, other, retry, task, signal>>
      /\ UNCHANGED <<work_size, work_indexes_index, done, current_index>>

RunChunk(t) ==
  /\ pc[t] = "body"
  /\ done' = [done EXCEPT ![task[t]] = @ \cup {chunk[t]}]
  /\ Goto(t, "next")
  /\ UNCHANGED <<shared, other, retry, task, signal>>
  /\ UNCHANGED <<work_size, work_indexes, work_indexes_index, current_index, round, chunk>>

Signal(t) ==
  /\ pc[t] \in {"signal", "cas", "add"}
  /\ TaskEmpty(t, "end")
  /\ UNCHANGED loopData

-----------------------------------------------------------------------------
FinishTask(t) ==
  /\ FreeTask(t)
  /\ work_size' = [work_size EXCEPT ![task[t]] = NoAtomics]
  /\ work_indexes' = [work_indexes EXCEPT ![task[t]] = NoAtomics]
  /\ done' = [done EXCEPT ![task[t]] = {}]
  /\ UNCHANGED <<work_indexes_index, current_index, round, chunk>>

CreateTask(t) ==
  \E a \in Addrs, k \in {"single", "loop"} : \E r \in Ranges(k) :
    /\ SpawnTask(t, a, k)
    /\ work_size' = [work_size EXCEPT ![a] = r.end]
    /\ work_indexes' = [work_indexes EXCEPT ![a] = r.start]
    /\ work_indexes_index' = [work_indexes_index EXCEPT ![a] = 0]
    /\ UNCHANGED <<done, current_index, round, chunk>>

Step(t) ==
  \/ ProtocolStep(t) /\ UNCHANGED loopData
  \/ DrawAtomic(t)
  \/ ClaimChunk(t)
  \/ RunChunk(t)
  \/ Signal(t)
  \/ FinishTask(t)
  \/ CreateTask(t)

Next == \E t \in Threads : Step(t)

Spec == Init /\ [][Next]_vars

(* The operating system runs every thread of the pool; a chunk ends.       *)
FairSpec == Spec /\ \A t \in Threads : WF_vars(Step(t))

-----------------------------------------------------------------------------
(* Properties                                                              *)

UsedUp(a, i) == work_indexes[a][i] >= work_size[a][i]

(* A thread that gives up on a task abandons no atomic: each of them is    *)
(* used up, or kept by a thread that claims from it until it is, or not    *)
(* yet drawn, and then nobody who worked on the task has stopped drawing.  *)
(* The shared turn makes this so, although a thread that stops may never   *)
(* have drawn some of the atomics (task.rs 48-61).                         *)
Kept(a, i) ==
  \/ UsedUp(a, i)
  \/ \E t \in Users(a) : pc[t] \in {"next", "body"} /\ current_index[t] = i
  \/ /\ work_indexes_index[a] <= i
     /\ \A t \in Users(a) : pc[t] \in {"enter", "next", "body"}

AtomicKept == \A a \in Addrs : \A i \in DOMAIN work_size[a] : Kept(a, i)

(* Two threads never hold the same chunk, nor one that was executed, and   *)
(* a chunk is claimed from the atomic whose range it is in.                *)
ChunkOwnership ==
  \A t \in Threads : pc[t] = "body" =>
    /\ chunk[t] \notin done[task[t]]
    /\ current_index[t] = 0 \/ chunk[t] >= work_size[task[t]][current_index[t] - 1]
    /\ \A u \in Threads \ {t} :
         pc[u] = "body" /\ task[u] = task[t] => chunk[u] # chunk[t]

(* Every thread returns, so that run_on's joins do.                        *)
Termination == <>(\A t \in Threads : pc[t] = "returned")

(* The scheduler implements the pool it stands for: the number of chunks   *)
(* of a task is where the range of its last atomic ends.                   *)
PoolSize(a) ==
  IF kind[a] = "free" THEN -1
  ELSE IF kind[a] = "single" THEN 0 ELSE work_size[a][NumAtomics(a) - 1]

Pool == INSTANCE TaskPool WITH
  size <- [a \in Addrs |-> PoolSize(a)], Sizes <- Sizes \cup {0}, stopped <- is_finished
ImplementsPool == Pool!Spec

-----------------------------------------------------------------------------
(***************************************************************************)
(* The invariant that makes AtomicKept and ChunkOwnership inductive: how   *)
(* often the threads may still draw, how far they may go past the end of   *)
(* an atomic, and who has the chunks that were claimed.                    *)
(***************************************************************************)

Drawing  == {"enter", "next", "body"}
Claiming == {"next", "body"}

StartOf(a, i) == IF i = 0 THEN 0 ELSE work_size[a][i - 1]

(* The chunks claimed from atomic i of task a, and from all of them.       *)
Taken(a, i) ==
  {c \in StartOf(a, i) .. work_size[a][i] - 1 : c < work_indexes[a][i]}
Claimed(a) == UNION {Taken(a, i) : i \in DOMAIN work_size[a]}

Holders(a) == {t \in Users(a) : pc[t] \in Claiming}
Carriers(a) == {t \in Users(a) : pc[t] = "body"}

(* The draws that are left: thread and round.  A thread that has not       *)
(* joined yet may do so as long as the task is offered.                    *)
DrawsLeft(a) ==
  {d \in Threads \X (1 .. NumAtomics(a)) :
     IF d[1] \in Users(a) THEN pc[d[1]] \in Drawing /\ d[2] > round[d[1]]
                          ELSE Published(a)}

(* A task that was not entered has all its chunks, and only loops have any. *)
StartInv(a) ==
  /\ kind[a] = "loop" => \E n \in Sizes : work_size[a] = Ends(n)
  /\ kind[a] # "loop" => work_size[a] = NoAtomics /\ done[a] = {}
  /\ Fresh(a) => /\ done[a] = {} /\ work_indexes_index[a] = 0
                 /\ \A i \in DOMAIN work_size[a] : work_indexes[a][i] = StartOf(a, i)
  /\ \A t \in Users(a) : kind[a] = "loop"

(* A thread counts its own draws; one that is through drew every round.    *)
RoundInv(a) ==
  \A t \in Users(a) :
    /\ pc[t] = "enter" => round[t] < NumAtomics(a)
    /\ pc[t] \in Claiming => /\ round[t] \in 1 .. NumAtomics(a)
                             /\ current_index[t] \in DOMAIN work_size[a]
    /\ round[t] <= work_indexes_index[a]
    /\ pc[t] \notin Drawing => work_indexes_index[a] >= NumAtomics(a)

(* The turn does not wrap, and it went round when the task is hidden.      *)
TurnInv(a) ==
  /\ work_indexes_index[a] + Cardinality(DrawsLeft(a)) <= N * NumAtomics(a)
  /\ Fresh(a) \/ Published(a) \/ work_indexes_index[a] >= NumAtomics(a)

(* Each draw ends in one vain claim: an index goes past its end by the     *)
(* draws of the threads that hold an atomic no more, at most.              *)
IndexInv(a) ==
  \A i \in DOMAIN work_size[a] :
    /\ work_indexes[a][i] >= StartOf(a, i)
    /\ Most(work_indexes[a][i], work_size[a][i]) + Cardinality(Holders(a))
         <= work_size[a][i] + work_indexes_index[a]

(* A claimed chunk is executed or carried, by one thread, which took it    *)
(* from the atomic that it holds.                                          *)
OwnerInv(a) ==
  /\ done[a] \subseteq Claimed(a)
  /\ \A t \in Carriers(a) : chunk[t] \in Taken(a, current_index[t]) \ done[a]
  /\ \A t, u \in Carriers(a) : chunk[t] = chunk[u] => t = u
  /\ \A c \in Claimed(a) \ done[a] : \E t \in Carriers(a) : chunk[t] = c

ChunksInv(a) ==
  /\ StartInv(a)
  /\ kind[a] = "loop" => RoundInv(a) /\ TurnInv(a) /\ IndexInv(a) /\ OwnerInv(a)
  /\ \A i \in DOMAIN work_size[a] : Kept(a, i)

RoundsReset == \A t \in Threads : pc[t] \notin Drawing => round[t] = 0

(* The chunks of a task over its atomics: none is abandoned, none has two  *)
(* owners (Task::work_loop).                                               *)
ChunkInv ==
  /\ TypeOK
  /\ AtomicKept
  /\ ChunkOwnership
  /\ RoundsReset
  /\ \A a \in Addrs : ChunksInv(a)
=============================================================================
