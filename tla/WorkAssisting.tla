--------------------------- MODULE WorkAssisting ---------------------------
(***************************************************************************)
(* The scheduler of src/schedulers/workassisting: AssistProtocol with one  *)
(* atomic index per task from which the threads claim chunks, as           *)
(* Task::work_loop, Workers::try_assist and Workers::call_task do.         *)
(***************************************************************************)
EXTENDS AssistProtocol

CONSTANTS
  Sizes,   \* work sizes of the tasks the program creates; 0 for new_single
  U32      \* number of values of an AtomicU32

(* The work sizes leave room for one vain claim per thread: fetch_add      *)
(* wraps, so a larger size would hand out chunk 0 a second time.           *)
ASSUME SizesAssumption ==
  /\ Sizes \subseteq Nat /\ Sizes # {}
  /\ U32 \in Nat
  /\ \A n \in Sizes : n + N <= U32

VARIABLES
  work_size,   \* work_size[a]: TaskObject::work_size, or Absent
  work_index,  \* work_index[a]: TaskObject::work_index
  done,        \* done[a]: chunks executed; history of the task at a
  chunk        \* chunk[t]: chunk_idx of work_loop

loopData == <<work_size, work_index, done, chunk>>
vars == <<protocolVars, loopData>>

Absent == -1

TypeOK ==
  /\ ProtocolTypeOK
  /\ work_size \in [Addrs -> Sizes \cup {Absent}]
  /\ work_index \in [Addrs -> 0 .. U32 - 1]
  /\ done \in [Addrs -> SUBSET Nat]
  /\ chunk \in [Threads -> 0 .. U32 - 1]

KindOf(n) == IF n = 0 THEN "single" ELSE "loop"

\* Mutated: the index starts at 0, although chunk 0 is taken.
InitialIndexZero == 0

(* The publishing thread takes chunk 0 without claiming it.                *)
InitialIndex == 1

Init ==
  \E a \in Addrs, n \in Sizes :
    /\ ProtocolInit(a, KindOf(n))
    /\ work_size = [b \in Addrs |-> IF b = a THEN n ELSE Absent]
    /\ work_index = [b \in Addrs |-> InitialIndex % U32]
    /\ done = [b \in Addrs |-> {}]
    /\ chunk = [t \in Threads |-> 0]

-----------------------------------------------------------------------------
(* The thread has chunk index c.  It hides the task when it holds the last *)
(* chunk, before it executes it, or found no chunk left; once only.        *)

\* Mutated: the task is hidden a chunk too early.
IsLastButOne(t, c) == c + 1 = work_size[task[t]] - 1
IsLastChunk(t, c) == c = work_size[task[t]] - 1

\* Mutated: a thread that found no chunk left does not call task_empty.
HasClaimedNoSignal(t, c) ==
  /\ chunk' = [chunk EXCEPT ![t] = c]
  /\ Goto(t, IF state[t] # "DidSignal" /\ IsLastChunk(t, c) THEN "signal"
              ELSE IF c < work_size[task[t]] THEN "body" ELSE "end")

HasClaimed(t, c) ==
  /\ chunk' = [chunk EXCEPT ![t] = c]
  /\ LET hasWork == c < work_size[task[t]]
     IN  Goto(t, IF state[t] # "DidSignal" /\ (IsLastChunk(t, c) \/ ~hasWork)
                   THEN "signal"
                   ELSE IF hasWork THEN "body" ELSE "end")

FetchAdd(a) == work_index' = [work_index EXCEPT ![a] = (@ + 1) % U32]

(* call_task by the publishing thread: first_index is 0.                   *)
EnterMain(t) ==
  /\ pc[t] = "enter"
  /\ state[t] = "Main"
  /\ HasClaimed(t, 0)
  /\ UNCHANGED <<shared, other, retry, task, signal>>
  /\ UNCHANGED <<work_size, work_index, done>>

(* try_assist: the first claim of a thread that joined.  The early out     *)
(* does what work_loop does when the first index is past the end.          *)
EnterAssist(t) ==
  /\ pc[t] = "enter"
  /\ state[t] = "Assist"
  /\ HasClaimed(t, work_index[task[t]])
  /\ FetchAdd(task[t])
  /\ UNCHANGED <<shared, other, retry, task, signal>>
  /\ UNCHANGED <<work_size, done>>

RunChunk(t) ==
  /\ pc[t] = "body"
  /\ done' = [done EXCEPT ![task[t]] = @ \cup {chunk[t]}]
  /\ Goto(t, "next")
  /\ UNCHANGED <<shared, other, retry, task, signal>>
  /\ UNCHANGED <<work_size, work_index, chunk>>

NextChunk(t) ==
  /\ pc[t] = "next"
  /\ HasClaimed(t, work_index[task[t]])
  /\ FetchAdd(task[t])
  /\ UNCHANGED <<shared, other, retry, task, signal>>
  /\ UNCHANGED <<work_size, done>>

\* Mutated: task_empty ends the loop, the last chunk is not executed.
ResumeAtEnd(t) == "end"

(* After task_empty the thread executes the chunk it holds, if any.        *)
Resume(t) == IF chunk[t] < work_size[task[t]] THEN "body" ELSE "end"

Signal(t) ==
  /\ pc[t] \in {"signal", "cas", "add"}
  /\ TaskEmpty(t, Resume(t))
  /\ UNCHANGED loopData

-----------------------------------------------------------------------------
FinishTask(t) ==
  /\ FreeTask(t)
  /\ work_size' = [work_size EXCEPT ![task[t]] = Absent]
  /\ done' = [done EXCEPT ![task[t]] = {}]
  /\ UNCHANGED <<work_index, chunk>>

CreateTask(t) ==
  \E a \in Addrs, n \in Sizes :
    /\ SpawnTask(t, a, KindOf(n))
    /\ work_size' = [work_size EXCEPT ![a] = n]
    /\ work_index' = [work_index EXCEPT ![a] = InitialIndex % U32]
    /\ UNCHANGED <<done, chunk>>

Step(t) ==
  \/ ProtocolStep(t) /\ UNCHANGED loopData
  \/ EnterMain(t)
  \/ EnterAssist(t)
  \/ RunChunk(t)
  \/ NextChunk(t)
  \/ Signal(t)
  \/ FinishTask(t)
  \/ CreateTask(t)

Next == \E t \in Threads : Step(t)

Spec == Init /\ [][Next]_vars

(* The operating system runs every thread of the pool; a chunk ends.       *)
FairSpec == Spec /\ \A t \in Threads : WF_vars(Step(t))

-----------------------------------------------------------------------------
(* Properties                                                              *)

(* Two threads never hold the same chunk, nor one that was executed.       *)
Holding(t) ==
  /\ task[t] # Null
  /\ pc[t] \in {"body", "signal", "cas", "add"}
  /\ chunk[t] < work_size[task[t]]

ChunkOwnership ==
  \A t \in Threads : Holding(t) =>
    /\ chunk[t] \notin done[task[t]]
    /\ \A u \in Threads \ {t} : Holding(u) /\ task[u] = task[t] => chunk[u] # chunk[t]

(* A task is taken away from the threads that could assist only when each  *)
(* of its chunks is claimed.  It is so for the thread that carries the     *)
(* task and for one that is late and finds another task in the slot        *)
(* (worker.rs 300-305).                                                    *)
HiddenOnlyWhenClaimed ==
  [][\A s \in Threads :
       LET a == activities[s].ptr
       IN  a # Null /\ activities'[s].ptr # a => work_index[a] >= work_size[a]]_vars

(* Every thread returns, so that run_on's joins do.                        *)
Termination == <>(\A t \in Threads : pc[t] = "returned")

(* The scheduler implements the pool it stands for.                        *)
Pool == INSTANCE TaskPool WITH size <- work_size, stopped <- is_finished
ImplementsPool == Pool!Spec
-----------------------------------------------------------------------------
(***************************************************************************)
(* The invariant that makes ChunkOwnership inductive: how far the chunks   *)
(* of a task are claimed, and who has the claimed ones.                    *)
(***************************************************************************)

Signalling == {"signal", "cas", "add"}

Claimed(a) == {c \in 0 .. work_size[a] - 1 : c < work_index[a] \/ work_index[a] = 0}
AllClaimed(a) == work_index[a] >= work_size[a] \/ work_index[a] = 0

(* Thread t has chunk c of task a; the publishing thread comes with 0.     *)
Carries(t, a, c) ==
  /\ task[t] = a
  /\ \/ pc[t] = "enter" /\ state[t] = "Main" /\ c = 0
     \/ pc[t] \in {"body"} \cup Signalling /\ chunk[t] = c

(* Thread t found no chunk left.                                           *)
Vain(t) ==
  \/ pc[t] = "end"
  \/ pc[t] \in Signalling /\ chunk[t] >= work_size[task[t]]

(* The threads that may still claim from a, joining it first or not.       *)
Claimers(a) == {t \in Threads : IF t \in Users(a) THEN ~Vain(t) ELSE Published(a)}

(* A task that was not entered has all its chunks, and only loops have any. *)
StartInv(a) ==
  /\ kind[a] = IF work_size[a] = Absent THEN "free" ELSE KindOf(work_size[a])
  /\ kind[a] # "loop" => done[a] = {}
  /\ Fresh(a) => done[a] = {} /\ work_index[a] = InitialIndex % U32
  /\ \A t \in Users(a) : kind[a] = "loop"

(* Each thread claims past the end at most once, so that the index does    *)
(* not wrap while a thread may claim.                                      *)
IndexInv(a) ==
  \/ work_index[a] \in 1 .. work_size[a]
  \/ /\ work_index[a] > work_size[a]
     /\ work_index[a] + Cardinality(Claimers(a)) <= work_size[a] + N
  \/ work_index[a] = 0 /\ Claimers(a) = {}

(* A claimed chunk is executed or carried, by one thread.                  *)
OwnerInv(a) ==
  /\ done[a] \subseteq Claimed(a)
  /\ \A t \in Users(a) : pc[t] = "body" => chunk[t] < work_size[a]
  /\ \A c \in 0 .. work_size[a] - 1 :
       /\ \A t \in Threads : Carries(t, a, c) =>
            /\ c \in Claimed(a) \ done[a]
            /\ \A u \in Threads \ {t} : ~Carries(u, a, c)
       /\ c \in Claimed(a) \ done[a] =>
            Fresh(a) \/ \E t \in Threads : Carries(t, a, c)

(* A task is hidden by a thread that has its last chunk or came too late,  *)
(* and until it is, the thread that claimed the last chunk is on its way.  *)
HideInv(a) ==
  /\ \A t \in Users(a) : pc[t] \in Signalling =>
       AllClaimed(a) /\ chunk[t] >= work_size[a] - 1
  /\ Fresh(a) \/ Published(a) \/ AllClaimed(a)
  /\ Published(a) /\ AllClaimed(a) =>
       \E t \in Threads : /\ pc[t] \in {"enter", "signal", "cas"}
                          /\ Carries(t, a, work_size[a] - 1)

ChunksInv(a) ==
  /\ StartInv(a)
  /\ kind[a] = "loop" => IndexInv(a) /\ OwnerInv(a) /\ HideInv(a)

SchedulerInv ==
  /\ TypeOK
  /\ ProtocolInv
  /\ \A a \in Addrs : ChunksInv(a)
=============================================================================
