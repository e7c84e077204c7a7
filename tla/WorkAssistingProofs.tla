------------------------ MODULE WorkAssistingProofs ------------------------
(***************************************************************************)
(* WorkAssisting follows the protocol, so that the theorems of             *)
(* AssistProofs hold of it.  Then its chunks: SchedulerInv is inductive,   *)
(* so that no chunk has two owners and none is lost, and the scheduler     *)
(* implements TaskPool.  Last is the worker it offers to the programs:     *)
(* each kind of step is one of AssistClient, or a stutter.                 *)
(***************************************************************************)
EXTENDS WorkAssistingPool, AssistProofs

(* The claiming of a chunk is a step of the protocol's chunk loop.         *)
LEMMA ClaimIsChunkLoop ==
  ASSUME NEW t \in Threads, NEW c, HasClaimed(t, c),
         pc[t] \in {"enter", "next", "body"},
         UNCHANGED <<shared, other, retry, task, signal>>
  PROVE  ChunkLoop(t)
<1> DEFINE hasWork == c < work_size[task[t]]
           hide == state[t] # "DidSignal" /\ (IsLastChunk(t, c) \/ ~hasWork)
<1>1. CASE hide
  <2>1. Goto(t, "signal") /\ state[t] # "DidSignal"
    BY <1>1 DEF HasClaimed
  <2>2. QED
    BY <2>1 DEF ChunkLoop
<1>2. CASE ~hide /\ hasWork
  <2>1. Goto(t, "body")
    BY <1>2 DEF HasClaimed
  <2>2. QED
    BY <2>1 DEF ChunkLoop
<1>3. CASE ~hide /\ ~hasWork
  <2>1. Goto(t, "end")
    BY <1>3 DEF HasClaimed
  <2>2. state[t] = "DidSignal"
    BY <1>3
  <2>3. QED
    BY <2>1, <2>2 DEF ChunkLoop
<1>4. QED
  BY <1>1, <1>2, <1>3

(* Every step of a thread is a step of the protocol.                       *)
LEMMA StepIsThreadStep ==
  ASSUME NEW t \in Threads, Step(t)
  PROVE  ThreadStep(t)
<1>1. CASE ProtocolStep(t)
  BY <1>1 DEF ThreadStep
<1>2. CASE EnterMain(t)
  BY <1>2, ClaimIsChunkLoop DEF EnterMain, ThreadStep
<1>3. CASE EnterAssist(t)
  BY <1>3, ClaimIsChunkLoop DEF EnterAssist, ThreadStep
<1>4. CASE RunChunk(t)
  BY <1>4 DEF RunChunk, ChunkLoop, ThreadStep
<1>5. CASE NextChunk(t)
  BY <1>5, ClaimIsChunkLoop DEF NextChunk, ThreadStep
<1>6. CASE Signal(t)
  BY <1>6 DEF Signal, Resume, ThreadStep
<1>7. CASE FinishTask(t)
  BY <1>7 DEF FinishTask, ThreadStep
<1>8. CASE CreateTask(t)
  BY <1>8 DEF CreateTask, KindOf, ThreadStep
<1>9. QED
  BY <1>1, <1>2, <1>3, <1>4, <1>5, <1>6, <1>7, <1>8 DEF Step

(* The scheduler implements the protocol: it starts in a state of the      *)
(* protocol, and each of its steps is one of the protocol or changes loop  *)
(* data only.                                                              *)
THEOREM ImplementsProtocol == Spec => ProtocolSpec
<1>1. Init => \E a \in Addrs, k \in {"single", "loop"} : ProtocolInit(a, k)
  BY DEF Init, KindOf
<1>2. [Next]_vars => [ProtocolNext]_protocolVars
  <2>1. CASE UNCHANGED vars
    BY <2>1 DEF vars
  <2>2. ASSUME NEW t \in Threads, Step(t)
        PROVE  ProtocolNext
    BY <2>2, StepIsThreadStep DEF ProtocolNext
  <2>3. QED
    BY <2>1, <2>2 DEF Next
<1>3. QED
  BY <1>1, <1>2, PTL DEF Spec, ProtocolSpec

(* The reference count is exact, the thread that runs finish owns the      *)
(* task, the tag of a null pointer stays below the number of threads, a    *)
(* slot is empty when its thread publishes a task, and the pool stops with *)
(* nothing left to do: for any number of threads, tasks and chunks.        *)
THEOREM SchedulerGuarantees ==
  Spec => [](/\ ReferenceCount /\ ExclusiveFinish /\ NullTagBound
             /\ SlotEmptyAtStart /\ FinishMeansDone)
BY ImplementsProtocol, ProtocolGuarantees, PTL

-----------------------------------------------------------------------------
(* The types of the loop data, besides those of the protocol.              *)
LoopTypeOK ==
  /\ work_size \in [Addrs -> Sizes \cup {Absent}]
  /\ work_index \in [Addrs -> 0 .. U32 - 1]
  /\ done \in [Addrs -> SUBSET Nat]
  /\ chunk \in [Threads -> 0 .. U32 - 1]

(* An index that is read, or the 1 that an index starts with, is an index. *)
LEMMA IndexType ==
  /\ 0 \in 0 .. U32 - 1
  /\ InitialIndex % U32 \in 0 .. U32 - 1
  /\ \A i \in 0 .. U32 - 1 : (i + 1) % U32 \in 0 .. U32 - 1
<1>1. PICK n \in Sizes : n \in Nat /\ n + N <= U32
  BY SizesAssumption
<1>2. U32 \in Nat \ {0}
  BY <1>1, ProtocolAssumption, SizesAssumption
<1>3. QED
  BY <1>2 DEF InitialIndex

(* Every step of a thread keeps the loop data within their types.          *)
LEMMA LoopTypeStep ==
  ASSUME ProtocolInv, LoopTypeOK, NEW t \in Threads, Step(t)
  PROVE  LoopTypeOK'
<1> USE DEF LoopTypeOK
<1>1. ASSUME NEW c \in 0 .. U32 - 1, HasClaimed(t, c)
      PROVE  chunk' \in [Threads -> 0 .. U32 - 1]
  BY <1>1 DEF HasClaimed
<1>2. ASSUME pc[t] \in Working \cup {"start", "finish"} PROVE task[t] \in Addrs
  BY <1>2, TaskIsAddress DEF ProtocolInv
<1>3. CASE ProtocolStep(t) /\ UNCHANGED loopData
  BY <1>3 DEF loopData
<1>4. CASE EnterMain(t)
  BY <1>1, <1>4, IndexType DEF EnterMain
<1>5. CASE EnterAssist(t) \/ NextChunk(t)
  <2>1. /\ task[t] \in Addrs /\ HasClaimed(t, work_index[task[t]]) /\ FetchAdd(task[t])
        /\ UNCHANGED <<work_size, done>>
    BY <1>2, <1>5 DEF EnterAssist, NextChunk, Working
  <2>2. work_index' \in [Addrs -> 0 .. U32 - 1]
    BY <2>1, IndexType DEF FetchAdd
  <2>3. QED
    BY <1>1, <2>1, <2>2
<1>6. CASE RunChunk(t)
  <2>1. /\ done' = [done EXCEPT ![task[t]] = done[task[t]] \cup {chunk[t]}]
        /\ UNCHANGED <<work_size, work_index, chunk>>
        /\ task[t] \in Addrs
    BY <1>2, <1>6 DEF RunChunk, Working
  <2>2. chunk[t] \in Nat
    BY SizesAssumption
  <2>3. QED
    BY <2>1, <2>2
<1>7. CASE Signal(t)
  BY <1>7 DEF Signal, loopData
<1>8. CASE FinishTask(t)
  BY <1>8 DEF FinishTask
<1>9. CASE CreateTask(t)
  BY <1>9, IndexType DEF CreateTask
<1>10. QED
  BY <1>3, <1>4, <1>5, <1>6, <1>7, <1>8, <1>9 DEF Step

(* Types hold throughout.  That of `pending` needs the whole protocol      *)
(* invariant: a natural number, since no task is counted down twice.       *)
THEOREM TypeCorrect == Spec => []TypeOK
<1>1. Init => LoopTypeOK
  BY IndexType DEF Init, LoopTypeOK
<1>2. ProtocolInv /\ LoopTypeOK /\ [Next]_vars => LoopTypeOK'
  <2>1. ASSUME LoopTypeOK, UNCHANGED vars PROVE LoopTypeOK'
    BY <2>1 DEF vars, loopData, LoopTypeOK
  <2>2. QED
    BY <2>1, LoopTypeStep DEF Next
<1>3. ProtocolInv /\ LoopTypeOK => TypeOK
  BY DEF ProtocolInv, LoopTypeOK, TypeOK
<1>4. Spec => []ProtocolInv
  BY ImplementsProtocol, ProtocolInvariant, PTL
<1>5. QED
  BY <1>1, <1>2, <1>3, <1>4, PTL DEF Spec

-----------------------------------------------------------------------------
(* A thread changes its own chunk only, and its own locals.                *)
LEMMA OwnChunk ==
  ASSUME ProtocolTypeOK, LoopTypeOK, NEW t \in Threads, Step(t), NEW u \in Threads \ {t}
  PROVE  /\ pc'[u] = pc[u] /\ task'[u] = task[u] /\ state'[u] = state[u]
         /\ chunk'[u] = chunk[u]
<1>1. chunk'[u] = chunk[u]
  <2> USE DEF LoopTypeOK, loopData
  <2>1. CASE EnterMain(t) \/ EnterAssist(t) \/ NextChunk(t)
    BY <2>1 DEF EnterMain, EnterAssist, NextChunk, HasClaimed
  <2>2. CASE RunChunk(t) \/ Signal(t) \/ FinishTask(t) \/ CreateTask(t)
    BY <2>2 DEF RunChunk, Signal, FinishTask, CreateTask
  <2>3. QED
    BY <2>1, <2>2 DEF Step
<1>2. QED
  BY <1>1, StepIsThreadStep, OwnLocals

(* The numbers of a loop: it has a chunk, and its size leaves room for a   *)
(* vain claim per thread.                                                  *)
LEMMA LoopNumbers ==
  ASSUME LoopTypeOK, NEW a \in Addrs, StartInv(a), kind[a] = "loop"
  PROVE  /\ work_size[a] \in Nat \ {0}
         /\ U32 \in Nat /\ N \in Nat \ {0} /\ work_size[a] + N <= U32
         /\ work_index[a] \in 0 .. U32 - 1
         /\ InitialIndex % U32 = 1
<1>1. work_size[a] \in Sizes /\ work_size[a] # 0
  BY DEF LoopTypeOK, StartInv, KindOf
<1>2. /\ work_size[a] \in Nat \ {0} /\ work_size[a] + N <= U32
      /\ U32 \in Nat /\ N \in Nat \ {0}
  BY <1>1, SizesAssumption, ProtocolAssumption
<1>3. 1 % U32 = 1
  BY <1>2
<1>4. QED
  BY <1>2, <1>3 DEF InitialIndex, LoopTypeOK

(* The number of threads that may still claim.                             *)
LEMMA ClaimerCount ==
  ASSUME NEW a \in Addrs
  PROVE  /\ Claimers(a) \subseteq Threads /\ IsFiniteSet(Claimers(a))
         /\ Cardinality(Claimers(a)) \in 0 .. N
         /\ Claimers(a)' \subseteq Threads /\ IsFiniteSet(Claimers(a)')
         /\ Cardinality(Claimers(a)') \in 0 .. N
<1>1. \A S \in SUBSET Threads : IsFiniteSet(S) /\ Cardinality(S) \in 0 .. N
  BY FiniteParts, FS_Subset, ProtocolAssumption
<1>2. Claimers(a) \in SUBSET Threads /\ Claimers(a)' \in SUBSET Threads
  BY DEF Claimers
<1>3. QED
  BY <1>1, <1>2

(* Where no thread claims, fewer threads may claim later.                  *)
LEMMA IndexKept ==
  ASSUME LoopTypeOK, NEW a \in Addrs, StartInv(a), kind[a] = "loop", IndexInv(a),
         work_size'[a] = work_size[a], work_index'[a] = work_index[a],
         Claimers(a)' \subseteq Claimers(a)
  PROVE  IndexInv(a)'
<1>1. Cardinality(Claimers(a)') <= Cardinality(Claimers(a))
  BY ClaimerCount, FS_Subset
<1>2. Claimers(a) = {} => Claimers(a)' = {}
  OBVIOUS
<1> DEFINE x == Cardinality(Claimers(a))
           y == Cardinality(Claimers(a)')
<1>3. x \in 0 .. N /\ y \in 0 .. N /\ y <= x
  BY <1>1, ClaimerCount
<1> HIDE DEF x, y
<1>4. work_index[a] + x <= work_size[a] + N => work_index[a] + y <= work_size[a] + N
  BY <1>3, LoopNumbers
<1>5. QED
  BY <1>2, <1>4 DEF IndexInv, x, y

(* Where no chunk is claimed or executed, and each is carried as before.   *)
LEMMA OwnersKept ==
  ASSUME NEW a \in Addrs, OwnerInv(a),
         work_size'[a] = work_size[a], work_index'[a] = work_index[a], done'[a] = done[a],
         Fresh(a) => Fresh(a)',
         \A t \in Users(a)' : pc'[t] = "body" => chunk'[t] < work_size[a],
         \A t \in Threads : \A c \in 0 .. work_size[a] - 1 : Carries(t, a, c)' <=> Carries(t, a, c)
  PROVE  OwnerInv(a)'
<1>1. Claimed(a)' = Claimed(a)
  BY DEF Claimed
<1>2. QED
  BY <1>1 DEF OwnerInv

(* A step of a thread that is not at work on a task leaves it as it was.   *)
LEMMA Untouched ==
  ASSUME ProtocolTypeOK, LoopTypeOK, NEW t \in Threads, Step(t), NEW a \in Addrs, ChunksInv(a),
         kind'[a] = kind[a], work_size'[a] = work_size[a],
         work_index'[a] = work_index[a], done'[a] = done[a],
         Fresh(a)' => Fresh(a), kind[a] = "loop" /\ Fresh(a) => Fresh(a)',
         Published(a)' <=> Published(a),
         ~(task[t] = a /\ pc[t] \in Working), ~(task'[t] = a /\ pc'[t] \in Working)
  PROVE  ChunksInv(a)'
<1>1. \A u \in Threads \ {t} : /\ pc'[u] = pc[u] /\ task'[u] = task[u] /\ state'[u] = state[u]
                               /\ chunk'[u] = chunk[u]
  BY OwnChunk
<1>2. \A u \in Threads : /\ u \in Users(a)' <=> u \in Users(a)
                         /\ u \in Users(a) => u # t
  <2>1. t \notin Users(a) /\ t \notin Users(a)'
    BY DEF Users
  <2>2. \A u \in Threads \ {t} : u \in Users(a)' <=> u \in Users(a)
    BY <1>1 DEF Users
  <2>3. QED
    BY <2>1, <2>2
<1>3. StartInv(a)'
  <2>1. /\ kind'[a] = IF work_size'[a] = Absent THEN "free" ELSE KindOf(work_size'[a])
        /\ kind'[a] # "loop" => done'[a] = {}
    BY DEF ChunksInv, StartInv
  <2>2. Fresh(a)' => done'[a] = {} /\ work_index'[a] = InitialIndex % U32
    BY DEF ChunksInv, StartInv
  <2>3. \A u \in Users(a)' : kind'[a] = "loop"
    BY <1>2 DEF ChunksInv, StartInv, Users
  <2>4. QED
    BY <2>1, <2>2, <2>3 DEF StartInv
<1>4. CASE kind[a] = "loop"
  <2>1. IndexInv(a) /\ OwnerInv(a) /\ HideInv(a) /\ StartInv(a)
    BY <1>4 DEF ChunksInv
  <2>2. \A u \in Threads : \A c : Carries(u, a, c)' <=> Carries(u, a, c)
    BY <1>1 DEF Carries, Signalling, Working
  <2>3. Claimers(a)' \subseteq Claimers(a)
    BY <1>1, <1>2 DEF Claimers, Vain, Users
  <2>4. IndexInv(a)'
    BY <1>4, <2>1, <2>3, IndexKept
  <2>5. \A u \in Users(a)' : pc'[u] = "body" => chunk'[u] < work_size[a]
    BY <1>1, <1>2, <2>1 DEF OwnerInv, Users
  <2>6. OwnerInv(a)'
    BY <1>4, <2>1, <2>2, <2>5, OwnersKept
  <2>7. AllClaimed(a)' <=> AllClaimed(a)
    BY DEF AllClaimed
  <2>8. \A u \in Users(a)' : pc'[u] \in Signalling =>
          AllClaimed(a)' /\ chunk'[u] >= work_size'[a] - 1
    BY <1>1, <1>2, <2>1, <2>7 DEF HideInv, Users
  <2>9. \A u \in Threads : pc[u] \in {"enter", "signal", "cas"} /\ Carries(u, a, work_size[a] - 1)
          => pc'[u] \in {"enter", "signal", "cas"} /\ Carries(u, a, work_size[a] - 1)'
    <3>1. \A u \in Threads : Carries(u, a, work_size[a] - 1) => u # t
      BY DEF Carries, Signalling, Working
    <3>2. QED
      BY <1>1, <3>1 DEF Carries
  <2>10. HideInv(a)'
    BY <1>4, <2>1, <2>7, <2>8, <2>9 DEF HideInv
  <2>11. QED
    BY <1>3, <2>4, <2>6, <2>10 DEF ChunksInv
<1>5. CASE kind[a] # "loop"
  BY <1>3, <1>5 DEF ChunksInv
<1>6. QED
  BY <1>4, <1>5

(* A task that is offered is a loop: its thread works on it.               *)
LEMMA OfferedIsLoop ==
  ASSUME ProtocolInv, NEW a \in Addrs, StartInv(a), Published(a)
  PROVE  kind[a] = "loop" /\ ~Fresh(a)
<1>1. PICK s \in Threads : activities[s].ptr = a
  BY DEF Published
<1>2. a # Null
  BY ProtocolAssumption
<1>3. task[s] = a /\ pc[s] \in {"enter", "next", "body", "signal"}
  BY <1>1, <1>2 DEF ProtocolInv, SlotInv
<1>4. kind[a] = "loop"
  BY <1>3 DEF StartInv, Users, Working
<1>5. ~Queued(a)
  BY <1>3 DEF ProtocolInv, QueueInv
<1>6. \A u \in Threads : task[u] = a => pc[u] # "start"
  BY <1>2, <1>3 DEF ProtocolInv, ExclusiveFinish
<1>7. QED
  BY <1>4, <1>5, <1>6 DEF Fresh

(* try_assist: the thread could claim before, from outside, and still can. *)
LEMMA JoinChunks ==
  ASSUME ProtocolInv, LoopTypeOK, NEW t \in Threads, Step(t), Joins(t), UNCHANGED loopData,
         NEW a \in Addrs, ChunksInv(a)
  PROVE  ChunksInv(a)'
<1>1. /\ ProtocolTypeOK
      /\ kind'[a] = kind[a] /\ work_size'[a] = work_size[a]
      /\ work_index'[a] = work_index[a] /\ done'[a] = done[a]
      /\ deque' = deque
      /\ chunk' = chunk
  BY DEF ProtocolInv, Joins, loopData
<1>2. Fresh(a)' = Fresh(a) /\ Published(a)' = Published(a)
  BY <1>1, FreshKept, PtrsKept, StepIsThreadStep DEF Joins
<1>3. task[t] # a
  BY ProtocolAssumption DEF Joins
<1>4. CASE task'[t] # a
  BY <1>1, <1>2, <1>3, <1>4, Untouched
<1>5. CASE task'[t] = a
  <2>1. StartInv(a) /\ Published(a)
    BY <1>5 DEF ChunksInv, Joins
  <2>2. kind[a] = "loop" /\ ~Fresh(a) /\ IndexInv(a) /\ OwnerInv(a) /\ HideInv(a)
    BY <2>1, OfferedIsLoop DEF ChunksInv
  <2>3. \A u \in Threads \ {t} : /\ pc'[u] = pc[u] /\ task'[u] = task[u] /\ state'[u] = state[u]
                                 /\ chunk'[u] = chunk[u]
    BY <1>1, OwnChunk
  <2>4. pc'[t] = "enter" /\ state'[t] = "Assist" /\ t \notin Users(a)
    BY <1>3 DEF Joins, Users
  <2>5. StartInv(a)'
    BY <1>1, <1>2, <2>1, <2>2, <2>3 DEF StartInv
  <2>6. \A u \in Threads : \A c : Carries(u, a, c)' <=> Carries(u, a, c)
    BY <1>3, <2>3, <2>4 DEF Carries, Signalling
  <2>7. Claimers(a)' \subseteq Claimers(a)
    BY <1>1, <1>2, <2>1, <2>3, <2>4 DEF Claimers, Vain, Users
  <2>8. IndexInv(a)'
    BY <1>1, <2>1, <2>2, <2>7, IndexKept
  <2>9. \A u \in Users(a)' : u = t \/ (u \in Users(a) /\ pc'[u] = pc[u] /\ chunk'[u] = chunk[u])
    BY <2>3 DEF Users
  <2>10. \A u \in Users(a)' : pc'[u] = "body" => chunk'[u] < work_size[a]
    BY <2>2, <2>4, <2>9 DEF OwnerInv
  <2>11. OwnerInv(a)'
    BY <1>1, <2>2, <2>6, <2>10, OwnersKept
  <2>12. AllClaimed(a)' <=> AllClaimed(a)
    BY <1>1 DEF AllClaimed
  <2>13. \A u \in Users(a)' : pc'[u] \in Signalling =>
           AllClaimed(a)' /\ chunk'[u] >= work_size'[a] - 1
    BY <1>1, <2>2, <2>4, <2>9, <2>12 DEF HideInv, Signalling
  <2>14. \A u \in Threads : pc[u] \in {"enter", "signal", "cas"} /\ Carries(u, a, work_size[a] - 1)
           => pc'[u] \in {"enter", "signal", "cas"} /\ Carries(u, a, work_size[a] - 1)'
    BY <1>1, <1>3, <2>3, <2>6 DEF Carries
  <2>15. HideInv(a)'
    BY <1>1, <1>2, <2>1, <2>2, <2>12, <2>13, <2>14 DEF HideInv
  <2>16. QED
    BY <2>5, <2>8, <2>11, <2>15 DEF ChunksInv
<1>6. QED
  BY <1>4, <1>5

(* start_task: the publishing thread comes with chunk 0.                   *)
LEMMA PublishChunks ==
  ASSUME ProtocolInv, LoopTypeOK, NEW t \in Threads, Step(t), Publishes(t), UNCHANGED loopData,
         NEW a \in Addrs, ChunksInv(a)
  PROVE  ChunksInv(a)'
<1>1. /\ ProtocolTypeOK
      /\ kind'[a] = kind[a] /\ work_size'[a] = work_size[a]
      /\ work_index'[a] = work_index[a] /\ done'[a] = done[a]
      /\ deque' = deque
      /\ chunk' = chunk /\ task' = task /\ pc[t] = "start"
  BY DEF ProtocolInv, Publishes, loopData
<1>2. \A u \in Threads \ {t} : /\ pc'[u] = pc[u] /\ task'[u] = task[u] /\ state'[u] = state[u]
                               /\ chunk'[u] = chunk[u]
  BY <1>1, OwnChunk
<1>3. Queued(a)' <=> Queued(a)
  BY <1>1 DEF Queued
<1>4. pc'[t] = "enter" /\ state'[t] = "Main"
  BY DEF Publishes
<1>5. CASE task[t] # a
  <2>1. Fresh(a)' <=> Fresh(a)
    BY <1>1, <1>2, <1>3, <1>5 DEF Fresh
  <2>2. \A s \in Threads : activities'[s].ptr = a <=> activities[s].ptr = a
    <3>1. activities' = [activities EXCEPT ![t] = [ptr |-> task[t], tag |-> 0]]
      BY DEF Publishes
    <3>2. activities[t].ptr # a
      BY ProtocolAssumption DEF Publishes
    <3>3. QED
      BY <1>1, <1>5, <3>1, <3>2 DEF ProtocolTypeOK
  <2>3. Published(a)' <=> Published(a)
    BY <2>2 DEF Published
  <2>4. QED
    BY <1>1, <1>5, <2>1, <2>3, Untouched
<1>6. CASE task[t] = a
  <2>1. /\ kind[a] = "loop" /\ ~Queued(a) /\ ~Published(a)
        /\ \A u \in Threads \ {t} : task[u] # a
    BY <1>6 DEF Publishes
  <2>2. Fresh(a) /\ ~Fresh(a)'
    BY <1>1, <1>2, <1>3, <1>4, <1>6, <2>1 DEF Fresh
  <2>3. Published(a)'
    BY <1>1, <1>6 DEF Published, Publishes, ProtocolTypeOK
  <2>4. StartInv(a) /\ done[a] = {} /\ work_index[a] = InitialIndex % U32
    BY <2>2 DEF ChunksInv, StartInv
  <2>5. work_size[a] \in Nat \ {0} /\ work_index[a] = 1
    BY <2>1, <2>4, LoopNumbers
  <2>6. StartInv(a)'
    BY <1>1, <2>1, <2>2, <2>4 DEF StartInv
  <2>7. IndexInv(a)'
    BY <1>1, <2>5 DEF IndexInv
  <2>8. \A u \in Threads : \A c : Carries(u, a, c)' <=> u = t /\ c = 0
    BY <1>2, <1>4, <1>6, <1>1, <2>1 DEF Carries, Signalling
  <2>9. Claimed(a)' = {0}
    BY <1>1, <2>5 DEF Claimed
  <2>10. Users(a)' = {t}
    BY <1>1, <1>4, <1>6, <2>1 DEF Users, Working
  <2>11. OwnerInv(a)'
    BY <1>1, <1>4, <2>4, <2>8, <2>9, <2>10 DEF OwnerInv
  <2>12. AllClaimed(a)' => work_size'[a] - 1 = 0
    BY <1>1, <2>5 DEF AllClaimed
  <2>13. HideInv(a)'
    BY <1>4, <2>3, <2>8, <2>10, <2>12 DEF HideInv, Signalling
  <2>14. QED
    BY <2>6, <2>7, <2>11, <2>13 DEF ChunksInv
<1>7. QED
  BY <1>5, <1>6

(* end_task: a thread that leaves has no chunk.                            *)
LEMMA LeaveChunks ==
  ASSUME ProtocolInv, LoopTypeOK, NEW t \in Threads, Step(t), Leaves(t), UNCHANGED loopData,
         NEW a \in Addrs, ChunksInv(a)
  PROVE  ChunksInv(a)'
<1>1. /\ ProtocolTypeOK
      /\ kind'[a] = kind[a] /\ work_size'[a] = work_size[a]
      /\ work_index'[a] = work_index[a] /\ done'[a] = done[a]
      /\ deque' = deque
      /\ chunk' = chunk
      /\ pc[t] = "end" /\ pc'[t] \in {"finish", "loop"}
      /\ task'[t] = task[t] \/ task'[t] = Null
  BY DEF ProtocolInv, Leaves, loopData
<1>2. Fresh(a)' = Fresh(a) /\ Published(a)' = Published(a)
  BY <1>1, FreshKept, PtrsKept, StepIsThreadStep DEF Leaves
<1>3. CASE task[t] # a
  BY <1>1, <1>2, <1>3, ProtocolAssumption, Untouched DEF Working
<1>4. CASE task[t] = a
  <2>1. StartInv(a) /\ kind[a] = "loop" /\ ~Published(a)
    BY <1>1, <1>4 DEF ChunksInv, StartInv, Users, Working, Leaves
  <2>2. IndexInv(a) /\ OwnerInv(a) /\ HideInv(a)
    BY <2>1 DEF ChunksInv
  <2>3. \A u \in Threads \ {t} : /\ pc'[u] = pc[u] /\ task'[u] = task[u] /\ state'[u] = state[u]
                                 /\ chunk'[u] = chunk[u]
    BY <1>1, OwnChunk
  <2>4. t \notin Users(a)' /\ \A u \in Users(a)' : u \in Users(a) /\ u # t
    BY <1>1, <2>3 DEF Users, Working
  <2>5. StartInv(a)'
    <3>1. /\ kind'[a] = IF work_size'[a] = Absent THEN "free" ELSE KindOf(work_size'[a])
          /\ kind'[a] # "loop" => done'[a] = {}
      BY <1>1, <2>1 DEF StartInv
    <3>2. QED
      BY <1>1, <1>2, <2>1, <3>1 DEF StartInv
  <2>6. \A u \in Threads : \A c : Carries(u, a, c)' <=> Carries(u, a, c)
    BY <1>1, <2>3 DEF Carries, Signalling
  <2>7. Claimers(a)' \subseteq Claimers(a)
    BY <1>1, <1>2, <2>1, <2>3, <2>4 DEF Claimers, Vain, Users
  <2>8. IndexInv(a)'
    BY <1>1, <2>1, <2>2, <2>7, IndexKept
  <2>9. \A u \in Users(a)' : pc'[u] = "body" => chunk'[u] < work_size[a]
    BY <2>2, <2>3, <2>4 DEF OwnerInv, Users
  <2>10. OwnerInv(a)'
    BY <1>1, <1>2, <2>2, <2>6, <2>9, OwnersKept
  <2>11. AllClaimed(a)' <=> AllClaimed(a)
    BY <1>1 DEF AllClaimed
  <2>12. \A u \in Users(a)' : pc'[u] \in Signalling =>
           AllClaimed(a)' /\ chunk'[u] >= work_size'[a] - 1
    BY <1>1, <2>2, <2>3, <2>4, <2>11 DEF HideInv, Users
  <2>13. HideInv(a)'
    BY <1>1, <1>2, <2>1, <2>2, <2>11, <2>12 DEF HideInv
  <2>14. QED
    BY <2>5, <2>8, <2>10, <2>13 DEF ChunksInv
<1>5. QED
  BY <1>3, <1>4

(* Work on one task leaves the other tasks as they are.                    *)
LEMMA OtherTask ==
  ASSUME ProtocolTypeOK, LoopTypeOK, NEW t \in Threads, Step(t), NEW a \in Addrs, ChunksInv(a),
         task[t] # a, task' = task, deque' = deque, pc[t] # "start", pc'[t] # "start",
         kind'[a] = kind[a], work_size'[a] = work_size[a],
         work_index'[a] = work_index[a], done'[a] = done[a],
         \A s \in Threads : activities'[s].ptr = a <=> activities[s].ptr = a
  PROVE  ChunksInv(a)'
<1>1. Fresh(a)' = Fresh(a)
  BY FreshKept, StepIsThreadStep
<1>2. Published(a)' <=> Published(a)
  BY DEF Published
<1>3. QED
  BY <1>1, <1>2, Untouched

(* Where a thread goes with the chunk index it got.                        *)
LEMMA ClaimEffect ==
  ASSUME ProtocolTypeOK, LoopTypeOK, NEW t \in Threads, NEW c, HasClaimed(t, c)
  PROVE  /\ chunk'[t] = c
         /\ pc'[t] \in {"signal", "body", "end"}
         /\ pc'[t] = "signal" => state[t] # "DidSignal"
                                 /\ (c = work_size[task[t]] - 1 \/ ~(c < work_size[task[t]]))
         /\ pc'[t] = "body" => c < work_size[task[t]]
                               /\ (state[t] = "DidSignal" \/ c # work_size[task[t]] - 1)
         /\ pc'[t] = "end" => ~(c < work_size[task[t]])
<1> DEFINE hasWork == c < work_size[task[t]]
           hide == state[t] # "DidSignal" /\ (IsLastChunk(t, c) \/ ~hasWork)
<1>1. chunk'[t] = c
  BY DEF HasClaimed, LoopTypeOK
<1>2. CASE hide
  <2>1. pc'[t] = "signal"
    BY <1>2 DEF HasClaimed, Goto, ProtocolTypeOK
  <2>2. QED
    BY <1>1, <1>2, <2>1 DEF IsLastChunk
<1>3. CASE ~hide /\ hasWork
  <2>1. pc'[t] = "body"
    BY <1>3 DEF HasClaimed, Goto, ProtocolTypeOK
  <2>2. QED
    BY <1>1, <1>3, <2>1 DEF IsLastChunk
<1>4. CASE ~hide /\ ~hasWork
  <2>1. pc'[t] = "end"
    BY <1>4 DEF HasClaimed, Goto, ProtocolTypeOK
  <2>2. QED
    BY <1>1, <1>4, <2>1
<1>5. QED
  BY <1>2, <1>3, <1>4

(* call_task: chunk 0 is the publishing thread's without a claim.          *)
LEMMA EnterMainChunks ==
  ASSUME ProtocolInv, LoopTypeOK, NEW t \in Threads, Step(t), EnterMain(t),
         NEW a \in Addrs, ChunksInv(a)
  PROVE  ChunksInv(a)'
<1>1. /\ ProtocolTypeOK /\ task[t] \in Addrs
      /\ pc[t] = "enter" /\ state[t] = "Main"
      /\ HasClaimed(t, 0)
      /\ UNCHANGED <<kind, deque, activities, task, state, work_size, work_index, done>>
  BY TaskIsAddress DEF ProtocolInv, EnterMain, shared, signal, Working
<1>2. pc'[t] \in {"signal", "body", "end"}
  BY <1>1, ClaimEffect
<1>3. CASE task[t] # a
  BY <1>1, <1>2, <1>3, OtherTask
<1>4. CASE task[t] = a
  <2>1. StartInv(a) /\ kind[a] = "loop" /\ t \in Users(a)
    BY <1>1, <1>4 DEF ChunksInv, StartInv, Users, Working
  <2>2. IndexInv(a) /\ OwnerInv(a) /\ HideInv(a)
    BY <2>1 DEF ChunksInv
  <2>3. \A u \in Threads \ {t} : /\ pc'[u] = pc[u] /\ task'[u] = task[u] /\ state'[u] = state[u]
                                 /\ chunk'[u] = chunk[u]
    BY <1>1, OwnChunk
  <2>4. work_size[a] \in Nat \ {0}
    BY <2>1, LoopNumbers
  <2>5. /\ chunk'[t] = 0
        /\ \/ pc'[t] = "signal" /\ work_size[a] = 1
           \/ pc'[t] = "body" /\ work_size[a] # 1
    <3>1. /\ chunk'[t] = 0
          /\ pc'[t] = "signal" => (0 = work_size[a] - 1 \/ ~(0 < work_size[a]))
          /\ pc'[t] = "body" => 0 # work_size[a] - 1
          /\ pc'[t] = "end" => ~(0 < work_size[a])
      BY <1>1, <1>4, ClaimEffect
    <3>2. QED
      BY <1>2, <2>4, <3>1
  <2>6. Fresh(a)' = Fresh(a) /\ Published(a)' = Published(a)
    BY <1>1, <1>2, FreshKept, StepIsThreadStep DEF Published
  <2>7. \A u \in Threads : u \in Users(a)' <=> u \in Users(a)
    <3>1. t \in Users(a)'
      BY <1>1, <1>2, <1>4 DEF Users, Working
    <3>2. \A u \in Threads \ {t} : u \in Users(a)' <=> u \in Users(a)
      BY <2>3 DEF Users
    <3>3. QED
      BY <2>1, <3>1, <3>2
  <2>8. StartInv(a)'
    BY <1>1, <2>1, <2>6, <2>7 DEF StartInv, Users
  <2>9. \A u \in Threads : \A c : Carries(u, a, c)' <=> Carries(u, a, c)
    BY <1>1, <1>4, <2>3, <2>5 DEF Carries, Signalling
  <2>10. Claimers(a)' \subseteq Claimers(a)
    <3>1. t \in Claimers(a)
      BY <1>1, <2>1 DEF Claimers, Vain, Signalling
    <3>2. \A u \in Threads \ {t} : u \in Claimers(a)' => u \in Claimers(a)
      BY <1>1, <2>3, <2>6, <2>7 DEF Claimers, Vain
    <3>3. QED
      BY <3>1, <3>2, ClaimerCount
  <2>11. IndexInv(a)'
    BY <1>1, <2>1, <2>2, <2>10, IndexKept
  <2>12. \A u \in Users(a)' : pc'[u] = "body" => chunk'[u] < work_size[a]
    <3>1. \A u \in Users(a)' : u = t \/ (u \in Users(a) /\ pc'[u] = pc[u] /\ chunk'[u] = chunk[u])
      BY <2>3, <2>7 DEF Users
    <3>2. QED
      BY <2>2, <2>4, <2>5, <3>1 DEF OwnerInv
  <2>13. OwnerInv(a)'
    BY <1>1, <2>2, <2>6, <2>9, <2>12, OwnersKept
  <2>14. AllClaimed(a)' <=> AllClaimed(a)
    BY <1>1 DEF AllClaimed
  <2>15. pc'[t] = "signal" => AllClaimed(a)
    <3>1. work_index[a] \in Nat
      BY <2>1, LoopNumbers
    <3>2. QED
      BY <2>4, <2>5, <3>1 DEF AllClaimed
  <2>16. \A u \in Users(a)' : pc'[u] \in Signalling =>
           AllClaimed(a)' /\ chunk'[u] >= work_size'[a] - 1
    <3>1. \A u \in Users(a)' : u = t \/ (u \in Users(a) /\ pc'[u] = pc[u] /\ chunk'[u] = chunk[u])
      BY <2>3, <2>7 DEF Users
    <3>2. pc'[t] \in Signalling => AllClaimed(a) /\ chunk'[t] >= work_size[a] - 1
      BY <2>5, <2>15 DEF Signalling
    <3>3. QED
      BY <1>1, <2>2, <2>14, <3>1, <3>2 DEF HideInv
  <2>17. \A u \in Threads : pc[u] \in {"enter", "signal", "cas"} /\ Carries(u, a, work_size[a] - 1)
           => pc'[u] \in {"enter", "signal", "cas"} /\ Carries(u, a, work_size[a] - 1)'
    <3>1. Carries(t, a, work_size[a] - 1) => work_size[a] = 1
      BY <1>1, <2>4 DEF Carries, Signalling
    <3>2. \A u \in Threads : Carries(u, a, work_size[a] - 1)' <=> Carries(u, a, work_size[a] - 1)
      BY <1>1, <2>9
    <3>3. pc'[t] = "signal" \/ work_size[a] # 1
      BY <2>5
    <3>4. \A u \in Threads \ {t} : pc'[u] = pc[u]
      BY <2>3
    <3>5. QED
      BY <3>1, <3>2, <3>3, <3>4
  <2>18. HideInv(a)'
    BY <1>1, <2>2, <2>6, <2>14, <2>16, <2>17 DEF HideInv
  <2>19. QED
    BY <2>8, <2>11, <2>13, <2>18 DEF ChunksInv
<1>5. QED
  BY <1>3, <1>4

(* fetch_add by a thread that may claim: the index moves on, or wraps to 0 *)
(* when no thread may claim any more.                                      *)
LEMMA ClaimIndex ==
  ASSUME LoopTypeOK, NEW a \in Addrs, StartInv(a), kind[a] = "loop", IndexInv(a),
         NEW t \in Claimers(a), work_size'[a] = work_size[a],
         work_index'[a] = (work_index[a] + 1) % U32,
         work_index[a] < work_size[a] => Claimers(a)' \subseteq Claimers(a),
         ~(work_index[a] < work_size[a]) => Claimers(a)' \subseteq Claimers(a) \ {t}
  PROVE  /\ work_index[a] >= 1
         /\ IndexInv(a)'
         /\ work_index[a] < work_size[a] => work_index'[a] = work_index[a] + 1
         /\ AllClaimed(a) => AllClaimed(a)'
<1> DEFINE n == work_size[a]
           i == work_index[a]
           x == Cardinality(Claimers(a))
           y == Cardinality(Claimers(a)')
<1>1. /\ n \in Nat \ {0} /\ U32 \in Nat /\ N \in Nat \ {0} /\ n + N <= U32
      /\ i \in 0 .. U32 - 1
  BY LoopNumbers
<1>2. x \in 0 .. N /\ y \in 0 .. N
  BY ClaimerCount
<1>3. ~(i < n) => y <= x - 1
  <2>1. SUFFICES ASSUME ~(i < n) PROVE y <= x - 1
    OBVIOUS
  <2>2. IsFiniteSet(Claimers(a) \ {t}) /\ Cardinality(Claimers(a) \ {t}) = x - 1
    BY ClaimerCount, FS_RemoveElement
  <2>3. QED
    BY <2>1, <2>2, FS_Subset
<1>4. y = 0 => Claimers(a)' = {}
  BY ClaimerCount, FS_EmptySet
<1>5. \/ i \in 1 .. n
      \/ i > n /\ i + x <= n + N
  BY DEF IndexInv
<1> HIDE DEF x, y
<1>6. i >= 1 /\ i + 1 <= U32
  BY <1>1, <1>5
<1>7. (i + 1 < U32 /\ (i + 1) % U32 = i + 1) \/ (i + 1 = U32 /\ (i + 1) % U32 = 0)
  BY <1>1, <1>6
<1>8. i < n => (i + 1) % U32 = i + 1
  BY <1>1, <1>7
<1>9. CASE i < n
  <2>1. work_index'[a] \in 1 .. n
    BY <1>1, <1>6, <1>8, <1>9
  <2>2. QED
    BY <1>1, <1>6, <1>8, <1>9, <2>1 DEF IndexInv, AllClaimed
<1>10. CASE ~(i < n)
  <2>1. i + x <= n + N
    BY <1>1, <1>2, <1>5, <1>10
  <2>2. (i + 1) + y <= n + N
    BY <1>1, <1>2, <1>3, <1>10, <2>1
  <2>3. CASE i + 1 < U32
    <3>1. work_index'[a] = i + 1 /\ i + 1 > n
      BY <1>1, <1>7, <1>10, <2>3
    <3>2. QED
      BY <1>1, <1>6, <1>10, <2>2, <3>1 DEF IndexInv, AllClaimed, y
  <2>4. CASE i + 1 = U32
    <3>1. work_index'[a] = 0 /\ y = 0
      BY <1>1, <1>2, <1>7, <2>2, <2>4
    <3>2. QED
      BY <1>4, <1>6, <1>10, <3>1 DEF IndexInv, AllClaimed
  <2>5. QED
    BY <1>1, <1>6, <1>7, <2>3, <2>4
<1>11. QED
  BY <1>9, <1>10

(* try_assist and the end of a chunk: the chunk claimed was nobody's, and  *)
(* the thread that claims the last one is on its way to hide the task.     *)
LEMMA ClaimChunks ==
  ASSUME ProtocolInv, LoopTypeOK, NEW t \in Threads, Step(t), EnterAssist(t) \/ NextChunk(t),
         NEW a \in Addrs, ChunksInv(a)
  PROVE  ChunksInv(a)'
<1>1. /\ ProtocolTypeOK /\ task[t] \in Addrs
      /\ \/ pc[t] = "enter" /\ state[t] = "Assist"
         \/ pc[t] = "next"
      /\ HasClaimed(t, work_index[task[t]])
      /\ UNCHANGED <<kind, deque, activities, task, state, work_size, done>>
      /\ FetchAdd(task[t])
  BY TaskIsAddress DEF ProtocolInv, EnterAssist, NextChunk, shared, signal, Working
<1>2. pc'[t] \in {"signal", "body", "end"} /\ pc[t] # "start"
  BY <1>1, ClaimEffect
<1>3. work_index' = [work_index EXCEPT ![task[t]] = (work_index[task[t]] + 1) % U32]
  BY <1>1 DEF FetchAdd
<1>4. CASE task[t] # a
  <2>1. work_index'[a] = work_index[a]
    BY <1>1, <1>3, <1>4 DEF LoopTypeOK
  <2>2. QED
    BY <1>1, <1>2, <1>4, <2>1, OtherTask
<1>5. CASE task[t] = a
  <2> DEFINE n == work_size[a]
             c == work_index[a]
  <2>1. StartInv(a) /\ kind[a] = "loop" /\ t \in Users(a)
    BY <1>1, <1>5 DEF ChunksInv, StartInv, Users, Working
  <2>2. IndexInv(a) /\ OwnerInv(a) /\ HideInv(a)
    BY <2>1 DEF ChunksInv
  <2>3. \A u \in Threads \ {t} : /\ pc'[u] = pc[u] /\ task'[u] = task[u] /\ state'[u] = state[u]
                                 /\ chunk'[u] = chunk[u]
    BY <1>1, OwnChunk
  <2>4. n \in Nat \ {0} /\ c \in Nat /\ work_index'[a] = (c + 1) % U32
    BY <1>1, <1>3, <1>5, <2>1, LoopNumbers DEF LoopTypeOK
  <2>5. /\ chunk'[t] = c
        /\ pc'[t] = "signal" => state[t] # "DidSignal" /\ (c = n - 1 \/ ~(c < n))
        /\ pc'[t] = "body" => c < n /\ (state[t] = "DidSignal" \/ c # n - 1)
        /\ pc'[t] = "end" => ~(c < n)
    BY <1>1, <1>5, ClaimEffect
  <2> HIDE DEF n, c
  <2>6. Fresh(a)' = Fresh(a) /\ Published(a)' = Published(a)
    BY <1>1, <1>2, FreshKept, StepIsThreadStep DEF Published
  <2>7. \A u \in Threads : u \in Users(a)' <=> u \in Users(a)
    <3>1. t \in Users(a)'
      BY <1>1, <1>2, <1>5 DEF Users, Working
    <3>2. \A u \in Threads \ {t} : u \in Users(a)' <=> u \in Users(a)
      BY <2>3 DEF Users
    <3>3. QED
      BY <2>1, <3>1, <3>2
  <2>8. Fresh(a) => FALSE
    <3>1. SUFFICES ASSUME Fresh(a) PROVE FALSE
      OBVIOUS
    <3>2. ~Queued(a)
      BY <1>5 DEF ProtocolInv, QueueInv
    <3>3. PICK u \in Threads : pc[u] = "start" /\ task[u] = a
      BY <3>1, <3>2 DEF Fresh
    <3>4. a # Null
      BY ProtocolAssumption
    <3>5. QED
      BY <1>1, <1>5, <3>3, <3>4 DEF ProtocolInv, ExclusiveFinish
  <2>9. StartInv(a)'
    <3>1. /\ kind'[a] = IF work_size'[a] = Absent THEN "free" ELSE KindOf(work_size'[a])
          /\ kind'[a] # "loop" => done'[a] = {}
      BY <1>1, <2>1 DEF StartInv
    <3>2. QED
      BY <1>1, <2>1, <2>6, <2>8, <3>1 DEF StartInv
  <2>10. /\ t \in Claimers(a)
         /\ Claimers(a)' \subseteq Claimers(a)
         /\ ~(c < n) => t \notin Claimers(a)'
    <3>1. t \in Claimers(a)
      BY <1>1, <2>1 DEF Claimers, Vain, Signalling
    <3>2. \A u \in Threads \ {t} : u \in Claimers(a)' => u \in Claimers(a)
      BY <1>1, <2>3, <2>6, <2>7 DEF Claimers, Vain
    <3>3. ~(c < n) => Vain(t)'
      <4>1. SUFFICES ASSUME ~(c < n) PROVE Vain(t)'
        OBVIOUS
      <4>2. c >= n
        BY <2>4, <4>1 DEF n, c
      <4>3. pc'[t] = "end" \/ (pc'[t] = "signal" /\ chunk'[t] >= work_size'[task'[t]])
        BY <1>1, <1>2, <1>5, <2>5, <4>1, <4>2 DEF n, c
      <4>4. QED
        BY <4>3 DEF Vain, Signalling
    <3>4. ~(c < n) => t \notin Claimers(a)'
      BY <2>1, <2>7, <3>3 DEF Claimers
    <3>5. QED
      BY <3>1, <3>2, <3>4, ClaimerCount
  <2>11. /\ c >= 1
         /\ IndexInv(a)'
         /\ c < n => work_index'[a] = c + 1
         /\ AllClaimed(a) => AllClaimed(a)'
    BY <1>1, <2>1, <2>2, <2>4, <2>10, ClaimIndex DEF n, c
  <2>12. /\ c < n => Claimed(a) = {k \in 0 .. n - 1 : k < c}
                     /\ Claimed(a)' = Claimed(a) \cup {c} /\ c \notin Claimed(a)
         /\ ~(c < n) => Claimed(a)' = Claimed(a)
    <3>1. CASE c < n
      <4>1. /\ Claimed(a) = {k \in 0 .. n - 1 : k < c}
            /\ Claimed(a)' = {k \in 0 .. n - 1 : k < c + 1}
        <5>1. work_index'[a] = c + 1 /\ c + 1 # 0 /\ c # 0 /\ work_size'[a] = n
          BY <1>1, <2>4, <2>11, <3>1 DEF n, c
        <5>2. QED
          BY <5>1 DEF Claimed, n, c
      <4>2. c \in 0 .. n - 1
        BY <2>4, <3>1 DEF n, c
      <4>3. QED
        BY <2>4, <3>1, <4>1, <4>2 DEF n, c
    <3>2. CASE ~(c < n)
      <4>1. AllClaimed(a) /\ AllClaimed(a)'
        BY <2>4, <2>11, <3>2 DEF AllClaimed, n, c
      <4>2. Claimed(a) = 0 .. n - 1
        BY <2>4, <4>1 DEF AllClaimed, Claimed, n, c
      <4>3. Claimed(a)' = 0 .. n - 1
        <5>1. work_index'[a] \in Int /\ work_size'[a] = n
          BY <1>1, <2>1, LoopNumbers, <2>4 DEF n
        <5>2. QED
          BY <2>4, <4>1, <5>1 DEF AllClaimed, Claimed, n
      <4>4. QED
        BY <3>2, <4>2, <4>3
    <3>3. QED
      BY <3>1, <3>2
  <2>13. /\ \A u \in Threads \ {t} : \A k : Carries(u, a, k)' <=> Carries(u, a, k)
         /\ \A k : ~Carries(t, a, k)
         /\ \A k \in 0 .. n - 1 : Carries(t, a, k)' <=> k = c
    <3>1. \A u \in Threads \ {t} : \A k : Carries(u, a, k)' <=> Carries(u, a, k)
      BY <2>3 DEF Carries
    <3>2. \A k : ~Carries(t, a, k)
      BY <1>1 DEF Carries, Signalling
    <3>3. \A k \in 0 .. n - 1 : Carries(t, a, k)' <=> k = c
      <4>1. ASSUME NEW k \in 0 .. n - 1 PROVE Carries(t, a, k)' <=> k = c
        <5>1. pc'[t] = "end" => k # c
          BY <2>4, <2>5 DEF n, c
        <5>2. QED
          BY <1>1, <1>2, <1>5, <2>5, <5>1 DEF Carries, Signalling
      <4>2. QED
        BY <4>1
    <3>4. QED
      BY <3>1, <3>2, <3>3
  <2>14. OwnerInv(a)'
    <3>1. work_size'[a] = n /\ done'[a] = done[a]
      BY <1>1 DEF n
    <3>2. done'[a] \subseteq Claimed(a)'
      BY <1>1, <2>2, <2>12 DEF OwnerInv
    <3>3. \A u \in Users(a)' : pc'[u] = "body" => chunk'[u] < n
      <4>1. \A u \in Users(a)' : u = t \/ (u \in Users(a) /\ pc'[u] = pc[u] /\ chunk'[u] = chunk[u])
        BY <2>3, <2>7 DEF Users
      <4>2. QED
        BY <2>2, <2>5, <4>1 DEF OwnerInv, n
    <3>4. ASSUME NEW k \in 0 .. n - 1, NEW u \in Threads, Carries(u, a, k)'
          PROVE  /\ k \in Claimed(a)' \ done[a]
                 /\ \A v \in Threads \ {u} : ~Carries(v, a, k)'
      <4>1. \A v \in Threads : Carries(v, a, k) => k \in Claimed(a) \ done[a]
                                 /\ \A w \in Threads \ {v} : ~Carries(w, a, k)
        BY <2>2 DEF OwnerInv, n
      <4>2. CASE u = t
        <5>1. k = c /\ c < n
          BY <2>4, <2>13, <3>4, <4>2 DEF n, c
        <5>2. k \in Claimed(a)' /\ k \notin Claimed(a)
          BY <2>12, <5>1
        <5>3. k \notin done[a]
          BY <2>2, <5>2 DEF OwnerInv
        <5>4. \A v \in Threads \ {t} : ~Carries(v, a, k)'
          BY <2>13, <4>1, <5>2
        <5>5. QED
          BY <4>2, <5>2, <5>3, <5>4
      <4>3. CASE u # t
        <5>1. Carries(u, a, k) /\ k \in Claimed(a) \ done[a]
          BY <2>13, <3>4, <4>1, <4>3
        <5>2. (k \in Claimed(a)' /\ k # c) \/ ~(c < n)
          BY <2>12, <5>1
        <5>3. k \in Claimed(a)'
          BY <2>12, <5>1
        <5>4. ~Carries(t, a, k)'
          BY <2>4, <2>13, <5>2 DEF n, c
        <5>5. QED
          BY <2>13, <4>1, <4>3, <5>1, <5>3, <5>4
      <4>4. QED
        BY <4>2, <4>3
    <3>5. ASSUME NEW k \in 0 .. n - 1, k \in Claimed(a)' \ done[a]
          PROVE  \E u \in Threads : Carries(u, a, k)'
      <4>1. CASE k = c
        BY <2>13, <4>1
      <4>2. CASE k # c
        <5>1. k \in Claimed(a) \ done[a]
          BY <2>12, <3>5, <4>2
        <5>2. PICK u \in Threads : Carries(u, a, k)
          BY <2>2, <2>8, <5>1 DEF OwnerInv, n
        <5>3. QED
          BY <2>13, <5>2
      <4>3. QED
        BY <4>1, <4>2
    <3>6. QED
      BY <3>1, <3>2, <3>3, <3>4, <3>5 DEF OwnerInv
  <2>15. pc'[t] = "signal" => AllClaimed(a)' /\ c >= n - 1
    <3>1. SUFFICES ASSUME pc'[t] = "signal" PROVE AllClaimed(a)' /\ c >= n - 1
      OBVIOUS
    <3>2. CASE c = n - 1
      <4>1. work_index'[a] = n /\ work_size'[a] = n
        BY <1>1, <2>4, <2>11, <3>2 DEF n, c
      <4>2. QED
        BY <2>4, <3>2, <4>1 DEF AllClaimed, n, c
    <3>3. CASE ~(c < n)
      BY <2>4, <2>11, <3>3 DEF AllClaimed, n, c
    <3>4. QED
      BY <2>5, <3>1, <3>2, <3>3
  <2>16. \A u \in Users(a)' : pc'[u] \in Signalling =>
           AllClaimed(a)' /\ chunk'[u] >= n - 1
    <3>1. \A u \in Users(a)' : u = t \/ (u \in Users(a) /\ pc'[u] = pc[u] /\ chunk'[u] = chunk[u])
      BY <2>3, <2>7 DEF Users
    <3>2. pc'[t] \in Signalling => AllClaimed(a)' /\ chunk'[t] >= n - 1
      BY <1>2, <2>5, <2>15 DEF Signalling
    <3>3. QED
      BY <2>2, <2>11, <3>1, <3>2 DEF HideInv, n
  <2>17. ASSUME Published(a)', AllClaimed(a)'
         PROVE  \E u \in Threads : pc'[u] \in {"enter", "signal", "cas"} /\ Carries(u, a, n - 1)'
    <3>1. CASE AllClaimed(a)
      <4>1. PICK u \in Threads : pc[u] \in {"enter", "signal", "cas"} /\ Carries(u, a, n - 1)
        BY <2>2, <2>6, <2>17, <3>1 DEF HideInv, n
      <4>2. u # t /\ pc'[u] = pc[u]
        BY <2>3, <2>13, <4>1
      <4>3. Carries(u, a, n - 1)'
        BY <1>1, <2>13, <4>1, <4>2 DEF n
      <4>4. QED
        BY <4>1, <4>2, <4>3
    <3>2. CASE ~AllClaimed(a)
      <4>1. c < n /\ work_index'[a] = c + 1
        BY <2>4, <2>11, <3>2 DEF AllClaimed, n, c
      <4>2. c = n - 1
        BY <1>1, <2>4, <2>17, <4>1 DEF AllClaimed, n, c
      <4>3. state[t] # "DidSignal"
        <5>1. PICK s \in Threads : activities[s].ptr = a
          BY <2>6, <2>17 DEF Published
        <5>2. a # Null
          BY ProtocolAssumption
        <5>3. QED
          BY <1>5, <5>1, <5>2 DEF ProtocolInv, SlotInv
      <4>4. pc'[t] = "signal"
        BY <1>2, <2>5, <4>1, <4>2, <4>3
      <4>5. n - 1 \in 0 .. n - 1
        BY <2>4 DEF n
      <4>6. Carries(t, a, n - 1)'
        BY <1>1, <2>13, <4>2, <4>5 DEF n
      <4>7. QED
        BY <4>4, <4>6
    <3>3. QED
      BY <3>1, <3>2
  <2>18. HideInv(a)'
    <3>1. Fresh(a)' \/ Published(a)' \/ AllClaimed(a)'
      BY <2>2, <2>6, <2>11 DEF HideInv
    <3>2. QED
      BY <1>1, <2>16, <2>17, <3>1 DEF HideInv, n
  <2>19. QED
    BY <2>9, <2>11, <2>14, <2>18 DEF ChunksInv
<1>6. QED
  BY <1>4, <1>5

(* call_task: the chunk goes from the thread to those that are executed.   *)
LEMMA RunChunks ==
  ASSUME ProtocolInv, LoopTypeOK, NEW t \in Threads, Step(t), RunChunk(t),
         NEW a \in Addrs, ChunksInv(a)
  PROVE  ChunksInv(a)'
<1>1. /\ ProtocolTypeOK /\ task[t] \in Addrs
      /\ pc[t] = "body" /\ pc'[t] = "next"
      /\ done' = [done EXCEPT ![task[t]] = done[task[t]] \cup {chunk[t]}]
      /\ UNCHANGED <<kind, deque, activities, task, state, work_size, work_index, chunk>>
  BY TaskIsAddress DEF ProtocolInv, RunChunk, shared, signal, Working, Goto, ProtocolTypeOK
<1>2. CASE task[t] # a
  <2>1. done'[a] = done[a]
    BY <1>1, <1>2 DEF LoopTypeOK
  <2>2. QED
    BY <1>1, <1>2, <2>1, OtherTask
<1>3. CASE task[t] = a
  <2>1. StartInv(a) /\ kind[a] = "loop" /\ t \in Users(a) /\ ~Fresh(a)
    BY <1>1, <1>3, UsedIsNotFresh DEF ChunksInv, StartInv, Users, Working
  <2>2. IndexInv(a) /\ OwnerInv(a) /\ HideInv(a)
    BY <2>1 DEF ChunksInv
  <2>3. \A u \in Threads \ {t} : /\ pc'[u] = pc[u] /\ task'[u] = task[u] /\ state'[u] = state[u]
                                 /\ chunk'[u] = chunk[u]
    BY <1>1, OwnChunk
  <2>4. Fresh(a)' = Fresh(a) /\ Published(a)' = Published(a)
    BY <1>1, FreshKept, StepIsThreadStep DEF Published
  <2>5. \A u \in Threads : u \in Users(a)' <=> u \in Users(a)
    <3>1. t \in Users(a)'
      BY <1>1, <1>3 DEF Users, Working
    <3>2. \A u \in Threads \ {t} : u \in Users(a)' <=> u \in Users(a)
      BY <2>3 DEF Users
    <3>3. QED
      BY <2>1, <3>1, <3>2
  <2>6. done'[a] = done[a] \cup {chunk[t]} /\ chunk[t] \in 0 .. work_size[a] - 1
    <3>1. chunk[t] < work_size[a]
      BY <1>1, <2>1, <2>2 DEF OwnerInv
    <3>2. chunk[t] \in Nat /\ work_size[a] \in Nat
      BY <2>1, LoopNumbers DEF LoopTypeOK
    <3>3. QED
      BY <1>1, <1>3, <3>1, <3>2 DEF LoopTypeOK
  <2>7. StartInv(a)'
    <3>1. kind'[a] = IF work_size'[a] = Absent THEN "free" ELSE KindOf(work_size'[a])
      BY <1>1, <2>1 DEF StartInv
    <3>2. QED
      BY <1>1, <2>1, <2>4, <2>5, <3>1 DEF StartInv
  <2>8. Claimers(a)' \subseteq Claimers(a)
    <3>1. t \in Claimers(a)
      BY <1>1, <2>1 DEF Claimers, Vain, Signalling
    <3>2. \A u \in Threads \ {t} : u \in Claimers(a)' => u \in Claimers(a)
      BY <1>1, <2>3, <2>4, <2>5 DEF Claimers, Vain
    <3>3. QED
      BY <3>1, <3>2, ClaimerCount
  <2>9. IndexInv(a)'
    BY <1>1, <2>1, <2>2, <2>8, IndexKept
  <2>10. /\ \A c : Carries(t, a, c) <=> c = chunk[t]
         /\ \A c : ~Carries(t, a, c)'
         /\ \A u \in Threads \ {t} : \A c : Carries(u, a, c)' <=> Carries(u, a, c)
    BY <1>1, <1>3, <2>3 DEF Carries, Signalling
  <2>11. OwnerInv(a)'
    <3>1. Claimed(a)' = Claimed(a)
      BY <1>1 DEF Claimed
    <3>2. done'[a] \subseteq Claimed(a)'
      BY <2>2, <2>6, <2>10, <3>1 DEF OwnerInv
    <3>3. \A u \in Users(a)' : pc'[u] = "body" => chunk'[u] < work_size'[a]
      <4>1. \A u \in Users(a)' : u = t \/ (u \in Users(a) /\ pc'[u] = pc[u] /\ chunk'[u] = chunk[u])
        BY <2>3, <2>5 DEF Users
      <4>2. QED
        BY <1>1, <2>2, <4>1 DEF OwnerInv
    <3>4. ASSUME NEW c \in 0 .. work_size[a] - 1, NEW u \in Threads, Carries(u, a, c)'
          PROVE  /\ c \in Claimed(a)' \ done'[a]
                 /\ \A v \in Threads \ {u} : ~Carries(v, a, c)'
      <4>1. u # t /\ Carries(u, a, c)
        BY <2>10, <3>4
      <4>2. /\ c \in Claimed(a) \ done[a]
            /\ \A v \in Threads \ {u} : ~Carries(v, a, c)
        BY <2>2, <4>1 DEF OwnerInv
      <4>3. c # chunk[t]
        BY <2>10, <4>1, <4>2
      <4>4. QED
        BY <2>6, <2>10, <3>1, <4>2, <4>3
    <3>5. ASSUME NEW c \in 0 .. work_size[a] - 1, c \in Claimed(a)' \ done'[a]
          PROVE  \E u \in Threads : Carries(u, a, c)'
      <4>1. c \in Claimed(a) \ done[a] /\ c # chunk[t]
        BY <2>6, <3>1, <3>5
      <4>2. PICK u \in Threads : Carries(u, a, c)
        BY <2>1, <2>2, <4>1 DEF OwnerInv
      <4>3. QED
        BY <2>10, <4>1, <4>2
    <3>6. QED
      BY <1>1, <3>2, <3>3, <3>4, <3>5 DEF OwnerInv
  <2>12. AllClaimed(a)' <=> AllClaimed(a)
    BY <1>1 DEF AllClaimed
  <2>13. \A u \in Users(a)' : pc'[u] \in Signalling =>
           AllClaimed(a)' /\ chunk'[u] >= work_size'[a] - 1
    <3>1. \A u \in Users(a)' : u = t \/ (u \in Users(a) /\ pc'[u] = pc[u] /\ chunk'[u] = chunk[u])
      BY <2>3, <2>5 DEF Users
    <3>2. QED
      BY <1>1, <2>2, <2>12, <3>1 DEF HideInv, Signalling
  <2>14. \A u \in Threads : pc[u] \in {"enter", "signal", "cas"} /\ Carries(u, a, work_size[a] - 1)
           => pc'[u] \in {"enter", "signal", "cas"} /\ Carries(u, a, work_size[a] - 1)'
    BY <1>1, <2>3, <2>10
  <2>15. HideInv(a)'
    BY <1>1, <2>2, <2>4, <2>12, <2>13, <2>14 DEF HideInv
  <2>16. QED
    BY <2>7, <2>9, <2>11, <2>15 DEF ChunksInv
<1>4. QED
  BY <1>2, <1>3

(* task_empty: every chunk is claimed when a thread hides the task, and it *)
(* goes on with the chunk it carries.                                      *)
LEMMA HideChunks ==
  ASSUME ProtocolInv, LoopTypeOK, NEW t \in Threads, Step(t), Signal(t),
         NEW a \in Addrs, ChunksInv(a)
  PROVE  ChunksInv(a)'
<1>1. Hides(t, Resume(t))
  BY HideEffect DEF Signal, Resume
<1>2. /\ ProtocolTypeOK /\ task[t] \in Addrs
      /\ pc[t] \in Signalling /\ pc'[t] \in {"cas", "add", Resume(t)}
      /\ UNCHANGED <<kind, deque, task, work_size, work_index, done, chunk>>
      /\ \A s \in Threads : \/ activities'[s].ptr = activities[s].ptr
                            \/ activities[s].ptr = task[t] /\ activities'[s].ptr = Null
  BY <1>1 DEF ProtocolInv, Hides, Signal, loopData, Signalling
<1>3. pc[t] # "start" /\ pc'[t] # "start"
  BY <1>2 DEF Resume, Signalling
<1>4. CASE task[t] # a
  <2>1. \A s \in Threads : activities'[s].ptr = a <=> activities[s].ptr = a
    BY <1>2, <1>4, ProtocolAssumption
  <2>2. QED
    BY <1>2, <1>3, <1>4, <2>1, OtherTask
<1>5. CASE task[t] = a
  <2>1. StartInv(a) /\ kind[a] = "loop" /\ t \in Users(a) /\ ~Fresh(a)
    BY <1>2, <1>3, <1>5, UsedIsNotFresh DEF ChunksInv, StartInv, Users, Working, Signalling
  <2>2. IndexInv(a) /\ OwnerInv(a) /\ HideInv(a)
    BY <2>1 DEF ChunksInv
  <2>3. \A u \in Threads \ {t} : /\ pc'[u] = pc[u] /\ task'[u] = task[u] /\ state'[u] = state[u]
                                 /\ chunk'[u] = chunk[u]
    BY <1>2, OwnChunk
  <2>4. Fresh(a)' = Fresh(a) /\ (Published(a)' => Published(a))
    <3>1. Fresh(a)' = Fresh(a)
      BY <1>2, <1>3, FreshKept, StepIsThreadStep
    <3>2. Published(a)' => Published(a)
      BY <1>2, ProtocolAssumption DEF Published
    <3>3. QED
      BY <3>1, <3>2
  <2>5. AllClaimed(a) /\ AllClaimed(a)' /\ chunk[t] >= work_size[a] - 1
    BY <1>2, <2>1, <2>2 DEF HideInv, AllClaimed
  <2>6. /\ work_size[a] \in Nat \ {0} /\ chunk[t] \in Nat
        /\ \/ pc'[t] \in {"cas", "add"}
           \/ pc'[t] = "body" /\ chunk[t] < work_size[a]
           \/ pc'[t] = "end" /\ chunk[t] >= work_size[a]
    BY <1>2, <1>5, <2>1, LoopNumbers DEF Resume, LoopTypeOK
  <2>7. \A u \in Threads : u \in Users(a)' <=> u \in Users(a)
    <3>1. t \in Users(a)'
      BY <1>2, <1>5, <2>6 DEF Users, Working
    <3>2. \A u \in Threads \ {t} : u \in Users(a)' <=> u \in Users(a)
      BY <2>3 DEF Users
    <3>3. QED
      BY <2>1, <3>1, <3>2
  <2>8. StartInv(a)'
    <3>1. /\ kind'[a] = IF work_size'[a] = Absent THEN "free" ELSE KindOf(work_size'[a])
          /\ kind'[a] # "loop" => done'[a] = {}
      BY <1>2, <2>1 DEF StartInv
    <3>2. QED
      BY <1>2, <2>1, <2>4, <2>7, <3>1 DEF StartInv
  <2>9. Claimers(a)' \subseteq Claimers(a)
    <3>1. t \in Claimers(a)' => t \in Claimers(a)
      <4>1. Vain(t) => Vain(t)'
        BY <1>2, <1>5, <2>6 DEF Vain, Signalling
      <4>2. QED
        BY <2>1, <2>7, <4>1 DEF Claimers
    <3>2. \A u \in Threads \ {t} : u \in Claimers(a)' => u \in Claimers(a)
      BY <1>2, <2>3, <2>4, <2>7 DEF Claimers, Vain
    <3>3. QED
      BY <3>1, <3>2, ClaimerCount
  <2>10. IndexInv(a)'
    BY <1>2, <2>1, <2>2, <2>9, IndexKept
  <2>11. \A u \in Threads : \A c \in 0 .. work_size[a] - 1 : Carries(u, a, c)' <=> Carries(u, a, c)
    <3>1. \A u \in Threads \ {t} : \A c : Carries(u, a, c)' <=> Carries(u, a, c)
      BY <2>3 DEF Carries
    <3>2. \A c \in 0 .. work_size[a] - 1 : Carries(t, a, c)' <=> Carries(t, a, c)
      <4>1. ASSUME NEW c \in 0 .. work_size[a] - 1
            PROVE  Carries(t, a, c)' <=> Carries(t, a, c)
        <5>1. Carries(t, a, c) <=> chunk[t] = c
          BY <1>2, <1>5 DEF Carries, Signalling
        <5>2. chunk[t] = c => pc'[t] # "end"
          BY <2>6
        <5>3. QED
          BY <1>2, <1>5, <2>6, <5>1, <5>2 DEF Carries, Signalling
      <4>2. QED
        BY <4>1
    <3>3. QED
      BY <3>1, <3>2
  <2>12. \A u \in Users(a)' : pc'[u] = "body" => chunk'[u] < work_size[a]
    <3>1. \A u \in Users(a)' : u = t \/ (u \in Users(a) /\ pc'[u] = pc[u] /\ chunk'[u] = chunk[u])
      BY <2>3, <2>7 DEF Users
    <3>2. QED
      BY <1>2, <2>2, <2>6, <3>1 DEF OwnerInv
  <2>13. OwnerInv(a)'
    BY <1>2, <2>2, <2>4, <2>11, <2>12, OwnersKept
  <2>14. \A u \in Users(a)' : pc'[u] \in Signalling =>
           AllClaimed(a)' /\ chunk'[u] >= work_size'[a] - 1
    <3>1. \A u \in Users(a)' : u = t \/ (u \in Users(a) /\ pc'[u] = pc[u] /\ chunk'[u] = chunk[u])
      BY <2>3, <2>7 DEF Users
    <3>2. QED
      BY <1>2, <2>2, <2>5, <3>1 DEF HideInv
  <2>15. ASSUME Published(a)'
         PROVE  \E u \in Threads : /\ pc'[u] \in {"enter", "signal", "cas"}
                                   /\ Carries(u, a, work_size[a] - 1)'
    <3>1. pc'[t] = "cas"
      BY <1>1, <1>2, <1>5, <2>15 DEF Hides
    <3>2. PICK u \in Threads : pc[u] \in {"enter", "signal", "cas"} /\ Carries(u, a, work_size[a] - 1)
      BY <2>2, <2>4, <2>5, <2>15 DEF HideInv
    <3>3. work_size[a] - 1 \in 0 .. work_size[a] - 1
      BY <2>6
    <3>4. Carries(u, a, work_size[a] - 1)'
      BY <1>2, <2>11, <3>2, <3>3
    <3>5. pc'[u] \in {"enter", "signal", "cas"}
      BY <2>3, <3>1, <3>2
    <3>6. QED
      BY <3>4, <3>5
  <2>16. HideInv(a)'
    BY <1>2, <2>5, <2>14, <2>15 DEF HideInv
  <2>17. QED
    BY <2>8, <2>10, <2>13, <2>16 DEF ChunksInv
<1>6. QED
  BY <1>4, <1>5

(* finish: nobody knows the task, and its address is free.                 *)
LEMMA FinishChunks ==
  ASSUME ProtocolInv, LoopTypeOK, NEW t \in Threads, Step(t), FinishTask(t),
         NEW a \in Addrs, ChunksInv(a)
  PROVE  ChunksInv(a)'
<1>1. /\ ProtocolTypeOK /\ task[t] \in Addrs
      /\ pc[t] = "finish" /\ pc'[t] = "after" /\ task'[t] = Null
      /\ kind' = [kind EXCEPT ![task[t]] = "free"]
      /\ work_size' = [work_size EXCEPT ![task[t]] = Absent]
      /\ done' = [done EXCEPT ![task[t]] = {}]
      /\ UNCHANGED <<deque, activities, work_index>>
  BY TaskIsAddress DEF ProtocolInv, FinishTask, FreeTask, Goto, ProtocolTypeOK
<1>2. Null \notin Addrs
  BY ProtocolAssumption
<1>3. Fresh(a)' = Fresh(a) /\ (Published(a)' <=> Published(a))
  BY <1>1, FreshKept, StepIsThreadStep DEF Published
<1>4. CASE task[t] # a
  <2>1. kind'[a] = kind[a] /\ work_size'[a] = work_size[a] /\ done'[a] = done[a]
    BY <1>1, <1>4 DEF ProtocolTypeOK, LoopTypeOK
  <2>2. QED
    BY <1>1, <1>2, <1>3, <1>4, <2>1, Untouched
<1>5. CASE task[t] = a
  <2>1. kind'[a] = "free" /\ work_size'[a] = Absent /\ done'[a] = {}
    BY <1>1, <1>5 DEF ProtocolTypeOK, LoopTypeOK
  <2>2. ~Fresh(a)'
    BY <1>1, <1>3, <1>5, UsedIsNotFresh
  <2>3. \A u \in Threads \ {t} : task'[u] = task[u] /\ task[u] # a
    BY <1>1, <1>2, <1>5, OwnChunk DEF ProtocolInv, ExclusiveFinish
  <2>4. Users(a)' = {}
    BY <1>1, <1>2, <2>3 DEF Users
  <2>5. QED
    BY <2>1, <2>2, <2>4 DEF ChunksInv, StartInv
<1>6. QED
  BY <1>4, <1>5

(* push_task: nobody knows the address yet; all chunks are to be claimed.  *)
LEMMA CreateChunks ==
  ASSUME ProtocolInv, LoopTypeOK, NEW t \in Threads, Step(t), CreateTask(t),
         NEW a \in Addrs, ChunksInv(a)
  PROVE  ChunksInv(a)'
<1>1. PICK b \in Addrs : \E n \in Sizes :
        /\ SpawnTask(t, b, KindOf(n))
        /\ work_size' = [work_size EXCEPT ![b] = n]
        /\ work_index' = [work_index EXCEPT ![b] = InitialIndex % U32]
        /\ UNCHANGED <<done, chunk>>
  BY DEF CreateTask
<1>2. PICK n \in Sizes :
        /\ SpawnTask(t, b, KindOf(n))
        /\ work_size' = [work_size EXCEPT ![b] = n]
        /\ work_index' = [work_index EXCEPT ![b] = InitialIndex % U32]
        /\ UNCHANGED <<done, chunk>>
  BY <1>1
<1>3. /\ ProtocolTypeOK
      /\ pc[t] \in {"body", "after"} /\ kind[b] = "free"
      /\ kind' = [kind EXCEPT ![b] = KindOf(n)]
      /\ UNCHANGED <<activities, pc, task, state>>
      /\ \A e \in Addrs : Fresh(e)' <=> Fresh(e) \/ e = b
      /\ ~Published(b) /\ \A u \in Threads : task[u] # b
  BY <1>2, SpawnEffect DEF ProtocolInv, Spawns
<1>4. Published(a)' <=> Published(a)
  BY <1>3 DEF Published
<1>5. \A u \in Threads : /\ pc'[u] = pc[u] /\ task'[u] = task[u] /\ state'[u] = state[u]
                         /\ chunk'[u] = chunk[u]
  BY <1>2, <1>3
<1>6. Users(a)' = Users(a) /\ \A u \in Threads : \A c : Carries(u, a, c)' <=> Carries(u, a, c)
  BY <1>5 DEF Users, Carries
<1>7. CASE b # a
  <2>1. /\ kind'[a] = kind[a] /\ work_size'[a] = work_size[a]
        /\ work_index'[a] = work_index[a] /\ done'[a] = done[a]
    BY <1>2, <1>3, <1>7 DEF ProtocolTypeOK, LoopTypeOK
  <2>2. Fresh(a)' <=> Fresh(a)
    BY <1>3, <1>7
  <2>3. StartInv(a)'
    <3>1. /\ kind'[a] = IF work_size'[a] = Absent THEN "free" ELSE KindOf(work_size'[a])
          /\ kind'[a] # "loop" => done'[a] = {}
      BY <2>1 DEF ChunksInv, StartInv
    <3>2. QED
      BY <1>6, <2>1, <2>2, <3>1 DEF ChunksInv, StartInv
  <2>4. CASE kind[a] = "loop"
    <3>1. StartInv(a) /\ IndexInv(a) /\ OwnerInv(a) /\ HideInv(a)
      BY <2>4 DEF ChunksInv
    <3>2. Claimers(a)' \subseteq Claimers(a)
      BY <1>4, <1>5, <1>6, <2>1 DEF Claimers, Vain, Users
    <3>3. IndexInv(a)'
      BY <2>1, <2>4, <3>1, <3>2, IndexKept
    <3>4. \A u \in Users(a)' : pc'[u] = "body" => chunk'[u] < work_size[a]
      BY <1>5, <1>6, <3>1 DEF OwnerInv, Users
    <3>5. OwnerInv(a)'
      BY <1>6, <2>1, <2>2, <3>1, <3>4, OwnersKept
    <3>6. AllClaimed(a)' <=> AllClaimed(a)
      BY <2>1 DEF AllClaimed
    <3>7. \A u \in Users(a)' : pc'[u] \in Signalling =>
            AllClaimed(a)' /\ chunk'[u] >= work_size'[a] - 1
      BY <1>5, <1>6, <2>1, <3>1, <3>6 DEF HideInv, Users
    <3>8. HideInv(a)'
      BY <1>4, <1>5, <1>6, <2>1, <2>2, <3>1, <3>6, <3>7 DEF HideInv
    <3>9. QED
      BY <2>3, <3>3, <3>5, <3>8 DEF ChunksInv
  <2>5. CASE kind[a] # "loop"
    BY <2>1, <2>3, <2>5 DEF ChunksInv
  <2>6. QED
    BY <2>4, <2>5
<1>8. CASE b = a
  <2>1. /\ kind'[a] = KindOf(n) /\ work_size'[a] = n
        /\ work_index'[a] = InitialIndex % U32 /\ done'[a] = done[a]
    BY <1>2, <1>3, <1>8 DEF ProtocolTypeOK, LoopTypeOK
  <2>2. done[a] = {}
    BY <1>3, <1>8 DEF ChunksInv, StartInv
  <2>3. Users(a)' = {} /\ ~Published(a)' /\ Fresh(a)'
    BY <1>3, <1>4, <1>6, <1>8 DEF Users
  <2>4. n # Absent /\ n \in Nat
    BY SizesAssumption DEF Absent
  <2>5. StartInv(a)'
    BY <2>1, <2>2, <2>3, <2>4 DEF StartInv
  <2>6. CASE n # 0
    <3>1. work_index'[a] = 1
      <4>1. n + N <= U32 /\ U32 \in Nat /\ N \in Nat \ {0}
        BY SizesAssumption, ProtocolAssumption
      <4>2. 1 % U32 = 1
        BY <2>4, <2>6, <4>1
      <4>3. QED
        BY <2>1, <4>2 DEF InitialIndex
    <3>2. IndexInv(a)'
      BY <2>1, <2>4, <2>6, <3>1 DEF IndexInv
    <3>3. \A u \in Threads : \A c : ~Carries(u, a, c)'
      BY <1>3, <1>5, <1>8 DEF Carries
    <3>4. OwnerInv(a)'
      BY <2>1, <2>2, <2>3, <3>3 DEF OwnerInv
    <3>5. HideInv(a)'
      BY <2>3 DEF HideInv
    <3>6. QED
      BY <2>5, <3>2, <3>4, <3>5 DEF ChunksInv
  <2>7. CASE n = 0
    BY <2>1, <2>5, <2>7 DEF KindOf, ChunksInv
  <2>8. QED
    BY <2>6, <2>7
<1>9. QED
  BY <1>7, <1>8

(* A thread that has no task, or one without a loop, leaves all as it is.  *)
LEMMA QuietChunks ==
  ASSUME ProtocolInv, LoopTypeOK, NEW t \in Threads, Step(t), Quiet(t), UNCHANGED loopData,
         NEW a \in Addrs, ChunksInv(a)
  PROVE  ChunksInv(a)'
<1>1. /\ ProtocolTypeOK
      /\ kind'[a] = kind[a] /\ work_size'[a] = work_size[a]
      /\ work_index'[a] = work_index[a] /\ done'[a] = done[a]
      /\ pc[t] \notin Working /\ pc'[t] \notin Working
  BY DEF ProtocolInv, Quiet, loopData
<1>2. Published(a)' <=> Published(a)
  BY PtrsKept DEF Quiet
<1>3. (Fresh(a)' => Fresh(a)) /\ (kind[a] = "loop" /\ Fresh(a) => Fresh(a)')
  BY DEF Quiet
<1>4. QED
  BY <1>1, <1>2, <1>3, Untouched

(* Every step of a thread preserves the invariant of every task.           *)
LEMMA ChunksStep ==
  ASSUME ProtocolInv, LoopTypeOK, NEW t \in Threads, Step(t),
         NEW a \in Addrs, ChunksInv(a)
  PROVE  ChunksInv(a)'
<1>1. CASE ProtocolStep(t) /\ UNCHANGED loopData
  <2>1. Quiet(t) \/ Joins(t) \/ Publishes(t) \/ Leaves(t)
    BY <1>1, ProtocolStepEffect
  <2>2. QED
    BY <1>1, <2>1, QuietChunks, JoinChunks, PublishChunks, LeaveChunks
<1>2. CASE EnterMain(t)
  BY <1>2, EnterMainChunks
<1>3. CASE EnterAssist(t) \/ NextChunk(t)
  BY <1>3, ClaimChunks
<1>4. CASE RunChunk(t)
  BY <1>4, RunChunks
<1>5. CASE Signal(t)
  BY <1>5, HideChunks
<1>6. CASE FinishTask(t)
  BY <1>6, FinishChunks
<1>7. CASE CreateTask(t)
  BY <1>7, CreateChunks
<1>8. QED
  BY <1>1, <1>2, <1>3, <1>4, <1>5, <1>6, <1>7 DEF Step

(* The first task is queued, with all its chunks to be claimed.            *)
LEMMA ChunksInit ==
  ASSUME Init, NEW b \in Addrs
  PROVE  ChunksInv(b)
<1>1. PICK a \in Addrs : \E n \in Sizes :
        /\ ProtocolInit(a, KindOf(n))
        /\ work_size = [c \in Addrs |-> IF c = a THEN n ELSE Absent]
        /\ work_index = [c \in Addrs |-> InitialIndex % U32]
        /\ done = [c \in Addrs |-> {}]
        /\ chunk = [t \in Threads |-> 0]
  BY DEF Init
<1>2. PICK n \in Sizes :
        /\ ProtocolInit(a, KindOf(n))
        /\ work_size = [c \in Addrs |-> IF c = a THEN n ELSE Absent]
        /\ work_index = [c \in Addrs |-> InitialIndex % U32]
        /\ done = [c \in Addrs |-> {}]
        /\ chunk = [t \in Threads |-> 0]
  BY <1>1
<1>3. /\ kind[b] = IF b = a THEN KindOf(n) ELSE "free"
      /\ \A t \in Threads : pc[t] = "loop"
      /\ deque = [t \in Threads |-> IF t = 0 THEN <<a>> ELSE <<>>]
      /\ \A t \in Threads : activities[t] = NullPtr
  BY <1>2 DEF ProtocolInit
<1>4. n \in Nat /\ n + N <= U32 /\ U32 \in Nat /\ N \in Nat \ {0} /\ 0 \in Threads
  BY SizesAssumption, ProtocolAssumption DEF Threads
<1>5. Users(b) = {} /\ ~Published(b)
  BY <1>3, ProtocolAssumption DEF Users, Published, Working, NullPtr
<1>6. StartInv(b)
  BY <1>2, <1>3, <1>4, <1>5 DEF StartInv, Absent
<1>7. CASE kind[b] = "loop"
  <2>1. b = a /\ n # 0
    BY <1>3, <1>7 DEF KindOf
  <2>2. Fresh(b)
    <3>1. deque[0] = <<a>>
      BY <1>3, <1>4
    <3>2. 1 \in DOMAIN <<a>> /\ <<a>>[1] = a
      OBVIOUS
    <3>3. QED
      BY <1>4, <2>1, <3>1, <3>2 DEF Fresh, Queued
  <2>3. 1 % U32 = 1
    BY <1>4, <2>1
  <2>4. IndexInv(b)
    BY <1>2, <1>4, <2>1, <2>3 DEF IndexInv, InitialIndex
  <2>5. \A t \in Threads : \A c : ~Carries(t, b, c)
    BY <1>3 DEF Carries, Signalling
  <2>6. OwnerInv(b)
    BY <1>2, <1>5, <2>2, <2>5 DEF OwnerInv
  <2>7. HideInv(b)
    BY <1>5, <2>2 DEF HideInv
  <2>8. QED
    BY <1>6, <2>4, <2>6, <2>7 DEF ChunksInv
<1>8. QED
  BY <1>6, <1>7 DEF ChunksInv

(* The invariant of the scheduler holds throughout.                        *)
THEOREM SchedulerInvariant == Spec => []SchedulerInv
<1> DEFINE Chunks == \A a \in Addrs : ChunksInv(a)
<1>1. Init => Chunks
  BY ChunksInit
<1>2. ProtocolInv /\ TypeOK /\ Chunks /\ [Next]_vars => Chunks'
  <2>1. SUFFICES ASSUME ProtocolInv, TypeOK, Chunks, [Next]_vars, NEW a \in Addrs
                 PROVE  ChunksInv(a)'
    OBVIOUS
  <2>2. LoopTypeOK
    BY <2>1 DEF TypeOK, LoopTypeOK
  <2>3. CASE UNCHANGED vars
    <3>1. ChunksInv(a)
      BY <2>1
    <3>2. QED
      BY <2>3, <3>1
         DEF vars, protocolVars, shared, local, loopData, ChunksInv, StartInv, IndexInv, OwnerInv,
             HideInv, AllClaimed, Claimed, Claimers, Carries, Vain, Users, Published, Fresh, Queued
  <2>4. ASSUME NEW t \in Threads, Step(t)
        PROVE  ChunksInv(a)'
    BY <2>1, <2>2, <2>4, ChunksStep
  <2>5. QED
    BY <2>1, <2>3, <2>4 DEF Next
<1>3. ProtocolInv /\ TypeOK /\ Chunks => SchedulerInv
  BY DEF SchedulerInv
<1>4. Spec => []ProtocolInv
  BY ImplementsProtocol, ProtocolInvariant, PTL
<1> HIDE DEF Chunks
<1>5. QED
  BY <1>1, <1>2, <1>3, <1>4, TypeCorrect, PTL DEF Spec

(* Two threads never hold the same chunk of a task, nor one that was       *)
(* executed, although the index may have wrapped.                          *)
THEOREM ChunksHaveOneOwner == Spec => []ChunkOwnership
<1>1. SchedulerInv => ChunkOwnership
  <2>1. SUFFICES ASSUME SchedulerInv, NEW t \in Threads, Holding(t)
                 PROVE  /\ chunk[t] \notin done[task[t]]
                        /\ \A u \in Threads \ {t} :
                             Holding(u) /\ task[u] = task[t] => chunk[u] # chunk[t]
    BY DEF ChunkOwnership
  <2>2. ProtocolTypeOK /\ LoopTypeOK
    BY <2>1 DEF SchedulerInv, TypeOK, LoopTypeOK
  <2>3. task[t] \in Addrs /\ t \in Users(task[t])
    BY <2>1, <2>2 DEF Holding, Users, Working, ProtocolTypeOK
  <2>4. StartInv(task[t]) /\ kind[task[t]] = "loop" /\ OwnerInv(task[t])
    BY <2>1, <2>3 DEF SchedulerInv, ChunksInv, StartInv
  <2>5. chunk[t] \in 0 .. work_size[task[t]] - 1
    <3>1. chunk[t] \in Nat /\ work_size[task[t]] \in Nat
      BY <2>2, <2>3, <2>4, LoopNumbers DEF LoopTypeOK
    <3>2. QED
      BY <2>1, <3>1 DEF Holding
  <2>6. \A u \in Threads : Holding(u) /\ task[u] = task[t] => Carries(u, task[t], chunk[u])
    BY DEF Holding, Carries, Signalling
  <2>7. QED
    BY <2>1, <2>4, <2>5, <2>6 DEF OwnerInv
<1>2. QED
  BY <1>1, SchedulerInvariant, PTL

(* A task is hidden when no chunk is left to claim: then its index is past *)
(* the end and has not wrapped, for the thread that claimed the last chunk *)
(* may still claim.                                                        *)
THEOREM HidesWhenClaimed == Spec => HiddenOnlyWhenClaimed
<1>1. SchedulerInv /\ [Next]_vars =>
        \A s \in Threads :
          LET a == activities[s].ptr
          IN  a # Null /\ activities'[s].ptr # a => work_index[a] >= work_size[a]
  <2>1. SUFFICES ASSUME SchedulerInv, [Next]_vars, NEW s \in Threads, NEW a, a = activities[s].ptr,
                        a # Null, activities'[s].ptr # a
                 PROVE  work_index[a] >= work_size[a]
    OBVIOUS
  <2>2. activities' # activities
    BY <2>1
  <2>3. PICK t \in Threads : Step(t)
    BY <2>1, <2>2 DEF Next, vars, protocolVars, shared
  <2>4. ProtocolInv /\ ProtocolTypeOK /\ LoopTypeOK /\ \A b \in Addrs : ChunksInv(b)
    BY <2>1 DEF SchedulerInv, TypeOK, LoopTypeOK
  <2>5. ~(ProtocolStep(t) /\ UNCHANGED loopData)
    <3>1. SUFFICES ASSUME ProtocolStep(t) PROVE FALSE
      OBVIOUS
    <3>2. Quiet(t) \/ Joins(t) \/ Publishes(t) \/ Leaves(t)
      BY <2>4, <3>1, ProtocolStepEffect
    <3>3. ~SamePtrs
      BY <2>1 DEF SamePtrs
    <3>4. ~Publishes(t)
      BY <2>1, <2>4 DEF Publishes, ProtocolTypeOK
    <3>5. QED
      BY <3>2, <3>3, <3>4 DEF Quiet, Joins, Leaves
  <2>6. Signal(t)
    BY <2>2, <2>3, <2>5
       DEF Step, EnterMain, EnterAssist, RunChunk, NextChunk, FinishTask, FreeTask, CreateTask,
           SpawnTask, shared
  <2>7. Hides(t, Resume(t))
    BY <2>4, <2>6, HideEffect DEF Signal, Resume
  <2>8. task[t] = a /\ a \in Addrs /\ pc[t] \in Signalling /\ Published(a)
    BY <2>1, <2>7 DEF Hides, Signalling, Published
  <2>9. StartInv(a) /\ kind[a] = "loop" /\ t \in Users(a)
    BY <2>4, <2>8 DEF ChunksInv, StartInv, Users, Working, Signalling
  <2>10. IndexInv(a) /\ HideInv(a)
    BY <2>4, <2>8, <2>9 DEF ChunksInv
  <2>11. AllClaimed(a)
    BY <2>8, <2>9, <2>10 DEF HideInv
  <2>12. PICK u \in Threads : pc[u] \in {"enter", "signal", "cas"} /\ Carries(u, a, work_size[a] - 1)
    BY <2>8, <2>10, <2>11 DEF HideInv
  <2>13. work_size[a] \in Nat \ {0} /\ work_index[a] \in Nat
    BY <2>4, <2>8, <2>9, LoopNumbers
  <2>14. u \in Claimers(a)
    <3>1. u \in Users(a) /\ ~Vain(u)
      BY <2>12, <2>13 DEF Users, Carries, Vain, Working, Signalling
    <3>2. QED
      BY <3>1 DEF Claimers
  <2>15. work_index[a] # 0
    BY <2>10, <2>13, <2>14 DEF IndexInv
  <2>16. QED
    BY <2>11, <2>15 DEF AllClaimed
<1>2. QED
  BY <1>1, SchedulerInvariant, PTL DEF Spec, HiddenOnlyWhenClaimed

(* When finish runs, every chunk of the task has been executed.            *)
LEMMA FinishedIsDone ==
  ASSUME SchedulerInv, NEW t \in Threads, pc[t] = "finish"
  PROVE  /\ task[t] \in Addrs /\ work_size[task[t]] # Absent
         /\ done[task[t]] = 0 .. work_size[task[t]] - 1
<1> DEFINE a == task[t]
<1>1. ProtocolInv /\ LoopTypeOK
  BY DEF SchedulerInv, TypeOK, LoopTypeOK
<1>2. a \in Addrs /\ a # Null
  BY <1>1, TaskIsAddress, ProtocolAssumption DEF ProtocolInv
<1>3. ChunksInv(a) /\ StartInv(a)
  BY <1>2 DEF SchedulerInv, ChunksInv
<1>4. /\ kind[a] # "free" /\ ~Published(a)
      /\ \A u \in Threads \ {t} : task[u] # a
  BY <1>1, <1>2 DEF ProtocolInv, ExclusiveFinish
<1>5. work_size[a] # Absent /\ work_size[a] \in Nat
  BY <1>1, <1>2, <1>3, <1>4, SizesAssumption DEF StartInv, LoopTypeOK
<1>6. CASE kind[a] = "loop"
  <2>1. ~Fresh(a)
    BY <1>1, <1>2, UsedIsNotFresh
  <2>2. AllClaimed(a) /\ OwnerInv(a)
    BY <1>3, <1>4, <1>6, <2>1 DEF ChunksInv, HideInv
  <2>3. work_index[a] \in Nat
    BY <1>1, <1>2 DEF LoopTypeOK, ProtocolInv
  <2>4. Claimed(a) = 0 .. work_size[a] - 1
    BY <1>5, <2>2, <2>3 DEF Claimed, AllClaimed
  <2>5. \A u \in Threads : \A c : ~Carries(u, a, c)
    BY <1>4 DEF Carries, Signalling
  <2>6. QED
    BY <1>2, <1>5, <2>1, <2>2, <2>4, <2>5 DEF OwnerInv
<1>7. CASE kind[a] # "loop"
  <2>1. work_size[a] = 0 /\ done[a] = {}
    BY <1>3, <1>4, <1>5, <1>7 DEF StartInv, KindOf
  <2>2. QED
    BY <1>2, <1>5, <2>1
<1>8. QED
  BY <1>6, <1>7

(* A step of the scheduler is one of the pool, or none.                    *)
LEMMA StepIsPoolStep ==
  ASSUME SchedulerInv, NEW t \in Threads, Step(t)
  PROVE  Pool!Next \/ UNCHANGED <<work_size, done, is_finished>>
<1>1. ProtocolInv /\ ProtocolTypeOK /\ LoopTypeOK
  BY DEF SchedulerInv, TypeOK, LoopTypeOK
<1>2. CASE ProtocolStep(t) /\ UNCHANGED loopData
  <2>1. CASE CountDown(t)
    <3>1. pc[t] = "after" /\ is_finished' = (is_finished \/ pending = 1)
          /\ UNCHANGED <<work_size, done>>
      BY <1>2, <2>1 DEF CountDown, loopData
    <3>2. ~is_finished
      BY <1>1, <3>1, BusyIsNotStopped
    <3>3. CASE pending = 1
      <4>1. \A a \in Addrs : work_size[a] = Absent
        <5>1. \A a \in Addrs : kind[a] = "free"
          BY <1>1, <3>1, <3>3, LastIsFree
        <5>2. QED
          BY <5>1 DEF SchedulerInv, ChunksInv, StartInv, KindOf
      <4>2. Pool!Stop
        BY <3>1, <3>2, <3>3, <4>1 DEF Pool!Stop, Pool!Absent, Absent
      <4>3. QED
        BY <4>2 DEF Pool!Next
    <3>4. CASE pending # 1
      BY <1>1, <3>1, <3>2, <3>4 DEF ProtocolTypeOK
    <3>5. QED
      BY <3>3, <3>4
  <2>2. CASE ~CountDown(t)
    BY <1>2, <2>2
       DEF ProtocolStep, DoWork, PopTask, LookAround, StealTask, StealNothing, CheckActivity,
           JoinActivity, StartSingle, StartLoop, EndTask, shared, loopData
  <2>3. QED
    BY <2>1, <2>2
<1>3. CASE EnterMain(t) \/ EnterAssist(t) \/ NextChunk(t)
  BY <1>3 DEF EnterMain, EnterAssist, NextChunk, shared
<1>4. CASE RunChunk(t)
  <2> DEFINE a == task[t]
             c == chunk[t]
  <2>1. /\ a \in Addrs /\ pc[t] = "body" /\ t \in Users(a)
        /\ done' = [done EXCEPT ![a] = done[a] \cup {c}]
        /\ UNCHANGED <<work_size, is_finished>>
    BY <1>1, <1>4, TaskIsAddress DEF ProtocolInv, RunChunk, Users, Working, shared
  <2>2. StartInv(a) /\ kind[a] = "loop" /\ OwnerInv(a)
    BY <2>1 DEF SchedulerInv, ChunksInv, StartInv
  <2>3. c < work_size[a] /\ c \in Nat /\ work_size[a] \in Nat
    BY <1>1, <2>1, <2>2, LoopNumbers DEF OwnerInv, LoopTypeOK
  <2>4. c \in 0 .. work_size[a] - 1
    BY <2>3
  <2>5. Carries(t, a, c)
    BY <2>1 DEF Carries
  <2>6. c \notin done[a]
    BY <2>2, <2>4, <2>5 DEF OwnerInv
  <2>7. Pool!RunChunk(a, c)
    BY <2>1, <2>4, <2>6 DEF Pool!RunChunk
  <2>8. QED
    BY <2>1, <2>4, <2>7 DEF Pool!Next
<1>5. CASE Signal(t)
  <2>1. Hides(t, Resume(t))
    BY <1>1, <1>5, HideEffect DEF Signal, Resume
  <2>2. QED
    BY <1>5, <2>1 DEF Hides, Signal, loopData
<1>6. CASE FinishTask(t)
  <2>1. /\ pc[t] = "finish"
        /\ work_size' = [work_size EXCEPT ![task[t]] = Absent]
        /\ done' = [done EXCEPT ![task[t]] = {}]
        /\ UNCHANGED is_finished
    BY <1>6 DEF FinishTask, FreeTask
  <2>2. Pool!Finish(task[t])
    BY <2>1, FinishedIsDone DEF Pool!Finish, Pool!Absent, Absent
  <2>3. QED
    BY <2>1, <2>2, FinishedIsDone DEF Pool!Next
<1>7. CASE CreateTask(t)
  <2>1. PICK a \in Addrs : \E n \in Sizes :
          SpawnTask(t, a, KindOf(n)) /\ work_size' = [work_size EXCEPT ![a] = n]
    BY <1>7 DEF CreateTask
  <2>2. PICK n \in Sizes :
          SpawnTask(t, a, KindOf(n)) /\ work_size' = [work_size EXCEPT ![a] = n]
    BY <2>1
  <2>3. pc[t] \in {"body", "after"} /\ kind[a] = "free" /\ UNCHANGED <<is_finished, done>>
    BY <1>7, <2>2 DEF CreateTask, SpawnTask
  <2>4. work_size[a] = Absent
    BY <2>3 DEF SchedulerInv, ChunksInv, StartInv, KindOf
  <2>5. Pool!Create(a, n)
    BY <1>1, <2>2, <2>3, <2>4, BusyIsNotStopped DEF Pool!Create, Pool!Absent, Absent
  <2>6. QED
    BY <2>5 DEF Pool!Next
<1>8. QED
  BY <1>2, <1>3, <1>4, <1>5, <1>6, <1>7 DEF Step

(* The scheduler implements the pool it stands for: every chunk of a task  *)
(* is executed once, its finish runs once and after all of them, and the   *)
(* pool stops when no task is left.                                        *)
THEOREM ImplementsTaskPool == Spec => ImplementsPool
<1>1. Init => Pool!Init
  <2>1. SUFFICES ASSUME Init PROVE Pool!Init
    OBVIOUS
  <2>2. PICK a \in Addrs : \E n \in Sizes :
          /\ ProtocolInit(a, KindOf(n))
          /\ work_size = [b \in Addrs |-> IF b = a THEN n ELSE Absent]
          /\ done = [b \in Addrs |-> {}]
    BY <2>1 DEF Init
  <2>3. QED
    BY <2>2 DEF Pool!Init, Pool!Absent, Absent, ProtocolInit
<1>2. SchedulerInv /\ [Next]_vars => [Pool!Next]_(Pool!vars)
  <2>1. SUFFICES ASSUME SchedulerInv, [Next]_vars
                 PROVE  Pool!Next \/ UNCHANGED <<work_size, done, is_finished>>
    BY DEF Pool!vars
  <2>2. CASE UNCHANGED vars
    BY <2>2 DEF vars, protocolVars, shared, loopData
  <2>3. ASSUME NEW t \in Threads, Step(t)
        PROVE  Pool!Next \/ UNCHANGED <<work_size, done, is_finished>>
    BY <2>1, <2>3, StepIsPoolStep
  <2>4. QED
    BY <2>1, <2>2, <2>3 DEF Next
<1>3. QED
  BY <1>1, <1>2, SchedulerInvariant, PTL DEF Spec, ImplementsPool, Pool!Spec

-----------------------------------------------------------------------------
(* What the history says of the tasks that exist.                          *)
HistoryInv == IdentityInv(WorkOf) /\ EndedInv

(* Only finish functions and the creation of tasks change what a task is.  *)
LEMMA TasksKept ==
  ASSUME NEW t \in Threads, Step(t), ~FinishTask(t), ~CreateTask(t)
  PROVE  kind' = kind /\ work_size' = work_size /\ created' = created
<1>1. CASE ProtocolStep(t) /\ UNCHANGED loopData
  BY <1>1
     DEF ProtocolStep, DoWork, PopTask, LookAround, StealTask, StealNothing, CheckActivity,
         JoinActivity, StartSingle, StartLoop, EndTask, CountDown, shared, loopData
<1>2. CASE Signal(t)
  BY <1>2
     DEF Signal, TaskEmpty, SwapSlot, LoadSlot, CompareExchange, AddReferences, shared, loopData
<1>3. QED
  BY <1>1, <1>2 DEF Step, EnterMain, EnterAssist, RunChunk, NextChunk, shared

(* finish_task frees the task of the thread and leaves the others alone.   *)
LEMMA FinishFrees ==
  ASSUME ProtocolInv, LoopTypeOK, NEW t \in Threads, FinishTask(t)
  PROVE  /\ Frees(t) /\ created' = created
         /\ work_index' = work_index /\ chunk' = chunk
         /\ \A a \in Addrs : a # task[t] => work_size'[a] = work_size[a]
<1>1. FreeTask(t)
  BY DEF FinishTask
<1>2. QED
  BY <1>1, FreeEffect DEF FinishTask, FreeTask, LoopTypeOK

(* Creates(t, b, n): the thread creates a task of n chunks at b.           *)
Creates(t, b, n) ==
  /\ Spawns(t, b, KindOf(n))
  /\ created' = created + 1 /\ created < MaxTasks /\ pending' = pending + 1
  /\ work_size' = [work_size EXCEPT ![b] = n]
  /\ \A a \in Addrs : a # b => work_size'[a] = work_size[a] /\ work_index'[a] = work_index[a]
  /\ work_size'[b] = n
  /\ chunk' = chunk

(* A task that is created has a size of the program's, at a free address.  *)
LEMMA CreateSpawns ==
  ASSUME ProtocolInv, LoopTypeOK, NEW t \in Threads, CreateTask(t)
  PROVE  \E b \in Addrs, n \in Sizes : Creates(t, b, n)
<1>1. PICK b \in Addrs, n \in Sizes :
        /\ SpawnTask(t, b, KindOf(n))
        /\ work_size' = [work_size EXCEPT ![b] = n]
        /\ work_index' = [work_index EXCEPT ![b] = InitialIndex % U32]
        /\ UNCHANGED <<done, chunk>>
  BY DEF CreateTask
<1>2. Spawns(t, b, KindOf(n))
  BY <1>1, SpawnEffect
<1>3. created' = created + 1 /\ created < MaxTasks /\ pending' = pending + 1
  BY <1>1 DEF SpawnTask, Counted
<1>4. \A a \in Addrs : a # b => work_size'[a] = work_size[a] /\ work_index'[a] = work_index[a]
  BY <1>1 DEF LoopTypeOK
<1>5. work_size'[b] = n
  BY <1>1 DEF LoopTypeOK
<1>6. QED
  BY <1>1, <1>2, <1>3, <1>4, <1>5 DEF Creates

(* A step keeps what the history says of the tasks.                        *)
LEMMA HistoryInvStep ==
  ASSUME SchedulerInv, SchedulerInv', HistoryInv, NEW t \in Threads, Step(t), HistoryNext(WorkOf')
  PROVE  HistoryInv'
<1>1. PICK v : v = WorkOf
  OBVIOUS
<1>2. PICK w : w = WorkOf'
  OBVIOUS
<1>3. /\ ProtocolInv /\ ProtocolInv' /\ ProtocolTypeOK /\ LoopTypeOK
      /\ IdentityInv(v) /\ EndedInv /\ HistoryNext(w) /\ ThreadStep(t)
  BY <1>1, <1>2, StepIsThreadStep DEF SchedulerInv, TypeOK, LoopTypeOK, HistoryInv
<1>4. EndedInv'
  BY <1>3, EndedStep
<1> DEFINE S == {a \in Addrs : kind[a] = "free" /\ kind'[a] # "free"}
<1>5. /\ \A a \in Addrs : kind[a] # "free" /\ kind'[a] # "free" => w[a] = v[a]
      /\ \/ S = {} /\ created' = created
         \/ created' = created + 1 /\ \A a, b \in S : a = b
  <2>1. \A a \in Addrs : v[a] = <<kind[a], work_size[a]>> /\ w[a] = <<kind'[a], work_size'[a]>>
    BY <1>1, <1>2 DEF WorkOf
  <2>2. CASE FinishTask(t)
    <3>1. Frees(t) /\ created' = created
          /\ \A a \in Addrs : a # task[t] => work_size'[a] = work_size[a]
      BY <1>3, <2>2, FinishFrees
    <3>2. \A a \in Addrs : kind'[a] = IF a = task[t] THEN "free" ELSE kind[a]
      BY <1>3, <3>1 DEF Frees, ProtocolTypeOK
    <3>3. S = {}
      BY <3>2
    <3>4. QED
      BY <2>1, <3>1, <3>2, <3>3
  <2>3. CASE CreateTask(t)
    <3>1. PICK b \in Addrs, n \in Sizes : Creates(t, b, n)
      BY <1>3, <2>3, CreateSpawns
    <3>2. QED
      BY <1>3, <2>1, <3>1 DEF Creates, Spawns, ProtocolTypeOK
  <2>4. CASE ~FinishTask(t) /\ ~CreateTask(t)
    BY <2>1, <2>4, TasksKept
  <2>5. QED
    BY <2>2, <2>3, <2>4
<1>6. IdentityInv(w)'
  <2> HIDE <1>2
  <2>1. \A a \in Addrs : kind[a] # "free" /\ kind'[a] # "free" => w[a] = v[a]
    BY <1>5
  <2>2. S \in SUBSET Addrs
    OBVIOUS
  <2>3. \/ S = {} /\ created' = created
        \/ created' = created + 1 /\ \A a, b \in S : a = b
    BY <1>5
  <2> HIDE DEF S
  <2>4. S = {a \in Addrs : kind[a] = "free" /\ kind'[a] # "free"}
    BY DEF S
  <2>5. QED
    BY <1>3, <2>1, <2>2, <2>3, <2>4, IdentityStep
<1>7. IdentityInv(WorkOf)'
  BY <1>2, <1>6 DEF IdentityInv
<1>8. QED
  BY <1>4, <1>7 DEF HistoryInv

-----------------------------------------------------------------------------
(* The task at an address, as AssistClient knows it.                       *)
TaskFacts ==
  /\ \A a \in Addrs : kind[a] # "free" =>
       /\ identity[a] \in Client!Tasks /\ identity[a] \notin retired
       /\ identity[a] # Client!NoTask
       /\ identity[a][2] = <<kind[a], work_size[a]>>
       /\ \A b \in Addrs : identity[b] = identity[a] => b = a
  /\ \A a \in Started : kind[a] # "free" /\ a \in Addrs /\ ClaimedBar[identity[a]] = Claimed(a)
  /\ \A i \in Client!Tasks : i \in retired => ClaimedBar[i] = 0 .. i[2][2] - 1
  /\ \A i \in Client!Tasks \ retired :
       (\A a \in Started : identity[a] # i) => ClaimedBar[i] = {}

(* The tasks at the addresses are tasks of AssistClient, by the history.   *)
LEMMA InvImpliesTaskFacts == SchedulerInv /\ HistoryInv => TaskFacts
<1>1. SUFFICES ASSUME SchedulerInv, HistoryInv PROVE TaskFacts
  OBVIOUS
<1>2. LoopTypeOK /\ created \in 1 .. MaxTasks /\ IdentityInv(WorkOf)
  BY <1>1 DEF SchedulerInv, TypeOK, LoopTypeOK, ProtocolTypeOK, HistoryInv
<1>3. \A a \in Addrs : kind[a] # "free" =>
       /\ identity[a] \in Client!Tasks /\ identity[a] \notin retired
       /\ identity[a] # Client!NoTask
       /\ identity[a][2] = <<kind[a], work_size[a]>>
       /\ \A b \in Addrs : identity[b] = identity[a] => b = a
  <2>1. SUFFICES ASSUME NEW a \in Addrs, kind[a] # "free"
                 PROVE  /\ identity[a] \in Client!Tasks /\ identity[a] \notin retired
                        /\ identity[a] # Client!NoTask
                        /\ identity[a][2] = <<kind[a], work_size[a]>>
                        /\ \A b \in Addrs : identity[b] = identity[a] => b = a
    OBVIOUS
  <2>2. WorkOf[a] = <<kind[a], work_size[a]>>
    BY DEF WorkOf
  <2>3. identity[a] = <<identity[a][1], <<kind[a], work_size[a]>>>>
    BY <1>2, <2>1, <2>2 DEF IdentityInv
  <2>4. identity[a][1] \in 1 .. MaxTasks
    BY <1>2, <2>1, ProtocolAssumption DEF IdentityInv
  <2>5. work_size[a] \in Sizes /\ kind[a] = KindOf(work_size[a])
    BY <1>1, <1>2, <2>1 DEF SchedulerInv, ChunksInv, StartInv, LoopTypeOK
  <2>6. <<kind[a], work_size[a]>> \in Works
    BY <2>5 DEF Works
  <2>7. identity[a] \in Client!Tasks
    <3>1. <<identity[a][1], <<kind[a], work_size[a]>>>> \in (1 .. MaxTasks) \X Works
      BY <2>4, <2>6
    <3>2. QED
      BY <2>3, <3>1 DEF Client!Tasks
  <2>8. identity[a] \notin retired
    BY <1>2 DEF IdentityInv
  <2>9. \A b \in Addrs : identity[b] = identity[a] => b = a
    BY <1>2, <2>1 DEF IdentityInv
  <2>10. identity[a] # Client!NoTask
    <3>1. Client!NoTask[1] = 0
      BY DEF Client!NoTask
    <3>2. QED
      BY <2>4, <3>1
  <2>11. QED
    BY <2>3, <2>7, <2>8, <2>9, <2>10
<1>4. \A i \in Client!Tasks : ClaimedBar[i] =
        IF i \in retired THEN 0 .. i[2][2] - 1
        ELSE UNION {Claimed(a) : a \in {b \in Started : identity[b] = i}}
  BY DEF ClaimedBar, ClaimedOf, Client!Tasks
<1>5. ASSUME NEW a \in Started
      PROVE  kind[a] # "free" /\ a \in Addrs /\ ClaimedBar[identity[a]] = Claimed(a)
  <2>1. a \in Addrs /\ kind[a] # "free" /\ Started \subseteq Addrs
    BY <1>5 DEF Started
  <2>2. {b \in Started : identity[b] = identity[a]} = {a}
    BY <1>3, <1>5, <2>1
  <2>3. ClaimedBar[identity[a]]
          = UNION {Claimed(b) : b \in {c \in Started : identity[c] = identity[a]}}
    BY <1>3, <1>4, <2>1
  <2>4. QED
    BY <2>1, <2>2, <2>3
<1>6. ASSUME NEW i \in Client!Tasks \ retired, \A a \in Started : identity[a] # i
      PROVE  ClaimedBar[i] = {}
  <2>1. {b \in Started : identity[b] = i} = {}
    BY <1>6
  <2>2. QED
    BY <1>4, <2>1
<1>7. QED
  BY <1>3, <1>4, <1>5, <1>6 DEF TaskFacts

(* When no claim, start or end of a task changes what is claimed of it,    *)
(* nothing changes for the client.                                         *)
LEMMA ClaimedKept ==
  ASSUME TaskFacts, TaskFacts', retired' = retired, Started' = Started,
         \A a \in Started : identity'[a] = identity[a] /\ Claimed(a)' = Claimed(a)
  PROVE  ClaimedBar' = ClaimedBar
<1>1. ClaimedBar = [i \in Client!Tasks |-> ClaimedBar[i]]
      /\ ClaimedBar' = [i \in Client!Tasks |-> ClaimedBar'[i]]
  BY DEF ClaimedBar, Client!Tasks
<1>2. ASSUME NEW i \in Client!Tasks PROVE ClaimedBar'[i] = ClaimedBar[i]
  <2>1. CASE i \in retired
    BY <2>1 DEF TaskFacts
  <2>2. CASE \E a \in Started : identity[a] = i
    BY <2>2 DEF TaskFacts
  <2>3. CASE i \notin retired /\ \A a \in Started : identity[a] # i
    BY <2>3 DEF TaskFacts
  <2>4. QED
    BY <2>1, <2>2, <2>3
<1>3. QED
  BY <1>1, <1>2

(* Chunks are claimed of the task at b, and of no other.                   *)
LEMMA ClaimedOnce ==
  ASSUME TaskFacts, TaskFacts', retired' = retired, NEW b \in Addrs, kind[b] # "free",
         Started' = Started \cup {b}, identity' = identity,
         \A a \in Started \ {b} : Claimed(a)' = Claimed(a)
  PROVE  ClaimedBar' = [ClaimedBar EXCEPT ![identity[b]] = Claimed(b)']
<1>1. ClaimedBar = [i \in Client!Tasks |-> ClaimedBar[i]]
      /\ ClaimedBar' = [i \in Client!Tasks |-> ClaimedBar'[i]]
  BY DEF ClaimedBar, Client!Tasks
<1>2. identity[b] \in Client!Tasks /\ ClaimedBar'[identity[b]] = Claimed(b)'
  BY DEF TaskFacts
<1>3. ASSUME NEW i \in Client!Tasks, i # identity[b] PROVE ClaimedBar'[i] = ClaimedBar[i]
  <2>1. CASE i \in retired
    BY <2>1 DEF TaskFacts
  <2>2. CASE \E a \in Started : identity[a] = i
    BY <1>3, <2>2 DEF TaskFacts
  <2>3. CASE i \notin retired /\ \A a \in Started : identity[a] # i
    BY <1>3, <2>3 DEF TaskFacts
  <2>4. QED
    BY <2>1, <2>2, <2>3
<1>4. QED
  BY <1>1, <1>2, <1>3

(* The task at b is freed after its chunks were claimed.                   *)
LEMMA ClaimedRetired ==
  ASSUME TaskFacts, TaskFacts', NEW b \in Started, retired' = retired \cup {identity[b]},
         Started' = Started \ {b},
         \A a \in Started' : identity'[a] = identity[a] /\ Claimed(a)' = Claimed(a),
         Claimed(b) = 0 .. work_size[b] - 1
  PROVE  ClaimedBar' = ClaimedBar
<1>1. ClaimedBar = [i \in Client!Tasks |-> ClaimedBar[i]]
      /\ ClaimedBar' = [i \in Client!Tasks |-> ClaimedBar'[i]]
  BY DEF ClaimedBar, Client!Tasks
<1>2. kind[b] # "free" /\ b \in Addrs /\ ClaimedBar[identity[b]] = Claimed(b)
  BY DEF TaskFacts
<1>3. identity[b] \in Client!Tasks /\ identity[b][2] = <<kind[b], work_size[b]>>
  BY <1>2 DEF TaskFacts
<1>4. ClaimedBar'[identity[b]] = 0 .. work_size[b] - 1
  <2>1. ClaimedBar'[identity[b]] = 0 .. identity[b][2][2] - 1
    BY <1>3 DEF TaskFacts
  <2>2. QED
    BY <1>3, <2>1
<1>5. ASSUME NEW i \in Client!Tasks, i # identity[b] PROVE ClaimedBar'[i] = ClaimedBar[i]
  <2>1. CASE i \in retired
    BY <2>1 DEF TaskFacts
  <2>2. CASE \E a \in Started' : identity[a] = i
    BY <1>5, <2>2 DEF TaskFacts
  <2>3. CASE i \notin retired /\ \A a \in Started' : identity[a] # i
    <3>1. i \notin retired' /\ \A a \in Started : identity[a] # i
      BY <1>5, <2>3
    <3>2. \A a \in Started' : identity'[a] # i
      BY <2>3
    <3>3. ClaimedBar[i] = {}
      BY <2>3, <3>1 DEF TaskFacts
    <3>4. ClaimedBar'[i] = {}
      BY <3>1, <3>2 DEF TaskFacts
    <3>5. QED
      BY <3>3, <3>4
  <2>4. QED
    BY <2>1, <2>2, <2>3
<1>6. QED
  BY <1>1, <1>2, <1>4, <1>5

-----------------------------------------------------------------------------
(* Where a thread is for AssistClient.                                     *)
LabelOK(t) ==
  /\ PcBar[t] = LabelOf(t) /\ TaskBar[t] = TaskOf(t) /\ ChunkBar[t] = ChunkOf(t)
  /\ pc[t] \in {"loop", "pop", "steal", "check", "join", "start"} => LabelOf(t) = "idle"
  /\ pc[t] = "enter" => LabelOf(t) = IF state[t] = "Main" THEN "run" ELSE "claim"
  /\ pc[t] = "body" => LabelOf(t) = "run"
  /\ pc[t] = "next" => LabelOf(t) = "claim"
  /\ pc[t] \in Signalling =>
       LabelOf(t) = IF chunk[t] < work_size[task[t]] THEN "run" ELSE "claim"
  /\ pc[t] = "end" => LabelOf(t) = "leave"
  /\ pc[t] \in {"finish", "after", "returned"} => LabelOf(t) = pc[t]
  /\ LabelOf(t) # "run" => ChunkOf(t) = -1
  /\ LabelOf(t) = "run" => ChunkOf(t) = IF pc[t] = "enter" THEN 0 ELSE chunk[t]

(* Every thread is where LabelOK says.                                     *)
LabelFacts == \A t \in Threads : LabelOK(t)

(* LabelOK follows from the definitions of the labels.                     *)
LEMMA LabelsHold == LabelFacts
<1>1. SUFFICES ASSUME NEW t \in Threads PROVE LabelOK(t)
  BY DEF LabelFacts
<1>2. PcBar[t] = LabelOf(t) /\ TaskBar[t] = TaskOf(t) /\ ChunkBar[t] = ChunkOf(t)
  BY DEF PcBar, TaskBar, ChunkBar
<1>3. /\ pc[t] \in {"loop", "pop", "steal", "check", "join", "start"} => LabelOf(t) = "idle"
      /\ pc[t] = "enter" => LabelOf(t) = IF state[t] = "Main" THEN "run" ELSE "claim"
      /\ pc[t] = "body" => LabelOf(t) = "run"
      /\ pc[t] = "next" => LabelOf(t) = "claim"
      /\ pc[t] = "end" => LabelOf(t) = "leave"
      /\ pc[t] \in {"finish", "after", "returned"} => LabelOf(t) = pc[t]
  BY DEF LabelOf, LabelOutside
<1>4. pc[t] \in Signalling =>
        LabelOf(t) = IF chunk[t] < work_size[task[t]] THEN "run" ELSE "claim"
  BY DEF LabelOf, LabelOutside, Signalling
<1>5. /\ LabelOf(t) # "run" => ChunkOf(t) = -1
      /\ LabelOf(t) = "run" => ChunkOf(t) = IF pc[t] = "enter" THEN 0 ELSE chunk[t]
  BY DEF ChunkOf
<1>6. QED
  BY <1>2, <1>3, <1>4, <1>5 DEF LabelOK

(* What every step starts from, and leads to.                              *)
Setting(t) ==
  /\ SchedulerInv /\ SchedulerInv' /\ TaskFacts /\ TaskFacts' /\ HistoryInv
  /\ Step(t) /\ HistoryNext(WorkOf')

(* What the lemmas on the protocol and its history need.                   *)
LEMMA SettingFacts ==
  ASSUME NEW t \in Threads, Setting(t)
  PROVE  /\ ProtocolInv /\ ProtocolTypeOK /\ LoopTypeOK /\ ProtocolInv' /\ LoopTypeOK'
         /\ ThreadStep(t) /\ EndedInv /\ LabelFacts /\ LabelFacts'
         /\ \A a \in Addrs : ChunksInv(a) /\ ChunksInv(a)'
         /\ \E v, w : /\ IdentityInv(v) /\ HistoryNext(w)
                      /\ \A a \in Addrs : w[a] = <<kind'[a], work_size'[a]>>
<1>1. /\ ProtocolInv /\ ProtocolTypeOK /\ LoopTypeOK /\ ProtocolInv' /\ LoopTypeOK'
      /\ ThreadStep(t) /\ EndedInv
      /\ \A a \in Addrs : ChunksInv(a) /\ ChunksInv(a)'
  BY StepIsThreadStep DEF Setting, SchedulerInv, TypeOK, LoopTypeOK, HistoryInv
<1>2. LabelFacts /\ LabelFacts'
  BY LabelsHold, PTL
<1>3. IdentityInv(WorkOf) /\ HistoryNext(WorkOf')
  BY DEF Setting, HistoryInv
<1>4. \A a \in Addrs : WorkOf'[a] = <<kind'[a], work_size'[a]>>
  BY DEF WorkOf
<1>5. QED
  BY <1>1, <1>2, <1>3, <1>4

(* The other threads stay where they are.                                  *)
LEMMA ThreadBars ==
  ASSUME NEW t \in Threads, Setting(t),
         \A a \in Addrs : kind[a] # "free" /\ kind'[a] # "free" =>
           identity'[a] = identity[a] /\ work_size'[a] = work_size[a]
  PROVE  /\ PcBar' = [PcBar EXCEPT ![t] = LabelOf(t)']
         /\ TaskBar' = [TaskBar EXCEPT ![t] = TaskOf(t)']
         /\ ChunkBar' = [ChunkBar EXCEPT ![t] = ChunkOf(t)']
         /\ \A u \in Threads \ {t} : TaskOf(u)' = TaskOf(u)
<1>1. ASSUME NEW u \in Threads \ {t}
      PROVE  LabelOf(u)' = LabelOf(u) /\ TaskOf(u)' = TaskOf(u) /\ ChunkOf(u)' = ChunkOf(u)
  <2>1. /\ pc'[u] = pc[u] /\ task'[u] = task[u] /\ state'[u] = state[u] /\ chunk'[u] = chunk[u]
    BY SettingFacts, OwnChunk DEF Setting
  <2>2. task[u] # Null => /\ task[u] \in Addrs
                          /\ work_size'[task[u]] = work_size[task[u]]
                          /\ identity'[task[u]] = identity[task[u]]
    <3>1. task[u] # Null => task[u] \in Addrs
      BY SettingFacts DEF ProtocolTypeOK
    <3>2. task[u] # Null => kind[task[u]] # "free" /\ kind'[task'[u]] # "free"
      BY SettingFacts, <2>1 DEF ProtocolInv, ExclusiveFinish
    <3>3. QED
      BY <2>1, <3>1, <3>2
  <2>3. TaskOf(u)' = TaskOf(u)
    BY <2>1, <2>2 DEF TaskOf
  <2>4. LabelOf(u)' = LabelOf(u)
    <3>1. CASE pc[u] \in Signalling
      <4>1. task[u] # Null
        BY SettingFacts, <3>1 DEF ProtocolInv, ThreadInv, Signalling, Working
      <4>2. QED
        BY SettingFacts, <2>1, <2>2, <3>1, <4>1 DEF LabelFacts, LabelOK
    <3>2. CASE pc[u] \notin Signalling
      BY <2>1, <3>2 DEF LabelOf, LabelOutside, Signalling
    <3>3. QED
      BY <3>1, <3>2
  <2>5. ChunkOf(u)' = ChunkOf(u)
    BY <2>1, <2>4 DEF ChunkOf
  <2>6. QED
    BY <2>3, <2>4, <2>5
<1>2. QED
  BY <1>1 DEF PcBar, TaskBar, ChunkBar

(* A thread at work has a loop that is started.                            *)
LEMMA WorkerFacts ==
  ASSUME NEW t \in Threads, Setting(t), pc[t] \in Working
  PROVE  /\ task[t] \in Addrs /\ task[t] # Null /\ kind[task[t]] = "loop"
         /\ t \in Users(task[t]) /\ task[t] \in Started
         /\ StartInv(task[t]) /\ IndexInv(task[t]) /\ OwnerInv(task[t]) /\ HideInv(task[t])
         /\ work_size[task[t]] \in Nat \ {0} /\ work_index[task[t]] \in Nat
         /\ chunk[t] \in Nat
         /\ TaskOf(t) = identity[task[t]] /\ identity[task[t]][2] = <<"loop", work_size[task[t]]>>
         /\ identity[task[t]] \in Client!Tasks
         /\ ClaimedBar[identity[task[t]]] = Claimed(task[t])
<1>1. task[t] \in Addrs /\ task[t] # Null /\ t \in Users(task[t])
  BY SettingFacts, TaskIsAddress, ProtocolAssumption DEF ProtocolInv, Users
<1>2. StartInv(task[t]) /\ kind[task[t]] = "loop"
  BY SettingFacts, <1>1 DEF ChunksInv, StartInv
<1>3. IndexInv(task[t]) /\ OwnerInv(task[t]) /\ HideInv(task[t])
  BY SettingFacts, <1>1, <1>2 DEF ChunksInv
<1>4. work_size[task[t]] \in Nat \ {0} /\ work_index[task[t]] \in Nat /\ chunk[t] \in Nat
  BY SettingFacts, <1>1, <1>2, LoopNumbers DEF LoopTypeOK
<1>5. pc[t] # "start"
  BY DEF Working
<1>6. ~Fresh(task[t])
  BY SettingFacts, <1>1, <1>5, UsedIsNotFresh
<1>7. task[t] \in Started
  BY <1>1, <1>2, <1>6 DEF Started
<1>8. TaskOf(t) = identity[task[t]]
  BY <1>1, <1>5 DEF TaskOf
<1>9. /\ identity[task[t]][2] = <<"loop", work_size[task[t]]>>
      /\ identity[task[t]] \in Client!Tasks
      /\ ClaimedBar[identity[task[t]]] = Claimed(task[t])
  BY <1>1, <1>2, <1>7 DEF Setting, TaskFacts
<1>10. QED
  BY <1>1, <1>2, <1>3, <1>4, <1>7, <1>8, <1>9

(* The chunks claimed of a task are known from its index and its size.     *)
LEMMA SameClaims ==
  ASSUME NEW a, work_size'[a] = work_size[a], work_index'[a] = work_index[a]
  PROVE  Claimed(a)' = Claimed(a)
BY DEF Claimed

(* A step on no task, or in a chunk, may change nothing but its thread.    *)
LEMMA UnseenBars ==
  ASSUME NEW t \in Threads, Setting(t), kind' = kind, work_size' = work_size,
         \A a \in Addrs : Fresh(a)' <=> Fresh(a), pc'[t] = "end" => pc[t] = "end",
         \A a \in Started : Claimed(a)' = Claimed(a)
  PROVE  /\ queued' = queued /\ open' = open /\ ClaimedBar' = ClaimedBar /\ identity' = identity
         /\ PcBar' = [PcBar EXCEPT ![t] = LabelOf(t)']
         /\ TaskBar' = [TaskBar EXCEPT ![t] = TaskOf(t)']
         /\ ChunkBar' = [ChunkBar EXCEPT ![t] = ChunkOf(t)']
         /\ \A u \in Threads \ {t} : TaskOf(u)' = TaskOf(u)
<1>1. PICK v, w : IdentityInv(v) /\ HistoryNext(w)
  BY SettingFacts
<1>2. /\ identity' = identity /\ retired' = retired /\ Started' = Started
      /\ queued' = queued /\ open' = open
  BY SettingFacts, <1>1, UnseenEffect
<1>3. ClaimedBar' = ClaimedBar
  BY <1>2, ClaimedKept DEF Setting
<1>4. QED
  BY <1>2, <1>3, ThreadBars

(* A step that changes nothing of its thread either is a stutter.          *)
LEMMA Unseen ==
  ASSUME NEW t \in Threads, Setting(t), kind' = kind, work_size' = work_size,
         \A a \in Addrs : Fresh(a)' <=> Fresh(a), pc'[t] = "end" => pc[t] = "end",
         \A a \in Started : Claimed(a)' = Claimed(a),
         LabelOf(t)' = LabelOf(t), TaskOf(t)' = TaskOf(t), ChunkOf(t)' = ChunkOf(t),
         UNCHANGED <<pending, created, is_finished>>
  PROVE  UNCHANGED Client!vars
<1>1. UNCHANGED <<queued, open, ClaimedBar>>
      /\ PcBar' = [PcBar EXCEPT ![t] = LabelOf(t)']
      /\ TaskBar' = [TaskBar EXCEPT ![t] = TaskOf(t)']
      /\ ChunkBar' = [ChunkBar EXCEPT ![t] = ChunkOf(t)']
  BY UnseenBars
<1>2. UNCHANGED <<PcBar, TaskBar, ChunkBar>>
  BY <1>1 DEF PcBar, TaskBar, ChunkBar
<1>3. QED
  BY <1>1, <1>2 DEF Client!vars, Client!counts

-----------------------------------------------------------------------------
(* The steps of a thread outside its chunk loop.                           *)

ClientMoves(t) == Client!Step(t) \/ UNCHANGED Client!vars

(* Only a step from or to the start of a task enters or creates one.       *)
LEMMA FreshStays ==
  ASSUME NEW t \in Threads, Setting(t), deque' = deque, pc[t] # "start", pc'[t] # "start"
  PROVE  \A a \in Addrs : Fresh(a)' <=> Fresh(a)
BY SettingFacts, FreshKept

(* A step of the protocol claims nothing.                                  *)
LEMMA ClaimsStay ==
  ASSUME UNCHANGED loopData
  PROVE  work_size' = work_size /\ chunk' = chunk /\ \A a \in Started : Claimed(a)' = Claimed(a)
BY SameClaims DEF loopData

(* A thread returns when the pool is finished, or looks for work.          *)
LEMMA ReturnMove ==
  ASSUME NEW t \in Threads, Setting(t), DoWork(t), UNCHANGED loopData
  PROVE  ClientMoves(t)
<1>1. /\ pc[t] = "loop"
      /\ is_finished => pc'[t] = "returned"
      /\ ~is_finished => pc'[t] = "pop"
      /\ pc'[t] # "end" /\ pc'[t] # "start"
      /\ UNCHANGED <<is_finished, deque, kind, pending, created, task>>
  BY SettingFacts DEF DoWork, Goto, shared, ProtocolTypeOK
<1>2. work_size' = work_size /\ \A a \in Started : Claimed(a)' = Claimed(a)
  BY ClaimsStay
<1>3. \A a \in Addrs : Fresh(a)' <=> Fresh(a)
  BY <1>1, FreshStays
<1>4. /\ LabelOf(t) = "idle"
      /\ is_finished => LabelOf(t)' = "returned"
      /\ ~is_finished => LabelOf(t)' = "idle"
      /\ ChunkOf(t) = -1 /\ ChunkOf(t)' = -1
  BY SettingFacts, <1>1 DEF LabelFacts, LabelOK
<1>5. TaskOf(t) = NoIdentity /\ TaskOf(t)' = NoIdentity
  <2>1. task[t] = Null
    BY SettingFacts, <1>1 DEF ProtocolInv, ThreadInv, Working
  <2>2. QED
    BY <1>1, <2>1 DEF TaskOf
<1>6. CASE is_finished
  <2>1. /\ UNCHANGED <<queued, open, ClaimedBar>>
        /\ PcBar' = [PcBar EXCEPT ![t] = LabelOf(t)']
        /\ TaskBar' = [TaskBar EXCEPT ![t] = TaskOf(t)']
        /\ ChunkBar' = [ChunkBar EXCEPT ![t] = ChunkOf(t)']
    BY <1>1, <1>2, <1>3, UnseenBars
  <2>2. TaskOf(t)' = TaskOf(t) /\ ChunkOf(t)' = ChunkOf(t)
    BY <1>4, <1>5
  <2>3. UNCHANGED <<TaskBar, ChunkBar>>
    BY <2>1, <2>2 DEF TaskBar, ChunkBar
  <2>4. PcBar[t] = "idle" /\ PcBar' = [PcBar EXCEPT ![t] = "returned"]
    BY SettingFacts, <1>4, <1>6, <2>1 DEF LabelFacts, LabelOK
  <2>5. Client!Return(t)
    BY <1>1, <1>6, <2>1, <2>3, <2>4 DEF Client!Return, Client!Goto
  <2>6. QED
    BY <1>1, <2>5 DEF ClientMoves, Client!Step, Client!PoolStep, Client!counts
<1>7. CASE ~is_finished
  <2>1. pc'[t] # "end"
    BY <1>1
  <2>2. UNCHANGED Client!vars
    BY <1>1, <1>2, <1>3, <1>4, <1>5, <1>7, <2>1, Unseen
  <2>3. QED
    BY <2>2 DEF ClientMoves
<1>8. QED
  BY <1>6, <1>7

(* The search for work is not seen by the client.                          *)
LEMMA SearchMove ==
  ASSUME NEW t \in Threads, Setting(t), UNCHANGED loopData,
         \/ PopTask(t) \/ StealTask(t) \/ LookAround(t) \/ StealNothing(t) \/ CheckActivity(t)
         \/ JoinActivity(t) /\ activities[other[t]].ptr = Null
  PROVE  ClientMoves(t)
<1>1. /\ pc[t] \in {"pop", "steal", "check", "join"}
      /\ pc'[t] \in {"loop", "steal", "check", "join", "start"}
      /\ pc'[t] = "start" \/ (deque' = deque /\ task' = task)
      /\ UNCHANGED <<is_finished, kind, pending, created>>
  BY SettingFacts
     DEF PopTask, StealTask, LookAround, StealNothing, CheckActivity, VisitNext, JoinActivity,
         Goto, shared, ProtocolTypeOK
<1>2. work_size' = work_size /\ \A a \in Started : Claimed(a)' = Claimed(a)
  BY ClaimsStay
<1>3. \A a \in Addrs : Fresh(a)' <=> Fresh(a)
  <2>1. CASE PopTask(t) \/ StealTask(t)
    BY SettingFacts, <2>1, TakeEffect
  <2>2. CASE ~(PopTask(t) \/ StealTask(t))
    <3>1. deque' = deque /\ pc'[t] # "start"
      BY SettingFacts, <2>2
         DEF LookAround, StealNothing, CheckActivity, VisitNext, JoinActivity,
             Goto, shared, ProtocolTypeOK
    <3>2. QED
      BY <1>1, <3>1, FreshStays
  <2>3. QED
    BY <2>1, <2>2
<1>4. LabelOf(t) = "idle" /\ LabelOf(t)' = "idle" /\ ChunkOf(t) = -1 /\ ChunkOf(t)' = -1
  BY SettingFacts, <1>1 DEF LabelFacts, LabelOK
<1>5. TaskOf(t) = NoIdentity /\ TaskOf(t)' = NoIdentity
  <2>1. task[t] = Null
    BY SettingFacts, <1>1 DEF ProtocolInv, ThreadInv, Working
  <2>2. QED
    BY <1>1, <2>1 DEF TaskOf
<1>6. pc'[t] # "end"
  BY <1>1
<1>7. UNCHANGED Client!vars
  BY <1>1, <1>2, <1>3, <1>4, <1>5, <1>6, Unseen
<1>8. QED
  BY <1>7 DEF ClientMoves

(* A thread joins a task that is open: it is published, and closed tasks   *)
(* are not.                                                                *)
LEMMA JoinMove ==
  ASSUME NEW t \in Threads, Setting(t), UNCHANGED loopData,
         JoinActivity(t), activities[other[t]].ptr # Null
  PROVE  ClientMoves(t)
<1> DEFINE a == task'[t]
<1>1. /\ Joins(t)
      /\ UNCHANGED <<is_finished, pending, created>>
  BY SettingFacts, JoinEffect DEF JoinActivity
<1>2. /\ pc[t] = "join" /\ pc'[t] = "enter" /\ state'[t] = "Assist" /\ kind' = kind
      /\ deque' = deque /\ a \in Addrs /\ Published(a) /\ task[t] = Null
  BY <1>1 DEF Joins
<1>3. work_size' = work_size /\ \A b \in Started : Claimed(b)' = Claimed(b)
  BY ClaimsStay
<1>4. \A b \in Addrs : Fresh(b)' <=> Fresh(b)
  BY <1>2, FreshStays
<1>5. pc'[t] # "end"
  BY <1>2
<1>6. /\ UNCHANGED <<queued, open, ClaimedBar, identity>>
      /\ PcBar' = [PcBar EXCEPT ![t] = LabelOf(t)']
      /\ TaskBar' = [TaskBar EXCEPT ![t] = TaskOf(t)']
      /\ ChunkBar' = [ChunkBar EXCEPT ![t] = ChunkOf(t)']
  BY <1>2, <1>3, <1>4, <1>5, UnseenBars
<1>7. LabelOf(t) = "idle" /\ LabelOf(t)' = "claim" /\ ChunkOf(t)' = -1
  BY SettingFacts, <1>2 DEF LabelFacts, LabelOK
<1>8. kind[a] = "loop" /\ ~Fresh(a)
  BY SettingFacts, <1>2, OfferedIsLoop DEF ChunksInv
<1>9. TaskOf(t)' = identity[a]
  BY <1>2, <1>6, ProtocolAssumption DEF TaskOf
<1>10. identity[a] \in open /\ identity[a][2] = <<"loop", work_size[a]>>
  <2>1. a \notin ended /\ a \in Started
    BY SettingFacts, <1>2, <1>8 DEF EndedInv, Started
  <2>2. QED
    BY <1>2, <1>8, <2>1 DEF open, Setting, TaskFacts
<1>11. /\ PcBar[t] = "idle" /\ PcBar' = [PcBar EXCEPT ![t] = "claim"]
       /\ TaskBar' = [TaskBar EXCEPT ![t] = identity[a]]
       /\ ChunkBar' = [ChunkBar EXCEPT ![t] = -1]
  BY SettingFacts, <1>6, <1>7, <1>9 DEF LabelFacts, LabelOK
<1>12. Client!EntryLabel(identity[a], Client!NoChunk) = "claim"
  BY <1>10 DEF Client!EntryLabel, Client!Entry, Client!LoopLabel, Client!NoChunk
<1>13. Client!JoinTask(t)
  BY <1>1, <1>6, <1>10, <1>11, <1>12
     DEF Client!JoinTask, Client!Goto, Client!Hold, Client!NoChunk
<1>14. QED
  BY <1>1, <1>13 DEF ClientMoves, Client!Step, Client!PoolStep, Client!counts

(* A task without chunks goes to its finish function, any other is opened. *)
LEMMA StartMove ==
  ASSUME NEW t \in Threads, Setting(t), UNCHANGED loopData, StartSingle(t) \/ StartLoop(t)
  PROVE  ClientMoves(t)
<1>1. PICK a : a = task[t]
  OBVIOUS
<1>2. /\ pc[t] = "start" /\ kind' = kind /\ task' = task
      /\ UNCHANGED <<is_finished, pending, created>>
  BY DEF StartSingle, StartLoop, shared
<1>3. work_size' = work_size /\ \A b : Claimed(b)' = Claimed(b)
  BY SameClaims DEF loopData
<1>4. PICK v, w : IdentityInv(v) /\ HistoryNext(w)
  BY SettingFacts
<1>5. /\ a \in Addrs /\ kind[a] # "free" /\ Fresh(a)
      /\ identity' = identity /\ retired' = retired
      /\ Started' = Started \cup {a}
      /\ identity[a] \in queued
      /\ queued' = queued \ {identity[a]}
      /\ StartSingle(t) => open' = open
      /\ StartLoop(t) => open' = open \cup {identity[a]}
  BY SettingFacts, <1>1, <1>4, StartEffect
<1>6. ClaimedBar' = [ClaimedBar EXCEPT ![identity[a]] = Claimed(a)]
  <2>1. ClaimedBar' = [ClaimedBar EXCEPT ![identity[a]] = Claimed(a)']
    BY <1>3, <1>5, ClaimedOnce DEF Setting
  <2>2. QED
    BY <1>3, <2>1
<1>7. /\ PcBar' = [PcBar EXCEPT ![t] = LabelOf(t)']
      /\ TaskBar' = [TaskBar EXCEPT ![t] = TaskOf(t)']
      /\ ChunkBar' = [ChunkBar EXCEPT ![t] = ChunkOf(t)']
  BY <1>2, <1>3, <1>5, ThreadBars
<1>8. /\ identity[a][2] = <<kind[a], work_size[a]>> /\ StartInv(a)
      /\ identity[a] \in Client!Tasks /\ identity[a] \notin retired
      /\ \A b \in Addrs : identity[b] = identity[a] => b = a
  BY SettingFacts, <1>5 DEF Setting, TaskFacts, ChunksInv
<1>9. work_size[a] \in Nat /\ kind[a] = KindOf(work_size[a])
  BY SettingFacts, <1>5, <1>8, SizesAssumption DEF StartInv, LoopTypeOK, KindOf
<1>10. PcBar[t] = "idle" /\ ChunkBar[t] = -1
  BY SettingFacts, <1>2 DEF LabelFacts, LabelOK
<1>11. ASSUME pc'[t] # "start" PROVE TaskOf(t)' = identity[a]
  BY <1>1, <1>2, <1>5, <1>11, ProtocolAssumption DEF TaskOf
<1>12. CASE StartSingle(t)
  <2>1. kind[a] = "single" /\ pc'[t] = "finish"
    BY SettingFacts, <1>1, <1>12 DEF StartSingle, Goto, ProtocolTypeOK
  <2>2. work_size[a] = 0
    BY <1>9, <2>1 DEF KindOf
  <2>3. ClaimedBar' = ClaimedBar
    <3>1. Claimed(a) = {}
      BY <2>2 DEF Claimed
    <3>2. ClaimedBar[identity[a]] = {}
      <4>1. \A b \in Started : identity[b] # identity[a]
        BY <1>5, <1>8 DEF Started
      <4>2. QED
        BY <1>8, <4>1 DEF Setting, TaskFacts
    <3>3. QED
      BY <1>6, <3>1, <3>2 DEF ClaimedBar
  <2>4. LabelOf(t)' = "finish" /\ ChunkOf(t)' = -1
    BY SettingFacts, <2>1 DEF LabelFacts, LabelOK
  <2>5. /\ PcBar' = [PcBar EXCEPT ![t] = "finish"]
        /\ TaskBar' = [TaskBar EXCEPT ![t] = identity[a]]
        /\ ChunkBar' = ChunkBar
    BY <1>7, <1>10, <1>11, <2>1, <2>4 DEF ChunkBar
  <2>6. Client!Size(identity[a]) = 0 /\ Client!Exit(identity[a]) = "finish"
    BY <1>8, <2>2 DEF Client!Size, Client!Exit
  <2>7. Client!StartSingle(t)
    BY <1>2, <1>5, <1>10, <1>12, <2>3, <2>5, <2>6 DEF Client!StartSingle, Client!Goto
  <2>8. QED
    BY <1>2, <2>7 DEF ClientMoves, Client!Step, Client!PoolStep, Client!counts
<1>13. CASE StartLoop(t)
  <2>1. kind[a] = "loop" /\ pc'[t] = "enter" /\ state'[t] = "Main"
    BY SettingFacts, <1>1, <1>13 DEF StartLoop, Goto, ProtocolTypeOK
  <2>2. work_size[a] \in Nat \ {0} /\ work_index[a] = 1
    <3>1. work_index[a] = InitialIndex % U32
      BY <1>5, <1>8 DEF StartInv
    <3>2. QED
      BY SettingFacts, <1>5, <1>8, <2>1, <3>1, LoopNumbers
  <2>3. Claimed(a) = {0}
    BY <2>2 DEF Claimed
  <2>4. LabelOf(t)' = "run" /\ ChunkOf(t)' = 0
    BY SettingFacts, <2>1 DEF LabelFacts, LabelOK
  <2>5. /\ PcBar' = [PcBar EXCEPT ![t] = "run"]
        /\ TaskBar' = [TaskBar EXCEPT ![t] = identity[a]]
        /\ ChunkBar' = [ChunkBar EXCEPT ![t] = 0]
        /\ ClaimedBar' = [ClaimedBar EXCEPT ![identity[a]] = {0}]
    BY <1>6, <1>7, <1>11, <2>1, <2>3, <2>4
  <2>6. Client!Size(identity[a]) > 0 /\ Client!Entry(identity[a]) # "none"
        /\ Client!EntryLabel(identity[a], 0) = "run"
    BY <1>8, <2>1, <2>2
       DEF Client!Size, Client!Entry, Client!EntryLabel, Client!LoopLabel, Client!NoChunk
  <2>7. Client!StartLoop(t)
    BY <1>2, <1>5, <1>10, <1>13, <2>5, <2>6 DEF Client!StartLoop, Client!Goto, Client!Hold
  <2>8. QED
    BY <1>2, <2>7 DEF ClientMoves, Client!Step, Client!PoolStep, Client!counts
<1>14. QED
  BY <1>12, <1>13

(* The count of references tells whether another thread is on the task.    *)
LEMMA LastIsAlone ==
  ASSUME ProtocolInv, NEW t \in Threads, pc[t] = "end", NEW a, a = task[t]
  PROVE  /\ active_threads[a] - 1 = 0 <=> ~\E u \in Threads \ {t} : task[u] = a
         /\ \A u \in Threads : task[u] = a => u \in Users(a)
<1>1. ProtocolTypeOK /\ a \in Addrs /\ a # Null /\ t \in Users(a)
  BY TaskIsAddress, ProtocolAssumption DEF ProtocolInv, Users, Working
<1>2. ~Fresh(a) /\ ~Published(a)
  BY InvImpliesEndIsClosed DEF EndIsClosed
<1>3. ASSUME NEW u \in Threads, task[u] = a PROVE u \in Users(a)
  <2>1. pc[u] \in Working \cup {"start", "finish"}
    BY <1>1, <1>3 DEF ProtocolInv, ThreadInv
  <2>2. pc[u] # "start"
    BY <1>2, <1>3 DEF Fresh
  <2>3. pc[u] # "finish"
    BY <1>1, <1>3 DEF ProtocolInv, ExclusiveFinish
  <2>4. QED
    BY <1>3, <2>1, <2>2, <2>3 DEF Users
<1>4. Users(a) \in SUBSET Threads
  BY DEF Users
<1>5. Cardinality(Users(a)) \in Nat /\ Cardinality(Users(a) \ {t}) = Cardinality(Users(a)) - 1
      /\ (Cardinality(Users(a) \ {t}) = 0 => Users(a) \ {t} = {})
      /\ Cardinality({}) = 0
  <2>1. Users(a) \ {t} \in SUBSET Threads
    BY <1>4
  <2>2. QED
    BY <1>1, <1>4, <2>1, UserCount
<1>6. active_threads[a] \in Int
  BY <1>1 DEF ProtocolTypeOK
<1>7. CASE Adding(a) = {}
  <2>1. active_threads[a] = Cardinality(Users(a))
    BY <1>1, <1>2, <1>7 DEF ProtocolInv, ReferenceCount
  <2>2. active_threads[a] - 1 = 0 <=> Users(a) \ {t} = {}
    BY <1>5, <1>6, <2>1
  <2>3. Users(a) \ {t} = {} <=> ~\E u \in Threads \ {t} : task[u] = a
    BY <1>3 DEF Users
  <2>4. QED
    BY <1>3, <2>2, <2>3
<1>8. CASE Adding(a) # {}
  <2>1. PICK u \in Adding(a) : TRUE
    BY <1>8
  <2>2. u \in Threads \ {t} /\ task[u] = a
    BY <2>1 DEF Adding, Users
  <2>3. active_threads[a] <= 0
    BY <1>1, <2>1 DEF ProtocolInv, ReferenceCount
  <2>4. QED
    BY <1>3, <1>6, <2>2, <2>3
<1>9. QED
  BY <1>7, <1>8

(* The last thread to leave a task finishes it.                            *)
LEMMA LeaveMove ==
  ASSUME NEW t \in Threads, Setting(t), UNCHANGED loopData, EndTask(t)
  PROVE  ClientMoves(t)
<1>1. PICK a : a = task[t]
  OBVIOUS
<1>2. /\ pc[t] = "end" /\ kind' = kind /\ deque' = deque
      /\ active_threads[a] - 1 = 0 => pc'[t] = "finish" /\ task'[t] = a
      /\ active_threads[a] - 1 # 0 => pc'[t] = "loop" /\ task'[t] = Null
      /\ pc'[t] # "end" /\ pc'[t] # "start"
      /\ UNCHANGED <<is_finished, pending, created>>
  BY SettingFacts, <1>1 DEF EndTask, IsLast, Goto, ProtocolTypeOK
<1>3. work_size' = work_size /\ \A b \in Started : Claimed(b)' = Claimed(b)
  BY ClaimsStay
<1>4. \A b \in Addrs : Fresh(b)' <=> Fresh(b)
  BY <1>2, FreshStays
<1>5. /\ a \in Addrs /\ a # Null /\ kind[a] # "free" /\ TaskOf(t) = identity[a]
      /\ identity[a] \in Client!Tasks
  BY <1>1, <1>2, WorkerFacts DEF Working
<1>6. /\ UNCHANGED <<queued, open, ClaimedBar, identity>>
      /\ PcBar' = [PcBar EXCEPT ![t] = LabelOf(t)']
      /\ TaskBar' = [TaskBar EXCEPT ![t] = TaskOf(t)']
      /\ ChunkBar' = [ChunkBar EXCEPT ![t] = ChunkOf(t)']
  BY <1>2, <1>3, <1>4, UnseenBars
<1>7. /\ PcBar[t] = "leave" /\ TaskBar[t] = identity[a] /\ ChunkBar[t] = -1
      /\ ChunkOf(t)' = -1
      /\ pc'[t] = "finish" => LabelOf(t)' = "finish"
      /\ pc'[t] = "loop" => LabelOf(t)' = "idle"
  BY SettingFacts, <1>2, <1>5 DEF LabelFacts, LabelOK
<1>8. ChunkBar' = ChunkBar
  BY <1>6, <1>7 DEF ChunkBar
<1>9. \A u \in Threads : TaskBar[u] = identity[a] <=> task[u] = a
  <2>1. TAKE u \in Threads
  <2>2. TaskBar[u] = TaskOf(u)
    BY SettingFacts DEF LabelFacts, LabelOK
  <2>3. CASE task[u] = a
    <3>1. pc[u] # "start"
      BY SettingFacts, <1>1, <1>2, <2>3, LastIsAlone DEF Users, Working
    <3>2. QED
      BY <1>5, <2>2, <2>3, <3>1 DEF TaskOf
  <2>4. CASE task[u] # a /\ (task[u] = Null \/ pc[u] = "start")
    <3>1. TaskOf(u) = Client!NoTask
      BY <2>4 DEF TaskOf, NoIdentity, Client!NoTask
    <3>2. QED
      BY <1>5, <2>2, <2>4, <3>1 DEF Setting, TaskFacts
  <2>5. CASE task[u] # a /\ task[u] # Null /\ pc[u] # "start"
    <3>1. task[u] \in Addrs /\ TaskOf(u) = identity[task[u]]
      BY SettingFacts, <2>5 DEF TaskOf, ProtocolTypeOK
    <3>2. QED
      BY <1>5, <2>2, <2>5, <3>1 DEF Setting, TaskFacts
  <2>6. QED
    BY <2>3, <2>4, <2>5
<1>10. active_threads[a] - 1 = 0 <=> ~\E u \in Threads \ {t} : TaskBar[u] = TaskBar[t]
  <2>1. active_threads[a] - 1 = 0 <=> ~\E u \in Threads \ {t} : task[u] = a
    BY SettingFacts, <1>1, <1>2, LastIsAlone
  <2>2. QED
    BY <1>7, <1>9, <2>1
<1>11. Client!Exit(identity[a]) = "finish"
  BY DEF Client!Exit
<1>12. CASE active_threads[a] - 1 = 0
  <2>1. pc'[t] = "finish" /\ task'[t] = a
    BY <1>2, <1>12
  <2>2. TaskOf(t)' = identity[a]
    BY <1>5, <1>6, <2>1 DEF TaskOf
  <2>3. TaskBar' = TaskBar
    BY <1>5, <1>6, <2>2 DEF TaskBar
  <2>4. PcBar' = [PcBar EXCEPT ![t] = "finish"]
    BY <1>6, <1>7, <2>1
  <2>5. Client!EndTask(t)
    BY <1>2, <1>6, <1>7, <1>8, <1>10, <1>11, <1>12, <2>3, <2>4
       DEF Client!EndTask, Client!Goto, Client!Threads, Threads
  <2>6. QED
    BY <1>2, <2>5 DEF ClientMoves, Client!Step, Client!PoolStep, Client!counts
<1>13. CASE active_threads[a] - 1 # 0
  <2>1. pc'[t] = "loop" /\ task'[t] = Null
    BY <1>2, <1>13
  <2>2. TaskOf(t)' = Client!NoTask
    BY <2>1 DEF TaskOf, NoIdentity, Client!NoTask
  <2>3. PcBar' = [PcBar EXCEPT ![t] = "idle"] /\ TaskBar' = [TaskBar EXCEPT ![t] = Client!NoTask]
    BY <1>6, <1>7, <2>1, <2>2
  <2>4. \E u \in Threads \ {t} : TaskBar[u] = TaskBar[t]
    BY <1>10, <1>13
  <2>5. Client!EndTask(t)
    BY <1>2, <1>6, <1>7, <1>8, <2>3, <2>4 DEF Client!EndTask, Client!Leave, Client!Goto, Client!Threads, Threads
  <2>6. QED
    BY <1>2, <2>5 DEF ClientMoves, Client!Step, Client!PoolStep, Client!counts
<1>14. QED
  BY <1>12, <1>13

(* The pending count of the client is that of the protocol.                *)
LEMMA CountMove ==
  ASSUME NEW t \in Threads, Setting(t), UNCHANGED loopData, CountDown(t)
  PROVE  ClientMoves(t)
<1>1. /\ pc[t] = "after" /\ pc'[t] = "loop" /\ pc'[t] # "end" /\ pc'[t] # "start"
      /\ pending' = pending - 1 /\ is_finished' = (is_finished \/ pending = 1)
      /\ UNCHANGED <<kind, deque, created, task>>
  BY SettingFacts DEF CountDown, Goto, ProtocolTypeOK
<1>2. work_size' = work_size /\ \A b \in Started : Claimed(b)' = Claimed(b)
  BY ClaimsStay
<1>3. \A b \in Addrs : Fresh(b)' <=> Fresh(b)
  BY <1>1, FreshStays
<1>4. /\ UNCHANGED <<queued, open, ClaimedBar>>
      /\ PcBar' = [PcBar EXCEPT ![t] = LabelOf(t)']
      /\ TaskBar' = [TaskBar EXCEPT ![t] = TaskOf(t)']
      /\ ChunkBar' = [ChunkBar EXCEPT ![t] = ChunkOf(t)']
  BY <1>1, <1>2, <1>3, UnseenBars
<1>5. /\ PcBar[t] = "after" /\ LabelOf(t)' = "idle" /\ ChunkOf(t)' = ChunkOf(t)
  BY SettingFacts, <1>1 DEF LabelFacts, LabelOK
<1>6. TaskOf(t)' = TaskOf(t)
  <2>1. task[t] = Null
    BY SettingFacts, <1>1 DEF ProtocolInv, ThreadInv, Working
  <2>2. QED
    BY <1>1, <2>1 DEF TaskOf
<1>7. UNCHANGED <<TaskBar, ChunkBar>> /\ PcBar' = [PcBar EXCEPT ![t] = "idle"]
  BY <1>4, <1>5, <1>6 DEF TaskBar, ChunkBar
<1>8. Client!CountDown(t)
  BY <1>1, <1>4, <1>5, <1>7 DEF Client!CountDown, Client!Goto
<1>9. QED
  BY <1>8 DEF ClientMoves, Client!Step

(* Every step of the protocol outside the chunk loop.                      *)
LEMMA ProtocolMove ==
  ASSUME NEW t \in Threads, Setting(t), UNCHANGED loopData, ProtocolStep(t)
  PROVE  ClientMoves(t)
BY ReturnMove, SearchMove, JoinMove, StartMove, LeaveMove, CountMove DEF ProtocolStep

-----------------------------------------------------------------------------
(* The steps in the chunk loop.                                            *)

(* A step of a thread on its task keeps all the other tasks.               *)
LEMMA WorkBars ==
  ASSUME NEW t \in Threads, Setting(t), pc[t] \in Working, pc'[t] # "start",
         kind' = kind, work_size' = work_size, deque' = deque, task' = task,
         \A a \in Addrs : a # task[t] => work_index'[a] = work_index[a]
  PROVE  /\ PcBar' = [PcBar EXCEPT ![t] = LabelOf(t)']
         /\ TaskBar' = TaskBar /\ TaskBar[t] = identity[task[t]]
         /\ ChunkBar' = [ChunkBar EXCEPT ![t] = ChunkOf(t)']
         /\ queued' = queued
         /\ pc'[t] # "end" \/ pc[t] = "end" => open' = open
         /\ pc'[t] = "end" => open' = open \ {identity[task[t]]}
         /\ ClaimedBar' = [ClaimedBar EXCEPT ![identity[task[t]]] = Claimed(task[t])']
         /\ Claimed(task[t])' = Claimed(task[t]) => ClaimedBar' = ClaimedBar
<1>1. PICK a : a = task[t]
  OBVIOUS
<1>2. a \in Addrs /\ a # Null /\ kind[a] # "free" /\ a \in Started /\ TaskOf(t) = identity[a]
      /\ ClaimedBar[identity[a]] = Claimed(a)
  BY <1>1, WorkerFacts
<1>3. \A b \in Addrs : Fresh(b)' <=> Fresh(b)
  BY FreshStays DEF Working
<1>4. PICK v, w : IdentityInv(v) /\ HistoryNext(w)
  BY SettingFacts
<1>5. /\ identity' = identity /\ retired' = retired /\ Started' = Started /\ queued' = queued
      /\ pc'[t] # "end" \/ pc[t] = "end" => open' = open
      /\ pc'[t] = "end" => open' = open \ {identity[a]}
  <2>1. CASE pc'[t] = "end"
    <3>1. /\ identity' = identity /\ retired' = retired /\ Started' = Started /\ queued' = queued
          /\ open' = open \ {identity[a]}
      BY SettingFacts, <1>1, <1>2, <1>3, <1>4, <2>1, CloseEffect
    <3>2. pc[t] = "end" => open' = open
      BY SettingFacts, <1>3, <1>4, UnseenEffect
    <3>3. QED
      BY <2>1, <3>1, <3>2
  <2>2. CASE pc'[t] # "end"
    BY SettingFacts, <1>3, <1>4, <2>2, UnseenEffect
  <2>3. QED
    BY <2>1, <2>2
<1>6. \A b \in Started : b \in Addrs /\ (b # a => Claimed(b)' = Claimed(b))
  BY <1>1, SameClaims DEF Started
<1>7. ClaimedBar' = [ClaimedBar EXCEPT ![identity[a]] = Claimed(a)']
  <2>1. Started' = Started \cup {a}
    BY <1>2, <1>5
  <2>2. QED
    BY <1>2, <1>5, <1>6, <2>1, ClaimedOnce DEF Setting
<1>8. Claimed(a)' = Claimed(a) => ClaimedBar' = ClaimedBar
  BY <1>5, <1>6, ClaimedKept DEF Setting
<1>9. /\ PcBar' = [PcBar EXCEPT ![t] = LabelOf(t)']
      /\ TaskBar' = [TaskBar EXCEPT ![t] = TaskOf(t)']
      /\ ChunkBar' = [ChunkBar EXCEPT ![t] = ChunkOf(t)']
  BY <1>5, ThreadBars
<1>10. TaskOf(t)' = TaskOf(t) /\ TaskBar[t] = identity[a]
  BY SettingFacts, <1>1, <1>2, <1>5 DEF TaskOf, LabelFacts, LabelOK
<1>11. TaskBar' = TaskBar
  BY <1>9, <1>10 DEF TaskBar
<1>12. Claimed(task[t])' = Claimed(a)'
  BY <1>1 DEF Claimed
<1>13. QED
  BY <1>1, <1>5, <1>7, <1>8, <1>9, <1>10, <1>11, <1>12

(* The thread goes on with what it has.                                    *)
LEMMA SameMove ==
  ASSUME NEW t \in Threads, Setting(t), pc[t] \in Working, pc'[t] \notin {"start", "end"},
         kind' = kind, work_size' = work_size, deque' = deque, task' = task,
         \A a \in Addrs : a # task[t] => work_index'[a] = work_index[a],
         Claimed(task[t])' = Claimed(task[t]),
         LabelOf(t)' = LabelOf(t), ChunkOf(t)' = ChunkOf(t),
         UNCHANGED <<pending, created, is_finished>>
  PROVE  ClientMoves(t)
<1>1. /\ PcBar' = [PcBar EXCEPT ![t] = LabelOf(t)']
      /\ TaskBar' = TaskBar
      /\ ChunkBar' = [ChunkBar EXCEPT ![t] = ChunkOf(t)']
      /\ queued' = queued /\ open' = open /\ ClaimedBar' = ClaimedBar
  BY WorkBars
<1>2. UNCHANGED <<PcBar, ChunkBar>>
  BY <1>1 DEF PcBar, ChunkBar
<1>3. QED
  BY <1>1, <1>2 DEF ClientMoves, Client!vars, Client!counts

(* The thread ends its loop: no chunk is left.                             *)
LEMMA EndMove ==
  ASSUME NEW t \in Threads, Setting(t), pc[t] \in Working, pc'[t] = "end",
         kind' = kind, work_size' = work_size, deque' = deque, task' = task,
         \A a \in Addrs : a # task[t] => work_index'[a] = work_index[a],
         Claimed(task[t])' = Claimed(task[t]),
         LabelOf(t) = "claim", Claimed(task[t]) = 0 .. work_size[task[t]] - 1,
         UNCHANGED <<pending, created, is_finished>>
  PROVE  ClientMoves(t)
<1> DEFINE i == identity[task[t]]
<1>1. /\ PcBar' = [PcBar EXCEPT ![t] = LabelOf(t)']
      /\ TaskBar' = TaskBar /\ TaskBar[t] = i
      /\ ChunkBar' = [ChunkBar EXCEPT ![t] = ChunkOf(t)']
      /\ queued' = queued /\ open' = open \ {i} /\ ClaimedBar' = ClaimedBar
  BY WorkBars
<1>2. PcBar[t] = "claim" /\ LabelOf(t)' = "leave" /\ ChunkOf(t)' = -1
  <2>1. LabelOK(t) /\ LabelOK(t)'
    BY SettingFacts DEF LabelFacts
  <2>2. LabelOf(t)' = "leave"
    BY <2>1 DEF LabelOK
  <2>3. QED
    BY <2>1, <2>2 DEF LabelOK
<1>3. Client!Unclaimed(i) = {}
  <2>1. ClaimedBar[i] = Claimed(task[t]) /\ i[2] = <<"loop", work_size[task[t]]>>
    BY WorkerFacts
  <2>2. Client!Size(i) = work_size[task[t]]
    BY <2>1 DEF Client!Size
  <2>3. QED
    BY <2>1, <2>2 DEF Client!Unclaimed
<1>4. Client!EndLoop(t)
  BY <1>1, <1>2, <1>3
     DEF Client!EndLoop, Client!Hold, Client!Goto, Client!NoChunk, Client!After
<1>5. QED
  BY <1>4 DEF ClientMoves, Client!Step, Client!PoolStep, Client!counts

(* The publishing thread enters the loop with chunk 0.                     *)
LEMMA EnterMove ==
  ASSUME NEW t \in Threads, Setting(t), EnterMain(t)
  PROVE  ClientMoves(t)
<1>1. /\ pc[t] = "enter" /\ state[t] = "Main" /\ HasClaimed(t, 0)
      /\ pc[t] \in Working
      /\ UNCHANGED <<kind, deque, task, work_size, work_index, pending, created, is_finished>>
  BY DEF EnterMain, shared, Working
<1>2. work_size[task[t]] \in Nat \ {0}
  BY <1>1, WorkerFacts
<1>3. chunk'[t] = 0 /\ pc'[t] \in {"signal", "body"}
  BY SettingFacts, <1>1, <1>2, ClaimEffect
<1>4. LabelOf(t) = "run" /\ LabelOf(t)' = "run"
  BY SettingFacts, <1>1, <1>2, <1>3 DEF LabelFacts, LabelOK, Signalling
<1>5. ChunkOf(t) = 0 /\ ChunkOf(t)' = 0
  BY SettingFacts, <1>1, <1>3, <1>4 DEF LabelFacts, LabelOK
<1>6. Claimed(task[t])' = Claimed(task[t])
  BY <1>1 DEF Claimed
<1>7. pc'[t] \notin {"start", "end"}
  BY <1>3
<1>8. QED
  BY <1>1, <1>4, <1>5, <1>6, <1>7, SameMove

(* A claim yields the least chunk that nobody claimed, or comes too late.  *)
LEMMA ClaimedNext ==
  ASSUME LoopTypeOK, NEW a \in Addrs, StartInv(a), kind[a] = "loop", IndexInv(a),
         NEW t \in Claimers(a), work_size'[a] = work_size[a],
         work_index'[a] = (work_index[a] + 1) % U32
  PROVE  /\ work_index[a] < work_size[a] =>
              /\ work_index[a] \in (0 .. work_size[a] - 1) \ Claimed(a)
              /\ Claimed(a)' = Claimed(a) \cup {work_index[a]}
         /\ ~(work_index[a] < work_size[a]) =>
              /\ Claimed(a) = 0 .. work_size[a] - 1
              /\ Claimed(a)' = Claimed(a)
<1>1. /\ work_size[a] \in Nat \ {0} /\ U32 \in Nat /\ N \in Nat \ {0}
      /\ work_size[a] + N <= U32 /\ work_index[a] \in 0 .. U32 - 1
  BY LoopNumbers
<1>2. work_index[a] >= 1
  BY <1>1 DEF IndexInv
<1>3. CASE work_index[a] < work_size[a]
  <2>1. work_index'[a] = work_index[a] + 1
    BY <1>1, <1>3
  <2>2. QED
    BY <1>1, <1>2, <1>3, <2>1 DEF Claimed
<1>4. CASE ~(work_index[a] < work_size[a])
  <2>1. work_index'[a] = work_index[a] + 1 \/ work_index'[a] = 0
    BY <1>1
  <2>2. QED
    BY <1>1, <1>2, <1>4, <2>1 DEF Claimed
<1>5. QED
  BY <1>3, <1>4

(* A thread claims a chunk, or finds none and hides or leaves the task.    *)
LEMMA ClaimMove ==
  ASSUME NEW t \in Threads, Setting(t), EnterAssist(t) \/ NextChunk(t)
  PROVE  ClientMoves(t)
<1>1. PICK a, c : a = task[t] /\ c = work_index[a]
  OBVIOUS
<1>2. /\ pc[t] \in {"enter", "next"} /\ (pc[t] = "enter" => state[t] = "Assist")
      /\ pc[t] \in Working
      /\ HasClaimed(t, c)
      /\ work_index' = [work_index EXCEPT ![a] = (@ + 1) % U32]
      /\ UNCHANGED <<kind, deque, task, work_size, pending, created, is_finished>>
  BY <1>1 DEF EnterAssist, NextChunk, FetchAdd, shared, Working
<1>3. /\ a \in Addrs /\ kind[a] = "loop" /\ t \in Users(a)
      /\ StartInv(a) /\ IndexInv(a)
      /\ work_size[a] \in Nat \ {0} /\ c \in Nat
      /\ identity[a][2] = <<"loop", work_size[a]>>
      /\ identity[a] \in Client!Tasks
      /\ ClaimedBar[identity[a]] = Claimed(a)
  BY <1>1, <1>2, WorkerFacts
<1>4. t \in Claimers(a)
  BY <1>2, <1>3 DEF Claimers, Vain, Signalling
<1>5. /\ work_index'[a] = (work_index[a] + 1) % U32
      /\ \A b \in Addrs : b # task[t] => work_index'[b] = work_index[b]
  BY SettingFacts, <1>1, <1>2, <1>3 DEF LoopTypeOK
<1>6. /\ c < work_size[a] =>
           /\ c \in (0 .. work_size[a] - 1) \ Claimed(a)
           /\ Claimed(a)' = Claimed(a) \cup {c}
      /\ ~(c < work_size[a]) =>
           /\ Claimed(a) = 0 .. work_size[a] - 1
           /\ Claimed(a)' = Claimed(a)
  BY SettingFacts, <1>1, <1>2, <1>3, <1>4, <1>5, ClaimedNext
<1>7. /\ chunk'[t] = c /\ pc'[t] \in {"signal", "body", "end"}
      /\ pc'[t] = "body" => c < work_size[a]
      /\ pc'[t] = "end" => ~(c < work_size[a])
  BY SettingFacts, <1>1, <1>2, ClaimEffect
<1>8. LabelOf(t) = "claim" /\ ChunkOf(t) = -1
  BY SettingFacts, <1>2 DEF LabelFacts, LabelOK
<1>9. Claimed(task[t])' = Claimed(a)' /\ Claimed(task[t]) = Claimed(a)
  BY <1>1, <1>2 DEF Claimed
<1>10. CASE c < work_size[a]
  <2>1. LabelOf(t)' = "run" /\ ChunkOf(t)' = c
    BY SettingFacts, <1>1, <1>2, <1>7, <1>10 DEF LabelFacts, LabelOK, Signalling
  <2>2. pc'[t] # "start" /\ pc'[t] # "end"
    BY <1>7, <1>10
  <2>3. /\ PcBar' = [PcBar EXCEPT ![t] = LabelOf(t)']
        /\ TaskBar' = TaskBar /\ TaskBar[t] = identity[task[t]]
        /\ ChunkBar' = [ChunkBar EXCEPT ![t] = ChunkOf(t)']
        /\ queued' = queued /\ open' = open
        /\ ClaimedBar' = [ClaimedBar EXCEPT ![identity[task[t]]] = Claimed(task[t])']
    BY <1>2, <1>5, <2>2, WorkBars
  <2>4. /\ PcBar[t] = "claim" /\ PcBar' = [PcBar EXCEPT ![t] = "run"]
        /\ TaskBar[t] = identity[a]
        /\ ChunkBar' = [ChunkBar EXCEPT ![t] = c]
        /\ ClaimedBar' = [ClaimedBar EXCEPT ![identity[a]] = ClaimedBar[identity[a]] \cup {c}]
    BY SettingFacts, <1>1, <1>3, <1>6, <1>8, <1>9, <1>10, <2>1, <2>3 DEF LabelFacts, LabelOK
  <2>5. c \in Client!Unclaimed(identity[a])
    BY <1>3, <1>6, <1>10 DEF Client!Unclaimed, Client!Size
  <2>6. Client!ClaimChunk(t)
    BY <1>2, <2>3, <2>4, <2>5 DEF Client!ClaimChunk, Client!Hold, Client!Goto
  <2>7. QED
    BY <1>2, <2>6 DEF ClientMoves, Client!Step, Client!PoolStep, Client!counts
<1>11. CASE ~(c < work_size[a])
  <2>1. CASE pc'[t] = "end"
    BY <1>1, <1>2, <1>5, <1>6, <1>8, <1>9, <1>11, <2>1, EndMove
  <2>2. CASE pc'[t] = "signal"
    <3>1. LabelOf(t)' = "claim" /\ ChunkOf(t)' = -1
      BY SettingFacts, <1>1, <1>2, <1>7, <1>11, <2>2 DEF LabelFacts, LabelOK, Signalling
    <3>2. pc'[t] \notin {"start", "end"}
      BY <2>2
    <3>3. QED
      BY <1>2, <1>5, <1>6, <1>8, <1>9, <1>11, <3>1, <3>2, SameMove
  <2>3. QED
    BY <1>7, <1>11, <2>1, <2>2
<1>12. QED
  BY <1>10, <1>11

(* A chunk is executed.                                                    *)
LEMMA RunMove ==
  ASSUME NEW t \in Threads, Setting(t), RunChunk(t)
  PROVE  ClientMoves(t)
<1>1. /\ pc[t] = "body" /\ pc'[t] = "next" /\ pc[t] \in Working
      /\ UNCHANGED <<kind, deque, task, work_size, work_index, pending, created, is_finished>>
  BY SettingFacts DEF RunChunk, Goto, shared, Working, ProtocolTypeOK
<1>2. LabelOf(t) = "run" /\ LabelOf(t)' = "claim" /\ ChunkOf(t)' = -1
  BY SettingFacts, <1>1 DEF LabelFacts, LabelOK
<1>3. Claimed(task[t])' = Claimed(task[t])
  BY <1>1 DEF Claimed
<1>4. pc'[t] # "start" /\ pc'[t] # "end"
  BY <1>1
<1>5. /\ PcBar' = [PcBar EXCEPT ![t] = LabelOf(t)']
      /\ TaskBar' = TaskBar
      /\ ChunkBar' = [ChunkBar EXCEPT ![t] = ChunkOf(t)']
      /\ queued' = queued /\ open' = open /\ ClaimedBar' = ClaimedBar
  BY <1>1, <1>3, <1>4, WorkBars
<1>6. /\ PcBar[t] = "run" /\ PcBar' = [PcBar EXCEPT ![t] = "claim"]
      /\ ChunkBar' = [ChunkBar EXCEPT ![t] = -1]
  BY SettingFacts, <1>2, <1>5 DEF LabelFacts, LabelOK
<1>7. Client!RunChunk(t)
  BY <1>1, <1>5, <1>6 DEF Client!RunChunk, Client!Hold, Client!Goto, Client!NoChunk, Client!counts
<1>8. QED
  BY <1>7 DEF ClientMoves, Client!Step

(* Hiding the task changes nothing for the client, but that a thread which *)
(* holds no chunk leaves then.                                             *)
LEMMA SignalMove ==
  ASSUME NEW t \in Threads, Setting(t), Signal(t)
  PROVE  ClientMoves(t)
<1>1. Hides(t, Resume(t)) /\ UNCHANGED loopData
  BY SettingFacts, HideEffect DEF Signal, Resume
<1>2. /\ pc[t] \in Signalling /\ pc[t] \in Working
      /\ pc'[t] \in {"cas", "add", Resume(t)}
      /\ UNCHANGED <<kind, deque, task, work_size, work_index, chunk, pending, created, is_finished>>
  BY <1>1 DEF Hides, Signalling, Working, loopData
<1>3. Claimed(task[t])' = Claimed(task[t])
  BY <1>2 DEF Claimed
<1>4. /\ work_size[task[t]] \in Nat \ {0} /\ work_index[task[t]] \in Nat /\ chunk[t] \in Nat
      /\ HideInv(task[t]) /\ t \in Users(task[t])
  BY <1>2, WorkerFacts
<1>5. CASE chunk[t] < work_size[task[t]]
  <2>1. pc'[t] \in {"cas", "add", "body"}
    BY <1>2, <1>5 DEF Resume
  <2>2. LabelOf(t) = "run" /\ LabelOf(t)' = "run" /\ ChunkOf(t) = chunk[t] /\ ChunkOf(t)' = chunk[t]
    BY SettingFacts, <1>2, <1>5, <2>1 DEF LabelFacts, LabelOK, Signalling
  <2>3. pc'[t] \notin {"start", "end"}
    BY <2>1
  <2>4. QED
    BY <1>2, <1>3, <2>2, <2>3, SameMove
<1>6. CASE ~(chunk[t] < work_size[task[t]])
  <2>1. pc'[t] \in {"cas", "add", "end"}
    BY <1>2, <1>6 DEF Resume
  <2>2. LabelOf(t) = "claim" /\ ChunkOf(t) = -1
    BY SettingFacts, <1>2, <1>6 DEF LabelFacts, LabelOK
  <2>3. CASE pc'[t] = "end"
    <3>1. Claimed(task[t]) = 0 .. work_size[task[t]] - 1
      BY <1>2, <1>4 DEF HideInv, AllClaimed, Claimed
    <3>2. QED
      BY <1>2, <1>3, <2>2, <2>3, <3>1, EndMove
  <2>4. CASE pc'[t] # "end"
    <3>1. LabelOf(t)' = "claim" /\ ChunkOf(t)' = -1
      BY SettingFacts, <1>2, <1>6, <2>1, <2>4 DEF LabelFacts, LabelOK, Signalling
    <3>2. pc'[t] \notin {"start", "end"}
      BY <2>1, <2>4
    <3>3. QED
      BY <1>2, <1>3, <2>2, <3>1, <3>2, SameMove
  <2>5. QED
    BY <2>3, <2>4
<1>7. QED
  BY <1>5, <1>6

-----------------------------------------------------------------------------
(* The steps that free and create a task.                                  *)

(* All chunks of a task are claimed when it finishes.                      *)
LEMMA FinishedIsClaimed ==
  ASSUME NEW t \in Threads, Setting(t), pc[t] = "finish"
  PROVE  Claimed(task[t]) = 0 .. work_size[task[t]] - 1
<1> DEFINE a == task[t]
<1>1. /\ a \in Addrs /\ kind[a] # "free" /\ ~Published(a)
  BY SettingFacts, TaskIsAddress, ProtocolAssumption DEF ProtocolInv, ExclusiveFinish
<1>2. ~Fresh(a) /\ ChunksInv(a)
  BY SettingFacts, <1>1, UsedIsNotFresh
<1>3. work_index[a] \in Nat /\ work_size[a] \in Nat /\ kind[a] = KindOf(work_size[a])
  <2>1. work_size[a] \in Sizes \cup {Absent} /\ work_index[a] \in 0 .. U32 - 1
    BY SettingFacts, <1>1 DEF LoopTypeOK
  <2>2. work_size[a] # Absent /\ kind[a] = KindOf(work_size[a])
    BY <1>1, <1>2 DEF ChunksInv, StartInv
  <2>3. work_size[a] \in Nat
    BY <2>1, <2>2, SizesAssumption
  <2>4. work_index[a] \in Nat
    BY <2>1, SizesAssumption
  <2>5. QED
    BY <2>2, <2>3, <2>4
<1>4. CASE kind[a] = "loop"
  <2>1. AllClaimed(a)
    BY <1>1, <1>2, <1>4 DEF ChunksInv, HideInv
  <2>2. QED
    BY <1>3, <2>1 DEF AllClaimed, Claimed
<1>5. CASE kind[a] # "loop"
  BY <1>3, <1>5 DEF KindOf, Claimed
<1>6. QED
  BY <1>4, <1>5

(* The finish function frees the task, which the history remembers.        *)
LEMMA FinishMove ==
  ASSUME NEW t \in Threads, Setting(t), FinishTask(t)
  PROVE  ClientMoves(t)
<1>1. PICK a : a = task[t]
  OBVIOUS
<1>2. /\ Frees(t) /\ UNCHANGED <<created, work_index, chunk>>
      /\ \A b \in Addrs : b # a => work_size'[b] = work_size[b]
  BY SettingFacts, <1>1, FinishFrees
<1>3. /\ pc[t] = "finish" /\ pc'[t] = "after" /\ a \in Addrs /\ task'[t] = Null
      /\ UNCHANGED <<pending, is_finished>>
  BY <1>1, <1>2 DEF Frees, FinishTask, FreeTask
<1>4. PICK v, w : IdentityInv(v) /\ HistoryNext(w)
  BY SettingFacts
<1>5. /\ Started' = Started \ {a} /\ a \in Started
      /\ retired' = retired \cup {identity[a]}
      /\ \A b \in Started' : identity'[b] = identity[b]
      /\ \A b \in Addrs : kind[b] # "free" /\ b # a => identity'[b] = identity[b]
      /\ queued' = queued /\ open' = open
  BY SettingFacts, <1>1, <1>2, <1>4, RetireEffect
<1>6. Claimed(a) = 0 .. work_size[a] - 1
  BY <1>1, <1>3, FinishedIsClaimed
<1>7. \A b \in Started' : Claimed(b)' = Claimed(b)
  BY <1>2, <1>5 DEF Started, Claimed
<1>8. ClaimedBar' = ClaimedBar
  BY <1>5, <1>6, <1>7, ClaimedRetired DEF Setting
<1>9. kind'[a] = "free"
  BY SettingFacts, <1>1, <1>2, <1>3 DEF Frees, ProtocolTypeOK
<1>10. /\ PcBar' = [PcBar EXCEPT ![t] = LabelOf(t)']
      /\ TaskBar' = [TaskBar EXCEPT ![t] = TaskOf(t)']
      /\ ChunkBar' = [ChunkBar EXCEPT ![t] = ChunkOf(t)']
  BY <1>2, <1>5, <1>9, ThreadBars
<1>11. PcBar[t] = "finish" /\ LabelOf(t)' = "after" /\ ChunkOf(t)' = ChunkOf(t)
  BY SettingFacts, <1>3 DEF LabelFacts, LabelOK
<1>12. TaskOf(t)' = Client!NoTask
  BY <1>3 DEF TaskOf, NoIdentity, Client!NoTask
<1>13. /\ PcBar' = [PcBar EXCEPT ![t] = "after"]
       /\ TaskBar' = [TaskBar EXCEPT ![t] = Client!NoTask]
       /\ ChunkBar' = ChunkBar
  BY <1>10, <1>11, <1>12 DEF ChunkBar
<1>14. Client!TakeData(t)
  BY <1>2, <1>3, <1>5, <1>8, <1>11, <1>13 DEF Client!TakeData, Client!Goto, Client!counts
<1>15. QED
  BY <1>14 DEF ClientMoves, Client!Step

(* A chunk or a finish function creates a task.                            *)
LEMMA CreateMove ==
  ASSUME NEW t \in Threads, Setting(t), CreateTask(t)
  PROVE  ClientMoves(t)
<1>1. PICK b \in Addrs, n \in Sizes : Creates(t, b, n)
  BY SettingFacts, CreateSpawns
<1>2. /\ Spawns(t, b, KindOf(n)) /\ KindOf(n) \in {"single", "loop"}
      /\ pc[t] \in {"body", "after"} /\ kind[b] = "free" /\ kind' = [kind EXCEPT ![b] = KindOf(n)]
      /\ created' = created + 1 /\ created < MaxTasks /\ pending' = pending + 1
      /\ work_size'[b] = n
      /\ \A a \in Addrs : a # b => work_size'[a] = work_size[a] /\ work_index'[a] = work_index[a]
      /\ UNCHANGED <<pc, task, state, chunk, is_finished>>
  BY <1>1 DEF Creates, Spawns, KindOf
<1>3. PICK v, w : /\ IdentityInv(v) /\ HistoryNext(w)
                  /\ \A a \in Addrs : w[a] = <<kind'[a], work_size'[a]>>
  BY SettingFacts
<1>4. /\ retired' = retired /\ Started' = Started
      /\ \A a \in Addrs : kind[a] # "free" => identity'[a] = identity[a]
      /\ queued' = queued \cup {<<created', w[b]>>} /\ open' = open
  BY SettingFacts, <1>2, <1>3, QueueEffect
<1>5. w[b] = <<KindOf(n), n>> /\ <<KindOf(n), n>> \in Works
  BY SettingFacts, <1>2, <1>3 DEF ProtocolTypeOK, Works
<1>6. \A a \in Started : a \in Addrs /\ kind[a] # "free" /\ a # b
  BY <1>2 DEF Started
<1>7. ClaimedBar' = ClaimedBar
  <2>1. \A a \in Started : identity'[a] = identity[a] /\ Claimed(a)' = Claimed(a)
    BY <1>2, <1>4, <1>6, SameClaims
  <2>2. QED
    BY <1>4, <2>1, ClaimedKept DEF Setting
<1>8. /\ PcBar' = [PcBar EXCEPT ![t] = LabelOf(t)']
      /\ TaskBar' = [TaskBar EXCEPT ![t] = TaskOf(t)']
      /\ ChunkBar' = [ChunkBar EXCEPT ![t] = ChunkOf(t)']
  BY <1>2, <1>4, ThreadBars
<1>9. /\ PcBar[t] \in {"run", "after"}
      /\ LabelOf(t)' = LabelOf(t)
      /\ ChunkOf(t)' = ChunkOf(t)
  BY SettingFacts, <1>2 DEF LabelFacts, LabelOK
<1>10. TaskOf(t)' = TaskOf(t)
  <2>1. CASE pc[t] = "body"
    <3>1. task[t] \in Addrs /\ kind[task[t]] = "loop"
      BY <2>1, WorkerFacts DEF Working
    <3>2. QED
      BY <1>2, <1>4, <2>1, <3>1 DEF TaskOf
  <2>2. CASE pc[t] = "after"
    <3>1. task[t] = Null
      BY SettingFacts, <2>2 DEF ProtocolInv, ThreadInv, Working
    <3>2. QED
      BY <1>2, <3>1 DEF TaskOf
  <2>3. QED
    BY <1>2, <2>1, <2>2
<1>11. UNCHANGED <<PcBar, TaskBar, ChunkBar>>
  BY <1>8, <1>9, <1>10 DEF PcBar, TaskBar, ChunkBar
<1>12. Client!CreateTask(t)
  BY <1>2, <1>4, <1>5, <1>7, <1>9, <1>11 DEF Client!CreateTask, Client!Push
<1>13. QED
  BY <1>12 DEF ClientMoves, Client!Step

(* A step of the scheduler is one of the client on its worker, or none.    *)
LEMMA StepIsClientStep ==
  ASSUME NEW t \in Threads, Setting(t)
  PROVE  ClientMoves(t)
BY ProtocolMove, EnterMove, ClaimMove, RunMove, SignalMove, FinishMove, CreateMove
   DEF Setting, Step

-----------------------------------------------------------------------------
(* At the start there is one task, which is queued.                        *)
LEMMA HistoryStarts ==
  ASSUME StartHistory
  PROVE  HistoryInv /\ Client!Init
<1>1. PICK a \in Addrs, n \in Sizes :
        /\ ProtocolInit(a, KindOf(n))
        /\ work_size = [b \in Addrs |-> IF b = a THEN n ELSE Absent]
        /\ chunk = [t \in Threads |-> 0]
  BY DEF StartHistory, Init
<1>2. /\ kind = [b \in Addrs |-> IF b = a THEN KindOf(n) ELSE "free"]
      /\ pc = [t \in Threads |-> "loop"] /\ task = [t \in Threads |-> Null]
      /\ deque = [t \in Threads |-> IF t = 0 THEN <<a>> ELSE <<>>]
      /\ created = 1 /\ pending = 1 /\ is_finished = FALSE
  BY <1>1 DEF ProtocolInit
<1> DEFINE w == <<KindOf(n), n>>
<1>3. KindOf(n) # "free" /\ w \in Works
  BY DEF KindOf, Works
<1>4. /\ identity = [b \in Addrs |-> IF b = a THEN <<1, w>> ELSE NoIdentity]
      /\ ended = {} /\ retired = {}
  BY <1>1, <1>2, <1>3 DEF StartHistory, HistoryInit, WorkOf
<1>5. IdentityInv(WorkOf)
  <2>1. \A b \in Addrs : WorkOf[b] = <<kind[b], work_size[b]>>
    BY DEF WorkOf
  <2>2. identity = [b \in Addrs |-> IF kind[b] = "free" THEN NoIdentity
                                    ELSE <<identity[b][1], WorkOf[b]>>]
    <3>1. \A b \in Addrs : identity[b] = IF kind[b] = "free" THEN NoIdentity
                                         ELSE <<identity[b][1], WorkOf[b]>>
      BY <1>1, <1>2, <1>3, <1>4, <2>1
    <3>2. QED
      BY <1>4, <3>1
  <2>3. \A b \in Addrs : (kind[b] # "free" <=> b = a)
                         /\ identity[b][1] = IF b = a THEN 1 ELSE 0
    BY <1>2, <1>3, <1>4 DEF NoIdentity
  <2>4. QED
    BY <1>2, <1>4, <2>2, <2>3 DEF IdentityInv
<1>6. EndedInv
  BY <1>2, <1>4 DEF EndedInv
<1>7. \A b \in Addrs : Fresh(b) <=> b = a
  <2>1. \A b \in Addrs : Queued(b) <=> b = a
    BY <1>2, ProtocolAssumption DEF Queued, Threads
  <2>2. QED
    BY <1>2, <2>1 DEF Fresh
<1>8. Started = {}
  BY <1>2, <1>7 DEF Started
<1>9. /\ queued = {<<1, w>>} /\ open = {}
  BY <1>4, <1>7, <1>8 DEF queued, open
<1>10. ClaimedBar = [i \in Client!Tasks |-> {}]
  BY <1>4, <1>8 DEF ClaimedBar, ClaimedOf, Client!Tasks
<1>11. /\ PcBar = [t \in Threads |-> "idle"]
       /\ TaskBar = [t \in Threads |-> Client!NoTask]
       /\ ChunkBar = [t \in Threads |-> -1]
  <2>1. \A t \in Threads : pc[t] = "loop" /\ task[t] = Null
    BY <1>2
  <2>2. \A t \in Threads : LabelOf(t) = "idle" /\ ChunkOf(t) = -1
    BY <2>1, LabelsHold DEF LabelFacts, LabelOK
  <2>3. \A t \in Threads : TaskOf(t) = Client!NoTask
    BY <2>1 DEF TaskOf, NoIdentity, Client!NoTask
  <2>4. QED
    BY <2>2, <2>3 DEF PcBar, TaskBar, ChunkBar
<1>12. Client!PoolInit(<<1, w>>, Client!Tasks)
  BY <1>2, <1>9, <1>10, <1>11
     DEF Client!PoolInit, Client!Threads, Threads, Client!NoChunk
<1>13. Client!Init
  BY <1>2, <1>3, <1>12 DEF Client!Init
<1>14. QED
  BY <1>5, <1>6, <1>13 DEF HistoryInv

(* The history adds nothing to what the scheduler does.                    *)
LEMMA HistoryIsSchedule == HistorySpec => Spec
<1>1. StartHistory => Init
  BY DEF StartHistory
<1>2. [Next /\ HistoryNext(WorkOf')]_<<vars, history>> => [Next]_vars
  OBVIOUS
<1>3. QED
  BY <1>1, <1>2, PTL DEF HistorySpec, Spec

(* The history is as said in every reachable state.                        *)
LEMMA HistoryInvariant == HistorySpec => [](SchedulerInv /\ HistoryInv)
<1>1. HistorySpec => []SchedulerInv
  BY HistoryIsSchedule, SchedulerInvariant, PTL
<1>2. StartHistory => HistoryInv
  BY HistoryStarts
<1>3. SchedulerInv /\ SchedulerInv' /\ HistoryInv
        /\ [Next /\ HistoryNext(WorkOf')]_<<vars, history>> => HistoryInv'
  <2>1. SUFFICES ASSUME SchedulerInv, SchedulerInv', HistoryInv,
                        [Next /\ HistoryNext(WorkOf')]_<<vars, history>>
                 PROVE  HistoryInv'
    OBVIOUS
  <2>2. CASE UNCHANGED <<vars, history>>
    <3>1. UNCHANGED <<kind, work_size, created, pc, task, deque, activities, identity, ended, retired>>
      BY <2>2 DEF vars, protocolVars, shared, local, loopData, history
    <3>2. WorkOf' = WorkOf
      BY <3>1 DEF WorkOf
    <3>3. IdentityInv(WorkOf)'
      BY <2>1, <3>1, <3>2 DEF HistoryInv, IdentityInv
    <3>4. EndedInv'
      BY <2>1, <3>1 DEF HistoryInv, EndedInv, Fresh, Queued, Published
    <3>5. QED
      BY <3>3, <3>4 DEF HistoryInv
  <2>3. CASE Next /\ HistoryNext(WorkOf')
    BY <2>1, <2>3, HistoryInvStep DEF Next
  <2>4. QED
    BY <2>1, <2>2, <2>3
<1>4. QED
  BY <1>1, <1>2, <1>3, PTL DEF HistorySpec

(* The scheduler implements the worker that the modules of the programs    *)
(* run on, with the tasks known by their numbers.                          *)
THEOREM ImplementsWorker == HistorySpec => ImplementsAssistPool
<1>1. StartHistory => Client!Init
  BY HistoryStarts
<1>2. SchedulerInv /\ HistoryInv /\ (SchedulerInv /\ HistoryInv)'
        /\ [Next /\ HistoryNext(WorkOf')]_<<vars, history>>
      => [Client!Next]_(Client!vars)
  <2>1. SUFFICES ASSUME SchedulerInv, HistoryInv, SchedulerInv', HistoryInv',
                        [Next /\ HistoryNext(WorkOf')]_<<vars, history>>
                 PROVE  Client!Next \/ UNCHANGED Client!vars
    OBVIOUS
  <2>2. TaskFacts /\ TaskFacts'
    BY <2>1, InvImpliesTaskFacts, PTL
  <2>3. CASE UNCHANGED <<vars, history>>
    <3>1. /\ UNCHANGED <<kind, work_size, work_index, chunk, state, created, pending, is_finished,
                         pc, task, deque, identity, ended, retired>>
      BY <2>3 DEF vars, protocolVars, shared, local, signal, loopData, history
    <3>2. /\ \A a \in Addrs : Fresh(a)' <=> Fresh(a)
          /\ \A a : Claimed(a)' = Claimed(a)
      BY <3>1 DEF Fresh, Queued, Claimed
    <3>3. Started' = Started
      BY <3>1, <3>2 DEF Started
    <3>4. queued' = queued /\ open' = open
      BY <3>1, <3>2, <3>3 DEF queued, open
    <3>5. ClaimedBar' = ClaimedBar
      BY <2>2, <3>1, <3>2, <3>3, ClaimedKept
    <3>6. UNCHANGED <<PcBar, TaskBar, ChunkBar>>
      <4>1. \A t \in Threads : LabelOf(t)' = LabelOf(t)
        BY <3>1 DEF LabelOf, LabelOutside
      <4>2. \A t \in Threads : TaskOf(t)' = TaskOf(t) /\ ChunkOf(t)' = ChunkOf(t)
        BY <3>1, <4>1 DEF TaskOf, ChunkOf
      <4>3. QED
        BY <4>1, <4>2 DEF PcBar, TaskBar, ChunkBar
    <3>7. QED
      BY <3>1, <3>4, <3>5, <3>6 DEF Client!vars, Client!counts
  <2>4. CASE Next /\ HistoryNext(WorkOf')
    <3>1. PICK t \in Threads : Step(t)
      BY <2>4 DEF Next
    <3>2. Setting(t)
      BY <2>1, <2>2, <2>4, <3>1 DEF Setting
    <3>3. ClientMoves(t)
      BY <3>2, StepIsClientStep
    <3>4. QED
      BY <3>3 DEF ClientMoves, Client!Next, Client!Threads, Threads
  <2>5. QED
    BY <2>1, <2>3, <2>4
<1>3. QED
  BY <1>1, <1>2, HistoryInvariant, PTL DEF HistorySpec, ImplementsAssistPool, Client!Spec
=============================================================================
