--------------------------- MODULE AssistProtocol ---------------------------
(***************************************************************************)
(* The part the two schedulers of src/schedulers share, line for line:     *)
(* task stealing, the `activities` array through which a thread offers its *)
(* data-parallel loop to the others, and the reference count that decides  *)
(* which thread runs a task's `finish`.  The claiming of chunks is left to *)
(* WorkAssisting and MultiAtomics, which extend this module and run        *)
(* between the program counters "enter" and "signal" or "end".             *)
(*                                                                         *)
(* One action is one access to shared memory, with the local computation   *)
(* around it.  The operations whose result decides anything are            *)
(* read-modify-write operations or reads of a word a thread has itself     *)
(* modified, so that interleaving their steps describes the Relaxed and    *)
(* Acquire/Release executions too; a stale value of the two plain loads    *)
(* (is_finished, the `check` of try_assist) delays a thread and is covered *)
(* by scheduling it earlier.                                               *)
(*                                                                         *)
(* The program that runs on the scheduler is a client that may create a    *)
(* task in any chunk and in any finish function and counts its tasks, as   *)
(* the cases in src/cases do: `pending` is incremented when a task is      *)
(* created and decremented by finish, which calls Workers::finish at 0.    *)
(***************************************************************************)
EXTENDS Integers, Sequences, FiniteSets

CONSTANTS
  N,         \* worker_count
  Addrs,     \* addresses a TaskObject can be allocated at
  Null,      \* the null pointer
  MaxTasks   \* bound: number of tasks a run of the program creates

Threads == 0 .. N - 1

ASSUME ProtocolAssumption ==
  /\ N \in Nat \ {0}
  /\ IsFiniteSet(Addrs)
  /\ Null \notin Addrs
  /\ MaxTasks \in Nat \ {0}

VARIABLES
  is_finished,     \* Workers::is_finished
  deque,           \* deque[t]: t's deque; the owner's end is the last element
  activities,      \* activities[t]: the TaggedPtr in t's slot
  kind,            \* kind[a]: "free", "single" (empty work size) or "loop"
  active_threads,  \* active_threads[a]: TaskObject::active_threads
  pending,         \* the client's count of tasks created and not finished
  created,         \* number of tasks created so far; bounded by MaxTasks
  pc,              \* where each thread is
  other,           \* other_index, and the slot an EmptySignal points to
  retry,           \* claim_task: some steal returned Steal::Retry
  task,            \* the task a thread handles, or Null
  state,           \* the EmptySignalState of the thread's EmptySignal
  value            \* task_empty: the TaggedPtr last read from the slot

shared == <<is_finished, deque, activities, kind, active_threads, pending, created>>
signal == <<state, value>>
local  == <<pc, other, retry, task, state, value>>
protocolVars == <<shared, local>>

TaggedPtr == [ptr : Addrs \cup {Null}, tag : Nat]
NullPtr   == [ptr |-> Null, tag |-> 0]

\* Labels at which a thread is one of the active threads of task[t].
Working == {"enter", "next", "body", "signal", "cas", "add", "end"}
Labels  == Working \cup {"loop", "pop", "steal", "check", "join",
                         "start", "finish", "after", "returned"}

ProtocolTypeOK ==
  /\ is_finished \in BOOLEAN
  /\ deque \in [Threads -> Seq(Addrs)]
  /\ activities \in [Threads -> TaggedPtr]
  /\ kind \in [Addrs -> {"free", "single", "loop"}]
  /\ active_threads \in [Addrs -> Int]
  /\ pending \in Nat
  /\ created \in 1 .. MaxTasks
  /\ pc \in [Threads -> Labels]
  /\ other \in [Threads -> Threads]
  /\ retry \in [Threads -> BOOLEAN]
  /\ task \in [Threads -> Addrs \cup {Null}]
  /\ state \in [Threads -> {"Main", "Assist", "DidSignal"}]
  /\ value \in [Threads -> TaggedPtr]

-----------------------------------------------------------------------------
(* run_on: the initial task, at address a, is in the deque of thread 0.    *)

ProtocolInit(a, k) ==
  /\ is_finished = FALSE
  /\ deque = [t \in Threads |-> IF t = 0 THEN <<a>> ELSE <<>>]
  /\ activities = [t \in Threads |-> NullPtr]
  /\ kind = [b \in Addrs |-> IF b = a THEN k ELSE "free"]
  /\ active_threads = [b \in Addrs |-> 0]
  /\ pending = 1
  /\ created = 1
  /\ pc = [t \in Threads |-> "loop"]
  /\ other = [t \in Threads |-> t]
  /\ retry = [t \in Threads |-> FALSE]
  /\ task = [t \in Threads |-> Null]
  /\ state = [t \in Threads |-> "DidSignal"]
  /\ value = [t \in Threads |-> NullPtr]

Goto(t, label) == pc' = [pc EXCEPT ![t] = label]

(* Even threads visit the others upwards, odd threads downwards.           *)
Increment(t) == IF t % 2 = 0 THEN 1 ELSE N - 1
NextOther(t) == (other[t] + Increment(t)) % N

-----------------------------------------------------------------------------
(* do_work: a thread leaves the pool when it sees is_finished.             *)

DoWork(t) ==
  /\ pc[t] = "loop"
  /\ Goto(t, IF is_finished THEN "returned" ELSE "pop")
  /\ UNCHANGED <<shared, other, retry, task, signal>>

(***************************************************************************)
(* claim_task: pop the own deque, else visit the others' once.  A steal    *)
(* from a deque that is not empty may lose a race (Steal::Retry).          *)
(***************************************************************************)

PopTask(t) ==
  /\ pc[t] = "pop"
  /\ deque[t] # <<>>
  /\ task' = [task EXCEPT ![t] = deque[t][Len(deque[t])]]
  /\ deque' = [deque EXCEPT ![t] = SubSeq(@, 1, Len(@) - 1)]
  /\ Goto(t, "start")
  /\ UNCHANGED <<is_finished, activities, kind, active_threads, pending, created>>
  /\ UNCHANGED <<other, retry, signal>>

(* The own deque is empty; a pool of one thread has nobody to visit.       *)
LookAround(t) ==
  /\ pc[t] = "pop"
  /\ deque[t] = <<>>
  /\ other' = [other EXCEPT ![t] = NextOther(t)]
  /\ Goto(t, IF NextOther(t) = t THEN "loop" ELSE "steal")
  /\ UNCHANGED <<shared, retry, task, signal>>

StealTask(t) ==
  /\ pc[t] = "steal"
  /\ deque[other[t]] # <<>>
  /\ task' = [task EXCEPT ![t] = Head(deque[other[t]])]
  /\ deque' = [deque EXCEPT ![other[t]] = Tail(@)]
  /\ other' = [other EXCEPT ![t] = t]
  /\ retry' = [retry EXCEPT ![t] = FALSE]
  /\ Goto(t, "start")
  /\ UNCHANGED <<is_finished, activities, kind, active_threads, pending, created>>
  /\ UNCHANGED signal

(* No task from this thread: on to the next one.  After the last, try to   *)
(* assist, unless a steal has to be retried.                               *)
StealNothing(t) ==
  /\ pc[t] = "steal"
  /\ \E lost \in {FALSE, deque[other[t]] # <<>>} :
       LET again == retry[t] \/ lost
           last  == NextOther(t) = t
       IN  /\ lost \/ deque[other[t]] = <<>>
           /\ retry' = [retry EXCEPT ![t] = again /\ ~last]
           /\ other' = [other EXCEPT ![t] = IF last /\ ~again
                                              THEN (t + Increment(t)) % N
                                              ELSE NextOther(t)]
           /\ Goto(t, IF ~last THEN "steal" ELSE IF again THEN "loop" ELSE "check")
  /\ UNCHANGED <<shared, task, signal>>

-----------------------------------------------------------------------------
(* try_assist: visit the slots of the other threads.                       *)

VisitNext(t) ==
  /\ other' = [other EXCEPT ![t] = NextOther(t)]
  /\ Goto(t, IF NextOther(t) = t THEN "loop" ELSE "check")

(* The test that keeps a thread from counting on a null pointer for ever.  *)
MayJoin(p) == p.ptr # Null

CheckActivity(t) ==
  /\ pc[t] = "check"
  /\ IF MayJoin(activities[other[t]])
       THEN Goto(t, "join") /\ UNCHANGED other
       ELSE VisitNext(t)
  /\ UNCHANGED <<shared, retry, task, signal>>

FetchAddTag(p) == [ptr |-> p.ptr, tag |-> p.tag + 1]

(* fetch_add_tag: the pointer is looked at again, for the slot may have    *)
(* been emptied, or have got another task, since CheckActivity.            *)
JoinActivity(t) ==
  /\ pc[t] = "join"
  /\ activities' = [activities EXCEPT ![other[t]] = FetchAddTag(@)]
  /\ IF activities[other[t]].ptr = Null
       THEN VisitNext(t) /\ UNCHANGED <<task, state>>
       ELSE /\ task' = [task EXCEPT ![t] = activities[other[t]].ptr]
            /\ state' = [state EXCEPT ![t] = "Assist"]
            /\ Goto(t, "enter")
            /\ UNCHANGED other
  /\ UNCHANGED <<is_finished, deque, kind, active_threads, pending, created>>
  /\ UNCHANGED <<retry, value>>

-----------------------------------------------------------------------------
(* start_task: a task with an empty work size goes straight to its finish  *)
(* function, any other is offered to the other threads.                    *)

StartSingle(t) ==
  /\ pc[t] = "start"
  /\ kind[task[t]] = "single"
  /\ Goto(t, "finish")
  /\ UNCHANGED <<shared, other, retry, task, signal>>

StartLoop(t) ==
  /\ pc[t] = "start"
  /\ kind[task[t]] = "loop"
  /\ activities' = [activities EXCEPT ![t] = [ptr |-> task[t], tag |-> 0]]
  /\ state' = [state EXCEPT ![t] = "Main"]
  /\ Goto(t, "enter")
  /\ UNCHANGED <<is_finished, deque, kind, active_threads, pending, created>>
  /\ UNCHANGED <<other, retry, task, value>>

-----------------------------------------------------------------------------
(***************************************************************************)
(* EmptySignal::task_empty, called at label "signal" and left to `resume`. *)
(* SlotOf(t) is the slot the signal points to.  The references that the    *)
(* tag of the removed pointer counted are moved to active_threads, with    *)
(* one more for the thread that published the task.                        *)
(***************************************************************************)

SlotOf(t) == other[t]

\* Mutated: the thread that published the task is forgotten.
CreditOfAssistants(p) == p.tag
Credit(p) == p.tag + 1

Signalled(t, resume) ==
  /\ state' = [state EXCEPT ![t] = "DidSignal"]
  /\ value' = [value EXCEPT ![t] = NullPtr]
  /\ Goto(t, resume)

(* The publishing thread swaps its slot with null, whatever it holds.      *)
SwapSlot(t, resume) ==
  /\ pc[t] = "signal"
  /\ state[t] = "Main"
  /\ activities' = [activities EXCEPT ![t] = NullPtr]
  /\ IF activities[t].ptr = task[t]
       THEN /\ value' = [value EXCEPT ![t] = activities[t]]
            /\ Goto(t, "add")
            /\ UNCHANGED state
       ELSE Signalled(t, resume)
  /\ UNCHANGED <<is_finished, deque, kind, active_threads, pending, created>>
  /\ UNCHANGED <<other, retry, task>>

(* `while value.ptr() == self.task`: p is what the slot was seen to hold.  *)
RetryWhileTask(t, p, resume) ==
  IF p.ptr = task[t]
    THEN value' = [value EXCEPT ![t] = p] /\ Goto(t, "cas") /\ UNCHANGED state
    ELSE Signalled(t, resume)

LoadSlot(t, resume) ==
  /\ pc[t] = "signal"
  /\ state[t] = "Assist"
  /\ RetryWhileTask(t, activities[SlotOf(t)], resume)
  /\ UNCHANGED <<shared, other, retry, task>>

(* compare_exchange_weak.  A spurious failure reads the value it already   *)
(* had and so changes nothing.                                             *)
\* Mutated: a store in the place of the compare-exchange.
CasAlways(t) == TRUE
CasMatches(t) == activities[SlotOf(t)] = value[t]

CompareExchange(t, resume) ==
  /\ pc[t] = "cas"
  /\ IF CasMatches(t)
       THEN /\ activities' = [activities EXCEPT ![SlotOf(t)] = NullPtr]
            /\ Goto(t, "add")
            /\ UNCHANGED signal
       ELSE RetryWhileTask(t, activities[SlotOf(t)], resume) /\ UNCHANGED activities
  /\ UNCHANGED <<is_finished, deque, kind, active_threads, pending, created>>
  /\ UNCHANGED <<other, retry, task>>

(* active_threads.fetch_add.  The loop of an assisting thread does not     *)
(* leave on success: it compares once more and finds the slot changed.     *)
AddReferences(t, resume) ==
  /\ pc[t] = "add"
  /\ active_threads' = [active_threads EXCEPT ![task[t]] = @ + Credit(value[t])]
  /\ IF state[t] = "Main"
       THEN Signalled(t, resume)
       ELSE Goto(t, "cas") /\ UNCHANGED signal
  /\ UNCHANGED <<is_finished, deque, activities, kind, pending, created>>
  /\ UNCHANGED <<other, retry, task>>

TaskEmpty(t, resume) ==
  \/ SwapSlot(t, resume)
  \/ LoadSlot(t, resume)
  \/ CompareExchange(t, resume)
  \/ AddReferences(t, resume)

-----------------------------------------------------------------------------
(* end_task: the thread that takes the count to zero runs finish.          *)

\* Mutated: a count that is still negative is taken for the last reference.
IsLastOrNegative(remaining) == remaining <= 0
\* Mutated: fetch_sub returns the old value; the `- 1` is forgotten.
IsLastOfOld(remaining) == remaining + 1 = 0
IsLast(remaining) == remaining = 0

EndTask(t) ==
  /\ pc[t] = "end"
  /\ active_threads' = [active_threads EXCEPT ![task[t]] = @ - 1]
  /\ IF IsLast(active_threads[task[t]] - 1)
       THEN Goto(t, "finish") /\ UNCHANGED task
       ELSE Goto(t, "loop") /\ task' = [task EXCEPT ![t] = Null]
  /\ other' = [other EXCEPT ![t] = t]
  /\ UNCHANGED <<is_finished, deque, activities, kind, pending, created>>
  /\ UNCHANGED <<retry, signal>>

(***************************************************************************)
(* The client's finish function.  take_data moves the data out of the box  *)
(* and frees it: its address can be used by the next task created.         *)
(***************************************************************************)

FreeTask(t) ==
  /\ pc[t] = "finish"
  /\ kind' = [kind EXCEPT ![task[t]] = "free"]
  /\ task' = [task EXCEPT ![t] = Null]
  /\ Goto(t, "after")
  /\ UNCHANGED <<is_finished, deque, activities, active_threads, pending, created>>
  /\ UNCHANGED <<other, retry, signal>>

Counted(p) == p + 1

(* Task::new_* and push_task, in a chunk or in a finish function.          *)
SpawnTask(t, a, k) ==
  /\ pc[t] \in {"body", "after"}
  /\ created < MaxTasks
  /\ kind[a] = "free"
  /\ kind' = [kind EXCEPT ![a] = k]
  /\ active_threads' = [active_threads EXCEPT ![a] = 0]
  /\ pending' = Counted(pending)
  /\ created' = created + 1
  /\ deque' = [deque EXCEPT ![t] = Append(@, a)]
  /\ UNCHANGED <<is_finished, activities>>
  /\ UNCHANGED local

(* pending.fetch_sub, and Workers::finish by the last task.                *)
CountDown(t) ==
  /\ pc[t] = "after"
  /\ pending' = pending - 1
  /\ is_finished' = (is_finished \/ pending = 1)
  /\ Goto(t, "loop")
  /\ UNCHANGED <<deque, activities, kind, active_threads, created>>
  /\ UNCHANGED <<other, retry, task, signal>>

\* The steps of one thread outside the chunk loop that touch no loop data.
ProtocolStep(t) ==
  \/ DoWork(t)
  \/ PopTask(t)
  \/ LookAround(t)
  \/ StealTask(t)
  \/ StealNothing(t)
  \/ CheckActivity(t)
  \/ JoinActivity(t)
  \/ StartSingle(t)
  \/ StartLoop(t)
  \/ EndTask(t)
  \/ CountDown(t)

(***************************************************************************)
(* All that the protocol assumes of a work_loop: it claims and executes    *)
(* chunks, may call task_empty on its way, and has called it when it ends. *)
(***************************************************************************)
ChunkLoop(t) ==
  /\ pc[t] \in {"enter", "next", "body"}
  /\ \E label \in {"enter", "next", "body", "signal", "end"} :
       /\ label = "signal" => state[t] # "DidSignal"
       /\ label = "end" => state[t] = "DidSignal"
       /\ Goto(t, label)
  /\ UNCHANGED <<shared, other, retry, task, signal>>

ThreadStep(t) ==
  \/ ProtocolStep(t)
  \/ ChunkLoop(t)
  \/ \E resume \in {"body", "end"} : TaskEmpty(t, resume)
  \/ FreeTask(t)
  \/ \E a \in Addrs, k \in {"single", "loop"} : SpawnTask(t, a, k)

ProtocolNext == \E t \in Threads : ThreadStep(t)

ProtocolSpec ==
  /\ \E a \in Addrs, k \in {"single", "loop"} : ProtocolInit(a, k)
  /\ [][ProtocolNext]_protocolVars

-----------------------------------------------------------------------------
(* Properties                                                              *)

Users(a) == {t \in Threads : task[t] = a /\ pc[t] \in Working}
Published(a) == \E s \in Threads : activities[s].ptr = a
Adding(a) == {t \in Users(a) : pc[t] = "add"}

(* The comment on TaskObject::active_threads (task.rs 18-27), made exact.  *)
(* The references of a task are split between the tag of its slot and      *)
(* active_threads; the thread that carries them over from the one to the   *)
(* other has them in its local `value`, and meanwhile the count of a task  *)
(* that others finish is negative, never zero by accident.                 *)
ReferenceCount ==
  \A a \in Addrs :
    /\ \A s \in Threads : activities[s].ptr = a =>
         active_threads[a] = 0 /\ Cardinality(Users(a)) = activities[s].tag + 1
    /\ \A t \in Adding(a) :
         /\ active_threads[a] <= 0
         /\ active_threads[a] + value[t].tag + 1 = Cardinality(Users(a))
    /\ ~Published(a) /\ Adding(a) = {} => active_threads[a] = Cardinality(Users(a))

(* The thread that runs finish owns the task: no other thread works on it  *)
(* or can find it, so take_data may free it (worker.rs 266-271); and no    *)
(* thread ever works on an address that is free.                           *)
ExclusiveFinish ==
  \A t \in Threads : task[t] # Null =>
    /\ kind[task[t]] # "free"
    /\ pc[t] \in {"start", "finish"} =>
         /\ \A u \in Threads \ {t} : task[u] # task[t]
         /\ ~Published(task[t])

(* A null pointer is counted on at most once by each other thread          *)
(* (worker.rs 199-204): its tag cannot grow into the pointer bits.         *)
NullTagBound ==
  \A s \in Threads : activities[s].ptr = Null =>
    activities[s].tag
      + Cardinality({t \in Threads : pc[t] = "join" /\ other[t] = s}) <= N - 1

(* start_task stores over a null pointer: it loses no other task, and the  *)
(* references on a null pointer need not be kept (worker.rs 245-247).      *)
SlotEmptyAtStart ==
  \A t \in Threads : pc[t] = "start" => activities[t].ptr = Null

(* is_finished is set only when nothing is left: not in a deque, not in a  *)
(* slot, not with a thread.  A thread that returns abandons no work        *)
(* (worker.rs 125-127).                                                    *)
FinishMeansDone ==
  is_finished =>
    /\ \A t \in Threads : deque[t] = <<>> /\ task[t] = Null /\ activities[t].ptr = Null
    /\ \A a \in Addrs : kind[a] = "free"

-----------------------------------------------------------------------------
(***************************************************************************)
(* The invariant that makes ReferenceCount and ExclusiveFinish inductive:  *)
(* where a task is, and what each of the threads that know it may do.      *)
(***************************************************************************)

Queued(a) == \E t \in Threads : \E i \in DOMAIN deque[t] : deque[t][i] = a

(* Nobody has entered the task yet.                                        *)
Fresh(a) == Queued(a) \/ \E t \in Threads : pc[t] = "start" /\ task[t] = a

(* A queued task is in one place, and nobody has started it.               *)
QueueInv ==
  /\ \A t, u \in Threads : \A i \in DOMAIN deque[t], j \in DOMAIN deque[u] :
       deque[t][i] = deque[u][j] => t = u /\ i = j
  /\ \A a \in Addrs : Queued(a) =>
       /\ kind[a] # "free"
       /\ \A t \in Threads : task[t] # a

(* What the program counter of a thread says about its task and signal.    *)
ThreadInv ==
  \A t \in Threads :
    /\ (task[t] # Null) <=> (pc[t] \in Working \cup {"start", "finish"})
    /\ pc[t] \in {"signal", "cas", "add"} => state[t] # "DidSignal"
    /\ pc[t] = "cas" => state[t] = "Assist"
    /\ pc[t] = "end" => state[t] = "DidSignal"
    /\ pc[t] \in {"cas", "add"} => value[t].ptr = task[t]
    /\ pc[t] = "join" => other[t] # t

(* A slot holds the task of its own thread, which has not signalled yet;   *)
(* the other threads that use the task joined it there and neither have.   *)
SlotInv ==
  \A s \in Threads : activities[s].ptr # Null =>
    /\ task[s] = activities[s].ptr
    /\ pc[s] \in {"enter", "next", "body", "signal"}
    /\ state[s] = "Main"
    /\ \A t \in Threads \ {s} : task[t] = activities[s].ptr =>
         state[t] = "Assist" /\ other[t] = s /\ pc[t] # "add"

(* One thread at a time carries references over, from the slot it emptied. *)
AddInv ==
  \A t \in Threads : pc[t] = "add" =>
    \A u \in Threads \ {t} : task[u] = task[t] => pc[u] # "add"

(* The client's count is that of its tasks and of the finish functions     *)
(* that have not counted down yet.                                         *)
PendingInv ==
  /\ pending = Cardinality({a \in Addrs : kind[a] # "free"})
             + Cardinality({t \in Threads : pc[t] = "after"})
  /\ is_finished => pending = 0

ProtocolInv ==
  /\ ProtocolTypeOK
  /\ QueueInv
  /\ ThreadInv
  /\ SlotInv
  /\ AddInv
  /\ PendingInv
  /\ ReferenceCount
  /\ ExclusiveFinish
  /\ NullTagBound
=============================================================================
