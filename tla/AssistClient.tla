---------------------------- MODULE AssistClient ----------------------------
(***************************************************************************)
(* The client of AssistProtocol on the worker of AssistPool: a chunk and   *)
(* a finish function may create tasks, which are counted, and the finish   *)
(* function that counts down to zero finishes the pool.  The modules of    *)
(* the parallel programs are such clients; both schedulers are shown to    *)
(* implement this specification, so that AssistPool is what they offer.    *)
(***************************************************************************)
EXTENDS Integers

CONSTANTS
  N,         \* number of threads
  MaxTasks,  \* bound: number of tasks the client creates
  Works      \* what it creates: <<"single", 0>>, or <<"loop", work_size>>

(* A task is its number, by creation, and its kind and work size.          *)
Tasks   == (1 .. MaxTasks) \X Works
NoTask  == <<0, <<"none", 0>>>>
Size(a) == a[2][2]

Entry(a) == IF a[2][1] = "single" THEN "none" ELSE "loop"
After(a) == "leave"
Exit(a)  == "finish"

VARIABLES
  pending,   \* tasks created and not finished
  created,   \* tasks created so far
  queued, open, claimed, is_finished, pc, task, chunk  \* see AssistPool

INSTANCE AssistPool

counts == <<pending, created>>
vars   == <<counts, queued, open, claimed, is_finished, pc, task, chunk>>

Init ==
  /\ \E w \in Works : PoolInit(<<1, w>>, Tasks)
  /\ pending = 1
  /\ created = 1

CreateTask(t) ==
  /\ pc[t] \in {"run", "after"}
  /\ created < MaxTasks
  /\ \E w \in Works : Push(<<created + 1, w>>)
  /\ pending' = pending + 1
  /\ created' = created + 1
  /\ UNCHANGED <<open, claimed, is_finished, pc, task, chunk>>

RunChunk(t) ==
  /\ pc[t] = "run"
  /\ Hold(t, NoChunk)
  /\ Goto(t, "claim")
  /\ UNCHANGED <<counts, queued, open, claimed, is_finished, task>>

TakeData(t) ==
  /\ pc[t] = "finish"
  /\ task' = [task EXCEPT ![t] = NoTask]
  /\ Goto(t, "after")
  /\ UNCHANGED <<counts, queued, open, claimed, is_finished, chunk>>

CountDown(t) ==
  /\ pc[t] = "after"
  /\ pending' = pending - 1
  /\ is_finished' = (is_finished \/ pending = 1)
  /\ Goto(t, "idle")
  /\ UNCHANGED <<created, queued, open, claimed, task, chunk>>

Step(t) ==
  \/ PoolStep(t) /\ UNCHANGED counts
  \/ CreateTask(t)
  \/ RunChunk(t)
  \/ TakeData(t)
  \/ CountDown(t)

Next == \E t \in Threads : Step(t)

Spec == Init /\ [][Next]_vars
=============================================================================
