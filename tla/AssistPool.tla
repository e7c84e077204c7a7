----------------------------- MODULE AssistPool -----------------------------
(***************************************************************************)
(* The worker of a work-assisting scheduler as the functions of a task see *)
(* it, for the modules of the parallel programs in src/cases.  It allows   *)
(* what either scheduler does (WorkAssisting, MultiAtomics): a thread      *)
(* takes a task that was pushed or joins one that is open, claims chunks   *)
(* that nobody claimed, and leaves; the task is closed before any thread   *)
(* has left, and the last thread to leave runs the finish function.        *)
(***************************************************************************)
EXTENDS Integers

CONSTANTS
  N,         \* number of threads
  Size(_),   \* work_size of a task
  Entry(_),  \* first label of the work function, "loop" for its work_loop,
             \* "none" when the task is made by new_single
  After(_),  \* label after the work_loop, "leave" if the function ends there
  Exit(_),   \* first label of the finish function, "idle" if it does nothing
  NoTask

Threads == 0 .. N - 1

VARIABLES
  queued,      \* tasks pushed and not started
  open,        \* tasks a thread may join
  claimed,     \* claimed[a]: the chunks of a that were claimed
  is_finished, \* finish was called on the pool
  pc,
  task,        \* task[t]: the task t works on, or NoTask
  chunk        \* chunk[t]: the chunk t holds, or NoChunk

NoChunk == -1

PoolLabels == {"idle", "assist", "claim", "leave", "returned"}

PoolInit(initial_task, tasks) ==
  /\ queued = {initial_task}
  /\ open = {}
  /\ claimed = [a \in tasks |-> {}]
  /\ is_finished = FALSE
  /\ pc = [t \in Threads |-> "idle"]
  /\ task = [t \in Threads |-> NoTask]
  /\ chunk = [t \in Threads |-> NoChunk]

Goto(t, label) == pc' = [pc EXCEPT ![t] = label]

(* The work_loop runs a chunk the thread came with, then claims others.    *)
LoopLabel(c) == IF c = NoChunk THEN "claim" ELSE "run"

EntryLabel(a, c) == IF Entry(a) = "loop" THEN LoopLabel(c) ELSE Entry(a)

Hold(t, c) == chunk' = [chunk EXCEPT ![t] = c]

-----------------------------------------------------------------------------
(* start_task of a task without chunks: only its finish function is called.*)
StartSingle(t) ==
  /\ pc[t] = "idle"
  /\ \E a \in queued :
       /\ Size(a) = 0
       /\ queued' = queued \ {a}
       /\ task' = [task EXCEPT ![t] = a]
       /\ Goto(t, Exit(a))
  /\ UNCHANGED <<open, claimed, is_finished, chunk>>

(* start_task of a task with a loop.  The thread comes with chunk 0        *)
(* (workassisting) or claims its chunks in the loop (multi_atomics, which  *)
(* calls the work function of an empty loop too).                          *)
StartLoop(t) ==
  /\ pc[t] = "idle"
  /\ \E a \in queued :
       /\ Entry(a) # "none"
       /\ queued' = queued \ {a}
       /\ open' = open \cup {a}
       /\ task' = [task EXCEPT ![t] = a]
       /\ \/ /\ Size(a) > 0
             /\ Hold(t, 0)
             /\ claimed' = [claimed EXCEPT ![a] = {0}]
             /\ Goto(t, EntryLabel(a, 0))
          \/ /\ Hold(t, NoChunk)
             /\ UNCHANGED claimed
             /\ Goto(t, EntryLabel(a, NoChunk))
  /\ UNCHANGED is_finished

(* try_assist.  The thread claims its first chunk before the work function *)
(* is called (workassisting), or in its loop (multi_atomics).              *)
JoinTask(t) ==
  /\ pc[t] = "idle"
  /\ \E a \in open :
       /\ task' = [task EXCEPT ![t] = a]
       /\ Hold(t, NoChunk)
       /\ Goto(t, "assist") \/ Goto(t, EntryLabel(a, NoChunk))
  /\ UNCHANGED <<queued, open, claimed, is_finished>>

Unclaimed(a) == (0 .. Size(a) - 1) \ claimed[a]

ClaimChunk(t) ==
  /\ pc[t] \in {"assist", "claim"}
  /\ LET a == task[t]
     IN  \E c \in Unclaimed(a) :
           /\ claimed' = [claimed EXCEPT ![a] = @ \cup {c}]
           /\ Hold(t, c)
           /\ Goto(t, IF pc[t] = "assist" THEN EntryLabel(a, c) ELSE "run")
  /\ UNCHANGED <<queued, open, is_finished, task>>

(* The others on the task that go on claiming chunks.                      *)
Others(t) ==
  {u \in Threads \ {t} : task[u] = task[t] /\ pc[u] \notin {"leave", After(task[t])}}

(* No chunk is left, or none in the atomics the thread has drawn: then     *)
(* another thread is there to claim it.  The task is closed.  A thread     *)
(* that claims no first chunk does not call the work function.             *)
EndLoop(t) ==
  /\ pc[t] \in {"assist", "claim"}
  /\ Unclaimed(task[t]) = {} \/ Others(t) # {}
  /\ open' = open \ {task[t]}
  /\ Hold(t, NoChunk)
  /\ Goto(t, IF pc[t] = "assist" THEN "leave" ELSE After(task[t]))
  /\ UNCHANGED <<queued, claimed, is_finished, task>>

(* A thread is done with its task.                                         *)
Leave(t) ==
  /\ Goto(t, "idle")
  /\ task' = [task EXCEPT ![t] = NoTask]

(* end_task: the last thread calls the finish function.                    *)
EndTask(t) ==
  /\ pc[t] = "leave"
  /\ IF Exit(task[t]) = "idle" \/ \E u \in Threads \ {t} : task[u] = task[t]
       THEN Leave(t)
       ELSE Goto(t, Exit(task[t])) /\ UNCHANGED task
  /\ UNCHANGED <<queued, open, claimed, is_finished, chunk>>

Return(t) ==
  /\ pc[t] = "idle"
  /\ is_finished
  /\ Goto(t, "returned")
  /\ UNCHANGED <<queued, open, claimed, is_finished, task, chunk>>

PoolStep(t) ==
  \/ StartSingle(t)
  \/ StartLoop(t)
  \/ JoinTask(t)
  \/ ClaimChunk(t)
  \/ EndLoop(t)
  \/ EndTask(t)
  \/ Return(t)

-----------------------------------------------------------------------------
(* What the functions of a task may do with the workers they get.          *)

Push(a) == queued' = queued \cup {a}

Finish == is_finished' = TRUE
=============================================================================
