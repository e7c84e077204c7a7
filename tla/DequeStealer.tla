---------------------------- MODULE DequeStealer ----------------------------
(***************************************************************************)
(* The work-stealing pool of src/utils/deque_stealer.rs, the baseline the  *)
(* work-assisting schedulers are compared with: a deque per thread, an     *)
(* idle thread steals from the others in a circle until the flag finished  *)
(* is set.  What a task does is given by the module that extends this one: *)
(* its actions take a thread from "run" back to "claim".                   *)
(***************************************************************************)
EXTENDS Integers, Sequences, SequencesExt, FiniteSets

CONSTANT
  N   \* thread_count

ASSUME StealerAssumption == N \in Nat \ {0}

Threads == 0 .. N - 1

NoTask == <<>>

VARIABLES
  workers,    \* workers[t]: the deque of thread t, the owner's end last
  finished,   \* the flag finished
  pc,         \* pc[t]: what thread t does next
  other,      \* other[t]: other_index of claim
  task        \* task[t]: the task t executes, or NoTask

stealerVars == <<workers, finished, pc, other, task>>

ClaimLabels == {"claim", "pop", "steal", "recheck", "returned"}

Goto(t, label) == pc' = [pc EXCEPT ![t] = label]

(* The initial tasks are dealt to the deques in turn.                      *)
StealerInit(initial_tasks) ==
  /\ workers = [t \in Threads |->
       LET Mine == {i \in DOMAIN initial_tasks : (i - 1) % N = t}
       IN  [k \in 1 .. Cardinality(Mine) |-> initial_tasks[t + 1 + (k - 1) * N]]]
  /\ finished = FALSE
  /\ pc = [t \in Threads |-> "claim"]
  /\ other = [t \in Threads |-> t]
  /\ task = [t \in Threads |-> NoTask]

Increment(t) == IF t % 2 = 0 THEN 1 ELSE N - 1
NextOther(t) == (other[t] + Increment(t)) % N

-----------------------------------------------------------------------------
(* claim: leave when the work is finished, else take a task.               *)

\* Mutated: a thread without a task of its own waits for one for ever.
LoadFinishedOnce(t) ==
  /\ pc[t] = "claim"
  /\ Goto(t, IF finished THEN "returned" ELSE "pop")
  /\ UNCHANGED <<workers, finished, other, task>>

LoadFinished(t) ==
  /\ pc[t] \in {"claim", "recheck"}
  /\ Goto(t, IF finished THEN "returned"
              ELSE IF pc[t] = "claim" THEN "pop" ELSE "steal")
  /\ UNCHANGED <<workers, finished, other, task>>

(* A thread alone has nobody to steal from.                                *)
LabelAt(t, o) == IF o = t THEN "recheck" ELSE "steal"

PopTask(t) ==
  /\ pc[t] = "pop"
  /\ workers[t] # <<>>
  /\ task' = [task EXCEPT ![t] = Last(workers[t])]
  /\ workers' = [workers EXCEPT ![t] = Front(@)]
  /\ Goto(t, "run")
  /\ UNCHANGED <<finished, other>>

PopNothing(t) ==
  /\ pc[t] = "pop"
  /\ workers[t] = <<>>
  /\ Goto(t, "steal")
  /\ UNCHANGED <<workers, finished, other, task>>

(* The thread looks at the next deque of the circle.  A steal that loses a *)
(* race (Steal::Retry) is no success, like one from an empty deque.        *)
StealTask(t) ==
  /\ pc[t] = "steal"
  /\ LET o == NextOther(t)
     IN  /\ o # t
         /\ workers[o] # <<>>
         /\ task' = [task EXCEPT ![t] = Head(workers[o])]
         /\ workers' = [workers EXCEPT ![o] = Tail(@)]
  /\ other' = [other EXCEPT ![t] = t]
  /\ Goto(t, "run")
  /\ UNCHANGED finished

StealNothing(t) ==
  /\ pc[t] = "steal"
  /\ other' = [other EXCEPT ![t] = NextOther(t)]
  /\ Goto(t, LabelAt(t, NextOther(t)))
  /\ UNCHANGED <<workers, finished, task>>

Claim(t) ==
  \/ LoadFinished(t)
  \/ PopTask(t)
  \/ PopNothing(t)
  \/ StealTask(t)
  \/ StealNothing(t)

-----------------------------------------------------------------------------
(* What a task may do with its worker.                                     *)

PushTask(t, new) == workers' = [workers EXCEPT ![t] = Append(@, new)]

Finish == finished' = TRUE

(* The task's function returns: the thread claims the next one.            *)
Return(t) ==
  /\ task' = [task EXCEPT ![t] = NoTask]
  /\ Goto(t, "claim")
=============================================================================
