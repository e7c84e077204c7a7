------------------------------ MODULE TaskPool ------------------------------
(***************************************************************************)
(* What a pool of workers promises to the program that runs on it: every   *)
(* task that is created has each of its chunks executed exactly once, its  *)
(* `finish` function runs once and only when no chunk is outstanding, and  *)
(* the pool stops only when no task is left.  Neither threads nor atomics  *)
(* appear here; the two schedulers of src/schedulers are shown to          *)
(* implement this specification.                                           *)
(***************************************************************************)
EXTENDS Integers

CONSTANTS
  Addrs,   \* addresses a task object can be allocated at; reused when freed
  Sizes    \* the work sizes the program uses; 0 is a task without a loop

Absent == -1

VARIABLES
  size,    \* size[a]: number of chunks of the task at address a, or Absent
  done,    \* done[a]: the chunks of that task that were executed
  stopped  \* Workers::finish was called

vars == <<size, done, stopped>>

Init ==
  \E a \in Addrs, n \in Sizes :
    /\ size = [b \in Addrs |-> IF b = a THEN n ELSE Absent]
    /\ done = [b \in Addrs |-> {}]
    /\ stopped = FALSE

Create(a, n) ==
  /\ ~stopped
  /\ size[a] = Absent
  /\ size' = [size EXCEPT ![a] = n]
  /\ UNCHANGED <<done, stopped>>

RunChunk(a, i) ==
  /\ i \in 0 .. size[a] - 1
  /\ i \notin done[a]
  /\ done' = [done EXCEPT ![a] = @ \cup {i}]
  /\ UNCHANGED <<size, stopped>>

Finish(a) ==
  /\ size[a] # Absent
  /\ done[a] = 0 .. size[a] - 1
  /\ size' = [size EXCEPT ![a] = Absent]
  /\ done' = [done EXCEPT ![a] = {}]
  /\ UNCHANGED stopped

Stop ==
  /\ \A a \in Addrs : size[a] = Absent
  /\ ~stopped
  /\ stopped' = TRUE
  /\ UNCHANGED <<size, done>>

Next ==
  \/ \E a \in Addrs, n \in Sizes : Create(a, n)
  \/ \E a \in Addrs : \E i \in 0 .. size[a] - 1 : RunChunk(a, i)
  \/ \E a \in Addrs : Finish(a)
  \/ Stop

Spec == Init /\ [][Next]_vars
=============================================================================
