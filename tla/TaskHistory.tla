---------------------------- MODULE TaskHistory ----------------------------
(***************************************************************************)
(* History variables of AssistProtocol for the refinement of AssistClient: *)
(* an address is reused, but a task of AssistClient is known for ever.     *)
(***************************************************************************)
EXTENDS AssistProtocol

VARIABLES
  identity,  \* identity[a]: the task at a, as a member of AssistClient's Tasks
  ended,     \* the addresses of the tasks a thread has stopped claiming of
  retired    \* the tasks that were freed

history == <<identity, ended, retired>>

NoIdentity == <<0, <<"none", 0>>>>

(* works[a] is the kind and the work size of the task at a, in HistoryNext *)
(* after the step.                                                         *)
HistoryInit(works) ==
  /\ identity = [a \in Addrs |-> IF kind[a] = "free" THEN NoIdentity ELSE <<1, works[a]>>]
  /\ ended = {}
  /\ retired = {}

HistoryNext(works) ==
  LET freed == {a \in Addrs : kind[a] # "free" /\ kind'[a] = "free"}
      fresh == {a \in Addrs : kind[a] = "free" /\ kind'[a] # "free"}
  IN  /\ identity' = [a \in Addrs |->
           IF a \in fresh THEN <<created', works[a]>>
           ELSE IF a \in freed THEN NoIdentity ELSE identity[a]]
      /\ ended' = (ended \cup {task[t] : t \in {u \in Threads : pc'[u] = "end"}}) \ freed
      /\ retired' = retired \cup {identity[a] : a \in freed}

-----------------------------------------------------------------------------
(* The variables of AssistClient.                                          *)

Started == {a \in Addrs : kind[a] # "free" /\ ~Fresh(a)}

queued == {identity[a] : a \in {b \in Addrs : Fresh(b)}}
open   == {identity[a] : a \in {b \in Started : kind[b] = "loop" /\ b \notin ended}}

(* Claimed(a) is the set of chunks claimed of a task that was started.     *)
ClaimedOf(i, Claimed(_)) ==
  IF i \in retired THEN 0 .. i[2][2] - 1
  ELSE UNION {Claimed(a) : a \in {b \in Started : identity[b] = i}}

(* Where a thread is outside its chunk loop.                               *)
LabelOutside(t) ==
  CASE pc[t] = "end"                           -> "leave"
    [] pc[t] \in {"finish", "after", "returned"} -> pc[t]
    [] OTHER                                   -> "idle"

TaskOf(t) ==
  IF task[t] = Null \/ pc[t] = "start" THEN NoIdentity ELSE identity[task[t]]

-----------------------------------------------------------------------------
(* A task keeps its identity until it is freed; no two tasks have the same.*)
IdentityInv(works) ==
  /\ identity = [a \in Addrs |-> IF kind[a] = "free" THEN NoIdentity
                                  ELSE <<identity[a][1], works[a]>>]
  /\ \A a, b \in Addrs :
       kind[a] # "free" /\ identity[a][1] = identity[b][1] => a = b
  /\ \A a \in Addrs : kind[a] # "free" => identity[a][1] \in 1 .. created
  /\ \A i \in retired :
       i[1] \in 1 .. created /\ \A a \in Addrs : identity[a][1] # i[1]

(* Nobody joins a task that a thread has stopped claiming of, and a task   *)
(* with a loop is not finished before.                                     *)
EndedInv ==
  /\ \A a \in ended : a \in Addrs /\ kind[a] # "free" /\ ~Fresh(a) /\ ~Published(a)
  /\ \A t \in Threads :
       pc[t] = "end" \/ (pc[t] = "finish" /\ kind[task[t]] = "loop") => task[t] \in ended
=============================================================================
