-------------------------- MODULE MultiAtomicsPool --------------------------
(***************************************************************************)
(* MultiAtomics implements AssistClient: what the modules of the programs  *)
(* assume of their worker, AssistPool, is what this scheduler offers.  In  *)
(* particular, a thread leaves a task with chunks left only when another   *)
(* thread is there to claim them.                                          *)
(***************************************************************************)
EXTENDS MultiAtomics, TaskHistory

WorkOf == [a \in Addrs |-> <<kind[a], PoolSize(a)>>]

StartHistory == Init /\ HistoryInit(WorkOf)

HistorySpec ==
  /\ StartHistory
  /\ [][Next /\ HistoryNext(WorkOf')]_<<vars, history>>

FairHistorySpec == HistorySpec /\ \A t \in Threads : WF_vars(Step(t))

LabelOf(t) ==
  CASE pc[t] \in {"enter", "next", "signal", "cas", "add"} -> "claim"
    [] pc[t] = "body" -> "run"
    [] OTHER          -> LabelOutside(t)

ChunkOf(t) == IF pc[t] = "body" THEN chunk[t] ELSE -1

Works == {<<"single", 0>>} \cup {<<"loop", n>> : n \in Sizes}

(* The variables of AssistClient, next to those of TaskHistory.            *)
ClaimedBar == [i \in (1 .. MaxTasks) \X Works |-> ClaimedOf(i, Claimed)]
PcBar      == [t \in Threads |-> LabelOf(t)]
TaskBar    == [t \in Threads |-> TaskOf(t)]
ChunkBar   == [t \in Threads |-> ChunkOf(t)]

Client == INSTANCE AssistClient WITH
  claimed <- ClaimedBar, pc <- PcBar, task <- TaskBar, chunk <- ChunkBar
ImplementsAssistPool == Client!Spec
=============================================================================
