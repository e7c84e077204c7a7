------------------------- MODULE WorkAssistingPool -------------------------
(***************************************************************************)
(* WorkAssisting implements AssistClient: what the modules of the programs *)
(* assume of their worker, AssistPool, is what this scheduler offers.      *)
(***************************************************************************)
EXTENDS WorkAssisting, TaskHistory

WorkOf == [a \in Addrs |-> <<kind[a], work_size[a]>>]

StartHistory == Init /\ HistoryInit(WorkOf)

HistorySpec ==
  /\ StartHistory
  /\ [][Next /\ HistoryNext(WorkOf')]_<<vars, history>>

FairHistorySpec == HistorySpec /\ \A t \in Threads : WF_vars(Step(t))

(* The publishing thread comes with chunk 0; a thread that claimed an      *)
(* index past the end holds no chunk, and hides the task before it leaves. *)
LabelOf(t) ==
  CASE pc[t] = "enter" -> IF state[t] = "Main" THEN "run" ELSE "claim"
    [] pc[t] = "body"  -> "run"
    [] pc[t] = "next"  -> "claim"
    [] pc[t] \in {"signal", "cas", "add"} ->
         IF chunk[t] < work_size[task[t]] THEN "run" ELSE "claim"
    [] OTHER           -> LabelOutside(t)

ChunkOf(t) ==
  IF LabelOf(t) # "run" THEN -1 ELSE IF pc[t] = "enter" THEN 0 ELSE chunk[t]

Works == {<<KindOf(n), n>> : n \in Sizes}

(* The variables of AssistClient, next to those of TaskHistory.            *)
ClaimedBar == [i \in (1 .. MaxTasks) \X Works |-> ClaimedOf(i, Claimed)]
PcBar      == [t \in Threads |-> LabelOf(t)]
TaskBar    == [t \in Threads |-> TaskOf(t)]
ChunkBar   == [t \in Threads |-> ChunkOf(t)]

Client == INSTANCE AssistClient WITH
  claimed <- ClaimedBar, pc <- PcBar, task <- TaskBar, chunk <- ChunkBar
ImplementsAssistPool == Client!Spec
=============================================================================
