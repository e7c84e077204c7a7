----------------------------- MODULE LudStages -----------------------------
(***************************************************************************)
(* Why Lud is correct: at any time each matrix is in one stage of one      *)
(* iteration, and the stage tells which tasks of the matrix there are, who *)
(* goes on with the matrix, what synchronisation_var counts and how often  *)
(* each cell was updated.                                                  *)
(***************************************************************************)
EXTENDS Lud

-----------------------------------------------------------------------------
(* The threads and the tasks.                                              *)

Finishing(t) == pc[t] \in FinishLabels /\ task[t] # InitTask

(* A thread that goes on claiming chunks.                                  *)
Looping(t) == task[t] # NoTask /\ pc[t] # "leave" /\ ~Finishing(t)

Carries(t) == pc[t] = "run" \/ (pc[t] = "copy" /\ chunk[t] # NoChunk)

Done(a, c) ==
  /\ c \in claimed[a]
  /\ \A t \in Threads : task[t] = a /\ Carries(t) => chunk[t] # c

Live(a) == a \in queued \/ \E t \in Threads : task[t] = a

Absent(a) == ~Live(a) /\ claimed[a] = {}

LabelsOf(kind) ==
  {"assist", "claim", "run", "leave"} \cup
  CASE kind = "init"  -> {"iterate", "pushLeft", "pushTop", "stop"}
    [] kind = "inner" -> {"count", "diagonal", "iterate", "pushLeft", "pushTop", "stop"}
    [] OTHER          -> {"copy", "cas", "store", "pushInner"}

(* The tile operation at the label of a thread.                            *)
Operation(t) ==
  CASE pc[t] = "copy"     -> Work("copy", Matrix(t), Offset(t), 0)
    [] pc[t] = "run"      -> ChunkWork(t)
    [] pc[t] = "diagonal" -> Work("diagonal", Matrix(t), Offset(t) + 1, 0)

ThreadInv(t) ==
  /\ task[t] = NoTask => pc[t] \in {"idle", "returned"}
  /\ task[t] # NoTask => pc[t] \in LabelsOf(task[t].kind)
  /\ Carries(t) => chunk[t] \in claimed[task[t]]
  /\ task[t] = InitTask /\ pc[t] \in {"iterate", "pushLeft", "pushTop"}
       => chunk[t] \in claimed[InitTask]
  /\ pc[t] = "leave" => task[t] \notin open
  /\ work[t] # NoWork => pc[t] \in {"copy", "run", "diagonal"} /\ work[t] = Operation(t)
  /\ Finishing(t) =>
       /\ task[t] \notin open /\ Unclaimed(task[t]) = {}
       /\ \A u \in Threads \ {t} : task[u] # task[t]
  /\ \A u \in Threads \ {t} :
       task[u] = task[t] /\ Carries(t) /\ Carries(u) => chunk[u] # chunk[t]

TaskInv(a) ==
  /\ a \in queued => Size(a) > 0 /\ claimed[a] = {} /\ \A t \in Threads : task[t] # a
  /\ a \in open => \E t \in Threads : task[t] = a /\ Looping(t)
  /\ \/ a \in queued
     \/ \E t \in Threads : task[t] = a /\ Looping(t)
     \/ Unclaimed(a) = {}
     \/ Absent(a)

PoolInv ==
  /\ \A t \in Threads : ThreadInv(t)
  /\ \A a \in Tasks : TaskInv(a)

-----------------------------------------------------------------------------
(* The stages of an iteration; a matrix starts in "first".                 *)

Stages == {"first", "iterate", "pushLeft", "pushTop", "borders", "store", "pushInner",
           "interior", "diagonal", "ahead", "done"}

CreatedKinds(s) ==
  CASE s = "pushTop" -> {"left"}
    [] s \in {"borders", "store", "pushInner"} -> {"left", "top"}
    [] s \in {"interior", "diagonal", "ahead"} -> {"left", "top", "inner"}
    [] OTHER -> {}

RunningKinds(s) ==
  CASE s = "pushTop" -> {"left"}
    [] s = "borders" -> {"left", "top"}
    [] s \in {"interior", "diagonal", "ahead"} -> {"inner"}
    [] OTHER -> {}

TasksInStage(m, k, s) ==
  \A a \in Tasks \ {InitTask} :
    a.matrix = m =>
      /\ Running(a) => a.offset = k /\ a.kind \in RunningKinds(s)
      /\ a.offset = k => (Absent(a) <=> a.kind \notin CreatedKinds(s))
      /\ a.offset > k => Absent(a)

IterationLabels == {"iterate", "pushLeft", "pushTop"}
DriverLabels == IterationLabels \cup {"store", "pushInner", "diagonal"}

(* The threads that are at a label for iteration k of matrix m.            *)
Acting(label, m, k) ==
  {t \in Threads :
     /\ pc[t] = label /\ IterationMatrix(t) = m
     /\ k = IF label \in IterationLabels THEN IterationOffset(t) ELSE Offset(t)}

ThreadsInStage(m, k, s) ==
  /\ \A label \in DriverLabels, j \in 0 .. Tiles :
       IF label = s /\ j = k THEN \E t \in Threads : Acting(label, m, j) = {t}
                             ELSE Acting(label, m, j) = {}
  /\ \A j \in 0 .. Tiles :
       Acting("cas", m, j) # {} => j = k /\ s \in {"pushTop", "borders"}

SyncInStage(m, k, s) ==
  /\ s \in {"pushLeft", "pushTop", "borders"} =>
       sync[m] = IF \A kind \in CreatedKinds(s) : Live(Task(kind, m, k)) THEN 0 ELSE 1
  /\ s = "pushInner" => sync[m] = Parts
  /\ s \in {"interior", "diagonal", "ahead"} =>
       /\ sync[m] = Cardinality(Acting("count", m, k))
                      + Cardinality({x \in TileCells(m, k + 1, k + 1) : version[x] = k})
       /\ s = "interior" <=> sync[m] # 0

(* The task and the chunk that update a cell in iteration k.               *)
Owner(x, k) ==
  Task(IF x[4] = k THEN "left" ELSE IF x[2] = k THEN "top" ELSE "inner", x[1], k)

OwnerChunk(x, k) ==
  IF x[4] = k THEN x[2] - k - 1
  ELSE IF x[2] = k THEN x[4] - k - 1
  ELSE (x[4] - k - 1) * Rows(k) + (x[2] - k - 1) * Parts + x[3]

VersionIn(k, s, x) ==
  IF Final(x) <= k THEN Final(x)
  ELSE IF x[2] = k /\ x[4] = k THEN IF s = "first" THEN 0 ELSE k + 1
  ELSE IF ~Done(Owner(x, k), OwnerChunk(x, k)) THEN k
  ELSE IF s = "ahead" /\ x[2] = k + 1 /\ x[4] = k + 1 THEN k + 2
  ELSE k + 1

StageInv(m, k, s) ==
  /\ s = "first" <=> ~Done(InitTask, m)
  /\ s = "first" => k = 0
  /\ s = "done" => k = Tiles - 1
  /\ s \notin {"first", "iterate", "done"} => k + 1 < Tiles
  /\ TasksInStage(m, k, s)
  /\ ThreadsInStage(m, k, s)
  /\ SyncInStage(m, k, s)
  /\ \A x \in Cells : x[1] = m => version[x] = VersionIn(k, s, x)

StagesInv ==
  \E stage \in [MatrixIds -> Stages], iteration \in [MatrixIds -> Offsets] :
    /\ \A m \in MatrixIds : StageInv(m, iteration[m], stage[m])
    /\ pending = Cardinality({m \in MatrixIds : stage[m] # "done"})

(* One thread finishes the pool, after all matrices.                       *)
StopInv ==
  /\ is_finished => pending = 0
  /\ \A t \in Threads : pc[t] = "stop" =>
       /\ pending = 0 /\ ~is_finished
       /\ \A u \in Threads \ {t} : pc[u] # "stop"

(* synchronisation_var serves one iteration at a time, in one role at a    *)
(* time, and lets one thread go on from each.                              *)
SyncInv ==
  /\ TypeOK
  /\ OneIteration
  /\ FirstTileCounted
  /\ CreatedOnce
  /\ PoolInv
  /\ StagesInv
  /\ StopInv
=============================================================================
