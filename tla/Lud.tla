--------------------------------- MODULE Lud ---------------------------------
(***************************************************************************)
(* The work-assisting LU decomposition of src/cases/lud/our.rs.  Each      *)
(* iteration of a matrix is a task for the left border, one for the top    *)
(* border and one for the interior; the thread that completes the first    *)
(* tile of the interior decomposes the diagonal tile of the next           *)
(* iteration.  It runs on the workers of AssistPool.                       *)
(***************************************************************************)
EXTENDS LuTiles, FiniteSets

CONSTANT N   \* number of threads

ASSUME LudAssumption == N \in Nat \ {0}

(* A data-parallel task: its functions and the Data they get.  There is    *)
(* one of each kind per matrix and iteration; "init" is the first task.    *)
Task(kind, m, k) == [kind |-> kind, matrix |-> m, offset |-> k]
InitTask == Task("init", 0, 0)
Tasks == {InitTask} \cup
  {Task(kind, m, k) : kind \in {"left", "top", "inner"}, m \in MatrixIds, k \in Offsets}

Size(a) ==
  CASE a.kind = "init"  -> Matrices
    [] a.kind = "inner" -> InteriorChunks(a.offset)
    [] OTHER            -> BorderChunks(a.offset)

NoTask == [kind |-> "none"]
NoWork == [kind |-> "none"]

VARIABLES
  version,     \* version[x]: updates of cell x, for what the matrix contains
  queued, open, claimed, is_finished, pc, task, chunk,  \* see AssistPool
  sync,        \* sync[m]: synchronisation_var of matrix m
  pending,     \* matrices not decomposed yet
  work         \* work[t]: the tile operation t is executing

(* The border tasks copy a tile before their loop.                         *)
Entry(a) == IF a.kind \in {"left", "top"} THEN "copy" ELSE "loop"

After(a) == "leave"

Exit(a) ==
  CASE a.kind = "init"  -> "idle"
    [] a.kind = "inner" -> "iterate"
    [] OTHER            -> "cas"

INSTANCE AssistPool

\* What a function of a task leaves to the pool.
scheduling == <<open, claimed, is_finished, chunk>>

poolVars == <<queued, scheduling, pc, task>>
ludVars == <<version, sync, pending, work>>
vars == <<poolVars, ludVars>>

Labels == PoolLabels \cup
  {"copy", "run", "count", "diagonal", "iterate", "pushLeft", "pushTop", "stop",
   "cas", "store", "pushInner"}

(* The values of the variables that the operations rely on.                *)
TypeOK ==
  /\ version \in [Cells -> 0 .. Tiles]
  /\ queued \subseteq Tasks
  /\ open \subseteq Tasks \ queued
  /\ claimed \in [Tasks -> SUBSET Nat]
  /\ \A a \in Tasks : claimed[a] \subseteq 0 .. Size(a) - 1
  /\ sync \in [MatrixIds -> 0 .. Parts]
  /\ pending \in 0 .. Matrices
  /\ is_finished \in BOOLEAN
  /\ pc \in [Threads -> Labels]
  /\ task \in [Threads -> Tasks \cup {NoTask}]
  /\ chunk \in [Threads -> Int]
  /\ \A t \in Threads : pc[t] = "run" => chunk[t] \in 0 .. Size(task[t]) - 1
  /\ work \in [Threads -> Works \cup {NoWork}]

Init ==
  /\ version = [x \in Cells |-> 0]
  /\ PoolInit(InitTask, Tasks)
  /\ sync = [m \in MatrixIds |-> 0]
  /\ pending = Matrices
  /\ work = [t \in Threads |-> NoWork]

Matrix(t) == task[t].matrix
Offset(t) == task[t].offset

-----------------------------------------------------------------------------
(* Tile operations take time: they begin and end.                          *)

Begin(t, w) ==
  /\ work[t] = NoWork
  /\ work' = [work EXCEPT ![t] = w]
  /\ UNCHANGED <<version, poolVars, sync, pending>>

End(t, label) ==
  /\ work[t] # NoWork
  /\ work' = [work EXCEPT ![t] = NoWork]
  /\ version' = [x \in Cells |->
       IF x \in Writes(work[t]) THEN version[x] + 1 ELSE version[x]]
  /\ Goto(t, label)
  /\ UNCHANGED <<queued, scheduling, task, sync, pending>>

(* border_init at the start of the border tasks.                           *)
BorderInit(t) ==
  /\ pc[t] = "copy"
  /\ \/ Begin(t, Work("copy", Matrix(t), Offset(t), 0))
     \/ End(t, LoopLabel(chunk[t]))

(* The body of the loop for chunk[t].                                      *)
ChunkWork(t) ==
  CASE task[t].kind = "init"  -> Work("diagonal", chunk[t], 0, 0)
    [] task[t].kind = "inner" -> Work("interior", Matrix(t), Offset(t), chunk[t])
    [] OTHER -> Work(task[t].kind, Matrix(t), Offset(t), chunk[t])

\* Mutated: the diagonal tile is left to nobody.
AfterChunkNone(t) == IF task[t].kind = "init" THEN "iterate" ELSE "claim"

AfterChunk(t) ==
  CASE task[t].kind = "init"  -> "iterate"
    [] task[t].kind = "inner" ->
         IF InFirstTile(Offset(t), chunk[t]) THEN "count" ELSE "claim"
    [] OTHER -> "claim"

RunChunk(t) ==
  /\ pc[t] = "run"
  /\ Begin(t, ChunkWork(t)) \/ End(t, AfterChunk(t))

CountFirstTile(t) ==
  /\ pc[t] = "count"
  /\ sync' = [sync EXCEPT ![Matrix(t)] = @ - 1]
  /\ Goto(t, IF sync[Matrix(t)] = 1 THEN "diagonal" ELSE "claim")
  /\ UNCHANGED <<version, queued, scheduling, task, pending, work>>

NextDiagonal(t) ==
  /\ pc[t] = "diagonal"
  /\ Begin(t, Work("diagonal", Matrix(t), Offset(t) + 1, 0)) \/ End(t, "claim")

-----------------------------------------------------------------------------
(* start_iteration: called in a chunk of the first task, and in the finish *)
(* function of the interior.                                               *)

IterationMatrix(t) == IF task[t] = InitTask THEN chunk[t] ELSE Matrix(t)
IterationOffset(t) == IF task[t] = InitTask THEN 0 ELSE Offset(t) + 1

(* Back to the loop of the first task, or to the pool.                     *)
AfterIteration(t) ==
  IF task[t] = InitTask
    THEN Goto(t, "claim") /\ UNCHANGED task
    ELSE Leave(t)

StartIteration(t) ==
  /\ pc[t] = "iterate"
  /\ IF IterationOffset(t) + 1 >= Tiles
       THEN /\ pending' = pending - 1
            /\ IF pending = 1 THEN Goto(t, "stop") /\ UNCHANGED task
                              ELSE AfterIteration(t)
            /\ UNCHANGED sync
       ELSE /\ sync' = [sync EXCEPT ![IterationMatrix(t)] = 0]
            /\ Goto(t, "pushLeft")
            /\ UNCHANGED <<pending, task>>
  /\ UNCHANGED <<version, queued, scheduling, work>>

PushLeft(t) ==
  /\ pc[t] = "pushLeft"
  /\ Push(Task("left", IterationMatrix(t), IterationOffset(t)))
  /\ Goto(t, "pushTop")
  /\ UNCHANGED <<version, scheduling, task, sync, pending, work>>

PushTop(t) ==
  /\ pc[t] = "pushTop"
  /\ Push(Task("top", IterationMatrix(t), IterationOffset(t)))
  /\ AfterIteration(t)
  /\ UNCHANGED <<version, scheduling, sync, pending, work>>

Stop(t) ==
  /\ pc[t] = "stop"
  /\ Finish
  /\ AfterIteration(t)
  /\ UNCHANGED <<version, queued, open, claimed, chunk, sync, pending, work>>

-----------------------------------------------------------------------------
(* task_border_finish, of the left and of the top border: the second to    *)
(* come starts the interior.                                               *)

\* Mutated: no border is the second, nobody starts the interior.
BorderIsFirstAlways(t) == TRUE

BorderIsFirst(t) == sync[Matrix(t)] = 0

CompareExchange(t) ==
  /\ pc[t] = "cas"
  /\ IF BorderIsFirst(t)
       THEN /\ sync' = [sync EXCEPT ![Matrix(t)] = 1]
            /\ Leave(t)
       ELSE Goto(t, "store") /\ UNCHANGED <<sync, task>>
  /\ UNCHANGED <<version, queued, scheduling, pending, work>>

\* Mutated: the count is left at the 1 of the compare-exchange.
FirstTileParts1 == 1

FirstTileParts == Parts

StoreFirstTile(t) ==
  /\ pc[t] = "store"
  /\ sync' = [sync EXCEPT ![Matrix(t)] = FirstTileParts]
  /\ Goto(t, "pushInner")
  /\ UNCHANGED <<version, queued, scheduling, task, pending, work>>

PushInner(t) ==
  /\ pc[t] = "pushInner"
  /\ Push(Task("inner", Matrix(t), Offset(t)))
  /\ Leave(t)
  /\ UNCHANGED <<version, scheduling, sync, pending, work>>

-----------------------------------------------------------------------------
Step(t) ==
  \/ PoolStep(t) /\ UNCHANGED ludVars
  \/ BorderInit(t)
  \/ RunChunk(t)
  \/ CountFirstTile(t)
  \/ NextDiagonal(t)
  \/ StartIteration(t)
  \/ PushLeft(t)
  \/ PushTop(t)
  \/ Stop(t)
  \/ CompareExchange(t)
  \/ StoreFirstTile(t)
  \/ PushInner(t)

Next == \E t \in Threads : Step(t)

Spec == Init /\ [][Next]_vars

(* Every thread is scheduled, takes tasks and leaves when the pool is      *)
(* finished; nobody need assist.                                           *)
FairSpec == Spec /\ \A t \in Threads : WF_vars(Step(t))

-----------------------------------------------------------------------------
(* The decomposition is correct: operations start on final values, after   *)
(* the updates they follow, without a data race, and the pool is finished  *)
(* when all matrices are decomposed (the comment in lud/our.rs 12-22).     *)
Abstract == INSTANCE LuDecomposition
  WITH working <- {work[t] : t \in Threads} \ {NoWork}, stopped <- is_finished
ImplementsLu == Abstract!Spec

FinishLabels == {"iterate", "pushLeft", "pushTop", "stop", "cas", "store", "pushInner"}

(* Task a waits or has chunks executed; its finish function was not called.*)
Running(a) ==
  a \in queued \/ \E t \in Threads : task[t] = a /\ pc[t] \notin FinishLabels

(* A matrix is in one iteration at a time, in its borders or its interior: *)
(* both borders have ended when the interior starts, and that ended when   *)
(* the borders of the next iteration start, which use the same             *)
(* synchronisation_var in another role (start_iteration, task_border_finish). *)
OneIteration ==
  \A a, b \in Tasks \ {InitTask} :
    Running(a) /\ Running(b) /\ a # b /\ a.matrix = b.matrix
      => a.offset = b.offset /\ {a.kind, b.kind} = {"left", "top"}

(* In the interior synchronisation_var is the number of blocks of the      *)
(* first tile that are not counted yet, so that exactly one thread, the    *)
(* last, goes on with the diagonal tile (task_inner_go).                   *)
FirstTileCounted ==
  \A a \in Tasks :
    a.kind = "inner" /\ Running(a) =>
      LET k == a.offset
          Uncounted == {t \in Threads : task[t] = a /\ pc[t] = "count"}
      IN  sync[a.matrix] = Cardinality(Uncounted)
            + Cardinality({x \in TileCells(a.matrix, k + 1, k + 1) : version[x] = k})

Pushed(t) ==
  Task(CASE pc[t] = "pushLeft"  -> "left"
         [] pc[t] = "pushTop"   -> "top"
         [] pc[t] = "pushInner" -> "inner",
       IterationMatrix(t), IF pc[t] = "pushInner" THEN Offset(t) ELSE IterationOffset(t))

(* No task is created twice: when it is pushed it is not there, was not    *)
(* there and is not about to be pushed by another thread.                  *)
CreatedOnce ==
  LET Pushing == {t \in Threads : pc[t] \in {"pushLeft", "pushTop", "pushInner"}}
  IN  \A t \in Pushing :
        /\ Pushed(t) \notin queued \cup open /\ claimed[Pushed(t)] = {}
        /\ \A u \in Threads : task[u] # Pushed(t)
        /\ \A u \in Pushing \ {t} : Pushed(u) # Pushed(t)

(* Every matrix is decomposed and every thread returns.                    *)
Termination == <>(\A t \in Threads : pc[t] = "returned")
=============================================================================
