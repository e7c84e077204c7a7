----------------------------- MODULE LudStealing -----------------------------
(***************************************************************************)
(* The LU decomposition of src/cases/lud/workstealing.rs, on the pool of   *)
(* DequeStealer: one task per chunk of a border, and tasks for ranges of   *)
(* chunks of the interior that split themselves.  Per matrix, the counters *)
(* synchronisation_var1 and 2 tell a thread that it is the last of the     *)
(* borders, of the first interior tile, or of the interior.                *)
(***************************************************************************)
EXTENDS DequeStealer, LuTiles

VARIABLES
  version,  \* version[x]: updates of cell x, for what the matrix contains
  sync1,    \* synchronisation_var1[m]
  sync2,    \* synchronisation_var2[m]
  pending,  \* matrices not decomposed yet
  work,     \* work[t]: the tile operation t is executing
  subtasks  \* subtasks[t]: the tasks t has still to push

ludVars == <<version, sync1, sync2, pending, work, subtasks>>
vars == <<stealerVars, ludVars>>

NoWork == [kind |-> "none"]

(* Tasks: Start, Border and Interior with their fields.                    *)
StartTask(m) == <<"start", m, 0, 0>>
BorderTask(side, m, k, c) == <<side, m, k, c>>
InteriorTask(m, k, from, to) == <<"interior", m, k, from, to>>

Kind(t)   == task[t][1]
Matrix(t) == task[t][2]
Offset(t) == task[t][3]

Init ==
  /\ version = [x \in Cells |-> 0]
  /\ StealerInit([i \in 1 .. Matrices |-> StartTask(i - 1)])
  /\ sync1 = [m \in MatrixIds |-> 0]
  /\ sync2 = [m \in MatrixIds |-> 0]
  /\ pending = Matrices
  /\ work = [t \in Threads |-> NoWork]
  /\ subtasks = [t \in Threads |-> <<>>]

(* Operations on tiles take time: they begin and end.                      *)
Begin(t, w) ==
  /\ work[t] = NoWork
  /\ work' = [work EXCEPT ![t] = w]
  /\ UNCHANGED <<stealerVars, version, sync1, sync2, pending, subtasks>>

End(t, label) ==
  /\ work[t] # NoWork
  /\ work' = [work EXCEPT ![t] = NoWork]
  /\ version' = [x \in Cells |->
       IF x \in Writes(work[t]) THEN version[x] + 1 ELSE version[x]]
  /\ Goto(t, label)
  /\ UNCHANGED <<workers, finished, other, task, sync1, sync2, pending, subtasks>>

-----------------------------------------------------------------------------
(* schedule_border, at the end of task_start for the first iteration, and  *)
(* of the last task_interior of an iteration for the next.                 *)

NextOffset(t) == IF Kind(t) = "start" THEN 0 ELSE Offset(t) + 1

BorderTasks(m, k) ==
  [i \in 1 .. 2 * BorderChunks(k) |->
     BorderTask(IF i % 2 = 1 THEN "left" ELSE "top", m, k, (i - 1) \div 2)]

BorderCount(k) == 2 * BorderChunks(k)

(* The task goes on to push the given tasks, and then ends.                *)
PushAll(t, new) ==
  /\ subtasks' = [subtasks EXCEPT ![t] = new]
  /\ IF new = <<>> THEN Return(t) ELSE Goto(t, "push") /\ UNCHANGED task

StoreBorderCount(t) ==
  /\ pc[t] = "scheduleBorder"
  /\ sync1' = [sync1 EXCEPT ![Matrix(t)] = BorderCount(NextOffset(t))]
  /\ PushAll(t, BorderTasks(Matrix(t), NextOffset(t)))
  /\ UNCHANGED <<workers, finished, other, version, sync2, pending, work>>

(* A task ends with its last push, but for an interior task, which pushes  *)
(* the rest of its range before it executes its first chunk.               *)
Push(t) ==
  /\ pc[t] \in {"push", "pushRest"}
  /\ PushTask(t, Head(subtasks[t]))
  /\ subtasks' = [subtasks EXCEPT ![t] = Tail(@)]
  /\ IF Len(subtasks[t]) > 1 THEN UNCHANGED <<pc, task>>
     ELSE IF pc[t] = "push" THEN Return(t)
     ELSE Goto(t, "interior") /\ UNCHANGED task
  /\ UNCHANGED <<finished, other, version, sync1, sync2, pending, work>>

-----------------------------------------------------------------------------
(* task_start, task_border_left and task_border_top.                       *)

RunStart(t) ==
  /\ pc[t] = "run" /\ Kind(t) = "start"
  /\ Begin(t, Work("diagonal", Matrix(t), 0, 0)) \/ End(t, "scheduleBorder")

RunBorder(t) ==
  /\ pc[t] = "run" /\ Kind(t) \in {"left", "top"}
  /\ Begin(t, Work(Kind(t), Matrix(t), Offset(t), task[t][4])) \/ End(t, "countBorder")

CountBorder(t) ==
  /\ pc[t] = "countBorder"
  /\ sync1' = [sync1 EXCEPT ![Matrix(t)] = @ - 1]
  /\ IF sync1[Matrix(t)] = 1
       THEN Goto(t, "storeFirstTile") /\ UNCHANGED task
       ELSE Return(t)
  /\ UNCHANGED <<workers, finished, other, version, sync2, pending, work, subtasks>>

-----------------------------------------------------------------------------
(* schedule_interior: at most four ranges.                                 *)

StoreFirstTile(t) ==
  /\ pc[t] = "storeFirstTile"
  /\ sync1' = [sync1 EXCEPT ![Matrix(t)] = Parts]
  /\ Goto(t, "storeChunks")
  /\ UNCHANGED <<workers, finished, other, task, version, sync2, pending, work, subtasks>>

\* Mutated: the length of a piece is rounded down, the remainder is lost.
PieceRounded(m, k, from, length, i, n) ==
  LET start == from + i * (length \div n)
      end   == start + length \div n
  IN  IF start = end THEN <<>> ELSE << InteriorTask(m, k, start, end) >>

(* Piece i of n of a range of chunks, none if it is empty.                 *)
Piece(m, k, from, length, i, n) ==
  LET start == from + (length * i) \div n
      end   == from + (length * (i + 1)) \div n
  IN  IF start = end THEN <<>> ELSE << InteriorTask(m, k, start, end) >>

Quarters(m, k) ==
  LET chunks == InteriorChunks(k)
  IN  Piece(m, k, 0, chunks, 0, 4) \o Piece(m, k, 0, chunks, 1, 4)
        \o Piece(m, k, 0, chunks, 2, 4) \o Piece(m, k, 0, chunks, 3, 4)

StoreChunks(t) ==
  /\ pc[t] = "storeChunks"
  /\ sync2' = [sync2 EXCEPT ![Matrix(t)] = InteriorChunks(Offset(t))]
  /\ PushAll(t, Quarters(Matrix(t), Offset(t)))
  /\ UNCHANGED <<workers, finished, other, version, sync1, pending, work>>

-----------------------------------------------------------------------------
(* task_interior: push the two halves of the rest, execute the first chunk *)
(* and count it.                                                           *)

\* Mutated: only the first half of the rest is pushed.
RestShort(t) ==
  LET from == task[t][4] + 1
      length == task[t][5] - from
  IN  Piece(Matrix(t), Offset(t), from, length \div 2, 0, 1)

Rest(t) ==
  LET from == task[t][4] + 1
      length == task[t][5] - from
  IN  Piece(Matrix(t), Offset(t), from, length, 0, 2)
        \o Piece(Matrix(t), Offset(t), from, length, 1, 2)

SplitInterior(t) ==
  /\ pc[t] = "run" /\ Kind(t) = "interior"
  /\ subtasks' = [subtasks EXCEPT ![t] = Rest(t)]
  /\ Goto(t, IF Rest(t) = <<>> THEN "interior" ELSE "pushRest")
  /\ UNCHANGED <<workers, finished, other, task, version, sync1, sync2, pending, work>>

RunInterior(t) ==
  /\ pc[t] = "interior"
  /\ \/ Begin(t, Work("interior", Matrix(t), Offset(t), task[t][4]))
     \/ End(t, IF InFirstTile(Offset(t), task[t][4]) THEN "countFirstTile" ELSE "countChunk")

\* Mutated: the first thread of the tile goes on, not the last.
IsLastOfAny(old) == old = Parts
IsLastOfTile(old) == old = 1

CountFirstTile(t) ==
  /\ pc[t] = "countFirstTile"
  /\ sync1' = [sync1 EXCEPT ![Matrix(t)] = @ - 1]
  /\ Goto(t, IF IsLastOfTile(sync1[Matrix(t)]) THEN "diagonal" ELSE "countChunk")
  /\ UNCHANGED <<workers, finished, other, task, version, sync2, pending, work, subtasks>>

NextDiagonal(t) ==
  /\ pc[t] = "diagonal"
  /\ \/ Begin(t, Work("diagonal", Matrix(t), Offset(t) + 1, 0))
     \/ End(t, "countChunk")

CountChunk(t) ==
  /\ pc[t] = "countChunk"
  /\ sync2' = [sync2 EXCEPT ![Matrix(t)] = @ - 1]
  /\ IF sync2[Matrix(t)] # 1 THEN Return(t)
     ELSE /\ Goto(t, IF NextOffset(t) + 1 >= Tiles THEN "countMatrix" ELSE "scheduleBorder")
          /\ UNCHANGED task
  /\ UNCHANGED <<workers, finished, other, version, sync1, pending, work, subtasks>>

CountMatrix(t) ==
  /\ pc[t] = "countMatrix"
  /\ pending' = pending - 1
  /\ IF pending = 1 THEN Goto(t, "finish") /\ UNCHANGED task ELSE Return(t)
  /\ UNCHANGED <<workers, finished, other, version, sync1, sync2, work, subtasks>>

FinishPool(t) ==
  /\ pc[t] = "finish"
  /\ Finish
  /\ Return(t)
  /\ UNCHANGED <<workers, other, ludVars>>

-----------------------------------------------------------------------------
Step(t) ==
  \/ Claim(t) /\ UNCHANGED ludVars
  \/ RunStart(t)
  \/ StoreBorderCount(t)
  \/ Push(t)
  \/ RunBorder(t)
  \/ CountBorder(t)
  \/ StoreFirstTile(t)
  \/ StoreChunks(t)
  \/ SplitInterior(t)
  \/ RunInterior(t)
  \/ CountFirstTile(t)
  \/ NextDiagonal(t)
  \/ CountChunk(t)
  \/ CountMatrix(t)
  \/ FinishPool(t)

Next == \E t \in Threads : Step(t)

Spec == Init /\ [][Next]_vars

(* The operating system runs every thread of the pool.                     *)
FairSpec == Spec /\ \A t \in Threads : WF_vars(Step(t))

-----------------------------------------------------------------------------
Ranges(n) == {r \in (0 .. n) \X (0 .. n) : r[1] < r[2]}

Tasks ==
  {StartTask(m) : m \in MatrixIds}
  \cup (UNION {{BorderTask(side, m, k, c) : side \in {"left", "top"}, m \in MatrixIds,
                                           c \in 0 .. BorderChunks(k) - 1} : k \in Offsets})
  \cup (UNION {{InteriorTask(m, k, r[1], r[2]) : m \in MatrixIds,
                                                r \in Ranges(InteriorChunks(k))} : k \in Offsets})

(* The counters stay in the range of their type, tasks are about chunks    *)
(* that there are, and threads work on operations of the decomposition.    *)
TypeOK ==
  /\ version \in [Cells -> 0 .. Tiles]
  /\ workers \in [Threads -> Seq(Tasks)]
  /\ subtasks \in [Threads -> Seq(Tasks)]
  /\ finished \in BOOLEAN
  /\ other \in [Threads -> Threads]
  /\ task \in [Threads -> Tasks \cup {NoTask}]
  /\ pc \in [Threads -> ClaimLabels \cup
       {"run", "scheduleBorder", "push", "pushRest", "countBorder",
        "storeFirstTile", "storeChunks", "interior", "countFirstTile",
        "diagonal", "countChunk", "countMatrix", "finish"}]
  /\ sync1 \in [MatrixIds -> Nat]
  /\ sync2 \in [MatrixIds -> Nat]
  /\ pending \in 0 .. Matrices
  /\ work \in [Threads -> Works \cup {NoWork}]

(* The decomposition is correct: operations start on final values, after   *)
(* the updates they follow, without a data race, and the pool is finished  *)
(* when all matrices are decomposed (the work of sequential_tiled).        *)
Abstract == INSTANCE LuDecomposition
  WITH working <- {work[t] : t \in Threads} \ {NoWork}, stopped <- finished
ImplementsLu == Abstract!Spec

(* A chunk is named by its kind, matrix, iteration and index.              *)
ChunksOf(d) ==
  IF d[1] = "interior" THEN {<<"interior", d[2], d[3], c>> : c \in d[4] .. d[5] - 1} ELSE {d}

FirstChunk(d) == <<d[1], d[2], d[3], d[4]>>

ChunksIn(s) == UNION {ChunksOf(s[i]) : i \in DOMAIN s}

(* Where chunks are that are not counted yet: in the deque of a thread, to *)
(* be pushed by it, or being executed or counted by it.                    *)
Holders == {"deque", "push", "run", "first", "count"} \X Threads

Held(h) ==
  LET t == h[2]
      First(labels) == IF pc[t] \in labels THEN {FirstChunk(task[t])} ELSE {}
  IN  CASE h[1] = "deque" -> ChunksIn(workers[t])
        [] h[1] = "push"  -> ChunksIn(subtasks[t])
        [] h[1] = "run"   -> IF pc[t] = "run" THEN ChunksOf(task[t])
                             ELSE First({"pushRest", "interior"})
        [] h[1] = "first" -> First({"countFirstTile"})
        [] h[1] = "count" -> First({"countBorder", "diagonal", "countChunk"})

(* The chunks of a matrix that are held in some places.                    *)
HeldIn(places, m) ==
  {x \in UNION {Held(h) : h \in {i \in Holders : i[1] \in places}} : x[2] = m}

Anywhere == {"deque", "push", "run", "first", "count"}

Uncounted(kinds, m) == {x \in HeldIn(Anywhere, m) : x[1] \in kinds}

(* No chunk is in two tasks, in whatever way ranges were split and stolen. *)
Apart(s) == \A i, j \in DOMAIN s : i # j => ChunksOf(s[i]) \cap ChunksOf(s[j]) = {}

ChunkOnce ==
  /\ \A g, h \in Holders : g # h => Held(g) \cap Held(h) = {}
  /\ \A t \in Threads : Apart(workers[t]) /\ Apart(subtasks[t])

(* While a border is computed, synchronisation_var1 is the number of its   *)
(* chunks that are not counted: in a deque, to be pushed or executed.  The *)
(* thread that finds 1 is the last; the variable is free for its next use. *)
BordersCounted ==
  \A m \in MatrixIds :
    LET borders == Uncounted({"left", "top"}, m)
    IN  borders # {} => sync1[m] = Cardinality(borders)

(* synchronisation_var2 is the number of chunks of the interior that are   *)
(* not counted: nobody takes itself for the last while a chunk is left     *)
(* (task_interior).                                                        *)
ChunksCounted ==
  \A m \in MatrixIds : sync2[m] = Cardinality(Uncounted({"interior"}, m))

(* Every matrix is decomposed and every thread returns.                    *)
Termination == <>(\A t \in Threads : pc[t] = "returned")

(* Both synchronisation variables count the work that is left.             *)
CountersInv ==
  /\ TypeOK
  /\ ChunkOnce
  /\ BordersCounted
  /\ ChunksCounted
=============================================================================
