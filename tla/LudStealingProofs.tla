-------------------------- MODULE LudStealingProofs --------------------------
(***************************************************************************)
(* The decomposition on deques: its counters, CountersInv, and the         *)
(* refinement of LuDecomposition, for any number of threads, matrices,     *)
(* tiles and parts of a tile.  Both follow from StealInv, by which each    *)
(* matrix goes through stages that tell which chunks of it are left, which *)
(* thread goes on with it and how often its cells were updated.            *)
(***************************************************************************)
EXTENDS LudStealing, FiniteSetTheorems, SequenceTheorems, TLAPS

-----------------------------------------------------------------------------
(* The layout of a matrix.  The lemmas of LudProofs about it hold for any  *)
(* state of the other pool, and so for one without tasks.                  *)
Tiling == INSTANCE LudProofs
  WITH queued <- {}, open <- {}, claimed <- {}, chunk <- {}, sync <- sync1,
       is_finished <- finished

(* The cells that iteration k still updates, the diagonal tile excepted.   *)
Updated(x, k) == x \in Cells /\ Final(x) > k /\ ~(x[2] = k /\ x[4] = k)

(* The chunk that updates a cell in iteration k.                           *)
OwnerChunk(x, k) ==
  IF x[4] = k THEN x[2] - k - 1
  ELSE IF x[2] = k THEN x[4] - k - 1
  ELSE (x[4] - k - 1) * Rows(k) + (x[2] - k - 1) * Parts + x[3]

(* An operation can start: see Ready in LuDecomposition.                   *)
IsReady(w) ==
  /\ \A x \in Writes(w) : version[x] = w.offset
  /\ \A x \in Reads(w) : version[x] = Final(x)

(* The matrices that are not decomposed.                                   *)
Undone(stage) == {m \in MatrixIds : stage[m] # "done"}

(* The tiles are the same ones.                                            *)
LEMMA TilesAre ==
  /\ Tiling!Cells = Cells /\ Tiling!MatrixIds = MatrixIds /\ Tiling!Offsets = Offsets
  /\ Tiling!Works = Works /\ Tiling!NoWork = NoWork
  /\ \A x : Tiling!Final(x) = Final(x)
  /\ \A k : /\ Tiling!Rows(k) = Rows(k) /\ Tiling!BorderChunks(k) = BorderChunks(k)
            /\ Tiling!InteriorChunks(k) = InteriorChunks(k)
  /\ \A k, c : /\ Tiling!RowOf(k, c) = RowOf(k, c) /\ Tiling!ColumnOf(k, c) = ColumnOf(k, c)
               /\ Tiling!InFirstTile(k, c) <=> InFirstTile(k, c)
  /\ \A m, i, j : Tiling!TileCells(m, i, j) = TileCells(m, i, j)
  /\ \A kind, m, k, c : Tiling!Work(kind, m, k, c) = Work(kind, m, k, c)
  /\ \A w : /\ Tiling!Writes(w) = Writes(w) /\ Tiling!Reads(w) = Reads(w)
            /\ Tiling!IsReady(w) <=> IsReady(w)
  /\ \A x, k : Tiling!Updated(x, k) <=> Updated(x, k)
  /\ \A x, k : Tiling!OwnerChunk(x, k) = OwnerChunk(x, k)
<1>1. /\ Tiling!Cells = Cells /\ Tiling!MatrixIds = MatrixIds /\ Tiling!Offsets = Offsets
      /\ Tiling!NoWork = NoWork
  BY DEF Tiling!Cells, Cells, Tiling!MatrixIds, MatrixIds, Tiling!Offsets, Offsets,
         Tiling!NoWork, NoWork
<1>2. \A k : /\ Tiling!Rows(k) = Rows(k) /\ Tiling!BorderChunks(k) = BorderChunks(k)
             /\ Tiling!InteriorChunks(k) = InteriorChunks(k)
  BY DEF Tiling!Rows, Rows, Tiling!BorderChunks, BorderChunks,
         Tiling!InteriorChunks, InteriorChunks
<1>3. \A k, c : Tiling!RowOf(k, c) = RowOf(k, c) /\ Tiling!ColumnOf(k, c) = ColumnOf(k, c)
  BY <1>2 DEF Tiling!RowOf, RowOf, Tiling!ColumnOf, ColumnOf
<1>4. \A k, c : Tiling!InFirstTile(k, c) <=> InFirstTile(k, c)
  BY <1>3 DEF Tiling!InFirstTile, InFirstTile
<1>5. \A m, i, j : Tiling!TileCells(m, i, j) = TileCells(m, i, j)
  BY DEF Tiling!TileCells, TileCells
<1>6. \A kind, m, k, c : Tiling!Work(kind, m, k, c) = Work(kind, m, k, c)
  BY DEF Tiling!Work, Work
<1>7. \A w : Tiling!Writes(w) = Writes(w) /\ Tiling!Reads(w) = Reads(w)
  BY <1>3, <1>5 DEF Tiling!Writes, Writes, Tiling!Reads, Reads
<1>8. Tiling!Works = Works
  BY <1>1, <1>2, <1>6 DEF Tiling!Works, Works
<1>9. \A x : Tiling!Final(x) = Final(x)
  BY DEF Tiling!Final, Final
<1>10. \A w : Tiling!IsReady(w) <=> IsReady(w)
  BY <1>7, <1>9 DEF Tiling!IsReady, IsReady
<1>11. \A x, k : Tiling!Updated(x, k) <=> Updated(x, k)
  BY <1>1, <1>9 DEF Tiling!Updated, Updated
<1>12. \A x, k : Tiling!OwnerChunk(x, k) = OwnerChunk(x, k)
  BY <1>2 DEF Tiling!OwnerChunk, OwnerChunk
<1>13. QED
  BY <1>1, <1>2, <1>3, <1>4, <1>5, <1>6, <1>7, <1>8, <1>9, <1>10, <1>11, <1>12

(* Division with a remainder, which is the only one.                       *)
LEMMA DivMod ==
  ASSUME NEW n \in Nat \ {0}, NEW a \in Nat
  PROVE  a \div n \in Nat /\ a % n \in 0 .. n - 1 /\ a = (a \div n) * n + (a % n)
OBVIOUS

(* Quotient and remainder are determined by their range.                   *)
LEMMA DivUnique ==
  ASSUME NEW n \in Nat \ {0}, NEW q \in Nat, NEW r \in 0 .. n - 1
  PROVE  (q * n + r) \div n = q /\ (q * n + r) % n = r
BY Tiling!DivUnique, StealerAssumption, TilesAssumption

(* What TilesAssumption says of each parameter.                            *)
LEMMA Parameters == Tiles \in Nat \ {0} /\ Parts \in Nat \ {0} /\ Matrices \in Nat \ {0}
BY TilesAssumption

(* There are finitely many matrices.                                       *)
LEMMA MatricesFinite == \A S \in SUBSET MatrixIds : IsFiniteSet(S) /\ Cardinality(S) \in Nat
<1>1. IsFiniteSet(MatrixIds)
  BY Parameters, FS_Interval DEF MatrixIds
<1>2. QED
  BY <1>1, FS_Subset, FS_CardinalityType

(* The four parts of a cell.                                               *)
LEMMA CellParts ==
  ASSUME NEW x \in Cells
  PROVE  /\ x = <<x[1], x[2], x[3], x[4]>>
         /\ x[1] \in MatrixIds /\ x[2] \in Offsets /\ x[3] \in 0 .. Parts - 1
         /\ x[4] \in Offsets
BY DEF Cells

(* A cell is put together of its parts.                                    *)
LEMMA CellIn ==
  ASSUME NEW m \in MatrixIds, NEW i \in Offsets, NEW p \in 0 .. Parts - 1, NEW j \in Offsets
  PROVE  /\ <<m, i, p, j>> \in Cells
         /\ <<m, i, p, j>>[1] = m /\ <<m, i, p, j>>[2] = i
         /\ <<m, i, p, j>>[3] = p /\ <<m, i, p, j>>[4] = j
BY DEF Cells

(* The cells of a tile, by their parts.                                    *)
LEMMA InTile ==
  ASSUME NEW m \in MatrixIds, NEW i \in Offsets, NEW j \in Offsets, NEW x
  PROVE  x \in TileCells(m, i, j) <=> x \in Cells /\ x[1] = m /\ x[2] = i /\ x[4] = j
BY TilesAre, StealerAssumption, TilesAssumption, Tiling!InTile

(* A cell is updated once at least and once an iteration at most.          *)
LEMMA Finals ==
  ASSUME NEW x \in Cells
  PROVE  Final(x) \in 1 .. Tiles /\ x[2] \in 0 .. Tiles - 1 /\ x[4] \in 0 .. Tiles - 1
         /\ Final(x) <= x[2] + 1 /\ Final(x) <= x[4] + 1
BY CellParts, Parameters DEF Final, Offsets

(* An iteration that is not the last one has chunks of each kind.          *)
LEMMA ChunkCounts ==
  ASSUME NEW k \in Offsets, k + 1 < Tiles
  PROVE  /\ BorderChunks(k) \in Nat \ {0} /\ Rows(k) \in Nat \ {0}
         /\ InteriorChunks(k) \in Nat \ {0} /\ k + 1 \in Offsets
         /\ Tiles - k - 1 \in Nat \ {0}
BY TilesAre, StealerAssumption, TilesAssumption, Tiling!ChunkCounts

(* The cell that a chunk of the interior updates, right of and below the   *)
(* borders.                                                                *)
LEMMA InteriorCell ==
  ASSUME NEW m \in MatrixIds, NEW k \in Offsets, k + 1 < Tiles,
         NEW c \in 0 .. InteriorChunks(k) - 1
  PROVE  LET x == <<m, RowOf(k, c) \div Parts, RowOf(k, c) % Parts, ColumnOf(k, c)>>
         IN  x \in Cells /\ x[1] = m /\ x[2] > k /\ x[4] > k /\ OwnerChunk(x, k) = c
               /\ (InFirstTile(k, c) <=> x[2] = k + 1 /\ x[4] = k + 1)
BY TilesAre, StealerAssumption, TilesAssumption, Tiling!InteriorCell

(* The chunk of the interior that updates a cell.                          *)
LEMMA InteriorChunk ==
  ASSUME NEW k \in Offsets, k + 1 < Tiles, NEW z \in Cells, z[2] > k, z[4] > k
  PROVE  OwnerChunk(z, k) \in 0 .. InteriorChunks(k) - 1
BY TilesAre, StealerAssumption, TilesAssumption, Tiling!InteriorChunk

(* A cell that an iteration updates is not in the rows and columns before. *)
LEMMA UpdatedCell ==
  ASSUME NEW k \in Offsets, NEW x, Updated(x, k)
  PROVE  k + 1 < Tiles /\ x[2] >= k /\ x[4] >= k
BY TilesAre, StealerAssumption, TilesAssumption, Tiling!UpdatedCell

(* The operations.                                                         *)
LEMMA WorksAre ==
  ASSUME NEW w
  PROVE  w \in Works <=>
           \/ \E kind \in {"diagonal", "copy"}, m \in MatrixIds, k \in Offsets :
                w = Work(kind, m, k, 0)
           \/ \E k \in Offsets : \E kind \in {"left", "top"}, m \in MatrixIds, c \in 0 .. BorderChunks(k) - 1 :
                w = Work(kind, m, k, c)
           \/ \E k \in Offsets : \E m \in MatrixIds, c \in 0 .. InteriorChunks(k) - 1 :
                w = Work("interior", m, k, c)
BY TilesAre, StealerAssumption, TilesAssumption, Tiling!WorksAre

(* The mark of a thread without an operation is not an operation.          *)
LEMMA NoWorkIsNone == NoWork \notin Works
BY TilesAre, StealerAssumption, TilesAssumption, Tiling!NoWorkIsNone

(* Operations that can start at the same time do not conflict.             *)
LEMMA ReadyDisjoint ==
  ASSUME NEW v \in Works, NEW w \in Works, v # w, IsReady(v), IsReady(w)
  PROVE  Writes(v) \cap (Reads(w) \cup Writes(w)) = {} /\ Writes(w) \cap Reads(v) = {}
BY TilesAre, StealerAssumption, TilesAssumption, Tiling!ReadyDisjoint

(* The task of the work assisting program that a chunk would be of.        *)
TilingKind(kind) == IF kind = "interior" THEN "inner" ELSE kind

(* A chunk updates the cells that it owns and no other: chunks of an       *)
(* iteration never write the same cell.                                    *)
LEMMA ChunkWrites ==
  ASSUME NEW kind \in {"left", "top", "interior"}, NEW m \in MatrixIds, NEW k \in Offsets,
         k + 1 < Tiles,
         NEW c \in 0 .. (IF kind = "interior" THEN InteriorChunks(k) ELSE BorderChunks(k)) - 1
  PROVE  /\ Work(kind, m, k, c) \in Works
         /\ \A x : x \in Writes(Work(kind, m, k, c)) <=>
              /\ Updated(x, k) /\ x[1] = m /\ OwnerChunk(x, k) = c
              /\ kind = IF x[4] = k THEN "left" ELSE IF x[2] = k THEN "top" ELSE "interior"
<1>1. PICK a : a = Tiling!Task(TilingKind(kind), m, k)
  OBVIOUS
<1>2. TilingKind(kind) \in {"left", "top", "inner"}
  BY DEF TilingKind
<1>3. /\ a \in Tiling!Tasks \ {Tiling!InitTask} /\ a.kind = TilingKind(kind)
      /\ a.matrix = m /\ a.offset = k
  BY <1>1, <1>2, TilesAre, StealerAssumption, TilesAssumption, Tiling!TaskIn
<1>4. c \in 0 .. Tiling!Size(a) - 1
  BY <1>3, TilesAre, StealerAssumption, TilesAssumption, Tiling!SizeOf DEF TilingKind, BorderChunks
<1>5. Tiling!WorkOf(a, c) = Work(kind, m, k, c)
  BY <1>3, TilesAre DEF TilingKind, Tiling!WorkOf
<1>6. Work(kind, m, k, c) \in Works
  BY <1>3, <1>4, <1>5, TilesAre, StealerAssumption, TilesAssumption, Tiling!WorkIn
<1>7. ASSUME NEW x
      PROVE  x \in Writes(Work(kind, m, k, c)) <=>
               Updated(x, k) /\ Tiling!Owner(x, k) = a /\ OwnerChunk(x, k) = c
  BY <1>3, <1>4, <1>5, TilesAre, StealerAssumption, TilesAssumption, Tiling!ChunkWrites
<1>8. ASSUME NEW x
      PROVE  Tiling!Owner(x, k) = a <=>
               /\ x[1] = m
               /\ kind = IF x[4] = k THEN "left" ELSE IF x[2] = k THEN "top" ELSE "interior"
  BY <1>1 DEF Tiling!Owner, Tiling!Task, TilingKind
<1>9. QED
  BY <1>6, <1>7, <1>8

-----------------------------------------------------------------------------
(* Sequences of tasks.                                                     *)

(* The tasks of a sequence are apart and have the chunks of a set.         *)
Holds(s, chunks) == s \in Seq(Tasks) /\ Apart(s) /\ ChunksIn(s) = chunks

(* Which chunks a sequence has.                                            *)
LEMMA ChunkInSeq ==
  ASSUME NEW s \in Seq(Tasks)
  PROVE  /\ Len(s) \in Nat /\ DOMAIN s = 1 .. Len(s)
         /\ \A i \in 1 .. Len(s) : s[i] \in Tasks
         /\ \A x : x \in ChunksIn(s) <=> \E i \in 1 .. Len(s) : x \in ChunksOf(s[i])
         /\ Apart(s) <=> \A i, j \in 1 .. Len(s) : i # j =>
              \A x : ~(x \in ChunksOf(s[i]) /\ x \in ChunksOf(s[j]))
<1>1. Len(s) \in Nat /\ DOMAIN s = 1 .. Len(s) /\ \A i \in 1 .. Len(s) : s[i] \in Tasks
  BY LenProperties, ElementOfSeq
<1>2. \A x : x \in ChunksIn(s) <=> \E i \in 1 .. Len(s) : x \in ChunksOf(s[i])
  BY <1>1 DEF ChunksIn
<1>3. Apart(s) <=> \A i, j \in 1 .. Len(s) : i # j =>
        \A x : ~(x \in ChunksOf(s[i]) /\ x \in ChunksOf(s[j]))
  BY <1>1 DEF Apart
<1>4. QED
  BY <1>1, <1>2, <1>3

(* The sequence without tasks.                                             *)
LEMMA EmptyHolds == Holds(<<>>, {})
<1>1. ASSUME NEW s \in Seq(Tasks), Len(s) = 0 PROVE Holds(s, {})
  <2>1. \A x : x \in ChunksIn(s) <=> \E i \in 1 .. 0 : x \in ChunksOf(s[i])
    BY <1>1, ChunkInSeq
  <2>2. ChunksIn(s) = {}
    BY <2>1
  <2>3. DOMAIN s = {}
    BY <1>1, ChunkInSeq
  <2>4. Apart(s)
    BY <2>3 DEF Apart
  <2>5. QED
    BY <2>2, <2>4 DEF Holds
<1>2. <<>> \in Seq(Tasks) /\ Len(<<>>) = 0
  BY EmptySeq
<1>3. QED
  BY <1>1, <1>2, Zenon

(* The sequence of one task.                                               *)
LEMMA OneHolds ==
  ASSUME NEW d \in Tasks
  PROVE  Holds(<<d>>, ChunksOf(d))
<1>1. <<d>> \in Seq(Tasks) /\ Len(<<d>>) = 1 /\ <<d>>[1] = d
  OBVIOUS
<1>2. ChunksIn(<<d>>) = ChunksOf(d) /\ Apart(<<d>>)
  <2>1. PICK s \in Seq(Tasks) : s = <<d>> /\ Len(s) = 1 /\ s[1] = d
    BY <1>1
  <2>2. /\ \A x : x \in ChunksIn(s) <=> \E i \in 1 .. 1 : x \in ChunksOf(s[i])
        /\ Apart(s) <=> \A i, j \in 1 .. 1 : i # j =>
             \A x : ~(x \in ChunksOf(s[i]) /\ x \in ChunksOf(s[j]))
    BY <2>1, ChunkInSeq
  <2>3. \A i \in 1 .. 1 : i = 1
    OBVIOUS
  <2>4. \A x : x \in ChunksIn(s) <=> x \in ChunksOf(d)
    BY <2>1, <2>2, <2>3
  <2>5. Apart(s)
    BY <2>2, <2>3
  <2>6. QED
    BY <2>1, <2>4, <2>5
<1>3. QED
  BY <1>1, <1>2 DEF Holds

(* Two sequences put together.                                             *)
LEMMA ConcatHolds ==
  ASSUME NEW s, NEW r, NEW A, NEW B, Holds(s, A), Holds(r, B), A \cap B = {}
  PROVE  Holds(s \o r, A \cup B)
<1>1. s \in Seq(Tasks) /\ r \in Seq(Tasks) /\ Apart(s) /\ Apart(r)
        /\ ChunksIn(s) = A /\ ChunksIn(r) = B
  BY DEF Holds
<1> DEFINE q == s \o r
           n == Len(s)
           l == Len(r)
<1>2. /\ q \in Seq(Tasks) /\ Len(q) = n + l /\ n \in Nat /\ l \in Nat
      /\ \A i \in 1 .. n + l : q[i] = IF i <= n THEN s[i] ELSE r[i - n]
  BY <1>1, ConcatProperties, LenProperties
<1> HIDE DEF q, n, l
<1>3. /\ \A i \in 1 .. n : i \in 1 .. n + l /\ q[i] = s[i]
      /\ \A i \in 1 .. l : n + i \in 1 .. n + l /\ q[n + i] = r[i]
      /\ \A i \in 1 .. n + l : i > n => i - n \in 1 .. l /\ i = n + (i - n)
  <2>1. ASSUME NEW i \in 1 .. l PROVE n + i \in 1 .. n + l /\ q[n + i] = r[i]
    BY <1>2
  <2>2. QED
    BY <1>2, <2>1
<1>4. \A x : x \in ChunksIn(q) <=> x \in A \/ x \in B
  <2>1. ASSUME NEW x PROVE x \in ChunksIn(q) <=> x \in A \/ x \in B
    <3>1. /\ x \in ChunksIn(q) <=> \E i \in 1 .. n + l : x \in ChunksOf(q[i])
          /\ x \in A <=> \E i \in 1 .. n : x \in ChunksOf(s[i])
          /\ x \in B <=> \E i \in 1 .. l : x \in ChunksOf(r[i])
      BY <1>1, <1>2, ChunkInSeq DEF n, l
    <3>2. ASSUME NEW i \in 1 .. n + l, x \in ChunksOf(q[i]) PROVE x \in A \/ x \in B
      BY <1>2, <1>3, <3>1, <3>2
    <3>3. QED
      BY <1>3, <3>1, <3>2
  <2>2. QED
    BY <2>1
<1>5. Apart(q)
  <2>1. SUFFICES ASSUME NEW i \in 1 .. n + l, NEW j \in 1 .. n + l, i # j, NEW x,
                        x \in ChunksOf(q[i]), x \in ChunksOf(q[j])
                 PROVE  FALSE
    BY <1>2, ChunkInSeq
  <2>2. /\ \A e, f \in 1 .. n : e # f => ~(x \in ChunksOf(s[e]) /\ x \in ChunksOf(s[f]))
        /\ \A e, f \in 1 .. l : e # f => ~(x \in ChunksOf(r[e]) /\ x \in ChunksOf(r[f]))
        /\ \A e \in 1 .. n : x \in ChunksOf(s[e]) => x \in A
        /\ \A e \in 1 .. l : x \in ChunksOf(r[e]) => x \in B
    BY <1>1, ChunkInSeq DEF n, l
  <2>3. CASE i <= n /\ j <= n
    <3>1. q[i] = s[i] /\ q[j] = s[j] /\ i \in 1 .. n /\ j \in 1 .. n
      BY <1>2, <2>3
    <3>2. QED
      BY <2>1, <2>2, <3>1
  <2>4. CASE i > n /\ j > n
    BY <1>2, <2>1, <2>2, <2>4
  <2>5. CASE i <= n /\ j > n
    BY <1>2, <2>1, <2>2, <2>5
  <2>6. CASE i > n /\ j <= n
    BY <1>2, <2>1, <2>2, <2>6
  <2>7. QED
    BY <1>2, <2>3, <2>4, <2>5, <2>6
<1>6. ChunksIn(q) = A \cup B
  BY <1>4
<1>7. QED
  BY <1>2, <1>5, <1>6 DEF Holds, q

(* The owner pushes a task at the end of its deque.                        *)
LEMMA AppendHolds ==
  ASSUME NEW s, NEW A, Holds(s, A), NEW d \in Tasks, A \cap ChunksOf(d) = {}
  PROVE  Holds(Append(s, d), A \cup ChunksOf(d))
<1>1. Append(s, d) = s \o <<d>>
  BY AppendIsConcat DEF Holds
<1>2. QED
  BY <1>1, OneHolds, ConcatHolds

(* The first or the last task of a sequence and the other ones.            *)
LEMMA SplitHolds ==
  ASSUME NEW s, NEW A, Holds(s, A), s # <<>>
  PROVE  /\ Len(s) \in Nat \ {0}
         /\ Head(s) \in Tasks /\ ChunksOf(Head(s)) \subseteq A
         /\ Holds(Tail(s), A \ ChunksOf(Head(s)))
         /\ Len(s) > 1 <=> Tail(s) # <<>>
         /\ Last(s) \in Tasks /\ ChunksOf(Last(s)) \subseteq A
         /\ Holds(Front(s), A \ ChunksOf(Last(s)))
<1> DEFINE n == Len(s)
           T == Tasks
           C(i) == ChunksOf(s[i])
           f == SubSeq(s, 1, n - 1)
<1>1. s \in Seq(T) /\ Apart(s) /\ ChunksIn(s) = A /\ n \in Nat \ {0}
  BY EmptySeq DEF Holds
<1>2. Head(s) = s[1] /\ s[1] \in T /\ s[n] \in T
  BY <1>1, ElementOfSeq
<1>3. /\ \A x : x \in A <=> \E i \in 1 .. n : x \in C(i)
      /\ \A i, j \in 1 .. n : i # j => \A x : ~(x \in C(i) /\ x \in C(j))
      /\ \A i \in 1 .. n : s[i] \in T
  BY <1>1, ChunkInSeq
<1>4. Tail(s) \in Seq(T) /\ Len(Tail(s)) = n - 1 /\ \A i \in 1 .. n - 1 : Tail(s)[i] = s[i + 1]
  BY <1>1, HeadTailProperties
<1>5. Last(s) = s[n] /\ Front(s) = f
  BY DEF Last, Front
<1>6. f \in Seq(T) /\ Len(f) = n - 1 /\ \A i \in 1 .. n - 1 : f[i] = s[i]
  <2>1. \A i \in 1 .. n - 1 : s[i] \in T
    BY <1>1, <1>3
  <2>2. 1 \in Int /\ n - 1 \in Int
    BY <1>1
  <2>3. /\ f \in Seq(T) /\ Len(f) = IF 1 <= n - 1 THEN (n - 1) - 1 + 1 ELSE 0
        /\ \A i \in 1 .. (n - 1) - 1 + 1 : f[i] = s[1 + i - 1]
    BY <2>1, <2>2, SubSeqProperties
  <2> HIDE DEF f, n, T
  <2>4. /\ (n - 1) - 1 + 1 = n - 1 /\ (IF 1 <= n - 1 THEN (n - 1) - 1 + 1 ELSE 0) = n - 1
        /\ \A i \in 1 .. n - 1 : 1 + i - 1 = i
    BY <1>1
  <2>5. QED
    BY <2>3, <2>4
<1>7. Len(s) > 1 <=> Tail(s) # <<>>
  <2>1. PICK r \in Seq(T) : r = Tail(s) /\ Len(r) = n - 1
    BY <1>4
  <2>2. r # <<>> <=> Len(r) # 0
    <3> HIDE DEF T
    <3>1. Len(<<>>) = 0 /\ (r # <<>> => Len(r) \in Nat \ {0})
      BY EmptySeq
    <3>2. QED
      BY <3>1
  <2>3. QED
    BY <1>1, <2>1, <2>2
<1> HIDE DEF f, n, T
<1>8. C(1) \subseteq A /\ C(n) \subseteq A
  BY <1>1, <1>3
<1> DEFINE D(i) == ChunksOf(Tail(s)[i])
           E(i) == ChunksOf(f[i])
<1>9. /\ \A x : x \in ChunksIn(Tail(s)) <=> \E i \in 1 .. n - 1 : x \in D(i)
      /\ Apart(Tail(s)) <=> \A i, j \in 1 .. n - 1 : i # j => \A x : ~(x \in D(i) /\ x \in D(j))
      /\ \A x : x \in ChunksIn(f) <=> \E i \in 1 .. n - 1 : x \in E(i)
      /\ Apart(f) <=> \A i, j \in 1 .. n - 1 : i # j => \A x : ~(x \in E(i) /\ x \in E(j))
  BY <1>4, <1>6, ChunkInSeq DEF T
<1>10. /\ \A i \in 1 .. n - 1 : D(i) = C(i + 1) /\ E(i) = C(i)
       /\ \A i \in 1 .. n - 1 : i + 1 \in 1 .. n /\ i \in 1 .. n /\ i # n /\ i + 1 # 1
       /\ \A i, j \in 1 .. n - 1 : i # j => i + 1 # j + 1
       /\ \A i \in 1 .. n : i # n => i \in 1 .. n - 1
       /\ \A i \in 1 .. n : i # 1 => i - 1 \in 1 .. n - 1 /\ (i - 1) + 1 = i
       /\ 1 \in 1 .. n /\ n \in 1 .. n
  BY <1>1, <1>4, <1>6
<1> HIDE DEF C, D, E
<1>11. Holds(Tail(s), A \ C(1))
  <2>1. Apart(Tail(s))
    BY <1>3, <1>9, <1>10
  <2>2. \A x : x \in ChunksIn(Tail(s)) <=> x \in A /\ x \notin C(1)
    <3>1. ASSUME NEW x, x \in A, x \notin C(1) PROVE x \in ChunksIn(Tail(s))
      <4>1. PICK i \in 1 .. n : x \in C(i)
        BY <1>3, <3>1
      <4>2. i - 1 \in 1 .. n - 1 /\ (i - 1) + 1 = i
        BY <1>10, <3>1, <4>1
      <4>3. QED
        BY <1>9, <1>10, <4>1, <4>2
    <3>2. ASSUME NEW x, x \in ChunksIn(Tail(s)) PROVE x \in A /\ x \notin C(1)
      <4>1. PICK i \in 1 .. n - 1 : x \in D(i)
        BY <1>9, <3>2
      <4>2. x \in C(i + 1) /\ i + 1 \in 1 .. n /\ i + 1 # 1 /\ 1 \in 1 .. n
        BY <1>10, <4>1
      <4>3. QED
        BY <1>3, <4>2
    <3>3. QED
      BY <3>1, <3>2
  <2>3. QED
    BY <1>4, <2>1, <2>2 DEF Holds, T
<1>12. Holds(f, A \ C(n))
  <2>1. Apart(f)
    BY <1>3, <1>9, <1>10
  <2>2. \A x : x \in ChunksIn(f) <=> x \in A /\ x \notin C(n)
    <3>1. ASSUME NEW x, x \in A, x \notin C(n) PROVE x \in ChunksIn(f)
      <4>1. PICK i \in 1 .. n : x \in C(i)
        BY <1>3, <3>1
      <4>2. i \in 1 .. n - 1
        BY <1>10, <3>1, <4>1
      <4>3. QED
        BY <1>9, <1>10, <4>1, <4>2
    <3>2. ASSUME NEW x, x \in ChunksIn(f) PROVE x \in A /\ x \notin C(n)
      <4>1. PICK i \in 1 .. n - 1 : x \in E(i)
        BY <1>9, <3>2
      <4>2. x \in C(i) /\ i \in 1 .. n /\ i # n /\ n \in 1 .. n
        BY <1>10, <4>1
      <4>3. QED
        BY <1>3, <4>2
    <3>3. QED
      BY <3>1, <3>2
  <2>3. QED
    BY <1>6, <2>1, <2>2 DEF Holds, T
<1>13. QED
  BY <1>1, <1>2, <1>5, <1>7, <1>8, <1>11, <1>12 DEF C, T, n

(* The labels of a thread on which the next stage of a matrix depends.     *)
StealDrivers == {"scheduleBorder", "storeFirstTile", "storeChunks", "diagonal", "countMatrix"}

(* Where a matrix is within an iteration: its first task is to be          *)
(* executed, one thread drives it to the next stage, the chunks of the     *)
(* border or of the interior are out, the next diagonal is factored ahead  *)
(* of the end of the interior, or all is done.                             *)
StealStages == StealDrivers \cup {"start", "borders", "interior", "ahead", "done"}

\* The kinds of the chunks that a stage has, and of those that it has not yet.
KindsLeft(s) ==
  CASE s = "start"   -> {"start"}
    [] s = "borders" -> {"left", "top"}
    [] s \in {"interior", "diagonal", "ahead"} -> {"interior"}
    [] OTHER -> {}

KindsToCome(s) ==
  CASE s \in {"start", "scheduleBorder"} -> {"left", "top", "interior"}
    [] s \in {"borders", "storeFirstTile", "storeChunks"} -> {"interior"}
    [] OTHER -> {}

(* The iteration a driver goes on with.                                    *)
Reached(t) ==
  IF pc[t] \in {"scheduleBorder", "countMatrix"} THEN NextOffset(t) ELSE Offset(t)

(* The threads that drive matrix m, and who drives it at a stage: one      *)
(* thread, at the label of that name, or none.                             *)
DriversOf(m) == {t \in Threads : pc[t] \in StealDrivers /\ Matrix(t) = m}

DriverInStage(m, k, s) ==
  IF s \in StealDrivers THEN \E t \in Threads : DriversOf(m) = {t} /\ pc[t] = s /\ Reached(t) = k
                        ELSE DriversOf(m) = {}

(* Where a chunk is that is not executed yet.                              *)
WaitingPlaces == {"deque", "push", "run"}

(* The chunks of the first tile that are not counted for it.               *)
FirstTileLeft(m) ==
  {x \in HeldIn(WaitingPlaces \cup {"first"}, m) : InFirstTile(x[3], x[4])}

(* What the counters of a matrix are at each stage: the chunks of the      *)
(* border that are not counted, those of the first tile and of the         *)
(* interior that are not, and nothing at the other stages.                 *)
CountersInStage(m, s) ==
  /\ s = "borders" => sync1[m] = Cardinality(HeldIn(Anywhere, m))
  /\ s = "storeChunks" => sync1[m] = Parts
  /\ s \in {"interior", "diagonal", "ahead"} =>
       /\ sync1[m] = Cardinality(FirstTileLeft(m))
       /\ s = "interior" <=> sync1[m] # 0
  /\ sync2[m] = IF s \in {"interior", "diagonal", "ahead"}
                  THEN Cardinality(HeldIn(Anywhere, m)) ELSE 0

(* The chunk that updates a cell in iteration k.                           *)
OwnerName(x, k) ==
  <<IF x[4] = k THEN "left" ELSE IF x[2] = k THEN "top" ELSE "interior", x[1], k,
    OwnerChunk(x, k)>>

(* How often a cell has been updated, by the stage and by whether the      *)
(* chunk that updates it in this iteration is still to come or to be       *)
(* executed.                                                               *)
ReachedVersion(m, k, s, x) ==
  IF Final(x) <= k THEN Final(x)
  ELSE IF x[2] = k /\ x[4] = k THEN IF s = "start" THEN 0 ELSE k + 1
  ELSE IF OwnerName(x, k)[1] \in KindsToCome(s) \/ OwnerName(x, k) \in HeldIn(WaitingPlaces, m)
         THEN k
  ELSE IF s = "ahead" /\ x[2] = k + 1 /\ x[4] = k + 1 THEN k + 2
  ELSE k + 1

(* Matrix m is at stage s of iteration k: its chunks, its driver, its      *)
(* counters and the versions of its cells agree.                           *)
StealStage(m, k, s) ==
  /\ s = "start" => k = 0
  /\ s \in {"countMatrix", "done"} => k = Tiles - 1
  /\ s \notin {"start", "scheduleBorder", "borders", "countMatrix", "done"} => k + 1 < Tiles
  /\ \A x \in HeldIn(Anywhere, m) : x[1] \in KindsLeft(s) /\ x[3] = k
  /\ DriverInStage(m, k, s)
  /\ CountersInStage(m, s)
  /\ \A x \in Cells : x[1] = m => version[x] = ReachedVersion(m, k, s, x)

(* Every matrix is at a stage of an iteration, and pending counts those    *)
(* that are not done (pending of run in workstealing.rs).                  *)
StealStagesInv ==
  \E stage \in [MatrixIds -> StealStages], iteration \in [MatrixIds -> Offsets] :
    /\ \A m \in MatrixIds : StealStage(m, iteration[m], stage[m])
    /\ pending = Cardinality({m \in MatrixIds : stage[m] # "done"})

(* The operation at the label of a thread.                                 *)
StealOperation(t) ==
  CASE pc[t] = "diagonal" -> Work("diagonal", Matrix(t), Offset(t) + 1, 0)
    [] pc[t] = "interior" -> Work("interior", Matrix(t), Offset(t), task[t][4])
    [] OTHER -> Work(IF Kind(t) = "start" THEN "diagonal" ELSE Kind(t),
                     Matrix(t), Offset(t), task[t][4])

(* The kinds of task that a thread has at a label.                         *)
KindsAt(label) ==
  CASE label = "run"            -> {"start", "left", "top", "interior"}
    [] label = "scheduleBorder" -> {"start", "interior"}
    [] label = "push"           -> {"start", "left", "top", "interior"}
    [] label \in {"countBorder", "storeFirstTile", "storeChunks"} -> {"left", "top"}
    [] label \in {"pushRest", "interior", "countFirstTile", "diagonal", "countChunk",
                  "countMatrix", "finish"} -> {"interior"}
    [] OTHER -> {}

(* What a thread has at its label: a task of the kind, subtasks only where *)
(* it pushes them, the work of that label, and the flag to set only if it  *)
(* counted the last matrix.                                                *)
StealThread(t) ==
  /\ IF pc[t] \in ClaimLabels THEN task[t] = NoTask
     ELSE task[t] # NoTask /\ Kind(t) \in KindsAt(pc[t])
  /\ subtasks[t] # <<>> <=> pc[t] \in {"push", "pushRest"}
  /\ pc[t] = "countFirstTile" => InFirstTile(Offset(t), task[t][4])
  /\ work[t] # NoWork =>
       /\ pc[t] \in {"run", "interior", "diagonal"} /\ work[t] = StealOperation(t)
       /\ pc[t] = "run" => Kind(t) # "interior"
  /\ pc[t] = "finish" =>
       /\ pending = 0 /\ ~finished
       /\ \A u \in Threads \ {t} : pc[u] # "finish"

(* The inductive invariant.                                                *)
StealInv ==
  /\ TypeOK
  /\ ChunkOnce
  /\ \A t \in Threads : StealThread(t)
  /\ StealStagesInv
  /\ finished => pending = 0

-----------------------------------------------------------------------------
(* The tasks and their chunks.                                             *)

(* The kinds of the chunks of a border.                                    *)
Borders == {"left", "top"}

\* The chunk that a name stands for.
IsChunk(x) ==
  /\ x = <<x[1], x[2], x[3], x[4]>> /\ x[2] \in MatrixIds /\ x[3] \in Offsets
  /\ \/ x[1] = "start" /\ x[3] = 0 /\ x[4] = 0
     \/ x[1] \in Borders /\ x[3] + 1 < Tiles /\ x[4] \in 0 .. BorderChunks(x[3]) - 1
     \/ x[1] = "interior" /\ x[3] + 1 < Tiles /\ x[4] \in 0 .. InteriorChunks(x[3]) - 1

(* The sizes of the last iteration, which has no chunks.                   *)
LEMMA NoChunks ==
  ASSUME NEW k \in Offsets
  PROVE  /\ k \in Nat /\ k < Tiles /\ BorderChunks(k) \in Nat /\ InteriorChunks(k) \in Nat
         /\ ~(k + 1 < Tiles) => k = Tiles - 1 /\ BorderChunks(k) = 0 /\ InteriorChunks(k) = 0
<1>1. k \in Nat /\ k < Tiles /\ Tiles \in Nat /\ Parts \in Nat
  BY Parameters DEF Offsets
<1>2. CASE k + 1 < Tiles
  BY <1>1, <1>2, ChunkCounts
<1>3. CASE ~(k + 1 < Tiles)
  BY <1>1, <1>3 DEF Rows, InteriorChunks, BorderChunks
<1>4. QED
  BY <1>2, <1>3

(* The three sorts of tasks.                                               *)
LEMMA StealTaskIs ==
  ASSUME NEW d
  PROVE  d \in Tasks <=>
           \/ \E m \in MatrixIds : d = StartTask(m)
           \/ \E k \in Offsets : \E side \in Borders, m \in MatrixIds, c \in 0 .. BorderChunks(k) - 1 :
                d = BorderTask(side, m, k, c)
           \/ \E k \in Offsets : \E m \in MatrixIds, r \in Ranges(InteriorChunks(k)) :
                d = InteriorTask(m, k, r[1], r[2])
<1> DEFINE A == {StartTask(m) : m \in MatrixIds}
           B(k) == {BorderTask(side, m, k, c) : side \in Borders, m \in MatrixIds,
                                                  c \in 0 .. BorderChunks(k) - 1}
           C(k) == {InteriorTask(m, k, r[1], r[2]) : m \in MatrixIds,
                                                       r \in Ranges(InteriorChunks(k))}
           D == UNION {B(k) : k \in Offsets}
           E == UNION {C(k) : k \in Offsets}
<1>1. Tasks = A \cup D \cup E
  BY DEF Tasks, Borders
<1>2. d \in A <=> \E m \in MatrixIds : d = StartTask(m)
  OBVIOUS
<1>3. \A k : d \in B(k) <=> \E side \in Borders, m \in MatrixIds, c \in 0 .. BorderChunks(k) - 1 :
                               d = BorderTask(side, m, k, c)
  OBVIOUS
<1>4. \A k : d \in C(k) <=> \E m \in MatrixIds, r \in Ranges(InteriorChunks(k)) :
                               d = InteriorTask(m, k, r[1], r[2])
  OBVIOUS
<1> HIDE DEF A, B, C
<1>5. d \in D <=> \E k \in Offsets : d \in B(k)
  BY Zenon
<1>6. d \in E <=> \E k \in Offsets : d \in C(k)
  BY Zenon
<1> HIDE DEF D, E
<1>7. d \in Tasks <=> d \in A \/ (\E k \in Offsets : d \in B(k)) \/ (\E k \in Offsets : d \in C(k))
  BY <1>1, <1>5, <1>6
<1>8. QED
  BY <1>2, <1>3, <1>4, <1>7, Zenon

(* The tasks that the code makes.                                          *)
LEMMA MadeTasks ==
  ASSUME NEW m \in MatrixIds
  PROVE  /\ StartTask(m) \in Tasks
         /\ \A k \in Offsets, side \in Borders : \A c \in 0 .. BorderChunks(k) - 1 :
              BorderTask(side, m, k, c) \in Tasks
         /\ \A k \in Offsets : \A from, to \in 0 .. InteriorChunks(k) :
              from < to => InteriorTask(m, k, from, to) \in Tasks
<1>1. StartTask(m) \in Tasks
  BY StealTaskIs
<1>2. ASSUME NEW k \in Offsets, NEW side \in Borders, NEW c \in 0 .. BorderChunks(k) - 1
      PROVE  BorderTask(side, m, k, c) \in Tasks
  BY StealTaskIs
<1>3. ASSUME NEW k \in Offsets, NEW from \in 0 .. InteriorChunks(k), NEW to \in 0 .. InteriorChunks(k),
             from < to
      PROVE  InteriorTask(m, k, from, to) \in Tasks
  <2>1. PICK r : r = <<from, to>>
    OBVIOUS
  <2>2. r \in Ranges(InteriorChunks(k)) /\ r[1] = from /\ r[2] = to
    BY <1>3, <2>1 DEF Ranges
  <2>3. PICK d : d = InteriorTask(m, k, r[1], r[2])
    OBVIOUS
  <2>4. d \in Tasks
    BY <2>2, <2>3, StealTaskIs
  <2>5. QED
    BY <2>2, <2>3, <2>4
<1>4. QED
  BY <1>1, <1>2, <1>3

(* The fields of a task.                                                   *)
LEMMA StealTaskParts ==
  ASSUME NEW d \in Tasks
  PROVE  /\ d[2] \in MatrixIds /\ d[3] \in Offsets /\ d[4] \in Nat
         /\ \/ d[1] = "start" /\ d[3] = 0 /\ d[4] = 0
            \/ d[1] \in Borders /\ d[3] + 1 < Tiles /\ d[4] \in 0 .. BorderChunks(d[3]) - 1
            \/ /\ d[1] = "interior" /\ d[3] + 1 < Tiles
               /\ d[5] \in 0 .. InteriorChunks(d[3]) /\ d[4] < d[5]
         /\ d[1] # "interior" => d = <<d[1], d[2], d[3], d[4]>>
         /\ d # NoTask
<1>1. 0 \in Offsets /\ Tiles \in Nat
  BY Parameters DEF Offsets
<1>2. CASE \E m \in MatrixIds : d = StartTask(m)
  <2>1. PICK m \in MatrixIds : d = <<"start", m, 0, 0>>
    BY <1>2 DEF StartTask
  <2>2. d # NoTask
    BY <2>1 DEF NoTask
  <2>3. QED
    BY <1>1, <2>1, <2>2
<1>3. CASE \E k \in Offsets : \E side \in Borders, m \in MatrixIds, c \in 0 .. BorderChunks(k) - 1 :
             d = BorderTask(side, m, k, c)
  <2>1. PICK k \in Offsets : \E side \in Borders, m \in MatrixIds, c \in 0 .. BorderChunks(k) - 1 :
             d = <<side, m, k, c>>
    BY <1>3 DEF BorderTask
  <2>2. PICK side \in Borders, m \in MatrixIds, c \in 0 .. BorderChunks(k) - 1 : d = <<side, m, k, c>>
    BY <2>1
  <2>3. k + 1 < Tiles /\ c \in Nat
    BY NoChunks
  <2>4. d # NoTask /\ side # "interior"
    BY <2>2 DEF NoTask, Borders
  <2>5. QED
    BY <2>2, <2>3, <2>4
<1>4. CASE \E k \in Offsets : \E m \in MatrixIds, r \in Ranges(InteriorChunks(k)) :
             d = InteriorTask(m, k, r[1], r[2])
  <2>1. PICK k \in Offsets : \E m \in MatrixIds, r \in Ranges(InteriorChunks(k)) :
             d = <<"interior", m, k, r[1], r[2]>>
    BY <1>4 DEF InteriorTask
  <2>2. PICK m \in MatrixIds, r \in Ranges(InteriorChunks(k)) : d = <<"interior", m, k, r[1], r[2]>>
    BY <2>1
  <2>3. r[1] \in 0 .. InteriorChunks(k) /\ r[2] \in 0 .. InteriorChunks(k) /\ r[1] < r[2]
    BY DEF Ranges
  <2>4. InteriorChunks(k) \in Nat /\ k + 1 < Tiles
    BY <2>3, NoChunks
  <2>5. d # NoTask
    BY <2>2 DEF NoTask
  <2>6. d[1] = "interior" /\ d[2] = m /\ d[3] = k /\ d[4] = r[1] /\ d[5] = r[2]
    BY <2>2
  <2>7. QED
    BY <2>3, <2>4, <2>5, <2>6
<1>5. QED
  BY <1>2, <1>3, <1>4, StealTaskIs

(* The chunks of a task.                                                   *)
LEMMA TaskChunks ==
  ASSUME NEW d \in Tasks
  PROVE  /\ FirstChunk(d) = <<d[1], d[2], d[3], d[4]>>
         /\ FirstChunk(d) \in ChunksOf(d) /\ IsChunk(FirstChunk(d))
         /\ d[1] # "interior" => ChunksOf(d) = {FirstChunk(d)}
         /\ d[1] = "interior" => \A x : x \in ChunksOf(d) <=>
              x = <<"interior", d[2], d[3], x[4]>> /\ x[4] \in d[4] .. d[5] - 1
         /\ \A x \in ChunksOf(d) : x[1] = d[1] /\ x[2] = d[2] /\ x[3] = d[3] /\ IsChunk(x)
<1> DEFINE f == FirstChunk(d)
<1>1. f = <<d[1], d[2], d[3], d[4]>>
  BY DEF FirstChunk
<1>2. f[1] = d[1] /\ f[2] = d[2] /\ f[3] = d[3] /\ f[4] = d[4] /\ f = <<f[1], f[2], f[3], f[4]>>
  BY <1>1
<1> HIDE DEF f
<1>3. d[2] \in MatrixIds /\ d[3] \in Offsets /\ InteriorChunks(d[3]) \in Nat
  BY StealTaskParts, NoChunks
<1>4. CASE d[1] # "interior"
  BY <1>1, <1>2, <1>3, <1>4, StealTaskParts DEF ChunksOf, IsChunk, f
<1>5. CASE d[1] = "interior"
  <2>1. d[5] \in 0 .. InteriorChunks(d[3]) /\ d[4] < d[5] /\ d[4] \in Nat /\ d[3] + 1 < Tiles
    BY <1>5, StealTaskParts DEF Borders
  <2>2. \A x : x \in ChunksOf(d) <=> \E c \in d[4] .. d[5] - 1 : x = <<"interior", d[2], d[3], c>>
    BY <1>5 DEF ChunksOf
  <2>3. ASSUME NEW x
        PROVE  x \in ChunksOf(d) <=>
                 x = <<"interior", d[2], d[3], x[4]>> /\ x[4] \in d[4] .. d[5] - 1
    BY <2>2
  <2>4. f \in ChunksOf(d)
    BY <1>1, <1>2, <1>3, <1>5, <2>1, <2>3
  <2>5. ASSUME NEW x \in ChunksOf(d)
        PROVE  x[1] = d[1] /\ x[2] = d[2] /\ x[3] = d[3] /\ IsChunk(x)
    BY <1>3, <1>5, <2>1, <2>3 DEF IsChunk
  <2>6. QED
    BY <1>1, <1>5, <2>3, <2>4, <2>5 DEF f
<1>6. QED
  BY <1>4, <1>5

(* The chunks of the interior from .. to - 1.                              *)
Interior(m, k, from, to) == {<<"interior", m, k, c>> : c \in from .. to - 1}

(* A range, if it is not empty, becomes a task.                            *)
LEMMA RangeHolds ==
  ASSUME NEW m \in MatrixIds, NEW k \in Offsets,
         NEW from \in 0 .. InteriorChunks(k), NEW to \in 0 .. InteriorChunks(k), from <= to
  PROVE  Holds(IF from = to THEN <<>> ELSE << InteriorTask(m, k, from, to) >>,
               Interior(m, k, from, to))
<1>1. InteriorChunks(k) \in Nat
  BY NoChunks
<1>2. CASE from = to
  <2>1. from .. to - 1 = {}
    BY <1>1, <1>2
  <2>2. Interior(m, k, from, to) = {}
    BY <2>1 DEF Interior
  <2>3. QED
    BY <1>2, <2>2, EmptyHolds, Zenon
<1>3. CASE from # to
  <2>1. PICK d : d = InteriorTask(m, k, from, to)
    OBVIOUS
  <2>2. d \in Tasks
    BY <1>1, <1>3, <2>1, MadeTasks
  <2>3. ChunksOf(d) = Interior(m, k, from, to)
    BY <2>1 DEF ChunksOf, InteriorTask, Interior
  <2>4. QED
    BY <1>3, <2>1, <2>2, <2>3, OneHolds, Zenon
<1>4. QED
  BY <1>2, <1>3

(* Ranges that follow each other.                                          *)
LEMMA InteriorSplit ==
  ASSUME NEW m, NEW k, NEW a \in Nat, NEW b \in Nat, NEW c \in Nat, a <= b, b <= c
  PROVE  /\ Interior(m, k, a, b) \cup Interior(m, k, b, c) = Interior(m, k, a, c)
         /\ Interior(m, k, a, b) \cap Interior(m, k, b, c) = {}
<1>1. ASSUME NEW i \in Nat, NEW j \in Nat, NEW x
      PROVE  x \in Interior(m, k, i, j) <=> x = <<"interior", m, k, x[4]>> /\ x[4] \in i .. j - 1
  BY DEF Interior
<1>2. \A n : n \in a .. c - 1 <=> n \in a .. b - 1 \/ n \in b .. c - 1
  OBVIOUS
<1>3. \A n : ~(n \in a .. b - 1 /\ n \in b .. c - 1)
  OBVIOUS
<1>4. QED
  BY <1>1, <1>2, <1>3

(* The pieces of a range: where they start and end.                        *)
LEMMA PieceBounds ==
  ASSUME NEW n \in Nat
  PROVE  /\ (n * 0) \div 4 = 0 /\ (n * 4) \div 4 = n
         /\ (n * 1) \div 4 \in 0 .. n /\ (n * 2) \div 4 \in 0 .. n /\ (n * 3) \div 4 \in 0 .. n
         /\ (n * 1) \div 4 <= (n * 2) \div 4 /\ (n * 2) \div 4 <= (n * 3) \div 4
         /\ (n * 0) \div 2 = 0 /\ (n * 2) \div 2 = n /\ (n * 1) \div 2 \in 0 .. n
  OBVIOUS

(* schedule_interior pushes every chunk of the interior.                   *)
LEMMA QuartersHold ==
  ASSUME NEW m \in MatrixIds, NEW k \in Offsets
  PROVE  Holds(Quarters(m, k), Interior(m, k, 0, InteriorChunks(k)))
<1> DEFINE n == InteriorChunks(k)
           b == (n * 1) \div 4
           c == (n * 2) \div 4
           d == (n * 3) \div 4
           I(i, j) == Interior(m, k, i, j)
           R(i, j) == IF i = j THEN <<>> ELSE << InteriorTask(m, k, i, j) >>
<1>1. n \in Nat
  BY NoChunks
<1>2. b \in 0 .. n /\ c \in 0 .. n /\ d \in 0 .. n /\ b <= c /\ c <= d
        /\ (n * 0) \div 4 = 0 /\ (n * 4) \div 4 = n
  BY <1>1, PieceBounds
<1>3. Quarters(m, k) = R(0, b) \o R(b, c) \o R(c, d) \o R(d, n)
  <2>1. /\ 0 + (n * 0) \div 4 = 0 /\ 0 + (n * (0 + 1)) \div 4 = b
        /\ 0 + (n * 1) \div 4 = b /\ 0 + (n * (1 + 1)) \div 4 = c
        /\ 0 + (n * 2) \div 4 = c /\ 0 + (n * (2 + 1)) \div 4 = d
        /\ 0 + (n * 3) \div 4 = d /\ 0 + (n * (3 + 1)) \div 4 = n
    BY <1>1, <1>2
  <2>2. /\ Piece(m, k, 0, n, 0, 4) = R(0, b) /\ Piece(m, k, 0, n, 1, 4) = R(b, c)
        /\ Piece(m, k, 0, n, 2, 4) = R(c, d) /\ Piece(m, k, 0, n, 3, 4) = R(d, n)
    BY <2>1 DEF Piece
  <2>3. InteriorChunks(k) = n
    OBVIOUS
  <2> HIDE DEF R, n, b, c, d
  <2>4. QED
    BY <2>2, <2>3 DEF Quarters
<1> HIDE DEF n, b, c, d
<1>4. Holds(R(0, b), I(0, b)) /\ Holds(R(b, c), I(b, c)) /\ Holds(R(c, d), I(c, d)) /\ Holds(R(d, n), I(d, n))
  <2>1. ASSUME NEW i \in 0 .. n, NEW j \in 0 .. n, i <= j PROVE Holds(R(i, j), I(i, j))
    BY <2>1, RangeHolds DEF n
  <2>2. 0 \in 0 .. n /\ n \in 0 .. n /\ d <= n /\ 0 <= b
    BY <1>1, <1>2
  <2> HIDE DEF R, I
  <2>3. QED
    BY <1>2, <2>1, <2>2
<1>5. /\ I(0, b) \cup I(b, c) = I(0, c) /\ I(0, b) \cap I(b, c) = {}
      /\ I(0, c) \cup I(c, d) = I(0, d) /\ I(0, c) \cap I(c, d) = {}
      /\ I(0, d) \cup I(d, n) = I(0, n) /\ I(0, d) \cap I(d, n) = {}
  <2>1. ASSUME NEW i \in Nat, NEW j \in Nat, NEW l \in Nat, i <= j, j <= l
        PROVE  I(i, j) \cup I(j, l) = I(i, l) /\ I(i, j) \cap I(j, l) = {}
    BY <2>1, InteriorSplit
  <2>2. /\ 0 \in Nat /\ b \in Nat /\ c \in Nat /\ d \in Nat
        /\ 0 <= b /\ b <= c /\ c <= d /\ 0 <= c /\ 0 <= d /\ d <= n
    BY <1>1, <1>2
  <2> HIDE DEF I
  <2>3. QED
    BY <1>1, <2>1, <2>2
<1> HIDE DEF R, I
<1>6. Holds(R(0, b) \o R(b, c), I(0, c))
  BY <1>4, <1>5, ConcatHolds
<1>7. Holds(R(0, b) \o R(b, c) \o R(c, d), I(0, d))
  BY <1>4, <1>5, <1>6, ConcatHolds
<1>8. Holds(R(0, b) \o R(b, c) \o R(c, d) \o R(d, n), I(0, n))
  BY <1>4, <1>5, <1>7, ConcatHolds
<1>9. QED
  BY <1>3, <1>8 DEF I, n

(* An interior task pushes its chunks but the first one.                   *)
LEMMA RestHolds ==
  ASSUME NEW t, task[t] \in Tasks, task[t][1] = "interior"
  PROVE  Holds(Rest(t), ChunksOf(task[t]) \ {FirstChunk(task[t])})
<1> DEFINE d == task[t]
           m == d[2]
           k == d[3]
           from == d[4] + 1
           to == d[5]
           n == to - from
           h == (n * 1) \div 2
           mid == from + h
           I(i, j) == Interior(m, k, i, j)
           R(i, j) == IF i = j THEN <<>> ELSE << InteriorTask(m, k, i, j) >>
<1>1. /\ m \in MatrixIds /\ k \in Offsets /\ d[4] \in Nat /\ d[4] < to
      /\ to \in 0 .. InteriorChunks(k) /\ InteriorChunks(k) \in Nat
  BY StealTaskParts, NoChunks DEF Borders
<1>2. n \in Nat /\ from \in 0 .. InteriorChunks(k) /\ from <= to
  BY <1>1
<1>3. h \in 0 .. n /\ (n * 0) \div 2 = 0 /\ (n * 2) \div 2 = n
  BY <1>2, PieceBounds
<1>4. Rest(t) = R(from, mid) \o R(mid, to)
  <2>1. 0 + 1 = 1 /\ 1 + 1 = 2 /\ from + 0 = from /\ from + n = to
    BY <1>1
  <2>2. from + (n * 0) \div 2 = from /\ from + (n * (0 + 1)) \div 2 = mid
        /\ from + (n * 1) \div 2 = mid /\ from + (n * (1 + 1)) \div 2 = to
    BY <1>3, <2>1
  <2>3. Piece(m, k, from, n, 0, 2) = R(from, mid) /\ Piece(m, k, from, n, 1, 2) = R(mid, to)
    BY <2>2 DEF Piece
  <2>4. Matrix(t) = m /\ Offset(t) = k
    BY DEF Matrix, Offset
  <2> HIDE DEF R
  <2>5. QED
    BY <2>3, <2>4 DEF Rest
<1> HIDE DEF n, h
<1>5. mid \in 0 .. InteriorChunks(k) /\ from <= mid /\ mid <= to
  BY <1>1, <1>2, <1>3 DEF n
<1> HIDE DEF mid
<1>6. Holds(R(from, mid), I(from, mid)) /\ Holds(R(mid, to), I(mid, to))
  BY <1>1, <1>2, <1>5, RangeHolds
<1>7. I(from, mid) \cup I(mid, to) = I(from, to) /\ I(from, mid) \cap I(mid, to) = {}
  <2>1. ASSUME NEW i \in Nat, NEW j \in Nat, NEW l \in Nat, i <= j, j <= l
        PROVE  I(i, j) \cup I(j, l) = I(i, l) /\ I(i, j) \cap I(j, l) = {}
    BY <2>1, InteriorSplit
  <2>2. from \in Nat /\ mid \in Nat /\ to \in Nat
    BY <1>1, <1>2, <1>5
  <2> HIDE DEF I, from, to
  <2>3. QED
    BY <1>5, <2>1, <2>2
<1>8. I(from, to) = ChunksOf(d) \ {FirstChunk(d)}
  <2>1. \A x : x \in I(from, to) <=> x = <<"interior", m, k, x[4]>> /\ x[4] \in from .. to - 1
    BY DEF Interior
  <2>2. \A x : x \in ChunksOf(d) <=> x = <<"interior", m, k, x[4]>> /\ x[4] \in d[4] .. to - 1
    BY TaskChunks
  <2>3. FirstChunk(d) = <<"interior", m, k, d[4]>>
    BY TaskChunks
  <2>4. \A c : c \in from .. to - 1 <=> c \in d[4] .. to - 1 /\ c # d[4]
    BY <1>1
  <2> HIDE DEF I, m, k, from, to, d
  <2>5. QED
    BY <2>1, <2>2, <2>3, <2>4
<1> HIDE DEF R, I
<1>9. Holds(R(from, mid) \o R(mid, to), I(from, to))
  BY <1>6, <1>7, ConcatHolds
<1>10. QED
  BY <1>4, <1>8, <1>9

(* The chunks of the borders.                                              *)
BorderNames(m, k) == {<<side, m, k, c>> : side \in Borders, c \in 0 .. BorderChunks(k) - 1}

(* schedule_border pushes every chunk of both borders.                     *)
LEMMA BordersHold ==
  ASSUME NEW m \in MatrixIds, NEW k \in Offsets
  PROVE  Holds(BorderTasks(m, k), BorderNames(m, k))
<1> DEFINE b == BorderChunks(k)
           side(i) == IF i % 2 = 1 THEN "left" ELSE "top"
           e(i) == BorderTask(side(i), m, k, (i - 1) \div 2)
           s == [i \in 1 .. 2 * b |-> e(i)]
           n == 2 * b
<1>1. b \in Nat /\ n \in Nat
  BY NoChunks
<1>2. BorderTasks(m, k) = s
  BY DEF BorderTasks
<1>3. ASSUME NEW i \in 1 .. n PROVE (i - 1) \div 2 \in 0 .. b - 1 /\ side(i) \in Borders /\ i \in Nat
  BY <1>1 DEF Borders
<1>4. ASSUME NEW i \in 1 .. n
      PROVE  e(i) \in Tasks /\ ChunksOf(e(i)) = {<<side(i), m, k, (i - 1) \div 2>>}
  BY <1>3, MadeTasks DEF BorderTask, ChunksOf
<1>5. s \in Seq(Tasks) /\ Len(s) = n /\ \A i \in 1 .. n : s[i] = e(i)
  BY <1>1, <1>4
<1> HIDE DEF s, n
<1>6. \A x : x \in ChunksIn(s) <=> \E i \in 1 .. n : x = <<side(i), m, k, (i - 1) \div 2>>
  <2>1. \A x : x \in ChunksIn(s) <=> \E i \in 1 .. n : x \in ChunksOf(s[i])
    BY <1>5, ChunkInSeq
  <2>2. \A i \in 1 .. n : ChunksOf(s[i]) = {<<side(i), m, k, (i - 1) \div 2>>}
    BY <1>4, <1>5
  <2> HIDE DEF e, side
  <2>3. QED
    BY <2>1, <2>2
<1>7. ChunksIn(s) = BorderNames(m, k)
  <2>1. ASSUME NEW i \in 1 .. n PROVE <<side(i), m, k, (i - 1) \div 2>> \in BorderNames(m, k)
    BY <1>3 DEF BorderNames
  <2>2. ASSUME NEW x \in BorderNames(m, k)
        PROVE  \E i \in 1 .. n : x = <<side(i), m, k, (i - 1) \div 2>>
    <3>1. PICK l \in Borders, c \in 0 .. b - 1 : x = <<l, m, k, c>>
      BY DEF BorderNames
    <3>2. CASE l = "left"
      <4>1. 2 * c + 1 \in 1 .. n /\ (2 * c + 1) % 2 = 1 /\ ((2 * c + 1) - 1) \div 2 = c
        BY <1>1 DEF n
      <4>2. QED
        BY <3>1, <3>2, <4>1
    <3>3. CASE l = "top"
      <4>1. 2 * c + 2 \in 1 .. n /\ (2 * c + 2) % 2 # 1 /\ ((2 * c + 2) - 1) \div 2 = c
        BY <1>1 DEF n
      <4>2. QED
        BY <3>1, <3>3, <4>1
    <3>4. QED
      BY <3>2, <3>3 DEF Borders
  <2> HIDE DEF side
  <2>3. QED
    BY <1>6, <2>1, <2>2
<1>8. Apart(s)
  <2>1. SUFFICES ASSUME NEW i \in 1 .. n, NEW j \in 1 .. n, i # j, NEW x,
                        x \in ChunksOf(s[i]), x \in ChunksOf(s[j])
                 PROVE  FALSE
    BY <1>5, ChunkInSeq
  <2>2. x = <<side(i), m, k, (i - 1) \div 2>> /\ x = <<side(j), m, k, (j - 1) \div 2>>
    BY <1>4, <1>5, <2>1
  <2>3. side(i) = side(j) /\ (i - 1) \div 2 = (j - 1) \div 2
    <3> HIDE DEF side
    <3>1. QED
      BY <2>2
  <2>4. i % 2 = 1 <=> j % 2 = 1
    BY <2>3
  <2>5. i = j
    BY <1>1, <2>3, <2>4 DEF n
  <2>6. QED
    BY <2>1, <2>5
<1>9. QED
  BY <1>2, <1>5, <1>7, <1>8 DEF Holds

-----------------------------------------------------------------------------
(* Counting chunks.                                                        *)

(* The first n chunks of a kind.                                           *)
Names(kind, m, k, n) == {<<kind, m, k, c>> : c \in 0 .. n - 1}

(* As many chunks of one kind as there are indices.                        *)
LEMMA NamesCount ==
  ASSUME NEW kind, NEW m, NEW k, NEW n \in Nat
  PROVE  IsFiniteSet(Names(kind, m, k, n)) /\ Cardinality(Names(kind, m, k, n)) = n
<1> DEFINE I == 0 .. n - 1
           X == Names(kind, m, k, n)
           f == [c \in I |-> <<kind, m, k, c>>]
<1>1. IsFiniteSet(I) /\ Cardinality(I) = n
  BY FS_Interval
<1>2. f \in Bijection(I, X)
  <2>1. \A c \in I : f[c] = <<kind, m, k, c>>
    OBVIOUS
  <2>2. \A c, d \in I : f[c] = f[d] => c = d
    BY <2>1
  <2>3. f \in [I -> X]
    BY DEF Names
  <2> HIDE DEF f, I
  <2>4. f \in Injection(I, X)
    BY <2>2, <2>3 DEF Injection, IsInjective
  <2>5. \A y \in X : \E c \in I : f[c] = y
    BY <2>1 DEF I, Names
  <2>6. QED
    BY <2>3, <2>4, <2>5 DEF Bijection, Surjection
<1> HIDE DEF f, I
<1>3. ExistsBijection(I, X)
  BY <1>2 DEF ExistsBijection
<1>4. QED
  BY <1>1, <1>3, FS_Bijection

(* The borders of an iteration, which synchronisation_var1 counts.         *)
LEMMA BorderNamesCount ==
  ASSUME NEW m \in MatrixIds, NEW k \in Offsets
  PROVE  IsFiniteSet(BorderNames(m, k)) /\ Cardinality(BorderNames(m, k)) = 2 * BorderChunks(k)
<1> DEFINE n == BorderChunks(k)
           A == Names("left", m, k, n)
           B == Names("top", m, k, n)
<1>1. n \in Nat
  BY NoChunks
<1>2. IsFiniteSet(A) /\ Cardinality(A) = n /\ IsFiniteSet(B) /\ Cardinality(B) = n
  BY <1>1, NamesCount
<1>3. BorderNames(m, k) = A \cup B
  BY DEF BorderNames, Borders, Names
<1>4. A \cap B = {}
  BY DEF Names
<1> HIDE DEF A, B, n
<1>5. IsFiniteSet(A \cup B) /\ Cardinality(A \cup B) = Cardinality(A) + Cardinality(B) - Cardinality(A \cap B)
  BY <1>2, FS_Union
<1>6. Cardinality(A \cap B) = 0
  BY <1>4, FS_EmptySet
<1>7. QED
  BY <1>1, <1>2, <1>3, <1>5, <1>6 DEF n

(* The chunks of the interior, and those of its first tile.                *)
LEMMA InteriorCount ==
  ASSUME NEW m \in MatrixIds, NEW k \in Offsets, k + 1 < Tiles
  PROVE  LET X == Interior(m, k, 0, InteriorChunks(k))
             F == {x \in X : InFirstTile(x[3], x[4])}
         IN  /\ IsFiniteSet(X) /\ Cardinality(X) = InteriorChunks(k)
             /\ Cardinality(F) = Parts
<1> DEFINE n == InteriorChunks(k)
           X == Interior(m, k, 0, n)
           F == {x \in X : InFirstTile(x[3], x[4])}
<1>1. n \in Nat /\ Parts \in Nat \ {0} /\ k \in Nat
  BY NoChunks, Parameters
<1>2. IsFiniteSet(X) /\ Cardinality(X) = n
  <2>1. X = Names("interior", m, k, n)
    BY DEF Interior, Names
  <2> HIDE DEF X, n
  <2>2. QED
    BY <1>1, <2>1, NamesCount
<1>3. n = Rows(k) * (Tiles - k - 1) /\ Rows(k) = (Tiles - k - 1) * Parts
        /\ Tiles - k - 1 \in Nat \ {0} /\ Rows(k) \in Nat \ {0}
  BY ChunkCounts DEF InteriorChunks, Rows
<1>4. Parts <= Rows(k) /\ Rows(k) <= n
  BY <1>1, <1>3
<1>5. ASSUME NEW c \in 0 .. n - 1 PROVE InFirstTile(k, c) <=> c < Parts
  <2> DEFINE q == Rows(k)
  <2>1. c = (c \div q) * q + (c % q) /\ c \div q \in Nat /\ c % q \in 0 .. q - 1
    <3>1. c \in Nat /\ q \in Nat \ {0}
      BY <1>1, <1>3
    <3> HIDE DEF q
    <3>2. QED
      BY <3>1, DivMod
  <2>2. InFirstTile(k, c) <=> (k + 1) * Parts + (c % q) < (k + 2) * Parts /\ c \div q < 1
    BY <1>1, <2>1 DEF InFirstTile, RowOf, ColumnOf
  <2>3. (k + 2) * Parts = (k + 1) * Parts + Parts /\ (k + 1) * Parts \in Nat
    BY <1>1
  <2> HIDE DEF q
  <2>4. InFirstTile(k, c) <=> c % q < Parts /\ c \div q = 0
    <3> DEFINE e == (k + 1) * Parts
               f == (k + 2) * Parts
    <3>1. InFirstTile(k, c) <=> e + (c % q) < f /\ c \div q < 1
      BY <2>2
    <3>2. f = e + Parts /\ e \in Nat
      BY <2>3
    <3>3. \A r \in Nat : e + r < f <=> r < Parts
      <4> HIDE DEF e, f
      <4>1. QED
        BY <1>1, <3>2
    <3>4. q \in Nat
      BY <1>3 DEF q
    <3>5. c % q \in Nat /\ (c \div q < 1 <=> c \div q = 0)
      BY <2>1, <3>4
    <3> HIDE DEF e, f
    <3>6. QED
      BY <3>1, <3>3, <3>5
  <2>5. CASE c \div q = 0
    <3>1. (c \div q) * q = 0
      BY <1>3, <2>5 DEF q
    <3>2. c = c % q
      BY <2>1, <3>1
    <3>3. QED
      BY <2>4, <2>5, <3>2
  <2>6. CASE c \div q # 0
    <3>1. (c \div q) * q >= q
      <4>1. \A a, b \in Nat : a # 0 => a * b >= b
        OBVIOUS
      <4>2. q \in Nat
        BY <1>3 DEF q
      <4>3. QED
        BY <2>1, <2>6, <4>1, <4>2
    <3>2. c >= q
      BY <1>3, <2>1, <3>1 DEF q
    <3>3. QED
      BY <1>1, <1>3, <1>4, <2>4, <2>6, <3>2 DEF q
  <2>7. QED
    BY <2>5, <2>6
<1>6. F = {<<"interior", m, k, c>> : c \in 0 .. Parts - 1}
  <2>1. \A x : x \in X <=> x = <<"interior", m, k, x[4]>> /\ x[4] \in 0 .. n - 1
    BY DEF Interior
  <2>2. \A x : x \in {<<"interior", m, k, c>> : c \in 0 .. Parts - 1} <=>
                 x = <<"interior", m, k, x[4]>> /\ x[4] \in 0 .. Parts - 1
    OBVIOUS
  <2>3. \A c : c \in 0 .. Parts - 1 <=> c \in 0 .. n - 1 /\ InFirstTile(k, c)
    BY <1>1, <1>3, <1>4, <1>5
  <2>4. \A x : x \in X => x[3] = k
    BY <2>1
  <2> HIDE DEF X, n
  <2>5. QED
    BY <2>1, <2>2, <2>3, <2>4
<1>7. Cardinality(F) = Parts
  <2>1. F = Names("interior", m, k, Parts)
    BY <1>6 DEF Names
  <2> HIDE DEF F
  <2>2. QED
    BY <1>1, <2>1, NamesCount
<1>8. QED
  BY <1>2, <1>7

(* A matrix has finitely many chunks in an iteration.                      *)
LEMMA ChunksFinite ==
  ASSUME NEW m \in MatrixIds, NEW k \in Offsets, NEW X,
         \A x \in X : IsChunk(x) /\ x[2] = m /\ x[3] = k
  PROVE  /\ IsFiniteSet(X) /\ Cardinality(X) \in Nat /\ (Cardinality(X) = 0 <=> X = {})
         /\ \A Y : IsFiniteSet({x \in X : x \in Y})
         /\ \A x \in X : Cardinality(X \ {x}) = Cardinality(X) - 1
<1> DEFINE A == Names("start", m, k, 1)
           B == BorderNames(m, k)
           C == Names("interior", m, k, InteriorChunks(k))
<1>1. InteriorChunks(k) \in Nat /\ 1 \in Nat
  BY NoChunks
<1>2. IsFiniteSet(A) /\ IsFiniteSet(B) /\ IsFiniteSet(C)
  BY <1>1, NamesCount, BorderNamesCount
<1>3. X \subseteq A \cup B \cup C
  <2>1. SUFFICES ASSUME NEW x \in X PROVE x \in A \cup B \cup C
    OBVIOUS
  <2>2. x = <<x[1], m, k, x[4]>>
    BY DEF IsChunk
  <2>3. CASE x[1] = "start" /\ x[4] = 0
    BY <2>2, <2>3 DEF Names
  <2>4. CASE x[1] \in Borders /\ x[4] \in 0 .. BorderChunks(k) - 1
    BY <2>2, <2>4 DEF BorderNames
  <2>5. CASE x[1] = "interior" /\ x[4] \in 0 .. InteriorChunks(k) - 1
    BY <2>2, <2>5 DEF Names
  <2>6. QED
    BY <2>3, <2>4, <2>5 DEF IsChunk
<1> HIDE DEF A, B, C
<1>4. IsFiniteSet(A \cup B \cup C)
  BY <1>2, FS_Union
<1>5. IsFiniteSet(X)
  BY <1>3, <1>4, FS_Subset
<1>6. Cardinality(X) \in Nat /\ (Cardinality(X) = 0 <=> X = {})
  BY <1>5, FS_CardinalityType, FS_EmptySet
<1>7. ASSUME NEW Y PROVE IsFiniteSet({x \in X : x \in Y})
  BY <1>5, FS_Subset
<1>8. \A x \in X : Cardinality(X \ {x}) = Cardinality(X) - 1
  BY <1>5, FS_RemoveElement
<1>9. QED
  BY <1>5, <1>6, <1>7, <1>8

-----------------------------------------------------------------------------
(* Where the chunks are.                                                   *)

(* What a thread holds, by its label.                                      *)
HeldBy(p, t, deque, rest, label, job) ==
  CASE p = "deque" -> ChunksIn(deque)
    [] p = "push"  -> ChunksIn(rest)
    [] p = "run"   -> IF label = "run" THEN ChunksOf(job)
                      ELSE IF label \in {"pushRest", "interior"} THEN {FirstChunk(job)} ELSE {}
    [] p = "first" -> IF label = "countFirstTile" THEN {FirstChunk(job)} ELSE {}
    [] p = "count" -> IF label \in {"countBorder", "diagonal", "countChunk"}
                        THEN {FirstChunk(job)} ELSE {}

(* What thread t holds at place p, from its entries of the variables,      *)
(* before and after a step.                                                *)
LEMMA HeldAt ==
  ASSUME NEW p \in Anywhere, NEW t \in Threads
  PROVE  /\ <<p, t>> \in Holders
         /\ Held(<<p, t>>) = HeldBy(p, t, workers[t], subtasks[t], pc[t], task[t])
         /\ Held(<<p, t>>)' = HeldBy(p, t, workers'[t], subtasks'[t], pc'[t], task'[t])
<1>1. <<p, t>> \in Holders
  BY DEF Holders, Anywhere
<1>2. PICK h : h = <<p, t>> /\ h[1] = p /\ h[2] = t
  <2>1. <<p, t>>[1] = p /\ <<p, t>>[2] = t
    OBVIOUS
  <2>2. QED
    BY <2>1
<1>3. Held(h) = HeldBy(p, t, workers[t], subtasks[t], pc[t], task[t])
  BY <1>2 DEF Held, HeldBy, Anywhere
<1>4. Held(h)' = HeldBy(p, t, workers'[t], subtasks'[t], pc'[t], task'[t])
  BY <1>2 DEF Held, HeldBy, Anywhere
<1>5. QED
  BY <1>1, <1>2, <1>3, <1>4

(* The places are those of the threads.                                    *)
LEMMA HolderIs ==
  ASSUME NEW h \in Holders
  PROVE  h[1] \in Anywhere /\ h[2] \in Threads /\ h = <<h[1], h[2]>>
BY DEF Holders, Anywhere

(* The chunks in some places.                                              *)
LEMMA HeldInIs ==
  ASSUME NEW places, NEW m, NEW x
  PROVE  /\ x \in HeldIn(places, m) <=>
              x[2] = m /\ \E h \in Holders : h[1] \in places /\ x \in Held(h)
         /\ x \in HeldIn(places, m)' <=>
              x[2] = m /\ \E h \in Holders : h[1] \in places /\ x \in Held(h)'
<1> DEFINE J == {i \in Holders : i[1] \in places}
           U == UNION {Held(h) : h \in J}
           V == UNION {Held(h)' : h \in J}
<1>1. x \in U <=> \E h \in J : x \in Held(h)
  BY Zenon
<1>2. x \in V <=> \E h \in J : x \in Held(h)'
  BY Zenon
<1>3. x \in HeldIn(places, m) <=> x \in U /\ x[2] = m
  BY DEF HeldIn
<1>4. x \in HeldIn(places, m)' <=> x \in V /\ x[2] = m
  BY DEF HeldIn
<1> HIDE DEF U, V
<1>5. QED
  BY <1>1, <1>2, <1>3, <1>4

(* No chunk is held twice.                                                 *)
HeldOnce == \A g, h \in Holders : g # h => \A x : ~(x \in Held(g) /\ x \in Held(h))

(* A place that is not one: where new chunks come from, where counted ones *)
(* go.                                                                     *)
Nowhere == <<"nowhere", 0>>

(* A step that moves chunks from one place to another, makes new ones      *)
(* (from nowhere) or counts them (to nowhere).                             *)
Shift(D, g, h) ==
  /\ g \in Holders \cup {Nowhere} /\ h \in Holders \cup {Nowhere} /\ g # h
  /\ IF g = Nowhere THEN \A i \in Holders : \A x \in D : x \notin Held(i)
                    ELSE D \subseteq Held(g)
  /\ \A i \in Holders :
       Held(i)' = (Held(i) \ (IF i = g THEN D ELSE {})) \cup (IF i = h THEN D ELSE {})

(* "nowhere" is the place of no chunk: a Shift from it adds chunks, a      *)
(* Shift to it takes them away.                                            *)
LEMMA NowhereHeld == Nowhere \notin Holders /\ Nowhere[1] \notin Anywhere
BY HolderIs DEF Nowhere, Anywhere

(* Such a step keeps chunks from being held twice.                         *)
LEMMA ShiftOnce ==
  ASSUME HeldOnce, NEW D, NEW g, NEW h, Shift(D, g, h)
  PROVE  HeldOnce'
<1>1. SUFFICES ASSUME NEW i \in Holders, NEW j \in Holders, i # j, NEW x,
                      x \in Held(i)', x \in Held(j)'
               PROVE  FALSE
  BY DEF HeldOnce, Holders
<1>2. ~(x \in Held(i) /\ x \in Held(j))
  BY <1>1 DEF HeldOnce
<1>3. CASE x \notin D
  BY <1>1, <1>2, <1>3 DEF Shift
<1>4. CASE x \in D
  <2>1. g = Nowhere => x \notin Held(i) /\ x \notin Held(j)
    BY <1>4 DEF Shift
  <2>2. g # Nowhere => g \in Holders /\ x \in Held(g)
    BY <1>4 DEF Shift
  <2>3. \A l \in Holders : l # g => x \notin Held(l)
    BY <1>4, <2>2 DEF HeldOnce, Shift
  <2>4. \A l \in Holders : x \in Held(l)' => l = h
    BY <1>4, <2>3 DEF Shift
  <2>5. QED
    BY <1>1, <2>4
<1>5. QED
  BY <1>3, <1>4

(* What it does to the chunks in some places.                              *)
LEMMA ShiftIn ==
  ASSUME HeldOnce, NEW D, NEW g, NEW h, Shift(D, g, h), NEW P \in SUBSET Anywhere, NEW m
  PROVE  HeldIn(P, m)' = (HeldIn(P, m) \ (IF g[1] \in P THEN D ELSE {}))
                             \cup (IF h[1] \in P THEN {x \in D : x[2] = m} ELSE {})
<1>1. ASSUME NEW x, x \in HeldIn(P, m)'
      PROVE  (x \in HeldIn(P, m) /\ ~(g[1] \in P /\ x \in D)) \/ (h[1] \in P /\ x \in D /\ x[2] = m)
  <2>1. PICK i \in Holders : i[1] \in P /\ x \in Held(i)' /\ x[2] = m
    BY <1>1, HeldInIs
  <2>2. CASE i = h /\ x \in D
    BY <2>1, <2>2
  <2>3. CASE x \in Held(i) /\ ~(i = g /\ x \in D)
    <3>1. x \in HeldIn(P, m)
      BY <2>1, <2>3, HeldInIs
    <3>2. ~(g[1] \in P /\ x \in D)
      BY <2>3, NowhereHeld DEF Shift, HeldOnce
    <3>3. QED
      BY <3>1, <3>2
  <2>4. QED
    BY <2>1, <2>2, <2>3 DEF Shift
<1>2. ASSUME NEW x, x \in HeldIn(P, m), ~(g[1] \in P /\ x \in D)
      PROVE  x \in HeldIn(P, m)'
  <2>1. PICK i \in Holders : i[1] \in P /\ x \in Held(i) /\ x[2] = m
    BY <1>2, HeldInIs
  <2>2. x \in Held(i)'
    BY <1>2, <2>1 DEF Shift
  <2>3. QED
    BY <2>1, <2>2, HeldInIs
<1>3. ASSUME NEW x, h[1] \in P, x \in D, x[2] = m
      PROVE  x \in HeldIn(P, m)'
  BY <1>3, NowhereHeld, HeldInIs DEF Shift
<1>4. QED
  BY <1>1, <1>2, <1>3

-----------------------------------------------------------------------------
(* What each step changes.                                                 *)

(* The labels of a thread.                                                 *)
StealLabels == ClaimLabels \cup
  {"run", "scheduleBorder", "push", "pushRest", "countBorder", "storeFirstTile", "storeChunks",
   "interior", "countFirstTile", "diagonal", "countChunk", "countMatrix", "finish"}

(* A step of thread t, for what belongs to threads.                        *)
StealMoves(t, label, job, w, rest) ==
  /\ pc' = [pc EXCEPT ![t] = label]
  /\ task' = [task EXCEPT ![t] = job]
  /\ work' = [work EXCEPT ![t] = w]
  /\ subtasks' = [subtasks EXCEPT ![t] = rest]

(* The entries of thread t are the new ones, those of the other threads    *)
(* stay.                                                                   *)
LEMMA MovesAt ==
  ASSUME TypeOK, NEW t \in Threads, NEW label, NEW job, NEW w, NEW rest,
         StealMoves(t, label, job, w, rest)
  PROVE  /\ pc'[t] = label /\ task'[t] = job /\ work'[t] = w /\ subtasks'[t] = rest
         /\ \A u \in Threads \ {t} : /\ pc'[u] = pc[u] /\ task'[u] = task[u]
                                     /\ work'[u] = work[u] /\ subtasks'[u] = subtasks[u]
BY DEF TypeOK, StealLabels, StealMoves

(* The types, in the words of this module.                                 *)
LEMMA StealTypes ==
  /\ TypeOK <=>
       /\ version \in [Cells -> 0 .. Tiles]
       /\ workers \in [Threads -> Seq(Tasks)] /\ subtasks \in [Threads -> Seq(Tasks)]
       /\ finished \in BOOLEAN /\ other \in [Threads -> Threads]
       /\ task \in [Threads -> Tasks \cup {NoTask}] /\ pc \in [Threads -> StealLabels]
       /\ sync1 \in [MatrixIds -> Nat] /\ sync2 \in [MatrixIds -> Nat]
       /\ pending \in 0 .. Matrices /\ work \in [Threads -> Works \cup {NoWork}]
  /\ TypeOK' <=>
       /\ version' \in [Cells -> 0 .. Tiles]
       /\ workers' \in [Threads -> Seq(Tasks)] /\ subtasks' \in [Threads -> Seq(Tasks)]
       /\ finished' \in BOOLEAN /\ other' \in [Threads -> Threads]
       /\ task' \in [Threads -> Tasks \cup {NoTask}] /\ pc' \in [Threads -> StealLabels]
       /\ sync1' \in [MatrixIds -> Nat] /\ sync2' \in [MatrixIds -> Nat]
       /\ pending' \in 0 .. Matrices /\ work' \in [Threads -> Works \cup {NoWork}]
BY DEF TypeOK, StealLabels

(* A step of a thread keeps the types of what belongs to threads.          *)
LEMMA MovesTypes ==
  ASSUME TypeOK, NEW t \in Threads, NEW label \in StealLabels,
         NEW job \in Tasks \cup {NoTask}, NEW w \in Works \cup {NoWork},
         NEW rest \in Seq(Tasks), StealMoves(t, label, job, w, rest)
  PROVE  /\ pc' \in [Threads -> StealLabels] /\ task' \in [Threads -> Tasks \cup {NoTask}]
         /\ work' \in [Threads -> Works \cup {NoWork}] /\ subtasks' \in [Threads -> Seq(Tasks)]
BY StealTypes DEF StealMoves

(* A thread that looks for a task.                                         *)
LEMMA ClaimEffects ==
  ASSUME TypeOK, NEW t \in Threads,
         LoadFinished(t) \/ PopNothing(t) \/ StealNothing(t), UNCHANGED ludVars
  PROVE  /\ pc[t] \in ClaimLabels
         /\ \E label \in ClaimLabels : StealMoves(t, label, task[t], work[t], subtasks[t])
         /\ other' \in [Threads -> Threads]
         /\ UNCHANGED <<workers, finished, sync1, sync2, version, pending>>
<1>1. UNCHANGED <<version, sync1, sync2, pending, work, subtasks>>
  BY DEF ludVars
<1>2. /\ pc \in [Threads -> StealLabels] /\ task \in [Threads -> Tasks \cup {NoTask}]
      /\ work \in [Threads -> Works \cup {NoWork}] /\ subtasks \in [Threads -> Seq(Tasks)]
      /\ other \in [Threads -> Threads]
  BY StealTypes
<1>3. CASE LoadFinished(t)
  <2>1. PICK label \in ClaimLabels : pc' = [pc EXCEPT ![t] = label]
    BY <1>3 DEF LoadFinished, Goto, ClaimLabels
  <2>2. UNCHANGED <<workers, finished, other, task>> /\ pc[t] \in ClaimLabels
    BY <1>3 DEF LoadFinished, ClaimLabels
  <2>3. QED
    BY <1>1, <1>2, <2>1, <2>2 DEF StealMoves
<1>4. CASE PopNothing(t)
  BY <1>1, <1>2, <1>4 DEF PopNothing, Goto, ClaimLabels, StealMoves
<1>5. CASE StealNothing(t)
  <2>1. UNCHANGED <<workers, finished, task>> /\ pc[t] \in ClaimLabels
          /\ other' = [other EXCEPT ![t] = NextOther(t)]
    BY <1>5 DEF StealNothing, ClaimLabels
  <2>2. PICK label \in ClaimLabels : pc' = [pc EXCEPT ![t] = label]
    BY <1>5 DEF StealNothing, Goto, ClaimLabels, LabelAt
  <2>3. NextOther(t) \in Threads
    <3>1. N \in Nat \ {0} /\ t \in Int /\ other[t] \in Int
      BY <1>2, StealerAssumption DEF Threads
    <3>2. Increment(t) \in Int
      BY <3>1 DEF Increment
    <3>3. PICK e \in Int : e = other[t] + Increment(t)
      BY <3>1, <3>2
    <3>4. e % N \in 0 .. N - 1
      BY <3>1
    <3>5. QED
      BY <3>3, <3>4 DEF NextOther, Threads
  <2>4. other' \in [Threads -> Threads]
    BY <1>2, <2>1, <2>3
  <2>5. QED
    BY <1>1, <1>2, <2>1, <2>2, <2>4 DEF StealMoves
<1>6. QED
  BY <1>3, <1>4, <1>5

(* A thread takes a task from a deque, its own or another one's.           *)
LEMMA TakeEffects ==
  ASSUME TypeOK, NEW t \in Threads, PopTask(t) \/ StealTask(t), UNCHANGED ludVars
  PROVE  /\ pc[t] \in ClaimLabels
         /\ \E o \in Threads : LET s == workers[o] IN
              /\ s # <<>>
              /\ \/ /\ StealMoves(t, "run", Last(s), work[t], subtasks[t])
                    /\ workers' = [workers EXCEPT ![o] = Front(s)]
                 \/ /\ StealMoves(t, "run", Head(s), work[t], subtasks[t])
                    /\ workers' = [workers EXCEPT ![o] = Tail(s)]
         /\ other' \in [Threads -> Threads]
         /\ UNCHANGED <<finished, sync1, sync2, version, pending>>
<1>1. UNCHANGED <<version, sync1, sync2, pending, work, subtasks>>
  BY DEF ludVars
<1>2. /\ work \in [Threads -> Works \cup {NoWork}] /\ subtasks \in [Threads -> Seq(Tasks)]
      /\ other \in [Threads -> Threads] /\ workers \in [Threads -> Seq(Tasks)]
  BY StealTypes
<1>3. CASE PopTask(t)
  BY <1>1, <1>2, <1>3 DEF PopTask, Goto, ClaimLabels, StealMoves
<1>4. CASE StealTask(t)
  <2>1. PICK o : o = NextOther(t)
    OBVIOUS
  <2>2. /\ pc' = [pc EXCEPT ![t] = "run"] /\ task' = [task EXCEPT ![t] = Head(workers[o])]
        /\ workers' = [workers EXCEPT ![o] = Tail(workers[o])]
        /\ other' = [other EXCEPT ![t] = t]
        /\ UNCHANGED finished /\ pc[t] \in ClaimLabels /\ workers[o] # <<>>
    BY <1>4, <2>1 DEF StealTask, Goto, ClaimLabels
  <2>3. o \in Threads
    <3>1. N \in Nat \ {0} /\ t \in Int /\ other[t] \in Int
      BY <1>2, StealerAssumption DEF Threads
    <3>2. Increment(t) \in Int
      BY <3>1 DEF Increment
    <3>3. PICK e \in Int : e = other[t] + Increment(t)
      BY <3>1, <3>2
    <3>4. e % N \in 0 .. N - 1
      BY <3>1
    <3>5. QED
      BY <2>1, <3>3, <3>4 DEF NextOther, Threads
  <2>4. StealMoves(t, "run", Head(workers[o]), work[t], subtasks[t])
    BY <1>1, <1>2, <2>2 DEF StealMoves
  <2>5. other' \in [Threads -> Threads]
    BY <1>2, <2>2
  <2>6. QED
    BY <1>1, <2>2, <2>3, <2>4, <2>5
<1>5. QED
  BY <1>3, <1>4

(* A thread begins a tile operation.                                       *)
LEMMA StealBegins ==
  ASSUME TypeOK, NEW t \in Threads, NEW w, Begin(t, w)
  PROVE  /\ work[t] = NoWork /\ StealMoves(t, pc[t], task[t], w, subtasks[t])
         /\ UNCHANGED <<workers, other, finished, sync1, sync2, version, pending>>
BY StealTypes DEF Begin, stealerVars, StealMoves

(* It ends one.                                                            *)
LEMMA StealEnds ==
  ASSUME TypeOK, NEW t \in Threads, NEW label, End(t, label)
  PROVE  /\ work[t] # NoWork /\ StealMoves(t, label, task[t], NoWork, subtasks[t])
         /\ version' = [x \in Cells |-> IF x \in Writes(work[t]) THEN version[x] + 1 ELSE version[x]]
         /\ UNCHANGED <<workers, other, finished, sync1, sync2, pending>>
BY StealTypes DEF End, Goto, StealMoves

(* schedule_border.                                                        *)
LEMMA StoreBorderCountEffect ==
  ASSUME TypeOK, NEW t \in Threads, StoreBorderCount(t)
  PROVE  LET m   == Matrix(t)
             k   == NextOffset(t)
             new == BorderTasks(m, k)
         IN  /\ pc[t] = "scheduleBorder" /\ sync1' = [sync1 EXCEPT ![m] = 2 * BorderChunks(k)]
             /\ IF new = <<>> THEN StealMoves(t, "claim", NoTask, work[t], new)
                              ELSE StealMoves(t, "push", task[t], work[t], new)
             /\ UNCHANGED <<workers, other, finished, sync2, version, pending>>
<1>1. PICK new : new = BorderTasks(Matrix(t), NextOffset(t))
  OBVIOUS
<1>2. /\ pc[t] = "scheduleBorder"
      /\ sync1' = [sync1 EXCEPT ![Matrix(t)] = 2 * BorderChunks(NextOffset(t))]
      /\ UNCHANGED <<workers, finished, other, version, sync2, pending, work>>
      /\ subtasks' = [subtasks EXCEPT ![t] = new]
      /\ IF new = <<>> THEN task' = [task EXCEPT ![t] = NoTask] /\ pc' = [pc EXCEPT ![t] = "claim"]
                       ELSE task' = task /\ pc' = [pc EXCEPT ![t] = "push"]
  BY <1>1 DEF StoreBorderCount, BorderCount, PushAll, Return, Goto
<1>3. QED
  BY <1>1, <1>2, StealTypes DEF StealMoves

(* The owner pushes a task.                                                *)
LEMMA StealPushes ==
  ASSUME TypeOK, NEW t \in Threads, Push(t)
  PROVE  LET s == subtasks[t]
         IN  /\ pc[t] \in {"push", "pushRest"}
             /\ workers' = [workers EXCEPT ![t] = Append(workers[t], Head(s))]
             /\ \/ Len(s) > 1 /\ StealMoves(t, pc[t], task[t], work[t], Tail(s))
                \/ /\ ~(Len(s) > 1) /\ pc[t] = "push"
                   /\ StealMoves(t, "claim", NoTask, work[t], Tail(s))
                \/ /\ ~(Len(s) > 1) /\ pc[t] = "pushRest"
                   /\ StealMoves(t, "interior", task[t], work[t], Tail(s))
             /\ UNCHANGED <<other, finished, sync1, sync2, version, pending>>
<1>1. PICK s : s = subtasks[t]
  OBVIOUS
<1>2. /\ pc[t] \in {"push", "pushRest"}
      /\ workers' = [workers EXCEPT ![t] = Append(workers[t], Head(s))]
      /\ subtasks' = [subtasks EXCEPT ![t] = Tail(s)]
      /\ UNCHANGED <<finished, other, version, sync1, sync2, pending, work>>
      /\ \/ Len(s) > 1 /\ UNCHANGED <<pc, task>>
         \/ /\ ~(Len(s) > 1) /\ pc[t] = "push"
            /\ task' = [task EXCEPT ![t] = NoTask] /\ pc' = [pc EXCEPT ![t] = "claim"]
         \/ /\ ~(Len(s) > 1) /\ pc[t] = "pushRest"
            /\ task' = task /\ pc' = [pc EXCEPT ![t] = "interior"]
  BY <1>1 DEF Push, PushTask, Return, Goto
<1>3. QED
  BY <1>1, <1>2, StealTypes DEF StealMoves

(* A border chunk is counted.                                              *)
LEMMA CountBorderEffect ==
  ASSUME TypeOK, NEW t \in Threads, CountBorder(t)
  PROVE  LET m == Matrix(t)
         IN  /\ pc[t] = "countBorder" /\ sync1' = [sync1 EXCEPT ![m] = sync1[m] - 1]
             /\ IF sync1[m] = 1
                  THEN StealMoves(t, "storeFirstTile", task[t], work[t], subtasks[t])
                  ELSE StealMoves(t, "claim", NoTask, work[t], subtasks[t])
             /\ UNCHANGED <<workers, other, finished, sync2, version, pending>>
<1>1. PICK m : m = Matrix(t)
  OBVIOUS
<1>2. /\ pc[t] = "countBorder" /\ sync1' = [sync1 EXCEPT ![m] = sync1[m] - 1]
      /\ IF sync1[m] = 1 THEN pc' = [pc EXCEPT ![t] = "storeFirstTile"] /\ UNCHANGED task
         ELSE task' = [task EXCEPT ![t] = NoTask] /\ pc' = [pc EXCEPT ![t] = "claim"]
      /\ UNCHANGED <<workers, finished, other, version, sync2, pending, work, subtasks>>
  BY <1>1 DEF CountBorder, Return, Goto
<1>3. QED
  BY <1>1, <1>2, StealTypes DEF StealMoves

(* schedule_interior.                                                      *)
LEMMA StoreFirstTileEffect ==
  ASSUME TypeOK, NEW t \in Threads, StoreFirstTile(t)
  PROVE  /\ pc[t] = "storeFirstTile" /\ sync1' = [sync1 EXCEPT ![Matrix(t)] = Parts]
         /\ StealMoves(t, "storeChunks", task[t], work[t], subtasks[t])
         /\ UNCHANGED <<workers, other, finished, sync2, version, pending>>
BY StealTypes DEF StoreFirstTile, Goto, StealMoves

(* StoreChunks: the second counter of the matrix is set to the number of   *)
(* chunks of the interior before the first of them is queued.              *)
LEMMA StoreChunksEffect ==
  ASSUME TypeOK, NEW t \in Threads, StoreChunks(t)
  PROVE  LET m   == Matrix(t)
             new == Quarters(m, Offset(t))
         IN  /\ pc[t] = "storeChunks" /\ sync2' = [sync2 EXCEPT ![m] = InteriorChunks(Offset(t))]
             /\ IF new = <<>> THEN StealMoves(t, "claim", NoTask, work[t], new)
                              ELSE StealMoves(t, "push", task[t], work[t], new)
             /\ UNCHANGED <<workers, other, finished, sync1, version, pending>>
<1>1. PICK new : new = Quarters(Matrix(t), Offset(t))
  OBVIOUS
<1>2. /\ pc[t] = "storeChunks"
      /\ sync2' = [sync2 EXCEPT ![Matrix(t)] = InteriorChunks(Offset(t))]
      /\ UNCHANGED <<workers, finished, other, version, sync1, pending, work>>
      /\ subtasks' = [subtasks EXCEPT ![t] = new]
      /\ IF new = <<>> THEN task' = [task EXCEPT ![t] = NoTask] /\ pc' = [pc EXCEPT ![t] = "claim"]
                       ELSE task' = task /\ pc' = [pc EXCEPT ![t] = "push"]
  BY <1>1 DEF StoreChunks, PushAll, Return, Goto
<1>3. QED
  BY <1>1, <1>2, StealTypes DEF StealMoves

(* An interior task sets its chunks but the first apart.                   *)
LEMMA SplitInteriorEffect ==
  ASSUME TypeOK, NEW t \in Threads, SplitInterior(t)
  PROVE  /\ pc[t] = "run" /\ task[t][1] = "interior"
         /\ StealMoves(t, IF Rest(t) = <<>> THEN "interior" ELSE "pushRest", task[t], work[t],
                       Rest(t))
         /\ UNCHANGED <<workers, other, finished, sync1, sync2, version, pending>>
<1>1. PICK label, rest : rest = Rest(t) /\ label = IF rest = <<>> THEN "interior" ELSE "pushRest"
  OBVIOUS
<1>2. /\ pc[t] = "run" /\ task[t][1] = "interior"
      /\ subtasks' = [subtasks EXCEPT ![t] = rest] /\ pc' = [pc EXCEPT ![t] = label]
      /\ UNCHANGED <<workers, finished, other, task, version, sync1, sync2, pending, work>>
  BY <1>1 DEF SplitInterior, Goto, Kind
<1>3. StealMoves(t, label, task[t], work[t], rest)
  BY <1>2, StealTypes DEF StealMoves
<1>4. QED
  BY <1>1, <1>2, <1>3

(* A chunk of the first tile is counted.                                   *)
LEMMA CountFirstTileEffect ==
  ASSUME TypeOK, NEW t \in Threads, CountFirstTile(t)
  PROVE  LET m == Matrix(t)
         IN  /\ pc[t] = "countFirstTile" /\ sync1' = [sync1 EXCEPT ![m] = sync1[m] - 1]
             /\ StealMoves(t, IF sync1[m] = 1 THEN "diagonal" ELSE "countChunk", task[t], work[t],
                           subtasks[t])
             /\ UNCHANGED <<workers, other, finished, sync2, version, pending>>
<1>1. PICK m, label : m = Matrix(t) /\ label = IF sync1[m] = 1 THEN "diagonal" ELSE "countChunk"
  OBVIOUS
<1>2. /\ pc[t] = "countFirstTile" /\ sync1' = [sync1 EXCEPT ![m] = sync1[m] - 1]
      /\ pc' = [pc EXCEPT ![t] = label]
      /\ UNCHANGED <<workers, finished, other, task, version, sync2, pending, work, subtasks>>
  BY <1>1 DEF CountFirstTile, IsLastOfTile, Goto
<1>3. StealMoves(t, label, task[t], work[t], subtasks[t])
  BY <1>2, StealTypes DEF StealMoves
<1>4. QED
  BY <1>1, <1>2, <1>3

(* A chunk of the interior is counted.                                     *)
LEMMA CountChunkEffect ==
  ASSUME TypeOK, NEW t \in Threads, CountChunk(t)
  PROVE  LET m == Matrix(t)
         IN  /\ pc[t] = "countChunk" /\ sync2' = [sync2 EXCEPT ![m] = sync2[m] - 1]
             /\ IF sync2[m] # 1 THEN StealMoves(t, "claim", NoTask, work[t], subtasks[t])
                ELSE StealMoves(t, IF NextOffset(t) + 1 >= Tiles THEN "countMatrix"
                                   ELSE "scheduleBorder", task[t], work[t], subtasks[t])
             /\ UNCHANGED <<workers, other, finished, sync1, version, pending>>
<1>1. PICK m, label : /\ m = Matrix(t)
                      /\ label = IF NextOffset(t) + 1 >= Tiles THEN "countMatrix" ELSE "scheduleBorder"
  OBVIOUS
<1>2. /\ pc[t] = "countChunk" /\ sync2' = [sync2 EXCEPT ![m] = sync2[m] - 1]
      /\ IF sync2[m] # 1 THEN task' = [task EXCEPT ![t] = NoTask] /\ pc' = [pc EXCEPT ![t] = "claim"]
         ELSE pc' = [pc EXCEPT ![t] = label] /\ UNCHANGED task
      /\ UNCHANGED <<workers, finished, other, version, sync1, pending, work, subtasks>>
  BY <1>1 DEF CountChunk, Return, Goto
<1>3. IF sync2[m] # 1 THEN StealMoves(t, "claim", NoTask, work[t], subtasks[t])
                      ELSE StealMoves(t, label, task[t], work[t], subtasks[t])
  BY <1>2, StealTypes DEF StealMoves
<1>4. QED
  BY <1>1, <1>2, <1>3

(* A matrix is counted, and the pool finished after the last one.          *)
LEMMA CountMatrixEffect ==
  ASSUME TypeOK, NEW t \in Threads, CountMatrix(t)
  PROVE  /\ pc[t] = "countMatrix" /\ pending' = pending - 1
         /\ IF pending = 1 THEN StealMoves(t, "finish", task[t], work[t], subtasks[t])
                           ELSE StealMoves(t, "claim", NoTask, work[t], subtasks[t])
         /\ UNCHANGED <<workers, other, finished, sync1, sync2, version>>
BY StealTypes DEF CountMatrix, Return, Goto, StealMoves

(* FinishPool: the thread that counted the last matrix sets the flag and   *)
(* returns its task.                                                       *)
LEMMA FinishPoolEffect ==
  ASSUME TypeOK, NEW t \in Threads, FinishPool(t)
  PROVE  /\ pc[t] = "finish" /\ finished' = TRUE
         /\ StealMoves(t, "claim", NoTask, work[t], subtasks[t])
         /\ UNCHANGED <<workers, other, sync1, sync2, version, pending>>
BY StealTypes DEF FinishPool, Finish, Return, Goto, ludVars, StealMoves

-----------------------------------------------------------------------------
(* Which chunks each step moves.                                           *)

(* Place p of thread t.                                                    *)
Place(p, t) == IF p = "nowhere" THEN Nowhere ELSE <<p, t>>

(* What a thread has in a place can be moved, and what nobody has be made. *)
Available(D, from, t) ==
  IF from = "nowhere" THEN \A i \in Holders : \A x \in D : x \notin Held(i)
                      ELSE D \subseteq Held(<<from, t>>)

(* A thread moves chunks between its places.                               *)
HeldMoves(t, deque, rest, label, job, D, from, to) ==
  \A p \in Anywhere :
    HeldBy(p, t, deque, rest, label, job)
      = (HeldBy(p, t, workers[t], subtasks[t], pc[t], task[t])
           \ (IF p = from THEN D ELSE {})) \cup (IF p = to THEN D ELSE {})

(* A step moves chunks when it does so in each place of each thread.       *)
LEMMA ShiftIs ==
  ASSUME NEW D, NEW g \in Holders \cup {Nowhere}, NEW h \in Holders \cup {Nowhere}, g # h,
         IF g = Nowhere THEN \A i \in Holders : \A x \in D : x \notin Held(i)
                        ELSE D \subseteq Held(g),
         \A p \in Anywhere, u \in Threads :
           HeldBy(p, u, workers'[u], subtasks'[u], pc'[u], task'[u])
             = (HeldBy(p, u, workers[u], subtasks[u], pc[u], task[u])
                  \ (IF <<p, u>> = g THEN D ELSE {})) \cup (IF <<p, u>> = h THEN D ELSE {})
  PROVE  Shift(D, g, h)
<1>1. ASSUME NEW i \in Holders
      PROVE  Held(i)' = (Held(i) \ (IF i = g THEN D ELSE {})) \cup (IF i = h THEN D ELSE {})
  <2>1. PICK p \in Anywhere, u \in Threads : i = <<p, u>>
    BY HolderIs
  <2>2. /\ Held(<<p, u>>) = HeldBy(p, u, workers[u], subtasks[u], pc[u], task[u])
        /\ Held(<<p, u>>)' = HeldBy(p, u, workers'[u], subtasks'[u], pc'[u], task'[u])
    BY HeldAt
  <2>3. Held(i)' = Held(<<p, u>>)'
    BY <2>1
  <2>4. QED
    BY <2>1, <2>2, <2>3
<1>2. QED
  BY <1>1 DEF Shift

(* A step of a thread that moves chunks between places of its own.         *)
LEMMA ShiftOwn ==
  ASSUME TypeOK, NEW t \in Threads, NEW label, NEW job, NEW w, NEW rest,
         StealMoves(t, label, job, w, rest), NEW deque,
         workers' = [workers EXCEPT ![t] = deque],
         NEW from \in Anywhere \cup {"nowhere"}, NEW to \in Anywhere \cup {"nowhere"}, from # to,
         NEW D,
         Available(D, from, t),
         HeldMoves(t, deque, rest, label, job, D, from, to)
  PROVE  Shift(D, Place(from, t), Place(to, t))
<1>1. ASSUME NEW p \in Anywhere \cup {"nowhere"}
      PROVE  /\ Place(p, t) \in Holders \cup {Nowhere}
             /\ Place(p, t) = Nowhere <=> p = "nowhere"
             /\ \A q \in Anywhere, u \in Threads : <<q, u>> = Place(p, t) <=> q = p /\ u = t
  <2>1. CASE p = "nowhere"
    BY <2>1, NowhereHeld, HeldAt DEF Place, Anywhere
  <2>2. CASE p # "nowhere"
    BY <2>2, HeldAt, NowhereHeld DEF Place
  <2>3. QED
    BY <2>1, <2>2
<1>2. Place(from, t) # Place(to, t)
  <2>1. CASE from \in Anywhere
    BY <1>1, <2>1
  <2>2. CASE from = "nowhere"
    BY <1>1, <2>2
  <2>3. QED
    BY <2>1, <2>2
<1>3. workers \in [Threads -> Seq(Tasks)]
  BY StealTypes
<1>4. ASSUME NEW p \in Anywhere, NEW u \in Threads
      PROVE  HeldBy(p, u, workers'[u], subtasks'[u], pc'[u], task'[u])
               = (HeldBy(p, u, workers[u], subtasks[u], pc[u], task[u])
                    \ (IF <<p, u>> = Place(from, t) THEN D ELSE {}))
                      \cup (IF <<p, u>> = Place(to, t) THEN D ELSE {})
  <2>1. CASE u = t
    BY <1>1, <1>3, <2>1, MovesAt DEF HeldMoves
  <2>2. CASE u # t
    BY <1>1, <1>3, <2>2, MovesAt
  <2>3. QED
    BY <2>1, <2>2
<1>5. IF Place(from, t) = Nowhere THEN \A i \in Holders : \A x \in D : x \notin Held(i)
                                  ELSE D \subseteq Held(Place(from, t))
  <2>1. CASE from = "nowhere"
    BY <1>1, <2>1 DEF Available
  <2>2. CASE from # "nowhere"
    BY <1>1, <2>2 DEF Place, Available
  <2>3. QED
    BY <2>1, <2>2
<1>6. QED
  BY <1>1, <1>2, <1>4, <1>5, ShiftIs

(* What ChunkOnce says, before and after a step.                           *)
LEMMA ChunkOnceIs ==
  /\ ChunkOnce <=> HeldOnce /\ \A t \in Threads : Apart(workers[t]) /\ Apart(subtasks[t])
  /\ ChunkOnce' <=> HeldOnce' /\ \A t \in Threads : Apart(workers'[t]) /\ Apart(subtasks'[t])
<1>1. ChunkOnce <=> HeldOnce /\ \A t \in Threads : Apart(workers[t]) /\ Apart(subtasks[t])
  BY DEF HeldOnce, ChunkOnce
<1>2. ChunkOnce' <=> HeldOnce' /\ \A t \in Threads : Apart(workers'[t]) /\ Apart(subtasks'[t])
  BY DEF HeldOnce, Holders, ChunkOnce, Apart, Threads
<1>3. QED
  BY <1>1, <1>2

(* What a thread has, by its label.                                        *)
LEMMA StealAt ==
  ASSUME TypeOK, ChunkOnce, NEW t \in Threads, StealThread(t)
  PROVE  /\ pc[t] \in StealLabels
         /\ pc[t] \notin ClaimLabels => task[t] \in Tasks /\ task[t][1] \in KindsAt(pc[t])
         /\ Holds(workers[t], ChunksIn(workers[t])) /\ Holds(subtasks[t], ChunksIn(subtasks[t]))
         /\ pc[t] \notin {"push", "pushRest"} => subtasks[t] = <<>> /\ ChunksIn(subtasks[t]) = {}
         /\ pc[t] \in {"push", "pushRest"} => subtasks[t] # <<>>
<1>1. /\ pc[t] \in StealLabels /\ task[t] \in Tasks \cup {NoTask}
      /\ workers[t] \in Seq(Tasks) /\ subtasks[t] \in Seq(Tasks)
  BY StealTypes
<1>2. Apart(workers[t]) /\ Apart(subtasks[t])
  BY ChunkOnceIs
<1>3. pc[t] \notin ClaimLabels => task[t] \in Tasks /\ task[t][1] \in KindsAt(pc[t])
  BY <1>1 DEF StealThread, Kind
<1>4. subtasks[t] # <<>> <=> pc[t] \in {"push", "pushRest"}
  BY Zenon DEF StealThread
<1>5. subtasks[t] = <<>> => ChunksIn(subtasks[t]) = {}
  <2>1. ChunksIn(<<>>) = {}
    BY EmptyHolds DEF Holds
  <2>2. QED
    BY <2>1, Zenon
<1>6. QED
  BY <1>1, <1>2, <1>3, <1>4, <1>5 DEF Holds

(* Chunks move, no chunk is in two places after, and deques have tasks.    *)
StepShift(D, g, h) ==
  /\ Shift(D, g, h)
  /\ ChunkOnce'
  /\ workers' \in [Threads -> Seq(Tasks)]

(* A step that moves chunks within a thread keeps them in one place.       *)
LEMMA OwnShift ==
  ASSUME TypeOK, ChunkOnce, NEW t \in Threads, NEW label, NEW job, NEW w, NEW rest,
         StealMoves(t, label, job, w, rest), rest \in Seq(Tasks), Apart(rest),
         NEW deque \in Seq(Tasks), workers' = [workers EXCEPT ![t] = deque], Apart(deque),
         NEW from \in Anywhere \cup {"nowhere"}, NEW to \in Anywhere \cup {"nowhere"}, from # to,
         NEW D,
         Available(D, from, t),
         HeldMoves(t, deque, rest, label, job, D, from, to)
  PROVE  StepShift(D, Place(from, t), Place(to, t))
<1>1. Shift(D, Place(from, t), Place(to, t))
  BY ShiftOwn
<1>2. HeldOnce'
  BY <1>1, ShiftOnce, ChunkOnceIs
<1>3. workers \in [Threads -> Seq(Tasks)]
  BY StealTypes
<1>4. ASSUME NEW u \in Threads
      PROVE  Apart(workers'[u]) /\ Apart(subtasks'[u])
  <2>1. CASE u = t
    BY <1>3, <2>1, MovesAt
  <2>2. CASE u # t
    BY <1>3, <2>2, MovesAt, ChunkOnceIs
  <2>3. QED
    BY <2>1, <2>2
<1>5. ChunkOnce'
  BY <1>2, <1>4, ChunkOnceIs
<1>6. workers' \in [Threads -> Seq(Tasks)]
  BY <1>3
<1>7. QED
  BY <1>1, <1>5, <1>6 DEF StepShift

(* What a thread has in each place.                                        *)
LEMMA HeldTable ==
  ASSUME NEW t, NEW deque, NEW rest, NEW label, NEW job
  PROVE  /\ HeldBy("deque", t, deque, rest, label, job) = ChunksIn(deque)
         /\ HeldBy("push", t, deque, rest, label, job) = ChunksIn(rest)
         /\ HeldBy("run", t, deque, rest, label, job) =
              IF label = "run" THEN ChunksOf(job)
              ELSE IF label \in {"pushRest", "interior"} THEN {FirstChunk(job)} ELSE {}
         /\ HeldBy("first", t, deque, rest, label, job) =
              IF label = "countFirstTile" THEN {FirstChunk(job)} ELSE {}
         /\ HeldBy("count", t, deque, rest, label, job) =
              IF label \in {"countBorder", "diagonal", "countChunk"} THEN {FirstChunk(job)} ELSE {}
BY DEF HeldBy

(* A thread moves chunks that it is executing or counting.                 *)
RunMoves(t, label, job, D, from, to) ==
  \A p \in {"run", "first", "count"} :
    HeldBy(p, t, workers[t], subtasks[t], label, job)
      = (HeldBy(p, t, workers[t], subtasks[t], pc[t], task[t])
           \ (IF p = from THEN D ELSE {})) \cup (IF p = to THEN D ELSE {})

(* It depends on the label and the task.                                   *)
LEMMA HeldSame ==
  ASSUME NEW t, NEW deque, NEW rest, NEW deque2, NEW rest2, NEW label, NEW job
  PROVE  \A p \in {"run", "first", "count"} :
           HeldBy(p, t, deque, rest, label, job) = HeldBy(p, t, deque2, rest2, label, job)
BY DEF HeldBy

(* A step of a thread that leaves its deque and moves chunks between the   *)
(* places for the chunks it is executing or counting, or to nowhere.       *)
LEMMA RunShift ==
  ASSUME TypeOK, ChunkOnce, NEW t \in Threads, StealThread(t),
         NEW label, NEW job, NEW w, StealMoves(t, label, job, w, subtasks[t]),
         workers' = workers,
         NEW from \in {"run", "first", "count"}, NEW to \in {"nowhere", "first", "count"},
         from # to, NEW D, D \subseteq Held(<<from, t>>),
         RunMoves(t, label, job, D, from, to)
  PROVE  StepShift(D, <<from, t>>, Place(to, t))
<1>1. workers[t] \in Seq(Tasks) /\ subtasks[t] \in Seq(Tasks)
      /\ Apart(workers[t]) /\ Apart(subtasks[t])
  BY StealAt DEF Holds
<1>2. workers' = [workers EXCEPT ![t] = workers[t]]
  BY StealTypes
<1>3. HeldMoves(t, workers[t], subtasks[t], label, job, D, from, to)
  <2>1. SUFFICES ASSUME NEW p \in Anywhere
          PROVE  HeldBy(p, t, workers[t], subtasks[t], label, job)
                   = (HeldBy(p, t, workers[t], subtasks[t], pc[t], task[t])
                        \ (IF p = from THEN D ELSE {})) \cup (IF p = to THEN D ELSE {})
    BY DEF HeldMoves
  <2>2. CASE p \in {"run", "first", "count"}
    BY <2>2 DEF RunMoves
  <2>3. CASE p \in {"deque", "push"}
    BY <2>3, HeldTable
  <2>4. QED
    BY <2>2, <2>3 DEF Anywhere
<1>4. from \in Anywhere \cup {"nowhere"} /\ to \in Anywhere \cup {"nowhere"} /\ from # "nowhere"
        /\ Place(from, t) = <<from, t>>
  BY DEF Anywhere, Place
<1>5. Available(D, from, t)
  BY <1>4 DEF Available
<1>6. StepShift(D, Place(from, t), Place(to, t))
  BY <1>1, <1>2, <1>3, <1>4, <1>5, OwnShift
<1>7. QED
  BY <1>4, <1>6

(* A step that moves no chunks.                                            *)
LEMMA NoShift ==
  ASSUME TypeOK, ChunkOnce, NEW t \in Threads, StealThread(t),
         NEW label, NEW job, NEW w, StealMoves(t, label, job, w, subtasks[t]),
         workers' = workers,
         \A p \in {"run", "first", "count"} :
           HeldBy(p, t, workers[t], subtasks[t], label, job)
             = HeldBy(p, t, workers[t], subtasks[t], pc[t], task[t])
  PROVE  StepShift({}, <<"run", t>>, Nowhere)
<1>1. StepShift({}, <<"run", t>>, Place("nowhere", t))
  BY RunShift DEF RunMoves
<1>2. QED
  BY <1>1 DEF Place

(* The label of a thread that does not hold chunks it took.                *)
EmptyLabels == ClaimLabels \cup
  {"scheduleBorder", "push", "storeFirstTile", "storeChunks", "countMatrix", "finish"}

(* A thread at such a label has chunks in its deque and to push only.      *)
LEMMA EmptyHeld ==
  ASSUME NEW t, NEW deque, NEW rest, NEW label \in EmptyLabels, NEW job
  PROVE  \A p \in {"run", "first", "count"} : HeldBy(p, t, deque, rest, label, job) = {}
BY HeldTable DEF EmptyLabels, ClaimLabels

(* A thread that goes from one such label to another.                      *)
LEMMA EmptyShift ==
  ASSUME TypeOK, ChunkOnce, NEW t \in Threads, StealThread(t), pc[t] \in EmptyLabels,
         NEW label \in EmptyLabels, NEW job, NEW w, StealMoves(t, label, job, w, subtasks[t]),
         workers' = workers
  PROVE  StepShift({}, <<"run", t>>, Nowhere)
BY EmptyHeld, NoShift

(* Looking for a task moves no chunks.                                     *)
LEMMA ClaimShift ==
  ASSUME TypeOK, ChunkOnce, NEW t \in Threads, StealThread(t),
         LoadFinished(t) \/ PopNothing(t) \/ StealNothing(t), UNCHANGED ludVars
  PROVE  StepShift({}, <<"run", t>>, Nowhere)
<1>1. PICK label \in ClaimLabels : StealMoves(t, label, task[t], work[t], subtasks[t])
  BY ClaimEffects
<1>2. pc[t] \in EmptyLabels /\ label \in EmptyLabels /\ workers' = workers
  BY ClaimEffects DEF EmptyLabels
<1>3. QED
  BY <1>1, <1>2, EmptyShift

(* A task that is taken moves with its chunks.                             *)
LEMMA TakeShift ==
  ASSUME TypeOK, ChunkOnce, NEW t \in Threads, StealThread(t),
         PopTask(t) \/ StealTask(t), UNCHANGED ludVars
  PROVE  \E o \in Threads, d \in Tasks :
           /\ StealMoves(t, "run", d, work[t], subtasks[t])
           /\ StepShift(ChunksOf(d), <<"deque", o>>, <<"run", t>>)
<1>1. PICK o \in Threads :
        /\ workers[o] # <<>>
        /\ \/ /\ StealMoves(t, "run", Last(workers[o]), work[t], subtasks[t])
              /\ workers' = [workers EXCEPT ![o] = Front(workers[o])]
           \/ /\ StealMoves(t, "run", Head(workers[o]), work[t], subtasks[t])
              /\ workers' = [workers EXCEPT ![o] = Tail(workers[o])]
  BY TakeEffects
<1>2. Holds(workers[o], ChunksIn(workers[o]))
  BY StealTypes, ChunkOnceIs DEF Holds
<1>3. PICK d, deque :
        /\ d \in Tasks
        /\ StealMoves(t, "run", d, work[t], subtasks[t])
        /\ workers' = [workers EXCEPT ![o] = deque]
        /\ ChunksOf(d) \subseteq ChunksIn(workers[o])
        /\ Holds(deque, ChunksIn(workers[o]) \ ChunksOf(d))
  BY <1>1, <1>2, SplitHolds
<1>4. workers \in [Threads -> Seq(Tasks)] /\ pc[t] \in EmptyLabels
  BY StealTypes, TakeEffects DEF EmptyLabels
<1> DEFINE D == ChunksOf(d)
           g == <<"deque", o>>
           h == <<"run", t>>
<1>5. /\ g \in Holders /\ h \in Holders /\ g # h /\ g # Nowhere
      /\ "deque" \in Anywhere
  BY HeldAt, NowhereHeld DEF Anywhere
<1>6. D \subseteq Held(g)
  BY <1>3, <1>5, HeldAt, HeldTable
<1>7. ASSUME NEW p \in Anywhere, NEW u \in Threads
      PROVE  HeldBy(p, u, workers'[u], subtasks'[u], pc'[u], task'[u])
               = (HeldBy(p, u, workers[u], subtasks[u], pc[u], task[u])
                    \ (IF <<p, u>> = g THEN D ELSE {})) \cup (IF <<p, u>> = h THEN D ELSE {})
  <2>1. /\ workers'[u] = IF u = o THEN deque ELSE workers[u]
        /\ subtasks'[u] = subtasks[u]
        /\ IF u = t THEN pc'[u] = "run" /\ task'[u] = d ELSE pc'[u] = pc[u] /\ task'[u] = task[u]
    BY <1>3, <1>4, MovesAt
  <2>2. CASE p = "deque"
    BY <1>3, <2>1, <2>2, HeldTable DEF Holds
  <2>3. CASE p = "push"
    BY <2>1, <2>3, HeldTable
  <2>4. CASE p \in {"run", "first", "count"} /\ u # t
    <3>1. HeldBy(p, u, workers'[u], subtasks'[u], pc'[u], task'[u])
            = HeldBy(p, u, workers[u], subtasks[u], pc[u], task[u])
      BY <2>1, <2>4, HeldSame
    <3>2. <<p, u>> # h /\ <<p, u>> # g
      BY <2>4
    <3>3. QED
      BY <3>1, <3>2
  <2>5. CASE p \in {"run", "first", "count"} /\ u = t
    <3>1. HeldBy(p, u, workers[u], subtasks[u], pc[u], task[u]) = {}
      BY <1>4, <2>5, EmptyHeld
    <3>2. HeldBy(p, u, workers'[u], subtasks'[u], pc'[u], task'[u]) = IF p = "run" THEN D ELSE {}
      BY <2>1, <2>5, HeldTable
    <3>3. <<p, u>> # g /\ (<<p, u>> = h <=> p = "run")
      BY <2>5
    <3>4. QED
      BY <3>1, <3>2, <3>3
  <2>6. QED
    BY <2>2, <2>3, <2>4, <2>5 DEF Anywhere
<1> HIDE DEF D, g, h
<1>8. Shift(D, g, h)
  BY <1>5, <1>6, <1>7, ShiftIs
<1>9. HeldOnce'
  BY <1>8, ShiftOnce, ChunkOnceIs
<1>10. ASSUME NEW u \in Threads
       PROVE  Apart(workers'[u]) /\ Apart(subtasks'[u])
  BY <1>3, <1>4, MovesAt, ChunkOnceIs DEF Holds
<1>11. workers' \in [Threads -> Seq(Tasks)]
  BY <1>3, <1>4 DEF Holds
<1>12. StepShift(D, g, h)
  BY <1>8, <1>9, <1>10, <1>11, ChunkOnceIs DEF StepShift
<1>13. QED
  BY <1>3, <1>12 DEF D, g, h

(* A tile operation that begins moves no chunks.                           *)
LEMMA BeginShift ==
  ASSUME TypeOK, ChunkOnce, NEW t \in Threads, StealThread(t), NEW w, Begin(t, w)
  PROVE  StepShift({}, <<"run", t>>, Nowhere)
BY StealBegins, NoShift

(* A thread that has executed or counted its first chunk.                  *)
LEMMA ChunkShift ==
  ASSUME TypeOK, ChunkOnce, NEW t \in Threads, StealThread(t), workers' = workers,
         NEW from \in {"run", "first", "count"}, NEW to \in {"nowhere", "first", "count"},
         from # to, NEW label, NEW job, NEW w, StealMoves(t, label, job, w, subtasks[t]),
         pc[t] = "run" => task[t][1] # "interior", task[t] \in Tasks,
         \/ pc[t] \in {"run", "interior"} /\ from = "run"
         \/ pc[t] = "countFirstTile" /\ from = "first"
         \/ pc[t] \in {"countBorder", "countChunk"} /\ from = "count",
         \/ label \in EmptyLabels /\ to = "nowhere"
         \/ label = "countFirstTile" /\ job = task[t] /\ to = "first"
         \/ label \in {"countBorder", "diagonal", "countChunk"} /\ job = task[t] /\ to = "count"
  PROVE  StepShift({FirstChunk(task[t])}, <<from, t>>, Place(to, t))
<1> DEFINE x == FirstChunk(task[t])
<1>1. \A p \in {"run", "first", "count"} :
        HeldBy(p, t, workers[t], subtasks[t], pc[t], task[t]) = IF p = from THEN {x} ELSE {}
  <2>1. pc[t] = "run" => ChunksOf(task[t]) = {x}
    BY TaskChunks
  <2>2. /\ HeldBy("run", t, workers[t], subtasks[t], pc[t], task[t]) = IF from = "run" THEN {x} ELSE {}
        /\ HeldBy("first", t, workers[t], subtasks[t], pc[t], task[t]) = IF from = "first" THEN {x} ELSE {}
        /\ HeldBy("count", t, workers[t], subtasks[t], pc[t], task[t]) = IF from = "count" THEN {x} ELSE {}
    <3>1. CASE pc[t] \in {"run", "interior"} /\ from = "run"
      BY <2>1, <3>1, HeldTable
    <3>2. CASE pc[t] = "countFirstTile" /\ from = "first"
      BY <3>2, HeldTable
    <3>3. CASE pc[t] \in {"countBorder", "countChunk"} /\ from = "count"
      BY <3>3, HeldTable
    <3>4. QED
      BY <3>1, <3>2, <3>3
  <2>3. QED
    BY <2>2
<1>2. \A p \in {"run", "first", "count"} :
        HeldBy(p, t, workers[t], subtasks[t], label, job) = IF p = to THEN {x} ELSE {}
  <2>1. CASE label \in EmptyLabels /\ to = "nowhere"
    BY <2>1, EmptyHeld
  <2>2. ASSUME job = task[t], label \notin {"run", "pushRest", "interior"},
               label = "countFirstTile" <=> to = "first",
               label \in {"countBorder", "diagonal", "countChunk"} <=> to = "count"
        PROVE  /\ HeldBy("run", t, workers[t], subtasks[t], label, job) = {}
               /\ HeldBy("first", t, workers[t], subtasks[t], label, job) = IF to = "first" THEN {x} ELSE {}
               /\ HeldBy("count", t, workers[t], subtasks[t], label, job) = IF to = "count" THEN {x} ELSE {}
    <3>1. HeldBy("run", t, workers[t], subtasks[t], label, job) = {}
      BY <2>2, HeldTable
    <3>2. HeldBy("first", t, workers[t], subtasks[t], label, job) = IF to = "first" THEN {x} ELSE {}
      <4>1. HeldBy("first", t, workers[t], subtasks[t], label, job) =
              IF label = "countFirstTile" THEN {FirstChunk(job)} ELSE {}
        BY HeldTable
      <4>2. QED
        BY <2>2, <4>1
    <3>3. HeldBy("count", t, workers[t], subtasks[t], label, job) = IF to = "count" THEN {x} ELSE {}
      BY <2>2, HeldTable
    <3>4. QED
      BY <3>1, <3>2, <3>3
  <2>3. CASE label = "countFirstTile" /\ job = task[t] /\ to = "first"
    BY <2>2, <2>3
  <2>4. CASE label \in {"countBorder", "diagonal", "countChunk"} /\ job = task[t] /\ to = "count"
    BY <2>2, <2>4
  <2>5. QED
    BY <2>1, <2>3, <2>4
<1>3. {x} \subseteq Held(<<from, t>>)
  BY <1>1, HeldAt DEF Anywhere
<1>4. RunMoves(t, label, job, {x}, from, to)
  BY <1>1, <1>2 DEF RunMoves
<1> HIDE DEF x
<1>5. StepShift({x}, <<from, t>>, Place(to, t))
  BY <1>3, <1>4, RunShift
<1>6. QED
  BY <1>5 DEF x

(* The pushes of schedule_border and schedule_interior make chunks.        *)
LEMMA PushAllShift ==
  ASSUME TypeOK, ChunkOnce, NEW t \in Threads, StealThread(t), workers' = workers,
         pc[t] \in EmptyLabels \ {"push"}, NEW new, NEW D, Holds(new, D),
         Available(D, "nowhere", t),
         NEW label \in EmptyLabels, NEW job, NEW w, StealMoves(t, label, job, w, new)
  PROVE  StepShift(D, Nowhere, <<"push", t>>)
<1>1. workers[t] \in Seq(Tasks) /\ Apart(workers[t]) /\ ChunksIn(subtasks[t]) = {}
  BY StealAt DEF Holds, EmptyLabels, ClaimLabels
<1>2. new \in Seq(Tasks) /\ Apart(new) /\ ChunksIn(new) = D
  BY DEF Holds
<1>3. workers' = [workers EXCEPT ![t] = workers[t]]
  BY StealTypes
<1>4. HeldMoves(t, workers[t], new, label, job, D, "nowhere", "push")
  <2>1. SUFFICES ASSUME NEW p \in Anywhere
                 PROVE  HeldBy(p, t, workers[t], new, label, job)
                          = (HeldBy(p, t, workers[t], subtasks[t], pc[t], task[t])
                               \ (IF p = "nowhere" THEN D ELSE {}))
                                 \cup (IF p = "push" THEN D ELSE {})
    BY DEF HeldMoves
  <2>2. CASE p = "deque"
    BY <2>2, HeldTable
  <2>3. CASE p = "push"
    BY <1>1, <1>2, <2>3, HeldTable
  <2>4. CASE p \in {"run", "first", "count"}
    BY <2>4, EmptyHeld
  <2>5. QED
    BY <2>2, <2>3, <2>4 DEF Anywhere
<1>5. /\ "nowhere" \in Anywhere \cup {"nowhere"} /\ "push" \in Anywhere \cup {"nowhere"}
      /\ "nowhere" # "push" /\ Place("nowhere", t) = Nowhere /\ Place("push", t) = <<"push", t>>
  BY DEF Anywhere, Place
<1>6. StepShift(D, Place("nowhere", t), Place("push", t))
  BY <1>1, <1>2, <1>3, <1>4, <1>5, OwnShift
<1>7. QED
  BY <1>5, <1>6

(* A chunk of no matrix but m, which has none.                             *)
LEMMA NoneHeld ==
  ASSUME NEW t, NEW m, HeldIn(Anywhere, m) = {}, NEW D, \A x \in D : x[2] = m
  PROVE  Available(D, "nowhere", t)
<1>1. ASSUME NEW i \in Holders, NEW x \in D, x \in Held(i)
      PROVE  FALSE
  BY <1>1, HolderIs, HeldInIs
<1>2. QED
  BY <1>1 DEF Available

(* A task that is pushed moves with its chunks.                            *)
LEMMA PushShift ==
  ASSUME TypeOK, ChunkOnce, NEW t \in Threads, StealThread(t), Push(t)
  PROVE  LET d == Head(subtasks[t])
         IN  d \in Tasks /\ StepShift(ChunksOf(d), <<"push", t>>, <<"deque", t>>)
<1> DEFINE s == subtasks[t]
           d == Head(s)
           D == ChunksOf(d)
           deque == Append(workers[t], d)
<1>1. /\ pc[t] \in {"push", "pushRest"} /\ workers' = [workers EXCEPT ![t] = deque]
  BY StealPushes
<1>2. PICK label, job :
        /\ StealMoves(t, label, job, work[t], Tail(s))
        /\ \/ label = pc[t] /\ job = task[t]
           \/ pc[t] = "push" /\ label = "claim"
           \/ pc[t] = "pushRest" /\ label = "interior" /\ job = task[t]
  BY StealPushes
<1>3. Holds(workers[t], ChunksIn(workers[t])) /\ Holds(s, ChunksIn(s)) /\ s # <<>>
  BY <1>1, StealAt
<1>4. d \in Tasks /\ D \subseteq ChunksIn(s) /\ Holds(Tail(s), ChunksIn(s) \ D)
  BY <1>3, SplitHolds
<1>5. /\ <<"push", t>> \in Holders /\ <<"deque", t>> \in Holders
      /\ "push" \in Anywhere /\ "deque" \in Anywhere
      /\ Held(<<"push", t>>) = ChunksIn(s) /\ Held(<<"deque", t>>) = ChunksIn(workers[t])
  BY HeldAt, HeldTable DEF Anywhere
<1>6. ChunksIn(workers[t]) \cap D = {}
  BY <1>4, <1>5, ChunkOnceIs DEF HeldOnce
<1>7. Holds(deque, ChunksIn(workers[t]) \cup D)
  BY <1>3, <1>4, <1>6, AppendHolds
<1>8. /\ deque \in Seq(Tasks) /\ Apart(deque) /\ ChunksIn(deque) = ChunksIn(workers[t]) \cup D
      /\ Tail(s) \in Seq(Tasks) /\ Apart(Tail(s)) /\ ChunksIn(Tail(s)) = ChunksIn(s) \ D
  BY <1>4, <1>7 DEF Holds
<1>9. Available(D, "push", t)
  BY <1>4, <1>5 DEF Available
<1>10. /\ "push" \in Anywhere \cup {"nowhere"} /\ "deque" \in Anywhere \cup {"nowhere"}
       /\ "deque" # "push" /\ Place("deque", t) = <<"deque", t>> /\ Place("push", t) = <<"push", t>>
  BY <1>5 DEF Place
<1> HIDE DEF deque, D, d
<1>11. HeldMoves(t, deque, Tail(s), label, job, D, "push", "deque")
  <2>1. SUFFICES ASSUME NEW p \in Anywhere
                 PROVE  HeldBy(p, t, deque, Tail(s), label, job)
                          = (HeldBy(p, t, workers[t], s, pc[t], task[t])
                               \ (IF p = "push" THEN D ELSE {}))
                                 \cup (IF p = "deque" THEN D ELSE {})
    BY DEF HeldMoves
  <2>2. CASE p = "deque"
    BY <1>8, <2>2, HeldTable
  <2>3. CASE p = "push"
    BY <1>8, <2>3, HeldTable
  <2>4. CASE p \in {"run", "first", "count"}
    <3>1. CASE label = pc[t] /\ job = task[t]
      BY <2>4, <3>1, HeldSame
    <3>2. CASE pc[t] = "push" /\ label = "claim"
      BY <2>4, <3>2, EmptyHeld DEF EmptyLabels, ClaimLabels
    <3>3. CASE pc[t] = "pushRest" /\ label = "interior" /\ job = task[t]
      <4>1. HeldBy("run", t, deque, Tail(s), label, job) = HeldBy("run", t, workers[t], s, pc[t], task[t])
        BY <3>3, HeldTable
      <4>2. HeldBy("first", t, deque, Tail(s), label, job) = HeldBy("first", t, workers[t], s, pc[t], task[t])
        BY <3>3, HeldTable
      <4>3. HeldBy("count", t, deque, Tail(s), label, job) = HeldBy("count", t, workers[t], s, pc[t], task[t])
        <5>1. HeldBy("count", t, deque, Tail(s), label, job) = {}
          BY <3>3, HeldTable
        <5>2. HeldBy("count", t, workers[t], s, pc[t], task[t]) = {}
          BY <3>3, HeldTable
        <5>3. QED
          BY <5>1, <5>2
      <4>4. QED
        BY <2>4, <4>1, <4>2, <4>3
    <3>4. QED
      BY <1>2, <3>1, <3>2, <3>3
  <2>5. QED
    BY <2>2, <2>3, <2>4 DEF Anywhere
<1>12. StepShift(D, Place("push", t), Place("deque", t))
  <2>1. StealMoves(t, label, job, work[t], Tail(s))
    BY <1>2
  <2>2. workers' = [workers EXCEPT ![t] = deque]
    BY <1>1 DEF deque, d
  <2> HIDE DEF s
  <2>3. QED
    BY <1>8, <1>9, <1>10, <1>11, <2>1, <2>2, OwnShift
<1>13. QED
  BY <1>4, <1>10, <1>12 DEF D, d

(* An interior task keeps its first chunk.                                 *)
LEMMA SplitShift ==
  ASSUME TypeOK, ChunkOnce, NEW t \in Threads, StealThread(t), SplitInterior(t)
  PROVE  StepShift(ChunksOf(task[t]) \ {FirstChunk(task[t])}, <<"run", t>>, <<"push", t>>)
<1> DEFINE x == FirstChunk(task[t])
           D == ChunksOf(task[t]) \ {x}
<1>1. PICK rest : rest = Rest(t)
  OBVIOUS
<1>2. PICK label \in {"interior", "pushRest"} : StealMoves(t, label, task[t], work[t], rest)
  BY <1>1, SplitInteriorEffect
<1>3. pc[t] = "run" /\ task[t][1] = "interior" /\ workers' = workers
  BY SplitInteriorEffect
<1>4. task[t] \in Tasks /\ ChunksIn(subtasks[t]) = {} /\ Holds(workers[t], ChunksIn(workers[t]))
  BY <1>3, StealAt DEF ClaimLabels
<1>5. Holds(rest, D) /\ x \in ChunksOf(task[t])
  BY <1>1, <1>3, <1>4, RestHolds, TaskChunks
<1>6. /\ rest \in Seq(Tasks) /\ Apart(rest) /\ ChunksIn(rest) = D
      /\ workers[t] \in Seq(Tasks) /\ Apart(workers[t])
  BY <1>4, <1>5 DEF Holds
<1>7. workers' = [workers EXCEPT ![t] = workers[t]]
  BY <1>3, StealTypes
<1>8. /\ "push" \in Anywhere \cup {"nowhere"} /\ "run" \in Anywhere \cup {"nowhere"}
      /\ "run" # "push" /\ Place("run", t) = <<"run", t>> /\ Place("push", t) = <<"push", t>>
      /\ "run" \in Anywhere
  BY DEF Place, Anywhere
<1>9. HeldBy("run", t, workers[t], subtasks[t], pc[t], task[t]) = ChunksOf(task[t])
      /\ HeldBy("run", t, workers[t], rest, label, task[t]) = {x}
  BY <1>3, HeldTable
<1>10. Available(D, "run", t)
  BY <1>8, <1>9, HeldAt DEF Available
<1>11. ChunksOf(task[t]) \ D = {x}
  BY <1>5
<1> HIDE DEF D, x
<1>12. HeldMoves(t, workers[t], rest, label, task[t], D, "run", "push")
  <2>1. SUFFICES ASSUME NEW p \in Anywhere
                 PROVE  HeldBy(p, t, workers[t], rest, label, task[t])
                          = (HeldBy(p, t, workers[t], subtasks[t], pc[t], task[t])
                               \ (IF p = "run" THEN D ELSE {}))
                                 \cup (IF p = "push" THEN D ELSE {})
    BY DEF HeldMoves
  <2>2. CASE p = "deque"
    BY <2>2, HeldTable
  <2>3. CASE p = "push"
    BY <1>4, <1>6, <2>3, HeldTable
  <2>4. CASE p = "run"
    BY <1>9, <1>11, <2>4
  <2>5. CASE p = "first"
    BY <1>3, <2>5, HeldTable
  <2>6. CASE p = "count"
    BY <1>3, <2>6, HeldTable
  <2>7. QED
    BY <2>2, <2>3, <2>4, <2>5, <2>6 DEF Anywhere
<1>13. StepShift(D, Place("run", t), Place("push", t))
  BY <1>2, <1>6, <1>7, <1>8, <1>10, <1>12, OwnShift
<1>14. QED
  BY <1>8, <1>13 DEF D, x

-----------------------------------------------------------------------------
(* The stages of the matrices.                                             *)

(* A step leaves what tells the stage of a matrix.                         *)
SameSteal(m) ==
  /\ HeldIn(WaitingPlaces, m)' = HeldIn(WaitingPlaces, m)
  /\ HeldIn(WaitingPlaces \cup {"first"}, m)' = HeldIn(WaitingPlaces \cup {"first"}, m)
  /\ HeldIn(Anywhere, m)' = HeldIn(Anywhere, m)
  /\ DriversOf(m)' = DriversOf(m)
  /\ \A u \in DriversOf(m) : pc'[u] = pc[u] /\ task'[u] = task[u]
  /\ sync1'[m] = sync1[m] /\ sync2'[m] = sync2[m]
  /\ \A x \in Cells : x[1] = m => version'[x] = version[x]

(* It then stays in its stage.                                             *)
LEMMA StealStageKept ==
  ASSUME NEW m \in MatrixIds, NEW k \in Offsets, NEW s \in StealStages, StealStage(m, k, s),
         SameSteal(m)
  PROVE  StealStage(m, k, s)'
<1>1. FirstTileLeft(m)' = FirstTileLeft(m)
  BY DEF FirstTileLeft, InFirstTile, RowOf, ColumnOf, Rows, SameSteal
<1>2. CountersInStage(m, s)'
  BY <1>1 DEF StealStage, SameSteal, CountersInStage
<1>3. DriverInStage(m, k, s)'
  <2>1. DriverInStage(m, k, s) /\ DriversOf(m)' = DriversOf(m)
    BY DEF StealStage, SameSteal
  <2>2. CASE s \notin StealDrivers
    BY <2>1, <2>2 DEF DriverInStage
  <2>3. CASE s \in StealDrivers
    <3>1. PICK u \in Threads : DriversOf(m) = {u} /\ pc[u] = s /\ Reached(u) = k
      BY <2>1, <2>3 DEF DriverInStage
    <3>2. u \in DriversOf(m)
      BY <3>1
    <3>3. pc'[u] = pc[u] /\ task'[u] = task[u]
      BY <3>2 DEF SameSteal
    <3>4. Reached(u)' = Reached(u)
      BY <3>3 DEF Reached, NextOffset, Offset, Kind
    <3>5. QED
      BY <2>1, <2>3, <3>1, <3>3, <3>4 DEF DriverInStage
  <2>4. QED
    BY <2>2, <2>3
<1>4. ASSUME NEW x \in Cells, x[1] = m
      PROVE  version'[x] = ReachedVersion(m, k, s, x)'
  BY <1>4 DEF ReachedVersion, SameSteal, OwnerName, Final, OwnerChunk, Rows, StealStage
<1>5. \A x \in HeldIn(Anywhere, m)' : x[1] \in KindsLeft(s) /\ x[3] = k
  BY DEF StealStage, SameSteal
<1>6. QED
  BY <1>2, <1>3, <1>4, <1>5 DEF StealStage

\* At this label, with this task, a thread is a driver of a matrix.
DrivesAt(label, job, m) == label \in StealDrivers /\ job[2] = m

(* The drivers of a matrix that a step of another thread leaves.           *)
LEMMA StealDriversKept ==
  ASSUME TypeOK, NEW t \in Threads, NEW label, NEW job, NEW w, NEW rest,
         StealMoves(t, label, job, w, rest), NEW m,
         ~DrivesAt(pc[t], task[t], m), ~DrivesAt(label, job, m)
  PROVE  /\ DriversOf(m)' = DriversOf(m)
         /\ \A u \in DriversOf(m) : pc'[u] = pc[u] /\ task'[u] = task[u]
<1>1. pc'[t] = label /\ task'[t] = job
  BY MovesAt
<1>2. \A u \in Threads \ {t} : pc'[u] = pc[u] /\ task'[u] = task[u]
  BY MovesAt
<1>3. t \notin DriversOf(m) /\ t \notin DriversOf(m)'
  BY <1>1 DEF DriversOf, Matrix, DrivesAt
<1>4. \A u \in Threads \ {t} : u \in DriversOf(m)' <=> u \in DriversOf(m)
  BY <1>2 DEF DriversOf, Matrix
<1>5. DriversOf(m) \subseteq Threads /\ DriversOf(m)' \subseteq Threads
  BY DEF DriversOf
<1>6. DriversOf(m)' = DriversOf(m)
  BY <1>3, <1>4, <1>5
<1>7. ASSUME NEW u \in DriversOf(m) PROVE pc'[u] = pc[u] /\ task'[u] = task[u]
  BY <1>2, <1>3, <1>5
<1>8. QED
  BY <1>6, <1>7

(* The chunks of the other matrices stay where they are.                   *)
LEMMA OtherChunks ==
  ASSUME ChunkOnce, NEW D, NEW g, NEW h, StepShift(D, g, h), NEW m, NEW n, n # m,
         \A x \in D : x[2] = m, NEW P \in SUBSET Anywhere
  PROVE  HeldIn(P, n)' = HeldIn(P, n)
<1>1. HeldIn(P, n)' = (HeldIn(P, n) \ (IF g[1] \in P THEN D ELSE {}))
                          \cup (IF h[1] \in P THEN {x \in D : x[2] = n} ELSE {})
  BY ShiftIn, ChunkOnceIs DEF StepShift
<1>2. \A x \in HeldIn(P, n) : x[2] = n
  BY DEF HeldIn
<1>3. {x \in D : x[2] = n} = {}
  OBVIOUS
<1>4. \A x \in HeldIn(P, n) : x \notin D
  BY <1>2
<1>5. QED
  BY <1>1, <1>3, <1>4

(* The other matrices stay in their stages.                                *)
LEMMA OtherStages ==
  ASSUME TypeOK, ChunkOnce, NEW t \in Threads, NEW label, NEW job, NEW w, NEW rest,
         StealMoves(t, label, job, w, rest), NEW D, NEW g, NEW h, StepShift(D, g, h),
         NEW m, \A x \in D : x[2] = m,
         pc[t] \in StealDrivers => task[t][2] = m, label \in StealDrivers => job[2] = m,
         NEW n, n # m, sync1'[n] = sync1[n], sync2'[n] = sync2[n],
         \A x \in Cells : x[1] = n => version'[x] = version[x]
  PROVE  SameSteal(n)
<1>1. /\ HeldIn(WaitingPlaces, n)' = HeldIn(WaitingPlaces, n)
      /\ HeldIn(WaitingPlaces \cup {"first"}, n)' = HeldIn(WaitingPlaces \cup {"first"}, n)
      /\ HeldIn(Anywhere, n)' = HeldIn(Anywhere, n)
  <2>1. ASSUME NEW P \in {WaitingPlaces, WaitingPlaces \cup {"first"}, Anywhere}
        PROVE  HeldIn(P, n)' = HeldIn(P, n)
    <3>1. P \in SUBSET Anywhere
      BY DEF WaitingPlaces, Anywhere
    <3>2. QED
      BY <3>1, OtherChunks
  <2>2. QED
    BY <2>1
<1>2. /\ DriversOf(n)' = DriversOf(n)
      /\ \A u \in DriversOf(n) : pc'[u] = pc[u] /\ task'[u] = task[u]
  BY StealDriversKept DEF DrivesAt
<1>3. QED
  BY <1>1, <1>2 DEF SameSteal

(* Chunks that move between two places that a set of places has, or none   *)
(* of them, or no chunks.                                                  *)
LEMMA SamePlaces ==
  ASSUME ChunkOnce, NEW D, NEW g, NEW h, StepShift(D, g, h), NEW P \in SUBSET Anywhere, NEW m,
         D = {} \/ (g[1] \in P /\ h[1] \in P) \/ (g[1] \notin P /\ h[1] \notin P)
  PROVE  HeldIn(P, m)' = HeldIn(P, m)
<1>1. HeldIn(P, m)' = (HeldIn(P, m) \ (IF g[1] \in P THEN D ELSE {}))
                          \cup (IF h[1] \in P THEN {x \in D : x[2] = m} ELSE {})
  BY ShiftIn, ChunkOnceIs DEF StepShift
<1>2. CASE D = {}
  BY <1>1, <1>2
<1>3. CASE g[1] \in P /\ h[1] \in P
  <2>1. g \in Holders /\ D \subseteq Held(g)
    BY <1>3, NowhereHeld DEF StepShift, Shift
  <2>2. \A x \in D : x[2] = m => x \in HeldIn(P, m)
    BY <1>3, <2>1, HeldInIs
  <2>3. \A x \in HeldIn(P, m) : x[2] = m
    BY DEF HeldIn
  <2>4. QED
    BY <1>1, <1>3, <2>2, <2>3
<1>4. CASE g[1] \notin P /\ h[1] \notin P
  BY <1>1, <1>4
<1>5. QED
  BY <1>2, <1>3, <1>4

(* A step that moves chunks that wait, if any, and changes no driver.      *)
LEMMA WaitingStages ==
  ASSUME TypeOK, ChunkOnce, NEW t \in Threads, NEW label, NEW job, NEW w, NEW rest,
         StealMoves(t, label, job, w, rest), NEW D, NEW g, NEW h, StepShift(D, g, h),
         D = {} \/ (g[1] \in WaitingPlaces /\ h[1] \in WaitingPlaces),
         (pc[t] \notin StealDrivers /\ label \notin StealDrivers) \/ (label = pc[t] /\ job = task[t]),
         UNCHANGED <<sync1, sync2, version>>, NEW m
  PROVE  SameSteal(m)
<1>1. /\ HeldIn(WaitingPlaces, m)' = HeldIn(WaitingPlaces, m)
      /\ HeldIn(WaitingPlaces \cup {"first"}, m)' = HeldIn(WaitingPlaces \cup {"first"}, m)
      /\ HeldIn(Anywhere, m)' = HeldIn(Anywhere, m)
  <2>1. ASSUME NEW P \in {WaitingPlaces, WaitingPlaces \cup {"first"}, Anywhere}
        PROVE  HeldIn(P, m)' = HeldIn(P, m)
    BY SamePlaces DEF WaitingPlaces, Anywhere
  <2>2. QED
    BY <2>1
<1>2. /\ DriversOf(m)' = DriversOf(m)
      /\ \A u \in DriversOf(m) : pc'[u] = pc[u] /\ task'[u] = task[u]
  <2>1. CASE pc[t] \notin StealDrivers /\ label \notin StealDrivers
    BY <2>1, StealDriversKept DEF DrivesAt
  <2>2. CASE label = pc[t] /\ job = task[t]
    BY <2>2, MovesAt DEF DriversOf, Matrix
  <2>3. QED
    BY <2>1, <2>2
<1>3. QED
  BY <1>1, <1>2 DEF SameSteal

(* The stages that matrices are in.                                        *)
StealIn(stage, iteration) ==
  /\ stage \in [MatrixIds -> StealStages] /\ iteration \in [MatrixIds -> Offsets]
  /\ \A m \in MatrixIds : StealStage(m, iteration[m], stage[m])
  /\ pending = Cardinality(Undone(stage))

(* Each matrix has a stage.                                                *)
LEMMA StealPick == StealStagesInv => \E stage, iteration : StealIn(stage, iteration)
<1>1. SUFFICES ASSUME StealStagesInv PROVE \E stage, iteration : StealIn(stage, iteration)
  OBVIOUS
<1>2. PICK stage \in [MatrixIds -> StealStages] : \E iteration \in [MatrixIds -> Offsets] :
        /\ \A m \in MatrixIds : StealStage(m, iteration[m], stage[m])
        /\ pending = Cardinality({m \in MatrixIds : stage[m] # "done"})
  BY <1>1 DEF StealStagesInv
<1>3. PICK iteration \in [MatrixIds -> Offsets] :
        /\ \A m \in MatrixIds : StealStage(m, iteration[m], stage[m])
        /\ pending = Cardinality({m \in MatrixIds : stage[m] # "done"})
  BY <1>2
<1>4. QED
  BY <1>2, <1>3 DEF StealIn, Undone

(* What a matrix in a stage tells.                                         *)
LEMMA StealStageOf ==
  ASSUME NEW stage, NEW iteration, StealIn(stage, iteration), NEW m \in MatrixIds
  PROVE  /\ stage[m] \in StealStages /\ iteration[m] \in Offsets
         /\ StealStage(m, iteration[m], stage[m])
         /\ stage[m] # "done" => pending >= 1
         /\ pending \in 0 .. Matrices
         /\ pending = 0 => stage[m] = "done"
<1>1. /\ stage[m] \in StealStages /\ iteration[m] \in Offsets
      /\ StealStage(m, iteration[m], stage[m])
  BY DEF StealIn
<1>2. IsFiniteSet(Undone(stage)) /\ Undone(stage) \in SUBSET MatrixIds /\ pending \in Nat
  BY MatricesFinite DEF Undone, StealIn
<1>3. IsFiniteSet(MatrixIds) /\ Cardinality(MatrixIds) = Matrices
  BY Parameters, FS_Interval DEF MatrixIds
<1>4. pending <= Matrices
  BY <1>2, <1>3, FS_Subset DEF StealIn
<1>5. stage[m] # "done" => pending # 0
  BY <1>2, FS_EmptySet DEF Undone, StealIn
<1>6. QED
  BY <1>1, <1>2, <1>4, <1>5, Parameters

(* A step that moves matrix m to stage r of iteration k.                   *)
LEMMA StealMoved ==
  ASSUME NEW stage, NEW iteration, StealIn(stage, iteration),
         NEW m \in MatrixIds, NEW k \in Offsets, NEW r \in StealStages, StealStage(m, k, r)',
         \A n \in MatrixIds \ {m} : SameSteal(n),
         \/ pending' = pending /\ (stage[m] = "done" <=> r = "done")
         \/ pending' = pending - 1 /\ stage[m] # "done" /\ r = "done"
  PROVE  StealStagesInv'
<1> DEFINE after == [stage EXCEPT ![m] = r]
           later == [iteration EXCEPT ![m] = k]
<1>1. after \in [MatrixIds -> StealStages] /\ later \in [MatrixIds -> Offsets]
  BY DEF StealIn
<1>2. \A n \in MatrixIds : /\ after[n] = IF n = m THEN r ELSE stage[n]
                           /\ later[n] = IF n = m THEN k ELSE iteration[n]
  BY DEF StealIn
<1>3. ASSUME NEW n \in MatrixIds PROVE StealStage(n, later[n], after[n])'
  <2>1. CASE n = m
    BY <1>2, <2>1
  <2>2. CASE n # m
    <3>1. PICK i \in Offsets, s \in StealStages : i = iteration[n] /\ s = stage[n]
      BY DEF StealIn
    <3>2. StealStage(n, i, s) /\ SameSteal(n)
      BY <2>2, <3>1 DEF StealIn
    <3>3. StealStage(n, i, s)'
      BY <3>2, StealStageKept
    <3>4. after[n] = s /\ later[n] = i
      BY <1>2, <2>2, <3>1
    <3>5. QED
      BY <3>3, <3>4
  <2>3. QED
    BY <2>1, <2>2
<1>4. pending' = Cardinality(Undone(after))
  <2>1. CASE stage[m] = "done" <=> r = "done"
    BY <1>2, <2>1 DEF Undone, StealIn
  <2>2. CASE pending' = pending - 1 /\ stage[m] # "done" /\ r = "done"
    <3>1. Undone(after) = Undone(stage) \ {m} /\ m \in Undone(stage)
      BY <1>2, <2>2 DEF Undone
    <3>2. IsFiniteSet(Undone(stage))
      BY MatricesFinite DEF Undone
    <3>3. Cardinality(Undone(stage) \ {m}) = Cardinality(Undone(stage)) - 1
      BY <3>1, <3>2, FS_RemoveElement
    <3>4. QED
      BY <2>2, <3>1, <3>3 DEF StealIn
  <2>3. QED
    BY <2>1, <2>2
<1>5. pending' = Cardinality({n \in MatrixIds : after[n] # "done"})
  BY <1>4 DEF Undone
<1> HIDE DEF after, later
<1>6. QED
  BY <1>1, <1>3, <1>5 DEF StealStagesInv

(* A step that changes no stage.                                           *)
LEMMA StealStagesSame ==
  ASSUME StealStagesInv, \A m \in MatrixIds : SameSteal(m), pending' = pending
  PROVE  StealStagesInv'
<1>1. PICK stage, iteration : StealIn(stage, iteration)
  BY StealPick
<1>2. PICK m \in MatrixIds : TRUE
  BY Parameters DEF MatrixIds
<1>3. PICK k \in Offsets, s \in StealStages : k = iteration[m] /\ s = stage[m]
  BY <1>1, <1>2 DEF StealIn
<1>4. StealStage(m, k, s)
  BY <1>1, <1>2, <1>3, StealStageOf
<1>5. StealStage(m, k, s)'
  BY <1>2, <1>4, StealStageKept
<1>6. QED
  BY <1>1, <1>2, <1>3, <1>5, StealMoved

-----------------------------------------------------------------------------
(* Chunks and what they update.                                            *)

(* What is held is chunks.                                                 *)
LEMMA HeldChunk ==
  ASSUME TypeOK, ChunkOnce, \A t \in Threads : StealThread(t),
         NEW h \in Holders, NEW x \in Held(h)
  PROVE  IsChunk(x)
<1>1. PICK p \in Anywhere, t \in Threads : h = <<p, t>>
  BY HolderIs
<1>2. x \in HeldBy(p, t, workers[t], subtasks[t], pc[t], task[t])
  BY <1>1, HeldAt
<1>3. /\ workers[t] \in Seq(Tasks) /\ subtasks[t] \in Seq(Tasks)
      /\ pc[t] \notin ClaimLabels => task[t] \in Tasks
  BY StealTypes, StealAt
<1>4. CASE p = "deque"
  <2>1. x \in ChunksIn(workers[t])
    BY <1>2, <1>4, HeldTable
  <2>2. PICK i \in 1 .. Len(workers[t]) : x \in ChunksOf(workers[t][i])
    BY <1>3, <2>1, ChunkInSeq
  <2>3. workers[t][i] \in Tasks
    BY <1>3, ChunkInSeq
  <2>4. QED
    BY <2>2, <2>3, TaskChunks
<1>5. CASE p = "push"
  <2>1. x \in ChunksIn(subtasks[t])
    BY <1>2, <1>5, HeldTable
  <2>2. PICK i \in 1 .. Len(subtasks[t]) : x \in ChunksOf(subtasks[t][i])
    BY <1>3, <2>1, ChunkInSeq
  <2>3. subtasks[t][i] \in Tasks
    BY <1>3, ChunkInSeq
  <2>4. QED
    BY <2>2, <2>3, TaskChunks
<1>6. CASE p \in {"run", "first", "count"}
  <2>1. pc[t] \notin EmptyLabels
    BY <1>2, <1>6, EmptyHeld
  <2>2. task[t] \in Tasks
    BY <1>3, <2>1 DEF EmptyLabels
  <2>3. x \in ChunksOf(task[t]) \/ x = FirstChunk(task[t])
    BY <1>2, <1>6, HeldTable
  <2>4. QED
    BY <2>2, <2>3, TaskChunks
<1>7. QED
  BY <1>4, <1>5, <1>6 DEF Anywhere

(* The operation of a chunk.                                               *)
NamedWork(x) == Work(IF x[1] = "start" THEN "diagonal" ELSE x[1], x[2], x[3], x[4])

(* The chunk that updates a cell.                                          *)
LEMMA OwnerNameIs ==
  ASSUME NEW k \in Offsets, NEW x, Updated(x, k)
  PROVE  LET y == OwnerName(x, k)
         IN  /\ y[2] = x[1] /\ y[3] = k /\ y[4] = OwnerChunk(x, k) /\ y = <<y[1], x[1], k, y[4]>>
             /\ k + 1 < Tiles
             /\ y[1] \in Borders => y \in BorderNames(x[1], k)
             /\ y[1] \notin Borders => y \in Interior(x[1], k, 0, InteriorChunks(k)) /\ y[1] = "interior"
             /\ x[2] = k + 1 /\ x[4] = k + 1 => y[1] = "interior" /\ InFirstTile(k, y[4])
<1> DEFINE y == OwnerName(x, k)
<1>1. /\ y[2] = x[1] /\ y[3] = k /\ y[4] = OwnerChunk(x, k) /\ y = <<y[1], x[1], k, y[4]>>
      /\ y[1] = IF x[4] = k THEN "left" ELSE IF x[2] = k THEN "top" ELSE "interior"
  BY DEF OwnerName
<1>2. /\ k + 1 < Tiles /\ x[2] >= k /\ x[4] >= k /\ x \in Cells /\ ~(x[2] = k /\ x[4] = k)
      /\ x[2] \in 0 .. Tiles - 1 /\ x[4] \in 0 .. Tiles - 1 /\ k \in Nat /\ x[1] \in MatrixIds
  BY UpdatedCell, CellParts DEF Updated, Offsets
<1>3. ASSUME y[1] \in Borders PROVE y \in BorderNames(x[1], k)
  BY <1>1, <1>2, <1>3, Parameters DEF OwnerChunk, Borders, BorderChunks, BorderNames
<1>4. ASSUME y[1] \notin Borders
      PROVE  /\ y \in Interior(x[1], k, 0, InteriorChunks(k)) /\ y[1] = "interior"
             /\ x[2] > k /\ x[4] > k /\ OwnerChunk(x, k) \in 0 .. InteriorChunks(k) - 1
  BY <1>1, <1>2, <1>4, InteriorChunk DEF Borders, Interior
<1>5. ASSUME x[2] = k + 1, x[4] = k + 1 PROVE y[1] = "interior" /\ InFirstTile(k, y[4])
  <2>1. y[1] = "interior"
    BY <1>1, <1>2, <1>5
  <2>2. OwnerChunk(x, k) \in 0 .. InteriorChunks(k) - 1
    BY <1>4, <2>1 DEF Borders
  <2>3. PICK c : c = OwnerChunk(x, k)
    OBVIOUS
  <2>4. c \in 0 .. InteriorChunks(k) - 1
    BY <2>2, <2>3
  <2>5. x \in Writes(Work("interior", x[1], k, c))
    BY <1>1, <1>2, <2>1, <2>3, <2>4, ChunkWrites
  <2>6. x = <<x[1], RowOf(k, c) \div Parts, RowOf(k, c) % Parts, ColumnOf(k, c)>>
    BY <2>5 DEF Writes, Work
  <2>7. InFirstTile(k, c) <=> RowOf(k, c) \div Parts = k + 1 /\ ColumnOf(k, c) = k + 1
    BY <1>2, <2>4, InteriorCell
  <2>8. x[2] = RowOf(k, c) \div Parts /\ x[4] = ColumnOf(k, c)
    BY <2>6
  <2>9. QED
    BY <1>1, <1>5, <2>1, <2>3, <2>7, <2>8
<1>6. QED
  BY <1>1, <1>2, <1>3, <1>4, <1>5

(* The cells that a chunk updates.                                         *)
LEMMA ChunkCells ==
  ASSUME NEW y, IsChunk(y), y[1] # "start"
  PROVE  /\ y[3] + 1 < Tiles /\ NamedWork(y) \in Works
         /\ \A x : x \in Writes(NamedWork(y)) <=> Updated(x, y[3]) /\ OwnerName(x, y[3]) = y
<1>1. PICK kind, m, k, c : kind = y[1] /\ m = y[2] /\ k = y[3] /\ c = y[4]
  OBVIOUS
<1>2. /\ y = <<kind, m, k, c>> /\ m \in MatrixIds /\ k \in Offsets /\ k + 1 < Tiles
      /\ \/ kind \in Borders /\ c \in 0 .. BorderChunks(k) - 1
         \/ kind = "interior" /\ c \in 0 .. InteriorChunks(k) - 1
  BY <1>1 DEF IsChunk
<1>3. /\ kind \in {"left", "top", "interior"}
      /\ c \in 0 .. (IF kind = "interior" THEN InteriorChunks(k) ELSE BorderChunks(k)) - 1
  BY <1>2 DEF Borders
<1>4. NamedWork(y) = Work(kind, m, k, c)
  BY <1>1, <1>3 DEF NamedWork
<1>5. ASSUME NEW x
      PROVE  x \in Writes(NamedWork(y)) <=> Updated(x, k) /\ OwnerName(x, k) = y
  BY <1>2, <1>3, <1>4, ChunkWrites DEF OwnerName
<1>6. NamedWork(y) \in Works
  BY <1>2, <1>3, <1>4, ChunkWrites
<1>7. QED
  BY <1>1, <1>2, <1>5, <1>6

(* A cell waits for its update in iteration k.                             *)
Waits(m, k, s, x) ==
  OwnerName(x, k)[1] \in KindsToCome(s) \/ OwnerName(x, k) \in HeldIn(WaitingPlaces, m)

(* What the version of a cell is, case by case.                            *)
LEMMA ReachedCases ==
  ASSUME NEW m, NEW k \in Offsets, NEW s \in StealStages, NEW x \in Cells
  PROVE  /\ Final(x) <= k => ReachedVersion(m, k, s, x) = Final(x)
         /\ x[2] = k /\ x[4] = k =>
              ReachedVersion(m, k, s, x) = (IF s = "start" THEN 0 ELSE k + 1) /\ Final(x) = k + 1
         /\ Updated(x, k) => ReachedVersion(m, k, s, x) =
              IF Waits(m, k, s, x) THEN k
              ELSE IF s = "ahead" /\ x[2] = k + 1 /\ x[4] = k + 1 THEN k + 2 ELSE k + 1
         /\ Final(x) <= k \/ (x[2] = k /\ x[4] = k) \/ Updated(x, k)
         /\ ~(Final(x) <= k /\ x[2] = k /\ x[4] = k) /\ ~(Final(x) <= k /\ Updated(x, k))
<1>1. Final(x) \in Nat /\ k \in Nat
  BY Finals, Parameters DEF Offsets
<1>2. x[2] = k /\ x[4] = k => Final(x) = k + 1
  BY <1>1 DEF Final
<1>3. /\ Final(x) <= k => ReachedVersion(m, k, s, x) = Final(x)
      /\ x[2] = k /\ x[4] = k => ReachedVersion(m, k, s, x) = IF s = "start" THEN 0 ELSE k + 1
  BY <1>1, <1>2 DEF ReachedVersion
<1>4. Updated(x, k) => ReachedVersion(m, k, s, x) =
        IF Waits(m, k, s, x) THEN k
        ELSE IF s = "ahead" /\ x[2] = k + 1 /\ x[4] = k + 1 THEN k + 2 ELSE k + 1
  BY <1>1 DEF ReachedVersion, Updated, Waits
<1>5. /\ Final(x) <= k \/ (x[2] = k /\ x[4] = k) \/ Updated(x, k)
      /\ ~(Final(x) <= k /\ x[2] = k /\ x[4] = k) /\ ~(Final(x) <= k /\ Updated(x, k))
  BY <1>1, <1>2 DEF Updated
<1>6. QED
  BY <1>2, <1>3, <1>4, <1>5

(* The same after a step.                                                  *)
LEMMA ReachedCasesNext ==
  ASSUME NEW m, NEW k \in Offsets, NEW s \in StealStages, NEW x \in Cells
  PROVE  /\ Final(x) <= k => ReachedVersion(m, k, s, x)' = Final(x)
         /\ x[2] = k /\ x[4] = k =>
              ReachedVersion(m, k, s, x)' = (IF s = "start" THEN 0 ELSE k + 1) /\ Final(x) = k + 1
         /\ Updated(x, k) => ReachedVersion(m, k, s, x)' =
              IF Waits(m, k, s, x)' THEN k
              ELSE IF s = "ahead" /\ x[2] = k + 1 /\ x[4] = k + 1 THEN k + 2 ELSE k + 1
         /\ Waits(m, k, s, x)' <=>
              \/ OwnerName(x, k)[1] \in KindsToCome(s)
              \/ OwnerName(x, k) \in HeldIn(WaitingPlaces, m)'
<1>1. Final(x) \in Nat /\ k \in Nat
  BY Finals, Parameters DEF Offsets
<1>2. x[2] = k /\ x[4] = k => Final(x) = k + 1
  BY <1>1 DEF Final
<1>3. Waits(m, k, s, x)' <=>
              \/ OwnerName(x, k)[1] \in KindsToCome(s)
              \/ OwnerName(x, k) \in HeldIn(WaitingPlaces, m)'
  BY DEF Waits, OwnerName, OwnerChunk, Rows
<1>4. ReachedVersion(m, k, s, x)' =
        IF Final(x) <= k THEN Final(x)
        ELSE IF x[2] = k /\ x[4] = k THEN IF s = "start" THEN 0 ELSE k + 1
        ELSE IF Waits(m, k, s, x)' THEN k
        ELSE IF s = "ahead" /\ x[2] = k + 1 /\ x[4] = k + 1 THEN k + 2
        ELSE k + 1
  BY <1>3 DEF ReachedVersion, Final, OwnerName, OwnerChunk, Rows
<1>5. Updated(x, k) => ~(Final(x) <= k) /\ ~(x[2] = k /\ x[4] = k)
  BY <1>1 DEF Updated
<1>6. x[2] = k /\ x[4] = k => ~(Final(x) <= k)
  BY <1>1, <1>2
<1>7. QED
  BY <1>2, <1>3, <1>4, <1>5, <1>6

(* A cell that goes on waiting, or does not wait.                          *)
LEMMA ReachedSame ==
  ASSUME NEW m, NEW k \in Offsets, NEW s \in StealStages, NEW x \in Cells,
         Updated(x, k) => (Waits(m, k, s, x)' <=> Waits(m, k, s, x))
  PROVE  ReachedVersion(m, k, s, x)' = ReachedVersion(m, k, s, x)
<1>1. CASE Final(x) <= k
  BY <1>1, ReachedCases, ReachedCasesNext
<1>2. CASE x[2] = k /\ x[4] = k
  BY <1>2, ReachedCases, ReachedCasesNext
<1>3. CASE Updated(x, k)
  BY <1>3, ReachedCases, ReachedCasesNext
<1>4. QED
  BY <1>1, <1>2, <1>3, ReachedCases

(* The versions of the cells of a matrix, in a stage and after a step.     *)
VersionsIn(m, k, s) == \A x \in Cells : x[1] = m => version[x] = ReachedVersion(m, k, s, x)

(* The same after a step.                                                  *)
VersionsNext(m, k, s) == \A x \in Cells : x[1] = m => version'[x] = ReachedVersion(m, k, s, x)'

(* A step that updates no cell.                                            *)
LEMMA SameVersions ==
  ASSUME NEW m, NEW k \in Offsets, NEW s \in StealStages, NEW r \in StealStages,
         VersionsIn(m, k, s), version' = version,
         s = "start" <=> r = "start", s = "ahead" <=> r = "ahead",
         \A x \in Cells : x[1] = m /\ Updated(x, k) => (Waits(m, k, r, x)' <=> Waits(m, k, s, x))
  PROVE  VersionsNext(m, k, r)
<1>1. SUFFICES ASSUME NEW x \in Cells, x[1] = m
               PROVE  ReachedVersion(m, k, r, x)' = ReachedVersion(m, k, s, x)
  BY DEF VersionsIn, VersionsNext
<1>2. CASE Final(x) <= k
  BY <1>2, ReachedCases, ReachedCasesNext
<1>3. CASE x[2] = k /\ x[4] = k
  BY <1>3, ReachedCases, ReachedCasesNext
<1>4. CASE Updated(x, k)
  <2>1. Waits(m, k, r, x)' <=> Waits(m, k, s, x)
    BY <1>1, <1>4
  <2>2. ReachedVersion(m, k, s, x) =
          IF Waits(m, k, s, x) THEN k
          ELSE IF s = "ahead" /\ x[2] = k + 1 /\ x[4] = k + 1 THEN k + 2 ELSE k + 1
    BY <1>4, ReachedCases
  <2>3. ReachedVersion(m, k, r, x)' =
          IF Waits(m, k, r, x)' THEN k
          ELSE IF r = "ahead" /\ x[2] = k + 1 /\ x[4] = k + 1 THEN k + 2 ELSE k + 1
    BY <1>4, ReachedCasesNext
  <2>4. QED
    BY <2>1, <2>2, <2>3
<1>5. QED
  BY <1>2, <1>3, <1>4, ReachedCases

(* A chunk that is executed.                                               *)
LEMMA NamedVersions ==
  ASSUME NEW y, IsChunk(y), y[1] # "start", NEW s \in StealStages, s # "start",
         VersionsIn(y[2], y[3], s), y[1] \in KindsLeft(s),
         y \in HeldIn(WaitingPlaces, y[2]),
         HeldIn(WaitingPlaces, y[2])' = HeldIn(WaitingPlaces, y[2]) \ {y},
         s = "ahead" => ~InFirstTile(y[3], y[4]),
         version' = [x \in Cells |-> IF x \in Writes(NamedWork(y)) THEN version[x] + 1 ELSE version[x]]
  PROVE  VersionsNext(y[2], y[3], s)
<1> DEFINE m == y[2]
           k == y[3]
<1>1. k \in Offsets /\ k \in Nat /\ m \in MatrixIds
  BY NoChunks DEF IsChunk
<1>2. SUFFICES ASSUME NEW x \in Cells, x[1] = m
               PROVE  version'[x] = ReachedVersion(m, k, s, x)'
  BY DEF VersionsNext
<1>3. x \in Writes(NamedWork(y)) <=> Updated(x, k) /\ OwnerName(x, k) = y
  BY ChunkCells
<1>4. version[x] = ReachedVersion(m, k, s, x)
  BY <1>2 DEF VersionsIn
<1>5. version'[x] = IF x \in Writes(NamedWork(y)) THEN version[x] + 1 ELSE version[x]
  OBVIOUS
<1> HIDE DEF m, k
<1>6. CASE Final(x) <= k
  BY <1>1, <1>3, <1>4, <1>5, <1>6, ReachedCases, ReachedSame
<1>7. CASE x[2] = k /\ x[4] = k
  BY <1>1, <1>3, <1>4, <1>5, <1>7, ReachedSame DEF Updated
<1>8. CASE Updated(x, k) /\ OwnerName(x, k) # y
  BY <1>1, <1>3, <1>4, <1>5, <1>8, ReachedCasesNext, ReachedSame DEF Waits, m, k
<1>9. CASE Updated(x, k) /\ OwnerName(x, k) = y
  <2>1. Waits(m, k, s, x)
    BY <1>9 DEF Waits, m
  <2>2. y[1] \notin KindsToCome(s)
    BY DEF KindsLeft, KindsToCome, StealStages, StealDrivers
  <2>3. ~Waits(m, k, s, x)'
    BY <1>1, <1>9, <2>2, ReachedCasesNext DEF m
  <2>4. ~(s = "ahead" /\ x[2] = k + 1 /\ x[4] = k + 1)
    BY <1>1, <1>9, OwnerNameIs DEF k
  <2>5. ReachedVersion(m, k, s, x) = k /\ ReachedVersion(m, k, s, x)' = k + 1
    BY <1>1, <1>9, <2>1, <2>3, <2>4, ReachedCases, ReachedCasesNext
  <2>6. QED
    BY <1>1, <1>3, <1>4, <1>5, <1>9, <2>5
<1>10. Final(x) <= k \/ (x[2] = k /\ x[4] = k) \/ Updated(x, k)
  BY <1>1, ReachedCases
<1>11. QED
  BY <1>6, <1>7, <1>8, <1>9, <1>10

-----------------------------------------------------------------------------
(* What the stage of a matrix says of threads and chunks.                  *)

(* The invariant but for the stages.                                       *)
StealBasis == TypeOK /\ ChunkOnce /\ \A t \in Threads : StealThread(t)

(* A thread that goes on with a matrix tells its stage.                    *)
LEMMA StealDriver ==
  ASSUME NEW k, NEW s, NEW t \in Threads, pc[t] \in StealDrivers, StealStage(Matrix(t), k, s)
  PROVE  s = pc[t] /\ DriversOf(Matrix(t)) = {t} /\ Reached(t) = k
<1>1. t \in DriversOf(Matrix(t)) /\ DriverInStage(Matrix(t), k, s)
  BY DEF DriversOf, StealStage
<1>2. s \in StealDrivers
  BY <1>1 DEF DriverInStage
<1>3. PICK u \in Threads : DriversOf(Matrix(t)) = {u} /\ pc[u] = s /\ Reached(u) = k
  BY <1>1, <1>2 DEF DriverInStage
<1>4. u = t
  BY <1>1, <1>3
<1>5. QED
  BY <1>3, <1>4

(* The drivers of a matrix after a step.                                   *)
LEMMA DriversAre ==
  ASSUME TypeOK, NEW t \in Threads, NEW label, NEW job, NEW w, NEW rest,
         StealMoves(t, label, job, w, rest), NEW m
  PROVE  DriversOf(m)' = (DriversOf(m) \ {t}) \cup (IF DrivesAt(label, job, m) THEN {t} ELSE {})
<1>1. pc'[t] = label /\ task'[t] = job
  BY MovesAt
<1>2. \A u \in Threads \ {t} : pc'[u] = pc[u] /\ task'[u] = task[u]
  BY MovesAt
<1>3. t \in DriversOf(m)' <=> DrivesAt(label, job, m)
  BY <1>1 DEF DriversOf, Matrix, DrivesAt
<1>4. \A u \in Threads \ {t} : u \in DriversOf(m)' <=> u \in DriversOf(m)
  BY <1>2 DEF DriversOf, Matrix
<1>5. DriversOf(m) \subseteq Threads /\ DriversOf(m)' \subseteq Threads
  BY DEF DriversOf
<1>6. QED
  BY <1>3, <1>4, <1>5

(* A matrix has one driver, or none.                                       *)
LEMMA DriverNext ==
  ASSUME NEW m, NEW k, NEW r, NEW t \in Threads,
         \/ r \in StealDrivers /\ DriversOf(m)' = {t} /\ pc'[t] = r /\ Reached(t)' = k
         \/ r \notin StealDrivers /\ DriversOf(m)' = {}
  PROVE  DriverInStage(m, k, r)'
BY DEF DriverInStage

(* The counters of a stage after a step.                                   *)
LEMMA CountersNext ==
  ASSUME NEW m, NEW r
  PROVE  /\ FirstTileLeft(m)' = {x \in HeldIn(WaitingPlaces \cup {"first"}, m)' : InFirstTile(x[3], x[4])}
         /\ CountersInStage(m, r)' <=>
              /\ r = "borders" => sync1'[m] = Cardinality(HeldIn(Anywhere, m)')
              /\ r = "storeChunks" => sync1'[m] = Parts
              /\ r \in {"interior", "diagonal", "ahead"} =>
                   /\ sync1'[m] = Cardinality(FirstTileLeft(m)')
                   /\ r = "interior" <=> sync1'[m] # 0
              /\ sync2'[m] = IF r \in {"interior", "diagonal", "ahead"}
                               THEN Cardinality(HeldIn(Anywhere, m)') ELSE 0
BY DEF FirstTileLeft, InFirstTile, RowOf, ColumnOf, Rows, CountersInStage

(* A stage after a step, part by part.                                     *)
LEMMA StageNext ==
  ASSUME NEW m, NEW k, NEW r, r = "start" => k = 0, r \in {"countMatrix", "done"} => k = Tiles - 1,
         r \notin {"start", "scheduleBorder", "borders", "countMatrix", "done"} => k + 1 < Tiles,
         \A x \in HeldIn(Anywhere, m)' : x[1] \in KindsLeft(r) /\ x[3] = k,
         DriverInStage(m, k, r)', CountersInStage(m, r)', VersionsNext(m, k, r)
  PROVE  StealStage(m, k, r)'
BY DEF StealStage, VersionsNext

(* The stage that has a kind of chunk.                                     *)
LEMMA KindStage ==
  ASSUME NEW s \in StealStages
  PROVE  /\ "start" \in KindsLeft(s) <=> s = "start"
         /\ \A kind \in Borders : kind \in KindsLeft(s) <=> s = "borders"
         /\ "interior" \in KindsLeft(s) <=> s \in {"interior", "diagonal", "ahead"}
         /\ s \in StealDrivers \ {"diagonal"} => KindsLeft(s) = {}
BY DEF KindsLeft, Borders, StealStages, StealDrivers

(* The chunks of a matrix are finitely many, of its iteration.             *)
LEMMA StageChunks ==
  ASSUME StealBasis, NEW m \in MatrixIds, NEW k \in Offsets, NEW s, StealStage(m, k, s),
         NEW P \in SUBSET Anywhere
  PROVE  /\ \A x \in HeldIn(P, m) :
              IsChunk(x) /\ x[2] = m /\ x[3] = k /\ x[1] \in KindsLeft(s) /\ x \in HeldIn(Anywhere, m)
         /\ IsFiniteSet(HeldIn(P, m)) /\ Cardinality(HeldIn(P, m)) \in Nat
         /\ Cardinality(HeldIn(P, m)) = 0 <=> HeldIn(P, m) = {}
         /\ \A x \in HeldIn(P, m) :
              Cardinality(HeldIn(P, m) \ {x}) = Cardinality(HeldIn(P, m)) - 1
<1>1. ASSUME NEW x \in HeldIn(P, m)
      PROVE  IsChunk(x) /\ x[2] = m /\ x[3] = k /\ x[1] \in KindsLeft(s) /\ x \in HeldIn(Anywhere, m)
  <2>1. PICK h \in Holders : x \in Held(h) /\ x[2] = m
    BY HeldInIs
  <2>2. x \in HeldIn(Anywhere, m)
    BY <2>1, HolderIs, HeldInIs
  <2>3. IsChunk(x)
    BY <2>1, HeldChunk DEF StealBasis
  <2>4. QED
    BY <2>1, <2>2, <2>3 DEF StealStage
<1>2. \A x \in HeldIn(P, m) : IsChunk(x) /\ x[2] = m /\ x[3] = k
  BY <1>1
<1>3. QED
  BY <1>1, <1>2, ChunksFinite

\* Where a thread at a label has its first chunk.
PlaceAt(label) ==
  IF label \in {"run", "pushRest", "interior"} THEN "run"
  ELSE IF label = "countFirstTile" THEN "first" ELSE "count"

(* The chunk that a thread executes or counts.                             *)
LEMMA ThreadChunk ==
  ASSUME StealBasis, NEW t \in Threads, pc[t] \notin EmptyLabels
  PROVE  LET x == FirstChunk(task[t])
         IN  /\ task[t] \in Tasks /\ Matrix(t) \in MatrixIds
             /\ task[t][1] \in KindsAt(pc[t]) /\ x = <<task[t][1], Matrix(t), Offset(t), task[t][4]>>
             /\ IsChunk(x) /\ x \in Held(<<PlaceAt(pc[t]), t>>) /\ x \in HeldIn(Anywhere, Matrix(t))
             /\ pc[t] # "run" \/ task[t][1] # "interior" => Held(<<PlaceAt(pc[t]), t>>) = {x}
             /\ \A k, s : StealStage(Matrix(t), k, s) =>
                  Offset(t) = k /\ task[t][1] \in KindsLeft(s)
<1> DEFINE x == FirstChunk(task[t])
           p == PlaceAt(pc[t])
<1>1. pc[t] \in StealLabels /\ task[t] \in Tasks /\ task[t][1] \in KindsAt(pc[t])
  BY StealAt DEF StealBasis, EmptyLabels
<1>2. /\ x = <<task[t][1], Matrix(t), Offset(t), task[t][4]>> /\ Matrix(t) \in MatrixIds
      /\ IsChunk(x) /\ x \in ChunksOf(task[t]) /\ (task[t][1] # "interior" => ChunksOf(task[t]) = {x})
  BY <1>1, TaskChunks, StealTaskParts DEF Matrix, Offset
<1>3. p \in Anywhere /\ <<p, t>> \in Holders
  BY HeldAt DEF PlaceAt, Anywhere
<1>4. /\ x \in Held(<<p, t>>)
      /\ pc[t] # "run" \/ task[t][1] # "interior" => Held(<<p, t>>) = {x}
  <2>1. Held(<<p, t>>) = HeldBy(p, t, workers[t], subtasks[t], pc[t], task[t])
    BY <1>3, HeldAt
  <2>2. CASE pc[t] = "run"
    BY <1>2, <2>1, <2>2, HeldTable DEF PlaceAt
  <2>3. CASE pc[t] \in {"pushRest", "interior"}
    BY <2>1, <2>3, HeldTable DEF PlaceAt
  <2>4. CASE pc[t] = "countFirstTile"
    BY <2>1, <2>4, HeldTable DEF PlaceAt
  <2>5. CASE pc[t] \in {"countBorder", "diagonal", "countChunk"}
    BY <2>1, <2>5, HeldTable DEF PlaceAt
  <2>6. QED
    BY <1>1, <2>2, <2>3, <2>4, <2>5 DEF StealLabels, EmptyLabels
<1>5. x \in HeldIn(Anywhere, Matrix(t))
  BY <1>2, <1>3, <1>4, HeldInIs
<1>6. ASSUME NEW k, NEW s, StealStage(Matrix(t), k, s)
      PROVE  Offset(t) = k /\ task[t][1] \in KindsLeft(s)
  BY <1>2, <1>5, <1>6 DEF StealStage
<1>7. QED
  BY <1>1, <1>2, <1>4, <1>5, <1>6

-----------------------------------------------------------------------------
(* What each step does to the stages.                                      *)

(* What the steps keep: where chunks are, and the stages.                  *)
StagesStep ==
  /\ ChunkOnce'
  /\ workers' \in [Threads -> Seq(Tasks)]
  /\ StealStagesInv'

(* A step that moves waiting chunks, if any, and changes no driver.        *)
LEMMA QuietStages ==
  ASSUME StealBasis, StealStagesInv, NEW t \in Threads, NEW label, NEW job, NEW w, NEW rest,
         StealMoves(t, label, job, w, rest), NEW D, NEW g, NEW h, StepShift(D, g, h),
         D = {} \/ (g[1] \in WaitingPlaces /\ h[1] \in WaitingPlaces),
         (pc[t] \notin StealDrivers /\ label \notin StealDrivers) \/ (label = pc[t] /\ job = task[t]),
         UNCHANGED <<sync1, sync2, version, pending>>
  PROVE  StagesStep
BY WaitingStages, StealStagesSame DEF StealBasis, StagesStep, StepShift

(* Labels that are no driver's.                                            *)
LEMMA NotDrivers ==
  /\ \A label \in ClaimLabels : label \notin StealDrivers
  /\ \A label \in {"run", "push", "pushRest", "countBorder", "interior", "countFirstTile",
                   "countChunk", "finish", "claim"} : label \notin StealDrivers
BY DEF ClaimLabels, StealDrivers

(* A thread looks for a task, or takes one.                                *)
LEMMA ClaimStages ==
  ASSUME StealBasis, StealStagesInv, NEW t \in Threads, Claim(t), UNCHANGED ludVars
  PROVE  StagesStep
<1>1. CASE LoadFinished(t) \/ PopNothing(t) \/ StealNothing(t)
  <2>1. PICK label \in ClaimLabels : StealMoves(t, label, task[t], work[t], subtasks[t])
    BY <1>1, ClaimEffects DEF StealBasis
  <2>2. pc[t] \in ClaimLabels /\ UNCHANGED <<sync1, sync2, version, pending>>
    BY <1>1, ClaimEffects DEF StealBasis
  <2>3. pc[t] \notin StealDrivers /\ label \notin StealDrivers
    BY <2>1, <2>2, NotDrivers
  <2>4. StepShift({}, <<"run", t>>, Nowhere)
    BY <1>1, ClaimShift DEF StealBasis
  <2>5. QED
    BY <2>1, <2>2, <2>3, <2>4, QuietStages
<1>2. CASE PopTask(t) \/ StealTask(t)
  <2>1. PICK o \in Threads, d \in Tasks :
          /\ StealMoves(t, "run", d, work[t], subtasks[t])
          /\ StepShift(ChunksOf(d), <<"deque", o>>, <<"run", t>>)
    BY <1>2, TakeShift DEF StealBasis
  <2>2. pc[t] \in ClaimLabels /\ UNCHANGED <<sync1, sync2, version, pending>>
    BY <1>2, TakeEffects DEF StealBasis
  <2>3. pc[t] \notin StealDrivers /\ "run" \notin StealDrivers
    BY <2>2, NotDrivers
  <2>4. <<"deque", o>>[1] \in WaitingPlaces /\ <<"run", t>>[1] \in WaitingPlaces
    BY DEF WaitingPlaces
  <2>5. QED
    BY <2>1, <2>2, <2>3, <2>4, QuietStages
<1>3. QED
  BY <1>1, <1>2 DEF Claim

(* A thread begins a tile operation.                                       *)
LEMMA StealBeginStages ==
  ASSUME StealBasis, StealStagesInv, NEW t \in Threads, NEW w, Begin(t, w)
  PROVE  StagesStep
BY StealBegins, BeginShift, QuietStages DEF StealBasis

(* A thread pushes a task.                                                 *)
LEMMA PushStages ==
  ASSUME StealBasis, StealStagesInv, NEW t \in Threads, Push(t)
  PROVE  StagesStep
<1>1. PICK d : d = Head(subtasks[t])
  OBVIOUS
<1>2. StepShift(ChunksOf(d), <<"push", t>>, <<"deque", t>>)
  BY <1>1, PushShift DEF StealBasis
<1>3. PICK label, job :
        /\ StealMoves(t, label, job, work[t], Tail(subtasks[t]))
        /\ (label = pc[t] /\ job = task[t]) \/ label \in {"claim", "interior"}
  BY StealPushes DEF StealBasis
<1>4. pc[t] \in {"push", "pushRest"} /\ UNCHANGED <<sync1, sync2, version, pending>>
  BY StealPushes DEF StealBasis
<1>5. (pc[t] \notin StealDrivers /\ label \notin StealDrivers) \/ (label = pc[t] /\ job = task[t])
  BY <1>3, <1>4, NotDrivers
<1>6. <<"push", t>>[1] \in WaitingPlaces /\ <<"deque", t>>[1] \in WaitingPlaces
  BY DEF WaitingPlaces
<1>7. QED
  BY <1>2, <1>3, <1>4, <1>5, <1>6, QuietStages

(* An interior task splits.                                                *)
LEMMA SplitStages ==
  ASSUME StealBasis, StealStagesInv, NEW t \in Threads, SplitInterior(t)
  PROVE  StagesStep
<1>1. PICK x : x = FirstChunk(task[t])
  OBVIOUS
<1>2. StepShift(ChunksOf(task[t]) \ {x}, <<"run", t>>, <<"push", t>>)
  BY <1>1, SplitShift DEF StealBasis
<1>3. PICK label \in {"interior", "pushRest"} : StealMoves(t, label, task[t], work[t], Rest(t))
  BY SplitInteriorEffect DEF StealBasis
<1>4. pc[t] = "run" /\ UNCHANGED <<sync1, sync2, version, pending>>
  BY SplitInteriorEffect DEF StealBasis
<1>5. pc[t] \notin StealDrivers /\ label \notin StealDrivers
  BY <1>3, <1>4, NotDrivers
<1>6. <<"push", t>>[1] \in WaitingPlaces /\ <<"run", t>>[1] \in WaitingPlaces
  BY DEF WaitingPlaces
<1>7. QED
  BY <1>2, <1>3, <1>4, <1>5, <1>6, QuietStages

(* The pool is finished.                                                   *)
LEMMA FinishStages ==
  ASSUME StealBasis, StealStagesInv, NEW t \in Threads, FinishPool(t)
  PROVE  StagesStep
<1>1. /\ pc[t] = "finish" /\ StealMoves(t, "claim", NoTask, work[t], subtasks[t])
      /\ UNCHANGED <<workers, sync1, sync2, version, pending>>
  BY FinishPoolEffect DEF StealBasis
<1>2. pc[t] \in EmptyLabels /\ "claim" \in EmptyLabels
  BY <1>1 DEF EmptyLabels, ClaimLabels
<1>3. StepShift({}, <<"run", t>>, Nowhere)
  BY <1>1, <1>2, EmptyShift DEF StealBasis
<1>4. pc[t] \notin StealDrivers /\ "claim" \notin StealDrivers
  BY <1>1, NotDrivers
<1>5. QED
  BY <1>1, <1>3, <1>4, QuietStages

(* The chunks are of one matrix.                                           *)
OfMatrix(D, m) == \A x \in D : x[2] = m

(* A thread goes on with this matrix before and after a step, or with none.*)
Steers(t, label, job, m) ==
  (pc[t] \in StealDrivers => task[t][2] = m) /\ (label \in StealDrivers => job[2] = m)

(* A step leaves the counters and the cells of the other matrices.         *)
SameElsewhere(m) ==
  /\ \A n \in MatrixIds \ {m} : sync1'[n] = sync1[n] /\ sync2'[n] = sync2[n]
  /\ \A x \in Cells : x[1] # m => version'[x] = version[x]

(* The matrices not decomposed are counted.                                *)
PendingStep(s, r) ==
  \/ pending' = pending /\ (s = "done" <=> r = "done")
  \/ pending' = pending - 1 /\ s # "done" /\ r = "done"

(* A step that moves chunks of matrix m, and the matrix to a stage.        *)
LEMMA MoveStages ==
  ASSUME StealBasis, NEW stage, NEW iteration, StealIn(stage, iteration), NEW t \in Threads,
         NEW label, NEW job, NEW w, NEW rest, StealMoves(t, label, job, w, rest),
         NEW D, NEW g, NEW h, StepShift(D, g, h), NEW m \in MatrixIds, OfMatrix(D, m),
         Steers(t, label, job, m), SameElsewhere(m),
         NEW k \in Offsets, NEW r \in StealStages, StealStage(m, k, r)', PendingStep(stage[m], r)
  PROVE  StagesStep
<1>1. ASSUME NEW n \in MatrixIds \ {m} PROVE SameSteal(n)
  <2>1. n # m /\ sync1'[n] = sync1[n] /\ sync2'[n] = sync2[n]
    BY DEF SameElsewhere
  <2>2. \A x \in Cells : x[1] = n => version'[x] = version[x]
    BY DEF SameElsewhere
  <2>3. TypeOK /\ ChunkOnce
    BY DEF StealBasis
  <2>4. /\ \A x \in D : x[2] = m
        /\ pc[t] \in StealDrivers => task[t][2] = m
        /\ label \in StealDrivers => job[2] = m
    BY DEF OfMatrix, Steers
  <2>5. QED
    BY <2>1, <2>2, <2>3, <2>4, OtherStages
<1>2. \/ pending' = pending /\ (stage[m] = "done" <=> r = "done")
      \/ pending' = pending - 1 /\ stage[m] # "done" /\ r = "done"
  BY DEF PendingStep
<1>3. StealStagesInv'
  BY <1>1, <1>2, StealMoved
<1>4. QED
  BY <1>3 DEF StagesStep, StepShift

(* The chunks of a matrix after a step that moves some of them.            *)
LEMMA ChunksAre ==
  ASSUME StealBasis, NEW D, NEW g, NEW h, StepShift(D, g, h), NEW m, OfMatrix(D, m),
         NEW P \in SUBSET Anywhere
  PROVE  /\ g[1] \in P /\ h[1] \notin P =>
              HeldIn(P, m)' = HeldIn(P, m) \ D
         /\ g[1] \notin P /\ h[1] \in P =>
              HeldIn(P, m)' = HeldIn(P, m) \cup D
         /\ D = {} \/ (g[1] \in P <=> h[1] \in P) =>
              HeldIn(P, m)' = HeldIn(P, m)
<1>1. HeldIn(P, m)' = (HeldIn(P, m) \ (IF g[1] \in P THEN D ELSE {}))
                          \cup (IF h[1] \in P THEN {x \in D : x[2] = m} ELSE {})
  BY ShiftIn, ChunkOnceIs DEF StepShift, StealBasis
<1>2. {x \in D : x[2] = m} = D
  BY DEF OfMatrix
<1>3. D = {} \/ (g[1] \in P <=> h[1] \in P) => HeldIn(P, m)' = HeldIn(P, m)
  BY SamePlaces DEF StealBasis
<1>4. QED
  BY <1>1, <1>2, <1>3

(* The places that matter.                                                 *)
LEMMA PlacesAre ==
  /\ WaitingPlaces \in SUBSET Anywhere /\ WaitingPlaces \cup {"first"} \in SUBSET Anywhere
  /\ Anywhere \in SUBSET Anywhere
  /\ "deque" \in WaitingPlaces /\ "push" \in WaitingPlaces /\ "run" \in WaitingPlaces
  /\ "first" \notin WaitingPlaces /\ "count" \notin WaitingPlaces \cup {"first"}
  /\ "nowhere" \notin Anywhere /\ "run" \in Anywhere /\ "push" \in Anywhere
  /\ "first" \in Anywhere /\ "count" \in Anywhere /\ Nowhere[1] = "nowhere"
  /\ \A p, t : <<p, t>>[1] = p
BY DEF WaitingPlaces, Anywhere, Nowhere

\* Chunks move between places, for all chunks of a matrix.
HeldNext(P, m, D, p, q) ==
  /\ p \in P /\ q \notin P => HeldIn(P, m)' = HeldIn(P, m) \ D
  /\ p \notin P /\ q \in P => HeldIn(P, m)' = HeldIn(P, m) \cup D
  /\ D = {} \/ (p \in P <=> q \in P) => HeldIn(P, m)' = HeldIn(P, m)

(* The places that the stages look at, after a step.                       *)
LEMMA HeldAfter ==
  ASSUME StealBasis, NEW t, NEW D, NEW p, NEW q, StepShift(D, <<p, t>>, Place(q, t)),
         NEW m, OfMatrix(D, m)
  PROVE  /\ HeldNext(WaitingPlaces, m, D, p, q)
         /\ HeldNext(WaitingPlaces \cup {"first"}, m, D, p, q)
         /\ HeldNext(Anywhere, m, D, p, q)
<1>1. Place(q, t)[1] = q /\ <<p, t>>[1] = p
  BY PlacesAre DEF Place
<1>2. ASSUME NEW P \in SUBSET Anywhere PROVE HeldNext(P, m, D, p, q)
  <2>1. PICK g, h : g = <<p, t>> /\ h = Place(q, t) /\ g[1] = p /\ h[1] = q
    BY <1>1
  <2>2. StepShift(D, g, h)
    BY <2>1
  <2>3. /\ g[1] \in P /\ h[1] \notin P => HeldIn(P, m)' = HeldIn(P, m) \ D
        /\ g[1] \notin P /\ h[1] \in P => HeldIn(P, m)' = HeldIn(P, m) \cup D
        /\ D = {} \/ (g[1] \in P <=> h[1] \in P) => HeldIn(P, m)' = HeldIn(P, m)
    BY <2>2, ChunksAre
  <2>4. QED
    BY <2>1, <2>3 DEF HeldNext
<1>3. QED
  BY <1>2, PlacesAre

(* Chunks that are made to be pushed.                                      *)
LEMMA HeldMade ==
  ASSUME StealBasis, NEW t, NEW D, StepShift(D, Nowhere, <<"push", t>>), NEW m, OfMatrix(D, m),
         NEW P \in {WaitingPlaces, WaitingPlaces \cup {"first"}, Anywhere}
  PROVE  HeldIn(P, m)' = HeldIn(P, m) \cup D
<1>1. P \in SUBSET Anywhere /\ "push" \in P /\ "nowhere" \notin P
  BY PlacesAre
<1>2. PICK g, h : g = Nowhere /\ h = <<"push", t>> /\ g[1] = "nowhere" /\ h[1] = "push"
  BY PlacesAre
<1>3. StepShift(D, g, h)
  BY <1>2
<1>4. g[1] \notin P /\ h[1] \in P
  BY <1>1, <1>2
<1>5. QED
  BY <1>1, <1>3, <1>4, ChunksAre

-----------------------------------------------------------------------------
(* Which thread goes on with a matrix.                                     *)

(* In such a stage no thread does.                                         *)
LEMMA DriversLess ==
  ASSUME NEW m, NEW k, NEW s, StealStage(m, k, s), s \notin StealDrivers
  PROVE  DriversOf(m) = {}
BY DEF StealStage, DriverInStage

(* A thread starts to go on with a matrix.                                 *)
LEMMA DriverStarts ==
  ASSUME TypeOK, NEW t \in Threads, NEW label \in StealDrivers, NEW job, NEW w, NEW rest,
         StealMoves(t, label, job, w, rest), NEW m, NEW k, DriversOf(m) \subseteq {t},
         job[2] = m, Reached(t)' = k
  PROVE  DriverInStage(m, k, label)'
<1>1. DrivesAt(label, job, m)
  BY DEF DrivesAt
<1>2. DriversOf(m)' = (DriversOf(m) \ {t}) \cup (IF DrivesAt(label, job, m) THEN {t} ELSE {})
  BY DriversAre
<1>3. DriversOf(m)' = {t}
  BY <1>1, <1>2
<1>4. pc'[t] = label
  BY MovesAt
<1>5. QED
  BY <1>3, <1>4, DriverNext

(* A thread does no longer go on with a matrix.                            *)
LEMMA DriverStops ==
  ASSUME TypeOK, NEW t \in Threads, NEW label, label \notin StealDrivers, NEW job, NEW w, NEW rest,
         StealMoves(t, label, job, w, rest), NEW m, NEW k, NEW r, r \notin StealDrivers,
         DriversOf(m) \subseteq {t}
  PROVE  DriverInStage(m, k, r)'
BY DriversAre, DriverNext DEF DrivesAt

(* Another thread goes on with it, or none.                                *)
LEMMA DriverStays ==
  ASSUME TypeOK, NEW t \in Threads, pc[t] \notin StealDrivers, NEW label, label \notin StealDrivers,
         NEW job, NEW w, NEW rest, StealMoves(t, label, job, w, rest),
         NEW m, NEW k, NEW s, StealStage(m, k, s)
  PROVE  DriverInStage(m, k, s)'
<1>1. ~DrivesAt(pc[t], task[t], m) /\ ~DrivesAt(label, job, m)
  BY DEF DrivesAt
<1>2. /\ DriversOf(m)' = DriversOf(m)
      /\ \A u \in DriversOf(m) : pc'[u] = pc[u] /\ task'[u] = task[u]
  BY <1>1, StealDriversKept
<1>3. CASE s \notin StealDrivers
  BY <1>2, <1>3, DriversLess, DriverNext DEF DriverInStage
<1>4. CASE s \in StealDrivers
  <2>1. PICK u \in Threads : DriversOf(m) = {u} /\ pc[u] = s /\ Reached(u) = k
    BY <1>4 DEF StealStage, DriverInStage
  <2>2. u \in DriversOf(m)
    BY <2>1
  <2>3. pc'[u] = pc[u] /\ task'[u] = task[u]
    BY <1>2, <2>2
  <2>4. Reached(u)' = Reached(u)
    BY <2>3 DEF Reached, NextOffset, Offset, Kind
  <2>5. DriversOf(m)' = {u} /\ pc'[u] = s /\ Reached(u)' = k
    BY <1>2, <2>1, <2>3, <2>4
  <2>6. QED
    BY <1>4, <2>5, DriverNext
<1>5. QED
  BY <1>3, <1>4

(* Chunks leave a set of places, or stay in it or out of it.               *)
LEMMA HeldLeave ==
  ASSUME NEW P, NEW m, NEW D, NEW p, NEW q, HeldNext(P, m, D, p, q), p \in P, q \notin P
  PROVE  HeldIn(P, m)' = HeldIn(P, m) \ D
BY DEF HeldNext

(* A move within the places P, or of no chunk, leaves what is held in P.   *)
LEMMA HeldStay ==
  ASSUME NEW P, NEW m, NEW D, NEW p, NEW q, HeldNext(P, m, D, p, q), D = {} \/ (p \in P <=> q \in P)
  PROVE  HeldIn(P, m)' = HeldIn(P, m)
BY DEF HeldNext

(* The moves of the chunk that a thread executes or counts.                *)
LEMMA RunGone ==
  ASSUME StealBasis, NEW t, NEW x, StepShift({x}, <<"run", t>>, Place("nowhere", t)),
         NEW m, OfMatrix({x}, m)
  PROVE  /\ HeldIn(WaitingPlaces, m)' = HeldIn(WaitingPlaces, m) \ {x}
         /\ HeldIn(WaitingPlaces \cup {"first"}, m)' = HeldIn(WaitingPlaces \cup {"first"}, m) \ {x}
         /\ HeldIn(Anywhere, m)' = HeldIn(Anywhere, m) \ {x}
<1>1. PICK D, p, q : D = {x} /\ p = "run" /\ q = "nowhere"
  OBVIOUS
<1>2. StepShift(D, <<p, t>>, Place(q, t)) /\ OfMatrix(D, m)
  BY <1>1
<1>3. /\ HeldNext(WaitingPlaces, m, D, p, q)
      /\ HeldNext(WaitingPlaces \cup {"first"}, m, D, p, q)
      /\ HeldNext(Anywhere, m, D, p, q)
  BY <1>2, HeldAfter
<1>4. "run" \in WaitingPlaces /\ "nowhere" \notin WaitingPlaces
  BY DEF WaitingPlaces
<1>5. "run" \in WaitingPlaces \cup {"first"} /\ "nowhere" \notin WaitingPlaces \cup {"first"}
  BY DEF WaitingPlaces
<1>6. "run" \in Anywhere /\ "nowhere" \notin Anywhere
  BY DEF Anywhere
<1>7. HeldIn(WaitingPlaces, m)' = HeldIn(WaitingPlaces, m) \ D
  BY <1>1, <1>3, <1>4, HeldLeave
<1>8. HeldIn(WaitingPlaces \cup {"first"}, m)' = HeldIn(WaitingPlaces \cup {"first"}, m) \ D
  BY <1>1, <1>3, <1>5, HeldLeave
<1>9. HeldIn(Anywhere, m)' = HeldIn(Anywhere, m) \ D
  BY <1>1, <1>3, <1>6, HeldLeave
<1>10. QED
  BY <1>1, <1>7, <1>8, <1>9

(* The chunk of a thread is executed and is about to be counted.           *)
LEMMA RunCounted ==
  ASSUME StealBasis, NEW t, NEW x, StepShift({x}, <<"run", t>>, Place("count", t)),
         NEW m, OfMatrix({x}, m)
  PROVE  /\ HeldIn(WaitingPlaces, m)' = HeldIn(WaitingPlaces, m) \ {x}
         /\ HeldIn(WaitingPlaces \cup {"first"}, m)' = HeldIn(WaitingPlaces \cup {"first"}, m) \ {x}
         /\ HeldIn(Anywhere, m)' = HeldIn(Anywhere, m)
<1>1. PICK D, p, q : D = {x} /\ p = "run" /\ q = "count"
  OBVIOUS
<1>2. StepShift(D, <<p, t>>, Place(q, t)) /\ OfMatrix(D, m)
  BY <1>1
<1>3. /\ HeldNext(WaitingPlaces, m, D, p, q)
      /\ HeldNext(WaitingPlaces \cup {"first"}, m, D, p, q)
      /\ HeldNext(Anywhere, m, D, p, q)
  BY <1>2, HeldAfter
<1>4. "run" \in WaitingPlaces /\ "count" \notin WaitingPlaces
  BY DEF WaitingPlaces
<1>5. "run" \in WaitingPlaces \cup {"first"} /\ "count" \notin WaitingPlaces \cup {"first"}
  BY DEF WaitingPlaces
<1>6. "run" \in Anywhere <=> "count" \in Anywhere
  BY DEF Anywhere
<1>7. HeldIn(WaitingPlaces, m)' = HeldIn(WaitingPlaces, m) \ D
  BY <1>1, <1>3, <1>4, HeldLeave
<1>8. HeldIn(WaitingPlaces \cup {"first"}, m)' = HeldIn(WaitingPlaces \cup {"first"}, m) \ D
  BY <1>1, <1>3, <1>5, HeldLeave
<1>9. HeldIn(Anywhere, m)' = HeldIn(Anywhere, m)
  BY <1>1, <1>3, <1>6, HeldStay
<1>10. QED
  BY <1>1, <1>7, <1>8, <1>9

(* The chunk of a thread is executed, and its tile in the corner is about  *)
(* to be counted.                                                          *)
LEMMA RunFirst ==
  ASSUME StealBasis, NEW t, NEW x, StepShift({x}, <<"run", t>>, Place("first", t)),
         NEW m, OfMatrix({x}, m)
  PROVE  /\ HeldIn(WaitingPlaces, m)' = HeldIn(WaitingPlaces, m) \ {x}
         /\ HeldIn(WaitingPlaces \cup {"first"}, m)' = HeldIn(WaitingPlaces \cup {"first"}, m)
         /\ HeldIn(Anywhere, m)' = HeldIn(Anywhere, m)
<1>1. PICK D, p, q : D = {x} /\ p = "run" /\ q = "first"
  OBVIOUS
<1>2. StepShift(D, <<p, t>>, Place(q, t)) /\ OfMatrix(D, m)
  BY <1>1
<1>3. /\ HeldNext(WaitingPlaces, m, D, p, q)
      /\ HeldNext(WaitingPlaces \cup {"first"}, m, D, p, q)
      /\ HeldNext(Anywhere, m, D, p, q)
  BY <1>2, HeldAfter
<1>4. "run" \in WaitingPlaces /\ "first" \notin WaitingPlaces
  BY DEF WaitingPlaces
<1>5. "run" \in WaitingPlaces \cup {"first"} <=> "first" \in WaitingPlaces \cup {"first"}
  BY DEF WaitingPlaces
<1>6. "run" \in Anywhere <=> "first" \in Anywhere
  BY DEF Anywhere
<1>7. HeldIn(WaitingPlaces, m)' = HeldIn(WaitingPlaces, m) \ D
  BY <1>1, <1>3, <1>4, HeldLeave
<1>8. HeldIn(WaitingPlaces \cup {"first"}, m)' = HeldIn(WaitingPlaces \cup {"first"}, m)
  BY <1>1, <1>3, <1>5, HeldStay
<1>9. HeldIn(Anywhere, m)' = HeldIn(Anywhere, m)
  BY <1>1, <1>3, <1>6, HeldStay
<1>10. QED
  BY <1>1, <1>7, <1>8, <1>9

(* The tile in the corner is counted, and the chunk is about to be.        *)
LEMMA FirstCounted ==
  ASSUME StealBasis, NEW t, NEW x, StepShift({x}, <<"first", t>>, Place("count", t)),
         NEW m, OfMatrix({x}, m)
  PROVE  /\ HeldIn(WaitingPlaces, m)' = HeldIn(WaitingPlaces, m)
         /\ HeldIn(WaitingPlaces \cup {"first"}, m)' = HeldIn(WaitingPlaces \cup {"first"}, m) \ {x}
         /\ HeldIn(Anywhere, m)' = HeldIn(Anywhere, m)
<1>1. PICK D, p, q : D = {x} /\ p = "first" /\ q = "count"
  OBVIOUS
<1>2. StepShift(D, <<p, t>>, Place(q, t)) /\ OfMatrix(D, m)
  BY <1>1
<1>3. /\ HeldNext(WaitingPlaces, m, D, p, q)
      /\ HeldNext(WaitingPlaces \cup {"first"}, m, D, p, q)
      /\ HeldNext(Anywhere, m, D, p, q)
  BY <1>2, HeldAfter
<1>4. "first" \in WaitingPlaces <=> "count" \in WaitingPlaces
  BY DEF WaitingPlaces
<1>5. "first" \in WaitingPlaces \cup {"first"} /\ "count" \notin WaitingPlaces \cup {"first"}
  BY DEF WaitingPlaces
<1>6. "first" \in Anywhere <=> "count" \in Anywhere
  BY DEF Anywhere
<1>7. HeldIn(WaitingPlaces, m)' = HeldIn(WaitingPlaces, m)
  BY <1>1, <1>3, <1>4, HeldStay
<1>8. HeldIn(WaitingPlaces \cup {"first"}, m)' = HeldIn(WaitingPlaces \cup {"first"}, m) \ D
  BY <1>1, <1>3, <1>5, HeldLeave
<1>9. HeldIn(Anywhere, m)' = HeldIn(Anywhere, m)
  BY <1>1, <1>3, <1>6, HeldStay
<1>10. QED
  BY <1>1, <1>7, <1>8, <1>9

(* The chunk of a thread is counted: no place holds it any more.           *)
LEMMA CountGone ==
  ASSUME StealBasis, NEW t, NEW x, StepShift({x}, <<"count", t>>, Place("nowhere", t)),
         NEW m, OfMatrix({x}, m)
  PROVE  /\ HeldIn(WaitingPlaces, m)' = HeldIn(WaitingPlaces, m)
         /\ HeldIn(WaitingPlaces \cup {"first"}, m)' = HeldIn(WaitingPlaces \cup {"first"}, m)
         /\ HeldIn(Anywhere, m)' = HeldIn(Anywhere, m) \ {x}
<1>1. PICK D, p, q : D = {x} /\ p = "count" /\ q = "nowhere"
  OBVIOUS
<1>2. StepShift(D, <<p, t>>, Place(q, t)) /\ OfMatrix(D, m)
  BY <1>1
<1>3. /\ HeldNext(WaitingPlaces, m, D, p, q)
      /\ HeldNext(WaitingPlaces \cup {"first"}, m, D, p, q)
      /\ HeldNext(Anywhere, m, D, p, q)
  BY <1>2, HeldAfter
<1>4. "count" \in WaitingPlaces <=> "nowhere" \in WaitingPlaces
  BY DEF WaitingPlaces
<1>5. "count" \in WaitingPlaces \cup {"first"} <=> "nowhere" \in WaitingPlaces \cup {"first"}
  BY DEF WaitingPlaces
<1>6. "count" \in Anywhere /\ "nowhere" \notin Anywhere
  BY DEF Anywhere
<1>7. HeldIn(WaitingPlaces, m)' = HeldIn(WaitingPlaces, m)
  BY <1>1, <1>3, <1>4, HeldStay
<1>8. HeldIn(WaitingPlaces \cup {"first"}, m)' = HeldIn(WaitingPlaces \cup {"first"}, m)
  BY <1>1, <1>3, <1>5, HeldStay
<1>9. HeldIn(Anywhere, m)' = HeldIn(Anywhere, m) \ D
  BY <1>1, <1>3, <1>6, HeldLeave
<1>10. QED
  BY <1>1, <1>7, <1>8, <1>9

(* A step that moves no chunk.                                             *)
LEMMA NoneMoved ==
  ASSUME StealBasis, NEW t, StepShift({}, <<"run", t>>, Nowhere), NEW m
  PROVE  /\ HeldIn(WaitingPlaces, m)' = HeldIn(WaitingPlaces, m)
         /\ HeldIn(WaitingPlaces \cup {"first"}, m)' = HeldIn(WaitingPlaces \cup {"first"}, m)
         /\ HeldIn(Anywhere, m)' = HeldIn(Anywhere, m)
<1>1. PICK D, p, q : D = {} /\ p = "run" /\ q = "nowhere"
  OBVIOUS
<1>2. OfMatrix(D, m) /\ Place(q, t) = Nowhere
  BY <1>1 DEF OfMatrix, Place
<1>3. StepShift(D, <<p, t>>, Place(q, t))
  BY <1>1, <1>2
<1>4. /\ HeldNext(WaitingPlaces, m, D, p, q)
      /\ HeldNext(WaitingPlaces \cup {"first"}, m, D, p, q)
      /\ HeldNext(Anywhere, m, D, p, q)
  BY <1>2, <1>3, HeldAfter
<1>5. QED
  BY <1>1, <1>4, HeldStay

-----------------------------------------------------------------------------
(* The matrix and the stage of a thread.                                   *)

(* A thread at chunk x of matrix m, which is in stage s of iteration k.    *)
AtChunk(t, m, k, s, x) ==
  /\ m \in MatrixIds /\ k \in Offsets /\ s \in StealStages
  /\ StealStage(m, k, s) /\ VersionsIn(m, k, s)
  /\ task[t] \in Tasks /\ Matrix(t) = m /\ Offset(t) = k /\ task[t][2] = m /\ task[t][3] = k
  /\ x = FirstChunk(task[t]) /\ x = <<x[1], m, k, task[t][4]>> /\ IsChunk(x)
  /\ x[1] = task[t][1] /\ x[2] = m /\ x[3] = k /\ x[4] = task[t][4]
  /\ x[1] \in KindsAt(pc[t]) /\ x[1] \in KindsLeft(s)
  /\ x \in Held(<<PlaceAt(pc[t]), t>>) /\ x \in HeldIn(Anywhere, m)
  /\ OfMatrix({x}, m)

(* A thread that executes or counts a chunk has one of a matrix in         *)
(* progress, of its iteration and of a stage where such chunks are left.   *)
LEMMA ThreadAtChunk ==
  ASSUME StealBasis, NEW stage, NEW iteration, StealIn(stage, iteration), NEW t \in Threads,
         pc[t] \notin EmptyLabels
  PROVE  \E m, k, s, x : AtChunk(t, m, k, s, x) /\ stage[m] = s /\ iteration[m] = k
<1> DEFINE y == FirstChunk(task[t])
<1>1. PICK m, x : m = Matrix(t) /\ x = y
  OBVIOUS
<1>2. /\ task[t] \in Tasks /\ m \in MatrixIds /\ x = <<task[t][1], m, Offset(t), task[t][4]>>
      /\ task[t][1] \in KindsAt(pc[t]) /\ IsChunk(x)
      /\ x \in Held(<<PlaceAt(pc[t]), t>>) /\ x \in HeldIn(Anywhere, m)
      /\ \A k, s : StealStage(m, k, s) => Offset(t) = k /\ task[t][1] \in KindsLeft(s)
  BY <1>1, ThreadChunk
<1>3. PICK k, s : k = iteration[m] /\ s = stage[m]
  OBVIOUS
<1>4. k \in Offsets /\ s \in StealStages /\ StealStage(m, k, s)
  BY <1>2, <1>3, StealStageOf
<1>5. VersionsIn(m, k, s)
  BY <1>4 DEF StealStage, VersionsIn
<1>6. Offset(t) = k /\ task[t][1] \in KindsLeft(s)
  BY <1>2, <1>4
<1>7. task[t][2] = m /\ task[t][3] = k
  BY <1>1, <1>6 DEF Matrix, Offset
<1>8. x = <<task[t][1], m, k, task[t][4]>>
  BY <1>2, <1>6
<1>9. x[1] = task[t][1] /\ x[2] = m /\ x[3] = k /\ x[4] = task[t][4]
  BY <1>8
<1>10. OfMatrix({x}, m)
  BY <1>9 DEF OfMatrix
<1>11. x = <<x[1], m, k, task[t][4]>>
  BY <1>8, <1>9
<1>12. AtChunk(t, m, k, s, x)
  BY <1>1, <1>2, <1>4, <1>5, <1>6, <1>7, <1>9, <1>10, <1>11 DEF AtChunk
<1>13. QED
  BY <1>3, <1>12

(* A thread that goes on with matrix m, which is at stage s.               *)
AtStage(t, m, k, s) ==
  /\ m \in MatrixIds /\ k \in Offsets /\ s \in StealStages /\ s = pc[t]
  /\ StealStage(m, k, s) /\ VersionsIn(m, k, s)
  /\ task[t] \in Tasks /\ Matrix(t) = m /\ Reached(t) = k /\ task[t][2] = m
  /\ task[t][1] \in KindsAt(pc[t])
  /\ DriversOf(m) = {t}
  /\ s # "diagonal" => HeldIn(Anywhere, m) = {}

(* A thread that drives its matrix from one stage to the next is the only  *)
(* one, and but for the diagonal every chunk queued before is counted.     *)
LEMMA ThreadAtStage ==
  ASSUME StealBasis, NEW stage, NEW iteration, StealIn(stage, iteration), NEW t \in Threads,
         pc[t] \in StealDrivers
  PROVE  \E m, k, s : AtStage(t, m, k, s) /\ stage[m] = s /\ iteration[m] = k
<1>1. PICK m : m = Matrix(t)
  OBVIOUS
<1>2. task[t] \in Tasks /\ task[t][1] \in KindsAt(pc[t])
  BY NotDrivers, StealAt DEF StealBasis
<1>3. m = task[t][2] /\ m \in MatrixIds
  BY <1>1, <1>2, StealTaskParts DEF Matrix
<1>4. PICK k, s : k = iteration[m] /\ s = stage[m]
  OBVIOUS
<1>5. k \in Offsets /\ s \in StealStages /\ StealStage(m, k, s)
  BY <1>3, <1>4, StealStageOf
<1>6. VersionsIn(m, k, s)
  BY <1>5 DEF StealStage, VersionsIn
<1>7. s = pc[t] /\ DriversOf(m) = {t} /\ Reached(t) = k
  BY <1>1, <1>5, StealDriver
<1>8. s # "diagonal" => HeldIn(Anywhere, m) = {}
  BY <1>5, <1>7, KindStage DEF StealStage
<1>9. AtStage(t, m, k, s)
  BY <1>1, <1>2, <1>3, <1>5, <1>6, <1>7, <1>8 DEF AtStage
<1>10. QED
  BY <1>4, <1>9

(* The counters of the stages.                                             *)
LEMMA CountersAre ==
  ASSUME NEW m, NEW r
  PROVE  /\ FirstTileLeft(m)' = {x \in HeldIn(WaitingPlaces \cup {"first"}, m)' : InFirstTile(x[3], x[4])}
         /\ r \in {"start", "scheduleBorder", "storeFirstTile", "countMatrix", "done"} /\ sync2'[m] = 0 =>
              CountersInStage(m, r)'
         /\ r = "borders" /\ sync2'[m] = 0 /\ sync1'[m] = Cardinality(HeldIn(Anywhere, m)') =>
              CountersInStage(m, r)'
         /\ r = "storeChunks" /\ sync2'[m] = 0 /\ sync1'[m] = Parts => CountersInStage(m, r)'
         /\ (/\ r \in {"interior", "diagonal", "ahead"}
             /\ sync1'[m] = Cardinality(FirstTileLeft(m)')
             /\ r = "interior" <=> sync1'[m] # 0
             /\ sync2'[m] = Cardinality(HeldIn(Anywhere, m)')) => CountersInStage(m, r)'
<1>1. /\ FirstTileLeft(m)' = {x \in HeldIn(WaitingPlaces \cup {"first"}, m)' : InFirstTile(x[3], x[4])}
      /\ CountersInStage(m, r)' <=>
           /\ r = "borders" => sync1'[m] = Cardinality(HeldIn(Anywhere, m)')
           /\ r = "storeChunks" => sync1'[m] = Parts
           /\ r \in {"interior", "diagonal", "ahead"} =>
                /\ sync1'[m] = Cardinality(FirstTileLeft(m)')
                /\ r = "interior" <=> sync1'[m] # 0
           /\ sync2'[m] = IF r \in {"interior", "diagonal", "ahead"}
                            THEN Cardinality(HeldIn(Anywhere, m)') ELSE 0
  BY CountersNext
<1> DEFINE F == FirstTileLeft(m)'
           G == {x \in HeldIn(WaitingPlaces \cup {"first"}, m)' : InFirstTile(x[3], x[4])}
           A == Cardinality(HeldIn(Anywhere, m)')
           C == CountersInStage(m, r)'
           a == sync1'[m]
           b == sync2'[m]
           f == Cardinality(F)
<1>2. /\ F = G
      /\ C <=> /\ r = "borders" => a = A
               /\ r = "storeChunks" => a = Parts
               /\ r \in {"interior", "diagonal", "ahead"} => a = f /\ (r = "interior" <=> a # 0)
               /\ b = IF r \in {"interior", "diagonal", "ahead"} THEN A ELSE 0
  BY <1>1
<1> HIDE DEF F, G, A, C, a, b, f
<1>3. /\ F = G
      /\ r \in {"start", "scheduleBorder", "storeFirstTile", "countMatrix", "done"} /\ b = 0 => C
      /\ r = "borders" /\ b = 0 /\ a = A => C
      /\ r = "storeChunks" /\ b = 0 /\ a = Parts => C
      /\ (/\ r \in {"interior", "diagonal", "ahead"}
          /\ a = f
          /\ r = "interior" <=> a # 0
          /\ b = A) => C
  BY <1>2
<1>4. QED
  BY <1>3 DEF F, G, A, C, a, b, f

(* The counters before the step.                                           *)
LEMMA CountersWere ==
  ASSUME NEW m, NEW k, NEW s, StealStage(m, k, s)
  PROVE  /\ s \notin {"interior", "diagonal", "ahead"} => sync2[m] = 0
         /\ s \in {"interior", "diagonal", "ahead"} =>
              /\ sync2[m] = Cardinality(HeldIn(Anywhere, m))
              /\ sync1[m] = Cardinality(FirstTileLeft(m))
              /\ s = "interior" <=> sync1[m] # 0
         /\ s = "borders" => sync1[m] = Cardinality(HeldIn(Anywhere, m))
         /\ s = "storeChunks" => sync1[m] = Parts
BY DEF StealStage, CountersInStage

(* Other labels than the stages'.                                          *)
LEMMA LabelFacts ==
  /\ \A p \in {"run", "pushRest", "interior", "countFirstTile", "countBorder", "diagonal",
               "countChunk"} : p \notin EmptyLabels
  /\ \A p \in {"scheduleBorder", "push", "storeFirstTile", "storeChunks", "countMatrix", "finish",
               "claim"} : p \in EmptyLabels
  /\ \A p \in {"scheduleBorder", "storeFirstTile", "storeChunks", "diagonal", "countMatrix"} :
       p \in StealDrivers /\ p \in StealStages
  /\ \A p \in {"start", "borders", "interior", "ahead", "done"} :
       p \notin StealDrivers /\ p \in StealStages
  /\ PlaceAt("run") = "run" /\ PlaceAt("pushRest") = "run" /\ PlaceAt("interior") = "run"
  /\ PlaceAt("countFirstTile") = "first"
  /\ \A p \in {"countBorder", "diagonal", "countChunk"} : PlaceAt(p) = "count"
<1>1. \A p \in {"run", "pushRest", "interior", "countFirstTile", "countBorder", "diagonal",
                "countChunk"} : p \notin EmptyLabels
  BY DEF EmptyLabels, ClaimLabels
<1>2. \A p \in {"scheduleBorder", "push", "storeFirstTile", "storeChunks", "countMatrix", "finish",
                "claim"} : p \in EmptyLabels
  BY DEF EmptyLabels, ClaimLabels
<1>3. \A p \in {"scheduleBorder", "storeFirstTile", "storeChunks", "diagonal", "countMatrix"} :
        p \in StealDrivers /\ p \in StealStages
  BY DEF StealDrivers, StealStages
<1>4. \A p \in {"start", "borders", "interior", "ahead", "done"} :
        p \notin StealDrivers /\ p \in StealStages
  BY DEF StealDrivers, StealStages
<1>5. /\ PlaceAt("run") = "run" /\ PlaceAt("pushRest") = "run" /\ PlaceAt("interior") = "run"
      /\ PlaceAt("countFirstTile") = "first"
      /\ \A p \in {"countBorder", "diagonal", "countChunk"} : PlaceAt(p) = "count"
  BY DEF PlaceAt
<1>6. QED
  BY <1>1, <1>2, <1>3, <1>4, <1>5

(* The version of a tile of the diagonal, when it is its iteration.        *)
LEMMA DiagonalVersion ==
  ASSUME NEW m, NEW k \in Offsets, NEW s \in StealStages, NEW x \in Cells, x[2] = k, x[4] = k
  PROVE  /\ s = "start" => ReachedVersion(m, k, s, x) = 0 /\ ReachedVersion(m, k, s, x)' = 0
         /\ s # "start" => ReachedVersion(m, k, s, x) = k + 1 /\ ReachedVersion(m, k, s, x)' = k + 1
BY ReachedCases, ReachedCasesNext

-----------------------------------------------------------------------------
(* The steps that move a matrix.                                           *)

(* The diagonal tile of the first iteration is decomposed.                 *)
LEMMA StartEndStages ==
  ASSUME StealBasis, StealStagesInv, NEW t \in Threads, pc[t] = "run", Kind(t) = "start",
         End(t, "scheduleBorder")
  PROVE  StagesStep
<1>1. PICK stage, iteration : StealIn(stage, iteration)
  BY StealPick
<1>2. /\ work[t] # NoWork /\ StealMoves(t, "scheduleBorder", task[t], NoWork, subtasks[t])
      /\ version' = [z \in Cells |-> IF z \in Writes(work[t]) THEN version[z] + 1 ELSE version[z]]
      /\ UNCHANGED <<workers, sync1, sync2, pending>>
  BY StealEnds DEF StealBasis
<1>3. PICK m, k, s, x : AtChunk(t, m, k, s, x) /\ stage[m] = s /\ iteration[m] = k
  BY <1>1, LabelFacts, ThreadAtChunk
<1>4. x[1] = "start" /\ task[t][1] = "start"
  BY <1>3 DEF AtChunk, Kind
<1>5. s = "start" /\ k = 0
  BY <1>3, <1>4, KindStage DEF AtChunk, StealStage
<1>6. x = <<"start", m, 0, 0>> /\ task[t][4] = 0 /\ m \in MatrixIds /\ 0 \in Offsets
  BY <1>3, <1>4, <1>5 DEF AtChunk, IsChunk, Borders
<1>7. StepShift({x}, <<"run", t>>, Place("nowhere", t))
  <2>1. StealThread(t) /\ TypeOK /\ ChunkOnce /\ workers' = workers
    BY <1>2 DEF StealBasis
  <2>2. StealMoves(t, "scheduleBorder", task[t], NoWork, subtasks[t])
    BY <1>2
  <2>3. x = FirstChunk(task[t]) /\ task[t] \in Tasks /\ task[t][1] # "interior"
    BY <1>3, <1>4 DEF AtChunk
  <2>4. "scheduleBorder" \in EmptyLabels
    BY LabelFacts
  <2>5. StepShift({FirstChunk(task[t])}, <<"run", t>>, Place("nowhere", t))
    BY <2>1, <2>2, <2>3, <2>4, ChunkShift
  <2>6. QED
    BY <2>3, <2>5
<1>8. StealStage(m, 0, "start") /\ VersionsIn(m, 0, "start") /\ OfMatrix({x}, m)
  BY <1>3, <1>5 DEF AtChunk
<1>9. HeldIn(Anywhere, m)' = {}
  <2>1. ASSUME NEW y \in HeldIn(Anywhere, m) PROVE y = x
    BY <1>6, <1>8, PlacesAre, StageChunks DEF KindsLeft, IsChunk, Borders
  <2>2. HeldIn(Anywhere, m)' = HeldIn(Anywhere, m) \ {x}
    BY <1>7, <1>8, RunGone
  <2>3. QED
    BY <2>1, <2>2
<1>10. DriverInStage(m, 0, "scheduleBorder")'
  <2>1. DriversOf(m) \subseteq {t}
    BY <1>8, LabelFacts, DriversLess
  <2>2. pc'[t] = "scheduleBorder" /\ task'[t] = task[t]
    BY <1>2, MovesAt DEF StealBasis
  <2>3. Reached(t)' = 0
    BY <1>4, <2>2 DEF Reached, NextOffset, Kind
  <2>4. task[t][2] = m /\ TypeOK
    BY <1>3 DEF AtChunk, StealBasis
  <2>5. QED
    BY <1>2, <2>1, <2>3, <2>4, LabelFacts, DriverStarts
<1>11. CountersInStage(m, "scheduleBorder")'
  BY <1>2, <1>8, CountersWere, CountersAre
<1>12. \A z : z \in Writes(work[t]) <=> z \in Cells /\ z[1] = m /\ z[2] = 0 /\ z[4] = 0
  <2>1. work[t] = StealOperation(t)
    BY <1>2, Zenon DEF StealBasis, StealThread
  <2>2. work[t] = Work("diagonal", m, 0, 0)
    BY <1>3, <1>4, <1>5, <1>6, <2>1 DEF StealOperation, AtChunk, Kind
  <2>3. \A z : z \in Writes(work[t]) <=> z \in TileCells(m, 0, 0)
    BY <2>2 DEF Writes, Work
  <2>4. QED
    BY <1>6, <2>3, InTile
<1>13. ASSUME NEW z \in Cells, z[1] = m
       PROVE  version'[z] = ReachedVersion(m, 0, "scheduleBorder", z)'
  <2>1. version[z] = ReachedVersion(m, 0, "start", z)
    BY <1>8, <1>13 DEF VersionsIn
  <2>2. "start" \in StealStages /\ "scheduleBorder" \in StealStages
    BY LabelFacts
  <2>3. PICK k0 \in Offsets : k0 = 0
    BY <1>6
  <2>4. CASE z[2] = k0 /\ z[4] = k0
    <3>1. ReachedVersion(m, k0, "start", z) = 0
      BY <2>2, <2>4, DiagonalVersion
    <3>2. ReachedVersion(m, k0, "scheduleBorder", z)' = k0 + 1
      BY <2>2, <2>4, DiagonalVersion
    <3>3. version'[z] = version[z] + 1
      BY <1>2, <1>12, <1>13, <2>3, <2>4
    <3>4. QED
      BY <2>1, <2>3, <3>1, <3>2, <3>3
  <2>5. CASE Final(z) <= k0
    BY <2>3, <2>5, Finals, Parameters
  <2>6. CASE Updated(z, k0)
    <3>1. version'[z] = version[z]
      BY <1>2, <1>12, <2>3, <2>6 DEF Updated
    <3>2. /\ OwnerName(z, k0)[1] \in KindsToCome("start")
          /\ OwnerName(z, k0)[1] \in KindsToCome("scheduleBorder")
      BY DEF OwnerName, KindsToCome
    <3>3. Waits(m, k0, "start", z) /\ Waits(m, k0, "scheduleBorder", z)'
      BY <2>2, <3>2, ReachedCasesNext DEF Waits
    <3>4. ReachedVersion(m, k0, "start", z) = k0 /\ ReachedVersion(m, k0, "scheduleBorder", z)' = k0
      BY <2>2, <2>6, <3>3, ReachedCases, ReachedCasesNext
    <3>5. QED
      BY <2>1, <2>3, <3>1, <3>4
  <2>7. QED
    BY <2>2, <2>4, <2>5, <2>6, ReachedCases
<1>14. VersionsNext(m, 0, "scheduleBorder")
  BY <1>13 DEF VersionsNext
<1>15. StealStage(m, 0, "scheduleBorder")'
  BY <1>9, <1>10, <1>11, <1>14, StageNext
<1>16. SameElsewhere(m)
  BY <1>2, <1>12 DEF SameElsewhere
<1>17. PendingStep(stage[m], "scheduleBorder")
  BY <1>2, <1>3, <1>5 DEF PendingStep
<1>18. Steers(t, "scheduleBorder", task[t], m)
  BY <1>3, NotDrivers DEF Steers, AtChunk
<1>19. QED
  BY <1>1, <1>2, <1>6, <1>7, <1>8, <1>15, <1>16, <1>17, <1>18, LabelFacts, MoveStages

(* schedule_border starts an iteration.                                    *)
LEMMA BorderStartStages ==
  ASSUME StealBasis, StealStagesInv, NEW t \in Threads, StoreBorderCount(t)
  PROVE  StagesStep
<1>1. PICK stage, iteration : StealIn(stage, iteration)
  BY StealPick
<1>2. PICK new : new = BorderTasks(Matrix(t), NextOffset(t))
  OBVIOUS
<1>3. /\ pc[t] = "scheduleBorder"
      /\ sync1' = [sync1 EXCEPT ![Matrix(t)] = 2 * BorderChunks(NextOffset(t))]
      /\ UNCHANGED <<workers, sync2, version, pending>>
      /\ \/ StealMoves(t, "claim", NoTask, work[t], new)
         \/ StealMoves(t, "push", task[t], work[t], new)
  BY <1>2, StoreBorderCountEffect DEF StealBasis
<1>4. pc[t] \in StealDrivers /\ pc[t] \in EmptyLabels
  BY <1>3, LabelFacts
<1>5. PICK m, k, s : AtStage(t, m, k, s) /\ stage[m] = s /\ iteration[m] = k
  BY <1>1, <1>4, ThreadAtStage
<1>6. /\ s = "scheduleBorder" /\ Matrix(t) = m /\ NextOffset(t) = k
      /\ m \in MatrixIds /\ k \in Offsets /\ task[t][2] = m
      /\ DriversOf(m) \subseteq {t} /\ HeldIn(Anywhere, m) = {}
      /\ StealStage(m, k, s) /\ VersionsIn(m, k, s)
  BY <1>3, <1>5 DEF AtStage, Reached
<1>7. PICK label, job :
        /\ StealMoves(t, label, job, work[t], new) /\ label \in {"claim", "push"}
  BY <1>3
<1>8. label \in EmptyLabels /\ label \notin StealDrivers
  BY <1>7, LabelFacts, NotDrivers
<1> DEFINE D == BorderNames(m, k)
<1>9. OfMatrix(D, m) /\ \A x \in D : x[2] = m /\ x[3] = k /\ x[1] \in Borders
  BY DEF OfMatrix, BorderNames
<1>10. Holds(new, D)
  BY <1>2, <1>6, BordersHold
<1>11. IsFiniteSet(D) /\ Cardinality(D) = 2 * BorderChunks(k)
  BY <1>6, BorderNamesCount
<1>12. \A x \in Cells : x[1] = m /\ Updated(x, k) /\ OwnerName(x, k)[1] \in Borders =>
         OwnerName(x, k) \in D
  BY <1>6, OwnerNameIs
<1> HIDE DEF D
<1>13. StepShift(D, Nowhere, <<"push", t>>)
  BY <1>3, <1>4, <1>6, <1>7, <1>8, <1>9, <1>10, NoneHeld, PushAllShift DEF StealBasis
<1>14. HeldIn(Anywhere, m)' = D /\ HeldIn(WaitingPlaces, m)' = D
  <2>1. HeldIn(Anywhere, m)' = HeldIn(Anywhere, m) \cup D
    BY <1>9, <1>13, HeldMade
  <2>2. HeldIn(WaitingPlaces, m)' = HeldIn(WaitingPlaces, m) \cup D
    BY <1>9, <1>13, HeldMade
  <2>3. HeldIn(WaitingPlaces, m) = {}
    BY <1>6, PlacesAre, StageChunks
  <2>4. QED
    BY <1>6, <2>1, <2>2, <2>3
<1>15. \A x \in HeldIn(Anywhere, m)' : x[1] \in KindsLeft("borders") /\ x[3] = k
  BY <1>9, <1>14 DEF KindsLeft, Borders
<1>16. DriverInStage(m, k, "borders")'
  BY <1>6, <1>7, <1>8, LabelFacts, DriverStops DEF StealBasis
<1>17. sync1'[m] = 2 * BorderChunks(k) /\ sync2'[m] = 0
  BY <1>3, <1>6, StealTypes, CountersWere DEF StealBasis
<1>18. CountersInStage(m, "borders")'
  BY <1>11, <1>14, <1>17, CountersAre
<1>19. VersionsNext(m, k, "borders")
  <2>1. ASSUME NEW x \in Cells, x[1] = m, Updated(x, k)
        PROVE  Waits(m, k, "borders", x)' <=> Waits(m, k, "scheduleBorder", x)
    <3>1. OwnerName(x, k)[1] \in Borders \/ OwnerName(x, k)[1] = "interior"
      BY DEF OwnerName, Borders
    <3>2. OwnerName(x, k)[1] \in KindsToCome("scheduleBorder")
      BY <3>1 DEF KindsToCome, Borders
    <3>3. Waits(m, k, "scheduleBorder", x)
      BY <3>2 DEF Waits
    <3>4. OwnerName(x, k)[1] \in KindsToCome("borders") \/ OwnerName(x, k) \in HeldIn(WaitingPlaces, m)'
      BY <1>12, <1>14, <2>1, <3>1 DEF KindsToCome
    <3>5. Waits(m, k, "borders", x)'
      BY <1>6, <3>4, LabelFacts, ReachedCasesNext
    <3>6. QED
      BY <3>3, <3>5
  <2>2. version' = version /\ VersionsIn(m, k, "scheduleBorder")
    BY <1>3, <1>6
  <2>3. "borders" \in StealStages /\ "scheduleBorder" \in StealStages
    BY LabelFacts
  <2>4. QED
    BY <1>6, <2>1, <2>2, <2>3, SameVersions
<1>20. StealStage(m, k, "borders")'
  BY <1>15, <1>16, <1>18, <1>19, StageNext
<1>21. SameElsewhere(m)
  BY <1>3, <1>6, StealTypes DEF StealBasis, SameElsewhere
<1>22. PendingStep(stage[m], "borders") /\ Steers(t, label, job, m)
  BY <1>3, <1>5, <1>6, <1>8 DEF PendingStep, Steers
<1>23. QED
  BY <1>1, <1>6, <1>7, <1>9, <1>13, <1>20, <1>21, <1>22, LabelFacts, MoveStages

(* The last thread of the borders goes on.                                 *)
LEMMA FirstTileStages ==
  ASSUME StealBasis, StealStagesInv, NEW t \in Threads, StoreFirstTile(t)
  PROVE  StagesStep
<1>1. PICK stage, iteration : StealIn(stage, iteration)
  BY StealPick
<1>2. /\ pc[t] = "storeFirstTile" /\ sync1' = [sync1 EXCEPT ![Matrix(t)] = Parts]
      /\ StealMoves(t, "storeChunks", task[t], work[t], subtasks[t])
      /\ UNCHANGED <<workers, sync2, version, pending>>
  BY StoreFirstTileEffect DEF StealBasis
<1>3. pc[t] \in StealDrivers /\ pc[t] \in EmptyLabels
  BY <1>2, LabelFacts
<1>4. PICK m, k, s : AtStage(t, m, k, s) /\ stage[m] = s /\ iteration[m] = k
  BY <1>1, <1>3, ThreadAtStage
<1>5. /\ s = "storeFirstTile" /\ Matrix(t) = m /\ Offset(t) = k
      /\ m \in MatrixIds /\ k \in Offsets /\ task[t][2] = m
      /\ DriversOf(m) \subseteq {t} /\ HeldIn(Anywhere, m) = {}
      /\ StealStage(m, k, s) /\ VersionsIn(m, k, s)
  BY <1>2, <1>4 DEF AtStage, Reached
<1>6. StepShift({}, <<"run", t>>, Nowhere)
  BY <1>2, <1>3, LabelFacts, EmptyShift DEF StealBasis
<1>7. /\ HeldIn(WaitingPlaces, m)' = HeldIn(WaitingPlaces, m)
      /\ HeldIn(Anywhere, m)' = {}
  BY <1>5, <1>6, NoneMoved
<1>8. DriverInStage(m, k, "storeChunks")'
  BY <1>2, <1>5, MovesAt, LabelFacts, DriverStarts DEF StealBasis, Reached, Offset
<1>9. sync1'[m] = Parts /\ sync2'[m] = 0 /\ \A n \in MatrixIds \ {m} : sync1'[n] = sync1[n]
  BY <1>2, <1>5, StealTypes, CountersWere DEF StealBasis
<1>10. CountersInStage(m, "storeChunks")'
  BY <1>9, CountersAre
<1>11. VersionsNext(m, k, "storeChunks")
  <2>1. "storeFirstTile" \in StealStages /\ "storeChunks" \in StealStages
    BY LabelFacts
  <2>2. KindsToCome("storeFirstTile") = KindsToCome("storeChunks")
    BY DEF KindsToCome
  <2>3. ASSUME NEW x \in Cells, x[1] = m, Updated(x, k)
        PROVE  Waits(m, k, "storeChunks", x)' <=> Waits(m, k, "storeFirstTile", x)
    BY <1>5, <1>7, <2>1, <2>2, ReachedCasesNext DEF Waits
  <2>4. version' = version /\ VersionsIn(m, k, "storeFirstTile")
    BY <1>2, <1>5
  <2>5. QED
    BY <1>5, <2>1, <2>3, <2>4, SameVersions
<1>12. StealStage(m, k, "storeChunks")'
  BY <1>5, <1>7, <1>8, <1>10, <1>11, StageNext DEF StealStage
<1>13. SameElsewhere(m) /\ OfMatrix({}, m)
  BY <1>2, <1>9 DEF SameElsewhere, OfMatrix
<1>14. PendingStep(stage[m], "storeChunks") /\ Steers(t, "storeChunks", task[t], m)
  BY <1>2, <1>4, <1>5 DEF PendingStep, Steers
<1>15. QED
  BY <1>1, <1>2, <1>5, <1>6, <1>12, <1>13, <1>14, LabelFacts, MoveStages

(* schedule_interior makes the chunks of the interior.                     *)
LEMMA InteriorStartStages ==
  ASSUME StealBasis, StealStagesInv, NEW t \in Threads, StoreChunks(t)
  PROVE  StagesStep
<1>1. PICK stage, iteration : StealIn(stage, iteration)
  BY StealPick
<1>2. PICK new : new = Quarters(Matrix(t), Offset(t))
  OBVIOUS
<1>3. /\ pc[t] = "storeChunks"
      /\ sync2' = [sync2 EXCEPT ![Matrix(t)] = InteriorChunks(Offset(t))]
      /\ UNCHANGED <<workers, sync1, version, pending>>
      /\ \/ StealMoves(t, "claim", NoTask, work[t], new)
         \/ StealMoves(t, "push", task[t], work[t], new)
  BY <1>2, StoreChunksEffect DEF StealBasis
<1>4. pc[t] \in StealDrivers /\ pc[t] \in EmptyLabels
  BY <1>3, LabelFacts
<1>5. PICK m, k, s : AtStage(t, m, k, s) /\ stage[m] = s /\ iteration[m] = k
  BY <1>1, <1>4, ThreadAtStage
<1>6. /\ s = "storeChunks" /\ Matrix(t) = m /\ Offset(t) = k
      /\ m \in MatrixIds /\ k \in Offsets /\ task[t][2] = m
      /\ DriversOf(m) \subseteq {t} /\ HeldIn(Anywhere, m) = {}
      /\ StealStage(m, k, s) /\ VersionsIn(m, k, s)
  BY <1>3, <1>5 DEF AtStage, Reached
<1>7. k + 1 < Tiles
  BY <1>6 DEF StealStage
<1>8. PICK label, job :
        /\ StealMoves(t, label, job, work[t], new) /\ label \in {"claim", "push"}
  BY <1>3
<1>9. label \in EmptyLabels /\ label \notin StealDrivers
  BY <1>8, LabelFacts, NotDrivers
<1> DEFINE D == Interior(m, k, 0, InteriorChunks(k))
           F == {x \in D : InFirstTile(x[3], x[4])}
<1>10. OfMatrix(D, m) /\ \A x \in D : x[2] = m /\ x[3] = k /\ x[1] = "interior"
  BY DEF OfMatrix, Interior
<1>11. Holds(new, D)
  BY <1>2, <1>6, QuartersHold
<1>12. Cardinality(D) = InteriorChunks(k) /\ Cardinality(F) = Parts
  BY <1>6, <1>7, InteriorCount
<1>13. \A x \in Cells : x[1] = m /\ Updated(x, k) =>
         (OwnerName(x, k)[1] = "interior" <=> OwnerName(x, k) \in D)
  <2>1. ASSUME NEW x \in Cells, x[1] = m, Updated(x, k)
        PROVE  OwnerName(x, k)[1] = "interior" <=> OwnerName(x, k) \in D
    BY <1>6, <1>10, <2>1, OwnerNameIs DEF Borders
  <2>2. QED
    BY <2>1
<1> HIDE DEF D
<1>14. StepShift(D, Nowhere, <<"push", t>>)
  BY <1>3, <1>4, <1>6, <1>8, <1>9, <1>10, <1>11, NoneHeld, PushAllShift DEF StealBasis
<1>15. /\ HeldIn(Anywhere, m)' = D /\ HeldIn(WaitingPlaces, m)' = D
       /\ HeldIn(WaitingPlaces \cup {"first"}, m)' = D
       /\ HeldIn(WaitingPlaces, m) = {}
  <2>1. HeldIn(Anywhere, m)' = HeldIn(Anywhere, m) \cup D
    BY <1>10, <1>14, HeldMade
  <2>2. HeldIn(WaitingPlaces, m)' = HeldIn(WaitingPlaces, m) \cup D
    BY <1>10, <1>14, HeldMade
  <2>3. HeldIn(WaitingPlaces \cup {"first"}, m)' = HeldIn(WaitingPlaces \cup {"first"}, m) \cup D
    BY <1>10, <1>14, HeldMade
  <2>4. HeldIn(WaitingPlaces, m) = {}
    BY <1>6, PlacesAre, StageChunks
  <2>5. HeldIn(WaitingPlaces \cup {"first"}, m) = {}
    BY <1>6, PlacesAre, StageChunks
  <2>6. QED
    BY <1>6, <2>1, <2>2, <2>3, <2>4, <2>5
<1>16. \A x \in HeldIn(Anywhere, m)' : x[1] \in KindsLeft("interior") /\ x[3] = k
  BY <1>10, <1>15 DEF KindsLeft
<1>17. DriverInStage(m, k, "interior")'
  BY <1>6, <1>8, <1>9, LabelFacts, DriverStops DEF StealBasis
<1>18. sync1'[m] = Parts /\ sync2'[m] = InteriorChunks(k)
         /\ \A n \in MatrixIds \ {m} : sync2'[n] = sync2[n]
  BY <1>3, <1>6, StealTypes, CountersWere DEF StealBasis
<1>19. CountersInStage(m, "interior")'
  BY <1>12, <1>15, <1>18, CountersAre, Parameters
<1>20. VersionsNext(m, k, "interior")
  <2>1. ASSUME NEW x \in Cells, x[1] = m, Updated(x, k)
        PROVE  Waits(m, k, "interior", x)' <=> Waits(m, k, "storeChunks", x)
    <3>1. Waits(m, k, "storeChunks", x) <=> OwnerName(x, k)[1] = "interior"
      BY <1>15 DEF KindsToCome, Waits
    <3>2. Waits(m, k, "interior", x)' <=> OwnerName(x, k) \in D
      BY <1>6, <1>15, LabelFacts, ReachedCasesNext DEF KindsToCome
    <3>3. QED
      BY <1>13, <2>1, <3>1, <3>2
  <2>2. version' = version /\ VersionsIn(m, k, "storeChunks")
    BY <1>3, <1>6
  <2>3. "interior" \in StealStages /\ "storeChunks" \in StealStages
    BY LabelFacts
  <2>4. QED
    BY <1>6, <2>1, <2>2, <2>3, SameVersions
<1>21. StealStage(m, k, "interior")'
  BY <1>7, <1>16, <1>17, <1>19, <1>20, StageNext
<1>22. SameElsewhere(m)
  BY <1>3, <1>18 DEF SameElsewhere
<1>23. PendingStep(stage[m], "interior") /\ Steers(t, label, job, m)
  BY <1>3, <1>5, <1>6, <1>9 DEF PendingStep, Steers
<1>24. QED
  BY <1>1, <1>6, <1>8, <1>10, <1>14, <1>21, <1>22, <1>23, LabelFacts, MoveStages

(* The chunk of a thread that has executed it.                             *)
LEMMA EndedChunk ==
  ASSUME StealBasis, NEW t \in Threads, NEW m, NEW k, NEW s, NEW x, AtChunk(t, m, k, s, x),
         (pc[t] = "run" /\ x[1] \in Borders) \/ pc[t] = "interior", work[t] # NoWork,
         version' = [z \in Cells |-> IF z \in Writes(work[t]) THEN version[z] + 1 ELSE version[z]],
         HeldIn(WaitingPlaces, m)' = HeldIn(WaitingPlaces, m) \ {x},
         s = "ahead" => ~InFirstTile(x[3], x[4])
  PROVE  /\ VersionsNext(m, k, s)
         /\ \A z \in Cells : z[1] # m => version'[z] = version[z]
<1>1. /\ x[1] = task[t][1] /\ x[2] = m /\ x[3] = k /\ x[4] = task[t][4] /\ IsChunk(x)
      /\ Matrix(t) = m /\ Offset(t) = k /\ s \in StealStages /\ x[1] \in KindsLeft(s)
      /\ x[1] \in KindsAt(pc[t]) /\ VersionsIn(m, k, s) /\ x \in Held(<<PlaceAt(pc[t]), t>>)
  BY DEF AtChunk
<1>2. x[1] # "start" /\ (pc[t] = "interior" => x[1] = "interior")
  BY <1>1 DEF KindsAt, Borders
<1>3. work[t] = NamedWork(x)
  <2>1. work[t] = StealOperation(t)
    BY Zenon DEF StealBasis, StealThread
  <2>2. CASE pc[t] = "interior"
    BY <1>1, <1>2, <2>1, <2>2 DEF StealOperation, NamedWork
  <2>3. CASE pc[t] = "run"
    BY <1>1, <1>2, <2>1, <2>3 DEF StealOperation, NamedWork, Kind
  <2>4. QED
    BY <2>2, <2>3
<1>4. x \in HeldIn(WaitingPlaces, m)
  <2>1. PICK h : h = <<"run", t>> /\ h[1] = "run"
    BY PlacesAre
  <2>2. h \in Holders /\ h[1] \in WaitingPlaces
    BY <2>1, PlacesAre, HeldAt
  <2>3. x \in Held(h)
    BY <1>1, <2>1, LabelFacts
  <2>4. QED
    BY <1>1, <2>2, <2>3, HeldInIs
<1>5. s # "start"
  BY <1>1, <1>2 DEF KindsLeft
<1>6. VersionsNext(x[2], x[3], s)
  BY <1>1, <1>2, <1>3, <1>4, <1>5, NamedVersions
<1>7. ASSUME NEW z \in Cells, z[1] # m PROVE version'[z] = version[z]
  <2>1. z \notin Writes(work[t])
    BY <1>1, <1>2, <1>3, <1>7, ChunkCells, OwnerNameIs DEF IsChunk
  <2>2. QED
    BY <2>1
<1>8. QED
  BY <1>1, <1>6, <1>7

(* A chunk of a border is executed.                                        *)
LEMMA BorderEndStages ==
  ASSUME StealBasis, StealStagesInv, NEW t \in Threads, pc[t] = "run", Kind(t) \in Borders,
         End(t, "countBorder")
  PROVE  StagesStep
<1>1. PICK stage, iteration : StealIn(stage, iteration)
  BY StealPick
<1>2. /\ work[t] # NoWork /\ StealMoves(t, "countBorder", task[t], NoWork, subtasks[t])
      /\ version' = [z \in Cells |-> IF z \in Writes(work[t]) THEN version[z] + 1 ELSE version[z]]
      /\ UNCHANGED <<workers, sync1, sync2, pending>>
  BY StealEnds DEF StealBasis
<1>3. pc[t] \notin EmptyLabels /\ pc[t] \notin StealDrivers /\ "countBorder" \notin StealDrivers
  BY LabelFacts, NotDrivers
<1>4. PICK m, k, s, x : AtChunk(t, m, k, s, x) /\ stage[m] = s /\ iteration[m] = k
  BY <1>1, <1>3, ThreadAtChunk
<1>5. /\ m \in MatrixIds /\ k \in Offsets /\ s \in StealStages /\ StealStage(m, k, s)
      /\ x = FirstChunk(task[t]) /\ task[t] \in Tasks /\ task[t][1] = x[1] /\ x[1] \in Borders
      /\ x[1] \in KindsLeft(s) /\ OfMatrix({x}, m)
  BY <1>4 DEF AtChunk, Kind
<1>6. s = "borders"
  BY <1>5, KindStage
<1>7. StepShift({x}, <<"run", t>>, Place("count", t))
  <2>1. StealThread(t) /\ TypeOK /\ ChunkOnce /\ workers' = workers
    BY <1>2 DEF StealBasis
  <2>2. StealMoves(t, "countBorder", task[t], NoWork, subtasks[t])
    BY <1>2
  <2>3. task[t][1] # "interior"
    BY <1>5 DEF Borders
  <2>4. StepShift({FirstChunk(task[t])}, <<"run", t>>, Place("count", t))
    BY <1>5, <2>1, <2>2, <2>3, ChunkShift
  <2>5. QED
    BY <1>5, <2>4
<1>8. /\ HeldIn(WaitingPlaces, m)' = HeldIn(WaitingPlaces, m) \ {x}
      /\ HeldIn(Anywhere, m)' = HeldIn(Anywhere, m)
  BY <1>5, <1>7, RunCounted
<1>9. VersionsNext(m, k, "borders") /\ \A z \in Cells : z[1] # m => version'[z] = version[z]
  BY <1>2, <1>4, <1>5, <1>6, <1>8, EndedChunk
<1>10. DriverInStage(m, k, "borders")'
  BY <1>2, <1>3, <1>5, <1>6, DriverStays DEF StealBasis
<1>11. CountersInStage(m, "borders")'
  BY <1>2, <1>5, <1>6, <1>8, CountersWere, CountersAre
<1>12. StealStage(m, k, "borders")'
  BY <1>5, <1>6, <1>8, <1>9, <1>10, <1>11, StageNext DEF StealStage
<1>13. SameElsewhere(m)
  BY <1>2, <1>9 DEF SameElsewhere
<1>14. PendingStep(stage[m], "borders") /\ Steers(t, "countBorder", task[t], m)
  BY <1>2, <1>3, <1>4, <1>6 DEF PendingStep, Steers
<1>15. QED
  BY <1>1, <1>2, <1>5, <1>7, <1>12, <1>13, <1>14, LabelFacts, MoveStages

(* A chunk of the interior that is executed stays a chunk of its stage.    *)
LEMMA InteriorEndStages ==
  ASSUME StealBasis, StealStagesInv, NEW t \in Threads, pc[t] = "interior", NEW label,
         label = IF InFirstTile(Offset(t), task[t][4]) THEN "countFirstTile" ELSE "countChunk",
         End(t, label)
  PROVE  StagesStep
<1>1. PICK stage, iteration : StealIn(stage, iteration)
  BY StealPick
<1>2. /\ work[t] # NoWork /\ StealMoves(t, label, task[t], NoWork, subtasks[t])
      /\ version' = [z \in Cells |-> IF z \in Writes(work[t]) THEN version[z] + 1 ELSE version[z]]
      /\ UNCHANGED <<workers, sync1, sync2, pending>>
  BY StealEnds DEF StealBasis
<1>3. /\ pc[t] \notin EmptyLabels /\ pc[t] \notin StealDrivers /\ label \notin StealDrivers
      /\ label \in {"countFirstTile", "countChunk"}
  BY LabelFacts, NotDrivers
<1>4. PICK m, k, s, x : AtChunk(t, m, k, s, x) /\ stage[m] = s /\ iteration[m] = k
  BY <1>1, <1>3, ThreadAtChunk
<1>5. /\ m \in MatrixIds /\ k \in Offsets /\ s \in StealStages /\ StealStage(m, k, s)
      /\ x = FirstChunk(task[t]) /\ task[t] \in Tasks /\ task[t][1] = x[1]
      /\ x[1] \in KindsLeft(s) /\ OfMatrix({x}, m) /\ x[3] = k /\ x[4] = task[t][4] /\ Offset(t) = k
      /\ x \in Held(<<PlaceAt(pc[t]), t>>) /\ x[2] = m /\ x[1] \in KindsAt(pc[t])
  BY <1>4 DEF AtChunk
<1>6. x[1] = "interior" /\ s \in {"interior", "diagonal", "ahead"}
  BY <1>5, KindStage DEF KindsAt
<1>7. \/ label = "countFirstTile" /\ InFirstTile(x[3], x[4])
      \/ label = "countChunk" /\ ~InFirstTile(x[3], x[4])
  BY <1>5
<1>8. PICK to : \/ label = "countFirstTile" /\ to = "first" /\ InFirstTile(x[3], x[4])
                \/ label = "countChunk" /\ to = "count" /\ ~InFirstTile(x[3], x[4])
  BY <1>7
<1>9. StepShift({x}, <<"run", t>>, Place(to, t))
  <2>1. StealThread(t) /\ TypeOK /\ ChunkOnce /\ workers' = workers
    BY <1>2 DEF StealBasis
  <2>2. StealMoves(t, label, task[t], NoWork, subtasks[t])
    BY <1>2
  <2>3. to \in {"nowhere", "first", "count"} /\ "run" # to /\ pc[t] # "run"
    BY <1>8
  <2>4. \/ label = "countFirstTile" /\ task[t] = task[t] /\ to = "first"
        \/ label \in {"countBorder", "diagonal", "countChunk"} /\ task[t] = task[t] /\ to = "count"
    BY <1>8
  <2>5. StepShift({FirstChunk(task[t])}, <<"run", t>>, Place(to, t))
    BY <1>5, <2>1, <2>2, <2>3, <2>4, ChunkShift
  <2>6. QED
    BY <1>5, <2>5
<1>10. /\ HeldIn(WaitingPlaces, m)' = HeldIn(WaitingPlaces, m) \ {x}
       /\ HeldIn(Anywhere, m)' = HeldIn(Anywhere, m)
       /\ FirstTileLeft(m)' = FirstTileLeft(m)
       /\ InFirstTile(x[3], x[4]) => x \in FirstTileLeft(m)
  <2>1. CASE to = "first"
    <3>1. StepShift({x}, <<"run", t>>, Place("first", t))
      BY <1>9, <2>1
    <3>2. /\ HeldIn(WaitingPlaces, m)' = HeldIn(WaitingPlaces, m) \ {x}
          /\ HeldIn(WaitingPlaces \cup {"first"}, m)' = HeldIn(WaitingPlaces \cup {"first"}, m)
          /\ HeldIn(Anywhere, m)' = HeldIn(Anywhere, m)
      BY <1>5, <3>1, RunFirst
    <3>3. FirstTileLeft(m)' = FirstTileLeft(m)
      BY <3>2, CountersAre DEF FirstTileLeft
    <3>4. x \in HeldIn(WaitingPlaces \cup {"first"}, m)
      <4>1. PICK h : h = <<"run", t>> /\ h[1] = "run"
        BY PlacesAre
      <4>2. h \in Holders /\ h[1] \in WaitingPlaces \cup {"first"}
        BY <4>1, PlacesAre, HeldAt
      <4>3. x \in Held(h)
        BY <1>5, <4>1, LabelFacts
      <4>4. QED
        BY <1>5, <4>2, <4>3, HeldInIs
    <3>5. QED
      BY <3>2, <3>3, <3>4 DEF FirstTileLeft
  <2>2. CASE to = "count"
    <3>1. StepShift({x}, <<"run", t>>, Place("count", t))
      BY <1>9, <2>2
    <3>2. /\ HeldIn(WaitingPlaces, m)' = HeldIn(WaitingPlaces, m) \ {x}
          /\ HeldIn(WaitingPlaces \cup {"first"}, m)' = HeldIn(WaitingPlaces \cup {"first"}, m) \ {x}
          /\ HeldIn(Anywhere, m)' = HeldIn(Anywhere, m)
      BY <1>5, <3>1, RunCounted
    <3>3. ~InFirstTile(x[3], x[4])
      BY <1>8, <2>2
    <3>4. FirstTileLeft(m)' = FirstTileLeft(m)
      BY <3>2, <3>3, CountersAre DEF FirstTileLeft
    <3>5. QED
      BY <3>2, <3>3, <3>4
  <2>3. QED
    BY <1>8, <2>1, <2>2
<1>11. /\ sync2[m] = Cardinality(HeldIn(Anywhere, m)) /\ sync1[m] = Cardinality(FirstTileLeft(m))
       /\ s = "interior" <=> sync1[m] # 0
  BY <1>5, <1>6, CountersWere
<1>12. s = "ahead" => ~InFirstTile(x[3], x[4])
  <2>1. SUFFICES ASSUME InFirstTile(x[3], x[4]), s = "ahead" PROVE FALSE
    OBVIOUS
  <2>2. x \in FirstTileLeft(m)
    BY <1>10, <2>1
  <2>3. Cardinality(FirstTileLeft(m)) # 0
    <3>1. \A y \in FirstTileLeft(m) : IsChunk(y) /\ y[2] = m /\ y[3] = k
      BY <1>5, PlacesAre, StageChunks DEF FirstTileLeft
    <3>2. QED
      BY <1>5, <2>2, <3>1, ChunksFinite
  <2>4. QED
    BY <1>11, <2>1, <2>3
<1>13. VersionsNext(m, k, s) /\ \A z \in Cells : z[1] # m => version'[z] = version[z]
  BY <1>2, <1>4, <1>10, <1>12, EndedChunk
<1>14. DriverInStage(m, k, s)'
  BY <1>2, <1>3, <1>5, DriverStays DEF StealBasis
<1>15. CountersInStage(m, s)'
  BY <1>2, <1>6, <1>10, <1>11, CountersAre
<1>16. StealStage(m, k, s)'
  BY <1>5, <1>6, <1>10, <1>13, <1>14, <1>15, StageNext DEF StealStage
<1>17. SameElsewhere(m)
  BY <1>2, <1>13 DEF SameElsewhere
<1>18. PendingStep(stage[m], s) /\ Steers(t, label, task[t], m)
  BY <1>2, <1>3, <1>4 DEF PendingStep, Steers
<1>19. QED
  BY <1>1, <1>2, <1>5, <1>9, <1>16, <1>17, <1>18, MoveStages

(* A chunk of a border is counted: the last thread goes on.                *)
LEMMA BorderCountedStages ==
  ASSUME StealBasis, StealStagesInv, NEW t \in Threads, CountBorder(t)
  PROVE  StagesStep /\ sync1[Matrix(t)] >= 1 /\ Matrix(t) \in MatrixIds
<1>1. PICK stage, iteration : StealIn(stage, iteration)
  BY StealPick
<1>2. /\ pc[t] = "countBorder"
      /\ sync1' = [sync1 EXCEPT ![Matrix(t)] = sync1[Matrix(t)] - 1]
      /\ IF sync1[Matrix(t)] = 1
           THEN StealMoves(t, "storeFirstTile", task[t], work[t], subtasks[t])
           ELSE StealMoves(t, "claim", NoTask, work[t], subtasks[t])
      /\ UNCHANGED <<workers, sync2, version, pending>>
  BY CountBorderEffect DEF StealBasis
<1>3. pc[t] \notin EmptyLabels /\ pc[t] \notin StealDrivers
  BY <1>2, LabelFacts, NotDrivers
<1>4. PICK m, k, s, x : AtChunk(t, m, k, s, x) /\ stage[m] = s /\ iteration[m] = k
  BY <1>1, <1>3, ThreadAtChunk
<1>5. /\ m \in MatrixIds /\ k \in Offsets /\ s \in StealStages /\ StealStage(m, k, s)
      /\ x = FirstChunk(task[t]) /\ task[t] \in Tasks /\ task[t][1] = x[1] /\ task[t][2] = m
      /\ x[1] \in KindsLeft(s) /\ OfMatrix({x}, m) /\ Offset(t) = k /\ Matrix(t) = m
      /\ x \in HeldIn(Anywhere, m) /\ x[1] \in KindsAt(pc[t]) /\ VersionsIn(m, k, s)
      /\ IsChunk(x) /\ x[3] = k
  BY <1>4 DEF AtChunk
<1>6. x[1] \in Borders /\ s = "borders"
  BY <1>2, <1>5, KindStage DEF KindsAt, Borders
<1>7. PICK label, job, r :
        /\ StealMoves(t, label, job, work[t], subtasks[t])
        /\ \/ sync1[m] = 1 /\ label = "storeFirstTile" /\ job = task[t] /\ r = "storeFirstTile"
           \/ sync1[m] # 1 /\ label = "claim" /\ r = "borders"
  BY <1>2, <1>5
<1>8. label \in EmptyLabels
  BY <1>7, LabelFacts
<1>9. StepShift({x}, <<"count", t>>, Place("nowhere", t))
  BY <1>2, <1>5, <1>7, <1>8, ChunkShift DEF StealBasis
<1>10. /\ HeldIn(WaitingPlaces, m)' = HeldIn(WaitingPlaces, m)
       /\ HeldIn(Anywhere, m)' = HeldIn(Anywhere, m) \ {x}
  BY <1>5, <1>9, CountGone
<1> DEFINE A == HeldIn(Anywhere, m)
           B == HeldIn(Anywhere, m)'
<1>11. /\ sync1[m] = Cardinality(A) /\ sync2[m] = 0 /\ Cardinality(A) \in Nat
       /\ Cardinality(A) # 0 /\ Cardinality(A \ {x}) = Cardinality(A) - 1 /\ B = A \ {x}
  BY <1>5, <1>6, <1>10, CountersWere, StageChunks
<1>12. /\ sync1'[m] = Cardinality(B) /\ sync2'[m] = 0
       /\ \A n \in MatrixIds \ {m} : sync1'[n] = sync1[n]
       /\ r = "storeFirstTile" => Cardinality(B) = 0
  <2>1. sync1' = [sync1 EXCEPT ![m] = sync1[m] - 1] /\ sync1 \in [MatrixIds -> Nat]
    BY <1>2, <1>5, StealTypes DEF StealBasis
  <2> HIDE DEF A, B
  <2>2. sync1'[m] = sync1[m] - 1 /\ \A n \in MatrixIds \ {m} : sync1'[n] = sync1[n]
    BY <1>5, <2>1
  <2>3. QED
    BY <1>2, <1>7, <1>11, <2>2
<1>13. r = "storeFirstTile" => B = {}
  BY <1>5, <1>10, <1>12, PlacesAre, StageChunks, ChunksFinite
<1>14. DriverInStage(m, k, r)'
  <2>1. DriversOf(m) \subseteq {t}
    BY <1>5, <1>6, LabelFacts, DriversLess
  <2>2. CASE r = "borders"
    BY <1>7, <2>1, <2>2, NotDrivers, LabelFacts, DriverStops DEF StealBasis
  <2>3. CASE r = "storeFirstTile"
    <3>1. StealMoves(t, "storeFirstTile", task[t], work[t], subtasks[t])
      BY <1>7, <2>3
    <3>2. pc'[t] = "storeFirstTile" /\ task'[t] = task[t]
      BY <3>1, MovesAt DEF StealBasis
    <3>3. Reached(t)' = k
      BY <1>5, <3>2 DEF Reached, Offset
    <3>4. DriverInStage(m, k, "storeFirstTile")'
      BY <1>5, <2>1, <3>1, <3>3, LabelFacts, DriverStarts DEF StealBasis
    <3>5. QED
      BY <2>3, <3>4
  <2>4. QED
    BY <1>7, <2>2, <2>3
<1>15. CountersInStage(m, r)'
  BY <1>7, <1>12, CountersAre
<1>16. VersionsNext(m, k, r)
  <2>1. r \in StealStages /\ s \in StealStages /\ KindsToCome(r) = KindsToCome(s)
    BY <1>6, <1>7, LabelFacts DEF KindsToCome
  <2>2. ASSUME NEW z \in Cells, z[1] = m, Updated(z, k)
        PROVE  Waits(m, k, r, z)' <=> Waits(m, k, s, z)
    BY <1>5, <1>10, <2>1, ReachedCasesNext DEF Waits
  <2>3. version' = version /\ (s = "start" <=> r = "start") /\ (s = "ahead" <=> r = "ahead")
    BY <1>2, <1>6, <1>7
  <2>4. QED
    BY <1>5, <2>1, <2>2, <2>3, SameVersions
<1>17. StealStage(m, k, r)'
  <2>1. k + 1 < Tiles
    BY <1>5, <1>6 DEF IsChunk, Borders
  <2>2. \A y \in HeldIn(Anywhere, m)' : y[1] \in KindsLeft(r) /\ y[3] = k
    <3>1. CASE r = "borders"
      BY <1>5, <1>6, <1>10, <3>1 DEF StealStage
    <3>2. CASE r = "storeFirstTile"
      BY <1>13, <3>2
    <3>3. QED
      BY <1>7, <3>1, <3>2
  <2>3. r # "start" /\ r \notin {"countMatrix", "done"}
    BY <1>7
  <2>4. QED
    BY <1>14, <1>15, <1>16, <2>1, <2>2, <2>3, StageNext
<1>18. SameElsewhere(m)
  BY <1>2, <1>12 DEF SameElsewhere
<1>19. PendingStep(stage[m], r) /\ Steers(t, label, job, m) /\ r \in StealStages
  BY <1>2, <1>3, <1>4, <1>5, <1>6, <1>7, NotDrivers, LabelFacts DEF PendingStep, Steers
<1>20. StagesStep
  BY <1>1, <1>5, <1>7, <1>9, <1>17, <1>18, <1>19, MoveStages
<1>21. QED
  BY <1>5, <1>11, <1>20

(* A chunk of the first tile is counted for it: the last thread goes on.   *)
LEMMA FirstCountedStages ==
  ASSUME StealBasis, StealStagesInv, NEW t \in Threads, CountFirstTile(t)
  PROVE  StagesStep /\ sync1[Matrix(t)] >= 1 /\ Matrix(t) \in MatrixIds
<1>1. PICK stage, iteration : StealIn(stage, iteration)
  BY StealPick
<1>2. PICK label : label = IF sync1[Matrix(t)] = 1 THEN "diagonal" ELSE "countChunk"
  OBVIOUS
<1>3. /\ pc[t] = "countFirstTile"
      /\ sync1' = [sync1 EXCEPT ![Matrix(t)] = sync1[Matrix(t)] - 1]
      /\ StealMoves(t, label, task[t], work[t], subtasks[t])
      /\ UNCHANGED <<workers, sync2, version, pending>>
  BY <1>2, CountFirstTileEffect DEF StealBasis
<1>4. pc[t] \notin EmptyLabels /\ pc[t] \notin StealDrivers
  BY <1>3, LabelFacts, NotDrivers
<1>5. PICK m, k, s, x : AtChunk(t, m, k, s, x) /\ stage[m] = s /\ iteration[m] = k
  BY <1>1, <1>4, ThreadAtChunk
<1>6. /\ m \in MatrixIds /\ k \in Offsets /\ s \in StealStages /\ StealStage(m, k, s)
      /\ x = FirstChunk(task[t]) /\ task[t] \in Tasks /\ task[t][1] = x[1] /\ task[t][2] = m
      /\ x[1] \in KindsLeft(s) /\ OfMatrix({x}, m) /\ Offset(t) = k /\ Matrix(t) = m
      /\ x \in HeldIn(Anywhere, m) /\ x[1] \in KindsAt(pc[t]) /\ VersionsIn(m, k, s)
      /\ x[2] = m /\ x[3] = k /\ x[4] = task[t][4] /\ x \in Held(<<PlaceAt(pc[t]), t>>)
  BY <1>5 DEF AtChunk
<1>7. s \in {"interior", "diagonal", "ahead"}
  BY <1>3, <1>6, KindStage DEF KindsAt
<1>8. StepShift({x}, <<"first", t>>, Place("count", t))
  BY <1>2, <1>3, <1>6, ChunkShift DEF StealBasis
<1>9. /\ HeldIn(WaitingPlaces, m)' = HeldIn(WaitingPlaces, m)
      /\ HeldIn(WaitingPlaces \cup {"first"}, m)' = HeldIn(WaitingPlaces \cup {"first"}, m) \ {x}
      /\ HeldIn(Anywhere, m)' = HeldIn(Anywhere, m)
  BY <1>6, <1>8, FirstCounted
<1> DEFINE F == FirstTileLeft(m)
           G == FirstTileLeft(m)'
<1>10. G = F \ {x}
  BY <1>9, CountersAre DEF FirstTileLeft
<1>11. x \in F
  <2>1. InFirstTile(x[3], x[4])
    BY <1>3, <1>6 DEF StealBasis, StealThread
  <2>2. PICK h : h = <<"first", t>> /\ h[1] = "first"
    BY PlacesAre
  <2>3. h \in Holders /\ h[1] \in WaitingPlaces \cup {"first"}
    BY <2>2, PlacesAre, HeldAt
  <2>4. x \in Held(h)
    BY <1>3, <1>6, <2>2, LabelFacts
  <2>5. x \in HeldIn(WaitingPlaces \cup {"first"}, m)
    BY <1>6, <2>3, <2>4, HeldInIs
  <2>6. QED
    BY <2>1, <2>5 DEF FirstTileLeft
<1>12. /\ Cardinality(F) \in Nat /\ Cardinality(F) # 0 /\ Cardinality(F \ {x}) = Cardinality(F) - 1
  <2>1. \A y \in F : IsChunk(y) /\ y[2] = m /\ y[3] = k
    BY <1>6, PlacesAre, StageChunks DEF FirstTileLeft
  <2>2. QED
    BY <1>6, <1>11, <2>1, ChunksFinite
<1>13. /\ sync2[m] = Cardinality(HeldIn(Anywhere, m)) /\ sync1[m] = Cardinality(F)
       /\ s = "interior" <=> sync1[m] # 0
  BY <1>6, <1>7, CountersWere
<1> HIDE DEF F, G
<1>14. s = "interior"
  BY <1>12, <1>13
<1>15. PICK r : \/ sync1[m] = 1 /\ label = "diagonal" /\ r = "diagonal"
                \/ sync1[m] # 1 /\ label = "countChunk" /\ r = "interior"
  BY <1>2, <1>6
<1>16. /\ sync1'[m] = Cardinality(G) /\ \A n \in MatrixIds \ {m} : sync1'[n] = sync1[n]
       /\ r = "interior" <=> sync1'[m] # 0
  BY <1>3, <1>6, <1>10, <1>12, <1>13, <1>15, StealTypes DEF StealBasis
<1>17. DriverInStage(m, k, r)'
  <2>1. DriversOf(m) \subseteq {t}
    BY <1>6, <1>14, LabelFacts, DriversLess
  <2>2. CASE r = "interior"
    BY <1>3, <1>15, <2>1, <2>2, NotDrivers, LabelFacts, DriverStops DEF StealBasis
  <2>3. CASE r = "diagonal"
    <3>1. StealMoves(t, "diagonal", task[t], work[t], subtasks[t])
      BY <1>3, <1>15, <2>3
    <3>2. pc'[t] = "diagonal" /\ task'[t] = task[t]
      BY <3>1, MovesAt DEF StealBasis
    <3>3. Reached(t)' = k
      BY <1>6, <3>2 DEF Reached, Offset
    <3>4. DriverInStage(m, k, "diagonal")'
      BY <1>6, <2>1, <3>1, <3>3, LabelFacts, DriverStarts DEF StealBasis
    <3>5. QED
      BY <2>3, <3>4
  <2>4. QED
    BY <1>15, <2>2, <2>3
<1>18. CountersInStage(m, r)'
  BY <1>3, <1>9, <1>13, <1>15, <1>16, CountersAre DEF G
<1>19. VersionsNext(m, k, r)
  <2>1. r \in StealStages /\ s \in StealStages /\ KindsToCome(r) = KindsToCome(s)
    BY <1>14, <1>15, LabelFacts DEF KindsToCome
  <2>2. ASSUME NEW z \in Cells, z[1] = m, Updated(z, k)
        PROVE  Waits(m, k, r, z)' <=> Waits(m, k, s, z)
    BY <1>6, <1>9, <2>1, ReachedCasesNext DEF Waits
  <2>3. version' = version /\ (s = "start" <=> r = "start") /\ (s = "ahead" <=> r = "ahead")
    BY <1>3, <1>14, <1>15
  <2>4. QED
    BY <1>6, <2>1, <2>2, <2>3, SameVersions
<1>20. StealStage(m, k, r)'
  <2>1. k + 1 < Tiles
    BY <1>6, <1>14 DEF StealStage
  <2>2. KindsLeft(r) = KindsLeft(s)
    BY <1>14, <1>15 DEF KindsLeft
  <2>3. \A y \in HeldIn(Anywhere, m)' : y[1] \in KindsLeft(r) /\ y[3] = k
    BY <1>6, <1>9, <2>2 DEF StealStage
  <2>4. r # "start" /\ r \notin {"countMatrix", "done"}
    BY <1>15
  <2>5. QED
    BY <1>17, <1>18, <1>19, <2>1, <2>3, <2>4, StageNext
<1>21. SameElsewhere(m)
  BY <1>3, <1>16 DEF SameElsewhere
<1>22. PendingStep(stage[m], r) /\ Steers(t, label, task[t], m) /\ r \in StealStages
  BY <1>3, <1>4, <1>5, <1>6, <1>14, <1>15, LabelFacts DEF PendingStep, Steers
<1>23. StagesStep
  BY <1>1, <1>3, <1>6, <1>8, <1>20, <1>21, <1>22, MoveStages
<1>24. QED
  BY <1>6, <1>12, <1>13, <1>23

(* The next diagonal tile is decomposed.                                   *)
LEMMA AheadStages ==
  ASSUME StealBasis, StealStagesInv, NEW t \in Threads, pc[t] = "diagonal", End(t, "countChunk")
  PROVE  StagesStep
<1>1. PICK stage, iteration : StealIn(stage, iteration)
  BY StealPick
<1>2. /\ work[t] # NoWork /\ StealMoves(t, "countChunk", task[t], NoWork, subtasks[t])
      /\ version' = [z \in Cells |-> IF z \in Writes(work[t]) THEN version[z] + 1 ELSE version[z]]
      /\ UNCHANGED <<workers, sync1, sync2, pending>>
  BY StealEnds DEF StealBasis
<1>3. pc[t] \in StealDrivers
  BY LabelFacts
<1>4. PICK m, k, s : AtStage(t, m, k, s) /\ stage[m] = s /\ iteration[m] = k
  BY <1>1, <1>3, ThreadAtStage
<1>5. /\ m \in MatrixIds /\ k \in Offsets /\ s = "diagonal" /\ StealStage(m, k, s) /\ VersionsIn(m, k, s)
      /\ task[t] \in Tasks /\ Matrix(t) = m /\ Offset(t) = k /\ task[t][2] = m
      /\ DriversOf(m) \subseteq {t}
  BY <1>4 DEF AtStage, Reached
<1>6. k + 1 < Tiles /\ k + 1 \in Offsets /\ k \in Nat
  BY <1>5, Parameters DEF StealStage, Offsets
<1>7. StepShift({}, <<"run", t>>, Nowhere)
  <2>1. \A p \in {"run", "first", "count"} :
          HeldBy(p, t, workers[t], subtasks[t], "countChunk", task[t])
            = HeldBy(p, t, workers[t], subtasks[t], pc[t], task[t])
    <3>1. HeldBy("run", t, workers[t], subtasks[t], "countChunk", task[t])
            = HeldBy("run", t, workers[t], subtasks[t], pc[t], task[t])
      BY HeldTable
    <3>2. HeldBy("first", t, workers[t], subtasks[t], "countChunk", task[t])
            = HeldBy("first", t, workers[t], subtasks[t], pc[t], task[t])
      BY HeldTable
    <3>3. HeldBy("count", t, workers[t], subtasks[t], "countChunk", task[t])
            = HeldBy("count", t, workers[t], subtasks[t], pc[t], task[t])
      BY HeldTable
    <3>4. QED
      BY <3>1, <3>2, <3>3
  <2>2. StealThread(t) /\ TypeOK /\ ChunkOnce /\ workers' = workers
    BY <1>2 DEF StealBasis
  <2>3. QED
    BY <1>2, <2>1, <2>2, NoShift
<1>8. /\ HeldIn(WaitingPlaces, m)' = HeldIn(WaitingPlaces, m)
      /\ HeldIn(WaitingPlaces \cup {"first"}, m)' = HeldIn(WaitingPlaces \cup {"first"}, m)
      /\ HeldIn(Anywhere, m)' = HeldIn(Anywhere, m)
  BY <1>7, NoneMoved
<1>9. FirstTileLeft(m)' = FirstTileLeft(m)
  BY <1>8, CountersAre DEF FirstTileLeft
<1>10. /\ sync2[m] = Cardinality(HeldIn(Anywhere, m)) /\ sync1[m] = Cardinality(FirstTileLeft(m))
       /\ sync1[m] = 0
  BY <1>5, CountersWere
<1>11. FirstTileLeft(m) = {}
  <2>1. \A y \in FirstTileLeft(m) : IsChunk(y) /\ y[2] = m /\ y[3] = k
    BY <1>5, PlacesAre, StageChunks DEF FirstTileLeft
  <2>2. Cardinality(FirstTileLeft(m)) = 0 <=> FirstTileLeft(m) = {}
    BY <1>5, <2>1, ChunksFinite
  <2>3. QED
    BY <1>10, <2>2
<1>12. DriverInStage(m, k, "ahead")'
  BY <1>2, <1>5, LabelFacts, NotDrivers, DriverStops DEF StealBasis
<1>13. CountersInStage(m, "ahead")'
  BY <1>2, <1>8, <1>9, <1>10, CountersAre
<1>14. \A z : z \in Writes(work[t]) <=> z \in Cells /\ z[1] = m /\ z[2] = k + 1 /\ z[4] = k + 1
  <2>1. work[t] = StealOperation(t)
    BY <1>2, Zenon DEF StealBasis, StealThread
  <2>2. work[t] = Work("diagonal", m, k + 1, 0)
    BY <1>5, <2>1 DEF StealOperation
  <2>3. \A z : z \in Writes(work[t]) <=> z \in TileCells(m, k + 1, k + 1)
    BY <2>2 DEF Writes, Work
  <2>4. PICK j \in Offsets : j = k + 1
    BY <1>6
  <2>5. \A z : z \in TileCells(m, j, j) <=> z \in Cells /\ z[1] = m /\ z[2] = j /\ z[4] = j
    BY <1>5, InTile
  <2>6. QED
    BY <2>3, <2>4, <2>5
<1>15. ASSUME NEW z \in Cells, z[1] = m
       PROVE  version'[z] = ReachedVersion(m, k, "ahead", z)'
  <2>1. version[z] = ReachedVersion(m, k, "diagonal", z)
    BY <1>5, <1>15 DEF VersionsIn
  <2>2. "diagonal" \in StealStages /\ "ahead" \in StealStages
    BY LabelFacts
  <2>3. CASE z[2] = k + 1 /\ z[4] = k + 1
    <3>1. Updated(z, k)
      BY <1>6, <2>3 DEF Updated, Final
    <3>2. ~Waits(m, k, "diagonal", z) /\ ~Waits(m, k, "ahead", z)'
      <4>1. OwnerName(z, k) \notin HeldIn(WaitingPlaces, m)
        BY <1>5, <1>11, <2>3, <3>1, OwnerNameIs, HeldInIs DEF FirstTileLeft
      <4>2. KindsToCome("diagonal") = {} /\ KindsToCome("ahead") = {}
        BY DEF KindsToCome
      <4>3. ~Waits(m, k, "diagonal", z)
        BY <4>1, <4>2 DEF Waits
      <4>4. ~Waits(m, k, "ahead", z)'
        BY <1>5, <1>8, <2>2, <4>1, <4>2, ReachedCasesNext
      <4>5. QED
        BY <4>3, <4>4
    <3>3. ReachedVersion(m, k, "diagonal", z) = k + 1
      BY <1>5, <2>2, <3>1, <3>2, ReachedCases
    <3>4. ReachedVersion(m, k, "ahead", z)' = k + 2
      BY <1>5, <2>2, <2>3, <3>1, <3>2, ReachedCasesNext
    <3>5. version'[z] = version[z] + 1
      BY <1>2, <1>14, <1>15, <2>3
    <3>6. QED
      BY <1>6, <2>1, <3>3, <3>4, <3>5
  <2>4. CASE ~(z[2] = k + 1 /\ z[4] = k + 1)
    <3>1. version'[z] = version[z]
      BY <1>2, <1>14, <2>4
    <3>2. ReachedVersion(m, k, "ahead", z)' = ReachedVersion(m, k, "diagonal", z)
      <4>1. CASE Final(z) <= k
        <5>1. ReachedVersion(m, k, "diagonal", z) = Final(z)
          BY <1>5, <2>2, <4>1, ReachedCases
        <5>2. ReachedVersion(m, k, "ahead", z)' = Final(z)
          BY <1>5, <2>2, <4>1, ReachedCasesNext
        <5>3. QED
          BY <5>1, <5>2
      <4>2. CASE z[2] = k /\ z[4] = k
        BY <1>5, <2>2, <4>2, DiagonalVersion
      <4>3. CASE Updated(z, k)
        <5>1. KindsToCome("diagonal") = {} /\ KindsToCome("ahead") = {}
          BY DEF KindsToCome
        <5>2. Waits(m, k, "ahead", z)' <=> Waits(m, k, "diagonal", z)
          BY <1>5, <1>8, <2>2, <5>1, ReachedCasesNext DEF Waits
        <5>3. ReachedVersion(m, k, "diagonal", z) = IF Waits(m, k, "diagonal", z) THEN k ELSE k + 1
          BY <1>5, <2>2, <2>4, <4>3, ReachedCases
        <5>4. ReachedVersion(m, k, "ahead", z)' = IF Waits(m, k, "ahead", z)' THEN k ELSE k + 1
          BY <1>5, <2>2, <2>4, <4>3, ReachedCasesNext
        <5>5. QED
          BY <5>2, <5>3, <5>4
      <4>4. QED
        BY <1>5, <2>2, <4>1, <4>2, <4>3, ReachedCases
    <3>3. QED
      BY <2>1, <3>1, <3>2
  <2>5. QED
    BY <2>3, <2>4
<1>16. VersionsNext(m, k, "ahead")
  BY <1>15 DEF VersionsNext
<1>17. StealStage(m, k, "ahead")'
  <2>1. \A y \in HeldIn(Anywhere, m)' : y[1] \in KindsLeft("ahead") /\ y[3] = k
    BY <1>5, <1>8 DEF KindsLeft, StealStage
  <2>2. QED
    BY <1>6, <1>12, <1>13, <1>16, <2>1, StageNext
<1>18. SameElsewhere(m) /\ OfMatrix({}, m)
  BY <1>2, <1>14 DEF SameElsewhere, OfMatrix
<1>19. PendingStep(stage[m], "ahead") /\ Steers(t, "countChunk", task[t], m)
  BY <1>2, <1>4, <1>5, NotDrivers DEF PendingStep, Steers
<1>20. QED
  BY <1>1, <1>2, <1>5, <1>7, <1>17, <1>18, <1>19, LabelFacts, MoveStages

(* A matrix is decomposed.                                                 *)
LEMMA MatrixCountedStages ==
  ASSUME StealBasis, StealStagesInv, NEW t \in Threads, CountMatrix(t)
  PROVE  StagesStep /\ pending \in 1 .. Matrices
<1>1. PICK stage, iteration : StealIn(stage, iteration)
  BY StealPick
<1>2. /\ pc[t] = "countMatrix" /\ pending' = pending - 1
      /\ IF pending = 1 THEN StealMoves(t, "finish", task[t], work[t], subtasks[t])
                        ELSE StealMoves(t, "claim", NoTask, work[t], subtasks[t])
      /\ UNCHANGED <<workers, sync1, sync2, version>>
  BY CountMatrixEffect DEF StealBasis
<1>3. pc[t] \in StealDrivers /\ pc[t] \in EmptyLabels
  BY <1>2, LabelFacts
<1>4. PICK m, k, s : AtStage(t, m, k, s) /\ stage[m] = s /\ iteration[m] = k
  BY <1>1, <1>3, ThreadAtStage
<1>5. /\ m \in MatrixIds /\ k \in Offsets /\ s = "countMatrix" /\ StealStage(m, k, s) /\ VersionsIn(m, k, s)
      /\ task[t][2] = m /\ DriversOf(m) \subseteq {t} /\ HeldIn(Anywhere, m) = {}
  BY <1>2, <1>4 DEF AtStage
<1>6. PICK label, job : /\ StealMoves(t, label, job, work[t], subtasks[t])
                        /\ label \in {"finish", "claim"}
  BY <1>2
<1>7. label \in EmptyLabels /\ label \notin StealDrivers
  BY <1>6, LabelFacts, NotDrivers
<1>8. StepShift({}, <<"run", t>>, Nowhere)
  BY <1>2, <1>3, <1>6, <1>7, EmptyShift DEF StealBasis
<1>9. /\ HeldIn(WaitingPlaces, m)' = HeldIn(WaitingPlaces, m)
      /\ HeldIn(Anywhere, m)' = {}
  BY <1>5, <1>8, NoneMoved
<1>10. DriverInStage(m, k, "done")'
  BY <1>5, <1>6, <1>7, LabelFacts, DriverStops DEF StealBasis
<1>11. CountersInStage(m, "done")'
  BY <1>2, <1>5, CountersWere, CountersAre
<1>12. VersionsNext(m, k, "done")
  <2>1. "done" \in StealStages /\ "countMatrix" \in StealStages
    BY LabelFacts
  <2>2. KindsToCome("countMatrix") = KindsToCome("done")
    BY DEF KindsToCome
  <2>3. ASSUME NEW x \in Cells, x[1] = m, Updated(x, k)
        PROVE  Waits(m, k, "done", x)' <=> Waits(m, k, "countMatrix", x)
    BY <1>5, <1>9, <2>1, <2>2, ReachedCasesNext DEF Waits
  <2>4. version' = version /\ VersionsIn(m, k, "countMatrix")
    BY <1>2, <1>5
  <2>5. QED
    BY <1>5, <2>1, <2>3, <2>4, SameVersions
<1>13. StealStage(m, k, "done")'
  BY <1>5, <1>9, <1>10, <1>11, <1>12, StageNext DEF StealStage
<1>14. SameElsewhere(m) /\ OfMatrix({}, m)
  BY <1>2 DEF SameElsewhere, OfMatrix
<1>15. PendingStep(stage[m], "done") /\ Steers(t, label, job, m)
  BY <1>2, <1>4, <1>5, <1>7 DEF PendingStep, Steers
<1>16. StagesStep
  BY <1>1, <1>5, <1>6, <1>8, <1>13, <1>14, <1>15, LabelFacts, MoveStages
<1>17. pending \in 1 .. Matrices
  BY <1>1, <1>4, <1>5, StealStageOf, Parameters
<1>18. QED
  BY <1>16, <1>17

(* The last chunk of a matrix is counted when nobody is ahead of it.       *)
LEMMA LastIsAhead ==
  ASSUME StealBasis, NEW t \in Threads, pc[t] = "countChunk", NEW m, NEW k, NEW s, NEW x,
         AtChunk(t, m, k, s, x), HeldIn(Anywhere, m) = {x},
         s \in {"interior", "diagonal", "ahead"}
  PROVE  s = "ahead"
<1>1. /\ m \in MatrixIds /\ k \in Offsets /\ StealStage(m, k, s)
      /\ x \in Held(<<PlaceAt(pc[t]), t>>)
  BY DEF AtChunk
<1>2. PICK g : g = <<"count", t>> /\ g[1] = "count" /\ g[2] = t
  <2>1. <<"count", t>>[1] = "count" /\ <<"count", t>>[2] = t
    OBVIOUS
  <2>2. QED
    BY <2>1
<1>3. g \in Holders /\ x \in Held(g)
  BY <1>1, <1>2, PlacesAre, HeldAt, LabelFacts
<1>4. HeldOnce
  BY ChunkOnceIs DEF StealBasis
<1>5. s # "interior"
  <2>1. SUFFICES ASSUME s = "interior" PROVE FALSE
    OBVIOUS
  <2>2. Cardinality(FirstTileLeft(m)) # 0
    BY <1>1, <2>1, CountersWere
  <2>3. FirstTileLeft(m) # {}
    BY <2>2, FS_EmptySet
  <2>4. PICK y : y \in HeldIn(WaitingPlaces \cup {"first"}, m)
    BY <2>3 DEF FirstTileLeft
  <2>5. PICK h \in Holders : h[1] \in WaitingPlaces \cup {"first"} /\ y \in Held(h)
    BY <2>4, HeldInIs
  <2>6. y \in HeldIn(Anywhere, m)
    BY <1>1, <2>4, PlacesAre, StageChunks
  <2>7. y = x /\ h # g
    BY <1>2, <2>5, <2>6, PlacesAre
  <2>8. QED
    BY <1>3, <1>4, <2>5, <2>7 DEF HeldOnce
<1>6. s # "diagonal"
  <2>1. SUFFICES ASSUME s = "diagonal" PROVE FALSE
    OBVIOUS
  <2>2. PICK u \in Threads : DriversOf(m) = {u} /\ pc[u] = "diagonal"
    BY <1>1, <2>1, LabelFacts DEF StealStage, DriverInStage
  <2>3. Matrix(u) = m /\ u # t
    BY <2>2 DEF DriversOf
  <2>4. PICK y : y = FirstChunk(task[u])
    OBVIOUS
  <2>5. pc[u] \notin EmptyLabels
    BY <2>2, LabelFacts
  <2>6. y \in Held(<<PlaceAt(pc[u]), u>>) /\ y \in HeldIn(Anywhere, m)
    BY <2>3, <2>4, <2>5, ThreadChunk
  <2>7. PICK h : h = <<"count", u>> /\ h[1] = "count" /\ h[2] = u
    <3>1. <<"count", u>>[1] = "count" /\ <<"count", u>>[2] = u
      OBVIOUS
    <3>2. QED
      BY <3>1
  <2>8. h \in Holders /\ y \in Held(h)
    BY <2>2, <2>6, <2>7, PlacesAre, HeldAt, LabelFacts
  <2>9. y = x /\ h # g
    BY <1>2, <2>3, <2>6, <2>7
  <2>10. QED
    BY <1>3, <1>4, <2>8, <2>9 DEF HeldOnce
<1>7. QED
  BY <1>5, <1>6

(* The versions when an iteration ends are those of the next one.          *)
LEMMA NextVersions ==
  ASSUME NEW m \in MatrixIds, NEW k \in Offsets, k + 1 \in Offsets, VersionsIn(m, k, "ahead"),
         HeldIn(WaitingPlaces, m) = {}, HeldIn(WaitingPlaces, m)' = {}, version' = version,
         NEW r, r = "scheduleBorder" \/ (r = "countMatrix" /\ k + 1 = Tiles - 1)
  PROVE  VersionsNext(m, k + 1, r)
<1>1. PICK j \in Offsets : j = k + 1
  OBVIOUS
<1>2. k \in Nat /\ "ahead" \in StealStages /\ r \in StealStages /\ r # "start" /\ r # "ahead"
  BY LabelFacts, NoChunks
<1>3. SUFFICES ASSUME NEW x \in Cells, x[1] = m
               PROVE  ReachedVersion(m, j, r, x)' = ReachedVersion(m, k, "ahead", x)
  BY <1>1 DEF VersionsIn, VersionsNext
<1>4. KindsToCome("ahead") = {} /\ KindsToCome("scheduleBorder") = {"left", "top", "interior"}
  BY DEF KindsToCome
<1>5. Final(x) \in Nat
  BY Finals, Parameters
<1>6. CASE Final(x) <= k
  BY <1>1, <1>2, <1>5, <1>6, ReachedCases, ReachedCasesNext
<1>7. CASE x[2] = k /\ x[4] = k
  BY <1>1, <1>2, <1>7, ReachedCasesNext, DiagonalVersion DEF Final
<1>8. CASE Updated(x, k)
  <2>1. ~Waits(m, k, "ahead", x)
    BY <1>4 DEF Waits
  <2>2. ReachedVersion(m, k, "ahead", x) = IF x[2] = j /\ x[4] = j THEN k + 2 ELSE k + 1
    BY <1>1, <1>2, <1>8, <2>1, ReachedCases
  <2>3. CASE x[2] = j /\ x[4] = j
    BY <1>1, <1>2, <2>2, <2>3, DiagonalVersion
  <2>4. CASE Final(x) <= j
    BY <1>1, <1>2, <1>5, <1>8, <2>2, <2>4, ReachedCasesNext DEF Updated, Final
  <2>5. CASE Updated(x, j)
    <3>1. j + 1 < Tiles
      BY <2>5, UpdatedCell
    <3>2. r = "scheduleBorder"
      BY <1>1, <3>1, Parameters
    <3>3. OwnerName(x, j)[1] \in KindsToCome(r)
      BY <1>4, <3>2 DEF OwnerName
    <3>4. Waits(m, j, r, x)'
      BY <1>2, <3>3, ReachedCasesNext
    <3>5. ReachedVersion(m, j, r, x)' = j
      BY <1>2, <2>5, <3>4, ReachedCasesNext
    <3>6. ~(x[2] = j /\ x[4] = j)
      BY <2>5 DEF Updated
    <3>7. QED
      BY <1>1, <2>2, <3>5, <3>6
  <2>6. QED
    BY <1>2, <2>3, <2>4, <2>5, ReachedCases
<1>9. QED
  BY <1>2, <1>6, <1>7, <1>8, ReachedCases

(* A chunk of the interior is counted: the last thread ends the iteration. *)
LEMMA ChunkCountedStages ==
  ASSUME StealBasis, StealStagesInv, NEW t \in Threads, CountChunk(t)
  PROVE  StagesStep /\ sync2[Matrix(t)] >= 1 /\ Matrix(t) \in MatrixIds
<1>1. PICK stage, iteration : StealIn(stage, iteration)
  BY StealPick
<1>2. /\ pc[t] = "countChunk"
      /\ sync2' = [sync2 EXCEPT ![Matrix(t)] = sync2[Matrix(t)] - 1]
      /\ IF sync2[Matrix(t)] # 1
           THEN StealMoves(t, "claim", NoTask, work[t], subtasks[t])
           ELSE StealMoves(t, IF NextOffset(t) + 1 >= Tiles THEN "countMatrix"
                              ELSE "scheduleBorder", task[t], work[t], subtasks[t])
      /\ UNCHANGED <<workers, sync1, version, pending>>
  BY CountChunkEffect DEF StealBasis
<1>3. pc[t] \notin EmptyLabels /\ pc[t] \notin StealDrivers
  BY <1>2, LabelFacts, NotDrivers
<1>4. PICK m, k, s, x : AtChunk(t, m, k, s, x) /\ stage[m] = s /\ iteration[m] = k
  BY <1>1, <1>3, ThreadAtChunk
<1>5. /\ m \in MatrixIds /\ k \in Offsets /\ s \in StealStages /\ StealStage(m, k, s)
      /\ x = FirstChunk(task[t]) /\ task[t] \in Tasks /\ task[t][1] = x[1] /\ task[t][2] = m
      /\ x[1] \in KindsLeft(s) /\ OfMatrix({x}, m) /\ Offset(t) = k /\ Matrix(t) = m
      /\ x \in HeldIn(Anywhere, m) /\ x[1] \in KindsAt(pc[t]) /\ VersionsIn(m, k, s)
      /\ IsChunk(x) /\ x[3] = k
  BY <1>4 DEF AtChunk
<1>6. x[1] = "interior" /\ s \in {"interior", "diagonal", "ahead"} /\ k + 1 < Tiles
  BY <1>2, <1>5, KindStage DEF KindsAt, StealStage
<1>7. NextOffset(t) = k + 1 /\ k \in Nat /\ k + 1 \in Offsets
  BY <1>5, <1>6, Parameters DEF NextOffset, Kind, Offsets
<1>8. PICK label, job :
        /\ StealMoves(t, label, job, work[t], subtasks[t])
        /\ \/ sync2[m] # 1 /\ label = "claim"
           \/ /\ sync2[m] = 1 /\ job = task[t]
              /\ \/ label = "countMatrix" /\ k + 1 = Tiles - 1
                 \/ label = "scheduleBorder"
  BY <1>2, <1>5, <1>6, <1>7, Parameters
<1>9. label \in EmptyLabels
  BY <1>8, LabelFacts
<1>10. StepShift({x}, <<"count", t>>, Place("nowhere", t))
  BY <1>2, <1>5, <1>8, <1>9, ChunkShift DEF StealBasis
<1>11. /\ HeldIn(WaitingPlaces, m)' = HeldIn(WaitingPlaces, m)
       /\ HeldIn(WaitingPlaces \cup {"first"}, m)' = HeldIn(WaitingPlaces \cup {"first"}, m)
       /\ HeldIn(Anywhere, m)' = HeldIn(Anywhere, m) \ {x}
  BY <1>5, <1>10, CountGone
<1>12. FirstTileLeft(m)' = FirstTileLeft(m)
  BY <1>11, CountersAre DEF FirstTileLeft
<1> DEFINE A == HeldIn(Anywhere, m)
           B == HeldIn(Anywhere, m)'
<1>13. /\ sync2[m] = Cardinality(A) /\ sync1[m] = Cardinality(FirstTileLeft(m))
       /\ s = "interior" <=> sync1[m] # 0
  BY <1>5, <1>6, CountersWere
<1>14. /\ Cardinality(A) \in Nat /\ Cardinality(A) # 0
       /\ Cardinality(B) = Cardinality(A) - 1
       /\ Cardinality(B) = 0 <=> B = {}
  <2>1. Anywhere \in SUBSET Anywhere
    OBVIOUS
  <2>2. /\ Cardinality(A) \in Nat /\ (Cardinality(A) = 0 <=> A = {})
        /\ Cardinality(A \ {x}) = Cardinality(A) - 1
    BY <1>5, <2>1, StageChunks
  <2>3. \A y \in B : IsChunk(y) /\ y[2] = m /\ y[3] = k
    BY <1>5, <1>11, <2>1, StageChunks
  <2>4. Cardinality(B) = 0 <=> B = {}
    BY <1>5, <2>3, ChunksFinite
  <2>5. QED
    BY <1>5, <1>11, <2>2, <2>4
<1>15. B = A \ {x} /\ x \in A
  BY <1>5, <1>11
<1> HIDE DEF A, B
<1>16. sync2'[m] = Cardinality(B) /\ \A n \in MatrixIds \ {m} : sync2'[n] = sync2[n]
  BY <1>2, <1>5, <1>13, <1>14, StealTypes DEF StealBasis
<1>17. SameElsewhere(m)
  BY <1>2, <1>16 DEF SameElsewhere
<1>18. CASE sync2[m] # 1
  <2>1. label = "claim" /\ label \notin StealDrivers
    BY <1>8, <1>18, NotDrivers
  <2>2. DriverInStage(m, k, s)'
    BY <1>3, <1>5, <1>8, <2>1, DriverStays DEF StealBasis
  <2>3. CountersInStage(m, s)'
    BY <1>2, <1>6, <1>12, <1>13, <1>16, CountersAre DEF B
  <2>4. VersionsNext(m, k, s)
    <3>1. ASSUME NEW z \in Cells, z[1] = m, Updated(z, k)
          PROVE  Waits(m, k, s, z)' <=> Waits(m, k, s, z)
      BY <1>5, <1>11, ReachedCasesNext DEF Waits
    <3>2. version' = version
      BY <1>2
    <3>3. QED
      BY <1>5, <3>1, <3>2, SameVersions
  <2>5. StealStage(m, k, s)'
    BY <1>5, <1>6, <1>11, <2>2, <2>3, <2>4, StageNext DEF StealStage
  <2>6. PendingStep(stage[m], s) /\ Steers(t, label, job, m)
    BY <1>2, <1>3, <1>4, <2>1 DEF PendingStep, Steers
  <2>7. QED
    BY <1>1, <1>5, <1>8, <1>10, <1>13, <1>14, <1>17, <2>5, <2>6, MoveStages
<1>19. CASE sync2[m] = 1
  <2>1. /\ label \in {"countMatrix", "scheduleBorder"} /\ job = task[t]
        /\ label = "countMatrix" => k + 1 = Tiles - 1
    BY <1>8, <1>19
  <2>2. label \in StealDrivers /\ label \in StealStages
    BY <2>1, LabelFacts
  <2>3. B = {}
    BY <1>13, <1>14, <1>19
  <2>4. A = {x}
    BY <1>15, <2>3
  <2>5. s = "ahead"
    BY <1>2, <1>4, <1>6, <2>4, LastIsAhead DEF A
  <2>6. DriversOf(m) \subseteq {t}
    BY <1>5, <2>5, LabelFacts, DriversLess
  <2>7. DriverInStage(m, k + 1, label)'
    BY <1>5, <1>6, <1>8, <2>1, <2>2, <2>6, MovesAt, DriverStarts DEF StealBasis, Reached,
       NextOffset, Kind, Offset
  <2>8. CountersInStage(m, label)'
    BY <1>14, <1>16, <2>1, <2>3, CountersAre
  <2>9. VersionsNext(m, k + 1, label)
    <3>1. HeldIn(WaitingPlaces, m) = {}
      <4>1. ASSUME NEW y \in HeldIn(WaitingPlaces, m) PROVE FALSE
        <5>1. \A P : y \in HeldIn(P, m)' <=> y[2] = m /\ \E h \in Holders : h[1] \in P /\ y \in Held(h)'
          BY HeldInIs
        <5>2. y \in HeldIn(WaitingPlaces, m)'
          BY <1>11
        <5>3. y \in HeldIn(Anywhere, m)'
          BY <5>1, <5>2, PlacesAre
        <5>4. QED
          BY <2>3, <5>3 DEF B
      <4>2. QED
        BY <4>1
    <3>2. QED
      BY <1>2, <1>5, <1>7, <1>11, <2>1, <2>5, <3>1, NextVersions
  <2>10. StealStage(m, k + 1, label)'
    BY <2>1, <2>3, <2>7, <2>8, <2>9, StageNext DEF B
  <2>11. PendingStep(stage[m], label) /\ Steers(t, label, job, m)
    BY <1>2, <1>3, <1>4, <1>5, <2>1, <2>5 DEF PendingStep, Steers
  <2>12. PICK j \in Offsets : j = k + 1
    BY <1>7
  <2>13. StealStage(m, j, label)'
    BY <2>10, <2>12
  <2>14. QED
    BY <1>1, <1>5, <1>8, <1>10, <1>13, <1>14, <1>17, <2>2, <2>11, <2>13, MoveStages
<1>20. QED
  BY <1>5, <1>13, <1>14, <1>18, <1>19

-----------------------------------------------------------------------------
(* The invariant is inductive.                                             *)

(* Every step keeps the stages.                                            *)
LEMMA StealStepStages ==
  ASSUME StealBasis, StealStagesInv, NEW t \in Threads, Step(t)
  PROVE  StagesStep
<1>1. CASE Claim(t) /\ UNCHANGED ludVars
  BY <1>1, ClaimStages
<1>2. CASE RunStart(t)
  BY <1>2, StealBeginStages, StartEndStages DEF RunStart
<1>3. CASE StoreBorderCount(t)
  BY <1>3, BorderStartStages
<1>4. CASE Push(t)
  BY <1>4, PushStages
<1>5. CASE RunBorder(t)
  BY <1>5, StealBeginStages, BorderEndStages DEF RunBorder, Borders
<1>6. CASE CountBorder(t)
  BY <1>6, BorderCountedStages
<1>7. CASE StoreFirstTile(t)
  BY <1>7, FirstTileStages
<1>8. CASE StoreChunks(t)
  BY <1>8, InteriorStartStages
<1>9. CASE SplitInterior(t)
  BY <1>9, SplitStages
<1>10. CASE RunInterior(t)
  <2>1. PICK label : label = IF InFirstTile(Offset(t), task[t][4]) THEN "countFirstTile" ELSE "countChunk"
    OBVIOUS
  <2>2. (\E w : Begin(t, w)) \/ End(t, label)
    BY <1>10, <2>1 DEF RunInterior
  <2>3. pc[t] = "interior"
    BY <1>10 DEF RunInterior
  <2>4. QED
    BY <2>1, <2>2, <2>3, StealBeginStages, InteriorEndStages
<1>11. CASE CountFirstTile(t)
  BY <1>11, FirstCountedStages
<1>12. CASE NextDiagonal(t)
  BY <1>12, StealBeginStages, AheadStages DEF NextDiagonal
<1>13. CASE CountChunk(t)
  BY <1>13, ChunkCountedStages
<1>14. CASE CountMatrix(t)
  BY <1>14, MatrixCountedStages
<1>15. CASE FinishPool(t)
  BY <1>15, FinishStages
<1>16. QED
  BY <1>1, <1>2, <1>3, <1>4, <1>5, <1>6, <1>7, <1>8, <1>9, <1>10, <1>11, <1>12, <1>13, <1>14, <1>15
     DEF Step

(* What the stages say of the cells is in the range of their type.         *)
LEMMA ReachedRange ==
  ASSUME NEW m, NEW k \in Offsets, NEW s \in StealStages, NEW x \in Cells
  PROVE  ReachedVersion(m, k, s, x)' \in 0 .. Tiles
<1>1. k \in Nat /\ k < Tiles /\ Final(x) \in 1 .. Tiles /\ x[2] \in 0 .. Tiles - 1
  BY NoChunks, Finals
<1>2. CASE Final(x) <= k
  <2>1. ReachedVersion(m, k, s, x)' = Final(x)
    BY <1>2, ReachedCasesNext
  <2>2. QED
    BY <1>1, <2>1, Parameters
<1>3. CASE x[2] = k /\ x[4] = k
  BY <1>1, <1>3, DiagonalVersion, Parameters
<1>4. CASE Updated(x, k)
  <2>1. ReachedVersion(m, k, s, x)' =
          IF Waits(m, k, s, x)' THEN k
          ELSE IF s = "ahead" /\ x[2] = k + 1 /\ x[4] = k + 1 THEN k + 2 ELSE k + 1
    BY <1>4, ReachedCasesNext
  <2>2. \/ ReachedVersion(m, k, s, x)' = k
        \/ ReachedVersion(m, k, s, x)' = k + 1
        \/ ReachedVersion(m, k, s, x)' = k + 2 /\ x[2] = k + 1
    BY <2>1
  <2>3. QED
    BY <1>1, <2>2, Parameters
<1>5. QED
  BY <1>2, <1>3, <1>4, ReachedCases

(* The versions after a step, from the stages.                             *)
LEMMA VersionRange ==
  ASSUME StealStagesInv', NEW f, version' = [x \in Cells |-> f[x]]
  PROVE  version' \in [Cells -> 0 .. Tiles]
<1>1. PICK stage \in [MatrixIds -> StealStages] : \E iteration \in [MatrixIds -> Offsets] :
        \A m \in MatrixIds : StealStage(m, iteration[m], stage[m])'
  BY DEF StealStagesInv
<1>2. PICK iteration \in [MatrixIds -> Offsets] :
        \A m \in MatrixIds : StealStage(m, iteration[m], stage[m])'
  BY <1>1
<1>3. ASSUME NEW x \in Cells PROVE version'[x] \in 0 .. Tiles
  <2>1. PICK m \in MatrixIds : x[1] = m
    BY CellParts
  <2>2. PICK k \in Offsets, s \in StealStages : k = iteration[m] /\ s = stage[m]
    OBVIOUS
  <2>3. StealStage(m, k, s)'
    BY <1>2, <2>2
  <2>4. version'[x] = ReachedVersion(m, k, s, x)'
    BY <2>1, <2>3 DEF StealStage
  <2>5. QED
    BY <2>4, ReachedRange
<1>4. QED
  BY <1>3

-----------------------------------------------------------------------------
(* The labels of threads, and what each has there.                         *)

(* The operation of a thread that is at this label with this task.         *)
OperationAt(label, job) ==
  CASE label = "diagonal" -> Work("diagonal", job[2], job[3] + 1, 0)
    [] label = "interior" -> Work("interior", job[2], job[3], job[4])
    [] OTHER -> Work(IF job[1] = "start" THEN "diagonal" ELSE job[1], job[2], job[3], job[4])

(* What a thread has at a label.                                           *)
StealLocal(label, job, w, rest) ==
  /\ IF label \in ClaimLabels THEN job = NoTask
     ELSE job # NoTask /\ job[1] \in KindsAt(label)
  /\ rest # <<>> <=> label \in {"push", "pushRest"}
  /\ label = "countFirstTile" => InFirstTile(job[3], job[4])
  /\ w # NoWork =>
       /\ label \in {"run", "interior", "diagonal"} /\ w = OperationAt(label, job)
       /\ label = "run" => job[1] # "interior"

(* One thread finishes the pool, after all matrices.                       *)
FinishesAlone(t) ==
  pc[t] = "finish" => pending = 0 /\ ~finished /\ \A u \in Threads \ {t} : pc[u] # "finish"

(* What the invariant says of a thread, in parts.                          *)
LEMMA StealThreadIs ==
  ASSUME NEW t
  PROVE  /\ StealThread(t) <=>
              StealLocal(pc[t], task[t], work[t], subtasks[t]) /\ FinishesAlone(t)
         /\ StealThread(t)' <=>
              StealLocal(pc'[t], task'[t], work'[t], subtasks'[t]) /\ FinishesAlone(t)'
<1>1. StealOperation(t) = OperationAt(pc[t], task[t])
  BY DEF StealOperation, OperationAt, Matrix, Offset, Kind
<1>2. StealOperation(t)' = OperationAt(pc'[t], task'[t])
  BY DEF StealOperation, OperationAt, Matrix, Offset, Kind
<1>3. StealThread(t) <=>
        StealLocal(pc[t], task[t], work[t], subtasks[t]) /\ FinishesAlone(t)
  BY <1>1, Zenon DEF StealThread, StealLocal, FinishesAlone, Offset, Kind
<1>4. StealThread(t)' <=>
        StealLocal(pc'[t], task'[t], work'[t], subtasks'[t]) /\ FinishesAlone(t)'
  BY <1>2, Zenon DEF StealThread, StealLocal, FinishesAlone, Offset, Kind, KindsAt,
                     InFirstTile, RowOf, ColumnOf, Rows, NoWork, ClaimLabels, NoTask
<1>5. QED
  BY <1>3, <1>4

(* How a step changes the count of the matrices and the end of the pool.   *)
PoolEnds(t, label) ==
  \/ UNCHANGED <<pending, finished>> /\ label # "finish"
  \/ pc[t] = "finish" /\ finished' = TRUE /\ pending' = pending /\ label # "finish"
  \/ /\ pending \in 1 .. Matrices /\ pending' = pending - 1 /\ finished' = finished
     /\ label = "finish" <=> pending = 1

(* Together they are the invariant.                                        *)
LEMMA StealFinal ==
  ASSUME StealInv, NEW t \in Threads, NEW label \in StealLabels,
         NEW job \in Tasks \cup {NoTask}, NEW w \in Works \cup {NoWork},
         NEW rest \in Seq(Tasks), StealMoves(t, label, job, w, rest),
         StealLocal(label, job, w, rest), StagesStep, PoolEnds(t, label),
         other' \in [Threads -> Threads], sync1' \in [MatrixIds -> Nat],
         sync2' \in [MatrixIds -> Nat], version' \in [Cells -> 0 .. Tiles]
  PROVE  StealInv'
<1>1. TypeOK /\ ChunkOnce /\ (\A u \in Threads : StealThread(u)) /\ (finished => pending = 0)
  BY DEF StealInv
<1>2. /\ pending \in 0 .. Matrices /\ finished \in BOOLEAN /\ Matrices \in Nat
      /\ pc \in [Threads -> StealLabels]
  BY <1>1, StealTypes, Parameters
<1>3. pending' \in 0 .. Matrices /\ finished' \in BOOLEAN
  <2>1. pending' = pending \/ (pending \in 1 .. Matrices /\ pending' = pending - 1)
    BY DEF PoolEnds
  <2>2. finished' = finished \/ finished' = TRUE
    BY DEF PoolEnds
  <2>3. finished' \in BOOLEAN
    BY <1>2, <2>2
  <2>4. pending' \in 0 .. Matrices
    BY <1>2, <2>1
  <2>5. QED
    BY <2>3, <2>4
<1>4. TypeOK'
  BY <1>1, <1>3, MovesTypes, StealTypes DEF StagesStep
<1>5. ASSUME NEW u \in Threads
      PROVE  StealLocal(pc'[u], task'[u], work'[u], subtasks'[u])
  <2>1. CASE u = t
    BY <1>1, <2>1, MovesAt
  <2>2. CASE u # t
    BY <1>1, <2>2, MovesAt, StealThreadIs
  <2>3. QED
    BY <2>1, <2>2
<1>6. /\ \A u \in Threads : pc[u] = "finish" =>
           pending = 0 /\ ~finished /\ \A v \in Threads \ {u} : pc[v] # "finish"
      /\ pc'[t] = label /\ \A u \in Threads \ {t} : pc'[u] = pc[u]
  BY <1>1, StealThreadIs, MovesAt DEF FinishesAlone
<1>7. ASSUME NEW u \in Threads
      PROVE  FinishesAlone(u)'
  <2>1. SUFFICES ASSUME pc'[u] = "finish"
                 PROVE  pending' = 0 /\ ~finished' /\ \A v \in Threads \ {u} : pc'[v] # "finish"
    BY DEF FinishesAlone
  <2>2. CASE UNCHANGED <<pending, finished>> /\ label # "finish"
    BY <1>6, <2>1, <2>2
  <2>3. CASE pc[t] = "finish" /\ finished' = TRUE /\ pending' = pending /\ label # "finish"
    BY <1>6, <2>1, <2>3
  <2>4. CASE /\ pending \in 1 .. Matrices /\ pending' = pending - 1 /\ finished' = finished
             /\ label = "finish" <=> pending = 1
    <3>1. pending # 0 /\ ~finished
      BY <1>1, <2>4
    <3>2. \A v \in Threads : pc[v] # "finish"
      BY <1>6, <3>1
    <3>3. u = t /\ pending = 1
      BY <1>6, <2>1, <2>4, <3>2
    <3>4. QED
      BY <1>6, <2>4, <3>1, <3>2, <3>3
  <2>5. QED
    BY <2>2, <2>3, <2>4 DEF PoolEnds
<1>8. finished' => pending' = 0
  <2>1. CASE UNCHANGED <<pending, finished>>
    BY <1>1, <2>1
  <2>2. CASE pc[t] = "finish" /\ pending' = pending
    BY <1>6, <2>2
  <2>3. CASE pending \in 1 .. Matrices /\ finished' = finished
    BY <1>1, <2>3
  <2>4. QED
    BY <2>1, <2>2, <2>3 DEF PoolEnds
<1>9. QED
  BY <1>4, <1>5, <1>7, <1>8, StealThreadIs DEF StagesStep, StealInv

-----------------------------------------------------------------------------
(* Every step keeps the invariant.                                         *)

\* The labels of the functions that tasks execute.
TaskLabels == StealLabels \ ClaimLabels

(* Which labels there are, and which of them are of the search for a task. *)
LEMMA TaskLabelsAre ==
  /\ ClaimLabels \subseteq StealLabels
  /\ \A p \in {"run", "scheduleBorder", "push", "pushRest", "countBorder", "storeFirstTile",
               "storeChunks", "interior", "countFirstTile", "diagonal", "countChunk",
               "countMatrix", "finish"} : p \in TaskLabels
  /\ "claim" \in ClaimLabels /\ "run" \notin {"push", "pushRest"}
  /\ \A p \in ClaimLabels : p \notin {"push", "pushRest", "finish", "countFirstTile"}
BY DEF TaskLabels, StealLabels, ClaimLabels

(* The kinds of tasks that a thread can have at each label.                *)
LEMMA KindsAre ==
  /\ KindsAt("run") = {"start", "left", "top", "interior"}
  /\ KindsAt("scheduleBorder") = {"start", "interior"}
  /\ KindsAt("push") = {"start", "left", "top", "interior"}
  /\ \A p \in {"countBorder", "storeFirstTile", "storeChunks"} : KindsAt(p) = {"left", "top"}
  /\ \A p \in {"pushRest", "interior", "countFirstTile", "diagonal", "countChunk", "countMatrix",
               "finish"} : KindsAt(p) = {"interior"}
BY DEF KindsAt

(* What a thread has before its step.                                      *)
LEMMA StealHas ==
  ASSUME StealInv, NEW t \in Threads
  PROVE  /\ StealBasis /\ StealStagesInv /\ TypeOK /\ ChunkOnce
         /\ StealLocal(pc[t], task[t], work[t], subtasks[t])
         /\ pc[t] \in StealLabels /\ task[t] \in Tasks \cup {NoTask}
         /\ work[t] \in Works \cup {NoWork} /\ subtasks[t] \in Seq(Tasks)
         /\ sync1 \in [MatrixIds -> Nat] /\ sync2 \in [MatrixIds -> Nat]
         /\ other \in [Threads -> Threads] /\ version \in [Cells -> 0 .. Tiles]
         /\ pc[t] \notin {"run", "interior", "diagonal"} => work[t] = NoWork
         /\ pc[t] \notin {"push", "pushRest"} => subtasks[t] = <<>>
         /\ pc[t] \in TaskLabels => task[t] \in Tasks /\ task[t][1] \in KindsAt(pc[t])
<1>1. StealBasis /\ StealStagesInv /\ TypeOK /\ ChunkOnce /\ StealThread(t)
  BY DEF StealInv, StealBasis
<1>2. StealLocal(pc[t], task[t], work[t], subtasks[t])
  BY <1>1, StealThreadIs
<1>3. /\ pc[t] \in StealLabels /\ task[t] \in Tasks \cup {NoTask}
      /\ work[t] \in Works \cup {NoWork} /\ subtasks[t] \in Seq(Tasks)
      /\ sync1 \in [MatrixIds -> Nat] /\ sync2 \in [MatrixIds -> Nat]
      /\ other \in [Threads -> Threads] /\ version \in [Cells -> 0 .. Tiles]
  BY <1>1, StealTypes
<1>4. pc[t] \notin {"run", "interior", "diagonal"} => work[t] = NoWork
  BY <1>2 DEF StealLocal
<1>5. pc[t] \notin {"push", "pushRest"} => subtasks[t] = <<>>
  BY <1>1, StealAt
<1>6. pc[t] \in TaskLabels => task[t] \in Tasks /\ task[t][1] \in KindsAt(pc[t])
  BY <1>1, StealAt DEF TaskLabels
<1>7. QED
  BY <1>1, <1>2, <1>3, <1>4, <1>5, <1>6

(* A thread without a task.                                                *)
LEMMA LocalFree ==
  ASSUME NEW label \in ClaimLabels, NEW w, NEW rest, w = NoWork, ~(rest # <<>>)
  PROVE  StealLocal(label, NoTask, w, rest)
BY TaskLabelsAre DEF StealLocal

(* A thread that goes on with its task.                                    *)
LEMMA LocalKeep ==
  ASSUME NEW label \in TaskLabels, NEW job \in Tasks, job[1] \in KindsAt(label),
         NEW w, NEW rest, w = NoWork, rest # <<>> <=> label \in {"push", "pushRest"},
         label = "countFirstTile" => InFirstTile(job[3], job[4])
  PROVE  StealLocal(label, job, w, rest)
BY StealTaskParts DEF TaskLabels, StealLocal

(* A step that changes only what belongs to the thread, and the deques.    *)
LEMMA StealQuiet ==
  ASSUME StealInv, NEW t \in Threads, NEW label \in StealLabels,
         NEW job \in Tasks \cup {NoTask}, NEW w \in Works \cup {NoWork},
         NEW rest \in Seq(Tasks), StealMoves(t, label, job, w, rest),
         StealLocal(label, job, w, rest), StagesStep, label # "finish",
         other' \in [Threads -> Threads],
         UNCHANGED <<finished, pending, sync1, sync2, version>>
  PROVE  StealInv'
BY StealHas, StealFinal DEF PoolEnds

(* A thread looks for a task, or takes one.                                *)
LEMMA StealClaimKeeps ==
  ASSUME StealInv, NEW t \in Threads, Claim(t), UNCHANGED ludVars
  PROVE  StealInv'
<1>1. TypeOK /\ StagesStep
  BY StealHas, ClaimStages
<1>2. CASE LoadFinished(t) \/ PopNothing(t) \/ StealNothing(t)
  <2>1. PICK label \in ClaimLabels : StealMoves(t, label, task[t], work[t], subtasks[t])
    BY <1>1, <1>2, ClaimEffects
  <2>2. /\ pc[t] \in ClaimLabels /\ other' \in [Threads -> Threads]
        /\ UNCHANGED <<finished, pending, sync1, sync2, version>>
    BY <1>1, <1>2, ClaimEffects
  <2>3. /\ label \in StealLabels /\ label # "finish" /\ pc[t] \notin {"push", "pushRest"}
        /\ pc[t] \notin {"run", "interior", "diagonal"}
    BY <2>2, TaskLabelsAre DEF TaskLabels
  <2>4. work[t] = NoWork /\ subtasks[t] = <<>> /\ task[t] = NoTask
    BY <2>2, <2>3, StealHas DEF StealLocal
  <2>5. StealLocal(label, task[t], work[t], subtasks[t])
    BY <2>4, LocalFree
  <2>6. QED
    BY <1>1, <2>1, <2>2, <2>3, <2>5, StealHas, StealQuiet
<1>3. CASE PopTask(t) \/ StealTask(t)
  <2>1. PICK o \in Threads :
          /\ workers[o] # <<>>
          /\ \/ StealMoves(t, "run", Last(workers[o]), work[t], subtasks[t])
             \/ StealMoves(t, "run", Head(workers[o]), work[t], subtasks[t])
    BY <1>1, <1>3, TakeEffects
  <2>2. /\ pc[t] \in ClaimLabels /\ other' \in [Threads -> Threads]
        /\ UNCHANGED <<finished, pending, sync1, sync2, version>>
    BY <1>1, <1>3, TakeEffects
  <2>3. PICK job : /\ job = Last(workers[o]) \/ job = Head(workers[o])
                   /\ StealMoves(t, "run", job, work[t], subtasks[t])
    BY <2>1
  <2>4. job \in Tasks
    BY <2>1, <2>3, StealHas, StealAt, SplitHolds DEF StealInv
  <2>5. "run" \in TaskLabels /\ "run" \in StealLabels /\ job[1] \in KindsAt("run")
    BY <2>4, StealTaskParts, KindsAre, TaskLabelsAre DEF Borders, TaskLabels
  <2>6. work[t] = NoWork /\ ~(subtasks[t] # <<>>)
    BY <2>2, TaskLabelsAre, StealHas DEF TaskLabels
  <2>7. StealLocal("run", job, work[t], subtasks[t])
    BY <2>4, <2>5, <2>6, LocalKeep
  <2>8. QED
    BY <1>1, <2>2, <2>3, <2>4, <2>5, <2>7, StealHas, StealQuiet
<1>4. QED
  BY <1>2, <1>3 DEF Claim

(* The operations of tasks are operations of the decomposition.            *)
LEMMA TaskOperation ==
  ASSUME NEW d \in Tasks
  PROVE  /\ d[1] = "start" => OperationAt("run", d) = Work("diagonal", d[2], 0, 0)
         /\ d[1] \in Borders => OperationAt("run", d) = Work(d[1], d[2], d[3], d[4])
         /\ d[1] # "interior" => OperationAt("run", d) \in Works
         /\ d[1] = "interior" => /\ OperationAt("interior", d) \in Works
                                 /\ OperationAt("diagonal", d) \in Works
<1>1. /\ d[2] \in MatrixIds /\ d[3] \in Offsets /\ d[4] \in Nat
      /\ \/ d[1] = "start" /\ d[3] = 0 /\ d[4] = 0
         \/ d[1] \in Borders /\ d[3] + 1 < Tiles /\ d[4] \in 0 .. BorderChunks(d[3]) - 1
         \/ /\ d[1] = "interior" /\ d[3] + 1 < Tiles
            /\ d[5] \in 0 .. InteriorChunks(d[3]) /\ d[4] < d[5]
  BY StealTaskParts
<1>2. CASE d[1] = "start"
  BY <1>1, <1>2, WorksAre DEF OperationAt, Borders
<1>3. CASE d[1] \in Borders
  BY <1>1, <1>3, WorksAre DEF OperationAt, Borders
<1>4. CASE d[1] = "interior"
  <2>1. /\ OperationAt("interior", d) = Work("interior", d[2], d[3], d[4])
        /\ OperationAt("diagonal", d) = Work("diagonal", d[2], d[3] + 1, 0)
    BY DEF OperationAt
  <2>2. d[3] + 1 < Tiles /\ d[5] \in 0 .. InteriorChunks(d[3]) /\ d[4] < d[5]
    BY <1>1, <1>4 DEF Borders
  <2>3. d[4] \in 0 .. InteriorChunks(d[3]) - 1
    BY <1>1, <2>2, NoChunks
  <2>4. d[3] + 1 \in Offsets
    BY <1>1, <2>2, ChunkCounts
  <2>5. QED
    BY <1>1, <1>4, <2>1, <2>3, <2>4, WorksAre DEF Borders
<1>5. QED
  BY <1>1, <1>2, <1>3, <1>4

(* The operation that a thread begins is the one at its label.             *)
LEMMA BegunOperation ==
  ASSUME StealInv, NEW t \in Threads, NEW w,
         \/ pc[t] = "run" /\ Kind(t) = "start" /\ w = Work("diagonal", Matrix(t), 0, 0)
         \/ /\ pc[t] = "run" /\ Kind(t) \in Borders
            /\ w = Work(Kind(t), Matrix(t), Offset(t), task[t][4])
         \/ pc[t] = "interior" /\ w = Work("interior", Matrix(t), Offset(t), task[t][4])
         \/ pc[t] = "diagonal" /\ w = Work("diagonal", Matrix(t), Offset(t) + 1, 0)
  PROVE  /\ w = OperationAt(pc[t], task[t]) /\ w \in Works
         /\ pc[t] \in {"run", "interior", "diagonal"} /\ (pc[t] = "run" => task[t][1] # "interior")
         /\ task[t] \in Tasks /\ task[t][1] \in KindsAt(pc[t])
<1>1. PICK d : d = task[t] /\ Kind(t) = d[1] /\ Matrix(t) = d[2] /\ Offset(t) = d[3]
  BY DEF Kind, Matrix, Offset
<1>2. pc[t] \in {"run", "interior", "diagonal"}
  OBVIOUS
<1>3. d \in Tasks /\ d[1] \in KindsAt(pc[t])
  BY <1>1, <1>2, StealHas, TaskLabelsAre
<1>4. CASE pc[t] = "run" /\ d[1] = "start" /\ w = Work("diagonal", d[2], 0, 0)
  BY <1>1, <1>3, <1>4, TaskOperation
<1>5. CASE pc[t] = "run" /\ d[1] \in Borders /\ w = Work(d[1], d[2], d[3], d[4])
  BY <1>1, <1>3, <1>5, TaskOperation DEF Borders
<1>6. CASE pc[t] = "interior" /\ w = Work("interior", d[2], d[3], d[4])
  BY <1>1, <1>3, <1>6, KindsAre, TaskOperation DEF OperationAt
<1>7. CASE pc[t] = "diagonal" /\ w = Work("diagonal", d[2], d[3] + 1, 0)
  BY <1>1, <1>3, <1>7, KindsAre, TaskOperation DEF OperationAt
<1>8. QED
  BY <1>1, <1>4, <1>5, <1>6, <1>7

(* A thread begins an operation.                                           *)
LEMMA StealBeginKeeps ==
  ASSUME StealInv, NEW t \in Threads, NEW w \in Works, Begin(t, w),
         w = OperationAt(pc[t], task[t]), pc[t] \in {"run", "interior", "diagonal"},
         pc[t] = "run" => task[t][1] # "interior"
  PROVE  StealInv'
<1>1. /\ StealMoves(t, pc[t], task[t], w, subtasks[t])
      /\ UNCHANGED <<workers, other, finished, sync1, sync2, version, pending>>
  BY StealHas, StealBegins
<1>2. StagesStep
  BY StealHas, StealBeginStages
<1>3. pc[t] # "countFirstTile" /\ pc[t] # "finish" /\ pc[t] \in TaskLabels
  BY TaskLabelsAre
<1>4. StealLocal(pc[t], task[t], work[t], subtasks[t])
  BY StealHas
<1>5. StealLocal(pc[t], task[t], w, subtasks[t])
  BY <1>3, <1>4 DEF StealLocal
<1>6. QED
  BY <1>1, <1>2, <1>3, <1>5, StealHas, StealQuiet

(* It ends an operation.                                                   *)
LEMMA StealEndKeeps ==
  ASSUME StealInv, NEW t \in Threads, NEW label \in TaskLabels, End(t, label), StagesStep,
         pc[t] \in {"run", "interior", "diagonal"}, task[t][1] \in KindsAt(label),
         label \notin {"push", "pushRest", "finish"},
         label = "countFirstTile" => InFirstTile(task[t][3], task[t][4])
  PROVE  StealInv'
<1>1. /\ StealMoves(t, label, task[t], NoWork, subtasks[t])
      /\ version' = [x \in Cells |-> IF x \in Writes(work[t]) THEN version[x] + 1 ELSE version[x]]
      /\ UNCHANGED <<workers, other, finished, sync1, sync2, pending>>
  BY StealHas, StealEnds
<1>2. version' \in [Cells -> 0 .. Tiles]
  <2>1. PICK f : version' = [x \in Cells |-> f[x]]
    BY <1>1
  <2>2. QED
    BY <2>1, VersionRange DEF StagesStep
<1>3. pc[t] \in TaskLabels /\ pc[t] \notin {"push", "pushRest"} /\ label \in StealLabels
  BY TaskLabelsAre DEF TaskLabels
<1>4. task[t] \in Tasks /\ subtasks[t] \in Seq(Tasks) /\ ~(subtasks[t] # <<>>)
  BY <1>3, StealHas
<1>5. StealLocal(label, task[t], NoWork, subtasks[t])
  BY <1>4, LocalKeep
<1>6. PoolEnds(t, label) /\ other' \in [Threads -> Threads] /\ sync1' \in [MatrixIds -> Nat]
        /\ sync2' \in [MatrixIds -> Nat]
  BY <1>1, StealHas DEF PoolEnds
<1>7. QED
  BY <1>1, <1>2, <1>3, <1>4, <1>5, <1>6, StealFinal

(* Tile operations.                                                        *)
LEMMA StealRunKeeps ==
  ASSUME StealInv, NEW t \in Threads,
         RunStart(t) \/ RunBorder(t) \/ RunInterior(t) \/ NextDiagonal(t)
  PROVE  StealInv'
<1>1. StagesStep
  BY StealHas, StealStepStages DEF Step
<1>2. CASE RunStart(t)
  <2>1. PICK w : w = Work("diagonal", Matrix(t), 0, 0)
    OBVIOUS
  <2>2. pc[t] = "run" /\ Kind(t) = "start" /\ (Begin(t, w) \/ End(t, "scheduleBorder"))
    BY <1>2, <2>1 DEF RunStart
  <2>3. CASE Begin(t, w)
    BY <2>1, <2>2, <2>3, BegunOperation, StealBeginKeeps
  <2>4. CASE End(t, "scheduleBorder")
    BY <1>1, <2>2, <2>4, KindsAre, TaskLabelsAre, StealEndKeeps DEF Kind
  <2>5. QED
    BY <2>2, <2>3, <2>4
<1>3. CASE RunBorder(t)
  <2>1. PICK w : w = Work(Kind(t), Matrix(t), Offset(t), task[t][4])
    OBVIOUS
  <2>2. pc[t] = "run" /\ Kind(t) \in Borders /\ (Begin(t, w) \/ End(t, "countBorder"))
    BY <1>3, <2>1 DEF RunBorder, Borders
  <2>3. CASE Begin(t, w)
    BY <2>1, <2>2, <2>3, BegunOperation, StealBeginKeeps
  <2>4. CASE End(t, "countBorder")
    BY <1>1, <2>2, <2>4, KindsAre, TaskLabelsAre, StealEndKeeps DEF Kind, Borders
  <2>5. QED
    BY <2>2, <2>3, <2>4
<1>4. CASE RunInterior(t)
  <2>1. PICK w, label :
          /\ w = Work("interior", Matrix(t), Offset(t), task[t][4])
          /\ label = IF InFirstTile(Offset(t), task[t][4]) THEN "countFirstTile" ELSE "countChunk"
    OBVIOUS
  <2>2. pc[t] = "interior" /\ (Begin(t, w) \/ End(t, label))
    BY <1>4, <2>1 DEF RunInterior
  <2>3. CASE Begin(t, w)
    BY <2>1, <2>2, <2>3, BegunOperation, StealBeginKeeps
  <2>4. CASE End(t, label)
    BY <1>1, <2>1, <2>2, <2>4, TaskLabelsAre, StealHas, KindsAre, StealEndKeeps DEF Offset
  <2>5. QED
    BY <2>2, <2>3, <2>4
<1>5. CASE NextDiagonal(t)
  <2>1. PICK w : w = Work("diagonal", Matrix(t), Offset(t) + 1, 0)
    OBVIOUS
  <2>2. pc[t] = "diagonal" /\ (Begin(t, w) \/ End(t, "countChunk"))
    BY <1>5, <2>1 DEF NextDiagonal
  <2>3. CASE Begin(t, w)
    BY <2>1, <2>2, <2>3, BegunOperation, StealBeginKeeps
  <2>4. CASE End(t, "countChunk")
    <3>1. pc[t] \in TaskLabels /\ "countChunk" \in TaskLabels
      BY <2>2, TaskLabelsAre
    <3>2. task[t][1] \in KindsAt("countChunk")
      BY <2>2, <3>1, StealHas, KindsAre
    <3>3. QED
      BY <1>1, <2>2, <2>4, <3>1, <3>2, StealEndKeeps
  <2>5. QED
    BY <2>2, <2>3, <2>4
<1>6. QED
  BY <1>2, <1>3, <1>4, <1>5

(* The step of a thread without an operation, which may change counters.   *)
LEMMA CounterKeeps ==
  ASSUME StealInv, NEW t \in Threads, NEW label \in StealLabels,
         NEW job \in Tasks \cup {NoTask}, NEW rest \in Seq(Tasks),
         StealMoves(t, label, job, work[t], rest), work[t] = NoWork,
         StealLocal(label, job, NoWork, rest), StagesStep, label # "finish",
         UNCHANGED <<other, finished, pending, version>>,
         NEW m, NEW n, n \in Nat,
         \/ sync1' = [sync1 EXCEPT ![m] = n] /\ sync2' = sync2
         \/ sync2' = [sync2 EXCEPT ![m] = n] /\ sync1' = sync1
         \/ sync1' = sync1 /\ sync2' = sync2
  PROVE  StealInv'
<1>1. /\ sync1 \in [MatrixIds -> Nat] /\ sync2 \in [MatrixIds -> Nat]
      /\ version \in [Cells -> 0 .. Tiles] /\ other \in [Threads -> Threads]
      /\ work[t] \in Works \cup {NoWork}
  BY StealHas
<1>2. sync1' \in [MatrixIds -> Nat] /\ sync2' \in [MatrixIds -> Nat]
  BY <1>1
<1>3. version' \in [Cells -> 0 .. Tiles] /\ other' \in [Threads -> Threads]
  BY <1>1
<1>4. PoolEnds(t, label)
  BY DEF PoolEnds
<1>5. PICK w : w = work[t] /\ w \in Works \cup {NoWork}
  BY <1>1
<1>6. StealMoves(t, label, job, w, rest) /\ StealLocal(label, job, w, rest)
  BY <1>5
<1>7. QED
  BY <1>2, <1>3, <1>4, <1>5, <1>6, StealFinal

(* A thread that pushes the tasks of a sequence ends its task with the     *)
(* last one.                                                               *)
LEMMA PushAllKeeps ==
  ASSUME StealInv, NEW t \in Threads, pc[t] \in {"scheduleBorder", "storeChunks"},
         NEW new \in Seq(Tasks),
         IF new = <<>> THEN StealMoves(t, "claim", NoTask, work[t], new)
                       ELSE StealMoves(t, "push", task[t], work[t], new),
         StagesStep, UNCHANGED <<other, finished, pending, version>>,
         NEW m, NEW n, n \in Nat,
         \/ sync1' = [sync1 EXCEPT ![m] = n] /\ sync2' = sync2
         \/ sync2' = [sync2 EXCEPT ![m] = n] /\ sync1' = sync1
  PROVE  StealInv'
<1>1. pc[t] \in TaskLabels /\ work[t] = NoWork
  BY StealHas, TaskLabelsAre
<1>2. CASE new = <<>>
  BY <1>1, <1>2, TaskLabelsAre, LocalFree, CounterKeeps
<1>3. CASE new # <<>>
  <2>1. StealMoves(t, "push", task[t], work[t], new)
    BY <1>3
  <2>2. task[t] \in Tasks /\ task[t][1] \in KindsAt("push")
    BY <1>1, StealHas, KindsAre
  <2>3. "push" \in TaskLabels /\ "push" \in StealLabels
    BY TaskLabelsAre DEF TaskLabels
  <2>4. StealLocal("push", task[t], NoWork, new)
    BY <1>3, <2>2, <2>3, LocalKeep
  <2>5. QED
    BY <1>1, <2>1, <2>2, <2>3, <2>4, CounterKeeps
<1>4. QED
  BY <1>2, <1>3

(* schedule_border.                                                        *)
LEMMA BorderStartKeeps ==
  ASSUME StealInv, NEW t \in Threads, StoreBorderCount(t)
  PROVE  StealInv'
<1>1. PICK m, k, new, n : /\ m = Matrix(t) /\ k = NextOffset(t) /\ new = BorderTasks(m, k)
                          /\ n = 2 * BorderChunks(k)
  OBVIOUS
<1>2. /\ pc[t] = "scheduleBorder" /\ sync1' = [sync1 EXCEPT ![m] = n]
      /\ IF new = <<>> THEN StealMoves(t, "claim", NoTask, work[t], new)
                       ELSE StealMoves(t, "push", task[t], work[t], new)
      /\ UNCHANGED <<workers, other, finished, sync2, version, pending>>
  BY <1>1, StealHas, StoreBorderCountEffect
<1>3. StagesStep
  BY StealHas, BorderStartStages
<1>4. m \in MatrixIds /\ k \in Offsets
  <2>1. PICK stage, iteration : StealIn(stage, iteration)
    BY StealHas, StealPick
  <2>2. pc[t] \in StealDrivers
    BY <1>2, LabelFacts
  <2>3. PICK a, b, s : AtStage(t, a, b, s)
    BY <2>1, <2>2, StealHas, ThreadAtStage
  <2>4. QED
    BY <1>1, <1>2, <2>3 DEF AtStage, Reached
<1>5. new \in Seq(Tasks) /\ n \in Nat
  BY <1>1, <1>4, NoChunks, BordersHold DEF Holds
<1>6. QED
  BY <1>2, <1>3, <1>5, PushAllKeeps

(* schedule_interior.                                                      *)
LEMMA InteriorStartKeeps ==
  ASSUME StealInv, NEW t \in Threads, StoreChunks(t)
  PROVE  StealInv'
<1>1. PICK m, k, new, n : /\ m = Matrix(t) /\ k = Offset(t) /\ new = Quarters(m, k)
                          /\ n = InteriorChunks(k)
  OBVIOUS
<1>2. /\ pc[t] = "storeChunks" /\ sync2' = [sync2 EXCEPT ![m] = n]
      /\ IF new = <<>> THEN StealMoves(t, "claim", NoTask, work[t], new)
                       ELSE StealMoves(t, "push", task[t], work[t], new)
      /\ UNCHANGED <<workers, other, finished, sync1, version, pending>>
  BY <1>1, StealHas, StoreChunksEffect
<1>3. StagesStep
  BY StealHas, InteriorStartStages
<1>4. m \in MatrixIds /\ k \in Offsets
  BY <1>1, <1>2, TaskLabelsAre, StealHas, StealTaskParts DEF Matrix, Offset
<1>5. new \in Seq(Tasks) /\ n \in Nat
  BY <1>1, <1>4, NoChunks, QuartersHold DEF Holds
<1>6. QED
  BY <1>2, <1>3, <1>5, PushAllKeeps

(* The first tile is counted from its size down.                           *)
LEMMA FirstTileKeeps ==
  ASSUME StealInv, NEW t \in Threads, StoreFirstTile(t)
  PROVE  StealInv'
<1>1. /\ pc[t] = "storeFirstTile" /\ sync1' = [sync1 EXCEPT ![Matrix(t)] = Parts]
      /\ StealMoves(t, "storeChunks", task[t], work[t], subtasks[t])
      /\ UNCHANGED <<workers, other, finished, sync2, version, pending>>
  BY StealHas, StoreFirstTileEffect
<1>2. StagesStep
  BY StealHas, FirstTileStages
<1>3. pc[t] \in TaskLabels /\ "storeChunks" \in TaskLabels /\ "storeChunks" \in StealLabels
  BY <1>1, TaskLabelsAre DEF TaskLabels
<1>4. /\ work[t] = NoWork /\ subtasks[t] \in Seq(Tasks) /\ ~(subtasks[t] # <<>>)
      /\ task[t] \in Tasks /\ task[t][1] \in KindsAt("storeChunks")
  BY <1>1, <1>3, StealHas, KindsAre
<1>5. StealLocal("storeChunks", task[t], NoWork, subtasks[t])
  BY <1>3, <1>4, LocalKeep
<1>6. QED
  BY <1>1, <1>2, <1>3, <1>4, <1>5, Parameters, CounterKeeps

(* The owner pushes a task.                                                *)
LEMMA PushKeeps ==
  ASSUME StealInv, NEW t \in Threads, Push(t)
  PROVE  StealInv'
<1>1. PICK s, rest : s = subtasks[t] /\ rest = Tail(s)
  OBVIOUS
<1>2. /\ pc[t] \in {"push", "pushRest"}
      /\ \/ Len(s) > 1 /\ StealMoves(t, pc[t], task[t], work[t], rest)
         \/ /\ ~(Len(s) > 1) /\ pc[t] = "push"
            /\ StealMoves(t, "claim", NoTask, work[t], rest)
         \/ /\ ~(Len(s) > 1) /\ pc[t] = "pushRest"
            /\ StealMoves(t, "interior", task[t], work[t], rest)
      /\ UNCHANGED <<other, finished, sync1, sync2, version, pending>>
  BY <1>1, StealHas, StealPushes
<1>3. StagesStep
  BY StealHas, PushStages
<1>4. /\ pc[t] \in TaskLabels /\ work[t] = NoWork
      /\ task[t] \in Tasks /\ task[t][1] \in KindsAt(pc[t])
  BY <1>2, StealHas, TaskLabelsAre
<1>5. rest \in Seq(Tasks) /\ (Len(s) > 1 <=> rest # <<>>)
  <2>1. StealThread(t) /\ s # <<>>
    BY <1>1, <1>2, StealHas, StealAt DEF StealInv
  <2>2. Holds(s, ChunksIn(s))
    BY <1>1, <2>1, StealHas, StealAt
  <2>3. Holds(rest, ChunksIn(s) \ ChunksOf(Head(s))) /\ (Len(s) > 1 <=> rest # <<>>)
    BY <1>1, <2>1, <2>2, SplitHolds
  <2>4. QED
    BY <2>3 DEF Holds
<1>6. CASE Len(s) > 1 /\ StealMoves(t, pc[t], task[t], work[t], rest)
  <2>1. PICK label : label = pc[t]
    OBVIOUS
  <2>2. /\ label \in TaskLabels /\ label \in StealLabels /\ label # "finish" /\ label # "countFirstTile"
        /\ (rest # <<>> <=> label \in {"push", "pushRest"}) /\ StealMoves(t, label, task[t], work[t], rest)
    BY <1>2, <1>4, <1>5, <1>6, <2>1 DEF TaskLabels
  <2>3. StealLocal(label, task[t], NoWork, rest)
    BY <1>4, <2>1, <2>2, LocalKeep
  <2>4. QED
    BY <1>2, <1>3, <1>4, <1>5, <2>2, <2>3, 0 \in Nat, CounterKeeps
<1>7. CASE ~(Len(s) > 1) /\ StealMoves(t, "claim", NoTask, work[t], rest)
  BY <1>2, <1>3, <1>4, <1>5, <1>7, TaskLabelsAre, LocalFree, 0 \in Nat, CounterKeeps
<1>8. CASE ~(Len(s) > 1) /\ pc[t] = "pushRest" /\ StealMoves(t, "interior", task[t], work[t], rest)
  <2>1. ~(rest # <<>>) /\ "interior" \in TaskLabels /\ "interior" \in StealLabels
    BY <1>5, <1>8, TaskLabelsAre DEF TaskLabels
  <2>2. task[t][1] \in KindsAt("interior")
    BY <1>4, <1>8, KindsAre
  <2>3. StealLocal("interior", task[t], NoWork, rest)
    BY <1>4, <2>1, <2>2, LocalKeep
  <2>4. QED
    BY <1>2, <1>3, <1>4, <1>5, <1>8, <2>1, <2>3, 0 \in Nat, CounterKeeps
<1>9. QED
  BY <1>2, <1>6, <1>7, <1>8

(* A border chunk is counted.                                              *)
LEMMA CountBorderKeeps ==
  ASSUME StealInv, NEW t \in Threads, CountBorder(t)
  PROVE  StealInv'
<1>1. PICK m, n : m = Matrix(t) /\ n = sync1[m] - 1
  OBVIOUS
<1>2. /\ pc[t] = "countBorder" /\ sync1' = [sync1 EXCEPT ![m] = n]
      /\ IF sync1[m] = 1 THEN StealMoves(t, "storeFirstTile", task[t], work[t], subtasks[t])
                         ELSE StealMoves(t, "claim", NoTask, work[t], subtasks[t])
      /\ UNCHANGED <<workers, other, finished, sync2, version, pending>>
  BY <1>1, StealHas, CountBorderEffect
<1>3. StagesStep /\ sync1[m] >= 1 /\ m \in MatrixIds
  BY <1>1, StealHas, BorderCountedStages
<1>4. n \in Nat
  BY <1>1, <1>3, StealHas
<1>5. pc[t] \in TaskLabels /\ "storeFirstTile" \in TaskLabels /\ "storeFirstTile" \in StealLabels
        /\ "claim" \in ClaimLabels /\ "claim" \in StealLabels
  BY <1>2, TaskLabelsAre DEF TaskLabels
<1>6. /\ work[t] = NoWork /\ subtasks[t] \in Seq(Tasks) /\ ~(subtasks[t] # <<>>)
      /\ task[t] \in Tasks /\ task[t][1] \in KindsAt("storeFirstTile")
  BY <1>2, <1>5, StealHas, KindsAre
<1>7. /\ StealLocal("storeFirstTile", task[t], NoWork, subtasks[t])
      /\ StealLocal("claim", NoTask, NoWork, subtasks[t])
  BY <1>5, <1>6, LocalKeep, LocalFree
<1>8. CASE StealMoves(t, "storeFirstTile", task[t], work[t], subtasks[t])
  BY <1>2, <1>3, <1>4, <1>5, <1>6, <1>7, <1>8, CounterKeeps
<1>9. CASE StealMoves(t, "claim", NoTask, work[t], subtasks[t])
  BY <1>2, <1>3, <1>4, <1>5, <1>6, <1>7, <1>9, CounterKeeps
<1>10. QED
  BY <1>2, <1>8, <1>9

(* A chunk of the first tile is counted for it.                            *)
LEMMA CountFirstTileKeeps ==
  ASSUME StealInv, NEW t \in Threads, CountFirstTile(t)
  PROVE  StealInv'
<1>1. PICK m, n, label : /\ m = Matrix(t) /\ n = sync1[m] - 1
                         /\ label = IF sync1[m] = 1 THEN "diagonal" ELSE "countChunk"
  OBVIOUS
<1>2. /\ pc[t] = "countFirstTile" /\ sync1' = [sync1 EXCEPT ![m] = n]
      /\ StealMoves(t, label, task[t], work[t], subtasks[t])
      /\ UNCHANGED <<workers, other, finished, sync2, version, pending>>
  BY <1>1, StealHas, CountFirstTileEffect
<1>3. StagesStep /\ sync1[m] >= 1 /\ m \in MatrixIds
  BY <1>1, StealHas, FirstCountedStages
<1>4. n \in Nat
  BY <1>1, <1>3, StealHas
<1>5. /\ label \in {"diagonal", "countChunk"} /\ pc[t] \in TaskLabels
      /\ label \in TaskLabels /\ label \in StealLabels
  BY <1>1, <1>2, TaskLabelsAre DEF TaskLabels
<1>6. /\ work[t] = NoWork /\ subtasks[t] \in Seq(Tasks) /\ ~(subtasks[t] # <<>>)
      /\ task[t] \in Tasks /\ task[t][1] \in KindsAt(label)
  BY <1>2, <1>5, StealHas, KindsAre
<1>7. label \notin {"push", "pushRest"} /\ label # "finish" /\ label # "countFirstTile"
  BY <1>5
<1>8. StealLocal(label, task[t], NoWork, subtasks[t])
  BY <1>5, <1>6, <1>7, LocalKeep
<1>9. QED
  BY <1>2, <1>3, <1>4, <1>5, <1>6, <1>7, <1>8, CounterKeeps

(* A chunk of the interior is counted.                                     *)
LEMMA CountChunkKeeps ==
  ASSUME StealInv, NEW t \in Threads, CountChunk(t)
  PROVE  StealInv'
<1>1. PICK m, n, label :
        /\ m = Matrix(t) /\ n = sync2[m] - 1
        /\ label = IF NextOffset(t) + 1 >= Tiles THEN "countMatrix" ELSE "scheduleBorder"
  OBVIOUS
<1>2. /\ pc[t] = "countChunk" /\ sync2' = [sync2 EXCEPT ![m] = n]
      /\ IF sync2[m] # 1 THEN StealMoves(t, "claim", NoTask, work[t], subtasks[t])
                         ELSE StealMoves(t, label, task[t], work[t], subtasks[t])
      /\ UNCHANGED <<workers, other, finished, sync1, version, pending>>
  BY <1>1, StealHas, CountChunkEffect
<1>3. StagesStep /\ sync2[m] >= 1 /\ m \in MatrixIds
  BY <1>1, StealHas, ChunkCountedStages
<1>4. n \in Nat
  BY <1>1, <1>3, StealHas
<1>5. /\ label \in {"countMatrix", "scheduleBorder"} /\ pc[t] \in TaskLabels
      /\ label \in TaskLabels /\ label \in StealLabels
      /\ "claim" \in ClaimLabels /\ "claim" \in StealLabels
  BY <1>1, <1>2, TaskLabelsAre DEF TaskLabels
<1>6. /\ work[t] = NoWork /\ subtasks[t] \in Seq(Tasks) /\ ~(subtasks[t] # <<>>)
      /\ task[t] \in Tasks /\ task[t][1] \in KindsAt(label)
  BY <1>2, <1>5, StealHas, KindsAre
<1>7. label \notin {"push", "pushRest"} /\ label # "finish" /\ label # "countFirstTile"
  BY <1>5
<1>8. /\ StealLocal(label, task[t], NoWork, subtasks[t])
      /\ StealLocal("claim", NoTask, NoWork, subtasks[t])
  BY <1>5, <1>6, <1>7, LocalKeep, LocalFree
<1>9. CASE StealMoves(t, label, task[t], work[t], subtasks[t])
  BY <1>2, <1>3, <1>4, <1>5, <1>6, <1>7, <1>8, <1>9, CounterKeeps
<1>10. CASE StealMoves(t, "claim", NoTask, work[t], subtasks[t])
  BY <1>2, <1>3, <1>4, <1>5, <1>6, <1>8, <1>10, CounterKeeps
<1>11. QED
  BY <1>2, <1>9, <1>10

(* An interior task sets its chunks but the first apart.                   *)
LEMMA SplitKeeps ==
  ASSUME StealInv, NEW t \in Threads, SplitInterior(t)
  PROVE  StealInv'
<1>1. PICK rest, label : rest = Rest(t) /\ label = IF rest = <<>> THEN "interior" ELSE "pushRest"
  OBVIOUS
<1>2. /\ pc[t] = "run" /\ task[t][1] = "interior"
      /\ StealMoves(t, label, task[t], work[t], rest)
      /\ UNCHANGED <<workers, other, finished, sync1, sync2, version, pending>>
  BY <1>1, StealHas, SplitInteriorEffect
<1>3. StagesStep
  BY StealHas, SplitStages
<1>4. /\ label \in {"interior", "pushRest"} /\ pc[t] \in TaskLabels
      /\ label \in TaskLabels /\ label \in StealLabels
  BY <1>1, <1>2, TaskLabelsAre DEF TaskLabels
<1>5. task[t] \in Tasks /\ task[t][1] \in KindsAt(label)
  BY <1>2, <1>4, StealHas, KindsAre
<1>6. rest \in Seq(Tasks)
  BY <1>1, <1>2, <1>5, RestHolds DEF Holds
<1>7. work[t] = NoWork
  BY <1>2, StealHas DEF StealLocal
<1>8. /\ rest # <<>> <=> label \in {"push", "pushRest"}
      /\ label # "countFirstTile" /\ label # "finish"
  BY <1>1, Zenon
<1>9. StealLocal(label, task[t], NoWork, rest)
  BY <1>4, <1>5, <1>8, LocalKeep
<1>10. QED
  BY <1>2, <1>3, <1>4, <1>5, <1>6, <1>7, <1>8, <1>9, 0 \in Nat, CounterKeeps

(* A matrix is counted, and the pool finished after the last one.          *)
LEMMA CountMatrixKeeps ==
  ASSUME StealInv, NEW t \in Threads, CountMatrix(t)
  PROVE  StealInv'
<1>1. /\ pc[t] = "countMatrix" /\ pending' = pending - 1
      /\ IF pending = 1 THEN StealMoves(t, "finish", task[t], work[t], subtasks[t])
                        ELSE StealMoves(t, "claim", NoTask, work[t], subtasks[t])
      /\ UNCHANGED <<workers, other, finished, sync1, sync2, version>>
  BY StealHas, CountMatrixEffect
<1>2. StagesStep /\ pending \in 1 .. Matrices
  BY StealHas, MatrixCountedStages
<1>3. pc[t] \in TaskLabels /\ "finish" \in TaskLabels /\ "finish" \in StealLabels
        /\ "claim" \in ClaimLabels /\ "claim" \in StealLabels
  BY <1>1, TaskLabelsAre DEF TaskLabels
<1>4. /\ work[t] = NoWork /\ work[t] \in Works \cup {NoWork}
      /\ subtasks[t] \in Seq(Tasks) /\ ~(subtasks[t] # <<>>)
      /\ task[t] \in Tasks /\ task[t][1] \in KindsAt("finish")
  BY <1>1, <1>3, StealHas, KindsAre
<1>5. /\ StealLocal("finish", task[t], work[t], subtasks[t])
      /\ StealLocal("claim", NoTask, work[t], subtasks[t])
  BY <1>3, <1>4, LocalKeep, LocalFree
<1>6. /\ other' \in [Threads -> Threads] /\ sync1' \in [MatrixIds -> Nat]
      /\ sync2' \in [MatrixIds -> Nat] /\ version' \in [Cells -> 0 .. Tiles]
  BY <1>1, StealHas
<1>7. CASE pending = 1
  BY <1>1, <1>2, <1>3, <1>4, <1>5, <1>6, <1>7, StealFinal DEF PoolEnds
<1>8. CASE pending # 1
  BY <1>1, <1>2, <1>3, <1>4, <1>5, <1>6, <1>8, StealFinal DEF PoolEnds
<1>9. QED
  BY <1>7, <1>8

(* The pool is finished.                                                   *)
LEMMA FinishKeeps ==
  ASSUME StealInv, NEW t \in Threads, FinishPool(t)
  PROVE  StealInv'
<1>1. /\ pc[t] = "finish" /\ finished' = TRUE
      /\ StealMoves(t, "claim", NoTask, work[t], subtasks[t])
      /\ UNCHANGED <<workers, other, sync1, sync2, version, pending>>
  BY StealHas, FinishPoolEffect
<1>2. StagesStep
  BY StealHas, FinishStages
<1>3. "claim" \in ClaimLabels /\ "claim" \in StealLabels
  BY TaskLabelsAre
<1>4. /\ work[t] = NoWork /\ work[t] \in Works \cup {NoWork}
      /\ subtasks[t] \in Seq(Tasks) /\ ~(subtasks[t] # <<>>)
  BY <1>1, StealHas
<1>5. StealLocal("claim", NoTask, work[t], subtasks[t])
  BY <1>3, <1>4, LocalFree
<1>6. /\ other' \in [Threads -> Threads] /\ sync1' \in [MatrixIds -> Nat]
      /\ sync2' \in [MatrixIds -> Nat] /\ version' \in [Cells -> 0 .. Tiles]
  BY <1>1, StealHas
<1>7. PoolEnds(t, "claim")
  BY <1>1 DEF PoolEnds
<1>8. QED
  BY <1>1, <1>2, <1>3, <1>4, <1>5, <1>6, <1>7, StealFinal

(* Every step keeps the invariant.                                         *)
LEMMA StealStepKeeps ==
  ASSUME StealInv, NEW t \in Threads, Step(t)
  PROVE  StealInv'
<1>1. CASE Claim(t) /\ UNCHANGED ludVars
  BY <1>1, StealClaimKeeps
<1>2. CASE RunStart(t) \/ RunBorder(t) \/ RunInterior(t) \/ NextDiagonal(t)
  BY <1>2, StealRunKeeps
<1>3. CASE StoreBorderCount(t) \/ StoreFirstTile(t) \/ StoreChunks(t)
  BY <1>3, BorderStartKeeps, FirstTileKeeps, InteriorStartKeeps
<1>4. CASE Push(t) \/ SplitInterior(t)
  BY <1>4, PushKeeps, SplitKeeps
<1>5. CASE CountBorder(t) \/ CountFirstTile(t) \/ CountChunk(t)
  BY <1>5, CountBorderKeeps, CountFirstTileKeeps, CountChunkKeeps
<1>6. CASE CountMatrix(t) \/ FinishPool(t)
  BY <1>6, CountMatrixKeeps, FinishKeeps
<1>7. QED
  BY <1>1, <1>2, <1>3, <1>4, <1>5, <1>6 DEF Step

(* A step that changes nothing keeps it too.                               *)
LEMMA StealStutters ==
  ASSUME StealInv, UNCHANGED vars
  PROVE  StealInv'
<1>1. UNCHANGED <<workers, finished, pc, other, task, version, sync1, sync2, pending, work, subtasks>>
  BY DEF vars, stealerVars, ludVars
<1>2. PICK t \in Threads : TRUE
  BY StealerAssumption DEF Threads
<1>3. /\ StealBasis /\ StealStagesInv /\ TypeOK /\ ChunkOnce /\ StealThread(t)
  BY StealHas DEF StealInv
<1>4. StealMoves(t, pc[t], task[t], work[t], subtasks[t])
  BY <1>1, <1>3, StealTypes DEF StealMoves
<1>5. StagesStep
  BY <1>1, <1>3, <1>4, NoShift, QuietStages
<1>6. TypeOK'
  BY <1>1, <1>3, StealTypes
<1>7. ASSUME NEW u \in Threads PROVE StealThread(u)'
  BY <1>1, StealThreadIs DEF StealInv, FinishesAlone
<1>8. finished' => pending' = 0
  BY <1>1 DEF StealInv
<1>9. QED
  BY <1>5, <1>6, <1>7, <1>8 DEF StealInv, StagesStep

(* The invariant is inductive.                                             *)
LEMMA StealNextKeeps == StealInv /\ [Next]_vars => StealInv'
<1>1. ASSUME StealInv, Next PROVE StealInv'
  BY <1>1, StealStepKeeps DEF Next
<1>2. QED
  BY <1>1, StealStutters

-----------------------------------------------------------------------------
(* The invariant holds at first.                                           *)

\* The indices of the initial tasks that are dealt to a thread.
Dealt(t) == {i \in 1 .. Matrices : (i - 1) % N = t}

(* Every thread has as many tasks as there are indices for it.             *)
LEMMA DealtIndex ==
  ASSUME NEW t \in Threads
  PROVE  /\ Cardinality(Dealt(t)) \in Nat
         /\ \A j \in 1 .. Cardinality(Dealt(t)) : t + 1 + (j - 1) * N \in 1 .. Matrices
<1> DEFINE M == Dealt(t)
           c == Cardinality(M)
           q(i) == (i - 1) \div N
<1>1. N \in Nat \ {0} /\ t \in 0 .. N - 1 /\ Matrices \in Nat
  BY StealerAssumption, Parameters DEF Threads
<1>2. IsFiniteSet(M) /\ c \in Nat
  <2>1. IsFiniteSet(1 .. Matrices)
    BY <1>1, FS_Interval
  <2>2. M \subseteq 1 .. Matrices
    BY DEF Dealt
  <2>3. IsFiniteSet(M)
    BY <2>1, <2>2, FS_Subset
  <2>4. QED
    BY <2>3, FS_CardinalityType
<1>3. ASSUME NEW i \in M PROVE q(i) \in Nat /\ i \in 1 .. Matrices /\ i - 1 = q(i) * N + t
  <2>1. i \in 1 .. Matrices /\ (i - 1) % N = t
    BY DEF Dealt
  <2>2. i - 1 \in Nat
    BY <1>1, <2>1
  <2>3. PICK a \in Nat : a = i - 1
    BY <2>2
  <2>4. a \div N \in Nat /\ a = (a \div N) * N + (a % N)
    BY <1>1, DivMod
  <2>5. QED
    BY <2>1, <2>3, <2>4
<1>4. ASSUME NEW j \in 1 .. c PROVE t + 1 + (j - 1) * N \in 1 .. Matrices
  <2>1. j \in Nat /\ j >= 1 /\ j <= c
    BY <1>2
  <2>2. PICK p \in Nat : p = j - 1
    BY <2>1
  <2>3. p * N \in Nat
    BY <1>1
  <2>4. SUFFICES ASSUME t + 1 + p * N > Matrices PROVE FALSE
    BY <1>1, <2>2, <2>3
  <2>5. ASSUME NEW i \in M PROVE q(i) \in 0 .. p - 1
    <3>1. PICK b \in Nat : b = q(i)
      BY <1>3
    <3>2. b * N \in Nat /\ b * N < p * N
      BY <1>1, <1>3, <2>3, <2>4, <3>1
    <3>3. b < p
      <4>1. ASSUME p < b PROVE FALSE
        BY <1>1, <2>3, <3>2, <4>1
      <4>2. p # b
        BY <3>2
      <4>3. QED
        BY <4>1, <4>2
    <3>4. QED
      BY <3>1, <3>3
  <2> DEFINE f == [i \in M |-> q(i)]
  <2>6. f \in Injection(M, 0 .. p - 1)
    <3>1. \A i, k \in M : q(i) = q(k) => i = k
      BY <1>3
    <3>2. \A i \in M : f[i] = q(i)
      OBVIOUS
    <3>3. f \in [M -> 0 .. p - 1]
      BY <2>5
    <3> HIDE DEF f, q, M
    <3>4. \A i, k \in M : f[i] = f[k] => i = k
      BY <3>1, <3>2
    <3>5. QED
      BY <3>3, <3>4 DEF Injection, IsInjective
  <2>7. IsFiniteSet(0 .. p - 1) /\ Cardinality(0 .. p - 1) = p
    BY FS_Interval
  <2> HIDE DEF f, M
  <2>8. Cardinality(M) <= p
    BY <2>6, <2>7, FS_Injection
  <2>9. QED
    BY <1>2, <2>1, <2>2, <2>8
<1>5. QED
  BY <1>2, <1>4

(* The tasks in a deque at first, which start matrices of its thread only. *)
LEMMA DealtTasks ==
  ASSUME Init, NEW t \in Threads
  PROVE  /\ Holds(workers[t], ChunksIn(workers[t]))
         /\ \A x \in ChunksIn(workers[t]) :
              x = StartTask(x[2]) /\ x[1] = "start" /\ x[3] = 0 /\ x[2] \in Nat /\ x[2] % N = t
<1> DEFINE c == Cardinality(Dealt(t))
           a(j) == t + (j - 1) * N
           s == [j \in 1 .. c |-> StartTask(a(j))]
<1>1. N \in Nat \ {0} /\ t \in 0 .. N - 1 /\ Matrices \in Nat /\ c \in Nat
  BY StealerAssumption, Parameters, DealtIndex DEF Threads
<1>2. ASSUME NEW j \in 1 .. c
      PROVE  /\ a(j) \in MatrixIds /\ a(j) \in Nat /\ a(j) + 1 = t + 1 + (j - 1) * N
             /\ a(j) % N = t /\ a(j) \div N = j - 1
  <2>1. t + 1 + (j - 1) * N \in 1 .. Matrices
    BY DealtIndex
  <2>2. PICK p \in Nat : p = j - 1
    BY <1>1
  <2>3. p * N \in Nat /\ a(j) = p * N + t
    BY <1>1, <2>2
  <2>4. (p * N + t) \div N = p /\ (p * N + t) % N = t
    BY <1>1, DivUnique
  <2>5. t + 1 + p * N \in 1 .. Matrices
    BY <2>1, <2>2
  <2>6. p * N + t \in 0 .. Matrices - 1
    BY <1>1, <2>3, <2>5
  <2>7. QED
    BY <1>1, <2>2, <2>3, <2>4, <2>6 DEF MatrixIds
<1>3. workers[t] = s
  <2>1. PICK tasks : tasks = [i \in 1 .. Matrices |-> StartTask(i - 1)] /\ StealerInit(tasks)
    BY DEF Init
  <2>2. DOMAIN tasks = 1 .. Matrices /\ \A i \in 1 .. Matrices : tasks[i] = StartTask(i - 1)
    BY <2>1
  <2>3. {i \in DOMAIN tasks : (i - 1) % N = t} = Dealt(t)
    BY <2>2 DEF Dealt
  <2>4. workers[t] = [j \in 1 .. Cardinality({i \in DOMAIN tasks : (i - 1) % N = t}) |->
                        tasks[t + 1 + (j - 1) * N]]
    <3> DEFINE D(u) == [j \in 1 .. Cardinality({i \in DOMAIN tasks : (i - 1) % N = u}) |->
                          tasks[u + 1 + (j - 1) * N]]
    <3>1. workers = [u \in Threads |-> D(u)]
      BY <2>1 DEF StealerInit
    <3> HIDE DEF D
    <3>2. workers[t] = D(t)
      BY <3>1
    <3>3. QED
      BY <3>2 DEF D
  <2>5. workers[t] = [j \in 1 .. c |-> tasks[t + 1 + (j - 1) * N]]
    BY <2>3, <2>4
  <2>6. ASSUME NEW j \in 1 .. c PROVE tasks[t + 1 + (j - 1) * N] = StartTask(a(j))
    <3>1. PICK i : i = t + 1 + (j - 1) * N
      OBVIOUS
    <3>2. i \in 1 .. Matrices /\ i - 1 = a(j)
      <4>1. i \in 1 .. Matrices /\ a(j) + 1 = i /\ a(j) \in Nat
        BY <1>2, <3>1, DealtIndex
      <4> HIDE DEF a
      <4>2. QED
        BY <4>1
    <3>3. tasks[i] = StartTask(i - 1)
      BY <2>2, <3>2
    <3>4. QED
      BY <3>1, <3>2, <3>3
  <2> HIDE DEF c, a
  <2>7. QED
    BY <2>5, <2>6
<1>4. ASSUME NEW j \in 1 .. c
      PROVE  StartTask(a(j)) \in Tasks /\ ChunksOf(StartTask(a(j))) = {<<"start", a(j), 0, 0>>}
  <2>1. StartTask(a(j)) \in Tasks
    BY <1>2, MadeTasks
  <2>2. PICK m : m = a(j)
    OBVIOUS
  <2>3. <<"start", m, 0, 0>>[1] # "interior"
    OBVIOUS
  <2>4. ChunksOf(<<"start", m, 0, 0>>) = {<<"start", m, 0, 0>>}
    BY <2>3 DEF ChunksOf
  <2>5. QED
    BY <2>1, <2>2, <2>4 DEF StartTask
<1> HIDE DEF c, a
<1>5. s \in Seq(Tasks) /\ Len(s) = c /\ \A j \in 1 .. c : s[j] = StartTask(a(j))
  BY <1>1, <1>4
<1> HIDE DEF s
<1>6. \A x : x \in ChunksIn(s) <=> \E j \in 1 .. c : x = <<"start", a(j), 0, 0>>
  BY <1>4, <1>5, ChunkInSeq
<1>7. ASSUME NEW x \in ChunksIn(s)
      PROVE  x = StartTask(x[2]) /\ x[1] = "start" /\ x[3] = 0 /\ x[2] \in Nat /\ x[2] % N = t
  <2>1. PICK j \in 1 .. c : x = <<"start", a(j), 0, 0>>
    BY <1>6
  <2>2. x[1] = "start" /\ x[2] = a(j) /\ x[3] = 0
    BY <2>1
  <2>3. x = StartTask(a(j))
    BY <2>1 DEF StartTask
  <2>4. QED
    BY <1>2, <2>2, <2>3
<1>8. Apart(s)
  <2>1. SUFFICES ASSUME NEW i \in 1 .. c, NEW j \in 1 .. c, i # j, NEW x,
                        x \in ChunksOf(s[i]), x \in ChunksOf(s[j])
                 PROVE  FALSE
    BY <1>5, ChunkInSeq
  <2>2. x = <<"start", a(i), 0, 0>> /\ x = <<"start", a(j), 0, 0>>
    BY <1>4, <1>5, <2>1
  <2>3. a(i) = a(j)
    BY <2>2
  <2>4. i - 1 = j - 1
    BY <1>2, <2>3
  <2>5. QED
    BY <1>1, <2>1, <2>4
<1>9. QED
  BY <1>3, <1>5, <1>7, <1>8 DEF Holds

(* What the variables are at first.                                        *)
LEMMA StealAtFirst ==
  ASSUME Init
  PROVE  /\ version = [x \in Cells |-> 0] /\ pending = Matrices /\ finished = FALSE
         /\ sync1 = [m \in MatrixIds |-> 0] /\ sync2 = [m \in MatrixIds |-> 0]
         /\ work = [t \in Threads |-> NoWork] /\ subtasks = [t \in Threads |-> <<>>]
         /\ pc = [t \in Threads |-> "claim"] /\ task = [t \in Threads |-> NoTask]
         /\ other = [t \in Threads |-> t] /\ workers \in [Threads -> Seq(Tasks)]
<1>1. PICK tasks : StealerInit(tasks)
  BY DEF Init
<1>2. /\ finished = FALSE /\ pc = [t \in Threads |-> "claim"]
      /\ task = [t \in Threads |-> NoTask] /\ other = [t \in Threads |-> t]
  BY <1>1 DEF StealerInit
<1>3. workers \in [Threads -> Seq(Tasks)]
  BY <1>1, DealtTasks DEF StealerInit, Holds
<1>4. /\ version = [x \in Cells |-> 0] /\ pending = Matrices
      /\ sync1 = [m \in MatrixIds |-> 0] /\ sync2 = [m \in MatrixIds |-> 0]
      /\ work = [t \in Threads |-> NoWork] /\ subtasks = [t \in Threads |-> <<>>]
  BY DEF Init
<1>5. QED
  BY <1>2, <1>3, <1>4

(* What is held at first: tasks to start, in deques.                       *)
LEMMA HeldAtFirst ==
  ASSUME Init, NEW h \in Holders, NEW x \in Held(h)
  PROVE  /\ h = <<"deque", h[2]>> /\ h[2] \in Threads
         /\ x = StartTask(x[2]) /\ x[1] = "start" /\ x[3] = 0 /\ x[2] \in Nat /\ x[2] % N = h[2]
<1>1. PICK p \in Anywhere, t \in Threads : h = <<p, t>> /\ h[2] = t
  BY HolderIs
<1>2. Held(<<p, t>>) = HeldBy(p, t, workers[t], subtasks[t], pc[t], task[t])
  BY HeldAt
<1>3. x \in HeldBy(p, t, workers[t], subtasks[t], pc[t], task[t])
  BY <1>1, <1>2
<1>4. pc[t] = "claim" /\ subtasks[t] = <<>>
  BY StealAtFirst
<1>5. p = "deque"
  <2>1. CASE p = "push"
    BY <1>3, <1>4, <2>1, EmptyHolds, HeldTable DEF Holds
  <2>2. CASE p \in {"run", "first", "count"}
    BY <1>3, <1>4, <2>2, LabelFacts, EmptyHeld
  <2>3. QED
    BY <2>1, <2>2 DEF Anywhere
<1>6. x \in ChunksIn(workers[t])
  BY <1>3, <1>5, HeldTable
<1>7. QED
  BY <1>1, <1>5, <1>6, DealtTasks

(* Every matrix waits for its start.                                       *)
LEMMA StageAtFirst ==
  ASSUME Init, NEW m \in MatrixIds
  PROVE  StealStage(m, 0, "start")
<1>1. 0 \in Offsets /\ "start" \in StealStages /\ Tiles \in Nat \ {0}
  BY Parameters DEF Offsets, StealStages
<1>2. ASSUME NEW x \in HeldIn(Anywhere, m) PROVE x[1] \in KindsLeft("start") /\ x[3] = 0
  <2>1. PICK h \in Holders : x \in Held(h)
    BY HeldInIs
  <2>2. x[1] = "start" /\ x[3] = 0
    BY <2>1, HeldAtFirst
  <2>3. QED
    BY <2>2 DEF KindsLeft
<1>3. DriverInStage(m, 0, "start")
  BY StealAtFirst DEF StealDrivers, DriversOf, DriverInStage
<1>4. CountersInStage(m, "start")
  BY StealAtFirst DEF CountersInStage
<1>5. ASSUME NEW x \in Cells PROVE version[x] = ReachedVersion(m, 0, "start", x)
  <2>1. version[x] = 0 /\ Final(x) \in 1 .. Tiles
    BY StealAtFirst, Finals
  <2>2. CASE x[2] = 0 /\ x[4] = 0
    BY <1>1, <2>1, <2>2, ReachedCases
  <2>3. CASE Updated(x, 0)
    <3>1. Waits(m, 0, "start", x)
      BY DEF Waits, OwnerName, KindsToCome
    <3>2. QED
      BY <1>1, <2>1, <2>3, <3>1, ReachedCases
  <2>4. ~(Final(x) <= 0)
    BY <1>1, <2>1
  <2>5. QED
    BY <1>1, <2>2, <2>3, <2>4, ReachedCases
<1>6. QED
  BY <1>1, <1>2, <1>3, <1>4, <1>5 DEF StealStage

(* The invariant holds at first.                                           *)
LEMMA StealInit == Init => StealInv
<1> SUFFICES ASSUME Init PROVE StealInv
  OBVIOUS
<1>1. TypeOK
  <2>1. N \in Nat \ {0} /\ Tiles \in Nat /\ Matrices \in Nat
    BY StealerAssumption, Parameters
  <2>2. version \in [Cells -> 0 .. Tiles]
    BY <2>1, StealAtFirst
  <2>3. <<>> \in Seq(Tasks) /\ "claim" \in StealLabels
    BY EmptySeq, TaskLabelsAre
  <2>4. subtasks \in [Threads -> Seq(Tasks)] /\ pc \in [Threads -> StealLabels]
    BY <2>3, StealAtFirst
  <2>5. /\ other \in [Threads -> Threads] /\ task \in [Threads -> Tasks \cup {NoTask}]
        /\ work \in [Threads -> Works \cup {NoWork}] /\ workers \in [Threads -> Seq(Tasks)]
        /\ finished \in BOOLEAN
    BY StealAtFirst
  <2>6. sync1 \in [MatrixIds -> Nat] /\ sync2 \in [MatrixIds -> Nat] /\ pending \in 0 .. Matrices
    BY <2>1, StealAtFirst
  <2>7. QED
    BY <2>2, <2>4, <2>5, <2>6, StealTypes
<1>2. ChunkOnce
  <2>1. HeldOnce
    <3>1. SUFFICES ASSUME NEW g \in Holders, NEW h \in Holders, NEW x, x \in Held(g),
                          x \in Held(h)
                   PROVE  g = h
      BY DEF HeldOnce
    <3>2. QED
      BY <3>1, HeldAtFirst
  <2>2. \A t \in Threads : Apart(workers[t]) /\ Apart(subtasks[t])
    BY EmptyHolds, DealtTasks, StealAtFirst DEF Holds
  <2>3. QED
    BY <2>1, <2>2, ChunkOnceIs
<1>3. ASSUME NEW t \in Threads PROVE StealThread(t)
  BY StealAtFirst, TaskLabelsAre, LocalFree, StealThreadIs DEF FinishesAlone
<1>4. StealStagesInv
  <2> DEFINE stage == [m \in MatrixIds |-> "start"]
             iteration == [m \in MatrixIds |-> 0]
  <2>1. 0 \in Offsets /\ "start" \in StealStages /\ "start" # "done" /\ Matrices \in Nat \ {0}
    BY Parameters DEF Offsets, StealStages
  <2>2. stage \in [MatrixIds -> StealStages] /\ iteration \in [MatrixIds -> Offsets]
    BY <2>1
  <2>3. \A m \in MatrixIds : stage[m] = "start" /\ iteration[m] = 0
    OBVIOUS
  <2> HIDE DEF stage, iteration
  <2>4. \A m \in MatrixIds : StealStage(m, iteration[m], stage[m])
    BY <2>3, StageAtFirst
  <2>5. {m \in MatrixIds : stage[m] # "done"} = 0 .. Matrices - 1
    BY <2>1, <2>3 DEF MatrixIds
  <2>6. Cardinality(0 .. Matrices - 1) = Matrices
    BY <2>1, FS_Interval
  <2>7. pending = Cardinality({m \in MatrixIds : stage[m] # "done"})
    BY <2>5, <2>6, StealAtFirst
  <2>8. QED
    BY <2>2, <2>4, <2>7 DEF StealStagesInv
<1>5. finished => pending = 0
  BY StealAtFirst
<1>6. QED
  BY <1>1, <1>2, <1>3, <1>4, <1>5 DEF StealInv

(* The invariant always holds.                                             *)
LEMMA StealAlways == Spec => []StealInv
BY StealInit, StealNextKeeps, PTL DEF Spec

(* What the counters say, from the stages.                                 *)
LEMMA StealCounters == StealInv => CountersInv
<1> SUFFICES ASSUME StealInv PROVE CountersInv
  OBVIOUS
<1>1. TypeOK /\ ChunkOnce /\ StealBasis
  BY DEF StealInv, StealBasis
<1>2. PICK stage, iteration : StealIn(stage, iteration)
  BY StealPick DEF StealInv
<1>3. \A kinds, m, x :
        x \in Uncounted(kinds, m) <=> x \in HeldIn(Anywhere, m) /\ x[1] \in kinds
  BY DEF Uncounted
<1>4. ASSUME NEW kinds, NEW m, \A x \in HeldIn(Anywhere, m) : x[1] \in kinds
      PROVE  Uncounted(kinds, m) = HeldIn(Anywhere, m)
  <2>1. \A x : x \in Uncounted(kinds, m) <=> x \in HeldIn(Anywhere, m)
    BY <1>3, <1>4
  <2>2. QED
    BY <2>1
<1>5. ASSUME NEW m \in MatrixIds
      PROVE  /\ Uncounted(Borders, m) # {} => sync1[m] = Cardinality(Uncounted(Borders, m))
             /\ sync2[m] = Cardinality(Uncounted({"interior"}, m))
  <2>1. PICK k, s : k = iteration[m] /\ s = stage[m]
    OBVIOUS
  <2>2. k \in Offsets /\ s \in StealStages /\ StealStage(m, k, s)
    BY <1>2, <2>1, StealStageOf
  <2>3. \A x \in HeldIn(Anywhere, m) : x[1] \in KindsLeft(s)
    BY <2>2 DEF StealStage
  <2>4. /\ s \notin {"interior", "diagonal", "ahead"} => sync2[m] = 0
        /\ s \in {"interior", "diagonal", "ahead"} => sync2[m] = Cardinality(HeldIn(Anywhere, m))
        /\ s = "borders" => sync1[m] = Cardinality(HeldIn(Anywhere, m))
    BY <2>2, CountersWere
  <2>5. ASSUME Uncounted(Borders, m) # {}
        PROVE  sync1[m] = Cardinality(Uncounted(Borders, m))
    <3>1. PICK x \in HeldIn(Anywhere, m) : x[1] \in Borders
      BY <1>3, <2>5
    <3>2. s = "borders"
      BY <2>2, <2>3, <3>1, KindStage
    <3>3. KindsLeft(s) = Borders
      BY <3>2 DEF KindsLeft, Borders
    <3>4. Uncounted(KindsLeft(s), m) = HeldIn(Anywhere, m)
      BY <1>4, <2>3
    <3>5. QED
      BY <2>4, <3>2, <3>3, <3>4
  <2>6. CASE s \in {"interior", "diagonal", "ahead"}
    <3>1. KindsLeft(s) = {"interior"}
      BY <2>6 DEF KindsLeft
    <3>2. Uncounted({"interior"}, m) = HeldIn(Anywhere, m)
      BY <1>4, <2>3, <3>1
    <3>3. QED
      BY <2>4, <2>5, <2>6, <3>2
  <2>7. CASE s \notin {"interior", "diagonal", "ahead"}
    <3>1. "interior" \notin KindsLeft(s)
      BY <2>2, <2>7, KindStage
    <3>2. Uncounted({"interior"}, m) = {}
      BY <1>3, <2>3, <3>1
    <3>3. QED
      BY <2>4, <2>5, <2>7, <3>2, FS_EmptySet
  <2>8. QED
    BY <2>6, <2>7
<1>6. BordersCounted
  BY <1>5 DEF BordersCounted, Borders
<1>7. ChunksCounted
  BY <1>5 DEF ChunksCounted
<1>8. QED
  BY <1>1, <1>6, <1>7 DEF CountersInv

(* The decomposition of lud/workstealing.rs, for any number of threads,    *)
(* matrices, tiles and parts: however ranges of chunks are split and       *)
(* stolen, no chunk is in two tasks, and the two synchronisation variables *)
(* of a matrix are the numbers of the chunks that are left, so that the    *)
(* thread that counts the last one is the only one to go on.               *)
THEOREM StealingCounts == Spec => []CountersInv
BY StealAlways, StealCounters, PTL

-----------------------------------------------------------------------------
(* The operations of the work stealing decomposition start when they may.  *)

(* The borders are final while the interior is computed.                   *)
LEMMA StealBordersFinal ==
  ASSUME StealBasis, NEW m \in MatrixIds, NEW k \in Offsets, NEW s, StealStage(m, k, s),
         VersionsIn(m, k, s), s \in {"interior", "diagonal", "ahead"},
         NEW x \in Cells, x[1] = m, x[2] = k \/ x[4] = k, x[2] >= k, x[4] >= k
  PROVE  version[x] = Final(x)
<1>1. k \in Nat /\ version[x] = ReachedVersion(m, k, s, x)
  BY DEF VersionsIn, Offsets
<1>2. s \in StealStages /\ s # "start"
  BY LabelFacts
<1>3. Final(x) = k + 1
  BY <1>1, Finals DEF Final
<1>4. CASE x[2] = k /\ x[4] = k
  BY <1>1, <1>2, <1>3, <1>4, ReachedCases
<1>5. CASE ~(x[2] = k /\ x[4] = k)
  <2>1. Updated(x, k)
    BY <1>1, <1>3, <1>5 DEF Updated
  <2>2. OwnerName(x, k)[1] \in Borders
    BY DEF OwnerName, Borders
  <2>3. KindsToCome(s) = {} /\ KindsLeft(s) = {"interior"}
    BY DEF KindsToCome, KindsLeft
  <2>4. OwnerName(x, k) \notin HeldIn(WaitingPlaces, m)
    BY <2>2, <2>3, PlacesAre, StageChunks DEF Borders
  <2>5. ~Waits(m, k, s, x)
    BY <2>3, <2>4 DEF Waits
  <2>6. ~(x[2] = k + 1 /\ x[4] = k + 1)
    BY <1>1
  <2>7. QED
    BY <1>1, <1>2, <1>3, <2>1, <2>5, <2>6, ReachedCases
<1>6. QED
  BY <1>4, <1>5

(* A chunk of a border or of the interior that a thread executes: what it  *)
(* updates waits for it, and what it reads is final.                       *)
LEMMA StealChunkReady ==
  ASSUME StealBasis, NEW t \in Threads, NEW m, NEW k, NEW s, NEW x, AtChunk(t, m, k, s, x),
         (pc[t] = "run" /\ x[1] \in Borders) \/ pc[t] = "interior"
  PROVE  IsReady(NamedWork(x))
<1>1. /\ x = <<x[1], m, k, x[4]>> /\ x[2] = m /\ x[3] = k /\ IsChunk(x)
      /\ m \in MatrixIds /\ k \in Offsets /\ s \in StealStages /\ x[1] \in KindsLeft(s)
      /\ x[1] \in KindsAt(pc[t]) /\ StealStage(m, k, s) /\ VersionsIn(m, k, s)
      /\ x \in Held(<<PlaceAt(pc[t]), t>>)
  BY DEF AtChunk
<1>2. x[1] # "start" /\ (pc[t] = "interior" => x[1] = "interior")
  BY <1>1 DEF KindsAt, Borders
<1>3. NamedWork(x) = Work(x[1], m, k, x[4])
  BY <1>1, <1>2 DEF NamedWork
<1>4. x \in HeldIn(WaitingPlaces, m)
  <2>1. PICK h : h = <<"run", t>> /\ h[1] = "run"
    BY PlacesAre
  <2>2. h \in Holders /\ h[1] \in WaitingPlaces
    BY <2>1, PlacesAre, HeldAt
  <2>3. x \in Held(h)
    BY <1>1, <2>1, LabelFacts
  <2>4. QED
    BY <1>1, <2>2, <2>3, HeldInIs
<1>5. s # "start" /\ k \in Nat
  BY <1>1, <1>2 DEF KindsLeft, Offsets
<1>6. ASSUME NEW z \in Writes(NamedWork(x)) PROVE version[z] = k
  BY <1>1, <1>2, <1>4, <1>6, ChunkCells, OwnerNameIs, ReachedCases DEF Updated, Waits,
     VersionsIn
<1>7. ASSUME NEW z \in Reads(NamedWork(x)) PROVE version[z] = Final(z)
  <2>1. CASE x[1] \in Borders
    BY <1>1, <1>3, <1>5, <1>7, <2>1, InTile, ReachedCases DEF Reads, Work, Borders, VersionsIn
  <2>2. CASE x[1] = "interior"
    <3>1. PICK c : c = x[4]
      OBVIOUS
    <3>2. k + 1 < Tiles /\ c \in 0 .. InteriorChunks(k) - 1
      BY <1>1, <2>2, <3>1 DEF IsChunk, Borders
    <3> DEFINE y == <<m, RowOf(k, c) \div Parts, RowOf(k, c) % Parts, ColumnOf(k, c)>>
               b == <<m, RowOf(k, c) \div Parts, RowOf(k, c) % Parts, k>>
    <3>3. y \in Cells /\ y[2] > k /\ y[4] > k
      BY <1>1, <3>2, InteriorCell
    <3>4. RowOf(k, c) \div Parts \in Offsets /\ RowOf(k, c) % Parts \in 0 .. Parts - 1
            /\ ColumnOf(k, c) \in Offsets /\ RowOf(k, c) \div Parts > k /\ ColumnOf(k, c) > k
      BY <3>3 DEF Cells
    <3>5. Reads(NamedWork(x)) = {b} \cup TileCells(m, k, ColumnOf(k, c))
      BY <1>3, <2>2, <3>1 DEF Reads, Work
    <3>6. b \in Cells /\ b[1] = m /\ b[2] >= k /\ b[4] = k /\ b[4] >= k
      BY <1>1, <1>5, <3>4, CellIn DEF Offsets
    <3> HIDE DEF y, b
    <3>7. s \in {"interior", "diagonal", "ahead"}
      BY <1>1, <2>2, KindStage
    <3>8. CASE z = b
      BY <1>1, <3>6, <3>7, <3>8, StealBordersFinal
    <3>9. CASE z \in TileCells(m, k, ColumnOf(k, c))
      BY <1>1, <1>5, <3>4, <3>7, <3>9, InTile, StealBordersFinal DEF Offsets
    <3>10. QED
      BY <1>7, <3>5, <3>8, <3>9
  <2>3. QED
    BY <1>1, <1>2, <2>1, <2>2 DEF IsChunk
<1>8. NamedWork(x).offset = k
  BY <1>3 DEF Work
<1>9. QED
  BY <1>6, <1>7, <1>8 DEF IsReady

(* The first tile of a matrix that no thread has started with.             *)
LEMMA StealFirstReady ==
  ASSUME StealBasis, NEW t \in Threads, NEW m, NEW k, NEW s, NEW x, AtChunk(t, m, k, s, x),
         x[1] = "start"
  PROVE  IsReady(Work("diagonal", m, 0, 0))
<1>1. /\ m \in MatrixIds /\ k \in Offsets /\ s \in StealStages /\ VersionsIn(m, k, s)
      /\ "start" \in KindsLeft(s) /\ StealStage(m, k, s)
  BY DEF AtChunk
<1>2. s = "start" /\ k = 0
  BY <1>1, KindStage DEF StealStage
<1>3. PICK w : w = Work("diagonal", m, 0, 0)
  OBVIOUS
<1>4. Writes(w) = TileCells(m, k, k) /\ Reads(w) = {} /\ w.offset = 0
  BY <1>2, <1>3 DEF Writes, Reads, Work
<1>5. ASSUME NEW z \in Writes(w) PROVE version[z] = 0
  BY <1>1, <1>2, <1>4, <1>5, InTile, DiagonalVersion DEF VersionsIn
<1>6. QED
  BY <1>3, <1>4, <1>5 DEF IsReady

(* The first tile of the next iteration, when synchronisation_var1 says    *)
(* that the chunks of that tile are computed.                              *)
LEMMA StealNextReady ==
  ASSUME StealBasis, NEW t \in Threads, NEW m, NEW k, NEW s, AtStage(t, m, k, s),
         pc[t] = "diagonal"
  PROVE  IsReady(Work("diagonal", m, k + 1, 0))
<1>1. /\ m \in MatrixIds /\ k \in Offsets /\ s = "diagonal" /\ StealStage(m, k, s)
      /\ VersionsIn(m, k, s)
  BY DEF AtStage
<1>2. k + 1 < Tiles /\ k + 1 \in Offsets /\ k \in Nat
  BY <1>1, Parameters DEF StealStage, Offsets
<1>3. FirstTileLeft(m) = {}
  <2>1. sync1[m] = Cardinality(FirstTileLeft(m)) /\ (s = "interior" <=> sync1[m] # 0)
    BY <1>1, CountersWere
  <2>2. \A y \in FirstTileLeft(m) : IsChunk(y) /\ y[2] = m /\ y[3] = k
    BY <1>1, PlacesAre, StageChunks DEF FirstTileLeft
  <2>3. Cardinality(FirstTileLeft(m)) = 0 <=> FirstTileLeft(m) = {}
    BY <1>1, <2>2, ChunksFinite
  <2>4. QED
    BY <1>1, <2>1, <2>3
<1>4. PICK j \in Offsets : j = k + 1
  BY <1>2
<1>5. PICK w : w = Work("diagonal", m, k + 1, 0)
  OBVIOUS
<1>6. Writes(w) = TileCells(m, j, j) /\ Reads(w) = {} /\ w.offset = k + 1
  BY <1>4, <1>5 DEF Writes, Reads, Work
<1>7. ASSUME NEW z \in Writes(w) PROVE version[z] = k + 1
  <2>1. z \in Cells /\ z[1] = m /\ z[2] = k + 1 /\ z[4] = k + 1
    BY <1>1, <1>4, <1>6, <1>7, InTile
  <2>2. Updated(z, k)
    BY <1>2, <2>1 DEF Updated, Final
  <2>3. ~Waits(m, k, s, z)
    <3>1. OwnerName(z, k) \notin HeldIn(WaitingPlaces, m)
      BY <1>1, <1>3, <2>1, <2>2, OwnerNameIs, HeldInIs DEF FirstTileLeft
    <3>2. KindsToCome(s) = {}
      BY <1>1 DEF KindsToCome
    <3>3. QED
      BY <3>1, <3>2 DEF Waits
  <2>4. ReachedVersion(m, k, s, z) = k + 1
    BY <1>1, <2>1, <2>2, <2>3, LabelFacts, ReachedCases
  <2>5. QED
    BY <1>1, <2>1, <2>4 DEF VersionsIn
<1>8. QED
  BY <1>5, <1>6, <1>7 DEF IsReady

(* Where threads execute operations, these may start.                      *)
LEMMA StealReady ==
  ASSUME StealInv, NEW t \in Threads, pc[t] \in {"run", "interior", "diagonal"},
         pc[t] = "run" => task[t][1] # "interior", NEW w, w = OperationAt(pc[t], task[t])
  PROVE  IsReady(w)
<1>1. StealBasis /\ StealStagesInv
  BY StealHas
<1>2. PICK stage, iteration : StealIn(stage, iteration)
  BY <1>1, StealPick
<1>3. CASE pc[t] = "diagonal"
  <2>1. PICK m, k, s : AtStage(t, m, k, s)
    BY <1>1, <1>2, <1>3, LabelFacts, ThreadAtStage
  <2>2. task[t][2] = m /\ task[t][3] = k
    BY <1>3, <2>1 DEF AtStage, Reached, Offset
  <2>3. w = Work("diagonal", m, k + 1, 0)
    BY <1>3, <2>2 DEF OperationAt
  <2>4. QED
    BY <1>1, <1>3, <2>1, <2>3, StealNextReady
<1>4. CASE pc[t] \in {"run", "interior"}
  <2>1. PICK m, k, s, x : AtChunk(t, m, k, s, x)
    BY <1>1, <1>2, <1>4, LabelFacts, ThreadAtChunk
  <2>2. /\ x[1] = task[t][1] /\ x[2] = m /\ x[3] = k /\ x[4] = task[t][4]
        /\ task[t][2] = m /\ task[t][3] = k
        /\ x[1] \in KindsAt(pc[t]) /\ task[t] \in Tasks
    BY <2>1 DEF AtChunk
  <2>3. CASE x[1] = "start"
    <3>1. pc[t] = "run"
      BY <1>4, <2>2, <2>3, KindsAre
    <3>2. w = Work("diagonal", m, 0, 0)
      BY <2>2, <2>3, <3>1, TaskOperation
    <3>3. QED
      BY <1>1, <2>1, <2>3, <3>2, StealFirstReady
  <2>4. CASE x[1] # "start"
    <3>1. (pc[t] = "run" /\ x[1] \in Borders) \/ pc[t] = "interior"
      BY <1>4, <2>2, <2>4, KindsAre DEF Borders
    <3>2. w = NamedWork(x)
      <4>1. CASE pc[t] = "interior"
        BY <2>2, <4>1, KindsAre DEF OperationAt, NamedWork
      <4>2. CASE pc[t] = "run" /\ x[1] \in Borders
        BY <2>2, <2>4, <4>2, TaskOperation DEF NamedWork
      <4>3. QED
        BY <3>1, <4>1, <4>2
    <3>3. QED
      BY <1>1, <2>1, <3>1, <3>2, StealChunkReady
  <2>5. QED
    BY <2>3, <2>4
<1>5. QED
  BY <1>3, <1>4

-----------------------------------------------------------------------------
(* LudStealing implements LuDecomposition.                                 *)

(* The operations in progress, as LuDecomposition sees them.               *)
StealWorking == {work[t] : t \in Threads} \ {NoWork}

(* A thread that executes an operation.                                    *)
LEMMA StealWorkingThread ==
  ASSUME StealInv, NEW t \in Threads, work[t] # NoWork
  PROVE  /\ pc[t] \in {"run", "interior", "diagonal"} /\ work[t] = OperationAt(pc[t], task[t])
         /\ pc[t] = "run" => task[t][1] # "interior"
         /\ work[t] \in Works /\ IsReady(work[t])
<1>1. /\ StealLocal(pc[t], task[t], work[t], subtasks[t])
      /\ work[t] \in Works
  BY StealHas
<1>2. /\ pc[t] \in {"run", "interior", "diagonal"} /\ work[t] = OperationAt(pc[t], task[t])
      /\ pc[t] = "run" => task[t][1] # "interior"
  BY <1>1, Zenon DEF StealLocal
<1>3. IsReady(work[t])
  BY <1>2, StealReady
<1>4. QED
  BY <1>1, <1>2, <1>3

(* The operation on a chunk names the chunk, which the thread holds.       *)
LEMMA StealWorkName ==
  ASSUME StealInv, NEW t \in Threads, pc[t] \in {"run", "interior"},
         pc[t] = "run" => task[t][1] # "interior", NEW w, w = OperationAt(pc[t], task[t])
  PROVE  /\ w.kind = "diagonal" => w.offset = 0
         /\ (IF w.kind = "diagonal" THEN <<"start", w.matrix, 0, 0>>
             ELSE <<w.kind, w.matrix, w.offset, w.chunk>>) \in Held(<<"run", t>>)
<1>1. StealBasis
  BY StealHas
<1>2. PICK x : x = FirstChunk(task[t])
  OBVIOUS
<1>3. /\ task[t] \in Tasks /\ task[t][1] \in KindsAt(pc[t])
      /\ x = <<task[t][1], task[t][2], task[t][3], task[t][4]>> /\ IsChunk(x)
      /\ x \in Held(<<"run", t>>)
  BY <1>1, <1>2, LabelFacts, ThreadChunk DEF Matrix, Offset
<1>4. CASE x[1] = "start"
  <2>1. x[3] = 0 /\ x[4] = 0
    BY <1>3, <1>4 DEF IsChunk, Borders
  <2>2. pc[t] = "run" /\ task[t][1] = "start"
    BY <1>3, <1>4, KindsAre
  <2>3. w = Work("diagonal", x[2], 0, 0)
    BY <1>3, <2>2, TaskOperation
  <2>4. x = <<"start", x[2], 0, 0>>
    BY <1>3, <1>4, <2>1
  <2>5. w.kind = "diagonal" /\ w.offset = 0 /\ w.matrix = x[2]
    BY <2>3 DEF Work
  <2>6. QED
    BY <1>3, <2>4, <2>5
<1>5. CASE x[1] # "start"
  <2>1. w = Work(x[1], x[2], x[3], x[4]) /\ x[1] # "diagonal"
    <3>1. x[1] \in {"left", "top", "interior"}
      BY <1>3, <1>5 DEF IsChunk, Borders
    <3>2. CASE pc[t] = "interior"
      BY <1>3, <3>2, KindsAre DEF OperationAt
    <3>3. CASE pc[t] = "run"
      BY <1>3, <3>1, <3>3 DEF OperationAt
    <3>4. QED
      BY <3>2, <3>3
  <2>2. x = <<x[1], x[2], x[3], x[4]>>
    BY <1>3
  <2>3. w.kind = x[1] /\ w.matrix = x[2] /\ w.offset = x[3] /\ w.chunk = x[4]
    BY <2>1 DEF Work
  <2>4. QED
    BY <1>3, <2>1, <2>2, <2>3
<1>6. QED
  BY <1>4, <1>5

(* The operation on the first tile of an iteration that is not the first.  *)
LEMMA StealDiagonal ==
  ASSUME StealInv, NEW t \in Threads, pc[t] = "diagonal", NEW w, w = OperationAt(pc[t], task[t])
  PROVE  w.kind = "diagonal" /\ w.offset # 0 /\ DriversOf(w.matrix) = {t}
<1>1. StealBasis /\ StealStagesInv
  BY StealHas
<1>2. PICK stage, iteration : StealIn(stage, iteration)
  BY <1>1, StealPick
<1>3. PICK m, k, s : AtStage(t, m, k, s)
  BY <1>1, <1>2, LabelFacts, ThreadAtStage
<1>4. task[t][2] = m /\ task[t][3] = k /\ DriversOf(m) = {t} /\ k \in Nat
  BY <1>3 DEF AtStage, Reached, Offset, Offsets
<1>5. w = Work("diagonal", m, k + 1, 0)
  BY <1>4 DEF OperationAt
<1>6. w.kind = "diagonal" /\ w.offset = k + 1 /\ w.matrix = m
  BY <1>5 DEF Work
<1>7. QED
  BY <1>4, <1>6

(* Two threads are never at the same operation.                            *)
LEMMA StealOperationOnce ==
  ASSUME StealInv, NEW t \in Threads, NEW u \in Threads \ {t},
         pc[t] \in {"run", "interior", "diagonal"}, pc[t] = "run" => task[t][1] # "interior",
         pc[u] \in {"run", "interior", "diagonal"}, pc[u] = "run" => task[u][1] # "interior",
         OperationAt(pc[t], task[t]) = OperationAt(pc[u], task[u])
  PROVE  FALSE
<1>1. PICK w : w = OperationAt(pc[t], task[t])
  OBVIOUS
<1>2. w = OperationAt(pc[u], task[u])
  BY <1>1
<1>3. CASE pc[t] = "diagonal" /\ pc[u] = "diagonal"
  BY <1>1, <1>2, <1>3, StealDiagonal
<1>4. ASSUME NEW v \in Threads, NEW r \in Threads, pc[v] = "diagonal",
             w = OperationAt(pc[v], task[v]), pc[r] \in {"run", "interior"},
             w = OperationAt(pc[r], task[r]), pc[r] = "run" => task[r][1] # "interior"
      PROVE  FALSE
  BY <1>4, StealDiagonal, StealWorkName
<1>5. CASE pc[t] \in {"run", "interior"} /\ pc[u] \in {"run", "interior"}
  <2>1. PICK x : x = IF w.kind = "diagonal" THEN <<"start", w.matrix, 0, 0>>
                     ELSE <<w.kind, w.matrix, w.offset, w.chunk>>
    OBVIOUS
  <2>2. x \in Held(<<"run", t>>)
    BY <1>1, <1>5, <2>1, StealWorkName
  <2>3. x \in Held(<<"run", u>>)
    BY <1>2, <1>5, <2>1, StealWorkName
  <2>4. PICK g \in Holders : g = <<"run", t>>
    BY PlacesAre, HeldAt
  <2>5. PICK h \in Holders : h = <<"run", u>>
    BY PlacesAre, HeldAt
  <2>6. HeldOnce
    BY StealHas, ChunkOnceIs
  <2>7. g # h
    BY <2>4, <2>5
  <2>8. x \in Held(g) /\ x \in Held(h)
    BY <2>2, <2>3, <2>4, <2>5
  <2>9. QED
    BY <2>6, <2>7, <2>8 DEF HeldOnce
<1>6. QED
  BY <1>1, <1>2, <1>3, <1>4, <1>5

(* LuDecomposition has the same tiles here too.                            *)
LEMMA StealSameTiles ==
  /\ Abstract!Cells = Cells /\ Abstract!Works = Works
  /\ \A x : Abstract!Final(x) = Final(x)
  /\ \A w : Abstract!Writes(w) = Writes(w) /\ Abstract!Reads(w) = Reads(w)
  /\ \A w : Abstract!Ready(w) <=> IsReady(w)
<1>1. Abstract!Cells = Cells
  BY DEF Abstract!Cells, Cells, Abstract!MatrixIds, MatrixIds, Abstract!Offsets, Offsets
<1>2. \A x : Abstract!Final(x) = Final(x)
  BY DEF Abstract!Final, Final
<1>3. \A m, i, j : Abstract!TileCells(m, i, j) = TileCells(m, i, j)
  BY DEF Abstract!TileCells, TileCells
<1>4. \A k, c : /\ Abstract!RowOf(k, c) = RowOf(k, c)
                /\ Abstract!ColumnOf(k, c) = ColumnOf(k, c)
                /\ Abstract!BorderChunks(k) = BorderChunks(k)
                /\ Abstract!InteriorChunks(k) = InteriorChunks(k)
  BY DEF Abstract!RowOf, RowOf, Abstract!ColumnOf, ColumnOf, Abstract!Rows, Rows,
         Abstract!BorderChunks, BorderChunks, Abstract!InteriorChunks, InteriorChunks
<1>5. \A w : Abstract!Writes(w) = Writes(w) /\ Abstract!Reads(w) = Reads(w)
  BY <1>3, <1>4 DEF Abstract!Writes, Writes, Abstract!Reads, Reads
<1>6. Abstract!Works = Works
  BY <1>4 DEF Abstract!Work, Work, Abstract!MatrixIds, MatrixIds, Abstract!Offsets, Offsets,
     Abstract!Works, Works
<1>7. \A w : Abstract!Ready(w) <=> IsReady(w)
  BY <1>2, <1>5 DEF Abstract!Ready, IsReady
<1>8. QED
  BY <1>1, <1>2, <1>5, <1>6, <1>7

(* The operations in progress in LuDecomposition.                          *)
LEMMA StealAbstractVars ==
  /\ Abstract!Init <=>
       version = [x \in Cells |-> 0] /\ StealWorking = {} /\ finished = FALSE
  /\ version' = version /\ StealWorking' = StealWorking /\ finished' = finished
       => UNCHANGED Abstract!vars
  /\ \A w : Abstract!Begin(w) <=>
       /\ StealWorking' = StealWorking \cup {w} /\ w \notin StealWorking /\ IsReady(w)
       /\ \A v \in StealWorking : ~Abstract!Conflict(v, w)
       /\ version' = version /\ finished' = finished
  /\ \A v, w : Abstract!Conflict(v, w) <=>
       \/ Writes(v) \cap (Reads(w) \cup Writes(w)) # {}
       \/ Writes(w) \cap Reads(v) # {}
  /\ \A w : Abstract!End(w) <=>
       /\ StealWorking' = StealWorking \ {w} /\ w \in StealWorking
       /\ version' = [x \in Cells |-> IF x \in Writes(w) THEN version[x] + 1 ELSE version[x]]
       /\ finished' = finished
  /\ Abstract!Stop <=>
       /\ \A x \in Cells : version[x] = Final(x)
       /\ StealWorking = {} /\ ~finished /\ finished' = TRUE
       /\ version' = version /\ StealWorking' = StealWorking
<1> DEFINE A == {work[t] : t \in Threads} \ {NoWork}
<1>1. A = StealWorking /\ A' = StealWorking'
  BY DEF StealWorking
<1>2. Abstract!Init <=>
        version = [x \in Cells |-> 0] /\ StealWorking = {} /\ finished = FALSE
  BY <1>1, StealSameTiles DEF Abstract!Init
<1>3. version' = version /\ StealWorking' = StealWorking /\ finished' = finished
        => UNCHANGED Abstract!vars
  BY <1>1 DEF Abstract!vars
<1>4. ASSUME NEW w
      PROVE  Abstract!Begin(w) <=>
               /\ StealWorking' = StealWorking \cup {w} /\ w \notin StealWorking /\ IsReady(w)
               /\ \A v \in StealWorking : ~Abstract!Conflict(v, w)
               /\ version' = version /\ finished' = finished
  BY <1>1, StealSameTiles DEF Abstract!Begin
<1>5. ASSUME NEW v, NEW w
      PROVE  Abstract!Conflict(v, w) <=>
               \/ Writes(v) \cap (Reads(w) \cup Writes(w)) # {}
               \/ Writes(w) \cap Reads(v) # {}
  BY StealSameTiles DEF Abstract!Conflict
<1>6. ASSUME NEW w
      PROVE  Abstract!End(w) <=>
               /\ StealWorking' = StealWorking \ {w} /\ w \in StealWorking
               /\ version' = [x \in Cells |-> IF x \in Writes(w) THEN version[x] + 1 ELSE version[x]]
               /\ finished' = finished
  BY <1>1, StealSameTiles DEF Abstract!End
<1>7. Abstract!Stop <=>
        /\ \A x \in Cells : version[x] = Final(x)
        /\ StealWorking = {} /\ ~finished /\ finished' = TRUE
        /\ version' = version /\ StealWorking' = StealWorking
  BY <1>1, StealSameTiles DEF Abstract!Stop, Abstract!Decomposed
<1>8. QED
  BY <1>2, <1>3, <1>4, <1>5, <1>6, <1>7

(* A thread begins an operation.                                           *)
LEMMA StealBeginImplements ==
  ASSUME StealInv, NEW t \in Threads, NEW w \in Works, Begin(t, w),
         w = OperationAt(pc[t], task[t]), pc[t] \in {"run", "interior", "diagonal"},
         pc[t] = "run" => task[t][1] # "interior"
  PROVE  Abstract!Next
<1>1. /\ work[t] = NoWork /\ work' = [work EXCEPT ![t] = w]
      /\ version' = version /\ finished' = finished
  BY StealHas, StealBegins DEF StealMoves
<1>2. IsReady(w) /\ w # NoWork
  BY StealReady, NoWorkIsNone
<1>3. \A u \in Threads : work'[u] = IF u = t THEN w ELSE work[u]
  BY <1>1, StealHas, StealTypes
<1>4. StealWorking' = StealWorking \cup {w}
  BY <1>1, <1>2, <1>3 DEF StealWorking
<1>5. w \notin StealWorking
  <2>1. SUFFICES ASSUME NEW u \in Threads, w = work[u] PROVE FALSE
    BY DEF StealWorking
  <2>2. u # t /\ work[u] # NoWork
    BY <1>1, <1>2, <2>1
  <2>3. /\ pc[u] \in {"run", "interior", "diagonal"} /\ w = OperationAt(pc[u], task[u])
        /\ pc[u] = "run" => task[u][1] # "interior"
    BY <2>1, <2>2, StealWorkingThread
  <2>4. QED
    BY <2>2, <2>3, StealOperationOnce
<1>6. ASSUME NEW v \in StealWorking PROVE ~Abstract!Conflict(v, w)
  <2>1. PICK u \in Threads : v = work[u] /\ work[u] # NoWork
    BY DEF StealWorking
  <2>2. v \in Works /\ IsReady(v)
    BY <2>1, StealWorkingThread
  <2>3. v # w
    BY <1>5
  <2>4. Writes(v) \cap (Reads(w) \cup Writes(w)) = {} /\ Writes(w) \cap Reads(v) = {}
    BY <1>2, <2>2, <2>3, ReadyDisjoint
  <2>5. QED
    BY <2>4, StealAbstractVars
<1>7. Abstract!Begin(w)
  BY <1>1, <1>2, <1>4, <1>5, <1>6, StealAbstractVars
<1>8. QED
  BY <1>7, StealSameTiles DEF Abstract!Next

(* A thread ends an operation.                                             *)
LEMMA StealEndImplements ==
  ASSUME StealInv, NEW t \in Threads, NEW label, End(t, label)
  PROVE  Abstract!Next
<1>1. PICK w : w = work[t]
  OBVIOUS
<1>2. /\ w # NoWork /\ work' = [work EXCEPT ![t] = NoWork] /\ finished' = finished
      /\ version' = [x \in Cells |-> IF x \in Writes(w) THEN version[x] + 1 ELSE version[x]]
  BY <1>1, StealHas, StealEnds DEF StealMoves
<1>3. /\ w \in Works /\ w \in StealWorking
      /\ pc[t] \in {"run", "interior", "diagonal"} /\ w = OperationAt(pc[t], task[t])
      /\ pc[t] = "run" => task[t][1] # "interior"
  BY <1>1, <1>2, StealWorkingThread DEF StealWorking
<1>4. \A u \in Threads : work'[u] = IF u = t THEN NoWork ELSE work[u]
  BY <1>2, StealHas, StealTypes
<1>5. \A u \in Threads \ {t} : work[u] # w
  BY <1>2, <1>3, StealWorkingThread, StealOperationOnce
<1>6. StealWorking' = StealWorking \ {w}
  BY <1>1, <1>4, <1>5 DEF StealWorking
<1>7. Abstract!End(w)
  BY <1>2, <1>3, <1>6, StealAbstractVars
<1>8. QED
  BY <1>3, <1>7, StealSameTiles DEF Abstract!Next

(* A step without tile operations is none of the decomposition.            *)
LEMMA StealQuietImplements ==
  ASSUME version' = version, work' = work, finished' = finished
  PROVE  UNCHANGED Abstract!vars
BY StealAbstractVars DEF StealWorking

(* The pool is finished when all matrices are decomposed.                  *)
LEMMA StealStopImplements ==
  ASSUME StealInv, NEW t \in Threads, FinishPool(t)
  PROVE  Abstract!Next
<1>1. StealBasis /\ StealStagesInv /\ TypeOK
  BY StealHas
<1>2. pc[t] = "finish" /\ finished' = TRUE /\ version' = version /\ work' = work
  BY DEF FinishPool, Finish, ludVars
<1>3. pending = 0 /\ ~finished
  BY <1>2, StealThreadIs DEF StealInv, FinishesAlone
<1>4. PICK stage, iteration : StealIn(stage, iteration)
  BY <1>1, StealPick
<1>5. \A m \in MatrixIds : stage[m] = "done" /\ StealStage(m, Tiles - 1, "done")
  <2>1. SUFFICES ASSUME NEW m \in MatrixIds
                 PROVE  stage[m] = "done" /\ StealStage(m, Tiles - 1, "done")
    OBVIOUS
  <2>2. PICK k : k = iteration[m]
    OBVIOUS
  <2>3. stage[m] = "done" /\ StealStage(m, k, "done")
    BY <1>3, <1>4, <2>2, StealStageOf
  <2>4. k = Tiles - 1
    BY <2>3 DEF StealStage
  <2>5. QED
    BY <2>3, <2>4
<1>6. Tiles - 1 \in Offsets /\ "done" \in StealStages /\ Tiles \in Nat
  BY Parameters, LabelFacts DEF Offsets
<1>7. ASSUME NEW x \in Cells PROVE version[x] = Final(x)
  <2>1. PICK k \in Offsets : k = Tiles - 1
    BY <1>6
  <2>2. x[1] \in MatrixIds
    BY CellParts
  <2>3. version[x] = ReachedVersion(x[1], k, "done", x)
    BY <1>5, <2>1, <2>2 DEF StealStage
  <2>4. ~Updated(x, k)
    BY <1>6, <2>1, UpdatedCell
  <2>5. QED
    BY <1>6, <2>3, <2>4, ReachedCases
<1>8. ASSUME NEW u \in Threads PROVE work[u] = NoWork
  <2>1. SUFFICES ASSUME work[u] # NoWork PROVE FALSE
    OBVIOUS
  <2>2. pc[u] \in {"run", "interior", "diagonal"}
    BY <2>1, StealWorkingThread
  <2>3. CASE pc[u] = "diagonal"
    <3>1. PICK m, k, s : AtStage(u, m, k, s) /\ stage[m] = s
      BY <1>1, <1>4, <2>3, LabelFacts, ThreadAtStage
    <3>2. m \in MatrixIds /\ s = "diagonal"
      BY <2>3, <3>1 DEF AtStage
    <3>3. QED
      BY <1>5, <3>1, <3>2
  <2>4. CASE pc[u] \in {"run", "interior"}
    <3>1. PICK m, k, s, x : AtChunk(u, m, k, s, x) /\ stage[m] = s
      BY <1>1, <1>4, <2>4, LabelFacts, ThreadAtChunk
    <3>2. m \in MatrixIds /\ x[1] \in KindsLeft(s)
      BY <3>1 DEF AtChunk
    <3>3. s = "done"
      BY <1>5, <3>1, <3>2
    <3>4. KindsLeft(s) = {}
      BY <3>3 DEF KindsLeft
    <3>5. QED
      BY <3>2, <3>4
  <2>5. QED
    BY <2>2, <2>3, <2>4
<1>9. StealWorking = {} /\ StealWorking' = StealWorking
  BY <1>2, <1>8 DEF StealWorking
<1>10. Abstract!Stop
  BY <1>2, <1>3, <1>7, <1>9, StealAbstractVars
<1>11. QED
  BY <1>10 DEF Abstract!Next

(* Every step of a thread is a step of the decomposition or none.          *)
LEMMA StealStepImplements ==
  ASSUME StealInv, NEW t \in Threads, Step(t)
  PROVE  Abstract!Next \/ UNCHANGED Abstract!vars
<1>1. CASE Claim(t) /\ UNCHANGED ludVars
  BY <1>1, StealQuietImplements DEF ludVars, Claim, LoadFinished, PopTask, PopNothing,
     StealTask, StealNothing
<1>2. CASE RunStart(t)
  <2>1. PICK w : w = Work("diagonal", Matrix(t), 0, 0)
    OBVIOUS
  <2>2. pc[t] = "run" /\ Kind(t) = "start" /\ (Begin(t, w) \/ End(t, "scheduleBorder"))
    BY <1>2, <2>1 DEF RunStart
  <2>3. QED
    BY <2>1, <2>2, BegunOperation, StealBeginImplements, StealEndImplements
<1>3. CASE RunBorder(t)
  <2>1. PICK w : w = Work(Kind(t), Matrix(t), Offset(t), task[t][4])
    OBVIOUS
  <2>2. pc[t] = "run" /\ Kind(t) \in Borders /\ (Begin(t, w) \/ End(t, "countBorder"))
    BY <1>3, <2>1 DEF RunBorder, Borders
  <2>3. QED
    BY <2>1, <2>2, BegunOperation, StealBeginImplements, StealEndImplements
<1>4. CASE RunInterior(t)
  <2>1. PICK w, label :
          /\ w = Work("interior", Matrix(t), Offset(t), task[t][4])
          /\ label = IF InFirstTile(Offset(t), task[t][4]) THEN "countFirstTile" ELSE "countChunk"
    OBVIOUS
  <2>2. pc[t] = "interior" /\ (Begin(t, w) \/ End(t, label))
    BY <1>4, <2>1 DEF RunInterior
  <2>3. QED
    BY <2>1, <2>2, BegunOperation, StealBeginImplements, StealEndImplements
<1>5. CASE NextDiagonal(t)
  <2>1. PICK w : w = Work("diagonal", Matrix(t), Offset(t) + 1, 0)
    OBVIOUS
  <2>2. pc[t] = "diagonal" /\ (Begin(t, w) \/ End(t, "countChunk"))
    BY <1>5, <2>1 DEF NextDiagonal
  <2>3. QED
    BY <2>1, <2>2, BegunOperation, StealBeginImplements, StealEndImplements
<1>6. CASE FinishPool(t)
  BY <1>6, StealStopImplements
<1>7. CASE StoreBorderCount(t) \/ StoreFirstTile(t) \/ StoreChunks(t)
  BY <1>7, StealQuietImplements DEF StoreBorderCount, StoreFirstTile, StoreChunks
<1>8. CASE Push(t) \/ SplitInterior(t) \/ CountBorder(t)
  BY <1>8, StealQuietImplements DEF Push, SplitInterior, CountBorder
<1>9. CASE CountFirstTile(t) \/ CountChunk(t) \/ CountMatrix(t)
  BY <1>9, StealQuietImplements DEF CountFirstTile, CountChunk, CountMatrix
<1>10. QED
  BY <1>1, <1>2, <1>3, <1>4, <1>5, <1>6, <1>7, <1>8, <1>9 DEF Step

(* The same of all steps, also those that change nothing.                  *)
LEMMA StealNextImplements == StealInv /\ [Next]_vars => [Abstract!Next]_Abstract!vars
<1>1. ASSUME StealInv, Next PROVE Abstract!Next \/ UNCHANGED Abstract!vars
  BY <1>1, StealStepImplements DEF Next
<1>2. UNCHANGED vars => UNCHANGED Abstract!vars
  BY StealQuietImplements DEF vars, stealerVars, ludVars
<1>3. QED
  BY <1>1, <1>2

(* At first every cell has its first version and nothing is in progress.   *)
LEMMA StealInitImplements == Init => Abstract!Init
BY StealAtFirst, StealAbstractVars DEF StealWorking

(* LudStealing implements LuDecomposition: on the work stealing pool too,  *)
(* every tile operation of lud/workstealing.rs starts on final values,     *)
(* after the updates that it follows, and without a data race, no          *)
(* operation is executed twice, and the pool is finished when all matrices *)
(* are decomposed.                                                         *)
THEOREM StealingImplements == Spec => ImplementsLu
BY StealAlways, StealInitImplements, StealNextImplements, PTL
   DEF Spec, ImplementsLu, Abstract!Spec
=============================================================================
