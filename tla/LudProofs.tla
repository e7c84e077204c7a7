----------------------------- MODULE LudProofs -----------------------------
(***************************************************************************)
(* The decomposition on the work assisting pool: the invariant LudInv, by  *)
(* which each matrix goes through the stages of LudStages, SyncInv, and    *)
(* the refinement of LuDecomposition, for any number of threads, matrices, *)
(* tiles and parts of a tile.  First the layout of a matrix.               *)
(***************************************************************************)
EXTENDS LudStages, SquareMatrix, FiniteSetTheorems, TLAPS

-----------------------------------------------------------------------------
(* The layout of a matrix.                                                 *)

(* Division with a remainder.                                              *)
LEMMA DivMod ==
  ASSUME NEW n \in Nat \ {0}, NEW a \in Nat
  PROVE  a \div n \in Nat /\ a % n \in 0 .. n - 1 /\ a = (a \div n) * n + (a % n)
OBVIOUS

(* What divides a number leaves no remainder, and the other way around.    *)
LEMMA Divides ==
  ASSUME NEW d \in Nat \ {0}, NEW a \in Nat
  PROVE  a % d = 0 <=> \E e \in Nat : a = d * e
<1>1. a = (a \div d) * d + (a % d) /\ a % d \in 0 .. d - 1 /\ a \div d \in Nat
  BY DivMod
<1>2. ASSUME a % d = 0 PROVE a = d * (a \div d)
  BY <1>1, <1>2
<1>3. ASSUME NEW e \in Nat, a = d * e PROVE a % d = 0
  <2> DEFINE q == a \div d
             r == a % d
  <2>1. q \in Nat /\ r \in 0 .. d - 1 /\ d * e = q * d + r
    BY <1>1, <1>3
  <2> HIDE DEF q, r
  <2>2. q <= e
    BY <2>1
  <2>3. q >= e
    BY <2>1
  <2>4. r = 0
    BY <2>1, <2>2, <2>3
  <2>5. QED
    BY <2>4 DEF r
<1>4. QED
  BY <1>1, <1>2, <1>3

(* An element of a matrix is in the slice, and in no other place than its  *)
(* own: get_unchecked stays in bounds.  It takes a size that is a multiple *)
(* of LANES, for otherwise the slice may be too short for the last row.    *)
THEOREM MatrixIndex ==
  ASSUME NEW size \in Nat, size % LANES = 0,
         NEW row \in 0 .. size - 1, NEW column \in 0 .. size - 1
  PROVE  /\ linear_index(size, row, column) \in 0 .. Vectors(size) * LANES - 1
         /\ \A r, c \in 0 .. size - 1 :
              linear_index(size, r, c) = linear_index(size, row, column)
                => r = row /\ c = column
<1>1. PICK k \in Nat : size = LANES * k
  BY Divides DEF LANES
<1>2. Vectors(size) * LANES = size * size
  BY <1>1 DEF LANES, Vectors
<1>3. row * size + column \in 0 .. size * size - 1
  OBVIOUS
<1>4. ASSUME NEW r \in 0 .. size - 1, NEW c \in 0 .. size - 1,
             r * size + c = row * size + column
      PROVE  r = row /\ c = column
  BY <1>4
<1>5. QED
  BY <1>2, <1>3, <1>4 DEF linear_index

(* slice32 gives a vector of the slice, which is the part of the row that  *)
(* starts at column_start, when that and the size are multiples of LANES.  *)
THEOREM MatrixSlice ==
  ASSUME NEW size \in Nat, size % LANES = 0, NEW row \in 0 .. size - 1,
         NEW column_start \in 0 .. size - 1, column_start % LANES = 0
  PROVE  /\ slice32(size, row, column_start) \in 0 .. Vectors(size) - 1
         /\ ElementsOf(slice32(size, row, column_start))
              = {linear_index(size, row, column_start + i) : i \in 0 .. LANES - 1}
<1> DEFINE index == linear_index(size, row, column_start)
           vector == slice32(size, row, column_start)
<1>1. index \in 0 .. Vectors(size) * LANES - 1
  BY MatrixIndex
<1>2. PICK k \in Nat : size = LANES * k
  BY Divides DEF LANES
<1>3. PICK j \in Nat : column_start = LANES * j
  BY Divides DEF LANES
<1>4. index = (row * k + j) * LANES /\ row * k + j \in Nat
  BY <1>2, <1>3 DEF linear_index, LANES
<1>5. vector = row * k + j
  BY <1>4 DEF slice32, LANES
<1>6. Vectors(size) \in Int
  BY DEF Vectors, LANES
<1>7. vector \in 0 .. Vectors(size) - 1
  BY <1>1, <1>4, <1>5, <1>6 DEF LANES
<1>8. \A i \in 0 .. LANES - 1 : linear_index(size, row, column_start + i) = index + i
  BY DEF linear_index, LANES
<1>9. ElementsOf(vector) = {index + i : i \in 0 .. LANES - 1}
  <2>1. ElementsOf(vector) = index .. index + LANES - 1 /\ index \in Int
    BY <1>4, <1>5 DEF ElementsOf, LANES
  <2> HIDE DEF index
  <2>2. \A x : x \in index .. index + LANES - 1 <=> \E i \in 0 .. LANES - 1 : x = index + i
    <3>1. ASSUME NEW x \in index .. index + LANES - 1
          PROVE  x - index \in 0 .. LANES - 1 /\ x = index + (x - index)
      BY <2>1 DEF LANES
    <3>2. \A i \in 0 .. LANES - 1 : index + i \in index .. index + LANES - 1
      BY <2>1 DEF LANES
    <3>3. QED
      BY <3>1, <3>2
  <2>3. QED
    BY <2>1, <2>2
<1>10. QED
  BY <1>7, <1>8, <1>9

-----------------------------------------------------------------------------
(* The tiles.                                                              *)

(* The quotient and the remainder are the only ones.                       *)
LEMMA DivUnique ==
  ASSUME NEW n \in Nat \ {0}, NEW q \in Nat, NEW r \in 0 .. n - 1
  PROVE  (q * n + r) \div n = q /\ (q * n + r) % n = r
<1> DEFINE a == q * n + r
           d == a \div n
           e == a % n
<1>1. a \in Nat
  OBVIOUS
<1>2. a = d * n + e /\ d \in Nat /\ e \in 0 .. n - 1
  <2> HIDE DEF a
  <2>1. QED
    BY <1>1
<1>3. a = q * n + r
  OBVIOUS
<1> HIDE DEF a, d, e
<1>4. d = q
  <2>1. ASSUME d < q PROVE FALSE
    BY <1>2, <1>3, <2>1
  <2>2. ASSUME q < d PROVE FALSE
    BY <1>2, <1>3, <2>2
  <2>3. QED
    BY <1>2, <2>1, <2>2
<1>5. e = r
  BY <1>2, <1>3, <1>4
<1>6. QED
  BY <1>4, <1>5 DEF a, d, e

(* Quotient and remainder determine a number.                              *)
LEMMA DivInjective ==
  ASSUME NEW n \in Nat \ {0}, NEW q \in Nat, NEW r \in 0 .. n - 1,
         NEW e \in Nat, NEW f \in 0 .. n - 1, q * n + r = e * n + f
  PROVE  q = e /\ r = f
BY DivUnique

(* The four parts of a cell.                                               *)
LEMMA CellParts ==
  ASSUME NEW x \in Cells
  PROVE  /\ x = <<x[1], x[2], x[3], x[4]>>
         /\ x[1] \in MatrixIds /\ x[2] \in Offsets /\ x[3] \in 0 .. Parts - 1
         /\ x[4] \in Offsets
BY DEF Cells

(* A cell is put together of its parts.                                    *)
LEMMA CellIn ==
  ASSUME NEW m \in MatrixIds, NEW i \in Offsets, NEW p \in 0 .. Parts - 1, NEW j \in Offsets
  PROVE  /\ <<m, i, p, j>> \in Cells
         /\ <<m, i, p, j>>[1] = m /\ <<m, i, p, j>>[2] = i
         /\ <<m, i, p, j>>[3] = p /\ <<m, i, p, j>>[4] = j
BY DEF Cells

(* The cells of a tile, by their parts.                                    *)
LEMMA InTile ==
  ASSUME NEW m \in MatrixIds, NEW i \in Offsets, NEW j \in Offsets, NEW x
  PROVE  x \in TileCells(m, i, j) <=> x \in Cells /\ x[1] = m /\ x[2] = i /\ x[4] = j
<1>1. ASSUME x \in TileCells(m, i, j)
      PROVE  x \in Cells /\ x[1] = m /\ x[2] = i /\ x[4] = j
  BY <1>1, CellIn DEF TileCells
<1>2. ASSUME x \in Cells, x[1] = m, x[2] = i, x[4] = j
      PROVE  x \in TileCells(m, i, j)
  BY <1>2, CellParts DEF TileCells
<1>3. QED
  BY <1>1, <1>2

(* An iteration that is not the last one has chunks of each kind.          *)
LEMMA ChunkCounts ==
  ASSUME NEW k \in Offsets, k + 1 < Tiles
  PROVE  /\ BorderChunks(k) \in Nat \ {0} /\ Rows(k) \in Nat \ {0}
         /\ InteriorChunks(k) \in Nat \ {0} /\ k + 1 \in Offsets
         /\ Tiles - k - 1 \in Nat \ {0}
<1>1. Tiles \in Nat /\ Parts \in Nat \ {0} /\ k \in Nat
  BY TilesAssumption DEF Offsets
<1>2. Tiles - k - 1 \in Nat \ {0}
  BY <1>1
<1>3. \A a, b \in Nat \ {0} : a * b \in Nat \ {0}
  OBVIOUS
<1>4. Rows(k) \in Nat \ {0}
  BY <1>1, <1>2, <1>3 DEF Rows
<1>5. InteriorChunks(k) \in Nat \ {0}
  BY <1>2, <1>3, <1>4 DEF InteriorChunks
<1>6. QED
  BY <1>1, <1>2, <1>4, <1>5 DEF BorderChunks, Offsets

(* The cell that a chunk of the interior updates, right of and below the   *)
(* borders.                                                                *)
LEMMA InteriorCell ==
  ASSUME NEW m \in MatrixIds, NEW k \in Offsets, k + 1 < Tiles,
         NEW c \in 0 .. InteriorChunks(k) - 1
  PROVE  LET x == <<m, RowOf(k, c) \div Parts, RowOf(k, c) % Parts, ColumnOf(k, c)>>
         IN  x \in Cells /\ x[1] = m /\ x[2] > k /\ x[4] > k /\ OwnerChunk(x, k) = c
               /\ (InFirstTile(k, c) <=> x[2] = k + 1 /\ x[4] = k + 1)
<1> DEFINE q == Rows(k)
           col == c \div q
           r == c % q
           R == RowOf(k, c)
           i == R \div Parts
           p == R % Parts
           b == Tiles - k - 1
           x == <<m, i, p, ColumnOf(k, c)>>
<1>1. k \in Nat /\ Parts \in Nat \ {0} /\ Tiles \in Nat /\ q \in Nat \ {0} /\ c \in Nat
        /\ b \in Nat \ {0} /\ q = b * Parts /\ c < q * b
  BY TilesAssumption, ChunkCounts DEF Offsets, InteriorChunks, Rows
<1>2. c = col * q + r /\ col \in Nat /\ r \in 0 .. q - 1
  BY <1>1, DivMod
<1>3. R = (k + 1) * Parts + r /\ ColumnOf(k, c) = k + 1 + col
  BY DEF RowOf, ColumnOf
<1> HIDE DEF q, col, r, R, b
<1>4. (k + 1) * Parts \in Nat /\ R \in Nat
  BY <1>1, <1>2, <1>3
<1>5. R = i * Parts + p /\ i \in Nat /\ p \in 0 .. Parts - 1
  BY <1>1, <1>4
<1> HIDE DEF i, p
<1>6. i > k
  <2>1. ASSUME i <= k PROVE FALSE
    BY <1>1, <1>2, <1>3, <1>4, <1>5, <2>1
  <2>2. QED
    BY <1>1, <1>5, <2>1
<1>7. i <= k + b
  <2>1. ASSUME i >= k + b + 1 PROVE FALSE
    BY <1>1, <1>2, <1>3, <1>4, <1>5, <2>1
  <2>2. QED
    BY <1>1, <1>5, <2>1
<1>8. col < b
  <2>1. ASSUME col >= b PROVE FALSE
    BY <1>1, <1>2, <2>1
  <2>2. QED
    BY <1>1, <1>2, <2>1
<1>9. i \in Offsets /\ ColumnOf(k, c) \in Offsets
  BY <1>1, <1>2, <1>3, <1>5, <1>6, <1>7, <1>8 DEF Offsets, b
<1>10. x \in Cells /\ x[1] = m /\ x[2] = i /\ x[3] = p /\ x[4] = ColumnOf(k, c)
  BY <1>5, <1>9, CellIn
<1> HIDE DEF x
<1>11. OwnerChunk(x, k) = c
  <2>1. (i - k - 1) * Parts = i * Parts - (k + 1) * Parts
    BY <1>1, <1>5
  <2>2. i * Parts \in Int /\ col * q \in Int
    BY <1>1, <1>2, <1>5
  <2>3. (i - k - 1) * Parts + p = r
    BY <1>1, <1>2, <1>3, <1>4, <1>5, <2>1, <2>2
  <2>4. x[4] # k /\ x[2] # k
    BY <1>1, <1>2, <1>3, <1>5, <1>6, <1>10
  <2>5. (i - k - 1) * Parts \in Int
    BY <1>1, <1>5
  <2>6. x[4] - k - 1 = col
    BY <1>1, <1>2, <1>3, <1>10
  <2>7. OwnerChunk(x, k) = col * q + (i - k - 1) * Parts + p
    BY <1>10, <2>4, <2>6 DEF OwnerChunk, q
  <2>8. QED
    BY <1>1, <1>2, <1>5, <2>2, <2>3, <2>5, <2>7
<1>12. InFirstTile(k, c) <=> x[2] = k + 1 /\ x[4] = k + 1
  <2>1. R < (k + 2) * Parts <=> i <= k + 1
    <3>1. ASSUME i <= k + 1 PROVE R < (k + 2) * Parts
      BY <1>1, <1>5, <3>1
    <3>2. ASSUME i >= k + 2 PROVE R >= (k + 2) * Parts
      BY <1>1, <1>5, <3>2
    <3>3. (k + 2) * Parts \in Int
      BY <1>1
    <3>4. QED
      BY <1>1, <1>4, <1>5, <3>1, <3>2, <3>3
  <2>2. InFirstTile(k, c) <=> R < (k + 2) * Parts /\ ColumnOf(k, c) < k + 2
    BY DEF InFirstTile, R
  <2>3. QED
    BY <1>1, <1>2, <1>3, <1>5, <1>6, <1>10, <2>1, <2>2
<1>13. QED
  BY <1>1, <1>2, <1>3, <1>5, <1>6, <1>10, <1>11, <1>12 DEF x, i, p, R

(* Tasks.                                                                  *)
LEMMA TaskParts ==
  ASSUME NEW a \in Tasks \ {InitTask}
  PROVE  /\ a.kind \in {"left", "top", "inner"} /\ a.matrix \in MatrixIds /\ a.offset \in Offsets
         /\ a = Task(a.kind, a.matrix, a.offset)
BY DEF Tasks, Task

(* The parts of a task of an iteration.                                    *)
LEMMA TaskIn ==
  ASSUME NEW kind \in {"left", "top", "inner"}, NEW m \in MatrixIds, NEW k \in Offsets
  PROVE  /\ Task(kind, m, k) \in Tasks \ {InitTask}
         /\ Task(kind, m, k).kind = kind /\ Task(kind, m, k).matrix = m
         /\ Task(kind, m, k).offset = k
BY DEF Tasks, Task, InitTask

(* The task that all others come from has one chunk for each matrix.       *)
LEMMA InitIsTask == InitTask \in Tasks /\ InitTask.kind = "init" /\ Size(InitTask) = Matrices
BY DEF Tasks, InitTask, Task, Size

(* The mark of a thread without a task is not a task.                      *)
LEMMA NoTaskIsNone == NoTask \notin Tasks
BY TaskParts, InitIsTask DEF NoTask

(* What TilesAssumption says of each parameter.                            *)
LEMMA Parameters == Tiles \in Nat \ {0} /\ Parts \in Nat \ {0} /\ Matrices \in Nat \ {0}
BY TilesAssumption

(* The tile operation of a chunk.                                          *)
WorkOf(a, c) ==
  CASE a.kind = "init"  -> Work("diagonal", c, 0, 0)
    [] a.kind = "inner" -> Work("interior", a.matrix, a.offset, c)
    [] OTHER            -> Work(a.kind, a.matrix, a.offset, c)

(* The number of chunks of a border and of the interior.                   *)
LEMMA SizeOf ==
  ASSUME NEW a \in Tasks \ {InitTask}, a.offset + 1 < Tiles
  PROVE  /\ Size(a) \in Nat \ {0}
         /\ a.kind = "inner" => Size(a) = InteriorChunks(a.offset)
         /\ a.kind \in {"left", "top"} => Size(a) = Tiles - a.offset - 1
BY TaskParts, ChunkCounts DEF Size, BorderChunks

(* The cells that iteration k still updates, the diagonal tile excepted.   *)
Updated(x, k) == x \in Cells /\ Final(x) > k /\ ~(x[2] = k /\ x[4] = k)

(* The task that updates a cell belongs to the matrix and the iteration.   *)
LEMMA UpdatedCell ==
  ASSUME NEW k \in Offsets, NEW x, Updated(x, k)
  PROVE  /\ k + 1 < Tiles /\ x[2] >= k /\ x[4] >= k
         /\ Owner(x, k) \in Tasks \ {InitTask} /\ Owner(x, k).matrix = x[1]
         /\ Owner(x, k).offset = k
BY CellParts, Parameters, TaskIn DEF Updated, Final, Offsets, Owner

(* The chunk of the interior that updates a cell.                          *)
LEMMA InteriorChunk ==
  ASSUME NEW k \in Offsets, k + 1 < Tiles, NEW z \in Cells, z[2] > k, z[4] > k
  PROVE  /\ (z[2] - k - 1) * Parts + z[3] \in 0 .. Rows(k) - 1
         /\ z[4] - k - 1 \in Nat /\ z[2] - k - 1 \in Nat /\ z[3] \in 0 .. Parts - 1
         /\ OwnerChunk(z, k) = (z[4] - k - 1) * Rows(k) + ((z[2] - k - 1) * Parts + z[3])
         /\ OwnerChunk(z, k) \in 0 .. InteriorChunks(k) - 1
<1> DEFINE e == z[2] - k - 1
           f == z[4] - k - 1
           b == Tiles - k - 1
           q == Rows(k)
<1>1. z[2] \in 0 .. Tiles - 1 /\ z[4] \in 0 .. Tiles - 1 /\ z[3] \in 0 .. Parts - 1 /\ k \in Nat
  BY CellParts, Parameters DEF Offsets
<1>2. e \in Nat /\ f \in Nat /\ b \in Nat /\ e <= b - 1 /\ f <= b - 1
  BY <1>1, Parameters
<1>3. q = b * Parts /\ q \in Nat /\ Parts \in Nat /\ InteriorChunks(k) = q * b
  BY ChunkCounts, Parameters DEF Rows, InteriorChunks
<1>4. OwnerChunk(z, k) = f * q + e * Parts + z[3]
  BY <1>1 DEF OwnerChunk
<1> HIDE DEF e, f, b, q
<1>5. e * Parts + Parts <= b * Parts /\ e * Parts \in Nat
  BY <1>2, <1>3
<1>6. f * q + q <= q * b /\ f * q \in Nat
  BY <1>2, <1>3
<1>7. e * Parts + z[3] \in 0 .. q - 1
  BY <1>1, <1>3, <1>5
<1>8. f * q + (e * Parts + z[3]) \in 0 .. InteriorChunks(k) - 1
  <2> DEFINE g == f * q
             h == e * Parts + z[3]
             r == q * b
  <2>1. g \in Nat /\ h \in 0 .. q - 1 /\ g + q <= r /\ q \in Nat /\ r \in Int
    BY <1>2, <1>3, <1>6, <1>7
  <2> HIDE DEF g, h, r
  <2>2. g + h \in 0 .. r - 1
    BY <2>1
  <2>3. QED
    BY <1>3, <2>2 DEF g, h, r
<1>9. f * q + e * Parts + z[3] = f * q + (e * Parts + z[3])
  BY <1>1, <1>5, <1>6
<1>10. /\ OwnerChunk(z, k) = f * q + (e * Parts + z[3])
       /\ OwnerChunk(z, k) \in 0 .. InteriorChunks(k) - 1
  BY <1>4, <1>8, <1>9
<1>11. QED
  BY <1>1, <1>2, <1>7, <1>10, Zenon DEF e, f, q

(* A chunk updates the cells that it owns and no other: chunks of an       *)
(* iteration never write the same cell.                                    *)
LEMMA ChunkWrites ==
  ASSUME NEW a \in Tasks \ {InitTask}, a.offset + 1 < Tiles, NEW c \in 0 .. Size(a) - 1, NEW x
  PROVE  x \in Writes(WorkOf(a, c)) <=>
           Updated(x, a.offset) /\ Owner(x, a.offset) = a /\ OwnerChunk(x, a.offset) = c
<1> DEFINE k == a.offset
           m == a.matrix
<1>1. a = Task(a.kind, m, k) /\ m \in MatrixIds /\ k \in Offsets
        /\ a.kind \in {"left", "top", "inner"} /\ k \in Nat /\ Tiles \in Nat
  BY TaskParts, Parameters DEF Offsets
<1>2. k + 1 \in Offsets
  BY <1>1 DEF Offsets
<1>3. \A y : Updated(y, k) => Owner(y, k).kind =
        IF y[4] = k THEN "left" ELSE IF y[2] = k THEN "top" ELSE "inner"
  BY DEF Owner, Task
<1>4. ASSUME NEW y, Updated(y, k)
      PROVE  Owner(y, k) = a <=> y[1] = m /\ Owner(y, k).kind = a.kind
  BY <1>1, <1>4 DEF Owner, Task
<1> HIDE DEF k, m
<1>5. CASE a.kind = "left"
  <2>1. c \in Nat /\ k + 1 + c \in Offsets /\ Writes(WorkOf(a, c)) = TileCells(m, k + 1 + c, k)
    BY <1>1, <1>5, SizeOf DEF k, Writes, WorkOf, Work, m, Offsets
  <2>2. x \in Writes(WorkOf(a, c)) <=> x \in Cells /\ x[1] = m /\ x[2] = k + 1 + c /\ x[4] = k
    BY <1>1, <2>1, InTile
  <2>3. ASSUME x \in Cells
        PROVE  /\ Updated(x, k) /\ Owner(x, k) = a /\ OwnerChunk(x, k) = c
                    <=> x[1] = m /\ x[2] = k + 1 + c /\ x[4] = k
    <3>1. x[2] \in Nat /\ x[4] \in Nat
      BY <2>3, CellParts DEF Offsets
    <3>2. x[4] = k => (Updated(x, k) <=> x[2] > k)
      BY <1>1, <2>3, <3>1 DEF Updated, Final
    <3>3. x[4] = k => OwnerChunk(x, k) = x[2] - k - 1
      BY DEF OwnerChunk
    <3>4. Updated(x, k) /\ Owner(x, k) = a => x[4] = k /\ x[1] = m
      BY <1>3, <1>4, <1>5
    <3>5. Updated(x, k) /\ x[4] = k /\ x[1] = m => Owner(x, k) = a
      BY <1>3, <1>4, <1>5
    <3>6. QED
      BY <1>1, <2>1, <3>1, <3>2, <3>3, <3>4, <3>5
  <2>4. QED
    BY <2>2, <2>3 DEF Updated, k
<1>6. CASE a.kind = "top"
  <2>1. c \in Nat /\ k + 1 + c \in Offsets /\ Writes(WorkOf(a, c)) = TileCells(m, k, k + 1 + c)
    BY <1>1, <1>6, SizeOf DEF k, Writes, WorkOf, Work, m, Offsets
  <2>2. x \in Writes(WorkOf(a, c)) <=> x \in Cells /\ x[1] = m /\ x[2] = k /\ x[4] = k + 1 + c
    BY <1>1, <2>1, InTile
  <2>3. ASSUME x \in Cells
        PROVE  /\ Updated(x, k) /\ Owner(x, k) = a /\ OwnerChunk(x, k) = c
                    <=> x[1] = m /\ x[2] = k /\ x[4] = k + 1 + c
    <3>1. x[2] \in Nat /\ x[4] \in Nat
      BY <2>3, CellParts DEF Offsets
    <3>2. x[2] = k => (Updated(x, k) <=> x[4] > k)
      BY <1>1, <2>3, <3>1 DEF Updated, Final
    <3>3. x[2] = k /\ x[4] # k => OwnerChunk(x, k) = x[4] - k - 1
      BY DEF OwnerChunk
    <3>4. Updated(x, k) /\ Owner(x, k) = a => x[2] = k /\ x[4] # k /\ x[1] = m
      BY <1>3, <1>4, <1>6
    <3>5. Updated(x, k) /\ x[2] = k /\ x[4] # k /\ x[1] = m => Owner(x, k) = a
      BY <1>3, <1>4, <1>6
    <3>6. QED
      BY <1>1, <2>1, <3>1, <3>2, <3>3, <3>4, <3>5
  <2>4. QED
    BY <2>2, <2>3 DEF Updated, k
<1>7. CASE a.kind = "inner"
  <2> DEFINE y == <<m, RowOf(k, c) \div Parts, RowOf(k, c) % Parts, ColumnOf(k, c)>>
  <2>1. c \in 0 .. InteriorChunks(k) - 1
    BY <1>7, SizeOf DEF k
  <2>2. y \in Cells /\ y[1] = m /\ y[2] > k /\ y[4] > k /\ OwnerChunk(y, k) = c
    BY <1>1, <2>1, InteriorCell DEF k
  <2>3. Writes(WorkOf(a, c)) = {y}
    BY <1>7 DEF Writes, WorkOf, Work, m, k
  <2> HIDE DEF y
  <2>4. y[2] \in Nat /\ y[4] \in Nat
    BY <2>2, CellParts DEF Offsets
  <2>5. Updated(y, k)
    BY <1>1, <2>2, <2>4 DEF Updated, Final
  <2>6. Owner(y, k) = a
    BY <1>1, <1>3, <1>4, <1>7, <2>2, <2>4, <2>5
  <2>7. ASSUME Updated(x, k), Owner(x, k) = a, OwnerChunk(x, k) = c PROVE x = y
    <3>1. x \in Cells /\ x[4] # k /\ x[2] # k /\ x[1] = m /\ x[2] >= k /\ x[4] >= k
      BY <1>1, <1>3, <1>4, <1>7, <2>7, UpdatedCell DEF Updated
    <3>2. OwnerChunk(x, k) = OwnerChunk(y, k) /\ y[4] # k /\ y[2] # k
      BY <1>1, <2>2, <2>4, <2>7
    <3> DEFINE q == Rows(k)
               R(z) == (z[2] - k - 1) * Parts + z[3]
    <3>3. q \in Nat \ {0} /\ Parts \in Nat \ {0} /\ q = (Tiles - k - 1) * Parts
      BY <1>1, ChunkCounts, Parameters DEF Rows, k
    <3>4. ASSUME NEW z \in Cells, z[2] > k, z[4] > k
          PROVE  /\ R(z) \in 0 .. q - 1 /\ z[4] - k - 1 \in Nat /\ z[2] - k - 1 \in Nat
                 /\ z[3] \in 0 .. Parts - 1
                 /\ OwnerChunk(z, k) = (z[4] - k - 1) * q + R(z)
      BY <1>1, <3>4, InteriorChunk DEF k
    <3> HIDE DEF q, R
    <3>5. x[2] > k /\ x[4] > k
      BY <1>1, <3>1, CellParts DEF Offsets
    <3>6. x[4] - k - 1 = y[4] - k - 1 /\ R(x) = R(y)
      <4> DEFINE e == x[4] - k - 1
                 f == y[4] - k - 1
      <4>1. e \in Nat /\ f \in Nat /\ R(x) \in 0 .. q - 1 /\ R(y) \in 0 .. q - 1
              /\ e * q + R(x) = f * q + R(y)
        BY <2>2, <3>1, <3>2, <3>4, <3>5
      <4> HIDE DEF e, f
      <4>2. e = f /\ R(x) = R(y)
        BY <3>3, <4>1, DivInjective
      <4>3. QED
        BY <4>2 DEF e, f
    <3>7. x[2] - k - 1 = y[2] - k - 1 /\ x[3] = y[3]
      <4> DEFINE e == x[2] - k - 1
                 f == y[2] - k - 1
      <4>1. e \in Nat /\ f \in Nat /\ x[3] \in 0 .. Parts - 1 /\ y[3] \in 0 .. Parts - 1
        BY <2>2, <3>1, <3>4, <3>5
      <4>2. e * Parts + x[3] = f * Parts + y[3]
        BY <3>6 DEF R
      <4> HIDE DEF e, f
      <4>3. e = f /\ x[3] = y[3]
        BY <3>3, <4>1, <4>2, DivInjective
      <4>4. QED
        BY <4>3 DEF e, f
    <3>8. x[2] = y[2] /\ x[4] = y[4]
      BY <1>1, <2>4, <3>1, <3>6, <3>7, CellParts DEF Offsets
    <3>9. QED
      BY <2>2, <3>1, <3>7, <3>8, CellParts
  <2>8. QED
    BY <2>2, <2>3, <2>5, <2>6, <2>7 DEF k
<1>8. QED
  BY <1>1, <1>5, <1>6, <1>7

(* The operations.                                                         *)
LEMMA WorksAre ==
  ASSUME NEW w
  PROVE  w \in Works <=>
           \/ \E kind \in {"diagonal", "copy"}, m \in MatrixIds, k \in Offsets :
                w = Work(kind, m, k, 0)
           \/ \E k \in Offsets : \E kind \in {"left", "top"}, m \in MatrixIds, c \in 0 .. BorderChunks(k) - 1 :
                w = Work(kind, m, k, c)
           \/ \E k \in Offsets : \E m \in MatrixIds, c \in 0 .. InteriorChunks(k) - 1 :
                w = Work("interior", m, k, c)
<1> DEFINE A == {Work(kind, m, k, 0) : kind \in {"diagonal", "copy"}, m \in MatrixIds, k \in Offsets}
           B(k) == {Work(kind, m, k, c) : kind \in {"left", "top"}, m \in MatrixIds,
                                          c \in 0 .. BorderChunks(k) - 1}
           C(k) == {Work("interior", m, k, c) : m \in MatrixIds, c \in 0 .. InteriorChunks(k) - 1}
           D == UNION {B(k) : k \in Offsets}
           E == UNION {C(k) : k \in Offsets}
<1>1. Works = A \cup D \cup E
  BY DEF Works
<1>2. w \in A <=> \E kind \in {"diagonal", "copy"}, m \in MatrixIds, k \in Offsets :
                     w = Work(kind, m, k, 0)
  OBVIOUS
<1>3. \A k : w \in B(k) <=> \E kind \in {"left", "top"}, m \in MatrixIds, c \in 0 .. BorderChunks(k) - 1 :
                               w = Work(kind, m, k, c)
  OBVIOUS
<1>4. \A k : w \in C(k) <=> \E m \in MatrixIds, c \in 0 .. InteriorChunks(k) - 1 :
                               w = Work("interior", m, k, c)
  OBVIOUS
<1> HIDE DEF A, B, C
<1>5. w \in Works <=> w \in A \/ (\E k \in Offsets : w \in B(k)) \/ (\E k \in Offsets : w \in C(k))
  <2>1. w \in D <=> \E k \in Offsets : w \in B(k)
    BY Zenon
  <2>2. w \in E <=> \E k \in Offsets : w \in C(k)
    BY Zenon
  <2> HIDE DEF D, E
  <2>3. QED
    BY <1>1, <2>1, <2>2
<1>6. (\E k \in Offsets : w \in B(k)) <=>
        \E k \in Offsets : \E kind \in {"left", "top"}, m \in MatrixIds, c \in 0 .. BorderChunks(k) - 1 :
          w = Work(kind, m, k, c)
  BY <1>3, Zenon
<1>7. (\E k \in Offsets : w \in C(k)) <=>
        \E k \in Offsets : \E m \in MatrixIds, c \in 0 .. InteriorChunks(k) - 1 :
          w = Work("interior", m, k, c)
  BY <1>4, Zenon
<1>8. QED
  BY <1>2, <1>5, <1>6, <1>7, Zenon

(* An operation is a diagonal tile, a copy of one, or a chunk of a task.   *)
LEMMA WorkKinds ==
  ASSUME NEW w \in Works
  PROVE  /\ w.matrix \in MatrixIds /\ w.offset \in Offsets
         /\ \/ w.kind \in {"diagonal", "copy"} /\ w.chunk = 0
            \/ /\ w.kind \in {"left", "top", "interior"} /\ w.offset + 1 < Tiles
               /\ \E a \in Tasks \ {InitTask} :
                    /\ a.offset = w.offset /\ a.matrix = w.matrix
                    /\ a.kind = (IF w.kind = "interior" THEN "inner" ELSE w.kind)
                    /\ w.chunk \in 0 .. Size(a) - 1
                    /\ w = WorkOf(a, w.chunk)
         /\ w = Work(w.kind, w.matrix, w.offset, w.chunk)
<1>1. CASE \E kind \in {"diagonal", "copy"}, m \in MatrixIds, k \in Offsets : w = Work(kind, m, k, 0)
  BY <1>1 DEF Work
<1>2. CASE \E k \in Offsets : \E kind \in {"left", "top"}, m \in MatrixIds, c \in 0 .. BorderChunks(k) - 1 :
             w = Work(kind, m, k, c)
  <2>1. PICK k \in Offsets : \E kind \in {"left", "top"}, m \in MatrixIds, c \in 0 .. BorderChunks(k) - 1 :
             w = Work(kind, m, k, c)
    BY <1>2
  <2>2. PICK kind \in {"left", "top"}, m \in MatrixIds, c \in 0 .. BorderChunks(k) - 1 :
             w = Work(kind, m, k, c)
    BY <2>1
  <2>3. k + 1 < Tiles
    BY Parameters DEF Offsets, BorderChunks
  <2>4. w.kind = kind /\ w.matrix = m /\ w.offset = k /\ w.chunk = c
    BY <2>2 DEF Work
  <2> DEFINE a == Task(kind, m, k)
  <2>5. a \in Tasks \ {InitTask} /\ a.offset = k /\ a.matrix = m /\ a.kind = kind
    BY TaskIn
  <2>6. Size(a) = BorderChunks(k) /\ w = WorkOf(a, c)
    BY <2>2, <2>5 DEF Size, WorkOf
  <2> HIDE DEF a
  <2>7. QED
    BY <2>2, <2>3, <2>4, <2>5, <2>6
<1>3. CASE \E k \in Offsets : \E m \in MatrixIds, c \in 0 .. InteriorChunks(k) - 1 :
             w = Work("interior", m, k, c)
  <2>1. PICK k \in Offsets : \E m \in MatrixIds, c \in 0 .. InteriorChunks(k) - 1 :
             w = Work("interior", m, k, c)
    BY <1>3
  <2>2. PICK m \in MatrixIds, c \in 0 .. InteriorChunks(k) - 1 :
             w = Work("interior", m, k, c)
    BY <2>1
  <2>3. k + 1 < Tiles
    <3>1. ASSUME k + 1 >= Tiles PROVE FALSE
      BY <3>1, Parameters DEF Offsets, Rows, InteriorChunks
    <3>2. QED
      BY <3>1, Parameters DEF Offsets
  <2>4. w.kind = "interior" /\ w.matrix = m /\ w.offset = k /\ w.chunk = c
    BY <2>2 DEF Work
  <2> DEFINE a == Task("inner", m, k)
  <2>5. a \in Tasks \ {InitTask} /\ a.offset = k /\ a.matrix = m /\ a.kind = "inner"
    BY TaskIn
  <2>6. Size(a) = InteriorChunks(k) /\ w = WorkOf(a, c)
    BY <2>2, <2>5 DEF Size, WorkOf
  <2> HIDE DEF a
  <2>7. QED
    BY <2>2, <2>3, <2>4, <2>5, <2>6
<1>4. QED
  BY <1>1, <1>2, <1>3, WorksAre

(* The operations that the tasks have.                                     *)
LEMMA WorkIn ==
  /\ \A m \in MatrixIds, k \in Offsets :
       Work("diagonal", m, k, 0) \in Works /\ Work("copy", m, k, 0) \in Works
  /\ \A a \in Tasks \ {InitTask} : \A c \in 0 .. Size(a) - 1 : WorkOf(a, c) \in Works
<1>1. ASSUME NEW a \in Tasks \ {InitTask}, NEW c \in 0 .. Size(a) - 1
      PROVE  WorkOf(a, c) \in Works
  <2>1. a.kind \in {"left", "top", "inner"} /\ a.matrix \in MatrixIds /\ a.offset \in Offsets
    BY TaskParts
  <2>2. CASE a.kind = "inner"
    BY <2>1, <2>2, WorksAre DEF WorkOf, Size
  <2>3. CASE a.kind \in {"left", "top"}
    BY <2>1, <2>3, WorksAre DEF WorkOf, Size
  <2>4. QED
    BY <2>1, <2>2, <2>3
<1>2. QED
  BY <1>1, WorksAre

(* A cell and the iteration tell the operation that updates it.            *)
LEMMA WritesOf ==
  ASSUME NEW w \in Works, NEW x
  PROVE  LET k == w.offset
         IN  x \in Writes(w) =>
               /\ x \in Cells /\ Final(x) > k /\ x[1] = w.matrix
               /\ w = IF x[2] = k /\ x[4] = k THEN Work("diagonal", x[1], k, 0)
                      ELSE WorkOf(Owner(x, k), OwnerChunk(x, k))
<1> DEFINE k == w.offset
<1> SUFFICES ASSUME x \in Writes(w)
             PROVE  /\ x \in Cells /\ Final(x) > k /\ x[1] = w.matrix
                    /\ w = IF x[2] = k /\ x[4] = k THEN Work("diagonal", x[1], k, 0)
                           ELSE WorkOf(Owner(x, k), OwnerChunk(x, k))
  OBVIOUS
<1>1. CASE w.kind = "copy"
  BY <1>1 DEF Writes
<1>2. CASE w.kind = "diagonal"
  BY <1>2, WorkKinds, InTile DEF Writes, Offsets, Final
<1>3. CASE w.kind \notin {"copy", "diagonal"}
  <2>1. PICK a \in Tasks \ {InitTask} : /\ a.offset = k /\ a.matrix = w.matrix /\ k + 1 < Tiles
                                        /\ w.chunk \in 0 .. Size(a) - 1 /\ w = WorkOf(a, w.chunk)
    BY <1>3, WorkKinds
  <2>2. Updated(x, k) /\ Owner(x, k) = a /\ OwnerChunk(x, k) = w.chunk
    BY <2>1, ChunkWrites
  <2>3. x[1] = w.matrix
    BY <2>1, <2>2, UpdatedCell, WorkKinds
  <2>4. QED
    BY <2>1, <2>2, <2>3 DEF Updated
<1>4. QED
  BY <1>1, <1>2, <1>3

(* An operation can start: see Ready in LuDecomposition.                   *)
IsReady(w) ==
  /\ \A x \in Writes(w) : version[x] = w.offset
  /\ \A x \in Reads(w) : version[x] = Final(x)

(* Operations that can start at the same time do not conflict.             *)
LEMMA ReadyDisjoint ==
  ASSUME NEW v \in Works, NEW w \in Works, v # w, IsReady(v), IsReady(w)
  PROVE  Writes(v) \cap (Reads(w) \cup Writes(w)) = {} /\ Writes(w) \cap Reads(v) = {}
<1>1. v.offset \in Int /\ w.offset \in Int
  BY WorkKinds DEF Offsets
<1>2. ASSUME NEW x \in Writes(v), x \in Reads(w) PROVE FALSE
  BY <1>1, <1>2, WritesOf DEF IsReady
<1>3. ASSUME NEW x \in Writes(w), x \in Reads(v) PROVE FALSE
  BY <1>1, <1>3, WritesOf DEF IsReady
<1>4. ASSUME NEW x \in Writes(v), x \in Writes(w) PROVE FALSE
  BY <1>4, WritesOf DEF IsReady
<1>5. QED
  BY <1>2, <1>3, <1>4

(* The decomposition of the abstract specification has the same tiles.     *)
LEMMA SameTiles ==
  /\ Abstract!Cells = Cells /\ Abstract!Works = Works
  /\ \A x : Abstract!Final(x) = Final(x)
  /\ \A w : Abstract!Writes(w) = Writes(w) /\ Abstract!Reads(w) = Reads(w)
  /\ \A w : Abstract!Ready(w) <=> IsReady(w)
<1>1. Abstract!Cells = Cells
  BY DEF Abstract!Cells, Cells, Abstract!MatrixIds, MatrixIds, Abstract!Offsets, Offsets
<1>2. \A x : Abstract!Final(x) = Final(x)
  BY DEF Abstract!Final, Final
<1>3. \A m, i, j : Abstract!TileCells(m, i, j) = TileCells(m, i, j)
  BY DEF Abstract!TileCells, TileCells
<1>4. \A k, c : /\ Abstract!RowOf(k, c) = RowOf(k, c) /\ Abstract!ColumnOf(k, c) = ColumnOf(k, c)
                /\ Abstract!BorderChunks(k) = BorderChunks(k)
                /\ Abstract!InteriorChunks(k) = InteriorChunks(k)
  BY DEF Abstract!RowOf, RowOf, Abstract!ColumnOf, ColumnOf, Abstract!Rows, Rows,
         Abstract!BorderChunks, BorderChunks, Abstract!InteriorChunks, InteriorChunks
<1>5. \A w : Abstract!Writes(w) = Writes(w) /\ Abstract!Reads(w) = Reads(w)
  BY <1>3, <1>4 DEF Abstract!Writes, Writes, Abstract!Reads, Reads
<1>6. Abstract!Works = Works
  BY <1>4 DEF Abstract!Work, Work, Abstract!MatrixIds, MatrixIds, Abstract!Offsets, Offsets,
     Abstract!Works, Works
<1>7. \A w : Abstract!Ready(w) <=> IsReady(w)
  BY <1>2, <1>5 DEF Abstract!Ready, IsReady
<1>8. QED
  BY <1>1, <1>2, <1>5, <1>6, <1>7

-----------------------------------------------------------------------------
(* Who is where.                                                           *)

(* The label of a thread tells the kind of its task.                       *)
LEMMA ThreadTask ==
  ASSUME TypeOK, PoolInv, NEW t \in Threads, pc[t] \notin {"idle", "returned"}
  PROVE  /\ task[t] \in Tasks /\ task[t] # NoTask /\ pc[t] \in LabelsOf(task[t].kind)
         /\ task[t].kind = "init" <=> task[t] = InitTask
         /\ pc[t] \in {"copy", "cas", "store", "pushInner"} =>
              task[t] # InitTask /\ task[t].kind \in {"left", "top"}
         /\ pc[t] \in {"count", "diagonal"} => task[t] # InitTask /\ task[t].kind = "inner"
         /\ pc[t] \in {"iterate", "pushLeft", "pushTop", "stop"} /\ task[t] # InitTask
              => task[t].kind = "inner"
<1>1. ThreadInv(t)
  BY DEF PoolInv
<1>2. task[t] \in Tasks \cup {NoTask} /\ task[t] # NoTask
  BY <1>1 DEF ThreadInv, TypeOK
<1>3. pc[t] \in LabelsOf(task[t].kind)
  BY <1>1, <1>2 DEF ThreadInv
<1>4. task[t].kind = "init" <=> task[t] = InitTask
  BY <1>2, TaskParts, InitIsTask
<1>5. task[t] # InitTask => task[t].kind \in {"left", "top", "inner"}
  BY <1>2, TaskParts
<1>6. QED
  BY <1>2, <1>3, <1>4, <1>5 DEF LabelsOf

(* A thread at such a label is in the finish function of its task, or in   *)
(* the first task.                                                         *)
LEMMA FinishLabel ==
  ASSUME TypeOK, PoolInv, NEW t \in Threads, pc[t] \in FinishLabels
  PROVE  task[t] \in Tasks /\ (task[t] # InitTask => Finishing(t))
BY ThreadTask DEF FinishLabels, Finishing

(* What the stage of its matrix says of a task.                            *)
LEMMA TaskStage ==
  ASSUME NEW a \in Tasks \ {InitTask}, NEW k \in Offsets, NEW s \in Stages,
         StageInv(a.matrix, k, s)
  PROVE  /\ Running(a) => a.offset = k /\ a.kind \in RunningKinds(s)
         /\ a.offset = k => (Absent(a) <=> a.kind \notin CreatedKinds(s))
         /\ a.offset > k => Absent(a)
BY DEF StageInv, TasksInStage

(* A chunk of a task that was created and does not run is done.            *)
LEMMA EndedIsDone ==
  ASSUME TypeOK, PoolInv, NEW a \in Tasks \ {InitTask}, ~Running(a), ~Absent(a)
  PROVE  /\ Unclaimed(a) = {} /\ \A c \in 0 .. Size(a) - 1 : Done(a, c)
<1>1. a \notin queued /\ \A t \in Threads : task[t] = a => pc[t] \in FinishLabels
  BY DEF Running
<1>2. \A t \in Threads : task[t] = a => Finishing(t) /\ ~Looping(t)
  BY <1>1 DEF Finishing, Looping
<1>3. Unclaimed(a) = {}
  BY <1>1, <1>2 DEF PoolInv, TaskInv
<1>4. \A t \in Threads : task[t] = a => ~Carries(t)
  BY <1>1 DEF Carries, FinishLabels
<1>5. ASSUME NEW c \in 0 .. Size(a) - 1 PROVE Done(a, c)
  BY <1>3, <1>4, <1>5 DEF Unclaimed, Done
<1>6. QED
  BY <1>3, <1>5

(* A chunk that a thread is executing is not done.                         *)
LEMMA CarriedIsNotDone ==
  ASSUME NEW t \in Threads, Carries(t)
  PROVE  ~Done(task[t], chunk[t])
BY DEF Done

(* A cell is updated once at least and once an iteration at most.          *)
LEMMA Finals ==
  ASSUME NEW x \in Cells
  PROVE  Final(x) \in 1 .. Tiles /\ x[2] \in 0 .. Tiles - 1 /\ x[4] \in 0 .. Tiles - 1
         /\ Final(x) <= x[2] + 1 /\ Final(x) <= x[4] + 1
BY CellParts, Parameters DEF Final, Offsets

(* The stages in which a kind of task runs.                                *)
LEMMA RunningStages ==
  ASSUME NEW s \in Stages
  PROVE  /\ "left" \in RunningKinds(s) => s \in {"pushTop", "borders"}
         /\ "top" \in RunningKinds(s) => s = "borders"
         /\ "inner" \in RunningKinds(s) => s \in {"interior", "diagonal", "ahead"}
         /\ RunningKinds(s) \subseteq CreatedKinds(s)
         /\ s \in {"interior", "diagonal", "ahead"} =>
              CreatedKinds(s) = {"left", "top", "inner"} /\ RunningKinds(s) = {"inner"}
BY DEF RunningKinds, CreatedKinds, Stages

(* What the version of a cell is, case by case.                            *)
LEMMA Versions ==
  ASSUME NEW k \in Offsets, NEW s \in Stages, NEW x \in Cells
  PROVE  /\ Final(x) <= k => VersionIn(k, s, x) = Final(x)
         /\ x[2] = k /\ x[4] = k => VersionIn(k, s, x) = IF s = "first" THEN 0 ELSE k + 1
         /\ Updated(x, k) => VersionIn(k, s, x) =
              IF ~Done(Owner(x, k), OwnerChunk(x, k)) THEN k
              ELSE IF s = "ahead" /\ x[2] = k + 1 /\ x[4] = k + 1 THEN k + 2 ELSE k + 1
         /\ Final(x) <= k \/ (x[2] = k /\ x[4] = k) \/ Updated(x, k)
BY Finals DEF Offsets, Final, VersionIn, Updated

-----------------------------------------------------------------------------
(* Operations start when they may.                                         *)

(* There are finitely many threads.                                        *)
LEMMA ThreadsFinite == IsFiniteSet(Threads) /\ \A S \in SUBSET Threads : IsFiniteSet(S)
<1>1. IsFiniteSet(Threads)
  BY LudAssumption, FS_Interval DEF Threads
<1>2. QED
  BY <1>1, FS_Subset

(* A tile has as many cells as it has parts.                               *)
LEMMA TileFinite ==
  ASSUME NEW m, NEW i, NEW j
  PROVE  /\ IsFiniteSet(TileCells(m, i, j)) /\ Cardinality(TileCells(m, i, j)) = Parts
         /\ \A S \in SUBSET TileCells(m, i, j) : IsFiniteSet(S)
<1> DEFINE f == [p \in 0 .. Parts - 1 |-> <<m, i, p, j>>]
<1>1. IsFiniteSet(0 .. Parts - 1) /\ Cardinality(0 .. Parts - 1) = Parts
  BY Parameters, FS_Interval
<1>2. f \in Bijection(0 .. Parts - 1, TileCells(m, i, j))
  <2>1. TileCells(m, i, j) = {f[p] : p \in 0 .. Parts - 1}
    BY DEF TileCells
  <2>2. \A p, q \in 0 .. Parts - 1 : f[p] = f[q] => p = q
    OBVIOUS
  <2>3. f \in [0 .. Parts - 1 -> TileCells(m, i, j)]
    BY <2>1
  <2> HIDE DEF f
  <2>4. f \in Injection(0 .. Parts - 1, TileCells(m, i, j))
    BY <2>2, <2>3 DEF Injection, IsInjective
  <2>5. \A y \in TileCells(m, i, j) : \E p \in 0 .. Parts - 1 : f[p] = y
    BY <2>1
  <2>6. QED
    BY <2>3, <2>4, <2>5 DEF Bijection, Surjection
<1> HIDE DEF f
<1>3. ExistsBijection(0 .. Parts - 1, TileCells(m, i, j))
  BY <1>2 DEF ExistsBijection
<1>4. IsFiniteSet(TileCells(m, i, j)) /\ Cardinality(TileCells(m, i, j)) = Parts
  BY <1>1, <1>3, FS_Bijection
<1>5. QED
  BY <1>4, FS_Subset

(* The first tile of the next iteration is complete when none of its cells *)
(* counts.                                                                 *)
LEMMA FirstTileDone ==
  ASSUME NEW m \in MatrixIds, NEW k \in Offsets, NEW s \in Stages, StageInv(m, k, s),
         s \in {"interior", "diagonal", "ahead"}, sync[m] = 0
  PROVE  /\ Acting("count", m, k) = {}
         /\ \A x \in TileCells(m, k + 1, k + 1) : version[x] # k
<1> DEFINE S == {x \in TileCells(m, k + 1, k + 1) : version[x] = k}
           A == Acting("count", m, k)
<1>1. IsFiniteSet(S) /\ IsFiniteSet(A)
  BY TileFinite, ThreadsFinite DEF Acting
<1>2. Cardinality(S) \in Nat /\ Cardinality(A) \in Nat
  BY <1>1, FS_CardinalityType
<1>3. 0 = Cardinality(A) + Cardinality(S)
  BY DEF StageInv, SyncInStage
<1> HIDE DEF S, A
<1>4. S = {} /\ A = {}
  BY <1>1, <1>2, <1>3, FS_EmptySet
<1>5. QED
  BY <1>4 DEF S, A

(* The borders are final while the interior runs.                          *)
LEMMA BordersFinal ==
  ASSUME TypeOK, PoolInv, NEW m \in MatrixIds, NEW k \in Offsets, NEW s \in Stages,
         StageInv(m, k, s), s \in {"interior", "diagonal", "ahead"},
         NEW x \in Cells, x[1] = m, x[2] = k \/ x[4] = k, x[2] >= k, x[4] >= k
  PROVE  version[x] = Final(x)
<1>1. k \in Nat /\ k + 1 < Tiles /\ version[x] = VersionIn(k, s, x)
  BY DEF StageInv, Offsets
<1>2. Final(x) = k + 1
  BY <1>1, Finals DEF Final
<1>3. CASE x[2] = k /\ x[4] = k
  BY <1>1, <1>2, <1>3, Versions
<1>4. CASE ~(x[2] = k /\ x[4] = k)
  <2> DEFINE a == Owner(x, k)
  <2>1. Updated(x, k)
    BY <1>1, <1>2, <1>4 DEF Updated
  <2>2. a \in Tasks \ {InitTask} /\ a.matrix = m /\ a.offset = k /\ a.kind \in {"left", "top"}
    BY <2>1, UpdatedCell DEF Owner, Task
  <2>3. OwnerChunk(x, k) \in 0 .. Size(a) - 1
    BY <1>1, <1>4, <2>2, SizeOf, Finals, Parameters DEF OwnerChunk
  <2> HIDE DEF a
  <2>4. ~Running(a) /\ ~Absent(a)
    BY <2>2, TaskStage, RunningStages
  <2>5. Done(a, OwnerChunk(x, k))
    BY <2>2, <2>3, <2>4, EndedIsDone
  <2>6. ~(x[2] = k + 1 /\ x[4] = k + 1)
    BY <1>1
  <2>7. QED
    BY <1>1, <1>2, <2>1, <2>5, <2>6, Versions DEF a
<1>5. QED
  BY <1>3, <1>4

(* A chunk that a thread runs: the operation, and what it relies on.       *)
LEMMA ChunkReady ==
  ASSUME TypeOK, PoolInv, NEW t \in Threads, pc[t] = "run", task[t] # InitTask,
         NEW k \in Offsets, NEW s \in Stages, StageInv(Matrix(t), k, s)
  PROVE  /\ task[t].offset = k /\ k + 1 < Tiles /\ chunk[t] \in 0 .. Size(task[t]) - 1
         /\ Operation(t) = WorkOf(task[t], chunk[t]) /\ Operation(t) \in Works
         /\ Operation(t).offset = k /\ IsReady(Operation(t))
<1>1. PICK a : a = task[t]
  OBVIOUS
<1>2. PICK c : c = chunk[t]
  OBVIOUS
<1>3. a \in Tasks \ {InitTask} /\ a.kind \in {"left", "top", "inner"} /\ a.matrix \in MatrixIds
        /\ a.matrix = Matrix(t)
  BY <1>1, ThreadTask, TaskParts DEF Matrix
<1>4. Running(a)
  BY <1>1 DEF Running, FinishLabels
<1>5. a.offset = k /\ a.kind \in RunningKinds(s)
  BY <1>3, <1>4, TaskStage
<1>6. k + 1 < Tiles /\ s # "first" /\ k \in Nat
  BY <1>3, <1>5, RunningStages DEF StageInv, Offsets
<1>7. c \in 0 .. Size(a) - 1
  BY <1>1, <1>2, <1>3 DEF PoolInv, ThreadInv, Carries, TypeOK
<1> DEFINE w == WorkOf(a, c)
<1>8. Operation(t) = w
  BY <1>1, <1>2 DEF Operation, ChunkWork, WorkOf, Matrix, Offset
<1>9. w \in Works /\ w.offset = k
  BY <1>3, <1>5, <1>7, WorkIn DEF WorkOf, Work
<1>10. ASSUME NEW x \in Writes(w) PROVE version[x] = k
  <2>1. Updated(x, k) /\ Owner(x, k) = a /\ OwnerChunk(x, k) = c
    BY <1>3, <1>5, <1>6, <1>7, ChunkWrites
  <2>2. x \in Cells /\ x[1] = Matrix(t)
    BY <1>3, <2>1, UpdatedCell DEF Updated
  <2>3. ~Done(a, c)
    BY <1>1, <1>2, CarriedIsNotDone DEF Carries
  <2>4. QED
    BY <2>1, <2>2, <2>3, Versions DEF StageInv
<1>11. ASSUME NEW x \in Reads(w) PROVE version[x] = Final(x)
  <2>1. CASE a.kind \in {"left", "top"}
    BY <1>3, <1>5, <1>6, <1>11, <2>1, InTile, Versions DEF Reads, WorkOf, Work, StageInv, Final
  <2>2. CASE a.kind = "inner"
    <3> DEFINE y == <<a.matrix, RowOf(k, c) \div Parts, RowOf(k, c) % Parts, ColumnOf(k, c)>>
               z == <<a.matrix, RowOf(k, c) \div Parts, RowOf(k, c) % Parts, k>>
    <3>1. y \in Cells /\ y[2] > k /\ y[4] > k
      BY <1>3, <1>5, <1>6, <1>7, <2>2, SizeOf, InteriorCell
    <3>2. RowOf(k, c) \div Parts \in Offsets /\ RowOf(k, c) % Parts \in 0 .. Parts - 1
            /\ ColumnOf(k, c) \in Offsets /\ RowOf(k, c) \div Parts > k /\ ColumnOf(k, c) > k
      BY <3>1 DEF Cells
    <3>3. Reads(w) = {z} \cup TileCells(a.matrix, k, ColumnOf(k, c))
      BY <1>5, <2>2 DEF Reads, WorkOf, Work
    <3>4. z \in Cells /\ z[1] = a.matrix /\ z[2] >= k /\ z[4] = k /\ z[4] >= k
      BY <1>3, <1>6, <3>2, CellIn DEF Offsets
    <3> HIDE DEF y, z
    <3>5. s \in {"interior", "diagonal", "ahead"}
      BY <1>5, <2>2, RunningStages
    <3>6. CASE x = z
      BY <1>3, <1>6, <3>4, <3>5, <3>6, BordersFinal
    <3>7. CASE x \in TileCells(a.matrix, k, ColumnOf(k, c))
      BY <1>3, <1>6, <3>2, <3>5, <3>7, InTile, BordersFinal DEF Offsets
    <3>8. QED
      BY <1>11, <3>3, <3>6, <3>7
  <2>3. QED
    BY <1>3, <2>1, <2>2
<1>12. IsReady(w)
  BY <1>9, <1>10, <1>11 DEF IsReady
<1>13. QED
  BY <1>1, <1>2, <1>5, <1>6, <1>7, <1>8, <1>9, <1>12

(* The copy that a border task makes of the diagonal tile.                 *)
LEMMA CopyReady ==
  ASSUME TypeOK, PoolInv, NEW t \in Threads, pc[t] = "copy",
         NEW k \in Offsets, NEW s \in Stages, StageInv(Matrix(t), k, s)
  PROVE  /\ Matrix(t) \in MatrixIds /\ Operation(t) = Work("copy", Matrix(t), k, 0)
         /\ Operation(t) \in Works /\ IsReady(Operation(t)) /\ Writes(Operation(t)) = {}
<1>1. PICK a : a = task[t]
  OBVIOUS
<1>2. a \in Tasks \ {InitTask} /\ a.kind \in {"left", "top"} /\ a.matrix \in MatrixIds
        /\ a.matrix = Matrix(t) /\ a.offset = Offset(t)
  BY <1>1, ThreadTask, TaskParts DEF Matrix, Offset
<1>3. Running(a)
  BY <1>1 DEF Running, FinishLabels
<1>4. a.offset = k /\ s # "first" /\ k \in Nat
  BY <1>2, <1>3, TaskStage, RunningStages DEF Offsets
<1>5. Operation(t) = Work("copy", a.matrix, k, 0)
  BY <1>2, <1>4 DEF Operation
<1> DEFINE w == Work("copy", a.matrix, k, 0)
<1>6. w \in Works
  BY <1>2, WorkIn
<1>7. Writes(w) = {} /\ Reads(w) = TileCells(a.matrix, k, k)
  BY DEF Writes, Reads, Work
<1> HIDE DEF w
<1>8. ASSUME NEW x \in Reads(w) PROVE version[x] = Final(x)
  BY <1>2, <1>4, <1>7, InTile, Versions DEF StageInv, Final
<1>9. IsReady(w)
  BY <1>7, <1>8 DEF IsReady
<1>10. QED
  BY <1>2, <1>5, <1>6, <1>7, <1>9 DEF w

(* The diagonal tile of the first iteration.                               *)
LEMMA FirstReady ==
  ASSUME TypeOK, PoolInv, NEW t \in Threads, pc[t] = "run", task[t] = InitTask,
         NEW k \in Offsets, NEW s \in Stages, StageInv(chunk[t], k, s)
  PROVE  /\ chunk[t] \in MatrixIds /\ s = "first" /\ k = 0
         /\ Operation(t) = Work("diagonal", chunk[t], 0, 0)
         /\ Operation(t) \in Works /\ IsReady(Operation(t))
<1>1. PICK m : m = chunk[t]
  OBVIOUS
<1>2. m \in MatrixIds
  BY <1>1, InitIsTask DEF PoolInv, ThreadInv, Carries, TypeOK, MatrixIds
<1>3. s = "first" /\ k = 0 /\ 0 \in Offsets
  BY <1>1, CarriedIsNotDone, Parameters DEF StageInv, Carries, Offsets
<1>4. Operation(t) = Work("diagonal", m, 0, 0)
  BY <1>1, InitIsTask DEF Operation, ChunkWork
<1> DEFINE w == Work("diagonal", m, 0, 0)
<1>5. w \in Works /\ w.offset = 0
  BY <1>2, <1>3, WorkIn DEF Work
<1>6. Writes(w) = TileCells(m, 0, 0) /\ Reads(w) = {}
  BY DEF Writes, Reads, Work
<1> HIDE DEF w
<1>7. ASSUME NEW x \in Writes(w) PROVE version[x] = 0
  BY <1>1, <1>2, <1>3, <1>6, InTile, Versions DEF StageInv
<1>8. IsReady(w)
  BY <1>5, <1>6, <1>7 DEF IsReady
<1>9. QED
  BY <1>1, <1>2, <1>3, <1>4, <1>5, <1>8 DEF w

(* The diagonal tile of the next iteration.                                *)
LEMMA NextReady ==
  ASSUME TypeOK, PoolInv, NEW t \in Threads, pc[t] = "diagonal",
         NEW k \in Offsets, NEW s \in Stages, StageInv(Matrix(t), k, s)
  PROVE  /\ Matrix(t) \in MatrixIds /\ s = "diagonal" /\ Offset(t) = k /\ k + 1 \in Offsets
         /\ k + 1 < Tiles
         /\ Acting("diagonal", Matrix(t), k) = {t}
         /\ Operation(t) = Work("diagonal", Matrix(t), k + 1, 0)
         /\ Operation(t) \in Works /\ IsReady(Operation(t))
<1>1. PICK m : m = Matrix(t)
  OBVIOUS
<1>2. task[t] \in Tasks \ {InitTask}
  BY ThreadTask
<1>3. m \in MatrixIds /\ Offset(t) \in Offsets /\ IterationMatrix(t) = m
  BY <1>1, <1>2, TaskParts DEF Matrix, Offset, IterationMatrix
<1>4. t \in Acting("diagonal", m, Offset(t)) /\ Offset(t) \in 0 .. Tiles
  BY <1>3, Parameters DEF Acting, IterationLabels, Offsets
<1>5. s = "diagonal" /\ Offset(t) = k /\ Acting("diagonal", m, k) = {t}
  BY <1>1, <1>4 DEF StageInv, ThreadsInStage, DriverLabels
<1>6. k + 1 < Tiles /\ k \in Nat /\ k + 1 \in Offsets
  BY <1>1, <1>5, ChunkCounts DEF StageInv, Offsets
<1>7. sync[m] = 0
  BY <1>1, <1>5 DEF StageInv, SyncInStage
<1>8. \A x \in TileCells(m, k + 1, k + 1) : version[x] # k
  BY <1>1, <1>3, <1>5, <1>7, FirstTileDone
<1> DEFINE w == Work("diagonal", m, k + 1, 0)
<1>9. Operation(t) = w
  BY <1>1, <1>5 DEF Operation
<1>10. w \in Works /\ w.offset = k + 1
  BY <1>3, <1>6, WorkIn DEF Work
<1>11. Writes(w) = TileCells(m, k + 1, k + 1) /\ Reads(w) = {}
  BY DEF Writes, Reads, Work
<1> HIDE DEF w
<1>12. ASSUME NEW x \in Writes(w) PROVE version[x] = k + 1
  BY <1>1, <1>3, <1>5, <1>6, <1>8, <1>11, <1>12, InTile, Versions DEF Updated, Final, StageInv
<1>13. IsReady(w)
  BY <1>10, <1>11, <1>12 DEF IsReady
<1>14. QED
  BY <1>1, <1>3, <1>5, <1>6, <1>9, <1>10, <1>13 DEF w

-----------------------------------------------------------------------------
(* Steps of the pool.                                                      *)

ThreadKept(t) ==
  pc'[t] = pc[t] /\ task'[t] = task[t] /\ chunk'[t] = chunk[t] /\ work'[t] = work[t]

OthersKept(t) == \A u \in Threads \ {t} : ThreadKept(u)

(* What is said of a thread depends on its own variables only.             *)
LEMMA KeptThread ==
  ASSUME NEW t \in Threads, pc'[t] = pc[t], task'[t] = task[t], chunk'[t] = chunk[t]
  PROVE  /\ Looping(t)' <=> Looping(t)
         /\ Finishing(t)' <=> Finishing(t)
         /\ Carries(t)' <=> Carries(t)
         /\ Operation(t)' = Operation(t)
BY DEF Matrix, Offset, ChunkWork, Finishing, Looping, Carries, Operation

(* The program may push a task that is not there.                          *)
Pushes == queued' = queued \/ \E b \in Tasks : Absent(b) /\ Size(b) > 0 /\ queued' = queued \cup {b}

(* A task that is not there is nowhere.                                    *)
LEMMA AbsentTask ==
  ASSUME TypeOK, PoolInv, NEW b \in Tasks, Absent(b)
  PROVE  b \notin queued /\ b \notin open /\ claimed[b] = {} /\ \A t \in Threads : task[t] # b
BY DEF Absent, Live, PoolInv, TaskInv

(* The parts of ThreadInv that other threads disturb.                      *)
LEMMA ThreadStays ==
  ASSUME TypeOK, PoolInv, NEW t \in Threads, NEW u \in Threads \ {t}, ThreadKept(u),
         task[u] # NoTask => claimed[task[u]] \subseteq claimed'[task[u]],
         task[u] # NoTask => (task[u] \in open' => task[u] \in open),
         Finishing(u) => claimed'[task[u]] = claimed[task[u]] /\ task'[t] # task[u],
         OthersKept(t),
         task'[t] = task[u] /\ Carries(t)' /\ Carries(u) => chunk'[t] # chunk[u]
  PROVE  ThreadInv(u)'
<1>1. ThreadInv(u)
  BY DEF PoolInv
<1>2. /\ pc'[u] = pc[u] /\ task'[u] = task[u] /\ chunk'[u] = chunk[u] /\ work'[u] = work[u]
      /\ Finishing(u)' <=> Finishing(u)
      /\ Carries(u)' <=> Carries(u)
      /\ Operation(u)' = Operation(u)
  BY KeptThread DEF ThreadKept
<1>3. task[u] = NoTask => ~Carries(u) /\ ~Finishing(u) /\ pc[u] # "leave"
  BY <1>1 DEF ThreadInv, Carries, Finishing, FinishLabels
<1>4. task[u] = InitTask => task[u] # NoTask
  BY InitIsTask, NoTaskIsNone
<1>5. Carries(u)' => chunk'[u] \in claimed'[task'[u]]
  BY <1>1, <1>2, <1>3 DEF ThreadInv
<1>6. task'[u] = InitTask /\ pc'[u] \in {"iterate", "pushLeft", "pushTop"}
       => chunk'[u] \in claimed'[InitTask]
  BY <1>1, <1>2, <1>4 DEF ThreadInv
<1>7. pc'[u] = "leave" => task'[u] \notin open'
  BY <1>1, <1>2, <1>3 DEF ThreadInv
<1>8. Finishing(u)' =>
        /\ task'[u] \notin open' /\ Unclaimed(task[u])' = {}
        /\ \A v \in Threads \ {u} : task'[v] # task'[u]
  <2> SUFFICES ASSUME Finishing(u)
               PROVE  /\ task'[u] \notin open' /\ Unclaimed(task[u])' = {}
                      /\ \A v \in Threads \ {u} : task'[v] # task'[u]
    BY <1>2
  <2>1. task[u] # NoTask /\ Unclaimed(task[u]) = {} /\ task[u] \notin open
          /\ \A v \in Threads \ {u} : task[v] # task[u]
    BY <1>1, <1>3 DEF ThreadInv
  <2>2. PICK a : a = task[u]
    OBVIOUS
  <2>3. claimed'[a] = claimed[a] /\ Unclaimed(a) = {}
    BY <2>1, <2>2
  <2>4. Unclaimed(a)' = {}
    BY <2>3 DEF Unclaimed
  <2>5. \A v \in Threads \ {u} : task'[v] # task[u]
    BY <2>1 DEF OthersKept, ThreadKept
  <2>6. QED
    BY <1>2, <2>1, <2>2, <2>4, <2>5
<1>9. ASSUME NEW v \in Threads \ {u}, task'[v] = task'[u], Carries(u)', Carries(v)'
      PROVE  chunk'[v] # chunk'[u]
  <2>1. CASE v = t
    BY <1>2, <1>9, <2>1
  <2>2. CASE v # t
    BY <1>1, <1>2, <1>9, <2>2, KeptThread DEF OthersKept, ThreadKept, ThreadInv
  <2>3. QED
    BY <2>1, <2>2
<1>10. task'[u] = NoTask => pc'[u] \in {"idle", "returned"}
  BY <1>1, <1>2 DEF ThreadInv
<1>11. task'[u] # NoTask => pc'[u] \in LabelsOf(task'[u].kind)
  BY <1>1, <1>2 DEF ThreadInv
<1>12. work'[u] # NoWork => pc'[u] \in {"copy", "run", "diagonal"} /\ work'[u] = Operation(u)'
  BY <1>1, <1>2 DEF ThreadInv
<1>13. QED
  BY <1>5, <1>6, <1>7, <1>8, <1>9, <1>10, <1>11, <1>12 DEF ThreadInv

(* A task that a step does not touch.                                      *)
LEMMA TaskStays ==
  ASSUME TypeOK, PoolInv, NEW t \in Threads, OthersKept(t), NEW a \in Tasks,
         task[t] # a, task'[t] # a, claimed'[a] = claimed[a],
         a \in open' => a \in open, a \in queued' <=> a \in queued
  PROVE  TaskInv(a)'
<1>1. TaskInv(a)
  BY DEF PoolInv
<1>2. \A u \in Threads : task'[u] = a <=> task[u] = a
  BY DEF OthersKept, ThreadKept
<1>3. \A u \in Threads : task[u] = a => (Looping(u)' <=> Looping(u))
  BY KeptThread DEF OthersKept, ThreadKept
<1>4. Absent(a)' <=> Absent(a)
  BY <1>2 DEF Absent, Live
<1>5. Unclaimed(a)' = Unclaimed(a)
  BY DEF Unclaimed
<1>6. (\E u \in Threads : task'[u] = a /\ Looping(u)') <=> \E u \in Threads : task[u] = a /\ Looping(u)
  BY <1>2, <1>3
<1>7. QED
  BY <1>1, <1>2, <1>4, <1>5, <1>6 DEF TaskInv

(* A thread goes on in the functions of its task.                          *)
LEMMA RelabelStep ==
  ASSUME TypeOK, PoolInv, NEW t \in Threads, OthersKept(t), task[t] # NoTask,
         task'[t] = task[t], chunk'[t] = chunk[t], claimed' = claimed, open' = open, Pushes,
         pc'[t] \in LabelsOf(task[t].kind), pc'[t] # "leave",
         Looping(t) => Looping(t)', Finishing(t)' => Finishing(t), Carries(t)' => Carries(t),
         task[t] = InitTask /\ pc'[t] \in {"iterate", "pushLeft", "pushTop"}
           => chunk[t] \in claimed[InitTask],
         work'[t] # NoWork => pc'[t] \in {"copy", "run", "diagonal"} /\ work'[t] = Operation(t)'
  PROVE  PoolInv'
<1>1. ThreadInv(t)
  BY DEF PoolInv
<1>2. ASSUME NEW u \in Threads \ {t} PROVE ThreadInv(u)'
  BY ThreadStays DEF PoolInv, OthersKept, ThreadInv
<1>3. ThreadInv(t)'
  <2>1. Carries(t)' => chunk'[t] \in claimed'[task'[t]]
    BY <1>1 DEF ThreadInv
  <2>2. Finishing(t)' =>
          /\ task'[t] \notin open' /\ Unclaimed(task[t])' = {}
          /\ \A v \in Threads \ {t} : task'[v] # task'[t]
    <3> SUFFICES ASSUME Finishing(t)
                 PROVE  /\ task'[t] \notin open' /\ Unclaimed(task[t])' = {}
                        /\ \A v \in Threads \ {t} : task'[v] # task'[t]
      OBVIOUS
    <3>1. task[t] \notin open /\ Unclaimed(task[t]) = {} /\ \A v \in Threads \ {t} : task[v] # task[t]
      BY <1>1 DEF ThreadInv
    <3>2. Unclaimed(task[t])' = Unclaimed(task[t])
      BY DEF Unclaimed
    <3>3. QED
      BY <3>1, <3>2 DEF OthersKept, ThreadKept
  <2>3. ASSUME NEW v \in Threads \ {t}, task'[v] = task'[t], Carries(t)', Carries(v)'
        PROVE  chunk'[v] # chunk'[t]
    BY <1>1, <2>3, KeptThread DEF OthersKept, ThreadKept, ThreadInv
  <2>4. task'[t] # NoTask /\ pc'[t] \in LabelsOf(task'[t].kind)
    OBVIOUS
  <2>5. task'[t] = InitTask /\ pc'[t] \in {"iterate", "pushLeft", "pushTop"}
          => chunk'[t] \in claimed'[InitTask]
    OBVIOUS
  <2>6. QED
    BY <2>1, <2>2, <2>3, <2>4, <2>5 DEF ThreadInv
<1>4. ASSUME NEW a \in Tasks PROVE TaskInv(a)'
  <2>1. TaskInv(a)
    BY DEF PoolInv
  <2>2. \A u \in Threads : task'[u] = task[u]
    BY DEF OthersKept, ThreadKept
  <2>3. \A u \in Threads : Looping(u) => Looping(u)'
    BY KeptThread DEF OthersKept, ThreadKept
  <2>4. (\E u \in Threads : task[u] = a /\ Looping(u)) => \E u \in Threads : task'[u] = a /\ Looping(u)'
    BY <2>2, <2>3
  <2>5. Unclaimed(a)' = Unclaimed(a)
    BY DEF Unclaimed
  <2>6. CASE a \in queued' /\ a \notin queued
    BY <2>2, <2>6, AbsentTask DEF Pushes, TaskInv
  <2>7. CASE a \in queued' <=> a \in queued
    BY <2>1, <2>2, <2>4, <2>5, <2>7 DEF Absent, Live, TaskInv
  <2>8. QED
    BY <2>6, <2>7 DEF Pushes
<1>5. QED
  BY <1>2, <1>3, <1>4 DEF PoolInv

(* A thread leaves its task, from the loop or from the finish function.    *)
LEMMA LeaveStep ==
  ASSUME TypeOK, PoolInv, NEW t \in Threads, OthersKept(t), task[t] \in Tasks,
         ~Looping(t), pc[t] = "leave" \/ Finishing(t), work'[t] = NoWork,
         task'[t] = NoTask, pc'[t] = "idle", claimed' = claimed, open' = open, Pushes
  PROVE  PoolInv'
<1>1. ThreadInv(t) /\ ~Carries(t)' /\ ~Finishing(t)' /\ ~Looping(t)'
  BY DEF PoolInv, Carries, Finishing, FinishLabels, Looping
<1>2. ASSUME NEW u \in Threads \ {t} PROVE ThreadInv(u)'
  BY <1>1, ThreadStays DEF PoolInv, OthersKept, ThreadInv, Finishing, FinishLabels
<1>3. ThreadInv(t)'
  BY <1>1, InitIsTask, NoTaskIsNone DEF ThreadInv
<1>4. ASSUME NEW a \in Tasks PROVE TaskInv(a)'
  <2>1. TaskInv(a) /\ a # NoTask
    BY NoTaskIsNone DEF PoolInv
  <2>2. \A u \in Threads \ {t} : task'[u] = task[u]
    BY DEF OthersKept, ThreadKept
  <2>3. \A u \in Threads \ {t} : Looping(u) => Looping(u)'
    BY KeptThread DEF OthersKept, ThreadKept
  <2>4. (\E u \in Threads : task[u] = a /\ Looping(u)) => \E u \in Threads : task'[u] = a /\ Looping(u)'
    BY <2>2, <2>3
  <2>5. Unclaimed(a)' = Unclaimed(a)
    BY DEF Unclaimed
  <2>6. CASE a \in queued' /\ a \notin queued
    BY <2>1, <2>2, <2>6, AbsentTask DEF Pushes, TaskInv
  <2>7. CASE a \in queued' <=> a \in queued
    BY <2>1, <2>2, <2>4, <2>5, <2>7 DEF Absent, Live, TaskInv
  <2>8. QED
    BY <2>6, <2>7 DEF Pushes
<1>5. QED
  BY <1>2, <1>3, <1>4 DEF PoolInv

(* A thread without a task is idle.                                        *)
LEMMA IdleThread ==
  ASSUME TypeOK, PoolInv, NEW t \in Threads, pc[t] \in {"idle", "returned"}
  PROVE  task[t] = NoTask /\ work[t] = NoWork /\ ~Carries(t) /\ ~Looping(t) /\ ~Finishing(t)
<1>1. ThreadInv(t) /\ task[t] \in Tasks \cup {NoTask}
  BY DEF PoolInv, TypeOK
<1>2. task[t] = NoTask
  <2>1. ASSUME task[t] \in Tasks PROVE FALSE
    BY <1>1, <2>1, NoTaskIsNone DEF ThreadInv, LabelsOf
  <2>2. QED
    BY <1>1, <2>1
<1>3. QED
  BY <1>1, <1>2 DEF ThreadInv, Carries, Looping, Finishing, FinishLabels

(* Tasks that wait are data-parallel.                                      *)
LEMMA QueuedTask ==
  ASSUME TypeOK, PoolInv, NEW a \in queued
  PROVE  a \in Tasks /\ Size(a) > 0 /\ claimed[a] = {} /\ a \notin open
         /\ \A t \in Threads : task[t] # a
BY DEF TypeOK, PoolInv, TaskInv

(* No task of the decomposition is a single one.                           *)
LEMMA NotSingle ==
  ASSUME TypeOK, PoolInv, NEW t \in Threads
  PROVE  ~StartSingle(t)
BY QueuedTask DEF StartSingle

(* A thread takes a task from the queue, with the first chunk or none.     *)
LEMMA StartEffect ==
  ASSUME TypeOK, PoolInv, NEW t \in Threads, StartLoop(t), UNCHANGED work
  PROVE  /\ pc[t] = "idle" /\ OthersKept(t) /\ work'[t] = NoWork /\ is_finished' = is_finished
         /\ \E a \in queued :
              /\ queued' = queued \ {a} /\ open' = open \cup {a} /\ task'[t] = a
              /\ \A b \in Tasks \ {a} : claimed'[b] = claimed[b]
              /\ claimed' \in [Tasks -> SUBSET Nat]
              /\ \/ /\ Size(a) > 0 /\ chunk'[t] = 0 /\ claimed'[a] = {0}
                    /\ pc'[t] = IF a.kind \in {"left", "top"} THEN "copy" ELSE "run"
                 \/ /\ chunk'[t] = NoChunk /\ claimed'[a] = claimed[a]
                    /\ pc'[t] = IF a.kind \in {"left", "top"} THEN "copy" ELSE "claim"
<1>1. pc[t] = "idle" /\ work[t] = NoWork
  BY IdleThread DEF StartLoop
<1>2. PICK a \in queued :
        /\ queued' = queued \ {a} /\ open' = open \cup {a}
        /\ task' = [task EXCEPT ![t] = a]
        /\ \/ /\ Size(a) > 0
              /\ Hold(t, 0)
              /\ claimed' = [claimed EXCEPT ![a] = {0}]
              /\ Goto(t, EntryLabel(a, 0))
           \/ /\ Hold(t, NoChunk)
              /\ UNCHANGED claimed
              /\ Goto(t, EntryLabel(a, NoChunk))
  BY DEF StartLoop
<1>3. a \in Tasks
  BY <1>2, QueuedTask
<1>4. EntryLabel(a, 0) = IF a.kind \in {"left", "top"} THEN "copy" ELSE "run"
  BY DEF EntryLabel, Entry, LoopLabel, NoChunk
<1>5. EntryLabel(a, NoChunk) = IF a.kind \in {"left", "top"} THEN "copy" ELSE "claim"
  BY DEF EntryLabel, Entry, LoopLabel
<1>6. task'[t] = a /\ \A u \in Threads \ {t} : task'[u] = task[u]
  BY <1>2 DEF TypeOK
<1>7. \A u \in Threads \ {t} : pc'[u] = pc[u] /\ chunk'[u] = chunk[u] /\ work'[u] = work[u]
  BY <1>2 DEF TypeOK, Goto, Hold
<1>8. is_finished' = is_finished
  BY DEF StartLoop
<1>9. CASE Size(a) > 0 /\ Hold(t, 0) /\ claimed' = [claimed EXCEPT ![a] = {0}] /\ Goto(t, EntryLabel(a, 0))
  BY <1>1, <1>2, <1>3, <1>4, <1>6, <1>7, <1>8, <1>9 DEF TypeOK, Goto, Hold, OthersKept,
     ThreadKept
<1>10. CASE Hold(t, NoChunk) /\ UNCHANGED claimed /\ Goto(t, EntryLabel(a, NoChunk))
  BY <1>1, <1>2, <1>5, <1>6, <1>7, <1>8, <1>10 DEF TypeOK, Goto, Hold, OthersKept, ThreadKept
<1>11. QED
  BY <1>2, <1>9, <1>10

(* A thread assists a task that is open.                                   *)
LEMMA JoinEffect ==
  ASSUME TypeOK, PoolInv, NEW t \in Threads, JoinTask(t), UNCHANGED work
  PROVE  /\ pc[t] = "idle" /\ OthersKept(t) /\ work'[t] = NoWork /\ is_finished' = is_finished
         /\ queued' = queued /\ open' = open /\ claimed' = claimed
         /\ \E a \in open : /\ task'[t] = a /\ chunk'[t] = NoChunk
                            /\ pc'[t] \in {"assist", IF a.kind \in {"left", "top"} THEN "copy" ELSE "claim"}
<1>1. pc[t] = "idle" /\ work[t] = NoWork
  BY IdleThread DEF JoinTask
<1>2. PICK a \in open :
        /\ task' = [task EXCEPT ![t] = a]
        /\ Hold(t, NoChunk)
        /\ Goto(t, "assist") \/ Goto(t, EntryLabel(a, NoChunk))
  BY DEF JoinTask
<1>3. EntryLabel(a, NoChunk) = IF a.kind \in {"left", "top"} THEN "copy" ELSE "claim"
  BY DEF EntryLabel, Entry, LoopLabel
<1>4. task'[t] = a /\ chunk'[t] = NoChunk /\ pc'[t] \in {"assist", EntryLabel(a, NoChunk)}
  BY <1>2 DEF TypeOK, Goto, Hold
<1>5. \A u \in Threads \ {t} : ThreadKept(u)
  BY <1>2 DEF TypeOK, Goto, Hold, ThreadKept
<1>6. QED
  BY <1>1, <1>2, <1>3, <1>4, <1>5 DEF JoinTask, OthersKept

(* A thread claims a chunk.                                                *)
LEMMA ClaimEffect ==
  ASSUME TypeOK, PoolInv, NEW t \in Threads, ClaimChunk(t), UNCHANGED work
  PROVE  /\ pc[t] \in {"assist", "claim"} /\ OthersKept(t) /\ work'[t] = NoWork
         /\ is_finished' = is_finished /\ task[t] \in Tasks
         /\ queued' = queued /\ open' = open /\ task'[t] = task[t]
         /\ \A b \in Tasks \ {task[t]} : claimed'[b] = claimed[b]
         /\ claimed' \in [Tasks -> SUBSET Nat]
         /\ \E c \in Unclaimed(task[t]) :
              /\ claimed'[task[t]] = claimed[task[t]] \cup {c} /\ chunk'[t] = c
              /\ pc'[t] = IF pc[t] = "assist" /\ task[t].kind \in {"left", "top"} THEN "copy" ELSE "run"
<1>1. pc[t] \in {"assist", "claim"}
  BY DEF ClaimChunk
<1>2. PICK a : a = task[t]
  OBVIOUS
<1>3. a \in Tasks
  BY <1>1, <1>2, ThreadTask
<1>4. work[t] = NoWork
  BY <1>1 DEF PoolInv, ThreadInv
<1>5. PICK c \in Unclaimed(a) :
        /\ claimed' = [claimed EXCEPT ![a] = @ \cup {c}]
        /\ Hold(t, c)
        /\ Goto(t, IF pc[t] = "assist" THEN EntryLabel(a, c) ELSE "run")
  BY <1>2 DEF ClaimChunk
<1>6. c \in Nat
  BY DEF Unclaimed
<1>7. EntryLabel(a, c) = IF a.kind \in {"left", "top"} THEN "copy" ELSE "run"
  BY <1>6 DEF EntryLabel, Entry, LoopLabel, NoChunk
<1>8. chunk'[t] = c /\ pc'[t] = (IF pc[t] = "assist" THEN EntryLabel(a, c) ELSE "run")
  BY <1>5 DEF TypeOK, Goto, Hold
<1>9. UNCHANGED <<queued, open, is_finished, task>>
  BY DEF ClaimChunk
<1>10. \A u \in Threads \ {t} : ThreadKept(u)
  BY <1>5, <1>9 DEF TypeOK, Goto, Hold, ThreadKept
<1>11. claimed'[a] = claimed[a] \cup {c} /\ (\A b \in Tasks \ {a} : claimed'[b] = claimed[b])
         /\ claimed' \in [Tasks -> SUBSET Nat]
  BY <1>3, <1>5, <1>6 DEF TypeOK
<1>12. QED
  BY <1>1, <1>2, <1>3, <1>4, <1>5, <1>7, <1>8, <1>9, <1>10, <1>11 DEF OthersKept

(* A thread finds no chunk to claim, or leaves them to another thread.     *)
LEMMA EndLoopEffect ==
  ASSUME TypeOK, PoolInv, NEW t \in Threads, EndLoop(t), UNCHANGED work
  PROVE  /\ pc[t] \in {"assist", "claim"} /\ OthersKept(t) /\ work'[t] = NoWork
         /\ is_finished' = is_finished /\ task[t] \in Tasks
         /\ queued' = queued /\ open' = open \ {task[t]} /\ claimed' = claimed
         /\ task'[t] = task[t] /\ chunk'[t] = NoChunk /\ pc'[t] = "leave"
         /\ Unclaimed(task[t]) = {} \/ \E u \in Threads \ {t} : task[u] = task[t] /\ pc[u] # "leave"
<1>1. pc[t] \in {"assist", "claim"} /\ UNCHANGED <<queued, claimed, is_finished, task>>
        /\ open' = open \ {task[t]}
  BY DEF EndLoop
<1>2. task[t] \in Tasks
  BY <1>1, ThreadTask
<1>3. work[t] = NoWork
  BY <1>1 DEF PoolInv, ThreadInv
<1>4. chunk'[t] = NoChunk /\ pc'[t] = "leave" /\ \A u \in Threads \ {t} : ThreadKept(u)
  BY <1>1 DEF EndLoop, TypeOK, Goto, Hold, ThreadKept, After
<1>5. Unclaimed(task[t]) = {} \/ \E u \in Threads \ {t} : task[u] = task[t] /\ pc[u] # "leave"
  BY DEF EndLoop, Others
<1>6. QED
  BY <1>1, <1>2, <1>3, <1>4, <1>5 DEF OthersKept

(* A thread leaves its task; the last one stays to call the finish         *)
(* function.                                                               *)
LEMMA EndTaskEffect ==
  ASSUME TypeOK, PoolInv, NEW t \in Threads, EndTask(t), UNCHANGED work
  PROVE  /\ pc[t] = "leave" /\ OthersKept(t) /\ work'[t] = NoWork
         /\ is_finished' = is_finished /\ task[t] \in Tasks
         /\ queued' = queued /\ open' = open /\ claimed' = claimed /\ chunk'[t] = chunk[t]
         /\ \/ /\ task[t] = InitTask \/ \E u \in Threads \ {t} : task[u] = task[t]
               /\ task'[t] = NoTask /\ pc'[t] = "idle"
            \/ /\ task[t] # InitTask /\ \A u \in Threads \ {t} : task[u] # task[t]
               /\ task'[t] = task[t]
               /\ pc'[t] = IF task[t].kind = "inner" THEN "iterate" ELSE "cas"
<1>1. pc[t] = "leave" /\ UNCHANGED <<queued, open, claimed, is_finished, chunk>>
  BY DEF EndTask
<1>2. task[t] \in Tasks /\ (task[t].kind = "init" <=> task[t] = InitTask)
  BY <1>1, ThreadTask
<1>3. work[t] = NoWork
  BY <1>1 DEF PoolInv, ThreadInv
<1>4. PICK a : a = task[t]
  OBVIOUS
<1>5. Exit(a) = "idle" <=> a = InitTask
  BY <1>2, <1>4 DEF Exit
<1>6. a # InitTask => Exit(a) = IF a.kind = "inner" THEN "iterate" ELSE "cas"
  BY <1>2, <1>4 DEF Exit
<1>7. CASE a = InitTask \/ \E u \in Threads \ {t} : task[u] = a
  BY <1>1, <1>2, <1>3, <1>4, <1>5, <1>7 DEF EndTask, Leave, Goto, TypeOK, ThreadKept, OthersKept
<1>8. CASE ~(a = InitTask \/ \E u \in Threads \ {t} : task[u] = a)
  BY <1>1, <1>2, <1>3, <1>4, <1>5, <1>6, <1>8 DEF EndTask, Goto, TypeOK, ThreadKept, OthersKept
<1>9. QED
  BY <1>7, <1>8

(* A thread returns.                                                       *)
LEMMA ReturnEffect ==
  ASSUME TypeOK, PoolInv, NEW t \in Threads, Return(t), UNCHANGED work
  PROVE  /\ pc[t] = "idle" /\ OthersKept(t) /\ work'[t] = NoWork
         /\ UNCHANGED <<queued, open, claimed, is_finished>>
         /\ task'[t] = task[t] /\ chunk'[t] = chunk[t] /\ pc'[t] = "returned"
BY IdleThread DEF Return, Goto, TypeOK, ThreadKept, OthersKept

(* PoolInv is preserved when a task is taken from the queue.               *)
LEMMA StartStep ==
  ASSUME TypeOK, PoolInv, NEW t \in Threads, StartLoop(t), UNCHANGED work
  PROVE  PoolInv'
<1>1. pc[t] = "idle" /\ OthersKept(t) /\ work'[t] = NoWork /\ task[t] = NoTask
  BY StartEffect, IdleThread
<1>2. PICK a \in queued :
        /\ queued' = queued \ {a} /\ open' = open \cup {a} /\ task'[t] = a
        /\ \A b \in Tasks \ {a} : claimed'[b] = claimed[b]
        /\ \/ /\ Size(a) > 0 /\ chunk'[t] = 0 /\ claimed'[a] = {0}
              /\ pc'[t] = IF a.kind \in {"left", "top"} THEN "copy" ELSE "run"
           \/ /\ chunk'[t] = NoChunk /\ claimed'[a] = claimed[a]
              /\ pc'[t] = IF a.kind \in {"left", "top"} THEN "copy" ELSE "claim"
  BY StartEffect
<1>3. a \in Tasks /\ a # NoTask /\ \A u \in Threads : task[u] # a
  BY QueuedTask, NoTaskIsNone
<1>4. ASSUME NEW u \in Threads \ {t} PROVE ThreadInv(u)'
  <2>1. ThreadKept(u) /\ task[u] \in Tasks \cup {NoTask} /\ task[u] # a
    BY <1>1, <1>3 DEF OthersKept, TypeOK
  <2>2. task[u] # NoTask => claimed'[task[u]] = claimed[task[u]]
    BY <1>2, <2>1
  <2>3. task[u] # NoTask => (task[u] \in open' => task[u] \in open)
    BY <1>2, <2>1
  <2>4. Finishing(u) => task[u] # NoTask
    BY IdleThread DEF Finishing, FinishLabels, PoolInv, ThreadInv
  <2>5. QED
    BY <1>1, <1>2, <2>1, <2>2, <2>3, <2>4, ThreadStays
<1>5. ThreadInv(t)'
  <2>1. pc'[t] \in LabelsOf(a.kind) /\ pc'[t] \notin FinishLabels /\ pc'[t] # "leave"
    BY <1>2, <1>3, TaskParts, InitIsTask DEF LabelsOf, FinishLabels
  <2>2. Carries(t)' => chunk'[t] \in claimed'[a]
    BY <1>2 DEF Carries
  <2>3. \A u \in Threads \ {t} : task'[u] # a
    BY <1>1, <1>3 DEF OthersKept, ThreadKept
  <2>4. QED
    BY <1>1, <1>2, <1>3, <2>1, <2>2, <2>3 DEF ThreadInv, Finishing, FinishLabels
<1>6. ASSUME NEW b \in Tasks PROVE TaskInv(b)'
  <2>1. CASE b # a
    BY <1>1, <1>2, <2>1, NoTaskIsNone, TaskStays
  <2>2. CASE b = a
    BY <1>2, <1>3, <2>2 DEF Looping, Finishing, FinishLabels, TaskInv
  <2>3. QED
    BY <2>1, <2>2
<1>7. QED
  BY <1>4, <1>5, <1>6 DEF PoolInv

(* PoolInv is preserved when a thread assists.                             *)
LEMMA JoinStep ==
  ASSUME TypeOK, PoolInv, NEW t \in Threads, JoinTask(t), UNCHANGED work
  PROVE  PoolInv'
<1>1. /\ pc[t] = "idle" /\ OthersKept(t) /\ work'[t] = NoWork /\ task[t] = NoTask
      /\ queued' = queued /\ open' = open /\ claimed' = claimed
  BY JoinEffect, IdleThread
<1>2. PICK a \in open : /\ task'[t] = a /\ chunk'[t] = NoChunk
                        /\ pc'[t] \in {"assist", IF a.kind \in {"left", "top"} THEN "copy" ELSE "claim"}
  BY JoinEffect
<1>3. a \in Tasks /\ a # NoTask /\ a \notin queued
  BY NoTaskIsNone DEF TypeOK
<1>4. ~Carries(t)' /\ Looping(t)' /\ ~Finishing(t)'
  BY <1>2, <1>3 DEF Carries, Looping, Finishing, FinishLabels
<1>5. ASSUME NEW u \in Threads, Finishing(u) PROVE task[u] # a
  BY <1>5 DEF PoolInv, ThreadInv
<1>6. ASSUME NEW u \in Threads \ {t} PROVE ThreadInv(u)'
  BY <1>1, <1>2, <1>4, <1>5, ThreadStays DEF OthersKept
<1>7. ThreadInv(t)'
  <2>1. pc'[t] \in LabelsOf(a.kind) /\ pc'[t] \notin FinishLabels /\ pc'[t] # "leave"
    BY <1>2, <1>3, TaskParts, InitIsTask DEF LabelsOf, FinishLabels
  <2>2. QED
    BY <1>1, <1>2, <1>3, <1>4, <2>1 DEF ThreadInv, FinishLabels
<1>8. ASSUME NEW b \in Tasks PROVE TaskInv(b)'
  <2>1. CASE b # a
    BY <1>1, <1>2, <2>1, NoTaskIsNone, TaskStays
  <2>2. CASE b = a
    BY <1>1, <1>2, <1>3, <1>4, <2>2 DEF TaskInv
  <2>3. QED
    BY <2>1, <2>2
<1>9. QED
  BY <1>6, <1>7, <1>8 DEF PoolInv

(* PoolInv is preserved when a chunk is claimed.                           *)
LEMMA ClaimStep ==
  ASSUME TypeOK, PoolInv, NEW t \in Threads, ClaimChunk(t), UNCHANGED work
  PROVE  PoolInv'
<1>1. PICK a : a = task[t]
  OBVIOUS
<1>2. /\ pc[t] \in {"assist", "claim"} /\ OthersKept(t) /\ work'[t] = NoWork
      /\ a \in Tasks /\ task'[t] = a
      /\ queued' = queued /\ open' = open
      /\ \A b \in Tasks \ {a} : claimed'[b] = claimed[b]
  BY <1>1, ClaimEffect
<1>3. PICK c \in Unclaimed(a) :
        /\ claimed'[a] = claimed[a] \cup {c} /\ chunk'[t] = c
        /\ pc'[t] = IF pc[t] = "assist" /\ a.kind \in {"left", "top"} THEN "copy" ELSE "run"
  BY <1>1, ClaimEffect
<1>4. a # NoTask /\ a \notin queued
  BY <1>1, <1>2, NoTaskIsNone, QueuedTask
<1>5. Looping(t)' /\ ~Finishing(t)'
  BY <1>2, <1>3, <1>4 DEF Looping, Finishing, FinishLabels
<1>6. c \notin claimed[a]
  BY DEF Unclaimed
<1>7. ASSUME NEW u \in Threads \ {t}, task[u] = a, Carries(u) PROVE chunk[u] # c
  BY <1>6, <1>7 DEF PoolInv, ThreadInv
<1>8. ASSUME NEW u \in Threads \ {t}, Finishing(u) PROVE task[u] # a /\ task[u] \in Tasks
  BY <1>1, <1>8, ThreadTask DEF PoolInv, ThreadInv, Finishing, FinishLabels
<1>9. ASSUME NEW u \in Threads \ {t} PROVE ThreadInv(u)'
  <2>1. ThreadKept(u) /\ task[u] \in Tasks \cup {NoTask}
    BY <1>2 DEF OthersKept, TypeOK
  <2>2. task[u] # NoTask => claimed[task[u]] \subseteq claimed'[task[u]]
    BY <1>2, <1>3, <2>1
  <2>3. Finishing(u) => claimed'[task[u]] = claimed[task[u]] /\ task'[t] # task[u]
    BY <1>2, <1>8
  <2>4. task'[t] = task[u] /\ Carries(t)' /\ Carries(u) => chunk'[t] # chunk[u]
    BY <1>2, <1>3, <1>7
  <2>5. QED
    BY <1>2, <2>1, <2>2, <2>3, <2>4, ThreadStays
<1>10. ThreadInv(t)'
  <2>1. pc'[t] \in LabelsOf(a.kind) /\ pc'[t] \notin FinishLabels /\ pc'[t] # "leave"
    BY <1>2, <1>3, TaskParts, InitIsTask DEF LabelsOf, FinishLabels
  <2>2. ASSUME NEW v \in Threads \ {t}, task'[v] = task'[t], Carries(v)'
        PROVE  chunk'[v] # chunk'[t]
    BY <1>2, <1>3, <1>7, <2>2, KeptThread DEF OthersKept, ThreadKept
  <2>3. QED
    BY <1>2, <1>3, <1>4, <1>5, <2>1, <2>2 DEF ThreadInv, FinishLabels
<1>11. ASSUME NEW b \in Tasks PROVE TaskInv(b)'
  <2>1. CASE b # a
    BY <1>1, <1>2, <2>1, TaskStays
  <2>2. CASE b = a
    BY <1>2, <1>4, <1>5, <2>2 DEF TaskInv
  <2>3. QED
    BY <2>1, <2>2
<1>12. QED
  BY <1>9, <1>10, <1>11 DEF PoolInv

(* PoolInv is preserved when a loop ends.                                  *)
LEMMA EndLoopStep ==
  ASSUME TypeOK, PoolInv, NEW t \in Threads, EndLoop(t), UNCHANGED work
  PROVE  PoolInv'
<1>1. PICK a : a = task[t]
  OBVIOUS
<1>2. /\ pc[t] \in {"assist", "claim"} /\ OthersKept(t) /\ work'[t] = NoWork
      /\ a \in Tasks /\ queued' = queued /\ open' = open \ {a} /\ claimed' = claimed
      /\ task'[t] = a /\ chunk'[t] = NoChunk /\ pc'[t] = "leave"
      /\ Unclaimed(a) = {} \/ \E u \in Threads \ {t} : task[u] = a /\ pc[u] # "leave"
  BY <1>1, EndLoopEffect
<1>3. a # NoTask /\ a \notin queued
  BY <1>1, <1>2, NoTaskIsNone, QueuedTask
<1>4. ~Carries(t)' /\ ~Finishing(t)'
  BY <1>2 DEF Carries, Finishing, FinishLabels
<1>5. ASSUME NEW u \in Threads \ {t}, Finishing(u) PROVE task[u] # a
  BY <1>1, <1>5 DEF PoolInv, ThreadInv
<1>6. ASSUME NEW u \in Threads \ {t} PROVE ThreadInv(u)'
  BY <1>2, <1>4, <1>5, ThreadStays DEF OthersKept
<1>7. ThreadInv(t)'
  BY <1>2, <1>3, <1>4 DEF LabelsOf, ThreadInv
<1>8. ASSUME NEW b \in Tasks PROVE TaskInv(b)'
  <2>1. CASE b # a
    BY <1>1, <1>2, <2>1, TaskStays
  <2>2. CASE b = a
    <3>1. Unclaimed(a)' = Unclaimed(a)
      BY <1>2 DEF Unclaimed
    <3>2. ASSUME NEW u \in Threads \ {t}, task[u] = a, pc[u] # "leave"
          PROVE  task'[u] = a /\ Looping(u)'
      BY <1>2, <1>3, <1>5, <3>2, KeptThread DEF Looping, OthersKept, ThreadKept
    <3>3. QED
      BY <1>2, <1>3, <2>2, <3>1, <3>2 DEF TaskInv
  <2>3. QED
    BY <2>1, <2>2
<1>9. QED
  BY <1>6, <1>7, <1>8 DEF PoolInv

(* PoolInv is preserved when a task is left.                               *)
LEMMA EndTaskStep ==
  ASSUME TypeOK, PoolInv, NEW t \in Threads, EndTask(t), UNCHANGED work
  PROVE  PoolInv'
<1>1. PICK a : a = task[t]
  OBVIOUS
<1>2. /\ pc[t] = "leave" /\ OthersKept(t) /\ work'[t] = NoWork /\ a \in Tasks
      /\ queued' = queued /\ open' = open /\ claimed' = claimed /\ chunk'[t] = chunk[t]
  BY <1>1, EndTaskEffect
<1>3. ~Looping(t) /\ a # NoTask
  BY <1>2, NoTaskIsNone DEF Looping
<1>4. CASE task'[t] = NoTask /\ pc'[t] = "idle"
  BY <1>1, <1>2, <1>3, <1>4, LeaveStep DEF Pushes
<1>5. CASE /\ a # InitTask /\ \A u \in Threads \ {t} : task[u] # a
           /\ task'[t] = a
           /\ pc'[t] = IF a.kind = "inner" THEN "iterate" ELSE "cas"
  <2>1. a \notin open
    BY <1>1, <1>2 DEF PoolInv, ThreadInv
  <2>2. Unclaimed(a) = {}
    BY <1>1, <1>2, <1>3, <1>5, QueuedTask DEF PoolInv, Absent, Live, TaskInv
  <2>3. Unclaimed(a)' = {}
    BY <1>2, <2>2 DEF Unclaimed
  <2>4. \A u \in Threads \ {t} : task'[u] # a
    BY <1>2, <1>5 DEF OthersKept, ThreadKept
  <2>5. ASSUME NEW u \in Threads \ {t} PROVE ThreadInv(u)'
    BY <1>2, <1>5, ThreadStays DEF OthersKept
  <2>6. ThreadInv(t)'
    BY <1>2, <1>3, <1>5, <2>1, <2>3, <2>4, TaskParts DEF LabelsOf, Carries, ThreadInv
  <2>7. ASSUME NEW b \in Tasks PROVE TaskInv(b)'
    <3>1. CASE b # a
      BY <1>1, <1>2, <1>5, <3>1, TaskStays
    <3>2. CASE b = a
      BY <1>1, <1>2, <2>1, <2>3, <3>2, QueuedTask DEF TaskInv
    <3>3. QED
      BY <3>1, <3>2
  <2>8. QED
    BY <2>5, <2>6, <2>7 DEF PoolInv
<1>6. QED
  BY <1>1, <1>4, <1>5, EndTaskEffect

(* PoolInv is preserved when a thread returns.                             *)
LEMMA ReturnStep ==
  ASSUME TypeOK, PoolInv, NEW t \in Threads, Return(t), UNCHANGED work
  PROVE  PoolInv'
<1>1. /\ pc[t] = "idle" /\ OthersKept(t) /\ work'[t] = NoWork
      /\ queued' = queued /\ open' = open /\ claimed' = claimed
      /\ task'[t] = task[t] /\ chunk'[t] = chunk[t] /\ pc'[t] = "returned"
  BY ReturnEffect
<1>2. task[t] = NoTask
  BY <1>1, IdleThread
<1>3. ASSUME NEW u \in Threads \ {t} PROVE ThreadInv(u)'
  BY <1>1, <1>2, ThreadTask, ThreadStays DEF OthersKept, Finishing, FinishLabels, Carries
<1>4. ThreadInv(t)'
  BY <1>1, <1>2, InitIsTask, NoTaskIsNone DEF Carries, Finishing, FinishLabels, ThreadInv
<1>5. ASSUME NEW b \in Tasks PROVE TaskInv(b)'
  BY <1>1, <1>2, NoTaskIsNone, TaskStays
<1>6. QED
  BY <1>3, <1>4, <1>5 DEF PoolInv

-----------------------------------------------------------------------------
(* What a step leaves of the stage of a matrix.                            *)

SameDone(a) == \A c : Done(a, c)' <=> Done(a, c)

SameTask(a) ==
  /\ Live(a)' <=> Live(a)
  /\ Absent(a)' <=> Absent(a)
  /\ Running(a)' <=> Running(a)
  /\ SameDone(a)

StageLabels == DriverLabels \cup {"cas", "count"}

SameActing(m) ==
  \A label \in StageLabels, j \in 0 .. Tiles : Acting(label, m, j)' = Acting(label, m, j)

SameMatrix(m) ==
  /\ \A a \in Tasks \ {InitTask} : a.matrix = m => SameTask(a)
  /\ Done(InitTask, m)' <=> Done(InitTask, m)
  /\ SameActing(m)
  /\ sync'[m] = sync[m]
  /\ \A x \in Cells : x[1] = m => version'[x] = version[x]

(* The versions that a stage asks for stay while no chunk gets done.       *)
LEMMA VersionKept ==
  ASSUME NEW k \in Offsets, NEW s \in Stages, NEW x \in Cells,
         \A a \in Tasks \ {InitTask} : a.matrix = x[1] => SameDone(a)
  PROVE  VersionIn(k, s, x)' = VersionIn(k, s, x)
<1>1. CASE Updated(x, k)
  <2>1. PICK a : a = Owner(x, k)
    OBVIOUS
  <2>2. PICK c : c = OwnerChunk(x, k)
    OBVIOUS
  <2>3. a \in Tasks \ {InitTask} /\ a.matrix = x[1]
    BY <1>1, <2>1, UpdatedCell
  <2>4. Done(a, c)' <=> Done(a, c)
    BY <2>3 DEF SameDone
  <2>5. Done(Owner(x, k), OwnerChunk(x, k))' <=> Done(Owner(x, k), OwnerChunk(x, k))
    BY <2>1, <2>2, <2>4
  <2>6. QED
    BY <2>5 DEF VersionIn
<1>2. CASE ~Updated(x, k)
  BY <1>2, Versions DEF VersionIn
<1>3. QED
  BY <1>1, <1>2

(* A matrix that a step does not touch stays in its stage.                 *)
LEMMA StageKept ==
  ASSUME NEW m \in MatrixIds, NEW k \in Offsets, NEW s \in Stages,
         SameMatrix(m), StageInv(m, k, s)
  PROVE  StageInv(m, k, s)'
<1>1. /\ s = "first" <=> ~Done(InitTask, m)'
      /\ s = "first" => k = 0
      /\ s = "done" => k = Tiles - 1
      /\ s \notin {"first", "iterate", "done"} => k + 1 < Tiles
  BY DEF StageInv, SameMatrix
<1>2. TasksInStage(m, k, s)'
  BY DEF StageInv, SameMatrix, SameTask, TasksInStage
<1>3. \A label \in StageLabels, j \in 0 .. Tiles : Acting(label, m, j)' = Acting(label, m, j)
  BY DEF SameMatrix, SameActing
<1>4. ThreadsInStage(m, k, s)'
  BY <1>3 DEF StageInv, ThreadsInStage, StageLabels
<1>5. SyncInStage(m, k, s)'
  <2>1. Acting("count", m, k)' = Acting("count", m, k)
    BY <1>3, Parameters DEF StageLabels, Offsets
  <2>2. s \notin {"first", "iterate", "done"} => k + 1 \in Offsets
    BY <1>1, ChunkCounts
  <2>3. s \in {"interior", "diagonal", "ahead"} =>
          {x \in TileCells(m, k + 1, k + 1) : version'[x] = k}
            = {x \in TileCells(m, k + 1, k + 1) : version[x] = k}
    <3> SUFFICES ASSUME s \in {"interior", "diagonal", "ahead"}, NEW x \in TileCells(m, k + 1, k + 1)
                 PROVE  version'[x] = version[x]
      OBVIOUS
    <3>1. x \in Cells /\ x[1] = m
      BY <2>2, InTile
    <3>2. QED
      BY <3>1 DEF SameMatrix
  <2>4. sync'[m] = sync[m]
    BY DEF SameMatrix
  <2>5. \A kind \in CreatedKinds(s) : Live(Task(kind, m, k))' <=> Live(Task(kind, m, k))
    <3>1. ASSUME NEW kind \in CreatedKinds(s)
          PROVE  Live(Task(kind, m, k))' <=> Live(Task(kind, m, k))
      <4>1. kind \in {"left", "top", "inner"}
        BY DEF CreatedKinds
      <4>2. PICK a : a = Task(kind, m, k)
        OBVIOUS
      <4>3. a \in Tasks \ {InitTask} /\ a.matrix = m
        BY <4>1, <4>2, TaskIn
      <4>4. Live(a)' <=> Live(a)
        BY <4>3 DEF SameMatrix, SameTask
      <4>5. QED
        BY <4>2, <4>4
    <3>2. QED
      BY <3>1
  <2>6. QED
    BY <2>1, <2>3, <2>4, <2>5 DEF StageInv, SyncInStage
<1>6. \A x \in Cells : x[1] = m => version'[x] = VersionIn(k, s, x)'
  <2>1. ASSUME NEW x \in Cells, x[1] = m PROVE version'[x] = VersionIn(k, s, x)'
    BY <2>1, VersionKept DEF SameMatrix, SameTask, StageInv
  <2>2. QED
    BY <2>1
<1>7. QED
  BY <1>1, <1>2, <1>4, <1>5, <1>6 DEF StageInv

(* A step of a thread that is not at a label leaves who is there.          *)
LEMMA OthersActing ==
  ASSUME NEW t \in Threads, OthersKept(t), NEW m, NEW label, NEW j,
         t \notin Acting(label, m, j), t \notin Acting(label, m, j)'
  PROVE  Acting(label, m, j)' = Acting(label, m, j)
<1>1. ASSUME NEW u \in Threads \ {t}
      PROVE  u \in Acting(label, m, j)' <=> u \in Acting(label, m, j)
  BY DEF OthersKept, ThreadKept, IterationMatrix, IterationOffset, Offset, Matrix, Acting
<1>2. \A u : u \in Acting(label, m, j)' => u \in Threads
  BY DEF Acting
<1>3. \A u : u \in Acting(label, m, j) => u \in Threads
  BY DEF Acting
<1>4. QED
  BY <1>1, <1>2, <1>3

(* The same of a thread that is at none of the labels.                     *)
LEMMA NoneActing ==
  ASSUME NEW t \in Threads, OthersKept(t), NEW m,
         pc[t] \notin StageLabels, pc'[t] \notin StageLabels
  PROVE  SameActing(m)
<1>1. ASSUME NEW label \in StageLabels, NEW j \in 0 .. Tiles
      PROVE  Acting(label, m, j)' = Acting(label, m, j)
  BY OthersActing DEF Acting
<1>2. QED
  BY <1>1 DEF SameActing

(* A task that a step does not touch.                                      *)
LEMMA OtherTask ==
  ASSUME NEW t \in Threads, OthersKept(t), NEW a,
         task[t] # a, task'[t] # a, claimed'[a] = claimed[a], a \in queued' <=> a \in queued
  PROVE  SameTask(a)
<1>1. \A u \in Threads : task'[u] = a <=> task[u] = a
  BY DEF OthersKept, ThreadKept
<1>2. \A u \in Threads : task[u] = a =>
        pc'[u] = pc[u] /\ chunk'[u] = chunk[u] /\ (Carries(u)' <=> Carries(u))
  BY KeptThread DEF OthersKept, ThreadKept
<1>3. SameDone(a)
  BY <1>1, <1>2 DEF SameDone, Done
<1>4. Live(a)' <=> Live(a)
  BY <1>1 DEF Live
<1>5. Running(a)' <=> Running(a)
  BY <1>1, <1>2 DEF Running
<1>6. QED
  BY <1>3, <1>4, <1>5 DEF SameTask, Absent

(* The task a thread stays on.                                             *)
LEMMA DoneStays ==
  ASSUME NEW t \in Threads, OthersKept(t), NEW a, claimed'[a] = claimed[a],
         task[t] = a /\ Carries(t) <=> task'[t] = a /\ Carries(t)',
         task[t] = a /\ Carries(t) => chunk'[t] = chunk[t]
  PROVE  SameDone(a)
BY KeptThread DEF OthersKept, ThreadKept, SameDone, Done

(* A thread that stays on its task, with the chunk that it has.            *)
LEMMA OwnTask ==
  ASSUME NEW t \in Threads, OthersKept(t), NEW a, task[t] = a, task'[t] = a,
         claimed'[a] = claimed[a], a \in queued' <=> a \in queued,
         pc[t] \in FinishLabels <=> pc'[t] \in FinishLabels,
         Carries(t)' <=> Carries(t), Carries(t) => chunk'[t] = chunk[t]
  PROVE  SameTask(a)
<1>1. \A u \in Threads \ {t} : task'[u] = task[u] /\ pc'[u] = pc[u]
  BY DEF OthersKept, ThreadKept
<1>2. \A u \in Threads : task'[u] = a <=> task[u] = a
  BY <1>1
<1>3. \A u \in Threads : pc'[u] \in FinishLabels <=> pc[u] \in FinishLabels
  BY <1>1
<1>4. Running(a)' <=> Running(a)
  BY <1>2, <1>3 DEF Running
<1>5. Live(a)' <=> Live(a)
  BY <1>2 DEF Live
<1>6. SameDone(a)
  BY DoneStays
<1>7. QED
  BY <1>4, <1>5, <1>6 DEF SameTask, Absent

(* A step outside of all labels that touches no task leaves all matrices   *)
(* in their stages.                                                        *)
LEMMA KeepsAll ==
  ASSUME NEW t \in Threads, OthersKept(t), pc[t] \notin StageLabels, pc'[t] \notin StageLabels,
         version' = version, sync' = sync,
         \A a \in Tasks \ {InitTask} : SameTask(a), SameDone(InitTask)
  PROVE  \A m \in MatrixIds : SameMatrix(m)
<1>1. ASSUME NEW m \in MatrixIds PROVE SameMatrix(m)
  BY NoneActing DEF SameMatrix, SameDone
<1>2. QED
  BY <1>1

(* That a task is taken from the queue changes no stage.                   *)
LEMMA StartKeeps ==
  ASSUME TypeOK, PoolInv, NEW t \in Threads, StartLoop(t), UNCHANGED <<work, version, sync>>
  PROVE  \A m \in MatrixIds : SameMatrix(m)
<1>1. pc[t] = "idle" /\ OthersKept(t) /\ task[t] = NoTask /\ ~Carries(t)
  BY StartEffect, IdleThread
<1>2. PICK a \in queued :
        /\ queued' = queued \ {a} /\ task'[t] = a
        /\ \A b \in Tasks \ {a} : claimed'[b] = claimed[b]
        /\ \/ /\ chunk'[t] = 0 /\ claimed'[a] = {0}
              /\ pc'[t] = IF a.kind \in {"left", "top"} THEN "copy" ELSE "run"
           \/ /\ chunk'[t] = NoChunk /\ claimed'[a] = claimed[a]
              /\ pc'[t] = IF a.kind \in {"left", "top"} THEN "copy" ELSE "claim"
  BY StartEffect
<1>3. a \in Tasks /\ a # NoTask /\ claimed[a] = {} /\ \A u \in Threads : task[u] # a
  BY QueuedTask, NoTaskIsNone
<1>4. pc'[t] \in {"copy", "run", "claim"}
  BY <1>2
<1>5. ASSUME NEW b \in Tasks \ {a} PROVE SameTask(b)
  BY <1>1, <1>2, NoTaskIsNone, OtherTask
<1>6. SameTask(a)
  <2>1. Live(a) /\ Live(a)' /\ ~Absent(a) /\ ~Absent(a)'
    BY <1>2 DEF Live, Absent
  <2>2. Running(a) /\ Running(a)'
    BY <1>2, <1>4 DEF Running, FinishLabels
  <2>3. \A c : ~Done(a, c)
    BY <1>3 DEF Done
  <2>4. ASSUME NEW c PROVE ~Done(a, c)'
    <3>1. CASE chunk'[t] = 0 /\ claimed'[a] = {0} /\ pc'[t] # "claim"
      BY <1>2, <1>4, <3>1 DEF Carries, NoChunk, Done
    <3>2. CASE claimed'[a] = claimed[a]
      BY <1>3, <3>2 DEF Done
    <3>3. QED
      BY <1>2, <3>1, <3>2
  <2>5. QED
    BY <2>1, <2>2, <2>3, <2>4 DEF SameTask, SameDone
<1>7. pc[t] \notin StageLabels /\ pc'[t] \notin StageLabels
  BY <1>1, <1>4 DEF StageLabels, DriverLabels, IterationLabels
<1>8. SameDone(InitTask) /\ \A b \in Tasks \ {InitTask} : SameTask(b)
  BY <1>5, <1>6, InitIsTask DEF SameTask
<1>9. QED
  BY <1>1, <1>7, <1>8, KeepsAll

(* That a thread assists changes no stage.                                 *)
LEMMA JoinKeeps ==
  ASSUME TypeOK, PoolInv, NEW t \in Threads, JoinTask(t), UNCHANGED <<work, version, sync>>
  PROVE  \A m \in MatrixIds : SameMatrix(m)
<1>1. /\ pc[t] = "idle" /\ OthersKept(t) /\ task[t] = NoTask /\ ~Carries(t)
      /\ queued' = queued /\ claimed' = claimed
  BY JoinEffect, IdleThread
<1>2. PICK a \in open : /\ task'[t] = a /\ chunk'[t] = NoChunk
                        /\ pc'[t] \in {"assist", IF a.kind \in {"left", "top"} THEN "copy" ELSE "claim"}
  BY JoinEffect
<1>3. a \in Tasks /\ a # NoTask
  BY NoTaskIsNone DEF TypeOK
<1>4. pc'[t] \in {"copy", "assist", "claim"} /\ ~Carries(t)'
  BY <1>2 DEF Carries
<1>5. PICK u \in Threads : task[u] = a /\ Looping(u)
  BY <1>2, <1>3 DEF PoolInv, TaskInv
<1>6. ASSUME NEW b \in Tasks \ {a} PROVE SameTask(b)
  BY <1>1, <1>2, NoTaskIsNone, OtherTask
<1>7. SameDone(a)
  BY <1>1, <1>4, DoneStays
<1>8. a # InitTask => SameTask(a)
  BY <1>1, <1>3, <1>5, <1>7 DEF OthersKept, ThreadKept, Live, Absent, Running, Looping,
     Finishing, SameTask
<1>9. pc[t] \notin StageLabels /\ pc'[t] \notin StageLabels
  BY <1>1, <1>4 DEF StageLabels, DriverLabels, IterationLabels
<1>10. SameDone(InitTask) /\ \A b \in Tasks \ {InitTask} : SameTask(b)
  BY <1>6, <1>7, <1>8, InitIsTask DEF SameTask
<1>11. QED
  BY <1>1, <1>9, <1>10, KeepsAll

(* That a chunk is claimed changes no stage.                               *)
LEMMA ClaimKeeps ==
  ASSUME TypeOK, PoolInv, NEW t \in Threads, ClaimChunk(t), UNCHANGED <<work, version, sync>>
  PROVE  \A m \in MatrixIds : SameMatrix(m)
<1>1. PICK a : a = task[t]
  OBVIOUS
<1>2. /\ pc[t] \in {"assist", "claim"} /\ OthersKept(t)
      /\ a \in Tasks /\ task'[t] = a /\ queued' = queued
      /\ \A b \in Tasks \ {a} : claimed'[b] = claimed[b]
  BY <1>1, ClaimEffect
<1>3. PICK c \in Unclaimed(a) :
        /\ claimed'[a] = claimed[a] \cup {c} /\ chunk'[t] = c
        /\ pc'[t] = IF pc[t] = "assist" /\ a.kind \in {"left", "top"} THEN "copy" ELSE "run"
  BY <1>1, ClaimEffect
<1>4. ~Carries(t) /\ Carries(t)' /\ pc'[t] \in {"copy", "run"}
  BY <1>2, <1>3 DEF Carries, NoChunk, Unclaimed
<1>5. c \notin claimed[a]
  BY DEF Unclaimed
<1>6. ASSUME NEW b \in Tasks \ {a} PROVE SameTask(b)
  BY <1>1, <1>2, OtherTask
<1>7. SameTask(a)
  <2>1. Live(a) /\ Live(a)' /\ ~Absent(a) /\ ~Absent(a)'
    BY <1>1, <1>2 DEF Live, Absent
  <2>2. Running(a) /\ Running(a)'
    BY <1>1, <1>2, <1>4 DEF Running, FinishLabels
  <2>3. ASSUME NEW d PROVE Done(a, d)' <=> Done(a, d)
    <3>1. CASE d = c
      BY <1>2, <1>3, <1>4, <1>5, <3>1 DEF Done
    <3>2. CASE d # c
      BY <1>2, <1>3, <1>4, <3>2, KeptThread DEF OthersKept, ThreadKept, Done
    <3>3. QED
      BY <3>1, <3>2
  <2>4. QED
    BY <2>1, <2>2, <2>3 DEF SameTask, SameDone
<1>8. pc[t] \notin StageLabels /\ pc'[t] \notin StageLabels
  BY <1>2, <1>4 DEF StageLabels, DriverLabels, IterationLabels
<1>9. SameDone(InitTask) /\ \A b \in Tasks \ {InitTask} : SameTask(b)
  BY <1>6, <1>7, InitIsTask DEF SameTask
<1>10. QED
  BY <1>2, <1>8, <1>9, KeepsAll

(* That a loop ends changes no stage.                                      *)
LEMMA EndLoopKeeps ==
  ASSUME TypeOK, PoolInv, NEW t \in Threads, EndLoop(t), UNCHANGED <<work, version, sync>>
  PROVE  \A m \in MatrixIds : SameMatrix(m)
<1>1. PICK a : a = task[t]
  OBVIOUS
<1>2. /\ pc[t] \in {"assist", "claim"} /\ OthersKept(t) /\ a \in Tasks
      /\ queued' = queued /\ claimed' = claimed /\ task'[t] = a /\ pc'[t] = "leave"
  BY <1>1, EndLoopEffect
<1>3. ~Carries(t) /\ ~Carries(t)' /\ pc[t] \notin FinishLabels /\ pc'[t] \notin FinishLabels
  BY <1>2 DEF Carries, FinishLabels
<1>4. ASSUME NEW b \in Tasks \ {a} PROVE SameTask(b)
  BY <1>1, <1>2, OtherTask
<1>5. SameTask(a)
  BY <1>1, <1>2, <1>3, OwnTask
<1>6. pc[t] \notin StageLabels /\ pc'[t] \notin StageLabels
  BY <1>2 DEF StageLabels, DriverLabels, IterationLabels
<1>7. SameDone(InitTask) /\ \A b \in Tasks \ {InitTask} : SameTask(b)
  BY <1>4, <1>5, InitIsTask DEF SameTask
<1>8. QED
  BY <1>2, <1>6, <1>7, KeepsAll

(* A thread that is not the last one leaves its task.                      *)
LEMMA LeaveKeeps ==
  ASSUME TypeOK, PoolInv, NEW t \in Threads, OthersKept(t), pc[t] = "leave", task[t] \in Tasks,
         task[t] = InitTask \/ \E u \in Threads \ {t} : task[u] = task[t],
         queued' = queued, claimed' = claimed, task'[t] = NoTask, pc'[t] = "idle",
         UNCHANGED <<version, sync>>
  PROVE  \A m \in MatrixIds : SameMatrix(m)
<1>1. PICK a : a = task[t]
  OBVIOUS
<1>2. ~Carries(t) /\ ~Carries(t)' /\ a \in Tasks /\ a # NoTask
  BY <1>1, NoTaskIsNone DEF Carries
<1>3. ASSUME NEW b \in Tasks \ {a} PROVE SameTask(b)
  BY <1>1, NoTaskIsNone, OtherTask
<1>4. SameDone(a)
  BY <1>2, DoneStays
<1>5. a # InitTask => SameTask(a)
  <2> SUFFICES ASSUME a # InitTask PROVE SameTask(a)
    OBVIOUS
  <2>1. PICK u \in Threads \ {t} : task[u] = a
    BY <1>1
  <2>2. ~Finishing(u)
    BY <1>1, <2>1 DEF PoolInv, ThreadInv
  <2>3. task'[u] = a /\ pc'[u] = pc[u] /\ pc[u] \notin FinishLabels
    BY <2>1, <2>2 DEF OthersKept, ThreadKept, Finishing
  <2>4. Live(a) /\ Live(a)' /\ ~Absent(a) /\ ~Absent(a)' /\ Running(a) /\ Running(a)'
    BY <2>1, <2>3 DEF Live, Absent, Running
  <2>5. QED
    BY <1>4, <2>4 DEF SameTask
<1>6. pc[t] \notin StageLabels /\ pc'[t] \notin StageLabels
  BY DEF StageLabels, DriverLabels, IterationLabels
<1>7. SameDone(InitTask) /\ \A b \in Tasks \ {InitTask} : SameTask(b)
  BY <1>3, <1>4, <1>5, InitIsTask DEF SameTask
<1>8. QED
  BY <1>6, <1>7, KeepsAll

(* That a thread returns changes no stage.                                 *)
LEMMA ReturnKeeps ==
  ASSUME TypeOK, PoolInv, NEW t \in Threads, Return(t), UNCHANGED <<work, version, sync>>
  PROVE  \A m \in MatrixIds : SameMatrix(m)
<1>1. /\ pc[t] = "idle" /\ OthersKept(t) /\ task[t] = NoTask
      /\ queued' = queued /\ claimed' = claimed /\ task'[t] = task[t] /\ pc'[t] = "returned"
  BY ReturnEffect, IdleThread
<1>2. \A b \in Tasks : SameTask(b)
  BY <1>1, NoTaskIsNone, OtherTask
<1>3. pc[t] \notin StageLabels /\ pc'[t] \notin StageLabels
  BY <1>1 DEF StageLabels, DriverLabels, IterationLabels
<1>4. SameDone(InitTask)
  BY <1>2, InitIsTask DEF SameTask
<1>5. QED
  BY <1>1, <1>2, <1>3, <1>4, KeepsAll

-----------------------------------------------------------------------------
(* Steps that take a matrix to another stage.                              *)

KeptTask(a) ==
  /\ Absent(a)' <=> Absent(a)
  /\ Running(a)' <=> Running(a)
  /\ SameDone(a)

(* A step changes the stage of one matrix.                                 *)
LEMMA OtherMatrices ==
  ASSUME NEW t \in Threads, OthersKept(t), NEW m \in MatrixIds, claimed' = claimed,
         \A a \in Tasks \ {InitTask} : a.matrix # m => (a \in queued' <=> a \in queued),
         task[t] \in Tasks \ {InitTask} => task[t].matrix = m,
         task'[t] \in {task[t], NoTask},
         pc[t] \in StageLabels => IterationMatrix(t) = m,
         pc'[t] \in StageLabels => IterationMatrix(t)' = m,
         \A n \in MatrixIds \ {m} : sync'[n] = sync[n],
         \A x \in Cells : x[1] # m => version'[x] = version[x],
         \A n \in MatrixIds \ {m} : Done(InitTask, n)' <=> Done(InitTask, n)
  PROVE  \A n \in MatrixIds \ {m} : SameMatrix(n)
<1>1. ASSUME NEW n \in MatrixIds \ {m} PROVE SameMatrix(n)
  <2>1. ASSUME NEW a \in Tasks \ {InitTask}, a.matrix = n PROVE SameTask(a)
    BY <2>1, NoTaskIsNone, OtherTask
  <2>2. ASSUME NEW label \in StageLabels, NEW j \in 0 .. Tiles
        PROVE  Acting(label, n, j)' = Acting(label, n, j)
    <3>1. t \notin Acting(label, n, j) /\ t \notin Acting(label, n, j)'
      BY DEF Acting
    <3>2. QED
      BY <3>1, OthersActing
  <2>3. sync'[n] = sync[n] /\ (\A x \in Cells : x[1] = n => version'[x] = version[x])
    OBVIOUS
  <2>4. QED
    BY <2>1, <2>2, <2>3 DEF SameMatrix, SameActing
<1>2. QED
  BY <1>1

(* The tasks of a stage are those of the next, when no task is created.    *)
LEMMA TasksKept ==
  ASSUME NEW m, NEW k, NEW s, NEW r, TasksInStage(m, k, s),
         CreatedKinds(r) = CreatedKinds(s),
         \/ RunningKinds(s) \subseteq RunningKinds(r)
         \/ \A a \in Tasks \ {InitTask} : a.matrix = m => ~Running(a),
         \A a \in Tasks \ {InitTask} : a.matrix = m => KeptTask(a)
  PROVE  TasksInStage(m, k, r)'
BY DEF TasksInStage, KeptTask

(* A thread that goes on with a matrix goes from stage to stage.           *)
LEMMA ThreadsMove ==
  ASSUME NEW t \in Threads, OthersKept(t), NEW m, NEW k, NEW s, ThreadsInStage(m, k, s),
         NEW j \in 0 .. Tiles, NEW r,
         k \in 0 .. Tiles,
         s \in DriverLabels => Acting(s, m, k) = {t},
         r \in DriverLabels => t \in Acting(r, m, j)',
         r \notin DriverLabels => pc'[t] \notin DriverLabels,
         \A i \in 0 .. Tiles : Acting("cas", m, i)' # {} => i = j /\ r \in {"pushTop", "borders"}
  PROVE  ThreadsInStage(m, j, r)'
<1>1. ASSUME NEW label \in DriverLabels, NEW i \in 0 .. Tiles, NEW u \in Threads \ {t}
      PROVE  u \notin Acting(label, m, i)'
  <2>1. u \in Acting(label, m, i)' <=> u \in Acting(label, m, i)
    BY DEF OthersKept, ThreadKept, IterationMatrix, IterationOffset, Offset, Matrix, Acting
  <2>2. CASE label = s /\ i = k
    BY <2>1, <2>2
  <2>3. CASE ~(label = s /\ i = k)
    BY <2>1, <2>3 DEF ThreadsInStage
  <2>4. QED
    BY <2>2, <2>3
<1>2. ASSUME NEW label \in DriverLabels, NEW i \in 0 .. Tiles, t \in Acting(label, m, i)'
      PROVE  label = r /\ i = j
  BY <1>2 DEF Acting
<1>3. \A label, i : Acting(label, m, i)' \subseteq Threads
  BY DEF Acting
<1>4. ASSUME NEW label \in DriverLabels, NEW i \in 0 .. Tiles
      PROVE  IF label = r /\ i = j THEN \E u \in Threads : Acting(label, m, i)' = {u}
                                   ELSE Acting(label, m, i)' = {}
  <2>1. CASE label = r /\ i = j
    BY <1>1, <1>3, <2>1
  <2>2. CASE ~(label = r /\ i = j)
    BY <1>1, <1>2, <1>3, <2>2
  <2>3. QED
    BY <2>1, <2>2
<1>5. QED
  BY <1>4 DEF ThreadsInStage

(* A step that has nothing to do with the compare-exchange leaves who is   *)
(* at it.                                                                  *)
LEMMA CasKept ==
  ASSUME NEW t \in Threads, OthersKept(t), NEW m, NEW i, pc[t] # "cas", pc'[t] # "cas"
  PROVE  Acting("cas", m, i)' = Acting("cas", m, i)
BY OthersActing DEF Acting

(* A thread that does not go on with a matrix.                             *)
LEMMA ThreadsKept ==
  ASSUME NEW t \in Threads, OthersKept(t), NEW m, NEW k, NEW s, ThreadsInStage(m, k, s),
         pc[t] \notin DriverLabels \cup {"cas"}, pc'[t] \notin DriverLabels \cup {"cas"}
  PROVE  ThreadsInStage(m, k, s)'
<1>1. ASSUME NEW label \in DriverLabels \cup {"cas"}, NEW i
      PROVE  Acting(label, m, i)' = Acting(label, m, i)
  BY OthersActing DEF Acting
<1>2. QED
  BY <1>1 DEF ThreadsInStage

(* The versions of a stage are those of the next, when no chunk gets done. *)
LEMMA VersionsMove ==
  ASSUME NEW m \in MatrixIds, NEW k \in Offsets, NEW s \in Stages, NEW r \in Stages,
         StageInv(m, k, s), s = "first" <=> r = "first", s = "ahead" <=> r = "ahead",
         version' = version,
         \A a \in Tasks \ {InitTask} : a.matrix = m => SameDone(a)
  PROVE  \A x \in Cells : x[1] = m => version'[x] = VersionIn(k, r, x)'
<1>1. ASSUME NEW x \in Cells, x[1] = m PROVE version'[x] = VersionIn(k, r, x)'
  BY <1>1, VersionKept DEF StageInv, VersionIn
<1>2. QED
  BY <1>1

(* A task that was created has chunks.                                     *)
LEMMA CreatedSmall ==
  ASSUME NEW a \in Tasks \ {InitTask}, NEW k \in Offsets, NEW s \in Stages,
         StageInv(a.matrix, k, s), ~Absent(a)
  PROVE  a.offset <= k /\ a.offset + 1 < Tiles /\ a.offset \in Nat /\ Size(a) \in Nat \ {0}
<1>1. a.offset \in Offsets /\ a.matrix \in MatrixIds
  BY TaskParts
<1>2. a.offset \in Nat /\ k \in 0 .. Tiles - 1
  BY <1>1, Parameters DEF Offsets
<1>3. a.offset <= k
  BY <1>2, TaskStage
<1>4. a.offset = k => k + 1 < Tiles
  BY TaskStage DEF CreatedKinds, StageInv
<1>5. a.offset + 1 < Tiles
  BY <1>2, <1>3, <1>4, Parameters
<1>6. QED
  BY <1>2, <1>3, <1>5, SizeOf

(* The thread that called the finish function of a task leaves it.         *)
LEMMA FinishLeaves ==
  ASSUME TypeOK, PoolInv, NEW t \in Threads, OthersKept(t), Finishing(t),
         NEW k \in Offsets, NEW s \in Stages, StageInv(Matrix(t), k, s), NEW a, a = task[t],
         task'[t] = NoTask, claimed' = claimed, a \in queued' <=> a \in queued
  PROVE  /\ KeptTask(a) /\ ~Live(a)' /\ a \in Tasks \ {InitTask}
<1>1. a = task[t]
  OBVIOUS
<1>2. a \in Tasks \ {InitTask} /\ a.matrix = Matrix(t) /\ a # NoTask
  BY <1>1, FinishLabel, NoTaskIsNone DEF Finishing, Matrix
<1>3. Unclaimed(a) = {} /\ \A u \in Threads \ {t} : task[u] # a
  BY <1>1 DEF PoolInv, ThreadInv
<1>4. a \notin queued /\ ~Absent(a) /\ pc[t] \in FinishLabels
  BY <1>1, QueuedTask DEF Absent, Live, Finishing
<1>5. Size(a) \in Nat \ {0}
  BY <1>2, <1>4, CreatedSmall
<1>6. claimed[a] # {}
  BY <1>3, <1>5 DEF Unclaimed
<1>7. \A u \in Threads : task'[u] # a
  BY <1>2, <1>3 DEF OthersKept, ThreadKept
<1>8. ~Live(a)' /\ ~Absent(a)' /\ ~Running(a)' /\ ~Running(a)
  BY <1>1, <1>3, <1>4, <1>6, <1>7 DEF Live, Absent, Running
<1>9. SameDone(a)
  <2>1. ~Carries(t) /\ task'[t] # a
    BY <1>4, <1>7 DEF Carries, FinishLabels
  <2>2. task[t] = a /\ Carries(t) <=> task'[t] = a /\ Carries(t)'
    BY <2>1
  <2>3. claimed'[a] = claimed[a] /\ (task[t] = a /\ Carries(t) => chunk'[t] = chunk[t])
    BY <2>1
  <2>4. QED
    BY <2>2, <2>3, DoneStays, Zenon
<1>10. QED
  BY <1>1, <1>2, <1>4, <1>8, <1>9 DEF KeptTask

(* The thread that goes on with a matrix.                                  *)
LEMMA Driver ==
  ASSUME TypeOK, PoolInv, NEW t \in Threads, pc[t] \in {"iterate", "pushLeft", "pushTop"}
  PROVE  /\ IterationMatrix(t) \in MatrixIds /\ IterationOffset(t) \in 0 .. Tiles
         /\ t \in Acting(pc[t], IterationMatrix(t), IterationOffset(t))
         /\ task[t] # InitTask => /\ task[t] \in Tasks \ {InitTask} /\ task[t].kind = "inner"
                                  /\ task[t].matrix = IterationMatrix(t)
                                  /\ task[t].offset + 1 = IterationOffset(t)
<1>1. task[t] \in Tasks /\ (task[t] # InitTask => task[t].kind = "inner")
  BY ThreadTask
<1>2. CASE task[t] = InitTask
  BY <1>2, InitIsTask, Parameters DEF PoolInv, ThreadInv, TypeOK, MatrixIds, IterationMatrix,
     IterationOffset, Acting, IterationLabels
<1>3. CASE task[t] # InitTask
  BY <1>1, <1>3, TaskParts, Parameters DEF IterationMatrix, IterationOffset, Matrix, Offset,
     Acting, IterationLabels, Offsets
<1>4. QED
  BY <1>2, <1>3

(* The thread that is in start_iteration is the only one, and the stage is *)
(* its label.                                                              *)
LEMMA DriverStage ==
  ASSUME TypeOK, PoolInv, NEW t \in Threads, pc[t] \in {"iterate", "pushLeft", "pushTop"},
         NEW k \in Offsets, NEW s \in Stages, StageInv(IterationMatrix(t), k, s)
  PROVE  s = pc[t] /\ IterationOffset(t) = k /\ Acting(s, IterationMatrix(t), k) = {t}
BY Driver DEF StageInv, ThreadsInStage, DriverLabels, IterationLabels

(* The same of the thread that starts the interior.                        *)
LEMMA BorderDriver ==
  ASSUME TypeOK, PoolInv, NEW t \in Threads, pc[t] \in {"cas", "store", "pushInner"},
         NEW k \in Offsets, NEW s \in Stages, StageInv(Matrix(t), k, s)
  PROVE  /\ task[t] \in Tasks \ {InitTask} /\ task[t].kind \in {"left", "top"} /\ Finishing(t)
         /\ Matrix(t) \in MatrixIds /\ Offset(t) = k /\ IterationMatrix(t) = Matrix(t)
         /\ task[t] = Task(task[t].kind, Matrix(t), k)
         /\ pc[t] = "cas" => s \in {"pushTop", "borders"} /\ t \in Acting("cas", Matrix(t), k)
         /\ pc[t] \in {"store", "pushInner"} => s = pc[t] /\ Acting(s, Matrix(t), k) = {t}
<1>1. task[t] \in Tasks \ {InitTask} /\ task[t].kind \in {"left", "top"}
  BY ThreadTask
<1>2. Matrix(t) \in MatrixIds /\ Offset(t) \in Offsets /\ IterationMatrix(t) = Matrix(t)
        /\ task[t] = Task(task[t].kind, Matrix(t), Offset(t))
  BY <1>1, TaskParts DEF Matrix, Offset, IterationMatrix
<1>3. t \in Acting(pc[t], Matrix(t), Offset(t)) /\ Offset(t) \in 0 .. Tiles
  BY <1>2, Parameters DEF Acting, IterationLabels, Offsets
<1>4. ThreadsInStage(Matrix(t), k, s)
  BY DEF StageInv
<1>5. pc[t] = "cas" => s \in {"pushTop", "borders"} /\ Offset(t) = k
  BY <1>3, <1>4 DEF ThreadsInStage
<1>6. pc[t] \in {"store", "pushInner"} => s = pc[t] /\ Acting(s, Matrix(t), k) = {t} /\ Offset(t) = k
  BY <1>3, <1>4 DEF ThreadsInStage, DriverLabels
<1>7. Finishing(t)
  BY <1>1 DEF Finishing, FinishLabels
<1>8. QED
  BY <1>1, <1>2, <1>3, <1>5, <1>6, <1>7

-----------------------------------------------------------------------------
(* Steps of the program.                                                   *)

(* An operation begins.                                                    *)
LEMMA BeginEffect ==
  ASSUME TypeOK, NEW t \in Threads, NEW w, Begin(t, w)
  PROVE  /\ OthersKept(t) /\ work[t] = NoWork /\ work' = [work EXCEPT ![t] = w] /\ work'[t] = w
         /\ UNCHANGED <<version, queued, open, claimed, is_finished, pc, task, chunk, sync, pending>>
BY DEF Begin, OthersKept, ThreadKept, poolVars, scheduling, TypeOK

(* An operation ends: what it writes has another version, and its thread   *)
(* goes to a label.                                                        *)
LEMMA EndEffect ==
  ASSUME TypeOK, PoolInv, NEW t \in Threads, NEW label, End(t, label)
  PROVE  /\ OthersKept(t) /\ work' = [work EXCEPT ![t] = NoWork] /\ work'[t] = NoWork
         /\ pc' = [pc EXCEPT ![t] = label] /\ pc'[t] = label
         /\ UNCHANGED <<queued, open, claimed, is_finished, task, chunk, sync, pending>>
         /\ pc[t] \in {"copy", "run", "diagonal"} /\ work[t] = Operation(t)
         /\ work[t] # NoWork
         /\ version' = [x \in Cells |->
              IF x \in Writes(work[t]) THEN version[x] + 1 ELSE version[x]]
         /\ \A x \in Cells :
              version'[x] = IF x \in Writes(work[t]) THEN version[x] + 1 ELSE version[x]
<1>1. work[t] # NoWork /\ pc[t] \in {"copy", "run", "diagonal"} /\ work[t] = Operation(t)
  BY DEF End, PoolInv, ThreadInv
<1>2. /\ work' = [work EXCEPT ![t] = NoWork] /\ pc' = [pc EXCEPT ![t] = label]
      /\ UNCHANGED <<queued, open, claimed, is_finished, task, chunk, sync, pending>>
      /\ version' = [x \in Cells |->
           IF x \in Writes(work[t]) THEN version[x] + 1 ELSE version[x]]
  BY DEF End, Goto, scheduling
<1>3. \A x \in Cells :
        version'[x] = IF x \in Writes(work[t]) THEN version[x] + 1 ELSE version[x]
  BY <1>2
<1>4. OthersKept(t) /\ work'[t] = NoWork /\ pc'[t] = label
  BY <1>2 DEF OthersKept, ThreadKept, TypeOK
<1>5. QED
  BY <1>1, <1>2, <1>3, <1>4

(* After start_iteration.                                                  *)
Onward(t) ==
  /\ task[t] = InitTask => pc' = [pc EXCEPT ![t] = "claim"] /\ task' = task /\ pc'[t] = "claim"
  /\ task[t] # InitTask => /\ pc' = [pc EXCEPT ![t] = "idle"] /\ pc'[t] = "idle"
                           /\ task' = [task EXCEPT ![t] = NoTask] /\ task'[t] = NoTask

(* After start_iteration a thread goes on in the first task, or leaves its *)
(* interior.                                                               *)
LEMMA OnwardEffect ==
  ASSUME TypeOK, NEW t \in Threads, AfterIteration(t), UNCHANGED <<chunk, work>>
  PROVE  Onward(t) /\ OthersKept(t)
BY DEF AfterIteration, Onward, Leave, Goto, TypeOK, OthersKept, ThreadKept

(* A thread that is at a label without a tile operation.                   *)
LEMMA NoOperation ==
  ASSUME PoolInv, NEW t \in Threads, pc[t] \notin {"copy", "run", "diagonal"}
  PROVE  work[t] = NoWork
BY DEF PoolInv, ThreadInv

(* An iteration starts, or the matrix is decomposed and counted, by the    *)
(* last one with the end of the pool.                                      *)
LEMMA IterationEffect ==
  ASSUME TypeOK, PoolInv, NEW t \in Threads, StartIteration(t)
  PROVE  /\ pc[t] = "iterate" /\ OthersKept(t) /\ work' = work
         /\ UNCHANGED <<version, queued, open, claimed, is_finished, chunk>>
         /\ \/ /\ IterationOffset(t) + 1 < Tiles /\ task' = task /\ pending' = pending
               /\ pc' = [pc EXCEPT ![t] = "pushLeft"] /\ pc'[t] = "pushLeft"
               /\ sync' = [sync EXCEPT ![IterationMatrix(t)] = 0]
            \/ /\ IterationOffset(t) + 1 >= Tiles /\ pending' = pending - 1 /\ sync' = sync
               /\ \/ /\ pending = 1 /\ task' = task
                     /\ pc' = [pc EXCEPT ![t] = "stop"] /\ pc'[t] = "stop"
                  \/ pending # 1 /\ Onward(t)
<1>1. /\ pc[t] = "iterate" /\ work' = work
      /\ UNCHANGED <<version, queued, open, claimed, is_finished, chunk>>
  BY DEF StartIteration, scheduling
<1>2. IterationOffset(t) \in 0 .. Tiles
  BY <1>1, Driver
<1>3. CASE IterationOffset(t) + 1 >= Tiles
  <2>1. pending' = pending - 1 /\ sync' = sync
    BY <1>3 DEF StartIteration
  <2>2. CASE pending = 1
    BY <1>1, <1>3, <2>1, <2>2 DEF StartIteration, OthersKept, ThreadKept, Goto, TypeOK
  <2>3. CASE pending # 1
    BY <1>1, <1>3, <2>1, <2>3, OnwardEffect DEF StartIteration
  <2>4. QED
    BY <2>2, <2>3
<1>4. CASE ~(IterationOffset(t) + 1 >= Tiles)
  BY <1>1, <1>2, <1>4, Parameters DEF StartIteration, OthersKept, ThreadKept, Goto, TypeOK
<1>5. QED
  BY <1>3, <1>4

(* The left border is pushed.                                              *)
LEMMA PushLeftEffect ==
  ASSUME TypeOK, PoolInv, NEW t \in Threads, PushLeft(t)
  PROVE  /\ pc[t] = "pushLeft" /\ OthersKept(t) /\ work' = work
         /\ UNCHANGED <<version, open, claimed, is_finished, chunk, task, sync, pending>>
         /\ queued' = queued \cup {Task("left", IterationMatrix(t), IterationOffset(t))}
         /\ pc' = [pc EXCEPT ![t] = "pushTop"] /\ pc'[t] = "pushTop"
BY DEF PushLeft, Push, Goto, scheduling, OthersKept, ThreadKept, TypeOK

(* The top border is pushed.                                               *)
LEMMA PushTopEffect ==
  ASSUME TypeOK, PoolInv, NEW t \in Threads, PushTop(t)
  PROVE  /\ pc[t] = "pushTop" /\ OthersKept(t) /\ work' = work
         /\ UNCHANGED <<version, open, claimed, is_finished, chunk, sync, pending>>
         /\ queued' = queued \cup {Task("top", IterationMatrix(t), IterationOffset(t))}
         /\ Onward(t)
BY OnwardEffect DEF PushTop, Push, scheduling

(* The pool is finished.                                                   *)
LEMMA StopEffect ==
  ASSUME TypeOK, PoolInv, NEW t \in Threads, Stop(t)
  PROVE  /\ pc[t] = "stop" /\ OthersKept(t) /\ work' = work /\ is_finished' = TRUE
         /\ UNCHANGED <<version, queued, open, claimed, chunk, sync, pending>>
         /\ Onward(t)
BY OnwardEffect DEF Stop, Finish

(* The first border to come leaves, the second goes on.                    *)
LEMMA CompareExchangeEffect ==
  ASSUME TypeOK, PoolInv, NEW t \in Threads, CompareExchange(t)
  PROVE  /\ pc[t] = "cas" /\ OthersKept(t) /\ work' = work
         /\ UNCHANGED <<version, queued, open, claimed, is_finished, chunk, pending>>
         /\ \/ /\ sync[Matrix(t)] = 0 /\ sync' = [sync EXCEPT ![Matrix(t)] = 1]
               /\ pc' = [pc EXCEPT ![t] = "idle"] /\ pc'[t] = "idle"
               /\ task' = [task EXCEPT ![t] = NoTask] /\ task'[t] = NoTask
            \/ /\ sync[Matrix(t)] # 0 /\ sync' = sync /\ task' = task
               /\ pc' = [pc EXCEPT ![t] = "store"] /\ pc'[t] = "store"
<1>1. /\ pc[t] = "cas" /\ work' = work
      /\ UNCHANGED <<version, queued, open, claimed, is_finished, chunk, pending>>
  BY DEF CompareExchange, scheduling
<1>2. CASE sync[Matrix(t)] = 0
  BY <1>1, <1>2 DEF CompareExchange, BorderIsFirst, Leave, Goto, OthersKept, ThreadKept, TypeOK
<1>3. CASE sync[Matrix(t)] # 0
  BY <1>1, <1>3 DEF CompareExchange, BorderIsFirst, Goto, OthersKept, ThreadKept, TypeOK
<1>4. QED
  BY <1>2, <1>3

(* The count of the blocks of the first tile is set.                       *)
LEMMA StoreEffect ==
  ASSUME TypeOK, PoolInv, NEW t \in Threads, StoreFirstTile(t)
  PROVE  /\ pc[t] = "store" /\ OthersKept(t) /\ work' = work
         /\ UNCHANGED <<version, queued, open, claimed, is_finished, task, chunk, pending>>
         /\ sync' = [sync EXCEPT ![Matrix(t)] = Parts]
         /\ pc' = [pc EXCEPT ![t] = "pushInner"] /\ pc'[t] = "pushInner"
BY DEF StoreFirstTile, FirstTileParts, Goto, scheduling, OthersKept, ThreadKept, TypeOK

(* The interior is pushed.                                                 *)
LEMMA PushInnerEffect ==
  ASSUME TypeOK, PoolInv, NEW t \in Threads, PushInner(t)
  PROVE  /\ pc[t] = "pushInner" /\ OthersKept(t) /\ work' = work
         /\ UNCHANGED <<version, open, claimed, is_finished, chunk, sync, pending>>
         /\ queued' = queued \cup {Task("inner", Matrix(t), Offset(t))}
         /\ pc' = [pc EXCEPT ![t] = "idle"] /\ pc'[t] = "idle"
         /\ task' = [task EXCEPT ![t] = NoTask] /\ task'[t] = NoTask
BY DEF PushInner, Push, Leave, Goto, scheduling, OthersKept, ThreadKept, TypeOK

(* A block is counted, and the last one is found by its thread.            *)
LEMMA CountEffect ==
  ASSUME TypeOK, PoolInv, NEW t \in Threads, CountFirstTile(t)
  PROVE  /\ pc[t] = "count" /\ OthersKept(t) /\ work' = work
         /\ UNCHANGED <<version, queued, open, claimed, is_finished, task, chunk, pending>>
         /\ sync' = [sync EXCEPT ![Matrix(t)] = sync[Matrix(t)] - 1]
         /\ pc' = [pc EXCEPT ![t] = IF sync[Matrix(t)] = 1 THEN "diagonal" ELSE "claim"]
         /\ pc'[t] = IF sync[Matrix(t)] = 1 THEN "diagonal" ELSE "claim"
BY DEF CountFirstTile, Goto, scheduling, OthersKept, ThreadKept, TypeOK

(* A thread is at a label of its task.                                     *)
LEMMA LabelledThread ==
  ASSUME TypeOK, PoolInv, NEW t \in Threads, pc[t] \notin {"idle", "returned", "leave"}
  PROVE  /\ task[t] \in Tasks /\ task[t] # NoTask
         /\ ~Finishing(t) => Looping(t)
         /\ Finishing(t) <=> task[t] # InitTask /\ pc[t] \in FinishLabels
BY ThreadTask DEF Looping, Finishing

(* A thread goes to a label of its task where it holds no other chunk.     *)
LEMMA GoesOn ==
  ASSUME TypeOK, PoolInv, NEW t \in Threads, OthersKept(t),
         pc[t] \notin {"idle", "returned", "leave"},
         task'[t] = task[t], chunk'[t] = chunk[t], claimed' = claimed, open' = open, Pushes,
         work'[t] = NoWork, pc'[t] \in LabelsOf(task[t].kind),
         pc'[t] \notin {"leave", "copy"},
         pc'[t] = "run" => Carries(t),
         task[t] # InitTask => (pc[t] \in FinishLabels <=> pc'[t] \in FinishLabels),
         task[t] = InitTask /\ pc'[t] \in {"iterate", "pushLeft", "pushTop"}
           => chunk[t] \in claimed[InitTask]
  PROVE  PoolInv'
BY LabelledThread, RelabelStep DEF Looping, Finishing, Carries

(* PoolInv is preserved when start_iteration ends.                         *)
LEMMA OnwardStep ==
  ASSUME TypeOK, PoolInv, NEW t \in Threads, OthersKept(t), pc[t] \in {"iterate", "pushTop", "stop"},
         Onward(t), work' = work, chunk' = chunk, claimed' = claimed, open' = open, Pushes
  PROVE  PoolInv'
<1>1. task[t] \in Tasks /\ work'[t] = NoWork
  BY LabelledThread, NoOperation
<1>2. CASE task[t] = InitTask
  BY <1>1, <1>2, GoesOn DEF Onward, LabelsOf
<1>3. CASE task[t] # InitTask
  BY <1>1, <1>3, LeaveStep DEF Onward, Finishing, Looping, FinishLabels
<1>4. QED
  BY <1>2, <1>3

(* PoolInv is preserved when an operation begins.                          *)
LEMMA BeginStep ==
  ASSUME TypeOK, PoolInv, NEW t \in Threads, pc[t] \in {"copy", "run", "diagonal"},
         Begin(t, Operation(t))
  PROVE  PoolInv'
BY BeginEffect, KeptThread, ThreadTask, RelabelStep DEF Pushes

(* The labels after a tile operation.                                      *)
AfterOperation(t, label) ==
  \/ label = "claim"
  \/ label = "run" /\ pc[t] = "copy" /\ chunk[t] # NoChunk
  \/ label = "count" /\ pc[t] = "run" /\ task[t].kind = "inner"
  \/ label = "iterate" /\ pc[t] = "run" /\ task[t] = InitTask

(* PoolInv is preserved when an operation ends.                            *)
LEMMA EndStep ==
  ASSUME TypeOK, PoolInv, NEW t \in Threads, NEW label, AfterOperation(t, label), End(t, label)
  PROVE  PoolInv'
<1>1. /\ OthersKept(t) /\ work'[t] = NoWork /\ pc'[t] = label
      /\ UNCHANGED <<queued, open, claimed, is_finished, task, chunk, sync, pending>>
      /\ pc[t] \in {"copy", "run", "diagonal"}
  BY EndEffect
<1>2. /\ pc[t] \notin FinishLabels /\ Pushes /\ task[t] \in Tasks
      /\ (task[t].kind = "init" <=> task[t] = InitTask)
      /\ pc[t] = "copy" => task[t].kind \in {"left", "top"}
  BY <1>1, ThreadTask DEF FinishLabels, Pushes
<1>3. label \in LabelsOf(task[t].kind)
  BY <1>2 DEF AfterOperation, LabelsOf
<1>4. label \notin {"leave", "copy"} /\ (label = "run" => Carries(t))
  BY DEF AfterOperation, Carries
<1>5. task[t] # InitTask => label \notin FinishLabels
  BY DEF AfterOperation, FinishLabels
<1>6. task[t] = InitTask /\ label \in {"iterate", "pushLeft", "pushTop"}
        => chunk[t] \in claimed[InitTask]
  BY DEF AfterOperation, PoolInv, ThreadInv, Carries
<1>7. QED
  BY <1>1, <1>2, <1>3, <1>4, <1>5, <1>6, GoesOn

(* PoolInv is preserved when an iteration starts.                          *)
LEMMA IterationStep ==
  ASSUME TypeOK, PoolInv, NEW t \in Threads, StartIteration(t)
  PROVE  PoolInv'
<1>1. /\ pc[t] = "iterate" /\ OthersKept(t) /\ work' = work
      /\ UNCHANGED <<version, queued, open, claimed, is_finished, chunk>>
      /\ \/ task' = task /\ pc'[t] \in {"pushLeft", "stop"}
         \/ Onward(t)
  BY IterationEffect
<1>2. Pushes /\ work'[t] = NoWork
  BY <1>1, NoOperation DEF Pushes
<1>3. CASE task' = task /\ pc'[t] \in {"pushLeft", "stop"}
  <2>1. pc'[t] \in LabelsOf(task[t].kind)
    BY <1>1, <1>3, ThreadTask DEF LabelsOf
  <2>2. task[t] = InitTask => chunk[t] \in claimed[InitTask]
    BY <1>1 DEF PoolInv, ThreadInv
  <2>3. pc[t] \in FinishLabels /\ pc'[t] \in FinishLabels
    BY <1>1, <1>3 DEF FinishLabels
  <2>4. QED
    BY <1>1, <1>2, <1>3, <2>1, <2>2, <2>3, GoesOn
<1>4. CASE Onward(t)
  BY <1>1, <1>2, <1>4, OnwardStep
<1>5. QED
  BY <1>1, <1>3, <1>4

(* What a thread pushes is not there.                                      *)
LEMMA CanPush ==
  ASSUME NEW kind \in {"left", "top", "inner"}, NEW m \in MatrixIds, NEW k \in Offsets,
         NEW s \in Stages, StageInv(m, k, s), kind \notin CreatedKinds(s), k + 1 < Tiles,
         NEW b, b = Task(kind, m, k)
  PROVE  /\ b \in Tasks \ {InitTask} /\ Absent(b) /\ Size(b) > 0
         /\ b.kind = kind /\ b.matrix = m /\ b.offset = k
         /\ queued' = queued \cup {b} => Pushes
BY TaskIn, TaskStage, SizeOf DEF Pushes

(* PoolInv is preserved when the left border is pushed.                    *)
LEMMA PushLeftStep ==
  ASSUME TypeOK, PoolInv, NEW t \in Threads, PushLeft(t),
         NEW k \in Offsets, NEW s \in Stages, StageInv(IterationMatrix(t), k, s)
  PROVE  PoolInv'
<1>1. /\ pc[t] = "pushLeft" /\ OthersKept(t) /\ work' = work
      /\ UNCHANGED <<version, open, claimed, is_finished, chunk, task, sync, pending>>
      /\ queued' = queued \cup {Task("left", IterationMatrix(t), IterationOffset(t))}
      /\ pc'[t] = "pushTop"
  BY PushLeftEffect
<1>2. s = "pushLeft" /\ IterationOffset(t) = k /\ IterationMatrix(t) \in MatrixIds
  BY <1>1, Driver, DriverStage
<1>3. "left" \notin CreatedKinds(s) /\ k + 1 < Tiles
  BY <1>2 DEF CreatedKinds, StageInv
<1>4. Pushes
  BY <1>1, <1>2, <1>3, CanPush
<1>5. pc'[t] \in LabelsOf(task[t].kind)
  BY <1>1, ThreadTask DEF LabelsOf
<1>6. task[t] = InitTask => chunk[t] \in claimed[InitTask]
  BY <1>1 DEF PoolInv, ThreadInv
<1>7. pc[t] \in FinishLabels /\ pc'[t] \in FinishLabels /\ work'[t] = NoWork
  BY <1>1, NoOperation DEF FinishLabels
<1>8. QED
  BY <1>1, <1>4, <1>5, <1>6, <1>7, GoesOn

(* PoolInv is preserved when the top border is pushed.                     *)
LEMMA PushTopStep ==
  ASSUME TypeOK, PoolInv, NEW t \in Threads, PushTop(t),
         NEW k \in Offsets, NEW s \in Stages, StageInv(IterationMatrix(t), k, s)
  PROVE  PoolInv'
<1>1. /\ pc[t] = "pushTop" /\ OthersKept(t) /\ work' = work
      /\ UNCHANGED <<version, open, claimed, is_finished, chunk, sync, pending>>
      /\ queued' = queued \cup {Task("top", IterationMatrix(t), IterationOffset(t))}
      /\ Onward(t)
  BY PushTopEffect
<1>2. s = "pushTop" /\ IterationOffset(t) = k /\ IterationMatrix(t) \in MatrixIds
  BY <1>1, Driver, DriverStage
<1>3. "top" \notin CreatedKinds(s) /\ k + 1 < Tiles
  BY <1>2 DEF CreatedKinds, StageInv
<1>4. Pushes
  BY <1>1, <1>2, <1>3, CanPush
<1>5. QED
  BY <1>1, <1>4, OnwardStep

(* PoolInv is preserved when the pool is finished.                         *)
LEMMA StopStep ==
  ASSUME TypeOK, PoolInv, NEW t \in Threads, Stop(t)
  PROVE  PoolInv'
BY StopEffect, OnwardStep DEF Pushes

(* PoolInv is preserved by the compare-exchange.                           *)
LEMMA CompareExchangeStep ==
  ASSUME TypeOK, PoolInv, NEW t \in Threads, CompareExchange(t)
  PROVE  PoolInv'
<1>1. /\ pc[t] = "cas" /\ OthersKept(t) /\ work' = work
      /\ UNCHANGED <<version, queued, open, claimed, is_finished, chunk, pending>>
      /\ \/ pc'[t] = "idle" /\ task'[t] = NoTask
         \/ pc'[t] = "store" /\ task' = task
  BY CompareExchangeEffect
<1>2. /\ task[t] \in Tasks \ {InitTask} /\ task[t].kind \in {"left", "top"} /\ Pushes
      /\ work'[t] = NoWork
  BY <1>1, ThreadTask, NoOperation DEF Pushes
<1>3. Finishing(t) /\ ~Looping(t) /\ pc[t] \in FinishLabels /\ "store" \in FinishLabels
  BY <1>1, <1>2 DEF Finishing, Looping, FinishLabels
<1>4. CASE pc'[t] = "idle" /\ task'[t] = NoTask
  BY <1>1, <1>2, <1>3, <1>4, LeaveStep
<1>5. CASE pc'[t] = "store" /\ task' = task
  BY <1>1, <1>2, <1>3, <1>5, GoesOn DEF LabelsOf
<1>6. QED
  BY <1>1, <1>4, <1>5

(* PoolInv is preserved when the count is set.                             *)
LEMMA StoreStep ==
  ASSUME TypeOK, PoolInv, NEW t \in Threads, StoreFirstTile(t)
  PROVE  PoolInv'
BY StoreEffect, ThreadTask, NoOperation, GoesOn DEF Pushes, LabelsOf, FinishLabels

(* PoolInv is preserved when the interior is pushed.                       *)
LEMMA PushInnerStep ==
  ASSUME TypeOK, PoolInv, NEW t \in Threads, PushInner(t),
         NEW k \in Offsets, NEW s \in Stages, StageInv(Matrix(t), k, s)
  PROVE  PoolInv'
<1>1. /\ pc[t] = "pushInner" /\ OthersKept(t) /\ work' = work
      /\ UNCHANGED <<version, open, claimed, is_finished, chunk, sync, pending>>
      /\ queued' = queued \cup {Task("inner", Matrix(t), Offset(t))}
      /\ pc'[t] = "idle" /\ task'[t] = NoTask
  BY PushInnerEffect
<1>2. s = "pushInner" /\ Offset(t) = k /\ Matrix(t) \in MatrixIds /\ Finishing(t)
        /\ task[t] \in Tasks
  BY <1>1, BorderDriver
<1>3. "inner" \notin CreatedKinds(s) /\ k + 1 < Tiles
  BY <1>2 DEF CreatedKinds, StageInv
<1>4. Pushes
  BY <1>1, <1>2, <1>3, CanPush
<1>5. ~Looping(t) /\ work'[t] = NoWork
  BY <1>1, <1>2, NoOperation DEF Looping
<1>6. QED
  BY <1>1, <1>2, <1>4, <1>5, LeaveStep

(* PoolInv is preserved when a block is counted.                           *)
LEMMA CountStep ==
  ASSUME TypeOK, PoolInv, NEW t \in Threads, CountFirstTile(t)
  PROVE  PoolInv'
BY CountEffect, ThreadTask, NoOperation, GoesOn DEF Pushes, LabelsOf, FinishLabels

-----------------------------------------------------------------------------
(* A thread in the finish function of a task, or in start_iteration.       *)

Continues(t) ==
  \/ task'[t] = task[t] /\ chunk'[t] = chunk[t] /\ (pc'[t] \in FinishLabels \/ task[t] = InitTask)
  \/ task'[t] = NoTask /\ task[t] # InitTask /\ pc'[t] = "idle"

(* After start_iteration a thread is back in its loop or without a task.   *)
LEMMA OnwardContinues ==
  ASSUME NEW t \in Threads, Onward(t), chunk' = chunk
  PROVE  Continues(t) /\ pc'[t] \in {"claim", "idle"}
BY DEF Onward, Continues

(* The thread in a finish function completes no chunk and touches no task  *)
(* but its own and the one it pushes.                                      *)
LEMMA FinisherKeeps ==
  ASSUME TypeOK, PoolInv, NEW t \in Threads, OthersKept(t), pc[t] \in FinishLabels,
         pc'[t] \notin {"run", "copy"}, claimed' = claimed, Continues(t),
         NEW k \in Offsets, NEW s \in Stages, task[t] # InitTask => StageInv(Matrix(t), k, s)
  PROVE  /\ \A a : SameDone(a)
         /\ \A a \in Tasks \ {InitTask} : (a \in queued' <=> a \in queued)
              => KeptTask(a) /\ (a # task[t] => SameTask(a))
<1>1. ~Carries(t) /\ ~Carries(t)'
  BY DEF Carries, FinishLabels
<1>2. \A a : SameDone(a)
  <2>1. ASSUME NEW a PROVE SameDone(a)
    BY <1>1, DoneStays, claimed'[a] = claimed[a]
  <2>2. QED
    BY <2>1
<1>3. ASSUME NEW a \in Tasks \ {InitTask}, a \in queued' <=> a \in queued, a # task[t]
      PROVE  SameTask(a)
  BY <1>3, NoTaskIsNone, OtherTask DEF Continues
<1>4. ASSUME NEW a \in Tasks \ {InitTask}, a \in queued' <=> a \in queued, a = task[t]
      PROVE  KeptTask(a)
  <2>1. CASE task'[t] = a /\ pc'[t] \in FinishLabels
    BY <1>1, <1>4, <2>1, OwnTask DEF SameTask, KeptTask
  <2>2. CASE task'[t] = NoTask
    BY <1>4, <2>2, FinishLeaves DEF Finishing
  <2>3. QED
    BY <1>4, <2>1, <2>2 DEF Continues
<1>5. \A a : SameTask(a) => KeptTask(a)
  BY DEF SameTask, KeptTask
<1>6. QED
  BY <1>2, <1>3, <1>4, <1>5

(* It leaves the other matrices in their stages.                           *)
LEMMA FinisherOthers ==
  ASSUME TypeOK, PoolInv, NEW t \in Threads, OthersKept(t), pc[t] \in FinishLabels,
         pc'[t] \notin {"run", "copy"}, claimed' = claimed, Continues(t),
         NEW k \in Offsets, NEW s \in Stages, task[t] # InitTask => StageInv(Matrix(t), k, s),
         NEW m \in MatrixIds, m = IterationMatrix(t), version' = version,
         \A a \in Tasks \ {InitTask} : a.matrix # m => (a \in queued' <=> a \in queued),
         \A n \in MatrixIds \ {m} : sync'[n] = sync[n]
  PROVE  \A n \in MatrixIds \ {m} : SameMatrix(n)
<1>1. SameDone(InitTask)
  BY FinisherKeeps
<1>2. \A n \in MatrixIds \ {m} : Done(InitTask, n)' <=> Done(InitTask, n)
  BY <1>1 DEF SameDone
<1>3. task[t] \in Tasks \ {InitTask} => task[t].matrix = m
  BY DEF IterationMatrix, Matrix
<1>4. task'[t] \in {task[t], NoTask}
  BY DEF Continues
<1>5. pc'[t] \in StageLabels => IterationMatrix(t)' = m
  BY DEF Continues, StageLabels, DriverLabels, IterationLabels, IterationMatrix, Matrix
<1>6. QED
  BY <1>2, <1>3, <1>4, <1>5, OtherMatrices

(* A step takes matrix m to stage s of iteration k.                        *)
Moved(m, k, s) ==
  /\ StageInv(m, k, s)'
  /\ \A n \in MatrixIds \ {m} : SameMatrix(n)

(* Another stage of the same iteration, when nothing is pushed.            *)
LEMMA FinisherMoves ==
  ASSUME TypeOK, PoolInv, NEW t \in Threads, OthersKept(t), pc[t] \in FinishLabels,
         pc'[t] \notin {"run", "copy"}, claimed' = claimed, Continues(t),
         NEW m \in MatrixIds, m = IterationMatrix(t), version' = version,
         queued' = queued, \A n \in MatrixIds \ {m} : sync'[n] = sync[n],
         NEW k \in Offsets, NEW s \in Stages, StageInv(m, k, s), NEW r \in Stages,
         s \notin {"first", "ahead"}, r \notin {"first", "ahead"},
         CreatedKinds(r) = CreatedKinds(s),
         \/ RunningKinds(s) \subseteq RunningKinds(r)
         \/ \A a \in Tasks \ {InitTask} : a.matrix = m => ~Running(a),
         r = "done" => k = Tiles - 1, r \notin {"iterate", "done"} => k + 1 < Tiles,
         ThreadsInStage(m, k, r)', SyncInStage(m, k, r)'
  PROVE  Moved(m, k, r)
<1>1. task[t] # InitTask => StageInv(Matrix(t), k, s)
  BY DEF IterationMatrix
<1>2. /\ \A a : SameDone(a)
      /\ \A a \in Tasks \ {InitTask} : KeptTask(a)
  BY <1>1, FinisherKeeps
<1>3. \A n \in MatrixIds \ {m} : SameMatrix(n)
  BY <1>1, FinisherOthers
<1>4. TasksInStage(m, k, r)'
  BY <1>2, TasksKept DEF StageInv
<1>5. \A x \in Cells : x[1] = m => version'[x] = VersionIn(k, r, x)'
  BY <1>2, VersionsMove
<1>6. Done(InitTask, m)'
  BY <1>2 DEF SameDone, StageInv
<1>7. StageInv(m, k, r)'
  BY <1>4, <1>5, <1>6 DEF StageInv
<1>8. QED
  BY <1>3, <1>7 DEF Moved

(* Outside of the stages of the borders nobody comes to the compare-       *)
(* exchange.                                                               *)
LEMMA NoCas ==
  ASSUME NEW t \in Threads, OthersKept(t), NEW m, NEW k, NEW s, ThreadsInStage(m, k, s),
         s \notin {"pushTop", "borders"}, pc[t] # "cas", pc'[t] # "cas"
  PROVE  \A i \in 0 .. Tiles : Acting("cas", m, i)' = {}
BY CasKept DEF ThreadsInStage

(* A thread that stays on its task stays in the iteration.                 *)
LEMMA IterationPlace ==
  ASSUME NEW t \in Threads, task'[t] = task[t], chunk'[t] = chunk[t]
  PROVE  /\ IterationMatrix(t)' = IterationMatrix(t) /\ IterationOffset(t)' = IterationOffset(t)
         /\ Matrix(t)' = Matrix(t) /\ Offset(t)' = Offset(t)
BY DEF IterationMatrix, IterationOffset, Matrix, Offset

(* The kinds of tasks in the stages.                                       *)
LEMMA Kinds ==
  /\ \A s \in {"first", "iterate", "pushLeft", "done"} : CreatedKinds(s) = {} /\ RunningKinds(s) = {}
  /\ CreatedKinds("pushTop") = {"left"} /\ RunningKinds("pushTop") = {"left"}
  /\ \A s \in {"borders", "store", "pushInner"} : CreatedKinds(s) = {"left", "top"}
  /\ RunningKinds("borders") = {"left", "top"}
  /\ \A s \in {"store", "pushInner"} : RunningKinds(s) = {}
  /\ \A s \in {"interior", "diagonal", "ahead"} :
       CreatedKinds(s) = {"left", "top", "inner"} /\ RunningKinds(s) = {"inner"}
BY DEF CreatedKinds, RunningKinds

(* An iteration starts, or the matrix is decomposed.                       *)
LEMMA IterationMoves ==
  ASSUME TypeOK, PoolInv, NEW t \in Threads, StartIteration(t), NEW m, m = IterationMatrix(t),
         NEW k \in Offsets, NEW s \in Stages, StageInv(m, k, s)
  PROVE  /\ m \in MatrixIds /\ s = "iterate" /\ IterationOffset(t) = k
         /\ Moved(m, k, IF k + 1 < Tiles THEN "pushLeft" ELSE "done")
<1>1. /\ pc[t] = "iterate" /\ OthersKept(t) /\ work' = work
      /\ UNCHANGED <<version, queued, open, claimed, is_finished, chunk>>
  BY IterationEffect
<1>2. /\ m \in MatrixIds /\ s = "iterate" /\ IterationOffset(t) = k /\ Acting(s, m, k) = {t}
      /\ k \in 0 .. Tiles - 1 /\ k \in 0 .. Tiles /\ ThreadsInStage(m, k, s)
  BY <1>1, Driver, DriverStage, Parameters DEF Offsets, StageInv
<1>3. pc[t] \in FinishLabels
  BY <1>1 DEF FinishLabels
<1>4. \A i \in 0 .. Tiles : pc'[t] # "cas" => Acting("cas", m, i)' = {}
  BY <1>1, <1>2, NoCas
<1>5. CASE k + 1 < Tiles
  <2>1. task' = task /\ pc'[t] = "pushLeft" /\ sync' = [sync EXCEPT ![m] = 0]
    BY <1>2, <1>5, Parameters, IterationEffect
  <2>2. Continues(t)
    BY <1>1, <2>1 DEF Continues, FinishLabels
  <2>3. t \in Acting("pushLeft", m, k)'
    BY <1>1, <1>2, <2>1, IterationPlace DEF Acting, IterationLabels
  <2>4. ThreadsInStage(m, k, "pushLeft")'
    BY <1>1, <1>2, <1>4, <2>1, <2>3, ThreadsMove DEF DriverLabels, IterationLabels
  <2>5. sync'[m] = 0 /\ \A n \in MatrixIds \ {m} : sync'[n] = sync[n]
    BY <1>2, <2>1 DEF TypeOK
  <2>6. SyncInStage(m, k, "pushLeft")'
    BY <2>5, Kinds DEF SyncInStage
  <2>7. "pushLeft" \in Stages
    BY DEF Stages
  <2>8. Moved(m, k, "pushLeft")
    BY <1>1, <1>2, <1>3, <1>5, <2>1, <2>2, <2>4, <2>5, <2>6, <2>7, Kinds, FinisherMoves
  <2>9. QED
    BY <1>2, <1>5, <2>8
<1>6. CASE ~(k + 1 < Tiles)
  <2>1. sync' = sync /\ ((task' = task /\ pc'[t] = "stop") \/ Onward(t)) /\ k = Tiles - 1
    BY <1>2, <1>6, Parameters, IterationEffect
  <2>2. Continues(t) /\ pc'[t] \in {"stop", "claim", "idle"}
    BY <1>1, <2>1, OnwardContinues DEF Continues, FinishLabels
  <2>3. ThreadsInStage(m, k, "done")'
    BY <1>1, <1>2, <1>4, <2>2, ThreadsMove DEF DriverLabels, IterationLabels
  <2>4. SyncInStage(m, k, "done")'
    BY DEF SyncInStage
  <2>5. "done" \in Stages
    BY DEF Stages
  <2>6. Moved(m, k, "done")
    BY <1>1, <1>2, <1>3, <2>1, <2>2, <2>3, <2>4, <2>5, Kinds, FinisherMoves
  <2>7. QED
    BY <1>2, <1>6, <2>6
<1>7. QED
  BY <1>5, <1>6

(* The thread that stops the pool comes from a matrix that is decomposed.  *)
LEMMA StopMoves ==
  ASSUME TypeOK, PoolInv, NEW t \in Threads, Stop(t), NEW m \in MatrixIds, m = IterationMatrix(t),
         NEW k \in Offsets, StageInv(m, k, "done")
  PROVE  Moved(m, k, "done")
<1>1. /\ pc[t] = "stop" /\ OthersKept(t) /\ work' = work
      /\ UNCHANGED <<version, queued, open, claimed, chunk, sync, pending>>
      /\ Onward(t)
  BY StopEffect
<1>2. Continues(t) /\ pc'[t] \in {"claim", "idle"} /\ pc[t] \in FinishLabels
  BY <1>1, OnwardContinues DEF FinishLabels
<1>3. "done" \in Stages /\ ThreadsInStage(m, k, "done") /\ k = Tiles - 1
  BY DEF Stages, StageInv
<1>4. ThreadsInStage(m, k, "done")'
  BY <1>1, <1>2, <1>3, ThreadsKept DEF DriverLabels, IterationLabels
<1>5. SyncInStage(m, k, "done")'
  BY DEF SyncInStage
<1>6. QED
  BY <1>1, <1>2, <1>3, <1>4, <1>5, Kinds, FinisherMoves

(* A stage in which a task is pushed.                                      *)
LEMMA TasksPush ==
  ASSUME NEW m \in MatrixIds, NEW k \in Offsets, NEW s, NEW r, TasksInStage(m, k, s),
         NEW kind \in {"left", "top", "inner"}, NEW b, b = Task(kind, m, k),
         queued' = queued \cup {b}, kind \in RunningKinds(r),
         CreatedKinds(r) = CreatedKinds(s) \cup {kind}, RunningKinds(s) \subseteq RunningKinds(r),
         \A a \in Tasks \ {InitTask} : a.matrix = m /\ a # b => KeptTask(a)
  PROVE  TasksInStage(m, k, r)'
<1> SUFFICES ASSUME NEW a \in Tasks \ {InitTask}, a.matrix = m
             PROVE  /\ Running(a)' => a.offset = k /\ a.kind \in RunningKinds(r)
                    /\ a.offset = k => (Absent(a)' <=> a.kind \notin CreatedKinds(r))
                    /\ a.offset > k => Absent(a)'
  BY DEF TasksInStage
<1>1. CASE a = b
  BY <1>1, TaskIn, Parameters DEF Absent, Live, Offsets
<1>2. CASE a # b
  BY <1>2, TaskParts DEF TasksInStage, KeptTask
<1>3. QED
  BY <1>1, <1>2

(* The next stage of the same iteration, when a task is pushed.            *)
LEMMA PushMoves ==
  ASSUME TypeOK, PoolInv, NEW t \in Threads, OthersKept(t), pc[t] \in FinishLabels,
         pc'[t] \notin {"run", "copy"}, claimed' = claimed, Continues(t),
         NEW m \in MatrixIds, m = IterationMatrix(t), version' = version, sync' = sync,
         NEW k \in Offsets, NEW s \in Stages, StageInv(m, k, s), NEW r \in Stages, k + 1 < Tiles,
         s \notin {"first", "ahead"}, r \notin {"first", "ahead", "done"},
         NEW kind \in {"left", "top", "inner"}, queued' = queued \cup {Task(kind, m, k)},
         kind \in RunningKinds(r), CreatedKinds(r) = CreatedKinds(s) \cup {kind},
         RunningKinds(s) \subseteq RunningKinds(r),
         ThreadsInStage(m, k, r)', SyncInStage(m, k, r)'
  PROVE  Moved(m, k, r)
<1>1. task[t] # InitTask => StageInv(Matrix(t), k, s)
  BY DEF IterationMatrix
<1>2. PICK b : b = Task(kind, m, k)
  OBVIOUS
<1>3. b \in Tasks \ {InitTask} /\ b.matrix = m
  BY <1>2, TaskIn
<1>4. /\ \A a : SameDone(a)
      /\ \A a \in Tasks \ {InitTask} : a # b => KeptTask(a)
  BY <1>1, <1>2, FinisherKeeps
<1>5. \A n \in MatrixIds \ {m} : SameMatrix(n)
  BY <1>1, <1>2, <1>3, FinisherOthers
<1>6. TasksInStage(m, k, r)'
  BY <1>2, <1>4, TasksPush DEF StageInv
<1>7. \A x \in Cells : x[1] = m => version'[x] = VersionIn(k, r, x)'
  BY <1>4, VersionsMove
<1>8. Done(InitTask, m)'
  BY <1>4 DEF SameDone, StageInv
<1>9. StageInv(m, k, r)'
  BY <1>6, <1>7, <1>8 DEF StageInv
<1>10. QED
  BY <1>5, <1>9 DEF Moved

(* The left border is there, and the top border is next.                   *)
LEMMA PushLeftMoves ==
  ASSUME TypeOK, PoolInv, NEW t \in Threads, PushLeft(t), NEW m, m = IterationMatrix(t),
         NEW k \in Offsets, NEW s \in Stages, StageInv(m, k, s)
  PROVE  /\ m \in MatrixIds /\ s = "pushLeft" /\ IterationOffset(t) = k /\ k + 1 < Tiles
         /\ Moved(m, k, "pushTop")
<1>1. /\ pc[t] = "pushLeft" /\ OthersKept(t) /\ work' = work
      /\ UNCHANGED <<version, open, claimed, is_finished, chunk, task, sync, pending>>
      /\ queued' = queued \cup {Task("left", IterationMatrix(t), IterationOffset(t))}
      /\ pc'[t] = "pushTop"
  BY PushLeftEffect
<1>2. /\ m \in MatrixIds /\ s = "pushLeft" /\ IterationOffset(t) = k /\ Acting(s, m, k) = {t}
      /\ k \in 0 .. Tiles /\ ThreadsInStage(m, k, s) /\ k + 1 < Tiles
  BY <1>1, Driver, DriverStage, Parameters DEF Offsets, StageInv
<1>3. Continues(t) /\ pc[t] \in FinishLabels
  BY <1>1 DEF Continues, FinishLabels
<1>4. \A i \in 0 .. Tiles : Acting("cas", m, i)' = {}
  BY <1>1, <1>2, NoCas
<1>5. t \in Acting("pushTop", m, k)'
  BY <1>1, <1>2, IterationPlace DEF Acting, IterationLabels
<1>6. ThreadsInStage(m, k, "pushTop")'
  BY <1>1, <1>2, <1>4, <1>5, ThreadsMove DEF DriverLabels, IterationLabels
<1>7. sync[m] = 0
  BY <1>2, Kinds DEF StageInv, SyncInStage
<1>8. SyncInStage(m, k, "pushTop")'
  BY <1>1, <1>2, <1>7, Kinds DEF Live, SyncInStage
<1>9. Moved(m, k, "pushTop")
  BY <1>1, <1>2, <1>3, <1>6, <1>8, Kinds, PushMoves DEF Stages
<1>10. QED
  BY <1>2, <1>9

(* Both borders are there.                                                 *)
LEMMA PushTopMoves ==
  ASSUME TypeOK, PoolInv, NEW t \in Threads, PushTop(t), NEW m, m = IterationMatrix(t),
         NEW k \in Offsets, NEW s \in Stages, StageInv(m, k, s)
  PROVE  /\ m \in MatrixIds /\ s = "pushTop" /\ IterationOffset(t) = k /\ k + 1 < Tiles
         /\ Moved(m, k, "borders")
<1>1. /\ pc[t] = "pushTop" /\ OthersKept(t) /\ work' = work
      /\ UNCHANGED <<version, open, claimed, is_finished, chunk, sync, pending>>
      /\ queued' = queued \cup {Task("top", IterationMatrix(t), IterationOffset(t))}
      /\ Onward(t)
  BY PushTopEffect
<1>2. /\ m \in MatrixIds /\ s = "pushTop" /\ IterationOffset(t) = k /\ Acting(s, m, k) = {t}
      /\ k \in 0 .. Tiles /\ ThreadsInStage(m, k, s) /\ k + 1 < Tiles
  BY <1>1, Driver, DriverStage, Parameters DEF Offsets, StageInv
<1>3. Continues(t) /\ pc[t] \in FinishLabels /\ pc'[t] \in {"claim", "idle"}
  BY <1>1, OnwardContinues DEF FinishLabels
<1>4. \A i \in 0 .. Tiles : Acting("cas", m, i)' # {} => i = k
  BY <1>1, <1>2, <1>3, CasKept DEF ThreadsInStage
<1>5. ThreadsInStage(m, k, "borders")'
  BY <1>1, <1>2, <1>3, <1>4, ThreadsMove DEF DriverLabels, IterationLabels
<1>6. SyncInStage(m, k, "borders")'
  <2>1. sync[m] = IF Live(Task("left", m, k)) THEN 0 ELSE 1
    BY <1>2, Kinds DEF StageInv, SyncInStage
  <2>2. PICK a, b : a = Task("left", m, k) /\ b = Task("top", m, k)
    OBVIOUS
  <2>3. a \in Tasks \ {InitTask} /\ a # b
    BY <1>2, <2>2, TaskIn
  <2>4. a # task[t]
    BY <1>1, <1>2, <2>2, <2>3, Driver, TaskIn
  <2>5. a \in queued' <=> a \in queued
    BY <1>1, <1>2, <2>2, <2>3
  <2>6. task[t] # InitTask => StageInv(Matrix(t), k, s)
    BY DEF IterationMatrix
  <2>7. SameTask(a)
    BY <1>1, <1>3, <2>3, <2>4, <2>5, <2>6, FinisherKeeps
  <2>8. Live(a)' <=> Live(a)
    BY <2>7 DEF SameTask
  <2>9. Live(b)'
    BY <1>1, <1>2, <2>2 DEF Live
  <2>10. sync'[m] = IF \A kind \in {"left", "top"} : Live(Task(kind, m, k))' THEN 0 ELSE 1
    BY <1>1, <2>1, <2>2, <2>8, <2>9
  <2>11. QED
    BY <2>10, Kinds DEF SyncInStage
<1>7. Moved(m, k, "borders")
  BY <1>1, <1>2, <1>3, <1>5, <1>6, Kinds, PushMoves DEF Stages
<1>8. QED
  BY <1>2, <1>7

(* A thread that comes to or leaves the finish function of a border.       *)
LEMMA DriversKept ==
  ASSUME NEW t \in Threads, OthersKept(t), NEW m, NEW k, NEW s, ThreadsInStage(m, k, s),
         pc[t] \notin DriverLabels, pc'[t] \notin DriverLabels,
         \A i \in 0 .. Tiles :
           t \in Acting("cas", m, i)' => i = k /\ s \in {"pushTop", "borders"}
  PROVE  ThreadsInStage(m, k, s)'
<1>1. ASSUME NEW label \in DriverLabels, NEW i
      PROVE  Acting(label, m, i)' = Acting(label, m, i)
  BY OthersActing DEF Acting
<1>2. ASSUME NEW i \in 0 .. Tiles, Acting("cas", m, i)' # {}
      PROVE  i = k /\ s \in {"pushTop", "borders"}
  <2>1. CASE t \in Acting("cas", m, i)'
    BY <2>1
  <2>2. CASE t \notin Acting("cas", m, i)'
    <3>1. PICK u \in Threads \ {t} : u \in Acting("cas", m, i)'
      BY <1>2, <2>2 DEF Acting
    <3>2. pc'[u] = pc[u] /\ task'[u] = task[u] /\ chunk'[u] = chunk[u]
      BY DEF OthersKept, ThreadKept
    <3>3. IterationMatrix(u)' = IterationMatrix(u) /\ Offset(u)' = Offset(u)
      BY <3>2 DEF IterationMatrix, Matrix, Offset
    <3>4. u \in Acting("cas", m, i)
      BY <3>1, <3>2, <3>3 DEF Acting, IterationLabels
    <3>5. QED
      BY <3>4 DEF ThreadsInStage
  <2>3. QED
    BY <2>1, <2>2
<1>3. QED
  BY <1>1, <1>2 DEF ThreadsInStage

(* The first border that ends, or one of which the other has not ended.    *)
LEMMA FirstBorderMoves ==
  ASSUME TypeOK, PoolInv, NEW t \in Threads, CompareExchange(t), NEW m, m = Matrix(t), sync[m] = 0,
         NEW k \in Offsets, NEW s \in Stages, StageInv(m, k, s)
  PROVE  m \in MatrixIds /\ s \notin {"first", "done"} /\ Moved(m, k, s)
<1>1. /\ pc[t] = "cas" /\ OthersKept(t) /\ work' = work
      /\ UNCHANGED <<version, queued, open, claimed, is_finished, chunk, pending>>
      /\ sync' = [sync EXCEPT ![m] = 1] /\ pc'[t] = "idle" /\ task'[t] = NoTask
  BY CompareExchangeEffect
<1>2. /\ task[t] \in Tasks \ {InitTask} /\ task[t].kind \in {"left", "top"} /\ Finishing(t)
      /\ m \in MatrixIds /\ IterationMatrix(t) = m /\ task[t] = Task(task[t].kind, m, k)
      /\ s \in {"pushTop", "borders"} /\ t \in Acting("cas", m, k)
  BY <1>1, BorderDriver
<1>3. Continues(t) /\ pc[t] \in FinishLabels /\ k + 1 < Tiles
  BY <1>1, <1>2 DEF Continues, FinishLabels, StageInv
<1>4. ThreadsInStage(m, k, s)'
  BY <1>1, DriversKept DEF StageInv, Acting, DriverLabels, IterationLabels
<1>5. PICK a : a = task[t]
  OBVIOUS
<1>6. ~Live(a)' /\ a.kind \in CreatedKinds(s)
  BY <1>1, <1>2, <1>5, TaskIn, FinishLeaves, TaskStage DEF Absent, Live
<1>7. SyncInStage(m, k, s)'
  BY <1>1, <1>2, <1>5, <1>6 DEF TypeOK, SyncInStage
<1>8. \A n \in MatrixIds \ {m} : sync'[n] = sync[n]
  BY <1>1 DEF TypeOK
<1>9. Moved(m, k, s)
  BY <1>1, <1>2, <1>3, <1>4, <1>7, <1>8, FinisherMoves
<1>10. QED
  BY <1>2, <1>9

(* The second border that ends: the first one is no longer there.          *)
LEMMA SecondBorderMoves ==
  ASSUME TypeOK, PoolInv, NEW t \in Threads, CompareExchange(t), NEW m, m = Matrix(t), sync[m] # 0,
         NEW k \in Offsets, NEW s \in Stages, StageInv(m, k, s)
  PROVE  m \in MatrixIds /\ s = "borders" /\ Moved(m, k, "store")
<1>1. /\ pc[t] = "cas" /\ OthersKept(t) /\ work' = work
      /\ UNCHANGED <<version, queued, open, claimed, is_finished, chunk, pending>>
      /\ sync' = sync /\ task' = task /\ pc'[t] = "store"
  BY CompareExchangeEffect
<1>2. /\ task[t] \in Tasks \ {InitTask} /\ task[t].kind \in {"left", "top"} /\ Finishing(t)
      /\ m \in MatrixIds /\ IterationMatrix(t) = m /\ task[t] = Task(task[t].kind, m, k)
      /\ s \in {"pushTop", "borders"} /\ t \in Acting("cas", m, k) /\ Offset(t) = k
  BY <1>1, BorderDriver
<1>3. Continues(t) /\ pc[t] \in FinishLabels /\ k + 1 < Tiles
  BY <1>1, <1>2 DEF Continues, FinishLabels, StageInv
<1>4. PICK a : a = task[t]
  OBVIOUS
<1>5. /\ a.matrix = m /\ a.offset = k /\ Live(a) /\ a.kind \in CreatedKinds(s)
      /\ a = Task(a.kind, m, k)
  BY <1>2, <1>4, TaskIn, TaskStage DEF Absent, Live
<1>6. PICK kind \in CreatedKinds(s) : ~Live(Task(kind, m, k))
  BY <1>2 DEF StageInv, SyncInStage
<1>7. s = "borders" /\ kind \in {"left", "top"} /\ kind # a.kind
  BY <1>2, <1>5, <1>6, Kinds
<1>8. ASSUME NEW u \in Threads \ {t}, task[u] \in Tasks \ {InitTask}, task[u].matrix = m,
             task[u].offset = k
      PROVE  task[u].kind \notin {"left", "top"}
  BY <1>2, <1>4, <1>5, <1>6, <1>7, <1>8, TaskParts DEF PoolInv, ThreadInv, Live
<1>9. ASSUME NEW b \in Tasks \ {InitTask}, b.matrix = m, Running(b) PROVE FALSE
  <2>1. b.offset = k /\ b.kind \in {"left", "top"}
    BY <1>7, <1>9, TaskStage, Kinds
  <2>2. b = Task(b.kind, m, k)
    BY <1>9, <2>1, TaskParts
  <2>3. b \notin queued
    BY <1>2, <1>4, <1>5, <1>6, <1>7, <2>1, <2>2, QueuedTask DEF Live
  <2>4. PICK u \in Threads : task[u] = b /\ pc[u] \notin FinishLabels
    BY <1>9, <2>3 DEF Running
  <2>5. u # t
    BY <1>3, <2>4
  <2>6. QED
    BY <1>8, <1>9, <2>1, <2>4, <2>5
<1>10. \A i \in 0 .. Tiles : Acting("cas", m, i)' = {}
  <2>1. ASSUME NEW i \in 0 .. Tiles, NEW u \in Threads, u \in Acting("cas", m, i)' PROVE FALSE
    <3>1. u # t /\ pc'[u] = "cas" /\ IterationMatrix(u)' = m
      BY <1>1, <2>1 DEF Acting
    <3>2. pc[u] = "cas" /\ task'[u] = task[u] /\ chunk'[u] = chunk[u]
      BY <1>1, <3>1 DEF OthersKept, ThreadKept
    <3>3. IterationMatrix(u) = m
      BY <3>1, <3>2, IterationPlace
    <3>4. task[u] \in Tasks \ {InitTask} /\ task[u].kind \in {"left", "top"}
      BY <3>2, ThreadTask
    <3>5. Matrix(u) = m /\ task[u].matrix = m
      BY <3>3, <3>4 DEF IterationMatrix, Matrix
    <3>6. Offset(u) = k /\ task[u].offset = k
      BY <3>2, <3>5, BorderDriver DEF Offset
    <3>7. QED
      BY <1>8, <3>1, <3>4, <3>5, <3>6
  <2>2. QED
    BY <2>1 DEF Acting
<1>11. ThreadsInStage(m, k, "store")'
  BY <1>1, <1>2, <1>7, <1>10, IterationPlace, Parameters, ThreadsMove DEF Acting,
     IterationLabels, StageInv, Offsets, DriverLabels
<1>12. SyncInStage(m, k, "store")'
  BY DEF SyncInStage
<1>13. Moved(m, k, "store")
  BY <1>1, <1>2, <1>3, <1>7, <1>9, <1>11, <1>12, Kinds, FinisherMoves DEF Stages
<1>14. QED
  BY <1>2, <1>7, <1>13

(* The count is set, and the interior is next.                             *)
LEMMA StoreMoves ==
  ASSUME TypeOK, PoolInv, NEW t \in Threads, StoreFirstTile(t), NEW m, m = Matrix(t),
         NEW k \in Offsets, NEW s \in Stages, StageInv(m, k, s)
  PROVE  m \in MatrixIds /\ s = "store" /\ Moved(m, k, "pushInner")
<1>1. /\ pc[t] = "store" /\ OthersKept(t) /\ work' = work
      /\ UNCHANGED <<version, queued, open, claimed, is_finished, task, chunk, pending>>
      /\ sync' = [sync EXCEPT ![m] = Parts] /\ pc'[t] = "pushInner"
  BY StoreEffect
<1>2. /\ task[t] \in Tasks \ {InitTask} /\ m \in MatrixIds /\ IterationMatrix(t) = m
      /\ s = "store" /\ Acting(s, m, k) = {t} /\ Offset(t) = k
  BY <1>1, BorderDriver
<1>3. Continues(t) /\ pc[t] \in FinishLabels /\ k + 1 < Tiles /\ k \in 0 .. Tiles
  BY <1>1, <1>2, Parameters DEF Continues, FinishLabels, StageInv, Offsets
<1>4. ThreadsInStage(m, k, s)
  BY DEF StageInv
<1>5. \A i \in 0 .. Tiles : Acting("cas", m, i)' = {}
  BY <1>1, <1>2, <1>4, NoCas
<1>6. ThreadsInStage(m, k, "pushInner")'
  BY <1>1, <1>2, <1>3, <1>4, <1>5, IterationPlace, ThreadsMove DEF Acting, IterationLabels,
     DriverLabels
<1>7. SyncInStage(m, k, "pushInner")' /\ \A n \in MatrixIds \ {m} : sync'[n] = sync[n]
  BY <1>1, <1>2 DEF SyncInStage, TypeOK
<1>8. Moved(m, k, "pushInner")
  BY <1>1, <1>2, <1>3, <1>6, <1>7, Kinds, FinisherMoves DEF Stages
<1>9. QED
  BY <1>2, <1>8

(* The interior is there: none of its chunks is claimed.                   *)
LEMMA PushInnerMoves ==
  ASSUME TypeOK, PoolInv, NEW t \in Threads, PushInner(t), NEW m, m = Matrix(t),
         NEW k \in Offsets, NEW s \in Stages, StageInv(m, k, s)
  PROVE  m \in MatrixIds /\ s = "pushInner" /\ Moved(m, k, "interior")
<1>1. /\ pc[t] = "pushInner" /\ OthersKept(t) /\ work' = work
      /\ UNCHANGED <<version, open, claimed, is_finished, chunk, sync, pending>>
      /\ queued' = queued \cup {Task("inner", Matrix(t), Offset(t))}
      /\ pc'[t] = "idle" /\ task'[t] = NoTask
  BY PushInnerEffect
<1>2. /\ task[t] \in Tasks \ {InitTask} /\ m \in MatrixIds /\ IterationMatrix(t) = m
      /\ s = "pushInner" /\ Acting(s, m, k) = {t} /\ Offset(t) = k
  BY <1>1, BorderDriver
<1>3. Continues(t) /\ pc[t] \in FinishLabels /\ k + 1 < Tiles /\ k \in 0 .. Tiles /\ k + 1 \in Offsets
  BY <1>1, <1>2, Parameters DEF Continues, FinishLabels, StageInv, Offsets
<1>4. ThreadsInStage(m, k, s) /\ pc'[t] \notin {"run", "copy"} /\ pc'[t] \notin DriverLabels
        /\ "interior" \notin DriverLabels /\ "interior" \in Stages
  BY <1>1 DEF StageInv, DriverLabels, IterationLabels, Stages
<1>5. \A i \in 0 .. Tiles : Acting("cas", m, i)' = {}
  BY <1>1, <1>2, <1>4, NoCas
<1>6. ThreadsInStage(m, k, "interior")'
  BY <1>1, <1>2, <1>3, <1>4, <1>5, ThreadsMove
<1>7. PICK b : b = Task("inner", m, k)
  OBVIOUS
<1>8. b \in Tasks \ {InitTask} /\ b.kind = "inner" /\ b.matrix = m /\ b.offset = k /\ Absent(b)
  BY <1>2, <1>7, Kinds, TaskIn, TaskStage
<1>9. Acting("count", m, k)' = {}
  <2>1. ASSUME NEW u \in Threads, u \in Acting("count", m, k)' PROVE FALSE
    <3>1. u # t /\ pc'[u] = "count" /\ IterationMatrix(u)' = m /\ Offset(u)' = k
      BY <1>1, <2>1 DEF Acting, IterationLabels
    <3>2. pc[u] = "count" /\ task'[u] = task[u] /\ chunk'[u] = chunk[u]
      BY <1>1, <3>1 DEF OthersKept, ThreadKept
    <3>3. IterationMatrix(u) = m /\ Offset(u) = k
      BY <3>1, <3>2, IterationPlace
    <3>4. task[u] \in Tasks \ {InitTask} /\ task[u].kind = "inner"
      BY <3>2, ThreadTask
    <3>5. task[u].matrix = m /\ task[u].offset = k
      BY <3>3, <3>4 DEF IterationMatrix, Matrix, Offset
    <3>6. task[u] = b
      BY <1>7, <3>4, <3>5, TaskParts
    <3>7. QED
      BY <1>8, <3>6 DEF Absent, Live
  <2>2. QED
    BY <2>1 DEF Acting
<1>10. \A x \in TileCells(m, k + 1, k + 1) : version'[x] = k
  <2>1. ASSUME NEW x \in TileCells(m, k + 1, k + 1) PROVE version'[x] = k
    <3>1. x \in Cells /\ x[1] = m /\ x[2] = k + 1 /\ x[4] = k + 1
      BY <1>2, <1>3, InTile
    <3>2. Updated(x, k) /\ Owner(x, k) = b
      BY <1>3, <1>7, <3>1 DEF Updated, Final, Owner
    <3>3. ~Done(Owner(x, k), OwnerChunk(x, k))
      BY <1>8, <3>2 DEF Done, Absent
    <3>4. version[x] = k
      BY <3>1, <3>2, <3>3, Versions DEF StageInv
    <3>5. QED
      BY <1>1, <3>4
  <2>2. QED
    BY <2>1
<1>11. SyncInStage(m, k, "interior")'
  <2>1. {x \in TileCells(m, k + 1, k + 1) : version'[x] = k} = TileCells(m, k + 1, k + 1)
    BY <1>10
  <2>2. Cardinality({x \in TileCells(m, k + 1, k + 1) : version'[x] = k}) = Parts
    BY <2>1, TileFinite
  <2>3. Cardinality(Acting("count", m, k)') = 0
    BY <1>9, FS_EmptySet
  <2>4. sync'[m] = Parts
    BY <1>1, <1>2 DEF StageInv, SyncInStage
  <2>5. QED
    BY <2>2, <2>3, <2>4, Parameters DEF SyncInStage
<1>12. Moved(m, k, "interior")
  BY <1>1, <1>2, <1>3, <1>4, <1>6, <1>11, Kinds, PushMoves
<1>13. QED
  BY <1>2, <1>12

-----------------------------------------------------------------------------
(* A chunk is done.                                                        *)

(* A chunk that ends takes the cells it writes to the version that its     *)
(* being done asks for, and no others.                                     *)
LEMMA ChunkVersions ==
  ASSUME TypeOK, PoolInv, NEW t \in Threads, pc[t] = "run", task[t] # InitTask,
         NEW m, m = Matrix(t), NEW k \in Offsets, NEW s \in Stages, StageInv(m, k, s),
         OthersKept(t), claimed' = claimed, task'[t] = task[t], ~Carries(t)',
         NEW w, w = Operation(t),
         \A x \in Cells : version'[x] = IF x \in Writes(w) THEN version[x] + 1 ELSE version[x]
  PROVE  /\ \A x \in Cells : x[1] = m => version'[x] = VersionIn(k, s, x)'
         /\ \A x \in Writes(w) : version[x] = k /\ x \in Cells /\ x[1] = m
         /\ \A b : b # task[t] => SameDone(b)
<1>1. PICK a : a = task[t]
  OBVIOUS
<1>2. PICK c : c = chunk[t]
  OBVIOUS
<1>3. /\ a \in Tasks \ {InitTask} /\ a.offset = k /\ k + 1 < Tiles /\ c \in 0 .. Size(a) - 1
      /\ w = WorkOf(a, c) /\ w.offset = k /\ IsReady(w) /\ a.matrix = m /\ m \in MatrixIds
  BY <1>1, <1>2, ThreadTask, ChunkReady, TaskParts DEF Matrix
<1>4. \A x : x \in Writes(w) <=> Updated(x, k) /\ Owner(x, k) = a /\ OwnerChunk(x, k) = c
  BY <1>3, ChunkWrites
<1>5. \A x \in Writes(w) : version[x] = k /\ x \in Cells /\ x[1] = m
  BY <1>3, <1>4, UpdatedCell DEF IsReady, Updated
<1>6. \A b : b # a => SameDone(b)
  <2>1. ASSUME NEW b, b # a PROVE SameDone(b)
    BY <1>1, <2>1, DoneStays
  <2>2. QED
    BY <2>1
<1>7. Carries(t) /\ c \in claimed[a]
  BY <1>1, <1>2 DEF Carries, PoolInv, ThreadInv
<1>8. \A u \in Threads \ {t} :
        /\ task'[u] = task[u] /\ chunk'[u] = chunk[u]
        /\ Carries(u)' <=> Carries(u)
        /\ task[u] = a /\ Carries(u) => chunk[u] # c
  BY <1>1, <1>2, <1>7, KeptThread DEF OthersKept, ThreadKept, PoolInv, ThreadInv
<1>9. Done(a, c)'
  BY <1>7, <1>8 DEF Done
<1>10. \A d : d # c => (Done(a, d)' <=> Done(a, d))
  <2>1. ASSUME NEW d, d # c, NEW u \in Threads
        PROVE  (task'[u] = a /\ Carries(u)' => chunk'[u] # d)
                 <=> (task[u] = a /\ Carries(u) => chunk[u] # d)
    <3>1. CASE u = t
      BY <1>1, <1>2, <2>1, <3>1
    <3>2. CASE u # t
      BY <1>8, <3>2
    <3>3. QED
      BY <3>1, <3>2
  <2>2. QED
    BY <2>1 DEF Done
<1>11. ASSUME NEW x \in Cells, x[1] = m PROVE version'[x] = VersionIn(k, s, x)'
  <2>1. version[x] = VersionIn(k, s, x)
    BY <1>11 DEF StageInv
  <2>2. CASE x \in Writes(w)
    <3>1. Updated(x, k) /\ Owner(x, k) = a /\ OwnerChunk(x, k) = c /\ version'[x] = k + 1
      BY <1>4, <1>5, <2>2
    <3>2. ~(s = "ahead" /\ x[2] = k + 1 /\ x[4] = k + 1)
      <4>1. ASSUME s = "ahead", x[2] = k + 1, x[4] = k + 1 PROVE FALSE
        BY <1>3, <1>5, <1>11, <2>2, <4>1, InTile, ChunkCounts, FirstTileDone DEF StageInv,
           SyncInStage
      <4>2. QED
        BY <4>1
    <3>3. ~(Final(x) <= k) /\ ~(x[2] = k /\ x[4] = k)
      BY <3>1, Finals, Parameters DEF Offsets, Updated
    <3>4. QED
      BY <1>9, <3>1, <3>2, <3>3 DEF VersionIn
  <2>3. CASE x \notin Writes(w)
    <3>1. version'[x] = version[x]
      BY <2>3
    <3>2. CASE Updated(x, k)
      <4>1. PICK b : b = Owner(x, k)
        OBVIOUS
      <4>2. PICK d : d = OwnerChunk(x, k)
        OBVIOUS
      <4>3. b # a \/ d # c
        BY <1>4, <2>3, <3>2, <4>1, <4>2
      <4>4. Done(b, d)' <=> Done(b, d)
        BY <1>6, <1>10, <4>3 DEF SameDone
      <4>5. QED
        BY <2>1, <3>1, <4>1, <4>2, <4>4 DEF VersionIn
    <3>3. CASE ~Updated(x, k)
      BY <2>1, <3>1, <3>3, Versions DEF VersionIn
    <3>4. QED
      BY <3>2, <3>3
  <2>4. QED
    BY <2>2, <2>3
<1>12. QED
  BY <1>1, <1>5, <1>6, <1>11

(* A thread goes on in the loop of its task.                               *)
LEMMA LoopKeeps ==
  ASSUME TypeOK, PoolInv, NEW t \in Threads, OthersKept(t), task[t] \in Tasks,
         task'[t] = task[t], claimed' = claimed, queued' = queued,
         pc[t] \notin FinishLabels, pc'[t] \notin FinishLabels, NEW a \in Tasks \ {InitTask}
  PROVE  /\ Live(a)' <=> Live(a)
         /\ Absent(a)' <=> Absent(a)
         /\ Running(a)' <=> Running(a)
<1>1. \A u \in Threads : task'[u] = task[u]
  BY DEF OthersKept, ThreadKept
<1>2. \A u \in Threads : pc'[u] \in FinishLabels <=> pc[u] \in FinishLabels
  BY DEF OthersKept, ThreadKept
<1>3. (\E u \in Threads : task'[u] = a) <=> (\E u \in Threads : task[u] = a)
  BY <1>1
<1>4. (\E u \in Threads : task'[u] = a /\ pc'[u] \notin FinishLabels)
        <=> (\E u \in Threads : task[u] = a /\ pc[u] \notin FinishLabels)
  BY <1>1, <1>2
<1>5. Live(a)' <=> Live(a)
  BY <1>3 DEF Live
<1>6. QED
  BY <1>4, <1>5 DEF Absent, Running

(* A thread in the loop of a task creates none and ends none.              *)
LEMMA LoopTasks ==
  ASSUME TypeOK, PoolInv, NEW t \in Threads, OthersKept(t), task[t] \in Tasks,
         task'[t] = task[t], claimed' = claimed, queued' = queued,
         pc[t] \notin FinishLabels, pc'[t] \notin FinishLabels, NEW m, NEW k, NEW s, NEW r,
         TasksInStage(m, k, s), CreatedKinds(r) = CreatedKinds(s), RunningKinds(r) = RunningKinds(s)
  PROVE  TasksInStage(m, k, r)'
BY LoopKeeps DEF TasksInStage

(* What a thread does in the loop of a task leaves the other matrices.     *)
LEMMA LoopOthers ==
  ASSUME TypeOK, PoolInv, NEW t \in Threads, OthersKept(t), task[t] \in Tasks \ {InitTask},
         task'[t] = task[t], chunk' = chunk, claimed' = claimed, queued' = queued,
         NEW m \in MatrixIds, m = Matrix(t), \A n \in MatrixIds \ {m} : sync'[n] = sync[n],
         \A x \in Cells : x[1] # m => version'[x] = version[x]
  PROVE  (\A n \in MatrixIds \ {m} : SameMatrix(n)) /\ SameDone(InitTask)
<1>1. SameDone(InitTask)
  BY DoneStays
<1>2. \A n \in MatrixIds \ {m} : Done(InitTask, n)' <=> Done(InitTask, n)
  BY <1>1 DEF SameDone
<1>3. IterationMatrix(t) = m /\ IterationMatrix(t)' = m
  BY IterationPlace DEF IterationMatrix
<1>4. task[t].matrix = m /\ task'[t] \in {task[t], NoTask}
  BY DEF Matrix
<1>5. QED
  BY <1>1, <1>2, <1>3, <1>4, OtherMatrices

(* A chunk of a border.                                                    *)
LEMMA BorderChunkMoves ==
  ASSUME TypeOK, PoolInv, NEW t \in Threads, pc[t] = "run", task[t] # InitTask,
         task[t].kind # "inner", End(t, "claim"), NEW m, m = Matrix(t),
         NEW k \in Offsets, NEW s \in Stages, StageInv(m, k, s)
  PROVE  m \in MatrixIds /\ s \notin {"first", "done"} /\ Moved(m, k, s)
<1>1. PICK w : w = Operation(t)
  OBVIOUS
<1>2. /\ OthersKept(t) /\ pc'[t] = "claim"
      /\ UNCHANGED <<queued, open, claimed, is_finished, task, chunk, sync, pending>>
      /\ \A x \in Cells : version'[x] = IF x \in Writes(w) THEN version[x] + 1 ELSE version[x]
  BY <1>1, EndEffect
<1>3. PICK a : a = task[t]
  OBVIOUS
<1>4. /\ a \in Tasks \ {InitTask} /\ a.kind \in {"left", "top"} /\ m \in MatrixIds
      /\ a.matrix = m /\ a.offset = k
  BY <1>3, ThreadTask, TaskParts, ChunkReady DEF Matrix
<1>5. s \in {"pushTop", "borders"}
  BY <1>3, <1>4, TaskStage, RunningStages DEF Running, FinishLabels
<1>6. ~Carries(t)'
  BY <1>2 DEF Carries
<1>7. /\ \A x \in Cells : x[1] = m => version'[x] = VersionIn(k, s, x)'
      /\ \A x \in Writes(w) : version[x] = k /\ x \in Cells /\ x[1] = m
  BY <1>1, <1>2, <1>6, ChunkVersions
<1>8. (\A n \in MatrixIds \ {m} : SameMatrix(n)) /\ SameDone(InitTask)
  BY <1>2, <1>3, <1>4, <1>7, LoopOthers
<1>9. pc[t] \notin FinishLabels /\ pc'[t] \notin FinishLabels
  BY <1>2 DEF FinishLabels
<1>10. TasksInStage(m, k, s)'
  BY <1>2, <1>3, <1>4, <1>9, LoopTasks DEF StageInv
<1>11. ThreadsInStage(m, k, s)'
  BY <1>2, ThreadsKept DEF StageInv, DriverLabels, IterationLabels
<1>12. SyncInStage(m, k, s)'
  <2>1. \A kind \in CreatedKinds(s) : Live(Task(kind, m, k))' <=> Live(Task(kind, m, k))
    <3>1. CreatedKinds(s) \subseteq {"left", "top", "inner"}
      BY <1>5, Kinds
    <3>2. ASSUME NEW kind \in CreatedKinds(s)
          PROVE  Live(Task(kind, m, k))' <=> Live(Task(kind, m, k))
      <4>1. PICK b : b = Task(kind, m, k)
        OBVIOUS
      <4>2. b \in Tasks \ {InitTask}
        BY <1>4, <3>1, <4>1, TaskIn
      <4>3. Live(b)' <=> Live(b)
        BY <1>2, <1>3, <1>4, <1>9, <4>2, LoopKeeps
      <4>4. QED
        BY <4>1, <4>3
    <3>3. QED
      BY <3>2
  <2>2. sync'[m] = IF \A kind \in CreatedKinds(s) : Live(Task(kind, m, k))' THEN 0 ELSE 1
    BY <1>2, <1>5, <2>1 DEF StageInv, SyncInStage
  <2>3. QED
    BY <1>5, <2>2 DEF SyncInStage
<1>13. Done(InitTask, m)'
  BY <1>5, <1>8 DEF SameDone, StageInv
<1>14. StageInv(m, k, s)'
  BY <1>5, <1>7, <1>10, <1>11, <1>12, <1>13 DEF StageInv
<1>15. QED
  BY <1>4, <1>5, <1>8, <1>14 DEF Moved

(* The threads and the cells that synchronisation_var counts.              *)
LEMMA CountedFinite ==
  ASSUME NEW m, NEW k
  PROVE  /\ IsFiniteSet(Acting("count", m, k))
         /\ IsFiniteSet({x \in TileCells(m, k + 1, k + 1) : version[x] = k})
         /\ Cardinality(Acting("count", m, k)) \in Nat
         /\ Cardinality({x \in TileCells(m, k + 1, k + 1) : version[x] = k}) \in Nat
BY ThreadsFinite, TileFinite, FS_CardinalityType DEF Acting

(* A block of the interior: one of the first tile is counted afterwards.   *)
LEMMA InteriorChunkMoves ==
  ASSUME TypeOK, PoolInv, NEW t \in Threads, pc[t] = "run", task[t] # InitTask,
         task[t].kind = "inner",
         End(t, IF InFirstTile(Offset(t), chunk[t]) THEN "count" ELSE "claim"),
         NEW m, m = Matrix(t), NEW k \in Offsets, NEW s \in Stages, StageInv(m, k, s)
  PROVE  m \in MatrixIds /\ s \notin {"first", "done"} /\ Moved(m, k, s)
<1>1. PICK w : w = Operation(t)
  OBVIOUS
<1>2. PICK c : c = chunk[t]
  OBVIOUS
<1>3. PICK a : a = task[t]
  OBVIOUS
<1>4. /\ a \in Tasks \ {InitTask} /\ m \in MatrixIds /\ a.matrix = m /\ a.offset = k
      /\ Offset(t) = k /\ k + 1 < Tiles /\ c \in 0 .. Size(a) - 1 /\ w = WorkOf(a, c)
      /\ k + 1 \in Offsets
  BY <1>1, <1>2, <1>3, ThreadTask, TaskParts, ChunkReady, ChunkCounts DEF Matrix, Offset
<1>5. /\ OthersKept(t) /\ pc'[t] = IF InFirstTile(k, c) THEN "count" ELSE "claim"
      /\ UNCHANGED <<queued, open, claimed, is_finished, task, chunk, sync, pending>>
      /\ \A x \in Cells : version'[x] = IF x \in Writes(w) THEN version[x] + 1 ELSE version[x]
  <2>1. PICK label : label = IF InFirstTile(k, c) THEN "count" ELSE "claim"
    OBVIOUS
  <2>2. End(t, label)
    BY <1>2, <1>4, <2>1
  <2>3. /\ OthersKept(t) /\ pc'[t] = label
        /\ UNCHANGED <<queued, open, claimed, is_finished, task, chunk, sync, pending>>
        /\ \A x \in Cells : version'[x] = IF x \in Writes(w) THEN version[x] + 1 ELSE version[x]
    BY <1>1, <2>2, EndEffect
  <2>4. QED
    BY <2>1, <2>3
<1>6. s \in {"interior", "diagonal", "ahead"}
  BY <1>3, <1>4, TaskStage, RunningStages DEF Running, FinishLabels
<1>7. ~Carries(t)'
  BY <1>5 DEF Carries
<1>8. /\ \A x \in Cells : x[1] = m => version'[x] = VersionIn(k, s, x)'
      /\ \A x \in Writes(w) : version[x] = k /\ x \in Cells /\ x[1] = m
  BY <1>1, <1>5, <1>7, ChunkVersions
<1>9. (\A n \in MatrixIds \ {m} : SameMatrix(n)) /\ SameDone(InitTask)
  BY <1>3, <1>4, <1>5, <1>8, LoopOthers
<1>10. pc[t] \notin FinishLabels /\ pc'[t] \notin FinishLabels
  BY <1>5 DEF FinishLabels
<1>11. TasksInStage(m, k, s)'
  BY <1>3, <1>4, <1>5, <1>10, LoopTasks DEF StageInv
<1>12. ThreadsInStage(m, k, s)'
  BY <1>5, ThreadsKept DEF StageInv, DriverLabels, IterationLabels
<1> DEFINE A == Acting("count", m, k)
           T == TileCells(m, k + 1, k + 1)
           S == {x \in T : version[x] = k}
           R == {x \in T : version'[x] = k}
<1>13. IsFiniteSet(A) /\ IsFiniteSet(S) /\ Cardinality(A) \in Nat /\ Cardinality(S) \in Nat
  BY CountedFinite
<1>14. \A x \in T : x \in Cells /\ x[1] = m /\ x[2] = k + 1 /\ x[4] = k + 1
  BY <1>4, InTile
<1>15. t \notin A /\ IterationMatrix(t)' = m /\ Offset(t)' = k
  BY <1>3, <1>4, <1>5, IterationPlace DEF IterationMatrix, Matrix, Acting
<1>16. PICK y : /\ y \in Cells /\ y[1] = m /\ Writes(w) = {y}
                /\ InFirstTile(k, c) <=> y[2] = k + 1 /\ y[4] = k + 1
  <2> DEFINE y == <<m, RowOf(k, c) \div Parts, RowOf(k, c) % Parts, ColumnOf(k, c)>>
  <2>1. c \in 0 .. InteriorChunks(k) - 1
    BY <1>3, <1>4, SizeOf
  <2>2. y \in Cells /\ y[1] = m /\ (InFirstTile(k, c) <=> y[2] = k + 1 /\ y[4] = k + 1)
    BY <1>4, <2>1, InteriorCell
  <2>3. Writes(w) = {y}
    BY <1>3, <1>4 DEF Writes, WorkOf, Work
  <2> HIDE DEF y
  <2>4. QED
    BY <2>2, <2>3
<1>17. version[y] = k /\ version'[y] = k + 1 /\ \A x \in T : x # y => version'[x] = version[x]
  BY <1>5, <1>8, <1>14, <1>16
<1>18. /\ InFirstTile(k, c) => Acting("count", m, k)' = A \cup {t}
       /\ ~InFirstTile(k, c) => Acting("count", m, k)' = A
  <2>1. ASSUME NEW u \in Threads \ {t} PROVE u \in Acting("count", m, k)' <=> u \in A
    BY <1>5, IterationPlace DEF OthersKept, ThreadKept, Acting, IterationLabels
  <2>2. t \in Acting("count", m, k)' <=> InFirstTile(k, c)
    BY <1>5, <1>15 DEF Acting, IterationLabels
  <2>3. A \subseteq Threads /\ Acting("count", m, k)' \subseteq Threads
    BY DEF Acting
  <2> HIDE DEF A
  <2>4. QED
    BY <1>15, <2>1, <2>2, <2>3
<1>19. k \in Int
  BY Parameters DEF Offsets
<1>20. sync[m] = Cardinality(A) + Cardinality(S) /\ (s = "interior" <=> sync[m] # 0)
  BY <1>6 DEF StageInv, SyncInStage
<1>21. sync'[m] = Cardinality(Acting("count", m, k)') + Cardinality(R)
  <2>1. CASE InFirstTile(k, c)
    <3>1. y \in S /\ R = S \ {y}
      BY <1>4, <1>16, <1>17, <1>19, <2>1, InTile
    <3> HIDE DEF A, S, R
    <3>2. Cardinality(R) = Cardinality(S) - 1
      BY <1>13, <3>1, FS_RemoveElement
    <3>3. Cardinality(A \cup {t}) = Cardinality(A) + 1
      BY <1>13, <1>15, FS_AddElement
    <3>4. Cardinality(Acting("count", m, k)') = Cardinality(A) + 1
      BY <1>18, <2>1, <3>3
    <3>5. QED
      BY <1>5, <1>13, <1>20, <3>2, <3>4
  <2>2. CASE ~InFirstTile(k, c)
    <3>1. R = S
      BY <1>14, <1>16, <1>17, <2>2
    <3> HIDE DEF A, S, R
    <3>2. QED
      BY <1>5, <1>18, <1>20, <2>2, <3>1
  <2>3. QED
    BY <2>1, <2>2
<1>22. SyncInStage(m, k, s)'
  BY <1>5, <1>6, <1>20, <1>21 DEF SyncInStage
<1>23. Done(InitTask, m)' /\ k + 1 < Tiles
  BY <1>4, <1>6, <1>9 DEF SameDone, StageInv
<1>24. StageInv(m, k, s)'
  BY <1>6, <1>8, <1>11, <1>12, <1>22, <1>23 DEF StageInv
<1>25. QED
  BY <1>4, <1>6, <1>9, <1>24 DEF Moved

(* A block of the first tile is counted, the last one by the thread that   *)
(* goes on with the diagonal tile.                                         *)
LEMMA CountMoves ==
  ASSUME TypeOK, PoolInv, NEW t \in Threads, CountFirstTile(t), NEW m, m = Matrix(t),
         NEW k \in Offsets, NEW s \in Stages, StageInv(m, k, s)
  PROVE  /\ m \in MatrixIds /\ s = "interior" /\ sync[m] \in Nat \ {0}
         /\ Moved(m, k, IF sync[m] = 1 THEN "diagonal" ELSE "interior")
<1>1. /\ pc[t] = "count" /\ OthersKept(t) /\ work' = work
      /\ UNCHANGED <<version, queued, open, claimed, is_finished, task, chunk, pending>>
      /\ sync' = [sync EXCEPT ![m] = sync[m] - 1]
      /\ pc'[t] = IF sync[m] = 1 THEN "diagonal" ELSE "claim"
  BY CountEffect
<1>2. PICK a : a = task[t]
  OBVIOUS
<1>3. /\ a \in Tasks \ {InitTask} /\ a.kind = "inner" /\ m \in MatrixIds /\ a.matrix = m
      /\ a.offset \in Offsets /\ Offset(t) = a.offset /\ IterationMatrix(t) = m
  BY <1>1, <1>2, ThreadTask, TaskParts DEF Matrix, Offset, IterationMatrix
<1>4. /\ Offset(t) = k /\ s \in {"interior", "diagonal", "ahead"}
  BY <1>1, <1>2, <1>3, TaskStage, RunningStages DEF Running, FinishLabels
<1> DEFINE A == Acting("count", m, k)
           S == {x \in TileCells(m, k + 1, k + 1) : version[x] = k}
<1>5. IsFiniteSet(A) /\ Cardinality(A) \in Nat /\ Cardinality(S) \in Nat
  BY CountedFinite
<1>6. t \in A
  BY <1>1, <1>3, <1>4 DEF Acting, IterationLabels
<1>7. sync[m] = Cardinality(A) + Cardinality(S) /\ (s = "interior" <=> sync[m] # 0)
  BY <1>4 DEF StageInv, SyncInStage
<1>8. Acting("count", m, k)' = A \ {t}
  <2>1. ASSUME NEW u \in Threads \ {t} PROVE u \in Acting("count", m, k)' <=> u \in A
    BY <1>1, <2>1, IterationPlace DEF OthersKept, ThreadKept, Acting, IterationLabels
  <2>2. t \notin Acting("count", m, k)'
    BY <1>1 DEF Acting
  <2>3. A \subseteq Threads /\ Acting("count", m, k)' \subseteq Threads
    BY DEF Acting
  <2> HIDE DEF A
  <2>4. QED
    BY <2>1, <2>2, <2>3
<1>9. {x \in TileCells(m, k + 1, k + 1) : version'[x] = k} = S
  BY <1>1
<1>10. sync'[m] = sync[m] - 1 /\ \A n \in MatrixIds \ {m} : sync'[n] = sync[n]
  BY <1>1, <1>3 DEF TypeOK
<1>11. /\ sync[m] \in Nat \ {0} /\ s = "interior"
       /\ sync'[m] = Cardinality(Acting("count", m, k)')
            + Cardinality({x \in TileCells(m, k + 1, k + 1) : version'[x] = k})
  <2> HIDE DEF A, S
  <2>1. Cardinality(A \ {t}) = Cardinality(A) - 1
    BY <1>5, <1>6, FS_RemoveElement
  <2>2. Cardinality(A) # 0
    BY <1>5, <1>6, FS_EmptySet
  <2>3. sync[m] \in Nat \ {0} /\ s = "interior"
    BY <1>5, <1>7, <2>2
  <2>4. sync'[m] = Cardinality(A \ {t}) + Cardinality(S)
    BY <1>5, <1>7, <1>10, <2>1
  <2>5. QED
    BY <1>8, <1>9, <2>3, <2>4
<1> HIDE DEF A, S
<1>12. pc[t] \notin FinishLabels /\ pc'[t] \notin FinishLabels
  BY <1>1 DEF FinishLabels
<1>13. ~Carries(t) /\ ~Carries(t)'
  BY <1>1 DEF Carries
<1>14. \A b : SameDone(b)
  <2>1. ASSUME NEW b PROVE SameDone(b)
    BY <1>1, <1>13, DoneStays
  <2>2. QED
    BY <2>1
<1>15. \A n \in MatrixIds \ {m} : SameMatrix(n)
  BY <1>1, <1>2, <1>3, <1>10, LoopOthers
<1>16. PICK r \in {"interior", "diagonal"} : r = IF sync[m] = 1 THEN "diagonal" ELSE "interior"
  OBVIOUS
<1>17. TasksInStage(m, k, r)'
  BY <1>1, <1>2, <1>3, <1>11, <1>12, Kinds, LoopTasks DEF StageInv
<1>18. ThreadsInStage(m, k, r)'
  <2>1. ThreadsInStage(m, k, s) /\ k \in 0 .. Tiles
    BY Parameters DEF StageInv, Offsets
  <2>2. CASE sync[m] = 1
    <3>1. pc'[t] = "diagonal" /\ r = "diagonal"
      BY <1>1, <1>16, <2>2
    <3>2. t \in Acting(r, m, k)'
      BY <1>1, <1>3, <1>4, <3>1, IterationPlace DEF Acting, IterationLabels
    <3>3. \A i \in 0 .. Tiles : Acting("cas", m, i)' = {}
      BY <1>1, <1>11, <2>1, <3>1, NoCas
    <3>4. QED
      BY <1>1, <1>11, <2>1, <3>1, <3>2, <3>3, ThreadsMove DEF DriverLabels, IterationLabels
  <2>3. CASE sync[m] # 1
    BY <1>1, <1>11, <1>16, <2>1, <2>3, ThreadsKept DEF DriverLabels, IterationLabels
  <2>4. QED
    BY <2>2, <2>3
<1>19. SyncInStage(m, k, r)'
  BY <1>10, <1>11, <1>16 DEF SyncInStage
<1>20. \A x \in Cells : x[1] = m => version'[x] = VersionIn(k, r, x)'
  BY <1>1, <1>3, <1>11, <1>14, <1>16, VersionsMove DEF Stages
<1>21. Done(InitTask, m)' /\ k + 1 < Tiles
  BY <1>11, <1>14 DEF SameDone, StageInv
<1>22. r \notin {"first", "iterate", "done"}
  BY <1>16
<1>23. StageInv(m, k, r)'
  BY <1>17, <1>18, <1>19, <1>20, <1>21, <1>22 DEF StageInv
<1>24. Moved(m, k, r)
  BY <1>15, <1>23 DEF Moved
<1>25. QED
  BY <1>3, <1>11, <1>16, <1>24

(* The diagonal tile of the next iteration is decomposed.                  *)
LEMMA DiagonalMoves ==
  ASSUME TypeOK, PoolInv, NEW t \in Threads, pc[t] = "diagonal", End(t, "claim"),
         NEW m, m = Matrix(t), NEW k \in Offsets, NEW s \in Stages, StageInv(m, k, s)
  PROVE  m \in MatrixIds /\ s = "diagonal" /\ Moved(m, k, "ahead")
<1>1. PICK w : w = Operation(t)
  OBVIOUS
<1>2. /\ OthersKept(t) /\ pc'[t] = "claim"
      /\ UNCHANGED <<queued, open, claimed, is_finished, task, chunk, sync, pending>>
      /\ \A x \in Cells : version'[x] = IF x \in Writes(w) THEN version[x] + 1 ELSE version[x]
  BY <1>1, EndEffect
<1>3. /\ m \in MatrixIds /\ s = "diagonal" /\ Offset(t) = k /\ k + 1 \in Offsets
      /\ k + 1 < Tiles /\ Acting("diagonal", m, k) = {t} /\ k \in 0 .. Tiles
      /\ w = Work("diagonal", m, k + 1, 0) /\ IsReady(w)
  BY <1>1, NextReady, Parameters DEF Offsets
<1>4. Writes(w) = TileCells(m, k + 1, k + 1)
  BY <1>3 DEF Writes, Work
<1>5. \A x \in TileCells(m, k + 1, k + 1) :
        /\ version[x] = k + 1 /\ version'[x] = k + 2
        /\ x \in Cells /\ x[1] = m /\ x[2] = k + 1 /\ x[4] = k + 1
  BY <1>2, <1>3, <1>4, InTile DEF Work, IsReady
<1>6. PICK a : a = task[t]
  OBVIOUS
<1>7. /\ a \in Tasks \ {InitTask} /\ a.matrix = m /\ IterationMatrix(t) = m
  BY <1>6, ThreadTask DEF Matrix, IterationMatrix
<1>8. pc[t] \notin FinishLabels /\ pc'[t] \notin FinishLabels /\ ~Carries(t) /\ ~Carries(t)'
  BY <1>2 DEF FinishLabels, Carries
<1>9. \A b : SameDone(b)
  <2>1. ASSUME NEW b PROVE SameDone(b)
    BY <1>2, <1>8, DoneStays
  <2>2. QED
    BY <2>1
<1>10. \A n \in MatrixIds \ {m} : SameMatrix(n)
  BY <1>2, <1>3, <1>4, <1>5, <1>6, <1>7, LoopOthers
<1>11. TasksInStage(m, k, "ahead")'
  BY <1>2, <1>3, <1>6, <1>7, <1>8, Kinds, LoopTasks DEF StageInv
<1>12. ThreadsInStage(m, k, "ahead")'
  BY <1>2, <1>3, NoCas, ThreadsMove DEF StageInv, DriverLabels, IterationLabels
<1>13. sync[m] = 0 /\ Acting("count", m, k) = {} /\ \A x \in TileCells(m, k + 1, k + 1) : version[x] # k
  BY <1>3, FirstTileDone DEF StageInv, SyncInStage
<1>14. SyncInStage(m, k, "ahead")'
  <2>1. Acting("count", m, k)' = {}
    BY <1>2, <1>13, OthersActing DEF Acting
  <2>2. {x \in TileCells(m, k + 1, k + 1) : version'[x] = k} = {}
    BY <1>3, <1>5
  <2>3. Cardinality({}) = 0
    BY FS_EmptySet
  <2>4. QED
    BY <1>2, <1>13, <2>1, <2>2, <2>3 DEF SyncInStage
<1>15. ASSUME NEW x \in Cells, x[1] = m PROVE version'[x] = VersionIn(k, "ahead", x)'
  <2>1. version[x] = VersionIn(k, s, x)
    BY <1>15 DEF StageInv
  <2>2. \A r \in Stages : VersionIn(k, r, x)' = VersionIn(k, r, x)
    BY <1>9, VersionKept
  <2>3. "ahead" \in Stages
    BY DEF Stages
  <2>4. CASE x \in TileCells(m, k + 1, k + 1)
    <3>1. version[x] = k + 1 /\ version'[x] = k + 2 /\ x[2] = k + 1 /\ x[4] = k + 1
      BY <1>5, <2>4
    <3>2. Updated(x, k)
      BY <1>3, <3>1 DEF Updated, Final
    <3>3. Done(Owner(x, k), OwnerChunk(x, k))
      BY <1>3, <2>1, <3>1, <3>2, Versions
    <3>4. VersionIn(k, "ahead", x) = k + 2
      BY <2>3, <3>1, <3>2, <3>3, Versions
    <3>5. QED
      BY <2>2, <2>3, <3>1, <3>4
  <2>5. CASE x \notin TileCells(m, k + 1, k + 1)
    BY <1>2, <1>3, <1>4, <1>15, <2>1, <2>2, <2>3, <2>5, InTile DEF VersionIn
  <2>6. QED
    BY <2>4, <2>5
<1>16. Done(InitTask, m)'
  BY <1>3, <1>9 DEF SameDone, StageInv
<1>17. StageInv(m, k, "ahead")'
  BY <1>3, <1>11, <1>12, <1>14, <1>15, <1>16 DEF StageInv
<1>18. QED
  BY <1>3, <1>10, <1>17 DEF Moved

(* The diagonal tile of the first iteration is decomposed.                 *)
LEMMA FirstMoves ==
  ASSUME TypeOK, PoolInv, NEW t \in Threads, pc[t] = "run", task[t] = InitTask,
         End(t, "iterate"), NEW m, m = chunk[t],
         NEW k \in Offsets, NEW s \in Stages, StageInv(m, k, s)
  PROVE  m \in MatrixIds /\ s = "first" /\ Moved(m, k, "iterate")
<1>1. PICK w : w = Operation(t)
  OBVIOUS
<1>2. /\ OthersKept(t) /\ pc'[t] = "iterate"
      /\ UNCHANGED <<queued, open, claimed, is_finished, task, chunk, sync, pending>>
      /\ \A x \in Cells : version'[x] = IF x \in Writes(w) THEN version[x] + 1 ELSE version[x]
  BY <1>1, EndEffect
<1>3. /\ m \in MatrixIds /\ s = "first" /\ k = 0 /\ w = Work("diagonal", m, 0, 0)
      /\ 0 \in Offsets /\ 0 \in 0 .. Tiles
  BY <1>1, FirstReady, Parameters DEF Offsets
<1>4. Writes(w) = TileCells(m, 0, 0)
  BY <1>3 DEF Writes, Work
<1>5. \A x \in TileCells(m, 0, 0) : x \in Cells /\ x[1] = m /\ x[2] = 0 /\ x[4] = 0
  BY <1>3, InTile
<1>6. Carries(t) /\ ~Carries(t)' /\ m \in claimed[InitTask]
  BY <1>2 DEF Carries, PoolInv, ThreadInv
<1>7. ASSUME NEW a \in Tasks \ {InitTask} PROVE SameTask(a)
  BY <1>2, OtherTask
<1>8. \A u \in Threads \ {t} :
        /\ task'[u] = task[u] /\ chunk'[u] = chunk[u]
        /\ Carries(u)' <=> Carries(u)
        /\ task[u] = InitTask /\ Carries(u) => chunk[u] # m
  BY <1>2, <1>6, KeptThread DEF OthersKept, ThreadKept, PoolInv, ThreadInv
<1>9. Done(InitTask, m)'
  BY <1>2, <1>6, <1>8 DEF Done
<1>10. \A n \in MatrixIds \ {m} : Done(InitTask, n)' <=> Done(InitTask, n)
  <2>1. ASSUME NEW n \in MatrixIds \ {m}, NEW u \in Threads
        PROVE  (task'[u] = InitTask /\ Carries(u)' => chunk'[u] # n)
                 <=> (task[u] = InitTask /\ Carries(u) => chunk[u] # n)
    <3>1. CASE u = t
      BY <1>6, <2>1, <3>1
    <3>2. CASE u # t
      BY <1>8, <3>2
    <3>3. QED
      BY <3>1, <3>2
  <2>2. QED
    BY <1>2, <2>1 DEF Done
<1>11. \A n \in MatrixIds \ {m} : SameMatrix(n)
  <2>1. \A x \in Cells : x[1] # m => version'[x] = version[x]
    BY <1>2, <1>4, <1>5
  <2>2. \A n \in MatrixIds \ {m} : sync'[n] = sync[n]
    BY <1>2
  <2>3. pc[t] \notin StageLabels
    BY DEF StageLabels, DriverLabels, IterationLabels
  <2>4. IterationMatrix(t)' = m
    BY <1>2 DEF IterationMatrix
  <2>5. task'[t] \in {task[t], NoTask} /\ \A a \in Tasks : a \in queued' <=> a \in queued
    BY <1>2
  <2>6. QED
    BY <1>2, <1>3, <1>10, <2>1, <2>2, <2>3, <2>4, <2>5, OtherMatrices
<1>12. "iterate" \in Stages /\ CreatedKinds("iterate") = CreatedKinds(s)
         /\ RunningKinds(s) \subseteq RunningKinds("iterate")
  BY <1>3, Kinds DEF Stages
<1>13. TasksInStage(m, k, "iterate")'
  BY <1>7, <1>12, TasksKept DEF SameTask, KeptTask, StageInv
<1>14. ThreadsInStage(m, k, "iterate")'
  BY <1>2, <1>3, NoCas, ThreadsMove DEF StageInv, Acting, IterationLabels, IterationMatrix,
     IterationOffset, DriverLabels
<1>15. ASSUME NEW x \in Cells, x[1] = m PROVE version'[x] = VersionIn(k, "iterate", x)'
  <2>1. version[x] = VersionIn(k, s, x)
    BY <1>15 DEF StageInv
  <2>2. VersionIn(k, "iterate", x)' = VersionIn(k, "iterate", x)
    BY <1>7, <1>12, VersionKept DEF SameTask
  <2>3. CASE x[2] = 0 /\ x[4] = 0
    <3>1. version[x] = 0 /\ VersionIn(k, "iterate", x) = 1
      BY <1>3, <1>12, <2>1, <2>3, Versions
    <3>2. x \in Writes(w)
      BY <1>3, <1>4, <1>15, <2>3, InTile
    <3>3. QED
      BY <1>2, <2>2, <3>1, <3>2
  <2>4. CASE ~(x[2] = 0 /\ x[4] = 0)
    BY <1>2, <1>3, <1>4, <1>5, <2>1, <2>2, <2>4 DEF VersionIn
  <2>5. QED
    BY <2>3, <2>4
<1>16. SyncInStage(m, k, "iterate")'
  BY DEF SyncInStage
<1>17. StageInv(m, k, "iterate")'
  BY <1>9, <1>13, <1>14, <1>15, <1>16 DEF StageInv
<1>18. QED
  BY <1>3, <1>11, <1>17 DEF Moved

-----------------------------------------------------------------------------
(* The last thread leaves a task.                                          *)

(* The last thread of a task leaves all of its chunks done.                *)
LEMMA LastThread ==
  ASSUME TypeOK, PoolInv, NEW t \in Threads, pc[t] = "leave", NEW a, a = task[t],
         a \in Tasks \ {InitTask}, \A u \in Threads \ {t} : task[u] # a,
         OthersKept(t), task'[t] = a, pc'[t] \in FinishLabels, chunk'[t] = chunk[t],
         claimed' = claimed, queued' = queued
  PROVE  /\ Unclaimed(a) = {} /\ \A c \in 0 .. Size(a) - 1 : Done(a, c)
         /\ Running(a) /\ ~Running(a)' /\ (Live(a)' <=> Live(a)) /\ (Absent(a)' <=> Absent(a))
         /\ \A b : SameDone(b)
         /\ \A b \in Tasks \ {InitTask} : b # a => SameTask(b)
<1>1. ~Carries(t) /\ ~Carries(t)' /\ ~Looping(t) /\ pc[t] \notin FinishLabels
  BY DEF Carries, Looping, FinishLabels
<1>2. a \notin queued /\ Running(a) /\ Live(a)
  BY <1>1, QueuedTask DEF Running, Live
<1>3. Unclaimed(a) = {}
  BY <1>1, <1>2 DEF PoolInv, TaskInv, Absent
<1>4. \A c \in 0 .. Size(a) - 1 : Done(a, c)
  BY <1>1, <1>3 DEF Unclaimed, Done
<1>5. \A b : SameDone(b)
  <2>1. ASSUME NEW b PROVE SameDone(b)
    BY <1>1, DoneStays
  <2>2. QED
    BY <2>1
<1>6. \A u \in Threads : task'[u] = task[u]
  BY DEF OthersKept, ThreadKept
<1>7. (Live(a)' <=> Live(a)) /\ (Absent(a)' <=> Absent(a)) /\ ~Running(a)'
  BY <1>2, <1>6 DEF Live, Absent, Running
<1>8. \A b \in Tasks \ {InitTask} : b # a => SameTask(b)
  <2>1. ASSUME NEW b \in Tasks \ {InitTask}, b # a PROVE SameTask(b)
    BY <2>1, OtherTask
  <2>2. QED
    BY <2>1
<1>9. QED
  BY <1>2, <1>3, <1>4, <1>5, <1>7, <1>8

(* The interior ends when its first tile was counted and its diagonal tile *)
(* decomposed.                                                             *)
LEMMA InteriorEnds ==
  ASSUME TypeOK, PoolInv, NEW t \in Threads, pc[t] = "leave", NEW a, a = task[t],
         a \in Tasks \ {InitTask}, a.kind = "inner", \A u \in Threads \ {t} : task[u] # a,
         NEW m, m = a.matrix, NEW k \in Offsets, NEW s \in Stages, StageInv(m, k, s),
         a.offset = k, Running(a), \A c \in 0 .. Size(a) - 1 : Done(a, c)
  PROVE  /\ s = "ahead" /\ k + 1 < Tiles /\ m \in MatrixIds /\ a = Task("inner", m, k)
         /\ \A x \in Cells : x[1] = m /\ x[2] > k /\ x[4] > k =>
              version[x] = IF x[2] = k + 1 /\ x[4] = k + 1 THEN k + 2 ELSE k + 1
<1>1. s \in {"interior", "diagonal", "ahead"} /\ m \in MatrixIds /\ a = Task("inner", m, k)
  BY TaskStage, RunningStages, TaskParts
<1>2. k + 1 < Tiles /\ k + 1 \in Offsets /\ k \in Nat
  BY <1>1, Parameters DEF StageInv, Offsets
<1>3. ASSUME NEW x \in Cells, x[1] = m, x[2] > k, x[4] > k
      PROVE  version[x] = IF s = "ahead" /\ x[2] = k + 1 /\ x[4] = k + 1 THEN k + 2 ELSE k + 1
  <2>1. Updated(x, k)
    BY <1>2, <1>3, Finals DEF Updated, Final
  <2>2. Owner(x, k) = a
    BY <1>1, <1>2, <1>3, Finals DEF Owner
  <2>3. OwnerChunk(x, k) \in 0 .. Size(a) - 1
    BY <1>2, <1>3, InteriorChunk, SizeOf
  <2>4. Done(Owner(x, k), OwnerChunk(x, k))
    BY <2>2, <2>3
  <2>5. version[x] = VersionIn(k, s, x)
    BY <1>3 DEF StageInv
  <2>6. QED
    BY <2>1, <2>4, <2>5, Versions
<1>4. s # "interior"
  <2>1. ASSUME NEW u \in Threads, u \in Acting("count", m, k) PROVE FALSE
    BY <1>1, <2>1, ThreadTask, TaskParts DEF Acting, IterationLabels, IterationMatrix, Matrix,
       Offset
  <2>2. Acting("count", m, k) = {}
    BY <2>1 DEF Acting
  <2>3. {x \in TileCells(m, k + 1, k + 1) : version[x] = k} = {}
    BY <1>1, <1>2, <1>3, InTile
  <2>4. Cardinality({}) = 0
    BY FS_EmptySet
  <2>5. SyncInStage(m, k, s)
    BY DEF StageInv
  <2>6. sync[m] = Cardinality(Acting("count", m, k))
                    + Cardinality({x \in TileCells(m, k + 1, k + 1) : version[x] = k})
    BY <1>1, <2>5 DEF SyncInStage
  <2>7. sync[m] = 0
    BY ONLY <2>2, <2>3, <2>4, <2>6
  <2>8. QED
    BY <1>1, <2>5, <2>7 DEF SyncInStage
<1>5. s # "diagonal"
  <2>1. SUFFICES ASSUME s = "diagonal" PROVE FALSE
    OBVIOUS
  <2>2. PICK u \in Threads : Acting("diagonal", m, k) = {u}
    BY <2>1, Parameters DEF StageInv, DriverLabels, Offsets, ThreadsInStage
  <2>3. pc[u] = "diagonal" /\ IterationMatrix(u) = m /\ Offset(u) = k
    BY <2>2 DEF Acting, IterationLabels
  <2>4. task[u] \in Tasks \ {InitTask} /\ task[u].kind = "inner"
    BY <2>3, ThreadTask
  <2>5. task[u] = a
    BY <1>1, <2>3, <2>4, TaskParts DEF IterationMatrix, Matrix, Offset
  <2>6. QED
    BY <2>3, <2>5
<1>6. QED
  BY <1>1, <1>2, <1>3, <1>4, <1>5

(* The last thread of the interior starts the next iteration.              *)
LEMMA InteriorMoves ==
  ASSUME TypeOK, PoolInv, NEW t \in Threads, pc[t] = "leave", NEW a, a = task[t],
         a \in Tasks \ {InitTask}, a.kind = "inner", \A u \in Threads \ {t} : task[u] # a,
         OthersKept(t), task'[t] = a, pc'[t] = "iterate", chunk'[t] = chunk[t],
         claimed' = claimed, queued' = queued, version' = version, sync' = sync,
         NEW m, m = a.matrix, NEW k \in Offsets, NEW s \in Stages, StageInv(m, k, s)
  PROVE  m \in MatrixIds /\ s = "ahead" /\ k + 1 \in Offsets /\ Moved(m, k + 1, "iterate")
<1>1. pc'[t] \in FinishLabels
  BY DEF FinishLabels
<1>2. /\ \A c \in 0 .. Size(a) - 1 : Done(a, c)
      /\ Running(a) /\ ~Running(a)'
      /\ \A b : SameDone(b)
      /\ \A b \in Tasks \ {InitTask} : b # a => SameTask(b)
  BY <1>1, LastThread
<1>3. a.offset = k
  BY <1>2, TaskStage
<1>4. /\ s = "ahead" /\ k + 1 < Tiles /\ m \in MatrixIds /\ a = Task("inner", m, k)
      /\ \A x \in Cells : x[1] = m /\ x[2] > k /\ x[4] > k =>
           version[x] = IF x[2] = k + 1 /\ x[4] = k + 1 THEN k + 2 ELSE k + 1
  BY <1>2, <1>3, InteriorEnds
<1>5. k \in Nat /\ k + 1 \in Offsets /\ k + 1 \in 0 .. Tiles /\ k \in 0 .. Tiles
  BY <1>4, Parameters DEF Offsets
<1>6. /\ ThreadsInStage(m, k, s) /\ TasksInStage(m, k, s) /\ Done(InitTask, m)
      /\ \A x \in Cells : x[1] = m => version[x] = VersionIn(k, s, x)
  BY <1>4 DEF StageInv
<1>7. IterationMatrix(t)' = m /\ IterationOffset(t)' = k + 1
  BY <1>3 DEF IterationMatrix, IterationOffset, Matrix, Offset
<1>8. \A n \in MatrixIds \ {m} : SameMatrix(n)
  <2>1. pc[t] \notin StageLabels
    BY DEF StageLabels, DriverLabels, IterationLabels
  <2>2. \A n \in MatrixIds \ {m} : Done(InitTask, n)' <=> Done(InitTask, n)
    BY <1>2 DEF SameDone
  <2>3. \A b \in Tasks \ {InitTask} : b \in queued' <=> b \in queued
    OBVIOUS
  <2>4. \A x \in Cells : x[1] # m => version'[x] = version[x]
    OBVIOUS
  <2>5. \A n \in MatrixIds \ {m} : sync'[n] = sync[n]
    OBVIOUS
  <2>6. QED
    BY <1>4, <1>7, <2>1, <2>2, <2>3, <2>4, <2>5, OtherMatrices
<1>9. TasksInStage(m, k + 1, "iterate")'
  <2>1. ASSUME NEW b \in Tasks \ {InitTask}, b.matrix = m
        PROVE  ~Running(b)' /\ (b.offset > k => Absent(b)')
    <3>1. CASE b = a
      BY <1>2, <1>3, <1>5, <3>1
    <3>2. CASE b # a
      BY <1>2, <1>4, <1>6, <2>1, <3>2, Kinds, TaskParts DEF SameTask, TasksInStage
    <3>3. QED
      BY <3>1, <3>2
  <2>2. CreatedKinds("iterate") = {}
    BY Kinds
  <2>3. \A b \in Tasks \ {InitTask} : b.offset \in Nat /\ (b.offset >= k + 1 => b.offset > k)
    BY <1>5, TaskParts, Parameters DEF Offsets
  <2>4. QED
    BY <1>5, <2>1, <2>2, <2>3 DEF TasksInStage
<1>10. ThreadsInStage(m, k + 1, "iterate")'
  BY <1>4, <1>5, <1>6, <1>7, NoCas, ThreadsMove DEF Acting, IterationLabels, DriverLabels
<1>11. ASSUME NEW x \in Cells, x[1] = m PROVE version'[x] = VersionIn(k + 1, "iterate", x)'
  <2>1. version'[x] = version[x] /\ version[x] = VersionIn(k, s, x) /\ "iterate" \in Stages
    BY <1>6, <1>11 DEF Stages
  <2>2. VersionIn(k + 1, "iterate", x)' = VersionIn(k + 1, "iterate", x)
    BY <1>2, <1>5, <2>1, VersionKept DEF SameTask
  <2>3. x[2] \in Nat /\ x[4] \in Nat /\ Final(x) \in Nat
    BY Finals
  <2>4. CASE Final(x) <= k + 1
    <3>1. VersionIn(k + 1, "iterate", x) = Final(x)
      BY <1>5, <2>1, <2>4, Versions
    <3>2. CASE Final(x) <= k
      BY <2>1, <2>2, <3>1, <3>2, Versions
    <3>3. CASE Final(x) > k
      <4>1. (x[2] = k \/ x[4] = k) /\ x[2] >= k /\ x[4] >= k
        BY <1>5, <2>3, <2>4, <3>3 DEF Final
      <4>2. version[x] = Final(x)
        BY <1>4, <1>11, <4>1, BordersFinal
      <4>3. QED
        BY <2>1, <2>2, <3>1, <4>2
    <3>4. QED
      BY <1>5, <2>3, <3>2, <3>3
  <2>5. CASE Final(x) > k + 1
    <3>1. x[2] > k /\ x[4] > k /\ x[2] >= k + 1 /\ x[4] >= k + 1
      BY <1>5, <2>3, <2>5 DEF Final
    <3>2. version[x] = IF x[2] = k + 1 /\ x[4] = k + 1 THEN k + 2 ELSE k + 1
      BY <1>4, <1>11, <3>1
    <3>3. CASE x[2] = k + 1 /\ x[4] = k + 1
      BY <1>5, <2>1, <2>2, <3>2, <3>3, Versions
    <3>4. CASE ~(x[2] = k + 1 /\ x[4] = k + 1)
      <4>1. Updated(x, k + 1)
        BY <2>5, <3>4 DEF Updated
      <4>2. PICK b : b = Owner(x, k + 1)
        OBVIOUS
      <4>3. b \in Tasks \ {InitTask} /\ b.matrix = m /\ b.offset = k + 1
        BY <1>5, <1>11, <4>1, <4>2, UpdatedCell
      <4>4. Absent(b)
        BY <1>5, <1>6, <4>3 DEF TasksInStage
      <4>5. ~Done(Owner(x, k + 1), OwnerChunk(x, k + 1))
        BY <4>2, <4>4 DEF Absent, Done
      <4>6. VersionIn(k + 1, "iterate", x) = k + 1
        BY <1>5, <2>1, <4>1, <4>5, Versions
      <4>7. QED
        BY <2>1, <2>2, <3>2, <3>4, <4>6
    <3>5. QED
      BY <3>3, <3>4
  <2>6. QED
    BY <1>5, <2>3, <2>4, <2>5
<1>12. Done(InitTask, m)' /\ SyncInStage(m, k + 1, "iterate")'
  BY <1>2, <1>6 DEF SameDone, SyncInStage
<1>13. StageInv(m, k + 1, "iterate")'
  BY <1>9, <1>10, <1>11, <1>12 DEF StageInv
<1>14. QED
  BY <1>4, <1>5, <1>8, <1>13 DEF Moved

(* The last thread of a border goes on with its compare-exchange.          *)
LEMMA BorderEnds ==
  ASSUME TypeOK, PoolInv, NEW t \in Threads, pc[t] = "leave", NEW a, a = task[t],
         a \in Tasks \ {InitTask}, a.kind # "inner", \A u \in Threads \ {t} : task[u] # a,
         OthersKept(t), task'[t] = a, pc'[t] = "cas", chunk'[t] = chunk[t],
         claimed' = claimed, queued' = queued, version' = version, sync' = sync,
         NEW m, m = a.matrix, NEW k \in Offsets, NEW s \in Stages, StageInv(m, k, s)
  PROVE  m \in MatrixIds /\ s \in {"pushTop", "borders"} /\ Moved(m, k, s)
<1>1. pc'[t] \in FinishLabels
  BY DEF FinishLabels
<1>2. /\ Running(a) /\ ~Running(a)' /\ (Live(a)' <=> Live(a)) /\ (Absent(a)' <=> Absent(a))
      /\ \A b : SameDone(b)
      /\ \A b \in Tasks \ {InitTask} : b # a => SameTask(b)
  BY <1>1, LastThread
<1>3. a.offset = k /\ a.kind \in RunningKinds(s) /\ m \in MatrixIds /\ a.kind \in {"left", "top"}
  BY <1>2, TaskStage, TaskParts
<1>4. s \in {"pushTop", "borders"} /\ k \in 0 .. Tiles
  BY <1>3, RunningStages, Parameters DEF Offsets
<1>5. /\ ThreadsInStage(m, k, s) /\ TasksInStage(m, k, s) /\ Done(InitTask, m) /\ k + 1 < Tiles
      /\ SyncInStage(m, k, s) /\ \A x \in Cells : x[1] = m => version[x] = VersionIn(k, s, x)
  BY <1>4 DEF StageInv
<1>6. IterationMatrix(t)' = m /\ Offset(t)' = k
  BY <1>3 DEF IterationMatrix, Matrix, Offset
<1>7. \A n \in MatrixIds \ {m} : SameMatrix(n)
  <2>1. pc[t] \notin StageLabels
    BY DEF StageLabels, DriverLabels, IterationLabels
  <2>2. \A n \in MatrixIds \ {m} : Done(InitTask, n)' <=> Done(InitTask, n)
    BY <1>2 DEF SameDone
  <2>3. \A b \in Tasks \ {InitTask} : b \in queued' <=> b \in queued
    OBVIOUS
  <2>4. \A x \in Cells : x[1] # m => version'[x] = version[x]
    OBVIOUS
  <2>5. \A n \in MatrixIds \ {m} : sync'[n] = sync[n]
    OBVIOUS
  <2>6. QED
    BY <1>3, <1>6, <2>1, <2>2, <2>3, <2>4, <2>5, OtherMatrices
<1>8. TasksInStage(m, k, s)'
  <2>1. ASSUME NEW b \in Tasks \ {InitTask}
        PROVE  (Absent(b)' <=> Absent(b)) /\ (Running(b)' => Running(b))
    BY <1>2 DEF SameTask
  <2>2. QED
    BY <1>5, <2>1 DEF TasksInStage
<1>9. ThreadsInStage(m, k, s)'
  <2>1. ASSUME NEW i \in 0 .. Tiles, t \in Acting("cas", m, i)' PROVE i = k
    BY <1>6, <2>1 DEF Acting, IterationLabels
  <2>2. pc[t] \notin DriverLabels /\ pc'[t] \notin DriverLabels
    BY DEF DriverLabels, IterationLabels
  <2>3. QED
    BY <1>4, <1>5, <2>1, <2>2, DriversKept
<1>10. SyncInStage(m, k, s)'
  <2>1. ASSUME NEW kind \in CreatedKinds(s)
        PROVE  Live(Task(kind, m, k))' <=> Live(Task(kind, m, k))
    BY <1>2, <1>3, <1>4, <2>1, Kinds, TaskIn DEF SameTask
  <2>2. QED
    BY <1>4, <1>5, <2>1 DEF SyncInStage
<1>11. ASSUME NEW x \in Cells, x[1] = m PROVE version'[x] = VersionIn(k, s, x)'
  BY <1>2, <1>5, <1>11, VersionKept
<1>12. StageInv(m, k, s)'
  BY <1>2, <1>4, <1>5, <1>8, <1>9, <1>10, <1>11 DEF SameDone, StageInv
<1>13. QED
  BY <1>3, <1>4, <1>7, <1>12 DEF Moved

-----------------------------------------------------------------------------
(* The steps that leave the stages of all matrices.                        *)

(* A tile operation begins.                                                *)
LEMMA BeginKeeps ==
  ASSUME TypeOK, NEW t \in Threads, NEW w, Begin(t, w)
  PROVE  \A m \in MatrixIds : SameMatrix(m)
<1>1. UNCHANGED <<version, queued, open, claimed, is_finished, pc, task, chunk, sync, pending>>
  BY BeginEffect
<1>2. \A u \in Threads : Carries(u)' <=> Carries(u)
  BY <1>1 DEF Carries
<1>3. \A a : SameDone(a)
  BY <1>1, <1>2 DEF SameDone, Done
<1>4. \A a : SameTask(a)
  BY <1>1, <1>3 DEF SameTask, Live, Absent, Running
<1>5. \A label, m, j : Acting(label, m, j)' = Acting(label, m, j)
  <2>1. ASSUME NEW label, NEW m, NEW j, NEW u \in Threads
        PROVE  /\ pc'[u] = pc[u] /\ IterationMatrix(u)' = IterationMatrix(u)
               /\ IterationOffset(u)' = IterationOffset(u) /\ Offset(u)' = Offset(u)
    BY <1>1, IterationPlace
  <2>2. QED
    BY <2>1 DEF Acting
<1>6. QED
  BY <1>1, <1>3, <1>4, <1>5 DEF SameMatrix, SameDone, SameActing

(* The copy of the diagonal tile is complete.                              *)
LEMMA CopyKeeps ==
  ASSUME TypeOK, PoolInv, NEW t \in Threads, pc[t] = "copy", End(t, LoopLabel(chunk[t])),
         NEW k \in Offsets, NEW s \in Stages, StageInv(Matrix(t), k, s)
  PROVE  \A m \in MatrixIds : SameMatrix(m)
<1>1. PICK label : label = LoopLabel(chunk[t])
  OBVIOUS
<1>2. /\ OthersKept(t) /\ pc'[t] = label /\ work[t] = Operation(t)
      /\ UNCHANGED <<queued, open, claimed, is_finished, task, chunk, sync, pending>>
      /\ version' = [x \in Cells |->
           IF x \in Writes(work[t]) THEN version[x] + 1 ELSE version[x]]
  BY <1>1, EndEffect
<1>3. version' = version
  BY <1>2, CopyReady DEF TypeOK
<1>4. label = IF chunk[t] = NoChunk THEN "claim" ELSE "run"
  BY <1>1 DEF LoopLabel
<1>5. /\ pc[t] \notin FinishLabels /\ pc'[t] \notin FinishLabels /\ (Carries(t)' <=> Carries(t))
      /\ pc[t] \notin StageLabels /\ pc'[t] \notin StageLabels
  BY <1>2, <1>4 DEF FinishLabels, Carries, StageLabels, DriverLabels, IterationLabels
<1>6. PICK b : b = task[t]
  OBVIOUS
<1>7. task'[t] = b /\ chunk'[t] = chunk[t]
  BY <1>2, <1>6
<1>8. SameTask(b)
  BY <1>2, <1>5, <1>6, <1>7, OwnTask
<1>9. ASSUME NEW a, a # b PROVE SameTask(a)
  BY <1>2, <1>6, <1>7, <1>9, OtherTask
<1>10. \A a : SameTask(a)
  BY <1>8, <1>9
<1>11. SameDone(InitTask)
  BY <1>10 DEF SameTask
<1>12. QED
  BY <1>2, <1>3, <1>5, <1>10, <1>11, KeepsAll

(* The pool is finished from a chunk of the first task.                    *)
LEMMA StopKeeps ==
  ASSUME TypeOK, PoolInv, NEW t \in Threads, Stop(t), task[t] = InitTask
  PROVE  \A m \in MatrixIds : SameMatrix(m)
<1>1. /\ pc[t] = "stop" /\ OthersKept(t) /\ pc'[t] = "claim" /\ task' = task
      /\ UNCHANGED <<version, queued, open, claimed, chunk, sync, pending>>
  BY StopEffect DEF Onward
<1>2. /\ ~Carries(t) /\ ~Carries(t)' /\ pc[t] \notin StageLabels /\ pc'[t] \notin StageLabels
  BY <1>1 DEF Carries, StageLabels, DriverLabels, IterationLabels
<1>3. ASSUME NEW a \in Tasks \ {InitTask} PROVE SameTask(a)
  BY <1>1, OtherTask
<1>4. SameDone(InitTask)
  BY <1>1, <1>2, DoneStays
<1>5. QED
  BY <1>1, <1>2, <1>3, <1>4, KeepsAll

-----------------------------------------------------------------------------
(* The stages of all matrices.                                             *)

(* There are finitely many matrices.                                       *)
LEMMA MatricesFinite == \A S \in SUBSET MatrixIds : IsFiniteSet(S) /\ Cardinality(S) \in Nat
<1>1. IsFiniteSet(MatrixIds)
  BY Parameters, FS_Interval DEF MatrixIds
<1>2. QED
  BY <1>1, FS_Subset, FS_CardinalityType

(* The matrices that are not decomposed.                                   *)
Undone(stage) == {m \in MatrixIds : stage[m] # "done"}

(* The stages that matrices are in.                                        *)
InStages(stage, iteration) ==
  /\ stage \in [MatrixIds -> Stages] /\ iteration \in [MatrixIds -> Offsets]
  /\ \A m \in MatrixIds : StageInv(m, iteration[m], stage[m])
  /\ pending = Cardinality(Undone(stage))

(* A step that changes no stage.                                           *)
LEMMA StagesKept ==
  ASSUME StagesInv, \A m \in MatrixIds : SameMatrix(m), pending' = pending
  PROVE  StagesInv'
<1>1. PICK stage \in [MatrixIds -> Stages] : \E iteration \in [MatrixIds -> Offsets] :
        /\ \A m \in MatrixIds : StageInv(m, iteration[m], stage[m])
        /\ pending = Cardinality({m \in MatrixIds : stage[m] # "done"})
  BY DEF StagesInv
<1>2. PICK iteration \in [MatrixIds -> Offsets] :
        /\ \A m \in MatrixIds : StageInv(m, iteration[m], stage[m])
        /\ pending = Cardinality({m \in MatrixIds : stage[m] # "done"})
  BY <1>1
<1>3. ASSUME NEW m \in MatrixIds PROVE StageInv(m, iteration[m], stage[m])'
  <2>1. PICK k \in Offsets, s \in Stages : k = iteration[m] /\ s = stage[m]
    OBVIOUS
  <2>2. StageInv(m, k, s)
    BY <1>2, <2>1
  <2>3. StageInv(m, k, s)'
    BY <2>2, StageKept
  <2>4. QED
    BY <2>1, <2>3
<1>4. pending' = Cardinality({m \in MatrixIds : stage[m] # "done"})
  BY <1>2
<1>5. QED
  BY <1>3, <1>4 DEF StagesInv

(* A step that moves matrix m to stage r of iteration k.                   *)
LEMMA StagesMoved ==
  ASSUME NEW stage, NEW iteration, InStages(stage, iteration),
         NEW m \in MatrixIds, NEW k \in Offsets, NEW r \in Stages, Moved(m, k, r),
         \/ pending' = pending /\ (stage[m] = "done" <=> r = "done")
         \/ pending' = pending - 1 /\ stage[m] # "done" /\ r = "done"
  PROVE  StagesInv'
<1> DEFINE after == [stage EXCEPT ![m] = r]
           later == [iteration EXCEPT ![m] = k]
<1>1. after \in [MatrixIds -> Stages] /\ later \in [MatrixIds -> Offsets]
  BY DEF InStages
<1>2. \A n \in MatrixIds : /\ after[n] = IF n = m THEN r ELSE stage[n]
                           /\ later[n] = IF n = m THEN k ELSE iteration[n]
  BY DEF InStages
<1>3. ASSUME NEW n \in MatrixIds PROVE StageInv(n, later[n], after[n])'
  <2>1. CASE n = m
    BY <1>2, <2>1 DEF Moved
  <2>2. CASE n # m
    <3>1. PICK i \in Offsets, s \in Stages : i = iteration[n] /\ s = stage[n]
      BY DEF InStages
    <3>2. StageInv(n, i, s) /\ SameMatrix(n)
      BY <2>2, <3>1 DEF InStages, Moved
    <3>3. StageInv(n, i, s)'
      BY <3>2, StageKept
    <3>4. after[n] = s /\ later[n] = i
      BY <1>2, <2>2, <3>1
    <3>5. QED
      BY <3>3, <3>4
  <2>3. QED
    BY <2>1, <2>2
<1>4. pending' = Cardinality(Undone(after))
  <2>1. CASE stage[m] = "done" <=> r = "done"
    BY <1>2, <2>1 DEF Undone, InStages
  <2>2. CASE pending' = pending - 1 /\ stage[m] # "done" /\ r = "done"
    <3>1. Undone(after) = Undone(stage) \ {m} /\ m \in Undone(stage)
      BY <1>2, <2>2 DEF Undone
    <3>2. IsFiniteSet(Undone(stage))
      BY MatricesFinite DEF Undone
    <3>3. Cardinality(Undone(stage) \ {m}) = Cardinality(Undone(stage)) - 1
      BY <3>1, <3>2, FS_RemoveElement
    <3>4. QED
      BY <2>2, <3>1, <3>3 DEF InStages
  <2>3. QED
    BY <2>1, <2>2
<1>5. pending' = Cardinality({n \in MatrixIds : after[n] # "done"})
  BY <1>4 DEF Undone
<1> HIDE DEF after, later
<1>6. QED
  BY <1>1, <1>3, <1>5 DEF StagesInv

(* Each matrix has a stage.                                                *)
LEMMA StagesPick == StagesInv => \E stage, iteration : InStages(stage, iteration)
<1>1. SUFFICES ASSUME StagesInv PROVE \E stage, iteration : InStages(stage, iteration)
  OBVIOUS
<1>2. PICK stage \in [MatrixIds -> Stages] : \E iteration \in [MatrixIds -> Offsets] :
        /\ \A m \in MatrixIds : StageInv(m, iteration[m], stage[m])
        /\ pending = Cardinality({m \in MatrixIds : stage[m] # "done"})
  BY <1>1 DEF StagesInv
<1>3. PICK iteration \in [MatrixIds -> Offsets] :
        /\ \A m \in MatrixIds : StageInv(m, iteration[m], stage[m])
        /\ pending = Cardinality({m \in MatrixIds : stage[m] # "done"})
  BY <1>2
<1>4. QED
  BY <1>2, <1>3 DEF InStages, Undone

(* What a matrix in a stage tells.                                         *)
LEMMA StageOf ==
  ASSUME NEW stage, NEW iteration, InStages(stage, iteration), NEW m \in MatrixIds
  PROVE  /\ stage[m] \in Stages /\ iteration[m] \in Offsets
         /\ StageInv(m, iteration[m], stage[m])
         /\ stage[m] # "done" => pending >= 1
         /\ pending \in 0 .. Matrices
         /\ pending = 0 => stage[m] = "done"
<1>1. stage[m] \in Stages /\ iteration[m] \in Offsets /\ StageInv(m, iteration[m], stage[m])
  BY DEF InStages
<1>2. IsFiniteSet(Undone(stage)) /\ Undone(stage) \in SUBSET MatrixIds /\ pending \in Nat
  BY MatricesFinite DEF Undone, InStages
<1>3. IsFiniteSet(MatrixIds) /\ Cardinality(MatrixIds) = Matrices
  BY Parameters, FS_Interval DEF MatrixIds
<1>4. pending <= Matrices
  BY <1>2, <1>3, FS_Subset DEF InStages
<1>5. stage[m] # "done" => pending # 0
  BY <1>2, FS_EmptySet DEF Undone, InStages
<1>6. QED
  BY <1>1, <1>2, <1>4, <1>5, Parameters

-----------------------------------------------------------------------------
(* What each step does to the stages.                                      *)

(* Matrix m, in a stage other than the last, moves to another such stage.  *)
LEMMA StagesGo ==
  ASSUME NEW stage, NEW iteration, InStages(stage, iteration), pending' = pending,
         NEW m \in MatrixIds, NEW k \in Offsets, NEW r \in Stages, Moved(m, k, r),
         stage[m] # "done", r # "done"
  PROVE  StagesInv'
BY StagesMoved

(* A thread leaves its task, the last one goes on with the matrix.         *)
LEMMA EndTaskStages ==
  ASSUME TypeOK, PoolInv, StagesInv, NEW t \in Threads, EndTask(t), UNCHANGED ludVars
  PROVE  StagesInv'
<1>1. UNCHANGED <<version, sync, pending, work>>
  BY DEF ludVars
<1>2. PICK a : a = task[t]
  OBVIOUS
<1>3. /\ pc[t] = "leave" /\ OthersKept(t) /\ a \in Tasks
      /\ queued' = queued /\ claimed' = claimed /\ chunk'[t] = chunk[t]
      /\ \/ /\ a = InitTask \/ \E u \in Threads \ {t} : task[u] = a
            /\ task'[t] = NoTask /\ pc'[t] = "idle"
         \/ /\ a # InitTask /\ \A u \in Threads \ {t} : task[u] # a
            /\ task'[t] = a
            /\ pc'[t] = IF a.kind = "inner" THEN "iterate" ELSE "cas"
  BY <1>1, <1>2, EndTaskEffect
<1>4. CASE task'[t] = NoTask /\ pc'[t] = "idle" /\ (a = InitTask \/ \E u \in Threads \ {t} : task[u] = a)
  BY <1>1, <1>2, <1>3, <1>4, LeaveKeeps, StagesKept
<1>5. CASE /\ a # InitTask /\ \A u \in Threads \ {t} : task[u] # a
           /\ task'[t] = a
           /\ pc'[t] = IF a.kind = "inner" THEN "iterate" ELSE "cas"
  <2>1. PICK stage, iteration : InStages(stage, iteration)
    BY StagesPick
  <2>2. PICK m : m = a.matrix
    OBVIOUS
  <2>3. m \in MatrixIds /\ a \in Tasks \ {InitTask}
    BY <1>3, <1>5, <2>2, TaskParts
  <2>4. PICK k \in Offsets, s \in Stages : k = iteration[m] /\ s = stage[m]
    BY <2>1, <2>3, StageOf
  <2>5. StageInv(m, k, s)
    BY <2>1, <2>3, <2>4, StageOf
  <2>6. CASE a.kind = "inner"
    <3>1. s = "ahead" /\ k + 1 \in Offsets /\ Moved(m, k + 1, "iterate")
      BY <1>1, <1>2, <1>3, <1>5, <2>2, <2>3, <2>5, <2>6, InteriorMoves
    <3>2. "iterate" \in Stages
      BY DEF Stages
    <3>3. QED
      BY <1>1, <2>1, <2>3, <2>4, <3>1, <3>2, StagesGo
  <2>7. CASE a.kind # "inner"
    <3>1. s \in {"pushTop", "borders"} /\ Moved(m, k, s)
      BY <1>1, <1>2, <1>3, <1>5, <2>2, <2>3, <2>5, <2>7, BorderEnds
    <3>2. QED
      BY <1>1, <2>1, <2>3, <2>4, <3>1, StagesGo
  <2>8. QED
    BY <2>6, <2>7
<1>6. QED
  BY <1>3, <1>4, <1>5

(* A step of the pool.                                                     *)
LEMMA PoolStages ==
  ASSUME TypeOK, PoolInv, StagesInv, NEW t \in Threads, PoolStep(t), UNCHANGED ludVars
  PROVE  PoolInv' /\ StagesInv'
<1>1. UNCHANGED <<version, sync, pending, work>>
  BY DEF ludVars
<1>2. CASE StartSingle(t)
  BY <1>2, NotSingle
<1>3. CASE StartLoop(t)
  BY <1>1, <1>3, StartStep, StartKeeps, StagesKept
<1>4. CASE JoinTask(t)
  BY <1>1, <1>4, JoinStep, JoinKeeps, StagesKept
<1>5. CASE ClaimChunk(t)
  BY <1>1, <1>5, ClaimStep, ClaimKeeps, StagesKept
<1>6. CASE EndLoop(t)
  BY <1>1, <1>6, EndLoopStep, EndLoopKeeps, StagesKept
<1>7. CASE EndTask(t)
  BY <1>1, <1>7, EndTaskStep, EndTaskStages
<1>8. CASE Return(t)
  BY <1>1, <1>8, ReturnStep, ReturnKeeps, StagesKept
<1>9. QED
  BY <1>2, <1>3, <1>4, <1>5, <1>6, <1>7, <1>8 DEF PoolStep

(* A thread begins a tile operation.                                       *)
LEMMA BeginStages ==
  ASSUME TypeOK, PoolInv, StagesInv, NEW t \in Threads, pc[t] \in {"copy", "run", "diagonal"},
         Begin(t, Operation(t))
  PROVE  PoolInv' /\ StagesInv'
<1>1. PICK w : w = Operation(t)
  OBVIOUS
<1>2. pending' = pending /\ \A m \in MatrixIds : SameMatrix(m)
  BY <1>1, BeginEffect, BeginKeeps
<1>3. QED
  BY <1>2, BeginStep, StagesKept

(* A border task copies the diagonal tile, or leaves that to do.           *)
LEMMA CopyStages ==
  ASSUME TypeOK, PoolInv, StagesInv, NEW t \in Threads, BorderInit(t)
  PROVE  PoolInv' /\ StagesInv'
<1>1. pc[t] = "copy"
  BY DEF BorderInit
<1>2. CASE Begin(t, Work("copy", Matrix(t), Offset(t), 0))
  BY <1>1, <1>2, BeginStages DEF Operation
<1>3. CASE End(t, LoopLabel(chunk[t]))
  <2>1. PICK stage, iteration : InStages(stage, iteration)
    BY StagesPick
  <2>2. PICK m : m = Matrix(t)
    OBVIOUS
  <2>3. m \in MatrixIds
    BY <1>1, <2>2, ThreadTask, TaskParts DEF Matrix
  <2>4. PICK k \in Offsets, s \in Stages : k = iteration[m] /\ s = stage[m]
    BY <2>1, <2>3, StageOf
  <2>5. StageInv(m, k, s)
    BY <2>1, <2>3, <2>4, StageOf
  <2>6. \A n \in MatrixIds : SameMatrix(n)
    BY <1>1, <1>3, <2>2, <2>5, CopyKeeps
  <2>7. PICK label : label = LoopLabel(chunk[t])
    OBVIOUS
  <2>8. AfterOperation(t, label)
    BY <1>1, <2>7 DEF AfterOperation, LoopLabel
  <2>9. pending' = pending /\ PoolInv'
    BY <1>3, <2>7, <2>8, EndEffect, EndStep
  <2>10. QED
    BY <2>6, <2>9, StagesKept
<1>4. QED
  BY <1>2, <1>3 DEF BorderInit

(* A chunk ends.                                                           *)
LEMMA ChunkStages ==
  ASSUME TypeOK, PoolInv, StagesInv, NEW t \in Threads, pc[t] = "run", End(t, AfterChunk(t))
  PROVE  PoolInv' /\ StagesInv'
<1>1. PICK label : label = AfterChunk(t)
  OBVIOUS
<1>2. PICK a : a = task[t]
  OBVIOUS
<1>3. PICK m : m = IF a = InitTask THEN chunk[t] ELSE Matrix(t)
  OBVIOUS
<1>4. a \in Tasks /\ (a.kind = "init" <=> a = InitTask)
  BY <1>2, ThreadTask
<1>5. PICK c : c = chunk[t]
  OBVIOUS
<1>6. label = IF a = InitTask THEN "iterate"
              ELSE IF a.kind = "inner" /\ InFirstTile(Offset(t), chunk[t]) THEN "count" ELSE "claim"
  BY <1>1, <1>2, <1>4 DEF AfterChunk
<1>7. End(t, label)
  BY <1>1
<1>8. m \in MatrixIds
  <2>1. CASE a = InitTask
    BY <1>2, <1>3, <2>1, InitIsTask DEF TypeOK, MatrixIds
  <2>2. CASE a # InitTask
    BY <1>2, <1>3, <1>4, <2>2, TaskParts DEF Matrix
  <2>3. QED
    BY <2>1, <2>2
<1>9. pending' = pending /\ PoolInv'
  BY <1>2, <1>4, <1>6, <1>7, EndEffect, EndStep DEF AfterOperation
<1>10. PICK stage, iteration : InStages(stage, iteration)
  BY StagesPick
<1>11. PICK k \in Offsets, s \in Stages : k = iteration[m] /\ s = stage[m]
  BY <1>8, <1>10, StageOf
<1>12. StageInv(m, k, s)
  BY <1>8, <1>10, <1>11, StageOf
<1>13. CASE a = InitTask
  <2>1. s = "first" /\ Moved(m, k, "iterate")
    BY <1>2, <1>3, <1>6, <1>7, <1>12, <1>13, FirstMoves
  <2>2. "iterate" \in Stages
    BY DEF Stages
  <2>3. QED
    BY <1>8, <1>9, <1>10, <1>11, <2>1, <2>2, StagesGo
<1>14. CASE a # InitTask /\ a.kind = "inner"
  <2>1. End(t, IF InFirstTile(Offset(t), chunk[t]) THEN "count" ELSE "claim")
    BY <1>6, <1>7, <1>14
  <2>2. s \notin {"first", "done"} /\ Moved(m, k, s)
    BY <1>2, <1>3, <1>12, <1>14, <2>1, InteriorChunkMoves
  <2>3. QED
    BY <1>8, <1>9, <1>10, <1>11, <2>2, StagesGo
<1>15. CASE a # InitTask /\ a.kind # "inner"
  <2>1. s \notin {"first", "done"} /\ Moved(m, k, s)
    BY <1>2, <1>3, <1>6, <1>7, <1>12, <1>15, BorderChunkMoves
  <2>2. QED
    BY <1>8, <1>9, <1>10, <1>11, <2>1, StagesGo
<1>16. QED
  BY <1>13, <1>14, <1>15

(* A chunk begins or ends.                                                 *)
LEMMA RunStages ==
  ASSUME TypeOK, PoolInv, StagesInv, NEW t \in Threads, RunChunk(t)
  PROVE  PoolInv' /\ StagesInv'
<1>1. pc[t] = "run"
  BY DEF RunChunk
<1>2. CASE Begin(t, ChunkWork(t))
  BY <1>1, <1>2, BeginStages DEF Operation
<1>3. CASE End(t, AfterChunk(t))
  BY <1>1, <1>3, ChunkStages
<1>4. QED
  BY <1>2, <1>3 DEF RunChunk

(* The diagonal tile of the next iteration begins or ends.                 *)
LEMMA DiagonalStages ==
  ASSUME TypeOK, PoolInv, StagesInv, NEW t \in Threads, NextDiagonal(t)
  PROVE  PoolInv' /\ StagesInv'
<1>1. pc[t] = "diagonal"
  BY DEF NextDiagonal
<1>2. CASE Begin(t, Work("diagonal", Matrix(t), Offset(t) + 1, 0))
  BY <1>1, <1>2, BeginStages DEF Operation
<1>3. CASE End(t, "claim")
  <2>1. PICK stage, iteration : InStages(stage, iteration)
    BY StagesPick
  <2>2. PICK m : m = Matrix(t)
    OBVIOUS
  <2>3. m \in MatrixIds
    BY <1>1, <2>2, ThreadTask, TaskParts DEF Matrix
  <2>4. PICK k \in Offsets, s \in Stages : k = iteration[m] /\ s = stage[m]
    BY <2>1, <2>3, StageOf
  <2>5. StageInv(m, k, s)
    BY <2>1, <2>3, <2>4, StageOf
  <2>6. s = "diagonal" /\ Moved(m, k, "ahead")
    BY <1>1, <1>3, <2>2, <2>5, DiagonalMoves
  <2>7. AfterOperation(t, "claim") /\ "ahead" \in Stages
    BY DEF AfterOperation, Stages
  <2>8. pending' = pending /\ PoolInv'
    BY <1>3, <2>7, EndEffect, EndStep
  <2>9. QED
    BY <2>1, <2>3, <2>4, <2>6, <2>7, <2>8, StagesGo
<1>4. QED
  BY <1>2, <1>3 DEF NextDiagonal

(* A block of the first tile is counted.                                   *)
LEMMA CountStages ==
  ASSUME TypeOK, PoolInv, StagesInv, NEW t \in Threads, CountFirstTile(t)
  PROVE  PoolInv' /\ StagesInv' /\ sync[Matrix(t)] \in Nat \ {0} /\ Matrix(t) \in MatrixIds
<1>1. pc[t] = "count" /\ pending' = pending
  BY CountEffect
<1>2. PICK stage, iteration : InStages(stage, iteration)
  BY StagesPick
<1>3. PICK m : m = Matrix(t)
  OBVIOUS
<1>4. m \in MatrixIds
  BY <1>1, <1>3, ThreadTask, TaskParts DEF Matrix
<1>5. PICK k \in Offsets, s \in Stages : k = iteration[m] /\ s = stage[m]
  BY <1>2, <1>4, StageOf
<1>6. StageInv(m, k, s)
  BY <1>2, <1>4, <1>5, StageOf
<1>7. PICK r : r = IF sync[m] = 1 THEN "diagonal" ELSE "interior"
  OBVIOUS
<1>8. s = "interior" /\ sync[m] \in Nat \ {0} /\ Moved(m, k, r)
  BY <1>3, <1>6, <1>7, CountMoves
<1>9. r \in Stages /\ r # "done"
  BY <1>7 DEF Stages
<1>10. StagesInv'
  BY <1>1, <1>2, <1>4, <1>5, <1>8, <1>9, StagesGo
<1>11. QED
  BY <1>3, <1>4, <1>8, <1>10, CountStep

(* An iteration starts, or one matrix less is to be decomposed.            *)
LEMMA IterationStages ==
  ASSUME TypeOK, PoolInv, StagesInv, NEW t \in Threads, StartIteration(t)
  PROVE  PoolInv' /\ StagesInv' /\ pending >= 1 /\ IterationMatrix(t) \in MatrixIds
<1>1. pc[t] = "iterate"
  BY IterationEffect
<1>2. PICK stage, iteration : InStages(stage, iteration)
  BY StagesPick
<1>3. PICK m : m = IterationMatrix(t)
  OBVIOUS
<1>4. m \in MatrixIds
  BY <1>1, <1>3, Driver
<1>5. PICK k \in Offsets, s \in Stages : k = iteration[m] /\ s = stage[m]
  BY <1>2, <1>4, StageOf
<1>6. StageInv(m, k, s)
  BY <1>2, <1>4, <1>5, StageOf
<1>7. PICK r : r = IF k + 1 < Tiles THEN "pushLeft" ELSE "done"
  OBVIOUS
<1>8. s = "iterate" /\ IterationOffset(t) = k /\ Moved(m, k, r)
  BY <1>3, <1>6, <1>7, IterationMoves
<1>9. r \in Stages /\ k + 1 \in Int /\ Tiles \in Int
  BY <1>7, Parameters DEF Stages, Offsets
<1>10. pending' = IF k + 1 < Tiles THEN pending ELSE pending - 1
  BY <1>8, <1>9, IterationEffect
<1>11. StagesInv'
  BY <1>2, <1>4, <1>5, <1>7, <1>8, <1>9, <1>10, StagesMoved
<1>12. pending >= 1
  BY <1>2, <1>4, <1>5, <1>8, StageOf
<1>13. QED
  BY <1>3, <1>4, <1>11, <1>12, IterationStep

(* The left border is pushed.                                              *)
LEMMA PushLeftStages ==
  ASSUME TypeOK, PoolInv, StagesInv, NEW t \in Threads, PushLeft(t)
  PROVE  /\ PoolInv' /\ StagesInv'
         /\ Task("left", IterationMatrix(t), IterationOffset(t)) \in Tasks
<1>1. pc[t] = "pushLeft" /\ pending' = pending
  BY PushLeftEffect
<1>2. PICK stage, iteration : InStages(stage, iteration)
  BY StagesPick
<1>3. PICK m : m = IterationMatrix(t)
  OBVIOUS
<1>4. m \in MatrixIds
  BY <1>1, <1>3, Driver
<1>5. PICK k \in Offsets, s \in Stages : k = iteration[m] /\ s = stage[m]
  BY <1>2, <1>4, StageOf
<1>6. StageInv(m, k, s)
  BY <1>2, <1>4, <1>5, StageOf
<1>7. s = "pushLeft" /\ IterationOffset(t) = k /\ Moved(m, k, "pushTop") /\ "pushTop" \in Stages
  BY <1>3, <1>6, PushLeftMoves DEF Stages
<1>8. StagesInv'
  BY <1>1, <1>2, <1>4, <1>5, <1>7, StagesGo
<1>9. PoolInv'
  BY <1>3, <1>6, PushLeftStep
<1>10. QED
  BY <1>3, <1>4, <1>7, <1>8, <1>9, TaskIn

(* The top border is pushed.                                               *)
LEMMA PushTopStages ==
  ASSUME TypeOK, PoolInv, StagesInv, NEW t \in Threads, PushTop(t)
  PROVE  /\ PoolInv' /\ StagesInv'
         /\ Task("top", IterationMatrix(t), IterationOffset(t)) \in Tasks
<1>1. pc[t] = "pushTop" /\ pending' = pending
  BY PushTopEffect
<1>2. PICK stage, iteration : InStages(stage, iteration)
  BY StagesPick
<1>3. PICK m : m = IterationMatrix(t)
  OBVIOUS
<1>4. m \in MatrixIds
  BY <1>1, <1>3, Driver
<1>5. PICK k \in Offsets, s \in Stages : k = iteration[m] /\ s = stage[m]
  BY <1>2, <1>4, StageOf
<1>6. StageInv(m, k, s)
  BY <1>2, <1>4, <1>5, StageOf
<1>7. s = "pushTop" /\ IterationOffset(t) = k /\ Moved(m, k, "borders") /\ "borders" \in Stages
  BY <1>3, <1>6, PushTopMoves DEF Stages
<1>8. StagesInv'
  BY <1>1, <1>2, <1>4, <1>5, <1>7, StagesGo
<1>9. PoolInv'
  BY <1>3, <1>6, PushTopStep
<1>10. QED
  BY <1>3, <1>4, <1>7, <1>8, <1>9, TaskIn

(* All matrices are decomposed when the pool is finished.                  *)
LEMMA StopStages ==
  ASSUME TypeOK, PoolInv, StagesInv, StopInv, NEW t \in Threads, Stop(t)
  PROVE  PoolInv' /\ StagesInv'
<1>1. pc[t] = "stop" /\ pending' = pending
  BY StopEffect
<1>2. CASE task[t] = InitTask
  BY <1>1, <1>2, StopStep, StopKeeps, StagesKept
<1>3. CASE task[t] # InitTask
  <2>1. PICK stage, iteration : InStages(stage, iteration)
    BY StagesPick
  <2>2. PICK m : m = IterationMatrix(t)
    OBVIOUS
  <2>3. m \in MatrixIds
    BY <1>1, <1>3, <2>2, ThreadTask, TaskParts DEF IterationMatrix, Matrix
  <2>4. PICK k \in Offsets : k = iteration[m]
    BY <2>1, <2>3, StageOf
  <2>5. stage[m] = "done"
    BY <1>1, <2>1, <2>3, StageOf DEF StopInv
  <2>6. StageInv(m, k, "done") /\ "done" \in Stages
    BY <2>1, <2>3, <2>4, <2>5, StageOf
  <2>7. Moved(m, k, "done")
    BY <2>2, <2>3, <2>6, StopMoves
  <2>8. StagesInv'
    BY <1>1, <2>1, <2>3, <2>5, <2>6, <2>7, StagesMoved
  <2>9. QED
    BY <2>8, StopStep
<1>4. QED
  BY <1>2, <1>3

(* A border comes to its end as the first or the second.                   *)
LEMMA CompareExchangeStages ==
  ASSUME TypeOK, PoolInv, StagesInv, NEW t \in Threads, CompareExchange(t)
  PROVE  PoolInv' /\ StagesInv' /\ Matrix(t) \in MatrixIds
<1>1. pc[t] = "cas" /\ pending' = pending
  BY CompareExchangeEffect
<1>2. PICK stage, iteration : InStages(stage, iteration)
  BY StagesPick
<1>3. PICK m : m = Matrix(t)
  OBVIOUS
<1>4. m \in MatrixIds
  BY <1>1, <1>3, ThreadTask, TaskParts DEF Matrix
<1>5. PICK k \in Offsets, s \in Stages : k = iteration[m] /\ s = stage[m]
  BY <1>2, <1>4, StageOf
<1>6. StageInv(m, k, s)
  BY <1>2, <1>4, <1>5, StageOf
<1>7. CASE sync[m] = 0
  <2>1. s \notin {"first", "done"} /\ Moved(m, k, s)
    BY <1>3, <1>6, <1>7, FirstBorderMoves
  <2>2. QED
    BY <1>1, <1>2, <1>3, <1>4, <1>5, <2>1, StagesGo, CompareExchangeStep
<1>8. CASE sync[m] # 0
  <2>1. s = "borders" /\ Moved(m, k, "store") /\ "store" \in Stages
    BY <1>3, <1>6, <1>8, SecondBorderMoves DEF Stages
  <2>2. QED
    BY <1>1, <1>2, <1>3, <1>4, <1>5, <2>1, StagesGo, CompareExchangeStep
<1>9. QED
  BY <1>7, <1>8

(* The count of the blocks of the first tile is set.                       *)
LEMMA StoreStages ==
  ASSUME TypeOK, PoolInv, StagesInv, NEW t \in Threads, StoreFirstTile(t)
  PROVE  PoolInv' /\ StagesInv' /\ Matrix(t) \in MatrixIds
<1>1. pc[t] = "store" /\ pending' = pending
  BY StoreEffect
<1>2. PICK stage, iteration : InStages(stage, iteration)
  BY StagesPick
<1>3. PICK m : m = Matrix(t)
  OBVIOUS
<1>4. m \in MatrixIds
  BY <1>1, <1>3, ThreadTask, TaskParts DEF Matrix
<1>5. PICK k \in Offsets, s \in Stages : k = iteration[m] /\ s = stage[m]
  BY <1>2, <1>4, StageOf
<1>6. StageInv(m, k, s)
  BY <1>2, <1>4, <1>5, StageOf
<1>7. s = "store" /\ Moved(m, k, "pushInner") /\ "pushInner" \in Stages
  BY <1>3, <1>6, StoreMoves DEF Stages
<1>8. QED
  BY <1>1, <1>2, <1>3, <1>4, <1>5, <1>7, StagesGo, StoreStep

(* The interior is pushed.                                                 *)
LEMMA PushInnerStages ==
  ASSUME TypeOK, PoolInv, StagesInv, NEW t \in Threads, PushInner(t)
  PROVE  PoolInv' /\ StagesInv' /\ Task("inner", Matrix(t), Offset(t)) \in Tasks
<1>1. pc[t] = "pushInner" /\ pending' = pending
  BY PushInnerEffect
<1>2. PICK stage, iteration : InStages(stage, iteration)
  BY StagesPick
<1>3. PICK m : m = Matrix(t)
  OBVIOUS
<1>4. m \in MatrixIds /\ Offset(t) \in Offsets
  BY <1>1, <1>3, ThreadTask, TaskParts DEF Matrix, Offset
<1>5. PICK k \in Offsets, s \in Stages : k = iteration[m] /\ s = stage[m]
  BY <1>2, <1>4, StageOf
<1>6. StageInv(m, k, s)
  BY <1>2, <1>4, <1>5, StageOf
<1>7. s = "pushInner" /\ Moved(m, k, "interior") /\ "interior" \in Stages
  BY <1>3, <1>6, PushInnerMoves DEF Stages
<1>8. StagesInv'
  BY <1>1, <1>2, <1>4, <1>5, <1>7, StagesGo
<1>9. PoolInv'
  BY <1>3, <1>6, PushInnerStep
<1>10. QED
  BY <1>3, <1>4, <1>8, <1>9, TaskIn

(* PoolInv and StagesInv are preserved.                                    *)
LEMMA StepStages ==
  ASSUME TypeOK, PoolInv, StagesInv, StopInv, NEW t \in Threads, Step(t)
  PROVE  PoolInv' /\ StagesInv'
BY PoolStages, CopyStages, RunStages, CountStages, DiagonalStages, IterationStages, PushLeftStages,
   PushTopStages, StopStages, CompareExchangeStages, StoreStages, PushInnerStages DEF Step

-----------------------------------------------------------------------------
(* The thread that finishes the pool.                                      *)

(* A step that does not come near the end.                                 *)
LEMMA StopKept ==
  ASSUME StopInv, NEW t \in Threads, OthersKept(t), pc'[t] # "stop", pending' = pending,
         is_finished' = is_finished
  PROVE  StopInv'
BY DEF OthersKept, ThreadKept, StopInv

(* The thread that counts the last matrix is the one that finishes the     *)
(* pool.                                                                   *)
LEMMA StopAfterIteration ==
  ASSUME TypeOK, PoolInv, StagesInv, StopInv, NEW t \in Threads, StartIteration(t)
  PROVE  StopInv'
<1>1. pending >= 1 /\ pending \in Int
  BY IterationStages DEF TypeOK
<1>2. ~is_finished /\ \A u \in Threads : pc[u] # "stop"
  BY <1>1 DEF StopInv
<1>3. OthersKept(t) /\ is_finished' = is_finished
  BY IterationEffect
<1>4. \A u \in Threads \ {t} : pc'[u] # "stop"
  BY <1>2, <1>3 DEF OthersKept, ThreadKept
<1>5. pc'[t] = "stop" => pending' = 0
  BY <1>1, IterationEffect DEF Onward
<1>6. QED
  BY <1>2, <1>3, <1>4, <1>5 DEF StopInv

(* The thread that finishes the pool does it once.                         *)
LEMMA StopAfterStop ==
  ASSUME TypeOK, PoolInv, StopInv, NEW t \in Threads, Stop(t)
  PROVE  StopInv'
BY StopEffect DEF Onward, StopInv, OthersKept, ThreadKept

(* The pool does not finish by itself.                                     *)
LEMMA StopAfterPool ==
  ASSUME TypeOK, PoolInv, StopInv, NEW t \in Threads, PoolStep(t), UNCHANGED ludVars
  PROVE  StopInv'
<1>1. UNCHANGED <<version, sync, pending, work>>
  BY DEF ludVars
<1>2. OthersKept(t) /\ pc'[t] # "stop" /\ is_finished' = is_finished
  <2>1. CASE StartSingle(t)
    BY <2>1, NotSingle
  <2>2. CASE StartLoop(t)
    BY <1>1, <2>2, StartEffect
  <2>3. CASE JoinTask(t)
    BY <1>1, <2>3, JoinEffect
  <2>4. CASE ClaimChunk(t)
    BY <1>1, <2>4, ClaimEffect
  <2>5. CASE EndLoop(t)
    BY <1>1, <2>5, EndLoopEffect
  <2>6. CASE EndTask(t)
    BY <1>1, <2>6, EndTaskEffect
  <2>7. CASE Return(t)
    BY <1>1, <2>7, ReturnEffect
  <2>8. QED
    BY <2>1, <2>2, <2>3, <2>4, <2>5, <2>6, <2>7 DEF PoolStep
<1>3. QED
  BY <1>1, <1>2, StopKept

(* A tile operation begins or ends.                                        *)
LEMMA StopAfterWork ==
  ASSUME TypeOK, PoolInv, StopInv, NEW t \in Threads, NEW w, NEW label,
         \/ pc[t] \in {"copy", "run", "diagonal"} /\ Begin(t, w)
         \/ label # "stop" /\ End(t, label)
  PROVE  StopInv'
<1>1. CASE pc[t] \in {"copy", "run", "diagonal"} /\ Begin(t, w)
  BY <1>1, BeginEffect, StopKept
<1>2. CASE label # "stop" /\ End(t, label)
  BY <1>2, EndEffect, StopKept
<1>3. QED
  BY <1>1, <1>2

(* StopInv is preserved.                                                   *)
LEMMA StepStop ==
  ASSUME TypeOK, PoolInv, StagesInv, StopInv, NEW t \in Threads, Step(t)
  PROVE  StopInv'
<1>1. CASE PoolStep(t) /\ UNCHANGED ludVars
  BY <1>1, StopAfterPool
<1>2. CASE BorderInit(t)
  <2>1. PICK w, label : w = Work("copy", Matrix(t), Offset(t), 0) /\ label = LoopLabel(chunk[t])
    OBVIOUS
  <2>2. pc[t] = "copy" /\ label # "stop" /\ (Begin(t, w) \/ End(t, label))
    BY <1>2, <2>1 DEF BorderInit, LoopLabel
  <2>3. QED
    BY <2>2, StopAfterWork
<1>3. CASE RunChunk(t)
  <2>1. PICK w, label : w = ChunkWork(t) /\ label = AfterChunk(t)
    OBVIOUS
  <2>2. pc[t] = "run" /\ (Begin(t, w) \/ End(t, label))
    BY <1>3, <2>1 DEF RunChunk
  <2>3. task[t].kind \in {"init", "left", "top", "inner"}
    BY <2>2, ThreadTask, TaskParts, InitIsTask
  <2>4. label # "stop"
    BY <2>1, <2>3 DEF AfterChunk
  <2>5. QED
    BY <2>2, <2>4, StopAfterWork
<1>4. CASE NextDiagonal(t)
  <2>1. PICK w : w = Work("diagonal", Matrix(t), Offset(t) + 1, 0)
    OBVIOUS
  <2>2. pc[t] = "diagonal" /\ (Begin(t, w) \/ End(t, "claim"))
    BY <1>4, <2>1 DEF NextDiagonal
  <2>3. QED
    BY <2>2, StopAfterWork
<1>5. CASE CountFirstTile(t)
  BY <1>5, CountEffect, StopKept
<1>6. CASE StartIteration(t)
  BY <1>6, StopAfterIteration
<1>7. CASE PushLeft(t)
  BY <1>7, PushLeftEffect, StopKept
<1>8. CASE PushTop(t)
  BY <1>8, PushTopEffect, StopKept DEF Onward
<1>9. CASE Stop(t)
  BY <1>9, StopAfterStop
<1>10. CASE CompareExchange(t)
  BY <1>10, CompareExchangeEffect, StopKept
<1>11. CASE StoreFirstTile(t)
  BY <1>11, StoreEffect, StopKept
<1>12. CASE PushInner(t)
  BY <1>12, PushInnerEffect, StopKept
<1>13. QED
  BY <1>1, <1>2, <1>3, <1>4, <1>5, <1>6, <1>7, <1>8, <1>9, <1>10, <1>11, <1>12 DEF Step

-----------------------------------------------------------------------------
(* The values of the variables.                                            *)

(* What the other invariants say of the next state.                        *)
LEMMA TypeStep ==
  ASSUME PoolInv', version' \in [Cells -> 0 .. Tiles], queued' \subseteq Tasks,
         open' \subseteq Tasks, claimed' \in [Tasks -> SUBSET Nat],
         \A a \in Tasks : claimed'[a] \subseteq 0 .. Size(a) - 1,
         sync' \in [MatrixIds -> 0 .. Parts], pending' \in 0 .. Matrices,
         is_finished' \in BOOLEAN, pc' \in [Threads -> Labels],
         task' \in [Threads -> Tasks \cup {NoTask}], chunk' \in [Threads -> Int],
         work' \in [Threads -> Works \cup {NoWork}]
  PROVE  TypeOK'
<1>1. open' \subseteq Tasks \ queued'
  BY DEF PoolInv, TaskInv
<1>2. ASSUME NEW t \in Threads, pc'[t] = "run" PROVE chunk'[t] \in 0 .. Size(task'[t]) - 1
  <2>1. PICK a : a = task'[t]
    OBVIOUS
  <2>2. PICK c : c = chunk'[t]
    OBVIOUS
  <2>3. ThreadInv(t)'
    BY DEF PoolInv
  <2>4. a \in Tasks
    BY <1>2, <2>1, <2>3 DEF ThreadInv
  <2>5. c \in claimed'[a]
    BY <1>2, <2>1, <2>2, <2>3 DEF ThreadInv, Carries
  <2>6. c \in 0 .. Size(a) - 1
    BY <2>4, <2>5
  <2>7. QED
    BY <2>1, <2>2, <2>6
<1>3. QED
  BY <1>1, <1>2 DEF TypeOK

(* Sizes are numbers.                                                      *)
LEMMA SizeIsNat ==
  ASSUME NEW a \in Tasks
  PROVE  Size(a) \in Int
<1>1. CASE a = InitTask
  BY <1>1, InitIsTask, Parameters
<1>2. CASE a # InitTask
  <2>1. a.offset \in 0 .. Tiles - 1 /\ Tiles \in Nat /\ Parts \in Nat /\ a.kind \in {"left", "top", "inner"}
    BY <1>2, TaskParts, Parameters DEF Offsets
  <2>2. PICK b : b = Tiles - a.offset - 1
    OBVIOUS
  <2>3. b \in Int /\ b * Parts \in Int /\ (b * Parts) * b \in Int
    BY <2>1, <2>2
  <2>4. QED
    BY <2>1, <2>2, <2>3 DEF Size, InteriorChunks, BorderChunks, Rows
<1>3. QED
  BY <1>1, <1>2

(* The types of the variables that a step of the pool changes.             *)
LEMMA PoolTypes ==
  ASSUME TypeOK, PoolInv, NEW t \in Threads, PoolStep(t), UNCHANGED work
  PROVE  /\ queued' \subseteq Tasks /\ open' \subseteq Tasks /\ claimed' \in [Tasks -> SUBSET Nat]
         /\ \A a \in Tasks : claimed'[a] \subseteq 0 .. Size(a) - 1
         /\ is_finished' = is_finished /\ pc' \in [Threads -> Labels]
         /\ task' \in [Threads -> Tasks \cup {NoTask}] /\ chunk' \in [Threads -> Int]
<1> DEFINE Typed ==
         /\ queued' \subseteq Tasks /\ open' \subseteq Tasks /\ claimed' \in [Tasks -> SUBSET Nat]
         /\ \A a \in Tasks : claimed'[a] \subseteq 0 .. Size(a) - 1
         /\ is_finished' = is_finished /\ pc' \in [Threads -> Labels]
         /\ task' \in [Threads -> Tasks \cup {NoTask}] /\ chunk' \in [Threads -> Int]
<1>1. /\ queued \subseteq Tasks /\ open \subseteq Tasks /\ claimed \in [Tasks -> SUBSET Nat]
      /\ \A a \in Tasks : claimed[a] \subseteq 0 .. Size(a) - 1
      /\ pc \in [Threads -> Labels] /\ task \in [Threads -> Tasks \cup {NoTask}]
      /\ chunk \in [Threads -> Int]
  BY DEF TypeOK
<1>2. /\ {"idle", "assist", "claim", "leave", "returned", "run", "copy", "iterate", "cas"} \subseteq Labels
      /\ NoChunk \in Int
  BY DEF Labels, PoolLabels, NoChunk
<1>3. \A a : Entry(a) \in {"copy", "loop"} /\ Exit(a) \in {"idle", "iterate", "cas"} /\ After(a) = "leave"
  BY DEF Entry, Exit, After
<1>4. \A a, c : EntryLabel(a, c) \in {"copy", "claim", "run"}
  BY <1>3 DEF EntryLabel, LoopLabel
<1>5. CASE StartSingle(t)
  BY <1>5, NotSingle
<1>6. CASE StartLoop(t)
  <2>1. PICK a \in queued :
          /\ queued' = queued \ {a}
          /\ open' = open \cup {a}
          /\ task' = [task EXCEPT ![t] = a]
          /\ \/ /\ Size(a) > 0
                /\ Hold(t, 0)
                /\ claimed' = [claimed EXCEPT ![a] = {0}]
                /\ Goto(t, EntryLabel(a, 0))
             \/ /\ Hold(t, NoChunk)
                /\ UNCHANGED claimed
                /\ Goto(t, EntryLabel(a, NoChunk))
    BY <1>6 DEF StartLoop
  <2>2. a \in Tasks /\ is_finished' = is_finished
    BY <1>1, <1>6 DEF StartLoop
  <2>3. pc' \in [Threads -> Labels]
    <3>1. PICK c : pc' = [pc EXCEPT ![t] = EntryLabel(a, c)]
      BY <2>1 DEF Goto
    <3>2. EntryLabel(a, c) \in Labels
      BY <1>2, <1>4
    <3>3. QED
      BY <1>1, <3>1, <3>2
  <2>4. chunk' \in [Threads -> Int]
    BY <1>1, <1>2, <2>1 DEF Hold
  <2>5. task' \in [Threads -> Tasks \cup {NoTask}]
    BY <1>1, <2>1, <2>2
  <2>6. claimed' \in [Tasks -> SUBSET Nat] /\ \A b \in Tasks : claimed'[b] \subseteq 0 .. Size(b) - 1
    <3>1. CASE claimed' = claimed
      BY <1>1, <3>1
    <3>2. CASE Size(a) > 0 /\ claimed' = [claimed EXCEPT ![a] = {0}]
      <4>1. claimed' \in [Tasks -> SUBSET Nat]
        BY <1>1, <3>2
      <4>2. claimed'[a] = {0} /\ \A b \in Tasks \ {a} : claimed'[b] = claimed[b]
        BY <1>1, <2>2, <3>2
      <4>3. Size(a) \in Nat
        BY <2>2, <3>2, SizeIsNat
      <4>4. {0} \subseteq 0 .. Size(a) - 1
        BY <3>2, <4>3
      <4>5. QED
        BY <1>1, <4>1, <4>2, <4>4
    <3>3. QED
      BY <2>1, <3>1, <3>2
  <2>7. QED
    BY <1>1, <2>1, <2>2, <2>3, <2>4, <2>5, <2>6
<1>7. CASE JoinTask(t)
  <2>1. PICK a \in open :
          /\ task' = [task EXCEPT ![t] = a]
          /\ Hold(t, NoChunk)
          /\ Goto(t, "assist") \/ Goto(t, EntryLabel(a, NoChunk))
    BY <1>7 DEF JoinTask
  <2>2. UNCHANGED <<queued, open, claimed, is_finished>>
    BY <1>7 DEF JoinTask
  <2>3. PICK l \in Labels : pc' = [pc EXCEPT ![t] = l]
    BY <1>2, <1>4, <2>1 DEF Goto
  <2>4. QED
    BY <1>1, <1>2, <2>1, <2>2, <2>3 DEF Hold
<1>8. CASE ClaimChunk(t)
  <2>1. PICK a : a = task[t]
    OBVIOUS
  <2>2. a \in Tasks
    BY <1>8, <2>1, ClaimEffect
  <2>3. PICK c \in Unclaimed(a) :
          /\ claimed' = [claimed EXCEPT ![a] = @ \cup {c}]
          /\ Hold(t, c)
          /\ Goto(t, IF pc[t] = "assist" THEN EntryLabel(a, c) ELSE "run")
    BY <1>8, <2>1 DEF ClaimChunk
  <2>4. UNCHANGED <<queued, open, is_finished, task>>
    BY <1>8 DEF ClaimChunk
  <2>5. PICK l \in Labels : pc' = [pc EXCEPT ![t] = l]
    BY <1>2, <1>4, <2>3 DEF Goto
  <2>6. c \in 0 .. Size(a) - 1 /\ c \in Int /\ c \in Nat
    BY <2>2, <2>3, SizeIsNat DEF Unclaimed
  <2>7. claimed' \in [Tasks -> SUBSET Nat] /\ \A b \in Tasks : claimed'[b] \subseteq 0 .. Size(b) - 1
    BY <1>1, <2>2, <2>3, <2>6
  <2>8. chunk' \in [Threads -> Int]
    BY <1>1, <2>3, <2>6 DEF Hold
  <2>9. QED
    BY <1>1, <2>4, <2>5, <2>7, <2>8
<1>9. CASE EndLoop(t)
  BY <1>1, <1>2, <1>3, <1>9 DEF EndLoop, Goto, Hold
<1>10. CASE EndTask(t)
  <2>1. UNCHANGED <<queued, open, claimed, is_finished, chunk>>
    BY <1>10 DEF EndTask
  <2>2. PICK l \in Labels : pc' = [pc EXCEPT ![t] = l]
    BY <1>2, <1>3, <1>10 DEF EndTask, Goto, Leave
  <2>3. task' = task \/ task' = [task EXCEPT ![t] = NoTask]
    BY <1>10 DEF EndTask, Leave
  <2>4. QED
    BY <1>1, <2>1, <2>2, <2>3
<1>11. CASE Return(t)
  BY <1>1, <1>2, <1>11 DEF Return, Goto
<1>12. Typed
  BY <1>5, <1>6, <1>7, <1>8, <1>9, <1>10, <1>11 DEF PoolStep
<1>13. QED
  BY <1>12

(* The operation of a thread can start.                                    *)
LEMMA OperationReady ==
  ASSUME TypeOK, PoolInv, StagesInv, NEW t \in Threads, pc[t] \in {"copy", "run", "diagonal"}
  PROVE  Operation(t) \in Works /\ IsReady(Operation(t))
<1>1. PICK stage, iteration : InStages(stage, iteration)
  BY StagesPick
<1>2. /\ task[t] \in Tasks
      /\ task[t] = InitTask => pc[t] = "run"
  BY ThreadTask
<1>3. PICK m : m = IF task[t] = InitTask THEN chunk[t] ELSE Matrix(t)
  OBVIOUS
<1>4. m \in MatrixIds
  <2>1. CASE task[t] = InitTask
    BY <1>2, <1>3, <2>1, InitIsTask DEF TypeOK, MatrixIds
  <2>2. CASE task[t] # InitTask
    BY <1>2, <1>3, <2>2, TaskParts DEF Matrix
  <2>3. QED
    BY <2>1, <2>2
<1>5. PICK k \in Offsets, s \in Stages : k = iteration[m] /\ s = stage[m]
  BY <1>1, <1>4, StageOf
<1>6. StageInv(m, k, s)
  BY <1>1, <1>4, <1>5, StageOf
<1>7. CASE pc[t] = "copy"
  BY <1>2, <1>3, <1>6, <1>7, CopyReady
<1>8. CASE pc[t] = "run" /\ task[t] = InitTask
  BY <1>3, <1>6, <1>8, FirstReady
<1>9. CASE pc[t] = "run" /\ task[t] # InitTask
  BY <1>3, <1>6, <1>9, ChunkReady
<1>10. CASE pc[t] = "diagonal"
  BY <1>2, <1>3, <1>6, <1>10, NextReady
<1>11. QED
  BY <1>7, <1>8, <1>9, <1>10

(* The types of the variables that a tile operation changes.               *)
LEMMA WorkTypes ==
  ASSUME TypeOK, PoolInv, StagesInv, PoolInv', NEW t \in Threads,
         pc[t] \in {"copy", "run", "diagonal"}, NEW w, NEW label \in Labels,
         \/ w = Operation(t) /\ Begin(t, w)
         \/ End(t, label)
  PROVE  TypeOK'
<1>1. Operation(t) \in Works /\ IsReady(Operation(t))
  BY OperationReady
<1>2. /\ version \in [Cells -> 0 .. Tiles] /\ queued \subseteq Tasks /\ open \subseteq Tasks
      /\ claimed \in [Tasks -> SUBSET Nat]
      /\ \A a \in Tasks : claimed[a] \subseteq 0 .. Size(a) - 1
      /\ sync \in [MatrixIds -> 0 .. Parts] /\ pending \in 0 .. Matrices
      /\ is_finished \in BOOLEAN /\ pc \in [Threads -> Labels]
      /\ task \in [Threads -> Tasks \cup {NoTask}] /\ chunk \in [Threads -> Int]
      /\ work \in [Threads -> Works \cup {NoWork}]
  BY DEF TypeOK
<1>3. CASE w = Operation(t) /\ Begin(t, w)
  BY <1>1, <1>2, <1>3, BeginEffect, TypeStep
<1>4. CASE End(t, label)
  <2>1. /\ work' = [work EXCEPT ![t] = NoWork] /\ work[t] = Operation(t)
        /\ pc' = [pc EXCEPT ![t] = label]
        /\ UNCHANGED <<queued, open, claimed, is_finished, task, chunk, sync, pending>>
        /\ version' = [x \in Cells |->
             IF x \in Writes(work[t]) THEN version[x] + 1 ELSE version[x]]
    BY <1>4, EndEffect
  <2>2. version' \in [Cells -> 0 .. Tiles]
    <3>1. PICK k \in 0 .. Tiles - 1 : \A x \in Writes(work[t]) : version[x] = k
      BY <1>1, <2>1, WorkKinds DEF IsReady, Offsets
    <3>2. \A x \in Cells : (IF x \in Writes(work[t]) THEN version[x] + 1 ELSE version[x]) \in 0 .. Tiles
      BY <1>2, <3>1, Parameters
    <3>3. QED
      BY <2>1, <3>2
  <2>3. work' \in [Threads -> Works \cup {NoWork}] /\ pc' \in [Threads -> Labels]
    BY <1>2, <2>1
  <2>4. QED
    BY <1>2, <2>1, <2>2, <2>3, TypeStep
<1>5. QED
  BY <1>3, <1>4

(* The types of a step that pushes at most one task and goes on.           *)
LEMMA MoveTypes ==
  ASSUME TypeOK, PoolInv', NEW t \in Threads,
         UNCHANGED <<version, open, claimed, chunk, work>>,
         queued' = queued \/ \E b \in Tasks : queued' = queued \cup {b},
         sync' \in [MatrixIds -> 0 .. Parts], pending' \in 0 .. Matrices,
         is_finished' \in BOOLEAN,
         \E l \in Labels : pc' = [pc EXCEPT ![t] = l],
         task' = task \/ task' = [task EXCEPT ![t] = NoTask]
  PROVE  TypeOK'
BY TypeStep DEF TypeOK

(* The labels that steps of the program go to.                             *)
LEMMA AllLabels ==
  {"idle", "claim", "diagonal", "iterate", "pushLeft", "pushTop", "stop", "cas", "store",
   "pushInner", "count", "run", "copy"} \subseteq Labels
BY DEF Labels, PoolLabels

(* The types of the steps that use synchronisation_var and pending.        *)
LEMMA IterationTypes ==
  ASSUME TypeOK, PoolInv, StagesInv, NEW t \in Threads, StartIteration(t)
  PROVE  TypeOK'
<1>1. PoolInv' /\ pending >= 1 /\ IterationMatrix(t) \in MatrixIds
  BY IterationStages
<1>2. UNCHANGED <<version, queued, open, claimed, is_finished, chunk, work>>
  BY IterationEffect
<1>3. sync' \in [MatrixIds -> 0 .. Parts]
  BY IterationEffect, Parameters DEF TypeOK
<1>4. pending' \in 0 .. Matrices
  BY <1>1, IterationEffect, Parameters DEF TypeOK
<1>5. /\ \E l \in Labels : pc' = [pc EXCEPT ![t] = l]
      /\ task' = task \/ task' = [task EXCEPT ![t] = NoTask]
  BY IterationEffect, AllLabels DEF Onward
<1>6. is_finished' \in BOOLEAN
  BY <1>2 DEF TypeOK
<1>7. QED
  BY <1>1, <1>2, <1>3, <1>4, <1>5, <1>6, MoveTypes

(* The types of the step that counts a block.                              *)
LEMMA CountTypes ==
  ASSUME TypeOK, PoolInv, StagesInv, NEW t \in Threads, CountFirstTile(t)
  PROVE  TypeOK'
<1>1. PoolInv' /\ sync[Matrix(t)] \in Nat \ {0} /\ Matrix(t) \in MatrixIds
  BY CountStages
<1>2. /\ UNCHANGED <<version, queued, open, claimed, is_finished, task, chunk, pending>> /\ work' = work
      /\ sync' = [sync EXCEPT ![Matrix(t)] = sync[Matrix(t)] - 1]
      /\ pc' = [pc EXCEPT ![t] = IF sync[Matrix(t)] = 1 THEN "diagonal" ELSE "claim"]
  BY CountEffect
<1>3. sync' \in [MatrixIds -> 0 .. Parts]
  BY <1>1, <1>2, Parameters DEF TypeOK
<1>4. \E l \in Labels : pc' = [pc EXCEPT ![t] = l]
  BY <1>2, AllLabels
<1>5. is_finished' \in BOOLEAN /\ pending' \in 0 .. Matrices
  BY <1>2 DEF TypeOK
<1>6. QED
  BY <1>1, <1>2, <1>3, <1>4, <1>5, MoveTypes

(* The types of the steps of a border that change synchronisation_var.     *)
LEMMA BorderTypes ==
  ASSUME TypeOK, PoolInv, StagesInv, NEW t \in Threads, CompareExchange(t) \/ StoreFirstTile(t)
  PROVE  TypeOK'
<1>1. PoolInv' /\ Matrix(t) \in MatrixIds
  BY CompareExchangeStages, StoreStages
<1>2. /\ UNCHANGED <<version, queued, open, claimed, is_finished, chunk, pending>> /\ work' = work
      /\ \/ sync' = sync
         \/ sync' = [sync EXCEPT ![Matrix(t)] = 1]
         \/ sync' = [sync EXCEPT ![Matrix(t)] = Parts]
      /\ task' = task \/ task' = [task EXCEPT ![t] = NoTask]
  BY CompareExchangeEffect, StoreEffect
<1>3. sync' \in [MatrixIds -> 0 .. Parts]
  BY <1>2, Parameters DEF TypeOK
<1>4. \E l \in Labels : pc' = [pc EXCEPT ![t] = l]
  BY CompareExchangeEffect, StoreEffect, AllLabels
<1>5. is_finished' \in BOOLEAN /\ pending' \in 0 .. Matrices
  BY <1>2 DEF TypeOK
<1>6. QED
  BY <1>1, <1>2, <1>3, <1>4, <1>5, MoveTypes

(* The types of the steps that push a task or finish the pool.             *)
LEMMA PushTypes ==
  ASSUME TypeOK, PoolInv, StagesInv, StopInv, NEW t \in Threads,
         PushLeft(t) \/ PushTop(t) \/ PushInner(t) \/ Stop(t)
  PROVE  TypeOK'
<1>1. PoolInv'
  BY PushLeftStages, PushTopStages, PushInnerStages, StopStages
<1>2. UNCHANGED <<version, open, claimed, chunk, sync, pending>> /\ work' = work
  BY PushLeftEffect, PushTopEffect, PushInnerEffect, StopEffect
<1>3. queued' = queued \/ \E b \in Tasks : queued' = queued \cup {b}
  <2>1. CASE PushLeft(t)
    BY <2>1, PushLeftEffect, PushLeftStages
  <2>2. CASE PushTop(t)
    BY <2>2, PushTopEffect, PushTopStages
  <2>3. CASE PushInner(t)
    BY <2>3, PushInnerEffect, PushInnerStages
  <2>4. CASE Stop(t)
    BY <2>4, StopEffect
  <2>5. QED
    BY <2>1, <2>2, <2>3, <2>4
<1>4. is_finished' \in BOOLEAN
  BY PushLeftEffect, PushTopEffect, PushInnerEffect, StopEffect DEF TypeOK
<1>5. /\ \E l \in Labels : pc' = [pc EXCEPT ![t] = l]
      /\ task' = task \/ task' = [task EXCEPT ![t] = NoTask]
  BY AllLabels, PushLeftEffect, PushTopEffect, PushInnerEffect, StopEffect DEF Onward
<1>6. sync' \in [MatrixIds -> 0 .. Parts] /\ pending' \in 0 .. Matrices
  BY <1>2 DEF TypeOK
<1>7. QED
  BY <1>1, <1>2, <1>3, <1>4, <1>5, <1>6, MoveTypes

(* TypeOK is preserved.                                                    *)
LEMMA StepTypes ==
  ASSUME TypeOK, PoolInv, StagesInv, StopInv, NEW t \in Threads, Step(t)
  PROVE  TypeOK'
<1>1. PoolInv'
  BY StepStages
<1>2. CASE PoolStep(t) /\ UNCHANGED ludVars
  BY <1>1, <1>2, PoolTypes, TypeStep DEF ludVars, TypeOK
<1>3. CASE BorderInit(t)
  <2>1. PICK w, label : w = Work("copy", Matrix(t), Offset(t), 0) /\ label = LoopLabel(chunk[t])
    OBVIOUS
  <2>2. pc[t] = "copy" /\ label \in Labels /\ (Begin(t, w) \/ End(t, label))
    BY <1>3, <2>1, AllLabels DEF BorderInit, LoopLabel
  <2>3. w = Operation(t)
    BY <2>1, <2>2 DEF Operation
  <2>4. QED
    BY <1>1, <2>2, <2>3, WorkTypes
<1>4. CASE RunChunk(t)
  <2>1. PICK w, label : w = ChunkWork(t) /\ label = AfterChunk(t)
    OBVIOUS
  <2>2. pc[t] = "run" /\ (Begin(t, w) \/ End(t, label))
    BY <1>4, <2>1 DEF RunChunk
  <2>3. task[t].kind \in {"init", "left", "top", "inner"}
    BY <2>2, ThreadTask, TaskParts, InitIsTask
  <2>4. label \in Labels
    BY <2>1, <2>3, AllLabels DEF AfterChunk
  <2>5. w = Operation(t)
    BY <2>1, <2>2 DEF Operation
  <2>6. QED
    BY <1>1, <2>2, <2>4, <2>5, WorkTypes
<1>5. CASE NextDiagonal(t)
  <2>1. PICK w : w = Work("diagonal", Matrix(t), Offset(t) + 1, 0)
    OBVIOUS
  <2>2. pc[t] = "diagonal" /\ "claim" \in Labels /\ (Begin(t, w) \/ End(t, "claim"))
    BY <1>5, <2>1, AllLabels DEF NextDiagonal
  <2>3. w = Operation(t)
    BY <2>1, <2>2 DEF Operation
  <2>4. QED
    BY <1>1, <2>2, <2>3, WorkTypes
<1>6. QED
  BY <1>2, <1>3, <1>4, <1>5, CountTypes, IterationTypes, PushTypes, BorderTypes DEF Step

-----------------------------------------------------------------------------
(* The invariant.                                                          *)

(* At first the task that all others come from waits, and every thread is  *)
(* idle.                                                                   *)
LEMMA InitPool ==
  ASSUME Init
  PROVE  /\ queued = {InitTask} /\ open = {} /\ is_finished = FALSE
         /\ claimed \in [Tasks -> SUBSET Nat] /\ \A a \in Tasks : claimed[a] = {}
         /\ \A t \in Threads :
              pc[t] = "idle" /\ task[t] = NoTask /\ chunk[t] = NoChunk /\ work[t] = NoWork
BY DEF Init, PoolInit

(* The initial values of the variables are of their types.                 *)
LEMMA InitTypes == ASSUME Init PROVE TypeOK
<1>1. InitTask \in Tasks /\ "idle" \in Labels /\ NoChunk \in Int
  BY InitIsTask, AllLabels DEF NoChunk
<1>2. queued \subseteq Tasks /\ open \subseteq Tasks \ queued /\ is_finished \in BOOLEAN
  BY <1>1, InitPool
<1>3. /\ pc \in [Threads -> Labels] /\ task \in [Threads -> Tasks \cup {NoTask}]
      /\ chunk \in [Threads -> Int] /\ work \in [Threads -> Works \cup {NoWork}]
  BY <1>1 DEF Init, PoolInit
<1>4. /\ version \in [Cells -> 0 .. Tiles] /\ sync \in [MatrixIds -> 0 .. Parts]
      /\ pending \in 0 .. Matrices
  BY Parameters DEF Init
<1>5. QED
  BY <1>2, <1>3, <1>4, InitPool DEF TypeOK

(* PoolInv holds at first.                                                 *)
LEMMA InitPoolInv == ASSUME Init PROVE PoolInv
<1>1. ASSUME NEW t \in Threads PROVE ThreadInv(t)
  BY InitPool, NoTaskIsNone, InitIsTask DEF Carries, Finishing, FinishLabels, ThreadInv
<1>2. ASSUME NEW a \in Tasks PROVE TaskInv(a)
  <2>1. \A t \in Threads : task[t] # a
    BY InitPool, NoTaskIsNone
  <2>2. CASE a = InitTask
    BY <2>1, <2>2, InitPool, InitIsTask, Parameters DEF TaskInv
  <2>3. CASE a # InitTask
    BY <2>1, <2>3, InitPool DEF Absent, Live, TaskInv
  <2>4. QED
    BY <2>2, <2>3
<1>3. QED
  BY <1>1, <1>2 DEF PoolInv

(* At first every matrix is in the stage "first".                          *)
LEMMA InitStages == ASSUME Init PROVE StagesInv
<1> DEFINE stage == [m \in MatrixIds |-> "first"]
           iteration == [m \in MatrixIds |-> 0]
<1>1. stage \in [MatrixIds -> Stages] /\ iteration \in [MatrixIds -> Offsets] /\ 0 \in Offsets
  BY Parameters DEF Stages, Offsets
<1>2. \A a \in Tasks : \A c : ~Done(a, c)
  BY InitPool DEF Done
<1>3. ASSUME NEW m \in MatrixIds PROVE StageInv(m, 0, "first")
  <2>1. ASSUME NEW a \in Tasks \ {InitTask} PROVE Absent(a) /\ ~Running(a)
    BY InitPool, NoTaskIsNone DEF Absent, Live, Running
  <2>2. TasksInStage(m, 0, "first")
    BY <2>1, Kinds DEF TasksInStage
  <2>3. \A label \in DriverLabels \cup {"cas"} : \A j : Acting(label, m, j) = {}
    BY InitPool DEF Acting, DriverLabels, IterationLabels
  <2>4. ThreadsInStage(m, 0, "first")
    BY <2>3 DEF ThreadsInStage, DriverLabels, IterationLabels
  <2>5. SyncInStage(m, 0, "first")
    BY DEF SyncInStage
  <2>6. ASSUME NEW x \in Cells PROVE version[x] = VersionIn(0, "first", x)
    <3>1. version[x] = 0 /\ Final(x) \in 1 .. Tiles /\ "first" \in Stages
      BY Finals DEF Init, Stages
    <3>2. CASE x[2] = 0 /\ x[4] = 0
      BY <1>1, <3>1, <3>2, Versions
    <3>3. CASE ~(x[2] = 0 /\ x[4] = 0)
      BY <1>1, <1>2, <3>1, <3>3, Parameters, UpdatedCell, Versions DEF Updated
    <3>4. QED
      BY <3>2, <3>3
  <2>7. ~Done(InitTask, m)
    BY <1>2, InitIsTask
  <2>8. QED
    BY <2>2, <2>4, <2>5, <2>6, <2>7 DEF StageInv
<1>4. \A m \in MatrixIds : StageInv(m, iteration[m], stage[m])
  BY <1>3
<1>5. pending = Cardinality({m \in MatrixIds : stage[m] # "done"})
  <2>1. {m \in MatrixIds : stage[m] # "done"} = MatrixIds
    OBVIOUS
  <2>2. Cardinality(MatrixIds) = Matrices
    BY Parameters, FS_Interval DEF MatrixIds
  <2>3. QED
    BY <2>1, <2>2 DEF Init
<1> HIDE DEF stage, iteration
<1>6. QED
  BY <1>1, <1>4, <1>5 DEF StagesInv

(* The inductive invariant.                                                *)
LudInv == TypeOK /\ PoolInv /\ StagesInv /\ StopInv

(* LudInv holds at first.                                                  *)
LEMMA InitInv == Init => LudInv
BY InitPool, InitTypes, InitPoolInv, InitStages DEF StopInv, LudInv

(* Nothing changes.                                                        *)
LEMMA StutterInv == LudInv /\ UNCHANGED vars => LudInv'
<1>1. SUFFICES ASSUME LudInv, UNCHANGED vars PROVE LudInv'
  OBVIOUS
<1>2. UNCHANGED <<version, queued, open, claimed, is_finished, pc, task, chunk, sync, pending, work>>
  BY <1>1 DEF vars, poolVars, ludVars, scheduling
<1>3. \A t \in Threads : /\ (Carries(t)' <=> Carries(t)) /\ (Looping(t)' <=> Looping(t))
                         /\ (Finishing(t)' <=> Finishing(t)) /\ Operation(t)' = Operation(t)
  BY <1>2, KeptThread
<1>4. \A a : SameDone(a)
  BY <1>2, <1>3 DEF SameDone, Done
<1>5. \A a : SameTask(a)
  BY <1>2, <1>4 DEF SameTask, Live, Absent, Running
<1>6. \A label, m, j : Acting(label, m, j)' = Acting(label, m, j)
  <2>1. ASSUME NEW label, NEW m, NEW j, NEW t \in Threads
        PROVE  /\ pc'[t] = pc[t] /\ IterationMatrix(t)' = IterationMatrix(t)
               /\ IterationOffset(t)' = IterationOffset(t) /\ Offset(t)' = Offset(t)
    BY <1>2, IterationPlace
  <2>2. QED
    BY <2>1 DEF Acting
<1>7. StagesInv'
  BY <1>1, <1>2, <1>4, <1>5, <1>6, StagesKept DEF SameMatrix, SameDone, SameActing, LudInv
<1>8. TypeOK' /\ StopInv'
  BY <1>1, <1>2 DEF LudInv, TypeOK, StopInv
<1>9. PoolInv'
  <2>1. ASSUME NEW t \in Threads PROVE ThreadInv(t)'
    BY <1>1, <1>2, <1>3 DEF LudInv, PoolInv, ThreadInv, Unclaimed
  <2>2. ASSUME NEW a \in Tasks PROVE TaskInv(a)'
    BY <1>1, <1>2, <1>3, <1>5 DEF LudInv, PoolInv, TaskInv, Unclaimed, SameTask
  <2>3. QED
    BY <2>1, <2>2 DEF PoolInv
<1>10. QED
  BY <1>7, <1>8, <1>9 DEF LudInv

(* LudInv is inductive.                                                    *)
LEMMA NextInv == LudInv /\ [Next]_vars => LudInv'
<1>1. ASSUME LudInv, NEW t \in Threads, Step(t) PROVE LudInv'
  BY <1>1, StepStages, StepTypes, StepStop DEF LudInv
<1>2. QED
  BY <1>1, StutterInv DEF Next

(* LudInv is an invariant.                                                 *)
LEMMA InvAlways == Spec => []LudInv
BY InitInv, NextInv, PTL DEF Spec

-----------------------------------------------------------------------------
(* What the stages say of the tasks.                                       *)

(* A matrix is in one stage, so its tasks are of one iteration.            *)
LEMMA StagesOneIteration == ASSUME LudInv PROVE OneIteration
<1>1. PICK stage, iteration : InStages(stage, iteration)
  BY StagesPick DEF LudInv
<1>2. SUFFICES ASSUME NEW a \in Tasks \ {InitTask}, NEW b \in Tasks \ {InitTask},
                      Running(a), Running(b), a # b, a.matrix = b.matrix
               PROVE  a.offset = b.offset /\ {a.kind, b.kind} = {"left", "top"}
  BY DEF OneIteration
<1>3. PICK m : m = a.matrix
  OBVIOUS
<1>4. m \in MatrixIds /\ b.matrix = m
  BY <1>2, <1>3, TaskParts
<1>5. PICK k \in Offsets, s \in Stages : k = iteration[m] /\ s = stage[m]
  BY <1>1, <1>4, StageOf
<1>6. StageInv(m, k, s)
  BY <1>1, <1>4, <1>5, StageOf
<1>7. a.offset = k /\ b.offset = k /\ a.kind \in RunningKinds(s) /\ b.kind \in RunningKinds(s)
  BY <1>2, <1>3, <1>4, <1>6, TaskStage
<1>8. a.kind # b.kind
  BY <1>2, <1>7, TaskParts
<1>9. QED
  BY <1>7, <1>8 DEF RunningKinds

(* The stages of the interior count as FirstTileCounted says.              *)
LEMMA StagesCounted == ASSUME LudInv PROVE FirstTileCounted
<1> USE DEF LudInv
<1>1. PICK stage, iteration : InStages(stage, iteration)
  BY StagesPick
<1>2. SUFFICES ASSUME NEW a \in Tasks, a.kind = "inner", Running(a)
               PROVE  sync[a.matrix]
                        = Cardinality({t \in Threads : task[t] = a /\ pc[t] = "count"})
                          + Cardinality({x \in TileCells(a.matrix, a.offset + 1, a.offset + 1) :
                                           version[x] = a.offset})
  BY DEF FirstTileCounted
<1>3. PICK m : m = a.matrix
  OBVIOUS
<1>4. m \in MatrixIds /\ a \in Tasks \ {InitTask}
  BY <1>2, <1>3, TaskParts, InitIsTask
<1>5. PICK k \in Offsets, s \in Stages : k = iteration[m] /\ s = stage[m]
  BY <1>1, <1>4, StageOf
<1>6. StageInv(m, k, s)
  BY <1>1, <1>4, <1>5, StageOf
<1>7. a.offset = k /\ s \in {"interior", "diagonal", "ahead"} /\ a = Task("inner", m, k)
  BY <1>2, <1>3, <1>4, <1>6, TaskStage, RunningStages, TaskParts
<1>8. sync[m] = Cardinality(Acting("count", m, k))
                  + Cardinality({x \in TileCells(m, k + 1, k + 1) : version[x] = k})
  BY <1>6, <1>7 DEF StageInv, SyncInStage
<1>9. ASSUME NEW t \in Threads
      PROVE  t \in Acting("count", m, k) <=> task[t] = a /\ pc[t] = "count"
  <2>1. pc[t] = "count" => task[t] \in Tasks \ {InitTask} /\ task[t].kind = "inner"
    BY ThreadTask
  <2>2. pc[t] = "count" => (task[t] = a <=> task[t].matrix = m /\ task[t].offset = k)
    <3>1. SUFFICES ASSUME pc[t] = "count"
                   PROVE  task[t] = a <=> task[t].matrix = m /\ task[t].offset = k
      OBVIOUS
    <3>2. PICK b : b = task[t]
      OBVIOUS
    <3>3. b = Task("inner", b.matrix, b.offset)
      BY <2>1, <3>1, <3>2, TaskParts
    <3>4. a.matrix = m /\ a.offset = k
      BY <1>3, <1>7
    <3>5. QED
      BY <1>7, <3>2, <3>3, <3>4
  <2>3. pc[t] = "count" => IterationMatrix(t) = task[t].matrix /\ Offset(t) = task[t].offset
    BY <2>1 DEF IterationMatrix, Matrix, Offset
  <2>4. QED
    BY <2>2, <2>3 DEF Acting, IterationLabels
<1>10. Acting("count", m, k) = {t \in Threads : task[t] = a /\ pc[t] = "count"}
  BY <1>9 DEF Acting
<1>11. QED
  BY <1>3, <1>7, <1>8, <1>10

PushKind(t) ==
  CASE pc[t] = "pushLeft"  -> "left"
    [] pc[t] = "pushTop"   -> "top"
    [] pc[t] = "pushInner" -> "inner"

(* The task that a thread pushes, and the stage that lets it.              *)
LEMMA PushedTask ==
  ASSUME LudInv, NEW t \in Threads, pc[t] \in {"pushLeft", "pushTop", "pushInner"},
         NEW stage, NEW iteration, InStages(stage, iteration)
  PROVE  \E m \in MatrixIds, k \in Offsets :
           /\ Pushed(t) = Task(PushKind(t), m, k)
           /\ stage[m] = pc[t] /\ iteration[m] = k /\ Acting(pc[t], m, k) = {t}
           /\ Absent(Pushed(t)) /\ Pushed(t) \in Tasks \ {InitTask}
<1> USE DEF LudInv
<1>1. PICK m : m = IterationMatrix(t)
  OBVIOUS
<1>2. /\ m \in MatrixIds
      /\ pc[t] = "pushInner" => m = Matrix(t)
  <2>1. CASE pc[t] = "pushInner"
    BY <1>1, <2>1, ThreadTask, TaskParts DEF IterationMatrix, Matrix
  <2>2. CASE pc[t] # "pushInner"
    BY <1>1, <2>2, Driver
  <2>3. QED
    BY <2>1, <2>2
<1>3. PICK k \in Offsets, s \in Stages : k = iteration[m] /\ s = stage[m]
  BY <1>2, StageOf
<1>4. StageInv(m, k, s)
  BY <1>2, <1>3, StageOf
<1>5. /\ s = pc[t] /\ Acting(s, m, k) = {t}
      /\ k = IF pc[t] = "pushInner" THEN Offset(t) ELSE IterationOffset(t)
  <2>1. CASE pc[t] = "pushInner"
    BY <1>2, <1>4, <2>1, BorderDriver
  <2>2. CASE pc[t] # "pushInner"
    BY <1>1, <1>4, <2>2, DriverStage
  <2>3. QED
    BY <2>1, <2>2
<1>6. PICK kind \in {"left", "top", "inner"} :
        kind = PushKind(t)
  BY DEF PushKind
<1>7. kind \notin CreatedKinds(s) /\ k + 1 < Tiles
  BY <1>4, <1>5, <1>6, Kinds DEF StageInv, PushKind
<1>8. PICK b : b = Task(kind, m, k)
  OBVIOUS
<1>9. Pushed(t) = b
  BY <1>1, <1>5, <1>6, <1>8 DEF Pushed, PushKind
<1>10. Absent(b) /\ b \in Tasks \ {InitTask}
  BY <1>2, <1>4, <1>7, <1>8, CanPush
<1>11. QED
  BY <1>2, <1>3, <1>5, <1>6, <1>8, <1>9, <1>10

(* One thread goes on with a matrix, so a task is pushed by one thread,    *)
(* when it is not there.                                                   *)
LEMMA StagesCreated == ASSUME LudInv PROVE CreatedOnce
<1> USE DEF LudInv
<1>1. PICK stage, iteration : InStages(stage, iteration)
  BY StagesPick
<1>2. SUFFICES ASSUME NEW t \in Threads, pc[t] \in {"pushLeft", "pushTop", "pushInner"}
               PROVE  /\ Pushed(t) \notin queued \cup open /\ claimed[Pushed(t)] = {}
                      /\ \A u \in Threads : task[u] # Pushed(t)
                      /\ \A u \in Threads : pc[u] \in {"pushLeft", "pushTop", "pushInner"} /\ u # t
                           => Pushed(u) # Pushed(t)
  BY DEF CreatedOnce
<1>3. PICK m \in MatrixIds, k \in Offsets :
        /\ Pushed(t) = Task(PushKind(t), m, k)
        /\ stage[m] = pc[t] /\ iteration[m] = k /\ Acting(pc[t], m, k) = {t}
        /\ Absent(Pushed(t)) /\ Pushed(t) \in Tasks \ {InitTask}
  BY <1>1, <1>2, PushedTask
<1>4. /\ Pushed(t) \notin queued \cup open /\ claimed[Pushed(t)] = {}
      /\ \A u \in Threads : task[u] # Pushed(t)
  BY <1>3, AbsentTask
<1>5. ASSUME NEW u \in Threads, pc[u] \in {"pushLeft", "pushTop", "pushInner"},
             Pushed(u) = Pushed(t)
      PROVE  u = t
  <2>1. PICK n \in MatrixIds, j \in Offsets :
          /\ Pushed(u) = Task(PushKind(u), n, j)
          /\ stage[n] = pc[u] /\ iteration[n] = j /\ Acting(pc[u], n, j) = {u}
          /\ Absent(Pushed(u)) /\ Pushed(u) \in Tasks \ {InitTask}
    BY <1>1, <1>5, PushedTask
  <2>2. Pushed(t).matrix = m /\ Pushed(u).matrix = n
    BY <1>3, <2>1 DEF Task
  <2>3. m = n
    BY <1>5, <2>2
  <2>4. pc[u] = pc[t] /\ j = k
    BY <1>3, <2>1, <2>3
  <2>5. QED
    BY <1>3, <2>1, <2>3, <2>4
<1>6. QED
  BY <1>4, <1>5

(* The invariant of the runs follows from the inductive one.               *)
LEMMA InvSync == LudInv => SyncInv
BY StagesOneIteration, StagesCounted, StagesCreated DEF LudInv, SyncInv

(* At any time a matrix is in one stage of one iteration: no task is       *)
(* created twice, synchronisation_var serves one iteration in one role,    *)
(* counts the blocks of the first tile that are left and lets one thread   *)
(* go on from each stage (start_iteration, task_border_finish,             *)
(* task_inner_go and task_inner_finish).                                   *)
THEOREM SyncInvariant == Spec => []SyncInv
BY InvAlways, InvSync, PTL

-----------------------------------------------------------------------------
(* Lud implements LuDecomposition.                                         *)

Working == {work[t] : t \in Threads} \ {NoWork}

(* The mark of a thread without an operation is not an operation.          *)
LEMMA NoWorkIsNone == NoWork \notin Works
BY WorkKinds DEF NoWork

(* A thread that executes an operation.                                    *)
LEMMA WorkingThread ==
  ASSUME TypeOK, PoolInv, StagesInv, NEW t \in Threads, work[t] # NoWork
  PROVE  /\ pc[t] \in {"copy", "run", "diagonal"} /\ work[t] = Operation(t)
         /\ work[t] \in Works /\ IsReady(work[t])
BY OperationReady DEF PoolInv, ThreadInv

(* The kind of an operation tells which label the thread is at, and which  *)
(* task it executes.                                                       *)
LEMMA OperationParts ==
  ASSUME TypeOK, PoolInv, NEW t \in Threads, pc[t] \in {"copy", "run", "diagonal"}
  PROVE  LET w == Operation(t)
         IN  /\ pc[t] = "copy" => w.kind = "copy"
             /\ pc[t] = "diagonal" =>
                  /\ w.kind = "diagonal" /\ w.matrix = Matrix(t) /\ w.offset = Offset(t) + 1
                  /\ task[t] \in Tasks \ {InitTask}
             /\ pc[t] = "run" /\ task[t] = InitTask =>
                  w.kind = "diagonal" /\ w.matrix = chunk[t] /\ w.offset = 0
             /\ pc[t] = "run" /\ task[t] # InitTask =>
                  /\ task[t] \in Tasks \ {InitTask} /\ w.chunk = chunk[t]
                  /\ task[t] = Task(IF w.kind = "interior" THEN "inner" ELSE w.kind,
                                    w.matrix, w.offset)
                  /\ w.kind \in {"left", "top", "interior"}
<1>1. CASE pc[t] = "copy"
  BY <1>1 DEF Operation, Work
<1>2. CASE pc[t] = "diagonal"
  BY <1>2, ThreadTask DEF Operation, Work
<1>3. CASE pc[t] = "run" /\ task[t] = InitTask
  BY <1>3, InitIsTask DEF Operation, ChunkWork, Work
<1>4. CASE pc[t] = "run" /\ task[t] # InitTask
  <2>1. PICK a : a = task[t]
    OBVIOUS
  <2>2. /\ a \in Tasks \ {InitTask} /\ a.kind \in {"left", "top", "inner"}
        /\ a = Task(a.kind, a.matrix, a.offset)
    BY <1>4, <2>1, ThreadTask, TaskParts
  <2>3. Operation(t) = Work(IF a.kind = "inner" THEN "interior" ELSE a.kind,
                            a.matrix, a.offset, chunk[t])
    BY <1>4, <2>1, <2>2 DEF Operation, ChunkWork, Matrix, Offset
  <2>4. QED
    BY <1>4, <2>1, <2>2, <2>3 DEF Work
<1>5. QED
  BY <1>1, <1>2, <1>3, <1>4

(* Two threads never execute the same operation, unless it is a copy.      *)
LEMMA OperationOnce ==
  ASSUME TypeOK, PoolInv, StagesInv, NEW t \in Threads, NEW u \in Threads \ {t},
         work[t] # NoWork, work[u] = work[t]
  PROVE  Writes(work[t]) = {}
<1>1. PICK w : w = work[t]
  OBVIOUS
<1>2. /\ pc[t] \in {"copy", "run", "diagonal"} /\ w = Operation(t)
      /\ pc[u] \in {"copy", "run", "diagonal"} /\ w = Operation(u)
  BY <1>1, WorkingThread
<1>3. CASE pc[t] = "copy"
  BY <1>1, <1>2, <1>3, OperationParts DEF Writes
<1>4. CASE pc[t] = "diagonal"
  <2>1. /\ w.kind = "diagonal" /\ w.matrix = Matrix(t) /\ w.offset = Offset(t) + 1
        /\ task[t] \in Tasks \ {InitTask}
    BY <1>2, <1>4, OperationParts
  <2>2. Offset(t) \in Nat /\ Matrix(t) \in MatrixIds
    BY <2>1, TaskParts, Parameters DEF Offset, Matrix, Offsets
  <2>3. CASE pc[u] = "diagonal"
    <3>1. w.matrix = Matrix(u) /\ w.offset = Offset(u) + 1 /\ task[u] \in Tasks \ {InitTask}
      BY <1>2, <2>3, OperationParts
    <3>2. Offset(u) \in Nat
      BY <3>1, TaskParts, Parameters DEF Offset, Offsets
    <3>3. Matrix(u) = Matrix(t) /\ Offset(u) = Offset(t)
      BY <2>1, <2>2, <3>1, <3>2
    <3>4. PICK stage, iteration : InStages(stage, iteration)
      BY StagesPick
    <3>5. PICK m \in MatrixIds : m = Matrix(t)
      BY <2>2
    <3>6. PICK k \in Offsets, s \in Stages : k = iteration[m] /\ s = stage[m]
      BY <3>4, StageOf
    <3>7. StageInv(m, k, s)
      BY <3>4, <3>6, StageOf
    <3>8. Acting("diagonal", m, k) = {t} /\ Acting("diagonal", m, k) = {u}
      BY <1>4, <2>3, <3>3, <3>5, <3>7, NextReady
    <3>9. QED
      BY <3>8
  <2>4. CASE pc[u] = "run" /\ task[u] = InitTask
    BY <1>2, <2>1, <2>2, <2>4, OperationParts
  <2>5. CASE pc[u] = "copy" \/ (pc[u] = "run" /\ task[u] # InitTask)
    BY <1>2, <2>1, <2>5, OperationParts
  <2>6. QED
    BY <1>2, <2>3, <2>4, <2>5
<1>5. CASE pc[t] = "run" /\ task[t] = InitTask
  <2>1. w.kind = "diagonal" /\ w.matrix = chunk[t] /\ w.offset = 0
    BY <1>2, <1>5, OperationParts
  <2>2. CASE pc[u] = "diagonal"
    BY <1>2, <2>1, <2>2, OperationParts, TaskParts, Parameters DEF Offset, Offsets
  <2>3. CASE pc[u] = "run" /\ task[u] = InitTask
    BY <1>2, <1>5, <2>1, <2>3, OperationParts DEF Carries, PoolInv, ThreadInv
  <2>4. CASE pc[u] = "copy" \/ (pc[u] = "run" /\ task[u] # InitTask)
    BY <1>2, <2>1, <2>4, OperationParts
  <2>5. QED
    BY <1>2, <2>2, <2>3, <2>4
<1>6. CASE pc[t] = "run" /\ task[t] # InitTask
  <2>1. /\ w.chunk = chunk[t] /\ w.kind \in {"left", "top", "interior"}
        /\ task[t] = Task(IF w.kind = "interior" THEN "inner" ELSE w.kind, w.matrix, w.offset)
    BY <1>2, <1>6, OperationParts
  <2>2. pc[u] = "run" /\ task[u] # InitTask
    BY <1>2, <2>1, OperationParts
  <2>3. /\ w.chunk = chunk[u]
        /\ task[u] = Task(IF w.kind = "interior" THEN "inner" ELSE w.kind, w.matrix, w.offset)
    BY <1>2, <2>2, OperationParts
  <2>4. chunk[u] = chunk[t] /\ Carries(t) /\ Carries(u) /\ task[u] = task[t]
    BY <1>6, <2>1, <2>2, <2>3 DEF Carries
  <2>5. QED
    BY <2>4 DEF PoolInv, ThreadInv
<1>7. QED
  BY <1>2, <1>3, <1>4, <1>5, <1>6

(* The operations in progress in LuDecomposition.                          *)
LEMMA AbstractVars ==
  /\ Abstract!Init <=> version = [x \in Cells |-> 0] /\ Working = {} /\ is_finished = FALSE
  /\ version' = version /\ Working' = Working /\ is_finished' = is_finished
       => UNCHANGED Abstract!vars
  /\ \A w : Abstract!Begin(w) <=>
       /\ Working' = Working \cup {w} /\ w \notin Working /\ IsReady(w)
       /\ \A v \in Working : ~Abstract!Conflict(v, w)
       /\ version' = version /\ is_finished' = is_finished
  /\ \A v, w : Abstract!Conflict(v, w) <=>
       \/ Writes(v) \cap (Reads(w) \cup Writes(w)) # {}
       \/ Writes(w) \cap Reads(v) # {}
  /\ \A w : Abstract!End(w) <=>
       /\ Working' = Working \ {w} /\ w \in Working
       /\ version' = [x \in Cells |-> IF x \in Writes(w) THEN version[x] + 1 ELSE version[x]]
       /\ is_finished' = is_finished
  /\ Abstract!Stop <=>
       /\ \A x \in Cells : version[x] = Final(x)
       /\ Working = {} /\ ~is_finished /\ is_finished' = TRUE
       /\ version' = version /\ Working' = Working
<1>1. Abstract!Init <=> version = [x \in Cells |-> 0] /\ Working = {} /\ is_finished = FALSE
  BY SameTiles DEF Abstract!Init, Working
<1>2. version' = version /\ Working' = Working /\ is_finished' = is_finished => UNCHANGED Abstract!vars
  BY DEF Abstract!vars, Working
<1>3. ASSUME NEW w
      PROVE  Abstract!Begin(w) <=>
               /\ Working' = Working \cup {w} /\ w \notin Working /\ IsReady(w)
               /\ \A v \in Working : ~Abstract!Conflict(v, w)
               /\ version' = version /\ is_finished' = is_finished
  BY SameTiles DEF Abstract!Begin, Working
<1>4. ASSUME NEW v, NEW w
      PROVE  Abstract!Conflict(v, w) <=>
               \/ Writes(v) \cap (Reads(w) \cup Writes(w)) # {}
               \/ Writes(w) \cap Reads(v) # {}
  BY SameTiles DEF Abstract!Conflict
<1>5. ASSUME NEW w
      PROVE  Abstract!End(w) <=>
               /\ Working' = Working \ {w} /\ w \in Working
               /\ version' = [x \in Cells |-> IF x \in Writes(w) THEN version[x] + 1 ELSE version[x]]
               /\ is_finished' = is_finished
  BY SameTiles DEF Abstract!End, Working
<1>6. Abstract!Stop <=>
        /\ \A x \in Cells : version[x] = Final(x)
        /\ Working = {} /\ ~is_finished /\ is_finished' = TRUE
        /\ version' = version /\ Working' = Working
  BY SameTiles DEF Abstract!Stop, Abstract!Decomposed, Working
<1>7. QED
  BY <1>1, <1>2, <1>3, <1>4, <1>5, <1>6

(* A thread begins an operation, which another may be executing: then it   *)
(* is a copy, in progress already.                                         *)
LEMMA BeginImplements ==
  ASSUME LudInv, NEW t \in Threads, pc[t] \in {"copy", "run", "diagonal"}, NEW w,
         w = Operation(t), Begin(t, w)
  PROVE  Abstract!Next \/ UNCHANGED Abstract!vars
<1> USE DEF LudInv
<1>1. /\ work[t] = NoWork /\ work' = [work EXCEPT ![t] = w]
      /\ version' = version /\ is_finished' = is_finished
  BY BeginEffect
<1>2. w \in Works /\ IsReady(w) /\ w # NoWork
  BY OperationReady, NoWorkIsNone
<1>3. \A u \in Threads : work'[u] = IF u = t THEN w ELSE work[u]
  BY <1>1 DEF TypeOK
<1>4. Working' = Working \cup {w}
  BY <1>1, <1>2, <1>3 DEF Working
<1>5. CASE w \in Working
  BY <1>1, <1>4, <1>5, AbstractVars
<1>6. CASE w \notin Working
  <2>1. ASSUME NEW v \in Working PROVE ~Abstract!Conflict(v, w)
    <3>1. PICK u \in Threads : v = work[u] /\ work[u] # NoWork
      BY DEF Working
    <3>2. v \in Works /\ IsReady(v)
      BY <3>1, WorkingThread
    <3>3. v # w
      BY <1>6
    <3>4. Writes(v) \cap (Reads(w) \cup Writes(w)) = {} /\ Writes(w) \cap Reads(v) = {}
      BY <1>2, <3>2, <3>3, ReadyDisjoint
    <3>5. QED
      BY <3>4, AbstractVars
  <2>2. Abstract!Begin(w)
    BY <1>1, <1>2, <1>4, <1>6, <2>1, AbstractVars
  <2>3. QED
    BY <1>2, <2>2, SameTiles DEF Abstract!Next
<1>7. QED
  BY <1>5, <1>6

(* A thread ends an operation, which another goes on with if it is a copy. *)
LEMMA EndImplements ==
  ASSUME LudInv, NEW t \in Threads, NEW label, End(t, label)
  PROVE  Abstract!Next \/ UNCHANGED Abstract!vars
<1> USE DEF LudInv
<1>1. PICK w : w = work[t]
  OBVIOUS
<1>2. /\ w # NoWork /\ work' = [work EXCEPT ![t] = NoWork] /\ is_finished' = is_finished
      /\ version' = [x \in Cells |-> IF x \in Writes(w) THEN version[x] + 1 ELSE version[x]]
  BY <1>1, EndEffect
<1>3. w \in Works /\ w \in Working
  BY <1>1, <1>2, WorkingThread DEF Working
<1>4. \A u \in Threads : work'[u] = IF u = t THEN NoWork ELSE work[u]
  BY <1>2 DEF TypeOK
<1>5. CASE \E u \in Threads \ {t} : work[u] = w
  BY <1>1, <1>2, <1>4, <1>5, OperationOnce, AbstractVars DEF Working, TypeOK
<1>6. CASE \A u \in Threads \ {t} : work[u] # w
  BY <1>1, <1>2, <1>3, <1>4, <1>6, AbstractVars, SameTiles DEF Working, Abstract!Next
<1>7. QED
  BY <1>5, <1>6

(* The pool is finished when all matrices are decomposed.                  *)
LEMMA StopImplements ==
  ASSUME LudInv, NEW t \in Threads, Stop(t)
  PROVE  Abstract!Next
<1> USE DEF LudInv
<1>1. /\ pc[t] = "stop" /\ is_finished' = TRUE /\ version' = version /\ work' = work
  BY StopEffect
<1>2. pending = 0 /\ ~is_finished
  BY <1>1 DEF StopInv
<1>3. PICK stage, iteration : InStages(stage, iteration)
  BY StagesPick
<1>4. \A m \in MatrixIds : StageInv(m, Tiles - 1, "done")
  <2>1. SUFFICES ASSUME NEW m \in MatrixIds PROVE StageInv(m, Tiles - 1, "done")
    OBVIOUS
  <2>2. PICK k \in Offsets : k = iteration[m]
    BY <1>3, StageOf
  <2>3. StageInv(m, k, "done")
    BY <1>2, <1>3, <2>2, StageOf
  <2>4. k = Tiles - 1
    BY <2>3 DEF StageInv
  <2>5. QED
    BY <2>3, <2>4
<1>5. Tiles - 1 \in Offsets /\ "done" \in Stages /\ Tiles \in Nat
  BY Parameters DEF Offsets, Stages
<1>6. ASSUME NEW x \in Cells PROVE version[x] = Final(x)
  <2>1. version[x] = VersionIn(Tiles - 1, "done", x)
    BY <1>4, CellParts DEF StageInv
  <2>2. Final(x) \in 1 .. Tiles /\ x[2] \in 0 .. Tiles - 1 /\ x[4] \in 0 .. Tiles - 1
        /\ Final(x) <= x[2] + 1 /\ Final(x) <= x[4] + 1
    BY Finals
  <2>3. CASE Final(x) <= Tiles - 1
    BY <1>5, <2>1, <2>3, Versions
  <2>4. CASE ~(Final(x) <= Tiles - 1)
    BY <1>5, <2>1, <2>2, <2>4, Versions
  <2>5. QED
    BY <2>3, <2>4
<1>7. ASSUME NEW u \in Threads PROVE work[u] = NoWork
  <2>1. SUFFICES ASSUME work[u] # NoWork PROVE FALSE
    OBVIOUS
  <2>2. pc[u] \in {"copy", "run", "diagonal"} /\ task[u] \in Tasks
    BY <2>1, WorkingThread, ThreadTask
  <2>3. CASE task[u] = InitTask
    BY <1>4, <1>5, <2>2, <2>3, ThreadTask, InitIsTask, FirstReady DEF TypeOK, MatrixIds
  <2>4. CASE task[u] # InitTask
    <3>1. PICK a \in Tasks \ {InitTask} : a = task[u]
      BY <2>2, <2>4
    <3>2. Running(a) /\ a.matrix \in MatrixIds
      BY <2>2, <3>1, TaskParts DEF Running, FinishLabels
    <3>3. QED
      BY <1>4, <1>5, <3>2, TaskStage, Kinds
  <2>5. QED
    BY <2>3, <2>4
<1>8. Working = {} /\ Working' = Working
  BY <1>1, <1>7 DEF Working
<1>9. Abstract!Stop
  BY <1>1, <1>2, <1>6, <1>8, AbstractVars
<1>10. QED
  BY <1>9 DEF Abstract!Next

(* A step without tile operations is none of the decomposition.            *)
LEMMA QuietImplements ==
  ASSUME version' = version, work' = work, is_finished' = is_finished
  PROVE  UNCHANGED Abstract!vars
BY AbstractVars DEF Working

(* Every step of a thread is a step of the decomposition or none.          *)
LEMMA StepImplements ==
  ASSUME LudInv, NEW t \in Threads, Step(t)
  PROVE  Abstract!Next \/ UNCHANGED Abstract!vars
<1> USE DEF LudInv
<1>1. CASE PoolStep(t) /\ UNCHANGED ludVars
  BY <1>1, PoolTypes, QuietImplements DEF ludVars
<1>2. CASE BorderInit(t)
  <2>1. PICK w, label : w = Work("copy", Matrix(t), Offset(t), 0) /\ label = LoopLabel(chunk[t])
    OBVIOUS
  <2>2. pc[t] = "copy" /\ (Begin(t, w) \/ End(t, label))
    BY <1>2, <2>1 DEF BorderInit
  <2>3. w = Operation(t)
    BY <2>1, <2>2 DEF Operation
  <2>4. QED
    BY <2>2, <2>3, BeginImplements, EndImplements
<1>3. CASE RunChunk(t)
  <2>1. PICK w, label : w = ChunkWork(t) /\ label = AfterChunk(t)
    OBVIOUS
  <2>2. pc[t] = "run" /\ (Begin(t, w) \/ End(t, label))
    BY <1>3, <2>1 DEF RunChunk
  <2>3. w = Operation(t)
    BY <2>1, <2>2 DEF Operation
  <2>4. QED
    BY <2>2, <2>3, BeginImplements, EndImplements
<1>4. CASE NextDiagonal(t)
  <2>1. PICK w : w = Work("diagonal", Matrix(t), Offset(t) + 1, 0)
    OBVIOUS
  <2>2. pc[t] = "diagonal" /\ (Begin(t, w) \/ End(t, "claim"))
    BY <1>4, <2>1 DEF NextDiagonal
  <2>3. w = Operation(t)
    BY <2>1, <2>2 DEF Operation
  <2>4. QED
    BY <2>2, <2>3, BeginImplements, EndImplements
<1>5. CASE Stop(t)
  BY <1>5, StopImplements
<1>6. CASE \/ CountFirstTile(t) \/ StartIteration(t) \/ PushLeft(t) \/ PushTop(t)
           \/ CompareExchange(t) \/ StoreFirstTile(t) \/ PushInner(t)
  BY <1>6, CountEffect, IterationEffect, PushLeftEffect, PushTopEffect, CompareExchangeEffect,
     StoreEffect, PushInnerEffect, QuietImplements
<1>7. QED
  BY <1>1, <1>2, <1>3, <1>4, <1>5, <1>6 DEF Step

(* The same of all steps, also those that change nothing.                  *)
LEMMA NextImplements == LudInv /\ [Next]_vars => [Abstract!Next]_Abstract!vars
<1>1. ASSUME LudInv, NEW t \in Threads, Step(t) PROVE Abstract!Next \/ UNCHANGED Abstract!vars
  BY <1>1, StepImplements
<1>2. UNCHANGED vars => UNCHANGED Abstract!vars
  BY QuietImplements DEF vars, poolVars, ludVars, scheduling
<1>3. QED
  BY <1>1, <1>2 DEF Next

(* At first every cell has its first version and nothing is in progress.   *)
LEMMA InitImplements == Init => Abstract!Init
BY InitPool, AbstractVars DEF Working, Init

(* Lud implements LuDecomposition: every tile operation of lud/our.rs      *)
(* starts on final values, after the updates that it follows, and without  *)
(* a data race, and the pool is finished when all matrices are decomposed. *)
THEOREM ImplementsAbstract == Spec => ImplementsLu
BY InvAlways, InitImplements, NextImplements, PTL DEF Spec, ImplementsLu, Abstract!Spec
=============================================================================
