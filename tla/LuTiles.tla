------------------------------- MODULE LuTiles -------------------------------
(***************************************************************************)
(* The tile operations of src/cases/lud.rs: which parts of a matrix each   *)
(* of diagonal_tile, border_init, border_left_chunk, border_top_chunk and  *)
(* interior_chunk reads and writes.  A tile is a square of TILE_SIZE       *)
(* (= OUTER_BLOCK_SIZE = BORDER_BLOCK_SIZE) elements; the interior is      *)
(* computed in blocks of one tile wide and a part of a tile high.          *)
(***************************************************************************)
EXTENDS Integers

CONSTANTS
  Matrices,   \* number of matrices decomposed at once
  Tiles,      \* matrix.size() / OUTER_BLOCK_SIZE
  Parts       \* OUTER_BLOCK_SIZE / INNER_BLOCK_SIZE_ROWS

(* "The matrix size should be a multiple of OUTER_BLOCK_SIZE" and that one *)
(* a multiple of the others (lud/our.rs 32-33).                            *)
ASSUME TilesAssumption ==
  /\ Matrices \in Nat \ {0} /\ Tiles \in Nat \ {0} /\ Parts \in Nat \ {0}

MatrixIds == 0 .. Matrices - 1
Offsets   == 0 .. Tiles - 1

(* Part p of the tile in row i and column j of matrix m.                   *)
Cells == MatrixIds \X Offsets \X (0 .. Parts - 1) \X Offsets

TileCells(m, i, j) == {<<m, i, p, j>> : p \in 0 .. Parts - 1}

(* The element (i, j) is updated in each iteration up to min(i, j).        *)
Final(x) == IF x[2] < x[4] THEN x[2] + 1 ELSE x[4] + 1

(* An operation: what it does, the matrix, the iteration (offset divided   *)
(* by the tile size) and the index of the chunk.                           *)
Work(kind, m, k, c) == [kind |-> kind, matrix |-> m, offset |-> k, chunk |-> c]

BorderChunks(k) == Tiles - k - 1
Rows(k) == (Tiles - k - 1) * Parts
InteriorChunks(k) == Rows(k) * (Tiles - k - 1)

Works ==
  {Work(kind, m, k, 0) : kind \in {"diagonal", "copy"}, m \in MatrixIds, k \in Offsets}
  \cup (UNION {{Work(kind, m, k, c) : kind \in {"left", "top"}, m \in MatrixIds,
                                      c \in 0 .. BorderChunks(k) - 1} : k \in Offsets})
  \cup (UNION {{Work("interior", m, k, c) : m \in MatrixIds,
                                            c \in 0 .. InteriorChunks(k) - 1} : k \in Offsets})

(* i_global and j_global of interior_chunk, in parts and tiles.            *)
RowOf(k, c)    == (k + 1) * Parts + (c % Rows(k))
ColumnOf(k, c) == k + 1 + (c \div Rows(k))

(* The part of the matrix in the first tile of the next iteration.         *)
InFirstTile(k, c) == RowOf(k, c) < (k + 2) * Parts /\ ColumnOf(k, c) < k + 2

Writes(w) ==
  LET m == w.matrix
      k == w.offset
      c == w.chunk
  IN  CASE w.kind = "diagonal" -> TileCells(m, k, k)
        [] w.kind = "copy"     -> {}
        [] w.kind = "left"     -> TileCells(m, k + 1 + c, k)
        [] w.kind = "top"      -> TileCells(m, k, k + 1 + c)
        [] w.kind = "interior" ->
             {<<m, RowOf(k, c) \div Parts, RowOf(k, c) % Parts, ColumnOf(k, c)>>}

(* What an operation reads besides what it writes.  Border chunks read the *)
(* copy of the diagonal tile that border_init made.                        *)
Reads(w) ==
  LET m == w.matrix
      k == w.offset
      c == w.chunk
  IN  CASE w.kind = "diagonal" -> {}
        [] w.kind \in {"copy", "left", "top"} -> TileCells(m, k, k)
        [] w.kind = "interior" ->
             {<<m, RowOf(k, c) \div Parts, RowOf(k, c) % Parts, k>>}
             \cup TileCells(m, k, ColumnOf(k, c))
=============================================================================
