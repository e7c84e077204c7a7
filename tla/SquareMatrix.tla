---------------------------- MODULE SquareMatrix ----------------------------
(***************************************************************************)
(* The layout of utils/matrix.rs: the elements of a square matrix in row   *)
(* major order, in a boxed slice of vectors of LANES elements.  Elements   *)
(* and vectors are accessed with get_unchecked.                            *)
(***************************************************************************)
EXTENDS Integers

LANES == 32

(* The length of the slice, in vectors: `size * size / 32`.                *)
Vectors(size) == (size * size) \div LANES

linear_index(size, row, column) == row * size + column

(* The vector that slice32 returns, and the elements in it.                *)
slice32(size, row, column_start) == linear_index(size, row, column_start) \div LANES

ElementsOf(vector) == vector * LANES .. vector * LANES + LANES - 1
=============================================================================
