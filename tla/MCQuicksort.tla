----------------------------- MODULE MCQuicksort -----------------------------
(* Small instances of Quicksort for TLC.                                   *)
EXTENDS Quicksort

(* The pivot, the first element, goes to either end or to the middle, and  *)
(* has equal elements.                                                     *)
Short == {<<3, 1, 5, 2, 4>>, <<4, 1, 3, 2, 5>>, <<1, 2, 3, 4, 5>>,
          <<5, 4, 3, 2, 1>>, <<2, 2, 1, 2, 1>>}

(* Two and three levels of partitions, with the arrays exchanged.          *)
Long == {<<6, 5, 1, 2, 3, 4>>, <<1, 6, 6, 2, 2, 3>>, <<1, 2, 7, 4, 4, 6, 5>>, <<2, 7, 1, 3, 4, 5, 6>>}

Arrays == Short \cup Long
=============================================================================
