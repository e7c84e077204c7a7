-------------------------- MODULE MCQuicksortDeque --------------------------
(* Small instances of QuicksortDeque for TLC.                              *)
EXTENDS QuicksortDeque

(* Arrays without a task; a pivot at either end and in the middle; equal   *)
(* elements.                                                               *)
Short == {<<>>, <<7>>, <<3, 1, 5, 2, 4>>, <<1, 2, 3, 4, 5>>, <<5, 4, 3, 2, 1>>,
          <<2, 2, 1, 2, 1>>, <<1, 3, 4, 2, 5>>}

(* Two levels of partitions, with the arrays exchanged; with two elements  *)
(* in a block, seven elements make a subtask without blocks.               *)
Long == {<<6, 5, 1, 2, 3, 4>>, <<1, 2, 7, 4, 4, 6, 5>>, <<4, 1, 2, 3, 6, 7, 5>>,
         <<7, 1, 2, 3, 4, 5, 6>>}

Arrays == Short \cup Long
=============================================================================
