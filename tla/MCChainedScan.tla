--------------------------- MODULE MCChainedScan ---------------------------
(* Small instances of ChainedScan for TLC.  The elements are such that no  *)
(* two sets of blocks have the same sum.                                   *)
EXTENDS ChainedScan

SmallPrograms == <<
  [version |-> "our",   compact |-> FALSE, ranges |-> 2, inputs |-> << <<1, 1, 2, 4, 8, 16, 32>> >>],
  [version |-> "our",   compact |-> TRUE,  ranges |-> 1, inputs |-> << <<1, 2, 3, 5>>, <<7, 9, 11>> >>],
  [version |-> "inner", compact |-> TRUE,  ranges |-> 1, inputs |-> << <<1, 2, 3, 5>>, <<>>, <<7, 9, 11>> >>],
  [version |-> "outer", compact |-> FALSE, ranges |-> 1, inputs |-> << <<1, 2, 3>>, <<7>>, <<>> >>]
>>
=============================================================================
