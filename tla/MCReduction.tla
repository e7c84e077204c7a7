---------------------------- MODULE MCReduction ----------------------------
(* Small instances of Reduction for TLC.                                   *)
EXTENDS Reduction
=============================================================================
