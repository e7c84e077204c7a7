-------------------------- MODULE MCSequentialSort --------------------------
(* Small instances of SequentialSort for TLC.                              *)
EXTENDS SequentialSort
=============================================================================
