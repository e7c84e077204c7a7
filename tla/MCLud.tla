------------------------------- MODULE MCLud -------------------------------
(* Small instances of Lud for TLC.                                         *)
EXTENDS LudStages
=============================================================================
