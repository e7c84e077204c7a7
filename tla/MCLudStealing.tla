--------------------------- MODULE MCLudStealing ---------------------------
(* Small instances of LudStealing for TLC.                                 *)
EXTENDS LudStealing
=============================================================================
