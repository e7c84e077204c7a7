----------------------------- MODULE MCSplitSum -----------------------------
(* Small instances of SplitSum for TLC.                                    *)
EXTENDS SplitSum
=============================================================================
