--------------------------- MODULE MCMultiAtomics ---------------------------
(* Small instances of MultiAtomics for TLC.                                *)
EXTENDS MultiAtomicsPool

CONSTANTS a1, a2

=============================================================================
