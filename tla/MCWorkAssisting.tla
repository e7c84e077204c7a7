-------------------------- MODULE MCWorkAssisting --------------------------
(* Small instances of WorkAssisting for TLC.                               *)
EXTENDS WorkAssisting, PtrWord, TLC

CONSTANTS a1, a2

(* Addresses are only compared.  Threads are not symmetric: the direction  *)
(* in which a thread visits the others depends on its parity.              *)
AddrSymmetry == Permutations(Addrs)
=============================================================================
