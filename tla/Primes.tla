------------------------------- MODULE Primes -------------------------------
(***************************************************************************)
(* is_prime of src/cases/prime.rs, the value of an element in the          *)
(* reductions of prime: an even number is tested for being 2, then the odd *)
(* factors up to the square root are tried.                                *)
(***************************************************************************)
EXTENDS Integers

is_prime(input) ==
  /\ input % 2 # 0 \/ input = 2
  /\ \A factor \in 3 .. input :
       factor % 2 = 1 /\ factor * factor <= input => input % factor # 0
=============================================================================
