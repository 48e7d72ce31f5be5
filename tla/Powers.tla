------------------------------- MODULE Powers -------------------------------
(* The powers of two behind the widths of integers, 1 << n in the code: a   *)
(* recursive function, which the proofs can reason about.                   *)
EXTENDS Integers

TwoTo[n \in Nat] == IF n = 0 THEN 1 ELSE 2 * TwoTo[n - 1]
=============================================================================
