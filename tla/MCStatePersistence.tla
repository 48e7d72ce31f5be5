------------------------ MODULE MCStatePersistence ------------------------
(* Model-checking instance of StatePersistence. *)
EXTENDS StatePersistence, TLC

Symmetry == Permutations(Clients)
===========================================================================
