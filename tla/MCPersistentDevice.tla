------------------------- MODULE MCPersistentDevice -------------------------
(* Model-checking instance of PersistentDevice. *)
EXTENDS PersistentDevice, TLC

Symmetry == Permutations(Processes) \cup Permutations(Mutations)
=============================================================================
