---------------------------- MODULE MCPostQuantum ----------------------------
(* Model-checking instance of the post-quantum keys: two parameter sets of  *)
(* each algorithm with the lengths of the standards and two seeds, and the  *)
(* lattice check of MlDsaValidation.  A behaviour belongs to one of the two.*)
EXTENDS PostQuantumKeys, Sequences

MCExpanded == [MlKem512 |-> 1632, MlKem768 |-> 2400, MlDsa44 |-> 2560, MlDsa65 |-> 4032]
MCPublic == [MlKem512 |-> 800, MlKem768 |-> 1184]
MCCiphertext == [MlKem512 |-> 768, MlKem768 |-> 1088]

VARIABLES part, expanded, answer
lattice == <<expanded, answer>>

(* MlDsaValidation: eight coefficients modulo 17, secrets from -2 to 2 in   *)
(* three bits, octets of four bits, two rows and two columns.  Two          *)
(* neighbouring codes of a secret take every value.                         *)
Polynomials ==
  <<[i \in 1 .. 8 |-> (3 * i * i + 1) % 17], [i \in 1 .. 8 |-> (5 * i + 2) % 17],
    [i \in 1 .. 8 |-> IF i = 8 THEN 16 ELSE 0], [i \in 1 .. 8 |-> (i * i * i + 4) % 17]>>
Codes(shift) == [i \in 0 .. 15 |-> (i * i + shift) % 5]
CodeBit(codes, b) == (codes[b \div 3] \div 2 ^ (b % 3)) % 2
Packed(codes) ==
  [j \in 1 .. 12 |-> CodeBit(codes, 4 * j - 4) + 2 * CodeBit(codes, 4 * j - 3)
                     + 4 * CodeBit(codes, 4 * j - 2) + 8 * CodeBit(codes, 4 * j - 1)]
Neighbours(shift) ==
  {Packed([Codes(shift) EXCEPT ![i] = x, ![i + 1] = y]) : i \in 0 .. 14, x \in 0 .. 7, y \in 0 .. 7}
ExpandedKeys ==
  [rho : {1}, s1 : Neighbours(0), s2 : {Packed(Codes(1))}]
  \cup [rho : {1}, s1 : {Packed(Codes(2))}, s2 : Neighbours(3)]
Validation == INSTANCE MlDsaValidation WITH
  Q <- 17, Layers <- 3, Zeta <- 3, InverseN <- 15, Eta <- 2, D <- 2, ByteBits <- 4,
  Rows <- 2, Columns <- 2, Keys <- ExpandedKeys,
  Matrix <- <<<<SubSeq(Polynomials, 1, 2), SubSeq(Polynomials, 3, 4)>>>>

NoLattice == expanded = None /\ answer = None
MCInit ==
  \/ part = "keys" /\ Init /\ NoLattice
  \/ part = "lattice" /\ Validation!Init /\ Init
KeysStep == part = "keys" /\ Next /\ UNCHANGED <<part, lattice>>
LatticeStep == part = "lattice" /\ Validation!Next /\ UNCHANGED <<part, vars>>
MCNext == KeysStep \/ LatticeStep
MCSpec == MCInit /\ [][MCNext]_<<part, vars, lattice>>

(* OnlyGeneratedKeys: the lattice check accepts exactly the keys that key   *)
(* generation gives (MlDsaValidation).                                      *)
OnlyGeneratedKeys == part = "lattice" => Validation!OnlyGeneratedKeys
=============================================================================
