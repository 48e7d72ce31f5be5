------------------------------ MODULE MCSigning ------------------------------
(* Model-checking instance of the signing keys: three curves with scalars   *)
(* of one or two lengths and the curve of brainpool512.rs, one Edwards      *)
(* curve as long as the shortest scalar and one longer, two ML-DSA sets,    *)
(* and moduli of whole and of odd octets; and of EcdsaDer, with octets of   *)
(* four bits, so that three-octet coordinates need the long form of a       *)
(* length.                                                                  *)
EXTENDS Signing

MCDerOrder == <<9, 129, 2065>>
ASSUME DerAssumption == Der!OctetsFit

MCOrder == [c \in Curves |-> 3]
MCCoordinate ==
  [P256 |-> 2, Secp256k1 |-> 2, P521 |-> 5, BrainpoolP512 |-> 4]
MCCurveHash ==
  [P256 |-> "Sha256", Secp256k1 |-> "Sha256", P521 |-> "Sha512", BrainpoolP512 |-> "Sha512"]
MCHashLength == [Sha256 |-> 2, Sha512 |-> 4]
MCEdwards == [Ed25519 |-> 2, Ed448 |-> 3]
MCExpanded == [MlDsa44 |-> 20, MlDsa65 |-> 30]
Octet(h, m, length) == [i \in 1 .. length |-> <<h, m, i>>]
MCPrehashes ==
  {Octet("Sha256", m, 2) : m \in {"m1", "m2"}} \cup {Octet("Sha512", m, 4) : m \in {"m1", "m2"}}
  \cup {Octet("Sha512", "m1", l) : l \in 0 .. 2}
=============================================================================
