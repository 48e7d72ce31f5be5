----------------------------- MODULE RsaArithmetic -----------------------------
(***************************************************************************)
(* What the validations of RSA keys share: the supported sizes, and the    *)
(* Miller-Rabin rounds and their random bases, which are the same in       *)
(* src/src/rsa_public_validation.rs and src/src/rsa_private_validation.rs. *)
(***************************************************************************)
EXTENDS RsaNumbers

CONSTANTS
  MinBits,        \* MIN_RSA_BITS
  MaxBits,        \* MAX_RSA_BITS
  Strength,       \* validation_strength of the sizes between them
  BaseAttempts    \* MAX_BASE_ATTEMPTS: 128

(* Bytes and numbers have bits, and a base is drawn at least once.         *)
SizesFit ==
  /\ ByteBits \in Nat \ {0} /\ MinBits \in Nat \ {0} /\ MaxBits \in Nat
  /\ Strength \in Nat /\ BaseAttempts \in Nat \ {0}

(* validation_strength: None outside the supported sizes.                  *)
SupportedSize(bits) == bits \in MinBits .. MaxBits

(* RsaPublicKey::new_with_max_size of the rsa crate.                       *)
NewWithMaxSize(n, e) ==
  Bits(n) <= MaxBits /\ n % 2 = 1 /\ 2 <= e /\ e < n /\ e % 2 = 1

(* n - 1 = 2^a * m with m odd.                                             *)
Upper(n) == n - 1
A(n) == TrailingZeros(Upper(n))

(* Mutant of M: the powers of two are not taken out.                       *)
MUnshifted(n) == Upper(n)

M(n) == Upper(n) \div TwoTo[A(n)]

(* z of a round of the test, after i squarings.                            *)
Squared(n, base, i) == ModPow(base, M(n) * TwoTo[i], n)

(* The squarings at which the loops for _ in 1..a stop.                    *)
Ends(n, base) == {i \in 1 .. A(n) - 1 : Squared(n, base, i) \in {1, Upper(n)}}
FirstEnd(n, base) == CHOOSE i \in Ends(n, base) : \A j \in Ends(n, base) : i <= j

-----------------------------------------------------------------------------
(* Random bases: the bytes of n's length, with the surplus bits of the     *)
(* first one masked, until the value lies strictly between 1 and n - 1.    *)

Draws(n) == 0 .. ByteValues(ByteLength(n)) - 1

Mask(n) == (ByteValues(1) - 1) \div TwoTo[(ByteBits - (Bits(n) % ByteBits)) % ByteBits]

Base(n, drawn) ==
  LET unit == ByteValues(ByteLength(n) - 1)
  IN  ((drawn \div unit) % (Mask(n) + 1)) * unit + (drawn % unit)

InRange(n, base) == 1 < base /\ base < Upper(n)

-----------------------------------------------------------------------------
(* A base for which an odd number looks like a prime.                      *)
StrongLiar(n, base) ==
  \/ ModPow(base, M(n), n) = 1
  \/ \E i \in 0 .. A(n) - 1 : ModPow(base, M(n) * TwoTo[i], n) = n - 1
=============================================================================
