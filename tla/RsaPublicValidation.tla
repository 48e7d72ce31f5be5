-------------------------- MODULE RsaPublicValidation --------------------------
(***************************************************************************)
(* validate_rsa_public_key of src/src/rsa_public_validation.rs, called by  *)
(* itself and by import_public of src/src/rsa_keys.rs: cheap checks, then  *)
(* at most MaxRounds rounds of the enhanced Miller-Rabin test with random  *)
(* bases.  A modulus is accepted only on a witness that it is composite    *)
(* and no power of a prime.                                                *)
(*                                                                         *)
(* The random generator may fail at every draw, or return values out of    *)
(* range as often as it likes.                                             *)
(***************************************************************************)
EXTENDS RsaArithmetic

CONSTANTS
  Requests,           \* records of modulus, exponent, their lengths, bits, and
                      \* whether they come through import_public
  MaxRounds,          \* MAX_ROUNDS: 5
  SmallLimit,         \* largest small factor: 751
  ExponentLength,     \* longest exponent in bytes: 32
  ExponentBits        \* and in bits: 256

(* Numbers are never negative.                                             *)
RequestsFit ==
  /\ SizesFit /\ SmallLimit \in Nat
  /\ \A r \in Requests : r.modulus \in Nat /\ r.exponent \in Nat /\ r.bits \in Nat

VARIABLES
  request,   \* the arguments
  pc,        \* check, round or done
  rounds,    \* rounds that found the modulus probably prime
  attempts,  \* draws of this round that were out of range
  result     \* none, Ok, InvalidPublicKey or RandomnessUnavailable

vars == <<request, pc, rounds, attempts, result>>

Init ==
  /\ request \in Requests
  /\ pc = "check" /\ rounds = 0 /\ attempts = 0 /\ result = "none"

-----------------------------------------------------------------------------
SmallFactors ==
  {c \in 3 .. SmallLimit :
     c % 2 = 1 /\ \A d \in 3 .. c - 1 : d % 2 = 1 => c % d # 0}

(* The encodings, then the numbers, then the small factors.                *)
Plausible(r) ==
  /\ SupportedSize(r.bits)
  /\ r.modulus_length = CeilDiv(r.bits, ByteBits)
  /\ r.modulus % 2 = 1
  /\ r.exponent_length \in 1 .. ExponentLength
  /\ Bits(r.modulus) = r.bits
  /\ 3 <= r.exponent /\ r.exponent < r.modulus
  /\ Bits(r.exponent) <= ExponentBits /\ r.exponent % 2 = 1
  /\ \A c \in SmallFactors : ~Divides(c, r.modulus)

(* import_public: the library's checks, and the encodings it produces.     *)
Imports(r) ==
  /\ NewWithMaxSize(r.modulus, r.exponent)
  /\ r.modulus_length = ByteLength(r.modulus) /\ r.bits = Bits(r.modulus)
  /\ r.exponent_length = CeilDiv(Bits(r.exponent), ByteBits)

Return(value) ==
  pc' = "done" /\ result' = value

Check ==
  /\ pc = "check"
  /\ IF (request.import => Imports(request)) /\ Plausible(request)
       THEN pc' = "round" /\ UNCHANGED result
       ELSE Return("InvalidPublicKey")
  /\ UNCHANGED <<request, rounds, attempts>>

ClassifyComposite(n, x) ==
  IF Gcd(x - 1, n) > 1 THEN "CompositeWithFactor" ELSE "CompositeNotPrimePower"

(* Mutant of LastX: the last square is forgotten.                          *)
LastXEarly(n, base) == Squared(n, base, A(n) - 1)

(* x behind the last squaring: the square unless it is 1, its root if so.  *)
LastX(n, base) ==
  IF Squared(n, base, A(n)) # 1 THEN Squared(n, base, A(n)) ELSE Squared(n, base, A(n) - 1)

EnhancedRound(n, base) ==
  LET first == FirstEnd(n, base)
  IN  CASE Gcd(base, n) > 1 -> "CompositeWithFactor"
        [] Gcd(base, n) = 1 /\ Squared(n, base, 0) \in {1, Upper(n)} -> "ProbablyPrime"
        [] OTHER -> IF Ends(n, base) = {} THEN ClassifyComposite(n, LastX(n, base))
                    ELSE IF Squared(n, base, first) = Upper(n) THEN "ProbablyPrime"
                    ELSE ClassifyComposite(n, Squared(n, base, first - 1))

(* A draw out of range is repeated, up to the limit.                       *)
Redraw(base) ==
  /\ ~InRange(request.modulus, base)
  /\ IF attempts + 1 < BaseAttempts
       THEN attempts' = attempts + 1 /\ UNCHANGED <<pc, result>>
       ELSE Return("RandomnessUnavailable") /\ UNCHANGED attempts
  /\ UNCHANGED rounds

Test(base) ==
  LET verdict == EnhancedRound(request.modulus, base) IN
  /\ InRange(request.modulus, base)
  /\ attempts' = 0
  /\ \/ verdict = "CompositeNotPrimePower" /\ Return("Ok") /\ UNCHANGED rounds
     \/ verdict = "CompositeWithFactor" /\ Return("InvalidPublicKey") /\ UNCHANGED rounds
     \/ /\ verdict = "ProbablyPrime"
        /\ rounds' = rounds + 1
        /\ IF rounds + 1 < MaxRounds THEN UNCHANGED <<pc, result>> ELSE Return("InvalidPublicKey")

Draw ==
  /\ pc = "round"
  /\ \E drawn \in Draws(request.modulus) :
       LET base == Base(request.modulus, drawn) IN Redraw(base) \/ Test(base)
  /\ UNCHANGED request

GeneratorFails ==
  /\ pc = "round"
  /\ Return("RandomnessUnavailable")
  /\ UNCHANGED <<request, rounds, attempts>>

Next == Check \/ Draw \/ GeneratorFails

Spec == Init /\ [][Next]_vars

-----------------------------------------------------------------------------
(* AcceptedModulus: whatever the bases, an accepted modulus has two        *)
(* different prime factors, none of them small, and the announced size;    *)
(* passing rounds, a failing generator or unlucky draws accept nothing     *)
(* (validate_with_rng, enhanced_round, classify_composite).                *)
AcceptedModulus ==
  result = "Ok" =>
    LET factors == {p \in 2 .. request.modulus : Divides(p, request.modulus) /\ IsPrime(p)} IN
    /\ \E p, q \in factors : p # q
    /\ \A p \in factors : p > SmallLimit
    /\ TwoTo[request.bits - 1] <= request.modulus /\ request.modulus < TwoTo[request.bits]
=============================================================================
