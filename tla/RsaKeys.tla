-------------------------------- MODULE RsaKeys --------------------------------
(***************************************************************************)
(* RsaKey of src/src/rsa_keys.rs and validate_rsa_private_key of           *)
(* src/src/rsa_private_validation.rs: the ways in which a private key is   *)
(* generated, imported and restored, and the validation between an import  *)
(* and a validated handle.                                                 *)
(*                                                                         *)
(* A key is the record of n, e, d and primes that the rsa crate keeps; CRT *)
(* values are derived from them.  The crate's constructors are modelled    *)
(* from their use.  Draws of the random generator are the steps of a       *)
(* validation.  The branches of probable_prime for even numbers and those  *)
(* up to 3 are left out: the checks before it exclude them.                *)
(***************************************************************************)
EXTENDS RsaArithmetic, Sequences, FiniteSets

CONSTANTS
  Generated,      \* p, q and e that RsaPrivateKey::new may produce
  Primes,         \* p, q and e given to import_primes and restore_primes
  Components,     \* n, e, d and primes, given as such or encoded
  Messages,       \* messages for which decryption is compared
  ExponentBits,   \* longest exponent: 256
  Margin          \* 100 of the least difference of the factors

(* Numbers are never negative, and the messages are below every modulus.   *)
InputsFit ==
  /\ SizesFit /\ Margin \in Nat /\ 2 * Margin <= MinBits
  /\ \A g \in Generated \cup Primes : g.p \in Nat /\ g.q \in Nat /\ g.e \in Nat
  /\ \A c \in Components :
       c.n \in Nat /\ c.e \in Nat /\ c.d \in Nat /\ c.primes \in Seq(Nat)
  /\ Messages \subseteq 0 .. TwoTo[MinBits - 1] - 1

VARIABLES
  handle,     \* the RsaKey the caller has, or NoKey
  pc,         \* idle, test or pairwise
  candidate,  \* the normalized key under validation
  factor,     \* which of its factors is tested
  rounds,     \* rounds of that factor that are passed
  attempts,   \* draws of this round that were out of range
  result,     \* what the last call returned
  liars       \* history: rounds passed with strong liars, for each factor

test == <<factor, rounds, attempts, liars>>
vars == <<handle, pc, candidate, test, result>>

NoKey == [validated |-> FALSE, key |-> << >>, liars |-> <<0, 0>>]

Init ==
  /\ handle = NoKey /\ pc = "idle" /\ candidate = << >>
  /\ factor = 1 /\ rounds = 0 /\ attempts = 0
  /\ result = "none" /\ liars = <<0, 0>>

-----------------------------------------------------------------------------
(* The rsa crate.                                                          *)

Key(n, e, d, primes) == [n |-> n, e |-> e, d |-> d, primes |-> primes]

(* RsaPrivateKey::from_components: the keys it may return.  Without primes *)
(* it recovers some factors; d has to be inverse to e below each prime.    *)
Recovered(n) == {<<p, n \div p>> : p \in {p \in 2 .. n - 1 : Divides(p, n)}}
FromComponents(n, e, d, primes) ==
  {Key(n, e, d, ps) : ps \in
     {ps \in IF primes = << >> THEN Recovered(n) ELSE {primes} :
        /\ NewWithMaxSize(n, e)
        /\ Len(ps) = 2 /\ ps[1] > 1 /\ ps[2] > 1 /\ ps[1] * ps[2] = n
        /\ \A i \in 1 .. 2 : (d * e) % (ps[i] - 1) = 1 % (ps[i] - 1)}}

(* RsaPrivateKey::from_p_q: d is the least inverse, if there is one.       *)
Lambda(p, q) == Lcm(p - 1, q - 1)
FromPQ(p, q, e) ==
  IF p = q \/ p < 2 \/ q < 2 THEN {}
  ELSE UNION {FromComponents(p * q, e, d, <<p, q>>) :
                d \in {d \in 1 .. Lambda(p, q) - 1 : (d * e) % Lambda(p, q) = 1}}

-----------------------------------------------------------------------------
(* The checks of validate_with_rng before the primality tests.             *)

Difference(p, q) == IF p > q THEN p - q ELSE q - p

FactorsAreSound(k, bits) ==
  LET p == k.primes[1]
      q == k.primes[2]
  IN  /\ Bits(p) + Bits(q) = bits
      /\ Bits(p) - Bits(q) \in -1 .. 1
      /\ p % 2 = 1 /\ q % 2 = 1
      /\ p * p >= TwoTo[2 * Bits(p) - 1] /\ q * q >= TwoTo[2 * Bits(q) - 1]
      /\ p * q = k.n
      /\ Difference(p, q) > TwoTo[(bits \div 2) - Margin]

ExponentsAreSound(k, bits) ==
  LET p == k.primes[1]
      q == k.primes[2]
  IN  /\ Gcd(p - 1, k.e) = 1 /\ Gcd(q - 1, k.e) = 1
      /\ TwoTo[bits \div 2] < k.d /\ k.d < Lambda(p, q)
      /\ (k.d * k.e) % Lambda(p, q) = 1

Sound(k) ==
  /\ SupportedSize(Bits(k.n))
  /\ 3 <= k.e /\ k.e % 2 = 1 /\ Bits(k.e) <= ExponentBits
  /\ Len(k.primes) = 2
  /\ FactorsAreSound(k, Bits(k.n)) /\ ExponentsAreSound(k, Bits(k.n))

-----------------------------------------------------------------------------
(* How a call goes on.                                                     *)

Fail(error) ==
  /\ result' = error /\ pc' = "idle" /\ candidate' = << >>
  /\ factor' = 1 /\ rounds' = 0 /\ attempts' = 0 /\ liars' = <<0, 0>>
  /\ UNCHANGED handle

(* admit_normalized, up to the first draw.                                 *)
Admit(k) ==
  IF Sound(k)
    THEN /\ pc' = "test" /\ candidate' = k
         /\ factor' = 1 /\ rounds' = 0 /\ attempts' = 0 /\ liars' = <<0, 0>>
         /\ UNCHANGED <<handle, result>>
    ELSE Fail("InvalidPrivateKey")

Normalized(k) == FromPQ(k.primes[1], k.primes[2], k.e)

(* finish_import: normalizes the exponent.                                 *)
FinishImport(k) ==
  IF ~SupportedSize(Bits(k.n)) \/ Normalized(k) = {} THEN Fail("InvalidPrivateKey")
  ELSE \E normalized \in Normalized(k) : Admit(normalized)

(* restore_*: the handle is not validated.                                 *)
Restore(keys) ==
  IF keys = {} THEN Fail("InvalidPrivateKey")
  ELSE /\ \E k \in keys : handle' = [validated |-> FALSE, key |-> k, liars |-> <<0, 0>>]
       /\ result' = "Ok"
       /\ UNCHANGED <<pc, candidate, test>>

-----------------------------------------------------------------------------
(* The operations.  The caller keeps one key.                              *)

Idle == pc = "idle" /\ handle = NoKey

Generate ==
  /\ Idle
  /\ \E g \in Generated : \E k \in FromPQ(g.p, g.q, g.e) : FinishImport(k)

GenerateFails == Idle /\ Fail("RandomnessUnavailable")

PrimesFit(r) == Bits(r.p) <= MaxBits \div 2 /\ Bits(r.q) <= MaxBits \div 2
RestoredPrimes(r) == IF PrimesFit(r) THEN FromPQ(r.p, r.q, r.e) ELSE {}

ImportPrimes ==
  /\ Idle
  /\ \E r \in Primes :
       IF RestoredPrimes(r) = {} THEN Fail("InvalidPrivateKey")
       ELSE \E k \in RestoredPrimes(r) : Admit(k)

RestorePrimes == Idle /\ \E r \in Primes : Restore(RestoredPrimes(r))

(* import_components; factor recovery may fail.                            *)
ImportComponents ==
  /\ Idle
  /\ \E c \in Components :
       LET keys == FromComponents(c.n, c.e, c.d, c.primes)
           admissible ==
             /\ SupportedSize(Bits(c.n)) /\ Bits(c.e) <= ExponentBits
             /\ Bits(c.d) <= Bits(c.n) /\ Len(c.primes) \in {0, 2}
             /\ \A i \in 1 .. Len(c.primes) : Bits(c.primes[i]) <= Bits(c.n)
             /\ NewWithMaxSize(c.n, c.e)
       IN  \/ admissible /\ \E k \in keys : FinishImport(k)
           \/ (~admissible \/ keys = {} \/ c.primes = << >>) /\ Fail("InvalidPrivateKey")

(* An encoding carries two primes.                                         *)
Decoded(c) == IF Len(c.primes) = 2 THEN FromComponents(c.n, c.e, c.d, c.primes) ELSE {}

ImportPkcs8 ==
  /\ Idle
  /\ \E c \in Components :
       IF Decoded(c) = {} THEN Fail("InvalidPrivateKey")
       ELSE \E k \in Decoded(c) : FinishImport(k)

RestorePkcs == Idle /\ \E c \in Components : Restore(Decoded(c))

(* A validated handle is returned as it is.                                *)
ValidateForImport ==
  /\ pc = "idle" /\ handle # NoKey
  /\ IF handle.validated
       THEN result' = "Ok" /\ UNCHANGED <<handle, pc, candidate, test>>
       ELSE FinishImport(handle.key)

-----------------------------------------------------------------------------
(* The primality tests and the pair-wise test.                             *)

Rounds == CeilDiv(Strength, 2) + 1
Tested == candidate.primes[factor]

Passes(n, base) ==
  \/ Squared(n, base, 0) \in {1, Upper(n)}
  \/ Ends(n, base) # {} /\ Squared(n, base, FirstEnd(n, base)) = Upper(n)

Redraw(base) ==
  /\ ~InRange(Tested, base)
  /\ IF attempts + 1 < BaseAttempts
       THEN attempts' = attempts + 1 /\ UNCHANGED <<handle, pc, candidate, factor, rounds, liars, result>>
       ELSE Fail("RandomnessUnavailable")

(* Mutant of Behind: the second factor is not tested.                      *)
BehindFirst ==
  IF rounds + 1 < Rounds THEN <<"test", factor, rounds + 1>> ELSE <<"pairwise", 1, 0>>

(* Where a passed round leads: the next round, factor or test.             *)
Behind ==
  IF rounds + 1 < Rounds THEN <<"test", factor, rounds + 1>>
  ELSE IF factor = 1 THEN <<"test", 2, 0>> ELSE <<"pairwise", 1, 0>>

Test(base) ==
  /\ InRange(Tested, base)
  /\ IF Passes(Tested, base)
       THEN /\ pc' = Behind[1] /\ factor' = Behind[2] /\ rounds' = Behind[3]
            /\ attempts' = 0
            /\ liars' = IF StrongLiar(Tested, base)
                          THEN [liars EXCEPT ![factor] = @ + 1] ELSE liars
            /\ UNCHANGED <<handle, candidate, result>>
       ELSE Fail("InvalidPrivateKey")

Draw ==
  /\ pc = "test"
  /\ \E drawn \in Draws(Tested) :
       LET base == Base(Tested, drawn) IN Redraw(base) \/ Test(base)

GeneratorFails == pc = "test" /\ Fail("RandomnessUnavailable")

Decrypts(k, m) == ModPow(ModPow(m, k.e, k.n), k.d, k.n) = m

Pairwise ==
  /\ pc = "pairwise" /\ Decrypts(candidate, 2)
  /\ handle' = [validated |-> TRUE, key |-> candidate, liars |-> liars]
  /\ result' = "Ok" /\ pc' = "idle" /\ candidate' = << >>
  /\ factor' = 1 /\ rounds' = 0 /\ attempts' = 0 /\ liars' = <<0, 0>>

(* Another message is recovered, or the blinded operation fails.           *)
PairwiseFails == pc = "pairwise" /\ Fail("InvalidPrivateKey")

Next ==
  \/ Generate \/ GenerateFails \/ ImportPrimes \/ RestorePrimes \/ ImportComponents
  \/ ImportPkcs8 \/ RestorePkcs \/ ValidateForImport
  \/ Draw \/ GeneratorFails \/ Pairwise \/ PairwiseFails

Spec == Init /\ [][Next]_vars

-----------------------------------------------------------------------------
(* ValidatedKeyWorks: a validated handle, whichever way it came, has       *)
(* factors that passed all rounds of the test; if they are primes, its     *)
(* exponent is the one inverse below lambda, whatever exponent was         *)
(* supplied, and decryption undoes encryption for every message            *)
(* (finish_import, validate_with_rng, validate_for_import).                *)
ValidatedKeyWorks ==
  handle.validated =>
    LET k == handle.key
        p == k.primes[1]
        q == k.primes[2]
    IN  /\ handle.liars = <<Rounds, Rounds>>
        /\ IsPrime(p) /\ IsPrime(q) =>
             /\ k.d \in 1 .. Lambda(p, q) - 1 /\ (k.d * k.e) % Lambda(p, q) = 1
             /\ \A m \in Messages \cup {p, q, k.n - 1} : Decrypts(k, m)

(* EveryBaseDrawn: whatever the length of the factor in bytes, each base   *)
(* between 1 and n - 1 can be drawn, so that no liar or witness is spared  *)
(* by the mask of the first byte (probable_prime).                         *)
EveryBaseDrawn ==
  pc = "test" => 2 .. Tested - 2 \subseteq {Base(Tested, drawn) : drawn \in Draws(Tested)}

(* QuarterOfBases: every base can be drawn, and of the draws that yield    *)
(* one at most a quarter let a composite factor pass: 4^-rounds, on which  *)
(* the number of rounds rests (probable_prime).                            *)
QuarterOfBases ==
  /\ EveryBaseDrawn
  /\ pc = "test" /\ ~IsPrime(Tested) =>
       LET bases == {drawn \in Draws(Tested) : InRange(Tested, Base(Tested, drawn))}
           passing == {drawn \in bases : Passes(Tested, Base(Tested, drawn))}
       IN  4 * Cardinality(passing) <= Cardinality(bases)
=============================================================================
