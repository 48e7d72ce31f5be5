--------------------------------- MODULE Rsa ---------------------------------
(* The RSA modules as parts, with sizes of their own: private keys on their *)
(* way in (RsaKeys), public keys (RsaPublicValidation), and calls that      *)
(* sign, verify, encrypt or decrypt (RsaEncodings).  They share no state,   *)
(* and each is a specification of its own.                                  *)
CONSTANTS
  PrivateSizes,     \* records of ByteBits, MinBits, MaxBits, Strength,
  PublicSizes,      \* BaseAttempts and ExponentBits
  LeastMargin, GeneratedKeys, PrimePairs, KeyComponents, TrialMessages,
  PublicKeys, MostRounds, LargestSmallFactor, LongestExponent

VARIABLES handle, stage, candidate, factor, passed, redraws, outcome, liars
rsaKey == <<handle, stage, candidate, factor, passed, redraws, outcome, liars>>

RK == INSTANCE RsaKeys WITH
  ByteBits <- PrivateSizes.ByteBits, MinBits <- PrivateSizes.MinBits,
  MaxBits <- PrivateSizes.MaxBits, Strength <- PrivateSizes.Strength,
  BaseAttempts <- PrivateSizes.BaseAttempts, ExponentBits <- PrivateSizes.ExponentBits,
  Margin <- LeastMargin, Generated <- GeneratedKeys, Primes <- PrimePairs,
  Components <- KeyComponents, Messages <- TrialMessages,
  pc <- stage, rounds <- passed, attempts <- redraws, result <- outcome

VARIABLES submitted, phase, survived, unlucky, verdict
rsaPublic == <<submitted, phase, survived, unlucky, verdict>>

RP == INSTANCE RsaPublicValidation WITH
  ByteBits <- PublicSizes.ByteBits, MinBits <- PublicSizes.MinBits,
  MaxBits <- PublicSizes.MaxBits, Strength <- PublicSizes.Strength,
  BaseAttempts <- PublicSizes.BaseAttempts, ExponentBits <- PublicSizes.ExponentBits,
  Requests <- PublicKeys, MaxRounds <- MostRounds,
  SmallLimit <- LargestSmallFactor, ExponentLength <- LongestExponent,
  request <- submitted, pc <- phase, rounds <- survived, attempts <- unlucky,
  result <- verdict

PrivateKeysSpec == RK!Init /\ [][RK!Next]_rsaKey
PublicKeysSpec == RP!Init /\ [][RP!Next]_rsaPublic

(* ValidatedKeyWorks: a validated handle has factors that passed every      *)
(* round, and if they are primes it decrypts what it encrypts (RsaKeys:     *)
(* finish_import, validate_with_rng, validate_for_import).                  *)
ValidatedKeyWorks == RK!ValidatedKeyWorks

(* EveryBaseDrawn: every base can be drawn (RsaKeys: probable_prime).       *)
EveryBaseDrawn == RK!EveryBaseDrawn

(* QuarterOfBases: every base can be drawn, and at most a quarter of the    *)
(* draws let a composite factor pass a round (RsaKeys: probable_prime).     *)
QuarterOfBases == RK!QuarterOfBases

(* AcceptedModulus: an accepted modulus has two different prime factors,    *)
(* none of them small, and the announced size (RsaPublicValidation:         *)
(* validate_with_rng, enhanced_round, classify_composite).                  *)
AcceptedModulus == RP!AcceptedModulus

-----------------------------------------------------------------------------
CONSTANTS
  OctetBits, RsaRequests, RsaArguments, LeastPadding, LastOctet,
  DigestLength, LabelDigestLengths, DigestPrefix, DigestOf(_, _), OctetXor
VARIABLES request, argument, failing, state, answer
rsaCall == <<request, argument, failing, state, answer>>

RE == INSTANCE RsaEncodings WITH
  ByteBits <- OctetBits, Calls <- RsaRequests, Arguments <- RsaArguments,
  MinPadding <- LeastPadding, Trailer <- LastOctet, Length <- DigestLength,
  LabelLengths <- LabelDigestLengths, Prefix <- DigestPrefix, Hash <- DigestOf, Xor <- OctetXor

RsaCallsSpec == RE!EncodingInit /\ [][RE!EncodingNext]_rsaCall

(* DecryptionIsExact: decryption inverts encryption, and accepts nothing    *)
(* else (RsaEncodings: rsa_pkcs1v15 and rsa_oaep, encrypt and decrypt).     *)
DecryptionIsExact == RE!DecryptionIsExact

(* VerificationIsExact: verification accepts what signing makes, and        *)
(* nothing else (RsaEncodings: the functions rsa_sign and rsa_verify).      *)
VerificationIsExact == RE!VerificationIsExact
=============================================================================
