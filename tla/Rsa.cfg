SPECIFICATION MCSpec
CONSTANTS
  PrivateSizes <- MCPrivateSizes
  PublicSizes <- MCPublicSizes
  LeastMargin = 4
  GeneratedKeys <- MCGenerated
  PrimePairs <- MCPrimes
  KeyComponents <- MCComponents
  TrialMessages <- MCMessages
  PublicKeys <- MCPublicKeys
  MostRounds = 2
  LargestSmallFactor = 3
  LongestExponent = 2
  OctetBits = 2
  LeastPadding = 1
  LastOctet = 2
  RsaRequests <- MCCalls
  RsaArguments <- MCArguments
  DigestLength <- MCLength
  LabelDigestLengths = {1, 2, 3}
  DigestPrefix <- MCPrefix
  DigestOf <- MCHash
  OctetXor <- MCXor
INVARIANTS ValidatedKeyWorks QuarterOfBases AcceptedModulus DecryptionIsExact VerificationIsExact
CHECK_DEADLOCK FALSE
