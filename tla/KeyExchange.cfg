SPECIFICATION MCSpec
CONSTANTS
  Radix = 3
  Octets = {0, 1}
  MaxContext = 3
  MaxMessage = 3
  Oid <- MCOid
  DigestLength <- MCDigestLength
  Order = 7
  ChunkRadix = 4
  MaxContextLength = 2
  Contexts <- MCContexts
  Scalars = {0, 1, 2, 5, 6, 7}
  Materials <- MCMaterials
  Salts = {0, 1, 2, 3, 4, 5, 6}
  HybridSeeds <- SeedValues
  Expanded <- ExpandedSeeds
  Randomness <- RandomnessValues
  Nothing = Nothing
INVARIANTS
  SecretsMatch
  TicketsAreExact
  EcdsaIsExact
  SignaturesAreBound
CHECK_DEADLOCK FALSE
