SPECIFICATION MCSpec
CONSTANTS
  KemSets = {"MlKem512", "MlKem768"}
  DsaSets = {"MlDsa44", "MlDsa65"}
  Seeds = {1, 2}
  ExpandedLength <- MCExpanded
  PublicLength <- MCPublic
  CiphertextLength <- MCCiphertext
  KemSeedLength = 64
  DsaSeedLength = 32
  Messages = {"m1", "m2"}
  None = None
INVARIANTS KeysAreWhole OnlyGeneratedKeys
CHECK_DEADLOCK FALSE
