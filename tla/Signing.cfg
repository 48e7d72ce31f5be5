SPECIFICATION SigningSpec
CONSTANTS
  Curves = {"P256", "Secp256k1", "P521", "BrainpoolP512"}
  EdwardsCurves = {"Ed25519", "Ed448"}
  ParameterSets = {"MlDsa44", "MlDsa65"}
  ModulusBits = {57, 96, 200}
  RsaHashes = {"Sha256", "Sha512"}
  OwnVerifier = "BrainpoolP512"
  Order <- MCOrder
  CoordinateLength <- MCCoordinate
  CurveHash <- MCCurveHash
  HashLength <- MCHashLength
  EdwardsLength <- MCEdwards
  SeedLength = 2
  ExpandedLength <- MCExpanded
  MinScalarLength = 2
  DocumentLength = 99
  MinBits = 57
  MaxBits = 128
  DigestInfoOverhead = 3
  Values = {0, 1, 3}
  Messages = {"m1", "m2"}
  Prehashes <- MCPrehashes
  Salts = {0, 2}
  None = None
  Radix = 16
  SequenceTag = 3
  IntegerTag = 2
  Widths = {1, 2, 3}
  Coordinates = {0, 1, 8}
  DerOrder <- MCDerOrder
INVARIANTS KeySurvives VerifiesExactly DerIsCanonical
CHECK_DEADLOCK FALSE
