SPECIFICATION Spec
CONSTANTS
  MaxPresented = 4
  Horizon = 1
  Certificates <- MCCertificates
  Configurations <- MCConfigurations
  Chains <- MCChains
  Points <- MCPoints
  Named <- MCNamed
  P256Keys <- MCP256Keys
INVARIANTS Anchored TraversesPresentedIssuers
PROPERTIES FingerprintNamesTrust
CHECK_DEADLOCK FALSE
