SPECIFICATION SymmetricSpec
CONSTANTS
  ByteValues = 4
  SemiblockSize = 2
  Inputs <- MCInputs
  Xor <- MCXor
  Cipher <- MCCipher
  Decipher <- MCDecipher
  InitialValues <- MCInitialValues
  Width = 2
  KeyLengths = {2, 3}
  Reduction = 3
  BlockCipher <- ModeCipher
  BlockDecipher <- ModeDecipher
  TdesKeyLengths = {3}
  MaxLength = 5
  MaxBlocks = 18
  AeadWidth = 4
  CipherBlock = 8
  CounterSize = 1
  NonceLengths = {5, 6}
  TagLengths = {4, 6, 8}
  HeaderFlag = 8
  TagFlag = 2
  FixedNonce = 6
  ShortAad = 240
  ByteXor <- AeadXor
  Encrypt <- AeadEncrypt
  Multiply <- AeadMultiply
  Messages <- MCMessages
  PrfSize = 2
  CounterBits = 4
  LengthBits = 6
  Fields <- KdfFields
  MaxFields = 3
  OutputLengths = {0, 1, 2, 5, 6, 7, 8, 9, 33, 511, 513}
INVARIANTS WrapIsExact ModesInvert CmacIsStandard CountersFresh AeadInverts
INVARIANTS AuthenticatesEverything DerivesExactly
CHECK_DEADLOCK FALSE
