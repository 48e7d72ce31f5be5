------------------------------ MODULE Symmetric ------------------------------
(* The symmetric constructions: KeyWrap, BlockModes, Aead and CounterKdf.   *)
(* They share no state, so one behaviour belongs to one of them: part says  *)
(* which.                                                                   *)
EXTENDS KeyWrap

CONSTANTS
  Width, KeyLengths,
  Reduction, BlockCipher, BlockDecipher, TdesKeyLengths, MaxLength, MaxBlocks,
  AeadWidth, CipherBlock, CounterSize, NonceLengths, TagLengths, HeaderFlag, TagFlag,
  FixedNonce, ShortAad, ByteXor, Encrypt(_), Multiply(_, _), Messages,
  PrfSize, CounterBits, LengthBits, Fields, MaxFields, OutputLengths

VARIABLES part, operation, data, block, parameter, calls, message, answers, inverted
modes == <<operation, data, block, parameter, calls>>
aeads == <<message, answers, inverted>>

VARIABLES kdf, fields, output_length, extra_bits, position, counter, length, iteration,
          inputs, output
kdfs == <<kdf, fields, output_length, extra_bits, position, counter, length, iteration,
          inputs, output>>

BM == INSTANCE BlockModes WITH
  BlockSize <- SemiblockSize, Cipher <- BlockCipher, Decipher <- BlockDecipher
AE == INSTANCE Aead WITH
  Width <- AeadWidth, BlockSize <- CipherBlock, Xor <- ByteXor, inverse <- inverted
KD == INSTANCE CounterKdf

-----------------------------------------------------------------------------
Unused(variable) == variable = "unused"
WrapUnused ==
  /\ Unused(mode) /\ Unused(encrypting) /\ Unused(iv) /\ Unused(input) /\ Unused(n)
  /\ Unused(a) /\ Unused(r) /\ Unused(round) /\ Unused(index) /\ inverse = FALSE
ModesUnused ==
  Unused(operation) /\ Unused(data) /\ Unused(block) /\ Unused(parameter) /\ Unused(calls)
AeadsUnused == Unused(message) /\ Unused(answers) /\ Unused(inverted)
KdfsUnused ==
  /\ Unused(kdf) /\ Unused(fields) /\ Unused(output_length) /\ Unused(extra_bits)
  /\ Unused(position) /\ Unused(counter) /\ Unused(length)
  /\ Unused(iteration) /\ Unused(inputs) /\ Unused(output)

SymmetricInit ==
  \/ part = "wrap" /\ Init /\ ModesUnused /\ AeadsUnused /\ KdfsUnused
  \/ /\ part = "modes" /\ BM!Init /\ WrapUnused /\ AeadsUnused /\ KdfsUnused
     /\ Unused(original)
  \/ part = "aead" /\ AE!Init /\ WrapUnused /\ ModesUnused /\ KdfsUnused
  \/ /\ part = "kdf" /\ KD!Init /\ WrapUnused /\ ModesUnused /\ AeadsUnused
     /\ Unused(original)

WrapStepOf ==
  part = "wrap" /\ Next /\ UNCHANGED <<part, modes, aeads, kdfs>>
ModesStep ==
  /\ part = "modes" /\ BM!Next
  /\ UNCHANGED <<part, call, n, a, r, round, index, inverse, original, aeads, kdfs>>
AeadStep ==
  /\ part = "aead" /\ AE!Next
  /\ UNCHANGED <<part, call, n, a, r, round, index, inverse, modes, kdfs>>
KdfStep ==
  /\ part = "kdf" /\ KD!Next
  /\ UNCHANGED <<part, call, n, a, r, round, index, inverse, original, modes, aeads>>

SymmetricNext == WrapStepOf \/ ModesStep \/ AeadStep \/ KdfStep

symmetric == <<part, vars, modes, aeads, kdfs>>
SymmetricSpec == SymmetricInit /\ [][SymmetricNext]_symmetric

-----------------------------------------------------------------------------
(* The properties of the modules, each for its part.  WrapIsExact, of       *)
(* KeyWrap, is about an inverse call, which inverse says only in that part. *)

(* ModesInvert: CBC and ECB invert, with and without keys, and so do the    *)
(* paddings (BlockModes).                                                   *)
ModesInvert == part = "modes" => BM!ModesInvert /\ BM!PaddingsInvert

(* CmacIsStandard: every CMAC is that of SP 800-38B (BlockModes).           *)
CmacIsStandard == part = "modes" => BM!CmacIsStandard

(* CountersFresh: no counter block of CTR comes twice in a period, and no   *)
(* key block is used twice in a CCM or GCM message (BlockModes, Aead).      *)
CountersFresh ==
  /\ part = "modes" => BM!CtrNeverReuses
  /\ part = "aead" => AE!CountersFresh

(* AeadInverts: decryption inverts encryption and accepts nothing else      *)
(* (Aead: ccm_with, gcm_with and the functions with fixed lengths).         *)
AeadInverts == part = "aead" => AE!AeadInverts

(* AuthenticatesEverything: the authenticated string determines the         *)
(* message (Aead).                                                          *)
AuthenticatesEverything == part = "aead" => AE!AuthenticatesEverything

(* DerivesExactly: the inputs of a derived key's blocks are told apart by   *)
(* their fields, and the output is what was asked for (CounterKdf).         *)
DerivesExactly == part = "kdf" => KD!DerivesExactly
=============================================================================
