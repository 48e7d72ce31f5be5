-------------------------------- MODULE Aead --------------------------------
(***************************************************************************)
(* ccm_with (RFC 3610) and gcm_with (SP 800-38D) of                        *)
(* src/src/software_symmetric.rs, over a caller-supplied block encryptor.  *)
(*                                                                         *)
(* One behaviour is a call that encrypts or decrypts, and, when it returns *)
(* Ok, the inverse call on its output.  The widths of the code (bytes of   *)
(* 8 bits, blocks of 16 bytes, a 4-byte GCM counter, 2-byte CCM lengths    *)
(* below 0xff00) are constants, so that their limits come within reach.    *)
(***************************************************************************)
EXTENDS Integers, Sequences, Powers

CONSTANTS
  Width,                \* bits of a byte
  BlockSize,            \* AES_BLOCK_SIZE
  CounterSize,          \* bytes of the counter of GCM: 4
  NonceLengths,         \* of CCM: 7..=13
  TagLengths,           \* of CCM: 4, 6 .. 16
  HeaderFlag, TagFlag,  \* places in the flags of CCM: bits 6 and 3
  FixedNonce,           \* AES_CCM_NONCE_SIZE: 13
  KeyLengths,           \* of AES: 16, 24 and 32
  ShortAad,             \* CCM headers below it have a 2-byte length: 0xff00
  Xor,                  \* exclusive or of two bytes
  Encrypt(_),           \* the block encryptor
  Multiply(_, _),       \* the field multiplication of GHASH
  Messages              \* the calls to make

VARIABLES
  message,    \* the call: mode, nonce, aad, tag, encrypting, length, input;
              \* in the fixed mode length is that of the key
  answers,    \* how many callback calls the device answers
  inverse,    \* whether this is the inverse call
  original,   \* history: the input of the first call
  pc, result

vars == <<message, answers, inverse, original, pc, result>>

Radix == TwoTo[Width]
Byte == 0 .. Radix - 1
Block == [1 .. BlockSize -> Byte]

(* The assumptions of the properties: a callback that answers returns a    *)
(* block, and the calls have the types of their arguments.                 *)
WidthsFit == Width \in Nat \ {0} /\ BlockSize \in Nat \ {0} /\ Radix \in Nat \ {0}
FieldsFit ==
  /\ CounterSize \in 0 .. BlockSize /\ TagLengths \subseteq 4 .. BlockSize
  /\ NonceLengths \subseteq 0 .. BlockSize - 2
  /\ HeaderFlag \in Nat /\ TagFlag \in Nat \ {0}
(* The flags of CCM can be told apart, a long header's mark is no length,  *)
(* and a block holds two lengths.                                          *)
FlagsFit ==
  /\ HeaderFlag % TagFlag = 0 /\ BlockSize % 2 = 0
  /\ \A l \in NonceLengths : (BlockSize - 2) - l < TagFlag
  /\ \A t \in TagLengths : t % 2 = 0 /\ TagFlag * (t \div 2) <= HeaderFlag
  /\ ShortAad \in Nat /\ ShortAad <= TwoTo[Width * 2] - 2
XorIsInvolution ==
  \A x, y \in Byte : Xor[<<x, y>>] \in Byte /\ Xor[<<Xor[<<x, y>>], y>>] = x
EncryptsToBlocks == \A b : Encrypt(b) \in Block
MultipliesToBlocks == \A x, y : Multiply(x, y) \in Block
MessageType ==
  [mode : {"ccm", "fixed", "gcm"}, nonce : Seq(Byte), aad : Seq(Byte), tag : Nat,
   encrypting : BOOLEAN, length : Nat, input : Seq(Byte)]
MessagesFit == Messages \subseteq MessageType

Zeros(count) == [k \in 1 .. count |-> 0]
CeilDiv(x, y) == (x + y - 1) \div y
XorBytes(x, y) == SubSeq([k \in 1 .. Len(x) |-> Xor[<<x[k], y[k]>>]], 1, Len(x))
ToBytes(value, width) ==
  [k \in 1 .. width |-> (value \div TwoTo[Width * (width - k)]) % Radix]
Number(bytes) ==
  LET value[k \in 0 .. Len(bytes)] == IF k = 0 THEN 0 ELSE value[k - 1] * Radix + bytes[k]
  IN  value[Len(bytes)]
BlockAt(bytes, i) == SubSeq(bytes, (i - 1) * BlockSize + 1, i * BlockSize)
BlockCount(bytes) == CeilDiv(Len(bytes), BlockSize)
Padded(bytes) == bytes \o Zeros(BlockCount(bytes) * BlockSize - Len(bytes))

Ok(bytes) == [ok |-> TRUE, bytes |-> bytes]
Err == [ok |-> FALSE, bytes |-> << >>]

(* payload xor key stream; a partial block uses the front of its key block. *)
Masked(payload, KeyBlock(_)) ==
  LET stream == [i \in 1 .. BlockCount(payload) |-> KeyBlock(i)]
      place(k) == stream[((k - 1) \div BlockSize) + 1][((k - 1) % BlockSize) + 1]
  IN  XorBytes(payload, [k \in 1 .. Len(payload) |-> place(k)])

(* The end of both modes: append the tag, or compare it with the supplied  *)
(* one; a wrong tag releases nothing.                                      *)
Seal(encrypting, transformed, tag, supplied) ==
  IF encrypting THEN Ok(transformed \o tag)
  ELSE IF tag = supplied THEN Ok(transformed) ELSE Err

-----------------------------------------------------------------------------
(* CCM.                                                                    *)

LengthBytes(nonce) == (BlockSize - 1) - Len(nonce)

CcmCounterBlock(nonce, counter) ==
  <<LengthBytes(nonce) - 1>> \o nonce \o ToBytes(counter, LengthBytes(nonce))

CcmFirstBlock(nonce, aad, tag_length, data_length) ==
  LET header == IF aad = << >> THEN 0 ELSE HeaderFlag
      flags == header + TagFlag * ((tag_length - 2) \div 2) + LengthBytes(nonce) - 1
  IN  <<flags>> \o nonce \o ToBytes(data_length, LengthBytes(nonce))

(* Mutant of AadPrefix: the long form is forgotten.                        *)
AadPrefixShort(length) == ToBytes(length, 2)

AadPrefix(length) ==
  IF length < ShortAad THEN ToBytes(length, 2)
  ELSE <<Radix - 1, Radix - 2>> \o ToBytes(length, 4)

CcmMacInput(nonce, aad, tag_length, plaintext) ==
  LET header == IF aad = << >> THEN << >> ELSE Padded(AadPrefix(Len(aad)) \o aad)
  IN  CcmFirstBlock(nonce, aad, tag_length, Len(plaintext)) \o header \o Padded(plaintext)

(* CcmOperation::CbcMac, the second primitive the caller supplies.         *)
CbcMac(bytes) ==
  LET chain[i \in 0 .. BlockCount(bytes)] ==
        IF i = 0 THEN Zeros(BlockSize) ELSE Encrypt(XorBytes(BlockAt(bytes, i), chain[i - 1]))
  IN  chain[BlockCount(bytes)]

CcmAccepts(m) ==
  /\ Len(m.nonce) \in NonceLengths /\ m.tag \in TagLengths
  /\ m.length < TwoTo[Width * LengthBytes(m.nonce)] /\ Len(m.aad) < TwoTo[Width * 4]
  /\ Len(m.input) = IF m.encrypting THEN m.length ELSE m.length + m.tag

(* Mutant of CcmPlaintext: what is authenticated is always the payload.    *)
CcmPayload(m, payload, transformed) == payload

(* The tag covers the plaintext, whichever side of the cipher it is on.    *)
CcmPlaintext(m, payload, transformed) == IF m.encrypting THEN payload ELSE transformed

Ccm(m) ==
  LET KeyBlock(i) == Encrypt(CcmCounterBlock(m.nonce, i))
      payload == SubSeq(m.input, 1, m.length)
      transformed == Masked(payload, KeyBlock)
      mac == CbcMac(CcmMacInput(m.nonce, m.aad, m.tag, CcmPlaintext(m, payload, transformed)))
      tag == XorBytes(SubSeq(mac, 1, m.tag), SubSeq(KeyBlock(0), 1, m.tag))
  IN  IF ~CcmAccepts(m) \/ answers < 2 THEN Err
      ELSE Seal(m.encrypting, transformed, tag, SubSeq(m.input, m.length + 1, Len(m.input)))

(* encrypt_aes_ccm, encrypt_yubico_otp_aead and their inverses: the ccm    *)
(* crate without a header, with fixed lengths of nonce and tag; a key of a *)
(* checked length, and the length of the data from the input.              *)
FixedCcm(m) ==
  LET data_length == IF m.encrypting THEN Len(m.input) ELSE Len(m.input) - m.tag
  IN  IF \/ Len(m.nonce) # FixedNonce \/ data_length < 0
         \/ m.length \notin KeyLengths THEN Err
      ELSE Ccm([m EXCEPT !.mode = "ccm", !.length = data_length])

-----------------------------------------------------------------------------
(* GCM.                                                                    *)

GhashInput(aad, ciphertext) ==
  Padded(aad) \o Padded(ciphertext)
    \o ToBytes(Width * Len(aad), BlockSize \div 2)
    \o ToBytes(Width * Len(ciphertext), BlockSize \div 2)

(* GHASH itself comes from the ghash crate.                                *)
Ghash(key, bytes) ==
  LET acc[i \in 0 .. BlockCount(bytes)] ==
        IF i = 0 THEN Zeros(BlockSize) ELSE Multiply(XorBytes(acc[i - 1], BlockAt(bytes, i)), key)
  IN  acc[BlockCount(bytes)]

HashSubkey == Encrypt(Zeros(BlockSize))

GcmInitialCounter(iv) ==
  IF Len(iv) = BlockSize - CounterSize THEN iv \o ToBytes(1, CounterSize)
  ELSE Ghash(HashSubkey, GhashInput(<< >>, iv))

(* increment_gcm_counter, i times: only the last bytes count, modulo their *)
(* width.                                                                  *)
GcmCounterBlock(iv, i) ==
  LET initial == GcmInitialCounter(iv)
      front == BlockSize - CounterSize
      value == Number(SubSeq(initial, front + 1, BlockSize))
  IN  SubSeq(initial, 1, front) \o ToBytes(value + i, CounterSize)

(* gcm_tag: whole bytes, then the leading bits of one more.                *)
GcmTag(full, tag_bits) ==
  [k \in 1 .. CeilDiv(tag_bits, Width) |->
     IF k * Width <= tag_bits THEN full[k]
     ELSE LET unit == TwoTo[Width - (tag_bits % Width)] IN (full[k] \div unit) * unit]

(* Mutant of GcmBlockLimit: the counter may wrap.                          *)
GcmBlockLimitWraps == TwoTo[Width * CounterSize]

GcmBlockLimit == (TwoTo[Width * CounterSize] - 1) - 2     \* u32::MAX - 2

GcmTagLength(m) == CeilDiv(m.tag, Width)
GcmPayload(m) == IF m.encrypting THEN m.input
                 ELSE SubSeq(m.input, 1, Len(m.input) - GcmTagLength(m))

(* ghash refuses a string whose length in bits is beyond its u64; an iv of *)
(* the usual length is not hashed.                                         *)
GhashTakes(length) == Width * length < TwoTo[Width * (BlockSize \div 2)]

GcmAccepts(m) ==
  /\ m.nonce # << >> /\ m.tag <= BlockSize * Width
  /\ m.encrypting \/ Len(m.input) >= GcmTagLength(m)
  /\ BlockCount(GcmPayload(m)) <= GcmBlockLimit
  /\ Len(m.nonce) = BlockSize - CounterSize \/ GhashTakes(Len(m.nonce))
  /\ GhashTakes(Len(m.aad)) /\ GhashTakes(Len(GcmPayload(m)))

Gcm(m) ==
  LET KeyBlock(i) == Encrypt(GcmCounterBlock(m.nonce, i))
      payload == GcmPayload(m)
      transformed == Masked(payload, KeyBlock)
      ciphertext == IF m.encrypting THEN transformed ELSE payload
      hash == Ghash(HashSubkey, GhashInput(m.aad, ciphertext))
      tag == GcmTag(XorBytes(KeyBlock(0), hash), m.tag)
  IN  IF ~GcmAccepts(m) \/ answers < 2 THEN Err
      ELSE Seal(m.encrypting, transformed, tag, SubSeq(m.input, Len(payload) + 1, Len(m.input)))

-----------------------------------------------------------------------------
Init ==
  /\ message \in Messages /\ answers \in 0 .. 2
  /\ inverse = FALSE /\ original = message.input
  /\ pc = "call" /\ result = Err

Run ==
  /\ pc = "call" /\ pc' = "done"
  /\ result' = CASE message.mode = "ccm" -> Ccm(message)
                 [] message.mode = "fixed" -> FixedCcm(message)
                 [] message.mode = "gcm" -> Gcm(message)
  /\ UNCHANGED <<message, answers, inverse, original>>

(* The peer makes the inverse call on the output; in CCM it knows the      *)
(* length of the data.                                                     *)
RunInverse ==
  /\ pc = "done" /\ result.ok /\ ~inverse
  /\ inverse' = TRUE /\ pc' = "call"
  /\ message' = [message EXCEPT !.encrypting = ~@, !.input = result.bytes]
  /\ UNCHANGED <<answers, original, result>>

Next == Run \/ RunInverse

Spec == Init /\ [][Next]_vars

-----------------------------------------------------------------------------
(* AeadInverts: decryption returns what was encrypted, and everything that *)
(* decryption accepts is the one encryption of what it returned, tag bits  *)
(* beyond tag_bits included (ccm_with and gcm_with in both directions).    *)
AeadInverts == pc = "done" /\ inverse => result = Ok(original)

(* What the calls that returned Ok have authenticated.                     *)
Accepted(mode) == pc = "done" /\ message.mode = mode /\ result.ok
Plaintext == IF message.encrypting THEN message.input ELSE result.bytes
Ciphertext == IF message.encrypting
                THEN SubSeq(result.bytes, 1, Len(message.input))
                ELSE GcmPayload(message)

(* What a reader finds in a range of a string, nothing beyond its end.     *)
Slice(bytes, from, to) ==
  IF from >= 1 /\ to <= Len(bytes) THEN SubSeq(bytes, from, to) ELSE << >>

(* The reader of RFC 3610: all fields of the authenticated string.         *)
CcmFields(bytes) ==
  LET flags == bytes[1]
      width == (flags % TagFlag) + 1
      header == flags >= HeaderFlag
      short == Number(Slice(bytes, BlockSize + 1, BlockSize + 2))
      start == IF ~header THEN BlockSize + 1
               ELSE IF short < ShortAad THEN BlockSize + 3 ELSE BlockSize + 7
      length == IF ~header THEN 0
                ELSE IF short < ShortAad THEN short
                ELSE Number(Slice(bytes, BlockSize + 3, BlockSize + 6))
      body == CeilDiv(start - 1 + length, BlockSize) * BlockSize
  IN  [nonce |-> Slice(bytes, 2, BlockSize - width),
       tag |-> 2 * ((flags % HeaderFlag) \div TagFlag) + 2,
       aad |-> Slice(bytes, start, start + length - 1),
       plaintext |-> Slice(bytes, body + 1,
                            body + Number(Slice(bytes, BlockSize - width + 1, BlockSize)))]

GcmFields(bytes) ==
  LET last == Len(bytes) - BlockSize
      half == BlockSize \div 2
      aad_length == Number(Slice(bytes, last + 1, last + half)) \div Width
      length == Number(Slice(bytes, last + half + 1, last + BlockSize)) \div Width
      body == CeilDiv(aad_length, BlockSize) * BlockSize
  IN  [aad |-> Slice(bytes, 1, aad_length), ciphertext |-> Slice(bytes, body + 1, body + length)]

(* AuthenticatesEverything: the string that CCM authenticates determines   *)
(* nonce, tag length, header and plaintext, and the one that GCM hashes    *)
(* header and ciphertext: no two messages share it, whatever their lengths *)
(* (the prefix forms and the paddings of ccm_with, the lengths of ghash).  *)
AuthenticatesEverything ==
  /\ Accepted("ccm") =>
       CcmFields(CcmMacInput(message.nonce, message.aad, message.tag, Plaintext)) =
         [nonce |-> message.nonce, tag |-> message.tag, aad |-> message.aad,
          plaintext |-> Plaintext]
  /\ Accepted("gcm") =>
       GcmFields(GhashInput(message.aad, Ciphertext)) =
         [aad |-> message.aad, ciphertext |-> Ciphertext]

(* CountersFresh: within a message no key block is used twice, neither for *)
(* the payload nor for the tag, up to the longest message that is accepted *)
(* and from any initial counter; the counters of CCM are also distinct     *)
(* from the first block of its MAC.                                        *)
CountersFresh ==
  /\ Accepted("gcm") =>
       LET count == BlockCount(Ciphertext)
           at == [i \in 0 .. count |-> GcmCounterBlock(message.nonce, i)]
       IN  \A i, j \in 0 .. count : at[i] = at[j] => i = j
  /\ Accepted("ccm") =>
       LET count == BlockCount(Plaintext)
           at(i) == CcmCounterBlock(message.nonce, i)
       IN  /\ \A i, j \in 0 .. count : at(i) = at(j) => i = j
           /\ \A i \in 0 .. count :
                at(i) # CcmFirstBlock(message.nonce, message.aad, message.tag, message.length)
=============================================================================
