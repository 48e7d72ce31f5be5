----------------------------- MODULE BlockModes -----------------------------
(***************************************************************************)
(* CBC, CTR, CMAC and PKCS #7 padding of src/src/software_symmetric.rs,    *)
(* and the ISO 7816-4 padding of src/src/secure_channel.rs: constructions  *)
(* over a block transformation that the caller supplies, often a command   *)
(* of a hardware token that may fail at any call.                          *)
(*                                                                         *)
(* One behaviour is one call: Init chooses its arguments, Run computes its *)
(* result.  A byte has Width bits and a block BlockSize bytes, so that all *)
(* short inputs can be enumerated.  BlockSize stands for a size that the   *)
(* functions take: they refuse 0 (cbc_with, ctr_with), more than 16        *)
(* (ctr_with) and anything but 8 and 16 (CMAC) before they look further.   *)
(***************************************************************************)
EXTENDS Integers, Sequences, Powers

CONSTANTS
  Width,        \* bits of a byte
  BlockSize,    \* bytes of a block
  Reduction,    \* the constant of cmac_double for this block size
  Xor,          \* exclusive or of two bytes
  Cipher, Decipher,  \* the block transformation and its inverse
  KeyLengths,   \* of AES: 16, 24 and 32
  TdesKeyLengths,    \* of triple DES: 24
  MaxLength,    \* bound on the length of data
  MaxBlocks     \* bound on the number of counter blocks

Radix == TwoTo[Width]
Byte == 0 .. Radix - 1
Block == [1 .. BlockSize -> Byte]
Strings(length) == [1 .. length -> Byte]
Data == UNION {Strings(l) : l \in 0 .. MaxLength}

(* The assumptions of the properties.                                      *)
WidthsFit ==
  /\ Width \in Nat \ {0} /\ BlockSize \in Nat \ {0} /\ Radix \in Nat /\ 2 <= Radix
  /\ MaxLength \in Nat /\ MaxBlocks \in Nat

CipherIsPermutation ==
  /\ Cipher \in [Block -> Block] /\ Decipher \in [Block -> Block]
  /\ \A b \in Block : Decipher[Cipher[b]] = b /\ Cipher[Decipher[b]] = b

XorIsInvolution ==
  \A x, y \in Byte : Xor[<<x, y>>] \in Byte /\ Xor[<<Xor[<<x, y>>], y>>] = x

ReductionFits == Reduction \in Byte /\ \A x \in Byte : Xor[<<x, 0>>] = x

VARIABLES
  operation, data,  \* the function called and its main argument
  block,            \* its iv, counter block, or the block to double
  parameter,        \* counter_bits, block_length or the length of a key
  calls,            \* how many callback calls the device answers
  pc, result

vars == <<operation, data, block, parameter, calls, pc, result>>

Ok(bytes) == [ok |-> TRUE, bytes |-> bytes]
Err == [ok |-> FALSE, bytes |-> << >>]

ZeroBlock == [k \in 1 .. BlockSize |-> 0]
XorBytes(x, y) == [k \in 1 .. Len(x) |-> Xor[<<x[k], y[k]>>]]
CeilDiv(x, y) == (x + y - 1) \div y
BlockCount(bytes) == CeilDiv(Len(bytes), BlockSize)
BlockAt(bytes, i) == SubSeq(bytes, (i - 1) * BlockSize + 1, i * BlockSize)
Concat(blocks, count) ==
  [k \in 1 .. count * BlockSize |->
     blocks[((k - 1) \div BlockSize) + 1][((k - 1) % BlockSize) + 1]]
WholeBlocks(bytes) == Len(bytes) % BlockSize = 0

(* A callback answers unless the device has failed before.                 *)
Answered(needed, output) == IF needed <= calls THEN Ok(output) ELSE Err

-----------------------------------------------------------------------------
(* cbc_with.  Encryption calls the device once for every block, decryption *)
(* once for all of them.                                                   *)

CbcChain(iv, bytes) ==
  LET chain[i \in 0 .. BlockCount(bytes)] ==
        IF i = 0 THEN iv ELSE Cipher[XorBytes(BlockAt(bytes, i), chain[i - 1])]
  IN  chain

CbcEncrypt(iv, bytes) ==
  IF Len(iv) # BlockSize \/ ~WholeBlocks(bytes) THEN Err
  ELSE Answered(BlockCount(bytes), Concat(CbcChain(iv, bytes), BlockCount(bytes)))

(* Mutant of CbcDecrypt: the chaining block is the decrypted one.          *)
CbcDecryptChained(iv, bytes) ==
  LET chain[i \in 0 .. BlockCount(bytes)] ==
        IF i = 0 THEN iv ELSE XorBytes(Decipher[BlockAt(bytes, i)], chain[i - 1])
  IN  IF Len(iv) # BlockSize \/ ~WholeBlocks(bytes) THEN Err
      ELSE Answered(1, Concat(chain, BlockCount(bytes)))

CbcDecrypt(iv, bytes) ==
  LET previous(i) == IF i = 1 THEN iv ELSE BlockAt(bytes, i - 1)
      plain == [i \in 1 .. BlockCount(bytes) |->
                  XorBytes(Decipher[BlockAt(bytes, i)], previous(i))]
  IN  IF Len(iv) # BlockSize \/ ~WholeBlocks(bytes) THEN Err
      ELSE Answered(1, Concat(plain, BlockCount(bytes)))

-----------------------------------------------------------------------------
(* ECB and CBC with a key in memory, whose length is checked by the        *)
(* callback: transform_ecb, crypt_tdes_ecb and the functions above them.   *)

Ecb(key_lengths, Transform, key_length, bytes) ==
  LET blocks == [i \in 1 .. BlockCount(bytes) |-> Transform[BlockAt(bytes, i)]]
  IN  IF ~WholeBlocks(bytes) \/ key_length \notin key_lengths THEN Err
      ELSE Ok(Concat(blocks, BlockCount(bytes)))

AesEcb(encrypting, key_length, bytes) ==
  Ecb(KeyLengths, IF encrypting THEN Cipher ELSE Decipher, key_length, bytes)

TdesEcb(encrypting, key_length, bytes) ==
  Ecb(TdesKeyLengths, IF encrypting THEN Cipher ELSE Decipher, key_length, bytes)

(* Encryption calls back once for a block, so that a key of a wrong length *)
(* goes unnoticed with no data; decryption calls back in any case.         *)
KeyedCbc(key_lengths, encrypting, key_length, iv, bytes) ==
  LET output == IF encrypting THEN CbcEncrypt(iv, bytes) ELSE CbcDecrypt(iv, bytes)
      called == ~encrypting \/ bytes # << >>
  IN  IF called /\ key_length \notin key_lengths THEN Err ELSE output

AesCbc(encrypting, key_length, iv, bytes) == KeyedCbc(KeyLengths, encrypting, key_length, iv, bytes)

TdesCbc(encrypting, key_length, iv, bytes) ==
  KeyedCbc(TdesKeyLengths, encrypting, key_length, iv, bytes)

-----------------------------------------------------------------------------
(* CMAC.                                                                   *)

(* Mutant of CmacDouble: the carry out of the first byte is not reduced.   *)
CmacShift(b) ==
  [k \in 1 .. BlockSize |->
     ((2 * b[k]) % Radix) + IF k < BlockSize THEN b[k + 1] \div (Radix \div 2) ELSE 0]

(* Every byte is shifted and takes the top bit of the next; the bit lost   *)
(* at the front is folded into the last byte.                              *)
CmacDouble(b) ==
  LET shifted == [k \in 1 .. BlockSize |->
        ((2 * b[k]) % Radix) + IF k < BlockSize THEN b[k + 1] \div (Radix \div 2) ELSE 0]
      carry == b[1] \div (Radix \div 2)
  IN  [shifted EXCEPT ![BlockSize] = Xor[<<@, carry * Reduction>>]]

Complete(bytes) == bytes # << >> /\ WholeBlocks(bytes)

CmacLastSubkey(bytes) ==
  LET subkey == CmacDouble(Cipher[ZeroBlock])
  IN  IF Complete(bytes) THEN subkey ELSE CmacDouble(subkey)

Mark == Radix \div 2     \* 0x80

(* cmac_with: block by block, the last one padded and masked in place.     *)
CmacWith(bytes) ==
  LET count == IF Len(bytes) = 0 THEN 1 ELSE BlockCount(bytes)
      available(i) == IF i * BlockSize <= Len(bytes) THEN BlockSize
                      ELSE Len(bytes) - (i - 1) * BlockSize
      filled(i) == [k \in 1 .. BlockSize |->
                      IF k <= available(i) THEN bytes[(i - 1) * BlockSize + k]
                      ELSE IF k = available(i) + 1 /\ i = count /\ ~Complete(bytes)
                        THEN Mark ELSE 0]
      masked(i) == IF i = count THEN XorBytes(filled(i), CmacLastSubkey(bytes)) ELSE filled(i)
      chain[i \in 0 .. count] ==
        IF i = 0 THEN ZeroBlock ELSE Cipher[XorBytes(masked(i), chain[i - 1])]
  IN  Answered(count + 1, chain[count])

(* cmac_with_cbc: the whole message is prepared, then one CBC call with a  *)
(* zero iv; the tag is the last block of its ciphertext.                   *)
CmacWithCbc(bytes) ==
  LET length == IF Complete(bytes) THEN Len(bytes)
                ELSE Len(bytes) + BlockSize - (Len(bytes) % BlockSize)
      padded == [k \in 1 .. length |->
                   IF k <= Len(bytes) THEN bytes[k] ELSE IF k = Len(bytes) + 1 THEN Mark ELSE 0]
      last == length - BlockSize
      prepared == [k \in 1 .. length |->
                     IF k > last THEN Xor[<<padded[k], CmacLastSubkey(bytes)[k - last]>>]
                     ELSE padded[k]]
  IN  Answered(2, CbcChain(ZeroBlock, prepared)[length \div BlockSize])

(* aes_cmac: the cmac crate, with a key of a checked length.               *)
AesCmac(key_length, bytes) == IF key_length \in KeyLengths THEN CmacWith(bytes) ELSE Err

-----------------------------------------------------------------------------
(* ctr_with.                                                               *)

Number(b) ==
  LET value[k \in 0 .. Len(b)] == IF k = 0 THEN 0 ELSE value[k - 1] * Radix + b[k]
  IN  value[Len(b)]
ToBlock(value) == [k \in 1 .. BlockSize |-> (value \div TwoTo[Width * (BlockSize - k)]) % Radix]

(* The low counter_bits count on modulo their width; the rest is fixed.    *)
CtrBlock(counter_bits, b, offset) ==
  LET modulus == TwoTo[counter_bits]
      counter == Number(b) % modulus
  IN  ToBlock(Number(b) - counter + ((counter + offset) % modulus))

CtrWith(counter_bits, b, bytes) ==
  LET stream == Concat([i \in 1 .. BlockCount(bytes) |->
                          Cipher[CtrBlock(counter_bits, b, i - 1)]], BlockCount(bytes))
  IN  IF counter_bits \notin 1 .. BlockSize * Width THEN Err
      ELSE Answered(1, XorBytes(bytes, stream))

-----------------------------------------------------------------------------
(* Padding.                                                                *)

BlockLengths == 1 .. Radix - 1      \* 1..=u8::MAX

ApplyPkcs7(bytes, block_length) ==
  LET padding == block_length - (Len(bytes) % block_length)
  IN  IF block_length \notin BlockLengths THEN Err
      ELSE Ok(bytes \o [k \in 1 .. padding |-> padding])

RemovePkcs7(bytes, block_length) ==
  IF block_length \notin BlockLengths \/ Len(bytes) < block_length THEN Err
  ELSE LET padding == bytes[Len(bytes)] IN
       IF \/ padding = 0 \/ padding > block_length
          \/ \E i \in 0 .. block_length - 1 : i < padding /\ bytes[Len(bytes) - i] # padding
         THEN Err ELSE Ok(SubSeq(bytes, 1, Len(bytes) - padding))

PadIso7816(bytes) ==
  LET length == CeilDiv(Len(bytes) + 1, BlockSize) * BlockSize
  IN  [k \in 1 .. length |->
         IF k <= Len(bytes) THEN bytes[k] ELSE IF k = Len(bytes) + 1 THEN Mark ELSE 0]

UnpadIso7816(bytes) ==
  LET nonzero == {k \in 1 .. Len(bytes) : bytes[k] # 0}
      marker == CHOOSE k \in nonzero : \A j \in nonzero : j <= k
  IN  IF nonzero = {} THEN Err
      ELSE IF bytes[marker] # Mark THEN Err
      ELSE Ok(SubSeq(bytes, 1, marker - 1))

-----------------------------------------------------------------------------
(* One call.                                                               *)

Call(op, bytes, b, p) ==
  CASE op = "cbc_encrypt" -> CbcEncrypt(b, bytes)
    [] op = "cbc_decrypt" -> CbcDecrypt(b, bytes)
    [] op = "aes_ecb_encrypt" -> AesEcb(TRUE, p, bytes)
    [] op = "aes_ecb_decrypt" -> AesEcb(FALSE, p, bytes)
    [] op = "tdes_ecb_encrypt" -> TdesEcb(TRUE, p, bytes)
    [] op = "tdes_ecb_decrypt" -> TdesEcb(FALSE, p, bytes)
    [] op = "aes_cbc_encrypt" -> AesCbc(TRUE, p, b, bytes)
    [] op = "aes_cbc_decrypt" -> AesCbc(FALSE, p, b, bytes)
    [] op = "tdes_cbc_encrypt" -> TdesCbc(TRUE, p, b, bytes)
    [] op = "tdes_cbc_decrypt" -> TdesCbc(FALSE, p, b, bytes)
    [] op = "aes_cmac" -> AesCmac(p, bytes)
    [] op = "cmac_with" -> CmacWith(bytes)
    [] op = "cmac_with_cbc" -> CmacWithCbc(bytes)
    [] op = "ctr" -> CtrWith(p, b, bytes)
    [] op = "pkcs7_apply" -> ApplyPkcs7(bytes, p)
    [] op = "pkcs7_remove" -> RemovePkcs7(bytes, p)
    [] op = "iso7816_pad" -> Ok(PadIso7816(bytes))
    [] op = "iso7816_unpad" -> UnpadIso7816(bytes)

(* The functions with a key, each with its inverse.                        *)
InverseOf ==
  [aes_ecb_encrypt |-> "aes_ecb_decrypt", tdes_ecb_encrypt |-> "tdes_ecb_decrypt",
   aes_cbc_encrypt |-> "aes_cbc_decrypt", tdes_cbc_encrypt |-> "tdes_cbc_decrypt"]
Encryptions == DOMAIN InverseOf
Decryptions == {InverseOf[op] : op \in Encryptions}

Init ==
  /\ pc = "call" /\ result = Err
  /\ \/ /\ operation \in {"cbc_encrypt", "cbc_decrypt"}
        /\ data \in Data /\ block \in Block \cup {<<0>>} /\ parameter = 0
        /\ calls \in 0 .. MaxLength \div BlockSize
     \/ /\ operation \in {"cmac_with", "cmac_with_cbc", "iso7816_pad", "iso7816_unpad"}
        /\ data \in Data /\ block = ZeroBlock /\ parameter = 0
        /\ calls \in 0 .. CeilDiv(MaxLength, BlockSize) + 1
     \/ /\ operation \in Encryptions \cup Decryptions \cup {"aes_cmac"}
        /\ data \in Data /\ block \in {ZeroBlock, [ZeroBlock EXCEPT ![1] = 1]}
        /\ parameter \in 0 .. Radix /\ calls = MaxLength
     \/ /\ operation \in {"pkcs7_apply", "pkcs7_remove"}
        /\ data \in Data /\ block = ZeroBlock /\ parameter \in 0 .. Radix
        /\ calls = 0
     \/ /\ operation = "ctr"
        /\ \E l \in 0 .. MaxBlocks * BlockSize : data = [k \in 1 .. l |-> k % Radix]
        /\ block \in Block /\ parameter \in 0 .. BlockSize * Width + 1
        /\ calls \in 0 .. 1

Run ==
  /\ pc = "call" /\ pc' = "done"
  /\ result' = Call(operation, data, block, parameter)
  /\ UNCHANGED <<operation, data, block, parameter, calls>>

Next == Run

Spec == Init /\ [][Next]_vars

-----------------------------------------------------------------------------
Returned(op) == pc = "done" /\ operation = op /\ result.ok
Undo(op) == Call(op, result.bytes, block, parameter)

(* ModesInvert: CBC and ECB decryption of a ciphertext give the plaintext  *)
(* back, and the other way round, although CBC encrypts block by block and *)
(* decrypts the whole input; a key of a length the cipher does not have    *)
(* transforms no data (cbc_with, transform_ecb, crypt_tdes_ecb, crypt_tdes_cbc). *)
ModesInvert ==
  /\ Returned("cbc_encrypt") /\ calls > 0 => Undo("cbc_decrypt") = Ok(data)
  /\ Returned("cbc_decrypt") /\ calls >= BlockCount(data) => Undo("cbc_encrypt") = Ok(data)
  /\ \A op \in Encryptions :
       /\ Returned(op) /\ data # << >> => Undo(InverseOf[op]) = Ok(data)
       /\ Returned(InverseOf[op]) => Undo(op) = Ok(data)

(* The definition of SP 800-38B, on numbers: double in the field.          *)
DoubleNumber(value) ==
  LET limit == TwoTo[Width * BlockSize]
      doubled == (2 * value) % limit
  IN  IF 2 * value < limit THEN ToBlock(doubled)
      ELSE XorBytes(ToBlock(doubled), ToBlock(Reduction))

(* CmacIsStandard: all CMAC constructions return the tag of SP 800-38B:   *)
(* the CBC chain over the message, whose last block is masked with the     *)
(* doubled or twice doubled encryption of zero, for empty, partial and     *)
(* complete last blocks.                                                   *)
CmacIsStandard ==
  Returned("cmac_with") \/ Returned("cmac_with_cbc") \/ Returned("aes_cmac") =>
    LET k1 == DoubleNumber(Number(Cipher[ZeroBlock]))
        k2 == DoubleNumber(Number(k1))
        count == IF data = << >> THEN 1 ELSE BlockCount(data)
        tail == SubSeq(data, (count - 1) * BlockSize + 1, Len(data))
        last == IF Len(tail) = BlockSize THEN XorBytes(tail, k1)
                ELSE XorBytes(PadIso7816(tail), k2)
        message == SubSeq(data, 1, (count - 1) * BlockSize) \o last
    IN  result.bytes = CbcChain(ZeroBlock, message)[count]

(* CtrNeverReuses: two counter blocks of one message are equal only when   *)
(* they are a whole period of the counter apart, and none leaves the fixed *)
(* part of the caller's block; applying CTR twice gives the input back     *)
(* (ctr_with; a message longer than the period is not refused).            *)
CtrNeverReuses ==
  Returned("ctr") =>
    LET at(i) == CtrBlock(parameter, block, i) IN
    /\ \A i, j \in 0 .. BlockCount(data) - 1 :
         at(i) = at(j) => (j - i) % TwoTo[parameter] = 0
    /\ \A i \in 0 .. BlockCount(data) - 1 :
         Number(at(i)) \div TwoTo[parameter] = Number(block) \div TwoTo[parameter]
    /\ Undo("ctr") = Ok(data)

(* PaddingsInvert: removing applied PKCS#7 padding gives the data back,    *)
(* and on whole blocks nothing but applied padding is accepted; ISO 7816   *)
(* unpadding finds the marker whatever the data ends with.                 *)
PaddingsInvert ==
  /\ Returned("pkcs7_apply") => Undo("pkcs7_remove") = Ok(data)
  /\ Returned("pkcs7_remove") /\ Len(data) % parameter = 0 => Undo("pkcs7_apply") = Ok(data)
  /\ Returned("iso7816_pad") => Undo("iso7816_unpad") = Ok(data)
  /\ Returned("iso7816_unpad") =>
       \E k \in 0 .. Len(data) : data = result.bytes \o <<Mark>> \o [i \in 1 .. k |-> 0]
=============================================================================
