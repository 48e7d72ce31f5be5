------------------------------ MODULE KeyWrap ------------------------------
(***************************************************************************)
(* key_wrap_with (RFC 3394) and key_wrap_with_padding_with (RFC 5649) of   *)
(* src/src/software_symmetric.rs, over a caller-supplied block cipher.     *)
(*                                                                         *)
(* A call runs key_wrap_rounds one block at a time, because every block is *)
(* a callback that may fail.  When a call has returned Ok, the inverse     *)
(* call is made with its output, so that the two directions can be held    *)
(* against each other.                                                     *)
(*                                                                         *)
(* The size of a semiblock (8 bytes) and the number of values of a byte    *)
(* are constants, so that a small cipher can be enumerated: u32 is half a  *)
(* semiblock here as it is there.                                          *)
(***************************************************************************)
EXTENDS Integers, Sequences

CONSTANTS
  ByteValues,        \* number of values of a byte
  SemiblockSize,     \* KEY_WRAP_SEMIBLOCK_SIZE, in bytes
  Inputs,            \* the byte strings to wrap and to unwrap
  Xor,               \* exclusive or of two bytes
  Cipher, Decipher,  \* the block cipher behind crypt_block, and its inverse
  InitialValues      \* the initial values callers supply

Byte == 0 .. ByteValues - 1
Semi == [1 .. SemiblockSize -> Byte]
Block == Semi \X Semi

ASSUME WidthAssumption == ByteValues \in Nat \ {0} /\ SemiblockSize \in Nat \ {0}

(* Exclusive or is an involution; the cipher is a permutation of Block.    *)
ASSUME XorAssumption ==
  /\ Xor \in [Byte \X Byte -> Byte]
  /\ \A x, y \in Byte : Xor[<<Xor[<<x, y>>], y>>] = x

ASSUME CipherAssumption ==
  /\ Cipher \in [Block -> Block] /\ Decipher \in [Block -> Block]
  /\ \A b \in Block : Decipher[Cipher[b]] = b /\ Cipher[Decipher[b]] = b

ASSUME CallerAssumption ==
  (\A bytes \in Inputs : bytes \in Seq(Byte)) /\ \A v \in InitialValues : v \in Seq(Byte)

Half == SemiblockSize \div 2
LengthSize == SemiblockSize - Half  \* of the u32 behind half a semiblock
BlockSize == 2 * SemiblockSize      \* AES_BLOCK_SIZE
Rounds == 6

(* The powers of the radix, for the octets of u32 and u64.                 *)
Power[k \in 0 .. SemiblockSize] == IF k = 0 THEN 1 ELSE ByteValues * Power[k - 1]
LengthLimit == Power[LengthSize] - 1     \* u32::MAX

VARIABLES
  mode, encrypting, iv, input,  \* the call
  pc,                           \* call, rounds, single or done
  n, a, r, round, index,        \* locals of key_wrap_rounds, n its semiblocks
  result,                       \* what the call returned
  inverse,                      \* whether this is the inverse call
  original                      \* history: the input of the first call

call == <<mode, encrypting, iv, input>>
vars == <<call, pc, n, a, r, round, index, result, inverse, original>>

Ok(bytes) == [ok |-> TRUE, bytes |-> bytes]
Err == [ok |-> FALSE, bytes |-> << >>]

Strings(length) == [1 .. length -> Byte]
ZeroSemi == [k \in 1 .. SemiblockSize |-> 0]

Init ==
  /\ mode \in {"KW", "KWP"} /\ encrypting \in BOOLEAN /\ iv \in InitialValues
  /\ input \in Inputs
  /\ pc = "call"
  /\ n = 0 /\ a = ZeroSemi /\ r = << >> /\ round = 0 /\ index = 0
  /\ result = Err /\ inverse = FALSE
  /\ original = input

-----------------------------------------------------------------------------
(* Bytes and semiblocks.                                                   *)

Semiblock(bytes, i) == [k \in 1 .. SemiblockSize |-> bytes[(i - 1) * SemiblockSize + k]]
Semiblocks(bytes) == [i \in 1 .. Len(bytes) \div SemiblockSize |-> Semiblock(bytes, i)]
Bytes(semis, count) ==
  [k \in 1 .. count * SemiblockSize |->
     semis[((k - 1) \div SemiblockSize) + 1][((k - 1) % SemiblockSize) + 1]]

ToBytes(value, width) == [k \in 1 .. width |-> (value \div Power[width - k]) % ByteValues]
FromBytes(bytes) ==
  CHOOSE value \in 0 .. Power[Len(bytes)] - 1 : ToBytes(value, Len(bytes)) = bytes

Padded(bytes) ==
  LET length == ((Len(bytes) + SemiblockSize - 1) \div SemiblockSize) * SemiblockSize
  IN  [k \in 1 .. length |-> IF k <= Len(bytes) THEN bytes[k] ELSE 0]

XorSemi(x, y) == [k \in 1 .. SemiblockSize |-> Xor[<<x[k], y[k]>>]]

(* counter of round s and index i, both from 0, for count semiblocks.      *)
Counter(s, i, count) == ToBytes(count * s + i + 1, SemiblockSize)

(* One block in each direction: transformed, with the counter mixed in.    *)
WrapBlock(s, i, left, right) ==
  LET transformed == Cipher[<<left, right>>]
  IN  <<XorSemi(transformed[1], Counter(s, i, n)), transformed[2]>>

UnwrapBlock(s, i, left, right) == Decipher[<<XorSemi(left, Counter(s, i, n)), right>>]

-----------------------------------------------------------------------------
(* The checks before the first block, and the start of the rounds.         *)

IvLength == IF mode = "KW" THEN SemiblockSize ELSE Half
Whole == Len(input) % SemiblockSize = 0

Acceptable ==
  /\ Len(iv) = IvLength
  /\ \/ mode = "KW" /\ encrypting /\ Len(input) >= BlockSize /\ Whole
     \/ mode = "KW" /\ ~encrypting /\ Len(input) >= BlockSize + SemiblockSize /\ Whole
     \/ mode = "KWP" /\ encrypting /\ Len(input) \in 1 .. LengthLimit
     \/ mode = "KWP" /\ ~encrypting /\ Len(input) >= BlockSize /\ Whole

Reject ==
  /\ pc = "call" /\ ~Acceptable
  /\ result' = Err /\ pc' = "done"
  /\ UNCHANGED <<call, n, a, r, round, index, inverse, original>>

(* A wrap begins with the initial value and, for padding, the length; an   *)
(* unwrap with the first semiblock, behind the last block of the last      *)
(* round.  A padded key of one semiblock is a single block.                *)
Start ==
  /\ pc = "call" /\ Acceptable
  /\ a' = CASE ~encrypting -> Semiblock(input, 1)
            [] encrypting /\ mode = "KW" -> iv
            [] encrypting /\ mode = "KWP" -> iv \o ToBytes(Len(input), LengthSize)
  /\ r' = IF encrypting THEN Semiblocks(Padded(input)) ELSE Tail(Semiblocks(input))
  /\ n' = Len(r')
  /\ round' = IF encrypting THEN 0 ELSE Rounds
  /\ index' = 0
  /\ pc' = IF mode = "KWP" /\ n' = 1 THEN "single" ELSE "rounds"
  /\ UNCHANGED <<call, result, inverse, original>>

(* The callback fails or returns a block of another size: nothing of the   *)
(* output built so far is returned.                                        *)
CallbackFails ==
  /\ \/ pc = "single"
     \/ pc = "rounds" /\ IF encrypting THEN round < Rounds ELSE <<round, index>> # <<0, 0>>
  /\ result' = Err /\ pc' = "done"
  /\ UNCHANGED <<call, n, a, r, round, index, inverse, original>>

WrapStep ==
  LET transformed == WrapBlock(round, index, a, r[index + 1]) IN
  /\ pc = "rounds" /\ encrypting /\ round < Rounds
  /\ a' = transformed[1] /\ r' = [r EXCEPT ![index + 1] = transformed[2]]
  /\ index' = IF index + 1 < n THEN index + 1 ELSE 0
  /\ round' = IF index + 1 < n THEN round ELSE round + 1
  /\ UNCHANGED <<call, pc, n, result, inverse, original>>

(* The loops of the other direction run backwards.                         *)
UnwrapStep ==
  /\ pc = "rounds" /\ ~encrypting /\ <<round, index>> # <<0, 0>>
  /\ index' = IF index > 0 THEN index - 1 ELSE n - 1
  /\ round' = IF index > 0 THEN round ELSE round - 1
  /\ LET transformed == UnwrapBlock(round', index', a, r[index' + 1]) IN
       /\ a' = transformed[1] /\ r' = [r EXCEPT ![index' + 1] = transformed[2]]
  /\ UNCHANGED <<call, pc, n, result, inverse, original>>

SingleBlock ==
  /\ pc = "single"
  /\ LET transformed == IF encrypting THEN Cipher[<<a, r[1]>>] ELSE Decipher[<<a, r[1]>>] IN
       a' = transformed[1] /\ r' = <<transformed[2]>>
  /\ round' = (IF encrypting THEN Rounds ELSE 0) /\ index' = 0
  /\ pc' = "rounds"
  /\ UNCHANGED <<call, n, result, inverse, original>>

-----------------------------------------------------------------------------
(* The end of the call.                                                    *)

FinishWrap ==
  /\ pc = "rounds" /\ encrypting /\ round = Rounds
  /\ result' = Ok(a \o Bytes(r, n)) /\ pc' = "done"
  /\ UNCHANGED <<call, n, a, r, round, index, inverse, original>>

(* Mutant of Authentic: the bytes beyond the message are not looked at.    *)
AuthenticLength(message_length) ==
  /\ SubSeq(a, 1, Half) = iv
  /\ (n - 1) * SemiblockSize < message_length /\ message_length <= n * SemiblockSize

(* The three conditions of a padded key: the constant half, the length in  *)
(* the last semiblock, zeros behind it.                                    *)
Authentic(message_length) ==
  /\ SubSeq(a, 1, Half) = iv
  /\ (n - 1) * SemiblockSize < message_length /\ message_length <= n * SemiblockSize
  /\ \A k \in 1 .. n * SemiblockSize : k > message_length => Bytes(r, n)[k] = 0

FinishUnwrap ==
  LET message_length == FromBytes(SubSeq(a, Half + 1, SemiblockSize)) IN
  /\ pc = "rounds" /\ ~encrypting /\ <<round, index>> = <<0, 0>>
  /\ result' = IF mode = "KW" THEN IF a = iv THEN Ok(Bytes(r, n)) ELSE Err
               ELSE IF Authentic(message_length)
                      THEN Ok(SubSeq(Bytes(r, n), 1, message_length)) ELSE Err
  /\ pc' = "done"
  /\ UNCHANGED <<call, n, a, r, round, index, inverse, original>>

(* The caller hands the output to the inverse call.                        *)
CallInverse ==
  /\ pc = "done" /\ result.ok /\ ~inverse
  /\ inverse' = TRUE
  /\ encrypting' = ~encrypting /\ input' = result.bytes
  /\ pc' = "call" /\ result' = Err
  /\ UNCHANGED <<mode, iv, n, a, r, round, index, original>>

Next ==
  \/ Reject \/ Start \/ CallbackFails \/ WrapStep \/ UnwrapStep \/ SingleBlock
  \/ FinishWrap \/ FinishUnwrap \/ CallInverse

Spec == Init /\ [][Next]_vars

-----------------------------------------------------------------------------
(* WrapIsExact: a wrapped key unwraps to itself, and every input that      *)
(* unwrap accepts is the one wrapping of its output: the inverse call      *)
(* finds neither the length nor the authentication of its input wrong, and *)
(* returns what the first call was given, unless its callback fails        *)
(* (key_wrap_with and key_wrap_with_padding_with in both directions).      *)
WrapIsExact ==
  inverse =>
    /\ pc = "call" => Acceptable
    /\ pc = "rounds" /\ ~encrypting /\ <<round, index>> = <<0, 0>> =>
         IF mode = "KW" THEN a = iv
         ELSE Authentic(FromBytes(SubSeq(a, Half + 1, SemiblockSize)))
    /\ pc = "done" /\ result.ok => result.bytes = original
=============================================================================
