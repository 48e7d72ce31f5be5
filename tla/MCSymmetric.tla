----------------------------- MODULE MCSymmetric -----------------------------
(* Model-checking instance of the symmetric constructions.                  *)
EXTENDS Symmetric
Bitwise == INSTANCE Bitwise

MCXor == [p \in Byte \X Byte |-> Bitwise!^^(p[1], p[2])]

(* KeyWrap: bytes of two bits, semiblocks of two bytes.  Two rounds of a    *)
(* Feistel network on the halves of a block, and its inverse.               *)
Number(s) == 4 * s[1] + s[2]
SemiOf(x) == <<(x \div 4) % 4, x % 4>>
F(x) == 3 * x * x + x + 1
G(x) == 5 * x * x + 3 * x + 7
MCCipher ==
  [b \in Block |->
     LET right == (Number(b[2]) + F(Number(b[1]))) % 16
         left == (Number(b[1]) + G(right)) % 16
     IN  <<SemiOf(right), SemiOf(left)>>]
MCDecipher ==
  [b \in Block |->
     LET right == Number(b[1])
         left == (Number(b[2]) + 15 * G(right)) % 16
     IN  <<SemiOf(left), SemiOf((right + 15 * F(left)) % 16)>>]
MCInputs ==
  UNION {Strings(l) : l \in 0 .. 5} \cup {s \in Strings(6) : s[6] \in {0, 3}}
MCInitialValues == {<<2, 1>>, <<3>>}

(* BlockModes: bytes of two bits, blocks of two bytes, and a permutation of *)
(* the 16 blocks as the cipher.                                             *)
Permuted(x) == (2 * x * x + 5 * x + 11) % 16
ModeCipher == [b \in Semi |-> SemiOf(Permuted(Number(b)))]
ModeDecipher == [b \in Semi |-> CHOOSE p \in Semi : ModeCipher[p] = b]
ASSUME ModesAssumption ==
  /\ BM!WidthsFit /\ BM!CipherIsPermutation /\ BM!XorIsInvolution
  /\ BM!ReductionFits /\ BM!Radix = ByteValues

(* Aead: bytes of four bits, blocks of eight bytes, a one-byte GCM counter. *)
(* The encryptor is any function; it need not be hard to invert for these   *)
(* properties.                                                              *)
AeadXor == [p \in (0 .. 15) \X (0 .. 15) |-> Bitwise!^^(p[1], p[2])]
Turn(k) == (k % 8) + 1
Tuple(f) == SubSeq(f, 1, 8)
AeadEncrypt(b) ==
  Tuple([k \in 1 .. 8 |-> (5 * b[k] + 3 * b[Turn(k)] * b[Turn(k + 2)] + k) % 16])
AeadMultiply(x, h) ==
  Tuple([k \in 1 .. 8 |-> (x[k] * h[1] + x[Turn(k)] * h[Turn(k)] + x[Turn(k + 3)]) % 16])

Fill(size, seed) == [k \in 1 .. size |-> (seed + 7 * k * seed) % 16]
Words(bytes, lengths) == UNION {[1 .. l -> bytes] : l \in lengths}
Call(aead, nonce, aad, tag, encrypt, size, bytes) ==
  [mode |-> aead, nonce |-> nonce, aad |-> aad, tag |-> tag, encrypting |-> encrypt,
   length |-> size, input |-> bytes]

(* CCM: every length around the block and field limits, and all short      *)
(* headers with all short payloads; a data_length that is not the input's. *)
CcmMessages ==
  {Call("ccm", Fill(l, 3), Fill(d, 5), t, TRUE, p, Fill(p, s)) :
     l \in 4 .. 7, d \in {0, 1, 5, 6, 7, 14, 239, 240, 245}, t \in {2, 4, 5, 6, 8},
     p \in {0, 1, 7, 8, 9, 15, 16, 17, 40}, s \in {0, 3}}
  \cup {Call("ccm", Fill(6, 1), aad, 4, TRUE, Len(p), p) :
          aad \in Words({0, 1}, 0 .. 4), p \in Words({0, 1}, 0 .. 4)}
  \cup {Call("ccm", Fill(6, 1), << >>, 4, e, l, Fill(p, 0)) :
          e \in BOOLEAN, l \in 0 .. 5, p \in 0 .. 10}
  \cup {Call("fixed", Fill(l, 1), << >>, t, e, k, p) :
          l \in 5 .. 6, t \in {4, 8}, e \in BOOLEAN, k \in 1 .. 3,
          p \in Words({0, 5}, 0 .. 3) \cup {Fill(q, 3) : q \in 4 .. 10}}

(* GCM: payloads up to one block more than the counter allows, both kinds  *)
(* of iv, tags of every bit length; all short inputs to decrypt.           *)
GcmMessages ==
  {Call("gcm", Fill(l, 9), Fill(d, 5), t, TRUE, 0, Fill(p, s)) :
     l \in {0, 1, 6, 7, 8, 12}, d \in {0, 1, 8, 9}, t \in {0, 1, 5, 31, 32, 33},
     p \in {0, 1, 8, 9, 16, 103, 104, 105, 112, 120, 128, 136}, s \in {0, 3}}
  \cup {Call("gcm", Fill(7, 1), aad, 8, TRUE, 0, p) :
          aad \in Words({0, 1}, 0 .. 4), p \in Words({0, 1}, 0 .. 4)}
  \cup {Call("gcm", Fill(7, 2), << >>, t, FALSE, 0, p) :
          t \in 0 .. 6, p \in Words(0 .. 15, 0 .. 2)}

MCMessages == CcmMessages \cup GcmMessages

ASSUME AeadsAssumption ==
  AE!WidthsFit /\ AE!FieldsFit /\ AE!FlagsFit
  /\ AE!XorIsInvolution /\ AE!MessagesFit

(* CounterKdf: bytes of two bits; every list of up to three fields, and     *)
(* outputs up to one block more than a four-byte counter allows.            *)
Format(bits) == [width_bits : bits, little_endian : BOOLEAN]
KdfFields ==
  [kind : {"bytes"}, bytes : {<< >>, <<1>>}]
  \cup [kind : {"counter"}, format : Format({0, 2, 4, 6})]
  \cup [kind : {"length"}, format : Format({3, 4, 6}), method : {"Key", "Segments"}]
ASSUME KdfsAssumption == KD!WidthsFit /\ KD!FieldsFit
=============================================================================
