-------------------------------- MODULE MCRsa --------------------------------
(* Model-checking instance of the RSA modules.  They share no state, so one *)
(* behaviour belongs to one of them: a private key on its way in (RsaKeys), *)
(* a public key on its way in (RsaPublicValidation), a call that signs,     *)
(* verifies, encrypts or decrypts (RsaEncodings).                           *)
(*                                                                          *)
(* Private keys have factors of five to seven bits, some of them composite  *)
(* (25 and 91 have strong liars, and 91 with exponent 11 passes the         *)
(* pair-wise test), too close, too small or of unequal size.                *)
EXTENDS Integers, Sequences, BigUint, Rsa
Bitwise == INSTANCE Bitwise

VARIABLE part

MCPrivateSizes ==
  [ByteBits |-> 3, MinBits |-> 9, MaxBits |-> 14, Strength |-> 2, BaseAttempts |-> 2, ExponentBits |-> 4]
MCPublicSizes ==
  [ByteBits |-> 4, MinBits |-> 5, MaxBits |-> 12, Strength |-> 2, BaseAttempts |-> 2, ExponentBits |-> 6]

Triple(p, q, e) == [p |-> p, q |-> q, e |-> e]
Factors ==
  {<<23, 29>>, <<31, 23>>, <<29, 31>>, <<23, 23>>, <<25, 29>>, <<23, 25>>, <<22, 29>>,
   <<29, 47>>, <<17, 61>>, <<91, 103>>, <<109, 91>>, <<47, 199>>, <<1, 29>>}
MCPrimes == {Triple(f[1], f[2], e) : f \in Factors, e \in {1, 2, 3, 5, 11}}
MCGenerated == {Triple(23, 29, 3), Triple(47, 61, 7), Triple(29, 31, 11)}

(* The exponents that are inverse to e, and one that is not.                *)
Inverses(lambda, e) == {d \in 1 .. 2 * lambda : (d * e) % lambda = 1} \cup {2}
Private(n, e, d, primes) == [n |-> n, e |-> e, d |-> d, primes |-> primes]
MCComponents ==
  UNION {{Private(f[1] * f[2], e, d, ps) :
            d \in Inverses(Lcm(f[1] - 1, f[2] - 1), e), ps \in {f, << >>, <<f[1]>>, <<f[1], f[2], 1>>}} :
         f \in {<<23, 29>>, <<25, 29>>, <<109, 91>>, <<17, 61>>}, e \in {5, 11}}
  \cup {Private(669, 5, 185, <<23, 29>>)}
MCMessages == 0 .. 30

(* Public keys: bytes of four bits, all moduli up to 256, and primes,       *)
(* their powers, pseudoprimes and Carmichael numbers beyond.                *)
Import(import, n, e, modulus_length, exponent_length, bits) ==
  [import |-> import, modulus |-> n, exponent |-> e, modulus_length |-> modulus_length,
   exponent_length |-> exponent_length, bits |-> bits]
Large == {257, 289, 341, 343, 361, 529, 561, 625, 961, 1105, 1331, 1729, 2047}
Canonical(import, n, e) ==
  Import(import, n, e, CeilDiv(Bits(n), 4), CeilDiv(Bits(e), 4), Bits(n))
MCPublicKeys ==
  {Canonical(FALSE, n, 5) : n \in 1 .. 256 \cup Large}
  \cup {Canonical(import, n, e) : import \in BOOLEAN, n \in {35, 85, 143}, e \in {0, 1, 2, 3, 6, 35, 65, 85}}
  \cup {Import(FALSE, 143, 5, l, k, b) : l \in 1 .. 3, k \in 0 .. 3, b \in 7 .. 9}

(* Encodings: bytes of two bits, moduli of six bytes with 12 and 11 bits,   *)
(* of which the second has a PSS encoding of five bytes; every string of    *)
(* six bytes is decrypted and verified.                                     *)
MCXor == [p \in (0 .. 3) \X (0 .. 3) |-> Bitwise!^^(p[1], p[2])]
MCLength == [one |-> 1, two |-> 2]
MCPrefix == [one |-> <<2>>, two |-> <<3>>]
MCHash(hash, s) ==
  LET mixed[k \in 0 .. Len(s)] ==
        IF k = 0 THEN Len(s) ELSE (mixed[k - 1] * 7 + 5 * s[k] + k) % 61
  IN  [k \in 1 .. MCLength[hash] |-> ((mixed[Len(s)] * (k + MCLength[hash])) \div 5) % 4]
PrivateKeys == {[n |-> 3763, e |-> 3, d |-> 607], [n |-> 1457, e |-> 7, d |-> 493]}
Digits(lengths) == UNION {[1 .. l -> {0, 1, 3}] : l \in lengths}
Word(value, width) == SubSeq([k \in 1 .. width |-> (value \div 4 ^ (width - k)) % 4], 1, width)
MCArguments == {Word(v, 6) : v \in 0 .. 4095} \cup {Word(v, 5) : v \in 0 .. 20}

Call(operation, scheme, key, device, hash, mgf, salt_length, label, input) ==
  [operation |-> operation, scheme |-> scheme, key |-> key, device |-> device, hash |-> hash,
   mgf |-> mgf, salt_length |-> salt_length, label |-> label, input |-> input]
MCCalls ==
  {Call("sign", s, k, v, h, m, l, << >>, i) :
     s \in {"payload", "pkcs1", "pss"}, k \in PrivateKeys, v \in BOOLEAN,
     h \in {"one", "two"}, m \in {"one", "two"}, l \in 0 .. 3, i \in Digits(1 .. 3)}
  \cup {Call("sign", "raw", k, FALSE, "one", "one", 0, << >>, i) :
          k \in PrivateKeys, i \in Digits({0, 1, 6, 7})}
  \cup {Call("encrypt", "pkcs1_encrypt", k, v, "one", "one", 0, << >>, i) :
          k \in PrivateKeys, v \in BOOLEAN, i \in Digits(0 .. 3)}
  \cup {Call("encrypt", "oaep", k, v, "one", m, 0, l, i) :
          k \in PrivateKeys, v \in BOOLEAN, m \in {"one", "two"},
          l \in {<< >>, <<2>>, <<1, 0>>, <<3, 0, 1>>, <<1, 2, 0, 3>>}, i \in Digits(0 .. 3)}
  \cup {Call("decrypt", "pkcs1_encrypt", k, FALSE, "one", "two", 0, <<2>>, << >>) :
          k \in PrivateKeys}
  \cup {Call("decrypt", "oaep", k, FALSE, "one", "two", 0, l, << >>) :
          k \in PrivateKeys, l \in {<<2>>, <<1, 0>>, <<1, 2, 0, 3>>}}
  \cup {Call("verify", "pss", k, FALSE, "one", "two", l, << >>, i) :
          k \in PrivateKeys, l \in 0 .. 3, i \in {<<2>>}}
  \cup {Call("verify", s, k, FALSE, "one", "two", 0, << >>, <<2>>) :
          s \in {"pkcs1", "raw", "payload"}, k \in PrivateKeys}

(* What the proofs assume, as far as it is finite.                          *)
ASSUME EncodingAssumption ==
  RE!OctetsFit /\ RE!XorIsBitwise /\ RE!KeysInvert /\ RE!CallsFit
ASSUME ValidationAssumption == RK!InputsFit /\ RP!RequestsFit

-----------------------------------------------------------------------------
KeysUnused ==
  /\ handle = RK!NoKey /\ stage = "idle" /\ candidate = << >> /\ factor = 1
  /\ passed = 0 /\ redraws = 0 /\ outcome = "none" /\ liars = <<0, 0>>
Unused(variable) == variable = "unused"
PublicUnused ==
  /\ Unused(submitted) /\ Unused(phase) /\ Unused(survived) /\ Unused(unlucky) /\ Unused(verdict)
EncodingsUnused ==
  /\ Unused(request) /\ Unused(argument) /\ Unused(failing) /\ Unused(state) /\ Unused(answer)

MCInit ==
  \/ part = "keys" /\ RK!Init /\ PublicUnused /\ EncodingsUnused
  \/ part = "public" /\ RP!Init /\ KeysUnused /\ EncodingsUnused
  \/ part = "encodings" /\ RE!EncodingInit /\ KeysUnused /\ PublicUnused

KeysStep == part = "keys" /\ RK!Next /\ UNCHANGED <<part, rsaPublic, rsaCall>>
PublicStep == part = "public" /\ RP!Next /\ UNCHANGED <<part, rsaKey, rsaCall>>
EncodingStep == part = "encodings" /\ RE!EncodingNext /\ UNCHANGED <<part, rsaKey, rsaPublic>>

MCNext == KeysStep \/ PublicStep \/ EncodingStep

MCSpec == MCInit /\ [][MCNext]_<<part, rsaKey, rsaPublic, rsaCall>>
=============================================================================
