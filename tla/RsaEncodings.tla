------------------------------ MODULE RsaEncodings ------------------------------
(***************************************************************************)
(* The encodings of src/src/rsa_signing.rs around the RSA operation: PKCS  *)
(* #1 v1.5 and PSS signatures, PKCS #1 v1.5 and OAEP encryption, with a    *)
(* key in memory or with an operation that the caller supplies (the        *)
(* functions named _with), often a command of a token.                     *)
(*                                                                         *)
(* One behaviour is one call.  The keys are real RSA keys with a modulus   *)
(* of few bytes, a byte has ByteBits bits, and MinPadding stands for the 8 *)
(* padding bytes that PKCS #1 v1.5 demands, so that all signatures and all *)
(* ciphertexts can be enumerated.                                          *)
(***************************************************************************)
EXTENDS RsaNumbers, Sequences

CONSTANTS
  Calls,         \* the calls to make
  Arguments,     \* the ciphertexts and signatures to decrypt and to verify
  MinPadding,    \* least padding of PKCS #1 v1.5: 8
  Trailer,       \* last byte of a PSS encoding: 0xbc
  Length,        \* output lengths of the hash functions
  LabelLengths,  \* lengths of a label digest: 20, 28, 32, 48 and 64
  Prefix,        \* their DigestInfo prefixes
  Hash(_, _),    \* the hash functions
  Xor            \* exclusive or of two bytes

VARIABLES
  request,   \* the call
  argument,  \* its ciphertext or signature
  failing,   \* what fails: nothing, random, operation, or its output's length
  state,     \* call or done
  answer     \* what the call returned

encodingVars == <<request, argument, failing, state, answer>>

Octet == 0 .. ByteValues(1) - 1
Fill(count, value) == [k \in 1 .. count |-> value]
XorOctets(x, y) == [k \in 1 .. Len(x) |-> Xor[<<x[k], y[k]>>]]
Front(s, count) == SubSeq(s, 1, count)
Behind(s, count) == SubSeq(s, count + 1, Len(s))
ToOctets(value, width) == [k \in 1 .. width |-> (value \div ByteValues(width - k)) % ByteValues(1)]
FromOctets(s) ==
  LET value[k \in 0 .. Len(s)] == IF k = 0 THEN 0 ELSE value[k - 1] * ByteValues(1) + s[k]
  IN  value[Len(s)]

Ok(bytes) == [ok |-> TRUE, bytes |-> bytes]
Err(error) == [ok |-> FALSE, bytes |-> << >>, error |-> error]
Verdict(valid) == IF valid THEN Ok(<< >>) ELSE Err("InvalidSignature")

Size(key) == ByteLength(key.n)

-----------------------------------------------------------------------------
(* The RSA operations.                                                     *)

PrivateOperation(key, s) ==
  IF Len(s) > Size(key) THEN Err("InputTooLong")
  ELSE IF FromOctets(s) >= key.n THEN Err("InputOutOfRange")
  ELSE IF failing = "operation" THEN Err("OperationFailed")
  ELSE Ok(ToOctets(ModPow(FromOctets(s), key.d, key.n), Size(key)))

PublicOperation(key, s) ==
  IF Len(s) # Size(key) \/ FromOctets(s) >= key.n THEN Err("InvalidSignature")
  ELSE Ok(ToOctets(ModPow(FromOctets(s), key.e, key.n), Size(key)))

(* The caller's operation, and the check of what it returned.              *)
Device(key, exponent, s) ==
  IF failing = "operation" \/ FromOctets(s) >= key.n THEN Err("Operation")
  ELSE IF failing = "output" THEN Err("InvalidOperationOutput")
  ELSE Ok(ToOctets(ModPow(FromOctets(s), exponent, key.n), Size(key)))

-----------------------------------------------------------------------------
(* PKCS #1 v1.5.                                                           *)

Overhead == MinPadding + 3
Room(size) == IF size > Overhead THEN size - Overhead ELSE 0

EncodedPayload(size, payload) ==
  IF Len(payload) > Room(size) THEN Err("InputTooLong")
  ELSE Ok(<<0, 1>> \o Fill(size - Len(payload) - 3, ByteValues(1) - 1) \o <<0>> \o payload)

DigestInfo(hash, digest) ==
  IF Len(digest) # Length[hash] THEN Err("InvalidDigestLength") ELSE Ok(Prefix[hash] \o digest)

Pad(plaintext, size, padding) ==
  IF Len(plaintext) > Room(size) THEN Err("InputTooLong")
  ELSE IF failing = "random" THEN Err("RandomnessUnavailable")
  ELSE Ok(<<0, 2>> \o padding \o <<0>> \o plaintext)

(* Mutant of Unpad: the length of the padding is not looked at.            *)
UnpadShort(s) ==
  LET zeros == {k \in 3 .. Len(s) : s[k] = 0}
  IN  IF s[1] # 0 \/ s[2] # 2 \/ zeros = {} THEN Err("OperationFailed")
      ELSE Ok(Behind(s, CHOOSE k \in zeros : \A j \in zeros : k <= j))

Unpad(s) ==
  LET zeros == {k \in 3 .. Len(s) : s[k] = 0}
      separator == CHOOSE k \in zeros : \A j \in zeros : k <= j
  IN  IF Len(s) < Overhead THEN Err("OperationFailed")
      ELSE IF s[1] # 0 \/ s[2] # 2 \/ zeros = {} THEN Err("OperationFailed")
      ELSE IF separator <= MinPadding + 2 THEN Err("OperationFailed")
      ELSE Ok(Behind(s, separator))

-----------------------------------------------------------------------------
(* OAEP.                                                                   *)

Mgf1(seed, count, hash) ==
  LET blocks[i \in 0 .. CeilDiv(count, Length[hash])] ==
        IF i = 0 THEN << >> ELSE blocks[i - 1] \o Hash(hash, seed \o ToOctets(i - 1, 4))
  IN  Front(blocks[CeilDiv(count, Length[hash])], count)

(* The least modulus for which a label digest of this length leaves room.  *)
OaepRoom(size, label) == 2 * Len(label) + 2 <= size

(* saturating_sub: an empty input passes even where the digest has no room *)
(* and is cut.                                                             *)
OaepPad(input, size, label, mgf, seed) ==
  LET room == IF OaepRoom(size, label) THEN size - 2 * Len(label) - 2 ELSE 0
      width == size - Len(label) - Len(input) - 2
      db == [k \in 1 .. width |-> IF k <= Len(label) THEN label[k] ELSE 0] \o <<1>> \o input
      masked == XorOctets(db, Mgf1(seed, Len(db), mgf))
  IN  IF label = << >> \/ Len(input) > room THEN Err("InputTooLong")
      ELSE IF failing = "random" THEN Err("RandomnessUnavailable")
      ELSE Ok(<<0>> \o XorOctets(seed, Mgf1(masked, Len(seed), mgf)) \o masked)

OaepUnpad(s, label, mgf) ==
  LET h == Len(label)
      masked == Behind(s, h + 1)
      seed == XorOctets(SubSeq(s, 2, h + 1), Mgf1(masked, h, mgf))
      db == XorOctets(masked, Mgf1(seed, Len(masked), mgf))
      rest == Behind(db, h)
      set == {k \in 1 .. Len(rest) : rest[k] # 0}
      separator == CHOOSE k \in set : \A j \in set : k <= j
  IN  IF Len(s) < 2 * h + 2 \/ h = 0 THEN Err("OperationFailed")
      ELSE IF s[1] # 0 \/ Front(db, h) # label \/ set = {} THEN Err("OperationFailed")
      ELSE IF rest[separator] # 1 THEN Err("OperationFailed")
      ELSE Ok(Behind(rest, separator))

-----------------------------------------------------------------------------
(* PSS.  A modulus of 8k + 1 bits has an encoding one byte shorter than    *)
(* itself; in all others some leading bits are unused.                     *)

EmLength(bits) == CeilDiv(bits - 1, ByteBits)
FirstOctets(bits) == TwoTo[ByteBits - (ByteBits * EmLength(bits) - (bits - 1))]

PssHash(p, digest, salt) == Hash(p.hash, Fill(8, 0) \o digest \o salt)

PssFits(p, bits) == EmLength(bits) >= Length[p.hash] + p.salt_length + 2

PssEncoded(bits, p, digest, salt) ==
  LET h == PssHash(p, digest, salt)
      db == Fill(EmLength(bits) - p.salt_length - Length[p.hash] - 2, 0) \o <<1>> \o salt
      masked == XorOctets(db, Mgf1(h, Len(db), p.mgf))
  IN  IF Len(digest) # Length[p.hash] THEN Err("InvalidDigestLength")
      ELSE IF ~PssFits(p, bits) THEN Err("InputTooLong")
      ELSE IF failing = "random" THEN Err("RandomnessUnavailable")
      ELSE Ok([masked EXCEPT ![1] = @ % FirstOctets(bits)] \o h \o <<Trailer>>)

(* Mutant of PssAccepts: the unused bits are cleared and never looked at.  *)
PssAcceptsUnusedBits(s, bits, p, digest) ==
  LET prefix == Len(s) - EmLength(bits)
      em == Behind(s, prefix)
      width == Len(em) - Length[p.hash] - 1
      h == SubSeq(em, width + 1, width + Length[p.hash])
      unmasked == XorOctets(Front(em, width), Mgf1(h, width, p.mgf))
      db == [unmasked EXCEPT ![1] = @ % FirstOctets(bits)]
      separator == width - p.salt_length
  IN  /\ Front(s, prefix) = Fill(prefix, 0)
      /\ PssFits(p, bits) /\ em[Len(em)] = Trailer
      /\ Front(db, separator) = Fill(separator - 1, 0) \o <<1>>
      /\ PssHash(p, digest, Behind(db, separator)) = h

(* verify_pss_encoded_digest, behind the check of the digest's length.     *)
PssAccepts(s, bits, p, digest) ==
  LET prefix == Len(s) - EmLength(bits)
      em == Behind(s, prefix)
      width == Len(em) - Length[p.hash] - 1
      h == SubSeq(em, width + 1, width + Length[p.hash])
      unmasked == XorOctets(Front(em, width), Mgf1(h, width, p.mgf))
      db == [unmasked EXCEPT ![1] = @ % FirstOctets(bits)]
      separator == width - p.salt_length
  IN  /\ Front(s, prefix) = Fill(prefix, 0)
      /\ PssFits(p, bits) /\ em[Len(em)] = Trailer
      /\ em[1] < FirstOctets(bits)
      /\ Front(db, separator) = Fill(separator - 1, 0) \o <<1>>
      /\ PssHash(p, digest, Behind(db, separator)) = h

-----------------------------------------------------------------------------
(* The operations.  c.scheme selects the encoding, c.device the caller's   *)
(* operation; random is what the generator returned.                       *)

Encode(c, random) ==
  LET size == Size(c.key) IN
  CASE c.scheme = "raw" -> Ok(c.input)
    [] c.scheme = "payload" -> EncodedPayload(size, c.input)
    [] c.scheme = "pkcs1" ->
         LET info == DigestInfo(c.hash, c.input)
         IN  IF info.ok THEN EncodedPayload(size, info.bytes) ELSE info
    [] c.scheme = "pss" -> PssEncoded(Bits(c.key.n), c, c.input, random)
    [] c.scheme = "pkcs1_encrypt" -> Pad(c.input, size, random)
    [] c.scheme = "oaep" -> OaepPad(c.input, size, c.label, c.mgf, random)

Sign(c, random) ==
  LET encoded == Encode(c, random) IN
  IF ~encoded.ok THEN encoded
  ELSE IF c.device THEN Device(c.key, c.key.d, encoded.bytes)
  ELSE PrivateOperation(c.key, encoded.bytes)

(* The key's OAEP functions take the digests of known hashes only; those   *)
(* with a device leave that to their caller.                               *)
LabelFits(c) == c.scheme = "oaep" /\ ~c.device => Len(c.label) \in LabelLengths

Encrypt(c, random) ==
  LET encoded == Encode(c, random) IN
  IF ~LabelFits(c) THEN Err("InvalidDigestLength")
  ELSE IF ~encoded.ok THEN encoded
  ELSE IF c.device THEN Device(c.key, c.key.e, encoded.bytes)
  ELSE PublicOperation(c.key, encoded.bytes)

(* The key's functions want a ciphertext as long as the modulus; those     *)
(* with a device leave that to it.                                         *)
Decrypt(c, ciphertext) ==
  LET decrypted == IF c.device THEN Device(c.key, c.key.d, ciphertext)
                   ELSE PrivateOperation(c.key, ciphertext)
  IN  IF ~c.device /\ (Len(ciphertext) # Size(c.key) \/ ~LabelFits(c)) THEN Err("InputTooLong")
      ELSE IF ~decrypted.ok THEN decrypted
      ELSE IF c.scheme = "oaep" THEN OaepUnpad(decrypted.bytes, c.label, c.mgf)
      ELSE Unpad(decrypted.bytes)

Verify(c, signature) ==
  LET recovered == PublicOperation(c.key, signature)
      expected == IF c.scheme = "raw"
                    THEN IF Len(c.input) > Size(c.key) THEN Err("InputTooLong")
                         ELSE Ok(Fill(Size(c.key) - Len(c.input), 0) \o c.input)
                    ELSE Encode(c, << >>)
  IN  IF c.scheme = "pss"
        THEN IF ~recovered.ok THEN recovered
             ELSE IF Len(c.input) # Length[c.hash] THEN Err("InvalidDigestLength")
             ELSE Verdict(PssAccepts(recovered.bytes, Bits(c.key.n), c, c.input))
      ELSE IF ~expected.ok THEN expected
      ELSE IF ~recovered.ok THEN recovered
      ELSE Verdict(recovered.bytes = expected.bytes)

(* What the generator may return for a call: the padding has no zeros,     *)
(* because those are drawn again.                                          *)
Random(c, input) ==
  CASE c.scheme = "pss" -> [1 .. c.salt_length -> Octet]
    [] c.scheme = "oaep" -> [1 .. Len(c.label) -> Octet]
    [] c.scheme = "pkcs1_encrypt" -> [1 .. Size(c.key) - Len(input) - 3 -> Octet \ {0}]
    [] OTHER -> {<< >>}

EncodingInit ==
  /\ request \in Calls
  /\ \/ /\ request.operation \in {"sign", "encrypt"} /\ argument = << >>
        /\ failing \in {"nothing", "random", "operation", "output"}
     \/ /\ request.operation \in {"decrypt", "verify"} /\ argument \in Arguments
        /\ failing = "nothing"
  /\ state = "call" /\ answer = Err("none")

Perform(operation) == state = "call" /\ request.operation = operation /\ state' = "done"

SignCall ==
  /\ Perform("sign")
  /\ \E random \in Random(request, request.input) : answer' = Sign(request, random)
  /\ UNCHANGED <<request, argument, failing>>

EncryptCall ==
  /\ Perform("encrypt")
  /\ \E random \in Random(request, request.input) : answer' = Encrypt(request, random)
  /\ UNCHANGED <<request, argument, failing>>

DecryptCall ==
  /\ Perform("decrypt")
  /\ answer' = Decrypt(request, argument)
  /\ UNCHANGED <<request, argument, failing>>

VerifyCall ==
  /\ Perform("verify")
  /\ answer' = Verify(request, argument)
  /\ UNCHANGED <<request, argument, failing>>

EncodingNext == SignCall \/ EncryptCall \/ DecryptCall \/ VerifyCall

-----------------------------------------------------------------------------
(* What the constants are: octets of at least two bits, an exclusive or    *)
(* that undoes itself and acts on each bit, hashes of the length they      *)
(* declare, keys whose exponents undo each other and whose modulus has     *)
(* room for the least padding, and calls of the functions that exist: no   *)
(* verification and no raw signature has a device.  A device's decryption  *)
(* judges the ciphertext itself, and is left to what was encrypted.        *)

OctetsFit ==
  /\ ByteBits \in Nat \ {0, 1} /\ MinPadding \in Nat /\ Trailer \in Octet
  /\ \A hash \in DOMAIN Length : Length[hash] \in Nat \ {0} /\ Prefix[hash] \in Seq(Octet)

XorIsBitwise ==
  /\ \A x, y \in Octet : Xor[<<x, y>>] \in Octet /\ Xor[<<Xor[<<x, y>>], y>>] = x
  /\ \A x, y \in Octet : \A k \in 0 .. ByteBits :
       Xor[<<x, y>>] % TwoTo[k] = Xor[<<x % TwoTo[k], y % TwoTo[k]>>]

HashesToOctets ==
  \A hash \in DOMAIN Length : \A s \in Seq(Octet) : Hash(hash, s) \in [1 .. Length[hash] -> Octet]

KeysInvert ==
  \A key \in {c.key : c \in Calls} :
    /\ key.n \in Nat \ {0} /\ Size(key) >= Overhead
    /\ \A m \in 0 .. key.n - 1 :
         /\ ModPow(m, key.e, key.n) \in 0 .. key.n - 1 /\ ModPow(m, key.d, key.n) \in 0 .. key.n - 1
         /\ ModPow(ModPow(m, key.e, key.n), key.d, key.n) = m
         /\ ModPow(ModPow(m, key.d, key.n), key.e, key.n) = m

CallsFit ==
  /\ \A c \in Calls :
       /\ c.operation \in {"sign", "verify"} => c.scheme \in {"raw", "payload", "pkcs1", "pss"}
       /\ c.operation \in {"encrypt", "decrypt"} => c.scheme \in {"pkcs1_encrypt", "oaep"}
       /\ c.operation \in {"verify", "decrypt"} \/ c.scheme = "raw" => ~c.device
       /\ c.hash \in DOMAIN Length /\ c.mgf \in DOMAIN Length /\ c.salt_length \in Nat
       /\ c.label \in Seq(Octet) /\ c.input \in Seq(Octet)
       /\ c = [operation |-> c.operation, scheme |-> c.scheme, key |-> c.key, device |-> c.device,
               hash |-> c.hash, mgf |-> c.mgf, salt_length |-> c.salt_length, label |-> c.label,
               input |-> c.input]
  /\ Arguments \subseteq Seq(Octet)

-----------------------------------------------------------------------------
Answered(operation) == state = "done" /\ request.operation = operation /\ answer.ok

(* DecryptionIsExact: what is encrypted is decrypted to itself, whatever   *)
(* the generator returned and with a key or a device; and a ciphertext     *)
(* that decryption accepts is one that encryption makes of the result: no  *)
(* short padding, no other label, no stray byte before the message passes  *)
(* (rsa_pkcs1v15_pad and _unpad, rsa_oaep_pad_digest and _unpad_digest).   *)
(* A label digest that has no room in the modulus is left out: there an    *)
(* empty message is encrypted to what nobody can decrypt.                  *)
DecryptionIsExact ==
  /\ /\ Answered("encrypt") /\ failing # "operation"
     /\ request.scheme = "oaep" => OaepRoom(Size(request.key), request.label)
     => Decrypt(request, answer.bytes) = Ok(request.input)
  /\ Answered("decrypt") =>
       \E random \in Random(request, answer.bytes) :
         Encrypt([request EXCEPT !.input = answer.bytes], random) = Ok(argument)

(* VerificationIsExact: verification accepts the signatures that signing   *)
(* with this key, input and parameters can make, and no other string of    *)
(* bytes: for moduli of every number of bits, unused bits, the byte a      *)
(* shorter PSS encoding lacks, salts of every length, values beyond the    *)
(* modulus (the functions rsa_sign and rsa_verify of every scheme).        *)
VerificationIsExact ==
  /\ Answered("sign") => Verify(request, answer.bytes).ok
  /\ state = "done" /\ request.operation = "verify" =>
       (answer.ok <=> \E random \in Random(request, request.input) :
                        Sign(request, random) = Ok(argument))
=============================================================================
