---------------------------- MODULE SigningKeys ----------------------------
(* SoftwareSigningKey and SoftwarePublicKey: generation, the private        *)
(* encodings and the identities they are imported under, signing,           *)
(* verification, and the certificate signer (software_signing.rs,           *)
(* certificate_signing.rs).  One caller owns one key, an exported encoding  *)
(* and a signature, and calls the operations in any order.  Curves, hashes  *)
(* and parameter sets are names; a byte string is its length and its value; *)
(* a digest is a sequence of opaque octets; a signature says which key made *)
(* it and over what.                                                        *)
EXTENDS Integers, Sequences

CONSTANTS
  Curves, EdwardsCurves, ParameterSets, ModulusBits, RsaHashes,
  OwnVerifier,           \* the curve of brainpool512.rs, verified by that module
  Order, CoordinateLength, CurveHash, HashLength, EdwardsLength,
  SeedLength, ExpandedLength,           \* of ML-DSA
  MinScalarLength,       \* shorter scalars are not padded by SecretKey::from_slice
  DocumentLength,        \* no DER document has the length of a raw key
  MinBits, MaxBits, DigestInfoOverhead,
  Values, Messages, Prehashes, Salts, None

VARIABLES
  drawing,     \* the kind a generation is drawing a secret for
  key,         \* the caller's key
  origin,      \* the key it generated, until one is imported under another identity
  expanded,    \* whether an expanded ML-DSA key was imported since
  encoded,     \* the last private encoding it exported
  signature,   \* the last signature it made
  call, error  \* the last import or verification, and its error ("none": Ok)
vars == <<drawing, key, origin, expanded, encoded, signature, call, error>>

-----------------------------------------------------------------------------
(* KeyKind and SignatureScheme.  Every kind but RSA has one scheme, which   *)
(* is written as the kind itself.                                           *)
PlainKind ==
  [family : {"Ec"}, name : Curves] \cup [family : {"Edwards"}, name : EdwardsCurves]
  \cup [family : {"MlDsa"}, name : ParameterSets]
KeyKind == PlainKind \cup [family : {"Rsa"}, name : ModulusBits]
SignatureScheme == PlainKind \cup [family : {"Rsa"}, name : {"pss", "pkcs1"} \X RsaHashes]

(* The hash of a curve is long enough for it.                               *)
ASSUME LengthsAssumption ==
  /\ ModulusBits \subseteq Nat /\ "Sha256" \in RsaHashes
  /\ \A hash \in RsaHashes \cup {CurveHash[curve] : curve \in Curves} : HashLength[hash] \in Nat \ {0}
  /\ \A curve \in Curves : /\ CoordinateLength[curve] \in Nat \ {0}
                           /\ HashLength[CurveHash[curve]] >= CoordinateLength[curve] \div 2
(* The octets of a prehash are opaque, and none is the zero of a padding.   *)
ASSUME PrehashAssumption ==
  \A prehash \in Prehashes :
    /\ prehash \in Seq({prehash[i] : i \in DOMAIN prehash})
    /\ \A i \in DOMAIN prehash : prehash[i] # <<"zero">>
ASSUME NoneAssumption ==
  None \notin Salts /\ None \notin [kind : KeyKind, value : Values, seed : BOOLEAN]

is_rsa(scheme) == scheme.family = "Rsa"
rsa_profile(scheme) == [pss |-> scheme.name[1] = "pss", hash |-> scheme.name[2]]

Ok(x) == [error |-> "none", value |-> x]
Err(e) == [error |-> e, value |-> None]
When(condition, e, x) == IF condition THEN Ok(x) ELSE Err(e)

-----------------------------------------------------------------------------
(* Private keys.  seed is FALSE for an ML-DSA key that only has its         *)
(* expanded form.                                                           *)
Key(kind, value, seed) == [kind |-> kind, value |-> value, seed |-> seed]
Raw(length, value) == [form |-> "raw", length |-> length, value |-> value]
Document(form, k) ==
  [form |-> form, length |-> DocumentLength, value |-> k.value, kind |-> k.kind, seed |-> k.seed]

(* SecretKey::from_slice: a short scalar is padded with zeros.              *)
ScalarAccepted(curve, raw) ==
  /\ raw.length \in MinScalarLength .. CoordinateLength[curve]
  /\ raw.value \in 1 .. Order[curve] - 1

serialized(k) ==
  CASE k.kind.family = "Ec" -> Raw(CoordinateLength[k.kind.name], k.value)
    [] k.kind.family = "Edwards" -> Raw(EdwardsLength[k.kind.name], k.value)
    [] k.kind.family = "MlDsa" ->
         Raw(IF k.seed THEN SeedLength ELSE ExpandedLength[k.kind.name], k.value)
    [] k.kind.family = "Rsa" -> Document("pkcs8", k)

private_value(k) ==
  CASE k.kind.family = "Rsa" -> None
    [] k.kind.family = "MlDsa" -> Raw(ExpandedLength[k.kind.name], k.value)
    [] OTHER -> serialized(k)

(* Mutant: the expanded form is exported although the seed is known.        *)
to_pkcs8_derExpanded(k) == Document("pkcs8", [k EXCEPT !.seed = FALSE])

to_pkcs8_der(k) == Document("pkcs8", k)

rsa_components(k) == IF is_rsa(k.kind) THEN Document("components", k) ELSE None

from_pkcs8_der(scheme, bytes) ==
  When(bytes.form = "pkcs8" /\ (IF is_rsa(scheme) THEN is_rsa(bytes.kind) ELSE bytes.kind = scheme),
       "InvalidPrivateKey", Key(bytes.kind, bytes.value, bytes.seed))

from_serialized(scheme, bytes) ==
  LET name == scheme.name
      Accept(condition, seed) ==
        When(condition, "InvalidPrivateKey", Key(scheme, bytes.value, seed))
  IN  CASE scheme.family = "Ec" -> Accept(ScalarAccepted(name, bytes), TRUE)
        [] scheme.family = "Edwards" -> Accept(bytes.length = EdwardsLength[name], TRUE)
        [] scheme.family = "MlDsa" ->
             Accept(bytes.length \in {SeedLength, ExpandedLength[name]}, bytes.length = SeedLength)
        [] scheme.family = "Rsa" -> from_pkcs8_der(scheme, bytes)

(* from_rsa_primes, restore_rsa_primes, from_rsa_components and             *)
(* restore_rsa_pkcs1; what RsaKey checks of the numbers is in RsaKeys.      *)
from_rsa_components(scheme, bytes) ==
  When(bytes.form = "components" /\ is_rsa(scheme), "InvalidPrivateKey",
       Key(bytes.kind, bytes.value, bytes.seed))

(* rsa_size: the modulus in octets.                                         *)
rsa_size(bits) == (bits + 7) \div 8

(* from_serialized_for_kind, from_pkcs8_der_for_kind: an RSA key is read    *)
(* under any RSA scheme, then its size is compared with the kind.           *)
KindAccepted(kind, result) ==
  \/ result.error # "none" \/ ~is_rsa(kind)
  \/ 8 * rsa_size(result.value.kind.name) = kind.name

ForKind(kind, result) ==
  IF KindAccepted(kind, result) THEN result ELSE Err("InvalidPrivateKey")

SchemeFor(kind) ==
  IF is_rsa(kind) THEN CHOOSE s \in SignatureScheme : is_rsa(s) ELSE kind

Import(how, identity, bytes) ==
  CASE how = "serialized" -> from_serialized(identity, bytes)
    [] how = "pkcs8" -> from_pkcs8_der(identity, bytes)
    [] how = "components" -> from_rsa_components(identity, bytes)
    [] how = "serialized_for_kind" ->
         ForKind(identity, from_serialized(SchemeFor(identity), bytes))
    [] how = "pkcs8_for_kind" -> ForKind(identity, from_pkcs8_der(SchemeFor(identity), bytes))

-----------------------------------------------------------------------------
(* Signing.  A signature holds the kind and value of its key and what it    *)
(* is over: the field value of a prehash (ECDSA), the message, or the       *)
(* encoded block of RSA.                                                    *)
Digest(hash, message) == [i \in 1 .. HashLength[hash] |-> <<hash, message, i>>]

(* bits2field: leading octets, or zeros in front of a short prehash.        *)
FieldValue(curve, prehash) ==
  LET width == CoordinateLength[curve]
  IN  IF Len(prehash) >= width THEN SubSeq(prehash, 1, width)
      ELSE [i \in 1 .. width - Len(prehash) |-> <<"zero">>] \o prehash
PrehashLongEnough(curve, prehash) == Len(prehash) >= CoordinateLength[curve] \div 2

Pkcs1Block(payload) == <<"pkcs1", payload>>
PssBlock(hash, mgf, salt, digest) == <<"pss", hash, mgf, salt, digest>>

(* rsa_sign_prehash; a modulus of so many bits must have room for the block *)
PssFits(bits, hash, salt) == HashLength[hash] + salt + 2 <= (bits + 6) \div 8
Pkcs1Fits(bits, length) == length + DigestInfoOverhead <= rsa_size(bits)
PssSalt(hash, salt) == IF salt = None THEN HashLength[hash] ELSE salt

rsa_sign_prehash(bits, scheme, prehash, salt) ==
  LET hash == rsa_profile(scheme).hash
      length == PssSalt(hash, salt)
      fits == IF rsa_profile(scheme).pss THEN PssFits(bits, hash, length)
              ELSE Pkcs1Fits(bits, Len(prehash))
  IN  When(Len(prehash) = HashLength[hash] /\ fits, "SigningFailed",
           IF rsa_profile(scheme).pss THEN PssBlock(hash, hash, length, prehash)
           ELSE Pkcs1Block(<<hash, prehash>>))

sign_message(k, scheme, message) ==
  CASE k.kind.family = "Ec" /\ scheme = k.kind ->
         Ok(FieldValue(scheme.name, Digest(CurveHash[scheme.name], message)))
    [] k.kind.family \in {"Edwards", "MlDsa"} /\ scheme = k.kind -> Ok(<<"message", message>>)
    [] is_rsa(k.kind) /\ is_rsa(scheme) ->
         rsa_sign_prehash(k.kind.name, scheme, Digest(rsa_profile(scheme).hash, message), None)
    [] OTHER -> Err("AlgorithmMismatch")

sign_prehash(k, scheme, prehash) ==
  CASE k.kind.family = "Ec" /\ scheme = k.kind ->
         When(PrehashLongEnough(scheme.name, prehash), "SigningFailed",
              FieldValue(scheme.name, prehash))
    [] is_rsa(k.kind) /\ is_rsa(scheme) ->
         rsa_sign_prehash(k.kind.name, scheme, prehash, None)
    [] OTHER -> Err("AlgorithmMismatch")

(* sign_rsa_pss_prehash: the salt length only matters to a PSS scheme.      *)
sign_rsa_pss_prehash(k, scheme, prehash, salt) ==
  IF is_rsa(k.kind) /\ is_rsa(scheme) THEN rsa_sign_prehash(k.kind.name, scheme, prehash, salt)
  ELSE Err("AlgorithmMismatch")

(* sign_rsa_pkcs1v15_payload of a DigestInfo, sign_rsa_raw of its block.    *)
sign_rsa_payload(k, scheme, prehash) ==
  IF is_rsa(k.kind) /\ is_rsa(scheme)
  THEN When(Pkcs1Fits(k.kind.name, Len(prehash)), "SigningFailed",
            Pkcs1Block(<<rsa_profile(scheme).hash, prehash>>))
  ELSE Err("AlgorithmMismatch")

Sign(k, c) ==
  CASE c.op = "message" -> sign_message(k, c.scheme, c.data)
    [] c.op = "prehash" -> sign_prehash(k, c.scheme, c.data)
    [] c.op = "pss" -> sign_rsa_pss_prehash(k, c.scheme, c.data, c.salt)
    [] c.op = "payload" -> sign_rsa_payload(k, c.scheme, c.data)

-----------------------------------------------------------------------------
(* Verification.  The form of a public key is the usual one (an             *)
(* uncompressed point, numbers without leading zeros), another encoding of  *)
(* the same key (a compressed point, leading zeros, an Edwards coordinate   *)
(* beyond the field), or not that of a key (off the curve, weak, of a wrong *)
(* length).  A signature is well formed, or has a wrong length or a number  *)
(* out of range.                                                            *)
public_key(k) == [kind |-> k.kind, value |-> k.value, form |-> "usual"]

(* from_sec1_bytes reads compressed points and rsa_public_key leading       *)
(* zeros; brainpool512.rs insists on an uncompressed point and the checked  *)
(* Edwards keys on their own encoding; ML-DSA has one encoding.             *)
Readable(public) ==
  \/ public.form = "usual"
  \/ /\ public.form = "other"
     /\ \/ is_rsa(public.kind)
        \/ public.kind.family = "Ec" /\ public.kind.name # OwnVerifier

SignedBy(public, s, content) ==
  s.kind = public.kind /\ s.value = public.value /\ s.content = content

verify_ec(curve, public, prehash, s) ==
  IF ~Readable(public)
  THEN IF curve = OwnVerifier THEN "InvalidSignature" ELSE "InvalidPublicKey"
  ELSE IF /\ s.formed /\ (curve = OwnVerifier \/ PrehashLongEnough(curve, prehash))
          /\ SignedBy(public, s, FieldValue(curve, prehash))
  THEN "none" ELSE "InvalidSignature"

(* Mutant: the salt length that the caller asks for is dropped.             *)
PssSaltDefault(hash, salt) == HashLength[hash]

PssSaltVerified(hash, salt) == IF salt = None THEN HashLength[hash] ELSE salt

verify_rsa_prehash(scheme, public, prehash, salt, s) ==
  LET hash == rsa_profile(scheme).hash
      block == IF rsa_profile(scheme).pss
               THEN PssBlock(hash, hash, PssSaltVerified(hash, salt), prehash)
               ELSE Pkcs1Block(<<hash, prehash>>)
  IN  IF ~Readable(public) THEN "InvalidPublicKey"
      ELSE IF s.formed /\ Len(prehash) = HashLength[hash] /\ SignedBy(public, s, block)
      THEN "none" ELSE "InvalidSignature"

verify_message(scheme, public, message, s) ==
  CASE scheme.family = "Ec" /\ public.kind = scheme ->
         verify_ec(scheme.name, public, Digest(CurveHash[scheme.name], message), s)
    [] scheme.family = "Edwards" /\ public.kind = scheme ->
         IF ~Readable(public) THEN "InvalidPublicKey"
         ELSE IF s.formed /\ SignedBy(public, s, <<"message", message>>) THEN "none"
         ELSE "InvalidSignature"
    [] scheme.family = "MlDsa" /\ public.kind = scheme ->
         IF Readable(public) /\ s.formed /\ SignedBy(public, s, <<"message", message>>)
         THEN "none" ELSE "InvalidSignature"
    [] is_rsa(scheme) /\ is_rsa(public.kind) ->
         verify_rsa_prehash(scheme, public, Digest(rsa_profile(scheme).hash, message), None, s)
    [] OTHER -> "AlgorithmMismatch"

verify_prehash(scheme, public, prehash, s) ==
  CASE scheme.family = "Ec" /\ public.kind = scheme ->
         verify_ec(scheme.name, public, prehash, s)
    [] is_rsa(scheme) /\ is_rsa(public.kind) ->
         verify_rsa_prehash(scheme, public, prehash, None, s)
    [] OTHER -> "AlgorithmMismatch"

verify_rsa_pss_prehash(scheme, public, prehash, salt, s) ==
  IF ~is_rsa(public.kind) THEN "AlgorithmMismatch"
  ELSE IF ~Readable(public) THEN "InvalidPublicKey"
  ELSE IF ~is_rsa(scheme) THEN "AlgorithmMismatch"
  ELSE verify_rsa_prehash(scheme, public, prehash, salt, s)

-----------------------------------------------------------------------------
(* Certificates: the identifiers that CertificateSigner writes, and the     *)
(* scheme that a relying party finds by them.                               *)
CertificateScheme(public) ==
  IF is_rsa(public.kind)
  THEN [family |-> "Rsa", name |-> <<"pkcs1", "Sha256">>] ELSE public.kind

signature_algorithm_identifier(scheme) ==
  CASE scheme.family = "Ec" -> <<"ecdsa", CurveHash[scheme.name]>>
    [] is_rsa(scheme) -> <<"rsa", rsa_profile(scheme).hash>>
    [] OTHER -> <<scheme.family, scheme.name>>

subject_public_key_info(public) ==
  IF is_rsa(public.kind) THEN <<"rsa", "null">> ELSE <<public.kind.family, public.kind.name>>

(* What a relying party takes the identifiers of a certificate to mean.     *)
RelyingSchemes(algorithm, info) ==
  {scheme \in SignatureScheme :
     \E kind \in KeyKind :
       /\ scheme = CertificateScheme([kind |-> kind])
       /\ algorithm = signature_algorithm_identifier(scheme)
       /\ info = subject_public_key_info([kind |-> kind])}

-----------------------------------------------------------------------------
Calls(ops, schemes, data, salts) == [op : ops, scheme : schemes, data : data, salt : salts]
RsaScheme == {s \in SignatureScheme : is_rsa(s)}
VerifyCalls ==
  Calls({"message"}, SignatureScheme, Messages, {None})
  \cup Calls({"prehash"}, SignatureScheme, Prehashes, {None})
  \cup Calls({"pss"}, SignatureScheme, Prehashes, Salts)
SignCalls == VerifyCalls \cup
  Calls({"payload"}, {s \in RsaScheme : ~rsa_profile(s).pss}, Prehashes, {None})

(* The public key that a verifier holds: the signer's or another of the    *)
(* same kind in each form, or one of another kind.                          *)
OtherKind(kind) == CHOOSE k \in KeyKind : k # kind
Forms(kind) == {"usual", "invalid"} \cup IF kind.family = "MlDsa" THEN {} ELSE {"other"}
Publics(s) ==
  [kind : {s.kind}, value : {s.value, 1}, form : Forms(s.kind)]
  \cup [kind : {OtherKind(s.kind)}, value : {s.value}, form : {"usual"}]

(* The bytes it gets: the signature, n - s in place of s, or bytes of       *)
(* another length or with a number out of range.  normalize_s makes the     *)
(* second the first for ECDSA; another family has no such form.             *)
Formed(presented, s) == presented = "made" \/ (presented = "other_s" /\ s.kind.family = "Ec")

Init ==
  /\ drawing = None /\ key = None /\ origin = None /\ expanded = FALSE
  /\ encoded = None /\ signature = None /\ call = None /\ error = "none"

(* generate, generate_for_kind and generate_rsa, with the loops that draw   *)
(* a secret scalar until one is valid: a scalar out of range is drawn over. *)
Generate ==
  /\ drawing = None /\ key = None
  /\ drawing' \in KeyKind
  /\ origin' = None /\ expanded' = FALSE /\ call' = None
  /\ UNCHANGED <<key, encoded, signature, error>>

DrawFails ==
  /\ drawing # None
  /\ error' = IF is_rsa(drawing) /\ drawing.name \notin MinBits .. MaxBits
              THEN "InvalidPrivateKey" ELSE "RandomnessUnavailable"
  /\ drawing' = None
  /\ UNCHANGED <<key, origin, expanded, encoded, signature, call>>

Draw ==
  /\ drawing # None
  /\ is_rsa(drawing) => drawing.name \in MinBits .. MaxBits
  /\ \E value \in Values :
       /\ drawing.family = "Ec" =>
            ScalarAccepted(drawing.name, Raw(CoordinateLength[drawing.name], value))
       /\ key' = Key(drawing, value, TRUE)
  /\ origin' = key' /\ drawing' = None /\ error' = "none"
  /\ UNCHANGED <<expanded, encoded, signature, call>>

Exports(k) == {serialized(k), private_value(k), to_pkcs8_der(k), rsa_components(k)}

Export ==
  /\ key # None /\ encoded = None /\ signature = None
  /\ encoded' \in Exports(key) \ {None}
  /\ call' = None /\ error' = "none"
  /\ UNCHANGED <<drawing, key, origin, expanded, signature>>

(* Whether an import names the key's own identity and encoding.             *)
OwnIdentity(c, kind) ==
  /\ c.op \in {"serialized", "serialized_for_kind"} =>
       c.bytes.form = IF is_rsa(kind) THEN "pkcs8" ELSE "raw"
  /\ c.op \in {"pkcs8", "pkcs8_for_kind"} => c.bytes.form = "pkcs8"
  /\ c.op = "components" => c.bytes.form = "components"
  /\ IF is_rsa(kind) /\ c.op \in {"serialized", "pkcs8", "components"}
     THEN is_rsa(c.identity) ELSE c.identity = kind

ImportCall(how, identity) ==
  LET result == Import(how, identity, encoded)
      c == [op |-> how, identity |-> identity, bytes |-> encoded]
  IN  /\ encoded # None
      /\ error' = result.error /\ key' = result.value
      /\ call' = c
      /\ origin' = IF OwnIdentity(c, key.kind) THEN origin ELSE None
      /\ expanded' = IF origin' = None THEN FALSE
                     ELSE expanded \/ (key.kind.family = "MlDsa" /\ encoded = private_value(key))
      /\ encoded' = None /\ UNCHANGED <<drawing, signature>>

ImportByScheme ==
  \E how \in {"serialized", "pkcs8", "components"}, scheme \in SignatureScheme :
    ImportCall(how, scheme)
ImportForKind ==
  \E how \in {"serialized_for_kind", "pkcs8_for_kind"}, kind \in KeyKind :
    ImportCall(how, kind)

Signed(c, result) ==
  /\ error' = result.error
  /\ signature' = IF result.error # "none" THEN None
       ELSE [kind |-> key.kind, value |-> key.value, content |-> result.value, made |-> c]
  /\ call' = None /\ UNCHANGED <<drawing, key, origin, expanded, encoded>>

SignCall ==
  /\ key # None /\ encoded = None /\ signature = None
  /\ \E c \in SignCalls : Signed(c, Sign(key, c))

(* CertificateSigner::from_key and try_sign.                                *)
Certify ==
  /\ key # None /\ encoded = None /\ signature = None
  /\ \E message \in Messages :
       LET scheme == CertificateScheme(public_key(key))
       IN  Signed([op |-> "certificate", scheme |-> scheme, data |-> message, salt |-> None],
                  sign_message(key, scheme, message))

VerifyBytes(c, public, presented, s) ==
  LET bytes == [kind |-> s.kind, value |-> s.value, content |-> s.content,
                formed |-> Formed(presented, s)]
  IN  CASE c.op = "message" -> verify_message(c.scheme, public, c.data, bytes)
        [] c.op = "prehash" -> verify_prehash(c.scheme, public, c.data, bytes)
        [] c.op = "pss" -> verify_rsa_pss_prehash(c.scheme, public, c.data, c.salt, bytes)

Verified(c, public, presented) ==
  /\ call' = [op |-> c.op, scheme |-> c.scheme, data |-> c.data, salt |-> c.salt,
              public |-> public, presented |-> presented]
  /\ error' = VerifyBytes(c, public, presented, signature)
  /\ UNCHANGED <<drawing, key, origin, expanded, encoded, signature>>

Verify ==
  /\ signature # None /\ signature.made.op # "certificate" /\ call = None
  /\ \E c \in VerifyCalls :
       \/ \E public \in Publics(signature) : Verified(c, public, "made")
       \/ \E presented \in {"other_s", "malformed"} :
            Verified(c, public_key(signature), presented)

(* A certificate is checked with the subject key and scheme it names.       *)
VerifyCertificate ==
  /\ signature # None /\ signature.made.op = "certificate" /\ call = None
  /\ \E scheme \in RelyingSchemes(signature_algorithm_identifier(signature.made.scheme),
                                  subject_public_key_info(signature)), message \in Messages :
       Verified([op |-> "message", scheme |-> scheme, data |-> message, salt |-> None],
                public_key(signature), "made")

Next ==
  \/ Generate \/ DrawFails \/ Draw \/ Export \/ ImportByScheme \/ ImportForKind
  \/ SignCall \/ Certify \/ Verify \/ VerifyCertificate

Spec == Init /\ [][Next]_vars

-----------------------------------------------------------------------------
(* KeySurvives: through any chain of exports and imports under its own      *)
(* identity (serialized, private_value, PKCS#8, RSA components; by scheme   *)
(* or by kind) a key stays the key that was generated, and an ML-DSA key    *)
(* keeps its seed unless its expanded value was exported.  An RSA kind      *)
(* whose size is not a whole number of octets is left out: KindRestores.    *)
WholeOctets(kind) == is_rsa(kind) => kind.name % 8 = 0
KeySurvives ==
  origin # None /\ WholeOctets(origin.kind) =>
    /\ key # None
    /\ key.kind = origin.kind /\ key.value = origin.value
    /\ ~expanded => key.seed

(* KindRestores: from_serialized_for_kind restores a key from its own       *)
(* serialized value and its own key_kind ("the identity of a private        *)
(* signing key at generation and import boundaries").                       *)
KindRestores ==
  origin # None => key # None

(* VerifiesExactly: a verification succeeds exactly if the signature was    *)
(* made by the key of that public key, given in its usual form or, for RSA  *)
(* and every curve but that of brainpool512.rs, in another encoding of the  *)
(* same key (and no family reads more); under the same scheme and salt      *)
(* length, over the same message, or over a prehash with the same octets    *)
(* in the width of the curve; whether the signer and the verifier named     *)
(* the message, its digest or the DigestInfo.  A certificate verifies under *)
(* the scheme that its identifiers name.                                    *)
Octets(c) ==
  IF c.op \notin {"message", "certificate"} THEN c.data
  ELSE CASE c.scheme.family \in {"Edwards", "MlDsa"} -> <<"message", c.data>>
         [] is_rsa(c.scheme) -> Digest(rsa_profile(c.scheme).hash, c.data)
         [] OTHER -> Digest(CurveHash[c.scheme.name], c.data)
SameOctets(scheme, a, b) ==
  \/ a = b
  \/ /\ scheme.family = "Ec" /\ Len(a) >= CoordinateLength[scheme.name]
     /\ Len(b) >= CoordinateLength[scheme.name]
     /\ \A i \in 1 .. CoordinateLength[scheme.name] : a[i] = b[i]
SaltOf(c) ==
  IF ~is_rsa(c.scheme) \/ ~rsa_profile(c.scheme).pss THEN None
  ELSE IF c.op = "pss" THEN c.salt ELSE HashLength[rsa_profile(c.scheme).hash]
SameStatement(a, b) ==
  a.scheme = b.scheme /\ SaltOf(a) = SaltOf(b) /\ SameOctets(a.scheme, Octets(a), Octets(b))
Verifiable(c) ==
  /\ is_rsa(c.scheme) /\ c.op # "message" => Len(c.data) = HashLength[rsa_profile(c.scheme).hash]
  /\ c.op = "prehash" => c.scheme.family \in {"Ec", "Rsa"}
  /\ c.op = "pss" => is_rsa(c.scheme)
SameKey(public, s) ==
  /\ public.kind = s.kind /\ public.value = s.value
  /\ public.form \in IF is_rsa(s.kind) \/ (s.kind.family = "Ec" /\ s.kind.name # OwnVerifier)
                     THEN {"usual", "other"} ELSE {"usual"}
VerifiesExactly ==
  signature # None /\ call # None =>
    /\ error = "none" <=>
         /\ SameKey(call.public, signature)
         /\ Formed(call.presented, signature)
         /\ Verifiable(call) /\ SameStatement(signature.made, call)
    /\ signature.made.op = "certificate" => (error = "none" <=> call.data = signature.made.data)
=============================================================================
