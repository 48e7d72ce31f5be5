-------------------------- MODULE SigningKeysProofs --------------------------
(***************************************************************************)
(* Proofs about SigningKeys for any curves, parameter sets, hashes, moduli *)
(* and lengths, about EcdsaDer for octets and coordinates of any size,     *)
(* and about the parts of Rsa: RsaEncodings for octets of at least two     *)
(* bits, any keys whose exponents undo each other, and any hashes and      *)
(* calls, RsaKeys and RsaPublicValidation for bytes of any size and any    *)
(* supported sizes.                                                        *)
(***************************************************************************)
EXTENDS Signing, Rsa, NumberLemmas, SequenceTheorems, TLAPS

LEMMA Kinds ==
  ASSUME NEW kind \in KeyKind
  PROVE  /\ kind.family \in {"Ec", "Edwards", "MlDsa", "Rsa"}
         /\ kind.family = "Ec" => kind.name \in Curves
         /\ kind.family = "Rsa" => kind.name \in ModulusBits
         /\ kind = [family |-> kind.family, name |-> kind.name]
  BY DEF KeyKind, PlainKind

LEMMA Schemes ==
  ASSUME NEW scheme \in SignatureScheme
  PROVE  /\ scheme.family \in {"Ec", "Edwards", "MlDsa", "Rsa"}
         /\ scheme.family = "Ec" => scheme.name \in Curves
         /\ scheme.family = "Rsa" => scheme.name \in {"pss", "pkcs1"} \X RsaHashes
         /\ scheme = [family |-> scheme.family, name |-> scheme.name]
  BY DEF SignatureScheme, PlainKind

-----------------------------------------------------------------------------
(* Exports and imports.                                                    *)

(* A key that its own constructor accepts.                                 *)
Sound(k) ==
  /\ k.kind \in KeyKind /\ k.seed \in BOOLEAN
  /\ k.kind.family = "Ec" =>
       ScalarAccepted(k.kind.name, Raw(CoordinateLength[k.kind.name], k.value))

(* The key that an import returns for an export of k: k, but for the seed  *)
(* of an ML-DSA key whose expanded value was exported.                     *)
Restores(k, bytes, result) ==
  \E seed \in BOOLEAN :
    /\ result = Ok(Key(k.kind, k.value, seed))
    /\ k.seed => seed \/ (k.kind.family = "MlDsa" /\ bytes = private_value(k))

LEMMA ExportForms ==
  ASSUME NEW k, k.kind \in KeyKind, NEW bytes \in Exports(k), bytes # None
  PROVE  /\ bytes.form = "pkcs8" => bytes = Document("pkcs8", k)
         /\ bytes.form = "components" => is_rsa(k.kind) /\ bytes = Document("components", k)
         /\ bytes.form = "raw" => ~is_rsa(k.kind) /\ bytes \in {serialized(k), private_value(k)}
<1>1. k.kind.family \in {"Ec", "Edwards", "MlDsa", "Rsa"}
  BY Kinds
<1>2. CASE is_rsa(k.kind)
  <2>1. bytes \in {Document("pkcs8", k), Document("components", k)}
    BY <1>2 DEF Exports, serialized, private_value, to_pkcs8_der, rsa_components, is_rsa
  <2>. QED
    BY <1>2, <2>1 DEF Document
<1>3. CASE ~is_rsa(k.kind)
  <2>1. bytes \in {Document("pkcs8", k), serialized(k), private_value(k)}
    BY <1>3 DEF Exports, to_pkcs8_der, rsa_components
  <2>2. serialized(k).form = "raw" /\ private_value(k).form = "raw"
    BY <1>1, <1>3 DEF serialized, private_value, is_rsa, Raw
  <2>. QED
    BY <1>3, <2>1, <2>2 DEF Document
<1>. QED
  BY <1>2, <1>3

LEMMA DocumentRestores ==
  ASSUME NEW k, Sound(k), NEW form \in {"pkcs8", "components"}, NEW scheme,
         IF is_rsa(k.kind) THEN is_rsa(scheme) ELSE scheme = k.kind,
         form = "components" => is_rsa(k.kind)
  PROVE  /\ form = "pkcs8" => Restores(k, Document(form, k), from_pkcs8_der(scheme, Document(form, k)))
         /\ form = "components" =>
              Restores(k, Document(form, k), from_rsa_components(scheme, Document(form, k)))
<1> DEFINE bytes == Document(form, k)
<1>1. bytes.form = form /\ bytes.kind = k.kind /\ bytes.value = k.value /\ bytes.seed = k.seed
  BY DEF Document
<1>2. k.seed \in BOOLEAN
  BY DEF Sound
<1> HIDE DEF bytes
<1>3. form = "pkcs8" => from_pkcs8_der(scheme, bytes) = Ok(Key(k.kind, k.value, k.seed))
  BY <1>1 DEF from_pkcs8_der, When
<1>4. form = "components" => from_rsa_components(scheme, bytes) = Ok(Key(k.kind, k.value, k.seed))
  BY <1>1 DEF from_rsa_components, When
<1>. QED
  BY <1>2, <1>3, <1>4 DEF Restores, bytes

LEMMA RawRestores ==
  ASSUME NEW k, Sound(k), ~is_rsa(k.kind), NEW bytes \in {serialized(k), private_value(k)}
  PROVE  Restores(k, bytes, from_serialized(k.kind, bytes))
<1> DEFINE name == k.kind.name
<1>1. k.kind.family \in {"Ec", "Edwards", "MlDsa"} /\ k.seed \in BOOLEAN
  BY Kinds DEF Sound, is_rsa
<1>2. CASE k.kind.family = "Ec"
  <2>1. bytes = Raw(CoordinateLength[name], k.value)
    BY <1>2 DEF serialized, private_value
  <2>2. from_serialized(k.kind, bytes) = Ok(Key(k.kind, k.value, TRUE))
    BY <1>2, <2>1 DEF from_serialized, When, Sound, Raw
  <2>. QED
    BY <2>2 DEF Restores
<1>3. CASE k.kind.family = "Edwards"
  <2>1. bytes = Raw(EdwardsLength[name], k.value)
    BY <1>3 DEF serialized, private_value
  <2>2. from_serialized(k.kind, bytes) = Ok(Key(k.kind, k.value, TRUE))
    BY <1>3, <2>1 DEF from_serialized, When, Raw
  <2>. QED
    BY <2>2 DEF Restores
<1>4. CASE k.kind.family = "MlDsa"
  <2>1. private_value(k) = Raw(ExpandedLength[name], k.value)
    BY <1>4 DEF private_value
  <2>2. serialized(k) = Raw(IF k.seed THEN SeedLength ELSE ExpandedLength[name], k.value)
    BY <1>4 DEF serialized
  <2>3. bytes.length \in {SeedLength, ExpandedLength[name]} /\ bytes.value = k.value
    BY <2>1, <2>2 DEF Raw
  <2>4. from_serialized(k.kind, bytes) = Ok(Key(k.kind, k.value, bytes.length = SeedLength))
    BY <1>4, <2>3 DEF from_serialized, When
  <2>5. k.seed => bytes.length = SeedLength \/ bytes = private_value(k)
    BY <2>2 DEF Raw
  <2>. QED
    BY <1>4, <2>4, <2>5 DEF Restores
<1>. QED
  BY <1>1, <1>2, <1>3, <1>4

(* The scheme under which a kind is read.                                  *)
LEMMA KindHasScheme ==
  ASSUME NEW kind \in KeyKind
  PROVE  IF is_rsa(kind) THEN is_rsa(SchemeFor(kind)) ELSE SchemeFor(kind) = kind
<1>1. [family |-> "Rsa", name |-> <<"pkcs1", "Sha256">>] \in SignatureScheme
  BY LengthsAssumption DEF SignatureScheme
<1>2. \E s \in SignatureScheme : is_rsa(s)
  BY <1>1 DEF is_rsa
<1>. QED
  BY <1>2 DEF SchemeFor

LEMMA KindRestored ==
  ASSUME NEW k, Sound(k), WholeOctets(k.kind), NEW bytes, NEW result, Restores(k, bytes, result)
  PROVE  Restores(k, bytes, ForKind(k.kind, result))
<1>1. result.error = "none" /\ result.value.kind = k.kind
  BY DEF Restores, Ok, Key
<1>2. is_rsa(k.kind) => 8 * rsa_size(k.kind.name) = k.kind.name
  <2>1. is_rsa(k.kind) => k.kind.name \in Nat /\ k.kind.name % 8 = 0
    BY Kinds, LengthsAssumption DEF Sound, WholeOctets, is_rsa
  <2>2. ASSUME NEW b \in Nat, b % 8 = 0 PROVE 8 * ((b + 7) \div 8) = b
    BY <2>2
  <2>. QED
    BY <2>1, <2>2 DEF rsa_size
<1>. QED
  BY <1>1, <1>2 DEF ForKind, KindAccepted

LEMMA OwnImportRestores ==
  ASSUME NEW k, Sound(k), WholeOctets(k.kind), NEW bytes \in Exports(k), bytes # None,
         NEW how \in {"serialized", "pkcs8", "components", "serialized_for_kind", "pkcs8_for_kind"},
         NEW identity,
         OwnIdentity([op |-> how, identity |-> identity, bytes |-> bytes], k.kind)
  PROVE  Restores(k, bytes, Import(how, identity, bytes))
<1> DEFINE kind == k.kind
           Reads(scheme) == IF is_rsa(kind) THEN is_rsa(scheme) ELSE scheme = kind
<1>1. /\ how \in {"serialized", "serialized_for_kind"} =>
           bytes.form = IF is_rsa(kind) THEN "pkcs8" ELSE "raw"
      /\ how \in {"pkcs8", "pkcs8_for_kind"} => bytes.form = "pkcs8"
      /\ how = "components" => bytes.form = "components"
      /\ IF is_rsa(kind) /\ how \in {"serialized", "pkcs8", "components"}
         THEN is_rsa(identity) ELSE identity = kind
  BY DEF OwnIdentity
<1>2. /\ bytes.form = "pkcs8" => bytes = Document("pkcs8", k)
      /\ bytes.form = "components" => is_rsa(kind) /\ bytes = Document("components", k)
      /\ bytes.form = "raw" => ~is_rsa(kind) /\ bytes \in {serialized(k), private_value(k)}
  BY ExportForms DEF Sound
<1>3. ASSUME NEW scheme, Reads(scheme), bytes.form = "pkcs8"
      PROVE  Restores(k, bytes, from_pkcs8_der(scheme, bytes))
  BY <1>2, <1>3, DocumentRestores
<1>4. ASSUME NEW scheme, Reads(scheme), bytes.form = IF is_rsa(kind) THEN "pkcs8" ELSE "raw"
      PROVE  Restores(k, bytes, from_serialized(scheme, bytes))
  <2>1. CASE is_rsa(kind)
    <3>1. from_serialized(scheme, bytes) = from_pkcs8_der(scheme, bytes)
      BY <1>4, <2>1 DEF from_serialized, is_rsa
    <3>. QED
      BY <1>3, <1>4, <2>1, <3>1
  <2>2. CASE ~is_rsa(kind)
    BY <1>2, <1>4, <2>2, RawRestores
  <2>. QED
    BY <2>1, <2>2
<1>5. Reads(SchemeFor(kind))
  BY KindHasScheme DEF Sound
<1> HIDE DEF kind
<1>6. CASE how = "serialized"
  BY <1>1, <1>4, <1>6 DEF Import
<1>7. CASE how = "pkcs8"
  BY <1>1, <1>3, <1>7 DEF Import
<1>8. CASE how = "components"
  <2>1. Restores(k, bytes, from_rsa_components(identity, bytes))
    BY <1>1, <1>2, <1>8, DocumentRestores DEF kind
  <2>. QED
    BY <1>8, <2>1 DEF Import
<1>9. CASE how = "serialized_for_kind"
  <2>1. identity = kind /\ Restores(k, bytes, from_serialized(SchemeFor(kind), bytes))
    BY <1>1, <1>4, <1>5, <1>9
  <2>2. Restores(k, bytes, ForKind(kind, from_serialized(SchemeFor(kind), bytes)))
    BY <2>1, KindRestored DEF kind
  <2>. QED
    BY <1>9, <2>1, <2>2 DEF Import
<1>10. CASE how = "pkcs8_for_kind"
  <2>1. identity = kind /\ Restores(k, bytes, from_pkcs8_der(SchemeFor(kind), bytes))
    BY <1>1, <1>3, <1>5, <1>10
  <2>2. Restores(k, bytes, ForKind(kind, from_pkcs8_der(SchemeFor(kind), bytes)))
    BY <2>1, KindRestored DEF kind
  <2>. QED
    BY <1>10, <2>1, <2>2 DEF Import
<1>. QED
  BY <1>6, <1>7, <1>8, <1>9, <1>10

-----------------------------------------------------------------------------
(* The key stays the one that was generated.                               *)

DrawingOK == drawing # None => drawing \in KeyKind /\ key = None
EncodedOK == encoded # None => key # None /\ encoded \in Exports(key)
OriginOK == origin # None => Sound(origin) /\ origin.value \in Values
StaysOrigin ==
  origin # None /\ WholeOctets(origin.kind) =>
    /\ key # None
    /\ key.kind = origin.kind /\ key.value = origin.value
    /\ key.seed \in BOOLEAN /\ (~expanded => key.seed)

KeyInv == DrawingOK /\ EncodedOK /\ OriginOK /\ StaysOrigin

LEMMA KeyInvInit == Init => KeyInv
  BY DEF Init, KeyInv, DrawingOK, EncodedOK, OriginOK, StaysOrigin

LEMMA DrawKeepsKeyInv ==
  ASSUME KeyInv, Draw PROVE KeyInv'
<1>1. PICK value \in Values :
        /\ drawing.family = "Ec" =>
             ScalarAccepted(drawing.name, Raw(CoordinateLength[drawing.name], value))
        /\ key' = Key(drawing, value, TRUE)
  BY DEF Draw
<1>2. drawing \in KeyKind /\ origin' = key' /\ drawing' = None /\ encoded' = encoded
  BY DEF Draw, KeyInv, DrawingOK
<1>3. key'.kind = drawing /\ key'.value = value /\ key'.seed = TRUE
  BY <1>1 DEF Key
<1>4. key' # None
  <2>1. key' \in [kind : KeyKind, value : Values, seed : BOOLEAN]
    BY <1>1, <1>2 DEF Key
  <2>. QED
    BY <2>1, NoneAssumption
<1>5. Sound(key') /\ key'.value \in Values
  BY <1>1, <1>2, <1>3 DEF Sound
<1>6. DrawingOK' /\ OriginOK' /\ StaysOrigin'
  BY <1>2, <1>3, <1>4, <1>5 DEF DrawingOK, OriginOK, StaysOrigin
<1>7. EncodedOK'
  BY <1>2 DEF Draw, KeyInv, DrawingOK, EncodedOK
<1>. QED
  BY <1>6, <1>7 DEF KeyInv

LEMMA ImportKeepsKeyInv ==
  ASSUME KeyInv,
         NEW how \in {"serialized", "pkcs8", "components", "serialized_for_kind", "pkcs8_for_kind"},
         NEW identity, ImportCall(how, identity)
  PROVE  KeyInv'
<1> DEFINE result == Import(how, identity, encoded)
           c == [op |-> how, identity |-> identity, bytes |-> encoded]
<1>1. /\ encoded # None /\ encoded' = None /\ drawing' = drawing /\ key' = result.value
      /\ origin' = IF OwnIdentity(c, key.kind) THEN origin ELSE None
      /\ expanded' = IF origin' = None THEN FALSE
                     ELSE expanded \/ (key.kind.family = "MlDsa" /\ encoded = private_value(key))
  BY DEF ImportCall
<1>2. DrawingOK' /\ EncodedOK' /\ OriginOK'
  BY <1>1 DEF KeyInv, DrawingOK, EncodedOK, OriginOK
<1>3. ASSUME origin' # None, WholeOctets(origin'.kind)
      PROVE  /\ key' # None
             /\ key'.kind = origin'.kind /\ key'.value = origin'.value
             /\ key'.seed \in BOOLEAN /\ (~expanded' => key'.seed)
  <2>1. origin' = origin /\ OwnIdentity(c, key.kind) /\ origin # None
    BY <1>1, <1>3
  <2>2. /\ key # None /\ key.kind = origin.kind /\ key.value = origin.value
        /\ key.seed \in BOOLEAN /\ (~expanded => key.seed)
        /\ Sound(origin) /\ origin.value \in Values /\ encoded \in Exports(key)
    BY <1>1, <1>3, <2>1 DEF KeyInv, StaysOrigin, OriginOK, EncodedOK
  <2>3. Sound(key) /\ WholeOctets(key.kind)
    BY <1>3, <2>1, <2>2 DEF Sound
  <2>4. Restores(key, encoded, result)
    BY <1>1, <2>1, <2>2, <2>3, OwnImportRestores
  <2>5. PICK seed \in BOOLEAN :
          /\ result = Ok(Key(key.kind, key.value, seed))
          /\ key.seed => seed \/ (key.kind.family = "MlDsa" /\ encoded = private_value(key))
    BY <2>4 DEF Restores
  <2>6. key' = Key(key.kind, key.value, seed)
    BY <1>1, <2>5 DEF Ok
  <2>7. key' \in [kind : KeyKind, value : Values, seed : BOOLEAN]
    BY <2>2, <2>3, <2>6 DEF Sound, Key
  <2>8. key'.kind = key.kind /\ key'.value = key.value /\ key'.seed = seed
    BY <2>6 DEF Key
  <2>9. ~expanded' => seed
    BY <1>1, <1>3, <2>2, <2>5
  <2>. QED
    BY <2>1, <2>2, <2>7, <2>8, <2>9, NoneAssumption
<1>. QED
  BY <1>2, <1>3 DEF KeyInv, StaysOrigin

LEMMA KeyInvNext == KeyInv /\ [Next]_vars => KeyInv'
<1> SUFFICES ASSUME KeyInv, [Next]_vars PROVE KeyInv'
  OBVIOUS
<1>1. CASE Generate
  BY <1>1 DEF Generate, KeyInv, DrawingOK, EncodedOK, OriginOK, StaysOrigin
<1>2. CASE DrawFails
  BY <1>2 DEF DrawFails, KeyInv, DrawingOK, EncodedOK, OriginOK, StaysOrigin
<1>3. CASE Draw
  BY <1>3, DrawKeepsKeyInv
<1>4. CASE Export
  BY <1>4 DEF Export, KeyInv, DrawingOK, EncodedOK, OriginOK, StaysOrigin
<1>5. CASE ImportByScheme \/ ImportForKind
  BY <1>5, ImportKeepsKeyInv DEF ImportByScheme, ImportForKind
<1>6. CASE UNCHANGED <<drawing, key, origin, expanded, encoded>>
  BY <1>6 DEF KeyInv, DrawingOK, EncodedOK, OriginOK, StaysOrigin
<1>7. SignCall \/ Certify \/ Verify \/ VerifyCertificate \/ UNCHANGED vars
        => UNCHANGED <<drawing, key, origin, expanded, encoded>>
  BY DEF SignCall, Certify, Signed, Verify, VerifyCertificate, Verified, vars
<1>. QED
  BY <1>1, <1>2, <1>3, <1>4, <1>5, <1>6, <1>7 DEF Next

(* Through every chain of exports and imports under its own identity a key *)
(* stays the key that was generated, and an ML-DSA key keeps its seed      *)
(* unless its expanded value was exported.                                 *)
THEOREM GeneratedKeySurvives == Spec => []KeySurvives
<1>1. KeyInv => KeySurvives
  BY DEF KeyInv, StaysOrigin, KeySurvives
<1>. QED
  BY <1>1, KeyInvInit, KeyInvNext, PTL DEF Spec

-----------------------------------------------------------------------------
(* What a signature is over.                                               *)

(* Sequences of opaque octets.                                             *)
IsOctets(p) ==
  /\ p \in Seq({p[i] : i \in DOMAIN p})
  /\ \A i \in DOMAIN p : p[i] # <<"zero">>

LEMMA DigestIsOctets ==
  ASSUME NEW hash, HashLength[hash] \in Nat, NEW message
  PROVE  IsOctets(Digest(hash, message)) /\ Len(Digest(hash, message)) = HashLength[hash]
<1> DEFINE d == Digest(hash, message)
           L == HashLength[hash]
           S == {d[i] : i \in DOMAIN d}
<1>1. d = [i \in 1 .. L |-> <<hash, message, i>>]
  BY DEF Digest
<1>2. DOMAIN d = 1 .. L /\ \A i \in 1 .. L : d[i] \in S /\ d[i] = <<hash, message, i>>
  BY <1>1
<1>3. \A i \in 1 .. L : <<hash, message, i>> # <<"zero">>
  OBVIOUS
<1> HIDE DEF S, L
<1>4. d \in [1 .. L -> S]
  BY <1>1, <1>2
<1>5. d \in Seq(S) /\ Len(d) = L
  <2> HIDE DEF d
  <2>1. L \in Nat
    BY DEF L
  <2>. QED
    BY <1>4, <2>1
<1>. QED
  BY <1>2, <1>3, <1>5 DEF IsOctets, S, L

(* Equal field values come from equal octets in the width of the curve.    *)
LEMMA FieldValueIsExact ==
  ASSUME NEW curve \in Curves, NEW a, NEW b, IsOctets(a), IsOctets(b)
  PROVE  FieldValue(curve, a) = FieldValue(curve, b)
           <=> \/ a = b
               \/ /\ Len(a) >= CoordinateLength[curve] /\ Len(b) >= CoordinateLength[curve]
                  /\ \A i \in 1 .. CoordinateLength[curve] : a[i] = b[i]
<1> DEFINE w == CoordinateLength[curve]
           zero == <<"zero">>
<1>1. w \in Nat \ {0}
  BY LengthsAssumption
<1>2. ASSUME NEW p, IsOctets(p), Len(p) >= w
      PROVE  /\ DOMAIN FieldValue(curve, p) = 1 .. w
             /\ \A i \in 1 .. w : FieldValue(curve, p)[i] = p[i] /\ p[i] # zero
             /\ FieldValue(curve, p) = [i \in 1 .. w |-> p[i]]
  <2> DEFINE S == {p[i] : i \in DOMAIN p}
  <2>1. p \in Seq(S) /\ \A i \in DOMAIN p : p[i] # zero
    BY <1>2 DEF IsOctets
  <2> HIDE DEF w, S
  <2>2. DOMAIN p = 1 .. Len(p) /\ Len(p) \in Nat
    BY <2>1
  <2>3. \A i \in 1 .. w : i \in DOMAIN p
    BY <1>1, <1>2, <2>2
  <2>4. SubSeq(p, 1, w) = [i \in 1 .. w |-> p[i]]
    BY <1>1, <1>2, <2>1, <2>2
  <2>5. FieldValue(curve, p) = SubSeq(p, 1, w)
    BY <1>2 DEF FieldValue, w
  <2>. QED
    BY <2>1, <2>3, <2>4, <2>5
<1>3. ASSUME NEW p, IsOctets(p), ~(Len(p) >= w)
      PROVE  /\ Len(p) \in Nat /\ Len(p) < w /\ DOMAIN p = 1 .. Len(p)
             /\ \A i \in 1 .. w - Len(p) : FieldValue(curve, p)[i] = zero
             /\ \A i \in 1 .. Len(p) : FieldValue(curve, p)[w - Len(p) + i] = p[i] /\ p[i] # zero
  <2> DEFINE S == {p[i] : i \in DOMAIN p} \cup {zero}
             l == Len(p)
             pad == [i \in 1 .. w - l |-> zero]
  <2>1. p \in Seq({p[i] : i \in DOMAIN p}) /\ \A i \in DOMAIN p : p[i] # zero
    BY <1>3 DEF IsOctets
  <2>2. l \in Nat /\ DOMAIN p = 1 .. l /\ p \in Seq(S)
    <3> DEFINE T == {p[i] : i \in DOMAIN p}
    <3>1. p \in Seq(T) /\ T \subseteq S
      BY <2>1
    <3> HIDE DEF T, S
    <3>. QED
      BY <3>1, SeqMonotonic
  <2>3. l < w /\ w - l \in Nat
    BY <1>1, <1>3, <2>2
  <2>4. FieldValue(curve, p) = pad \o p
    BY <1>3 DEF FieldValue
  <2> HIDE DEF w, l
  <2>5. pad \in Seq(S) /\ Len(pad) = w - l /\ \A i \in 1 .. w - l : pad[i] = zero
    <3>1. pad \in [1 .. w - l -> S]
      OBVIOUS
    <3> HIDE DEF S
    <3>. QED
      BY <2>3, <3>1
  <2> HIDE DEF pad, S
  <2>6. \A i \in 1 .. w - l : (pad \o p)[i] = zero
    BY <2>2, <2>3, <2>5 DEF l
  <2>7. \A i \in 1 .. l : (pad \o p)[w - l + i] = p[i]
    BY <2>2, <2>3, <2>5 DEF l
  <2>. QED
    BY <2>1, <2>2, <2>3, <2>4, <2>6, <2>7 DEF l
<1> HIDE DEF w, zero
<1>4. CASE Len(a) >= w /\ Len(b) >= w
  <2>0. /\ FieldValue(curve, a) = [i \in 1 .. w |-> a[i]]
        /\ FieldValue(curve, b) = [i \in 1 .. w |-> b[i]]
    BY <1>2, <1>4, Zenon
  <2>1. FieldValue(curve, a) = FieldValue(curve, b) <=> \A i \in 1 .. w : a[i] = b[i]
    BY <2>0
  <2>. QED
    BY <1>4, <2>1 DEF w
<1>5. ASSUME NEW p, NEW q, IsOctets(p), IsOctets(q), Len(p) >= w, ~(Len(q) >= w)
      PROVE  FieldValue(curve, p) # FieldValue(curve, q)
  <2>1. 1 \in 1 .. w /\ 1 \in 1 .. w - Len(q)
    BY <1>1, <1>3, <1>5
  <2>2. FieldValue(curve, p)[1] # zero
    BY <1>2, <1>5, <2>1
  <2>3. FieldValue(curve, q)[1] = zero
    BY <1>3, <1>5, <2>1
  <2>. QED
    BY <2>2, <2>3
<1>6. ASSUME NEW p, NEW q, IsOctets(p), IsOctets(q), ~(Len(p) >= w), ~(Len(q) >= w),
             FieldValue(curve, p) = FieldValue(curve, q)
      PROVE  ~(Len(p) < Len(q))
  <2>1. SUFFICES ASSUME Len(p) < Len(q) PROVE FALSE
    OBVIOUS
  <2>2. /\ Len(p) \in Nat /\ Len(q) \in Nat /\ Len(p) < w /\ Len(q) < w
    BY <1>3, <1>6
  <2>3. 1 \in 1 .. Len(q) /\ w - Len(q) + 1 \in 1 .. w - Len(p)
    BY <1>1, <2>1, <2>2
  <2>4. FieldValue(curve, q)[w - Len(q) + 1] # zero
    BY <1>3, <1>6, <2>3
  <2>5. FieldValue(curve, p)[w - Len(q) + 1] = zero
    BY <1>3, <1>6, <2>3
  <2>. QED
    BY <1>6, <2>4, <2>5
<1>7. CASE ~(Len(a) >= w) /\ ~(Len(b) >= w)
  <2>1. ASSUME FieldValue(curve, a) = FieldValue(curve, b) PROVE a = b
    <3>1. Len(a) \in Nat /\ Len(b) \in Nat /\ ~(Len(a) < Len(b)) /\ ~(Len(b) < Len(a))
      BY <1>3, <1>6, <1>7, <2>1
    <3>2. Len(a) = Len(b)
      BY <3>1
    <3>3. \A i \in 1 .. Len(a) : a[i] = b[i]
      BY <1>3, <1>7, <2>1, <3>2
    <3>4. DOMAIN a = 1 .. Len(a) /\ DOMAIN b = 1 .. Len(a)
      BY <1>3, <1>7, <3>2
    <3>5. a \in Seq({a[i] : i \in DOMAIN a}) /\ b \in Seq({b[i] : i \in DOMAIN b})
      BY DEF IsOctets
    <3>6. a = [i \in 1 .. Len(a) |-> a[i]] /\ b = [i \in 1 .. Len(b) |-> b[i]]
      BY <3>5
    <3>. QED
      BY <3>2, <3>3, <3>6
  <2>. QED
    BY <1>7, <2>1 DEF w
<1>8. CASE Len(a) >= w /\ ~(Len(b) >= w)
  BY <1>5, <1>8 DEF w
<1>9. CASE Len(b) >= w /\ ~(Len(a) >= w)
  BY <1>5, <1>9 DEF w
<1>. QED
  BY <1>4, <1>7, <1>8, <1>9

(* What a call signs or verifies a signature over.                         *)
Content(c) ==
  LET hash == rsa_profile(c.scheme).hash
  IN  CASE c.scheme.family = "Ec" -> FieldValue(c.scheme.name, Octets(c))
        [] is_rsa(c.scheme) ->
             IF rsa_profile(c.scheme).pss THEN PssBlock(hash, hash, SaltOf(c), Octets(c))
             ELSE Pkcs1Block(<<hash, Octets(c)>>)
        [] OTHER -> Octets(c)
Fits(kind, scheme) == IF is_rsa(scheme) THEN is_rsa(kind) ELSE kind = scheme
LongEnough(c) == c.scheme.family = "Ec" => PrehashLongEnough(c.scheme.name, Octets(c))

(* The calls that leave a signature.                                       *)
Certificates == Calls({"certificate"}, SignatureScheme, Messages, {None})
MadeCalls == SignCalls \cup Certificates

LEMMA CallFields ==
  ASSUME NEW c \in MadeCalls
  PROVE  /\ c.scheme \in SignatureScheme
         /\ c.op \in {"message", "prehash", "pss", "payload", "certificate"}
         /\ IF c.op \in {"message", "certificate"} THEN c.data \in Messages
            ELSE c.data \in Prehashes /\ Octets(c) = c.data
         /\ IF c.op = "pss" THEN c.salt \in Salts /\ c.salt # None ELSE c.salt = None
         /\ c.op = "payload" => is_rsa(c.scheme) /\ ~rsa_profile(c.scheme).pss
         /\ c = [op |-> c.op, scheme |-> c.scheme, data |-> c.data, salt |-> c.salt]
<1>1. CASE c \in Calls({"message", "certificate"}, SignatureScheme, Messages, {None})
  BY <1>1 DEF Calls
<1>2. CASE c \in Calls({"prehash"}, SignatureScheme, Prehashes, {None})
  BY <1>2 DEF Calls, Octets
<1>3. CASE c \in Calls({"pss"}, SignatureScheme, Prehashes, Salts)
  BY <1>3, NoneAssumption DEF Calls, Octets
<1>4. CASE c \in Calls({"payload"}, {s \in RsaScheme : ~rsa_profile(s).pss}, Prehashes, {None})
  BY <1>4 DEF Calls, RsaScheme, Octets
<1>. QED
  BY <1>1, <1>2, <1>3, <1>4 DEF MadeCalls, Certificates, SignCalls, VerifyCalls, Calls

(* The octets of a call are a sequence, as long as the hash if the call    *)
(* names a message.                                                        *)
LEMMA CallOctets ==
  ASSUME NEW c \in MadeCalls, c.scheme.family \in {"Ec", "Rsa"}
  PROVE  /\ IsOctets(Octets(c))
         /\ c.op \in {"message", "certificate"} =>
              /\ is_rsa(c.scheme) =>
                   /\ Octets(c) = Digest(rsa_profile(c.scheme).hash, c.data)
                   /\ Len(Octets(c)) = HashLength[rsa_profile(c.scheme).hash]
              /\ c.scheme.family = "Ec" =>
                   /\ Octets(c) = Digest(CurveHash[c.scheme.name], c.data)
                   /\ Len(Octets(c)) = HashLength[CurveHash[c.scheme.name]]
                   /\ LongEnough(c)
<1>1. CASE c.op \notin {"message", "certificate"}
  <2>1. Octets(c) \in Prehashes
    BY <1>1, CallFields
  <2>. QED
    BY <1>1, <2>1, PrehashAssumption DEF IsOctets
<1>2. CASE c.op \in {"message", "certificate"} /\ is_rsa(c.scheme)
  <2>1. rsa_profile(c.scheme).hash \in RsaHashes
    BY <1>2, CallFields, Schemes DEF is_rsa, rsa_profile
  <2>2. HashLength[rsa_profile(c.scheme).hash] \in Nat
    BY <2>1, LengthsAssumption
  <2>3. Octets(c) = Digest(rsa_profile(c.scheme).hash, c.data)
    BY <1>2 DEF Octets, is_rsa
  <2>. QED
    BY <1>2, <2>2, <2>3, DigestIsOctets DEF is_rsa
<1>3. CASE c.op \in {"message", "certificate"} /\ ~is_rsa(c.scheme)
  <2>1. c.scheme.family = "Ec" /\ c.scheme.name \in Curves
    BY <1>3, CallFields, Schemes DEF is_rsa
  <2>2. /\ HashLength[CurveHash[c.scheme.name]] \in Nat
        /\ HashLength[CurveHash[c.scheme.name]] >= CoordinateLength[c.scheme.name] \div 2
    BY <2>1, LengthsAssumption
  <2>3. Octets(c) = Digest(CurveHash[c.scheme.name], c.data)
    BY <1>3, <2>1 DEF Octets, is_rsa
  <2>. QED
    BY <1>3, <2>2, <2>3, DigestIsOctets DEF is_rsa, LongEnough, PrehashLongEnough
<1>. QED
  BY <1>1, <1>2, <1>3

(* What rsa_sign_prehash signs.                                            *)
LEMMA RsaBlock ==
  ASSUME NEW bits, NEW scheme, NEW prehash, NEW salt,
         rsa_sign_prehash(bits, scheme, prehash, salt).error = "none"
  PROVE  rsa_sign_prehash(bits, scheme, prehash, salt).value =
           LET hash == rsa_profile(scheme).hash
           IN  IF rsa_profile(scheme).pss
               THEN PssBlock(hash, hash, PssSalt(hash, salt), prehash)
               ELSE Pkcs1Block(<<hash, prehash>>)
  BY DEF rsa_sign_prehash, When, Ok, Err

LEMMA SaltIsSalt ==
  ASSUME NEW c \in MadeCalls, is_rsa(c.scheme), rsa_profile(c.scheme).pss
  PROVE  SaltOf(c) = PssSalt(rsa_profile(c.scheme).hash, c.salt)
  BY CallFields DEF SaltOf, PssSalt

LEMMA MessageContent ==
  ASSUME NEW k, k.kind \in KeyKind, NEW c \in MadeCalls, c.op \in {"message", "certificate"},
         sign_message(k, c.scheme, c.data).error = "none"
  PROVE  /\ sign_message(k, c.scheme, c.data).value = Content(c)
         /\ Fits(k.kind, c.scheme) /\ LongEnough(c)
<1>1. c.scheme.family \in {"Ec", "Edwards", "MlDsa", "Rsa"} /\ c.salt = None
  BY CallFields, Schemes
<1>2. CASE k.kind.family = "Ec" /\ c.scheme = k.kind
  <2>1. sign_message(k, c.scheme, c.data).value = FieldValue(c.scheme.name, Octets(c))
    BY <1>2, CallOctets DEF sign_message, Ok, is_rsa
  <2>. QED
    BY <1>2, <2>1, CallOctets DEF Content, Fits, is_rsa
<1>3. CASE k.kind.family \in {"Edwards", "MlDsa"} /\ c.scheme = k.kind
  <2>1. sign_message(k, c.scheme, c.data).value = <<"message", c.data>>
    BY <1>3 DEF sign_message, Ok, is_rsa
  <2>2. Octets(c) = <<"message", c.data>>
    BY <1>3 DEF Octets, is_rsa
  <2>3. Content(c) = Octets(c)
    BY <1>3 DEF Content, is_rsa
  <2>. QED
    BY <1>3, <2>1, <2>2, <2>3 DEF Fits, is_rsa, LongEnough
<1>4. CASE is_rsa(k.kind) /\ is_rsa(c.scheme)
  <2>1. sign_message(k, c.scheme, c.data) =
          rsa_sign_prehash(k.kind.name, c.scheme, Octets(c), c.salt)
    BY <1>1, <1>4, CallOctets DEF sign_message, is_rsa
  <2>2. sign_message(k, c.scheme, c.data).value = Content(c)
    BY <1>4, <2>1, RsaBlock, SaltIsSalt DEF Content, is_rsa
  <2>. QED
    BY <1>4, <2>2 DEF Fits, LongEnough, is_rsa
<1>5. \/ k.kind.family = "Ec" /\ c.scheme = k.kind
      \/ k.kind.family \in {"Edwards", "MlDsa"} /\ c.scheme = k.kind
      \/ is_rsa(k.kind) /\ is_rsa(c.scheme)
  BY DEF sign_message, Err
<1>. QED
  BY <1>1, <1>2, <1>3, <1>4, <1>5

(* A signature is over the content of the call that made it.               *)
LEMMA SignContent ==
  ASSUME NEW k, k.kind \in KeyKind, NEW c \in SignCalls, Sign(k, c).error = "none"
  PROVE  Sign(k, c).value = Content(c) /\ Fits(k.kind, c.scheme) /\ LongEnough(c)
<1>1. /\ c \in MadeCalls /\ c.op \in {"message", "prehash", "pss", "payload"}
      /\ c.scheme \in SignatureScheme
  <2>1. c.op # "certificate"
    BY DEF SignCalls, VerifyCalls, Calls
  <2>. QED
    BY <2>1, CallFields DEF MadeCalls
<1>2. CASE c.op = "message"
  BY <1>1, <1>2, MessageContent DEF Sign
<1>3. CASE c.op = "prehash"
  <2>1. Sign(k, c) = sign_prehash(k, c.scheme, Octets(c)) /\ c.salt = None
    BY <1>1, <1>3, CallFields DEF Sign
  <2>2. CASE k.kind.family = "Ec" /\ c.scheme = k.kind
    <3>1. Sign(k, c) = When(PrehashLongEnough(c.scheme.name, Octets(c)), "SigningFailed",
                            FieldValue(c.scheme.name, Octets(c)))
      BY <2>1, <2>2 DEF sign_prehash, is_rsa
    <3>2. /\ PrehashLongEnough(c.scheme.name, Octets(c))
          /\ Sign(k, c).value = FieldValue(c.scheme.name, Octets(c))
      BY <3>1 DEF When, Ok, Err
    <3>. QED
      BY <2>2, <3>2 DEF Content, Fits, LongEnough, is_rsa
  <2>3. CASE is_rsa(k.kind) /\ is_rsa(c.scheme)
    <3>1. Sign(k, c) = rsa_sign_prehash(k.kind.name, c.scheme, Octets(c), c.salt)
      BY <2>1, <2>3 DEF sign_prehash, is_rsa
    <3>2. Sign(k, c).value = Content(c)
      BY <1>1, <2>3, <3>1, RsaBlock, SaltIsSalt DEF Content, is_rsa
    <3>. QED
      BY <2>3, <3>2 DEF Fits, LongEnough, is_rsa
  <2>4. (k.kind.family = "Ec" /\ c.scheme = k.kind) \/ (is_rsa(k.kind) /\ is_rsa(c.scheme))
    BY <2>1 DEF sign_prehash, Err
  <2>. QED
    BY <2>2, <2>3, <2>4
<1>4. CASE c.op = "pss"
  <2>1. /\ is_rsa(k.kind) /\ is_rsa(c.scheme)
        /\ Sign(k, c) = rsa_sign_prehash(k.kind.name, c.scheme, Octets(c), c.salt)
    BY <1>1, <1>4, CallFields DEF Sign, sign_rsa_pss_prehash, Err
  <2>2. Sign(k, c).value = Content(c)
    BY <1>1, <2>1, RsaBlock, SaltIsSalt DEF Content, is_rsa
  <2>. QED
    BY <2>1, <2>2 DEF Fits, LongEnough, is_rsa
<1>5. CASE c.op = "payload"
  <2>1. is_rsa(c.scheme) /\ ~rsa_profile(c.scheme).pss /\ Octets(c) = c.data
    BY <1>1, <1>5, CallFields
  <2>2. /\ is_rsa(k.kind)
        /\ Sign(k, c).value = Pkcs1Block(<<rsa_profile(c.scheme).hash, Octets(c)>>)
    BY <1>5, <2>1 DEF Sign, sign_rsa_payload, When, Ok, Err
  <2>. QED
    BY <2>1, <2>2 DEF Content, Fits, LongEnough, is_rsa
<1>. QED
  BY <1>1, <1>2, <1>3, <1>4, <1>5

(* Verification succeeds exactly for a signature of that public key over   *)
(* the content of the call.                                                *)
Passes(c, public, formed, s) ==
  /\ Readable(public) /\ formed /\ SignedBy(public, s, Content(c))
  /\ Fits(public.kind, c.scheme) /\ Verifiable(c)
  /\ c.scheme.family = "Ec" /\ c.scheme.name # OwnVerifier => LongEnough(c)

LEMMA EcVerifies ==
  ASSUME NEW c \in MadeCalls, c.scheme.family = "Ec", NEW public, NEW s
  PROVE  verify_ec(c.scheme.name, public, Octets(c), s) = "none"
           <=> /\ Readable(public) /\ s.formed /\ SignedBy(public, s, Content(c))
               /\ c.scheme.name # OwnVerifier => LongEnough(c)
<1>1. Content(c) = FieldValue(c.scheme.name, Octets(c))
  BY DEF Content, is_rsa
<1>. QED
  BY <1>1 DEF verify_ec, LongEnough

LEMMA RsaVerifies ==
  ASSUME NEW c \in MadeCalls, is_rsa(c.scheme), NEW public, NEW s
  PROVE  verify_rsa_prehash(c.scheme, public, Octets(c), c.salt, s) = "none"
           <=> /\ Readable(public) /\ s.formed /\ SignedBy(public, s, Content(c))
               /\ Len(Octets(c)) = HashLength[rsa_profile(c.scheme).hash]
<1> DEFINE hash == rsa_profile(c.scheme).hash
           block == IF rsa_profile(c.scheme).pss
                    THEN PssBlock(hash, hash, PssSaltVerified(hash, c.salt), Octets(c))
                    ELSE Pkcs1Block(<<hash, Octets(c)>>)
<1>1. Content(c) = block
  BY SaltIsSalt DEF Content, is_rsa, PssSalt, PssSaltVerified
<1>2. verify_rsa_prehash(c.scheme, public, Octets(c), c.salt, s) =
        IF ~Readable(public) THEN "InvalidPublicKey"
        ELSE IF s.formed /\ Len(Octets(c)) = HashLength[hash] /\ SignedBy(public, s, block)
        THEN "none" ELSE "InvalidSignature"
  BY DEF verify_rsa_prehash
<1>. QED
  BY <1>1, <1>2

LEMMA VerifyExact ==
  ASSUME NEW c \in VerifyCalls, NEW public, NEW presented, NEW s
  PROVE  VerifyBytes(c, public, presented, s) = "none"
           <=> Passes(c, public, Formed(presented, s), s)
<1> DEFINE bytes == [kind |-> s.kind, value |-> s.value, content |-> s.content,
                     formed |-> Formed(presented, s)]
<1>1. bytes.formed = Formed(presented, s) /\ \A content : SignedBy(public, bytes, content)
        <=> SignedBy(public, s, content)
  BY DEF SignedBy
<1>2. /\ c.op = "message" =>
           VerifyBytes(c, public, presented, s) = verify_message(c.scheme, public, c.data, bytes)
      /\ c.op = "prehash" =>
           VerifyBytes(c, public, presented, s) = verify_prehash(c.scheme, public, c.data, bytes)
      /\ c.op = "pss" =>
           VerifyBytes(c, public, presented, s) =
             verify_rsa_pss_prehash(c.scheme, public, c.data, c.salt, bytes)
  BY DEF VerifyBytes
<1> HIDE DEF bytes
<1>3. c \in MadeCalls /\ c.op \in {"message", "prehash", "pss"} /\ c.scheme \in SignatureScheme
  BY CallFields DEF MadeCalls, SignCalls, VerifyCalls, Calls
<1>4. c.scheme.family \in {"Ec", "Edwards", "MlDsa", "Rsa"}
  BY <1>3, Schemes
<1>5. CASE c.op = "message"
  <2>1. CASE c.scheme.family = "Ec"
    <3>1. Octets(c) = Digest(CurveHash[c.scheme.name], c.data) /\ Verifiable(c)
      BY <1>3, <1>5, <2>1, CallOctets DEF Verifiable, is_rsa
    <3>2. CASE public.kind = c.scheme
      <4>1. VerifyBytes(c, public, presented, s) =
              verify_ec(c.scheme.name, public, Octets(c), bytes)
        BY <1>2, <1>5, <2>1, <3>1, <3>2 DEF verify_message, is_rsa
      <4>. QED
        BY <1>1, <1>3, <2>1, <3>1, <3>2, <4>1, EcVerifies DEF Passes, Fits, is_rsa
    <3>3. CASE public.kind # c.scheme
      BY <1>2, <1>5, <2>1, <3>3 DEF verify_message, Passes, Fits, is_rsa
    <3>. QED
      BY <3>2, <3>3
  <2>2. CASE c.scheme.family \in {"Edwards", "MlDsa"}
    <3>1. Content(c) = <<"message", c.data>> /\ Verifiable(c)
      BY <1>5, <2>2 DEF Content, Octets, Verifiable, is_rsa
    <3>2. CASE public.kind = c.scheme
      <4>1. VerifyBytes(c, public, presented, s) = "none"
              <=> Readable(public) /\ bytes.formed /\ SignedBy(public, bytes, Content(c))
        BY <1>2, <1>5, <2>2, <3>1, <3>2 DEF verify_message, is_rsa
      <4>. QED
        BY <1>1, <2>2, <3>1, <3>2, <4>1 DEF Passes, Fits, is_rsa
    <3>3. CASE public.kind # c.scheme
      BY <1>2, <1>5, <2>2, <3>3 DEF verify_message, Passes, Fits, is_rsa
    <3>. QED
      BY <3>2, <3>3
  <2>3. CASE is_rsa(c.scheme)
    <3>1. /\ Octets(c) = Digest(rsa_profile(c.scheme).hash, c.data) /\ Verifiable(c) /\ c.salt = None
          /\ Len(Octets(c)) = HashLength[rsa_profile(c.scheme).hash]
      BY <1>3, <1>5, <2>3, CallOctets, CallFields DEF Verifiable, is_rsa
    <3>2. CASE is_rsa(public.kind)
      <4>1. VerifyBytes(c, public, presented, s) =
              verify_rsa_prehash(c.scheme, public, Octets(c), c.salt, bytes)
        BY <1>2, <1>5, <2>3, <3>1, <3>2 DEF verify_message, is_rsa
      <4>. QED
        BY <1>1, <1>3, <2>3, <3>1, <3>2, <4>1, RsaVerifies DEF Passes, Fits, is_rsa
    <3>3. CASE ~is_rsa(public.kind)
      BY <1>2, <1>5, <2>3, <3>3 DEF verify_message, Passes, Fits, is_rsa
    <3>. QED
      BY <3>2, <3>3
  <2>. QED
    BY <1>4, <2>1, <2>2, <2>3 DEF is_rsa
<1>6. CASE c.op = "prehash"
  <2>1. Octets(c) = c.data /\ c.salt = None
    BY <1>3, <1>6, CallFields
  <2>2. CASE c.scheme.family = "Ec" /\ public.kind = c.scheme
    <3>1. VerifyBytes(c, public, presented, s) =
            verify_ec(c.scheme.name, public, Octets(c), bytes)
      BY <1>2, <1>6, <2>1, <2>2 DEF verify_prehash, is_rsa
    <3>. QED
      BY <1>1, <1>3, <1>6, <2>2, <3>1, EcVerifies DEF Passes, Fits, is_rsa, Verifiable
  <2>3. CASE is_rsa(c.scheme) /\ is_rsa(public.kind)
    <3>1. VerifyBytes(c, public, presented, s) =
            verify_rsa_prehash(c.scheme, public, Octets(c), c.salt, bytes)
      BY <1>2, <1>6, <2>1, <2>3 DEF verify_prehash, is_rsa
    <3>2. Verifiable(c) <=> Len(Octets(c)) = HashLength[rsa_profile(c.scheme).hash]
      BY <1>6, <2>1, <2>3 DEF Verifiable, is_rsa
    <3>. QED
      BY <1>1, <1>3, <2>3, <3>1, <3>2, RsaVerifies DEF Passes, Fits, is_rsa
  <2>4. CASE ~(c.scheme.family = "Ec" /\ public.kind = c.scheme)
             /\ ~(is_rsa(c.scheme) /\ is_rsa(public.kind))
    <3>1. VerifyBytes(c, public, presented, s) = "AlgorithmMismatch"
      BY <1>2, <1>6, <2>4 DEF verify_prehash
    <3>. QED
      BY <1>6, <2>4, <3>1 DEF Passes, Fits, is_rsa, Verifiable
  <2>. QED
    BY <2>2, <2>3, <2>4
<1>7. CASE c.op = "pss"
  <2>1. Octets(c) = c.data
    BY <1>3, <1>7, CallFields
  <2>2. CASE is_rsa(c.scheme) /\ is_rsa(public.kind)
    <3>1. VerifyBytes(c, public, presented, s) = "none"
            <=> verify_rsa_prehash(c.scheme, public, Octets(c), c.salt, bytes) = "none"
      BY <1>2, <1>7, <2>1, <2>2 DEF verify_rsa_pss_prehash, verify_rsa_prehash
    <3>2. Verifiable(c) <=> Len(Octets(c)) = HashLength[rsa_profile(c.scheme).hash]
      BY <1>7, <2>1, <2>2 DEF Verifiable, is_rsa
    <3>. QED
      BY <1>1, <1>3, <2>2, <3>1, <3>2, RsaVerifies DEF Passes, Fits, is_rsa
  <2>3. CASE ~(is_rsa(c.scheme) /\ is_rsa(public.kind))
    <3>1. VerifyBytes(c, public, presented, s) # "none"
      BY <1>2, <1>7, <2>3 DEF verify_rsa_pss_prehash
    <3>. QED
      BY <1>7, <2>3, <3>1 DEF Passes, Fits, is_rsa, Verifiable
  <2>. QED
    BY <2>2, <2>3
<1>. QED
  BY <1>3, <1>5, <1>6, <1>7

(* Two calls that fit one kind have the same content exactly if they make  *)
(* the same statement.                                                     *)
LEMMA ContentIsExact ==
  ASSUME NEW a \in MadeCalls, NEW b \in MadeCalls, NEW kind,
         Fits(kind, a.scheme), Fits(kind, b.scheme)
  PROVE  Content(a) = Content(b) <=> SameStatement(a, b)
<1>1. /\ a.scheme \in SignatureScheme /\ b.scheme \in SignatureScheme
      /\ a.scheme.family \in {"Ec", "Edwards", "MlDsa", "Rsa"}
      /\ b.scheme.family \in {"Ec", "Edwards", "MlDsa", "Rsa"}
  BY CallFields, Schemes
<1>2. CASE ~is_rsa(kind)
  <2>1. a.scheme = kind /\ b.scheme = kind
    BY <1>2 DEF Fits
  <2>2. SaltOf(a) = None /\ SaltOf(b) = None
    BY <1>2, <2>1 DEF SaltOf
  <2>3. CASE kind.family = "Ec"
    <3>1. Content(a) = FieldValue(kind.name, Octets(a)) /\ Content(b) = FieldValue(kind.name, Octets(b))
      BY <2>1, <2>3 DEF Content, is_rsa
    <3>2. IsOctets(Octets(a)) /\ IsOctets(Octets(b)) /\ kind.name \in Curves
      BY <1>1, <2>1, <2>3, CallOctets, Schemes
    <3>3. Content(a) = Content(b) <=> SameOctets(kind, Octets(a), Octets(b))
      BY <2>3, <3>1, <3>2, FieldValueIsExact DEF SameOctets
    <3>. QED
      BY <2>1, <2>2, <3>3 DEF SameStatement
  <2>4. CASE kind.family # "Ec"
    BY <1>2, <2>1, <2>2, <2>4 DEF Content, SameStatement, SameOctets
  <2>. QED
    BY <2>3, <2>4
<1>3. CASE is_rsa(kind)
  <2>1. is_rsa(a.scheme) /\ is_rsa(b.scheme)
    BY <1>3 DEF Fits
  <2>2. ASSUME NEW c \in MadeCalls, is_rsa(c.scheme)
        PROVE  /\ c.scheme.name \in {"pss", "pkcs1"} \X RsaHashes
               /\ c.scheme = [family |-> "Rsa", name |-> c.scheme.name]
               /\ Content(c) = IF c.scheme.name[1] = "pss"
                    THEN <<"pss", c.scheme.name[2], c.scheme.name[2], SaltOf(c), Octets(c)>>
                    ELSE <<"pkcs1", <<c.scheme.name[2], Octets(c)>>>>
               /\ c.scheme.name[1] # "pss" => SaltOf(c) = None
    <3>1. c.scheme \in SignatureScheme /\ c.scheme.family = "Rsa"
      BY <2>2, CallFields DEF is_rsa
    <3>2. Content(c) = IF c.scheme.name[1] = "pss"
            THEN <<"pss", c.scheme.name[2], c.scheme.name[2], SaltOf(c), Octets(c)>>
            ELSE <<"pkcs1", <<c.scheme.name[2], Octets(c)>>>>
      BY <2>2, <3>1 DEF Content, rsa_profile, PssBlock, Pkcs1Block
    <3>3. c.scheme.name[1] # "pss" => SaltOf(c) = None
      BY DEF SaltOf, rsa_profile
    <3>. QED
      BY <3>1, <3>2, <3>3, Schemes
  <2>3. SameStatement(a, b)
          <=> a.scheme = b.scheme /\ SaltOf(a) = SaltOf(b) /\ Octets(a) = Octets(b)
    BY <2>1 DEF SameStatement, SameOctets, is_rsa
  <2>4. SameStatement(a, b) => Content(a) = Content(b)
    BY <2>1, <2>2, <2>3
  <2>5. ASSUME Content(a) = Content(b)
        PROVE  a.scheme.name = b.scheme.name /\ SaltOf(a) = SaltOf(b) /\ Octets(a) = Octets(b)
    <3> DEFINE n == a.scheme.name
               m == b.scheme.name
    <3>1. n \in {"pss", "pkcs1"} \X RsaHashes /\ m \in {"pss", "pkcs1"} \X RsaHashes
      BY <2>1, <2>2
    <3>2. (IF n[1] = "pss" THEN <<"pss", n[2], n[2], SaltOf(a), Octets(a)>>
           ELSE <<"pkcs1", <<n[2], Octets(a)>>>>)
          = (IF m[1] = "pss" THEN <<"pss", m[2], m[2], SaltOf(b), Octets(b)>>
             ELSE <<"pkcs1", <<m[2], Octets(b)>>>>)
      BY <2>1, <2>2, <2>5
    <3>3. (n[1] # "pss" => SaltOf(a) = None) /\ (m[1] # "pss" => SaltOf(b) = None)
      BY <2>1, <2>2
    <3> HIDE DEF n, m
    <3>4. n[1] \in {"pss", "pkcs1"} /\ m[1] \in {"pss", "pkcs1"}
      BY <3>1
    <3>5. n[1] = "pss" /\ m[1] = "pss" =>
            n[2] = m[2] /\ SaltOf(a) = SaltOf(b) /\ Octets(a) = Octets(b)
      BY <3>2
    <3>6. n[1] = "pkcs1" /\ m[1] = "pkcs1" =>
            n[2] = m[2] /\ SaltOf(a) = SaltOf(b) /\ Octets(a) = Octets(b)
      BY <3>2, <3>3
    <3>7. n[1] = m[1]
      BY <3>2, <3>4
    <3>8. n[1] = m[1] /\ n[2] = m[2] /\ SaltOf(a) = SaltOf(b) /\ Octets(a) = Octets(b)
      BY <3>4, <3>5, <3>6, <3>7
    <3>9. n = m
      BY <3>1, <3>8
    <3>. QED
      BY <3>8, <3>9 DEF n, m
  <2>. QED
    BY <2>1, <2>2, <2>3, <2>4, <2>5
<1>. QED
  BY <1>2, <1>3

(* A prehash that makes the statement of a long enough one is long enough. *)
LEMMA StatementIsLongEnough ==
  ASSUME NEW a \in MadeCalls, NEW b \in MadeCalls, LongEnough(a), SameStatement(a, b)
  PROVE  LongEnough(b)
<1> SUFFICES ASSUME b.scheme.family = "Ec" PROVE PrehashLongEnough(b.scheme.name, Octets(b))
  BY DEF LongEnough
<1>1. /\ a.scheme = b.scheme /\ PrehashLongEnough(b.scheme.name, Octets(a))
      /\ SameOctets(b.scheme, Octets(a), Octets(b))
  BY DEF SameStatement, LongEnough
<1>2. CASE Octets(a) = Octets(b)
  BY <1>1, <1>2
<1>3. CASE Len(Octets(b)) >= CoordinateLength[b.scheme.name]
  <2>1. CoordinateLength[b.scheme.name] \in Nat /\ Len(Octets(b)) \in Nat
    <3>1. IsOctets(Octets(b)) /\ b.scheme.name \in Curves
      BY CallFields, CallOctets, Schemes
    <3>. QED
      BY <3>1, LengthsAssumption, LenProperties DEF IsOctets
  <2>2. ASSUME NEW w \in Nat, NEW l \in Nat, l >= w PROVE l >= w \div 2
    BY <2>2
  <2>. QED
    BY <1>3, <2>1, <2>2 DEF PrehashLongEnough
<1>. QED
  BY <1>1, <1>2, <1>3 DEF SameOctets

(* A message is told from another by its octets.                           *)
LEMMA SameMessage ==
  ASSUME NEW a \in MadeCalls, NEW b \in MadeCalls, a.scheme = b.scheme,
         a.op \in {"message", "certificate"}, b.op \in {"message", "certificate"}
  PROVE  SameStatement(a, b) <=> a.data = b.data
<1> DEFINE scheme == a.scheme
           width == CoordinateLength[scheme.name]
<1>1. scheme \in SignatureScheme /\ scheme.family \in {"Ec", "Edwards", "MlDsa", "Rsa"}
  BY CallFields, Schemes
<1>2. SaltOf(a) = SaltOf(b)
  BY DEF SaltOf
<1>3. a.data = b.data => Octets(a) = Octets(b)
  BY DEF Octets
<1>4. ASSUME SameOctets(scheme, Octets(a), Octets(b)) PROVE a.data = b.data
  <2>1. CASE scheme.family \in {"Edwards", "MlDsa"}
    <3>1. Octets(a) = <<"message", a.data>> /\ Octets(b) = <<"message", b.data>>
      BY <2>1 DEF Octets, is_rsa
    <3>2. Octets(a) = Octets(b)
      BY <1>4, <2>1 DEF SameOctets
    <3>. QED
      BY <3>1, <3>2
  <2>2. CASE scheme.family \in {"Ec", "Rsa"}
    <3>1. PICK hash \in RsaHashes \cup {CurveHash[curve] : curve \in Curves} :
            Octets(a) = Digest(hash, a.data) /\ Octets(b) = Digest(hash, b.data)
      <4>1. CASE scheme.family = "Ec"
        BY <1>1, <4>1, CallOctets, Schemes
      <4>2. CASE scheme.family = "Rsa"
        <5>1. rsa_profile(scheme).hash \in RsaHashes
          BY <1>1, <4>2, Schemes DEF rsa_profile
        <5>. QED
          BY <4>2, <5>1, CallOctets DEF is_rsa
      <4>. QED
        BY <2>2, <4>1, <4>2
    <3>2. 1 \in 1 .. HashLength[hash]
      BY LengthsAssumption
    <3>3. Octets(a)[1] = <<hash, a.data, 1>> /\ Octets(b)[1] = <<hash, b.data, 1>>
      BY <3>1, <3>2 DEF Digest
    <3>4. scheme.family = "Ec" => 1 \in 1 .. width
      BY <1>1, Schemes, LengthsAssumption
    <3>5. Octets(a)[1] = Octets(b)[1]
      BY <1>4, <3>4 DEF SameOctets
    <3>. QED
      BY <3>3, <3>5
  <2>. QED
    BY <1>1, <2>1, <2>2
<1>. QED
  BY <1>2, <1>3, <1>4 DEF SameStatement, SameOctets

-----------------------------------------------------------------------------
(* Signatures.                                                             *)

(* A signature that key k made, for the call that it records.              *)
Made(s) ==
  /\ s.kind \in KeyKind /\ s.made \in MadeCalls /\ s.content = Content(s.made)
  /\ Fits(s.kind, s.made.scheme) /\ LongEnough(s.made)
  /\ s.made.op = "certificate" => s.made.scheme = CertificateScheme(public_key(s))

LEMMA VerifiesTheStatement ==
  ASSUME NEW s, Made(s), NEW c \in VerifyCalls, NEW presented, NEW public
  PROVE  VerifyBytes(c, public, presented, s) = "none"
           <=> /\ SameKey(public, s) /\ Formed(presented, s)
               /\ Verifiable(c) /\ SameStatement(s.made, c)
<1>1. c \in MadeCalls
  BY DEF MadeCalls, SignCalls
<1>2. SameKey(public, s) <=> public.kind = s.kind /\ public.value = s.value /\ Readable(public)
  BY DEF SameKey, Readable
<1>3. VerifyBytes(c, public, presented, s) = "none"
        <=> Passes(c, public, Formed(presented, s), s)
  BY VerifyExact
<1>4. ASSUME Passes(c, public, Formed(presented, s), s)
      PROVE  SameKey(public, s) /\ SameStatement(s.made, c)
  <2>1. SameKey(public, s) /\ Fits(s.kind, c.scheme) /\ s.content = Content(c)
    BY <1>2, <1>4 DEF Passes, SignedBy
  <2>. QED
    BY <1>1, <2>1, ContentIsExact DEF Made
<1>5. ASSUME SameKey(public, s), SameStatement(s.made, c)
      PROVE  /\ Readable(public) /\ SignedBy(public, s, Content(c))
             /\ Fits(public.kind, c.scheme) /\ LongEnough(c)
  <2>1. public.kind = s.kind /\ public.value = s.value /\ Readable(public)
    BY <1>2, <1>5
  <2>2. Fits(s.kind, c.scheme)
    BY <1>5 DEF Made, SameStatement
  <2>3. s.content = Content(c)
    BY <1>1, <1>5, <2>2, ContentIsExact DEF Made
  <2>4. LongEnough(c)
    BY <1>1, <1>5, StatementIsLongEnough DEF Made
  <2>. QED
    BY <2>1, <2>2, <2>3, <2>4 DEF SignedBy
<1>. QED
  BY <1>3, <1>4, <1>5 DEF Passes

(* The identifiers of a certificate name the scheme it was signed under.   *)
LEMMA IdentifiersNameTheScheme ==
  ASSUME NEW s, Made(s), s.made.op = "certificate",
         NEW scheme \in RelyingSchemes(signature_algorithm_identifier(s.made.scheme),
                                       subject_public_key_info(s))
  PROVE  scheme \in SignatureScheme /\ scheme = s.made.scheme
<1>1. PICK kind \in KeyKind :
        /\ scheme = CertificateScheme([kind |-> kind])
        /\ subject_public_key_info(s) = subject_public_key_info([kind |-> kind])
  BY DEF RelyingSchemes
<1>2. ASSUME NEW k \in KeyKind
      PROVE  /\ ~is_rsa(k) => <<k.family, k.name>> # <<"rsa", "null">>
             /\ k = [family |-> k.family, name |-> k.name]
  BY Kinds
<1>3. IF is_rsa(kind) THEN is_rsa(s.kind) ELSE kind = s.kind
  <2>1. subject_public_key_info([kind |-> kind]) =
          IF is_rsa(kind) THEN <<"rsa", "null">> ELSE <<kind.family, kind.name>>
    BY DEF subject_public_key_info
  <2>2. subject_public_key_info(s) =
          IF is_rsa(s.kind) THEN <<"rsa", "null">> ELSE <<s.kind.family, s.kind.name>>
    BY DEF subject_public_key_info
  <2>3. s.kind \in KeyKind
    BY DEF Made
  <2>4. is_rsa(kind) <=> is_rsa(s.kind)
    BY <1>1, <1>2, <2>1, <2>2, <2>3
  <2>5. ~is_rsa(kind) => kind.family = s.kind.family /\ kind.name = s.kind.name
    BY <1>1, <2>1, <2>2, <2>4
  <2>. QED
    BY <1>2, <2>3, <2>4, <2>5
<1>4. scheme = CertificateScheme(public_key(s))
  BY <1>1, <1>3 DEF CertificateScheme, public_key
<1>. QED
  BY <1>4 DEF RelyingSchemes, Made

KindOK == key # None => key.kind \in KeyKind
SignatureOK == signature # None => Made(signature) /\ encoded = None /\ key # None

SignatureInv == KeyInv /\ KindOK /\ SignatureOK /\ VerifiesExactly

(* Whatever is imported, under whatever identity, has a kind.              *)
LEMMA ImportedKind ==
  ASSUME NEW k, k.kind \in KeyKind, NEW bytes \in Exports(k), bytes # None,
         NEW how \in {"serialized", "pkcs8", "components", "serialized_for_kind", "pkcs8_for_kind"},
         NEW identity,
         identity \in IF how \in {"serialized", "pkcs8", "components"} THEN SignatureScheme
                      ELSE KeyKind
  PROVE  Import(how, identity, bytes).value # None
           => Import(how, identity, bytes).value.kind \in KeyKind
<1> DEFINE HasKind(result) == result.value # None => result.value.kind \in KeyKind
<1>1. HasKind(Err("InvalidPrivateKey"))
  BY DEF Err
<1>2. ASSUME NEW kind \in KeyKind, NEW value, NEW seed, NEW condition
      PROVE  HasKind(When(condition, "InvalidPrivateKey", Key(kind, value, seed)))
  BY DEF When, Ok, Err, Key
<1>3. bytes.form \in {"pkcs8", "components"} => bytes.kind = k.kind
  BY ExportForms DEF Document
<1>4. ASSUME NEW scheme PROVE HasKind(from_pkcs8_der(scheme, bytes))
  <2>1. CASE bytes.form = "pkcs8"
    BY <1>2, <1>3, <2>1 DEF from_pkcs8_der
  <2>2. CASE bytes.form # "pkcs8"
    BY <2>2 DEF from_pkcs8_der, When, Err
  <2>. QED
    BY <2>1, <2>2
<1>5. ASSUME NEW scheme PROVE HasKind(from_rsa_components(scheme, bytes))
  <2>1. CASE bytes.form = "components"
    BY <1>2, <1>3, <2>1 DEF from_rsa_components
  <2>2. CASE bytes.form # "components"
    BY <2>2 DEF from_rsa_components, When, Err
  <2>. QED
    BY <2>1, <2>2
<1>6. ASSUME NEW scheme \in SignatureScheme PROVE HasKind(from_serialized(scheme, bytes))
  <2>1. CASE is_rsa(scheme)
    BY <1>4, <2>1 DEF from_serialized, is_rsa
  <2>2. CASE ~is_rsa(scheme)
    <3>1. scheme \in KeyKind /\ scheme.family \in {"Ec", "Edwards", "MlDsa"}
      BY <2>2, Schemes DEF SignatureScheme, KeyKind, is_rsa
    <3>2. \E condition \in BOOLEAN, seed \in BOOLEAN :
            from_serialized(scheme, bytes) =
              When(condition, "InvalidPrivateKey", Key(scheme, bytes.value, seed))
      <4>1. CASE scheme.family = "Ec"
        <5>1. ScalarAccepted(scheme.name, bytes) \in BOOLEAN
          BY DEF ScalarAccepted
        <5>. QED
          BY <4>1, <5>1 DEF from_serialized
      <4>2. CASE scheme.family = "Edwards"
        BY <4>2 DEF from_serialized
      <4>3. CASE scheme.family = "MlDsa"
        <5> DEFINE known == bytes.length \in {SeedLength, ExpandedLength[scheme.name]}
                   short == bytes.length = SeedLength
        <5>1. from_serialized(scheme, bytes) =
                When(known, "InvalidPrivateKey", Key(scheme, bytes.value, short))
          BY <4>3 DEF from_serialized
        <5>2. known \in BOOLEAN /\ short \in BOOLEAN
          OBVIOUS
        <5> HIDE DEF known, short
        <5>. QED
          BY <5>1, <5>2
      <4>. QED
        BY <3>1, <4>1, <4>2, <4>3
    <3>. QED
      BY <1>2, <3>1, <3>2
  <2>. QED
    BY <2>1, <2>2
<1>7. ASSUME NEW kind, NEW result, HasKind(result) PROVE HasKind(ForKind(kind, result))
  BY <1>1, <1>7 DEF ForKind
<1>8. ASSUME NEW kind \in KeyKind PROVE SchemeFor(kind) \in SignatureScheme
  <2>1. [family |-> "Rsa", name |-> <<"pkcs1", "Sha256">>] \in SignatureScheme
    BY LengthsAssumption DEF SignatureScheme
  <2>2. \E scheme \in SignatureScheme : is_rsa(scheme)
    BY <2>1 DEF is_rsa
  <2>3. ~is_rsa(kind) => kind \in SignatureScheme
    BY DEF KeyKind, SignatureScheme, is_rsa
  <2>. QED
    BY <2>2, <2>3 DEF SchemeFor
<1>9. HasKind(Import(how, identity, bytes))
  <2> HIDE DEF HasKind
  <2>1. CASE how = "serialized"
    BY <1>6, <2>1 DEF Import
  <2>2. CASE how = "pkcs8"
    BY <1>4, <2>2 DEF Import
  <2>3. CASE how = "components"
    BY <1>5, <2>3 DEF Import
  <2>4. CASE how = "serialized_for_kind"
    BY <1>6, <1>7, <1>8, <2>4 DEF Import
  <2>5. CASE how = "pkcs8_for_kind"
    BY <1>4, <1>7, <2>5 DEF Import
  <2>. QED
    BY <2>1, <2>2, <2>3, <2>4, <2>5
<1>. QED
  BY <1>9

LEMMA ImportKeepsSignatureInv ==
  ASSUME SignatureInv,
         NEW how \in {"serialized", "pkcs8", "components", "serialized_for_kind", "pkcs8_for_kind"},
         NEW identity,
         identity \in IF how \in {"serialized", "pkcs8", "components"} THEN SignatureScheme
                      ELSE KeyKind,
         ImportCall(how, identity)
  PROVE  SignatureInv'
<1>1. /\ encoded # None /\ encoded' = None /\ signature' = signature
      /\ key' = Import(how, identity, encoded).value
  BY DEF ImportCall
<1>2. signature' = None
  BY <1>1 DEF SignatureInv, SignatureOK
<1>3. SignatureOK' /\ VerifiesExactly'
  BY <1>2 DEF SignatureOK, VerifiesExactly
<1>4. key.kind \in KeyKind /\ encoded \in Exports(key)
  BY <1>1 DEF SignatureInv, KindOK, KeyInv, EncodedOK
<1>5. KindOK'
  BY <1>1, <1>4, ImportedKind DEF KindOK
<1>6. KeyInv'
  BY ImportKeepsKeyInv DEF SignatureInv
<1>. QED
  BY <1>3, <1>5, <1>6 DEF SignatureInv

LEMMA SignedIsMade ==
  ASSUME KindOK, key # None, encoded = None, NEW c \in MadeCalls, NEW result, Signed(c, result),
         c.op = "certificate" => c.scheme = CertificateScheme(public_key(key)),
         result.error = "none" =>
           result.value = Content(c) /\ Fits(key.kind, c.scheme) /\ LongEnough(c)
  PROVE  KindOK' /\ SignatureOK' /\ VerifiesExactly'
<1>1. /\ call' = None /\ key' = key /\ encoded' = encoded
      /\ signature' = IF result.error # "none" THEN None
           ELSE [kind |-> key.kind, value |-> key.value, content |-> result.value, made |-> c]
  BY DEF Signed
<1>2. VerifiesExactly' /\ KindOK'
  BY <1>1 DEF VerifiesExactly, KindOK
<1>3. ASSUME signature' # None PROVE Made(signature')
  <2>1. /\ signature'.kind = key.kind /\ signature'.value = key.value
        /\ signature'.content = result.value /\ signature'.made = c /\ result.error = "none"
    BY <1>1, <1>3
  <2>2. CertificateScheme(public_key(signature')) = CertificateScheme(public_key(key))
    BY <2>1 DEF CertificateScheme, public_key
  <2>. QED
    BY <2>1, <2>2 DEF Made, KindOK
<1>. QED
  BY <1>1, <1>2, <1>3 DEF SignatureOK

LEMMA VerifiedIsExact ==
  ASSUME signature # None, Made(signature), NEW c \in VerifyCalls, NEW presented, NEW public,
         Verified(c, public, presented),
         signature.made.op = "certificate" =>
           /\ c.op = "message" /\ c.scheme = signature.made.scheme /\ presented = "made"
           /\ public = public_key(signature)
  PROVE  VerifiesExactly'
<1> DEFINE s == signature
<1>1. /\ signature' = s /\ error' = VerifyBytes(c, public, presented, s)
      /\ call' = [op |-> c.op, scheme |-> c.scheme, data |-> c.data, salt |-> c.salt,
                  public |-> public, presented |-> presented]
  BY DEF Verified
<1>2. error' = "none" <=> /\ SameKey(public, s) /\ Formed(presented, s)
                          /\ Verifiable(c) /\ SameStatement(s.made, c)
  BY <1>1, VerifiesTheStatement
<1>3. /\ call'.op = c.op /\ call'.scheme = c.scheme /\ call'.data = c.data /\ call'.salt = c.salt
      /\ call'.public = public /\ call'.presented = presented
  BY <1>1
<1>4. Verifiable(call') = Verifiable(c) /\ SameStatement(s.made, call') = SameStatement(s.made, c)
  <2>1. Octets(call') = Octets(c) /\ SaltOf(call') = SaltOf(c)
    BY <1>3 DEF Octets, SaltOf
  <2>. QED
    BY <1>3, <2>1 DEF Verifiable, SameStatement
<1>5. ASSUME s.made.op = "certificate" PROVE error' = "none" <=> c.data = s.made.data
  <2>1. SameKey(public, s) /\ Formed(presented, s) /\ Verifiable(c)
    BY <1>5 DEF SameKey, public_key, Formed, Verifiable
  <2>2. SameStatement(s.made, c) <=> s.made.data = c.data
    <3>1. c \in MadeCalls
      BY DEF MadeCalls, SignCalls
    <3>. QED
      BY <1>5, <3>1, SameMessage DEF Made
  <2>. QED
    BY <1>2, <2>1, <2>2
<1>. QED
  BY <1>1, <1>2, <1>3, <1>4, <1>5 DEF VerifiesExactly

LEMMA SignatureInvInit == Init => SignatureInv
  BY KeyInvInit DEF Init, SignatureInv, KindOK, SignatureOK, VerifiesExactly

LEMMA SignatureInvNext == SignatureInv /\ [Next]_vars => SignatureInv'
<1> SUFFICES ASSUME SignatureInv, [Next]_vars PROVE SignatureInv'
  OBVIOUS
<1> USE DEF SignatureInv
<1>1. KeyInv'
  BY KeyInvNext
<1>2. CASE Generate
  <2>1. signature' = signature /\ key = None /\ key' = key
    BY <1>2 DEF Generate
  <2>2. signature = None
    BY <2>1 DEF SignatureOK
  <2>. QED
    BY <1>1, <2>1, <2>2 DEF KindOK, SignatureOK, VerifiesExactly
<1>3. CASE DrawFails \/ Draw
  <2>1. drawing \in KeyKind /\ key = None /\ signature' = signature
    BY <1>3 DEF DrawFails, Draw, KeyInv, DrawingOK
  <2>2. signature' = None
    BY <2>1 DEF SignatureOK
  <2>3. key' # None => key'.kind = drawing
    BY <1>3, <2>1 DEF DrawFails, Draw, Key
  <2>. QED
    BY <1>1, <2>1, <2>2, <2>3 DEF KindOK, SignatureOK, VerifiesExactly
<1>4. CASE Export
  BY <1>1, <1>4 DEF Export, KindOK, SignatureOK, VerifiesExactly
<1>5. CASE ImportByScheme
  BY <1>5, ImportKeepsSignatureInv DEF ImportByScheme
<1>6. CASE ImportForKind
  BY <1>6, ImportKeepsSignatureInv DEF ImportForKind
<1>7. CASE SignCall
  <2>1. key # None /\ encoded = None /\ key.kind \in KeyKind
    BY <1>7 DEF SignCall, KindOK
  <2>2. PICK c \in SignCalls : Signed(c, Sign(key, c))
    BY <1>7 DEF SignCall
  <2>3. c \in MadeCalls /\ c.op # "certificate"
    BY DEF MadeCalls, SignCalls, VerifyCalls, Calls
  <2>4. Sign(key, c).error = "none" =>
          Sign(key, c).value = Content(c) /\ Fits(key.kind, c.scheme) /\ LongEnough(c)
    BY <2>1, SignContent
  <2>. QED
    BY <1>1, <2>1, <2>2, <2>3, <2>4, SignedIsMade
<1>8. CASE Certify
  <2> DEFINE scheme == CertificateScheme(public_key(key))
  <2>1. key # None /\ encoded = None /\ key.kind \in KeyKind
    BY <1>8 DEF Certify, KindOK
  <2>2. PICK message \in Messages :
          Signed([op |-> "certificate", scheme |-> scheme, data |-> message, salt |-> None],
                 sign_message(key, scheme, message))
    BY <1>8 DEF Certify
  <2>3. scheme \in SignatureScheme
    BY <2>1, LengthsAssumption DEF CertificateScheme, public_key, KeyKind, SignatureScheme, is_rsa
  <2> DEFINE c == [op |-> "certificate", scheme |-> scheme, data |-> message, salt |-> None]
  <2>4. c \in MadeCalls /\ c.op = "certificate" /\ c.scheme = scheme /\ c.data = message
    BY <2>3 DEF MadeCalls, Certificates, Calls
  <2> HIDE DEF c, scheme
  <2>5. Signed(c, sign_message(key, scheme, message))
    BY <2>2 DEF c
  <2>6. sign_message(key, scheme, message).error = "none" =>
          /\ sign_message(key, scheme, message).value = Content(c)
          /\ Fits(key.kind, c.scheme) /\ LongEnough(c)
    BY <2>1, <2>4, MessageContent
  <2>. QED
    BY <1>1, <2>1, <2>4, <2>5, <2>6, SignedIsMade DEF scheme
<1>9. CASE Verify
  <2>1. signature # None /\ Made(signature) /\ signature.made.op # "certificate"
    BY <1>9 DEF Verify, SignatureOK
  <2>2. PICK c \in VerifyCalls :
          \E public \in Publics(signature), presented \in {"made", "other_s", "malformed"} :
            Verified(c, public, presented)
    <3>1. public_key(signature) \in Publics(signature)
      BY DEF Publics, Forms, public_key
    <3>. QED
      BY <1>9, <3>1 DEF Verify
  <2>3. PICK public \in Publics(signature), presented \in {"made", "other_s", "malformed"} :
          Verified(c, public, presented)
    BY <2>2
  <2>4. VerifiesExactly'
    BY <2>1, <2>3, VerifiedIsExact
  <2>. QED
    BY <1>1, <2>3, <2>4 DEF Verified, KindOK, SignatureOK
<1>10. CASE VerifyCertificate
  <2>1. signature # None /\ Made(signature) /\ signature.made.op = "certificate"
    BY <1>10 DEF VerifyCertificate, SignatureOK
  <2>2. PICK scheme \in RelyingSchemes(signature_algorithm_identifier(signature.made.scheme),
                                       subject_public_key_info(signature)),
             message \in Messages :
          Verified([op |-> "message", scheme |-> scheme, data |-> message, salt |-> None],
                   public_key(signature), "made")
    BY <1>10 DEF VerifyCertificate
  <2>3. scheme \in SignatureScheme /\ scheme = signature.made.scheme
    BY <2>1, IdentifiersNameTheScheme
  <2> DEFINE c == [op |-> "message", scheme |-> scheme, data |-> message, salt |-> None]
  <2>4. c \in VerifyCalls /\ c.op = "message" /\ c.scheme = scheme
    BY <2>3 DEF VerifyCalls, Calls
  <2> HIDE DEF c
  <2>5. Verified(c, public_key(signature), "made")
    BY <2>2 DEF c
  <2>6. VerifiesExactly'
    BY <2>1, <2>3, <2>4, <2>5, VerifiedIsExact
  <2>. QED
    BY <1>1, <2>5, <2>6 DEF Verified, KindOK, SignatureOK
<1>11. CASE UNCHANGED vars
  BY <1>1, <1>11 DEF vars, KindOK, SignatureOK, VerifiesExactly
<1>. QED
  BY <1>2, <1>3, <1>4, <1>5, <1>6, <1>7, <1>8, <1>9, <1>10, <1>11 DEF Next

(* A verification succeeds exactly if the key of that public key made the  *)
(* signature under the same scheme and salt length over the same statement *)
(* (message, digest, DigestInfo or prehash, for every curve, hash and      *)
(* prehash length), and a certificate verifies under the scheme that its   *)
(* identifiers name exactly for the content that was signed.               *)
THEOREM SignaturesVerifyExactly == Spec => []VerifiesExactly
<1>1. SignatureInv => VerifiesExactly
  BY DEF SignatureInv
<1>. QED
  BY <1>1, SignatureInvInit, SignatureInvNext, PTL DEF Spec

-----------------------------------------------------------------------------
(* The DER form of an ECDSA signature.  An encoding is cut into a tag, a   *)
(* length and contents where they stand, so that what is read and what is  *)
(* written meet in the octets.                                             *)
(* The octets of piece stand in e from position o on.                      *)
At(e, o, piece) ==
  /\ o + Len(piece) <= Len(e) + 1
  /\ \A i \in 1 .. Len(piece) : e[(o + i) - 1] = piece[i]

LEMMA AtJoined ==
  ASSUME NEW e \in Seq(Nat), NEW o \in Nat \ {0}, NEW p \in Seq(Nat), NEW q \in Seq(Nat)
  PROVE  At(e, o, p \o q) <=> At(e, o, p) /\ At(e, o + Len(p), q)
<1> DEFINE c == p \o q
           m == Len(p)
           n == Len(q)
<1>1. Len(c) = m + n /\ m \in Nat /\ n \in Nat /\ Len(e) \in Nat
  OBVIOUS
<1>2. /\ \A i \in 1 .. m : c[i] = p[i]
      /\ \A i \in 1 .. n : c[m + i] = q[i]
  OBVIOUS
<1>3. At(e, o, c) <=> (o + m) + n <= Len(e) + 1 /\ \A i \in 1 .. m + n : e[(o + i) - 1] = c[i]
  <2> HIDE DEF c, m, n
  <2>1. o + Len(c) = (o + m) + n
    BY <1>1
  <2>. QED
    BY <2>1, <1>1 DEF At
<1>4. At(e, o, p) <=> o + m <= Len(e) + 1 /\ \A i \in 1 .. m : e[(o + i) - 1] = p[i]
  BY DEF At
<1>5. At(e, o + m, q)
        <=> (o + m) + n <= Len(e) + 1 /\ \A i \in 1 .. n : e[((o + m) + i) - 1] = q[i]
  BY DEF At
<1> HIDE DEF c, m, n
<1>6. ASSUME At(e, o, c) PROVE At(e, o, p) /\ At(e, o + m, q)
  <2>1. \A i \in 1 .. m : i \in 1 .. m + n
    BY <1>1
  <2>2. \A i \in 1 .. m : e[(o + i) - 1] = p[i]
    BY <2>1, <1>2, <1>3, <1>6
  <2>3. ASSUME NEW i \in 1 .. n PROVE e[((o + m) + i) - 1] = q[i]
    <3>1. m + i \in 1 .. m + n /\ (o + (m + i)) - 1 = ((o + m) + i) - 1
      BY <1>1
    <3>2. e[(o + (m + i)) - 1] = c[m + i]
      BY <3>1, <1>3, <1>6
    <3>. QED
      BY <3>1, <3>2, <1>2
  <2>. QED
    BY <2>2, <2>3, <1>1, <1>3, <1>4, <1>5, <1>6
<1>7. ASSUME At(e, o, p), At(e, o + m, q) PROVE At(e, o, c)
  <2>2. ASSUME NEW i \in 1 .. m + n PROVE e[(o + i) - 1] = c[i]
    <3>1. CASE i \in 1 .. m
      BY <3>1, <1>2, <1>4, <1>7
    <3>2. CASE i \notin 1 .. m
      <4>1. /\ i - m \in 1 .. n /\ m + (i - m) = i
            /\ ((o + m) + (i - m)) - 1 = (o + i) - 1
        BY <3>2, <1>1
      <4>2. e[((o + m) + (i - m)) - 1] = q[i - m] /\ c[m + (i - m)] = q[i - m]
        BY <4>1, <1>2, <1>5, <1>7
      <4>. QED
        BY <4>1, <4>2
    <3>. QED
      BY <3>1, <3>2
  <2>. QED
    BY <2>2, <1>3, <1>5, <1>7
<1>8. At(e, o, c) <=> At(e, o, p) /\ At(e, o + m, q)
  BY <1>6, <1>7 DEF At
<1>. QED
  BY <1>8 DEF c, m

LEMMA AtWhole ==
  ASSUME NEW e \in Seq(Nat), NEW p \in Seq(Nat)
  PROVE  /\ At(e, 1, p) /\ Len(p) = Len(e) => e = p
         /\ At(p, 1, p)
<1>1. At(p, 1, p)
  <2>1. Len(p) \in Nat
    OBVIOUS
  <2>2. \A i \in 1 .. Len(p) : (1 + i) - 1 = i
    BY <2>1
  <2>. QED
    BY <2>1, <2>2 DEF At
<1>2. ASSUME At(e, 1, p), Len(p) = Len(e) PROVE e = p
  <2>1. Len(p) \in Nat /\ e \in [1 .. Len(p) -> Nat] /\ p \in [1 .. Len(p) -> Nat]
    BY <1>2
  <2>2. \A i \in 1 .. Len(p) : (1 + i) - 1 = i
    BY <2>1
  <2>3. \A i \in 1 .. Len(p) : e[i] = p[i]
    BY <1>2, <2>2 DEF At
  <2>. QED
    BY <2>1, <2>3
<1>. QED
  BY <1>1, <1>2

(* What der_length and DerLength know of the radix.                        *)
LEMMA TopBits ==
  ASSUME Der!OctetsFit
  PROVE  /\ \A x \in Nat : Der!TopBit(x) \in BOOLEAN
         /\ ~Der!TopBit(0) /\ Der!TopBit(Der!LongForm) /\ Der!LongForm \in Nat
<1>1. Radix \in Nat /\ Radix >= 2
  BY DEF Der!OctetsFit
<1>2. Radix \div 2 \in Nat /\ Radix \div 2 >= 1
  BY <1>1
<1>. QED
  BY <1>2 DEF Der!TopBit, Der!LongForm

LEMMA LengthIsRead ==
  ASSUME Der!OctetsFit, NEW e \in Seq(Nat), NEW o \in Nat \ {0}, Der!der_length(e, o).ok
  PROVE  \E x \in Nat : /\ Der!der_length(e, o) = Der!Read(x, o + Len(Der!DerLength(x)))
                        /\ At(e, o, Der!DerLength(x))
<1>1. Len(e) \in Nat /\ \A i \in 1 .. Len(e) : e[i] \in Nat
  OBVIOUS
<1>2. o <= Len(e)
  BY <1>1 DEF Der!der_length, Der!Refused
<1>3. e[o] \in Nat
  BY <1>1, <1>2
<1>4. CASE ~Der!TopBit(e[o])
  <2>1. Der!der_length(e, o) = Der!Read(e[o], o + 1)
    BY <1>1, <1>2, <1>4 DEF Der!der_length
  <2>2. Der!DerLength(e[o]) = <<e[o]>>
    BY <1>4 DEF Der!DerLength
  <2>3. At(e, o, <<e[o]>>)
    <3> DEFINE t == <<e[o]>>
    <3>1. Len(t) = 1 /\ t[1] = e[o] /\ (o + 1) - 1 = o
      OBVIOUS
    <3> HIDE DEF t
    <3>2. At(e, o, t)
      BY <3>1, <1>1, <1>2 DEF At
    <3>. QED
      BY <3>2 DEF t
  <2>. QED
    <3>0. At(e, o, Der!DerLength(e[o])) /\ Len(Der!DerLength(e[o])) = 1
      BY <2>2, <2>3
    <3>. QED
      BY <3>0, <2>1, <1>3
<1>5. CASE Der!TopBit(e[o])
  <2>1. /\ e[o] = Der!LongForm /\ o < Len(e) /\ Der!TopBit(e[o + 1])
        /\ Der!der_length(e, o) = Der!Read(e[o + 1], o + 2)
    BY <1>1, <1>2, <1>5 DEF Der!der_length, Der!Refused
  <2>2. e[o + 1] \in Nat
    BY <1>1, <2>1
  <2>3. Der!DerLength(e[o + 1]) = <<e[o], e[o + 1]>>
    BY <2>1 DEF Der!DerLength
  <2>4. At(e, o, <<e[o], e[o + 1]>>) /\ Len(<<e[o], e[o + 1]>>) = 2
    <3> DEFINE t == <<e[o], e[o + 1]>>
    <3>1. /\ Len(t) = 2 /\ t[1] = e[o] /\ t[2] = e[o + 1]
          /\ (o + 1) - 1 = o /\ (o + 2) - 1 = o + 1
      OBVIOUS
    <3> HIDE DEF t
    <3>2. \A i \in 1 .. 2 : i = 1 \/ i = 2
      OBVIOUS
    <3>3. At(e, o, t)
      BY <3>1, <3>2, <1>1, <2>1 DEF At
    <3>. QED
      BY <3>1, <3>3 DEF t
  <2>5. At(e, o, Der!DerLength(e[o + 1])) /\ Len(Der!DerLength(e[o + 1])) = 2
    BY <2>3, <2>4
  <2>. QED
    BY <2>1, <2>2, <2>5
<1>. QED
  BY <1>4, <1>5

LEMMA LengthReads ==
  ASSUME Der!OctetsFit, NEW e \in Seq(Nat), NEW o \in Nat \ {0}, NEW x \in Nat,
         At(e, o, Der!DerLength(x))
  PROVE  Der!der_length(e, o) = Der!Read(x, o + Len(Der!DerLength(x)))
<1>1. Len(e) \in Nat /\ \A i \in 1 .. Len(e) : e[i] \in Nat
  OBVIOUS
<1>2. CASE ~Der!TopBit(x)
  <2>1. Der!DerLength(x) = <<x>> /\ Len(<<x>>) = 1 /\ <<x>>[1] = x
    BY <1>2 DEF Der!DerLength
  <2>2. o <= Len(e) /\ e[(o + 1) - 1] = x /\ (o + 1) - 1 = o
    BY <2>1, <1>1 DEF At
  <2>. QED
    BY <2>1, <2>2, <1>1, <1>2 DEF Der!der_length
<1>3. CASE Der!TopBit(x)
  <2> DEFINE t == <<Der!LongForm, x>>
  <2>1. Der!DerLength(x) = t /\ Len(t) = 2 /\ t[1] = Der!LongForm /\ t[2] = x
    BY <1>3 DEF Der!DerLength
  <2> HIDE DEF t
  <2>2. o + 2 <= Len(e) + 1 /\ e[(o + 1) - 1] = t[1] /\ e[(o + 2) - 1] = t[2]
    BY <2>1, <1>1 DEF At
  <2>3. o < Len(e) /\ o <= Len(e) /\ e[o] = Der!LongForm /\ e[o + 1] = x
    <3>1. (o + 1) - 1 = o /\ (o + 2) - 1 = o + 1
      OBVIOUS
    <3>. QED
      BY <3>1, <2>1, <2>2, <1>1
  <2>4. Der!TopBit(e[o])
    BY <2>3, TopBits
  <2>. QED
    BY <2>1, <2>3, <2>4, <1>1, <1>3 DEF Der!der_length
<1>. QED
  BY <1>2, <1>3

LEMMA JoinedOctets ==
  ASSUME NEW p \in Seq(Nat), NEW q \in Seq(Nat)
  PROVE  /\ p \o q \in Seq(Nat) /\ Len(p \o q) = Len(p) + Len(q)
         /\ Len(p) \in Nat /\ p \in [1 .. Len(p) -> Nat]
  OBVIOUS

LEMMA JoinedIndices ==
  ASSUME NEW p \in Seq(Nat), NEW q \in Seq(Nat)
  PROVE  /\ \A i \in 1 .. Len(p) : (p \o q)[i] = p[i]
         /\ \A i \in 1 .. Len(q) : (p \o q)[Len(p) + i] = q[i]
  OBVIOUS

LEMMA EqualOctets ==
  ASSUME NEW p \in Seq(Nat), NEW q \in Seq(Nat), Len(p) = Len(q),
         \A i \in 1 .. Len(p) : p[i] = q[i]
  PROVE  p = q
<1>1. p \in [1 .. Len(p) -> Nat] /\ q \in [1 .. Len(p) -> Nat]
  BY JoinedOctets
<1>. QED
  BY <1>1

LEMMA SliceOctets ==
  ASSUME NEW p \in Seq(Nat), NEW z \in Nat, NEW l \in Nat, z + l <= Len(p)
  PROVE  /\ SubSeq(p, z + 1, z + l) \in Seq(Nat) /\ Len(SubSeq(p, z + 1, z + l)) = l
         /\ \A i \in 1 .. l : SubSeq(p, z + 1, z + l)[i] = p[z + i]
  OBVIOUS

LEMMA LengthOctets ==
  ASSUME Der!OctetsFit, NEW x \in Nat
  PROVE  Der!DerLength(x) \in Seq(Nat) /\ Len(Der!DerLength(x)) \in 1 .. 2
  BY TopBits DEF Der!DerLength

LEMMA AtOne ==
  ASSUME NEW e \in Seq(Nat), NEW o \in Nat \ {0}, NEW x \in Nat
  PROVE  At(e, o, <<x>>) <=> o <= Len(e) /\ e[o] = x
<1> DEFINE t == <<x>>
<1>1. Len(t) = 1 /\ t[1] = x /\ (o + 1) - 1 = o /\ Len(e) \in Nat
  OBVIOUS
<1> HIDE DEF t
<1>2. \A i \in 1 .. 1 : i = 1
  OBVIOUS
<1>3. At(e, o, t) <=> o + 1 <= Len(e) + 1 /\ \A i \in 1 .. 1 : e[(o + i) - 1] = t[i]
  BY <1>1 DEF At
<1>4. At(e, o, t) <=> o <= Len(e) /\ e[o] = x
  BY <1>1, <1>2, <1>3
<1>. QED
  BY <1>4 DEF t

(* A tag, a length and that many octets stand where they are tagged.       *)
Parts(e, o, tag, c, next) ==
  LET size == Der!DerLength(Len(c))
  IN  /\ Der!Tagged(tag, c) \in Seq(Nat)
      /\ Len(Der!Tagged(tag, c)) = (1 + Len(size)) + Len(c)
      /\ At(e, o, Der!Tagged(tag, c))
           <=> o <= Len(e) /\ e[o] = tag /\ At(e, next, size) /\ At(e, next + Len(size), c)

LEMMA AtTagged ==
  ASSUME Der!OctetsFit, NEW e \in Seq(Nat), NEW o \in Nat \ {0}, NEW tag \in Nat, NEW c \in Seq(Nat)
  PROVE  LET size == Der!DerLength(Len(c))
         IN  /\ Der!Tagged(tag, c) \in Seq(Nat)
             /\ Len(Der!Tagged(tag, c)) = (1 + Len(size)) + Len(c)
             /\ At(e, o, Der!Tagged(tag, c))
                  <=> /\ o <= Len(e) /\ e[o] = tag
                      /\ At(e, o + 1, size) /\ At(e, (o + 1) + Len(size), c)
<1> DEFINE size == Der!DerLength(Len(c))
           t == <<tag>>
<1>1. size \in Seq(Nat) /\ Len(size) \in Nat
  BY LengthOctets
<1>2. t \in Seq(Nat) /\ Len(t) = 1
  OBVIOUS
<1>3. Der!Tagged(tag, c) = (t \o size) \o c
  BY DEF Der!Tagged
<1>4. At(e, o, t) <=> o <= Len(e) /\ e[o] = tag
  BY AtOne
<1> HIDE DEF size, t
<1>5. t \o size \in Seq(Nat) /\ Len(t \o size) = 1 + Len(size)
  BY <1>1, <1>2, JoinedOctets
<1>6. (t \o size) \o c \in Seq(Nat) /\ Len((t \o size) \o c) = (1 + Len(size)) + Len(c)
  BY <1>5, JoinedOctets
<1>7. At(e, o, (t \o size) \o c) <=> At(e, o, t \o size) /\ At(e, o + Len(t \o size), c)
  BY <1>5, AtJoined
<1>8. At(e, o, t \o size) <=> At(e, o, t) /\ At(e, o + Len(t), size)
  BY <1>1, <1>2, AtJoined
<1>9. o + Len(t \o size) = (o + 1) + Len(size) /\ o + Len(t) = o + 1
  BY <1>1, <1>2, <1>5
<1>10. At(e, o, (t \o size) \o c)
         <=> /\ o <= Len(e) /\ e[o] = tag
             /\ At(e, o + 1, size) /\ At(e, (o + 1) + Len(size), c)
  BY <1>4, <1>7, <1>8, <1>9
<1>. QED
  BY <1>3, <1>6, <1>10 DEF size

LEMMA PartsAt ==
  ASSUME Der!OctetsFit, NEW e \in Seq(Nat), NEW o \in Nat \ {0}, NEW tag \in Nat,
         NEW c \in Seq(Nat), NEW next, next = o + 1
  PROVE  Parts(e, o, tag, c, next)
  BY AtTagged, Zenon DEF Parts

LEMMA AtFront ==
  ASSUME Der!OctetsFit, NEW e \in Seq(Nat), NEW tag \in Nat, NEW c \in Seq(Nat)
  PROVE  Parts(e, 1, tag, c, 2)
<1>1. 1 \in Nat \ {0} /\ 2 = 1 + 1
  OBVIOUS
<1>. QED
  BY <1>1, PartsAt

LEMMA AtSlice ==
  ASSUME NEW e \in Seq(Nat), NEW o \in Nat \ {0}, NEW x \in Nat, o + x <= Len(e) + 1
  PROVE  /\ SubSeq(e, o, o + (x - 1)) \in Seq(Nat) /\ Len(SubSeq(e, o, o + (x - 1))) = x
         /\ At(e, o, SubSeq(e, o, o + (x - 1)))
<1> DEFINE v == SubSeq(e, o, o + (x - 1))
<1>0. Len(e) \in Nat
  OBVIOUS
<1>a. \A i \in 1 .. x : (o + i) - 1 \in 1 .. Len(e) /\ e[(o + i) - 1] \in Nat
  BY <1>0
<1>b. (o + (x - 1)) \in Int /\ ((o + (x - 1)) - o) + 1 = x
  BY <1>0
<1>c. v \in Seq(Nat) /\ Len(v) = x
  BY <1>0, <1>a, <1>b
<1>d. \A i \in 1 .. x : v[i] = e[(o + i) - 1]
  BY <1>0, <1>a, <1>b
<1>1. /\ v \in Seq(Nat) /\ Len(v) = x
      /\ \A i \in 1 .. x : v[i] = e[(o + i) - 1]
  BY <1>c, <1>d
<1> HIDE DEF v
<1>2. At(e, o, v)
  BY <1>1 DEF At
<1>. QED
  BY <1>1, <1>2 DEF v

LEMMA AtTwice ==
  ASSUME NEW e, NEW o, NEW p \in Seq(Nat), NEW q \in Seq(Nat),
         Len(p) = Len(q), At(e, o, p), At(e, o, q)
  PROVE  p = q
<1>2. \A i \in 1 .. Len(p) : e[(o + i) - 1] = p[i] /\ e[(o + i) - 1] = q[i]
  BY DEF At
<1>3. \A i \in 1 .. Len(p) : p[i] = q[i]
  BY <1>2
<1>. QED
  BY <1>3, EqualOctets

(* A number without zeros in front of it, and its octets as a DER integer. *)
Positive(m) == m \in Seq(Nat) /\ Len(m) >= 1 /\ (m[1] # 0 \/ Len(m) = 1)
Canonical(m) == IF Der!TopBit(m[1]) THEN <<0>> \o m ELSE m
IntegerOf(m) == Der!Tagged(IntegerTag, Canonical(m))

LEMMA CanonicalOctets ==
  ASSUME Der!OctetsFit, NEW m, Positive(m)
  PROVE  /\ Canonical(m) \in Seq(Nat) /\ Len(Canonical(m)) >= 1 /\ Canonical(m) # << >>
         /\ ~Der!TopBit(Canonical(m)[1]) /\ Der!Magnitude(Canonical(m)) = <<m>>
<1>1. m \in Seq(Nat) /\ Len(m) \in Nat /\ Len(m) >= 1 /\ m[1] \in Nat /\ (m[1] # 0 \/ Len(m) = 1)
  BY DEF Positive
<1>2. CASE Der!TopBit(m[1])
  <2> DEFINE c == <<0>> \o m
  <2>1. /\ c \in Seq(Nat) /\ Len(c) = Len(m) + 1 /\ c[1] = 0 /\ c[2] = m[1] /\ c # << >>
        /\ Tail(c) = m
    BY <1>1
  <2> HIDE DEF c
  <2>2. Der!Magnitude(c) = <<m>>
    <3>1. Len(c) > 1 /\ c[1] = 0 /\ Der!TopBit(c[2])
      BY <2>1, <1>1, <1>2
    <3>2. Der!Magnitude(c) = <<Tail(c)>>
      BY <3>1 DEF Der!Magnitude
    <3>. QED
      BY <3>2, <2>1
  <2>3. Canonical(m) = c
    BY <1>2 DEF Canonical, c
  <2>. QED
    BY <2>1, <2>2, <2>3, <1>1, TopBits
<1>3. CASE ~Der!TopBit(m[1])
  <2>1. Canonical(m) = m /\ m # << >>
    BY <1>1, <1>3 DEF Canonical
  <2>2. Der!Magnitude(m) = <<m>>
    BY <1>1 DEF Der!Magnitude
  <2>. QED
    BY <2>1, <2>2, <1>1, <1>3
<1>. QED
  BY <1>2, <1>3

LEMMA MagnitudeIs ==
  ASSUME Der!OctetsFit, NEW v \in Seq(Nat), v # << >>, ~Der!TopBit(v[1]), Der!Magnitude(v) # << >>
  PROVE  /\ Positive(Der!Magnitude(v)[1]) /\ Canonical(Der!Magnitude(v)[1]) = v
<1>1. Len(v) \in Nat /\ Len(v) >= 1 /\ v[1] \in Nat
  OBVIOUS
<1>2. CASE Len(v) > 1 /\ v[1] = 0
  <2> DEFINE m == Tail(v)
  <2>1. Der!TopBit(v[2]) /\ Der!Magnitude(v) = <<m>>
    BY <1>2 DEF Der!Magnitude
  <2>2. m \in Seq(Nat) /\ Len(m) = Len(v) - 1 /\ m[1] = v[2] /\ Len(m) >= 1
    BY <1>1, <1>2
  <2>3. <<0>> \o m = v
    BY <1>1, <1>2
  <2> HIDE DEF m
  <2>4. m[1] # 0
    BY <2>1, <2>2, TopBits
  <2>5. Positive(m) /\ Canonical(m) = v
    BY <2>1, <2>2, <2>3, <2>4 DEF Positive, Canonical
  <2>6. Der!Magnitude(v)[1] = m
    BY <2>1
  <2>. QED
    BY <2>5, <2>6
<1>3. CASE ~(Len(v) > 1 /\ v[1] = 0)
  <2>1. Der!Magnitude(v) = <<v>>
    BY <1>3 DEF Der!Magnitude
  <2>2. Der!Magnitude(v)[1] = v
    BY <2>1
  <2>3. Positive(v)
    <3> DEFINE l == Len(v)
    <3>0. l \in Nat /\ l >= 1 /\ ~(l > 1 /\ v[1] = 0)
      BY <1>1, <1>3
    <3> HIDE DEF l
    <3>1. v[1] # 0 \/ l = 1
      BY <3>0
    <3>. QED
      BY <3>1, <1>1, Zenon DEF Positive, l
  <2>4. Canonical(v) = v
    BY DEF Canonical
  <2>. QED
    BY <2>2, <2>3, <2>4
<1>. QED
  BY <1>2, <1>3

LEMMA IntegerOctets ==
  ASSUME Der!OctetsFit, NEW m, Positive(m)
  PROVE  IntegerOf(m) \in Seq(Nat) /\ Len(IntegerOf(m)) \in Nat
<1>1. Canonical(m) \in Seq(Nat)
  BY CanonicalOctets
<1>2. IntegerTag \in Nat /\ << >> \in Seq(Nat) /\ 1 \in Nat \ {0}
  BY DEF Der!OctetsFit
<1>3. IntegerOf(m) \in Seq(Nat)
  BY <1>1, <1>2, AtTagged DEF IntegerOf
<1>. QED
  BY <1>3, JoinedOctets

(* der_positive_integer, once the tag and the length are read.             *)
Contents(e, y, x) ==
  LET last == y + x - 1
      value == SubSeq(e, y, last)
  IN  IF value = << >> \/ Der!TopBit(value[1]) \/ Der!Magnitude(value) = << >> THEN Der!Refused
      ELSE Der!Read(Der!Magnitude(value)[1], last + 1)

LEMMA ContentsRead ==
  ASSUME NEW e, NEW o, ~(o > Len(e)), e[o] = IntegerTag,
         NEW x, NEW y, Der!der_length(e, o + 1) = Der!Read(x, y), ~(y + x > Len(e) + 1)
  PROVE  Der!der_positive_integer(e, o) = Contents(e, y, x)
<1> DEFINE d == Der!der_length(e, o + 1)
<1>1. d.ok /\ d.next = y /\ d.value = x
  BY DEF Der!Read
<1>. QED
  BY <1>1, Zenon DEF Der!der_positive_integer, Contents

LEMMA IntegerIsRead ==
  ASSUME Der!OctetsFit, NEW e \in Seq(Nat), NEW o \in Nat \ {0}, Der!der_positive_integer(e, o).ok
  PROVE  \E m : /\ Positive(m) /\ At(e, o, IntegerOf(m))
                /\ Der!der_positive_integer(e, o) = Der!Read(m, o + Len(IntegerOf(m)))
<1>0. ~Der!Refused.ok /\ Len(e) \in Nat /\ IntegerTag \in Nat
  BY DEF Der!Refused, Der!OctetsFit
<1>1. o <= Len(e) /\ e[o] = IntegerTag
  BY <1>0 DEF Der!der_positive_integer
<1> DEFINE d == Der!der_length(e, o + 1)
<1>2. d.ok
  BY <1>0, <1>1 DEF Der!der_positive_integer
<1>3. PICK x \in Nat : /\ d = Der!Read(x, (o + 1) + Len(Der!DerLength(x)))
                       /\ At(e, o + 1, Der!DerLength(x))
  BY <1>2, LengthIsRead
<1> DEFINE y == (o + 1) + Len(Der!DerLength(x))
           v == SubSeq(e, y, y + (x - 1))
           r == Der!der_positive_integer(e, o)
<1>4. y \in Nat \ {0}
  BY LengthOctets
<1>5. d.ok /\ d.next = y /\ d.value = x
  BY <1>3 DEF Der!Read
<1> HIDE DEF d, y
<1>6. y + x <= Len(e) + 1
  BY <1>0, <1>1, <1>4, <1>5 DEF Der!der_positive_integer, d
<1>7. /\ v # << >> /\ ~Der!TopBit(v[1]) /\ Der!Magnitude(v) # << >>
      /\ r = Der!Read(Der!Magnitude(v)[1], (y + (x - 1)) + 1)
  <2>1. ~(o > Len(e)) /\ ~(y + x > Len(e) + 1) /\ y + x - 1 = y + (x - 1)
    BY <1>0, <1>1, <1>4, <1>6
  <2>2. d = Der!Read(x, y)
    BY <1>3 DEF y
  <2>3. r = Contents(e, y, x)
    BY <2>1, <2>2, <1>1, ContentsRead DEF d
  <2>. QED
    BY <2>1, <2>3, <1>0, Zenon DEF Contents
<1>8. v \in Seq(Nat) /\ Len(v) = x /\ At(e, y, v)
  BY <1>4, <1>6, AtSlice
<1> DEFINE m == Der!Magnitude(v)[1]
<1> HIDE DEF v, r
<1>9. Positive(m) /\ Canonical(m) = v
  BY <1>7, <1>8, MagnitudeIs
<1>10. At(e, o, Der!Tagged(IntegerTag, v))
  BY <1>0, <1>1, <1>3, <1>8, AtTagged DEF y
<1>11. o + Len(Der!Tagged(IntegerTag, v)) = (y + (x - 1)) + 1
  <2> DEFINE l == Len(Der!DerLength(x))
  <2>1. Len(Der!Tagged(IntegerTag, v)) = (1 + l) + x
    BY <1>0, <1>8, AtTagged
  <2>2. y = (o + 1) + l /\ l \in Nat
    BY LengthOctets DEF y
  <2> HIDE DEF l
  <2>. QED
    BY <2>1, <2>2
<1>12. IntegerOf(m) = Der!Tagged(IntegerTag, v)
  BY <1>9 DEF IntegerOf
<1> HIDE DEF m
<1>13. r = Der!Read(m, o + Len(IntegerOf(m)))
  BY <1>7, <1>11, <1>12 DEF m
<1>14. At(e, o, IntegerOf(m))
  BY <1>10, <1>12
<1>. QED
  BY <1>9, <1>13, <1>14 DEF r

LEMMA IntegerReads ==
  ASSUME Der!OctetsFit, NEW e \in Seq(Nat), NEW o \in Nat \ {0}, NEW m, Positive(m),
         At(e, o, IntegerOf(m))
  PROVE  Der!der_positive_integer(e, o) = Der!Read(m, o + Len(IntegerOf(m)))
<1>0. Len(e) \in Nat /\ IntegerTag \in Nat
  BY DEF Der!OctetsFit
<1> DEFINE v == Canonical(m)
           x == Len(v)
           y == (o + 1) + Len(Der!DerLength(x))
           d == Der!der_length(e, o + 1)
<1>1. /\ v \in Seq(Nat) /\ x >= 1 /\ v # << >>
      /\ ~Der!TopBit(v[1]) /\ Der!Magnitude(v) = <<m>>
  BY CanonicalOctets
<1>2. x \in Nat
  BY <1>1, JoinedOctets
<1>3. IntegerOf(m) = Der!Tagged(IntegerTag, v)
  BY DEF IntegerOf
<1> HIDE DEF v
<1>p. Parts(e, o, IntegerTag, v, o + 1)
  BY <1>0, <1>1, PartsAt
<1>4. o <= Len(e) /\ e[o] = IntegerTag /\ At(e, o + 1, Der!DerLength(x)) /\ At(e, y, v)
  BY <1>3, <1>p, Zenon DEF Parts
<1>5. Len(IntegerOf(m)) = (1 + Len(Der!DerLength(x))) + x
  BY <1>3, <1>p, Zenon DEF Parts
<1>6. Len(Der!DerLength(x)) \in Nat
  BY <1>2, LengthOctets
<1>7. d = Der!Read(x, y)
  BY <1>2, <1>4, LengthReads
<1>8. y + x <= Len(e) + 1
  BY <1>4 DEF At
<1>9. y \in Nat \ {0} /\ o + Len(IntegerOf(m)) = (y + (x - 1)) + 1
  BY <1>2, <1>5, <1>6
<1>10. d.ok /\ d.next = y /\ d.value = x
  BY <1>7 DEF Der!Read
<1> HIDE DEF y, d
<1>11. SubSeq(e, y, y + (x - 1)) = v
  <2> HIDE DEF x
  <2>1. v \in Seq(Nat) /\ Len(v) = x
    BY <1>1 DEF x
  <2> DEFINE u == SubSeq(e, y, y + (x - 1))
  <2>2. u \in Seq(Nat) /\ Len(u) = x /\ At(e, y, u)
    BY <1>2, <1>8, <1>9, AtSlice
  <2> HIDE DEF u
  <2>3. u = v
    BY <2>1, <2>2, <1>4, AtTwice
  <2>. QED
    BY <2>3 DEF u
<1> HIDE DEF x
<1>12. Der!der_positive_integer(e, o) = Der!Read(Der!Magnitude(v)[1], (y + (x - 1)) + 1)
  <2>a. o \in Nat /\ y \in Nat /\ o <= Len(e)
    BY <1>4, <1>9
  <2>b. ~(o > Len(e))
    BY <2>a, <1>0
  <2>c. ~(y + x > Len(e) + 1) /\ y + x - 1 = y + (x - 1)
    BY <2>a, <1>0, <1>2, <1>8
  <2>1. ~(o > Len(e)) /\ ~(y + x > Len(e) + 1) /\ y + x - 1 = y + (x - 1)
    BY <2>b, <2>c
  <2>2. Der!der_positive_integer(e, o) = Contents(e, y, x)
    BY <2>1, <1>4, <1>7, ContentsRead DEF d
  <2>3. Der!Magnitude(v) # << >>
    BY <1>1
  <2>. QED
    BY <2>1, <2>2, <2>3, <1>1, <1>11, Zenon DEF Contents
<1>13. Der!Magnitude(v)[1] = m
  BY <1>1
<1>. QED
  BY <1>9, <1>12, <1>13

(* The first octet of a number that is not a leading zero.                 *)
Leads(number, k) ==
  /\ number[k] # 0 \/ k = Len(number)
  /\ \A j \in 1 .. k - 1 : number[j] = 0

LEMMA LeadExists ==
  ASSUME NEW number \in Seq(Nat), Len(number) >= 1
  PROVE  \E k \in 1 .. Len(number) : Leads(number, k)
<1> DEFINE L == Len(number)
           K == L - 1
           G == {i \in 0 .. K : \A j \in 1 .. i : number[j] = 0}
<1>1. L \in Nat /\ L >= 1
  OBVIOUS
<1> HIDE DEF L
<1>2. K \in Nat /\ 0 \in G
  BY <1>1
<1>3. CASE \A i \in 1 .. K : i - 1 \in G => i \in G
  <2>1. \A i \in 0 .. K : i \in G
    <3> HIDE DEF G, K
    <3>. QED
      BY <1>2, <1>3, UpTo
  <2>2. K \in G /\ L \in 1 .. L
    BY <2>1, <1>1
  <2>3. \A j \in 1 .. L - 1 : number[j] = 0
    BY <2>2
  <2>. QED
    BY <2>2, <2>3 DEF Leads, L
<1>4. CASE ~\A i \in 1 .. K : i - 1 \in G => i \in G
  <2>1. PICK i \in 1 .. K : i - 1 \in G /\ i \notin G
    BY <1>4
  <2>2. \A j \in 1 .. i - 1 : number[j] = 0
    BY <2>1
  <2>3. i \in 1 .. L /\ i \in 0 .. K
    BY <2>1, <1>1
  <2>4. PICK j \in 1 .. i : number[j] # 0
    BY <2>1, <2>3
  <2>5. j = i
    BY <2>2, <2>4
  <2>. QED
    BY <2>2, <2>3, <2>4, <2>5 DEF Leads, L
<1>. QED
  BY <1>3, <1>4

LEMMA LeadIs ==
  ASSUME NEW number \in Seq(Nat), NEW k \in 1 .. Len(number), Leads(number, k)
  PROVE  k = CHOOSE i \in 1 .. Len(number) : Leads(number, i)
<1> DEFINE i == CHOOSE h \in 1 .. Len(number) : Leads(number, h)
           L == Len(number)
<1>1. L \in Nat
  OBVIOUS
<1>2. i \in 1 .. L /\ Leads(number, i)
  OBVIOUS
<1> HIDE DEF i, L
<1>3. k \in 1 .. L
  BY DEF L
<1>4. /\ number[k] # 0 \/ k = L
      /\ number[i] # 0 \/ i = L
      /\ \A j \in 1 .. k - 1 : number[j] = 0
      /\ \A j \in 1 .. i - 1 : number[j] = 0
  BY <1>2 DEF Leads, L
<1>5. i < k => i \in 1 .. k - 1 /\ i # L
  BY <1>1, <1>2, <1>3
<1>6. k < i => k \in 1 .. i - 1 /\ k # L
  BY <1>1, <1>2, <1>3
<1>7. ~(i < k) /\ ~(k < i)
  BY <1>4, <1>5, <1>6
<1>8. k = i
  BY <1>1, <1>2, <1>3, <1>7
<1>. QED
  BY <1>8 DEF i

LEMMA ShortestIs ==
  ASSUME Der!OctetsFit, NEW number \in Seq(Nat), NEW k \in 1 .. Len(number), Leads(number, k),
         NEW m, m = SubSeq(number, k, Len(number))
  PROVE  Positive(m) /\ Len(m) <= Len(number) /\ Der!Shortest(number) = Canonical(m)
<1> DEFINE L == Len(number)
           top == IF Der!TopBit(number[k]) THEN <<0>> ELSE << >>
<1>1. L \in Nat /\ k \in Nat /\ k >= 1 /\ k <= L
  OBVIOUS
<1>2. m \in Seq(Nat) /\ Len(m) = (L - k) + 1 /\ m[1] = number[k]
  BY <1>1
<1>3. k = CHOOSE i \in 1 .. L : Leads(number, i)
  BY LeadIs
<1>4. Der!Shortest(number) = top \o m
  <2> DEFINE first == CHOOSE i \in 1 .. Len(number) :
                        /\ number[i] # 0 \/ i = Len(number)
                        /\ \A j \in 1 .. i - 1 : number[j] = 0
  <2>1. first = k
    BY <1>3, Zenon DEF Leads
  <2>2. Der!Shortest(number)
          = (IF Der!TopBit(number[first]) THEN <<0>> ELSE << >>)
            \o SubSeq(number, first, Len(number))
    BY Zenon DEF Der!Shortest
  <2>. QED
    BY <2>1, <2>2, Zenon
<1> HIDE DEF L
<1>5. number[k] # 0 \/ k = L
  BY DEF Leads, L
<1>6. Positive(m)
  <2> DEFINE l == Len(m)
  <2>1. l \in Nat /\ l >= 1 /\ (m[1] # 0 \/ l = 1)
    <3> HIDE DEF l
    <3>1. l = (L - k) + 1
      BY <1>2 DEF l
    <3>. QED
      BY <3>1, <1>1, <1>2, <1>5
  <2>. QED
    BY <2>1, <1>2 DEF Positive
<1>7. top \o m = Canonical(m)
  <2>1. << >> \o m = m
    BY <1>2
  <2>. QED
    BY <2>1, <1>2, Zenon DEF Canonical
<1>8. Len(m) <= L
  BY <1>1, <1>2
<1>. QED
  BY <1>4, <1>6, <1>7, <1>8, Zenon DEF L

(* The octets of a number, padded on the left, are written as the number.  *)
LEMMA PaddedIs ==
  ASSUME Der!OctetsFit, NEW m, Positive(m), NEW w \in Nat, Len(m) <= w
  PROVE  /\ Der!LeftPad(m, w) \in Seq(Nat) /\ Len(Der!LeftPad(m, w)) = w
         /\ Der!Shortest(Der!LeftPad(m, w)) = Canonical(m)
<1> DEFINE l == Len(m)
           z == w - l
           zeros == Der!Zeros(z)
           number == zeros \o m
           k == z + 1
<1>1. m \in Seq(Nat) /\ l \in Nat /\ l >= 1 /\ l <= w /\ (m[1] # 0 \/ l = 1)
  BY DEF Positive
<1>2. z \in Nat /\ z + l = w
  BY <1>1
<1>3. Der!LeftPad(m, w) = number
  BY DEF Der!LeftPad
<1> HIDE DEF l, z
<1>4. zeros \in Seq(Nat) /\ Len(zeros) = z /\ \A i \in 1 .. z : zeros[i] = 0
  BY <1>2 DEF Der!Zeros
<1> HIDE DEF zeros
<1>5. /\ number \in Seq(Nat) /\ Len(number) = w
      /\ \A i \in 1 .. z : number[i] = 0
      /\ \A i \in 1 .. l : number[z + i] = m[i]
  <2>1. number \in Seq(Nat) /\ Len(number) = z + l
    BY <1>1, <1>4, JoinedOctets DEF l
  <2>2. /\ \A i \in 1 .. Len(zeros) : number[i] = zeros[i]
        /\ \A i \in 1 .. Len(m) : number[Len(zeros) + i] = m[i]
    BY <1>1, <1>4, JoinedIndices
  <2> HIDE DEF number
  <2>. QED
    BY <2>1, <2>2, <1>2, <1>4 DEF l
<1> HIDE DEF number
<1>6. k \in 1 .. w /\ k - 1 = z /\ number[k] = m[1] /\ (l = 1 => k = w)
  BY <1>1, <1>2, <1>5
<1>7. Leads(number, k)
  BY <1>1, <1>5, <1>6 DEF Leads
<1> DEFINE u == SubSeq(number, k, Len(number))
<1>8. Der!Shortest(number) = Canonical(u)
  BY <1>5, <1>6, <1>7, ShortestIs
<1>9. u = m
  <2>1. u \in Seq(Nat) /\ Len(u) = l /\ \A i \in 1 .. l : u[i] = number[z + i]
    <3>1. Len(number) = w /\ number \in Seq(Nat)
      BY <1>5
    <3>2. u = SubSeq(number, z + 1, z + l)
      BY <3>1, <1>2
    <3>3. z + 1 >= 1 /\ z + l <= Len(number)
      BY <3>1, <1>1, <1>2
    <3> HIDE DEF u, k
    <3>. QED
      BY <3>1, <3>2, <3>3, <1>1, <1>2, SliceOctets
  <2> HIDE DEF u
  <2>2. Len(u) = Len(m) /\ \A i \in 1 .. Len(u) : u[i] = m[i]
    BY <2>1, <1>5 DEF l
  <2>. QED
    BY <2>1, <2>2, <1>1, EqualOctets
<1>. QED
  BY <1>3, <1>5, <1>8, <1>9

(* The one encoding of two numbers, and what from_der makes of them.       *)
Pair(m, n) == IntegerOf(m) \o IntegerOf(n)
Whole(m, n) == Der!Tagged(SequenceTag, Pair(m, n))
Padded(m, n, w) == Der!LeftPad(m, w) \o Der!LeftPad(n, w)

LEMMA PairOctets ==
  ASSUME Der!OctetsFit, NEW m, Positive(m), NEW n, Positive(n)
  PROVE  /\ Pair(m, n) \in Seq(Nat) /\ Len(Pair(m, n)) = Len(IntegerOf(m)) + Len(IntegerOf(n))
         /\ Whole(m, n) \in Seq(Nat) /\ Len(Pair(m, n)) \in Nat /\ SequenceTag \in Nat
<1>1. IntegerOf(m) \in Seq(Nat) /\ IntegerOf(n) \in Seq(Nat)
  BY IntegerOctets
<1>2. Pair(m, n) \in Seq(Nat) /\ Len(Pair(m, n)) = Len(IntegerOf(m)) + Len(IntegerOf(n))
  BY <1>1, JoinedOctets DEF Pair
<1>3. Len(Pair(m, n)) \in Nat
  BY <1>2, JoinedOctets
<1>4. SequenceTag \in Nat /\ 1 \in Nat \ {0}
  BY DEF Der!OctetsFit
<1>5. Whole(m, n) \in Seq(Nat)
  BY <1>2, <1>4, AtTagged DEF Whole
<1>. QED
  BY <1>2, <1>3, <1>4, <1>5

(* ecdsa_signature_from_der, once the tag and the length are read.         *)
Body(e, y, w) ==
  LET r == Der!der_positive_integer(e, y)
      s == IF r.ok THEN Der!der_positive_integer(e, r.next) ELSE Der!Refused
  IN  IF ~s.ok THEN Der!Refused
      ELSE IF \/ s.next # Len(e) + 1
              \/ Len(r.value) > w \/ Len(s.value) > w THEN Der!Refused
      ELSE [ok |-> TRUE, value |-> Der!LeftPad(r.value, w) \o Der!LeftPad(s.value, w)]

LEMMA BodyRead ==
  ASSUME NEW e, NEW w, w # 0, e # << >>, e[1] = SequenceTag,
         NEW x, NEW y, Der!der_length(e, 2) = Der!Read(x, y), y + x = Len(e) + 1
  PROVE  Der!ecdsa_signature_from_der(e, w) = Body(e, y, w)
<1> DEFINE d == Der!der_length(e, 2)
<1>1. d.ok /\ d.next = y /\ d.value = x
  BY DEF Der!Read
<1>. QED
  BY <1>1, Zenon DEF Der!ecdsa_signature_from_der, Body

(* The end of the second integer is that of the octets, and both fit.      *)
Fitting(e, k, m, n, w) ==
  IF k # Len(e) + 1 \/ Len(m) > w \/ Len(n) > w THEN Der!Refused
  ELSE [ok |-> TRUE, value |-> Padded(m, n, w)]

LEMMA BodyIs ==
  ASSUME NEW e, NEW y, NEW w, NEW m, NEW n, NEW h, NEW k,
         Der!der_positive_integer(e, y) = Der!Read(m, h),
         Der!der_positive_integer(e, h) = Der!Read(n, k)
  PROVE  Body(e, y, w) = Fitting(e, k, m, n, w)
<1> DEFINE r == Der!der_positive_integer(e, y)
           s == Der!der_positive_integer(e, h)
<1>1. r.ok /\ r.next = h /\ r.value = m /\ s.ok /\ s.next = k /\ s.value = n
  BY DEF Der!Read
<1>. QED
  BY <1>1, Zenon DEF Body, Padded, Fitting

LEMMA SignatureReads ==
  ASSUME Der!OctetsFit, NEW m, Positive(m), NEW n, Positive(n), NEW w \in Nat \ {0},
         Len(m) <= w, Len(n) <= w
  PROVE  Der!ecdsa_signature_from_der(Whole(m, n), w) = [ok |-> TRUE, value |-> Padded(m, n, w)]
<1> DEFINE e == Whole(m, n)
           x == Len(Pair(m, n))
           z == Len(Der!DerLength(x))
           y == 2 + z
           i == Len(IntegerOf(m))
           j == Len(IntegerOf(n))
<1>1. /\ Pair(m, n) \in Seq(Nat) /\ x = i + j /\ e \in Seq(Nat) /\ x \in Nat
      /\ SequenceTag \in Nat
  BY PairOctets
<1>2. IntegerOf(m) \in Seq(Nat) /\ i \in Nat /\ IntegerOf(n) \in Seq(Nat) /\ j \in Nat
  BY IntegerOctets
<1>3. z \in Nat
  BY <1>1, LengthOctets
<1>4. e = Der!Tagged(SequenceTag, Pair(m, n)) /\ 1 \in Nat \ {0} /\ 1 + 1 = 2
  BY DEF Whole
<1> HIDE DEF e
<1>5. At(e, 1, e)
  BY <1>1, AtWhole
<1>6. /\ 1 <= Len(e) /\ e[1] = SequenceTag
      /\ At(e, 2, Der!DerLength(x)) /\ At(e, y, Pair(m, n)) /\ Len(e) = (1 + z) + x
  <2>1. Parts(e, 1, SequenceTag, Pair(m, n), 2)
    BY <1>1, AtFront
  <2>. QED
    BY <2>1, <1>4, <1>5, Zenon DEF Parts
<1>7. y \in Nat \ {0} /\ 2 \in Nat \ {0}
  BY <1>3
<1>8. Der!der_length(e, 2) = Der!Read(x, y)
  BY <1>1, <1>6, <1>7, LengthReads
<1> HIDE DEF x, z
<1>9. y + x = Len(e) + 1 /\ e # << >> /\ w # 0
  <2>1. Len(e) \in Nat /\ (e = << >> => Len(e) = 0)
    BY <1>1
  <2>. QED
    BY <2>1, <1>1, <1>3, <1>6
<1>10. Der!ecdsa_signature_from_der(e, w) = Body(e, y, w)
  BY <1>6, <1>8, <1>9, BodyRead
<1>11. At(e, y, IntegerOf(m)) /\ At(e, y + i, IntegerOf(n))
  BY <1>1, <1>2, <1>6, <1>7, AtJoined DEF Pair
<1>12. Der!der_positive_integer(e, y) = Der!Read(m, y + i)
  BY <1>1, <1>7, <1>11, IntegerReads
<1>13. y + i \in Nat \ {0}
  BY <1>2, <1>7
<1>14. Der!der_positive_integer(e, y + i) = Der!Read(n, (y + i) + j)
  BY <1>1, <1>11, <1>13, IntegerReads
<1> HIDE DEF i, j, y
<1>15. (y + i) + j = Len(e) + 1
  BY <1>1, <1>2, <1>7, <1>9
<1>16. ~(Len(m) > w) /\ ~(Len(n) > w)
  <2>1. Len(m) \in Nat /\ Len(n) \in Nat
    BY DEF Positive
  <2>. QED
    BY <2>1
<1>17. Body(e, y, w) = Fitting(e, (y + i) + j, m, n, w)
  BY <1>12, <1>14, BodyIs
<1>18. Body(e, y, w) = [ok |-> TRUE, value |-> Padded(m, n, w)]
  BY <1>15, <1>16, <1>17, Zenon DEF Fitting
<1>. QED
  BY <1>10, <1>18 DEF e

LEMMA SignatureIsRead ==
  ASSUME Der!OctetsFit, NEW e \in Seq(Nat), NEW w \in Nat \ {0},
         Der!ecdsa_signature_from_der(e, w).ok
  PROVE  \E m, n : /\ Positive(m) /\ Positive(n) /\ Len(m) <= w /\ Len(n) <= w
                   /\ e = Whole(m, n)
                   /\ Der!ecdsa_signature_from_der(e, w)
                        = [ok |-> TRUE, value |-> Padded(m, n, w)]
<1> DEFINE q == Der!ecdsa_signature_from_der(e, w)
           d == Der!der_length(e, 2)
<1>0. ~Der!Refused.ok /\ Len(e) \in Nat /\ w # 0 /\ 2 \in Nat \ {0} /\ 1 \in Nat \ {0} /\ 1 + 1 = 2
  BY DEF Der!Refused
<1>1. e # << >> /\ e[1] = SequenceTag /\ d.ok /\ d.next + d.value = Len(e) + 1
  BY <1>0, Zenon DEF Der!ecdsa_signature_from_der
<1>2. PICK x \in Nat : /\ d = Der!Read(x, 2 + Len(Der!DerLength(x)))
                       /\ At(e, 2, Der!DerLength(x))
  BY <1>0, <1>1, LengthIsRead
<1> DEFINE z == Len(Der!DerLength(x))
           y == 2 + z
<1>3. z \in Nat
  BY LengthOctets
<1>4. d.next = y /\ d.value = x
  BY <1>2 DEF Der!Read
<1>5. y + x = Len(e) + 1 /\ d = Der!Read(x, y)
  BY <1>1, <1>2, <1>4
<1> HIDE DEF d, z
<1>6. q = Body(e, y, w)
  BY <1>0, <1>1, <1>5, BodyRead DEF d
<1>7. y \in Nat \ {0}
  BY <1>3
<1> DEFINE r == Der!der_positive_integer(e, y)
<1>8. r.ok /\ Der!der_positive_integer(e, r.next).ok
  <2>1. Body(e, y, w).ok
    BY <1>6
  <2>. QED
    BY <2>1, <1>0, Zenon DEF Body
<1>9. PICK m : /\ Positive(m) /\ At(e, y, IntegerOf(m))
               /\ r = Der!Read(m, y + Len(IntegerOf(m)))
  BY <1>7, <1>8, IntegerIsRead
<1> DEFINE i == Len(IntegerOf(m))
           h == y + i
<1>10. IntegerOf(m) \in Seq(Nat) /\ i \in Nat
  BY <1>9, IntegerOctets
<1>11. r.next = h /\ h \in Nat \ {0}
  BY <1>7, <1>9, <1>10 DEF Der!Read
<1>12. Der!der_positive_integer(e, h).ok
  BY <1>8, <1>11
<1>13. PICK n : /\ Positive(n) /\ At(e, h, IntegerOf(n))
                /\ Der!der_positive_integer(e, h) = Der!Read(n, h + Len(IntegerOf(n)))
  BY <1>11, <1>12, IntegerIsRead
<1> DEFINE j == Len(IntegerOf(n))
           k == h + j
<1>14. IntegerOf(n) \in Seq(Nat) /\ j \in Nat
  BY <1>13, IntegerOctets
<1>15. Body(e, y, w) = Fitting(e, k, m, n, w)
  BY <1>9, <1>13, BodyIs
<1>16. /\ k = Len(e) + 1 /\ ~(Len(m) > w) /\ ~(Len(n) > w)
       /\ q = [ok |-> TRUE, value |-> Padded(m, n, w)]
  BY <1>0, <1>6, <1>15, Zenon DEF Fitting
<1>17. Len(m) <= w /\ Len(n) <= w
  <2>1. Len(m) \in Nat /\ Len(n) \in Nat
    BY <1>9, <1>13 DEF Positive
  <2>. QED
    BY <2>1, <1>16
<1>18. e = Whole(m, n)
  <2>1. /\ Pair(m, n) \in Seq(Nat) /\ Len(Pair(m, n)) = i + j /\ Whole(m, n) \in Seq(Nat)
        /\ SequenceTag \in Nat
    BY <1>9, <1>13, PairOctets
  <2>2. At(e, y, Pair(m, n))
    BY <1>7, <1>9, <1>10, <1>13, <1>14, AtJoined DEF Pair
  <2>3. Len(Pair(m, n)) = x
    <3> HIDE DEF i, j, y
    <3>. QED
      BY <2>1, <1>0, <1>5, <1>7, <1>10, <1>14, <1>16
  <2>4. 1 <= Len(e)
    BY <1>0, <1>1
  <2>5. At(e, 1, Whole(m, n)) /\ Len(Whole(m, n)) = (1 + z) + x
    <3>1. Parts(e, 1, SequenceTag, Pair(m, n), 2)
      BY <2>1, AtFront
    <3>. QED
      BY <3>1, <2>2, <2>3, <2>4, <1>1, <1>2, Zenon DEF Parts, Whole, z
  <2>6. Len(Whole(m, n)) = Len(e)
    BY <2>5, <1>0, <1>3, <1>5
  <2>. QED
    BY <2>1, <2>5, <2>6, AtWhole
<1>. QED
  BY <1>9, <1>13, <1>16, <1>17, <1>18

LEMMA Halves ==
  ASSUME NEW w \in Nat, NEW p \in Seq(Nat), Len(p) = w, NEW q \in Seq(Nat), Len(q) = w
  PROVE  /\ p \o q \in Seq(Nat) /\ Len(p \o q) = 2 * w
         /\ Der!First(p \o q) = p /\ Der!Second(p \o q) = q
<1> DEFINE c == p \o q
<1>1. c \in Seq(Nat) /\ Len(c) = w + w
  BY JoinedOctets
<1>2. /\ \A i \in 1 .. w : c[i] = p[i]
      /\ \A i \in 1 .. w : c[w + i] = q[i]
  <2>1. /\ \A i \in 1 .. Len(p) : c[i] = p[i]
        /\ \A i \in 1 .. Len(q) : c[Len(p) + i] = q[i]
    BY JoinedIndices
  <2> HIDE DEF c
  <2>. QED
    BY <2>1
<1> HIDE DEF c
<1>3. Len(c) = 2 * w /\ Len(c) \div 2 = w
  BY <1>1
<1> DEFINE f == SubSeq(c, 1, w)
           g == SubSeq(c, w + 1, 2 * w)
<1>4. Der!First(c) = f /\ Der!Second(c) = g
  BY <1>3 DEF Der!First, Der!Second
<1>5. f \in Seq(Nat) /\ Len(f) = w /\ \A i \in 1 .. w : f[i] = c[i]
  BY <1>1, <1>3
<1>6. g \in Seq(Nat) /\ Len(g) = w /\ \A i \in 1 .. w : g[i] = c[w + i]
  BY <1>1, <1>3
<1> HIDE DEF f, g
<1>7. f = p
  BY <1>2, <1>5, EqualOctets
<1>8. g = q
  BY <1>2, <1>6, EqualOctets
<1>. QED
  BY <1>1, <1>3, <1>4, <1>7, <1>8 DEF c

LEMMA HalvesOf ==
  ASSUME NEW w \in Nat \ {0}, NEW x \in [1 .. 2 * w -> Nat]
  PROVE  /\ Len(x) \div 2 = w /\ Len(x) = 2 * w
         /\ Der!First(x) \in Seq(Nat) /\ Len(Der!First(x)) = w
         /\ Der!Second(x) \in Seq(Nat) /\ Len(Der!Second(x)) = w
<1>1. x \in Seq(Nat) /\ Len(x) = 2 * w
  OBVIOUS
<1>2. Len(x) \div 2 = w
  BY <1>1
<1> DEFINE f == SubSeq(x, 1, w)
           g == SubSeq(x, w + 1, 2 * w)
<1>3. Der!First(x) = f /\ Der!Second(x) = g
  BY <1>1, <1>2 DEF Der!First, Der!Second
<1>4. f \in Seq(Nat) /\ Len(f) = w
  BY <1>1
<1>5. g \in Seq(Nat) /\ Len(g) = w
  BY <1>1
<1>. QED
  BY <1>1, <1>2, <1>3, <1>4, <1>5

LEMMA ShortestNumber ==
  ASSUME Der!OctetsFit, NEW number \in Seq(Nat), Len(number) >= 1
  PROVE  \E m : Positive(m) /\ Len(m) <= Len(number) /\ Der!Shortest(number) = Canonical(m)
<1>1. PICK k \in 1 .. Len(number) : Leads(number, k)
  BY LeadExists
<1> DEFINE m == SubSeq(number, k, Len(number))
<1>2. m = SubSeq(number, k, Len(number))
  OBVIOUS
<1> HIDE DEF m
<1>. QED
  BY <1>1, <1>2, ShortestIs

LEMMA EncodedIs ==
  ASSUME NEW x, NEW m, NEW n, Der!Shortest(Der!First(x)) = Canonical(m),
         Der!Shortest(Der!Second(x)) = Canonical(n)
  PROVE  Der!Encoded(x) = Whole(m, n)
  BY Zenon DEF Der!Encoded, Whole, Pair, IntegerOf

(* What is accepted is the encoding of what is read.                       *)
LEMMA AcceptedIsEncoded ==
  ASSUME Der!OctetsFit, NEW e \in Seq(Nat), NEW w \in Nat \ {0},
         NEW q, q = Der!ecdsa_signature_from_der(e, w), q.ok
  PROVE  Len(q.value) = 2 * w /\ Der!Encoded(q.value) = e
<1>1. PICK m, n : /\ Positive(m) /\ Positive(n) /\ Len(m) <= w /\ Len(n) <= w
                  /\ e = Whole(m, n) /\ q = [ok |-> TRUE, value |-> Padded(m, n, w)]
  BY SignatureIsRead
<1> DEFINE a == Der!LeftPad(m, w)
           b == Der!LeftPad(n, w)
<1>2. /\ a \in Seq(Nat) /\ Len(a) = w /\ Der!Shortest(a) = Canonical(m)
      /\ b \in Seq(Nat) /\ Len(b) = w /\ Der!Shortest(b) = Canonical(n)
  BY <1>1, PaddedIs
<1>3. q.value = a \o b
  BY <1>1 DEF Padded
<1> HIDE DEF a, b
<1>4. Len(a \o b) = 2 * w /\ Der!First(a \o b) = a /\ Der!Second(a \o b) = b
  BY <1>2, Halves
<1>5. Der!Encoded(a \o b) = Whole(m, n)
  BY <1>2, <1>4, EncodedIs
<1>. QED
  BY <1>1, <1>3, <1>4, <1>5

(* What to_ecdsa_der writes is octets, and is accepted.                    *)
LEMMA EncodedIsAccepted ==
  ASSUME Der!OctetsFit, NEW w \in Nat \ {0}, NEW x \in [1 .. 2 * w -> Nat]
  PROVE  Der!Encoded(x) \in Seq(Nat) /\ Der!ecdsa_signature_from_der(Der!Encoded(x), w).ok
<1> DEFINE f == Der!First(x)
           g == Der!Second(x)
<1>1. f \in Seq(Nat) /\ Len(f) = w /\ g \in Seq(Nat) /\ Len(g) = w
  BY HalvesOf
<1> HIDE DEF f, g
<1>0. Len(f) >= 1 /\ Len(g) >= 1
  BY <1>1
<1>2. PICK m : Positive(m) /\ Len(m) <= w /\ Der!Shortest(f) = Canonical(m)
  BY <1>0, <1>1, ShortestNumber
<1>3. PICK n : Positive(n) /\ Len(n) <= w /\ Der!Shortest(g) = Canonical(n)
  BY <1>0, <1>1, ShortestNumber
<1>4. Der!Encoded(x) = Whole(m, n)
  BY <1>2, <1>3, EncodedIs DEF f, g
<1>5. Whole(m, n) \in Seq(Nat)
  BY <1>2, <1>3, PairOctets
<1>6. Der!ecdsa_signature_from_der(Whole(m, n), w) = [ok |-> TRUE, value |-> Padded(m, n, w)]
  BY <1>2, <1>3, SignatureReads
<1>. QED
  BY <1>4, <1>5, <1>6

LEMMA ReceivedOctets ==
  ASSUME Der!OctetsFit, NEW e \in Seq(Nat), NEW t \in Der!Received(e)
  PROVE  t \in Seq(Nat)
<1>1. 0 .. Radix - 1 \subseteq Nat /\ Len(e) \in Nat /\ DOMAIN e = 1 .. Len(e)
  BY DEF Der!OctetsFit
<1>2. CASE t = e
  BY <1>2
<1>3. CASE \E i \in DOMAIN e, o \in 0 .. Radix - 1 : t = [e EXCEPT ![i] = o]
  <2>1. PICK i \in DOMAIN e, o \in 0 .. Radix - 1 : t = [e EXCEPT ![i] = o]
    BY <1>3
  <2>2. o \in Nat
    BY <1>1
  <2>. QED
    BY <2>1, <2>2, <1>1
<1>4. CASE \E i \in DOMAIN e : t = Der!RemoveAt(e, i)
  <2>1. PICK i \in 1 .. Len(e) : t = Der!RemoveAt(e, i)
    BY <1>1, <1>4
  <2> DEFINE p == SubSeq(e, 1, i - 1)
             q == SubSeq(e, i + 1, Len(e))
  <2>2. p \in Seq(Nat) /\ q \in Seq(Nat)
    BY <1>1
  <2>3. t = p \o q
    BY <2>1 DEF Der!RemoveAt
  <2> HIDE DEF p, q
  <2>. QED
    BY <2>2, <2>3, JoinedOctets
<1>5. CASE \E i \in 1 .. Len(e) + 1, o \in 0 .. Radix - 1 : t = Der!InsertAt(e, i, o)
  <2>1. PICK i \in 1 .. Len(e) + 1, o \in 0 .. Radix - 1 : t = Der!InsertAt(e, i, o)
    BY <1>5
  <2> DEFINE p == SubSeq(e, 1, i - 1)
             q == SubSeq(e, i, Len(e))
             one == <<o>>
  <2>2. p \in Seq(Nat) /\ q \in Seq(Nat)
    BY <1>1
  <2>3. one \in Seq(Nat)
    BY <1>1
  <2>4. t = p \o one \o q
    BY <2>1 DEF Der!InsertAt
  <2> HIDE DEF p, q, one
  <2>5. (p \o one) \o q \in Seq(Nat) /\ p \o (one \o q) \in Seq(Nat)
    BY <2>2, <2>3, JoinedOctets
  <2>. QED
    BY <2>4, <2>5
<1>. QED
  BY <1>2, <1>3, <1>4, <1>5, SMT DEF Der!Received

(* The octets read are octets, and what was read is what they say.         *)
Encodings == [ok : {TRUE}, value : Seq(Nat)]
DerInv ==
  /\ \E w \in Widths : fixed \in [1 .. 2 * w -> Nat]
  /\ der = None \/ der = Der!Refused \/ der \in Encodings
  /\ decoded # None =>
       der \in Encodings /\ decoded = Der!ecdsa_signature_from_der(der.value, Len(fixed) \div 2)

LEMMA DerInit ==
  ASSUME Der!OctetsFit, Der!Init
  PROVE  DerInv
<1>1. PICK w \in Widths : fixed \in [1 .. 2 * w -> Coordinates]
  BY DEF Der!Init
<1>2. fixed \in [1 .. 2 * w -> Nat]
  BY <1>1 DEF Der!OctetsFit
<1>. QED
  BY <1>2 DEF Der!Init, DerInv

LEMMA DerNext ==
  ASSUME Der!OctetsFit, DerInv, [Der!Next]_<<fixed, der, decoded>>
  PROVE  DerInv'
<1>1. PICK w \in Widths : fixed \in [1 .. 2 * w -> Nat]
  BY DEF DerInv
<1>2. w \in Nat \ {0} /\ None \notin Encodings
  BY DEF Der!OctetsFit, Encodings
<1>3. CASE Der!ToDer
  <2>1. der = None /\ fixed' = fixed /\ decoded' = decoded /\ der' = Der!to_ecdsa_der(fixed)
    BY <1>3 DEF Der!ToDer
  <2>2. decoded = None
    BY <2>1, <1>2 DEF DerInv
  <2>3. der' = Der!Refused \/ der' = [ok |-> TRUE, value |-> Der!Encoded(fixed)]
    BY <2>1 DEF Der!to_ecdsa_der
  <2>4. Der!Encoded(fixed) \in Seq(Nat)
    BY <1>1, <1>2, EncodedIsAccepted
  <2>5. der' = Der!Refused \/ der' \in Encodings
    <3> DEFINE v == Der!Encoded(fixed)
    <3>1. v \in Seq(Nat) /\ (der' = Der!Refused \/ der' = [ok |-> TRUE, value |-> v])
      BY <2>3, <2>4
    <3> HIDE DEF v
    <3>2. [ok |-> TRUE, value |-> v] \in Encodings
      BY <3>1 DEF Encodings
    <3>. QED
      BY <3>1, <3>2, Zenon
  <2>6. \E v \in Widths : fixed' \in [1 .. 2 * v -> Nat]
    BY <1>1, <2>1
  <2>. QED
    BY <2>1, <2>2, <2>5, <2>6 DEF DerInv, Encodings, Der!Refused
<1>4. CASE Der!FromDer
  <2>1. der # None /\ decoded = None /\ der.ok /\ fixed' = fixed
    BY <1>4 DEF Der!FromDer
  <2>2. PICK octets \in Der!Received(der.value) :
          /\ der' = [der EXCEPT !.value = octets]
          /\ decoded' = Der!ecdsa_signature_from_der(octets, Len(fixed) \div 2)
    BY <1>4 DEF Der!FromDer
  <2>3. der \in Encodings
    BY <2>1 DEF DerInv, Der!Refused
  <2>4. octets \in Seq(Nat)
    BY <2>3, ReceivedOctets DEF Encodings
  <2>5. der' \in Encodings /\ der'.value = octets
    BY <2>2, <2>3, <2>4 DEF Encodings
  <2>6. \E v \in Widths : fixed' \in [1 .. 2 * v -> Nat]
    BY <1>1, <2>1
  <2>7. decoded' = Der!ecdsa_signature_from_der(der'.value, Len(fixed') \div 2)
    BY <2>1, <2>2, <2>5
  <2>. QED
    BY <2>5, <2>6, <2>7 DEF DerInv, Encodings, Der!Refused
<1>5. CASE UNCHANGED <<fixed, der, decoded>>
  BY <1>5 DEF DerInv, Encodings, Der!Refused
<1>. QED
  BY <1>3, <1>4, <1>5 DEF Der!Next

LEMMA DerCanonical ==
  ASSUME Der!OctetsFit, DerInv
  PROVE  Der!DerIsCanonical
<1>1. SUFFICES ASSUME decoded # None
               PROVE  IF decoded.ok
                      THEN Len(decoded.value) = Len(fixed) /\ Der!Encoded(decoded.value) = der.value
                      ELSE der.value # Der!Encoded(fixed)
  BY DEF Der!DerIsCanonical
<1>2. PICK w \in Widths : fixed \in [1 .. 2 * w -> Nat]
  BY DEF DerInv
<1>3. w \in Nat \ {0}
  BY DEF Der!OctetsFit
<1>4. Len(fixed) \div 2 = w /\ Len(fixed) = 2 * w
  BY <1>2, <1>3, HalvesOf
<1>5. der.value \in Seq(Nat) /\ decoded = Der!ecdsa_signature_from_der(der.value, w)
  BY <1>1, <1>4 DEF DerInv, Encodings
<1>6. CASE decoded.ok
  <2>1. Len(decoded.value) = 2 * w /\ Der!Encoded(decoded.value) = der.value
    BY <1>3, <1>5, <1>6, AcceptedIsEncoded
  <2>. QED
    BY <2>1, <1>4, <1>6
<1>7. CASE ~decoded.ok
  <2>1. Der!ecdsa_signature_from_der(Der!Encoded(fixed), w).ok
    BY <1>2, <1>3, EncodedIsAccepted
  <2>2. der.value # Der!Encoded(fixed)
    BY <2>1, <1>5, <1>7
  <2>. QED
    BY <2>2, <1>7
<1>. QED
  BY <1>6, <1>7

(* An ECDSA signature has one accepted DER form, for coordinates of any    *)
(* length and octets of any radix: ecdsa_signature_from_der accepts only   *)
(* what to_ecdsa_der writes for the signature that it returns, and accepts *)
(* all that to_ecdsa_der writes.                                           *)
THEOREM DerFormsAreUnique ==
  ASSUME Der!OctetsFit
  PROVE  SigningSpec => []DerIsCanonical
<1> DEFINE PartInv == part = "der" => DerInv
<1>1. SigningInit => PartInv
  BY DerInit DEF SigningInit
<1>2. PartInv /\ [SigningNext]_<<part, vars, ders>> => PartInv'
  <2> SUFFICES ASSUME PartInv, [SigningNext]_<<part, vars, ders>>, part' = "der"
               PROVE  DerInv'
    OBVIOUS
  <2>1. part = "der" /\ [Der!Next]_<<fixed, der, decoded>>
    BY DEF SigningNext, KeysStep, DerStep, ders
  <2>. QED
    BY <2>1, DerNext
<1>3. PartInv => DerIsCanonical
  BY DerCanonical DEF DerIsCanonical
<1>. QED
  BY <1>1, <1>2, <1>3, PTL DEF SigningSpec

-----------------------------------------------------------------------------
(* RsaEncodings: the encodings around the RSA operation.                   *)
LEMMA CallPowers == RE!TwoTo = TwoTo
  BY DEF RE!TwoTo, TwoTo

LEMMA CallOctet ==
  ASSUME RE!OctetsFit
  PROVE  /\ OctetBits \in Nat \ {0, 1} /\ RE!ByteValues(1) = TwoTo[OctetBits]
         /\ TwoTo[OctetBits] \in Nat /\ TwoTo[OctetBits] >= 4
         /\ RE!Octet = 0 .. TwoTo[OctetBits] - 1
         /\ 0 \in RE!Octet /\ 1 \in RE!Octet /\ 2 \in RE!Octet /\ TwoTo[OctetBits] - 1 \in RE!Octet
<1>1. OctetBits \in Nat \ {0, 1} /\ OctetBits * 1 = OctetBits
  BY DEF RE!OctetsFit
<1>2. RE!ByteValues(1) = TwoTo[OctetBits]
  BY <1>1, CallPowers DEF RE!ByteValues
<1>3. TwoTo[OctetBits] \in Nat /\ TwoTo[OctetBits] >= 4
  <2>1. OctetBits - 2 \in Nat /\ (OctetBits - 2) + 2 = OctetBits
    BY <1>1
  <2>2. TwoTo[2] = 4
    <3>1. TwoTo[1] = 2 * TwoTo[1 - 1] /\ TwoTo[2] = 2 * TwoTo[2 - 1] /\ 1 - 1 = 0 /\ 2 - 1 = 1
      BY PowersOfTwo
    <3>. QED
      BY <3>1, PowersOfTwo
  <2>3. TwoTo[OctetBits] = TwoTo[OctetBits - 2] * TwoTo[2] /\ TwoTo[OctetBits - 2] \in Nat \ {0}
    BY <2>1, PowersAdd, PowersOfTwo
  <2>. QED
    BY <2>2, <2>3
<1>4. RE!Octet = 0 .. TwoTo[OctetBits] - 1
  BY <1>2 DEF RE!Octet
<1>. QED
  BY <1>1, <1>2, <1>3, <1>4

LEMMA BitsFit == ASSUME NEW n \in Nat \ {0} PROVE RE!Bits(n) \in Nat \ {0} /\ n < TwoTo[RE!Bits(n)]
<1>1. RE!Bits(n) = Bits(n)
  BY Zenon DEF RE!Bits, Bits
<1>. QED
  BY <1>1, BitsAre DEF Spans

LEMMA Ceiling ==
  ASSUME NEW x \in Nat, NEW y \in Nat \ {0}
  PROVE  /\ RE!CeilDiv(x, y) \in Nat
         /\ x <= y * RE!CeilDiv(x, y) /\ y * RE!CeilDiv(x, y) <= x + (y - 1)
<1> DEFINE z == x + (y - 1)
           q == z \div y
<1>1. z \in Nat
  OBVIOUS
<1> HIDE DEF z
<1>2. q \in Nat /\ y * q <= z /\ z <= y * q + (y - 1)
  BY <1>1
<1>3. RE!CeilDiv(x, y) = q
  BY DEF RE!CeilDiv, q, z
<1> HIDE DEF q
<1>4. x <= y * q
  <2> DEFINE t == y * q
  <2>1. t \in Nat /\ z <= t + (y - 1)
    BY <1>2
  <2> HIDE DEF t
  <2>2. x <= t
    BY <2>1 DEF z
  <2>. QED
    BY <2>2 DEF t
<1>. QED
  BY <1>2, <1>3, <1>4 DEF z

LEMMA SizeFits ==
  ASSUME RE!OctetsFit, NEW n \in Nat \ {0}
  PROVE  RE!ByteLength(n) \in Nat /\ n < TwoTo[OctetBits * RE!ByteLength(n)]
<1> DEFINE size == RE!ByteLength(n)
           bits == RE!Bits(n)
<1>1. bits \in Nat /\ n < TwoTo[bits]
  BY BitsFit
<1>2. OctetBits \in Nat \ {0}
  BY CallOctet
<1>3. size = RE!CeilDiv(bits, OctetBits)
  BY DEF RE!ByteLength
<1> HIDE DEF size, bits
<1>4. size \in Nat /\ bits <= OctetBits * size
  BY <1>1, <1>2, <1>3, Ceiling
<1>5. OctetBits * size \in Nat
  BY <1>2, <1>4
<1>6. TwoTo[bits] <= TwoTo[OctetBits * size]
  BY <1>1, <1>4, <1>5, PowersIncrease
<1>7. TwoTo[bits] \in Nat /\ TwoTo[OctetBits * size] \in Nat
  BY <1>1, <1>5, PowersOfTwo
<1>8. n < TwoTo[OctetBits * size]
  BY <1>1, <1>6, <1>7
<1>. QED
  BY <1>4, <1>8 DEF size

(* The octets of a number, and the number of octets.                       *)
LEMMA ValueOctets ==
  ASSUME RE!OctetsFit, NEW v \in Nat, NEW w \in Nat
  PROVE  /\ RE!ToOctets(v, w) \in Seq(RE!Octet) /\ Len(RE!ToOctets(v, w)) = w
         /\ HasDigits(RE!ToOctets(v, w), v, OctetBits, w)
<1> DEFINE f == RE!ToOctets(v, w)
<1>1. f = [k \in 1 .. w |-> Digit(v, OctetBits, w - k)]
  <2>1. \A k : RE!ByteValues(w - k) = TwoTo[OctetBits * (w - k)]
    BY CallPowers, Zenon DEF RE!ByteValues
  <2>2. RE!ByteValues(1) = TwoTo[OctetBits]
    BY CallOctet
  <2>. QED
    BY <2>1, <2>2, Zenon DEF RE!ToOctets, Digit
<1>2. \A k \in 1 .. w : Digit(v, OctetBits, w - k) \in RE!Octet
  <2> TAKE k \in 1 .. w
  <2> DEFINE p == TwoTo[OctetBits * (w - k)]
             R == TwoTo[OctetBits]
  <2>1. w - k \in Nat
    OBVIOUS
  <2>2. p \in Nat \ {0} /\ R \in Nat \ {0}
    BY <2>1, CallOctet, PowerOfDigits
  <2> HIDE DEF p, R
  <2>3. (v \div p) % R \in 0 .. R - 1
    BY <2>2
  <2>. QED
    BY <2>3, CallOctet DEF Digit, p, R
<1> HIDE DEF f
<1>3. f \in [1 .. w -> RE!Octet] /\ \A k \in 1 .. w : f[k] = Digit(v, OctetBits, w - k)
  BY <1>1, <1>2
<1>. QED
  BY <1>3 DEF f, HasDigits

LEMMA StringIsRead ==
  ASSUME RE!OctetsFit, NEW s \in Seq(RE!Octet)
  PROVE  \E f : ReadFrom(f, Len(s), OctetBits, s) /\ RE!FromOctets(s) = f[Len(s)]
<1> DEFINE w == Len(s)
           R == RE!ByteValues(1)
           F == CHOOSE f : f = [k \in 0 .. w |-> IF k = 0 THEN 0 ELSE f[k - 1] * R + s[k]]
<1>1. RE!FromOctets(s) = F[w]
  BY Zenon DEF RE!FromOctets
<1>2. w \in Nat /\ OctetBits \in Nat /\ R = TwoTo[OctetBits]
  BY CallOctet, LenProperties
<1>3. \A k \in 1 .. w : s[k] \in Nat
  <2>1. \A k \in 1 .. w : s[k] \in 0 .. TwoTo[OctetBits] - 1
    BY CallOctet, ElementOfSeq, Zenon
  <2>. QED
    BY <2>1
<1>4. F = CHOOSE f : f = [k \in 0 .. w |-> IF k = 0 THEN 0 ELSE f[k - 1] * TwoTo[OctetBits] + s[k]]
  BY <1>2, Zenon
<1> HIDE DEF F, w
<1>5. ReadFrom(F, w, OctetBits, s)
  BY <1>2, <1>3, <1>4, ReadingExists
<1>. QED
  BY <1>1, <1>5 DEF w

LEMMA StringValue ==
  ASSUME RE!OctetsFit, NEW s \in Seq(RE!Octet)
  PROVE  /\ RE!FromOctets(s) \in 0 .. TwoTo[OctetBits * Len(s)] - 1
         /\ RE!ToOctets(RE!FromOctets(s), Len(s)) = s
<1> DEFINE w == Len(s)
           v == RE!FromOctets(s)
           t == RE!ToOctets(v, w)
<1>1. PICK f : ReadFrom(f, w, OctetBits, s) /\ v = f[w]
  BY StringIsRead
<1>2. w \in Nat /\ OctetBits \in Nat /\ \A k \in 1 .. w : s[k] \in 0 .. TwoTo[OctetBits] - 1
  <2>1. \A k \in 1 .. w : s[k] \in 0 .. TwoTo[OctetBits] - 1
    BY CallOctet, ElementOfSeq, Zenon
  <2>. QED
    BY <2>1, CallOctet, LenProperties
<1> HIDE DEF w, v
<1>3. v \in 0 .. TwoTo[OctetBits * w] - 1 /\ HasDigits(s, v, OctetBits, w)
  BY <1>1, <1>2, ReadDigits
<1>4. v \in Nat
  BY <1>3
<1>5. t \in Seq(RE!Octet) /\ Len(t) = w /\ HasDigits(t, v, OctetBits, w)
  BY <1>2, <1>4, ValueOctets
<1> HIDE DEF t
<1>6. t = s
  <2>1. \A k \in 1 .. w : t[k] = s[k]
    BY <1>3, <1>5, Zenon DEF HasDigits
  <2>. QED
    BY <1>5, <2>1, SeqEqual DEF w
<1>. QED
  BY <1>3, <1>6 DEF w, v, t

LEMMA ValueIsKept ==
  ASSUME RE!OctetsFit, NEW w \in Nat, NEW v \in 0 .. TwoTo[OctetBits * w] - 1
  PROVE  RE!FromOctets(RE!ToOctets(v, w)) = v
<1> DEFINE d == RE!ToOctets(v, w)
           P == TwoTo[OctetBits * w]
<1>0. OctetBits \in Nat /\ P \in Nat \ {0} /\ v \in Nat
  BY CallOctet, PowerOfDigits
<1>1. d \in Seq(RE!Octet) /\ Len(d) = w /\ HasDigits(d, v, OctetBits, w)
  BY <1>0, ValueOctets
<1> HIDE DEF d
<1>2. PICK f : ReadFrom(f, w, OctetBits, d) /\ RE!FromOctets(d) = f[w]
  BY <1>1, StringIsRead
<1>3. f[w] = v % P
  BY <1>0, <1>1, <1>2, DigitsRead
<1>4. v \in 0 .. P - 1
  OBVIOUS
<1> HIDE DEF P
<1>5. v % P = v
  BY <1>0, <1>4
<1>. QED
  BY <1>2, <1>3, <1>5 DEF d

(* Zeros in front do not count.                                            *)
LEMMA ZerosInFront ==
  ASSUME RE!OctetsFit, NEW s \in Seq(RE!Octet), NEW m \in Nat
  PROVE  /\ RE!Fill(m, 0) \o s \in Seq(RE!Octet) /\ Len(RE!Fill(m, 0) \o s) = m + Len(s)
         /\ RE!FromOctets(RE!Fill(m, 0) \o s) = RE!FromOctets(s)
<1> DEFINE z == RE!Fill(m, 0)
           t == z \o s
           w == Len(s)
           R == TwoTo[OctetBits]
<1>1. z \in Seq(RE!Octet) /\ Len(z) = m /\ \A k \in 1 .. m : z[k] = 0
  BY CallOctet DEF RE!Fill
<1> HIDE DEF z
<1>2. /\ t \in Seq(RE!Octet) /\ Len(t) = m + w /\ w \in Nat
      /\ \A k \in 1 .. m : t[k] = 0
      /\ \A k \in 1 .. w : t[m + k] = s[k]
  BY <1>1
<1> HIDE DEF t
<1>3. PICK f : ReadFrom(f, w, OctetBits, s) /\ RE!FromOctets(s) = f[w]
  BY StringIsRead
<1>4. PICK g : ReadFrom(g, m + w, OctetBits, t) /\ RE!FromOctets(t) = g[m + w]
  BY <1>2, StringIsRead
<1>5. R \in Nat
  BY CallOctet
<1> HIDE DEF R, w
<1>6. g[0] = 0 /\ \A k \in 1 .. m + w : g[k] = g[k - 1] * R + t[k]
  BY <1>4, Zenon DEF ReadFrom, R
<1>7. f[0] = 0 /\ \A k \in 1 .. w : f[k] = f[k - 1] * R + s[k]
  BY <1>3, Zenon DEF ReadFrom, R
<1> DEFINE Zero == {k \in 0 .. m : g[k] = 0}
           Same == {k \in 0 .. w : g[m + k] = f[k]}
<1>8. g[m] = 0
  <2>1. 0 \in Zero
    BY <1>6
  <2>2. \A k \in 1 .. m : k - 1 \in Zero => k \in Zero
    BY <1>2, <1>5, <1>6
  <2>3. \A k \in 0 .. m : k \in Zero
    <3> HIDE DEF Zero
    <3>. QED
      BY <2>1, <2>2, UpTo
  <2>. QED
    BY <2>3
<1>9. g[m + w] = f[w]
  <2>1. 0 \in Same
    BY <1>2, <1>7, <1>8
  <2>2. ASSUME NEW k \in 1 .. w, k - 1 \in Same PROVE k \in Same
    <3>1. m + k \in 1 .. m + w /\ (m + k) - 1 = m + (k - 1)
      BY <1>2
    <3>2. g[m + k] = g[m + (k - 1)] * R + t[m + k]
      BY <1>6, <3>1
    <3>. QED
      BY <1>2, <1>7, <2>2, <3>2
  <2>3. \A k \in 0 .. w : k \in Same
    <3> HIDE DEF Same
    <3>. QED
      BY <1>2, <2>1, <2>2, UpTo
  <2>. QED
    BY <1>2, <2>3
<1>. QED
  BY <1>2, <1>3, <1>4, <1>9 DEF t, z, w

-----------------------------------------------------------------------------
(* The RSA operation on blocks of the size of the modulus.                 *)
IsBlock(k, s) ==
  s \in Seq(RE!Octet) /\ Len(s) = RE!Size(k) /\ RE!FromOctets(s) \in 0 .. k.n - 1
Applied(k, x, s) == RE!ToOctets(RE!ModPow(RE!FromOctets(s), x, k.n), RE!Size(k))
Undoes(k, x, y) ==
  \A m \in 0 .. k.n - 1 :
    /\ RE!ModPow(m, x, k.n) \in 0 .. k.n - 1
    /\ RE!ModPow(RE!ModPow(m, x, k.n), y, k.n) = m
IsKey(k) ==
  /\ k.n \in Nat \ {0} /\ RE!Size(k) \in Nat /\ RE!Size(k) >= LeastPadding + 3
  /\ Undoes(k, k.e, k.d) /\ Undoes(k, k.d, k.e)

LEMMA RequestKey == ASSUME RE!OctetsFit, RE!KeysInvert, NEW c \in RsaRequests PROVE IsKey(c.key)
<1> DEFINE k == c.key
<1>1. k \in {d.key : d \in RsaRequests}
  OBVIOUS
<1> HIDE DEF k
<1>2. k.n \in Nat \ {0} /\ RE!Size(k) >= RE!Overhead
  BY <1>1, Zenon DEF RE!KeysInvert
<1>3. Undoes(k, k.e, k.d)
  BY <1>1, Zenon DEF RE!KeysInvert, Undoes
<1>4. Undoes(k, k.d, k.e)
  BY <1>1, Zenon DEF RE!KeysInvert, Undoes
<1>5. RE!Size(k) \in Nat
  BY <1>2, SizeFits DEF RE!Size
<1>. QED
  BY <1>2, <1>3, <1>4, <1>5 DEF IsKey, RE!Overhead, k

LEMMA AppliedUndone ==
  ASSUME RE!OctetsFit, NEW k, IsKey(k), NEW x, NEW y, Undoes(k, x, y), NEW s, IsBlock(k, s)
  PROVE  IsBlock(k, Applied(k, x, s)) /\ Applied(k, y, Applied(k, x, s)) = s
<1> DEFINE m == RE!FromOctets(s)
           p == RE!ModPow(m, x, k.n)
           n == k.n
           size == RE!Size(k)
           t == RE!ToOctets(p, size)
<1>1. m \in 0 .. n - 1 /\ n \in Nat \ {0} /\ size \in Nat /\ s \in Seq(RE!Octet) /\ Len(s) = size
  BY DEF IsBlock, IsKey
<1>2. p \in 0 .. n - 1 /\ RE!ModPow(p, y, n) = m
  BY <1>1, Zenon DEF Undoes
<1>3. n < TwoTo[OctetBits * size] /\ TwoTo[OctetBits * size] \in Nat
  BY <1>1, SizeFits, CallOctet, PowerOfDigits DEF RE!Size
<1> HIDE DEF p, m, n, size
<1>4. p \in Nat /\ p \in 0 .. TwoTo[OctetBits * size] - 1
  BY <1>1, <1>2, <1>3
<1>5. t \in Seq(RE!Octet) /\ Len(t) = size
  BY <1>1, <1>4, ValueOctets
<1>6. RE!FromOctets(t) = p
  BY <1>1, <1>4, ValueIsKept
<1> HIDE DEF t
<1>7. Applied(k, x, s) = t
  BY Zenon DEF Applied, t, p, m, n, size
<1>8. IsBlock(k, t)
  BY <1>2, <1>5, <1>6, Zenon DEF IsBlock, n, size
<1>9. Applied(k, y, t) = RE!ToOctets(m, size)
  BY <1>2, <1>6, Zenon DEF Applied, n, size
<1>10. RE!ToOctets(m, size) = s
  BY <1>1, StringValue DEF m
<1>. QED
  BY <1>7, <1>8, <1>9, <1>10

(* A shorter string is the block with zeros in front.                      *)
Widened(k, s) == RE!Fill(RE!Size(k) - Len(s), 0) \o s
FitsModulus(k, s) ==
  s \in Seq(RE!Octet) /\ Len(s) <= RE!Size(k) /\ RE!FromOctets(s) \in 0 .. k.n - 1

LEMMA WidenedIs ==
  ASSUME RE!OctetsFit, NEW k, IsKey(k), NEW s \in Seq(RE!Octet), Len(s) <= RE!Size(k)
  PROVE  /\ Widened(k, s) \in Seq(RE!Octet) /\ Len(Widened(k, s)) = RE!Size(k)
         /\ RE!FromOctets(Widened(k, s)) = RE!FromOctets(s)
         /\ \A x : Applied(k, x, Widened(k, s)) = Applied(k, x, s)
         /\ Len(s) = RE!Size(k) => Widened(k, s) = s
<1> DEFINE size == RE!Size(k)
           m == size - Len(s)
           t == RE!Fill(m, 0) \o s
<1>1. size \in Nat /\ Len(s) \in Nat /\ m \in Nat /\ m + Len(s) = size
  BY DEF IsKey
<1>2. Widened(k, s) = t
  BY Zenon DEF Widened
<1> HIDE DEF m
<1>3. t \in Seq(RE!Octet) /\ Len(t) = size /\ RE!FromOctets(t) = RE!FromOctets(s)
  BY <1>1, ZerosInFront
<1>4. \A x : Applied(k, x, t) = Applied(k, x, s)
  BY <1>3, Zenon DEF Applied
<1>5. ASSUME Len(s) = size PROVE t = s
  <2>1. m = 0
    BY <1>1, <1>5
  <2>2. RE!Fill(0, 0) = << >>
    BY DEF RE!Fill
  <2>. QED
    BY <2>1, <2>2
<1>. QED
  BY <1>2, <1>3, <1>4, <1>5

LEMMA FittingBlock ==
  ASSUME RE!OctetsFit, NEW k, IsKey(k), NEW s, FitsModulus(k, s), NEW x, NEW y, Undoes(k, x, y)
  PROVE  IsBlock(k, Applied(k, x, s)) /\ Applied(k, y, Applied(k, x, s)) = Widened(k, s)
<1> DEFINE t == Widened(k, s)
<1>1. IsBlock(k, t) /\ Applied(k, x, t) = Applied(k, x, s)
  BY WidenedIs DEF FitsModulus, IsBlock
<1> HIDE DEF t
<1>2. IsBlock(k, Applied(k, x, t)) /\ Applied(k, y, Applied(k, x, t)) = t
  BY <1>1, AppliedUndone
<1>. QED
  BY <1>1, <1>2 DEF t

LEMMA AnswerForms ==
  /\ \A b : RE!Ok(b).ok = TRUE /\ RE!Ok(b).bytes = b
  /\ \A e : RE!Err(e).ok = FALSE
  BY DEF RE!Ok, RE!Err

(* What the operations return.                                             *)
PrivateReturns(k, s) ==
  RE!PrivateOperation(k, s).ok <=> Len(s) <= RE!Size(k) /\ RE!FromOctets(s) < k.n /\ failing # "operation"
PublicReturns(k, s) ==
  RE!PublicOperation(k, s).ok <=> Len(s) = RE!Size(k) /\ RE!FromOctets(s) < k.n
DeviceReturns(k, x, s) ==
  RE!Device(k, x, s).ok <=> RE!FromOctets(s) < k.n /\ failing \notin {"operation", "output"}

LEMMA OperationsReturn ==
  ASSUME RE!OctetsFit, NEW k, IsKey(k), NEW s \in Seq(RE!Octet)
  PROVE  /\ PrivateReturns(k, s) /\ PublicReturns(k, s) /\ \A x : DeviceReturns(k, x, s)
         /\ RE!PrivateOperation(k, s).ok => RE!PrivateOperation(k, s) = RE!Ok(Applied(k, k.d, s))
         /\ RE!PublicOperation(k, s).ok => RE!PublicOperation(k, s) = RE!Ok(Applied(k, k.e, s))
         /\ \A x : RE!Device(k, x, s).ok => RE!Device(k, x, s) = RE!Ok(Applied(k, x, s))
<1> DEFINE size == RE!Size(k)
           v == RE!FromOctets(s)
           n == k.n
<1>1. size \in Nat /\ n \in Nat /\ Len(s) \in Nat
  BY DEF IsKey
<1>2. v \in Nat
  <2>1. TwoTo[OctetBits * Len(s)] \in Nat
    BY <1>1, CallOctet, PowerOfDigits
  <2>. QED
    BY <2>1, StringValue
<1> HIDE DEF size, v, n
<1>3. (Len(s) > size <=> ~(Len(s) <= size)) /\ (v >= n <=> ~(v < n))
  BY <1>1, <1>2
<1>4. /\ RE!PrivateOperation(k, s).ok <=> Len(s) <= size /\ v < n /\ failing # "operation"
      /\ RE!PrivateOperation(k, s).ok => RE!PrivateOperation(k, s) = RE!Ok(Applied(k, k.d, s))
  BY <1>3, AnswerForms, Zenon DEF RE!PrivateOperation, Applied, size, v, n
<1>5. /\ RE!PublicOperation(k, s).ok <=> Len(s) = size /\ v < n
      /\ RE!PublicOperation(k, s).ok => RE!PublicOperation(k, s) = RE!Ok(Applied(k, k.e, s))
  BY <1>3, AnswerForms, Zenon DEF RE!PublicOperation, Applied, size, v, n
<1>6. ASSUME NEW x
      PROVE  /\ RE!Device(k, x, s).ok <=> v < n /\ failing \notin {"operation", "output"}
             /\ RE!Device(k, x, s).ok => RE!Device(k, x, s) = RE!Ok(Applied(k, x, s))
  BY <1>3, AnswerForms, Zenon DEF RE!Device, Applied, size, v, n
<1>. QED
  BY <1>4, <1>5, <1>6, Zenon DEF PrivateReturns, PublicReturns, DeviceReturns, size, v, n

-----------------------------------------------------------------------------
(* Masks.                                                                  *)
LEMMA DigestIs ==
  ASSUME RE!OctetsFit, RE!HashesToOctets, NEW hash \in DOMAIN DigestLength, NEW s \in Seq(RE!Octet)
  PROVE  /\ DigestLength[hash] \in Nat \ {0} /\ DigestOf(hash, s) \in Seq(RE!Octet)
         /\ Len(DigestOf(hash, s)) = DigestLength[hash]
<1>1. DigestLength[hash] \in Nat \ {0}
  BY Zenon DEF RE!OctetsFit
<1>2. DigestOf(hash, s) \in [1 .. DigestLength[hash] -> RE!Octet]
  BY Zenon DEF RE!HashesToOctets
<1>. QED
  BY <1>1, <1>2

LEMMA MaskIs ==
  ASSUME RE!OctetsFit, RE!HashesToOctets, NEW hash \in DOMAIN DigestLength,
         NEW seed \in Seq(RE!Octet), NEW count \in Nat
  PROVE  RE!Mgf1(seed, count, hash) \in Seq(RE!Octet) /\ Len(RE!Mgf1(seed, count, hash)) = count
<1> DEFINE L == DigestLength[hash]
           K == RE!CeilDiv(count, L)
           S == Seq(RE!Octet)
           h(i) == DigestOf(hash, seed \o RE!ToOctets(i - 1, 4))
           Loop(f) == f = [i \in 0 .. K |-> IF i = 0 THEN << >> ELSE f[i - 1] \o h(i)]
           F == CHOOSE f : Loop(f)
           step == [i \in 1 .. K |-> [x \in S |-> x \o h(i)]]
<1>1. RE!Mgf1(seed, count, hash) = SubSeq(F[K], 1, count)
  BY Zenon DEF RE!Mgf1, RE!Front
<1>2. L \in Nat \ {0}
  BY Zenon DEF RE!OctetsFit
<1>3. K \in Nat /\ count <= L * K
  BY <1>2, Ceiling
<1>4. ASSUME NEW i \in 1 .. K PROVE h(i) \in S /\ Len(h(i)) = L
  <2>1. i - 1 \in Nat /\ 4 \in Nat
    BY <1>3
  <2>2. RE!ToOctets(i - 1, 4) \in Seq(RE!Octet)
    BY <2>1, ValueOctets
  <2>3. seed \o RE!ToOctets(i - 1, 4) \in Seq(RE!Octet)
    BY <2>2
  <2>. QED
    BY <2>3, DigestIs
<1> HIDE DEF h, K, L
<1>5. << >> \in S /\ step \in [1 .. K -> [S -> S]]
  BY <1>4
<1>6. PICK f : Iterates(f, K, S, << >>, step)
  <2> HIDE DEF step, S
  <2>. QED
    BY <1>3, <1>5, IterationExists
<1>7. /\ f \in [0 .. K -> S] /\ f[0] = << >>
      /\ \A i \in 1 .. K : f[i] = f[i - 1] \o h(i)
  <2>1. \A i \in 1 .. K : i - 1 \in 0 .. K
    BY <1>3
  <2> HIDE DEF S
  <2>. QED
    BY <1>6, <2>1 DEF Iterates
<1>8. Loop(f)
  <2>1. \A i \in 0 .. K : i # 0 => i \in 1 .. K
    BY <1>3
  <2> HIDE DEF S
  <2>. QED
    BY <1>7, <2>1
<1>9. Loop(F)
  <2> HIDE DEF Loop
  <2>. QED
    BY <1>8
<1> HIDE DEF F
<1> DEFINE G == {i \in 0 .. K : F[i] \in S /\ Len(F[i]) = i * L}
<1>10. 0 \in G
  <2>1. F[0] = << >> /\ 0 \in 0 .. K
    BY <1>3, <1>9
  <2>2. << >> \in S /\ Len(<< >>) = 0 /\ 0 * L = 0
    BY <1>2
  <2> HIDE DEF S
  <2>. QED
    BY <2>1, <2>2
<1>11. ASSUME NEW i \in 1 .. K, i - 1 \in G PROVE i \in G
  <2> DEFINE x == F[i - 1]
             y == h(i)
  <2>0. F[i] = x \o y
    <3>1. i \in 0 .. K /\ i # 0
      BY <1>3
    <3>. QED
      BY <1>9, <3>1
  <2>1. i \in 0 .. K /\ x \in S /\ Len(x) = (i - 1) * L
    <3> HIDE DEF S
    <3>. QED
      BY <1>3, <1>11
  <2>2. (i - 1) * L + L = i * L
    BY <1>2
  <2>4. y \in S /\ Len(y) = L
    BY <1>4
  <2> HIDE DEF x, y
  <2>5. x \o y \in S /\ Len(x \o y) = Len(x) + Len(y)
    <3>1. x \in Seq(RE!Octet) /\ y \in Seq(RE!Octet)
      BY <2>1, <2>4, Zenon
    <3>. QED
      BY <3>1
  <2>3. F[i] \in S /\ Len(F[i]) = i * L
    <3> HIDE DEF S
    <3>. QED
      BY <2>0, <2>1, <2>2, <2>4, <2>5
  <2> HIDE DEF S
  <2>. QED
    BY <2>1, <2>3
<1>12. \A i \in 0 .. K : i \in G
  <2> HIDE DEF G
  <2>. QED
    BY <1>3, <1>10, <1>11, UpTo
<1>13. F[K] \in S /\ Len(F[K]) = K * L
  BY <1>3, <1>12
<1>14. count <= Len(F[K])
  BY <1>2, <1>3, <1>13
<1> DEFINE s == F[K]
<1> HIDE DEF s
<1>15. SubSeq(s, 1, count) \in Seq(RE!Octet) /\ Len(SubSeq(s, 1, count)) = count
  BY <1>13, <1>14 DEF s
<1>. QED
  BY <1>1, <1>15 DEF s

LEMMA XorIs ==
  ASSUME RE!XorIsBitwise, NEW x \in Seq(RE!Octet), NEW y \in Seq(RE!Octet), Len(x) = Len(y)
  PROVE  /\ RE!XorOctets(x, y) \in Seq(RE!Octet) /\ Len(RE!XorOctets(x, y)) = Len(x)
         /\ \A k \in 1 .. Len(x) : RE!XorOctets(x, y)[k] = OctetXor[<<x[k], y[k]>>]
         /\ RE!XorOctets(RE!XorOctets(x, y), y) = x
<1> DEFINE len == Len(x)
           t == RE!XorOctets(x, y)
           u == RE!XorOctets(t, y)
<1>1. len \in Nat /\ \A k \in 1 .. len : x[k] \in RE!Octet /\ y[k] \in RE!Octet
  BY LenProperties, ElementOfSeq
<1>2. \A a, b \in RE!Octet : OctetXor[<<a, b>>] \in RE!Octet /\ OctetXor[<<OctetXor[<<a, b>>], b>>] = a
  BY Zenon DEF RE!XorIsBitwise
<1>3. t = [k \in 1 .. len |-> OctetXor[<<x[k], y[k]>>]]
  BY Zenon DEF RE!XorOctets
<1> HIDE DEF t
<1>4. /\ t \in [1 .. len -> RE!Octet]
      /\ \A k \in 1 .. len : t[k] = OctetXor[<<x[k], y[k]>>]
  BY <1>1, <1>2, <1>3
<1>5. t \in Seq(RE!Octet) /\ Len(t) = len
  BY <1>1, <1>4
<1>6. u = [k \in 1 .. len |-> OctetXor[<<t[k], y[k]>>]]
  BY <1>5, Zenon DEF RE!XorOctets
<1>7. \A k \in 1 .. len : OctetXor[<<t[k], y[k]>>] = x[k]
  BY <1>1, <1>2, <1>4
<1>8. u = x
  <2>1. u = [k \in 1 .. len |-> x[k]]
    BY <1>6, <1>7, Zenon
  <2>. QED
    BY <1>1, <2>1
<1>. QED
  BY <1>4, <1>5, <1>8 DEF t, u

-----------------------------------------------------------------------------
(* Strings, joined and cut.                                                *)
IsJoined(c, s, t) ==
  /\ Len(c) = Len(s) + Len(t)
  /\ \A j \in 1 .. Len(s) : c[j] = s[j]
  /\ \A j \in 1 .. Len(t) : c[Len(s) + j] = t[j]

LEMMA StringsJoin ==
  ASSUME NEW S, NEW s \in Seq(S), NEW t \in Seq(S)
  PROVE  s \o t \in Seq(S) /\ IsJoined(s \o t, s, t)
<1> DEFINE c == s \o t
           l == Len(s)
           m == Len(t)
<1>1. /\ c \in Seq(S) /\ Len(c) = l + m /\ l \in Nat /\ m \in Nat
      /\ \A i \in 1 .. l + m : c[i] = IF i <= l THEN s[i] ELSE t[i - l]
  BY ConcatProperties, LenProperties
<1> HIDE DEF c, l, m
<1>2. \A j \in 1 .. l : c[j] = s[j]
  BY <1>1
<1>3. ASSUME NEW j \in 1 .. m PROVE c[l + j] = t[j]
  <2>1. l + j \in 1 .. l + m /\ ~(l + j <= l) /\ (l + j) - l = j
    BY <1>1
  <2>. QED
    BY <1>1, <2>1
<1>. QED
  BY <1>1, <1>2, <1>3 DEF IsJoined, c, l, m

IsSlice(c, s, i, l) == Len(c) = l /\ \A j \in 1 .. l : c[j] = s[i + j]

LEMMA StringsCut ==
  ASSUME NEW S, NEW s \in Seq(S), NEW i \in Nat, NEW l \in Nat, i + l <= Len(s)
  PROVE  SubSeq(s, i + 1, i + l) \in Seq(S) /\ IsSlice(SubSeq(s, i + 1, i + l), s, i, l)
<1> DEFINE c == SubSeq(s, i + 1, i + l)
           a == i + 1
           b == i + l
<1>1. Len(s) \in Nat /\ \A j \in 1 .. Len(s) : s[j] \in S
  BY LenProperties, ElementOfSeq
<1>2. a \in Int /\ b \in Int /\ \A j \in a .. b : s[j] \in S
  BY <1>1
<1> HIDE DEF a, b
<1>3. /\ SubSeq(s, a, b) \in Seq(S) /\ Len(SubSeq(s, a, b)) = IF a <= b THEN b - a + 1 ELSE 0
      /\ \A j \in 1 .. b - a + 1 : SubSeq(s, a, b)[j] = s[a + j - 1]
  BY <1>2, SubSeqProperties
<1>4. /\ b - a + 1 = l /\ (a <= b <=> l # 0) /\ c = SubSeq(s, a, b)
      /\ \A j \in 1 .. l : a + j - 1 = i + j
  BY DEF a, b
<1> HIDE DEF c
<1>5. Len(c) = l
  BY <1>3, <1>4
<1>6. \A j \in 1 .. l : c[j] = s[i + j]
  BY <1>3, <1>4
<1>. QED
  BY <1>3, <1>4, <1>5, <1>6 DEF IsSlice, c

LEMMA StringsEnd ==
  ASSUME NEW S, NEW s \in Seq(S), NEW i \in Nat, i <= Len(s)
  PROVE  SubSeq(s, i + 1, Len(s)) \in Seq(S) /\ IsSlice(SubSeq(s, i + 1, Len(s)), s, i, Len(s) - i)
<1>1. Len(s) - i \in Nat /\ i + (Len(s) - i) = Len(s)
  OBVIOUS
<1>. QED
  BY <1>1, StringsCut

-----------------------------------------------------------------------------
(* PKCS #1 v1.5.                                                           *)
First(T) == CHOOSE k \in T : \A j \in T : k <= j

LEMMA FirstIs ==
  ASSUME NEW T \in SUBSET Nat
  PROVE  /\ T # {} => First(T) \in T /\ \A j \in T : First(T) <= j
         /\ \A q \in T : (\A j \in T : q <= j) => First(T) = q
<1>1. ASSUME T # {} PROVE First(T) \in T /\ \A j \in T : First(T) <= j
  <2>1. PICK n \in T : \A m \in T : ~(<<m, n>> \in OpToRel(<, Nat))
    BY <1>1, WFMin, NatLessThanWellFounded
  <2>2. ASSUME NEW m \in T PROVE n <= m
    <3>1. m \in Nat /\ n \in Nat
      OBVIOUS
    <3>2. m < n => <<m, n>> \in OpToRel(<, Nat)
      BY <3>1 DEF OpToRel
    <3>3. ~(m < n)
      BY <2>1, <3>2
    <3>. QED
      BY <3>1, <3>3
  <2>3. \E k \in T : \A j \in T : k <= j
    BY <2>2
  <2>. QED
    BY <2>3, Zenon DEF First
<1>2. ASSUME NEW q \in T, \A j \in T : q <= j PROVE First(T) = q
  <2>1. First(T) \in T /\ \A j \in T : First(T) <= j
    BY <1>1, <1>2
  <2>2. First(T) <= q /\ q <= First(T) /\ First(T) \in Nat /\ q \in Nat
    BY <1>2, <2>1
  <2>. QED
    BY <2>2
<1>. QED
  BY <1>1, <1>2

LEMMA RoomIs ==
  ASSUME RE!OctetsFit, NEW k, IsKey(k)
  PROVE  /\ RE!Size(k) \in Nat /\ LeastPadding \in Nat /\ RE!Overhead = LeastPadding + 3
         /\ RE!Overhead <= RE!Size(k) /\ RE!Room(RE!Size(k)) = RE!Size(k) - RE!Overhead
  BY DEF RE!OctetsFit, IsKey, RE!Room, RE!Overhead

LEMMA PayloadIs ==
  ASSUME RE!OctetsFit, NEW k, IsKey(k), NEW payload \in Seq(RE!Octet), NEW e,
         e = RE!EncodedPayload(RE!Size(k), payload), e.ok
  PROVE  e = RE!Ok(e.bytes) /\ e.bytes \in Seq(RE!Octet) /\ Len(e.bytes) = RE!Size(k)
<1> DEFINE size == RE!Size(k)
           m == size - Len(payload) - 3
           fill == RE!Fill(m, RE!ByteValues(1) - 1)
           b == <<0, 1>> \o fill \o <<0>> \o payload
<1>1. ~(Len(payload) > RE!Room(size)) /\ e = RE!Ok(b)
  BY AnswerForms, Zenon DEF RE!EncodedPayload
<1>2. m \in Nat /\ m + (Len(payload) + 3) = size
  BY <1>1, RoomIs
<1> HIDE DEF m, size
<1>3. fill \in Seq(RE!Octet) /\ Len(fill) = m
  BY <1>2, CallOctet DEF RE!Fill
<1> HIDE DEF fill
<1>4. <<0, 1>> \in Seq(RE!Octet) /\ <<0>> \in Seq(RE!Octet)
  BY CallOctet
<1>5. b \in Seq(RE!Octet) /\ Len(b) = size
  <2> DEFINE S == RE!Octet
  <2> HIDE DEF S
  <2>1. <<0, 1>> \in Seq(S) /\ <<0>> \in Seq(S) /\ fill \in Seq(S) /\ payload \in Seq(S)
    BY <1>3, <1>4 DEF S
  <2>2. b \in Seq(S) /\ Len(b) = 2 + m + 1 + Len(payload)
    BY <1>2, <1>3, <2>1
  <2>. QED
    BY <1>2, <2>2 DEF S
<1> HIDE DEF b
<1>. QED
  BY <1>1, <1>5, AnswerForms DEF size

PaddedBlock(padding, plaintext) == <<0, 2>> \o padding \o <<0>> \o plaintext
LaidOut(s, m, padding, plaintext) ==
  /\ s \in Seq(RE!Octet) /\ Len(s) = (m + 3) + Len(plaintext)
  /\ s[1] = 0 /\ s[2] = 2 /\ s[m + 3] = 0
  /\ \A j \in 1 .. m : s[j + 2] = padding[j]
  /\ \A j \in 1 .. Len(plaintext) : s[(m + 3) + j] = plaintext[j]
Zeros(s) == {j \in 3 .. Len(s) : s[j] = 0}
Unpads(s) ==
  /\ RE!Overhead <= Len(s) /\ s[1] = 0 /\ s[2] = 2 /\ Zeros(s) # {}
  /\ LeastPadding + 2 < First(Zeros(s))

LEMMA UnpadIs ==
  ASSUME RE!OctetsFit, NEW s \in Seq(RE!Octet)
  PROVE  /\ RE!Unpad(s).ok <=> Unpads(s)
         /\ RE!Unpad(s).ok => RE!Unpad(s) = RE!Ok(SubSeq(s, First(Zeros(s)) + 1, Len(s)))
<1>1. Len(s) \in Nat /\ LeastPadding \in Nat /\ RE!Overhead \in Nat
  BY DEF RE!OctetsFit, RE!Overhead
<1>2. Len(s) < RE!Overhead <=> ~(RE!Overhead <= Len(s))
  BY <1>1
<1>3. ASSUME Zeros(s) # {}
      PROVE  First(Zeros(s)) <= LeastPadding + 2 <=> ~(LeastPadding + 2 < First(Zeros(s)))
  <2>1. Zeros(s) \in SUBSET Nat
    BY <1>1 DEF Zeros
  <2>2. First(Zeros(s)) \in Nat
    BY <1>3, <2>1, FirstIs
  <2>. QED
    BY <1>1, <2>2
<1>4. RE!Unpad(s) =
        IF Len(s) < RE!Overhead THEN RE!Err("OperationFailed")
        ELSE IF s[1] # 0 \/ s[2] # 2 \/ Zeros(s) = {} THEN RE!Err("OperationFailed")
        ELSE IF First(Zeros(s)) <= LeastPadding + 2 THEN RE!Err("OperationFailed")
        ELSE RE!Ok(SubSeq(s, First(Zeros(s)) + 1, Len(s)))
  BY Zenon DEF RE!Unpad, RE!Behind, Zeros, First
<1>. QED
  BY <1>2, <1>3, <1>4, AnswerForms, Zenon DEF Unpads

LEMMA PaddedBlockIs ==
  ASSUME RE!OctetsFit, NEW plaintext \in Seq(RE!Octet), NEW m \in Nat, NEW padding \in [1 .. m -> RE!Octet]
  PROVE  LaidOut(PaddedBlock(padding, plaintext), m, padding, plaintext)
<1> DEFINE S == RE!Octet
           a == <<0, 2>>
           z == <<0>>
<1>1. a \in Seq(S) /\ Len(a) = 2 /\ a[1] = 0 /\ a[2] = 2 /\ z \in Seq(S) /\ Len(z) = 1 /\ z[1] = 0
  BY CallOctet
<1>2. padding \in Seq(S) /\ Len(padding) = m /\ plaintext \in Seq(S) /\ Len(plaintext) \in Nat
  OBVIOUS
<1>3. PaddedBlock(padding, plaintext) = ((a \o padding) \o z) \o plaintext
  BY DEF PaddedBlock
<1> DEFINE p == a \o padding
           q == p \o z
           r == q \o plaintext
<1> HIDE DEF S, a, z
<1>4. /\ p \in Seq(S) /\ Len(p) = m + 2 /\ p[1] = 0 /\ p[2] = 2
      /\ \A j \in 1 .. m : p[j + 2] = padding[j]
  <2>1. p \in Seq(S) /\ IsJoined(p, a, padding)
    BY <1>1, <1>2, StringsJoin
  <2> HIDE DEF p
  <2>2. \A j \in 1 .. m : j + 2 = 2 + j
    OBVIOUS
  <2>. QED
    BY <1>1, <1>2, <2>1, <2>2 DEF IsJoined
<1> HIDE DEF p
<1>5. /\ q \in Seq(S) /\ Len(q) = m + 3 /\ q[m + 3] = 0
      /\ \A j \in 1 .. m + 2 : q[j] = p[j]
  <2>1. q \in Seq(S) /\ IsJoined(q, p, z)
    BY <1>1, <1>4, StringsJoin
  <2> HIDE DEF q
  <2>2. (m + 2) + 1 = m + 3
    OBVIOUS
  <2>. QED
    BY <1>1, <1>4, <2>1, <2>2 DEF IsJoined
<1> HIDE DEF q
<1>6. /\ r \in Seq(S) /\ Len(r) = (m + 3) + Len(plaintext)
      /\ \A j \in 1 .. m + 3 : r[j] = q[j]
      /\ \A j \in 1 .. Len(plaintext) : r[(m + 3) + j] = plaintext[j]
  <2>1. r \in Seq(S) /\ IsJoined(r, q, plaintext)
    BY <1>2, <1>5, StringsJoin
  <2> HIDE DEF r
  <2>. QED
    BY <1>2, <1>5, <2>1 DEF IsJoined
<1> HIDE DEF r
<1>7. r[1] = 0 /\ r[2] = 2 /\ r[m + 3] = 0
  BY <1>4, <1>5, <1>6
<1>8. \A j \in 1 .. m : r[j + 2] = padding[j]
  BY <1>4, <1>5, <1>6
<1>9. PaddedBlock(padding, plaintext) = r
  BY <1>3 DEF r, q, p
<1>. QED
  BY <1>6, <1>7, <1>8, <1>9 DEF S, LaidOut

LEMMA PadUnpads ==
  ASSUME RE!OctetsFit, NEW plaintext \in Seq(RE!Octet), NEW m \in Nat, LeastPadding <= m,
         NEW padding \in [1 .. m -> RE!Octet \ {0}]
  PROVE  RE!Unpad(PaddedBlock(padding, plaintext)) = RE!Ok(plaintext)
<1> DEFINE s == PaddedBlock(padding, plaintext)
           q == m + 3
           len == Len(plaintext)
<1>0. padding \in [1 .. m -> RE!Octet] /\ \A j \in 1 .. m : padding[j] # 0
  OBVIOUS
<1>1. /\ s \in Seq(RE!Octet) /\ Len(s) = q + len /\ s[1] = 0 /\ s[2] = 2 /\ s[q] = 0
      /\ \A j \in 1 .. m : s[j + 2] # 0
      /\ \A j \in 1 .. len : s[q + j] = plaintext[j]
  <2>1. LaidOut(s, m, padding, plaintext)
    BY <1>0, PaddedBlockIs
  <2> HIDE DEF s
  <2>. QED
    BY <1>0, <2>1 DEF LaidOut
<1>2. len \in Nat /\ LeastPadding \in Nat
  BY DEF RE!OctetsFit
<1> HIDE DEF s, len
<1>3. q \in Zeros(s) /\ Zeros(s) \in SUBSET Nat
  BY <1>1, <1>2 DEF Zeros
<1>4. ASSUME NEW j \in Zeros(s) PROVE q <= j
  <2>1. j \in 3 .. q + len /\ s[j] = 0
    BY <1>1 DEF Zeros
  <2>2. ASSUME j < q PROVE FALSE
    <3>1. j - 2 \in 1 .. m /\ (j - 2) + 2 = j
      BY <1>2, <2>1, <2>2
    <3>. QED
      BY <1>1, <2>1, <3>1
  <2>. QED
    BY <1>2, <2>1, <2>2
<1>5. First(Zeros(s)) = q
  BY <1>3, <1>4, FirstIs
<1>6. Unpads(s)
  BY <1>1, <1>2, <1>3, <1>5 DEF Unpads, RE!Overhead
<1>7. RE!Unpad(s) = RE!Ok(SubSeq(s, q + 1, Len(s)))
  BY <1>1, <1>5, <1>6, UnpadIs
<1> DEFINE t == SubSeq(s, q + 1, Len(s))
<1>8. t \in Seq(RE!Octet) /\ Len(t) = len /\ \A j \in 1 .. len : t[j] = s[q + j]
  <2>1. q \in Nat /\ q <= Len(s) /\ Len(s) - q = len
    BY <1>1, <1>2
  <2>2. t \in Seq(RE!Octet) /\ IsSlice(t, s, q, len)
    BY <1>1, <2>1, StringsEnd
  <2>. QED
    BY <2>2 DEF IsSlice
<1> HIDE DEF t
<1>9. t = plaintext
  <2>1. \A j \in 1 .. len : t[j] = plaintext[j]
    BY <1>1, <1>8
  <2>. QED
    BY <1>8, <2>1, SeqEqual DEF len
<1>. QED
  BY <1>7, <1>9 DEF t, s

LEMMA UnpadPads ==
  ASSUME RE!OctetsFit, NEW s \in Seq(RE!Octet), RE!Unpad(s).ok
  PROVE  \E plaintext \in Seq(RE!Octet), m \in Nat :
           /\ RE!Unpad(s) = RE!Ok(plaintext) /\ LeastPadding <= m /\ Len(s) = (m + 3) + Len(plaintext)
           /\ \E padding \in [1 .. m -> RE!Octet \ {0}] : s = PaddedBlock(padding, plaintext)
<1> DEFINE q == First(Zeros(s))
           m == q - 3
           plaintext == SubSeq(s, q + 1, Len(s))
           len == Len(s) - q
           padding == [j \in 1 .. m |-> s[j + 2]]
<1>1. Unpads(s) /\ RE!Unpad(s) = RE!Ok(plaintext)
  BY UnpadIs
<1>2. LeastPadding \in Nat /\ Len(s) \in Nat
  BY DEF RE!OctetsFit
<1>3. q \in Zeros(s) /\ \A j \in Zeros(s) : q <= j
  <2>1. Zeros(s) \in SUBSET Nat
    BY <1>2 DEF Zeros
  <2>. QED
    BY <1>1, <2>1, FirstIs DEF Unpads
<1>4. /\ q \in 3 .. Len(s) /\ s[q] = 0 /\ LeastPadding + 2 < q
      /\ \A j \in 3 .. Len(s) : s[j] = 0 => q <= j
  BY <1>1, <1>3 DEF Unpads, Zeros
<1> HIDE DEF q
<1>5. m \in Nat /\ m + 3 = q /\ LeastPadding <= m /\ len \in Nat /\ q + len = Len(s)
  BY <1>2, <1>4
<1>6. plaintext \in Seq(RE!Octet) /\ Len(plaintext) = len /\ \A j \in 1 .. len : plaintext[j] = s[q + j]
  <2>1. q \in Nat /\ q <= Len(s)
    BY <1>2, <1>4
  <2>2. plaintext \in Seq(RE!Octet) /\ IsSlice(plaintext, s, q, len)
    BY <2>1, StringsEnd
  <2>. QED
    BY <2>2 DEF IsSlice
<1>7. \A j \in 1 .. m : s[j + 2] \in RE!Octet \ {0}
  <2> TAKE j \in 1 .. m
  <2>1. j + 2 \in 3 .. Len(s) /\ j + 2 < q /\ j + 2 \in 1 .. Len(s)
    BY <1>2, <1>4
  <2>2. s[j + 2] \in RE!Octet
    BY <2>1, ElementOfSeq
  <2>3. ~(q <= j + 2)
    BY <1>4, <2>1
  <2>. QED
    BY <1>4, <2>1, <2>2, <2>3
<1> HIDE DEF m, plaintext, len
<1>8. padding \in [1 .. m -> RE!Octet \ {0}] /\ padding \in [1 .. m -> RE!Octet] /\ \A j \in 1 .. m : padding[j] = s[j + 2]
  BY <1>7
<1> HIDE DEF padding
<1> DEFINE t == PaddedBlock(padding, plaintext)
<1>9. /\ t \in Seq(RE!Octet) /\ Len(t) = q + len /\ t[1] = 0 /\ t[2] = 2 /\ t[q] = 0
      /\ \A j \in 1 .. m : t[j + 2] = padding[j]
      /\ \A j \in 1 .. len : t[q + j] = plaintext[j]
  <2>1. LaidOut(t, m, padding, plaintext)
    BY <1>5, <1>6, <1>8, PaddedBlockIs
  <2> HIDE DEF t
  <2>. QED
    BY <1>5, <1>6, <2>1 DEF LaidOut
<1> HIDE DEF t
<1>10. ASSUME NEW j \in 1 .. Len(s) PROVE t[j] = s[j]
  <2>1. CASE j \in {1, 2, q}
    BY <1>1, <1>4, <1>9, <2>1 DEF Unpads
  <2>2. CASE j > 2 /\ j < q
    <3>1. j - 2 \in 1 .. m /\ (j - 2) + 2 = j
      BY <1>4, <1>5, <2>2
    <3>. QED
      BY <1>8, <1>9, <3>1
  <2>3. CASE j > q
    <3>1. j - q \in 1 .. len /\ q + (j - q) = j
      BY <1>4, <1>5, <2>3
    <3>. QED
      BY <1>6, <1>9, <3>1
  <2>. QED
    BY <1>2, <1>4, <2>1, <2>2, <2>3
<1>11. t = s
  <2>1. Len(t) = Len(s)
    BY <1>5, <1>9
  <2>. QED
    BY <1>9, <1>10, <2>1, SeqEqual
<1>12. Len(s) = (m + 3) + Len(plaintext)
  BY <1>5, <1>6
<1>. QED
  BY <1>1, <1>5, <1>6, <1>8, <1>11, <1>12 DEF t

-----------------------------------------------------------------------------
(* OAEP: the data block, and the block that hides it.                      *)
OaepDb(label, w, input) ==
  [j \in 1 .. w |-> IF j <= Len(label) THEN label[j] ELSE 0] \o <<1>> \o input
IsDb(db, label, w, input) ==
  /\ db \in Seq(RE!Octet) /\ Len(db) = (w + 1) + Len(input)
  /\ \A j \in 1 .. w : db[j] = IF j <= Len(label) THEN label[j] ELSE 0
  /\ db[w + 1] = 1
  /\ \A j \in 1 .. Len(input) : db[(w + 1) + j] = input[j]

LEMMA DbIs ==
  ASSUME RE!OctetsFit, NEW label \in Seq(RE!Octet), NEW input \in Seq(RE!Octet), NEW w \in Nat
  PROVE  IsDb(OaepDb(label, w, input), label, w, input)
<1> DEFINE S == RE!Octet
           f == [j \in 1 .. w |-> IF j <= Len(label) THEN label[j] ELSE 0]
           z == <<1>>
           p == f \o z
           q == p \o input
<1>1. OaepDb(label, w, input) = q
  BY DEF OaepDb
<1>2. Len(label) \in Nat /\ 0 \in S /\ \A j \in 1 .. Len(label) : label[j] \in S
  BY CallOctet, LenProperties, ElementOfSeq
<1>3. /\ f \in Seq(S) /\ Len(f) = w
      /\ \A j \in 1 .. w : f[j] = IF j <= Len(label) THEN label[j] ELSE 0
  <2>1. \A j \in 1 .. w : f[j] = IF j <= Len(label) THEN label[j] ELSE 0
    OBVIOUS
  <2>2. \A j \in 1 .. w : f[j] \in S
    BY <1>2, <2>1
  <2>3. f \in [1 .. w -> S]
    BY <2>2
  <2> HIDE DEF f, S
  <2>4. f \in Seq(S) /\ Len(f) = w
    BY <2>3
  <2>. QED
    BY <2>1, <2>4
<1>4. z \in Seq(S) /\ Len(z) = 1 /\ z[1] = 1
  BY CallOctet
<1> HIDE DEF f, z
<1>5. p \in Seq(S) /\ IsJoined(p, f, z)
  BY <1>3, <1>4, StringsJoin
<1> HIDE DEF p
<1>6. q \in Seq(S) /\ IsJoined(q, p, input)
  BY <1>5, StringsJoin
<1> HIDE DEF q, S
<1>7. Len(p) = w + 1 /\ p[w + 1] = 1 /\ \A j \in 1 .. w : p[j] = f[j]
  BY <1>3, <1>4, <1>5 DEF IsJoined
<1>8. Len(q) = (w + 1) + Len(input) /\ \A j \in 1 .. Len(input) : q[(w + 1) + j] = input[j]
  BY <1>6, <1>7 DEF IsJoined
<1>9. \A j \in 1 .. w + 1 : q[j] = p[j]
  BY <1>6, <1>7 DEF IsJoined
<1>10. q[w + 1] = 1 /\ \A j \in 1 .. w : q[j] = f[j]
  BY <1>7, <1>9
<1>. QED
  BY <1>1, <1>3, <1>6, <1>8, <1>10, Zenon DEF IsDb, S

Marks(s) == {j \in 1 .. Len(s) : s[j] # 0}
RestOf(db, h) == SubSeq(db, h + 1, Len(db))
InputOf(rest) == SubSeq(rest, First(Marks(rest)) + 1, Len(rest))
HoldsInput(db, label, input) ==
  /\ SubSeq(db, 1, Len(label)) = label /\ Marks(RestOf(db, Len(label))) # {}
  /\ RestOf(db, Len(label))[First(Marks(RestOf(db, Len(label))))] = 1
  /\ input = InputOf(RestOf(db, Len(label)))

LEMMA DbReads ==
  ASSUME RE!OctetsFit, NEW label \in Seq(RE!Octet), NEW input \in Seq(RE!Octet), NEW w \in Nat,
         Len(label) <= w, NEW db, IsDb(db, label, w, input)
  PROVE  HoldsInput(db, label, input)
<1> DEFINE S == RE!Octet
           h == Len(label)
           len == Len(input)
           rest == RestOf(db, h)
           q == (w - h) + 1
           front == SubSeq(db, 0 + 1, 0 + h)
<1>1. h \in Nat /\ len \in Nat /\ h <= w /\ q \in Nat
  OBVIOUS
<1>2. /\ db \in Seq(S) /\ Len(db) = (w + 1) + len /\ db[w + 1] = 1
      /\ \A j \in 1 .. w : db[j] = IF j <= h THEN label[j] ELSE 0
      /\ \A j \in 1 .. len : db[(w + 1) + j] = input[j]
  BY Zenon DEF IsDb
<1> HIDE DEF S
<1>3. front = label
  <2>1. front \in Seq(S) /\ IsSlice(front, db, 0, h)
    <3>1. 0 + h <= Len(db) /\ 0 \in Nat
      BY <1>1, <1>2
    <3>. QED
      BY <1>1, <1>2, <3>1, StringsCut
  <2> HIDE DEF front
  <2>2. \A j \in 1 .. h : 0 + j = j /\ j \in 1 .. w /\ j <= h
    BY <1>1
  <2>3. Len(front) = h /\ \A j \in 1 .. h : front[j] = label[j]
    BY <1>2, <2>1, <2>2 DEF IsSlice
  <2>. QED
    BY <2>1, <2>3, SeqEqual DEF S
<1>4. front = SubSeq(db, 1, h)
  BY <1>1
<1>5. rest \in Seq(S) /\ IsSlice(rest, db, h, q + len)
  <2>1. h <= Len(db) /\ Len(db) - h = q + len
    BY <1>1, <1>2
  <2>. QED
    BY <1>1, <1>2, <2>1, StringsEnd DEF RestOf
<1> HIDE DEF rest, front
<1>6. /\ Len(rest) = q + len /\ rest[q] = 1
      /\ \A j \in 1 .. q - 1 : rest[j] = 0
      /\ \A j \in 1 .. len : rest[q + j] = input[j]
  <2>1. Len(rest) = q + len /\ \A j \in 1 .. q + len : rest[j] = db[h + j]
    BY <1>5 DEF IsSlice
  <2>2. q \in 1 .. q + len /\ h + q = w + 1
    BY <1>1
  <2>3. ASSUME NEW j \in 1 .. q - 1 PROVE rest[j] = 0
    <3>1. j \in 1 .. q + len /\ h + j \in 1 .. w /\ ~(h + j <= h)
      BY <1>1
    <3>. QED
      BY <1>2, <2>1, <3>1
  <2>4. ASSUME NEW j \in 1 .. len PROVE rest[q + j] = input[j]
    <3>1. q + j \in 1 .. q + len /\ h + (q + j) = (w + 1) + j
      BY <1>1
    <3>. QED
      BY <1>2, <2>1, <3>1
  <2>. QED
    BY <1>2, <2>1, <2>2, <2>3, <2>4
<1> HIDE DEF q, h, len
<1>7. Marks(rest) \in SUBSET Nat /\ q \in Marks(rest) /\ 1 <= q
  BY <1>1, <1>6 DEF Marks, q
<1>8. \A j \in Marks(rest) : q <= j
  BY <1>1, <1>6 DEF Marks
<1>9. First(Marks(rest)) = q
  BY <1>7, <1>8, FirstIs
<1>10. InputOf(rest) = input
  <2> DEFINE t == SubSeq(rest, q + 1, Len(rest))
  <2>1. q <= Len(rest) /\ Len(rest) - q = len
    BY <1>1, <1>6
  <2>2. t \in Seq(S) /\ IsSlice(t, rest, q, len)
    BY <1>1, <1>5, <2>1, StringsEnd
  <2> HIDE DEF t
  <2>3. t = input
    <3>1. Len(t) = len /\ \A j \in 1 .. len : t[j] = input[j]
      BY <1>6, <2>2 DEF IsSlice
    <3>. QED
      BY <2>2, <3>1, SeqEqual DEF S, len
  <2>. QED
    BY <1>9, <2>3 DEF InputOf, t
<1>. QED
  BY <1>3, <1>4, <1>6, <1>7, <1>9, <1>10, Zenon DEF HoldsInput, h, rest

ReadFromDb(db, label, input) ==
  /\ input \in Seq(RE!Octet)
  /\ \E w \in Nat : Len(label) <= w /\ Len(db) = (w + 1) + Len(input) /\ db = OaepDb(label, w, input)

LEMMA ReadsDb ==
  ASSUME RE!OctetsFit, NEW label \in Seq(RE!Octet), NEW db \in Seq(RE!Octet), Len(label) <= Len(db),
         NEW input, HoldsInput(db, label, input)
  PROVE  ReadFromDb(db, label, input)
<1> DEFINE S == RE!Octet
           h == Len(label)
           rest == RestOf(db, h)
           q == First(Marks(rest))
           len == Len(rest) - q
           w == h + (q - 1)
           front == SubSeq(db, 0 + 1, 0 + h)
           e == OaepDb(label, w, input)
<1>1. h \in Nat /\ Len(db) \in Nat /\ h <= Len(db)
  OBVIOUS
<1>2. rest \in Seq(S) /\ IsSlice(rest, db, h, Len(db) - h)
  BY <1>1, StringsEnd DEF RestOf
<1>3. SubSeq(db, 1, h) = label /\ Marks(rest) # {} /\ rest[q] = 1 /\ input = SubSeq(rest, q + 1, Len(rest))
  BY Zenon DEF HoldsInput, InputOf
<1> HIDE DEF rest
<1>4. Len(rest) \in Nat /\ Len(rest) = Len(db) - h /\ \A j \in 1 .. Len(rest) : rest[j] = db[h + j]
  BY <1>1, <1>2 DEF IsSlice
<1>5. q \in Marks(rest) /\ \A j \in Marks(rest) : q <= j
  <2>1. Marks(rest) \in SUBSET Nat
    BY <1>4 DEF Marks
  <2>. QED
    BY <1>3, <2>1, FirstIs
<1>6. q \in 1 .. Len(rest) /\ \A j \in 1 .. Len(rest) : rest[j] # 0 => q <= j
  BY <1>5 DEF Marks
<1> HIDE DEF q, h
<1>7. q \in Nat /\ 1 <= q /\ len \in Nat /\ w \in Nat /\ h <= w /\ Len(db) = (w + 1) + len
  BY <1>1, <1>4, <1>6
<1>8. input \in Seq(S) /\ IsSlice(input, rest, q, len)
  BY <1>2, <1>3, <1>6, <1>7, StringsEnd
<1>9. Len(input) = len /\ \A j \in 1 .. len : input[j] = rest[q + j]
  BY <1>8 DEF IsSlice
<1>10. \A j \in 1 .. h : db[j] = label[j]
  <2>1. front \in Seq(S) /\ IsSlice(front, db, 0, h)
    <3>1. 0 + h <= Len(db) /\ 0 \in Nat
      BY <1>1
    <3>. QED
      BY <1>1, <3>1, StringsCut
  <2>2. front = label
    BY <1>1, <1>3
  <2> HIDE DEF front
  <2>. QED
    BY <1>1, <2>1, <2>2 DEF IsSlice
<1> HIDE DEF w, len
<1>11. IsDb(e, label, w, input)
  BY <1>7, <1>8, DbIs
<1> HIDE DEF e
<1>12. /\ e \in Seq(S) /\ Len(e) = (w + 1) + len /\ e[w + 1] = 1
       /\ \A j \in 1 .. w : e[j] = IF j <= h THEN label[j] ELSE 0
       /\ \A j \in 1 .. len : e[(w + 1) + j] = input[j]
  BY <1>9, <1>11, Zenon DEF IsDb, h
<1>13. ASSUME NEW j \in 1 .. Len(db) PROVE e[j] = db[j]
  <2>0. w = h + (q - 1) /\ len = Len(rest) - q /\ Len(rest) = Len(db) - h
    BY <1>4 DEF w, len
  <2>1. CASE j <= h
    <3>1. j \in 1 .. h /\ j \in 1 .. w
      BY <1>1, <1>7, <2>1
    <3>. QED
      BY <1>10, <1>12, <2>1, <3>1
  <2>2. CASE ~(j <= h) /\ j <= w
    <3>0. /\ j \in Int /\ 1 <= j /\ j <= Len(db) /\ h < j /\ j <= w
          /\ h \in Int /\ q \in Int /\ Len(db) \in Int /\ Len(rest) \in Int
      BY <1>1, <1>4, <1>7, <2>2
    <3>1. j \in 1 .. w /\ j - h \in 1 .. Len(rest) /\ ~(q <= j - h) /\ h + (j - h) = j
      BY <2>0, <3>0
    <3>2. rest[j - h] = 0
      BY <1>6, <3>1
    <3>. QED
      BY <1>4, <1>12, <2>2, <3>1, <3>2
  <2>3. CASE j = w + 1
    <3>1. h + q = j
      BY <1>1, <1>7, <2>0, <2>3
    <3>. QED
      BY <1>3, <1>4, <1>6, <1>12, <2>3, <3>1
  <2>4. CASE j > w + 1
    <3>1. j - (w + 1) \in 1 .. len /\ (w + 1) + (j - (w + 1)) = j
      BY <1>1, <1>7, <2>4
    <3>2. q + (j - (w + 1)) \in 1 .. Len(rest) /\ h + (q + (j - (w + 1))) = j
      BY <1>1, <1>7, <2>0, <2>4
    <3>. QED
      BY <1>4, <1>9, <1>12, <3>1, <3>2
  <2>. QED
    BY <1>1, <1>7, <2>1, <2>2, <2>3, <2>4
<1>14. e = db
  <2>1. Len(e) = Len(db)
    BY <1>7, <1>12
  <2>. QED
    BY <1>12, <1>13, <2>1, SeqEqual DEF S
<1>15. Len(db) = (w + 1) + Len(input)
  BY <1>7, <1>9
<1>. QED
  BY <1>7, <1>8, <1>14, <1>15, Zenon DEF ReadFromDb, e, S, h

MaskedDb(seed, db, mgf) == RE!XorOctets(db, RE!Mgf1(seed, Len(db), mgf))
MaskedSeed(seed, masked, mgf) == RE!XorOctets(seed, RE!Mgf1(masked, Len(seed), mgf))
Sealed(seed, db, mgf) ==
  <<0>> \o MaskedSeed(seed, MaskedDb(seed, db, mgf), mgf) \o MaskedDb(seed, db, mgf)
BlockOf(hidden, masked) == <<0>> \o hidden \o masked
SeedOf(s, h, mgf) ==
  RE!XorOctets(SubSeq(s, 2, h + 1), RE!Mgf1(SubSeq(s, (h + 1) + 1, Len(s)), h, mgf))
DbOf(s, h, mgf) ==
  RE!XorOctets(SubSeq(s, (h + 1) + 1, Len(s)),
               RE!Mgf1(SeedOf(s, h, mgf), Len(SubSeq(s, (h + 1) + 1, Len(s))), mgf))

IsBlockOf(s, hidden, masked, h) ==
  /\ s \in Seq(RE!Octet) /\ Len(s) = (1 + h) + Len(masked) /\ s[1] = 0
  /\ SubSeq(s, 2, h + 1) = hidden /\ SubSeq(s, (h + 1) + 1, Len(s)) = masked

LEMMA BlockParts ==
  ASSUME RE!OctetsFit, NEW hidden \in Seq(RE!Octet), NEW masked \in Seq(RE!Octet), NEW s,
         s = BlockOf(hidden, masked), NEW h, h = Len(hidden)
  PROVE  IsBlockOf(s, hidden, masked, h)
<1> DEFINE S == RE!Octet
           z == <<0>>
           p == z \o hidden
           len == Len(masked)
           a == SubSeq(s, 1 + 1, 1 + h)
           b == SubSeq(s, (h + 1) + 1, Len(s))
<1>1. z \in Seq(S) /\ Len(z) = 1 /\ z[1] = 0 /\ h \in Nat /\ len \in Nat
  BY CallOctet
<1>2. s = p \o masked
  BY DEF BlockOf
<1> HIDE DEF z
<1>3. p \in Seq(S) /\ IsJoined(p, z, hidden)
  BY <1>1, StringsJoin
<1> HIDE DEF p
<1>4. s \in Seq(S) /\ IsJoined(s, p, masked)
  BY <1>2, <1>3, StringsJoin
<1> HIDE DEF S, len
<1>5. Len(p) = 1 + h /\ p[1] = 0 /\ \A j \in 1 .. h : p[1 + j] = hidden[j]
  BY <1>1, <1>3 DEF IsJoined
<1>6. Len(s) = (1 + h) + len /\ \A j \in 1 .. len : s[(1 + h) + j] = masked[j]
  BY <1>4, <1>5 DEF IsJoined, len
<1>7. \A j \in 1 .. 1 + h : s[j] = p[j]
  BY <1>4, <1>5 DEF IsJoined
<1>8. s[1] = 0 /\ \A j \in 1 .. h : s[1 + j] = hidden[j]
  BY <1>1, <1>5, <1>7
<1>9. a = hidden
  <2>1. 1 + h <= Len(s)
    BY <1>1, <1>6
  <2>2. a \in Seq(S) /\ IsSlice(a, s, 1, h)
    BY <1>1, <1>4, <2>1, StringsCut
  <2> HIDE DEF a
  <2>3. Len(a) = h /\ \A j \in 1 .. h : a[j] = hidden[j]
    BY <1>8, <2>2 DEF IsSlice
  <2>. QED
    BY <2>2, <2>3, SeqEqual DEF S
<1>10. b = masked
  <2>1. h + 1 \in Nat /\ h + 1 <= Len(s) /\ Len(s) - (h + 1) = len /\ h + 1 = 1 + h
    BY <1>1, <1>6
  <2>2. b \in Seq(S) /\ IsSlice(b, s, h + 1, len)
    BY <1>4, <2>1, StringsEnd
  <2> HIDE DEF b
  <2>3. Len(b) = len /\ \A j \in 1 .. len : b[j] = masked[j]
    BY <1>6, <2>1, <2>2 DEF IsSlice
  <2>. QED
    BY <2>2, <2>3, SeqEqual DEF S, len
<1>11. 1 + 1 = 2 /\ 1 + h = h + 1
  BY <1>1
<1>. QED
  BY <1>4, <1>6, <1>8, <1>9, <1>10, <1>11 DEF S, len, IsBlockOf

LEMMA MaskedTwice ==
  ASSUME RE!OctetsFit, RE!XorIsBitwise, RE!HashesToOctets, NEW mgf \in DOMAIN DigestLength,
         NEW x \in Seq(RE!Octet), NEW seed \in Seq(RE!Octet), NEW y,
         y = RE!XorOctets(x, RE!Mgf1(seed, Len(x), mgf))
  PROVE  /\ y \in Seq(RE!Octet) /\ Len(y) = Len(x)
         /\ RE!XorOctets(y, RE!Mgf1(seed, Len(x), mgf)) = x
<1> DEFINE mask == RE!Mgf1(seed, Len(x), mgf)
<1>1. Len(x) \in Nat
  OBVIOUS
<1>2. mask \in Seq(RE!Octet) /\ Len(x) = Len(mask)
  BY <1>1, MaskIs
<1> HIDE DEF mask
<1>3. y = RE!XorOctets(x, mask)
  BY DEF mask
<1>. QED
  BY <1>2, <1>3, XorIs DEF mask

LEMMA SealOpens ==
  ASSUME RE!OctetsFit, RE!XorIsBitwise, RE!HashesToOctets, NEW mgf \in DOMAIN DigestLength,
         NEW seed \in Seq(RE!Octet), NEW db \in Seq(RE!Octet), NEW h, h = Len(seed), NEW s,
         s = Sealed(seed, db, mgf)
  PROVE  /\ s \in Seq(RE!Octet) /\ Len(s) = (1 + h) + Len(db) /\ s[1] = 0
         /\ DbOf(s, h, mgf) = db
<1> DEFINE masked == MaskedDb(seed, db, mgf)
           hidden == MaskedSeed(seed, masked, mgf)
<1>1. /\ masked \in Seq(RE!Octet) /\ Len(masked) = Len(db)
      /\ RE!XorOctets(masked, RE!Mgf1(seed, Len(db), mgf)) = db
  BY MaskedTwice DEF MaskedDb
<1>2. s = BlockOf(hidden, masked)
  BY DEF Sealed, BlockOf
<1> HIDE DEF masked
<1>3. /\ hidden \in Seq(RE!Octet) /\ Len(hidden) = h
      /\ RE!XorOctets(hidden, RE!Mgf1(masked, h, mgf)) = seed
  BY <1>1, MaskedTwice DEF MaskedSeed
<1> HIDE DEF hidden
<1>4. /\ s \in Seq(RE!Octet) /\ Len(s) = (1 + h) + Len(masked) /\ s[1] = 0
      /\ SubSeq(s, 2, h + 1) = hidden /\ SubSeq(s, (h + 1) + 1, Len(s)) = masked
  <2>1. IsBlockOf(s, hidden, masked, h)
    BY <1>1, <1>2, <1>3, BlockParts
  <2>. QED
    BY <2>1, Zenon DEF IsBlockOf
<1>5. SeedOf(s, h, mgf) = seed
  BY <1>3, <1>4, Zenon DEF SeedOf
<1>6. DbOf(s, h, mgf) = RE!XorOctets(masked, RE!Mgf1(seed, Len(masked), mgf))
  BY <1>4, <1>5, Zenon DEF DbOf
<1>7. DbOf(s, h, mgf) = db
  BY <1>1, <1>6, Zenon
<1>. QED
  BY <1>1, <1>4, <1>7

LEMMA OpensSeal ==
  ASSUME RE!OctetsFit, RE!XorIsBitwise, RE!HashesToOctets, NEW mgf \in DOMAIN DigestLength,
         NEW s \in Seq(RE!Octet), NEW h \in Nat, 1 + h <= Len(s), s[1] = 0
  PROVE  /\ SeedOf(s, h, mgf) \in [1 .. h -> RE!Octet] /\ DbOf(s, h, mgf) \in Seq(RE!Octet)
         /\ Len(s) = (1 + h) + Len(DbOf(s, h, mgf))
         /\ Sealed(SeedOf(s, h, mgf), DbOf(s, h, mgf), mgf) = s
<1> DEFINE S == RE!Octet
           hidden == SubSeq(s, 1 + 1, 1 + h)
           masked == SubSeq(s, (h + 1) + 1, Len(s))
           seed == SeedOf(s, h, mgf)
           db == DbOf(s, h, mgf)
           len == Len(s) - (h + 1)
           e == BlockOf(hidden, masked)
<1>0. Len(s) \in Nat /\ h + 1 \in Nat /\ h + 1 <= Len(s) /\ 1 \in Nat /\ 1 + h = h + 1 /\ 1 + 1 = 2
  OBVIOUS
<1>1. hidden \in Seq(S) /\ IsSlice(hidden, s, 1, h)
  BY <1>0, StringsCut
<1>2. masked \in Seq(S) /\ IsSlice(masked, s, h + 1, len)
  BY <1>0, StringsEnd
<1>3. seed = RE!XorOctets(hidden, RE!Mgf1(masked, h, mgf))
  BY <1>0 DEF SeedOf
<1>4. db = RE!XorOctets(masked, RE!Mgf1(seed, Len(masked), mgf))
  BY DEF DbOf
<1> HIDE DEF hidden, masked, seed, db
<1>5. Len(hidden) = h /\ Len(masked) = len /\ len \in Nat
  BY <1>0, <1>1, <1>2 DEF IsSlice
<1>6. /\ seed \in Seq(S) /\ Len(seed) = h
      /\ RE!XorOctets(seed, RE!Mgf1(masked, h, mgf)) = hidden
  BY <1>1, <1>2, <1>3, <1>5, MaskedTwice
<1>7. /\ db \in Seq(S) /\ Len(db) = Len(masked)
      /\ RE!XorOctets(db, RE!Mgf1(seed, Len(masked), mgf)) = masked
  BY <1>2, <1>4, <1>6, MaskedTwice
<1>8. MaskedDb(seed, db, mgf) = masked
  BY <1>7, Zenon DEF MaskedDb
<1>9. MaskedSeed(seed, masked, mgf) = hidden
  BY <1>6, Zenon DEF MaskedSeed
<1>10. Sealed(seed, db, mgf) = e
  BY <1>8, <1>9, Zenon DEF Sealed, BlockOf
<1>11. /\ e \in Seq(S) /\ Len(e) = (1 + h) + len /\ e[1] = 0
       /\ SubSeq(e, 2, h + 1) = hidden /\ SubSeq(e, (h + 1) + 1, Len(e)) = masked
  <2>1. IsBlockOf(e, hidden, masked, h)
    BY <1>1, <1>2, <1>5, BlockParts
  <2>2. Len(masked) = len
    BY <1>5
  <2>. QED
    BY <2>1, <2>2, Zenon DEF IsBlockOf
<1> HIDE DEF e
<1>12. Len(e) = Len(s)
  BY <1>0, <1>11
<1>13. ASSUME NEW j \in 1 .. Len(s) PROVE e[j] = s[j]
  <2>1. IsSlice(hidden, e, 1, h)
    <3> DEFINE a == SubSeq(e, 1 + 1, 1 + h)
    <3>1. 1 + h <= Len(e)
      BY <1>0, <1>12
    <3>2. IsSlice(a, e, 1, h)
      BY <1>11, <3>1, StringsCut
    <3>3. a = hidden
      BY <1>0, <1>11
    <3> HIDE DEF a
    <3>. QED
      BY <3>2, <3>3
  <2>2. IsSlice(masked, e, h + 1, len)
    <3>1. h + 1 <= Len(e) /\ Len(e) - (h + 1) = len
      BY <1>0, <1>12
    <3>. QED
      BY <1>0, <1>11, <3>1, StringsEnd
  <2>3. CASE j = 1
    BY <1>11, <2>3
  <2>4. CASE j > 1 /\ j <= h + 1
    <3>1. j - 1 \in 1 .. h /\ 1 + (j - 1) = j
      BY <2>4
    <3>. QED
      BY <1>1, <2>1, <3>1 DEF IsSlice
  <2>5. CASE j > h + 1
    <3>1. j - (h + 1) \in 1 .. len /\ (h + 1) + (j - (h + 1)) = j
      BY <1>0, <2>5
    <3>. QED
      BY <1>2, <2>2, <3>1 DEF IsSlice
  <2>. QED
    BY <1>0, <2>3, <2>4, <2>5
<1>14. e = s
  BY <1>11, <1>12, <1>13, SeqEqual
<1>15. seed \in [1 .. h -> S]
  BY <1>6
<1>16. Len(s) = (1 + h) + Len(db)
  BY <1>0, <1>5, <1>7
<1>. QED
  BY <1>7, <1>10, <1>14, <1>15, <1>16 DEF seed, db

Rooms(input, size, label) ==
  label # << >> /\ Len(input) <= IF RE!OaepRoom(size, label) THEN size - 2 * Len(label) - 2 ELSE 0

LEMMA OaepPadIs ==
  ASSUME NEW input, NEW size, NEW label, NEW mgf, NEW seed, Len(input) \in Nat, Len(label) \in Nat,
         size \in Nat
  PROVE  /\ RE!OaepPad(input, size, label, mgf, seed).ok <=> Rooms(input, size, label) /\ failing # "random"
         /\ RE!OaepPad(input, size, label, mgf, seed).ok =>
              RE!OaepPad(input, size, label, mgf, seed) =
                RE!Ok(Sealed(seed, OaepDb(label, size - Len(label) - Len(input) - 2, input), mgf))
<1> DEFINE room == IF RE!OaepRoom(size, label) THEN size - 2 * Len(label) - 2 ELSE 0
           good == Len(input) <= room
           w == size - Len(label) - Len(input) - 2
           block == Sealed(seed, OaepDb(label, w, input), mgf)
<1>1. room \in Int
  BY DEF RE!OaepRoom
<1>2. Len(input) > room <=> ~good
  <2> HIDE DEF room
  <2>. QED
    BY <1>1
<1>3. Rooms(input, size, label) <=> label # << >> /\ good
  BY Zenon DEF Rooms
<1>4. RE!OaepPad(input, size, label, mgf, seed) =
        IF label = << >> \/ Len(input) > room THEN RE!Err("InputTooLong")
        ELSE IF failing = "random" THEN RE!Err("RandomnessUnavailable")
        ELSE RE!Ok(block)
  BY Zenon DEF RE!OaepPad, Sealed, OaepDb, MaskedDb, MaskedSeed
<1> HIDE DEF room, good, block
<1>5. /\ RE!OaepPad(input, size, label, mgf, seed).ok <=> label # << >> /\ good /\ failing # "random"
      /\ RE!OaepPad(input, size, label, mgf, seed).ok => RE!OaepPad(input, size, label, mgf, seed) = RE!Ok(block)
  BY <1>2, <1>4, AnswerForms, Zenon
<1>. QED
  BY <1>3, <1>5, Zenon DEF block

Opens(s, label, mgf) ==
  /\ 2 * Len(label) + 2 <= Len(s) /\ Len(label) # 0 /\ s[1] = 0
  /\ HoldsInput(DbOf(s, Len(label), mgf), label, InputOf(RestOf(DbOf(s, Len(label), mgf), Len(label))))

LEMMA OaepUnpadIs ==
  ASSUME NEW s, NEW label, NEW mgf, Len(s) \in Nat, Len(label) \in Nat
  PROVE  /\ RE!OaepUnpad(s, label, mgf).ok <=> Opens(s, label, mgf)
         /\ RE!OaepUnpad(s, label, mgf).ok =>
              RE!OaepUnpad(s, label, mgf) = RE!Ok(InputOf(RestOf(DbOf(s, Len(label), mgf), Len(label))))
<1> DEFINE h == Len(label)
           db == DbOf(s, h, mgf)
           rest == RestOf(db, h)
           q == First(Marks(rest))
<1>1. Len(s) < 2 * h + 2 <=> ~(2 * h + 2 <= Len(s))
  OBVIOUS
<1>2. RE!OaepUnpad(s, label, mgf) =
        IF Len(s) < 2 * h + 2 \/ h = 0 THEN RE!Err("OperationFailed")
        ELSE IF s[1] # 0 \/ SubSeq(db, 1, h) # label \/ Marks(rest) = {} THEN RE!Err("OperationFailed")
        ELSE IF rest[q] # 1 THEN RE!Err("OperationFailed")
        ELSE RE!Ok(InputOf(rest))
  BY Zenon DEF RE!OaepUnpad, RE!Behind, RE!Front, DbOf, SeedOf, RestOf, Marks, First, InputOf
<1>3. Opens(s, label, mgf) <=>
        /\ 2 * h + 2 <= Len(s) /\ h # 0 /\ s[1] = 0
        /\ SubSeq(db, 1, h) = label /\ Marks(rest) # {} /\ rest[q] = 1
  BY Zenon DEF Opens, HoldsInput
<1> HIDE DEF h, db, rest, q
<1>4. /\ RE!OaepUnpad(s, label, mgf).ok <=>
           /\ 2 * h + 2 <= Len(s) /\ h # 0 /\ s[1] = 0
           /\ SubSeq(db, 1, h) = label /\ Marks(rest) # {} /\ rest[q] = 1
      /\ RE!OaepUnpad(s, label, mgf).ok => RE!OaepUnpad(s, label, mgf) = RE!Ok(InputOf(rest))
  BY <1>1, <1>2, AnswerForms, Zenon
<1>. QED
  BY <1>3, <1>4, Zenon DEF h, db, rest

-----------------------------------------------------------------------------
(* PSS.                                                                    *)
CutsInto(c, s, t, S) ==
  /\ c \in Seq(S) /\ Len(c) = Len(s) + Len(t)
  /\ SubSeq(c, 1, Len(s)) = s /\ SubSeq(c, Len(s) + 1, Len(c)) = t
JoinsBack(s, i, S) ==
  /\ SubSeq(s, 1, i) \in Seq(S) /\ Len(SubSeq(s, 1, i)) = i
  /\ SubSeq(s, i + 1, Len(s)) \in Seq(S) /\ Len(SubSeq(s, i + 1, Len(s))) = Len(s) - i
  /\ s = SubSeq(s, 1, i) \o SubSeq(s, i + 1, Len(s))

LEMMA CutOfJoin ==
  ASSUME NEW S, NEW s \in Seq(S), NEW t \in Seq(S), NEW c, c = s \o t
  PROVE  CutsInto(c, s, t, S)
<1> DEFINE l == Len(s)
           m == Len(t)
           a == SubSeq(c, 0 + 1, 0 + l)
           b == SubSeq(c, l + 1, Len(c))
<1>1. l \in Nat /\ m \in Nat /\ c \in Seq(S) /\ IsJoined(c, s, t)
  BY StringsJoin
<1> HIDE DEF l, m
<1>2. /\ Len(c) = l + m /\ \A j \in 1 .. l : c[j] = s[j]
      /\ \A j \in 1 .. m : c[l + j] = t[j]
  BY <1>1 DEF IsJoined, l, m
<1>3. a = s
  <2>1. 0 + l <= Len(c) /\ 0 \in Nat
    BY <1>1, <1>2
  <2>2. a \in Seq(S) /\ IsSlice(a, c, 0, l)
    BY <1>1, <2>1, StringsCut
  <2>3. \A j \in 1 .. l : 0 + j = j
    BY <1>1
  <2> HIDE DEF a
  <2>4. Len(a) = l /\ \A j \in 1 .. l : a[j] = s[j]
    BY <1>2, <2>2, <2>3 DEF IsSlice
  <2>. QED
    BY <2>2, <2>4, SeqEqual DEF l
<1>4. b = t
  <2>1. l <= Len(c) /\ Len(c) - l = m
    BY <1>1, <1>2
  <2>2. b \in Seq(S) /\ IsSlice(b, c, l, m)
    BY <1>1, <2>1, StringsEnd
  <2> HIDE DEF b
  <2>4. Len(b) = m /\ \A j \in 1 .. m : b[j] = t[j]
    BY <1>2, <2>2 DEF IsSlice
  <2>. QED
    BY <2>2, <2>4, SeqEqual DEF m
<1>5. a = SubSeq(c, 1, l)
  <2>1. 0 + 1 = 1 /\ 0 + l = l
    BY <1>1
  <2>. QED
    BY <2>1, Zenon
<1>. QED
  BY <1>1, <1>2, <1>3, <1>4, <1>5, Zenon DEF CutsInto, l, m

LEMMA JoinOfCut ==
  ASSUME NEW S, NEW s \in Seq(S), NEW i \in Nat, i <= Len(s)
  PROVE  JoinsBack(s, i, S)
<1> DEFINE a == SubSeq(s, 0 + 1, 0 + i)
           m == Len(s) - i
           b == SubSeq(s, i + 1, Len(s))
           c == a \o b
<1>1. Len(s) \in Nat /\ m \in Nat /\ i + m = Len(s) /\ 0 + i <= Len(s) /\ a = SubSeq(s, 1, i)
  OBVIOUS
<1>2. a \in Seq(S) /\ IsSlice(a, s, 0, i)
  BY <1>1, StringsCut
<1>3. b \in Seq(S) /\ IsSlice(b, s, i, m)
  BY StringsEnd
<1> HIDE DEF a, b, m
<1>4. c \in Seq(S) /\ IsJoined(c, a, b)
  BY <1>2, <1>3, StringsJoin
<1> HIDE DEF c
<1>5. Len(a) = i /\ Len(b) = m /\ \A j \in 1 .. i : a[j] = s[0 + j]
  BY <1>2, <1>3 DEF IsSlice
<1>6. /\ Len(c) = i + m /\ \A j \in 1 .. i : c[j] = a[j]
      /\ \A j \in 1 .. m : c[i + j] = s[i + j]
  BY <1>3, <1>4, <1>5 DEF IsJoined, IsSlice
<1>7. ASSUME NEW j \in 1 .. Len(s) PROVE c[j] = s[j]
  <2>1. CASE j <= i
    <3>1. j \in 1 .. i /\ 0 + j = j
      BY <2>1
    <3>. QED
      BY <1>5, <1>6, <3>1
  <2>2. CASE ~(j <= i)
    <3>1. j - i \in 1 .. m /\ i + (j - i) = j
      BY <1>1, <2>2
    <3>. QED
      BY <1>6, <3>1
  <2>. QED
    BY <2>1, <2>2
<1>8. c = s
  <2>1. Len(c) = Len(s)
    BY <1>1, <1>6
  <2>. QED
    BY <1>4, <1>7, <2>1, SeqEqual
<1>. QED
  BY <1>1, <1>2, <1>3, <1>5, <1>8, Zenon DEF JoinsBack, b, c, m

LEMMA PssSizes ==
  ASSUME RE!OctetsFit, NEW k, IsKey(k), NEW E, E = RE!EmLength(RE!Bits(k.n)),
         NEW F, F = RE!FirstOctets(RE!Bits(k.n))
  PROVE  /\ E \in Nat /\ E <= RE!Size(k) /\ F \in Nat /\ F >= 2
         /\ \E x \in 0 .. OctetBits : F = TwoTo[x]
<1> DEFINE bits == RE!Bits(k.n)
           size == RE!Size(k)
           b == OctetBits
           x == b - (b * E - (bits - 1))
<1>1. bits \in Nat \ {0} /\ b \in Nat \ {0} /\ bits - 1 \in Nat
  <2>1. k.n \in Nat \ {0}
    BY Zenon DEF IsKey
  <2>2. bits \in Nat \ {0}
    BY <2>1, BitsFit, Zenon
  <2>. QED
    BY <2>2, CallOctet
<1>2. size = RE!CeilDiv(bits, b) /\ E = RE!CeilDiv(bits - 1, b) /\ F = TwoTo[x]
  BY CallPowers, Zenon DEF RE!Size, RE!ByteLength, RE!EmLength, RE!FirstOctets
<1> HIDE DEF bits, size, b
<1>3. size \in Nat /\ bits <= b * size
  BY <1>1, <1>2, Ceiling
<1>4. E \in Nat /\ bits - 1 <= b * E /\ b * E <= (bits - 1) + (b - 1)
  BY <1>1, <1>2, Ceiling
<1>5. E <= size
  <2> SUFFICES ASSUME ~(E <= size) PROVE FALSE
    OBVIOUS
  <2>1. size + 1 <= E
    BY <1>3, <1>4
  <2>2. b * (size + 1) <= b * E /\ b * (size + 1) = b * size + b
    BY <1>1, <1>3, <1>4, <2>1
  <2> DEFINE u == b * E
             t == b * size
  <2>3. u \in Nat /\ t \in Nat /\ t + b <= u /\ bits <= t /\ u <= (bits - 1) + (b - 1)
    BY <1>1, <1>3, <1>4, <2>2
  <2> HIDE DEF u, t
  <2>. QED
    BY <1>1, <2>3
<1>6. x \in 1 .. b
  <2> DEFINE u == b * E
  <2>1. u \in Nat /\ bits - 1 <= u /\ u <= (bits - 1) + (b - 1)
    BY <1>1, <1>4
  <2> HIDE DEF u
  <2>2. b - (u - (bits - 1)) \in 1 .. b
    BY <1>1, <2>1
  <2>. QED
    BY <2>2 DEF u
<1> HIDE DEF x
<1>7. TwoTo[x] \in Nat /\ TwoTo[x] >= 2 /\ x \in 0 .. b
  <2>1. x \in Nat \ {0} /\ x - 1 \in Nat
    BY <1>1, <1>6
  <2>2. TwoTo[x] = 2 * TwoTo[x - 1] /\ TwoTo[x - 1] \in Nat \ {0}
    BY <2>1, PowersOfTwo
  <2>. QED
    BY <1>6, <2>2
<1>. QED
  BY <1>2, <1>4, <1>5, <1>7 DEF size, b

LEMMA Remainders ==
  ASSUME NEW x \in Nat, NEW p \in Nat \ {0}
  PROVE  /\ x % p \in Nat /\ x % p < p /\ x % p <= x /\ (x < p => x % p = x)
         /\ (x % p) % p = x % p
<1>1. x % p \in 0 .. p - 1 /\ x \div p \in Nat /\ x = p * (x \div p) + (x % p)
  BY QuotientIsNat
<1> DEFINE q == x \div p
           r == x % p
<1> HIDE DEF q, r
<1>2. q \in Nat /\ r \in Nat /\ r < p /\ x = p * q + r
  BY <1>1 DEF q, r
<1>3. p * q \in Nat /\ (q # 0 => p * q >= p)
  BY <1>2
<1>4. \A y \in Nat : y < p => y % p = y
  <2> SUFFICES ASSUME NEW y \in Nat, y < p PROVE y % p = y
    OBVIOUS
  <2>1. 0 * p + y \in Nat /\ (0 * p + y) % p = y
    BY OneMoreDigit
  <2>2. 0 * p + y = y
    OBVIOUS
  <2>. QED
    BY <2>1, <2>2
<1>5. r <= x
  BY <1>2, <1>3
<1>. QED
  BY <1>2, <1>4, <1>5 DEF r

LEMMA OctetsSplit ==
  ASSUME RE!XorIsBitwise, NEW u \in RE!Octet, NEW v \in RE!Octet, NEW k \in 0 .. OctetBits
  PROVE  OctetXor[<<u, v>>] % RE!TwoTo[k] = OctetXor[<<u % RE!TwoTo[k], v % RE!TwoTo[k]>>]
<1>1. \A x, y \in RE!Octet : \A i \in 0 .. OctetBits :
        OctetXor[<<x, y>>] % RE!TwoTo[i] = OctetXor[<<x % RE!TwoTo[i], y % RE!TwoTo[i]>>]
  BY Zenon DEF RE!XorIsBitwise
<1>2. \A i \in 0 .. OctetBits :
        OctetXor[<<u, v>>] % RE!TwoTo[i] = OctetXor[<<u % RE!TwoTo[i], v % RE!TwoTo[i]>>]
  BY <1>1, Zenon
<1>. QED
  BY <1>2, Zenon

LEMMA MaskedFirst ==
  ASSUME RE!OctetsFit, RE!XorIsBitwise, NEW x \in 0 .. OctetBits, NEW F, F = TwoTo[x],
         NEW a \in RE!Octet, NEW m \in RE!Octet
  PROVE  /\ OctetXor[<<a, m>>] % F \in RE!Octet
         /\ OctetXor[<<OctetXor[<<a, m>>] % F, m>>] % F = a % F
<1> DEFINE y == OctetXor[<<a, m>>]
           r == y % F
           n == m % F
<1>1. y \in RE!Octet /\ OctetXor[<<y, m>>] = a
  BY Zenon DEF RE!XorIsBitwise
<1>2. \A u, v \in RE!Octet : OctetXor[<<u, v>>] % F = OctetXor[<<u % F, v % F>>]
  <2> SUFFICES ASSUME NEW u \in RE!Octet, NEW v \in RE!Octet
               PROVE  OctetXor[<<u, v>>] % F = OctetXor[<<u % F, v % F>>]
    OBVIOUS
  <2>1. OctetXor[<<u, v>>] % RE!TwoTo[x] = OctetXor[<<u % RE!TwoTo[x], v % RE!TwoTo[x]>>]
    BY OctetsSplit, Zenon
  <2>2. RE!TwoTo[x] = F
    BY CallPowers, Zenon
  <2>. QED
    BY <2>1, <2>2, Zenon
<1>3. F \in Nat \ {0} /\ RE!Octet = 0 .. TwoTo[OctetBits] - 1 /\ TwoTo[OctetBits] \in Nat
  <2>1. x \in Nat
    BY CallOctet
  <2>. QED
    BY <2>1, PowersOfTwo, CallOctet
<1> HIDE DEF y
<1>4. y \in Nat
  BY <1>1, <1>3
<1>5. r \in Nat /\ r <= y /\ r % F = r
  BY <1>3, <1>4, Remainders
<1>6. r \in RE!Octet
  BY <1>1, <1>3, <1>4, <1>5
<1> HIDE DEF r, n
<1>7. OctetXor[<<r, m>>] % F = OctetXor[<<r % F, m % F>>]
  BY <1>2, <1>6, Zenon
<1>8. OctetXor[<<y, m>>] % F = OctetXor[<<y % F, m % F>>]
  BY <1>1, <1>2, Zenon
<1>9. r = y % F
  BY DEF r
<1>10. OctetXor[<<r, m>>] % F = a % F
  BY <1>1, <1>5, <1>7, <1>8, <1>9, Zenon
<1>. QED
  BY <1>6, <1>10 DEF r, y

(* The masked data block with its unused bits cleared.                     *)
Trimmed(x, mask, F) == [RE!XorOctets(x, mask) EXCEPT ![1] = @ % F]

LEMMA TrimmedIs ==
  ASSUME RE!OctetsFit, RE!XorIsBitwise, NEW i \in 0 .. OctetBits, NEW F, F = TwoTo[i],
         NEW x \in Seq(RE!Octet), NEW mask \in Seq(RE!Octet), Len(x) = Len(mask), Len(x) >= 1
  PROVE  /\ Trimmed(x, mask, F) \in Seq(RE!Octet) /\ Len(Trimmed(x, mask, F)) = Len(x)
         /\ Trimmed(x, mask, F)[1] = OctetXor[<<x[1], mask[1]>>] % F
         /\ \A j \in 2 .. Len(x) : Trimmed(x, mask, F)[j] = OctetXor[<<x[j], mask[j]>>]
<1> DEFINE y == RE!XorOctets(x, mask)
           t == [y EXCEPT ![1] = @ % F]
           len == Len(x)
<1>1. /\ y \in Seq(RE!Octet) /\ Len(y) = len
      /\ \A j \in 1 .. len : y[j] = OctetXor[<<x[j], mask[j]>>]
  BY XorIs
<1>2. len \in Nat /\ 1 \in 1 .. len /\ x[1] \in RE!Octet /\ mask[1] \in RE!Octet
  <2>1. len \in Nat /\ 1 \in 1 .. len /\ 1 \in 1 .. Len(mask)
    BY LenProperties
  <2>. QED
    BY <2>1, ElementOfSeq
<1>3. OctetXor[<<x[1], mask[1]>>] % F \in RE!Octet
  BY <1>2, MaskedFirst
<1>4. Trimmed(x, mask, F) = t
  BY DEF Trimmed
<1> HIDE DEF y, len
<1>5. y \in [1 .. len -> RE!Octet]
  BY <1>1
<1>6. y[1] % F \in RE!Octet
  BY <1>1, <1>2, <1>3
<1>7. /\ t \in [1 .. len -> RE!Octet] /\ t[1] = y[1] % F
      /\ \A j \in 1 .. len : j # 1 => t[j] = y[j]
  BY <1>2, <1>5, <1>6
<1> HIDE DEF t
<1>8. t \in Seq(RE!Octet) /\ Len(t) = len
  BY <1>2, <1>7
<1>9. \A j \in 2 .. len : j \in 1 .. len /\ j # 1
  BY <1>2
<1>. QED
  BY <1>1, <1>2, <1>4, <1>7, <1>8, <1>9 DEF len

LEMMA TrimmedTwice ==
  ASSUME RE!OctetsFit, RE!XorIsBitwise, NEW i \in 0 .. OctetBits, NEW F, F = TwoTo[i],
         NEW x \in Seq(RE!Octet), NEW mask \in Seq(RE!Octet), Len(x) = Len(mask), Len(x) >= 1,
         x[1] < F, NEW y, y = Trimmed(x, mask, F)
  PROVE  /\ y \in Seq(RE!Octet) /\ Len(y) = Len(x) /\ y[1] < F
         /\ Trimmed(y, mask, F) = x
<1> DEFINE z == Trimmed(y, mask, F)
<1>1. /\ y \in Seq(RE!Octet) /\ Len(y) = Len(x)
      /\ y[1] = OctetXor[<<x[1], mask[1]>>] % F
      /\ \A j \in 2 .. Len(x) : y[j] = OctetXor[<<x[j], mask[j]>>]
  BY TrimmedIs
<1>2. /\ z \in Seq(RE!Octet) /\ Len(z) = Len(x)
      /\ z[1] = OctetXor[<<y[1], mask[1]>>] % F
      /\ \A j \in 2 .. Len(x) : z[j] = OctetXor[<<y[j], mask[j]>>]
  BY <1>1, TrimmedIs
<1> HIDE DEF z
<1>3. Len(x) \in Nat /\ \A j \in 1 .. Len(x) : x[j] \in RE!Octet /\ mask[j] \in RE!Octet
  BY LenProperties, ElementOfSeq
<1>4. F \in Nat \ {0} /\ RE!Octet = 0 .. TwoTo[OctetBits] - 1 /\ TwoTo[OctetBits] \in Nat
  <2>1. i \in Nat
    BY CallOctet
  <2>. QED
    BY <2>1, PowersOfTwo, CallOctet
<1>5. x[1] \in RE!Octet /\ mask[1] \in RE!Octet
  BY <1>3
<1>6. z[1] = x[1] % F
  BY <1>1, <1>2, <1>5, MaskedFirst
<1>7. x[1] \in Nat
  BY <1>4, <1>5
<1>8. x[1] % F = x[1]
  BY <1>4, <1>7, Remainders
<1>9. y[1] < F
  <2>1. OctetXor[<<x[1], mask[1]>>] \in RE!Octet
    BY <1>5, Zenon DEF RE!XorIsBitwise
  <2>2. OctetXor[<<x[1], mask[1]>>] \in Nat
    BY <1>4, <2>1
  <2> DEFINE v == OctetXor[<<x[1], mask[1]>>]
  <2> HIDE DEF v
  <2>3. v \in Nat => v % F < F
    BY <1>4, Remainders
  <2>. QED
    BY <1>1, <2>2, <2>3 DEF v
<1>10. ASSUME NEW j \in 1 .. Len(x) PROVE z[j] = x[j]
  <2>1. CASE j = 1
    BY <1>6, <1>8, <2>1
  <2>2. CASE j # 1
    <3>1. j \in 2 .. Len(x)
      BY <1>3, <2>2
    <3>2. OctetXor[<<OctetXor[<<x[j], mask[j]>>], mask[j]>>] = x[j]
      BY <1>3, Zenon DEF RE!XorIsBitwise
    <3>. QED
      BY <1>1, <1>2, <3>1, <3>2, Zenon
  <2>. QED
    BY <2>1, <2>2
<1>11. z = x
  BY <1>2, <1>10, SeqEqual
<1>. QED
  BY <1>1, <1>9, <1>11 DEF z

(* A PSS encoding: masked data block, hash and last octet.                 *)
IsEm(em, m, h, e) ==
  /\ Len(em) = Len(m) + Len(h) + 1 /\ em[Len(em)] = e
  /\ SubSeq(em, 1, Len(m)) = m /\ SubSeq(em, Len(m) + 1, Len(m) + Len(h)) = h
  /\ Len(m) >= 1 => em[1] = m[1]

LEMMA EmParts ==
  ASSUME NEW S, NEW m \in Seq(S), NEW h \in Seq(S), NEW e \in S, NEW em, em = (m \o h) \o <<e>>
  PROVE  em \in Seq(S) /\ IsEm(em, m, h, e)
<1> DEFINE c == m \o h
           t == <<e>>
           i == Len(m)
           l == Len(h)
           a == SubSeq(em, 0 + 1, 0 + i)
           b == SubSeq(em, i + 1, i + l)
<1>1. c \in Seq(S) /\ IsJoined(c, m, h) /\ i \in Nat /\ l \in Nat
  BY StringsJoin
<1>2. t \in Seq(S) /\ Len(t) = 1 /\ t[1] = e
  OBVIOUS
<1> HIDE DEF c, t
<1>3. em = c \o t
  BY DEF c, t
<1>4. em \in Seq(S) /\ IsJoined(em, c, t)
  BY <1>1, <1>2, <1>3, StringsJoin
<1> HIDE DEF i, l
<1>5. /\ Len(c) = i + l /\ \A j \in 1 .. i : c[j] = m[j]
      /\ \A j \in 1 .. l : c[i + j] = h[j]
  BY <1>1 DEF IsJoined, i, l
<1>6. /\ Len(em) = (i + l) + 1 /\ \A j \in 1 .. i + l : em[j] = c[j]
      /\ em[(i + l) + 1] = e
  <2>1. 1 \in 1 .. Len(t)
    BY <1>2
  <2>. QED
    BY <1>2, <1>4, <1>5, <2>1 DEF IsJoined
<1>7. a = m
  <2>1. 0 + i <= Len(em) /\ 0 \in Nat
    BY <1>1, <1>6
  <2>2. a \in Seq(S) /\ IsSlice(a, em, 0, i)
    BY <1>1, <1>4, <2>1, StringsCut
  <2>3. \A j \in 1 .. i : 0 + j = j /\ j \in 1 .. i + l
    BY <1>1
  <2> HIDE DEF a
  <2>4. Len(a) = i /\ \A j \in 1 .. i : a[j] = em[0 + j]
    BY <2>2 DEF IsSlice
  <2>5. \A j \in 1 .. i : a[j] = m[j]
    <3> SUFFICES ASSUME NEW j \in 1 .. i PROVE a[j] = m[j]
      OBVIOUS
    <3>1. 0 + j = j /\ j \in 1 .. i + l
      BY <2>3
    <3>2. a[j] = em[j]
      BY <2>4, <3>1
    <3>3. em[j] = c[j] /\ c[j] = m[j]
      BY <1>5, <1>6, <3>1
    <3>. QED
      BY <3>2, <3>3
  <2>. QED
    BY <2>2, <2>4, <2>5, SeqEqual DEF i
<1>8. b = h
  <2>1. i + l <= Len(em)
    BY <1>1, <1>6
  <2>2. b \in Seq(S) /\ IsSlice(b, em, i, l)
    BY <1>1, <1>4, <2>1, StringsCut
  <2>3. \A j \in 1 .. l : i + j \in 1 .. i + l
    BY <1>1
  <2> HIDE DEF b
  <2>4. Len(b) = l /\ \A j \in 1 .. l : b[j] = h[j]
    BY <1>5, <1>6, <2>2, <2>3 DEF IsSlice
  <2>. QED
    BY <2>2, <2>4, SeqEqual DEF l
<1>9. a = SubSeq(em, 1, i)
  <2>1. 0 + 1 = 1 /\ 0 + i = i
    BY <1>1
  <2>. QED
    BY <2>1, Zenon
<1>10. i >= 1 => em[1] = m[1]
  <2>1. i >= 1 => 1 \in 1 .. i /\ 1 \in 1 .. i + l
    BY <1>1
  <2>. QED
    BY <1>5, <1>6, <2>1
<1> HIDE DEF a, b
<1>11. Len(em) = Len(m) + Len(h) + 1 /\ em[Len(em)] = e
  BY <1>1, <1>6 DEF i, l
<1>12. SubSeq(em, 1, Len(m)) = m /\ SubSeq(em, Len(m) + 1, Len(m) + Len(h)) = h
  BY <1>7, <1>8, <1>9, Zenon DEF b, i, l
<1>. QED
  BY <1>4, <1>10, <1>11, <1>12, Zenon DEF IsEm, i

EmCut(em, m, h, i, l, S) ==
  /\ m \in Seq(S) /\ Len(m) = i /\ h \in Seq(S) /\ Len(h) = l
  /\ em = (m \o h) \o <<em[Len(em)]>>

LEMMA PartsEm ==
  ASSUME NEW S, NEW em \in Seq(S), NEW i \in Nat, NEW l \in Nat, Len(em) = i + l + 1,
         NEW m, m = SubSeq(em, 1, i), NEW h, h = SubSeq(em, i + 1, i + l)
  PROVE  EmCut(em, m, h, i, l, S)
<1> DEFINE e == em[Len(em)]
           t == <<e>>
           c == m \o h
           d == c \o t
<1>1. m \in Seq(S) /\ IsSlice(m, em, 0, i)
  <2>1. 0 + i <= Len(em) /\ 0 \in Nat /\ 0 + 1 = 1 /\ 0 + i = i
    OBVIOUS
  <2>2. m = SubSeq(em, 0 + 1, 0 + i)
    BY <2>1, Zenon
  <2>. QED
    BY <2>1, <2>2, StringsCut
<1>2. h \in Seq(S) /\ IsSlice(h, em, i, l)
  <2>1. i + l <= Len(em)
    OBVIOUS
  <2>. QED
    BY <2>1, StringsCut
<1>3. e \in S
  <2>1. Len(em) \in 1 .. Len(em)
    OBVIOUS
  <2>. QED
    BY <2>1, ElementOfSeq
<1>4. t \in Seq(S) /\ Len(t) = 1 /\ t[1] = e
  BY <1>3
<1> HIDE DEF t, e
<1>5. c \in Seq(S) /\ IsJoined(c, m, h)
  BY <1>1, <1>2, StringsJoin
<1> HIDE DEF c
<1>6. d \in Seq(S) /\ IsJoined(d, c, t)
  BY <1>4, <1>5, StringsJoin
<1> HIDE DEF d
<1>7. /\ Len(m) = i /\ Len(h) = l /\ \A j \in 1 .. i : m[j] = em[j]
      /\ \A j \in 1 .. l : h[j] = em[i + j]
  <2>1. \A j \in 1 .. i : 0 + j = j
    OBVIOUS
  <2>. QED
    BY <1>1, <1>2, <2>1 DEF IsSlice
<1>8. /\ Len(c) = i + l /\ \A j \in 1 .. i : c[j] = em[j]
      /\ \A j \in 1 .. l : c[i + j] = em[i + j]
  BY <1>5, <1>7 DEF IsJoined
<1>9. Len(d) = (i + l) + 1 /\ d[(i + l) + 1] = e /\ \A j \in 1 .. i + l : d[j] = c[j]
  <2>1. 1 \in 1 .. Len(t)
    BY <1>4
  <2>. QED
    BY <1>4, <1>6, <1>8, <2>1 DEF IsJoined
<1>10. ASSUME NEW j \in 1 .. Len(em) PROVE d[j] = em[j]
  <2>1. CASE j <= i
    <3>1. j \in 1 .. i /\ j \in 1 .. i + l
      BY <2>1
    <3>. QED
      BY <1>8, <1>9, <3>1
  <2>2. CASE ~(j <= i) /\ j <= i + l
    <3>1. j - i \in 1 .. l /\ i + (j - i) = j /\ j \in 1 .. i + l
      BY <2>2
    <3>. QED
      BY <1>8, <1>9, <3>1
  <2>3. CASE ~(j <= i + l)
    <3>1. j = (i + l) + 1 /\ j = Len(em)
      BY <2>3
    <3>. QED
      BY <1>9, <3>1 DEF e
  <2>. QED
    BY <2>1, <2>2, <2>3
<1>11. d = em
  <2>1. Len(d) = Len(em)
    BY <1>9
  <2>. QED
    BY <1>6, <1>10, <2>1, SeqEqual
<1>. QED
  BY <1>1, <1>2, <1>7, <1>11, Zenon DEF EmCut, d, c, t, e

(* The data block of PSS: zeros, a one and the salt.                       *)
PssHead(z) == RE!Fill(z, 0) \o <<1>>
PssDb(z, salt) == PssHead(z) \o salt

LEMMA PssHeadIs ==
  ASSUME RE!OctetsFit, NEW z \in Nat
  PROVE  PssHead(z) \in Seq(RE!Octet) /\ Len(PssHead(z)) = z + 1 /\ PssHead(z)[1] \in {0, 1}
<1> DEFINE f == RE!Fill(z, 0)
           t == <<1>>
           c == f \o t
           S == RE!Octet
<1>1. f \in Seq(S) /\ Len(f) = z /\ \A j \in 1 .. z : f[j] = 0
  BY CallOctet DEF RE!Fill
<1>2. t \in Seq(S) /\ Len(t) = 1 /\ t[1] = 1
  BY CallOctet
<1>3. PssHead(z) = c
  BY Zenon DEF PssHead
<1> HIDE DEF f, t, S
<1>4. c \in Seq(S) /\ IsJoined(c, f, t)
  BY <1>1, <1>2, StringsJoin
<1> HIDE DEF c
<1>5. Len(c) = z + 1 /\ c[z + 1] = 1 /\ \A j \in 1 .. z : c[j] = 0
  <2>1. 1 \in 1 .. Len(t)
    BY <1>2
  <2>. QED
    BY <1>1, <1>2, <1>4, <2>1 DEF IsJoined
<1>6. c[1] \in {0, 1}
  <2>1. CASE z = 0
    BY <1>5, <2>1
  <2>2. CASE z # 0
    <3>1. 1 \in 1 .. z
      BY <2>2
    <3>. QED
      BY <1>5, <3>1
  <2>. QED
    BY <2>1, <2>2
<1>. QED
  BY <1>3, <1>4, <1>5, <1>6, Zenon DEF S

LEMMA PssDbIs ==
  ASSUME RE!OctetsFit, NEW z \in Nat, NEW salt \in Seq(RE!Octet), NEW db, db = PssDb(z, salt)
  PROVE  /\ db \in Seq(RE!Octet) /\ Len(db) = (z + 1) + Len(salt) /\ db[1] \in {0, 1}
         /\ SubSeq(db, 1, z + 1) = PssHead(z) /\ SubSeq(db, (z + 1) + 1, Len(db)) = salt
<1> DEFINE c == PssHead(z)
           S == RE!Octet
<1>1. c \in Seq(S) /\ Len(c) = z + 1 /\ c[1] \in {0, 1}
  BY PssHeadIs
<1>2. db = c \o salt
  BY Zenon DEF PssDb
<1> HIDE DEF c, S
<1>3. salt \in Seq(S)
  BY DEF S
<1>4. /\ db \in Seq(S) /\ Len(db) = Len(c) + Len(salt)
      /\ SubSeq(db, 1, Len(c)) = c /\ SubSeq(db, Len(c) + 1, Len(db)) = salt
  <2>1. CutsInto(db, c, salt, S)
    BY <1>1, <1>2, <1>3, CutOfJoin
  <2>. QED
    BY <2>1, Zenon DEF CutsInto
<1>5. db[1] = c[1]
  <2>1. IsJoined(db, c, salt) /\ 1 \in 1 .. Len(c)
    BY <1>1, <1>2, <1>3, StringsJoin
  <2>. QED
    BY <2>1 DEF IsJoined
<1>. QED
  BY <1>1, <1>4, <1>5, Zenon DEF c, S

LEMMA DbIsPss ==
  ASSUME RE!OctetsFit, NEW z \in Nat, NEW db \in Seq(RE!Octet), z + 1 <= Len(db),
         SubSeq(db, 1, z + 1) = PssHead(z),
         NEW salt, salt = SubSeq(db, (z + 1) + 1, Len(db))
  PROVE  /\ salt \in Seq(RE!Octet) /\ Len(salt) = Len(db) - (z + 1)
         /\ db = PssDb(z, salt)
<1> DEFINE S == RE!Octet
           i == z + 1
<1>1. i \in Nat /\ i <= Len(db) /\ db \in Seq(S)
  OBVIOUS
<1> HIDE DEF S, i
<1>2. /\ SubSeq(db, i + 1, Len(db)) \in Seq(S) /\ Len(SubSeq(db, i + 1, Len(db))) = Len(db) - i
      /\ db = SubSeq(db, 1, i) \o SubSeq(db, i + 1, Len(db))
  <2>1. JoinsBack(db, i, S)
    BY <1>1, JoinOfCut
  <2>. QED
    BY <2>1, Zenon DEF JoinsBack
<1>. QED
  BY <1>2, Zenon DEF PssDb, S, i


PssCall(p, digest) ==
  /\ p.hash \in DOMAIN DigestLength /\ p.mgf \in DOMAIN DigestLength
  /\ p.salt_length \in Nat /\ digest \in Seq(RE!Octet)
PssEm(p, digest, z, F, salt) ==
  (Trimmed(PssDb(z, salt), RE!Mgf1(RE!PssHash(p, digest, salt), Len(PssDb(z, salt)), p.mgf), F)
     \o RE!PssHash(p, digest, salt)) \o <<LastOctet>>
EmHash(em, p, D) == SubSeq(em, D + 1, D + DigestLength[p.hash])
EmDb(em, p, D, F) == Trimmed(SubSeq(em, 1, D), RE!Mgf1(EmHash(em, p, D), D, p.mgf), F)
EmSized(em, p, D) == Len(em) = D + DigestLength[p.hash] + 1
EmAccepted(em, p, digest, z, D, F) ==
  /\ em[Len(em)] = LastOctet /\ em[1] < F
  /\ SubSeq(EmDb(em, p, D, F), 1, z + 1) = PssHead(z)
  /\ RE!PssHash(p, digest, SubSeq(EmDb(em, p, D, F), (z + 1) + 1, Len(EmDb(em, p, D, F))))
       = EmHash(em, p, D)

LEMMA PssHashIs ==
  ASSUME RE!OctetsFit, RE!HashesToOctets, NEW p, NEW digest, PssCall(p, digest),
         NEW salt \in Seq(RE!Octet)
  PROVE  /\ RE!PssHash(p, digest, salt) \in Seq(RE!Octet)
         /\ Len(RE!PssHash(p, digest, salt)) = DigestLength[p.hash]
<1> DEFINE f == RE!Fill(8, 0)
           S == RE!Octet
<1>1. f \in Seq(S) /\ digest \in Seq(S) /\ salt \in Seq(S) /\ p.hash \in DOMAIN DigestLength
  <2>1. f \in Seq(S)
    BY CallOctet DEF RE!Fill
  <2>. QED
    BY <2>1, Zenon DEF PssCall
<1>2. RE!PssHash(p, digest, salt) = DigestOf(p.hash, f \o digest \o salt)
  BY Zenon DEF RE!PssHash
<1> HIDE DEF f
<1>3. f \o digest \o salt \in Seq(S)
  BY <1>1
<1> DEFINE t == f \o digest \o salt
<1> HIDE DEF t
<1>4. t \in Seq(S)
  BY <1>3 DEF t
<1>5. DigestOf(p.hash, t) \in Seq(S) /\ Len(DigestOf(p.hash, t)) = DigestLength[p.hash]
  BY <1>1, <1>4, DigestIs
<1>. QED
  BY <1>2, <1>5, Zenon DEF t

LEMMA PssSealed ==
  ASSUME RE!OctetsFit, RE!XorIsBitwise, RE!HashesToOctets, NEW p, NEW digest, PssCall(p, digest),
         NEW salt \in Seq(RE!Octet), NEW z \in Nat, NEW i \in 0 .. OctetBits,
         NEW F, F = TwoTo[i], F \in Nat, F >= 2, NEW D, D = (z + 1) + Len(salt),
         NEW em, em = PssEm(p, digest, z, F, salt)
  PROVE  /\ em \in Seq(RE!Octet) /\ EmSized(em, p, D)
         /\ EmAccepted(em, p, digest, z, D, F)
<1> DEFINE S == RE!Octet
           db == PssDb(z, salt)
           h == RE!PssHash(p, digest, salt)
           mask == RE!Mgf1(h, D, p.mgf)
           m == Trimmed(db, mask, F)
           L == DigestLength[p.hash]
<1>1. db \in Seq(S) /\ Len(db) = D /\ db[1] \in {0, 1}
  BY PssDbIs
<1>2. SubSeq(db, 1, z + 1) = PssHead(z) /\ SubSeq(db, (z + 1) + 1, Len(db)) = salt
  BY PssDbIs
<1>3. h \in Seq(S) /\ Len(h) = L
  BY PssHashIs
<1>4. D \in Nat /\ D >= 1
  OBVIOUS
<1>5. p.mgf \in DOMAIN DigestLength
  BY Zenon DEF PssCall
<1>6. em = (m \o h) \o <<LastOctet>>
  BY <1>1, Zenon DEF PssEm
<1> HIDE DEF db, h
<1>7. mask \in Seq(S) /\ Len(mask) = D
  BY <1>3, <1>4, <1>5, MaskIs
<1> HIDE DEF mask
<1>8. Len(db) = Len(mask) /\ Len(db) >= 1 /\ db[1] < F
  BY <1>1, <1>4, <1>7
<1>9. /\ m \in Seq(S) /\ Len(m) = Len(db) /\ m[1] < F
      /\ Trimmed(m, mask, F) = db
  BY <1>1, <1>7, <1>8, TrimmedTwice
<1> HIDE DEF m
<1>10. LastOctet \in S
  BY Zenon DEF RE!OctetsFit
<1> HIDE DEF S
<1>11. em \in Seq(S) /\ IsEm(em, m, h, LastOctet)
  BY <1>3, <1>6, <1>9, <1>10, EmParts
<1> HIDE DEF L
<1>12. /\ Len(em) = D + L + 1 /\ em[Len(em)] = LastOctet /\ SubSeq(em, 1, D) = m
       /\ SubSeq(em, D + 1, D + L) = h /\ (D >= 1 => em[1] = m[1])
  BY <1>1, <1>3, <1>9, <1>11, Zenon DEF IsEm
<1>13. EmHash(em, p, D) = h
  BY <1>12, Zenon DEF EmHash, L
<1>14. EmDb(em, p, D, F) = db
  BY <1>9, <1>12, <1>13, Zenon DEF EmDb, mask
<1>15. em[1] < F
  BY <1>4, <1>9, <1>12
<1>16. RE!PssHash(p, digest, salt) = h
  BY DEF h
<1>. QED
  BY <1>2, <1>11, <1>12, <1>13, <1>14, <1>15, <1>16, Zenon DEF EmAccepted, EmSized, L, S

LEMMA PssOpened ==
  ASSUME RE!OctetsFit, RE!XorIsBitwise, RE!HashesToOctets, NEW p, NEW digest, PssCall(p, digest),
         NEW z \in Nat, NEW i \in 0 .. OctetBits,
         NEW F, F = TwoTo[i], NEW D, D = (z + 1) + p.salt_length,
         NEW em \in Seq(RE!Octet), Len(em) = D + DigestLength[p.hash] + 1,
         EmAccepted(em, p, digest, z, D, F)
  PROVE  \E salt \in Seq(RE!Octet) : Len(salt) = p.salt_length /\ em = PssEm(p, digest, z, F, salt)
<1> DEFINE S == RE!Octet
           L == DigestLength[p.hash]
           m == SubSeq(em, 1, D)
           h == SubSeq(em, D + 1, D + L)
           mask == RE!Mgf1(h, D, p.mgf)
           db == Trimmed(m, mask, F)
           salt == SubSeq(db, (z + 1) + 1, Len(db))
           sl == p.salt_length
<1>1. sl \in Nat /\ p.mgf \in DOMAIN DigestLength /\ p.hash \in DOMAIN DigestLength
  BY Zenon DEF PssCall
<1>2. L \in Nat
  BY <1>1, DigestIs, EmptySeq
<1> HIDE DEF L, sl
<1>3. D \in Nat /\ D >= 1 /\ Len(em) = D + L + 1
  BY <1>1 DEF L, sl
<1>4. /\ m \in Seq(S) /\ Len(m) = D /\ h \in Seq(S) /\ Len(h) = L
      /\ em = (m \o h) \o <<em[Len(em)]>>
  <2>1. m = SubSeq(em, 1, D) /\ h = SubSeq(em, D + 1, D + L)
    OBVIOUS
  <2> HIDE DEF m, h
  <2>2. EmCut(em, m, h, D, L, S)
    BY <1>2, <1>3, <2>1, PartsEm
  <2>. QED
    BY <2>2, Zenon DEF EmCut
<1>5. /\ em[Len(em)] = LastOctet /\ em[1] < F /\ SubSeq(db, 1, z + 1) = PssHead(z)
      /\ RE!PssHash(p, digest, salt) = h
  BY Zenon DEF EmAccepted, EmDb, EmHash, L
<1>6. em[1] = m[1]
  <2>1. 0 + D <= Len(em) /\ 0 \in Nat /\ 0 + 1 = 1 /\ 0 + D = D /\ 1 \in 1 .. D
    BY <1>2, <1>3
  <2>2. m = SubSeq(em, 0 + 1, 0 + D)
    BY <2>1, Zenon
  <2>3. IsSlice(m, em, 0, D)
    BY <1>3, <2>1, <2>2, StringsCut
  <2>. QED
    BY <2>1, <2>3 DEF IsSlice
<1> HIDE DEF m, h
<1>7. mask \in Seq(S) /\ Len(mask) = D
  BY <1>1, <1>3, <1>4, MaskIs
<1> HIDE DEF mask
<1>8. Len(m) = Len(mask) /\ Len(m) >= 1 /\ m[1] < F
  BY <1>3, <1>4, <1>5, <1>6, <1>7
<1>9. /\ db \in Seq(S) /\ Len(db) = Len(m) /\ Trimmed(db, mask, F) = m
  BY <1>4, <1>7, <1>8, TrimmedTwice
<1> HIDE DEF db
<1>10. z + 1 <= Len(db) /\ Len(db) = D /\ Len(db) - (z + 1) = sl
  <2>1. D = (z + 1) + sl /\ sl \in Nat
    BY <1>1 DEF sl
  <2>2. Len(db) = D
    BY <1>4, <1>9, Zenon
  <2>. QED
    BY <2>1, <2>2
<1>11. salt \in Seq(S) /\ Len(salt) = Len(db) - (z + 1) /\ db = PssDb(z, salt)
  BY <1>5, <1>9, <1>10, DbIsPss
<1> HIDE DEF salt
<1>12. em = PssEm(p, digest, z, F, salt)
  BY <1>4, <1>5, <1>9, <1>10, <1>11, Zenon DEF PssEm, mask
<1>. QED
  BY <1>10, <1>11, <1>12, Zenon DEF S, sl

(* The sizes of a PSS encoding for key k: in all, of the zeros in front of *)
(* the salt, of the data block.                                            *)
EmSize(k) == RE!EmLength(RE!Bits(k.n))
EmFirst(k) == RE!FirstOctets(RE!Bits(k.n))
PssZeros(k, p) == EmSize(k) - p.salt_length - DigestLength[p.hash] - 2
PssWidth(k, p) == EmSize(k) - DigestLength[p.hash] - 1

LEMMA PssLayout ==
  ASSUME RE!OctetsFit, NEW k, IsKey(k), NEW p, NEW digest, PssCall(p, digest),
         RE!PssFits(p, RE!Bits(k.n))
  PROVE  /\ PssZeros(k, p) \in Nat /\ PssWidth(k, p) = (PssZeros(k, p) + 1) + p.salt_length
         /\ EmSize(k) = PssWidth(k, p) + DigestLength[p.hash] + 1
         /\ EmSize(k) \in Nat /\ EmSize(k) <= RE!Size(k) /\ DigestLength[p.hash] \in Nat
         /\ p.salt_length \in Nat
<1> DEFINE E == EmSize(k)
           L == DigestLength[p.hash]
           sl == p.salt_length
<1>1. sl \in Nat /\ p.hash \in DOMAIN DigestLength
  BY Zenon DEF PssCall
<1>2. L \in Nat
  BY <1>1 DEF RE!OctetsFit
<1>3. E \in Nat /\ E <= RE!Size(k)
  BY PssSizes DEF EmSize
<1>4. E >= L + sl + 2
  BY Zenon DEF RE!PssFits, EmSize
<1>5. PssZeros(k, p) = E - sl - L - 2 /\ PssWidth(k, p) = E - L - 1
  BY Zenon DEF PssZeros, PssWidth
<1> HIDE DEF E, L, sl
<1>6. /\ PssZeros(k, p) \in Nat /\ PssWidth(k, p) = (PssZeros(k, p) + 1) + sl
      /\ E = PssWidth(k, p) + L + 1
  BY <1>1, <1>2, <1>3, <1>4, <1>5
<1>. QED
  BY <1>1, <1>2, <1>3, <1>6, Zenon DEF E, L, sl

LEMMA PssEncodedIs ==
  ASSUME NEW k, NEW p, NEW digest, NEW salt
  PROVE  /\ RE!PssEncoded(RE!Bits(k.n), p, digest, salt).ok <=>
              /\ Len(digest) = DigestLength[p.hash] /\ RE!PssFits(p, RE!Bits(k.n))
              /\ failing # "random"
         /\ RE!PssEncoded(RE!Bits(k.n), p, digest, salt).ok =>
              RE!PssEncoded(RE!Bits(k.n), p, digest, salt)
                = RE!Ok(PssEm(p, digest, PssZeros(k, p), EmFirst(k), salt))
<1> DEFINE bits == RE!Bits(k.n)
           em == PssEm(p, digest, PssZeros(k, p), EmFirst(k), salt)
           a == RE!PssEncoded(bits, p, digest, salt)
<1>1. a = IF Len(digest) # DigestLength[p.hash] THEN RE!Err("InvalidDigestLength")
          ELSE IF ~RE!PssFits(p, bits) THEN RE!Err("InputTooLong")
          ELSE IF failing = "random" THEN RE!Err("RandomnessUnavailable")
          ELSE RE!Ok(em)
  BY Zenon DEF RE!PssEncoded, PssEm, PssZeros, EmSize, EmFirst, PssDb, PssHead, Trimmed
<1> HIDE DEF em, a
<1>2. /\ a.ok <=> /\ Len(digest) = DigestLength[p.hash] /\ RE!PssFits(p, bits)
                  /\ failing # "random"
      /\ a.ok => a = RE!Ok(em)
  BY <1>1, AnswerForms, Zenon
<1>. QED
  BY <1>2, Zenon DEF a, em

LEMMA PssAcceptsIs ==
  ASSUME RE!OctetsFit, NEW k, IsKey(k), NEW p, NEW digest, PssCall(p, digest),
         RE!PssFits(p, RE!Bits(k.n)), NEW s \in Seq(RE!Octet), Len(s) = RE!Size(k),
         NEW i, i = RE!Size(k) - EmSize(k), NEW em, em = SubSeq(s, i + 1, Len(s))
  PROVE  RE!PssAccepts(s, RE!Bits(k.n), p, digest) <=>
           /\ SubSeq(s, 1, i) = RE!Fill(i, 0)
           /\ EmAccepted(em, p, digest, PssZeros(k, p), PssWidth(k, p), EmFirst(k))
<1> DEFINE z == PssZeros(k, p)
           D == PssWidth(k, p)
           E == EmSize(k)
           L == DigestLength[p.hash]
           sl == p.salt_length
           F == EmFirst(k)
           bits == RE!Bits(k.n)
           width == Len(em) - L - 1
           sep == width - sl
           h == SubSeq(em, width + 1, width + L)
           db == Trimmed(SubSeq(em, 1, width), RE!Mgf1(h, width, p.mgf), F)
<1>1. /\ z \in Nat /\ D = (z + 1) + sl /\ E = D + L + 1 /\ E \in Nat /\ E <= RE!Size(k) /\ L \in Nat
      /\ sl \in Nat
  BY PssLayout
<1> HIDE DEF z, D, E, L, sl, F
<1>2. i \in Nat /\ i <= Len(s) /\ Len(s) - i = E
  BY <1>1 DEF E
<1>3. Len(em) = E
  <2>1. JoinsBack(s, i, RE!Octet)
    BY <1>2, JoinOfCut
  <2>. QED
    BY <1>2, <2>1, Zenon DEF JoinsBack
<1>4. width = D /\ sep = z + 1 /\ sep - 1 = z
  BY <1>1, <1>3
<1>5. RE!PssAccepts(s, bits, p, digest) <=>
        /\ SubSeq(s, 1, i) = RE!Fill(i, 0)
        /\ RE!PssFits(p, bits) /\ em[Len(em)] = LastOctet /\ em[1] < F
        /\ SubSeq(db, 1, sep) = PssHead(sep - 1)
        /\ RE!PssHash(p, digest, SubSeq(db, sep + 1, Len(db))) = h
  <2>1. i = Len(s) - RE!EmLength(bits)
    BY Zenon DEF EmSize
  <2>2. SubSeq(s, (Len(s) - RE!EmLength(bits)) + 1, Len(s)) = em
    BY <2>1, Zenon
  <2>3. F = RE!FirstOctets(bits)
    BY Zenon DEF F, EmFirst
  <2> DEFINE Accepted(prefix, em_) ==
        /\ RE!Front(s, prefix) = RE!Fill(prefix, 0)
        /\ RE!PssFits(p, bits) /\ em_[Len(em_)] = LastOctet /\ em_[1] < RE!FirstOctets(bits)
        /\ LET width_ == Len(em_) - DigestLength[p.hash] - 1
               h_ == SubSeq(em_, width_ + 1, width_ + DigestLength[p.hash])
               db_ == [RE!XorOctets(RE!Front(em_, width_), RE!Mgf1(h_, width_, p.mgf)) EXCEPT
                         ![1] = @ % RE!FirstOctets(bits)]
               sep_ == width_ - p.salt_length
           IN  /\ RE!Front(db_, sep_) = RE!Fill(sep_ - 1, 0) \o <<1>>
               /\ RE!PssHash(p, digest, RE!Behind(db_, sep_)) = h_
  <2>4. RE!PssAccepts(s, bits, p, digest) <=>
          Accepted(Len(s) - RE!EmLength(bits), SubSeq(s, (Len(s) - RE!EmLength(bits)) + 1, Len(s)))
    BY Zenon DEF RE!PssAccepts, RE!Behind
  <2>5. Accepted(i, em) <=>
          /\ SubSeq(s, 1, i) = RE!Fill(i, 0)
          /\ RE!PssFits(p, bits) /\ em[Len(em)] = LastOctet /\ em[1] < F
          /\ SubSeq(db, 1, sep) = PssHead(sep - 1)
          /\ RE!PssHash(p, digest, SubSeq(db, sep + 1, Len(db))) = h
    BY Zenon DEF F, EmFirst, RE!Behind, RE!Front, L, sl, PssHead, Trimmed
  <2> HIDE DEF Accepted
  <2>6. RE!PssAccepts(s, bits, p, digest) <=> Accepted(i, em)
    BY <2>1, <2>2, <2>4, Zenon
  <2>. QED
    BY <2>5, <2>6, Zenon
<1>6. h = EmHash(em, p, D) /\ db = EmDb(em, p, D, F)
  BY <1>4, Zenon DEF EmHash, EmDb, L
<1> HIDE DEF h, db, width, sep
<1>7. EmAccepted(em, p, digest, z, D, F) <=>
        /\ em[Len(em)] = LastOctet /\ em[1] < F
        /\ SubSeq(db, 1, sep) = PssHead(sep - 1)
        /\ RE!PssHash(p, digest, SubSeq(db, sep + 1, Len(db))) = h
  BY <1>4, <1>6, Zenon DEF EmAccepted
<1>. QED
  BY <1>5, <1>7, Zenon DEF z, D, F

LEMMA PssAcceptsFits ==
  ASSUME NEW k, NEW p, NEW digest, NEW s, RE!PssAccepts(s, RE!Bits(k.n), p, digest)
  PROVE  RE!PssFits(p, RE!Bits(k.n))
  BY Zenon DEF RE!PssAccepts

PssBytes(k, p, digest, salt) == PssEm(p, digest, PssZeros(k, p), EmFirst(k), salt)

LEMMA PssSigns ==
  ASSUME RE!OctetsFit, RE!XorIsBitwise, RE!HashesToOctets, NEW k, IsKey(k),
         NEW p, NEW digest, PssCall(p, digest), RE!PssFits(p, RE!Bits(k.n)),
         NEW salt \in Seq(RE!Octet), Len(salt) = p.salt_length,
         NEW em, em = PssBytes(k, p, digest, salt)
  PROVE  /\ em \in Seq(RE!Octet) /\ Len(em) <= RE!Size(k)
         /\ RE!PssAccepts(Widened(k, em), RE!Bits(k.n), p, digest)
<1> DEFINE z == PssZeros(k, p)
           D == PssWidth(k, p)
           E == EmSize(k)
           F == EmFirst(k)
           L == DigestLength[p.hash]
           i == RE!Size(k) - E
           f == RE!Fill(i, 0)
           s == Widened(k, em)
           S == RE!Octet
<1>1. /\ z \in Nat /\ D = (z + 1) + Len(salt) /\ E = D + L + 1 /\ E \in Nat /\ E <= RE!Size(k)
      /\ L \in Nat
  BY PssLayout
<1>2. F \in Nat /\ F >= 2 /\ \E x \in 0 .. OctetBits : F = TwoTo[x]
  BY PssSizes DEF EmFirst
<1>3. PICK x \in 0 .. OctetBits : F = TwoTo[x]
  BY <1>2, Zenon
<1>4. em = PssEm(p, digest, z, F, salt)
  BY Zenon DEF PssBytes
<1> HIDE DEF z, D, E, F, L
<1>5. em \in Seq(S) /\ Len(em) = D + L + 1 /\ EmAccepted(em, p, digest, z, D, F)
  <2>0. z \in Nat /\ D = (z + 1) + Len(salt) /\ F \in Nat /\ F >= 2
    BY <1>1, <1>2
  <2>1. em \in Seq(RE!Octet) /\ EmAccepted(em, p, digest, z, D, F)
    BY <2>0, <1>3, <1>4, PssSealed
  <2>2. EmSized(em, p, D)
    BY <2>0, <1>3, <1>4, PssSealed
  <2>. QED
    BY <2>1, <2>2, Zenon DEF EmSized, L
<1>6. Len(em) = E /\ Len(em) <= RE!Size(k) /\ i \in Nat /\ RE!Size(k) \in Nat
  <2>1. RE!Size(k) \in Nat
    BY DEF IsKey
  <2>. QED
    BY <1>1, <1>5, <2>1
<1>7. s \in Seq(S) /\ Len(s) = RE!Size(k)
  BY <1>5, <1>6, WidenedIs
<1>8. s = f \o em
  BY <1>6, Zenon DEF Widened
<1>9. f \in Seq(S) /\ Len(f) = i
  BY <1>6, CallOctet DEF RE!Fill
<1> HIDE DEF s, f, i
<1>10. CutsInto(s, f, em, S)
  BY <1>5, <1>8, <1>9, CutOfJoin
<1>11. SubSeq(s, 1, i) = f /\ SubSeq(s, i + 1, Len(s)) = em
  BY <1>9, <1>10, Zenon DEF CutsInto
<1>12. RE!PssAccepts(s, RE!Bits(k.n), p, digest) <=>
         SubSeq(s, 1, i) = RE!Fill(i, 0) /\ EmAccepted(em, p, digest, z, D, F)
  <2>1. i = RE!Size(k) - EmSize(k) /\ em = SubSeq(s, i + 1, Len(s))
    BY <1>11, Zenon DEF i, E
  <2>. QED
    BY <1>7, <2>1, PssAcceptsIs DEF z, D, F
<1>13. RE!PssAccepts(s, RE!Bits(k.n), p, digest)
  BY <1>5, <1>11, <1>12, Zenon DEF f
<1>. QED
  BY <1>5, <1>6, <1>13, Zenon DEF s, S

LEMMA PssSigned ==
  ASSUME RE!OctetsFit, RE!XorIsBitwise, RE!HashesToOctets, NEW k, IsKey(k),
         NEW p, NEW digest, PssCall(p, digest), NEW s \in Seq(RE!Octet), Len(s) = RE!Size(k),
         RE!PssAccepts(s, RE!Bits(k.n), p, digest)
  PROVE  \E salt \in Seq(RE!Octet) :
           Len(salt) = p.salt_length /\ s = Widened(k, PssBytes(k, p, digest, salt))
<1> DEFINE z == PssZeros(k, p)
           D == PssWidth(k, p)
           E == EmSize(k)
           F == EmFirst(k)
           L == DigestLength[p.hash]
           i == RE!Size(k) - E
           em == SubSeq(s, i + 1, Len(s))
           S == RE!Octet
<1>0. RE!PssFits(p, RE!Bits(k.n))
  BY PssAcceptsFits, Zenon
<1>1. /\ z \in Nat /\ D = (z + 1) + p.salt_length /\ E = D + L + 1 /\ E \in Nat /\ E <= RE!Size(k)
      /\ L \in Nat
  BY <1>0, PssLayout
<1>2. \E x \in 0 .. OctetBits : F = TwoTo[x]
  BY PssSizes DEF EmFirst
<1>3. PICK x \in 0 .. OctetBits : F = TwoTo[x]
  BY <1>2, Zenon
<1>4. SubSeq(s, 1, i) = RE!Fill(i, 0) /\ EmAccepted(em, p, digest, z, D, F)
  BY <1>0, PssAcceptsIs
<1> HIDE DEF z, D, E, F, L
<1>5. i \in Nat /\ i <= Len(s) /\ Len(s) - i = E
  <2>1. RE!Size(k) \in Nat
    BY DEF IsKey
  <2>. QED
    BY <1>1, <2>1
<1> HIDE DEF i
<1>6. JoinsBack(s, i, S)
  BY <1>5, JoinOfCut
<1>7. em \in Seq(S) /\ Len(em) = E /\ s = SubSeq(s, 1, i) \o em
  BY <1>5, <1>6, Zenon DEF JoinsBack
<1> HIDE DEF em
<1>8. Len(em) = D + L + 1
  BY <1>1, <1>7, Zenon
<1>9. \E salt \in Seq(S) : Len(salt) = p.salt_length /\ em = PssEm(p, digest, z, F, salt)
  BY <1>1, <1>3, <1>4, <1>7, <1>8, PssOpened DEF L
<1>10. s = Widened(k, em)
  BY <1>4, <1>7, Zenon DEF Widened, i
<1>. QED
  BY <1>9, <1>10, Zenon DEF PssBytes, S, z, F

-----------------------------------------------------------------------------
(* The operations on strings that fit the modulus.                         *)
LEMMA ValueIsNat == ASSUME RE!OctetsFit, NEW s \in Seq(RE!Octet) PROVE RE!FromOctets(s) \in Nat
<1>1. TwoTo[OctetBits * Len(s)] \in Nat
  BY CallOctet, PowerOfDigits
<1>. QED
  BY <1>1, StringValue

LEMMA OperationsFit ==
  ASSUME RE!OctetsFit, NEW k, IsKey(k), NEW s \in Seq(RE!Octet)
  PROVE  /\ RE!PublicOperation(k, s).ok <=> IsBlock(k, s)
         /\ RE!PrivateOperation(k, s).ok <=> FitsModulus(k, s) /\ failing # "operation"
         /\ \A x : Len(s) <= RE!Size(k) =>
              (RE!Device(k, x, s).ok <=> FitsModulus(k, s) /\ failing \notin {"operation", "output"})
<1> DEFINE v == RE!FromOctets(s)
           n == k.n
<1>1. v \in Nat /\ n \in Nat
  BY ValueIsNat DEF IsKey
<1> HIDE DEF v, n
<1>2. v < n <=> v \in 0 .. n - 1
  BY <1>1
<1>3. PublicReturns(k, s) /\ PrivateReturns(k, s)
  BY OperationsReturn
<1>4. ASSUME NEW x PROVE DeviceReturns(k, x, s)
  BY OperationsReturn
<1>. QED
  BY <1>2, <1>3, <1>4, Zenon
     DEF PublicReturns, PrivateReturns, DeviceReturns, IsBlock, FitsModulus, v, n

LEMMA OperationsApply ==
  ASSUME RE!OctetsFit, NEW k, IsKey(k), NEW s \in Seq(RE!Octet)
  PROVE  /\ RE!PublicOperation(k, s).ok => RE!PublicOperation(k, s) = RE!Ok(Applied(k, k.e, s))
         /\ RE!PrivateOperation(k, s).ok => RE!PrivateOperation(k, s) = RE!Ok(Applied(k, k.d, s))
         /\ \A x : RE!Device(k, x, s).ok => RE!Device(k, x, s) = RE!Ok(Applied(k, x, s))
  BY OperationsReturn, Zenon

-----------------------------------------------------------------------------
(* Signing and verifying.                                                  *)
IsCall(c) ==
  /\ IsKey(c.key) /\ c.hash \in DOMAIN DigestLength /\ c.mgf \in DOMAIN DigestLength
  /\ c.salt_length \in Nat /\ c.label \in Seq(RE!Octet) /\ c.input \in Seq(RE!Octet)
SignScheme(c) == c.scheme \in {"raw", "payload", "pkcs1", "pss"}

LEMMA RequestIsCall ==
  ASSUME RE!OctetsFit, RE!KeysInvert, RE!CallsFit, NEW c \in RsaRequests
  PROVE  IsCall(c)
<1>1. IsKey(c.key)
  BY RequestKey
<1>. QED
  BY <1>1, Zenon DEF RE!CallsFit, IsCall

(* What the recovered block t must be.                                     *)
Accepts(c, t) ==
  \/ /\ c.scheme = "pss" /\ Len(c.input) = DigestLength[c.hash]
     /\ RE!PssAccepts(t, RE!Bits(c.key.n), c, c.input)
  \/ /\ c.scheme = "raw" /\ Len(c.input) <= RE!Size(c.key) /\ t = Widened(c.key, c.input)
  \/ /\ c.scheme \in {"payload", "pkcs1"} /\ RE!Encode(c, << >>).ok
     /\ t = RE!Encode(c, << >>).bytes

LEMMA VerifyIs ==
  ASSUME RE!OctetsFit, NEW c, IsCall(c), SignScheme(c), NEW s \in Seq(RE!Octet)
  PROVE  RE!Verify(c, s).ok <=> IsBlock(c.key, s) /\ Accepts(c, Applied(c.key, c.key.e, s))
<1> DEFINE k == c.key
           r == RE!PublicOperation(k, s)
           t == Applied(k, k.e, s)
           size == RE!Size(k)
<1>1. IsKey(k) /\ c.input \in Seq(RE!Octet)
  BY Zenon DEF IsCall
<1>2. r.ok <=> IsBlock(k, s)
  BY <1>1, OperationsFit
<1>3. r.ok => r = RE!Ok(t)
  BY <1>1, OperationsApply
<1>4. r.ok => r.bytes = t
  BY <1>3, AnswerForms, Zenon
<1>5. Len(c.input) > size <=> ~(Len(c.input) <= size)
  BY <1>1 DEF IsKey
<1> HIDE DEF k
<1>6. CASE c.scheme = "pss"
  <2> DEFINE P == RE!PssAccepts(r.bytes, RE!Bits(c.key.n), c, c.input)
  <2>1. RE!Verify(c, s) =
          IF ~r.ok THEN r ELSE IF Len(c.input) # DigestLength[c.hash]
            THEN RE!Err("InvalidDigestLength") ELSE RE!Verdict(P)
    BY <1>6, Zenon DEF RE!Verify, k
  <2>2. RE!Verdict(P).ok <=> P
    BY AnswerForms, Zenon DEF RE!Verdict
  <2> HIDE DEF r
  <2>3. RE!Verify(c, s).ok <=> r.ok /\ Len(c.input) = DigestLength[c.hash] /\ P
    BY <2>1, <2>2, AnswerForms, Zenon
  <2>4. Accepts(c, t) <=> Len(c.input) = DigestLength[c.hash] /\ RE!PssAccepts(t, RE!Bits(c.key.n), c, c.input)
    BY <1>6 DEF Accepts
  <2>. QED
    BY <1>2, <1>4, <2>3, <2>4, Zenon DEF k
<1>7. CASE c.scheme = "raw"
  <2> DEFINE P == r.bytes = Widened(k, c.input)
  <2>1. RE!Verify(c, s) =
          IF ~(IF Len(c.input) > size THEN RE!Err("InputTooLong")
               ELSE RE!Ok(Widened(k, c.input))).ok
            THEN (IF Len(c.input) > size THEN RE!Err("InputTooLong") ELSE RE!Ok(Widened(k, c.input)))
          ELSE IF ~r.ok THEN r
          ELSE RE!Verdict(r.bytes = (IF Len(c.input) > size THEN RE!Err("InputTooLong")
                                     ELSE RE!Ok(Widened(k, c.input))).bytes)
    <3>1. c.scheme # "pss"
      BY <1>7
    <3>. QED
      BY <1>7, <3>1, Zenon DEF RE!Verify, Widened, k
  <2>2. RE!Verdict(P).ok <=> P
    BY AnswerForms, Zenon DEF RE!Verdict
  <2> HIDE DEF r
  <2>3. RE!Verify(c, s).ok <=> r.ok /\ Len(c.input) <= size /\ P
    <3>1. CASE Len(c.input) <= size
      <4>1. RE!Verify(c, s) = IF ~r.ok THEN r ELSE RE!Verdict(P)
        BY <1>5, <2>1, <3>1, AnswerForms, Zenon
      <4>. QED
        BY <2>2, <3>1, <4>1, Zenon
    <3>2. CASE ~(Len(c.input) <= size)
      BY <1>5, <2>1, <3>2, AnswerForms, Zenon
    <3>. QED
      BY <3>1, <3>2, Zenon
  <2>4. Accepts(c, t) <=> Len(c.input) <= RE!Size(c.key) /\ t = Widened(c.key, c.input)
    BY <1>7 DEF Accepts
  <2>. QED
    BY <1>2, <1>4, <2>3, <2>4, Zenon DEF k
<1>8. CASE c.scheme \in {"payload", "pkcs1"}
  <2> DEFINE e == RE!Encode(c, << >>)
             P == r.bytes = e.bytes
  <2>0. c.scheme # "pss" /\ c.scheme # "raw"
    BY <1>8
  <2>1. RE!Verify(c, s) = IF ~e.ok THEN e ELSE IF ~r.ok THEN r ELSE RE!Verdict(P)
    BY <2>0, Zenon DEF RE!Verify, k
  <2>2. RE!Verdict(P).ok <=> P
    BY AnswerForms, Zenon DEF RE!Verdict
  <2>4. Accepts(c, t) <=> e.ok /\ t = e.bytes
    BY <1>8, <2>0, Zenon DEF Accepts
  <2> HIDE DEF r, e
  <2>3. RE!Verify(c, s).ok <=> r.ok /\ e.ok /\ P
    BY <2>1, <2>2, AnswerForms, Zenon
  <2>. QED
    BY <1>2, <1>4, <2>3, <2>4, Zenon DEF k
<1>. QED
  BY <1>6, <1>7, <1>8, Zenon DEF SignScheme

LEMMA EncodeCases ==
  ASSUME NEW c, NEW random
  PROVE  /\ c.scheme = "raw" => RE!Encode(c, random) = RE!Ok(c.input)
         /\ c.scheme = "payload" => RE!Encode(c, random) = RE!EncodedPayload(RE!Size(c.key), c.input)
         /\ c.scheme = "pkcs1" =>
              RE!Encode(c, random) =
                IF RE!DigestInfo(c.hash, c.input).ok
                  THEN RE!EncodedPayload(RE!Size(c.key), RE!DigestInfo(c.hash, c.input).bytes)
                  ELSE RE!DigestInfo(c.hash, c.input)
         /\ c.scheme = "pss" =>
              RE!Encode(c, random) = RE!PssEncoded(RE!Bits(c.key.n), c, c.input, random)
         /\ c.scheme = "pkcs1_encrypt" =>
              RE!Encode(c, random) = RE!Pad(c.input, RE!Size(c.key), random)
         /\ c.scheme = "oaep" =>
              RE!Encode(c, random) = RE!OaepPad(c.input, RE!Size(c.key), c.label, c.mgf, random)
<1> DEFINE x == c.scheme
<1> HIDE DEF x
<1>1. x = c.scheme
  BY DEF x
<1>2. CASE x = "raw"
  BY <1>1, <1>2 DEF RE!Encode
<1>3. CASE x = "payload"
  BY <1>1, <1>3 DEF RE!Encode
<1>4. CASE x = "pkcs1"
  BY <1>1, <1>4 DEF RE!Encode
<1>5. CASE x = "pss"
  BY <1>1, <1>5 DEF RE!Encode
<1>6. CASE x = "pkcs1_encrypt"
  BY <1>1, <1>6 DEF RE!Encode
<1>7. CASE x = "oaep"
  BY <1>1, <1>7 DEF RE!Encode
<1>. QED
  BY <1>1, <1>2, <1>3, <1>4, <1>5, <1>6, <1>7, Zenon

LEMMA RandomCases ==
  ASSUME NEW c, NEW input
  PROVE  /\ c.scheme = "pss" => RE!Random(c, input) = [1 .. c.salt_length -> RE!Octet]
         /\ c.scheme = "oaep" => RE!Random(c, input) = [1 .. Len(c.label) -> RE!Octet]
         /\ c.scheme = "pkcs1_encrypt" =>
              RE!Random(c, input) = [1 .. RE!Size(c.key) - Len(input) - 3 -> RE!Octet \ {0}]
         /\ c.scheme \in {"raw", "payload", "pkcs1"} => RE!Random(c, input) = {<< >>}
<1>1. CASE c.scheme = "pss"
  BY <1>1 DEF RE!Random
<1>2. CASE c.scheme = "oaep"
  BY <1>2 DEF RE!Random
<1>3. CASE c.scheme = "pkcs1_encrypt"
  BY <1>3 DEF RE!Random
<1>4. CASE c.scheme \in {"raw", "payload", "pkcs1"}
  BY <1>4 DEF RE!Random
<1>. QED
  BY <1>1, <1>2, <1>3, <1>4, Zenon

(* What the encoder returns.                                               *)
Encoded(c, random, b) ==
  /\ RE!Encode(c, random) = RE!Ok(b) /\ b \in Seq(RE!Octet)
  /\ c.scheme # "raw" => Len(b) <= RE!Size(c.key)
  /\ c.scheme \in {"payload", "pkcs1"} => Len(b) = RE!Size(c.key)

LEMMA EncodeReturns ==
  ASSUME RE!OctetsFit, RE!XorIsBitwise, RE!HashesToOctets, NEW c, IsCall(c), SignScheme(c),
         NEW random \in RE!Random(c, c.input), RE!Encode(c, random).ok
  PROVE  \E b : Encoded(c, random, b)
<1> DEFINE k == c.key
           size == RE!Size(k)
           e == RE!Encode(c, random)
           S == RE!Octet
<1>1. /\ IsKey(k) /\ c.input \in Seq(S) /\ c.hash \in DOMAIN DigestLength
      /\ c.mgf \in DOMAIN DigestLength /\ c.salt_length \in Nat
  BY Zenon DEF IsCall
<1>2. CASE c.scheme = "raw"
  <2>1. e = RE!Ok(c.input) /\ c.scheme \notin {"payload", "pkcs1"}
    BY <1>2, EncodeCases
  <2>. QED
    BY <1>1, <1>2, <2>1, Zenon DEF Encoded
<1>3. ASSUME NEW payload \in Seq(S), e = RE!EncodedPayload(size, payload) PROVE \E b : Encoded(c, random, b)
  <2>1. e = RE!Ok(e.bytes) /\ e.bytes \in Seq(S) /\ Len(e.bytes) = size
    BY <1>1, <1>3, PayloadIs
  <2>2. Len(e.bytes) <= size
    BY <1>1, <2>1 DEF IsKey
  <2>. QED
    BY <2>1, <2>2, Zenon DEF Encoded
<1>4. CASE c.scheme = "payload"
  <2>1. e = RE!EncodedPayload(size, c.input)
    BY <1>4, EncodeCases, Zenon
  <2>. QED
    BY <1>1, <1>3, <2>1
<1>5. CASE c.scheme = "pkcs1"
  <2> DEFINE info == RE!DigestInfo(c.hash, c.input)
  <2>1. e = IF info.ok THEN RE!EncodedPayload(size, info.bytes) ELSE info
    BY <1>5, EncodeCases, Zenon
  <2>2. info.ok
    BY <2>1, Zenon
  <2>3. info = RE!Ok(DigestPrefix[c.hash] \o c.input)
    BY <2>2, AnswerForms, Zenon DEF RE!DigestInfo
  <2>4. info.bytes = DigestPrefix[c.hash] \o c.input
    BY <2>3, AnswerForms, Zenon
  <2>5. DigestPrefix[c.hash] \in Seq(S)
    BY <1>1, Zenon DEF RE!OctetsFit
  <2>6. info.bytes \in Seq(S)
    BY <1>1, <2>4, <2>5, StringsJoin
  <2>7. e = RE!EncodedPayload(size, info.bytes)
    BY <2>1, <2>2, Zenon
  <2> HIDE DEF info, e
  <2>. QED
    BY <1>3, <2>6, <2>7, Zenon
<1>6. CASE c.scheme = "pss"
  <2> DEFINE b == PssBytes(k, c, c.input, random)
  <2>1. e = RE!PssEncoded(RE!Bits(k.n), c, c.input, random)
    BY <1>6, EncodeCases, Zenon
  <2>2. RE!PssFits(c, RE!Bits(k.n)) /\ e = RE!Ok(b)
    BY <2>1, PssEncodedIs, Zenon DEF PssBytes
  <2>3. PssCall(c, c.input)
    BY <1>1, Zenon DEF PssCall
  <2>4. random \in [1 .. c.salt_length -> S]
    BY <1>6, RandomCases, Zenon
  <2>5. random \in Seq(S) /\ Len(random) = c.salt_length
    BY <1>1, <2>4
  <2>6. b \in Seq(S) /\ Len(b) <= size
    BY <1>1, <2>2, <2>3, <2>5, PssSigns
  <2>7. c.scheme \notin {"payload", "pkcs1"}
    BY <1>6
  <2>. QED
    BY <2>2, <2>6, <2>7, Zenon DEF Encoded
<1>. QED
  BY <1>2, <1>4, <1>5, <1>6, Zenon DEF SignScheme

LEMMA EncodedAccepted ==
  ASSUME RE!OctetsFit, RE!XorIsBitwise, RE!HashesToOctets, NEW c, IsCall(c), SignScheme(c),
         NEW random \in RE!Random(c, c.input), NEW b, Encoded(c, random, b), Len(b) <= RE!Size(c.key)
  PROVE  Accepts(c, Widened(c.key, b))
<1> DEFINE k == c.key
           size == RE!Size(k)
           e == RE!Encode(c, random)
           S == RE!Octet
<1>1. /\ IsKey(k) /\ c.input \in Seq(S) /\ c.hash \in DOMAIN DigestLength
      /\ c.mgf \in DOMAIN DigestLength /\ c.salt_length \in Nat
  BY Zenon DEF IsCall
<1>2. e = RE!Ok(b) /\ b \in Seq(S) /\ e.ok /\ e.bytes = b
  BY AnswerForms, Zenon DEF Encoded
<1>3. CASE c.scheme = "raw"
  <2>1. e = RE!Ok(c.input)
    BY <1>3, EncodeCases, Zenon
  <2>2. b = c.input
    BY <1>2, <2>1, AnswerForms, Zenon
  <2>. QED
    BY <1>3, <2>2, Zenon DEF Accepts
<1>4. CASE c.scheme \in {"payload", "pkcs1"}
  <2>1. random = << >>
    <3>1. RE!Random(c, c.input) = {<< >>}
      BY <1>4, RandomCases
    <3>. QED
      BY <3>1
  <2>2. Len(b) = size
    BY <1>4, Zenon DEF Encoded
  <2>3. Widened(k, b) = b
    BY <1>1, <1>2, <2>2, WidenedIs
  <2>. QED
    BY <1>2, <1>4, <2>1, <2>3, Zenon DEF Accepts
<1>5. CASE c.scheme = "pss"
  <2>1. e = RE!PssEncoded(RE!Bits(k.n), c, c.input, random)
    BY <1>5, EncodeCases, Zenon
  <2>2. /\ RE!PssFits(c, RE!Bits(k.n)) /\ Len(c.input) = DigestLength[c.hash]
        /\ e = RE!Ok(PssBytes(k, c, c.input, random))
    BY <1>2, <2>1, PssEncodedIs, Zenon DEF PssBytes
  <2>3. b = PssBytes(k, c, c.input, random)
    BY <1>2, <2>2, AnswerForms, Zenon
  <2>4. PssCall(c, c.input)
    BY <1>1, Zenon DEF PssCall
  <2>5. random \in [1 .. c.salt_length -> S]
    BY <1>5, RandomCases, Zenon
  <2>6. random \in Seq(S) /\ Len(random) = c.salt_length
    BY <1>1, <2>5
  <2>7. RE!PssAccepts(Widened(k, b), RE!Bits(k.n), c, c.input)
    BY <1>1, <2>2, <2>3, <2>4, <2>6, PssSigns
  <2>. QED
    BY <1>5, <2>2, <2>7, Zenon DEF Accepts
<1>. QED
  BY <1>3, <1>4, <1>5, Zenon DEF SignScheme

LEMMA AcceptedEncoded ==
  ASSUME RE!OctetsFit, RE!XorIsBitwise, RE!HashesToOctets, NEW c, IsCall(c), SignScheme(c),
         failing = "nothing", NEW t \in Seq(RE!Octet), Len(t) = RE!Size(c.key), Accepts(c, t)
  PROVE  \E random \in RE!Random(c, c.input), b \in Seq(RE!Octet) :
           RE!Encode(c, random) = RE!Ok(b) /\ Len(b) <= RE!Size(c.key) /\ t = Widened(c.key, b)
<1> DEFINE k == c.key
           size == RE!Size(k)
           S == RE!Octet
<1>1. /\ IsKey(k) /\ c.input \in Seq(S) /\ c.hash \in DOMAIN DigestLength
      /\ c.mgf \in DOMAIN DigestLength /\ c.salt_length \in Nat
  BY Zenon DEF IsCall
<1>2. CASE c.scheme = "raw"
  <2>1. RE!Encode(c, << >>) = RE!Ok(c.input)
    BY <1>2, EncodeCases, Zenon
  <2>2. << >> \in RE!Random(c, c.input)
    BY <1>2, RandomCases
  <2>3. Len(c.input) <= size /\ t = Widened(k, c.input)
    BY <1>2 DEF Accepts
  <2>. QED
    BY <1>1, <2>1, <2>2, <2>3, Zenon
<1>3. CASE c.scheme \in {"payload", "pkcs1"}
  <2> DEFINE e == RE!Encode(c, << >>)
  <2>1. << >> \in RE!Random(c, c.input)
    BY <1>3, RandomCases
  <2>2. e.ok /\ t = e.bytes
    BY <1>3 DEF Accepts
  <2>3. PICK b : Encoded(c, << >>, b)
    BY <2>1, <2>2, EncodeReturns
  <2>4. e = RE!Ok(b) /\ b \in Seq(S) /\ Len(b) = size /\ e.bytes = b
    BY <1>3, <2>3, AnswerForms, Zenon DEF Encoded
  <2>5. Widened(k, b) = b
    BY <1>1, <2>4, WidenedIs
  <2>6. Len(b) <= size
    BY <1>1, <2>4 DEF IsKey
  <2>. QED
    BY <2>1, <2>2, <2>4, <2>5, <2>6, Zenon
<1>4. CASE c.scheme = "pss"
  <2>1. Len(c.input) = DigestLength[c.hash] /\ RE!PssAccepts(t, RE!Bits(k.n), c, c.input)
    BY <1>4 DEF Accepts
  <2>2. PssCall(c, c.input)
    BY <1>1, Zenon DEF PssCall
  <2>3. PICK salt \in Seq(S) : Len(salt) = c.salt_length /\ t = Widened(k, PssBytes(k, c, c.input, salt))
    BY <1>1, <2>1, <2>2, PssSigned
  <2> DEFINE b == PssBytes(k, c, c.input, salt)
  <2>4. RE!PssFits(c, RE!Bits(k.n))
    BY <2>1, PssAcceptsFits, Zenon
  <2>5. b \in Seq(S) /\ Len(b) <= size
    BY <1>1, <2>2, <2>3, <2>4, PssSigns
  <2>6. RE!Encode(c, salt) = RE!PssEncoded(RE!Bits(k.n), c, c.input, salt)
    BY <1>4, EncodeCases, Zenon
  <2>7. failing # "random"
    OBVIOUS
  <2>8. RE!Encode(c, salt) = RE!Ok(b)
    BY <2>1, <2>4, <2>6, <2>7, PssEncodedIs, Zenon DEF PssBytes
  <2>9. salt \in [1 .. c.salt_length -> S]
    BY <2>3
  <2>10. salt \in RE!Random(c, c.input)
    BY <1>4, <2>9, RandomCases, Zenon
  <2>. QED
    BY <2>3, <2>5, <2>8, <2>10, Zenon
<1>. QED
  BY <1>2, <1>3, <1>4, Zenon DEF SignScheme

LEMMA SignReturns ==
  ASSUME RE!OctetsFit, NEW c, IsCall(c), NEW random, NEW b, RE!Encode(c, random) = RE!Ok(b),
         b \in Seq(RE!Octet), c.device => Len(b) <= RE!Size(c.key), RE!Sign(c, random).ok
  PROVE  FitsModulus(c.key, b) /\ RE!Sign(c, random) = RE!Ok(Applied(c.key, c.key.d, b))
<1> DEFINE k == c.key
           g == RE!Sign(c, random)
<1>1. IsKey(k)
  BY Zenon DEF IsCall
<1>2. RE!Encode(c, random).ok /\ RE!Encode(c, random).bytes = b
  BY AnswerForms, Zenon
<1>3. g = IF c.device THEN RE!Device(k, k.d, b) ELSE RE!PrivateOperation(k, b)
  BY <1>2, Zenon DEF RE!Sign
<1> HIDE DEF g
<1>4. g.ok
  BY DEF g
<1>5. CASE c.device
  <2>1. Len(b) <= RE!Size(k) /\ RE!Device(k, k.d, b).ok /\ g = RE!Device(k, k.d, b)
    BY <1>3, <1>4, <1>5, Zenon
  <2>2. FitsModulus(k, b)
    BY <1>1, <2>1, OperationsFit
  <2>3. RE!Device(k, k.d, b) = RE!Ok(Applied(k, k.d, b))
    BY <1>1, <2>1, OperationsApply
  <2>. QED
    BY <2>1, <2>2, <2>3, Zenon DEF g
<1>6. CASE ~c.device
  <2>1. RE!PrivateOperation(k, b).ok /\ g = RE!PrivateOperation(k, b)
    BY <1>3, <1>4, <1>6, Zenon
  <2>2. FitsModulus(k, b)
    BY <1>1, <2>1, OperationsFit
  <2>3. RE!PrivateOperation(k, b) = RE!Ok(Applied(k, k.d, b))
    BY <1>1, <2>1, OperationsApply
  <2>. QED
    BY <2>1, <2>2, <2>3, Zenon DEF g
<1>. QED
  BY <1>5, <1>6, Zenon

LEMMA SignMakes ==
  ASSUME RE!OctetsFit, NEW c, IsCall(c), ~c.device, NEW random, NEW b,
         RE!Encode(c, random) = RE!Ok(b), FitsModulus(c.key, b), failing = "nothing"
  PROVE  RE!Sign(c, random) = RE!Ok(Applied(c.key, c.key.d, b))
<1> DEFINE k == c.key
<1>1. IsKey(k) /\ b \in Seq(RE!Octet) /\ failing # "operation"
  BY DEF IsCall, FitsModulus
<1>2. RE!Encode(c, random).ok /\ RE!Encode(c, random).bytes = b
  BY AnswerForms, Zenon
<1>3. RE!Sign(c, random) = RE!PrivateOperation(k, b)
  BY <1>2, Zenon DEF RE!Sign
<1>4. RE!PrivateOperation(k, b).ok
  BY <1>1, OperationsFit
<1>5. RE!PrivateOperation(k, b) = RE!Ok(Applied(k, k.d, b))
  BY <1>1, <1>4, OperationsApply
<1>. QED
  BY <1>3, <1>5, Zenon

(* What is signed is verified.                                             *)
LEMMA SignedVerifies ==
  ASSUME RE!OctetsFit, RE!XorIsBitwise, RE!HashesToOctets, NEW c, IsCall(c), SignScheme(c),
         c.scheme = "raw" => ~c.device, NEW random \in RE!Random(c, c.input), RE!Sign(c, random).ok
  PROVE  \E s \in Seq(RE!Octet) : RE!Sign(c, random) = RE!Ok(s) /\ RE!Verify(c, s).ok
<1> DEFINE k == c.key
<1>1. IsKey(k)
  BY Zenon DEF IsCall
<1>2. RE!Encode(c, random).ok
  BY AnswerForms, Zenon DEF RE!Sign
<1>3. PICK b : Encoded(c, random, b)
  BY <1>2, EncodeReturns
<1>4. RE!Encode(c, random) = RE!Ok(b) /\ b \in Seq(RE!Octet) /\ (c.device => Len(b) <= RE!Size(k))
  BY <1>3, Zenon DEF Encoded
<1> DEFINE s == Applied(k, k.d, b)
<1>5. FitsModulus(k, b) /\ RE!Sign(c, random) = RE!Ok(s)
  BY <1>4, SignReturns
<1>6. Undoes(k, k.d, k.e) /\ Len(b) <= RE!Size(k)
  BY <1>1, <1>5, Zenon DEF IsKey, FitsModulus
<1>7. IsBlock(k, s) /\ Applied(k, k.e, s) = Widened(k, b)
  BY <1>1, <1>5, <1>6, FittingBlock
<1>8. Accepts(c, Widened(k, b))
  BY <1>3, <1>6, EncodedAccepted
<1> HIDE DEF s
<1>9. s \in Seq(RE!Octet)
  BY <1>7, Zenon DEF IsBlock
<1>10. RE!Verify(c, s).ok
  BY <1>7, <1>8, <1>9, VerifyIs, Zenon
<1>. QED
  BY <1>5, <1>9, <1>10, Zenon

(* What is verified can be signed.                                         *)
LEMMA VerifiedSigns ==
  ASSUME RE!OctetsFit, RE!XorIsBitwise, RE!HashesToOctets, NEW c, IsCall(c), SignScheme(c),
         ~c.device, failing = "nothing", NEW s \in Seq(RE!Octet), RE!Verify(c, s).ok
  PROVE  \E random \in RE!Random(c, c.input) : RE!Sign(c, random) = RE!Ok(s)
<1> DEFINE k == c.key
           t == Applied(k, k.e, s)
<1>1. IsKey(k)
  BY Zenon DEF IsCall
<1>2. Undoes(k, k.e, k.d)
  BY <1>1, Zenon DEF IsKey
<1>3. IsBlock(k, s) /\ Accepts(c, t)
  BY VerifyIs, Zenon
<1>4. IsBlock(k, t) /\ Applied(k, k.d, t) = s
  BY <1>1, <1>2, <1>3, AppliedUndone
<1> HIDE DEF t
<1>5. t \in Seq(RE!Octet) /\ Len(t) = RE!Size(k) /\ RE!FromOctets(t) \in 0 .. k.n - 1
  BY <1>4, Zenon DEF IsBlock
<1>6. PICK random \in RE!Random(c, c.input), b \in Seq(RE!Octet) :
        RE!Encode(c, random) = RE!Ok(b) /\ Len(b) <= RE!Size(k) /\ t = Widened(k, b)
  BY <1>3, <1>5, AcceptedEncoded
<1>7. RE!FromOctets(t) = RE!FromOctets(b) /\ \A x : Applied(k, x, t) = Applied(k, x, b)
  BY <1>1, <1>6, WidenedIs
<1>8. FitsModulus(k, b)
  BY <1>5, <1>6, <1>7, Zenon DEF FitsModulus
<1>9. RE!Sign(c, random) = RE!Ok(Applied(k, k.d, b))
  BY <1>6, <1>8, SignMakes
<1>10. Applied(k, k.d, b) = s
  BY <1>4, <1>7, Zenon
<1>. QED
  BY <1>9, <1>10, Zenon

-----------------------------------------------------------------------------
(* Encrypting and decrypting.                                              *)
CryptScheme(c) == c.scheme \in {"pkcs1_encrypt", "oaep"}
Opened(c, s) == IF c.scheme = "oaep" THEN RE!OaepUnpad(s, c.label, c.mgf) ELSE RE!Unpad(s)

LEMMA PadIs ==
  ASSUME RE!OctetsFit, NEW k, IsKey(k), NEW input \in Seq(RE!Octet), NEW padding
  PROVE  /\ RE!Pad(input, RE!Size(k), padding).ok <=>
              Len(input) <= RE!Size(k) - RE!Overhead /\ failing # "random"
         /\ RE!Pad(input, RE!Size(k), padding).ok =>
              RE!Pad(input, RE!Size(k), padding) = RE!Ok(PaddedBlock(padding, input))
<1> DEFINE room == RE!Size(k) - RE!Overhead
           a == RE!Pad(input, RE!Size(k), padding)
<1>1. RE!Room(RE!Size(k)) = room /\ room \in Nat
  BY RoomIs
<1> HIDE DEF room
<1>2. Len(input) > room <=> ~(Len(input) <= room)
  BY <1>1
<1>3. a = IF Len(input) > room THEN RE!Err("InputTooLong")
          ELSE IF failing = "random" THEN RE!Err("RandomnessUnavailable")
          ELSE RE!Ok(PaddedBlock(padding, input))
  BY <1>1, Zenon DEF RE!Pad, PaddedBlock
<1> HIDE DEF a
<1>4. /\ a.ok <=> Len(input) <= room /\ failing # "random"
      /\ a.ok => a = RE!Ok(PaddedBlock(padding, input))
  BY <1>2, <1>3, AnswerForms, Zenon
<1>. QED
  BY <1>4, Zenon DEF a, room

LEMMA EncodedOpens ==
  ASSUME RE!OctetsFit, RE!XorIsBitwise, RE!HashesToOctets, NEW c, IsCall(c), CryptScheme(c),
         c.scheme = "oaep" => RE!OaepRoom(RE!Size(c.key), c.label),
         NEW random \in RE!Random(c, c.input), RE!Encode(c, random).ok
  PROVE  \E b \in Seq(RE!Octet) :
           /\ RE!Encode(c, random) = RE!Ok(b) /\ Len(b) = RE!Size(c.key)
           /\ Opened(c, b) = RE!Ok(c.input)
<1> DEFINE k == c.key
           size == RE!Size(k)
           input == c.input
           label == c.label
           S == RE!Octet
<1>1. IsKey(k) /\ input \in Seq(S) /\ label \in Seq(S) /\ c.mgf \in DOMAIN DigestLength
  BY Zenon DEF IsCall
<1>2. /\ size \in Nat /\ LeastPadding \in Nat /\ RE!Overhead = LeastPadding + 3
      /\ RE!Overhead <= size
  BY <1>1, RoomIs
<1>3. CASE c.scheme = "pkcs1_encrypt"
  <2> DEFINE m == size - Len(input) - 3
             b == PaddedBlock(random, input)
  <2>1. RE!Encode(c, random) = RE!Pad(input, size, random)
    BY <1>3, EncodeCases, Zenon
  <2>2. RE!Encode(c, random) = RE!Ok(b) /\ Len(input) <= size - RE!Overhead
    BY <1>1, <2>1, PadIs, Zenon
  <2>3. random \in [1 .. m -> S \ {0}]
    <3>1. RE!Random(c, c.input) = [1 .. RE!Size(c.key) - Len(c.input) - 3 -> RE!Octet \ {0}]
      BY <1>3, RandomCases
    <3>. QED
      BY <3>1, Zenon
  <2> HIDE DEF input, size
  <2>4. m \in Nat /\ LeastPadding <= m /\ (m + 3) + Len(input) = size
    BY <1>1, <1>2, <2>2
  <2> HIDE DEF m
  <2>5. RE!Unpad(b) = RE!Ok(input)
    BY <1>1, <2>3, <2>4, PadUnpads
  <2>6. LaidOut(b, m, random, input)
    <3>1. random \in [1 .. m -> S]
      BY <2>3
    <3>. QED
      BY <1>1, <2>4, <3>1, PaddedBlockIs
  <2> HIDE DEF b
  <2>7. b \in Seq(S) /\ Len(b) = size
    BY <2>4, <2>6, Zenon DEF LaidOut
  <2>8. Opened(c, b) = RE!Unpad(b)
    BY <1>3 DEF Opened
  <2>. QED
    BY <2>2, <2>5, <2>7, <2>8, Zenon DEF input, size
<1>4. CASE c.scheme = "oaep"
  <2> DEFINE h == Len(label)
             w == size - Len(label) - Len(input) - 2
             db == OaepDb(label, w, input)
             b == Sealed(random, db, c.mgf)
             a == RE!OaepPad(input, size, label, c.mgf, random)
  <2>1. RE!Encode(c, random) = a
    BY <1>4, EncodeCases, Zenon
  <2>2. random \in [1 .. h -> S]
    BY <1>4, RandomCases, Zenon
  <2>3. a.ok
    BY <2>1, Zenon
  <2>4. h \in Nat /\ Len(input) \in Nat
    BY <1>1
  <2>5. a = RE!Ok(b)
    BY <1>2, <2>3, <2>4, OaepPadIs
  <2>6. Rooms(input, size, label)
    BY <1>2, <2>3, <2>4, OaepPadIs
  <2>7. RE!OaepRoom(size, label)
    BY <1>4
  <2>8. 2 * h + 2 <= size /\ label # << >> /\ Len(input) <= size - 2 * h - 2
    <3>1. Len(input) <= IF RE!OaepRoom(size, label) THEN size - 2 * h - 2 ELSE 0
      BY <2>6, Zenon DEF Rooms
    <3>. QED
      BY <2>6, <2>7, <3>1, Zenon DEF Rooms, RE!OaepRoom
  <2> HIDE DEF h, input, label, size, a
  <2>9. h # 0
    BY <1>1, <2>8, EmptySeq DEF h
  <2>10. w \in Nat /\ h <= w /\ (1 + h) + ((w + 1) + Len(input)) = size
    BY <1>2, <2>4, <2>8 DEF h
  <2> HIDE DEF w
  <2>11. IsDb(db, label, w, input)
    BY <1>1, <2>10, DbIs
  <2>12. HoldsInput(db, label, input)
    BY <1>1, <2>10, <2>11, DbReads DEF h
  <2>13. db \in Seq(S) /\ Len(db) = (w + 1) + Len(input)
    BY <2>11, Zenon DEF IsDb
  <2>14. random \in Seq(S) /\ Len(random) = h
    BY <2>2, <2>4
  <2> HIDE DEF db
  <2>15. b \in Seq(S) /\ Len(b) = (1 + h) + Len(db) /\ b[1] = 0 /\ DbOf(b, h, c.mgf) = db
    BY <1>1, <2>13, <2>14, SealOpens
  <2> HIDE DEF b
  <2>16. Len(b) = size
    BY <2>10, <2>13, <2>15, Zenon
  <2>17. Opens(b, label, c.mgf) /\ InputOf(RestOf(DbOf(b, Len(label), c.mgf), Len(label))) = input
    BY <2>8, <2>9, <2>12, <2>15, <2>16, Zenon DEF Opens, HoldsInput, h
  <2>18. Len(b) \in Nat /\ Len(label) \in Nat
    BY <1>1, <2>15
  <2>19. RE!OaepUnpad(b, label, c.mgf) = RE!Ok(input)
    <3>1. RE!OaepUnpad(b, label, c.mgf).ok
      BY <2>17, <2>18, OaepUnpadIs, Zenon
    <3>2. RE!OaepUnpad(b, label, c.mgf) = RE!Ok(InputOf(RestOf(DbOf(b, Len(label), c.mgf), Len(label))))
      BY <2>18, <3>1, OaepUnpadIs, Zenon
    <3>. QED
      BY <2>17, <3>2, Zenon
  <2>20. Opened(c, b) = RE!OaepUnpad(b, label, c.mgf)
    BY <1>4 DEF Opened, label
  <2>. QED
    BY <2>1, <2>5, <2>15, <2>16, <2>19, <2>20, Zenon DEF input, size
<1>. QED
  BY <1>3, <1>4, Zenon DEF CryptScheme

IsRecord(c) ==
  c = [operation |-> c.operation, scheme |-> c.scheme, key |-> c.key, device |-> c.device,
       hash |-> c.hash, mgf |-> c.mgf, salt_length |-> c.salt_length, label |-> c.label,
       input |-> c.input]
SameBut(d, c, input) ==
  /\ d.scheme = c.scheme /\ d.key = c.key /\ d.device = c.device /\ d.label = c.label
  /\ d.mgf = c.mgf /\ d.input = input

LEMMA InputReplaced ==
  ASSUME NEW c, IsRecord(c), NEW input PROVE SameBut([c EXCEPT !.input = input], c, input)
<1> DEFINE o == c.operation
           x == c.scheme
           k == c.key
           v == c.device
           h == c.hash
           g == c.mgf
           l == c.salt_length
           b == c.label
           i == c.input
<1>1. c = [operation |-> o, scheme |-> x, key |-> k, device |-> v, hash |-> h, mgf |-> g,
           salt_length |-> l, label |-> b, input |-> i]
  BY Zenon DEF IsRecord
<1>. QED
  BY <1>1 DEF SameBut

LEMMA OpenedEncodes ==
  ASSUME RE!OctetsFit, RE!XorIsBitwise, RE!HashesToOctets, NEW c, IsCall(c), CryptScheme(c),
         IsRecord(c), failing = "nothing", NEW t \in Seq(RE!Octet), Len(t) = RE!Size(c.key),
         Opened(c, t).ok
  PROVE  \E input \in Seq(RE!Octet) :
           /\ Opened(c, t) = RE!Ok(input)
           /\ \E random \in RE!Random(c, input) :
                RE!Encode([c EXCEPT !.input = input], random) = RE!Ok(t)
<1> DEFINE k == c.key
           size == RE!Size(k)
           label == c.label
           S == RE!Octet
           d(input) == [c EXCEPT !.input = input]
<1>1. IsKey(k) /\ label \in Seq(S) /\ c.mgf \in DOMAIN DigestLength /\ failing # "random"
  BY Zenon DEF IsCall
<1>2. /\ size \in Nat /\ LeastPadding \in Nat /\ RE!Overhead = LeastPadding + 3
      /\ RE!Overhead <= size
  BY <1>1, RoomIs
<1>3. ASSUME NEW input PROVE SameBut(d(input), c, input)
  BY InputReplaced
<1> HIDE DEF d
<1>4. CASE c.scheme = "pkcs1_encrypt"
  <2>1. Opened(c, t) = RE!Unpad(t)
    BY <1>4 DEF Opened
  <2>2. RE!Unpad(t).ok
    BY <2>1, Zenon
  <2>3. PICK input \in Seq(S), m \in Nat :
          /\ RE!Unpad(t) = RE!Ok(input) /\ LeastPadding <= m /\ Len(t) = (m + 3) + Len(input)
          /\ \E padding \in [1 .. m -> S \ {0}] : t = PaddedBlock(padding, input)
    BY <2>2, UnpadPads, Zenon
  <2>4. PICK padding \in [1 .. m -> S \ {0}] : t = PaddedBlock(padding, input)
    BY <2>3, Zenon
  <2>5. RE!Random(c, input) = [1 .. size - Len(input) - 3 -> S \ {0}]
    BY <1>4, RandomCases
  <2>6. m = size - Len(input) - 3 /\ Len(input) <= size - RE!Overhead
    BY <1>2, <2>3
  <2>7. padding \in RE!Random(c, input)
    BY <2>4, <2>5, <2>6, Zenon
  <2>8. RE!Encode(d(input), padding) = RE!Pad(input, size, padding)
    <3>1. d(input).scheme = "pkcs1_encrypt" /\ d(input).key = k /\ d(input).input = input
      BY <1>3, <1>4, Zenon DEF SameBut
    <3>2. RE!Encode(d(input), padding) = RE!Pad(d(input).input, RE!Size(d(input).key), padding)
      BY <3>1, EncodeCases, Zenon
    <3>. QED
      BY <3>1, <3>2, Zenon
  <2>9. RE!Pad(input, size, padding) = RE!Ok(t)
    <3>1. RE!Pad(input, size, padding).ok
      BY <1>1, <2>6, PadIs
    <3>2. RE!Pad(input, size, padding) = RE!Ok(PaddedBlock(padding, input))
      BY <1>1, <3>1, PadIs
    <3>. QED
      BY <2>4, <3>2, Zenon
  <2>. QED
    BY <2>1, <2>3, <2>7, <2>8, <2>9, Zenon DEF d
<1>5. CASE c.scheme = "oaep"
  <2> DEFINE h == Len(label)
             db == DbOf(t, h, c.mgf)
             seed == SeedOf(t, h, c.mgf)
             input == InputOf(RestOf(db, h))
  <2>1. Opened(c, t) = RE!OaepUnpad(t, label, c.mgf) /\ Len(t) \in Nat /\ h \in Nat
    BY <1>1, <1>5 DEF Opened
  <2>2. RE!OaepUnpad(t, label, c.mgf).ok
    BY <2>1, Zenon
  <2>3. RE!OaepUnpad(t, label, c.mgf) = RE!Ok(input) /\ Opens(t, label, c.mgf)
    BY <2>1, <2>2, OaepUnpadIs, Zenon
  <2>4. 2 * h + 2 <= Len(t) /\ h # 0 /\ t[1] = 0 /\ HoldsInput(db, label, input)
    BY <2>3, Zenon DEF Opens
  <2>5. 1 + h <= Len(t)
    BY <2>1, <2>4
  <2>6. /\ seed \in [1 .. h -> S] /\ db \in Seq(S) /\ Len(t) = (1 + h) + Len(db)
        /\ Sealed(seed, db, c.mgf) = t
    BY <1>1, <2>1, <2>4, <2>5, OpensSeal
  <2> HIDE DEF seed, db, input
  <2>7. h <= Len(db)
    BY <2>1, <2>4, <2>6
  <2>8. /\ input \in Seq(S)
        /\ \E w \in Nat : h <= w /\ Len(db) = (w + 1) + Len(input) /\ db = OaepDb(label, w, input)
    <3>1. ReadFromDb(db, label, input)
      BY <1>1, <2>4, <2>6, <2>7, ReadsDb
    <3>. QED
      BY <3>1, Zenon DEF ReadFromDb
  <2>9. PICK w \in Nat : h <= w /\ Len(db) = (w + 1) + Len(input) /\ db = OaepDb(label, w, input)
    BY <2>8, Zenon
  <2> HIDE DEF label
  <2>10. w = size - h - Len(input) - 2 /\ Len(input) <= size - 2 * h - 2 /\ 2 * h + 2 <= size
    <3> DEFINE i == Len(input)
    <3>1. i \in Nat /\ Len(t) = size
      BY <2>8
    <3> HIDE DEF i, h, size
    <3>2. size = (1 + h) + ((w + 1) + i) /\ 2 * h + 2 <= size /\ h <= w
      BY <2>4, <2>6, <2>9, <3>1, Zenon DEF i
    <3>3. h \in Nat /\ size \in Nat
      BY <1>2, <2>1
    <3>4. w = size - h - i - 2 /\ i <= size - 2 * h - 2
      BY <3>1, <3>2, <3>3
    <3>. QED
      BY <3>2, <3>4, Zenon DEF i
  <2>11. Rooms(input, size, label)
    <3>1. RE!OaepRoom(size, label) /\ label # << >>
      BY <2>4, <2>10, EmptySeq DEF RE!OaepRoom
    <3>. QED
      BY <2>10, <3>1, Zenon DEF Rooms
  <2>12. RE!Random(c, input) = [1 .. h -> S]
    BY <1>5, RandomCases, Zenon DEF label
  <2>13. RE!Encode(d(input), seed) = RE!OaepPad(input, size, label, c.mgf, seed)
    <3>1. /\ d(input).scheme = "oaep" /\ d(input).key = k /\ d(input).input = input
          /\ d(input).label = label /\ d(input).mgf = c.mgf
      BY <1>3, <1>5, Zenon DEF SameBut, label
    <3>2. RE!Encode(d(input), seed) =
            RE!OaepPad(d(input).input, RE!Size(d(input).key), d(input).label, d(input).mgf, seed)
      BY <3>1, EncodeCases, Zenon
    <3>. QED
      BY <3>1, <3>2, Zenon
  <2>14. RE!OaepPad(input, size, label, c.mgf, seed) = RE!Ok(t)
    <3>0. Len(input) \in Nat /\ Len(label) \in Nat
      BY <2>1, <2>8
    <3>1. RE!OaepPad(input, size, label, c.mgf, seed).ok
      BY <1>1, <1>2, <2>11, <3>0, OaepPadIs
    <3>2. RE!OaepPad(input, size, label, c.mgf, seed)
            = RE!Ok(Sealed(seed, OaepDb(label, size - Len(label) - Len(input) - 2, input), c.mgf))
      BY <1>2, <3>0, <3>1, OaepPadIs
    <3>. QED
      BY <2>6, <2>9, <2>10, <3>2, Zenon
  <2>. QED
    BY <2>1, <2>3, <2>6, <2>8, <2>12, <2>13, <2>14, Zenon DEF d
<1>. QED
  BY <1>4, <1>5, Zenon DEF CryptScheme

LEMMA BlocksFit == ASSUME NEW k, IsKey(k), NEW s, IsBlock(k, s) PROVE FitsModulus(k, s) /\ Len(s) <= RE!Size(k)
<1>1. Len(s) = RE!Size(k) /\ RE!Size(k) \in Nat
  BY Zenon DEF IsBlock, IsKey
<1>2. Len(s) <= RE!Size(k)
  BY <1>1
<1>. QED
  BY <1>2, Zenon DEF IsBlock, FitsModulus

LEMMA FittingIsBlock ==
  ASSUME NEW k, NEW s, FitsModulus(k, s), Len(s) = RE!Size(k) PROVE IsBlock(k, s)
  BY Zenon DEF FitsModulus, IsBlock

LEMMA EncryptReturns ==
  ASSUME RE!OctetsFit, NEW c, IsCall(c), NEW random, NEW b \in Seq(RE!Octet),
         RE!Encode(c, random) = RE!Ok(b), Len(b) = RE!Size(c.key), RE!Encrypt(c, random).ok
  PROVE  /\ IsBlock(c.key, b) /\ RE!Encrypt(c, random) = RE!Ok(Applied(c.key, c.key.e, b))
         /\ c.device => failing # "output"
<1> DEFINE k == c.key
           g == RE!Encrypt(c, random)
<1>1. IsKey(k)
  BY Zenon DEF IsCall
<1>2. RE!Encode(c, random).ok /\ RE!Encode(c, random).bytes = b
  BY AnswerForms, Zenon
<1>3. g = IF c.device THEN RE!Device(k, k.e, b) ELSE RE!PublicOperation(k, b)
  <2>1. RE!LabelFits(c)
    BY AnswerForms, Zenon DEF RE!Encrypt
  <2>. QED
    BY <1>2, <2>1, Zenon DEF RE!Encrypt
<1> HIDE DEF g
<1>4. g.ok
  BY DEF g
<1>5. CASE c.device
  <2>1. RE!Device(k, k.e, b).ok /\ g = RE!Device(k, k.e, b)
    BY <1>3, <1>4, <1>5, Zenon
  <2>2. Len(b) <= RE!Size(k)
    BY <1>1 DEF IsKey
  <2>3. FitsModulus(k, b) /\ failing # "output"
    BY <1>1, <2>1, <2>2, OperationsFit
  <2>4. RE!Device(k, k.e, b) = RE!Ok(Applied(k, k.e, b))
    BY <1>1, <2>1, OperationsApply
  <2>5. IsBlock(k, b)
    BY <2>3, FittingIsBlock
  <2>. QED
    BY <2>1, <2>3, <2>4, <2>5, Zenon DEF g
<1>6. CASE ~c.device
  <2>1. RE!PublicOperation(k, b).ok /\ g = RE!PublicOperation(k, b)
    BY <1>3, <1>4, <1>6, Zenon
  <2>2. IsBlock(k, b)
    BY <1>1, <2>1, OperationsFit
  <2>3. RE!PublicOperation(k, b) = RE!Ok(Applied(k, k.e, b))
    BY <1>1, <2>1, OperationsApply
  <2>. QED
    BY <1>6, <2>1, <2>2, <2>3, Zenon DEF g
<1>. QED
  BY <1>5, <1>6, Zenon

LEMMA DecryptReturns ==
  ASSUME RE!OctetsFit, NEW c, IsCall(c), NEW s, IsBlock(c.key, s), failing # "operation",
         RE!LabelFits(c), c.device => failing # "output"
  PROVE  RE!Decrypt(c, s) = Opened(c, Applied(c.key, c.key.d, s))
<1> DEFINE k == c.key
           t == Applied(k, k.d, s)
           a == IF c.device THEN RE!Device(k, k.d, s) ELSE RE!PrivateOperation(k, s)
<1>1. IsKey(k) /\ s \in Seq(RE!Octet) /\ Len(s) = RE!Size(k)
  BY Zenon DEF IsCall, IsBlock
<1>2. FitsModulus(k, s) /\ Len(s) <= RE!Size(k)
  BY <1>1, BlocksFit
<1>3. a = RE!Ok(t)
  <2>1. CASE c.device
    <3>1. RE!Device(k, k.d, s).ok
      BY <1>1, <1>2, <2>1, OperationsFit
    <3>2. RE!Device(k, k.d, s) = RE!Ok(t)
      BY <1>1, <3>1, OperationsApply
    <3>. QED
      BY <2>1, <3>2, Zenon
  <2>2. CASE ~c.device
    <3>1. RE!PrivateOperation(k, s).ok
      BY <1>1, <1>2, OperationsFit
    <3>2. RE!PrivateOperation(k, s) = RE!Ok(t)
      BY <1>1, <3>1, OperationsApply
    <3>. QED
      BY <2>2, <3>2, Zenon
  <2>. QED
    BY <2>1, <2>2, Zenon
<1>4. a.ok /\ a.bytes = t
  BY <1>3, AnswerForms, Zenon
<1>5. RE!Decrypt(c, s) =
        IF ~c.device /\ (Len(s) # RE!Size(k) \/ ~RE!LabelFits(c)) THEN RE!Err("InputTooLong")
        ELSE IF ~a.ok THEN a ELSE Opened(c, a.bytes)
  BY Zenon DEF RE!Decrypt, Opened
<1> HIDE DEF a, t
<1>6. RE!Decrypt(c, s) = Opened(c, t)
  BY <1>1, <1>4, <1>5, Zenon
<1>. QED
  BY <1>6 DEF t

LEMMA DecryptAccepts ==
  ASSUME RE!OctetsFit, NEW c, IsCall(c), ~c.device, NEW s \in Seq(RE!Octet), RE!Decrypt(c, s).ok
  PROVE  IsBlock(c.key, s) /\ RE!LabelFits(c)
<1> DEFINE k == c.key
           a == RE!PrivateOperation(k, s)
<1>1. IsKey(k)
  BY Zenon DEF IsCall
<1>2. RE!Decrypt(c, s) =
        IF Len(s) # RE!Size(k) \/ ~RE!LabelFits(c) THEN RE!Err("InputTooLong")
        ELSE IF ~a.ok THEN a ELSE Opened(c, a.bytes)
  BY Zenon DEF RE!Decrypt, Opened
<1> HIDE DEF a
<1>3. Len(s) = RE!Size(k) /\ a.ok /\ RE!LabelFits(c)
  BY <1>2, AnswerForms, Zenon
<1>4. FitsModulus(k, s)
  BY <1>1, <1>3, OperationsFit DEF a
<1>. QED
  BY <1>3, <1>4, FittingIsBlock

(* What is encrypted is decrypted.                                         *)
LEMMA EncryptedDecrypts ==
  ASSUME RE!OctetsFit, RE!XorIsBitwise, RE!HashesToOctets, NEW c, IsCall(c), CryptScheme(c),
         c.scheme = "oaep" => RE!OaepRoom(RE!Size(c.key), c.label), failing # "operation",
         NEW random \in RE!Random(c, c.input), RE!Encrypt(c, random).ok
  PROVE  RE!Decrypt(c, RE!Encrypt(c, random).bytes) = RE!Ok(c.input)
<1> DEFINE k == c.key
<1>1. IsKey(k)
  BY Zenon DEF IsCall
<1>2. RE!Encode(c, random).ok /\ RE!LabelFits(c)
  BY AnswerForms, Zenon DEF RE!Encrypt
<1>3. PICK b \in Seq(RE!Octet) :
        /\ RE!Encode(c, random) = RE!Ok(b) /\ Len(b) = RE!Size(k) /\ Opened(c, b) = RE!Ok(c.input)
  BY <1>2, EncodedOpens
<1> DEFINE s == Applied(k, k.e, b)
<1>4. IsBlock(k, b) /\ RE!Encrypt(c, random) = RE!Ok(s) /\ (c.device => failing # "output")
  BY <1>3, EncryptReturns
<1>5. Undoes(k, k.e, k.d)
  BY <1>1, Zenon DEF IsKey
<1>6. IsBlock(k, s) /\ Applied(k, k.d, s) = b
  BY <1>1, <1>4, <1>5, AppliedUndone
<1>7. RE!Encrypt(c, random).bytes = s
  BY <1>4, AnswerForms, Zenon
<1> HIDE DEF s
<1>8. RE!Decrypt(c, s) = Opened(c, b)
  BY <1>2, <1>4, <1>6, DecryptReturns
<1>. QED
  BY <1>3, <1>7, <1>8, Zenon

(* What is decrypted can be encrypted.                                     *)
LEMMA DecryptedEncrypts ==
  ASSUME RE!OctetsFit, RE!XorIsBitwise, RE!HashesToOctets, NEW c, IsCall(c), CryptScheme(c),
         IsRecord(c), ~c.device, failing = "nothing", NEW s \in Seq(RE!Octet), RE!Decrypt(c, s).ok
  PROVE  \E random \in RE!Random(c, RE!Decrypt(c, s).bytes) :
           RE!Encrypt([c EXCEPT !.input = RE!Decrypt(c, s).bytes], random) = RE!Ok(s)
<1> DEFINE k == c.key
           t == Applied(k, k.d, s)
<1>1. IsKey(k) /\ failing # "operation"
  BY DEF IsCall
<1>2. IsBlock(k, s) /\ RE!LabelFits(c)
  BY DecryptAccepts
<1>3. RE!Decrypt(c, s) = Opened(c, t)
  BY <1>1, <1>2, DecryptReturns
<1>4. Undoes(k, k.d, k.e)
  BY <1>1, Zenon DEF IsKey
<1>5. IsBlock(k, t) /\ Applied(k, k.e, t) = s
  BY <1>1, <1>2, <1>4, AppliedUndone
<1> HIDE DEF t
<1>6. t \in Seq(RE!Octet) /\ Len(t) = RE!Size(k)
  BY <1>5, Zenon DEF IsBlock
<1>7. Opened(c, t).ok
  BY <1>3, Zenon
<1>8. PICK input \in Seq(RE!Octet) :
        /\ Opened(c, t) = RE!Ok(input)
        /\ \E random \in RE!Random(c, input) :
             RE!Encode([c EXCEPT !.input = input], random) = RE!Ok(t)
  BY <1>6, <1>7, OpenedEncodes
<1>9. RE!Decrypt(c, s).bytes = input
  BY <1>3, <1>8, AnswerForms, Zenon
<1>10. PICK random \in RE!Random(c, input) : RE!Encode([c EXCEPT !.input = input], random) = RE!Ok(t)
  BY <1>8, Zenon
<1> DEFINE d == [c EXCEPT !.input = input]
<1>11. SameBut(d, c, input)
  BY InputReplaced
<1>12. RE!Encode(d, random) = RE!Ok(t)
  BY <1>10
<1>13. RE!Encrypt(d, random) = RE!Ok(s)
  <2> HIDE DEF d
  <2>1. d.key = k /\ ~d.device
    BY <1>11, Zenon DEF SameBut
  <2>2. RE!Encode(d, random).ok /\ RE!Encode(d, random).bytes = t
    BY <1>12, AnswerForms, Zenon
  <2>3. RE!Encrypt(d, random) = RE!PublicOperation(k, t)
    <3>1. RE!LabelFits(d)
      BY <1>2, <1>11, Zenon DEF SameBut, RE!LabelFits
    <3>. QED
      BY <2>1, <2>2, <3>1, Zenon DEF RE!Encrypt
  <2>4. RE!PublicOperation(k, t).ok
    BY <1>1, <1>5, <1>6, OperationsFit
  <2>5. RE!PublicOperation(k, t) = RE!Ok(Applied(k, k.e, t))
    BY <1>1, <1>6, <2>4, OperationsApply
  <2>. QED
    BY <1>5, <2>3, <2>5, Zenon
<1>. QED
  BY <1>9, <1>13, Zenon

-----------------------------------------------------------------------------
(* The calls.                                                              *)
LEMMA EncodersStay ==
  ASSUME failing' = failing
  PROVE  /\ \A x, y, z : RE!Pad(x, y, z)' = RE!Pad(x, y, z)
         /\ \A u, v, x, y, z : RE!OaepPad(u, v, x, y, z)' = RE!OaepPad(u, v, x, y, z)
         /\ \A u, x, y, z : RE!PssEncoded(u, x, y, z)' = RE!PssEncoded(u, x, y, z)
<1>1. ASSUME NEW x, NEW y, NEW z PROVE RE!Pad(x, y, z)' = RE!Pad(x, y, z)
  BY Zenon DEF RE!Pad
<1>2. ASSUME NEW u, NEW v, NEW x, NEW y, NEW z PROVE RE!OaepPad(u, v, x, y, z)' = RE!OaepPad(u, v, x, y, z)
  BY Zenon DEF RE!OaepPad
<1>3. ASSUME NEW u, NEW x, NEW y, NEW z PROVE RE!PssEncoded(u, x, y, z)' = RE!PssEncoded(u, x, y, z)
  BY Zenon DEF RE!PssEncoded
<1>. QED
  BY <1>1, <1>2, <1>3, Zenon

LEMMA EncodeStays ==
  ASSUME failing' = failing, NEW c, NEW random
  PROVE  RE!Encode(c, random)' = RE!Encode(c, random)
  BY EncodersStay DEF RE!Encode

LEMMA OperationsStay ==
  ASSUME failing' = failing
  PROVE  /\ \A k, s : RE!PrivateOperation(k, s)' = RE!PrivateOperation(k, s)
         /\ \A k, x, s : RE!Device(k, x, s)' = RE!Device(k, x, s)
<1>1. ASSUME NEW k, NEW s PROVE RE!PrivateOperation(k, s)' = RE!PrivateOperation(k, s)
  BY Zenon DEF RE!PrivateOperation
<1>2. ASSUME NEW k, NEW x, NEW s PROVE RE!Device(k, x, s)' = RE!Device(k, x, s)
  BY Zenon DEF RE!Device
<1>. QED
  BY <1>1, <1>2, Zenon

LEMMA CallsStay ==
  ASSUME failing' = failing, NEW c, NEW x
  PROVE  /\ RE!Sign(c, x)' = RE!Sign(c, x) /\ RE!Encrypt(c, x)' = RE!Encrypt(c, x)
         /\ RE!Decrypt(c, x)' = RE!Decrypt(c, x) /\ RE!Verify(c, x)' = RE!Verify(c, x)
<1>1. RE!Encode(c, x)' = RE!Encode(c, x) /\ RE!Encode(c, << >>)' = RE!Encode(c, << >>)
  BY EncodeStays
<1>2. RE!Sign(c, x)' = RE!Sign(c, x)
  BY <1>1, OperationsStay, Zenon DEF RE!Sign
<1>3. RE!Encrypt(c, x)' = RE!Encrypt(c, x)
  BY <1>1, OperationsStay, Zenon DEF RE!Encrypt
<1>4. RE!Decrypt(c, x)' = RE!Decrypt(c, x)
  BY OperationsStay, Zenon DEF RE!Decrypt
<1>5. RE!Verify(c, x)' = RE!Verify(c, x)
  BY <1>1, Zenon DEF RE!Verify
<1>. QED
  BY <1>2, <1>3, <1>4, <1>5, Zenon

(* What has been answered is what the call returns.                        *)
RsaAnswers ==
  state = "done" =>
    /\ request.operation = "sign" =>
         \E random \in RE!Random(request, request.input) : answer = RE!Sign(request, random)
    /\ request.operation = "encrypt" =>
         \E random \in RE!Random(request, request.input) : answer = RE!Encrypt(request, random)
    /\ request.operation = "decrypt" => answer = RE!Decrypt(request, argument)
    /\ request.operation = "verify" => answer = RE!Verify(request, argument)
RsaInputs ==
  /\ request \in RsaRequests
  /\ request.operation \in {"decrypt", "verify"} => failing = "nothing" /\ argument \in Seq(RE!Octet)

LEMMA RsaInitially ==
  ASSUME RE!CallsFit, RE!EncodingInit
  PROVE  RsaInputs /\ RsaAnswers
<1>1. RsaArguments \in SUBSET Seq(RE!Octet)
  BY DEF RE!CallsFit
<1>2. RsaInputs
  BY <1>1 DEF RE!EncodingInit, RsaInputs
<1>3. state # "done"
  BY DEF RE!EncodingInit
<1>. QED
  BY <1>2, <1>3, Zenon DEF RsaAnswers

LEMMA RsaStep ==
  ASSUME RsaInputs, RsaAnswers, [RE!EncodingNext]_rsaCall
  PROVE  RsaInputs' /\ RsaAnswers'
<1>0. ASSUME request' = request, argument' = argument, failing' = failing PROVE RsaInputs'
  BY <1>0 DEF RsaInputs
<1>1. ASSUME RE!SignCall PROVE RsaInputs' /\ RsaAnswers'
  <2>1. /\ request' = request /\ argument' = argument /\ failing' = failing
        /\ request.operation = "sign"
        /\ \E random \in RE!Random(request, request.input) : answer' = RE!Sign(request, random)
    BY <1>1 DEF RE!SignCall, RE!Perform
  <2>2. PICK random \in RE!Random(request, request.input) : answer' = RE!Sign(request, random)
    BY <2>1, Zenon
  <2>3. ASSUME NEW c, NEW x PROVE RE!Sign(c, x)' = RE!Sign(c, x)
    BY <2>1, CallsStay
  <2>. QED
    BY <1>0, <2>1, <2>2, <2>3 DEF RsaAnswers
<1>2. ASSUME RE!EncryptCall PROVE RsaInputs' /\ RsaAnswers'
  <2>1. /\ request' = request /\ argument' = argument /\ failing' = failing
        /\ request.operation = "encrypt"
        /\ \E random \in RE!Random(request, request.input) : answer' = RE!Encrypt(request, random)
    BY <1>2 DEF RE!EncryptCall, RE!Perform
  <2>2. PICK random \in RE!Random(request, request.input) : answer' = RE!Encrypt(request, random)
    BY <2>1, Zenon
  <2>3. ASSUME NEW c, NEW x PROVE RE!Encrypt(c, x)' = RE!Encrypt(c, x)
    BY <2>1, CallsStay
  <2>. QED
    BY <1>0, <2>1, <2>2, <2>3 DEF RsaAnswers
<1>3. ASSUME RE!DecryptCall PROVE RsaInputs' /\ RsaAnswers'
  <2>1. /\ request' = request /\ argument' = argument /\ failing' = failing
        /\ request.operation = "decrypt" /\ answer' = RE!Decrypt(request, argument)
    BY <1>3 DEF RE!DecryptCall, RE!Perform
  <2>2. ASSUME NEW c, NEW x PROVE RE!Decrypt(c, x)' = RE!Decrypt(c, x)
    BY <2>1, CallsStay
  <2>. QED
    BY <1>0, <2>1, <2>2 DEF RsaAnswers
<1>4. ASSUME RE!VerifyCall PROVE RsaInputs' /\ RsaAnswers'
  <2>1. /\ request' = request /\ argument' = argument /\ failing' = failing
        /\ request.operation = "verify" /\ answer' = RE!Verify(request, argument)
    BY <1>4 DEF RE!VerifyCall, RE!Perform
  <2>2. ASSUME NEW c, NEW x PROVE RE!Verify(c, x)' = RE!Verify(c, x)
    BY <2>1, CallsStay
  <2>. QED
    BY <1>0, <2>1, <2>2 DEF RsaAnswers
<1>5. ASSUME UNCHANGED rsaCall PROVE RsaInputs' /\ RsaAnswers'
  <2>1. /\ request' = request /\ argument' = argument /\ failing' = failing
        /\ state' = state /\ answer' = answer
    BY <1>5 DEF rsaCall
  <2>2. ASSUME NEW c, NEW x
        PROVE  /\ RE!Sign(c, x)' = RE!Sign(c, x) /\ RE!Encrypt(c, x)' = RE!Encrypt(c, x)
               /\ RE!Decrypt(c, x)' = RE!Decrypt(c, x) /\ RE!Verify(c, x)' = RE!Verify(c, x)
    BY <2>1, CallsStay
  <2>. QED
    BY <1>0, <2>1, <2>2 DEF RsaAnswers
<1>. QED
  BY <1>1, <1>2, <1>3, <1>4, <1>5, Zenon DEF RE!EncodingNext

(* What is expected of the constants.                                      *)
RsaConstants == RE!OctetsFit /\ RE!XorIsBitwise /\ RE!HashesToOctets /\ RE!KeysInvert /\ RE!CallsFit

LEMMA RsaDecryptsExactly ==
  ASSUME RsaConstants, RsaInputs, RsaAnswers PROVE DecryptionIsExact
<1> DEFINE c == request
           op == request.operation
<1>1. RE!OctetsFit /\ RE!XorIsBitwise /\ RE!HashesToOctets /\ RE!KeysInvert /\ RE!CallsFit
  BY Zenon DEF RsaConstants
<1>2. c \in RsaRequests
  BY Zenon DEF RsaInputs
<1>3. IsCall(c)
  BY <1>1, <1>2, RequestIsCall
<1>4. IsRecord(c)
  BY <1>1, <1>2, Zenon DEF RE!CallsFit, IsRecord
<1>5. op \in {"encrypt", "decrypt"} => CryptScheme(c)
  BY <1>1, <1>2, Zenon DEF RE!CallsFit, CryptScheme
<1>6. op \in {"verify", "decrypt"} => ~c.device
  BY <1>1, <1>2, Zenon DEF RE!CallsFit
<1>7. ASSUME RE!Answered("encrypt"), failing # "operation",
             c.scheme = "oaep" => RE!OaepRoom(RE!Size(c.key), c.label)
      PROVE  RE!Decrypt(c, answer.bytes) = RE!Ok(c.input)
  <2>1. state = "done" /\ op = "encrypt" /\ answer.ok
    BY <1>7, Zenon DEF RE!Answered
  <2>2. PICK random \in RE!Random(c, c.input) : answer = RE!Encrypt(c, random)
    BY <2>1, Zenon DEF RsaAnswers
  <2>3. CryptScheme(c)
    BY <1>5, <2>1
  <2>4. RE!Encrypt(c, random).ok
    BY <2>1, <2>2, Zenon
  <2>5. RE!Decrypt(c, RE!Encrypt(c, random).bytes) = RE!Ok(c.input)
    BY <1>1, <1>3, <1>7, <2>2, <2>3, <2>4, EncryptedDecrypts
  <2>. QED
    BY <2>2, <2>5, Zenon
<1>8. ASSUME RE!Answered("decrypt")
      PROVE  \E random \in RE!Random(c, answer.bytes) :
               RE!Encrypt([c EXCEPT !.input = answer.bytes], random) = RE!Ok(argument)
  <2>1. state = "done" /\ op = "decrypt" /\ answer.ok
    BY <1>8, Zenon DEF RE!Answered
  <2>2. answer = RE!Decrypt(c, argument)
    BY <2>1, Zenon DEF RsaAnswers
  <2>3. CryptScheme(c) /\ ~c.device
    BY <1>5, <1>6, <2>1
  <2>4. failing = "nothing" /\ argument \in Seq(RE!Octet)
    BY <2>1 DEF RsaInputs
  <2>5. RE!Decrypt(c, argument).ok
    BY <2>1, <2>2, Zenon
  <2>6. \E random \in RE!Random(c, RE!Decrypt(c, argument).bytes) :
          RE!Encrypt([c EXCEPT !.input = RE!Decrypt(c, argument).bytes], random) = RE!Ok(argument)
    BY <1>1, <1>3, <1>4, <2>3, <2>4, <2>5, DecryptedEncrypts
  <2>. QED
    BY <2>2, <2>6, Zenon
<1>. QED
  BY <1>7, <1>8, Zenon DEF DecryptionIsExact, RE!DecryptionIsExact

LEMMA RsaVerifiesExactly ==
  ASSUME RsaConstants, RsaInputs, RsaAnswers PROVE VerificationIsExact
<1> DEFINE c == request
           op == request.operation
<1>1. RE!OctetsFit /\ RE!XorIsBitwise /\ RE!HashesToOctets /\ RE!KeysInvert /\ RE!CallsFit
  BY Zenon DEF RsaConstants
<1>2. c \in RsaRequests
  BY Zenon DEF RsaInputs
<1>3. IsCall(c)
  BY <1>1, <1>2, RequestIsCall
<1>4. op \in {"sign", "verify"} => SignScheme(c)
  BY <1>1, <1>2, Zenon DEF RE!CallsFit, SignScheme
<1>5. (op \in {"verify", "decrypt"} => ~c.device) /\ (c.scheme = "raw" => ~c.device)
  BY <1>1, <1>2, Zenon DEF RE!CallsFit
<1>6. ASSUME SignScheme(c), NEW random \in RE!Random(c, c.input), RE!Sign(c, random).ok
      PROVE  RE!Verify(c, RE!Sign(c, random).bytes).ok
  <2>1. \E s \in Seq(RE!Octet) : RE!Sign(c, random) = RE!Ok(s) /\ RE!Verify(c, s).ok
    BY <1>1, <1>3, <1>5, <1>6, SignedVerifies
  <2>2. PICK s : RE!Sign(c, random) = RE!Ok(s) /\ RE!Verify(c, s).ok
    BY <2>1, Zenon
  <2>. QED
    BY <2>2, AnswerForms, Zenon
<1>7. ASSUME RE!Answered("sign") PROVE RE!Verify(c, answer.bytes).ok
  <2>1. state = "done" /\ op = "sign" /\ answer.ok
    BY <1>7, Zenon DEF RE!Answered
  <2>2. PICK random \in RE!Random(c, c.input) : answer = RE!Sign(c, random)
    BY <2>1, Zenon DEF RsaAnswers
  <2>3. SignScheme(c)
    BY <1>4, <2>1
  <2>. QED
    BY <1>6, <2>1, <2>2, <2>3, Zenon
<1>8. ASSUME state = "done", op = "verify"
      PROVE  answer.ok <=> \E random \in RE!Random(c, c.input) : RE!Sign(c, random) = RE!Ok(argument)
  <2>1. answer = RE!Verify(c, argument)
    BY <1>8, Zenon DEF RsaAnswers
  <2>2. SignScheme(c) /\ ~c.device
    BY <1>4, <1>5, <1>8
  <2>3. failing = "nothing" /\ argument \in Seq(RE!Octet)
    BY <1>8 DEF RsaInputs
  <2>4. RE!Verify(c, argument).ok =>
          \E random \in RE!Random(c, c.input) : RE!Sign(c, random) = RE!Ok(argument)
    BY <1>1, <1>3, <2>2, <2>3, VerifiedSigns
  <2>5. ASSUME NEW random \in RE!Random(c, c.input), RE!Sign(c, random) = RE!Ok(argument)
        PROVE  RE!Verify(c, argument).ok
    <3>1. RE!Sign(c, random).ok /\ RE!Sign(c, random).bytes = argument
      BY <2>5, AnswerForms, Zenon
    <3>. QED
      BY <1>6, <2>2, <3>1, Zenon
  <2>. QED
    BY <2>1, <2>4, <2>5, Zenon
<1>. QED
  BY <1>7, <1>8, Zenon DEF VerificationIsExact, RE!VerificationIsExact

(* Decryption inverts encryption and accepts nothing else, for every key,  *)
(* octet size and hash that satisfies the hypotheses.                      *)
THEOREM RsaDecryptionInverts ==
  ASSUME RE!OctetsFit, RE!XorIsBitwise, RE!HashesToOctets, RE!KeysInvert, RE!CallsFit
  PROVE  RsaCallsSpec => []DecryptionIsExact
<1>0. RsaConstants
  BY Zenon DEF RsaConstants
<1>1. RE!EncodingInit => RsaInputs /\ RsaAnswers
  BY RsaInitially
<1>2. RsaInputs /\ RsaAnswers /\ [RE!EncodingNext]_rsaCall => (RsaInputs /\ RsaAnswers)'
  BY RsaStep
<1>3. RsaInputs /\ RsaAnswers => DecryptionIsExact
  BY <1>0, RsaDecryptsExactly
<1>. QED
  BY <1>1, <1>2, <1>3, PTL DEF RsaCallsSpec

(* Verification accepts what signing makes and nothing else.               *)
THEOREM RsaVerificationInverts ==
  ASSUME RE!OctetsFit, RE!XorIsBitwise, RE!HashesToOctets, RE!KeysInvert, RE!CallsFit
  PROVE  RsaCallsSpec => []VerificationIsExact
<1>0. RsaConstants
  BY Zenon DEF RsaConstants
<1>1. RE!EncodingInit => RsaInputs /\ RsaAnswers
  BY RsaInitially
<1>2. RsaInputs /\ RsaAnswers /\ [RE!EncodingNext]_rsaCall => (RsaInputs /\ RsaAnswers)'
  BY RsaStep
<1>3. RsaInputs /\ RsaAnswers => VerificationIsExact
  BY <1>0, RsaVerifiesExactly
<1>. QED
  BY <1>1, <1>2, <1>3, PTL DEF RsaCallsSpec

-----------------------------------------------------------------------------
(* The validation of private keys: RsaKeys on its own.                     *)

(* The instances of Rsa use the numbers of the lemmas.                     *)
LEMMA KeyNumbers ==
  /\ RK!TwoTo = TwoTo /\ \A n : RK!Bits(n) = Bits(n)
  /\ \A b, x, n : RK!ModPow(b, x, n) = ModPow(b, x, n)
  /\ \A x, y : RK!Gcd(x, y) = Gcd(x, y) /\ RK!Lcm(x, y) = Lcm(x, y)
  /\ \A n : RK!TrailingZeros(n) = TrailingZeros(n) /\ RK!IsPrime(n) = IsPrime(n)
  /\ \A d, n : RK!Divides(d, n) = Divides(d, n)
<1>1. RK!TwoTo = TwoTo
  BY Zenon DEF RK!TwoTo, TwoTo
<1>2. \A n : RK!Bits(n) = Bits(n)
  BY Zenon DEF RK!Bits, Bits
<1>3. \A b, x, n : RK!ModPow(b, x, n) = ModPow(b, x, n)
  BY Zenon DEF RK!ModPow, ModPow
<1>4. \A x, y : RK!Gcd(x, y) = Gcd(x, y)
  BY Zenon DEF RK!Gcd, Gcd
<1>5. \A x, y : RK!Lcm(x, y) = Lcm(x, y)
  BY <1>4, Zenon DEF RK!Lcm, Lcm
<1>6. \A n : RK!TrailingZeros(n) = TrailingZeros(n)
  BY <1>1, <1>2, Zenon DEF RK!TrailingZeros, TrailingZeros
<1>7. \A d, n : RK!Divides(d, n) = Divides(d, n)
  BY Zenon DEF RK!Divides, Divides
<1>8. \A n : RK!IsPrime(n) = IsPrime(n)
  BY <1>7, Zenon DEF RK!IsPrime, IsPrime
<1>. QED
  BY <1>1, <1>2, <1>3, <1>4, <1>5, <1>6, <1>7, <1>8, Zenon

(* What every private key has: two factors, and exponents.                 *)
Composed(k) ==
  /\ k.n \in Nat /\ k.e \in Nat /\ k.d \in Nat
  /\ k.primes[1] \in Nat /\ k.primes[1] > 1 /\ k.primes[2] \in Nat /\ k.primes[2] > 1
  /\ k.primes[1] * k.primes[2] = k.n

LEMMA ComponentsCompose ==
  ASSUME NEW n \in Nat, NEW e \in Nat, NEW d \in Nat, NEW primes \in Seq(Nat),
         NEW k \in RK!FromComponents(n, e, d, primes)
  PROVE  Composed(k)
<1>1. PICK ps \in IF primes = << >> THEN RK!Recovered(n) ELSE {primes} :
        k = RK!Key(n, e, d, ps) /\ Len(ps) = 2 /\ ps[1] > 1 /\ ps[2] > 1 /\ ps[1] * ps[2] = n
  BY DEF RK!FromComponents
<1>2. ps[1] \in Nat /\ ps[2] \in Nat
  <2>1. CASE primes = << >>
    <3>1. ps \in RK!Recovered(n)
      BY <1>1, <2>1
    <3>2. PICK p \in 2 .. n - 1 : ps = <<p, n \div p>>
      BY <3>1, Zenon DEF RK!Recovered
    <3>3. p \in Nat \ {0} /\ n \div p \in Nat
      <4>1. p \in Nat \ {0}
        OBVIOUS
      <4>. QED
        BY <4>1, QuotientIsNat
    <3>. QED
      BY <3>2, <3>3
  <2>2. CASE primes # << >>
    <3>1. ps = primes /\ Len(primes) = 2
      BY <1>1, <2>2
    <3>2. 1 \in 1 .. Len(primes) /\ 2 \in 1 .. Len(primes)
      BY <3>1
    <3>3. primes[1] \in Nat /\ primes[2] \in Nat
      BY <3>2, ElementOfSeq
    <3>. QED
      BY <3>1, <3>3
  <2>. QED
    BY <2>1, <2>2
<1>3. k.n = n /\ k.e = e /\ k.d = d /\ k.primes = ps
  BY <1>1 DEF RK!Key
<1>. QED
  BY <1>1, <1>2, <1>3 DEF Composed

LEMMA LambdaIsNat ==
  ASSUME NEW p \in Nat, p > 1, NEW q \in Nat, q > 1
  PROVE  RK!Lambda(p, q) \in Nat \ {0} /\ RK!Lambda(p, q) = Lcm(p - 1, q - 1)
<1>1. p - 1 \in Nat \ {0} /\ q - 1 \in Nat \ {0}
  OBVIOUS
<1>2. Lcm(p - 1, q - 1) \in Nat \ {0}
  BY <1>1, LcmFactors
<1>3. RK!Lambda(p, q) = Lcm(p - 1, q - 1)
  BY KeyNumbers, Zenon DEF RK!Lambda
<1>. QED
  BY <1>2, <1>3

LEMMA FactorsCompose ==
  ASSUME NEW p \in Nat, NEW q \in Nat, NEW e \in Nat, NEW k \in RK!FromPQ(p, q, e)
  PROVE  Composed(k)
<1>1. p \in Nat /\ q \in Nat /\ ~(p = q \/ p < 2 \/ q < 2)
  BY DEF RK!FromPQ
<1>2. p > 1 /\ q > 1
  BY <1>1
<1> DEFINE L == RK!Lambda(p, q)
<1>3. PICK d \in 1 .. L - 1 : k \in RK!FromComponents(p * q, e, d, <<p, q>>)
  BY <1>1, Zenon DEF RK!FromPQ
<1>4. L \in Nat
  BY <1>2, LambdaIsNat
<1> HIDE DEF L
<1>5. d \in Nat /\ p * q \in Nat /\ <<p, q>> \in Seq(Nat)
  BY <1>4
<1>. QED
  BY <1>3, <1>5, ComponentsCompose

-----------------------------------------------------------------------------
(* The sizes, and what the checks before the tests establish.              *)
LEMMA SizesAre ==
  ASSUME RK!InputsFit
  PROVE  /\ PrivateSizes.MinBits \in Nat /\ PrivateSizes.MinBits # 0 /\ PrivateSizes.MaxBits \in Nat
         /\ LeastMargin \in Nat /\ 2 * LeastMargin <= PrivateSizes.MinBits
         /\ TrialMessages \subseteq 0 .. TwoTo[PrivateSizes.MinBits - 1] - 1
         /\ RK!Rounds \in Nat /\ RK!Rounds # 0
<1>1. RK!SizesFit
  BY DEF RK!InputsFit
<1>2. PrivateSizes.Strength \in Nat
  BY <1>1 DEF RK!SizesFit
<1>3. RK!Rounds = ((PrivateSizes.Strength + (2 - 1)) \div 2) + 1
  BY <1>2 DEF RK!Rounds, RK!CeilDiv
<1>4. RK!Rounds \in Nat /\ RK!Rounds # 0
  <2> DEFINE s == PrivateSizes.Strength
  <2> HIDE DEF s
  <2>1. s \in Nat => ((s + (2 - 1)) \div 2) \in Nat
    OBVIOUS
  <2>. QED
    BY <1>2, <1>3, <2>1 DEF s
<1>5. RK!TwoTo = TwoTo
  BY KeyNumbers
<1>. QED
  BY <1>1, <1>4, <1>5 DEF RK!InputsFit, RK!SizesFit

LEMMA SoundIs ==
  ASSUME RK!InputsFit, NEW k, Composed(k), RK!Sound(k),
         NEW p, p = k.primes[1], NEW q, q = k.primes[2]
  PROVE  /\ p # q /\ p % 2 = 1 /\ q % 2 = 1
         /\ k.d \in 1 .. RK!Lambda(p, q) - 1 /\ (k.d * k.e) % RK!Lambda(p, q) = 1
         /\ \A m \in TrialMessages : m \in 0 .. k.n - 1
<1> DEFINE bits == Bits(k.n)
           min == PrivateSizes.MinBits
<1>1. k.n \in Nat /\ k.e \in Nat /\ k.d \in Nat /\ p \in Nat /\ q \in Nat /\ p > 1 /\ q > 1
  BY DEF Composed
<1>2. bits \in Nat /\ Spans(k.n, bits)
  BY <1>1, BitsAre
<1>3. RK!Bits(k.n) = bits /\ RK!TwoTo = TwoTo
  BY KeyNumbers, Zenon
<1>4. /\ RK!SupportedSize(bits) /\ RK!FactorsAreSound(k, bits) /\ RK!ExponentsAreSound(k, bits)
  <2> HIDE DEF bits
  <2>. QED
    BY <1>3, Zenon DEF RK!Sound
<1> HIDE DEF bits
<1>5. bits >= min /\ min \in Nat /\ min # 0 /\ 2 * LeastMargin <= min /\ LeastMargin \in Nat
  BY <1>4, SizesAre DEF RK!SupportedSize
<1>6. p # q /\ p % 2 = 1 /\ q % 2 = 1
  <2>1. p % 2 = 1 /\ q % 2 = 1 /\ RK!Difference(p, q) > TwoTo[(bits \div 2) - LeastMargin]
    BY <1>3, <1>4, Zenon DEF RK!FactorsAreSound
  <2> HIDE DEF min
  <2>2. (bits \div 2) - LeastMargin \in Nat
    BY <1>2, <1>5
  <2>3. TwoTo[(bits \div 2) - LeastMargin] \in Nat \ {0}
    BY <2>2, PowersOfTwo
  <2>4. p = q => RK!Difference(p, q) = 0
    BY <1>1 DEF RK!Difference
  <2>. QED
    BY <2>1, <2>3, <2>4
<1>7. k.d \in 1 .. RK!Lambda(p, q) - 1 /\ (k.d * k.e) % RK!Lambda(p, q) = 1
  <2>1. TwoTo[bits \div 2] < k.d /\ k.d < RK!Lambda(p, q) /\ (k.d * k.e) % RK!Lambda(p, q) = 1
    BY <1>3, <1>4, Zenon DEF RK!ExponentsAreSound
  <2>2. bits \div 2 \in Nat
    BY <1>2
  <2>3. TwoTo[bits \div 2] \in Nat
    BY <2>2, PowersOfTwo
  <2>4. RK!Lambda(p, q) \in Nat
    BY <1>1, LambdaIsNat
  <2>. QED
    BY <1>1, <2>1, <2>3, <2>4
<1>8. ASSUME NEW m \in TrialMessages PROVE m \in 0 .. k.n - 1
  <2>1. m \in 0 .. TwoTo[min - 1] - 1
    BY SizesAre
  <2>2. min - 1 \in Nat /\ bits - 1 \in Nat /\ min - 1 <= bits - 1
    BY <1>2, <1>5
  <2> HIDE DEF min
  <2>3. TwoTo[min - 1] <= TwoTo[bits - 1] /\ TwoTo[min - 1] \in Nat /\ TwoTo[bits - 1] \in Nat
    BY <2>2, PowersIncrease, PowersOfTwo
  <2>4. TwoTo[bits - 1] <= k.n
    BY <1>2, <2>2 DEF Spans
  <2>. QED
    BY <1>1, <2>1, <2>3, <2>4
<1>. QED
  BY <1>6, <1>7, <1>8

(* Whatever passes a round is a strong liar, or the number a prime.        *)
LEMMA PassingIsStrong ==
  ASSUME NEW n \in Nat, n > 1, n % 2 = 1, NEW base, RK!Passes(n, base)
  PROVE  RK!StrongLiar(n, base)
<1> DEFINE a == RK!A(n)
           M == RK!M(n)
<1>1. a = TrailingZeros(n - 1) /\ M = (n - 1) \div TwoTo[a] /\ RK!Upper(n) = n - 1
  BY KeyNumbers, Zenon DEF RK!A, RK!M, RK!Upper
<1>2. a \in Nat /\ a # 0
  <2>1. n - 1 \in Nat \ {0} /\ (n - 1) % 2 = 0
    OBVIOUS
  <2>. QED
    BY <1>1, <2>1, TrailingZerosAre
<1>3. M \in Nat
  <2>1. TwoTo[a] \in Nat \ {0} /\ n - 1 \in Nat
    BY <1>2, PowersOfTwo
  <2>. QED
    BY <1>1, <2>1, QuotientIsNat
<1>4. RK!TwoTo = TwoTo /\ TwoTo[0] = 1
  BY KeyNumbers, PowersOfTwo
<1> DEFINE z(i) == RK!Squared(n, base, i)
           E == RK!Ends(n, base)
<1>5. \A i : z(i) = RK!ModPow(base, M * TwoTo[i], n)
  BY <1>4, Zenon DEF RK!Squared
<1>6. RK!StrongLiar(n, base) <=>
        RK!ModPow(base, M, n) = 1 \/ \E i \in 0 .. a - 1 : z(i) = n - 1
  BY <1>4, <1>5, Zenon DEF RK!StrongLiar
<1>7. z(0) = RK!ModPow(base, M, n)
  <2> HIDE DEF M
  <2>1. M * TwoTo[0] = M
    BY <1>3, <1>4
  <2>. QED
    BY <1>5, <2>1
<1>8. E \subseteq Nat /\ E \subseteq 1 .. a - 1
  <2>1. E \subseteq 1 .. a - 1
    BY Zenon DEF RK!Ends
  <2>. QED
    BY <1>2, <2>1
<1>9. E # {} => RK!FirstEnd(n, base) \in E
  <2> HIDE DEF E
  <2>1. E # {} => \E i \in E : \A j \in E : i <= j
    BY <1>8, LeastExists, Zenon
  <2>2. RK!FirstEnd(n, base) = CHOOSE i \in E : \A j \in E : i <= j
    BY Zenon DEF RK!FirstEnd, E
  <2>. QED
    BY <2>1, <2>2, Zenon
<1>10. z(0) \in {1, n - 1} \/ (E # {} /\ z(RK!FirstEnd(n, base)) = n - 1)
  BY <1>1, Zenon DEF RK!Passes
<1> HIDE DEF z, E, M, a
<1>11. CASE z(0) \in {1, n - 1}
  BY <1>2, <1>6, <1>7, <1>11
<1>12. CASE E # {} /\ z(RK!FirstEnd(n, base)) = n - 1
  <2> DEFINE i == RK!FirstEnd(n, base)
  <2>1. i \in 1 .. a - 1 /\ z(i) = n - 1
    BY <1>8, <1>9, <1>12
  <2> HIDE DEF i
  <2>2. i \in 0 .. a - 1
    BY <1>2, <2>1
  <2>. QED
    BY <1>6, <2>1, <2>2, Zenon
<1>. QED
  BY <1>10, <1>11, <1>12

(* A handle has a key with two factors; if it is validated, the checks     *)
(* hold of the key, and both its factors passed every round.               *)
HandleIsGood ==
  /\ handle = RK!NoKey \/ Composed(handle.key)
  /\ handle.validated =>
       Composed(handle.key) /\ RK!Sound(handle.key) /\ handle.liars = <<RK!Rounds, RK!Rounds>>

(* The checks hold of the key under test.                                  *)
CandidateIsGood == stage # "idle" => Composed(candidate) /\ RK!Sound(candidate)

(* Every round that is behind it was passed with a strong liar.            *)
RoundsAreCounted ==
  /\ stage = "test" =>
       /\ factor \in {1, 2} /\ passed \in 0 .. RK!Rounds - 1
       /\ liars = IF factor = 1 THEN <<passed, 0>> ELSE <<RK!Rounds, passed>>
  /\ stage = "pairwise" => liars = <<RK!Rounds, RK!Rounds>>

KeysAreGood == HandleIsGood /\ CandidateIsGood /\ RoundsAreCounted

LEMMA FailKeeps == ASSUME KeysAreGood, NEW refusal, RK!Fail(refusal) PROVE KeysAreGood'
<1>1. stage' = "idle" /\ handle' = handle
  BY DEF RK!Fail
<1>2. HandleIsGood'
  BY <1>1 DEF KeysAreGood, HandleIsGood
<1>. QED
  BY <1>1, <1>2 DEF KeysAreGood, CandidateIsGood, RoundsAreCounted

LEMMA AdmitKeeps ==
  ASSUME RK!InputsFit, KeysAreGood, NEW k, Composed(k), RK!Admit(k) PROVE KeysAreGood'
<1>1. CASE RK!Sound(k)
  <2>1. /\ stage' = "test" /\ candidate' = k /\ factor' = 1 /\ passed' = 0 /\ liars' = <<0, 0>>
        /\ handle' = handle
    BY <1>1 DEF RK!Admit
  <2>2. HandleIsGood'
    BY <2>1 DEF KeysAreGood, HandleIsGood
  <2>3. CandidateIsGood'
    BY <1>1, <2>1 DEF CandidateIsGood
  <2>4. RoundsAreCounted'
    BY <2>1, SizesAre DEF RoundsAreCounted
  <2>. QED
    BY <2>2, <2>3, <2>4 DEF KeysAreGood
<1>2. CASE ~RK!Sound(k)
  <2>1. RK!Fail("InvalidPrivateKey")
    BY <1>2, Zenon DEF RK!Admit
  <2>. QED
    BY <2>1, FailKeeps
<1>. QED
  BY <1>1, <1>2

LEMMA FinishKeeps ==
  ASSUME RK!InputsFit, KeysAreGood, NEW k, Composed(k), RK!FinishImport(k) PROVE KeysAreGood'
<1>1. RK!Fail("InvalidPrivateKey") \/ \E normalized \in RK!Normalized(k) : RK!Admit(normalized)
  BY Zenon DEF RK!FinishImport
<1>2. CASE RK!Fail("InvalidPrivateKey")
  BY <1>2, FailKeeps
<1>3. ASSUME NEW normalized \in RK!Normalized(k), RK!Admit(normalized) PROVE KeysAreGood'
  <2>1. k.primes[1] \in Nat /\ k.primes[2] \in Nat /\ k.e \in Nat
    BY DEF Composed
  <2>2. normalized \in RK!FromPQ(k.primes[1], k.primes[2], k.e)
    BY <1>3, Zenon DEF RK!Normalized
  <2>3. Composed(normalized)
    BY <2>1, <2>2, FactorsCompose
  <2>. QED
    BY <1>3, <2>3, AdmitKeeps
<1>. QED
  BY <1>1, <1>2, <1>3

LEMMA RestoreKeeps ==
  ASSUME KeysAreGood, NEW keys, \A k \in keys : Composed(k), RK!Restore(keys) PROVE KeysAreGood'
<1>1. CASE keys = {}
  <2>1. RK!Fail("InvalidPrivateKey")
    BY <1>1, Zenon DEF RK!Restore
  <2>. QED
    BY <2>1, FailKeeps
<1>2. CASE keys # {}
  <2>1. /\ \E k \in keys : handle' = [validated |-> FALSE, key |-> k, liars |-> <<0, 0>>]
        /\ UNCHANGED <<stage, candidate, factor, passed, liars>>
    BY <1>2 DEF RK!Restore, RK!test
  <2>2. HandleIsGood'
    BY <2>1 DEF HandleIsGood
  <2>3. CandidateIsGood' /\ RoundsAreCounted'
    BY <2>1 DEF KeysAreGood, CandidateIsGood, RoundsAreCounted
  <2>. QED
    BY <2>2, <2>3 DEF KeysAreGood
<1>. QED
  BY <1>1, <1>2

LEMMA TestedIs ==
  ASSUME RK!InputsFit, KeysAreGood, stage = "test", NEW n, n = candidate.primes[factor]
  PROVE  n \in Nat /\ n > 1 /\ n % 2 = 1 /\ RK!Tested = n
<1>1. Composed(candidate) /\ RK!Sound(candidate) /\ factor \in {1, 2}
  BY DEF KeysAreGood, CandidateIsGood, RoundsAreCounted
<1> DEFINE p == candidate.primes[1]
           q == candidate.primes[2]
<1>2. p \in Nat /\ p > 1 /\ q \in Nat /\ q > 1
  BY <1>1 DEF Composed
<1>3. p % 2 = 1 /\ q % 2 = 1
  BY <1>1, SoundIs
<1>4. RK!Tested = n
  BY Zenon DEF RK!Tested
<1>5. n = p \/ n = q
  BY <1>1
<1> HIDE DEF p, q
<1>. QED
  BY <1>2, <1>3, <1>4, <1>5

LEMMA TestKeeps ==
  ASSUME RK!InputsFit, KeysAreGood, stage = "test", NEW base, RK!Test(base) PROVE KeysAreGood'
<1> DEFINE n == candidate.primes[factor]
           R == RK!Rounds
<1>1. n \in Nat /\ n > 1 /\ n % 2 = 1 /\ RK!Tested = n
  BY TestedIs
<1> HIDE DEF n
<1>2. CASE ~RK!Passes(n, base)
  <2>1. RK!Fail("InvalidPrivateKey")
    BY <1>1, <1>2, Zenon DEF RK!Test
  <2>. QED
    BY <2>1, FailKeeps
<1>3. CASE RK!Passes(n, base)
  <2>1. RK!StrongLiar(n, base)
    BY <1>1, <1>3, PassingIsStrong
  <2>2. /\ stage' = RK!Behind[1] /\ factor' = RK!Behind[2] /\ passed' = RK!Behind[3]
        /\ liars' = [liars EXCEPT ![factor] = @ + 1]
        /\ handle' = handle /\ candidate' = candidate
    BY <1>1, <1>3, <2>1, Zenon DEF RK!Test
  <2>3. HandleIsGood' /\ CandidateIsGood'
    BY <2>2 DEF KeysAreGood, HandleIsGood, CandidateIsGood
  <2>4. /\ factor \in {1, 2} /\ passed \in 0 .. R - 1 /\ R \in Nat /\ R # 0
        /\ liars = IF factor = 1 THEN <<passed, 0>> ELSE <<R, passed>>
    BY SizesAre DEF KeysAreGood, RoundsAreCounted
  <2>5. RK!Behind = IF passed + 1 < R THEN <<"test", factor, passed + 1>>
                    ELSE IF factor = 1 THEN <<"test", 2, 0>> ELSE <<"pairwise", 1, 0>>
    BY Zenon DEF RK!Behind
  <2> HIDE DEF R
  <2>6. liars' = IF factor = 1 THEN <<passed + 1, 0>> ELSE <<R, passed + 1>>
    <3>1. CASE factor = 1
      <4>1. liars = <<passed, 0>> /\ liars' = [liars EXCEPT ![1] = @ + 1]
        BY <2>2, <2>4, <3>1
      <4>. QED
        BY <3>1, <4>1
    <3>2. CASE factor = 2
      <4>1. liars = <<R, passed>> /\ liars' = [liars EXCEPT ![2] = @ + 1]
        BY <2>2, <2>4, <3>2
      <4>. QED
        BY <3>2, <4>1
    <3>. QED
      BY <2>4, <3>1, <3>2
  <2>7. CASE passed + 1 < R
    <3>1. stage' = "test" /\ factor' = factor /\ passed' = passed + 1
      BY <2>2, <2>5, <2>7
    <3>2. passed' \in 0 .. R - 1 /\ liars' = IF factor' = 1 THEN <<passed', 0>> ELSE <<R, passed'>>
      BY <2>4, <2>6, <2>7, <3>1
    <3>. QED
      BY <2>3, <2>4, <3>1, <3>2 DEF KeysAreGood, RoundsAreCounted, R
  <2>8. CASE ~(passed + 1 < R)
    <3>1. passed + 1 = R
      BY <2>4, <2>8
    <3>2. CASE factor = 1
      <4>1. stage' = "test" /\ factor' = 2 /\ passed' = 0 /\ liars' = <<R, 0>>
        BY <2>2, <2>5, <2>6, <2>8, <3>1, <3>2
      <4>. QED
        BY <2>3, <2>4, <4>1 DEF KeysAreGood, RoundsAreCounted, R
    <3>3. CASE factor # 1
      <4>1. stage' = "pairwise" /\ liars' = <<R, R>>
        BY <2>2, <2>5, <2>6, <2>8, <3>1, <3>3
      <4>. QED
        BY <2>3, <4>1 DEF KeysAreGood, RoundsAreCounted, R
    <3>. QED
      BY <3>2, <3>3
  <2>. QED
    BY <2>7, <2>8
<1>. QED
  BY <1>2, <1>3

LEMMA DrawKeeps == ASSUME RK!InputsFit, KeysAreGood, RK!Draw PROVE KeysAreGood'
<1>1. stage = "test"
  BY DEF RK!Draw
<1>2. PICK drawn \in RK!Draws(RK!Tested) :
        LET base == RK!Base(RK!Tested, drawn) IN RK!Redraw(base) \/ RK!Test(base)
  BY Zenon DEF RK!Draw
<1> DEFINE base == RK!Base(RK!Tested, drawn)
<1>3. RK!Redraw(base) \/ RK!Test(base)
  BY <1>2, Zenon
<1> HIDE DEF base
<1>4. CASE RK!Redraw(base)
  <2>1. \/ UNCHANGED <<handle, stage, candidate, factor, passed, liars>>
        \/ RK!Fail("RandomnessUnavailable")
    BY <1>4, Zenon DEF RK!Redraw
  <2>2. CASE UNCHANGED <<handle, stage, candidate, factor, passed, liars>>
    BY <2>2 DEF KeysAreGood, HandleIsGood, CandidateIsGood, RoundsAreCounted
  <2>. QED
    BY <2>1, <2>2, FailKeeps
<1>5. CASE RK!Test(base)
  BY <1>1, <1>5, TestKeeps
<1>. QED
  BY <1>3, <1>4, <1>5

LEMMA PairwiseKeeps == ASSUME KeysAreGood, RK!Pairwise PROVE KeysAreGood'
<1>1. /\ stage = "pairwise" /\ stage' = "idle"
      /\ handle' = [validated |-> TRUE, key |-> candidate, liars |-> liars]
  BY DEF RK!Pairwise
<1>2. Composed(candidate) /\ RK!Sound(candidate) /\ liars = <<RK!Rounds, RK!Rounds>>
  BY <1>1 DEF KeysAreGood, CandidateIsGood, RoundsAreCounted
<1>3. handle'.key = candidate /\ handle'.liars = liars
  BY <1>1
<1>4. HandleIsGood'
  BY <1>2, <1>3 DEF HandleIsGood
<1>. QED
  BY <1>1, <1>4 DEF KeysAreGood, CandidateIsGood, RoundsAreCounted

LEMMA Supplied ==
  ASSUME RK!InputsFit
  PROVE  /\ \A g \in GeneratedKeys \cup PrimePairs : \A k \in RK!FromPQ(g.p, g.q, g.e) : Composed(k)
         /\ \A c \in KeyComponents : \A k \in RK!FromComponents(c.n, c.e, c.d, c.primes) : Composed(k)
<1>1. \A g \in GeneratedKeys \cup PrimePairs : g.p \in Nat /\ g.q \in Nat /\ g.e \in Nat
  BY DEF RK!InputsFit
<1>2. \A c \in KeyComponents : c.n \in Nat /\ c.e \in Nat /\ c.d \in Nat /\ c.primes \in Seq(Nat)
  BY DEF RK!InputsFit
<1>. QED
  BY <1>1, <1>2, FactorsCompose, ComponentsCompose

LEMMA KeysStay == ASSUME RK!InputsFit, KeysAreGood, RK!Next PROVE KeysAreGood'
<1>1. CASE RK!Generate
  <2>1. PICK g \in GeneratedKeys : \E k \in RK!FromPQ(g.p, g.q, g.e) : RK!FinishImport(k)
    BY <1>1, Zenon DEF RK!Generate
  <2>2. PICK k \in RK!FromPQ(g.p, g.q, g.e) : RK!FinishImport(k)
    BY <2>1
  <2>3. Composed(k)
    BY <2>2, Supplied
  <2>. QED
    BY <2>2, <2>3, FinishKeeps
<1>2. CASE RK!GenerateFails \/ RK!GeneratorFails \/ RK!PairwiseFails
  <2>1. \E refusal : RK!Fail(refusal)
    BY <1>2, Zenon DEF RK!GenerateFails, RK!GeneratorFails, RK!PairwiseFails
  <2>. QED
    BY <2>1, FailKeeps
<1>3. ASSUME NEW r \in PrimePairs, NEW k \in RK!RestoredPrimes(r) PROVE Composed(k)
  <2>1. k \in RK!FromPQ(r.p, r.q, r.e)
    BY <1>3 DEF RK!RestoredPrimes
  <2>. QED
    BY <2>1, Supplied
<1>4. CASE RK!ImportPrimes
  <2>1. PICK r \in PrimePairs :
          RK!Fail("InvalidPrivateKey") \/ \E k \in RK!RestoredPrimes(r) : RK!Admit(k)
    BY <1>4, Zenon DEF RK!ImportPrimes
  <2>2. CASE RK!Fail("InvalidPrivateKey")
    BY <2>2, FailKeeps
  <2>3. ASSUME NEW k \in RK!RestoredPrimes(r), RK!Admit(k) PROVE KeysAreGood'
    BY <1>3, <2>3, AdmitKeeps
  <2>. QED
    BY <2>1, <2>2, <2>3
<1>5. CASE RK!RestorePrimes
  <2>1. PICK r \in PrimePairs : RK!Restore(RK!RestoredPrimes(r))
    BY <1>5, Zenon DEF RK!RestorePrimes
  <2>. QED
    BY <1>3, <2>1, RestoreKeeps
<1>6. CASE RK!ImportComponents
  <2>1. PICK c \in KeyComponents :
          \/ \E k \in RK!FromComponents(c.n, c.e, c.d, c.primes) : RK!FinishImport(k)
          \/ RK!Fail("InvalidPrivateKey")
    BY <1>6, Zenon DEF RK!ImportComponents
  <2>2. CASE RK!Fail("InvalidPrivateKey")
    BY <2>2, FailKeeps
  <2>3. ASSUME NEW k \in RK!FromComponents(c.n, c.e, c.d, c.primes), RK!FinishImport(k)
        PROVE  KeysAreGood'
    <3>1. Composed(k)
      BY Supplied
    <3>. QED
      BY <2>3, <3>1, FinishKeeps
  <2>. QED
    BY <2>1, <2>2, <2>3
<1>7. ASSUME NEW c \in KeyComponents, NEW k \in RK!Decoded(c) PROVE Composed(k)
  <2>1. k \in RK!FromComponents(c.n, c.e, c.d, c.primes)
    BY <1>7 DEF RK!Decoded
  <2>. QED
    BY <2>1, Supplied
<1>8. CASE RK!ImportPkcs8
  <2>1. PICK c \in KeyComponents :
          RK!Fail("InvalidPrivateKey") \/ \E k \in RK!Decoded(c) : RK!FinishImport(k)
    BY <1>8, Zenon DEF RK!ImportPkcs8
  <2>2. CASE RK!Fail("InvalidPrivateKey")
    BY <2>2, FailKeeps
  <2>3. ASSUME NEW k \in RK!Decoded(c), RK!FinishImport(k) PROVE KeysAreGood'
    BY <1>7, <2>3, FinishKeeps
  <2>. QED
    BY <2>1, <2>2, <2>3
<1>9. CASE RK!RestorePkcs
  <2>1. PICK c \in KeyComponents : RK!Restore(RK!Decoded(c))
    BY <1>9, Zenon DEF RK!RestorePkcs
  <2>. QED
    BY <1>7, <2>1, RestoreKeeps
<1>10. CASE RK!ValidateForImport
  <2>1. \/ UNCHANGED <<handle, stage, candidate, factor, passed, liars>>
        \/ handle # RK!NoKey /\ RK!FinishImport(handle.key)
    BY <1>10, Zenon DEF RK!ValidateForImport, RK!test
  <2>2. CASE UNCHANGED <<handle, stage, candidate, factor, passed, liars>>
    BY <2>2 DEF KeysAreGood, HandleIsGood, CandidateIsGood, RoundsAreCounted
  <2>3. CASE handle # RK!NoKey /\ RK!FinishImport(handle.key)
    <3>1. Composed(handle.key)
      BY <2>3 DEF KeysAreGood, HandleIsGood
    <3>. QED
      BY <2>3, <3>1, FinishKeeps
  <2>. QED
    BY <2>1, <2>2, <2>3
<1>. QED
  BY <1>1, <1>2, <1>4, <1>5, <1>6, <1>8, <1>9, <1>10, DrawKeeps, PairwiseKeeps, Zenon DEF RK!Next

LEMMA GoodKeysWork == ASSUME RK!InputsFit, KeysAreGood PROVE ValidatedKeyWorks
<1> DEFINE k == handle.key
           p == k.primes[1]
           q == k.primes[2]
<1>1. SUFFICES ASSUME handle.validated
               PROVE  /\ handle.liars = <<RK!Rounds, RK!Rounds>>
                      /\ RK!IsPrime(p) /\ RK!IsPrime(q) =>
                           /\ k.d \in 1 .. RK!Lambda(p, q) - 1 /\ (k.d * k.e) % RK!Lambda(p, q) = 1
                           /\ \A m \in TrialMessages \cup {p, q, k.n - 1} : RK!Decrypts(k, m)
  BY Zenon DEF ValidatedKeyWorks, RK!ValidatedKeyWorks
<1>2. Composed(k) /\ RK!Sound(k) /\ handle.liars = <<RK!Rounds, RK!Rounds>>
  BY <1>1 DEF KeysAreGood, HandleIsGood
<1> HIDE DEF k
<1>3. /\ p \in Nat /\ q \in Nat /\ p > 1 /\ q > 1 /\ p * q = k.n /\ k.n \in Nat
      /\ k.e \in Nat /\ k.d \in Nat
  BY <1>2 DEF Composed
<1>4. /\ p # q /\ k.d \in 1 .. RK!Lambda(p, q) - 1 /\ (k.d * k.e) % RK!Lambda(p, q) = 1
      /\ \A m \in TrialMessages : m \in 0 .. k.n - 1
  BY <1>2, SoundIs
<1> HIDE DEF p, q
<1>5. p \in 0 .. k.n - 1 /\ q \in 0 .. k.n - 1 /\ k.n - 1 \in 0 .. k.n - 1
  <2>1. p < p * q /\ q < p * q
    BY <1>3
  <2>. QED
    BY <1>3, <2>1
<1>6. ASSUME RK!IsPrime(p), RK!IsPrime(q), NEW m \in 0 .. k.n - 1 PROVE RK!Decrypts(k, m)
  <2>1. IsPrime(p) /\ IsPrime(q)
    BY <1>6, KeyNumbers
  <2>2. (k.d * k.e) % Lcm(p - 1, q - 1) = 1
    BY <1>3, <1>4, LambdaIsNat
  <2>3. m \in 0 .. p * q - 1
    BY <1>3
  <2>4. ModPow(ModPow(m, k.e, p * q), k.d, p * q) = m
    BY <1>3, <1>4, <2>1, <2>2, <2>3, ExponentsUndo
  <2>. QED
    BY <1>3, <2>4, KeyNumbers, Zenon DEF RK!Decrypts
<1>7. \A m \in TrialMessages \cup {p, q, k.n - 1} : m \in 0 .. k.n - 1
  BY <1>4, <1>5
<1>. QED
  BY <1>2, <1>4, <1>6, <1>7, Zenon

LEMMA KeysInductive ==
  ASSUME RK!InputsFit
  PROVE  /\ RK!Init => KeysAreGood
         /\ KeysAreGood /\ [RK!Next]_rsaKey => KeysAreGood'
<1>1. RK!Init => KeysAreGood
  <2> SUFFICES ASSUME RK!Init PROVE KeysAreGood
    OBVIOUS
  <2>1. handle = RK!NoKey /\ stage = "idle" /\ handle.validated = FALSE
    BY DEF RK!Init, RK!NoKey
  <2>. QED
    BY <2>1 DEF KeysAreGood, HandleIsGood, CandidateIsGood, RoundsAreCounted
<1>2. KeysAreGood /\ [RK!Next]_rsaKey => KeysAreGood'
  <2> SUFFICES ASSUME KeysAreGood, [RK!Next]_rsaKey PROVE KeysAreGood'
    OBVIOUS
  <2>1. CASE UNCHANGED rsaKey
    BY <2>1 DEF rsaKey, KeysAreGood, HandleIsGood, CandidateIsGood, RoundsAreCounted
  <2>. QED
    BY <2>1, KeysStay
<1>. QED
  BY <1>1, <1>2

(* A validated handle, whichever way it came, has factors that passed all  *)
(* rounds with strong liars, and if they are primes it decrypts whatever   *)
(* it encrypts: finish_import, validate_with_rng, validate_for_import.     *)
THEOREM ValidatedKeysWork == ASSUME RK!InputsFit PROVE PrivateKeysSpec => []ValidatedKeyWorks
<1>1. /\ RK!Init => KeysAreGood
      /\ KeysAreGood /\ [RK!Next]_rsaKey => KeysAreGood'
  BY KeysInductive
<1>2. KeysAreGood => ValidatedKeyWorks
  BY GoodKeysWork
<1>. QED
  BY <1>1, <1>2, PTL DEF PrivateKeysSpec

-----------------------------------------------------------------------------
(* The validation of public keys: RsaPublicValidation on its own.          *)

LEMMA PublicNumbers ==
  /\ RP!TwoTo = TwoTo /\ \A n : RP!Bits(n) = Bits(n)
  /\ \A b, x, n : RP!ModPow(b, x, n) = ModPow(b, x, n)
  /\ \A x, y : RP!Gcd(x, y) = Gcd(x, y)
  /\ \A n : RP!TrailingZeros(n) = TrailingZeros(n) /\ RP!IsPrime(n) = IsPrime(n)
  /\ \A d, n : RP!Divides(d, n) = Divides(d, n)
<1>1. RP!TwoTo = TwoTo
  BY Zenon DEF RP!TwoTo, TwoTo
<1>2. \A n : RP!Bits(n) = Bits(n)
  BY Zenon DEF RP!Bits, Bits
<1>3. \A b, x, n : RP!ModPow(b, x, n) = ModPow(b, x, n)
  BY Zenon DEF RP!ModPow, ModPow
<1>4. \A x, y : RP!Gcd(x, y) = Gcd(x, y)
  BY Zenon DEF RP!Gcd, Gcd
<1>5. \A n : RP!TrailingZeros(n) = TrailingZeros(n)
  BY <1>1, <1>2, Zenon DEF RP!TrailingZeros, TrailingZeros
<1>6. \A d, n : RP!Divides(d, n) = Divides(d, n)
  BY Zenon DEF RP!Divides, Divides
<1>7. \A n : RP!IsPrime(n) = IsPrime(n)
  BY <1>6, Zenon DEF RP!IsPrime, IsPrime
<1>. QED
  BY <1>1, <1>2, <1>3, <1>4, <1>5, <1>6, <1>7, Zenon

(* A base is a number.                                                     *)
LEMMA BaseIsNat ==
  ASSUME RP!RequestsFit, NEW n \in Nat \ {0}, NEW drawn \in RP!Draws(n)
  PROVE  RP!Base(n, drawn) \in Nat
<1> DEFINE b == PublicSizes.ByteBits
           length == RP!ByteLength(n)
           unit == RP!ByteValues(length - 1)
           mask == RP!Mask(n)
<1>1. b \in Nat \ {0}
  BY DEF RP!RequestsFit, RP!SizesFit
<1>2. RP!TwoTo = TwoTo /\ Bits(n) \in Nat /\ Bits(n) # 0 /\ RP!Bits(n) = Bits(n)
  BY BitsAre, PublicNumbers, Zenon
<1>3. \A l : RP!ByteValues(l) = TwoTo[b * l]
  BY <1>2, Zenon DEF RP!ByteValues
<1>4. length \in Nat /\ length # 0
  <2> DEFINE x == Bits(n) + (b - 1)
  <2>1. length = x \div b
    BY <1>2 DEF RP!ByteLength, RP!CeilDiv
  <2>2. x \in Nat /\ x >= b
    <3> DEFINE bits == Bits(n)
    <3>1. bits \in Nat /\ bits # 0
      BY <1>2
    <3> HIDE DEF bits
    <3>. QED
      BY <1>1, <3>1 DEF bits
  <2> HIDE DEF x, b, length
  <2>3. x \div b \in Nat /\ x \div b # 0
    BY <1>1, <2>2
  <2>. QED
    BY <2>1, <2>3
<1>5. drawn \in Nat
  <2>1. b * length \in Nat
    BY <1>1, <1>4
  <2>2. RP!ByteValues(length) \in Nat
    BY <1>3, <2>1, PowersOfTwo
  <2>3. drawn \in 0 .. RP!ByteValues(length) - 1
    BY Zenon DEF RP!Draws
  <2>. QED
    BY <2>2, <2>3
<1>6. unit \in Nat \ {0}
  <2>1. b * (length - 1) \in Nat
    BY <1>1, <1>4
  <2>2. TwoTo[b * (length - 1)] \in Nat \ {0}
    BY <2>1, PowersOfTwo
  <2>. QED
    BY <1>3, <2>2, Zenon
<1>7. mask \in Nat
  <2> DEFINE e == (b - (Bits(n) % b)) % b
  <2>1. e \in Nat
    <3> DEFINE r == Bits(n) % b
    <3>1. r \in Int
      BY <1>1, <1>2
    <3> HIDE DEF r
    <3>2. b - r \in Int
      BY <1>1, <3>1
    <3>3. (b - r) % b \in 0 .. b - 1
      BY <1>1, <3>2, Division
    <3>. QED
      BY <1>1, <3>3 DEF r
  <2>2. mask = (RP!ByteValues(1) - 1) \div TwoTo[e]
    BY <1>2, Zenon DEF RP!Mask
  <2> HIDE DEF e
  <2>3. TwoTo[e] \in Nat \ {0}
    BY <2>1, PowersOfTwo
  <2>4. RP!ByteValues(1) - 1 \in Nat
    <3>1. b * 1 \in Nat
      BY <1>1
    <3>2. TwoTo[b * 1] \in Nat \ {0}
      BY <3>1, PowersOfTwo
    <3>3. RP!ByteValues(1) = TwoTo[b * 1]
      BY <1>3, Zenon
    <3>. QED
      BY <3>2, <3>3
  <2>. QED
    BY <2>2, <2>3, <2>4, QuotientIsNat
<1>8. RP!Base(n, drawn) = ((drawn \div unit) % (mask + 1)) * unit + (drawn % unit)
  BY Zenon DEF RP!Base
<1> HIDE DEF unit, mask, b, length
<1>9. (drawn \div unit) % (mask + 1) \in Nat /\ drawn % unit \in Nat
  <2>1. drawn \div unit \in Nat /\ drawn % unit \in Nat
    BY <1>5, <1>6
  <2> DEFINE q == drawn \div unit
  <2> HIDE DEF q
  <2>2. q \in Nat => q % (mask + 1) \in Nat
    BY <1>7
  <2>. QED
    BY <2>1, <2>2 DEF q
<1>. QED
  BY <1>6, <1>8, <1>9

-----------------------------------------------------------------------------
(* One round.                                                              *)

(* n has two different prime factors.                                      *)
HasTwoPrimes(n) == \E p, q \in Nat : p # q /\ IsPrime(p) /\ IsPrime(q) /\ Factor(p, n) /\ Factor(q, n)

(* The values of a round: each is the square of the one before it, and the *)
(* last one the power n - 1.                                               *)
Rounded(n, base, a) ==
  /\ a \in Nat /\ a # 0
  /\ \A i \in 0 .. a : RP!Squared(n, base, i) \in 0 .. n - 1
  /\ \A i \in 1 .. a :
       (RP!Squared(n, base, i - 1) * RP!Squared(n, base, i - 1)) % n = RP!Squared(n, base, i)
  /\ RP!Squared(n, base, a) = Raised(base, n - 1) % n

LEMMA RoundsSquare ==
  ASSUME NEW n \in Nat, n > 1, n % 2 = 1, NEW base \in Nat
  PROVE  Rounded(n, base, RP!A(n))
<1> DEFINE a == RP!A(n)
           M == RP!M(n)
           z(i) == RP!Squared(n, base, i)
<1>1. a = TrailingZeros(n - 1) /\ M = (n - 1) \div TwoTo[a] /\ TwoTo[0] = 1
  BY PublicNumbers, PowersOfTwo, Zenon DEF RP!A, RP!M, RP!Upper
<1>2. a \in Nat /\ a # 0 /\ n - 1 = ((n - 1) \div TwoTo[a]) * TwoTo[a]
  <2>1. n - 1 \in Nat \ {0} /\ (n - 1) % 2 = 0
    OBVIOUS
  <2>. QED
    BY <1>1, <2>1, TrailingZerosAre
<1>3. M \in Nat /\ M * TwoTo[a] = n - 1
  <2>1. TwoTo[a] \in Nat \ {0} /\ n - 1 \in Nat
    BY <1>2, PowersOfTwo
  <2>. QED
    BY <1>1, <1>2, <2>1, QuotientIsNat
<1>4. \A i : z(i) = ModPow(base, M * TwoTo[i], n)
  BY PublicNumbers, Zenon DEF RP!Squared
<1> HIDE DEF z, M, a
<1> DEFINE x(i) == Raised(base, M * TwoTo[i])
<1>5. ASSUME NEW i \in Nat PROVE M * TwoTo[i] \in Nat /\ x(i) \in Int /\ z(i) = x(i) % n /\ z(i) \in 0 .. n - 1
  <2>1. M * TwoTo[i] \in Nat
    BY <1>3, PowersOfTwo
  <2>2. base \in Int /\ n \in Nat \ {0}
    OBVIOUS
  <2>3. x(i) \in Int
    BY <2>1, <2>2, PowerIs
  <2>4. z(i) = x(i) % n
    BY <1>4, <2>1, <2>2, ModPowIs
  <2> HIDE DEF x
  <2>5. x(i) % n \in 0 .. n - 1
    BY <2>2, <2>3, Division
  <2>. QED
    BY <2>1, <2>3, <2>4, <2>5
<1>6. ASSUME NEW i \in Nat \ {0} PROVE (z(i - 1) * z(i - 1)) % n = z(i)
  <2> DEFINE k == M * TwoTo[i - 1]
  <2>1. i - 1 \in Nat /\ TwoTo[i] = 2 * TwoTo[i - 1] /\ TwoTo[i - 1] \in Nat
    BY PowersOfTwo
  <2>2. M * TwoTo[i] = k + k /\ k \in Nat
    BY <1>3, <2>1
  <2> HIDE DEF k
  <2>3. base \in Int /\ n \in Nat \ {0}
    OBVIOUS
  <2>4. Raised(base, k + k) = Raised(base, k) * Raised(base, k)
    BY <2>2, <2>3, PowerOfSum
  <2>5. x(i) = x(i - 1) * x(i - 1)
    BY <2>2, <2>4, Zenon DEF k
  <2>6. z(i) = x(i) % n /\ z(i - 1) = x(i - 1) % n /\ x(i - 1) \in Int
    BY <1>5, <2>1
  <2> HIDE DEF x
  <2>7. ((x(i - 1) % n) * (x(i - 1) % n)) % n = (x(i - 1) * x(i - 1)) % n
    BY <2>3, <2>6, ProductOfRemainders
  <2>. QED
    BY <2>5, <2>6, <2>7, Zenon
<1>7. z(a) = Raised(base, n - 1) % n
  BY <1>2, <1>3, <1>5
<1>8. \A i \in 0 .. a : z(i) \in 0 .. n - 1
  BY <1>5
<1>9. \A i \in 1 .. a : (z(i - 1) * z(i - 1)) % n = z(i)
  BY <1>6
<1>. QED
  BY <1>2, <1>7, <1>8, <1>9, Zenon DEF Rounded, z, a

LEMMA VerdictIsRight ==
  ASSUME NEW n \in Nat, n > 1, n % 2 = 1, NEW base \in Nat,
         RP!EnhancedRound(n, base) = "CompositeNotPrimePower"
  PROVE  HasTwoPrimes(n)
<1> DEFINE a == RP!A(n)
           z(i) == RP!Squared(n, base, i)
           E == RP!Ends(n, base)
           first == RP!FirstEnd(n, base)
<1>1. /\ a \in Nat /\ a # 0
      /\ \A i \in 0 .. a : z(i) \in 0 .. n - 1
      /\ \A i \in 1 .. a : (z(i - 1) * z(i - 1)) % n = z(i)
      /\ z(a) = Raised(base, n - 1) % n
  BY RoundsSquare, Zenon DEF Rounded
<1>2. /\ RP!Upper(n) = n - 1 /\ RP!Gcd(base, n) = Gcd(base, n)
      /\ E = {i \in 1 .. a - 1 : z(i) \in {1, n - 1}}
      /\ first = CHOOSE i \in E : \A j \in E : i <= j
  BY PublicNumbers, Zenon DEF RP!Upper, RP!Ends, RP!FirstEnd
<1>3. RP!LastX(n, base) = IF z(a) # 1 THEN z(a) ELSE z(a - 1)
  BY Zenon DEF RP!LastX
<1>4. ASSUME NEW x PROVE RP!ClassifyComposite(n, x) = "CompositeNotPrimePower" => ~(Gcd(x - 1, n) > 1)
  BY PublicNumbers DEF RP!ClassifyComposite
<1>5. /\ ~(Gcd(base, n) > 1)
      /\ ~(Gcd(base, n) = 1 /\ z(0) \in {1, n - 1})
      /\ IF E = {} THEN RP!ClassifyComposite(n, RP!LastX(n, base)) = "CompositeNotPrimePower"
         ELSE z(first) # n - 1 /\ RP!ClassifyComposite(n, z(first - 1)) = "CompositeNotPrimePower"
  <2> HIDE DEF z, E, first
  <2>. QED
    BY <1>2 DEF RP!EnhancedRound, z, E, first
<1> HIDE DEF z, a, E, first
<1>6. ASSUME NEW g \in Nat PROVE Gcd(g, n) \in Nat /\ Gcd(g, n) # 0
  <2>1. n # 0
    OBVIOUS
  <2>. QED
    BY <2>1, GcdIs, Zenon
<1>7. Gcd(base, n) = 1 /\ z(0) # 1 /\ z(0) # n - 1
  <2>1. Gcd(base, n) \in Nat /\ Gcd(base, n) # 0
    BY <1>6
  <2> DEFINE g == Gcd(base, n)
  <2> HIDE DEF g
  <2>2. g \in Nat /\ g # 0 /\ ~(g > 1) => g = 1
    OBVIOUS
  <2>3. Gcd(base, n) = 1
    BY <1>5, <2>1, <2>2 DEF g
  <2>. QED
    BY <1>5, <2>3
(* A root of one before the first end has a factor in common with n.       *)
<1>8. ASSUME NEW i \in 1 .. a, z(i) = 1, z(i - 1) # 1, z(i - 1) # n - 1,
             ~(Gcd(z(i - 1) - 1, n) > 1)
      PROVE  FALSE
  <2> DEFINE x == z(i - 1)
  <2>1. i - 1 \in 0 .. a
    BY <1>1
  <2>2. x \in 0 .. n - 1 /\ (x * x) % n = 1 /\ x # 1 /\ x # n - 1
    BY <1>1, <1>8, <2>1
  <2>3. ~(Gcd(x - 1, n) > 1)
    BY <1>8
  <2> HIDE DEF x
  <2>4. x - 1 \in Nat /\ Gcd(x - 1, n) # 1
    BY <2>2, RootHasFactor
  <2>5. Gcd(x - 1, n) \in Nat /\ Gcd(x - 1, n) # 0
    BY <1>6, <2>4
  <2> DEFINE g == Gcd(x - 1, n)
  <2> HIDE DEF g
  <2>6. g \in Nat /\ g # 0 /\ g # 1 => g > 1
    OBVIOUS
  <2>. QED
    BY <2>3, <2>4, <2>5, <2>6 DEF g
<1>9. CASE E = {}
  <2>1. CASE z(a) # 1
    <3> DEFINE x == z(a)
    <3>1. ~(Gcd(x - 1, n) > 1)
      BY <1>3, <1>4, <1>5, <1>9, <2>1
    <3>2. x \in Nat /\ x = Raised(base, n - 1) % n
      <4>1. a \in 0 .. a
        BY <1>1
      <4>. QED
        BY <1>1, <4>1
    <3> HIDE DEF x
    <3>3. x # 0 => Gcd(x - 1, n) = 1
      <4>1. SUFFICES ASSUME x # 0 PROVE Gcd(x - 1, n) = 1
        OBVIOUS
      <4>2. x - 1 \in Nat
        BY <3>2, <4>1
      <4>3. Gcd(x - 1, n) \in Nat /\ Gcd(x - 1, n) # 0
        BY <1>6, <4>2
      <4> DEFINE g == Gcd(x - 1, n)
      <4> HIDE DEF g
      <4>4. g \in Nat /\ g # 0 /\ ~(g > 1) => g = 1
        OBVIOUS
      <4>. QED
        BY <3>1, <4>3, <4>4 DEF g
    <3>. QED
      BY <1>7, <3>2, <3>3, TwoPrimes DEF HasTwoPrimes
  <2>2. CASE z(a) = 1
    <3>1. ~(Gcd(z(a - 1) - 1, n) > 1)
      BY <1>3, <1>4, <1>5, <1>9, <2>2
    <3>2. z(a - 1) # 1 /\ z(a - 1) # n - 1
      <4>1. CASE a = 1
        BY <1>7, <4>1
      <4>2. CASE a # 1
        <5>1. a - 1 \in 1 .. a - 1
          BY <1>1, <4>2
        <5>. QED
          BY <1>2, <1>9, <5>1
      <4>. QED
        BY <4>1, <4>2
    <3>3. a \in 1 .. a
      BY <1>1
    <3>. QED
      BY <1>8, <2>2, <3>1, <3>2, <3>3
  <2>. QED
    BY <2>1, <2>2
<1>10. CASE E # {}
  <2>1. first \in E /\ \A j \in E : first <= j
    <3>1. E \subseteq Nat
      BY <1>1, <1>2
    <3>2. \E i \in E : \A j \in E : i <= j
      BY <1>10, <3>1, LeastExists, Zenon
    <3>. QED
      BY <1>2, <3>2, Zenon
  <2>2. first \in 1 .. a - 1 /\ z(first) = 1
    BY <1>2, <1>5, <1>10, <2>1
  <2>3. ~(Gcd(z(first - 1) - 1, n) > 1)
    BY <1>4, <1>5, <1>10
  <2>4. z(first - 1) # 1 /\ z(first - 1) # n - 1
    <3>1. CASE first = 1
      BY <1>7, <3>1
    <3>2. CASE first # 1
      <4>1. first - 1 \in 1 .. a - 1 /\ ~(first <= first - 1)
        BY <1>1, <2>2, <3>2
      <4>2. first - 1 \notin E
        BY <2>1, <4>1
      <4>. QED
        BY <1>2, <4>1, <4>2
    <3>. QED
      BY <3>1, <3>2
  <2>5. first \in 1 .. a
    BY <1>1, <2>2
  <2>. QED
    BY <1>8, <2>2, <2>3, <2>4, <2>5
<1>. QED
  BY <1>9, <1>10

-----------------------------------------------------------------------------
(* The validation of a public key.                                         *)

(* What is checked is a modulus, and what is accepted has two primes.      *)
RequestIsPublic == submitted \in PublicKeys
PlausibleInRounds == phase = "round" => RP!Plausible(submitted)
AcceptedHasPrimes == verdict = "Ok" => RP!Plausible(submitted) /\ HasTwoPrimes(submitted.modulus)

ModuliAreGood == RequestIsPublic /\ PlausibleInRounds /\ AcceptedHasPrimes

LEMMA PlausibleIs ==
  ASSUME RP!RequestsFit, NEW r \in PublicKeys, RP!Plausible(r)
  PROVE  /\ r.modulus \in Nat /\ r.modulus > 1 /\ r.modulus % 2 = 1
         /\ r.bits \in Nat /\ r.bits # 0 /\ Bits(r.modulus) = r.bits
         /\ \A c \in RP!SmallFactors : ~Divides(c, r.modulus)
<1>1. r.modulus \in Nat /\ r.exponent \in Nat /\ r.bits \in Nat
  BY DEF RP!RequestsFit
<1>2. /\ r.modulus % 2 = 1 /\ 3 <= r.exponent /\ r.exponent < r.modulus
      /\ RP!SupportedSize(r.bits) /\ RP!Bits(r.modulus) = r.bits
      /\ \A c \in RP!SmallFactors : ~RP!Divides(c, r.modulus)
  BY Zenon DEF RP!Plausible
<1>3. r.bits # 0
  BY <1>2 DEF RP!SupportedSize, RP!RequestsFit, RP!SizesFit
<1>4. Bits(r.modulus) = r.bits
  BY <1>2, PublicNumbers, Zenon
<1>5. \A c \in RP!SmallFactors : ~Divides(c, r.modulus)
  BY <1>2, PublicNumbers, Zenon
<1>. QED
  BY <1>1, <1>2, <1>3, <1>4, <1>5

LEMMA ModuliStay ==
  ASSUME RP!RequestsFit, ModuliAreGood, RP!Next PROVE ModuliAreGood'
<1>1. CASE RP!Check
  <2>1. /\ submitted' = submitted
        /\ \/ RP!Plausible(submitted) /\ verdict' = verdict
           \/ phase' = "done" /\ verdict' = "InvalidPublicKey"
    BY <1>1, Zenon DEF RP!Check, RP!Return
  <2>. QED
    BY <2>1 DEF ModuliAreGood, RequestIsPublic, PlausibleInRounds, AcceptedHasPrimes
<1>2. CASE RP!GeneratorFails
  <2>1. submitted' = submitted /\ phase' = "done" /\ verdict' = "RandomnessUnavailable"
    BY <1>2 DEF RP!GeneratorFails, RP!Return
  <2>. QED
    BY <2>1 DEF ModuliAreGood, RequestIsPublic, PlausibleInRounds, AcceptedHasPrimes
<1>3. CASE RP!Draw
  <2>1. phase = "round" /\ submitted' = submitted
    BY <1>3, Zenon DEF RP!Draw
  <2>2. PICK drawn \in RP!Draws(submitted.modulus) :
          LET base == RP!Base(submitted.modulus, drawn) IN RP!Redraw(base) \/ RP!Test(base)
    BY <1>3, Zenon DEF RP!Draw
  <2> DEFINE base == RP!Base(submitted.modulus, drawn)
  <2>3. RP!Plausible(submitted) /\ submitted \in PublicKeys
    BY <2>1 DEF ModuliAreGood, PlausibleInRounds, RequestIsPublic
  <2>4. submitted.modulus \in Nat /\ submitted.modulus > 1 /\ submitted.modulus % 2 = 1
    BY <2>3, PlausibleIs
  <2>5. base \in Nat
    <3>1. submitted.modulus \in Nat \ {0}
      BY <2>4
    <3>. QED
      BY <3>1, BaseIsNat
  <2>6. RP!Redraw(base) \/ RP!Test(base)
    BY <2>2, Zenon
  <2> HIDE DEF base
  <2>7. verdict' = verdict \/ verdict' # "Ok" \/
          RP!EnhancedRound(submitted.modulus, base) = "CompositeNotPrimePower"
    <3>1. CASE RP!Redraw(base)
      BY <3>1 DEF RP!Redraw, RP!Return
    <3>2. CASE RP!Test(base)
      <4> DEFINE v == RP!EnhancedRound(submitted.modulus, base)
      <4>1. \/ v = "CompositeNotPrimePower"
            \/ verdict' = "InvalidPublicKey" \/ verdict' = verdict
        BY <3>2, Zenon DEF RP!Test, RP!Return
      <4>. QED
        BY <4>1
    <3>. QED
      BY <2>6, <3>1, <3>2
  <2>8. RP!EnhancedRound(submitted.modulus, base) = "CompositeNotPrimePower" =>
          HasTwoPrimes(submitted.modulus)
    BY <2>4, <2>5, VerdictIsRight
  <2>. QED
    BY <2>1, <2>3, <2>7, <2>8 DEF ModuliAreGood, RequestIsPublic, PlausibleInRounds, AcceptedHasPrimes
<1>. QED
  BY <1>1, <1>2, <1>3, Zenon DEF RP!Next

(* A prime factor that no small factor divides is large.                   *)
LEMMA FactorsAreLarge ==
  ASSUME RP!RequestsFit, NEW n \in Nat, n > 1, n % 2 = 1,
         \A c \in RP!SmallFactors : ~Divides(c, n),
         NEW p \in Nat, IsPrime(p), Divides(p, n)
  PROVE  p > LargestSmallFactor
<1>1. SUFFICES ASSUME p <= LargestSmallFactor PROVE FALSE
  BY DEF RP!RequestsFit
<1>2. p > 1 /\ p \in Nat \ {0}
  BY DEF IsPrime
<1>3. p % 2 = 1
  <2>1. SUFFICES ASSUME p % 2 # 1 PROVE FALSE
    OBVIOUS
  <2>2. p = 2 * (p \div 2) /\ p \div 2 \in Int
    BY <2>1
  <2>3. Factor(2, p)
    BY <2>2 DEF Factor
  <2>4. Factor(p, n)
    BY <1>2, FactorIs
  <2>5. Factor(2, n)
    <3>1. 2 \in Int /\ p \in Int /\ n \in Int
      OBVIOUS
    <3>. QED
      BY <2>3, <2>4, <3>1, FactorThrough
  <2>6. PICK t \in Int : n = 2 * t
    BY <2>5 DEF Factor
  <2>. QED
    BY <2>6
<1>4. ASSUME NEW d \in 3 .. p - 1, p % d = 0 PROVE FALSE
  <2>1. d \in Nat \ {0} /\ d # 1 /\ d # p
    OBVIOUS
  <2>2. Factor(d, p)
    <3>1. Divides(d, p) /\ p \in Int
      BY <1>4 DEF Divides
    <3>. QED
      BY <2>1, <3>1, FactorIs
  <2>. QED
    BY <2>1, <2>2, PrimeFactors
<1>5. p \in 3 .. LargestSmallFactor
  <2>1. p # 2
    BY <1>3
  <2>. QED
    BY <1>1, <1>2, <2>1 DEF RP!RequestsFit
<1>6. p \in RP!SmallFactors
  BY <1>3, <1>4, <1>5 DEF RP!SmallFactors
<1>. QED
  BY <1>6

LEMMA GoodModuliAreAccepted == ASSUME RP!RequestsFit, ModuliAreGood PROVE AcceptedModulus
<1> DEFINE n == submitted.modulus
           bits == submitted.bits
           factors == {p \in 2 .. n : RP!Divides(p, n) /\ RP!IsPrime(p)}
<1>1. SUFFICES ASSUME verdict = "Ok"
               PROVE  /\ \E p, q \in factors : p # q
                      /\ \A p \in factors : p > LargestSmallFactor
                      /\ RP!TwoTo[bits - 1] <= n /\ n < RP!TwoTo[bits]
  BY Zenon DEF AcceptedModulus, RP!AcceptedModulus
<1>2. submitted \in PublicKeys /\ RP!Plausible(submitted) /\ HasTwoPrimes(n)
  BY <1>1 DEF ModuliAreGood, RequestIsPublic, AcceptedHasPrimes
<1>3. /\ n \in Nat /\ n > 1 /\ n % 2 = 1 /\ bits \in Nat /\ bits # 0 /\ Bits(n) = bits
      /\ \A c \in RP!SmallFactors : ~Divides(c, n)
  BY <1>2, PlausibleIs
<1>4. factors = {p \in 2 .. n : Divides(p, n) /\ IsPrime(p)}
  BY PublicNumbers, Zenon
<1> HIDE DEF n, bits, factors
<1>5. ASSUME NEW p \in Nat, IsPrime(p), Factor(p, n) PROVE p \in factors
  <2>1. p > 1 /\ p \in Nat \ {0}
    BY <1>5 DEF IsPrime
  <2>2. p <= n
    <3>1. n \in Nat \ {0}
      BY <1>3
    <3>. QED
      BY <1>5, <3>1, FactorBelow
  <2>3. Divides(p, n) /\ p \in 2 .. n
    BY <1>3, <1>5, <2>1, <2>2, FactorIs
  <2>. QED
    BY <1>4, <1>5, <2>3
<1>6. \E p, q \in factors : p # q
  BY <1>2, <1>5 DEF HasTwoPrimes
<1>7. ASSUME NEW p \in factors PROVE p > LargestSmallFactor
  <2>1. p \in Nat /\ Divides(p, n) /\ IsPrime(p)
    BY <1>3, <1>4
  <2>. QED
    BY <1>3, <2>1, FactorsAreLarge
<1>8. RP!TwoTo[bits - 1] <= n /\ n < RP!TwoTo[bits]
  <2>1. Spans(n, bits)
    BY <1>3, BitsAre
  <2>. QED
    BY <1>3, <2>1, PublicNumbers DEF Spans
<1>. QED
  BY <1>6, <1>7, <1>8

(* An accepted modulus has two different prime factors, none of them       *)
(* small, and the announced size, whatever the bases: enhanced_round,      *)
(* classify_composite, validate_with_rng.                                  *)
THEOREM AcceptedModuliFactor == ASSUME RP!RequestsFit PROVE PublicKeysSpec => []AcceptedModulus
<1>1. RP!Init => ModuliAreGood
  <2> SUFFICES ASSUME RP!Init PROVE ModuliAreGood
    OBVIOUS
  <2>1. submitted \in PublicKeys /\ phase = "check" /\ verdict = "none"
    BY DEF RP!Init
  <2>. QED
    BY <2>1 DEF ModuliAreGood, RequestIsPublic, PlausibleInRounds, AcceptedHasPrimes
<1>2. ModuliAreGood /\ [RP!Next]_rsaPublic => ModuliAreGood'
  <2> SUFFICES ASSUME ModuliAreGood, [RP!Next]_rsaPublic PROVE ModuliAreGood'
    OBVIOUS
  <2>1. CASE UNCHANGED rsaPublic
    BY <2>1 DEF rsaPublic, ModuliAreGood, RequestIsPublic, PlausibleInRounds, AcceptedHasPrimes
  <2>. QED
    BY <2>1, ModuliStay
<1>3. ModuliAreGood => AcceptedModulus
  BY GoodModuliAreAccepted
<1>. QED
  BY <1>1, <1>2, <1>3, PTL DEF PublicKeysSpec

-----------------------------------------------------------------------------
(* The bases of a round.                                                   *)

LEMMA QuotientIs ==
  ASSUME NEW x \in Nat \ {0}, NEW m \in Int, NEW r \in 0 .. x - 1
  PROVE  (x * m + r) \div x = m /\ (x * m + r) % x = r
OBVIOUS

(* Bytes of b bits: the first one of so many bits has e to spare.          *)
Spare(b, bits, length, e) ==
  /\ length \in Nat \ {0} /\ e \in 0 .. b - 1
  /\ b * (length - 1) \in Nat /\ b * length \in Nat
  /\ b * (length - 1) + (b - e) = bits /\ bits <= b * length

LEMMA FirstByte ==
  ASSUME NEW b \in Nat \ {0}, NEW bits \in Nat \ {0},
         NEW length, length = (bits + (b - 1)) \div b, NEW e, e = (b - (bits % b)) % b
  PROVE  Spare(b, bits, length, e)
<1> DEFINE q == bits \div b
           r == bits % b
<1>1. bits = b * q + r /\ q \in Nat /\ r \in 0 .. b - 1
  <2>1. bits \in Int
    OBVIOUS
  <2>. QED
    BY <2>1, Division, QuotientIsNat
<1> HIDE DEF q, r
<1> DEFINE t == b * q
<1>2. t \in Nat /\ bits = t + r
  BY <1>1
<1>3. CASE r = 0
  <2>1. e = 0
    <3>1. e = (b - 0) % b
      BY <1>3 DEF r
    <3>2. (b * 1 + 0) % b = 0
      BY QuotientIs
    <3>. QED
      BY <3>1, <3>2
  <2>2. length = q
    <3>1. bits + (b - 1) = b * q + (b - 1)
      BY <1>1, <1>3
    <3>2. b - 1 \in 0 .. b - 1 /\ q \in Int
      BY <1>1
    <3>. QED
      BY <3>1, <3>2, QuotientIs
  <2>3. q # 0
    <3>1. q = 0 => t = 0
      OBVIOUS
    <3>. QED
      BY <1>2, <1>3, <3>1
  <2>4. b * (q - 1) = t - b /\ q - 1 \in Nat
    BY <1>1, <2>3
  <2>5. b * (q - 1) \in Nat
    BY <2>4
  <2>. QED
    BY <1>1, <1>2, <1>3, <2>1, <2>2, <2>3, <2>4, <2>5 DEF Spare
<1>4. CASE r # 0
  <2>1. e = b - r
    <3>1. b - r \in 0 .. b - 1
      BY <1>1, <1>4
    <3>2. (b * 0 + (b - r)) % b = b - r
      BY <3>1, QuotientIs
    <3>3. b * 0 + (b - r) = b - r
      BY <1>1
    <3>4. e = (b - r) % b
      BY DEF r
    <3>. QED
      BY <3>2, <3>3, <3>4
  <2>2. length = q + 1
    <3>1. bits + (b - 1) = b * (q + 1) + (r - 1)
      <4>1. b * (q + 1) = t + b
        BY <1>1
      <4>. QED
        BY <1>1, <1>2, <4>1
    <3>2. r - 1 \in 0 .. b - 1 /\ q + 1 \in Int
      BY <1>1, <1>4
    <3>3. (b * (q + 1) + (r - 1)) \div b = q + 1
      BY <3>2, QuotientIs
    <3>. QED
      BY <3>1, <3>3
  <2>3. b * length = t + b /\ b * (length - 1) = t /\ length \in Nat \ {0}
    BY <1>1, <2>2
  <2>. QED
    BY <1>1, <1>2, <1>4, <2>1, <2>3 DEF Spare
<1>. QED
  BY <1>3, <1>4

LEMMA FirstMaskIs ==
  ASSUME NEW b \in Nat, NEW e \in 0 .. b
  PROVE  ((TwoTo[b] - 1) \div TwoTo[e]) + 1 = TwoTo[b - e]
<1> DEFINE x == TwoTo[e]
           y == TwoTo[b - e]
<1>1. e \in Nat /\ b - e \in Nat /\ e + (b - e) = b
  OBVIOUS
<1>2. x \in Nat \ {0} /\ y \in Nat \ {0}
  BY <1>1, PowersOfTwo
<1>3. TwoTo[b] = x * y
  BY <1>1, PowersAdd
<1> HIDE DEF x, y
<1>4. x * y - 1 = x * (y - 1) + (x - 1)
  <2>1. x * (y - 1) = x * y - x /\ x * y \in Int
    BY <1>2
  <2>. QED
    BY <1>2, <2>1
<1>5. (x * (y - 1) + (x - 1)) \div x = y - 1
  <2>1. y - 1 \in Int /\ x - 1 \in 0 .. x - 1
    BY <1>2
  <2>. QED
    BY <1>2, <2>1, QuotientIs
<1>6. (TwoTo[b] - 1) \div x = y - 1
  BY <1>3, <1>4, <1>5
<1>. QED
  BY <1>2, <1>6 DEF x, y

(* A number below n is the base that its own bytes yield.                  *)
LEMMA BaseOfItself ==
  ASSUME RK!InputsFit, NEW n \in Nat \ {0}, NEW m \in 0 .. n - 1
  PROVE  m \in RK!Draws(n) /\ RK!Base(n, m) = m
<1> DEFINE b == PrivateSizes.ByteBits
           bits == Bits(n)
           length == RK!ByteLength(n)
           e == (b - (bits % b)) % b
           unit == TwoTo[b * (length - 1)]
           top == TwoTo[b - e]
<1>1. b \in Nat \ {0}
  BY DEF RK!InputsFit, RK!SizesFit
<1>2. bits \in Nat \ {0} /\ n < TwoTo[bits]
  BY BitsAre DEF Spans
<1>3. RK!TwoTo = TwoTo /\ RK!Bits(n) = bits
  BY KeyNumbers, Zenon
<1>4. \A l : RK!ByteValues(l) = TwoTo[b * l]
  BY <1>3, Zenon DEF RK!ByteValues
<1>5. length = (bits + (b - 1)) \div b
  BY <1>3 DEF RK!ByteLength, RK!CeilDiv
<1>6. RK!Mask(n) = (TwoTo[b * 1] - 1) \div TwoTo[e]
  BY <1>3, <1>4, Zenon DEF RK!Mask
<1>7. /\ RK!Draws(n) = 0 .. TwoTo[b * length] - 1
      /\ RK!Base(n, m) = ((m \div unit) % (RK!Mask(n) + 1)) * unit + (m % unit)
  BY <1>4, Zenon DEF RK!Draws, RK!Base
<1> HIDE DEF b, bits, length
<1>8. /\ length \in Nat \ {0} /\ e \in 0 .. b - 1
      /\ b * (length - 1) \in Nat /\ b * length \in Nat
      /\ b * (length - 1) + (b - e) = bits /\ bits <= b * length
  <2>1. e = (b - (bits % b)) % b
    OBVIOUS
  <2> HIDE DEF e
  <2>2. Spare(b, bits, length, e)
    BY <1>1, <1>2, <1>5, <2>1, FirstByte
  <2>. QED
    BY <2>2, Zenon DEF Spare
<1> HIDE DEF e
<1>9. RK!Mask(n) + 1 = top
  <2>1. b * 1 = b /\ b \in Nat /\ e \in 0 .. b
    BY <1>1, <1>8
  <2>. QED
    BY <1>6, <2>1, FirstMaskIs
<1>10. unit \in Nat \ {0} /\ top \in Nat \ {0} /\ TwoTo[bits] = unit * top
  <2>1. b - e \in Nat
    BY <1>1, <1>8
  <2>2. TwoTo[b * (length - 1) + (b - e)] = TwoTo[b * (length - 1)] * TwoTo[b - e]
    BY <1>8, <2>1, PowersAdd
  <2>. QED
    BY <1>8, <2>1, <2>2, PowersOfTwo
<1>11. m \in Nat /\ m < TwoTo[bits] /\ TwoTo[bits] <= TwoTo[b * length]
  <2>1. TwoTo[bits] <= TwoTo[b * length]
    BY <1>2, <1>8, PowersIncrease
  <2>. QED
    BY <1>2, <2>1, PowersOfTwo
<1>12. m \in RK!Draws(n)
  <2>1. TwoTo[bits] \in Nat /\ TwoTo[b * length] \in Nat
    BY <1>2, <1>8, PowersOfTwo
  <2>. QED
    BY <1>7, <1>11, <2>1
<1> HIDE DEF unit, top
<1> DEFINE k == m \div unit
           r == m % unit
<1>13. k \in Nat /\ r \in Nat /\ m = unit * k + r
  <2>1. m \in Int
    OBVIOUS
  <2>2. r \in 0 .. unit - 1 /\ m = unit * k + r
    BY <1>10, <2>1, Division
  <2>3. k \in Nat
    BY <1>10, <1>11, QuotientIsNat
  <2>. QED
    BY <1>10, <2>2, <2>3
<1> HIDE DEF k, r
<1>14. k < top
  <2>1. SUFFICES ASSUME top <= k PROVE FALSE
    BY <1>10, <1>13
  <2>2. unit * top <= unit * k
    BY <1>10, <1>13, <2>1
  <2>3. unit * k \in Nat /\ unit * top \in Nat
    BY <1>10, <1>13
  <2>. QED
    BY <1>10, <1>11, <1>13, <2>2, <2>3
<1>15. k % top = k
  BY <1>10, <1>13, <1>14
<1>16. RK!Base(n, m) = k * unit + r
  BY <1>7, <1>9, <1>15 DEF k, r
<1>17. k * unit = unit * k
  BY <1>10, <1>13
<1>. QED
  BY <1>12, <1>13, <1>16, <1>17

(* Each base strictly between 1 and n - 1 can be drawn, whatever the size  *)
(* of a byte and the length of the factor: probable_prime.                 *)
THEOREM EveryBaseIsDrawn == ASSUME RK!InputsFit PROVE PrivateKeysSpec => []EveryBaseDrawn
<1>1. /\ RK!Init => KeysAreGood
      /\ KeysAreGood /\ [RK!Next]_rsaKey => KeysAreGood'
  BY KeysInductive
<1>2. KeysAreGood => EveryBaseDrawn
  <2> SUFFICES ASSUME KeysAreGood, stage = "test", NEW m \in 2 .. RK!Tested - 2
               PROVE  \E drawn \in RK!Draws(RK!Tested) : m = RK!Base(RK!Tested, drawn)
    BY Zenon DEF EveryBaseDrawn, RK!EveryBaseDrawn
  <2> DEFINE n == candidate.primes[factor]
  <2>1. n \in Nat \ {0} /\ RK!Tested = n
    BY TestedIs
  <2> HIDE DEF n
  <2>2. m \in 0 .. n - 1
    BY <2>1
  <2>3. m \in RK!Draws(n) /\ RK!Base(n, m) = m
    BY <2>1, <2>2, BaseOfItself
  <2>. QED
    BY <2>1, <2>3
<1>. QED
  BY <1>1, <1>2, PTL DEF PrivateKeysSpec
=============================================================================
