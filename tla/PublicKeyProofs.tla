--------------------------- MODULE PublicKeyProofs ---------------------------
(***************************************************************************)
(* Proofs about PostQuantumKeys for any parameter sets, lengths and seeds, *)
(* and about KeyExchanges: MlDsaSigning, for any octets, object identifier *)
(* and digest lengths and any bounds on the lengths of messages and        *)
(* contexts, then Arkg and KeyExchange, for groups of any prime order and  *)
(* any seeds, scalars, salts and contexts.                                 *)
(***************************************************************************)
EXTENDS PostQuantumKeys, KeyExchanges, SequenceTheorems, TLAPS

KeyType ==
  [set : Sets, seed : Seeds \cup {None}, expanded : ExpandedForms \cup {None}]
Good(k) == k \in KeyType /\ Whole(k)

(* What the import functions return: an error and no key, or a whole key.  *)
GoodAnswer(r) ==
  \/ r.error # "none" /\ r.value = None
  \/ r.error = "none" /\ Good(r.value)

-----------------------------------------------------------------------------
(* The import functions.                                                   *)

(* The pairwise test of an expanded ML-KEM key passes exactly if its       *)
(* secret belongs to its public key.                                       *)
LEMMA PairwiseIsExact ==
  ASSUME NEW e, e.hash = e.public, NEW m \in Messages
  PROVE  PairwiseConsistent(e, m) <=> e.secret = e.public
<1> DEFINE c == [to |-> e.public, m |-> m, hash |-> e.public]
<1>1. Encapsulated(e.public, m) = [ciphertext |-> c, shared |-> <<"shared", m, e.public>>]
  BY DEF Encapsulated
<1>2. CASE e.secret = e.public
  <2>1. Decapsulated(e, c) = <<"shared", m, e.public>>
    BY <1>2 DEF Decapsulated
  <2>. QED
    BY <1>1, <1>2, <2>1 DEF PairwiseConsistent
<1>3. CASE e.secret # e.public
  <2>1. [to |-> e.public, m |-> "noise", hash |-> e.hash] # c
    BY MessagesAssumption
  <2>2. Decapsulated(e, c) = <<"rejected", e.own, c>>
    BY <1>3, <2>1 DEF Decapsulated
  <2>3. <<"rejected", e.own, c>> # <<"shared", m, e.public>>
    OBVIOUS
  <2>. QED
    BY <1>1, <1>3, <2>2, <2>3 DEF PairwiseConsistent
<1>. QED
  BY <1>2, <1>3

LEMMA ExpandIsWhole ==
  ASSUME NEW set \in Sets, NEW seed \in Seeds \cup {None}
  PROVE  /\ Expand(set, seed) \in ExpandedForms
         /\ Good(Key(set, seed, Expand(set, seed)))
<1> DEFINE e == Expand(set, seed)
           t == <<set, seed>>
<1>1. t \in Tokens
  BY DEF Tokens
<1>2. CASE set \in KemSets
  <2>1. e = [formed |-> TRUE, secret |-> t, public |-> t, own |-> t, hash |-> t, low |-> None]
    BY <1>2 DEF Expand, Token
  <2>2. e \in ExpandedForms
    BY <1>1, <2>1 DEF ExpandedForms
  <2>3. Whole(Key(set, seed, e))
    BY <1>2, <2>1, SetsAssumption DEF Whole, Key, PublicOf
  <2>. QED
    BY <2>2, <2>3 DEF Good, KeyType, Key
<1>3. CASE set \notin KemSets
  <2>1. e = [formed |-> TRUE, secret |-> t, public |-> t, own |-> t, hash |-> <<t, t>>, low |-> <<t, t>>]
    BY <1>3 DEF Expand, Token
  <2>2. e \in ExpandedForms
    BY <1>1, <2>1 DEF ExpandedForms
  <2>3. Whole(Key(set, seed, e))
    BY <1>3, <2>1 DEF Whole, Key, PublicOf
  <2>. QED
    BY <2>2, <2>3 DEF Good, KeyType, Key
<1>. QED
  BY <1>2, <1>3

LEMMA SeedSlice ==
  ASSUME NEW set \in Sets, NEW bytes \in ByteStrings
  PROVE  GoodAnswer(from_seed_slice(set, bytes))
<1>1. Good(Key(set, bytes.seed, Expand(set, bytes.seed)))
  BY ExpandIsWhole DEF ByteStrings
<1>. QED
  BY <1>1 DEF from_seed_slice, GoodAnswer, Ok, Err

LEMMA ExpandedPrivateKey ==
  ASSUME NEW set \in Sets, NEW bytes \in ByteStrings, NEW random \in Messages \cup {None}
  PROVE  GoodAnswer(from_expanded_private_key(set, bytes, random))
<1> DEFINE e == bytes.expanded
<1>1. Key(set, None, e) \in KeyType
  BY DEF ByteStrings, KeyType, Key
<1>2. ASSUME set \in KemSets PROVE GoodAnswer(from_expanded_kem(set, e, random))
  <2> DEFINE answer == from_expanded_kem(set, e, random)
  <2>1. \/ answer.error # "none" /\ answer.value = None
        \/ /\ answer = Ok(Key(set, None, e))
           /\ e.formed /\ e.hash = e.public /\ random # None /\ PairwiseConsistent(e, random)
    BY DEF from_expanded_kem, Err
  <2>2. ASSUME e.formed, e.hash = e.public, random # None, PairwiseConsistent(e, random)
        PROVE  Whole(Key(set, None, e))
    <3>1. e.secret = e.public
      BY <2>2, PairwiseIsExact
    <3>. QED
      BY <1>2, <2>2, <3>1, SetsAssumption DEF Whole, Key, PublicOf
  <2>. QED
    BY <1>1, <2>1, <2>2 DEF GoodAnswer, Good, Ok
<1>3. ASSUME set \notin KemSets PROVE GoodAnswer(from_expanded_dsa(set, e))
  <2>1. ASSUME e.formed, e.low = PublicOf(set, e), e.hash = PublicOf(set, e)
        PROVE  Whole(Key(set, None, e))
    BY <1>3, <2>1 DEF Whole, Key, PublicOf
  <2>. QED
    BY <1>1, <2>1 DEF from_expanded_dsa, GoodAnswer, Good, Ok, Err
<1>4. GoodAnswer(Err("InvalidExpandedPrivateKey"))
  BY DEF GoodAnswer, Err
<1>. QED
  BY <1>2, <1>3, <1>4 DEF from_expanded_private_key

LEMMA Components ==
  ASSUME NEW set \in Sets, NEW seed \in ByteStrings \cup {None}, NEW e \in ByteStrings \cup {None},
         NEW random \in Messages \cup {None}
  PROVE  GoodAnswer(from_components(set, seed, e, random))
<1>1. GoodAnswer(Err("InvalidExpandedPrivateKey")) /\ GoodAnswer(Err("InvalidPrivateKey"))
  BY DEF GoodAnswer, Err
<1>2. seed # None => GoodAnswer(from_seed_slice(set, seed))
  BY SeedSlice
<1>3. e # None => GoodAnswer(from_expanded_private_key(set, e, random))
  BY ExpandedPrivateKey
<1>4. seed # None => GoodAnswer(from_seed_and_expanded(set, seed, e))
  BY <1>1, <1>2 DEF from_seed_and_expanded
<1>. QED
  BY <1>1, <1>2, <1>3, <1>4 DEF from_components

LEMMA Serialized ==
  ASSUME NEW set \in Sets, NEW bytes \in ByteStrings, NEW random \in Messages \cup {None}
  PROVE  GoodAnswer(from_serialized(set, bytes, random))
<1> DEFINE half(length) == Bytes(bytes.seed, bytes.expanded, length)
<1>1. half(SeedLength(set)) \in ByteStrings /\ half(ExpandedLength[set]) \in ByteStrings
  BY LengthsAssumption DEF ByteStrings, Bytes
<1>2. GoodAnswer(from_components(set, half(SeedLength(set)), half(ExpandedLength[set]), random))
  BY <1>1, Components
<1>3. GoodAnswer(from_components(set, bytes, None, random)) /\ GoodAnswer(from_components(set, None, bytes, random))
  BY Components
<1>. QED
  BY <1>2, <1>3 DEF from_serialized

LEMMA Pkcs8 ==
  ASSUME NEW set \in Sets, NEW document, NEW random \in Messages \cup {None},
         Bytes(document.seed, None, document.seed_length) \in ByteStrings,
         Bytes(None, document.expanded, document.length) \in ByteStrings
  PROVE  GoodAnswer(from_pkcs8_der(set, document, random))
<1> DEFINE seed == Bytes(document.seed, None, document.seed_length)
           e == Bytes(None, document.expanded, document.length)
           k == from_components(set, IF document.choice = "expanded" THEN None ELSE seed,
                                IF document.choice = "seed" THEN None ELSE e, random)
<1>1. GoodAnswer(k)
  <2> DEFINE some == IF document.choice = "expanded" THEN None ELSE seed
             other == IF document.choice = "seed" THEN None ELSE e
  <2>1. some \in ByteStrings \cup {None} /\ other \in ByteStrings \cup {None}
    OBVIOUS
  <2> HIDE DEF some, other
  <2>2. GoodAnswer(from_components(set, some, other, random))
    BY <2>1, Components
  <2>. QED
    BY <2>2 DEF some, other
<1>2. GoodAnswer(Err("InvalidPrivateKey"))
  BY DEF GoodAnswer, Err
<1>3. from_pkcs8_der(set, document, random) \in {k, Err("InvalidPrivateKey")}
  BY DEF from_pkcs8_der
<1> HIDE DEF k
<1>. QED
  BY <1>1, <1>2, <1>3

-----------------------------------------------------------------------------
(* A whole key comes back from each of its exports.                        *)

LEMMA ExpandedComesBack ==
  ASSUME NEW k, Good(k), NEW random \in Messages
  PROVE  /\ Bytes(None, k.expanded, ExpandedLength[k.set]) \in ByteStrings
         /\ from_expanded_private_key(k.set, Bytes(None, k.expanded, ExpandedLength[k.set]), random)
              = Ok(Key(k.set, None, k.expanded))
<1> DEFINE e == k.expanded
           set == k.set
           bytes == Bytes(None, e, ExpandedLength[set])
<1>1. set \in Sets /\ e \in ExpandedForms \cup {None} /\ Whole(k)
  BY DEF Good, KeyType
<1>2. bytes \in ByteStrings /\ bytes.length = ExpandedLength[set] /\ bytes.expanded = e
  BY <1>1, LengthsAssumption DEF Bytes, ByteStrings
<1>3. e.formed /\ e.hash = PublicOf(set, e) /\ random # None
  BY <1>1, NoneAssumption DEF Whole
<1>4. CASE set \in KemSets
  <2>1. e.hash = e.public /\ e.secret = e.public
    BY <1>1, <1>3, <1>4 DEF Whole, PublicOf
  <2>2. PairwiseConsistent(e, random)
    BY <2>1, PairwiseIsExact
  <2>3. from_expanded_kem(set, e, random) = Ok(Key(set, None, e))
    BY <1>3, <2>1, <2>2 DEF from_expanded_kem
  <2>. QED
    BY <1>2, <1>4, <2>3 DEF from_expanded_private_key
<1>5. CASE set \notin KemSets
  <2>1. e.low = PublicOf(set, e)
    BY <1>1, <1>5 DEF Whole, PublicOf, Sets
  <2>2. DsaVerifies(PublicOf(set, e), DsaSigned(e))
    BY <1>3, <1>5, <2>1 DEF DsaVerifies, DsaSigned, PublicOf
  <2>3. from_expanded_dsa(set, e) = Ok(Key(set, None, e))
    BY <1>3, <2>1, <2>2 DEF from_expanded_dsa
  <2>. QED
    BY <1>2, <1>5, <2>3 DEF from_expanded_private_key
<1>. QED
  BY <1>4, <1>5

LEMMA SeedComesBack ==
  ASSUME NEW k, Good(k), k.seed # None
  PROVE  /\ Bytes(k.seed, None, SeedLength(k.set)) \in ByteStrings
         /\ from_seed_slice(k.set, Bytes(k.seed, None, SeedLength(k.set))) = Ok(k)
<1>1. k.set \in Sets /\ k.seed \in Seeds \cup {None} /\ k = Key(k.set, k.seed, k.expanded)
  BY DEF Good, KeyType, Key
<1>2. k.expanded = Expand(k.set, k.seed)
  BY DEF Good, Whole
<1>3. Bytes(k.seed, None, SeedLength(k.set)) \in ByteStrings
  BY <1>1, LengthsAssumption DEF Bytes, ByteStrings
<1>. QED
  BY <1>1, <1>2, <1>3 DEF from_seed_slice, Bytes

LEMMA GoodSurvives ==
  ASSUME NEW k, Good(k)
  PROVE  Survives(k)
<1> SUFFICES ASSUME NEW random \in Messages
             PROVE  /\ from_serialized(k.set, serialized(k), random) = Ok(k)
                    /\ from_pkcs8_der(k.set, to_pkcs8_der(k), random) = Ok(k)
                    /\ from_serialized(k.set, expanded_private_key(k), random)
                         = Ok([k EXCEPT !.seed = None])
  BY DEF Survives
<1> DEFINE set == k.set
           long == Bytes(None, k.expanded, ExpandedLength[set])
           short == Bytes(k.seed, None, SeedLength(set))
<1>1. /\ set \in Sets /\ k = Key(set, k.seed, k.expanded)
      /\ [k EXCEPT !.seed = None] = Key(set, None, k.expanded)
  BY DEF Good, KeyType, Key
<1>2. long # None /\ from_expanded_private_key(set, long, random) = Ok(Key(set, None, k.expanded))
  BY ExpandedComesBack, NoneAssumption
<1>3. k.seed # None => short # None /\ from_seed_slice(set, short) = Ok(k)
  BY SeedComesBack, NoneAssumption
<1>4. from_components(set, None, long, random) = Ok(Key(set, None, k.expanded))
  BY <1>2 DEF from_components
<1>5. k.seed # None => from_components(set, short, None, random) = Ok(k)
  BY <1>3 DEF from_components
<1>6. from_serialized(set, long, random) = Ok(Key(set, None, k.expanded))
  <2>1. /\ long.length # SeedLength(set)
        /\ long.length # SeedLength(set) + ExpandedLength[set]
    BY <1>1, LengthsAssumption DEF Bytes
  <2>. QED
    BY <1>4, <2>1 DEF from_serialized
<1>7. k.seed # None => from_serialized(set, short, random) = Ok(k)
  <2>1. short.length = SeedLength(set) /\ short.length # SeedLength(set) + ExpandedLength[set]
    BY <1>1, LengthsAssumption DEF Bytes
  <2>. QED
    BY <1>5, <2>1 DEF from_serialized
<1>8. from_pkcs8_der(set, to_pkcs8_der(k), random) = Ok(k)
  <2> DEFINE choice == IF k.seed = None THEN "expanded" ELSE "seed"
             d == Document(set, choice, k.seed, k.expanded, None)
             answer == from_components(set, IF choice = "expanded" THEN None ELSE short,
                                       IF choice = "seed" THEN None ELSE long, random)
  <2>1. to_pkcs8_der(k) = d /\ Decodes(set, d)
    BY DEF to_pkcs8_der, Document, Decodes
  <2>2. /\ d.choice = choice /\ d.public = None
        /\ Bytes(d.seed, None, d.seed_length) = short
        /\ Bytes(None, d.expanded, d.length) = long
    BY DEF Document
  <2>3. answer = Ok(k)
    BY <1>1, <1>4, <1>5
  <2> HIDE DEF d, choice, short, long
  <2>4. from_pkcs8_der(set, d, random) = answer
    <3>1. from_components(set, IF d.choice = "expanded" THEN None ELSE Bytes(d.seed, None, d.seed_length),
                          IF d.choice = "seed" THEN None ELSE Bytes(None, d.expanded, d.length), random)
            = answer
      BY <2>2
    <3> HIDE DEF answer
    <3>2. d.public \in {None, public_key(answer.value)}
      BY <2>2
    <3>. QED
      BY <2>1, <3>1, <3>2 DEF from_pkcs8_der
  <2>. QED
    BY <2>1, <2>3, <2>4
<1>. QED
  BY <1>1, <1>6, <1>7, <1>8 DEF serialized, expanded_private_key

-----------------------------------------------------------------------------
(* The invariant.                                                          *)

MaterialOK ==
  material # None =>
    \/ material.form = "raw" /\ material.data \in ByteStrings
    \/ /\ material.form = "pkcs8"
       /\ Bytes(material.data.seed, None, material.data.seed_length) \in ByteStrings
       /\ Bytes(None, material.data.expanded, material.data.length) \in ByteStrings

(* An encapsulation in progress, from the message and the public key it    *)
(* was made with.                                                          *)
Made(public, m) ==
  /\ capsule = [sent |-> [to |-> public, m |-> m, hash |-> public], received |-> capsule.received]
  /\ shared = <<<<"shared", m, public>>, shared[2]>>

CapsuleOK ==
  /\ shared # None => \E public : \E m \in Messages :
       /\ Made(public, m)
       /\ shared[2] # None => (shared[1] = shared[2] <=> capsule.received = capsule.sent)
  /\ capsule # None =>
       /\ key # None /\ key.set \in KemSets /\ material = None
       /\ \E m \in Messages : Made(key.expanded.public, m)

KeyOK == key # None => Good(key)

KeysInv == KeyOK /\ MaterialOK /\ CapsuleOK

LEMMA KeysInvInit == Init => KeysInv
  BY DEF Init, KeysInv, KeyOK, MaterialOK, CapsuleOK

LEMMA GenerateKeepsInv ==
  ASSUME KeysInv, Generate PROVE KeysInv'
<1>1. KeyOK'
  <2>1. \A set \in Sets, s \in Seeds : Good(Key(set, s, Expand(set, s)))
    BY ExpandIsWhole
  <2>. QED
    BY <2>1 DEF Generate, KeyOK
<1>2. MaterialOK'
  BY DEF Generate, MaterialOK
<1>3. CapsuleOK'
  BY DEF Generate, CapsuleOK, KeysInv, Made
<1>. QED
  BY <1>1, <1>2, <1>3 DEF KeysInv

LEMMA ExportKeepsInv ==
  ASSUME KeysInv, Export PROVE KeysInv'
<1>1. Good(key) /\ key.set \in Sets /\ key.seed \in Seeds \cup {None}
      /\ key.expanded \in ExpandedForms \cup {None}
  BY DEF Export, KeysInv, KeyOK, Good, KeyType
<1>2. /\ SeedLength(key.set) \in Nat /\ ExpandedLength[key.set] \in Nat
  BY <1>1, LengthsAssumption
<1>3. MaterialOK'
  <2>1. CASE material' = [form |-> "pkcs8", set |-> key.set, data |-> to_pkcs8_der(key)]
    <3> DEFINE d == to_pkcs8_der(key)
    <3>1. /\ d.seed = key.seed /\ d.seed_length = SeedLength(key.set)
          /\ d.expanded = key.expanded /\ d.length = ExpandedLength[key.set]
      BY DEF to_pkcs8_der, Document
    <3>2. /\ Bytes(d.seed, None, d.seed_length) \in ByteStrings
          /\ Bytes(None, d.expanded, d.length) \in ByteStrings
      BY <1>1, <1>2, <3>1 DEF Bytes, ByteStrings
    <3>. QED
      BY <2>1, <3>2 DEF MaterialOK
  <2>2. ASSUME NEW bytes \in {serialized(key), expanded_private_key(key)},
               material' = [form |-> "raw", set |-> key.set, data |-> bytes]
        PROVE  MaterialOK'
    <3>1. bytes \in ByteStrings
      BY <1>1, <1>2 DEF serialized, expanded_private_key, Bytes, ByteStrings
    <3>. QED
      BY <2>2, <3>1 DEF MaterialOK
  <2>. QED
    BY <2>1, <2>2 DEF Export
<1>4. KeyOK' /\ CapsuleOK'
  BY DEF Export, KeysInv, KeyOK, CapsuleOK, Made
<1>. QED
  BY <1>3, <1>4 DEF KeysInv

LEMMA PartsAreForms ==
  ASSUME NEW set \in Sets
  PROVE  Parts(set) \subseteq ExpandedForms
<1> DEFINE t == {Token(set, s) : s \in Seeds}
<1>1. t \subseteq Tokens
  BY DEF Tokens, Token
<1>2. (IF set \in KemSets THEN t ELSE t \X t) \subseteq Tokens \cup (Tokens \X Tokens)
  BY <1>1
<1>3. (IF set \in KemSets THEN {None} ELSE IF set \in KemSets THEN t ELSE t \X t)
        \subseteq {None} \cup (Tokens \X Tokens)
  BY <1>1
<1> DEFINE public == IF set \in KemSets THEN t ELSE t \X t
           low == IF set \in KemSets THEN {None} ELSE public
<1>4. Parts(set) = [formed : BOOLEAN, secret : t, public : t, own : t, hash : public, low : low]
  BY DEF Parts
<1>5. public \subseteq Tokens \cup (Tokens \X Tokens) /\ low \subseteq {None} \cup (Tokens \X Tokens)
  BY <1>2, <1>3
<1> HIDE DEF t, public, low
<1>. QED
  BY <1>1, <1>4, <1>5 DEF ExpandedForms

LEMMA ReceiveKeepsInv ==
  ASSUME KeysInv, Receive PROVE KeysInv'
<1>1. PICK set \in Sets :
        \/ \E bytes \in RawForms(set) : material' = [form |-> "raw", set |-> set, data |-> bytes]
        \/ \E document \in Documents(set) :
             material' = [form |-> "pkcs8", set |-> set, data |-> document]
  BY DEF Receive
<1>2. SeedLength(set) \in Nat /\ ExpandedLength[set] \in Nat /\ SeedLength(set) + ExpandedLength[set] \in Nat
      /\ SeedLength(set) + 1 \in Nat /\ ExpandedLength[set] + 1 \in Nat
      /\ SeedLength(set) + 0 \in Nat /\ ExpandedLength[set] + 0 \in Nat
  BY LengthsAssumption
<1>3. \A s \in Seeds : Expand(set, s) \in ExpandedForms
  BY ExpandIsWhole
<1>4. RawForms(set) \subseteq ByteStrings
  BY <1>2, <1>3, PartsAreForms DEF RawForms, Bytes, ByteStrings
<1>5. ASSUME NEW d \in Documents(set)
      PROVE  /\ Bytes(d.seed, None, d.seed_length) \in ByteStrings
             /\ Bytes(None, d.expanded, d.length) \in ByteStrings
  <2>1. /\ d.seed \in Seeds /\ d.expanded \in ExpandedForms
        /\ d.seed_length \in {SeedLength(set), 1} /\ d.length \in {ExpandedLength[set], 1}
    <3> DEFINE plain == {Document(set, c, s, Expand(set, x), p) :
                  c \in {"seed", "expanded", "both", "other"}, s \in Seeds, x \in Seeds,
                  p \in {None} \cup {PublicOf(set, Expand(set, y)) : y \in Seeds}}
    <3>1. ASSUME NEW f \in plain
          PROVE  /\ f.seed \in Seeds /\ f.expanded \in ExpandedForms
                 /\ f.seed_length = SeedLength(set) /\ f.length = ExpandedLength[set]
                 /\ f = [algorithm |-> f.algorithm, parameters |-> f.parameters,
                         trailing |-> f.trailing, choice |-> f.choice, seed |-> f.seed,
                         seed_length |-> f.seed_length, expanded |-> f.expanded,
                         length |-> f.length, public |-> f.public]
      BY <1>3 DEF Document
    <3>2. \E f \in plain : d \in {f, [f EXCEPT !.parameters = TRUE], [f EXCEPT !.trailing = TRUE],
                                [f EXCEPT !.seed_length = 1], [f EXCEPT !.length = 1]}
      <4> HIDE DEF plain
      <4>1. Documents(set) = plain \cup {[f EXCEPT !.parameters = TRUE] : f \in plain}
                             \cup {[f EXCEPT !.trailing = TRUE] : f \in plain}
                             \cup {[f EXCEPT !.seed_length = 1] : f \in plain}
                             \cup {[f EXCEPT !.length = 1] : f \in plain}
        BY DEF Documents, plain
      <4>. QED
        BY <4>1
    <3> HIDE DEF plain
    <3>. QED
      BY <3>1, <3>2
  <2>. QED
    BY <1>2, <2>1 DEF Bytes, ByteStrings
<1>6. MaterialOK'
  <2>1. CASE \E bytes \in RawForms(set) : material' = [form |-> "raw", set |-> set, data |-> bytes]
    BY <1>4, <2>1 DEF MaterialOK
  <2>2. CASE \E document \in Documents(set) :
               material' = [form |-> "pkcs8", set |-> set, data |-> document]
    BY <1>5, <2>2 DEF MaterialOK
  <2>. QED
    BY <1>1, <2>1, <2>2
<1>7. KeyOK' /\ CapsuleOK'
  BY DEF Receive, KeysInv, KeyOK, CapsuleOK, Made
<1>. QED
  BY <1>6, <1>7 DEF KeysInv

LEMMA ImportKeepsInv ==
  ASSUME KeysInv, Import PROVE KeysInv'
<1>1. PICK set \in IF key = None THEN Sets ELSE {key.set}, random \in Messages \cup {None} :
        LET result == IF material.form = "raw" THEN from_serialized(set, material.data, random)
                      ELSE from_pkcs8_der(set, material.data, random)
        IN  key' = result.value /\ error' = result.error
  BY DEF Import
<1>2. set \in Sets
  BY <1>1 DEF KeysInv, KeyOK, Good, KeyType
<1> DEFINE result == IF material.form = "raw" THEN from_serialized(set, material.data, random)
                     ELSE from_pkcs8_der(set, material.data, random)
<1>3. GoodAnswer(result)
  <2>1. CASE material.form = "raw"
    <3>1. material.data \in ByteStrings
      BY <2>1 DEF Import, KeysInv, MaterialOK
    <3>. QED
      BY <1>2, <2>1, <3>1, Serialized
  <2>2. CASE material.form # "raw"
    <3>1. /\ Bytes(material.data.seed, None, material.data.seed_length) \in ByteStrings
          /\ Bytes(None, material.data.expanded, material.data.length) \in ByteStrings
      BY <2>2 DEF Import, KeysInv, MaterialOK
    <3>. QED
      BY <1>2, <2>2, <3>1, Pkcs8
  <2>. QED
    BY <2>1, <2>2
<1>4. KeyOK'
  <2>1. key' = result.value
    BY <1>1
  <2> HIDE DEF result
  <2>. QED
    BY <1>3, <2>1 DEF KeyOK, GoodAnswer
<1>5. MaterialOK' /\ CapsuleOK'
  BY DEF Import, KeysInv, MaterialOK, CapsuleOK, Made
<1>. QED
  BY <1>4, <1>5 DEF KeysInv

LEMMA EncapsulateKeepsInv ==
  ASSUME KeysInv, Encapsulate PROVE KeysInv'
<1>1. key' = key /\ material' = material /\ key # None /\ key.set \in KemSets /\ material = None
  BY DEF Encapsulate
<1>2. KeyOK' /\ MaterialOK'
  BY <1>1 DEF KeysInv, KeyOK, MaterialOK
<1>3. CASE UNCHANGED <<capsule, shared>>
  BY <1>1, <1>2, <1>3 DEF KeysInv, CapsuleOK, Made
<1>4. ASSUME NEW m \in Messages,
             capsule' = [sent |-> Encapsulated(public_key(key), m).ciphertext, received |-> None],
             shared' = <<Encapsulated(public_key(key), m).shared, None>>
      PROVE  KeysInv'
  <2> DEFINE public == key.expanded.public
  <2>1. public_key(key) = public
    BY <1>1 DEF public_key, PublicOf
  <2>2. /\ capsule' = [sent |-> [to |-> public, m |-> m, hash |-> public], received |-> None]
        /\ shared' = <<<<"shared", m, public>>, None>>
    BY <1>4, <2>1 DEF Encapsulated
  <2>3. Made(public, m)' /\ shared'[2] = None
    BY <1>1, <2>2 DEF Made
  <2>. QED
    BY <1>1, <1>2, <2>3 DEF KeysInv, CapsuleOK
<1>. QED
  BY <1>3, <1>4 DEF Encapsulate

(* The key that decapsulates is the one encapsulated to, and whole: what   *)
(* it decrypts encrypts again to the ciphertext that arrived.              *)
LEMMA DecapsulateKeepsInv ==
  ASSUME KeysInv, Decapsulate PROVE KeysInv'
<1>1. key' = key /\ material' = material /\ key # None /\ capsule # None
  BY DEF Decapsulate
<1>2. KeyOK' /\ MaterialOK'
  BY <1>1 DEF KeysInv, KeyOK, MaterialOK
<1>3. CASE UNCHANGED <<capsule, shared>>
  BY <1>1, <1>2, <1>3 DEF KeysInv, CapsuleOK, Made
<1>4. ASSUME NEW c \in {capsule.sent} \cup {[capsule.sent EXCEPT !.m = m] : m \in Messages},
             capsule' = [capsule EXCEPT !.received = c],
             shared' = [shared EXCEPT ![2] = Decapsulated(key.expanded, c)]
      PROVE  KeysInv'
  <2> DEFINE e == key.expanded
             public == e.public
  <2>1. PICK m \in Messages : Made(public, m)
    BY <1>1 DEF KeysInv, CapsuleOK
  <2>2. key.set \in KemSets /\ e.secret = public /\ e.hash = public /\ material = None
    BY <1>1 DEF KeysInv, KeyOK, CapsuleOK, Good, Whole, PublicOf
  <2>3. /\ capsule.sent = [to |-> public, m |-> m, hash |-> public]
        /\ shared = <<<<"shared", m, public>>, shared[2]>>
    BY <2>1 DEF Made
  <2>4. c = [to |-> public, m |-> c.m, hash |-> public]
    BY <1>4, <2>3
  <2>5. Decapsulated(e, c) = <<"shared", c.m, public>>
    BY <2>2, <2>4 DEF Decapsulated
  <2>6. /\ capsule' = [sent |-> [to |-> public, m |-> m, hash |-> public], received |-> c]
        /\ shared' = <<<<"shared", m, public>>, <<"shared", c.m, public>>>>
    BY <1>4, <2>1, <2>3, <2>5 DEF Made
  <2>7. Made(public, m)' /\ (shared'[1] = shared'[2] <=> capsule'.received = capsule'.sent)
    BY <1>1, <2>4, <2>6 DEF Made
  <2>. QED
    BY <1>1, <1>2, <2>2, <2>7 DEF KeysInv, CapsuleOK
<1>. QED
  BY <1>3, <1>4 DEF Decapsulate

LEMMA KeysInvNext == KeysInv /\ [Next]_vars => KeysInv'
<1>1. KeysInv /\ UNCHANGED vars => KeysInv'
  BY DEF vars, KeysInv, KeyOK, MaterialOK, CapsuleOK, Made
<1>. QED
  BY <1>1, GenerateKeepsInv, ExportKeepsInv, ReceiveKeepsInv, ImportKeepsInv,
     EncapsulateKeepsInv, DecapsulateKeepsInv DEF Next

(* However a key came in, its parts belong together, it comes back from    *)
(* every export, and the ends of an encapsulation agree exactly on         *)
(* unaltered ciphertexts.                                                  *)
THEOREM EveryKeyIsWhole == Spec => []KeysAreWhole
<1>1. KeysInv => KeysAreWhole
  <2> SUFFICES ASSUME KeysInv PROVE KeysAreWhole
    OBVIOUS
  <2>1. key # None => Whole(key) /\ Survives(key)
    BY GoodSurvives DEF KeysInv, KeyOK, Good
  <2>2. shared # None /\ shared[2] # None =>
          (shared[1] = shared[2] <=> capsule.received = capsule.sent)
    BY DEF KeysInv, CapsuleOK
  <2>. QED
    BY <2>1, <2>2 DEF KeysAreWhole
<1>. QED
  BY <1>1, KeysInvInit, KeysInvNext, PTL DEF Spec

-----------------------------------------------------------------------------
(* MlDsaSigning.                                                           *)

(* What the internal message of a call consists of.                        *)
Alphabet ==
  Octets \cup Nat \cup DOMAIN DigestLength \cup {Oid[i] : i \in DOMAIN Oid}

LEMMA StringsAreSequences ==
  ASSUME NEW longest \in Nat, NEW s \in ML!Strings(longest)
  PROVE  s \in Seq(Alphabet)
<1>1. PICK l \in 0 .. longest : s \in [1 .. l -> Octets]
  BY DEF ML!Strings
<1>2. l \in Nat
  OBVIOUS
<1>3. s \in Seq(Octets)
  BY <1>1, <1>2
<1>4. Octets \subseteq Alphabet
  BY DEF Alphabet
<1>. QED
  BY <1>3, <1>4, SeqMonotonic

LEMMA OidIsSequence ==
  ASSUME ML!OctetsFit PROVE Oid \in Seq(Alphabet)
<1> DEFINE S == {Oid[i] : i \in DOMAIN Oid}
<1>1. Oid \in Seq(S) /\ S \subseteq Alphabet
  BY DEF ML!OctetsFit, Alphabet
<1> HIDE DEF S
<1>. QED
  BY <1>1, SeqMonotonic

(* Concatenation, as a name that the provers do not expand.                *)
Cat(p, q) == p \o q

LEMMA CatProperties ==
  ASSUME NEW p \in Seq(Alphabet), NEW q \in Seq(Alphabet)
  PROVE  /\ Cat(p, q) \in Seq(Alphabet) /\ Len(Cat(p, q)) = Len(p) + Len(q)
         /\ \A i \in 1 .. Len(p) : Cat(p, q)[i] = p[i]
         /\ \A i \in 1 .. Len(q) : Cat(p, q)[Len(p) + i] = q[i]
<1>1. Len(p) \in Nat /\ Len(q) \in Nat
  OBVIOUS
<1>2. /\ p \o q \in Seq(Alphabet) /\ Len(p \o q) = Len(p) + Len(q)
      /\ \A i \in 1 .. Len(p) + Len(q) :
           (p \o q)[i] = IF i <= Len(p) THEN p[i] ELSE q[i - Len(p)]
  BY ConcatProperties
<1>3. /\ Cat(p, q) \in Seq(Alphabet) /\ Len(Cat(p, q)) = Len(p) + Len(q)
      /\ \A i \in 1 .. Len(p) + Len(q) :
           Cat(p, q)[i] = IF i <= Len(p) THEN p[i] ELSE q[i - Len(p)]
  BY <1>2 DEF Cat
<1>4. \A i \in 1 .. Len(p) : Cat(p, q)[i] = p[i]
  BY <1>1, <1>3
<1>5. \A i \in 1 .. Len(q) : Cat(p, q)[Len(p) + i] = q[i]
  <2> TAKE i \in 1 .. Len(q)
  <2>1. Len(p) + i \in 1 .. Len(p) + Len(q) /\ ~(Len(p) + i <= Len(p)) /\ (Len(p) + i) - Len(p) = i
    BY <1>1
  <2>. QED
    BY <1>3, <2>1
<1>. QED
  BY <1>3, <1>4, <1>5

LEMMA CatAssociative ==
  ASSUME NEW p \in Seq(Alphabet), NEW q \in Seq(Alphabet), NEW r \in Seq(Alphabet)
  PROVE  Cat(Cat(p, q), r) = Cat(p, Cat(q, r))
<1>1. (p \o q) \o r = p \o (q \o r)
  BY ConcatAssociative, SMTT(30)
<1>. QED
  BY <1>1, Zenon DEF Cat

(* A concatenation and the length of its first part determine the parts.   *)
Before(w, n) == [i \in 1 .. n |-> w[i]]
After(w, n) == [i \in 1 .. Len(w) - n |-> w[n + i]]

LEMMA CatSplits ==
  ASSUME NEW p \in Seq(Alphabet), NEW q \in Seq(Alphabet)
  PROVE  p = Before(Cat(p, q), Len(p)) /\ q = After(Cat(p, q), Len(p))
<1>1. Len(p) \in Nat /\ Len(q) \in Nat
  OBVIOUS
<1>2. /\ Len(Cat(p, q)) = Len(p) + Len(q)
      /\ \A i \in 1 .. Len(p) : Cat(p, q)[i] = p[i]
      /\ \A i \in 1 .. Len(q) : Cat(p, q)[Len(p) + i] = q[i]
  BY CatProperties, Zenon
<1>3. p = [i \in 1 .. Len(p) |-> p[i]] /\ q = [i \in 1 .. Len(q) |-> q[i]]
  OBVIOUS
<1>4. Len(Cat(p, q)) - Len(p) = Len(q)
  BY <1>1, <1>2
<1>5. Before(Cat(p, q), Len(p)) = [i \in 1 .. Len(p) |-> p[i]]
  BY <1>2, Zenon DEF Before
<1>6. After(Cat(p, q), Len(p)) = [i \in 1 .. Len(q) |-> q[i]]
  BY <1>2, <1>4, Zenon DEF After
<1>. QED
  BY <1>3, <1>5, <1>6, Zenon

LEMMA SecondOctet ==
  ASSUME NEW v \in Seq(Alphabet), NEW w \in Seq(Alphabet), NEW x \in Seq(Alphabet), Len(v) = 2
  PROVE  /\ Cat(v, w) \in Seq(Alphabet) /\ Len(Cat(v, w)) = 2 + Len(w)
         /\ Cat(Cat(v, w), x)[2] = v[2]
<1>1. /\ Cat(v, w) \in Seq(Alphabet) /\ Len(Cat(v, w)) = Len(v) + Len(w)
      /\ \A i \in 1 .. Len(v) : Cat(v, w)[i] = v[i]
  BY CatProperties, Zenon
<1>2. \A i \in 1 .. Len(Cat(v, w)) : Cat(Cat(v, w), x)[i] = Cat(v, w)[i]
  BY <1>1, CatProperties, Zenon
<1>3. Len(w) \in Nat
  OBVIOUS
<1>4. 2 \in 1 .. Len(v) /\ 2 \in 1 .. Len(Cat(v, w))
  BY <1>1, <1>3
<1>. QED
  BY <1>1, <1>2, <1>4

(* A head of two octets that holds the length of the context behind it     *)
(* says how the rest is to be read.                                        *)
Frame(w) == Before(w, 2 + w[2])

LEMMA FrameIsExact ==
  ASSUME NEW g \in Seq(Alphabet), NEW c \in Seq(Alphabet), NEW r \in Seq(Alphabet),
         Len(g) = 2, g[2] = Len(c)
  PROVE  LET w == Cat(Cat(g, c), r)
         IN  g = Before(Frame(w), 2) /\ c = After(Frame(w), 2) /\ r = After(w, 2 + w[2])
<1> DEFINE p == Cat(g, c)
           w == Cat(p, r)
<1>1. p \in Seq(Alphabet) /\ Len(p) = 2 + Len(c) /\ w[2] = g[2] /\ w = Cat(p, r)
  BY SecondOctet, Zenon
<1>2. g = Before(p, Len(g)) /\ c = After(p, Len(g))
  BY CatSplits, Zenon
<1> HIDE DEF p, w
<1>3. Len(p) = 2 + w[2]
  BY <1>1, Zenon
<1>4. p = Before(w, Len(p)) /\ r = After(w, Len(p))
  BY <1>1, CatSplits, Zenon
<1>5. p = Frame(w)
  BY <1>3, <1>4, Zenon DEF Frame
<1>. QED
  BY <1>2, <1>3, <1>4, <1>5, Zenon DEF p, w

(* The length of a context that is not refused fits in its octet.          *)
LEMMA LengthFitsOctet ==
  ASSUME ML!OctetsFit, NEW l \in Nat, ~(l > Radix - 1)
  PROVE  l % Radix = l
<1> DEFINE q == l \div Radix
           m == l % Radix
<1>1. Radix \in Nat \ {0}
  BY DEF ML!OctetsFit
<1>2. q \in Int /\ m \in Int /\ l = Radix * q + m /\ 0 <= m /\ m < Radix
  BY <1>1
<1> HIDE DEF q, m
<1>3. ~(q >= 1)
  <2> SUFFICES ASSUME q >= 1 PROVE FALSE
    OBVIOUS
  <2>1. Radix * q >= Radix
    BY <1>1, <1>2
  <2>. QED
    BY <1>1, <1>2, <2>1
<1>4. ~(q <= -1)
  <2> SUFFICES ASSUME q <= -1 PROVE FALSE
    OBVIOUS
  <2>1. Radix * q <= -Radix
    BY <1>1, <1>2
  <2>. QED
    BY <1>1, <1>2, <2>1
<1>5. q = 0
  BY <1>2, <1>3, <1>4
<1>6. Radix * q = 0
  BY <1>1, <1>5
<1>. QED
  BY <1>1, <1>2, <1>6 DEF m

(* The internal message of a call, in its parts.                           *)
HeadOf(c) == <<IF c.hash = Nothing THEN 0 ELSE 1, Len(c.context) % Radix>>
RestOf(c) == IF c.hash = Nothing THEN c.message ELSE Cat(Cat(Oid, <<c.hash>>), c.message)

LEMMA CallParts ==
  ASSUME ML!OctetsFit, NEW c \in ML!Calls
  PROVE  /\ c.message \in Seq(Alphabet) /\ c.context \in Seq(Alphabet)
         /\ c.hash # Nothing => <<c.hash>> \in Seq(Alphabet) /\ Len(<<c.hash>>) = 1
         /\ c = [message |-> c.message, context |-> c.context, hash |-> c.hash]
<1>1. c.message \in ML!Strings(MaxMessage) /\ c.context \in ML!Strings(MaxContext)
  BY DEF ML!Calls
<1>2. c.hash # Nothing => c.hash \in Alphabet
  BY DEF ML!Calls, ML!Prehashes, Alphabet
<1>3. c = [message |-> c.message, context |-> c.context, hash |-> c.hash]
  BY DEF ML!Calls
<1>. QED
  BY <1>1, <1>2, <1>3, StringsAreSequences DEF ML!OctetsFit

LEMMA InternalParts ==
  ASSUME ML!OctetsFit, NEW c \in ML!Calls, ML!InputError(c) = "none"
  PROVE  /\ HeadOf(c) \in Seq(Alphabet) /\ Len(HeadOf(c)) = 2 /\ HeadOf(c)[2] = Len(c.context)
         /\ RestOf(c) \in Seq(Alphabet)
         /\ ML!Internal(c) = Cat(Cat(HeadOf(c), c.context), RestOf(c))
<1>1. Len(c.context) \in Nat /\ c.context \in Seq(Alphabet) /\ c.message \in Seq(Alphabet)
  BY CallParts, LenProperties
<1>2. ~(Len(c.context) > Radix - 1)
  BY DEF ML!InputError, ML!EncodeError, ML!ContextLengthRefused
<1>3. Len(c.context) % Radix = Len(c.context)
  BY <1>1, <1>2, LengthFitsOctet
<1>4. HeadOf(c) = <<IF c.hash = Nothing THEN 0 ELSE 1, Len(c.context)>>
  BY <1>3 DEF HeadOf
<1>5. HeadOf(c) \in Seq(Alphabet) /\ Len(HeadOf(c)) = 2 /\ HeadOf(c)[2] = Len(c.context)
  <2>1. Len(c.context) \in Alphabet /\ 0 \in Alphabet /\ 1 \in Alphabet
    BY <1>1 DEF Alphabet
  <2>. QED
    BY <1>4, <2>1
<1>6. CASE c.hash = Nothing
  BY <1>1, <1>5, <1>6 DEF ML!Internal, ML!Framed, HeadOf, RestOf, Cat
<1>7. CASE c.hash # Nothing
  <2> DEFINE x == <<c.hash>>
             h == HeadOf(c)
  <2>1. x \in Seq(Alphabet)
    BY <1>7, CallParts
  <2>2. ML!Internal(c) = Cat(Cat(Cat(Cat(h, c.context), Oid), x), c.message)
    BY <1>7 DEF ML!Internal, ML!encode, HeadOf, Cat
  <2>3. RestOf(c) = Cat(Cat(Oid, x), c.message)
    BY <1>7 DEF RestOf
  <2> HIDE DEF h, x
  <2>4. h \in Seq(Alphabet)
    BY <1>5 DEF h
  <2>5. Cat(h, c.context) \in Seq(Alphabet) /\ Cat(Oid, x) \in Seq(Alphabet)
    BY <1>1, <2>1, <2>4, OidIsSequence, CatProperties
  <2>6. Cat(Cat(Cat(h, c.context), Oid), x) = Cat(Cat(h, c.context), Cat(Oid, x))
    BY <2>1, <2>5, OidIsSequence, CatAssociative
  <2>7. Cat(Cat(Cat(h, c.context), Cat(Oid, x)), c.message)
          = Cat(Cat(h, c.context), Cat(Cat(Oid, x), c.message))
    BY <1>1, <2>5, CatAssociative
  <2>8. Cat(Cat(Oid, x), c.message) \in Seq(Alphabet)
    BY <1>1, <2>5, CatProperties
  <2>. QED
    BY <1>5, <2>2, <2>3, <2>6, <2>7, <2>8 DEF h
<1>. QED
  BY <1>6, <1>7

LEMMA InternalReads ==
  ASSUME ML!OctetsFit, NEW c \in ML!Calls, ML!InputError(c) = "none"
  PROVE  /\ HeadOf(c) = Before(Frame(ML!Internal(c)), 2) /\ c.context = After(Frame(ML!Internal(c)), 2)
         /\ RestOf(c) = After(ML!Internal(c), 2 + ML!Internal(c)[2])
<1>1. /\ c.context \in Seq(Alphabet) /\ RestOf(c) \in Seq(Alphabet)
      /\ HeadOf(c) \in Seq(Alphabet) /\ Len(HeadOf(c)) = 2 /\ HeadOf(c)[2] = Len(c.context)
      /\ ML!Internal(c) = Cat(Cat(HeadOf(c), c.context), RestOf(c))
  BY CallParts, InternalParts, Zenon
<1>. QED
  BY <1>1, FrameIsExact

(* The internal message of ML-DSA determines the call.                     *)
LEMMA InternalIsExact ==
  ASSUME ML!OctetsFit, NEW a \in ML!Calls, NEW b \in ML!Calls,
         ML!InputError(a) = "none", ML!InputError(b) = "none", ML!Internal(a) = ML!Internal(b)
  PROVE  a = b
<1>1. HeadOf(a) = HeadOf(b) /\ a.context = b.context /\ RestOf(a) = RestOf(b)
  BY InternalReads, Zenon
<1>2. a.hash = Nothing <=> b.hash = Nothing
  <2>1. HeadOf(a)[1] = IF a.hash = Nothing THEN 0 ELSE 1
    BY DEF HeadOf
  <2>2. HeadOf(b)[1] = IF b.hash = Nothing THEN 0 ELSE 1
    BY DEF HeadOf
  <2>. QED
    BY <1>1, <2>1, <2>2
<1>3. CASE a.hash = Nothing
  BY <1>1, <1>2, <1>3, CallParts DEF RestOf
<1>4. CASE a.hash # Nothing
  <2> DEFINE x == <<a.hash>>
             y == <<b.hash>>
  <2>1. Cat(Cat(Oid, x), a.message) = Cat(Cat(Oid, y), b.message)
    BY <1>1, <1>2, <1>4 DEF RestOf
  <2>2. /\ x \in Seq(Alphabet) /\ y \in Seq(Alphabet) /\ Len(x) = 1 /\ Len(y) = 1
        /\ a.message \in Seq(Alphabet) /\ b.message \in Seq(Alphabet)
    BY <1>2, <1>4, CallParts
  <2>3. x = y => a.hash = b.hash
    OBVIOUS
  <2> HIDE DEF x, y
  <2>4. /\ Cat(Oid, x) \in Seq(Alphabet) /\ Len(Cat(Oid, x)) = Len(Oid) + Len(x)
        /\ Cat(Oid, y) \in Seq(Alphabet) /\ Len(Cat(Oid, y)) = Len(Oid) + Len(y)
    BY <2>2, OidIsSequence, CatProperties, Zenon
  <2>5. /\ Cat(Oid, x) = Before(Cat(Cat(Oid, x), a.message), Len(Cat(Oid, x)))
        /\ a.message = After(Cat(Cat(Oid, x), a.message), Len(Cat(Oid, x)))
    BY <2>2, <2>4, CatSplits, Zenon
  <2>6. /\ Cat(Oid, y) = Before(Cat(Cat(Oid, y), b.message), Len(Cat(Oid, y)))
        /\ b.message = After(Cat(Cat(Oid, y), b.message), Len(Cat(Oid, y)))
    BY <2>2, <2>4, CatSplits, Zenon
  <2>7. Len(Cat(Oid, x)) = Len(Cat(Oid, y))
    BY <2>2, <2>4, Zenon
  <2>8. Cat(Oid, x) = Cat(Oid, y) /\ a.message = b.message
    BY <2>1, <2>5, <2>6, <2>7, Zenon
  <2>9. x = After(Cat(Oid, x), Len(Oid)) /\ y = After(Cat(Oid, y), Len(Oid))
    BY <2>2, OidIsSequence, CatSplits, Zenon
  <2>10. x = y
    BY <2>8, <2>9, Zenon
  <2>. QED
    BY <1>1, <2>3, <2>8, <2>10, CallParts, Zenon
<1>. QED
  BY <1>3, <1>4

-----------------------------------------------------------------------------
(* A signature is over the internal message of the call that made it.      *)
SignedOK ==
  signed # Nothing =>
    /\ signed.call \in ML!Calls /\ ML!InputError(signed.call) = "none"
    /\ signed.over = ML!Internal(signed.call)

VerifiedOK == verified # Nothing => signed # Nothing

SigningInv == SignedOK /\ VerifiedOK /\ ML!SignaturesAreBound

LEMMA SigningInvInit == ML!Init => SigningInv
  BY DEF ML!Init, SigningInv, SignedOK, VerifiedOK, ML!SignaturesAreBound

LEMMA SignKeepsSigningInv ==
  ASSUME SigningInv, ML!Sign PROVE SigningInv'
<1>1. verified = Nothing /\ verified' = verified
  BY DEF ML!Sign, SigningInv, VerifiedOK
<1>2. PICK c \in ML!Calls, randomization \in ML!Randomizations, filling \in ML!Fillings :
        LET rnd == ML!Randomizer(randomization, filling)
        IN  IF ML!InputError(c) # "none" THEN refusal' = ML!InputError(c) /\ UNCHANGED signed
            ELSE IF rnd = Nothing THEN refusal' = "RandomnessUnavailable" /\ UNCHANGED signed
            ELSE /\ refusal' = "none"
                 /\ signed' = [call |-> c, over |-> ML!Internal(c), rnd |-> rnd,
                               randomization |-> randomization, healthy |-> filling.ok]
  BY DEF ML!Sign
<1>3. CASE signed' = signed
  BY <1>1, <1>3 DEF SigningInv, SignedOK, VerifiedOK, ML!SignaturesAreBound
<1>4. CASE signed' # signed
  <2> DEFINE rnd == ML!Randomizer(randomization, filling)
  <2>1. /\ ML!InputError(c) = "none" /\ rnd # Nothing
        /\ signed' = [call |-> c, over |-> ML!Internal(c), rnd |-> rnd,
                      randomization |-> randomization, healthy |-> filling.ok]
    BY <1>2, <1>4
  <2>2. /\ signed'.call = c /\ signed'.over = ML!Internal(c) /\ signed'.rnd = rnd
        /\ signed'.randomization = randomization /\ signed'.healthy = filling.ok
    BY <2>1
  <2>3. /\ randomization = "Randomized" => filling.ok
        /\ rnd = IF filling.ok /\ randomization # "Deterministic" THEN "fresh" ELSE "zeros"
    BY <2>1 DEF ML!Randomizer, ML!Randomizations, ML!Fillings
  <2>. QED
    BY <1>1, <2>1, <2>2, <2>3 DEF SigningInv, SignedOK, VerifiedOK, ML!SignaturesAreBound
<1>. QED
  BY <1>3, <1>4

LEMMA VerifyKeepsSigningInv ==
  ASSUME ML!OctetsFit, SigningInv, ML!Verify PROVE SigningInv'
<1>1. /\ signed # Nothing /\ signed' = signed
      /\ refusal' = ML!VerifyError(verified'.call, verified'.public, verified'.signature)
  BY DEF ML!Verify
<1>2. /\ verified'.call \in ML!Calls /\ verified'.public \in {"signer", "other", "wrong_length"}
      /\ verified'.signature \in {"made", "wrong_length"}
  BY <1>1 DEF ML!Verify, SigningInv, SignedOK
<1>3. /\ signed.call \in ML!Calls /\ ML!InputError(signed.call) = "none"
      /\ signed.over = ML!Internal(signed.call)
  BY <1>1 DEF SigningInv, SignedOK
<1>4. refusal' = "none"
        <=> /\ verified'.call = signed.call /\ verified'.public = "signer"
            /\ verified'.signature = "made"
  <2>1. refusal' = "none"
          <=> /\ ML!InputError(verified'.call) = "none" /\ verified'.public = "signer"
              /\ verified'.signature = "made" /\ ML!Internal(verified'.call) = signed.over
    BY <1>1, <1>2 DEF ML!VerifyError
  <2>. QED
    BY <1>2, <1>3, <2>1, InternalIsExact
<1>. QED
  BY <1>1, <1>4 DEF SigningInv, SignedOK, VerifiedOK, ML!SignaturesAreBound

LEMMA SigningInvNext ==
  ASSUME ML!OctetsFit, SigningInv, [ML!Next]_ML!vars
  PROVE  SigningInv'
<1>1. CASE UNCHANGED ML!vars
  BY <1>1 DEF ML!vars, SigningInv, SignedOK, VerifiedOK, ML!SignaturesAreBound
<1>. QED
  BY <1>1, SignKeepsSigningInv, VerifyKeepsSigningInv DEF ML!Next

(* A signature verifies exactly for the key, message, context and prehash  *)
(* identifier it was made for, whatever the octets, the object identifier  *)
(* and the lengths of digests are, and a generator that fails neither      *)
(* gives a signature that was to be randomized nor leaves a trace in one   *)
(* that falls back to the deterministic variant.                           *)
THEOREM SignaturesBindTheirCall ==
  ASSUME ML!OctetsFit
  PROVE  ExchangesSpec => []SignaturesAreBound
<1> DEFINE PartInv == part = "signing" => SigningInv
<1>1. ExchangesInit => PartInv
  BY SigningInvInit DEF ExchangesInit
<1>2. PartInv /\ [ExchangesNext]_exchanges => PartInv'
  <2> SUFFICES ASSUME PartInv, [ExchangesNext]_exchanges, part' = "signing"
               PROVE  SigningInv'
    OBVIOUS
  <2>1. part = "signing" /\ [ML!Next]_ML!vars
    BY DEF ExchangesNext, ExchangeStep, ArkgStep, SigningStep, exchanges, exchange, arkg,
           signing, ML!vars
  <2>. QED
    BY <2>1, SigningInvNext
<1>3. PartInv => SignaturesAreBound
  BY DEF SigningInv, SignaturesAreBound
<1>. QED
  BY <1>1, <1>2, <1>3, PTL DEF ExchangesSpec

-----------------------------------------------------------------------------
(* Arithmetic modulo a prime order, for the two modules below.             *)
(* Division with remainder, as two facts the provers use.                  *)
LEMMA Remainder ==
  ASSUME NEW o \in Nat \ {0}, NEW x \in Int
  PROVE  x % o \in 0 .. o - 1 /\ x \div o \in Int /\ x = o * (x \div o) + (x % o)
<1> DEFINE q == x \div o
           m == x % o
<1>1. q \in Int /\ m \in Int /\ x = o * q + m /\ 0 <= m /\ m < o
  OBVIOUS
<1> HIDE DEF q, m
<1>2. m \in 0 .. o - 1
  BY <1>1
<1>. QED
  BY <1>1, <1>2, Zenon DEF q, m

LEMMA RemainderIs ==
  ASSUME NEW o \in Nat \ {0}, NEW q \in Int, NEW m \in 0 .. o - 1
  PROVE  (o * q + m) % o = m
  OBVIOUS

LEMMA MultipleRemainder ==
  ASSUME NEW o \in Nat \ {0} PROVE \A d \in Int : (o * d + 0) % o = 0
<1>1. 0 \in 0 .. o - 1
  OBVIOUS
<1>. QED
  BY <1>1, RemainderIs, Zenon

(* No product of two numbers below o is divisible by it.                   *)
Prime(o) == o \in Nat \ {0, 1} /\ \A x, y \in 1 .. o - 1 : (x * y) % o # 0

LEMMA ProductInRange ==
  ASSUME NEW o, Prime(o), NEW x \in 1 .. o - 1, NEW y \in 1 .. o - 1
  PROVE  (x * y) % o \in 1 .. o - 1
<1>1. o \in Nat \ {0} /\ x * y \in Int /\ (x * y) % o # 0
  BY DEF Prime
<1> DEFINE p == x * y
<1> HIDE DEF p
<1>2. p % o \in 0 .. o - 1 /\ p % o # 0
  BY <1>1, Remainder DEF p
<1>. QED
  BY <1>1, <1>2 DEF p

LEMMA FactorsCancel ==
  ASSUME NEW o, Prime(o), NEW x \in 1 .. o - 1, NEW y \in 1 .. o - 1, NEW z \in 1 .. o - 1,
         (x * y) % o = (x * z) % o
  PROVE  ~(y < z)
<1> SUFFICES ASSUME y < z PROVE FALSE
  OBVIOUS
<1> DEFINE p == x * y
           q == x * z
           u == p \div o
           v == q \div o
           m == p % o
<1>1. o \in Nat \ {0} /\ o \in Int /\ p \in Int /\ q \in Int
  BY DEF Prime
<1>2. /\ u \in Int /\ m \in Int /\ p = o * u + m
      /\ v \in Int /\ q = o * v + (q % o)
  <2> HIDE DEF p, q
  <2>1. /\ p % o \in 0 .. o - 1 /\ p \div o \in Int /\ p = o * (p \div o) + (p % o)
        /\ q \div o \in Int /\ q = o * (q \div o) + (q % o)
    BY <1>1, Remainder, Zenon
  <2>2. \A k \in 0 .. o - 1 : k \in Int
    BY <1>1
  <2>. QED
    BY <2>1, <2>2, Zenon
<1>3. q % o = m
  OBVIOUS
<1>4. x * (z - y) = q - p
  OBVIOUS
<1> HIDE DEF p, q, u, v, m
<1>5. q - p = o * (v - u) + 0
  <2>1. q - p = o * v - o * u
    BY <1>1, <1>2, <1>3
  <2>2. \A s, t \in Int : o * s - o * t = o * (s - t) + 0
    BY <1>1
  <2>3. o * v - o * u = o * (v - u) + 0
    BY <1>2, <2>2, Zenon
  <2>. QED
    BY <2>1, <2>3, Zenon
<1>6. (x * (z - y)) % o = 0
  <2>1. v - u \in Int
    BY <1>2
  <2>. QED
    BY <1>1, <1>4, <1>5, <2>1, MultipleRemainder, Zenon
<1>7. z - y \in 1 .. o - 1
  BY <1>1
<1>. QED
  BY <1>6, <1>7 DEF Prime

LEMMA FactorsOpposite ==
  ASSUME NEW o, Prime(o), NEW x \in 1 .. o - 1, NEW y \in 1 .. o - 1, NEW z \in 1 .. o - 1,
         ((x * y) % o) + ((x * z) % o) = o
  PROVE  y + z = o
<1> DEFINE p == x * y
           q == x * z
           u == p \div o
           v == q \div o
<1>1. o \in Nat \ {0} /\ o \in Int /\ p \in Int /\ q \in Int
  BY DEF Prime
<1>2. /\ u \in Int /\ p % o \in Int /\ p = o * u + (p % o)
      /\ v \in Int /\ q % o \in Int /\ q = o * v + (q % o)
  <2> HIDE DEF p, q
  <2>1. /\ p % o \in 0 .. o - 1 /\ p \div o \in Int /\ p = o * (p \div o) + (p % o)
        /\ q % o \in 0 .. o - 1 /\ q \div o \in Int /\ q = o * (q \div o) + (q % o)
    BY <1>1, Remainder, Zenon
  <2>2. \A k \in 0 .. o - 1 : k \in Int
    BY <1>1
  <2>. QED
    BY <2>1, <2>2, Zenon
<1>3. (p % o) + (q % o) = o
  OBVIOUS
<1>4. /\ x * (y + z) = p + q
      /\ x * (y + z - o) = p + q - x * o
  BY <1>1
<1> HIDE DEF p, q, u, v
<1>5. p + q = o * u + o * v + o
  BY <1>1, <1>2, <1>3
<1>6. p + q = o * (u + v + 1) + 0
  BY <1>1, <1>2, <1>5
<1>7. p + q - x * o = o * (u + v + 1 - x) + 0
  BY <1>1, <1>2, <1>5
<1>8. \A d \in Int : (o * d + 0) % o = 0
  BY <1>1, MultipleRemainder, Zenon
<1>9. (x * (y + z)) % o = 0 /\ (x * (y + z - o)) % o = 0
  <2>1. u + v + 1 \in Int /\ u + v + 1 - x \in Int
    BY <1>2
  <2>. QED
    BY <1>4, <1>6, <1>7, <1>8, <2>1
<1>10. ~(y + z \in 1 .. o - 1) /\ ~(y + z - o \in 1 .. o - 1)
  BY <1>9 DEF Prime
<1>. QED
  BY <1>1, <1>10

LEMMA OppositeFactor ==
  ASSUME NEW o, Prime(o), NEW x \in 1 .. o - 1, NEW y \in 1 .. o - 1
  PROVE  o - y \in 1 .. o - 1 /\ (x * (o - y)) % o = o - ((x * y) % o)
<1> DEFINE p == x * y
           u == p \div o
           m == p % o
<1>1. o \in Nat \ {0} /\ o \in Int /\ p \in Int /\ m \in 1 .. o - 1
  BY ProductInRange DEF Prime
<1>2. u \in Int /\ p = o * u + m
  <2> HIDE DEF p
  <2>. QED
    BY <1>1, Remainder
<1>3. x * (o - y) = x * o - p
  BY <1>1
<1> HIDE DEF p, u, m
<1>4. x * o - p = o * (x - u - 1) + (o - m)
  BY <1>1, <1>2
<1> DEFINE d == x - u - 1
           w == o - m
<1>5. d \in Int /\ w \in 0 .. o - 1 /\ o - y \in 1 .. o - 1
  BY <1>1, <1>2
<1>6. (o * d + w) % o = w
  <2> HIDE DEF d, w
  <2>. QED
    BY <1>1, <1>5, RemainderIs
<1>7. x * (o - y) = o * d + w
  BY <1>3, <1>4
<1>. QED
  BY <1>5, <1>6, <1>7, Zenon DEF w, m, p

-----------------------------------------------------------------------------
(* Asynchronous remote key generation.                                     *)
Below == 1 .. Order - 1

LEMMA OrderFacts ==
  ASSUME AR!OrderIsPrime
  PROVE  Prime(Order) /\ Order \in Nat \ {0} /\ Order > 1
  BY DEF AR!OrderIsPrime, Prime

(* A point and its negative have one x-coordinate, and no others do.       *)
LEMMA SameAbscissa ==
  ASSUME AR!OrderIsPrime, NEW p \in Below, NEW q \in Below
  PROVE  AR!X(p) = AR!X(q) <=> p = q \/ p + q = Order
<1>1. Order \in Nat
  BY OrderFacts
<1>. QED
  BY <1>1 DEF AR!X, Below

(* The two sides of the key agreement compute one x-coordinate exactly if  *)
(* the scalars of the receiver and of the point agree up to the sign.      *)
LEMMA SharedAbscissa ==
  ASSUME AR!OrderIsPrime, NEW e \in Below, NEW k \in Below, NEW l \in Below
  PROVE  AR!X((k * e) % Order) = AR!X((e * l) % Order) <=> l = k \/ l = Order - k
<1> DEFINE p == (e * k) % Order
           q == (e * l) % Order
<1>1. Prime(Order) /\ Order \in Nat
  BY OrderFacts
<1>2. p \in Below /\ q \in Below
  BY <1>1, ProductInRange DEF Below
<1>3. k * e = e * k
  BY <1>1 DEF Below
<1>4. p = q => ~(k < l) /\ ~(l < k)
  BY <1>1, FactorsCancel, Zenon DEF Below
<1>5. p + q = Order => k + l = Order
  BY <1>1, FactorsOpposite, Zenon DEF Below
<1>6. (e * (Order - k)) % Order = Order - p
  BY <1>1, OppositeFactor, Zenon DEF Below
<1>7. AR!X(p) = AR!X(q) <=> p = q \/ p + q = Order
  BY <1>2, SameAbscissa
<1>8. l = k => p = q
  OBVIOUS
<1>9. l = Order - k => q = Order - p
  BY <1>6
<1> HIDE DEF p, q
<1>10. k \in Int /\ l \in Int /\ p \in Int /\ q \in Int
  BY <1>1, <1>2 DEF Below
<1>11. (p = q \/ p + q = Order) <=> (l = k \/ l = Order - k)
  BY <1>1, <1>4, <1>5, <1>8, <1>9, <1>10
<1>. QED
  BY <1>3, <1>7, <1>11, Zenon DEF p, q

LEMMA HashIsScalar ==
  ASSUME AR!OrderIsPrime, AR!InputsAreOctets, salt \in Salts, NEW message \in Nat, NEW domain \in Nat
  PROVE  AR!hash_to_scalar(message, domain) \in 0 .. Order - 1
<1>1. Order \in Nat \ {0} /\ ChunkRadix \in Nat \ {0} /\ salt \in Nat
  BY OrderFacts DEF AR!InputsAreOctets
<1> DEFINE u == AR!Uniform(message, domain)
<1>2. u \in Int
  <2> DEFINE w == salt + message + 5 * domain
             c == ChunkRadix * ChunkRadix
  <2>1. w \in Int /\ c \in Nat \ {0}
    BY <1>1
  <2> HIDE DEF w, c
  <2>2. w % c \in 0 .. c - 1
    BY <2>1, Remainder
  <2>. QED
    BY <2>1, <2>2 DEF w, c, AR!Uniform
<1> HIDE DEF u
<1>3. u \div ChunkRadix \in Int /\ u % ChunkRadix \in 0 .. ChunkRadix - 1
  BY <1>1, <1>2, Remainder
<1> DEFINE high == (u \div ChunkRadix) % Order
           low == (u % ChunkRadix) % Order
           radix == ChunkRadix % Order
<1>4. high \in Int /\ low \in Int /\ radix \in Int
  <2>1. u % ChunkRadix \in Int /\ ChunkRadix \in Int
    BY <1>1, <1>3
  <2>2. high \in 0 .. Order - 1 /\ low \in 0 .. Order - 1 /\ radix \in 0 .. Order - 1
    BY <1>1, <1>3, <2>1, Remainder
  <2>. QED
    BY <1>1, <2>2
<1> HIDE DEF high, low, radix
<1>5. high * radix + low \in Int
  BY <1>4
<1> DEFINE x == high * radix + low
<1> HIDE DEF x
<1>6. x % Order \in 0 .. Order - 1
  BY <1>1, <1>5, Remainder DEF x
<1>. QED
  BY <1>6, Zenon DEF x, high, low, radix, u, AR!hash_to_scalar, AR!reduce_48_bytes,
                     AR!scalar_from_24_bytes

LEMMA TauIsScalar ==
  ASSUME AR!OrderIsPrime, AR!InputsAreOctets, salt \in Salts,
         NEW p \in Below, NEW context \in Contexts
  PROVE  AR!X(p) \in 0 .. Order /\ AR!Tau(AR!X(p), context) \in 0 .. Order - 1
<1>1. AR!X(p) \in 0 .. Order
  BY OrderFacts DEF AR!X, Below
<1>2. 3 * AR!X(p) \in Nat
  BY <1>1, OrderFacts
<1>3. AR!Blinding(context) \in Nat
  BY DEF AR!Blinding, AR!InputsAreOctets
<1>. QED
  BY <1>1, <1>2, <1>3, HashIsScalar DEF AR!Tau

(* What the public side answers: the derived key and its ticket.           *)
Agreement(k, e) == AR!X((k * e) % Order)
Blinded(b, x, context) == (b + AR!Tau(x, context)) % Order
TicketOf(x, e, context) == [tag |-> AR!Tag(AR!MacKey(x, context), e), ephemeral |-> e]
DerivedKey(b, x, e, context) ==
  [public_key |-> Blinded(b, x, context), ticket |-> TicketOf(x, e, context)]
Fits(context) == ~(context.length > MaxContextLength)

LEMMA AgreementIsAbscissa ==
  ASSUME AR!OrderIsPrime, AR!InputsAreOctets, salt \in Salts,
         NEW k \in Below, NEW e \in Below, NEW b \in Below, NEW context \in Contexts
  PROVE  /\ Agreement(k, e) \in 0 .. Order
         /\ Blinded(b, Agreement(k, e), context) \in 0 .. Order - 1
<1> DEFINE x == Agreement(k, e)
           t == AR!Tau(x, context)
<1>1. (k * e) % Order \in Below
  BY OrderFacts, ProductInRange DEF Below
<1>2. x \in 0 .. Order /\ t \in 0 .. Order - 1
  BY <1>1, TauIsScalar DEF Agreement
<1> HIDE DEF x, t
<1>3. Order \in Nat \ {0} /\ b + t \in Int
  BY <1>2, OrderFacts DEF Below
<1> DEFINE s == b + t
<1> HIDE DEF s
<1>4. s % Order \in 0 .. Order - 1
  BY <1>3, Remainder DEF s
<1>. QED
  BY <1>2, <1>4, Zenon DEF x, t, s, Blinded

LEMMA PublicSide ==
  ASSUME AR!OrderIsPrime, AR!InputsAreOctets, salt \in Salts,
         NEW b \in Below \cup {Order}, NEW k \in Below \cup {Order},
         NEW input \in Materials, NEW context \in Contexts,
         AR!arkg_p256_derive_public(b, k, input, context).ok
  PROVE  /\ b \in Below /\ k \in Below /\ Fits(context)
         /\ \E e \in Below :
              LET x == Agreement(k, e)
              IN  /\ AR!arkg_p256_derive_public(b, k, input, context)
                       = AR!Ok(DerivedKey(b, x, e, context))
                  /\ Blinded(b, x, context) \in Below
<1> DEFINE e == AR!hash_to_scalar(input.octets, AR!KemKeyGeneration)
           x == AR!X((k * e) % Order)
           public == (b + AR!Tau(x, context)) % Order
           r == AR!arkg_p256_derive_public(b, k, input, context)
<1>1. e \in 0 .. Order - 1
  BY HashIsScalar DEF AR!InputsAreOctets, AR!KemKeyGeneration
<1>2. r = IF ~input.long THEN AR!Err("InputKeyingMaterialTooShort")
          ELSE IF ~AR!derivation_contexts(context).ok THEN AR!derivation_contexts(context)
          ELSE IF ~AR!IsPoint(b) \/ ~AR!IsPoint(k) THEN AR!Err("InvalidPublicPoint")
          ELSE IF e = 0 THEN AR!Err("DerivedZeroScalar")
          ELSE IF ~AR!projective_to_uncompressed(public).ok THEN AR!Err("IdentityPoint")
          ELSE AR!Ok([public_key |-> public,
                      ticket |-> [tag |-> AR!Tag(AR!MacKey(x, context), e), ephemeral |-> e]])
  <2> HIDE DEF e, x, public
  <2>. QED
    BY DEF AR!arkg_p256_derive_public, e, x, public
<1> HIDE DEF e, x, public, r
<1>3. r.ok
  BY DEF r
<1>4. AR!derivation_contexts(context).ok <=> Fits(context)
  BY DEF AR!derivation_contexts, Fits, AR!Ok, AR!Err
<1>5. AR!derivation_contexts(context).ok \in BOOLEAN
  BY DEF AR!derivation_contexts, AR!Ok, AR!Err
<1>6. \A v : AR!Err(v).ok = FALSE
  BY DEF AR!Err
<1>7. AR!projective_to_uncompressed(public).ok <=> public # 0
  BY DEF AR!projective_to_uncompressed, AR!Ok, AR!Err
<1>8. /\ Fits(context) /\ AR!IsPoint(b) /\ AR!IsPoint(k) /\ e # 0 /\ public # 0
      /\ r = AR!Ok([public_key |-> public,
                    ticket |-> [tag |-> AR!Tag(AR!MacKey(x, context), e), ephemeral |-> e]])
  BY <1>2, <1>3, <1>4, <1>5, <1>6, <1>7, Zenon
<1>9. b \in Below /\ k \in Below /\ e \in Below
  BY <1>1, <1>8, OrderFacts DEF AR!IsPoint, Below
<1>10. x = Agreement(k, e) /\ public = Blinded(b, x, context)
  BY Zenon DEF x, public, Agreement, Blinded
<1>11. public \in Below
  <2>1. public \in 0 .. Order - 1
    BY <1>9, <1>10, AgreementIsAbscissa
  <2>. QED
    BY <1>8, <2>1, OrderFacts DEF Below
<1>12. r = AR!Ok(DerivedKey(b, x, e, context))
  BY <1>8, <1>10 DEF DerivedKey, TicketOf
<1>. QED
  BY <1>8, <1>9, <1>10, <1>11, <1>12, Zenon DEF r

(* What the private side checks, and what it then answers.                 *)
Passes(b, k, ticket, context) ==
  /\ Fits(context) /\ b \in Below /\ k \in Below /\ ticket.ephemeral \in Below
  /\ ticket.tag = AR!Tag(AR!MacKey(AR!X((ticket.ephemeral * k) % Order), context), ticket.ephemeral)

LEMMA PrivateSide ==
  ASSUME NEW b, NEW k, NEW ticket, NEW context
  PROVE  LET r == AR!arkg_p256_derive_private(b, k, ticket, context)
             private == Blinded(b, AR!X((ticket.ephemeral * k) % Order), context)
         IN  /\ r.ok <=> Passes(b, k, ticket, context) /\ private # 0
             /\ Passes(b, k, ticket, context) =>
                  r = IF private = 0 THEN AR!Err("DerivedZeroScalar") ELSE AR!Ok(private)
<1> DEFINE x == AR!X((ticket.ephemeral * k) % Order)
           private == Blinded(b, x, context)
           tag == AR!Tag(AR!MacKey(x, context), ticket.ephemeral)
           r == AR!arkg_p256_derive_private(b, k, ticket, context)
<1>1. r = IF ~AR!derivation_contexts(context).ok THEN AR!derivation_contexts(context)
          ELSE IF ~AR!parse_scalar(b).ok \/ ~AR!parse_scalar(k).ok THEN AR!Err("InvalidPrivateScalar")
          ELSE IF ~AR!IsPoint(ticket.ephemeral) THEN AR!Err("InvalidTicketPoint")
          ELSE IF ticket.tag # tag THEN AR!Err("TicketAuthenticationFailed")
          ELSE IF private = 0 THEN AR!Err("DerivedZeroScalar") ELSE AR!Ok(private)
  <2> HIDE DEF x
  <2>. QED
    BY DEF AR!arkg_p256_derive_private, x, Blinded
<1>2. Passes(b, k, ticket, context)
        <=> /\ Fits(context) /\ b \in Below /\ k \in Below /\ ticket.ephemeral \in Below
            /\ ticket.tag = tag
  BY Zenon DEF Passes
<1> HIDE DEF x, private, tag, r
<1>3. AR!derivation_contexts(context).ok <=> Fits(context)
  BY DEF AR!derivation_contexts, Fits, AR!Ok, AR!Err
<1>4. (\A v : AR!Err(v).ok = FALSE) /\ \A value : AR!Ok(value).ok = TRUE
  BY DEF AR!Err, AR!Ok
<1>5. (AR!parse_scalar(b).ok <=> b \in Below) /\ (AR!parse_scalar(k).ok <=> k \in Below)
  BY DEF AR!parse_scalar, AR!Ok, AR!Err, Below
<1>6. AR!IsPoint(ticket.ephemeral) <=> ticket.ephemeral \in Below
  BY DEF AR!IsPoint, Below
<1>7. r.ok <=> Passes(b, k, ticket, context) /\ private # 0
  BY <1>1, <1>2, <1>3, <1>4, <1>5, <1>6, Zenon
<1>8. Passes(b, k, ticket, context) =>
        r = IF private = 0 THEN AR!Err("DerivedZeroScalar") ELSE AR!Ok(private)
  BY <1>1, <1>2, <1>3, <1>5, <1>6, Zenon
<1>. QED
  BY <1>7, <1>8, Zenon DEF r, private, x

(* A ticket passes exactly unaltered, in its context, for the scalar it    *)
(* was made for or its negative, and then both sides have one              *)
(* x-coordinate.                                                           *)
PassesExactly(k, e, c, b, l, f, context, tag) ==
  LET ticket == [tag |-> tag, ephemeral |-> f]
      x == Agreement(k, e)
  IN  /\ Passes(b, l, ticket, context) <=>
           /\ ticket = TicketOf(x, e, c) /\ context = c
           /\ b \in Below /\ l \in {k, Order - k}
      /\ Passes(b, l, ticket, context) => AR!X((f * l) % Order) = x

LEMMA TicketPasses ==
  ASSUME AR!OrderIsPrime, AR!InputsAreOctets,
         NEW k \in Below, NEW e \in Below, NEW c \in Contexts, Fits(c),
         NEW b, NEW l, NEW f \in 0 .. Order, NEW context \in Contexts,
         NEW tag, tag = TicketOf(Agreement(k, e), e, c).tag \/ tag = Nothing
  PROVE  PassesExactly(k, e, c, b, l, f, context, tag)
<1> DEFINE ticket == [tag |-> tag, ephemeral |-> f]
           x == Agreement(k, e)
           y == AR!X((f * l) % Order)
<1>1. TicketOf(x, e, c) = [tag |-> <<<<"mac", x, c>>, e>>, ephemeral |-> e]
  BY DEF TicketOf, AR!Tag, AR!MacKey
<1>2. Passes(b, l, ticket, context)
        <=> /\ Fits(context) /\ b \in Below /\ l \in Below /\ f \in Below
            /\ tag = <<<<"mac", y, context>>, f>>
  BY DEF Passes, AR!Tag, AR!MacKey
<1>3. ASSUME Passes(b, l, ticket, context)
      PROVE  ticket = TicketOf(x, e, c) /\ context = c /\ b \in Below /\ l \in {k, Order - k} /\ y = x
  <2>1. l \in Below /\ f \in Below /\ b \in Below /\ tag = <<<<"mac", y, context>>, f>>
    BY <1>2, <1>3, Zenon
  <2>2. (f * l) % Order \in Below
    BY <2>1, OrderFacts, ProductInRange DEF Below
  <2>3. y \in 0 .. Order /\ f \in 0 .. Order
    BY <2>2, OrderFacts DEF AR!X, Below
  <2> HIDE DEF y, x
  <2>4. tag # Nothing
    BY <2>1, <2>3 DEF AR!InputsAreOctets, AR!Tag, AR!MacKey
  <2>5. tag = <<<<"mac", x, c>>, e>>
    BY <1>1, <2>4 DEF x
  <2>6. y = x /\ context = c /\ f = e
    BY <2>1, <2>5
  <2>7. AR!X((k * e) % Order) = AR!X((e * l) % Order)
    BY <2>6, Zenon DEF y, x, Agreement
  <2>8. l \in {k, Order - k}
    BY <2>1, <2>7, SharedAbscissa
  <2>. QED
    BY <1>1, <2>1, <2>5, <2>6, <2>8
<1>4. ASSUME ticket = TicketOf(x, e, c), context = c, b \in Below, l \in {k, Order - k}
      PROVE  Passes(b, l, ticket, context)
  <2>1. f = e /\ tag = <<<<"mac", x, c>>, e>>
    <3> HIDE DEF x
    <3>. QED
      BY <1>1, <1>4
  <2>2. l \in Below
    BY <1>4, OrderFacts DEF Below
  <2>3. AR!X((k * e) % Order) = AR!X((e * l) % Order)
    BY <1>4, <2>2, SharedAbscissa
  <2>4. y = x
    BY <2>1, <2>3, Zenon DEF Agreement
  <2>. QED
    BY <1>2, <1>4, <2>1, <2>2, <2>4, Zenon
<1>. QED
  BY <1>3, <1>4, Zenon DEF PassesExactly

-----------------------------------------------------------------------------
(* What the public side answered is the key and ticket of this device.     *)
DeviceOK == device \in AR!Devices /\ salt \in Salts
Offer(e) ==
  LET x == Agreement(device.kem, e)
  IN  /\ derivation.result = AR!Ok(DerivedKey(device.blinding, x, e, derivation.context))
      /\ Blinded(device.blinding, x, derivation.context) \in Below
OfferOK ==
  derivation # Nothing /\ derivation.result.ok =>
    /\ device.blinding \in Below /\ device.kem \in Below
    /\ derivation.context \in Contexts /\ Fits(derivation.context)
    /\ \E e \in Below : Offer(e)
ArkgInv ==
  DeviceOK /\ OfferOK /\ (derivation = Nothing => derived = Nothing) /\ AR!TicketsAreExact

LEMMA ArkgInvInit == AR!Init => ArkgInv
  BY DEF AR!Init, ArkgInv, DeviceOK, OfferOK, AR!TicketsAreExact

(* The definitions that read salt do not change while it does not.         *)
LEMMA OfferStays ==
  ASSUME UNCHANGED <<device, salt, derivation>>, OfferOK PROVE OfferOK'
<1>1. device' = device /\ derivation' = derivation /\ salt' = salt
  OBVIOUS
<1>. QED
  BY <1>1 DEF OfferOK, Offer, DerivedKey, Blinded, AR!Tau, AR!hash_to_scalar, AR!Uniform

LEMMA DerivePublicKeepsArkgInv ==
  ASSUME AR!OrderIsPrime, AR!InputsAreOctets, ArkgInv, AR!DerivePublic PROVE ArkgInv'
<1> DEFINE blinding == AR!arkg_p256_public_point(device.blinding)
           kem == AR!arkg_p256_public_point(device.kem)
<1>1. /\ blinding.ok /\ kem.ok /\ device' = device /\ salt' = salt /\ derived' = derived
      /\ derivation = Nothing
  BY DEF AR!DerivePublic
<1>2. PICK input \in Materials, context \in Contexts :
        \E b \in {blinding.value, Order}, k \in {kem.value, Order} :
          derivation' = [context |-> context,
                         result |-> AR!arkg_p256_derive_public(b, k, input, context)]
  BY DEF AR!DerivePublic
<1>3. PICK b \in {blinding.value, Order}, k \in {kem.value, Order} :
        derivation' = [context |-> context,
                       result |-> AR!arkg_p256_derive_public(b, k, input, context)]
  BY <1>2
<1>4. \A octets : AR!arkg_p256_public_point(octets).ok =>
        octets \in Below /\ AR!arkg_p256_public_point(octets).value = octets
  <2> TAKE octets
  <2> HAVE AR!arkg_p256_public_point(octets).ok
  <2>1. octets \in Below
    BY DEF AR!arkg_p256_public_point, AR!parse_scalar, AR!Ok, AR!Err, Below
  <2>2. octets % Order = octets
    BY <2>1, OrderFacts DEF Below
  <2>. QED
    BY <2>1, <2>2, OrderFacts DEF AR!arkg_p256_public_point, AR!parse_scalar, AR!Ok, Below,
                                  AR!projective_to_uncompressed
<1>5. /\ device.blinding \in Below /\ blinding.value = device.blinding
      /\ device.kem \in Below /\ kem.value = device.kem
  BY <1>1, <1>4, Zenon
<1>6. derived' = Nothing /\ (derivation' = Nothing => derived' = Nothing)
  BY <1>1 DEF ArkgInv
<1>7. salt \in Salts /\ DeviceOK'
  BY <1>1 DEF ArkgInv, DeviceOK, AR!Devices
<1>8. OfferOK'
  <2> DEFINE answer == AR!arkg_p256_derive_public(b, k, input, context)
  <2>1. derivation'.context = context /\ derivation'.result = answer
    BY <1>3
  <2> HIDE DEF answer
  <2> SUFFICES ASSUME answer.ok
               PROVE  /\ device.blinding \in Below /\ device.kem \in Below
                      /\ context \in Contexts /\ Fits(context)
                      /\ \E e \in Below : Offer(e)'
    BY <1>1, <2>1 DEF OfferOK, Fits
  <2>2. b \in Below \cup {Order} /\ k \in Below \cup {Order}
    BY <1>5
  <2>3. b \in Below /\ k \in Below /\ Fits(context)
    BY <1>7, <2>2, PublicSide, Zenon DEF answer
  <2>4. PICK e \in Below :
          /\ answer = AR!Ok(DerivedKey(b, Agreement(k, e), e, context))
          /\ Blinded(b, Agreement(k, e), context) \in Below
    BY <1>7, <2>2, PublicSide, Zenon DEF answer
  <2>5. b = device.blinding /\ k = device.kem
    BY <1>5, <2>3, OrderFacts DEF Below
  <2>6. Offer(e)'
    BY <1>1, <2>1, <2>4, <2>5
    DEF Offer, DerivedKey, Blinded, AR!Tau, AR!hash_to_scalar, AR!Uniform
  <2>. QED
    BY <1>5, <2>3, <2>6
<1>. QED
  BY <1>6, <1>7, <1>8 DEF ArkgInv, AR!TicketsAreExact

LEMMA DerivePrivateKeepsArkgInv ==
  ASSUME AR!OrderIsPrime, AR!InputsAreOctets, ArkgInv, AR!DerivePrivate PROVE ArkgInv'
<1>1. /\ derivation # Nothing /\ derivation.result.ok
      /\ device' = device /\ salt' = salt /\ derivation' = derivation
  BY DEF AR!DerivePrivate
<1>2. PICK receiver \in AR!Devices, context \in Contexts, ephemeral \in 0 .. Order,
           tag \in {derivation.result.value.ticket.tag, Nothing} :
        LET ticket == [tag |-> tag, ephemeral |-> ephemeral]
        IN  derived' = [receiver |-> receiver, context |-> context, ticket |-> ticket,
                        result |-> AR!arkg_p256_derive_private(receiver.blinding, receiver.kem,
                                                               ticket, context)]
  BY DEF AR!DerivePrivate
<1> DEFINE ticket == [tag |-> tag, ephemeral |-> ephemeral]
           answer == AR!arkg_p256_derive_private(receiver.blinding, receiver.kem, ticket, context)
<1>3. /\ derived'.receiver = receiver /\ derived'.context = context
      /\ derived'.ticket = ticket /\ derived'.result = answer
  BY <1>2
<1>4. /\ device.blinding \in Below /\ device.kem \in Below /\ salt \in Salts
      /\ derivation.context \in Contexts /\ Fits(derivation.context)
  BY <1>1 DEF ArkgInv, OfferOK, DeviceOK
<1>5. PICK e \in Below : Offer(e)
  BY <1>1 DEF ArkgInv, OfferOK
<1> DEFINE x == Agreement(device.kem, e)
           c == derivation.context
           key_of(b) == Blinded(b, x, c)
<1>6. /\ derivation.result.value.ticket = TicketOf(x, e, c)
      /\ derivation.result.value.public_key = key_of(device.blinding)
      /\ key_of(device.blinding) \in Below
  <2>1. /\ derivation.result = AR!Ok(DerivedKey(device.blinding, x, e, c))
        /\ key_of(device.blinding) \in Below
    BY <1>5, Zenon DEF Offer
  <2>2. \A v : AR!Ok(v).value = v
    BY DEF AR!Ok
  <2>3. \A b, z, f, d : /\ DerivedKey(b, z, f, d).ticket = TicketOf(z, f, d)
                        /\ DerivedKey(b, z, f, d).public_key = Blinded(b, z, d)
    BY DEF DerivedKey
  <2>4. derivation.result.value = DerivedKey(device.blinding, x, e, c)
    BY <2>1, <2>2
  <2>. QED
    BY <2>1, <2>3, <2>4
<1> DEFINE passes == Passes(receiver.blinding, receiver.kem, ticket, context)
           y == AR!X((ephemeral * receiver.kem) % Order)
           private == Blinded(receiver.blinding, y, context)
           genuine == /\ ticket = TicketOf(x, e, c) /\ context = c
                      /\ receiver.blinding \in Below /\ receiver.kem \in {device.kem, Order - device.kem}
<1>7. (passes <=> genuine) /\ (passes => y = x)
  <2> DEFINE k == device.kem
             l == receiver.kem
             b == receiver.blinding
  <2>1. tag = TicketOf(Agreement(k, e), e, c).tag \/ tag = Nothing
    BY <1>6
  <2>2. k \in Below /\ c \in Contexts /\ Fits(c)
    BY <1>4
  <2> HIDE DEF k, l, b, c
  <2>3. PassesExactly(k, e, c, b, l, ephemeral, context, tag)
    BY <2>1, <2>2, TicketPasses, Zenon
  <2>. QED
    BY <2>3, Zenon DEF PassesExactly, k, l, b, c
<1>8. /\ answer.ok <=> passes /\ private # 0
      /\ passes => answer = IF private = 0 THEN AR!Err("DerivedZeroScalar") ELSE AR!Ok(private)
  BY PrivateSide
<1>9. passes => private = key_of(receiver.blinding) /\ private \in 0 .. Order - 1
  <2> SUFFICES ASSUME passes PROVE private = key_of(receiver.blinding) /\ private \in 0 .. Order - 1
    OBVIOUS
  <2>1. y = x /\ context = c /\ receiver.blinding \in Below
    BY <1>7, Zenon
  <2>2. private = key_of(receiver.blinding)
    BY <2>1, Zenon
  <2>. QED
    BY <1>4, <2>1, <2>2, AgreementIsAbscissa
<1>10. AR!parse_scalar(receiver.blinding).ok <=> receiver.blinding \in Below
  BY DEF AR!parse_scalar, AR!Ok, AR!Err, Below
<1>11. \A v : AR!Ok(v).ok = TRUE /\ AR!Ok(v).value = v
  BY DEF AR!Ok
<1>12. \A v : AR!Err(v).ok = FALSE /\ AR!Err(v).error = v
  BY DEF AR!Err
<1> HIDE DEF answer, passes, private, x, y
<1>13. answer.ok => genuine /\ answer.value \in 1 .. Order - 1
  <2> SUFFICES ASSUME answer.ok PROVE genuine /\ answer.value \in 1 .. Order - 1
    OBVIOUS
  <2>1. passes /\ private # 0 /\ answer = AR!Ok(private) /\ genuine
    BY <1>7, <1>8, Zenon
  <2>2. private \in 1 .. Order - 1
    BY <1>9, <2>1, OrderFacts
  <2>. QED
    BY <1>11, <2>1, <2>2, Zenon
<1>14. genuine => answer.ok \/ answer.error = "DerivedZeroScalar"
  BY <1>7, <1>8, <1>12, Zenon
<1>15. genuine /\ receiver.blinding = device.blinding => answer = AR!Ok(key_of(device.blinding))
  <2> SUFFICES ASSUME genuine, receiver.blinding = device.blinding
               PROVE  answer = AR!Ok(key_of(device.blinding))
    OBVIOUS
  <2>1. passes /\ private = key_of(device.blinding)
    BY <1>7, <1>9, Zenon
  <2>2. private # 0
    BY <1>6, <2>1 DEF Below
  <2>. QED
    BY <1>8, <2>1, <2>2, Zenon
<1>16. AR!TicketsAreExact'
  <2> HIDE DEF ticket
  <2>. QED
    BY <1>1, <1>3, <1>6, <1>10, <1>13, <1>14, <1>15, Zenon DEF AR!TicketsAreExact, AR!parse_scalar
<1>17. DeviceOK' /\ OfferOK'
  BY <1>1, OfferStays DEF ArkgInv, DeviceOK, AR!Devices
<1>. QED
  BY <1>1, <1>16, <1>17 DEF ArkgInv

LEMMA ArkgInvNext ==
  ASSUME AR!OrderIsPrime, AR!InputsAreOctets, ArkgInv, [AR!Next]_AR!vars
  PROVE  ArkgInv'
<1>1. CASE UNCHANGED AR!vars
  <2>1. device' = device /\ salt' = salt /\ derivation' = derivation /\ derived' = derived
    BY <1>1 DEF AR!vars
  <2>2. DeviceOK' /\ OfferOK'
    BY <2>1, OfferStays DEF ArkgInv, DeviceOK, AR!Devices
  <2>3. AR!TicketsAreExact'
    BY <2>1 DEF ArkgInv, AR!TicketsAreExact, AR!parse_scalar, AR!Ok, AR!Err
  <2>. QED
    BY <2>1, <2>2, <2>3 DEF ArkgInv
<1>. QED
  BY <1>1, DerivePublicKeepsArkgInv, DerivePrivateKeepsArkgInv DEF AR!Next

(* For any prime order, hash function, contexts and scalars, a ticket      *)
(* passes exactly where it was made, and gives the device it was made for  *)
(* the private scalar of the derived public key.                           *)
THEOREM TicketsMatchTheirKeys ==
  ASSUME AR!OrderIsPrime, AR!InputsAreOctets
  PROVE  ExchangesSpec => []TicketsAreExact
<1> DEFINE PartInv == part = "arkg" => ArkgInv
<1>1. ExchangesInit => PartInv
  BY ArkgInvInit DEF ExchangesInit
<1>2. PartInv /\ [ExchangesNext]_exchanges => PartInv'
  <2> SUFFICES ASSUME PartInv, [ExchangesNext]_exchanges, part' = "arkg"
               PROVE  ArkgInv'
    OBVIOUS
  <2>1. part = "arkg" /\ [AR!Next]_AR!vars
    BY DEF ExchangesNext, ExchangeStep, ArkgStep, SigningStep, exchanges, exchange, arkg,
           signing, AR!vars
  <2>. QED
    BY <2>1, ArkgInvNext
<1>3. PartInv => TicketsAreExact
  BY DEF ArkgInv, TicketsAreExact
<1>. QED
  BY <1>1, <1>2, <1>3, PTL DEF ExchangesSpec

-----------------------------------------------------------------------------
(* Key agreement and the hybrid KEMs.                                      *)
LEMMA GroupFacts ==
  ASSUME KE!OrderIsPrime
  PROVE  Prime(Order) /\ Order \in Nat \ {0} /\ Order > 1
  BY DEF KE!OrderIsPrime, Prime

(* Multiplication on x-coordinates.                                        *)
LEMMA AbscissaOfScalar ==
  ASSUME KE!OrderIsPrime, NEW y \in Below
  PROVE  KE!Abscissa(y) \in {y, Order - y} /\ KE!Abscissa(y) \in Below
<1>1. Order \in Nat \ {0} /\ y % Order = y
  BY GroupFacts DEF Below
<1>2. KE!Abscissa(y) = IF 2 * y < Order THEN y ELSE Order - y
  BY <1>1, Zenon DEF KE!Abscissa
<1>. QED
  BY <1>1, <1>2 DEF Below

LEMMA AbscissaOfProduct ==
  ASSUME KE!OrderIsPrime, NEW x \in Below, NEW y \in Below
  PROVE  KE!Abscissa(x * KE!Abscissa(y)) = KE!Abscissa(x * y) /\ KE!Abscissa(x * y) # 0
<1> DEFINE m == (x * y) % Order
           w == (x * (Order - y)) % Order
<1>1. Prime(Order) /\ Order \in Nat \ {0}
  BY GroupFacts
<1>2. m \in Below
  BY <1>1, ProductInRange, Zenon DEF Below
<1>3. w = Order - m
  BY <1>1, OppositeFactor, Zenon DEF Below
<1>4. KE!Abscissa(x * y) = IF 2 * m < Order THEN m ELSE Order - m
  BY Zenon DEF KE!Abscissa
<1>5. KE!Abscissa(x * (Order - y)) = IF 2 * w < Order THEN w ELSE Order - w
  BY Zenon DEF KE!Abscissa
<1> HIDE DEF m, w
<1>6. KE!Abscissa(x * y) = KE!Abscissa(x * (Order - y)) /\ KE!Abscissa(x * y) # 0
  BY <1>1, <1>2, <1>3, <1>4, <1>5 DEF Below
<1>7. KE!Abscissa(y) \in {y, Order - y}
  BY AbscissaOfScalar
<1>. QED
  BY <1>6, <1>7

LEMMA AbscissaCommutes ==
  ASSUME KE!OrderIsPrime, NEW x \in Below, NEW y \in Below
  PROVE  /\ KE!Abscissa(x * y) = KE!Abscissa(y * x)
         /\ KE!Abscissa(x * KE!Abscissa(y)) = KE!Abscissa(y * KE!Abscissa(x))
<1>1. x * y = y * x
  BY GroupFacts DEF Below
<1>2. /\ KE!Abscissa(x * KE!Abscissa(y)) = KE!Abscissa(x * y)
      /\ KE!Abscissa(y * KE!Abscissa(x)) = KE!Abscissa(y * x)
  BY AbscissaOfProduct, Zenon
<1>. QED
  BY <1>1, <1>2, Zenon

-----------------------------------------------------------------------------
(* Both sides with each other's public key derive one secret.              *)
Secret(a, u) == KE!Ok(<<KE!Abscissa(a * u), FALSE>>)

LEMMA WeierstrassDerives ==
  ASSUME NEW a, NEW u, NEW peer, peer.form \in {"uncompressed", "compressed"}, peer.at = u
  PROVE  KE!derive_weierstrass(a, peer) = Secret(a, u)
<1>1. KE!derive_weierstrass(a, peer) = Secret(a, peer.at)
  BY DEF KE!derive_weierstrass, KE!Shared, Secret
<1>. QED
  BY <1>1

LEMMA X25519Derives ==
  ASSUME NEW a, NEW u, NEW peer, peer.form \in {"canonical", "alias", "torsion"}, peer.at = u,
         KE!Abscissa(a * u) # 0
  PROVE  KE!derive_x25519(a, peer) = Secret(a, u)
<1> DEFINE x(v) == KE!Abscissa(a * v)
<1>1. x(peer.at) # 0
  <2> HIDE DEF x
  <2>1. x(u) # 0
    BY DEF x
  <2>. QED
    BY <2>1
<1>2. KE!derive_x25519(a, peer) = Secret(a, peer.at)
  BY <1>1 DEF KE!derive_x25519, KE!Shared, KE!was_contributory, Secret
<1>. QED
  BY <1>2

LEMMA X448Derives ==
  ASSUME NEW a, NEW u, NEW peer, peer.form \in {"canonical", "alias", "torsion"}, peer.at = u
  PROVE  KE!derive_x448(a, peer) = Secret(a, u)
<1>1. KE!derive_x448(a, peer) = Secret(a, peer.at)
  BY DEF KE!derive_x448, KE!Shared, Secret
<1>. QED
  BY <1>1

Curves == {"P256", "X25519", "P384"}

LEMMA EachOthersKey ==
  ASSUME KE!OrderIsPrime, NEW curve \in Curves, NEW a \in Below, NEW b \in Below
  PROVE  /\ KE!derive(curve, a, KE!public_key(curve, b)).ok
         /\ KE!derive(curve, a, KE!public_key(curve, b))
              = KE!derive(curve, b, KE!public_key(curve, a))
<1> DEFINE of_a == KE!public_key(curve, a)
           of_b == KE!public_key(curve, b)
<1>1. \A x, y : Secret(x, y).ok
  BY DEF KE!Ok, Secret
<1>2. CASE curve \in KE!Weierstrass
  <2>1. /\ of_a.form \in {"uncompressed", "compressed"} /\ of_a.at = a
        /\ of_b.form \in {"uncompressed", "compressed"} /\ of_b.at = b
    BY <1>2 DEF KE!public_key, KE!Encoding
  <2> HIDE DEF of_a, of_b
  <2>2. /\ KE!derive_weierstrass(a, of_b) = Secret(a, b)
        /\ KE!derive_weierstrass(b, of_a) = Secret(b, a)
    BY <2>1, WeierstrassDerives
  <2>3. /\ KE!derive(curve, a, of_b) = KE!derive_weierstrass(a, of_b)
        /\ KE!derive(curve, b, of_a) = KE!derive_weierstrass(b, of_a)
    BY <1>2, Zenon DEF KE!derive
  <2>4. Secret(a, b) = Secret(b, a)
    BY AbscissaCommutes, Zenon DEF Secret
  <2>. QED
    BY <1>1, <2>2, <2>3, <2>4 DEF of_a, of_b
<1>3. CASE curve \notin KE!Weierstrass
  <2> DEFINE u == KE!Abscissa(a)
             v == KE!Abscissa(b)
  <2>1. /\ of_a.form = "canonical" /\ of_a.at = u /\ of_b.form = "canonical" /\ of_b.at = v
    BY <1>3 DEF KE!public_key, KE!Encoding
  <2>2. KE!Abscissa(a * v) # 0 /\ KE!Abscissa(b * u) # 0 /\ KE!Abscissa(a * v) = KE!Abscissa(b * u)
    BY AbscissaCommutes, AbscissaOfProduct
  <2> HIDE DEF of_a, of_b, u, v
  <2>3. KE!derive_x25519(a, of_b) = Secret(a, v) /\ KE!derive_x25519(b, of_a) = Secret(b, u)
    BY <2>1, <2>2, X25519Derives
  <2>4. /\ KE!derive(curve, a, of_b) = KE!derive_x25519(a, of_b)
        /\ KE!derive(curve, b, of_a) = KE!derive_x25519(b, of_a)
    BY <1>3, Zenon DEF KE!derive
  <2>5. Secret(a, v) = Secret(b, u)
    BY <2>2, Zenon DEF Secret
  <2>. QED
    BY <1>1, <2>3, <2>4, <2>5 DEF of_a, of_b
<1>. QED
  BY <1>2, <1>3

(* No accepted public key gives the secret that every private key gives.   *)
LEMMA WeierstrassContributes ==
  ASSUME KE!OrderIsPrime, NEW a \in Below, NEW peer \in KE!Encodings("weierstrass"),
         KE!derive_weierstrass(a, peer).ok
  PROVE  KE!was_contributory(KE!derive_weierstrass(a, peer).value)
<1>1. peer.form \in {"uncompressed", "compressed"}
  BY DEF KE!derive_weierstrass, KE!Err
<1>2. peer.at \in Below
  BY <1>1 DEF KE!Encodings, KE!Encoding, KE!Weierstrass, Below
<1> DEFINE u == peer.at
<1> HIDE DEF u
<1>3. KE!derive_weierstrass(a, peer) = Secret(a, u) /\ KE!Abscissa(a * u) # 0
  BY <1>1, <1>2, WeierstrassDerives, AbscissaOfProduct DEF u
<1>. QED
  BY <1>3 DEF Secret, KE!Ok, KE!was_contributory

LEMMA X25519Contributes ==
  ASSUME NEW a, NEW peer, KE!derive_x25519(a, peer).ok
  PROVE  KE!was_contributory(KE!derive_x25519(a, peer).value)
<1> DEFINE s == KE!Shared(a, peer)
<1>1. KE!derive_x25519(a, peer)
        = IF peer.form = "length" THEN KE!Err("InvalidPublicKey")
          ELSE IF ~KE!was_contributory(s) THEN KE!Err("NonContributoryPublicKey") ELSE KE!Ok(s)
  BY DEF KE!derive_x25519
<1> HIDE DEF s
<1>. QED
  BY <1>1 DEF KE!Ok, KE!Err

LEMMA X448Contributes ==
  ASSUME KE!OrderIsPrime, NEW a \in Below, NEW peer \in KE!Encodings("X448"),
         KE!derive_x448(a, peer).ok
  PROVE  KE!was_contributory(KE!derive_x448(a, peer).value)
<1> DEFINE u == peer.at
<1>1. peer.form \notin {"length", "zero", "low"} /\ KE!derive_x448(a, peer) = KE!Ok(KE!Shared(a, peer))
  BY DEF KE!derive_x448, KE!Err
<1>2. u \in 1 .. Order \div 2
  BY <1>1 DEF KE!Encodings, KE!Encoding, KE!Weierstrass
<1>3. \A k \in 1 .. Order \div 2 : k \in Below
  BY GroupFacts DEF Below
<1>4. KE!Abscissa(a * u) # 0
  <2> HIDE DEF u
  <2>. QED
    BY <1>2, <1>3, AbscissaOfProduct
<1>. QED
  BY <1>1, <1>4 DEF KE!Shared, KE!Ok, KE!was_contributory

First(curve, family, a, peer) ==
  IF curve = "weierstrass" THEN KE!derive_with_signing_key(family, a, peer)
  ELSE KE!MontgomeryDerive(curve, a, peer)
Second(curve, a, peer) ==
  IF curve = "weierstrass" THEN KE!derive_weierstrass(a, peer)
  ELSE KE!MontgomeryDerive(curve, a, peer)
StaticCurves == {"weierstrass", "X25519", "X448"}

LEMMA SecondContributes ==
  ASSUME KE!OrderIsPrime, NEW curve \in StaticCurves, NEW a \in Below,
         NEW peer \in KE!Encodings(curve), Second(curve, a, peer).ok
  PROVE  KE!was_contributory(Second(curve, a, peer).value)
<1>1. CASE curve = "weierstrass"
  <2>1. Second(curve, a, peer) = KE!derive_weierstrass(a, peer) /\ peer \in KE!Encodings("weierstrass")
    BY <1>1, Zenon DEF Second
  <2>. QED
    BY <2>1, WeierstrassContributes
<1>2. CASE curve = "X25519"
  <2>1. Second(curve, a, peer) = KE!derive_x25519(a, peer)
    BY <1>2 DEF Second, KE!MontgomeryDerive
  <2>. QED
    BY <2>1, X25519Contributes
<1>3. CASE curve = "X448"
  <2>1. Second(curve, a, peer) = KE!derive_x448(a, peer) /\ peer \in KE!Encodings("X448")
    BY <1>3 DEF Second, KE!MontgomeryDerive
  <2>. QED
    BY <2>1, X448Contributes
<1>. QED
  BY <1>1, <1>2, <1>3 DEF StaticCurves

LEMMA SecondOfNamed ==
  ASSUME KE!OrderIsPrime, NEW curve \in StaticCurves, NEW a \in Below, NEW b \in Below, NEW peer,
         KE!Names(peer, curve, b)
  PROVE  Second(curve, a, peer)
           = Secret(a, IF curve = "weierstrass" THEN b ELSE KE!Abscissa(b))
<1>1. CASE curve = "weierstrass"
  <2>1. peer.at = b /\ peer.form \in {"uncompressed", "compressed"}
    BY <1>1 DEF KE!Names, KE!Weierstrass
  <2>. QED
    BY <1>1, <2>1, WeierstrassDerives DEF Second
<1>2. CASE curve # "weierstrass"
  <2> DEFINE u == KE!Abscissa(b)
  <2>1. peer.at = u /\ peer.form \in {"canonical", "alias", "torsion"}
    BY <1>2 DEF KE!Names, KE!Weierstrass, StaticCurves
  <2>2. KE!Abscissa(a * u) # 0
    BY AbscissaOfProduct
  <2> HIDE DEF u
  <2>3. KE!derive_x25519(a, peer) = Secret(a, u) /\ KE!derive_x448(a, peer) = Secret(a, u)
    BY <2>1, <2>2, X25519Derives, X448Derives
  <2>. QED
    BY <1>2, <2>3 DEF Second, KE!MontgomeryDerive, u
<1>. QED
  BY <1>1, <1>2

StaticIsSound(curve, family, a, b, of_a, of_b) ==
  LET first == First(curve, family, a, of_b)
      second == Second(curve, b, of_a)
  IN  /\ \A result \in {first, second} : result.ok => KE!was_contributory(result.value)
      /\ family = "Ec" /\ KE!Names(of_a, curve, a) /\ KE!Names(of_b, curve, b)
           => first.ok /\ first = second

LEMMA StaticAgreement ==
  ASSUME KE!OrderIsPrime, NEW curve \in StaticCurves, NEW family,
         curve # "weierstrass" => family = "Ec", NEW a \in Below, NEW b \in Below,
         NEW of_a \in KE!Encodings(curve), NEW of_b \in KE!Encodings(curve)
  PROVE  StaticIsSound(curve, family, a, b, of_a, of_b)
<1> DEFINE first == First(curve, family, a, of_b)
           second == Second(curve, b, of_a)
<1>1. first = Second(curve, a, of_b) \/ ~first.ok
  BY DEF First, Second, KE!derive_with_signing_key, KE!Err
<1>2. family = "Ec" => first = Second(curve, a, of_b)
  BY DEF First, Second, KE!derive_with_signing_key
<1>3. /\ Second(curve, a, of_b).ok => KE!was_contributory(Second(curve, a, of_b).value)
      /\ second.ok => KE!was_contributory(second.value)
  BY SecondContributes
<1>4. ASSUME family = "Ec", KE!Names(of_a, curve, a), KE!Names(of_b, curve, b)
      PROVE  first.ok /\ first = second
  <2> DEFINE u == IF curve = "weierstrass" THEN a ELSE KE!Abscissa(a)
             v == IF curve = "weierstrass" THEN b ELSE KE!Abscissa(b)
  <2>1. first = Secret(a, v) /\ second = Secret(b, u)
    BY <1>2, <1>4, SecondOfNamed
  <2>2. KE!Abscissa(a * v) = KE!Abscissa(b * u)
    BY AbscissaCommutes
  <2> HIDE DEF first, second, u, v
  <2>3. Secret(a, v) = Secret(b, u) /\ Secret(a, v).ok
    BY <2>2 DEF Secret, KE!Ok
  <2>. QED
    BY <2>1, <2>3, Zenon
<1> HIDE DEF first, second
<1>5. \A result \in {first, second} : result.ok => KE!was_contributory(result.value)
  BY <1>1, <1>3
<1>. QED
  BY <1>4, <1>5 DEF StaticIsSound, first, second

-----------------------------------------------------------------------------
(* The hybrid KEMs.                                                        *)

Usable(octets) == DOMAIN octets.P256 = 1 .. 4 /\ octets.X25519 \in Below

(* What is drawn from a seed and accepted is a scalar.                     *)
LEMMA DrawnScalar ==
  ASSUME NEW construction \in KE!Constructions, NEW octets, Usable(octets),
         KE!from_seed(construction, octets).ok
  PROVE  KE!from_seed(construction, octets).value \in Below
<1>1. CASE construction = "MlKem768X25519"
  BY <1>1 DEF KE!from_seed, KE!Ok, Usable
<1>2. CASE construction = "MlKem1024P384"
  BY <1>2 DEF KE!from_seed, KE!Ok, KE!Err, KE!Valid, Below
<1>3. CASE construction = "MlKem768P256"
  <2> DEFINE usable == {i \in DOMAIN octets.P256 : KE!Valid(octets.P256[i])}
             least(i) == i \in usable /\ \A j \in usable : i <= j
             chosen == CHOOSE i \in usable : \A j \in usable : i <= j
  <2>1. KE!from_seed(construction, octets)
          = IF usable = {} THEN KE!Err("InvalidPrivateKey") ELSE KE!Ok(octets.P256[chosen])
    BY <1>3 DEF KE!from_seed
  <2>2. usable \subseteq 1 .. 4
    BY DEF Usable
  <2>3. usable # {}
    <3>1. ~KE!Err("InvalidPrivateKey").ok
      BY DEF KE!Err
    <3> HIDE DEF usable, chosen
    <3>. QED
      BY <2>1, <3>1, Zenon
  <2>4. \E i \in usable : \A j \in usable : i <= j
    <3> HIDE DEF usable
    <3>1. \A j \in usable : j = 1 \/ j = 2 \/ j = 3 \/ j = 4
      BY <2>2
    <3>2. PICK i : i \in usable
      BY <2>3, Zenon
    <3>3. 1 \in usable \/ 2 \in usable \/ 3 \in usable \/ 4 \in usable
      BY <3>1, <3>2, Zenon
    <3>. QED
      BY <3>1, <3>3
  <2>5. chosen \in usable
    <3> HIDE DEF usable
    <3>. QED
      BY <2>4
  <2>6. KE!Valid(octets.P256[chosen])
    BY <2>5
  <2>7. KE!from_seed(construction, octets).value = octets.P256[chosen]
    <3> HIDE DEF usable, chosen
    <3>. QED
      BY <2>1, <2>3 DEF KE!Ok
  <2>. QED
    BY <2>6, <2>7 DEF KE!Valid, Below
<1>. QED
  BY <1>1, <1>2, <1>3 DEF KE!Constructions

(* What an encapsulation that is not refused returns.                      *)
EphemeralKey(construction, ephemeral) == KE!public_key(KE!Traditional(construction), ephemeral)
PqSecret(public, message) == <<"shared", public, message>>
DhSecret(construction, private, peer) == KE!derive(KE!Traditional(construction), private, peer)
Sealed(construction, public, message, ephemeral) ==
  [ciphertext |-> KE!Parts(construction, KE!MlKemCiphertext(public.pq, message),
                           EphemeralKey(construction, ephemeral)),
   secret |-> KE!combine(construction, PqSecret(public.pq, message),
                         DhSecret(construction, ephemeral, public.t).value,
                         EphemeralKey(construction, ephemeral), public.t)]

LEMMA EncapsulationReturns ==
  ASSUME NEW construction, NEW public, NEW randomness,
         KE!hybrid_kem_encapsulate_deterministic(construction, public, randomness).ok
  PROVE  LET ephemeral == KE!from_seed(construction, randomness)
         IN  /\ KE!LengthFits(construction, public) /\ randomness.fits /\ ephemeral.ok
             /\ KE!hybrid_kem_encapsulate_deterministic(construction, public, randomness)
                  = KE!Ok(Sealed(construction, public, randomness.ml, ephemeral.value))
<1> DEFINE curve == KE!Traditional(construction)
           refused == KE!validate_traditional_public(construction, public.t)
           ephemeral == KE!from_seed(construction, randomness)
           ciphertext_t == KE!public_key(curve, ephemeral.value)
           shared_t == KE!derive(curve, ephemeral.value, public.t)
           ciphertext_pq == KE!MlKemCiphertext(public.pq, randomness.ml)
           value == [ciphertext |-> KE!Parts(construction, ciphertext_pq, ciphertext_t),
                     secret |-> KE!combine(construction, KE!MlKemSecret(public.pq, ciphertext_pq),
                                           shared_t.value, ciphertext_t, public.t)]
           answer == KE!hybrid_kem_encapsulate_deterministic(construction, public, randomness)
<1>1. answer
        = IF ~KE!LengthFits(construction, public) THEN KE!Err("InvalidPublicKey")
          ELSE IF ~randomness.fits THEN KE!Err("InvalidRandomnessLength")
          ELSE IF refused # {} THEN KE!Err(CHOOSE e \in refused : TRUE)
          ELSE IF public.pq = "malformed" THEN KE!Err("InvalidPublicKey")
          ELSE IF ~ephemeral.ok THEN ephemeral
          ELSE IF ~shared_t.ok THEN shared_t ELSE KE!Ok(value)
  <2> HIDE DEF refused, ephemeral, shared_t, ciphertext_pq, ciphertext_t
  <2>. QED
    BY DEF KE!hybrid_kem_encapsulate_deterministic, refused, ephemeral, shared_t,
           ciphertext_pq, ciphertext_t
<1>2. KE!MlKemSecret(public.pq, ciphertext_pq) = PqSecret(public.pq, randomness.ml)
  BY DEF PqSecret, KE!MlKemSecret, KE!MlKemCiphertext
<1>3. value = Sealed(construction, public, randomness.ml, ephemeral.value)
  BY <1>2, Zenon DEF Sealed, EphemeralKey, DhSecret
<1>4. \A e : ~KE!Err(e).ok
  BY DEF KE!Err
<1> HIDE DEF refused, ephemeral, shared_t, value, answer
<1>5. answer.ok
  BY DEF answer
<1>6. KE!LengthFits(construction, public) /\ randomness.fits /\ ephemeral.ok /\ answer = KE!Ok(value)
  BY <1>1, <1>4, <1>5, Zenon
<1>. QED
  BY <1>3, <1>6, Zenon DEF answer, ephemeral

(* What a receiver checks, and what it then gets.                          *)
Opens(k, ciphertext) ==
  LET private == KE!from_seed(k.construction, Expanded[k.seed])
  IN  /\ KE!LengthFits(k.construction, ciphertext) /\ private.ok
      /\ DhSecret(k.construction, private.value, ciphertext.t).ok
Opened(k, ciphertext) ==
  LET private == KE!from_seed(k.construction, Expanded[k.seed])
  IN  KE!combine(k.construction, KE!MlKemSecret(Expanded[k.seed].ml, ciphertext.pq),
                 DhSecret(k.construction, private.value, ciphertext.t).value, ciphertext.t,
                 EphemeralKey(k.construction, private.value))

LEMMA DecapsulationReturns ==
  ASSUME NEW k, NEW ciphertext
  PROVE  /\ KE!decapsulate(k, ciphertext).ok => Opens(k, ciphertext)
         /\ Opens(k, ciphertext) => KE!decapsulate(k, ciphertext) = KE!Ok(Opened(k, ciphertext))
<1> DEFINE private == KE!from_seed(k.construction, Expanded[k.seed])
           curve == KE!Traditional(k.construction)
           shared_t == KE!derive(curve, private.value, ciphertext.t)
           value == KE!combine(k.construction, KE!MlKemSecret(Expanded[k.seed].ml, ciphertext.pq),
                               shared_t.value, ciphertext.t, KE!public_key(curve, private.value))
           answer == KE!decapsulate(k, ciphertext)
<1>1. answer
        = IF ~KE!LengthFits(k.construction, ciphertext) THEN KE!Err("InvalidCiphertext")
          ELSE IF ~private.ok THEN private
          ELSE IF ~shared_t.ok THEN shared_t ELSE KE!Ok(value)
  <2> HIDE DEF private, shared_t, curve
  <2>. QED
    BY DEF KE!decapsulate, private, shared_t, curve
<1>2. Opens(k, ciphertext)
        <=> KE!LengthFits(k.construction, ciphertext) /\ private.ok /\ shared_t.ok
  BY Zenon DEF Opens, DhSecret
<1>3. Opened(k, ciphertext) = value
  BY Zenon DEF Opened, DhSecret, EphemeralKey
<1>4. \A e : ~KE!Err(e).ok
  BY DEF KE!Err
<1> HIDE DEF private, shared_t, value, answer
<1>5. answer.ok => Opens(k, ciphertext)
  BY <1>1, <1>2, <1>4, Zenon
<1>6. Opens(k, ciphertext) => answer = KE!Ok(Opened(k, ciphertext))
  BY <1>1, <1>2, <1>3, Zenon
<1>. QED
  BY <1>5, <1>6 DEF answer

Shaped(parts) ==
  parts = [set |-> parts.set, curve |-> parts.curve, pq |-> parts.pq, t |-> parts.t]

LEMMA PartsFit ==
  ASSUME NEW construction, NEW parts, Shaped(parts), KE!LengthFits(construction, parts)
  PROVE  parts = KE!Parts(construction, parts.pq, parts.t)
  BY DEF Shaped, KE!LengthFits, KE!Parts

LEMMA CurveOfConstruction ==
  ASSUME NEW construction \in KE!Constructions PROVE KE!Traditional(construction) \in Curves
  BY DEF KE!Constructions, KE!Traditional, Curves

(* The receiver's own public key, in parts.                                *)
LEMMA OwnPublicKey ==
  ASSUME NEW k, NEW public
  PROVE  LET private == KE!from_seed(k.construction, Expanded[k.seed])
         IN  KE!hybrid_public_key(k) = KE!Ok(public)
               <=> /\ private.ok
                   /\ public = KE!Parts(k.construction, Expanded[k.seed].ml,
                                        EphemeralKey(k.construction, private.value))
<1> DEFINE private == KE!from_seed(k.construction, Expanded[k.seed])
           own == KE!Parts(k.construction, Expanded[k.seed].ml,
                           EphemeralKey(k.construction, private.value))
<1>1. KE!hybrid_public_key(k) = IF ~private.ok THEN private ELSE KE!Ok(own)
  BY Zenon DEF KE!hybrid_public_key, EphemeralKey
<1>2. \A v, w : KE!Ok(v).ok /\ (KE!Ok(v) = KE!Ok(w) <=> v = w)
  BY DEF KE!Ok
<1> HIDE DEF private, own
<1>3. KE!hybrid_public_key(k) = KE!Ok(public) <=> private.ok /\ public = own
  BY <1>1, <1>2
<1>. QED
  BY <1>3 DEF private, own

(* The secret of a ciphertext from the public key it is for.               *)
LEMMA MlKemAgrees ==
  ASSUME NEW own, NEW public, NEW message, NEW c
  PROVE  KE!MlKemSecret(own, c) = PqSecret(public, message)
           <=> c.to = own /\ own = public /\ c.message = message
  BY DEF KE!MlKemSecret, PqSecret

(* A ciphertext that was changed in no part that is digested arrives as it *)
(* was sent.                                                               *)
LEMMA ReceivedUnchanged ==
  ASSUME NEW construction, NEW to, NEW message, NEW t,
         NEW c \in KE!Received(KE!Parts(construction, KE!MlKemCiphertext(to, message), t)),
         c.pq.message = message, c.t = t
  PROVE  c = KE!Parts(construction, KE!MlKemCiphertext(to, message), t)
<1> DEFINE whole == KE!Parts(construction, KE!MlKemCiphertext(to, message), t)
<1>1. whole = [set |-> KE!ml_kem(construction), curve |-> KE!Traditional(construction),
               pq |-> [to |-> to, message |-> message], t |-> t]
  BY DEF KE!Parts, KE!MlKemCiphertext
<1>2. \/ \E u : c = [whole EXCEPT !.t = u]
      \/ c = [whole EXCEPT !.pq.message = "altered"]
  BY DEF KE!Received
<1> HIDE DEF whole
<1>3. CASE c = [whole EXCEPT !.pq.message = "altered"]
  BY <1>1, <1>3 DEF whole
<1>4. CASE \E u : c = [whole EXCEPT !.t = u]
  <2>1. PICK u : c = [whole EXCEPT !.t = u]
    BY <1>4
  <2>2. c.t = u
    BY <1>1, <2>1
  <2>. QED
    BY <1>1, <2>1, <2>2 DEF whole
<1>. QED
  BY <1>2, <1>3, <1>4

HybridKeys == [construction : KE!Constructions, seed : HybridSeeds]

LEMMA OwnKeyOpens ==
  ASSUME KE!OrderIsPrime, NEW construction \in KE!Constructions,
         NEW e \in Below, NEW p \in Below, NEW pq
  PROVE  LET ciphertext == KE!Parts(construction, pq, EphemeralKey(construction, e))
         IN  /\ KE!LengthFits(construction, ciphertext)
             /\ DhSecret(construction, p, EphemeralKey(construction, e)).ok
             /\ DhSecret(construction, p, EphemeralKey(construction, e))
                  = DhSecret(construction, e, EphemeralKey(construction, p))
<1>1. KE!Traditional(construction) \in Curves
  BY CurveOfConstruction
<1>2. EphemeralKey(construction, e).form \notin {"compressed", "length"}
  BY DEF EphemeralKey, KE!public_key, KE!Encoding
<1>3. KE!LengthFits(construction, KE!Parts(construction, pq, EphemeralKey(construction, e)))
  BY <1>2 DEF KE!LengthFits, KE!Parts
<1>4. /\ DhSecret(construction, p, EphemeralKey(construction, e)).ok
      /\ DhSecret(construction, p, EphemeralKey(construction, e))
           = DhSecret(construction, e, EphemeralKey(construction, p))
  BY <1>1, EachOthersKey, Zenon DEF DhSecret, EphemeralKey
<1>. QED
  BY <1>3, <1>4, Zenon

(* Both sides hold one secret exactly if key, construction and ciphertext  *)
(* are those of the encapsulation.                                         *)
LEMMA HybridIsExact ==
  ASSUME KE!OrderIsPrime, KE!SeedsFit, NEW k \in HybridKeys,
         NEW construction \in KE!Constructions, NEW public, Shaped(public),
         NEW randomness \in Randomness, NEW answer,
         answer = KE!hybrid_kem_encapsulate_deterministic(construction, public, randomness),
         answer.ok, NEW c \in KE!Received(answer.value.ciphertext)
  PROVE  /\ KE!hybrid_public_key(k) = KE!Ok(public)
         /\ construction = k.construction /\ c = answer.value.ciphertext
         <=> KE!decapsulate(k, c) = KE!Ok(answer.value.secret)
<1> DEFINE m == randomness.ml
           ml == Expanded[k.seed].ml
           e == KE!from_seed(construction, randomness).value
           private == KE!from_seed(k.construction, Expanded[k.seed])
           p == private.value
           whole == KE!Parts(construction, KE!MlKemCiphertext(public.pq, m),
                             EphemeralKey(construction, e))
           secret == KE!combine(construction, PqSecret(public.pq, m),
                                DhSecret(construction, e, public.t).value,
                                EphemeralKey(construction, e), public.t)
<1>1. \A v, w : KE!Ok(v).ok /\ KE!Ok(v).value = v /\ (KE!Ok(v) = KE!Ok(w) <=> v = w)
  BY DEF KE!Ok
<1>2. /\ KE!LengthFits(construction, public) /\ randomness.fits
      /\ KE!from_seed(construction, randomness).ok
      /\ answer = KE!Ok(Sealed(construction, public, m, e))
  BY EncapsulationReturns, Zenon
<1>3. answer.value.ciphertext = whole /\ answer.value.secret = secret
  <2>1. answer.value = Sealed(construction, public, m, e)
    BY <1>1, <1>2, Zenon
  <2>. QED
    BY <2>1 DEF Sealed
<1>4. k.construction \in KE!Constructions /\ k.seed \in HybridSeeds
  BY DEF HybridKeys
<1>5. e \in Below
  <2>1. Usable(randomness)
    BY <1>2 DEF KE!SeedsFit, Usable, Below
  <2>. QED
    BY <1>2, <2>1, DrawnScalar, Zenon
<1>6. private.ok => p \in Below
  <2>1. Usable(Expanded[k.seed])
    BY <1>4 DEF KE!SeedsFit, Usable, Below
  <2>. QED
    BY <1>4, <2>1, DrawnScalar, Zenon
<1>7. KE!hybrid_public_key(k) = KE!Ok(public)
        <=> private.ok /\ public = KE!Parts(k.construction, ml, EphemeralKey(k.construction, p))
  BY OwnPublicKey, Zenon
<1>8. /\ KE!decapsulate(k, c).ok => Opens(k, c)
      /\ Opens(k, c) => KE!decapsulate(k, c) = KE!Ok(Opened(k, c))
  BY DecapsulationReturns, Zenon
<1>9. /\ Opens(k, c) <=> /\ KE!LengthFits(k.construction, c) /\ private.ok
                         /\ DhSecret(k.construction, p, c.t).ok
      /\ Opened(k, c) = KE!combine(k.construction, KE!MlKemSecret(ml, c.pq),
                                   DhSecret(k.construction, p, c.t).value, c.t,
                                   EphemeralKey(k.construction, p))
  BY Zenon DEF Opens, Opened
<1>10. public = KE!Parts(construction, public.pq, public.t)
  BY <1>2, PartsFit
<1>11. \A pq, t : KE!Parts(construction, pq, t).pq = pq /\ KE!Parts(construction, pq, t).t = t
  BY DEF KE!Parts
<1>12. /\ KE!MlKemCiphertext(public.pq, m).to = public.pq
       /\ KE!MlKemCiphertext(public.pq, m).message = m
  BY DEF KE!MlKemCiphertext
<1> HIDE DEF m, ml, e, p, private
<1>13. ASSUME private.ok, public = KE!Parts(k.construction, ml, EphemeralKey(k.construction, p)),
              construction = k.construction, c = whole
       PROVE  KE!decapsulate(k, c) = KE!Ok(secret)
  <2>1. public.pq = ml /\ public.t = EphemeralKey(construction, p)
    <3>1. public = KE!Parts(construction, ml, EphemeralKey(construction, p))
      BY <1>13
    <3>. QED
      BY <1>11, <3>1
  <2>2. c.pq = KE!MlKemCiphertext(public.pq, m) /\ c.t = EphemeralKey(construction, e)
    <3>1. c = KE!Parts(construction, KE!MlKemCiphertext(public.pq, m),
                       EphemeralKey(construction, e))
      BY <1>13
    <3>. QED
      BY <1>11, <3>1
  <2>3. p \in Below
    BY <1>6, <1>13
  <2>4. /\ KE!LengthFits(construction, whole)
        /\ DhSecret(construction, p, EphemeralKey(construction, e)).ok
        /\ DhSecret(construction, p, EphemeralKey(construction, e))
             = DhSecret(construction, e, EphemeralKey(construction, p))
    BY <1>5, <2>3, OwnKeyOpens, Zenon
  <2>5. Opens(k, c)
    BY <1>9, <1>13, <2>2, <2>4, Zenon
  <2>6. KE!MlKemSecret(ml, c.pq) = PqSecret(public.pq, m)
    <3> DEFINE q == c.pq
    <3>1. q.to = ml /\ ml = public.pq /\ q.message = m
      BY <1>12, <2>1, <2>2
    <3> HIDE DEF q
    <3>2. KE!MlKemSecret(ml, q) = PqSecret(public.pq, m)
      BY <3>1, MlKemAgrees
    <3>. QED
      BY <3>2 DEF q
  <2>7. Opened(k, c) = secret
    <3>1. DhSecret(k.construction, p, c.t) = DhSecret(construction, e, public.t)
      BY <1>13, <2>1, <2>2, <2>4
    <3>2. EphemeralKey(k.construction, p) = public.t
      BY <1>13, <2>1
    <3>. QED
      BY <1>9, <1>13, <2>2, <2>6, <3>1, <3>2
  <2>. QED
    BY <1>8, <2>5, <2>7, Zenon
<1>14. ASSUME KE!decapsulate(k, c) = KE!Ok(secret)
       PROVE  /\ private.ok /\ public = KE!Parts(k.construction, ml, EphemeralKey(k.construction, p))
              /\ construction = k.construction /\ c = whole
  <2>1. Opens(k, c) /\ Opened(k, c) = secret
    <3> HIDE DEF secret
    <3>. QED
      BY <1>1, <1>8, <1>14, Zenon
  <2>2. /\ k.construction = construction /\ KE!MlKemSecret(ml, c.pq) = PqSecret(public.pq, m)
        /\ c.t = EphemeralKey(construction, e) /\ EphemeralKey(k.construction, p) = public.t
    <3> DEFINE f == KE!MlKemSecret(ml, c.pq)
               g == PqSecret(public.pq, m)
               u == DhSecret(k.construction, p, c.t).value
               v == DhSecret(construction, e, public.t).value
               x == EphemeralKey(construction, e)
               y == EphemeralKey(k.construction, p)
    <3>1. KE!combine(k.construction, f, u, c.t, y) = KE!combine(construction, g, v, x, public.t)
      BY <1>9, <2>1, Zenon
    <3> HIDE DEF f, g, u, v, x, y
    <3>2. k.construction = construction /\ f = g /\ c.t = x /\ y = public.t
      BY <3>1 DEF KE!combine
    <3>. QED
      BY <3>2 DEF f, g, x, y
  <2>3. ml = public.pq /\ c.pq.message = m
    BY <2>2, MlKemAgrees
  <2>4. c = whole
    <3>1. c \in KE!Received(whole)
      BY <1>3
    <3>. QED
      BY <2>2, <2>3, <3>1, ReceivedUnchanged
  <2>. QED
    BY <1>9, <1>10, <2>1, <2>2, <2>3, <2>4, Zenon
<1>. QED
  BY <1>3, <1>7, <1>13, <1>14, Zenon

LEMMA PublicIsShaped ==
  ASSUME NEW k, KE!hybrid_public_key(k).ok
  PROVE  /\ Shaped(KE!hybrid_public_key(k).value)
         /\ \A t : Shaped([KE!hybrid_public_key(k).value EXCEPT !.t = t])
         /\ \A pq : Shaped([KE!hybrid_public_key(k).value EXCEPT !.pq = pq])
<1> DEFINE private == KE!from_seed(k.construction, Expanded[k.seed])
           own == KE!Parts(k.construction, Expanded[k.seed].ml,
                           KE!public_key(KE!Traditional(k.construction), private.value))
<1>1. KE!hybrid_public_key(k) = IF ~private.ok THEN private ELSE KE!Ok(own)
  BY Zenon DEF KE!hybrid_public_key
<1> HIDE DEF private
<1>2. own = [set |-> KE!ml_kem(k.construction), curve |-> KE!Traditional(k.construction),
             pq |-> Expanded[k.seed].ml,
             t |-> KE!public_key(KE!Traditional(k.construction), private.value)]
  BY DEF KE!Parts
<1> HIDE DEF own
<1>3. KE!hybrid_public_key(k).value = own
  BY <1>1 DEF KE!Ok
<1>. QED
  BY <1>2, <1>3 DEF Shaped

(* The public keys of a set of answers, and those of one key changed.      *)
Values(answers) == {o.value : o \in {p \in answers : p.ok}}
Changed(answer) ==
  IF answer.ok
  THEN {[answer.value EXCEPT !.t = t] : t \in KE!Encodings(answer.value.curve)}
         \cup {[answer.value EXCEPT !.pq = "malformed"]}
  ELSE {}
Answers == {KE!hybrid_public_key([construction |-> c, seed |-> s]) :
              c \in KE!Constructions, s \in HybridSeeds}

LEMMA OfferedIsShaped ==
  ASSUME NEW public \in KE!Offered PROVE Shaped(public)
<1> DEFINE own == KE!hybrid_public_key(holder.value)
<1>1. public \in Values(Answers) \cup Changed(own)
  BY DEF KE!Offered, Values, Changed, Answers
<1>2. CASE public \in Values(Answers)
  <2>1. PICK o \in Answers : o.ok /\ public = o.value
    BY <1>2 DEF Values
  <2>2. PICK c \in KE!Constructions, s \in HybridSeeds :
             o = KE!hybrid_public_key([construction |-> c, seed |-> s])
    BY <2>1 DEF Answers
  <2>. QED
    BY <2>1, <2>2, PublicIsShaped
<1>3. CASE public \in Changed(own)
  <2>1. /\ own.ok
        /\ \/ \E t : public = [own.value EXCEPT !.t = t]
           \/ public = [own.value EXCEPT !.pq = "malformed"]
    <3> HIDE DEF own
    <3>. QED
      BY <1>3 DEF Changed
  <2>. QED
    BY <2>1, PublicIsShaped
<1>. QED
  BY <1>1, <1>2, <1>3

-----------------------------------------------------------------------------
(* An encapsulation is kept with its answer, for a holder's key.           *)
HolderOK == holder # Nothing /\ holder.ok => holder.value \in HybridKeys
SentOK ==
  sent # Nothing =>
    /\ holder # Nothing /\ holder.ok
    /\ sent.result.ok =>
         /\ sent.construction \in KE!Constructions /\ Shaped(sent.public)
         /\ \E randomness \in Randomness :
              sent.result = KE!hybrid_kem_encapsulate_deterministic(sent.construction, sent.public,
                                                                    randomness)
AgreedOK == agreed # Nothing => sent # Nothing
ExchangeInv == HolderOK /\ SentOK /\ AgreedOK /\ KE!SecretsMatch

HybridMatches ==
  agreed # Nothing =>
    LET own == KE!hybrid_public_key(holder.value)
        same == /\ own = KE!Ok(sent.public)
                /\ sent.construction = holder.value.construction
                /\ agreed.ciphertext = sent.result.value.ciphertext
    IN  same <=> agreed.result = KE!Ok(sent.result.value.secret)
StaticMatches ==
  dh # Nothing =>
    /\ \A result \in {dh.first, dh.second} : result.ok => KE!was_contributory(result.value)
    /\ /\ dh.family = "Ec"
       /\ KE!Names(dh.of_a, dh.curve, dh.a) /\ KE!Names(dh.of_b, dh.curve, dh.b)
       => dh.first.ok /\ dh.first = dh.second

LEMMA SecretsMatchInParts == KE!SecretsMatch <=> HybridMatches /\ StaticMatches
  BY DEF KE!SecretsMatch, HybridMatches, StaticMatches

LEMMA ExchangeInvInit == KE!Init => ExchangeInv
  BY DEF KE!Init, ExchangeInv, HolderOK, SentOK, AgreedOK, KE!SecretsMatch

LEMMA GenerateKeepsExchangeInv ==
  ASSUME ExchangeInv, KE!Generate PROVE ExchangeInv'
<1>1. holder = Nothing /\ sent' = sent /\ agreed' = agreed /\ dh' = dh
  BY DEF KE!Generate
<1>2. sent = Nothing /\ agreed = Nothing
  BY <1>1 DEF ExchangeInv, SentOK, AgreedOK
<1>3. HolderOK'
  <2>1. CASE \E construction \in KE!Constructions, seed \in HybridSeeds :
               holder' = KE!Ok([construction |-> construction, seed |-> seed])
    BY <2>1 DEF HolderOK, HybridKeys, KE!Ok
  <2>2. CASE \E e : holder' = KE!Err(e)
    BY <2>2 DEF HolderOK, KE!Err
  <2>. QED
    BY <2>1, <2>2 DEF KE!Generate
<1>. QED
  BY <1>1, <1>2, <1>3 DEF ExchangeInv, SentOK, AgreedOK, KE!SecretsMatch

LEMMA EncapsulateKeepsExchangeInv ==
  ASSUME ExchangeInv, KE!Encapsulate PROVE ExchangeInv'
<1>1. /\ holder # Nothing /\ holder.ok /\ sent = Nothing
      /\ holder' = holder /\ agreed' = agreed /\ dh' = dh
  BY DEF KE!Encapsulate
<1>2. agreed = Nothing
  BY <1>1 DEF ExchangeInv, AgreedOK
<1>3. PICK construction \in KE!Constructions, public \in KE!Offered :
        \/ \E randomness \in Randomness :
             sent' = [construction |-> construction, public |-> public,
                      result |-> KE!hybrid_kem_encapsulate_deterministic(construction, public,
                                                                         randomness)]
        \/ sent' = [construction |-> construction, public |-> public,
                    result |-> KE!Err("RandomnessUnavailable")]
  BY DEF KE!Encapsulate
<1>4. sent'.construction = construction /\ sent'.public = public
  BY <1>3
<1>5. sent'.result.ok =>
        \E randomness \in Randomness :
          sent'.result = KE!hybrid_kem_encapsulate_deterministic(construction, public, randomness)
  BY <1>3 DEF KE!Err
<1>6. SentOK'
  BY <1>1, <1>4, <1>5, OfferedIsShaped DEF SentOK, Shaped
<1>. QED
  BY <1>1, <1>2, <1>6 DEF ExchangeInv, HolderOK, AgreedOK, KE!SecretsMatch

LEMMA DecapsulateKeepsExchangeInv ==
  ASSUME KE!OrderIsPrime, KE!SeedsFit, ExchangeInv, KE!Decapsulate PROVE ExchangeInv'
<1>1. /\ sent # Nothing /\ sent.result.ok
      /\ holder' = holder /\ sent' = sent /\ dh' = dh
  BY DEF KE!Decapsulate
<1>2. PICK ciphertext \in KE!Received(sent.result.value.ciphertext) :
        agreed' = [ciphertext |-> ciphertext, result |-> KE!decapsulate(holder.value, ciphertext)]
  BY DEF KE!Decapsulate
<1> DEFINE k == holder.value
           answer == sent.result
           public == sent.public
<1>3. /\ k \in HybridKeys /\ sent.construction \in KE!Constructions /\ Shaped(public)
      /\ \E randomness \in Randomness :
           answer = KE!hybrid_kem_encapsulate_deterministic(sent.construction, public, randomness)
  BY <1>1 DEF ExchangeInv, HolderOK, SentOK
<1>4. PICK randomness \in Randomness :
        answer = KE!hybrid_kem_encapsulate_deterministic(sent.construction, public, randomness)
  BY <1>3
<1>5. answer.ok /\ ciphertext \in KE!Received(answer.value.ciphertext)
  BY <1>1
<1> HIDE DEF k, answer, public
<1>6. /\ KE!hybrid_public_key(k) = KE!Ok(public)
      /\ sent.construction = k.construction /\ ciphertext = answer.value.ciphertext
      <=> KE!decapsulate(k, ciphertext) = KE!Ok(answer.value.secret)
  BY <1>3, <1>4, <1>5, HybridIsExact
<1>7. agreed'.ciphertext = ciphertext /\ agreed'.result = KE!decapsulate(holder.value, ciphertext)
  BY <1>2
<1>8. HybridMatches'
  <2>1. k = holder' .value /\ answer = sent' .result /\ public = sent' .public
    BY <1>1 DEF k, answer, public
  <2>2. agreed'.result = KE!decapsulate(k, ciphertext) /\ sent'.construction = sent.construction
    BY <1>1, <1>7 DEF k
  <2>. QED
    BY <1>6, <1>7, <2>1, <2>2 DEF HybridMatches, KE!hybrid_public_key
<1>9. StaticMatches'
  <2>1. StaticMatches
    BY SecretsMatchInParts DEF ExchangeInv
  <2>. QED
    BY <1>1, <2>1 DEF StaticMatches
<1>10. KE!SecretsMatch'
  BY <1>8, <1>9 DEF KE!SecretsMatch, HybridMatches, StaticMatches
<1>. QED
  BY <1>1, <1>10 DEF ExchangeInv, HolderOK, SentOK, AgreedOK

LEMMA AgreeKeepsExchangeInv ==
  ASSUME KE!OrderIsPrime, ExchangeInv, KE!Agree PROVE ExchangeInv'
<1>1. holder' = holder /\ sent' = sent /\ agreed' = agreed
  BY DEF KE!Agree
<1>2. PICK curve \in StaticCurves, a \in Below, b \in Below :
        \E of_a, of_b \in KE!Encodings(curve), family \in {"Ec", "Edwards", "Rsa", "MlDsa"} :
          /\ curve # "weierstrass" => family = "Ec"
          /\ dh' = [curve |-> curve, family |-> family, a |-> a, b |-> b, of_a |-> of_a,
                    of_b |-> of_b, first |-> First(curve, family, a, of_b),
                    second |-> Second(curve, b, of_a)]
  BY Zenon DEF KE!Agree, StaticCurves, Below, First, Second
<1>3. PICK of_a \in KE!Encodings(curve), of_b \in KE!Encodings(curve),
           family \in {"Ec", "Edwards", "Rsa", "MlDsa"} :
          /\ curve # "weierstrass" => family = "Ec"
          /\ dh' = [curve |-> curve, family |-> family, a |-> a, b |-> b, of_a |-> of_a,
                    of_b |-> of_b, first |-> First(curve, family, a, of_b),
                    second |-> Second(curve, b, of_a)]
  BY <1>2
<1>4. StaticIsSound(curve, family, a, b, of_a, of_b)
  BY <1>3, StaticAgreement, Zenon
<1>5. /\ dh'.curve = curve /\ dh'.family = family /\ dh'.a = a /\ dh'.b = b /\ dh'.of_a = of_a
      /\ dh'.of_b = of_b /\ dh'.first = First(curve, family, a, of_b)
      /\ dh'.second = Second(curve, b, of_a)
  BY <1>3
<1>6. StaticMatches'
  BY <1>4, <1>5 DEF StaticMatches, StaticIsSound
<1>7. HybridMatches'
  <2>1. HybridMatches
    BY SecretsMatchInParts DEF ExchangeInv
  <2>. QED
    BY <1>1, <2>1 DEF HybridMatches
<1>8. KE!SecretsMatch'
  BY <1>6, <1>7 DEF KE!SecretsMatch, HybridMatches, StaticMatches
<1>. QED
  BY <1>1, <1>8 DEF ExchangeInv, HolderOK, SentOK, AgreedOK

LEMMA ExchangeInvNext ==
  ASSUME KE!OrderIsPrime, KE!SeedsFit, ExchangeInv, [KE!Next]_KE!vars
  PROVE  ExchangeInv'
<1>1. CASE UNCHANGED KE!vars
  BY <1>1 DEF KE!vars, ExchangeInv, HolderOK, SentOK, AgreedOK, KE!SecretsMatch
<1>. QED
  BY <1>1, GenerateKeepsExchangeInv, EncapsulateKeepsExchangeInv, DecapsulateKeepsExchangeInv,
     AgreeKeepsExchangeInv DEF KE!Next

(* For any prime order, seeds and randomness, the two sides of a hybrid    *)
(* encapsulation hold one secret exactly if each used the other's key and  *)
(* message, and a static agreement gives both parties one secret, which    *)
(* depends on their private keys.                                          *)
THEOREM ExchangesMatch ==
  ASSUME KE!OrderIsPrime, KE!SeedsFit
  PROVE  ExchangesSpec => []SecretsMatch
<1> DEFINE PartInv == part = "exchange" => ExchangeInv
<1>1. ExchangesInit => PartInv
  BY ExchangeInvInit DEF ExchangesInit
<1>2. PartInv /\ [ExchangesNext]_exchanges => PartInv'
  <2> SUFFICES ASSUME PartInv, [ExchangesNext]_exchanges, part' = "exchange"
               PROVE  ExchangeInv'
    OBVIOUS
  <2>1. part = "exchange" /\ [KE!Next]_KE!vars
    BY DEF ExchangesNext, ExchangeStep, ArkgStep, SigningStep, exchanges, exchange, arkg,
           signing, KE!vars
  <2>. QED
    BY <2>1, ExchangeInvNext
<1>3. PartInv => SecretsMatch
  BY DEF ExchangeInv, SecretsMatch
<1>. QED
  BY <1>1, <1>2, <1>3, PTL DEF ExchangesSpec
=============================================================================
