--------------------------- MODULE PostQuantumKeys ---------------------------
(* ML-KEM and ML-DSA private keys (post_quantum.rs, pqc_key_encoding.rs):   *)
(* generation, the raw and PKCS#8 forms with a seed, an expanded key or     *)
(* both, the checks of expanded keys, encapsulation and decapsulation.      *)
(* What an expanded key contains is a token of the set and seed it comes    *)
(* from; a byte string is its length and those tokens.                      *)
EXTENDS Integers

CONSTANTS KemSets, DsaSets, Seeds,
          ExpandedLength, PublicLength, CiphertextLength,  \* by parameter set
          KemSeedLength, DsaSeedLength,
          Messages,                  \* random messages of an encapsulation
          None

VARIABLES key, material, capsule, shared, error
vars == <<key, material, capsule, shared, error>>

Sets == KemSets \cup DsaSets
SeedLength(set) == IF set \in KemSets THEN KemSeedLength ELSE DsaSeedLength

ASSUME SetsAssumption == KemSets \cap DsaSets = {}
(* A raw key is told by its length.                                         *)
ASSUME LengthsAssumption ==
  \A set \in Sets : /\ SeedLength(set) \in Nat \ {0} /\ ExpandedLength[set] \in Nat \ {0}
                    /\ SeedLength(set) # ExpandedLength[set]
(* What a ciphertext for another key decrypts to is no message.             *)
ASSUME MessagesAssumption == "noise" \notin Messages

Ok(x) == [error |-> "none", value |-> x]
Err(e) == [error |-> e, value |-> None]

-----------------------------------------------------------------------------
(* Key generation of FIPS 203 and FIPS 204: the secret vectors, the public  *)
(* part (ek, rho), the value only the owner uses (z, K), the hash of the    *)
(* public key (h, tr) and the low bits t0 of ML-DSA.                        *)
Token(set, seed) == <<set, seed>>
PublicOf(set, e) == IF set \in KemSets THEN e.public ELSE <<e.public, e.secret>>
Expand(set, seed) ==
  LET t == Token(set, seed)
      public == IF set \in KemSets THEN t ELSE <<t, t>>
  IN  [formed |-> TRUE, secret |-> t, public |-> t, own |-> t, hash |-> public,
       low |-> IF set \in KemSets THEN None ELSE public]

Key(set, seed, e) == [set |-> set, seed |-> seed, expanded |-> e]
public_key(k) == PublicOf(k.set, k.expanded)

(* Encapsulation, and decapsulation with implicit rejection: a ciphertext   *)
(* that does not come out again gives a secret of its own, and no error.    *)
Encapsulated(public, m) ==
  [ciphertext |-> [to |-> public, m |-> m, hash |-> public], shared |-> <<"shared", m, public>>]
Decapsulated(e, c) ==
  LET m == IF c.to = e.secret THEN c.m ELSE "noise"
      again == [to |-> e.public, m |-> m, hash |-> e.hash]
  IN  IF again = c THEN <<"shared", m, e.hash>> ELSE <<"rejected", e.own, c>>

-----------------------------------------------------------------------------
(* Byte strings: what was meant to be in them, and their length.            *)
Bytes(seed, e, length) == [seed |-> seed, expanded |-> e, length |-> length]

Tokens == Sets \X (Seeds \cup {None})
ExpandedForms ==
  [formed : BOOLEAN, secret : Tokens, public : Tokens, own : Tokens,
   hash : Tokens \cup (Tokens \X Tokens), low : {None} \cup (Tokens \X Tokens)]
ByteStrings ==
  [seed : Seeds \cup {None}, expanded : ExpandedForms \cup {None}, length : Nat]
ASSUME NoneAssumption == None \notin Seeds /\ None \notin Messages /\ None \notin ByteStrings

from_seed_slice(set, bytes) ==
  IF bytes.length # SeedLength(set) THEN Err("InvalidSeedLength")
  ELSE Ok(Key(set, bytes.seed, Expand(set, bytes.seed)))

(* Mutant: an expanded ML-KEM key passes if its decapsulation is no error.  *)
PairwiseDecapsulates(e, m) == TRUE

(* The pairwise test of ML-KEM.                                             *)
PairwiseConsistent(e, m) ==
  Decapsulated(e, Encapsulated(e.public, m).ciphertext) = Encapsulated(e.public, m).shared

from_expanded_kem(set, e, random) ==
  IF ~e.formed \/ e.hash # e.public THEN Err("InvalidExpandedPrivateKey")
  ELSE IF random = None THEN Err("RandomnessUnavailable")
  ELSE IF PairwiseConsistent(e, random) THEN Ok(Key(set, None, e))
  ELSE Err("InvalidExpandedPrivateKey")

(* A signature of ML-DSA comes from rho and the secrets, its hints from t0, *)
(* the message representative from tr; verification has the public key.     *)
DsaSigned(e) == [by |-> <<e.public, e.secret>>, low |-> e.low, hash |-> e.hash]
DsaVerifies(public, s) == s.by = public /\ s.low = public /\ s.hash = public

(* validate of ml_dsa_validation (MlDsaValidation), then tr, then a         *)
(* signature of a fixed message is verified.                                *)
from_expanded_dsa(set, e) ==
  IF /\ e.formed /\ e.low = PublicOf(set, e) /\ e.hash = PublicOf(set, e)
     /\ DsaVerifies(PublicOf(set, e), DsaSigned(e))
  THEN Ok(Key(set, None, e)) ELSE Err("InvalidExpandedPrivateKey")

from_expanded_private_key(set, bytes, random) ==
  IF bytes.length # ExpandedLength[set] THEN Err("InvalidExpandedPrivateKey")
  ELSE IF set \in KemSets THEN from_expanded_kem(set, bytes.expanded, random)
  ELSE from_expanded_dsa(set, bytes.expanded)

from_seed_and_expanded(set, seed, e) ==
  LET k == from_seed_slice(set, seed)
  IN  IF k.error # "none" THEN k
      ELSE IF e.length = ExpandedLength[set] /\ k.value.expanded = e.expanded THEN k
      ELSE Err("InvalidExpandedPrivateKey")

from_components(set, seed, e, random) ==
  CASE seed # None /\ e # None -> from_seed_and_expanded(set, seed, e)
    [] seed # None /\ e = None -> from_seed_slice(set, seed)
    [] seed = None /\ e # None -> from_expanded_private_key(set, e, random)
    [] OTHER -> Err("InvalidPrivateKey")

from_serialized(set, bytes, random) ==
  LET half(length) == Bytes(bytes.seed, bytes.expanded, length)
  IN  CASE bytes.length = SeedLength(set) -> from_components(set, bytes, None, random)
        [] bytes.length = SeedLength(set) + ExpandedLength[set] ->
             from_components(set, half(SeedLength(set)), half(ExpandedLength[set]), random)
        [] OTHER -> from_components(set, None, bytes, random)

(* decode of pqc_key_encoding: the algorithm without parameters, one of the *)
(* three choices and nothing behind it.                                     *)
Decodes(set, document) ==
  /\ document.algorithm = set /\ ~document.parameters /\ ~document.trailing
  /\ document.choice \in {"seed", "expanded", "both"}

from_pkcs8_der(set, document, random) ==
  LET seed == Bytes(document.seed, None, document.seed_length)
      e == Bytes(None, document.expanded, document.length)
      k == from_components(set, IF document.choice = "expanded" THEN None ELSE seed,
                           IF document.choice = "seed" THEN None ELSE e, random)
  IN  IF ~Decodes(set, document) THEN Err("InvalidPrivateKey")
      ELSE IF k.error = "none" /\ document.public \notin {None, public_key(k.value)}
      THEN Err("InvalidPrivateKey") ELSE k

(* The exports: the seed where it is known.                                 *)
expanded_private_key(k) == Bytes(None, k.expanded, ExpandedLength[k.set])
serialized(k) ==
  IF k.seed = None THEN expanded_private_key(k) ELSE Bytes(k.seed, None, SeedLength(k.set))
Document(set, choice, seed, e, public) ==
  [algorithm |-> set, parameters |-> FALSE, trailing |-> FALSE, choice |-> choice,
   seed |-> seed, seed_length |-> SeedLength(set),
   expanded |-> e, length |-> ExpandedLength[set], public |-> public]
to_pkcs8_der(k) ==
  Document(k.set, IF k.seed = None THEN "expanded" ELSE "seed", k.seed, k.expanded, None)

-----------------------------------------------------------------------------
(* What a caller presents: exports of its key, expanded keys put together   *)
(* from the parts of two keys, and documents with one defect.               *)
Parts(set) ==
  LET t == {Token(set, s) : s \in Seeds}
      public == IF set \in KemSets THEN t ELSE t \X t
  IN  [formed : BOOLEAN, secret : t, public : t, own : t, hash : public,
       low : IF set \in KemSets THEN {None} ELSE public]
RawForms(set) ==
  {Bytes(s, None, SeedLength(set) + d) : s \in Seeds, d \in {0, 1}}
  \cup {Bytes(None, e, ExpandedLength[set] + d) : e \in Parts(set), d \in {0, 1}}
  \cup {Bytes(s, e, SeedLength(set) + ExpandedLength[set]) :
          s \in Seeds, e \in {Expand(set, x) : x \in Seeds}}
Documents(set) ==
  LET plain == {Document(set, c, s, Expand(set, x), p) :
                  c \in {"seed", "expanded", "both", "other"}, s \in Seeds, x \in Seeds,
                  p \in {None} \cup {PublicOf(set, Expand(set, y)) : y \in Seeds}}
  IN  plain \cup {[d EXCEPT !.parameters = TRUE] : d \in plain}
      \cup {[d EXCEPT !.trailing = TRUE] : d \in plain}
      \cup {[d EXCEPT !.seed_length = 1] : d \in plain}
      \cup {[d EXCEPT !.length = 1] : d \in plain}

Init == key = None /\ material = None /\ capsule = None /\ shared = None /\ error = "none"

(* getrandom may fail.                                                      *)
Generate ==
  /\ key = None /\ material = None
  /\ \E set \in Sets :
       \/ key' = None /\ error' = "RandomnessUnavailable"
       \/ /\ \E s \in Seeds : key' = Key(set, s, Expand(set, s))
          /\ error' = "none"
  /\ UNCHANGED <<material, capsule, shared>>

Export ==
  /\ key # None /\ material = None /\ capsule = None
  /\ \/ \E bytes \in {serialized(key), expanded_private_key(key)} :
          material' = [form |-> "raw", set |-> key.set, data |-> bytes]
     \/ material' = [form |-> "pkcs8", set |-> key.set, data |-> to_pkcs8_der(key)]
  /\ UNCHANGED <<key, capsule, shared, error>>

Receive ==
  /\ key = None /\ material = None
  /\ \E set \in Sets :
       \/ \E bytes \in RawForms(set) : material' = [form |-> "raw", set |-> set, data |-> bytes]
       \/ \E document \in Documents(set) :
            material' = [form |-> "pkcs8", set |-> set, data |-> document]
  /\ UNCHANGED <<key, capsule, shared, error>>

Import ==
  /\ material # None
  /\ \E set \in IF key = None THEN Sets ELSE {key.set}, random \in Messages \cup {None} :
       LET result == IF material.form = "raw" THEN from_serialized(set, material.data, random)
                     ELSE from_pkcs8_der(set, material.data, random)
       IN  key' = result.value /\ error' = result.error
  /\ material' = None
  /\ UNCHANGED <<capsule, shared>>

(* ml_kem_encapsulate to a public key, which may be damaged.                *)
Encapsulate ==
  /\ key # None /\ key.set \in KemSets /\ capsule = None /\ material = None
  /\ \E m \in Messages \cup {None}, length \in {PublicLength[key.set], 0}, formed \in BOOLEAN :
       IF m = None
       THEN error' = "RandomnessUnavailable" /\ UNCHANGED <<capsule, shared>>
       ELSE IF length # PublicLength[key.set] \/ ~formed
       THEN error' = "InvalidPublicKey" /\ UNCHANGED <<capsule, shared>>
       ELSE LET made == Encapsulated(public_key(key), m)
            IN  /\ capsule' = [sent |-> made.ciphertext, received |-> None]
                /\ shared' = <<made.shared, None>> /\ error' = "none"
  /\ UNCHANGED <<key, material>>

(* The ciphertext arrives as sent, altered, or with another length.         *)
Decapsulate ==
  /\ key # None /\ capsule # None /\ shared[2] = None
  /\ \E c \in {capsule.sent} \cup {[capsule.sent EXCEPT !.m = m] : m \in Messages},
        length \in {CiphertextLength[key.set], 0} :
       IF length # CiphertextLength[key.set]
       THEN error' = "InvalidCiphertext" /\ UNCHANGED <<capsule, shared>>
       ELSE /\ capsule' = [capsule EXCEPT !.received = c]
            /\ shared' = [shared EXCEPT ![2] = Decapsulated(key.expanded, c)]
            /\ error' = "none"
  /\ UNCHANGED <<key, material>>

Next == Generate \/ Export \/ Receive \/ Import \/ Encapsulate \/ Decapsulate
Spec == Init /\ [][Next]_vars

-----------------------------------------------------------------------------
(* KeysAreWhole: however a key came in, its parts belong together: the      *)
(* public key it reports is that of its secret, a seed it keeps is the one  *)
(* its expanded form comes from, importing any of its exports gives the     *)
(* same key back, with the seed unless only the expanded form was taken,    *)
(* and both ends of an encapsulation have the same secret exactly if the    *)
(* ciphertext arrived as it was sent.                                       *)
Whole(k) ==
  LET e == k.expanded
  IN  /\ e.formed /\ e.hash = PublicOf(k.set, e)
      /\ k.set \in KemSets => e.secret = e.public
      /\ k.set \in DsaSets => e.low = <<e.public, e.secret>>
      /\ k.seed # None => e = Expand(k.set, k.seed)
Survives(k) ==
  \A random \in Messages :
    /\ from_serialized(k.set, serialized(k), random) = Ok(k)
    /\ from_pkcs8_der(k.set, to_pkcs8_der(k), random) = Ok(k)
    /\ from_serialized(k.set, expanded_private_key(k), random) = Ok([k EXCEPT !.seed = None])
KeysAreWhole ==
  /\ key # None => Whole(key) /\ Survives(key)
  /\ shared # None /\ shared[2] # None =>
       (shared[1] = shared[2] <=> capsule.received = capsule.sent)
=============================================================================
