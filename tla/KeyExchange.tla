----------------------------- MODULE KeyExchange -----------------------------
(* Key agreement (software_key_agreement.rs) and the hybrid KEMs            *)
(* (hybrid_kem.rs).  A point is its multiple of the generator, modulo the   *)
(* prime Order; a shared secret is an x-coordinate, which a point and its   *)
(* negative share.  ML-KEM, SHAKE256 and SHA-3 are symbolic.                *)
EXTENDS Integers, Sequences

CONSTANTS Order,
          Seeds, Expanded,   \* Expanded[seed]: what SHAKE256 reads from the seed
          Randomness,        \* what an encapsulation draws, in the same form
          None

VARIABLES holder,    \* the private key of the receiver
          sent,      \* what the encapsulator was given and got
          agreed,    \* what the receiver got for a ciphertext
          dh         \* one static agreement

vars == <<holder, sent, agreed, dh>>

Ok(value) == [ok |-> TRUE, value |-> value]
Err(error) == [ok |-> FALSE, error |-> error]
Abscissa(k) == LET r == k % Order IN IF 2 * r < Order THEN r ELSE Order - r

-----------------------------------------------------------------------------
(* Encodings of public keys.  Weierstrass: two forms of a point, one off    *)
(* the curve.  Montgomery: the encoding of a u-coordinate, another one of   *)
(* the same, one with a low-order part added, one on the twist, and the     *)
(* points of low order, the all-zero encoding among them.                   *)
Weierstrass == {"weierstrass", "P256", "P384"}
Encoding(form, at) == [form |-> form, at |-> at]
Encodings(curve) ==
  IF curve \in Weierstrass
  THEN [form : {"uncompressed", "compressed"}, at : 1 .. Order - 1]
         \cup {Encoding("off", 0), Encoding("length", 0)}
  ELSE [form : {"canonical", "alias", "torsion", "twist"}, at : 1 .. Order \div 2]
         \cup {Encoding("zero", 0), Encoding("low", 0), Encoding("length", 0)}

public_key(curve, private) ==
  IF curve \in Weierstrass THEN Encoding("uncompressed", private)
  ELSE Encoding("canonical", Abscissa(private))

Shared(private, peer) == <<Abscissa(private * peer.at), peer.form = "twist">>
was_contributory(shared) == shared[1] # 0

derive_x25519(private, peer) ==
  CASE peer.form = "length" -> Err("InvalidPublicKey")
    [] peer.form # "length" /\ ~was_contributory(Shared(private, peer)) ->
         Err("NonContributoryPublicKey")
    [] OTHER -> Ok(Shared(private, peer))

derive_x448(private, peer) ==
  IF peer.form \in {"length", "zero", "low"} THEN Err("InvalidPublicKey")
  ELSE Ok(Shared(private, peer))

derive_weierstrass(private, peer) ==
  IF peer.form \in {"uncompressed", "compressed"} THEN Ok(Shared(private, peer))
  ELSE Err("InvalidPublicKey")

MontgomeryDerive(curve, private, peer) ==
  IF curve = "X25519" THEN derive_x25519(private, peer) ELSE derive_x448(private, peer)

derive_with_signing_key(family, private, peer) ==
  IF family = "Ec" THEN derive_weierstrass(private, peer) ELSE Err("AlgorithmMismatch")

-----------------------------------------------------------------------------
(* The hybrid constructions.                                                *)
Constructions == {"MlKem768P256", "MlKem768X25519", "MlKem1024P384"}
ml_kem(construction) == IF construction = "MlKem1024P384" THEN 1024 ELSE 768
Traditional(construction) ==
  CASE construction = "MlKem768P256" -> "P256"
    [] construction = "MlKem768X25519" -> "X25519"
    [] construction = "MlKem1024P384" -> "P384"

(* A length of a construction is that of its two parts.                     *)
LengthFits(construction, parts) ==
  /\ parts.set = ml_kem(construction) /\ parts.curve = Traditional(construction)
  /\ parts.t.form \notin {"compressed", "length"}

(* TraditionalPrivate::from_seed: P-256 has four candidates, P-384 one, and *)
(* X25519 takes any octets.                                                 *)
Valid(scalar) == scalar \in 1 .. Order - 1
from_seed(construction, octets) ==
  LET usable == {i \in DOMAIN octets.P256 : Valid(octets.P256[i])}
  IN  CASE construction = "MlKem768X25519" -> Ok(octets.X25519)
        [] construction = "MlKem1024P384" ->
             IF Valid(octets.P384) THEN Ok(octets.P384) ELSE Err("InvalidPrivateKey")
        [] construction = "MlKem768P256" ->
             IF usable = {} THEN Err("InvalidPrivateKey")
             ELSE Ok(octets.P256[CHOOSE i \in usable : \A j \in usable : i <= j])

derive(curve, private, peer) ==
  IF curve \in Weierstrass THEN derive_weierstrass(private, peer)
  ELSE derive_x25519(private, peer)

validate_traditional_public(construction, public) ==
  IF Traditional(construction) = "X25519"
  THEN IF public.form = "zero" THEN {"NonContributoryPublicKey"} ELSE {}
  ELSE IF public.form = "off" THEN {"InvalidPublicKey"} ELSE {}

(* ML-KEM: the secret of a ciphertext that was not made for this key is a   *)
(* function of the private key and the ciphertext.                          *)
MlKemCiphertext(public, message) == [to |-> public, message |-> message]
MlKemSecret(public, ciphertext) ==
  IF ciphertext.to = public THEN <<"shared", public, ciphertext.message>>
  ELSE <<"rejected", public, ciphertext>>

(* Mutant: the traditional ciphertext is left out of the digest.            *)
combineSecrets(construction, shared_pq, shared_t, ciphertext_t, public_t) ==
  <<shared_pq, shared_t, public_t, construction>>

combine(construction, shared_pq, shared_t, ciphertext_t, public_t) ==
  <<shared_pq, shared_t, ciphertext_t, public_t, construction>>

Parts(construction, pq, t) ==
  [set |-> ml_kem(construction), curve |-> Traditional(construction), pq |-> pq, t |-> t]

hybrid_public_key(key) ==
  LET private == from_seed(key.construction, Expanded[key.seed])
  IN  IF ~private.ok THEN private
      ELSE Ok(Parts(key.construction, Expanded[key.seed].ml,
                    public_key(Traditional(key.construction), private.value)))

hybrid_kem_encapsulate_deterministic(construction, public, randomness) ==
  LET curve == Traditional(construction)
      refused == validate_traditional_public(construction, public.t)
      ephemeral == from_seed(construction, randomness)
      ciphertext_t == public_key(curve, ephemeral.value)
      shared_t == derive(curve, ephemeral.value, public.t)
      ciphertext_pq == MlKemCiphertext(public.pq, randomness.ml)
  IN  CASE ~LengthFits(construction, public) -> Err("InvalidPublicKey")
        [] LengthFits(construction, public) /\ ~randomness.fits -> Err("InvalidRandomnessLength")
        [] OTHER ->
             CASE refused # {} -> Err(CHOOSE error \in refused : TRUE)
               [] refused = {} /\ public.pq = "malformed" -> Err("InvalidPublicKey")
               [] refused = {} /\ public.pq # "malformed" /\ ~ephemeral.ok -> ephemeral
               [] OTHER ->
                    IF ~shared_t.ok THEN shared_t
                    ELSE Ok([ciphertext |-> Parts(construction, ciphertext_pq, ciphertext_t),
                             secret |-> combine(construction,
                                                MlKemSecret(public.pq, ciphertext_pq),
                                                shared_t.value, ciphertext_t, public.t)])

decapsulate(key, ciphertext) ==
  LET private == from_seed(key.construction, Expanded[key.seed])
      curve == Traditional(key.construction)
      shared_t == derive(curve, private.value, ciphertext.t)
  IN  CASE ~LengthFits(key.construction, ciphertext) -> Err("InvalidCiphertext")
        [] LengthFits(key.construction, ciphertext) /\ ~private.ok -> private
        [] OTHER ->
             IF ~shared_t.ok THEN shared_t
             ELSE Ok(combine(key.construction,
                             MlKemSecret(Expanded[key.seed].ml, ciphertext.pq),
                             shared_t.value, ciphertext.t,
                             public_key(curve, private.value)))

-----------------------------------------------------------------------------
(* The assumptions of the property: the order is prime, a seed holds four   *)
(* candidates of P-256, and a clamped scalar is no multiple of the order.   *)
OrderIsPrime ==
  Order \in Nat \ {0, 1} /\ \A x, y \in 1 .. Order - 1 : (x * y) % Order # 0
SeedsFit ==
  \A octets \in {Expanded[seed] : seed \in Seeds} \cup {r \in Randomness : r.fits} :
    DOMAIN octets.P256 = 1 .. 4 /\ octets.X25519 \in 1 .. Order - 1

Init == holder = None /\ sent = None /\ agreed = None /\ dh = None

(* generate and from_seed_slice; randomness may be unavailable and a slice  *)
(* may have the wrong length, and then there is no key.                     *)
Generate ==
  /\ holder = None /\ dh = None
  /\ \/ \E construction \in Constructions, seed \in Seeds :
          holder' = Ok([construction |-> construction, seed |-> seed])
     \/ \E error \in {"RandomnessUnavailable", "InvalidSeedLength"} : holder' = Err(error)
  /\ UNCHANGED <<sent, agreed, dh>>

(* The encapsulator has the holder's public key, another key's, or one      *)
(* changed in one of its parts.                                             *)
Offered ==
  LET own == hybrid_public_key(holder.value)
      others == {hybrid_public_key([construction |-> c, seed |-> s]) :
                   c \in Constructions, s \in Seeds}
  IN  {o.value : o \in {p \in others : p.ok}}
        \cup (IF own.ok
              THEN {[own.value EXCEPT !.t = t] : t \in Encodings(own.value.curve)}
                     \cup {[own.value EXCEPT !.pq = "malformed"]}
              ELSE {})

Encapsulate ==
  /\ holder # None /\ sent = None
  /\ holder.ok
  /\ \E construction \in Constructions, public \in Offered :
       \/ \E randomness \in Randomness :
            sent' = [construction |-> construction, public |-> public,
                     result |-> hybrid_kem_encapsulate_deterministic(construction, public, randomness)]
       \/ sent' = [construction |-> construction, public |-> public,
                   result |-> Err("RandomnessUnavailable")]
  /\ UNCHANGED <<holder, agreed, dh>>

(* The ciphertext arrives as it was sent or changed in one of its parts.    *)
Received(ciphertext) ==
  {[ciphertext EXCEPT !.t = t] : t \in Encodings(ciphertext.curve)}
    \cup {[ciphertext EXCEPT !.pq.message = "altered"]}

Decapsulate ==
  /\ sent # None /\ agreed = None
  /\ sent.result.ok
  /\ \E ciphertext \in Received(sent.result.value.ciphertext) :
       agreed' = [ciphertext |-> ciphertext, result |-> decapsulate(holder.value, ciphertext)]
  /\ UNCHANGED <<holder, sent, dh>>

(* Two parties, each with an encoding it took for the other's public key.   *)
Agree ==
  /\ holder = None /\ dh = None
  /\ \E curve \in {"weierstrass", "X25519", "X448"}, a, b \in 1 .. Order - 1 :
       \E of_a, of_b \in Encodings(curve), family \in {"Ec", "Edwards", "Rsa", "MlDsa"} :
         /\ curve # "weierstrass" => family = "Ec"
         /\ dh' = [curve |-> curve, family |-> family, a |-> a, b |-> b, of_a |-> of_a, of_b |-> of_b,
                   first |-> IF curve = "weierstrass" THEN derive_with_signing_key(family, a, of_b)
                             ELSE MontgomeryDerive(curve, a, of_b),
                   second |-> IF curve = "weierstrass" THEN derive_weierstrass(b, of_a)
                              ELSE MontgomeryDerive(curve, b, of_a)]
  /\ UNCHANGED <<holder, sent, agreed>>

Next == Generate \/ Encapsulate \/ Decapsulate \/ Agree
Spec == Init /\ [][Next]_vars

-----------------------------------------------------------------------------
(* An encoding of the public key of private, in any form derive accepts.    *)
Names(encoding, curve, private) ==
  IF curve \in Weierstrass
  THEN encoding.at = private /\ encoding.form \in {"uncompressed", "compressed"}
  ELSE encoding.at = Abscissa(private) /\ encoding.form \in {"canonical", "alias", "torsion"}

(* SecretsMatch: receiver and encapsulator hold the same hybrid secret      *)
(* exactly if the public key was the receiver's and construction and        *)
(* ciphertext are those of the encapsulation, which the receiver then never *)
(* refuses (combine, decapsulate); two parties of a static agreement with   *)
(* each other's public key get one secret, and no secret is the one every   *)
(* private key gives (was_contributory).                                    *)
SecretsMatch ==
  /\ agreed # None =>
       LET own == hybrid_public_key(holder.value)
           same == /\ own = Ok(sent.public)
                   /\ sent.construction = holder.value.construction
                   /\ agreed.ciphertext = sent.result.value.ciphertext
       IN  same <=> agreed.result = Ok(sent.result.value.secret)
  /\ dh # None =>
       /\ \A result \in {dh.first, dh.second} : result.ok => was_contributory(result.value)
       /\ /\ dh.family = "Ec"
          /\ Names(dh.of_a, dh.curve, dh.a) /\ Names(dh.of_b, dh.curve, dh.b)
          => dh.first.ok /\ dh.first = dh.second
=============================================================================
