-------------------------------- MODULE Arkg --------------------------------
(* ARKG-P256 (arkg.rs): the public side derives a public key and a ticket   *)
(* from two seed points, the private side the matching scalar from the      *)
(* ticket.  A point is its multiple of the generator, modulo the prime      *)
(* Order; HMAC, HKDF and the hash behind hash_to_scalar are symbolic.       *)
EXTENDS Integers

CONSTANTS Order,
          ChunkRadix,       \* the halves of the hash are below it; 2^192
          MaxContextLength, Contexts, Scalars, Materials, Salts,
          None

VARIABLES device,      \* the private seed scalars
          salt,        \* which hash function
          derivation,  \* what the public side was given and got
          derived      \* what the private side was given and got

vars == <<device, salt, derivation, derived>>

Ok(value) == [ok |-> TRUE, value |-> value]
Err(error) == [ok |-> FALSE, error |-> error]
X(point) == IF 2 * point < Order THEN point ELSE Order - point

(* SEC1 encodings: 1 .. Order - 1, and Order for octets that are no point.  *)
IsPoint(encoding) == encoding \in 1 .. Order - 1
parse_scalar(octets) ==
  IF octets \in 1 .. Order - 1 THEN Ok(octets) ELSE Err("InvalidPrivateScalar")
projective_to_uncompressed(point) == IF point = 0 THEN Err("IdentityPoint") ELSE Ok(point)
arkg_p256_public_point(octets) ==
  IF parse_scalar(octets).ok THEN projective_to_uncompressed(octets % Order)
  ELSE parse_scalar(octets)

derivation_contexts(context) ==
  IF context.length > MaxContextLength THEN Err("ContextTooLong") ELSE Ok(context)

(* hash_to_scalar: twice as many octets as a chunk holds, reduced.          *)
scalar_from_24_bytes(chunk) == chunk % Order
reduce_48_bytes(uniform) ==
  ( scalar_from_24_bytes(uniform \div ChunkRadix) * (ChunkRadix % Order)
    + scalar_from_24_bytes(uniform % ChunkRadix) ) % Order
Uniform(message, domain) == (salt + message + 5 * domain) % (ChunkRadix * ChunkRadix)
KemKeyGeneration == 0
Blinding(context) == 1 + context.length
hash_to_scalar(message, domain) == reduce_48_bytes(Uniform(message, domain))

(* Mutant: the tag is over the shared x-coordinate only.                    *)
TagOfSecret(key, ephemeral) == <<key>>

(* hkdf_sha256 and HMAC, on the x-coordinate both sides compute.            *)
MacKey(shared, context) == <<"mac", shared, context>>
Tag(key, ephemeral) == <<key, ephemeral>>

Tau(shared, context) == hash_to_scalar(3 * shared, Blinding(context))

arkg_p256_derive_public(blinding, kem, material, context) ==
  LET ephemeral == hash_to_scalar(material.octets, KemKeyGeneration)
      shared == X((kem * ephemeral) % Order)
      public_key == (blinding + Tau(shared, context)) % Order
  IN  CASE ~material.long -> Err("InputKeyingMaterialTooShort")
        [] material.long /\ ~derivation_contexts(context).ok -> derivation_contexts(context)
        [] OTHER ->
             CASE ~IsPoint(blinding) \/ ~IsPoint(kem) -> Err("InvalidPublicPoint")
               [] IsPoint(blinding) /\ IsPoint(kem) /\ ephemeral = 0 -> Err("DerivedZeroScalar")
               [] OTHER ->
                    IF ~projective_to_uncompressed(public_key).ok THEN Err("IdentityPoint")
                    ELSE Ok([public_key |-> public_key,
                             ticket |-> [tag |-> Tag(MacKey(shared, context), ephemeral),
                                         ephemeral |-> ephemeral]])

arkg_p256_derive_private(blinding, kem, ticket, context) ==
  LET shared == X((ticket.ephemeral * kem) % Order)
      private == (blinding + Tau(shared, context)) % Order
  IN  CASE ~derivation_contexts(context).ok -> derivation_contexts(context)
        [] OTHER ->
             CASE ~parse_scalar(blinding).ok \/ ~parse_scalar(kem).ok -> Err("InvalidPrivateScalar")
               [] OTHER ->
                    CASE ~IsPoint(ticket.ephemeral) -> Err("InvalidTicketPoint")
                      [] IsPoint(ticket.ephemeral)
                         /\ ticket.tag # Tag(MacKey(shared, context), ticket.ephemeral) ->
                           Err("TicketAuthenticationFailed")
                      [] OTHER ->
                           IF private = 0 THEN Err("DerivedZeroScalar") ELSE Ok(private)

-----------------------------------------------------------------------------
(* The assumptions of the property: the order of P-256 is prime, octets are *)
(* numbers, and None is no tag.                                             *)
OrderIsPrime ==
  Order \in Nat \ {0, 1} /\ \A x, y \in 1 .. Order - 1 : (x * y) % Order # 0
InputsAreOctets ==
  /\ ChunkRadix \in Nat \ {0} /\ MaxContextLength \in Nat
  /\ Scalars \subseteq Nat /\ Salts \subseteq Nat
  /\ \A context \in Contexts : context.length \in Nat
  /\ \A material \in Materials : material.octets \in Nat /\ material.long \in BOOLEAN
  /\ \A x, ephemeral \in 0 .. Order, context \in Contexts :
       Tag(MacKey(x, context), ephemeral) # None

Devices == [blinding : Scalars, kem : Scalars]

Init ==
  /\ device \in Devices /\ salt \in Salts
  /\ derivation = None /\ derived = None

(* The public side has the points of the device, or octets that are none.   *)
DerivePublic ==
  /\ derivation = None
  /\ LET blinding == arkg_p256_public_point(device.blinding)
         kem == arkg_p256_public_point(device.kem)
     IN  /\ blinding.ok /\ kem.ok
         /\ \E material \in Materials, context \in Contexts :
              \E b \in {blinding.value, Order}, k \in {kem.value, Order} :
                derivation' = [context |-> context,
                               result |-> arkg_p256_derive_public(b, k, material, context)]
  /\ UNCHANGED <<device, salt, derived>>

(* The ticket arrives as it was made or with another tag or point, at this  *)
(* device or at another one.                                                *)
DerivePrivate ==
  /\ derivation # None /\ derived = None
  /\ derivation.result.ok
  /\ \E receiver \in Devices, context \in Contexts, ephemeral \in 0 .. Order,
        tag \in {derivation.result.value.ticket.tag, None} :
       LET ticket == [tag |-> tag, ephemeral |-> ephemeral]
       IN  derived' = [receiver |-> receiver, context |-> context, ticket |-> ticket,
                       result |-> arkg_p256_derive_private(receiver.blinding, receiver.kem,
                                                           ticket, context)]
  /\ UNCHANGED <<device, salt, derivation>>

Next == DerivePublic \/ DerivePrivate
Spec == Init /\ [][Next]_vars

-----------------------------------------------------------------------------
(* TicketsAreExact: a ticket passes exactly where it was made: unaltered,   *)
(* in its context, for this KEM scalar or its negative; on the device it    *)
(* was made for it gives the private scalar of the derived public key, also *)
(* where the blinded key is at the edge of the group, and no device ever    *)
(* gets the zero scalar (arkg_p256_derive_private against                   *)
(* arkg_p256_derive_public).                                                *)
TicketsAreExact ==
  derived # None =>
    LET genuine == /\ derived.ticket = derivation.result.value.ticket
                   /\ derived.context = derivation.context
                   /\ parse_scalar(derived.receiver.blinding).ok
                   /\ derived.receiver.kem \in {device.kem, Order - device.kem}
    IN  /\ derived.result.ok => genuine /\ derived.result.value \in 1 .. Order - 1
        /\ genuine => derived.result.ok \/ derived.result.error = "DerivedZeroScalar"
        /\ genuine /\ derived.receiver.blinding = device.blinding
             => derived.result = Ok(derivation.result.value.public_key)
=============================================================================
