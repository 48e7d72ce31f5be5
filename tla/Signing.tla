------------------------------- MODULE Signing -------------------------------
(* The signing keys with the DER form of ECDSA signatures (EcdsaDer), which *)
(* shares no state with them: a behaviour belongs to one of the two.        *)
EXTENDS SigningKeys

CONSTANTS Radix, SequenceTag, IntegerTag, Widths, Coordinates, DerOrder
VARIABLES part, fixed, der, decoded
ders == <<fixed, der, decoded>>

Der == INSTANCE EcdsaDer WITH Order <- DerOrder

SigningInit ==
  \/ part = "keys" /\ Init /\ fixed = None /\ der = None /\ decoded = None
  \/ part = "der" /\ Der!Init /\ Init
KeysStep == part = "keys" /\ Next /\ UNCHANGED <<part, ders>>
DerStep == part = "der" /\ Der!Next /\ UNCHANGED <<part, vars>>
SigningNext == KeysStep \/ DerStep
SigningSpec == SigningInit /\ [][SigningNext]_<<part, vars, ders>>

(* DerIsCanonical: an ECDSA signature has one accepted DER form (EcdsaDer:  *)
(* ecdsa_signature_from_der and to_ecdsa_der).                              *)
DerIsCanonical == part = "der" => Der!DerIsCanonical
=============================================================================
