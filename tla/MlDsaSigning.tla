---------------------------- MODULE MlDsaSigning ----------------------------
(* ML-DSA and HashML-DSA signatures (post_quantum.rs): contexts, prehash    *)
(* identifiers, the randomizer and a random number generator that fails,    *)
(* possibly after it filled part of the buffer.  Messages and contexts are  *)
(* sequences of octets, which are smaller here, so that the length of a     *)
(* context reaches its octet's limit.                                       *)
EXTENDS Integers, Sequences

CONSTANTS Radix,                   \* of an octet; 256
          Octets,                  \* the octets of messages, contexts, digests
          MaxContext, MaxMessage,  \* bounds on the lengths tried
          Oid,                     \* DER of the NIST hash OID, but its last arc
          DigestLength,            \* by prehash identifier (MlDsaPrehash)
          None

VARIABLES signed, verified, error
vars == <<signed, verified, error>>

(* The constants have their types, and None is no prehash identifier.       *)
OctetsFit ==
  /\ Radix \in Nat \ {0} /\ MaxContext \in Nat /\ MaxMessage \in Nat
  /\ Oid \in Seq({Oid[i] : i \in DOMAIN Oid}) /\ None \notin DOMAIN DigestLength

Prehashes == DOMAIN DigestLength
Strings(longest) == UNION {[1 .. l -> Octets] : l \in 0 .. longest}
Calls == [message : Strings(MaxMessage), context : Strings(MaxContext), hash : Prehashes \cup {None}]
Randomizations == {"Deterministic", "Randomized", "HedgePreferred"}

(* Mutant: the length of a context may be as large as the radix.            *)
ContextTooLong(context) == Len(context) > Radix

ContextLengthRefused(context) == Len(context) > Radix - 1

(* ML-DSA's own framing of a message in a context (FIPS 204).               *)
Framed(context, message) == <<0, Len(context) % Radix>> \o context \o message

(* MlDsaPrehash::encode.                                                    *)
encode(hash, digest, context) ==
  <<1, Len(context) % Radix>> \o context \o Oid \o <<hash>> \o digest
EncodeError(hash, digest, context) ==
  IF ContextLengthRefused(context) THEN "InvalidContext"
  ELSE IF Len(digest) # DigestLength[hash] THEN "InvalidSignature" ELSE "none"

Internal(c) ==
  IF c.hash = None THEN Framed(c.context, c.message) ELSE encode(c.hash, c.message, c.context)
InputError(c) ==
  IF c.hash # None THEN EncodeError(c.hash, c.message, c.context)
  ELSE IF ContextLengthRefused(c.context) THEN "InvalidContext" ELSE "none"

(* The 32 bytes of a randomizer: zeros (the deterministic variant of the    *)
(* standard), fresh, or partly filled by a generator that failed.           *)
Fillings == {[ok |-> TRUE, buffer |-> "fresh"], [ok |-> FALSE, buffer |-> "zeros"],
             [ok |-> FALSE, buffer |-> "partial"]}
Randomizer(randomization, filling) ==
  CASE randomization = "Deterministic" -> "zeros"
    [] randomization = "Randomized" -> IF filling.ok THEN filling.buffer ELSE None
    [] randomization = "HedgePreferred" -> IF filling.ok THEN filling.buffer ELSE "zeros"

-----------------------------------------------------------------------------
Init == signed = None /\ verified = None /\ error = "none"

(* sign, sign_prehash, sign_hedged, sign_deterministic.                     *)
Sign ==
  /\ signed = None
  /\ \E c \in Calls, randomization \in Randomizations, filling \in Fillings :
       LET rnd == Randomizer(randomization, filling)
       IN  IF InputError(c) # "none" THEN error' = InputError(c) /\ UNCHANGED signed
           ELSE IF rnd = None THEN error' = "RandomnessUnavailable" /\ UNCHANGED signed
           ELSE /\ error' = "none"
                /\ signed' = [call |-> c, over |-> Internal(c), rnd |-> rnd,
                              randomization |-> randomization, healthy |-> filling.ok]
  /\ UNCHANGED verified

(* verify_ml_dsa, verify_ml_dsa_prehash: a key and a signature have the     *)
(* lengths of the parameter set.                                            *)
VerifyError(c, public, s) ==
  IF InputError(c) # "none" THEN InputError(c)
  ELSE IF public = "wrong_length" THEN "InvalidPublicKey"
  ELSE IF s # "wrong_length" /\ public = "signer" /\ Internal(c) = signed.over THEN "none"
  ELSE "InvalidSignature"

Verify ==
  /\ signed # None /\ verified = None
  /\ \/ verified' \in [call : Calls, public : {"signer"}, signature : {"made"}]
     \/ verified' \in [call : {signed.call}, public : {"signer", "other", "wrong_length"},
                        signature : {"made", "wrong_length"}]
  /\ error' = VerifyError(verified'.call, verified'.public, verified'.signature)
  /\ UNCHANGED signed

Next == Sign \/ Verify
Spec == Init /\ [][Next]_vars

-----------------------------------------------------------------------------
(* SignaturesAreBound: a signature verifies exactly for the key, message,   *)
(* context and prehash it was made for: no context, digest or hash can be   *)
(* traded for another or for a plain message (sign, sign_prehash, encode,   *)
(* verify_ml_dsa).  A generator that fails never gives a signature that was *)
(* asked to be randomized, and leaves no trace in one that falls back.      *)
SignaturesAreBound ==
  /\ verified # None =>
       (error = "none" <=> verified.call = signed.call /\ verified.public = "signer"
                           /\ verified.signature = "made")
  /\ signed # None =>
       /\ signed.randomization = "Randomized" => signed.healthy
       /\ signed.rnd = IF signed.healthy /\ signed.randomization # "Deterministic"
                       THEN "fresh" ELSE "zeros"
=============================================================================
