---------------------------- MODULE KeyExchanges ----------------------------
(* Key agreement and hybrid KEMs, ARKG and ML-DSA signatures.  They share   *)
(* no state: part says which one a behaviour is about.                      *)

CONSTANTS Radix, Octets, MaxContext, MaxMessage, Oid, DigestLength,
          Order, ChunkRadix, MaxContextLength, Contexts, Scalars, Materials, Salts,
          HybridSeeds, Expanded, Randomness, Nothing

VARIABLES part, holder, sent, agreed, dh, device, salt, derivation, derived,
          signed, verified, refusal

KE == INSTANCE KeyExchange WITH Seeds <- HybridSeeds, None <- Nothing
AR == INSTANCE Arkg WITH None <- Nothing
ML == INSTANCE MlDsaSigning WITH None <- Nothing, error <- refusal

exchange == <<holder, sent, agreed, dh>>
arkg == <<device, salt, derivation, derived>>
signing == <<signed, verified, refusal>>

ArkgUnused == device = Nothing /\ salt = Nothing /\ derivation = Nothing /\ derived = Nothing
ExchangesInit ==
  \/ part = "exchange" /\ KE!Init /\ ArkgUnused /\ ML!Init
  \/ part = "arkg" /\ AR!Init /\ KE!Init /\ ML!Init
  \/ part = "signing" /\ ML!Init /\ KE!Init /\ ArkgUnused

ExchangeStep == part = "exchange" /\ KE!Next /\ UNCHANGED <<part, arkg, signing>>
ArkgStep == part = "arkg" /\ AR!Next /\ UNCHANGED <<part, exchange, signing>>
SigningStep == part = "signing" /\ ML!Next /\ UNCHANGED <<part, exchange, arkg>>
ExchangesNext == ExchangeStep \/ ArkgStep \/ SigningStep

exchanges == <<part, exchange, arkg, signing>>
ExchangesSpec == ExchangesInit /\ [][ExchangesNext]_exchanges

-----------------------------------------------------------------------------
(* SecretsMatch: the two sides of an exchange hold one secret exactly if    *)
(* each used the other's key and message (KeyExchange: encapsulate,         *)
(* decapsulate and the agreement of two key pairs).                         *)
SecretsMatch == part = "exchange" => KE!SecretsMatch

(* TicketsAreExact: a derivation ticket passes exactly where it was made,   *)
(* and gives the private key of the derived public key (Arkg).              *)
TicketsAreExact == part = "arkg" => AR!TicketsAreExact

(* SignaturesAreBound: a signature verifies exactly for the key, message,   *)
(* context and prehash it was made for, and a generator that fails leaves   *)
(* no trace in it (MlDsaSigning).                                           *)
SignaturesAreBound == part = "signing" => ML!SignaturesAreBound
=============================================================================
