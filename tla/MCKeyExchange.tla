--------------------------- MODULE MCKeyExchange ---------------------------
(* Model-checking instance of KeyExchanges, and of the Brainpool verifier,  *)
(* which is one more part.                                                  *)
EXTENDS KeyExchanges, Integers, Sequences

\* A context of three octets is too long for the octet that holds its length.
MCOid == <<1>>
MCDigestLength == <<2, 3>>

VARIABLES input, answer
brainpool == <<input, answer>>

\* Seeds whose P-256 candidates are all valid, valid from the third on, never.
Candidates(a, b, c, d) == <<a, b, c, d>>
SeedValues == {"s1", "s2", "s3"}
ExpandedSeeds ==
  [seed \in SeedValues |->
     CASE seed = "s1" -> [ml |-> "k1", P256 |-> Candidates(2, 1, 1, 1), P384 |-> 3, X25519 |-> 1]
       [] seed = "s2" -> [ml |-> "k2", P256 |-> Candidates(0, 7, 5, 6), P384 |-> 7, X25519 |-> 6]
       [] seed = "s3" -> [ml |-> "k3", P256 |-> Candidates(7, 0, 0, 7), P384 |-> 4, X25519 |-> 3]]
RandomnessValues ==
  {[fits |-> TRUE, ml |-> "m1", P256 |-> Candidates(3, 1, 1, 1), P384 |-> 5, X25519 |-> 2],
   [fits |-> TRUE, ml |-> "m2", P256 |-> Candidates(0, 4, 1, 1), P384 |-> 0, X25519 |-> 4],
   [fits |-> FALSE, ml |-> "m1", P256 |-> <<>>, P384 |-> 1, X25519 |-> 1]}

MCContexts ==
  {[length |-> 0, text |-> "a"], [length |-> 2, text |-> "b"], [length |-> 3, text |-> "c"]}
MCMaterials == [long : {TRUE}, octets : {0, 1, 6, 11}] \cup {[long |-> FALSE, octets |-> 1]}

ASSUME ExchangeAssumption ==
  /\ KE!OrderIsPrime /\ KE!SeedsFit /\ AR!OrderIsPrime /\ AR!InputsAreOctets
  /\ ML!OctetsFit

\* y^2 = x^3 + 8x + 6 over GF(13): ten points and infinity; one x is above 11.
\* The multiples of the generator: each is the third point on the line of the
\* one before and the generator, mirrored.
Multiples == <<<<2, 2>>, <<8, 7>>, <<12, 7>>, <<9, 1>>, <<6, 6>>,
               <<6, 7>>, <<9, 12>>, <<12, 6>>, <<8, 6>>, <<2, 11>>>>
ASSUME MultiplesAssumption ==
  /\ \A j, k \in 1 .. 10 : Multiples[j] = Multiples[k] => j = k
  /\ \A k \in 1 .. 9 :
       LET p == Multiples[k]
           next == Multiples[k + 1]
           rise == IF k = 1 THEN 3 * p[1] * p[1] + 8 ELSE 2 - p[2]
           run == IF k = 1 THEN 2 * p[2] ELSE 2 - p[1]
       IN  ((0 - next[2] - p[2]) * run) % 13 = (rise * (next[1] - p[1])) % 13
Keys == {[x |-> p[1], y |-> p[2], well_formed |-> TRUE] : p \in {Multiples[k] : k \in 1 .. 10}}
          \cup {[x |-> 2, y |-> 2, well_formed |-> FALSE],
                [x |-> 2, y |-> 3, well_formed |-> TRUE],
                [x |-> 15, y |-> 2, well_formed |-> TRUE],
                [x |-> 2, y |-> 15, well_formed |-> TRUE]}

BP == INSTANCE Brainpool512 WITH
        None <- Nothing,
        P <- 13, A <- 8, B <- 6, N <- 11, GeneratorX <- 2, GeneratorY <- 2,
        ByteBits <- 2, OrderBits <- 4, CoordinateLength <- 2,
        PublicKeys <- Keys, Points <- Multiples, Coordinates <- 0 .. 12,
        Digests <- {<<>>, <<0>>, <<3>>, <<1, 2>>, <<2, 3>>, <<2, 3, 1>>, <<3, 1, 0>>}

MCInit ==
  \/ ExchangesInit /\ input = Nothing /\ answer = Nothing
  \/ part = "brainpool" /\ BP!Init /\ KE!Init /\ ArkgUnused /\ ML!Init

MCNext ==
  \/ ExchangesNext /\ UNCHANGED brainpool
  \/ part = "brainpool" /\ BP!Next /\ UNCHANGED exchanges

MCSpec == MCInit /\ [][MCNext]_<<exchanges, brainpool>>

(* EcdsaIsExact: a signature is accepted exactly if the private key can     *)
(* make it (Brainpool512: verify_prehash).                                  *)
EcdsaIsExact == part = "brainpool" => BP!EcdsaIsExact
=============================================================================
