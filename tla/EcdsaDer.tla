------------------------------ MODULE EcdsaDer ------------------------------
(* The DER form of an ECDSA signature: SoftwareSignature::to_ecdsa_der and  *)
(* ecdsa_signature_from_der (software_signing.rs), octet by octet.  A       *)
(* signature is encoded, may lose, gain or change one octet, and is read.   *)
EXTENDS Integers, SequencesExt

CONSTANTS Radix,                     \* of an octet; 256 in the code
          SequenceTag, IntegerTag,
          Widths, Coordinates,       \* coordinate lengths, octets of r and s
          Order,                     \* of a curve with coordinates that long
          None

VARIABLES fixed, der, decoded

(* Octets are numbers, zero has no top bit, coordinates are not empty, and  *)
(* None is no encoding.                                                     *)
OctetsFit ==
  /\ Radix \in Nat /\ Radix >= 2 /\ SequenceTag \in Nat /\ IntegerTag \in Nat
  /\ Widths \subseteq Nat \ {0} /\ Coordinates \subseteq Nat
  /\ None \notin [ok : {TRUE}, value : Seq(Nat)]

TopBit(octet) == octet >= Radix \div 2
LongForm == (Radix \div 2) + 1

Refused == [ok |-> FALSE]
Read(x, next) == [ok |-> TRUE, value |-> x, next |-> next]

(* der_length: one octet, or 0x81 and an octet that needed it.              *)
der_length(encoded, offset) ==
  IF offset > Len(encoded) THEN Refused
  ELSE IF ~TopBit(encoded[offset]) THEN Read(encoded[offset], offset + 1)
  ELSE IF /\ encoded[offset] = LongForm /\ offset < Len(encoded)
          /\ TopBit(encoded[offset + 1])
  THEN Read(encoded[offset + 1], offset + 2) ELSE Refused

(* Mutant: a zero in front of the number is skipped, needed or not.         *)
MagnitudeLenient(value) ==
  IF Len(value) > 1 /\ value[1] = 0 THEN <<Tail(value)>> ELSE <<value>>

(* The magnitude of a positive integer's octets, if they are canonical.     *)
Magnitude(value) ==
  IF Len(value) > 1 /\ value[1] = 0
  THEN IF TopBit(value[2]) THEN <<Tail(value)>> ELSE << >>
  ELSE <<value>>

der_positive_integer(encoded, offset) ==
  IF offset > Len(encoded) \/ encoded[offset] # IntegerTag THEN Refused
  ELSE LET length == der_length(encoded, offset + 1)
       IN  IF ~length.ok \/ length.next + length.value > Len(encoded) + 1 THEN Refused
           ELSE LET last == length.next + length.value - 1
                    value == SubSeq(encoded, length.next, last)
                IN  IF value = << >> \/ TopBit(value[1]) \/ Magnitude(value) = << >> THEN Refused
                    ELSE Read(Magnitude(value)[1], last + 1)

Zeros(count) == [i \in 1 .. count |-> 0]
LeftPad(value, width) == Zeros(width - Len(value)) \o value

ecdsa_signature_from_der(signature, width) ==
  IF width = 0 \/ signature = << >> \/ signature[1] # SequenceTag THEN Refused
  ELSE LET sequence == der_length(signature, 2)
       IN  IF ~sequence.ok \/ sequence.next + sequence.value # Len(signature) + 1 THEN Refused
           ELSE LET r == der_positive_integer(signature, sequence.next)
                    s == IF r.ok THEN der_positive_integer(signature, r.next) ELSE Refused
                IN  IF ~s.ok THEN Refused
                    ELSE IF \/ s.next # Len(signature) + 1
                            \/ Len(r.value) > width \/ Len(s.value) > width THEN Refused
                    ELSE [ok |-> TRUE, value |-> LeftPad(r.value, width) \o LeftPad(s.value, width)]

(* to_ecdsa_der: the crate takes r and s between 1 and the order, and writes *)
(* them as the shortest positive integers.                                  *)
Value(octets) == FoldLeft(LAMBDA total, octet : Radix * total + octet, 0, octets)
InRange(number) == Value(number) \in 1 .. Order[Len(number)] - 1

DerLength(length) == IF TopBit(length) THEN <<LongForm, length>> ELSE <<length>>
Shortest(number) ==
  LET first == CHOOSE i \in 1 .. Len(number) :
                 /\ number[i] # 0 \/ i = Len(number)
                 /\ \A j \in 1 .. i - 1 : number[j] = 0
  IN  (IF TopBit(number[first]) THEN <<0>> ELSE << >>) \o SubSeq(number, first, Len(number))
Tagged(tag, content) == <<tag>> \o DerLength(Len(content)) \o content

First(signature) == SubSeq(signature, 1, Len(signature) \div 2)
Second(signature) == SubSeq(signature, (Len(signature) \div 2) + 1, Len(signature))
Encoded(signature) ==
  Tagged(SequenceTag, Tagged(IntegerTag, Shortest(First(signature)))
                      \o Tagged(IntegerTag, Shortest(Second(signature))))

to_ecdsa_der(signature) ==
  IF InRange(First(signature)) /\ InRange(Second(signature))
  THEN [ok |-> TRUE, value |-> Encoded(signature)] ELSE Refused

-----------------------------------------------------------------------------
Init ==
  /\ fixed \in UNION {[1 .. 2 * w -> Coordinates] : w \in Widths}
  /\ der = None /\ decoded = None

ToDer ==
  /\ der = None
  /\ der' = to_ecdsa_der(fixed) /\ UNCHANGED <<fixed, decoded>>

(* The octets reach the reader as they were, or with one of them changed,   *)
(* lost or added.                                                           *)
Received(octets) ==
  {octets} \cup {[octets EXCEPT ![i] = o] : i \in DOMAIN octets, o \in 0 .. Radix - 1}
  \cup {RemoveAt(octets, i) : i \in DOMAIN octets}
  \cup {InsertAt(octets, i, o) : i \in 1 .. Len(octets) + 1, o \in 0 .. Radix - 1}

FromDer ==
  /\ der # None /\ decoded = None /\ der.ok
  /\ \E octets \in Received(der.value) :
       /\ der' = [der EXCEPT !.value = octets]
       /\ decoded' = ecdsa_signature_from_der(octets, Len(fixed) \div 2)
  /\ UNCHANGED fixed

Next == ToDer \/ FromDer
Spec == Init /\ [][Next]_<<fixed, der, decoded>>

-----------------------------------------------------------------------------
(* DerIsCanonical: an encoding is accepted only if it is the one encoding   *)
(* of the signature read from it, so no signature has two accepted forms,   *)
(* and what to_ecdsa_der wrote is read back (ecdsa_signature_from_der).     *)
DerIsCanonical ==
  decoded # None =>
    IF decoded.ok
    THEN Len(decoded.value) = Len(fixed) /\ Encoded(decoded.value) = der.value
    ELSE der.value # Encoded(fixed)
=============================================================================
