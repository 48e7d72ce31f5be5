------------------------------ MODULE RsaNumbers ------------------------------
(***************************************************************************)
(* Numbers as bytes: their length, and how many values one has.  A byte    *)
(* has ByteBits bits.                                                      *)
(***************************************************************************)
EXTENDS BigUint

CONSTANT ByteBits    \* bits of a byte: 8

ByteValues(length) == TwoTo[ByteBits * length]
ByteLength(n) == CeilDiv(Bits(n), ByteBits)
=============================================================================
