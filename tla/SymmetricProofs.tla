--------------------------- MODULE SymmetricProofs ---------------------------
(***************************************************************************)
(* Proofs about KeyWrap for any size of a byte and of a semiblock, any     *)
(* exclusive or that is an involution, any permutation of the blocks as    *)
(* the cipher, and any inputs and initial values.  Then about Aead, taken  *)
(* as an instance, for any widths, any block encryptor and any messages,   *)
(* about BlockModes (CBC, CTR, the paddings and CMAC), for any block size, *)
(* any permutation of the blocks and any data, and about CounterKdf, for   *)
(* any hash length and any fields.                                         *)
(***************************************************************************)
EXTENDS Symmetric, NumberLemmas, SequenceTheorems, TLAPS

LEMMA SameFunction ==
  ASSUME NEW D, NEW T, NEW f \in [D -> T], NEW g \in [D -> T], \A x \in D : f[x] = g[x]
  PROVE  f = g
OBVIOUS

-----------------------------------------------------------------------------
(* Numbers and their octets.                                               *)

LEMMA Sizes ==
  /\ SemiblockSize \in Nat \ {0} /\ ByteValues \in Nat \ {0}
  /\ Half \in Nat /\ LengthSize \in 1 .. SemiblockSize /\ Half + LengthSize = SemiblockSize
<1>1. SemiblockSize \in Nat \ {0} /\ ByteValues \in Nat \ {0}
  BY WidthAssumption
<1>2. Half \in Nat /\ 2 * Half <= SemiblockSize
  BY <1>1 DEF Half
<1>. QED
  BY <1>1, <1>2 DEF LengthSize

(* Power is what its recursive definition says.                            *)
LEMMA PowerValues ==
  /\ Power \in [0 .. SemiblockSize -> Nat \ {0}] /\ Power[0] = 1
  /\ \A k \in 1 .. SemiblockSize : Power[k] = ByteValues * Power[k - 1]
<1> DEFINE K == SemiblockSize
           Positive == Nat \ {0}
           Loop(f) == f = [k \in 0 .. K |-> IF k = 0 THEN 1 ELSE ByteValues * f[k - 1]]
           step == [k \in 1 .. K |-> [x \in Positive |-> ByteValues * x]]
<1>1. K \in Nat /\ 1 \in Positive /\ \A x \in Positive : ByteValues * x \in Positive
  BY Sizes
<1>2. Power = CHOOSE f : Loop(f)
  BY DEF Power
<1> HIDE DEF K, Positive
<1>3. step \in [1 .. K -> [Positive -> Positive]]
  BY <1>1
<1>4. PICK f : Iterates(f, K, Positive, 1, step)
  <2> HIDE DEF step
  <2>. QED
    BY <1>1, <1>3, IterationExists
<1>5. \A k \in 1 .. K : f[k] = ByteValues * f[k - 1]
  <2>1. \A k \in 1 .. K : k - 1 \in 0 .. K
    BY <1>1
  <2>. QED
    BY <1>4, <2>1 DEF Iterates
<1>6. Loop(f)
  <2>1. \A k \in 0 .. K : k # 0 => k \in 1 .. K
    BY <1>1
  <2>. QED
    BY <1>4, <1>5, <2>1 DEF Iterates
<1>7. Loop(Power)
  <2> HIDE DEF Loop
  <2>. QED
    BY <1>2, <1>6
<1>8. Power[0] = 1 /\ \A k \in 1 .. K : Power[k] = ByteValues * Power[k - 1]
  <2>1. 0 \in 0 .. K /\ \A k \in 1 .. K : k \in 0 .. K /\ k # 0
    BY <1>1
  <2>. QED
    BY <1>7, <2>1
<1>9. Power \in [0 .. K -> Positive]
  <2> DEFINE Good == {k \in 0 .. K : Power[k] \in Positive}
  <2>1. 0 \in Good
    BY <1>1, <1>8
  <2>2. ASSUME NEW k \in 1 .. K, k - 1 \in Good PROVE k \in Good
    <3>1. Power[k - 1] \in Positive /\ k \in 0 .. K
      BY <1>1, <2>2
    <3>. QED
      BY <1>1, <1>8, <3>1
  <2>3. \A k \in 0 .. K : k \in Good
    <3> HIDE DEF Good
    <3>. QED
      BY <1>1, <2>1, <2>2, UpTo
  <2>. QED
    BY <1>7, <2>3
<1>. QED
  BY <1>8, <1>9 DEF K, Positive

LEMMA OctetsOfNumber ==
  ASSUME NEW value \in Nat, NEW width \in 0 .. SemiblockSize
  PROVE  ToBytes(value, width) \in [1 .. width -> Byte]
<1>1. \A k \in 1 .. width : Power[width - k] \in Nat \ {0}
  BY Sizes, PowerValues
<1>2. \A p \in Nat \ {0} : (value \div p) % ByteValues \in Byte
  BY Sizes DEF Byte
<1>3. \A k \in 1 .. width : (value \div Power[width - k]) % ByteValues \in Byte
  BY <1>1, <1>2
<1>. QED
  BY <1>3 DEF ToBytes

LEMMA NestedQuotient ==
  ASSUME NEW x \in Nat, NEW p \in Nat \ {0}, NEW b \in Nat \ {0}
  PROVE  x \div (p * b) = (x \div p) \div b
  OBVIOUS

LEMMA LimitIsNat == LengthLimit \in Nat
<1>1. LengthSize \in 0 .. SemiblockSize
  BY Sizes
<1>2. Power[LengthSize] \in Nat \ {0}
  BY <1>1, PowerValues, Zenon
<1>. QED
  BY <1>2 DEF LengthLimit

(* Two numbers that fit have the same octets only if they are the same.    *)
LEMMA OctetsTellApart ==
  ASSUME NEW width \in 0 .. SemiblockSize, NEW u \in 0 .. Power[width] - 1,
         NEW v \in 0 .. Power[width] - 1, ToBytes(u, width) = ToBytes(v, width)
  PROVE  u = v
<1> DEFINE Good == {j \in 0 .. width : u \div Power[width - j] = v \div Power[width - j]}
<1>1. width \in Nat /\ \A j \in 0 .. width : width - j \in 0 .. SemiblockSize
  BY Sizes
<1>2. u \in Nat /\ v \in Nat /\ Power[width] \in Nat \ {0}
  BY <1>1, PowerValues
<1>3. 0 \in Good
  <2>1. \A p \in Nat \ {0} : \A x \in 0 .. p - 1 : x \div p = 0
    OBVIOUS
  <2>. QED
    BY <1>1, <1>2, <2>1
<1>4. ASSUME NEW j \in 1 .. width, j - 1 \in Good PROVE j \in Good
  <2> DEFINE p == Power[width - j]
  <2>1. p \in Nat \ {0} /\ width - j \in 0 .. SemiblockSize /\ (width - j) + 1 \in 1 .. SemiblockSize
    <3>1. width - j \in 0 .. SemiblockSize /\ (width - j) + 1 \in 1 .. SemiblockSize
      BY <1>1, Sizes
    <3>. QED
      BY <3>1, PowerValues, Zenon
  <2>2. Power[(width - j) + 1] = ByteValues * p /\ width - (j - 1) = (width - j) + 1
    <3>1. ((width - j) + 1) - 1 = width - j /\ width - (j - 1) = (width - j) + 1
      BY <1>1
    <3>. QED
      BY <2>1, <3>1, PowerValues
  <2>3. u \div (ByteValues * p) = v \div (ByteValues * p)
    BY <1>4, <2>2
  <2>4. (u \div p) % ByteValues = (v \div p) % ByteValues
    <3>1. ToBytes(u, width)[j] = ToBytes(v, width)[j]
      OBVIOUS
    <3>. QED
      BY <3>1 DEF ToBytes
  <2> HIDE DEF p
  <2>5. \A x \in Nat : (x \div p) \div ByteValues = x \div (ByteValues * p)
    <3>1. p * ByteValues = ByteValues * p
      BY <2>1, Sizes
    <3>2. \A x \in Nat : (x \div p) \div ByteValues = x \div (p * ByteValues)
      BY <2>1, Sizes
    <3>. QED
      BY <3>1, <3>2
  <2>6. u \div p \in Nat /\ v \div p \in Nat
    BY <1>2, <2>1
  <2>7. \A x \in Nat : x % ByteValues = x - ByteValues * (x \div ByteValues)
    BY Sizes
  <2>8. (u \div p) - ByteValues * (u \div (ByteValues * p))
          = (v \div p) - ByteValues * (v \div (ByteValues * p))
    BY <1>2, <2>4, <2>5, <2>6, <2>7
  <2>9. v \div (ByteValues * p) \in Nat
    BY <1>2, <2>5, <2>6, Sizes
  <2>10. ByteValues * (v \div (ByteValues * p)) \in Nat
    BY <2>9, Sizes
  <2>11. u \div p = v \div p
    <3> DEFINE z == ByteValues * (v \div (ByteValues * p))
    <3>1. (u \div p) - z = (v \div p) - z /\ z \in Nat
      BY <2>3, <2>8, <2>10
    <3> HIDE DEF z
    <3>. QED
      BY <2>6, <3>1
  <2>. QED
    BY <2>11 DEF p
<1>5. \A j \in 0 .. width : j \in Good
  <2> HIDE DEF Good
  <2>. QED
    BY <1>1, <1>3, <1>4, UpTo
<1>6. u \div Power[width - width] = v \div Power[width - width]
  BY <1>1, <1>5
<1>. QED
  BY <1>1, <1>2, <1>6, PowerValues

(* Every string of octets is that of a number that fits.                   *)
LEMMA NumberOfOctets ==
  ASSUME NEW width \in 0 .. SemiblockSize, NEW bytes \in [1 .. width -> Byte]
  PROVE  \E value \in 0 .. Power[width] - 1 : ToBytes(value, width) = bytes
<1> DEFINE step == [j \in 1 .. width |-> [x \in Nat |-> ByteValues * x + bytes[j]]]
<1>1. width \in Nat /\ \A j \in 0 .. width : width - j \in 0 .. SemiblockSize
  BY Sizes
<1>2. \A j \in 1 .. width : bytes[j] \in 0 .. ByteValues - 1
  BY DEF Byte
<1>3. \A j \in 1 .. width, x \in Nat : ByteValues * x + bytes[j] \in Nat
  BY <1>2, Sizes
<1>4. step \in [1 .. width -> [Nat -> Nat]]
  BY <1>3
<1>5. PICK f : Iterates(f, width, Nat, 0, step)
  <2> HIDE DEF step
  <2>. QED
    BY <1>1, <1>4, IterationExists
<1>6. /\ f \in [0 .. width -> Nat] /\ f[0] = 0
      /\ \A j \in 1 .. width : f[j] = ByteValues * f[j - 1] + bytes[j]
  <2>1. \A j \in 1 .. width : j - 1 \in 0 .. width
    BY <1>1
  <2>. QED
    BY <1>5, <2>1 DEF Iterates
<1> HIDE DEF step
<1>7. f[width] \in 0 .. Power[width] - 1
  <2> DEFINE Good == {j \in 0 .. width : f[j] \in 0 .. Power[j] - 1}
  <2>1. 0 \in Good
    BY <1>1, <1>6, PowerValues
  <2>2. ASSUME NEW j \in 1 .. width, j - 1 \in Good PROVE j \in Good
    <3> DEFINE x == f[j - 1]
               p == Power[j - 1]
    <3>1. j \in 1 .. SemiblockSize /\ j - 1 \in 0 .. SemiblockSize
      BY <1>1, Sizes
    <3>2. Power[j] = ByteValues * p /\ p \in Nat
      BY <3>1, PowerValues
    <3>3. x \in 0 .. p - 1 /\ f[j] = ByteValues * x + bytes[j] /\ bytes[j] \in 0 .. ByteValues - 1
      BY <1>2, <1>6, <2>2
    <3> HIDE DEF x, p
    <3>4. x + 1 <= p /\ x \in Nat
      BY <3>2, <3>3
    <3>5. ByteValues * (x + 1) <= ByteValues * p /\ ByteValues * (x + 1) = ByteValues * x + ByteValues
      BY <3>2, <3>4, Sizes
    <3>6. ByteValues * x \in Nat /\ ByteValues * p \in Nat
      BY <3>2, <3>4, Sizes
    <3>7. f[j] \in 0 .. ByteValues * p - 1
      BY <3>3, <3>5, <3>6, Sizes
    <3>. QED
      BY <3>2, <3>7
  <2>3. \A j \in 0 .. width : j \in Good
    <3> HIDE DEF Good
    <3>. QED
      BY <1>1, <2>1, <2>2, UpTo
  <2>. QED
    BY <1>1, <2>3
<1>8. \A i \in 0 .. width : f[width] \div Power[i] = f[width - i]
  <2> DEFINE Good == {i \in 0 .. width : f[width] \div Power[i] = f[width - i]}
             z == f[width]
  <2>1. 0 \in Good
    BY <1>1, <1>6, PowerValues
  <2>2. ASSUME NEW i \in 1 .. width, i - 1 \in Good PROVE i \in Good
    <3> DEFINE p == Power[i - 1]
               q == f[width - i]
               d == bytes[width - (i - 1)]
    <3>1. i \in 1 .. SemiblockSize /\ i - 1 \in 0 .. SemiblockSize
      BY <1>1, Sizes
    <3>2. Power[i] = ByteValues * p /\ p \in Nat \ {0}
      BY <3>1, PowerValues
    <3>3. /\ width - (i - 1) \in 1 .. width /\ (width - (i - 1)) - 1 = width - i
          /\ width - i \in 0 .. width
      BY <1>1
    <3>4. f[width - (i - 1)] = ByteValues * q + d /\ d \in 0 .. ByteValues - 1 /\ q \in Nat
      BY <1>2, <1>6, <3>3
    <3>5. z \div p = ByteValues * q + d /\ z \in Nat
      BY <1>1, <1>6, <2>2, <3>4
    <3> HIDE DEF z, p, q, d
    <3>6. (z \div p) \div ByteValues = q
      BY <3>4, <3>5, Sizes
    <3>7. z \div (p * ByteValues) = q /\ p * ByteValues = ByteValues * p
      <4>1. z \div (p * ByteValues) = (z \div p) \div ByteValues
        BY <3>2, <3>5, Sizes, NestedQuotient, Zenon
      <4>2. p * ByteValues = ByteValues * p
        BY <3>2, Sizes
      <4>. QED
        BY <3>6, <4>1, <4>2, Zenon
    <3>. QED
      BY <3>2, <3>7 DEF z, q
  <2>3. \A i \in 0 .. width : i \in Good
    <3> HIDE DEF Good
    <3>. QED
      BY <1>1, <2>1, <2>2, UpTo
  <2>. QED
    BY <2>3
<1>9. \A k \in 1 .. width : ToBytes(f[width], width)[k] = bytes[k]
  <2> TAKE k \in 1 .. width
  <2>1. /\ width - k \in 0 .. width /\ width - (width - k) = k /\ k \in 0 .. width
        /\ k - 1 \in 0 .. width
    BY <1>1
  <2>2. f[width] \div Power[width - k] = f[k]
    BY <1>8, <2>1
  <2> DEFINE q == f[k - 1]
             d == bytes[k]
  <2>3. f[k] = ByteValues * q + d /\ q \in Nat /\ d \in 0 .. ByteValues - 1
    BY <1>2, <1>6, <2>1
  <2>4. f[k] % ByteValues = d
    <3> HIDE DEF q, d
    <3>. QED
      BY <2>3, Sizes
  <2>. QED
    BY <2>2, <2>4 DEF ToBytes
<1>10. ToBytes(f[width], width) \in [1 .. width -> Byte]
  BY <1>1, <1>6, OctetsOfNumber
<1>11. ToBytes(f[width], width) = bytes
  BY <1>9, <1>10
<1>. QED
  BY <1>7, <1>11

(* from_be_bytes inverts to_be_bytes and is inverted by it.                *)
LEMMA FromBytesIsExact ==
  ASSUME NEW width \in 0 .. SemiblockSize
  PROVE  /\ \A value \in 0 .. Power[width] - 1 : FromBytes(ToBytes(value, width)) = value
         /\ \A bytes \in [1 .. width -> Byte] :
              FromBytes(bytes) \in 0 .. Power[width] - 1 /\ ToBytes(FromBytes(bytes), width) = bytes
<1>1. width \in Nat
  BY Sizes
<1>2. ASSUME NEW bytes \in [1 .. width -> Byte]
      PROVE  FromBytes(bytes) \in 0 .. Power[width] - 1 /\ ToBytes(FromBytes(bytes), width) = bytes
  <2>1. Len(bytes) = width
    BY <1>1
  <2>2. \E value \in 0 .. Power[width] - 1 : ToBytes(value, width) = bytes
    BY NumberOfOctets
  <2>3. FromBytes(bytes) = CHOOSE value \in 0 .. Power[width] - 1 : ToBytes(value, width) = bytes
    BY <2>1, Zenon DEF FromBytes
  <2>. QED
    BY <2>2, <2>3
<1>3. ASSUME NEW value \in 0 .. Power[width] - 1
      PROVE  FromBytes(ToBytes(value, width)) = value
  <2>1. Power[width] \in Nat /\ value \in Nat
    BY PowerValues
  <2>2. ToBytes(value, width) \in [1 .. width -> Byte]
    BY <2>1, OctetsOfNumber
  <2>. QED
    BY <1>2, <2>2, OctetsTellApart
<1>. QED
  BY <1>2, <1>3

-----------------------------------------------------------------------------
(* Semiblocks and their octets.                                            *)

Semis(m) == [1 .. m -> Semi]
State(m) == Semi \X Semis(m)      \* what a and r hold

(* The octets before the one at k are whole semiblocks and a rest.         *)
LEMMA PlaceOfOctet ==
  ASSUME NEW m \in Nat, NEW k \in 1 .. m * SemiblockSize
  PROVE  /\ ((k - 1) \div SemiblockSize) + 1 \in 1 .. m
         /\ ((k - 1) % SemiblockSize) + 1 \in 1 .. SemiblockSize
         /\ ((k - 1) \div SemiblockSize) * SemiblockSize + (((k - 1) % SemiblockSize) + 1) = k
<1> DEFINE S == SemiblockSize
           z == k - 1
           q == z \div S
<1>1. S \in Nat \ {0} /\ m * S \in Nat
  BY Sizes
<1>2. k \in Nat /\ z \in Nat /\ z < m * S /\ k = z + 1
  BY <1>1
<1> HIDE DEF S, z
<1>3. q \in Nat /\ z % S \in 0 .. S - 1 /\ S * q <= z
  BY <1>1, <1>2
<1>4. z % S = z - S * q
  BY <1>1, <1>2
<1>5. S * q < m * S /\ S * q \in Nat
  BY <1>1, <1>2, <1>3
<1> HIDE DEF q
<1>6. q < m
  <2>1. SUFFICES ASSUME m <= q PROVE FALSE
    BY <1>3
  <2>2. S * m <= S * q /\ S * m = m * S
    BY <1>1, <1>3, <2>1
  <2>. QED
    BY <1>1, <1>5, <2>2
<1>7. q * S = S * q
  BY <1>1, <1>3
<1>8. q * S + ((z % S) + 1) = k
  BY <1>1, <1>2, <1>4, <1>5, <1>7
<1>9. q + 1 \in 1 .. m /\ (z % S) + 1 \in 1 .. S
  BY <1>1, <1>3, <1>6
<1>. QED
  BY <1>8, <1>9 DEF S, z, q

PlaceIsExact(m, i, k) ==
  LET j == (i - 1) * SemiblockSize + k
  IN  /\ j \in 1 .. m * SemiblockSize
      /\ ((j - 1) \div SemiblockSize) + 1 = i
      /\ ((j - 1) % SemiblockSize) + 1 = k

LEMMA OctetAtPlace ==
  ASSUME NEW m \in Nat, NEW i \in 1 .. m, NEW k \in 1 .. SemiblockSize
  PROVE  PlaceIsExact(m, i, k)
<1> DEFINE S == SemiblockSize
           q == i - 1
           d == k - 1
<1>1. S \in Nat \ {0} /\ q \in Nat /\ d \in 0 .. S - 1 /\ k \in Nat /\ i \in Nat
  BY Sizes
<1>2. q * S \in Nat /\ q * S = S * q /\ (q * S + k) - 1 = S * q + d
  BY <1>1
<1>3. (S * q + d) \div S = q /\ (S * q + d) % S = d
  <2> HIDE DEF S, q, d
  <2>. QED
    BY <1>1
<1>4. q + 1 <= m /\ q + 1 \in Nat
  BY <1>1
<1>5. (q + 1) * S <= m * S /\ (q + 1) * S = q * S + S
  <2> HIDE DEF S, q, d
  <2>. QED
    BY <1>1, <1>4
<1>6. q * S + k \in 1 .. m * S
  BY <1>1, <1>2, <1>5
<1>. QED
  BY <1>1, <1>2, <1>3, <1>6 DEF PlaceIsExact

LEMMA BytesOf ==
  ASSUME NEW m \in Nat, NEW s \in Semis(m)
  PROVE  /\ Bytes(s, m) \in [1 .. m * SemiblockSize -> Byte]
         /\ \A i \in 1 .. m, k \in 1 .. SemiblockSize :
              Bytes(s, m)[(i - 1) * SemiblockSize + k] = s[i][k]
<1>1. \A i \in 1 .. m, k \in 1 .. SemiblockSize : s[i][k] \in Byte
  BY DEF Semis, Semi
<1>2. ASSUME NEW k \in 1 .. m * SemiblockSize
      PROVE  s[((k - 1) \div SemiblockSize) + 1][((k - 1) % SemiblockSize) + 1] \in Byte
  BY <1>1, PlaceOfOctet
<1>3. Bytes(s, m) \in [1 .. m * SemiblockSize -> Byte]
  BY <1>2 DEF Bytes
<1>4. ASSUME NEW i \in 1 .. m, NEW k \in 1 .. SemiblockSize
      PROVE  Bytes(s, m)[(i - 1) * SemiblockSize + k] = s[i][k]
  <2> DEFINE j == (i - 1) * SemiblockSize + k
  <2>1. /\ j \in 1 .. m * SemiblockSize /\ ((j - 1) \div SemiblockSize) + 1 = i
        /\ ((j - 1) % SemiblockSize) + 1 = k
    <3>1. PlaceIsExact(m, i, k)
      BY OctetAtPlace, Zenon
    <3>. QED
      BY <3>1, Zenon DEF PlaceIsExact
  <2> HIDE DEF j
  <2>2. Bytes(s, m)[j] = s[i][k]
    BY <2>1 DEF Bytes
  <2>. QED
    BY <2>2 DEF j
<1>. QED
  BY <1>3, <1>4

LEMMA SemiblocksOf ==
  ASSUME NEW m \in Nat, NEW bytes \in [1 .. m * SemiblockSize -> Byte]
  PROVE  /\ Semiblocks(bytes) \in Semis(m)
         /\ \A i \in 1 .. m, k \in 1 .. SemiblockSize :
              Semiblocks(bytes)[i][k] = bytes[(i - 1) * SemiblockSize + k]
<1>1. m * SemiblockSize \in Nat
  BY Sizes
<1>2. Len(bytes) = m * SemiblockSize
  BY <1>1
<1>3. (m * SemiblockSize) \div SemiblockSize = m
  BY Sizes
<1>4. Semiblocks(bytes) = [i \in 1 .. m |-> Semiblock(bytes, i)]
  BY <1>2, <1>3 DEF Semiblocks
<1>5. \A i \in 1 .. m, k \in 1 .. SemiblockSize : bytes[(i - 1) * SemiblockSize + k] \in Byte
  BY OctetAtPlace DEF PlaceIsExact
<1>6. \A i \in 1 .. m : Semiblock(bytes, i) \in Semi
  BY <1>5 DEF Semiblock, Semi
<1>7. Semiblocks(bytes) \in Semis(m)
  BY <1>4, <1>6 DEF Semis
<1>8. ASSUME NEW i \in 1 .. m, NEW k \in 1 .. SemiblockSize
      PROVE  Semiblocks(bytes)[i][k] = bytes[(i - 1) * SemiblockSize + k]
  <2>1. Semiblocks(bytes)[i] = Semiblock(bytes, i)
    BY <1>4
  <2>. QED
    BY <2>1 DEF Semiblock
<1>. QED
  BY <1>7, <1>8

LEMMA SemiblocksOfBytes ==
  ASSUME NEW m \in Nat, NEW s \in Semis(m)
  PROVE  Semiblocks(Bytes(s, m)) = s
<1> DEFINE b == Bytes(s, m)
<1>1. /\ b \in [1 .. m * SemiblockSize -> Byte]
      /\ \A i \in 1 .. m, k \in 1 .. SemiblockSize : b[(i - 1) * SemiblockSize + k] = s[i][k]
  BY BytesOf
<1> HIDE DEF b
<1>2. /\ Semiblocks(b) \in Semis(m)
      /\ \A i \in 1 .. m, k \in 1 .. SemiblockSize :
           Semiblocks(b)[i][k] = b[(i - 1) * SemiblockSize + k]
  BY <1>1, SemiblocksOf
<1>3. ASSUME NEW i \in 1 .. m PROVE Semiblocks(b)[i] = s[i]
  <2>1. /\ Semiblocks(b)[i] \in [1 .. SemiblockSize -> Byte]
        /\ s[i] \in [1 .. SemiblockSize -> Byte]
    BY <1>2 DEF Semis, Semi
  <2>2. \A k \in 1 .. SemiblockSize : Semiblocks(b)[i][k] = s[i][k]
    BY <1>1, <1>2
  <2> DEFINE D == 1 .. SemiblockSize
             f == Semiblocks(b)[i]
             g == s[i]
  <2>3. f \in [D -> Byte] /\ g \in [D -> Byte] /\ \A k \in D : f[k] = g[k]
    BY <2>1, <2>2
  <2> HIDE DEF D, f, g
  <2>4. f = g
    BY <2>3, SameFunction
  <2>. QED
    BY <2>4 DEF f, g
<1>4. Semiblocks(b) = s
  <2>1. Semiblocks(b) \in [1 .. m -> Semi] /\ s \in [1 .. m -> Semi]
    BY <1>2 DEF Semis
  <2>. QED
    BY <1>3, <2>1, SameFunction
<1>. QED
  BY <1>4 DEF b

LEMMA BytesOfSemiblocks ==
  ASSUME NEW m \in Nat, NEW bytes \in [1 .. m * SemiblockSize -> Byte]
  PROVE  Bytes(Semiblocks(bytes), m) = bytes
<1> DEFINE s == Semiblocks(bytes)
<1>1. /\ s \in Semis(m)
      /\ \A i \in 1 .. m, k \in 1 .. SemiblockSize : s[i][k] = bytes[(i - 1) * SemiblockSize + k]
  BY SemiblocksOf
<1> HIDE DEF s
<1>2. /\ Bytes(s, m) \in [1 .. m * SemiblockSize -> Byte]
      /\ \A i \in 1 .. m, k \in 1 .. SemiblockSize :
           Bytes(s, m)[(i - 1) * SemiblockSize + k] = s[i][k]
  BY <1>1, BytesOf
<1>3. ASSUME NEW j \in 1 .. m * SemiblockSize PROVE Bytes(s, m)[j] = bytes[j]
  <2> DEFINE i == ((j - 1) \div SemiblockSize) + 1
             k == ((j - 1) % SemiblockSize) + 1
  <2>1. /\ i \in 1 .. m /\ k \in 1 .. SemiblockSize
        /\ ((j - 1) \div SemiblockSize) * SemiblockSize + k = j
    BY PlaceOfOctet
  <2>2. i - 1 = (j - 1) \div SemiblockSize
    <3>1. (j - 1) \div SemiblockSize \in Int
      BY Sizes
    <3>. QED
      BY <3>1
  <2> HIDE DEF i, k
  <2>3. (i - 1) * SemiblockSize + k = j
    BY <2>1, <2>2
  <2>. QED
    BY <1>1, <1>2, <2>1, <2>3
<1>4. Bytes(s, m) = bytes
  <2> DEFINE D == 1 .. m * SemiblockSize
             f == Bytes(s, m)
             g == bytes
  <2>1. f \in [D -> Byte] /\ g \in [D -> Byte] /\ \A j \in D : f[j] = g[j]
    BY <1>2, <1>3
  <2> HIDE DEF D, f, g
  <2>2. f = g
    BY <2>1, SameFunction
  <2>. QED
    BY <2>2 DEF f, g
<1>. QED
  BY <1>4 DEF s

IsJoin(c, p, q, f, g) ==
  /\ c \in [1 .. p + q -> Byte] /\ Len(c) = p + q
  /\ \A k \in 1 .. p : c[k] = f[k]
  /\ \A k \in 1 .. q : c[p + k] = g[k]

LEMMA Joined ==
  ASSUME NEW p \in Nat, NEW q \in Nat, NEW f \in [1 .. p -> Byte], NEW g \in [1 .. q -> Byte]
  PROVE  IsJoin(f \o g, p, q, f, g)
<1>1. f \in Seq(Byte) /\ g \in Seq(Byte) /\ Len(f) = p /\ Len(g) = q
  OBVIOUS
<1> DEFINE c == f \o g
<1>2. /\ c \in Seq(Byte) /\ Len(c) = p + q
      /\ \A k \in 1 .. p + q : c[k] = IF k <= p THEN f[k] ELSE g[k - p]
  BY <1>1, ConcatProperties
<1> HIDE DEF c
<1>3. c \in [1 .. p + q -> Byte]
  BY <1>2
<1>4. \A k \in 1 .. p : c[k] = f[k]
  BY <1>2
<1>5. \A k \in 1 .. q : c[p + k] = g[k]
  <2> TAKE k \in 1 .. q
  <2>1. p + k \in 1 .. p + q /\ ~(p + k <= p) /\ (p + k) - p = k
    OBVIOUS
  <2>. QED
    BY <1>2, <2>1
<1>. QED
  BY <1>2, <1>3, <1>4, <1>5, Zenon DEF c, IsJoin

(* The output of a wrap, and the a and r an unwrap begins with.            *)
Flat(x, m) == x[1] \o Bytes(x[2], m)
Closing(bytes) == <<Semiblock(bytes, 1), Tail(Semiblocks(bytes))>>

LEMMA OneMore ==
  ASSUME NEW m \in Nat
  PROVE  /\ m * SemiblockSize \in Nat /\ (m + 1) * SemiblockSize \in Nat
         /\ (m + 1) * SemiblockSize = SemiblockSize + m * SemiblockSize
         /\ \A i \in 1 .. m, k \in 1 .. SemiblockSize :
              SemiblockSize + ((i - 1) * SemiblockSize + k) = i * SemiblockSize + k
<1>1. SemiblockSize \in Nat
  BY Sizes
<1>2. m * SemiblockSize \in Nat /\ (m + 1) * SemiblockSize = SemiblockSize + m * SemiblockSize
  BY <1>1
<1>3. \A i \in Nat : i * SemiblockSize \in Nat /\ (i - 1) * SemiblockSize = i * SemiblockSize - SemiblockSize
  BY <1>1
<1>4. ASSUME NEW i \in 1 .. m, NEW k \in 1 .. SemiblockSize
      PROVE  SemiblockSize + ((i - 1) * SemiblockSize + k) = i * SemiblockSize + k
  BY <1>1, <1>3
<1>. QED
  BY <1>1, <1>2, <1>4

LEMMA FlatOf ==
  ASSUME NEW m \in Nat, NEW x \in State(m)
  PROVE  /\ Flat(x, m) \in [1 .. (m + 1) * SemiblockSize -> Byte]
         /\ \A k \in 1 .. SemiblockSize : Flat(x, m)[k] = x[1][k]
         /\ \A k \in 1 .. m * SemiblockSize : Flat(x, m)[SemiblockSize + k] = Bytes(x[2], m)[k]
<1> DEFINE f == x[1]
           g == Bytes(x[2], m)
<1>1. f \in [1 .. SemiblockSize -> Byte] /\ x[2] \in Semis(m)
  BY DEF State, Semi
<1>2. g \in [1 .. m * SemiblockSize -> Byte]
  BY <1>1, BytesOf
<1>3. SemiblockSize \in Nat /\ m * SemiblockSize \in Nat
  BY Sizes
<1> HIDE DEF f, g
<1>4. /\ f \o g \in [1 .. SemiblockSize + m * SemiblockSize -> Byte]
      /\ \A k \in 1 .. SemiblockSize : (f \o g)[k] = f[k]
      /\ \A k \in 1 .. m * SemiblockSize : (f \o g)[SemiblockSize + k] = g[k]
  <2>1. IsJoin(f \o g, SemiblockSize, m * SemiblockSize, f, g)
    BY <1>1, <1>2, <1>3, Joined, Zenon
  <2>. QED
    BY <2>1, Zenon DEF IsJoin
<1>. QED
  BY <1>4, OneMore DEF f, g, Flat

LEMMA ClosingOf ==
  ASSUME NEW m \in Nat, NEW bytes \in [1 .. (m + 1) * SemiblockSize -> Byte]
  PROVE  /\ Closing(bytes) \in State(m)
         /\ \A k \in 1 .. SemiblockSize : Closing(bytes)[1][k] = bytes[k]
         /\ \A i \in 1 .. m, k \in 1 .. SemiblockSize :
              Closing(bytes)[2][i][k] = bytes[i * SemiblockSize + k]
<1> DEFINE s == Semiblocks(bytes)
           t == Tail(s)
<1>1. m + 1 \in Nat
  OBVIOUS
<1>2. /\ s \in Semis(m + 1)
      /\ \A i \in 1 .. m + 1, k \in 1 .. SemiblockSize : s[i][k] = bytes[(i - 1) * SemiblockSize + k]
  BY <1>1, SemiblocksOf
<1> HIDE DEF s
<1>3. s \in Seq(Semi) /\ Len(s) = m + 1 /\ s # << >>
  BY <1>1, <1>2 DEF Semis
<1>4. t \in Seq(Semi) /\ Len(t) = m /\ \A i \in 1 .. m : t[i] = s[i + 1]
  BY <1>3, HeadTailProperties
<1> HIDE DEF t
<1>5. t \in Semis(m)
  BY <1>4 DEF Semis
<1>6. ASSUME NEW i \in 1 .. m, NEW k \in 1 .. SemiblockSize
      PROVE  t[i][k] = bytes[i * SemiblockSize + k]
  <2>1. i + 1 \in 1 .. m + 1 /\ (i + 1) - 1 = i
    OBVIOUS
  <2>. QED
    BY <1>2, <1>4, <2>1
<1>7. /\ Semiblock(bytes, 1) \in Semi
      /\ \A k \in 1 .. SemiblockSize : Semiblock(bytes, 1)[k] = bytes[k]
  <2>1. SemiblockSize \in Nat /\ \A k \in 1 .. SemiblockSize : (1 - 1) * SemiblockSize + k = k
    BY Sizes
  <2>2. \A k \in 1 .. SemiblockSize : k \in 1 .. (m + 1) * SemiblockSize
    BY <2>1, OneMore
  <2>. QED
    BY <2>1, <2>2 DEF Semiblock, Semi
<1>. QED
  BY <1>5, <1>6, <1>7 DEF s, t, Closing, State

LEMMA ClosingOfFlat ==
  ASSUME NEW m \in Nat, NEW x \in State(m)
  PROVE  Closing(Flat(x, m)) = x
<1> DEFINE b == Flat(x, m)
           y == Closing(b)
<1>1. /\ b \in [1 .. (m + 1) * SemiblockSize -> Byte]
      /\ \A k \in 1 .. SemiblockSize : b[k] = x[1][k]
      /\ \A k \in 1 .. m * SemiblockSize : b[SemiblockSize + k] = Bytes(x[2], m)[k]
  BY FlatOf
<1> HIDE DEF b
<1>2. /\ y \in State(m)
      /\ \A k \in 1 .. SemiblockSize : y[1][k] = b[k]
      /\ \A i \in 1 .. m, k \in 1 .. SemiblockSize : y[2][i][k] = b[i * SemiblockSize + k]
  BY <1>1, ClosingOf
<1> HIDE DEF y
<1>3. y = <<y[1], y[2]>> /\ y[1] \in Semi /\ y[2] \in Semis(m)
  BY <1>2 DEF State
<1>4. x = <<x[1], x[2]>> /\ x[1] \in Semi /\ x[2] \in Semis(m)
  BY DEF State
<1>5. y[1] = x[1]
  <2> DEFINE D == 1 .. SemiblockSize
             f == y[1]
             g == x[1]
  <2>1. f \in [D -> Byte] /\ g \in [D -> Byte] /\ \A k \in D : f[k] = g[k]
    BY <1>1, <1>2, <1>3, <1>4 DEF Semi
  <2> HIDE DEF D, f, g
  <2>2. f = g
    BY <2>1, SameFunction
  <2>. QED
    BY <2>2 DEF f, g
<1>6. ASSUME NEW i \in 1 .. m PROVE y[2][i] = x[2][i]
  <2> DEFINE D == 1 .. SemiblockSize
             f == y[2][i]
             g == x[2][i]
  <2>1. \A k \in D : f[k] = g[k]
    <3> TAKE k \in D
    <3> DEFINE j == (i - 1) * SemiblockSize + k
    <3>1. j \in 1 .. m * SemiblockSize
      BY OctetAtPlace DEF PlaceIsExact
    <3>2. SemiblockSize + j = i * SemiblockSize + k
      BY OneMore
    <3>3. Bytes(x[2], m)[j] = x[2][i][k]
      BY <1>4, BytesOf
    <3> HIDE DEF j
    <3>. QED
      BY <1>1, <1>2, <3>1, <3>2, <3>3
  <2>2. f \in [D -> Byte] /\ g \in [D -> Byte]
    BY <1>3, <1>4 DEF Semi, Semis
  <2> HIDE DEF D, f, g
  <2>3. f = g
    BY <2>1, <2>2, SameFunction
  <2>. QED
    BY <2>3 DEF f, g
<1>7. y[2] = x[2]
  <2> DEFINE D == 1 .. m
             f == y[2]
             g == x[2]
  <2>1. f \in [D -> Semi] /\ g \in [D -> Semi] /\ \A i \in D : f[i] = g[i]
    BY <1>3, <1>4, <1>6 DEF Semis
  <2> HIDE DEF D, f, g
  <2>2. f = g
    BY <2>1, SameFunction
  <2>. QED
    BY <2>2 DEF f, g
<1>8. y = x
  BY <1>3, <1>4, <1>5, <1>7
<1>. QED
  BY <1>8 DEF y, b

LEMMA FlatOfClosing ==
  ASSUME NEW m \in Nat, NEW bytes \in [1 .. (m + 1) * SemiblockSize -> Byte]
  PROVE  Flat(Closing(bytes), m) = bytes
<1> DEFINE x == Closing(bytes)
           D == 1 .. (m + 1) * SemiblockSize
           f == Flat(x, m)
           g == bytes
<1>1. /\ x \in State(m)
      /\ \A k \in 1 .. SemiblockSize : x[1][k] = g[k]
      /\ \A i \in 1 .. m, k \in 1 .. SemiblockSize : x[2][i][k] = g[i * SemiblockSize + k]
  BY ClosingOf
<1> HIDE DEF x
<1>2. x[2] \in Semis(m)
  BY <1>1 DEF State
<1>3. /\ f \in [D -> Byte]
      /\ \A k \in 1 .. SemiblockSize : f[k] = x[1][k]
      /\ \A k \in 1 .. m * SemiblockSize : f[SemiblockSize + k] = Bytes(x[2], m)[k]
  BY <1>1, FlatOf
<1> HIDE DEF f, g
<1>4. ASSUME NEW j \in 1 .. m * SemiblockSize
      PROVE  f[SemiblockSize + j] = g[SemiblockSize + j]
  <2> DEFINE i == ((j - 1) \div SemiblockSize) + 1
             k == ((j - 1) % SemiblockSize) + 1
  <2>1. /\ i \in 1 .. m /\ k \in 1 .. SemiblockSize
        /\ ((j - 1) \div SemiblockSize) * SemiblockSize + k = j
    BY PlaceOfOctet
  <2>2. i - 1 = (j - 1) \div SemiblockSize
    <3>1. (j - 1) \div SemiblockSize \in Int
      BY Sizes
    <3>. QED
      BY <3>1
  <2> HIDE DEF i, k
  <2>3. (i - 1) * SemiblockSize + k = j
    BY <2>1, <2>2
  <2>4. SemiblockSize + j = i * SemiblockSize + k
    BY <2>1, <2>3, OneMore
  <2>5. Bytes(x[2], m)[j] = x[2][i][k]
    BY <1>2, <2>1, <2>3, BytesOf
  <2>6. x[2][i][k] = g[i * SemiblockSize + k]
    BY <1>1, <2>1
  <2>7. f[SemiblockSize + j] = Bytes(x[2], m)[j]
    BY <1>3
  <2>. QED
    BY <2>4, <2>5, <2>6, <2>7
<1>5. ASSUME NEW j \in D PROVE f[j] = g[j]
  <2>1. SemiblockSize \in Nat /\ m * SemiblockSize \in Nat /\ j \in 1 .. SemiblockSize + m * SemiblockSize
    BY OneMore, Sizes
  <2>2. CASE j <= SemiblockSize
    <3>1. j \in 1 .. SemiblockSize
      BY <2>1, <2>2
    <3>. QED
      BY <1>1, <1>3, <3>1
  <2>3. CASE ~(j <= SemiblockSize)
    <3>1. j - SemiblockSize \in 1 .. m * SemiblockSize /\ SemiblockSize + (j - SemiblockSize) = j
      BY <2>1, <2>3
    <3>2. f[SemiblockSize + (j - SemiblockSize)] = g[SemiblockSize + (j - SemiblockSize)]
      BY <1>4, <3>1
    <3>. QED
      BY <3>1, <3>2
  <2>. QED
    BY <2>2, <2>3
<1>6. g \in [D -> Byte]
  BY DEF g
<1> HIDE DEF D
<1>7. f = g
  BY <1>3, <1>5, <1>6, SameFunction
<1>. QED
  BY <1>7 DEF f, g, x

-----------------------------------------------------------------------------
(* The a and r a wrap begins with, and what an unwrap reads from them.     *)

Opening(md, v, bytes) ==
  <<IF md = "KW" THEN v ELSE v \o ToBytes(Len(bytes), LengthSize), Semiblocks(Padded(bytes))>>

(* A plaintext of m semiblocks that a wrap accepts.                        *)
PlainOk(md, v, bytes, m) ==
  /\ m \in Nat \ {0} /\ v \in Seq(Byte) /\ bytes \in Seq(Byte)
  /\ (m - 1) * SemiblockSize < Len(bytes) /\ Len(bytes) <= m * SemiblockSize
  /\ md = "KW" => Len(v) = SemiblockSize /\ Len(bytes) = m * SemiblockSize /\ m >= 2
  /\ md # "KW" => Len(v) = Half /\ Len(bytes) <= LengthLimit

Reads(md, v, x, m, bytes) ==
  LET l == FromBytes(SubSeq(x[1], Half + 1, SemiblockSize))
  IN  IF md = "KW" THEN x[1] = v /\ bytes = Bytes(x[2], m)
      ELSE /\ SubSeq(x[1], 1, Half) = v
           /\ (m - 1) * SemiblockSize < l /\ l <= m * SemiblockSize
           /\ \A k \in 1 .. m * SemiblockSize : k > l => Bytes(x[2], m)[k] = 0
           /\ bytes = SubSeq(Bytes(x[2], m), 1, l)

LEMMA PaddedOf ==
  ASSUME NEW m \in Nat \ {0}, NEW bytes \in Seq(Byte),
         (m - 1) * SemiblockSize < Len(bytes), Len(bytes) <= m * SemiblockSize
  PROVE  /\ Padded(bytes) \in [1 .. m * SemiblockSize -> Byte]
         /\ \A k \in 1 .. Len(bytes) : Padded(bytes)[k] = bytes[k]
         /\ \A k \in 1 .. m * SemiblockSize : k > Len(bytes) => Padded(bytes)[k] = 0
<1> DEFINE S == SemiblockSize
           l == Len(bytes)
           e == (l - 1) - (m - 1) * S
<1>1. S \in Nat \ {0} /\ l \in Nat /\ m * S \in Nat /\ (m - 1) * S = m * S - S /\ S * m = m * S
  BY Sizes
<1>2. e \in 0 .. S - 1 /\ (l + S) - 1 = S * m + e
  BY <1>1
<1>3. ((l + S) - 1) \div S = m
  <2> HIDE DEF e, S, l
  <2>1. (S * m + e) \div S = m
    BY <1>1, <1>2
  <2>. QED
    BY <1>2, <2>1
<1>4. l + S - 1 = (l + S) - 1
  BY <1>1
<1>5. Padded(bytes) = [k \in 1 .. m * S |-> IF k <= l THEN bytes[k] ELSE 0]
  BY <1>3, <1>4 DEF Padded
<1>6. 0 \in Byte /\ \A k \in 1 .. l : bytes[k] \in Byte
  BY Sizes DEF Byte
<1>7. \A k \in 1 .. m * S : k <= l => k \in 1 .. l
  BY <1>1
<1>8. \A k \in 1 .. l : k \in 1 .. m * S /\ k <= l
  BY <1>1
<1>9. \A k \in 1 .. m * S : k > l => ~(k <= l)
  BY <1>1
<1> HIDE DEF S, l
<1>10. Padded(bytes) \in [1 .. m * S -> Byte]
  BY <1>5, <1>6, <1>7
<1>11. \A k \in 1 .. l : Padded(bytes)[k] = bytes[k]
  BY <1>5, <1>8
<1>12. \A k \in 1 .. m * S : k > l => Padded(bytes)[k] = 0
  BY <1>5, <1>9
<1>. QED
  BY <1>10, <1>11, <1>12 DEF S, l

(* The two halves of a.                                                    *)
LEMMA HalvesOf ==
  ASSUME NEW s \in Semi
  PROVE  /\ SubSeq(s, 1, Half) \in [1 .. Half -> Byte]
         /\ SubSeq(s, Half + 1, SemiblockSize) \in [1 .. LengthSize -> Byte]
         /\ \A k \in 1 .. Half : SubSeq(s, 1, Half)[k] = s[k]
         /\ \A k \in 1 .. LengthSize : SubSeq(s, Half + 1, SemiblockSize)[k] = s[Half + k]
<1>1. /\ Half \in Nat /\ LengthSize \in Nat /\ SemiblockSize \in Nat
      /\ Half + LengthSize = SemiblockSize
  BY Sizes
<1>2. \A k \in 1 .. SemiblockSize : s[k] \in Byte
  BY DEF Semi
<1> DEFINE f == SubSeq(s, 1, Half)
           g == SubSeq(s, Half + 1, SemiblockSize)
<1>3. \A k \in 1 .. Half : s[k] \in Byte
  BY <1>1, <1>2
<1>4. \A k \in Half + 1 .. SemiblockSize : s[k] \in Byte
  BY <1>1, <1>2
<1>5. /\ f \in Seq(Byte) /\ Len(f) = IF 1 <= Half THEN Half - 1 + 1 ELSE 0
      /\ \A k \in 1 .. Half - 1 + 1 : f[k] = s[1 + k - 1]
  BY <1>1, <1>3, SubSeqProperties
<1>6. /\ g \in Seq(Byte)
      /\ Len(g) = IF Half + 1 <= SemiblockSize THEN SemiblockSize - (Half + 1) + 1 ELSE 0
      /\ \A k \in 1 .. SemiblockSize - (Half + 1) + 1 : g[k] = s[(Half + 1) + k - 1]
  <2>1. Half + 1 \in Int /\ SemiblockSize \in Int
    BY <1>1
  <2>. QED
    BY <1>4, <2>1, SubSeqProperties
<1> HIDE DEF f, g
<1>7. Len(f) = Half /\ Half - 1 + 1 = Half
  BY <1>1, <1>5
<1>8. Len(g) = LengthSize /\ SemiblockSize - (Half + 1) + 1 = LengthSize
  BY <1>1, <1>6
<1>9. \A k \in 1 .. Half : f[k] = s[k]
  <2>1. \A k \in 1 .. Half : 1 + k - 1 = k
    BY <1>1
  <2>. QED
    BY <1>5, <1>7, <2>1
<1>10. \A k \in 1 .. LengthSize : g[k] = s[Half + k]
  <2>1. \A k \in 1 .. LengthSize : (Half + 1) + k - 1 = Half + k
    BY <1>1
  <2>. QED
    BY <1>6, <1>8, <2>1
<1>11. f \in [1 .. Half -> Byte] /\ g \in [1 .. LengthSize -> Byte]
  BY <1>5, <1>6, <1>7, <1>8
<1>. QED
  BY <1>9, <1>10, <1>11 DEF f, g

(* Half a semiblock and a length make one, which gives both back.          *)
LEMMA AlternativeInitialValue ==
  ASSUME NEW v \in [1 .. Half -> Byte], NEW w \in [1 .. LengthSize -> Byte]
  PROVE  /\ v \o w \in Semi
         /\ SubSeq(v \o w, 1, Half) = v
         /\ SubSeq(v \o w, Half + 1, SemiblockSize) = w
<1> DEFINE s == v \o w
           f == SubSeq(s, 1, Half)
           g == SubSeq(s, Half + 1, SemiblockSize)
           vv == v
           ww == w
           P == 1 .. Half
           Q == 1 .. LengthSize
<1>1. Half \in Nat /\ LengthSize \in Nat /\ Half + LengthSize = SemiblockSize
  BY Sizes
<1>2. /\ s \in [1 .. SemiblockSize -> Byte]
      /\ \A k \in P : s[k] = vv[k]
      /\ \A k \in Q : s[Half + k] = ww[k]
  <2>1. IsJoin(s, Half, LengthSize, vv, ww)
    BY <1>1, Joined, Zenon
  <2>. QED
    BY <1>1, <2>1 DEF IsJoin
<1>3. s \in Semi
  BY <1>2 DEF Semi
<1>4. vv \in [P -> Byte] /\ ww \in [Q -> Byte]
  OBVIOUS
<1> HIDE DEF s, vv, ww
<1>5. /\ f \in [P -> Byte] /\ g \in [Q -> Byte]
      /\ \A k \in P : f[k] = s[k]
      /\ \A k \in Q : g[k] = s[Half + k]
  BY <1>3, HalvesOf
<1> HIDE DEF f, g, P, Q
<1>6. (\A k \in P : f[k] = vv[k]) /\ \A k \in Q : g[k] = ww[k]
  BY <1>2, <1>5
<1>7. f = vv
  BY <1>4, <1>5, <1>6, SameFunction
<1>8. g = ww
  BY <1>4, <1>5, <1>6, SameFunction
<1>. QED
  BY <1>3, <1>7, <1>8 DEF f, g, s, vv, ww

(* A semiblock is its two halves.                                          *)
LEMMA HalvesMake ==
  ASSUME NEW s \in Semi
  PROVE  SubSeq(s, 1, Half) \o SubSeq(s, Half + 1, SemiblockSize) = s
<1> DEFINE v == SubSeq(s, 1, Half)
           w == SubSeq(s, Half + 1, SemiblockSize)
           c == v \o w
           ss == s
           D == 1 .. SemiblockSize
<1>1. Half \in Nat /\ LengthSize \in Nat /\ Half + LengthSize = SemiblockSize
  BY Sizes
<1>2. /\ v \in [1 .. Half -> Byte] /\ w \in [1 .. LengthSize -> Byte]
      /\ \A k \in 1 .. Half : v[k] = ss[k]
      /\ \A k \in 1 .. LengthSize : w[k] = ss[Half + k]
  BY HalvesOf
<1>3. ss \in [D -> Byte]
  BY DEF Semi
<1> HIDE DEF v, w, ss
<1>4. /\ c \in [D -> Byte]
      /\ \A k \in 1 .. Half : c[k] = v[k]
      /\ \A k \in 1 .. LengthSize : c[Half + k] = w[k]
  <2>1. IsJoin(c, Half, LengthSize, v, w)
    BY <1>1, <1>2, Joined, Zenon
  <2> HIDE DEF c
  <2>. QED
    BY <1>1, <2>1 DEF IsJoin
<1> HIDE DEF c
<1>5. ASSUME NEW k \in D PROVE c[k] = ss[k]
  <2>1. CASE k <= Half
    <3>1. k \in 1 .. Half
      BY <1>1, <2>1
    <3>. QED
      BY <1>2, <1>4, <3>1
  <2>2. CASE ~(k <= Half)
    <3>1. k - Half \in 1 .. LengthSize /\ Half + (k - Half) = k
      BY <1>1, <2>2
    <3>2. c[Half + (k - Half)] = ss[Half + (k - Half)]
      BY <1>2, <1>4, <3>1
    <3>. QED
      BY <3>1, <3>2
  <2>. QED
    BY <2>1, <2>2
<1> HIDE DEF D
<1>6. c = ss
  BY <1>3, <1>4, <1>5, SameFunction
<1>. QED
  BY <1>6 DEF c, ss, v, w

LEMMA PrefixOf ==
  ASSUME NEW p \in Nat, NEW l \in 0 .. p, NEW b \in [1 .. p -> Byte]
  PROVE  /\ SubSeq(b, 1, l) \in Seq(Byte) /\ Len(SubSeq(b, 1, l)) = l
         /\ SubSeq(b, 1, l) \in [1 .. l -> Byte]
         /\ \A k \in 1 .. l : SubSeq(b, 1, l)[k] = b[k]
<1> DEFINE f == SubSeq(b, 1, l)
<1>1. l \in Nat /\ \A k \in 1 .. l : b[k] \in Byte
  OBVIOUS
<1>2. /\ f \in Seq(Byte) /\ Len(f) = IF 1 <= l THEN l - 1 + 1 ELSE 0
      /\ \A k \in 1 .. l - 1 + 1 : f[k] = b[1 + k - 1]
  BY <1>1, SubSeqProperties
<1> HIDE DEF f
<1>3. Len(f) = l /\ l - 1 + 1 = l /\ \A k \in 1 .. l : 1 + k - 1 = k
  BY <1>1, <1>2
<1>4. \A k \in 1 .. l : f[k] = b[k]
  BY <1>2, <1>3
<1>5. f \in [1 .. l -> Byte]
  BY <1>2, <1>3
<1>. QED
  BY <1>2, <1>3, <1>4, <1>5 DEF f

(* A whole plaintext needs no padding.                                     *)
LEMMA PaddedWhole ==
  ASSUME NEW m \in Nat \ {0}, NEW bytes \in [1 .. m * SemiblockSize -> Byte]
  PROVE  Padded(bytes) = bytes
<1> DEFINE f == Padded(bytes)
           g == bytes
           D == 1 .. m * SemiblockSize
<1>1. m * SemiblockSize \in Nat /\ (m - 1) * SemiblockSize < m * SemiblockSize
  <2>1. SemiblockSize \in Nat \ {0} /\ (m - 1) * SemiblockSize = m * SemiblockSize - SemiblockSize
    BY Sizes
  <2>2. m * SemiblockSize \in Nat
    BY <2>1
  <2>. QED
    BY <2>1, <2>2
<1>2. bytes \in Seq(Byte) /\ Len(bytes) = m * SemiblockSize
  BY <1>1
<1>3. f \in [D -> Byte] /\ \A k \in D : f[k] = g[k]
  BY <1>1, <1>2, PaddedOf
<1>4. g \in [D -> Byte]
  OBVIOUS
<1> HIDE DEF f, g, D
<1>5. f = g
  BY <1>3, <1>4, SameFunction
<1>. QED
  BY <1>5 DEF f, g

LEMMA OpeningReads ==
  ASSUME NEW md, NEW v, NEW bytes, NEW m, PlainOk(md, v, bytes, m)
  PROVE  Opening(md, v, bytes) \in State(m) /\ Reads(md, v, Opening(md, v, bytes), m, bytes)
<1> DEFINE x == Opening(md, v, bytes)
           p == Padded(bytes)
           l == Len(bytes)
<1>1. /\ m \in Nat \ {0} /\ v \in Seq(Byte) /\ bytes \in Seq(Byte) /\ l \in Nat
      /\ (m - 1) * SemiblockSize < l /\ l <= m * SemiblockSize
  BY DEF PlainOk
<1>2. /\ p \in [1 .. m * SemiblockSize -> Byte]
      /\ \A k \in 1 .. l : p[k] = bytes[k]
      /\ \A k \in 1 .. m * SemiblockSize : k > l => p[k] = 0
  BY <1>1, PaddedOf
<1> HIDE DEF p
<1>3. x[2] = Semiblocks(p)
  BY DEF Opening, p
<1>4. x[2] \in Semis(m) /\ Bytes(x[2], m) = p
  BY <1>1, <1>2, <1>3, SemiblocksOf, BytesOfSemiblocks
<1>5. x = <<x[1], x[2]>>
  BY DEF Opening
<1>6. CASE md = "KW"
  <2>1. x[1] = v
    BY <1>6 DEF Opening
  <2>2. v \in Semi
    BY <1>1, <1>6 DEF PlainOk, Semi
  <2>3. bytes \in [1 .. m * SemiblockSize -> Byte]
    BY <1>1, <1>6 DEF PlainOk
  <2>4. p = bytes
    BY <1>1, <2>3, PaddedWhole DEF p
  <2>5. x \in State(m)
    BY <1>4, <1>5, <2>1, <2>2 DEF State
  <2>6. Reads(md, v, x, m, bytes)
    BY <1>4, <1>6, <2>1, <2>4 DEF Reads
  <2>. QED
    BY <2>5, <2>6
<1>7. CASE md # "KW"
  <2> DEFINE w == ToBytes(l, LengthSize)
  <2>1. x[1] = v \o w
    BY <1>7 DEF Opening
  <2>2. v \in [1 .. Half -> Byte] /\ l <= LengthLimit
    BY <1>1, <1>7 DEF PlainOk
  <2>3. LengthSize \in 0 .. SemiblockSize /\ Power[LengthSize] \in Nat
    BY Sizes, PowerValues
  <2>4. l \in 0 .. Power[LengthSize] - 1
    BY <1>1, <2>2, <2>3 DEF LengthLimit
  <2>5. w \in [1 .. LengthSize -> Byte] /\ FromBytes(w) = l
    BY <1>1, <2>3, <2>4, OctetsOfNumber, FromBytesIsExact
  <2> HIDE DEF w, l, x
  <2>6. /\ v \o w \in Semi /\ SubSeq(v \o w, 1, Half) = v
        /\ SubSeq(v \o w, Half + 1, SemiblockSize) = w
    BY <2>2, <2>5, AlternativeInitialValue
  <2>7. x \in State(m)
    BY <1>4, <1>5, <2>1, <2>6 DEF State
  <2>8. SubSeq(p, 1, l) = bytes
    <3> DEFINE f == SubSeq(p, 1, l)
               g == bytes
               D == 1 .. l
    <3>1. m * SemiblockSize \in Nat /\ l \in 0 .. m * SemiblockSize
      BY <1>1, Sizes
    <3>2. f \in [D -> Byte] /\ \A k \in D : f[k] = p[k]
      BY <1>2, <3>1, PrefixOf
    <3>3. g \in [D -> Byte]
      BY <1>1 DEF l
    <3> HIDE DEF f, g
    <3>4. \A k \in D : f[k] = g[k]
      BY <1>2, <3>2 DEF g
    <3> HIDE DEF D
    <3>5. f = g
      BY <3>2, <3>3, <3>4, SameFunction
    <3>. QED
      BY <3>5 DEF f, g
  <2>9. FromBytes(SubSeq(x[1], Half + 1, SemiblockSize)) = l /\ SubSeq(x[1], 1, Half) = v
    BY <2>1, <2>5, <2>6
  <2>10. Reads(md, v, x, m, bytes)
    BY <1>1, <1>2, <1>4, <1>7, <2>8, <2>9 DEF Reads
  <2>. QED
    BY <2>7, <2>10 DEF x
<1>. QED
  BY <1>6, <1>7

LEMMA ReadsOpening ==
  ASSUME NEW md, NEW v \in Seq(Byte), NEW m \in Nat \ {0}, NEW x \in State(m), NEW bytes,
         md = "KW" => m >= 2, Reads(md, v, x, m, bytes)
  PROVE  PlainOk(md, v, bytes, m) /\ Opening(md, v, bytes) = x
<1> DEFINE p == Bytes(x[2], m)
<1>1. x = <<x[1], x[2]>> /\ x[1] \in Semi /\ x[2] \in Semis(m)
  BY DEF State
<1>2. p \in [1 .. m * SemiblockSize -> Byte] /\ Semiblocks(p) = x[2]
  BY <1>1, BytesOf, SemiblocksOfBytes
<1>3. /\ m * SemiblockSize \in Nat /\ SemiblockSize \in Nat \ {0}
      /\ (m - 1) * SemiblockSize = m * SemiblockSize - SemiblockSize
  BY Sizes
<1>4. p \in Seq(Byte) /\ Len(p) = m * SemiblockSize
  BY <1>2, <1>3
<1> HIDE DEF p
<1>5. CASE md = "KW"
  <2>1. x[1] = v /\ bytes = p
    BY <1>5 DEF Reads, p
  <2>2. Len(v) = SemiblockSize
    BY <1>1, <1>3, <2>1 DEF Semi
  <2>3. PlainOk(md, v, bytes, m)
    BY <1>3, <1>4, <1>5, <2>1, <2>2 DEF PlainOk
  <2>4. Padded(bytes) = p
    BY <1>2, <2>1, PaddedWhole
  <2>. QED
    BY <1>1, <1>2, <1>5, <2>1, <2>3, <2>4 DEF Opening
<1>6. CASE md # "KW"
  <2> DEFINE w == SubSeq(x[1], Half + 1, SemiblockSize)
             l == FromBytes(w)
  <2>1. /\ SubSeq(x[1], 1, Half) = v
        /\ (m - 1) * SemiblockSize < l /\ l <= m * SemiblockSize
        /\ \A k \in 1 .. m * SemiblockSize : k > l => p[k] = 0
        /\ bytes = SubSeq(p, 1, l)
    BY <1>6 DEF Reads, p
  <2>2. v \in [1 .. Half -> Byte] /\ w \in [1 .. LengthSize -> Byte] /\ v \o w = x[1]
    BY <1>1, <2>1, HalvesOf, HalvesMake
  <2> HIDE DEF w
  <2>3. LengthSize \in 0 .. SemiblockSize /\ Power[LengthSize] \in Nat /\ Half \in Nat
    BY Sizes, PowerValues
  <2>4. l \in 0 .. Power[LengthSize] - 1 /\ ToBytes(l, LengthSize) = w
    BY <2>2, <2>3, FromBytesIsExact
  <2> HIDE DEF l
  <2>5. l \in 0 .. m * SemiblockSize /\ l <= LengthLimit /\ l \in Nat
    BY <1>3, <2>1, <2>3, <2>4 DEF LengthLimit
  <2>6. /\ bytes \in Seq(Byte) /\ Len(bytes) = l /\ \A k \in 1 .. l : bytes[k] = p[k]
    BY <1>2, <1>3, <2>1, <2>5, PrefixOf
  <2>7. Len(v) = Half
    BY <2>2, <2>3
  <2>8. PlainOk(md, v, bytes, m)
    BY <1>6, <2>1, <2>5, <2>6, <2>7 DEF PlainOk
  <2>9. Padded(bytes) = p
    <3> DEFINE f == Padded(bytes)
               D == 1 .. m * SemiblockSize
    <3>0. /\ bytes \in Seq(Byte) /\ Len(bytes) = l
          /\ (m - 1) * SemiblockSize < Len(bytes) /\ Len(bytes) <= m * SemiblockSize
      BY <2>1, <2>6
    <3>1. /\ f \in [D -> Byte] /\ \A k \in 1 .. l : f[k] = bytes[k]
          /\ \A k \in D : k > l => f[k] = 0
      BY <3>0, PaddedOf
    <3> HIDE DEF f
    <3>2. ASSUME NEW k \in D PROVE f[k] = p[k]
      <4>1. CASE k > l
        BY <2>1, <3>1, <4>1
      <4>2. CASE ~(k > l)
        <5>1. k \in 1 .. l
          BY <1>3, <2>5, <4>2
        <5>. QED
          BY <2>6, <3>1, <5>1
      <4>. QED
        BY <4>1, <4>2
    <3>3. p \in [D -> Byte]
      BY <1>2
    <3> HIDE DEF D
    <3>4. f = p
      BY <3>1, <3>2, <3>3, SameFunction
    <3>. QED
      BY <3>4 DEF f
  <2>10. Opening(md, v, bytes) = <<v \o w, Semiblocks(p)>>
    BY <1>6, <2>4, <2>6, <2>9 DEF Opening
  <2>. QED
    BY <1>1, <1>2, <2>2, <2>8, <2>10
<1>. QED
  BY <1>5, <1>6

-----------------------------------------------------------------------------
(* The blocks of a call, numbered from 0 in the order of a wrap, as steps  *)
(* that have an inverse.                                                   *)

Single(md, m) == md # "KW" /\ m = 1
Last(md, m) == IF Single(md, m) THEN 1 ELSE Rounds * m
Slot(m, t) == (t % m) + 1
Mixed(md, m, t, s) == IF Single(md, m) THEN s ELSE XorSemi(s, ToBytes(t + 1, SemiblockSize))
Put(s, i, e) == [s EXCEPT ![i] = e]

Forward(md, m, t, x) ==
  LET c == Cipher[<<x[1], x[2][Slot(m, t)]>>]
  IN  <<Mixed(md, m, t, c[1]), Put(x[2], Slot(m, t), c[2])>>

Backward(md, m, t, y) ==
  LET c == Decipher[<<Mixed(md, m, t, y[1]), y[2][Slot(m, t)]>>]
  IN  <<c[1], Put(y[2], Slot(m, t), c[2])>>

LEMMA XorTwice ==
  ASSUME NEW s \in Semi, NEW c \in Semi
  PROVE  XorSemi(s, c) \in Semi /\ XorSemi(XorSemi(s, c), c) = s
<1> DEFINE f == XorSemi(XorSemi(s, c), c)
           g == s
           D == 1 .. SemiblockSize
<1>1. \A k \in D : s[k] \in Byte /\ c[k] \in Byte
  BY DEF Semi
<1>2. \A x, y \in Byte : Xor[<<x, y>>] \in Byte /\ Xor[<<Xor[<<x, y>>], y>>] = x
  BY XorAssumption
<1> DEFINE z == XorSemi(s, c)
<1>3. z \in Semi /\ \A k \in D : z[k] = Xor[<<s[k], c[k]>>]
  BY <1>1, <1>2 DEF XorSemi, Semi
<1>4. f = [k \in D |-> Xor[<<z[k], c[k]>>]]
  BY DEF XorSemi
<1> HIDE DEF z, f
<1>5. f \in [D -> Byte] /\ \A k \in D : f[k] = g[k]
  <2>1. \A k \in D : Xor[<<z[k], c[k]>>] = s[k]
    <3> TAKE k \in D
    <3>1. Xor[<<Xor[<<s[k], c[k]>>], c[k]>>] = s[k]
      BY <1>1, <1>2, Zenon
    <3>2. z[k] = Xor[<<s[k], c[k]>>]
      BY <1>3, Zenon
    <3>. QED
      BY <3>1, <3>2, Zenon
  <2>. QED
    BY <1>1, <1>4, <2>1
<1>6. g \in [D -> Byte]
  BY DEF Semi
<1> HIDE DEF f, g, D
<1>7. f = g
  BY <1>5, <1>6, SameFunction
<1>. QED
  BY <1>3, <1>7 DEF f, g, z

LEMMA MixedTwice ==
  ASSUME NEW md, NEW m, NEW t \in Nat, NEW s \in Semi
  PROVE  Mixed(md, m, t, s) \in Semi /\ Mixed(md, m, t, Mixed(md, m, t, s)) = s
<1>1. t + 1 \in Nat /\ SemiblockSize \in 0 .. SemiblockSize
  BY Sizes
<1>2. ToBytes(t + 1, SemiblockSize) \in Semi
  BY <1>1, OctetsOfNumber DEF Semi
<1>. QED
  BY <1>2, XorTwice DEF Mixed

LEMMA PutTwice ==
  ASSUME NEW m, NEW s \in Semis(m), NEW i \in 1 .. m, NEW e \in Semi
  PROVE  /\ Put(s, i, e) \in Semis(m) /\ Put(s, i, e)[i] = e
         /\ Put(Put(s, i, e), i, s[i]) = s
<1>1. Put(s, i, e) \in Semis(m) /\ Put(s, i, e)[i] = e
  BY DEF Put, Semis
<1> DEFINE f == Put(Put(s, i, e), i, s[i])
           g == s
           D == 1 .. m
<1>2. s[i] \in Semi
  BY DEF Semis
<1>3. f \in [D -> Semi] /\ g \in [D -> Semi] /\ \A j \in D : f[j] = g[j]
  BY <1>2 DEF Put, Semis
<1> HIDE DEF f, g, D
<1>4. f = g
  BY <1>3, SameFunction
<1>. QED
  BY <1>1, <1>4 DEF f, g

LEMMA StepsInvert ==
  ASSUME NEW md, NEW m \in Nat \ {0}, NEW t \in Nat, NEW x \in State(m)
  PROVE  /\ Forward(md, m, t, x) \in State(m) /\ Backward(md, m, t, x) \in State(m)
         /\ Backward(md, m, t, Forward(md, m, t, x)) = x
         /\ Forward(md, m, t, Backward(md, m, t, x)) = x
<1> DEFINE i == Slot(m, t)
           u == x[1]
           s == x[2]
<1>1. i \in 1 .. m
  BY DEF Slot
<1>2. x = <<u, s>> /\ u \in Semi /\ s \in Semis(m) /\ s[i] \in Semi
  BY <1>1 DEF State, Semis
<1> HIDE DEF i, u, s
<1>3. \A b \in Block : /\ b = <<b[1], b[2]>> /\ b[1] \in Semi /\ b[2] \in Semi
                       /\ Cipher[b] \in Block /\ Decipher[b] \in Block
                       /\ Decipher[Cipher[b]] = b /\ Cipher[Decipher[b]] = b
  <2>1. \A b \in Block : b = <<b[1], b[2]>> /\ b[1] \in Semi /\ b[2] \in Semi
    BY DEF Block
  <2>. QED
    BY <2>1, CipherAssumption
<1>4. \A p, q \in Semi : <<p, q>> \in Block
  BY DEF Block
<1>5. Forward(md, m, t, x) \in State(m) /\ Backward(md, m, t, Forward(md, m, t, x)) = x
  <2> DEFINE c == Cipher[<<u, s[i]>>]
             y1 == Mixed(md, m, t, c[1])
             y2 == Put(s, i, c[2])
  <2>1. c \in Block /\ c = <<c[1], c[2]>> /\ c[1] \in Semi /\ c[2] \in Semi
    BY <1>2, <1>3, <1>4
  <2>2. Decipher[c] = <<u, s[i]>>
    BY <1>2, <1>3, <1>4
  <2>3. Forward(md, m, t, x) = <<y1, y2>>
    BY <1>2 DEF Forward, i
  <2> HIDE DEF c
  <2>4. y1 \in Semi /\ Mixed(md, m, t, y1) = c[1]
    BY <2>1, MixedTwice
  <2>5. y2 \in Semis(m) /\ y2[i] = c[2] /\ Put(y2, i, s[i]) = s
    BY <1>1, <1>2, <2>1, PutTwice
  <2> HIDE DEF y1, y2
  <2>6. Decipher[<<Mixed(md, m, t, y1), y2[i]>>] = <<u, s[i]>>
    BY <2>1, <2>2, <2>4, <2>5
  <2>7. Backward(md, m, t, <<y1, y2>>) = <<u, Put(y2, i, s[i])>>
    BY <2>6 DEF Backward, i
  <2>8. <<y1, y2>> \in State(m)
    BY <2>4, <2>5 DEF State
  <2>. QED
    BY <1>2, <2>3, <2>5, <2>7, <2>8
<1>6. Backward(md, m, t, x) \in State(m) /\ Forward(md, m, t, Backward(md, m, t, x)) = x
  <2> DEFINE v == Mixed(md, m, t, u)
             c == Decipher[<<v, s[i]>>]
             y1 == c[1]
             y2 == Put(s, i, c[2])
  <2>1. v \in Semi /\ Mixed(md, m, t, v) = u
    BY <1>2, MixedTwice
  <2>2. Backward(md, m, t, x) = <<y1, y2>>
    BY <1>2 DEF Backward, i
  <2> HIDE DEF v
  <2>3. c \in Block /\ c = <<c[1], c[2]>> /\ c[1] \in Semi /\ c[2] \in Semi
    BY <1>2, <1>3, <1>4, <2>1
  <2>4. Cipher[c] = <<v, s[i]>>
    BY <1>2, <1>3, <1>4, <2>1
  <2> HIDE DEF c
  <2>5. y2 \in Semis(m) /\ y2[i] = c[2] /\ Put(y2, i, s[i]) = s
    BY <1>1, <1>2, <2>3, PutTwice
  <2> HIDE DEF y2
  <2>6. Cipher[<<y1, y2[i]>>] = <<v, s[i]>>
    BY <2>3, <2>4, <2>5
  <2>7. Forward(md, m, t, <<y1, y2>>) = <<Mixed(md, m, t, v), Put(y2, i, s[i])>>
    <3> HIDE DEF y1
    <3>. QED
      BY <2>6 DEF Forward, i
  <2>8. <<y1, y2>> \in State(m)
    BY <2>3, <2>5 DEF State
  <2>. QED
    BY <1>2, <2>1, <2>2, <2>5, <2>7, <2>8
<1>. QED
  BY <1>5, <1>6

(* The values of a and r along a whole wrap.                               *)
Trace(h, md, m) ==
  /\ h \in [0 .. Last(md, m) -> State(m)]
  /\ \A t \in 0 .. Last(md, m) - 1 : h[t + 1] = Forward(md, m, t, h[t])

LEMMA LastBlock ==
  ASSUME NEW md, NEW m \in Nat \ {0}
  PROVE  Last(md, m) \in Nat \ {0}
BY DEF Last, Rounds

LEMMA TraceFrom ==
  ASSUME NEW md, NEW m \in Nat \ {0}, NEW x \in State(m)
  PROVE  \E h : Trace(h, md, m) /\ h[0] = x
<1> DEFINE K == Last(md, m)
           S == State(m)
           step == [i \in 1 .. K |-> [y \in S |-> Forward(md, m, i - 1, y)]]
<1>1. K \in Nat
  BY LastBlock
<1>2. \A t \in Nat, y \in S : Forward(md, m, t, y) \in S
  BY StepsInvert
<1>3. \A i \in 1 .. K : i - 1 \in Nat /\ i - 1 \in 0 .. K
  BY <1>1
<1> HIDE DEF K, S
<1>4. step \in [1 .. K -> [S -> S]]
  BY <1>2, <1>3
<1>5. x \in S
  BY DEF S
<1>6. PICK h : Iterates(h, K, S, x, step)
  <2> HIDE DEF step
  <2>. QED
    BY <1>1, <1>4, <1>5, IterationExists
<1>7. \A i \in 1 .. K : h[i] = Forward(md, m, i - 1, h[i - 1])
  BY <1>3, <1>6 DEF Iterates
<1>8. ASSUME NEW t \in 0 .. K - 1 PROVE h[t + 1] = Forward(md, m, t, h[t])
  <2>1. t + 1 \in 1 .. K /\ (t + 1) - 1 = t
    BY <1>1
  <2>. QED
    BY <1>7, <2>1
<1>9. h \in [0 .. K -> S] /\ h[0] = x
  BY <1>6 DEF Iterates
<1>. QED
  BY <1>8, <1>9 DEF Trace, K, S

LEMMA TraceTo ==
  ASSUME NEW md, NEW m \in Nat \ {0}, NEW x \in State(m)
  PROVE  \E h : Trace(h, md, m) /\ h[Last(md, m)] = x
<1> DEFINE K == Last(md, m)
           S == State(m)
           step == [i \in 1 .. K |-> [y \in S |-> Backward(md, m, K - i, y)]]
<1>1. K \in Nat
  BY LastBlock
<1>2. \A t \in Nat, y \in S : Backward(md, m, t, y) \in S /\ Forward(md, m, t, Backward(md, m, t, y)) = y
  BY StepsInvert
<1>3. \A i \in 1 .. K : K - i \in Nat /\ i - 1 \in 0 .. K
  BY <1>1
<1> HIDE DEF K, S
<1>4. step \in [1 .. K -> [S -> S]]
  BY <1>2, <1>3
<1>5. x \in S
  BY DEF S
<1>6. PICK g : Iterates(g, K, S, x, step)
  <2> HIDE DEF step
  <2>. QED
    BY <1>1, <1>4, <1>5, IterationExists
<1>7. \A i \in 1 .. K : g[i] = Backward(md, m, K - i, g[i - 1])
  BY <1>3, <1>6 DEF Iterates
<1>8. g \in [0 .. K -> S] /\ g[0] = x
  BY <1>6 DEF Iterates
<1> DEFINE h == [t \in 0 .. K |-> g[K - t]]
<1>9. h \in [0 .. K -> S] /\ h[K] = x
  <2>1. \A t \in 0 .. K : K - t \in 0 .. K
    BY <1>1
  <2>2. K \in 0 .. K /\ K - K = 0
    BY <1>1
  <2>. QED
    BY <1>8, <2>1, <2>2
<1>10. ASSUME NEW t \in 0 .. K - 1 PROVE h[t + 1] = Forward(md, m, t, h[t])
  <2>1. /\ K - t \in 1 .. K /\ K - (K - t) = t /\ (K - t) - 1 = K - (t + 1)
        /\ t \in 0 .. K /\ t + 1 \in 0 .. K /\ K - (t + 1) \in 0 .. K /\ t \in Nat
    BY <1>1
  <2>2. g[K - t] = Backward(md, m, t, g[K - (t + 1)])
    BY <1>7, <2>1
  <2>3. h[t] = g[K - t] /\ h[t + 1] = g[K - (t + 1)] /\ g[K - (t + 1)] \in S
    BY <1>8, <2>1
  <2> HIDE DEF h
  <2>. QED
    BY <1>2, <2>1, <2>2, <2>3
<1> HIDE DEF h
<1>11. Trace(h, md, m) /\ h[Last(md, m)] = x
  BY <1>9, <1>10 DEF Trace, K, S
<1>. QED
  BY <1>11

LEMMA TraceBack ==
  ASSUME NEW md, NEW m \in Nat \ {0}, NEW h, Trace(h, md, m), NEW t \in 0 .. Last(md, m) - 1
  PROVE  h[t] = Backward(md, m, t, h[t + 1])
<1>1. t \in Nat /\ t \in 0 .. Last(md, m)
  BY LastBlock
<1>2. h[t] \in State(m) /\ h[t + 1] = Forward(md, m, t, h[t])
  BY <1>1 DEF Trace
<1>. QED
  BY <1>1, <1>2, StepsInvert

-----------------------------------------------------------------------------
(* The inductive invariant: the blocks of both calls walk along one trace, *)
(* from the opening of the plaintext to the closing of its wrapping.       *)

WrappedOk(md, bytes, m) ==
  /\ m \in Nat \ {0} /\ bytes \in Seq(Byte) /\ Len(bytes) = (m + 1) * SemiblockSize
  /\ md = "KW" => m >= 2

(* W is the wrapping of P.                                                 *)
Joins(h, m, md, v, P, W) ==
  /\ PlainOk(md, v, P, m) /\ WrappedOk(md, W, m) /\ Trace(h, md, m)
  /\ h[0] = Opening(md, v, P) /\ h[Last(md, m)] = Closing(W)
Matches(md, v, P, W) == \E h, m : Joins(h, m, md, v, P, W)

Position == IF Single(mode, n) THEN IF round = Rounds THEN 1 ELSE 0 ELSE n * round + index

(* The trace of the call that is running: it begins or ends at the input,  *)
(* and that of an inverse call at the other end at the original.           *)
Begins(h, bytes) == PlainOk(mode, iv, bytes, n) /\ h[0] = Opening(mode, iv, bytes)
Ends(h, bytes) == WrappedOk(mode, bytes, n) /\ h[Last(mode, n)] = Closing(bytes)
Along(h) ==
  /\ Trace(h, mode, n) /\ h[Position] = <<a, r>>
  /\ IF encrypting THEN Begins(h, input) ELSE Ends(h, input)
  /\ inverse => IF encrypting THEN Ends(h, original) ELSE Begins(h, original)

Loops ==
  /\ n \in Nat \ {0} /\ round \in 0 .. Rounds /\ index \in 0 .. n - 1
  /\ round = Rounds => index = 0
  /\ Single(mode, n) =>
       index = 0 /\ round = IF encrypting <=> pc = "single" THEN 0 ELSE Rounds
  /\ pc = "single" => Single(mode, n)

Typed ==
  /\ mode \in {"KW", "KWP"} /\ encrypting \in BOOLEAN /\ inverse \in BOOLEAN
  /\ iv \in Seq(Byte) /\ input \in Seq(Byte)
  /\ ~inverse => original = input

Matched(outcome) ==
  IF encrypting THEN Matches(mode, iv, input, outcome) ELSE Matches(mode, iv, outcome, input)

WrapInv ==
  /\ Typed
  /\ pc = "call" /\ inverse => Matched(original)
  /\ pc \in {"single", "rounds"} => Loops /\ \E h : Along(h)
  /\ pc = "done" /\ result.ok => IF inverse THEN result.bytes = original ELSE Matched(result.bytes)

LEMMA WrapInvInit == Init => WrapInv
<1> SUFFICES ASSUME Init PROVE WrapInv
  OBVIOUS
<1>1. Typed
  BY CallerAssumption DEF Init, Typed
<1>2. pc = "call" /\ inverse = FALSE
  BY DEF Init
<1>. QED
  BY <1>1, <1>2 DEF WrapInv

(* What a call accepts.                                                    *)
LEMMA AcceptedPlain ==
  ASSUME Typed, Acceptable, encrypting
  PROVE  \E m : PlainOk(mode, iv, input, m)
<1> DEFINE S == SemiblockSize
           l == Len(input)
<1>1. S \in Nat \ {0} /\ l \in Nat /\ iv \in Seq(Byte) /\ input \in Seq(Byte)
  BY Sizes DEF Typed
<1>2. CASE mode = "KW"
  <2> DEFINE m == l \div S
  <2>1. l >= 2 * S /\ l % S = 0 /\ Len(iv) = S
    BY <1>2 DEF Acceptable, BlockSize, Whole, IvLength
  <2> HIDE DEF S, l
  <2>2. m \in Nat /\ l % S = l - S * m
    BY <1>1
  <2> HIDE DEF m
  <2>3. S * m \in Nat /\ l = S * m /\ S * m = m * S
    BY <1>1, <2>1, <2>2
  <2>4. m >= 2
    <3>1. SUFFICES ASSUME m \in {0, 1} PROVE FALSE
      BY <2>2
    <3>. QED
      BY <1>1, <2>1, <2>3, <3>1
  <2>5. (m - 1) * S = m * S - S
    BY <1>1, <2>2
  <2>6. (m - 1) * S < l
    BY <1>1, <2>3, <2>5
  <2>7. PlainOk(mode, iv, input, m)
    BY <1>1, <1>2, <2>1, <2>2, <2>3, <2>4, <2>6 DEF PlainOk, S, l
  <2>. QED
    BY <2>7
<1>3. CASE mode = "KWP"
  <2> DEFINE q == (l - 1) \div S
             m == q + 1
  <2>1. l \in 1 .. LengthLimit /\ Len(iv) = Half
    BY <1>3 DEF Acceptable, IvLength
  <2>2. LengthLimit \in Int
    BY LimitIsNat
  <2> HIDE DEF S, l
  <2>3. l - 1 \in Nat /\ l <= LengthLimit
    BY <1>1, <2>1, <2>2
  <2>4. q \in Nat /\ S * q <= l - 1 /\ l - 1 < S * q + S
    BY <1>1, <2>3
  <2> HIDE DEF q
  <2>5. (m - 1) * S = S * q /\ m * S = S * q + S /\ S * q \in Nat
    BY <1>1, <2>4
  <2>6. m \in Nat \ {0} /\ (m - 1) * S < l /\ l <= m * S
    BY <1>1, <2>4, <2>5
  <2> HIDE DEF m
  <2>7. PlainOk(mode, iv, input, m)
    BY <1>1, <1>3, <2>1, <2>3, <2>6 DEF PlainOk, S, l
  <2>. QED
    BY <2>7
<1>. QED
  BY <1>2, <1>3 DEF Typed

LEMMA AcceptedWrapped ==
  ASSUME Typed, Acceptable, ~encrypting
  PROVE  \E m : WrappedOk(mode, input, m)
<1> DEFINE S == SemiblockSize
           l == Len(input)
           q == l \div S
           m == q - 1
<1>1. S \in Nat \ {0} /\ l \in Nat /\ input \in Seq(Byte)
  BY Sizes DEF Typed
<1>2. l >= 2 * S /\ l % S = 0 /\ (mode = "KW" => l >= 2 * S + S)
  BY <1>1 DEF Acceptable, BlockSize, Whole, Typed
<1> HIDE DEF S, l
<1>3. q \in Nat /\ l % S = l - S * q
  BY <1>1
<1> HIDE DEF q
<1>4. S * q \in Nat /\ l = S * q /\ S * q = q * S
  BY <1>1, <1>2, <1>3
<1>5. q >= 2
  <2>1. SUFFICES ASSUME q \in {0, 1} PROVE FALSE
    BY <1>3
  <2>. QED
    BY <1>1, <1>2, <1>4, <2>1
<1>6. mode = "KW" => q >= 3
  <2>1. SUFFICES ASSUME mode = "KW", q = 2 PROVE FALSE
    BY <1>3, <1>5
  <2>. QED
    BY <1>1, <1>2, <1>4, <2>1
<1>7. m \in Nat \ {0} /\ m + 1 = q /\ (mode = "KW" => m >= 2)
  BY <1>3, <1>5, <1>6
<1> HIDE DEF m
<1>8. WrappedOk(mode, input, m)
  BY <1>1, <1>4, <1>7 DEF WrappedOk, S, l
<1>. QED
  BY <1>8

(* And a matching pair is accepted from both sides.                        *)
LEMMA MatchesAccepted ==
  ASSUME Typed, Matched(original)
  PROVE  Acceptable
<1> DEFINE P == IF encrypting THEN input ELSE original
           W == IF encrypting THEN original ELSE input
<1>1. PICK h, m : Joins(h, m, mode, iv, P, W)
  BY DEF Matched, Matches
<1>2. PlainOk(mode, iv, P, m) /\ WrappedOk(mode, W, m)
  BY <1>1 DEF Joins
<1>3. m \in Nat \ {0} /\ SemiblockSize \in Nat \ {0} /\ Len(P) \in Nat /\ (mode = "KW" => m >= 2)
  BY <1>2, Sizes DEF PlainOk
<1>4. mode \in {"KW", "KWP"} /\ encrypting \in BOOLEAN
  BY DEF Typed
<1>5. Len(iv) = IvLength
  BY <1>2, <1>4 DEF PlainOk, IvLength
<1>6. \A k \in Nat : k * SemiblockSize \in Nat /\ (k * SemiblockSize) % SemiblockSize = 0
  <2>1. \A k \in Nat : k * SemiblockSize \in Nat /\ k * SemiblockSize = SemiblockSize * k + 0
    BY <1>3
  <2>2. \A k \in Nat : (SemiblockSize * k + 0) % SemiblockSize = 0
    BY <1>3
  <2>. QED
    BY <2>1, <2>2
<1>7. \A k \in Nat : /\ k >= 2 => k * SemiblockSize >= 2 * SemiblockSize
                     /\ k >= 3 => k * SemiblockSize >= 2 * SemiblockSize + SemiblockSize
  <2>1. \A k \in Nat : k >= 3 => k * SemiblockSize >= 3 * SemiblockSize
    BY <1>3
  <2>. QED
    BY <1>3, <2>1
<1>8. CASE encrypting
  <2>1. CASE mode = "KW"
    <3>1. Len(input) = m * SemiblockSize
      BY <1>2, <1>8, <2>1 DEF PlainOk
    <3>. QED
      BY <1>3, <1>5, <1>6, <1>7, <1>8, <2>1, <3>1 DEF Acceptable, BlockSize, Whole
  <2>2. CASE mode = "KWP"
    <3>1. LengthLimit \in Int
      BY LimitIsNat
    <3>2. (m - 1) * SemiblockSize < Len(input) /\ Len(input) <= LengthLimit /\ (m - 1) * SemiblockSize \in Nat
      BY <1>2, <1>3, <1>8, <2>2 DEF PlainOk
    <3>3. Len(input) \in 1 .. LengthLimit
      BY <1>3, <1>8, <3>1, <3>2
    <3>. QED
      BY <1>5, <1>8, <2>2, <3>3 DEF Acceptable
  <2>. QED
    BY <1>4, <2>1, <2>2
<1>9. CASE ~encrypting
  <2>1. Len(input) = (m + 1) * SemiblockSize /\ m + 1 \in Nat /\ m + 1 >= 2
    BY <1>2, <1>3, <1>9 DEF WrappedOk
  <2>2. mode = "KW" => m + 1 >= 3
    BY <1>3
  <2>3. Whole /\ Len(input) >= BlockSize /\ (mode = "KW" => Len(input) >= BlockSize + SemiblockSize)
    BY <1>6, <1>7, <2>1, <2>2 DEF Whole, BlockSize
  <2>. QED
    BY <1>4, <1>5, <1>9, <2>3 DEF Acceptable
<1>. QED
  BY <1>4, <1>8, <1>9

-----------------------------------------------------------------------------
(* One lemma per kind of step.                                             *)

LEMMA ErrIsNotOk == Err.ok = FALSE
BY DEF Err

LEMMA OkIsOk == ASSUME NEW bytes PROVE Ok(bytes).ok = TRUE /\ Ok(bytes).bytes = bytes
BY DEF Ok

LEMMA EarlyEndKeepsWrapInv ==
  ASSUME WrapInv, Reject \/ CallbackFails
  PROVE  WrapInv'
<1>1. pc' = "done" /\ ~result'.ok
  BY ErrIsNotOk DEF Reject, CallbackFails
<1>2. Typed'
  BY DEF WrapInv, Typed, Reject, CallbackFails, call
<1>. QED
  BY <1>1, <1>2 DEF WrapInv

LEMMA StateLength ==
  ASSUME NEW m \in Nat, NEW x \in State(m)
  PROVE  Len(x[2]) = m
<1>1. x[2] \in [1 .. m -> Semi]
  BY DEF State, Semis
<1>. QED
  BY <1>1

LEMMA StartKeepsWrapInv ==
  ASSUME WrapInv, Start
  PROVE  WrapInv'
<1>1. Typed /\ Acceptable /\ pc = "call" /\ mode \in {"KW", "KWP"} /\ encrypting \in BOOLEAN
  BY DEF WrapInv, Typed, Start
<1>2. /\ UNCHANGED <<mode, encrypting, iv, input, inverse, original>>
      /\ index' = 0 /\ n' = Len(r') /\ round' = (IF encrypting THEN 0 ELSE Rounds)
      /\ pc' = IF mode = "KWP" /\ n' = 1 THEN "single" ELSE "rounds"
  BY DEF Start, call
<1>3. Typed'
  BY <1>1, <1>2 DEF Typed
<1>4. inverse => Matched(original)
  BY <1>1 DEF WrapInv
<1>5. ASSUME n' \in Nat \ {0}
      PROVE  Loops' /\ Position' = (IF encrypting THEN 0 ELSE Last(mode, n'))
  <2>1. Single(mode, n') <=> pc' = "single"
    BY <1>1, <1>2 DEF Single
  <2>2. Loops'
    BY <1>1, <1>2, <1>5, <2>1 DEF Loops, Rounds, Single
  <2>3. n' * 0 + 0 = 0 /\ n' * Rounds + 0 = Rounds * n' /\ 0 # Rounds
    <3>1. \A k \in Nat : k * 0 + 0 = 0 /\ k * 6 + 0 = 6 * k
      OBVIOUS
    <3>2. n' \in Nat
      BY <1>5
    <3>3. n' * 0 + 0 = 0 /\ n' * 6 + 0 = 6 * n'
      BY <3>1, <3>2, Zenon
    <3>. QED
      BY <3>3 DEF Rounds
  <2>4. Single(mode, n)' <=> Single(mode, n')
    BY <1>2 DEF Single
  <2>5. Position' = (IF encrypting THEN 0 ELSE Last(mode, n'))
    BY <1>1, <1>2, <2>3, <2>4 DEF Position, Last
  <2>. QED
    BY <2>2, <2>5
<1>6. ASSUME NEW h, NEW m, Trace(h, mode, m), m \in Nat \ {0},
             h[IF encrypting THEN 0 ELSE Last(mode, m)] = <<a', r'>>, n' = m,
             IF encrypting THEN PlainOk(mode, iv, input, m) /\ h[0] = Opening(mode, iv, input)
             ELSE WrappedOk(mode, input, m) /\ h[Last(mode, m)] = Closing(input),
             inverse => IF encrypting
                        THEN WrappedOk(mode, original, m) /\ h[Last(mode, m)] = Closing(original)
                        ELSE PlainOk(mode, iv, original, m) /\ h[0] = Opening(mode, iv, original)
      PROVE  WrapInv'
  <2>1. Loops' /\ Position' = (IF encrypting THEN 0 ELSE Last(mode, m))
    BY <1>5, <1>6
  <2>2. Along(h)'
    BY <1>2, <1>6, <2>1 DEF Along, Begins, Ends
  <2>3. pc' # "call" /\ pc' # "done"
    BY <1>2
  <2>. QED
    BY <1>3, <2>1, <2>2, <2>3 DEF WrapInv
<1>7. CASE encrypting
  <2>1. \E h, m : /\ PlainOk(mode, iv, input, m) /\ Trace(h, mode, m) /\ h[0] = Opening(mode, iv, input)
                  /\ inverse => WrappedOk(mode, original, m) /\ h[Last(mode, m)] = Closing(original)
    <3>1. CASE inverse
      BY <1>4, <1>7, <3>1 DEF Matched, Matches, Joins
    <3>2. CASE ~inverse
      <4>1. PICK m : PlainOk(mode, iv, input, m)
        BY <1>1, <1>7, AcceptedPlain
      <4>2. m \in Nat \ {0} /\ Opening(mode, iv, input) \in State(m)
        BY <4>1, OpeningReads DEF PlainOk
      <4>3. PICK h : Trace(h, mode, m) /\ h[0] = Opening(mode, iv, input)
        BY <4>2, TraceFrom
      <4>. QED
        BY <3>2, <4>1, <4>3
    <3>. QED
      BY <3>1, <3>2
  <2>2. PICK h, m : /\ PlainOk(mode, iv, input, m) /\ Trace(h, mode, m) /\ h[0] = Opening(mode, iv, input)
                    /\ inverse => WrappedOk(mode, original, m) /\ h[Last(mode, m)] = Closing(original)
    BY <2>1
  <2>3. <<a', r'>> = Opening(mode, iv, input)
    BY <1>1, <1>7 DEF Start, Opening
  <2>4. m \in Nat \ {0} /\ Opening(mode, iv, input) \in State(m)
    BY <2>2, OpeningReads DEF PlainOk
  <2>5. r' = Opening(mode, iv, input)[2]
    BY <2>3
  <2>6. n' = m
    BY <1>2, <2>4, <2>5, StateLength
  <2>. QED
    BY <1>6, <1>7, <2>2, <2>3, <2>4, <2>6
<1>8. CASE ~encrypting
  <2>1. \E h, m : /\ WrappedOk(mode, input, m) /\ Trace(h, mode, m) /\ h[Last(mode, m)] = Closing(input)
                  /\ inverse => PlainOk(mode, iv, original, m) /\ h[0] = Opening(mode, iv, original)
    <3>1. CASE inverse
      BY <1>4, <1>8, <3>1 DEF Matched, Matches, Joins
    <3>2. CASE ~inverse
      <4>1. PICK m : WrappedOk(mode, input, m)
        BY <1>1, <1>8, AcceptedWrapped
      <4>2. m \in Nat \ {0} /\ input \in [1 .. (m + 1) * SemiblockSize -> Byte]
        BY <4>1 DEF WrappedOk
      <4>3. Closing(input) \in State(m)
        BY <4>2, ClosingOf
      <4>4. PICK h : Trace(h, mode, m) /\ h[Last(mode, m)] = Closing(input)
        BY <4>2, <4>3, TraceTo
      <4>. QED
        BY <3>2, <4>1, <4>4
    <3>. QED
      BY <3>1, <3>2
  <2>2. PICK h, m : /\ WrappedOk(mode, input, m) /\ Trace(h, mode, m) /\ h[Last(mode, m)] = Closing(input)
                    /\ inverse => PlainOk(mode, iv, original, m) /\ h[0] = Opening(mode, iv, original)
    BY <2>1
  <2>3. <<a', r'>> = Closing(input)
    BY <1>1, <1>8 DEF Start, Closing
  <2>4. m \in Nat \ {0} /\ input \in [1 .. (m + 1) * SemiblockSize -> Byte]
    BY <2>2 DEF WrappedOk
  <2>5. Closing(input) \in State(m)
    BY <2>4, ClosingOf
  <2>6. r' = Closing(input)[2]
    BY <2>3
  <2>7. n' = m
    BY <1>2, <2>4, <2>5, <2>6, StateLength
  <2>. QED
    BY <1>6, <1>8, <2>2, <2>3, <2>4, <2>7
<1>. QED
  BY <1>1, <1>7, <1>8

(* A block of the loops that moves a and r one place along the trace.      *)
LEMMA WalkKeepsWrapInv ==
  ASSUME WrapInv, pc \in {"single", "rounds"}, pc' = "rounds", NEW h, Along(h),
         UNCHANGED <<call, n, inverse, original>>, Loops', h[Position'] = <<a', r'>>
  PROVE  WrapInv'
<1>1. UNCHANGED <<mode, encrypting, iv, input, n, inverse, original>>
  BY DEF call
<1>2. Typed'
  BY <1>1 DEF WrapInv, Typed
<1>3. Along(h)'
  BY <1>1 DEF Along, Begins, Ends
<1>. QED
  BY <1>2, <1>3 DEF WrapInv

(* The place of a block of the loops.                                      *)
LEMMA PlaceOfBlock ==
  ASSUME NEW m \in Nat \ {0}, NEW s \in 0 .. Rounds - 1, NEW i \in 0 .. m - 1
  PROVE  /\ m * s + i \in 0 .. Rounds * m - 1 /\ m * s + i \in Nat
         /\ Slot(m, m * s + i) = i + 1
<1>1. m * s \in Nat /\ s \in Nat /\ s <= 5 /\ (m * s + i) % m = i
  BY DEF Rounds
<1>2. m * s <= m * 5
  BY <1>1
<1>3. m * 5 = 5 * m /\ Rounds * m = 5 * m + m /\ 5 * m \in Nat
  BY DEF Rounds
<1>. QED
  BY <1>1, <1>2, <1>3 DEF Slot

LEMMA WrapStepKeepsWrapInv ==
  ASSUME WrapInv, WrapStep
  PROVE  WrapInv'
<1>1. Loops /\ Typed /\ pc = "rounds" /\ encrypting /\ round < Rounds
  BY DEF WrapInv, WrapStep
<1>2. PICK h : Along(h)
  BY <1>1 DEF WrapInv
<1>3. /\ n \in Nat \ {0} /\ round \in 0 .. Rounds - 1 /\ index \in 0 .. n - 1
      /\ round \in Nat /\ index \in Nat /\ ~Single(mode, n)
  BY <1>1 DEF Loops, Rounds
<1> DEFINE t == n * round + index
<1>4. t \in 0 .. Last(mode, n) - 1 /\ t \in Nat /\ Slot(n, t) = index + 1 /\ Position = t
  BY <1>3, PlaceOfBlock DEF Last, Position
<1>5. h[t] = <<a, r>> /\ h[t + 1] = Forward(mode, n, t, h[t])
  BY <1>2, <1>4 DEF Along, Trace
<1> DEFINE c == Cipher[<<a, r[index + 1]>>]
<1>6. /\ a' = XorSemi(c[1], ToBytes(t + 1, SemiblockSize))
      /\ r' = [r EXCEPT ![index + 1] = c[2]]
  BY DEF WrapStep, WrapBlock, Counter
<1>7. Forward(mode, n, t, <<a, r>>) = <<a', r'>>
  <2> HIDE DEF t
  <2>. QED
    BY <1>3, <1>4, <1>6 DEF Forward, Mixed, Put
<1>8. /\ UNCHANGED <<call, pc, n, inverse, original>> /\ UNCHANGED <<mode, encrypting>>
      /\ index' = IF index + 1 < n THEN index + 1 ELSE 0
      /\ round' = IF index + 1 < n THEN round ELSE round + 1
  BY DEF WrapStep, call
<1>9. /\ round' \in 0 .. Rounds /\ index' \in 0 .. n - 1 /\ (round' = Rounds => index' = 0)
  BY <1>3, <1>8 DEF Rounds
<1>10. n * round' + index' = t + 1
  <2>1. n * (round + 1) = n * round + n /\ n * round \in Nat
    BY <1>3
  <2>2. CASE index + 1 < n
    BY <1>3, <1>8, <2>1, <2>2
  <2>3. CASE ~(index + 1 < n)
    <3>1. round' = round + 1 /\ index' = 0 /\ index + 1 = n
      BY <1>3, <1>8, <2>3
    <3>. QED
      BY <1>3, <2>1, <3>1
  <2>. QED
    BY <2>2, <2>3
<1>11. ~Single(mode, n)'
  BY <1>3, <1>8 DEF Single
<1>12. Loops'
  BY <1>1, <1>3, <1>8, <1>9, <1>11 DEF Loops
<1>13. Position' = t + 1
  BY <1>8, <1>10, <1>11 DEF Position
<1>14. h[Position'] = <<a', r'>>
  BY <1>5, <1>7, <1>13
<1>. QED
  BY <1>1, <1>2, <1>8, <1>12, <1>14, WalkKeepsWrapInv

LEMMA UnwrapStepKeepsWrapInv ==
  ASSUME WrapInv, UnwrapStep
  PROVE  WrapInv'
<1>1. Loops /\ Typed /\ pc = "rounds" /\ ~encrypting /\ ~(round = 0 /\ index = 0)
  BY DEF WrapInv, UnwrapStep
<1>2. PICK h : Along(h)
  BY <1>1 DEF WrapInv
<1>3. /\ n \in Nat \ {0} /\ round \in 0 .. Rounds /\ index \in 0 .. n - 1
      /\ (round = Rounds => index = 0) /\ round \in Nat /\ index \in Nat /\ ~Single(mode, n)
  BY <1>1 DEF Loops, Rounds
<1>4. /\ UNCHANGED <<call, pc, n, inverse, original>> /\ UNCHANGED <<mode, encrypting>>
      /\ index' = IF index > 0 THEN index - 1 ELSE n - 1
      /\ round' = IF index > 0 THEN round ELSE round - 1
  BY DEF UnwrapStep, call
<1>5. round' \in 0 .. Rounds - 1 /\ index' \in 0 .. n - 1
  BY <1>1, <1>3, <1>4 DEF Rounds
<1> DEFINE i == index'
           s == round'
           t == n * s + i
<1>6. t + 1 = n * round + index
  <2>1. n * (round - 1) = n * round - n /\ n * round \in Nat
    BY <1>3
  <2>2. CASE index > 0
    BY <1>3, <1>4, <2>1, <2>2
  <2>3. CASE ~(index > 0)
    <3>1. s = round - 1 /\ i = n - 1 /\ index = 0
      BY <1>3, <1>4, <2>3
    <3>2. t = (n * round - n) + (n - 1)
      BY <2>1, <3>1
    <3>. QED
      BY <1>3, <2>1, <3>1, <3>2
  <2>. QED
    BY <2>2, <2>3
<1>7. t \in 0 .. Last(mode, n) - 1 /\ t \in Nat /\ Slot(n, t) = i + 1 /\ Position = t + 1
  <2>1. t \in 0 .. Rounds * n - 1 /\ t \in Nat /\ Slot(n, t) = i + 1
    <3> HIDE DEF i, s
    <3>1. s \in 0 .. Rounds - 1 /\ i \in 0 .. n - 1
      BY <1>5 DEF i, s
    <3>. QED
      BY <1>3, <3>1, PlaceOfBlock
  <2>2. Last(mode, n) = Rounds * n /\ Position = t + 1
    BY <1>3, <1>6 DEF Last, Position
  <2>. QED
    BY <2>1, <2>2
<1>8. h[t + 1] = <<a, r>> /\ h[t] = Backward(mode, n, t, h[t + 1])
  <2> HIDE DEF t
  <2>. QED
    BY <1>2, <1>3, <1>7, TraceBack DEF Along
<1> DEFINE c == Decipher[<<XorSemi(a, ToBytes(t + 1, SemiblockSize)), r[i + 1]>>]
<1>9. a' = c[1] /\ r' = [r EXCEPT ![i + 1] = c[2]]
  BY DEF UnwrapStep, UnwrapBlock, Counter
<1>10. Backward(mode, n, t, <<a, r>>) = <<a', r'>>
  <2> HIDE DEF t, i
  <2>. QED
    BY <1>3, <1>7, <1>9 DEF Backward, Mixed, Put
<1>11. ~Single(mode, n)'
  BY <1>3, <1>4 DEF Single
<1>12. Loops'
  <2>1. round' \in 0 .. Rounds /\ round' # Rounds
    BY <1>5 DEF Rounds
  <2>. QED
    BY <1>1, <1>3, <1>4, <1>5, <1>11, <2>1 DEF Loops
<1>13. Position' = t
  BY <1>4, <1>11 DEF Position
<1>14. h[Position'] = <<a', r'>>
  BY <1>8, <1>10, <1>13
<1>. QED
  BY <1>1, <1>2, <1>4, <1>12, <1>14, WalkKeepsWrapInv

LEMMA SingleBlockKeepsWrapInv ==
  ASSUME WrapInv, SingleBlock
  PROVE  WrapInv'
<1>1. Loops /\ Typed /\ pc = "single" /\ Single(mode, n) /\ encrypting \in BOOLEAN /\ n = 1
  BY DEF WrapInv, SingleBlock, Loops, Typed, Single
<1>2. PICK h : Along(h)
  BY <1>1 DEF WrapInv
<1>3. /\ UNCHANGED <<call, n, inverse, original>> /\ UNCHANGED <<mode, encrypting>>
      /\ pc' = "rounds" /\ index' = 0 /\ round' = IF encrypting THEN Rounds ELSE 0
  BY DEF SingleBlock, call
<1>4. Single(mode, n)'
  BY <1>1, <1>3 DEF Single
<1>5. Loops'
  BY <1>1, <1>3, <1>4 DEF Loops, Rounds
<1>6. /\ round = (IF encrypting THEN 0 ELSE Rounds) /\ 0 # Rounds
      /\ Position = (IF encrypting THEN 0 ELSE 1) /\ Position' = (IF encrypting THEN 1 ELSE 0)
  BY <1>1, <1>3, <1>4 DEF Loops, Rounds, Position
<1>7. Slot(n, 0) = 1 /\ 0 \in 0 .. Last(mode, n) - 1 /\ 0 + 1 = 1 /\ 0 \in 0 .. 1 /\ 1 \in 0 .. 1
  BY <1>1 DEF Slot, Last
<1>8. ASSUME NEW s \in Semis(1), NEW e \in Semi PROVE Put(s, 1, e) = <<e>>
  BY <1>8 DEF Put, Semis
<1>9. /\ Trace(h, mode, n) /\ h[0] \in State(1) /\ h[1] \in State(1)
      /\ h[1] = Forward(mode, n, 0, h[0]) /\ h[0] = Backward(mode, n, 0, h[1])
  <2>1. Trace(h, mode, n)
    BY <1>2 DEF Along
  <2>2. h[0] = Backward(mode, n, 0, h[0 + 1])
    BY <1>1, <1>7, <2>1, TraceBack
  <2>3. h \in [0 .. 1 -> State(1)] /\ h[0 + 1] = Forward(mode, n, 0, h[0])
    BY <1>1, <1>7, <2>1 DEF Trace, Last
  <2>. QED
    BY <1>7, <2>1, <2>2, <2>3
<1>10. \A x \in State(1) : x[1] \in Semi /\ x[2] \in Semis(1) /\ x[2][1] \in Semi
  BY DEF State, Semis
<1>11. \A x \in State(1) : Cipher[<<x[1], x[2][1]>>][2] \in Semi /\ Decipher[<<x[1], x[2][1]>>][2] \in Semi
  <2>1. \A x \in State(1) : <<x[1], x[2][1]>> \in Block
    BY <1>10 DEF Block
  <2>2. \A b \in Block : Cipher[b][2] \in Semi /\ Decipher[b][2] \in Semi
    <3>1. \A b \in Block : b[2] \in Semi
      BY DEF Block
    <3>. QED
      BY <3>1, CipherAssumption
  <2>. QED
    BY <2>1, <2>2
<1>12. ASSUME NEW x \in State(1)
       PROVE  /\ Forward(mode, n, 0, x) = <<Cipher[<<x[1], x[2][1]>>][1], <<Cipher[<<x[1], x[2][1]>>][2]>>>>
              /\ Backward(mode, n, 0, x) = <<Decipher[<<x[1], x[2][1]>>][1], <<Decipher[<<x[1], x[2][1]>>][2]>>>>
  BY <1>1, <1>7, <1>8, <1>10, <1>11 DEF Forward, Backward, Mixed
<1>13. h[Position'] = <<a', r'>>
  <2>1. CASE encrypting
    <3>1. h[0] = <<a, r>>
      BY <1>2, <1>6, <2>1 DEF Along
    <3>2. a' = Cipher[<<a, r[1]>>][1] /\ r' = <<Cipher[<<a, r[1]>>][2]>>
      BY <2>1 DEF SingleBlock
    <3>. QED
      <4>1. h[1] = <<Cipher[<<h[0][1], h[0][2][1]>>][1], <<Cipher[<<h[0][1], h[0][2][1]>>][2]>>>>
        BY <1>9, <1>12, Zenon
      <4>2. h[0][1] = a /\ h[0][2] = r
        BY <3>1
      <4>3. h[1] = <<a', r'>>
        BY <3>2, <4>1, <4>2, Zenon
      <4>. QED
        BY <1>6, <2>1, <4>3
  <2>2. CASE ~encrypting
    <3>1. h[1] = <<a, r>>
      BY <1>2, <1>6, <2>2 DEF Along
    <3>2. a' = Decipher[<<a, r[1]>>][1] /\ r' = <<Decipher[<<a, r[1]>>][2]>>
      BY <2>2 DEF SingleBlock
    <3>. QED
      BY <1>6, <1>9, <1>12, <2>2, <3>1, <3>2
  <2>. QED
    BY <2>1, <2>2
<1>. QED
  BY <1>1, <1>2, <1>3, <1>5, <1>13, WalkKeepsWrapInv

LEMMA FinishWrapKeepsWrapInv ==
  ASSUME WrapInv, FinishWrap
  PROVE  WrapInv'
<1>1. Loops /\ Typed /\ pc = "rounds" /\ encrypting /\ round = Rounds
  BY DEF WrapInv, FinishWrap
<1>2. PICK h : Along(h)
  BY <1>1 DEF WrapInv
<1>3. /\ n \in Nat \ {0} /\ index = 0
  BY <1>1 DEF Loops
<1>4. Position = Last(mode, n) /\ Last(mode, n) \in 0 .. Last(mode, n)
  <2>1. n * Rounds + 0 = Rounds * n
    BY <1>3 DEF Rounds
  <2>2. Last(mode, n) \in Nat
    BY <1>3, LastBlock
  <2>. QED
    BY <1>1, <1>3, <2>1, <2>2 DEF Position, Last
<1> DEFINE x == <<a, r>>
           w == Flat(x, n)
<1>5. /\ x \in State(n) /\ x = h[Last(mode, n)] /\ Trace(h, mode, n)
      /\ Begins(h, input) /\ (inverse => Ends(h, original))
  BY <1>1, <1>2, <1>4 DEF Along, Trace
<1>6. /\ UNCHANGED <<mode, encrypting, iv, input, inverse, original>> /\ pc' = "done"
      /\ result' = Ok(w)
  BY DEF FinishWrap, call, Flat
<1>7. Typed'
  BY <1>1, <1>6 DEF Typed
<1> HIDE DEF x
<1>8. w \in [1 .. (n + 1) * SemiblockSize -> Byte] /\ Closing(w) = x
  BY <1>3, <1>5, FlatOf, ClosingOfFlat
<1>9. inverse => w = original
  <2>1. SUFFICES ASSUME inverse PROVE w = original
    OBVIOUS
  <2>2. WrappedOk(mode, original, n) /\ x = Closing(original)
    BY <1>5, <2>1 DEF Ends
  <2>3. original \in [1 .. (n + 1) * SemiblockSize -> Byte]
    BY <2>2 DEF WrappedOk
  <2>. QED
    BY <1>3, <2>2, <2>3, FlatOfClosing
<1> HIDE DEF w
<1>10. ~inverse => Matches(mode, iv, input, w)
  <2>1. (n + 1) * SemiblockSize \in Nat
    BY <1>3, OneMore
  <2>2. w \in Seq(Byte) /\ Len(w) = (n + 1) * SemiblockSize
    BY <1>8, <2>1
  <2>3. PlainOk(mode, iv, input, n) /\ h[0] = Opening(mode, iv, input)
    BY <1>5 DEF Begins
  <2>4. WrappedOk(mode, w, n)
    BY <1>3, <2>2, <2>3 DEF WrappedOk, PlainOk
  <2>5. Joins(h, n, mode, iv, input, w)
    BY <1>5, <1>8, <2>3, <2>4 DEF Joins
  <2>. QED
    BY <2>5 DEF Matches
<1>11. result'.bytes = w
  BY <1>6, OkIsOk
<1>12. ~inverse => Matched(result.bytes)'
  BY <1>1, <1>6, <1>10, <1>11 DEF Matched
<1>. QED
  BY <1>6, <1>7, <1>9, <1>11, <1>12 DEF WrapInv

(* What FinishUnwrap returns is what it reads.                             *)
LEMMA UnwrapReads ==
  ASSUME Typed, FinishUnwrap, result'.ok
  PROVE  Reads(mode, iv, <<a, r>>, n, result'.bytes)
<1>1. CASE mode = "KW"
  <2>1. a = iv /\ result' = Ok(Bytes(r, n))
    BY <1>1, ErrIsNotOk DEF FinishUnwrap
  <2>. QED
    BY <1>1, <2>1, OkIsOk DEF Reads
<1>2. CASE mode = "KWP"
  <2> DEFINE l == FromBytes(SubSeq(a, Half + 1, SemiblockSize))
  <2>1. Authentic(l) /\ result' = Ok(SubSeq(Bytes(r, n), 1, l))
    BY <1>2, ErrIsNotOk DEF FinishUnwrap
  <2>2. result'.bytes = SubSeq(Bytes(r, n), 1, l)
    BY <2>1, OkIsOk
  <2>. QED
    BY <1>2, <2>1, <2>2 DEF Reads, Authentic
<1>. QED
  BY <1>1, <1>2 DEF Typed

LEMMA FinishUnwrapKeepsWrapInv ==
  ASSUME WrapInv, FinishUnwrap
  PROVE  WrapInv'
<1>1. Loops /\ Typed /\ pc = "rounds" /\ ~encrypting /\ round = 0 /\ index = 0
  BY DEF WrapInv, FinishUnwrap
<1>2. PICK h : Along(h)
  BY <1>1 DEF WrapInv
<1>3. n \in Nat \ {0} /\ iv \in Seq(Byte)
  BY <1>1 DEF Loops, Typed
<1>4. Position = 0 /\ 0 \in 0 .. Last(mode, n)
  <2>1. n * 0 + 0 = 0 /\ 0 # Rounds
    BY <1>3 DEF Rounds
  <2>2. Last(mode, n) \in Nat
    BY <1>3, LastBlock
  <2>. QED
    BY <1>1, <2>1, <2>2 DEF Position
<1> DEFINE x == <<a, r>>
<1>5. /\ x \in State(n) /\ x = h[0] /\ Trace(h, mode, n)
      /\ Ends(h, input) /\ (inverse => Begins(h, original))
  BY <1>1, <1>2, <1>4 DEF Along, Trace
<1>6. UNCHANGED <<mode, encrypting, iv, input, inverse, original>> /\ pc' = "done"
  BY DEF FinishUnwrap, call
<1>7. Typed'
  BY <1>1, <1>6 DEF Typed
<1>8. ASSUME result'.ok
      PROVE  IF inverse THEN result'.bytes = original ELSE Matches(mode, iv, result'.bytes, input)
  <2> DEFINE b == result'.bytes
  <2>1. Reads(mode, iv, x, n, b)
    BY <1>1, <1>8, UnwrapReads
  <2> HIDE DEF x, b
  <2>2. inverse => b = original
    <3>1. SUFFICES ASSUME inverse PROVE b = original
      OBVIOUS
    <3>2. PlainOk(mode, iv, original, n) /\ x = Opening(mode, iv, original)
      BY <1>5, <3>1 DEF Begins
    <3>3. Reads(mode, iv, x, n, original)
      BY <3>2, OpeningReads
    <3>4. CASE mode = "KW"
      BY <2>1, <3>3, <3>4 DEF Reads
    <3>5. CASE mode # "KW"
      <4> DEFINE p == SubSeq(Bytes(x[2], n), 1, FromBytes(SubSeq(x[1], Half + 1, SemiblockSize)))
      <4>1. b = p /\ original = p
        BY <2>1, <3>3, <3>5, Zenon DEF Reads
      <4>. QED
        BY <4>1
    <3>. QED
      BY <3>4, <3>5
  <2>3. ~inverse => Matches(mode, iv, b, input)
    <3>1. WrappedOk(mode, input, n) /\ h[Last(mode, n)] = Closing(input)
      BY <1>5 DEF Ends
    <3>2. mode = "KW" => n >= 2
      BY <3>1 DEF WrappedOk
    <3>3. PlainOk(mode, iv, b, n) /\ Opening(mode, iv, b) = x
      BY <1>3, <1>5, <2>1, <3>2, ReadsOpening
    <3>4. Joins(h, n, mode, iv, b, input)
      BY <1>5, <3>1, <3>3 DEF Joins
    <3>. QED
      BY <3>4 DEF Matches
  <2>. QED
    BY <2>2, <2>3 DEF b
<1>9. result'.ok => IF inverse' THEN result'.bytes = original' ELSE Matched(result.bytes)'
  BY <1>1, <1>6, <1>8 DEF Matched
<1>. QED
  BY <1>6, <1>7, <1>9 DEF WrapInv

LEMMA CallInverseKeepsWrapInv ==
  ASSUME WrapInv, CallInverse
  PROVE  WrapInv'
<1>1. Typed /\ pc = "done" /\ result.ok /\ ~inverse /\ Matched(result.bytes)
  BY DEF WrapInv, CallInverse
<1>2. /\ UNCHANGED <<mode, iv, original>> /\ inverse' = TRUE /\ pc' = "call"
      /\ encrypting' = ~encrypting /\ input' = result.bytes /\ original = input
      /\ encrypting \in BOOLEAN
  BY <1>1 DEF CallInverse, Typed
<1>3. result.bytes \in Seq(Byte)
  <2>1. CASE encrypting
    BY <1>1, <2>1 DEF Matched, Matches, Joins, WrappedOk
  <2>2. CASE ~encrypting
    BY <1>1, <2>2 DEF Matched, Matches, Joins, PlainOk
  <2>. QED
    BY <2>1, <2>2
<1>4. Typed'
  BY <1>1, <1>2, <1>3 DEF Typed
<1>5. Matched(original)'
  BY <1>1, <1>2 DEF Matched
<1>. QED
  BY <1>2, <1>4, <1>5 DEF WrapInv

LEMMA WrapInvNext == WrapInv /\ [Next]_vars => WrapInv'
<1> SUFFICES ASSUME WrapInv, [Next]_vars PROVE WrapInv'
  OBVIOUS
<1>1. CASE Reject \/ CallbackFails
  BY <1>1, EarlyEndKeepsWrapInv
<1>2. CASE Start
  BY <1>2, StartKeepsWrapInv
<1>3. CASE WrapStep
  BY <1>3, WrapStepKeepsWrapInv
<1>4. CASE UnwrapStep
  BY <1>4, UnwrapStepKeepsWrapInv
<1>5. CASE SingleBlock
  BY <1>5, SingleBlockKeepsWrapInv
<1>6. CASE FinishWrap
  BY <1>6, FinishWrapKeepsWrapInv
<1>7. CASE FinishUnwrap
  BY <1>7, FinishUnwrapKeepsWrapInv
<1>8. CASE CallInverse
  BY <1>8, CallInverseKeepsWrapInv
<1>9. CASE UNCHANGED vars
  <2>1. UNCHANGED <<mode, encrypting, iv, input, pc, n, a, r, round, index, result, inverse, original>>
    BY <1>9 DEF vars, call
  <2>2. Typed' /\ Matched(original)' = Matched(original) /\ Matched(result.bytes)' = Matched(result.bytes)
    BY <2>1 DEF WrapInv, Typed, Matched
  <2>3. Loops' = Loops /\ \A h : Along(h)' = Along(h)
    BY <2>1 DEF Loops, Along, Begins, Ends, Position
  <2>. QED
    BY <2>1, <2>2, <2>3 DEF WrapInv
<1>. QED
  BY <1>1, <1>2, <1>3, <1>4, <1>5, <1>6, <1>7, <1>8, <1>9 DEF Next

LEMMA WrapInvImplies == WrapInv => WrapIsExact
<1> SUFFICES ASSUME WrapInv, inverse PROVE WrapIsExact
  BY DEF WrapIsExact
<1>1. Typed
  BY DEF WrapInv
<1>2. pc = "call" => Acceptable
  BY <1>1, MatchesAccepted DEF WrapInv
<1>3. pc = "done" /\ result.ok => result.bytes = original
  BY DEF WrapInv
<1>4. ASSUME pc = "rounds", ~encrypting, round = 0, index = 0
      PROVE  IF mode = "KW" THEN a = iv
             ELSE Authentic(FromBytes(SubSeq(a, Half + 1, SemiblockSize)))
  <2>1. Loops /\ n \in Nat \ {0}
    BY <1>4 DEF WrapInv, Loops
  <2>2. PICK h : Along(h)
    BY <1>4 DEF WrapInv
  <2>3. Position = 0
    <3>1. n * 0 + 0 = 0 /\ 0 # Rounds
      BY <2>1 DEF Rounds
    <3>. QED
      BY <1>4, <3>1 DEF Position
  <2>4. PlainOk(mode, iv, original, n) /\ <<a, r>> = Opening(mode, iv, original)
    BY <1>4, <2>2, <2>3 DEF Along, Begins
  <2>5. Reads(mode, iv, <<a, r>>, n, original)
    BY <2>4, OpeningReads
  <2>. QED
    BY <2>5 DEF Reads, Authentic
<1>. QED
  BY <1>2, <1>3, <1>4 DEF WrapIsExact

(* UnwrapInvertsWrap: for every cipher, size of semiblocks and key, what    *)
(* one direction of key_wrap_with or key_wrap_with_padding_with returned is *)
(* accepted by the other, which returns the first one's input unless its    *)
(* callback fails.                                                          *)
THEOREM UnwrapInvertsWrap == Spec => []WrapIsExact
<1>1. Init => WrapInv
  BY WrapInvInit
<1>2. WrapInv /\ [Next]_vars => WrapInv'
  BY WrapInvNext
<1>3. WrapInv => WrapIsExact
  BY WrapInvImplies
<1>. QED
  BY <1>1, <1>2, <1>3, PTL DEF Spec

-----------------------------------------------------------------------------
(* A step of a behaviour that belongs to a part is one of its module.       *)
LEMMA ModesStepIs ==
  ASSUME [SymmetricNext]_symmetric, part' = "modes"
  PROVE  part = "modes" /\ [BM!Next]_BM!vars
  BY DEF SymmetricNext, WrapStepOf, ModesStep, AeadStep, KdfStep, symmetric, modes, vars, BM!vars

LEMMA AeadStepIs ==
  ASSUME [SymmetricNext]_symmetric, part' = "aead"
  PROVE  part = "aead" /\ [AE!Next]_AE!vars
  BY DEF SymmetricNext, WrapStepOf, ModesStep, AeadStep, KdfStep, symmetric, aeads, vars, AE!vars

LEMMA KdfStepIs ==
  ASSUME [SymmetricNext]_symmetric, part' = "kdf"
  PROVE  part = "kdf" /\ [KD!Next]_KD!vars
  BY DEF SymmetricNext, WrapStepOf, ModesStep, AeadStep, KdfStep, symmetric, kdfs, vars,
         KD!vars, KD!call

-----------------------------------------------------------------------------
(* The authenticated modes, for any widths, block encryptor and GHASH      *)
(* multiplication.                                                         *)

(* Cutting a sequence in two and joining two, as facts the provers use.    *)
IsCut(s, len, t, u) ==
  /\ t = SubSeq(s, 1, len) /\ u = SubSeq(s, len + 1, Len(s))
  /\ Len(t) = len /\ Len(u) = Len(s) - len /\ s = t \o u

LEMMA JoinIsCut ==
  ASSUME NEW S, NEW t \in Seq(S), NEW u \in Seq(S)
  PROVE  IsCut(t \o u, Len(t), t, u) /\ Len(t \o u) = Len(t) + Len(u)
<1> DEFINE s == t \o u
           len == Len(t)
           front == SubSeq(s, 1, len)
           back == SubSeq(s, len + 1, Len(s))
<1>1. /\ s \in Seq(S) /\ Len(s) = Len(t) + Len(u) /\ Len(t) \in Nat /\ Len(u) \in Nat
      /\ \A i \in 1 .. Len(t) + Len(u) : s[i] = IF i <= Len(t) THEN t[i] ELSE u[i - Len(t)]
  BY ConcatProperties, LenProperties
<1> HIDE DEF s
<1>2. len \in Nat /\ Len(u) \in Nat /\ Len(s) = len + Len(u) /\ len \in Int /\ len + 1 \in Int /\ Len(s) \in Int
  BY <1>1
<1>3. \A i \in 1 .. Len(s) : s[i] \in S
  BY <1>1, ElementOfSeq
<1>4. front \in Seq(S) /\ Len(front) = len /\ \A i \in 1 .. len : front[i] = s[i]
  <2>1. \A i \in 1 .. len : s[i] \in S
    BY <1>2, <1>3
  <2>2. /\ front \in Seq(S) /\ Len(front) = IF 1 <= len THEN len - 1 + 1 ELSE 0
        /\ \A i \in 1 .. len - 1 + 1 : front[i] = s[1 + i - 1]
    BY <1>2, <2>1, SubSeqProperties
  <2> HIDE DEF front
  <2>. QED
    BY <1>2, <2>2
<1>5. back \in Seq(S) /\ Len(back) = Len(u) /\ \A i \in 1 .. Len(u) : back[i] = s[len + i]
  <2>1. \A i \in len + 1 .. Len(s) : s[i] \in S
    BY <1>2, <1>3
  <2>2. /\ back \in Seq(S) /\ Len(back) = IF len + 1 <= Len(s) THEN Len(s) - (len + 1) + 1 ELSE 0
        /\ \A i \in 1 .. Len(s) - (len + 1) + 1 : back[i] = s[len + 1 + i - 1]
    BY <1>2, <2>1, SubSeqProperties
  <2>3. /\ Len(s) - (len + 1) + 1 = Len(u) /\ (len + 1 <= Len(s) <=> Len(u) # 0)
        /\ \A i \in 1 .. Len(u) : len + 1 + i - 1 = len + i
    BY <1>2
  <2> HIDE DEF back, len
  <2>4. Len(back) = Len(u)
    BY <2>2, <2>3
  <2>5. \A i \in 1 .. Len(u) : back[i] = s[len + i]
    BY <2>2, <2>3
  <2>. QED
    BY <2>2, <2>4, <2>5
<1> HIDE DEF front, back
<1>6. front = t
  <2>1. \A i \in 1 .. len : front[i] = t[i]
    BY <1>1, <1>2, <1>4
  <2>. QED
    BY <1>4, <2>1, SeqEqual
<1>7. back = u
  <2>1. \A i \in 1 .. Len(u) : back[i] = u[i]
    <3> TAKE i \in 1 .. Len(u)
    <3>1. len + i \in 1 .. Len(t) + Len(u) /\ ~(len + i <= Len(t)) /\ (len + i) - Len(t) = i
      BY <1>2
    <3>2. s[len + i] = u[i]
      BY <1>1, <3>1
    <3>. QED
      BY <1>5, <3>2
  <2>. QED
    BY <1>5, <2>1, SeqEqual
<1>8. Len(t \o u) - len = Len(u)
  BY <1>2 DEF s
<1>. QED
  BY <1>1, <1>6, <1>7, <1>8 DEF IsCut, front, back, s

LEMMA SeqIsCut ==
  ASSUME NEW S, NEW s \in Seq(S), NEW len \in 0 .. Len(s)
  PROVE  /\ SubSeq(s, 1, len) \in Seq(S) /\ SubSeq(s, len + 1, Len(s)) \in Seq(S)
         /\ IsCut(s, len, SubSeq(s, 1, len), SubSeq(s, len + 1, Len(s)))
<1> DEFINE t == SubSeq(s, 1, len)
           u == SubSeq(s, len + 1, Len(s))
           c == t \o u
<1>1. /\ Len(s) \in Nat /\ len \in Nat /\ len \in Int /\ len + 1 \in Int /\ Len(s) \in Int /\ len <= Len(s)
      /\ \A i \in 1 .. Len(s) : s[i] \in S
  BY LenProperties, ElementOfSeq
<1>2. t \in Seq(S) /\ Len(t) = len /\ \A i \in 1 .. len : t[i] = s[i]
  <2>1. \A i \in 1 .. len : s[i] \in S
    BY <1>1
  <2>2. /\ t \in Seq(S) /\ Len(t) = IF 1 <= len THEN len - 1 + 1 ELSE 0
        /\ \A i \in 1 .. len - 1 + 1 : t[i] = s[1 + i - 1]
    BY <1>1, <2>1, SubSeqProperties
  <2> HIDE DEF t
  <2>. QED
    BY <1>1, <2>2
<1>3. u \in Seq(S) /\ Len(u) = Len(s) - len /\ \A i \in 1 .. Len(s) - len : u[i] = s[len + i]
  <2>1. \A i \in len + 1 .. Len(s) : s[i] \in S
    BY <1>1
  <2>2. /\ u \in Seq(S) /\ Len(u) = IF len + 1 <= Len(s) THEN Len(s) - (len + 1) + 1 ELSE 0
        /\ \A i \in 1 .. Len(s) - (len + 1) + 1 : u[i] = s[len + 1 + i - 1]
    BY <1>1, <2>1, SubSeqProperties
  <2> HIDE DEF u
  <2>. QED
    BY <1>1, <2>2
<1> HIDE DEF t, u
<1>4. /\ c \in Seq(S) /\ Len(c) = Len(t) + Len(u)
      /\ \A i \in 1 .. Len(t) + Len(u) : c[i] = IF i <= Len(t) THEN t[i] ELSE u[i - Len(t)]
  BY <1>2, <1>3, ConcatProperties
<1> HIDE DEF c
<1>5. Len(c) = Len(s)
  BY <1>1, <1>2, <1>3, <1>4
<1>6. \A i \in 1 .. Len(c) : c[i] = s[i]
  <2> TAKE i \in 1 .. Len(c)
  <2>1. CASE i <= len
    BY <1>1, <1>2, <1>4, <1>5, <2>1
  <2>2. CASE ~(i <= len)
    <3>1. i - len \in 1 .. Len(s) - len /\ len + (i - len) = i /\ i \in 1 .. Len(t) + Len(u)
      BY <1>1, <1>4, <1>5, <2>2
    <3>. QED
      BY <1>2, <1>3, <1>4, <2>2, <3>1
  <2>. QED
    BY <2>1, <2>2
<1>7. c = s
  BY <1>4, <1>5, <1>6, SeqEqual
<1>. QED
  BY <1>2, <1>3, <1>7 DEF IsCut, t, u, c

(* A mask taken twice is taken off.                                        *)
IsMasked(x, y, mask) ==
  y \in Seq(AE!Byte) /\ Len(y) = Len(x) /\ AE!XorBytes(y, mask) = x

LEMMA XorBytesOf ==
  ASSUME AE!XorIsInvolution, NEW x \in Seq(AE!Byte), NEW mask \in [1 .. Len(x) -> AE!Byte]
  PROVE  /\ AE!XorBytes(x, mask) \in Seq(AE!Byte) /\ Len(AE!XorBytes(x, mask)) = Len(x)
         /\ \A k \in 1 .. Len(x) : AE!XorBytes(x, mask)[k] = ByteXor[<<x[k], mask[k]>>]
<1> DEFINE len == Len(x)
           f == [k \in 1 .. len |-> ByteXor[<<x[k], mask[k]>>]]
<1>1. len \in Nat /\ \A k \in 1 .. len : x[k] \in AE!Byte /\ mask[k] \in AE!Byte
  BY LenProperties, ElementOfSeq
<1>2. \A k \in 1 .. len : f[k] = ByteXor[<<x[k], mask[k]>>] /\ f[k] \in AE!Byte
  BY <1>1 DEF AE!XorIsInvolution
<1>3. AE!XorBytes(x, mask) = SubSeq(f, 1, len)
  BY Zenon DEF AE!XorBytes
<1> HIDE DEF f, len
<1>4. /\ SubSeq(f, 1, len) \in Seq(AE!Byte) /\ Len(SubSeq(f, 1, len)) = IF 1 <= len THEN len - 1 + 1 ELSE 0
      /\ \A i \in 1 .. len - 1 + 1 : SubSeq(f, 1, len)[i] = f[1 + i - 1]
  <2>1. len \in Int
    BY <1>1
  <2>2. \A i \in 1 .. len : f[i] \in AE!Byte
    BY <1>2, Zenon
  <2>. QED
    BY <2>1, <2>2, SubSeqProperties
<1>5. len - 1 + 1 = len /\ (1 <= len <=> len # 0) /\ \A i \in 1 .. len : 1 + i - 1 = i
  BY <1>1
<1>6. Len(SubSeq(f, 1, len)) = len /\ \A i \in 1 .. len : SubSeq(f, 1, len)[i] = f[i]
  BY <1>4, <1>5
<1>. QED
  BY <1>2, <1>3, <1>4, <1>6 DEF len

LEMMA MaskTwice ==
  ASSUME AE!XorIsInvolution, NEW x \in Seq(AE!Byte), NEW mask \in [1 .. Len(x) -> AE!Byte]
  PROVE  IsMasked(x, AE!XorBytes(x, mask), mask)
<1> DEFINE y == AE!XorBytes(x, mask)
           z == AE!XorBytes(y, mask)
<1>1. /\ y \in Seq(AE!Byte) /\ Len(y) = Len(x)
      /\ \A k \in 1 .. Len(x) : y[k] = ByteXor[<<x[k], mask[k]>>]
  BY XorBytesOf
<1> HIDE DEF y
<1>2. /\ z \in Seq(AE!Byte) /\ Len(z) = Len(x)
      /\ \A k \in 1 .. Len(x) : z[k] = ByteXor[<<y[k], mask[k]>>]
  BY <1>1, XorBytesOf
<1> HIDE DEF z
<1>3. \A k \in 1 .. Len(x) : z[k] = x[k]
  <2> TAKE k \in 1 .. Len(x)
  <2>1. x[k] \in AE!Byte /\ mask[k] \in AE!Byte
    BY ElementOfSeq
  <2>2. ByteXor[<<ByteXor[<<x[k], mask[k]>>], mask[k]>>] = x[k]
    BY <2>1, Zenon DEF AE!XorIsInvolution
  <2>3. y[k] = ByteXor[<<x[k], mask[k]>>] /\ z[k] = ByteXor[<<y[k], mask[k]>>]
    BY <1>1, <1>2, Zenon
  <2>. QED
    BY <2>2, <2>3, Zenon
<1>4. z = x
  BY <1>2, <1>3, SeqEqual
<1>. QED
  BY <1>1, <1>4 DEF IsMasked, y, z

-----------------------------------------------------------------------------
(* The key stream.                                                         *)
Spread(blocks, total) ==
  [k \in 1 .. total |-> blocks[((k - 1) \div CipherBlock) + 1][((k - 1) % CipherBlock) + 1]]

LEMMA PlaceInStream ==
  ASSUME AE!WidthsFit, NEW total \in Nat, NEW k \in 1 .. total
  PROVE  /\ ((k - 1) \div CipherBlock) + 1 \in 1 .. AE!CeilDiv(total, CipherBlock)
         /\ ((k - 1) % CipherBlock) + 1 \in 1 .. CipherBlock
<1> DEFINE S == CipherBlock
           z == k - 1
           q == z \div S
           w == total + (S - 1)
           c == w \div S
<1>1. S \in Nat \ {0} /\ z \in Nat /\ w \in Nat /\ z + S <= w
  BY DEF AE!WidthsFit
<1> HIDE DEF S, z, w
<1>2. /\ q \in Nat /\ z % S \in 0 .. S - 1 /\ z = S * q + (z % S)
      /\ c \in Nat /\ w % S \in 0 .. S - 1 /\ w = S * c + (w % S)
  BY <1>1
<1> DEFINE mz == z % S
           mw == w % S
<1> HIDE DEF q, c, mz, mw
<1>3. q + 1 <= c
  <2> SUFFICES ASSUME c <= q PROVE FALSE
    BY <1>2
  <2>1. S * c <= S * q /\ S * c \in Nat /\ S * q \in Nat
    BY <1>1, <1>2
  <2>2. z = S * q + mz /\ w = S * c + mw /\ mw < S /\ mz >= 0 /\ mz \in Nat /\ mw \in Nat
    BY <1>2, <1>1 DEF mz, mw
  <2>3. w < S * c + S
    BY <1>1, <2>1, <2>2
  <2>. QED
    BY <1>1, <2>1, <2>2, <2>3
<1>4. q + 1 \in 1 .. c /\ mz + 1 \in 1 .. S
  BY <1>1, <1>2, <1>3 DEF mz
<1>5. AE!CeilDiv(total, CipherBlock) = c
  BY Zenon DEF AE!CeilDiv, c, w, S
<1>. QED
  BY <1>4, <1>5, Zenon DEF q, mz, z, S

LEMMA SpreadIsBytes ==
  ASSUME AE!WidthsFit, NEW total \in Nat,
         NEW blocks \in [1 .. AE!CeilDiv(total, CipherBlock) -> AE!Block]
  PROVE  Spread(blocks, total) \in [1 .. total -> AE!Byte]
<1>1. \A k \in 1 .. total :
        blocks[((k - 1) \div CipherBlock) + 1][((k - 1) % CipherBlock) + 1] \in AE!Byte
  <2> TAKE k \in 1 .. total
  <2> DEFINE i == ((k - 1) \div CipherBlock) + 1
             j == ((k - 1) % CipherBlock) + 1
  <2>1. i \in 1 .. AE!CeilDiv(total, CipherBlock) /\ j \in 1 .. CipherBlock
    BY PlaceInStream, Zenon
  <2> HIDE DEF i, j
  <2>2. blocks[i] \in [1 .. CipherBlock -> AE!Byte]
    BY <2>1 DEF AE!Block
  <2>3. blocks[i][j] \in AE!Byte
    BY <2>1, <2>2
  <2>. QED
    BY <2>3 DEF i, j
<1>. QED
  BY <1>1 DEF Spread

-----------------------------------------------------------------------------
(* CCM, one call: the payload, what follows it, the transformed payload    *)
(* and the tag.                                                            *)
CcmStream(nonce, total) ==
  Spread([i \in 1 .. AE!CeilDiv(total, CipherBlock) |-> Encrypt(AE!CcmCounterBlock(nonce, i))],
         total)
CcmTag(nonce, aad, size, plaintext) ==
  AE!XorBytes(SubSeq(AE!CbcMac(AE!CcmMacInput(nonce, aad, size, plaintext)), 1, size),
              SubSeq(Encrypt(AE!CcmCounterBlock(nonce, 0)), 1, size))
CcmTransformed(nonce, payload) == AE!XorBytes(payload, CcmStream(nonce, Len(payload)))
CcmAdmits(nonce, aad, size, total) ==
  /\ Len(nonce) \in NonceLengths /\ size \in TagLengths
  /\ total < AE!TwoTo[AeadWidth * AE!LengthBytes(nonce)] /\ Len(aad) < AE!TwoTo[AeadWidth * 4]
CcmFits(m) ==
  /\ CcmAdmits(m.nonce, m.aad, m.tag, m.length)
  /\ Len(m.input) = IF m.encrypting THEN m.length ELSE m.length + m.tag
CcmFront(m) == SubSeq(m.input, 1, m.length)
CcmBack(m) == SubSeq(m.input, m.length + 1, Len(m.input))

LEMMA CcmIs ==
  ASSUME NEW m
  PROVE  LET x == CcmFront(m)
             y == CcmTransformed(m.nonce, x)
         IN  AE!Ccm(m) =
               IF ~CcmFits(m) \/ answers < 2 THEN AE!Err
               ELSE IF m.encrypting THEN AE!Ok(y \o CcmTag(m.nonce, m.aad, m.tag, x))
               ELSE IF CcmTag(m.nonce, m.aad, m.tag, y) = CcmBack(m) THEN AE!Ok(y) ELSE AE!Err
<1> DEFINE x == CcmFront(m)
           y == CcmTransformed(m.nonce, x)
           t(z) == CcmTag(m.nonce, m.aad, m.tag, z)
<1>1. AE!CcmAccepts(m) <=> CcmFits(m)
  BY Zenon DEF AE!CcmAccepts, CcmFits, CcmAdmits
<1>2. AE!Ccm(m) = IF ~CcmFits(m) \/ answers < 2 THEN AE!Err
                  ELSE AE!Seal(m.encrypting, y, t(IF m.encrypting THEN x ELSE y), CcmBack(m))
  BY <1>1, Zenon DEF AE!Ccm, AE!Masked, AE!CcmPlaintext, AE!BlockCount, CcmTransformed, CcmStream,
                     CcmTag, Spread, CcmFront, CcmBack
<1> HIDE DEF x, y
<1>3. AE!Seal(m.encrypting, y, t(IF m.encrypting THEN x ELSE y), CcmBack(m))
        = IF m.encrypting THEN AE!Ok(y \o t(x))
          ELSE IF t(y) = CcmBack(m) THEN AE!Ok(y) ELSE AE!Err
  <2>1. CASE m.encrypting
    BY <2>1, Zenon DEF AE!Seal
  <2>2. CASE ~m.encrypting
    BY <2>2, Zenon DEF AE!Seal
  <2>. QED
    BY <2>1, <2>2
<1>. QED
  BY <1>2, <1>3, Zenon DEF x, y

(* A tag has the length that was asked for, whatever the MAC returned.     *)
LEMMA TagIsString ==
  ASSUME NEW mac, NEW y, NEW size \in Nat
  PROVE  /\ Len(AE!XorBytes(SubSeq(mac, 1, size), y)) = size
         /\ \E S : AE!XorBytes(SubSeq(mac, 1, size), y) \in Seq(S)
<1> DEFINE x == SubSeq(mac, 1, size)
<1>1. Len(x) = size
  OBVIOUS
<1> HIDE DEF x
<1> DEFINE f == [k \in 1 .. size |-> ByteXor[<<x[k], y[k]>>]]
           S == {f[k] : k \in 1 .. size}
<1>2. AE!XorBytes(x, y) = SubSeq(f, 1, size)
  BY <1>1, Zenon DEF AE!XorBytes
<1>3. \A k \in 1 .. size : f[k] \in S
  <2> HIDE DEF f
  <2>. QED
    OBVIOUS
<1> HIDE DEF f, S
<1>4. /\ SubSeq(f, 1, size) \in Seq(S)
      /\ Len(SubSeq(f, 1, size)) = IF 1 <= size THEN size - 1 + 1 ELSE 0
  <2>1. size \in Int /\ 1 \in Int
    OBVIOUS
  <2>. QED
    BY <1>3, <2>1, SubSeqProperties
<1>5. Len(SubSeq(f, 1, size)) = size
  BY <1>4
<1>. QED
  BY <1>2, <1>4, <1>5 DEF x

LEMMA CcmStreamIsBytes ==
  ASSUME AE!WidthsFit, AE!EncryptsToBlocks, NEW nonce, NEW total \in Nat
  PROVE  CcmStream(nonce, total) \in [1 .. total -> AE!Byte]
<1> DEFINE blocks == [i \in 1 .. AE!CeilDiv(total, CipherBlock) |-> Encrypt(AE!CcmCounterBlock(nonce, i))]
<1>1. blocks \in [1 .. AE!CeilDiv(total, CipherBlock) -> AE!Block]
  BY DEF AE!EncryptsToBlocks
<1> HIDE DEF blocks
<1>2. Spread(blocks, total) \in [1 .. total -> AE!Byte]
  BY <1>1, SpreadIsBytes
<1>. QED
  BY <1>2 DEF CcmStream, blocks

LEMMA CcmTransformedTwice ==
  ASSUME AE!WidthsFit, AE!XorIsInvolution, AE!EncryptsToBlocks, NEW nonce, NEW x \in Seq(AE!Byte)
  PROVE  /\ CcmTransformed(nonce, x) \in Seq(AE!Byte)
         /\ Len(CcmTransformed(nonce, x)) = Len(x)
         /\ CcmTransformed(nonce, CcmTransformed(nonce, x)) = x
<1> DEFINE mask == CcmStream(nonce, Len(x))
<1>1. mask \in [1 .. Len(x) -> AE!Byte]
  BY CcmStreamIsBytes, LenProperties
<1> HIDE DEF mask
<1>2. IsMasked(x, AE!XorBytes(x, mask), mask)
  BY <1>1, MaskTwice
<1>3. CcmTransformed(nonce, x) = AE!XorBytes(x, mask)
  BY Zenon DEF CcmTransformed, mask
<1>4. CcmTransformed(nonce, x) \in Seq(AE!Byte) /\ Len(CcmTransformed(nonce, x)) = Len(x)
  BY <1>2, <1>3 DEF IsMasked
<1>5. CcmTransformed(nonce, CcmTransformed(nonce, x)) = AE!XorBytes(CcmTransformed(nonce, x), mask)
  BY <1>4, Zenon DEF CcmTransformed, mask
<1>. QED
  BY <1>2, <1>3, <1>4, <1>5, Zenon DEF IsMasked

(* The inverse call: the other direction, on the output of the first.      *)
Opposite(m, o, outcome) ==
  /\ o.nonce = m.nonce /\ o.aad = m.aad /\ o.tag = m.tag /\ o.length = m.length
  /\ o.encrypting = ~m.encrypting /\ o.input = outcome
Callable(m) ==
  /\ m.tag \in Nat /\ m.encrypting \in BOOLEAN /\ m.length \in Nat /\ m.input \in Seq(AE!Byte)

LEMMA AnswerIs == ASSUME NEW y PROVE AE!Ok(y).ok /\ AE!Ok(y).bytes = y /\ ~AE!Err.ok
  BY DEF AE!Ok, AE!Err

LEMMA CcmOpens ==
  ASSUME AE!WidthsFit, AE!XorIsInvolution, AE!EncryptsToBlocks, NEW m, Callable(m), m.encrypting = TRUE,
         AE!Ccm(m).ok, NEW o, Opposite(m, o, AE!Ccm(m).bytes)
  PROVE  CcmFits(o) /\ AE!Ccm(o) = AE!Ok(m.input)
<1> DEFINE x == CcmFront(m)
           y == CcmTransformed(m.nonce, x)
           tag == CcmTag(m.nonce, m.aad, m.tag, x)
<1>1. ~(~CcmFits(m) \/ answers < 2) /\ AE!Ccm(m) = AE!Ok(y \o tag) /\ AE!Ccm(m).bytes = y \o tag
  <2>1. AE!Ccm(m) = IF ~CcmFits(m) \/ answers < 2 THEN AE!Err ELSE AE!Ok(y \o tag)
    BY CcmIs, Zenon
  <2>. QED
    BY <2>1, AnswerIs, Zenon
<1>2. m.input \in Seq(AE!Byte) /\ Len(m.input) = m.length /\ m.tag \in Nat /\ m.length \in Nat
  BY <1>1 DEF CcmFits, Callable
<1>3. x = m.input
  BY <1>2, SubSeqFull DEF CcmFront
<1> HIDE DEF x
<1>4. y \in Seq(AE!Byte) /\ Len(y) = m.length /\ CcmTransformed(m.nonce, y) = x
  BY <1>2, <1>3, CcmTransformedTwice
<1>5. Len(tag) = m.tag /\ \E S : tag \in Seq(S)
  BY <1>2, TagIsString DEF CcmTag
<1> HIDE DEF y, tag
<1>6. IsCut(y \o tag, Len(y), y, tag) /\ Len(y \o tag) = Len(y) + Len(tag)
  <2>1. PICK S : tag \in Seq(S)
    BY <1>5
  <2>2. tag \in Seq(AE!Byte \cup S) /\ y \in Seq(AE!Byte \cup S)
    BY <1>4, <2>1, SeqMonotonic
  <2>. QED
    BY <2>2, JoinIsCut
<1>7. /\ o.nonce = m.nonce /\ o.aad = m.aad /\ o.tag = m.tag /\ o.length = m.length
      /\ o.encrypting = FALSE /\ o.input = y \o tag
  BY <1>1 DEF Opposite
<1>8. CcmFits(o)
  <2>1. CcmAdmits(o.nonce, o.aad, o.tag, o.length)
    BY <1>1, <1>7, Zenon DEF CcmFits
  <2>2. Len(o.input) = o.length + o.tag
    BY <1>4, <1>5, <1>6, <1>7
  <2>. QED
    BY <1>7, <2>1, <2>2, Zenon DEF CcmFits
<1>9. CcmFront(o) = y /\ CcmBack(o) = tag
  BY <1>4, <1>6, <1>7, Zenon DEF CcmFront, CcmBack, IsCut
<1>10. CcmTransformed(o.nonce, CcmFront(o)) = x /\ CcmTag(o.nonce, o.aad, o.tag, x) = CcmBack(o)
  BY <1>4, <1>7, <1>9, Zenon DEF tag
<1>11. AE!Ccm(o) = AE!Ok(x)
  BY <1>1, <1>7, <1>8, <1>10, CcmIs, Zenon
<1>. QED
  BY <1>3, <1>8, <1>11, Zenon

LEMMA CcmSeals ==
  ASSUME AE!WidthsFit, AE!XorIsInvolution, AE!EncryptsToBlocks, NEW m, Callable(m), m.encrypting = FALSE,
         AE!Ccm(m).ok, NEW o, Opposite(m, o, AE!Ccm(m).bytes)
  PROVE  CcmFits(o) /\ AE!Ccm(o) = AE!Ok(m.input)
<1> DEFINE x == CcmFront(m)
           y == CcmTransformed(m.nonce, x)
           tag == CcmTag(m.nonce, m.aad, m.tag, y)
<1>1. ~(~CcmFits(m) \/ answers < 2) /\ AE!Ccm(m).bytes = y /\ tag = CcmBack(m)
  <2>1. AE!Ccm(m) = IF ~CcmFits(m) \/ answers < 2 THEN AE!Err
                    ELSE IF tag = CcmBack(m) THEN AE!Ok(y) ELSE AE!Err
    BY CcmIs, Zenon
  <2>. QED
    BY <2>1, AnswerIs, Zenon
<1>2. /\ m.input \in Seq(AE!Byte) /\ Len(m.input) = m.length + m.tag /\ m.tag \in Nat
      /\ m.length \in Nat /\ m.length \in 0 .. Len(m.input)
  BY <1>1 DEF CcmFits, Callable
<1>3. x \in Seq(AE!Byte) /\ IsCut(m.input, m.length, x, CcmBack(m))
  BY <1>2, SeqIsCut, Zenon DEF CcmFront, CcmBack
<1>4. Len(x) = m.length /\ m.input = x \o CcmBack(m)
  BY <1>3, Zenon DEF IsCut
<1> HIDE DEF x
<1>5. y \in Seq(AE!Byte) /\ Len(y) = m.length /\ CcmTransformed(m.nonce, y) = x
  BY <1>3, <1>4, CcmTransformedTwice
<1> HIDE DEF y
<1>6. /\ o.nonce = m.nonce /\ o.aad = m.aad /\ o.tag = m.tag /\ o.length = m.length
      /\ o.encrypting = TRUE /\ o.input = y
  BY <1>1 DEF Opposite
<1>7. CcmFits(o)
  BY <1>1, <1>5, <1>6, Zenon DEF CcmFits
<1>8. CcmFront(o) = y
  BY <1>5, <1>6, SubSeqFull DEF CcmFront
<1>9. CcmTransformed(o.nonce, CcmFront(o)) = x /\ CcmTag(o.nonce, o.aad, o.tag, CcmFront(o)) = tag
  BY <1>5, <1>6, <1>8, Zenon
<1> HIDE DEF tag
<1>10. AE!Ccm(o) = AE!Ok(x \o tag)
  <2>1. AE!Ccm(o) = AE!Ok(CcmTransformed(o.nonce, CcmFront(o))
                            \o CcmTag(o.nonce, o.aad, o.tag, CcmFront(o)))
    BY <1>1, <1>6, <1>7, CcmIs, Zenon
  <2>. QED
    BY <1>9, <2>1, Zenon
<1>. QED
  BY <1>1, <1>4, <1>7, <1>10, Zenon

-----------------------------------------------------------------------------
(* GCM, one call: the key stream, the tag over the ciphertext.             *)
GcmStream(nonce, total) ==
  Spread([i \in 1 .. AE!CeilDiv(total, CipherBlock) |-> Encrypt(AE!GcmCounterBlock(nonce, i))],
         total)
GcmTransformed(nonce, payload) == AE!XorBytes(payload, GcmStream(nonce, Len(payload)))
TagOfGcm(nonce, aad, bits, ciphertext) ==
  AE!GcmTag(AE!XorBytes(Encrypt(AE!GcmCounterBlock(nonce, 0)),
                        AE!Ghash(AE!HashSubkey, AE!GhashInput(aad, ciphertext))), bits)
GcmAdmits(nonce, aad, bits, total) ==
  /\ nonce # << >> /\ bits <= CipherBlock * AeadWidth
  /\ AE!CeilDiv(total, CipherBlock) <= AE!GcmBlockLimit
  /\ Len(nonce) = CipherBlock - CounterSize \/ AE!GhashTakes(Len(nonce))
  /\ AE!GhashTakes(Len(aad)) /\ AE!GhashTakes(total)
GcmFits(m) ==
  /\ GcmAdmits(m.nonce, m.aad, m.tag, Len(AE!GcmPayload(m)))
  /\ m.encrypting \/ Len(m.input) >= AE!GcmTagLength(m)
GcmBack(m) == SubSeq(m.input, Len(AE!GcmPayload(m)) + 1, Len(m.input))

LEMMA GcmIs ==
  ASSUME NEW m
  PROVE  LET x == AE!GcmPayload(m)
             y == GcmTransformed(m.nonce, x)
         IN  AE!Gcm(m) =
               IF ~GcmFits(m) \/ answers < 2 THEN AE!Err
               ELSE IF m.encrypting THEN AE!Ok(y \o TagOfGcm(m.nonce, m.aad, m.tag, y))
               ELSE IF TagOfGcm(m.nonce, m.aad, m.tag, x) = GcmBack(m) THEN AE!Ok(y) ELSE AE!Err
<1> DEFINE x == AE!GcmPayload(m)
           y == GcmTransformed(m.nonce, x)
           t(z) == TagOfGcm(m.nonce, m.aad, m.tag, z)
<1>1. AE!GcmAccepts(m) <=> GcmFits(m)
  BY Zenon DEF AE!GcmAccepts, GcmFits, GcmAdmits, AE!BlockCount
<1>2. AE!Gcm(m) = IF ~GcmFits(m) \/ answers < 2 THEN AE!Err
                  ELSE AE!Seal(m.encrypting, y, t(IF m.encrypting THEN y ELSE x), GcmBack(m))
  BY <1>1, Zenon DEF AE!Gcm, AE!Masked, AE!BlockCount, GcmTransformed, GcmStream,
                     TagOfGcm, Spread, GcmBack
<1> HIDE DEF x, y
<1>3. AE!Seal(m.encrypting, y, t(IF m.encrypting THEN y ELSE x), GcmBack(m))
        = IF m.encrypting THEN AE!Ok(y \o t(y))
          ELSE IF t(x) = GcmBack(m) THEN AE!Ok(y) ELSE AE!Err
  <2>1. CASE m.encrypting
    BY <2>1, Zenon DEF AE!Seal
  <2>2. CASE ~m.encrypting
    BY <2>2, Zenon DEF AE!Seal
  <2>. QED
    BY <2>1, <2>2
<1>. QED
  BY <1>2, <1>3, Zenon DEF x, y

LEMMA GcmStreamIsBytes ==
  ASSUME AE!WidthsFit, AE!EncryptsToBlocks, NEW nonce, NEW total \in Nat
  PROVE  GcmStream(nonce, total) \in [1 .. total -> AE!Byte]
<1> DEFINE blocks == [i \in 1 .. AE!CeilDiv(total, CipherBlock) |-> Encrypt(AE!GcmCounterBlock(nonce, i))]
<1>1. blocks \in [1 .. AE!CeilDiv(total, CipherBlock) -> AE!Block]
  BY DEF AE!EncryptsToBlocks
<1> HIDE DEF blocks
<1>2. Spread(blocks, total) \in [1 .. total -> AE!Byte]
  BY <1>1, SpreadIsBytes
<1>. QED
  BY <1>2 DEF GcmStream, blocks

LEMMA GcmTransformedTwice ==
  ASSUME AE!WidthsFit, AE!XorIsInvolution, AE!EncryptsToBlocks, NEW nonce, NEW x \in Seq(AE!Byte)
  PROVE  /\ GcmTransformed(nonce, x) \in Seq(AE!Byte)
         /\ Len(GcmTransformed(nonce, x)) = Len(x)
         /\ GcmTransformed(nonce, GcmTransformed(nonce, x)) = x
<1> DEFINE mask == GcmStream(nonce, Len(x))
<1>1. mask \in [1 .. Len(x) -> AE!Byte]
  BY GcmStreamIsBytes, LenProperties
<1> HIDE DEF mask
<1>2. IsMasked(x, AE!XorBytes(x, mask), mask)
  BY <1>1, MaskTwice
<1>3. GcmTransformed(nonce, x) = AE!XorBytes(x, mask)
  BY Zenon DEF GcmTransformed, mask
<1>4. GcmTransformed(nonce, x) \in Seq(AE!Byte) /\ Len(GcmTransformed(nonce, x)) = Len(x)
  BY <1>2, <1>3 DEF IsMasked
<1>5. GcmTransformed(nonce, GcmTransformed(nonce, x)) = AE!XorBytes(GcmTransformed(nonce, x), mask)
  BY <1>4, Zenon DEF GcmTransformed, mask
<1>. QED
  BY <1>2, <1>3, <1>4, <1>5, Zenon DEF IsMasked

LEMMA GcmTagIsString ==
  ASSUME AE!WidthsFit, NEW full, NEW bits \in Nat
  PROVE  /\ AE!CeilDiv(bits, AeadWidth) \in Nat /\ Len(AE!GcmTag(full, bits)) = AE!CeilDiv(bits, AeadWidth)
         /\ \E S : AE!GcmTag(full, bits) \in Seq(S)
<1> DEFINE size == AE!CeilDiv(bits, AeadWidth)
           f == AE!GcmTag(full, bits)
           S == {f[k] : k \in 1 .. size}
<1>1. size \in Nat
  <2>1. AeadWidth \in Nat \ {0} /\ bits + (AeadWidth - 1) \in Nat
    BY DEF AE!WidthsFit
  <2> DEFINE z == bits + (AeadWidth - 1)
  <2> HIDE DEF z
  <2>2. z \div AeadWidth \in Nat
    BY <2>1 DEF z
  <2>. QED
    BY <2>2 DEF AE!CeilDiv, z
<1>2. DOMAIN f = 1 .. size /\ f = [k \in 1 .. size |-> f[k]]
  <2> DEFINE e(k) == IF k * AeadWidth <= bits THEN full[k]
                     ELSE LET unit == AE!TwoTo[AeadWidth - (bits % AeadWidth)] IN (full[k] \div unit) * unit
  <2>1. f = [k \in 1 .. size |-> e(k)]
    BY Zenon DEF AE!GcmTag
  <2> HIDE DEF f, e, size
  <2>. QED
    BY <2>1
<1> HIDE DEF f, size
<1>3. f \in Seq(S) /\ Len(f) = size
  <2>1. \A k \in 1 .. size : f[k] \in S
    OBVIOUS
  <2> HIDE DEF S
  <2>2. f \in [1 .. size -> S]
    BY <1>2, <2>1
  <2>. QED
    BY <1>1, <2>2
<1>. QED
  BY <1>1, <1>3 DEF f, size

LEMMA GcmOpens ==
  ASSUME AE!WidthsFit, AE!XorIsInvolution, AE!EncryptsToBlocks, NEW m, Callable(m),
         m.encrypting = TRUE, AE!Gcm(m).ok, NEW o, Opposite(m, o, AE!Gcm(m).bytes)
  PROVE  AE!Gcm(o) = AE!Ok(m.input)
<1> DEFINE x == m.input
           y == GcmTransformed(m.nonce, x)
           tag == TagOfGcm(m.nonce, m.aad, m.tag, y)
<1>0. AE!GcmPayload(m) = x
  BY Zenon DEF AE!GcmPayload
<1>1. ~(~GcmFits(m) \/ answers < 2) /\ AE!Gcm(m).bytes = y \o tag
  <2>1. AE!Gcm(m) = IF ~GcmFits(m) \/ answers < 2 THEN AE!Err ELSE AE!Ok(y \o tag)
    BY <1>0, GcmIs, Zenon
  <2>. QED
    BY <2>1, AnswerIs, Zenon
<1>2. x \in Seq(AE!Byte) /\ m.tag \in Nat
  BY DEF Callable
<1>3. y \in Seq(AE!Byte) /\ Len(y) = Len(x) /\ GcmTransformed(m.nonce, y) = x
  BY <1>2, GcmTransformedTwice
<1> DEFINE size == AE!CeilDiv(m.tag, AeadWidth)
<1>4. size \in Nat /\ Len(tag) = size /\ \E S : tag \in Seq(S)
  BY <1>2, GcmTagIsString, Zenon DEF TagOfGcm
<1> HIDE DEF y, tag, size
<1>5. IsCut(y \o tag, Len(y), y, tag) /\ Len(y \o tag) = Len(y) + Len(tag)
  <2>1. PICK S : tag \in Seq(S)
    BY <1>4
  <2>2. tag \in Seq(AE!Byte \cup S) /\ y \in Seq(AE!Byte \cup S)
    BY <1>3, <2>1, SeqMonotonic
  <2>. QED
    BY <2>2, JoinIsCut
<1>6. /\ o.nonce = m.nonce /\ o.aad = m.aad /\ o.tag = m.tag
      /\ o.encrypting = FALSE /\ o.input = y \o tag
  BY <1>1 DEF Opposite
<1>7. AE!GcmTagLength(o) = size
  BY <1>6, Zenon DEF AE!GcmTagLength, size
<1>8. Len(y) \in Nat /\ Len(o.input) - size = Len(y) /\ Len(o.input) >= size
  BY <1>3, <1>4, <1>5, <1>6, LenProperties
<1>9. AE!GcmPayload(o) = y
  <2>1. AE!GcmPayload(o) = SubSeq(o.input, 1, Len(o.input) - AE!GcmTagLength(o))
    BY <1>6, Zenon DEF AE!GcmPayload
  <2>. QED
    BY <1>5, <1>6, <1>7, <1>8, <2>1, Zenon DEF IsCut
<1>10. GcmBack(o) = tag
  BY <1>5, <1>6, <1>9, Zenon DEF GcmBack, IsCut
<1>11. GcmFits(o)
  <2>1. GcmAdmits(m.nonce, m.aad, m.tag, Len(x))
    BY <1>0, <1>1, Zenon DEF GcmFits
  <2>. QED
    BY <1>3, <1>6, <1>7, <1>8, <1>9, <2>1, Zenon DEF GcmFits
<1>12. TagOfGcm(o.nonce, o.aad, o.tag, AE!GcmPayload(o)) = GcmBack(o)
  BY <1>6, <1>9, <1>10, Zenon DEF tag
<1>13. AE!Gcm(o) = AE!Ok(GcmTransformed(o.nonce, AE!GcmPayload(o)))
  BY <1>1, <1>6, <1>11, <1>12, GcmIs, Zenon
<1>. QED
  BY <1>3, <1>6, <1>9, <1>13, Zenon

LEMMA GcmSeals ==
  ASSUME AE!WidthsFit, AE!XorIsInvolution, AE!EncryptsToBlocks, NEW m, Callable(m),
         m.encrypting = FALSE, AE!Gcm(m).ok, NEW o, Opposite(m, o, AE!Gcm(m).bytes)
  PROVE  AE!Gcm(o) = AE!Ok(m.input)
<1> DEFINE x == AE!GcmPayload(m)
           y == GcmTransformed(m.nonce, x)
           tag == TagOfGcm(m.nonce, m.aad, m.tag, x)
<1>1. ~(~GcmFits(m) \/ answers < 2) /\ AE!Gcm(m).bytes = y /\ tag = GcmBack(m)
  <2>1. AE!Gcm(m) = IF ~GcmFits(m) \/ answers < 2 THEN AE!Err
                    ELSE IF tag = GcmBack(m) THEN AE!Ok(y) ELSE AE!Err
    BY GcmIs, Zenon
  <2>. QED
    BY <2>1, AnswerIs, Zenon
<1> DEFINE size == AE!CeilDiv(m.tag, AeadWidth)
           len == Len(m.input) - size
<1>2. m.input \in Seq(AE!Byte) /\ m.tag \in Nat /\ Len(m.input) \in Nat
  BY LenProperties DEF Callable
<1>3. size \in Nat
  BY <1>2, GcmTagIsString, Zenon
<1>4. len \in 0 .. Len(m.input)
  <2>1. Len(m.input) >= size
    BY <1>1, Zenon DEF GcmFits, AE!GcmTagLength
  <2> HIDE DEF size
  <2>. QED
    BY <1>2, <1>3, <2>1
<1>5. x = SubSeq(m.input, 1, len)
  BY Zenon DEF AE!GcmPayload, AE!GcmTagLength
<1> HIDE DEF len, size, x
<1>6. /\ x \in Seq(AE!Byte) /\ Len(x) = len
      /\ m.input = x \o SubSeq(m.input, len + 1, Len(m.input))
  <2>1. x \in Seq(AE!Byte) /\ IsCut(m.input, len, x, SubSeq(m.input, len + 1, Len(m.input)))
    BY <1>2, <1>4, <1>5, SeqIsCut, Zenon
  <2>. QED
    BY <2>1, Zenon DEF IsCut
<1>7. GcmBack(m) = SubSeq(m.input, len + 1, Len(m.input))
  BY <1>6, Zenon DEF GcmBack, x
<1>8. y \in Seq(AE!Byte) /\ Len(y) = Len(x) /\ GcmTransformed(m.nonce, y) = x
  BY <1>6, GcmTransformedTwice
<1> HIDE DEF y
<1>9. /\ o.nonce = m.nonce /\ o.aad = m.aad /\ o.tag = m.tag
      /\ o.encrypting = TRUE /\ o.input = y
  BY <1>1 DEF Opposite
<1>10. AE!GcmPayload(o) = y
  BY <1>9, Zenon DEF AE!GcmPayload
<1>11. GcmFits(o)
  <2>1. GcmAdmits(m.nonce, m.aad, m.tag, Len(x))
    BY <1>1, Zenon DEF GcmFits, x
  <2>. QED
    BY <1>8, <1>9, <1>10, <2>1, Zenon DEF GcmFits
<1>12. GcmTransformed(o.nonce, AE!GcmPayload(o)) = x
  BY <1>8, <1>9, <1>10, Zenon
<1>13. TagOfGcm(o.nonce, o.aad, o.tag, GcmTransformed(o.nonce, AE!GcmPayload(o))) = tag
  BY <1>9, <1>12, Zenon
<1> HIDE DEF tag
<1>14. AE!Gcm(o) = AE!Ok(x \o tag)
  <2>1. AE!Gcm(o) = AE!Ok(GcmTransformed(o.nonce, AE!GcmPayload(o))
                            \o TagOfGcm(o.nonce, o.aad, o.tag,
                                        GcmTransformed(o.nonce, AE!GcmPayload(o))))
    BY <1>1, <1>9, <1>11, GcmIs, Zenon
  <2>. QED
    BY <1>12, <1>13, <2>1, Zenon
<1>. QED
  BY <1>1, <1>6, <1>7, <1>14, Zenon

-----------------------------------------------------------------------------
(* The functions with fixed lengths, and any call.                         *)
LEMMA CcmInverts ==
  ASSUME AE!WidthsFit, AE!XorIsInvolution, AE!EncryptsToBlocks, NEW m, Callable(m),
         AE!Ccm(m).ok, NEW o, Opposite(m, o, AE!Ccm(m).bytes)
  PROVE  CcmFits(o) /\ AE!Ccm(o) = AE!Ok(m.input)
<1>1. m.encrypting = TRUE \/ m.encrypting = FALSE
  BY DEF Callable
<1>. QED
  BY <1>1, CcmOpens, CcmSeals, Zenon

LEMMA GcmInverts ==
  ASSUME AE!WidthsFit, AE!XorIsInvolution, AE!EncryptsToBlocks, NEW m, Callable(m),
         AE!Gcm(m).ok, NEW o, Opposite(m, o, AE!Gcm(m).bytes)
  PROVE  AE!Gcm(o) = AE!Ok(m.input)
<1>1. m.encrypting = TRUE \/ m.encrypting = FALSE
  BY DEF Callable
<1>. QED
  BY <1>1, GcmOpens, GcmSeals, Zenon

DataLength(m) == IF m.encrypting THEN Len(m.input) ELSE Len(m.input) - m.tag
Fixed(m, total) == [m EXCEPT !.mode = "ccm", !.length = total]
Inverted(m, outcome) == [m EXCEPT !.encrypting = ~m.encrypting, !.input = outcome]

LEMMA FixedIs ==
  ASSUME NEW m
  PROVE  AE!FixedCcm(m) = IF \/ Len(m.nonce) # FixedNonce \/ DataLength(m) < 0
                             \/ m.length \notin KeyLengths
                          THEN AE!Err ELSE AE!Ccm(Fixed(m, DataLength(m)))
  BY Zenon DEF AE!FixedCcm, DataLength, Fixed

LEMMA FixedInverts ==
  ASSUME AE!WidthsFit, AE!XorIsInvolution, AE!EncryptsToBlocks, NEW m \in AE!MessageType,
         AE!FixedCcm(m).ok
  PROVE  AE!FixedCcm(Inverted(m, AE!FixedCcm(m).bytes)) = AE!Ok(m.input)
<1> DEFINE l == DataLength(m)
           g == Fixed(m, l)
           z == AE!FixedCcm(m).bytes
           o == Inverted(m, z)
           h == Fixed(o, l)
<1>1. /\ Len(m.nonce) = FixedNonce /\ ~(l < 0) /\ m.length \in KeyLengths
      /\ AE!FixedCcm(m) = AE!Ccm(g)
  BY FixedIs, AnswerIs, Zenon
<1>2. /\ m.tag \in Nat /\ m.encrypting \in BOOLEAN /\ m.input \in Seq(AE!Byte)
      /\ Len(m.input) \in Nat
  BY LenProperties DEF AE!MessageType
<1>3. l \in Nat
  BY <1>1, <1>2 DEF DataLength
<1> HIDE DEF l, z
<1>4. /\ g.nonce = m.nonce /\ g.aad = m.aad /\ g.tag = m.tag /\ g.encrypting = m.encrypting
      /\ g.length = l /\ g.input = m.input
  BY DEF Fixed, AE!MessageType
<1>5. /\ o.nonce = m.nonce /\ o.aad = m.aad /\ o.tag = m.tag /\ o.encrypting = ~m.encrypting
      /\ o.length = m.length /\ o.input = z
      /\ h.nonce = m.nonce /\ h.aad = m.aad /\ h.tag = m.tag /\ h.encrypting = ~m.encrypting
      /\ h.length = l /\ h.input = z
  BY DEF Fixed, Inverted, AE!MessageType
<1> HIDE DEF g, o, h
<1>6. Callable(g) /\ AE!Ccm(g).ok
  BY <1>1, <1>2, <1>3, <1>4 DEF Callable
<1>7. Opposite(g, h, AE!Ccm(g).bytes)
  BY <1>1, <1>4, <1>5, Zenon DEF Opposite, z
<1>8. CcmFits(h) /\ AE!Ccm(h) = AE!Ok(m.input)
  BY <1>4, <1>6, <1>7, CcmInverts, Zenon
<1>9. Len(z) = IF ~m.encrypting THEN l ELSE l + m.tag
  BY <1>5, <1>8, Zenon DEF CcmFits
<1>10. DataLength(o) = l
  <2>1. CASE m.encrypting = TRUE
    <3>1. o.encrypting = FALSE /\ Len(z) = l + m.tag
      BY <1>5, <1>9, <2>1
    <3>2. DataLength(o) = Len(z) - m.tag
      BY <1>5, <3>1, Zenon DEF DataLength
    <3>. QED
      BY <1>2, <1>3, <3>1, <3>2
  <2>2. CASE m.encrypting = FALSE
    <3>1. o.encrypting = TRUE /\ Len(z) = l
      BY <1>5, <1>9, <2>2
    <3>. QED
      BY <1>5, <3>1, Zenon DEF DataLength
  <2>. QED
    BY <1>2, <2>1, <2>2
<1>11. AE!FixedCcm(o) = AE!Ccm(h)
  BY <1>1, <1>5, <1>10, FixedIs, Zenon DEF h
<1>. QED
  BY <1>8, <1>11, Zenon DEF o, z

Outcome(m) ==
  CASE m.mode = "ccm" -> AE!Ccm(m) [] m.mode = "fixed" -> AE!FixedCcm(m)
    [] m.mode = "gcm" -> AE!Gcm(m)

LEMMA OutcomeInverts ==
  ASSUME AE!WidthsFit, AE!XorIsInvolution, AE!EncryptsToBlocks, NEW m \in AE!MessageType,
         Outcome(m).ok
  PROVE  Outcome(Inverted(m, Outcome(m).bytes)) = AE!Ok(m.input)
<1> DEFINE z == Outcome(m).bytes
           o == Inverted(m, z)
<1> HIDE DEF z
<1>1. /\ o.mode = m.mode /\ m.mode \in {"ccm", "fixed", "gcm"} /\ Callable(m)
      /\ Opposite(m, o, z)
  BY DEF AE!MessageType, Inverted, Callable, Opposite
<1>2. CASE m.mode = "ccm"
  <2>1. Outcome(m) = AE!Ccm(m) /\ Outcome(o) = AE!Ccm(o)
    BY <1>1, <1>2 DEF Outcome
  <2>. QED
    BY <1>1, <2>1, CcmInverts, Zenon DEF z
<1>3. CASE m.mode = "gcm"
  <2>1. Outcome(m) = AE!Gcm(m) /\ Outcome(o) = AE!Gcm(o)
    BY <1>1, <1>3 DEF Outcome
  <2>. QED
    BY <1>1, <2>1, GcmInverts, Zenon DEF z
<1>4. CASE m.mode = "fixed"
  <2>1. Outcome(m) = AE!FixedCcm(m) /\ Outcome(o) = AE!FixedCcm(o)
    BY <1>1, <1>4 DEF Outcome
  <2>. QED
    BY <2>1, FixedInverts, Zenon DEF z
<1>. QED
  BY <1>1, <1>2, <1>3, <1>4 DEF z

-----------------------------------------------------------------------------
(* A first call has its outcome, and an inverse one the input of the first. *)
FirstOK ==
  inverted = FALSE =>
    /\ message \in AE!MessageType /\ original = message.input
    /\ pc = "done" => result = Outcome(message)
SecondOK ==
  inverted = TRUE =>
    /\ pc = "call" => Outcome(message) = AE!Ok(original)
    /\ pc = "done" => result = AE!Ok(original)
AeadInv == inverted \in BOOLEAN /\ FirstOK /\ SecondOK

LEMMA AeadInvInit == ASSUME AE!MessagesFit, AE!Init PROVE AeadInv
<1>1. inverted = FALSE /\ pc = "call" /\ message \in AE!MessageType /\ original = message.input
  BY DEF AE!Init, AE!MessagesFit
<1>. QED
  BY <1>1 DEF AeadInv, FirstOK, SecondOK

(* What a call returns depends on no variable but answers.                 *)
LEMMA CcmStays == ASSUME answers' = answers, NEW m PROVE AE!Ccm(m)' = AE!Ccm(m)
  BY Zenon DEF AE!Ccm, AE!Masked

LEMMA OutcomeStays ==
  ASSUME answers' = answers, NEW m PROVE Outcome(m)' = Outcome(m)
<1>1. AE!Ccm(m)' = AE!Ccm(m)
  BY CcmStays
<1>2. AE!Gcm(m)' = AE!Gcm(m)
  BY Zenon DEF AE!Gcm, AE!Masked
<1>3. AE!FixedCcm(m)' = AE!FixedCcm(m)
  <2>1. AE!Ccm(Fixed(m, DataLength(m)))' = AE!Ccm(Fixed(m, DataLength(m)))
    BY CcmStays
  <2>2. CASE \/ Len(m.nonce) # FixedNonce \/ DataLength(m) < 0 \/ m.length \notin KeyLengths
    BY <2>2 DEF AE!FixedCcm, DataLength
  <2>3. CASE ~(\/ Len(m.nonce) # FixedNonce \/ DataLength(m) < 0 \/ m.length \notin KeyLengths)
    <3>1. AE!FixedCcm(m) = AE!Ccm(Fixed(m, DataLength(m)))
      BY <2>3, FixedIs, Zenon
    <3>2. AE!FixedCcm(m)' = AE!Ccm(Fixed(m, DataLength(m)))'
      BY <2>3, Zenon DEF AE!FixedCcm, DataLength, Fixed
    <3>. QED
      BY <2>1, <3>1, <3>2
  <2>. QED
    BY <2>2, <2>3
<1>. QED
  BY <1>1, <1>2, <1>3, Zenon DEF Outcome

LEMMA RunKeepsAeadInv ==
  ASSUME AeadInv, AE!Run PROVE AeadInv'
<1>1. /\ pc = "call" /\ pc' = "done" /\ message' = message /\ answers' = answers
      /\ inverted' = inverted /\ original' = original /\ result' = Outcome(message)
  BY DEF AE!Run, Outcome
<1>2. Outcome(message)' = Outcome(message)
  <2>1. \A m : Outcome(m)' = Outcome(m)
    BY <1>1, OutcomeStays
  <2>. QED
    BY <1>1, <2>1
<1>3. FirstOK'
  BY <1>1, <1>2 DEF AeadInv, FirstOK
<1>4. SecondOK'
  BY <1>1 DEF AeadInv, SecondOK, AE!Ok
<1>. QED
  BY <1>1, <1>3, <1>4 DEF AeadInv

LEMMA RunInverseKeepsAeadInv ==
  ASSUME AE!WidthsFit, AE!XorIsInvolution, AE!EncryptsToBlocks, AeadInv, AE!RunInverse
  PROVE  AeadInv'
<1>1. /\ pc = "done" /\ result.ok /\ inverted = FALSE /\ inverted' = TRUE /\ pc' = "call"
      /\ message' = Inverted(message, result.bytes)
      /\ answers' = answers /\ original' = original
  BY DEF AE!RunInverse, Inverted, AeadInv
<1>2. message \in AE!MessageType /\ original = message.input /\ result = Outcome(message)
  BY <1>1 DEF AeadInv, FirstOK
<1>3. Outcome(message') = AE!Ok(original)
  BY <1>1, <1>2, OutcomeInverts, Zenon
<1>4. Outcome(message)' = AE!Ok(original')
  BY <1>1, <1>3, OutcomeStays
<1>. QED
  BY <1>1, <1>4 DEF AeadInv, FirstOK, SecondOK

LEMMA AeadInvNext ==
  ASSUME AE!WidthsFit, AE!XorIsInvolution, AE!EncryptsToBlocks, AeadInv, [AE!Next]_AE!vars
  PROVE  AeadInv'
<1>1. CASE UNCHANGED AE!vars
  <2>1. /\ message' = message /\ answers' = answers /\ inverted' = inverted
        /\ original' = original /\ pc' = pc /\ result' = result
    BY <1>1 DEF AE!vars
  <2>2. Outcome(message)' = Outcome(message)
    BY <2>1, OutcomeStays
  <2>. QED
    BY <2>1, <2>2 DEF AeadInv, FirstOK, SecondOK
<1>. QED
  BY <1>1, RunKeepsAeadInv, RunInverseKeepsAeadInv DEF AE!Next

(* For any widths, nonces, headers and payloads, any block encryptor and   *)
(* field multiplication, and any calls: what CCM, GCM and the functions    *)
(* with fixed lengths encrypt is what the inverse call returns, and what   *)
(* they decrypt is encrypted to the same octets.                           *)
THEOREM AeadsInvert ==
  ASSUME AE!WidthsFit, AE!XorIsInvolution, AE!EncryptsToBlocks, AE!MessagesFit
  PROVE  SymmetricSpec => []AeadInverts
<1> DEFINE PartInv == part = "aead" => AeadInv
<1>1. SymmetricInit => PartInv
  BY AeadInvInit DEF SymmetricInit
<1>2. PartInv /\ [SymmetricNext]_symmetric => PartInv'
  BY AeadStepIs, AeadInvNext
<1>3. PartInv => AeadInverts
  BY DEF AeadInv, SecondOK, AE!AeadInverts, AeadInverts
<1>. QED
  BY <1>1, <1>2, <1>3, PTL DEF SymmetricSpec

-----------------------------------------------------------------------------
(* BlockModes: CBC, ECB, CTR and the two paddings, and their inverses.     *)

LEMMA ModeTypes == ASSUME BM!Radix = ByteValues PROVE BM!Byte = Byte /\ BM!Block = Semi
  BY DEF BM!Byte, BM!Block, Byte, Semi

(* Strings of m whole blocks.                                              *)
Octets(m) == [1 .. m * SemiblockSize -> Byte]

LEMMA ModeBlocks ==
  ASSUME NEW m \in Nat, NEW bytes \in Octets(m)
  PROVE  /\ BM!BlockCount(bytes) = m /\ BM!WholeBlocks(bytes) /\ bytes \in Seq(Byte)
         /\ Semiblocks(bytes) \in Semis(m)
         /\ \A i \in 1 .. m : BM!BlockAt(bytes, i) = Semiblocks(bytes)[i]
<1> DEFINE S == SemiblockSize
           size == m * S
<1>1. S \in Nat \ {0} /\ size \in Nat
  BY Sizes
<1>2. bytes \in Seq(Byte) /\ Len(bytes) = size
  BY <1>1 DEF Octets
<1>3. (size + (S - 1)) \div S = m /\ size % S = 0
  <2> HIDE DEF S
  <2>1. S * m + (S - 1) = size + (S - 1) /\ S - 1 \in 0 .. S - 1
    BY <1>1
  <2>2. (S * m + (S - 1)) \div S = m
    BY <1>1, <2>1
  <2>3. size % S = 0
    BY <1>1
  <2>. QED
    BY <2>1, <2>2, <2>3
<1>4. BM!BlockCount(bytes) = m /\ BM!WholeBlocks(bytes)
  BY <1>2, <1>3 DEF BM!BlockCount, BM!CeilDiv, BM!WholeBlocks
<1>5. /\ Semiblocks(bytes) \in Semis(m)
      /\ \A i \in 1 .. m, k \in 1 .. S : Semiblocks(bytes)[i][k] = bytes[(i - 1) * S + k]
  BY SemiblocksOf DEF Octets
<1>6. ASSUME NEW i \in 1 .. m PROVE BM!BlockAt(bytes, i) = Semiblocks(bytes)[i]
  <2> DEFINE p == (i - 1) * S
             f == BM!BlockAt(bytes, i)
             g == Semiblocks(bytes)[i]
             D == 1 .. S
  <2>1. p \in Nat /\ i * S = p + S /\ p + S <= size
    <3> HIDE DEF S
    <3>1. i \in Nat /\ i - 1 \in Nat /\ i <= m
      OBVIOUS
    <3>2. i * S <= m * S /\ (i - 1) * S = i * S - S /\ i * S \in Nat /\ i * S >= S
      BY <1>1, <3>1
    <3>. QED
      BY <1>1, <3>2
  <2> HIDE DEF p
  <2>2. f = SubSeq(bytes, p + 1, p + S)
    BY <2>1 DEF BM!BlockAt, p
  <2>3. /\ p + 1 \in Int /\ p + S \in Int /\ (p + S) - (p + 1) + 1 = S
        /\ \A j \in p + 1 .. p + S : j \in 1 .. size
    BY <1>1, <2>1
  <2>4. \A j \in p + 1 .. p + S : bytes[j] \in Byte
    BY <1>2, <2>3 DEF Octets
  <2>5. f \in [D -> Byte] /\ \A k \in D : f[k] = bytes[p + k]
    <3> DEFINE t == p + 1
               u == p + S
    <3>1. /\ SubSeq(bytes, t, u) \in Seq(Byte)
          /\ Len(SubSeq(bytes, t, u)) = IF t <= u THEN u - t + 1 ELSE 0
          /\ \A k \in 1 .. u - t + 1 : SubSeq(bytes, t, u)[k] = bytes[t + k - 1]
      <4>1. t \in Int /\ u \in Int /\ \A j \in t .. u : bytes[j] \in Byte
        BY <2>3, <2>4
      <4> HIDE DEF t, u
      <4>. QED
        BY <4>1, SubSeqProperties
    <3>2. Len(SubSeq(bytes, t, u)) = S
      BY <1>1, <2>1, <2>3, <3>1
    <3>3. \A k \in D : SubSeq(bytes, t, u)[k] = bytes[p + k]
      <4> TAKE k \in D
      <4>1. k \in 1 .. u - t + 1 /\ t + k - 1 = p + k
        BY <1>1, <2>1, <2>3
      <4> HIDE DEF t, u
      <4>. QED
        BY <3>1, <4>1
    <3>4. f \in Seq(Byte) /\ Len(f) = S /\ \A k \in D : f[k] = bytes[p + k]
      BY <2>2, <3>1, <3>2, <3>3, Zenon
    <3> HIDE DEF f, S
    <3>. QED
      BY <3>4
  <2>6. g \in [D -> Byte] /\ \A k \in D : g[k] = bytes[p + k]
    BY <1>5 DEF Semis, Semi, p
  <2>7. f = g
    <3> HIDE DEF f, g, D
    <3>1. \A k \in D : f[k] = g[k]
      BY <2>5, <2>6
    <3>. QED
      BY <2>5, <2>6, <3>1, SameFunction
  <2>. QED
    BY <2>7
<1>. QED
  BY <1>2, <1>4, <1>5, <1>6

LEMMA WholeIsBlocks ==
  ASSUME NEW bytes \in Seq(Byte), BM!WholeBlocks(bytes)
  PROVE  \E m \in Nat : bytes \in Octets(m)
<1> DEFINE S == SemiblockSize
           z == Len(bytes)
           m == z \div S
<1>1. S \in Nat \ {0} /\ z \in Nat /\ z % S = 0
  BY Sizes DEF BM!WholeBlocks
<1>2. m \in Nat /\ z = m * S
  <2> HIDE DEF S, z
  <2>1. m \in Nat /\ z % S = z - S * m
    BY <1>1
  <2> HIDE DEF m
  <2>2. S * m \in Int /\ S * m = m * S
    BY <1>1, <2>1
  <2>. QED
    BY <1>1, <2>1, <2>2
<1>3. bytes \in [1 .. z -> Byte]
  OBVIOUS
<1> HIDE DEF m, z
<1>. QED
  BY <1>2, <1>3 DEF Octets

LEMMA ModeConcat == ASSUME NEW m, NEW s PROVE BM!Concat(s, m) = Bytes(s, m)
  BY DEF BM!Concat, Bytes

LEMMA ModeXor == ASSUME NEW x \in Semi, NEW y PROVE BM!XorBytes(x, y) = XorSemi(x, y)
<1>1. Len(x) = SemiblockSize
  BY Sizes DEF Semi
<1>. QED
  BY <1>1 DEF BM!XorBytes, XorSemi

-----------------------------------------------------------------------------
(* CBC on blocks: the chain of an encryption, and its inverse.             *)
IsPermutation ==
  /\ BlockCipher \in [Semi -> Semi] /\ BlockDecipher \in [Semi -> Semi]
  /\ \A b \in Semi : BlockDecipher[BlockCipher[b]] = b /\ BlockCipher[BlockDecipher[b]] = b
IsChain(c, v, p, m) ==
  /\ c \in [0 .. m -> Semi] /\ c[0] = v
  /\ \A i \in 1 .. m : c[i] = BlockCipher[XorSemi(p[i], c[i - 1])]
Behind(c, m) == [i \in 1 .. m |-> c[i]]
Unchained(v, s, m) ==
  [i \in 1 .. m |-> XorSemi(BlockDecipher[s[i]], IF i = 1 THEN v ELSE s[i - 1])]

LEMMA ChainIs ==
  ASSUME IsPermutation, NEW m \in Nat, NEW bytes \in Octets(m), NEW v \in Semi
  PROVE  IsChain(BM!CbcChain(v, bytes), v, Semiblocks(bytes), m)
<1> DEFINE p == Semiblocks(bytes)
           c == BM!CbcChain(v, bytes)
           Loop(f) == f = [i \in 0 .. BM!BlockCount(bytes) |->
                             IF i = 0 THEN v
                             ELSE BlockCipher[BM!XorBytes(BM!BlockAt(bytes, i), f[i - 1])]]
           Chain(f) == f = [i \in 0 .. m |->
                             IF i = 0 THEN v ELSE BlockCipher[XorSemi(p[i], f[i - 1])]]
           step == [i \in 1 .. m |-> [x \in Semi |-> BlockCipher[XorSemi(p[i], x)]]]
<1>1. c = CHOOSE f : Loop(f)
  BY DEF BM!CbcChain
<1>2. /\ BM!BlockCount(bytes) = m /\ p \in Semis(m)
      /\ \A i \in 1 .. m : BM!BlockAt(bytes, i) = p[i]
  BY ModeBlocks
<1> HIDE DEF p
<1>3. \A i \in 1 .. m : p[i] \in Semi /\ i \in 0 .. m /\ i # 0 /\ i - 1 \in 0 .. m
  BY <1>2 DEF Semis
<1>4. ASSUME NEW x \in Semi, NEW i \in 1 .. m PROVE BlockCipher[XorSemi(p[i], x)] \in Semi
  BY <1>3, XorTwice DEF IsPermutation
<1>5. ASSUME NEW f PROVE Loop(f) <=> Chain(f)
  <2>1. \A i \in 0 .. m : i = 0 \/ i \in 1 .. m
    OBVIOUS
  <2>2. \A i \in 1 .. m : BM!XorBytes(BM!BlockAt(bytes, i), f[i - 1]) = XorSemi(p[i], f[i - 1])
    BY <1>2, <1>3, ModeXor
  <2>. QED
    BY <1>2, <2>1, <2>2
<1>6. step \in [1 .. m -> [Semi -> Semi]]
  BY <1>4
<1>7. PICK f : Iterates(f, m, Semi, v, step)
  <2> HIDE DEF step
  <2>. QED
    BY <1>6, IterationExists
<1>8. \A i \in 1 .. m : f[i] = BlockCipher[XorSemi(p[i], f[i - 1])]
  BY <1>3, <1>7 DEF Iterates
<1>9. Chain(f)
  <2>1. \A i \in 0 .. m : i # 0 => i \in 1 .. m
    OBVIOUS
  <2>. QED
    BY <1>7, <1>8, <2>1 DEF Iterates
<1>10. Chain(c)
  <2>1. Loop(f)
    BY <1>5, <1>9
  <2> HIDE DEF Loop, Chain
  <2>2. Loop(c)
    BY <1>1, <2>1
  <2>. QED
    BY <1>5, <2>2
<1> HIDE DEF c, step
<1>11. c[0] = v /\ \A i \in 1 .. m : c[i] = BlockCipher[XorSemi(p[i], c[i - 1])]
  <2>1. 0 \in 0 .. m
    OBVIOUS
  <2>. QED
    BY <1>3, <1>10, <2>1
<1>12. c \in [0 .. m -> Semi]
  <2> DEFINE Good == {i \in 0 .. m : c[i] \in Semi}
  <2>1. 0 \in Good
    BY <1>11
  <2>2. ASSUME NEW i \in 1 .. m, i - 1 \in Good PROVE i \in Good
    <3>1. c[i - 1] \in Semi
      BY <2>2
    <3>. QED
      BY <1>3, <1>4, <1>11, <3>1
  <2>3. \A i \in 0 .. m : i \in Good
    <3> HIDE DEF Good
    <3>. QED
      BY <2>1, <2>2, UpTo
  <2>. QED
    BY <1>10, <2>3
<1>. QED
  BY <1>11, <1>12 DEF IsChain, c, p

LEMMA BytesBehind ==
  ASSUME NEW m \in Nat, NEW c \in [0 .. m -> Semi]
  PROVE  Behind(c, m) \in Semis(m) /\ Bytes(c, m) = Bytes(Behind(c, m), m)
<1>1. Behind(c, m) \in Semis(m) /\ \A i \in 1 .. m : Behind(c, m)[i] = c[i]
  BY DEF Behind, Semis
<1> DEFINE q(k) == ((k - 1) \div SemiblockSize) + 1
           d(k) == ((k - 1) % SemiblockSize) + 1
<1>2. \A k \in 1 .. m * SemiblockSize : q(k) \in 1 .. m
  BY PlaceOfOctet
<1> HIDE DEF q, d
<1>3. \A k \in 1 .. m * SemiblockSize : c[q(k)][d(k)] = Behind(c, m)[q(k)][d(k)]
  BY <1>1, <1>2
<1>. QED
  BY <1>1, <1>3 DEF Bytes, q, d

LEMMA UnchainedOf ==
  ASSUME IsPermutation, NEW m \in Nat, NEW v \in Semi, NEW s \in Semis(m)
  PROVE  Unchained(v, s, m) \in Semis(m)
<1>1. \A i \in 1 .. m : s[i] \in Semi /\ (i # 1 => i - 1 \in 1 .. m)
  BY DEF Semis
<1>2. \A i \in 1 .. m : (IF i = 1 THEN v ELSE s[i - 1]) \in Semi
  BY <1>1
<1>3. \A i \in 1 .. m : XorSemi(BlockDecipher[s[i]], IF i = 1 THEN v ELSE s[i - 1]) \in Semi
  BY <1>1, <1>2, XorTwice DEF IsPermutation
<1>. QED
  BY <1>3 DEF Unchained, Semis

LEMMA UnchainedOfChain ==
  ASSUME IsPermutation, NEW m \in Nat, NEW v \in Semi, NEW p \in Semis(m), NEW c, IsChain(c, v, p, m)
  PROVE  Unchained(v, Behind(c, m), m) = p
<1>1. /\ c \in [0 .. m -> Semi] /\ c[0] = v
      /\ \A i \in 1 .. m : c[i] = BlockCipher[XorSemi(p[i], c[i - 1])]
  BY DEF IsChain
<1>2. \A i \in 1 .. m : /\ p[i] \in Semi /\ i - 1 \in 0 .. m /\ c[i - 1] \in Semi
                        /\ (i = 1 \/ i - 1 \in 1 .. m)
  BY <1>1 DEF Semis
<1> DEFINE b == Behind(c, m)
           f == Unchained(v, b, m)
<1>3. b \in Semis(m) /\ \A i \in 1 .. m : b[i] = c[i]
  BY <1>1 DEF Behind, Semis
<1> HIDE DEF b
<1>4. ASSUME NEW i \in 1 .. m PROVE f[i] = p[i]
  <2>1. (IF i = 1 THEN v ELSE b[i - 1]) = c[i - 1]
    BY <1>1, <1>2, <1>3
  <2>2. f[i] = XorSemi(BlockDecipher[b[i]], c[i - 1])
    BY <2>1 DEF Unchained
  <2> DEFINE x == XorSemi(p[i], c[i - 1])
  <2>3. x \in Semi /\ XorSemi(x, c[i - 1]) = p[i]
    BY <1>2, XorTwice
  <2>4. b[i] = BlockCipher[x]
    BY <1>1, <1>3
  <2> HIDE DEF x, f
  <2>5. BlockDecipher[BlockCipher[x]] = x
    BY <2>3 DEF IsPermutation
  <2>. QED
    BY <2>2, <2>3, <2>4, <2>5
<1>5. f \in Semis(m)
  BY <1>3, UnchainedOf
<1>6. f \in [1 .. m -> Semi] /\ p \in [1 .. m -> Semi]
  BY <1>5 DEF Semis
<1> HIDE DEF f
<1>7. f = p
  BY <1>4, <1>6, SameFunction
<1>. QED
  BY <1>7 DEF f, b

LEMMA ChainOfUnchained ==
  ASSUME IsPermutation, NEW m \in Nat, NEW v \in Semi, NEW s \in Semis(m),
         NEW c, IsChain(c, v, Unchained(v, s, m), m)
  PROVE  Behind(c, m) = s
<1> DEFINE p == Unchained(v, s, m)
           prior(i) == IF i = 1 THEN v ELSE s[i - 1]
<1>1. /\ c \in [0 .. m -> Semi] /\ c[0] = v
      /\ \A i \in 1 .. m : c[i] = BlockCipher[XorSemi(p[i], c[i - 1])]
  BY DEF IsChain
<1>2. \A i \in 1 .. m : /\ s[i] \in Semi /\ (i # 1 => i - 1 \in 1 .. m) /\ i \in 0 .. m
  BY DEF Semis
<1>3. \A i \in 1 .. m : prior(i) \in Semi /\ p[i] = XorSemi(BlockDecipher[s[i]], prior(i))
  BY <1>2 DEF Unchained
<1> HIDE DEF p
<1> DEFINE Good == {i \in 0 .. m : i = 0 \/ c[i] = s[i]}
<1>4. 0 \in Good
  OBVIOUS
<1>5. ASSUME NEW i \in 1 .. m, i - 1 \in Good PROVE i \in Good
  <2>1. c[i - 1] = prior(i)
    BY <1>1, <1>5
  <2> HIDE DEF prior
  <2>2. BlockDecipher[s[i]] \in Semi
    BY <1>2 DEF IsPermutation
  <2>3. XorSemi(p[i], prior(i)) = BlockDecipher[s[i]]
    BY <1>3, <2>2, XorTwice
  <2>4. c[i] = BlockCipher[XorSemi(p[i], c[i - 1])]
    BY <1>1, Zenon
  <2>5. c[i] = BlockCipher[BlockDecipher[s[i]]]
    BY <2>1, <2>3, <2>4, Zenon
  <2>6. c[i] = s[i]
    BY <1>2, <2>5 DEF IsPermutation
  <2>. QED
    BY <1>2, <2>6
<1>6. \A i \in 0 .. m : i \in Good
  <2> HIDE DEF Good
  <2>. QED
    BY <1>4, <1>5, UpTo
<1>7. \A i \in 1 .. m : c[i] = s[i]
  BY <1>2, <1>6
<1> DEFINE f == Behind(c, m)
<1>8. f \in [1 .. m -> Semi] /\ s \in [1 .. m -> Semi] /\ \A i \in 1 .. m : f[i] = s[i]
  BY <1>1, <1>7 DEF Behind, Semis
<1> HIDE DEF f
<1>9. f = s
  BY <1>8, SameFunction
<1>. QED
  BY <1>9 DEF f

-----------------------------------------------------------------------------
(* The calls on whole blocks, each followed by its inverse.                *)
LEMMA ModeAnswer ==
  ASSUME NEW needed, NEW y
  PROVE  /\ BM!Answered(needed, y).ok => needed <= calls /\ BM!Answered(needed, y) = BM!Ok(y)
         /\ needed <= calls => BM!Answered(needed, y) = BM!Ok(y)
         /\ BM!Ok(y).ok /\ BM!Ok(y).bytes = y /\ ~BM!Err.ok
<1>1. BM!Ok(y).ok /\ BM!Ok(y).bytes = y /\ ~BM!Err.ok
  BY DEF BM!Ok, BM!Err
<1>. QED
  BY <1>1, Zenon DEF BM!Answered

Chained(v, bytes, m) == Behind(BM!CbcChain(v, bytes), m)

LEMMA CbcEncryptIs ==
  ASSUME IsPermutation, NEW m \in Nat, NEW bytes \in Octets(m), NEW v \in Semi
  PROVE  /\ Chained(v, bytes, m) \in Semis(m)
         /\ BM!CbcEncrypt(v, bytes) = BM!Answered(m, Bytes(Chained(v, bytes, m), m))
<1>1. Len(v) = SemiblockSize /\ SemiblockSize \in Nat
  BY Sizes DEF Semi
<1>2. BM!BlockCount(bytes) = m /\ BM!WholeBlocks(bytes)
  BY ModeBlocks
<1>3. BM!CbcChain(v, bytes) \in [0 .. m -> Semi]
  BY ChainIs DEF IsChain
<1>4. /\ Chained(v, bytes, m) \in Semis(m)
      /\ Bytes(BM!CbcChain(v, bytes), m) = Bytes(Chained(v, bytes, m), m)
  BY <1>3, BytesBehind DEF Chained
<1>5. BM!CbcEncrypt(v, bytes) = BM!Answered(m, BM!Concat(BM!CbcChain(v, bytes), m))
  BY <1>1, <1>2, Zenon DEF BM!CbcEncrypt
<1>6. BM!Concat(BM!CbcChain(v, bytes), m) = Bytes(BM!CbcChain(v, bytes), m)
  BY ModeConcat, Zenon
<1>. QED
  BY <1>4, <1>5, <1>6, Zenon

LEMMA CbcDecryptIs ==
  ASSUME IsPermutation, NEW m \in Nat, NEW bytes \in Octets(m), NEW v \in Semi
  PROVE  BM!CbcDecrypt(v, bytes) =
           BM!Answered(1, Bytes(Unchained(v, Semiblocks(bytes), m), m))
<1> DEFINE s == Semiblocks(bytes)
           f == [i \in 1 .. BM!BlockCount(bytes) |->
                   BM!XorBytes(BlockDecipher[BM!BlockAt(bytes, i)],
                               IF i = 1 THEN v ELSE BM!BlockAt(bytes, i - 1))]
           g == Unchained(v, s, m)
<1>1. Len(v) = SemiblockSize /\ SemiblockSize \in Nat
  BY Sizes DEF Semi
<1>2. /\ BM!BlockCount(bytes) = m /\ BM!WholeBlocks(bytes) /\ s \in Semis(m)
      /\ \A i \in 1 .. m : BM!BlockAt(bytes, i) = s[i]
  BY ModeBlocks
<1>3. BM!CbcDecrypt(v, bytes) = BM!Answered(1, BM!Concat(f, m))
  BY <1>1, <1>2, Zenon DEF BM!CbcDecrypt
<1>4. f = g
  <2> HIDE DEF s
  <2>1. \A i \in 1 .. m : (i # 1 => i - 1 \in 1 .. m) /\ BlockDecipher[s[i]] \in Semi
    BY <1>2 DEF Semis, IsPermutation
  <2>2. ASSUME NEW i \in 1 .. m
        PROVE  BM!XorBytes(BlockDecipher[BM!BlockAt(bytes, i)],
                           IF i = 1 THEN v ELSE BM!BlockAt(bytes, i - 1))
               = XorSemi(BlockDecipher[s[i]], IF i = 1 THEN v ELSE s[i - 1])
    <3>1. BM!BlockAt(bytes, i) = s[i] /\ (i # 1 => BM!BlockAt(bytes, i - 1) = s[i - 1])
      BY <1>2, <2>1
    <3>2. (IF i = 1 THEN v ELSE BM!BlockAt(bytes, i - 1)) = (IF i = 1 THEN v ELSE s[i - 1])
      BY <3>1, Zenon
    <3>. QED
      BY <2>1, <3>1, <3>2, ModeXor, Zenon
  <2>. QED
    BY <1>2, <2>2, Zenon DEF Unchained
<1> HIDE DEF f, g
<1>5. BM!CbcDecrypt(v, bytes) = BM!Answered(1, Bytes(g, m))
  BY <1>3, <1>4, ModeConcat, Zenon
<1>. QED
  BY <1>5 DEF g, s

LEMMA CbcUndone ==
  ASSUME IsPermutation, NEW m \in Nat, NEW bytes \in Octets(m), NEW v \in Semi,
         BM!CbcEncrypt(v, bytes).ok, 1 <= calls
  PROVE  BM!CbcDecrypt(v, BM!CbcEncrypt(v, bytes).bytes) = BM!Ok(bytes)
<1> DEFINE c == Chained(v, bytes, m)
           y == Bytes(c, m)
           p == Semiblocks(bytes)
<1>1. c \in Semis(m) /\ BM!CbcEncrypt(v, bytes) = BM!Answered(m, y)
  BY CbcEncryptIs
<1>2. BM!CbcEncrypt(v, bytes).bytes = y
  BY <1>1, ModeAnswer, Zenon
<1>3. Unchained(v, c, m) = p
  <2>1. IsChain(BM!CbcChain(v, bytes), v, p, m) /\ p \in Semis(m)
    BY ChainIs, ModeBlocks
  <2>. QED
    BY <2>1, UnchainedOfChain, Zenon DEF Chained
<1> HIDE DEF c
<1>4. y \in Octets(m) /\ Semiblocks(y) = c
  BY <1>1, BytesOf, SemiblocksOfBytes DEF Octets
<1> HIDE DEF y
<1>5. BM!CbcDecrypt(v, y) = BM!Answered(1, Bytes(Unchained(v, Semiblocks(y), m), m))
  BY <1>4, CbcDecryptIs
<1>6. Bytes(p, m) = bytes
  BY BytesOfSemiblocks DEF Octets
<1> HIDE DEF p
<1>7. BM!CbcDecrypt(v, y) = BM!Answered(1, bytes)
  BY <1>3, <1>4, <1>5, <1>6, Zenon
<1>. QED
  BY <1>2, <1>7, ModeAnswer, Zenon

LEMMA CbcRedone ==
  ASSUME IsPermutation, NEW m \in Nat, NEW bytes \in Octets(m), NEW v \in Semi,
         BM!CbcDecrypt(v, bytes).ok, m <= calls
  PROVE  BM!CbcEncrypt(v, BM!CbcDecrypt(v, bytes).bytes) = BM!Ok(bytes)
<1> DEFINE s == Semiblocks(bytes)
           p == Unchained(v, s, m)
           y == Bytes(p, m)
<1>1. BM!CbcDecrypt(v, bytes) = BM!Answered(1, y)
  BY CbcDecryptIs
<1>2. BM!CbcDecrypt(v, bytes).bytes = y
  BY <1>1, ModeAnswer, Zenon
<1>3. s \in Semis(m) /\ Bytes(s, m) = bytes
  BY ModeBlocks, BytesOfSemiblocks DEF Octets
<1> HIDE DEF s
<1>4. p \in Semis(m)
  BY <1>3, UnchainedOf
<1>5. ASSUME NEW c, IsChain(c, v, p, m) PROVE Behind(c, m) = s
  BY <1>3, <1>5, ChainOfUnchained, Zenon
<1> HIDE DEF p
<1>6. y \in Octets(m) /\ Semiblocks(y) = p
  BY <1>4, BytesOf, SemiblocksOfBytes DEF Octets
<1> HIDE DEF y
<1>7. IsChain(BM!CbcChain(v, y), v, p, m)
  BY <1>6, ChainIs
<1>8. Chained(v, y, m) = s
  BY <1>5, <1>7, Zenon DEF Chained
<1>9. BM!CbcEncrypt(v, y) = BM!Answered(m, Bytes(Chained(v, y, m), m))
  BY <1>6, CbcEncryptIs
<1>10. BM!CbcEncrypt(v, y) = BM!Answered(m, bytes)
  BY <1>3, <1>8, <1>9, Zenon
<1>. QED
  BY <1>2, <1>10, ModeAnswer, Zenon

(* What CBC accepts: whole blocks and an iv of one block.                  *)
LEMMA CbcAccepts ==
  ASSUME NEW bytes \in Seq(Byte), NEW v \in Semi \cup {<< 0 >>},
         BM!CbcEncrypt(v, bytes).ok \/ BM!CbcDecrypt(v, bytes).ok
  PROVE  v \in Semi /\ \E m \in Nat : bytes \in Octets(m)
<1>1. ~BM!Err.ok
  BY ModeAnswer
<1>2. ~(Len(v) # SemiblockSize \/ ~BM!WholeBlocks(bytes))
  BY <1>1, Zenon DEF BM!CbcEncrypt, BM!CbcDecrypt
<1>3. v \in Semi
  <2>1. CASE v = <<0>>
    <3>1. SemiblockSize = 1 /\ 0 \in Byte
      BY <1>2, <2>1, Sizes DEF Byte
    <3>. QED
      BY <2>1, <3>1 DEF Semi
  <2>. QED
    BY <2>1
<1>. QED
  BY <1>2, <1>3, WholeIsBlocks

Mapped(f, s, m) == [i \in 1 .. m |-> f[s[i]]]

LEMMA EcbIs ==
  ASSUME NEW lengths, NEW f, NEW size, NEW m \in Nat, NEW bytes \in Octets(m)
  PROVE  BM!Ecb(lengths, f, size, bytes) =
           IF size \notin lengths THEN BM!Err ELSE BM!Ok(Bytes(Mapped(f, Semiblocks(bytes), m), m))
<1> DEFINE s == Semiblocks(bytes)
           g == [i \in 1 .. BM!BlockCount(bytes) |-> f[BM!BlockAt(bytes, i)]]
<1>1. /\ BM!BlockCount(bytes) = m /\ BM!WholeBlocks(bytes)
      /\ \A i \in 1 .. m : BM!BlockAt(bytes, i) = s[i]
  BY ModeBlocks
<1>2. g = Mapped(f, s, m)
  <2> HIDE DEF s
  <2>. QED
    BY <1>1, Zenon DEF Mapped
<1>3. BM!Ecb(lengths, f, size, bytes) =
        IF size \notin lengths THEN BM!Err ELSE BM!Ok(BM!Concat(g, m))
  BY <1>1, Zenon DEF BM!Ecb
<1> HIDE DEF g, s
<1>4. BM!Concat(g, m) = Bytes(Mapped(f, s, m), m)
  BY <1>2, ModeConcat, Zenon
<1>. QED
  BY <1>3, <1>4, Zenon DEF s

Undoes(g, f) == \A b \in Semi : g[f[b]] = b
EcbInverts(lengths, f, g, size, bytes) ==
  BM!Ecb(lengths, g, size, BM!Ecb(lengths, f, size, bytes).bytes) = BM!Ok(bytes)

LEMMA EcbUndone ==
  ASSUME NEW f \in [Semi -> Semi], NEW g, Undoes(g, f),
         NEW lengths, NEW size, NEW bytes \in Seq(Byte), BM!Ecb(lengths, f, size, bytes).ok
  PROVE  EcbInverts(lengths, f, g, size, bytes)
<1>1. ~BM!Err.ok
  BY ModeAnswer
<1>2. BM!WholeBlocks(bytes) /\ size \in lengths
  BY <1>1, Zenon DEF BM!Ecb
<1>3. PICK m \in Nat : bytes \in Octets(m)
  BY <1>2, WholeIsBlocks
<1> DEFINE s == Semiblocks(bytes)
           t == Mapped(f, s, m)
           y == Bytes(t, m)
<1>4. BM!Ecb(lengths, f, size, bytes) = BM!Ok(y)
  BY <1>2, <1>3, EcbIs
<1>5. BM!Ecb(lengths, f, size, bytes).bytes = y
  BY <1>4, ModeAnswer, Zenon
<1>6. s \in Semis(m) /\ Bytes(s, m) = bytes
  BY <1>3, ModeBlocks, BytesOfSemiblocks DEF Octets
<1> HIDE DEF s
<1>7. t \in Semis(m) /\ \A i \in 1 .. m : s[i] \in Semi /\ t[i] = f[s[i]]
  BY <1>6 DEF Mapped, Semis
<1> HIDE DEF t
<1>8. Mapped(g, t, m) = s
  <2> DEFINE h == Mapped(g, t, m)
  <2>1. \A i \in 1 .. m : g[t[i]] = s[i]
    BY <1>7, Zenon DEF Undoes
  <2>2. h \in [1 .. m -> Semi] /\ s \in [1 .. m -> Semi] /\ \A i \in 1 .. m : h[i] = s[i]
    BY <1>6, <1>7, <2>1 DEF Mapped, Semis
  <2> HIDE DEF h
  <2>3. h = s
    BY <2>2, SameFunction
  <2>. QED
    BY <2>3 DEF h
<1>9. y \in Octets(m) /\ Semiblocks(y) = t
  BY <1>7, BytesOf, SemiblocksOfBytes DEF Octets
<1> HIDE DEF y
<1>10. BM!Ecb(lengths, g, size, y) = BM!Ok(Bytes(Mapped(g, Semiblocks(y), m), m))
  BY <1>2, <1>9, EcbIs
<1>. QED
  BY <1>5, <1>6, <1>8, <1>9, <1>10, Zenon DEF EcbInverts

LEMMA KeyedUndone ==
  ASSUME IsPermutation, NEW lengths, NEW size, NEW bytes \in Seq(Byte), NEW v \in Semi, bytes # << >>,
         BM!KeyedCbc(lengths, TRUE, size, v, bytes).ok, 1 <= calls
  PROVE  BM!KeyedCbc(lengths, FALSE, size, v, BM!KeyedCbc(lengths, TRUE, size, v, bytes).bytes)
           = BM!Ok(bytes)
<1>1. ~BM!Err.ok
  BY ModeAnswer
<1>2. BM!KeyedCbc(lengths, TRUE, size, v, bytes) =
        IF bytes # << >> /\ size \notin lengths THEN BM!Err ELSE BM!CbcEncrypt(v, bytes)
  BY Zenon DEF BM!KeyedCbc
<1>3. /\ size \in lengths /\ BM!CbcEncrypt(v, bytes).ok
      /\ BM!KeyedCbc(lengths, TRUE, size, v, bytes).bytes = BM!CbcEncrypt(v, bytes).bytes
  BY <1>1, <1>2, Zenon
<1>4. PICK m \in Nat : bytes \in Octets(m)
  BY <1>3, CbcAccepts
<1> DEFINE y == BM!CbcEncrypt(v, bytes).bytes
<1>5. BM!CbcDecrypt(v, y) = BM!Ok(bytes)
  BY <1>3, <1>4, CbcUndone
<1> HIDE DEF y
<1>6. BM!KeyedCbc(lengths, FALSE, size, v, y) =
        IF size \notin lengths THEN BM!Err ELSE BM!CbcDecrypt(v, y)
  BY Zenon DEF BM!KeyedCbc
<1>. QED
  BY <1>3, <1>5, <1>6, Zenon DEF y

LEMMA KeyedRedone ==
  ASSUME IsPermutation, NEW lengths, NEW size, NEW bytes \in Seq(Byte), NEW v \in Semi,
         BM!KeyedCbc(lengths, FALSE, size, v, bytes).ok, BM!BlockCount(bytes) <= calls
  PROVE  BM!KeyedCbc(lengths, TRUE, size, v, BM!KeyedCbc(lengths, FALSE, size, v, bytes).bytes)
           = BM!Ok(bytes)
<1>1. ~BM!Err.ok
  BY ModeAnswer
<1>2. BM!KeyedCbc(lengths, FALSE, size, v, bytes) =
        IF size \notin lengths THEN BM!Err ELSE BM!CbcDecrypt(v, bytes)
  BY Zenon DEF BM!KeyedCbc
<1>3. /\ size \in lengths /\ BM!CbcDecrypt(v, bytes).ok
      /\ BM!KeyedCbc(lengths, FALSE, size, v, bytes).bytes = BM!CbcDecrypt(v, bytes).bytes
  BY <1>1, <1>2, Zenon
<1>4. PICK m \in Nat : bytes \in Octets(m)
  BY <1>3, CbcAccepts
<1>5. m <= calls
  BY <1>4, ModeBlocks
<1> DEFINE y == BM!CbcDecrypt(v, bytes).bytes
<1>6. BM!CbcEncrypt(v, y) = BM!Ok(bytes)
  BY <1>3, <1>4, <1>5, CbcRedone
<1> HIDE DEF y
<1>7. BM!KeyedCbc(lengths, TRUE, size, v, y) =
        IF y # << >> /\ size \notin lengths THEN BM!Err ELSE BM!CbcEncrypt(v, y)
  BY Zenon DEF BM!KeyedCbc
<1>. QED
  BY <1>3, <1>6, <1>7, Zenon DEF y

-----------------------------------------------------------------------------
(* The paddings.                                                           *)
LEMMA Remainders ==
  ASSUME NEW x \in Nat, NEW l \in Nat \ {0}
  PROVE  /\ x % l \in 0 .. l - 1 /\ x \div l \in Nat /\ x = l * (x \div l) + (x % l)
  OBVIOUS

LEMMA RemainderIs ==
  ASSUME NEW q \in Nat, NEW l \in Nat \ {0}, NEW d \in 0 .. l - 1
  PROVE  (l * q + d) % l = d
  OBVIOUS

LEMMA Pkcs7Undone ==
  ASSUME BM!Radix = ByteValues, NEW bytes \in Seq(Byte), NEW l,
         BM!ApplyPkcs7(bytes, l).ok
  PROVE  BM!RemovePkcs7(BM!ApplyPkcs7(bytes, l).bytes, l) = BM!Ok(bytes)
<1> DEFINE z == Len(bytes)
           d == z % l
           p == l - d
           t == [k \in 1 .. p |-> p]
           y == bytes \o t
<1>1. ~BM!Err.ok
  BY ModeAnswer
<1>2. /\ l \in BM!BlockLengths /\ BM!ApplyPkcs7(bytes, l) = BM!Ok(y)
  BY <1>1, Zenon DEF BM!ApplyPkcs7
<1>3. BM!ApplyPkcs7(bytes, l).bytes = y
  BY <1>2, ModeAnswer, Zenon
<1>4. l \in 1 .. ByteValues - 1 /\ l \in Nat \ {0} /\ z \in Nat /\ ByteValues \in Nat
  BY <1>2, Sizes, LenProperties DEF BM!BlockLengths
<1>5. d \in 0 .. l - 1 /\ z \div l \in Nat /\ z = l * (z \div l) + d
  <2> HIDE DEF z
  <2>. QED
    BY <1>4, Remainders
<1>6. l * (z \div l) \in Nat
  BY <1>4, <1>5
<1> HIDE DEF d
<1>7. p \in 1 .. l /\ p \in Byte /\ p \in Nat /\ z >= d
  BY <1>4, <1>5, <1>6 DEF Byte
<1>8. z + p >= l
  BY <1>4, <1>5, <1>7
<1> HIDE DEF p
<1>9. t \in Seq(Byte) /\ Len(t) = p /\ \A k \in 1 .. p : t[k] = p
  BY <1>7
<1> HIDE DEF t
<1>10. IsCut(y, z, bytes, t) /\ Len(y) = z + p
  BY <1>9, JoinIsCut
<1>11. y \in Seq(Byte) /\ \A i \in 1 .. z + p : y[i] = IF i <= z THEN bytes[i] ELSE t[i - z]
  BY <1>9, ConcatProperties
<1> HIDE DEF y, z
<1>12. \A i \in 0 .. p - 1 : y[Len(y) - i] = p
  <2> TAKE i \in 0 .. p - 1
  <2> DEFINE j == (z + p) - i
  <2>1. j \in 1 .. z + p /\ ~(j <= z) /\ j - z \in 1 .. p /\ j = Len(y) - i
    BY <1>4, <1>7, <1>10
  <2> HIDE DEF j
  <2>. QED
    BY <1>9, <1>11, <2>1
<1>13. y[Len(y)] = p
  <2>1. 0 \in 0 .. p - 1 /\ Len(y) - 0 = Len(y)
    BY <1>4, <1>7, <1>10
  <2>. QED
    BY <1>12, <2>1
<1>14. \A i \in 0 .. l - 1 : i < p => i \in 0 .. p - 1
  BY <1>4, <1>7
<1>15. ~(p = 0 \/ p > l) /\ Len(y) - p = z /\ ~(Len(y) < l)
  BY <1>4, <1>7, <1>8, <1>10
<1>16. SubSeq(y, 1, Len(y) - p) = bytes
  BY <1>10, <1>15, Zenon DEF IsCut
<1>17. ~(\E i \in 0 .. l - 1 : i < p /\ y[Len(y) - i] # p)
  BY <1>12, <1>14, Zenon
<1>18. BM!RemovePkcs7(y, l) = BM!Ok(SubSeq(y, 1, Len(y) - p))
  BY <1>2, <1>13, <1>15, <1>17, Zenon DEF BM!RemovePkcs7
<1>. QED
  BY <1>3, <1>16, <1>18, Zenon

LEMMA Pkcs7Redone ==
  ASSUME BM!Radix = ByteValues, NEW bytes \in Seq(Byte), NEW l,
         BM!RemovePkcs7(bytes, l).ok, Len(bytes) % l = 0
  PROVE  BM!ApplyPkcs7(BM!RemovePkcs7(bytes, l).bytes, l) = BM!Ok(bytes)
<1> DEFINE z == Len(bytes)
           p == bytes[z]
           w == z - p
           y == SubSeq(bytes, 1, w)
           t == [k \in 1 .. p |-> p]
<1>1. ~BM!Err.ok
  BY ModeAnswer
<1>2. /\ l \in BM!BlockLengths /\ ~(z < l) /\ p # 0 /\ ~(p > l)
      /\ \A i \in 0 .. l - 1 : i < p => bytes[z - i] = p
      /\ BM!RemovePkcs7(bytes, l) = BM!Ok(y)
  BY <1>1, Zenon DEF BM!RemovePkcs7
<1>3. BM!RemovePkcs7(bytes, l).bytes = y
  BY <1>2, ModeAnswer, Zenon
<1>4. l \in 1 .. ByteValues - 1 /\ l \in Nat \ {0} /\ z \in Nat /\ ByteValues \in Nat /\ z >= l
  BY <1>2, Sizes, LenProperties DEF BM!BlockLengths
<1>5. p \in Byte
  <2>1. z \in 1 .. Len(bytes)
    BY <1>4
  <2>. QED
    BY <2>1, ElementOfSeq
<1> HIDE DEF p
<1>6. p \in 1 .. l /\ p \in Nat
  BY <1>2, <1>4, <1>5 DEF Byte
<1>7. w \in 0 .. z /\ w \in Nat /\ z = w + p
  BY <1>4, <1>6
<1> HIDE DEF w
<1>8. y \in Seq(Byte) /\ IsCut(bytes, w, y, SubSeq(bytes, w + 1, z))
  BY <1>7, SeqIsCut, Zenon
<1>9. Len(y) = w /\ bytes = y \o SubSeq(bytes, w + 1, z)
  BY <1>8, Zenon DEF IsCut
<1>10. SubSeq(bytes, w + 1, z) = t
  <2> DEFINE f == SubSeq(bytes, w + 1, z)
  <2>1. /\ f \in Seq(Byte) /\ Len(f) = IF w + 1 <= z THEN z - (w + 1) + 1 ELSE 0
        /\ \A k \in 1 .. z - (w + 1) + 1 : f[k] = bytes[(w + 1) + k - 1]
    <3> DEFINE from == w + 1
    <3>1. from \in Int /\ z \in Int /\ \A j \in from .. z : bytes[j] \in Byte
      <4>1. \A j \in from .. z : j \in 1 .. Len(bytes)
        BY <1>4, <1>7
      <4>. QED
        BY <1>4, <1>7, <4>1, ElementOfSeq
    <3> HIDE DEF from
    <3>2. /\ SubSeq(bytes, from, z) \in Seq(Byte)
          /\ Len(SubSeq(bytes, from, z)) = IF from <= z THEN z - from + 1 ELSE 0
          /\ \A k \in 1 .. z - from + 1 : SubSeq(bytes, from, z)[k] = bytes[from + k - 1]
      BY <3>1, SubSeqProperties
    <3>. QED
      BY <3>2, Zenon DEF from
  <2> HIDE DEF f, z
  <2>2. Len(f) = p /\ z - (w + 1) + 1 = p
    BY <1>4, <1>6, <1>7, <2>1
  <2>3. \A k \in 1 .. p : f[k] = p
    <3> TAKE k \in 1 .. p
    <3> DEFINE i == z - (w + k)
    <3>1. i \in 0 .. l - 1 /\ i < p /\ z - i = (w + 1) + k - 1
      BY <1>4, <1>6, <1>7
    <3> HIDE DEF i
    <3>2. bytes[z - i] = p
      BY <1>2, <3>1
    <3>. QED
      BY <2>1, <2>2, <3>1, <3>2
  <2>4. f \in [1 .. p -> Byte]
    BY <2>1, <2>2
  <2>5. f = t
    BY <2>3, <2>4
  <2>. QED
    BY <2>5 DEF f
<1>11. l - (w % l) = p
  <2> DEFINE q == z \div l
  <2>1. q \in Nat /\ z = l * q
    <3> HIDE DEF z
    <3>1. z % l = 0
      BY DEF z
    <3>2. z \div l \in Nat /\ z = l * (z \div l) + (z % l) /\ z % l \in 0 .. l - 1
      BY <1>4, Remainders
    <3>3. l * (z \div l) \in Nat
      BY <1>4, <3>2
    <3>. QED
      BY <3>1, <3>2, <3>3
  <2> HIDE DEF q, z
  <2>2. q # 0 /\ q - 1 \in Nat /\ l * (q - 1) = l * q - l /\ l * q \in Nat
    BY <1>4, <2>1
  <2>3. CASE p = l
    <3>1. w = l * (q - 1) + 0 /\ 0 \in 0 .. l - 1
      BY <1>4, <1>7, <2>1, <2>2, <2>3
    <3>2. w % l = 0
      BY <1>4, <2>2, <3>1, RemainderIs
    <3>. QED
      BY <1>4, <2>3, <3>2
  <2>4. CASE p # l
    <3>1. w = l * (q - 1) + (l - p) /\ l - p \in 0 .. l - 1
      BY <1>4, <1>6, <1>7, <2>1, <2>2, <2>4
    <3>2. w % l = l - p
      BY <1>4, <2>2, <3>1, RemainderIs
    <3>. QED
      BY <1>4, <1>6, <3>2
  <2>. QED
    BY <2>3, <2>4
<1> HIDE DEF y
<1>12. BM!ApplyPkcs7(y, l) = BM!Ok(y \o t)
  <2>1. l - (Len(y) % l) = p
    BY <1>9, <1>11
  <2> DEFINE v == l - (Len(y) % l)
  <2>2. BM!ApplyPkcs7(y, l) = BM!Ok(y \o [k \in 1 .. v |-> v])
    BY <1>2, Zenon DEF BM!ApplyPkcs7
  <2> HIDE DEF v
  <2>3. v = p
    BY <2>1 DEF v
  <2>. QED
    BY <2>2, <2>3
<1>. QED
  BY <1>3, <1>9, <1>10, <1>12, Zenon

LEMMA RoundedUp ==
  ASSUME NEW x \in Nat
  PROVE  LET w == BM!CeilDiv(x, SemiblockSize) * SemiblockSize IN w \in Nat /\ x <= w
<1> DEFINE S == SemiblockSize
           u == x + (S - 1)
           q == u \div S
<1>1. S \in Nat \ {0}
  BY Sizes
<1> HIDE DEF S
<1>2. u \in Nat
  BY <1>1
<1>3. q \in Nat /\ u % S \in 0 .. S - 1 /\ u = S * q + (u % S)
  <2> HIDE DEF u
  <2>. QED
    BY <1>1, <1>2, Remainders
<1> DEFINE v == u % S
<1>4. v \in 0 .. S - 1 /\ u = S * q + v
  BY <1>3
<1> HIDE DEF v, q
<1>5. S * q \in Nat /\ q * S = S * q
  BY <1>1, <1>3
<1>6. x <= S * q
  BY <1>1, <1>4, <1>5
<1>7. BM!CeilDiv(x, S) = q
  BY Zenon DEF BM!CeilDiv, q, u
<1>. QED
  BY <1>5, <1>6, <1>7 DEF S

LEMMA MarkIs ==
  ASSUME BM!Radix = ByteValues, 2 <= ByteValues
  PROVE  BM!Mark \in Byte /\ BM!Mark # 0
<1>1. ByteValues \in Nat
  BY Sizes
<1>2. ByteValues \div 2 \in Nat /\ ByteValues \div 2 >= 1 /\ ByteValues \div 2 <= ByteValues - 1
  BY <1>1
<1>. QED
  BY <1>2 DEF BM!Mark, Byte

LEMMA IsoUndone ==
  ASSUME BM!Radix = ByteValues, 2 <= ByteValues, NEW bytes \in Seq(Byte)
  PROVE  BM!UnpadIso7816(BM!PadIso7816(bytes)) = BM!Ok(bytes)
<1> DEFINE z == Len(bytes)
           w == BM!CeilDiv(z + 1, SemiblockSize) * SemiblockSize
           y == BM!PadIso7816(bytes)
           at(k) == IF k <= z THEN bytes[k] ELSE IF k = z + 1 THEN BM!Mark ELSE 0
<1>1. z \in Nat /\ w \in Nat /\ z + 1 <= w
  <2>1. z \in Nat /\ z + 1 \in Nat
    BY LenProperties
  <2>. QED
    BY <2>1, RoundedUp
<1>2. y = [k \in 1 .. w |-> at(k)]
  BY Zenon DEF BM!PadIso7816
<1>3. BM!Mark \in Byte /\ BM!Mark # 0 /\ 0 \in Byte
  BY MarkIs, Sizes DEF Byte
<1>4. \A k \in 1 .. w : at(k) \in Byte
  <2>1. \A k \in 1 .. w : k <= z => k \in 1 .. Len(bytes)
    BY <1>1
  <2>2. \A k \in 1 .. Len(bytes) : bytes[k] \in Byte
    BY ElementOfSeq
  <2>. QED
    BY <1>3, <2>1, <2>2, Zenon
<1> HIDE DEF w, y
<1>5. y \in [1 .. w -> Byte] /\ Len(y) = w
  BY <1>1, <1>2, <1>4
<1>6. /\ \A k \in 1 .. z : k \in 1 .. w /\ y[k] = bytes[k]
      /\ z + 1 \in 1 .. w /\ y[z + 1] = BM!Mark
      /\ \A k \in 1 .. w : y[k] # 0 => k <= z + 1
  <2>1. \A k \in 1 .. w : y[k] = at(k)
    BY <1>2
  <2>2. (\A k \in 1 .. z : k \in 1 .. w /\ k <= z) /\ z + 1 \in 1 .. w /\ ~(z + 1 <= z)
    BY <1>1
  <2>3. \A k \in 1 .. w : k <= z => k <= z + 1
    BY <1>1
  <2>. QED
    BY <1>1, <2>1, <2>2, <2>3
<1> DEFINE nonzero == {k \in 1 .. Len(y) : y[k] # 0}
           Top(k) == \A j \in nonzero : j <= k
           marker == CHOOSE k \in nonzero : Top(k)
<1>7. z + 1 \in nonzero /\ Top(z + 1) /\ \A k \in nonzero : k \in Nat
  BY <1>1, <1>3, <1>5, <1>6
<1>8. marker = z + 1
  <2> HIDE DEF nonzero
  <2>1. marker \in nonzero /\ Top(marker)
    <3> HIDE DEF Top
    <3>. QED
      BY <1>7
  <2> HIDE DEF marker
  <2>2. z + 1 <= marker /\ marker <= z + 1 /\ marker \in Nat
    BY <1>7, <2>1
  <2>. QED
    BY <1>1, <2>2
<1>9. BM!UnpadIso7816(y) = IF nonzero = {} THEN BM!Err
        ELSE IF y[marker] # BM!Mark THEN BM!Err ELSE BM!Ok(SubSeq(y, 1, marker - 1))
  BY Zenon DEF BM!UnpadIso7816
<1>10. nonzero # {} /\ y[marker] = BM!Mark /\ marker - 1 = z
  BY <1>1, <1>6, <1>7, <1>8
<1>11. SubSeq(y, 1, z) = bytes
  <2>1. y \in Seq(Byte) /\ z \in 0 .. Len(y)
    BY <1>1, <1>5
  <2> DEFINE f == SubSeq(y, 1, z)
  <2>2. f \in Seq(Byte) /\ IsCut(y, z, f, SubSeq(y, z + 1, Len(y)))
    BY <2>1, SeqIsCut, Zenon
  <2>3. Len(f) = z
    BY <2>2, Zenon DEF IsCut
  <2>4. \A k \in 1 .. z : f[k] = y[k]
    BY <1>1, <2>1, SubSeqProperties
  <2> HIDE DEF f
  <2> DEFINE D == 1 .. z
  <2>5. f \in [D -> Byte] /\ bytes \in [D -> Byte] /\ \A k \in D : f[k] = bytes[k]
    BY <1>6, <2>2, <2>3, <2>4
  <2> HIDE DEF D
  <2>6. f = bytes
    BY <2>5, SameFunction
  <2>. QED
    BY <2>6 DEF f
<1> HIDE DEF marker, nonzero
<1>. QED
  BY <1>9, <1>10, <1>11, Zenon DEF y

(* A set of numbers below a bound has a largest element.                   *)
LEMMA LargestExists ==
  ASSUME NEW K \in Nat, NEW T \in SUBSET (1 .. K), T # {}
  PROVE  \E k \in T : \A j \in T : j <= k
<1> DEFINE Largest(U) == U # {} => \E k \in U : \A j \in U : j <= k
           Below(i) == {j \in T : j <= i}
           Good == {i \in 0 .. K : Largest(Below(i))}
<1>0. \A j \in T : j \in Nat /\ 1 <= j /\ j <= K
  OBVIOUS
<1>1. 0 \in Good
  <2>1. 0 \in 0 .. K /\ \A j \in T : ~(j <= 0)
    BY <1>0
  <2>2. Below(0) = {}
    BY <2>1, Zenon
  <2> HIDE DEF Below
  <2>. QED
    BY <2>1, <2>2
<1>2. ASSUME NEW i \in 1 .. K, i - 1 \in Good PROVE i \in Good
  <2>1. CASE i \in T
    <3>1. i \in Below(i) /\ \A j \in Below(i) : j <= i
      BY <2>1
    <3>2. Largest(Below(i))
      <4> HIDE DEF Below
      <4>. QED
        BY <3>1
    <3> HIDE DEF Below, Largest
    <3>. QED
      BY <3>2
  <2>2. CASE i \notin T
    <3>1. Below(i) = Below(i - 1)
      <4>1. \A j \in T : j <= i <=> j <= i - 1
        BY <1>0, <2>2
      <4>. QED
        BY <4>1, Zenon
    <3>2. Largest(Below(i - 1))
      <4> HIDE DEF Largest, Below
      <4>. QED
        BY <1>2
    <3> HIDE DEF Below, Largest
    <3>. QED
      BY <3>1, <3>2
  <2>. QED
    BY <2>1, <2>2
<1>3. \A i \in 0 .. K : i \in Good
  <2> HIDE DEF Good
  <2>. QED
    BY <1>1, <1>2, UpTo
<1>4. Largest(Below(K)) /\ Below(K) = T
  <2>1. Below(K) = T
    BY <1>0, Zenon
  <2>2. K \in 0 .. K
    OBVIOUS
  <2> HIDE DEF Largest, Below
  <2>. QED
    BY <1>3, <2>1, <2>2
<1> HIDE DEF Below
<1>. QED
  BY <1>4

Regroups(s, t, u) == (s \o t) \o u = s \o (t \o u)
LEMMA ConcatRegroups ==
  ASSUME NEW S, NEW s \in Seq(S), NEW t \in Seq(S), NEW u \in Seq(S)
  PROVE  Regroups(s, t, u)
  BY ConcatAssociative, SMT DEF Regroups

LEMMA IsoRedone ==
  ASSUME NEW bytes \in Seq(Byte), BM!UnpadIso7816(bytes).ok, BM!Mark \in Byte
  PROVE  \E k \in 0 .. Len(bytes) :
           bytes = BM!UnpadIso7816(bytes).bytes \o <<BM!Mark>> \o [i \in 1 .. k |-> 0]
<1> DEFINE z == Len(bytes)
           nonzero == {k \in 1 .. z : bytes[k] # 0}
           Top(k) == \A j \in nonzero : j <= k
           marker == CHOOSE k \in nonzero : Top(k)
           y == SubSeq(bytes, 1, marker - 1)
<1>1. ~BM!Err.ok
  BY ModeAnswer
<1>2. nonzero # {} /\ bytes[marker] = BM!Mark /\ BM!UnpadIso7816(bytes) = BM!Ok(y)
  BY <1>1, Zenon DEF BM!UnpadIso7816
<1>3. BM!UnpadIso7816(bytes).bytes = y
  BY <1>2, ModeAnswer, Zenon
<1>4. z \in Nat /\ nonzero \in SUBSET (1 .. z)
  BY LenProperties
<1>5. marker \in nonzero /\ Top(marker)
  <2> HIDE DEF nonzero
  <2>1. \E k \in nonzero : Top(k)
    BY <1>2, <1>4, LargestExists
  <2> HIDE DEF Top
  <2>. QED
    BY <2>1
<1> HIDE DEF marker
<1>6. marker \in 1 .. z /\ \A k \in 1 .. z : k > marker => bytes[k] = 0
  BY <1>4, <1>5
<1> DEFINE c == marker - 1
           t == SubSeq(bytes, marker, z)
           d == z - marker
<1>7. /\ c \in 0 .. z /\ c + 1 = marker /\ d \in 0 .. z /\ c \in Nat /\ d \in Nat
      /\ marker \in Int /\ z \in Int /\ z - marker + 1 = d + 1
  BY <1>4, <1>6
<1>8. y \in Seq(Byte) /\ t \in Seq(Byte) /\ bytes = y \o t
  <2>1. /\ y \in Seq(Byte) /\ SubSeq(bytes, c + 1, z) \in Seq(Byte)
        /\ IsCut(bytes, c, y, SubSeq(bytes, c + 1, z))
    BY <1>7, SeqIsCut, Zenon
  <2>2. SubSeq(bytes, c + 1, z) = t
    BY <1>7, Zenon
  <2>. QED
    BY <2>1, <2>2, Zenon DEF IsCut
<1>9. Len(t) = d + 1 /\ \A k \in 1 .. d + 1 : t[k] = bytes[marker + k - 1]
  <2>1. \A j \in marker .. z : bytes[j] \in Byte
    <3>1. \A j \in marker .. z : j \in 1 .. Len(bytes)
      BY <1>6, <1>7
    <3>. QED
      BY <3>1, ElementOfSeq
  <2> HIDE DEF z, d
  <2>2. /\ Len(SubSeq(bytes, marker, z)) = IF marker <= z THEN z - marker + 1 ELSE 0
        /\ \A k \in 1 .. z - marker + 1 : SubSeq(bytes, marker, z)[k] = bytes[marker + k - 1]
    BY <1>7, <2>1, SubSeqProperties
  <2>. QED
    BY <1>6, <1>7, <2>2
<1> HIDE DEF t, y, c, d, z
<1>10. t = <<BM!Mark>> \o [i \in 1 .. d |-> 0]
  <2> DEFINE f == <<BM!Mark>>
             g == [i \in 1 .. d |-> 0]
             h == f \o g
  <2>1. f \in [1 .. 1 -> Byte] /\ f[1] = BM!Mark
    OBVIOUS
  <2>2. 0 \in Byte
    BY Sizes DEF Byte
  <2>3. g \in [1 .. d -> Byte] /\ \A i \in 1 .. d : g[i] = 0
    BY <1>7, <2>2
  <2> HIDE DEF f, g
  <2>4. IsJoin(h, 1, d, f, g)
    BY <1>7, <2>1, <2>3, Joined
  <2>5. /\ h \in [1 .. 1 + d -> Byte] /\ h[1] = f[1] /\ \A i \in 1 .. d : h[1 + i] = g[i]
        /\ 1 + d = d + 1
    BY <1>7, <2>4 DEF IsJoin
  <2> HIDE DEF h
  <2>6. ASSUME NEW k \in 1 .. d + 1 PROVE h[k] = t[k]
    <3>1. CASE k = 1
      <4>1. marker + 1 - 1 = marker /\ 1 \in 1 .. d + 1
        BY <1>7
      <4>2. t[1] = bytes[marker]
        BY <1>9, <4>1, Zenon
      <4>. QED
        BY <1>2, <2>1, <2>5, <3>1, <4>2, Zenon
    <3>2. CASE k # 1
      <4> DEFINE j == marker + k - 1
      <4>1. j \in 1 .. z /\ j > marker /\ k - 1 \in 1 .. d /\ 1 + (k - 1) = k
        BY <1>6, <1>7, <3>2 DEF d
      <4>2. t[k] = bytes[j]
        BY <1>9, Zenon
      <4> HIDE DEF j
      <4>3. bytes[j] = 0
        BY <1>6, <4>1, Zenon
      <4>4. h[k] = 0
        BY <2>3, <2>5, <4>1
      <4>. QED
        BY <4>2, <4>3, <4>4
    <3>. QED
      BY <3>1, <3>2
  <2> DEFINE D == 1 .. d + 1
  <2>7. h \in [D -> Byte] /\ t \in [D -> Byte] /\ \A k \in D : h[k] = t[k]
    BY <1>8, <1>9, <2>5, <2>6
  <2> HIDE DEF D
  <2>8. h = t
    BY <2>7, SameFunction
  <2>. QED
    BY <2>8, Zenon DEF h, f, g
<1>11. y \o (<<BM!Mark>> \o [i \in 1 .. d |-> 0]) = (y \o <<BM!Mark>>) \o [i \in 1 .. d |-> 0]
  <2> DEFINE f == <<BM!Mark>>
             g == [i \in 1 .. d |-> 0]
  <2>1. f \in Seq(Byte)
    OBVIOUS
  <2>2. g \in Seq(Byte)
    BY <1>7, Sizes DEF Byte
  <2> HIDE DEF f, g
  <2>3. (y \o f) \o g = y \o (f \o g)
    <3>1. Regroups(y, f, g)
      BY <1>8, <2>1, <2>2, ConcatRegroups, Zenon
    <3>. QED
      BY <3>1, Zenon DEF Regroups
  <2>. QED
    BY <2>3, Zenon DEF f, g
<1>12. bytes = (y \o <<BM!Mark>>) \o [i \in 1 .. d |-> 0]
  BY <1>8, <1>10, <1>11, Zenon
<1>. QED
  BY <1>3, <1>7, <1>12, Zenon DEF z

-----------------------------------------------------------------------------
(* One call.                                                               *)
LEMMA CallIs ==
  ASSUME NEW y, NEW b, NEW p
  PROVE  /\ BM!Call("cbc_encrypt", y, b, p) = BM!CbcEncrypt(b, y)
         /\ BM!Call("cbc_decrypt", y, b, p) = BM!CbcDecrypt(b, y)
         /\ BM!Call("aes_ecb_encrypt", y, b, p) = BM!Ecb(KeyLengths, BlockCipher, p, y)
         /\ BM!Call("aes_ecb_decrypt", y, b, p) = BM!Ecb(KeyLengths, BlockDecipher, p, y)
         /\ BM!Call("tdes_ecb_encrypt", y, b, p) = BM!Ecb(TdesKeyLengths, BlockCipher, p, y)
         /\ BM!Call("tdes_ecb_decrypt", y, b, p) = BM!Ecb(TdesKeyLengths, BlockDecipher, p, y)
         /\ BM!Call("aes_cbc_encrypt", y, b, p) = BM!KeyedCbc(KeyLengths, TRUE, p, b, y)
         /\ BM!Call("aes_cbc_decrypt", y, b, p) = BM!KeyedCbc(KeyLengths, FALSE, p, b, y)
         /\ BM!Call("tdes_cbc_encrypt", y, b, p) = BM!KeyedCbc(TdesKeyLengths, TRUE, p, b, y)
         /\ BM!Call("tdes_cbc_decrypt", y, b, p) = BM!KeyedCbc(TdesKeyLengths, FALSE, p, b, y)
         /\ BM!Call("pkcs7_apply", y, b, p) = BM!ApplyPkcs7(y, p)
         /\ BM!Call("pkcs7_remove", y, b, p) = BM!RemovePkcs7(y, p)
         /\ BM!Call("iso7816_pad", y, b, p) = BM!Ok(BM!PadIso7816(y))
         /\ BM!Call("iso7816_unpad", y, b, p) = BM!UnpadIso7816(y)
  BY DEF BM!Call, BM!AesEcb, BM!TdesEcb, BM!AesCbc, BM!TdesCbc

EncryptionNames == {"aes_ecb_encrypt", "tdes_ecb_encrypt", "aes_cbc_encrypt", "tdes_cbc_encrypt"}
DecryptionNames == {"aes_ecb_decrypt", "tdes_ecb_decrypt", "aes_cbc_decrypt", "tdes_cbc_decrypt"}
Invertible ==
  {"cbc_encrypt", "cbc_decrypt", "pkcs7_apply", "pkcs7_remove", "iso7816_pad", "iso7816_unpad"}
    \cup EncryptionNames \cup DecryptionNames

LEMMA NamesAre ==
  /\ BM!Encryptions = EncryptionNames /\ BM!Decryptions = DecryptionNames
  /\ BM!InverseOf["aes_ecb_encrypt"] = "aes_ecb_decrypt"
  /\ BM!InverseOf["tdes_ecb_encrypt"] = "tdes_ecb_decrypt"
  /\ BM!InverseOf["aes_cbc_encrypt"] = "aes_cbc_decrypt"
  /\ BM!InverseOf["tdes_cbc_encrypt"] = "tdes_cbc_decrypt"
<1>1. /\ BM!InverseOf["aes_ecb_encrypt"] = "aes_ecb_decrypt"
      /\ BM!InverseOf["tdes_ecb_encrypt"] = "tdes_ecb_decrypt"
      /\ BM!InverseOf["aes_cbc_encrypt"] = "aes_cbc_decrypt"
      /\ BM!InverseOf["tdes_cbc_encrypt"] = "tdes_cbc_decrypt"
  BY DEF BM!InverseOf
<1>2. BM!Encryptions = EncryptionNames
  BY DEF BM!Encryptions, BM!InverseOf, EncryptionNames
<1>3. BM!Decryptions = {BM!InverseOf[op] : op \in EncryptionNames}
  BY <1>2, Zenon DEF BM!Decryptions
<1>4. {BM!InverseOf[op] : op \in EncryptionNames} = DecryptionNames
  BY <1>1 DEF EncryptionNames, DecryptionNames
<1>. QED
  BY <1>1, <1>2, <1>3, <1>4

(* What is known of the arguments of a call.                               *)
Argued ==
  /\ calls \in Nat /\ (data \in BM!Data \/ operation = "ctr")
  /\ operation \in {"cbc_encrypt", "cbc_decrypt"} => block \in Semi \cup {<<0>>}
  /\ operation \in EncryptionNames \cup DecryptionNames => block \in Semi /\ calls = MaxLength
ModeInv ==
  /\ Argued /\ pc \in {"call", "done"}
  /\ pc = "done" /\ operation \in Invertible => result = BM!Call(operation, data, block, parameter)

LEMMA FewerBlocks ==
  ASSUME NEW z \in Nat
  PROVE  BM!CeilDiv(z, SemiblockSize) <= z
<1> DEFINE S == SemiblockSize
           u == z + (S - 1)
           q == u \div S
<1>1. S \in Nat \ {0} /\ u \in Nat
  BY Sizes
<1> HIDE DEF S
<1>2. q \in Nat /\ S * q <= u
  <2> HIDE DEF u
  <2>. QED
    BY <1>1
<1> HIDE DEF q
<1>3. q <= z
  <2>1. SUFFICES ASSUME z + 1 <= q PROVE FALSE
    BY <1>2
  <2>2. S * (z + 1) <= S * q /\ S * (z + 1) = S * z + S /\ z <= S * z /\ S * z \in Nat /\ S * q \in Nat
    BY <1>1, <1>2, <2>1
  <2>. QED
    BY <1>1, <1>2, <2>2
<1>4. BM!CeilDiv(z, S) = q
  BY Zenon DEF BM!CeilDiv, q, u
<1>. QED
  BY <1>3, <1>4 DEF S

LEMMA DataIs ==
  ASSUME BM!Radix = ByteValues, BM!WidthsFit, NEW y \in BM!Data
  PROVE  /\ y \in Seq(Byte) /\ Len(y) <= MaxLength /\ BM!BlockCount(y) <= MaxLength
         /\ (y # << >> => 1 <= MaxLength)
<1>1. MaxLength \in Nat
  BY DEF BM!WidthsFit
<1>2. PICK l \in 0 .. MaxLength : y \in BM!Strings(l)
  BY DEF BM!Data
<1>3. BM!Byte = Byte
  BY ModeTypes
<1>4. l \in Nat /\ y \in [1 .. l -> Byte]
  BY <1>1, <1>2, <1>3 DEF BM!Strings
<1>5. y \in Seq(Byte) /\ Len(y) = l
  BY <1>4
<1>6. BM!CeilDiv(l, SemiblockSize) <= l
  BY <1>4, FewerBlocks
<1>7. BM!BlockCount(y) <= l
  BY <1>5, <1>6, Zenon DEF BM!BlockCount
<1>8. BM!BlockCount(y) \in Int
  <2>1. SemiblockSize \in Nat \ {0} /\ l + (SemiblockSize - 1) \in Nat
    BY <1>4, Sizes
  <2>2. BM!CeilDiv(l, SemiblockSize) \in Int
    BY <2>1 DEF BM!CeilDiv
  <2>. QED
    BY <1>5, <2>2 DEF BM!BlockCount
<1>9. y # << >> => l # 0
  BY <1>4
<1>. QED
  BY <1>1, <1>2, <1>4, <1>5, <1>7, <1>8, <1>9

LEMMA PermutationIs ==
  ASSUME BM!Radix = ByteValues, BM!CipherIsPermutation PROVE IsPermutation
  BY ModeTypes DEF BM!CipherIsPermutation, IsPermutation

LEMMA ModeInvInit ==
  ASSUME BM!Radix = ByteValues, BM!WidthsFit PROVE BM!Init => ModeInv
<1>1. SUFFICES ASSUME BM!Init PROVE ModeInv
  OBVIOUS
<1>2. SemiblockSize \in Nat \ {0} /\ MaxLength \in Nat /\ ByteValues \in Nat /\ 2 <= ByteValues
  BY Sizes DEF BM!WidthsFit
<1>3. BM!Block = Semi /\ BM!Encryptions = EncryptionNames /\ BM!Decryptions = DecryptionNames
  BY ModeTypes, NamesAre
<1>4. BM!ZeroBlock \in Semi /\ [BM!ZeroBlock EXCEPT ![1] = 1] \in Semi
  <2>1. 0 \in Byte /\ 1 \in Byte
    BY <1>2 DEF Byte
  <2>2. BM!ZeroBlock \in Semi
    BY <2>1 DEF BM!ZeroBlock, Semi
  <2>. QED
    BY <2>1, <2>2 DEF Semi
<1>5. pc = "call"
  BY <1>1 DEF BM!Init
<1>6. calls \in Nat
  <2>1. ASSUME NEW z \in Nat PROVE z \div SemiblockSize \in Nat
    BY <1>2
  <2>2. (MaxLength + (SemiblockSize - 1)) \div SemiblockSize \in Nat
    BY <1>2
  <2>3. (MaxLength \div SemiblockSize) \in Nat /\ BM!CeilDiv(MaxLength, SemiblockSize) + 1 \in Nat
    BY <1>2, <2>1, <2>2 DEF BM!CeilDiv
  <2> HIDE DEF BM!CeilDiv
  <2>4. \/ calls \in 0 .. MaxLength \div SemiblockSize
        \/ calls \in 0 .. BM!CeilDiv(MaxLength, SemiblockSize) + 1
        \/ calls = MaxLength \/ calls = 0 \/ calls \in 0 .. 1
    BY <1>1, Zenon DEF BM!Init
  <2> DEFINE u == MaxLength \div SemiblockSize
             v == BM!CeilDiv(MaxLength, SemiblockSize) + 1
  <2> HIDE DEF u, v
  <2>. QED
    BY <1>2, <2>3, <2>4 DEF u, v
<1>7. data \in BM!Data \/ operation = "ctr"
  BY <1>1, Zenon DEF BM!Init
<1>8. operation \in {"cbc_encrypt", "cbc_decrypt"} => block \in Semi \cup {<<0>>}
  BY <1>1, <1>3, <1>4 DEF BM!Init, EncryptionNames, DecryptionNames
<1>9. operation \in EncryptionNames \cup DecryptionNames => block \in Semi /\ calls = MaxLength
  <2>1. SUFFICES ASSUME operation \in EncryptionNames \cup DecryptionNames
                 PROVE  block \in Semi /\ calls = MaxLength
    OBVIOUS
  <2>2. /\ operation \notin {"cbc_encrypt", "cbc_decrypt"}
        /\ operation \notin {"cmac_with", "cmac_with_cbc", "iso7816_pad", "iso7816_unpad"}
        /\ operation \notin {"pkcs7_apply", "pkcs7_remove"} /\ operation # "ctr"
    BY <2>1 DEF EncryptionNames, DecryptionNames
  <2>3. block \in {BM!ZeroBlock, [BM!ZeroBlock EXCEPT ![1] = 1]} /\ calls = MaxLength
    BY <1>1, <2>2, Zenon DEF BM!Init
  <2>. QED
    BY <1>4, <2>3
<1>. QED
  BY <1>5, <1>6, <1>7, <1>8, <1>9 DEF ModeInv, Argued

(* What a call returns depends on no variable but calls.                   *)
LEMMA CbcStays ==
  ASSUME calls' = calls, NEW v, NEW y
  PROVE  BM!CbcEncrypt(v, y)' = BM!CbcEncrypt(v, y) /\ BM!CbcDecrypt(v, y)' = BM!CbcDecrypt(v, y)
<1>1. BM!CbcEncrypt(v, y)' = BM!CbcEncrypt(v, y)
  BY Zenon DEF BM!CbcEncrypt, BM!Answered
<1>2. BM!CbcDecrypt(v, y)' = BM!CbcDecrypt(v, y)
  BY Zenon DEF BM!CbcDecrypt, BM!Answered
<1>. QED
  BY <1>1, <1>2

LEMMA KeyedStays ==
  ASSUME calls' = calls, NEW lengths, NEW e \in BOOLEAN, NEW p, NEW v, NEW y
  PROVE  BM!KeyedCbc(lengths, e, p, v, y)' = BM!KeyedCbc(lengths, e, p, v, y)
  BY CbcStays, Zenon DEF BM!KeyedCbc

LEMMA CallStays ==
  ASSUME calls' = calls, NEW op \in Invertible, NEW y, NEW b, NEW p
  PROVE  BM!Call(op, y, b, p)' = BM!Call(op, y, b, p)
<1>1. CASE op = "cbc_encrypt"
  BY <1>1, CbcStays DEF BM!Call
<1>2. CASE op = "cbc_decrypt"
  BY <1>2, CbcStays DEF BM!Call
<1>3. CASE op \in {"aes_cbc_encrypt", "aes_cbc_decrypt", "tdes_cbc_encrypt", "tdes_cbc_decrypt"}
  BY <1>3, KeyedStays DEF BM!Call, BM!AesCbc, BM!TdesCbc
<1>4. CASE op \in {"aes_ecb_encrypt", "aes_ecb_decrypt", "tdes_ecb_encrypt", "tdes_ecb_decrypt",
                   "pkcs7_apply", "pkcs7_remove", "iso7816_pad", "iso7816_unpad"}
  BY <1>4 DEF BM!Call
<1>. QED
  BY <1>1, <1>2, <1>3, <1>4 DEF Invertible, EncryptionNames, DecryptionNames

LEMMA ModeInvNext == ModeInv /\ [BM!Next]_BM!vars => ModeInv'
<1> SUFFICES ASSUME ModeInv, [BM!Next]_BM!vars PROVE ModeInv'
  OBVIOUS
<1>1. UNCHANGED <<operation, data, block, parameter, calls>>
  BY DEF BM!Next, BM!Run, BM!vars
<1>2. Argued'
  BY <1>1 DEF ModeInv, Argued, BM!Data, BM!Strings
<1>3. ASSUME operation \in Invertible
      PROVE  BM!Call(operation, data, block, parameter)' = BM!Call(operation, data, block, parameter)
  <2>1. \A op \in Invertible : \A y, b, p : BM!Call(op, y, b, p)' = BM!Call(op, y, b, p)
    BY <1>1, CallStays
  <2>. QED
    BY <1>1, <1>3, <2>1
<1>4. CASE BM!Run
  BY <1>1, <1>2, <1>3, <1>4 DEF ModeInv, BM!Run
<1>5. CASE UNCHANGED BM!vars
  BY <1>1, <1>2, <1>3, <1>5 DEF ModeInv, BM!vars
<1>. QED
  BY <1>4, <1>5 DEF BM!Next

LEMMA ReturnedIs ==
  ASSUME ModeInv, NEW op \in Invertible, BM!Returned(op)
  PROVE  /\ operation = op /\ result = BM!Call(op, data, block, parameter) /\ result.ok
         /\ data \in BM!Data
<1>1. op # "ctr"
  BY DEF Invertible, EncryptionNames, DecryptionNames
<1>. QED
  BY <1>1 DEF ModeInv, Argued, BM!Returned

LEMMA CbcReturns ==
  ASSUME BM!Radix = ByteValues, BM!WidthsFit, BM!CipherIsPermutation, ModeInv
  PROVE  /\ BM!Returned("cbc_encrypt") /\ calls > 0 => BM!Undo("cbc_decrypt") = BM!Ok(data)
         /\ BM!Returned("cbc_decrypt") /\ calls >= BM!BlockCount(data) =>
              BM!Undo("cbc_encrypt") = BM!Ok(data)
<1>1. IsPermutation /\ calls \in Nat
  BY PermutationIs DEF ModeInv, Argued
<1>2. ASSUME BM!Returned("cbc_encrypt"), calls > 0 PROVE BM!Undo("cbc_decrypt") = BM!Ok(data)
  <2>1. /\ operation = "cbc_encrypt" /\ result = BM!Call("cbc_encrypt", data, block, parameter)
        /\ result.ok /\ data \in BM!Data
    <3>1. "cbc_encrypt" \in Invertible
      BY DEF Invertible
    <3>. QED
      BY <1>2, <3>1, ReturnedIs, Zenon
  <2>2. result = BM!CbcEncrypt(block, data) /\ data \in Seq(Byte) /\ block \in Semi \cup {<<0>>}
    BY <2>1, CallIs, DataIs DEF ModeInv, Argued
  <2>3. PICK m \in Nat : block \in Semi /\ data \in Octets(m)
    BY <2>1, <2>2, CbcAccepts, Zenon
  <2>4. 1 <= calls
    BY <1>1, <1>2
  <2>5. BM!CbcDecrypt(block, BM!CbcEncrypt(block, data).bytes) = BM!Ok(data)
    BY <1>1, <2>1, <2>2, <2>3, <2>4, CbcUndone, Zenon
  <2>. QED
    BY <2>2, <2>5, CallIs, Zenon DEF BM!Undo
<1>3. ASSUME BM!Returned("cbc_decrypt"), calls >= BM!BlockCount(data)
      PROVE  BM!Undo("cbc_encrypt") = BM!Ok(data)
  <2>1. /\ operation = "cbc_decrypt" /\ result = BM!Call("cbc_decrypt", data, block, parameter)
        /\ result.ok /\ data \in BM!Data
    <3>1. "cbc_decrypt" \in Invertible
      BY DEF Invertible
    <3>. QED
      BY <1>3, <3>1, ReturnedIs, Zenon
  <2>2. result = BM!CbcDecrypt(block, data) /\ data \in Seq(Byte) /\ block \in Semi \cup {<<0>>}
    BY <2>1, CallIs, DataIs DEF ModeInv, Argued
  <2>3. PICK m \in Nat : block \in Semi /\ data \in Octets(m)
    BY <2>1, <2>2, CbcAccepts, Zenon
  <2>4. m <= calls
    BY <1>1, <1>3, <2>3, ModeBlocks
  <2>5. BM!CbcEncrypt(block, BM!CbcDecrypt(block, data).bytes) = BM!Ok(data)
    BY <1>1, <2>1, <2>2, <2>3, <2>4, CbcRedone, Zenon
  <2>. QED
    BY <2>2, <2>5, CallIs, Zenon DEF BM!Undo
<1>. QED
  BY <1>2, <1>3

KeyedInverts(op, inv) ==
  /\ BM!Returned(op) /\ data # << >> => BM!Undo(inv) = BM!Ok(data)
  /\ BM!Returned(inv) => BM!Undo(op) = BM!Ok(data)

LEMMA KeyedReturned ==
  ASSUME BM!Radix = ByteValues, BM!WidthsFit, ModeInv,
         NEW op \in EncryptionNames \cup DecryptionNames, BM!Returned(op)
  PROVE  /\ result = BM!Call(op, data, block, parameter) /\ result.ok
         /\ data \in Seq(Byte) /\ block \in Semi /\ BM!BlockCount(data) <= calls
         /\ (data # << >> => 1 <= calls)
<1>1. op \in Invertible
  BY DEF Invertible
<1>2. operation = op /\ result = BM!Call(op, data, block, parameter) /\ result.ok /\ data \in BM!Data
  BY <1>1, ReturnedIs, Zenon
<1>3. block \in Semi /\ calls = MaxLength
  BY <1>2 DEF ModeInv, Argued
<1>. QED
  BY <1>2, <1>3, DataIs

LEMMA EcbReturns ==
  ASSUME BM!Radix = ByteValues, BM!WidthsFit, BM!CipherIsPermutation, ModeInv
  PROVE  /\ KeyedInverts("aes_ecb_encrypt", "aes_ecb_decrypt")
         /\ KeyedInverts("tdes_ecb_encrypt", "tdes_ecb_decrypt")
<1>1. /\ BlockCipher \in [Semi -> Semi] /\ BlockDecipher \in [Semi -> Semi]
      /\ Undoes(BlockDecipher, BlockCipher) /\ Undoes(BlockCipher, BlockDecipher)
  BY PermutationIs DEF IsPermutation, Undoes
<1>2. ASSUME NEW lengths, NEW op \in EncryptionNames, NEW inv \in DecryptionNames,
             \A y : BM!Call(op, y, block, parameter) = BM!Ecb(lengths, BlockCipher, parameter, y),
             \A y : BM!Call(inv, y, block, parameter) = BM!Ecb(lengths, BlockDecipher, parameter, y)
      PROVE  KeyedInverts(op, inv)
  <2>1. ASSUME BM!Returned(op) PROVE BM!Undo(inv) = BM!Ok(data)
    <3>1. /\ result = BM!Call(op, data, block, parameter) /\ result.ok /\ data \in Seq(Byte)
      BY <2>1, KeyedReturned
    <3>2. result = BM!Ecb(lengths, BlockCipher, parameter, data)
      BY <1>2, <3>1, Zenon
    <3>3. BM!Ecb(lengths, BlockCipher, parameter, data).ok
      BY <3>1, <3>2, Zenon
    <3>4. EcbInverts(lengths, BlockCipher, BlockDecipher, parameter, data)
      BY <1>1, <3>1, <3>3, EcbUndone, Zenon
    <3>. QED
      BY <1>2, <3>2, <3>4, Zenon DEF BM!Undo, EcbInverts
  <2>2. ASSUME BM!Returned(inv) PROVE BM!Undo(op) = BM!Ok(data)
    <3>1. /\ result = BM!Call(inv, data, block, parameter) /\ result.ok /\ data \in Seq(Byte)
      BY <2>2, KeyedReturned
    <3>2. result = BM!Ecb(lengths, BlockDecipher, parameter, data)
      BY <1>2, <3>1, Zenon
    <3>3. BM!Ecb(lengths, BlockDecipher, parameter, data).ok
      BY <3>1, <3>2, Zenon
    <3>4. EcbInverts(lengths, BlockDecipher, BlockCipher, parameter, data)
      BY <1>1, <3>1, <3>3, EcbUndone, Zenon
    <3>. QED
      BY <1>2, <3>2, <3>4, Zenon DEF BM!Undo, EcbInverts
  <2>. QED
    BY <2>1, <2>2, Zenon DEF KeyedInverts
<1>3. KeyedInverts("aes_ecb_encrypt", "aes_ecb_decrypt")
  <2>1. "aes_ecb_encrypt" \in EncryptionNames /\ "aes_ecb_decrypt" \in DecryptionNames
    BY DEF EncryptionNames, DecryptionNames
  <2>2. \A y : BM!Call("aes_ecb_encrypt", y, block, parameter) = BM!Ecb(KeyLengths, BlockCipher, parameter, y)
    BY CallIs
  <2>3. \A y : BM!Call("aes_ecb_decrypt", y, block, parameter) = BM!Ecb(KeyLengths, BlockDecipher, parameter, y)
    BY CallIs
  <2>. QED
    BY <1>2, <2>1, <2>2, <2>3, Zenon
<1>4. KeyedInverts("tdes_ecb_encrypt", "tdes_ecb_decrypt")
  <2>1. "tdes_ecb_encrypt" \in EncryptionNames /\ "tdes_ecb_decrypt" \in DecryptionNames
    BY DEF EncryptionNames, DecryptionNames
  <2>2. \A y : BM!Call("tdes_ecb_encrypt", y, block, parameter) = BM!Ecb(TdesKeyLengths, BlockCipher, parameter, y)
    BY CallIs
  <2>3. \A y : BM!Call("tdes_ecb_decrypt", y, block, parameter) = BM!Ecb(TdesKeyLengths, BlockDecipher, parameter, y)
    BY CallIs
  <2>. QED
    BY <1>2, <2>1, <2>2, <2>3, Zenon
<1>. QED
  BY <1>3, <1>4

LEMMA KeyedReturns ==
  ASSUME BM!Radix = ByteValues, BM!WidthsFit, BM!CipherIsPermutation, ModeInv
  PROVE  /\ KeyedInverts("aes_cbc_encrypt", "aes_cbc_decrypt")
         /\ KeyedInverts("tdes_cbc_encrypt", "tdes_cbc_decrypt")
<1>1. IsPermutation
  BY PermutationIs
<1>2. ASSUME NEW lengths, NEW op \in EncryptionNames, NEW inv \in DecryptionNames,
             \A y : BM!Call(op, y, block, parameter) = BM!KeyedCbc(lengths, TRUE, parameter, block, y),
             \A y : BM!Call(inv, y, block, parameter) = BM!KeyedCbc(lengths, FALSE, parameter, block, y)
      PROVE  KeyedInverts(op, inv)
  <2>1. ASSUME BM!Returned(op), data # << >> PROVE BM!Undo(inv) = BM!Ok(data)
    <3>1. /\ result = BM!Call(op, data, block, parameter) /\ result.ok /\ data \in Seq(Byte)
          /\ block \in Semi /\ 1 <= calls
      BY <2>1, KeyedReturned
    <3>2. result = BM!KeyedCbc(lengths, TRUE, parameter, block, data)
      BY <1>2, <3>1, Zenon
    <3>3. BM!KeyedCbc(lengths, FALSE, parameter, block, result.bytes) = BM!Ok(data)
      BY <1>1, <2>1, <3>1, <3>2, KeyedUndone, Zenon
    <3>. QED
      BY <1>2, <3>3, Zenon DEF BM!Undo
  <2>2. ASSUME BM!Returned(inv) PROVE BM!Undo(op) = BM!Ok(data)
    <3>1. /\ result = BM!Call(inv, data, block, parameter) /\ result.ok /\ data \in Seq(Byte)
          /\ block \in Semi /\ BM!BlockCount(data) <= calls
      BY <2>2, KeyedReturned
    <3>2. result = BM!KeyedCbc(lengths, FALSE, parameter, block, data)
      BY <1>2, <3>1, Zenon
    <3>3. BM!KeyedCbc(lengths, TRUE, parameter, block, result.bytes) = BM!Ok(data)
      BY <1>1, <3>1, <3>2, KeyedRedone, Zenon
    <3>. QED
      BY <1>2, <3>3, Zenon DEF BM!Undo
  <2>. QED
    BY <2>1, <2>2, Zenon DEF KeyedInverts
<1>3. KeyedInverts("aes_cbc_encrypt", "aes_cbc_decrypt")
  <2>1. "aes_cbc_encrypt" \in EncryptionNames /\ "aes_cbc_decrypt" \in DecryptionNames
    BY DEF EncryptionNames, DecryptionNames
  <2>2. \A y : BM!Call("aes_cbc_encrypt", y, block, parameter) = BM!KeyedCbc(KeyLengths, TRUE, parameter, block, y)
    BY CallIs
  <2>3. \A y : BM!Call("aes_cbc_decrypt", y, block, parameter) = BM!KeyedCbc(KeyLengths, FALSE, parameter, block, y)
    BY CallIs
  <2>. QED
    BY <1>2, <2>1, <2>2, <2>3, Zenon
<1>4. KeyedInverts("tdes_cbc_encrypt", "tdes_cbc_decrypt")
  <2>1. "tdes_cbc_encrypt" \in EncryptionNames /\ "tdes_cbc_decrypt" \in DecryptionNames
    BY DEF EncryptionNames, DecryptionNames
  <2>2. \A y : BM!Call("tdes_cbc_encrypt", y, block, parameter) = BM!KeyedCbc(TdesKeyLengths, TRUE, parameter, block, y)
    BY CallIs
  <2>3. \A y : BM!Call("tdes_cbc_decrypt", y, block, parameter) = BM!KeyedCbc(TdesKeyLengths, FALSE, parameter, block, y)
    BY CallIs
  <2>. QED
    BY <1>2, <2>1, <2>2, <2>3, Zenon
<1>. QED
  BY <1>3, <1>4

LEMMA PaddingsReturn ==
  ASSUME BM!Radix = ByteValues, BM!WidthsFit, ModeInv PROVE BM!PaddingsInvert
<1>1. ASSUME NEW op \in Invertible, BM!Returned(op)
      PROVE  result = BM!Call(op, data, block, parameter) /\ result.ok /\ data \in Seq(Byte)
  BY <1>1, ReturnedIs, DataIs
<1>2. /\ "pkcs7_apply" \in Invertible /\ "pkcs7_remove" \in Invertible
      /\ "iso7816_pad" \in Invertible /\ "iso7816_unpad" \in Invertible
  BY DEF Invertible
<1>3. 2 <= ByteValues
  BY DEF BM!WidthsFit
<1>4. BM!Returned("pkcs7_apply") => BM!Undo("pkcs7_remove") = BM!Ok(data)
  <2>1. SUFFICES ASSUME BM!Returned("pkcs7_apply") PROVE BM!Undo("pkcs7_remove") = BM!Ok(data)
    OBVIOUS
  <2>2. result = BM!ApplyPkcs7(data, parameter) /\ result.ok /\ data \in Seq(Byte)
    <3>1. /\ result = BM!Call("pkcs7_apply", data, block, parameter) /\ result.ok
          /\ data \in Seq(Byte)
      BY <1>1, <1>2, <2>1, Zenon
    <3>. QED
      BY <3>1, CallIs
  <2>3. BM!RemovePkcs7(result.bytes, parameter) = BM!Ok(data)
    BY <2>2, Pkcs7Undone, Zenon
  <2>. QED
    BY <2>3, CallIs, Zenon DEF BM!Undo
<1>5. BM!Returned("pkcs7_remove") /\ Len(data) % parameter = 0 => BM!Undo("pkcs7_apply") = BM!Ok(data)
  <2>1. SUFFICES ASSUME BM!Returned("pkcs7_remove"), Len(data) % parameter = 0
                 PROVE  BM!Undo("pkcs7_apply") = BM!Ok(data)
    OBVIOUS
  <2>2. result = BM!RemovePkcs7(data, parameter) /\ result.ok /\ data \in Seq(Byte)
    <3>1. /\ result = BM!Call("pkcs7_remove", data, block, parameter) /\ result.ok
          /\ data \in Seq(Byte)
      BY <1>1, <1>2, <2>1, Zenon
    <3>. QED
      BY <3>1, CallIs
  <2>3. BM!ApplyPkcs7(result.bytes, parameter) = BM!Ok(data)
    BY <2>1, <2>2, Pkcs7Redone, Zenon
  <2>. QED
    BY <2>3, CallIs, Zenon DEF BM!Undo
<1>6. BM!Returned("iso7816_pad") => BM!Undo("iso7816_unpad") = BM!Ok(data)
  <2>1. SUFFICES ASSUME BM!Returned("iso7816_pad") PROVE BM!Undo("iso7816_unpad") = BM!Ok(data)
    OBVIOUS
  <2>2. result = BM!Ok(BM!PadIso7816(data)) /\ data \in Seq(Byte)
    <3>1. /\ result = BM!Call("iso7816_pad", data, block, parameter) /\ result.ok
          /\ data \in Seq(Byte)
      BY <1>1, <1>2, <2>1, Zenon
    <3>. QED
      BY <3>1, CallIs
  <2>3. result.bytes = BM!PadIso7816(data)
    BY <2>2, ModeAnswer, Zenon
  <2>4. BM!UnpadIso7816(result.bytes) = BM!Ok(data)
    BY <1>3, <2>2, <2>3, IsoUndone, Zenon
  <2>. QED
    BY <2>4, CallIs, Zenon DEF BM!Undo
<1>7. BM!Returned("iso7816_unpad") =>
        \E k \in 0 .. Len(data) :
          data = result.bytes \o <<BM!Mark>> \o [i \in 1 .. k |-> 0]
  <2>1. SUFFICES ASSUME BM!Returned("iso7816_unpad")
                 PROVE  \E k \in 0 .. Len(data) :
                          data = result.bytes \o <<BM!Mark>> \o [i \in 1 .. k |-> 0]
    OBVIOUS
  <2>2. result = BM!UnpadIso7816(data) /\ result.ok /\ data \in Seq(Byte)
    <3>1. /\ result = BM!Call("iso7816_unpad", data, block, parameter) /\ result.ok
          /\ data \in Seq(Byte)
      BY <1>1, <1>2, <2>1, Zenon
    <3>. QED
      BY <3>1, CallIs
  <2>3. BM!Mark \in Byte
    BY <1>3, MarkIs
  <2>. QED
    BY <2>2, <2>3, IsoRedone, Zenon
<1>. QED
  BY <1>4, <1>5, <1>6, <1>7, Zenon DEF BM!PaddingsInvert

LEMMA ModeInvImplies ==
  ASSUME BM!Radix = ByteValues, BM!WidthsFit, BM!CipherIsPermutation, ModeInv
  PROVE  BM!ModesInvert /\ BM!PaddingsInvert
<1>2. ASSUME NEW op \in EncryptionNames PROVE KeyedInverts(op, BM!InverseOf[op])
  <2>1. \/ op = "aes_ecb_encrypt" \/ op = "tdes_ecb_encrypt"
        \/ op = "aes_cbc_encrypt" \/ op = "tdes_cbc_encrypt"
    BY DEF EncryptionNames
  <2>2. /\ KeyedInverts("aes_ecb_encrypt", "aes_ecb_decrypt")
        /\ KeyedInverts("tdes_ecb_encrypt", "tdes_ecb_decrypt")
        /\ KeyedInverts("aes_cbc_encrypt", "aes_cbc_decrypt")
        /\ KeyedInverts("tdes_cbc_encrypt", "tdes_cbc_decrypt")
    BY EcbReturns, KeyedReturns
  <2>. QED
    BY <2>1, <2>2, NamesAre, Zenon
<1>3. \A op \in BM!Encryptions : KeyedInverts(op, BM!InverseOf[op])
  BY <1>2, NamesAre, Zenon
<1>4. BM!ModesInvert
  BY <1>3, CbcReturns, Zenon DEF BM!ModesInvert, KeyedInverts
<1>. QED
  BY <1>4, PaddingsReturn

(* For any block size, number of values of a byte, permutation of the      *)
(* blocks and lengths of keys, and for data of any length: CBC and ECB     *)
(* decryption give back what was encrypted and the other way round, with   *)
(* and without a key whose length is checked, and so do PKCS #7 and        *)
(* ISO 7816 padding, which accept nothing but applied padding.             *)
THEOREM ModesInvertEachOther ==
  ASSUME BM!Radix = ByteValues, BM!WidthsFit, BM!CipherIsPermutation
  PROVE  SymmetricSpec => []ModesInvert
<1> DEFINE PartInv == part = "modes" => ModeInv
<1>1. SymmetricInit => PartInv
  BY ModeInvInit DEF SymmetricInit
<1>2. PartInv /\ [SymmetricNext]_symmetric => PartInv'
  BY ModesStepIs, ModeInvNext
<1>3. PartInv => ModesInvert
  BY ModeInvImplies DEF ModesInvert
<1>. QED
  BY <1>1, <1>2, <1>3, PTL DEF SymmetricSpec

-----------------------------------------------------------------------------
(* No block is encrypted twice for one key stream: octets of Aead.          *)

LEMMA AeadPowers == AE!TwoTo = TwoTo
  BY DEF AE!TwoTo, TwoTo

LEMMA AeadRadix ==
  ASSUME AE!WidthsFit
  PROVE  /\ AeadWidth \in Nat /\ AE!Radix = TwoTo[AeadWidth] /\ TwoTo[AeadWidth] \in Nat \ {0} /\ 0 \in AE!Byte
         /\ AE!Byte = 0 .. TwoTo[AeadWidth] - 1
<1>1. AeadWidth \in Nat /\ AE!Radix = TwoTo[AeadWidth]
  BY AeadPowers, Zenon DEF AE!WidthsFit, AE!Radix
<1>2. TwoTo[AeadWidth] \in Nat \ {0}
  BY <1>1, PowersOfTwo
<1>3. AE!Byte = 0 .. TwoTo[AeadWidth] - 1
  BY <1>1, Zenon DEF AE!Byte
<1>. QED
  BY <1>1, <1>2, <1>3

LEMMA AeadOctets ==
  ASSUME AE!WidthsFit, NEW v \in Nat, NEW w \in Nat
  PROVE  /\ AE!ToBytes(v, w) \in [1 .. w -> AE!Byte] /\ AE!ToBytes(v, w) \in Seq(AE!Byte)
         /\ Len(AE!ToBytes(v, w)) = w
         /\ HasDigits(AE!ToBytes(v, w), v, AeadWidth, w)
<1> DEFINE f == AE!ToBytes(v, w)
<1>1. f = [k \in 1 .. w |-> Digit(v, AeadWidth, w - k)]
  BY AeadRadix, AeadPowers, Zenon DEF AE!ToBytes, Digit
<1>2. \A k \in 1 .. w : Digit(v, AeadWidth, w - k) \in AE!Byte
  <2> TAKE k \in 1 .. w
  <2> DEFINE p == TwoTo[AeadWidth * (w - k)]
             R == TwoTo[AeadWidth]
  <2>1. w - k \in Nat
    OBVIOUS
  <2>2. p \in Nat \ {0} /\ R \in Nat \ {0}
    BY <2>1, AeadRadix, PowerOfDigits
  <2> HIDE DEF p, R
  <2>3. (v \div p) % R \in 0 .. R - 1
    BY <2>2
  <2>. QED
    BY <2>3, AeadRadix DEF Digit, p, R
<1> HIDE DEF f
<1>3. f \in [1 .. w -> AE!Byte] /\ \A k \in 1 .. w : f[k] = Digit(v, AeadWidth, w - k)
  BY <1>1, <1>2
<1>. QED
  BY <1>3 DEF f, HasDigits

(* The same octets are those of the same number, up to their width.        *)
LEMMA AeadOctetsTell ==
  ASSUME AE!WidthsFit, NEW u \in Nat, NEW v \in Nat, NEW w \in Nat,
         AE!ToBytes(u, w) = AE!ToBytes(v, w)
  PROVE  u % TwoTo[AeadWidth * w] = v % TwoTo[AeadWidth * w]
<1> DEFINE d == AE!ToBytes(u, w)
           F == CHOOSE f : f = [k \in 0 .. w |-> IF k = 0 THEN 0 ELSE f[k - 1] * TwoTo[AeadWidth] + d[k]]
<1>1. HasDigits(d, u, AeadWidth, w)
  BY AeadOctets, Zenon
<1>2. HasDigits(d, v, AeadWidth, w)
  BY AeadOctets, Zenon
<1>3. AeadWidth \in Nat /\ \A k \in 1 .. w : d[k] \in Nat
  <2>1. d \in [1 .. w -> AE!Byte] /\ AE!Byte = 0 .. TwoTo[AeadWidth] - 1 /\ AeadWidth \in Nat
    BY AeadOctets, AeadRadix, Zenon
  <2> HIDE DEF d
  <2>. QED
    BY <2>1
<1> HIDE DEF d
<1>4. ReadFrom(F, w, AeadWidth, d)
  BY <1>3, ReadingExists
<1> HIDE DEF F
<1>5. F[w] = u % TwoTo[AeadWidth * w]
  BY <1>1, <1>3, <1>4, DigitsRead
<1>6. F[w] = v % TwoTo[AeadWidth * w]
  BY <1>2, <1>3, <1>4, DigitsRead
<1>. QED
  BY <1>5, <1>6

LEMMA ModuloTells ==
  ASSUME NEW x \in Nat, NEW P \in Nat \ {0}, NEW i \in 0 .. P - 1, NEW j \in 0 .. P - 1,
         (x + i) % P = (x + j) % P
  PROVE  i = j
<1> DEFINE y == x + i
           z == x + j
           p == y \div P
           q == z \div P
           rest == y % P
<1>1. y \in Nat /\ z \in Nat /\ y % P = z % P
  OBVIOUS
<1> HIDE DEF y, z
<1>2. p \in Nat /\ y = P * p + (y % P) /\ q \in Nat /\ z = P * q + (z % P) /\ y % P \in 0 .. P - 1
  BY <1>1
<1> HIDE DEF p, q, rest
<1>3. y = P * p + rest /\ z = P * q + rest /\ rest \in Nat
  BY <1>1, <1>2 DEF rest
<1>4. y - z < P /\ z - y < P
  BY DEF y, z
<1>5. ~(p < q)
  <2> SUFFICES ASSUME p < q PROVE FALSE
    OBVIOUS
  <2>1. P * (p + 1) <= P * q /\ P * (p + 1) = P * p + P /\ P * p \in Nat /\ P * q \in Nat
    BY <1>2
  <2>. QED
    BY <1>3, <1>4, <2>1
<1>6. ~(q < p)
  <2> SUFFICES ASSUME q < p PROVE FALSE
    OBVIOUS
  <2>1. P * (q + 1) <= P * p /\ P * (q + 1) = P * q + P /\ P * p \in Nat /\ P * q \in Nat
    BY <1>2
  <2>. QED
    BY <1>3, <1>4, <2>1
<1>7. y = z
  <2>1. p = q
    BY <1>2, <1>5, <1>6
  <2>. QED
    BY <1>3, <2>1, Zenon
<1>. QED
  BY <1>7 DEF y, z

LEMMA AeadNumber ==
  ASSUME AE!WidthsFit, NEW bytes \in Seq(AE!Byte)
  PROVE  \E f : ReadFrom(f, Len(bytes), AeadWidth, bytes) /\ AE!Number(bytes) = f[Len(bytes)]
<1> DEFINE w == Len(bytes)
           R == AE!Radix
           F == CHOOSE f : f = [k \in 0 .. w |-> IF k = 0 THEN 0 ELSE f[k - 1] * R + bytes[k]]
<1>1. AE!Number(bytes) = F[w]
  BY Zenon DEF AE!Number
<1>2. w \in Nat /\ AeadWidth \in Nat /\ R = TwoTo[AeadWidth]
  BY AeadRadix, LenProperties
<1>3. \A k \in 1 .. w : bytes[k] \in Nat
  <2>1. \A k \in 1 .. w : bytes[k] \in 0 .. TwoTo[AeadWidth] - 1
    BY AeadRadix, ElementOfSeq, Zenon
  <2>. QED
    BY <2>1
<1>4. F = CHOOSE f : f = [k \in 0 .. w |-> IF k = 0 THEN 0 ELSE f[k - 1] * TwoTo[AeadWidth] + bytes[k]]
  BY <1>2, Zenon
<1> HIDE DEF F, w
<1>5. ReadFrom(F, w, AeadWidth, bytes)
  BY <1>2, <1>3, <1>4, ReadingExists
<1>. QED
  BY <1>1, <1>5 DEF w

LEMMA AeadNumberIs ==
  ASSUME AE!WidthsFit
  PROVE  /\ \A bytes \in Seq(AE!Byte) : AE!Number(bytes) \in 0 .. TwoTo[AeadWidth * Len(bytes)] - 1
         /\ \A v \in Nat, w \in Nat : AE!Number(AE!ToBytes(v, w)) = v % TwoTo[AeadWidth * w]
<1>1. ASSUME NEW bytes \in Seq(AE!Byte)
      PROVE  AE!Number(bytes) \in 0 .. TwoTo[AeadWidth * Len(bytes)] - 1
  <2>1. PICK f : ReadFrom(f, Len(bytes), AeadWidth, bytes) /\ AE!Number(bytes) = f[Len(bytes)]
    BY AeadNumber
  <2>2. \A k \in 1 .. Len(bytes) : bytes[k] \in 0 .. TwoTo[AeadWidth] - 1
    BY AeadRadix, ElementOfSeq, Zenon
  <2>3. Len(bytes) \in Nat /\ AeadWidth \in Nat
    BY AeadRadix, LenProperties
  <2>. QED
    BY <2>1, <2>2, <2>3, ReadDigits
<1>2. ASSUME NEW v \in Nat, NEW w \in Nat
      PROVE  AE!Number(AE!ToBytes(v, w)) = v % TwoTo[AeadWidth * w]
  <2> DEFINE d == AE!ToBytes(v, w)
  <2>1. d \in Seq(AE!Byte) /\ Len(d) = w /\ HasDigits(d, v, AeadWidth, w) /\ AeadWidth \in Nat
    BY AeadOctets, AeadRadix
  <2> HIDE DEF d
  <2>2. PICK f : ReadFrom(f, w, AeadWidth, d) /\ AE!Number(d) = f[w]
    BY <2>1, AeadNumber
  <2>. QED
    BY <2>1, <2>2, DigitsRead DEF d
<1>. QED
  BY <1>1, <1>2

LEMMA ZerosAreBlock ==
  ASSUME AE!WidthsFit PROVE AE!Zeros(CipherBlock) \in AE!Block
  BY AeadRadix DEF AE!Zeros, AE!Block

LEMMA CeilIsNat ==
  ASSUME NEW x \in Nat, NEW y \in Nat \ {0} PROVE AE!CeilDiv(x, y) \in Nat
<1> DEFINE z == x + (y - 1)
<1>1. z \in Nat
  OBVIOUS
<1> HIDE DEF z
<1>2. z \div y \in Nat
  BY <1>1
<1>. QED
  BY <1>2 DEF AE!CeilDiv, z

LEMMA GhashIsBlock ==
  ASSUME AE!WidthsFit, AE!MultipliesToBlocks, NEW key, NEW bytes \in Seq(AE!Byte)
  PROVE  AE!Ghash(key, bytes) \in AE!Block
<1> DEFINE K == AE!BlockCount(bytes)
           start == AE!Zeros(CipherBlock)
           B == AE!Block
           next(x, i) == Multiply(AE!XorBytes(x, AE!BlockAt(bytes, i)), key)
           Loop(f) == f = [i \in 0 .. K |-> IF i = 0 THEN start ELSE next(f[i - 1], i)]
           F == CHOOSE f : Loop(f)
           step == [i \in 1 .. K |-> [x \in B |-> next(x, i)]]
<1>1. AE!Ghash(key, bytes) = F[K]
  BY Zenon DEF AE!Ghash
<1>2. K \in Nat
  BY LenProperties, CeilIsNat DEF AE!BlockCount, AE!WidthsFit
<1>3. start \in B /\ \A x, i : next(x, i) \in B
  BY ZerosAreBlock DEF AE!MultipliesToBlocks
<1> HIDE DEF next, K, start, B
<1>4. step \in [1 .. K -> [B -> B]]
  BY <1>3
<1>5. PICK f : Iterates(f, K, B, start, step)
  <2> HIDE DEF step
  <2>. QED
    BY <1>2, <1>3, <1>4, IterationExists
<1>6. Loop(f)
  <2>1. /\ f \in [0 .. K -> B] /\ f[0] = start
        /\ \A i \in 1 .. K : f[i] = next(f[i - 1], i)
    <3>1. \A i \in 1 .. K : i - 1 \in 0 .. K
      BY <1>2
    <3>. QED
      BY <1>5, <3>1 DEF Iterates
  <2>2. \A i \in 0 .. K : i # 0 => i \in 1 .. K
    BY <1>2
  <2>. QED
    BY <2>1, <2>2
<1>7. Loop(F)
  <2> HIDE DEF Loop
  <2>. QED
    BY <1>6
<1> HIDE DEF F
<1>8. K \in 0 .. K /\ F[K] = IF K = 0 THEN start ELSE next(F[K - 1], K)
  BY <1>2, <1>7
<1>. QED
  BY <1>1, <1>3, <1>8 DEF B

LEMMA CutBlock ==
  ASSUME AE!WidthsFit, NEW x \in AE!Block, NEW len \in 0 .. CipherBlock
  PROVE  /\ SubSeq(x, 1, len) \in Seq(AE!Byte) /\ Len(SubSeq(x, 1, len)) = len
         /\ SubSeq(x, len + 1, CipherBlock) \in Seq(AE!Byte)
         /\ Len(SubSeq(x, len + 1, CipherBlock)) = CipherBlock - len
<1>1. x \in Seq(AE!Byte) /\ Len(x) = CipherBlock
  BY DEF AE!WidthsFit, AE!Block
<1>. QED
  BY <1>1, SeqIsCut DEF IsCut

LEMMA RoundedCount ==
  ASSUME NEW x \in Nat, NEW y \in Nat \ {0}
  PROVE  /\ AE!CeilDiv(x, y) \in Nat /\ AE!CeilDiv(x, y) * y \in Nat
         /\ x <= AE!CeilDiv(x, y) * y /\ AE!CeilDiv(x, y) * y < x + y
<1> DEFINE z == x + (y - 1)
           q == z \div y
<1>1. z \in Nat /\ z + 1 = x + y
  OBVIOUS
<1>2. q \in Nat /\ z = y * q + (z % y) /\ z % y \in 0 .. y - 1
  BY <1>1
<1>3. AE!CeilDiv(x, y) = q
  BY DEF AE!CeilDiv
<1> DEFINE e == z % y
<1> HIDE DEF z, q, e
<1>4. z = q * y + e /\ q * y \in Nat /\ e \in 0 .. y - 1
  <2>1. y * q = q * y /\ q * y \in Nat
    BY <1>2
  <2>. QED
    BY <1>2, <2>1 DEF e
<1> DEFINE u == q * y
<1> HIDE DEF u
<1>5. z = u + e /\ u \in Nat /\ e \in 0 .. y - 1
  BY <1>4 DEF u
<1>6. x <= u /\ u < x + y
  BY <1>1, <1>5
<1>. QED
  BY <1>2, <1>3, <1>5, <1>6 DEF u

LEMMA PaddedIs ==
  ASSUME AE!WidthsFit, NEW bytes \in Seq(AE!Byte)
  PROVE  LET count == AE!BlockCount(bytes)
             zeros == AE!Zeros(count * CipherBlock - Len(bytes))
         IN  /\ count \in Nat /\ count * CipherBlock \in Nat /\ Len(bytes) <= count * CipherBlock
             /\ zeros \in Seq(AE!Byte) /\ Len(zeros) = count * CipherBlock - Len(bytes)
             /\ AE!Padded(bytes) = bytes \o zeros /\ AE!Padded(bytes) \in Seq(AE!Byte)
             /\ Len(AE!Padded(bytes)) = count * CipherBlock
<1> DEFINE count == AE!BlockCount(bytes)
           full == count * CipherBlock
           pad == full - Len(bytes)
           zeros == AE!Zeros(pad)
<1>1. Len(bytes) \in Nat /\ CipherBlock \in Nat \ {0}
  BY LenProperties DEF AE!WidthsFit
<1>2. count = AE!CeilDiv(Len(bytes), CipherBlock)
  BY DEF AE!BlockCount
<1>3. count \in Nat /\ full \in Nat /\ Len(bytes) <= full
  BY <1>1, <1>2, RoundedCount
<1> HIDE DEF count, full
<1>4. pad \in Nat
  BY <1>1, <1>3
<1>5. zeros \in Seq(AE!Byte) /\ Len(zeros) = pad
  <2> HIDE DEF pad
  <2>1. zeros \in [1 .. pad -> AE!Byte]
    BY AeadRadix DEF AE!Zeros
  <2> HIDE DEF zeros
  <2>. QED
    BY <1>4, <2>1
<1>6. AE!Padded(bytes) = bytes \o zeros
  BY Zenon DEF AE!Padded, zeros, pad, full, count
<1> HIDE DEF zeros
<1>7. bytes \o zeros \in Seq(AE!Byte) /\ Len(bytes \o zeros) = Len(bytes) + pad
  BY <1>5, ConcatProperties
<1>8. Len(bytes) + pad = full
  BY <1>1, <1>3
<1>. QED
  BY <1>3, <1>5, <1>6, <1>7, <1>8 DEF zeros, pad, full, count

LEMMA GhashInputIsBytes ==
  ASSUME AE!WidthsFit, NEW aad \in Seq(AE!Byte), NEW y \in Seq(AE!Byte)
  PROVE  AE!GhashInput(aad, y) \in Seq(AE!Byte)
<1> DEFINE half == CipherBlock \div 2
           s == AE!ToBytes(AeadWidth * Len(aad), half)
           t == AE!ToBytes(AeadWidth * Len(y), half)
<1>1. half \in Nat /\ AeadWidth * Len(aad) \in Nat /\ AeadWidth * Len(y) \in Nat
  BY AeadRadix, LenProperties DEF AE!WidthsFit
<1>2. s \in Seq(AE!Byte) /\ t \in Seq(AE!Byte)
  <2> HIDE DEF half
  <2>. QED
    BY <1>1, AeadOctets
<1>3. AE!Padded(aad) \in Seq(AE!Byte) /\ AE!Padded(y) \in Seq(AE!Byte)
  BY PaddedIs
<1>4. AE!GhashInput(aad, y) = ((AE!Padded(aad) \o AE!Padded(y)) \o s) \o t
  BY Zenon DEF AE!GhashInput
<1> HIDE DEF s, t
<1>. QED
  BY <1>2, <1>3, <1>4, ConcatProperties

(* GCM counts from any block, whose last bytes are a number.               *)
LEMMA GcmInitialIsBlock ==
  ASSUME AE!WidthsFit, AE!FieldsFit, AE!MultipliesToBlocks, NEW nonce \in Seq(AE!Byte)
  PROVE  AE!GcmInitialCounter(nonce) \in AE!Block
<1>1. CASE Len(nonce) = CipherBlock - CounterSize
  <2> DEFINE t == AE!ToBytes(1, CounterSize)
             s == nonce \o t
  <2>1. CounterSize \in Nat /\ CipherBlock \in Nat
    BY DEF AE!FieldsFit, AE!WidthsFit
  <2>2. t \in Seq(AE!Byte) /\ Len(t) = CounterSize
    BY <2>1, AeadOctets
  <2> HIDE DEF t
  <2>3. s \in Seq(AE!Byte) /\ Len(s) = (CipherBlock - CounterSize) + CounterSize
    BY <1>1, <2>2, ConcatProperties
  <2> HIDE DEF s
  <2>4. Len(s) = CipherBlock
    BY <2>1, <2>3
  <2>5. s \in [1 .. CipherBlock -> AE!Byte]
    BY <2>3, <2>4, LenProperties
  <2>6. AE!GcmInitialCounter(nonce) = s
    BY <1>1, Zenon DEF AE!GcmInitialCounter, s, t
  <2>. QED
    BY <2>5, <2>6 DEF AE!Block
<1>2. CASE Len(nonce) # CipherBlock - CounterSize
  <2> DEFINE g == AE!GhashInput(<< >>, nonce)
  <2>1. AE!GcmInitialCounter(nonce) = AE!Ghash(AE!HashSubkey, g)
    BY <1>2, Zenon DEF AE!GcmInitialCounter
  <2>2. g \in Seq(AE!Byte)
    BY GhashInputIsBytes, EmptySeq
  <2>. QED
    BY <2>1, <2>2, GhashIsBlock
<1>. QED
  BY <1>1, <1>2

LEMMA JoinTells ==
  ASSUME NEW S, NEW s \in Seq(S), NEW t \in Seq(S), NEW u \in Seq(S), s \o t = s \o u
  PROVE  t = u
<1>1. t = SubSeq(s \o t, Len(s) + 1, Len(s \o t))
  BY JoinIsCut DEF IsCut
<1>2. u = SubSeq(s \o u, Len(s) + 1, Len(s \o u))
  BY JoinIsCut DEF IsCut
<1>. QED
  BY <1>1, <1>2, Zenon

LEMMA GcmCountersDiffer ==
  ASSUME AE!WidthsFit, AE!FieldsFit, AE!MultipliesToBlocks, NEW nonce \in Seq(AE!Byte),
         NEW i \in 0 .. TwoTo[AeadWidth * CounterSize] - 1, NEW j \in 0 .. TwoTo[AeadWidth * CounterSize] - 1,
         AE!GcmCounterBlock(nonce, i) = AE!GcmCounterBlock(nonce, j)
  PROVE  i = j
<1> DEFINE initial == AE!GcmInitialCounter(nonce)
           front == CipherBlock - CounterSize
           s == SubSeq(initial, 1, front)
           back == SubSeq(initial, front + 1, CipherBlock)
           x == AE!Number(back)
           P == TwoTo[AeadWidth * CounterSize]
           t(k) == AE!ToBytes(x + k, CounterSize)
<1>1. initial \in AE!Block /\ front \in 0 .. CipherBlock /\ CounterSize \in Nat
  BY GcmInitialIsBlock DEF AE!FieldsFit, AE!WidthsFit
<1>2. \A k : AE!GcmCounterBlock(nonce, k) = s \o t(k)
  BY Zenon DEF AE!GcmCounterBlock
<1> HIDE DEF initial, front
<1>3. s \in Seq(AE!Byte) /\ back \in Seq(AE!Byte)
  BY <1>1, CutBlock
<1> HIDE DEF s, back
<1>4. x \in Nat
  <2>1. x \in 0 .. TwoTo[AeadWidth * Len(back)] - 1
    BY <1>3, AeadNumberIs
  <2>. QED
    BY <2>1
<1> HIDE DEF x
<1>5. P \in Nat \ {0} /\ i \in Nat /\ j \in Nat /\ x + i \in Nat /\ x + j \in Nat
  BY <1>1, <1>4, AeadRadix, PowerOfDigits
<1>6. t(i) \in Seq(AE!Byte) /\ t(j) \in Seq(AE!Byte)
  BY <1>1, <1>5, AeadOctets
<1>7. s \o t(i) = s \o t(j)
  BY <1>2
<1>8. t(i) = t(j)
  <2> HIDE DEF t
  <2>. QED
    BY <1>3, <1>6, <1>7, JoinTells
<1>9. (x + i) % P = (x + j) % P
  BY <1>1, <1>5, <1>8, AeadOctetsTell
<1>10. i \in 0 .. P - 1 /\ j \in 0 .. P - 1
  OBVIOUS
<1> HIDE DEF P
<1>. QED
  BY <1>4, <1>5, <1>9, <1>10, ModuloTells

LEMMA WiderSequence ==
  ASSUME AE!WidthsFit, NEW bytes \in Seq(AE!Byte) PROVE bytes \in Seq(Int)
<1>1. AE!Byte \subseteq Int
  BY AeadRadix
<1>2. Len(bytes) \in Nat /\ bytes \in [1 .. Len(bytes) -> AE!Byte]
  BY LenProperties
<1>3. bytes \in [1 .. Len(bytes) -> Int]
  BY <1>1, <1>2
<1>. QED
  BY <1>2, <1>3

(* A block of CCM: a byte of flags, the nonce and a number.                *)
LEMMA CcmBlockIs ==
  ASSUME AE!WidthsFit, NEW flags \in Int, NEW nonce \in Seq(AE!Byte), NEW bytes \in Seq(AE!Byte)
  PROVE  /\ <<flags>> \o nonce \in Seq(Int) /\ Len(<<flags>> \o nonce) = 1 + Len(nonce)
         /\ (<<flags>> \o nonce) \o bytes \in Seq(Int) /\ bytes \in Seq(Int)
         /\ ((<<flags>> \o nonce) \o bytes)[1] = flags
<1> DEFINE c == <<flags>>
           s == c \o nonce
           t == s \o bytes
<1>1. nonce \in Seq(Int) /\ bytes \in Seq(Int) /\ c \in Seq(Int) /\ Len(c) = 1 /\ c[1] = flags
  BY WiderSequence
<1> HIDE DEF c
<1>2. /\ s \in Seq(Int) /\ Len(s) = Len(c) + Len(nonce) /\ Len(nonce) \in Nat
      /\ \A k \in 1 .. Len(c) + Len(nonce) : s[k] = IF k <= Len(c) THEN c[k] ELSE nonce[k - Len(c)]
  BY <1>1, ConcatProperties, LenProperties
<1> HIDE DEF s
<1>3. /\ t \in Seq(Int) /\ Len(t) = Len(s) + Len(bytes) /\ Len(bytes) \in Nat
      /\ \A k \in 1 .. Len(s) + Len(bytes) : t[k] = IF k <= Len(s) THEN s[k] ELSE bytes[k - Len(s)]
  <2>1. s \in Seq(Int) /\ bytes \in Seq(Int)
    BY <1>1, <1>2
  <2>2. Len(bytes) \in Nat
    BY LenProperties
  <2>. QED
    BY <2>1, <2>2, ConcatProperties
<1> HIDE DEF t
<1>4. s[1] = flags
  BY <1>1, <1>2
<1>5. t[1] = flags
  <2>1. Len(s) = 1 + Len(nonce) /\ 1 <= Len(s) /\ 1 \in 1 .. Len(s) + Len(bytes)
    BY <1>1, <1>2, <1>3
  <2>2. t[1] = s[1]
    BY <1>3, <2>1, Zenon
  <2>. QED
    BY <1>4, <2>2
<1>. QED
  BY <1>1, <1>2, <1>3, <1>5 DEF c, s, t

LEMMA LengthBytesIs ==
  ASSUME AE!WidthsFit, AE!FieldsFit, NEW nonce, Len(nonce) \in NonceLengths
  PROVE  AE!LengthBytes(nonce) \in Nat \ {0} /\ AE!LengthBytes(nonce) = (CipherBlock - 1) - Len(nonce)
<1>1. CipherBlock \in Nat /\ Len(nonce) \in 0 .. CipherBlock - 2
  BY DEF AE!WidthsFit, AE!FieldsFit
<1>2. AE!LengthBytes(nonce) = (CipherBlock - 1) - Len(nonce)
  BY Zenon DEF AE!LengthBytes
<1>. QED
  BY <1>1, <1>2

LEMMA CcmCountersDiffer ==
  ASSUME AE!WidthsFit, AE!FieldsFit, NEW nonce \in Seq(AE!Byte), Len(nonce) \in NonceLengths,
         NEW i \in 0 .. TwoTo[AeadWidth * AE!LengthBytes(nonce)] - 1,
         NEW j \in 0 .. TwoTo[AeadWidth * AE!LengthBytes(nonce)] - 1,
         AE!CcmCounterBlock(nonce, i) = AE!CcmCounterBlock(nonce, j)
  PROVE  i = j
<1> DEFINE L == AE!LengthBytes(nonce)
           P == TwoTo[AeadWidth * L]
           s == <<L - 1>> \o nonce
           t(k) == AE!ToBytes(k, L)
<1>1. L \in Nat \ {0} /\ L - 1 \in Int
  BY LengthBytesIs
<1>2. \A k : AE!CcmCounterBlock(nonce, k) = s \o t(k)
  BY Zenon DEF AE!CcmCounterBlock
<1> HIDE DEF L
<1>3. P \in Nat \ {0} /\ i \in Nat /\ j \in Nat
  BY <1>1, AeadRadix, PowerOfDigits
<1>4. t(i) \in Seq(AE!Byte) /\ t(j) \in Seq(AE!Byte)
  BY <1>1, <1>3, AeadOctets
<1>5. s \in Seq(Int) /\ t(i) \in Seq(Int) /\ t(j) \in Seq(Int)
  <2> HIDE DEF t
  <2>. QED
    BY <1>1, <1>4, CcmBlockIs
<1>6. s \o t(i) = s \o t(j)
  BY <1>2
<1>7. t(i) = t(j)
  <2> HIDE DEF t, s
  <2>. QED
    BY <1>5, <1>6, JoinTells
<1>8. i % P = j % P
  BY <1>1, <1>3, <1>7, AeadOctetsTell
<1>9. i \in 0 .. P - 1 /\ j \in 0 .. P - 1
  BY DEF L
<1> HIDE DEF P
<1>10. (0 + i) % P = (0 + j) % P
  BY <1>3, <1>8
<1>. QED
  BY <1>3, <1>9, <1>10, ModuloTells

LEMMA FirstBlockDiffers ==
  ASSUME AE!WidthsFit, AE!FieldsFit, NEW nonce \in Seq(AE!Byte), Len(nonce) \in NonceLengths,
         NEW aad, NEW tag \in TagLengths, NEW size \in Nat, NEW i \in Nat
  PROVE  AE!CcmCounterBlock(nonce, i) # AE!CcmFirstBlock(nonce, aad, tag, size)
<1> DEFINE L == AE!LengthBytes(nonce)
           header == IF aad = << >> THEN 0 ELSE HeaderFlag
           steps == (tag - 2) \div 2
           flags == (header + TagFlag * steps) + (L - 1)
<1>1. L \in Nat \ {0} /\ L - 1 \in Int
  BY LengthBytesIs
<1>2. header \in Nat /\ steps \in Nat \ {0} /\ TagFlag \in Nat \ {0}
  BY DEF AE!FieldsFit
<1>3. AE!CcmCounterBlock(nonce, i) = (<<L - 1>> \o nonce) \o AE!ToBytes(i, L)
  BY Zenon DEF AE!CcmCounterBlock
<1>4. AE!CcmFirstBlock(nonce, aad, tag, size) = (<<flags>> \o nonce) \o AE!ToBytes(size, L)
  BY DEF AE!CcmFirstBlock
<1> HIDE DEF L, header, steps
<1>5. TagFlag * steps \in Nat \ {0}
  BY <1>2
<1>6. flags \in Int /\ flags # L - 1
  <2> DEFINE y == TagFlag * steps
  <2> HIDE DEF y
  <2>. QED
    BY <1>1, <1>2, <1>5 DEF y
<1> HIDE DEF flags
<1>7. AE!ToBytes(i, L) \in Seq(AE!Byte) /\ AE!ToBytes(size, L) \in Seq(AE!Byte)
  BY <1>1, AeadOctets
<1>8. AE!CcmCounterBlock(nonce, i)[1] = L - 1
  BY <1>1, <1>3, <1>7, CcmBlockIs
<1>9. AE!CcmFirstBlock(nonce, aad, tag, size)[1] = flags
  BY <1>4, <1>6, <1>7, CcmBlockIs
<1>. QED
  BY <1>6, <1>8, <1>9

(* The tags are strings of bytes.                                          *)
LEMMA CbcMacIsBlock ==
  ASSUME AE!WidthsFit, AE!EncryptsToBlocks, NEW bytes, Len(bytes) \in Nat
  PROVE  AE!CbcMac(bytes) \in AE!Block
<1> DEFINE K == AE!BlockCount(bytes)
           first == AE!Zeros(CipherBlock)
           B == AE!Block
           next(x, i) == Encrypt(AE!XorBytes(AE!BlockAt(bytes, i), x))
           Loop(f) == f = [i \in 0 .. K |-> IF i = 0 THEN first ELSE next(f[i - 1], i)]
           F == CHOOSE f : Loop(f)
           step == [i \in 1 .. K |-> [x \in B |-> next(x, i)]]
<1>1. AE!CbcMac(bytes) = F[K]
  BY Zenon DEF AE!CbcMac
<1>2. K \in Nat
  BY CeilIsNat DEF AE!BlockCount, AE!WidthsFit
<1>3. first \in B /\ \A x, i : next(x, i) \in B
  BY ZerosAreBlock DEF AE!EncryptsToBlocks
<1> HIDE DEF next, K, first, B
<1>4. step \in [1 .. K -> [B -> B]]
  BY <1>3
<1>5. PICK f : Iterates(f, K, B, first, step)
  <2> HIDE DEF step
  <2>. QED
    BY <1>2, <1>3, <1>4, IterationExists
<1>6. Loop(f)
  <2>1. /\ f \in [0 .. K -> B] /\ f[0] = first
        /\ \A i \in 1 .. K : f[i] = next(f[i - 1], i)
    <3>1. \A i \in 1 .. K : i - 1 \in 0 .. K
      BY <1>2
    <3>. QED
      BY <1>5, <3>1 DEF Iterates
  <2>2. \A i \in 0 .. K : i # 0 => i \in 1 .. K
    BY <1>2
  <2>. QED
    BY <2>1, <2>2
<1>7. Loop(F)
  <2> HIDE DEF Loop
  <2>. QED
    BY <1>6
<1> HIDE DEF F
<1>8. K \in 0 .. K /\ F[K] = IF K = 0 THEN first ELSE next(F[K - 1], K)
  BY <1>2, <1>7
<1>. QED
  BY <1>1, <1>3, <1>8 DEF B

LEMMA AadPrefixIs ==
  ASSUME AE!WidthsFit, NEW size \in Nat
  PROVE  AE!AadPrefix(size) \in Seq(AE!Byte)
<1>1. AE!ToBytes(size, 2) \in Seq(AE!Byte) /\ AE!ToBytes(size, 4) \in Seq(AE!Byte)
  BY AeadOctets
<1>2. <<AE!Radix - 1, AE!Radix - 2>> \in Seq(AE!Byte)
  <2>1. AeadWidth \in Nat \ {0} /\ AE!Radix = TwoTo[AeadWidth] /\ AE!Byte = 0 .. TwoTo[AeadWidth] - 1
    BY AeadRadix DEF AE!WidthsFit
  <2>2. TwoTo[AeadWidth] = 2 * TwoTo[AeadWidth - 1] /\ TwoTo[AeadWidth - 1] \in Nat \ {0}
    BY <2>1, PowersOfTwo
  <2> DEFINE R == TwoTo[AeadWidth]
  <2>3. R \in Nat /\ R >= 2
    BY <2>2
  <2> HIDE DEF R
  <2>4. R - 1 \in 0 .. R - 1 /\ R - 2 \in 0 .. R - 1
    BY <2>3
  <2>5. AE!Radix - 1 \in AE!Byte /\ AE!Radix - 2 \in AE!Byte
    BY <2>1, <2>4 DEF R
  <2>. QED
    BY <2>5
<1>. QED
  BY <1>1, <1>2, ConcatProperties DEF AE!AadPrefix

LEMMA FirstBlockIs ==
  ASSUME AE!WidthsFit, AE!FieldsFit, NEW nonce \in Seq(AE!Byte), Len(nonce) \in NonceLengths,
         NEW aad, NEW tag \in TagLengths, NEW size \in Nat
  PROVE  LET L == AE!LengthBytes(nonce)
             flags == ((IF aad = << >> THEN 0 ELSE HeaderFlag) + TagFlag * ((tag - 2) \div 2)) + (L - 1)
         IN  /\ flags \in Int
             /\ AE!CcmFirstBlock(nonce, aad, tag, size) = (<<flags>> \o nonce) \o AE!ToBytes(size, L)
             /\ AE!CcmFirstBlock(nonce, aad, tag, size) \in Seq(Int)
             /\ Len(AE!CcmFirstBlock(nonce, aad, tag, size)) = CipherBlock
<1> DEFINE L == AE!LengthBytes(nonce)
           header == IF aad = << >> THEN 0 ELSE HeaderFlag
           steps == (tag - 2) \div 2
           flags == (header + TagFlag * steps) + (L - 1)
           s == <<flags>> \o nonce
           t == AE!ToBytes(size, L)
<1>1. L \in Nat \ {0} /\ L = (CipherBlock - 1) - Len(nonce) /\ CipherBlock \in Nat /\ Len(nonce) \in Nat
  BY LengthBytesIs, LenProperties DEF AE!WidthsFit
<1>2. header \in Nat /\ steps \in Nat /\ TagFlag \in Nat
  BY DEF AE!FieldsFit
<1>3. AE!CcmFirstBlock(nonce, aad, tag, size) = s \o t
  BY DEF AE!CcmFirstBlock
<1> HIDE DEF L, header, steps
<1>4. flags \in Int
  <2>1. TagFlag * steps \in Nat
    BY <1>2
  <2>. QED
    BY <1>1, <1>2, <2>1
<1> HIDE DEF flags
<1>5. t \in Seq(AE!Byte) /\ Len(t) = L
  BY <1>1, AeadOctets
<1>6. s \in Seq(Int) /\ Len(s) = 1 + Len(nonce) /\ t \in Seq(Int)
  <2> HIDE DEF t
  <2>. QED
    BY <1>4, <1>5, CcmBlockIs
<1> HIDE DEF s, t
<1>7. s \o t \in Seq(Int) /\ Len(s \o t) = Len(s) + Len(t)
  BY <1>6, ConcatProperties
<1>8. Len(s \o t) = CipherBlock
  BY <1>1, <1>5, <1>6, <1>7
<1>. QED
  BY <1>3, <1>4, <1>7, <1>8 DEF s, t, flags, header, steps, L

LEMMA MacInputLength ==
  ASSUME AE!WidthsFit, AE!FieldsFit, NEW nonce \in Seq(AE!Byte), Len(nonce) \in NonceLengths,
         NEW aad \in Seq(AE!Byte), NEW tag \in TagLengths, NEW text \in Seq(AE!Byte)
  PROVE  Len(AE!CcmMacInput(nonce, aad, tag, text)) \in Nat
<1> DEFINE first == AE!CcmFirstBlock(nonce, aad, tag, Len(text))
           named == AE!AadPrefix(Len(aad)) \o aad
           header == IF aad = << >> THEN << >> ELSE AE!Padded(named)
           body == AE!Padded(text)
<1>1. first \in Seq(Int)
  BY FirstBlockIs, LenProperties
<1>2. header \in Seq(AE!Byte)
  <2>1. named \in Seq(AE!Byte)
    BY AadPrefixIs, ConcatProperties, LenProperties
  <2> HIDE DEF named
  <2>2. AE!Padded(named) \in Seq(AE!Byte) /\ << >> \in Seq(AE!Byte)
    BY <2>1, PaddedIs, EmptySeq
  <2>. QED
    BY <2>2
<1>3. body \in Seq(AE!Byte)
  BY PaddedIs
<1>4. AE!CcmMacInput(nonce, aad, tag, text) = (first \o header) \o body
  BY Zenon DEF AE!CcmMacInput
<1> HIDE DEF first, header, body
<1>5. header \in Seq(Int) /\ body \in Seq(Int)
  BY <1>2, <1>3, WiderSequence
<1>6. first \o header \in Seq(Int)
  BY <1>1, <1>5, ConcatProperties
<1>7. (first \o header) \o body \in Seq(Int)
  BY <1>5, <1>6, ConcatProperties
<1>. QED
  BY <1>4, <1>7, LenProperties

LEMMA CcmTagIsBytes ==
  ASSUME AE!WidthsFit, AE!FieldsFit, AE!XorIsInvolution, AE!EncryptsToBlocks,
         NEW nonce \in Seq(AE!Byte), Len(nonce) \in NonceLengths,
         NEW aad \in Seq(AE!Byte), NEW tag \in TagLengths, NEW text \in Seq(AE!Byte)
  PROVE  CcmTag(nonce, aad, tag, text) \in Seq(AE!Byte)
<1> DEFINE mac == AE!CbcMac(AE!CcmMacInput(nonce, aad, tag, text))
           key == Encrypt(AE!CcmCounterBlock(nonce, 0))
           x == SubSeq(mac, 1, tag)
           y == SubSeq(key, 1, tag)
<1>1. mac \in AE!Block /\ key \in AE!Block
  BY MacInputLength, CbcMacIsBlock DEF AE!EncryptsToBlocks
<1>2. tag \in 0 .. CipherBlock
  BY DEF AE!FieldsFit, AE!WidthsFit
<1> HIDE DEF mac, key
<1>3. x \in Seq(AE!Byte) /\ Len(x) = tag /\ y \in Seq(AE!Byte) /\ Len(y) = tag
  BY <1>1, <1>2, CutBlock
<1> HIDE DEF x, y
<1>4. y \in [1 .. Len(x) -> AE!Byte]
  BY <1>3, LenProperties
<1>5. AE!XorBytes(x, y) \in Seq(AE!Byte)
  BY <1>3, <1>4, XorBytesOf
<1>. QED
  BY <1>5 DEF CcmTag, x, y, mac, key

LEMMA CeilBelow ==
  ASSUME NEW x \in Nat, NEW y \in Nat \ {0}, NEW c \in Nat, x <= c * y
  PROVE  AE!CeilDiv(x, y) <= c
<1> DEFINE q == AE!CeilDiv(x, y)
<1>1. q \in Nat /\ q * y < x + y /\ q * y \in Nat
  BY RoundedCount
<1> HIDE DEF q
<1>2. SUFFICES ASSUME c + 1 <= q PROVE FALSE
  BY <1>1 DEF q
<1>3. (c + 1) * y <= q * y /\ (c + 1) * y = c * y + y /\ c * y \in Nat
  BY <1>1, <1>2
<1>. QED
  BY <1>1, <1>3

LEMMA GcmTagIsBytes ==
  ASSUME AE!WidthsFit, NEW full \in AE!Block, NEW bits \in Nat, bits <= CipherBlock * AeadWidth
  PROVE  AE!GcmTag(full, bits) \in Seq(AE!Byte)
<1> DEFINE size == AE!CeilDiv(bits, AeadWidth)
           unit == TwoTo[AeadWidth - (bits % AeadWidth)]
           e(k) == IF k * AeadWidth <= bits THEN full[k] ELSE (full[k] \div unit) * unit
<1>1. size \in Nat /\ size <= CipherBlock
  BY CeilIsNat, CeilBelow DEF AE!WidthsFit
<1>2. unit \in Nat \ {0}
  <2>1. AeadWidth - (bits % AeadWidth) \in Nat
    BY DEF AE!WidthsFit
  <2>. QED
    BY <2>1, PowersOfTwo
<1>3. AE!GcmTag(full, bits) = [k \in 1 .. size |-> e(k)]
  BY AeadPowers, Zenon DEF AE!GcmTag
<1> HIDE DEF size, unit
<1>4. ASSUME NEW k \in 1 .. size PROVE e(k) \in AE!Byte
  <2> DEFINE y == full[k]
             R == TwoTo[AeadWidth]
  <2>1. k \in 1 .. CipherBlock
    BY <1>1 DEF AE!WidthsFit
  <2>2. y \in 0 .. R - 1 /\ AE!Byte = 0 .. R - 1 /\ R \in Nat
    BY <2>1, AeadRadix DEF AE!Block
  <2> HIDE DEF y, R
  <2>3. (y \div unit) * unit \in 0 .. R - 1
    <3> DEFINE q == y \div unit
               z == y % unit
    <3>1. y \in Nat /\ q \in Nat /\ y = unit * q + z /\ z \in Nat
      BY <1>2, <2>2
    <3> HIDE DEF q, z
    <3>2. q * unit = unit * q /\ unit * q \in Nat
      BY <1>2, <3>1
    <3>3. q * unit \in Nat /\ q * unit <= y
      BY <3>1, <3>2
    <3>. QED
      BY <2>2, <3>3 DEF q
  <2>. QED
    BY <2>2, <2>3 DEF y
<1>5. [k \in 1 .. size |-> e(k)] \in [1 .. size -> AE!Byte]
  BY <1>4
<1>. QED
  BY <1>1, <1>3, <1>5

AeadFits ==
  /\ AE!WidthsFit /\ AE!FieldsFit /\ AE!XorIsInvolution /\ AE!EncryptsToBlocks
  /\ AE!MultipliesToBlocks

(* What a call of CCM that returned Ok was given, and what it returned.    *)
TypedCall(m) ==
  /\ m.nonce \in Seq(AE!Byte) /\ m.aad \in Seq(AE!Byte) /\ m.input \in Seq(AE!Byte)
  /\ m.tag \in Nat /\ m.length \in Nat /\ m.encrypting \in BOOLEAN
PlainOf(m, z) == IF m.encrypting THEN m.input ELSE z.bytes

LEMMA CcmReturns ==
  ASSUME AeadFits, NEW m, TypedCall(m), AE!Ccm(m).ok
  PROVE  /\ CcmFits(m) /\ AE!Ccm(m).bytes \in Seq(AE!Byte)
         /\ PlainOf(m, AE!Ccm(m)) \in Seq(AE!Byte) /\ Len(PlainOf(m, AE!Ccm(m))) = m.length
<1> DEFINE x == CcmFront(m)
           y == CcmTransformed(m.nonce, x)
           tag == CcmTag(m.nonce, m.aad, m.tag, x)
           seen == CcmTag(m.nonce, m.aad, m.tag, y)
<1>1. AE!Ccm(m) = IF ~CcmFits(m) \/ answers < 2 THEN AE!Err
                  ELSE IF m.encrypting THEN AE!Ok(y \o tag)
                  ELSE IF seen = CcmBack(m) THEN AE!Ok(y) ELSE AE!Err
  BY CcmIs, Zenon
<1>2. CcmFits(m)
  BY <1>1, AnswerIs, Zenon
<1>3. /\ m.encrypting => AE!Ccm(m) = AE!Ok(y \o tag)
      /\ ~m.encrypting => AE!Ccm(m) = AE!Ok(y)
  <2> HIDE DEF x, y, tag, seen
  <2>. QED
    BY <1>1, AnswerIs, Zenon
<1>4. /\ Len(m.nonce) \in NonceLengths /\ m.tag \in TagLengths /\ m.length \in 0 .. Len(m.input)
      /\ (m.encrypting => Len(m.input) = m.length)
  BY <1>2, LenProperties DEF CcmFits, CcmAdmits, TypedCall
<1>5. x \in Seq(AE!Byte) /\ Len(x) = m.length
  <2>1. m.input \in Seq(AE!Byte)
    BY DEF TypedCall
  <2>. QED
    BY <1>4, <2>1, SeqIsCut DEF CcmFront, IsCut
<1> HIDE DEF x
<1>6. y \in Seq(AE!Byte) /\ Len(y) = m.length
  BY <1>5, CcmTransformedTwice DEF AeadFits
<1>7. tag \in Seq(AE!Byte)
  BY <1>4, <1>5, CcmTagIsBytes DEF AeadFits, TypedCall
<1> HIDE DEF y, tag
<1>8. CASE m.encrypting
  <2>1. AE!Ccm(m).bytes = y \o tag
    BY <1>3, <1>8, AnswerIs, Zenon
  <2>2. y \o tag \in Seq(AE!Byte)
    BY <1>6, <1>7, ConcatProperties
  <2>3. PlainOf(m, AE!Ccm(m)) = m.input
    BY <1>8, Zenon DEF PlainOf
  <2>. QED
    BY <1>2, <1>4, <1>8, <2>1, <2>2, <2>3 DEF TypedCall
<1>9. CASE ~m.encrypting
  <2>1. AE!Ccm(m).bytes = y
    BY <1>3, <1>9, AnswerIs, Zenon
  <2>2. PlainOf(m, AE!Ccm(m)) = y
    BY <1>9, <2>1, Zenon DEF PlainOf
  <2>. QED
    BY <1>2, <1>6, <2>1, <2>2
<1>. QED
  BY <1>8, <1>9

CipherOf(m, z) ==
  IF m.encrypting THEN SubSeq(z.bytes, 1, Len(m.input)) ELSE AE!GcmPayload(m)

LEMMA GcmReturns ==
  ASSUME AeadFits, NEW m, TypedCall(m), AE!Gcm(m).ok
  PROVE  /\ GcmFits(m) /\ AE!Gcm(m).bytes \in Seq(AE!Byte)
         /\ CipherOf(m, AE!Gcm(m)) \in Seq(AE!Byte)
         /\ Len(CipherOf(m, AE!Gcm(m))) = Len(AE!GcmPayload(m))
<1> DEFINE x == AE!GcmPayload(m)
           y == GcmTransformed(m.nonce, x)
           tag == TagOfGcm(m.nonce, m.aad, m.tag, y)
           seen == TagOfGcm(m.nonce, m.aad, m.tag, x)
<1>1. AE!Gcm(m) = IF ~GcmFits(m) \/ answers < 2 THEN AE!Err
                  ELSE IF m.encrypting THEN AE!Ok(y \o tag)
                  ELSE IF seen = GcmBack(m) THEN AE!Ok(y) ELSE AE!Err
  BY GcmIs, Zenon
<1>2. GcmFits(m)
  BY <1>1, AnswerIs, Zenon
<1>3. /\ m.encrypting => AE!Gcm(m) = AE!Ok(y \o tag)
      /\ ~m.encrypting => AE!Gcm(m) = AE!Ok(y)
  <2> HIDE DEF x, y, tag, seen
  <2>. QED
    BY <1>1, AnswerIs, Zenon
<1>4. m.input \in Seq(AE!Byte) /\ m.tag \in Nat /\ m.nonce \in Seq(AE!Byte) /\ m.aad \in Seq(AE!Byte)
  BY DEF TypedCall
<1>5. x \in Seq(AE!Byte) /\ (m.encrypting => x = m.input)
  <2>1. CASE m.encrypting
    BY <1>4, <2>1 DEF AE!GcmPayload
  <2>2. CASE ~m.encrypting
    <3> DEFINE size == AE!GcmTagLength(m)
    <3>1. size \in Nat /\ Len(m.input) >= size /\ Len(m.input) \in Nat
      <4>1. size \in Nat
        BY <1>4, CeilIsNat DEF AE!GcmTagLength, AeadFits, AE!WidthsFit
      <4>2. Len(m.input) >= size
        BY <1>2, <2>2 DEF GcmFits
      <4>. QED
        BY <1>4, <4>1, <4>2, LenProperties
    <3>2. x = SubSeq(m.input, 1, Len(m.input) - size)
      BY <2>2, Zenon DEF AE!GcmPayload
    <3> HIDE DEF size
    <3>3. Len(m.input) - size \in 0 .. Len(m.input)
      BY <3>1
    <3>. QED
      BY <1>4, <2>2, <3>2, <3>3, SeqIsCut
  <2>. QED
    BY <2>1, <2>2
<1> HIDE DEF x
<1>6. y \in Seq(AE!Byte) /\ Len(y) = Len(x)
  BY <1>5, GcmTransformedTwice DEF AeadFits
<1> HIDE DEF y
<1>7. tag \in Seq(AE!Byte)
  <2> DEFINE g == AE!Ghash(AE!HashSubkey, AE!GhashInput(m.aad, y))
             key == Encrypt(AE!GcmCounterBlock(m.nonce, 0))
             full == AE!XorBytes(key, g)
  <2>1. g \in AE!Block /\ key \in AE!Block
    BY <1>4, <1>6, GhashInputIsBytes, GhashIsBlock DEF AeadFits, AE!EncryptsToBlocks
  <2> HIDE DEF g, key
  <2>2. key \in Seq(AE!Byte) /\ Len(key) = CipherBlock /\ g \in [1 .. Len(key) -> AE!Byte]
    BY <2>1 DEF AE!Block, AeadFits, AE!WidthsFit
  <2>3. full \in Seq(AE!Byte) /\ Len(full) = CipherBlock
    BY <2>2, XorBytesOf DEF AeadFits
  <2> HIDE DEF full
  <2>4. full \in AE!Block
    BY <2>3, LenProperties DEF AE!Block
  <2>5. m.tag <= CipherBlock * AeadWidth
    BY <1>2 DEF GcmFits, GcmAdmits
  <2>6. AE!GcmTag(full, m.tag) \in Seq(AE!Byte)
    BY <1>4, <2>4, <2>5, GcmTagIsBytes DEF AeadFits
  <2>. QED
    BY <2>6 DEF TagOfGcm, full, g, key
<1> HIDE DEF tag
<1>8. CASE m.encrypting
  <2>1. AE!Gcm(m).bytes = y \o tag
    BY <1>3, <1>8, AnswerIs, Zenon
  <2>2. y \o tag \in Seq(AE!Byte)
    BY <1>6, <1>7, ConcatProperties
  <2>3. SubSeq(y \o tag, 1, Len(y)) = y
    BY <1>6, <1>7, JoinIsCut DEF IsCut
  <2>4. Len(y) = Len(m.input)
    BY <1>5, <1>6, <1>8
  <2>5. CipherOf(m, AE!Gcm(m)) = y
    BY <1>8, <2>1, <2>3, <2>4, Zenon DEF CipherOf
  <2>. QED
    BY <1>2, <1>6, <2>1, <2>2, <2>5 DEF x
<1>9. CASE ~m.encrypting
  <2>1. AE!Gcm(m).bytes = y
    BY <1>3, <1>9, AnswerIs, Zenon
  <2>2. CipherOf(m, AE!Gcm(m)) = x
    BY <1>9, Zenon DEF CipherOf, x
  <2>. QED
    BY <1>2, <1>5, <1>6, <2>1, <2>2 DEF x
<1>. QED
  BY <1>8, <1>9

(* Every call, the inverse ones too, has the types of its arguments, and   *)
(* one that has returned its outcome.                                      *)
CallsInv == message \in AE!MessageType /\ (pc = "done" => result = Outcome(message))

LEMMA MessageIsTyped ==
  ASSUME NEW m \in AE!MessageType
  PROVE  TypedCall(m) /\ m.mode \in {"ccm", "fixed", "gcm"}
  BY DEF AE!MessageType, TypedCall

LEMMA OutcomeIsBytes ==
  ASSUME AeadFits, NEW m \in AE!MessageType, Outcome(m).ok
  PROVE  Outcome(m).bytes \in Seq(AE!Byte)
<1>1. TypedCall(m) /\ m.mode \in {"ccm", "fixed", "gcm"}
  BY MessageIsTyped
<1>2. CASE m.mode = "ccm"
  <2>1. Outcome(m) = AE!Ccm(m)
    BY <1>2 DEF Outcome
  <2>. QED
    BY <1>1, <2>1, CcmReturns
<1>3. CASE m.mode = "gcm"
  <2>1. Outcome(m) = AE!Gcm(m)
    BY <1>3 DEF Outcome
  <2>. QED
    BY <1>1, <2>1, GcmReturns
<1>4. CASE m.mode = "fixed"
  <2> DEFINE size == DataLength(m)
             h == Fixed(m, size)
  <2>1. Outcome(m) = AE!FixedCcm(m)
    BY <1>4 DEF Outcome
  <2>2. ~(size < 0) /\ AE!FixedCcm(m) = AE!Ccm(h)
    BY <2>1, FixedIs, AnswerIs, Zenon
  <2>3. size \in Nat
    <3>1. Len(m.input) \in Nat /\ m.tag \in Nat /\ m.encrypting \in BOOLEAN
      BY <1>1, LenProperties DEF TypedCall
    <3>2. size \in Int
      BY <3>1 DEF DataLength
    <3> HIDE DEF size
    <3>. QED
      BY <2>2, <3>2
  <2> HIDE DEF size
  <2>4. TypedCall(h)
    BY <2>3 DEF TypedCall, Fixed, AE!MessageType
  <2> HIDE DEF h
  <2>. QED
    BY <2>1, <2>2, <2>4, CcmReturns
<1>. QED
  BY <1>1, <1>2, <1>3, <1>4

LEMMA CallsInvInit == ASSUME AE!MessagesFit, AE!Init PROVE CallsInv
  BY DEF AE!Init, AE!MessagesFit, CallsInv

LEMMA CallsInvNext == ASSUME AeadFits, CallsInv, [AE!Next]_AE!vars PROVE CallsInv'
<1>1. CASE AE!Run
  <2>1. /\ message' = message /\ answers' = answers /\ result' = Outcome(message)
    BY <1>1 DEF AE!Run, Outcome
  <2>2. Outcome(message)' = Outcome(message)
    BY <2>1, OutcomeStays
  <2>. QED
    BY <2>1, <2>2 DEF CallsInv
<1>2. CASE AE!RunInverse
  <2>1. /\ pc = "done" /\ result.ok /\ pc' = "call" /\ message' = Inverted(message, result.bytes)
    BY <1>2 DEF AE!RunInverse, Inverted
  <2>2. result.bytes \in Seq(AE!Byte)
    BY <2>1, OutcomeIsBytes DEF CallsInv
  <2>3. message' \in AE!MessageType
    BY <2>1, <2>2 DEF CallsInv, Inverted, AE!MessageType
  <2>. QED
    BY <2>1, <2>3 DEF CallsInv, AE!MessageType, AE!Byte, AE!Radix, AE!TwoTo
<1>3. CASE UNCHANGED AE!vars
  <2>1. message' = message /\ answers' = answers /\ pc' = pc /\ result' = result
    BY <1>3 DEF AE!vars
  <2>2. Outcome(message)' = Outcome(message)
    BY <2>1, OutcomeStays
  <2>. QED
    BY <2>1, <2>2 DEF CallsInv
<1>. QED
  BY <1>1, <1>2, <1>3 DEF AE!Next

LEMMA AcceptedCall ==
  ASSUME AeadFits, CallsInv
  PROVE  /\ AE!Accepted("ccm") =>
              /\ TypedCall(message) /\ CcmFits(message)
              /\ AE!Plaintext \in Seq(AE!Byte) /\ Len(AE!Plaintext) = message.length
         /\ AE!Accepted("gcm") =>
              /\ TypedCall(message) /\ GcmFits(message)
              /\ AE!Ciphertext \in Seq(AE!Byte)
              /\ Len(AE!Ciphertext) = Len(AE!GcmPayload(message))
<1>1. TypedCall(message)
  BY MessageIsTyped DEF CallsInv
<1>2. AE!Plaintext = PlainOf(message, result) /\ AE!Ciphertext = CipherOf(message, result)
  BY Zenon DEF AE!Plaintext, AE!Ciphertext, PlainOf, CipherOf
<1>3. ASSUME AE!Accepted("ccm") PROVE result = AE!Ccm(message) /\ AE!Ccm(message).ok
  BY <1>3 DEF AE!Accepted, CallsInv, Outcome
<1>4. ASSUME AE!Accepted("gcm") PROVE result = AE!Gcm(message) /\ AE!Gcm(message).ok
  BY <1>4 DEF AE!Accepted, CallsInv, Outcome
<1>5. ASSUME AE!Accepted("ccm")
      PROVE  /\ CcmFits(message) /\ AE!Plaintext \in Seq(AE!Byte)
             /\ Len(AE!Plaintext) = message.length
  <2>1. /\ CcmFits(message) /\ PlainOf(message, AE!Ccm(message)) \in Seq(AE!Byte)
        /\ Len(PlainOf(message, AE!Ccm(message))) = message.length
    BY <1>1, <1>3, <1>5, CcmReturns
  <2>. QED
    BY <1>2, <1>3, <1>5, <2>1
<1>6. ASSUME AE!Accepted("gcm")
      PROVE  /\ GcmFits(message) /\ AE!Ciphertext \in Seq(AE!Byte)
             /\ Len(AE!Ciphertext) = Len(AE!GcmPayload(message))
  <2>1. /\ GcmFits(message) /\ CipherOf(message, AE!Gcm(message)) \in Seq(AE!Byte)
        /\ Len(CipherOf(message, AE!Gcm(message))) = Len(AE!GcmPayload(message))
    BY <1>1, <1>4, <1>6, GcmReturns
  <2>. QED
    BY <1>2, <1>4, <1>6, <2>1
<1>. QED
  BY <1>1, <1>5, <1>6

LEMMA GcmCountersFresh ==
  ASSUME AeadFits, CallsInv, AE!Accepted("gcm"),
         NEW i \in 0 .. AE!BlockCount(AE!Ciphertext), NEW j \in 0 .. AE!BlockCount(AE!Ciphertext),
         AE!GcmCounterBlock(message.nonce, i) = AE!GcmCounterBlock(message.nonce, j)
  PROVE  i = j
<1> DEFINE count == AE!BlockCount(AE!Ciphertext)
           P == TwoTo[AeadWidth * CounterSize]
<1>1. /\ TypedCall(message) /\ GcmFits(message) /\ AE!Ciphertext \in Seq(AE!Byte)
      /\ Len(AE!Ciphertext) = Len(AE!GcmPayload(message))
  BY AcceptedCall
<1>2. count <= AE!GcmBlockLimit
  BY <1>1, Zenon DEF GcmFits, GcmAdmits, AE!BlockCount
<1>3. count \in Nat
  BY <1>1, CeilIsNat, LenProperties DEF AE!BlockCount, AeadFits, AE!WidthsFit
<1>4. AE!GcmBlockLimit = (P - 1) - 2
  BY AeadPowers DEF AE!GcmBlockLimit
<1>5. P \in Nat \ {0}
  <2>1. CounterSize \in Nat /\ AeadWidth \in Nat
    BY DEF AeadFits, AE!FieldsFit, AE!WidthsFit
  <2>. QED
    BY <2>1, PowerOfDigits
<1> HIDE DEF count
<1>6. i \in 0 .. P - 1 /\ j \in 0 .. P - 1
  <2>1. i \in 0 .. count /\ j \in 0 .. count
    BY DEF count
  <2> HIDE DEF P
  <2>. QED
    BY <1>2, <1>3, <1>4, <1>5, <2>1
<1>7. message.nonce \in Seq(AE!Byte)
  BY <1>1 DEF TypedCall
<1>. QED
  BY <1>6, <1>7, GcmCountersDiffer DEF AeadFits

LEMMA CcmCounterRange ==
  ASSUME AeadFits, CallsInv, AE!Accepted("ccm"), NEW i \in 0 .. AE!BlockCount(AE!Plaintext)
  PROVE  /\ i \in Nat /\ i \in 0 .. TwoTo[AeadWidth * AE!LengthBytes(message.nonce)] - 1
         /\ message.nonce \in Seq(AE!Byte) /\ Len(message.nonce) \in NonceLengths
         /\ message.tag \in TagLengths /\ message.length \in Nat
<1> DEFINE count == AE!BlockCount(AE!Plaintext)
           P == TwoTo[AeadWidth * AE!LengthBytes(message.nonce)]
<1>1. /\ TypedCall(message) /\ CcmFits(message) /\ AE!Plaintext \in Seq(AE!Byte)
      /\ Len(AE!Plaintext) = message.length
  BY AcceptedCall
<1>2. /\ message.nonce \in Seq(AE!Byte) /\ Len(message.nonce) \in NonceLengths
      /\ message.tag \in TagLengths /\ message.length \in Nat /\ message.length < P
  BY <1>1, AeadPowers DEF TypedCall, CcmFits, CcmAdmits
<1>3. count = AE!CeilDiv(message.length, CipherBlock) /\ CipherBlock \in Nat \ {0}
  BY <1>1, Zenon DEF AE!BlockCount, AeadFits, AE!WidthsFit
<1>4. count \in Nat /\ count <= message.length
  <2>1. message.length <= message.length * CipherBlock
    BY <1>2, <1>3
  <2>. QED
    BY <1>2, <1>3, <2>1, CeilIsNat, CeilBelow
<1>5. P \in Nat
  <2>1. AE!LengthBytes(message.nonce) \in Nat /\ AeadWidth \in Nat
    BY <1>2, LengthBytesIs DEF AeadFits, AE!WidthsFit
  <2>. QED
    BY <2>1, PowerOfDigits
<1> HIDE DEF count
<1>6. i \in 0 .. count
  BY DEF count
<1> HIDE DEF P
<1>7. i \in Nat /\ i \in 0 .. P - 1
  BY <1>2, <1>4, <1>5, <1>6
<1>. QED
  BY <1>2, <1>7 DEF P

LEMMA CallsInvFresh == ASSUME AeadFits, CallsInv PROVE AE!CountersFresh
<1>1. ASSUME AE!Accepted("gcm")
      PROVE  LET count == AE!BlockCount(AE!Ciphertext)
                 at == [i \in 0 .. count |-> AE!GcmCounterBlock(message.nonce, i)]
             IN  \A i, j \in 0 .. count : at[i] = at[j] => i = j
  <2> DEFINE count == AE!BlockCount(AE!Ciphertext)
  <2>1. \A i, j \in 0 .. count :
          AE!GcmCounterBlock(message.nonce, i) = AE!GcmCounterBlock(message.nonce, j) => i = j
    BY <1>1, GcmCountersFresh
  <2> HIDE DEF count
  <2>2. LET at == [i \in 0 .. count |-> AE!GcmCounterBlock(message.nonce, i)]
        IN  \A i, j \in 0 .. count : at[i] = at[j] => i = j
    BY <2>1, Zenon
  <2>. QED
    BY <2>2, Zenon DEF count
<1>2. ASSUME AE!Accepted("ccm"), NEW i \in 0 .. AE!BlockCount(AE!Plaintext),
             NEW j \in 0 .. AE!BlockCount(AE!Plaintext),
             AE!CcmCounterBlock(message.nonce, i) = AE!CcmCounterBlock(message.nonce, j)
      PROVE  i = j
  BY <1>2, CcmCounterRange, CcmCountersDiffer DEF AeadFits
<1>3. ASSUME AE!Accepted("ccm"), NEW i \in 0 .. AE!BlockCount(AE!Plaintext)
      PROVE  AE!CcmCounterBlock(message.nonce, i)
               # AE!CcmFirstBlock(message.nonce, message.aad, message.tag, message.length)
  BY <1>3, CcmCounterRange, FirstBlockDiffers DEF AeadFits
<1>. QED
  BY <1>1, <1>2, <1>3, Zenon DEF AE!CountersFresh

-----------------------------------------------------------------------------
(* CTR: counter blocks are numbers, of which the low bits count.           *)

LEMMA ModePowers == BM!TwoTo = TwoTo
  BY DEF BM!TwoTo, TwoTo

LEMMA ModeRadix ==
  ASSUME BM!Radix = ByteValues, BM!WidthsFit
  PROVE  /\ Width \in Nat /\ ByteValues = TwoTo[Width] /\ Byte = 0 .. TwoTo[Width] - 1
         /\ SemiblockSize \in Nat /\ TwoTo[Width * SemiblockSize] \in Nat \ {0}
<1>1. Width \in Nat /\ ByteValues = TwoTo[Width]
  BY ModePowers, Zenon DEF BM!WidthsFit, BM!Radix
<1>2. Byte = 0 .. TwoTo[Width] - 1
  BY <1>1, Zenon DEF Byte
<1>3. SemiblockSize \in Nat
  BY Sizes
<1>. QED
  BY <1>1, <1>2, <1>3, PowerOfDigits

LEMMA ModeOctets ==
  ASSUME BM!Radix = ByteValues, BM!WidthsFit, NEW v \in Nat
  PROVE  BM!ToBlock(v) \in Semi /\ HasDigits(BM!ToBlock(v), v, Width, SemiblockSize)
<1> DEFINE w == SemiblockSize
           f == BM!ToBlock(v)
<1>1. f = [k \in 1 .. w |-> Digit(v, Width, w - k)]
  <2>1. BM!Radix = TwoTo[Width]
    BY ModeRadix
  <2>. QED
    BY <2>1, ModePowers, Zenon DEF BM!ToBlock, Digit
<1>2. \A k \in 1 .. w : Digit(v, Width, w - k) \in Byte
  <2> TAKE k \in 1 .. w
  <2> DEFINE p == TwoTo[Width * (w - k)]
             R == TwoTo[Width]
  <2>1. w - k \in Nat /\ Width \in Nat
    BY ModeRadix
  <2>2. p \in Nat \ {0} /\ R \in Nat \ {0}
    BY <2>1, PowerOfDigits
  <2> HIDE DEF p, R
  <2>3. (v \div p) % R \in 0 .. R - 1
    BY <2>2
  <2>. QED
    BY <2>3, ModeRadix DEF Digit, p, R
<1> HIDE DEF f
<1>3. f \in [1 .. w -> Byte] /\ \A k \in 1 .. w : f[k] = Digit(v, Width, w - k)
  BY <1>1, <1>2
<1>. QED
  BY <1>3 DEF f, HasDigits, Semi

LEMMA ModeNumber ==
  ASSUME BM!Radix = ByteValues, BM!WidthsFit, NEW b \in Semi
  PROVE  \E f : ReadFrom(f, SemiblockSize, Width, b) /\ BM!Number(b) = f[SemiblockSize]
<1> DEFINE w == SemiblockSize
           R == BM!Radix
           F == CHOOSE f : f = [k \in 0 .. w |-> IF k = 0 THEN 0 ELSE f[k - 1] * R + b[k]]
<1>1. w \in Nat /\ Width \in Nat /\ R = TwoTo[Width] /\ Len(b) = w
  BY ModeRadix DEF Semi
<1>2. BM!Number(b) = F[w]
  BY <1>1, Zenon DEF BM!Number
<1>3. \A k \in 1 .. w : b[k] \in Nat
  <2>1. b \in [1 .. w -> 0 .. TwoTo[Width] - 1]
    BY ModeRadix, Zenon DEF Semi
  <2>. QED
    BY <2>1
<1>4. F = CHOOSE f : f = [k \in 0 .. w |-> IF k = 0 THEN 0 ELSE f[k - 1] * TwoTo[Width] + b[k]]
  BY <1>1, Zenon
<1> HIDE DEF F, w
<1>5. ReadFrom(F, w, Width, b)
  BY <1>1, <1>3, <1>4, ReadingExists
<1>. QED
  BY <1>2, <1>5 DEF w

LEMMA ModeNumberIs ==
  ASSUME BM!Radix = ByteValues, BM!WidthsFit
  PROVE  /\ \A b \in Semi : BM!Number(b) \in 0 .. TwoTo[Width * SemiblockSize] - 1
         /\ \A v \in 0 .. TwoTo[Width * SemiblockSize] - 1 : BM!Number(BM!ToBlock(v)) = v
<1> DEFINE w == SemiblockSize
           N == TwoTo[Width * w]
<1>1. w \in Nat /\ Width \in Nat /\ N \in Nat \ {0}
  BY ModeRadix
<1>2. ASSUME NEW b \in Semi PROVE BM!Number(b) \in 0 .. N - 1
  <2>1. PICK f : ReadFrom(f, w, Width, b) /\ BM!Number(b) = f[w]
    BY ModeNumber
  <2>2. \A k \in 1 .. w : b[k] \in 0 .. TwoTo[Width] - 1
    BY ModeRadix DEF Semi
  <2>3. f[w] \in 0 .. N - 1
    BY <1>1, <2>1, <2>2, ReadDigits
  <2>. QED
    BY <2>1, <2>3
<1>3. ASSUME NEW v \in 0 .. N - 1 PROVE BM!Number(BM!ToBlock(v)) = v
  <2> DEFINE b == BM!ToBlock(v)
  <2> HIDE DEF N
  <2>1. v \in Nat /\ v % N = v
    BY <1>1, <1>3
  <2>2. b \in Semi /\ HasDigits(b, v, Width, w)
    BY <2>1, ModeOctets
  <2> HIDE DEF b
  <2>3. PICK f : ReadFrom(f, w, Width, b) /\ BM!Number(b) = f[w]
    BY <2>2, ModeNumber
  <2>4. f[w] = v % TwoTo[Width * w]
    BY <1>1, <2>1, <2>2, <2>3, DigitsRead
  <2>. QED
    BY <2>1, <2>3, <2>4 DEF b, N
<1>. QED
  BY <1>2, <1>3

LEMMA QuotientBelow ==
  ASSUME NEW v \in Nat, NEW P \in Nat \ {0}, NEW M \in Nat \ {0}, v < M * P
  PROVE  v \div P \in Nat /\ v \div P <= M - 1 /\ v = P * (v \div P) + (v % P) /\ v % P \in 0 .. P - 1
<1> DEFINE q == v \div P
           e == v % P
<1>1. q \in Nat /\ v = P * q + e /\ e \in 0 .. P - 1
  OBVIOUS
<1> HIDE DEF q, e
<1>2. q <= M - 1
  <2> SUFFICES ASSUME M <= q PROVE FALSE
    BY <1>1
  <2>1. M * P <= q * P /\ q * P = P * q /\ M * P \in Nat /\ P * q \in Nat
    BY <1>1
  <2>. QED
    BY <1>1, <2>1
<1>. QED
  BY <1>1, <1>2 DEF q, e

(* The high bits stay, the low ones count modulo their period.             *)
CountedOn(v, P, i) == (v - (v % P)) + (((v % P) + i) % P)

LEMMA CountedOnIs ==
  ASSUME NEW v \in Nat, NEW P \in Nat \ {0}, NEW M \in Nat \ {0}, v < M * P, NEW i \in Nat
  PROVE  /\ CountedOn(v, P, i) \in 0 .. M * P - 1 /\ CountedOn(v, P, i) \div P = v \div P
         /\ CountedOn(v, P, i) % P = ((v % P) + i) % P
<1> DEFINE q == v \div P
           c == v % P
           e == (c + i) % P
<1>1. q \in Nat /\ q <= M - 1 /\ v = P * q + c /\ c \in 0 .. P - 1
  BY QuotientBelow
<1>2. e \in 0 .. P - 1
  <2> HIDE DEF c
  <2>. QED
    BY <1>1
<1>3. CountedOn(v, P, i) = (v - c) + e
  BY Zenon DEF CountedOn
<1> HIDE DEF q, c, e
<1>4. P * q = q * P /\ q * P \in Nat
  BY <1>1
<1>5. CountedOn(v, P, i) = q * P + e
  <2> DEFINE u == q * P
  <2> HIDE DEF u
  <2>1. v = u + c /\ u \in Nat
    BY <1>1, <1>4 DEF u
  <2>2. CountedOn(v, P, i) = u + e
    BY <1>1, <1>2, <1>3, <2>1
  <2>. QED
    BY <2>2 DEF u
<1>6. q * P + e \in Nat /\ (q * P + e) \div P = q /\ (q * P + e) % P = e
  BY <1>1, <1>2, OneMoreDigit
<1>7. q * P + e <= M * P - 1
  BY <1>1, <1>2, OneMoreFits
<1>8. M * P \in Nat
  OBVIOUS
<1> DEFINE z == q * P + e
           top == M * P
<1> HIDE DEF z, top
<1>9. z \in 0 .. top - 1
  BY <1>6, <1>7, <1>8 DEF z, top
<1>. QED
  BY <1>5, <1>6, <1>9, Zenon DEF q, c, e, z, top

LEMMA PeriodTells ==
  ASSUME NEW c \in Nat, NEW P \in Nat \ {0}, NEW i \in Nat, NEW j \in Nat,
         (c + i) % P = (c + j) % P
  PROVE  (j - i) % P = 0
<1> DEFINE y == c + i
           z == c + j
           p == y \div P
           q == z \div P
           rest == y % P
<1>1. y \in Nat /\ z \in Nat /\ y % P = z % P /\ j - i = z - y
  OBVIOUS
<1> HIDE DEF y, z
<1>2. p \in Nat /\ y = P * p + (y % P) /\ q \in Nat /\ z = P * q + (z % P) /\ y % P \in 0 .. P - 1
  BY <1>1
<1> HIDE DEF p, q, rest
<1>3. y = P * p + rest /\ z = P * q + rest /\ rest \in Nat
  BY <1>1, <1>2 DEF rest
<1>4. z - y = P * (q - p) /\ q - p \in Int
  <2>1. P * (q - p) = P * q - P * p /\ P * q \in Nat /\ P * p \in Nat
    BY <1>2
  <2>. QED
    BY <1>2, <1>3, <2>1
<1>5. \A k \in Int : (P * k) % P = 0
  OBVIOUS
<1>. QED
  BY <1>1, <1>4, <1>5, Zenon

LEMMA CtrBlockIs ==
  ASSUME BM!Radix = ByteValues, BM!WidthsFit, NEW b \in Semi, NEW i \in Nat,
         NEW p \in 1 .. SemiblockSize * Width
  PROVE  LET v == BM!Number(b)
             P == TwoTo[p]
             at == BM!CtrBlock(p, b, i)
         IN  /\ v \in Nat /\ P \in Nat \ {0} /\ at \in Semi /\ BM!Number(at) \div P = v \div P
             /\ BM!Number(at) % P = ((v % P) + i) % P
<1> DEFINE v == BM!Number(b)
           P == TwoTo[p]
           m == SemiblockSize * Width - p
           M == TwoTo[m]
           N == TwoTo[Width * SemiblockSize]
           z == CountedOn(v, P, i)
<1>1. v \in 0 .. N - 1 /\ SemiblockSize \in Nat /\ Width \in Nat /\ N \in Nat \ {0}
  BY ModeNumberIs, ModeRadix
<1>2. p \in Nat /\ m \in Nat /\ m + p = Width * SemiblockSize
  <2> DEFINE a1 == SemiblockSize * Width
  <2>1. a1 \in Nat /\ a1 = Width * SemiblockSize
    BY <1>1
  <2> HIDE DEF a1
  <2>2. p \in 1 .. a1 /\ m = a1 - p
    BY DEF a1
  <2>. QED
    BY <2>1, <2>2
<1> HIDE DEF m
<1>3. P \in Nat \ {0} /\ M \in Nat \ {0} /\ N = M * P
  BY <1>2, PowersOfTwo, PowersAdd
<1>4. BM!CtrBlock(p, b, i) = BM!ToBlock(z)
  <2>1. BM!TwoTo[p] = P
    BY ModePowers
  <2>. QED
    BY <2>1, Zenon DEF BM!CtrBlock, CountedOn
<1> HIDE DEF v, P, M, N
<1>5. v \in Nat /\ v < M * P
  BY <1>1, <1>3
<1>6. z \in 0 .. N - 1 /\ z \div P = v \div P /\ z % P = ((v % P) + i) % P
  <2>1. /\ z \in 0 .. M * P - 1 /\ z \div P = v \div P
        /\ z % P = ((v % P) + i) % P
    <3>1. P \in Nat \ {0} /\ M \in Nat \ {0} /\ v \in Nat /\ v < M * P /\ i \in Nat
      BY <1>3, <1>5
    <3>. QED
      BY <3>1, CountedOnIs, Zenon
  <2>. QED
    BY <1>3, <2>1, Zenon
<1> HIDE DEF z
<1>7. BM!Number(BM!ToBlock(z)) = z /\ z \in Nat
  BY <1>1, <1>6, ModeNumberIs DEF N
<1>8. BM!ToBlock(z) \in Semi
  BY <1>7, ModeOctets
<1>. QED
  BY <1>3, <1>4, <1>5, <1>6, <1>7, <1>8, Zenon DEF v, P

LEMMA CtrBlocksDiffer ==
  ASSUME BM!Radix = ByteValues, BM!WidthsFit, NEW b \in Semi, NEW i \in Nat, NEW j \in Nat,
         NEW p \in 1 .. SemiblockSize * Width,
         BM!CtrBlock(p, b, i) = BM!CtrBlock(p, b, j)
  PROVE  (j - i) % TwoTo[p] = 0
<1> DEFINE P == TwoTo[p]
           c == BM!Number(b) % P
<1>1. /\ P \in Nat \ {0} /\ BM!Number(b) \in Nat
      /\ BM!Number(BM!CtrBlock(p, b, i)) % P = (c + i) % P
      /\ BM!Number(BM!CtrBlock(p, b, j)) % P = (c + j) % P
  BY CtrBlockIs
<1>2. (c + i) % P = (c + j) % P
  BY <1>1, Zenon
<1>3. c \in Nat
  <2> HIDE DEF P
  <2>. QED
    BY <1>1
<1> HIDE DEF P, c
<1>4. (j - i) % P = 0
  BY <1>1, <1>2, <1>3, PeriodTells
<1>. QED
  BY <1>4 DEF P

(* The key stream of a message, and its application twice.                 *)
KeyStream(p, b, m) == BM!Concat([i \in 1 .. m |-> BlockCipher[BM!CtrBlock(p, b, i - 1)]], m)

LEMMA KeyStreamIsBytes ==
  ASSUME BM!Radix = ByteValues, BM!WidthsFit, IsPermutation, NEW b \in Semi, NEW m \in Nat,
         NEW p \in 1 .. SemiblockSize * Width
  PROVE  KeyStream(p, b, m) \in [1 .. m * SemiblockSize -> Byte]
<1> DEFINE s == [i \in 1 .. m |-> BlockCipher[BM!CtrBlock(p, b, i - 1)]]
<1>1. \A i \in 1 .. m : BM!CtrBlock(p, b, i - 1) \in Semi
  <2> TAKE i \in 1 .. m
  <2>1. i - 1 \in Nat
    OBVIOUS
  <2>. QED
    BY <2>1, CtrBlockIs
<1>2. s \in Semis(m)
  BY <1>1 DEF IsPermutation, Semis
<1>3. KeyStream(p, b, m) = Bytes(s, m)
  BY ModeConcat DEF KeyStream
<1> HIDE DEF s
<1>. QED
  BY <1>2, <1>3, BytesOf

LEMMA MaskedTwice ==
  ASSUME NEW w \in Nat, NEW size \in Nat, w <= size,
         NEW y, y \in Seq(Byte), Len(y) = w, NEW k \in [1 .. size -> Byte]
  PROVE  /\ BM!XorBytes(y, k) \in Seq(Byte) /\ Len(BM!XorBytes(y, k)) = w
         /\ BM!XorBytes(BM!XorBytes(y, k), k) = y
<1> DEFINE D == 1 .. w
           z == BM!XorBytes(y, k)
           x == BM!XorBytes(z, k)
<1>1. y \in [D -> Byte] /\ \A i \in D : y[i] \in Byte /\ k[i] \in Byte
  OBVIOUS
<1>2. z = [i \in D |-> Xor[<<y[i], k[i]>>]]
  BY DEF BM!XorBytes
<1>3. \A i \in D : Xor[<<y[i], k[i]>>] \in Byte /\ Xor[<<Xor[<<y[i], k[i]>>], k[i]>>] = y[i]
  BY <1>1, XorAssumption
<1> HIDE DEF z
<1>4. z \in [D -> Byte] /\ \A i \in D : z[i] = Xor[<<y[i], k[i]>>]
  BY <1>2, <1>3
<1>5. z \in Seq(Byte) /\ Len(z) = w
  BY <1>4
<1>6. x = [i \in D |-> Xor[<<z[i], k[i]>>]]
  BY <1>5, Zenon DEF BM!XorBytes
<1> HIDE DEF x
<1>7. x \in [D -> Byte] /\ \A i \in D : x[i] = y[i]
  BY <1>1, <1>3, <1>4, <1>6
<1>8. x = y
  <2> HIDE DEF D
  <2>. QED
    BY <1>1, <1>7, SameFunction
<1>. QED
  BY <1>5, <1>8 DEF x, z

CtrOk(p, needed) == p \in 1 .. SemiblockSize * Width /\ needed <= calls

LEMMA CtrWithIs ==
  ASSUME NEW p, NEW b, NEW y
  PROVE  LET m == BM!BlockCount(y) IN
         /\ BM!CtrWith(p, b, y).ok => CtrOk(p, 1)
         /\ CtrOk(p, 1) => BM!CtrWith(p, b, y) = BM!Ok(BM!XorBytes(y, KeyStream(p, b, m)))
<1> DEFINE m == BM!BlockCount(y)
           out == BM!XorBytes(y, KeyStream(p, b, m))
<1>1. BM!CtrWith(p, b, y) = IF p \notin 1 .. SemiblockSize * Width THEN BM!Err
                            ELSE BM!Answered(1, out)
  BY Zenon DEF BM!CtrWith, KeyStream
<1> HIDE DEF out
<1>2. BM!CtrWith(p, b, y).ok => CtrOk(p, 1)
  <2> SUFFICES ASSUME BM!CtrWith(p, b, y).ok PROVE CtrOk(p, 1)
    OBVIOUS
  <2>1. p \in 1 .. SemiblockSize * Width
    BY <1>1, ModeAnswer, Zenon
  <2>2. BM!CtrWith(p, b, y) = BM!Answered(1, out)
    BY <1>1, <2>1, Zenon
  <2>3. 1 <= calls
    <3>1. BM!Answered(1, out).ok
      BY <2>2
    <3>. QED
      BY <3>1, ModeAnswer, Zenon
  <2>. QED
    BY <2>1, <2>3, Zenon DEF CtrOk
<1>3. CtrOk(p, 1) => BM!CtrWith(p, b, y) = BM!Ok(out)
  BY <1>1, ModeAnswer, Zenon DEF CtrOk
<1>. QED
  BY <1>2, <1>3, Zenon DEF out, m

LEMMA CtrUndone ==
  ASSUME BM!Radix = ByteValues, BM!WidthsFit, IsPermutation, NEW b \in Semi,
         NEW y \in Seq(Byte), NEW p, BM!CtrWith(p, b, y).ok
  PROVE  /\ p \in 1 .. SemiblockSize * Width
         /\ BM!CtrWith(p, b, BM!CtrWith(p, b, y).bytes) = BM!Ok(y)
<1> DEFINE w == Len(y)
           m == BM!CeilDiv(w, SemiblockSize)
           k == KeyStream(p, b, m)
           z == BM!XorBytes(y, k)
<1>1. w \in Nat
  BY LenProperties
<1>2. m \in Nat /\ m * SemiblockSize \in Nat /\ w <= m * SemiblockSize
  <2>1. SemiblockSize \in Nat \ {0}
    BY Sizes
  <2>2. w + (SemiblockSize - 1) \in Nat
    BY <1>1, <2>1
  <2>3. m \in Nat
    BY <2>1, <2>2, QuotientIsNat DEF BM!CeilDiv
  <2>. QED
    BY <1>1, <2>3, RoundedUp
<1>3. CtrOk(p, 1)
  BY CtrWithIs, Zenon
<1>4. BM!CtrWith(p, b, y) = BM!Ok(z)
  BY <1>3, CtrWithIs, Zenon DEF BM!BlockCount
<1>5. BM!CtrWith(p, b, y).bytes = z
  BY <1>4, ModeAnswer, Zenon
<1> HIDE DEF m
<1>6. k \in [1 .. m * SemiblockSize -> Byte]
  BY <1>2, <1>3, KeyStreamIsBytes DEF CtrOk
<1> HIDE DEF k
<1>7. z \in Seq(Byte) /\ Len(z) = w /\ BM!XorBytes(z, k) = y
  <2> DEFINE size == m * SemiblockSize
             lw == Len(y)
  <2>1. lw \in Nat /\ size \in Nat /\ lw <= size /\ k \in [1 .. size -> Byte] /\ lw = Len(y)
    BY <1>1, <1>2, <1>6, Zenon
  <2> HIDE DEF size, lw
  <2>2. z \in Seq(Byte) /\ Len(z) = lw /\ BM!XorBytes(z, k) = y
    BY <2>1, MaskedTwice
  <2>. QED
    BY <2>1, <2>2
<1> HIDE DEF z
<1>8. BM!CtrWith(p, b, z) = BM!Ok(BM!XorBytes(z, k))
  <2>1. BM!BlockCount(z) = m
    BY <1>7, Zenon DEF BM!BlockCount, m
  <2>. QED
    BY <1>3, <2>1, CtrWithIs, Zenon DEF k
<1>. QED
  BY <1>3, <1>5, <1>7, <1>8 DEF CtrOk

(* What is known of a call of ctr_with, and of one that has returned.      *)
CtrInv ==
  operation = "ctr" =>
    /\ data \in Seq(Byte) /\ block \in Semi
    /\ pc = "done" => result = BM!CtrWith(parameter, block, data)

LEMMA CtrInvInit ==
  ASSUME BM!Radix = ByteValues, BM!WidthsFit, BM!Init PROVE CtrInv
<1> SUFFICES ASSUME operation = "ctr" PROVE data \in Seq(Byte) /\ block \in Semi /\ pc # "done"
  BY DEF CtrInv
<1>1. pc # "done"
  BY DEF BM!Init
<1>2. /\ operation \notin {"cbc_encrypt", "cbc_decrypt"}
      /\ operation \notin {"cmac_with", "cmac_with_cbc", "iso7816_pad", "iso7816_unpad"}
      /\ operation \notin {"pkcs7_apply", "pkcs7_remove"}
      /\ operation \notin BM!Encryptions \cup BM!Decryptions \cup {"aes_cmac"}
  BY NamesAre DEF EncryptionNames, DecryptionNames
<1>3. /\ block \in BM!Block
      /\ \E l \in 0 .. MaxBlocks * SemiblockSize : data = [k \in 1 .. l |-> k % BM!Radix]
  BY <1>2, Zenon DEF BM!Init
<1>4. PICK l \in 0 .. MaxBlocks * SemiblockSize : data = [k \in 1 .. l |-> k % ByteValues]
  BY <1>3
<1>5. l \in Nat
  <2> DEFINE z == MaxBlocks * SemiblockSize
  <2>1. z \in Nat
    BY Sizes DEF BM!WidthsFit
  <2> HIDE DEF z
  <2>2. l \in 0 .. z
    BY DEF z
  <2>. QED
    BY <2>1, <2>2
<1>6. \A k \in 1 .. l : k % ByteValues \in Byte
  BY <1>5, Sizes DEF Byte
<1>7. data \in [1 .. l -> Byte]
  BY <1>4, <1>6
<1>. QED
  BY <1>1, <1>3, <1>5, <1>7, ModeTypes

LEMMA CtrStays ==
  ASSUME calls' = calls, NEW p, NEW b, NEW y
  PROVE  BM!CtrWith(p, b, y)' = BM!CtrWith(p, b, y)
  BY Zenon DEF BM!CtrWith, BM!Answered

LEMMA CtrInvNext == CtrInv /\ [BM!Next]_BM!vars => CtrInv'
<1> SUFFICES ASSUME CtrInv, [BM!Next]_BM!vars, operation' = "ctr"
             PROVE  /\ data' \in Seq(Byte) /\ block' \in Semi
                    /\ pc' = "done" => result' = BM!CtrWith(parameter, block, data)'
  BY DEF CtrInv
<1>1. UNCHANGED <<operation, data, block, parameter, calls>>
  BY DEF BM!Next, BM!Run, BM!vars
<1>2. data' \in Seq(Byte) /\ block' \in Semi
  BY <1>1 DEF CtrInv
<1>3. BM!CtrWith(parameter, block, data)' = BM!CtrWith(parameter, block, data)
  <2>1. \A p, b, y : BM!CtrWith(p, b, y)' = BM!CtrWith(p, b, y)
    BY <1>1, CtrStays
  <2>. QED
    BY <1>1, <2>1
<1>4. CASE BM!Run
  <2>1. result' = BM!Call(operation, data, block, parameter)
    BY <1>4 DEF BM!Run
  <2>2. BM!Call("ctr", data, block, parameter) = BM!CtrWith(parameter, block, data)
    BY DEF BM!Call
  <2>. QED
    BY <1>1, <1>2, <1>3, <2>1, <2>2
<1>5. CASE UNCHANGED BM!vars
  BY <1>1, <1>2, <1>3, <1>5 DEF CtrInv, BM!vars
<1>. QED
  BY <1>4, <1>5 DEF BM!Next

LEMMA CtrInvImplies ==
  ASSUME BM!Radix = ByteValues, BM!WidthsFit, BM!CipherIsPermutation, CtrInv
  PROVE  BM!CtrNeverReuses
<1> SUFFICES ASSUME BM!Returned("ctr")
             PROVE  LET at(i) == BM!CtrBlock(parameter, block, i) IN
                    /\ \A i, j \in 0 .. BM!BlockCount(data) - 1 :
                         at(i) = at(j) => (j - i) % BM!TwoTo[parameter] = 0
                    /\ \A i \in 0 .. BM!BlockCount(data) - 1 :
                         BM!Number(at(i)) \div BM!TwoTo[parameter]
                           = BM!Number(block) \div BM!TwoTo[parameter]
                    /\ BM!Undo("ctr") = BM!Ok(data)
  BY Zenon DEF BM!CtrNeverReuses
<1> DEFINE count == BM!BlockCount(data)
<1>1. /\ data \in Seq(Byte) /\ block \in Semi /\ result = BM!CtrWith(parameter, block, data)
      /\ result.ok
  BY DEF BM!Returned, CtrInv
<1>2. IsPermutation
  BY PermutationIs
<1>3. /\ parameter \in 1 .. SemiblockSize * Width
      /\ BM!CtrWith(parameter, block, result.bytes) = BM!Ok(data)
  BY <1>1, <1>2, CtrUndone
<1>4. BM!Undo("ctr") = BM!Ok(data)
  BY <1>3 DEF BM!Undo, BM!Call
<1>5. \A i \in 0 .. count - 1 : i \in Nat
  <2>1. count \in Nat
    <3>1. Len(data) + (SemiblockSize - 1) \in Nat /\ SemiblockSize \in Nat \ {0}
      BY <1>1, Sizes
    <3>. QED
      BY <3>1, QuotientIsNat DEF BM!BlockCount, BM!CeilDiv
  <2> HIDE DEF count
  <2>. QED
    BY <2>1
<1> HIDE DEF count
<1>6. \A i, j \in 0 .. count - 1 :
        BM!CtrBlock(parameter, block, i) = BM!CtrBlock(parameter, block, j)
          => (j - i) % TwoTo[parameter] = 0
  BY <1>1, <1>3, <1>5, CtrBlocksDiffer
<1>7. \A i \in 0 .. count - 1 :
        BM!Number(BM!CtrBlock(parameter, block, i)) \div TwoTo[parameter]
          = BM!Number(block) \div TwoTo[parameter]
  BY <1>1, <1>3, <1>5, CtrBlockIs
<1>. QED
  BY <1>4, <1>6, <1>7, ModePowers, Zenon DEF count

(* For any widths whose fields fit a block, any block encryptor and field  *)
(* multiplication, any permutation of the blocks, and any calls.  In a CCM *)
(* or GCM call that returned Ok no counter block is encrypted twice,       *)
(* however long the message that was accepted and wherever the counter of  *)
(* GCM starts, and CCM never encrypts a counter block as the first block   *)
(* of its MAC.  Two counter blocks of ctr_with are equal only a whole      *)
(* period of the counter apart, none changes the bits above the counter,   *)
(* and applying ctr_with twice gives the message back.                     *)
THEOREM CountersNeverRepeat ==
  ASSUME BM!Radix = ByteValues, BM!WidthsFit, BM!CipherIsPermutation, AeadFits, AE!MessagesFit
  PROVE  SymmetricSpec => []CountersFresh
<1> DEFINE PartInv == (part = "modes" => CtrInv) /\ (part = "aead" => CallsInv)
<1>1. SymmetricInit => PartInv
  <2>1. SymmetricInit => (part = "modes" => CtrInv)
    BY CtrInvInit DEF SymmetricInit
  <2>2. SymmetricInit => (part = "aead" => CallsInv)
    BY CallsInvInit DEF SymmetricInit
  <2>. QED
    BY <2>1, <2>2
<1>2. PartInv /\ [SymmetricNext]_symmetric => PartInv'
  <2> SUFFICES ASSUME PartInv, [SymmetricNext]_symmetric PROVE PartInv'
    OBVIOUS
  <2>1. part' = "modes" => CtrInv'
    BY ModesStepIs, CtrInvNext
  <2>2. part' = "aead" => CallsInv'
    BY AeadStepIs, CallsInvNext
  <2>. QED
    BY <2>1, <2>2
<1>3. PartInv => CountersFresh
  BY CtrInvImplies, CallsInvFresh DEF CountersFresh
<1>. QED
  BY <1>1, <1>2, <1>3, PTL DEF SymmetricSpec

-----------------------------------------------------------------------------
(* CMAC: doubling a block byte by byte doubles the number it stands for.   *)

(* A product and a remainder, for one digit.                               *)
LEMMA CarryOfDigit ==
  ASSUME NEW x \in Nat, NEW h \in Nat \ {0}, x <= 2 * h - 1
  PROVE  /\ x \div h \in 0 .. 1 /\ x % h \in 0 .. h - 1 /\ x = (x \div h) * h + (x % h)
         /\ (2 * x) % (2 * h) = 2 * (x % h) /\ (x \div h = 0 <=> x < h)
<1> DEFINE c == x \div h
           e == x % h
<1>1. c \in Nat /\ e \in 0 .. h - 1 /\ x = h * c + e
  BY Remainders
<1> HIDE DEF c, e
<1>2. c \in 0 .. 1
  <2> SUFFICES ASSUME c >= 2 PROVE FALSE
    BY <1>1
  <2>1. h * c >= h * 2 /\ h * c \in Nat
    BY <1>1
  <2>. QED
    BY <1>1, <2>1
<1>3. h * c = c * h /\ (c = 0 => h * c = 0) /\ (c = 1 => h * c = h)
  BY <1>1
<1>4. x = c * h + e /\ (c = 0 <=> x < h)
  BY <1>1, <1>2, <1>3
<1>5. (2 * x) % (2 * h) = 2 * e
  <2>1. 2 * e \in 0 .. (2 * h) - 1 /\ 2 * h \in Nat \ {0} /\ (2 * h) * c = 2 * (h * c)
    BY <1>1
  <2>2. 2 * x = (2 * h) * c + 2 * e
    BY <1>1, <1>2, <1>3, <2>1
  <2>3. ((2 * h) * c + 2 * e) % (2 * h) = 2 * e
    BY <1>1, <2>1, RemainderIs
  <2>. QED
    BY <2>2, <2>3
<1>. QED
  BY <1>1, <1>2, <1>4, <1>5 DEF c, e

(* The quotient of a doubled number: v = f * (2 * h * p) + x * p + s.      *)
Quotients(v, f, h, p, c, e, s) ==
  /\ f \in Nat /\ h \in Nat \ {0} /\ p \in Nat \ {0} /\ c \in 0 .. 1
  /\ e \in 0 .. h - 1 /\ s \in 0 .. p - 1 /\ v \in Nat
  /\ v = (f * (2 * h) + (c * h + e)) * p + s

LEMMA DoubledQuotient ==
  ASSUME NEW v, NEW f, NEW h, NEW p, NEW c, NEW e, NEW s, Quotients(v, f, h, p, c, e, s)
  PROVE  (2 * v) \div (p * (2 * h)) = 2 * f + c
<1> USE DEF Quotients
<1> DEFINE P == p * (2 * h)
           E == e * p
           H == h * p
<1>1. P \in Nat \ {0} /\ P = 2 * H /\ H \in Nat /\ E \in Nat
  BY SMT
<1>2. E + p <= H
  <2>1. (e + 1) * p <= h * p /\ (e + 1) * p = E + p
    BY SMT
  <2>. QED
    BY <2>1
<1>3. v = f * P + (c * H + (E + s))
  <2>1. (f * (2 * h)) * p = f * P /\ (c * h + e) * p = c * H + E
    BY SMT
  <2>2. /\ f * (2 * h) \in Nat /\ c * h + e \in Nat /\ f * P \in Nat /\ c * H \in Nat
    BY <1>1, SMT
  <2>3. (f * (2 * h) + (c * h + e)) * p = (f * (2 * h)) * p + (c * h + e) * p
    BY <2>2, SMT
  <2> HIDE DEF P, E, H
  <2>. QED
    BY <1>1, <2>1, <2>2, <2>3
<1> HIDE DEF P, E, H
<1>4. 2 * v = P * (2 * f + c) + 2 * (E + s)
  <2>1. f * P \in Nat /\ P * (2 * f + c) = 2 * (f * P) + c * P /\ c * P = 2 * (c * H) /\ c * H \in Nat
    BY <1>1
  <2>. QED
    BY <1>1, <1>3, <2>1
<1>5. 2 * (E + s) \in 0 .. P - 1
  BY <1>1, <1>2
<1>6. (P * (2 * f + c) + 2 * (E + s)) \div P = 2 * f + c
  <2> DEFINE y == 2 * f + c
             d == 2 * (E + s)
  <2>1. y \in Nat /\ d \in 0 .. P - 1 /\ P * y = y * P
    BY <1>1, <1>5
  <2> HIDE DEF y, d
  <2>2. (y * P + d) \div P = y
    BY <1>1, <2>1, OneMoreDigit
  <2>. QED
    BY <2>1, <2>2 DEF y, d
<1>. QED
  BY <1>4, <1>6 DEF P

(* The next digit of a doubled number: that of 2 * (g * (2 * h) + x) + c.  *)
DigitAndCarry(g, h, x, c) ==
  g \in Nat /\ h \in Nat \ {0} /\ x \in Nat /\ x <= 2 * h - 1 /\ c \in 0 .. 1

LEMMA DoubledDigit ==
  ASSUME NEW g, NEW h, NEW x, NEW c, DigitAndCarry(g, h, x, c)
  PROVE  /\ (2 * (g * (2 * h) + x) + c) % (2 * h) = ((2 * x) % (2 * h)) + c
         /\ ((2 * x) % (2 * h)) + c \in 0 .. 2 * h - 1
<1> USE DEF DigitAndCarry
<1> DEFINE R == 2 * h
           t == x \div h
           e == x % h
<1>1. t \in 0 .. 1 /\ e \in 0 .. h - 1 /\ x = t * h + e /\ (2 * x) % R = 2 * e
  BY CarryOfDigit
<1> HIDE DEF t, e
<1>2. 2 * e + c \in 0 .. R - 1 /\ R \in Nat \ {0}
  BY <1>1
<1> DEFINE y == 2 * g + t
           d == 2 * e + c
<1>3. 2 * (g * R + x) + c = R * y + d
  <2>1. g * R \in Nat /\ R * y = 2 * (g * R) + t * R /\ t * R = 2 * (t * h) /\ t * h \in Nat
    BY <1>1
  <2> HIDE DEF R
  <2>. QED
    BY <1>1, <2>1
<1>4. y \in Nat /\ d \in 0 .. R - 1
  BY <1>1, <1>2
<1> HIDE DEF y, d, R
<1>5. (R * y + d) % R = d
  BY <1>2, <1>4, RemainderIs
<1>6. (2 * (g * R + x) + c) % R = ((2 * x) % R) + c
  BY <1>1, <1>3, <1>5 DEF d
<1>7. ((2 * x) % R) + c \in 0 .. R - 1
  BY <1>1, <1>2
<1>. QED
  BY <1>6, <1>7 DEF R

(* The byte at k of a block shifted by one bit.                            *)
Shifted(b, k) ==
  ((2 * b[k]) % BM!Radix)
    + (IF k < SemiblockSize THEN b[k + 1] \div (BM!Radix \div 2) ELSE 0)

LEMMA CarryIs ==
  ASSUME BM!Radix = ByteValues, BM!WidthsFit
  PROVE  /\ ByteValues \div 2 \in Nat \ {0} /\ ByteValues = 2 * (ByteValues \div 2)
         /\ \A x \in Byte : x \in Nat /\ x <= 2 * (ByteValues \div 2) - 1
<1> DEFINE h == TwoTo[Width - 1]
<1>1. Width \in Nat \ {0} /\ ByteValues = TwoTo[Width]
  BY ModeRadix DEF BM!WidthsFit
<1>2. TwoTo[Width] = 2 * h /\ Width - 1 \in Nat
  BY <1>1, PowersOfTwo
<1>3. h \in Nat \ {0}
  BY <1>2, PowersOfTwo
<1> HIDE DEF h
<1>4. (2 * h) \div 2 = h
  BY <1>3
<1>5. ByteValues \div 2 = h /\ ByteValues = 2 * h
  BY <1>1, <1>2, <1>4
<1>. QED
  BY <1>3, <1>5 DEF Byte

(* The first bytes, read as a number, are a quotient of the whole.         *)
LEMMA ReadBefore ==
  ASSUME BM!Radix = ByteValues, BM!WidthsFit, NEW b \in Semi, NEW f,
         ReadFrom(f, SemiblockSize, Width, b)
  PROVE  \A i \in 0 .. SemiblockSize :
           f[SemiblockSize] \div TwoTo[Width * (SemiblockSize - i)] = f[i]
<1>1. \A k \in 1 .. SemiblockSize : b[k] \in 0 .. TwoTo[Width] - 1
  BY ModeRadix DEF Semi
<1>2. Width \in Nat /\ SemiblockSize \in Nat
  BY ModeRadix
<1>3. Leading(f, SemiblockSize, Width)
  BY <1>1, <1>2, ReadDigits
<1>. QED
  BY <1>3, Zenon DEF Leading

LEMMA ShiftedIsDigit ==
  ASSUME BM!Radix = ByteValues, BM!WidthsFit, NEW b \in Semi, NEW k \in 1 .. SemiblockSize
  PROVE  /\ Shifted(b, k) = Digit(2 * BM!Number(b), Width, SemiblockSize - k)
         /\ Shifted(b, k) \in Byte
<1> DEFINE w == SemiblockSize
           h == ByteValues \div 2
           R == TwoTo[Width]
           P(j) == TwoTo[Width * j]
           v == BM!Number(b)
<1>1. w \in Nat /\ k \in Nat /\ Width \in Nat /\ h \in Nat \ {0} /\ R = 2 * h /\ BM!Radix = R
  BY ModeRadix, CarryIs
<1>2. PICK f : ReadFrom(f, w, Width, b) /\ v = f[w]
  BY ModeNumber
<1>4. \A i \in 0 .. w : v \div P(w - i) = f[i]
  BY <1>2, ReadBefore, Zenon
<1>5. R \in Nat \ {0} /\ P(0) = 1 /\ \A j \in Nat : P(j) \in Nat \ {0} /\ P(j + 1) = P(j) * R
  BY <1>1, PowerOfDigits
<1>6. \A i \in 1 .. w : b[i] \in Nat /\ b[i] <= 2 * h - 1
  BY CarryIs DEF Semi
<1>7. /\ \A i \in 0 .. w : f[i] \in Nat
      /\ \A i \in 1 .. w : f[i] = f[i - 1] * R + b[i]
  BY <1>2 DEF ReadFrom
<1>8. v \in Nat
  BY <1>1, <1>2, <1>7
<1> DEFINE c == IF k < w THEN b[k + 1] \div h ELSE 0
<1>9. Shifted(b, k) = ((2 * b[k]) % R) + c
  BY <1>1, Zenon DEF Shifted
<1> HIDE DEF h, R, P, v
<1>10. c \in 0 .. 1 /\ (2 * v) \div P(w - k) = 2 * f[k] + c
  <2>1. CASE k < w
    <3> DEFINE p == P(w - (k + 1))
               s == v % p
               x == b[k + 1]
               e == x % h
    <3>1. k + 1 \in 1 .. w /\ w - (k + 1) \in Nat /\ (w - (k + 1)) + 1 = w - k /\ (k + 1) - 1 = k
      BY <1>1, <2>1
    <3>2. p \in Nat \ {0} /\ P(w - k) = p * R
      BY <1>5, <3>1
    <3>3. x \in Nat /\ x <= 2 * h - 1
      BY <1>6, <3>1
    <3>4. f[k + 1] = f[k] * R + x /\ f[k] \in Nat
      BY <1>7, <3>1
    <3>5. v \div p = f[k + 1]
      BY <1>4, <3>1
    <3> HIDE DEF p, x
    <3>6. s \in 0 .. p - 1 /\ v = p * (v \div p) + s
      BY <1>8, <3>2, Remainders
    <3>7. x \div h \in 0 .. 1 /\ e \in 0 .. h - 1 /\ x = (x \div h) * h + e
      BY <1>1, <3>3, CarryOfDigit
    <3>8. c = x \div h
      BY <2>1 DEF x
    <3> HIDE DEF s, e, c
    <3>9. v = (f[k] * (2 * h) + (c * h + e)) * p + s
      <4> DEFINE z == f[k] * (2 * h) + (c * h + e)
      <4>1. v \div p = z
        BY <1>1, <3>4, <3>5, <3>7, <3>8
      <4>2. z \in Nat
        BY <1>8, <3>2, <4>1, QuotientIsNat
      <4> HIDE DEF z
      <4>3. p * z = z * p
        BY <3>2, <4>2
      <4>. QED
        BY <3>6, <4>1, <4>3 DEF z
    <3>10. (2 * v) \div (p * (2 * h)) = 2 * f[k] + c
      <4>1. /\ h \in Nat \ {0} /\ v \in Nat /\ p \in Nat \ {0} /\ f[k] \in Nat
            /\ s \in 0 .. p - 1 /\ e \in 0 .. h - 1 /\ c \in 0 .. 1
        BY <1>1, <1>8, <3>2, <3>4, <3>6, <3>7, <3>8, Zenon
      <4>2. Quotients(v, f[k], h, p, c, e, s)
        BY <3>9, <4>1, Zenon DEF Quotients
      <4>. QED
        BY <4>2, DoubledQuotient
    <3>. QED
      BY <1>1, <3>2, <3>7, <3>8, <3>10
  <2>2. CASE ~(k < w)
    <3>1. k = w /\ w - k = 0 /\ c = 0
      BY <1>1, <2>2
    <3>2. (2 * v) \div 1 = 2 * v
      BY <1>8
    <3>. QED
      BY <1>2, <1>5, <1>8, <3>1, <3>2
  <2>. QED
    BY <2>1, <2>2
<1>11. f[k] = f[k - 1] * R + b[k] /\ f[k - 1] \in Nat /\ b[k] \in Nat /\ b[k] <= 2 * h - 1
  BY <1>1, <1>6, <1>7
<1> DEFINE x == b[k]
           g == f[k - 1]
<1> HIDE DEF c, x, g
<1>12. /\ (2 * (g * (2 * h) + x) + c) % (2 * h) = ((2 * x) % (2 * h)) + c
       /\ ((2 * x) % (2 * h)) + c \in 0 .. 2 * h - 1
  <2>1. DigitAndCarry(g, h, x, c)
    BY <1>1, <1>10, <1>11 DEF x, g, DigitAndCarry
  <2>. QED
    BY <2>1, DoubledDigit, Zenon
<1>13. Digit(2 * v, Width, w - k) = ((2 * v) \div P(w - k)) % R
  BY Zenon DEF Digit, P, R
<1>14. f[k] = g * (2 * h) + x
  BY <1>1, <1>11 DEF x, g
<1>15. Shifted(b, k) = Digit(2 * v, Width, w - k) /\ Shifted(b, k) \in 0 .. R - 1
  <2>1. Shifted(b, k) = ((2 * x) % (2 * h)) + c
    BY <1>1, <1>9 DEF x
  <2>2. Digit(2 * v, Width, w - k) = (2 * (g * (2 * h) + x) + c) % (2 * h)
    BY <1>1, <1>10, <1>13, <1>14
  <2>. QED
    BY <1>1, <1>12, <2>1, <2>2
<1>. QED
  BY <1>15, ModeRadix DEF v, R

(* The bytes of a number that is too large are those of its low part.      *)
LEMMA LowDigits ==
  ASSUME BM!Radix = ByteValues, BM!WidthsFit, NEW x \in Nat
  PROVE  BM!ToBlock(x % TwoTo[Width * SemiblockSize]) = BM!ToBlock(x)
<1> DEFINE w == SemiblockSize
           N == TwoTo[Width * w]
           d == BM!ToBlock(x)
           u == BM!ToBlock(x % N)
<1>1. w \in Nat /\ Width \in Nat /\ N \in Nat \ {0}
  BY ModeRadix
<1>2. x % N \in Nat
  <2> HIDE DEF N
  <2>. QED
    BY <1>1
<1>3. d \in Semi /\ HasDigits(d, x, Width, w)
  BY ModeOctets
<1>4. u \in Semi /\ HasDigits(u, x % N, Width, w)
  BY <1>2, ModeOctets
<1> HIDE DEF d, u
<1>5. PICK f : ReadFrom(f, w, Width, d) /\ BM!Number(d) = f[w]
  BY <1>3, ModeNumber
<1>6. f[w] = x % N
  BY <1>1, <1>3, <1>5, DigitsRead
<1>7. \A k \in 1 .. w : d[k] \in 0 .. TwoTo[Width] - 1
  BY <1>3, ModeRadix DEF Semi
<1>8. HasDigits(d, f[w], Width, w)
  BY <1>1, <1>5, <1>7, ReadDigits
<1>9. \A k \in 1 .. w : d[k] = u[k]
  BY <1>4, <1>6, <1>8 DEF HasDigits
<1>10. d = u
  <2> DEFINE D == 1 .. w
  <2>1. d \in [D -> Byte] /\ u \in [D -> Byte] /\ \A k \in D : d[k] = u[k]
    BY <1>3, <1>4, <1>9, Zenon DEF Semi
  <2> HIDE DEF D
  <2>. QED
    BY <2>1, SameFunction
<1>. QED
  BY <1>10 DEF d, u

(* The number of a byte in a block of zeros.                               *)
LEMMA LastByteOnly ==
  ASSUME BM!Radix = ByteValues, BM!WidthsFit, NEW x \in Byte
  PROVE  /\ BM!ToBlock(x) \in Semi
         /\ \A k \in 1 .. SemiblockSize : BM!ToBlock(x)[k] = IF k = SemiblockSize THEN x ELSE 0
<1> DEFINE w == SemiblockSize
           R == TwoTo[Width]
           d == BM!ToBlock(x)
<1>1. w \in Nat /\ Width \in Nat /\ x \in 0 .. R - 1
  BY ModeRadix
<1>2. R \in Nat \ {0}
  BY <1>1, PowersOfTwo
<1>3. x \in Nat
  <2> HIDE DEF R
  <2>. QED
    BY <1>1, <1>2
<1>4. d \in Semi /\ HasDigits(d, x, Width, w)
  BY <1>3, ModeOctets
<1> HIDE DEF d
<1>5. ASSUME NEW k \in 1 .. w PROVE d[k] = IF k = w THEN x ELSE 0
  <2> DEFINE p == TwoTo[Width * (w - k)]
  <2>1. d[k] = (x \div p) % R
    BY <1>4 DEF HasDigits, Digit
  <2>2. CASE k = w
    <3>1. p = 1
      BY <1>1, <2>2, PowerOfDigits
    <3> HIDE DEF p, R
    <3>2. x \div 1 = x /\ x % R = x
      BY <1>1, <1>2, <1>3
    <3>. QED
      BY <2>1, <2>2, <3>1, <3>2
  <2>3. CASE k # w
    <3>1. (w - k) - 1 \in Nat /\ ((w - k) - 1) + 1 = w - k
      BY <1>1, <2>3
    <3> DEFINE t == TwoTo[Width * ((w - k) - 1)]
    <3>2. t \in Nat \ {0} /\ p = t * R
      BY <1>1, <3>1, PowerOfDigits
    <3> HIDE DEF t, p, R
    <3>3. t * R >= R /\ t * R \in Nat
      BY <1>2, <3>2
    <3>4. x < p /\ p \in Nat \ {0}
      BY <1>1, <1>2, <3>2, <3>3
    <3>5. x \div p = 0
      BY <1>3, <3>4
    <3>6. 0 % R = 0
      BY <1>2
    <3>. QED
      BY <2>1, <2>3, <3>5, <3>6
  <2>. QED
    BY <2>2, <2>3
<1>. QED
  BY <1>4, <1>5 DEF d

(* The carry out of the first byte tells whether the doubled number fits.  *)
LEMMA CarryTells ==
  ASSUME BM!Radix = ByteValues, BM!WidthsFit, NEW b \in Semi
  PROVE  /\ b[1] \div (ByteValues \div 2) \in 0 .. 1
         /\ b[1] \div (ByteValues \div 2) = 0
              <=> 2 * BM!Number(b) < TwoTo[Width * SemiblockSize]
<1> DEFINE w == SemiblockSize
           h == ByteValues \div 2
           R == TwoTo[Width]
           q == TwoTo[Width * (w - 1)]
           N == TwoTo[Width * w]
           v == BM!Number(b)
           x == b[1]
<1>1. w \in Nat \ {0} /\ Width \in Nat /\ h \in Nat \ {0} /\ R = 2 * h
  BY Sizes, ModeRadix, CarryIs
<1>2. PICK f : ReadFrom(f, w, Width, b) /\ v = f[w]
  BY ModeNumber
<1>4. w \in Nat /\ 1 \in 0 .. w /\ 1 \in 1 .. w /\ w - 1 \in Nat /\ (w - 1) + 1 = w /\ 0 \in 0 .. w
  BY <1>1
<1>5. v \div q = f[1]
  BY <1>2, <1>4, ReadBefore, Zenon
<1>6. q \in Nat \ {0} /\ N = q * R
  BY <1>1, <1>4, PowerOfDigits
<1>7. x \in Nat /\ x <= 2 * h - 1
  BY <1>4, CarryIs DEF Semi
<1>8. v \in Nat /\ f[1] = x
  <2>1. f[w] \in Nat /\ f[0] = 0 /\ f[1] = f[0] * R + x
    BY <1>4, <1>2 DEF ReadFrom
  <2> HIDE DEF R, x
  <2>. QED
    BY <1>1, <1>2, <1>7, <2>1
<1> HIDE DEF h, R, q, N, v, x
<1>9. x \div h \in 0 .. 1 /\ (x \div h = 0 <=> x < h)
  BY <1>1, <1>7, CarryOfDigit
<1>10. x < h <=> 2 * v < N
  <2> DEFINE s == v % q
  <2>1. s \in 0 .. q - 1 /\ v = q * x + s
    BY <1>5, <1>6, <1>8, Remainders
  <2>2. N = 2 * (q * h) /\ q * h \in Nat /\ q * x \in Nat
    BY <1>1, <1>6, <1>7
  <2> HIDE DEF s
  <2>3. ASSUME x < h PROVE v < q * h
    <3>1. q * (x + 1) <= q * h /\ q * (x + 1) = q * x + q
      BY <1>1, <1>6, <1>7, <2>3
    <3>. QED
      BY <1>6, <2>1, <2>2, <3>1
  <2>4. ASSUME h <= x PROVE q * h <= v
    <3>1. q * h <= q * x
      BY <1>1, <1>6, <1>7, <2>4
    <3>. QED
      BY <1>6, <2>1, <2>2, <3>1
  <2>. QED
    BY <1>1, <1>7, <1>8, <2>2, <2>3, <2>4
<1>. QED
  BY <1>9, <1>10 DEF x, h, v, N

(* cmac_double doubles in the field of SP 800-38B.                         *)
LEMMA DoublesInField ==
  ASSUME BM!Radix = ByteValues, BM!WidthsFit, BM!ReductionFits, NEW b \in Semi
  PROVE  BM!CmacDouble(b) = BM!DoubleNumber(BM!Number(b)) /\ BM!CmacDouble(b) \in Semi
<1> DEFINE w == SemiblockSize
           D == 1 .. w
           h == ByteValues \div 2
           N == TwoTo[Width * w]
           v == BM!Number(b)
           c == b[1] \div h
           f == BM!CmacDouble(b)
           t == BM!ToBlock(2 * v)
           u == BM!ToBlock(Reduction)
<1>1. w \in D /\ N \in Nat \ {0} /\ v \in Nat
  <2>1. v \in 0 .. N - 1 /\ w \in Nat \ {0} /\ N \in Nat \ {0}
    BY ModeNumberIs, ModeRadix, Sizes
  <2> HIDE DEF N, v
  <2>. QED
    BY <2>1
<1>2. c \in 0 .. 1 /\ (c = 0 <=> 2 * v < N)
  BY CarryTells
<1>3. Reduction \in Byte /\ 0 \in Byte /\ \A x \in Byte : Xor[<<x, 0>>] = x
  <2>1. BM!Byte = Byte /\ 0 \in Byte
    BY ModeTypes, Sizes DEF Byte
  <2>. QED
    BY <2>1 DEF BM!ReductionFits
<1>4. t \in Semi /\ \A k \in D : t[k] = Shifted(b, k)
  <2>1. 2 * v \in Nat
    BY <1>1
  <2>2. t \in Semi /\ HasDigits(t, 2 * v, Width, w)
    BY <2>1, ModeOctets
  <2>3. \A k \in D : Shifted(b, k) = Digit(2 * v, Width, w - k)
    BY ShiftedIsDigit
  <2>. QED
    BY <2>2, <2>3, Zenon DEF HasDigits
<1>5. u \in Semi /\ \A k \in D : u[k] = IF k = w THEN Reduction ELSE 0
  BY <1>3, LastByteOnly
<1>6. BM!DoubleNumber(v) = IF 2 * v < N THEN t ELSE XorSemi(t, u)
  <2> DEFINE d == BM!ToBlock((2 * v) % N)
  <2>1. d = t
    BY <1>1, LowDigits
  <2>2. BM!XorBytes(t, u) = XorSemi(t, u)
    BY <1>4, ModeXor
  <2>3. BM!DoubleNumber(v) = IF 2 * v < N THEN d ELSE BM!XorBytes(d, u)
    BY ModePowers, Zenon DEF BM!DoubleNumber
  <2>. QED
    BY <2>1, <2>2, <2>3, Zenon
<1> DEFINE e == c * Reduction
           s == [k \in D |-> Shifted(b, k)]
<1>7. f = [s EXCEPT ![w] = Xor[<<s[w], e>>]]
  BY Zenon DEF BM!CmacDouble, Shifted
<1>8. \A k \in D : Shifted(b, k) \in Byte
  BY ShiftedIsDigit
<1> HIDE DEF f, t, u, c, v, N
<1>9. e \in Byte /\ (c = 0 => e = 0) /\ (c = 1 => e = Reduction)
  <2>1. Reduction \in Int
    BY <1>3, Sizes DEF Byte
  <2>2. 0 * Reduction = 0 /\ 1 * Reduction = Reduction
    BY <2>1
  <2>3. c = 0 \/ c = 1
    BY <1>2
  <2>. QED
    BY <1>3, <2>2, <2>3
<1> HIDE DEF e
<1>10. /\ f \in [D -> Byte]
       /\ \A k \in D : f[k] = IF k = w THEN Xor[<<t[k], e>>] ELSE t[k]
  <2>1. s \in [D -> Byte] /\ \A k \in D : s[k] = t[k]
    BY <1>4, <1>8
  <2>2. Xor[<<s[w], e>>] \in Byte
    <3>1. s[w] \in Byte
      BY <1>1, <2>1
    <3> HIDE DEF s
    <3>. QED
      BY <1>9, <3>1, XorAssumption
  <2> HIDE DEF s, D
  <2>3. f \in [D -> Byte] /\ \A k \in D : f[k] = IF k = w THEN Xor[<<s[w], e>>] ELSE s[k]
    BY <1>7, <2>1, <2>2
  <2>. QED
    BY <1>1, <2>1, <2>3
<1>11. \A k \in D : t[k] \in Byte
  BY <1>4 DEF Semi
<1>12. f \in Semi
  BY <1>10, Zenon DEF Semi
<1>13. CASE c = 0
  <2>1. \A k \in D : f[k] = t[k]
    BY <1>3, <1>9, <1>10, <1>11, <1>13
  <2>2. f = t
    <3>1. t \in [D -> Byte]
      BY <1>4, Zenon DEF Semi
    <3> HIDE DEF D
    <3>. QED
      BY <1>10, <2>1, <3>1, SameFunction
  <2>3. 2 * v < N
    BY <1>2, <1>13
  <2>. QED
    BY <1>6, <1>12, <2>2, <2>3, Zenon DEF f, v
<1>14. CASE c = 1
  <2> DEFINE g == XorSemi(t, u)
  <2>1. g \in Semi
    BY <1>4, <1>5, XorTwice
  <2>2. \A k \in D : g[k] = Xor[<<t[k], u[k]>>]
    BY DEF XorSemi
  <2> HIDE DEF g
  <2>3. \A k \in D : f[k] = g[k]
    <3> TAKE k \in D
    <3>1. e = Reduction /\ t[k] \in Byte /\ Xor[<<t[k], 0>>] = t[k]
      BY <1>3, <1>9, <1>11, <1>14
    <3>2. CASE k = w
      BY <1>5, <1>10, <2>2, <3>1, <3>2
    <3>3. CASE k # w
      BY <1>5, <1>10, <2>2, <3>1, <3>3
    <3>. QED
      BY <3>2, <3>3
  <2>4. f = g
    <3>1. g \in [D -> Byte]
      BY <2>1, Zenon DEF Semi
    <3> HIDE DEF D
    <3>. QED
      BY <1>10, <2>3, <3>1, SameFunction
  <2>5. ~(2 * v < N)
    BY <1>2, <1>14
  <2>. QED
    BY <1>6, <1>12, <2>4, <2>5 DEF f, v, g
<1>. QED
  <2>1. c = 0 \/ c = 1
    BY <1>2
  <2>. QED
    BY <1>13, <1>14, <2>1

-----------------------------------------------------------------------------
(* The message both constructions chain: whole blocks as they are, the     *)
(* last block filled up and masked with its subkey.                        *)
CmacCount(y) == IF Len(y) = 0 THEN 1 ELSE BM!BlockCount(y)
CmacStart(y) == (CmacCount(y) - 1) * SemiblockSize
CmacRest(y) == Len(y) - CmacStart(y)
FilledLast(y) ==
  [k \in 1 .. SemiblockSize |->
     IF k <= CmacRest(y) THEN y[CmacStart(y) + k] ELSE IF k = CmacRest(y) + 1 THEN BM!Mark ELSE 0]
MaskedLast(y) == XorSemi(FilledLast(y), BM!CmacLastSubkey(y))
Prepared(y) ==
  [k \in 1 .. CmacCount(y) * SemiblockSize |->
     IF k <= CmacStart(y) THEN y[k] ELSE MaskedLast(y)[k - CmacStart(y)]]

LEMMA CeilSplits ==
  ASSUME NEW z \in Nat \ {0}, NEW S \in Nat \ {0}, NEW q, q = (z + (S - 1)) \div S
  PROVE  q \in Nat \ {0} /\ (q - 1) * S + 1 <= z /\ z <= q * S /\ (q - 1) * S \in Nat /\ q * S = (q - 1) * S + S
<1> DEFINE u == z + (S - 1)
           e == u % S
<1>1. u \in Nat /\ q = u \div S
  OBVIOUS
<1> HIDE DEF u
<1>2. q \in Nat /\ e \in 0 .. S - 1 /\ u = S * q + e
  BY <1>1, Remainders
<1> HIDE DEF e
<1>3. S * q \in Nat /\ q * S = S * q /\ (q = 0 => S * q = 0)
  BY <1>2
<1>4. u = z + (S - 1)
  BY DEF u
<1>5. z <= q * S /\ q * S <= z + (S - 1)
  BY <1>2, <1>3, <1>4
<1>6. q # 0
  BY <1>2, <1>3, <1>5
<1>7. (q - 1) * S = q * S - S /\ (q - 1) * S \in Nat
  BY <1>2, <1>6
<1>. QED
  BY <1>2, <1>3, <1>5, <1>6, <1>7

(* Where the last block begins, and when it is complete.                   *)
LEMMA CmacSizes ==
  ASSUME NEW y \in Seq(Byte)
  PROVE  /\ CmacCount(y) \in Nat \ {0} /\ CmacStart(y) \in Nat /\ CmacRest(y) \in 0 .. SemiblockSize
         /\ CmacStart(y) + CmacRest(y) = Len(y)
         /\ CmacCount(y) * SemiblockSize = CmacStart(y) + SemiblockSize
         /\ BM!Complete(y) <=> CmacRest(y) = SemiblockSize
         /\ ~BM!Complete(y) => Len(y) % SemiblockSize = CmacRest(y)
<1> DEFINE S == SemiblockSize
           z == Len(y)
           q == CmacCount(y)
           st == CmacStart(y)
           t == CmacRest(y)
<1>1. S \in Nat \ {0} /\ z \in Nat /\ (y = << >> <=> z = 0)
  BY Sizes
<1>2. st = (q - 1) * S /\ t = z - st /\ (z = 0 => q = 1) /\ (z # 0 => q = (z + (S - 1)) \div S)
  <2>1. st = (q - 1) * S /\ t = z - st
    BY DEF CmacStart, CmacRest
  <2>2. (z = 0 => q = 1) /\ (z # 0 => q = (z + (S - 1)) \div S)
    BY DEF CmacCount, BM!BlockCount, BM!CeilDiv
  <2>. QED
    BY <2>1, <2>2
<1>3. BM!Complete(y) <=> z # 0 /\ z % S = 0
  BY <1>1 DEF BM!Complete, BM!WholeBlocks
<1> HIDE DEF S, z, q, st, t
<1>4. CASE z = 0
  <2>1. q = 1 /\ (q - 1) * S = 0 /\ q * S = S /\ 0 % S = 0
    BY <1>1, <1>2, <1>4
  <2>2. st = 0 /\ t = 0
    BY <1>1, <1>2, <1>4, <2>1
  <2>. QED
    BY <1>1, <1>3, <1>4, <2>1, <2>2 DEF S, z, q, st, t
<1>5. CASE z # 0
  <2>1. q \in Nat \ {0} /\ st + 1 <= z /\ z <= q * S /\ st \in Nat /\ q * S = st + S
    BY <1>1, <1>2, <1>5, CeilSplits
  <2>2. t \in 1 .. S /\ st + t = z
    BY <1>1, <1>2, <2>1
  <2>3. z % S = IF t = S THEN 0 ELSE t
    <3>1. q - 1 \in Nat /\ st = S * (q - 1)
      BY <1>1, <1>2, <2>1
    <3>2. CASE t = S
      <4>1. z = S * q + 0 /\ 0 \in 0 .. S - 1
        BY <1>1, <2>1, <2>2, <3>2
      <4>2. (S * q + 0) % S = 0
        BY <1>1, <2>1, <4>1, RemainderIs
      <4>. QED
        BY <3>2, <4>1, <4>2
    <3>3. CASE t # S
      <4>1. z = S * (q - 1) + t /\ t \in 0 .. S - 1
        BY <1>1, <2>2, <3>1, <3>3
      <4>2. (S * (q - 1) + t) % S = t
        BY <1>1, <3>1, <4>1, RemainderIs
      <4>. QED
        BY <3>3, <4>1, <4>2
    <3>. QED
      BY <3>2, <3>3
  <2>4. t \in 0 .. S /\ t # 0
    BY <1>1, <2>2
  <2>5. (BM!Complete(y) <=> t = S) /\ (~BM!Complete(y) => z % S = t)
    BY <1>3, <1>5, <2>3, <2>4
  <2>. QED
    BY <2>1, <2>2, <2>4, <2>5 DEF S, z, q, st, t
<1>. QED
  BY <1>4, <1>5

(* The subkey is that of SP 800-38B.                                       *)
Subkey1 == BM!DoubleNumber(BM!Number(BlockCipher[BM!ZeroBlock]))
Subkey2 == BM!DoubleNumber(BM!Number(Subkey1))

LEMMA ZeroIsSemi ==
  BM!ZeroBlock \in Semi /\ 0 \in Byte
<1>1. 0 \in Byte
  BY Sizes DEF Byte
<1>. QED
  BY <1>1 DEF BM!ZeroBlock, Semi

LEMMA SubkeyIs ==
  ASSUME BM!Radix = ByteValues, BM!WidthsFit, BM!ReductionFits, IsPermutation, NEW y
  PROVE  /\ Subkey1 \in Semi /\ Subkey2 \in Semi
         /\ BM!CmacLastSubkey(y) = IF BM!Complete(y) THEN Subkey1 ELSE Subkey2
<1> DEFINE c == BlockCipher[BM!ZeroBlock]
           d == BM!CmacDouble(c)
<1>1. c \in Semi
  BY ZeroIsSemi DEF IsPermutation
<1>2. d = Subkey1 /\ d \in Semi
  BY <1>1, DoublesInField DEF Subkey1
<1>3. BM!CmacDouble(Subkey1) = Subkey2 /\ Subkey2 \in Semi
  BY <1>2, DoublesInField DEF Subkey2
<1>4. BM!CmacLastSubkey(y) = IF BM!Complete(y) THEN d ELSE BM!CmacDouble(d)
  BY Zenon DEF BM!CmacLastSubkey
<1>. QED
  BY <1>2, <1>3, <1>4, Zenon

LEMMA LastBlockIs ==
  ASSUME BM!Radix = ByteValues, BM!WidthsFit, NEW y \in Seq(Byte)
  PROVE  FilledLast(y) \in Semi
<1> DEFINE S == SemiblockSize
           st == CmacStart(y)
           t == CmacRest(y)
<1>1. S \in Nat /\ st \in Nat /\ t \in 0 .. S /\ st + t = Len(y) /\ Len(y) \in Nat
  BY CmacSizes, Sizes
<1>2. BM!Mark \in Byte /\ 0 \in Byte
  BY MarkIs, ZeroIsSemi DEF BM!WidthsFit
<1> HIDE DEF st, t, S
<1>3. \A k \in 1 .. S : k <= t => y[st + k] \in Byte
  <2> TAKE k \in 1 .. S
  <2>1. k <= t => st + k \in 1 .. Len(y)
    BY <1>1
  <2>. QED
    BY <2>1, ElementOfSeq
<1>4. [k \in 1 .. S |-> IF k <= t THEN y[st + k] ELSE IF k = t + 1 THEN BM!Mark ELSE 0]
        \in [1 .. S -> Byte]
  BY <1>2, <1>3
<1>. QED
  BY <1>4, Zenon DEF FilledLast, Semi, S, st, t

LEMMA MaskedIs ==
  ASSUME BM!Radix = ByteValues, BM!WidthsFit, BM!ReductionFits, IsPermutation,
         NEW y \in Seq(Byte)
  PROVE  MaskedLast(y) \in Semi /\ BM!CmacLastSubkey(y) \in Semi
<1>1. BM!CmacLastSubkey(y) \in Semi
  BY SubkeyIs
<1>. QED
  BY <1>1, LastBlockIs, XorTwice DEF MaskedLast

LEMMA PreparedIs ==
  ASSUME BM!Radix = ByteValues, BM!WidthsFit, BM!ReductionFits, IsPermutation,
         NEW y \in Seq(Byte)
  PROVE  /\ Prepared(y) \in Octets(CmacCount(y))
         /\ \A k \in 1 .. CmacStart(y) : Prepared(y)[k] = y[k] /\ y[k] \in Byte
         /\ \A k \in 1 .. SemiblockSize : Prepared(y)[CmacStart(y) + k] = MaskedLast(y)[k]
<1> DEFINE S == SemiblockSize
           st == CmacStart(y)
           M == MaskedLast(y)
           N == CmacCount(y) * S
           f == Prepared(y)
<1>1. S \in Nat /\ st \in Nat /\ N = st + S /\ Len(y) \in Nat /\ st <= Len(y)
  BY CmacSizes, Sizes
<1>2. f = [k \in 1 .. N |-> IF k <= st THEN y[k] ELSE M[k - st]]
  BY Zenon DEF Prepared
<1>3. \A k \in 1 .. S : M[k] \in Byte
  BY MaskedIs DEF Semi
<1> HIDE DEF S, st, M, N, f
<1>4. \A k \in 1 .. st : y[k] \in Byte
  <2> TAKE k \in 1 .. st
  <2>1. k \in 1 .. Len(y)
    BY <1>1
  <2>. QED
    BY <2>1, ElementOfSeq
<1>5. f \in [1 .. N -> Byte]
  <2>1. ASSUME NEW k \in 1 .. N PROVE (IF k <= st THEN y[k] ELSE M[k - st]) \in Byte
    <3>1. k <= st => k \in 1 .. st
      BY <1>1
    <3>2. ~(k <= st) => k - st \in 1 .. S
      BY <1>1
    <3>. QED
      BY <1>3, <1>4, <3>1, <3>2
  <2>. QED
    BY <1>2, <2>1
<1>6. \A k \in 1 .. st : f[k] = y[k]
  <2> TAKE k \in 1 .. st
  <2>1. k \in 1 .. N /\ k <= st
    BY <1>1
  <2>. QED
    BY <1>2, <2>1
<1>7. \A k \in 1 .. S : f[st + k] = M[k]
  <2> TAKE k \in 1 .. S
  <2>1. st + k \in 1 .. N /\ ~(st + k <= st) /\ (st + k) - st = k
    BY <1>1
  <2>. QED
    BY <1>2, <2>1
<1>. QED
  BY <1>4, <1>5, <1>6, <1>7 DEF Octets, S, st, M, N, f

(* A string with the same bytes is the prepared message.                   *)
LEMMA IsPrepared ==
  ASSUME BM!Radix = ByteValues, BM!WidthsFit, BM!ReductionFits, IsPermutation,
         NEW y \in Seq(Byte), NEW f \in Octets(CmacCount(y)),
         \A k \in 1 .. CmacStart(y) : f[k] = y[k],
         \A k \in 1 .. SemiblockSize : f[CmacStart(y) + k] = MaskedLast(y)[k]
  PROVE  f = Prepared(y)
<1> DEFINE S == SemiblockSize
           st == CmacStart(y)
           N == CmacCount(y) * S
           D == 1 .. N
           g == Prepared(y)
<1>1. S \in Nat /\ st \in Nat /\ N = st + S
  BY CmacSizes, Sizes
<1>2. /\ f \in [D -> Byte] /\ g \in [D -> Byte]
  BY PreparedIs DEF Octets
<1>3. /\ \A k \in 1 .. st : f[k] = g[k]
      /\ \A k \in 1 .. S : f[st + k] = g[st + k]
  BY PreparedIs
<1> HIDE DEF S, st, N, g
<1>4. \A k \in D : f[k] = g[k]
  <2> TAKE k \in D
  <2>1. CASE k <= st
    BY <1>1, <1>3, <2>1
  <2>2. CASE ~(k <= st)
    <3>1. k - st \in 1 .. S /\ st + (k - st) = k
      BY <1>1, <2>2
    <3>2. f[st + (k - st)] = g[st + (k - st)]
      BY <1>3, <3>1
    <3>. QED
      BY <3>1, <3>2
  <2>. QED
    BY <2>1, <2>2
<1> HIDE DEF D
<1>5. f = g
  BY <1>2, <1>4, SameFunction
<1>. QED
  BY <1>5 DEF g

(* The blocks of the prepared message.                                     *)
LEMMA PreparedBlocks ==
  ASSUME BM!Radix = ByteValues, BM!WidthsFit, BM!ReductionFits, IsPermutation,
         NEW y \in Seq(Byte), NEW i \in 1 .. CmacCount(y)
  PROVE  /\ Semiblocks(Prepared(y))[i] \in Semi
         /\ i = CmacCount(y) => Semiblocks(Prepared(y))[i] = MaskedLast(y)
         /\ i # CmacCount(y) =>
              /\ i * SemiblockSize <= Len(y)
              /\ \A k \in 1 .. SemiblockSize :
                   Semiblocks(Prepared(y))[i][k] = y[(i - 1) * SemiblockSize + k]
<1> DEFINE S == SemiblockSize
           m == CmacCount(y)
           st == CmacStart(y)
           M == MaskedLast(y)
           f == Prepared(y)
           p == Semiblocks(f)[i]
<1>1. S \in Nat \ {0} /\ m \in Nat \ {0} /\ st \in Nat /\ st = (m - 1) * S /\ st <= Len(y) /\ Len(y) \in Nat
  BY CmacSizes, Sizes DEF CmacStart
<1>2. f \in Octets(m) /\ \A k \in 1 .. st : f[k] = y[k]
  BY PreparedIs
<1>3. \A k \in 1 .. S : f[st + k] = M[k]
  BY PreparedIs
<1>4. p \in Semi /\ \A k \in 1 .. S : p[k] = f[(i - 1) * S + k]
  <2> DEFINE q == Semiblocks(f)
  <2>1. m \in Nat /\ f \in [1 .. m * SemiblockSize -> Byte]
    BY <1>1, <1>2 DEF Octets
  <2>2. q \in Semis(m) /\ \A j \in 1 .. m, k \in 1 .. S : q[j][k] = f[(j - 1) * S + k]
    <3> HIDE DEF f, m
    <3>. QED
      BY <2>1, SemiblocksOf
  <2> HIDE DEF q, S, m, f
  <2>3. q[i] \in Semi
    BY <2>2 DEF Semis, m
  <2>4. \A k \in 1 .. S : q[i][k] = f[(i - 1) * S + k]
    BY <2>2 DEF m
  <2>. QED
    BY <2>3, <2>4 DEF q
<1>5. M \in Semi
  BY MaskedIs
<1> HIDE DEF S, m, st, M, f, p
<1>6. CASE i = m
  <2>1. \A k \in 1 .. S : p[k] = M[k]
    BY <1>1, <1>3, <1>4, <1>6
  <2> DEFINE D == 1 .. S
  <2>2. p \in [D -> Byte] /\ M \in [D -> Byte] /\ \A k \in D : p[k] = M[k]
    BY <1>4, <1>5, <2>1 DEF Semi, S
  <2> HIDE DEF D
  <2>3. p = M
    BY <2>2, SameFunction
  <2>. QED
    BY <1>4, <1>6, <2>3 DEF m, M, f, p
<1>7. CASE i # m
  <2>1. i \in Nat \ {0} /\ i <= m - 1
    BY <1>1, <1>7 DEF m
  <2> DEFINE u == (i - 1) * S
  <2>2. u \in Nat /\ u + S = i * S /\ i * S <= (m - 1) * S
    BY <1>1, <2>1
  <2> HIDE DEF u
  <2>3. u + S <= st
    BY <1>1, <2>2
  <2>4. i * S <= Len(y)
    BY <1>1, <2>2, <2>3
  <2>5. \A k \in 1 .. S : p[k] = y[u + k]
    <3> TAKE k \in 1 .. S
    <3>1. u + k \in 1 .. st
      BY <1>1, <2>2, <2>3
    <3>2. p[k] = f[u + k]
      BY <1>4 DEF u
    <3>. QED
      BY <1>2, <3>1, <3>2
  <2>. QED
    BY <1>4, <1>7, <2>4, <2>5, Zenon DEF m, S, p, f, u
<1>. QED
  BY <1>6, <1>7

CmacTag(y) == BM!CbcChain(BM!ZeroBlock, Prepared(y))[CmacCount(y)]

(* Two chains over the same blocks are the same.                           *)
LEMMA ChainsAgree ==
  ASSUME NEW m \in Nat, NEW v, NEW p, NEW c, IsChain(c, v, p, m), NEW d, d[0] = v,
         \A i \in 1 .. m : d[i] = BlockCipher[XorSemi(p[i], d[i - 1])]
  PROVE  d[m] = c[m]
<1> DEFINE G == {i \in 0 .. m : d[i] = c[i]}
<1>1. 0 \in G
  BY DEF IsChain
<1>2. ASSUME NEW i \in 1 .. m, i - 1 \in G PROVE i \in G
  <2>1. d[i - 1] = c[i - 1] /\ i \in 0 .. m
    BY <1>2
  <2>2. c[i] = BlockCipher[XorSemi(p[i], c[i - 1])]
    BY DEF IsChain
  <2>. QED
    BY <2>1, <2>2
<1>3. \A i \in 0 .. m : i \in G
  <2> HIDE DEF G
  <2>. QED
    BY <1>1, <1>2, UpTo
<1>. QED
  BY <1>3

(* What cmac_with chains are these blocks.                                 *)
CmacAvailable(y, i) ==
  IF i * SemiblockSize <= Len(y) THEN SemiblockSize ELSE Len(y) - (i - 1) * SemiblockSize
CmacFilled(y, i) ==
  [k \in 1 .. SemiblockSize |->
     IF k <= CmacAvailable(y, i) THEN y[(i - 1) * SemiblockSize + k]
     ELSE IF k = CmacAvailable(y, i) + 1 /\ i = CmacCount(y) /\ ~BM!Complete(y) THEN BM!Mark ELSE 0]
CmacMasked(y, i) ==
  IF i = CmacCount(y) THEN BM!XorBytes(CmacFilled(y, i), BM!CmacLastSubkey(y)) ELSE CmacFilled(y, i)

LEMMA FilledIs ==
  ASSUME NEW y \in Seq(Byte), NEW i \in 1 .. CmacCount(y)
  PROVE  /\ i = CmacCount(y) => CmacFilled(y, i) = FilledLast(y)
         /\ i # CmacCount(y) /\ i * SemiblockSize <= Len(y) =>
              CmacFilled(y, i) = [k \in 1 .. SemiblockSize |-> y[(i - 1) * SemiblockSize + k]]
<1> DEFINE S == SemiblockSize
           m == CmacCount(y)
           st == CmacStart(y)
           t == CmacRest(y)
           av == CmacAvailable(y, i)
<1>1. /\ S \in Nat \ {0} /\ m \in Nat \ {0} /\ st \in Nat /\ st = (m - 1) * S /\ t \in 0 .. S
      /\ st + t = Len(y) /\ m * S = st + S /\ (BM!Complete(y) <=> t = S) /\ Len(y) \in Nat
  BY CmacSizes, Sizes DEF CmacStart
<1>2. CmacFilled(y, i) = [k \in 1 .. S |->
        IF k <= av THEN y[(i - 1) * S + k]
        ELSE IF k = av + 1 /\ i = m /\ ~BM!Complete(y) THEN BM!Mark ELSE 0]
  BY Zenon DEF CmacFilled
<1>3. av = IF i * S <= Len(y) THEN S ELSE Len(y) - (i - 1) * S
  BY Zenon DEF CmacAvailable
<1>4. FilledLast(y) = [k \in 1 .. S |->
        IF k <= t THEN y[st + k] ELSE IF k = t + 1 THEN BM!Mark ELSE 0]
  BY Zenon DEF FilledLast
<1> HIDE DEF S, m, st, t, av
<1>5. CASE i = m
  <2>1. (i - 1) * S = st /\ i * S = st + S
    BY <1>1, <1>5
  <2>2. av = t
    BY <1>1, <1>3, <2>1
  <2>3. ASSUME NEW k \in 1 .. S
        PROVE  (IF k <= av THEN y[(i - 1) * S + k]
                ELSE IF k = av + 1 /\ i = m /\ ~BM!Complete(y) THEN BM!Mark ELSE 0)
               = (IF k <= t THEN y[st + k] ELSE IF k = t + 1 THEN BM!Mark ELSE 0)
    <3>1. CASE k <= t
      BY <2>1, <2>2, <3>1
    <3>2. CASE ~(k <= t)
      <4>1. ~BM!Complete(y)
        BY <1>1, <3>2
      <4>. QED
        BY <1>5, <2>2, <3>2, <4>1
    <3>. QED
      BY <3>1, <3>2
  <2>. QED
    BY <1>2, <1>4, <1>5, <2>3 DEF m
<1>6. CASE i # m /\ i * S <= Len(y)
  <2>1. av = S
    BY <1>3, <1>6
  <2>2. \A k \in 1 .. S : k <= av
    BY <1>1, <2>1
  <2>. QED
    BY <1>2, <1>6, <2>2 DEF m, S
<1>. QED
  BY <1>5, <1>6 DEF m, S

LEMMA MaskedBlocks ==
  ASSUME BM!Radix = ByteValues, BM!WidthsFit, BM!ReductionFits, IsPermutation,
         NEW y \in Seq(Byte), NEW i \in 1 .. CmacCount(y)
  PROVE  CmacMasked(y, i) = Semiblocks(Prepared(y))[i] /\ CmacMasked(y, i) \in Semi
<1> DEFINE p == Semiblocks(Prepared(y))[i]
<1>1. p \in Semi
  BY PreparedBlocks
<1>2. CASE i = CmacCount(y)
  <2>1. CmacFilled(y, i) = FilledLast(y) /\ FilledLast(y) \in Semi
    BY <1>2, FilledIs, LastBlockIs
  <2>2. BM!XorBytes(FilledLast(y), BM!CmacLastSubkey(y)) = MaskedLast(y)
    BY <2>1, ModeXor DEF MaskedLast
  <2>3. CmacMasked(y, i) = MaskedLast(y)
    BY <1>2, <2>1, <2>2 DEF CmacMasked
  <2>4. p = MaskedLast(y)
    BY <1>2, PreparedBlocks
  <2>. QED
    BY <1>1, <2>3, <2>4
<1>3. CASE i # CmacCount(y)
  <2> DEFINE D == 1 .. SemiblockSize
             g == [k \in D |-> y[(i - 1) * SemiblockSize + k]]
  <2>1. i * SemiblockSize <= Len(y) /\ \A k \in D : p[k] = y[(i - 1) * SemiblockSize + k]
    BY <1>3, PreparedBlocks
  <2>2. CmacMasked(y, i) = g
    BY <1>3, <2>1, FilledIs DEF CmacMasked
  <2>3. p \in [D -> Byte]
    BY <1>1 DEF Semi
  <2> HIDE DEF D, p
  <2>4. p = g
    BY <2>1, <2>3
  <2>. QED
    BY <1>1, <2>2, <2>4 DEF p
<1>. QED
  BY <1>2, <1>3

LEMMA CmacWithIs ==
  ASSUME BM!Radix = ByteValues, BM!WidthsFit, BM!ReductionFits, IsPermutation,
         NEW y \in Seq(Byte)
  PROVE  BM!CmacWith(y) = BM!Answered(CmacCount(y) + 1, CmacTag(y))
<1> DEFINE m == CmacCount(y)
           v == BM!ZeroBlock
           p == Semiblocks(Prepared(y))
           c == BM!CbcChain(v, Prepared(y))
           Loop(f) == f = [i \in 0 .. m |->
                             IF i = 0 THEN v
                             ELSE BlockCipher[BM!XorBytes(CmacMasked(y, i), f[i - 1])]]
           d == CHOOSE f : Loop(f)
<1>1. m \in Nat /\ Prepared(y) \in Octets(m) /\ v \in Semi
  BY CmacSizes, PreparedIs, ZeroIsSemi
<1>2. IsChain(c, v, p, m)
  BY <1>1, ChainIs
<1>3. BM!CmacWith(y) = BM!Answered(m + 1, d[m])
  BY Zenon DEF BM!CmacWith, CmacCount, CmacMasked, CmacFilled, CmacAvailable
<1>4. \A i \in 1 .. m : CmacMasked(y, i) = p[i] /\ p[i] \in Semi
  BY MaskedBlocks
<1>5. \A i \in 1 .. m : \A x : BM!XorBytes(CmacMasked(y, i), x) = XorSemi(p[i], x)
  BY <1>4, ModeXor
<1> HIDE DEF m, v, p, c
<1>6. Loop(c)
  <2>1. c = [i \in 0 .. m |-> c[i]]
    BY <1>2 DEF IsChain
  <2>2. \A i \in 0 .. m : c[i] = IF i = 0 THEN v
                                 ELSE BlockCipher[BM!XorBytes(CmacMasked(y, i), c[i - 1])]
    <3> TAKE i \in 0 .. m
    <3>1. i = 0 \/ i \in 1 .. m
      BY <1>1
    <3>. QED
      BY <1>2, <1>5, <3>1 DEF IsChain
  <2>. QED
    BY <2>1, <2>2, Zenon
<1>7. Loop(d)
  <2> HIDE DEF Loop
  <2>. QED
    BY <1>6
<1> HIDE DEF d
<1>8. d[0] = v /\ \A i \in 1 .. m : d[i] = BlockCipher[XorSemi(p[i], d[i - 1])]
  <2>1. 0 \in 0 .. m /\ \A i \in 1 .. m : i \in 0 .. m /\ i # 0
    BY <1>1
  <2>2. d[0] = v
    BY <1>7, <2>1
  <2>3. \A i \in 1 .. m : d[i] = BlockCipher[BM!XorBytes(CmacMasked(y, i), d[i - 1])]
    BY <1>7, <2>1
  <2>. QED
    BY <1>5, <2>2, <2>3, Zenon
<1>9. d[m] = c[m]
  BY <1>1, <1>2, <1>8, ChainsAgree
<1>. QED
  BY <1>3, <1>9 DEF CmacTag, m, c, v

LEMMA CmacWithCbcIs ==
  ASSUME BM!Radix = ByteValues, BM!WidthsFit, BM!ReductionFits, IsPermutation,
         NEW y \in Seq(Byte)
  PROVE  BM!CmacWithCbc(y) = BM!Answered(2, CmacTag(y))
<1> DEFINE S == SemiblockSize
           m == CmacCount(y)
           st == CmacStart(y)
           t == CmacRest(y)
           K == BM!CmacLastSubkey(y)
           L == IF BM!Complete(y) THEN Len(y) ELSE Len(y) + S - (Len(y) % S)
           padded == [k \in 1 .. L |->
                        IF k <= Len(y) THEN y[k] ELSE IF k = Len(y) + 1 THEN BM!Mark ELSE 0]
           f == [k \in 1 .. L |-> IF k > L - S THEN Xor[<<padded[k], K[k - (L - S)]>>] ELSE padded[k]]
<1>1. /\ S \in Nat \ {0} /\ m \in Nat \ {0} /\ st \in Nat /\ t \in 0 .. S
      /\ st + t = Len(y) /\ m * S = st + S /\ Len(y) \in Nat
  BY CmacSizes, Sizes
<1>2. (BM!Complete(y) <=> t = S) /\ (~BM!Complete(y) => Len(y) % S = t)
  BY CmacSizes
<1>3. BM!CmacWithCbc(y) = BM!Answered(2, BM!CbcChain(BM!ZeroBlock, f)[L \div S])
  BY Zenon DEF BM!CmacWithCbc
<1>4. FilledLast(y) = [k \in 1 .. S |->
        IF k <= t THEN y[st + k] ELSE IF k = t + 1 THEN BM!Mark ELSE 0]
  BY Zenon DEF FilledLast
<1>5. MaskedLast(y) = [k \in 1 .. S |-> Xor[<<FilledLast(y)[k], K[k]>>]]
  BY Zenon DEF MaskedLast, XorSemi
<1>6. MaskedLast(y) \in Semi /\ \A k \in 1 .. st : y[k] \in Byte
  BY MaskedIs, PreparedIs
<1>7. L = st + S
  <2> HIDE DEF S, st, t
  <2>. QED
    BY <1>1, <1>2
<1>8. L \div S = m
  <2> HIDE DEF S, st, m, L
  <2>1. m * S + 0 = L /\ 0 \in 0 .. S - 1 /\ m \in Nat
    BY <1>1, <1>7
  <2>2. (m * S + 0) \div S = m
    BY <1>1, <2>1, OneMoreDigit
  <2>. QED
    BY <2>1, <2>2
<1> HIDE DEF S, m, st, t, K, L
<1>9. \A k \in 1 .. S : padded[st + k] = FilledLast(y)[k]
  <2> TAKE k \in 1 .. S
  <2>1. st + k \in 1 .. L /\ (st + k <= Len(y) <=> k <= t) /\ (st + k = Len(y) + 1 <=> k = t + 1)
    BY <1>1, <1>7
  <2>2. padded[st + k] = IF st + k <= Len(y) THEN y[st + k]
                         ELSE IF st + k = Len(y) + 1 THEN BM!Mark ELSE 0
    BY <2>1
  <2>3. FilledLast(y)[k] = IF k <= t THEN y[st + k] ELSE IF k = t + 1 THEN BM!Mark ELSE 0
    BY <1>4
  <2>. QED
    BY <2>1, <2>2, <2>3, Zenon
<1>10. \A k \in 1 .. st : padded[k] = y[k]
  <2> TAKE k \in 1 .. st
  <2>1. k \in 1 .. L /\ k <= Len(y)
    BY <1>1, <1>7
  <2>. QED
    BY <2>1
<1> HIDE DEF padded
<1>11. \A k \in 1 .. st : f[k] = y[k]
  <2> TAKE k \in 1 .. st
  <2>1. k \in 1 .. L /\ ~(k > L - S)
    BY <1>1, <1>7
  <2>2. f[k] = padded[k]
    BY <2>1
  <2>. QED
    BY <1>10, <2>2
<1>12. \A k \in 1 .. S : f[st + k] = MaskedLast(y)[k]
  <2> TAKE k \in 1 .. S
  <2>1. st + k \in 1 .. L /\ st + k > L - S /\ (st + k) - (L - S) = k
    BY <1>1, <1>7
  <2>2. f[st + k] = Xor[<<padded[st + k], K[k]>>]
    BY <2>1
  <2>3. MaskedLast(y)[k] = Xor[<<FilledLast(y)[k], K[k]>>]
    BY <1>5
  <2>. QED
    BY <1>9, <2>2, <2>3
<1>13. f = [k \in 1 .. L |-> f[k]]
  OBVIOUS
<1> HIDE DEF f
<1>14. f \in [1 .. m * S -> Byte]
  <2>1. \A k \in 1 .. S : MaskedLast(y)[k] \in Byte
    BY <1>6 DEF Semi, S
  <2>2. ASSUME NEW k \in 1 .. L PROVE f[k] \in Byte
    <3>1. CASE k <= st
      <4>1. k \in 1 .. st
        BY <1>1, <1>7, <3>1
      <4>. QED
        BY <1>6, <1>11, <4>1
    <3>2. CASE ~(k <= st)
      <4>1. k - st \in 1 .. S /\ st + (k - st) = k
        BY <1>1, <1>7, <3>2
      <4>2. f[st + (k - st)] = MaskedLast(y)[k - st]
        BY <1>12, <4>1
      <4>. QED
        BY <2>1, <4>1, <4>2
    <3>. QED
      BY <3>1, <3>2
  <2>. QED
    BY <1>1, <1>7, <1>13, <2>2
<1>15. f = Prepared(y)
  BY <1>11, <1>12, <1>14, IsPrepared DEF Octets, m, S, st
<1>. QED
  BY <1>3, <1>8, <1>15 DEF CmacTag, m

(* The tag of SP 800-38B is that of the prepared message.                  *)
LEMMA StandardIs ==
  ASSUME BM!Radix = ByteValues, BM!WidthsFit, BM!ReductionFits, IsPermutation,
         NEW y \in Seq(Byte)
  PROVE  LET count == IF y = << >> THEN 1 ELSE BM!BlockCount(y)
             tail == SubSeq(y, (count - 1) * SemiblockSize + 1, Len(y))
             last == IF Len(tail) = SemiblockSize THEN BM!XorBytes(tail, Subkey1)
                     ELSE BM!XorBytes(BM!PadIso7816(tail), Subkey2)
             msg == SubSeq(y, 1, (count - 1) * SemiblockSize) \o last
         IN  CmacTag(y) = BM!CbcChain(BM!ZeroBlock, msg)[count]
<1> DEFINE S == SemiblockSize
           m == CmacCount(y)
           st == CmacStart(y)
           t == CmacRest(y)
           count == IF y = << >> THEN 1 ELSE BM!BlockCount(y)
           front == SubSeq(y, 1, st)
           tail == SubSeq(y, st + 1, Len(y))
           last == IF Len(tail) = S THEN BM!XorBytes(tail, Subkey1)
                   ELSE BM!XorBytes(BM!PadIso7816(tail), Subkey2)
           msg == front \o last
<1>1. /\ S \in Nat \ {0} /\ m \in Nat \ {0} /\ st \in Nat /\ t \in 0 .. S
      /\ st + t = Len(y) /\ m * S = st + S /\ Len(y) \in Nat /\ st = (m - 1) * S
  BY CmacSizes, Sizes DEF CmacStart
<1>2. (BM!Complete(y) <=> t = S) /\ count = m
  <2>1. y = << >> <=> Len(y) = 0
    OBVIOUS
  <2>. QED
    BY <2>1, CmacSizes DEF CmacCount
<1>3. /\ front \in Seq(Byte) /\ tail \in Seq(Byte) /\ Len(front) = st /\ Len(tail) = t
      /\ \A k \in 1 .. st : front[k] = y[k]
      /\ \A k \in 1 .. t : tail[k] = y[st + k]
  <2> HIDE DEF st, t, S, m
  <2>1. st \in 0 .. Len(y) /\ Len(y) - st = t
    BY <1>1
  <2>2. front \in Seq(Byte) /\ tail \in Seq(Byte) /\ IsCut(y, st, front, tail)
    BY <2>1, SeqIsCut
  <2>3. Len(front) = st /\ Len(tail) = t /\ y = front \o tail
    BY <2>1, <2>2 DEF IsCut
  <2> HIDE DEF front, tail
  <2>4. \A k \in 1 .. st + t : (front \o tail)[k] = IF k <= st THEN front[k] ELSE tail[k - st]
    BY <2>2, <2>3, ConcatProperties
  <2>5. \A k \in 1 .. st : front[k] = y[k]
    <3> TAKE k \in 1 .. st
    <3>1. k \in 1 .. st + t /\ k <= st
      BY <1>1
    <3>. QED
      BY <2>3, <2>4, <3>1
  <2>6. \A k \in 1 .. t : tail[k] = y[st + k]
    <3> TAKE k \in 1 .. t
    <3>1. st + k \in 1 .. st + t /\ ~(st + k <= st) /\ (st + k) - st = k
      BY <1>1
    <3>. QED
      BY <2>3, <2>4, <3>1
  <2>. QED
    BY <2>2, <2>3, <2>5, <2>6
<1>4. FilledLast(y) = [k \in 1 .. S |->
        IF k <= t THEN y[st + k] ELSE IF k = t + 1 THEN BM!Mark ELSE 0]
  BY Zenon DEF FilledLast
<1>5. FilledLast(y) \in Semi /\ MaskedLast(y) \in Semi
  BY LastBlockIs, MaskedIs
<1>6. /\ BM!CmacLastSubkey(y) = IF BM!Complete(y) THEN Subkey1 ELSE Subkey2
      /\ MaskedLast(y) = XorSemi(FilledLast(y), BM!CmacLastSubkey(y))
  BY SubkeyIs DEF MaskedLast
<1>7. last = MaskedLast(y)
  <2> HIDE DEF S, st, t, m, front, tail
  <2>1. CASE t = S
    <3>1. tail = FilledLast(y)
      <4>1. tail = [k \in 1 .. t |-> tail[k]]
        BY <1>3
      <4>2. \A k \in 1 .. t : tail[k] = FilledLast(y)[k]
        BY <1>3, <1>4, <2>1
      <4>3. FilledLast(y) = [k \in 1 .. t |-> FilledLast(y)[k]]
        BY <1>4, <2>1
      <4> HIDE DEF FilledLast
      <4>. QED
        BY <4>1, <4>2, <4>3
    <3>2. last = XorSemi(FilledLast(y), Subkey1)
      BY <1>3, <1>5, <2>1, <3>1, ModeXor
    <3>. QED
      BY <1>2, <1>6, <2>1, <3>2
  <2>2. CASE t # S
    <3> DEFINE padded == BM!PadIso7816(tail)
    <3>1. BM!CeilDiv(t + 1, S) * S = S
      <4>1. t + 1 \in 1 .. S
        BY <1>1, <2>2
      <4>2. ((t + 1) + (S - 1)) \div S = 1
        <5>1. (t + 1) + (S - 1) = 1 * S + t /\ t \in 0 .. S - 1 /\ 1 \in Nat
          BY <1>1, <4>1
        <5>2. (1 * S + t) \div S = 1
          BY <1>1, <5>1, OneMoreDigit
        <5>. QED
          BY <5>1, <5>2
      <4>3. BM!CeilDiv(t + 1, S) = 1
        <5>1. BM!CeilDiv(t + 1, S) = ((t + 1) + (S - 1)) \div S
          BY DEF BM!CeilDiv
        <5>. QED
          BY <4>2, <5>1
      <4>. QED
        BY <1>1, <4>3
    <3>2. padded = [k \in 1 .. S |->
            IF k <= t THEN tail[k] ELSE IF k = t + 1 THEN BM!Mark ELSE 0]
      BY <1>3, <3>1 DEF BM!PadIso7816, S
    <3>3. padded = FilledLast(y)
      <4>1. ASSUME NEW k \in 1 .. S
            PROVE  (IF k <= t THEN tail[k] ELSE IF k = t + 1 THEN BM!Mark ELSE 0)
                   = (IF k <= t THEN y[st + k] ELSE IF k = t + 1 THEN BM!Mark ELSE 0)
        <5>1. k <= t => tail[k] = y[st + k]
          BY <1>1, <1>3
        <5>. QED
          BY <5>1
      <4>. QED
        BY <1>4, <3>2, <4>1
    <3>4. last = XorSemi(FilledLast(y), Subkey2)
      BY <1>3, <1>5, <2>2, <3>3, ModeXor
    <3>. QED
      BY <1>2, <1>6, <2>2, <3>4
  <2>. QED
    BY <2>1, <2>2
<1>8. msg = Prepared(y)
  <2> DEFINE M == MaskedLast(y)
  <2> HIDE DEF S, st, t, front, tail, last
  <2>1. front \in [1 .. st -> Byte] /\ M \in [1 .. S -> Byte] /\ S \in Nat /\ st \in Nat
    BY <1>1, <1>3, <1>5 DEF Semi, S
  <2> HIDE DEF M
  <2>2. IsJoin(front \o M, st, S, front, M)
    BY <2>1, Joined
  <2>3. msg = front \o M
    BY <1>7 DEF M
  <2> HIDE DEF msg
  <2>4. msg \in [1 .. st + S -> Byte]
    BY <2>2, <2>3 DEF IsJoin
  <2>5. \A k \in 1 .. st : msg[k] = y[k]
    BY <1>3, <2>2, <2>3 DEF IsJoin
  <2>6. \A k \in 1 .. S : msg[st + k] = M[k]
    BY <2>2, <2>3 DEF IsJoin
  <2>7. msg \in Octets(m)
    BY <1>1, <2>4 DEF Octets, S
  <2>. QED
    BY <2>5, <2>6, <2>7, IsPrepared DEF M, S, st
<1>9. CmacTag(y) = BM!CbcChain(BM!ZeroBlock, msg)[count]
  BY <1>2, <1>8, Zenon DEF CmacTag
<1>. QED
  BY <1>1, <1>2, <1>9, Zenon

(* What is known of a CMAC call, and of one that has returned.             *)
CmacNames == {"cmac_with", "cmac_with_cbc", "aes_cmac"}
CmacInv ==
  operation \in CmacNames =>
    /\ data \in Seq(Byte)
    /\ pc = "done" => result = BM!Call(operation, data, block, parameter)

LEMMA CmacCalls ==
  ASSUME NEW y, NEW b, NEW p
  PROVE  /\ BM!Call("cmac_with", y, b, p) = BM!CmacWith(y)
         /\ BM!Call("cmac_with_cbc", y, b, p) = BM!CmacWithCbc(y)
         /\ BM!Call("aes_cmac", y, b, p) = IF p \in KeyLengths THEN BM!CmacWith(y) ELSE BM!Err
  BY DEF BM!Call, BM!AesCmac

LEMMA CmacInvInit ==
  ASSUME BM!Radix = ByteValues, BM!WidthsFit, BM!Init PROVE CmacInv
<1> SUFFICES ASSUME operation \in CmacNames PROVE data \in Seq(Byte) /\ pc # "done"
  BY DEF CmacInv
<1>1. pc # "done"
  BY DEF BM!Init
<1>2. operation # "ctr"
  BY DEF CmacNames
<1>3. data \in BM!Data
  BY <1>2, Zenon DEF BM!Init
<1>. QED
  BY <1>1, <1>3, DataIs

LEMMA CmacStays ==
  ASSUME calls' = calls, NEW op \in CmacNames, NEW y, NEW b, NEW p
  PROVE  BM!Call(op, y, b, p)' = BM!Call(op, y, b, p)
<1>1. BM!CmacWith(y)' = BM!CmacWith(y)
  <2> DEFINE Loop(f) == f = [i \in 0 .. CmacCount(y) |->
                               IF i = 0 THEN BM!ZeroBlock
                               ELSE BlockCipher[BM!XorBytes(CmacMasked(y, i), f[i - 1])]]
             d == CHOOSE f : Loop(f)
  <2>1. BM!CmacWith(y) = IF CmacCount(y) + 1 <= calls THEN BM!Ok(d[CmacCount(y)]) ELSE BM!Err
    BY Zenon DEF BM!CmacWith, BM!Answered, CmacCount, CmacMasked, CmacFilled, CmacAvailable
  <2>2. BM!CmacWith(y)' = IF CmacCount(y) + 1 <= calls' THEN BM!Ok(d[CmacCount(y)]) ELSE BM!Err
    BY Zenon DEF BM!CmacWith, BM!Answered, CmacCount, CmacMasked, CmacFilled, CmacAvailable
  <2>. QED
    BY <2>1, <2>2, Zenon
<1>2. BM!CmacWithCbc(y)' = BM!CmacWithCbc(y)
  BY Zenon DEF BM!CmacWithCbc, BM!Answered
<1>. QED
  BY <1>1, <1>2 DEF CmacNames, BM!Call, BM!AesCmac

LEMMA CmacInvNext == CmacInv /\ [BM!Next]_BM!vars => CmacInv'
<1> SUFFICES ASSUME CmacInv, [BM!Next]_BM!vars, operation' \in CmacNames
             PROVE  /\ data' \in Seq(Byte)
                    /\ pc' = "done" => result' = BM!Call(operation, data, block, parameter)'
  BY DEF CmacInv
<1>1. UNCHANGED <<operation, data, block, parameter, calls>>
  BY DEF BM!Next, BM!Run, BM!vars
<1>2. operation \in CmacNames /\ data' \in Seq(Byte)
  BY <1>1 DEF CmacInv
<1>3. BM!Call(operation, data, block, parameter)' = BM!Call(operation, data, block, parameter)
  <2>1. \A op \in CmacNames : \A y, b, p : BM!Call(op, y, b, p)' = BM!Call(op, y, b, p)
    BY <1>1, CmacStays
  <2>. QED
    BY <1>1, <1>2, <2>1
<1>4. CASE BM!Run
  BY <1>2, <1>3, <1>4 DEF BM!Run
<1>5. CASE UNCHANGED BM!vars
  BY <1>2, <1>3, <1>5 DEF CmacInv, BM!vars
<1>. QED
  BY <1>4, <1>5 DEF BM!Next

LEMMA CmacInvImplies ==
  ASSUME BM!Radix = ByteValues, BM!WidthsFit, BM!CipherIsPermutation, BM!ReductionFits, CmacInv
  PROVE  BM!CmacIsStandard
<1> SUFFICES ASSUME BM!Returned("cmac_with") \/ BM!Returned("cmac_with_cbc")
                    \/ BM!Returned("aes_cmac")
             PROVE
               LET k1 == BM!DoubleNumber(BM!Number(BlockCipher[BM!ZeroBlock]))
                   k2 == BM!DoubleNumber(BM!Number(k1))
                   count == IF data = << >> THEN 1 ELSE BM!BlockCount(data)
                   tail == SubSeq(data, (count - 1) * SemiblockSize + 1, Len(data))
                   last == IF Len(tail) = SemiblockSize THEN BM!XorBytes(tail, k1)
                           ELSE BM!XorBytes(BM!PadIso7816(tail), k2)
                   msg == SubSeq(data, 1, (count - 1) * SemiblockSize) \o last
               IN  result.bytes = BM!CbcChain(BM!ZeroBlock, msg)[count]
  BY Zenon DEF BM!CmacIsStandard
<1>1. /\ operation \in CmacNames /\ data \in Seq(Byte) /\ result.ok
      /\ result = BM!Call(operation, data, block, parameter)
  BY DEF BM!Returned, CmacInv, CmacNames
<1>2. IsPermutation
  BY PermutationIs
<1>3. result.bytes = CmacTag(data)
  <2>1. BM!CmacWith(data) = BM!Answered(CmacCount(data) + 1, CmacTag(data))
    BY <1>1, <1>2, CmacWithIs
  <2>2. BM!CmacWithCbc(data) = BM!Answered(2, CmacTag(data))
    BY <1>1, <1>2, CmacWithCbcIs
  <2>3. \A needed : BM!Answered(needed, CmacTag(data)).ok =>
                      BM!Answered(needed, CmacTag(data)).bytes = CmacTag(data)
    BY ModeAnswer
  <2>4. ~BM!Err.ok
    BY ModeAnswer
  <2>5. \/ result = BM!CmacWith(data) \/ result = BM!CmacWithCbc(data) \/ result = BM!Err
    BY <1>1, CmacCalls DEF CmacNames
  <2>. QED
    BY <1>1, <2>1, <2>2, <2>3, <2>4, <2>5, Zenon
<1>. QED
  BY <1>1, <1>2, <1>3, StandardIs, Zenon DEF Subkey1, Subkey2

(* For any widths, any block size, reduction constant and permutation of   *)
(* the blocks, and messages of any length: cmac_with, cmac_with_cbc and    *)
(* aes_cmac return no other tag than that of SP 800-38B, with the subkeys  *)
(* doubled in its field; so the two constructions agree.                   *)
THEOREM CmacsAreStandard ==
  ASSUME BM!Radix = ByteValues, BM!WidthsFit, BM!CipherIsPermutation, BM!ReductionFits
  PROVE  SymmetricSpec => []CmacIsStandard
<1> DEFINE PartInv == part = "modes" => CmacInv
<1>1. SymmetricInit => PartInv
  BY CmacInvInit DEF SymmetricInit
<1>2. PartInv /\ [SymmetricNext]_symmetric => PartInv'
  BY ModesStepIs, CmacInvNext
<1>3. PartInv => CmacIsStandard
  BY CmacInvImplies DEF CmacIsStandard
<1>. QED
  BY <1>1, <1>2, <1>3, PTL DEF SymmetricSpec

-----------------------------------------------------------------------------
(* The authenticated strings can be read back.  q is in s, off places from *)
(* its start.                                                              *)
Holds(s, off, q) ==
  off \in Nat /\ off + Len(q) <= Len(s) /\ \A k \in 1 .. Len(q) : s[off + k] = q[k]

LEMMA HoldsSelf == ASSUME NEW S, NEW q \in Seq(S) PROVE Holds(q, 0, q)
  BY DEF Holds

LEMMA HoldsFront ==
  ASSUME NEW S, NEW s \in Seq(S), NEW t \in Seq(S), NEW q \in Seq(S), NEW off, Holds(s, off, q)
  PROVE  Holds(s \o t, off, q)
<1> DEFINE u == s \o t
<1>1. /\ Len(u) = Len(s) + Len(t) /\ Len(t) \in Nat /\ Len(s) \in Nat /\ Len(q) \in Nat
      /\ \A i \in 1 .. Len(s) + Len(t) : u[i] = IF i <= Len(s) THEN s[i] ELSE t[i - Len(s)]
  BY ConcatProperties, LenProperties
<1> HIDE DEF u
<1>2. off \in Nat /\ off + Len(q) <= Len(s) /\ \A k \in 1 .. Len(q) : s[off + k] = q[k]
  BY DEF Holds
<1>3. \A k \in 1 .. Len(q) : off + k \in 1 .. Len(s) + Len(t) /\ off + k <= Len(s)
  BY <1>1, <1>2
<1>4. \A k \in 1 .. Len(q) : u[off + k] = q[k]
  BY <1>1, <1>2, <1>3
<1>. QED
  BY <1>1, <1>2, <1>4 DEF Holds, u

LEMMA HoldsBack ==
  ASSUME NEW S, NEW s \in Seq(S), NEW t \in Seq(S), NEW q \in Seq(S), NEW off, Holds(t, off, q)
  PROVE  Holds(s \o t, Len(s) + off, q)
<1> DEFINE u == s \o t
           l == Len(s)
<1>1. /\ Len(u) = l + Len(t) /\ Len(t) \in Nat /\ l \in Nat /\ Len(q) \in Nat
      /\ \A i \in 1 .. l + Len(t) : u[i] = IF i <= l THEN s[i] ELSE t[i - l]
  BY ConcatProperties, LenProperties
<1> HIDE DEF u, l
<1>2. off \in Nat /\ off + Len(q) <= Len(t) /\ \A k \in 1 .. Len(q) : t[off + k] = q[k]
  BY DEF Holds
<1>3. \A k \in 1 .. Len(q) : /\ (l + off) + k \in 1 .. l + Len(t) /\ ~((l + off) + k <= l)
                             /\ ((l + off) + k) - l = off + k
  BY <1>1, <1>2
<1>4. \A k \in 1 .. Len(q) : u[(l + off) + k] = q[k]
  BY <1>1, <1>2, <1>3
<1>5. l + off \in Nat /\ (l + off) + Len(q) <= Len(u)
  BY <1>1, <1>2
<1>. QED
  BY <1>4, <1>5 DEF Holds, u, l

LEMMA HeldSlice ==
  ASSUME NEW S, NEW s \in Seq(S), NEW q \in Seq(S), NEW off, Holds(s, off, q),
         NEW from, NEW to, from = off + 1, to = off + Len(q)
  PROVE  AE!Slice(s, from, to) = q
<1>1. /\ off \in Nat /\ off + Len(q) <= Len(s) /\ Len(q) \in Nat /\ Len(s) \in Nat
      /\ \A k \in 1 .. Len(q) : s[off + k] = q[k]
  BY LenProperties DEF Holds
<1>2. AE!Slice(s, from, to) = SubSeq(s, from, to)
  BY <1>1 DEF AE!Slice
<1> DEFINE z == SubSeq(s, from, to)
<1>3. from \in Int /\ to \in Int /\ \A i \in from .. to : s[i] \in S
  <2>1. \A i \in from .. to : i \in 1 .. Len(s)
    BY <1>1
  <2>. QED
    BY <1>1, <2>1, ElementOfSeq
<1>4. /\ z \in Seq(S) /\ Len(z) = IF from <= to THEN to - from + 1 ELSE 0
      /\ \A i \in 1 .. to - from + 1 : z[i] = s[from + i - 1]
  BY <1>3, SubSeqProperties
<1> HIDE DEF z
<1>5. Len(z) = Len(q)
  BY <1>1, <1>4
<1>6. \A i \in 1 .. Len(q) : z[i] = q[i]
  <2> TAKE i \in 1 .. Len(q)
  <2>1. i \in 1 .. to - from + 1 /\ from + i - 1 = off + i
    BY <1>1
  <2>. QED
    BY <1>1, <1>4, <2>1
<1>7. z = q
  BY <1>4, <1>5, <1>6, SeqEqual
<1>. QED
  BY <1>2, <1>7 DEF z

(* The string that GHASH takes.                                            *)
LEMMA PaddedHolds ==
  ASSUME AE!WidthsFit, NEW y \in Seq(AE!Byte)
  PROVE  /\ Holds(AE!Padded(y), 0, y) /\ AE!Padded(y) \in Seq(AE!Byte)
         /\ Len(AE!Padded(y)) = AE!CeilDiv(Len(y), CipherBlock) * CipherBlock
<1> DEFINE zeros == AE!Zeros(AE!BlockCount(y) * CipherBlock - Len(y))
<1>1. /\ zeros \in Seq(AE!Byte) /\ AE!Padded(y) = y \o zeros /\ AE!Padded(y) \in Seq(AE!Byte)
      /\ Len(AE!Padded(y)) = AE!BlockCount(y) * CipherBlock
  BY PaddedIs
<1> HIDE DEF zeros
<1>2. Holds(y \o zeros, 0, y)
  BY <1>1, HoldsSelf, HoldsFront
<1>. QED
  BY <1>1, <1>2 DEF AE!BlockCount

LEMMA BitsAreRead ==
  ASSUME AE!WidthsFit, NEW size \in Nat, AE!GhashTakes(size)
  PROVE  /\ AE!ToBytes(AeadWidth * size, CipherBlock \div 2) \in Seq(AE!Byte)
         /\ Len(AE!ToBytes(AeadWidth * size, CipherBlock \div 2)) = CipherBlock \div 2
         /\ AE!Number(AE!ToBytes(AeadWidth * size, CipherBlock \div 2)) \div AeadWidth = size
<1> DEFINE half == CipherBlock \div 2
           bits == AeadWidth * size
           P == TwoTo[AeadWidth * half]
<1>1. half \in Nat /\ bits \in Nat /\ AeadWidth \in Nat \ {0}
  BY AeadRadix DEF AE!WidthsFit
<1>2. bits < P
  BY AeadPowers DEF AE!GhashTakes
<1> HIDE DEF half, bits
<1>3. AE!ToBytes(bits, half) \in Seq(AE!Byte) /\ Len(AE!ToBytes(bits, half)) = half
  BY <1>1, AeadOctets
<1>4. P \in Nat \ {0}
  BY <1>1, PowerOfDigits
<1>5. AE!Number(AE!ToBytes(bits, half)) = bits % P
  BY <1>1, AeadNumberIs
<1> HIDE DEF P
<1>6. bits % P = bits
  BY <1>1, <1>2, <1>4
<1>7. bits \div AeadWidth = size
  BY <1>1 DEF bits
<1>. QED
  BY <1>3, <1>5, <1>6, <1>7 DEF half, bits

LEMMA GhashInputIsRead ==
  ASSUME AE!WidthsFit, AE!FlagsFit, NEW aad \in Seq(AE!Byte), NEW y \in Seq(AE!Byte),
         AE!GhashTakes(Len(aad)), AE!GhashTakes(Len(y))
  PROVE  AE!GcmFields(AE!GhashInput(aad, y)) = [aad |-> aad, ciphertext |-> y]
<1> DEFINE half == CipherBlock \div 2
           s == AE!ToBytes(AeadWidth * Len(aad), half)
           t == AE!ToBytes(AeadWidth * Len(y), half)
           x == AE!Padded(aad)
           z == AE!Padded(y)
           front == x \o z
           most == front \o s
           all == most \o t
           B == AE!Byte
<1>1. Len(aad) \in Nat /\ Len(y) \in Nat /\ half \in Nat /\ half + half = CipherBlock
  BY LenProperties DEF AE!WidthsFit, AE!FlagsFit
<1>2. /\ s \in Seq(B) /\ Len(s) = half /\ AE!Number(s) \div AeadWidth = Len(aad)
      /\ t \in Seq(B) /\ Len(t) = half /\ AE!Number(t) \div AeadWidth = Len(y)
  BY <1>1, BitsAreRead
<1>3. /\ Holds(x, 0, aad) /\ x \in Seq(B) /\ Len(x) = AE!CeilDiv(Len(aad), CipherBlock) * CipherBlock
      /\ Holds(z, 0, y) /\ z \in Seq(B)
  BY PaddedHolds
<1>4. AE!GhashInput(aad, y) = all
  BY Zenon DEF AE!GhashInput
<1> HIDE DEF half, s, t, x, z, B
<1>5. aad \in Seq(B) /\ y \in Seq(B)
  BY DEF B
<1>6. Len(x) \in Nat /\ Len(z) \in Nat
  BY <1>3, LenProperties
<1>7. /\ front \in Seq(B) /\ Len(front) = Len(x) + Len(z)
      /\ Holds(front, 0, aad) /\ Holds(front, Len(x), y)
  <2>1. front \in Seq(B) /\ Len(front) = Len(x) + Len(z)
    BY <1>3, ConcatProperties
  <2>2. Holds(front, 0, aad)
    BY <1>3, <1>5, HoldsFront
  <2>3. Holds(front, Len(x) + 0, y)
    BY <1>3, <1>5, HoldsBack
  <2>4. Len(x) + 0 = Len(x)
    BY <1>6
  <2>. QED
    BY <2>1, <2>2, <2>3, <2>4
<1> HIDE DEF front
<1>8. /\ most \in Seq(B) /\ Len(most) = Len(front) + half
      /\ Holds(most, 0, aad) /\ Holds(most, Len(x), y) /\ Holds(most, Len(front), s)
  <2>1. most \in Seq(B) /\ Len(most) = Len(front) + half
    <3>1. front \in Seq(B) /\ s \in Seq(B) /\ Len(s) = half
      BY <1>2, <1>7
    <3>2. most \in Seq(B) /\ Len(most) = Len(front) + Len(s)
      BY <3>1, ConcatProperties, Zenon DEF most
    <3>. QED
      BY <3>1, <3>2, Zenon
  <2>2. Holds(most, 0, aad) /\ Holds(most, Len(x), y)
    BY <1>2, <1>5, <1>7, HoldsFront
  <2>3. Holds(most, Len(front) + 0, s)
    <3>1. Holds(s, 0, s)
      BY <1>2, HoldsSelf
    <3>. QED
      BY <1>2, <1>7, <3>1, HoldsBack
  <2>4. Len(front) + 0 = Len(front)
    BY <1>6, <1>7
  <2>. QED
    BY <2>1, <2>2, <2>3, <2>4
<1> HIDE DEF most
<1>9. /\ all \in Seq(B) /\ Len(all) = Len(most) + half
      /\ Holds(all, 0, aad) /\ Holds(all, Len(x), y) /\ Holds(all, Len(front), s)
      /\ Holds(all, Len(most), t)
  <2>1. all \in Seq(B) /\ Len(all) = Len(most) + half
    <3>1. most \in Seq(B) /\ t \in Seq(B) /\ Len(t) = half
      BY <1>2, <1>8
    <3>2. all \in Seq(B) /\ Len(all) = Len(most) + Len(t)
      BY <3>1, ConcatProperties, Zenon DEF all
    <3>. QED
      BY <3>1, <3>2, Zenon
  <2>2. Holds(all, 0, aad) /\ Holds(all, Len(x), y) /\ Holds(all, Len(front), s)
    BY <1>2, <1>5, <1>8, HoldsFront
  <2>3. Holds(all, Len(most) + 0, t)
    <3>1. Holds(t, 0, t)
      BY <1>2, HoldsSelf
    <3>. QED
      BY <1>2, <1>8, <3>1, HoldsBack
  <2>4. Len(most) + 0 = Len(most)
    BY <1>1, <1>6, <1>7, <1>8
  <2>. QED
    BY <2>1, <2>2, <2>3, <2>4
<1> HIDE DEF all
<1> DEFINE last == Len(all) - CipherBlock
<1>10. last = Len(front) /\ last + half = Len(most) /\ last + CipherBlock = Len(most) + half
  <2> DEFINE p == Len(front)
             q == Len(most)
             u == Len(all)
  <2>1. p \in Nat /\ q = p + half /\ u = q + half /\ half \in Nat /\ half + half = CipherBlock
    BY <1>1, <1>6, <1>7, <1>8, <1>9
  <2> HIDE DEF p, q, u
  <2>2. u - CipherBlock = p /\ (u - CipherBlock) + half = q /\ (u - CipherBlock) + CipherBlock = q + half
    BY <2>1
  <2>. QED
    BY <2>2 DEF p, q, u, last
<1> HIDE DEF last
<1>11. AE!Slice(all, last + 1, last + half) = s
  <2>1. last + 1 = Len(front) + 1 /\ last + half = Len(front) + Len(s)
    BY <1>2, <1>10, Zenon
  <2>. QED
    BY <1>2, <1>9, <2>1, HeldSlice
<1>12. AE!Slice(all, last + half + 1, last + CipherBlock) = t
  <2>1. last + half + 1 = Len(most) + 1 /\ last + CipherBlock = Len(most) + Len(t)
    BY <1>2, <1>10, Zenon
  <2>. QED
    BY <1>2, <1>9, <2>1, HeldSlice
<1>13. AE!Slice(all, 1, Len(aad)) = aad
  <2>1. 1 = 0 + 1 /\ Len(aad) = 0 + Len(aad)
    BY <1>1
  <2>. QED
    BY <1>5, <1>9, <2>1, HeldSlice
<1>14. AE!Slice(all, Len(x) + 1, Len(x) + Len(y)) = y
  BY <1>5, <1>9, HeldSlice
<1>15. AE!GcmFields(all) =
         LET one == AE!Number(AE!Slice(all, last + 1, last + half)) \div AeadWidth
             two == AE!Number(AE!Slice(all, last + half + 1, last + CipherBlock)) \div AeadWidth
             full == AE!CeilDiv(one, CipherBlock) * CipherBlock
         IN  [aad |-> AE!Slice(all, 1, one), ciphertext |-> AE!Slice(all, full + 1, full + two)]
  BY Zenon DEF AE!GcmFields, last, half
<1>. QED
  BY <1>2, <1>3, <1>4, <1>11, <1>12, <1>13, <1>14, <1>15, Zenon

LEMMA GcmAuthenticates ==
  ASSUME AeadFits, AE!FlagsFit, CallsInv, AE!Accepted("gcm")
  PROVE  AE!GcmFields(AE!GhashInput(message.aad, AE!Ciphertext)) =
           [aad |-> message.aad, ciphertext |-> AE!Ciphertext]
<1>1. /\ TypedCall(message) /\ GcmFits(message) /\ AE!Ciphertext \in Seq(AE!Byte)
      /\ Len(AE!Ciphertext) = Len(AE!GcmPayload(message))
  BY AcceptedCall
<1>2. AE!GhashTakes(Len(message.aad)) /\ AE!GhashTakes(Len(AE!Ciphertext))
  BY <1>1, Zenon DEF GcmFits, GcmAdmits
<1>3. message.aad \in Seq(AE!Byte)
  BY <1>1 DEF TypedCall
<1>. QED
  BY <1>1, <1>2, <1>3, GhashInputIsRead DEF AeadFits

(* The flags of CCM tell the width of the length, the tag and the header.  *)
FlagsOf(given, T, H, header, steps, e) ==
  /\ T \in Nat \ {0} /\ H \in Nat \ {0} /\ H % T = 0 /\ e \in Nat /\ e < T
  /\ steps \in Nat /\ T * (steps + 1) <= H /\ header \in {0, H}
  /\ given = (header + T * steps) + e

LEMMA FlagsAreRead ==
  ASSUME NEW given, NEW T, NEW H, NEW header, NEW steps, NEW e, FlagsOf(given, T, H, header, steps, e)
  PROVE  given % T = e /\ (given >= H <=> header = H) /\ (given % H) \div T = steps
<1> DEFINE h == H \div T
           m == T * steps
           low == m + e
           flags == (header + m) + e
<1>9. given = flags
  BY DEF FlagsOf
<1> USE DEF FlagsOf
<1>1. h \in Nat /\ H = T * h
  <2>1. h \in Nat /\ H = T * h + (H % T)
    OBVIOUS
  <2>2. T * h \in Nat
    BY <2>1
  <2>. QED
    BY <2>1, <2>2
<1> HIDE DEF h
<1>2. m \in Nat /\ m + T <= H
  <2>1. T * (steps + 1) = T * steps + T /\ T * steps \in Nat
    OBVIOUS
  <2>. QED
    BY <2>1
<1>3. low \div T = steps /\ low % T = e
  <2>1. steps * T = T * steps
    OBVIOUS
  <2>2. (steps * T + e) \div T = steps /\ (steps * T + e) % T = e
    BY OneMoreDigit
  <2>. QED
    BY <2>1, <2>2
<1> HIDE DEF m
<1>4. low \in Nat /\ low < H
  BY <1>2
<1>5. flags >= H <=> header = H
  BY <1>2, <1>4
<1>6. flags % H = low
  <2>1. CASE header = 0
    <3>1. flags = low
      BY <1>2, <2>1
    <3> HIDE DEF low, flags
    <3>. QED
      BY <1>4, <3>1
  <2>2. CASE header = H
    <3>1. flags = H * 1 + low
      BY <1>2, <2>2
    <3>2. (1 * H + low) % H = low
      <4> HIDE DEF low
      <4>1. low \in 0 .. H - 1 /\ H \in Nat \ {0} /\ 1 \in Nat
        BY <1>4
      <4>2. \A u \in Nat, R \in Nat \ {0} : \A v \in 0 .. R - 1 : (u * R + v) % R = v
        BY OneMoreDigit
      <4>. QED
        BY <4>1, <4>2, Zenon
    <3>3. H * 1 = 1 * H
      OBVIOUS
    <3>. QED
      BY <3>1, <3>2, <3>3
  <2>. QED
    BY <2>1, <2>2
<1>7. flags % T = e
  <2>1. PICK g \in Nat : header = T * g
    <3>1. CASE header = 0
      <4>1. 0 \in Nat /\ header = T * 0
        BY <3>1
      <4>. QED
        BY <4>1, Zenon
    <3>2. CASE header = H
      BY <1>1, <3>2, Zenon
    <3>. QED
      BY <3>1, <3>2
  <2>2. flags = (g + steps) * T + e
    <3>1. (g + steps) * T = T * g + T * steps /\ T * g \in Nat /\ T * steps \in Nat
      OBVIOUS
    <3>. QED
      BY <2>1, <3>1 DEF m
  <2>3. ((g + steps) * T + e) % T = e
    <3>1. g + steps \in Nat
      OBVIOUS
    <3>. QED
      BY <3>1, OneMoreDigit
  <2>. QED
    BY <2>2, <2>3
<1>8. (flags % H) \div T = steps
  BY <1>3, <1>6, Zenon
<1>. QED
  BY <1>5, <1>7, <1>8, <1>9, Zenon

LEMMA HoldsParts ==
  ASSUME NEW S, NEW s \in Seq(S), NEW q \in Seq(S), NEW t \in Seq(S), NEW off, Holds(s, off, q \o t)
  PROVE  Holds(s, off, q) /\ Holds(s, off + Len(q), t)
<1> DEFINE u == q \o t
           l == Len(q)
<1>1. /\ Len(u) = l + Len(t) /\ Len(t) \in Nat /\ l \in Nat /\ Len(s) \in Nat
      /\ \A i \in 1 .. l + Len(t) : u[i] = IF i <= l THEN q[i] ELSE t[i - l]
  BY ConcatProperties, LenProperties
<1>2. off \in Nat /\ off + Len(u) <= Len(s) /\ \A k \in 1 .. Len(u) : s[off + k] = u[k]
  BY DEF Holds
<1> HIDE DEF u, l
<1>3. \A k \in 1 .. l : k \in 1 .. Len(u) /\ k \in 1 .. l + Len(t) /\ k <= l
  BY <1>1
<1>4. \A k \in 1 .. l : s[off + k] = q[k]
  BY <1>1, <1>2, <1>3
<1>5. \A k \in 1 .. Len(t) : /\ l + k \in 1 .. Len(u) /\ l + k \in 1 .. l + Len(t) /\ ~(l + k <= l)
                             /\ (l + k) - l = k /\ off + (l + k) = (off + l) + k
  BY <1>1, <1>2
<1>6. \A k \in 1 .. Len(t) : s[(off + l) + k] = t[k]
  <2> TAKE k \in 1 .. Len(t)
  <2>1. s[off + (l + k)] = u[l + k] /\ u[l + k] = t[(l + k) - l]
    BY <1>1, <1>2, <1>5
  <2>. QED
    BY <1>5, <2>1
<1>7. off + l \in Nat /\ (off + l) + Len(t) <= Len(s) /\ off + l <= Len(s)
  BY <1>1, <1>2
<1>. QED
  BY <1>2, <1>4, <1>6, <1>7 DEF Holds, l

LEMMA NumberIsRead ==
  ASSUME AE!WidthsFit, NEW v \in Nat, NEW w \in Nat, v < AE!TwoTo[AeadWidth * w]
  PROVE  /\ AE!ToBytes(v, w) \in Seq(AE!Byte) /\ Len(AE!ToBytes(v, w)) = w
         /\ AE!Number(AE!ToBytes(v, w)) = v
<1> DEFINE P == TwoTo[AeadWidth * w]
<1>1. v < P
  BY AeadPowers
<1>2. P \in Nat \ {0}
  BY AeadRadix, PowerOfDigits
<1>3. AE!Number(AE!ToBytes(v, w)) = v % P
  BY AeadNumberIs
<1> HIDE DEF P
<1>4. v % P = v
  BY <1>1, <1>2
<1>. QED
  BY <1>3, <1>4, AeadOctets

(* The mark of a long header, read as a length.                            *)
LEMMA MarkIsRead ==
  ASSUME AE!WidthsFit
  PROVE  LET mark == <<AE!Radix - 1, AE!Radix - 2>>
         IN  /\ mark \in Seq(AE!Byte) /\ Len(mark) = 2
             /\ AE!Number(mark) = TwoTo[AeadWidth * 2] - 2
<1> DEFINE R == TwoTo[AeadWidth]
           v == (R - 1) * R + (R - 2)
           mark == <<R - 1, R - 2>>
           P == TwoTo[AeadWidth * 2]
<1>1. AeadWidth \in Nat \ {0} /\ AE!Radix = R /\ AE!Byte = 0 .. R - 1
  BY AeadRadix DEF AE!WidthsFit
<1>2. R \in Nat /\ R >= 2
  <2>1. TwoTo[AeadWidth] = 2 * TwoTo[AeadWidth - 1] /\ TwoTo[AeadWidth - 1] \in Nat \ {0}
    BY <1>1, PowersOfTwo
  <2>. QED
    BY <2>1
<1>3. P = R * R /\ TwoTo[AeadWidth * 1] = R /\ TwoTo[AeadWidth * 0] = 1
  <2>1. AeadWidth \in Nat /\ 0 \in Nat /\ 1 \in Nat /\ 0 + 1 = 1 /\ 1 + 1 = 2
    BY <1>1
  <2>2. TwoTo[AeadWidth * (0 + 1)] = TwoTo[AeadWidth * 0] * TwoTo[AeadWidth] /\ TwoTo[AeadWidth * 0] = 1
    BY <2>1, PowerOfDigits, Zenon
  <2>3. TwoTo[AeadWidth * (1 + 1)] = TwoTo[AeadWidth * 1] * TwoTo[AeadWidth]
    BY <2>1, PowerOfDigits, Zenon
  <2>4. 1 * R = R
    BY <1>2
  <2>. QED
    BY <2>1, <2>2, <2>3, <2>4, Zenon
<1>4. mark \in Seq(AE!Byte) /\ Len(mark) = 2 /\ mark[1] = R - 1 /\ mark[2] = R - 2
  BY <1>1, <1>2
<1> HIDE DEF R
<1>5. v \in Nat /\ v = P - 2 /\ v < P /\ P \in Nat \ {0}
  <2>1. (R - 1) * R = R * R - R /\ R * R >= R /\ R * R \in Nat
    BY <1>2
  <2>2. v = R * R - 2 /\ v \in Nat
    BY <1>2, <2>1
  <2>. QED
    BY <1>2, <1>3, <2>1, <2>2
<1>6. v \div R = R - 1 /\ v % R = R - 2
  <2>1. R - 1 \in Nat /\ R \in Nat \ {0} /\ R - 2 \in 0 .. R - 1
    BY <1>2
  <2>. QED
    BY <2>1, OneMoreDigit, Zenon
<1> HIDE DEF v, P, mark
<1> DEFINE z == AE!ToBytes(v, 2)
<1>7. z \in Seq(AE!Byte) /\ Len(z) = 2
  BY <1>5, AeadOctets
<1>8. /\ z[1] = (v \div TwoTo[AeadWidth * (2 - 1)]) % R
      /\ z[2] = (v \div TwoTo[AeadWidth * (2 - 2)]) % R
  <2>1. 1 \in 1 .. 2 /\ 2 \in 1 .. 2
    OBVIOUS
  <2>. QED
    BY <1>1, <2>1, AeadPowers, Zenon DEF AE!ToBytes
<1> HIDE DEF z
<1>9. z[1] = R - 1 /\ z[2] = R - 2
  <2>1. 2 - 1 = 1 /\ 2 - 2 = 0
    OBVIOUS
  <2>2. z[1] = (v \div R) % R /\ z[2] = (v \div 1) % R
    BY <1>3, <1>8, <2>1, Zenon
  <2>3. v \div 1 = v
    BY <1>5
  <2>4. (R - 1) % R = R - 1
    BY <1>2
  <2>. QED
    BY <1>6, <2>2, <2>3, <2>4, Zenon
<1>10. z = mark
  <2>1. \A k \in 1 .. 2 : z[k] = mark[k]
    <3> TAKE k \in 1 .. 2
    <3>1. k = 1 \/ k = 2
      OBVIOUS
    <3>. QED
      BY <1>4, <1>9, <3>1, Zenon
  <2>. QED
    BY <1>4, <1>7, <2>1, SeqEqual
<1>11. AE!Number(z) = v % P
  BY <1>5, AeadNumberIs DEF z, P
<1>12. v % P = v
  BY <1>5
<1>. QED
  BY <1>1, <1>4, <1>5, <1>10, <1>11, <1>12, Zenon DEF mark, P

LEMMA CeilOfNext ==
  ASSUME NEW x \in Nat, NEW y \in Nat \ {0}
  PROVE  AE!CeilDiv(y + x, y) * y = y + AE!CeilDiv(x, y) * y
<1> DEFINE z == x + (y - 1)
           q == z \div y
           e == z % y
<1>1. z \in Nat
  OBVIOUS
<1>2. q \in Nat /\ e \in 0 .. y - 1 /\ z = y * q + e
  BY <1>1
<1>3. AE!CeilDiv(x, y) = q
  BY DEF AE!CeilDiv
<1>4. AE!CeilDiv(y + x, y) = (y + z) \div y
  <2>1. (y + x) + (y - 1) = y + (x + (y - 1))
    OBVIOUS
  <2>. QED
    BY <2>1 DEF AE!CeilDiv
<1> HIDE DEF z, q, e
<1>5. y * q = q * y /\ (q + 1) * y = q * y + y /\ q * y \in Nat
  BY <1>2
<1> DEFINE u == q * y
           w == (q + 1) * y
<1>6. y + z = w + e
  <2>1. z = u + e /\ w = u + y /\ u \in Nat /\ e \in Nat
    BY <1>2, <1>5
  <2> HIDE DEF u, w
  <2>. QED
    BY <2>1
<1>7. (w + e) \div y = q + 1
  <2>1. q + 1 \in Nat
    BY <1>2
  <2>. QED
    BY <1>2, <2>1, OneMoreDigit, Zenon
<1> HIDE DEF u, w
<1>8. w = y + u
  <2>1. w = u + y /\ u \in Nat
    BY <1>5 DEF u, w
  <2>. QED
    BY <2>1
<1>. QED
  BY <1>3, <1>4, <1>6, <1>7, <1>8, Zenon DEF u, w

(* Where the fields are in the string that CCM authenticates.              *)
LEMMA MacInputHolds ==
  ASSUME AE!WidthsFit, AE!FieldsFit, NEW nonce \in Seq(AE!Byte), Len(nonce) \in NonceLengths,
         NEW aad \in Seq(AE!Byte), NEW tag \in TagLengths, NEW text \in Seq(AE!Byte)
  PROVE  LET L == AE!LengthBytes(nonce)
             flags == ((IF aad = << >> THEN 0 ELSE HeaderFlag) + TagFlag * ((tag - 2) \div 2)) + (L - 1)
             prefix == AE!AadPrefix(Len(aad))
             full == CipherBlock + AE!CeilDiv(Len(prefix) + Len(aad), CipherBlock) * CipherBlock
             bytes == AE!CcmMacInput(nonce, aad, tag, text)
         IN  /\ bytes \in Seq(Int) /\ bytes[1] = flags
             /\ Holds(bytes, 1, nonce) /\ Holds(bytes, 1 + Len(nonce), AE!ToBytes(Len(text), L))
             /\ aad = << >> => Holds(bytes, CipherBlock, text)
             /\ aad # << >> => /\ Holds(bytes, CipherBlock, prefix)
                               /\ Holds(bytes, CipherBlock + Len(prefix), aad)
                               /\ Holds(bytes, full, text)
<1> DEFINE L == AE!LengthBytes(nonce)
           flags == ((IF aad = << >> THEN 0 ELSE HeaderFlag) + TagFlag * ((tag - 2) \div 2)) + (L - 1)
           size == AE!ToBytes(Len(text), L)
           first == AE!CcmFirstBlock(nonce, aad, tag, Len(text))
           prefix == AE!AadPrefix(Len(aad))
           named == prefix \o aad
           header == IF aad = << >> THEN << >> ELSE AE!Padded(named)
           body == AE!Padded(text)
           front == first \o header
           bytes == front \o body
<1>1. Len(text) \in Nat /\ Len(aad) \in Nat /\ Len(nonce) \in Nat /\ CipherBlock \in Nat \ {0}
  BY LenProperties DEF AE!WidthsFit
<1>2. /\ flags \in Int /\ first = (<<flags>> \o nonce) \o size /\ first \in Seq(Int)
      /\ Len(first) = CipherBlock
  <2> DEFINE k == Len(text)
  <2>1. k \in Nat
    BY <1>1
  <2> HIDE DEF k
  <2>2. flags \in Int
    BY <2>1, FirstBlockIs
  <2>3. AE!CcmFirstBlock(nonce, aad, tag, k) = (<<flags>> \o nonce) \o AE!ToBytes(k, L)
    BY <2>1, FirstBlockIs
  <2>4. /\ AE!CcmFirstBlock(nonce, aad, tag, k) \in Seq(Int)
        /\ Len(AE!CcmFirstBlock(nonce, aad, tag, k)) = CipherBlock
    BY <2>1, FirstBlockIs
  <2>. QED
    BY <2>2, <2>3, <2>4, Zenon DEF k
<1>3. L \in Nat
  BY <1>1 DEF AE!LengthBytes, AE!FieldsFit
<1>4. size \in Seq(AE!Byte)
  BY <1>1, <1>3, AeadOctets
<1>5. prefix \in Seq(AE!Byte)
  BY <1>1, AadPrefixIs
<1>6. AE!CcmMacInput(nonce, aad, tag, text) = bytes
  BY Zenon DEF AE!CcmMacInput
<1> HIDE DEF L, flags, size, first, prefix
<1>7. named \in Seq(AE!Byte) /\ Len(named) = Len(prefix) + Len(aad)
  BY <1>5, ConcatProperties
<1>8. /\ body \in Seq(AE!Byte) /\ Holds(body, 0, text)
  BY PaddedHolds
<1>9. /\ header \in Seq(AE!Byte)
      /\ aad = << >> => Len(header) = 0
      /\ aad # << >> => /\ Holds(header, 0, named)
                        /\ Len(header) = AE!CeilDiv(Len(prefix) + Len(aad), CipherBlock) * CipherBlock
  <2> HIDE DEF named
  <2>1. /\ Holds(AE!Padded(named), 0, named) /\ AE!Padded(named) \in Seq(AE!Byte)
        /\ Len(AE!Padded(named)) = AE!CeilDiv(Len(named), CipherBlock) * CipherBlock
    BY <1>7, PaddedHolds
  <2>2. CASE aad = << >>
    <3>1. header = << >>
      BY <2>2
    <3>. QED
      BY <2>2, <3>1, EmptySeq
  <2>3. CASE aad # << >>
    <3>1. header = AE!Padded(named)
      BY <2>3
    <3>. QED
      BY <1>7, <2>1, <2>3, <3>1, Zenon
  <2>. QED
    BY <2>2, <2>3, Zenon
<1> HIDE DEF header, body, named
<1>10. /\ header \in Seq(Int) /\ body \in Seq(Int) /\ named \in Seq(Int) /\ prefix \in Seq(Int)
       /\ size \in Seq(Int) /\ nonce \in Seq(Int) /\ aad \in Seq(Int) /\ text \in Seq(Int)
  BY <1>4, <1>5, <1>7, <1>8, <1>9, WiderSequence
<1>11. /\ front \in Seq(Int) /\ Len(front) = CipherBlock + Len(header)
       /\ \A k \in 1 .. CipherBlock : front[k] = first[k]
  <2>1. front \in Seq(Int) /\ Len(front) = Len(first) + Len(header)
    BY <1>2, <1>10, ConcatProperties
  <2>2. \A k \in 1 .. Len(first) : front[k] = first[k]
    BY <1>2, <1>10, ConcatProperties
  <2>. QED
    BY <1>2, <2>1, <2>2, Zenon
<1>12. Holds(front, 0, first)
  <2>1. Holds(first, 0, first)
    BY <1>2, HoldsSelf
  <2>. QED
    BY <1>2, <1>10, <2>1, HoldsFront
<1>13. ASSUME NEW off, NEW q \in Seq(Int), Holds(header, off, q)
       PROVE  Holds(front, CipherBlock + off, q)
  <2>1. Holds(front, Len(first) + off, q)
    BY <1>2, <1>10, <1>13, HoldsBack
  <2>. QED
    BY <1>2, <2>1, Zenon
<1> HIDE DEF front
<1>14. bytes \in Seq(Int)
  BY <1>10, <1>11, ConcatProperties
<1>15. \A q \in Seq(Int) : \A off : Holds(front, off, q) => Holds(bytes, off, q)
  BY <1>10, <1>11, HoldsFront
<1>16. Holds(bytes, CipherBlock + Len(header), text)
  <2>1. Holds(bytes, Len(front) + 0, text)
    BY <1>8, <1>10, <1>11, HoldsBack
  <2>2. Len(front) + 0 = CipherBlock + Len(header)
    <3>1. Len(header) \in Nat
      BY <1>10, LenProperties
    <3>. QED
      BY <1>1, <1>11, <3>1
  <2>. QED
    BY <2>1, <2>2
<1> HIDE DEF bytes
<1>17. Holds(bytes, 0, first)
  BY <1>2, <1>12, <1>15, Zenon
<1>18. bytes[1] = flags
  <2>1. first[1] = flags
    BY <1>2, <1>4, CcmBlockIs
  <2>2. bytes[0 + 1] = first[1]
    BY <1>1, <1>2, <1>17 DEF Holds
  <2>3. 0 + 1 = 1
    OBVIOUS
  <2>. QED
    BY <2>1, <2>2, <2>3, Zenon
<1>19. Holds(bytes, 1, nonce) /\ Holds(bytes, 1 + Len(nonce), size)
  <2> DEFINE c == <<flags>>
             d == c \o nonce
  <2>1. c \in Seq(Int) /\ Len(c) = 1
    BY <1>2
  <2> HIDE DEF c
  <2>2. d \in Seq(Int) /\ Len(d) = 1 + Len(nonce)
    <3>1. d \in Seq(Int) /\ Len(d) = Len(c) + Len(nonce)
      BY <1>10, <2>1, ConcatProperties, Zenon
    <3>. QED
      BY <2>1, <3>1, Zenon
  <2>3. Holds(bytes, 0, d \o size)
    BY <1>2, <1>17, Zenon DEF c
  <2> HIDE DEF d
  <2>4. Holds(bytes, 0, d) /\ Holds(bytes, 0 + Len(d), size)
    BY <1>10, <1>14, <2>2, <2>3, HoldsParts
  <2>5. Holds(bytes, 0 + Len(c), nonce)
    BY <1>10, <1>14, <2>1, <2>4, HoldsParts DEF d
  <2>6. 0 + Len(c) = 1 /\ 0 + Len(d) = 1 + Len(nonce)
    BY <1>1, <2>1, <2>2
  <2>. QED
    BY <2>4, <2>5, <2>6, Zenon
<1>20. ASSUME aad = << >> PROVE Holds(bytes, CipherBlock, text)
  <2>1. CipherBlock + Len(header) = CipherBlock
    BY <1>1, <1>9, <1>20
  <2>. QED
    BY <1>16, <2>1, Zenon
<1>21. ASSUME aad # << >>
       PROVE  /\ Holds(bytes, CipherBlock, prefix) /\ Holds(bytes, CipherBlock + Len(prefix), aad)
              /\ Holds(bytes, CipherBlock
                                + AE!CeilDiv(Len(prefix) + Len(aad), CipherBlock) * CipherBlock, text)
  <2>1. Holds(bytes, CipherBlock + 0, named)
    BY <1>9, <1>10, <1>13, <1>15, <1>21, Zenon
  <2>2. CipherBlock + 0 = CipherBlock
    BY <1>1
  <2>3. Holds(bytes, CipherBlock, prefix \o aad)
    BY <2>1, <2>2, Zenon DEF named
  <2>4. Holds(bytes, CipherBlock, prefix) /\ Holds(bytes, CipherBlock + Len(prefix), aad)
    BY <1>10, <1>14, <2>3, HoldsParts
  <2>. QED
    BY <1>9, <1>16, <1>21, <2>4, Zenon
<1>. QED
  BY <1>6, <1>14, <1>18, <1>19, <1>20, <1>21, Zenon DEF flags, size, L, prefix

(* The prefix of a header, read back: its start and its length.            *)
LEMMA PrefixIsRead ==
  ASSUME AE!WidthsFit, AE!FlagsFit, NEW total \in Nat, total < AE!TwoTo[AeadWidth * 4],
         NEW bytes \in Seq(Int), NEW off \in Nat, Holds(bytes, off, AE!AadPrefix(total))
  PROVE  LET short == AE!Number(AE!Slice(bytes, off + 1, off + 2))
         IN  /\ Len(AE!AadPrefix(total)) = IF short < ShortAad THEN 2 ELSE 6
             /\ total = IF short < ShortAad THEN short
                         ELSE AE!Number(AE!Slice(bytes, off + 3, off + 6))
<1> DEFINE short == AE!Number(AE!Slice(bytes, off + 1, off + 2))
           P == TwoTo[AeadWidth * 2]
<1>1. ShortAad \in Nat /\ ShortAad <= P - 2
  BY AeadPowers DEF AE!FlagsFit
<1>2. P \in Nat
  <2>1. AeadWidth \in Nat
    BY AeadRadix
  <2>. QED
    BY <2>1, PowerOfDigits
<1>3. CASE total < ShortAad
  <2> DEFINE q == AE!ToBytes(total, 2)
  <2>1. AE!AadPrefix(total) = q
    BY <1>3 DEF AE!AadPrefix
  <2>2. total < AE!TwoTo[AeadWidth * 2]
    BY <1>1, <1>2, <1>3, AeadPowers
  <2>3. q \in Seq(AE!Byte) /\ Len(q) = 2 /\ AE!Number(q) = total
    BY <2>2, NumberIsRead
  <2> HIDE DEF q
  <2>4. AE!Slice(bytes, off + 1, off + 2) = q
    <3>1. q \in Seq(Int) /\ Holds(bytes, off, q) /\ off + 2 = off + Len(q)
      BY <2>1, <2>3, WiderSequence
    <3>. QED
      BY <3>1, HeldSlice
  <2>. QED
    BY <1>3, <2>1, <2>3, <2>4
<1>4. CASE ~(total < ShortAad)
  <2> DEFINE mark == <<AE!Radix - 1, AE!Radix - 2>>
             q == AE!ToBytes(total, 4)
  <2>1. AE!AadPrefix(total) = mark \o q
    BY <1>4 DEF AE!AadPrefix
  <2>2. mark \in Seq(AE!Byte) /\ Len(mark) = 2 /\ AE!Number(mark) = P - 2
    BY MarkIsRead, Zenon
  <2>3. q \in Seq(AE!Byte) /\ Len(q) = 4 /\ AE!Number(q) = total
    BY NumberIsRead
  <2> HIDE DEF mark, q
  <2>4. mark \in Seq(Int) /\ q \in Seq(Int)
    BY <2>2, <2>3, WiderSequence
  <2>5. Holds(bytes, off, mark) /\ Holds(bytes, off + Len(mark), q)
    <3>1. Holds(bytes, off, mark \o q)
      BY <2>1, Zenon
    <3>. QED
      BY <2>4, <3>1, HoldsParts
  <2>6. Holds(bytes, off + 2, q)
    BY <2>2, <2>5, Zenon
  <2>7. AE!Slice(bytes, off + 1, off + 2) = mark
    <3>1. off + 2 = off + Len(mark)
      BY <2>2, Zenon
    <3>. QED
      BY <2>4, <2>5, <3>1, HeldSlice
  <2>8. AE!Slice(bytes, off + 3, off + 6) = q
    <3>1. off + 3 = (off + 2) + 1 /\ off + 6 = (off + 2) + Len(q)
      BY <2>3
    <3>. QED
      BY <2>4, <2>6, <3>1, HeldSlice
  <2>9. ~(short < ShortAad)
    <3>1. short = P - 2
      BY <2>2, <2>7, Zenon
    <3> HIDE DEF short, P
    <3>. QED
      BY <1>1, <1>2, <3>1
  <2>10. Len(AE!AadPrefix(total)) = 6
    <3>1. Len(mark \o q) = Len(mark) + Len(q)
      BY <2>4, ConcatProperties
    <3>. QED
      BY <2>1, <2>2, <2>3, <3>1
  <2>. QED
    BY <2>3, <2>8, <2>9, <2>10
<1>. QED
  BY <1>3, <1>4

FirstFlags(given, nonce, aad, tag) ==
  given = ((IF aad = << >> THEN 0 ELSE HeaderFlag) + TagFlag * ((tag - 2) \div 2))
            + (AE!LengthBytes(nonce) - 1)

LEMMA FirstFlagsRead ==
  ASSUME AE!WidthsFit, AE!FieldsFit, AE!FlagsFit, NEW nonce \in Seq(AE!Byte), Len(nonce) \in NonceLengths,
         NEW aad, NEW tag \in TagLengths, NEW given, FirstFlags(given, nonce, aad, tag)
  PROVE  /\ (given % TagFlag) + 1 = AE!LengthBytes(nonce)
         /\ (given >= HeaderFlag <=> aad # << >>)
         /\ 2 * ((given % HeaderFlag) \div TagFlag) + 2 = tag
<1> DEFINE L == AE!LengthBytes(nonce)
           e == L - 1
           steps == (tag - 2) \div 2
           header == IF aad = << >> THEN 0 ELSE HeaderFlag
<1>7. given = (header + TagFlag * steps) + e
  BY DEF FirstFlags
<1>1. /\ CipherBlock \in Nat \ {0} /\ HeaderFlag \in Nat /\ TagFlag \in Nat \ {0} /\ tag \in 4 .. CipherBlock
      /\ HeaderFlag % TagFlag = 0 /\ tag % 2 = 0 /\ TagFlag * (tag \div 2) <= HeaderFlag
  BY DEF AE!WidthsFit, AE!FieldsFit, AE!FlagsFit
<1>2. e \in Nat /\ e < TagFlag /\ e + 1 = L
  <2>1. Len(nonce) \in 0 .. CipherBlock - 2 /\ (CipherBlock - 2) - Len(nonce) < TagFlag
    BY DEF AE!FieldsFit, AE!FlagsFit
  <2>. QED
    BY <1>1, <2>1 DEF AE!LengthBytes
<1>3. steps \in Nat /\ 2 * steps + 2 = tag /\ steps + 1 = tag \div 2
  BY <1>1
<1>4. HeaderFlag # 0 /\ TagFlag * (steps + 1) <= HeaderFlag
  <2>1. TagFlag * (steps + 1) <= HeaderFlag
    BY <1>1, <1>3, Zenon
  <2>2. TagFlag * (steps + 1) > 0
    BY <1>1, <1>3
  <2>. QED
    BY <1>1, <2>1, <2>2
<1>5. header \in {0, HeaderFlag} /\ (header = HeaderFlag <=> aad # << >>)
  BY <1>4
<1> HIDE DEF e, steps, header
<1>6. /\ given % TagFlag = e /\ (given >= HeaderFlag <=> header = HeaderFlag)
      /\ (given % HeaderFlag) \div TagFlag = steps
  <2>1. FlagsOf(given, TagFlag, HeaderFlag, header, steps, e)
    BY <1>1, <1>2, <1>3, <1>4, <1>5, <1>7 DEF FlagsOf
  <2>. QED
    BY <2>1, FlagsAreRead, Zenon
<1>. QED
  BY <1>2, <1>3, <1>5, <1>6, Zenon

Placed(s, q, off, from, to) ==
  s \in Seq(Int) /\ q \in Seq(Int) /\ Holds(s, off, q) /\ from = off + 1 /\ to = off + Len(q)

LEMMA PlacedIsRead ==
  ASSUME NEW s, NEW q, NEW off, NEW from, NEW to, Placed(s, q, off, from, to)
  PROVE  AE!Slice(s, from, to) = q
  BY HeldSlice DEF Placed

LEMMA MacInputIsRead ==
  ASSUME AE!WidthsFit, AE!FieldsFit, AE!FlagsFit, NEW nonce \in Seq(AE!Byte),
         NEW aad \in Seq(AE!Byte), NEW tag \in TagLengths, NEW text \in Seq(AE!Byte),
         CcmAdmits(nonce, aad, tag, Len(text))
  PROVE  AE!CcmFields(AE!CcmMacInput(nonce, aad, tag, text)) =
           [nonce |-> nonce, tag |-> tag, aad |-> aad, plaintext |-> text]
<1> DEFINE L == AE!LengthBytes(nonce)
           flags == ((IF aad = << >> THEN 0 ELSE HeaderFlag) + TagFlag * ((tag - 2) \div 2)) + (L - 1)
           size == AE!ToBytes(Len(text), L)
           prefix == AE!AadPrefix(Len(aad))
           bytes == AE!CcmMacInput(nonce, aad, tag, text)
           short == AE!Number(AE!Slice(bytes, CipherBlock + 1, CipherBlock + 2))
           long == AE!Number(AE!Slice(bytes, CipherBlock + 3, CipherBlock + 6))
           header == flags >= HeaderFlag
           width == (flags % TagFlag) + 1
           start == IF ~header THEN CipherBlock + 1
                    ELSE IF short < ShortAad THEN CipherBlock + 3 ELSE CipherBlock + 7
           total == IF ~header THEN 0 ELSE IF short < ShortAad THEN short ELSE long
           full == AE!CeilDiv((start - 1) + total, CipherBlock) * CipherBlock
<1>1. /\ Len(text) \in Nat /\ Len(aad) \in Nat /\ Len(nonce) \in Nat /\ CipherBlock \in Nat \ {0}
      /\ Len(nonce) \in NonceLengths
      /\ Len(text) < AE!TwoTo[AeadWidth * L] /\ Len(aad) < AE!TwoTo[AeadWidth * 4]
  BY LenProperties DEF AE!WidthsFit, CcmAdmits
<1>2. /\ L \in Nat /\ CipherBlock - L = 1 + Len(nonce) /\ CipherBlock = (1 + Len(nonce)) + L
  BY <1>1 DEF AE!LengthBytes, AE!FieldsFit
<1>3. /\ width = L /\ (header <=> aad # << >>) /\ 2 * ((flags % HeaderFlag) \div TagFlag) + 2 = tag
  <2> DEFINE given == flags
  <2>1. FirstFlags(given, nonce, aad, tag)
    BY DEF FirstFlags
  <2> HIDE DEF given
  <2>2. /\ (given % TagFlag) + 1 = AE!LengthBytes(nonce)
        /\ (given >= HeaderFlag <=> aad # << >>)
        /\ 2 * ((given % HeaderFlag) \div TagFlag) + 2 = tag
    BY <1>1, <2>1, FirstFlagsRead
  <2>. QED
    BY <2>2, Zenon DEF given
<1>4. /\ bytes \in Seq(Int) /\ bytes[1] = flags
      /\ Holds(bytes, 1, nonce) /\ Holds(bytes, 1 + Len(nonce), size)
      /\ aad = << >> => Holds(bytes, CipherBlock, text)
      /\ aad # << >> =>
           /\ Holds(bytes, CipherBlock, prefix) /\ Holds(bytes, CipherBlock + Len(prefix), aad)
           /\ Holds(bytes, CipherBlock
                             + AE!CeilDiv(Len(prefix) + Len(aad), CipherBlock) * CipherBlock, text)
  BY <1>1, MacInputHolds
<1>5. size \in Seq(AE!Byte) /\ Len(size) = L /\ AE!Number(size) = Len(text)
  BY <1>1, <1>2, NumberIsRead
<1>6. AE!CcmFields(bytes) =
        [nonce |-> AE!Slice(bytes, 2, CipherBlock - width),
         tag |-> 2 * ((flags % HeaderFlag) \div TagFlag) + 2,
         aad |-> AE!Slice(bytes, start, start + (total - 1)),
         plaintext |-> AE!Slice(bytes, full + 1,
                         full + AE!Number(AE!Slice(bytes, (CipherBlock - width) + 1, CipherBlock)))]
  <2> DEFINE byte == bytes[1]
  <2>1. byte = flags
    BY <1>4
  <2> HIDE DEF bytes, flags
  <2>. QED
    BY <2>1, Zenon DEF AE!CcmFields
<1> HIDE DEF L, flags, size, prefix, bytes, header, width, short, long
<1>7. size \in Seq(Int) /\ nonce \in Seq(Int) /\ aad \in Seq(Int) /\ text \in Seq(Int)
  BY <1>5, WiderSequence
<1>8. AE!Slice(bytes, 2, CipherBlock - width) = nonce
  <2>1. 2 = 1 + 1 /\ CipherBlock - width = 1 + Len(nonce)
    BY <1>2, <1>3
  <2>. QED
    BY <1>4, <1>7, <2>1, HeldSlice
<1>9. AE!Slice(bytes, (CipherBlock - width) + 1, CipherBlock) = size
  <2>1. (CipherBlock - width) + 1 = (1 + Len(nonce)) + 1 /\ CipherBlock = (1 + Len(nonce)) + Len(size)
    BY <1>2, <1>3, <1>5, Zenon
  <2> DEFINE off == 1 + Len(nonce)
             from == (CipherBlock - width) + 1
  <2>2. from = off + 1 /\ CipherBlock = off + Len(size) /\ Holds(bytes, off, size)
    BY <1>4, <2>1
  <2> HIDE DEF off, from
  <2>3. AE!Slice(bytes, from, CipherBlock) = size
    <3>1. Placed(bytes, size, off, from, CipherBlock)
      BY <1>4, <1>7, <2>2, Zenon DEF Placed
    <3>. QED
      BY <3>1, PlacedIsRead, Zenon
  <2>. QED
    BY <2>3 DEF from
<1>10. /\ AE!Slice(bytes, start, start + (total - 1)) = aad
       /\ Holds(bytes, full, text)
  <2>1. CASE aad = << >>
    <3>1. ~header /\ start = CipherBlock + 1 /\ total = 0
      BY <1>3, <2>1
    <3>2. start + (total - 1) = CipherBlock + Len(aad) /\ (start - 1) + total = CipherBlock + 0 /\ 0 \in Nat
      <4>1. Len(aad) = 0
        BY <2>1
      <4>. QED
        BY <1>1, <3>1, <4>1
    <3>3. Holds(bytes, CipherBlock, aad)
      <4>1. CipherBlock <= Len(bytes)
        BY <1>1, <1>4, <2>1, LenProperties DEF Holds
      <4>. QED
        BY <1>1, <2>1, <4>1 DEF Holds
    <3>4. AE!Slice(bytes, start, start + (total - 1)) = aad
      BY <1>4, <1>7, <3>1, <3>2, <3>3, HeldSlice
    <3>5. full = CipherBlock
      <4>1. AE!CeilDiv(CipherBlock + 0, CipherBlock) * CipherBlock
              = CipherBlock + AE!CeilDiv(0, CipherBlock) * CipherBlock
        BY <1>1, <3>2, CeilOfNext
      <4>2. AE!CeilDiv(0, CipherBlock) * CipherBlock = 0
        <5>1. AE!CeilDiv(0, CipherBlock) * CipherBlock \in Nat /\ AE!CeilDiv(0, CipherBlock) \in Nat
              /\ AE!CeilDiv(0, CipherBlock) <= 0
          <6>1. 0 <= 0 * CipherBlock
            BY <1>1
          <6>. QED
            BY <1>1, <6>1, RoundedCount, CeilBelow
        <5>2. AE!CeilDiv(0, CipherBlock) = 0
          BY <5>1
        <5>. QED
          BY <1>1, <5>2
      <4>. QED
        BY <1>1, <3>2, <4>1, <4>2
    <3>. QED
      BY <1>4, <2>1, <3>4, <3>5, Zenon
  <2>2. CASE aad # << >>
    <3>1. /\ header /\ Holds(bytes, CipherBlock, prefix) /\ Holds(bytes, CipherBlock + Len(prefix), aad)
      BY <1>3, <1>4, <2>2, Zenon
    <3>2. /\ Len(prefix) = IF short < ShortAad THEN 2 ELSE 6
          /\ Len(aad) = IF short < ShortAad THEN short ELSE long
      <4>1. CipherBlock \in Nat
        BY <1>1
      <4>2. Holds(bytes, CipherBlock, AE!AadPrefix(Len(aad)))
        BY <3>1 DEF prefix
      <4>. QED
        BY <1>1, <1>4, <4>1, <4>2, PrefixIsRead DEF prefix, short, long
    <3>3. start = (CipherBlock + Len(prefix)) + 1 /\ total = Len(aad)
      BY <1>1, <3>1, <3>2
    <3> HIDE DEF start, total
    <3>4. /\ start + (total - 1) = (CipherBlock + Len(prefix)) + Len(aad) /\ Len(prefix) + Len(aad) \in Nat
          /\ (start - 1) + total = CipherBlock + (Len(prefix) + Len(aad))
      <4>1. Len(prefix) \in Nat
        BY <3>2
      <4>. QED
        BY <1>1, <3>3, <4>1
    <3>5. AE!Slice(bytes, start, start + (total - 1)) = aad
      <4> DEFINE off == CipherBlock + Len(prefix)
                 to == start + (total - 1)
      <4>1. start = off + 1 /\ to = off + Len(aad) /\ Holds(bytes, off, aad)
        BY <3>1, <3>3, <3>4
      <4> HIDE DEF off, to
      <4>2. AE!Slice(bytes, start, to) = aad
        <5>1. Placed(bytes, aad, off, start, to)
          BY <1>4, <1>7, <4>1, Zenon DEF Placed
        <5>. QED
          BY <5>1, PlacedIsRead, Zenon
      <4>. QED
        BY <4>2 DEF to
    <3>6. full = CipherBlock + AE!CeilDiv(Len(prefix) + Len(aad), CipherBlock) * CipherBlock
      BY <1>1, <3>4, CeilOfNext
    <3>. QED
      BY <1>4, <2>2, <3>5, <3>6, Zenon
  <2>. QED
    BY <2>1, <2>2
<1> HIDE DEF start, total, full
<1>11. AE!Slice(bytes, full + 1, full + Len(text)) = text
  BY <1>4, <1>7, <1>10, HeldSlice
<1>. QED
  BY <1>3, <1>5, <1>6, <1>8, <1>9, <1>10, <1>11, Zenon DEF bytes

LEMMA CcmAuthenticates ==
  ASSUME AeadFits, AE!FlagsFit, CallsInv, AE!Accepted("ccm")
  PROVE  AE!CcmFields(AE!CcmMacInput(message.nonce, message.aad, message.tag, AE!Plaintext)) =
           [nonce |-> message.nonce, tag |-> message.tag, aad |-> message.aad,
            plaintext |-> AE!Plaintext]
<1>1. /\ TypedCall(message) /\ CcmFits(message) /\ AE!Plaintext \in Seq(AE!Byte)
      /\ Len(AE!Plaintext) = message.length
  BY AcceptedCall
<1>2. /\ CcmAdmits(message.nonce, message.aad, message.tag, Len(AE!Plaintext))
      /\ message.tag \in TagLengths
  BY <1>1, Zenon DEF CcmFits, CcmAdmits
<1>3. message.nonce \in Seq(AE!Byte) /\ message.aad \in Seq(AE!Byte)
  BY <1>1 DEF TypedCall
<1>. QED
  BY <1>1, <1>2, <1>3, MacInputIsRead DEF AeadFits

(* For any widths whose fields can be told apart, any block encryptor and  *)
(* field multiplication, and any calls: from the string that an accepted   *)
(* CCM call authenticates its nonce, tag length, header and plaintext can  *)
(* be read back, and from the one that an accepted GCM call hashes its     *)
(* header and ciphertext, so that no two different messages share it.      *)
THEOREM AuthenticatedIsDetermined ==
  ASSUME AeadFits, AE!FlagsFit, AE!MessagesFit
  PROVE  SymmetricSpec => []AuthenticatesEverything
<1> DEFINE PartInv == part = "aead" => CallsInv
<1>1. SymmetricInit => PartInv
  BY CallsInvInit DEF SymmetricInit
<1>2. PartInv /\ [SymmetricNext]_symmetric => PartInv'
  BY AeadStepIs, CallsInvNext
<1>3. PartInv => AuthenticatesEverything
  BY CcmAuthenticates, GcmAuthenticates, Zenon DEF AE!AuthenticatesEverything, AuthenticatesEverything
<1>. QED
  BY <1>1, <1>2, <1>3, PTL DEF SymmetricSpec

-----------------------------------------------------------------------------
(* CounterKdf.                                                             *)

LEMMA KdfRadix ==
  ASSUME KD!WidthsFit
  PROVE  /\ Width \in Nat \ {0} /\ KD!Radix = TwoTo[Width] /\ TwoTo[Width] \in Nat \ {0}
         /\ KD!TwoTo = TwoTo /\ PrfSize \in Nat \ {0}
<1>1. KD!TwoTo = TwoTo
  BY DEF KD!TwoTo, TwoTo
<1>2. Width \in Nat \ {0} /\ PrfSize \in Nat \ {0}
  BY DEF KD!WidthsFit
<1>3. KD!Radix = TwoTo[Width]
  BY <1>1, Zenon DEF KD!Radix
<1>. QED
  BY <1>1, <1>2, <1>3, PowersOfTwo

(* A format that holds a value gives it back.                              *)
Holding(format, v) ==
  /\ format.width_bits \in Nat /\ format.width_bits % Width = 0
  /\ v \in Nat /\ v < TwoTo[format.width_bits]

LEMMA WholeWidth ==
  ASSUME NEW b \in Nat \ {0}, NEW x \in Nat, x % b = 0
  PROVE  x \div b \in Nat /\ b * (x \div b) = x
<1> DEFINE q == x \div b
           e == x % b
<1>1. q \in Nat /\ x = b * q + e
  OBVIOUS
<1>2. e = 0
  OBVIOUS
<1> HIDE DEF q, e
<1>3. b * q \in Nat
  BY <1>1
<1>4. x = b * q
  BY <1>1, <1>2, <1>3
<1>. QED
  BY <1>1, <1>4 DEF q

DigitsValue(w, R, d) ==
  (CHOOSE f : f = [k \in 0 .. w |-> IF k = 0 THEN 0 ELSE f[k - 1] * R + d[k]])[w]

LEMMA DecodesEncoded ==
  ASSUME KD!WidthsFit, NEW format, NEW v, Holding(format, v)
  PROVE  KD!Decoded(format, KD!Encoded(format, v)) = v
<1> DEFINE w == format.width_bits \div Width
           le == format.little_endian
           R == TwoTo[Width]
           e == [k \in 1 .. w |-> IF le THEN Digit(v, Width, k - 1) ELSE Digit(v, Width, w - k)]
           d == [k \in 1 .. w |-> IF le THEN e[(w + 1) - k] ELSE e[k]]
           F == CHOOSE f : f = [k \in 0 .. w |-> IF k = 0 THEN 0 ELSE f[k - 1] * R + d[k]]
<1>1. /\ Width \in Nat \ {0} /\ R \in Nat \ {0} /\ KD!Radix = R /\ KD!TwoTo = TwoTo
  BY KdfRadix
<1>2. v \in Nat /\ w \in Nat /\ v < TwoTo[Width * w]
  <2>1. format.width_bits \in Nat /\ format.width_bits % Width = 0 /\ v \in Nat
        /\ v < TwoTo[format.width_bits]
    BY Zenon DEF Holding
  <2>2. w \in Nat /\ Width * w = format.width_bits
    BY <1>1, <2>1, WholeWidth
  <2>. QED
    BY <2>1, <2>2, Zenon
<1>3. KD!Encoded(format, v) = e
  BY <1>1, Zenon DEF KD!Encoded, Digit
<1> HIDE DEF w, R
<1>4. \A j \in Nat : Digit(v, Width, j) \in Nat
  <2> TAKE j \in Nat
  <2> DEFINE p == TwoTo[Width * j]
  <2>1. p \in Nat \ {0}
    BY <1>1, PowerOfDigits
  <2> HIDE DEF p
  <2>2. v \div p \in Nat
    BY <1>2, <2>1, QuotientIsNat, Zenon
  <2> DEFINE q == v \div p
  <2> HIDE DEF q
  <2>3. q % R \in Nat
    BY <1>1, <2>2 DEF q
  <2>. QED
    BY <2>3 DEF Digit, p, q, R
<1>5. \A k \in 1 .. w : k - 1 \in Nat /\ w - k \in Nat /\ (w + 1) - k \in 1 .. w
                         /\ ((w + 1) - k) - 1 = w - k
  BY <1>2
<1>6. \A k \in 1 .. w : d[k] = Digit(v, Width, w - k)
  <2> TAKE k \in 1 .. w
  <2>1. CASE le
    <3>1. d[k] = e[(w + 1) - k]
      BY <2>1
    <3>2. e[(w + 1) - k] = Digit(v, Width, ((w + 1) - k) - 1)
      BY <1>5, <2>1
    <3>. QED
      BY <1>5, <3>1, <3>2
  <2>2. CASE ~le
    BY <1>5, <2>2
  <2>. QED
    BY <2>1, <2>2
<1>7. e \in Seq(Nat) /\ Len(e) = w
  <2>1. \A k \in 1 .. w : (IF le THEN Digit(v, Width, k - 1) ELSE Digit(v, Width, w - k)) \in Nat
    BY <1>4, <1>5
  <2>2. e \in [1 .. w -> Nat]
    BY <2>1
  <2> HIDE DEF e
  <2>. QED
    BY <1>2, <2>2
<1> HIDE DEF e
<1>8. KD!Decoded(format, e) = F[w]
  <2> DEFINE l == Len(e)
             D == [k \in 1 .. l |-> IF format.little_endian THEN e[(l + 1) - k] ELSE e[k]]
  <2>1. KD!Decoded(format, e) = DigitsValue(l, KD!Radix, D)
    BY Zenon DEF KD!Decoded, DigitsValue
  <2>2. l = w /\ KD!Radix = R
    BY <1>1, <1>7
  <2> HIDE DEF l
  <2>3. D = d
    BY <2>2, Zenon
  <2> HIDE DEF d, D
  <2>4. KD!Decoded(format, e) = DigitsValue(w, R, d)
    BY <2>1, <2>2, <2>3, Zenon
  <2>. QED
    BY <2>4, Zenon DEF DigitsValue
<1>9. \A k \in 1 .. w : d[k] \in Nat
  BY <1>4, <1>5, <1>6
<1> HIDE DEF d
<1>10. F = CHOOSE f : f = [k \in 0 .. w |-> IF k = 0 THEN 0 ELSE f[k - 1] * TwoTo[Width] + d[k]]
  BY Zenon DEF R
<1> HIDE DEF F
<1>11. ReadFrom(F, w, Width, d)
  BY <1>1, <1>2, <1>9, <1>10, ReadingExists
<1>12. HasDigits(d, v, Width, w)
  BY <1>6, Zenon DEF HasDigits
<1>13. F[w] = v % TwoTo[Width * w]
  BY <1>1, <1>2, <1>11, <1>12, DigitsRead
<1> DEFINE P == TwoTo[Width * w]
<1>14. P \in Nat \ {0} /\ v < P
  BY <1>1, <1>2, PowerOfDigits
<1> HIDE DEF P
<1>15. v % P = v
  BY <1>2, <1>14
<1>. QED
  BY <1>3, <1>8, <1>13, <1>15, Zenon DEF P

(* The numbers of a call for size bytes.                                   *)
BlocksIn(size) == AE!CeilDiv(size, PrfSize)
CounterAt(kind, i) == IF kind = "mgf1" THEN i - 1 ELSE i
Announced(size, field) ==
  IF field.method = "Key" THEN Width * size ELSE (Width * PrfSize) * BlocksIn(size)

(* What validation has established of a field, and of the first ones.      *)
GoodField(kind, size, v, field) ==
  /\ field.kind = "counter" => \A i \in 1 .. BlocksIn(size) : Holding(field.format, CounterAt(kind, i))
  /\ field.kind = "length" => Holding(field.format, v) /\ v = Announced(size, field)
Good(kind, size, v, list, last) == \A f \in 1 .. last : GoodField(kind, size, v, list[f])
NoCounter(list, last) == \A g \in 1 .. last : list[g].kind # "counter"
OneCounter(list, last) ==
  \E f \in 1 .. last : \A g \in 1 .. last : list[g].kind = "counter" <=> g = f

LEMMA KdfNumbers ==
  /\ KD!Blocks = BlocksIn(output_length) /\ KD!KeyBits = Width * output_length
  /\ \A i : KD!CounterOf(i) = CounterAt(kdf, i)
  /\ \A field : Announced(output_length, field) =
       IF field.method = "Key" THEN KD!KeyBits ELSE KD!SegmentBits
<1>1. KD!Blocks = BlocksIn(output_length)
  BY Zenon DEF KD!Blocks, KD!CeilDiv, AE!CeilDiv, BlocksIn
<1>2. KD!KeyBits = Width * output_length
  BY DEF KD!KeyBits
<1>3. \A i : KD!CounterOf(i) = CounterAt(kdf, i)
  BY DEF KD!CounterOf, CounterAt
<1>4. KD!SegmentBits = (Width * PrfSize) * BlocksIn(output_length)
  BY <1>1, Zenon DEF KD!SegmentBits
<1>. QED
  BY <1>1, <1>2, <1>3, <1>4, Zenon DEF Announced

LEMMA GoodFieldsAreTrue ==
  ASSUME KD!WidthsFit, Good(kdf, output_length, length, fields, Len(fields)),
         OneCounter(fields, Len(fields))
  PROVE  KD!FieldsAreTrue
<1>1. ASSUME NEW i \in 1 .. KD!Blocks, NEW f \in 1 .. Len(fields), fields[f].kind = "counter"
      PROVE  KD!Decoded(fields[f].format, KD!InputOf(i)[f]) = KD!CounterOf(i)
  <2>1. KD!InputOf(i)[f] = KD!Encoded(fields[f].format, KD!CounterOf(i))
    BY <1>1 DEF KD!InputOf
  <2>2. i \in 1 .. BlocksIn(output_length)
    BY KdfNumbers
  <2>3. Holding(fields[f].format, CounterAt(kdf, i))
    BY <1>1, <2>2, Zenon DEF Good, GoodField
  <2>4. Holding(fields[f].format, KD!CounterOf(i))
    BY <2>3, KdfNumbers, Zenon
  <2>. QED
    BY <2>1, <2>4, DecodesEncoded, Zenon
<1>2. ASSUME NEW i \in 1 .. KD!Blocks, NEW f \in 1 .. Len(fields), fields[f].kind = "length"
      PROVE  KD!Decoded(fields[f].format, KD!InputOf(i)[f]) =
               IF fields[f].method = "Key" THEN KD!KeyBits ELSE KD!SegmentBits
  <2>1. KD!InputOf(i)[f] = KD!Encoded(fields[f].format, length)
    BY <1>2 DEF KD!InputOf
  <2>2. Holding(fields[f].format, length) /\ length = Announced(output_length, fields[f])
    BY <1>2, Zenon DEF Good, GoodField
  <2>3. KD!Decoded(fields[f].format, KD!Encoded(fields[f].format, length)) = length
    BY <2>2, DecodesEncoded, Zenon
  <2>4. Announced(output_length, fields[f]) =
          IF fields[f].method = "Key" THEN KD!KeyBits ELSE KD!SegmentBits
    BY KdfNumbers, Zenon
  <2>. QED
    BY <2>1, <2>2, <2>3, <2>4, Zenon
<1>. QED
  BY <1>1, <1>2, Zenon DEF KD!FieldsAreTrue, OneCounter

LEMMA KdfBlocks ==
  ASSUME KD!WidthsFit, NEW size \in Nat
  PROVE  /\ BlocksIn(size) \in Nat /\ BlocksIn(size) * PrfSize \in Nat
         /\ size <= BlocksIn(size) * PrfSize /\ BlocksIn(size) * PrfSize < size + PrfSize
         /\ \A field : Announced(size, field) \in Nat
<1>1. PrfSize \in Nat \ {0} /\ Width \in Nat
  BY KdfRadix
<1>2. /\ BlocksIn(size) \in Nat /\ BlocksIn(size) * PrfSize \in Nat
      /\ size <= BlocksIn(size) * PrfSize /\ BlocksIn(size) * PrfSize < size + PrfSize
  BY <1>1, RoundedCount DEF BlocksIn
<1>3. Width * size \in Nat
  BY <1>1
<1>4. (Width * PrfSize) * BlocksIn(size) \in Nat
  <2> DEFINE c == BlocksIn(size)
             u == Width * PrfSize
  <2>1. c \in Nat /\ u \in Nat
    BY <1>1, <1>2
  <2> HIDE DEF c, u
  <2>2. u * c \in Nat
    BY <2>1
  <2>. QED
    BY <2>2 DEF u, c
<1>. QED
  BY <1>2, <1>3, <1>4, Zenon DEF Announced

(* The fixed layouts.                                                      *)
LEMMA BigEndianHolds ==
  ASSUME KD!WidthsFit, NEW count \in Nat, NEW v \in Nat, v < TwoTo[Width * count]
  PROVE  Holding(KD!BigEndian(count), v)
<1>1. Width \in Nat \ {0}
  BY KdfRadix
<1>2. count * Width = Width * count /\ count * Width \in Nat
  BY <1>1
<1>3. (count * Width + 0) % Width = 0
  <2>1. 0 \in 0 .. Width - 1
    BY <1>1
  <2>. QED
    BY <1>1, <2>1, OneMoreDigit
<1>4. (count * Width) % Width = 0
  <2>1. count * Width + 0 = count * Width
    BY <1>2
  <2>. QED
    BY <1>3, <2>1, Zenon
<1>5. KD!BigEndian(count).width_bits = count * Width
  BY DEF KD!BigEndian
<1>. QED
  BY <1>2, <1>4, <1>5, Zenon DEF Holding

LEMMA Scp03IsGood ==
  ASSUME KD!WidthsFit, NEW size \in Nat, Width * size < TwoTo[Width * 2],
         BlocksIn(size) <= TwoTo[Width] - 1
  PROVE  LET list == KD!Scp03Fields
         IN  Good("scp03", size, Width * size, list, Len(list)) /\ OneCounter(list, Len(list))
<1> DEFINE list == KD!Scp03Fields
<1>1. /\ Len(list) = 4 /\ list[1].kind = "bytes" /\ list[4].kind = "bytes"
      /\ list[2].kind = "length" /\ list[2].format = KD!BigEndian(2) /\ list[2].method = "Key"
      /\ list[3].kind = "counter" /\ list[3].format = KD!BigEndian(1)
  BY DEF KD!Scp03Fields, KD!BytesField
<1> HIDE DEF list
<1>2. BlocksIn(size) \in Nat /\ Width * size \in Nat /\ TwoTo[Width] \in Nat /\ Width * 1 = Width
  <2>1. Width \in Nat /\ TwoTo[Width] \in Nat
    BY KdfRadix
  <2>2. BlocksIn(size) \in Nat
    BY KdfBlocks
  <2>3. Width * size \in Nat /\ Width * 1 = Width
    BY <2>1
  <2>. QED
    BY <2>1, <2>2, <2>3
<1>3. Holding(KD!BigEndian(2), Width * size) /\ Width * size = Announced(size, list[2])
  <2>1. Announced(size, list[2]) = Width * size
    BY <1>1, Zenon DEF Announced
  <2>. QED
    BY <1>2, <2>1, BigEndianHolds
<1>4. ASSUME NEW i \in 1 .. BlocksIn(size) PROVE Holding(KD!BigEndian(1), CounterAt("scp03", i))
  <2>1. CounterAt("scp03", i) = i
    BY DEF CounterAt
  <2>2. i \in Nat /\ i < TwoTo[Width * 1]
    BY <1>2
  <2>. QED
    BY <2>1, <2>2, BigEndianHolds
<1>5. \A f \in 1 .. 4 : f = 1 \/ f = 2 \/ f = 3 \/ f = 4
  OBVIOUS
<1> DEFINE G(f) == GoodField("scp03", size, Width * size, list[f])
<1>6. G(1) /\ G(4)
  BY <1>1 DEF GoodField
<1>7. G(2)
  BY <1>1, <1>3 DEF GoodField
<1>8. G(3)
  BY <1>1, <1>4 DEF GoodField
<1>9. OneCounter(list, 4)
  <2>1. 3 \in 1 .. 4 /\ \A g \in 1 .. 4 : list[g].kind = "counter" <=> g = 3
    BY <1>1, <1>5
  <2>. QED
    BY <2>1, Zenon DEF OneCounter
<1>10. \A f \in 1 .. 4 : G(f)
  <2> HIDE DEF G
  <2>. QED
    BY <1>5, <1>6, <1>7, <1>8, Zenon
<1>. QED
  BY <1>1, <1>9, <1>10, Zenon DEF Good, list

(* X963Fields and Mgf1Fields: the counter is the second of two or three.   *)
LEMMA HashedIsGood ==
  ASSUME KD!WidthsFit, NEW size \in Nat, NEW kind, NEW v, NEW list, NEW last \in {2, 3},
         \A f \in 1 .. last : f # 2 => list[f].kind = "bytes",
         list[2].kind = "counter", list[2].format = KD!BigEndian(4),
         \A i \in 1 .. BlocksIn(size) :
           CounterAt(kind, i) \in Nat /\ CounterAt(kind, i) < TwoTo[Width * 4]
  PROVE  Good(kind, size, v, list, last) /\ OneCounter(list, last)
<1>1. ASSUME NEW i \in 1 .. BlocksIn(size) PROVE Holding(KD!BigEndian(4), CounterAt(kind, i))
  BY BigEndianHolds
<1>2. GoodField(kind, size, v, list[2])
  BY <1>1 DEF GoodField
<1>3. ASSUME NEW f \in 1 .. last, f # 2 PROVE GoodField(kind, size, v, list[f])
  BY <1>3 DEF GoodField
<1>4. OneCounter(list, last)
  <2>1. 2 \in 1 .. last /\ \A g \in 1 .. last : list[g].kind = "counter" <=> g = 2
    OBVIOUS
  <2>. QED
    BY <2>1, Zenon DEF OneCounter
<1>. QED
  BY <1>2, <1>3, <1>4, Zenon DEF Good

LEMMA FixedIsGood ==
  ASSUME KD!WidthsFit, NEW size \in Nat, NEW kind \in {"x963_sha256", "x963", "mgf1"}, NEW v, NEW list,
         list = IF kind = "mgf1" THEN KD!Mgf1Fields ELSE KD!X963Fields,
         BlocksIn(size) <= IF kind = "mgf1" THEN TwoTo[Width * 4] ELSE TwoTo[Width * 4] - 1
  PROVE  Good(kind, size, v, list, Len(list)) /\ OneCounter(list, Len(list))
<1>1. /\ Len(list) \in {2, 3} /\ list[2].kind = "counter" /\ list[2].format = KD!BigEndian(4)
      /\ \A f \in 1 .. Len(list) : f # 2 => list[f].kind = "bytes"
  <2> DEFINE x == KD!X963Fields
  <2>1. /\ Len(x) = 3 /\ x[1].kind = "bytes" /\ x[3].kind = "bytes" /\ x[2].kind = "counter"
        /\ x[2].format = KD!BigEndian(4)
    BY DEF KD!X963Fields, KD!BytesField
  <2>2. CASE kind = "mgf1"
    <3>1. list = SubSeq(x, 1, 2)
      BY <2>2 DEF KD!Mgf1Fields
    <3>2. x \in Seq({x[1], x[2], x[3]})
      BY DEF KD!X963Fields
    <3> HIDE DEF x
    <3>3. Len(list) = 2 /\ list[1] = x[1] /\ list[2] = x[2]
      BY <2>1, <3>1, <3>2
    <3>. QED
      BY <2>1, <3>3
  <2>3. CASE kind # "mgf1"
    <3>1. list = x
      BY <2>3
    <3> HIDE DEF x
    <3>. QED
      BY <2>1, <3>1
  <2>. QED
    BY <2>2, <2>3
<1>2. \A i \in 1 .. BlocksIn(size) :
        CounterAt(kind, i) \in Nat /\ CounterAt(kind, i) < TwoTo[Width * 4]
  <2> TAKE i \in 1 .. BlocksIn(size)
  <2> DEFINE P == TwoTo[Width * 4]
  <2>1. BlocksIn(size) \in Nat
    BY KdfBlocks
  <2>2. P \in Nat
    BY KdfRadix, PowerOfDigits
  <2> HIDE DEF P
  <2>3. CASE kind = "mgf1"
    <3>1. BlocksIn(size) <= P /\ CounterAt(kind, i) = i - 1
      BY <2>3 DEF CounterAt, P
    <3>2. i - 1 \in Nat /\ i - 1 < P
      BY <2>1, <2>2, <3>1
    <3>. QED
      BY <3>1, <3>2 DEF P
  <2>4. CASE kind # "mgf1"
    <3>1. BlocksIn(size) <= P - 1 /\ CounterAt(kind, i) = i
      BY <2>4 DEF CounterAt, P
    <3>2. i \in Nat /\ i < P
      BY <2>1, <2>2, <3>1
    <3>. QED
      BY <3>1, <3>2 DEF P
  <2>. QED
    BY <2>3, <2>4
<1>. QED
  BY <1>1, <1>2, HashedIsGood

(* The state of a derivation, by where it is: the fields before position   *)
(* are valid and at most one is a counter; then all of them are, and the   *)
(* output is the leading bytes of the blocks before iteration.             *)
GoodCall(kind, list, size, extra) ==
  /\ size \in Nat
  /\ \/ kind = "cmac_counter" /\ list \in UNION {[1 .. c -> Fields] : c \in 0 .. MaxFields}
     \/ /\ kind = "scp03" /\ extra \in 0 .. 1 /\ list = KD!Scp03Fields
        /\ Width * size + extra < TwoTo[Width * 2]
     \/ kind \in {"x963_sha256", "x963"} /\ list = KD!X963Fields
     \/ kind = "mgf1" /\ list = KD!Mgf1Fields
Scanned(kind, list, size, v, at, seen) ==
  /\ kind = "cmac_counter" /\ at \in 1 .. Len(list) + 1 /\ seen \in BOOLEAN
  /\ Good(kind, size, v, list, at - 1)
  /\ seen = TRUE => OneCounter(list, at - 1)
  /\ seen = FALSE => NoCounter(list, at - 1)
Place(k) == <<((k - 1) \div PrfSize) + 1, ((k - 1) % PrfSize) + 1>>
Derived(kind, size, next, bytes) ==
  /\ next \in 1 .. BlocksIn(size) + 1 /\ bytes \in Seq(Nat \X Nat)
  /\ Len(bytes) = IF kind \in {"cmac_counter", "x963"} /\ size < (next - 1) * PrfSize
                    THEN size ELSE (next - 1) * PrfSize
  /\ \A k \in 1 .. Len(bytes) : bytes[k] = Place(k)
Exact(size, bytes, outcome) ==
  bytes = IF outcome # "ok" THEN << >> ELSE [k \in 1 .. size |-> Place(k)]
KdfState(kind, list, size, extra, where, at, seen, v, next, bytes, outcome) ==
  /\ GoodCall(kind, list, size, extra)
  /\ where \in {"start", "validate", "derive", "done"}
  /\ where = "start" => at = 1 /\ seen = FALSE /\ v = -1 /\ next = 1 /\ bytes = << >>
  /\ where = "validate" => Scanned(kind, list, size, v, at, seen) /\ next = 1 /\ bytes = << >>
  /\ where = "derive" => /\ Good(kind, size, v, list, Len(list)) /\ OneCounter(list, Len(list))
                         /\ Derived(kind, size, next, bytes)
  /\ where = "done" => Exact(size, bytes, outcome)
KdfInv == KdfState(kdf, fields, output_length, extra_bits, pc, position, counter, length,
                   iteration, output, result)

LEMMA KdfInvAfter ==
  KdfState(kdf', fields', output_length', extra_bits', pc', position', counter', length',
           iteration', output', result') => KdfInv'
  BY DEF KdfInv, KdfState, GoodCall, Scanned, Place, Derived, Exact, Good, GoodField, NoCounter,
         OneCounter, Holding, Announced, CounterAt, BlocksIn, AE!CeilDiv, KD!Scp03Fields,
         KD!X963Fields, KD!Mgf1Fields, KD!BytesField, KD!BigEndian

LEMMA KdfInvInit == ASSUME KD!WidthsFit, KD!FieldsFit, KD!Init PROVE KdfInv
<1>1. output_length \in Nat
  BY DEF KD!Init, KD!WidthsFit
<1>2. GoodCall(kdf, fields, output_length, extra_bits)
  <2>1. KD!TwoTo = TwoTo
    BY KdfRadix
  <2>. QED
    BY <1>1, <2>1, Zenon DEF KD!Init, GoodCall, KD!KeyBits
<1>. QED
  BY <1>2 DEF KD!Init, KdfInv, KdfState, KD!None

LEMMA KdfFails ==
  ASSUME KdfInv, NEW outcome, outcome # "ok", KD!Fail(outcome) PROVE KdfInv'
<1>1. /\ kdf' = kdf /\ fields' = fields /\ output_length' = output_length /\ extra_bits' = extra_bits
      /\ pc' = "done" /\ result' = outcome /\ output' = << >>
  BY DEF KD!Fail, KD!Finish, KD!call
<1>2. GoodCall(kdf', fields', output_length', extra_bits')
  BY <1>1, Zenon DEF KdfInv, KdfState
<1>3. Exact(output_length', output', result')
  BY <1>1, Zenon DEF Exact
<1>4. KdfState(kdf', fields', output_length', extra_bits', pc', position', counter', length',
           iteration', output', result')
  BY <1>1, <1>2, <1>3 DEF KdfState
<1>. QED
  BY <1>4, KdfInvAfter

LEMMA DerivedFirst ==
  ASSUME KD!WidthsFit, NEW kind, NEW size \in Nat PROVE Derived(kind, size, 1, << >>)
<1>1. BlocksIn(size) \in Nat /\ PrfSize \in Nat
  BY KdfBlocks, KdfRadix
<1>2. (1 - 1) * PrfSize = 0 /\ ~(size < 0) /\ 1 \in 1 .. BlocksIn(size) + 1
  BY <1>1
<1>. QED
  BY <1>2 DEF Derived

LEMMA StartFixedKeeps ==
  ASSUME KD!WidthsFit, KdfInv, KD!StartFixed PROVE KdfInv'
<1>1. CASE ~KD!WholeBytes /\ KD!Fail("parameters")
  BY <1>1, KdfFails
<1>2. CASE ~KD!InLimits /\ KD!Fail("too_long")
  BY <1>2, KdfFails
<1>3. CASE /\ KD!WholeBytes /\ KD!InLimits /\ length' = KD!KeyBits /\ pc' = "derive"
           /\ UNCHANGED <<KD!call, position, counter, iteration, inputs, output, result>>
  <2>1. /\ kdf' = kdf /\ fields' = fields /\ output_length' = output_length /\ extra_bits' = extra_bits
        /\ pc' = "derive" /\ length' = Width * output_length /\ iteration' = iteration /\ output' = output
    BY <1>3, KdfNumbers DEF KD!call
  <2>2. /\ GoodCall(kdf, fields, output_length, extra_bits) /\ iteration = 1 /\ output = << >>
        /\ output_length \in Nat /\ kdf # "cmac_counter"
    BY DEF KD!StartFixed, KdfInv, KdfState, GoodCall
  <2>3. Derived(kdf', output_length', iteration', output')
    BY <2>1, <2>2, DerivedFirst, Zenon
  <2>4. /\ Good(kdf, output_length, Width * output_length, fields, Len(fields))
        /\ OneCounter(fields, Len(fields))
    <3>1. KD!TwoTo = TwoTo /\ KD!Radix = TwoTo[Width] /\ Width \in Nat
      BY KdfRadix
    <3>2. CASE kdf = "scp03"
      <4>1. /\ extra_bits = 0 /\ fields = KD!Scp03Fields
            /\ Width * output_length + extra_bits < TwoTo[Width * 2]
        BY <1>3, <2>2, <3>2 DEF KD!WholeBytes, GoodCall
      <4>2. Width * output_length < TwoTo[Width * 2]
        <5>1. Width * output_length \in Nat
          BY <2>2, <3>1
        <5>. QED
          BY <4>1, <5>1
      <4>3. BlocksIn(output_length) <= TwoTo[Width] - 1
        <5>1. KD!CounterLimit = KD!Radix - 1
          BY <3>2 DEF KD!CounterLimit
        <5>. QED
          BY <1>3, <3>1, <5>1, KdfNumbers, Zenon DEF KD!InLimits
      <4>. QED
        BY <2>2, <3>2, <4>1, <4>2, <4>3, Scp03IsGood, Zenon
    <3>3. CASE kdf # "scp03"
      <4>1. /\ kdf \in {"x963_sha256", "x963", "mgf1"}
            /\ fields = IF kdf = "mgf1" THEN KD!Mgf1Fields ELSE KD!X963Fields
        BY <2>2, <3>3 DEF GoodCall
      <4>2. KD!CounterLimit = IF kdf = "mgf1" THEN KD!TwoTo[Width * 4] ELSE KD!TwoTo[Width * 4] - 1
        BY <3>3 DEF KD!CounterLimit
      <4>3. BlocksIn(output_length) <=
              IF kdf = "mgf1" THEN TwoTo[Width * 4] ELSE TwoTo[Width * 4] - 1
        BY <1>3, <3>1, <4>2, KdfNumbers, Zenon DEF KD!InLimits
      <4>. QED
        BY <2>2, <4>1, <4>3, FixedIsGood
    <3>. QED
      BY <3>2, <3>3
  <2>5. /\ Good(kdf', output_length', length', fields', Len(fields'))
        /\ OneCounter(fields', Len(fields')) /\ GoodCall(kdf', fields', output_length', extra_bits')
    BY <2>1, <2>2, <2>4, Zenon
  <2>6. KdfState(kdf', fields', output_length', extra_bits', pc', position', counter', length',
             iteration', output', result')
    BY <2>1, <2>3, <2>5 DEF KdfState
  <2>. QED
    BY <2>6, KdfInvAfter
<1>. QED
  BY <1>1, <1>2, <1>3 DEF KD!StartFixed

LEMMA StartKeeps == ASSUME KD!WidthsFit, KdfInv, KD!Start PROVE KdfInv'
<1>1. CASE KD!Fail("parameters")
  BY <1>1, KdfFails
<1>2. CASE /\ pc' = "validate"
           /\ UNCHANGED <<KD!call, position, counter, length, iteration, inputs, output, result>>
  <2>1. /\ kdf' = kdf /\ fields' = fields /\ output_length' = output_length /\ extra_bits' = extra_bits
        /\ pc' = "validate" /\ length' = length /\ iteration' = iteration /\ output' = output
        /\ position' = position /\ counter' = counter
    BY <1>2 DEF KD!call
  <2>2. /\ GoodCall(kdf, fields, output_length, extra_bits) /\ iteration = 1 /\ output = << >>
        /\ kdf = "cmac_counter" /\ position = 1 /\ counter = FALSE
    BY DEF KD!Start, KdfInv, KdfState
  <2>3. Len(fields) \in Nat
    <3>1. PICK c \in 0 .. MaxFields : fields \in [1 .. c -> Fields]
      BY <2>2 DEF GoodCall
    <3>2. c \in Nat
      BY DEF KD!WidthsFit
    <3>. QED
      BY <3>1, <3>2
  <2>4. Scanned(kdf, fields, output_length, length, position, counter)
    <3>1. position \in 1 .. Len(fields) + 1 /\ position - 1 = 0 /\ \A f \in 1 .. 0 : FALSE
      BY <2>2, <2>3
    <3>2. Good(kdf, output_length, length, fields, position - 1) /\ NoCounter(fields, position - 1)
      BY <3>1, Zenon DEF Good, NoCounter
    <3>. QED
      BY <2>2, <3>1, <3>2 DEF Scanned
  <2>5. /\ Scanned(kdf', fields', output_length', length', position', counter')
        /\ GoodCall(kdf', fields', output_length', extra_bits')
    BY <2>1, <2>2, <2>4, Zenon
  <2>6. KdfState(kdf', fields', output_length', extra_bits', pc', position', counter', length',
             iteration', output', result')
    BY <2>1, <2>2, <2>5 DEF KdfState
  <2>. QED
    BY <2>6, KdfInvAfter
<1>. QED
  BY <1>1, <1>2 DEF KD!Start

(* One more field.                                                         *)
LEMMA ScannedNext ==
  ASSUME NEW kind, NEW list, NEW size, NEW v, NEW at \in Nat \ {0}, Good(kind, size, v, list, at - 1),
         GoodField(kind, size, v, list[at])
  PROVE  Good(kind, size, v, list, at)
<1>1. \A f \in 1 .. at : f \in 1 .. at - 1 \/ f = at
  OBVIOUS
<1>. QED
  BY <1>1, Zenon DEF Good

LEMMA OneCounterNext ==
  ASSUME NEW list, NEW at \in Nat \ {0}
  PROVE  /\ OneCounter(list, at - 1) /\ list[at].kind # "counter" => OneCounter(list, at)
         /\ NoCounter(list, at - 1) /\ list[at].kind = "counter" => OneCounter(list, at)
         /\ NoCounter(list, at - 1) /\ list[at].kind # "counter" => NoCounter(list, at)
<1>1. /\ \A f \in 1 .. at : f \in 1 .. at - 1 \/ f = at
      /\ \A f \in 1 .. at - 1 : f \in 1 .. at /\ f # at
      /\ at \in 1 .. at
  OBVIOUS
<1>2. ASSUME OneCounter(list, at - 1), list[at].kind # "counter" PROVE OneCounter(list, at)
  <2>1. PICK f \in 1 .. at - 1 : \A g \in 1 .. at - 1 : list[g].kind = "counter" <=> g = f
    BY <1>2, Zenon DEF OneCounter
  <2>2. \A g \in 1 .. at : list[g].kind = "counter" <=> g = f
    BY <1>1, <1>2, <2>1
  <2>. QED
    BY <1>1, <2>2, Zenon DEF OneCounter
<1>3. ASSUME NoCounter(list, at - 1), list[at].kind = "counter" PROVE OneCounter(list, at)
  <2>1. \A g \in 1 .. at : list[g].kind = "counter" <=> g = at
    BY <1>1, <1>3 DEF NoCounter
  <2>. QED
    BY <1>1, <2>1, Zenon DEF OneCounter
<1>4. ASSUME NoCounter(list, at - 1), list[at].kind # "counter" PROVE NoCounter(list, at)
  BY <1>1, <1>4, Zenon DEF NoCounter
<1>. QED
  BY <1>2, <1>3, <1>4, Zenon

(* The field that is validated.                                            *)
LEMMA AtField ==
  ASSUME KD!WidthsFit, KD!FieldsFit, KdfInv, pc = "validate", position <= Len(fields)
  PROVE  /\ GoodCall(kdf, fields, output_length, extra_bits)
         /\ Scanned(kdf, fields, output_length, length, position, counter)
         /\ iteration = 1 /\ output = << >> /\ output_length \in Nat
         /\ Len(fields) \in Nat /\ position \in Nat \ {0} /\ (position + 1) - 1 = position
         /\ position + 1 \in 1 .. Len(fields) + 1
         /\ fields[position].kind \in {"counter", "length"} => fields[position].format.width_bits \in Nat
<1>1. /\ GoodCall(kdf, fields, output_length, extra_bits)
      /\ Scanned(kdf, fields, output_length, length, position, counter)
      /\ iteration = 1 /\ output = << >>
  BY DEF KdfInv, KdfState
<1>2. output_length \in Nat /\ kdf = "cmac_counter" /\ position \in 1 .. Len(fields) + 1
  BY <1>1 DEF GoodCall, Scanned
<1>3. PICK c \in 0 .. MaxFields : fields \in [1 .. c -> Fields]
  BY <1>1, <1>2 DEF GoodCall
<1>4. c \in Nat /\ Len(fields) = c
  <2>1. c \in Nat
    BY DEF KD!WidthsFit
  <2>. QED
    BY <1>3, <2>1
<1>5. position \in Nat \ {0} /\ position \in 1 .. c
  BY <1>2, <1>4
<1>6. fields[position] \in Fields
  BY <1>3, <1>5
<1>7. fields[position].kind \in {"counter", "length"} => fields[position].format.width_bits \in Nat
  <2> DEFINE x == fields[position]
  <2>1. \/ x \in [kind : {"bytes"}, bytes : Seq(0 .. KD!Radix - 1)]
        \/ x \in [kind : {"counter"}, format : KD!FormatType]
        \/ x \in [kind : {"length"}, format : KD!FormatType, method : {"Key", "Segments"}]
    BY <1>6 DEF KD!FieldsFit
  <2> HIDE DEF x
  <2>2. x.kind \in {"counter", "length"} => x.format \in KD!FormatType
    BY <2>1
  <2>3. x.kind \in {"counter", "length"} => x.format.width_bits \in Nat
    BY <2>2 DEF KD!FormatType
  <2>. QED
    BY <2>3 DEF x
<1>. QED
  BY <1>1, <1>2, <1>4, <1>5, <1>7

LEMMA NextFieldKeeps ==
  ASSUME KD!WidthsFit, KD!FieldsFit, KdfInv, pc = "validate", position <= Len(fields),
         NEW seen \in BOOLEAN, NEW v, KD!NextField(seen, v),
         Good(kdf, output_length, v, fields, position),
         seen = TRUE => OneCounter(fields, position), seen = FALSE => NoCounter(fields, position)
  PROVE  KdfInv'
<1>1. /\ kdf' = kdf /\ fields' = fields /\ output_length' = output_length /\ extra_bits' = extra_bits
      /\ pc' = "validate" /\ length' = v /\ iteration' = iteration /\ output' = output
      /\ position' = position + 1 /\ counter' = seen
  BY DEF KD!NextField, KD!call
<1>2. /\ GoodCall(kdf, fields, output_length, extra_bits)
      /\ Scanned(kdf, fields, output_length, length, position, counter)
      /\ iteration = 1 /\ output = << >> /\ (position + 1) - 1 = position
      /\ position + 1 \in 1 .. Len(fields) + 1
  BY AtField
<1>3. kdf = "cmac_counter"
  BY <1>2, Zenon DEF Scanned
<1>4. Scanned(kdf, fields, output_length, v, position + 1, seen)
  BY <1>2, <1>3, Zenon DEF Scanned
<1>5. /\ Scanned(kdf', fields', output_length', length', position', counter')
      /\ GoodCall(kdf', fields', output_length', extra_bits')
  BY <1>1, <1>2, <1>4, Zenon
<1>6. KdfState(kdf', fields', output_length', extra_bits', pc', position', counter', length',
           iteration', output', result')
  BY <1>1, <1>2, <1>5 DEF KdfState
<1>. QED
  BY <1>6, KdfInvAfter

LEMMA ValidateBytesKeeps ==
  ASSUME KD!WidthsFit, KD!FieldsFit, KdfInv, KD!ValidateBytes PROVE KdfInv'
<1>1. /\ pc = "validate" /\ position <= Len(fields) /\ fields[position].kind = "bytes"
      /\ KD!NextField(counter, length)
  BY DEF KD!ValidateBytes
<1>2. Scanned(kdf, fields, output_length, length, position, counter) /\ position \in Nat \ {0}
  BY <1>1, AtField
<1>3. GoodField(kdf, output_length, length, fields[position])
  BY <1>1 DEF GoodField
<1>4. /\ Good(kdf, output_length, length, fields, position - 1) /\ counter \in BOOLEAN
      /\ counter = TRUE => OneCounter(fields, position - 1)
      /\ counter = FALSE => NoCounter(fields, position - 1)
  BY <1>2, Zenon DEF Scanned
<1>5. Good(kdf, output_length, length, fields, position)
  BY <1>2, <1>3, <1>4, ScannedNext, Zenon
<1>6. fields[position].kind # "counter"
  BY <1>1
<1>7. /\ counter = TRUE => OneCounter(fields, position)
      /\ counter = FALSE => NoCounter(fields, position)
  BY <1>2, <1>4, <1>6, OneCounterNext, Zenon
<1>. QED
  BY <1>1, <1>4, <1>5, <1>7, NextFieldKeeps

LEMMA ValidFormat ==
  ASSUME KD!WidthsFit, NEW format, NEW most, format.width_bits \in Nat, KD!Valid(format, most),
         NEW v \in Nat, KD!Fits(format, v)
  PROVE  Holding(format, v)
<1>1. KD!TwoTo = TwoTo
  BY KdfRadix
<1>. QED
  BY <1>1, Zenon DEF KD!Valid, KD!Fits, Holding

LEMMA ValidateCounterKeeps ==
  ASSUME KD!WidthsFit, KD!FieldsFit, KdfInv, KD!ValidateCounter PROVE KdfInv'
<1> DEFINE format == fields[position].format
<1>1. pc = "validate" /\ position <= Len(fields) /\ fields[position].kind = "counter"
  BY DEF KD!ValidateCounter
<1>2. CASE KD!Fail("parameters") \/ KD!Fail("too_long")
  BY <1>2, KdfFails
<1>3. CASE /\ KD!Valid(format, CounterBits) /\ ~counter /\ KD!Fits(format, KD!Blocks)
           /\ KD!NextField(TRUE, length)
  <2>1. /\ Scanned(kdf, fields, output_length, length, position, counter) /\ position \in Nat \ {0}
        /\ output_length \in Nat /\ format.width_bits \in Nat
    BY <1>1, AtField
  <2>2. /\ Good(kdf, output_length, length, fields, position - 1) /\ counter = FALSE
        /\ NoCounter(fields, position - 1) /\ kdf = "cmac_counter"
    BY <1>3, <2>1, Zenon DEF Scanned
  <2>3. ASSUME NEW i \in 1 .. BlocksIn(output_length) PROVE Holding(format, CounterAt(kdf, i))
    <3>1. CounterAt(kdf, i) = i
      BY <2>2 DEF CounterAt
    <3> DEFINE c == BlocksIn(output_length)
               P == TwoTo[format.width_bits]
    <3>2. c \in Nat
      BY <2>1, KdfBlocks
    <3>3. Holding(format, c)
      <4>1. KD!Fits(format, c)
        BY <1>3, KdfNumbers, Zenon
      <4> HIDE DEF c, format
      <4>. QED
        BY <1>3, <2>1, <3>2, <4>1, ValidFormat
    <3>4. format.width_bits \in Nat /\ format.width_bits % Width = 0 /\ c < P
      BY <3>3, Zenon DEF Holding
    <3>5. P \in Nat
      BY <2>1, PowersOfTwo
    <3> HIDE DEF c, P
    <3>6. i \in 1 .. c
      BY DEF c
    <3>7. i \in Nat /\ i < P
      BY <3>2, <3>4, <3>5, <3>6
    <3>. QED
      BY <3>1, <3>4, <3>7, Zenon DEF Holding, P
  <2>4. GoodField(kdf, output_length, length, fields[position])
    BY <1>1, <2>3 DEF GoodField
  <2>5. Good(kdf, output_length, length, fields, position)
    BY <2>1, <2>2, <2>4, ScannedNext, Zenon
  <2>6. OneCounter(fields, position)
    BY <1>1, <2>1, <2>2, OneCounterNext, Zenon
  <2>. QED
    BY <1>1, <1>3, <2>5, <2>6, NextFieldKeeps
<1>. QED
  BY <1>2, <1>3 DEF KD!ValidateCounter

LEMMA ValidateLengthKeeps ==
  ASSUME KD!WidthsFit, KD!FieldsFit, KdfInv, KD!ValidateLength PROVE KdfInv'
<1> DEFINE format == fields[position].format
           bits == IF fields[position].method = "Key" THEN KD!KeyBits ELSE KD!SegmentBits
<1>1. pc = "validate" /\ position <= Len(fields) /\ fields[position].kind = "length"
  BY DEF KD!ValidateLength
<1>2. CASE KD!Fail("parameters") \/ KD!Fail("too_long")
  BY <1>2, KdfFails
<1>3. CASE /\ KD!Valid(format, LengthBits) /\ length = KD!None /\ KD!Fits(format, bits)
           /\ KD!NextField(counter, bits)
  <2>1. /\ Scanned(kdf, fields, output_length, length, position, counter) /\ position \in Nat \ {0}
        /\ output_length \in Nat /\ format.width_bits \in Nat
    BY <1>1, AtField
  <2>2. /\ Good(kdf, output_length, length, fields, position - 1) /\ counter \in BOOLEAN
        /\ counter = TRUE => OneCounter(fields, position - 1)
        /\ counter = FALSE => NoCounter(fields, position - 1)
    BY <2>1, Zenon DEF Scanned
  <2>3. bits = Announced(output_length, fields[position])
    BY KdfNumbers, Zenon
  <2>4. bits \in Nat
    BY <2>1, <2>3, KdfBlocks, Zenon
  <2>5. Holding(format, bits)
    <3> HIDE DEF format, bits
    <3>. QED
      BY <1>3, <2>1, <2>4, ValidFormat
  <2>6. GoodField(kdf, output_length, bits, fields[position])
    <3> HIDE DEF bits
    <3>. QED
      BY <1>1, <2>3, <2>5 DEF GoodField
  <2>7. Good(kdf, output_length, bits, fields, position - 1)
    <3> SUFFICES ASSUME NEW f \in 1 .. position - 1
                 PROVE  GoodField(kdf, output_length, bits, fields[f])
      BY Zenon DEF Good
    <3>1. GoodField(kdf, output_length, length, fields[f])
      BY <2>2, Zenon DEF Good
    <3>2. fields[f].kind # "length"
      <4>1. SUFFICES ASSUME fields[f].kind = "length" PROVE FALSE
        OBVIOUS
      <4>2. length \in Nat
        BY <3>1, <4>1, Zenon DEF GoodField, Holding
      <4>. QED
        BY <1>3, <4>2 DEF KD!None
    <3>. QED
      BY <3>1, <3>2, Zenon DEF GoodField
  <2>8. Good(kdf, output_length, bits, fields, position)
    <3> HIDE DEF bits
    <3>. QED
      BY <2>1, <2>6, <2>7, ScannedNext, Zenon
  <2>9. fields[position].kind # "counter"
    BY <1>1
  <2>10. /\ counter = TRUE => OneCounter(fields, position)
         /\ counter = FALSE => NoCounter(fields, position)
    BY <2>1, <2>2, <2>9, OneCounterNext, Zenon
  <2> HIDE DEF bits
  <2>. QED
    BY <1>1, <1>3, <2>2, <2>8, <2>10, NextFieldKeeps
<1>. QED
  BY <1>2, <1>3 DEF KD!ValidateLength

LEMMA EndOfFieldsKeeps ==
  ASSUME KD!WidthsFit, KD!FieldsFit, KdfInv, KD!EndOfFields PROVE KdfInv'
<1>1. CASE KD!Fail("parameters")
  BY <1>1, KdfFails
<1>2. CASE /\ counter /\ pc' = "derive"
           /\ UNCHANGED <<KD!call, position, counter, length, iteration, inputs, output, result>>
  <2>1. /\ kdf' = kdf /\ fields' = fields /\ output_length' = output_length /\ extra_bits' = extra_bits
        /\ pc' = "derive" /\ length' = length /\ iteration' = iteration /\ output' = output
    BY <1>2 DEF KD!call
  <2>2. /\ GoodCall(kdf, fields, output_length, extra_bits) /\ iteration = 1 /\ output = << >>
        /\ Scanned(kdf, fields, output_length, length, position, counter) /\ position > Len(fields)
    BY DEF KD!EndOfFields, KdfInv, KdfState
  <2>3. output_length \in Nat /\ Len(fields) \in Nat
    <3>1. kdf = "cmac_counter"
      BY <2>2, Zenon DEF Scanned
    <3>2. PICK c \in 0 .. MaxFields : fields \in [1 .. c -> Fields]
      BY <2>2, <3>1 DEF GoodCall
    <3>3. c \in Nat
      BY DEF KD!WidthsFit
    <3>. QED
      BY <2>2, <3>2, <3>3 DEF GoodCall
  <2>4. position - 1 = Len(fields)
    BY <2>2, <2>3 DEF Scanned
  <2>5. Good(kdf, output_length, length, fields, Len(fields)) /\ OneCounter(fields, Len(fields))
    <3>1. counter = TRUE
      BY <1>2, <2>2, Zenon DEF Scanned
    <3>. QED
      BY <2>2, <2>4, <3>1, Zenon DEF Scanned
  <2>6. Derived(kdf, output_length, iteration, output)
    BY <2>2, <2>3, DerivedFirst, Zenon
  <2>7. /\ Good(kdf', output_length', length', fields', Len(fields'))
        /\ OneCounter(fields', Len(fields')) /\ GoodCall(kdf', fields', output_length', extra_bits')
        /\ Derived(kdf', output_length', iteration', output')
    BY <2>1, <2>2, <2>5, <2>6, Zenon
  <2>8. KdfState(kdf', fields', output_length', extra_bits', pc', position', counter', length',
             iteration', output', result')
    BY <2>1, <2>7 DEF KdfState
  <2>. QED
    BY <2>8, KdfInvAfter
<1>. QED
  BY <1>1, <1>2 DEF KD!EndOfFields

(* The next block.                                                         *)
LEMMA BlocksBefore ==
  ASSUME KD!WidthsFit, NEW size \in Nat, NEW j \in Nat, j + 1 <= BlocksIn(size)
  PROVE  j * PrfSize \in Nat /\ j * PrfSize < size /\ (j + 1) * PrfSize = j * PrfSize + PrfSize
<1> DEFINE c == BlocksIn(size)
<1>1. c \in Nat /\ c * PrfSize \in Nat /\ c * PrfSize < size + PrfSize /\ PrfSize \in Nat \ {0}
  BY KdfBlocks, KdfRadix
<1> HIDE DEF c
<1>2. (j + 1) * PrfSize <= c * PrfSize
  BY <1>1 DEF c
<1>3. (j + 1) * PrfSize = j * PrfSize + PrfSize /\ j * PrfSize \in Nat
  BY <1>1
<1> DEFINE u == j * PrfSize
           w == c * PrfSize
<1>4. u \in Nat /\ w \in Nat /\ u + PrfSize <= w /\ w < size + PrfSize /\ PrfSize \in Nat
  BY <1>1, <1>2, <1>3
<1> HIDE DEF u, w
<1>5. u < size
  BY <1>4
<1>. QED
  BY <1>3, <1>5 DEF u

LEMMA PlaceIs ==
  ASSUME KD!WidthsFit, NEW j \in Nat, NEW e \in 1 .. PrfSize
  PROVE  Place(j * PrfSize + e) = <<j + 1, e>>
<1>1. PrfSize \in Nat \ {0}
  BY KdfRadix
<1> DEFINE x == e - 1
<1>2. x \in 0 .. PrfSize - 1 /\ x + 1 = e
  BY <1>1
<1>3. j * PrfSize \in Nat
  BY <1>1
<1>4. (j * PrfSize + e) - 1 = j * PrfSize + x
  <2> DEFINE u == j * PrfSize
  <2>1. u \in Nat
    BY <1>3
  <2> HIDE DEF u
  <2>2. (u + e) - 1 = u + x
    BY <1>1, <2>1
  <2>. QED
    BY <2>2 DEF u
<1> HIDE DEF x
<1>5. (j * PrfSize + x) \div PrfSize = j /\ (j * PrfSize + x) % PrfSize = x
  BY <1>1, <1>2, OneMoreDigit
<1>. QED
  BY <1>2, <1>4, <1>5, Zenon DEF Place

LEMMA DerivedNext ==
  ASSUME KD!WidthsFit, NEW kind, NEW size \in Nat, NEW next, NEW bytes, Derived(kind, size, next, bytes),
         next <= BlocksIn(size), NEW more,
         more = IF size - Len(bytes) < PrfSize /\ kind \in {"cmac_counter", "x963"}
                  THEN size - Len(bytes) ELSE PrfSize
  PROVE  Derived(kind, size, next + 1, bytes \o [k \in 1 .. more |-> <<next, k>>])
<1> DEFINE j == next - 1
           u == j * PrfSize
           S == Nat \X Nat
           t == [k \in 1 .. more |-> <<next, k>>]
           z == bytes \o t
           cut == kind \in {"cmac_counter", "x963"}
<1>1. /\ BlocksIn(size) \in Nat /\ next \in 1 .. BlocksIn(size) + 1 /\ bytes \in Seq(S)
      /\ Len(bytes) = IF cut /\ size < u THEN size ELSE u
      /\ \A k \in 1 .. Len(bytes) : bytes[k] = Place(k)
  BY KdfBlocks DEF Derived
<1>2. next \in Nat /\ j \in Nat /\ j + 1 = next /\ PrfSize \in Nat \ {0} /\ (next + 1) - 1 = next
  BY <1>1, KdfRadix
<1>3. u \in Nat /\ u < size /\ next * PrfSize = u + PrfSize
  <2>1. j + 1 <= BlocksIn(size)
    BY <1>2
  <2> HIDE DEF j
  <2>2. j * PrfSize \in Nat /\ j * PrfSize < size /\ (j + 1) * PrfSize = j * PrfSize + PrfSize
    BY <1>2, <2>1, BlocksBefore
  <2>. QED
    BY <1>2, <2>2, Zenon
<1> HIDE DEF u
<1>4. Len(bytes) = u
  BY <1>1, <1>3
<1>5. /\ more \in 1 .. PrfSize
      /\ u + more = IF cut /\ size < next * PrfSize THEN size ELSE next * PrfSize
  <2>1. more = IF size - u < PrfSize /\ cut THEN size - u ELSE PrfSize
    BY <1>4, Zenon
  <2> DEFINE w == next * PrfSize
  <2>2. w = u + PrfSize
    BY <1>3
  <2> HIDE DEF w, cut
  <2>3. more \in 1 .. PrfSize /\ u + more = IF cut /\ size < w THEN size ELSE w
    BY <1>2, <1>3, <2>1, <2>2
  <2>. QED
    BY <2>3 DEF w
<1>6. t \in Seq(S) /\ Len(t) = more /\ \A k \in 1 .. more : t[k] = <<next, k>>
  <2>1. more \in Nat /\ \A k \in 1 .. more : <<next, k>> \in S
    BY <1>2, <1>5
  <2>2. t \in [1 .. more -> S] /\ \A k \in 1 .. more : t[k] = <<next, k>>
    BY <2>1
  <2> HIDE DEF t, S
  <2>. QED
    BY <2>1, <2>2
<1> HIDE DEF t, S
<1>7. /\ z \in Seq(S) /\ Len(z) = u + more
      /\ \A k \in 1 .. u + more : z[k] = IF k <= u THEN bytes[k] ELSE t[k - u]
  <2>1. /\ z \in Seq(S) /\ Len(z) = Len(bytes) + Len(t)
        /\ \A k \in 1 .. Len(bytes) + Len(t) : z[k] = IF k <= Len(bytes) THEN bytes[k]
                                                      ELSE t[k - Len(bytes)]
    BY <1>1, <1>6, ConcatProperties
  <2> HIDE DEF z
  <2>. QED
    BY <1>4, <1>6, <2>1, Zenon
<1> HIDE DEF z
<1>8. ASSUME NEW k \in 1 .. u + more PROVE z[k] = Place(k)
  <2>1. CASE k <= u
    <3>1. k \in 1 .. Len(bytes)
      BY <1>3, <1>4, <2>1
    <3>. QED
      BY <1>1, <1>7, <2>1, <3>1, Zenon
  <2>2. CASE ~(k <= u)
    <3> DEFINE e == k - u
    <3>1. e \in 1 .. more /\ e \in 1 .. PrfSize /\ u + e = k
      BY <1>2, <1>3, <1>5, <2>2
    <3> HIDE DEF e
    <3>2. z[k] = <<next, e>>
      BY <1>6, <1>7, <2>2, <3>1 DEF e
    <3>3. Place(j * PrfSize + e) = <<j + 1, e>>
      <4> HIDE DEF j
      <4>. QED
        BY <1>2, <3>1, PlaceIs
    <3>. QED
      BY <1>2, <3>1, <3>2, <3>3, Zenon DEF u
  <2>. QED
    BY <2>1, <2>2
<1>9. next + 1 \in 1 .. BlocksIn(size) + 1
  BY <1>1, <1>2
<1>10. \A k \in 1 .. Len(z) : z[k] = Place(k)
  BY <1>7, <1>8, Zenon
<1>11. Len(z) = IF cut /\ size < ((next + 1) - 1) * PrfSize THEN size ELSE ((next + 1) - 1) * PrfSize
  BY <1>2, <1>5, <1>7, Zenon
<1>12. Derived(kind, size, next + 1, z)
  BY <1>7, <1>9, <1>10, <1>11, Zenon DEF Derived, S
<1>. QED
  BY <1>12 DEF z, t

LEMMA DerivedAll ==
  ASSUME KD!WidthsFit, NEW kind, NEW size \in Nat, NEW next, NEW bytes, Derived(kind, size, next, bytes),
         next > BlocksIn(size)
  PROVE  SubSeq(bytes, 1, size) = [k \in 1 .. size |-> Place(k)]
<1> DEFINE c == BlocksIn(size)
           w == (next - 1) * PrfSize
           S == Nat \X Nat
<1>1. /\ c \in Nat /\ next \in 1 .. c + 1 /\ bytes \in Seq(S)
      /\ Len(bytes) = IF kind \in {"cmac_counter", "x963"} /\ size < w THEN size ELSE w
      /\ \A k \in 1 .. Len(bytes) : bytes[k] = Place(k)
  BY KdfBlocks DEF Derived
<1>2. next - 1 = c
  BY <1>1
<1>3. w \in Nat /\ size <= w
  BY <1>2, KdfBlocks
<1> HIDE DEF w, S
<1>4. Len(bytes) \in Nat /\ size <= Len(bytes)
  BY <1>1, <1>3
<1> DEFINE z == SubSeq(bytes, 1, size)
<1>5. z = [k \in 1 .. size |-> bytes[k]]
  <2>1. z = [k \in 1 .. (size - 1) + 1 |-> bytes[(k + 1) - 1]]
    BY <1>1, <1>4
  <2>2. (size - 1) + 1 = size /\ \A k \in 1 .. size : (k + 1) - 1 = k
    OBVIOUS
  <2> HIDE DEF z
  <2>. QED
    BY <2>1, <2>2
<1>6. \A k \in 1 .. size : bytes[k] = Place(k)
  BY <1>1, <1>4
<1> HIDE DEF z
<1>7. z = [k \in 1 .. size |-> Place(k)]
  BY <1>5, <1>6, Zenon
<1>. QED
  BY <1>7 DEF z

LEMMA DeriveBlockKeeps ==
  ASSUME KD!WidthsFit, KdfInv, KD!DeriveBlock PROVE KdfInv'
<1> DEFINE bytes == output \o [k \in 1 .. KD!Remaining |-> <<iteration, k>>]
<1>1. /\ kdf' = kdf /\ fields' = fields /\ output_length' = output_length /\ extra_bits' = extra_bits
      /\ pc' = "derive" /\ length' = length /\ iteration' = iteration + 1 /\ output' = bytes
  BY DEF KD!DeriveBlock, KD!call
<1>2. /\ GoodCall(kdf, fields, output_length, extra_bits)
      /\ Good(kdf, output_length, length, fields, Len(fields)) /\ OneCounter(fields, Len(fields))
      /\ Derived(kdf, output_length, iteration, output) /\ iteration <= KD!Blocks
  BY DEF KD!DeriveBlock, KdfInv, KdfState
<1>3. output_length \in Nat /\ iteration <= BlocksIn(output_length)
  BY <1>2, KdfNumbers DEF GoodCall
<1>4. Derived(kdf, output_length, iteration + 1, bytes)
  <2> DEFINE more == KD!Remaining
  <2>1. more = IF output_length - Len(output) < PrfSize /\ kdf \in {"cmac_counter", "x963"}
                 THEN output_length - Len(output) ELSE PrfSize
    BY DEF KD!Remaining
  <2> HIDE DEF more
  <2>2. Derived(kdf, output_length, iteration + 1, output \o [k \in 1 .. more |-> <<iteration, k>>])
    BY <1>2, <1>3, <2>1, DerivedNext, Zenon
  <2>. QED
    BY <2>2 DEF more
<1> HIDE DEF bytes
<1>5. /\ Good(kdf', output_length', length', fields', Len(fields'))
      /\ OneCounter(fields', Len(fields')) /\ GoodCall(kdf', fields', output_length', extra_bits')
      /\ Derived(kdf', output_length', iteration', output')
  BY <1>1, <1>2, <1>4, Zenon
<1>6. KdfState(kdf', fields', output_length', extra_bits', pc', position', counter', length',
           iteration', output', result')
  BY <1>1, <1>5 DEF KdfState
<1>. QED
  BY <1>6, KdfInvAfter

LEMMA ReturnKeeps == ASSUME KD!WidthsFit, KdfInv, KD!Return PROVE KdfInv'
<1>1. /\ kdf' = kdf /\ fields' = fields /\ output_length' = output_length /\ extra_bits' = extra_bits
      /\ pc' = "done" /\ result' = "ok" /\ output' = SubSeq(output, 1, output_length)
  BY DEF KD!Return, KD!Finish, KD!call
<1>2. /\ GoodCall(kdf, fields, output_length, extra_bits)
      /\ Derived(kdf, output_length, iteration, output) /\ iteration > KD!Blocks
  BY DEF KD!Return, KdfInv, KdfState
<1>3. output_length \in Nat /\ iteration > BlocksIn(output_length)
  BY <1>2, KdfNumbers DEF GoodCall
<1>4. SubSeq(output, 1, output_length) = [k \in 1 .. output_length |-> Place(k)]
  BY <1>2, <1>3, DerivedAll, Zenon
<1>5. Exact(output_length', output', result')
  BY <1>1, <1>4, Zenon DEF Exact
<1>6. GoodCall(kdf', fields', output_length', extra_bits')
  BY <1>1, <1>2, Zenon
<1>7. KdfState(kdf', fields', output_length', extra_bits', pc', position', counter', length',
           iteration', output', result')
  BY <1>1, <1>5, <1>6 DEF KdfState
<1>. QED
  BY <1>7, KdfInvAfter

LEMMA KdfInvNext ==
  ASSUME KD!WidthsFit, KD!FieldsFit, KdfInv, [KD!Next]_KD!vars PROVE KdfInv'
<1>1. CASE KD!CmacFails
  BY <1>1, KdfFails DEF KD!CmacFails
<1>2. CASE UNCHANGED KD!vars
  <2>1. /\ kdf' = kdf /\ fields' = fields /\ output_length' = output_length /\ extra_bits' = extra_bits
        /\ pc' = pc /\ position' = position /\ counter' = counter /\ length' = length
        /\ iteration' = iteration /\ output' = output /\ result' = result
    BY <1>2 DEF KD!vars, KD!call
  <2>2. KdfState(kdf', fields', output_length', extra_bits', pc', position', counter', length',
             iteration', output', result')
    BY <2>1, Zenon DEF KdfInv
  <2>. QED
    BY <2>2, KdfInvAfter
<1>. QED
  BY <1>1, <1>2, StartFixedKeeps, StartKeeps, ValidateBytesKeeps, ValidateCounterKeeps,
     ValidateLengthKeeps, EndOfFieldsKeeps, DeriveBlockKeeps, ReturnKeeps DEF KD!Next

LEMMA KdfInvDerives == ASSUME KD!WidthsFit, KdfInv PROVE KD!DerivesExactly
<1>1. ASSUME pc = "derive" PROVE KD!FieldsAreTrue
  <2>1. /\ Good(kdf, output_length, length, fields, Len(fields)) /\ OneCounter(fields, Len(fields))
    BY <1>1 DEF KdfInv, KdfState
  <2>. QED
    BY <2>1, GoodFieldsAreTrue
<1>2. ASSUME pc = "done" PROVE KD!OutputIsExact
  <2>1. Exact(output_length, output, result)
    BY <1>2 DEF KdfInv, KdfState
  <2>. QED
    BY <2>1, Zenon DEF Exact, Place, KD!OutputIsExact
<1>. QED
  BY <1>1, <1>2, Zenon DEF KD!DerivesExactly

(* For any widths, fields and output lengths: when one of the key          *)
(* derivations starts to derive, its fields hold exactly one counter, and  *)
(* the counter of every block and every announced length are read back as  *)
(* what they stand for, in either byte order; when it has returned, the    *)
(* output is the requested number of leading bytes of the blocks, or       *)
(* nothing when it failed.                                                 *)
THEOREM DerivationsAreExact ==
  ASSUME KD!WidthsFit, KD!FieldsFit
  PROVE  SymmetricSpec => []DerivesExactly
<1> DEFINE PartInv == part = "kdf" => KdfInv
<1>1. SymmetricInit => PartInv
  BY KdfInvInit DEF SymmetricInit
<1>2. PartInv /\ [SymmetricNext]_symmetric => PartInv'
  BY KdfStepIs, KdfInvNext
<1>3. PartInv => DerivesExactly
  BY KdfInvDerives DEF DerivesExactly
<1>. QED
  BY <1>1, <1>2, <1>3, PTL DEF SymmetricSpec
=============================================================================
