---------------------------- MODULE Brainpool512 ----------------------------
(* verify_prehash of brainpool512.rs: ECDSA verification with its own point *)
(* arithmetic in Jacobian coordinates, over a smaller curve of prime order  *)
(* and smaller octets.                                                      *)
EXTENDS Integers, Sequences

CONSTANTS P, A, B, N, GeneratorX, GeneratorY,   \* the curve and its order
          ByteBits, OrderBits, CoordinateLength,
          PublicKeys, Digests, Coordinates,     \* the inputs tried
          Points,                               \* the multiples of the generator
          None

VARIABLES input, answer

ByteRadix == 2 ^ ByteBits
BytesNumber(bytes) ==
  LET value[i \in 0 .. Len(bytes)] == IF i = 0 THEN 0 ELSE value[i - 1] * ByteRadix + bytes[i]
  IN  value[Len(bytes)]
Inverse(x, modulus) == CHOOSE y \in 1 .. modulus - 1 : (x * y) % modulus = 1

Point(x, y, z) == [x |-> x, y |-> y, z |-> z]
Infinity == Point(0, 1, 0)
Generator == Point(GeneratorX, GeneratorY, 1)

mod_sub(left, right) ==
  IF left >= right THEN (left - right) % P ELSE P - ((right - left) % P)

double(point) ==
  LET xx == (point.x * point.x) % P
      yy == (point.y * point.y) % P
      yyyy == (yy * yy) % P
      zz == (point.z * point.z) % P
      x_plus_yy == (point.x + yy) % P
      s == (2 * mod_sub(mod_sub((x_plus_yy * x_plus_yy) % P, xx), yyyy)) % P
      m == (3 * xx + A * zz * zz) % P
      x == mod_sub((m * m) % P, (2 * s) % P)
      y == mod_sub((m * mod_sub(s, x)) % P, (8 * yyyy) % P)
  IN  IF point.z = 0 \/ point.y = 0 THEN Infinity
      ELSE Point(x, y, (2 * point.y * point.z) % P)

(* Mutant: two points with the same x always cancel.                        *)
Cancel(left, s1, s2) == Infinity

(* Points with the same x are equal or opposite.                            *)
SameX(left, s1, s2) == IF s1 = s2 THEN double(left) ELSE Infinity

add(left, right) ==
  LET z1z1 == (left.z * left.z) % P
      z2z2 == (right.z * right.z) % P
      u1 == (left.x * z2z2) % P
      u2 == (right.x * z1z1) % P
      s1 == (left.y * right.z * z2z2) % P
      s2 == (right.y * left.z * z1z1) % P
      h == mod_sub(u2, u1)
      two_h == (2 * h) % P
      i == (two_h * two_h) % P
      j == (h * i) % P
      r == (2 * mod_sub(s2, s1)) % P
      v == (u1 * i) % P
      x == mod_sub(mod_sub((r * r) % P, j), (2 * v) % P)
      y == mod_sub((r * mod_sub(v, x)) % P, (2 * s1 * j) % P)
      z_sum == (left.z + right.z) % P
      z == mod_sub(mod_sub((z_sum * z_sum) % P, z1z1), z2z2)
  IN  CASE left.z = 0 -> right
        [] left.z # 0 /\ right.z = 0 -> left
        [] left.z # 0 /\ right.z # 0 /\ u1 = u2 -> SameX(left, s1, s2)
        [] OTHER -> Point(x, y, (z * h) % P)

(* Bit by bit from the first octet of the longer scalar; one addition per   *)
(* bit, with the sum of the two points where both bits are set.             *)
ByteLength(x) == CHOOSE l \in 1 .. CoordinateLength : x < ByteRadix ^ l /\ (l = 1 \/ x >= ByteRadix ^ (l - 1))
multiply_sum(left_scalar, left, right_scalar, right) ==
  LET longer == IF left_scalar >= right_scalar THEN left_scalar ELSE right_scalar
      bits == ByteLength(longer) * ByteBits
      bit(x, i) == (x \div 2 ^ (bits - i)) % 2
      combined == add(left, right)
      Step(result, i) ==
        CASE bit(left_scalar, i) = 0 /\ bit(right_scalar, i) = 0 -> result
          [] bit(left_scalar, i) = 1 /\ bit(right_scalar, i) = 0 -> add(result, left)
          [] bit(left_scalar, i) = 0 /\ bit(right_scalar, i) = 1 -> add(result, right)
          [] OTHER -> add(result, combined)
      after[i \in 0 .. bits] == IF i = 0 THEN Infinity ELSE Step(double(after[i - 1]), i)
  IN  after[bits]

OnCurve(x, y) == (y * y) % P = (x * x * x + A * x + B) % P

(* The digest's leading bits as a number.                                   *)
DigestNumber(digest) ==
  LET bits == Len(digest) * ByteBits
  IN  IF bits > OrderBits THEN BytesNumber(digest) \div 2 ^ (bits - OrderBits)
      ELSE BytesNumber(digest)

verify_prehash(public, digest, r, s) ==
  LET w == Inverse(s, N)
      point == multiply_sum((DigestNumber(digest) * w) % N, Generator,
                            (r * w) % N, Point(public.x, public.y, 1))
      inverse == Inverse(point.z, P)
  IN  /\ public.well_formed
      /\ public.x < P /\ public.y < P /\ OnCurve(public.x, public.y)
      /\ r \in 1 .. N - 1 /\ s \in 1 .. N - 1
      /\ point.z # 0
      /\ ((point.x * inverse * inverse) % P) % N = r

-----------------------------------------------------------------------------
Init ==
  /\ input \in [public : PublicKeys, digest : Digests]
  /\ answer = None

Verify ==
  /\ answer = None
  /\ \E r, s \in Coordinates :
       answer' = [r |-> r, s |-> s, valid |-> verify_prehash(input.public, input.digest, r, s)]
  /\ UNCHANGED input

Next == Verify
Spec == Init /\ [][Next]_<<input, answer>>

-----------------------------------------------------------------------------
(* The reference: Points[k] is k times the generator, and a signature is    *)
(* what the private key of the public key makes with some k.                *)
Signs(d, k, digest, r, s) ==
  r = Points[k][1] % N /\ (s * k) % N = (DigestNumber(digest) + r * d) % N

(* EcdsaIsExact: a signature is accepted exactly if the private key of this *)
(* public key can make it over this digest, with numbers in range; for      *)
(* digests shorter and longer than the order (verify_prehash, add, double). *)
EcdsaIsExact ==
  answer # None =>
    (answer.valid <=>
       /\ input.public.well_formed /\ answer.r # 0 /\ answer.s # 0
       /\ answer.s < N
       /\ \E d, k \in 1 .. N - 1 :
            /\ Points[d] = <<input.public.x, input.public.y>>
            /\ Signs(d, k, input.digest, answer.r, answer.s))
=============================================================================
