------------------------------- MODULE BigUint -------------------------------
(***************************************************************************)
(* What the RSA modules take from the num-bigint and num-integer crates,   *)
(* and the reference definitions of divisors and primes.                   *)
(***************************************************************************)
EXTENDS Integers, Powers

CeilDiv(x, y) == (x + y - 1) \div y

Bits(n) ==
  LET bits[k \in Nat] == IF k = 0 THEN 0 ELSE 1 + bits[k \div 2] IN bits[n]

ModPow(base, exponent, n) ==
  LET pow[k \in Nat] ==
        IF k = 0 THEN 1 % n
        ELSE LET half == pow[k \div 2]
                 square == (half * half) % n
             IN  IF k % 2 = 0 THEN square ELSE (square * (base % n)) % n
  IN  pow[exponent]

Gcd(x, y) ==
  LET gcd[p \in Nat \X Nat] == IF p[2] = 0 THEN p[1] ELSE gcd[<<p[2], p[1] % p[2]>>]
  IN  gcd[<<x, y>>]
Lcm(x, y) == (x \div Gcd(x, y)) * y

TrailingZeros(n) == CHOOSE k \in 0 .. Bits(n) : n % TwoTo[k] = 0 /\ n % TwoTo[k + 1] # 0

Divides(d, n) == n % d = 0
IsPrime(n) == n > 1 /\ \A d \in 2 .. n - 1 : d * d <= n => ~Divides(d, n)
=============================================================================
