---------------------------- MODULE NumberLemmas ----------------------------
(***************************************************************************)
(* Induction and recursion up to a number, stated with sets and functions  *)
(* where the library has operators, so that they can be applied: the loops *)
(* of the models are functions over 0 .. K.  Then powers of two, the       *)
(* digits of a number in a radix that is one, and its bits; and the number *)
(* theory behind RSA: congruence, divisors and primes, powers modulo a     *)
(* number, the greatest common divisor, Fermat's theorem, exponents that   *)
(* undo each other, and what shows that a number has two prime factors.    *)
(***************************************************************************)
EXTENDS BigUint, WellFoundedInduction, TLAPS

(* Induction up to K, for a set in place of a predicate.                   *)
LEMMA UpTo ==
  ASSUME NEW K \in Nat, NEW G, 0 \in G, \A i \in 1 .. K : i - 1 \in G => i \in G
  PROVE  \A i \in 0 .. K : i \in G
<1> DEFINE T == {i \in 0 .. K : i \notin G}
<1>1. SUFFICES ASSUME T # {} PROVE FALSE
  OBVIOUS
<1>2. T \subseteq Nat
  OBVIOUS
<1>3. PICK n \in T : \A m \in T : ~(<<m, n>> \in OpToRel(<, Nat))
  <2> HIDE DEF T
  <2>. QED
    BY <1>1, <1>2, WFMin, NatLessThanWellFounded
<1>4. n \in 1 .. K /\ n \notin G /\ n - 1 \in 0 .. K /\ n - 1 \in Nat /\ n \in Nat /\ n - 1 < n
  OBVIOUS
<1>5. <<n - 1, n>> \in OpToRel(<, Nat)
  BY <1>4 DEF OpToRel
<1>6. n - 1 \notin T
  BY <1>3, <1>5
<1>. QED
  BY <1>4, <1>6

(* f is a and what step i makes of the value before it.                    *)
Iterates(f, K, S, a, step) ==
  f \in [0 .. K -> S] /\ f[0] = a /\ \A i \in 1 .. K : f[i] = step[i][f[i - 1]]

(* A finite sequence of values, each computed from the one before, exists: *)
(* what a recursive function over 0 .. K is defined by can be satisfied.   *)
LEMMA IterationExists ==
  ASSUME NEW K \in Nat, NEW S, NEW a \in S, NEW step \in [1 .. K -> [S -> S]]
  PROVE  \E f : Iterates(f, K, S, a, step)
<1> DEFINE Computes(f, n) == Iterates(f, n, S, a, step)
           Reached == {n \in 0 .. K : \E f : Computes(f, n)}
<1>1. 0 \in Reached
  <2>1. Computes([i \in 0 .. 0 |-> a], 0)
    BY DEF Iterates
  <2> HIDE DEF Computes
  <2>. QED
    BY <2>1
<1>2. ASSUME NEW n \in 1 .. K, n - 1 \in Reached PROVE n \in Reached
  <2>1. n \in 0 .. K /\ \E f : Computes(f, n - 1)
    <3> HIDE DEF Computes
    <3>. QED
      BY <1>2
  <2>2. PICK f : Computes(f, n - 1)
    BY <2>1
  <2> DEFINE g == [i \in 0 .. n |-> IF i = n THEN step[n][f[n - 1]] ELSE f[i]]
  <2>3. f[n - 1] \in S /\ step[n][f[n - 1]] \in S
    BY <2>2 DEF Iterates
  <2>4. \A i \in 0 .. n : i = n \/ i \in 0 .. n - 1
    OBVIOUS
  <2>5. \A i \in 0 .. n - 1 : f[i] \in S /\ g[i] = f[i]
    BY <2>2 DEF Iterates
  <2>6. g \in [0 .. n -> S]
    BY <2>3, <2>4, <2>5
  <2>7. \A i \in 1 .. n : g[i] = step[i][g[i - 1]]
    BY <2>2, <2>5 DEF Iterates
  <2>8. g[0] = a
    BY <2>2, <2>5 DEF Iterates
  <2>9. Computes(g, n)
    BY <2>6, <2>7, <2>8 DEF Iterates
  <2> HIDE DEF Computes
  <2>. QED
    BY <2>1, <2>9
<1>3. \A i \in 0 .. K : i \in Reached
  <2> HIDE DEF Reached
  <2>. QED
    BY <1>1, <1>2, UpTo
<1>4. \E f : Computes(f, K)
  <2>1. K \in 0 .. K
    OBVIOUS
  <2> HIDE DEF Computes
  <2>. QED
    BY <1>3, <2>1
<1>. QED
  BY <1>4

-----------------------------------------------------------------------------
(* Induction over the natural numbers, for a set in place of a predicate.  *)
LEMMA Always ==
  ASSUME NEW G, 0 \in G, \A i \in Nat \ {0} : i - 1 \in G => i \in G
  PROVE  \A i \in Nat : i \in G
<1> TAKE i \in Nat
<1>1. \A j \in 1 .. i : j - 1 \in G => j \in G
  OBVIOUS
<1>2. \A j \in 0 .. i : j \in G
  BY <1>1, UpTo
<1>. QED
  BY <1>2

(* A recursive function over the natural numbers exists.                   *)
LEMMA DoublingExists ==
  \E f : f = [n \in Nat |-> IF n = 0 THEN 1 ELSE 2 * f[n - 1]]
<1> DEFINE Positive == Nat \ {0}
           step(K) == [i \in 1 .. K |-> [x \in Positive |-> 2 * x]]
           Doubles(f, K) == Iterates(f, K, Positive, 1, step(K))
           Chosen(K) == CHOOSE f : Doubles(f, K)
           g == [n \in Nat |-> Chosen(n)[n]]
<1>1. ASSUME NEW K \in Nat PROVE Doubles(Chosen(K), K)
  <2>1. 1 \in Positive /\ step(K) \in [1 .. K -> [Positive -> Positive]]
    OBVIOUS
  <2>2. \E f : Doubles(f, K)
    <3> HIDE DEF Positive, step
    <3>. QED
      BY <2>1, IterationExists
  <2> HIDE DEF Doubles
  <2>. QED
    BY <2>2
<1>2. ASSUME NEW K \in Nat
      PROVE  /\ Chosen(K) \in [0 .. K -> Positive] /\ Chosen(K)[0] = 1
             /\ \A i \in 1 .. K : Chosen(K)[i] = 2 * Chosen(K)[i - 1]
  <2> DEFINE f == Chosen(K)
  <2>1. /\ f \in [0 .. K -> Positive] /\ f[0] = 1
        /\ \A i \in 1 .. K : f[i] = step(K)[i][f[i - 1]]
    <3> HIDE DEF Positive, step, Chosen
    <3>. QED
      BY <1>1 DEF Iterates
  <2> HIDE DEF f
  <2>2. \A i \in 1 .. K : f[i - 1] \in Positive /\ step(K)[i][f[i - 1]] = 2 * f[i - 1]
    BY <2>1
  <2>. QED
    BY <2>1, <2>2 DEF f
<1> HIDE DEF Chosen
<1>3. ASSUME NEW n \in Nat \ {0} PROVE Chosen(n - 1)[n - 1] = Chosen(n)[n - 1]
  <2> DEFINE m == n - 1
             p == Chosen(m)
             q == Chosen(n)
             G == {i \in 0 .. m : p[i] = q[i]}
  <2>1. m \in Nat /\ n \in Nat /\ m + 1 = n
    OBVIOUS
  <2>2. /\ p[0] = 1 /\ q[0] = 1 /\ \A i \in 1 .. m : p[i] = 2 * p[i - 1]
        /\ \A i \in 1 .. n : q[i] = 2 * q[i - 1]
    BY <1>2, <2>1
  <2> HIDE DEF p, q, m
  <2>3. 0 \in G
    BY <2>1, <2>2
  <2>4. \A i \in 1 .. m : i - 1 \in G => i \in G
    BY <2>1, <2>2
  <2>5. \A i \in 0 .. m : i \in G
    <3> HIDE DEF G
    <3>. QED
      BY <2>1, <2>3, <2>4, UpTo
  <2>6. p[m] = q[m]
    BY <2>1, <2>5
  <2>. QED
    BY <2>6 DEF p, q, m
<1>4. ASSUME NEW n \in Nat PROVE g[n] = IF n = 0 THEN 1 ELSE 2 * g[n - 1]
  <2>1. CASE n = 0
    BY <1>2, <2>1
  <2>2. CASE n # 0
    <3>1. n - 1 \in Nat /\ n \in 1 .. n /\ n \in Nat \ {0}
      BY <2>2
    <3>2. g[n] = Chosen(n)[n] /\ g[n - 1] = Chosen(n - 1)[n - 1]
      BY <3>1
    <3>3. Chosen(n)[n] = 2 * Chosen(n)[n - 1]
      BY <1>2, <3>1
    <3>. QED
      BY <1>3, <2>2, <3>1, <3>2, <3>3
  <2>. QED
    BY <2>1, <2>2
<1>5. g = [n \in Nat |-> IF n = 0 THEN 1 ELSE 2 * g[n - 1]]
  <2>1. g = [n \in Nat |-> g[n]]
    OBVIOUS
  <2> HIDE DEF g
  <2>. QED
    BY <1>4, <2>1
<1>. QED
  BY <1>5

LEMMA PowersOfTwo ==
  /\ TwoTo[0] = 1 /\ \A n \in Nat : TwoTo[n] \in Nat \ {0}
  /\ \A n \in Nat \ {0} : TwoTo[n] = 2 * TwoTo[n - 1]
<1> DEFINE Loop(f) == f = [n \in Nat |-> IF n = 0 THEN 1 ELSE 2 * f[n - 1]]
<1>1. TwoTo = CHOOSE f : Loop(f)
  BY DEF TwoTo
<1>2. \E f : Loop(f)
  BY DoublingExists
<1>3. Loop(TwoTo)
  <2> HIDE DEF Loop
  <2>. QED
    BY <1>1, <1>2
<1>4. TwoTo[0] = 1 /\ \A n \in Nat \ {0} : TwoTo[n] = 2 * TwoTo[n - 1]
  BY <1>3
<1> DEFINE G == {n \in Nat : TwoTo[n] \in Nat \ {0}}
<1>5. 0 \in G /\ \A n \in Nat \ {0} : n - 1 \in G => n \in G
  BY <1>4
<1>6. \A n \in Nat : n \in G
  <2> HIDE DEF G
  <2>. QED
    BY <1>5, Always
<1>. QED
  BY <1>4, <1>6

LEMMA PowersAdd ==
  ASSUME NEW m \in Nat, NEW n \in Nat
  PROVE  TwoTo[m + n] = TwoTo[m] * TwoTo[n]
<1> DEFINE G == {i \in Nat : TwoTo[m + i] = TwoTo[m] * TwoTo[i]}
<1>1. TwoTo[m] \in Nat /\ m + 0 = m /\ TwoTo[m] * 1 = TwoTo[m]
  BY PowersOfTwo
<1>2. 0 \in G
  BY <1>1, PowersOfTwo
<1>3. ASSUME NEW i \in Nat \ {0}, i - 1 \in G PROVE i \in G
  <2> DEFINE p == TwoTo[m]
             q == TwoTo[i - 1]
             s == TwoTo[m + (i - 1)]
  <2>1. s = p * q /\ p \in Nat /\ q \in Nat /\ s \in Nat
    BY <1>3, PowersOfTwo
  <2>2. (m + i) - 1 = m + (i - 1) /\ m + i \in Nat \ {0}
    OBVIOUS
  <2>3. TwoTo[i] = 2 * q /\ TwoTo[m + i] = 2 * s
    BY <2>2, PowersOfTwo
  <2> HIDE DEF p, q, s
  <2>4. p * (2 * q) = 2 * (p * q)
    BY <2>1
  <2>. QED
    BY <2>1, <2>3, <2>4 DEF p
<1>4. \A i \in Nat : i \in G
  <2> HIDE DEF G
  <2>. QED
    BY <1>2, <1>3, Always
<1>. QED
  BY <1>4

(* The last digit of a remainder and the digits before it.                 *)
LEMMA RemainderSplits ==
  ASSUME NEW z \in Nat, NEW R \in Nat \ {0}, NEW M \in Nat \ {0}
  PROVE  ((z \div R) % M) * R + (z % R) = z % (M * R)
<1> DEFINE y == z \div R
           c == z % R
           h == y \div M
           g == y % M
<1>1. y \in Nat /\ c \in 0 .. R - 1 /\ z = R * y + c
  OBVIOUS
<1> HIDE DEF y, c
<1>2. h \in Nat /\ g \in 0 .. M - 1 /\ y = M * h + g
  BY <1>1
<1> HIDE DEF h, g
<1>3. R * y = R * (M * h) + R * g
  BY <1>2
<1>4. R * (M * h) = (M * R) * h /\ R * g = g * R /\ M * R \in Nat \ {0}
  BY <1>2
<1>5. z = (M * R) * h + (g * R + c)
  <2> DEFINE u == (M * R) * h
             w == g * R
  <2>1. u \in Nat /\ w \in Nat
    BY <1>2, <1>4
  <2>2. R * y = u + w
    BY <1>3, <1>4
  <2> HIDE DEF u, w
  <2>3. z = (u + w) + c /\ c \in Nat
    BY <1>1, <2>2
  <2>4. z = u + (w + c)
    BY <2>1, <2>3
  <2>. QED
    BY <2>4 DEF u, w
<1>6. g * R + c \in 0 .. M * R - 1
  <2>1. (g + 1) * R <= M * R /\ (g + 1) * R = g * R + R /\ g * R \in Nat
    BY <1>2
  <2>. QED
    BY <1>1, <1>4, <2>1
<1> DEFINE D == M * R
           e == g * R + c
<1>7. D \in Nat \ {0} /\ e \in 0 .. D - 1 /\ z = D * h + e /\ h \in Nat
  BY <1>2, <1>4, <1>5, <1>6
<1> HIDE DEF D, e
<1>8. z % D = e
  BY <1>7
<1>. QED
  BY <1>8 DEF D, e, y, c, g

-----------------------------------------------------------------------------
(* Digits of b bits, the last one number 0, and what reading w of them     *)
(* from the first one gives.                                               *)
Digit(v, b, j) == (v \div TwoTo[b * j]) % TwoTo[b]
HasDigits(d, v, b, w) == \A k \in 1 .. w : d[k] = Digit(v, b, w - k)
ReadFrom(f, w, b, d) ==
  /\ f \in [0 .. w -> Nat] /\ f[0] = 0
  /\ \A k \in 1 .. w : f[k] = f[k - 1] * TwoTo[b] + d[k]

LEMMA OneMoreDigit ==
  ASSUME NEW x \in Nat, NEW R \in Nat \ {0}, NEW e \in 0 .. R - 1
  PROVE  x * R + e \in Nat /\ (x * R + e) \div R = x /\ (x * R + e) % R = e
<1>1. x * R = R * x /\ R * x \in Nat
  OBVIOUS
<1>2. (R * x + e) \div R = x /\ (R * x + e) % R = e
  OBVIOUS
<1>. QED
  BY <1>1, <1>2

LEMMA OneMoreFits ==
  ASSUME NEW x \in Nat, NEW p \in Nat, NEW R \in Nat \ {0}, NEW e \in 0 .. R - 1, x <= p - 1
  PROVE  x * R + e <= p * R - 1
<1>1. (x + 1) * R <= p * R
  OBVIOUS
<1>2. (x + 1) * R = x * R + R /\ x * R \in Nat /\ p * R \in Nat
  OBVIOUS
<1> DEFINE u == x * R
           t == p * R
<1>3. u \in Nat /\ t \in Nat /\ u + R <= t
  BY <1>1, <1>2
<1> HIDE DEF u, t
<1>4. u + e <= t - 1
  BY <1>3
<1>. QED
  BY <1>4 DEF u, t

LEMMA QuotientIsNat == ASSUME NEW x \in Nat, NEW p \in Nat \ {0} PROVE x \div p \in Nat
  OBVIOUS

LEMMA ReadingExists ==
  ASSUME NEW w \in Nat, NEW b \in Nat, NEW d, \A k \in 1 .. w : d[k] \in Nat, NEW F,
         F = CHOOSE f : f = [k \in 0 .. w |-> IF k = 0 THEN 0 ELSE f[k - 1] * TwoTo[b] + d[k]]
  PROVE  ReadFrom(F, w, b, d)
<1> DEFINE R == TwoTo[b]
           Loop(f) == f = [k \in 0 .. w |-> IF k = 0 THEN 0 ELSE f[k - 1] * R + d[k]]
           step == [k \in 1 .. w |-> [x \in Nat |-> x * R + d[k]]]
<1>1. R \in Nat
  BY PowersOfTwo
<1>2. F = CHOOSE f : Loop(f)
  OBVIOUS
<1> HIDE DEF R
<1>3. step \in [1 .. w -> [Nat -> Nat]]
  BY <1>1
<1>4. PICK f : Iterates(f, w, Nat, 0, step)
  <2> HIDE DEF step
  <2>. QED
    BY <1>3, IterationExists
<1>5. /\ f \in [0 .. w -> Nat] /\ f[0] = 0
      /\ \A k \in 1 .. w : f[k] = f[k - 1] * R + d[k]
  <2>1. \A k \in 1 .. w : k - 1 \in 0 .. w
    OBVIOUS
  <2>. QED
    BY <1>4, <2>1 DEF Iterates
<1>6. Loop(f)
  <2>1. \A k \in 0 .. w : k # 0 => k \in 1 .. w
    OBVIOUS
  <2>. QED
    BY <1>5, <2>1
<1>7. Loop(F)
  <2> HIDE DEF Loop
  <2>. QED
    BY <1>2, <1>6
<1>8. F[0] = 0 /\ \A k \in 1 .. w : F[k] = F[k - 1] * R + d[k]
  <2>1. 0 \in 0 .. w /\ \A k \in 1 .. w : k \in 0 .. w /\ k # 0
    OBVIOUS
  <2>. QED
    BY <1>7, <2>1
<1>9. F \in [0 .. w -> Nat]
  <2> DEFINE G == {k \in 0 .. w : F[k] \in Nat}
  <2>1. 0 \in G
    <3>1. 0 \in 0 .. w /\ 0 \in Nat
      OBVIOUS
    <3>2. F[0] \in Nat
      BY <1>8, <3>1, Zenon
    <3>. QED
      BY <3>1, <3>2, Zenon
  <2>2. ASSUME NEW k \in 1 .. w, k - 1 \in G PROVE k \in G
    <3>1. \A x \in Nat, y \in Nat : x * R + y \in Nat
      BY <1>1
    <3>2. F[k - 1] \in Nat /\ d[k] \in Nat /\ k \in 0 .. w
      BY <2>2
    <3>. QED
      BY <1>8, <3>1, <3>2
  <2>3. \A k \in 0 .. w : k \in G
    <3> HIDE DEF G
    <3>. QED
      BY <2>1, <2>2, UpTo
  <2>. QED
    BY <1>7, <2>3
<1>. QED
  BY <1>8, <1>9 DEF ReadFrom, R

LEMMA PowerOfDigits ==
  ASSUME NEW b \in Nat, NEW j \in Nat
  PROVE  /\ b * j \in Nat /\ TwoTo[b * j] \in Nat \ {0} /\ TwoTo[b] \in Nat \ {0}
         /\ TwoTo[b * (j + 1)] = TwoTo[b * j] * TwoTo[b] /\ TwoTo[b * 0] = 1
<1>1. b * j \in Nat /\ b * (j + 1) = b * j + b /\ b * 0 = 0
  OBVIOUS
<1>. QED
  BY <1>1, PowersOfTwo, PowersAdd

LEMMA QuotientOfQuotient ==
  ASSUME NEW x \in Nat, NEW p \in Nat \ {0}, NEW q \in Nat \ {0}
  PROVE  x \div (p * q) = (x \div p) \div q
  OBVIOUS

(* The digits of a number give the number back, up to its width.           *)
LEMMA DigitsRead ==
  ASSUME NEW b \in Nat, NEW w \in Nat, NEW v \in Nat, NEW d,
         HasDigits(d, v, b, w), NEW f, ReadFrom(f, w, b, d)
  PROVE  f[w] = v % TwoTo[b * w]
<1> DEFINE R == TwoTo[b]
           P(j) == TwoTo[b * j]
           G == {k \in 0 .. w : f[k] = (v \div P(w - k)) % P(k)}
<1>1. R \in Nat \ {0} /\ P(0) = 1 /\ \A j \in Nat : P(j) \in Nat \ {0} /\ P(j + 1) = P(j) * R
  BY PowerOfDigits
<1>2. f[0] = 0 /\ \A k \in 1 .. w : f[k] = f[k - 1] * R + ((v \div P(w - k)) % R)
  <2>1. \A k \in 1 .. w : d[k] = (v \div P(w - k)) % R
    BY Zenon DEF HasDigits, Digit
  <2>. QED
    BY <2>1 DEF ReadFrom
<1> HIDE DEF R, P
<1>3. 0 \in G
  <2>1. w - 0 = w
    OBVIOUS
  <2>3. v \div P(w) \in Nat
    BY <1>1, QuotientIsNat, Zenon
  <2>2. \A x \in Nat : x % 1 = 0
    OBVIOUS
  <2>. QED
    BY <1>1, <1>2, <2>1, <2>2, <2>3
<1>4. ASSUME NEW k \in 1 .. w, k - 1 \in G PROVE k \in G
  <2> DEFINE q == P(w - k)
             M == P(k - 1)
             z == v \div q
  <2>1. w - k \in Nat /\ k - 1 \in Nat /\ (w - k) + 1 = w - (k - 1) /\ (k - 1) + 1 = k
    OBVIOUS
  <2>2. P(w - (k - 1)) = q * R /\ P(k) = M * R /\ q \in Nat \ {0} /\ M \in Nat \ {0}
    BY <1>1, <2>1
  <2>3. f[k - 1] = (v \div (q * R)) % M
    BY <1>4, <2>2
  <2>4. f[k] = f[k - 1] * R + (z % R)
    BY <1>2
  <2> HIDE DEF q, M
  <2>5. v \div (q * R) = z \div R /\ z \in Nat
    <3>1. R \in Nat \ {0} /\ q \in Nat \ {0}
      BY <1>1, <2>2, Zenon
    <3>2. v \div (q * R) = (v \div q) \div R
      BY <3>1, QuotientOfQuotient, Zenon
    <3>3. v \div q \in Nat
      BY <3>1, QuotientIsNat, Zenon
    <3>. QED
      BY <3>2, <3>3, Zenon
  <2>6. (z \div R) % M = f[k - 1]
    BY <2>3, <2>5
  <2> HIDE DEF z
  <2>7. ((z \div R) % M) * R + (z % R) = z % (M * R)
    BY <1>1, <2>2, <2>5, RemainderSplits, Zenon
  <2>8. f[k] = z % (M * R)
    BY <2>4, <2>6, <2>7, Zenon
  <2>. QED
    BY <2>2, <2>8 DEF z, q
<1>5. \A k \in 0 .. w : k \in G
  <2> HIDE DEF G
  <2>. QED
    BY <1>3, <1>4, UpTo
<1>6. f[w] = (v \div P(w - w)) % P(w) /\ w - w = 0
  BY <1>5
<1>7. v \div 1 = v
  OBVIOUS
<1>. QED
  BY <1>1, <1>6, <1>7 DEF P

(* Reading digits gives a number that fits and has these digits; what the  *)
(* leading k of them give is a quotient of it.                             *)
Leading(f, w, b) == \A k \in 0 .. w : f[w] \div TwoTo[b * (w - k)] = f[k]

LEMMA ReadDigits ==
  ASSUME NEW b \in Nat, NEW w \in Nat, NEW d, \A k \in 1 .. w : d[k] \in 0 .. TwoTo[b] - 1,
         NEW f, ReadFrom(f, w, b, d)
  PROVE  f[w] \in 0 .. TwoTo[b * w] - 1 /\ HasDigits(d, f[w], b, w) /\ Leading(f, w, b)
<1> DEFINE R == TwoTo[b]
           P(j) == TwoTo[b * j]
           Below == {k \in 0 .. w : f[k] <= P(k) - 1}
           G == {i \in 0 .. w : f[w] \div P(i) = f[w - i]}
<1>1. R \in Nat \ {0} /\ P(0) = 1 /\ \A j \in Nat : P(j) \in Nat \ {0} /\ P(j + 1) = P(j) * R
  BY PowerOfDigits
<1>2. /\ \A k \in 0 .. w : f[k] \in Nat
      /\ f[0] = 0 /\ \A k \in 1 .. w : f[k] = f[k - 1] * R + d[k]
      /\ \A k \in 1 .. w : d[k] \in 0 .. R - 1
  BY DEF ReadFrom
<1> HIDE DEF R, P
<1>3. f[w] \in 0 .. P(w) - 1
  <2>1. 0 \in Below
    BY <1>1, <1>2
  <2>2. ASSUME NEW k \in 1 .. w, k - 1 \in Below PROVE k \in Below
    <3> DEFINE x == f[k - 1]
               p == P(k - 1)
               e == d[k]
    <3>1. k - 1 \in Nat /\ (k - 1) + 1 = k /\ k - 1 \in 0 .. w
      OBVIOUS
    <3>2. P(k) = p * R /\ p \in Nat /\ x \in Nat /\ x <= p - 1 /\ f[k] = x * R + e /\ e \in 0 .. R - 1
      BY <1>1, <1>2, <2>2, <3>1
    <3> HIDE DEF x, p, e
    <3>3. x * R + e <= p * R - 1
      BY <1>1, <3>2, OneMoreFits, Zenon
    <3>4. f[k] <= P(k) - 1
      BY <3>2, <3>3, Zenon
    <3>. QED
      BY <3>4
  <2>3. \A k \in 0 .. w : k \in Below
    <3> HIDE DEF Below
    <3>. QED
      BY <2>1, <2>2, UpTo
  <2>. QED
    BY <1>1, <1>2, <2>3
<1>4. \A i \in 0 .. w : f[w] \div P(i) = f[w - i]
  <2>1. 0 \in G
    BY <1>1, <1>2
  <2>2. ASSUME NEW i \in 1 .. w, i - 1 \in G PROVE i \in G
    <3> DEFINE p == P(i - 1)
               x == f[w - i]
               e == d[w - (i - 1)]
               z == f[w]
    <3>1. i - 1 \in Nat /\ (i - 1) + 1 = i /\ w - i \in 0 .. w /\ w - (i - 1) \in 1 .. w
      OBVIOUS
    <3>2. (w - (i - 1)) - 1 = w - i /\ z \in Nat
      BY <1>2
    <3>3. P(i) = p * R /\ p \in Nat \ {0} /\ x \in Nat /\ e \in 0 .. R - 1
      BY <1>1, <1>2, <3>1
    <3>4. f[w - (i - 1)] = x * R + e
      BY <1>2, <3>1, <3>2
    <3>5. z \div p = x * R + e
      BY <2>2, <3>4
    <3> HIDE DEF p, x, e, z
    <3>6. (x * R + e) \div R = x
      BY <1>1, <3>3, OneMoreDigit, Zenon
    <3>7. z \div (p * R) = (z \div p) \div R
      <4>1. z \in Nat /\ p \in Nat \ {0} /\ R \in Nat \ {0}
        BY <1>1, <3>2, <3>3, Zenon
      <4>. QED
        BY <4>1, QuotientOfQuotient, Zenon
    <3>8. z \div P(i) = x
      <4>1. P(i) = p * R
        BY <3>3
      <4>. QED
        BY <3>5, <3>6, <3>7, <4>1, Zenon
    <3>. QED
      BY <3>8 DEF x, z
  <2>3. \A i \in 0 .. w : i \in G
    <3> HIDE DEF G
    <3>. QED
      BY <2>1, <2>2, UpTo
  <2>. QED
    BY <2>3
<1>5. ASSUME NEW k \in 0 .. w PROVE f[w] \div P(w - k) = f[k]
  <2>1. w - k \in 0 .. w /\ w - (w - k) = k
    OBVIOUS
  <2>. QED
    BY <1>4, <2>1
<1>6. ASSUME NEW k \in 1 .. w PROVE Digit(f[w], b, w - k) = d[k]
  <2> DEFINE x == f[k - 1]
             e == d[k]
  <2>1. k - 1 \in 0 .. w /\ k \in 0 .. w
    OBVIOUS
  <2>2. f[k] = x * R + e /\ x \in Nat /\ e \in 0 .. R - 1
    BY <1>2, <2>1
  <2>3. Digit(f[w], b, w - k) = f[k] % R
    BY <1>5, <2>1 DEF Digit, R, P
  <2> HIDE DEF x, e
  <2>4. (x * R + e) % R = e
    BY <1>1, <2>2, OneMoreDigit, Zenon
  <2>. QED
    BY <2>2, <2>3, <2>4 DEF e
<1>7. HasDigits(d, f[w], b, w)
  BY <1>6, Zenon DEF HasDigits
<1>8. Leading(f, w, b)
  BY <1>5, Zenon DEF P, Leading
<1>. QED
  BY <1>3, <1>7, <1>8 DEF P

-----------------------------------------------------------------------------
(* Bits is what its recursive definition says: enough of them for n.       *)
LEMMA PowersGrow == \A k \in Nat : k < TwoTo[k]
<1> DEFINE G == {k \in Nat : k < TwoTo[k]}
<1>1. 0 \in G
  BY PowersOfTwo
<1>2. ASSUME NEW k \in Nat \ {0}, k - 1 \in G PROVE k \in G
  <2>1. TwoTo[k] = 2 * TwoTo[k - 1] /\ TwoTo[k - 1] \in Nat /\ k - 1 < TwoTo[k - 1]
    BY <1>2, PowersOfTwo
  <2>. QED
    BY <2>1
<1>3. \A k \in Nat : k \in G
  <2> HIDE DEF G
  <2>. QED
    BY <1>1, <1>2, Always
<1>. QED
  BY <1>3

(* b is the number of bits of k.                                           *)
Spans(k, b) == k < TwoTo[b] /\ (b = 0 \/ TwoTo[b - 1] <= k)

LEMMA SpanExists == ASSUME NEW k \in Nat PROVE \E b \in Nat : Spans(k, b)
<1> DEFINE G == {b \in Nat : k < TwoTo[b] => \E c \in Nat : Spans(k, c)}
<1>1. 0 \in G
  <2>1. k < TwoTo[0] => Spans(k, 0)
    BY DEF Spans
  <2>. QED
    BY <2>1
<1>2. ASSUME NEW b \in Nat \ {0}, b - 1 \in G PROVE b \in G
  <2>1. TwoTo[b - 1] \in Nat /\ b \in Nat
    BY PowersOfTwo
  <2>2. ~(k < TwoTo[b - 1]) => TwoTo[b - 1] <= k
    BY <2>1
  <2>3. ~(k < TwoTo[b - 1]) /\ k < TwoTo[b] => Spans(k, b)
    BY <2>2, Zenon DEF Spans
  <2>. QED
    BY <1>2, <2>1, <2>3, Zenon
<1>3. \A b \in Nat : b \in G
  <2> HIDE DEF G
  <2>. QED
    BY <1>1, <1>2, Always
<1>. QED
  BY <1>3, PowersGrow

LEMMA PowersIncrease == ASSUME NEW a \in Nat, NEW b \in Nat, a <= b PROVE TwoTo[a] <= TwoTo[b]
<1>1. b - a \in Nat /\ a + (b - a) = b
  OBVIOUS
<1>2. TwoTo[b] = TwoTo[a] * TwoTo[b - a] /\ TwoTo[a] \in Nat /\ TwoTo[b - a] \in Nat \ {0}
  <2>1. TwoTo[a + (b - a)] = TwoTo[a] * TwoTo[b - a]
    BY <1>1, PowersAdd, Zenon
  <2>. QED
    BY <1>1, <2>1, PowersOfTwo
<1> DEFINE x == TwoTo[a]
           y == TwoTo[b - a]
<1> HIDE DEF x, y
<1>3. x \in Nat /\ y \in Nat \ {0} => x <= x * y
  OBVIOUS
<1>. QED
  BY <1>2, <1>3 DEF x, y

LEMMA SpanIsOne ==
  ASSUME NEW k \in Nat, NEW b \in Nat, NEW c \in Nat, Spans(k, b), Spans(k, c) PROVE b = c
<1>1. ASSUME NEW i \in Nat, NEW j \in Nat, Spans(k, i), Spans(k, j) PROVE ~(i < j)
  <2> SUFFICES ASSUME i < j PROVE FALSE
    OBVIOUS
  <2>1. j - 1 \in Nat /\ i <= j - 1 /\ j # 0
    OBVIOUS
  <2>2. TwoTo[i] <= TwoTo[j - 1] /\ k < TwoTo[i] /\ TwoTo[j - 1] <= k
    BY <1>1, <2>1, PowersIncrease DEF Spans
  <2>. QED
    BY <2>1, <2>2, PowersOfTwo
<1>. QED
  BY <1>1

LEMMA SpanOfHalf ==
  ASSUME NEW k \in Nat \ {0}, NEW b \in Nat, Spans(k \div 2, b) PROVE Spans(k, 1 + b)
<1>1. k \div 2 \in Nat /\ 2 * (k \div 2) <= k /\ k <= 2 * (k \div 2) + 1 /\ (1 + b) - 1 = b /\ 1 + b \in Nat \ {0}
  OBVIOUS
<1>2. TwoTo[1 + b] = 2 * TwoTo[b] /\ TwoTo[b] \in Nat \ {0}
  BY <1>1, PowersOfTwo
<1>3. k < TwoTo[1 + b]
  BY <1>1, <1>2 DEF Spans
<1>4. TwoTo[b] <= k
  <2>1. CASE b = 0
    BY <2>1, PowersOfTwo
  <2>2. CASE b # 0
    <3>1. TwoTo[b] = 2 * TwoTo[b - 1] /\ TwoTo[b - 1] \in Nat /\ TwoTo[b - 1] <= k \div 2
      BY <2>2, PowersOfTwo DEF Spans
    <3>. QED
      BY <1>1, <3>1
  <2>. QED
    BY <2>1, <2>2
<1>. QED
  BY <1>1, <1>3, <1>4 DEF Spans

LEMMA BitsAre ==
  ASSUME NEW n \in Nat PROVE Bits(n) \in Nat /\ Spans(n, Bits(n)) /\ (n # 0 => Bits(n) # 0)
<1> DEFINE Loop(f) == f = [k \in Nat |-> IF k = 0 THEN 0 ELSE 1 + f[k \div 2]]
           F == CHOOSE f : Loop(f)
           Chosen(k) == CHOOSE b \in Nat : Spans(k, b)
           g == [k \in Nat |-> Chosen(k)]
<1>1. Bits(n) = F[n]
  BY Zenon DEF Bits
<1>2. ASSUME NEW k \in Nat PROVE Chosen(k) \in Nat /\ Spans(k, Chosen(k))
  BY SpanExists, Zenon
<1> HIDE DEF Chosen
<1>3. ASSUME NEW k \in Nat PROVE g[k] = IF k = 0 THEN 0 ELSE 1 + g[k \div 2]
  <2>1. CASE k = 0
    <3>1. Spans(0, 0)
      BY PowersOfTwo DEF Spans
    <3>. QED
      BY <1>2, <2>1, <3>1, SpanIsOne
  <2>2. CASE k # 0
    <3>1. k \div 2 \in Nat /\ k \in Nat \ {0}
      BY <2>2
    <3>2. Spans(k, 1 + Chosen(k \div 2)) /\ 1 + Chosen(k \div 2) \in Nat
      BY <1>2, <3>1, SpanOfHalf
    <3>3. Chosen(k) = 1 + Chosen(k \div 2)
      BY <1>2, <3>2, SpanIsOne
    <3>. QED
      BY <2>2, <3>1, <3>3
  <2>. QED
    BY <2>1, <2>2
<1>4. Loop(g)
  <2>1. g = [k \in Nat |-> g[k]]
    OBVIOUS
  <2> HIDE DEF g
  <2>. QED
    BY <1>3, <2>1
<1>5. Loop(F)
  <2> HIDE DEF Loop, g
  <2>. QED
    BY <1>4
<1>6. F[0] = 0 /\ \A k \in Nat \ {0} : F[k] = 1 + F[k \div 2]
  <2> HIDE DEF F
  <2>. QED
    BY <1>5
<1> HIDE DEF F, g
<1> DEFINE Good(k) == F[k] \in Nat /\ Spans(k, F[k])
           G == {k \in Nat : \A j \in 0 .. k : Good(j)}
<1>7. Good(0)
  BY <1>6, PowersOfTwo DEF Spans
<1>8. ASSUME NEW k \in Nat \ {0}, Good(k \div 2) PROVE Good(k)
  <2>1. F[k \div 2] \in Nat /\ F[k] = 1 + F[k \div 2] /\ Spans(k \div 2, F[k \div 2])
    BY <1>6, <1>8
  <2>2. Spans(k, 1 + F[k \div 2])
    BY <2>1, SpanOfHalf
  <2>. QED
    BY <2>1, <2>2
<1> HIDE DEF Good
<1>9. 0 \in G
  BY <1>7
<1>10. ASSUME NEW k \in Nat \ {0}, k - 1 \in G PROVE k \in G
  <2>1. \A j \in 0 .. k - 1 : Good(j)
    BY <1>10
  <2>2. k \div 2 \in 0 .. k - 1
    OBVIOUS
  <2>3. Good(k)
    BY <1>8, <2>1, <2>2
  <2>. QED
    BY <2>1, <2>3
<1>11. \A k \in Nat : k \in G
  <2> HIDE DEF G
  <2>. QED
    BY <1>9, <1>10, Always
<1>12. Good(n)
  BY <1>11
<1>13. n # 0 => F[n] # 0
  BY <1>12, PowersOfTwo DEF Good, Spans
<1>. QED
  BY <1>1, <1>12, <1>13 DEF Good

-----------------------------------------------------------------------------
(* f is the recursive function that starts at a and goes on with step.     *)
Recurs(f, S, a, step) ==
  f \in [Nat -> S] /\ f[0] = a /\ \A n \in Nat \ {0} : f[n] = step[n][f[n - 1]]

LEMMA RecursionExists ==
  ASSUME NEW S, NEW a \in S, NEW step \in [Nat \ {0} -> [S -> S]] PROVE \E f : Recurs(f, S, a, step)
<1> DEFINE upto(K) == [i \in 1 .. K |-> step[i]]
           Runs(f, K) == Iterates(f, K, S, a, upto(K))
           Chosen(K) == CHOOSE f : Runs(f, K)
           g == [n \in Nat |-> Chosen(n)[n]]
<1>1. ASSUME NEW K \in Nat PROVE Runs(Chosen(K), K)
  <2>1. upto(K) \in [1 .. K -> [S -> S]]
    OBVIOUS
  <2>2. \E f : Runs(f, K)
    <3> HIDE DEF upto
    <3>. QED
      BY <2>1, IterationExists
  <2> HIDE DEF Runs
  <2>. QED
    BY <2>2
<1>2. ASSUME NEW K \in Nat
      PROVE  /\ Chosen(K) \in [0 .. K -> S] /\ Chosen(K)[0] = a
             /\ \A i \in 1 .. K : Chosen(K)[i] = step[i][Chosen(K)[i - 1]]
  <2> DEFINE f == Chosen(K)
  <2>1. /\ f \in [0 .. K -> S] /\ f[0] = a
        /\ \A i \in 1 .. K : f[i] = upto(K)[i][f[i - 1]]
    <3> HIDE DEF upto, Chosen
    <3>. QED
      BY <1>1 DEF Iterates
  <2> HIDE DEF f
  <2>. QED
    BY <2>1 DEF f
<1> HIDE DEF Chosen
<1>3. ASSUME NEW n \in Nat \ {0} PROVE Chosen(n - 1)[n - 1] = Chosen(n)[n - 1]
  <2> DEFINE m == n - 1
             p == Chosen(m)
             q == Chosen(n)
             G == {i \in 0 .. m : p[i] = q[i]}
  <2>1. m \in Nat /\ n \in Nat /\ m + 1 = n
    OBVIOUS
  <2>2. /\ p[0] = a /\ q[0] = a /\ \A i \in 1 .. m : p[i] = step[i][p[i - 1]]
        /\ \A i \in 1 .. n : q[i] = step[i][q[i - 1]]
    BY <1>2, <2>1
  <2> HIDE DEF p, q, m
  <2>3. 0 \in G
    BY <2>1, <2>2
  <2>4. \A i \in 1 .. m : i - 1 \in G => i \in G
    BY <2>1, <2>2
  <2>5. \A i \in 0 .. m : i \in G
    <3> HIDE DEF G
    <3>. QED
      BY <2>1, <2>3, <2>4, UpTo
  <2>6. p[m] = q[m]
    BY <2>1, <2>5
  <2>. QED
    BY <2>6 DEF p, q, m
<1>4. g \in [Nat -> S]
  <2>1. ASSUME NEW n \in Nat PROVE Chosen(n)[n] \in S
    BY <1>2
  <2>. QED
    BY <2>1
<1>5. g[0] = a
  BY <1>2
<1>6. ASSUME NEW n \in Nat \ {0} PROVE g[n] = step[n][g[n - 1]]
  <2>1. n - 1 \in Nat /\ n \in 1 .. n
    OBVIOUS
  <2>2. g[n] = Chosen(n)[n] /\ g[n - 1] = Chosen(n - 1)[n - 1]
    BY <2>1
  <2>3. Chosen(n)[n] = step[n][Chosen(n)[n - 1]]
    BY <1>2, <2>1
  <2>. QED
    BY <1>3, <2>2, <2>3
<1> HIDE DEF g
<1>. QED
  BY <1>4, <1>5, <1>6 DEF Recurs

(* A set of numbers that is not empty has a least one.                     *)
LEMMA LeastExists ==
  ASSUME NEW T, T \subseteq Nat, T # {}
  PROVE  \E n \in T : \A m \in T : n <= m
<1>1. PICK n \in T : \A m \in T : ~(<<m, n>> \in OpToRel(<, Nat))
  BY WFMin, NatLessThanWellFounded
<1>2. \A m \in T : ~(m < n)
  BY <1>1 DEF OpToRel
<1>. QED
  BY <1>2

(* Induction over all smaller numbers, for a set in place of a predicate.  *)
LEMMA FromBelow ==
  ASSUME NEW G, \A n \in Nat : (\A m \in 0 .. n - 1 : m \in G) => n \in G
  PROVE  \A n \in Nat : n \in G
<1> DEFINE T == {n \in Nat : n \notin G}
<1>1. SUFFICES ASSUME T # {} PROVE FALSE
  OBVIOUS
<1>2. PICK n \in T : \A m \in T : n <= m
  <2>1. T \subseteq Nat
    OBVIOUS
  <2> HIDE DEF T
  <2>. QED
    BY <1>1, <2>1, LeastExists
<1>3. \A m \in 0 .. n - 1 : m \in G
  BY <1>2
<1>. QED
  BY <1>2, <1>3

-----------------------------------------------------------------------------
(* Congruence and divisors.                                                *)
Cong(x, y, n) == \E t \in Int : x = y + n * t

LEMMA CongSame == ASSUME NEW x \in Int, NEW n \in Int PROVE Cong(x, x, n)
<1>1. x = x + n * 0
  OBVIOUS
<1>. QED
  BY <1>1 DEF Cong

LEMMA CongBack ==
  ASSUME NEW x \in Int, NEW y \in Int, NEW n \in Int, Cong(x, y, n) PROVE Cong(y, x, n)
<1>1. PICK t \in Int : x = y + n * t
  BY DEF Cong
<1>2. y = x + n * (-t) /\ -t \in Int
  BY <1>1
<1>. QED
  BY <1>2 DEF Cong

LEMMA CongThrough ==
  ASSUME NEW x \in Int, NEW y \in Int, NEW z \in Int, NEW n \in Int, Cong(x, y, n), Cong(y, z, n)
  PROVE  Cong(x, z, n)
<1>1. PICK s \in Int : x = y + n * s
  BY DEF Cong
<1>2. PICK t \in Int : y = z + n * t
  BY DEF Cong
<1>3. x = z + n * (s + t) /\ s + t \in Int
  BY <1>1, <1>2
<1>. QED
  BY <1>3 DEF Cong

LEMMA CongSum ==
  ASSUME NEW x \in Int, NEW y \in Int, NEW u \in Int, NEW v \in Int, NEW n \in Int,
         Cong(x, y, n), Cong(u, v, n)
  PROVE  Cong(x + u, y + v, n)
<1>1. PICK s \in Int : x = y + n * s
  BY DEF Cong
<1>2. PICK t \in Int : u = v + n * t
  BY DEF Cong
<1>3. x + u = (y + v) + n * (s + t) /\ s + t \in Int
  BY <1>1, <1>2
<1>. QED
  BY <1>3 DEF Cong

LEMMA CongProduct ==
  ASSUME NEW x \in Int, NEW y \in Int, NEW u \in Int, NEW v \in Int, NEW n \in Int,
         Cong(x, y, n), Cong(u, v, n)
  PROVE  Cong(x * u, y * v, n)
<1>1. PICK s \in Int : x = y + n * s
  BY DEF Cong
<1>2. PICK t \in Int : u = v + n * t
  BY DEF Cong
<1>3. x * u = x * v + n * (x * t)
  BY <1>2
<1>4. x * v = y * v + n * (s * v)
  BY <1>1
<1>5. x * t \in Int /\ s * v \in Int
  OBVIOUS
<1> DEFINE i == x * t
           j == s * v
           k == y * v
           l == x * u
           h == x * v
<1>6. i \in Int /\ j \in Int /\ k \in Int /\ h = k + n * j /\ l = h + n * i
  BY <1>3, <1>4, <1>5
<1> HIDE DEF i, j, k, l, h
<1>7. l = k + n * (i + j) /\ i + j \in Int
  BY <1>6
<1>. QED
  BY <1>7 DEF Cong, k, l

LEMMA Division ==
  ASSUME NEW x \in Int, NEW n \in Nat \ {0}
  PROVE  x % n \in 0 .. n - 1 /\ x \div n \in Int /\ x = n * (x \div n) + (x % n)
<1> DEFINE q == x \div n
           m == x % n
<1>1. q \in Int /\ m \in Int /\ x = n * q + m /\ 0 <= m /\ m < n
  OBVIOUS
<1> HIDE DEF q, m
<1>2. m \in 0 .. n - 1
  BY <1>1
<1>. QED
  BY <1>1, <1>2, Zenon DEF q, m

LEMMA CongRemainder ==
  ASSUME NEW x \in Int, NEW n \in Nat \ {0} PROVE Cong(x % n, x, n) /\ Cong(x, x % n, n)
<1> DEFINE q == x \div n
           m == x % n
<1>1. q \in Int /\ m \in Int /\ x = n * q + m
  BY Division
<1> HIDE DEF q, m
<1>2. x = m + n * q
  BY <1>1
<1>3. Cong(x, m, n)
  BY <1>1, <1>2 DEF Cong
<1>4. Cong(m, x, n)
  BY <1>1, <1>3, CongBack
<1>. QED
  BY <1>3, <1>4 DEF m

LEMMA CongSmall ==
  ASSUME NEW n \in Nat \ {0}, NEW x \in 0 .. n - 1, NEW y \in 0 .. n - 1, Cong(x, y, n)
  PROVE  x = y
<1>1. PICK t \in Int : x = y + n * t
  BY DEF Cong
<1>2. t >= 1 => n * t >= n
  OBVIOUS
<1>3. t <= -1 => n * t <= -n
  <2>1. t <= -1 => n * (-t) >= n
    OBVIOUS
  <2>2. n * (-t) = -(n * t) /\ n * t \in Int
    OBVIOUS
  <2>. QED
    BY <2>1, <2>2
<1>4. n * t \in Int
  OBVIOUS
<1> DEFINE z == n * t
<1>5. z \in Int /\ x = y + z /\ (t >= 1 => z >= n) /\ (t <= -1 => z <= -n)
  BY <1>1, <1>2, <1>3, <1>4
<1> HIDE DEF z
<1>6. t = 0
  BY <1>5
<1>7. z = 0
  BY <1>6 DEF z
<1>. QED
  BY <1>5, <1>7

LEMMA CongIsRemainder ==
  ASSUME NEW x \in Int, NEW y \in Int, NEW n \in Nat \ {0}
  PROVE  Cong(x, y, n) <=> x % n = y % n
<1>1. x % n \in 0 .. n - 1 /\ y % n \in 0 .. n - 1 /\ x % n \in Int /\ y % n \in Int
  BY Division
<1>2. Cong(x, x % n, n) /\ Cong(x % n, x, n) /\ Cong(y, y % n, n) /\ Cong(y % n, y, n)
  BY CongRemainder
<1>3. ASSUME Cong(x, y, n) PROVE x % n = y % n
  <2>1. Cong(x % n, y % n, n)
    BY <1>1, <1>2, <1>3, CongThrough
  <2>. QED
    BY <1>1, <2>1, CongSmall
<1>4. ASSUME x % n = y % n PROVE Cong(x, y, n)
  BY <1>1, <1>2, <1>4, CongThrough
<1>. QED
  BY <1>3, <1>4

(* d is a factor of x.                                                     *)
Factor(d, x) == \E t \in Int : x = d * t

LEMMA FactorIs ==
  ASSUME NEW d \in Nat \ {0}, NEW x \in Int PROVE Divides(d, x) <=> Factor(d, x)
<1>1. 0 \in 0 .. d - 1 /\ 0 \in Int
  OBVIOUS
<1>2. 0 % d = 0
  OBVIOUS
<1>3. Cong(x, 0, d) <=> x % d = 0
  <2>1. Cong(x, 0, d) <=> x % d = 0 % d
    BY <1>1, CongIsRemainder
  <2>. QED
    BY <1>2, <2>1, Zenon
<1>4. \A t \in Int : 0 + d * t = d * t
  OBVIOUS
<1>5. Cong(x, 0, d) <=> Factor(d, x)
  BY <1>4 DEF Cong, Factor
<1>. QED
  BY <1>3, <1>5 DEF Divides

LEMMA CongIsFactor ==
  ASSUME NEW x \in Int, NEW y \in Int, NEW n \in Int PROVE Cong(x, y, n) <=> Factor(n, x - y)
<1>1. \A t \in Int : n * t \in Int
  OBVIOUS
<1>2. \A s \in Int : x = y + s <=> x - y = s
  OBVIOUS
<1>. QED
  BY <1>1, <1>2 DEF Cong, Factor

LEMMA FactorOfSum ==
  ASSUME NEW d \in Int, NEW x \in Int, NEW y \in Int, Factor(d, x), Factor(d, y)
  PROVE  Factor(d, x + y) /\ Factor(d, x - y)
<1>1. PICK s \in Int : x = d * s
  BY DEF Factor
<1>2. PICK t \in Int : y = d * t
  BY DEF Factor
<1>3. x + y = d * (s + t) /\ x - y = d * (s - t) /\ s + t \in Int /\ s - t \in Int
  BY <1>1, <1>2
<1>. QED
  BY <1>3 DEF Factor

LEMMA FactorOfProduct ==
  ASSUME NEW d \in Int, NEW x \in Int, NEW y \in Int, Factor(d, x)
  PROVE  Factor(d, x * y) /\ Factor(d, y * x)
<1>1. PICK s \in Int : x = d * s
  BY DEF Factor
<1>2. x * y = d * (s * y) /\ y * x = d * (s * y) /\ s * y \in Int
  BY <1>1
<1>. QED
  BY <1>2 DEF Factor

LEMMA FactorThrough ==
  ASSUME NEW d \in Int, NEW x \in Int, NEW y \in Int, Factor(d, x), Factor(x, y)
  PROVE  Factor(d, y)
<1>1. PICK s \in Int : x = d * s
  BY DEF Factor
<1>2. PICK t \in Int : y = x * t
  BY DEF Factor
<1>3. y = d * (s * t) /\ s * t \in Int
  BY <1>1, <1>2
<1>. QED
  BY <1>3 DEF Factor

LEMMA FactorOfItself ==
  ASSUME NEW d \in Int PROVE Factor(d, d) /\ Factor(1, d) /\ Factor(d, 0)
<1>1. d = d * 1 /\ d = 1 * d /\ 0 = d * 0
  OBVIOUS
<1>. QED
  BY <1>1 DEF Factor

LEMMA FactorBelow ==
  ASSUME NEW d \in Nat, NEW x \in Nat \ {0}, Factor(d, x)
  PROVE  d # 0 /\ d <= x /\ \E t \in Nat \ {0} : x = d * t
<1>1. PICK t \in Int : x = d * t
  BY DEF Factor
<1>2. t <= 0 => d * t <= 0
  <2>1. -t \in Int /\ (t <= 0 => d * (-t) >= 0) /\ d * (-t) = -(d * t) /\ d * t \in Int
    OBVIOUS
  <2>. QED
    BY <2>1
<1>3. t \in Nat \ {0}
  BY <1>1, <1>2
<1>4. d <= d * t
  BY <1>3
<1>5. d = 0 => d * t = 0
  OBVIOUS
<1>. QED
  BY <1>1, <1>3, <1>4, <1>5

(* The least r with r * y a multiple of n is a factor of all the others.   *)
LEMMA LeastMultiplier ==
  ASSUME NEW n \in Nat \ {0}, NEW y \in Int
  PROVE  \E r \in Nat \ {0} :
           Factor(n, r * y) /\ \A s \in Int : Factor(n, s * y) => Factor(r, s)
<1> DEFINE T == {r \in Nat \ {0} : Factor(n, r * y)}
<1>1. n \in T
  <2>1. Factor(n, n) /\ n \in Int
    BY FactorOfItself
  <2>. QED
    BY <2>1, FactorOfProduct
<1>2. PICK r \in T : \A m \in T : r <= m
  <2>1. T \subseteq Nat /\ T # {}
    BY <1>1
  <2> HIDE DEF T
  <2>. QED
    BY <2>1, LeastExists
<1>3. r \in Nat \ {0} /\ Factor(n, r * y)
  BY <1>2
<1>4. ASSUME NEW s \in Int, Factor(n, s * y) PROVE Factor(r, s)
  <2> DEFINE q == s \div r
             m == s % r
  <2>1. q \in Int /\ m \in 0 .. r - 1 /\ s = r * q + m
    BY <1>3, Division
  <2> HIDE DEF q, m
  <2>2. m * y = s * y - (r * y) * q
    <3>1. m = s - r * q /\ r * q \in Int /\ r \in Int
      BY <1>3, <2>1
    <3>2. (s - r * q) * y = s * y - (r * q) * y
      BY <3>1
    <3>3. (r * q) * y = (r * y) * q
      BY <2>1, <3>1
    <3>. QED
      BY <3>1, <3>2, <3>3
  <2>3. Factor(n, (r * y) * q)
    <3>1. r * y \in Int /\ n \in Int
      BY <1>3
    <3>. QED
      BY <1>3, <2>1, <3>1, FactorOfProduct
  <2>4. Factor(n, m * y)
    <3>1. s * y \in Int /\ (r * y) * q \in Int /\ n \in Int
      BY <1>3, <2>1
    <3>. QED
      BY <1>4, <2>2, <2>3, <3>1, FactorOfSum
  <2>5. m = 0
    BY <1>2, <1>3, <2>1, <2>4
  <2>6. s = r * q
    BY <1>3, <2>1, <2>5
  <2>. QED
    BY <2>1, <2>6 DEF Factor
<1>. QED
  BY <1>3, <1>4

LEMMA CoprimeFactor ==
  ASSUME NEW n \in Nat \ {0}, NEW x \in Int, NEW y \in Int, Factor(n, x * y),
         \A c \in Nat \ {0} : Factor(c, n) /\ Factor(c, x) => c = 1
  PROVE  Factor(n, y)
<1>1. PICK r \in Nat \ {0} :
        Factor(n, r * y) /\ \A s \in Int : Factor(n, s * y) => Factor(r, s)
  BY LeastMultiplier
<1>2. Factor(n, n * y)
  <2>1. n \in Int /\ Factor(n, n)
    BY FactorOfItself
  <2>. QED
    BY <2>1, FactorOfProduct
<1>3. Factor(r, n) /\ Factor(r, x)
  BY <1>1, <1>2
<1>4. r = 1 /\ 1 * y = y
  BY <1>3
<1>. QED
  BY <1>1, <1>4

LEMMA PrimeFactors ==
  ASSUME NEW p \in Nat, IsPrime(p), NEW d \in Nat \ {0}, Factor(d, p) PROVE d = 1 \/ d = p
<1>1. p > 1
  BY DEF IsPrime
<1>2. PICK t \in Nat \ {0} : p = d * t
  BY <1>1, FactorBelow
<1>3. d <= p /\ t <= p /\ Factor(t, p)
  <2>1. p = t * d /\ t \in Int /\ d \in Int
    BY <1>2
  <2>2. Factor(t, p)
    BY <2>1 DEF Factor
  <2>. QED
    BY <1>1, <2>2, FactorBelow
<1>4. ASSUME NEW c \in Nat \ {0}, Factor(c, p), c * c <= p PROVE c = 1 \/ c = p
  <2>1. c <= p /\ Divides(c, p)
    BY <1>1, <1>4, FactorBelow, FactorIs
  <2>. QED
    BY <1>4, <2>1 DEF IsPrime
<1>5. CASE d <= t
  <2>1. d * d <= p
    <3>1. d * d <= d * t
      BY <1>5
    <3>. QED
      BY <1>2, <3>1
  <2>. QED
    BY <1>4, <2>1
<1>6. CASE t <= d
  <2>1. t * t <= p
    <3>1. t * t <= d * t
      BY <1>6
    <3>. QED
      BY <1>2, <3>1
  <2>2. t = 1 \/ t = p
    BY <1>3, <1>4, <2>1
  <2>3. CASE t = 1
    BY <1>2, <2>3
  <2>4. CASE t = p
    <3>1. p = d * p
      BY <1>2, <2>4
    <3>2. d > 1 => d * p > p
      BY <1>1
    <3>. QED
      BY <3>1, <3>2
  <2>. QED
    BY <2>2, <2>3, <2>4
<1>. QED
  BY <1>2, <1>5, <1>6

(* Euclid: a prime factor of a product is one of a factor.                 *)
LEMMA PrimeOfProduct ==
  ASSUME NEW p \in Nat, IsPrime(p), NEW x \in Int, NEW y \in Int, Factor(p, x * y)
  PROVE  Factor(p, x) \/ Factor(p, y)
<1> SUFFICES ASSUME ~Factor(p, x) PROVE Factor(p, y)
  OBVIOUS
<1>1. p \in Nat \ {0}
  BY DEF IsPrime
<1>2. ASSUME NEW c \in Nat \ {0}, Factor(c, p), Factor(c, x) PROVE c = 1
  BY <1>2, PrimeFactors
<1>. QED
  BY <1>1, <1>2, CoprimeFactor

(* Every number above one has a prime factor: its least.                   *)
LEMMA PrimeExists ==
  ASSUME NEW n \in Nat, n > 1 PROVE \E p \in Nat : IsPrime(p) /\ Factor(p, n)
<1> DEFINE T == {d \in Nat : d > 1 /\ Factor(d, n)}
<1>1. n \in T
  BY FactorOfItself
<1>2. PICK p \in T : \A m \in T : p <= m
  <2>1. T \subseteq Nat /\ T # {}
    BY <1>1
  <2> HIDE DEF T
  <2>. QED
    BY <2>1, LeastExists
<1>3. p \in Nat /\ p > 1 /\ Factor(p, n)
  BY <1>2
<1>4. ASSUME NEW d \in 2 .. p - 1 PROVE ~Divides(d, p)
  <2> SUFFICES ASSUME Divides(d, p) PROVE FALSE
    OBVIOUS
  <2>1. d \in Nat \ {0} /\ d \in Int /\ p \in Int /\ n \in Int
    BY <1>3
  <2>2. Factor(d, n)
    BY <1>3, <2>1, FactorIs, FactorThrough
  <2>. QED
    BY <1>2, <1>3, <2>1, <2>2
<1>5. IsPrime(p)
  BY <1>3, <1>4 DEF IsPrime
<1>. QED
  BY <1>3, <1>5

-----------------------------------------------------------------------------
(* Powers, and their remainders.                                           *)
PowersOf(a, f) == f \in [Nat -> Int] /\ f[0] = 1 /\ \A n \in Nat \ {0} : f[n] = a * f[n - 1]
Raised(a, k) == (CHOOSE f : PowersOf(a, f))[k]

LEMMA PowerIs ==
  ASSUME NEW a \in Int
  PROVE  /\ Raised(a, 0) = 1 /\ \A k \in Nat : Raised(a, k) \in Int
         /\ \A k \in Nat \ {0} : Raised(a, k) = a * Raised(a, k - 1)
<1> DEFINE step == [n \in Nat \ {0} |-> [x \in Int |-> a * x]]
           F == CHOOSE f : PowersOf(a, f)
<1>1. step \in [Nat \ {0} -> [Int -> Int]]
  OBVIOUS
<1>2. PICK f : Recurs(f, Int, 1, step)
  <2>1. 1 \in Int
    OBVIOUS
  <2> HIDE DEF step
  <2>. QED
    BY <1>1, <2>1, RecursionExists
<1>3. f \in [Nat -> Int] /\ f[0] = 1 /\ \A n \in Nat \ {0} : f[n] = a * f[n - 1]
  <2>1. f \in [Nat -> Int] /\ f[0] = 1
    BY <1>2 DEF Recurs
  <2>2. ASSUME NEW n \in Nat \ {0} PROVE f[n] = a * f[n - 1]
    <3>1. n - 1 \in Nat /\ f[n - 1] \in Int
      BY <2>1
    <3>2. f[n] = step[n][f[n - 1]]
      BY <1>2 DEF Recurs
    <3>. QED
      BY <3>1, <3>2
  <2>. QED
    BY <2>1, <2>2
<1>4. PowersOf(a, f)
  BY <1>3 DEF PowersOf
<1>5. PowersOf(a, F)
  BY <1>4
<1>6. \A k : Raised(a, k) = F[k]
  BY DEF Raised
<1> HIDE DEF F
<1>. QED
  BY <1>5, <1>6 DEF PowersOf

LEMMA PowerIsNat == ASSUME NEW a \in Nat PROVE \A k \in Nat : Raised(a, k) \in Nat
<1> DEFINE G == {k \in Nat : Raised(a, k) \in Nat}
<1>1. 0 \in G
  BY PowerIs
<1>2. ASSUME NEW k \in Nat \ {0}, k - 1 \in G PROVE k \in G
  <2>1. Raised(a, k) = a * Raised(a, k - 1)
    BY PowerIs
  <2>. QED
    BY <1>2, <2>1
<1>3. \A k \in Nat : k \in G
  <2> HIDE DEF G
  <2>. QED
    BY <1>1, <1>2, Always
<1>. QED
  BY <1>3

LEMMA PowerOfOne == \A k \in Nat : Raised(1, k) = 1
<1> DEFINE G == {k \in Nat : Raised(1, k) = 1}
<1>1. 0 \in G
  BY PowerIs
<1>2. ASSUME NEW k \in Nat \ {0}, k - 1 \in G PROVE k \in G
  <2>1. Raised(1, k) = 1 * Raised(1, k - 1)
    BY PowerIs
  <2>. QED
    BY <1>2, <2>1
<1>3. \A k \in Nat : k \in G
  <2> HIDE DEF G
  <2>. QED
    BY <1>1, <1>2, Always
<1>. QED
  BY <1>3

LEMMA PowerOfSum ==
  ASSUME NEW a \in Int, NEW j \in Nat PROVE \A k \in Nat : Raised(a, j + k) = Raised(a, j) * Raised(a, k)
<1> DEFINE G == {k \in Nat : Raised(a, j + k) = Raised(a, j) * Raised(a, k)}
<1>1. 0 \in G
  <2>1. j + 0 = j /\ Raised(a, 0) = 1 /\ Raised(a, j) \in Int
    BY PowerIs
  <2>. QED
    BY <2>1
<1>2. ASSUME NEW k \in Nat \ {0}, k - 1 \in G PROVE k \in G
  <2>1. j + k \in Nat \ {0} /\ (j + k) - 1 = j + (k - 1) /\ k - 1 \in Nat
    OBVIOUS
  <2>2. Raised(a, j + k) = a * Raised(a, j + (k - 1)) /\ Raised(a, k) = a * Raised(a, k - 1)
    BY <2>1, PowerIs
  <2>3. Raised(a, j + (k - 1)) = Raised(a, j) * Raised(a, k - 1)
    BY <1>2
  <2>4. Raised(a, j) \in Int /\ Raised(a, k - 1) \in Int
    BY <2>1, PowerIs
  <2> DEFINE x == Raised(a, j)
             y == Raised(a, k - 1)
  <2> HIDE DEF x, y
  <2>5. x \in Int /\ y \in Int => a * (x * y) = x * (a * y)
    OBVIOUS
  <2>6. Raised(a, j + k) = Raised(a, j) * Raised(a, k)
    BY <2>2, <2>3, <2>4, <2>5 DEF x, y
  <2>. QED
    BY <2>6
<1>3. \A k \in Nat : k \in G
  <2> HIDE DEF G
  <2>. QED
    BY <1>1, <1>2, Always
<1>. QED
  BY <1>3

LEMMA PowerOfPower ==
  ASSUME NEW a \in Int, NEW j \in Nat PROVE \A k \in Nat : Raised(a, j * k) = Raised(Raised(a, j), k)
<1> DEFINE G == {k \in Nat : Raised(a, j * k) = Raised(Raised(a, j), k)}
<1>0. Raised(a, j) \in Int
  BY PowerIs
<1>1. 0 \in G
  <2>1. j * 0 = 0
    OBVIOUS
  <2>. QED
    BY <1>0, <2>1, PowerIs
<1>2. ASSUME NEW k \in Nat \ {0}, k - 1 \in G PROVE k \in G
  <2>1. j * k = j + j * (k - 1) /\ j * (k - 1) \in Nat /\ k - 1 \in Nat
    OBVIOUS
  <2>2. Raised(a, j * k) = Raised(a, j) * Raised(a, j * (k - 1))
    BY <2>1, PowerOfSum
  <2>3. Raised(Raised(a, j), k) = Raised(a, j) * Raised(Raised(a, j), k - 1)
    BY <1>0, PowerIs
  <2>. QED
    BY <1>2, <2>2, <2>3
<1>3. \A k \in Nat : k \in G
  <2> HIDE DEF G
  <2>. QED
    BY <1>1, <1>2, Always
<1>. QED
  BY <1>3

LEMMA PowerOfCong ==
  ASSUME NEW a \in Int, NEW b \in Int, NEW n \in Int, Cong(a, b, n)
  PROVE  \A k \in Nat : Cong(Raised(a, k), Raised(b, k), n)
<1> DEFINE G == {k \in Nat : Cong(Raised(a, k), Raised(b, k), n)}
<1>1. 0 \in G
  <2>1. Raised(a, 0) = 1 /\ Raised(b, 0) = 1 /\ 1 \in Int
    BY PowerIs
  <2>. QED
    BY <2>1, CongSame
<1>2. ASSUME NEW k \in Nat \ {0}, k - 1 \in G PROVE k \in G
  <2>1. k - 1 \in Nat
    OBVIOUS
  <2>2. /\ Raised(a, k) = a * Raised(a, k - 1) /\ Raised(b, k) = b * Raised(b, k - 1)
        /\ Raised(a, k - 1) \in Int /\ Raised(b, k - 1) \in Int
    BY <2>1, PowerIs
  <2>3. Cong(a * Raised(a, k - 1), b * Raised(b, k - 1), n)
    BY <1>2, <2>2, CongProduct
  <2>. QED
    BY <2>2, <2>3
<1>3. \A k \in Nat : k \in G
  <2> HIDE DEF G
  <2>. QED
    BY <1>1, <1>2, Always
<1>. QED
  BY <1>3

LEMMA ProductOfRemainders ==
  ASSUME NEW x \in Int, NEW y \in Int, NEW n \in Nat \ {0} PROVE ((x % n) * (y % n)) % n = (x * y) % n
<1>1. x % n \in Int /\ y % n \in Int /\ x * y \in Int
  BY Division
<1>2. Cong((x % n) * (y % n), x * y, n)
  <2>1. Cong(x % n, x, n)
    BY CongRemainder, Zenon
  <2>2. Cong(y % n, y, n)
    BY CongRemainder, Zenon
  <2>. QED
    BY <1>1, <2>1, <2>2, CongProduct
<1>3. (x % n) * (y % n) \in Int
  BY <1>1
<1>. QED
  BY <1>1, <1>2, <1>3, CongIsRemainder

LEMMA ModPowIs ==
  ASSUME NEW b \in Nat, NEW n \in Nat \ {0} PROVE \A k \in Nat : ModPow(b, k, n) = Raised(b, k) % n
<1> DEFINE Square(f, k) == (f[k \div 2] * f[k \div 2]) % n
           Body(f, k) == IF k = 0 THEN 1 % n
                         ELSE IF k % 2 = 0 THEN Square(f, k) ELSE (Square(f, k) * (b % n)) % n
           Loop(f) == f = [k \in Nat |-> Body(f, k)]
           F == CHOOSE f : Loop(f)
           g == [k \in Nat |-> Raised(b, k) % n]
<1>1. \A k : ModPow(b, k, n) = F[k]
  BY Zenon DEF ModPow
<1>2. ASSUME NEW k \in Nat PROVE g[k] = Body(g, k)
  <2>1. CASE k = 0
    BY <2>1, PowerIs
  <2>2. CASE k # 0
    <3> DEFINE h == k \div 2
               x == Raised(b, h)
    <3>1. h \in Nat /\ (k % 2 = 0 => k = h + h) /\ (k % 2 # 0 => k = (h + h) + 1) /\ h + h \in Nat
      OBVIOUS
    <3> HIDE DEF h
    <3>2. x \in Int /\ Raised(b, h + h) = x * x /\ x * x \in Int /\ b \in Int
      BY <3>1, PowerIs, PowerOfSum
    <3>3. g[h] = x % n
      BY <3>1
    <3> HIDE DEF x
    <3>4. (g[h] * g[h]) % n = (x * x) % n
      <4>1. ((x % n) * (x % n)) % n = (x * x) % n
        BY <3>2, ProductOfRemainders
      <4> HIDE DEF g
      <4>. QED
        BY <3>3, <4>1, Zenon
    <3>5. Square(g, k) = (x * x) % n
      BY <3>4 DEF h
    <3>6. CASE k % 2 = 0
      <4>1. Body(g, k) = Square(g, k)
        BY <2>2, <3>6
      <4>2. g[k] = Raised(b, h + h) % n
        BY <3>1, <3>6
      <4>. QED
        BY <3>2, <3>5, <4>1, <4>2
    <3>7. CASE k % 2 # 0
      <4>1. Body(g, k) = (Square(g, k) * (b % n)) % n
        BY <2>2, <3>7
      <4>2. g[k] = Raised(b, (h + h) + 1) % n
        BY <3>1, <3>7
      <4>3. Raised(b, (h + h) + 1) = (x * x) * b
        <5>1. Raised(b, (h + h) + 1) = b * Raised(b, ((h + h) + 1) - 1)
          BY <3>1, PowerIs
        <5>2. ((h + h) + 1) - 1 = h + h
          BY <3>1
        <5>3. b * (x * x) = (x * x) * b
          BY <3>2
        <5>. QED
          BY <3>2, <5>1, <5>2, <5>3
      <4>4. (((x * x) % n) * (b % n)) % n = ((x * x) * b) % n
        BY <3>2, ProductOfRemainders
      <4>. QED
        BY <3>5, <4>1, <4>2, <4>3, <4>4
    <3>. QED
      BY <3>6, <3>7
  <2>. QED
    BY <2>1, <2>2
<1>3. Loop(g)
  <2>1. g = [k \in Nat |-> g[k]]
    OBVIOUS
  <2> HIDE DEF g, Body
  <2>. QED
    BY <1>2, <2>1
<1>4. Loop(F)
  <2> HIDE DEF Loop, g
  <2>. QED
    BY <1>3
<1>5. \A k \in Nat : F[k] = Body(F, k)
  <2> HIDE DEF F, Body
  <2>. QED
    BY <1>4
<1>6. \A k \in Nat : g[k] = Body(g, k)
  BY <1>2
<1> HIDE DEF F
<1> DEFINE G == {k \in Nat : F[k] = g[k]}
<1>7. ASSUME NEW k \in Nat, \A m \in 0 .. k - 1 : m \in G PROVE k \in G
  <2>1. CASE k = 0
    BY <1>5, <1>6, <2>1
  <2>2. CASE k # 0
    <3>1. k \div 2 \in 0 .. k - 1
      BY <2>2
    <3>2. F[k \div 2] = g[k \div 2]
      BY <1>7, <3>1
    <3> HIDE DEF g
    <3>3. Body(F, k) = Body(g, k)
      BY <3>2
    <3>. QED
      BY <1>5, <1>6, <3>3
  <2>. QED
    BY <2>1, <2>2
<1>8. \A k \in Nat : k \in G
  <2> HIDE DEF G
  <2>. QED
    BY <1>7, FromBelow
<1>. QED
  BY <1>1, <1>8

-----------------------------------------------------------------------------
(* The greatest common divisor.                                            *)
Divisor(g, x, y) ==
  /\ Factor(g, x) /\ Factor(g, y)
  /\ \A c \in Nat \ {0} : Factor(c, x) /\ Factor(c, y) => Factor(c, g)

LEMMA DivisorIsOne ==
  ASSUME NEW x \in Nat, NEW y \in Nat, NEW d \in Nat, NEW e \in Nat, Divisor(d, x, y), Divisor(e, x, y)
  PROVE  d = e
<1>1. CASE d # 0 /\ e # 0
  <2>1. Factor(d, e) /\ Factor(e, d)
    BY <1>1 DEF Divisor
  <2>2. d <= e /\ e <= d
    BY <1>1, <2>1, FactorBelow
  <2>. QED
    BY <2>2
<1>2. CASE d = 0 \/ e = 0
  <2>1. ASSUME NEW z \in Nat, Factor(0, z) PROVE z = 0
    BY <2>1 DEF Factor
  <2>2. x = 0 /\ y = 0
    BY <1>2, <2>1 DEF Divisor
  <2>3. ASSUME NEW f \in Nat, Divisor(f, x, y) PROVE f = 0
    <3>1. f + 1 \in Nat \ {0} /\ f + 1 \in Int
      OBVIOUS
    <3>2. Factor(f + 1, 0)
      BY <3>1, FactorOfItself
    <3>3. Factor(f + 1, f)
      BY <2>2, <2>3, <3>1, <3>2 DEF Divisor
    <3>4. f # 0 => f + 1 <= f
      BY <3>1, <3>3, FactorBelow
    <3>. QED
      BY <3>4
  <2>. QED
    BY <2>3
<1>. QED
  BY <1>1, <1>2

LEMMA DivisorStep ==
  ASSUME NEW x \in Nat, NEW y \in Nat \ {0}, NEW d \in Nat, Divisor(d, y, x % y)
  PROVE  Divisor(d, x, y)
<1> DEFINE q == x \div y
           m == x % y
<1>1. q \in Int /\ m \in 0 .. y - 1 /\ x = y * q + m
  <2>1. x \in Int
    OBVIOUS
  <2>. QED
    BY <2>1, Division, Zenon
<1> HIDE DEF q, m
<1>2. m \in Int /\ y \in Int /\ y * q \in Int /\ m = x - y * q /\ d \in Int /\ x \in Int
  BY <1>1
<1>3. Factor(d, y) /\ Factor(d, m)
  BY DEF Divisor, m
<1>4. Factor(d, y * q)
  BY <1>1, <1>2, <1>3, FactorOfProduct
<1>5. Factor(d, y * q + m)
  BY <1>2, <1>3, <1>4, FactorOfSum
<1>6. ASSUME NEW c \in Nat \ {0}, Factor(c, x), Factor(c, y) PROVE Factor(c, d)
  <2>1. c \in Int
    OBVIOUS
  <2>2. Factor(c, y * q)
    BY <1>1, <1>2, <1>6, <2>1, FactorOfProduct
  <2>3. Factor(c, x - y * q)
    BY <1>2, <1>6, <2>1, <2>2, FactorOfSum
  <2>4. Factor(c, m)
    BY <1>2, <2>3
  <2>. QED
    BY <1>6, <2>4 DEF Divisor, m
<1>. QED
  BY <1>1, <1>3, <1>5, <1>6 DEF Divisor

LEMMA DivisorExists == ASSUME NEW x \in Nat, NEW y \in Nat PROVE \E d \in Nat : Divisor(d, x, y)
<1> DEFINE G == {b \in Nat : \A a \in Nat : \E d \in Nat : Divisor(d, a, b)}
<1>1. ASSUME NEW b \in Nat, \A m \in 0 .. b - 1 : m \in G PROVE b \in G
  <2>1. ASSUME NEW a \in Nat PROVE \E d \in Nat : Divisor(d, a, b)
    <3>1. CASE b = 0
      <4>1. Factor(a, a) /\ Factor(a, 0)
        BY FactorOfItself
      <4>2. Divisor(a, a, b)
        BY <3>1, <4>1 DEF Divisor
      <4>. QED
        BY <4>2
    <3>2. CASE b # 0
      <4>1. b \in Nat \ {0} /\ a % b \in 0 .. b - 1
        BY <3>2, Division
      <4>2. a % b \in G
        BY <1>1, <4>1
      <4>3. PICK d \in Nat : Divisor(d, b, a % b)
        BY <4>2
      <4>. QED
        BY <4>1, <4>3, DivisorStep
    <3>. QED
      BY <3>1, <3>2
  <2>. QED
    BY <2>1
<1>2. \A b \in Nat : b \in G
  <2> HIDE DEF G
  <2>. QED
    BY <1>1, FromBelow
<1>. QED
  BY <1>2

LEMMA GcdIs ==
  ASSUME NEW x \in Nat, NEW y \in Nat
  PROVE  Gcd(x, y) \in Nat /\ Divisor(Gcd(x, y), x, y) /\ (x # 0 \/ y # 0 => Gcd(x, y) # 0)
<1> DEFINE Body(f, p) == IF p[2] = 0 THEN p[1] ELSE f[<<p[2], p[1] % p[2]>>]
           Loop(f) == f = [p \in Nat \X Nat |-> Body(f, p)]
           F == CHOOSE f : Loop(f)
           G(a, b) == CHOOSE d \in Nat : Divisor(d, a, b)
           g == [p \in Nat \X Nat |-> G(p[1], p[2])]
<1>1. Gcd(x, y) = F[<<x, y>>]
  BY Zenon DEF Gcd
<1>2. ASSUME NEW a \in Nat, NEW b \in Nat PROVE G(a, b) \in Nat /\ Divisor(G(a, b), a, b)
  BY DivisorExists, Zenon
<1> HIDE DEF G
<1>3. ASSUME NEW a \in Nat, NEW b \in Nat PROVE G(a, b) = IF b = 0 THEN a ELSE G(b, a % b)
  <2>1. CASE b = 0
    <3>1. Factor(a, a) /\ Factor(a, 0)
      BY FactorOfItself
    <3>2. Divisor(a, a, b)
      BY <2>1, <3>1 DEF Divisor
    <3>3. G(a, b) = a
      BY <1>2, <3>2, DivisorIsOne
    <3>. QED
      BY <2>1, <3>3
  <2>2. CASE b # 0
    <3>1. b \in Nat \ {0} /\ a % b \in Nat
      <4>1. a % b \in 0 .. b - 1
        BY <2>2, Division
      <4>. QED
        BY <2>2, <4>1
    <3>2. G(b, a % b) \in Nat /\ Divisor(G(b, a % b), b, a % b)
      BY <1>2, <3>1
    <3>3. Divisor(G(b, a % b), a, b)
      BY <3>1, <3>2, DivisorStep
    <3>4. G(a, b) = G(b, a % b)
      BY <1>2, <3>2, <3>3, DivisorIsOne
    <3>. QED
      BY <2>2, <3>4
  <2>. QED
    BY <2>1, <2>2
<1>4. \A a \in Nat, b \in Nat : b # 0 => a % b \in 0 .. b - 1
  BY Division
<1>5. Loop(g)
  <2>1. ASSUME NEW p \in Nat \X Nat PROVE g[p] = Body(g, p)
    <3>1. PICK a \in Nat, b \in Nat : p = <<a, b>>
      OBVIOUS
    <3>2. g[p] = G(a, b)
      BY <3>1
    <3>3. b # 0 => a % b \in Nat
      BY <1>4
    <3>4. b # 0 => g[<<b, a % b>>] = G(b, a % b)
      BY <3>3
    <3>5. Body(g, p) = IF b = 0 THEN a ELSE g[<<b, a % b>>]
      BY <3>1
    <3>. QED
      BY <1>3, <3>2, <3>4, <3>5
  <2>2. g = [p \in Nat \X Nat |-> g[p]]
    OBVIOUS
  <2> HIDE DEF g, Body
  <2>. QED
    BY <2>1, <2>2
<1>6. Loop(F)
  <2> HIDE DEF Loop, g
  <2>. QED
    BY <1>5
<1>7. ASSUME NEW a \in Nat, NEW b \in Nat PROVE F[<<a, b>>] = IF b = 0 THEN a ELSE F[<<b, a % b>>]
  <2> DEFINE p == <<a, b>>
  <2>1. p \in Nat \X Nat /\ p[1] = a /\ p[2] = b
    OBVIOUS
  <2> HIDE DEF p, F
  <2>2. F[p] = Body(F, p)
    <3> HIDE DEF Body
    <3>. QED
      BY <1>6, <2>1
  <2>. QED
    BY <2>1, <2>2 DEF p
<1> HIDE DEF F, g, Body
<1> DEFINE S == {b \in Nat : \A a \in Nat : F[<<a, b>>] = G(a, b)}
<1>8. ASSUME NEW b \in Nat, \A m \in 0 .. b - 1 : m \in S PROVE b \in S
  <2>1. ASSUME NEW a \in Nat PROVE F[<<a, b>>] = G(a, b)
    <3>1. CASE b = 0
      BY <1>3, <1>7, <3>1
    <3>2. CASE b # 0
      <4>1. a % b \in 0 .. b - 1
        BY <1>4, <3>2
      <4>2. F[<<b, a % b>>] = G(b, a % b)
        BY <1>8, <4>1
      <4>. QED
        BY <1>3, <1>7, <3>2, <4>2
    <3>. QED
      BY <3>1, <3>2
  <2>. QED
    BY <2>1
<1>9. \A b \in Nat : b \in S
  <2> HIDE DEF S
  <2>. QED
    BY <1>8, FromBelow
<1>10. Gcd(x, y) \in Nat /\ Divisor(Gcd(x, y), x, y)
  BY <1>1, <1>2, <1>9
<1>11. Gcd(x, y) = 0 => x = 0 /\ y = 0
  BY <1>10 DEF Divisor, Factor
<1>. QED
  BY <1>10, <1>11

(* The powers of two in an even number.                                    *)
LEMMA TrailingZerosAre ==
  ASSUME NEW n \in Nat \ {0}
  PROVE  /\ TrailingZeros(n) \in Nat /\ n = (n \div TwoTo[TrailingZeros(n)]) * TwoTo[TrailingZeros(n)]
         /\ n % 2 = 0 => TrailingZeros(n) # 0
<1> DEFINE Ends(k) == n % TwoTo[k] = 0 /\ n % TwoTo[k + 1] # 0
           T == {k \in Nat : n % TwoTo[k + 1] # 0}
           t == TrailingZeros(n)
           b == Bits(n)
<1>1. b \in Nat /\ n < TwoTo[b] /\ b \in T
  <2>1. b \in Nat /\ n < TwoTo[b]
    BY BitsAre DEF Spans
  <2> HIDE DEF b
  <2>2. TwoTo[b + 1] = 2 * TwoTo[b] /\ TwoTo[b] \in Nat
    <3>1. b + 1 \in Nat \ {0} /\ (b + 1) - 1 = b
      BY <2>1
    <3>. QED
      BY <2>1, <3>1, PowersOfTwo
  <2>3. n < TwoTo[b + 1] /\ TwoTo[b + 1] \in Nat \ {0}
    BY <2>1, <2>2
  <2> DEFINE x == TwoTo[b + 1]
  <2> HIDE DEF x
  <2>4. x \in Nat \ {0} /\ n < x => n % x = n
    OBVIOUS
  <2>5. n % TwoTo[b + 1] # 0
    BY <2>3, <2>4 DEF x
  <2>. QED
    BY <2>1, <2>5
<1>2. PICK k \in T : \A m \in T : k <= m
  <2>1. T \subseteq Nat /\ T # {}
    BY <1>1
  <2> HIDE DEF T
  <2>. QED
    BY <2>1, LeastExists
<1>3. k \in 0 .. b /\ Ends(k)
  <2>1. k \in 0 .. b /\ n % TwoTo[k + 1] # 0
    BY <1>1, <1>2
  <2>2. CASE k = 0
    <3>1. TwoTo[0] = 1 /\ n % 1 = 0
      BY PowersOfTwo
    <3>. QED
      BY <2>1, <2>2, <3>1
  <2>3. CASE k # 0
    <3>1. k - 1 \in Nat /\ (k - 1) + 1 = k /\ ~(k <= k - 1)
      BY <2>1, <2>3
    <3>2. k - 1 \notin T
      BY <1>2, <3>1
    <3>. QED
      BY <2>1, <3>1, <3>2
  <2>. QED
    BY <2>2, <2>3
<1>4. t = CHOOSE j \in 0 .. b : Ends(j)
  BY DEF TrailingZeros
<1>5. t \in 0 .. b /\ Ends(t)
  <2> HIDE DEF Ends, t, b
  <2>. QED
    BY <1>3, <1>4
<1>6. t \in Nat
  BY <1>1, <1>5
<1> HIDE DEF t, b
<1> DEFINE p == TwoTo[t]
<1>7. p \in Nat \ {0} /\ n % p = 0
  BY <1>5, <1>6, PowersOfTwo
<1>8. n % 2 = 0 => t # 0
  <2>1. TwoTo[0 + 1] = 2
    BY PowersOfTwo
  <2>. QED
    BY <1>5, <2>1
<1> HIDE DEF p
<1>9. n = (n \div p) * p
  <2> DEFINE q == n \div p
  <2>1. q \in Int /\ n = p * q + 0
    BY <1>7, Division
  <2> HIDE DEF q
  <2>2. p * q + 0 = q * p
    BY <1>7, <2>1
  <2>. QED
    BY <2>1, <2>2 DEF q
<1>. QED
  BY <1>6, <1>8, <1>9 DEF t, p

-----------------------------------------------------------------------------
(* Fermat's theorem, from Pascal's triangle.  In a triangle every number   *)
(* is the one above it, and a times the one before that.                   *)
Triangle(U, row, a) ==
  /\ U \in [Nat -> [Nat -> Nat]] /\ U[0] = row
  /\ \A n \in Nat \ {0} : U[n][0] = 1 /\ \A k \in Nat \ {0} : U[n][k] = U[n - 1][k] + a * U[n - 1][k - 1]

LEMMA TriangleExists ==
  ASSUME NEW row \in [Nat -> Nat], NEW a \in Nat PROVE \E U : Triangle(U, row, a)
<1> DEFINE Row == [Nat -> Nat]
           next(r) == [k \in Nat |-> IF k = 0 THEN 1 ELSE r[k] + a * r[k - 1]]
           step == [n \in Nat \ {0} |-> [r \in Row |-> next(r)]]
<1>1. ASSUME NEW r \in Row PROVE next(r) \in Row
  <2>1. ASSUME NEW k \in Nat PROVE (IF k = 0 THEN 1 ELSE r[k] + a * r[k - 1]) \in Nat
    <3>1. k # 0 => k - 1 \in Nat
      OBVIOUS
    <3>2. r[k] \in Nat /\ (k # 0 => r[k - 1] \in Nat)
      BY <3>1
    <3> DEFINE x == r[k - 1]
    <3>3. k # 0 => a * x \in Nat
      <4> HIDE DEF x
      <4>1. x \in Nat => a * x \in Nat
        OBVIOUS
      <4>. QED
        BY <3>2, <4>1 DEF x
    <3>. QED
      BY <3>2, <3>3
  <2>. QED
    BY <2>1
<1>2. step \in [Nat \ {0} -> [Row -> Row]]
  <2> HIDE DEF next, Row
  <2>. QED
    BY <1>1
<1>3. PICK U : Recurs(U, Row, row, step)
  <2> HIDE DEF step
  <2>. QED
    BY <1>2, RecursionExists
<1>4. U \in [Nat -> Row] /\ U[0] = row
  BY <1>3 DEF Recurs
<1>5. ASSUME NEW n \in Nat \ {0} PROVE U[n] = next(U[n - 1])
  <2>1. n - 1 \in Nat /\ U[n - 1] \in Row
    BY <1>4
  <2>2. U[n] = step[n][U[n - 1]]
    BY <1>3 DEF Recurs
  <2> HIDE DEF next, Row
  <2>. QED
    BY <2>1, <2>2
<1>6. ASSUME NEW n \in Nat \ {0}, NEW k \in Nat \ {0} PROVE U[n][k] = U[n - 1][k] + a * U[n - 1][k - 1]
  <2>1. U[n][k] = next(U[n - 1])[k]
    BY <1>5
  <2>. QED
    BY <2>1
<1>7. ASSUME NEW n \in Nat \ {0} PROVE U[n][0] = 1
  <2>1. U[n][0] = next(U[n - 1])[0]
    BY <1>5
  <2>. QED
    BY <2>1
<1> HIDE DEF step, next
<1>8. Triangle(U, row, a)
  BY <1>4, <1>6, <1>7 DEF Triangle
<1>. QED
  BY <1>8

Pascal(C) == Triangle(C, [k \in Nat |-> IF k = 0 THEN 1 ELSE 0], 1)
Sums(T, a) == Triangle(T, [k \in Nat |-> 1], a)

LEMMA PascalIs ==
  ASSUME NEW C, Pascal(C)
  PROVE  /\ \A n, k \in Nat : C[n][k] \in Nat
         /\ \A n \in Nat : C[n][0] = 1
         /\ \A k \in Nat \ {0} : C[0][k] = 0
         /\ \A n, k \in Nat \ {0} : C[n][k] = C[n - 1][k] + C[n - 1][k - 1]
<1> DEFINE row == [k \in Nat |-> IF k = 0 THEN 1 ELSE 0]
<1>1. Triangle(C, row, 1)
  BY DEF Pascal
<1>2. row[0] = 1 /\ \A k \in Nat \ {0} : row[k] = 0
  OBVIOUS
<1> HIDE DEF row
<1>3. C \in [Nat -> [Nat -> Nat]] /\ C[0] = row
  BY <1>1 DEF Triangle
<1>4. \A n \in Nat \ {0} : C[n][0] = 1
  BY <1>1 DEF Triangle
<1>5. ASSUME NEW n \in Nat \ {0}, NEW k \in Nat \ {0} PROVE C[n][k] = C[n - 1][k] + C[n - 1][k - 1]
  <2>1. C[n][k] = C[n - 1][k] + 1 * C[n - 1][k - 1]
    BY <1>1 DEF Triangle
  <2>2. n - 1 \in Nat /\ k - 1 \in Nat
    OBVIOUS
  <2>3. C[n - 1][k - 1] \in Nat
    BY <1>3, <2>2
  <2>. QED
    BY <2>1, <2>3
<1>. QED
  BY <1>2, <1>3, <1>4, <1>5

LEMMA SumsAre ==
  ASSUME NEW a \in Nat, NEW T, Sums(T, a)
  PROVE  /\ \A n, k \in Nat : T[n][k] \in Nat
         /\ \A n \in Nat : T[n][0] = 1
         /\ \A k \in Nat : T[0][k] = 1
         /\ \A n, k \in Nat \ {0} : T[n][k] = T[n - 1][k] + a * T[n - 1][k - 1]
<1> DEFINE row == [k \in Nat |-> 1]
<1>1. Triangle(T, row, a)
  BY DEF Sums
<1>2. \A k \in Nat : row[k] = 1
  OBVIOUS
<1> HIDE DEF row
<1>3. T \in [Nat -> [Nat -> Nat]] /\ T[0] = row
  BY <1>1 DEF Triangle
<1>4. \A n \in Nat \ {0} : T[n][0] = 1 /\ \A k \in Nat \ {0} : T[n][k] = T[n - 1][k] + a * T[n - 1][k - 1]
  BY <1>1 DEF Triangle
<1>. QED
  BY <1>2, <1>3, <1>4

LEMMA PascalBeyond ==
  ASSUME NEW C, Pascal(C) PROVE \A n \in Nat : C[n][n] = 1 /\ C[n][n + 1] = 0
<1> DEFINE G == {n \in Nat : C[n][n] = 1 /\ \A k \in Nat : k > n => C[n][k] = 0}
<1>1. 0 \in G
  BY PascalIs
<1>2. ASSUME NEW n \in Nat \ {0}, n - 1 \in G PROVE n \in G
  <2>1. n - 1 \in Nat /\ n > n - 1 /\ n \in Nat
    OBVIOUS
  <2>2. C[n - 1][n] = 0 /\ C[n - 1][n - 1] = 1
    BY <1>2, <2>1
  <2>3. C[n][n] = 1
    <3>1. C[n][n] = C[n - 1][n] + C[n - 1][n - 1]
      BY PascalIs
    <3>. QED
      BY <2>2, <3>1
  <2>4. ASSUME NEW k \in Nat, k > n PROVE C[n][k] = 0
    <3>1. k \in Nat \ {0} /\ k - 1 \in Nat /\ k - 1 > n - 1 /\ k > n - 1
      BY <2>4
    <3>2. C[n - 1][k] = 0 /\ C[n - 1][k - 1] = 0
      BY <1>2, <3>1
    <3>3. C[n][k] = C[n - 1][k] + C[n - 1][k - 1]
      BY <3>1, PascalIs
    <3>. QED
      BY <3>2, <3>3
  <2>. QED
    BY <2>3, <2>4
<1>3. \A n \in Nat : n \in G
  <2> HIDE DEF G
  <2>. QED
    BY <1>1, <1>2, Always
<1>. QED
  BY <1>3

(* k (n over k) = n (n - 1 over k - 1).                                    *)
LEMMA PascalAbsorbs ==
  ASSUME NEW C, Pascal(C) PROVE \A n, k \in Nat \ {0} : k * C[n][k] = n * C[n - 1][k - 1]
<1> DEFINE Absorbs(n) == \A k \in Nat \ {0} : k * C[n][k] = n * C[n - 1][k - 1]
           G == {n \in Nat : n # 0 => Absorbs(n)}
<1>1. 0 \in G
  OBVIOUS
<1>2. ASSUME NEW n \in Nat \ {0}, n - 1 \in G PROVE n \in G
  <2>1. CASE n = 1
    <3>1. ASSUME NEW k \in Nat \ {0} PROVE k * C[1][k] = 1 * C[0][k - 1]
      <4>1. C[1][k] = C[0][k] + C[0][k - 1] /\ C[0][k] = 0
        BY PascalIs
      <4>2. CASE k = 1
        <5>1. C[0][0] = 1
          BY PascalIs
        <5>. QED
          BY <4>1, <4>2, <5>1
      <4>3. CASE k # 1
        <5>1. k - 1 \in Nat \ {0}
          BY <4>3
        <5>2. C[0][k - 1] = 0
          BY <5>1, PascalIs
        <5>. QED
          BY <4>1, <5>2
      <4>. QED
        BY <4>2, <4>3
    <3>2. Absorbs(n)
      BY <2>1, <3>1
    <3>. QED
      BY <3>2
  <2>2. CASE n # 1
    <3> DEFINE m == n - 1
    <3>1. m \in Nat \ {0} /\ n = m + 1
      BY <2>2
    <3>2. Absorbs(m)
      BY <1>2, <3>1
    <3> HIDE DEF m
    <3>3. ASSUME NEW k \in Nat \ {0} PROVE k * C[n][k] = n * C[n - 1][k - 1]
      <4> DEFINE x == C[m][k]
                 y == C[m][k - 1]
                 u == C[m - 1][k - 1]
      <4>1. n - 1 = m /\ k - 1 \in Nat /\ m - 1 \in Nat
        BY <3>1
      <4>2. C[n][k] = x + y /\ x \in Nat /\ y \in Nat /\ u \in Nat
        BY <3>1, <4>1, PascalIs
      <4>3. k * x = m * u
        BY <3>2, <3>1
      <4>4. (k - 1) * y + m * u = m * y
        <5>1. CASE k = 1
          <6>1. y = 1 /\ u = 1
            BY <3>1, <4>1, <5>1, PascalIs
          <6> HIDE DEF x, y, u
          <6>. QED
            BY <3>1, <5>1, <6>1
        <5>2. CASE k # 1
          <6> DEFINE l == k - 1
                     v == C[m - 1][l - 1]
          <6>1. l \in Nat \ {0} /\ l - 1 \in Nat
            BY <5>2
          <6>2. l * y = m * v
            BY <3>1, <3>2, <6>1
          <6>3. y = u + v /\ v \in Nat
            BY <3>1, <4>1, <6>1, PascalIs
          <6> HIDE DEF x, y, u, v
          <6>4. l * y + m * u = m * v + m * u
            BY <6>2
          <6>5. m * v + m * u = m * (u + v)
            BY <3>1, <4>2, <6>3
          <6>. QED
            BY <6>3, <6>4, <6>5
        <5>. QED
          BY <5>1, <5>2
      <4>5. n * C[n - 1][k - 1] = n * y
        BY <4>1
      <4> HIDE DEF x, y, u
      <4>6. k * (x + y) = k * x + (k - 1) * y + y
        BY <4>2
      <4>7. m * y + y = n * y
        BY <3>1, <4>2
      <4>8. k * x \in Nat /\ (k - 1) * y \in Nat /\ m * u \in Nat /\ m * y \in Nat
        BY <3>1, <4>1, <4>2
      <4> DEFINE p1 == k * x
                 p2 == (k - 1) * y
                 p3 == m * u
                 p4 == m * y
      <4>9. /\ p1 \in Nat /\ p2 \in Nat /\ p3 \in Nat /\ p4 \in Nat
            /\ k * (x + y) = p1 + p2 + y /\ p1 = p3 /\ p2 + p3 = p4 /\ p4 + y = n * y
        BY <4>3, <4>4, <4>6, <4>7, <4>8
      <4> HIDE DEF p1, p2, p3, p4
      <4>. QED
        BY <4>2, <4>5, <4>9
    <3>4. Absorbs(n)
      BY <3>3
    <3>. QED
      BY <3>4
  <2>. QED
    BY <2>1, <2>2
<1>3. \A n \in Nat : n \in G
  <2> HIDE DEF G
  <2>. QED
    BY <1>1, <1>2, Always
<1>. QED
  BY <1>3

LEMMA TrianglesExist == (\E C : Pascal(C)) /\ \A a \in Nat : \E T : Sums(T, a)
<1> DEFINE r == [k \in Nat |-> IF k = 0 THEN 1 ELSE 0]
           s == [k \in Nat |-> 1]
<1>1. r \in [Nat -> Nat] /\ s \in [Nat -> Nat] /\ 1 \in Nat
  OBVIOUS
<1>2. (\E C : Triangle(C, r, 1)) /\ \A a \in Nat : \E T : Triangle(T, s, a)
  <2> HIDE DEF r, s
  <2>. QED
    BY <1>1, TriangleExists
<1>. QED
  BY <1>2 DEF Pascal, Sums

(* The sums of the binomial theorem: their terms, and the last of them.    *)
LEMMA SumsHaveTerms ==
  ASSUME NEW C, Pascal(C), NEW a \in Nat, NEW T, Sums(T, a)
  PROVE  \A n \in Nat : \A k \in Nat \ {0} : T[n][k] = T[n][k - 1] + C[n][k] * Raised(a, k)
<1> DEFINE Terms(n) == \A k \in Nat \ {0} : T[n][k] = T[n][k - 1] + C[n][k] * Raised(a, k)
           G == {n \in Nat : Terms(n)}
<1>0. ASSUME NEW k \in Nat PROVE Raised(a, k) \in Nat
  BY PowerIsNat
<1>1. 0 \in G
  <2>1. ASSUME NEW k \in Nat \ {0} PROVE T[0][k] = T[0][k - 1] + C[0][k] * Raised(a, k)
    <3>1. T[0][k] = 1 /\ T[0][k - 1] = 1 /\ C[0][k] = 0 /\ Raised(a, k) \in Nat
      BY <1>0, PascalIs, SumsAre
    <3>2. 0 * Raised(a, k) = 0
      BY <3>1
    <3>. QED
      BY <3>1, <3>2
  <2>. QED
    BY <2>1
<1>2. ASSUME NEW n \in Nat \ {0}, n - 1 \in G PROVE n \in G
  <2> DEFINE m == n - 1
  <2>1. m \in Nat /\ Terms(m)
    BY <1>2
  <2>2. ASSUME NEW k \in Nat \ {0} PROVE T[n][k] = T[n][k - 1] + C[n][k] * Raised(a, k)
    <3> DEFINE l == k - 1
               x == T[m][k]
               y == T[m][l]
               c == C[m][k]
               d == C[m][l]
               e == Raised(a, l)
    <3>1. l \in Nat
      OBVIOUS
    <3>2. x \in Nat /\ y \in Nat /\ c \in Nat /\ d \in Nat /\ e \in Nat
      BY <1>0, <2>1, <3>1, PascalIs, SumsAre
    <3>3. T[n][k] = x + a * y /\ C[n][k] = c + d
      <4>1. T[n][k] = x + a * y
        BY SumsAre
      <4>2. C[n][k] = c + d
        BY PascalIs
      <4>. QED
        BY <4>1, <4>2
    <3>4. Raised(a, k) = a * e
      BY PowerIs
    <3>5. x = y + c * (a * e)
      BY <2>1, <3>4
    <3>6. T[n][l] + (a * d) * e = y + a * y
      <4>1. CASE l = 0
        <5>1. T[n][l] = 1 /\ y = 1 /\ d = 1 /\ e = 1
          BY <2>1, <4>1, PascalIs, SumsAre, PowerIs
        <5>. QED
          BY <5>1
      <4>2. CASE l # 0
        <5> DEFINE z == T[m][l - 1]
        <5>1. l \in Nat \ {0} /\ l - 1 \in Nat
          BY <3>1, <4>2
        <5>2. T[n][l] = y + a * z /\ z \in Nat
          BY <2>1, <5>1, SumsAre
        <5>3. y = z + d * e
          BY <2>1, <5>1
        <5> HIDE DEF m, l, x, y, c, d, e, z
        <5>4. a * y = a * z + a * (d * e) /\ (a * d) * e = a * (d * e) /\ a * z \in Nat
          BY <3>2, <5>2, <5>3
        <5>5. a * (d * e) \in Nat
          BY <3>2
        <5>. QED
          BY <3>2, <5>2, <5>4, <5>5
      <4>. QED
        BY <4>1, <4>2
    <3>7. T[n][l] \in Nat
      BY <3>1, SumsAre
    <3> HIDE DEF m, x, y, c, d, e
    <3>8. (c + d) * (a * e) = c * (a * e) + (a * d) * e
      <4>1. a * e \in Nat
        BY <3>2
      <4>2. (c + d) * (a * e) = c * (a * e) + d * (a * e)
        BY <3>2, <4>1
      <4>3. d * (a * e) = (a * d) * e
        BY <3>2
      <4>. QED
        BY <4>2, <4>3
    <3> DEFINE u == c * (a * e)
               v == (a * d) * e
               w == a * y
    <3>9. u \in Nat /\ v \in Nat /\ w \in Nat
      <4>1. a * e \in Nat /\ a * d \in Nat
        BY <3>2
      <4>. QED
        BY <3>2, <4>1
    <3>10. T[n][k] = x + w /\ x = y + u /\ T[n][l] + v = y + w /\ C[n][k] * Raised(a, k) = u + v
      BY <3>3, <3>4, <3>5, <3>6, <3>8
    <3> HIDE DEF u, v, w
    <3>11. T[n][k] = T[n][l] + (u + v)
      BY <3>2, <3>7, <3>9, <3>10
    <3>. QED
      BY <3>10, <3>11
  <2>3. Terms(n)
    BY <2>2
  <2>. QED
    BY <2>3
<1>3. \A n \in Nat : n \in G
  <2> HIDE DEF G
  <2>. QED
    BY <1>1, <1>2, Always
<1>. QED
  BY <1>3

LEMMA SumsTotal ==
  ASSUME NEW C, Pascal(C), NEW a \in Nat, NEW T, Sums(T, a)
  PROVE  \A n \in Nat : T[n][n] = Raised(1 + a, n)
<1> DEFINE G == {n \in Nat : T[n][n] = Raised(1 + a, n)}
<1>0. 1 + a \in Int
  OBVIOUS
<1>1. 0 \in G
  BY <1>0, SumsAre, PowerIs
<1>2. ASSUME NEW n \in Nat \ {0}, n - 1 \in G PROVE n \in G
  <2> DEFINE m == n - 1
             x == T[m][m]
  <2>1. m \in Nat /\ m + 1 = n /\ (m + 1) - 1 = m
    OBVIOUS
  <2>2. T[n][n] = T[m][n] + a * x /\ x \in Nat
    BY <2>1, SumsAre
  <2>3. T[m][n] = T[m][m] + C[m][n] * Raised(a, n)
    BY <2>1, SumsHaveTerms
  <2>4. C[m][n] = 0
    BY <2>1, PascalBeyond
  <2>5. Raised(a, n) \in Int
    BY PowerIs
  <2>6. 0 * Raised(a, n) = 0
    BY <2>5
  <2>7. T[m][n] = x
    BY <2>2, <2>3, <2>4, <2>6
  <2>8. Raised(1 + a, n) = (1 + a) * x
    BY <1>0, <1>2, PowerIs
  <2> HIDE DEF x, m
  <2>9. (1 + a) * x = x + a * x
    BY <2>2
  <2>. QED
    BY <2>2, <2>7, <2>8, <2>9
<1>3. \A n \in Nat : n \in G
  <2> HIDE DEF G
  <2>. QED
    BY <1>1, <1>2, Always
<1>. QED
  BY <1>3

(* Raising to a prime commutes with a sum.                                 *)
LEMMA PrimePowerOfSum ==
  ASSUME NEW p \in Nat, IsPrime(p), NEW a \in Nat PROVE Cong(Raised(1 + a, p), 1 + Raised(a, p), p)
<1>1. PICK C : Pascal(C)
  BY TrianglesExist
<1>2. PICK T : Sums(T, a)
  BY TrianglesExist
<1>3. p > 1 /\ p \in Nat \ {0} /\ p \in Int
  BY DEF IsPrime
<1>4. ASSUME NEW k \in 1 .. p - 1 PROVE Factor(p, C[p][k])
  <2>1. k \in Nat \ {0} /\ p - 1 \in Nat /\ k - 1 \in Nat
    BY <1>3
  <2>2. C[p][k] \in Int /\ C[p - 1][k - 1] \in Int /\ k \in Int
    BY <1>1, <1>3, <2>1, PascalIs
  <2>3. k * C[p][k] = p * C[p - 1][k - 1]
    BY <1>1, <1>3, <2>1, PascalAbsorbs
  <2>4. Factor(p, k * C[p][k])
    BY <2>2, <2>3 DEF Factor
  <2>5. ~Factor(p, k)
    BY <1>3, <2>1, FactorBelow
  <2>. QED
    BY <2>2, <2>4, <2>5, PrimeOfProduct
<1> DEFINE G == {k \in 0 .. p - 1 : Cong(T[p][k], 1, p)}
<1>5. 0 \in G
  <2>1. T[p][0] = 1 /\ 1 \in Int
    BY <1>2, SumsAre
  <2>2. Cong(1, 1, p)
    BY <1>3, CongSame
  <2>. QED
    BY <1>3, <2>1, <2>2
<1>6. ASSUME NEW k \in 1 .. p - 1, k - 1 \in G PROVE k \in G
  <2> DEFINE x == T[p][k - 1]
             y == C[p][k] * Raised(a, k)
  <2>1. k \in Nat \ {0} /\ k - 1 \in Nat
    BY <1>3
  <2>2. T[p][k] = x + y /\ x \in Int /\ C[p][k] \in Int /\ Raised(a, k) \in Int
    <3>1. T[p][k] = x + y
      BY <1>1, <1>2, <2>1, SumsHaveTerms
    <3>2. x \in Nat
      BY <1>2, <2>1, SumsAre
    <3>3. C[p][k] \in Nat
      BY <1>1, <2>1, PascalIs
    <3>4. a \in Int /\ k \in Nat
      BY <2>1
    <3>5. Raised(a, k) \in Int
      BY <3>4, PowerIs
    <3>. QED
      BY <3>1, <3>2, <3>3, <3>5
  <2>3. Factor(p, y) /\ y \in Int
    BY <1>3, <1>4, <2>2, FactorOfProduct
  <2>4. Cong(x, 1, p)
    BY <1>6
  <2> HIDE DEF x, y
  <2>5. Cong(y, 0, p)
    <3>1. y - 0 = y
      BY <2>3
    <3>. QED
      BY <1>3, <2>3, <3>1, CongIsFactor
  <2>6. Cong(x + y, 1 + 0, p)
    BY <1>3, <2>2, <2>3, <2>4, <2>5, CongSum
  <2>. QED
    BY <2>2, <2>6
<1>7. p - 1 \in G
  <2>1. p - 1 \in Nat
    BY <1>3
  <2>2. \A i \in 0 .. p - 1 : i \in G
    <3> HIDE DEF G
    <3>. QED
      BY <1>5, <1>6, <2>1, UpTo
  <2>. QED
    BY <2>1, <2>2
<1>8. T[p][p] = T[p][p - 1] + Raised(a, p)
  <2>1. T[p][p] = T[p][p - 1] + C[p][p] * Raised(a, p)
    BY <1>1, <1>2, <1>3, SumsHaveTerms
  <2>2. C[p][p] = 1 /\ Raised(a, p) \in Int
    BY <1>1, PascalBeyond, PowerIs
  <2>3. 1 * Raised(a, p) = Raised(a, p)
    BY <2>2
  <2>. QED
    BY <2>1, <2>2, <2>3
<1>9. T[p][p] = Raised(1 + a, p)
  BY <1>1, <1>2, SumsTotal
<1>10. T[p][p - 1] \in Int /\ Raised(a, p) \in Int /\ Cong(T[p][p - 1], 1, p)
  <2>1. p - 1 \in Nat /\ a \in Int
    BY <1>3
  <2>2. T[p][p - 1] \in Nat
    BY <1>2, <2>1, SumsAre
  <2>3. Raised(a, p) \in Int
    BY <2>1, PowerIs
  <2>. QED
    BY <1>7, <2>2, <2>3
<1>11. Cong(T[p][p - 1] + Raised(a, p), 1 + Raised(a, p), p)
  <2> DEFINE x == T[p][p - 1]
             y == Raised(a, p)
  <2>1. x \in Int /\ y \in Int /\ Cong(x, 1, p) /\ 1 \in Int
    BY <1>10
  <2> HIDE DEF x, y
  <2>2. Cong(y, y, p)
    BY <1>3, <2>1, CongSame
  <2>3. Cong(x + y, 1 + y, p)
    BY <1>3, <2>1, <2>2, CongSum
  <2>. QED
    BY <2>3 DEF x, y
<1>. QED
  BY <1>8, <1>9, <1>11

LEMMA Fermat ==
  ASSUME NEW p \in Nat, IsPrime(p) PROVE \A a \in Nat : Cong(Raised(a, p), a, p)
<1> DEFINE G == {a \in Nat : Cong(Raised(a, p), a, p)}
<1>0. p \in Nat \ {0} /\ p \in Int
  BY DEF IsPrime
<1>1. 0 \in G
  <2>1. Raised(0, p) = 0 * Raised(0, p - 1) /\ Raised(0, p - 1) \in Int
    <3>1. p - 1 \in Nat /\ 0 \in Int
      BY <1>0
    <3>. QED
      BY <1>0, <3>1, PowerIs
  <2>2. Raised(0, p) = 0
    BY <2>1
  <2>3. Cong(0, 0, p)
    BY <1>0, CongSame
  <2>. QED
    BY <2>2, <2>3
<1>2. ASSUME NEW a \in Nat \ {0}, a - 1 \in G PROVE a \in G
  <2> DEFINE b == a - 1
  <2>1. b \in Nat /\ 1 + b = a /\ Cong(Raised(b, p), b, p)
    BY <1>2
  <2> HIDE DEF b
  <2>2. Cong(Raised(1 + b, p), 1 + Raised(b, p), p)
    BY <2>1, PrimePowerOfSum
  <2>3. Raised(b, p) \in Int /\ Raised(1 + b, p) \in Int
    <3>1. 1 + b \in Int /\ b \in Int
      BY <2>1
    <3>. QED
      BY <3>1, PowerIs
  <2>4. Cong(1 + Raised(b, p), 1 + b, p)
    BY <1>0, <2>1, <2>3, CongSame, CongSum
  <2>5. Cong(Raised(1 + b, p), 1 + b, p)
    <3>1. 1 + Raised(b, p) \in Int /\ 1 + b \in Int
      BY <2>1, <2>3
    <3>. QED
      BY <1>0, <2>2, <2>3, <2>4, <3>1, CongThrough
  <2>. QED
    BY <2>1, <2>5
<1>3. \A a \in Nat : a \in G
  <2> HIDE DEF G
  <2>. QED
    BY <1>1, <1>2, Always
<1>. QED
  BY <1>3

LEMMA FermatForUnits ==
  ASSUME NEW p \in Nat, IsPrime(p), NEW a \in Nat, ~Factor(p, a) PROVE Cong(Raised(a, p - 1), 1, p)
<1>1. p \in Nat \ {0} /\ p \in Int /\ p - 1 \in Nat
  BY DEF IsPrime
<1> DEFINE x == Raised(a, p - 1)
<1>2. Raised(a, p) = a * x /\ x \in Int
  BY <1>1, PowerIs
<1>3. Cong(a * x, a, p)
  BY <1>2, Fermat
<1> HIDE DEF x
<1>4. Factor(p, a * x - a)
  BY <1>1, <1>2, <1>3, CongIsFactor
<1>5. a * x - a = a * (x - 1) /\ x - 1 \in Int
  BY <1>2
<1>6. Factor(p, x - 1)
  BY <1>4, <1>5, PrimeOfProduct
<1>7. Cong(x, 1, p)
  <2>1. 1 \in Int
    OBVIOUS
  <2>. QED
    BY <1>1, <1>2, <1>6, <2>1, CongIsFactor
<1>. QED
  BY <1>7 DEF x

-----------------------------------------------------------------------------
(* Exponents that undo each other.                                         *)
LEMMA LcmFactors ==
  ASSUME NEW x \in Nat \ {0}, NEW y \in Nat \ {0}
  PROVE  Lcm(x, y) \in Nat \ {0} /\ Factor(x, Lcm(x, y)) /\ Factor(y, Lcm(x, y))
<1> DEFINE g == Gcd(x, y)
<1>1. g \in Nat \ {0} /\ Factor(g, x) /\ Factor(g, y)
  BY GcdIs DEF Divisor
<1>2. Lcm(x, y) = (x \div g) * y
  BY DEF Lcm
<1> HIDE DEF g
<1>3. PICK s \in Nat \ {0} : x = g * s
  BY <1>1, FactorBelow
<1>4. PICK t \in Nat \ {0} : y = g * t
  BY <1>1, FactorBelow
<1>5. x \div g = s
  <2>1. s \in Int /\ 0 \in 0 .. g - 1 /\ x = g * s + 0
    BY <1>1, <1>3
  <2>2. \A m \in Int : (g * m + 0) \div g = m
    BY <1>1
  <2>. QED
    BY <2>1, <2>2
<1>6. s * y = x * t
  <2>1. s * (g * t) = (g * s) * t
    BY <1>1
  <2>. QED
    BY <1>3, <1>4, <2>1
<1> DEFINE l == Lcm(x, y)
<1>7. s * y = y * s /\ s * y \in Nat \ {0} /\ s \in Int /\ t \in Int
  OBVIOUS
<1>8. l = y * s /\ l = x * t /\ l \in Nat \ {0}
  BY <1>2, <1>5, <1>6, <1>7
<1> HIDE DEF l
<1>9. Factor(x, l) /\ Factor(y, l)
  BY <1>7, <1>8 DEF Factor
<1>. QED
  BY <1>8, <1>9 DEF l

LEMMA PowerAtPrime ==
  ASSUME NEW p \in Nat, IsPrime(p), NEW k \in Nat \ {0}, Factor(p - 1, k - 1), NEW m \in Nat
  PROVE  Cong(Raised(m, k), m, p)
<1>1. p \in Nat \ {0} /\ p \in Int /\ p - 1 \in Nat \ {0} /\ m \in Int
  BY DEF IsPrime
<1> DEFINE x == Raised(m, k - 1)
<1>2. Raised(m, k) = m * x /\ x \in Int
  <2>1. k - 1 \in Nat
    OBVIOUS
  <2>. QED
    BY <1>1, <2>1, PowerIs
<1>3. CASE Factor(p, m)
  <2> HIDE DEF x
  <2>1. Factor(p, m * x) /\ m * x \in Int
    <3>1. m * x \in Int
      BY <1>1, <1>2
    <3>. QED
      BY <1>1, <1>2, <1>3, <3>1, FactorOfProduct
  <2>2. Factor(p, m * x - m)
    BY <1>1, <1>3, <2>1, FactorOfSum
  <2>. QED
    BY <1>1, <1>2, <2>1, <2>2, CongIsFactor
<1>4. CASE ~Factor(p, m)
  <2>1. \E t \in Nat : k - 1 = (p - 1) * t
    <3>1. CASE k = 1
      <4>1. k - 1 = (p - 1) * 0
        BY <1>1, <3>1
      <4>. QED
        BY <4>1
    <3>2. CASE k # 1
      <4>1. k - 1 \in Nat \ {0}
        BY <3>2
      <4>2. \E t \in Nat \ {0} : k - 1 = (p - 1) * t
        BY <1>1, <4>1, FactorBelow
      <4>. QED
        BY <4>2
    <3>. QED
      BY <3>1, <3>2
  <2>2. PICK t \in Nat : k - 1 = (p - 1) * t
    BY <2>1
  <2> DEFINE y == Raised(m, p - 1)
  <2>3. y \in Int /\ Cong(y, 1, p)
    BY <1>1, <1>4, FermatForUnits, PowerIs
  <2>4. x = Raised(y, t)
    BY <1>1, <2>2, PowerOfPower
  <2> HIDE DEF x, y
  <2>5. Cong(x, 1, p)
    <3>1. Cong(Raised(y, t), Raised(1, t), p)
      BY <1>1, <2>3, PowerOfCong
    <3>. QED
      BY <2>4, <3>1, PowerOfOne
  <2>6. Cong(m * x, m * 1, p)
    BY <1>1, <1>2, <2>5, CongSame, CongProduct
  <2>. QED
    BY <1>2, <2>6
<1>. QED
  BY <1>3, <1>4

LEMMA CongOfPrimes ==
  ASSUME NEW p \in Nat, IsPrime(p), NEW q \in Nat, IsPrime(q), p # q,
         NEW x \in Int, NEW y \in Int, Cong(x, y, p), Cong(x, y, q)
  PROVE  Cong(x, y, p * q)
<1>1. p \in Nat \ {0} /\ q \in Nat \ {0} /\ p > 1 /\ q > 1
  BY DEF IsPrime
<1>2. ~Factor(q, p)
  BY <1>1, PrimeFactors
<1>3. PICK s \in Int : x = y + p * s
  BY DEF Cong
<1>4. Factor(q, p * s)
  <2>1. Factor(q, x - y)
    BY <1>1, CongIsFactor
  <2>2. x - y = p * s
    <3> DEFINE z == p * s
    <3>1. z \in Int /\ x = y + z
      BY <1>3
    <3> HIDE DEF z
    <3>2. x - y = z
      BY <3>1
    <3>. QED
      BY <3>2 DEF z
  <2>. QED
    BY <2>1, <2>2
<1>5. Factor(q, s)
  BY <1>2, <1>4, PrimeOfProduct
<1>6. PICK t \in Int : s = q * t
  BY <1>5 DEF Factor
<1>7. p * (q * t) = (p * q) * t
  OBVIOUS
<1>8. x = y + (p * q) * t
  BY <1>3, <1>6, <1>7
<1>. QED
  BY <1>8 DEF Cong

(* RSA: exponents inverse modulo the least common multiple of p - 1 and    *)
(* q - 1 undo each other for every number below the modulus, whether it    *)
(* has a factor in common with it or not.                                  *)
LEMMA ExponentsUndo ==
  ASSUME NEW p \in Nat, IsPrime(p), NEW q \in Nat, IsPrime(q), p # q,
         NEW e \in Nat, NEW d \in Nat, (d * e) % Lcm(p - 1, q - 1) = 1, NEW m \in 0 .. p * q - 1
  PROVE  ModPow(ModPow(m, e, p * q), d, p * q) = m
<1> DEFINE n == p * q
           L == Lcm(p - 1, q - 1)
           k == e * d
<1>1. p - 1 \in Nat \ {0} /\ q - 1 \in Nat \ {0} /\ n \in Nat \ {0} /\ k \in Nat /\ m \in Nat
  <2>1. p > 1 /\ q > 1
    BY DEF IsPrime
  <2>. QED
    BY <2>1
<1>2. L \in Nat \ {0} /\ Factor(p - 1, L) /\ Factor(q - 1, L)
  BY <1>1, LcmFactors
<1>3. k % L = 1
  <2>1. d * e = e * d
    OBVIOUS
  <2>. QED
    BY <2>1
<1> HIDE DEF L
<1>4. k \in Nat \ {0} /\ Factor(L, k - 1)
  <2> DEFINE u == k \div L
  <2>1. u \in Int /\ k = L * u + (k % L)
    <3> HIDE DEF k
    <3>1. k \in Int /\ L \in Nat \ {0}
      BY <1>1, <1>2
    <3>. QED
      BY <3>1, Division, Zenon
  <2> HIDE DEF k
  <2>2. k \in Nat /\ L * u \in Int
    BY <1>1, <1>2, <2>1
  <2> HIDE DEF u
  <2>3. k - 1 = L * u
    BY <1>3, <2>1, <2>2
  <2>4. k # 0
    <3>1. 0 % L = 0
      BY <1>2
    <3>. QED
      BY <1>3, <3>1
  <2>. QED
    BY <2>1, <2>2, <2>3, <2>4 DEF Factor
<1>5. Cong(Raised(m, k), m, n)
  <2> HIDE DEF k
  <2>1. p - 1 \in Int /\ q - 1 \in Int /\ L \in Int /\ k - 1 \in Int
    BY <1>1, <1>2, <1>4
  <2>2. Factor(p - 1, k - 1) /\ Factor(q - 1, k - 1)
    BY <1>2, <1>4, <2>1, FactorThrough
  <2>3. Cong(Raised(m, k), m, p) /\ Cong(Raised(m, k), m, q)
    BY <1>1, <1>4, <2>2, PowerAtPrime
  <2>4. Raised(m, k) \in Int /\ m \in Int
    BY <1>1, PowerIs
  <2>. QED
    BY <2>3, <2>4, CongOfPrimes
<1>6. ModPow(m, e, n) = Raised(m, e) % n /\ Raised(m, e) \in Nat
  BY <1>1, ModPowIs, PowerIsNat
<1> DEFINE x == Raised(m, e)
           y == x % n
<1>7. x \in Int /\ y \in Nat /\ y \in Int
  <2>1. x \in Int
    BY <1>6
  <2> HIDE DEF x
  <2>2. y \in 0 .. n - 1
    BY <1>1, <2>1, Division
  <2>. QED
    BY <1>1, <2>1, <2>2
<1>8. ModPow(y, d, n) = Raised(y, d) % n
  BY <1>1, <1>7, ModPowIs
<1>9. Raised(x, d) = Raised(m, k) /\ Raised(x, d) \in Int /\ Raised(y, d) \in Int
  <2>1. m \in Int
    BY <1>1
  <2>2. Raised(m, k) = Raised(x, d)
    BY <2>1, PowerOfPower
  <2> HIDE DEF x, y, k
  <2>. QED
    BY <1>7, <2>2, PowerIs
<1>10. Cong(Raised(y, d), Raised(x, d), n)
  <2> HIDE DEF x, n
  <2>1. Cong(y, x, n) /\ n \in Int
    BY <1>1, <1>7, CongRemainder
  <2> HIDE DEF y
  <2>. QED
    BY <1>7, <2>1, PowerOfCong
<1> HIDE DEF x, y, n, k
<1>11. Cong(Raised(y, d), m, n)
  <2>1. m \in Int /\ n \in Int
    BY <1>1
  <2>. QED
    BY <1>5, <1>9, <1>10, <2>1, CongThrough
<1>12. Raised(y, d) % n = m % n
  <2>1. m \in Int
    BY <1>1
  <2>. QED
    BY <1>1, <1>9, <1>11, <2>1, CongIsRemainder, Zenon
<1>13. m % n = m
  <2>1. m \in 0 .. n - 1
    BY DEF n
  <2>. QED
    BY <1>1, <2>1
<1>. QED
  BY <1>6, <1>8, <1>12, <1>13 DEF n, x, y

-----------------------------------------------------------------------------
(* What shows that a number is composite, and no power of a prime.         *)
LEMMA PowersOfOnePrime ==
  ASSUME NEW p \in Nat, IsPrime(p)
  PROVE  \A n \in Nat : n # 0 /\ (\A q \in Nat : IsPrime(q) /\ Factor(q, n) => q = p) => Cong(n, 1, p - 1)
<1> DEFINE Only(n) == \A q \in Nat : IsPrime(q) /\ Factor(q, n) => q = p
           G == {n \in Nat : n # 0 /\ Only(n) => Cong(n, 1, p - 1)}
<1>1. p > 1 /\ p \in Int /\ p - 1 \in Int /\ 1 \in Int
  BY DEF IsPrime
<1>2. ASSUME NEW n \in Nat, \A m \in 0 .. n - 1 : m \in G PROVE n \in G
  <2> SUFFICES ASSUME n # 0, Only(n) PROVE Cong(n, 1, p - 1)
    OBVIOUS
  <2>1. CASE n = 1
    BY <1>1, <2>1, CongSame
  <2>2. CASE n # 1
    <3>1. n \in Nat \ {0} /\ n > 1
      BY <2>2
    <3>2. Factor(p, n)
      BY <3>1, PrimeExists
    <3>3. PICK t \in Nat \ {0} : n = p * t
      BY <3>1, <3>2, FactorBelow
    <3>4. t < p * t /\ n = t * p /\ t \in Int /\ n \in Int
      BY <1>1, <3>3
    <3>5. t \in 0 .. n - 1
      BY <3>3, <3>4
    <3>6. Only(t)
      <4> SUFFICES ASSUME NEW q \in Nat, IsPrime(q), Factor(q, t) PROVE q = p
        OBVIOUS
      <4>1. q \in Int
        OBVIOUS
      <4>2. Factor(q, t * p)
        BY <1>1, <3>4, <4>1, FactorOfProduct
      <4>. QED
        BY <3>4, <4>2
    <3>7. Cong(t, 1, p - 1)
      BY <1>2, <3>5, <3>6
    <3>8. Cong(p, 1, p - 1)
      <4>1. p = 1 + (p - 1) * 1
        BY <1>1
      <4>. QED
        BY <4>1 DEF Cong
    <3>9. Cong(p * t, 1 * 1, p - 1)
      BY <1>1, <3>4, <3>7, <3>8, CongProduct
    <3>. QED
      BY <3>3, <3>9
  <2>. QED
    BY <2>1, <2>2
<1>3. \A n \in Nat : n \in G
  <2> HIDE DEF G
  <2>. QED
    BY <1>2, FromBelow
<1>. QED
  BY <1>3

(* Numbers that are coprime have no prime in common.                       *)
LEMMA CoprimeNumbers ==
  ASSUME NEW x \in Nat, NEW y \in Nat, Gcd(x, y) = 1, NEW c \in Nat \ {0}, Factor(c, x), Factor(c, y)
  PROVE  c = 1
<1>1. Factor(c, 1)
  BY GcdIs DEF Divisor
<1>2. c <= 1
  BY <1>1, FactorBelow
<1>. QED
  BY <1>2

(* The last power of a witness without factor: n has two different primes. *)
LEMMA TwoPrimes ==
  ASSUME NEW n \in Nat, n > 1, NEW b \in Nat, Gcd(b, n) = 1,
         NEW x \in Nat, x = Raised(b, n - 1) % n, x # 0 => Gcd(x - 1, n) = 1
  PROVE  \E p, q \in Nat : p # q /\ IsPrime(p) /\ IsPrime(q) /\ Factor(p, n) /\ Factor(q, n)
<1> SUFFICES ASSUME \A p, q \in Nat :
                      IsPrime(p) /\ IsPrime(q) /\ Factor(p, n) /\ Factor(q, n) => p = q
             PROVE  FALSE
  OBVIOUS
<1>1. PICK p \in Nat : IsPrime(p) /\ Factor(p, n)
  BY PrimeExists
<1>2. p \in Nat \ {0} /\ p > 1 /\ p \in Int /\ p - 1 \in Int /\ n \in Int /\ b \in Int /\ n \in Nat \ {0} /\ n - 1 \in Nat \ {0} /\ 1 \in Int
  BY <1>1 DEF IsPrime
<1>3. ~Factor(p, b)
  BY <1>1, <1>2, CoprimeNumbers
<1>4. Cong(n, 1, p - 1)
  BY <1>1, <1>2, PowersOfOnePrime
<1> DEFINE y == Raised(b, n - 1)
           z == Raised(b, p - 1)
<1>5. Cong(y, 1, p) /\ y \in Int
  <2>1. Factor(p - 1, n - 1)
    BY <1>2, <1>4, CongIsFactor
  <2>2. PICK t \in Nat \ {0} : n - 1 = (p - 1) * t
    <3>1. p - 1 \in Nat
      BY <1>2
    <3>. QED
      BY <1>2, <2>1, <3>1, FactorBelow
  <2>3. y = Raised(z, t) /\ z \in Int /\ y \in Int
    <3>1. p - 1 \in Nat /\ t \in Nat /\ n - 1 \in Nat
      BY <1>2
    <3>2. Raised(b, (p - 1) * t) = Raised(Raised(b, p - 1), t)
      BY <1>2, <3>1, PowerOfPower
    <3>. QED
      BY <1>2, <2>2, <3>1, <3>2, PowerIs
  <2>4. Cong(z, 1, p)
    BY <1>1, <1>3, FermatForUnits
  <2> HIDE DEF y, z
  <2>5. Cong(Raised(z, t), Raised(1, t), p)
    BY <1>2, <2>3, <2>4, PowerOfCong
  <2>. QED
    BY <2>3, <2>5, PowerOfOne
<1>6. Cong(x, y, n)
  <2> HIDE DEF y
  <2>1. Cong(y % n, y, n)
    BY <1>2, <1>5, CongRemainder, Zenon
  <2>. QED
    BY <2>1 DEF y
<1> HIDE DEF y
<1>7. Cong(x, y, p)
  <2>1. x \in Int /\ x - y \in Int
    BY <1>5
  <2>3. Factor(n, x - y)
    BY <1>2, <1>5, <1>6, <2>1, CongIsFactor, Zenon
  <2>2. Factor(p, x - y)
    BY <1>1, <1>2, <2>1, <2>3, FactorThrough
  <2>. QED
    BY <1>2, <1>5, <2>1, <2>2, CongIsFactor
<1>8. Cong(x, 1, p)
  <2>1. x \in Int
    OBVIOUS
  <2>. QED
    BY <1>2, <1>5, <1>7, <2>1, CongThrough
<1>9. Factor(p, x - 1)
  <2>1. x \in Int
    OBVIOUS
  <2>. QED
    BY <1>2, <1>8, <2>1, CongIsFactor
<1>10. CASE x = 0
  <2>1. Factor(p, -1) /\ -1 \in Int
    BY <1>9, <1>10
  <2>2. Factor(p, (-1) * (-1))
    BY <1>2, <2>1, FactorOfProduct
  <2>3. (-1) * (-1) = 1
    OBVIOUS
  <2>4. p <= 1
    BY <2>2, <2>3, FactorBelow
  <2>. QED
    BY <1>2, <2>4
<1>11. CASE x # 0
  <2>1. x - 1 \in Nat /\ Gcd(x - 1, n) = 1
    BY <1>11
  <2>2. p = 1
    BY <1>1, <1>2, <1>9, <2>1, CoprimeNumbers
  <2>. QED
    BY <1>2, <2>2
<1>. QED
  BY <1>10, <1>11

(* A root of one that is neither 1 nor -1 has a factor in common with n.   *)
LEMMA RootHasFactor ==
  ASSUME NEW n \in Nat, n > 1, NEW x \in 0 .. n - 1, x # 1, x # n - 1, (x * x) % n = 1
  PROVE  x - 1 \in Nat /\ Gcd(x - 1, n) # 1
<1>1. x # 0
  <2>1. (0 * 0) % n = 0
    OBVIOUS
  <2>. QED
    BY <2>1
<1>2. x - 1 \in Nat \ {0} /\ x + 1 \in Nat \ {0} /\ x + 1 < n /\ x * x \in Int /\ n \in Nat \ {0} /\ 1 \in Int
  BY <1>1
<1>3. Cong(x * x, 1, n)
  <2>1. 1 % n = 1
    OBVIOUS
  <2>2. Cong(x * x, 1, n) <=> (x * x) % n = 1 % n
    BY <1>2, CongIsRemainder
  <2>. QED
    BY <2>1, <2>2
<1>4. Factor(n, (x - 1) * (x + 1))
  <2>1. x * x - 1 = (x - 1) * (x + 1)
    OBVIOUS
  <2>2. Factor(n, x * x - 1)
    BY <1>2, <1>3, CongIsFactor
  <2>. QED
    BY <2>1, <2>2
<1>5. ASSUME Gcd(x - 1, n) = 1 PROVE FALSE
  <2>1. \A c \in Nat \ {0} : Factor(c, n) /\ Factor(c, x - 1) => c = 1
    BY <1>2, <1>5, CoprimeNumbers
  <2>2. Factor(n, x + 1)
    <3>1. x - 1 \in Int /\ x + 1 \in Int
      BY <1>2
    <3>. QED
      BY <1>2, <1>4, <2>1, <3>1, CoprimeFactor, Zenon
  <2>3. n <= x + 1
    BY <1>2, <2>2, FactorBelow
  <2>. QED
    BY <1>2, <2>3
<1>. QED
  BY <1>2, <1>5
=============================================================================
