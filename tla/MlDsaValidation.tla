--------------------------- MODULE MlDsaValidation ---------------------------
(* validate of post_quantum/ml_dsa_validation.rs: the check that an         *)
(* expanded ML-DSA key comes out of key generation.  The ring is smaller:   *)
(* N coefficients modulo Q, octets of ByteBits bits; the algorithm is the   *)
(* code's, with the number theoretic transform, the unpacking of secrets    *)
(* and the rounding.                                                        *)
EXTENDS Integers, SequencesExt

CONSTANTS Q, Layers, Zeta, InverseN,  \* 8380417, 8, 1753, 8347681
          Eta, D, ByteBits,           \* secret range, dropped bits, 8
          Rows, Columns,              \* K and L
          Matrix,                     \* rho -> row -> column -> polynomial
          Keys,                       \* the expanded keys to check
          None

VARIABLES expanded, answer

N == 2 ^ Layers
Sum(f(_), last) == LET sum[i \in 0 .. last] == (IF i = 0 THEN 0 ELSE sum[i - 1]) + f(i) IN sum[last]

(* A polynomial is the tuple of its coefficients; that of x^i is at i + 1.  *)
Tuple(f(_)) == SubSeq([i \in 1 .. N |-> f(i - 1)], 1, N)

-----------------------------------------------------------------------------
(* ZETAS: powers of zeta in bit-reversed order.                             *)
BitRev(i) == Sum(LAMBDA b : ((i \div 2 ^ b) % 2) * 2 ^ (Layers - 1 - b), Layers - 1)
Zetas(i) == (Zeta ^ BitRev(i)) % Q

(* One layer of ntt; blocks of a layer take the twiddles one after another, *)
(* up from 1, or down from N - 1 in the inverse.                            *)
Twiddle(inverse, layer, block) ==
  IF inverse THEN Q - Zetas((2 ^ (Layers - layer)) - 1 - block) ELSE Zetas(2 ^ layer + block)
Layer(inverse, values, layer) ==
  LET length == 2 ^ (IF inverse THEN layer ELSE Layers - 1 - layer)
      value(i) ==
        LET zeta == Twiddle(inverse, layer, i \div (2 * length))
            first == i % (2 * length) < length
            left == values[(IF first THEN i ELSE i - length) + 1]
            right == values[(IF first THEN i + length ELSE i) + 1]
        IN  (IF inverse THEN IF first THEN left + right ELSE zeta * (left - right)
             ELSE IF first THEN left + zeta * right ELSE left - zeta * right) % Q
  IN  Tuple(value)

ntt(values, inverse) ==
  LET after[layer \in 0 .. Layers] ==
        IF layer = 0 THEN values ELSE Layer(inverse, after[layer - 1], layer - 1)
      done == after[Layers]
  IN  IF inverse THEN Tuple(LAMBDA i : (InverseN * done[i + 1]) % Q) ELSE done

(* valid_small_secret_encoding: codes leave an accumulator as soon as they  *)
(* are complete.                                                            *)
Width == CHOOSE w \in 1 .. ByteBits : 2 ^ (w - 1) <= 2 * Eta /\ 2 * Eta < 2 ^ w
Absorb(state, byte) ==
  LET accumulator == state.accumulator + byte * 2 ^ state.available
      codes == (state.available + ByteBits) \div Width
      code(k) == (accumulator \div 2 ^ (k * Width)) % 2 ^ Width
  IN  [accumulator |-> accumulator \div 2 ^ (codes * Width),
       available |-> (state.available + ByteBits) % Width,
       valid |-> state.valid /\ \A k \in 0 .. codes - 1 : code(k) <= 2 * Eta]
valid_small_secret_encoding(encoded) ==
  FoldLeft(Absorb, [accumulator |-> 0, available |-> 0, valid |-> TRUE], encoded).valid

(* decode_s1, decode_s2 and encode_t0 of the ml-dsa crate.                  *)
Bit(encoded, b) == (encoded[(b \div ByteBits) + 1] \div 2 ^ (b % ByteBits)) % 2
Code(encoded, i) == Sum(LAMBDA k : Bit(encoded, i * Width + k) * 2 ^ k, Width - 1)
Decoded(encoded, row) == Tuple(LAMBDA i : (Eta - Code(encoded, (row - 1) * N + i)) % Q)
EncodedLow(low) == (2 ^ (D - 1) - low) % Q

(* ExpandA: what SHAKE128 gives for rho, column and row, in transformed     *)
(* form and with values that are not below Q among it.                      *)
Evaluated(f, i) == Sum(LAMBDA j : f[j + 1] * ((Zeta ^ (((2 * BitRev(i) + 1) * j) % (2 * N))) % Q), N - 1) % Q
Xof(rho, column, row) ==
  FlattenSeq([i \in 1 .. N |-> <<Q, Evaluated(Matrix[rho][row][column], i - 1), 2 * Q>>])

Coefficients(rho, column, row) == SelectSeq(Xof(rho, column, row), LAMBDA value : value < Q)

(* Mutant of High: halves are rounded up.                                   *)
HighOfHalf(value) == (value + 2 ^ (D - 1)) \div 2 ^ D

(* Power2Round.                                                             *)
High(value) == (value + 2 ^ (D - 1) - 1) \div 2 ^ D

Low(value) == (value - High(value) * 2 ^ D) % Q

(* One row of t0 as validate computes it.                                   *)
ExpectedRow(e, row) ==
  LET term(c) == LET a == Coefficients(e.rho, c, row)
                     s_hat == ntt(Decoded(e.s1, c), FALSE)
                 IN  Tuple(LAMBDA i : a[i + 1] * s_hat[i + 1])
      terms == SubSeq([c \in 1 .. Columns |-> term(c)], 1, Columns)
      t == ntt(Tuple(LAMBDA i : Sum(LAMBDA c : terms[c + 1][i + 1], Columns - 1) % Q), TRUE)
      s2 == Decoded(e.s2, row)
  IN  Tuple(LAMBDA i : EncodedLow(Low((s2[i + 1] + t[i + 1]) % Q)))

validate(e) ==
  IF /\ valid_small_secret_encoding(e.s1) /\ valid_small_secret_encoding(e.s2)
     /\ \A row \in 1 .. Rows : ExpectedRow(e, row) = e.t0[row]
  THEN "none" ELSE "InvalidExpandedPrivateKey"

-----------------------------------------------------------------------------
(* The reference: the product in the ring, coefficient by coefficient.      *)
Negacyclic(f, g, i) ==
  Sum(LAMBDA j : IF j <= i THEN f[j + 1] * g[i - j + 1] ELSE (Q - f[j + 1]) * g[N + i - j + 1],
      N - 1) % Q
GeneratedRow(e, row) ==
  LET s1 == SubSeq([c \in 1 .. Columns |-> Decoded(e.s1, c)], 1, Columns)
      s2 == Decoded(e.s2, row)
      t(i) == (Sum(LAMBDA c : Negacyclic(Matrix[e.rho][row][c + 1], s1[c + 1], i), Columns - 1)
               + s2[i + 1]) % Q
      low(x) == CHOOSE l \in 1 - 2 ^ (D - 1) .. 2 ^ (D - 1) : (x - l) % 2 ^ D = 0
  IN  Tuple(LAMBDA i : 2 ^ (D - 1) - low(t(i)))

(* t0 as it belongs to the key, or with one coefficient of a row changed.   *)
LowBits(e) ==
  LET t0 == SubSeq([row \in 1 .. Rows |-> GeneratedRow(e, row)], 1, Rows)
  IN  {t0} \cup {[t0 EXCEPT ![row][i] = (@ + 1) % 2 ^ D] : row \in 1 .. Rows, i \in {1, N}}

Init == expanded \in Keys /\ answer = None

Validate ==
  /\ answer = None
  /\ \E t0 \in LowBits(expanded) :
       LET e == [rho |-> expanded.rho, s1 |-> expanded.s1, s2 |-> expanded.s2, t0 |-> t0]
       IN  expanded' = e /\ answer' = validate(e)

Next == Validate
Spec == Init /\ [][Next]_<<expanded, answer>>

(* OnlyGeneratedKeys: an expanded key passes exactly if all coefficients of *)
(* its secrets are in range and its t0 is the low part of A s1 + s2 in the  *)
(* ring, so no malformed secret reaches the signing code (validate, ntt,    *)
(* valid_small_secret_encoding).                                            *)
InRange(encoded) ==
  \A i \in 0 .. ((Len(encoded) * ByteBits) \div Width) - 1 : Code(encoded, i) <= 2 * Eta
OnlyGeneratedKeys ==
  answer # None =>
    (answer = "none" <=>
       /\ InRange(expanded.s1) /\ InRange(expanded.s2)
       /\ \A row \in 1 .. Rows : expanded.t0[row] = GeneratedRow(expanded, row))
=============================================================================
