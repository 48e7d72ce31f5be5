----------------------- MODULE CertificateTrustProofs -----------------------
(***************************************************************************)
(* Proofs about CertificateTrust for any certificates, configurations,     *)
(* chains and keys.                                                        *)
(***************************************************************************)
EXTENDS CertificateTrust, NumberLemmas, FiniteSetTheorems, SequenceTheorems, TLAPS

-----------------------------------------------------------------------------
(* Lists.                                                                  *)

(* The loop of Keep.                                                       *)
KeepsAlong(kept, S, list, indices) ==
  /\ kept \in [0 .. Len(list) -> Seq(S)] /\ kept[0] = << >>
  /\ \A i \in 1 .. Len(list) :
       kept[i] = IF i \in indices THEN Append(kept[i - 1], list[i]) ELSE kept[i - 1]
  /\ Keep(list, indices) = kept[Len(list)]

LEMMA KeepLoop ==
  ASSUME NEW S, NEW list \in Seq(S), NEW indices
  PROVE  \E kept : KeepsAlong(kept, S, list, indices)
<1> DEFINE K == Len(list)
           Lists == Seq(S)
           Longer(i, l) == IF i \in indices THEN Append(l, list[i]) ELSE l
           Loop(f) == f = [i \in 0 .. K |-> IF i = 0 THEN << >> ELSE Longer(i, f[i - 1])]
           step == [i \in 1 .. K |-> [l \in Lists |-> Longer(i, l)]]
<1>1. K \in Nat /\ << >> \in Lists
  OBVIOUS
<1>2. \A i \in 1 .. K, l \in Lists : Longer(i, l) \in Lists
  OBVIOUS
<1>3. Keep(list, indices) = (CHOOSE g : Loop(g))[K]
  BY DEF Keep
<1> HIDE DEF K, Lists, Longer
<1>4. step \in [1 .. K -> [Lists -> Lists]]
  BY <1>2
<1>5. PICK f : Iterates(f, K, Lists, << >>, step)
  <2> HIDE DEF step
  <2>. QED
    BY <1>1, <1>4, IterationExists
<1>6. \A i \in 1 .. K : f[i] = Longer(i, f[i - 1])
  <2>1. \A i \in 1 .. K : i - 1 \in 0 .. K
    BY <1>1
  <2>. QED
    BY <1>5, <2>1 DEF Iterates
<1>7. Loop(f)
  <2>1. \A i \in 0 .. K : i # 0 => i \in 1 .. K
    BY <1>1
  <2>. QED
    BY <1>5, <1>6, <2>1 DEF Iterates
<1> DEFINE kept == CHOOSE g : Loop(g)
<1>8. Loop(kept)
  <2> HIDE DEF Loop
  <2>. QED
    BY <1>7
<1> HIDE DEF kept
<1>9. kept[0] = << >> /\ \A i \in 1 .. K : kept[i] = Longer(i, kept[i - 1])
  <2>1. 0 \in 0 .. K /\ \A i \in 1 .. K : i \in 0 .. K /\ i # 0
    BY <1>1
  <2>. QED
    BY <1>8, <2>1
<1>10. kept \in [0 .. K -> Lists]
  <2> DEFINE Good == {i \in 0 .. K : kept[i] \in Lists}
  <2>1. 0 \in Good
    BY <1>1, <1>9
  <2>2. ASSUME NEW i \in 1 .. K, i - 1 \in Good PROVE i \in Good
    <3>1. kept[i - 1] \in Lists /\ i \in 0 .. K
      BY <1>1, <2>2
    <3>. QED
      BY <1>2, <1>9, <3>1
  <2>3. \A i \in 0 .. K : i \in Good
    <3> HIDE DEF Good
    <3>. QED
      BY <1>1, <2>1, <2>2, UpTo
  <2>. QED
    BY <1>8, <2>3
<1>11. Keep(list, indices) = kept[K]
  BY <1>3 DEF kept
<1>12. KeepsAlong(kept, S, list, indices)
  BY <1>9, <1>10, <1>11 DEF K, Lists, Longer, KeepsAlong
<1>. QED
  BY <1>12

(* What Keep returns has what stands at the indices, and nothing else; the *)
(* last element stays the last one if it is kept.                          *)
LEMMA KeepElements ==
  ASSUME NEW S, NEW list \in Seq(S), NEW indices
  PROVE  /\ Keep(list, indices) \in Seq(S)
         /\ \A i \in 1 .. Len(list) : i \in indices =>
              \E j \in 1 .. Len(Keep(list, indices)) : Keep(list, indices)[j] = list[i]
         /\ \A j \in 1 .. Len(Keep(list, indices)) :
              \E i \in 1 .. Len(list) : i \in indices /\ Keep(list, indices)[j] = list[i]
         /\ list # << >> /\ Len(list) \in indices => Last(Keep(list, indices)) = Last(list)
<1> DEFINE K == Len(list)
<1>0. PICK kept : KeepsAlong(kept, S, list, indices)
  BY KeepLoop
<1>1. /\ kept \in [0 .. K -> Seq(S)] /\ kept[0] = << >>
      /\ \A i \in 1 .. K :
           kept[i] = IF i \in indices THEN Append(kept[i - 1], list[i]) ELSE kept[i - 1]
      /\ Keep(list, indices) = kept[K]
  BY <1>0 DEF KeepsAlong
<1>2. K \in Nat /\ K \in 0 .. K
  OBVIOUS
<1> DEFINE Has(n) == \A i \in 1 .. n : i \in indices =>
                       \E j \in 1 .. Len(kept[n]) : kept[n][j] = list[i]
           Only(n) == \A j \in 1 .. Len(kept[n]) :
                        \E i \in 1 .. n : i \in indices /\ kept[n][j] = list[i]
           Good == {n \in 0 .. K : Has(n) /\ Only(n)}
<1>3. 0 \in Good
  BY <1>1, <1>2
<1>4. ASSUME NEW n \in 1 .. K, n - 1 \in Good PROVE n \in Good
  <2>0. n \in 0 .. K /\ n - 1 \in 0 .. K
    BY <1>2
  <2>1. n \in 0 .. K /\ n - 1 \in 0 .. K /\ kept[n - 1] \in Seq(S)
    BY <1>1, <2>0
  <2>2. \A i \in 1 .. n : i = n \/ i \in 1 .. n - 1
    OBVIOUS
  <2>3. CASE n \notin indices
    <3>1. kept[n] = kept[n - 1]
      BY <1>1, <2>3
    <3>2. Has(n)
      BY <1>4, <2>2, <2>3, <3>1
    <3>3. Only(n)
      BY <1>4, <3>1
    <3>. QED
      BY <2>1, <3>2, <3>3
  <2>4. CASE n \in indices
    <3> DEFINE short == kept[n - 1]
               long == kept[n]
    <3>0. list[n] \in S /\ long = Append(short, list[n])
      <4>1. list[n] \in S
        OBVIOUS
      <4>2. long = Append(short, list[n])
        BY <1>1, <2>4
      <4>. QED
        BY <4>1, <4>2
    <3>1. /\ Len(long) = Len(short) + 1 /\ Len(short) \in Nat
          /\ \A j \in 1 .. Len(short) : long[j] = short[j]
          /\ long[Len(short) + 1] = list[n]
      <4>1. short \in Seq(S)
        BY <2>1
      <4> HIDE DEF short, long
      <4>. QED
        BY <3>0, <4>1, AppendProperties
    <3>2. \A j \in 1 .. Len(long) : j = Len(short) + 1 \/ j \in 1 .. Len(short)
      BY <3>1
    <3>3. /\ Len(short) + 1 \in 1 .. Len(long)
          /\ \A j \in 1 .. Len(short) : j \in 1 .. Len(long)
      BY <3>1
    <3>4. /\ \A i \in 1 .. n - 1 : i \in indices => \E j \in 1 .. Len(short) : short[j] = list[i]
          /\ \A j \in 1 .. Len(short) : \E i \in 1 .. n - 1 : i \in indices /\ short[j] = list[i]
      BY <1>4
    <3>5. n \in 1 .. n /\ \A i \in 1 .. n - 1 : i \in 1 .. n
      OBVIOUS
    <3> HIDE DEF short, long
    <3>6. \A i \in 1 .. n : i \in indices => \E j \in 1 .. Len(long) : long[j] = list[i]
      BY <2>2, <3>1, <3>3, <3>4
    <3>7. \A j \in 1 .. Len(long) : \E i \in 1 .. n : i \in indices /\ long[j] = list[i]
      <4> TAKE j \in 1 .. Len(long)
      <4>1. CASE j = Len(short) + 1
        BY <2>4, <3>1, <3>5, <4>1
      <4>2. CASE j \in 1 .. Len(short)
        <5>1. PICK i \in 1 .. n - 1 : i \in indices /\ short[j] = list[i]
          BY <3>4, <4>2
        <5>2. i \in 1 .. n /\ long[j] = list[i]
          BY <3>1, <3>5, <4>2, <5>1
        <5>. QED
          BY <5>1, <5>2
      <4>. QED
        BY <3>2, <4>1, <4>2
    <3>. QED
      BY <2>1, <3>6, <3>7 DEF long
  <2>. QED
    BY <2>3, <2>4
<1>5. \A n \in 0 .. K : n \in Good
  <2> HIDE DEF Good, K
  <2>. QED
    BY <1>2, <1>3, <1>4, UpTo
<1>6. Has(K) /\ Only(K) /\ kept[K] \in Seq(S)
  BY <1>1, <1>2, <1>5
<1>7. ASSUME list # << >>, K \in indices PROVE Last(kept[K]) = Last(list)
  <2>1. K \in 1 .. K /\ K - 1 \in 0 .. K
    BY <1>7
  <2>2. kept[K] = Append(kept[K - 1], list[K]) /\ kept[K - 1] \in Seq(S)
    BY <1>1, <1>7, <2>1
  <2>. QED
    BY <2>2 DEF Last
<1>. QED
  BY <1>1, <1>6, <1>7

-----------------------------------------------------------------------------
(* Paths.                                                                  *)

(* A path is a list of certificates of the pool, and not longer than it.   *)
LEMMA PathsAreLists ==
  ASSUME NEW pool, IsFiniteSet(pool), NEW target, NEW path \in Paths(pool, target)
  PROVE  path \in Seq(pool) /\ Len(path) <= Cardinality(pool)
<1> DEFINE K == Cardinality(pool)
           Lists == Seq(pool)
           wanted(p) == IF p = << >> THEN target.issuer ELSE p[1].issuer
           above(p) == {c \in pool \ Range(p) : c.subject = wanted(p)}
           Longer(set) == UNION {{<<c>> \o p : c \in above(p)} : p \in set}
           Loop(f) == f = [n \in 0 .. K |-> IF n = 0 THEN {<< >>} ELSE Longer(f[n - 1])]
           up == CHOOSE g : Loop(g)
           step == [n \in 1 .. K |-> [set \in SUBSET Lists |-> Longer(set)]]
<1>1. K \in Nat
  BY FS_CardinalityType
<1>2. path \in UNION {up[n] : n \in 0 .. K}
  BY DEF Paths
<1>3. \A p \in Lists : \A c \in above(p) : c \in pool /\ <<c>> \o p \in Lists /\ Len(<<c>> \o p) = Len(p) + 1
  OBVIOUS
<1> HIDE DEF above
<1>5. \A set, q : q \in Longer(set) => \E p \in set : \E c \in above(p) : q = <<c>> \o p
  OBVIOUS
<1>4. \A set \in SUBSET Lists : Longer(set) \in SUBSET Lists
  <2> HIDE DEF Longer, Lists
  <2>1. ASSUME NEW set \in SUBSET Lists, NEW q \in Longer(set) PROVE q \in Lists
    <3>1. PICK p \in set : \E c \in above(p) : q = <<c>> \o p
      BY <1>5
    <3>2. p \in Lists
      OBVIOUS
    <3>. QED
      BY <1>3, <3>1, <3>2
  <2>. QED
    BY <2>1
<1>6. << >> \in Lists /\ Len(<< >>) = 0
  OBVIOUS
<1> HIDE DEF K, Lists, Longer
<1>7. step \in [1 .. K -> [SUBSET Lists -> SUBSET Lists]]
  BY <1>4
<1>8. {<< >>} \in SUBSET Lists
  BY <1>6
<1>9. PICK f : Iterates(f, K, SUBSET Lists, {<< >>}, step)
  <2> HIDE DEF step
  <2>. QED
    BY <1>1, <1>7, <1>8, IterationExists
<1>10. Loop(f)
  <2>1. \A n \in 0 .. K : n # 0 => n \in 1 .. K /\ n - 1 \in 0 .. K
    BY <1>1
  <2>2. \A n \in 1 .. K : f[n] = Longer(f[n - 1])
    <3>1. \A n \in 1 .. K : n - 1 \in 0 .. K
      BY <1>1
    <3>. QED
      BY <1>9, <3>1 DEF Iterates
  <2>. QED
    BY <1>9, <2>1, <2>2 DEF Iterates
<1>11. Loop(up)
  <2> HIDE DEF Loop
  <2>. QED
    BY <1>10
<1> HIDE DEF up
<1>12. up[0] = {<< >>} /\ \A n \in 1 .. K : up[n] = Longer(up[n - 1])
  <2>1. 0 \in 0 .. K /\ \A n \in 1 .. K : n \in 0 .. K /\ n # 0
    BY <1>1
  <2>. QED
    BY <1>11, <2>1
<1> DEFINE Good == {n \in 0 .. K : \A p \in up[n] : p \in Lists /\ Len(p) = n}
<1>13. 0 \in Good
  BY <1>1, <1>6, <1>12
<1>14. ASSUME NEW n \in 1 .. K, n - 1 \in Good PROVE n \in Good
  <2>1. n \in 0 .. K /\ (n - 1) + 1 = n
    BY <1>1
  <2>2. ASSUME NEW q \in up[n] PROVE q \in Lists /\ Len(q) = n
    <3>1. PICK p \in up[n - 1] : \E c \in above(p) : q = <<c>> \o p
      BY <1>5, <1>12
    <3>2. p \in Lists /\ Len(p) = n - 1
      BY <1>14
    <3>. QED
      BY <1>3, <2>1, <3>1, <3>2
  <2>. QED
    BY <2>1, <2>2
<1>15. \A n \in 0 .. K : n \in Good
  <2> HIDE DEF Good
  <2>. QED
    BY <1>1, <1>13, <1>14, UpTo
<1>16. PICK n \in 0 .. K : path \in up[n]
  BY <1>2
<1>17. path \in Lists /\ Len(path) = n
  BY <1>15, <1>16
<1>. QED
  BY <1>1, <1>16, <1>17 DEF K, Lists
-----------------------------------------------------------------------------
(* Trust.                                                                  *)

(* A list of certificates of the pool, the first of them trusted directly  *)
(* and each one supporting the next, ends in a trusted certificate.        *)
LEMMA TrustedAlong ==
  ASSUME NEW pool, IsFiniteSet(pool), NEW direct \in SUBSET pool, NEW now, NEW named,
         NEW list \in Seq(pool), Len(list) \in 1 .. Cardinality(pool) + 1,
         list[1] \in direct,
         \A i \in 1 .. Len(list) : i # 1 => Supports(list[i - 1], list[i], now, named)
  PROVE  list[Len(list)] \in Trusted(pool, direct, now, named)
<1> DEFINE K == Cardinality(pool)
           Below(set) == {c \in pool : \E i \in set : Supports(i, c, now, named)}
           Loop(f) == f = [n \in 0 .. K |-> IF n = 0 THEN direct ELSE f[n - 1] \cup Below(f[n - 1])]
           within == CHOOSE g : Loop(g)
           step == [n \in 1 .. K |-> [set \in SUBSET pool |-> set \cup Below(set)]]
<1>1. K \in Nat
  BY FS_CardinalityType
<1>2. Trusted(pool, direct, now, named) = within[K]
  BY DEF Trusted
<1>3. \A set : Below(set) \in SUBSET pool
  OBVIOUS
<1>4. ASSUME NEW set, NEW i \in set, NEW c \in pool, Supports(i, c, now, named)
      PROVE  c \in Below(set)
  BY <1>4
<1> HIDE DEF K, Below
<1>5. step \in [1 .. K -> [SUBSET pool -> SUBSET pool]]
  BY <1>3
<1>6. PICK f : Iterates(f, K, SUBSET pool, direct, step)
  <2> HIDE DEF step
  <2>. QED
    BY <1>1, <1>5, IterationExists
<1>7. Loop(f)
  <2>1. \A n \in 0 .. K : n # 0 => n \in 1 .. K
    BY <1>1
  <2>2. \A n \in 1 .. K : f[n] = f[n - 1] \cup Below(f[n - 1])
    <3>1. \A n \in 1 .. K : n - 1 \in 0 .. K
      BY <1>1
    <3>. QED
      BY <1>6, <3>1 DEF Iterates
  <2>. QED
    BY <1>6, <2>1, <2>2 DEF Iterates
<1>8. Loop(within)
  <2> HIDE DEF Loop
  <2>. QED
    BY <1>7
<1> HIDE DEF within
<1>9. within[0] = direct /\ \A n \in 1 .. K : within[n] = within[n - 1] \cup Below(within[n - 1])
  <2>1. 0 \in 0 .. K /\ \A n \in 1 .. K : n \in 0 .. K /\ n # 0
    BY <1>1
  <2>. QED
    BY <1>8, <2>1
<1> DEFINE Good == {n \in 0 .. K : \A i \in 1 .. Len(list) : i <= n + 1 => list[i] \in within[n]}
<1>10. 0 \in Good
  <2>1. 0 \in 0 .. K /\ \A i \in 1 .. Len(list) : i <= 0 + 1 => i = 1
    BY <1>1
  <2>. QED
    BY <1>9, <2>1
<1>11. ASSUME NEW n \in 1 .. K, n - 1 \in Good PROVE n \in Good
  <2>1. n \in 0 .. K
    BY <1>1
  <2>2. ASSUME NEW i \in 1 .. Len(list), i <= n + 1 PROVE list[i] \in within[n]
    <3>1. CASE i <= n
      <4>1. i <= (n - 1) + 1
        BY <1>1, <3>1
      <4>2. list[i] \in within[n - 1]
        BY <1>11, <4>1
      <4>. QED
        BY <1>9, <4>2
    <3>2. CASE i = n + 1
      <4>1. i # 1 /\ i - 1 \in 1 .. Len(list) /\ i - 1 <= (n - 1) + 1
        BY <1>1, <3>2
      <4>2. list[i - 1] \in within[n - 1]
        BY <1>11, <4>1
      <4>3. Supports(list[i - 1], list[i], now, named) /\ list[i] \in pool
        BY <4>1
      <4>4. list[i] \in Below(within[n - 1])
        BY <1>4, <4>2, <4>3
      <4>. QED
        BY <1>9, <4>4
    <3>. QED
      BY <1>1, <2>2, <3>1, <3>2
  <2>. QED
    BY <2>1, <2>2
<1>12. \A n \in 0 .. K : n \in Good
  <2> HIDE DEF Good
  <2>. QED
    BY <1>1, <1>10, <1>11, UpTo
<1>13. K \in 0 .. K /\ Len(list) \in 1 .. Len(list) /\ Len(list) <= K + 1
  BY <1>1 DEF K
<1>. QED
  BY <1>2, <1>12, <1>13

(* What the accepted paths have passed: the basic checks, the signatures,  *)
(* and key usage, which the retry for an attestation lifts from the        *)
(* certificates without any.                                               *)
LEMMA AcceptedPath ==
  ASSUME NEW S, NEW path \in Seq(S), NEW anchor, NEW target, NEW optional \in BOOLEAN,
         PathAccepted(anchor, path, target, optional)
  PROVE  /\ BasicChecks(anchor, path, target, clock)
         /\ VerifySignatures(anchor, path, target)
         /\ \A i \in 1 .. Len(path) :
              path[i].usage = "sign" \/ (optional /\ path[i].usage = "absent")
<1> DEFINE status == ValidatePathRfc5280(anchor, path, target, clock)
           usage_path == WithoutAbsentUsage(path)
<1>1. status = "Valid" => /\ BasicChecks(anchor, path, target, clock)
                          /\ CheckKeyUsage(path) /\ VerifySignatures(anchor, path, target)
  BY DEF ValidatePathRfc5280
<1>2. status = "InvalidKeyUsage" => BasicChecks(anchor, path, target, clock)
  BY DEF ValidatePathRfc5280
<1>3. status \in {"Valid", "InvalidKeyUsage", "Rejected"}
  BY DEF ValidatePathRfc5280
<1>4. CASE status = "Valid"
  BY <1>1, <1>4 DEF CheckKeyUsage
<1>5. CASE status # "Valid"
  <2>1. /\ optional /\ status = "InvalidKeyUsage"
        /\ CheckKeyUsage(usage_path) /\ VerifySignatures(anchor, path, target)
    BY <1>5 DEF PathAccepted, ValidateOptionalCaKeyUsage
  <2>2. ASSUME NEW i \in 1 .. Len(path), path[i].usage # "absent" PROVE path[i].usage = "sign"
    <3> DEFINE indices == {j \in 1 .. Len(path) : path[j].usage # "absent"}
    <3>1. usage_path = Keep(path, indices)
      BY DEF WithoutAbsentUsage
    <3>2. i \in indices
      BY <2>2
    <3> HIDE DEF indices
    <3>3. PICK j \in 1 .. Len(Keep(path, indices)) : Keep(path, indices)[j] = path[i]
      BY <3>2, KeepElements
    <3>. QED
      BY <2>1, <3>1, <3>3 DEF CheckKeyUsage
  <2>. QED
    BY <1>2, <2>1, <2>2
<1>. QED
  BY <1>4, <1>5
(* The range of a list is finite and holds its elements; that of its front *)
(* holds those before the last.                                            *)
LEMMA RangeOfList ==
  ASSUME NEW S, NEW list \in Seq(S)
  PROVE  /\ IsFiniteSet(Range(list)) /\ Range(list) \subseteq S
         /\ \A i \in 1 .. Len(list) : list[i] \in Range(list)
         /\ \A c \in Range(list) : \E i \in 1 .. Len(list) : c = list[i]
<1>1. DOMAIN list = 1 .. Len(list) /\ Len(list) \in Nat /\ \A i \in 1 .. Len(list) : list[i] \in S
  OBVIOUS
<1>2. list \in Surjection(1 .. Len(list), Range(list))
  BY <1>1 DEF Surjection, Range
<1>3. IsFiniteSet(1 .. Len(list))
  BY <1>1, FS_Interval
<1>4. IsFiniteSet(Range(list))
  BY <1>2, <1>3, FS_Surjection
<1>. QED
  BY <1>1, <1>4 DEF Range

LEMMA FrontOfList ==
  ASSUME NEW S, NEW list \in Seq(S), Len(list) # 0
  PROVE  /\ Front(list) \in Seq(S) /\ Len(list) \in 1 .. Len(list)
         /\ Range(Front(list)) \subseteq Range(list)
         /\ \A i \in 1 .. Len(list) - 1 : list[i] \in Range(Front(list))
<1>1. Len(list) \in Nat /\ Len(list) \in 1 .. Len(list)
  OBVIOUS
<1>2. /\ Front(list) \in Seq(S) /\ Len(Front(list)) = Len(list) - 1
      /\ \A i \in 1 .. Len(list) - 1 : Front(list)[i] = list[i]
  <2>1. 1 \in 1 .. Len(list) + 1 /\ Len(list) - 1 \in 1 - 1 .. Len(list) /\ (Len(list) - 1) - 1 + 1 = Len(list) - 1
    BY <1>1
  <2>2. SubSeq(list, 1, Len(list) - 1) \in Seq(S)
    BY <1>1, <2>1, SubSeqProperties
  <2>3. Len(SubSeq(list, 1, Len(list) - 1)) = Len(list) - 1
    BY <1>1, <2>1, SubSeqProperties
  <2>4. \A i \in 1 .. Len(list) - 1 : SubSeq(list, 1, Len(list) - 1)[i] = list[i]
    BY <1>1, <2>1
  <2>. QED
    BY <2>2, <2>3, <2>4 DEF Front
<1>3. \A i \in 1 .. Len(list) - 1 : list[i] \in Range(Front(list))
  BY <1>2, RangeOfList
<1>4. ASSUME NEW c \in Range(Front(list)) PROVE c \in Range(list)
  <2>1. PICK i \in 1 .. Len(Front(list)) : c = Front(list)[i]
    BY <1>2, RangeOfList
  <2>2. i \in 1 .. Len(list) /\ c = list[i]
    BY <1>1, <1>2, <2>1
  <2>. QED
    BY <2>2, RangeOfList
<1>. QED
  BY <1>1, <1>2, <1>3, <1>4

(* A leaf that is presented once stays the last of the distinct            *)
(* certificates, so that validate_files looks at the leaf itself.          *)
LEMMA LeafPresentedOnce ==
  ASSUME NEW chain \in Seq(Certificates), Len(chain) # 0, LeafIsNoCa(chain),
         Last(chain) \notin Range(Front(chain))
  PROVE  ~Last(chain).ca
<1> DEFINE indices == {i \in 1 .. Len(chain) : \A j \in 1 .. i - 1 : chain[j].id # chain[i].id}
<1>1. Unique(chain) = Keep(chain, indices)
  BY DEF Unique
<1>2. Len(chain) \in 1 .. Len(chain) /\ \A i \in 1 .. Len(chain) - 1 : chain[i] \in Range(Front(chain))
  BY FrontOfList
<1>3. \A i \in 1 .. Len(chain) - 1 : chain[i] # chain[Len(chain)]
  BY <1>2 DEF Last
<1>4. \A i \in 1 .. Len(chain) : chain[i] \in Certificates
  OBVIOUS
<1>5. \A i \in 1 .. Len(chain) - 1 : i \in 1 .. Len(chain)
  OBVIOUS
<1>6. ASSUME NEW i \in 1 .. Len(chain) - 1 PROVE chain[i].id # chain[Len(chain)].id
  <2>1. chain[i] \in Certificates /\ chain[Len(chain)] \in Certificates
    BY <1>2, <1>4, <1>5
  <2>2. chain[i] # chain[Len(chain)]
    BY <1>3
  <2>. QED
    BY <2>1, <2>2, FingerprintAssumption
<1>7. Len(chain) \in indices /\ chain # << >>
  BY <1>2, <1>6
<1> HIDE DEF indices
<1>8. Last(Keep(chain, indices)) = Last(chain)
  BY <1>7, KeepElements
<1>. QED
  BY <1>1, <1>8 DEF LeafIsNoCa

(* An accepted path leads from the anchor to the target through            *)
(* certificates that support each other.                                   *)
LEMMA TargetIsTrusted ==
  ASSUME NEW pool, IsFiniteSet(pool), NEW direct \in SUBSET pool, NEW named,
         NEW anchor, NEW path \in Seq(pool), Len(path) <= Cardinality(pool),
         NEW target \in pool, NEW optional \in BOOLEAN,
         PathAccepted(anchor, path, target, optional),
         \A c \in pool : c.issuer = anchor.name /\ c.signer = anchor.key /\ IsValidAt(anchor, clock)
                           => c \in direct,
         \A i \in 1 .. Len(path) : optional /\ path[i].ca /\ path[i].usage = "absent" => path[i] = named
  PROVE  target \in Trusted(pool, direct, clock, named)
<1> DEFINE all == Append(path, target)
<1>1. /\ all \in Seq(pool) /\ Len(all) = Len(path) + 1 /\ Len(path) \in Nat
      /\ \A i \in 1 .. Len(path) : all[i] = path[i]
      /\ all[Len(path) + 1] = target
  BY AppendProperties
<1>2. /\ BasicChecks(anchor, path, target, clock) /\ VerifySignatures(anchor, path, target)
      /\ \A i \in 1 .. Len(path) :
           path[i].usage = "sign" \/ (optional /\ path[i].usage = "absent")
  BY AcceptedPath
<1>3. /\ IsValidAt(anchor, clock)
      /\ \A i \in 1 .. Len(all) : all[i].issuer = Above(anchor, path, i) /\ IsValidAt(all[i], clock)
      /\ \A i \in 1 .. Len(path) : path[i].ca
  BY <1>2 DEF BasicChecks
<1>4. \A i \in 1 .. Len(all) : all[i].signer = KeyAbove(anchor, path, i)
  BY <1>2 DEF VerifySignatures, VerifySignature
<1> HIDE DEF all
<1>5. Cardinality(pool) \in Nat
  BY FS_CardinalityType
<1>6. Len(all) \in 1 .. Cardinality(pool) + 1 /\ 1 \in 1 .. Len(all) /\ Len(all) \in 1 .. Len(all)
  BY <1>1, <1>5
<1>7. all[1] \in direct
  <2>1. all[1] \in pool /\ all[1].issuer = anchor.name /\ all[1].signer = anchor.key
    BY <1>1, <1>3, <1>4, <1>6 DEF Above, KeyAbove
  <2>. QED
    BY <1>3, <2>1
<1>8. ASSUME NEW i \in 1 .. Len(all), i # 1 PROVE Supports(all[i - 1], all[i], clock, named)
  <2>1. i - 1 \in 1 .. Len(path) /\ i - 1 \in 1 .. Len(all)
    BY <1>1, <1>8
  <2>2. all[i - 1] = path[i - 1] /\ path[i - 1].ca /\ IsValidAt(path[i - 1], clock)
    <3>1. all[i - 1] = path[i - 1] /\ path[i - 1].ca
      BY <1>1, <1>3, <2>1
    <3>2. IsValidAt(all[i - 1], clock)
      BY <1>3, <2>1
    <3>. QED
      BY <3>1, <3>2
  <2>3. all[i].issuer = path[i - 1].subject /\ all[i].signer = path[i - 1].key
    BY <1>3, <1>4, <1>8 DEF Above, KeyAbove
  <2>4. MaySign(path[i - 1], named)
    BY <1>2, <2>1, <2>2 DEF MaySign
  <2>. QED
    BY <2>2, <2>3, <2>4 DEF Supports
<1>9. all[Len(all)] = target
  BY <1>1
<1>. QED
  BY <1>1, <1>6, <1>7, <1>8, <1>9, TrustedAlong
(* What validate_files accepts: a leaf that the anchors vouch for within   *)
(* the pool, valid now, and no CA unless it is presented twice.            *)
LEMMA FilesVouched ==
  ASSUME NEW chain \in Seq(Certificates), NEW anchors, NEW source, NEW optional \in BOOLEAN,
         ValidateFiles(anchors, source, chain, optional),
         NEW pool, IsFiniteSet(pool), Range(chain) \subseteq pool, source \subseteq pool,
         NEW direct \in SUBSET pool, NEW named,
         \A anchor \in anchors, c \in pool :
           c.issuer = anchor.name /\ c.signer = anchor.key /\ IsValidAt(anchor, clock)
             => c \in direct,
         \A c \in source \cup Range(chain) : optional /\ c.ca /\ c.usage = "absent" => c = named
  PROVE  /\ Last(chain) \in Trusted(pool, direct, clock, named)
         /\ IsValidAt(Last(chain), clock)
         /\ Last(chain) \notin Range(Front(chain)) => ~Last(chain).ca
<1> DEFINE near == source \cup Range(Front(chain))
           target == Last(chain)
<1>1. Len(chain) # 0 /\ Len(chain) \in 1 .. Len(chain)
  BY FrontOfList DEF ValidateFiles
<1>2. /\ LeafIsNoCa(chain) /\ IsValidAt(target, clock)
      /\ \E anchor \in anchors, path \in Paths(near, target) :
           PathAccepted(anchor, path, target, optional)
  BY <1>1 DEF ValidateFiles, Last
<1>3. target \in Range(chain) /\ Range(Front(chain)) \subseteq Range(chain)
  BY <1>1, RangeOfList, FrontOfList DEF Last
<1>4. IsFiniteSet(near) /\ near \in SUBSET pool /\ Cardinality(near) <= Cardinality(pool)
  BY <1>3, FS_Subset
<1>5. PICK anchor \in anchors, path \in Paths(near, target) :
        PathAccepted(anchor, path, target, optional)
  BY <1>2
<1>6. Cardinality(near) \in Nat /\ Cardinality(pool) \in Nat
  BY <1>4, FS_CardinalityType
<1> HIDE DEF near, target
<1>7. path \in Seq(near) /\ Len(path) <= Cardinality(near)
  BY <1>4, PathsAreLists
<1>8. path \in Seq(pool) /\ Len(path) <= Cardinality(pool)
  <2>1. path \in Seq(pool) /\ Len(path) \in Nat
    BY <1>4, <1>7, SeqMonotonic
  <2>. QED
    BY <1>4, <1>6, <1>7, <2>1
<1>9. ASSUME NEW i \in 1 .. Len(path), optional, path[i].ca, path[i].usage = "absent"
      PROVE  path[i] = named
  <2>1. path[i] \in near
    BY <1>7
  <2>. QED
    BY <1>3, <1>9, <2>1 DEF near
<1>10. target \in pool
  BY <1>3
<1>11. \A c \in pool : c.issuer = anchor.name /\ c.signer = anchor.key /\ IsValidAt(anchor, clock)
                         => c \in direct
  OBVIOUS
<1>12. target \in Trusted(pool, direct, clock, named)
  BY <1>5, <1>8, <1>9, <1>10, <1>11, TargetIsTrusted
<1>13. target \notin Range(Front(chain)) => ~target.ca
  BY <1>1, <1>2, LeafPresentedOnce DEF target
<1>. QED
  BY <1>2, <1>12, <1>13 DEF target

(* The anchor made from a bare key does not stand for an issuer that is    *)
(* presented with other keys only.                                         *)
LEMMA IssuerIsTraversed ==
  ASSUME NEW chain \in Seq(Certificates), NEW point,
         ValidateFiles(KeyAnchors(point, chain), {}, chain, FALSE),
         NEW issuers, issuers = {d \in Range(chain) : d.subject = Last(chain).issuer},
         issuers # {}, \A d \in issuers : d.key # point
  PROVE  \E d \in issuers : Last(chain).signer = d.key
<1> DEFINE near == {} \cup Range(Front(chain))
           target == Last(chain)
<1>1. Len(chain) # 0 /\ Len(chain) \in 1 .. Len(chain)
  BY FrontOfList DEF ValidateFiles
<1>2. PICK anchor \in KeyAnchors(point, chain), path \in Paths(near, target) :
        PathAccepted(anchor, path, target, FALSE)
  BY DEF ValidateFiles
<1>3. Range(Front(chain)) \subseteq Range(chain)
  BY <1>1, FrontOfList
<1>4. IsFiniteSet(near)
  BY <1>1, FrontOfList, RangeOfList
<1>5. path \in Seq(near)
  <2> HIDE DEF near, target
  <2>. QED
    BY <1>4, PathsAreLists
<1>6. BasicChecks(anchor, path, target, clock) /\ VerifySignatures(anchor, path, target)
  <2> HIDE DEF near, target
  <2>. QED
    BY <1>2, <1>5, AcceptedPath
<1> DEFINE all == Append(path, target)
           n == Len(path) + 1
<1>7. Len(path) \in Nat /\ n \in 1 .. Len(all) /\ all[n] = target
  BY <1>5
<1>8. target.issuer = Above(anchor, path, n) /\ target.signer = KeyAbove(anchor, path, n)
  BY <1>6, <1>7 DEF BasicChecks, VerifySignatures, VerifySignature
<1>9. CASE n = 1
  <2>1. target.issuer = anchor.name
    BY <1>8, <1>9 DEF Above
  <2>2. PICK c \in Range(chain) :
          /\ anchor = KeyAnchor(c.issuer, point)
          /\ ~ (/\ {d \in Range(chain) : d.subject = c.issuer} # {}
                /\ \A d \in {e \in Range(chain) : e.subject = c.issuer} :
                     ~(P256PublicPoint(d) /\ d.key = point))
    BY DEF KeyAnchors
  <2>3. c.issuer = target.issuer
    BY <2>1, <2>2 DEF KeyAnchor
  <2>. QED
    BY <2>2, <2>3
<1>10. CASE n # 1
  <2>1. n - 1 \in 1 .. Len(path)
    BY <1>7, <1>10
  <2>2. path[n - 1] \in Range(chain)
    BY <1>3, <1>5, <2>1
  <2>3. target.issuer = path[n - 1].subject /\ target.signer = path[n - 1].key
    BY <1>8, <1>10 DEF Above, KeyAbove
  <2>. QED
    BY <2>2, <2>3
<1>. QED
  BY <1>9, <1>10

-----------------------------------------------------------------------------
(* The invariant.  Trust and clock stand still from a call to the end of   *)
(* its use, so that what was vouched for at the call still is.             *)

TrustInv ==
  /\ trust.local \in Seq(Certificates)
  /\ call = NoCall => result = Invalid
  /\ Anchored /\ TraversesPresentedIssuers

LEMMA TrustInvInit == Init => TrustInv
  BY DEF Init, TrustInv, NoTrust, Anchored, TraversesPresentedIssuers

(* The call of operation, which returns the leaf only if accepted, keeps   *)
(* the invariant if accepted implies what Anchored and                     *)
(* TraversesPresentedIssuers say of the leaf.                              *)
LEMMA ReturnKeepsTrustInv ==
  ASSUME TrustInv, NEW operation, NEW accepted \in BOOLEAN, Return(operation, accepted),
         operation # NoCall,
         accepted /\ result' = Last(operation.chain) =>
           /\ result' \in Vouched' /\ IsValidAt(result', clock)
           /\ operation.op \in {"key_agreement", "bare_key"}
                \/ result' \notin Range(Front(operation.chain)) => ~result'.ca
           /\ TraversesPresentedIssuers'
  PROVE  TrustInv'
<1>1. trust' = trust /\ clock' = clock /\ call' = operation
  BY DEF Return
<1>2. result' # Invalid => accepted /\ result' = Last(operation.chain)
  BY DEF Return
<1>3. Anchored'
  BY <1>1, <1>2 DEF Anchored
<1>4. TraversesPresentedIssuers'
  BY <1>2 DEF TraversesPresentedIssuers
<1>. QED
  BY <1>1, <1>3, <1>4 DEF TrustInv
(* The operations on configured roots: the pool is what is presented and   *)
(* configured, and what a valid root has signed is trusted directly.       *)
LEMMA RootsVouch ==
  ASSUME TrustInv, NEW chain \in Chains, NEW optional \in BOOLEAN, NEW operation,
         operation.chain = chain, operation.op # "bare_key",
         ValidateInner(chain, optional),
         \A c \in Range(trust.local) \cup Range(chain) :
           optional /\ c.ca /\ c.usage = "absent" => c = operation.named,
         call' = operation, trust' = trust, clock' = clock
  PROVE  /\ Last(chain) \in Vouched' /\ IsValidAt(Last(chain), clock)
         /\ Last(chain) \notin Range(Front(chain)) => ~Last(chain).ca
<1> DEFINE pool == Range(chain) \cup Range(trust.local)
           direct == {c \in pool : \E r \in trust.roots :
                        c.issuer = r.subject /\ c.signer = r.key /\ IsValidAt(r, clock)}
<1>1. Vouched' = Trusted(pool, direct, clock, operation.named)
  BY DEF Vouched, Pool, Direct
<1>2. chain \in Seq(Certificates) /\ trust.local \in Seq(Certificates)
  BY ListsAssumption DEF TrustInv
<1>3. IsFiniteSet(pool)
  BY <1>2, RangeOfList, FS_Union
<1>4. ASSUME NEW anchor \in Anchors, NEW c \in pool,
             c.issuer = anchor.name, c.signer = anchor.key, IsValidAt(anchor, clock)
      PROVE  c \in direct
  BY <1>4 DEF Anchors, CertificateAnchor, IsValidAt
<1>5. Range(chain) \subseteq pool /\ Range(trust.local) \ trust.roots \subseteq pool /\ direct \in SUBSET pool
  OBVIOUS
<1>6. ValidateFiles(Anchors, Range(trust.local) \ trust.roots, chain, optional)
  BY DEF ValidateInner
<1>7. \A c \in (Range(trust.local) \ trust.roots) \cup Range(chain) :
        optional /\ c.ca /\ c.usage = "absent" => c = operation.named
  OBVIOUS
<1> HIDE DEF pool, direct
<1>. QED
  BY <1>1, <1>2, <1>3, <1>4, <1>5, <1>6, <1>7, FilesVouched

LEMMA PublicPointKeepsTrustInv ==
  ASSUME TrustInv, NEW chain \in Chains, ValidateP256PublicPoint(chain)
  PROVE  TrustInv'
<1> DEFINE operation == [op |-> "public_point", chain |-> chain, named |-> Invalid, point |-> "none"]
           accepted == ValidateInner(chain, FALSE) /\ P256PublicPoint(Last(chain))
<1>1. Return(operation, accepted)
  BY DEF ValidateP256PublicPoint
<1>2. call' = operation /\ trust' = trust /\ clock' = clock
  BY <1>1 DEF Return
<1>3. ASSUME ValidateInner(chain, FALSE)
      PROVE  /\ Last(chain) \in Vouched' /\ IsValidAt(Last(chain), clock)
             /\ Last(chain) \notin Range(Front(chain)) => ~Last(chain).ca
  <2>1. operation.chain = chain /\ operation.op # "bare_key"
    OBVIOUS
  <2>2. \A c \in Range(trust.local) \cup Range(chain) :
          FALSE /\ c.ca /\ c.usage = "absent" => c = operation.named
    OBVIOUS
  <2> HIDE DEF operation
  <2>. QED
    BY <1>2, <1>3, <2>1, <2>2, RootsVouch
<1>4. TraversesPresentedIssuers'
  BY <1>2 DEF TraversesPresentedIssuers
<1>5. operation # NoCall /\ operation.op = "public_point" /\ operation.chain = chain
  BY DEF NoCall
<1>6. accepted \in BOOLEAN /\ (accepted => ValidateInner(chain, FALSE))
  BY DEF ValidateInner, ValidateFiles, P256PublicPoint
<1> HIDE DEF operation, accepted
<1>. QED
  BY <1>1, <1>3, <1>4, <1>5, <1>6, ReturnKeepsTrustInv

LEMMA KeyAgreementKeepsTrustInv ==
  ASSUME TrustInv, NEW chain \in Chains, ValidateP256KeyAgreementPoint(chain)
  PROVE  TrustInv'
<1> DEFINE operation == [op |-> "key_agreement", chain |-> chain, named |-> Invalid, point |-> "none"]
           accepted == ValidateInner(chain, FALSE) /\ P256KeyAgreementPoint(Last(chain))
<1>1. Return(operation, accepted)
  BY DEF ValidateP256KeyAgreementPoint
<1>2. call' = operation /\ trust' = trust /\ clock' = clock
  BY <1>1 DEF Return
<1>3. ASSUME ValidateInner(chain, FALSE)
      PROVE  Last(chain) \in Vouched' /\ IsValidAt(Last(chain), clock)
  <2>1. operation.chain = chain /\ operation.op # "bare_key"
    OBVIOUS
  <2>2. \A c \in Range(trust.local) \cup Range(chain) :
          FALSE /\ c.ca /\ c.usage = "absent" => c = operation.named
    OBVIOUS
  <2> HIDE DEF operation
  <2>. QED
    BY <1>2, <1>3, <2>1, <2>2, RootsVouch
<1>4. TraversesPresentedIssuers'
  BY <1>2 DEF TraversesPresentedIssuers
<1>5. operation # NoCall /\ operation.chain = chain
  BY DEF NoCall
<1>6. /\ accepted \in BOOLEAN
      /\ accepted => ValidateInner(chain, FALSE) /\ ~Last(chain).ca
  BY DEF ValidateInner, ValidateFiles, P256KeyAgreementPoint
<1> HIDE DEF operation, accepted
<1>. QED
  BY <1>1, <1>3, <1>4, <1>5, <1>6, ReturnKeepsTrustInv

(* Preflight looks at all that paths are built of, so that the retry lifts *)
(* key usage from the named issuer alone.                                  *)
LEMMA AttestationKeepsTrustInv ==
  ASSUME TrustInv, NEW chain \in Chains, NEW named, ValidateP256AttestationChain(chain, named)
  PROVE  TrustInv'
<1> DEFINE operation == [op |-> "attestation", chain |-> chain, named |-> named, point |-> "none"]
           accepted == /\ named.strict /\ named.ca /\ ~IsSelfIssued(named)
                       /\ Preflight(chain, named)
                       /\ ValidateInner(chain, TRUE) /\ P256PublicPoint(Last(chain))
<1>1. Return(operation, accepted)
  BY DEF ValidateP256AttestationChain
<1>2. call' = operation /\ trust' = trust /\ clock' = clock
  BY <1>1 DEF Return
<1>3. ASSUME Preflight(chain, named), NEW c \in Range(trust.local) \cup Range(chain),
             c.ca, c.usage = "absent"
      PROVE  c = named
  <2>1. chain \in Seq(Certificates) /\ trust.local \in Seq(Certificates)
    BY ListsAssumption DEF TrustInv
  <2>2. Range(trust.local \o chain) = Range(trust.local) \cup Range(chain)
    BY <2>1, RangeConcatenation
  <2>. QED
    BY <1>3, <2>2 DEF Preflight
<1>4. ASSUME Preflight(chain, named), ValidateInner(chain, TRUE)
      PROVE  /\ Last(chain) \in Vouched' /\ IsValidAt(Last(chain), clock)
             /\ Last(chain) \notin Range(Front(chain)) => ~Last(chain).ca
  <2>1. operation.chain = chain /\ operation.op # "bare_key"
    OBVIOUS
  <2>2. \A c \in Range(trust.local) \cup Range(chain) :
          TRUE /\ c.ca /\ c.usage = "absent" => c = operation.named
    BY <1>3, <1>4
  <2> HIDE DEF operation
  <2>. QED
    BY <1>2, <1>4, <2>1, <2>2, RootsVouch
<1>5. TraversesPresentedIssuers'
  BY <1>2 DEF TraversesPresentedIssuers
<1>6. operation # NoCall /\ operation.op = "attestation" /\ operation.chain = chain
  BY DEF NoCall
<1>7. accepted \in BOOLEAN /\ (accepted => Preflight(chain, named) /\ ValidateInner(chain, TRUE))
  BY DEF ValidateInner, ValidateFiles, P256PublicPoint
<1> HIDE DEF operation, accepted
<1>. QED
  BY <1>1, <1>4, <1>5, <1>6, <1>7, ReturnKeepsTrustInv

(* With a bare key the pool is the presented chain, and what the key has   *)
(* signed is trusted directly.                                             *)
LEMMA BareKeyKeepsTrustInv ==
  ASSUME TrustInv, NEW chain \in Chains, NEW point, ValidateWithP256CaKey(point, chain)
  PROVE  TrustInv'
<1> DEFINE operation == [op |-> "bare_key", chain |-> chain, named |-> Invalid, point |-> point]
           valid == ValidateFiles(KeyAnchors(point, chain), {}, chain, FALSE)
           accepted == /\ point \in P256Keys
                       /\ Len(chain) \in 1 .. MaxPresented /\ Parses(chain)
                       /\ valid /\ P256KeyAgreementPoint(Last(chain))
           pool == Range(chain)
           direct == {c \in pool : c.signer = point}
<1>1. Return(operation, accepted)
  BY DEF ValidateWithP256CaKey
<1>2. call' = operation /\ trust' = trust /\ clock' = clock
  BY <1>1 DEF Return
<1>3. Vouched' = Trusted(pool, direct, clock, Invalid)
  BY <1>2 DEF Vouched, Pool, Direct
<1>4. chain \in Seq(Certificates)
  BY ListsAssumption
<1>5. IsFiniteSet(pool) /\ Range(chain) \subseteq pool /\ direct \in SUBSET pool
  BY <1>4, RangeOfList
<1>6. ASSUME NEW anchor \in KeyAnchors(point, chain), NEW c \in pool, c.signer = anchor.key
      PROVE  c \in direct
  BY <1>6 DEF KeyAnchors, KeyAnchor
<1>7. ASSUME valid PROVE Last(chain) \in Vouched' /\ IsValidAt(Last(chain), clock)
  <2> DEFINE anchors == KeyAnchors(point, chain)
             source == {}
             optional == FALSE
  <2>1. \A c \in source \cup Range(chain) : optional /\ c.ca /\ c.usage = "absent" => c = Invalid
    OBVIOUS
  <2>2. \A anchor \in anchors, c \in pool :
          c.issuer = anchor.name /\ c.signer = anchor.key /\ IsValidAt(anchor, clock)
            => c \in direct
    BY <1>6
  <2>3. ValidateFiles(anchors, source, chain, optional)
    BY <1>7
  <2>4. optional \in BOOLEAN /\ source \subseteq pool
    OBVIOUS
  <2> HIDE DEF pool, direct, anchors, source, optional
  <2>. QED
    BY <1>3, <1>4, <1>5, <2>1, <2>2, <2>3, <2>4, FilesVouched
<1>8. valid /\ result' = Last(chain) => TraversesPresentedIssuers'
  <2>1. call'.op = "bare_key" /\ call'.chain = chain /\ call'.point = point
    BY <1>2
  <2>2. ASSUME valid, result' = Last(chain) PROVE TraversesPresentedIssuers'
    <3> DEFINE issuers == {d \in Range(chain) : d.subject = Last(chain).issuer}
    <3>1. issuers # {} /\ (\A d \in issuers : d.key # point) => \E d \in issuers : Last(chain).signer = d.key
      BY <1>4, <2>2, IssuerIsTraversed
    <3>. QED
      BY <2>1, <2>2, <3>1 DEF TraversesPresentedIssuers
  <2>. QED
    BY <2>2
<1>9. accepted => ~Last(chain).ca
  BY DEF P256KeyAgreementPoint
<1>10. operation # NoCall /\ operation.chain = chain
  BY DEF NoCall
<1>11. accepted \in BOOLEAN /\ (accepted => valid)
  BY DEF P256KeyAgreementPoint
<1> HIDE DEF operation, accepted, valid
<1>. QED
  BY <1>1, <1>7, <1>8, <1>9, <1>10, <1>11, ReturnKeepsTrustInv

LEMMA TrustInvNext ==
  TrustInv /\ [Next]_vars => TrustInv'
<1> SUFFICES ASSUME TrustInv, [Next]_vars PROVE TrustInv'
  OBVIOUS
<1>1. ASSUME NEW certificates \in Configurations, New(certificates) PROVE TrustInv'
  <2>1. result' = Invalid /\ call' = call /\ call = NoCall
    BY <1>1 DEF New, TrustInv
  <2>2. trust'.local \in Seq(Certificates)
    BY <1>1, ListsAssumption DEF New
  <2>. QED
    BY <2>1, <2>2 DEF TrustInv, Anchored, TraversesPresentedIssuers
<1>2. CASE Tick
  <2>1. result' = Invalid /\ trust' = trust
    BY <1>2 DEF Tick, TrustInv
  <2>. QED
    BY <2>1 DEF TrustInv, Anchored, TraversesPresentedIssuers
<1>3. CASE Continue
  BY <1>3 DEF Continue, TrustInv, Anchored, TraversesPresentedIssuers
<1>4. CASE UNCHANGED vars
  BY <1>4 DEF vars, TrustInv, Anchored, TraversesPresentedIssuers, Vouched, Pool, Direct
<1>. QED
  BY <1>1, <1>2, <1>3, <1>4, PublicPointKeepsTrustInv, KeyAgreementKeepsTrustInv,
     AttestationKeepsTrustInv, BareKeyKeepsTrustInv DEF Next

LEMMA TrustInvAlways == Spec => []TrustInv
  BY TrustInvInit, TrustInvNext, PTL DEF Spec

(* What validation accepts is vouched for by the configured roots or the   *)
(* bare key, through valid CA certificates that may sign, whatever is      *)
(* presented and however the pool is made up.                              *)
THEOREM AcceptedIsAnchored == Spec => []Anchored
<1>1. TrustInv => Anchored
  BY DEF TrustInv
<1>. QED
  BY <1>1, TrustInvAlways, PTL

(* No bare key bypasses the issuers that are presented.                    *)
THEOREM BareKeyTraversesIssuers == Spec => []TraversesPresentedIssuers
<1>1. TrustInv => TraversesPresentedIssuers
  BY DEF TrustInv
<1>. QED
  BY <1>1, TrustInvAlways, PTL
-----------------------------------------------------------------------------
(* The fingerprint.                                                        *)

(* Leaving out repetitions leaves every certificate.                       *)
LEMMA UniqueKeepsAll ==
  ASSUME NEW list \in Seq(Certificates)
  PROVE  Unique(list) \in Seq(Certificates) /\ Range(Unique(list)) = Range(list)
<1> DEFINE K == Len(list)
           First(i) == \A j \in 1 .. i - 1 : list[j].id # list[i].id
           indices == {i \in 1 .. K : First(i)}
           kept == Keep(list, indices)
           Good == {n \in 0 .. K : \A i \in 1 .. n : \E j \in 1 .. K : First(j) /\ list[j].id = list[i].id}
<1>1. Unique(list) = kept
  BY DEF Unique
<1>2. K \in Nat /\ K \in 0 .. K /\ \A i \in 1 .. K : list[i] \in Certificates
  OBVIOUS
<1>3. 0 \in Good
  BY <1>2
<1>4. ASSUME NEW n \in 1 .. K, n - 1 \in Good PROVE n \in Good
  <2>1. n \in 0 .. K /\ \A i \in 1 .. n : i = n \/ i \in 1 .. n - 1
    BY <1>2
  <2>2. \E j \in 1 .. K : First(j) /\ list[j].id = list[n].id
    <3>1. CASE First(n)
      BY <3>1
    <3>2. CASE ~First(n)
      <4>1. PICK i \in 1 .. n - 1 : list[i].id = list[n].id
        BY <3>2
      <4>. QED
        BY <1>4, <4>1
    <3>. QED
      BY <3>1, <3>2
  <2>. QED
    BY <1>4, <2>1, <2>2
<1>5. \A n \in 0 .. K : n \in Good
  <2> HIDE DEF Good, K
  <2>. QED
    BY <1>2, <1>3, <1>4, UpTo
<1>6. \A i \in 1 .. K : \E j \in 1 .. K : j \in indices /\ list[j].id = list[i].id
  BY <1>2, <1>5
<1> HIDE DEF indices
<1>7. /\ kept \in Seq(Certificates)
      /\ \A i \in 1 .. K : i \in indices => \E j \in 1 .. Len(kept) : kept[j] = list[i]
      /\ \A j \in 1 .. Len(kept) : \E i \in 1 .. K : kept[j] = list[i]
  BY KeepElements
<1> HIDE DEF kept, K
<1>8. ASSUME NEW c \in Range(list) PROVE c \in Range(kept)
  <2>1. PICK i \in 1 .. K : c = list[i]
    BY RangeOfList DEF K
  <2>2. PICK j \in 1 .. K : j \in indices /\ list[j].id = list[i].id
    BY <1>6
  <2>3. list[j] = c
    BY <1>2, <2>1, <2>2, FingerprintAssumption
  <2>. QED
    BY <1>7, <2>2, <2>3, RangeOfList
<1>9. ASSUME NEW c \in Range(kept) PROVE c \in Range(list)
  <2>1. PICK j \in 1 .. Len(kept) : c = kept[j]
    BY <1>7, RangeOfList
  <2>2. PICK i \in 1 .. K : c = list[i]
    BY <1>7, <2>1
  <2>. QED
    BY <2>2, RangeOfList DEF K
<1>. QED
  BY <1>1, <1>7, <1>8, <1>9

(* The list that enumerates a set in increasing order.                     *)
Increasing(list, ids) ==
  /\ list \in [1 .. Cardinality(ids) -> ids]
  /\ \A i, j \in 1 .. Cardinality(ids) : i < j => list[i] < list[j]

LEMMA IncreasingExists ==
  ASSUME NEW ids \in SUBSET Nat, IsFiniteSet(ids)
  PROVE  \E list : Increasing(list, ids)
<1> DEFINE K == Cardinality(ids)
           Good == {n \in 0 .. K : \A T \in SUBSET ids : Cardinality(T) = n => \E list : Increasing(list, T)}
<1>1. K \in Nat /\ K \in 0 .. K /\ 0 \in 0 .. K
  BY FS_CardinalityType
<1>2. \A T \in SUBSET ids : IsFiniteSet(T)
  BY FS_Subset
<1>3. 0 \in Good
  <2>1. ASSUME NEW T \in SUBSET ids, Cardinality(T) = 0 PROVE Increasing([i \in 1 .. 0 |-> 0], T)
    BY <2>1 DEF Increasing
  <2>. QED
    BY <1>1, <2>1
<1>4. ASSUME NEW n \in 1 .. K, n - 1 \in Good PROVE n \in Good
  <2>1. n \in 0 .. K /\ n \in Nat
    BY <1>1
  <2>2. ASSUME NEW T \in SUBSET ids, Cardinality(T) = n PROVE \E list : Increasing(list, T)
    <3>1. T # {} /\ T \subseteq Nat
      BY <2>2, FS_EmptySet
    <3>2. PICK m \in T : \A x \in T : ~(<<x, m>> \in OpToRel(<, Nat))
      BY <3>1, WFMin, NatLessThanWellFounded
    <3>3. \A x \in T : x # m => m < x
      <4>1. \A x \in T : ~(x < m)
        BY <3>1, <3>2 DEF OpToRel
      <4>. QED
        BY <3>1, <4>1
    <3>4. T \ {m} \in SUBSET ids /\ Cardinality(T \ {m}) = n - 1
      BY <1>2, <2>2, FS_RemoveElement
    <3>5. PICK rest : Increasing(rest, T \ {m})
      BY <1>4, <3>4
    <3>6. /\ rest \in [1 .. n - 1 -> T \ {m}]
          /\ \A i, j \in 1 .. n - 1 : i < j => rest[i] < rest[j]
      BY <3>4, <3>5 DEF Increasing
    <3> DEFINE list == [i \in 1 .. n |-> IF i = 1 THEN m ELSE rest[i - 1]]
    <3>7. \A i \in 1 .. n : i # 1 => i - 1 \in 1 .. n - 1 /\ rest[i - 1] \in T /\ m < rest[i - 1]
      <4>1. \A i \in 1 .. n : i # 1 => i - 1 \in 1 .. n - 1
        BY <2>1
      <4>. QED
        BY <3>3, <3>6, <4>1
    <3>8. list \in [1 .. n -> T]
      BY <3>7
    <3>9. ASSUME NEW i \in 1 .. n, NEW j \in 1 .. n, i < j PROVE list[i] < list[j]
      <4>1. j # 1 /\ list[j] = rest[j - 1]
        BY <2>1, <3>9
      <4>2. CASE i = 1
        BY <3>7, <4>1, <4>2
      <4>3. CASE i # 1
        <5>1. i - 1 < j - 1
          BY <2>1, <3>9
        <5>2. rest[i - 1] < rest[j - 1]
          BY <3>6, <3>7, <4>1, <4>3, <5>1
        <5>. QED
          BY <4>1, <4>3, <5>2
      <4>. QED
        BY <4>2, <4>3
    <3>10. Increasing(list, T)
      <4> HIDE DEF list
      <4>. QED
        BY <2>2, <3>8, <3>9 DEF Increasing
    <3>. QED
      BY <3>10
  <2>. QED
    BY <2>1, <2>2
<1>5. \A n \in 0 .. K : n \in Good
  <2> HIDE DEF Good, K
  <2>. QED
    BY <1>1, <1>3, <1>4, UpTo
<1>. QED
  BY <1>1, <1>5
(* An increasing list of a set has exactly its elements.                   *)
LEMMA IncreasingHasAll ==
  ASSUME NEW ids \in SUBSET Nat, IsFiniteSet(ids), NEW list, Increasing(list, ids)
  PROVE  ids = {list[i] : i \in DOMAIN list}
<1> DEFINE K == Cardinality(ids)
<1>1. K \in Nat /\ IsFiniteSet(1 .. K) /\ Cardinality(1 .. K) = K
  BY FS_CardinalityType, FS_Interval
<1>2. list \in [1 .. K -> ids] /\ \A i, j \in 1 .. K : i < j => list[i] < list[j]
  BY DEF Increasing
<1> HIDE DEF K
<1>3. \A i \in 1 .. K : list[i] \in Nat
  BY <1>2
<1>4. ASSUME NEW i \in 1 .. K, NEW j \in 1 .. K, list[i] = list[j] PROVE i = j
  <2>1. ~(list[i] < list[j]) /\ ~(list[j] < list[i])
    BY <1>3, <1>4
  <2>2. ~(i < j) /\ ~(j < i)
    BY <1>2, <2>1
  <2>. QED
    BY <1>1, <2>2
<1>5. list \in Injection(1 .. K, ids)
  BY <1>2, <1>4 DEF Injection, IsInjective
<1>6. list \in Surjection(1 .. K, ids)
  BY <1>1, <1>5, FS_Injection DEF K
<1>. QED
  BY <1>2, <1>6 DEF Surjection

Ids(list) == {c.id : c \in Range(list)}

(* The fingerprint depends on the set of certificates, and determines it.  *)
LEMMA FingerprintIsExact ==
  ASSUME NEW a \in Seq(Certificates), NEW b \in Seq(Certificates)
  PROVE  Fingerprint(a) = Fingerprint(b) <=> Range(a) = Range(b)
<1>1. Range(a) \subseteq Certificates /\ Range(b) \subseteq Certificates
  BY RangeOfList
<1>2. ASSUME NEW list \in Seq(Certificates)
      PROVE  /\ Ids(list) \in SUBSET Nat /\ IsFiniteSet(Ids(list))
             /\ Fingerprint(list) = CHOOSE l \in [1 .. Cardinality(Ids(list)) -> Ids(list)] :
                  \A i, j \in 1 .. Cardinality(Ids(list)) : i < j => l[i] < l[j]
  <2>1. Range(list) \subseteq Certificates /\ IsFiniteSet(Range(list))
    BY RangeOfList
  <2>2. Ids(list) \in SUBSET Nat
    BY <2>1, FingerprintAssumption DEF Ids
  <2>3. [c \in Range(list) |-> c.id] \in Surjection(Range(list), Ids(list))
    BY DEF Surjection, Ids
  <2>4. IsFiniteSet(Ids(list))
    BY <2>1, <2>3, FS_Surjection
  <2>. QED
    BY <2>2, <2>4 DEF Fingerprint, Ids
<1>3. ASSUME NEW list \in Seq(Certificates)
      PROVE  Ids(list) = {Fingerprint(list)[i] : i \in DOMAIN Fingerprint(list)}
  <2> DEFINE ids == Ids(list)
  <2>1. ids \in SUBSET Nat /\ IsFiniteSet(ids)
    BY <1>2
  <2>2. Fingerprint(list) = CHOOSE l \in [1 .. Cardinality(ids) -> ids] :
          \A i, j \in 1 .. Cardinality(ids) : i < j => l[i] < l[j]
    BY <1>2
  <2> HIDE DEF ids
  <2>3. \E l : Increasing(l, ids)
    BY <2>1, IncreasingExists
  <2>4. \E l \in [1 .. Cardinality(ids) -> ids] :
          \A i, j \in 1 .. Cardinality(ids) : i < j => l[i] < l[j]
    BY <2>3 DEF Increasing
  <2>5. Increasing(Fingerprint(list), ids)
    BY <2>2, <2>4 DEF Increasing
  <2>6. ids = {Fingerprint(list)[i] : i \in DOMAIN Fingerprint(list)}
    BY <2>1, <2>5, IncreasingHasAll
  <2>. QED
    BY <2>6 DEF ids
<1>4. ASSUME Fingerprint(a) = Fingerprint(b) PROVE Range(a) = Range(b)
  <2>1. Ids(a) = Ids(b)
    BY <1>3, <1>4
  <2>2. ASSUME NEW c \in Range(a) PROVE c \in Range(b)
    <3>0. c.id \in Ids(b)
      BY <2>1, Zenon DEF Ids
    <3>1. PICK d \in Range(b) : d.id = c.id
      BY <3>0, Zenon DEF Ids
    <3>2. c \in Certificates /\ d \in Certificates
      BY <1>1, <3>1
    <3>3. d = c
      BY <3>1, <3>2, FingerprintAssumption
    <3>. QED
      BY <3>1, <3>3
  <2>3. ASSUME NEW c \in Range(b) PROVE c \in Range(a)
    <3>0. c.id \in Ids(a)
      BY <2>1, Zenon DEF Ids
    <3>1. PICK d \in Range(a) : d.id = c.id
      BY <3>0, Zenon DEF Ids
    <3>2. c \in Certificates /\ d \in Certificates
      BY <1>1, <3>1
    <3>3. d = c
      BY <3>1, <3>2, FingerprintAssumption
    <3>. QED
      BY <3>1, <3>3
  <2>. QED
    BY <2>2, <2>3
<1>5. Range(a) = Range(b) => Fingerprint(a) = Fingerprint(b)
  BY DEF Fingerprint
<1>. QED
  BY <1>4, <1>5

(* A configuration keeps its certificates, its roots and its fingerprint   *)
(* together; none at all has those of the empty list.                      *)
ConfigurationInv ==
  /\ trust.local \in Seq(Certificates)
  /\ trust.roots = Roots(trust.local)
  /\ trust.fingerprint = Fingerprint(trust.local)

LEMMA ConfigurationInvInit == Init => ConfigurationInv
<1> SUFFICES ASSUME Init PROVE ConfigurationInv
  OBVIOUS
<1>1. trust.local = << >> /\ trust.roots = {} /\ trust.fingerprint = << >>
  BY DEF Init, NoTrust
<1>2. << >> \in Seq(Certificates) /\ Range(<< >>) = {}
  BY DEF Range
<1>3. Roots(<< >>) = {}
  BY <1>2 DEF Roots
<1>4. Fingerprint(<< >>) = << >>
  <2>1. {c.id : c \in Range(<< >>)} = {} /\ Cardinality({}) = 0
    BY <1>2, FS_EmptySet
  <2>2. Fingerprint(<< >>) = CHOOSE list \in [1 .. 0 -> {}] :
                               \A i, j \in 1 .. 0 : i < j => list[i] < list[j]
    BY <2>1 DEF Fingerprint
  <2>3. << >> \in [1 .. 0 -> {}] /\ \A list \in [1 .. 0 -> {}] : list = << >>
    OBVIOUS
  <2>4. \A i, j \in 1 .. 0 : FALSE
    OBVIOUS
  <2>5. (CHOOSE list \in [1 .. 0 -> {}] : \A i, j \in 1 .. 0 : i < j => list[i] < list[j])
          \in [1 .. 0 -> {}]
    BY <2>3, <2>4
  <2>. QED
    BY <2>2, <2>3, <2>5
<1>. QED
  BY <1>1, <1>2, <1>3, <1>4 DEF ConfigurationInv

LEMMA ConfigurationInvNext == ConfigurationInv /\ [Next]_vars => ConfigurationInv'
<1> SUFFICES ASSUME ConfigurationInv, [Next]_vars PROVE ConfigurationInv'
  OBVIOUS
<1>1. ASSUME NEW certificates \in Configurations, New(certificates) PROVE ConfigurationInv'
  <2> DEFINE local == Unique(certificates)
  <2>1. certificates \in Seq(Certificates)
    BY ListsAssumption
  <2>2. local \in Seq(Certificates) /\ Range(local) = Range(certificates)
    BY <2>1, UniqueKeepsAll
  <2>3. trust' = [local |-> certificates, roots |-> Roots(local), fingerprint |-> Fingerprint(local)]
    BY <1>1 DEF New
  <2>4. Roots(local) = Roots(certificates)
    BY <2>2 DEF Roots
  <2>5. Fingerprint(local) = Fingerprint(certificates)
    BY <2>1, <2>2, FingerprintIsExact
  <2>. QED
    BY <2>1, <2>3, <2>4, <2>5 DEF ConfigurationInv
<1>2. CASE UNCHANGED trust
  BY <1>2 DEF ConfigurationInv
<1>. QED
  BY <1>1, <1>2 DEF Next, vars, ValidateP256PublicPoint, ValidateP256KeyAgreementPoint,
     ValidateP256AttestationChain, ValidateWithP256CaKey, Return, Tick, Continue

(* Equal fingerprints are the same certificates and the same roots: what   *)
(* CertificateTrust::fingerprint is compared for.                          *)
THEOREM FingerprintIsTrust == Spec => FingerprintNamesTrust
<1> DEFINE Same == trust'.fingerprint = trust.fingerprint
           Names == /\ Same <=> Range(trust'.local) = Range(trust.local)
                    /\ Same => trust'.roots = trust.roots
<1>1. ConfigurationInv /\ ConfigurationInv' => Names
  <2> SUFFICES ASSUME ConfigurationInv, ConfigurationInv' PROVE Names
    OBVIOUS
  <2>1. Same <=> Range(trust'.local) = Range(trust.local)
    BY FingerprintIsExact DEF ConfigurationInv
  <2>2. Range(trust'.local) = Range(trust.local) => trust'.roots = trust.roots
    BY DEF ConfigurationInv, Roots
  <2>. QED
    BY <2>1, <2>2
<1>2. ConfigurationInv /\ ConfigurationInv' => [Names]_vars
  BY <1>1
<1>. QED
  BY <1>2, ConfigurationInvInit, ConfigurationInvNext, PTL DEF Spec, FingerprintNamesTrust
=============================================================================
