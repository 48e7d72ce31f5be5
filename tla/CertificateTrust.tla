--------------------------- MODULE CertificateTrust ---------------------------
(***************************************************************************)
(* Trust configuration and chain validation: CertificateTrust of           *)
(* src/src/certificate_chain.rs and portable.rs below it.                  *)
(*                                                                         *)
(* A certificate is a record of what the code looks at: names, the key it  *)
(* carries and the key that signed it, basic constraints, key usage        *)
(* (absent, sign for keyCertSign, agree for keyAgreement), validity, and   *)
(* whether its encoding is strict: canonical, with known critical          *)
(* extensions, policies and algorithms.  Its id is its fingerprint.        *)
(*                                                                         *)
(* The certval crate builds and checks the paths.  Which of the possible   *)
(* paths it finds is left open: a call may be refused although a path      *)
(* exists, so the properties are about what is accepted.                   *)
(***************************************************************************)
EXTENDS Integers, Sequences, FiniteSets, SequencesExt

CONSTANTS
  Certificates,    \* all certificates that can be configured or presented
  Configurations,  \* the lists given to CertificateTrust::new
  Chains,          \* the leaf-last lists that are presented
  Named,           \* the issuers that may be named for an attestation
  Points,          \* the bare keys given to validate_with_p256_ca_key
  P256Keys,        \* the keys that are valid P-256 points
  MaxPresented,    \* longest chain: 8
  Horizon          \* bound on the clock

ASSUME TimeAssumption == MaxPresented \in Nat /\ Horizon \in Nat
ASSUME FingerprintAssumption ==
  \A c, d \in Certificates : c.id \in Nat /\ (c.id = d.id => c = d)
ASSUME ListsAssumption ==
  Configurations \cup Chains \subseteq Seq(Certificates)

VARIABLES
  clock,
  trust,      \* the CertificateTrust in use, or NoTrust
  call,       \* the last validation: its operation and its inputs
  result      \* what it returned: a leaf certificate, or Invalid

vars == <<clock, trust, call, result>>

NoTrust == [local |-> << >>, roots |-> {}, fingerprint |-> << >>]
Invalid == [id |-> -1]
NoCall == [op |-> "none"]

Init ==
  /\ clock = 0
  /\ trust = NoTrust
  /\ call = NoCall /\ result = Invalid

-----------------------------------------------------------------------------
(* ParsedCertificate.                                                      *)

IsSelfIssued(c) == c.subject = c.issuer
IsValidAt(c, timestamp) == c.not_before <= timestamp /\ timestamp <= c.not_after
VerifySignature(c, key) == c.signer = key
CanSignCertificates(c) == c.usage \in {"absent", "sign"}

(* filter_map(..).collect(): what a list has at the given indices, in its  *)
(* order.                                                                  *)
Keep(list, indices) ==
  LET kept[i \in 0 .. Len(list)] ==
        IF i = 0 THEN << >>
        ELSE IF i \in indices THEN Append(kept[i - 1], list[i]) ELSE kept[i - 1]
  IN  kept[Len(list)]

(* parse_unique fails on the first certificate that does not parse, and    *)
(* keeps the first of equal ones.                                          *)
Parses(certificates) == \A i \in 1 .. Len(certificates) : certificates[i].strict
Unique(certificates) ==
  Keep(certificates, {i \in 1 .. Len(certificates) :
                        \A j \in 1 .. i - 1 : certificates[j].id # certificates[i].id})

P256PublicPoint(c) == c.key \in P256Keys
P256KeyAgreementPoint(c) ==
  ~c.ca /\ c.usage \in {"absent", "agree"} /\ P256PublicPoint(c)

-----------------------------------------------------------------------------
(* CertificateTrust::new.                                                  *)

RootsAreSound(local, now) ==
  \A c \in Range(local) : IsSelfIssued(c) =>
    /\ c.ca /\ CanSignCertificates(c) /\ IsValidAt(c, now)
    /\ VerifySignature(c, c.key)

Roots(local) == {c \in Range(local) : IsSelfIssued(c)}

(* Mutant of Fingerprint: the order of the configuration shows.            *)
FingerprintUnsorted(local) == [i \in 1 .. Len(local) |-> local[i].id]

(* The digest of the sorted fingerprints.                                  *)
Fingerprint(local) ==
  LET ids == {c.id : c \in Range(local)}
  IN  CHOOSE list \in [1 .. Cardinality(ids) -> ids] :
        \A i, j \in 1 .. Cardinality(ids) : i < j => list[i] < list[j]

New(certificates) ==
  LET local == Unique(certificates) IN
  /\ call = NoCall
  /\ certificates # << >> /\ Parses(certificates)
  /\ RootsAreSound(local, clock) /\ Roots(local) # {}
  /\ trust' = [local |-> certificates, roots |-> Roots(local),
               fingerprint |-> Fingerprint(local)]
  /\ UNCHANGED <<clock, call, result>>

-----------------------------------------------------------------------------
(* The certval crate.  An anchor is a name and a key; one made from a      *)
(* certificate also has its validity.                                      *)

CertificateAnchor(c) ==
  [name |-> c.subject, key |-> c.key, not_before |-> c.not_before, not_after |-> c.not_after]
KeyAnchor(name, point) ==
  [name |-> name, key |-> point, not_before |-> 0, not_after |-> Horizon]

(* A path lists its intermediates from the anchor down; names lead from    *)
(* the target up.                                                          *)
Paths(pool, target) ==
  LET wanted(path) == IF path = << >> THEN target.issuer ELSE path[1].issuer
      above(path) == {c \in pool \ Range(path) : c.subject = wanted(path)}
      up[n \in 0 .. Cardinality(pool)] ==
        IF n = 0 THEN {<< >>}
        ELSE UNION {{<<c>> \o path : c \in above(path)} : path \in up[n - 1]}
  IN  UNION {up[n] : n \in 0 .. Cardinality(pool)}

Above(anchor, path, i) == IF i = 1 THEN anchor.name ELSE path[i - 1].subject
KeyAbove(anchor, path, i) == IF i = 1 THEN anchor.key ELSE path[i - 1].key

(* The checks that precede key usage, key usage, and those behind it.      *)
BasicChecks(anchor, path, target, now) ==
  LET all == Append(path, target) IN
  /\ IsValidAt(anchor, now)
  /\ \A i \in 1 .. Len(all) : all[i].issuer = Above(anchor, path, i) /\ IsValidAt(all[i], now)
  /\ \A i \in 1 .. Len(path) : path[i].ca
  /\ ~(IsSelfIssued(target) /\ VerifySignature(target, target.key))
CheckKeyUsage(path) == \A i \in 1 .. Len(path) : path[i].usage = "sign"
VerifySignatures(anchor, path, target) ==
  LET all == Append(path, target) IN
  \A i \in 1 .. Len(all) : VerifySignature(all[i], KeyAbove(anchor, path, i))

ValidatePathRfc5280(anchor, path, target, now) ==
  CASE ~BasicChecks(anchor, path, target, now) -> "Rejected"
    [] BasicChecks(anchor, path, target, now) /\ ~CheckKeyUsage(path) -> "InvalidKeyUsage"
    [] OTHER -> IF VerifySignatures(anchor, path, target) THEN "Valid" ELSE "Rejected"

-----------------------------------------------------------------------------
(* portable.rs.                                                            *)

(* Mutant of WithoutAbsentUsage: intermediates that may not sign are left  *)
(* out as well.                                                            *)
WithoutAnyRestriction(path) == Keep(path, {i \in 1 .. Len(path) : path[i].usage = "sign"})

WithoutAbsentUsage(path) == Keep(path, {i \in 1 .. Len(path) : path[i].usage # "absent"})

(* validate_optional_ca_key_usage: only the key usage check sees the       *)
(* shortened path; what follows it is repeated for the whole path.         *)
ValidateOptionalCaKeyUsage(anchor, path, target, now) ==
  LET status == ValidatePathRfc5280(anchor, path, target, now)
      usage_path == WithoutAbsentUsage(path)
  IN  IF status # "InvalidKeyUsage" THEN status = "Valid"
      ELSE /\ Len(usage_path) # Len(path)
           /\ CheckKeyUsage(usage_path)
           /\ VerifySignatures(anchor, path, target)

PathAccepted(anchor, path, target, optional) ==
  IF optional THEN ValidateOptionalCaKeyUsage(anchor, path, target, clock)
  ELSE ValidatePathRfc5280(anchor, path, target, clock) = "Valid"

(* The last of the distinct certificates.                                  *)
LeafIsNoCa(certificates) == ~Last(Unique(certificates)).ca

(* validate_files: the target is the last presented certificate; the ones  *)
(* before it join the configured intermediates.                            *)
ValidateFiles(anchors, source, certificates, optional) ==
  /\ Len(certificates) \in 1 .. MaxPresented
  /\ Parses(certificates) /\ LeafIsNoCa(certificates)
  /\ \A i \in 1 .. Len(certificates) : IsValidAt(certificates[i], clock)
  /\ \E anchor \in anchors, path \in Paths(source \cup Range(Front(certificates)), Last(certificates)) :
       PathAccepted(anchor, path, Last(certificates), optional)

(* The exception names one certificate among all that paths are built of.  *)
Preflight(certificates, named) ==
  LET pool == trust.local \o certificates IN
  /\ Parses(pool)
  /\ \A c \in Range(pool) : c.ca /\ c.usage = "absent" => c = named

Anchors == {CertificateAnchor(c) : c \in trust.roots}

ValidateInner(certificates, optional) ==
  ValidateFiles(Anchors, Range(trust.local) \ trust.roots, certificates, optional)

(* Mutant of KeyAnchors: the key stands for every issuer name.             *)
KeyAnchorsForAllNames(point, certificates) ==
  {KeyAnchor(c.issuer, point) : c \in Range(certificates)}

(* The bare key stands for an issuer name unless certificates of that name *)
(* are presented and none of them carries the key.                         *)
KeyAnchors(point, certificates) ==
  LET issuers(c) == {d \in Range(certificates) : d.subject = c.issuer}
      traversed(c) == /\ issuers(c) # {}
                      /\ \A d \in issuers(c) : ~(P256PublicPoint(d) /\ d.key = point)
  IN  {KeyAnchor(c.issuer, point) : c \in {d \in Range(certificates) : ~traversed(d)}}

-----------------------------------------------------------------------------
(* The public operations.                                                  *)

(* A call returns the leaf only if accepted holds; certval may miss paths. *)
Return(operation, accepted) ==
  /\ call = NoCall
  /\ call' = operation
  /\ result' \in {Invalid} \cup (IF accepted THEN {Last(operation.chain)} ELSE {})
  /\ UNCHANGED <<clock, trust>>

ValidateP256PublicPoint(chain) ==
  /\ trust # NoTrust
  /\ Return([op |-> "public_point", chain |-> chain, named |-> Invalid, point |-> "none"],
            ValidateInner(chain, FALSE) /\ P256PublicPoint(Last(chain)))

ValidateP256KeyAgreementPoint(chain) ==
  /\ trust # NoTrust
  /\ Return([op |-> "key_agreement", chain |-> chain, named |-> Invalid, point |-> "none"],
            ValidateInner(chain, FALSE) /\ P256KeyAgreementPoint(Last(chain)))

ValidateP256AttestationChain(chain, named) ==
  /\ trust # NoTrust
  /\ Return([op |-> "attestation", chain |-> chain, named |-> named, point |-> "none"],
            /\ named.strict /\ named.ca /\ ~IsSelfIssued(named)
            /\ Preflight(chain, named)
            /\ ValidateInner(chain, TRUE) /\ P256PublicPoint(Last(chain)))

ValidateWithP256CaKey(point, chain) ==
  Return([op |-> "bare_key", chain |-> chain, named |-> Invalid, point |-> point],
         /\ point \in P256Keys
         /\ Len(chain) \in 1 .. MaxPresented /\ Parses(chain)
         /\ ValidateFiles(KeyAnchors(point, chain), {}, chain, FALSE)
         /\ P256KeyAgreementPoint(Last(chain)))

Tick ==
  /\ clock < Horizon /\ call = NoCall
  /\ clock' = clock + 1
  /\ UNCHANGED <<trust, call, result>>

(* The caller is done with the result.                                     *)
Continue == /\ call # NoCall
            /\ call' = NoCall /\ result' = Invalid
            /\ UNCHANGED <<clock, trust>>

Next ==
  \/ \E certificates \in Configurations : New(certificates)
  \/ \E chain \in Chains :
       \/ ValidateP256PublicPoint(chain)
       \/ ValidateP256KeyAgreementPoint(chain)
       \/ \E named \in Named : ValidateP256AttestationChain(chain, named)
       \/ \E point \in Points : ValidateWithP256CaKey(point, chain)
  \/ Tick \/ Continue

Spec == Init /\ [][Next]_vars

-----------------------------------------------------------------------------
(* What trust means, without paths: the certificates that the anchors      *)
(* vouch for, directly or through CA certificates that are valid now.      *)

Pool == Range(call.chain) \cup (IF call.op = "bare_key" THEN {} ELSE Range(trust.local))

(* What a configured root, valid now, or the bare key has signed.          *)
Direct ==
  IF call.op = "bare_key" THEN {c \in Pool : c.signer = call.point}
  ELSE {c \in Pool : \E r \in trust.roots :
          c.issuer = r.subject /\ c.signer = r.key /\ IsValidAt(r, clock)}

(* keyCertSign, which only the one certificate an attestation names may     *)
(* lack, and then only by having no key usage at all.                       *)
MaySign(i, named) == i.usage = "sign" \/ (i.usage = "absent" /\ i = named)

Supports(i, c, now, named) ==
  /\ c.issuer = i.subject /\ c.signer = i.key
  /\ i.ca /\ IsValidAt(i, now) /\ MaySign(i, named)

Trusted(pool, direct, now, named) ==
  LET within[n \in 0 .. Cardinality(pool)] ==
        IF n = 0 THEN direct
        ELSE within[n - 1] \cup
               {c \in pool : \E i \in within[n - 1] : Supports(i, c, now, named)}
  IN  within[Cardinality(pool)]

Vouched == Trusted(Pool, Direct, clock, call.named)

(* Anchored: an accepted leaf is vouched for by the configured roots, or   *)
(* by the bare key, through CA certificates valid at the time of the call  *)
(* that may sign certificates; no presented certificate adds an anchor,    *)
(* and a root that expired since its configuration vouches for nothing     *)
(* (validate_files, validate_inner, validate_optional_ca_key_usage).  The  *)
(* leaf is no CA, for a chain that does not present its leaf twice; for    *)
(* key agreement it is never one (validate_files looks at the last of the  *)
(* distinct certificates, p256_key_agreement_point at the leaf).           *)
Anchored ==
  result # Invalid =>
    /\ result \in Vouched /\ IsValidAt(result, clock)
    /\ call.op \in {"key_agreement", "bare_key"} \/ result \notin Range(Front(call.chain))
         => ~result.ca

(* TraversesPresentedIssuers: a bare key does not stand in for an issuer   *)
(* that is presented with other keys only: the leaf then bears the         *)
(* signature of a presented issuer (portable::validate_with_p256_ca_key).  *)
TraversesPresentedIssuers ==
  result # Invalid /\ call.op = "bare_key" =>
    LET issuers == {d \in Range(call.chain) : d.subject = result.issuer} IN
    issuers # {} /\ (\A d \in issuers : d.key # call.point)
      => \E d \in issuers : result.signer = d.key

(* FingerprintNamesTrust: a new configuration has the fingerprint of the   *)
(* one it replaces exactly when they consist of the same certificates, in  *)
(* any order and with any repetitions, and then they have the same roots,  *)
(* whenever they were made (CertificateTrust::new, fingerprint).           *)
FingerprintNamesTrust ==
  [][LET same == trust'.fingerprint = trust.fingerprint IN
     /\ same <=> Range(trust'.local) = Range(trust.local)
     /\ same => trust'.roots = trust.roots]_vars
===============================================================================
