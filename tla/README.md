# A TLA+ verification of software-key-core

`software-key-core` is a Rust crate of software key operations (symmetric modes,
key wrapping, derivations, RSA, elliptic curves, post-quantum keys, certificate
trust) with one concurrent, crash-exposed part: the durable state of a device.
This directory models the crate in TLA+, checks the models with TLC on small
instances and proves the most important statements with TLAPS for all instances.

File names below are relative to the repository; the crate's sources are in
`src/src/`.

## 1. Inventory

| part | state | operations | hard behaviour |
|---|---|---|---|
| persistence coordinator (`state_persistence.rs`: `StatePersistence`, `StatePersistenceHandle`, `MutationReceipt`, `run_persistence`) | epochs, deadline, `force`, `stopping`, stored failure; the state mutex | record, wait, flush, snapshot, write, publish, stop, join | several client threads, a worker and an owner share two mutexes and one condition variable; callbacks fail or panic; deadlines; a stop races with mutations |
| `replace_file_atomically` (`state_persistence.rs`) | the state file, its temporary files, the directory | create, write, sync, rename, sync directory, remove | every call can fail; kill and power failure between any two; name collisions |
| `StateLock` (`state_persistence.rs`) | a `flock` on an open file description | acquire, drop | descriptors inherited by forked children; killed owners |
| block modes and paddings (`software_symmetric.rs`, `secure_channel.rs`) | none between calls | CBC, CMAC, CTR, CCM, GCM, key wrap, PKCS#7, ISO 7816 | counters and lengths at their limits; the caller's block operation fails midway |
| derivations (`counter_kdf.rs`, `secure_channel.rs`, `digest.rs`) | none | counter KDF, SCP03, X9.63, HKDF, PBKDF2, MGF1 | counters and length fields of chosen width; failing CMAC |
| certificate trust (`certificate_chain.rs`, `certificate_chain/portable.rs`) | configured roots and intermediates, fingerprints | configure, validate a presented chain, validate against a bare key | names, keys and usages that do not belong together; expiry between configuration and use |
| RSA (`rsa_keys.rs`, `rsa_public_validation.rs`, `rsa_private_validation.rs`, `rsa_signing.rs`) | keys | import, restore, validate, sign, encrypt, and inverses | probabilistic tests; encodings at their length limits |
| signing keys (`software_signing.rs`, `software_private_key.rs`, `certificate_signing.rs`) | typed private keys | generate, import, sign, verify | dispatch on schemes; signature encodings |
| key agreement, hybrid KEM, ARKG (`software_key_agreement.rs`, `hybrid_kem.rs`, `arkg.rs`) | keys | derive, encapsulate, decapsulate | two sides must meet; degenerate points |
| post-quantum keys (`post_quantum.rs`, `post_quantum/ml_dsa_validation.rs`, `pqc_key_encoding.rs`) | seed or expanded keys | import, validate, sign, encapsulate | redundant encodings that disagree |
| Brainpool P-512 verification (`brainpool512.rs`) | none | verify | exceptional cases of point addition |

Components meet in few places. Only the first three share state: the device's
owner holds the `StateLock` from before it restores the state file until after
the coordinator's last write, and the coordinator writes through
`replace_file_atomically`. Everything else is a library of functions that call
each other and the caller's callbacks (a block cipher behind a hardware handle,
a CMAC), which may fail at any call.

What makes each part correct: for the durable state, that nothing reported
durable is lost, that nothing hangs, and that nobody works on a stale image; for
the modes and encodings, that the two directions are inverse to each other and
that no second input is accepted; for the counters, that no block repeats; for
trust and validation, that only what is anchored and well formed is accepted.

`PROJECT.json` lists all parts under `components`, with what is not modelled and
why, and under `hazards` the lines at which these behaviours bite.

## 2. Modules

| module | models |
|---|---|
| `StatePersistence` | the coordinator, one action per critical section |
| `StatePersistenceProofs` | theorems about it, as the other `*Proofs` about their modules |
| `AtomicFile` | abstract: a file whose value changes at once, survives a power failure in one of several versions, and is settled by a sync |
| `ReplaceFile` | `replace_file_atomically`, one action per system call, over a file system with volatile and durable directory entries and contents |
| `ReplaceFileProofs` | theorems about it, and that it implements `AtomicFile` |
| `StateLock` | acquire and drop over descriptors and `flock` |
| `PersistentDevice` | `StateLock`, `AtomicFile` and the coordinator's guarantees together |
| `PersistentDeviceProofs` | theorems about both |
| `KeyWrap` | AES key wrap and key wrap with padding |
| `BlockModes` | CBC, ECB, CMAC (both forms), CTR, PKCS#7 and ISO 7816 padding, and the AES and 3DES functions over them |
| `Aead` | CCM and GCM, and the CCM calls of fixed lengths (Yubico OTP) |
| `CounterKdf` | counter KDF with caller-ordered fields, SCP03, X9.63, MGF1 |
| `Symmetric`, `SymmetricProofs` | the four modules above as parts of one specification, and the theorems about them |
| `Powers` | powers of two as a function, shared by the modules with bytes, counters and length fields |
| `CertificateTrust`, `CertificateTrustProofs` | trust configuration and the four chain validations |
| `NumberLemmas` | lemmas that several proofs share: induction and recursion over `0 .. K`, powers, digits, divisors, the Euclidean algorithm, Fermat's theorem |
| `BigUint` | the operations of the number crates that the RSA modules use, and the reference definitions of divisors and primes |
| `RsaNumbers` | numbers as bytes |
| `RsaArithmetic` | what both validations of RSA keys share: supported sizes, Miller-Rabin rounds and the sampling of their bases |
| `RsaPublicValidation` | the checks of a public key and the enhanced Miller-Rabin test |
| `RsaKeys` | generation, import, restoration and validation of private keys |
| `RsaEncodings` | PKCS#1 v1.5, PSS and OAEP around the RSA operation, in memory or the caller's |
| `Rsa` | the three modules above as parts, each with sizes of its own |
| `SigningKeys` | signing keys, their kinds, compact forms and PKCS#8, scheme dispatch, certificate signing |
| `EcdsaDer` | the DER form of an ECDSA signature |
| `Signing`, `SigningKeysProofs` | the two modules above as parts of one specification, and the theorems about them and about the parts of `Rsa` |
| `PostQuantumKeys` | ML-KEM and ML-DSA keys as seeds, expanded keys and documents; encapsulation |
| `MlDsaSigning` | ML-DSA and HashML-DSA signatures, contexts, randomizers |
| `MlDsaValidation` | the algebraic check of an expanded ML-DSA key, with its number theoretic transform |
| `KeyExchange` | key agreement and the hybrid KEMs |
| `Arkg` | ARKG-P256, public and private side |
| `KeyExchanges`, `PublicKeyProofs` | `KeyExchange`, `Arkg` and `MlDsaSigning` as parts of one specification, and the theorems about them and about `PostQuantumKeys` |
| `Brainpool512` | the crate's own ECDSA verification |
| `MC*` | the instances for TLC |

Parts that share no state share a specification and a run: a variable `part` says which
one a behaviour belongs to, and the variables of the others do not change. The property
of a part is stated for the behaviours of that part.

Mutants: an operator commented as "Mutant of X" is a plausible mistake in X. The
specifications never use it; each property is shown to fail when X is replaced by
its mutant.

### The coordinator

`mutation_epoch`, `persisted_epoch`, `deadline`, `force`, `stopping` and
`failure` are the fields of `ScheduleState`; `mode` is `PersistenceMode`. Every
section under the schedule mutex is one action, since nothing inside it blocks
but the condition variable, which releases the mutex. The state mutex is held
across several actions, so the program counters `pc` (clients) and `worker` show
who holds it. `state` counts the mutations applied, with a flag while one is half
done; `encoded` and `written` are the worker's snapshot and the durable image.
An `Instant` is modelled by the ticks left until it. The worker's panic is an
outcome of `encode` and `write`. `recorded`, `promised`, `at_stop` and `age` are
history variables: the version a call is about, and the ticks since the oldest
mutation that no snapshot covers, which run on to `AgeBound`, beyond the delay, whether
or not a thread is late. `check_failure` stands where the code calls it, also in
`wait_until_due`, where it never refuses: the failure is stored after the worker's loop
(`FailureIsLast`).

Clients are assumed to follow the documentation of `record_mutation`: they
record while they hold the state guard and wait after they dropped it, and they
do not panic in the middle of a mutation.

### The file and the lock

`ReplaceFile` has the directory as processes see it and, for each entry, whether
a power failure may still undo it. Contents are empty, torn or whole; an unsynced
file may come back as any of them. `AtomicFile` is the promise made to the
callers: a commit is visible at once, a sync settles it, a power failure brings
back one of the versions since the last settled one. A killed process leaves its
temporary files; a later process with the same process id starts its counter at
zero and meets them.

`StateLock` gives every open file description the set of processes with a
descriptor for it. The kernel's part (close, fork, exec, exit, reboot) is modelled
from its documented behaviour and marked external in the map.

### Byte strings

The modes and derivations take the sizes of bytes, blocks, counters and length
fields as constants. The instances use bytes of two to four bits and blocks of
two to eight bytes, so that TLC enumerates every input and counters reach their
limits after a few blocks. The block cipher is an arbitrary permutation. The
callbacks of the caller answer a chosen number of times and then fail. The block size
of a callback form is a constant, one that the code accepts; its refusal of any other
(`software_symmetric.rs:61`, `:369`, `:467`) is left out.

### Certificate trust

A certificate is a record of the fields the code looks at; `signer` is the key
under which its signature verifies, and `strict` stands for everything
`ParsedCertificate::parse` refuses. Paths are built and checked by the `certval`
crate, modelled from its use: which of the possible paths it finds is left open,
so the properties say what an accepted chain has, never that a good one is
accepted. They are stated without paths, as a least fixed point: the certificates
that the roots or the bare key vouch for. `New` is also enabled when a trust
exists, as a device that is configured again.

### RSA keys

Numbers are small enough for TLC, and the sizes of bytes, moduli and exponents,
the limits on rounds and draws, and the margins of the checks are constants. Every
string of bytes that the generator can return is tried at every draw; passed
rounds that cannot be told apart lead to the same state. The constructors of the
`rsa` crate are modelled from their use: which factors it recovers from `n`, `e`
and `d` is left open. A composite factor can pass with an unlucky base, so
`ValidatedKeyWorks` says that validated factors passed all rounds of the
reference test, and `QuarterOfBases` that every base can be drawn (`EveryBaseDrawn`) and
how many of them are unlucky. Powers of two are the function `TwoTo` and `Gcd` is a function of pairs,
so that the modules can be proved about: the provers know neither `^` nor functions of
two arguments.

### RSA encodings

The keys are RSA keys with moduli of six two-bit bytes, of 12 and of 11 bits; the
second has a PSS encoding one byte shorter than its modulus. Every string of six
bytes is decrypted and verified, so "accepts exactly" is meant literally. The hash
is any function. The functions named `_with` take an operation of the caller, which
may fail or answer with the wrong length. The key's own OAEP functions take label
digests of the lengths in `LabelLengths` only, as the code those of known hashes; the
instance has a longer and an empty one too. `MinPadding` stands for the eight bytes
of padding, `Room` and `OaepRoom` for the saturating subtractions.

### Signing keys

A caller owns a key, an exported encoding and a signature. Names of curves, hashes
and parameter sets and the lengths of scalars, seeds and coordinates are constants.
Two curves have coordinates as long as an Edwards seed, so that a compact form,
which carries no identity, can be read under another kind; a modulus of 57 bits is
not a whole number of bytes. A signature is a term that names its key and what it
was made over, so `VerifiesExactly` is about what the code passes to the primitives:
scheme, hash, salt length, digest, format. A verifier holds a public key in its usual
encoding, in another one (a compressed point, a modulus with leading zeros, an
Edwards coordinate beyond the field) or in one that is nobody's. `Readable` says which
of the others the code takes: `from_sec1_bytes` and `rsa_public_key` read them as the same
key, `brainpool512.rs` and the checked Edwards keys refuse them. `EcdsaDer` is octet by octet: every
signature of coordinates up to three octets is encoded, damaged in one place and
read again.

### Post-quantum keys

An expanded key is a record of the parts that can disagree (secret, public part,
hash of the public key, the low bits, the owner's value), each a token of the seed
it comes from; documents hold a seed, an expanded key or both. Decapsulation with
parts of two keys succeeds with another secret, as the standard's implicit rejection
does. An expanded ML-DSA key is imported after the validation, the hash and a signature
that verifies, as in the code, although the signature decides nothing once the other two
have passed. `MlDsaValidation` is the algorithm of `ml_dsa_validation.rs` itself over eight
coefficients modulo 17, and compared with the schoolbook product.

### Exchanges and curves

In `KeyExchange` and `Arkg` a point is its multiple of the generator, modulo a prime
order, and a shared secret is the x-coordinate that a point and its negative share;
hashes are terms. Encodings of X25519 keys include other encodings of the same
coordinate, points of low order, points with a low-order part and points on the
twist. `Brainpool512` computes in Jacobian coordinates on `y^2 = x^3 + 8x + 6` over
the field of 13 elements, where every case of the addition occurs within a few
steps; the reference is the table of multiples of the generator.

## 3. Runs

| run | question | bounds |
|---|---|---|
| `state_persistence_safety` | is anything reported durable that is not, torn, late, or written after a failure; does anyone sleep with work to do | two clients, both modes, four mutations, epoch limit 3, delay 2, callbacks fail and panic |
| `state_persistence_liveness` | do waits, flushes, mutations and shutdown come to an end | two clients, both modes, three mutations, epoch limit 2, delay 1, callbacks fail but do not panic |
| `state_persistence_receipts` | does every wait end, as the receipt's documentation says | as above; expected to fail, see section 5 |
| `replace_file` | atomicity, durability, ownership of temporary files; does a replacement get past leftover names | two writers, three files, four names, two crashes |
| `persistent_device` | one owner, who leaves nothing locked; nothing acknowledged lost, no stale image | two processes, one child, three descriptions, two mutations, three commits, one power failure |
| `certificate_trust` | is whatever is accepted vouched for by what was configured, for this use | sixteen certificates, chains up to four (and one too long), eleven configurations, one tick of the clock |
| `symmetric` | are the two directions exact inverses; do the modes agree with their standards' definitions; does a counter block repeat; are derived keys exact | key wrap: bytes of two bits, semiblocks of two bytes, every input up to five bytes and half of those of six; modes: blocks of two bytes, every string up to five; CCM and GCM: bytes of four bits, blocks of eight, lengths around every limit; derivation: up to three fields of 22 kinds, outputs around the limits of counters and lengths |
| `rsa` | do validated keys work; can every base be drawn, and are few enough of them liars; are accepted moduli products of different primes; do the encodings accept exactly what they make | private keys: bytes of three bits, factors up to seven bits; public keys: bytes of four bits, moduli up to 256 and thirteen larger ones (primes, their powers, pseudoprimes, Carmichael numbers); two rounds, two draws; encodings: see above |
| `signing` | does a key survive its encodings; does verification accept exactly what was signed; is the DER form unique | four curves, two Edwards curves, two ML-DSA sets, three RSA sizes, two messages; DER: octets of four bits, coordinates of one to three |
| `signing_kind` | does the kind a key reports restore it | as `signing`; expected to fail, see section 5 |
| `post_quantum` | are the parts of accepted keys one key; does the lattice check accept exactly generated keys | two sets of each algorithm, two seeds; ring of eight coefficients, two rows and columns |
| `key_exchange` | do two sides have one secret, or one key pair, exactly when they should; is ECDSA verification exact; is an ML-DSA signature bound to all it was made for | groups of order 7 and 11, three seeds, every digest around the order's length; messages and contexts of up to three octets, where a length octet holds at most two |

Two clients are enough for the races of the coordinator: the worker and the owner
are further threads, and every pair of roles (mutator and flusher, two waiters on
different epochs, waiter and mutator) occurs. Three mutations let one be recorded
before, during and after a write, and the epoch limit lies below their number. The bounds on counters (`MutationBound`,
`EpochLimit`, `AgeBound`, `FileBound`, `NameBound`, `CommitBound`, `PowerBound`, `MaxFields`, `MaxContext`) are
constants of the modules; the theorems hold for every value of them.

Deadlock checking is off in all runs: programs that have returned, processes that
have stopped and exhausted bounds are legitimate ends. What must not hang is
stated as liveness, and as `NoLostWakeup`.

### Fairness

`FairSpec` of `StatePersistence` has weak fairness of the worker's steps, of each
client's steps once it is inside a call, of the owner's join and of time. The
operating system schedules threads and lets time pass; std's mutexes are not
fair, but the schedule mutex is free again after every action, and clients
leave the state mutex after finitely many mutations. No client is assumed to
call anything. `FairSpec` of `ReplaceFile` has weak fairness of a call's next
step: the loop over temporary names is in one process, and the counter is shared.

## 4. Proofs

`StatePersistenceProofs` proves, for any set of clients, any delay, any epoch
limit, any number of mutations and any bound on the history of time:
`TypeCorrect`, `Durability` (`AckedIsDurable`), `ShutdownDurability`
(`ShutdownIsDurable`), `Wholeness` (`WrittenIsWhole`), `WakeupSafety`
(`NoLostWakeup`), `DeadlineSafety` (`DeadlineNotExtended`) and `FailStopSafety`
(`FailStop`).

The only assumption is `ConstantsAssumption`: the delay is positive, as
`PersistenceMode::validate` requires, the limits are natural numbers, and the history
of time reaches at least the delay.

`DeadlineSafety` is about the schedule and not about durations: the deadline of the
first uncovered mutation is neither moved nor dropped, and the worker never sleeps past
it. How long a write under way, a client in the state mutex or the scheduler then
delay the snapshot has no bound in the code, and the theorem states none.

None of the properties is inductive. The inductive invariant `IInv` adds, in
layers that use only the ones before them:

- `StateMutex`: clients and worker exclude each other in the state mutex;
- `WholeImages`: the state is half changed only in the hands of its holder, so
  snapshots are whole;
- `EpochOrder`: the persisted epoch, the snapshot's epoch and the mutation epoch
  are in order;
- `Covered`: an epoch the worker has persisted, or is about to, stands for a
  version the image contains. This is the link between the two mutexes: the worker
  reads the epoch while it holds the state mutex, so no mutation is between;
- `Promises`: what a waiting client was promised is covered once its epoch is;
- `Stopped`: an exited worker left nothing recorded before the stop;
- `Scheduled`: whatever is pending has a force, a deadline or a stop that the
  worker will see, or the worker is busy;
- `FailureIsLast`: a stored failure means that the worker is at its end;
- `AgeOfUncovered`: the age runs only while a mutation in batched mode is uncovered,
  that is, pending or recorded after the snapshot under way.

### The lock and the device

`PersistentDeviceProofs` proves, for any processes, children, descriptions,
mutations, commits and power failures: `LockExcludes` (`OneOwner`),
`DeviceDurability` (`NoAckLost`) and `OwnersAreCurrent` (`OwnerIsCurrent`).
Assumed are `HoldersAssumption` (children are not owners), `DescriptionsAssumption`
and `DeviceAssumption` (descriptions and bounds are numbers).

`LockInv` is inductive without the device: a process has descriptors for one
description only, the one behind its guard, no two processes share one
(`OwnDescriptions`), and the description that holds the kernel's lock is open
(`OpenDescriptions`); `OneOwner` alone says nothing of the process between `open`
and `flock`. `DeviceInv` adds that only a holder of the lock serves the device
(`ServesLocked`), and where an acknowledged mutation is while a write is under way:
in the snapshot, and after the rename in the image readers see (`SnapshotCovers`).
Two owners are excluded by `LockInv` (`SoleServer`), so that no step of one
invalidates what the other has in memory.

### The state file

`ReplaceFileProofs` proves, for any writers, files, names and crashes:
`TemporariesAreOwn` (`OwnTemporary`), `AcknowledgedSurvives` (`AckedSurvives`) and
`StateFileIsAtomic` (`ImplementsAtomicFile`): with the mapping of the module,
initial states are initial states of `AtomicFile`, a rename is its commit, a
synced directory its sync, a power failure its power failure, and every other
step stutters. `BoundsAssumption` says that the bounds are numbers and that there
are at least as many names as files, so that `create_new` cannot run out of names
that the code would still have.

`FileInv` has, beside types: names of calls under way are different and below the
counter (`OwnNames`); a file is, or can come back after a power failure, under one
name only (`OneNamePerFile`); the file of a call is not committed before its rename,
whole and synced at it, and not overtaken by an older one after it (`FileOfCall`);
whatever can be at the path is a whole committed image that is no older than the
last acknowledged one (`PathIsWhole`). `EnoughNames` counts the ids handed out
against the files left behind; its proof is where cardinalities are needed.

### Certificate trust

`CertificateTrustProofs` proves, for any set of certificates, configurations,
chains and keys: `AcceptedIsAnchored` (`Anchored`), `BareKeyTraversesIssuers`
(`TraversesPresentedIssuers`) and `FingerprintIsTrust` (`FingerprintNamesTrust`, an
action property). Assumed: the digest of a certificate identifies it
(`FingerprintAssumption`), lists are lists of certificates (`ListsAssumption`), and
`TimeAssumption`. Whatever `certval` returns as path is covered: the proof uses only
what the model says of paths.

The heart is a descent along the accepted path: its top is an anchor and every next
certificate is supported by the one above, so by induction over the length of the
path the leaf is in every set that is closed under support, hence in the least one,
`Vouched`. `TrustInv` adds to the two properties that a result belongs to a call, and
`ConfigurationInv` that roots and fingerprint are those of the configured list.
Recursive functions are proved about through `NumberLemmas`: induction up to
a number for a set in place of a predicate, and the existence of the function that a
loop over `0 .. K` defines.

### Post-quantum keys

`PublicKeyProofs`: `EveryKeyIsWhole` (`KeysAreWhole`), for any parameter sets,
lengths and seeds. `KeysInv` says the same of all that can become a key: the material
that was exported or received (`MaterialOK`), and the capsule under way
(`CapsuleOK`). Its lemmas say what every import function returns, for every input;
`PairwiseIsExact` is that the pair-wise test tells exactly the keys whose secret and
public part belong together. Assumed: no set belongs to both algorithms, a raw seed
and a raw expanded key differ in length, "no message" is no message, and the value
for absent is nothing else.

`SignaturesBindTheirCall` (`SignaturesAreBound`), for any octets, object identifier,
digest lengths and bounds (`OctetsFit`: they are numbers and strings). Its core is that
the signed string is injective: domain octet, length octet, context and message can be
read back from their concatenation because a context's length fits its octet
(`CatSplits`, `FrameIsExact`, `InternalIsExact`).

### Exchanges

`PublicKeyProofs` also has `ExchangesMatch` (`SecretsMatch`) and `TicketsMatchTheirKeys`
(`TicketsAreExact`), for any group of prime order and any seeds, scalars, salts,
contexts and randomness. That the order is prime is assumed in the form in which it is
used (`OrderIsPrime`): a product of two numbers below it that are not zero is not zero
modulo it. From it follow cancellation and that a scalar's two products differ up to
sign only if the scalars do (`SameAbscissa` and the lemmas about remainders before it),
which is what "the same x-coordinate" means. `SeedsFit` and `InputsAreOctets` say that
seeds, random strings and key material have the form the code reads. `ExchangeInv`
keeps, beside the property, where the receiver's key, the sent capsule and the agreed
secret come from (`HolderOK`, `SentOK`, `AgreedOK`); `ArkgInv` that the ticket under way
is one that the public side makes for the device's public keys (`OfferOK`).

### Signing keys and signatures

`SigningKeysProofs`: `GeneratedKeySurvives` (`KeySurvives`) and `SignaturesVerifyExactly`
(`VerifiesExactly`), for any curves, sets, hashes, moduli and lengths. `KeyInv` relates
an exported encoding to the key that was generated, however often it is exported and
imported. `SignatureInv` adds that a signature under way is one that signing returns
for the statement it records (`SignatureOK`). The lemmas that carry the second
theorem are that digests cut to the length of a curve's field and padded with zeros
are equal exactly if the statements are (`FieldValueIsExact`, `ContentIsExact`), and
that the identifiers of a certificate name one scheme (`IdentifiersNameTheScheme`).
The theorem counts every encoding that the code reads as the signer's key, and no other.
Assumed: lengths are positive, a curve's own hash has at least half the length of its
coordinates (a shorter digest is refused by the `ecdsa` crate), and the value for
absent is nothing else. The octets of a prehash are opaque and not the zero of the
padding (`PrehashAssumption`): digests that differ only in leading zeros are one
field value in the code too, by the definition of ECDSA, and the theorem does not
speak of them.

`DerFormsAreUnique` (`DerIsCanonical`): for octets of any radix above one and
coordinates of any length (`OctetsFit`), what `ecdsa_signature_from_der` accepts is the encoding of what it returns, and it accepts
every encoding. `DerInv` says that what is read is a string of octets and of what it is
the answer. The proof cuts an encoding into tag, length and contents where they stand
(`At`, `Parts`), so that reading and writing meet in the octets and not in two nested
concatenations; what is left is that the shortest positive form of a number, widened
again, is the number, and the other way round.

### RSA encodings

`SigningKeysProofs`: `RsaDecryptionInverts` (`DecryptionIsExact`) and `RsaVerificationInverts`
(`VerificationIsExact`), for octets of any size of at least two bits, any hash of a declared
length and any calls. Assumed: `OctetsFit` and `CallsFit` (sizes, and inputs that are strings
of octets), `XorIsBitwise` (what the proofs use of the exclusive or of octets),
`HashesToOctets`, and `KeysInvert`: the exponents of a key undo each other below its modulus,
which is what `ValidatedKeysWork` gives a validated key. The invariant says of the inputs
that they are octets (`RsaInputs`) and of an answer which function of the inputs it is
(`RsaAnswers`), so the theorems are about the functions, in three layers:

- a number is the value of one string of each length that has room for it (`ValueIsKept`,
  `StringValue`), and a string that fits the modulus comes back from the two directions of
  the RSA operation, widened to the modulus (`FittingBlock`, `AppliedUndone`);
- the padding is the only one that unpads to its message (`PadUnpads`, `UnpadPads`);
- OAEP and PSS mask twice, with masks each side can compute: `SealOpens`, `OpensSeal`,
  `DbReads` and `ReadsDb` for OAEP, `PssSigns` and `PssSigned` for PSS, where the bits that
  are cleared above the modulus are cleared again (`TrimmedTwice`).

### RSA validation

`SigningKeysProofs` proves the properties of the validations but for the count of `QuarterOfBases`, for any sizes of
bytes, moduli and exponents, any limits and any bases drawn. Hypotheses are `InputsFit`
and `RequestsFit`: numbers are natural, the limits of the checks fit each other as the code's
constants do, and the messages of the pair-wise test are below every modulus.

- `ValidatedKeysWork` (`ValidatedKeyWorks`). `KeysAreGood` keeps the results of the checks
  that precede the tests, for the candidate and for the handle made of it (`CandidateIsGood`,
  `HandleIsGood`), and that the rounds passed were passed by bases the reference calls liars
  (`RoundsAreCounted`, from `PassingIsStrong`). That a key decrypts what it encrypts is then
  number theory and proved from the definitions: Fermat's theorem from the binomials of
  Pascal's triangle, which a prime divides (`PrimePowerOfSum`, `Fermat`), and from it, for two
  different primes, that exponents inverse modulo lambda undo each other for every message,
  multiples of a factor included (`ExponentsUndo`).
- `EveryBaseIsDrawn` (`EveryBaseDrawn`, the first part of `QuarterOfBases`): the masked first
  byte has exactly the bits of the number that are left over (`FirstByte`, `FirstMaskIs`), so
  a base below the number is drawn as its own bytes (`BaseOfItself`).
- `AcceptedModuliFactor` (`AcceptedModulus`). `ModuliAreGood` keeps that rounds are only run
  for a request that passed the checks, and that an accepted one has two different prime
  factors. The values of a round are squares of one another modulo `n` (`RoundsSquare`). A
  root of one that is neither `1` nor `n - 1` has a factor in common with `n` (`RootHasFactor`),
  so the round would have found it; what is accepted has a base whose power `n - 1` is not one
  and differs from one by nothing that shares a factor with `n`. By Fermat's theorem a prime
  that divides `n` would divide that difference if `n` were one of its powers (`TwoPrimes`).
  The trial divisions exclude the small ones (`FactorsAreLarge`).

### Symmetric constructions

`SymmetricProofs` proves all properties of the four modules. The block cipher, the
exclusive or and the multiplication of GHASH are functions with the assumed property
and nothing more; sizes and inputs are arbitrary.

- `UnwrapInvertsWrap` (`WrapIsExact`). Assumed: `WidthAssumption`, `XorAssumption` (an
  involution), `CipherAssumption` (`Cipher` and `Decipher` are inverse on blocks) and
  `CallerAssumption` (types of the inputs). `WrapInv` says that the registers are a point
  of a trace: a function from the number of the step to the registers whose neighbours
  are related by one step, from the plaintext at one end to the ciphertext at the other.
  Wrapping walks it up and unwrapping down, so the inverse call meets the first one
  (`Trace`, `Along`); a trace exists for every input by `NumberLemmas`.
- `ModesInvertEachOther` (`ModesInvert`). Assumed: a byte has the values of `KeyWrap`'s,
  `WidthsFit`, `CipherIsPermutation`. `ModeInv` says that a result is what the called
  function returns for its arguments, so the theorem is about the functions: the chain of
  CBC is a recursive function of the blocks, and the lemmas before it say what it is at
  every place. Removing a padding gives back what was padded and accepts nothing else.
- `CmacsAreStandard` (`CmacIsStandard`), in addition from `ReductionFits`. Doubling byte by
  byte with a carry is doubling the number modulo the reduction, and both forms chain the
  same prepared message.
- `CountersNeverRepeat` (`CountersFresh`). The counter block of CTR is a number of which
  the low bits count; the fields of a CCM or GCM counter block can be read back from it,
  and the limits the code checks keep the counter within its field. Assumed for CCM and
  GCM: `AeadFits`, which is `WidthsFit`, `FieldsFit`, `XorIsInvolution`, and that the
  callback returns blocks (`EncryptsToBlocks`, `MultipliesToBlocks`).
- `AeadsInvert` (`AeadInverts`): `AeadInv` says of a first call that it has its outcome,
  and of an inverse call that its outcome is the input of the first.
- `AuthenticatedIsDetermined` (`AuthenticatesEverything`), in addition from `FlagsFit`: the
  flags octet, the length of the header in its short or long form, the header, the padding
  and the text are read back from the string that is authenticated, wherever they stand
  (`Holds`, `Placed`). `CallsInv` says that calls are typed and within the limits checked.
- `DerivationsAreExact` (`DerivesExactly`). Assumed: `WidthsFit`, `FieldsFit`. `KdfInv`
  follows the validation field by field: what was validated so far can hold its counter
  or length, and there is at most one of them (`Good`, `OneCounter`).

Numbers as octets rest on the lemmas of `NumberLemmas`: digits of a number in a radix
determine it, and powers of two add.

### What the hypotheses are

Assumptions about constants are `ASSUME`s of the module or, for a module that is a part,
named predicates that are hypotheses of its theorems. TLC evaluates them for the
instances of the runs: `ModesAssumption`, `AeadsAssumption`, `KdfsAssumption`,
`DerAssumption`, `ExchangeAssumption`, `EncodingAssumption`, `ValidationAssumption`.
`EncryptsToBlocks` and `MultipliesToBlocks` say of an
operator that it returns blocks, whatever its arguments, and cannot be enumerated; the
instances' operators return tuples of eight values below 16 by their definition.
Likewise `HashesToOctets` of the hash of the encodings.

### Only model-checked

- Liveness (`CallsReturn`, `RecordedIsSettled`, `ReplaceReturns`), which is out of this
  prover's reach.
- The count of `QuarterOfBases`: Rabin's bound on the liars of a composite number, which counts elements
  of the group of units.
- `OnlyGeneratedKeys`: that the transform computes the product in the ring.
- `EcdsaIsExact`: that the formulas in Jacobian coordinates are the group's.

## 5. Disagreements between documentation and code

`MutationReceipt` is documented as "A recorded mutation's completion or
persistence-failure result." (`state_persistence.rs:124`). A handle outlives the
`StatePersistence` it came from. After `shutdown` the worker has exited without
an error; `record_mutation` looks at `failure` but not at `stopping`, so it still
succeeds, and the receipt's `wait` in immediate mode, like `flush`, waits for an
epoch that nobody will publish. `state_persistence_receipts` is the shortest such
behaviour. While the worker lives every call ends (`CallsReturn`).

`KeyKind` is "The identity of a private signing key at generation and import
boundaries." (`software_signing.rs:1189`), and `from_serialized_for_kind` is to
"Restore a compact private value using only key identity." (`:1504`). `key_kind`
reports the bits of an RSA modulus, `from_serialized_for_kind` compares them with
its size in bytes times eight: a key of 1025 bits, as the test at `rsa_keys.rs:213`
generates, is refused under its own kind. `signing_kind` shows it; `KeySurvives`
holds for every other key.

One edge has no text to disagree with: `rsa_oaep_pad_digest` lets an empty message
pass where the label digest has no room (64 bytes under a 1024-bit modulus), cuts
the digest, and returns what nobody can decrypt. `OaepPad` does the same;
`DecryptionIsExact` leaves such label digests out.

## 6. Not modelled, and the plan

Ciphers, hashes, curve and lattice schemes come from other crates and are modelled
as arbitrary functions or terms with the properties the code relies on. Not
modelled:

- `kat.rs` and the tests, which are data and readers of data, and `lib.rs`;
- `SoftwarePrivateKey` (`software_private_key.rs`), which forwards to signing and
  agreement keys;
- the digest, HMAC, HKDF and PBKDF2 functions of `digest.rs`, which select a type
  of a crate and call it, and the password derivation of `secure_channel.rs`, a loop
  over 256 salts around one of them;
- `wrap_aes_kwp` and `unwrap_aes_kwp`, single calls of the `aes_kw` crate;
- ASN.1 structures beyond the fields the code compares; erasure of secrets from
  memory and constant-time execution, which are not properties of behaviours;
- poisoned mutexes after a client's panic, and delays beyond the range of `Instant`.

What is left to prove is mathematics rather than program: Rabin's bound
(`QuarterOfBases`), that the number theoretic transform turns the product of polynomials
into one of coefficients (`OnlyGeneratedKeys`), and the group law of an elliptic curve
(`EcdsaIsExact`).
