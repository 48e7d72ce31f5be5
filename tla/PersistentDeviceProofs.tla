----------------------- MODULE PersistentDeviceProofs -----------------------
(***************************************************************************)
(* Proofs about StateLock and PersistentDevice for any number of           *)
(* processes, children, descriptions, mutations, commits and power         *)
(* failures.  The lock's invariant needs nothing of the device; the        *)
(* device's rests on the lock's.                                           *)
(***************************************************************************)
EXTENDS PersistentDevice, TLAPS

-----------------------------------------------------------------------------
(* The lock.                                                               *)
LockTypeOK ==
  /\ flock \in Descriptions \cup {None}
  /\ refs \in [Descriptions -> SUBSET (Processes \cup Children)]
  /\ guard \in [Processes -> {"none", "opened", "held", "unlocked"}]
  /\ file \in [Processes -> Descriptions \cup {None}]
  /\ orphaned \subseteq Descriptions

(* A process has descriptors for one description only: the one behind its  *)
(* guard; and no two processes share one.                                  *)
OwnDescriptions ==
  /\ \A p \in Processes : guard[p] # "none" => file[p] \in Descriptions /\ p \in refs[file[p]]
  /\ \A p \in Processes, d \in Descriptions : p \in refs[d] => guard[p] # "none" /\ file[p] = d
  /\ \A p \in Processes : guard[p] = "none" => file[p] = None
  /\ \A p, q \in Processes : guard[p] # "none" /\ file[p] = file[q] => p = q

(* Descriptions that hold the lock, or outlived their owner, are open; the *)
(* latter belong to children only.                                         *)
OpenDescriptions ==
  /\ flock # None => refs[flock] # {}
  /\ \A d \in orphaned : refs[d] # {} /\ \A p \in Processes : p \notin refs[d]

LockInv == LockTypeOK /\ OwnDescriptions /\ OpenDescriptions /\ OneOwner

(* No process has anything open at the start, or after a reboot.           *)
LEMMA LockInitInv == LockInit => LockInv
  BY HoldersAssumption, DescriptionsAssumption
  DEF LockInit, LockInv, LockTypeOK, OwnDescriptions, OpenDescriptions, OneOwner, None

LEMMA RebootInv == Reboot => LockInv'
  BY HoldersAssumption, DescriptionsAssumption
  DEF Reboot, LockInv, LockTypeOK, OwnDescriptions, OpenDescriptions, OneOwner, None

LEMMA OpenLockFileInv ==
  ASSUME LockInv, NEW p \in Processes, OpenLockFile(p) PROVE LockInv'
<1> USE DescriptionsAssumption DEF None
<1>1. PICK d \in Descriptions :
        /\ refs[d] = {} /\ refs' = [refs EXCEPT ![d] = {p}] /\ file' = [file EXCEPT ![p] = d]
  BY DEF OpenLockFile
<1>2. /\ guard[p] = "none" /\ guard' = [guard EXCEPT ![p] = "opened"]
      /\ flock' = flock /\ orphaned' = orphaned
  BY DEF OpenLockFile
<1>3. LockTypeOK'
  BY <1>1, <1>2 DEF LockInv, LockTypeOK
<1>4. OwnDescriptions'
  BY <1>1, <1>2 DEF LockInv, LockTypeOK, OwnDescriptions
<1>5. OpenDescriptions'
  BY <1>1, <1>2 DEF LockInv, LockTypeOK, OpenDescriptions
<1>6. OneOwner'
  BY <1>1, <1>2 DEF LockInv, LockTypeOK, OneOwner
<1>. QED
  BY <1>3, <1>4, <1>5, <1>6 DEF LockInv

(* A process that closes its only description: what is still open keeps    *)
(* its children, and the lock, if any of them has it.                      *)
LEMMA CloseInv ==
  ASSUME LockInv, NEW p \in Processes, guard[p] \in {"opened", "unlocked"},
         guard' = [guard EXCEPT ![p] = "none"], file' = [file EXCEPT ![p] = None],
         CloseAll(p)
  PROVE  LockInv'
<1> USE DescriptionsAssumption DEF None
<1>1. /\ refs' = [d \in Descriptions |-> refs[d] \ {p}]
      /\ flock' = IF flock # None /\ refs'[flock] = {} THEN None ELSE flock
      /\ orphaned' = {d \in orphaned : refs'[d] # {}}
  BY DEF CloseAll
<1>2. LockTypeOK'
  BY <1>1 DEF LockInv, LockTypeOK
<1>3. OwnDescriptions'
  BY <1>1 DEF LockInv, LockTypeOK, OwnDescriptions
<1>4. OpenDescriptions'
  BY <1>1 DEF LockInv, LockTypeOK, OpenDescriptions
<1>5. OneOwner'
  <2>1. ASSUME NEW q \in Processes, guard'[q] = "held"
        PROVE  q # p /\ guard[q] = "held" /\ file'[q] = file[q] /\ flock' = flock
    BY <1>1, <2>1 DEF LockInv, LockTypeOK, OwnDescriptions, OneOwner
  <2>2. ASSUME flock' # None, flock \in orphaned PROVE flock' \in orphaned'
    BY <1>1, <2>2 DEF LockInv, LockTypeOK, OpenDescriptions
  <2>3. ASSUME flock' # None, NEW q \in Processes, guard[q] = "held", file[q] = flock
        PROVE  guard'[q] = "held" /\ file'[q] = flock'
    BY <1>1, <2>3 DEF LockInv, LockTypeOK
  <2>. QED
    BY <1>1, <2>1, <2>2, <2>3 DEF LockInv, LockTypeOK, OneOwner
<1>. QED
  BY <1>2, <1>3, <1>4, <1>5 DEF LockInv

LEMMA TryLockInv ==
  ASSUME LockInv, NEW p \in Processes, TryLock(p) PROVE LockInv'
<1> USE DescriptionsAssumption DEF None
<1>1. CASE /\ flock = None /\ flock' = file[p]
           /\ guard' = [guard EXCEPT ![p] = "held"]
           /\ UNCHANGED <<refs, file, orphaned>>
  <2>1. guard[p] = "opened"
    BY DEF TryLock
  <2>2. LockTypeOK'
    BY <1>1, <2>1 DEF LockInv, LockTypeOK, OwnDescriptions
  <2>3. OwnDescriptions'
    BY <1>1, <2>1 DEF LockInv, LockTypeOK, OwnDescriptions
  <2>4. OpenDescriptions'
    BY <1>1, <2>1 DEF LockInv, LockTypeOK, OwnDescriptions, OpenDescriptions
  <2>5. \A q \in Processes : guard[q] # "held"
    BY <1>1 DEF LockInv, LockTypeOK, OwnDescriptions, OneOwner
  <2>6. OneOwner'
    BY <1>1, <2>1, <2>5 DEF LockInv, LockTypeOK, OneOwner
  <2>. QED
    BY <2>2, <2>3, <2>4, <2>6 DEF LockInv
<1>2. CASE /\ guard' = [guard EXCEPT ![p] = "none"]
           /\ file' = [file EXCEPT ![p] = None]
           /\ CloseAll(p)
  BY <1>2, CloseInv DEF TryLock
<1>. QED
  BY <1>1, <1>2, Zenon DEF TryLock

LEMMA UnlockInv ==
  ASSUME LockInv, NEW p \in Processes, Unlock(p) PROVE LockInv'
<1> USE DescriptionsAssumption DEF None
<1>1. /\ guard[p] = "held" /\ guard' = [guard EXCEPT ![p] = "unlocked"]
      /\ flock' = None /\ UNCHANGED <<refs, file, orphaned>>
  BY DEF Unlock, LockInv, OneOwner
<1>2. LockTypeOK'
  BY <1>1 DEF LockInv, LockTypeOK
<1>3. OwnDescriptions'
  BY <1>1 DEF LockInv, LockTypeOK, OwnDescriptions
<1>4. OpenDescriptions'
  BY <1>1 DEF LockInv, LockTypeOK, OpenDescriptions
<1>5. OneOwner'
  BY <1>1 DEF LockInv, LockTypeOK, OneOwner
<1>. QED
  BY <1>2, <1>3, <1>4, <1>5 DEF LockInv

LEMMA ForkInv ==
  ASSUME LockInv, NEW p \in Processes, NEW k \in Children, Fork(p, k) PROVE LockInv'
<1> USE DescriptionsAssumption, HoldersAssumption DEF None
<1>1. /\ guard[p] # "none" /\ refs' = [refs EXCEPT ![file[p]] = @ \cup {k}]
      /\ UNCHANGED <<flock, guard, file, orphaned>>
  BY DEF Fork
<1>2. LockTypeOK'
  BY <1>1 DEF LockInv, LockTypeOK
<1>3. OwnDescriptions'
  BY <1>1 DEF LockInv, LockTypeOK, OwnDescriptions
<1>4. OpenDescriptions'
  BY <1>1 DEF LockInv, LockTypeOK, OpenDescriptions
<1>5. OneOwner'
  BY <1>1 DEF LockInv, LockTypeOK, OneOwner
<1>. QED
  BY <1>2, <1>3, <1>4, <1>5 DEF LockInv

LEMMA ExecInv ==
  ASSUME LockInv, NEW k \in Children, Exec(k) PROVE LockInv'
<1> USE DescriptionsAssumption, HoldersAssumption DEF None
<1>1. /\ refs' = [d \in Descriptions |-> refs[d] \ {k}]
      /\ flock' = IF flock # None /\ refs'[flock] = {} THEN None ELSE flock
      /\ orphaned' = {d \in orphaned : refs'[d] # {}}
      /\ UNCHANGED <<guard, file>>
  BY DEF Exec, CloseAll
<1>2. LockTypeOK'
  BY <1>1 DEF LockInv, LockTypeOK
<1>3. OwnDescriptions'
  BY <1>1 DEF LockInv, LockTypeOK, OwnDescriptions
<1>4. OpenDescriptions'
  BY <1>1 DEF LockInv, LockTypeOK, OpenDescriptions
<1>5. OneOwner'
  <2>1. ASSUME NEW q \in Processes, guard[q] = "held" PROVE flock' = flock
    BY <1>1, <2>1 DEF LockInv, LockTypeOK, OwnDescriptions, OneOwner
  <2>2. ASSUME flock' # None, flock \in orphaned PROVE flock' \in orphaned'
    BY <1>1, <2>2 DEF LockInv, LockTypeOK
  <2>. QED
    BY <1>1, <2>1, <2>2 DEF LockInv, LockTypeOK, OneOwner
<1>. QED
  BY <1>2, <1>3, <1>4, <1>5 DEF LockInv

LEMMA KillOwnerInv ==
  ASSUME LockInv, NEW p \in Processes, KillOwner(p) PROVE LockInv'
<1> USE DescriptionsAssumption DEF None
<1>1. /\ guard[p] # "none"
      /\ guard' = [guard EXCEPT ![p] = "none"] /\ file' = [file EXCEPT ![p] = None]
      /\ refs' = [d \in Descriptions |-> refs[d] \ {p}]
      /\ flock' = IF flock # None /\ refs'[flock] = {} THEN None ELSE flock
      /\ orphaned' = {d \in orphaned \cup {file[p]} : refs'[d] # {}}
  BY DEF KillOwner
<1>2. LockTypeOK'
  <2>1. file[p] \in Descriptions /\ orphaned \subseteq Descriptions
    BY <1>1 DEF LockInv, LockTypeOK, OwnDescriptions
  <2>2. orphaned' \subseteq Descriptions
    BY <1>1, <2>1
  <2>. QED
    BY <1>1, <2>2 DEF LockInv, LockTypeOK
<1>3. OwnDescriptions'
  BY <1>1 DEF LockInv, LockTypeOK, OwnDescriptions
<1>4. OpenDescriptions'
  <2>1. flock' # None => refs'[flock'] # {}
    BY <1>1 DEF LockInv, OpenDescriptions
  <2>2. ASSUME NEW d \in orphaned', NEW q \in Processes PROVE q \notin refs'[d]
    <3>1. d \in Descriptions
      BY <1>2 DEF LockTypeOK
    <3>2. CASE d \in orphaned
      BY <1>1, <3>1, <3>2 DEF LockInv, OpenDescriptions
    <3>3. CASE d = file[p]
      BY <1>1, <3>1, <3>3 DEF LockInv, OwnDescriptions
    <3>. QED
      BY <1>1, <3>2, <3>3
  <2>. QED
    BY <1>1, <2>1, <2>2 DEF OpenDescriptions
<1>5. OneOwner'
  <2>1. ASSUME NEW q \in Processes, guard'[q] = "held"
        PROVE  q # p /\ guard[q] = "held" /\ file'[q] = file[q] /\ flock' = flock
    BY <1>1, <2>1 DEF LockInv, LockTypeOK, OwnDescriptions, OneOwner
  <2>2. ASSUME flock' # None, flock \in orphaned \cup {file[p]} PROVE flock' \in orphaned'
    BY <1>1, <2>2 DEF LockInv, LockTypeOK
  <2>3. ASSUME flock' # None, NEW q \in Processes, guard[q] = "held", file[q] = flock, q # p
        PROVE  guard'[q] = "held" /\ file'[q] = flock'
    BY <1>1, <2>3 DEF LockInv, LockTypeOK
  <2>. QED
    BY <1>1, <2>1, <2>2, <2>3 DEF LockInv, LockTypeOK, OneOwner
<1>. QED
  BY <1>2, <1>3, <1>4, <1>5 DEF LockInv

-----------------------------------------------------------------------------
(* The device.                                                             *)
DeviceTypeOK ==
  /\ commits \in 0 .. CommitBound /\ value \in 0 .. commits
  /\ survivors \subseteq 0 .. commits /\ acked \in Nat
  /\ image \in [0 .. CommitBound -> SUBSET Mutations]
  /\ phase \in [Processes -> {"down", "running", "failed", "stopped"}]
  /\ mem \in [Processes -> SUBSET Mutations] /\ snap \in [Processes -> SUBSET Mutations]
  /\ job \in [Processes -> {"idle", "write", "sync"}]
  /\ acknowledged \subseteq Mutations

(* A process that serves the device holds the lock, and only a running     *)
(* coordinator has a snapshot under way.                                   *)
ServesLocked ==
  \A p \in Processes :
    /\ phase[p] \in {"running", "failed"} => guard[p] = "held"
    /\ job[p] # "idle" => phase[p] = "running"

(* Where an acknowledged mutation is: in the snapshot under way and in the *)
(* memory it was taken from; a committed snapshot is what readers see.     *)
SnapshotCovers ==
  \A p \in Processes :
    /\ phase[p] \in {"running", "failed"} => snap[p] \subseteq mem[p]
    /\ job[p] # "idle" => acknowledged \subseteq snap[p]
    /\ job[p] = "sync" => image[value] = snap[p]

DeviceInv ==
  /\ LockInv /\ DeviceTypeOK /\ ServesLocked /\ SnapshotCovers
  /\ value \in survivors /\ NoAckLost /\ OwnerIsCurrent

(* Only one process serves the device.                                     *)
LEMMA SoleServer ==
  ASSUME DeviceInv, NEW p \in Processes, NEW q \in Processes,
         phase[p] \in {"running", "failed"}, phase[q] \in {"running", "failed"}
  PROVE  p = q
  BY DEF DeviceInv, ServesLocked, LockInv, OneOwner

(* A step of the lock alone: processes that serve keep their guards.       *)
LEMMA LockStepInv ==
  ASSUME DeviceInv, LockInv',
         UNCHANGED <<file_vars, image, process_vars, acknowledged>>,
         \A p \in Processes : phase[p] \in {"running", "failed"} => guard'[p] = guard[p]
  PROVE  DeviceInv'
  BY DEF DeviceInv, DeviceTypeOK, ServesLocked, SnapshotCovers, NoAckLost, OwnerIsCurrent,
         file_vars, process_vars

LEMMA AcquireInv ==
  ASSUME DeviceInv, NEW p \in Processes, Acquire(p) PROVE DeviceInv'
<1>1. LockInv'
  BY OpenLockFileInv, TryLockInv DEF Acquire, DeviceInv
<1>2. \A q \in Processes : phase[q] \in {"running", "failed"} => guard'[q] = guard[q]
  BY DEF Acquire, OpenLockFile, TryLock, DeviceInv, LockInv, LockTypeOK
<1>. QED
  BY <1>1, <1>2, LockStepInv DEF Acquire

LEMMA SpawnInv ==
  ASSUME DeviceInv, NEW p \in Processes, NEW k \in Children, Spawn(p, k) PROVE DeviceInv'
<1>1. LockInv'
  BY ForkInv DEF Spawn, DeviceInv
<1>2. guard' = guard
  BY DEF Spawn, Fork
<1>. QED
  BY <1>1, <1>2, LockStepInv DEF Spawn

LEMMA ExecChildInv ==
  ASSUME DeviceInv, NEW k \in Children, ExecChild(k) PROVE DeviceInv'
<1>1. LockInv'
  BY ExecInv DEF ExecChild, DeviceInv
<1>2. guard' = guard
  BY DEF ExecChild, Exec
<1>. QED
  BY <1>1, <1>2, LockStepInv DEF ExecChild

(* A step that leaves the lock alone keeps its invariant.                  *)
LEMMA LockUnchanged == LockInv /\ UNCHANGED lock_vars => LockInv'
  BY DEF LockInv, LockTypeOK, OwnDescriptions, OpenDescriptions, OneOwner, lock_vars

LEMMA RestoreInv ==
  ASSUME DeviceInv, NEW p \in Processes, Restore(p) PROVE DeviceInv'
<1> USE DEF DeviceInv
<1>1. LockInv'
  BY LockUnchanged DEF Restore
<1>2. DeviceTypeOK'
  <2>1. image[value] \in SUBSET Mutations
    BY DeviceAssumption DEF DeviceTypeOK, DeviceAssumption
  <2>2. /\ phase' \in [Processes -> {"down", "running", "failed", "stopped"}]
        /\ mem' \in [Processes -> SUBSET Mutations] /\ snap' \in [Processes -> SUBSET Mutations]
    BY <2>1 DEF Restore, DeviceTypeOK
  <2>. QED
    BY <2>2 DEF Restore, DeviceTypeOK, file_vars
<1>3. ServesLocked'
  BY DEF Restore, ServesLocked, DeviceTypeOK, lock_vars
<1>4. SnapshotCovers'
  BY DEF Restore, SnapshotCovers, ServesLocked, DeviceTypeOK, file_vars
<1>5. (value \in survivors)' /\ NoAckLost'
  BY DEF Restore, NoAckLost, file_vars
<1>6. OwnerIsCurrent'
  BY DEF Restore, OwnerIsCurrent, NoAckLost, DeviceTypeOK
<1>. QED
  BY <1>1, <1>2, <1>3, <1>4, <1>5, <1>6

LEMMA MutateInv ==
  ASSUME DeviceInv, NEW p \in Processes, NEW m \in Mutations, Mutate(p, m) PROVE DeviceInv'
<1> USE DEF DeviceInv
<1>1. LockInv'
  BY LockUnchanged DEF Mutate
<1>2. DeviceTypeOK'
  <2>1. mem[p] \cup {m} \in SUBSET Mutations
    BY DEF DeviceTypeOK
  <2>2. mem' \in [Processes -> SUBSET Mutations]
    BY <2>1 DEF Mutate, DeviceTypeOK
  <2>. QED
    BY <2>2 DEF Mutate, DeviceTypeOK, file_vars
<1>3. ServesLocked'
  BY DEF Mutate, ServesLocked, lock_vars
<1>4. SnapshotCovers'
  BY DEF Mutate, SnapshotCovers, DeviceTypeOK, file_vars
<1>5. (value \in survivors)' /\ NoAckLost'
  BY DEF Mutate, NoAckLost, file_vars
<1>6. OwnerIsCurrent'
  BY DEF Mutate, OwnerIsCurrent, DeviceTypeOK
<1>. QED
  BY <1>1, <1>2, <1>3, <1>4, <1>5, <1>6

LEMMA TakeSnapshotInv ==
  ASSUME DeviceInv, NEW p \in Processes, TakeSnapshot(p) PROVE DeviceInv'
<1> USE DEF DeviceInv
<1>1. LockInv'
  BY LockUnchanged DEF TakeSnapshot
<1>2. DeviceTypeOK'
  BY DEF TakeSnapshot, DeviceTypeOK, file_vars
<1>3. ServesLocked'
  BY DEF TakeSnapshot, ServesLocked, DeviceTypeOK, lock_vars
<1>4. SnapshotCovers'
  BY DEF TakeSnapshot, SnapshotCovers, OwnerIsCurrent, DeviceTypeOK, file_vars
<1>5. (value \in survivors)' /\ NoAckLost'
  BY DEF TakeSnapshot, NoAckLost, file_vars
<1>6. OwnerIsCurrent'
  BY DEF TakeSnapshot, OwnerIsCurrent
<1>. QED
  BY <1>1, <1>2, <1>3, <1>4, <1>5, <1>6

(* The new image has every acknowledged mutation, because its snapshot     *)
(* has; no other process can have one under way.                           *)
LEMMA CommitSnapshotInv ==
  ASSUME DeviceInv, NEW p \in Processes, CommitSnapshot(p) PROVE DeviceInv'
<1> USE DEF DeviceInv
<1>1. /\ job[p] = "write" /\ commits < CommitBound
      /\ commits' = commits + 1 /\ value' = commits + 1
      /\ survivors' = survivors \cup {commits + 1} /\ acked' = acked
      /\ image' = [image EXCEPT ![commits + 1] = snap[p]]
      /\ job' = [job EXCEPT ![p] = "sync"]
      /\ UNCHANGED <<lock_vars, phase, mem, snap, acknowledged>>
  BY DEF CommitSnapshot, File!Commit
<1>2. /\ commits \in Nat /\ commits + 1 \in 0 .. CommitBound
      /\ \A n \in 0 .. commits : n \in 0 .. CommitBound /\ n # commits + 1
  BY <1>1, DeviceAssumption DEF DeviceTypeOK, DeviceAssumption
<1>3. image'[value'] = snap[p] /\ \A n \in 0 .. commits : image'[n] = image[n]
  BY <1>1, <1>2 DEF DeviceTypeOK
<1>4. LockInv'
  BY <1>1, LockUnchanged
<1>5. DeviceTypeOK'
  BY <1>1, <1>2, DeviceAssumption DEF DeviceTypeOK, DeviceAssumption
<1>6. ServesLocked'
  BY <1>1 DEF ServesLocked, DeviceTypeOK, lock_vars
<1>7. SnapshotCovers'
  <2>1. \A q \in Processes : job'[q] # "idle" => q = p
    BY <1>1, SoleServer DEF ServesLocked, DeviceTypeOK
  <2>. QED
    BY <1>1, <1>3, <2>1 DEF SnapshotCovers, DeviceTypeOK
<1>8. (value \in survivors)' /\ NoAckLost'
  <2>1. acknowledged \subseteq snap[p]
    BY <1>1 DEF SnapshotCovers
  <2>2. \A s \in survivors : image'[s] = image[s]
    BY <1>3 DEF DeviceTypeOK
  <2>3. ASSUME NEW s \in survivors' PROVE acknowledged \subseteq image'[s]
    BY <1>1, <1>3, <2>1, <2>2 DEF NoAckLost
  <2>. QED
    BY <1>1, <1>3, <2>1, <2>3 DEF NoAckLost
<1>9. OwnerIsCurrent'
  BY <1>1 DEF OwnerIsCurrent
<1>. QED
  BY <1>4, <1>5, <1>6, <1>7, <1>8, <1>9

(* What the receipts promise is in the image the sync made the only one,   *)
(* and in the memory of the only process that serves.                      *)
LEMMA SyncSnapshotInv ==
  ASSUME DeviceInv, NEW p \in Processes, SyncSnapshot(p) PROVE DeviceInv'
<1> USE DEF DeviceInv
<1>1. /\ job[p] = "sync"
      /\ survivors' = {value} /\ acked' = value /\ UNCHANGED <<commits, value>>
      /\ acknowledged' = acknowledged \cup snap[p]
      /\ job' = [job EXCEPT ![p] = "idle"]
      /\ UNCHANGED <<lock_vars, image, phase, mem, snap>>
  BY DEF SyncSnapshot, File!Sync
<1>2. LockInv'
  BY <1>1, LockUnchanged
<1>3. DeviceTypeOK'
  BY <1>1, DeviceAssumption DEF DeviceTypeOK, DeviceAssumption
<1>4. ServesLocked'
  BY <1>1 DEF ServesLocked, DeviceTypeOK, lock_vars
<1>5. phase[p] = "running" /\ snap[p] \subseteq mem[p] /\ image[value] = snap[p]
  BY <1>1 DEF ServesLocked, SnapshotCovers
<1>6. \A q \in Processes : phase[q] \in {"running", "failed"} => q = p
  BY <1>5, SoleServer
<1>7. SnapshotCovers'
  <2>1. \A q \in Processes : job'[q] = "idle"
    BY <1>1, <1>6 DEF ServesLocked, DeviceTypeOK
  <2>. QED
    BY <1>1, <2>1 DEF SnapshotCovers
<1>8. (value \in survivors)' /\ NoAckLost'
  BY <1>1, <1>5 DEF NoAckLost
<1>9. OwnerIsCurrent'
  BY <1>1, <1>5, <1>6 DEF OwnerIsCurrent
<1>. QED
  BY <1>2, <1>3, <1>4, <1>7, <1>8, <1>9

LEMMA FailWriteInv ==
  ASSUME DeviceInv, NEW p \in Processes, FailWrite(p) PROVE DeviceInv'
<1> USE DEF DeviceInv
<1>1. LockInv'
  BY LockUnchanged DEF FailWrite
<1>2. DeviceTypeOK'
  BY DEF FailWrite, DeviceTypeOK, file_vars
<1>3. ServesLocked'
  BY DEF FailWrite, ServesLocked, DeviceTypeOK, lock_vars
<1>4. SnapshotCovers'
  BY DEF FailWrite, SnapshotCovers, ServesLocked, DeviceTypeOK, file_vars
<1>5. (value \in survivors)' /\ NoAckLost'
  BY DEF FailWrite, NoAckLost, file_vars
<1>6. OwnerIsCurrent'
  BY DEF FailWrite, OwnerIsCurrent, ServesLocked, DeviceTypeOK
<1>. QED
  BY <1>1, <1>2, <1>3, <1>4, <1>5, <1>6

LEMMA ShutdownInv ==
  ASSUME DeviceInv, NEW p \in Processes, Shutdown(p) PROVE DeviceInv'
<1> USE DEF DeviceInv
<1>1. LockInv'
  BY LockUnchanged DEF Shutdown
<1>2. DeviceTypeOK'
  BY DEF Shutdown, DeviceTypeOK, file_vars
<1>3. ServesLocked'
  BY DEF Shutdown, ServesLocked, DeviceTypeOK, lock_vars
<1>4. SnapshotCovers'
  BY DEF Shutdown, SnapshotCovers, DeviceTypeOK, file_vars
<1>5. (value \in survivors)' /\ NoAckLost'
  BY DEF Shutdown, NoAckLost, file_vars
<1>6. OwnerIsCurrent'
  BY DEF Shutdown, OwnerIsCurrent, DeviceTypeOK
<1>. QED
  BY <1>1, <1>2, <1>3, <1>4, <1>5, <1>6

(* A step that takes a process, or all of them, out of service.            *)
LEMMA OutOfService ==
  ASSUME DeviceInv, LockInv', DeviceTypeOK',
         UNCHANGED <<value, survivors, image, mem, snap, acknowledged>>,
         \A q \in Processes : phase'[q] = "running" => job'[q] = job[q],
         \A q \in Processes : phase'[q] # "running" => job'[q] = "idle",
         \A q \in Processes : phase'[q] \in {"running", "failed"} =>
                                phase'[q] = phase[q] /\ guard'[q] = guard[q]
  PROVE  DeviceInv'
<1> USE DEF DeviceInv
<1>1. ServesLocked'
  BY DEF ServesLocked, DeviceTypeOK
<1>2. SnapshotCovers'
  BY <1>1 DEF SnapshotCovers, ServesLocked, DeviceTypeOK
<1>3. (value \in survivors)' /\ NoAckLost'
  BY DEF NoAckLost
<1>4. OwnerIsCurrent'
  BY DEF OwnerIsCurrent
<1>. QED
  BY <1>1, <1>2, <1>3, <1>4

LEMMA DropLockInv ==
  ASSUME DeviceInv, NEW p \in Processes, DropLock(p) PROVE DeviceInv'
<1> USE DEF DeviceInv
<1>1. LockInv'
  BY UnlockInv, CloseInv DEF DropLock, Close
<1>2. DeviceTypeOK'
  BY DEF DropLock, DeviceTypeOK, file_vars
<1>3. \A q \in Processes : phase'[q] \in {"running", "failed"} =>
                          phase'[q] = phase[q] /\ guard'[q] = guard[q]
  BY DEF DropLock, Unlock, Close, DeviceTypeOK, LockInv, LockTypeOK
<1>4. \A q \in Processes : phase'[q] # "running" => job'[q] = "idle"
  BY DEF DropLock, DeviceTypeOK, ServesLocked
<1>5. job' = job /\ UNCHANGED <<value, survivors, image, mem, snap, acknowledged>>
  BY DEF DropLock, file_vars
<1>. QED
  BY <1>1, <1>2, <1>3, <1>4, <1>5, OutOfService

LEMMA KillInv ==
  ASSUME DeviceInv, NEW p \in Processes, Kill(p) PROVE DeviceInv'
<1> USE DEF DeviceInv
<1>1. LockInv'
  BY KillOwnerInv DEF Kill
<1>2. DeviceTypeOK'
  BY DEF Kill, DeviceTypeOK, file_vars
<1>3. \A q \in Processes : phase'[q] \in {"running", "failed"} =>
                          phase'[q] = phase[q] /\ guard'[q] = guard[q] /\ job'[q] = job[q]
  BY DEF Kill, KillOwner, DeviceTypeOK, LockInv, LockTypeOK
<1>4. \A q \in Processes : phase'[q] # "running" => job'[q] = "idle"
  BY DEF Kill, DeviceTypeOK, ServesLocked
<1>5. UNCHANGED <<value, survivors, image, mem, snap, acknowledged>>
  BY DEF Kill, file_vars
<1>. QED
  BY <1>1, <1>2, <1>3, <1>4, <1>5, OutOfService

(* Whatever survivor the power failure leaves has what was acknowledged.   *)
LEMMA PowerFailureInv ==
  ASSUME DeviceInv, PowerFailure PROVE DeviceInv'
<1> USE DEF DeviceInv
<1>1. /\ value' \in survivors /\ survivors' = {value'} /\ UNCHANGED <<commits, acked>>
      /\ phase' = [p \in Processes |-> "down"] /\ job' = [p \in Processes |-> "idle"]
      /\ UNCHANGED <<image, mem, snap, acknowledged>>
  BY DEF PowerFailure, File!PowerFailure
<1>2. LockInv'
  BY RebootInv DEF PowerFailure
<1>3. DeviceTypeOK'
  BY <1>1 DEF DeviceTypeOK
<1>4. ServesLocked' /\ SnapshotCovers' /\ OwnerIsCurrent'
  BY <1>1 DEF ServesLocked, SnapshotCovers, OwnerIsCurrent
<1>5. (value \in survivors)' /\ NoAckLost'
  BY <1>1 DEF NoAckLost
<1>. QED
  BY <1>2, <1>3, <1>4, <1>5

LEMMA DeviceInitInv == Init => DeviceInv
<1> SUFFICES ASSUME Init PROVE DeviceInv
  OBVIOUS
<1>1. LockInv
  BY LockInitInv DEF Init
<1>2. DeviceTypeOK
  BY DeviceAssumption DEF Init, File!Init, DeviceTypeOK, DeviceAssumption
<1>3. ServesLocked /\ SnapshotCovers /\ OwnerIsCurrent
  BY DEF Init, ServesLocked, SnapshotCovers, OwnerIsCurrent
<1>4. value \in survivors /\ NoAckLost
  BY DEF Init, File!Init, NoAckLost
<1>. QED
  BY <1>1, <1>2, <1>3, <1>4 DEF DeviceInv

LEMMA DeviceStepInv == DeviceInv /\ [Next]_vars => DeviceInv'
<1> SUFFICES ASSUME DeviceInv, [Next]_vars PROVE DeviceInv'
  OBVIOUS
<1>1. ASSUME NEW p \in Processes, ProcessStep(p) PROVE DeviceInv'
  BY <1>1, AcquireInv, RestoreInv, MutateInv, TakeSnapshotInv, CommitSnapshotInv,
     SyncSnapshotInv, FailWriteInv, ShutdownInv, DropLockInv, KillInv, SpawnInv
  DEF ProcessStep
<1>2. ASSUME NEW k \in Children, ExecChild(k) PROVE DeviceInv'
  BY <1>2, ExecChildInv
<1>3. CASE PowerFailure
  BY <1>3, PowerFailureInv
<1>4. CASE UNCHANGED vars
  <2>1. LockInv'
    BY <1>4, LockUnchanged DEF vars, DeviceInv
  <2>2. guard' = guard /\ UNCHANGED <<file_vars, image, process_vars, acknowledged>>
    BY <1>4 DEF vars, lock_vars
  <2>. QED
    BY <2>1, <2>2, LockStepInv
<1>. QED
  BY <1>1, <1>2, <1>3, <1>4 DEF Next

LEMMA DeviceInvariant == Spec => []DeviceInv
  BY DeviceInitInv, DeviceStepInv, PTL DEF Spec

(* LockExcludes: at most one process holds the device's StateLock, backed  *)
(* by the kernel's, and nothing but a live guard or the descriptors that   *)
(* outlive a killed owner keeps the device locked, whatever processes and  *)
(* children do and in whatever order (StateLock::acquire, Drop).           *)
THEOREM LockExcludes == Spec => []OneOwner
<1>1. DeviceInv => OneOwner
  BY DEF DeviceInv, LockInv
<1>. QED
  BY <1>1, DeviceInvariant, PTL

(* DeviceDurability: a mutation whose receipt or flush returned Ok is in   *)
(* the state file and in whatever a power failure may leave of it, for     *)
(* ever, whichever processes own the device one after another.             *)
THEOREM DeviceDurability == Spec => []NoAckLost
<1>1. DeviceInv => NoAckLost
  BY DEF DeviceInv
<1>. QED
  BY <1>1, DeviceInvariant, PTL

(* OwnersAreCurrent: a process that serves the device has every            *)
(* acknowledged mutation in memory, those of earlier owners included.      *)
THEOREM OwnersAreCurrent == Spec => []OwnerIsCurrent
<1>1. DeviceInv => OwnerIsCurrent
  BY DEF DeviceInv
<1>. QED
  BY <1>1, DeviceInvariant, PTL
=============================================================================
