-------------------------- MODULE PersistentDevice --------------------------
(***************************************************************************)
(* The persistent device as the three parts of state_persistence.rs make   *)
(* it together: a process acquires the StateLock, restores the state file, *)
(* runs the persistence coordinator, shuts it down and drops the lock;     *)
(* other processes do the same; children inherit descriptors; processes    *)
(* are killed and power fails at any moment.                               *)
(*                                                                         *)
(* The lock is StateLock.  The state file is an AtomicFile, which          *)
(* ReplaceFile implements.  The coordinator is reduced to what             *)
(* StatePersistence guarantees: snapshots taken one at a time, Ok only     *)
(* after the write of a snapshot that covers the mutation, no write after  *)
(* a failure, and a shutdown that leaves nothing recorded unwritten.       *)
(***************************************************************************)
EXTENDS StateLock

CONSTANTS
  Mutations,    \* the mutations that clients may ever ask for
  CommitBound,  \* bound on the writes of the state file
  PowerBound    \* bound on the power failures

ASSUME DeviceAssumption == CommitBound \in Nat /\ PowerBound \in Nat

VARIABLES
  commits, value, survivors, acked,  \* the state file, see AtomicFile
  image,         \* the state each commit holds: a set of mutations
  phase,         \* each process: down, running, failed or stopped
  mem,           \* the state in memory
  job, snap,     \* the worker: what it is doing, with which snapshot
  acknowledged,  \* mutations whose receipt or flush returned Ok
  powered        \* power failures so far

file_vars == <<commits, value, survivors, acked>>
process_vars == <<phase, mem, job, snap>>
vars == <<lock_vars, file_vars, image, process_vars, acknowledged, powered>>

File == INSTANCE AtomicFile

Init ==
  /\ LockInit /\ File!Init
  /\ image = [n \in 0 .. CommitBound |-> {}]
  /\ phase = [p \in Processes |-> "down"]
  /\ mem = [p \in Processes |-> {}] /\ snap = [p \in Processes |-> {}]
  /\ job = [p \in Processes |-> "idle"]
  /\ acknowledged = {}
  /\ powered = 0

-----------------------------------------------------------------------------
(* The owner keeps the guard from before the restoration until after the   *)
(* final flush.                                                            *)
Acquire(p) ==
  /\ phase[p] = "down"
  /\ OpenLockFile(p) \/ TryLock(p)
  /\ UNCHANGED <<file_vars, image, process_vars, acknowledged, powered>>

(* Mutant of Restore: the state is restored before the lock is taken.      *)
RestoreUnlocked(p) ==
  /\ phase[p] = "down"
  /\ phase' = [phase EXCEPT ![p] = "running"]
  /\ mem' = [mem EXCEPT ![p] = image[value]]
  /\ snap' = [snap EXCEPT ![p] = image[value]]
  /\ UNCHANGED <<lock_vars, file_vars, image, job, acknowledged, powered>>

Restore(p) ==
  /\ phase[p] = "down" /\ guard[p] = "held"
  /\ phase' = [phase EXCEPT ![p] = "running"]
  /\ mem' = [mem EXCEPT ![p] = image[value]]
  /\ snap' = [snap EXCEPT ![p] = image[value]]
  /\ UNCHANGED <<lock_vars, file_vars, image, job, acknowledged, powered>>

Mutate(p, m) ==
  /\ phase[p] = "running" /\ m \notin mem[p]
  /\ mem' = [mem EXCEPT ![p] = @ \cup {m}]
  /\ UNCHANGED <<lock_vars, file_vars, image, phase, job, snap, acknowledged, powered>>

TakeSnapshot(p) ==
  /\ phase[p] = "running" /\ job[p] = "idle" /\ mem[p] # snap[p]
  /\ commits < CommitBound
  /\ job' = [job EXCEPT ![p] = "write"]
  /\ snap' = [snap EXCEPT ![p] = mem[p]]
  /\ UNCHANGED <<lock_vars, file_vars, image, phase, mem, acknowledged, powered>>

CommitSnapshot(p) ==
  /\ job[p] = "write" /\ commits < CommitBound
  /\ File!Commit
  /\ image' = [image EXCEPT ![commits + 1] = snap[p]]
  /\ job' = [job EXCEPT ![p] = "sync"]
  /\ UNCHANGED <<lock_vars, phase, mem, snap, acknowledged, powered>>

(* Mutant of SyncSnapshot: Ok without a sync.                              *)
AckUnsynced(p) ==
  /\ job[p] = "sync"
  /\ acknowledged' = acknowledged \cup snap[p]
  /\ job' = [job EXCEPT ![p] = "idle"]
  /\ UNCHANGED <<lock_vars, file_vars, image, phase, mem, snap, powered>>

SyncSnapshot(p) ==
  /\ job[p] = "sync"
  /\ File!Sync /\ acked' = value
  /\ acknowledged' = acknowledged \cup snap[p]
  /\ job' = [job EXCEPT ![p] = "idle"]
  /\ UNCHANGED <<lock_vars, image, phase, mem, snap, powered>>

(* A write fails before or after its rename; the coordinator stops.        *)
FailWrite(p) ==
  /\ job[p] # "idle"
  /\ job' = [job EXCEPT ![p] = "idle"]
  /\ phase' = [phase EXCEPT ![p] = "failed"]
  /\ UNCHANGED <<lock_vars, file_vars, image, mem, snap, acknowledged, powered>>

Shutdown(p) ==
  /\ \/ phase[p] = "running" /\ job[p] = "idle" /\ mem[p] = snap[p]
     \/ phase[p] = "failed"
  /\ phase' = [phase EXCEPT ![p] = "stopped"]
  /\ UNCHANGED <<lock_vars, file_vars, image, mem, job, snap, acknowledged, powered>>

DropLock(p) ==
  /\ \/ phase[p] = "stopped" /\ Unlock(p) /\ UNCHANGED phase
     \/ phase[p] = "stopped" /\ Close(p) /\ phase' = [phase EXCEPT ![p] = "down"]
  /\ UNCHANGED <<file_vars, image, mem, job, snap, acknowledged, powered>>

Spawn(p, k) ==
  /\ Fork(p, k)
  /\ UNCHANGED <<file_vars, image, process_vars, acknowledged, powered>>

ExecChild(k) ==
  /\ Exec(k)
  /\ UNCHANGED <<file_vars, image, process_vars, acknowledged, powered>>

Kill(p) ==
  /\ KillOwner(p)
  /\ phase' = [phase EXCEPT ![p] = "down"] /\ job' = [job EXCEPT ![p] = "idle"]
  /\ UNCHANGED <<file_vars, image, mem, snap, acknowledged, powered>>

PowerFailure ==
  /\ powered < PowerBound /\ powered' = powered + 1
  /\ Reboot /\ File!PowerFailure
  /\ phase' = [p \in Processes |-> "down"] /\ job' = [p \in Processes |-> "idle"]
  /\ UNCHANGED <<image, mem, snap, acknowledged>>

ProcessStep(p) ==
  \/ Acquire(p) \/ Restore(p) \/ \E m \in Mutations : Mutate(p, m)
  \/ TakeSnapshot(p) \/ CommitSnapshot(p) \/ SyncSnapshot(p) \/ FailWrite(p)
  \/ Shutdown(p) \/ DropLock(p) \/ Kill(p)
  \/ \E k \in Children : Spawn(p, k)

Next ==
  \/ \E p \in Processes : ProcessStep(p)
  \/ \E k \in Children : ExecChild(k)
  \/ PowerFailure

Spec == Init /\ [][Next]_vars

-----------------------------------------------------------------------------
(* NoAckLost: a mutation reported durable is in the state file, and in     *)
(* every version of it that a power failure could bring back, across       *)
(* restarts, failed writes and changes of the owning process.              *)
NoAckLost ==
  /\ acknowledged \subseteq image[value]
  /\ \A s \in survivors : acknowledged \subseteq image[s]

(* OwnerIsCurrent: the process that serves the device has every            *)
(* acknowledged mutation in memory: it restored no stale image.            *)
OwnerIsCurrent ==
  \A p \in Processes : phase[p] \in {"running", "failed"} => acknowledged \subseteq mem[p]
=============================================================================
