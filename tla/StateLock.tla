------------------------------ MODULE StateLock ------------------------------
(***************************************************************************)
(* StateLock of src/src/state_persistence.rs over flock(2).                *)
(*                                                                         *)
(* The kernel attaches the lock to an open file description, which lives   *)
(* as long as any descriptor for it: the guard's own, and those that       *)
(* children inherited between fork and exec.  The lock file is never       *)
(* removed, so every open reaches the same file.                           *)
(***************************************************************************)
EXTENDS Integers

CONSTANTS
  Processes,     \* processes that want to own the device
  Children,      \* subprocesses some thread of theirs may fork
  Descriptions   \* open file descriptions: as many as can be open at once

ASSUME HoldersAssumption == Processes \cap Children = {}

None == 0
ASSUME DescriptionsAssumption == Descriptions \subseteq Nat \ {None}

VARIABLES
  flock,      \* the description that holds the kernel lock, or None
  refs,       \* for each description, the processes with a descriptor for it
  guard,      \* where each process is in the life of its StateLock
  file,       \* the description behind it
  orphaned    \* history: descriptions whose owner was killed, not dropped

lock_vars == <<flock, refs, guard, file, orphaned>>

LockInit ==
  /\ flock = None
  /\ refs = [d \in Descriptions |-> {}]
  /\ guard = [p \in Processes |-> "none"]
  /\ file = [p \in Processes |-> None]
  /\ orphaned = {}

-----------------------------------------------------------------------------
(* The kernel closes every descriptor of the process; the lock goes with   *)
(* the last descriptor of its description.                                 *)
CloseAll(h) ==
  /\ refs' = [d \in Descriptions |-> refs[d] \ {h}]
  /\ flock' = IF flock # None /\ refs'[flock] = {} THEN None ELSE flock
  /\ orphaned' = {d \in orphaned : refs'[d] # {}}

(* acquire: open the lock file, creating it if needed ...                  *)
OpenLockFile(p) ==
  /\ guard[p] = "none"
  /\ \E d \in Descriptions :
       /\ refs[d] = {}
       /\ refs' = [refs EXCEPT ![d] = {p}]
       /\ file' = [file EXCEPT ![p] = d]
  /\ guard' = [guard EXCEPT ![p] = "opened"]
  /\ UNCHANGED <<flock, orphaned>>

(* ... and take the lock without waiting, or close the file: WouldBlock.   *)
TryLock(p) ==
  /\ guard[p] = "opened"
  /\ \/ /\ flock = None
        /\ flock' = file[p]
        /\ guard' = [guard EXCEPT ![p] = "held"]
        /\ UNCHANGED <<refs, file, orphaned>>
     \/ /\ flock # None
        /\ guard' = [guard EXCEPT ![p] = "none"]
        /\ file' = [file EXCEPT ![p] = None]
        /\ CloseAll(p)

(* Mutant of Unlock: Drop leaves the release to the close.                 *)
NoUnlock(p) ==
  /\ guard[p] = "held"
  /\ guard' = [guard EXCEPT ![p] = "unlocked"]
  /\ UNCHANGED <<flock, refs, file, orphaned>>

(* Drop: LOCK_UN through the guard's descriptor, repeated while a signal   *)
(* interrupts it ...                                                       *)
Unlock(p) ==
  /\ guard[p] = "held"
  /\ guard' = [guard EXCEPT ![p] = "unlocked"]
  /\ flock' = IF flock = file[p] THEN None ELSE flock
  /\ UNCHANGED <<refs, file, orphaned>>

(* ... then File closes the descriptor.                                    *)
Close(p) ==
  /\ guard[p] = "unlocked"
  /\ guard' = [guard EXCEPT ![p] = "none"]
  /\ file' = [file EXCEPT ![p] = None]
  /\ CloseAll(p)

(* Another thread of p forks: the child has a copy of every descriptor ... *)
Fork(p, k) ==
  /\ guard[p] # "none"
  /\ \A d \in Descriptions : k \notin refs[d]
  /\ refs' = [refs EXCEPT ![file[p]] = @ \cup {k}]
  /\ UNCHANGED <<flock, guard, file, orphaned>>

(* ... until its exec closes the close-on-exec descriptors.                *)
Exec(k) ==
  /\ \E d \in Descriptions : k \in refs[d]
  /\ CloseAll(k)
  /\ UNCHANGED <<guard, file>>

(* The process dies without running Drop.                                  *)
KillOwner(p) ==
  /\ guard[p] # "none"
  /\ guard' = [guard EXCEPT ![p] = "none"]
  /\ file' = [file EXCEPT ![p] = None]
  /\ refs' = [d \in Descriptions |-> refs[d] \ {p}]
  /\ flock' = IF flock # None /\ refs'[flock] = {} THEN None ELSE flock
  /\ orphaned' = {d \in orphaned \cup {file[p]} : refs'[d] # {}}

(* Power fails: no process and no kernel state remains.                    *)
Reboot ==
  /\ flock' = None
  /\ refs' = [d \in Descriptions |-> {}]
  /\ guard' = [p \in Processes |-> "none"]
  /\ file' = [p \in Processes |-> None]
  /\ orphaned' = {}

-----------------------------------------------------------------------------
(* OneOwner: two processes never hold the StateLock of a device together,  *)
(* and a guard that is alive is backed by the kernel lock, whatever the    *)
(* children that inherited the descriptor do with it; and the kernel lock  *)
(* is held only by a live guard, or by the descriptors that outlive a      *)
(* killed owner: an inherited descriptor never extends the ownership of a  *)
(* guard that was dropped (StateLock::acquire, Drop).                      *)
OneOwner ==
  /\ \A p, q \in Processes : guard[p] = "held" /\ guard[q] = "held" => p = q
  /\ \A p \in Processes : guard[p] = "held" => flock = file[p]
  /\ flock # None =>
       \/ \E p \in Processes : guard[p] = "held" /\ file[p] = flock
       \/ flock \in orphaned
=============================================================================
