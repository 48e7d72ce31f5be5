-------------------------- MODULE StatePersistence --------------------------
(***************************************************************************)
(* The background persistence coordinator of src/src/state_persistence.rs. *)
(*                                                                         *)
(* One worker thread (run_persistence) writes snapshots of a mutex         *)
(* protected state; client threads mutate the state, record the mutation   *)
(* and wait on receipts or flushes; the owner of the StatePersistence      *)
(* value stops and joins the worker.  Every critical section of the        *)
(* schedule mutex is one action: nothing blocks inside it except the       *)
(* condition variable, which releases it.  The state mutex is held across  *)
(* several actions, so its holders are visible in the program counters.    *)
(*                                                                         *)
(* Time is relative: an Instant is the number of ticks left until it.      *)
(***************************************************************************)
EXTENDS Integers

CONSTANTS
  Clients,           \* threads that hold a StatePersistenceHandle
  Modes,             \* the persistence modes to choose from
  Delay,             \* the batching delay, in ticks
  EpochLimit,        \* u64::MAX of the code: the last mutation epoch
  MutationBound,     \* bound on the mutations the clients apply
  AgeBound,          \* from here on the history variable age stays as it is
  CallbacksMayPanic  \* whether encode and write may panic

(* PersistenceMode::validate refuses a zero batching delay. *)
ASSUME ConstantsAssumption ==
  /\ Modes \subseteq {"Batched", "Immediate"}
  /\ Delay \in Nat \ {0}
  /\ EpochLimit \in Nat
  /\ MutationBound \in Nat
  /\ AgeBound \in Nat /\ AgeBound >= Delay
  /\ CallbacksMayPanic \in BOOLEAN

None == -1           \* Option::None for deadlines and timeouts

VARIABLES
  \* Scheduling and ScheduleState, guarded by the schedule mutex
  mode, mutation_epoch, persisted_epoch, deadline, force, stopping, failure,
  \* T, guarded by the state mutex: version counts the applied mutations,
  \* partial is TRUE while one of them is half done
  state,
  \* the worker thread: program counter, its wait_timeout, its locals
  worker, timeout, snapshot_epoch, encoded,
  \* what the writer has made durable
  written,
  \* the thread that owns the StatePersistence value
  owner,
  \* the clients: program counter, epoch awaited, result of the last call
  pc, target, outcome,
  \* history: version at the last record_mutation, at request_stop, at the
  \* call a client waits for; ticks since the oldest mutation that no
  \* snapshot covers
  recorded, at_stop, promised, age

schedule == <<mode, mutation_epoch, persisted_epoch, deadline, force, stopping, failure>>
thread == <<worker, timeout, snapshot_epoch, encoded, written>>
client == <<pc, target, outcome, promised>>
history == <<recorded, at_stop, age>>
vars == <<schedule, state, thread, owner, client, history>>

Image == [version : Nat, partial : BOOLEAN]
ClientPc == {"idle", "locked", "mutating", "mutated", "recorded", "receipt",
             "waiting", "parked"}
WorkerPc == {"check", "parked", "snapshot", "encode", "write", "publish",
             "fail", "on_failure", "exited", "exited_err", "panicked"}

TypeOK ==
  /\ mode \in {"Batched", "Immediate"}
  /\ mutation_epoch \in Nat /\ persisted_epoch \in Nat
  /\ deadline \in -1 .. Delay /\ timeout \in -1 .. Delay /\ age \in -1 .. AgeBound
  /\ force \in BOOLEAN /\ stopping \in BOOLEAN /\ failure \in BOOLEAN
  /\ state \in Image /\ encoded \in Image /\ written \in Image
  /\ worker \in WorkerPc /\ snapshot_epoch \in Nat
  /\ owner \in {"running", "joining", "ok", "err"}
  /\ pc \in [Clients -> ClientPc]
  /\ target \in [Clients -> Nat] /\ promised \in [Clients -> Nat]
  /\ outcome \in [Clients -> {"none", "accepted", "durable", "error"}]
  /\ recorded \in Nat /\ at_stop \in Nat

Init ==
  /\ mode \in Modes
  /\ mutation_epoch = 0 /\ persisted_epoch = 0
  /\ deadline = None /\ timeout = None /\ age = None
  /\ force = FALSE /\ stopping = FALSE /\ failure = FALSE
  /\ state = [version |-> 0, partial |-> FALSE]
  /\ encoded = state /\ written = state
  /\ worker = "check" /\ snapshot_epoch = 0
  /\ owner = "running"
  /\ pc = [c \in Clients |-> "idle"]
  /\ target = [c \in Clients |-> 0] /\ promised = [c \in Clients |-> 0]
  /\ outcome = [c \in Clients |-> "none"]
  /\ recorded = 0 /\ at_stop = 0

-----------------------------------------------------------------------------
(* The state mutex and the condition variable.                             *)

HoldsState(c) == pc[c] \in {"locked", "mutating", "mutated", "recorded"}
StateFree == worker # "encode" /\ \A c \in Clients : ~HoldsState(c)

(* Mutant of NotifyAll: notify_one wakes any one of the parked threads.    *)
NotifyOne(clients, thread_pc) ==
  \/ /\ \E c \in Clients : /\ clients[c] = "parked"
                           /\ pc' = [clients EXCEPT ![c] = "waiting"]
     /\ worker' = thread_pc /\ UNCHANGED timeout
  \/ /\ thread_pc = "parked"
     /\ pc' = clients /\ worker' = "check" /\ timeout' = None
  \/ /\ thread_pc # "parked" /\ \A c \in Clients : clients[c] # "parked"
     /\ pc' = clients /\ worker' = thread_pc /\ UNCHANGED timeout

(* Condvar::notify_all wakes every parked thread; each rechecks its own    *)
(* condition.  clients is the program counter the caller leaves behind.    *)
NotifyAll(clients, thread_pc) ==
  /\ pc' = [c \in Clients |-> IF clients[c] = "parked" THEN "waiting" ELSE clients[c]]
  /\ worker' = IF thread_pc = "parked" THEN "check" ELSE thread_pc
  /\ timeout' = IF thread_pc = "parked" THEN None ELSE timeout

Pending == mutation_epoch # persisted_epoch

(* Mutant of check_failure: a stored error refuses nothing.                *)
IgnoreFailure == TRUE

(* Every call, and every iteration of the worker, asks for the stored      *)
(* error first.                                                            *)
check_failure == ~failure

(* Mutants of ArmDeadline: every mutation moves the deadline; the delays   *)
(* of all mutations add up.                                                *)
MoveDeadline == IF mode = "Batched" THEN Delay ELSE deadline
AddDelay == IF mode = "Batched" THEN deadline + Delay ELSE deadline

(* The first mutation of a batch sets the deadline, the others keep it.    *)
ArmDeadline == IF mode = "Batched" /\ deadline = None THEN Delay ELSE deadline

-----------------------------------------------------------------------------
(* Clients.                                                                *)

(* A mutation: lock the state mutex, update the state in several stores.   *)
LockState(c) ==
  /\ pc[c] = "idle" /\ StateFree
  /\ state.version < MutationBound
  /\ pc' = [pc EXCEPT ![c] = "locked"]
  /\ UNCHANGED <<schedule, state, thread, owner, target, outcome, promised, history>>

BeginMutation(c) ==
  /\ pc[c] = "locked"
  /\ pc' = [pc EXCEPT ![c] = "mutating"]
  /\ state' = [state EXCEPT !.partial = TRUE]
  /\ UNCHANGED <<schedule, thread, owner, target, outcome, promised, history>>

EndMutation(c) ==
  /\ pc[c] = "mutating"
  /\ pc' = [pc EXCEPT ![c] = "mutated"]
  /\ state' = [version |-> state.version + 1, partial |-> FALSE]
  /\ UNCHANGED <<schedule, thread, owner, target, outcome, promised, history>>

(* record_mutation: refused after a failure and when the epoch counter is  *)
(* exhausted; the mutation itself stays in memory.                         *)
RecordMutation(c) ==
  /\ pc[c] = "mutated"
  /\ check_failure /\ mutation_epoch < EpochLimit
  /\ mutation_epoch' = mutation_epoch + 1
  /\ deadline' = ArmDeadline
  /\ force' = (force \/ mode = "Immediate")
  /\ NotifyAll([pc EXCEPT ![c] = "recorded"], worker)
  /\ target' = [target EXCEPT ![c] = mutation_epoch + 1]
  /\ promised' = [promised EXCEPT ![c] = state.version]
  /\ outcome' = [outcome EXCEPT ![c] = "none"]
  /\ recorded' = state.version
  /\ age' = IF mode = "Batched" /\ age = None THEN 0 ELSE age
  /\ UNCHANGED <<mode, persisted_epoch, stopping, failure, state,
                 snapshot_epoch, encoded, written, owner, at_stop>>

RefuseMutation(c) ==
  /\ pc[c] = "mutated"
  /\ ~check_failure \/ mutation_epoch = EpochLimit
  /\ pc' = [pc EXCEPT ![c] = "idle"]
  /\ outcome' = [outcome EXCEPT ![c] = "error"]
  /\ UNCHANGED <<schedule, state, thread, owner, target, promised, history>>

(* The guard is dropped before the receipt is used, as record_mutation     *)
(* asks; the receipt may also be dropped unused.                           *)
UnlockState(c) ==
  /\ pc[c] = "recorded"
  /\ pc' = [pc EXCEPT ![c] = "receipt"]
  /\ UNCHANGED <<schedule, state, thread, owner, target, outcome, promised, history>>

DropReceipt(c) ==
  /\ pc[c] = "receipt"
  /\ pc' = [pc EXCEPT ![c] = "idle"]
  /\ UNCHANGED <<schedule, state, thread, owner, target, outcome, promised, history>>

(* MutationReceipt::wait: immediate receipts wait for their epoch, batched *)
(* ones only report the health of the worker.                              *)
WaitReceipt(c) ==
  /\ pc[c] = "receipt"
  /\ \/ /\ mode = "Immediate"
        /\ pc' = [pc EXCEPT ![c] = "waiting"]
        /\ UNCHANGED outcome
     \/ /\ mode = "Batched"
        /\ pc' = [pc EXCEPT ![c] = "idle"]
        /\ outcome' = [outcome EXCEPT ![c] = IF check_failure THEN "accepted" ELSE "error"]
  /\ UNCHANGED <<schedule, state, thread, owner, target, promised, history>>

(* flush, up to its call of wait_for_epoch.                                *)
Flush(c) ==
  /\ pc[c] = "idle"
  /\ target' = [target EXCEPT ![c] = mutation_epoch]
  /\ promised' = [promised EXCEPT ![c] = recorded]
  /\ \/ /\ ~check_failure
        /\ outcome' = [outcome EXCEPT ![c] = "error"]
        /\ UNCHANGED <<force, pc, worker, timeout>>
     \/ /\ check_failure /\ persisted_epoch >= mutation_epoch
        /\ outcome' = [outcome EXCEPT ![c] = "durable"]
        /\ UNCHANGED <<force, pc, worker, timeout>>
     \/ /\ check_failure /\ persisted_epoch < mutation_epoch
        /\ force' = TRUE
        /\ outcome' = [outcome EXCEPT ![c] = "none"]
        /\ NotifyAll([pc EXCEPT ![c] = "waiting"], worker)
  /\ UNCHANGED <<mode, mutation_epoch, persisted_epoch, deadline, stopping, failure,
                 state, snapshot_epoch, encoded, written, owner, history>>

(* One iteration of wait_for_epoch; the epoch is tested before the failure. *)
WaitForEpoch(c) ==
  /\ pc[c] = "waiting"
  /\ \/ /\ persisted_epoch >= target[c]
        /\ pc' = [pc EXCEPT ![c] = "idle"]
        /\ outcome' = [outcome EXCEPT ![c] = "durable"]
     \/ /\ persisted_epoch < target[c] /\ ~check_failure
        /\ pc' = [pc EXCEPT ![c] = "idle"]
        /\ outcome' = [outcome EXCEPT ![c] = "error"]
     \/ /\ persisted_epoch < target[c] /\ check_failure
        /\ pc' = [pc EXCEPT ![c] = "parked"]
        /\ UNCHANGED outcome
  /\ UNCHANGED <<schedule, state, thread, owner, target, promised, history>>

(* Condvar::wait may return without a notification.                        *)
SpuriousClientWakeup(c) ==
  /\ pc[c] = "parked"
  /\ pc' = [pc EXCEPT ![c] = "waiting"]
  /\ UNCHANGED <<schedule, state, thread, owner, target, outcome, promised, history>>

-----------------------------------------------------------------------------
(* The worker: wait_until_due, one iteration per action.  The iteration    *)
(* whose check_failure fails is left out: only the worker stores an error, *)
(* after its last iteration (FailureIsLast of StatePersistenceProofs).     *)

DueNow == force \/ stopping \/ deadline = 0

(* Mutant of ExitWhenStopped: stopping wins over pending mutations.        *)
ExitAtOnce ==
  /\ worker = "check" /\ check_failure /\ stopping
  /\ worker' = "exited"
  /\ UNCHANGED <<schedule, state, timeout, snapshot_epoch, encoded, written, owner,
                 client, history>>

ExitWhenStopped ==
  /\ worker = "check" /\ check_failure /\ ~Pending /\ stopping
  /\ worker' = "exited"
  /\ UNCHANGED <<schedule, state, timeout, snapshot_epoch, encoded, written, owner,
                 client, history>>

ParkIdle ==
  /\ worker = "check" /\ check_failure /\ ~Pending /\ ~stopping
  /\ force' = FALSE /\ deadline' = None
  /\ worker' = "parked" /\ timeout' = None
  /\ UNCHANGED <<mode, mutation_epoch, persisted_epoch, stopping, failure, state,
                 snapshot_epoch, encoded, written, owner, client, history>>

ReturnDue ==
  /\ worker = "check" /\ check_failure /\ Pending /\ DueNow
  /\ force' = FALSE /\ deadline' = None
  /\ worker' = "snapshot"
  /\ UNCHANGED <<mode, mutation_epoch, persisted_epoch, stopping, failure, state,
                 timeout, snapshot_epoch, encoded, written, owner, client, history>>

ParkUntilDeadline ==
  /\ worker = "check" /\ check_failure /\ Pending /\ ~DueNow
  /\ worker' = "parked" /\ timeout' = deadline
  /\ UNCHANGED <<schedule, state, snapshot_epoch, encoded, written, owner, client,
                 history>>

(* wait_timeout expires, or the wait ends spuriously.                      *)
WakeWorker ==
  /\ worker = "parked" /\ timeout = 0
  /\ worker' = "check" /\ timeout' = None
  /\ UNCHANGED <<schedule, state, snapshot_epoch, encoded, written, owner, client,
                 history>>

SpuriousWorkerWakeup ==
  /\ worker = "parked" /\ timeout # 0
  /\ worker' = "check" /\ timeout' = None
  /\ UNCHANGED <<schedule, state, snapshot_epoch, encoded, written, owner, client,
                 history>>

(* The worker: the body of run_persistence.                                *)

(* Mutant of ReadEpoch: the snapshot is taken without the state mutex.     *)
ReadEpochUnlocked ==
  /\ worker = "snapshot"
  /\ worker' = "encode" /\ snapshot_epoch' = mutation_epoch
  /\ age' = None
  /\ UNCHANGED <<schedule, state, timeout, encoded, written, owner, client,
                 recorded, at_stop>>

(* Lock the state and read the epoch the snapshot will cover.              *)
ReadEpoch ==
  /\ worker = "snapshot" /\ StateFree
  /\ worker' = "encode" /\ snapshot_epoch' = mutation_epoch
  /\ age' = None
  /\ UNCHANGED <<schedule, state, timeout, encoded, written, owner, client,
                 recorded, at_stop>>

(* encode under the state guard, which is released when encode returns,    *)
(* fails or unwinds (lock() ignores poisoning).                            *)
Encode ==
  /\ worker = "encode"
  /\ \/ worker' = "write" /\ encoded' = state
     \/ worker' = "fail" /\ UNCHANGED encoded
     \/ CallbacksMayPanic /\ worker' = "panicked" /\ UNCHANGED encoded
  /\ UNCHANGED <<schedule, state, timeout, snapshot_epoch, written, owner, client,
                 history>>

(* Mutant of Write: the result of the writer is ignored.                   *)
WriteUnchecked ==
  /\ worker = "write"
  /\ worker' = "publish" /\ written' \in {written, encoded}
  /\ UNCHANGED <<schedule, state, timeout, snapshot_epoch, encoded, owner, client,
                 history>>

(* write: on failure the image may or may not have become durable.         *)
Write ==
  /\ worker = "write"
  /\ \/ worker' = "publish" /\ written' = encoded
     \/ worker' = "fail" /\ written' \in {written, encoded}
     \/ CallbacksMayPanic /\ worker' = "panicked" /\ written' \in {written, encoded}
  /\ UNCHANGED <<schedule, state, timeout, snapshot_epoch, encoded, owner, client,
                 history>>

(* Publish the persisted epoch and schedule what arrived meanwhile.        *)
Publish ==
  /\ worker = "publish"
  /\ persisted_epoch' = snapshot_epoch
  /\ deadline' = IF mutation_epoch = snapshot_epoch THEN None ELSE ArmDeadline
  /\ force' = (force \/ (/\ mutation_epoch # snapshot_epoch
                         /\ deadline = None /\ mode = "Immediate"))
  /\ NotifyAll(pc, "check")
  /\ UNCHANGED <<mode, mutation_epoch, stopping, failure, state,
                 snapshot_epoch, encoded, written, owner, target, outcome, promised,
                 history>>

(* The closure of start_with_writer stores the error of run_persistence,   *)
(* wakes every waiter, releases the mutex and calls on_failure.            *)
StoreFailure ==
  /\ worker = "fail"
  /\ failure' = TRUE
  /\ NotifyAll(pc, "on_failure")
  /\ UNCHANGED <<mode, mutation_epoch, persisted_epoch, deadline, force, stopping,
                 state, snapshot_epoch, encoded, written, owner, target,
                 outcome, promised, history>>

OnFailure ==
  /\ worker = "on_failure"
  /\ worker' = "exited_err"
  /\ UNCHANGED <<schedule, state, timeout, snapshot_epoch, encoded, written, owner,
                 client, history>>

-----------------------------------------------------------------------------
(* The owner: shutdown and Drop both request the stop and join.            *)

RequestStop ==
  /\ owner = "running"
  /\ owner' = "joining"
  /\ stopping' = TRUE /\ force' = TRUE
  /\ NotifyAll(pc, worker)
  /\ at_stop' = recorded
  /\ UNCHANGED <<mode, mutation_epoch, persisted_epoch, deadline, failure, state,
                 snapshot_epoch, encoded, written, target, outcome, promised,
                 recorded, age>>

Join ==
  /\ owner = "joining"
  /\ worker \in {"exited", "exited_err", "panicked"}
  /\ owner' = IF worker = "exited" THEN "ok" ELSE "err"
  /\ UNCHANGED <<schedule, state, thread, client, history>>

(* Time passes for the deadline, the worker's timeout and the history,     *)
(* whoever is runnable: a thread may be late.                              *)
Tick ==
  LET Elapse(t) == IF t > 0 THEN t - 1 ELSE t
      Aging == age \notin {None, AgeBound}
  IN
  /\ deadline > 0 \/ timeout > 0 \/ Aging
  /\ deadline' = Elapse(deadline) /\ timeout' = Elapse(timeout)
  /\ age' = IF Aging THEN age + 1 ELSE age
  /\ UNCHANGED <<mode, mutation_epoch, persisted_epoch, force, stopping, failure,
                 state, worker, snapshot_epoch, encoded, written, owner, client,
                 recorded, at_stop>>

-----------------------------------------------------------------------------
(* Steps a client takes once inside a call, or while it holds the guard.   *)
ClientProgress(c) ==
  \/ BeginMutation(c) \/ EndMutation(c) \/ RecordMutation(c) \/ RefuseMutation(c)
  \/ UnlockState(c) \/ WaitForEpoch(c)

ClientStep(c) ==
  \/ ClientProgress(c)
  \/ LockState(c) \/ DropReceipt(c) \/ WaitReceipt(c) \/ Flush(c)
  \/ SpuriousClientWakeup(c)

WorkerProgress ==
  \/ ExitWhenStopped \/ ParkIdle \/ ReturnDue \/ ParkUntilDeadline \/ WakeWorker
  \/ ReadEpoch \/ Encode \/ Write \/ Publish \/ StoreFailure \/ OnFailure

Next ==
  \/ \E c \in Clients : ClientStep(c)
  \/ WorkerProgress \/ SpuriousWorkerWakeup
  \/ RequestStop \/ Join
  \/ Tick

Spec == Init /\ [][Next]_vars

(* The operating system runs every runnable thread and time passes; a      *)
(* callback returns; a client that holds the guard releases it.  Nobody is *)
(* obliged to start a mutation, a flush or a shutdown.                     *)
Fairness ==
  /\ WF_vars(WorkerProgress)
  /\ WF_vars(Tick)
  /\ WF_vars(Join)
  /\ \A c \in Clients : WF_vars(ClientProgress(c))

FairSpec == Spec /\ Fairness

-----------------------------------------------------------------------------
(* Safety.                                                                 *)

(* AckedIsDurable: a receipt or flush that returned Ok after waiting, and  *)
(* a flush that found nothing to do, cover every mutation recorded before  *)
(* the call: the durable image contains it (record_mutation, flush,        *)
(* wait_for_epoch against the snapshot order of run_persistence).          *)
AckedIsDurable ==
  \A c \in Clients : outcome[c] = "durable" => promised[c] <= written.version

(* ShutdownIsDurable: when shutdown returns Ok, everything recorded before *)
(* the stop was requested is in the durable image.                         *)
ShutdownIsDurable == owner = "ok" => at_stop <= written.version

(* WrittenIsWhole: no durable image was encoded from a state in the middle *)
(* of a mutation, although the writer runs without any lock.               *)
WrittenIsWhole == ~written.partial

(* NoLostWakeup: a thread parked on the condition variable has nothing to  *)
(* do yet: a client's epoch is neither persisted nor failed; the worker    *)
(* has no work, or a timeout that ends with the deadline of its work.      *)
NoLostWakeup ==
  /\ \A c \in Clients : pc[c] = "parked" => persisted_epoch < target[c] /\ ~failure
  /\ worker = "parked" =>
       /\ ~stopping
       /\ Pending => ~force /\ deadline >= 0 /\ timeout = deadline

(* DeadlineNotExtended: in batched mode the first mutation that no         *)
(* snapshot covers fixes the deadline: later mutations, and a write that   *)
(* ends meanwhile, neither drop nor move it, and a parked worker sleeps no *)
(* longer.  Once the mutation has waited the delay, the deadline and the   *)
(* timeout have expired: whatever it waits for then (a write under way, a  *)
(* client in the state mutex, the scheduler), the worker does not sleep.   *)
(* Between the decision to write and the snapshot the deadline belongs to  *)
(* the next batch.                                                         *)
WithinDelay(t) == t = 0 \/ (t > 0 /\ age + t <= Delay)
DeadlineNotExtended ==
  mode = "Batched" /\ worker # "snapshot" /\ age # None =>
    /\ WithinDelay(deadline)
    /\ worker = "parked" => WithinDelay(timeout)

(* FailStop: once run_persistence has stored its error, nothing more is    *)
(* written, no epoch is recorded or published, and the error stays.        *)
FailStop ==
  [][failure => failure' /\ UNCHANGED <<written, mutation_epoch, persisted_epoch>>]_vars

-----------------------------------------------------------------------------
(* Liveness, under FairSpec.                                               *)

WorkerAlive == worker \notin {"exited", "exited_err", "panicked"}

(* CallsReturn: a wait for an epoch that the worker can still serve ends,  *)
(* and shutdown and Drop end their join.                                   *)
CallsReturn ==
  /\ \A c \in Clients :
       pc[c] \in {"waiting", "parked"} /\ WorkerAlive ~> pc[c] \notin {"waiting", "parked"}
  /\ owner = "joining" ~> owner \in {"ok", "err"}

(* RecordedIsSettled: a mutation recorded while the worker runs is         *)
(* persisted without any flush, or the failure is reported.                *)
RecordedIsSettled ==
  \A e \in 1 .. EpochLimit :
    mutation_epoch >= e /\ WorkerAlive ~> persisted_epoch >= e \/ failure

(* ReceiptCompletes: what MutationReceipt documents, a recorded mutation's *)
(* completion or persistence-failure result: every wait ends.              *)
ReceiptCompletes ==
  \A c \in Clients : pc[c] \in {"waiting", "parked"} ~> pc[c] \notin {"waiting", "parked"}
=============================================================================
