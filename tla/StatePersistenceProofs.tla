---------------------- MODULE StatePersistenceProofs ----------------------
(***************************************************************************)
(* Proofs about StatePersistence for every set of clients, every delay and *)
(* every epoch limit.  The invariants come in layers, each proved          *)
(* inductive relative to the ones before it.                               *)
(***************************************************************************)
EXTENDS StatePersistence, TLAPS

-----------------------------------------------------------------------------
(* Types: the initial states and every action.                             *)
LEMMA InitTypeOK == Init => TypeOK
<1> SUFFICES ASSUME Init PROVE TypeOK
  OBVIOUS
<1>1. /\ force \in BOOLEAN /\ stopping \in BOOLEAN /\ failure \in BOOLEAN
      /\ state \in Image
  BY DEF Init, Image
<1>2. QED
  BY <1>1, ConstantsAssumption
  DEF ConstantsAssumption, Init, TypeOK, Image, ClientPc, WorkerPc, None

(* Each action keeps the types; the timers stay within the delay.         *)
LEMMA TypeOKStep == TypeOK /\ [Next]_vars => TypeOK'
<1> SUFFICES ASSUME TypeOK, [Next]_vars PROVE TypeOK'
  OBVIOUS
<1> USE ConstantsAssumption DEF ConstantsAssumption, check_failure, TypeOK, Image, ClientPc, WorkerPc, None
<1>1. ASSUME NEW c \in Clients, LockState(c) PROVE TypeOK'
  BY <1>1 DEF LockState, schedule, thread, client, history
<1>2. ASSUME NEW c \in Clients, BeginMutation(c) PROVE TypeOK'
  <2>1. state' \in Image
    BY <1>2 DEF BeginMutation
  <2>2. QED
    BY <2>1, <1>2 DEF BeginMutation, schedule, thread, client, history
<1>3. ASSUME NEW c \in Clients, EndMutation(c) PROVE TypeOK'
  BY <1>3 DEF EndMutation, schedule, thread, client, history
<1>4. ASSUME NEW c \in Clients, RecordMutation(c) PROVE TypeOK'
  BY <1>4 DEF RecordMutation, ArmDeadline, NotifyAll, schedule, thread, client, history
<1>5. ASSUME NEW c \in Clients, RefuseMutation(c) PROVE TypeOK'
  BY <1>5 DEF RefuseMutation, schedule, thread, client, history
<1>6. ASSUME NEW c \in Clients, UnlockState(c) PROVE TypeOK'
  BY <1>6 DEF UnlockState, schedule, thread, client, history
<1>7. ASSUME NEW c \in Clients, DropReceipt(c) PROVE TypeOK'
  BY <1>7 DEF DropReceipt, schedule, thread, client, history
<1>8. ASSUME NEW c \in Clients, WaitReceipt(c) PROVE TypeOK'
  BY <1>8 DEF WaitReceipt, schedule, thread, client, history
<1>9. ASSUME NEW c \in Clients, Flush(c) PROVE TypeOK'
  <2>1. force' \in BOOLEAN
    BY <1>9 DEF Flush
  <2>2. QED
    BY <2>1, <1>9 DEF Flush, NotifyAll, schedule, thread, client, history
<1>10. ASSUME NEW c \in Clients, WaitForEpoch(c) PROVE TypeOK'
  BY <1>10 DEF WaitForEpoch, schedule, thread, client, history
<1>11. ASSUME NEW c \in Clients, SpuriousClientWakeup(c) PROVE TypeOK'
  BY <1>11 DEF SpuriousClientWakeup, schedule, thread, client, history
<1>12. CASE ExitWhenStopped
  BY <1>12 DEF ExitWhenStopped, schedule, thread, client, history
<1>13. CASE ParkIdle
  <2>1. force' \in BOOLEAN
    BY <1>13 DEF ParkIdle
  <2>2. QED
    BY <2>1, <1>13 DEF ParkIdle, schedule, thread, client, history
<1>14. CASE ReturnDue
  <2>1. force' \in BOOLEAN
    BY <1>14 DEF ReturnDue
  <2>2. QED
    BY <2>1, <1>14 DEF ReturnDue, schedule, thread, client, history
<1>15. CASE ParkUntilDeadline
  BY <1>15 DEF ParkUntilDeadline, schedule, thread, client, history
<1>16. CASE WakeWorker
  BY <1>16 DEF WakeWorker, schedule, thread, client, history
<1>17. CASE SpuriousWorkerWakeup
  BY <1>17 DEF SpuriousWorkerWakeup, schedule, thread, client, history
<1>18. CASE ReadEpoch
  BY <1>18 DEF ReadEpoch, schedule, thread, client, history
<1>19. CASE Encode
  BY <1>19 DEF Encode, schedule, thread, client, history
<1>20. CASE Write
  BY <1>20 DEF Write, schedule, thread, client, history
<1>21. CASE Publish
  BY <1>21 DEF Publish, ArmDeadline, NotifyAll, schedule, thread, client, history
<1>22. CASE StoreFailure
  BY <1>22 DEF StoreFailure, NotifyAll, schedule, thread, client, history
<1>23. CASE OnFailure
  BY <1>23 DEF OnFailure, schedule, thread, client, history
<1>24. CASE RequestStop
  BY <1>24 DEF RequestStop, NotifyAll, schedule, thread, client, history
<1>25. CASE Join
  BY <1>25 DEF Join, schedule, thread, client, history
<1>26. CASE Tick
  BY <1>26 DEF Tick, schedule, thread, client, history
<1>27. CASE UNCHANGED vars
  BY <1>27 DEF vars, schedule, thread, client, history
<1>. QED
  BY <1>1, <1>2, <1>3, <1>4, <1>5, <1>6, <1>7, <1>8, <1>9, <1>10, <1>11, <1>12, <1>13, <1>14, <1>15, <1>16, <1>17, <1>18, <1>19, <1>20, <1>21, <1>22, <1>23, <1>24, <1>25, <1>26, <1>27 DEF Next, ClientStep, ClientProgress, WorkerProgress

(* TypeCorrect: every variable keeps its type, in particular the timers    *)
(* stay within the batching delay.                                         *)
THEOREM TypeCorrect == Spec => []TypeOK
  BY InitTypeOK, TypeOKStep, PTL DEF Spec

-----------------------------------------------------------------------------
(* The layers of the inductive invariant.                                  *)

(* The state mutex excludes: one client holds it, or the worker encodes.   *)
StateMutex ==
  /\ \A c, d \in Clients : HoldsState(c) /\ HoldsState(d) => c = d
  /\ worker = "encode" => \A c \in Clients : ~HoldsState(c)

(* A half-done mutation has a holder, so an encoded image is whole.        *)
WholeImages ==
  /\ state.partial => \E c \in Clients : pc[c] = "mutating"
  /\ worker \in {"write", "publish"} => ~encoded.partial
  /\ ~written.partial

(* Epochs are published in the order in which they are recorded.           *)
EpochOrder ==
  /\ persisted_epoch <= mutation_epoch
  /\ worker \in {"encode", "write", "publish"} =>
       persisted_epoch <= snapshot_epoch /\ snapshot_epoch <= mutation_epoch

(* An epoch and the version recorded with it: whoever has the epoch, the   *)
(* snapshot in flight or the durable image, has the version.               *)
Covered(epoch, version) ==
  /\ version <= recorded
  /\ worker \in {"write", "publish"} /\ epoch <= snapshot_epoch => version <= encoded.version
  /\ epoch <= persisted_epoch => version <= written.version

Promises ==
  /\ recorded <= state.version
  /\ worker = "publish" => written = encoded
  /\ Covered(mutation_epoch, recorded)
  /\ \A c \in Clients :
       /\ Covered(target[c], promised[c])
       /\ outcome[c] = "durable" => target[c] <= persisted_epoch

(* The worker exits in good order only after the stop, with nothing left.  *)
Stopped ==
  /\ at_stop <= recorded
  /\ stopping <=> owner # "running"
  /\ worker = "exited" => stopping /\ at_stop <= written.version
  /\ owner = "ok" => worker = "exited"

(* Work the worker has not begun is forced, or has a deadline.             *)
Scheduled ==
  worker \in {"check", "parked"} /\ Pending => force \/ stopping \/ deadline # None

(* The error is stored by the worker's last critical section.              *)
FailureIsLast == failure => worker \in {"on_failure", "exited_err"}

(* The history variable age runs exactly while a mutation is uncovered.    *)
AgeOfUncovered ==
  /\ age # None => mode = "Batched"
  /\ worker \in {"check", "parked"} /\ age # None => Pending
  /\ worker \in {"encode", "write", "publish"} /\ age # None =>
       mutation_epoch # snapshot_epoch

IInv ==
  /\ TypeOK /\ StateMutex /\ WholeImages /\ EpochOrder /\ Promises /\ Stopped
  /\ Scheduled /\ NoLostWakeup /\ FailureIsLast /\ AgeOfUncovered
  /\ DeadlineNotExtended

-----------------------------------------------------------------------------
(* The state mutex stays exclusive. *)
LEMMA StateMutexStep == TypeOK /\ StateMutex /\ [Next]_vars => StateMutex'
<1> SUFFICES ASSUME TypeOK, StateMutex, [Next]_vars PROVE StateMutex'
  OBVIOUS
<1> USE ConstantsAssumption DEF ConstantsAssumption, check_failure, TypeOK, Image, ClientPc, WorkerPc, None, StateMutex, HoldsState, StateFree
<1>1. ASSUME NEW c \in Clients, LockState(c) PROVE StateMutex'
  BY <1>1 DEF LockState, schedule, thread, client, history
<1>2. ASSUME NEW c \in Clients, BeginMutation(c) PROVE StateMutex'
  BY <1>2 DEF BeginMutation, schedule, thread, client, history
<1>3. ASSUME NEW c \in Clients, EndMutation(c) PROVE StateMutex'
  BY <1>3 DEF EndMutation, schedule, thread, client, history
<1>4. ASSUME NEW c \in Clients, RecordMutation(c) PROVE StateMutex'
  BY <1>4 DEF RecordMutation, ArmDeadline, NotifyAll, schedule, thread, client, history
<1>5. ASSUME NEW c \in Clients, RefuseMutation(c) PROVE StateMutex'
  BY <1>5 DEF RefuseMutation, schedule, thread, client, history
<1>6. ASSUME NEW c \in Clients, UnlockState(c) PROVE StateMutex'
  BY <1>6 DEF UnlockState, schedule, thread, client, history
<1>7. ASSUME NEW c \in Clients, DropReceipt(c) PROVE StateMutex'
  BY <1>7 DEF DropReceipt, schedule, thread, client, history
<1>8. ASSUME NEW c \in Clients, WaitReceipt(c) PROVE StateMutex'
  BY <1>8 DEF WaitReceipt, schedule, thread, client, history
<1>9. ASSUME NEW c \in Clients, Flush(c) PROVE StateMutex'
  BY <1>9 DEF Flush, NotifyAll, schedule, thread, client, history
<1>10. ASSUME NEW c \in Clients, WaitForEpoch(c) PROVE StateMutex'
  BY <1>10 DEF WaitForEpoch, schedule, thread, client, history
<1>11. ASSUME NEW c \in Clients, SpuriousClientWakeup(c) PROVE StateMutex'
  BY <1>11 DEF SpuriousClientWakeup, schedule, thread, client, history
<1>12. CASE ExitWhenStopped
  BY <1>12 DEF ExitWhenStopped, schedule, thread, client, history
<1>13. CASE ParkIdle
  BY <1>13 DEF ParkIdle, schedule, thread, client, history
<1>14. CASE ReturnDue
  BY <1>14 DEF ReturnDue, schedule, thread, client, history
<1>15. CASE ParkUntilDeadline
  BY <1>15 DEF ParkUntilDeadline, schedule, thread, client, history
<1>16. CASE WakeWorker
  BY <1>16 DEF WakeWorker, schedule, thread, client, history
<1>17. CASE SpuriousWorkerWakeup
  BY <1>17 DEF SpuriousWorkerWakeup, schedule, thread, client, history
<1>18. CASE ReadEpoch
  BY <1>18 DEF ReadEpoch, schedule, thread, client, history
<1>19. CASE Encode
  BY <1>19 DEF Encode, schedule, thread, client, history
<1>20. CASE Write
  BY <1>20 DEF Write, schedule, thread, client, history
<1>21. CASE Publish
  BY <1>21 DEF Publish, ArmDeadline, NotifyAll, schedule, thread, client, history
<1>22. CASE StoreFailure
  BY <1>22 DEF StoreFailure, NotifyAll, schedule, thread, client, history
<1>23. CASE OnFailure
  BY <1>23 DEF OnFailure, schedule, thread, client, history
<1>24. CASE RequestStop
  BY <1>24 DEF RequestStop, NotifyAll, schedule, thread, client, history
<1>25. CASE Join
  BY <1>25 DEF Join, schedule, thread, client, history
<1>26. CASE Tick
  BY <1>26 DEF Tick, schedule, thread, client, history
<1>27. CASE UNCHANGED vars
  BY <1>27 DEF vars, schedule, thread, client, history
<1>. QED
  BY <1>1, <1>2, <1>3, <1>4, <1>5, <1>6, <1>7, <1>8, <1>9, <1>10, <1>11, <1>12, <1>13, <1>14, <1>15, <1>16, <1>17, <1>18, <1>19, <1>20, <1>21, <1>22, <1>23, <1>24, <1>25, <1>26, <1>27 DEF Next, ClientStep, ClientProgress, WorkerProgress

(* Images are encoded between mutations. *)
LEMMA WholeImagesStep == TypeOK /\ StateMutex /\ WholeImages /\ [Next]_vars => WholeImages'
<1> SUFFICES ASSUME TypeOK, StateMutex, WholeImages, [Next]_vars PROVE WholeImages'
  OBVIOUS
<1> USE ConstantsAssumption DEF ConstantsAssumption, check_failure, TypeOK, Image, ClientPc, WorkerPc, None, WholeImages, StateMutex, HoldsState, StateFree
<1>1. ASSUME NEW c \in Clients, LockState(c) PROVE WholeImages'
  BY <1>1 DEF LockState, schedule, thread, client, history
<1>2. ASSUME NEW c \in Clients, BeginMutation(c) PROVE WholeImages'
  BY <1>2 DEF BeginMutation, schedule, thread, client, history
<1>3. ASSUME NEW c \in Clients, EndMutation(c) PROVE WholeImages'
  BY <1>3 DEF EndMutation, schedule, thread, client, history
<1>4. ASSUME NEW c \in Clients, RecordMutation(c) PROVE WholeImages'
  BY <1>4 DEF RecordMutation, ArmDeadline, NotifyAll, schedule, thread, client, history
<1>5. ASSUME NEW c \in Clients, RefuseMutation(c) PROVE WholeImages'
  BY <1>5 DEF RefuseMutation, schedule, thread, client, history
<1>6. ASSUME NEW c \in Clients, UnlockState(c) PROVE WholeImages'
  BY <1>6 DEF UnlockState, schedule, thread, client, history
<1>7. ASSUME NEW c \in Clients, DropReceipt(c) PROVE WholeImages'
  BY <1>7 DEF DropReceipt, schedule, thread, client, history
<1>8. ASSUME NEW c \in Clients, WaitReceipt(c) PROVE WholeImages'
  BY <1>8 DEF WaitReceipt, schedule, thread, client, history
<1>9. ASSUME NEW c \in Clients, Flush(c) PROVE WholeImages'
  BY <1>9 DEF Flush, NotifyAll, schedule, thread, client, history
<1>10. ASSUME NEW c \in Clients, WaitForEpoch(c) PROVE WholeImages'
  BY <1>10 DEF WaitForEpoch, schedule, thread, client, history
<1>11. ASSUME NEW c \in Clients, SpuriousClientWakeup(c) PROVE WholeImages'
  BY <1>11 DEF SpuriousClientWakeup, schedule, thread, client, history
<1>12. CASE ExitWhenStopped
  BY <1>12 DEF ExitWhenStopped, schedule, thread, client, history
<1>13. CASE ParkIdle
  BY <1>13 DEF ParkIdle, schedule, thread, client, history
<1>14. CASE ReturnDue
  BY <1>14 DEF ReturnDue, schedule, thread, client, history
<1>15. CASE ParkUntilDeadline
  BY <1>15 DEF ParkUntilDeadline, schedule, thread, client, history
<1>16. CASE WakeWorker
  BY <1>16 DEF WakeWorker, schedule, thread, client, history
<1>17. CASE SpuriousWorkerWakeup
  BY <1>17 DEF SpuriousWorkerWakeup, schedule, thread, client, history
<1>18. CASE ReadEpoch
  BY <1>18 DEF ReadEpoch, schedule, thread, client, history
<1>19. CASE Encode
  BY <1>19 DEF Encode, schedule, thread, client, history
<1>20. CASE Write
  BY <1>20 DEF Write, schedule, thread, client, history
<1>21. CASE Publish
  BY <1>21 DEF Publish, ArmDeadline, NotifyAll, schedule, thread, client, history
<1>22. CASE StoreFailure
  BY <1>22 DEF StoreFailure, NotifyAll, schedule, thread, client, history
<1>23. CASE OnFailure
  BY <1>23 DEF OnFailure, schedule, thread, client, history
<1>24. CASE RequestStop
  BY <1>24 DEF RequestStop, NotifyAll, schedule, thread, client, history
<1>25. CASE Join
  BY <1>25 DEF Join, schedule, thread, client, history
<1>26. CASE Tick
  BY <1>26 DEF Tick, schedule, thread, client, history
<1>27. CASE UNCHANGED vars
  BY <1>27 DEF vars, schedule, thread, client, history
<1>. QED
  BY <1>1, <1>2, <1>3, <1>4, <1>5, <1>6, <1>7, <1>8, <1>9, <1>10, <1>11, <1>12, <1>13, <1>14, <1>15, <1>16, <1>17, <1>18, <1>19, <1>20, <1>21, <1>22, <1>23, <1>24, <1>25, <1>26, <1>27 DEF Next, ClientStep, ClientProgress, WorkerProgress

(* Epochs are published in order. *)
LEMMA EpochOrderStep == TypeOK /\ EpochOrder /\ [Next]_vars => EpochOrder'
<1> SUFFICES ASSUME TypeOK, EpochOrder, [Next]_vars PROVE EpochOrder'
  OBVIOUS
<1> USE ConstantsAssumption DEF ConstantsAssumption, check_failure, TypeOK, Image, ClientPc, WorkerPc, None, EpochOrder
<1>1. ASSUME NEW c \in Clients, LockState(c) PROVE EpochOrder'
  BY <1>1 DEF LockState, schedule, thread, client, history
<1>2. ASSUME NEW c \in Clients, BeginMutation(c) PROVE EpochOrder'
  BY <1>2 DEF BeginMutation, schedule, thread, client, history
<1>3. ASSUME NEW c \in Clients, EndMutation(c) PROVE EpochOrder'
  BY <1>3 DEF EndMutation, schedule, thread, client, history
<1>4. ASSUME NEW c \in Clients, RecordMutation(c) PROVE EpochOrder'
  BY <1>4 DEF RecordMutation, ArmDeadline, NotifyAll, schedule, thread, client, history
<1>5. ASSUME NEW c \in Clients, RefuseMutation(c) PROVE EpochOrder'
  BY <1>5 DEF RefuseMutation, schedule, thread, client, history
<1>6. ASSUME NEW c \in Clients, UnlockState(c) PROVE EpochOrder'
  BY <1>6 DEF UnlockState, schedule, thread, client, history
<1>7. ASSUME NEW c \in Clients, DropReceipt(c) PROVE EpochOrder'
  BY <1>7 DEF DropReceipt, schedule, thread, client, history
<1>8. ASSUME NEW c \in Clients, WaitReceipt(c) PROVE EpochOrder'
  BY <1>8 DEF WaitReceipt, schedule, thread, client, history
<1>9. ASSUME NEW c \in Clients, Flush(c) PROVE EpochOrder'
  BY <1>9 DEF Flush, NotifyAll, schedule, thread, client, history
<1>10. ASSUME NEW c \in Clients, WaitForEpoch(c) PROVE EpochOrder'
  BY <1>10 DEF WaitForEpoch, schedule, thread, client, history
<1>11. ASSUME NEW c \in Clients, SpuriousClientWakeup(c) PROVE EpochOrder'
  BY <1>11 DEF SpuriousClientWakeup, schedule, thread, client, history
<1>12. CASE ExitWhenStopped
  BY <1>12 DEF ExitWhenStopped, schedule, thread, client, history
<1>13. CASE ParkIdle
  BY <1>13 DEF ParkIdle, schedule, thread, client, history
<1>14. CASE ReturnDue
  BY <1>14 DEF ReturnDue, schedule, thread, client, history
<1>15. CASE ParkUntilDeadline
  BY <1>15 DEF ParkUntilDeadline, schedule, thread, client, history
<1>16. CASE WakeWorker
  BY <1>16 DEF WakeWorker, schedule, thread, client, history
<1>17. CASE SpuriousWorkerWakeup
  BY <1>17 DEF SpuriousWorkerWakeup, schedule, thread, client, history
<1>18. CASE ReadEpoch
  BY <1>18 DEF ReadEpoch, schedule, thread, client, history
<1>19. CASE Encode
  BY <1>19 DEF Encode, schedule, thread, client, history
<1>20. CASE Write
  BY <1>20 DEF Write, schedule, thread, client, history
<1>21. CASE Publish
  BY <1>21 DEF Publish, ArmDeadline, NotifyAll, schedule, thread, client, history
<1>22. CASE StoreFailure
  BY <1>22 DEF StoreFailure, NotifyAll, schedule, thread, client, history
<1>23. CASE OnFailure
  BY <1>23 DEF OnFailure, schedule, thread, client, history
<1>24. CASE RequestStop
  BY <1>24 DEF RequestStop, NotifyAll, schedule, thread, client, history
<1>25. CASE Join
  BY <1>25 DEF Join, schedule, thread, client, history
<1>26. CASE Tick
  BY <1>26 DEF Tick, schedule, thread, client, history
<1>27. CASE UNCHANGED vars
  BY <1>27 DEF vars, schedule, thread, client, history
<1>. QED
  BY <1>1, <1>2, <1>3, <1>4, <1>5, <1>6, <1>7, <1>8, <1>9, <1>10, <1>11, <1>12, <1>13, <1>14, <1>15, <1>16, <1>17, <1>18, <1>19, <1>20, <1>21, <1>22, <1>23, <1>24, <1>25, <1>26, <1>27 DEF Next, ClientStep, ClientProgress, WorkerProgress

(* Every promise is kept by the snapshot that covers its epoch. *)
LEMMA PromisesStep == TypeOK /\ StateMutex /\ EpochOrder /\ Promises /\ [Next]_vars => Promises'
<1> SUFFICES ASSUME TypeOK, StateMutex, EpochOrder, Promises, [Next]_vars PROVE Promises'
  OBVIOUS
<1> USE ConstantsAssumption DEF ConstantsAssumption, check_failure, TypeOK, Image, ClientPc, WorkerPc, None, Promises, Covered, StateMutex, HoldsState, EpochOrder, Pending
<1>1. ASSUME NEW c \in Clients, LockState(c) PROVE Promises'
  BY <1>1 DEF LockState, schedule, thread, client, history
<1>2. ASSUME NEW c \in Clients, BeginMutation(c) PROVE Promises'
  BY <1>2 DEF BeginMutation, schedule, thread, client, history
<1>3. ASSUME NEW c \in Clients, EndMutation(c) PROVE Promises'
  BY <1>3 DEF EndMutation, schedule, thread, client, history
<1>4. ASSUME NEW c \in Clients, RecordMutation(c) PROVE Promises'
  BY <1>4 DEF RecordMutation, ArmDeadline, NotifyAll, schedule, thread, client, history
<1>5. ASSUME NEW c \in Clients, RefuseMutation(c) PROVE Promises'
  BY <1>5 DEF RefuseMutation, schedule, thread, client, history
<1>6. ASSUME NEW c \in Clients, UnlockState(c) PROVE Promises'
  BY <1>6 DEF UnlockState, schedule, thread, client, history
<1>7. ASSUME NEW c \in Clients, DropReceipt(c) PROVE Promises'
  BY <1>7 DEF DropReceipt, schedule, thread, client, history
<1>8. ASSUME NEW c \in Clients, WaitReceipt(c) PROVE Promises'
  BY <1>8 DEF WaitReceipt, schedule, thread, client, history
<1>9. ASSUME NEW c \in Clients, Flush(c) PROVE Promises'
  BY <1>9 DEF Flush, NotifyAll, schedule, thread, client, history
<1>10. ASSUME NEW c \in Clients, WaitForEpoch(c) PROVE Promises'
  BY <1>10 DEF WaitForEpoch, schedule, thread, client, history
<1>11. ASSUME NEW c \in Clients, SpuriousClientWakeup(c) PROVE Promises'
  BY <1>11 DEF SpuriousClientWakeup, schedule, thread, client, history
<1>12. CASE ExitWhenStopped
  BY <1>12 DEF ExitWhenStopped, schedule, thread, client, history
<1>13. CASE ParkIdle
  BY <1>13 DEF ParkIdle, schedule, thread, client, history
<1>14. CASE ReturnDue
  BY <1>14 DEF ReturnDue, schedule, thread, client, history
<1>15. CASE ParkUntilDeadline
  BY <1>15 DEF ParkUntilDeadline, schedule, thread, client, history
<1>16. CASE WakeWorker
  BY <1>16 DEF WakeWorker, schedule, thread, client, history
<1>17. CASE SpuriousWorkerWakeup
  BY <1>17 DEF SpuriousWorkerWakeup, schedule, thread, client, history
<1>18. CASE ReadEpoch
  BY <1>18 DEF ReadEpoch, schedule, thread, client, history
<1>19. CASE Encode
  BY <1>19 DEF Encode, schedule, thread, client, history
<1>20. CASE Write
  BY <1>20 DEF Write, schedule, thread, client, history
<1>21. CASE Publish
  BY <1>21 DEF Publish, ArmDeadline, NotifyAll, schedule, thread, client, history
<1>22. CASE StoreFailure
  BY <1>22 DEF StoreFailure, NotifyAll, schedule, thread, client, history
<1>23. CASE OnFailure
  BY <1>23 DEF OnFailure, schedule, thread, client, history
<1>24. CASE RequestStop
  BY <1>24 DEF RequestStop, NotifyAll, schedule, thread, client, history
<1>25. CASE Join
  BY <1>25 DEF Join, schedule, thread, client, history
<1>26. CASE Tick
  BY <1>26 DEF Tick, schedule, thread, client, history
<1>27. CASE UNCHANGED vars
  BY <1>27 DEF vars, schedule, thread, client, history
<1>. QED
  BY <1>1, <1>2, <1>3, <1>4, <1>5, <1>6, <1>7, <1>8, <1>9, <1>10, <1>11, <1>12, <1>13, <1>14, <1>15, <1>16, <1>17, <1>18, <1>19, <1>20, <1>21, <1>22, <1>23, <1>24, <1>25, <1>26, <1>27 DEF Next, ClientStep, ClientProgress, WorkerProgress

(* The worker leaves nothing recorded before the stop unwritten. *)
LEMMA StoppedStep == TypeOK /\ EpochOrder /\ Promises /\ Stopped /\ [Next]_vars => Stopped'
<1> SUFFICES ASSUME TypeOK, EpochOrder, Promises, Stopped, [Next]_vars PROVE Stopped'
  OBVIOUS
<1> USE ConstantsAssumption DEF ConstantsAssumption, check_failure, TypeOK, Image, ClientPc, WorkerPc, None, Stopped, Promises, Covered, EpochOrder, Pending
<1>1. ASSUME NEW c \in Clients, LockState(c) PROVE Stopped'
  BY <1>1 DEF LockState, schedule, thread, client, history
<1>2. ASSUME NEW c \in Clients, BeginMutation(c) PROVE Stopped'
  BY <1>2 DEF BeginMutation, schedule, thread, client, history
<1>3. ASSUME NEW c \in Clients, EndMutation(c) PROVE Stopped'
  BY <1>3 DEF EndMutation, schedule, thread, client, history
<1>4. ASSUME NEW c \in Clients, RecordMutation(c) PROVE Stopped'
  BY <1>4 DEF RecordMutation, ArmDeadline, NotifyAll, schedule, thread, client, history
<1>5. ASSUME NEW c \in Clients, RefuseMutation(c) PROVE Stopped'
  BY <1>5 DEF RefuseMutation, schedule, thread, client, history
<1>6. ASSUME NEW c \in Clients, UnlockState(c) PROVE Stopped'
  BY <1>6 DEF UnlockState, schedule, thread, client, history
<1>7. ASSUME NEW c \in Clients, DropReceipt(c) PROVE Stopped'
  BY <1>7 DEF DropReceipt, schedule, thread, client, history
<1>8. ASSUME NEW c \in Clients, WaitReceipt(c) PROVE Stopped'
  BY <1>8 DEF WaitReceipt, schedule, thread, client, history
<1>9. ASSUME NEW c \in Clients, Flush(c) PROVE Stopped'
  BY <1>9 DEF Flush, NotifyAll, schedule, thread, client, history
<1>10. ASSUME NEW c \in Clients, WaitForEpoch(c) PROVE Stopped'
  BY <1>10 DEF WaitForEpoch, schedule, thread, client, history
<1>11. ASSUME NEW c \in Clients, SpuriousClientWakeup(c) PROVE Stopped'
  BY <1>11 DEF SpuriousClientWakeup, schedule, thread, client, history
<1>12. CASE ExitWhenStopped
  BY <1>12 DEF ExitWhenStopped, schedule, thread, client, history
<1>13. CASE ParkIdle
  BY <1>13 DEF ParkIdle, schedule, thread, client, history
<1>14. CASE ReturnDue
  BY <1>14 DEF ReturnDue, schedule, thread, client, history
<1>15. CASE ParkUntilDeadline
  BY <1>15 DEF ParkUntilDeadline, schedule, thread, client, history
<1>16. CASE WakeWorker
  BY <1>16 DEF WakeWorker, schedule, thread, client, history
<1>17. CASE SpuriousWorkerWakeup
  BY <1>17 DEF SpuriousWorkerWakeup, schedule, thread, client, history
<1>18. CASE ReadEpoch
  BY <1>18 DEF ReadEpoch, schedule, thread, client, history
<1>19. CASE Encode
  BY <1>19 DEF Encode, schedule, thread, client, history
<1>20. CASE Write
  BY <1>20 DEF Write, schedule, thread, client, history
<1>21. CASE Publish
  BY <1>21 DEF Publish, ArmDeadline, NotifyAll, schedule, thread, client, history
<1>22. CASE StoreFailure
  BY <1>22 DEF StoreFailure, NotifyAll, schedule, thread, client, history
<1>23. CASE OnFailure
  BY <1>23 DEF OnFailure, schedule, thread, client, history
<1>24. CASE RequestStop
  BY <1>24 DEF RequestStop, NotifyAll, schedule, thread, client, history
<1>25. CASE Join
  BY <1>25 DEF Join, schedule, thread, client, history
<1>26. CASE Tick
  BY <1>26 DEF Tick, schedule, thread, client, history
<1>27. CASE UNCHANGED vars
  BY <1>27 DEF vars, schedule, thread, client, history
<1>. QED
  BY <1>1, <1>2, <1>3, <1>4, <1>5, <1>6, <1>7, <1>8, <1>9, <1>10, <1>11, <1>12, <1>13, <1>14, <1>15, <1>16, <1>17, <1>18, <1>19, <1>20, <1>21, <1>22, <1>23, <1>24, <1>25, <1>26, <1>27 DEF Next, ClientStep, ClientProgress, WorkerProgress

(* Recorded work is always scheduled. *)
LEMMA ScheduledStep == TypeOK /\ Scheduled /\ [Next]_vars => Scheduled'
<1> SUFFICES ASSUME TypeOK, Scheduled, [Next]_vars PROVE Scheduled'
  OBVIOUS
<1> USE ConstantsAssumption DEF ConstantsAssumption, check_failure, TypeOK, Image, ClientPc, WorkerPc, None, Scheduled, Pending
<1>1. ASSUME NEW c \in Clients, LockState(c) PROVE Scheduled'
  BY <1>1 DEF LockState, schedule, thread, client, history
<1>2. ASSUME NEW c \in Clients, BeginMutation(c) PROVE Scheduled'
  BY <1>2 DEF BeginMutation, schedule, thread, client, history
<1>3. ASSUME NEW c \in Clients, EndMutation(c) PROVE Scheduled'
  BY <1>3 DEF EndMutation, schedule, thread, client, history
<1>4. ASSUME NEW c \in Clients, RecordMutation(c) PROVE Scheduled'
  <2>1. CASE mode = "Immediate"
    <3>1. force'
      BY <1>4, <2>1 DEF RecordMutation, ArmDeadline
    <3>2. QED
      BY <3>1
  <2>2. CASE mode = "Batched"
    <3>1. deadline' # None
      BY <1>4, <2>2 DEF RecordMutation, ArmDeadline
    <3>2. QED
      BY <3>1
  <2>3. QED
    BY <2>1, <2>2
<1>5. ASSUME NEW c \in Clients, RefuseMutation(c) PROVE Scheduled'
  BY <1>5 DEF RefuseMutation, schedule, thread, client, history
<1>6. ASSUME NEW c \in Clients, UnlockState(c) PROVE Scheduled'
  BY <1>6 DEF UnlockState, schedule, thread, client, history
<1>7. ASSUME NEW c \in Clients, DropReceipt(c) PROVE Scheduled'
  BY <1>7 DEF DropReceipt, schedule, thread, client, history
<1>8. ASSUME NEW c \in Clients, WaitReceipt(c) PROVE Scheduled'
  BY <1>8 DEF WaitReceipt, schedule, thread, client, history
<1>9. ASSUME NEW c \in Clients, Flush(c) PROVE Scheduled'
  BY <1>9 DEF Flush, NotifyAll, schedule, thread, client, history
<1>10. ASSUME NEW c \in Clients, WaitForEpoch(c) PROVE Scheduled'
  BY <1>10 DEF WaitForEpoch, schedule, thread, client, history
<1>11. ASSUME NEW c \in Clients, SpuriousClientWakeup(c) PROVE Scheduled'
  BY <1>11 DEF SpuriousClientWakeup, schedule, thread, client, history
<1>12. CASE ExitWhenStopped
  BY <1>12 DEF ExitWhenStopped, schedule, thread, client, history
<1>13. CASE ParkIdle
  BY <1>13 DEF ParkIdle, schedule, thread, client, history
<1>14. CASE ReturnDue
  BY <1>14 DEF ReturnDue, schedule, thread, client, history
<1>15. CASE ParkUntilDeadline
  BY <1>15 DEF ParkUntilDeadline, schedule, thread, client, history
<1>16. CASE WakeWorker
  BY <1>16 DEF WakeWorker, schedule, thread, client, history
<1>17. CASE SpuriousWorkerWakeup
  BY <1>17 DEF SpuriousWorkerWakeup, schedule, thread, client, history
<1>18. CASE ReadEpoch
  BY <1>18 DEF ReadEpoch, schedule, thread, client, history
<1>19. CASE Encode
  BY <1>19 DEF Encode, schedule, thread, client, history
<1>20. CASE Write
  BY <1>20 DEF Write, schedule, thread, client, history
<1>21. CASE Publish
  <2>1. CASE mutation_epoch = snapshot_epoch
    BY <1>21, <2>1 DEF Publish, ArmDeadline, NotifyAll
  <2>2. CASE mutation_epoch # snapshot_epoch /\ mode = "Immediate" /\ deadline = None
    <3>1. force'
      BY <1>21, <2>2 DEF Publish, ArmDeadline
    <3>2. QED
      BY <3>1
  <2>3. CASE mutation_epoch # snapshot_epoch /\ (mode = "Batched" \/ deadline # None)
    <3>1. deadline' # None
      BY <1>21, <2>3 DEF Publish, ArmDeadline
    <3>2. QED
      BY <3>1
  <2>4. QED
    BY <2>1, <2>2, <2>3
<1>22. CASE StoreFailure
  BY <1>22 DEF StoreFailure, NotifyAll, schedule, thread, client, history
<1>23. CASE OnFailure
  BY <1>23 DEF OnFailure, schedule, thread, client, history
<1>24. CASE RequestStop
  BY <1>24 DEF RequestStop, NotifyAll, schedule, thread, client, history
<1>25. CASE Join
  BY <1>25 DEF Join, schedule, thread, client, history
<1>26. CASE Tick
  BY <1>26 DEF Tick, schedule, thread, client, history
<1>27. CASE UNCHANGED vars
  BY <1>27 DEF vars, schedule, thread, client, history
<1>. QED
  BY <1>1, <1>2, <1>3, <1>4, <1>5, <1>6, <1>7, <1>8, <1>9, <1>10, <1>11, <1>12, <1>13, <1>14, <1>15, <1>16, <1>17, <1>18, <1>19, <1>20, <1>21, <1>22, <1>23, <1>24, <1>25, <1>26, <1>27 DEF Next, ClientStep, ClientProgress, WorkerProgress

(* Nobody sleeps through what concerns him. *)
LEMMA NoLostWakeupStep == TypeOK /\ Scheduled /\ NoLostWakeup /\ [Next]_vars => NoLostWakeup'
<1> SUFFICES ASSUME TypeOK, Scheduled, NoLostWakeup, [Next]_vars PROVE NoLostWakeup'
  OBVIOUS
<1> USE ConstantsAssumption DEF ConstantsAssumption, check_failure, TypeOK, Image, ClientPc, WorkerPc, None, NoLostWakeup, Scheduled, Pending, DueNow
<1>1. ASSUME NEW c \in Clients, LockState(c) PROVE NoLostWakeup'
  BY <1>1 DEF LockState, schedule, thread, client, history
<1>2. ASSUME NEW c \in Clients, BeginMutation(c) PROVE NoLostWakeup'
  BY <1>2 DEF BeginMutation, schedule, thread, client, history
<1>3. ASSUME NEW c \in Clients, EndMutation(c) PROVE NoLostWakeup'
  BY <1>3 DEF EndMutation, schedule, thread, client, history
<1>4. ASSUME NEW c \in Clients, RecordMutation(c) PROVE NoLostWakeup'
  BY <1>4 DEF RecordMutation, ArmDeadline, NotifyAll, schedule, thread, client, history
<1>5. ASSUME NEW c \in Clients, RefuseMutation(c) PROVE NoLostWakeup'
  BY <1>5 DEF RefuseMutation, schedule, thread, client, history
<1>6. ASSUME NEW c \in Clients, UnlockState(c) PROVE NoLostWakeup'
  BY <1>6 DEF UnlockState, schedule, thread, client, history
<1>7. ASSUME NEW c \in Clients, DropReceipt(c) PROVE NoLostWakeup'
  BY <1>7 DEF DropReceipt, schedule, thread, client, history
<1>8. ASSUME NEW c \in Clients, WaitReceipt(c) PROVE NoLostWakeup'
  BY <1>8 DEF WaitReceipt, schedule, thread, client, history
<1>9. ASSUME NEW c \in Clients, Flush(c) PROVE NoLostWakeup'
  BY <1>9 DEF Flush, NotifyAll, schedule, thread, client, history
<1>10. ASSUME NEW c \in Clients, WaitForEpoch(c) PROVE NoLostWakeup'
  BY <1>10 DEF WaitForEpoch, schedule, thread, client, history
<1>11. ASSUME NEW c \in Clients, SpuriousClientWakeup(c) PROVE NoLostWakeup'
  BY <1>11 DEF SpuriousClientWakeup, schedule, thread, client, history
<1>12. CASE ExitWhenStopped
  BY <1>12 DEF ExitWhenStopped, schedule, thread, client, history
<1>13. CASE ParkIdle
  BY <1>13 DEF ParkIdle, schedule, thread, client, history
<1>14. CASE ReturnDue
  BY <1>14 DEF ReturnDue, schedule, thread, client, history
<1>15. CASE ParkUntilDeadline
  BY <1>15 DEF ParkUntilDeadline, schedule, thread, client, history
<1>16. CASE WakeWorker
  BY <1>16 DEF WakeWorker, schedule, thread, client, history
<1>17. CASE SpuriousWorkerWakeup
  BY <1>17 DEF SpuriousWorkerWakeup, schedule, thread, client, history
<1>18. CASE ReadEpoch
  BY <1>18 DEF ReadEpoch, schedule, thread, client, history
<1>19. CASE Encode
  BY <1>19 DEF Encode, schedule, thread, client, history
<1>20. CASE Write
  BY <1>20 DEF Write, schedule, thread, client, history
<1>21. CASE Publish
  BY <1>21 DEF Publish, ArmDeadline, NotifyAll, schedule, thread, client, history
<1>22. CASE StoreFailure
  BY <1>22 DEF StoreFailure, NotifyAll, schedule, thread, client, history
<1>23. CASE OnFailure
  BY <1>23 DEF OnFailure, schedule, thread, client, history
<1>24. CASE RequestStop
  BY <1>24 DEF RequestStop, NotifyAll, schedule, thread, client, history
<1>25. CASE Join
  BY <1>25 DEF Join, schedule, thread, client, history
<1>26. CASE Tick
  BY <1>26 DEF Tick, schedule, thread, client, history
<1>27. CASE UNCHANGED vars
  BY <1>27 DEF vars, schedule, thread, client, history
<1>. QED
  BY <1>1, <1>2, <1>3, <1>4, <1>5, <1>6, <1>7, <1>8, <1>9, <1>10, <1>11, <1>12, <1>13, <1>14, <1>15, <1>16, <1>17, <1>18, <1>19, <1>20, <1>21, <1>22, <1>23, <1>24, <1>25, <1>26, <1>27 DEF Next, ClientStep, ClientProgress, WorkerProgress

(* The worker stores an error once, at its end. *)
LEMMA FailureIsLastStep == TypeOK /\ FailureIsLast /\ [Next]_vars => FailureIsLast'
<1> SUFFICES ASSUME TypeOK, FailureIsLast, [Next]_vars PROVE FailureIsLast'
  OBVIOUS
<1> USE ConstantsAssumption DEF ConstantsAssumption, check_failure, TypeOK, Image, ClientPc, WorkerPc, None, FailureIsLast
<1>1. ASSUME NEW c \in Clients, LockState(c) PROVE FailureIsLast'
  BY <1>1 DEF LockState, schedule, thread, client, history
<1>2. ASSUME NEW c \in Clients, BeginMutation(c) PROVE FailureIsLast'
  BY <1>2 DEF BeginMutation, schedule, thread, client, history
<1>3. ASSUME NEW c \in Clients, EndMutation(c) PROVE FailureIsLast'
  BY <1>3 DEF EndMutation, schedule, thread, client, history
<1>4. ASSUME NEW c \in Clients, RecordMutation(c) PROVE FailureIsLast'
  BY <1>4 DEF RecordMutation, ArmDeadline, NotifyAll, schedule, thread, client, history
<1>5. ASSUME NEW c \in Clients, RefuseMutation(c) PROVE FailureIsLast'
  BY <1>5 DEF RefuseMutation, schedule, thread, client, history
<1>6. ASSUME NEW c \in Clients, UnlockState(c) PROVE FailureIsLast'
  BY <1>6 DEF UnlockState, schedule, thread, client, history
<1>7. ASSUME NEW c \in Clients, DropReceipt(c) PROVE FailureIsLast'
  BY <1>7 DEF DropReceipt, schedule, thread, client, history
<1>8. ASSUME NEW c \in Clients, WaitReceipt(c) PROVE FailureIsLast'
  BY <1>8 DEF WaitReceipt, schedule, thread, client, history
<1>9. ASSUME NEW c \in Clients, Flush(c) PROVE FailureIsLast'
  BY <1>9 DEF Flush, NotifyAll, schedule, thread, client, history
<1>10. ASSUME NEW c \in Clients, WaitForEpoch(c) PROVE FailureIsLast'
  BY <1>10 DEF WaitForEpoch, schedule, thread, client, history
<1>11. ASSUME NEW c \in Clients, SpuriousClientWakeup(c) PROVE FailureIsLast'
  BY <1>11 DEF SpuriousClientWakeup, schedule, thread, client, history
<1>12. CASE ExitWhenStopped
  BY <1>12 DEF ExitWhenStopped, schedule, thread, client, history
<1>13. CASE ParkIdle
  BY <1>13 DEF ParkIdle, schedule, thread, client, history
<1>14. CASE ReturnDue
  BY <1>14 DEF ReturnDue, schedule, thread, client, history
<1>15. CASE ParkUntilDeadline
  BY <1>15 DEF ParkUntilDeadline, schedule, thread, client, history
<1>16. CASE WakeWorker
  BY <1>16 DEF WakeWorker, schedule, thread, client, history
<1>17. CASE SpuriousWorkerWakeup
  BY <1>17 DEF SpuriousWorkerWakeup, schedule, thread, client, history
<1>18. CASE ReadEpoch
  BY <1>18 DEF ReadEpoch, schedule, thread, client, history
<1>19. CASE Encode
  BY <1>19 DEF Encode, schedule, thread, client, history
<1>20. CASE Write
  BY <1>20 DEF Write, schedule, thread, client, history
<1>21. CASE Publish
  BY <1>21 DEF Publish, ArmDeadline, NotifyAll, schedule, thread, client, history
<1>22. CASE StoreFailure
  BY <1>22 DEF StoreFailure, NotifyAll, schedule, thread, client, history
<1>23. CASE OnFailure
  BY <1>23 DEF OnFailure, schedule, thread, client, history
<1>24. CASE RequestStop
  BY <1>24 DEF RequestStop, NotifyAll, schedule, thread, client, history
<1>25. CASE Join
  BY <1>25 DEF Join, schedule, thread, client, history
<1>26. CASE Tick
  BY <1>26 DEF Tick, schedule, thread, client, history
<1>27. CASE UNCHANGED vars
  BY <1>27 DEF vars, schedule, thread, client, history
<1>. QED
  BY <1>1, <1>2, <1>3, <1>4, <1>5, <1>6, <1>7, <1>8, <1>9, <1>10, <1>11, <1>12, <1>13, <1>14, <1>15, <1>16, <1>17, <1>18, <1>19, <1>20, <1>21, <1>22, <1>23, <1>24, <1>25, <1>26, <1>27 DEF Next, ClientStep, ClientProgress, WorkerProgress

(* The age is that of an uncovered mutation. *)
LEMMA AgeOfUncoveredStep == TypeOK /\ EpochOrder /\ AgeOfUncovered /\ [Next]_vars => AgeOfUncovered'
<1> SUFFICES ASSUME TypeOK, EpochOrder, AgeOfUncovered, [Next]_vars PROVE AgeOfUncovered'
  OBVIOUS
<1> USE ConstantsAssumption DEF ConstantsAssumption, check_failure, TypeOK, Image, ClientPc, WorkerPc, None, AgeOfUncovered, EpochOrder, Pending
<1>1. ASSUME NEW c \in Clients, LockState(c) PROVE AgeOfUncovered'
  BY <1>1 DEF LockState, schedule, thread, client, history
<1>2. ASSUME NEW c \in Clients, BeginMutation(c) PROVE AgeOfUncovered'
  BY <1>2 DEF BeginMutation, schedule, thread, client, history
<1>3. ASSUME NEW c \in Clients, EndMutation(c) PROVE AgeOfUncovered'
  BY <1>3 DEF EndMutation, schedule, thread, client, history
<1>4. ASSUME NEW c \in Clients, RecordMutation(c) PROVE AgeOfUncovered'
  BY <1>4 DEF RecordMutation, ArmDeadline, NotifyAll, schedule, thread, client, history
<1>5. ASSUME NEW c \in Clients, RefuseMutation(c) PROVE AgeOfUncovered'
  BY <1>5 DEF RefuseMutation, schedule, thread, client, history
<1>6. ASSUME NEW c \in Clients, UnlockState(c) PROVE AgeOfUncovered'
  BY <1>6 DEF UnlockState, schedule, thread, client, history
<1>7. ASSUME NEW c \in Clients, DropReceipt(c) PROVE AgeOfUncovered'
  BY <1>7 DEF DropReceipt, schedule, thread, client, history
<1>8. ASSUME NEW c \in Clients, WaitReceipt(c) PROVE AgeOfUncovered'
  BY <1>8 DEF WaitReceipt, schedule, thread, client, history
<1>9. ASSUME NEW c \in Clients, Flush(c) PROVE AgeOfUncovered'
  BY <1>9 DEF Flush, NotifyAll, schedule, thread, client, history
<1>10. ASSUME NEW c \in Clients, WaitForEpoch(c) PROVE AgeOfUncovered'
  BY <1>10 DEF WaitForEpoch, schedule, thread, client, history
<1>11. ASSUME NEW c \in Clients, SpuriousClientWakeup(c) PROVE AgeOfUncovered'
  BY <1>11 DEF SpuriousClientWakeup, schedule, thread, client, history
<1>12. CASE ExitWhenStopped
  BY <1>12 DEF ExitWhenStopped, schedule, thread, client, history
<1>13. CASE ParkIdle
  BY <1>13 DEF ParkIdle, schedule, thread, client, history
<1>14. CASE ReturnDue
  BY <1>14 DEF ReturnDue, schedule, thread, client, history
<1>15. CASE ParkUntilDeadline
  BY <1>15 DEF ParkUntilDeadline, schedule, thread, client, history
<1>16. CASE WakeWorker
  BY <1>16 DEF WakeWorker, schedule, thread, client, history
<1>17. CASE SpuriousWorkerWakeup
  BY <1>17 DEF SpuriousWorkerWakeup, schedule, thread, client, history
<1>18. CASE ReadEpoch
  BY <1>18 DEF ReadEpoch, schedule, thread, client, history
<1>19. CASE Encode
  BY <1>19 DEF Encode, schedule, thread, client, history
<1>20. CASE Write
  BY <1>20 DEF Write, schedule, thread, client, history
<1>21. CASE Publish
  BY <1>21 DEF Publish, ArmDeadline, NotifyAll, schedule, thread, client, history
<1>22. CASE StoreFailure
  BY <1>22 DEF StoreFailure, NotifyAll, schedule, thread, client, history
<1>23. CASE OnFailure
  BY <1>23 DEF OnFailure, schedule, thread, client, history
<1>24. CASE RequestStop
  BY <1>24 DEF RequestStop, NotifyAll, schedule, thread, client, history
<1>25. CASE Join
  BY <1>25 DEF Join, schedule, thread, client, history
<1>26. CASE Tick
  BY <1>26 DEF Tick, schedule, thread, client, history
<1>27. CASE UNCHANGED vars
  BY <1>27 DEF vars, schedule, thread, client, history
<1>. QED
  BY <1>1, <1>2, <1>3, <1>4, <1>5, <1>6, <1>7, <1>8, <1>9, <1>10, <1>11, <1>12, <1>13, <1>14, <1>15, <1>16, <1>17, <1>18, <1>19, <1>20, <1>21, <1>22, <1>23, <1>24, <1>25, <1>26, <1>27 DEF Next, ClientStep, ClientProgress, WorkerProgress

(* The deadline of the first uncovered mutation stands. *)
LEMMA DeadlineNotExtendedStep == TypeOK /\ EpochOrder /\ AgeOfUncovered /\ DeadlineNotExtended /\ [Next]_vars => DeadlineNotExtended'
<1> SUFFICES ASSUME TypeOK, EpochOrder, AgeOfUncovered, DeadlineNotExtended, [Next]_vars PROVE DeadlineNotExtended'
  OBVIOUS
<1> USE ConstantsAssumption DEF ConstantsAssumption, check_failure, TypeOK, Image, ClientPc, WorkerPc, None, DeadlineNotExtended, WithinDelay, EpochOrder, AgeOfUncovered, Pending
<1>1. ASSUME NEW c \in Clients, LockState(c) PROVE DeadlineNotExtended'
  BY <1>1 DEF LockState, schedule, thread, client, history
<1>2. ASSUME NEW c \in Clients, BeginMutation(c) PROVE DeadlineNotExtended'
  BY <1>2 DEF BeginMutation, schedule, thread, client, history
<1>3. ASSUME NEW c \in Clients, EndMutation(c) PROVE DeadlineNotExtended'
  BY <1>3 DEF EndMutation, schedule, thread, client, history
<1>4. ASSUME NEW c \in Clients, RecordMutation(c) PROVE DeadlineNotExtended'
  BY <1>4 DEF RecordMutation, ArmDeadline, NotifyAll, schedule, thread, client, history
<1>5. ASSUME NEW c \in Clients, RefuseMutation(c) PROVE DeadlineNotExtended'
  BY <1>5 DEF RefuseMutation, schedule, thread, client, history
<1>6. ASSUME NEW c \in Clients, UnlockState(c) PROVE DeadlineNotExtended'
  BY <1>6 DEF UnlockState, schedule, thread, client, history
<1>7. ASSUME NEW c \in Clients, DropReceipt(c) PROVE DeadlineNotExtended'
  BY <1>7 DEF DropReceipt, schedule, thread, client, history
<1>8. ASSUME NEW c \in Clients, WaitReceipt(c) PROVE DeadlineNotExtended'
  BY <1>8 DEF WaitReceipt, schedule, thread, client, history
<1>9. ASSUME NEW c \in Clients, Flush(c) PROVE DeadlineNotExtended'
  BY <1>9 DEF Flush, NotifyAll, schedule, thread, client, history
<1>10. ASSUME NEW c \in Clients, WaitForEpoch(c) PROVE DeadlineNotExtended'
  BY <1>10 DEF WaitForEpoch, schedule, thread, client, history
<1>11. ASSUME NEW c \in Clients, SpuriousClientWakeup(c) PROVE DeadlineNotExtended'
  BY <1>11 DEF SpuriousClientWakeup, schedule, thread, client, history
<1>12. CASE ExitWhenStopped
  BY <1>12 DEF ExitWhenStopped, schedule, thread, client, history
<1>13. CASE ParkIdle
  BY <1>13 DEF ParkIdle, schedule, thread, client, history
<1>14. CASE ReturnDue
  BY <1>14 DEF ReturnDue, schedule, thread, client, history
<1>15. CASE ParkUntilDeadline
  BY <1>15 DEF ParkUntilDeadline, schedule, thread, client, history
<1>16. CASE WakeWorker
  BY <1>16 DEF WakeWorker, schedule, thread, client, history
<1>17. CASE SpuriousWorkerWakeup
  BY <1>17 DEF SpuriousWorkerWakeup, schedule, thread, client, history
<1>18. CASE ReadEpoch
  BY <1>18 DEF ReadEpoch, schedule, thread, client, history
<1>19. CASE Encode
  BY <1>19 DEF Encode, schedule, thread, client, history
<1>20. CASE Write
  BY <1>20 DEF Write, schedule, thread, client, history
<1>21. CASE Publish
  BY <1>21 DEF Publish, ArmDeadline, NotifyAll, schedule, thread, client, history
<1>22. CASE StoreFailure
  BY <1>22 DEF StoreFailure, NotifyAll, schedule, thread, client, history
<1>23. CASE OnFailure
  BY <1>23 DEF OnFailure, schedule, thread, client, history
<1>24. CASE RequestStop
  BY <1>24 DEF RequestStop, NotifyAll, schedule, thread, client, history
<1>25. CASE Join
  BY <1>25 DEF Join, schedule, thread, client, history
<1>26. CASE Tick
  BY <1>26 DEF Tick, schedule, thread, client, history
<1>27. CASE UNCHANGED vars
  BY <1>27 DEF vars, schedule, thread, client, history
<1>. QED
  BY <1>1, <1>2, <1>3, <1>4, <1>5, <1>6, <1>7, <1>8, <1>9, <1>10, <1>11, <1>12, <1>13, <1>14, <1>15, <1>16, <1>17, <1>18, <1>19, <1>20, <1>21, <1>22, <1>23, <1>24, <1>25, <1>26, <1>27 DEF Next, ClientStep, ClientProgress, WorkerProgress

-----------------------------------------------------------------------------
(* The inductive invariant holds of every reachable state.                 *)
LEMMA Inductive == Spec => []IInv
<1>1. Init => IInv
  <2> SUFFICES ASSUME Init PROVE IInv
    OBVIOUS
  <2>1. TypeOK
    BY InitTypeOK
  <2>2. StateMutex /\ WholeImages /\ EpochOrder
    BY DEF Init, StateMutex, WholeImages, EpochOrder, HoldsState
  <2>3. Promises /\ Stopped
    BY DEF Init, Promises, Covered, Stopped
  <2>4. /\ Scheduled /\ NoLostWakeup /\ FailureIsLast /\ AgeOfUncovered
        /\ DeadlineNotExtended
    BY DEF Init, Scheduled, NoLostWakeup, FailureIsLast, AgeOfUncovered,
           DeadlineNotExtended, WithinDelay, Pending, None
  <2>5. QED
    BY <2>1, <2>2, <2>3, <2>4 DEF IInv
<1>2. IInv /\ [Next]_vars => IInv'
  BY TypeOKStep, StateMutexStep, WholeImagesStep, EpochOrderStep, PromisesStep,
     StoppedStep, ScheduledStep, NoLostWakeupStep, FailureIsLastStep,
     AgeOfUncoveredStep, DeadlineNotExtendedStep DEF IInv
<1>3. QED
  BY <1>1, <1>2, PTL DEF Spec

(* Durability: for any number of clients and mutations, whoever waited for *)
(* an epoch and was told Ok finds its mutation in the durable image.       *)
THEOREM Durability == Spec => []AckedIsDurable
<1>1. IInv => AckedIsDurable
  BY DEF IInv, Promises, Covered, AckedIsDurable
<1>2. QED
  BY <1>1, Inductive, PTL

(* ShutdownDurability: a shutdown that returns Ok has written everything   *)
(* recorded before it was requested.                                       *)
THEOREM ShutdownDurability == Spec => []ShutdownIsDurable
<1>1. IInv => ShutdownIsDurable
  BY DEF IInv, Stopped, ShutdownIsDurable
<1>2. QED
  BY <1>1, Inductive, PTL

(* Wholeness: run_persistence never makes a half-applied mutation durable. *)
THEOREM Wholeness == Spec => []WrittenIsWhole
<1>1. IInv => WrittenIsWhole
  BY DEF IInv, WholeImages, WrittenIsWhole
<1>2. QED
  BY <1>1, Inductive, PTL

(* WakeupSafety: every notify_all the code needs is there: no client and   *)
(* not the worker is parked once the condition it waits for holds.         *)
THEOREM WakeupSafety == Spec => []NoLostWakeup
<1>1. IInv => NoLostWakeup
  BY DEF IInv
<1>2. QED
  BY <1>1, Inductive, PTL

(* DeadlineSafety: the first mutation of a batch keeps its deadline,       *)
(* whatever is recorded or written after it, and the worker never sleeps   *)
(* on a mutation that has waited the batching delay.                       *)
THEOREM DeadlineSafety == Spec => []DeadlineNotExtended
<1>1. IInv => DeadlineNotExtended
  BY DEF IInv
<1>2. QED
  BY <1>1, Inductive, PTL

(* FailStopSafety: after the stored failure nothing is written, recorded   *)
(* or published, and the failure is never cleared.                         *)
THEOREM FailStopSafety == Spec => FailStop
<1>1. IInv /\ [Next]_vars =>
        [failure => failure' /\ UNCHANGED <<written, mutation_epoch, persisted_epoch>>]_vars
  <2> SUFFICES ASSUME IInv, [Next]_vars, failure
               PROVE  failure' /\ UNCHANGED <<written, mutation_epoch, persisted_epoch>>
    OBVIOUS
  <2>1. worker \in {"on_failure", "exited_err"}
    BY DEF IInv, FailureIsLast
  <2>2. ASSUME NEW c \in Clients, ClientStep(c)
        PROVE  failure' /\ UNCHANGED <<written, mutation_epoch, persisted_epoch>>
    BY <2>2 DEF ClientStep, ClientProgress, LockState, BeginMutation, EndMutation,
       RecordMutation, RefuseMutation, UnlockState, DropReceipt, WaitReceipt, Flush,
       WaitForEpoch, SpuriousClientWakeup, check_failure, schedule, thread
  <2>3. CASE WorkerProgress \/ SpuriousWorkerWakeup
    BY <2>1, <2>3 DEF WorkerProgress, SpuriousWorkerWakeup, ExitWhenStopped, ParkIdle,
       ReturnDue, ParkUntilDeadline, WakeWorker, ReadEpoch, Encode, Write, Publish,
       StoreFailure, OnFailure, schedule
  <2>4. CASE RequestStop \/ Join \/ Tick
    BY <2>4 DEF RequestStop, Join, Tick, schedule, thread
  <2>5. CASE UNCHANGED vars
    BY <2>5 DEF vars, schedule, thread
  <2>6. QED
    BY <2>2, <2>3, <2>4, <2>5 DEF Next
<1>2. QED
  BY <1>1, Inductive, PTL DEF Spec, FailStop
=============================================================================
