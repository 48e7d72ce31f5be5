----------------------------- MODULE ReplaceFile -----------------------------
(***************************************************************************)
(* replace_file_atomically of src/src/state_persistence.rs over a POSIX    *)
(* file system that may lose what was not synced.                          *)
(*                                                                         *)
(* For every name and every file the model keeps what the running system   *)
(* sees and the set of what a power failure may leave ("maybe").  A change *)
(* adds to the set, a sync reduces it to the present value.  Files are     *)
(* numbered in the order of their creation; 0 is the state before the      *)
(* first write, and the absence of a temporary file.  The process id in    *)
(* the temporary names is always reused after a restart, the worst case    *)
(* for collisions with files left behind.                                  *)
(***************************************************************************)
EXTENDS Integers

CONSTANTS
  Writers,       \* threads of the process that may call the function
  FileBound,     \* bound on the files created
  NameBound,     \* bound on the temporary ids used by one incarnation: a
                 \* call starts only if FileBound collisions still fit
  CrashBound     \* bound on kills and power failures

ASSUME BoundsAssumption ==
  FileBound \in Nat /\ NameBound \in Nat /\ CrashBound \in Nat
  /\ FileBound <= NameBound

Files == 0 .. FileBound
Names == 0 .. NameBound
Contents == {"empty", "torn", "whole"}

VARIABLES
  path, path_maybe,    \* directory entry of the state file
  temp, temp_maybe,    \* directory entries of the temporary files
  data, data_maybe,    \* content of every file
  created,             \* files created so far
  next_temporary,      \* NEXT_TEMPORARY_FILE
  pc, name, file,      \* each caller: program counter, temporary, open file
  crashes,
  stamp, commits, acked  \* history: order of the renames, youngest Ok

disk == <<path, path_maybe, temp, temp_maybe, data, data_maybe, created>>
locals == <<pc, name, file>>
history == <<stamp, commits, acked>>
vars == <<disk, next_temporary, locals, crashes, history>>

Init ==
  /\ path = 0 /\ path_maybe = {0}
  /\ temp = [n \in Names |-> 0] /\ temp_maybe = [n \in Names |-> {0}]
  /\ data = [f \in Files |-> "whole"] /\ data_maybe = [f \in Files |-> {"whole"}]
  /\ created = 0
  /\ next_temporary = 0
  /\ pc = [w \in Writers |-> "idle"]
  /\ name = [w \in Writers |-> 0] /\ file = [w \in Writers |-> 0]
  /\ crashes = 0
  /\ stamp = [f \in Files |-> 0] /\ commits = 0 /\ acked = 0

-----------------------------------------------------------------------------
Goto(w, label) == pc' = [pc EXCEPT ![w] = label]

(* Mutant of FetchId: a counter that is too narrow.                        *)
FetchNarrowId(w) ==
  /\ name' = [name EXCEPT ![w] = next_temporary]
  /\ next_temporary' = (next_temporary + 1) % 2

(* fetch_add on NEXT_TEMPORARY_FILE, at the call and after a collision.    *)
FetchId(w) ==
  /\ name' = [name EXCEPT ![w] = next_temporary]
  /\ next_temporary' = next_temporary + 1

Begin(w) ==
  /\ pc[w] = "idle" /\ created < FileBound /\ next_temporary <= NameBound - FileBound
  /\ FetchId(w) /\ Goto(w, "open")
  /\ UNCHANGED <<disk, file, crashes, history>>

(* create_new: the file is made, ...                                       *)
CreateNew(w) ==
  /\ pc[w] = "open" /\ temp[name[w]] = 0 /\ created < FileBound
  /\ created' = created + 1
  /\ file' = [file EXCEPT ![w] = created + 1]
  /\ temp' = [temp EXCEPT ![name[w]] = created + 1]
  /\ temp_maybe' = [temp_maybe EXCEPT ![name[w]] = @ \cup {created + 1}]
  /\ data' = [data EXCEPT ![created + 1] = "empty"]
  /\ data_maybe' = [data_maybe EXCEPT ![created + 1] = {"empty"}]
  /\ Goto(w, "write")
  /\ UNCHANGED <<path, path_maybe, name, next_temporary, crashes, history>>

(* ... or AlreadyExists and the loop tries the next id, ...                *)
NameTaken(w) ==
  /\ pc[w] = "open" /\ temp[name[w]] # 0
  /\ FetchId(w)
  /\ UNCHANGED <<disk, pc, file, crashes, history>>

(* Mutant of OpenFails: the error path covers the open as well.            *)
OpenFailsAndRemoves(w) ==
  /\ pc[w] = "open" /\ Goto(w, "remove")
  /\ UNCHANGED <<disk, name, file, next_temporary, crashes, history>>

(* ... or any other error, which returns before there is anything to undo. *)
OpenFails(w) ==
  /\ pc[w] = "open" /\ Goto(w, "idle")
  /\ UNCHANGED <<disk, name, file, next_temporary, crashes, history>>

(* write_all: nothing of it is durable yet; a failure leaves any prefix.   *)
WriteAll(w) ==
  /\ pc[w] = "write"
  /\ data_maybe' = [data_maybe EXCEPT ![file[w]] = Contents]
  /\ \/ /\ data' = [data EXCEPT ![file[w]] = "whole"]
        /\ Goto(w, "sync")
     \/ /\ \E d \in {"empty", "torn"} : data' = [data EXCEPT ![file[w]] = d]
        /\ Goto(w, "remove")
  /\ UNCHANGED <<path, path_maybe, temp, temp_maybe, created, name, file,
                 next_temporary, crashes, history>>

(* Mutant of SyncFile: the content is not synced before the rename.        *)
SkipSyncFile(w) ==
  /\ pc[w] = "sync" /\ Goto(w, "rename")
  /\ UNCHANGED <<disk, name, file, next_temporary, crashes, history>>

(* sync_all of the temporary file.                                         *)
SyncFile(w) ==
  /\ pc[w] = "sync"
  /\ \/ /\ data_maybe' = [data_maybe EXCEPT ![file[w]] = {data[file[w]]}]
        /\ Goto(w, "rename")
     \/ /\ Goto(w, "remove")
        /\ UNCHANGED data_maybe
  /\ UNCHANGED <<path, path_maybe, temp, temp_maybe, data, created, name, file,
                 next_temporary, crashes, history>>

(* rename moves the directory entry, atomically for the running system.    *)
Rename(w) ==
  /\ pc[w] = "rename"
  /\ \/ /\ path' = file[w] /\ path_maybe' = path_maybe \cup {file[w]}
        /\ temp' = [temp EXCEPT ![name[w]] = 0]
        /\ temp_maybe' = [temp_maybe EXCEPT ![name[w]] = @ \cup {0}]
        /\ stamp' = [stamp EXCEPT ![file[w]] = commits + 1]
        /\ commits' = commits + 1
        /\ Goto(w, "sync_parent")
     \/ /\ Goto(w, "remove")
        /\ UNCHANGED <<path, path_maybe, temp, temp_maybe, stamp, commits>>
  /\ UNCHANGED <<data, data_maybe, created, name, file, next_temporary, crashes, acked>>

(* Mutant of SyncParent: Ok as soon as the rename is done.                 *)
SkipSyncParent(w) ==
  /\ pc[w] = "sync_parent" /\ Goto(w, "idle")
  /\ acked' = IF acked < stamp[file[w]] THEN stamp[file[w]] ELSE acked
  /\ UNCHANGED <<disk, name, file, next_temporary, crashes, stamp, commits>>

(* Open and sync the parent directory, the last step before Ok; it fails   *)
(* also when the path has no parent that can be opened.                    *)
SyncParent(w) ==
  /\ pc[w] = "sync_parent"
  /\ \/ /\ path_maybe' = {path}
        /\ temp_maybe' = [n \in Names |-> {temp[n]}]
        /\ acked' = IF acked < stamp[file[w]] THEN stamp[file[w]] ELSE acked
        /\ Goto(w, "idle")
     \/ /\ Goto(w, "remove")
        /\ UNCHANGED <<path_maybe, temp_maybe, acked>>
  /\ UNCHANGED <<path, temp, data, data_maybe, created, name, file, next_temporary,
                 crashes, stamp, commits>>

(* remove_file on the error path; its own result is ignored, and after the *)
(* rename the name is already gone.                                        *)
RemoveTemporary(w) ==
  /\ pc[w] = "remove"
  /\ \/ /\ temp' = [temp EXCEPT ![name[w]] = 0]
        /\ temp_maybe' = [temp_maybe EXCEPT ![name[w]] = @ \cup {0}]
     \/ UNCHANGED <<temp, temp_maybe>>
  /\ Goto(w, "idle")
  /\ UNCHANGED <<path, path_maybe, data, data_maybe, created, name, file,
                 next_temporary, crashes, history>>

-----------------------------------------------------------------------------
(* Everything volatile in the process is gone; ids start again at 0.       *)
Restart ==
  /\ crashes < CrashBound /\ crashes' = crashes + 1
  /\ pc' = [w \in Writers |-> "idle"]
  /\ name' = [w \in Writers |-> 0] /\ file' = [w \in Writers |-> 0]
  /\ next_temporary' = 0
  /\ UNCHANGED <<created, history>>

(* The process is killed; the operating system keeps its caches.           *)
Kill ==
  /\ Restart
  /\ UNCHANGED <<path, path_maybe, temp, temp_maybe, data, data_maybe>>

(* Power fails: every name keeps one of its possible values, and so does   *)
(* the content of the state file.  What temporary files contain is never   *)
(* read again.                                                             *)
PowerFailure ==
  /\ Restart
  /\ path' \in path_maybe /\ path_maybe' = {path'}
  /\ temp' \in {t \in [Names -> Files] : \A n \in Names : t[n] \in temp_maybe[n]}
  /\ temp_maybe' = [n \in Names |-> {temp'[n]}]
  /\ \E d \in data_maybe[path'] :
       /\ data' = [f \in Files |-> IF f = path' THEN d ELSE "torn"]
       /\ data_maybe' = [f \in Files |-> {data'[f]}]

CallStep(w) ==
  \/ CreateNew(w) \/ NameTaken(w) \/ OpenFails(w) \/ WriteAll(w) \/ SyncFile(w)
  \/ Rename(w) \/ SyncParent(w) \/ RemoveTemporary(w)

Next ==
  \/ \E w \in Writers : Begin(w) \/ CallStep(w)
  \/ Kill \/ PowerFailure

Spec == Init /\ [][Next]_vars

(* The file system answers every call.                                     *)
FairSpec == Spec /\ \A w \in Writers : WF_vars(CallStep(w))

-----------------------------------------------------------------------------
(* The state file as an AtomicFile: commits are identified by the order of *)
(* their renames; a file that is not whole is no commit at all.            *)
Torn == -1
CommitOf(f, d) == IF d = "whole" THEN stamp[f] ELSE Torn

File == INSTANCE AtomicFile WITH
  value <- CommitOf(path, data[path]),
  survivors <- UNION {{CommitOf(f, d) : d \in data_maybe[f]} : f \in path_maybe}

(* ImplementsAtomicFile: whatever fails, is killed or loses power, and     *)
(* whoever else writes, the state file is an AtomicFile: whole images      *)
(* only, and none older than the last one reported Ok.                     *)
ImplementsAtomicFile == File!Spec

(* AckedSurvives: no image that a power failure may leave at the path is   *)
(* older than one whose replace_file_atomically returned Ok.               *)
AckedSurvives == File!AckedSurvives

(* OwnTemporary: a call writes, syncs and renames the file it created, and *)
(* its error path removes no other call's file, although ids start again   *)
(* after a restart and old temporary files are never collected.            *)
OwnTemporary ==
  \A w \in Writers :
    /\ pc[w] \in {"write", "sync", "rename"} => temp[name[w]] = file[w]
    /\ pc[w] = "remove" => temp[name[w]] \in {0, file[w]}

(* ReplaceReturns: every call returns; in particular the search for a free *)
(* temporary name ends.                                                    *)
ReplaceReturns == \A w \in Writers : pc[w] # "idle" ~> pc[w] = "idle"
=============================================================================
