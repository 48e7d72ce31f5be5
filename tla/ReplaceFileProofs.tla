-------------------------- MODULE ReplaceFileProofs --------------------------
(***************************************************************************)
(* Proofs about ReplaceFile for any number of writers, files, names and    *)
(* crashes: a call works on its own temporary file only, no acknowledged   *)
(* image can be lost, and the state file is an AtomicFile.                 *)
(***************************************************************************)
EXTENDS ReplaceFile, FiniteSetTheorems, TLAPS

Labels == {"idle", "open", "write", "sync", "rename", "sync_parent", "remove"}

TypeOK ==
  /\ path \in Files /\ path_maybe \in SUBSET Files
  /\ temp \in [Names -> Files] /\ temp_maybe \in [Names -> SUBSET Files]
  /\ data \in [Files -> Contents] /\ data_maybe \in [Files -> SUBSET Contents]
  /\ created \in Files /\ next_temporary \in Nat
  /\ pc \in [Writers -> Labels]
  /\ name \in [Writers -> Names] /\ file \in [Writers -> Files]
  /\ stamp \in [Files -> Nat] /\ commits \in Nat /\ acked \in Nat

(* The ids of the calls under way are used once.                           *)
OwnNames ==
  /\ \A w \in Writers : pc[w] # "idle" => name[w] < next_temporary
  /\ \A v, w \in Writers : pc[v] # "idle" /\ pc[w] # "idle" /\ name[v] = name[w] => v = w

(* A file is, or can come back, under one temporary name only.             *)
OneNamePerFile ==
  /\ \A n \in Names : temp[n] \in temp_maybe[n]
  /\ \A n \in Names : \A f \in temp_maybe[n] : f <= created
  /\ \A m, n \in Names : \A f \in temp_maybe[m] \cap temp_maybe[n] : f = 0 \/ m = n

(* Names that are passed over: files that no call under way will remove.   *)
Leftover ==
  {n \in Names : /\ n < next_temporary /\ temp[n] # 0
                 /\ \A w \in Writers : pc[w] # "idle" => name[w] # n}

(* The ids handed out beyond those of Begin are paid for by leftovers.     *)
EnoughNames == next_temporary <= NameBound - FileBound + 1 + Cardinality(Leftover)

(* The file of a call: not yet committed and whole when it is renamed,     *)
(* committed and not overtaken by an older one after it.                   *)
FileOfCall ==
  \A w \in Writers :
    /\ pc[w] \in {"write", "sync", "rename"} =>
         file[w] # 0 /\ file[w] <= created /\ stamp[file[w]] = 0
    /\ pc[w] \in {"sync", "rename"} => data[file[w]] = "whole"
    /\ pc[w] = "rename" => data_maybe[file[w]] = {"whole"}
    /\ pc[w] = "sync_parent" => stamp[file[w]] <= stamp[path]

(* The name of a call refers to the call's file or, after the rename, to   *)
(* nothing.                                                                *)
CallNames == OwnTemporary /\ \A w \in Writers : pc[w] = "sync_parent" => temp[name[w]] = 0

(* Whatever may be at the path is a whole, committed image, and no older   *)
(* than what was acknowledged.                                             *)
PathIsWhole ==
  /\ path \in path_maybe
  /\ \A f \in path_maybe :
       /\ data[f] = "whole" /\ data_maybe[f] = {"whole"}
       /\ f # 0 => stamp[f] # 0
       /\ acked <= stamp[f]
  /\ \A f \in Files : stamp[f] <= commits /\ (f > created => stamp[f] = 0)
  /\ stamp[0] = 0

FileInv ==
  /\ TypeOK /\ OwnNames /\ OneNamePerFile /\ EnoughNames
  /\ CallNames /\ FileOfCall /\ PathIsWhole

-----------------------------------------------------------------------------
(* The names.                                                              *)
LEMMA LeftoverFinite ==
  /\ IsFiniteSet(Leftover) /\ Cardinality(Leftover) \in Nat
  /\ IsFiniteSet(Leftover') /\ Cardinality(Leftover') \in Nat
<1>1. IsFiniteSet(Names)
  BY FS_Interval, BoundsAssumption DEF Names, BoundsAssumption
<1>2. Leftover \in SUBSET Names /\ Leftover' \in SUBSET Names
  BY DEF Leftover
<1>3. IsFiniteSet(Leftover) /\ IsFiniteSet(Leftover')
  BY <1>1, <1>2, FS_Subset
<1>. QED
  BY <1>3, FS_CardinalityType

(* A step that fetches no id and gives up no leftover.                     *)
LEMMA KeepsEnoughNames ==
  ASSUME FileInv, next_temporary' = next_temporary, Leftover \subseteq Leftover'
  PROVE  EnoughNames'
<1>1. Cardinality(Leftover) <= Cardinality(Leftover')
  BY LeftoverFinite, FS_Subset
<1>2. \A c, d \in Nat : c <= d /\ next_temporary <= NameBound - FileBound + 1 + c
                        => next_temporary <= NameBound - FileBound + 1 + d
  BY BoundsAssumption DEF FileInv, TypeOK, BoundsAssumption
<1>. QED
  BY <1>1, <1>2, LeftoverFinite DEF FileInv, EnoughNames

(* Before the first call after a restart.                                  *)
LEMMA FreshEnoughNames ==
  ASSUME next_temporary' = 0 PROVE EnoughNames'
<1>1. \A c \in Nat : 0 <= NameBound - FileBound + 1 + c
  BY BoundsAssumption DEF BoundsAssumption
<1>. QED
  BY <1>1, LeftoverFinite DEF EnoughNames

(* Names that refer to different ones of k files: at most k.               *)
LEMMA AtMostOneEach ==
  ASSUME NEW S, IsFiniteSet(S), NEW k \in Nat, NEW f \in [S -> 1 .. k],
         \A m, n \in S : f[m] = f[n] => m = n
  PROVE  Cardinality(S) <= k
<1>1. Cardinality(S) \in Nat
  BY FS_CardinalityType
<1>2. IsFiniteSet(1 .. k) /\ Cardinality(1 .. k) = k
  BY FS_Interval
<1>3. SUFFICES ASSUME k < Cardinality(S) PROVE FALSE
  BY <1>1
<1>4. \E m, n \in S : m # n /\ f[m] = f[n]
  BY <1>2, <1>3, FS_PigeonHole
<1>. QED
  BY <1>4

(* A name that is taken belongs to none of the calls under way: there is   *)
(* one leftover more, and no more of them than files.                      *)
LEMMA TakenNameFits ==
  ASSUME FileInv, NEW w \in Writers, NameTaken(w)
  PROVE  next_temporary \in Names /\ EnoughNames'
<1> DEFINE Passed == Leftover \cup {name[w]}
<1> USE DEF FileInv
<1>1. /\ name[w] \in Names /\ name[w] < next_temporary /\ temp[name[w]] # 0
      /\ pc[w] = "open" /\ name' = [name EXCEPT ![w] = next_temporary]
      /\ next_temporary' = next_temporary + 1 /\ pc' = pc /\ temp' = temp
  BY DEF NameTaken, FetchId, disk, TypeOK, OwnNames
<1>2. name[w] \notin Leftover
  BY <1>1 DEF Leftover
<1>3. IsFiniteSet(Passed) /\ Cardinality(Passed) = Cardinality(Leftover) + 1
  BY <1>2, LeftoverFinite, FS_AddElement
<1>4. Cardinality(Passed) <= FileBound
  <2> DEFINE f == [n \in Passed |-> temp[n]]
  <2>1. Passed \subseteq Names /\ \A n \in Passed : temp[n] # 0
    BY <1>1 DEF Leftover
  <2>2. \A n \in Passed : temp[n] \in 1 .. FileBound
    BY <2>1, BoundsAssumption DEF TypeOK, Files, BoundsAssumption
  <2>3. \A m, n \in Passed : temp[m] = temp[n] => m = n
    BY <2>1 DEF OneNamePerFile
  <2>4. f \in [Passed -> 1 .. FileBound] /\ \A m, n \in Passed : f[m] = f[n] => m = n
    BY <2>2, <2>3
  <2>5. FileBound \in Nat
    BY BoundsAssumption DEF BoundsAssumption
  <2> HIDE DEF f, Passed
  <2>. QED
    BY <1>3, <2>4, <2>5, AtMostOneEach
<1>5. next_temporary <= NameBound
  <2>1. \A c \in Nat : c + 1 <= FileBound /\ next_temporary <= NameBound - FileBound + 1 + c
                       => next_temporary <= NameBound
    BY BoundsAssumption DEF TypeOK, BoundsAssumption
  <2>. QED
    BY <1>3, <1>4, <2>1, LeftoverFinite DEF EnoughNames
<1>6. next_temporary \in Names
  BY <1>5, BoundsAssumption DEF TypeOK, Names, BoundsAssumption
<1>7. Passed \subseteq Leftover'
  <2>1. ASSUME NEW n \in Passed PROVE n \in Names /\ n < next_temporary + 1 /\ temp[n] # 0
    BY <1>1 DEF Leftover, Names, TypeOK
  <2>2. ASSUME NEW n \in Passed, NEW v \in Writers, pc[v] # "idle" PROVE name'[v] # n
    <3>1. CASE v = w
      BY <1>1, <3>1 DEF Leftover, Names, TypeOK
    <3>2. CASE v # w
      BY <1>1, <2>2, <3>2 DEF Leftover, TypeOK, OwnNames
    <3>. QED
      BY <3>1, <3>2
  <2>. QED
    BY <1>1, <2>1, <2>2 DEF Leftover
<1>8. Cardinality(Leftover) + 1 <= Cardinality(Leftover')
  BY <1>3, <1>7, LeftoverFinite, FS_Subset
<1>9. \A c, d \in Nat : c + 1 <= d /\ next_temporary <= NameBound - FileBound + 1 + c
                        => next_temporary + 1 <= NameBound - FileBound + 1 + d
  BY BoundsAssumption DEF TypeOK, BoundsAssumption
<1>. QED
  BY <1>1, <1>6, <1>8, <1>9, LeftoverFinite DEF EnoughNames

-----------------------------------------------------------------------------
(* The steps.                                                              *)
LEMMA FileInitInv == Init => FileInv
<1> SUFFICES ASSUME Init PROVE FileInv
  OBVIOUS
<1> USE BoundsAssumption DEF Init, BoundsAssumption
<1>1. TypeOK
  BY DEF TypeOK, Files, Names, Contents, Labels
<1>2. OwnNames /\ OneNamePerFile /\ CallNames /\ FileOfCall
  BY DEF OwnNames, OneNamePerFile, CallNames, OwnTemporary, FileOfCall
<1>3. EnoughNames
  <2>1. \A c \in Nat : 0 <= NameBound - FileBound + 1 + c
    OBVIOUS
  <2>. QED
    BY <2>1, LeftoverFinite DEF EnoughNames
<1>4. PathIsWhole
  BY DEF PathIsWhole, Files
<1>. QED
  BY <1>1, <1>2, <1>3, <1>4 DEF FileInv

LEMMA BeginInv ==
  ASSUME FileInv, NEW w \in Writers, Begin(w) PROVE FileInv'
<1> USE DEF FileInv
<1>1. /\ pc[w] = "idle" /\ next_temporary <= NameBound - FileBound
      /\ pc' = [pc EXCEPT ![w] = "open"]
      /\ name' = [name EXCEPT ![w] = next_temporary]
      /\ next_temporary' = next_temporary + 1
      /\ UNCHANGED <<path, path_maybe, temp, temp_maybe, data, data_maybe, created, file,
                     stamp, commits, acked>>
  BY DEF Begin, FetchId, Goto, disk, history
<1>2. next_temporary \in Names
  BY <1>1, BoundsAssumption DEF TypeOK, Names, BoundsAssumption
<1>3. TypeOK'
  BY <1>1, <1>2 DEF TypeOK, Labels
<1>4. OwnNames'
  BY <1>1 DEF OwnNames, TypeOK, Names
<1>5. OneNamePerFile' /\ PathIsWhole'
  BY <1>1 DEF OneNamePerFile, PathIsWhole
<1>6. EnoughNames'
  <2>1. \A c \in Nat : next_temporary + 1 <= NameBound - FileBound + 1 + c
    BY <1>1, BoundsAssumption DEF TypeOK, BoundsAssumption
  <2>. QED
    BY <1>1, <2>1, LeftoverFinite DEF EnoughNames
<1>7. CallNames'
  BY <1>1 DEF CallNames, OwnTemporary, TypeOK
<1>8. FileOfCall'
  BY <1>1 DEF FileOfCall, TypeOK
<1>. QED
  BY <1>3, <1>4, <1>5, <1>6, <1>7, <1>8

LEMMA NameTakenInv ==
  ASSUME FileInv, NEW w \in Writers, NameTaken(w) PROVE FileInv'
<1>1. next_temporary \in Names /\ EnoughNames'
  BY TakenNameFits
<1> USE DEF FileInv
<1>2. /\ pc[w] = "open" /\ pc' = pc
      /\ name' = [name EXCEPT ![w] = next_temporary]
      /\ next_temporary' = next_temporary + 1
      /\ UNCHANGED <<path, path_maybe, temp, temp_maybe, data, data_maybe, created, file,
                     stamp, commits, acked>>
  BY DEF NameTaken, FetchId, disk, history
<1>3. TypeOK'
  BY <1>1, <1>2 DEF TypeOK
<1>4. OwnNames'
  BY <1>2 DEF OwnNames, TypeOK, Names
<1>5. OneNamePerFile' /\ PathIsWhole'
  BY <1>2 DEF OneNamePerFile, PathIsWhole
<1>6. CallNames'
  BY <1>2 DEF CallNames, OwnTemporary, TypeOK
<1>7. FileOfCall'
  BY <1>2 DEF FileOfCall, TypeOK
<1>. QED
  BY <1>1, <1>2, <1>3, <1>4, <1>5, <1>6, <1>7

(* The new file has no other name, now or after a power failure, and is    *)
(* not committed.                                                          *)
LEMMA CreateNewInv ==
  ASSUME FileInv, NEW w \in Writers, CreateNew(w) PROVE FileInv'
<1> DEFINE new == created + 1
<1> USE DEF FileInv
<1>1. /\ pc[w] = "open" /\ temp[name[w]] = 0 /\ created < FileBound
      /\ created' = new /\ file' = [file EXCEPT ![w] = new]
      /\ temp' = [temp EXCEPT ![name[w]] = new]
      /\ temp_maybe' = [temp_maybe EXCEPT ![name[w]] = @ \cup {new}]
      /\ data' = [data EXCEPT ![new] = "empty"]
      /\ data_maybe' = [data_maybe EXCEPT ![new] = {"empty"}]
      /\ pc' = [pc EXCEPT ![w] = "write"]
      /\ UNCHANGED <<path, path_maybe, name, next_temporary, stamp, commits, acked>>
  BY DEF CreateNew, Goto, history
<1>2. /\ created \in Nat /\ new \in Files /\ new # 0 /\ stamp[new] = 0
      /\ new \notin path_maybe /\ \A n \in Names : new \notin temp_maybe[n]
  <2>1. created \in Nat /\ new \in Files /\ new # 0 /\ new > created
    BY <1>1, BoundsAssumption DEF TypeOK, Files, BoundsAssumption
  <2>2. stamp[new] = 0
    BY <2>1 DEF PathIsWhole
  <2>3. new \notin path_maybe
    BY <2>1, <2>2 DEF PathIsWhole
  <2>4. \A n \in Names : new \notin temp_maybe[n]
    BY <2>1 DEF OneNamePerFile
  <2>. QED
    BY <2>1, <2>2, <2>3, <2>4
<1>3. name[w] \in Names
  BY DEF TypeOK
<1> HIDE DEF new
<1>4. TypeOK'
  <2>1. temp_maybe[name[w]] \cup {new} \in SUBSET Files
    BY <1>2, <1>3 DEF TypeOK
  <2>2. temp' \in [Names -> Files] /\ temp_maybe' \in [Names -> SUBSET Files]
    BY <1>1, <1>2, <1>3, <2>1 DEF TypeOK
  <2>3. data' \in [Files -> Contents] /\ data_maybe' \in [Files -> SUBSET Contents]
    BY <1>1, <1>2 DEF TypeOK, Contents
  <2>. QED
    BY <1>1, <1>2, <2>2, <2>3 DEF TypeOK, Labels
<1>5. OwnNames'
  BY <1>1 DEF OwnNames, TypeOK
<1>6. OneNamePerFile'
  <2>1. \A n \in Names : n # name[w] => temp'[n] = temp[n] /\ temp_maybe'[n] = temp_maybe[n]
    BY <1>1, <1>3 DEF TypeOK
  <2>2. temp'[name[w]] = new /\ temp_maybe'[name[w]] = temp_maybe[name[w]] \cup {new}
    BY <1>1, <1>3 DEF TypeOK
  <2>3. \A n \in Names : temp'[n] \in temp_maybe'[n]
    BY <2>1, <2>2 DEF OneNamePerFile
  <2>4. ASSUME NEW n \in Names, NEW f \in temp_maybe'[n] PROVE f <= created'
    <3>1. f = new \/ f \in temp_maybe[n]
      BY <2>1, <2>2
    <3>2. f \in temp_maybe[n] => f \in Files /\ f <= created
      BY DEF OneNamePerFile, TypeOK
    <3>. QED
      BY <1>1, <1>2, <3>1, <3>2 DEF Files, new
  <2>5. ASSUME NEW m \in Names, NEW n \in Names, NEW f \in temp_maybe'[m] \cap temp_maybe'[n]
        PROVE  f = 0 \/ m = n
    <3>1. CASE f = new
      BY <1>2, <2>1, <2>2, <2>5, <3>1
    <3>2. CASE f # new
      BY <2>1, <2>2, <2>5, <3>2 DEF OneNamePerFile
    <3>. QED
      BY <3>1, <3>2
  <2>. QED
    BY <2>3, <2>4, <2>5 DEF OneNamePerFile
<1>7. EnoughNames'
  <2>1. ASSUME NEW n \in Leftover PROVE n \in Leftover'
    <3>1. n # name[w]
      BY <1>1 DEF Leftover
    <3>. QED
      BY <1>1, <1>3, <3>1 DEF Leftover, TypeOK
  <2>. QED
    BY <1>1, <2>1, KeepsEnoughNames
<1>8. CallNames'
  <2>1. ASSUME NEW v \in Writers, v # w, pc[v] # "idle" PROVE temp'[name'[v]] = temp[name[v]]
    BY <1>1, <1>3, <2>1 DEF OwnNames, TypeOK
  <2>2. temp'[name'[w]] = file'[w] /\ pc'[w] = "write"
    BY <1>1, <1>3 DEF TypeOK
  <2>3. \A v \in Writers : v # w => pc'[v] = pc[v] /\ file'[v] = file[v]
    BY <1>1 DEF TypeOK
  <2>. QED
    BY <2>1, <2>2, <2>3 DEF CallNames, OwnTemporary
<1>9. FileOfCall'
  <2>1. ASSUME NEW v \in Writers, v # w, pc[v] \in {"write", "sync", "rename"}
        PROVE  file[v] # new /\ file[v] <= created'
    BY <1>1, <1>2, <2>1 DEF FileOfCall, TypeOK, Files, new
  <2>2. new <= created'
    BY <1>1, <1>2 DEF Files
  <2>3. \A v \in Writers : v # w => pc'[v] = pc[v] /\ file'[v] = file[v]
    BY <1>1 DEF TypeOK
  <2>4. pc'[w] = "write" /\ file'[w] = new
    BY <1>1 DEF TypeOK
  <2>5. \A f \in Files : f # new => data'[f] = data[f] /\ data_maybe'[f] = data_maybe[f]
    BY <1>1 DEF TypeOK
  <2>6. \A v \in Writers : file[v] \in Files
    BY DEF TypeOK
  <2>. QED
    BY <1>1, <1>2, <2>1, <2>2, <2>3, <2>4, <2>5, <2>6 DEF FileOfCall
<1>10. PathIsWhole'
  <2>1. \A f \in path_maybe : data'[f] = data[f] /\ data_maybe'[f] = data_maybe[f]
    BY <1>1, <1>2 DEF TypeOK
  <2>2. \A f \in Files : f > created' => stamp[f] = 0
    BY <1>1, <1>2 DEF PathIsWhole, Files, new
  <2>. QED
    BY <1>1, <2>1, <2>2 DEF PathIsWhole
<1>. QED
  BY <1>4, <1>5, <1>6, <1>7, <1>8, <1>9, <1>10

LEMMA OpenFailsInv ==
  ASSUME FileInv, NEW w \in Writers, OpenFails(w) PROVE FileInv'
<1> USE DEF FileInv
<1>1. /\ pc[w] = "open" /\ pc' = [pc EXCEPT ![w] = "idle"]
      /\ UNCHANGED <<path, path_maybe, temp, temp_maybe, data, data_maybe, created, name, file,
                     next_temporary, stamp, commits, acked>>
  BY DEF OpenFails, Goto, disk, history
<1>2. TypeOK'
  BY <1>1 DEF TypeOK, Labels
<1>3. OwnNames' /\ CallNames' /\ FileOfCall'
  BY <1>1 DEF OwnNames, CallNames, OwnTemporary, FileOfCall, TypeOK
<1>4. OneNamePerFile' /\ PathIsWhole'
  BY <1>1 DEF OneNamePerFile, PathIsWhole
<1>5. EnoughNames'
  <2>1. Leftover \subseteq Leftover'
    BY <1>1 DEF Leftover, TypeOK
  <2>. QED
    BY <1>1, <2>1, KeepsEnoughNames
<1>. QED
  BY <1>2, <1>3, <1>4, <1>5

(* The files of two calls that still have temporary files differ, and no   *)
(* such file can be at the path.                                           *)
LEMMA OwnFile ==
  ASSUME FileInv, NEW w \in Writers, pc[w] \in {"write", "sync", "rename"}
  PROVE  /\ file[w] \in Files /\ file[w] # 0 /\ file[w] \notin path_maybe
         /\ stamp[file[w]] = 0 /\ temp[name[w]] = file[w] /\ name[w] \in Names
         /\ \A v \in Writers : v # w /\ pc[v] \in {"write", "sync", "rename"}
                               => file[v] # file[w]
<1> USE DEF FileInv
<1>1. /\ file[w] \in Files /\ file[w] # 0 /\ stamp[file[w]] = 0
      /\ temp[name[w]] = file[w] /\ name[w] \in Names
  BY DEF FileOfCall, CallNames, OwnTemporary, TypeOK
<1>2. file[w] \notin path_maybe
  BY <1>1 DEF PathIsWhole
<1>3. ASSUME NEW v \in Writers, v # w, pc[v] \in {"write", "sync", "rename"}
      PROVE  file[v] # file[w]
  <2>1. temp[name[v]] = file[v] /\ name[v] \in Names /\ name[v] # name[w]
    BY <1>3 DEF CallNames, OwnTemporary, TypeOK, OwnNames
  <2>. QED
    BY <1>1, <2>1 DEF OneNamePerFile
<1>. QED
  BY <1>1, <1>2, <1>3

(* Steps on the content of a call's own file change nothing of the names.  *)
LEMMA ContentStep ==
  ASSUME FileInv, NEW w \in Writers, NEW label \in {"sync", "rename", "remove"},
         pc[w] \in {"write", "sync", "rename"},
         pc' = [pc EXCEPT ![w] = label],
         UNCHANGED <<temp, temp_maybe, created, name, file, next_temporary>>
  PROVE  OwnNames' /\ OneNamePerFile' /\ EnoughNames' /\ CallNames'
<1> USE DEF FileInv
<1>1. OwnNames'
  BY DEF OwnNames, TypeOK
<1>2. OneNamePerFile'
  BY DEF OneNamePerFile
<1>3. Leftover \subseteq Leftover'
  BY DEF Leftover, TypeOK
<1>4. temp[name[w]] = file[w]
  BY DEF CallNames, OwnTemporary
<1>5. CallNames'
  BY <1>4 DEF CallNames, OwnTemporary, TypeOK
<1>. QED
  BY <1>1, <1>2, <1>3, <1>5, KeepsEnoughNames

LEMMA WriteAllInv ==
  ASSUME FileInv, NEW w \in Writers, WriteAll(w) PROVE FileInv'
<1> USE DEF FileInv
<1>1. PICK d \in Contents, label \in {"sync", "remove"} :
        /\ pc[w] = "write" /\ pc' = [pc EXCEPT ![w] = label]
        /\ data_maybe' = [data_maybe EXCEPT ![file[w]] = Contents]
        /\ data' = [data EXCEPT ![file[w]] = d]
        /\ label = "sync" => d = "whole"
        /\ UNCHANGED <<path, path_maybe, temp, temp_maybe, created, name, file,
                       next_temporary, stamp, commits, acked>>
  BY DEF WriteAll, Goto, history, Contents
<1>2. OwnNames' /\ OneNamePerFile' /\ EnoughNames' /\ CallNames'
  BY <1>1, ContentStep DEF Labels
<1>3. TypeOK'
  BY <1>1 DEF TypeOK, Labels
<1>4. \A f \in Files : f # file[w] => data'[f] = data[f] /\ data_maybe'[f] = data_maybe[f]
  BY <1>1 DEF TypeOK
<1>5. FileOfCall'
  <2>1. ASSUME NEW v \in Writers, v # w, pc[v] \in {"write", "sync", "rename"}
        PROVE  data'[file[v]] = data[file[v]] /\ data_maybe'[file[v]] = data_maybe[file[v]]
    BY <1>1, <1>4, <2>1, OwnFile
  <2>2. \A v \in Writers : v # w => pc'[v] = pc[v]
    BY <1>1 DEF TypeOK
  <2>3. pc'[w] = label /\ (label = "sync" => data'[file[w]] = "whole")
    BY <1>1 DEF TypeOK
  <2>. QED
    BY <1>1, <2>1, <2>2, <2>3 DEF FileOfCall
<1>6. PathIsWhole'
  <2>1. \A f \in path_maybe : data'[f] = data[f] /\ data_maybe'[f] = data_maybe[f]
    BY <1>1, <1>4, OwnFile DEF TypeOK
  <2>. QED
    BY <1>1, <2>1 DEF PathIsWhole
<1>. QED
  BY <1>2, <1>3, <1>5, <1>6

LEMMA SyncFileInv ==
  ASSUME FileInv, NEW w \in Writers, SyncFile(w) PROVE FileInv'
<1> USE DEF FileInv
<1>1. PICK label \in {"rename", "remove"} :
        /\ pc[w] = "sync" /\ pc' = [pc EXCEPT ![w] = label]
        /\ \/ data_maybe' = [data_maybe EXCEPT ![file[w]] = {data[file[w]]}]
           \/ label = "remove" /\ data_maybe' = data_maybe
        /\ UNCHANGED <<path, path_maybe, temp, temp_maybe, data, created, name, file,
                       next_temporary, stamp, commits, acked>>
  BY DEF SyncFile, Goto, history
<1>2. OwnNames' /\ OneNamePerFile' /\ EnoughNames' /\ CallNames'
  BY <1>1, ContentStep DEF Labels
<1>3. TypeOK'
  <2>1. {data[file[w]]} \in SUBSET Contents
    BY DEF TypeOK
  <2>. QED
    BY <1>1, <2>1 DEF TypeOK, Labels
<1>4. \A f \in Files : f # file[w] => data_maybe'[f] = data_maybe[f]
  BY <1>1 DEF TypeOK
<1>5. FileOfCall'
  <2>1. ASSUME NEW v \in Writers, v # w, pc[v] \in {"write", "sync", "rename"}
        PROVE  data_maybe'[file[v]] = data_maybe[file[v]]
    BY <1>1, <1>4, <2>1, OwnFile
  <2>2. \A v \in Writers : v # w => pc'[v] = pc[v]
    BY <1>1 DEF TypeOK
  <2>3. pc'[w] = label /\ data[file[w]] = "whole"
    BY <1>1 DEF TypeOK, FileOfCall
  <2>4. label = "rename" => data_maybe'[file[w]] = {"whole"}
    BY <1>1, <2>3 DEF TypeOK
  <2>. QED
    BY <1>1, <2>1, <2>2, <2>3, <2>4 DEF FileOfCall
<1>6. PathIsWhole'
  <2>1. \A f \in path_maybe : data_maybe'[f] = data_maybe[f]
    BY <1>1, <1>4, OwnFile DEF TypeOK
  <2>. QED
    BY <1>1, <2>1 DEF PathIsWhole
<1>. QED
  BY <1>2, <1>3, <1>5, <1>6

(* A call that is done with its name, by a rename or a removal.            *)
LEMMA UnlinkStep ==
  ASSUME FileInv, NEW w \in Writers, NEW label \in Labels,
         pc[w] # "idle", label \notin {"write", "sync", "rename"},
         pc' = [pc EXCEPT ![w] = label],
         temp' = [temp EXCEPT ![name[w]] = 0],
         temp_maybe' = [temp_maybe EXCEPT ![name[w]] = @ \cup {0}],
         UNCHANGED <<created, name, file, next_temporary>>
  PROVE  /\ temp' \in [Names -> Files] /\ temp_maybe' \in [Names -> SUBSET Files]
         /\ OwnNames' /\ OneNamePerFile' /\ EnoughNames' /\ CallNames'
<1> USE DEF FileInv
<1>1. name[w] \in Names /\ 0 \in Files
  BY BoundsAssumption DEF TypeOK, Files, BoundsAssumption
<1>2. temp' \in [Names -> Files]
  BY <1>1 DEF TypeOK
<1>3. temp_maybe' \in [Names -> SUBSET Files]
  <2>1. temp_maybe[name[w]] \cup {0} \in SUBSET Files
    BY <1>1 DEF TypeOK
  <2>. QED
    BY <1>1, <2>1 DEF TypeOK
<1>4. OwnNames'
  BY DEF OwnNames, TypeOK
<1>5. \A n \in Names : n # name[w] => temp'[n] = temp[n] /\ temp_maybe'[n] = temp_maybe[n]
  BY DEF TypeOK
<1>6. temp'[name[w]] = 0 /\ temp_maybe'[name[w]] = temp_maybe[name[w]] \cup {0}
  BY <1>1 DEF TypeOK
<1>7. OneNamePerFile'
  <2>1. \A n \in Names : temp'[n] \in temp_maybe'[n]
    BY <1>5, <1>6 DEF OneNamePerFile
  <2>2. \A n \in Names : \A f \in temp_maybe'[n] : f = 0 \/ f \in temp_maybe[n]
    BY <1>5, <1>6
  <2>3. 0 <= created
    BY DEF TypeOK, Files
  <2>4. \A n \in Names : \A f \in temp_maybe'[n] : f <= created
    BY <2>2, <2>3 DEF OneNamePerFile
  <2>5. \A m, n \in Names : \A f \in temp_maybe'[m] \cap temp_maybe'[n] : f = 0 \/ m = n
    BY <2>2 DEF OneNamePerFile
  <2>. QED
    BY <2>1, <2>4, <2>5 DEF OneNamePerFile
<1>8. Leftover \subseteq Leftover'
  <2>1. ASSUME NEW n \in Leftover PROVE n \in Leftover'
    <3>1. n # name[w] /\ n \in Names
      BY DEF Leftover
    <3>2. temp'[n] # 0
      BY <1>5, <3>1 DEF Leftover
    <3>. QED
      BY <3>1, <3>2 DEF Leftover, TypeOK
  <2>. QED
    BY <2>1
<1>9. CallNames'
  <2>1. ASSUME NEW v \in Writers, v # w, pc[v] # "idle" PROVE temp'[name[v]] = temp[name[v]]
    BY <1>5, <2>1 DEF OwnNames, TypeOK
  <2>2. \A v \in Writers : v # w => pc'[v] = pc[v]
    BY DEF TypeOK
  <2>3. pc'[w] = label
    BY DEF TypeOK
  <2>. QED
    BY <1>6, <2>1, <2>2, <2>3 DEF CallNames, OwnTemporary
<1>. QED
  BY <1>2, <1>3, <1>4, <1>7, <1>8, <1>9, KeepsEnoughNames

(* The state of the file system and the history after a rename.            *)
Renamed(w) ==
  /\ pc[w] = "rename" /\ pc' = [pc EXCEPT ![w] = "sync_parent"]
  /\ path' = file[w] /\ path_maybe' = path_maybe \cup {file[w]}
  /\ temp' = [temp EXCEPT ![name[w]] = 0]
  /\ temp_maybe' = [temp_maybe EXCEPT ![name[w]] = @ \cup {0}]
  /\ stamp' = [stamp EXCEPT ![file[w]] = commits + 1]
  /\ commits' = commits + 1
  /\ UNCHANGED <<data, data_maybe, created, name, file, next_temporary, acked>>

(* A call that gives up keeps its file and its name until the removal.     *)
GivesUp(w) ==
  /\ pc[w] \in {"rename", "sync_parent"} /\ pc' = [pc EXCEPT ![w] = "remove"]
  /\ UNCHANGED <<path, path_maybe, temp, temp_maybe, data, data_maybe, created, name, file,
                 next_temporary, stamp, commits, acked>>

LEMMA RenameCases ==
  ASSUME NEW w \in Writers, Rename(w) PROVE Renamed(w) \/ GivesUp(w)
  BY DEF Rename, Goto, Renamed, GivesUp

LEMMA RenamedInv ==
  ASSUME FileInv, NEW w \in Writers, Renamed(w) PROVE FileInv'
<1> USE DEF FileInv
<1>1. /\ file[w] \in Files /\ file[w] # 0 /\ file[w] \notin path_maybe /\ stamp[file[w]] = 0
      /\ \A v \in Writers : v # w /\ pc[v] \in {"write", "sync", "rename"} => file[v] # file[w]
  BY OwnFile DEF Renamed
<1>2. /\ temp' \in [Names -> Files] /\ temp_maybe' \in [Names -> SUBSET Files]
      /\ OwnNames' /\ OneNamePerFile' /\ EnoughNames' /\ CallNames'
  BY UnlinkStep DEF Renamed, Labels
<1>3. commits \in Nat /\ commits + 1 \in Nat /\ stamp'[file[w]] = commits + 1
  BY <1>1 DEF Renamed, TypeOK
<1>4. \A f \in Files : f # file[w] => stamp'[f] = stamp[f]
  BY DEF Renamed, TypeOK
<1>5. \A f \in Files : stamp[f] \in Nat /\ stamp[f] <= commits
  BY DEF TypeOK, PathIsWhole
<1>6. TypeOK'
  <2>1. stamp' \in [Files -> Nat] /\ path_maybe' \in SUBSET Files
    BY <1>1, <1>3 DEF Renamed, TypeOK
  <2>. QED
    BY <1>1, <1>2, <1>3, <2>1 DEF Renamed, TypeOK, Labels
<1>7. FileOfCall'
  <2>1. pc'[w] = "sync_parent" /\ stamp'[file'[w]] <= stamp'[path']
    BY <1>3 DEF Renamed, TypeOK
  <2>2. ASSUME NEW v \in Writers, v # w, pc[v] \in {"write", "sync", "rename"}
        PROVE  stamp'[file[v]] = stamp[file[v]]
    BY <1>1, <1>4, <2>2 DEF TypeOK
  <2>3. ASSUME NEW v \in Writers, v # w PROVE stamp'[file[v]] <= stamp'[path']
    <3>1. file[v] \in Files /\ path' = file[w]
      BY DEF Renamed, TypeOK
    <3>2. CASE file[v] = file[w]
      BY <1>3, <3>1, <3>2
    <3>3. CASE file[v] # file[w]
      BY <1>3, <1>4, <1>5, <3>1, <3>3
    <3>. QED
      BY <3>2, <3>3
  <2>4. \A v \in Writers : v # w => pc'[v] = pc[v]
    BY DEF Renamed, TypeOK
  <2>. QED
    BY <2>1, <2>2, <2>3, <2>4 DEF FileOfCall, Renamed
<1>8. PathIsWhole'
  <2>1. data[file[w]] = "whole" /\ data_maybe[file[w]] = {"whole"} /\ file[w] <= created
    BY DEF FileOfCall, Renamed
  <2>2. acked <= commits + 1
    BY <1>3, <1>5 DEF PathIsWhole, TypeOK
  <2>3. ASSUME NEW f \in path_maybe'
        PROVE  /\ data'[f] = "whole" /\ data_maybe'[f] = {"whole"}
               /\ f # 0 => stamp'[f] # 0
               /\ acked' <= stamp'[f]
    <3>1. CASE f = file[w]
      BY <1>3, <2>1, <2>2, <3>1 DEF Renamed
    <3>2. CASE f \in path_maybe /\ f # file[w]
      BY <1>4, <3>2 DEF Renamed, PathIsWhole, TypeOK
    <3>. QED
      BY <3>1, <3>2 DEF Renamed
  <2>4. ASSUME NEW f \in Files
        PROVE  stamp'[f] <= commits' /\ (f > created' => stamp'[f] = 0)
    <3>1. CASE f = file[w]
      <4>1. ~(file[w] > created)
        BY <1>1, <2>1 DEF TypeOK, Files
      <4>. QED
        BY <1>3, <3>1, <4>1 DEF Renamed
    <3>2. CASE f # file[w]
      BY <1>3, <1>4, <1>5, <3>2 DEF Renamed, PathIsWhole
    <3>. QED
      BY <3>1, <3>2
  <2>5. stamp'[0] = 0
    BY <1>1, <1>4, BoundsAssumption DEF PathIsWhole, Files, BoundsAssumption
  <2>6. path' \in path_maybe'
    BY DEF Renamed
  <2>. QED
    BY <2>3, <2>4, <2>5, <2>6 DEF PathIsWhole
<1>. QED
  BY <1>2, <1>6, <1>7, <1>8

LEMMA GivesUpInv ==
  ASSUME FileInv, NEW w \in Writers, GivesUp(w), temp[name[w]] \in {0, file[w]}
  PROVE  FileInv'
<1> USE DEF FileInv
<1>1. TypeOK'
  BY DEF GivesUp, TypeOK, Labels
<1>2. OwnNames' /\ CallNames' /\ FileOfCall'
  BY DEF GivesUp, OwnNames, CallNames, OwnTemporary, FileOfCall, TypeOK
<1>3. OneNamePerFile' /\ PathIsWhole'
  BY DEF GivesUp, OneNamePerFile, PathIsWhole
<1>4. Leftover \subseteq Leftover'
  BY DEF GivesUp, Leftover, TypeOK
<1>. QED
  BY <1>1, <1>2, <1>3, <1>4, KeepsEnoughNames DEF GivesUp

LEMMA RenameInv ==
  ASSUME FileInv, NEW w \in Writers, Rename(w) PROVE FileInv'
<1>1. pc[w] = "rename" /\ temp[name[w]] = file[w]
  BY DEF Rename, FileInv, CallNames, OwnTemporary
<1>. QED
  BY <1>1, RenameCases, RenamedInv, GivesUpInv

(* What a sync of the directory leaves is what readers see, and no older   *)
(* than the file of the call that asked for it.                            *)
LEMMA SyncParentInv ==
  ASSUME FileInv, NEW w \in Writers, SyncParent(w) PROVE FileInv'
<1> USE DEF FileInv
<1>1. CASE GivesUp(w)
  <2>1. temp[name[w]] = 0
    BY DEF SyncParent, CallNames
  <2>. QED
    BY <1>1, <2>1, GivesUpInv
<1>2. ASSUME /\ pc[w] = "sync_parent" /\ pc' = [pc EXCEPT ![w] = "idle"]
             /\ path_maybe' = {path} /\ temp_maybe' = [n \in Names |-> {temp[n]}]
             /\ acked' \in {acked, stamp[file[w]]}
             /\ UNCHANGED <<path, temp, data, data_maybe, created, name, file, next_temporary,
                            stamp, commits>>
      PROVE  FileInv'
  <2>1. TypeOK'
    <3>1. temp_maybe' \in [Names -> SUBSET Files] /\ path_maybe' \in SUBSET Files
      BY <1>2 DEF TypeOK
    <3>2. acked' \in Nat
      BY <1>2 DEF TypeOK
    <3>. QED
      BY <1>2, <3>1, <3>2 DEF TypeOK, Labels
  <2>2. OwnNames' /\ CallNames' /\ FileOfCall'
    BY <1>2 DEF OwnNames, CallNames, OwnTemporary, FileOfCall, TypeOK
  <2>3. OneNamePerFile'
    BY <1>2 DEF OneNamePerFile
  <2>4. Leftover \subseteq Leftover'
    BY <1>2 DEF Leftover, TypeOK
  <2>5. acked' <= stamp[path]
    BY <1>2 DEF PathIsWhole, FileOfCall
  <2>6. PathIsWhole'
    BY <1>2, <2>5 DEF PathIsWhole
  <2>. QED
    BY <1>2, <2>1, <2>2, <2>3, <2>4, <2>6, KeepsEnoughNames
<1>. QED
  BY <1>1, <1>2 DEF SyncParent, Goto, GivesUp

LEMMA RemoveTemporaryInv ==
  ASSUME FileInv, NEW w \in Writers, RemoveTemporary(w) PROVE FileInv'
<1> USE DEF FileInv
<1>1. /\ pc[w] = "remove" /\ pc' = [pc EXCEPT ![w] = "idle"]
      /\ UNCHANGED <<path, path_maybe, data, data_maybe, created, name, file, next_temporary,
                     stamp, commits, acked>>
  BY DEF RemoveTemporary, Goto, history
<1>2. /\ temp' \in [Names -> Files] /\ temp_maybe' \in [Names -> SUBSET Files]
      /\ OwnNames' /\ OneNamePerFile' /\ EnoughNames' /\ CallNames'
  <2>1. CASE temp' = [temp EXCEPT ![name[w]] = 0]
             /\ temp_maybe' = [temp_maybe EXCEPT ![name[w]] = @ \cup {0}]
    BY <1>1, <2>1, UnlinkStep DEF Labels
  <2>2. CASE UNCHANGED <<temp, temp_maybe>>
    <3>1. OwnNames' /\ CallNames'
      BY <1>1, <2>2 DEF OwnNames, CallNames, OwnTemporary, TypeOK
    <3>2. OneNamePerFile' /\ temp' \in [Names -> Files] /\ temp_maybe' \in [Names -> SUBSET Files]
      BY <1>1, <2>2 DEF OneNamePerFile, TypeOK
    <3>3. Leftover \subseteq Leftover'
      BY <1>1, <2>2 DEF Leftover, TypeOK
    <3>. QED
      BY <1>1, <3>1, <3>2, <3>3, KeepsEnoughNames
  <2>. QED
    BY <2>1, <2>2 DEF RemoveTemporary
<1>3. TypeOK'
  BY <1>1, <1>2 DEF TypeOK, Labels
<1>4. FileOfCall' /\ PathIsWhole'
  BY <1>1 DEF FileOfCall, PathIsWhole, TypeOK
<1>. QED
  BY <1>2, <1>3, <1>4

(* After a restart no call is under way.                                   *)
LEMMA RestartInv ==
  ASSUME Restart
  PROVE  /\ OwnNames' /\ CallNames' /\ FileOfCall' /\ EnoughNames'
         /\ created' = created /\ UNCHANGED <<stamp, commits, acked>> /\ next_temporary' = 0
         /\ pc' \in [Writers -> Labels] /\ name' \in [Writers -> Names]
         /\ file' \in [Writers -> Files]
<1>1. OwnNames' /\ CallNames' /\ FileOfCall'
  BY DEF Restart, OwnNames, CallNames, OwnTemporary, FileOfCall
<1>2. EnoughNames'
  BY FreshEnoughNames DEF Restart
<1>. QED
  BY <1>1, <1>2, BoundsAssumption DEF Restart, history, Labels, Names, Files, BoundsAssumption

LEMMA KillInv == FileInv /\ Kill => FileInv'
<1> SUFFICES ASSUME FileInv, Kill PROVE FileInv'
  OBVIOUS
<1> USE RestartInv DEF FileInv, Kill
<1>1. TypeOK'
  BY DEF TypeOK
<1>2. OneNamePerFile'
  BY DEF OneNamePerFile
<1>3. PathIsWhole'
  BY DEF PathIsWhole
<1>. QED
  BY <1>1, <1>2, <1>3

(* A power failure leaves one of the files that may be at the path, and    *)
(* each of them is whole.                                                  *)
LEMMA PowerFailureInv == FileInv /\ PowerFailure => FileInv'
<1> SUFFICES ASSUME FileInv, PowerFailure PROVE FileInv'
  OBVIOUS
<1> USE RestartInv DEF FileInv, PowerFailure
<1>1. path' \in path_maybe /\ path_maybe' = {path'} /\ path' \in Files
  BY DEF TypeOK
<1>2. /\ temp' \in [Names -> Files] /\ \A n \in Names : temp'[n] \in temp_maybe[n]
      /\ temp_maybe' = [n \in Names |-> {temp'[n]}]
  OBVIOUS
<1>3. data_maybe[path'] = {"whole"}
  BY <1>1 DEF PathIsWhole
<1>4. /\ data' = [f \in Files |-> IF f = path' THEN "whole" ELSE "torn"]
      /\ data_maybe' = [f \in Files |-> {data'[f]}]
  BY <1>3
<1>5. TypeOK'
  <2>1. data' \in [Files -> Contents]
    BY <1>4 DEF Contents
  <2>2. data_maybe' \in [Files -> SUBSET Contents]
    BY <1>4, <2>1
  <2>3. temp_maybe' \in [Names -> SUBSET Files]
    BY <1>2
  <2>. QED
    BY <1>1, <1>2, <2>1, <2>2, <2>3 DEF TypeOK
<1>6. OneNamePerFile'
  BY <1>2 DEF OneNamePerFile
<1>7. PathIsWhole'
  BY <1>1, <1>4 DEF PathIsWhole
<1>. QED
  BY <1>5, <1>6, <1>7

LEMMA FileStutterInv == FileInv /\ UNCHANGED vars => FileInv'
<1> SUFFICES ASSUME FileInv, UNCHANGED vars PROVE FileInv'
  OBVIOUS
<1> USE DEF FileInv, vars, disk, locals, history
<1>1. TypeOK' /\ OwnNames' /\ OneNamePerFile'
  BY DEF TypeOK, OwnNames, OneNamePerFile
<1>2. CallNames' /\ FileOfCall' /\ PathIsWhole'
  BY DEF CallNames, OwnTemporary, FileOfCall, PathIsWhole
<1>3. Leftover' = Leftover
  BY DEF Leftover
<1>. QED
  BY <1>1, <1>2, <1>3 DEF EnoughNames

LEMMA FileStepInv == FileInv /\ [Next]_vars => FileInv'
<1> SUFFICES ASSUME FileInv, [Next]_vars PROVE FileInv'
  OBVIOUS
<1>1. ASSUME NEW w \in Writers, Begin(w) \/ CallStep(w) PROVE FileInv'
  BY <1>1, BeginInv, CreateNewInv, NameTakenInv, OpenFailsInv, WriteAllInv, SyncFileInv,
     RenameInv, SyncParentInv, RemoveTemporaryInv DEF CallStep
<1>. QED
  BY <1>1, KillInv, PowerFailureInv, FileStutterInv DEF Next

LEMMA FileInvariant == Spec => []FileInv
  BY FileInitInv, FileStepInv, PTL DEF Spec

-----------------------------------------------------------------------------
(* TemporariesAreOwn: however calls interleave, fail and are killed, a     *)
(* call of replace_file_atomically writes, syncs, renames and removes only *)
(* the temporary file that it created itself.                              *)
THEOREM TemporariesAreOwn == Spec => []OwnTemporary
<1>1. FileInv => OwnTemporary
  BY DEF FileInv, CallNames
<1>. QED
  BY <1>1, FileInvariant, PTL

(* What the refinement mapping yields: every file that may be at the path  *)
(* is whole.                                                               *)
Visible == CommitOf(path, data[path])
Survivors == UNION {{CommitOf(f, d) : d \in data_maybe[f]} : f \in path_maybe}

AsCommits ==
  /\ Visible = stamp[path] /\ Visible \in Nat /\ path \in path_maybe
  /\ Survivors = {stamp[f] : f \in path_maybe}

LEMMA Mapping == FileInv => AsCommits
<1> SUFFICES ASSUME FileInv PROVE AsCommits
  OBVIOUS
<1>1. Visible = stamp[path] /\ Visible \in Nat /\ path \in path_maybe
  BY DEF FileInv, TypeOK, PathIsWhole, Visible, CommitOf
<1>2. \A f \in path_maybe : {CommitOf(f, d) : d \in data_maybe[f]} = {stamp[f]}
  BY DEF FileInv, PathIsWhole, CommitOf
<1>3. \A c : c \in Survivors <=> \E f \in path_maybe : c = stamp[f]
  BY <1>2 DEF Survivors
<1>. QED
  BY <1>1, <1>3 DEF AsCommits

LEMMA MappingNext == FileInv' => AsCommits'
  BY Mapping, PTL

(* AcknowledgedSurvives: no image that can be at the path after a power    *)
(* failure is older than one whose replace_file_atomically returned Ok.    *)
THEOREM AcknowledgedSurvives == Spec => []AckedSurvives
<1>1. FileInv => AckedSurvives
  <2> SUFFICES ASSUME FileInv PROVE AckedSurvives
    OBVIOUS
  <2>1. acked <= Visible /\ \A s \in Survivors : acked <= s
    BY Mapping DEF AsCommits, FileInv, PathIsWhole
  <2>. QED
    BY <2>1 DEF AckedSurvives, File!AckedSurvives, Visible, Survivors
<1>. QED
  BY <1>1, FileInvariant, PTL

-----------------------------------------------------------------------------
(* The refinement: one lemma for each way a step can look to AtomicFile.   *)
AtomicStutter == UNCHANGED <<commits, Visible, Survivors, acked>>

LEMMA AtomicCases ==
  /\ File!Commit <=> /\ commits' = commits + 1 /\ Visible' = commits + 1
                     /\ Survivors' = Survivors \cup {commits + 1} /\ acked' = acked
  /\ File!Sync <=> /\ Survivors' = {Visible} /\ acked' \in acked .. Visible
                   /\ commits' = commits /\ Visible' = Visible
  /\ File!PowerFailure <=> /\ Visible' \in Survivors /\ Survivors' = {Visible'}
                           /\ commits' = commits /\ acked' = acked
  /\ UNCHANGED File!vars <=> AtomicStutter
<1>1. File!Commit <=> /\ commits' = commits + 1 /\ Visible' = commits + 1
                      /\ Survivors' = Survivors \cup {commits + 1} /\ acked' = acked
  BY DEF File!Commit, Visible, Survivors
<1>2. File!Sync <=> /\ Survivors' = {Visible} /\ acked' \in acked .. Visible
                    /\ commits' = commits /\ Visible' = Visible
  BY DEF File!Sync, Visible, Survivors
<1>3. File!PowerFailure <=> /\ Visible' \in Survivors /\ Survivors' = {Visible'}
                            /\ commits' = commits /\ acked' = acked
  BY DEF File!PowerFailure, Visible, Survivors
<1>4. UNCHANGED File!vars <=> AtomicStutter
  BY DEF File!vars, AtomicStutter, Visible, Survivors
<1>. QED
  BY <1>1, <1>2, <1>3, <1>4

(* A step that leaves the path and the stamps alone is invisible, whatever *)
(* it does to the files that cannot be at the path.                        *)
LEMMA InvisibleStep ==
  ASSUME FileInv, FileInv', UNCHANGED <<path, path_maybe, stamp, commits, acked>>
  PROVE  AtomicStutter
<1>1. Visible = stamp[path] /\ Survivors = {stamp[f] : f \in path_maybe}
  BY Mapping DEF AsCommits
<1>2. Visible' = stamp'[path'] /\ Survivors' = {stamp'[f] : f \in path_maybe'}
  BY MappingNext DEF AsCommits
<1>. QED
  BY <1>1, <1>2 DEF AtomicStutter

LEMMA RenamedCommits ==
  ASSUME FileInv, FileInv', NEW w \in Writers, Renamed(w) PROVE File!Commit
<1>1. file[w] \in Files /\ file[w] \notin path_maybe
  BY OwnFile DEF Renamed
<1>2. stamp'[file[w]] = commits + 1 /\ \A f \in path_maybe : stamp'[f] = stamp[f]
  BY <1>1 DEF Renamed, FileInv, TypeOK
<1>3. Visible' = commits + 1
  <2>1. Visible' = stamp'[path']
    BY MappingNext DEF AsCommits
  <2>. QED
    BY <1>2, <2>1 DEF Renamed
<1>4. Survivors' = Survivors \cup {commits + 1}
  <2>1. Survivors = {stamp[f] : f \in path_maybe}
    BY Mapping DEF AsCommits
  <2>2. Survivors' = {stamp'[f] : f \in path_maybe'}
    BY MappingNext DEF AsCommits
  <2>. QED
    BY <1>2, <2>1, <2>2 DEF Renamed
<1>. QED
  BY <1>3, <1>4, AtomicCases DEF Renamed

LEMMA SyncParentSyncs ==
  ASSUME FileInv, FileInv', NEW w \in Writers, SyncParent(w)
  PROVE  File!Sync \/ AtomicStutter
<1>1. CASE GivesUp(w)
  BY <1>1, InvisibleStep DEF GivesUp
<1>2. CASE ~GivesUp(w)
  <2>1. /\ path_maybe' = {path}
        /\ acked' = IF acked < stamp[file[w]] THEN stamp[file[w]] ELSE acked
        /\ UNCHANGED <<path, stamp, commits>>
    BY <1>2 DEF SyncParent, GivesUp, Goto
  <2>2. Visible = stamp[path] /\ path \in Files /\ stamp[path] \in Nat
    BY Mapping DEF AsCommits, FileInv, TypeOK
  <2>3. Visible' = Visible /\ Survivors' = {Visible}
    <3>1. Visible' = stamp'[path'] /\ Survivors' = {stamp'[f] : f \in path_maybe'}
      BY MappingNext DEF AsCommits
    <3>. QED
      BY <2>1, <2>2, <3>1
  <2>4. acked' \in acked .. stamp[path]
    <3>1. stamp[file[w]] \in Nat /\ acked \in Nat /\ acked <= stamp[path]
      BY DEF FileInv, TypeOK, PathIsWhole
    <3>2. stamp[file[w]] <= stamp[path]
      BY DEF SyncParent, FileInv, FileOfCall
    <3>. QED
      BY <2>1, <2>2, <3>1, <3>2
  <2>. QED
    BY <2>1, <2>2, <2>3, <2>4, AtomicCases
<1>. QED
  BY <1>1, <1>2

LEMMA PowerFailureMaps ==
  ASSUME FileInv, FileInv', PowerFailure PROVE File!PowerFailure
<1>1. path' \in path_maybe /\ path_maybe' = {path'} /\ UNCHANGED <<stamp, commits, acked>>
  BY DEF PowerFailure, Restart, history
<1>2. Survivors = {stamp[f] : f \in path_maybe}
  BY Mapping DEF AsCommits
<1>3. Visible' = stamp'[path'] /\ Survivors' = {stamp'[f] : f \in path_maybe'}
  BY MappingNext DEF AsCommits
<1>. QED
  BY <1>1, <1>2, <1>3, AtomicCases

(* StateFileIsAtomic: replace_file_atomically implements AtomicFile: every *)
(* rename commits one whole image, every sync of the parent makes the      *)
(* visible image the only survivor, a power failure leaves a survivor, and *)
(* no other step of any call can be seen.                                  *)
THEOREM StateFileIsAtomic == Spec => ImplementsAtomicFile
<1>1. Init => File!Init
  <2> SUFFICES ASSUME Init PROVE File!Init
    OBVIOUS
  <2>1. FileInv /\ stamp[0] = 0 /\ path = 0 /\ path_maybe = {0}
    BY FileInitInv, BoundsAssumption DEF Init, Files, BoundsAssumption
  <2>2. Visible = 0 /\ Survivors = {0}
    BY <2>1, Mapping DEF AsCommits
  <2>. QED
    BY <2>2 DEF Init, File!Init, Visible, Survivors
<1>2. FileInv /\ FileInv' /\ [Next]_vars => [File!Next]_(File!vars)
  <2> SUFFICES ASSUME FileInv, FileInv', [Next]_vars
               PROVE  File!Commit \/ File!Sync \/ File!PowerFailure \/ AtomicStutter
    BY AtomicCases DEF File!Next
  <2>1. ASSUME NEW w \in Writers, Begin(w) \/ CallStep(w)
        PROVE  File!Commit \/ File!Sync \/ AtomicStutter
    <3>1. CASE Rename(w)
      <4>1. GivesUp(w) => AtomicStutter
        BY InvisibleStep DEF GivesUp
      <4>. QED
        BY <3>1, <4>1, RenameCases, RenamedCommits
    <3>2. CASE SyncParent(w)
      BY <3>2, SyncParentSyncs
    <3>3. CASE ~Rename(w) /\ ~SyncParent(w)
      <4>1. UNCHANGED <<path, path_maybe, stamp, commits, acked>>
        BY <2>1, <3>3 DEF Begin, CallStep, CreateNew, NameTaken, OpenFails, WriteAll, SyncFile,
                          RemoveTemporary, disk, history
      <4>. QED
        BY <4>1, InvisibleStep
    <3>. QED
      BY <3>1, <3>2, <3>3
  <2>2. CASE Kill \/ UNCHANGED vars
    <3>1. UNCHANGED <<path, path_maybe, stamp, commits, acked>>
      BY <2>2 DEF Kill, Restart, vars, disk, history
    <3>. QED
      BY <3>1, InvisibleStep
  <2>. QED
    BY <2>1, <2>2, PowerFailureMaps DEF Next
<1>. QED
  BY <1>1, <1>2, FileInvariant, PTL DEF Spec, ImplementsAtomicFile, File!Spec
=============================================================================
