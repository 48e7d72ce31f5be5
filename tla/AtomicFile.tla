----------------------------- MODULE AtomicFile -----------------------------
(***************************************************************************)
(* What a durable, atomically replaced file promises.  The file holds the  *)
(* image of one commit, never a mixture.  Until a sync, a power failure    *)
(* may bring back any image committed since the last sync, but never one   *)
(* older than an image whose writer was told Ok.                           *)
(***************************************************************************)
EXTENDS Naturals

VARIABLES
  commits,    \* number of images committed so far
  value,      \* the commit a reader of the file sees
  survivors,  \* the commits that a power failure may leave behind
  acked       \* the youngest commit whose writer was told Ok

vars == <<commits, value, survivors, acked>>

Init == commits = 0 /\ value = 0 /\ survivors = {0} /\ acked = 0

(* A whole new image becomes visible in one step, not yet durable.         *)
Commit ==
  /\ commits' = commits + 1
  /\ value' = commits + 1
  /\ survivors' = survivors \cup {commits + 1}
  /\ UNCHANGED acked

(* The visible image becomes the only survivor, and is acknowledged if its *)
(* writer, or one it has overtaken, asked for it.                          *)
Sync ==
  /\ survivors' = {value}
  /\ acked' \in acked .. value
  /\ UNCHANGED <<commits, value>>

PowerFailure ==
  /\ value' \in survivors
  /\ survivors' = {value'}
  /\ UNCHANGED <<commits, acked>>

Next == Commit \/ Sync \/ PowerFailure

Spec == Init /\ [][Next]_vars

-----------------------------------------------------------------------------
(* AckedSurvives: no power failure can take the file back behind an        *)
(* acknowledged image.                                                     *)
AckedSurvives == acked <= value /\ \A s \in survivors : acked <= s
=============================================================================
