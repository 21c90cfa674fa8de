------------------------------ MODULE RecordLock ------------------------------
(***************************************************************************)
(* withRegistryRecordLock of the agent's project-registry.ts: a lock file  *)
(* per record, created exclusively, shared by the web and agent processes. *)
(* A waiter removes the file when its holder is dead or the file is a      *)
(* minute old.  Every file system call is one action, reading a lock file  *)
(* and its age being one.  A file is removed by its path, whoever made it. *)
(***************************************************************************)
EXTENDS Naturals, Optional

CONSTANTS
  Processes, Records,
  Mortal,  \* processes that may die; process ids are not reused
  Slow     \* whether an operation may last a minute

ASSUME LockAssumption ==
  Mortal \subseteq Processes /\ Slow \in BOOLEAN /\ NONE \notin Records

VARIABLES
  file,  \* the lock file of each record: who made it, whether its metadata
         \* (pid, createdAt) is written, whether it is a minute old
  want,  \* the record a process locks
  pc,
  dead

lvars == <<file, want, pc, dead>>

LockFile == [by : Processes, meta : BOOLEAN, old : BOOLEAN]

ASSUME NoneIsNoFile == NONE \notin LockFile

LockTypeOK ==
  /\ file \in [Records -> LockFile \cup {NONE}]
  /\ want \in [Processes -> Records \cup {NONE}]
  /\ pc \in [Processes -> {"idle", "trying", "reaping", "opened", "inside"}]
  /\ dead \in SUBSET Mortal

Is(p, step) == p \notin dead /\ pc[p] = step

-----------------------------------------------------------------------------
Request(p, r) ==
  /\ Is(p, "idle")
  /\ want' = [want EXCEPT ![p] = r]
  /\ pc' = [pc EXCEPT ![p] = "trying"]
  /\ UNCHANGED <<file, dead>>

\* openSync(path, "wx").
Open(p) ==
  /\ Is(p, "trying") /\ file[want[p]] = NONE
  /\ file' = [file EXCEPT ![want[p]] = [by |-> p, meta |-> FALSE, old |-> FALSE]]
  /\ pc' = [pc EXCEPT ![p] = "opened"]
  /\ UNCHANGED <<want, dead>>

\* Metadata goes to the descriptor: a file removed meanwhile is not the one
\* under the path any more.
Stamp(p) ==
  /\ Is(p, "opened")
  /\ LET f == file[want[p]] IN
       IF f # NONE /\ f.by = p
         THEN file' = [file EXCEPT ![want[p]].meta = TRUE]
         ELSE UNCHANGED file
  /\ pc' = [pc EXCEPT ![p] = "inside"]
  /\ UNCHANGED <<want, dead>>

\* Mutant: a lock whose holder cannot be read yet counts as stale.
StaleUnread(f) == f.old \/ ~f.meta \/ f.by \in dead

Stale(f) == f.old \/ (f.meta /\ f.by \in dead)

\* reapStaleLock up to its verdict (a file that is not stale is waited for).
Inspect(p) ==
  /\ Is(p, "trying") /\ file[want[p]] # NONE /\ Stale(file[want[p]])
  /\ pc' = [pc EXCEPT ![p] = "reaping"]
  /\ UNCHANGED <<file, want, dead>>

Reap(p) ==
  /\ Is(p, "reaping")
  /\ file' = [file EXCEPT ![want[p]] = NONE]
  /\ pc' = [pc EXCEPT ![p] = "trying"]
  /\ UNCHANGED <<want, dead>>

\* The deadline of LOCK_TIMEOUT_MS.
GiveUp(p) ==
  /\ Is(p, "trying")
  /\ pc' = [pc EXCEPT ![p] = "idle"]
  /\ want' = [want EXCEPT ![p] = NONE]
  /\ UNCHANGED <<file, dead>>

\* The operation is over: rmSync(path, { force: true }).
Release(p) ==
  /\ Is(p, "inside")
  /\ file' = [file EXCEPT ![want[p]] = NONE]
  /\ pc' = [pc EXCEPT ![p] = "idle"]
  /\ want' = [want EXCEPT ![p] = NONE]
  /\ UNCHANGED dead

\* A minute passes: while the holder is dead, or too slow.
Age(r) ==
  /\ file[r] # NONE /\ ~file[r].old
  /\ file[r].by \in dead \/ Slow
  /\ file' = [file EXCEPT ![r].old = TRUE]
  /\ UNCHANGED <<want, pc, dead>>

Die(p) ==
  /\ p \in Mortal \ dead
  /\ dead' = dead \cup {p}
  /\ UNCHANGED <<file, want, pc>>

LockInit ==
  /\ file = [r \in Records |-> NONE]
  /\ want = [p \in Processes |-> NONE]
  /\ pc = [p \in Processes |-> "idle"]
  /\ dead = {}

\* What happens to the lock while its user does not move.
LockStep ==
  \/ \E p \in Processes :
       Open(p) \/ Stamp(p) \/ Inspect(p) \/ Reap(p) \/ Die(p)
  \/ \E r \in Records : Age(r)

-----------------------------------------------------------------------------
Holds(p, r) == Is(p, "inside") /\ want[p] = r

\* "The outer acquisition already excludes every other process."
MutualExclusion ==
  \A r \in Records, p, q \in Processes : Holds(p, r) /\ Holds(q, r) => p = q
=============================================================================
