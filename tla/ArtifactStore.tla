---------------------------- MODULE ArtifactStore ----------------------------
(***************************************************************************)
(* SessionArtifactStore (artifact-store/src/repository.ts): putFile() and  *)
(* removeFromScope() on the manifest of one scope, from several processes  *)
(* that share a directory, under the directory lock of                     *)
(* acquireDirectoryLock().                                                 *)
(*                                                                         *)
(* A process makes the lock directory, writes an owner file into it and    *)
(* touches that file while it works; it gives the lock up by renaming the  *)
(* owner file and then the directory.  A waiter that finds the owner dead  *)
(* or its lease over renames the owner file, compares it with what it has  *)
(* seen, and renames the directory away; a directory without an owner file *)
(* is claimed with owner-recovery.json first.  Every such call is a step   *)
(* of its own, and a process may die between any two.                      *)
(*                                                                         *)
(* A process is one store instance: its queue runs one operation at a time.*)
(* A directory is told from its successors by its inode, a number here; a  *)
(* process has at most one owner file in a directory, so that (inode,      *)
(* process) names the file.  A listing and the stat that follows it are    *)
(* one step: what may come between only makes the waiter poll again.       *)
(***************************************************************************)
EXTENDS Naturals, FiniteSets, Optional

CONSTANTS
  Processes,
  Artifacts,    \* content-addressed ids
  Operations,   \* the puts and removals that callers ask for
  Calls,        \* bound: operations per process
  MaxCrashes,   \* bound: deaths
  Stalls        \* where a live process may sleep past the lease

Holding == {"read", "refresh", "put"}
Places == {"idle", "lock", "name", "release", "leave", "claim", "verify",
           "recover", "inspect", "move", "dead"} \cup Holding

ASSUME ArtifactAssumption ==
  /\ Operations \subseteq {"put", "remove"} \X Artifacts
  /\ Calls \in Nat /\ MaxCrashes \in Nat
  /\ Stalls \subseteq Places
  /\ NONE \notin Processes
  /\ IsFiniteSet(Processes)

VARIABLES
  manifest,   \* the artifacts the scope lists
  dir,        \* the lock directory, or NONE
  at,         \* where each process is
  op,         \* the operation it carries out
  seen,       \* the manifest it has read
  look,       \* the stale lock it has observed
  calls,      \* operations it has started
  crashes

vars == <<manifest, dir, at, op, seen, look, calls, crashes>>

\* The directory: its inode, whose owner files are in it and which of those
\* are past their lease (or of a dead process), the same for the file
\* owner-recovery.json, and whether the directory itself is past the lease.
Directory == [inode : Nat, owners : SUBSET Processes, old : SUBSET Processes,
              recovery : Or(Processes), recoveryOld : BOOLEAN, aged : BOOLEAN]

\* What a waiter remembers: the directory and the file (NONE: it saw none),
\* and whether that file was touched since.
Look == [inode : Nat, kind : {"owner", "recovery", "none"},
         file : Or(Processes), touched : BOOLEAN]

ASSUME NoneIsNoRecord == NONE \notin Directory \cup Look

TypeOK ==
  /\ manifest \subseteq Artifacts
  /\ dir \in Directory \cup {NONE}
  /\ at \in [Processes -> Places]
  /\ op \in [Processes -> Operations \cup {NONE}]
  /\ seen \in [Processes -> SUBSET Artifacts]
  /\ look \in [Processes -> Look \cup {NONE}]
  /\ calls \in [Processes -> 0..Calls]
  /\ crashes \in 0..MaxCrashes

Go(p, place) == at' = [at EXCEPT ![p] = place]

\* The operation is over, one way or the other.
Finish(p) ==
  /\ Go(p, "idle") /\ op' = [op EXCEPT ![p] = NONE]
  /\ seen' = [seen EXCEPT ![p] = {}]

Owns(p) == dir # NONE /\ p \in dir.owners
Same(q) == dir # NONE /\ dir.inode = look[q].inode

\* A directory that is made gets an inode no waiter remembers.
NextInode ==
  CHOOSE n \in 0..Cardinality(Processes) :
    \A q \in Processes : look[q] = NONE \/ look[q].inode # n

-----------------------------------------------------------------------------
\* Operations.

Start(p) ==
  /\ at[p] = "idle" /\ calls[p] < Calls
  /\ Go(p, "lock") /\ calls' = [calls EXCEPT ![p] = @ + 1]
  /\ \E o \in Operations : op' = [op EXCEPT ![p] = o]
  /\ UNCHANGED <<manifest, dir, seen, look, crashes>>

\* mkdir(lockPath) succeeds.
MakeDirectory(p) ==
  /\ at[p] = "lock" /\ dir = NONE
  /\ dir' = [inode |-> NextInode, owners |-> {}, old |-> {}, recovery |-> NONE,
             recoveryOld |-> FALSE, aged |-> FALSE]
  /\ Go(p, "name")
  /\ UNCHANGED <<manifest, op, seen, look, calls, crashes>>

\* The owner file goes into whatever directory has the path by now; without
\* one the operation fails.
WriteOwner(p) ==
  /\ at[p] = "name"
  /\ IF dir = NONE
       THEN Finish(p) /\ UNCHANGED dir
       ELSE /\ Go(p, "read") /\ UNCHANGED <<op, seen>>
            /\ dir' = [dir EXCEPT !.owners = @ \cup {p}, !.aged = FALSE]
  /\ UNCHANGED <<manifest, look, calls, crashes>>

\* listByScope(): nothing to write when the artifact is there already, or,
\* for a removal, not there.
ReadManifest(p) ==
  /\ at[p] = "read"
  /\ seen' = [seen EXCEPT ![p] = manifest]
  /\ Go(p, IF (op[p][1] = "put") = (op[p][2] \in manifest)
             THEN "release" ELSE "refresh")
  /\ UNCHANGED <<manifest, dir, op, look, calls, crashes>>

\* Touching an owner file shows to whoever has observed it as stale.
Touch(p) ==
  /\ dir' = [dir EXCEPT !.old = @ \ {p}]
  /\ look' = [q \in Processes |->
       IF look[q] # NONE /\ Same(q) /\ look[q].kind = "owner" /\ look[q].file = p
         THEN [look[q] EXCEPT !.touched = TRUE] ELSE look[q]]

\* lease.refresh(): the operation fails when its owner file is gone.
Refresh(p) ==
  /\ at[p] = "refresh"
  /\ IF Owns(p) THEN Go(p, "put") /\ Touch(p)
                ELSE Go(p, "release") /\ UNCHANGED <<dir, look>>
  /\ UNCHANGED <<manifest, op, seen, calls, crashes>>

\* The interval that touches the owner file while the process holds the lock.
Heartbeat(p) ==
  /\ at[p] \in Holding /\ Owns(p) /\ p \in dir.old
  /\ Touch(p)
  /\ UNCHANGED <<manifest, at, op, seen, calls, crashes>>

\* objects.put() of the manifest.
PutManifest(p) ==
  /\ at[p] = "put"
  /\ manifest' = IF op[p][1] = "put" THEN seen[p] \cup {op[p][2]}
                                     ELSE seen[p] \ {op[p][2]}
  /\ Go(p, "release")
  /\ UNCHANGED <<dir, op, seen, look, calls, crashes>>

\* release() renames the owner file; without it there is nothing to give up.
Release(p) ==
  /\ at[p] = "release"
  /\ IF Owns(p)
       THEN /\ Go(p, "leave") /\ UNCHANGED <<op, seen>>
            /\ dir' = [dir EXCEPT !.owners = @ \ {p}, !.old = @ \ {p},
                                  !.aged = FALSE]
       ELSE Finish(p) /\ UNCHANGED dir
  /\ UNCHANGED <<manifest, look, calls, crashes>>

\* release() renames whatever is at the path.
Leave(p) ==
  /\ at[p] = "leave" /\ dir' = NONE /\ Finish(p)
  /\ UNCHANGED <<manifest, look, calls, crashes>>

\* The lock was not to be had in time.
TimeOut(p) ==
  /\ at[p] = "lock" /\ dir # NONE /\ Finish(p)
  /\ UNCHANGED <<manifest, dir, look, calls, crashes>>

-----------------------------------------------------------------------------
\* Recovery, by a process that waits for the lock.

Observed(q, kind, file, place) ==
  /\ look' = [look EXCEPT ![q] = [inode |-> dir.inode, kind |-> kind,
                                  file |-> file, touched |-> FALSE]]
  /\ Go(q, place)

\* observeStaleDirectoryLock(): of several owner files the listing may give
\* any first.  A lock that is not stale is polled again.
Observe(q) ==
  /\ at[q] = "lock" /\ dir # NONE
  /\ \/ \E p \in dir.owners \cap dir.old : Observed(q, "owner", p, "claim")
     \/ dir.recoveryOld /\ Observed(q, "recovery", dir.recovery, "claim")
     \/ /\ dir.owners = {} /\ dir.recovery = NONE /\ dir.aged
        /\ Observed(q, "none", NONE, "recover")
  /\ UNCHANGED <<manifest, dir, op, seen, calls, crashes>>

Retry(q) == Go(q, "lock") /\ look' = [look EXCEPT ![q] = NONE]

\* rename(owner, claimed) finds the owner file that was observed, or none.
ClaimOwner(q) ==
  /\ at[q] = "claim" /\ look[q].kind = "owner"
  /\ IF Same(q) /\ look[q].file \in dir.owners
       THEN /\ dir' = [dir EXCEPT !.owners = @ \ {look[q].file},
                                  !.old = @ \ {look[q].file}, !.aged = FALSE]
            /\ Go(q, "verify") /\ UNCHANGED look
       ELSE Retry(q) /\ UNCHANGED dir
  /\ UNCHANGED <<manifest, op, seen, calls, crashes>>

\* owner-recovery.json has the same path in every directory: the rename may
\* find the one of another process, and the comparison will tell.
ClaimRecovery(q) ==
  /\ at[q] = "claim" /\ look[q].kind = "recovery"
  /\ IF dir # NONE /\ dir.recovery # NONE
       THEN /\ dir' = [dir EXCEPT !.recovery = NONE, !.recoveryOld = FALSE,
                                  !.aged = FALSE]
            /\ look' = [look EXCEPT ![q] =
                 [inode |-> dir.inode, kind |-> "recovery", file |-> dir.recovery,
                  touched |-> ~Same(q) \/ dir.recovery # look[q].file]]
            /\ Go(q, "verify")
       ELSE Retry(q) /\ UNCHANGED dir
  /\ UNCHANGED <<manifest, op, seen, calls, crashes>>

\* Mutant: the claimed file is not compared with the one observed.
VerifyNothing(q) ==
  /\ at[q] = "verify"
  /\ Go(q, "move") /\ look' = [look EXCEPT ![q] = NONE]
  /\ UNCHANGED <<manifest, dir, op, seen, calls, crashes>>

\* Mutant: the comparison finds a change in what the rename itself changes.
VerifyDiffers(q) ==
  /\ at[q] = "verify"
  /\ IF ~Same(q)
       THEN /\ Finish(q) /\ look' = [look EXCEPT ![q] = NONE] /\ UNCHANGED dir
       ELSE /\ UNCHANGED <<op, seen>>
            /\ Retry(q)
            /\ dir' = IF look[q].kind = "owner"
                 THEN [dir EXCEPT !.owners = @ \cup {look[q].file}, !.aged = FALSE]
                 ELSE [dir EXCEPT !.recovery = look[q].file, !.aged = FALSE]
  /\ UNCHANGED <<manifest, calls, crashes>>

\* sameDirectoryLockOwner(): a file that has changed goes back to its place.
\* Without the directory the read fails, and the operation with it.
Verify(q) ==
  /\ at[q] = "verify"
  /\ IF ~Same(q)
       THEN /\ Finish(q) /\ look' = [look EXCEPT ![q] = NONE] /\ UNCHANGED dir
       ELSE /\ UNCHANGED <<op, seen>>
            /\ IF ~look[q].touched
                 THEN /\ Go(q, "move") /\ look' = [look EXCEPT ![q] = NONE]
                      /\ UNCHANGED dir
                 ELSE /\ Retry(q)
                      /\ dir' = IF look[q].kind = "owner"
                           THEN [dir EXCEPT !.owners = @ \cup {look[q].file},
                                            !.aged = FALSE]
                           ELSE [dir EXCEPT !.recovery = look[q].file,
                                            !.aged = FALSE]
  /\ UNCHANGED <<manifest, calls, crashes>>

\* claimOwnerlessDirectoryLock() writes its file where there is none yet.
WriteRecovery(q) ==
  /\ at[q] = "recover"
  /\ IF dir # NONE /\ dir.recovery = NONE
       THEN /\ dir' = [dir EXCEPT !.recovery = q, !.recoveryOld = FALSE,
                                  !.aged = FALSE]
            /\ Go(q, "inspect") /\ UNCHANGED look
       ELSE Retry(q) /\ UNCHANGED dir
  /\ UNCHANGED <<manifest, op, seen, calls, crashes>>

\* Then it looks whether the directory is the one it observed and still
\* without an owner; if not, it takes its file back.
Inspect(q) ==
  /\ at[q] = "inspect"
  /\ look' = [look EXCEPT ![q] = NONE]
  /\ \/ /\ dir = NONE /\ Finish(q) /\ UNCHANGED dir
     \/ /\ Same(q) /\ dir.owners = {}
        /\ Go(q, "move") /\ UNCHANGED <<dir, op, seen>>
     \/ /\ dir # NONE /\ ~(Same(q) /\ dir.owners = {})
        /\ Go(q, "lock") /\ UNCHANGED <<op, seen>>
        /\ dir' = [dir EXCEPT !.recovery = NONE, !.recoveryOld = FALSE,
                              !.aged = FALSE]
  /\ UNCHANGED <<manifest, calls, crashes>>

\* The directory is renamed away, and the waiter tries again to make it.
Move(q) ==
  /\ at[q] = "move" /\ Go(q, "lock") /\ dir' = NONE
  /\ UNCHANGED <<manifest, op, seen, look, calls, crashes>>

-----------------------------------------------------------------------------
\* Time and death.

\* A lease lasts far longer than one step: before one runs out, every live
\* process that was in the middle of these has gone on, unless it sleeps.
Quiet == \A p \in Processes :
  at[p] \in {"name", "put", "leave", "verify", "inspect", "move"} =>
    at[p] \in Stalls

\* The lease of an owner file runs out when nobody touches it, or who does sleeps.
OwnerAges(p) ==
  /\ Owns(p) /\ p \notin dir.old /\ Quiet
  /\ at[p] \in Holding => at[p] \in Stalls
  /\ dir' = [dir EXCEPT !.old = @ \cup {p}]
  /\ UNCHANGED <<manifest, at, op, seen, look, calls, crashes>>

\* The directory, owner-recovery.json in it, or both get past the lease.
DirectoryAges ==
  /\ dir # NONE /\ Quiet
  /\ \E aged \in {dir.aged, TRUE}, old \in {dir.recoveryOld, dir.recovery # NONE} :
       dir' = [dir EXCEPT !.aged = aged, !.recoveryOld = old]
  /\ dir' # dir
  /\ UNCHANGED <<manifest, at, op, seen, look, calls, crashes>>

\* Who waits can tell a dead owner from its pid, without its lease.
Crash(p) ==
  /\ at[p] \notin {"idle", "dead"} /\ crashes < MaxCrashes
  /\ crashes' = crashes + 1
  /\ Go(p, "dead")
  /\ op' = [op EXCEPT ![p] = NONE] /\ seen' = [seen EXCEPT ![p] = {}]
  /\ look' = [look EXCEPT ![p] = NONE]
  /\ dir' = IF dir = NONE THEN NONE
            ELSE [dir EXCEPT !.old = @ \cup (dir.owners \cap {p}),
                             !.recoveryOld = @ \/ dir.recovery = p]
  /\ UNCHANGED <<manifest, calls>>

Restart(p) ==
  /\ at[p] = "dead" /\ Go(p, "idle")
  /\ UNCHANGED <<manifest, dir, op, seen, look, calls, crashes>>

Init ==
  /\ manifest = {} /\ dir = NONE
  /\ at = [p \in Processes |-> "idle"]
  /\ op = [p \in Processes |-> NONE]
  /\ seen = [p \in Processes |-> {}]
  /\ look = [p \in Processes |-> NONE]
  /\ calls = [p \in Processes |-> 0]
  /\ crashes = 0

\* What a process does without being asked, save for giving up.
Step(p) ==
  \/ MakeDirectory(p) \/ WriteOwner(p) \/ ReadManifest(p) \/ Refresh(p)
  \/ PutManifest(p) \/ Release(p) \/ Leave(p)
  \/ Observe(p) \/ ClaimOwner(p) \/ ClaimRecovery(p) \/ Verify(p)
  \/ WriteRecovery(p) \/ Inspect(p) \/ Move(p)

Ages == (\E p \in Processes : OwnerAges(p)) \/ DirectoryAges

Next ==
  \/ \E p \in Processes :
       Start(p) \/ Step(p) \/ Heartbeat(p) \/ TimeOut(p) \/ Crash(p) \/ Restart(p)
  \/ Ages

\* Live processes go on, time passes; nobody has to give up, die or restart.
Fairness == (\A p \in Processes : WF_vars(Step(p))) /\ WF_vars(Ages)

Spec == Init /\ [][Next]_vars /\ Fairness

-----------------------------------------------------------------------------
\* Properties.

\* No update is lost: a manifest is only ever replaced by a process that has
\* read that very manifest, whoever died or slept in between.
NoLostArtifact ==
  [][\A p \in Processes : at[p] = "put" /\ at'[p] = "release" =>
       seen[p] = manifest]_vars

\* Who waits for the lock comes by it, or gives up, or dies: whatever a dead or
\* sleeping holder, or a dead waiter that was recovering the lock, has left at
\* the path, recovery ends, and does not only begin again.
WaitersGetOn == \A p \in Processes : at[p] = "lock" ~> at[p] \in {"name", "idle", "dead"}
=============================================================================
