------------------------ MODULE ArtifactStoreProofs ------------------------
(***************************************************************************)
(* Proofs about ArtifactStore: no update of a manifest is lost, for any    *)
(* number of processes, artifacts and operations, as long as at most one   *)
(* process ever dies and a live one sleeps past the lease only while it    *)
(* reads or before it refreshes (OneDeath).                                *)
(*                                                                         *)
(* A directory under the path has one custodian.  It is the process whose  *)
(* owner file is in it, or a keeper: who has just made it, gives it up, or *)
(* has claimed it from its owner.  Without a keeper it is empty only after *)
(* a death, which is then the last: from there on the processes that       *)
(* recover it all mean this directory, one of them has its file in it, and *)
(* nobody writes the manifest.                                             *)
(***************************************************************************)
EXTENDS ArtifactStore, FiniteSetTheorems, TLAPS

\* What a waiter has observed: an owner file has an owner.
Finding == {l \in Look : l.kind = "owner" => l.file \in Processes}

\* Who works has an operation; who recovers a lock has observed it.
TypeInv ==
  /\ TypeOK
  /\ \A p \in Processes : at[p] \notin {"idle", "dead"} => op[p] \in Operations
  /\ \A q \in Processes : at[q] \in {"claim", "verify", "recover", "inspect"}
       => look[q] \in Finding

\* There is always an inode that no waiter remembers.
LEMMA NextInodeFacts ==
  ASSUME TypeOK
  PROVE  /\ NextInode \in Nat
         /\ \A q \in Processes : look[q] = NONE \/ look[q].inode # NextInode
<1> DEFINE N == Cardinality(Processes)
           Free(n) == \A q \in Processes : look[q] = NONE \/ look[q].inode # n
<1>1. N \in Nat /\ IsFiniteSet(0..N) /\ Cardinality(0..N) = N + 1
  <2>1. N \in Nat
    BY FS_CardinalityType, ArtifactAssumption
  <2> QED BY <2>1, FS_Interval
<1>2. ASSUME \A n \in 0..N : ~Free(n)
      PROVE  FALSE
  <2> DEFINE g == [n \in 0..N |-> CHOOSE q \in Processes :
                                    look[q] # NONE /\ look[q].inode = n]
  <2>1. \A n \in 0..N : g[n] \in Processes /\ look[g[n]].inode = n
    BY <1>2
  <2>2. g \in [0..N -> Processes]
    BY <2>1
  <2> HIDE DEF g
  <2>3. PICK x \in 0..N, y \in 0..N : x # y /\ g[x] = g[y]
    <3>1. Cardinality(Processes) < Cardinality(0..N)
      BY <1>1
    <3> QED BY <1>1, <2>2, <3>1, FS_PigeonHole, ArtifactAssumption
  <2> QED BY <2>1, <2>3
<1>3. NextInode \in 0..N /\ Free(NextInode)
  <2>1. \E n \in 0..N : Free(n)
    BY <1>2
  <2> QED BY <2>1 DEF NextInode
<1> QED BY <1>1, <1>3

\* Touching keeps the types.
LEMMA TouchType ==
  ASSUME TypeOK, NEW p \in Processes, Owns(p), Touch(p)
  PROVE  /\ dir' \in Directory /\ look' \in [Processes -> Look \cup {NONE}]
         /\ \A q \in Processes : look[q] \in Finding => look'[q] \in Finding
<1>1. dir \in Directory
  BY DEF Owns, TypeOK
<1>2. ASSUME NEW q \in Processes, look[q] \in Look
      PROVE  /\ [look[q] EXCEPT !.touched = TRUE] \in Look
             /\ look[q] \in Finding =>
                  [look[q] EXCEPT !.touched = TRUE] \in Finding
  BY <1>2 DEF Look, Finding
<1>3. [dir EXCEPT !.old = @ \ {p}] \in Directory
  BY <1>1 DEF Directory
<1> QED BY <1>2, <1>3 DEF Touch, TypeOK, Finding

\* The types hold at first.
LEMMA InitType ==
  ASSUME Init
  PROVE  TypeInv
BY ArtifactAssumption DEF Init, TypeInv, TypeOK, Places

\* Every step keeps the types.
LEMMA NextType ==
  ASSUME TypeInv, [Next]_vars
  PROVE  TypeInv'
<1> USE DEF TypeInv
<1>d. dir # NONE => dir \in Directory
  BY DEF TypeOK
<1>1. ASSUME NEW p \in Processes, Start(p)
      PROVE  TypeInv'
  <2>1. calls' \in [Processes -> 0..Calls]
    BY <1>1, ArtifactAssumption DEF Start, TypeOK
  <2>2. op' \in [Processes -> Operations \cup {NONE}] /\ op'[p] \in Operations
        /\ \A q \in Processes \ {p} : op'[q] = op[q]
    BY <1>1 DEF Start, TypeOK
  <2> QED BY <1>1, <2>1, <2>2 DEF Start, Go, TypeOK, Places
<1>2. ASSUME NEW p \in Processes, MakeDirectory(p)
      PROVE  TypeInv'
  <2>1. dir' \in Directory
    BY <1>2, NextInodeFacts DEF MakeDirectory, Directory, Or
  <2> QED BY <1>2, <2>1 DEF MakeDirectory, Go, TypeOK, Places
<1>3. ASSUME NEW p \in Processes, WriteOwner(p)
      PROVE  TypeInv'
  <2>1. dir' \in Directory \cup {NONE}
    <3>1. CASE dir = NONE
      BY <1>3, <3>1 DEF WriteOwner
    <3>2. CASE dir # NONE
      <4>1. dir \in Directory /\ dir.owners \cup {p} \subseteq Processes
        BY <1>d, <3>2 DEF Directory
      <4> QED BY <1>3, <3>2, <4>1 DEF WriteOwner, Directory
    <3> QED BY <3>1, <3>2
  <2> QED BY <1>3, <2>1 DEF WriteOwner, Finish, Go, TypeOK, Places, Holding
<1>4. ASSUME NEW p \in Processes, ReadManifest(p)
      PROVE  TypeInv'
  BY <1>4 DEF ReadManifest, Go, TypeOK, Places, Holding
<1>5. ASSUME NEW p \in Processes, Refresh(p)
      PROVE  TypeInv'
  <2>1. CASE Owns(p)
    <3>1. /\ at[p] = "refresh" /\ Touch(p) /\ Go(p, "put")
          /\ UNCHANGED <<manifest, op, seen, calls, crashes>>
      BY <1>5, <2>1 DEF Refresh
    <3>2. dir' \in Directory /\ look' \in [Processes -> Look \cup {NONE}]
          /\ \A q \in Processes : look[q] \in Finding => look'[q] \in Finding
      BY <2>1, <3>1, TouchType
    <3> QED BY <3>1, <3>2 DEF Go, TypeOK, Places, Holding
  <2>2. CASE ~Owns(p)
    BY <1>5, <2>2 DEF Refresh, Go, TypeOK, Places, Holding
  <2> QED BY <2>1, <2>2
<1>6. ASSUME NEW p \in Processes, Heartbeat(p)
      PROVE  TypeInv'
  <2>1. dir' \in Directory /\ look' \in [Processes -> Look \cup {NONE}]
          /\ \A q \in Processes : look[q] \in Finding => look'[q] \in Finding
    BY <1>6, TouchType DEF Heartbeat
  <2> QED BY <1>6, <2>1 DEF Heartbeat, TypeOK
<1>7. ASSUME NEW p \in Processes, PutManifest(p)
      PROVE  TypeInv'
  <2>1. op[p] \in {"put", "remove"} \X Artifacts /\ seen[p] \subseteq Artifacts
    BY <1>7, ArtifactAssumption DEF PutManifest, TypeOK
  <2>2. manifest' \subseteq Artifacts
    BY <1>7, <2>1 DEF PutManifest
  <2> QED BY <1>7, <2>2 DEF PutManifest, Go, TypeOK, Places, Holding
<1>8. ASSUME NEW p \in Processes, Release(p)
      PROVE  TypeInv'
  <2>1. dir' \in Directory \cup {NONE}
    BY <1>8, <1>d DEF Release, Owns, Directory
  <2> QED BY <1>8, <2>1 DEF Release, Finish, Go, TypeOK, Places, Holding
<1>9. ASSUME NEW p \in Processes,
             Leave(p) \/ TimeOut(p) \/ Move(p) \/ Restart(p)
      PROVE  TypeInv'
  BY <1>9 DEF Leave, TimeOut, Move, Restart, Finish, Go, TypeOK, Places,
              Holding
<1>10. ASSUME NEW q \in Processes, Observe(q)
      PROVE  TypeInv'
  <2>1. PICK kind \in {"owner", "recovery", "none"}, file \in Or(Processes),
             place \in {"claim", "recover"} :
               /\ Observed(q, kind, file, place)
               /\ kind = "owner" => file \in Processes
    BY <1>10, <1>d DEF Observe, Directory, Or
  <2> DEFINE record == [inode |-> dir.inode, kind |-> kind, file |-> file,
                        touched |-> FALSE]
  <2>2. record \in Finding
    <3>1. dir \in Directory
      BY <1>10, <1>d DEF Observe
    <3> QED BY <2>1, <3>1 DEF Look, Finding, Directory
  <2>3. look' = [look EXCEPT ![q] = record] /\ Go(q, place)
    BY <2>1 DEF Observed
  <2> HIDE DEF record
  <2> QED BY <1>10, <2>2, <2>3
      DEF Observe, Finding, Go, TypeOK, Places, Holding
<1>11. ASSUME NEW q \in Processes, ClaimOwner(q)
      PROVE  TypeInv'
  <2>1. dir' \in Directory \cup {NONE}
    BY <1>11, <1>d DEF ClaimOwner, Same, Directory
  <2> QED BY <1>11, <2>1 DEF ClaimOwner, Retry, Go, TypeOK, Places, Holding
<1>12. ASSUME NEW q \in Processes, ClaimRecovery(q)
      PROVE  TypeInv'
  <2>1. CASE dir # NONE /\ dir.recovery # NONE
    <3> DEFINE record == [inode |-> dir.inode, kind |-> "recovery",
                          file |-> dir.recovery,
                          touched |-> ~Same(q) \/ dir.recovery # look[q].file]
    <3>1. dir' \in Directory
      BY <1>12, <1>d, <2>1 DEF ClaimRecovery, Directory, Or
    <3>2. record \in Finding
      BY <1>d, <2>1 DEF Look, Finding, Directory
    <3>3. /\ look' = [look EXCEPT ![q] = record] /\ Go(q, "verify")
          /\ at[q] = "claim"
      BY <1>12, <2>1 DEF ClaimRecovery
    <3> HIDE DEF record
    <3> QED BY <1>12, <3>1, <3>2, <3>3
            DEF ClaimRecovery, Finding, Go, TypeOK, Places, Holding
  <2>2. CASE ~(dir # NONE /\ dir.recovery # NONE)
    BY <1>12, <2>2 DEF ClaimRecovery, Retry, Go, TypeOK, Places, Holding
  <2> QED BY <2>1, <2>2
<1>13. ASSUME NEW q \in Processes, Verify(q)
      PROVE  TypeInv'
  <2>1. /\ look[q].file \in Or(Processes)
        /\ look[q].kind = "owner" => look[q].file \in Processes
    BY <1>13 DEF Verify, Look, Finding
  <2>2. dir' \in Directory \cup {NONE}
    <3>1. CASE ~Same(q) \/ ~look[q].touched
      BY <1>13, <3>1 DEF Verify, TypeOK
    <3>2. CASE Same(q) /\ look[q].touched
      <4>1. dir \in Directory
        BY <1>d, <3>2 DEF Same
      <4>2. dir' = IF look[q].kind = "owner"
                     THEN [dir EXCEPT !.owners = @ \cup {look[q].file},
                                      !.aged = FALSE]
                     ELSE [dir EXCEPT !.recovery = look[q].file,
                                      !.aged = FALSE]
        BY <1>13, <3>2 DEF Verify
      <4>3. CASE look[q].kind = "owner"
        BY <1>13, <2>1, <4>1, <4>2, <4>3 DEF Directory, Or
      <4>4. CASE look[q].kind # "owner"
        BY <2>1, <4>1, <4>2, <4>4 DEF Directory
      <4> QED BY <4>3, <4>4
    <3> QED BY <3>1, <3>2
  <2> QED BY <1>13, <2>2 DEF Verify, Retry, Finish, Go, TypeOK, Places, Holding
<1>14. ASSUME NEW q \in Processes, WriteRecovery(q)
      PROVE  TypeInv'
  <2>1. dir' \in Directory \cup {NONE}
    BY <1>14, <1>d DEF WriteRecovery, Directory, Or
  <2> QED BY <1>14, <2>1 DEF WriteRecovery, Retry, Go, TypeOK, Places, Holding
<1>15. ASSUME NEW q \in Processes, Inspect(q)
      PROVE  TypeInv'
  <2>1. dir' \in Directory \cup {NONE}
    BY <1>15, <1>d DEF Inspect, Directory, Or
  <2> QED BY <1>15, <2>1 DEF Inspect, Finish, Go, TypeOK, Places, Holding
<1>16. ASSUME NEW p \in Processes, OwnerAges(p)
      PROVE  TypeInv'
  <2>1. dir' \in Directory
    BY <1>16, <1>d DEF OwnerAges, Owns, Directory
  <2> QED BY <1>16, <2>1 DEF OwnerAges, TypeOK
<1>17. CASE DirectoryAges
  <2>1. dir' \in Directory
    BY <1>17, <1>d DEF DirectoryAges, Directory
  <2> QED BY <1>17, <2>1 DEF DirectoryAges, TypeOK
<1>18. ASSUME NEW p \in Processes, Crash(p)
      PROVE  TypeInv'
  <2>1. dir' \in Directory \cup {NONE}
    BY <1>18, <1>d DEF Crash, Directory
  <2>2. crashes' \in 0..MaxCrashes
    BY <1>18, ArtifactAssumption DEF Crash, TypeOK
  <2> QED BY <1>18, <2>1, <2>2 DEF Crash, Go, TypeOK, Places, Holding
<1>19. CASE UNCHANGED vars
  BY <1>19 DEF vars, TypeOK
<1> QED
  BY <1>1, <1>2, <1>3, <1>4, <1>5, <1>6, <1>7, <1>8, <1>9, <1>10, <1>11, <1>12,
     <1>13, <1>14, <1>15, <1>16, <1>17, <1>18, <1>19 DEF Next, Step, Ages

-----------------------------------------------------------------------------
\* At most one process ever dies, and a live one sleeps past its lease only
\* where the heartbeat or the refresh can tell.
OneDeath ==
  /\ MaxCrashes \in {0, 1}
  /\ Stalls \subseteq {"read", "refresh"}

\* Who has just made the directory, gives it up, or has claimed it.
Keeper(p) == at[p] \in {"name", "leave", "verify", "move"}
Kept == \E p \in Processes : Keeper(p)

Recovering(q) == at[q] \in {"recover", "inspect"}

\* What a waiter remembers of the lock fits what it is doing.  A directory is
\* without an owner file long enough only after a death.
Looks ==
  /\ \A q \in Processes : at[q] = "claim" =>
       look[q] # NONE /\ look[q].kind = "owner"
  /\ \A q \in Processes : at[q] = "verify" =>
       look[q] # NONE /\ look[q].kind = "owner" /\ Same(q)
  /\ \A q \in Processes : Recovering(q) =>
       look[q] # NONE /\ look[q].kind = "none" /\ crashes = 1

\* A directory has an owner or a keeper, and only one.
OneCustodian ==
  /\ \A p, q \in Processes : Keeper(p) /\ Keeper(q) => p = q
  /\ Kept => dir # NONE /\ dir.owners = {}
  /\ dir # NONE =>
       /\ \A p, q \in dir.owners : p = q
       /\ dir.old \subseteq dir.owners
       /\ dir.owners = {} /\ ~Kept => crashes = 1

\* A directory that is found without an owner is nobody's.
Abandoned ==
  dir # NONE =>
    /\ ~dir.recoveryOld
    /\ dir.recovery # NONE =>
         crashes = 1 /\ at[dir.recovery] \in {"inspect", "move"}
    /\ dir.aged /\ dir.owners = {} =>
         \A p \in Processes : /\ ~Keeper(p) /\ at[p] # "put"
                              /\ at[p] = "inspect" => ~Same(p)

\* All who recover mean the same directory.  While it is there only one of
\* them, whose file is in it, moves it, and nobody works under it.
OneRecovery ==
  \A q \in Processes : Recovering(q) =>
    /\ Same(q) =>
         /\ dir.owners = {}
         /\ \A p \in Processes :
              /\ at[p] \notin {"name", "leave", "verify", "put"}
              /\ at[p] = "move" => dir.recovery = p
         /\ at[q] = "inspect" => dir.recovery = q
    /\ ~Same(q) /\ dir # NONE => dir.owners # {} \/ Kept
    /\ \A p \in Processes : Recovering(p) => look[p].inode = look[q].inode

\* Somebody has the owner file of p in hand.
Claimed(p) == \E q \in Processes : at[q] = "verify" /\ look[q].file = p

\* Who is about to write holds the lock, or its file has been claimed and will
\* be put back, or who was to put it back has died.
Fenced ==
  /\ \A p, q \in Processes : at[p] = "put" /\ at[q] = "put" => p = q
  /\ \A p \in Processes : at[p] = "put" =>
       /\ seen[p] = manifest /\ dir # NONE /\ p \notin dir.old
       /\ p \in dir.owners \/ Claimed(p) \/ (dir.owners = {} /\ ~Kept)
       /\ \A q \in Processes :
            at[q] \in {"claim", "verify"} /\ Same(q) /\ look[q].file = p
              => look[q].touched
  /\ \A p \in Processes :
       at[p] = "refresh" /\ (Owns(p) \/ Claimed(p)) => seen[p] = manifest

LockInv == Looks /\ OneCustodian /\ Abandoned /\ OneRecovery /\ Fenced

IInv == TypeInv /\ LockInv

\* A process goes to a place, and the others stay.
Moves(p, place) ==
  at'[p] = place /\ \A q \in Processes \ {p} : at'[q] = at[q]

\* The directory stays and its entries change.
Becomes(owners, old, recovery) ==
  /\ dir # NONE /\ dir \in Directory /\ dir' # NONE /\ dir' \in Directory
  /\ dir'.inode = dir.inode /\ dir'.owners = owners /\ dir'.old = old
  /\ dir'.recovery = recovery

\* The file owner-recovery.json, if there is one, is that of a process.
LEMMA RecoveryType ==
  ASSUME TypeInv, dir # NONE, dir.recovery # NONE
  PROVE  dir.recovery \in Processes
BY DEF TypeInv, TypeOK, Directory, Or

\* A process that starts changes nothing of the lock.
LEMMA StartLocks ==
  ASSUME OneDeath, IInv, TypeInv', NEW p \in Processes, Start(p)
  PROVE  LockInv'
<1> USE DEF IInv, LockInv
<1>0. /\ at[p] = "idle" /\ Moves(p, "lock")
      /\ UNCHANGED <<manifest, dir, seen, look, crashes>>

  BY DEF Start, Go, Moves, TypeInv, TypeOK
<1>1. Looks'
  BY <1>0 DEF TypeInv, TypeOK, Looks, OneCustodian, Keeper, Kept, Recovering,
     Claimed, Owns, Same, Moves, Becomes
<1>2. OneCustodian'
  BY <1>0 DEF Looks, OneCustodian, Abandoned, OneRecovery, Keeper, Kept,
     Recovering, Claimed, Owns, Same, Moves, Becomes
<1>3. Abandoned'
  BY <1>0, RecoveryType DEF Looks, OneCustodian, Abandoned, OneRecovery,
     Keeper, Kept, Recovering, Claimed, Owns, Same, Moves, Becomes
<1>4. OneRecovery'
  BY <1>0 DEF Looks, OneCustodian, Abandoned, OneRecovery, Keeper, Kept,
     Recovering, Claimed, Owns, Same, Moves, Becomes
<1>5. Fenced'
  BY <1>0 DEF Looks, OneCustodian, Abandoned, OneRecovery, Fenced, Keeper,
     Kept, Recovering, Claimed, Owns, Same, Moves, Becomes
<1> QED BY <1>1, <1>2, <1>3, <1>4, <1>5

\* Who makes the directory is its keeper: there was none.
LEMMA MakeDirectoryLocks ==
  ASSUME OneDeath, IInv, TypeInv', NEW p \in Processes, MakeDirectory(p)
  PROVE  LockInv'
<1> USE DEF IInv, LockInv
<1>0. /\ at[p] = "lock" /\ dir = NONE /\ ~Kept /\ Moves(p, "name")
      /\ dir' # NONE /\ dir' \in Directory /\ dir'.owners = {} /\ dir'.old = {}
      /\ dir'.recovery = NONE /\ ~dir'.recoveryOld /\ ~dir'.aged
      /\ \A q \in Processes : look[q] = NONE \/ look[q].inode # dir'.inode
      /\ UNCHANGED <<manifest, op, seen, look, calls, crashes>>

  <2>1. dir' \in Directory /\ dir' # NONE
    <3>1. NextInode \in Nat
      BY NextInodeFacts DEF TypeInv
    <3>2. [inode |-> NextInode, owners |-> {}, old |-> {}, recovery |-> NONE,
           recoveryOld |-> FALSE, aged |-> FALSE] \in Directory
      BY <3>1 DEF Directory, Or
    <3> QED BY <3>2, NoneIsNoRecord DEF MakeDirectory
  <2> QED BY <2>1, NextInodeFacts
      DEF MakeDirectory, Go, Moves, TypeInv, TypeOK, OneCustodian
<1>1. Looks'
  BY <1>0 DEF TypeInv, TypeOK, Looks, OneCustodian, Keeper, Kept, Recovering,
     Claimed, Owns, Same, Moves, Becomes
<1>2. OneCustodian'
  BY <1>0 DEF Looks, OneCustodian, Abandoned, OneRecovery, Keeper, Kept,
     Recovering, Claimed, Owns, Same, Moves, Becomes
<1>3. Abandoned'
  BY <1>0, RecoveryType DEF Looks, OneCustodian, Abandoned, OneRecovery,
     Keeper, Kept, Recovering, Claimed, Owns, Same, Moves, Becomes
<1>4. OneRecovery'
  BY <1>0 DEF Looks, OneCustodian, Abandoned, OneRecovery, Keeper, Kept,
     Recovering, Claimed, Owns, Same, Moves, Becomes
<1>5. Fenced'
  BY <1>0 DEF Looks, OneCustodian, Abandoned, OneRecovery, Fenced, Keeper,
     Kept, Recovering, Claimed, Owns, Same, Moves, Becomes
<1> QED BY <1>1, <1>2, <1>3, <1>4, <1>5

\* The keeper of a new directory becomes its owner.
LEMMA WriteOwnerLocks ==
  ASSUME OneDeath, IInv, TypeInv', NEW p \in Processes, WriteOwner(p)
  PROVE  LockInv'
<1> USE DEF IInv, LockInv
<1>0. /\ at[p] = "name" /\ Moves(p, "read") /\ dir.owners = {} /\ dir.old = {}
      /\ Becomes({p}, {}, dir.recovery) /\ dir'.recoveryOld = dir.recoveryOld
      /\ ~dir'.aged
      /\ UNCHANGED <<manifest, op, seen, look, calls, crashes>>

  <2>1. /\ Keeper(p) /\ dir \in Directory /\ dir # NONE
        /\ dir.owners = {} /\ dir.old = {}
    BY NoneIsNoRecord
       DEF WriteOwner, Keeper, Kept, OneCustodian, TypeInv, TypeOK
  <2>2. dir' = [dir EXCEPT !.owners = @ \cup {p}, !.aged = FALSE]
    BY <2>1 DEF WriteOwner
  <2>3. /\ dir' \in Directory /\ dir'.inode = dir.inode /\ dir'.owners = {p}
        /\ dir'.old = {} /\ dir'.recovery = dir.recovery
        /\ dir'.recoveryOld = dir.recoveryOld /\ ~dir'.aged
    BY <2>1, <2>2 DEF Directory
  <2> QED BY <2>1, <2>3, NoneIsNoRecord
      DEF WriteOwner, Becomes, Go, Moves, TypeInv, TypeOK
<1>1. Looks'
  BY <1>0 DEF TypeInv, TypeOK, Looks, OneCustodian, Keeper, Kept, Recovering,
     Claimed, Owns, Same, Moves, Becomes
<1>2. OneCustodian'
  BY <1>0 DEF Looks, OneCustodian, Abandoned, OneRecovery, Keeper, Kept,
     Recovering, Claimed, Owns, Same, Moves, Becomes
<1>3. Abandoned'
  BY <1>0, RecoveryType DEF Looks, OneCustodian, Abandoned, OneRecovery,
     Keeper, Kept, Recovering, Claimed, Owns, Same, Moves, Becomes
<1>4. OneRecovery'
  BY <1>0 DEF Looks, OneCustodian, Abandoned, OneRecovery, Keeper, Kept,
     Recovering, Claimed, Owns, Same, Moves, Becomes
<1>5. Fenced'
  BY <1>0 DEF Looks, OneCustodian, Abandoned, OneRecovery, Fenced, Keeper,
     Kept, Recovering, Claimed, Owns, Same, Moves, Becomes
<1> QED BY <1>1, <1>2, <1>3, <1>4, <1>5

\* Who holds the lock reads the manifest as it is.
LEMMA ReadManifestLocks ==
  ASSUME OneDeath, IInv, TypeInv', NEW p \in Processes, ReadManifest(p)
  PROVE  LockInv'
<1> USE DEF IInv, LockInv
<1>0. /\ at[p] = "read"
      /\ \E place \in {"release", "refresh"} : Moves(p, place)
      /\ seen' = [seen EXCEPT ![p] = manifest]
      /\ UNCHANGED <<manifest, dir, op, look, calls, crashes>>

  BY DEF ReadManifest, Go, Moves, TypeInv, TypeOK
<1>1. Looks'
  BY <1>0 DEF TypeInv, TypeOK, Looks, OneCustodian, Keeper, Kept, Recovering,
     Claimed, Owns, Same, Moves, Becomes
<1>2. OneCustodian'
  BY <1>0 DEF Looks, OneCustodian, Abandoned, OneRecovery, Keeper, Kept,
     Recovering, Claimed, Owns, Same, Moves, Becomes
<1>3. Abandoned'
  BY <1>0, RecoveryType DEF Looks, OneCustodian, Abandoned, OneRecovery,
     Keeper, Kept, Recovering, Claimed, Owns, Same, Moves, Becomes
<1>4. OneRecovery'
  BY <1>0 DEF Looks, OneCustodian, Abandoned, OneRecovery, Keeper, Kept,
     Recovering, Claimed, Owns, Same, Moves, Becomes
<1>5. Fenced'
  BY <1>0 DEF TypeInv, TypeOK, Looks, OneCustodian, Abandoned, OneRecovery,
     Fenced, Keeper, Kept, Recovering, Claimed, Owns, Same, Moves, Becomes
<1> QED BY <1>1, <1>2, <1>3, <1>4, <1>5

\* What touching an owner file changes.
LEMMA TouchFacts ==
  ASSUME TypeInv, NEW p \in Processes, Owns(p), Touch(p)
  PROVE /\ dir # NONE /\ p \in dir.owners
         /\ Becomes(dir.owners, dir.old \ {p}, dir.recovery)
         /\ dir'.recoveryOld = dir.recoveryOld /\ dir'.aged = dir.aged
         /\ \A q \in Processes : look[q] # NONE =>
              /\ look'[q] # NONE /\ look'[q].inode = look[q].inode
              /\ look'[q].kind = look[q].kind /\ look'[q].file = look[q].file
              /\ look[q].touched => look'[q].touched
              /\ Same(q) /\ look[q].kind = "owner" /\ look[q].file = p
                   => look'[q].touched
<1>1. dir \in Directory /\ dir # NONE /\ p \in dir.owners
  BY NoneIsNoRecord DEF Owns, TypeInv, TypeOK
<1>2. /\ Becomes(dir.owners, dir.old \ {p}, dir.recovery)
      /\ dir'.recoveryOld = dir.recoveryOld /\ dir'.aged = dir.aged
  BY <1>1, NoneIsNoRecord DEF Touch, Becomes, Directory
<1>3. ASSUME NEW q \in Processes, look[q] # NONE
      PROVE  /\ look'[q] # NONE /\ look'[q].inode = look[q].inode
             /\ look'[q].kind = look[q].kind /\ look'[q].file = look[q].file
             /\ look[q].touched => look'[q].touched
             /\ Same(q) /\ look[q].kind = "owner" /\ look[q].file = p
                  => look'[q].touched
  <2>1. look[q] \in Look
    BY <1>3 DEF TypeInv, TypeOK
  <2> DEFINE touched == [look[q] EXCEPT !.touched = TRUE]
  <2>2. /\ touched \in Look /\ touched # NONE /\ touched.inode = look[q].inode
        /\ touched.kind = look[q].kind /\ touched.file = look[q].file
        /\ touched.touched
    BY <2>1, NoneIsNoRecord DEF Look
  <2>3. look'[q] = IF Same(q) /\ look[q].kind = "owner" /\ look[q].file = p
                     THEN touched ELSE look[q]
    BY <1>3 DEF Touch
  <2> QED BY <1>3, <2>2, <2>3
<1> QED BY <1>1, <1>2, <1>3

\* A holder that wakes up is not stale, and who has observed it can tell.
LEMMA HeartbeatLocks ==
  ASSUME OneDeath, IInv, TypeInv', NEW p \in Processes, Heartbeat(p)
  PROVE  LockInv'
<1> USE DEF IInv, LockInv
<1>0. /\ at[p] \in Holding
      /\ dir # NONE /\ p \in dir.owners
      /\ Becomes(dir.owners, dir.old \ {p}, dir.recovery)
      /\ dir'.recoveryOld = dir.recoveryOld /\ dir'.aged = dir.aged
      /\ \A q \in Processes : look[q] # NONE =>
           /\ look'[q] # NONE /\ look'[q].inode = look[q].inode
           /\ look'[q].kind = look[q].kind /\ look'[q].file = look[q].file
           /\ look[q].touched => look'[q].touched
           /\ Same(q) /\ look[q].kind = "owner" /\ look[q].file = p
                => look'[q].touched
      /\ UNCHANGED <<manifest, at, op, seen, calls, crashes>>

  BY TouchFacts DEF Heartbeat, Owns
<1>1. Looks'
  BY <1>0 DEF TypeInv, TypeOK, Looks, OneCustodian, Holding, Keeper, Kept,
     Recovering, Claimed, Owns, Same, Moves, Becomes
<1>2. OneCustodian'
  BY <1>0 DEF Looks, OneCustodian, Abandoned, OneRecovery, Holding, Keeper,
     Kept, Recovering, Claimed, Owns, Same, Moves, Becomes
<1>3. Abandoned'
  BY <1>0, RecoveryType DEF Looks, OneCustodian, Abandoned, OneRecovery,
     Holding, Keeper, Kept, Recovering, Claimed, Owns, Same, Moves, Becomes
<1>4. OneRecovery'
  BY <1>0 DEF Looks, OneCustodian, Abandoned, OneRecovery, Holding, Keeper,
     Kept, Recovering, Claimed, Owns, Same, Moves, Becomes
<1>5. Fenced'
  BY <1>0 DEF Looks, OneCustodian, Abandoned, OneRecovery, Fenced, Holding,
     Keeper, Kept, Recovering, Claimed, Owns, Same, Moves, Becomes
<1> QED BY <1>1, <1>2, <1>3, <1>4, <1>5

\* Who still owns the lock may write what it has read.
LEMMA RefreshLocks ==
  ASSUME OneDeath, IInv, TypeInv', NEW p \in Processes, Refresh(p), Owns(p)
  PROVE  LockInv'
<1> USE DEF IInv, LockInv
<1>0. /\ at[p] = "refresh" /\ Owns(p) /\ Moves(p, "put")
      /\ dir # NONE /\ p \in dir.owners
      /\ Becomes(dir.owners, dir.old \ {p}, dir.recovery)
      /\ dir'.recoveryOld = dir.recoveryOld /\ dir'.aged = dir.aged
      /\ \A q \in Processes : look[q] # NONE =>
           /\ look'[q] # NONE /\ look'[q].inode = look[q].inode
           /\ look'[q].kind = look[q].kind /\ look'[q].file = look[q].file
           /\ look[q].touched => look'[q].touched
           /\ Same(q) /\ look[q].kind = "owner" /\ look[q].file = p
                => look'[q].touched
      /\ UNCHANGED <<manifest, op, seen, calls, crashes>>

  BY TouchFacts DEF Refresh, Go, Moves, Owns, TypeInv, TypeOK
<1>1. Looks'
  BY <1>0 DEF TypeInv, TypeOK, Looks, OneCustodian, Keeper, Kept, Recovering,
     Claimed, Owns, Same, Moves, Becomes
<1>2. OneCustodian'
  BY <1>0 DEF Looks, OneCustodian, Abandoned, OneRecovery, Keeper, Kept,
     Recovering, Claimed, Owns, Same, Moves, Becomes
<1>3. Abandoned'
  BY <1>0, RecoveryType DEF Looks, OneCustodian, Abandoned, OneRecovery,
     Keeper, Kept, Recovering, Claimed, Owns, Same, Moves, Becomes
<1>4. OneRecovery'
  BY <1>0 DEF Looks, OneCustodian, Abandoned, OneRecovery, Keeper, Kept,
     Recovering, Claimed, Owns, Same, Moves, Becomes
<1>5. Fenced'
  BY <1>0 DEF Looks, OneCustodian, Abandoned, OneRecovery, Fenced, Keeper,
     Kept, Recovering, Claimed, Owns, Same, Moves, Becomes
<1> QED BY <1>1, <1>2, <1>3, <1>4, <1>5

\* Only one process writes, and no other relies on what it had read.
LEMMA PutManifestLocks ==
  ASSUME OneDeath, IInv, TypeInv', NEW p \in Processes, PutManifest(p)
  PROVE  LockInv'
<1> USE DEF IInv, LockInv
<1>0. /\ at[p] = "put" /\ Moves(p, "release")
      /\ UNCHANGED <<dir, op, seen, look, calls, crashes>>

  BY DEF PutManifest, Go, Moves, TypeInv, TypeOK
<1>1. Looks'
  BY <1>0 DEF TypeInv, TypeOK, Looks, OneCustodian, Keeper, Kept, Recovering,
     Claimed, Owns, Same, Moves, Becomes
<1>2. OneCustodian'
  BY <1>0 DEF Looks, OneCustodian, Abandoned, OneRecovery, Keeper, Kept,
     Recovering, Claimed, Owns, Same, Moves, Becomes
<1>3. Abandoned'
  BY <1>0, RecoveryType DEF Looks, OneCustodian, Abandoned, OneRecovery,
     Keeper, Kept, Recovering, Claimed, Owns, Same, Moves, Becomes
<1>4. OneRecovery'
  BY <1>0 DEF Looks, OneCustodian, Abandoned, OneRecovery, Keeper, Kept,
     Recovering, Claimed, Owns, Same, Moves, Becomes
<1>5. Fenced'
  BY <1>0 DEF Looks, OneCustodian, Abandoned, OneRecovery, Fenced, Keeper,
     Kept, Recovering, Claimed, Owns, Same, Moves, Becomes
<1> QED BY <1>1, <1>2, <1>3, <1>4, <1>5

\* A process whose file is in the directory is its only custodian.
LEMMA OwnerAlone ==
  ASSUME IInv, NEW p \in Processes, dir # NONE, p \in dir.owners
  PROVE  ~Kept /\ dir.owners = {p} /\ dir.old \subseteq {p}
BY DEF IInv, LockInv, OneCustodian

\* An owner that gives the lock up keeps the directory.
LEMMA ReleaseLocks ==
  ASSUME OneDeath, IInv, TypeInv', NEW p \in Processes, Release(p), Owns(p)
  PROVE  LockInv'
<1> USE DEF IInv, LockInv
<1>0. /\ at[p] = "release" /\ Moves(p, "leave")
      /\ dir.owners = {p} /\ ~Kept
      /\ Becomes({}, {}, dir.recovery) /\ dir'.recoveryOld = dir.recoveryOld
      /\ ~dir'.aged
      /\ UNCHANGED <<manifest, op, seen, look, calls, crashes>>

  <2>1. /\ dir \in Directory /\ dir # NONE /\ ~Kept
        /\ dir.owners = {p} /\ dir.old \subseteq {p}
    BY OwnerAlone, NoneIsNoRecord DEF Owns, TypeInv, TypeOK
  <2>2. dir' = [dir EXCEPT !.owners = @ \ {p}, !.old = @ \ {p}, !.aged = FALSE]
    BY <2>1 DEF Release, Owns
  <2>3. /\ dir' \in Directory /\ dir'.inode = dir.inode /\ dir'.owners = {}
        /\ dir'.old = {} /\ dir'.recovery = dir.recovery
        /\ dir'.recoveryOld = dir.recoveryOld /\ ~dir'.aged
    BY <2>1, <2>2 DEF Directory
  <2> QED BY <2>1, <2>3, NoneIsNoRecord
      DEF Release, Becomes, Go, Moves, TypeInv, TypeOK
<1>1. Looks'
  BY <1>0 DEF TypeInv, TypeOK, Looks, OneCustodian, Keeper, Kept, Recovering,
     Claimed, Owns, Same, Moves, Becomes
<1>2. OneCustodian'
  BY <1>0 DEF Looks, OneCustodian, Abandoned, OneRecovery, Keeper, Kept,
     Recovering, Claimed, Owns, Same, Moves, Becomes
<1>3. Abandoned'
  BY <1>0, RecoveryType DEF Looks, OneCustodian, Abandoned, OneRecovery,
     Keeper, Kept, Recovering, Claimed, Owns, Same, Moves, Becomes
<1>4. OneRecovery'
  BY <1>0 DEF Looks, OneCustodian, Abandoned, OneRecovery, Keeper, Kept,
     Recovering, Claimed, Owns, Same, Moves, Becomes
<1>5. Fenced'
  BY <1>0 DEF Looks, OneCustodian, Abandoned, OneRecovery, Fenced, Keeper,
     Kept, Recovering, Claimed, Owns, Same, Moves, Becomes
<1> QED BY <1>1, <1>2, <1>3, <1>4, <1>5

\* The keeper removes its own directory.
LEMMA LeaveLocks ==
  ASSUME OneDeath, IInv, TypeInv', NEW p \in Processes, Leave(p)
  PROVE  LockInv'
<1> USE DEF IInv, LockInv
<1>0. /\ at[p] = "leave" /\ Moves(p, "idle") /\ dir' = NONE
      /\ seen' = [seen EXCEPT ![p] = {}]
      /\ UNCHANGED <<manifest, look, calls, crashes>>

  BY DEF Leave, Finish, Go, Moves, TypeInv, TypeOK
<1>1. Looks'
  BY <1>0 DEF TypeInv, TypeOK, Looks, OneCustodian, Keeper, Kept, Recovering,
     Claimed, Owns, Same, Moves, Becomes
<1>2. OneCustodian'
  BY <1>0 DEF Looks, OneCustodian, Abandoned, OneRecovery, Keeper, Kept,
     Recovering, Claimed, Owns, Same, Moves, Becomes
<1>3. Abandoned'
  BY <1>0, RecoveryType DEF Looks, OneCustodian, Abandoned, OneRecovery,
     Keeper, Kept, Recovering, Claimed, Owns, Same, Moves, Becomes
<1>4. OneRecovery'
  BY <1>0 DEF Looks, OneCustodian, Abandoned, OneRecovery, Keeper, Kept,
     Recovering, Claimed, Owns, Same, Moves, Becomes
<1>5. Fenced'
  BY <1>0 DEF TypeInv, TypeOK, Looks, OneCustodian, Abandoned, OneRecovery,
     Fenced, Keeper, Kept, Recovering, Claimed, Owns, Same, Moves, Becomes
<1> QED BY <1>1, <1>2, <1>3, <1>4, <1>5

\* Who has recovered a directory removes that one.
LEMMA MoveLocks ==
  ASSUME OneDeath, IInv, TypeInv', NEW p \in Processes, Move(p)
  PROVE  LockInv'
<1> USE DEF IInv, LockInv
<1>0. /\ at[p] = "move" /\ Moves(p, "lock") /\ dir' = NONE
      /\ UNCHANGED <<manifest, op, seen, look, calls, crashes>>

  BY DEF Move, Go, Moves, TypeInv, TypeOK
<1>1. Looks'
  BY <1>0 DEF TypeInv, TypeOK, Looks, OneCustodian, Keeper, Kept, Recovering,
     Claimed, Owns, Same, Moves, Becomes
<1>2. OneCustodian'
  BY <1>0 DEF Looks, OneCustodian, Abandoned, OneRecovery, Keeper, Kept,
     Recovering, Claimed, Owns, Same, Moves, Becomes
<1>3. Abandoned'
  BY <1>0, RecoveryType DEF Looks, OneCustodian, Abandoned, OneRecovery,
     Keeper, Kept, Recovering, Claimed, Owns, Same, Moves, Becomes
<1>4. OneRecovery'
  BY <1>0 DEF Looks, OneCustodian, Abandoned, OneRecovery, Keeper, Kept,
     Recovering, Claimed, Owns, Same, Moves, Becomes
<1>5. Fenced'
  BY <1>0 DEF Looks, OneCustodian, Abandoned, OneRecovery, Fenced, Keeper,
     Kept, Recovering, Claimed, Owns, Same, Moves, Becomes
<1> QED BY <1>1, <1>2, <1>3, <1>4, <1>5

\* A waiter observes the owner file of this directory, or that a death has left
\* it without one.
LEMMA ObserveLocks ==
  ASSUME OneDeath, IInv, TypeInv', NEW p \in Processes, Observe(p)
  PROVE  LockInv'
<1> USE DEF IInv, LockInv
<1>0. /\ at[p] = "lock" /\ dir # NONE /\ dir \in Directory
      /\ look'[p] # NONE /\ look'[p].inode = dir.inode /\ ~look'[p].touched
      /\ \A q \in Processes \ {p} : look'[q] = look[q]
      /\ \/ /\ Moves(p, "claim") /\ look'[p].kind = "owner"
            /\ look'[p].file \in dir.owners \cap dir.old
         \/ /\ dir.owners = {} /\ dir.recovery = NONE /\ dir.aged
            /\ Moves(p, "recover") /\ look'[p].kind = "none"
      /\ UNCHANGED <<manifest, dir, op, seen, calls, crashes>>

  <2>1. dir \in Directory /\ dir # NONE /\ ~dir.recoveryOld /\ at[p] = "lock"
    BY DEF Observe, Abandoned, TypeInv, TypeOK
  <2>2. CASE \E r \in dir.owners \cap dir.old :
               Observed(p, "owner", r, "claim")
    <3>1. PICK r \in dir.owners \cap dir.old : Observed(p, "owner", r, "claim")
      BY <2>2
    <3> DEFINE l == [inode |-> dir.inode, kind |-> "owner", file |-> r,
                     touched |-> FALSE]
    <3>2. l \in Look
      BY <2>1, <3>1 DEF Directory, Look, Or
    <3>3. look'[p] = l /\ \A q \in Processes \ {p} : look'[q] = look[q]
      BY <3>1 DEF Observed, TypeInv, TypeOK
    <3> QED BY <2>1, <3>1, <3>2, <3>3, NoneIsNoRecord
            DEF Observe, Observed, Go, Moves, TypeInv, TypeOK
  <2>3. CASE /\ dir.owners = {} /\ dir.recovery = NONE /\ dir.aged
             /\ Observed(p, "none", NONE, "recover")
    <3> DEFINE l == [inode |-> dir.inode, kind |-> "none", file |-> NONE,
                     touched |-> FALSE]
    <3>2. l \in Look
      BY <2>1 DEF Directory, Look, Or
    <3>3. look'[p] = l /\ \A q \in Processes \ {p} : look'[q] = look[q]
      BY <2>3 DEF Observed, TypeInv, TypeOK
    <3> QED BY <2>1, <2>3, <3>2, <3>3, NoneIsNoRecord
            DEF Observe, Observed, Go, Moves, TypeInv, TypeOK
  <2> QED BY <2>1, <2>2, <2>3 DEF Observe
<1>1. Looks'
  BY <1>0 DEF Looks, OneCustodian, Abandoned, Keeper, Kept, Recovering,
     Claimed, Owns, Same, Moves, Becomes
<1>2. OneCustodian'
  BY <1>0 DEF Looks, OneCustodian, Abandoned, OneRecovery, Keeper, Kept,
     Recovering, Claimed, Owns, Same, Moves, Becomes
<1>3. Abandoned'
  BY <1>0, RecoveryType DEF Looks, OneCustodian, Abandoned, OneRecovery,
     Keeper, Kept, Recovering, Claimed, Owns, Same, Moves, Becomes
<1>4. OneRecovery'
  BY <1>0 DEF Looks, OneCustodian, Abandoned, OneRecovery, Keeper, Kept,
     Recovering, Claimed, Owns, Same, Moves, Becomes
<1>5. Fenced'
  BY <1>0 DEF Looks, OneCustodian, Abandoned, OneRecovery, Fenced, Keeper,
     Kept, Recovering, Claimed, Owns, Same, Moves, Becomes
<1> QED BY <1>1, <1>2, <1>3, <1>4, <1>5

\* Somebody gives up, or looks again, and leaves the lock as it is.
Withdraws(p) ==
  /\ at[p] \in {"lock", "release", "refresh", "claim", "recover", "dead"}
  /\ Moves(p, at'[p]) /\ at'[p] \in {"idle", "lock", "release"}
  /\ \A q \in Processes \ {p} : seen'[q] = seen[q] /\ look'[q] = look[q]
  /\ UNCHANGED <<manifest, dir, crashes>>

\* Who gives up, or looks again, was not a keeper.
LEMMA WithdrawsLocks ==
  ASSUME OneDeath, IInv, TypeInv', NEW p \in Processes, Withdraws(p)
  PROVE  LockInv'
<1> USE DEF IInv, LockInv
<1>0. Withdraws(p)

  OBVIOUS
<1>1. Looks'
  BY <1>0 DEF TypeInv, TypeOK, Looks, OneCustodian, Withdraws, Keeper, Kept,
     Recovering, Claimed, Owns, Same, Moves, Becomes
<1>2. OneCustodian'
  BY <1>0 DEF Looks, OneCustodian, Abandoned, OneRecovery, Withdraws, Keeper,
     Kept, Recovering, Claimed, Owns, Same, Moves, Becomes
<1>3. Abandoned'
  BY <1>0, RecoveryType DEF Looks, OneCustodian, Abandoned, OneRecovery,
     Withdraws, Keeper, Kept, Recovering, Claimed, Owns, Same, Moves, Becomes
<1>4. OneRecovery'
  BY <1>0 DEF Looks, OneCustodian, Abandoned, OneRecovery, Withdraws, Keeper,
     Kept, Recovering, Claimed, Owns, Same, Moves, Becomes
<1>5. Fenced'
  BY <1>0 DEF Looks, OneCustodian, Abandoned, OneRecovery, Fenced, Withdraws,
     Keeper, Kept, Recovering, Claimed, Owns, Same, Moves, Becomes
<1> QED BY <1>1, <1>2, <1>3, <1>4, <1>5

\* Who claims the owner file becomes the keeper.
LEMMA ClaimOwnerLocks ==
  ASSUME OneDeath, IInv, TypeInv', NEW p \in Processes, ClaimOwner(p),
         Same(p), look[p].file \in dir.owners
  PROVE  LockInv'
<1> USE DEF IInv, LockInv
<1>0. /\ at[p] = "claim" /\ Moves(p, "verify") /\ Same(p) /\ ~Kept
      /\ dir.owners = {look[p].file} /\ look[p].kind = "owner"
      /\ Becomes({}, {}, dir.recovery) /\ dir'.recoveryOld = dir.recoveryOld
      /\ ~dir'.aged
      /\ UNCHANGED <<manifest, op, seen, look, calls, crashes>>

  <2>1. /\ dir \in Directory /\ dir # NONE /\ ~Kept
        /\ dir.owners = {look[p].file} /\ dir.old \subseteq {look[p].file}
    <3>1. dir # NONE /\ dir \in Directory /\ look[p].file \in Processes
      BY DEF ClaimOwner, Same, TypeInv, TypeOK, Finding
    <3> QED BY <3>1, OwnerAlone
  <2>2. dir' = [dir EXCEPT !.owners = @ \ {look[p].file},
                           !.old = @ \ {look[p].file}, !.aged = FALSE]
    BY DEF ClaimOwner
  <2>3. /\ dir' \in Directory /\ dir'.inode = dir.inode /\ dir'.owners = {}
        /\ dir'.old = {} /\ dir'.recovery = dir.recovery
        /\ dir'.recoveryOld = dir.recoveryOld /\ ~dir'.aged
    BY <2>1, <2>2 DEF Directory
  <2> QED BY <2>1, <2>3, NoneIsNoRecord
      DEF ClaimOwner, Becomes, Go, Moves, TypeInv, TypeOK
<1>1. Looks'
  BY <1>0 DEF TypeInv, TypeOK, Looks, OneCustodian, Keeper, Kept, Recovering,
     Claimed, Owns, Same, Moves, Becomes
<1>2. OneCustodian'
  BY <1>0 DEF Looks, OneCustodian, Abandoned, OneRecovery, Keeper, Kept,
     Recovering, Claimed, Owns, Same, Moves, Becomes
<1>3. Abandoned'
  BY <1>0, RecoveryType DEF Looks, OneCustodian, Abandoned, OneRecovery,
     Keeper, Kept, Recovering, Claimed, Owns, Same, Moves, Becomes
<1>4. OneRecovery'
  BY <1>0 DEF Looks, OneCustodian, Abandoned, OneRecovery, Keeper, Kept,
     Recovering, Claimed, Owns, Same, Moves, Becomes
<1>5. Fenced'
  BY <1>0 DEF Looks, OneCustodian, Abandoned, OneRecovery, Fenced, Keeper,
     Kept, Recovering, Claimed, Owns, Same, Moves, Becomes
<1> QED BY <1>1, <1>2, <1>3, <1>4, <1>5

\* A claimed file that was not touched is that of nobody who may write.
LEMMA MeansItLocks ==
  ASSUME OneDeath, IInv, TypeInv', NEW p \in Processes, Verify(p),
         ~look[p].touched
  PROVE  LockInv'
<1> USE DEF IInv, LockInv
<1>0. /\ at[p] = "verify" /\ Moves(p, "move") /\ Same(p)
      /\ look[p].kind = "owner" /\ ~look[p].touched
      /\ \A q \in Processes \ {p} : look'[q] = look[q]
      /\ UNCHANGED <<manifest, dir, op, seen, calls, crashes>>

  BY DEF Verify, Looks, Go, Moves, TypeInv, TypeOK
<1>1. Looks'
  BY <1>0 DEF TypeInv, TypeOK, Looks, OneCustodian, Keeper, Kept, Recovering,
     Claimed, Owns, Same, Moves, Becomes
<1>2. OneCustodian'
  BY <1>0 DEF Looks, OneCustodian, Abandoned, OneRecovery, Keeper, Kept,
     Recovering, Claimed, Owns, Same, Moves, Becomes
<1>3. Abandoned'
  BY <1>0, RecoveryType DEF Looks, OneCustodian, Abandoned, OneRecovery,
     Keeper, Kept, Recovering, Claimed, Owns, Same, Moves, Becomes
<1>4. OneRecovery'
  BY <1>0 DEF Looks, OneCustodian, Abandoned, OneRecovery, Keeper, Kept,
     Recovering, Claimed, Owns, Same, Moves, Becomes
<1>5. Fenced'
  BY <1>0 DEF Looks, OneCustodian, Abandoned, OneRecovery, Fenced, Keeper,
     Kept, Recovering, Claimed, Owns, Same, Moves, Becomes
<1> QED BY <1>1, <1>2, <1>3, <1>4, <1>5

\* A claimed file that was touched goes back to its owner.
LEMMA PutBackLocks ==
  ASSUME OneDeath, IInv, TypeInv', NEW p \in Processes, Verify(p),
         look[p].touched
  PROVE  LockInv'
<1> USE DEF IInv, LockInv
<1>0. /\ at[p] = "verify" /\ Moves(p, "lock") /\ Same(p)
      /\ look[p].file \in Processes /\ Kept /\ dir.owners = {} /\ dir.old = {}
      /\ Becomes({look[p].file}, {}, dir.recovery)
      /\ dir'.recoveryOld = dir.recoveryOld /\ ~dir'.aged
      /\ \A q \in Processes \ {p} : look'[q] = look[q]
      /\ UNCHANGED <<manifest, op, seen, calls, crashes>>

  <2>1. /\ at[p] = "verify" /\ Same(p) /\ dir # NONE /\ dir \in Directory
        /\ Kept /\ dir.owners = {} /\ dir.old = {}
        /\ look[p].kind = "owner" /\ look[p].file \in Processes
    BY DEF Verify, Looks, OneCustodian, Keeper, Kept, Same, TypeInv, TypeOK,
           Finding
  <2>2. dir' = [dir EXCEPT !.owners = @ \cup {look[p].file}, !.aged = FALSE]
    BY <2>1 DEF Verify
  <2>3. /\ dir' \in Directory /\ dir'.inode = dir.inode
        /\ dir'.owners = {look[p].file}
        /\ dir'.old = {} /\ dir'.recovery = dir.recovery
        /\ dir'.recoveryOld = dir.recoveryOld /\ ~dir'.aged
    BY <2>1, <2>2 DEF Directory
  <2> QED BY <2>1, <2>3, NoneIsNoRecord
      DEF Verify, Becomes, Retry, Go, Moves, TypeInv, TypeOK
<1>1. Looks'
  BY <1>0 DEF TypeInv, TypeOK, Looks, OneCustodian, Keeper, Kept, Recovering,
     Claimed, Owns, Same, Moves, Becomes
<1>2. OneCustodian'
  BY <1>0 DEF Looks, OneCustodian, Abandoned, OneRecovery, Keeper, Kept,
     Recovering, Claimed, Owns, Same, Moves, Becomes
<1>3. Abandoned'
  BY <1>0, RecoveryType DEF Looks, OneCustodian, Abandoned, OneRecovery,
     Keeper, Kept, Recovering, Claimed, Owns, Same, Moves, Becomes
<1>4. OneRecovery'
  BY <1>0 DEF Looks, OneCustodian, Abandoned, OneRecovery, Keeper, Kept,
     Recovering, Claimed, Owns, Same, Moves, Becomes
<1>5. Fenced'
  BY <1>0 DEF Looks, OneCustodian, Abandoned, OneRecovery, Fenced, Keeper,
     Kept, Recovering, Claimed, Owns, Same, Moves, Becomes
<1> QED BY <1>1, <1>2, <1>3, <1>4, <1>5

\* One of those who recover a directory gets its file into it.
LEMMA WriteRecoveryLocks ==
  ASSUME OneDeath, IInv, TypeInv', NEW p \in Processes, WriteRecovery(p),
         dir # NONE, dir.recovery = NONE
  PROVE  LockInv'
<1> USE DEF IInv, LockInv
<1>0. /\ at[p] = "recover" /\ Moves(p, "inspect") /\ dir.recovery = NONE
      /\ Becomes(dir.owners, dir.old, p) /\ ~dir'.recoveryOld /\ ~dir'.aged
      /\ UNCHANGED <<manifest, op, seen, look, calls, crashes>>

  <2>1. dir \in Directory /\ dir # NONE /\ dir.recovery = NONE
    BY DEF TypeInv, TypeOK
  <2>2. dir' = [dir EXCEPT !.recovery = p, !.recoveryOld = FALSE,
                           !.aged = FALSE]
    BY <2>1 DEF WriteRecovery
  <2>3. /\ dir' \in Directory /\ dir'.inode = dir.inode
        /\ dir'.owners = dir.owners /\ dir'.old = dir.old
        /\ dir'.recovery = p /\ ~dir'.recoveryOld /\ ~dir'.aged
    BY <2>1, <2>2 DEF Directory, Or
  <2> QED BY <2>1, <2>3, NoneIsNoRecord
      DEF WriteRecovery, Becomes, Go, Moves, TypeInv, TypeOK
<1>1. Looks'
  BY <1>0 DEF TypeInv, TypeOK, Looks, OneCustodian, Keeper, Kept, Recovering,
     Claimed, Owns, Same, Moves, Becomes
<1>2. OneCustodian'
  BY <1>0 DEF Looks, OneCustodian, Abandoned, OneRecovery, Keeper, Kept,
     Recovering, Claimed, Owns, Same, Moves, Becomes
<1>3. Abandoned'
  BY <1>0, RecoveryType DEF Looks, OneCustodian, Abandoned, OneRecovery,
     Keeper, Kept, Recovering, Claimed, Owns, Same, Moves, Becomes
<1>4. OneRecovery'
  BY <1>0, ArtifactAssumption
     DEF Looks, OneCustodian, Abandoned, OneRecovery, Keeper, Kept,
     Recovering, Claimed, Owns, Same, Moves, Becomes
<1>5. Fenced'
  BY <1>0 DEF Looks, OneCustodian, Abandoned, OneRecovery, Fenced, Keeper,
     Kept, Recovering, Claimed, Owns, Same, Moves, Becomes
<1> QED BY <1>1, <1>2, <1>3, <1>4, <1>5

\* Who recovers a directory that is gone gives up.
LEMMA GoneLocks ==
  ASSUME OneDeath, IInv, TypeInv', NEW p \in Processes, Inspect(p), dir = NONE
  PROVE  LockInv'
<1> USE DEF IInv, LockInv
<1>0. /\ at[p] = "inspect" /\ Moves(p, "idle") /\ dir = NONE
      /\ \A q \in Processes \ {p} : look'[q] = look[q] /\ seen'[q] = seen[q]
      /\ UNCHANGED <<manifest, dir, calls, crashes>>

  BY DEF Inspect, Same, Finish, Go, Moves, TypeInv, TypeOK
<1>1. Looks'
  BY <1>0 DEF TypeInv, TypeOK, Looks, OneCustodian, Keeper, Kept, Recovering,
     Claimed, Owns, Same, Moves, Becomes
<1>2. OneCustodian'
  BY <1>0 DEF Looks, OneCustodian, Abandoned, OneRecovery, Keeper, Kept,
     Recovering, Claimed, Owns, Same, Moves, Becomes
<1>3. Abandoned'
  BY <1>0, RecoveryType DEF Looks, OneCustodian, Abandoned, OneRecovery,
     Keeper, Kept, Recovering, Claimed, Owns, Same, Moves, Becomes
<1>4. OneRecovery'
  BY <1>0 DEF Looks, OneCustodian, Abandoned, OneRecovery, Keeper, Kept,
     Recovering, Claimed, Owns, Same, Moves, Becomes
<1>5. Fenced'
  BY <1>0 DEF Looks, OneCustodian, Abandoned, OneRecovery, Fenced, Keeper,
     Kept, Recovering, Claimed, Owns, Same, Moves, Becomes
<1> QED BY <1>1, <1>2, <1>3, <1>4, <1>5

\* Whose file is in the ownerless directory becomes its keeper.
LEMMA OwnerlessLocks ==
  ASSUME OneDeath, IInv, TypeInv', NEW p \in Processes, Inspect(p),
         Same(p), dir.owners = {}
  PROVE  LockInv'
<1> USE DEF IInv, LockInv
<1>0. /\ at[p] = "inspect" /\ Moves(p, "move") /\ Same(p) /\ dir.owners = {}
      /\ dir \in Directory
      /\ \A q \in Processes \ {p} : look'[q] = look[q]
      /\ UNCHANGED <<manifest, dir, op, seen, calls, crashes>>

  BY DEF Inspect, Same, Go, Moves, TypeInv, TypeOK
<1>1. Looks'
  BY <1>0 DEF TypeInv, TypeOK, Looks, OneCustodian, Keeper, Kept, Recovering,
     Claimed, Owns, Same, Moves, Becomes
<1>2. OneCustodian'
  BY <1>0 DEF Looks, OneCustodian, Abandoned, OneRecovery, Keeper, Kept,
     Recovering, Claimed, Owns, Same, Moves, Becomes
<1>3. Abandoned'
  BY <1>0, RecoveryType DEF Looks, OneCustodian, Abandoned, OneRecovery,
     Keeper, Kept, Recovering, Claimed, Owns, Same, Moves, Becomes
<1>4. OneRecovery'
  BY <1>0 DEF Looks, OneCustodian, Abandoned, OneRecovery, Keeper, Kept,
     Recovering, Claimed, Owns, Same, Moves, Becomes
<1>5. Fenced'
  BY <1>0 DEF Looks, OneCustodian, Abandoned, OneRecovery, Fenced, Keeper,
     Kept, Recovering, Claimed, Owns, Same, Moves, Becomes
<1> QED BY <1>1, <1>2, <1>3, <1>4, <1>5

\* Who finds another directory takes its file back.
LEMMA TakeBackLocks ==
  ASSUME OneDeath, IInv, TypeInv', NEW p \in Processes, Inspect(p),
         dir # NONE, ~(Same(p) /\ dir.owners = {})
  PROVE  LockInv'
<1> USE DEF IInv, LockInv
<1>0. /\ at[p] = "inspect" /\ Moves(p, "lock") /\ ~Same(p)
      /\ Becomes(dir.owners, dir.old, NONE) /\ ~dir'.recoveryOld /\ ~dir'.aged
      /\ \A q \in Processes \ {p} : look'[q] = look[q]
      /\ UNCHANGED <<manifest, op, seen, calls, crashes>>

  <2>1. dir \in Directory /\ ~Same(p)
    BY DEF Inspect, OneRecovery, Recovering, Same, TypeInv, TypeOK
  <2>2. dir' = [dir EXCEPT !.recovery = NONE, !.recoveryOld = FALSE,
                           !.aged = FALSE]
    BY <2>1 DEF Inspect, Same
  <2>3. /\ dir' \in Directory /\ dir'.inode = dir.inode
        /\ dir'.owners = dir.owners /\ dir'.old = dir.old
        /\ dir'.recovery = NONE /\ ~dir'.recoveryOld /\ ~dir'.aged
    BY <2>1, <2>2 DEF Directory, Or
  <2> QED BY <2>1, <2>3, NoneIsNoRecord
      DEF Inspect, Becomes, Go, Moves, TypeInv, TypeOK
<1>1. Looks'
  BY <1>0 DEF TypeInv, TypeOK, Looks, OneCustodian, Keeper, Kept, Recovering,
     Claimed, Owns, Same, Moves, Becomes
<1>2. OneCustodian'
  BY <1>0 DEF Looks, OneCustodian, Abandoned, OneRecovery, Keeper, Kept,
     Recovering, Claimed, Owns, Same, Moves, Becomes
<1>3. Abandoned'
  BY <1>0, RecoveryType DEF Looks, OneCustodian, Abandoned, OneRecovery,
     Keeper, Kept, Recovering, Claimed, Owns, Same, Moves, Becomes
<1>4. OneRecovery'
  BY <1>0 DEF Looks, OneCustodian, Abandoned, OneRecovery, Keeper, Kept,
     Recovering, Claimed, Owns, Same, Moves, Becomes
<1>5. Fenced'
  BY <1>0 DEF Looks, OneCustodian, Abandoned, OneRecovery, Fenced, Keeper,
     Kept, Recovering, Claimed, Owns, Same, Moves, Becomes
<1> QED BY <1>1, <1>2, <1>3, <1>4, <1>5

\* A lease does not run out while its owner writes.
LEMMA OwnerAgesLocks ==
  ASSUME OneDeath, IInv, TypeInv', NEW p \in Processes, OwnerAges(p)
  PROVE  LockInv'
<1> USE DEF IInv, LockInv
<1>0. /\ p \in dir.owners /\ at[p] # "put"
      /\ Becomes(dir.owners, dir.old \cup {p}, dir.recovery)
      /\ dir'.recoveryOld = dir.recoveryOld /\ dir'.aged = dir.aged
      /\ UNCHANGED <<manifest, at, op, seen, look, calls, crashes>>

  <2>1. dir \in Directory /\ dir # NONE /\ p \in dir.owners
    BY DEF OwnerAges, Owns, TypeInv, TypeOK
  <2>2. dir' = [dir EXCEPT !.old = @ \cup {p}]
    BY DEF OwnerAges
  <2>3. /\ dir' \in Directory /\ dir'.inode = dir.inode
        /\ dir'.owners = dir.owners /\ dir'.old = dir.old \cup {p}
        /\ dir'.recovery = dir.recovery /\ dir'.recoveryOld = dir.recoveryOld
        /\ dir'.aged = dir.aged
    BY <2>1, <2>2 DEF Directory
  <2> QED BY <2>1, <2>3, NoneIsNoRecord
      DEF OwnerAges, Becomes, OneDeath, Quiet, Holding
<1>1. Looks'
  BY <1>0 DEF TypeInv, TypeOK, Looks, OneCustodian, Keeper, Kept, Recovering,
     Claimed, Owns, Same, Moves, Becomes
<1>2. OneCustodian'
  BY <1>0 DEF Looks, OneCustodian, Abandoned, OneRecovery, Keeper, Kept,
     Recovering, Claimed, Owns, Same, Moves, Becomes
<1>3. Abandoned'
  BY <1>0, RecoveryType DEF Looks, OneCustodian, Abandoned, OneRecovery,
     Keeper, Kept, Recovering, Claimed, Owns, Same, Moves, Becomes
<1>4. OneRecovery'
  BY <1>0 DEF Looks, OneCustodian, Abandoned, OneRecovery, Keeper, Kept,
     Recovering, Claimed, Owns, Same, Moves, Becomes
<1>5. Fenced'
  BY <1>0 DEF Looks, OneCustodian, Abandoned, OneRecovery, Fenced, Keeper,
     Kept, Recovering, Claimed, Owns, Same, Moves, Becomes
<1> QED BY <1>1, <1>2, <1>3, <1>4, <1>5

\* A directory that ages without an owner is nobody's.
LEMMA DirectoryAgesLocks ==
  ASSUME OneDeath, IInv, TypeInv', DirectoryAges
  PROVE  LockInv'
<1> USE DEF IInv, LockInv
<1>0. /\ Becomes(dir.owners, dir.old, dir.recovery)
      /\ \A p \in Processes : ~Keeper(p) /\ at[p] \notin {"put", "inspect"}
      /\ dir'.recoveryOld => dir.recovery # NONE
      /\ UNCHANGED <<manifest, at, op, seen, look, calls, crashes>>
  <2>1. dir \in Directory /\ dir # NONE
    BY DEF DirectoryAges, TypeInv, TypeOK
  <2>2. PICK aged \in {dir.aged, TRUE},
             old \in {dir.recoveryOld, dir.recovery # NONE} :
          dir' = [dir EXCEPT !.aged = aged, !.recoveryOld = old]
    BY DEF DirectoryAges
  <2>3. /\ dir' \in Directory /\ dir'.inode = dir.inode
        /\ dir'.owners = dir.owners /\ dir'.old = dir.old
        /\ dir'.recovery = dir.recovery /\ dir'.recoveryOld = old
    BY <2>1, <2>2 DEF Directory
  <2> QED BY <2>1, <2>2, <2>3, NoneIsNoRecord, RecoveryType
      DEF DirectoryAges, Becomes, OneDeath, Quiet, Keeper, Abandoned

<1>1. Looks'
  BY <1>0 DEF TypeInv, TypeOK, Looks, OneCustodian, Keeper, Kept, Recovering,
     Claimed, Owns, Same, Moves, Becomes
<1>2. OneCustodian'
  BY <1>0 DEF Looks, OneCustodian, Abandoned, OneRecovery, Keeper, Kept,
     Recovering, Claimed, Owns, Same, Moves, Becomes
<1>3. Abandoned'
  BY <1>0, RecoveryType DEF Looks, OneCustodian, Abandoned, OneRecovery,
     Keeper, Kept, Recovering, Claimed, Owns, Same, Moves, Becomes
<1>4. OneRecovery'
  BY <1>0 DEF Looks, OneCustodian, Abandoned, OneRecovery, Keeper, Kept,
     Recovering, Claimed, Owns, Same, Moves, Becomes
<1>5. Fenced'
  BY <1>0 DEF Looks, OneCustodian, Abandoned, OneRecovery, Fenced, Keeper,
     Kept, Recovering, Claimed, Owns, Same, Moves, Becomes
<1> QED BY <1>1, <1>2, <1>3, <1>4, <1>5

\* The one who dies leaves a directory that can be told from a live one.
LEMMA CrashLocks ==
  ASSUME OneDeath, IInv, TypeInv', NEW p \in Processes, Crash(p)
  PROVE  LockInv'
<1> USE DEF IInv, LockInv
<1>0. /\ crashes = 0 /\ crashes' = 1 /\ Moves(p, "dead")
      /\ dir = NONE => dir' = NONE
      /\ dir # NONE =>
           /\ Becomes(dir.owners, dir.old \cup (dir.owners \cap {p}), NONE)
           /\ dir.recovery = NONE /\ ~dir'.recoveryOld
           /\ dir'.aged = dir.aged
      /\ \A q \in Processes \ {p} : look'[q] = look[q] /\ seen'[q] = seen[q]
      /\ UNCHANGED <<manifest, calls>>

  <2>1. crashes = 0 /\ crashes' = 1
    BY DEF Crash, OneDeath, TypeInv, TypeOK
  <2>2. ASSUME dir # NONE
        PROVE  /\ Becomes(dir.owners, dir.old \cup (dir.owners \cap {p}), NONE)
               /\ dir.recovery = NONE
               /\ ~dir'.recoveryOld /\ dir'.aged = dir.aged
    <3>1. dir \in Directory /\ dir.recovery = NONE /\ ~dir.recoveryOld
      BY <2>1, <2>2 DEF Abandoned, TypeInv, TypeOK
    <3>2. dir' = [dir EXCEPT !.old = @ \cup (dir.owners \cap {p}),
                             !.recoveryOld = @ \/ dir.recovery = p]
      BY <2>2 DEF Crash
    <3>3. /\ dir' \in Directory /\ dir'.inode = dir.inode
          /\ dir'.owners = dir.owners
          /\ dir'.old = dir.old \cup (dir.owners \cap {p})
          /\ dir'.recovery = NONE /\ dir'.aged = dir.aged
          /\ dir'.recoveryOld = (dir.recoveryOld \/ dir.recovery = p)
      BY <3>1, <3>2 DEF Directory
    <3> QED BY <2>2, <3>1, <3>3, NoneIsNoRecord, ArtifactAssumption
        DEF Becomes
  <2> QED BY <2>1, <2>2 DEF Crash, Go, Moves, TypeInv, TypeOK
<1>1. Looks'
  BY <1>0 DEF TypeInv, TypeOK, Looks, OneCustodian, Keeper, Kept, Recovering,
     Claimed, Owns, Same, Moves, Becomes
<1>2. OneCustodian'
  BY <1>0 DEF Looks, OneCustodian, Abandoned, OneRecovery, Keeper, Kept,
     Recovering, Claimed, Owns, Same, Moves, Becomes
<1>3. Abandoned'
  BY <1>0, RecoveryType DEF Looks, OneCustodian, Abandoned, OneRecovery,
     Keeper, Kept, Recovering, Claimed, Owns, Same, Moves, Becomes
<1>4. OneRecovery'
  BY <1>0 DEF Looks, OneCustodian, Abandoned, OneRecovery, Keeper, Kept,
     Recovering, Claimed, Owns, Same, Moves, Becomes
<1>5. Fenced'
  BY <1>0 DEF Looks, OneCustodian, Abandoned, OneRecovery, Fenced, Keeper,
     Kept, Recovering, Claimed, Owns, Same, Moves, Becomes
<1> QED BY <1>1, <1>2, <1>3, <1>4, <1>5

\* Every step keeps the lock.
LEMMA NextLocks ==
  ASSUME OneDeath, IInv, [Next]_vars
  PROVE  IInv'
<1>1. TypeInv'
  BY NextType DEF IInv
<1> USE <1>1
<1>2. ASSUME NEW p \in Processes, Start(p)
      PROVE  LockInv'
  BY <1>2, StartLocks
<1>3. ASSUME NEW p \in Processes, MakeDirectory(p)
      PROVE  LockInv'
  BY <1>3, MakeDirectoryLocks
<1>4. ASSUME NEW p \in Processes, WriteOwner(p)
      PROVE  LockInv'
  BY <1>4, WriteOwnerLocks
<1>5. ASSUME NEW p \in Processes, ReadManifest(p)
      PROVE  LockInv'
  BY <1>5, ReadManifestLocks
<1>6. ASSUME NEW p \in Processes, Refresh(p)
      PROVE  LockInv'
  <2>1. CASE Owns(p)
    BY <1>6, <2>1, RefreshLocks
  <2>2. CASE ~Owns(p)
    <3>1. Withdraws(p)
      BY <1>6, <2>2 DEF Refresh, Withdraws, Go, Moves, IInv, TypeInv, TypeOK
    <3> QED BY <3>1, WithdrawsLocks
  <2> QED BY <2>1, <2>2
<1>7. ASSUME NEW p \in Processes, Heartbeat(p)
      PROVE  LockInv'
  BY <1>7, HeartbeatLocks
<1>8. ASSUME NEW p \in Processes, PutManifest(p)
      PROVE  LockInv'
  BY <1>8, PutManifestLocks
<1>9. ASSUME NEW p \in Processes, Release(p)
      PROVE  LockInv'
  <2>1. CASE Owns(p)
    BY <1>9, <2>1, ReleaseLocks
  <2>2. CASE ~Owns(p)
    <3>1. Withdraws(p)
      BY <1>9, <2>2
         DEF Release, Withdraws, Finish, Go, Moves, IInv, TypeInv, TypeOK
    <3> QED BY <3>1, WithdrawsLocks
  <2> QED BY <2>1, <2>2
<1>10. ASSUME NEW p \in Processes, Leave(p)
       PROVE  LockInv'
  BY <1>10, LeaveLocks
<1>11. ASSUME NEW p \in Processes, TimeOut(p) \/ Restart(p)
       PROVE  LockInv'
  <2>1. Withdraws(p)
    BY <1>11 DEF TimeOut, Restart, Withdraws, Finish, Go, Moves, IInv, TypeInv,
                 TypeOK
  <2> QED BY <2>1, WithdrawsLocks
<1>12. ASSUME NEW q \in Processes, Observe(q)
       PROVE  LockInv'
  BY <1>12, ObserveLocks
<1>13. ASSUME NEW q \in Processes, ClaimOwner(q)
       PROVE  LockInv'
  <2>1. CASE Same(q) /\ look[q].file \in dir.owners
    BY <1>13, <2>1, ClaimOwnerLocks
  <2>2. CASE ~(Same(q) /\ look[q].file \in dir.owners)
    <3>1. Withdraws(q)
      BY <1>13, <2>2 DEF ClaimOwner, Withdraws, Retry, Go, Moves, IInv,
                         TypeInv, TypeOK
    <3> QED BY <3>1, WithdrawsLocks
  <2> QED BY <2>1, <2>2
<1>14. ASSUME NEW q \in Processes, ClaimRecovery(q)
       PROVE  LockInv'
  BY <1>14 DEF ClaimRecovery, IInv, LockInv, Looks
<1>15. ASSUME NEW q \in Processes, Verify(q)
       PROVE  LockInv'
  BY <1>15, MeansItLocks, PutBackLocks
<1>16. ASSUME NEW q \in Processes, WriteRecovery(q)
       PROVE  LockInv'
  <2>1. CASE dir # NONE /\ dir.recovery = NONE
    BY <1>16, <2>1, WriteRecoveryLocks
  <2>2. CASE ~(dir # NONE /\ dir.recovery = NONE)
    <3>1. Withdraws(q)
      BY <1>16, <2>2 DEF WriteRecovery, Withdraws, Retry, Go, Moves, IInv,
                         TypeInv, TypeOK
    <3> QED BY <3>1, WithdrawsLocks
  <2> QED BY <2>1, <2>2
<1>17. ASSUME NEW q \in Processes, Inspect(q)
       PROVE  LockInv'
  <2>1. CASE dir = NONE
    BY <1>17, <2>1, GoneLocks
  <2>2. CASE Same(q) /\ dir.owners = {}
    BY <1>17, <2>2, OwnerlessLocks
  <2>3. CASE dir # NONE /\ ~(Same(q) /\ dir.owners = {})
    BY <1>17, <2>3, TakeBackLocks
  <2> QED BY <2>1, <2>2, <2>3
<1>18. ASSUME NEW p \in Processes, Move(p)
       PROVE  LockInv'
  BY <1>18, MoveLocks
<1>19. ASSUME NEW p \in Processes, OwnerAges(p)
       PROVE  LockInv'
  BY <1>19, OwnerAgesLocks
<1>20. ASSUME DirectoryAges
       PROVE  LockInv'
  BY <1>20, DirectoryAgesLocks
<1>21. ASSUME NEW p \in Processes, Crash(p)
       PROVE  LockInv'
  BY <1>21, CrashLocks
<1>22. ASSUME UNCHANGED vars
       PROVE  LockInv'
  BY <1>22 DEF vars, IInv, LockInv, Looks, OneCustodian, Abandoned,
               OneRecovery, Fenced, Keeper, Kept, Recovering, Claimed, Owns,
               Same
<1>23. LockInv'
  <2>1. ASSUME NEW p \in Processes, Step(p)
        PROVE  LockInv'
    BY <1>3, <1>4, <1>5, <1>6, <1>8, <1>9, <1>10, <1>12, <1>13, <1>14, <1>15,
       <1>16, <1>17, <1>18, <2>1 DEF Step
  <2> QED BY <1>2, <1>7, <1>11, <1>19, <1>20, <1>21, <1>22, <2>1 DEF Next, Ages
<1> QED BY <1>1, <1>23 DEF IInv

\* At first there is no lock.
LEMMA InitLocks ==
  ASSUME Init
  PROVE  LockInv
BY DEF Init, LockInv, Looks, OneCustodian, Abandoned, OneRecovery, Fenced,
       Keeper, Kept, Recovering, Claimed, Owns, Same

-----------------------------------------------------------------------------
\* Whoever dies or sleeps, and wherever: the state of the lock, and what the
\* processes remember of it, have their types.
THEOREM TypesHold == Spec => []TypeOK
<1>1. Init => TypeInv
  BY InitType
<1>2. TypeInv /\ [Next]_vars => TypeInv'
  BY NextType
<1>3. TypeInv => TypeOK
  BY DEF TypeInv
<1> QED BY <1>1, <1>2, <1>3, PTL DEF Spec

\* No update of a manifest is lost (putFile and removeFromScope under
\* acquireDirectoryLock), for any number of processes and operations, when at
\* most one process dies.
THEOREM NoUpdateLost ==
  ASSUME OneDeath
  PROVE  Spec => NoLostArtifact
<1>1. Init => IInv
  BY InitType, InitLocks DEF IInv
<1>2. IInv /\ [Next]_vars => IInv'
  BY NextLocks
<1>3. IInv => \A p \in Processes : at[p] = "put" => seen[p] = manifest
  BY DEF IInv, LockInv, Fenced
<1>4. IInv => (\A p \in Processes : at[p] = "put" /\ at'[p] = "release" =>
                seen[p] = manifest)
  BY <1>3
<1> QED BY <1>1, <1>2, <1>4, PTL DEF Spec, NoLostArtifact
=============================================================================
