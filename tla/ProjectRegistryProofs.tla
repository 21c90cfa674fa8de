------------------------ MODULE ProjectRegistryProofs ------------------------
(***************************************************************************)
(* Proofs about the project registry, for any processes, records, names    *)
(* and bounds.  Types need nothing; mutual exclusion and what rests on it  *)
(* need SafeToReap: no operation lasts a minute, and either no process     *)
(* dies or there are two of them, as the web and the agent are (one that   *)
(* is started again is a third).                                           *)
(***************************************************************************)
EXTENDS ProjectRegistry, TLAPS

\* Where each operation is: a process that is not idle has a record in mind,
\* and what it fills in or reads back exists.
Located ==
  \A p \in Processes :
    /\ pc[p] # "idle" => want[p] \in Records
    /\ step[p] \in {"mint", "putSlug", "readBack"} =>
         pc[p] # "idle" /\ records[want[p]] # NONE
    /\ step[p] = "putSlug" => seen[p] # NONE

TInv == TypeOK /\ Located

LEMMA SlugsLabels ==
  ASSUME NEW r, NEW x \in Project
  PROVE  Slugs(r, x) \subseteq Labels
<1>1. x.name \in Names /\ x.slug \in Labels \cup {NONE}
  BY DEF Project, Or
<1>2. Minted(r, x.name) \subseteq Labels
  BY <1>1, RegistryAssumption DEF Minted
<1>. QED  BY <1>1, <1>2 DEF Slugs

LEMMA FilledType ==
  ASSUME NEW x \in Project, NEW s \in Labels
  PROVE  /\ Filled(x, s) \in Project /\ Filled(x, s) # NONE
         /\ Filled(x, s).slug = s /\ Normal(Filled(x, s))
<1>1. Filled(x, s) \in Project
  BY DEF Filled, Project, Or
<1>2. Filled(x, s).slug = s /\ Filled(x, s).revision = IF x.revision = 0 THEN 1 ELSE x.revision
  BY DEF Filled, Project
<1>3. x.revision \in Nat
  BY DEF Project
<1>. QED  BY <1>1, <1>2, <1>3, NoneIsNoProject, RegistryAssumption DEF Normal

LEMMA LockFileType ==
  ASSUME NEW f \in LockFile
  PROVE  /\ [f EXCEPT !.meta = TRUE] \in LockFile
         /\ [f EXCEPT !.old = TRUE] \in LockFile
         /\ [f EXCEPT !.meta = TRUE].by = f.by
         /\ [f EXCEPT !.meta = TRUE].old = f.old
<1>1. f = [by |-> f.by, meta |-> f.meta, old |-> f.old]
  BY DEF LockFile
<1>. QED  BY <1>1 DEF LockFile

LEMMA NextRecordType ==
  ASSUME TInv, NEW p \in Processes, pc[p] # "idle"
  PROVE  NextRecord(p) \in Project
<1>1. op[p] \in Operation
  BY DEF TInv, TypeOK, Or
<1>2. seen[p] \in Project \cup {NONE}
  BY DEF TInv, TypeOK, Or
<1>3. op[p].name \in Names /\ op[p].expected \in Nat
  BY <1>1 DEF Operation
<1>4. CASE seen[p] = NONE
  BY <1>3, <1>4 DEF NextRecord, Project, Or
<1>5. CASE seen[p] # NONE
  <2>1. seen[p].slug \in Labels \cup {NONE} /\ seen[p].revision \in Nat
    BY <1>2, <1>5 DEF Project, Or
  <2>. QED  BY <1>3, <1>5, <2>1 DEF NextRecord, Project, Or
<1>. QED  BY <1>4, <1>5

LEMMA TInit == Init => TInv
<1>. SUFFICES ASSUME Init PROVE TInv
  OBVIOUS
<1>1. LockTypeOK
  BY DEF Init, LockInit, LockTypeOK
<1>2. records \in [Records -> Or(Project)]
  <2>1. (CHOOSE n \in Names : TRUE) \in Names
    BY RegistryAssumption
  <2>2. [name |-> CHOOSE n \in Names : TRUE, slug |-> NONE, revision |-> 0] \in Project
    BY <2>1 DEF Project, Or
  <2>. QED  BY <2>2 DEF Init, Or
<1>. QED  BY <1>1, <1>2 DEF Init, LockInit, TInv, TypeOK, Located, Or

\* The lock's own steps keep the types and move no work.
LEMMA LockKeepsTypes ==
  ASSUME TInv, NEW p \in Processes, Lock(p)
  PROVE  TInv'
<1>. USE LockAssumption
<1>1. LockTypeOK /\ want[p] \in Records
  BY DEF TInv, TypeOK, Located, Lock, Open, Stamp, Inspect, Reap, Is
<1>2. CASE Open(p)
  <2>1. [by |-> p, meta |-> FALSE, old |-> FALSE] \in LockFile
    BY DEF LockFile
  <2>. QED  BY <1>1, <1>2, <2>1 DEF TInv, TypeOK, Located, Lock, Open, Is, LockTypeOK, rvars, Or
<1>3. CASE Stamp(p)
  <2>1. file' \in [Records -> LockFile \cup {NONE}]
    <3>1. CASE file[want[p]] # NONE /\ file[want[p]].by = p
      <4>1. file[want[p]] \in LockFile
        BY <1>1, <3>1 DEF LockTypeOK
      <4>2. file' = [file EXCEPT ![want[p]] = [file[want[p]] EXCEPT !.meta = TRUE]]
        BY <1>3, <3>1 DEF Stamp
      <4>. QED  BY <1>1, <4>1, <4>2, LockFileType DEF LockTypeOK
    <3>2. CASE ~(file[want[p]] # NONE /\ file[want[p]].by = p)
      BY <1>1, <1>3, <3>2 DEF Stamp, LockTypeOK
    <3>. QED  BY <3>1, <3>2
  <2>. QED  BY <1>1, <1>3, <2>1 DEF TInv, TypeOK, Located, Lock, Stamp, Is, LockTypeOK, rvars, Or
<1>4. CASE Inspect(p)
  BY <1>1, <1>4 DEF TInv, TypeOK, Located, Lock, Inspect, Is, LockTypeOK, rvars, Or
<1>5. CASE Reap(p)
  BY <1>1, <1>5 DEF TInv, TypeOK, Located, Lock, Reap, Is, LockTypeOK, rvars, Or
<1>. QED  BY <1>2, <1>3, <1>4, <1>5 DEF Lock

LEMMA BeginKeepsTypes ==
  ASSUME TInv, NEW p \in Processes, NEW r \in Records, NEW o \in Operation,
         Begin(p, r, o), o.kind = "backfill" => records[r] # NONE
  PROVE  TInv'
<1>1. LockTypeOK'
  BY DEF TInv, TypeOK, Begin, Request, LockTypeOK
<1>2. o \in Or(Operation) /\ o # NONE /\ o.kind \in {"upsert", "backfill"}
  BY NoneIsNoProject DEF Or, Operation
<1>. QED  BY <1>1, <1>2 DEF TInv, TypeOK, Located, Begin, Request, LockTypeOK

LEMMA CallKeepsTypes ==
  ASSUME TInv, NEW p \in Processes, Call(p)
  PROVE  TInv'
<1>1. PICK r \in Records :
        \/ Read(p, r)
        \/ \E name \in Names, expected \in 0..MaxRevision : Upsert(p, r, name, expected)
  BY DEF Call
<1>2. CASE Read(p, r)
  <2>1. records[r] \in Project
    BY <1>2 DEF Read, TInv, TypeOK, Or
  <2>2. [kind |-> "backfill", name |-> records[r].name, expected |-> 0] \in Operation
    BY <2>1 DEF Operation, Project
  <2>. QED  BY <1>2, <2>2, BeginKeepsTypes DEF Read
<1>3. CASE \E name \in Names, expected \in 0..MaxRevision : Upsert(p, r, name, expected)
  <2>1. PICK name \in Names, expected \in 0..MaxRevision : Upsert(p, r, name, expected)
    BY <1>3
  <2>2. [kind |-> "upsert", name |-> name, expected |-> expected] \in Operation
    BY RegistryAssumption DEF Operation
  <2>. QED  BY <2>1, <2>2, BeginKeepsTypes DEF Upsert
<1>. QED  BY <1>1, <1>2, <1>3

LEMMA TimeOutKeepsTypes ==
  ASSUME TInv, NEW p \in Processes, TimeOut(p) \/ Finish(p)
  PROVE  TInv'
<1>1. LockTypeOK' /\ pc' = [pc EXCEPT ![p] = "idle"]
  BY DEF TInv, TypeOK, TimeOut, Finish, GiveUp, Release, LockTypeOK
<1>2. want' = [want EXCEPT ![p] = NONE]
  BY DEF TimeOut, Finish, GiveUp, Release
<1>. QED  BY <1>1, <1>2 DEF TInv, TypeOK, Located, TimeOut, Finish, Forget, Advance, LockTypeOK, Or

\* A step of an operation under the lock.
LEMMA WorkKeepsTypes ==
  ASSUME TInv, NEW p \in Processes, Work(p)
  PROVE  TInv'
<1>. DEFINE r == want[p]
<1>1. CASE Finish(p)
  BY <1>1, TimeOutKeepsTypes
<1>. SUFFICES ASSUME ~Finish(p) PROVE TInv'
  BY <1>1
<1>2. /\ UNCHANGED lvars /\ pc[p] = "inside" /\ r \in Records
      /\ op[p] \in Operation
      /\ records[r] \in Or(Project) /\ seen[p] \in Or(Project)
  BY DEF Work, ReadCurrent, Mint, PutSlug, Check, Put, ReadBack, Under, Is,
         TInv, TypeOK, Located, Or
<1>3. LockTypeOK'
  BY <1>2 DEF TInv, TypeOK, LockTypeOK, lvars
<1>4. Resume(p) \in {"done", "check"}
  BY DEF Resume
<1>5. CASE ReadCurrent(p)
  BY <1>2, <1>3, <1>5 DEF ReadCurrent, Current, TInv, TypeOK, Located, lvars, Or
<1>6. CASE Mint(p)
  <2>1. records[r] \in Project
    BY <1>2, <1>6 DEF Mint, Under, TInv, Located, Or
  <2>2. \E x \in Or(Project), z \in {"done", "check", "putSlug"} :
          /\ seen' = [seen EXCEPT ![p] = x]
          /\ step' = [step EXCEPT ![p] = z]
          /\ z = "putSlug" => x # NONE
    <3>1. seen = [seen EXCEPT ![p] = seen[p]]
      BY DEF TInv, TypeOK
    <3>2. CASE /\ seen' = [seen EXCEPT ![p] = records[r]]
               /\ Advance(p, Resume(p))
      BY <1>4, <2>1, <3>2 DEF Advance, Or
    <3>3. CASE Advance(p, "done") /\ UNCHANGED seen
      BY <1>2, <3>1, <3>3 DEF Advance
    <3>4. CASE /\ \E s \in Slugs(r, records[r]) :
                    seen' = [seen EXCEPT ![p] = Filled(records[r], s)]
               /\ Advance(p, "putSlug")
      <4>1. PICK s \in Slugs(r, records[r]) : seen' = [seen EXCEPT ![p] = Filled(records[r], s)]
        BY <3>4
      <4>2. Filled(records[r], s) \in Or(Project) /\ Filled(records[r], s) # NONE
        BY <2>1, <4>1, SlugsLabels, FilledType DEF Or
      <4>. QED  BY <3>4, <4>1, <4>2 DEF Advance
    <3>. QED  BY <1>6, <3>2, <3>3, <3>4 DEF Mint, Current
  <2>7. UNCHANGED <<records, op, pc, want>> /\ records[r] # NONE
    BY <1>2, <1>6, <2>1, NoneIsNoProject DEF Mint, lvars
  <2>. QED  BY <1>2, <1>3, <2>2, <2>7 DEF TInv, TypeOK, Located
<1>7. CASE PutSlug(p)
  <2>1. seen[p] # NONE
    BY <1>7 DEF PutSlug, Under, TInv, Located
  <2>. QED  BY <1>2, <1>3, <1>4, <1>7, <2>1 DEF PutSlug, Advance, TInv, TypeOK, Located, lvars
<1>8. CASE Check(p)
  BY <1>2, <1>3, <1>8 DEF Check, Advance, TInv, TypeOK, Located, lvars
<1>9. CASE Put(p)
  <2>1. NextRecord(p) \in Project /\ NextRecord(p) # NONE
    BY <1>2, NextRecordType, NoneIsNoProject
  <2>2. [op[p] EXCEPT !.kind = "backfill"] \in Operation
        /\ [op[p] EXCEPT !.kind = "backfill"] # NONE
    BY <1>2, NoneIsNoProject DEF Operation
  <2>3. op' = [op EXCEPT ![p] = [op[p] EXCEPT !.kind = "backfill"]]
    BY <1>9 DEF Put
  <2>. QED  BY <1>2, <1>3, <1>9, <2>1, <2>2, <2>3
            DEF Put, Advance, TInv, TypeOK, Located, lvars, Or
<1>10. CASE ReadBack(p)
  BY <1>2, <1>3, <1>10 DEF ReadBack, Under, Advance, TInv, TypeOK, Located, lvars
<1>. QED  BY <1>5, <1>6, <1>7, <1>8, <1>9, <1>10 DEF Work

\* Deaths and the passing of time touch the lock file alone.
LEMMA FaultsKeepTypes ==
  ASSUME TInv,
         \/ \E p \in Processes : Die(p) /\ UNCHANGED rvars
         \/ \E r \in Records : Age(r) /\ UNCHANGED rvars
  PROVE  TInv'
<1>1. CASE \E p \in Processes : Die(p) /\ UNCHANGED rvars
  BY <1>1 DEF Die, TInv, TypeOK, LockTypeOK, Located, rvars
<1>2. CASE \E r \in Records : Age(r) /\ UNCHANGED rvars
  <2>1. LockTypeOK'
    <3>1. PICK r \in Records : Age(r) /\ UNCHANGED rvars
      BY <1>2
    <3>2. file[r] \in LockFile
      BY <3>1 DEF Age, TInv, TypeOK, LockTypeOK
    <3>3. file' = [file EXCEPT ![r] = [file[r] EXCEPT !.old = TRUE]]
      BY <3>1 DEF Age
    <3>. QED  BY <3>1, <3>2, <3>3, LockFileType DEF Age, TInv, TypeOK, LockTypeOK
  <2>. QED  BY <1>2, <2>1 DEF Age, TInv, TypeOK, Located, rvars
<1>. QED  BY <1>1, <1>2

LEMMA TStep == TInv /\ [Next]_vars => TInv'
<1>. SUFFICES ASSUME TInv, [Next]_vars PROVE TInv'
  OBVIOUS
<1>1. CASE UNCHANGED vars
  BY <1>1 DEF vars, lvars, rvars, TInv, TypeOK, LockTypeOK, Located
<1>2. CASE Next
  BY <1>2, CallKeepsTypes, LockKeepsTypes, TimeOutKeepsTypes, WorkKeepsTypes,
     FaultsKeepTypes DEF Next
<1>. QED  BY <1>1, <1>2

\* The types hold in every reachable state, whatever dies and however slow.
THEOREM TypeCorrect == Spec => []TypeOK
<1>1. TInv => TypeOK
  BY DEF TInv
<1>. QED  BY TInit, TStep, <1>1, PTL DEF Spec
-----------------------------------------------------------------------------
\* Whoever finds a lock file stale has nobody beside it: nobody dies, or the
\* one that died was the only other process.
SafeToReap == ~Slow /\ (Mortal = {} \/ \E p, q \in Processes : Processes = {p, q})

Living == Processes \ dead

\* A process that opened a lock file finds its own under the path until it
\* gives it back; only the file of a dead process grows old or is about to
\* be removed.
LockKept ==
  /\ \A r \in Records : file[r] # NONE /\ file[r].old => file[r].by \in dead
  /\ \A p \in Living :
       /\ pc[p] = "reaping" => file[want[p]] # NONE /\ file[want[p]].by \in dead
       /\ pc[p] \in {"opened", "inside"} =>
            file[want[p]] # NONE /\ file[want[p]].by = p

LEMMA NobodyDead ==
  ASSUME SafeToReap, TInv, NEW p \in Living, NEW q \in Living, p # q
  PROVE  dead = {}
<1>1. dead \subseteq Mortal /\ Mortal \subseteq Processes
  BY LockAssumption DEF TInv, TypeOK, LockTypeOK
<1>2. CASE Mortal = {}
  BY <1>1, <1>2
<1>3. CASE \E u, v \in Processes : Processes = {u, v}
  <2>1. Processes = {p, q}
    BY <1>3 DEF Living
  <2>. QED  BY <1>1, <2>1 DEF Living
<1>. QED  BY <1>2, <1>3 DEF SafeToReap

LEMMA KeptExcludes == LockKept => MutualExclusion
BY DEF LockKept, Living, MutualExclusion, Holds, Is

LEMMA LockKeptInit == Init => LockKept
BY DEF Init, LockInit, LockKept, Living

LEMMA LockKeptStep ==
  ASSUME SafeToReap, TInv, LockKept, [Next]_vars
  PROVE  LockKept'
<1>1. LockTypeOK /\ \A p \in Processes : pc[p] # "idle" => want[p] \in Records
  BY DEF TInv, TypeOK, Located
<1>2. CASE UNCHANGED lvars
  BY <1>2 DEF LockKept, Living, lvars
<1>3. ASSUME NEW p \in Processes, NEW r \in Records, Request(p, r)
      PROVE  LockKept'
  BY <1>1, <1>3 DEF Request, LockKept, Living, LockTypeOK, Is
<1>4. ASSUME NEW p \in Processes, Open(p)
      PROVE  LockKept'
  <2>1. want[p] \in Records /\ file[want[p]] = NONE /\ dead' = dead /\ want' = want
    BY <1>1, <1>4 DEF Open, Is
  <2>2. file' = [file EXCEPT ![want[p]] = [by |-> p, meta |-> FALSE, old |-> FALSE]]
        /\ pc' = [pc EXCEPT ![p] = "opened"]
    BY <1>4 DEF Open
  <2>3. [by |-> p, meta |-> FALSE, old |-> FALSE] # NONE
    <3>1. [by |-> p, meta |-> FALSE, old |-> FALSE] \in LockFile
      BY DEF LockFile
    <3>. QED  BY <3>1, NoneIsNoFile
  <2>. QED  BY <1>1, <2>1, <2>2, <2>3 DEF LockKept, Living, LockTypeOK
<1>5. ASSUME NEW p \in Processes, Stamp(p)
      PROVE  LockKept'
  <2>1. want[p] \in Records /\ file[want[p]] \in LockFile /\ file[want[p]].by = p
    BY <1>1, <1>5 DEF Stamp, Is, LockKept, Living, LockTypeOK
  <2>2. file' = [file EXCEPT ![want[p]] = [file[want[p]] EXCEPT !.meta = TRUE]]
    BY <1>5, <2>1, NoneIsNoFile DEF Stamp
  <2>3. /\ [file[want[p]] EXCEPT !.meta = TRUE] # NONE
        /\ [file[want[p]] EXCEPT !.meta = TRUE].by = p
        /\ [file[want[p]] EXCEPT !.meta = TRUE].old = file[want[p]].old
    BY <2>1, LockFileType, NoneIsNoFile
  <2>. QED  BY <1>1, <1>5, <2>1, <2>2, <2>3 DEF Stamp, LockKept, Living, LockTypeOK
<1>6. ASSUME NEW p \in Processes, Inspect(p)
      PROVE  LockKept'
  <2>1. want[p] \in Records /\ file[want[p]].by \in dead
    BY <1>1, <1>6 DEF Inspect, Stale, Is, LockKept
  <2>. QED  BY <1>1, <1>6, <2>1 DEF Inspect, LockKept, Living, LockTypeOK
\* Whose file is removed is dead, and so nobody else is there to lose one.
<1>7. ASSUME NEW p \in Processes, Reap(p)
      PROVE  LockKept'
  <2>1. p \in Living /\ dead # {}
    BY <1>7 DEF Reap, Is, LockKept, Living
  <2>2. \A q \in Living : q = p
    BY <2>1, NobodyDead
  <2>. QED  BY <1>1, <1>7, <2>2 DEF Reap, LockKept, Living, LockTypeOK
<1>8. ASSUME NEW p \in Processes, GiveUp(p)
      PROVE  LockKept'
  BY <1>1, <1>8 DEF GiveUp, LockKept, Living, LockTypeOK, Is
\* Nobody else has this file in hand: it is p's, and p lives.
<1>9. ASSUME NEW p \in Processes, Release(p)
      PROVE  LockKept'
  <2>1. /\ want[p] \in Records /\ p \in Living /\ file[want[p]].by = p
        /\ dead' = dead /\ pc' = [pc EXCEPT ![p] = "idle"]
        /\ want' = [want EXCEPT ![p] = NONE]
        /\ file' = [file EXCEPT ![want[p]] = NONE]
    BY <1>1, <1>9 DEF Release, Is, LockKept, Living
  <2>2. ASSUME NEW q \in Living, q # p, pc[q] # "idle"
        PROVE  pc[q] \in {"reaping", "opened", "inside"} => want[q] # want[p]
    BY <2>1, <2>2 DEF LockKept, Living
  <2>. QED  BY <1>1, <2>1, <2>2 DEF LockKept, Living, LockTypeOK
<1>10. ASSUME NEW p \in Processes, Die(p)
      PROVE  LockKept'
  BY <1>1, <1>10 DEF Die, LockKept, Living
<1>11. ASSUME NEW r \in Records, Age(r)
       PROVE  LockKept'
  <2>1. file[r] \in LockFile /\ file[r].by \in dead
    BY <1>1, <1>11 DEF Age, LockTypeOK, SafeToReap
  <2>2. file' = [file EXCEPT ![r] = [file[r] EXCEPT !.old = TRUE]]
    BY <1>11 DEF Age
  <2>3. /\ [file[r] EXCEPT !.old = TRUE] # NONE
        /\ [file[r] EXCEPT !.old = TRUE].by = file[r].by
    <3>1. file[r] = [by |-> file[r].by, meta |-> file[r].meta, old |-> file[r].old]
      BY <2>1 DEF LockFile
    <3>. QED  BY <2>1, <3>1, LockFileType, NoneIsNoFile
  <2>. QED  BY <1>1, <1>11, <2>1, <2>2, <2>3 DEF Age, LockKept, Living, LockTypeOK
<1>12. CASE UNCHANGED vars
  BY <1>2, <1>12 DEF vars
<1>13. ASSUME NEW p \in Processes, Call(p)
       PROVE  LockKept'
  BY <1>3, <1>13 DEF Call, Read, Upsert, Begin
<1>14. ASSUME NEW p \in Processes, Lock(p)
       PROVE  LockKept'
  BY <1>4, <1>5, <1>6, <1>7, <1>14 DEF Lock
<1>15. ASSUME NEW p \in Processes, TimeOut(p)
       PROVE  LockKept'
  BY <1>8, <1>15 DEF TimeOut
<1>16. ASSUME NEW p \in Processes, Work(p)
       PROVE  LockKept'
  BY <1>2, <1>9, <1>16
     DEF Work, ReadCurrent, Mint, PutSlug, Check, Put, ReadBack, Finish
<1>. QED  BY <1>10, <1>11, <1>12, <1>13, <1>14, <1>15, <1>16 DEF Next

\* "The outer acquisition already excludes every OTHER process": one process
\* at a time is inside an operation on a record.  A process may die at any
\* point and have its lock reaped, if there are two.
THEOREM LocksExclude ==
  ASSUME SafeToReap
  PROVE  Spec => []MutualExclusion
<1>1. Init => TInv /\ LockKept
  BY TInit, LockKeptInit
<1>2. TInv /\ LockKept /\ [Next]_vars => (TInv /\ LockKept)'
  BY TStep, LockKeptStep
<1>3. TInv /\ LockKept => MutualExclusion
  BY KeptExcludes
<1>. QED  BY <1>1, <1>2, <1>3, PTL DEF Spec

-----------------------------------------------------------------------------
\* What a process under the lock knows of the record: past ReadCurrent, its
\* copy is the record itself until it writes one.
Known(p) ==
  /\ step[p] \in {"putSlug", "check", "put", "readBack", "done"} => pc[p] = "inside"
  /\ step[p] \in {"check", "put"} =>
       seen[p] = records[want[p]] /\ (seen[p] # NONE => Normal(seen[p]))
  /\ step[p] = "put" /\ op[p].expected # 0 =>
       seen[p] # NONE /\ seen[p].revision = op[p].expected
  /\ step[p] = "putSlug" =>
       Normal(seen[p]) /\ records[want[p]].slug \in {NONE, seen[p].slug}

SeesCurrent == \A p \in Living : Known(p)

RegistryInv == TInv /\ LockKept /\ SeesCurrent

\* While one process is under the lock, the records others have in hand are
\* not the one it writes.
LEMMA OthersElsewhere ==
  ASSUME RegistryInv, NEW p \in Living, NEW q \in Living, p # q,
         pc[p] = "inside", step[q] \in {"putSlug", "check", "put"}
  PROVE  want[q] # want[p]
BY DEF RegistryInv, LockKept, SeesCurrent, Known

\* A process that does not move keeps what it knows when another one works.
LEMMA OthersKnow ==
  ASSUME RegistryInv, NEW p \in Living, NEW q \in Living, p # q,
         pc[p] = "inside", want' = want, pc'[q] = pc[q],
         step'[q] = step[q], seen'[q] = seen[q],
         op'[q] = op[q],
         \A r \in Records : r # want[p] => records'[r] = records[r]
  PROVE  Known(q)'
<1>1. Known(q)
  BY DEF RegistryInv, SeesCurrent
<1>2. step[q] \in {"putSlug", "check", "put"} => records'[want[q]] = records[want[q]]
  <2>1. step[q] \in {"putSlug", "check", "put"} => want[q] \in Records
    BY <1>1 DEF Known, RegistryInv, TInv, Located, Living
  <2>. QED  BY <2>1, OthersElsewhere
<1>. QED  BY <1>1, <1>2 DEF Known, Normal

LEMMA WorkKnows ==
  ASSUME RegistryInv, NEW p \in Processes, Work(p), ~Finish(p)
  PROVE  Known(p)'
<1>. DEFINE r == want[p]
<1>1. /\ UNCHANGED lvars /\ pc[p] = "inside" /\ r \in Records
      /\ op[p] \in Operation /\ op[p] # NONE
      /\ records[r] \in Or(Project) /\ seen[p] \in Or(Project)
  BY NoneIsNoProject DEF Work, ReadCurrent, Mint, PutSlug, Check, Put, ReadBack, Under, Is,
         RegistryInv, TInv, TypeOK, Located, Or
<1>2. Known(p) /\ TypeOK /\ Located
  BY DEF RegistryInv, SeesCurrent, TInv, Living, Work, ReadCurrent, Mint, PutSlug,
         Check, Put, ReadBack, Under, Is
<1>3. CASE ReadCurrent(p)
  BY <1>1, <1>2, <1>3 DEF ReadCurrent, Current, Known, TypeOK, lvars, Normal
<1>4. CASE Mint(p)
  <2>1. records[r] \in Project /\ records[r] # NONE
    BY <1>1, <1>2, <1>4, NoneIsNoProject DEF Mint, Under, Located, Or
  <2>2. UNCHANGED <<records, op, pc, want>>
    BY <1>1, <1>4 DEF Mint, lvars
  <2>3. CASE /\ Normal(records[r])
             /\ seen' = [seen EXCEPT ![p] = records[r]]
             /\ Advance(p, Resume(p))
    BY <1>1, <1>2, <2>1, <2>2, <2>3 DEF Advance, Resume, Known, TypeOK, Normal
  <2>4. CASE Advance(p, "done")
    BY <1>1, <1>2, <2>2, <2>4 DEF Advance, Known, TypeOK
  <2>5. CASE /\ \E s \in Slugs(r, records[r]) :
                  seen' = [seen EXCEPT ![p] = Filled(records[r], s)]
             /\ Advance(p, "putSlug")
    <3>1. PICK s \in Slugs(r, records[r]) : seen' = [seen EXCEPT ![p] = Filled(records[r], s)]
      BY <2>5
    <3>2. Filled(records[r], s).slug = s /\ Normal(Filled(records[r], s))
      BY <2>1, <3>1, SlugsLabels, FilledType
    <3>3. records[r].slug \in {NONE, s}
      BY <3>1 DEF Slugs
    <3>4. seen'[p] = Filled(records[r], s) /\ step'[p] = "putSlug"
      BY <1>2, <2>5, <3>1 DEF Advance, TypeOK
    <3>. QED  BY <1>1, <2>2, <3>2, <3>3, <3>4 DEF Known, Normal
  <2>. QED  BY <1>4, <2>3, <2>4, <2>5 DEF Mint, Current
<1>5. CASE PutSlug(p)
  BY <1>1, <1>2, <1>5 DEF PutSlug, Under, Advance, Resume, Known, TypeOK, lvars, Normal
<1>6. CASE Check(p)
  BY <1>1, <1>2, <1>6 DEF Check, Under, Conflict, Advance, Known, TypeOK, lvars, Normal
<1>7. CASE Put(p) \/ ReadBack(p)
  <2>1. step'[p] \in {"readBack", "done", "mint"} /\ pc' = pc
    BY <1>1, <1>2, <1>7 DEF Put, ReadBack, Advance, TypeOK, lvars
  <2>. QED  BY <1>1, <2>1 DEF Known
<1>. QED  BY <1>3, <1>4, <1>5, <1>6, <1>7 DEF Work

LEMMA KnownStep ==
  ASSUME SafeToReap, RegistryInv, [Next]_vars
  PROVE  SeesCurrent'
<1>. SUFFICES ASSUME NEW q \in Processes, q \notin dead' PROVE Known(q)'
  BY DEF SeesCurrent, Living
<1>0. dead \subseteq dead' /\ q \in Living
  <2>1. dead \subseteq dead'
    BY DEF Next, Call, Read, Upsert, Begin, Request, Lock, Open, Stamp, Inspect, Reap,
       TimeOut, GiveUp, Work, ReadCurrent, Mint, PutSlug, Check, Put, ReadBack, Finish,
       Release, Die, Age, vars, lvars
  <2>. QED  BY <2>1 DEF Living
<1>1. Known(q) /\ TypeOK /\ LockTypeOK /\ Located
  BY <1>0 DEF RegistryInv, SeesCurrent, TInv, TypeOK
<1>2. CASE UNCHANGED rvars /\ want' = want /\ (pc[q] = "inside" => pc'[q] = "inside")
  BY <1>1, <1>2 DEF rvars, Known, Normal
<1>3. ASSUME NEW p \in Processes, NEW r, NEW o, Begin(p, r, o)
      PROVE  Known(q)'
  <2>1. CASE p = q
    BY <1>1, <1>3, <2>1 DEF Begin, Request, Known, TypeOK, LockTypeOK
  <2>2. CASE p # q
    <3>1. /\ pc'[q] = pc[q] /\ want'[q] = want[q] /\ step'[q] = step[q]
          /\ op'[q] = op[q] /\ UNCHANGED <<records, seen>>
      BY <1>1, <1>3, <2>2 DEF Begin, Request, TypeOK, LockTypeOK
    <3>. QED  BY <1>1, <3>1 DEF Known, Normal
  <2>. QED  BY <2>1, <2>2
<1>4. ASSUME NEW p \in Processes, TimeOut(p) \/ Finish(p)
      PROVE  Known(q)'
  <2>1. /\ pc' = [pc EXCEPT ![p] = "idle"] /\ want' = [want EXCEPT ![p] = NONE]
        /\ Forget(p)
    BY <1>4 DEF TimeOut, Finish, GiveUp, Release
  <2>2. CASE p = q
    BY <1>1, <2>1, <2>2 DEF Forget, Advance, Known, TypeOK
  <2>3. CASE p # q
    <3>1. /\ pc'[q] = pc[q] /\ want'[q] = want[q] /\ step'[q] = step[q]
          /\ op'[q] = op[q] /\ seen'[q] = seen[q] /\ UNCHANGED records
      BY <1>1, <2>1, <2>3 DEF Forget, Advance, TypeOK, LockTypeOK
    <3>. QED  BY <1>1, <3>1 DEF Known, Normal
  <2>. QED  BY <2>2, <2>3
<1>5. ASSUME NEW p \in Processes, Lock(p) \/ (Die(p) /\ UNCHANGED rvars)
      PROVE  Known(q)'
  BY <1>1, <1>2, <1>5
     DEF Lock, Open, Stamp, Inspect, Reap, Die, Is, LockTypeOK
<1>6. ASSUME NEW p \in Processes, Work(p), ~Finish(p)
      PROVE  Known(q)'
  <2>1. CASE p = q
    BY <1>6, <2>1, WorkKnows
  <2>2. CASE p # q
    <3>1. /\ pc[p] = "inside" /\ p \in Living /\ UNCHANGED lvars
          /\ step'[q] = step[q] /\ seen'[q] = seen[q] /\ op'[q] = op[q]
          /\ \A r \in Records : r # want[p] => records'[r] = records[r]
      <4>1. CASE ReadCurrent(p)
        BY <1>1, <2>2, <4>1 DEF ReadCurrent, Under, Is, TypeOK, Living
      <4>2. CASE Mint(p)
        BY <1>1, <2>2, <4>2 DEF Mint, Under, Is, Advance, TypeOK, Living
      <4>3. CASE PutSlug(p) \/ Check(p) \/ ReadBack(p)
        BY <1>1, <2>2, <4>3 DEF PutSlug, Check, ReadBack, Under, Is, Advance, TypeOK, Living
      <4>4. CASE Put(p)
        <5>1. op'[q] = op[q]
          <6>1. op' = [op EXCEPT ![p] = [op[p] EXCEPT !.kind = "backfill"]]
            BY <4>4 DEF Put
          <6>. QED  BY <1>1, <2>2, <6>1 DEF TypeOK
        <5>. QED  BY <1>1, <2>2, <4>4, <5>1 DEF Put, Under, Is, Advance, TypeOK, Living
      <4>. QED  BY <1>6, <4>1, <4>2, <4>3, <4>4 DEF Work
    <3>. QED  BY <1>0, <2>2, <3>1, OthersKnow DEF lvars
  <2>. QED  BY <2>1, <2>2
<1>7. CASE UNCHANGED vars
  BY <1>2, <1>7 DEF vars, lvars
<1>8. ASSUME NEW r \in Records, Age(r), UNCHANGED rvars
      PROVE  Known(q)'
  BY <1>2, <1>8 DEF Age
<1>9. ASSUME NEW p \in Processes, Call(p)
      PROVE  Known(q)'
  BY <1>3, <1>9 DEF Call, Read, Upsert
<1>. QED  BY <1>4, <1>5, <1>6, <1>7, <1>8, <1>9 DEF Next

LEMMA RegistryInit == Init => RegistryInv
<1>1. Init => SeesCurrent
  BY DEF Init, SeesCurrent, Living, Known
<1>. QED  BY <1>1, TInit, LockKeptInit DEF RegistryInv

LEMMA RegistryStep ==
  ASSUME SafeToReap
  PROVE  RegistryInv /\ [Next]_vars => RegistryInv'
BY TStep, LockKeptStep, KnownStep DEF RegistryInv

\* "Exactly one client wins a revision race": an update replaces the revision
\* its caller named and no newer one, for any records and bounds, also when
\* one of two processes dies inside an operation.
THEOREM RevisionRaceHasOneWinner ==
  ASSUME SafeToReap
  PROVE  Spec => OneWinner
<1>1. RegistryInv /\ [Next]_vars =>
        [\A p \in Processes : Put(p) /\ op[p].expected # 0 =>
           Current(p) # NONE /\ Current(p).revision = op[p].expected]_vars
  BY DEF RegistryInv, SeesCurrent, Living, Known, Put, Under, Is, Current
<1>. QED  BY <1>1, RegistryInit, RegistryStep, PTL DEF Spec, OneWinner

\* "Minted once and never regenerated, including across a rename": no step
\* takes a slug from a record or changes it, also when one of two processes
\* dies inside an operation.
THEOREM SlugsNeverChange ==
  ASSUME SafeToReap
  PROVE  Spec => SlugStable
<1>1. ASSUME RegistryInv, [Next]_vars,
             NEW r \in Records, records[r] # NONE, records[r].slug # NONE
      PROVE  records'[r] # NONE /\ records'[r].slug = records[r].slug
  <2>1. records[r] \in Project /\ TypeOK
    BY <1>1 DEF RegistryInv, TInv, TypeOK, Or
  <2>2. ASSUME NEW p \in Processes, Put(p)
        PROVE  records'[r] # NONE /\ records'[r].slug = records[r].slug
    <3>1. CASE want[p] # r
      BY <1>1, <2>1, <2>2, <3>1 DEF Put, TypeOK
    <3>2. CASE want[p] = r
      <4>1. seen[p] = records[r] /\ pc[p] # "idle"
        BY <1>1, <2>2, <3>2 DEF Put, Under, Is, RegistryInv, SeesCurrent, Living, Known
      <4>2. NextRecord(p) \in Project
        BY <1>1, <4>1, NextRecordType DEF RegistryInv
      <4>3. NextRecord(p).slug = records[r].slug
        BY <1>1, <4>1 DEF NextRecord
      <4>. QED  BY <2>1, <2>2, <3>2, <4>2, <4>3, NoneIsNoProject DEF Put, TypeOK
    <3>. QED  BY <3>1, <3>2
  <2>3. ASSUME NEW p \in Processes, PutSlug(p)
        PROVE  records'[r] # NONE /\ records'[r].slug = records[r].slug
    <3>1. seen[p] # NONE /\ (want[p] = r => seen[p].slug = records[r].slug)
      BY <1>1, <2>3 DEF PutSlug, Under, Is, RegistryInv, SeesCurrent, Living, Known, TInv, Located
    <3>. QED  BY <1>1, <2>1, <2>3, <3>1 DEF PutSlug, TypeOK
  <2>4. CASE UNCHANGED records
    BY <1>1, <2>4
  <2>5. (\E p \in Processes : Put(p) \/ PutSlug(p)) \/ UNCHANGED records
    BY <1>1 DEF Next, Call, Read, Upsert, Begin, Lock, TimeOut, Forget, Work,
       ReadCurrent, Mint, Check, ReadBack, Finish, vars, rvars
  <2>. QED  BY <2>2, <2>3, <2>4, <2>5
<1>2. RegistryInv /\ [Next]_vars =>
        [\A r \in Records : records[r] # NONE /\ records[r].slug # NONE =>
           records'[r] # NONE /\ records'[r].slug = records[r].slug]_vars
  BY <1>1
<1>. QED  BY <1>2, RegistryInit, RegistryStep, PTL DEF Spec, SlugStable
=============================================================================
