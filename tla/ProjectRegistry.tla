--------------------------- MODULE ProjectRegistry ---------------------------
(***************************************************************************)
(* The project registry of the agent service (workspace-registry.ts does   *)
(* the same for workspaces): records in a KV store that the web and agent  *)
(* processes share, written under the record lock.  Each KV call is one    *)
(* action.  The revision check of upsert guards updates; a record stored   *)
(* without a slug is given one by the first locked read.                   *)
(***************************************************************************)
EXTENDS RecordLock

CONSTANTS
  Names,
  Labels,       \* ids and slugs share one namespace
  Base,         \* kebabCase of a name
  Suffixed,     \* the slugs a suffix makes of a name's
  Legacy,       \* records stored before revisions and slugs
  MaxRevision   \* bound: no update is requested of this revision

ASSUME RegistryAssumption ==
  /\ Records \subseteq Labels /\ Legacy \subseteq Records
  /\ Base \in [Names -> Labels] /\ Suffixed \in [Names -> SUBSET Labels]
  /\ Names # {} /\ NONE \notin Labels /\ MaxRevision \in Nat

VARIABLES
  records,
  op,    \* what a process does under the lock
  step,  \* how far it got
  seen   \* the record it read

rvars == <<records, op, step, seen>>
vars == <<lvars, rvars>>

\* A legacy record has revision 0, read as 1.
Project == [name : Names, slug : Or(Labels), revision : Nat]

\* expected is 0 when the caller sends no expectedRevision.
Operation == [kind : {"upsert", "backfill"}, name : Names, expected : Nat]

ASSUME NoneIsNoProject == NONE \notin Project \cup Operation

TypeOK ==
  /\ LockTypeOK
  /\ records \in [Records -> Or(Project)]
  /\ op \in [Processes -> Or(Operation)]
  /\ step \in [Processes -> {"idle", "read", "mint", "putSlug", "check",
                             "put", "readBack", "done"}]
  /\ seen \in [Processes -> Or(Project)]
  /\ \A p \in Processes : (pc[p] = "idle") <=> (op[p] = NONE)

-----------------------------------------------------------------------------
Normal(x) == x.slug # NONE /\ x.revision > 0

\* The other records' ids and slugs.
Taken(r) ==
  LET others == {s \in Records \ {r} : records[s] # NONE}
  IN  others \cup ({records[s].slug : s \in others} \ {NONE})

\* mintUniqueSlug; no slug when every attempt is taken (it throws).
Minted(r, name) ==
  IF Base[name] \notin Taken(r) THEN {Base[name]} ELSE Suffixed[name] \ Taken(r)

Begin(p, r, o) ==
  /\ Request(p, r)
  /\ op' = [op EXCEPT ![p] = o]
  /\ step' = [step EXCEPT ![p] = IF o.kind = "upsert" THEN "read" ELSE "mint"]
  /\ UNCHANGED <<records, seen>>

\* The upsert tool, having read the record without the lock: an existing one
\* is updated with a revision its caller has seen, a missing one created
\* (ensurePersonalProject creates likewise).
Upsert(p, r, name, expected) ==
  /\ IF records[r] = NONE THEN expected = 0
     ELSE Normal(records[r]) /\ expected \in 1..records[r].revision
          /\ records[r].revision < MaxRevision
  /\ Begin(p, r, [kind |-> "upsert", name |-> name, expected |-> expected])

\* get() or list() on a record that is not normalized.
Read(p, r) ==
  /\ records[r] # NONE /\ ~Normal(records[r])
  /\ Begin(p, r, [kind |-> "backfill", name |-> records[r].name, expected |-> 0])

\* A process under the lock, at a step of its operation.
Under(p, s) == Is(p, "inside") /\ step[p] = s

Current(p) == records[want[p]]

\* this.get() under the lock.
ReadCurrent(p) ==
  /\ Under(p, "read")
  /\ seen' = [seen EXCEPT ![p] = Current(p)]
  /\ step' = [step EXCEPT ![p] =
       IF Current(p) # NONE /\ ~Normal(Current(p)) THEN "mint" ELSE "check"]
  /\ UNCHANGED <<lvars, records, op>>

\* Where readNormalized returns to.
Resume(p) == IF op[p].kind = "backfill" THEN "done" ELSE "check"

Advance(p, s) == step' = [step EXCEPT ![p] = s]

\* Mutant: the nested read takes the file lock again.
MintLocked(p) ==
  /\ Under(p, "mint") /\ file[want[p]] = NONE
  /\ Advance(p, "done")
  /\ UNCHANGED <<lvars, records, op, seen>>

\* The slug a record keeps or may be given, and the record with its defaults.
Slugs(r, x) == IF x.slug # NONE THEN {x.slug} ELSE Minted(r, x.name)
Filled(x, s) ==
  [x EXCEPT !.slug = s, !.revision = IF @ = 0 THEN 1 ELSE @]

\* The locked half of readNormalized: the record is read again, and what it
\* lacks is filled in.  It throws when no slug is free.
Mint(p) ==
  /\ Under(p, "mint")
  /\ LET x == Current(p) IN
       \/ /\ Normal(x)
          /\ seen' = [seen EXCEPT ![p] = x] /\ Advance(p, Resume(p))
       \/ /\ ~Normal(x) /\ Slugs(want[p], x) = {}
          /\ Advance(p, "done") /\ UNCHANGED seen
       \/ /\ ~Normal(x)
          /\ \E s \in Slugs(want[p], x) :
               seen' = [seen EXCEPT ![p] = Filled(x, s)]
          /\ Advance(p, "putSlug")
  /\ UNCHANGED <<lvars, records, op>>

PutSlug(p) ==
  /\ Under(p, "putSlug")
  /\ records' = [records EXCEPT ![want[p]] = seen[p]]
  /\ Advance(p, Resume(p))
  /\ UNCHANGED <<lvars, op, seen>>

\* Mutant: the expected revision is not compared.
NoConflict(p) == FALSE

\* assertExpectedRevision.
Conflict(p) ==
  op[p].expected # 0 /\ (seen[p] = NONE \/ seen[p].revision # op[p].expected)

\* assertIdDoesNotAliasSlug.
Aliases(r) == \E s \in Records \ {r} : records[s] # NONE /\ records[s].slug = r

Check(p) ==
  /\ Under(p, "check")
  /\ Advance(p, IF Conflict(p) \/ (seen[p] = NONE /\ Aliases(want[p]))
                  THEN "done" ELSE "put")
  /\ UNCHANGED <<lvars, records, op, seen>>

\* The record upsert writes: a new one has no slug yet, and only a caller
\* that named a revision advances it.
NextRecord(p) ==
  [name |-> op[p].name,
   slug |-> IF seen[p] = NONE THEN NONE ELSE seen[p].slug,
   revision |-> IF op[p].expected # 0 THEN op[p].expected + 1
                ELSE IF seen[p] = NONE THEN 1 ELSE seen[p].revision]

\* What is left is a get().
Put(p) ==
  /\ Under(p, "put")
  /\ records' = [records EXCEPT ![want[p]] = NextRecord(p)]
  /\ op' = [op EXCEPT ![p].kind = "backfill"]
  /\ Advance(p, "readBack")
  /\ UNCHANGED <<lvars, seen>>

ReadBack(p) ==
  /\ Under(p, "readBack")
  /\ Advance(p, IF Normal(Current(p)) THEN "done" ELSE "mint")
  /\ UNCHANGED <<lvars, records, op, seen>>

Forget(p) ==
  /\ op' = [op EXCEPT ![p] = NONE]
  /\ seen' = [seen EXCEPT ![p] = NONE]
  /\ Advance(p, "idle")
  /\ UNCHANGED records

Finish(p) == step[p] = "done" /\ Release(p) /\ Forget(p)

TimeOut(p) == GiveUp(p) /\ Forget(p)

Init ==
  /\ LockInit
  /\ records = [r \in Records |->
       IF r \in Legacy THEN [name |-> CHOOSE n \in Names : TRUE,
                             slug |-> NONE, revision |-> 0]
       ELSE NONE]
  /\ op = [p \in Processes |-> NONE]
  /\ step = [p \in Processes |-> "idle"]
  /\ seen = [p \in Processes |-> NONE]

Work(p) ==
  \/ ReadCurrent(p) \/ Mint(p) \/ PutSlug(p) \/ Check(p) \/ Put(p)
  \/ ReadBack(p) \/ Finish(p)

Lock(p) == (Open(p) \/ Stamp(p) \/ Inspect(p) \/ Reap(p)) /\ UNCHANGED rvars

Call(p) ==
  \E r \in Records :
    \/ Read(p, r)
    \/ \E name \in Names, expected \in 0..MaxRevision : Upsert(p, r, name, expected)

Next ==
  \/ \E p \in Processes :
       \/ Call(p) \/ Lock(p) \/ TimeOut(p) \/ Work(p)
       \/ Die(p) /\ UNCHANGED rvars
  \/ \E r \in Records : Age(r) /\ UNCHANGED rvars

Spec == Init /\ [][Next]_vars

\* A process that lives runs on, and every loop has a deadline.
FairSpec ==
  Spec /\ \A p \in Processes : WF_vars(Work(p)) /\ WF_vars(Lock(p) \/ TimeOut(p))
-----------------------------------------------------------------------------
\* "Exactly one client wins a revision race": an update replaces the revision
\* its caller named, nothing newer.
OneWinner ==
  [][\A p \in Processes : Put(p) /\ op[p].expected # 0 =>
       Current(p) # NONE /\ Current(p).revision = op[p].expected]_vars

\* "Minted once and never regenerated, including across a rename".
SlugStable ==
  [][\A r \in Records : records[r] # NONE /\ records[r].slug # NONE =>
       records'[r] # NONE /\ records'[r].slug = records[r].slug]_vars

\* An operation of a living process ends, although it reads the record under
\* a lock it already holds.
OperationEnds ==
  \A p \in Processes : Is(p, "inside") ~> ~Is(p, "inside")

\* "Globally unique across every project": ids and slugs name one record.
SlugsDistinct ==
  \A r, s \in Records :
    r # s /\ records[r] # NONE /\ records[s] # NONE /\ records[r].slug # NONE =>
      records[r].slug \notin {s, records[s].slug}
=============================================================================
