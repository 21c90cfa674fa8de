-------------------------- MODULE ThreadSlugsProofs --------------------------
(***************************************************************************)
(* Proofs about ThreadSlugs, for any threads, principals and processes.    *)
(*                                                                         *)
(* Several processes may be about to write one record, some with and some  *)
(* without its slug, and a claim may take away the slug that another has   *)
(* just written.  Their slugs agree nonetheless: a thread that is anywhere *)
(* without a slug is old, and goes by its first attempt, which is always   *)
(* free (FirstAttempt); no step makes a thread old again once every record *)
(* of it carries a slug (Follows).                                         *)
(***************************************************************************)
EXTENDS ThreadSlugs, TLAPS

First(t) == Candidates[t][1]

\* A record of the thread, stored or in flight, carries the slug, or the
\* thread was shown under it.
Says(t, s) ==
  /\ s # NONE
  /\ \/ slug[t] = s
     \/ s \in told[t]
     \/ \E p \in Processes : \E r \in pending[p] : r.thread = t /\ r.slug = s

\* A record of the thread, stored or in flight, has no slug.
Old(t) ==
  \/ t \in stored /\ slug[t] = NONE
  \/ \E p \in Processes : \E r \in pending[p] : r.thread = t /\ r.slug = NONE

Known ==
  /\ \A t \in Threads \ stored : slug[t] = NONE
  /\ \A t \in Threads \ created : told[t] = {}
  /\ \A p \in Processes : \A r \in pending[p] : r.thread \in created

Sourced ==
  \A t \in Threads, s \in Slugs : Says(t, s) => s \in RandomSlugs \cup Attempts(t)

Agreed ==
  \A t \in Threads, s \in Slugs : Says(t, s) =>
    /\ Old(t) => s = First(t)
    /\ \A other \in Slugs : Says(t, other) => s = other

Basics == TypeOK /\ Known
SInv == Basics /\ Sourced /\ Agreed

LEMMA FirstFacts ==
  ASSUME NEW t \in Threads
  PROVE  First(t) \in Slugs /\ First(t) \in Attempts(t) /\ First(t) # NONE
<1>1. Candidates[t] \in Seq(Slugs) /\ Candidates[t] # <<>>
  BY SlugAssumption, NoSharedAttempt
<1> QED BY <1>1, SlugAssumption DEF First, Attempts

\* The first attempt is free, whoever reads and whatever is stored.
LEMMA FirstAttempt ==
  ASSUME Basics, Sourced, NEW u, NEW t \in Threads, NEW s \in BackfillSlugs(u, t)
  PROVE  s = First(t)
<1> DEFINE c == Candidates[t]
           free == {i \in DOMAIN c : c[i] \notin Taken(u, t)}
<1>1. c \in Seq(Slugs) /\ c # <<>>
  BY SlugAssumption, NoSharedAttempt
<1>2. c[1] \notin Taken(u, t)
  <2>1. c[1] \in Attempts(t) /\ c[1] \in Slugs /\ c[1] # NONE
    BY FirstFacts DEF First
  <2>2. \A r \in Threads \ {t} : slug[r] # c[1]
    BY <2>1, NoSharedAttempt DEF Sourced, Says
  <2> QED BY <2>2 DEF Taken, Basics, TypeOK
<1>3. 1 \in free
  BY <1>1, <1>2
<1>4. PICK i \in free : s = c[i] /\ \A j \in free : i <= j
  BY DEF BackfillSlugs
<1>5. i = 1
  <2>1. i \in Nat /\ i # 0 /\ i <= 1
    BY <1>1, <1>3, <1>4
  <2> QED BY <2>1
<1> QED BY <1>4, <1>5 DEF First

-----------------------------------------------------------------------------
\* What a step may do to the records of a thread: say again what was said,
\* or the first attempt where the thread is old.
Follows(t) ==
  /\ Old(t)' => Old(t)
  /\ \A s \in Slugs : Says(t, s)' => Says(t, s) \/ (Old(t) /\ s = First(t))

LEMMA FollowsKeeps ==
  ASSUME SInv, \A t \in Threads : Follows(t)
  PROVE  Sourced' /\ Agreed'
<1> USE FirstFacts DEF SInv, Follows
<1>1. Sourced'
  BY DEF Sourced
<1>2. Agreed'
  <2> SUFFICES ASSUME NEW t \in Threads, NEW s \in Slugs, Says(t, s)'
               PROVE  /\ Old(t)' => s = First(t)
                      /\ \A other \in Slugs : Says(t, other)' => s = other
    BY DEF Agreed
  <2>1. CASE Old(t)
    <3>1. \A x \in Slugs : Says(t, x)' => x = First(t)
      BY <2>1 DEF Agreed
    <3> QED BY <3>1
  <2>2. CASE ~Old(t)
    <3>1. \A x \in Slugs : Says(t, x)' => Says(t, x)
      BY <2>2
    <3> QED BY <2>2, <3>1 DEF Agreed
  <2> QED BY <2>1, <2>2
<1> QED BY <1>1, <1>2

\* A call takes up records that are stored, whatever owner it gives them.
LEMMA BeginsFacts ==
  ASSUME SInv, NEW p \in Processes, NEW u \in Users \cup {NONE},
         NEW records \in SUBSET Record, Begins(p, u, records),
         \A r \in records : r.thread \in stored /\ r.slug = slug[r.thread],
         created' = created
  PROVE  SInv'
<1> USE DEF SInv, Basics, Begins
<1>1. \A q \in Processes : pending'[q] = IF q = p THEN records ELSE pending[q]
  BY DEF TypeOK
<1>2. TypeOK'
  BY DEF TypeOK, Or
<1>3. Known'
  BY <1>1 DEF Known, TypeOK
<1>4. ASSUME NEW t \in Threads PROVE Follows(t)
  BY <1>1 DEF Follows, Old, Says
<1> QED BY <1>2, <1>3, <1>4, FollowsKeeps

LEMMA InitInv == Init => SInv
<1> SUFFICES ASSUME Init PROVE SInv
  OBVIOUS
<1> USE SlugAssumption DEF Init
<1>1. Basics
  BY DEF Basics, TypeOK, Known, Or
<1>2. \A t \in Threads, s \in Slugs : ~Says(t, s)
  BY DEF Says
<1> QED BY <1>1, <1>2 DEF SInv, Sourced, Agreed

LEMMA RecordIs ==
  ASSUME Basics, NEW t \in stored
  PROVE  /\ RecordOf(t) \in Record /\ RecordOf(t).thread = t
         /\ RecordOf(t).slug = slug[t] /\ RecordOf(t).owner = owner[t]
BY DEF Basics, TypeOK, RecordOf, Record

LEMMA MintKeeps ==
  ASSUME SInv, NEW p \in Servers, NEW u \in Users, NEW t \in Threads,
         NEW s \in RandomSlugs, Mint(p, u, t, s)
  PROVE  SInv'
<1> DEFINE w == [thread |-> t, owner |-> u, slug |-> s]
<1> USE DEF SInv, Basics, Processes
<1>1. w \in Record /\ w.thread = t /\ w.slug = s /\ s \in Slugs /\ s # NONE
  BY SlugAssumption DEF Record, Or
<1>2. /\ Begins(p, u, {w}) /\ t \notin created /\ created' = created \cup {t}
  BY DEF Mint
<1> HIDE DEF w
<1>3. /\ \A q \in Processes : pending'[q] = IF q = p THEN {w} ELSE pending[q]
      /\ UNCHANGED <<stored, owner, slug, told>>
  BY <1>2 DEF Begins, TypeOK
<1>4. TypeOK'
  BY <1>1, <1>2 DEF Begins, TypeOK, Or
<1>5. Known'
  BY <1>1, <1>2, <1>3 DEF Known, TypeOK
<1>6. ASSUME NEW x \in Threads \ {t} PROVE Follows(x)
  BY <1>1, <1>3 DEF Follows, Old, Says
<1>7. ~Old(t)' /\ \A x \in Slugs : Says(t, x)' => x = s
  BY <1>1, <1>2, <1>3 DEF Old, Says, Known, TypeOK
<1>8. Sourced'
  BY <1>1, <1>6, <1>7, FirstFacts DEF Sourced, Follows
<1>9. Agreed'
  <2>1. ASSUME NEW x \in Threads \ {t}, NEW a \in Slugs, Says(x, a)'
        PROVE  /\ Old(x)' => a = First(x)
               /\ \A other \in Slugs : Says(x, other)' => a = other
    BY <1>6, <2>1 DEF Follows, Agreed
  <2> QED BY <1>7, <2>1 DEF Agreed
<1> QED BY <1>4, <1>5, <1>8, <1>9

LEMMA NormalizeKeeps ==
  ASSUME SInv, NEW p \in Processes, NEW r \in pending[p], Normalize(p, r)
  PROVE  SInv'
<1> USE DEF SInv, Basics
<1>0. r \in Record /\ r.thread \in Threads
  BY DEF TypeOK, Record
<1>1. PICK s \in BackfillSlugs(reader[p], r.thread) :
        pending' = [pending EXCEPT ![p] = (@ \ {r}) \cup {[r EXCEPT !.slug = s]}]
  BY DEF Normalize
<1> DEFINE w == [r EXCEPT !.slug = s]
<1>2. s = First(r.thread)
  BY <1>0, FirstAttempt
<1>3. w \in Record /\ w.thread = r.thread /\ w.slug = First(r.thread)
  BY <1>0, <1>2, FirstFacts DEF Record, Or
<1>4. /\ \A q \in Processes :
           pending'[q] = IF q = p THEN (pending[p] \ {r}) \cup {w} ELSE pending[q]
      /\ UNCHANGED <<stored, owner, slug, created, reader, told>>
  BY <1>1 DEF Normalize, TypeOK
<1> HIDE DEF w
<1>5. TypeOK'
  <2>1. pending' = [pending EXCEPT ![p] = (@ \ {r}) \cup {w}]
    BY <1>1 DEF w
  <2> QED BY <1>3, <1>4, <2>1 DEF TypeOK
<1>6. Known'
  BY <1>3, <1>4 DEF Known, TypeOK
<1>7. Old(r.thread)
  BY DEF Old, Normalize
<1>8. ASSUME NEW t \in Threads PROVE Follows(t)
  BY <1>3, <1>4, <1>7, FirstFacts DEF Follows, Old, Says
<1> QED BY <1>5, <1>6, <1>8, FollowsKeeps

LEMMA StoreKeeps ==
  ASSUME SInv, NEW p \in Processes, NEW r \in pending[p], Store(p, r)
  PROVE  SInv'
<1> USE DEF SInv, Basics
<1>1. r \in Record /\ r.thread \in Threads /\ r.thread \in created
      /\ r.slug \in Or(Slugs) /\ r.owner \in Or(Users)
  BY DEF TypeOK, Record, Known
<1>2. /\ \A t \in Threads :
           /\ slug'[t] = IF t = r.thread THEN r.slug ELSE slug[t]
           /\ told'[t] = IF t = r.thread THEN told[t] \cup ({r.slug} \ {NONE})
                         ELSE told[t]
      /\ \A q \in Processes :
           pending'[q] = IF q = p THEN pending[p] \ {r} ELSE pending[q]
      /\ stored' = stored \cup {r.thread} /\ created' = created
  BY <1>1 DEF Store, TypeOK
<1>3. TypeOK'
  BY <1>1 DEF Store, TypeOK, Or
<1>4. Known'
  BY <1>1, <1>2 DEF Known, TypeOK
<1>5. ASSUME NEW t \in Threads PROVE Follows(t)
  <2>1. \A q \in Processes : \A x \in pending'[q] : x \in pending[q]
    BY <1>2
  <2>2. Old(t)' => Old(t)
    BY <1>2, <2>1 DEF Old
  <2>3. ASSUME NEW s \in Slugs, Says(t, s)' PROVE Says(t, s)
    <3>1. t = r.thread /\ r.slug = s => Says(t, s)
      BY <2>3 DEF Says
    <3>2. CASE slug'[t] = s \/ s \in told'[t]
      BY <1>2, <2>3, <3>1, <3>2 DEF Says
    <3>3. CASE \E q \in Processes : \E x \in pending'[q] : x.thread = t /\ x.slug = s
      BY <2>1, <2>3, <3>3 DEF Says
    <3> QED BY <2>3, <3>2, <3>3 DEF Says
  <2> QED BY <2>2, <2>3 DEF Follows
<1> QED BY <1>3, <1>4, <1>5, FollowsKeeps

LEMMA NextInv == SInv /\ [Next]_vars => SInv'
<1> SUFFICES ASSUME SInv, [Next]_vars PROVE SInv'
  OBVIOUS
<1>0. Basics
  BY DEF SInv
<1>1. CASE UNCHANGED vars
  BY <1>1 DEF vars, SInv, Basics, TypeOK, Known, Sourced, Agreed, Says, Old
<1>2. ASSUME NEW p \in Servers, NEW u \in Users, NEW some \in SUBSET Threads,
             Read(p, u, some)
      PROVE  SInv'
  <2> DEFINE records == {RecordOf(t) : t \in some}
  <2>1. /\ some \subseteq stored /\ Begins(p, u, records) /\ created' = created
        /\ p \in Processes
    BY <1>2 DEF Read, Processes
  <2>2. \A r \in records : r \in Record /\ r.thread \in stored /\ r.slug = slug[r.thread]
    BY <1>0, <2>1, RecordIs
  <2> QED BY <2>1, <2>2, BeginsFacts
<1>3. ASSUME NEW p \in Servers, NEW u \in Users, NEW t \in Threads, Update(p, u, t)
      PROVE  SInv'
  <2>1. t \in stored /\ Begins(p, u, {RecordOf(t)}) /\ created' = created
        /\ p \in Processes
    BY <1>3 DEF Update, Processes
  <2> QED BY <1>0, <2>1, RecordIs, BeginsFacts
<1>4. ASSUME NEW p \in Scripts, NEW u \in Users, Claim(p, u)
      PROVE  SInv'
  <2> DEFINE some == {t \in stored : owner[t] = NONE}
             records == {[RecordOf(t) EXCEPT !.owner = u] : t \in some}
  <2>1. Begins(p, NONE, records) /\ created' = created /\ p \in Processes
    BY <1>4 DEF Claim, Processes
  <2>2. \A r \in records : r \in Record /\ r.thread \in stored /\ r.slug = slug[r.thread]
    BY <1>0 DEF RecordOf, Record, Basics, TypeOK, Or
  <2> QED BY <2>1, <2>2, BeginsFacts
<1>5. ASSUME NEW p \in Servers, NEW t \in Threads, Delete(p, t)
      PROVE  SInv'
  <2>1. /\ \A x \in Threads : slug'[x] = IF x = t THEN NONE ELSE slug[x]
        /\ stored' = stored \ {t} /\ UNCHANGED <<created, pending, reader, told>>
    BY <1>0, <1>5 DEF Delete, Basics, TypeOK
  <2>2. Basics'
    BY <1>0, <1>5, <2>1 DEF Delete, Basics, TypeOK, Known, Or
  <2>3. ASSUME NEW x \in Threads PROVE Follows(x)
    BY <2>1 DEF Follows, Old, Says
  <2> QED BY <2>2, <2>3, FollowsKeeps DEF SInv
<1> QED BY <1>1, <1>2, <1>3, <1>4, <1>5, MintKeeps, NormalizeKeeps, StoreKeeps
        DEF Next

\* Any number of servers may backfill, mint, update and delete while scripts
\* claim, all of them writing back what they read before: a thread goes by
\* one slug for ever, for every write that crosses another derives the same
\* slug from the id.  The attempts of two ids must not collide.
THEOREM LinksNeverChange == Spec => []LinksStayGood
<1>1. SInv => LinksStayGood
  BY SlugAssumption DEF SInv, Basics, TypeOK, Agreed, Says, LinksStayGood
<1> QED BY <1>1, InitInv, NextInv, PTL DEF Spec
=============================================================================
