----------------------------- MODULE ThreadSlugs -----------------------------
(***************************************************************************)
(* Session slugs: the short names that agent-threads-domain.ts mints for   *)
(* threads.  A new thread draws a random slug; a record stored before      *)
(* slugs existed is given one derived from its id by the first read, which *)
(* writes the whole record back.  Records older than membership have no    *)
(* owner until a script claims them.  Nothing is locked, and the web, the  *)
(* agent and the script share the store: each is caught between what it    *)
(* has read and what it is about to write, in pending.                     *)
(***************************************************************************)
EXTENDS Naturals, Sequences, Optional

CONSTANTS
  Users, Threads,
  Servers,      \* processes that serve principals: the web, the agent
  Scripts,      \* runs of claim-agent-thread-memberships.ts
  Slugs,
  RandomSlugs,  \* what createSlug() may return
  Candidates    \* deterministicSlugCandidate: the attempts for a thread id

Processes == Servers \cup Scripts

ASSUME SlugAssumption ==
  /\ RandomSlugs \subseteq Slugs
  /\ Candidates \in [Threads -> Seq(Slugs)]
  /\ NONE \notin Users \cup Slugs

\* The attempts of an id are its own and are never drawn at random: the code
\* accepts the collision of two digests as a residual.
Attempts(t) == {Candidates[t][i] : i \in DOMAIN Candidates[t]}

ASSUME NoSharedAttempt ==
  \A t \in Threads :
    /\ Candidates[t] # <<>>
    /\ Attempts(t) \cap RandomSlugs = {}
    /\ \A s \in Threads \ {t} : Attempts(s) \cap Attempts(t) = {}

VARIABLES
  stored,   \* the threads in the store
  owner,    \* the sole member of a record, NONE where members is missing
  slug,     \* its slug, NONE on a record older than slugs
  created,  \* ids that createId() has returned
  pending,  \* per process, the records it has read and is about to write
  reader,   \* for whom it normalizes them first, NONE for a script
  told      \* history: the slugs a thread was ever stored and shown under

vars == <<stored, owner, slug, created, pending, reader, told>>

Record == [thread : Threads, owner : Or(Users), slug : Or(Slugs)]

TypeOK ==
  /\ stored \in SUBSET created
  /\ owner \in [Threads -> Or(Users)]
  /\ slug \in [Threads -> Or(Slugs)]
  /\ created \in SUBSET Threads
  /\ pending \in [Processes -> SUBSET Record]
  /\ reader \in [Processes -> Or(Users)]
  /\ told \in [Threads -> SUBSET Slugs]

Idle(p) == pending[p] = {}

RecordOf(t) == [thread |-> t, owner |-> owner[t], slug |-> slug[t]]

-----------------------------------------------------------------------------
\* The slugs of the principal's threads, other than the thread at hand.
Taken(u, t) ==
  {slug[s] : s \in {s \in stored \ {t} : owner[s] = u}} \ {NONE}

\* Mutant: a backfill draws at random, as it did before Authz finding 2.
BackfillAtRandom(u, t) == RandomSlugs \ Taken(u, t)

\* mintDeterministicBackfillSlug: the first attempt that is free.
BackfillSlugs(u, t) ==
  LET free == {i \in DOMAIN Candidates[t] : Candidates[t][i] \notin Taken(u, t)}
  IN  {Candidates[t][i] : i \in {i \in free : \A j \in free : i <= j}}

Begins(p, u, records) ==
  /\ Idle(p) /\ records # {}
  /\ pending' = [pending EXCEPT ![p] = records]
  /\ reader' = [reader EXCEPT ![p] = u]
  /\ UNCHANGED <<stored, owner, slug, told>>

\* create() and fork(): mintUniqueSlug for a fresh id.
Mint(p, u, t, s) ==
  /\ t \notin created /\ created' = created \cup {t}
  /\ s \in RandomSlugs \ Taken(u, t)
  /\ Begins(p, u, {[thread |-> t, owner |-> u, slug |-> s]})

\* list(), get(), require() and getBySlug() normalize the records they have
\* read before they test membership: records without an owner, and those of
\* others.  A record with a slug is not written.
Read(p, u, some) ==
  /\ some \in SUBSET {t \in stored : slug[t] = NONE}
  /\ Begins(p, u, {RecordOf(t) : t \in some})
  /\ UNCHANGED created

\* update(): a member reads the record and writes all of it.  (One that finds
\* no slug is a Read and an update of what that has written.)
Update(p, u, t) ==
  /\ t \in stored /\ owner[t] = u /\ slug[t] # NONE
  /\ Begins(p, u, {RecordOf(t)})
  /\ UNCHANGED created

\* claimLegacyRecords: the entries are read at once and written one by one.
\* (That there is one user at the time is a matter of the caller.)
Claim(p, u) ==
  /\ Begins(p, NONE, {[RecordOf(t) EXCEPT !.owner = u] :
                        t \in {t \in stored : owner[t] = NONE}})
  /\ UNCHANGED created

\* normalizeThread mints the slug, against the slugs of that moment.
Normalize(p, r) ==
  /\ r \in pending[p] /\ r.slug = NONE /\ reader[p] # NONE
  /\ \A other \in pending[p] : other.slug = NONE
  /\ \E s \in BackfillSlugs(reader[p], r.thread) :
       pending' = [pending EXCEPT ![p] = (@ \ {r}) \cup {[r EXCEPT !.slug = s]}]
  /\ UNCHANGED <<stored, owner, slug, created, reader, told>>

\* The KV write: the whole record, whatever is stored by now.
Store(p, r) ==
  /\ r \in pending[p] /\ (r.slug # NONE \/ reader[p] = NONE)
  /\ stored' = stored \cup {r.thread}
  /\ owner' = [owner EXCEPT ![r.thread] = r.owner]
  /\ slug' = [slug EXCEPT ![r.thread] = r.slug]
  /\ told' = [told EXCEPT ![r.thread] = @ \cup ({r.slug} \ {NONE})]
  /\ pending' = [pending EXCEPT ![p] = @ \ {r}]
  /\ UNCHANGED <<created, reader>>

\* delete() by the owner: require() has given the record its slug first.
Delete(p, t) ==
  /\ Idle(p) /\ t \in stored /\ owner[t] # NONE /\ slug[t] # NONE
  /\ stored' = stored \ {t}
  /\ owner' = [owner EXCEPT ![t] = NONE]
  /\ slug' = [slug EXCEPT ![t] = NONE]
  /\ UNCHANGED <<created, pending, reader, told>>

\* Some records are older than slugs, and of these some older than members.
Init ==
  /\ created \in SUBSET Threads /\ stored = created
  /\ owner \in {o \in [Threads -> Or(Users)] :
                  \A t \in Threads \ stored : o[t] = NONE}
  /\ slug = [t \in Threads |-> NONE]
  /\ pending = [p \in Processes |-> {}]
  /\ reader = [p \in Processes |-> NONE]
  /\ told = [t \in Threads |-> {}]

Next ==
  \/ \E p \in Servers, u \in Users :
       \/ \E t \in Threads, s \in RandomSlugs : Mint(p, u, t, s)
       \/ \E some \in SUBSET Threads : Read(p, u, some)
       \/ \E t \in Threads : Update(p, u, t)
  \/ \E p \in Servers, t \in Threads : Delete(p, t)
  \/ \E p \in Scripts, u \in Users : Claim(p, u)
  \/ \E p \in Processes : \E r \in pending[p] : Normalize(p, r) \/ Store(p, r)

Spec == Init /\ [][Next]_vars
-----------------------------------------------------------------------------
\* "Minted once, never regenerated: titles mutate, links must not."  A thread
\* goes by one slug, whatever reads, updates, claims and deletes cross: also
\* where a claim writes a record back without the slug it has got meanwhile,
\* and where a stranger's read gives it a slug or brings back what was deleted.
LinksStayGood ==
  \A t \in Threads : \A s, other \in told[t] : s = other
=============================================================================
