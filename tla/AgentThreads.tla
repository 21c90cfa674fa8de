---------------------------- MODULE AgentThreads ----------------------------
(***************************************************************************)
(* The web service's conversation threads: the repository of               *)
(* agent-threads-domain.ts, the binding service that decides which home    *)
(* scope a thread runs under (agent-thread-bindings.server.ts) and the     *)
(* server functions that expose both (agent-threads.ts).                   *)
(*                                                                         *)
(* Every call is synchronous over the KV stores of one web process, so     *)
(* each server function is one atomic action.  What interleaves is tabs    *)
(* holding old revisions, several principals, and scope grants that come   *)
(* and go between calls.  Slugs are left to ThreadSlugs: domain lookups    *)
(* never use them.  members is always the singleton of its creator, or     *)
(* absent on records older than membership: it is the field owner here.    *)
(***************************************************************************)
EXTENDS Naturals, Optional

CONSTANTS
  Users,          \* principals
  Threads,        \* thread ids: createId() never returns one twice
  LegacyThreads,  \* ids of records stored before bindings and membership
  Workspaces,     \* workspace scopes
  Contexts,       \* sets of extra context scopes that a creation may name
  Models,         \* model presets the installation allows
  Titles, Options, Snapshots,   \* opaque contents of a thread
  MaxRevision     \* bound: no update of a thread beyond this revision

ASSUME ConstantsAssumption ==
  /\ LegacyThreads \subseteq Threads
  /\ Contexts \subseteq SUBSET Workspaces
  /\ Users \cap Workspaces = {}
  /\ NONE \notin Users \cup Threads \cup Workspaces \cup Models \cup Nat
  /\ MaxRevision \in Nat \ {0}
  /\ Titles # {} /\ Options # {} /\ Snapshots # {}

VARIABLES
  threads,     \* the thread store
  minted,      \* ids createId() has returned
  prefs,       \* each principal's preference record
  legacyPref,  \* the one preference record stored before membership
  grants       \* who may read which workspace now (scope grant registry)

vars == <<threads, minted, prefs, legacyPref, grants>>

\* The home of a personal thread is its owner's personal scope, written as
\* the owner.
Binding == [home : Users \cup Workspaces, context : SUBSET Workspaces,
            model : Or(Models)]

Revision == 1..MaxRevision + 2

Thread ==
  [owner : Or(Users), status : {"active", "archived"}, revision : Revision,
   workspace : Or(Workspaces), binding : Binding \cup {NONE},
   title : Titles, options : Options, runtime : Snapshots,
   forkedFrom : Or(Threads), seed : Revision \cup {NONE}]

Preference == [active : Or(Threads), focus : Or(Workspaces)]

ASSUME NoneIsNoRecord == NONE \notin Thread \cup Binding \cup Preference

TypeOK ==
  /\ threads \in [Threads -> Thread \cup {NONE}]
  /\ minted \in SUBSET Threads
  /\ prefs \in [Users -> Preference \cup {NONE}]
  /\ legacyPref \in Preference \cup {NONE}
  /\ grants \in SUBSET (Users \X Workspaces)

-----------------------------------------------------------------------------
\* Reads.

Owned(u, id) == threads[id] # NONE /\ threads[id].owner = u
LiveOf(u) == {t \in Threads : Owned(u, t) /\ threads[t].status = "active"}

ActiveId(u) == IF prefs[u] = NONE THEN NONE ELSE prefs[u].active
Focus(u) == IF prefs[u] = NONE THEN NONE ELSE prefs[u].focus

CanRead(u, w) == <<u, w>> \in grants

\* assertRevision: an absent expectation is never stale.
Fresh(id, expected) == expected \in {NONE, threads[id].revision}

\* Bound: an update starts below MaxRevision (rebindModel may add two).
Room(id) == threads[id].revision <= MaxRevision

\* What update() requires of every caller.
MayUpdate(u, id, expected) ==
  Owned(u, id) /\ Fresh(id, expected) /\ Room(id)

\* resolveCreation: the home a new binding gets; empty when it throws.
Homes(u, explicit, kind) ==
  LET w == IF explicit # NONE THEN explicit ELSE Focus(u)
      required == kind = "workspace" \/ explicit # NONE
  IN  {h \in Workspaces : kind # "personal" /\ h = w /\ CanRead(u, h)}
      \cup
      {h \in {u} : ~required /\ (kind = "personal" \/ ~CanRead(u, w))}

\* Mutant: the binding was authorized when it was made, so it still is.
AuthorizedOnce(u, b) == TRUE

\* assertBindingAuthorized, against the grants of this moment.
Authorized(u, b) ==
  /\ b.home = u \/ CanRead(u, b.home)
  /\ \A w \in b.context : CanRead(u, w)

Bump(r) == [r EXCEPT !.revision = @ + 1]

\* Mutant: bindLegacyThread without its early return for a bound thread.
MigratedAgain(u, id) ==
  {[Bump(threads[id]) EXCEPT !.binding =
      [home |-> h, context |-> {}, model |-> NONE]] :
     h \in Homes(u, threads[id].workspace, "any")}

\* bindLegacyThread: the record it returns; empty when it throws.
Migrated(u, id) ==
  LET r == threads[id] IN
    IF r.binding # NONE
      THEN {s \in {r} : Authorized(u, r.binding)}
      ELSE {[Bump(r) EXCEPT !.binding =
               [home |-> h, context |-> {}, model |-> NONE]] :
              h \in Homes(u, r.workspace, "any")}

NewThread(u, w, b, title, from, seed) ==
  [owner |-> u, status |-> "active", revision |-> 1, workspace |-> w,
   binding |-> b, title |-> title,
   options |-> CHOOSE o \in Options : TRUE,
   runtime |-> CHOOSE s \in Snapshots : TRUE,
   forkedFrom |-> from, seed |-> seed]

-----------------------------------------------------------------------------
\* Writes shared by the operations.

Put(id, r) == threads' = [threads EXCEPT ![id] = r]

SetActive(u, id) ==
  prefs' = [prefs EXCEPT ![u] = [active |-> id, focus |-> Focus(u)]]

\* update(): the record changes, everything else stays.
Update(u, id, expected, r) ==
  /\ MayUpdate(u, id, expected)
  /\ Put(id, r)
  /\ UNCHANGED <<minted, prefs, legacyPref, grants>>

\* Mutant: the active slot is forgotten.
HandoverForgotten(u, id) == prefs' = prefs

\* archive() and delete() hand the active slot to another live thread of the
\* principal, or clear it.  list() orders by updatedAt, so any may be first.
Handover(u, id) ==
  IF ActiveId(u) # id
    THEN prefs' = prefs
    ELSE \/ \E next \in LiveOf(u) \ {id} : SetActive(u, next)
         \/ LiveOf(u) \ {id} = {} /\ SetActive(u, NONE)

-----------------------------------------------------------------------------
\* Binding service.

Create(u, id, explicit, kind, context, model, title) ==
  /\ id \notin minted
  /\ \A w \in context : CanRead(u, w)
  /\ \E h \in Homes(u, explicit, kind) :
       Put(id, NewThread(u, IF h = u THEN NONE ELSE h,
                         [home |-> h, context |-> context, model |-> model],
                         title, NONE, NONE))
  /\ minted' = minted \cup {id}
  /\ SetActive(u, id)
  /\ UNCHANGED <<legacyPref, grants>>

\* ensureActive on a principal with no live thread.
EnsureFirst(u, id) ==
  /\ LiveOf(u) = {}
  /\ Create(u, id, NONE, "any", {}, NONE, CHOOSE t \in Titles : TRUE)

\* ensureActive on the others migrates the live threads in list order and
\* throws at the first it may not bind, keeping what it migrated before.
EnsureBound(u) ==
  LET refused == {t \in LiveOf(u) : Migrated(u, t) = {}} IN
  \E done \in SUBSET (LiveOf(u) \ refused) :
    /\ refused = {} => done = LiveOf(u)
    /\ \A t \in done : Room(t)
    /\ threads' = [t \in Threads |->
                     IF t \in done THEN CHOOSE r \in Migrated(u, t) : TRUE
                                   ELSE threads[t]]
    /\ UNCHANGED <<minted, prefs, legacyPref, grants>>

\* resolveExecution: opening a thread, minting its session binding.  Also all
\* that rebindModel leaves behind when it then refuses the preset.
ResolveExecution(u, id) ==
  /\ Owned(u, id)
  /\ \E r \in Migrated(u, id) : Update(u, id, NONE, r)

\* Mutant: the model changes under the same revision.
WithModelUnrevised(r, model) == [r EXCEPT !.binding.model = model]

WithModel(r, model) ==
  IF r.binding.model = model
    THEN r ELSE [Bump(r) EXCEPT !.binding.model = model]

\* rebindModel: a thread it has just bound is held to its own new revision,
\* whatever the caller expected.
RebindModel(u, id, model, expected) ==
  LET held == IF threads[id].binding # NONE THEN expected ELSE NONE IN
  /\ Owned(u, id)
  /\ \E r \in Migrated(u, id) : Update(u, id, held, WithModel(r, model))

\* Mutant: the repository's fork() called without migrating the source.
ForkUnmigrated(u, source, id, expected) ==
  /\ MayUpdate(u, source, expected)
  /\ id \notin minted
  /\ threads' = [threads EXCEPT
       ![id] = NewThread(u, NONE, threads[source].binding,
                         threads[source].title, source, 1)]
  /\ minted' = minted \cup {id}
  /\ SetActive(u, id)
  /\ UNCHANGED <<legacyPref, grants>>

Fork(u, source, id, expected) ==
  /\ MayUpdate(u, source, expected)
  /\ id \notin minted
  /\ \E r \in Migrated(u, source) :
       threads' = [threads EXCEPT
         ![source] = r,
         ![id] = NewThread(u, NONE, r.binding, r.title, source, r.revision)]
  /\ minted' = minted \cup {id}
  /\ SetActive(u, id)
  /\ UNCHANGED <<legacyPref, grants>>

-----------------------------------------------------------------------------
\* Repository operations the server functions call directly.

RebindWorkspace(u, id, w, expected) ==
  /\ Owned(u, id) /\ threads[id].binding = NONE
  /\ Update(u, id, expected, [Bump(threads[id]) EXCEPT !.workspace = w])

Rename(u, id, title, expected) ==
  Update(u, id, expected, [Bump(threads[id]) EXCEPT !.title = title])

SetRequestOptions(u, id, options, expected) ==
  Update(u, id, expected, [Bump(threads[id]) EXCEPT !.options = options])

\* A stale save of the snapshot already stored returns it unchanged, and so
\* takes no step.
SaveSnapshot(u, id, snapshot, expected) ==
  Update(u, id, expected, [Bump(threads[id]) EXCEPT !.runtime = snapshot])

ConsumeForkSeed(u, id, expected) ==
  /\ Owned(u, id) /\ threads[id].seed # NONE
  /\ Update(u, id, expected, [Bump(threads[id]) EXCEPT !.seed = NONE])

Archive(u, id, expected) ==
  /\ MayUpdate(u, id, expected)
  /\ Put(id, [Bump(threads[id]) EXCEPT !.status = "archived"])
  /\ Handover(u, id)
  /\ UNCHANGED <<minted, legacyPref, grants>>

Delete(u, id, expected) ==
  /\ Owned(u, id) /\ Fresh(id, expected)
  /\ Put(id, NONE)
  /\ Handover(u, id)
  /\ UNCHANGED <<minted, legacyPref, grants>>

SetActiveThread(u, id) ==
  /\ id = NONE \/ id \in LiveOf(u)
  /\ SetActive(u, id)
  /\ UNCHANGED <<threads, minted, legacyPref, grants>>

\* The server function checks that the focus is visible in the principal's
\* navigation, which does not imply that its content may be read; reading the
\* preference clears a focus that is visible no more.
SetActiveContainer(u, focus) ==
  /\ prefs' = [prefs EXCEPT ![u] = [active |-> ActiveId(u), focus |-> focus]]
  /\ UNCHANGED <<threads, minted, legacyPref, grants>>

\* The maintenance script, refused unless exactly one user exists.
ClaimLegacyRecords(u) ==
  /\ Users = {u}
  /\ threads' = [t \in Threads |->
                   IF threads[t] # NONE /\ threads[t].owner = NONE
                     THEN [threads[t] EXCEPT !.owner = u] ELSE threads[t]]
  /\ prefs' = IF prefs[u] = NONE
                THEN [prefs EXCEPT ![u] = legacyPref] ELSE prefs
  /\ legacyPref' = NONE
  /\ UNCHANGED <<minted, grants>>

\* The scope registries, seen from here: grants appear and are revoked.
GrantChange(u, w) ==
  /\ grants' = IF CanRead(u, w) THEN grants \ {<<u, w>>}
                                ELSE grants \cup {<<u, w>>}
  /\ UNCHANGED <<threads, minted, prefs, legacyPref>>

-----------------------------------------------------------------------------
LegacyThread ==
  {[NewThread(o, w, NONE, CHOOSE t \in Titles : TRUE, NONE, NONE)
      EXCEPT !.revision = 1] : o \in Or(Users), w \in Or(Workspaces)}

Init ==
  /\ threads \in [Threads -> LegacyThread \cup {NONE}]
  /\ \A t \in Threads : threads[t] # NONE => t \in LegacyThreads
  /\ minted = LegacyThreads
  /\ prefs = [u \in Users |-> NONE]
  /\ legacyPref \in {NONE} \cup [active : Or(LiveOf(NONE)), focus : Or(Workspaces)]
  /\ grants = {}

Expectation == Or(Revision)

BindingStep(u) ==
  \/ \E id \in Threads, w \in Or(Workspaces), context \in Contexts,
        kind \in {"any", "workspace", "personal"}, model \in Or(Models),
        title \in Titles :
       Create(u, id, w, kind, context, model, title)
  \/ \E id \in Threads : EnsureFirst(u, id)
  \/ EnsureBound(u)
  \/ \E id \in Threads : ResolveExecution(u, id)
  \/ \E id \in Threads, model \in Or(Models), e \in Expectation :
       RebindModel(u, id, model, e)
  \/ \E source, id \in Threads, e \in Expectation : Fork(u, source, id, e)

UpdateStep(u) ==
  \E id \in Threads, e \in Expectation :
    \/ \E w \in Or(Workspaces) : RebindWorkspace(u, id, w, e)
    \/ \E t \in Titles : Rename(u, id, t, e)
    \/ \E o \in Options : SetRequestOptions(u, id, o, e)
    \/ \E s \in Snapshots : SaveSnapshot(u, id, s, e)
    \/ ConsumeForkSeed(u, id, e)
    \/ Archive(u, id, e)
    \/ Delete(u, id, e)

PreferenceStep(u) ==
  \/ \E id \in Or(Threads) : SetActiveThread(u, id)
  \/ \E f \in Or(Workspaces) : SetActiveContainer(u, f)
  \/ ClaimLegacyRecords(u)
  \/ \E w \in Workspaces : GrantChange(u, w)

Next == \E u \in Users : BindingStep(u) \/ UpdateStep(u) \/ PreferenceStep(u)

Spec == Init /\ [][Next]_vars
-----------------------------------------------------------------------------
\* Properties.

\* The active conversation a principal returns to is always one of its own
\* live threads: archive(), delete(), fork() and setActive() each move the
\* preference and the thread in two writes to two stores.
ActiveThreadUsable ==
  \A u \in Users : ActiveId(u) # NONE => ActiveId(u) \in LiveOf(u)

\* A fork runs under the home scope of the thread it continues, whatever was
\* bound, migrated or rebound since (the source may be bound only by fork()).
ForkSharesHome ==
  \A t \in Threads : threads[t] # NONE /\ threads[t].forkedFrom # NONE =>
    LET s == threads[t].forkedFrom IN
    threads[s] # NONE =>
      /\ threads[s].binding # NONE /\ threads[t].binding # NONE
      /\ threads[t].binding.home = threads[s].binding.home

\* Workspace content stays where it is: a bound thread that records a
\* workspace is homed in that workspace, so rebinding cannot move the
\* transcript and migrating cannot rehome it as personal.
WorkspaceIsHome ==
  \A t \in Threads :
    threads[t] # NONE /\ threads[t].workspace # NONE /\ threads[t].binding # NONE
      => threads[t].binding.home = threads[t].workspace

Kept(t) == threads[t] # NONE /\ threads'[t] # NONE

\* Session identity: once bound, a thread's home and context scopes never
\* change while it exists; only the model may (setExecutionModel).
BindingIdentityStable ==
  [][\A t \in Threads : Kept(t) /\ threads[t].binding # NONE =>
       /\ threads'[t].binding # NONE
       /\ threads'[t].binding.home = threads[t].binding.home
       /\ threads'[t].binding.context = threads[t].binding.context]_vars

\* A revision names one state of the record: whatever an operation changes,
\* its revision grows, so no two tabs hold different contents under the same
\* expected revision.  (Claiming ownerless records is the one exception.)
ChangeMovesRevision ==
  [][\A t \in Threads :
       Kept(t) /\ threads'[t] # threads[t] /\ threads[t].owner # NONE
         => threads'[t].revision > threads[t].revision]_vars

\* A thread acquires a workspace home only while its owner may read that
\* workspace, also when a fork inherits it after the grant was revoked.
HomeAuthorizedWhenBound ==
  [][\A t \in Threads :
       /\ threads'[t] # NONE /\ threads'[t].binding # NONE
       /\ threads[t] = NONE \/ threads[t].binding = NONE
       => LET b == threads'[t].binding IN
          b.home = threads'[t].owner \/ CanRead(threads'[t].owner, b.home)]_vars

\* A principal's call never touches another principal's conversations.
PrincipalsApart ==
  [][\A u \in Users : BindingStep(u) \/ UpdateStep(u) =>
       \A t \in Threads :
         threads[t] # NONE /\ threads[t].owner # u
           => threads'[t] = threads[t]]_vars

=============================================================================
