# TLA+ verification of sigil-chat

sigil-chat is an agentic chat application of two services: `apps/web` (TanStack
Start: authentication, conversation threads, the web's repositories) and
`apps/agent` (the Eve host: model sessions, application tools, project and
workspace registries). Both mount the same application repositories over one
data directory, so part of the state is shared by two operating-system
processes with no server between them. The stores are Mirk key-value stores
over sqlite, or directories of Markdown files.

The specifications here follow the code, not the product documents. A document
or a comment appears only where it is quoted next to a property.

## 1. Inventory

| Part (source) | State | Operations | Talks to | What is hard |
|---|---|---|---|---|
| Conversation threads, `web/lib/agent-threads-domain.ts`, `agent-thread-bindings.server.ts`, `agent-threads.ts` | thread records (owner, status, revision, workspace, binding, fork, runtime snapshot), one preference per principal, one ownerless legacy preference | create, list/ensureActive, fork, rename, options, snapshot, archive, delete, rebind model or workspace, resolve execution, set active thread or focus, claim legacy records | scope grants of the agent; sessions | tabs with old revisions; records migrated by whoever reads them first; grants revoked between calls; two stores written by one call |
| Thread slugs, same file 352-440, 792-839 | slug and owner per thread, both missing on old records | mint, backfill on read, update, delete, claim by a script | other processes on the store | records are read, then written back whole without a lock; a reader need not be a member |
| Realtime voice host, `agent/lib/realtime-voice.ts` | `#live`, `#pending`, codex child processes | start, stop | the SDK's client | both suspend half-way; requests overlap |
| Work-items repository, `work-items-store/src/mirk-repository.ts` | story files, sidecar files, an index with the revision | get, the mutations of the document through `runExclusive` | both services; git | one mutation is many awaited file writes; sidecars are renamed away meanwhile; crashes; reads beside the queue |
| Work-items operations, `operations.ts`, `repository.ts`, handlers in `web/lib/work-items.ts` | the roadmap document (its history only in the memory repository of the tests) | upsert stories and boards, transition, review, comment, propose, add evidence, sponsor | browser caches, agent tools | whole records sent back from old copies; ids numbered from what is there; decisions taken on a document read earlier, in parts |
| Project registry and record lock, `agent/lib/project-registry.ts` | project records, a lock file per record | get, list, upsert, slug backfill | web and agent, tools | stale locks; nested acquisition; ids and slugs in one namespace |
| Workspace registry, `workspace-registry.ts` | workspace records | the same, under a project | projects | the parent is checked before the lock |
| Scope links, graph and reach, `scope-link-registry.ts`, `scope-graph.ts`, `agent-reach-policy.ts` | links between scopes, audit records | create, update, remove, list, traverse, candidates of an agent's reach | registries, boards, reach | cycles by changing links; the death between a link and its audit record; the order of a walk over a diamond |
| Scope grants and authorization, `scope-grant-registry.ts`, `scope-authorization.ts` | grants | grant, revoke, authorize | tools, threads | revocation against work in progress |
| Eve sessions, `eve-session-owners.ts`, `eve-session-binding.ts`, `eve-auth.ts` | owner of each session | bind, resolve, forget | web proofs | first bind wins; read-back |
| Artifact store, `artifact-store/src/repository.ts` | manifest per scope, blobs, lock directory with an owner file | put, remove, read | both services | lease, heartbeat, recovery of a lock by rename; holders that sleep past their lease |
| Review store, `review-store/src/repository.ts` | documents, passages, annotations, history | edit, annotate, decide, accept | tools, web | compare-and-set over several rows |
| Auth invites, `web/lib/auth/invites.server.ts` | invites | create, redeem, revoke | sqlite | redeemed once |
| Graph and graph store, `graph/src/document.ts`, `graph.ts`, `execution.ts`, `graph-store/src/repository.ts`, `web/features/studio/reducer-data.ts`, `agent-tools/src/graph.ts` | one document with its history in sqlite; the cache of each tab | apply a batch, plan, undo, run; optimistic commands, polling | studio tabs, tools | a plan is awaited between reading and writing; caches run ahead of the store; batches valid apart and not together |
| Blackboard store, `blackboard-store/src/mirk-repository.ts` | one document per session with its revision | read, write with an expected revision | tools | a lock directory that is left behind |
| Agent coordinator, `web/lib/agent-coordinator.ts` | queue, turn in flight, remembered keys, the steering flag, idle waiters | delegate, steer, notifySessionIdle, whenIdle | the session port (send, cancel, deliver, isBusy), other surfaces | a steer awaits an acknowledgement and then a turn; the pump must be called again; replays |
| Participant channel and progress, `agent-participant-channel-runtime.ts`, `coordinator-progress.ts` | projections of the coordinator | subscribe, project | browser, agent | late answers |
| Event retention, `agent-event-retention.ts` | the events kept of a session | compact | threads | nothing a later turn needs is dropped |
| Usage ledger, `usage-ledger.ts` | usage rows | record | hooks | a step counted once |
| Settings, model discovery, memory, contracts, user interface, scripts, deployment | configuration or rendering | | | little shared state |

What makes each correct: *threads* - a principal returns to a live conversation
of its own, content stays under the home it was created in, a stale tab never
wins, principals are apart; *slugs* - a link stays good; *voice* - one call, no
process left behind, a call ended by its owner only; *work items* - what was
acknowledged stays, a stale writer is refused, a mutation happens at once or
not at all; *the document* - a revision names one content, ids never clash, a
decision is taken once and by whom it belongs to; *registry* - one winner of a revision race, slugs unique and stable,
the lock excludes and never blocks its own holder;
*coordinator* - one turn at a time, every request answered once or dropped for a
newer one; *artifacts* - no manifest entry is lost and a lock whose holder died
is recovered; *scope links* - no cycle of one kind, an audit trail that
replays, a walk that is what the links say; *graph* - what is stored can be
run, a batch takes effect at once or not at all, on the document its caller saw.

## 2. Modules

| Module | Models |
|---|---|
| `AgentThreads` | repository, binding service and server functions of conversation threads |
| `AgentThreadsProofs` | theorems about it |
| `ThreadSlugs` | slugs minted, backfilled, written back, claimed and deleted by processes that share the store |
| `ThreadSlugsProofs` | theorems about it |
| `RealtimeVoice` | start() and stop() of the voice host, cut at their awaits |
| `VoiceSlot` | abstract: a slot taken, published, given back |
| `MirkWorkItems` | the file-by-file repository with its queue, reads and failures |
| `WorkItemsStore` | abstract: one document, each mutation atomic, and what one leaves that is refused or cut off |
| `WorkItemsDocument` | the operations on the roadmap document, sent by clients with copies they read in parts |
| `WorkItemsProofs` | theorems about the document and about the directory, with the refinement |
| `RecordLock` | the lock file protocol |
| `ProjectRegistry` | the registry under that lock (extends `RecordLock`) |
| `ProjectRegistryProofs` | theorems about both |
| `AgentCoordinator` | delegate(), steer(), the pump and the queue, cut at their awaits |
| `TurnDesk` | abstract: each request gets one turn or is dropped for a newer one |
| `AgentServiceProofs` | theorems about the voice host and the coordinator, with the refinements |
| `ArtifactStore` | putFile() and removals under the directory lock, with its recovery |
| `ArtifactStoreProofs` | theorems about it |
| `ScopeLinks` | links and their audit trail, written by processes that may die |
| `ScopeTraversal` | the walk over the links and the reach built on it (extends `ScopeLinks`) |
| `ScopeLinksProofs` | theorems about the links, the walk and the reach |
| `GraphDocument` | the commands of the graph, what a plan requires, the order of execution |
| `GraphStore` | the store with the studio's tabs and the agent as its callers (extends `GraphDocument`) |
| `GraphDesk` | abstract: a document, each batch and undo atomic |
| `GraphStoreProofs` | theorems, with the refinement |
| `Optional` | values that may be missing |
| `MC*` | constants that a configuration file cannot write |

Composition: `ProjectRegistry` extends `RecordLock` and interleaves its own
steps under it. `RealtimeVoice` instantiates `VoiceSlot` and `MirkWorkItems`
instantiates `WorkItemsStore`, `AgentCoordinator` `TurnDesk` and `GraphStore`
`GraphDesk`, each with a refinement mapping. The definitions of `RealtimeVoice` and
`MirkWorkItems` that would clash with those of a module proved beside them carry a
prefix (`HostNext`, `FilesNext`). `ScopeTraversal` walks over every
state of the links that `ScopeLinks` reaches, and `GraphStore` composes the store
with its two kinds of callers. In
`AgentThreads` the scope grants of the agent are an external action,
`GrantChange`.

Definitions whose comment begins with "Mutant" are deliberately wrong variants
of the definition that follows. They are never part of a specification; they
record which mistake in the code each property would notice.

### State and actions against the code

**AgentThreads.** Server functions run synchronously over sqlite, so each is one
action, with everything it writes: `Archive` and `Delete` include the handover of
the active thread, `Fork` the migration of its source and `EnsureBound` that of
every live thread. `threads` is the thread store, `prefs` and `legacyPref` the
preference store, `minted` the fact that `createId()` never repeats. Titles, request
options and runtime snapshots are opaque. An operation that throws takes no step.
Expected revisions are arbitrary, which covers every tab with an old copy.

**ThreadSlugs.** `pending` holds, per process, the records it has read and is about to
write: `Mint`, `Read`, `Update` and `Claim` fill it, `Normalize` gives a record its
slug against the slugs of that moment, `Store` writes it, whatever is stored by then.
`reader` is the principal the records are normalised for: any one, because a read
normalises before it checks membership. Records older than membership have no owner;
`Claim` is `claimLegacyRecords`, which reads them all and writes them one by one. The
random draw and the derived attempts are constants, and `NoSharedAttempt` says that
the attempts of two ids do not collide: they are digests, whose collision the source
accepts as a residual.

**RealtimeVoice.** Each stretch between two awaits is one action. `Start` ends where
`client.start()` is awaited; `StartResolves` and `StartFails` are its two
continuations; `StopLive` and `StopSettles` are the two halves of stop(), and
`CancelPending` is the half that never suspends. Whether `dispose()` settles the
pending calls of a client before the event loop turns is a constant, `Prompt`:
that code is the SDK's.

**MirkWorkItems.** What a file says is abstracted to the set of mutations it
reflects. A read (`Reading`) is stories, then revision, then sidecars, and it leaves out
the stories whose files it finds empty (`gone`); a client's read is not queued, and
leaves out the sidecars, which no client sends back. A write is hide, put, restore,
sidecars, index, an action per file, with `Truncate` and `Rewrite` for a `writeFile`
that empties its file first: on a sidecar, and on a story whose hand-written layout is
put back after its put. (The layout takes two such writes, mirk-repository.ts:616-618
and `restoreFrontmatterOrder`; they are one here, since both write what is
there.) An upsert brings the story of a client's copy, of any age, and the revision of
that copy or none; `Apply` refuses a stale one. Two sets record the past for the
properties: `base` and `upto` of a read, what had been answered at its two moments, and
`overlooked`, what an accepted upsert could not know of. Failures are a put the store
refuses, a write that fails half-way and the death of the process; `Failures` says which
of them may come together.

**WorkItemsDocument.** One action per exported mutation of `operations.ts`. `seen` is
the copy each client holds. A client that commits has the new document; a client that
reads has the stories at once and the revision, the reviews, the boards and the
decisions each an await later (`ReadStories`, `ReadOneMore`; `at` is the part it reads
next, `since` the revision its stories were read at). Any client may send any
operation with the revision of its copy or with none. A refused operation takes no
step. `UpsertStory` takes a whole record: one an agent wrote (`Written`), or a changed
copy (`Edited`), its old revision included; the evidence in it may be any list of
`EvidenceSent`, one with an id twice among them, since nothing in the code looks.
`DecideSponsorship` is the web's handler: its sponsor check and its numbering use
the copy, its write the document. FR.n and evidence-n are the number n; the ids of
comments and sponsorship decisions are fresh UUIDs and, like the ids of reviews,
are given by position. The similarity of titles is a constant relation, `Similar`. The
history is left out: `MirkWorkItemsRepository` keeps none (mirk-repository.ts:465).

**RecordLock, ProjectRegistry.** Each file-system call and each KV call is one
action. `Inspect` is the verdict of `reapStaleLock` and `Reap` its `rmSync`,
which removes whatever is under the path by then. `step` follows an operation
through upsert: `ReadCurrent`, perhaps `Mint` and `PutSlug`, `Check`, `Put`,
`ReadBack`, perhaps `Mint` again. The nested read runs under the lock already
held. Members and settings are opaque, and the tool handlers that call the registry
appear as the inputs of `Upsert`.

**AgentCoordinator.** One action per stretch between two awaits. `Steer` ends where
`cancel()` is awaited; `CancelAccepted` and `CancelRefused` continue it, the first to
the wait for the cancelled turn (`draining`), the second back to the front of the
queue; `Deliver` and `Delivered` are the two ends of the delivery. `Pump` is part of
every action after which the code calls it. The session port is external: it answers
when it likes, and `OtherStarts` and `OtherEnds` are turns of other surfaces. A
steer that fails to cancel puts its request back in front although the queue is
full, so the queue may exceed its capacity by one: so it is in the code.

**ArtifactStore.** Each file-system call of `acquireDirectoryLock`, the lease and the
recovery is an action, in the order of the code: make the directory, write the owner
file, read the manifest, refresh, put, rename the owner file, rename the directory.
A waiter observes, claims by a rename, verifies what it has claimed against what it
has observed, and moves the directory. `dir` is the directory under the path, with
its inode; `seen` is the manifest a holder has read; `look` what a waiter has
observed. Time is two facts, an owner file that is `old` and a holder that sleeps:
`OwnerAges` applies to a dead process or one that is at a place named in
`Stalls`.

**ScopeLinks, ScopeTraversal.** `create()`, `update()` and `remove()` decide upon the
links they read, then write the link, then its audit record: three actions, with a
death between any two. `TraverseScopeLinks` is the breadth-first walk with its
sorting, `Candidates` the growing list of `resolveCandidateScopeIds`, both as
functions over the links. Of the walk only the list it returns is kept, each scope
with its depth: what turn `n` takes from the queue is the `n`-th found (`Expand`), and
the scopes seen are those found. The inner loop, which skips a scope that an
earlier link has just added, is the choice of the first link to each new scope
(`Discovering`). Link ids are numbers, compared as `localeCompare` compares strings, and
sorting is stated by rank. Times are left out: records of one millisecond are listed
by a random id.

**GraphDocument, GraphStore.** `Refuses` and `Reduced` are `reduceGraphDocument`, `Valid`
what `planGraphCommands` asks of the result, `TopologicalSort` the recursive visit:
`Sorting` is what it changes (the order so far, whether it met a cycle), `VisitAll` its
loop over a list of nodes, and the nodes being visited are an argument of the call. A
label or a position is a `look`, so that a `node.update` of a label only is a
`node.move` here. `Read` is the loop of `applyBatch()` up to the end of the awaited plan,
`Commit` the transaction, `Undo` all of undo(). `calls` are the calls under way with
the document their caller had; `cache` is the query cache of each tab, written by
`Send` before the answer, by `Succeeds`, `Fails` and by the poll, whose answer may be
late. Answers may be lost (`Fails` on an accepted call).

## 3. Runs

| Run | Instance | Shows |
|---|---|---|
| `threads` | one principal, a legacy and a new thread, one workspace, one model, revisions to 2 | usable active thread, one home for a fork and its source, stable bindings, revisions that move, authorised homes |
| `slugs` | two servers and the claiming script, two principals, two threads, records without slug and without owner | a thread goes by one slug |
| `voice` | two owners, four negotiations, two waiting stops each | no process stranded, stranded ones disposed, calls ended by their owner, refinement of `VoiceSlot` |
| `mirk` | one process, one client, two stories, one of them with a layout to restore, two sidecars; an assignment, a saved board that puts all stories, an upsert of a cached story; one failure | no lost update, revisions, answers, refinement of `WorkItemsStore` |
| `document` | two clients that read in parts, a seeded story with an open review, a feature request with two pieces of evidence and a sponsor, agents that write FR.3, evidence dropped or sent twice, two titles, revisions to 2 | copies current by revision, distinct ids, order and authority of sponsorship decisions, reviews decided once |
| `registry` | web and agent, two records (one legacy), one name whose slug is the other's id, revisions to 2, the web may die anywhere | exclusion, one winner, operations end |
| `registry_reap` | the web, the web restarted, the agent | **violated**: two waiters remove the lock of a dead holder, and two updates win |
| `coordinator` | four requests, a queue of two, all keys remembered, two turns of other surfaces, one steer at a time | one turn at a time, refinement of `TurnDesk`, every request ends, idle waiters are told |
| `coordinator_steer` | the same with overlapping steers | **violated**: two turns of the coordinator run together |
| `artifacts` | three processes, one operation each (an upload or the removal of one artifact), two deaths, sleeps past the lease while reading or before the refresh | no manifest entry lost, waiters get on |
| `scopes` | one process, three scopes (symmetric), two kinds (symmetric), three links, three changes, one death | no cycle, the audit replays, the walk and its order, the reach |
| `graph` | one tab and the agent, three calls of which two at a time, a history of one | stored graphs valid, sort correct, refinement of `GraphDesk`, acceptance over what was seen, every call answered |

Seven more configurations are kept beside these. Each states one property that TLC
finds violated; they record the limits under which the properties above hold:

| Configuration | Instance | What is violated |
|---|---|---|
| `MCMirkWorkItemsTorn` | a transition and an upsert, a reader beside the queue | `StaleCopyRefused`: a copy read in two halves is accepted |
| `MCMirkWorkItemsShared` | two processes on one directory | `NoLostUpdate`: an acknowledged change is lost |
| `MCWorkItemsDocumentTorn` | two clients, reads in parts | `SponsorDecidesAlways`: a handler that read the stories before a commit and the revision after it records the decision of a sponsor who was replaced |
| `MCProjectRegistrySlugs` | web and agent, two records, no faults | `SlugsDistinct`: a slug equals another project's id |
| `MCScopeLinksTwo` | two processes, two links | `Acyclic`: two harmless links close a cycle |
| `MCArtifactStoreTwoDeaths` | three processes, up to two operations each, two deaths | `NoLostArtifact`: a live lock directory is moved away under its holder |
| `MCGraphStoreHasty` | a tab that sends before its last call is answered | `AcceptedOverSeen`: a revision only the tab gave out comes to name another document |

`TypeOK` of each module holds on the instances above. It is not listed among the
properties of the runs, which are about what could go wrong; where a module has proofs
it is part of the inductive invariant.

Deadlock is checked in `document`, where a client can always read again. It is not in
the other runs: those systems may stop, when all requests of the bounded
instance have been made.

### Bounds and why they are enough

- Two threads are the least in which a fork and its source, or an archived
  thread and its successor, exist together; revision 2 is the least at which a
  stale expectation differs from a fresh one after a migration. The bound is on
  the revision *before* an update; `rebindModel` may add two.
- Two servers and the script give every order of two backfills of one record, an
  update and a claim. Of two threads one is minted while the other is backfilled; more
  would only add attempts, which do not collide.
- Four negotiations allow a renegotiation by each owner while one of the other
  is displaced; `MaxStops` 2 gives overlapping stops of one call.
- Two stories are what a put refused between two needs, with a mutation that
  puts both; one of them has its layout restored, the other has not. A mutation of a
  story and a sidecar, one of a sidecar, and an upsert exercise every file order of a
  write, every point of a concurrent read, and copies of every age. Every mutation
  happens at most once, so its presence in a file is a bit. One failure is let happen in
  a behaviour; all three kinds together were checked on the instance without the upsert
  and on one with a single story and no board.
- Two commits are a sponsor replaced between the two halves of a read, and the decision
  taken on it; a decision in one tab and a second from another; and an id given out
  and the clash with it (FR.3 beside FR.1, or evidence 1 dropped and evidence added). A
  third client would only hold one more old copy, and every property speaks of one
  copy at a time. `MaxNumber` is above every number that two commits can give out, and
  `MaxEvidence` lets a proposal come with evidence or without.
- Two records are what a slug clash needs. Two processes and one death give a holder, a
  waiter and a stale lock; the third process of `registry_reap` is the second
  waiter. With two processes alone, exclusion survives the death of one.
- `Slow = FALSE`: no operation lasts the minute after which its lock counts as
  stale. They are synchronous calls on local files (the code enforces that
  they are synchronous); with `Slow` the lock does not exclude, by design of
  its age limit.
- Four requests are one in flight, two in a queue of two, and one more that
  overflows it or steers. `Memory` is the number of requests: with less, a late
  replay is a second turn, which the source accepts. Two turns of other surfaces
  give one before and one after a steer.
- Three processes are a dead holder and two waiters that judge its lock, the
  least in which a claim can hit the lock of a successor. Two deaths are a holder
  and the one that was recovering its lock; after them, a second operation of somebody
  can lose an update (`MCArtifactStoreTwoDeaths`), so the run gives each process one,
  and the theorem, for any number of operations, allows one death. Sleeps are limited to
  "read" and "refresh" (`Stalls`): the manifest write is not fenced, and lock files
  are renamed by path, so a holder that sleeps past ten seconds within one of the
  other short stretches does lose an update, and TLC shows it. The run
  claims no more than the code does.
- Three scopes and three links are the least cycle that is not a pair, with a
  diamond and a link of the other kind; an order of two values makes orders collide.
- Two calls under way are a plan and its overtaker, a third call is the undo or
  the second overtaker. A history of one is reached, and cut, by two batches.
  The catalog has a reducer that needs its input and one that does not, so that
  the removal of an edge can make a document unfit.

### Fairness

- `RealtimeVoice`: the SDK settles each `client.start()`. No code in the host
  bounds the wait, so this is an assumption on the SDK, used only by
  `StrandedIsDisposed`. Nothing is assumed of stop() or of callers.
- `MirkWorkItems`: a process at an await resumes (the event loop runs on).
  `HeadIsAnswered` uses it. Clients and failures are not fair.
- `ProjectRegistry`: a living process runs on under the lock and its wait loop
  ends, with the lock or at its deadline. `OperationEnds` uses it. Deaths and
  ageing are not fair.
- `AgentCoordinator`: the session port keeps its contract (send, cancel and deliver
  settle) and the host announces the end of other turns (`notifySessionIdle`), and
  only that: the coordinator's own turns must drain by themselves. Callers are not
  fair. `EveryRequestEnds` and `IdleIsTold` use it.
- `ArtifactStore`: a living process goes on, time passes. Nobody has to give up,
  die or be restarted. `WaitersGetOn` uses it.
- `GraphStore`: a call goes on to its answer (event loop, and plans that end).
  `EveryCallAnswered` needs `MaxRequests` too: `applyBatch()` has no limit to its
  rounds, so a call can be overtaken for as long as others write.

The thread and scope models state no liveness: their calls do not wait.

## 4. Disagreements between the code and what is said of it

Shown by a run of the list:

1. A stale lock is removed by path after the verdict; two waiters can both
   enter (`registry_reap`).
2. A `steer()` whose cancel is refused lowers the flag that an earlier `steer()` still
   holds up while it waits for the cancelled turn. Once that turn has ended, the pump
   sends the later request from the queue and the earlier steer delivers its own beside
   it (`coordinator_steer`), where the source says "Never a concurrent send".

Shown by the configurations beside the list:

3. `get()` of the Mirk repository reads stories and revision at different
   times, beside the queue, so an upsert of the copy can overwrite what its
   revision claims to include; `docs/specs/AGENT-REACT-QUERY-STATE-SPEC.md:454`
   speaks of atomic conflict checks.
4. Two processes on one work-items directory lose an acknowledged change: the
   queue is per instance, and `mirk-repository.test.ts:178` promises the refusal of
   a stale writer across instances.
5. A slug minted under one record's lock can be the id of a project
   created under another's; `project-registry.ts:43-44` says globally unique.
6. Two processes can close a cycle of scope links, each link harmless
   (`docs/specs/SCOPE-COMPOSITION-AND-SCOPED-WORK-SPEC.md:239-240` asks for acyclic
   kinds). Today only a seed script creates links.
7. After two deaths the lock of the artifact store can admit two holders. One process
   dies with its new lock directory still without an owner file; two waiters observe
   that. One recovers it, makes a new directory and holds the lock; the other writes
   its recovery claim by path, hence into the new directory
   (`repository.ts:607-627`), and dies; a third waiter finds that claim stale and
   renames the live directory away. `repository.test.ts:58` speaks of serialized
   writes across instances.
8. A tab of the studio that sends a second command before the first is answered
   names a revision of its own making. If the first is refused and somebody else's
   change takes that number, the second is accepted over a document the tab never
   showed. Nothing in the code keeps a tab from it.

9. `decideSponsorshipFn` checks the sponsor on the stories of a `get()` and records
   under its revision, which `get()` reads an await later: the decision of a sponsor who
   was replaced between the two is recorded. `work-items-access.server.test.ts:242` says
   "lets only the authenticated proposed sponsor decide" (`MCWorkItemsDocumentTorn`).

Further behaviours the models contain, with no property stated: `rebindModel` of a
thread it has just bound ignores the revision its caller expected, where
`fork` refuses; creating the same project id twice replaces the first creation
without moving the revision;
a thread without a workspace is migrated to the workspace in focus; a record that the
script claims can be written back without an owner by whoever had read it before, so
that the script must be run again, and a deleted thread can come back that way; a
feature request can come to hold one evidence id twice, from an upsert; a death
while sidecars are hidden loses them from sight, and one while a story's layout is
restored leaves that story empty; the cache of a tab goes back to an
older document when answers come out of order, until the next poll; an undo of the
agent that names no revision takes back whoever's change is last; while a
mutation of the Mirk repository is under way the revision reads as 0; an operation
under the record lock that lasts a minute loses it; a negotiation of the voice host
that never settles keeps the slot.

## 5. Proofs

TLAPS checks these for all values of the constants that satisfy the
assumptions named in the modules.

**AgentThreadsProofs.** The inductive invariant is `Inv`: `TypeOK`, every stored
thread was minted (so that a fresh id is not one some fork names as its
source), the legacy preference names a live ownerless thread (so that claiming legacy
records keeps the preference usable), and the three properties themselves. From
it `TypeCorrect`, `ActiveThreadAlwaysUsable`, `WorkspaceContentStaysHome`,
`ForkAlwaysSharesHome`, and the action properties `BindingNeverMoves`,
`PrincipalsStayApart` (which needs that a fresh id is stored under no owner) and
`HomesAreAuthorized` (every operation that binds goes through `Authorized`, so the
grants of that moment are known). The step lemma has one case per operation.
`RevisionsNameContents` (the property `ChangeMovesRevision`) goes operation by
operation: whatever an operation writes is the record as it was, or has a later revision
(`Moved`), migration on the way included (`MigratedMoves`); the one exception is the
claim of an ownerless record.

**ThreadSlugsProofs.** For any number of servers and scripts. The invariant is `SInv`: the
types; every record, stored or about to be written, is of a created thread (`Known`);
its slug was drawn or is an attempt of its own thread (`Sourced`); and all records of a
thread carry one slug, which is the first attempt as long as one of them, stored or
in flight, has none (`Agreed`). The first attempt is free for whoever reads
(`FirstAttempt`), because attempts of two threads do not collide (`NoSharedAttempt`), so
that every backfill of a thread finds the same slug, whatever the reader sees; and no step
brings a record without a slug back once there is none (`Follows`). Hence
`LinksNeverChange`.

**AgentServiceProofs, voice host.** `Inv` adds to the properties: a client in use was created
by someone, a published client has settled its start(), and under `Prompt` a
stop() waits only on the call that is live.
`NeverStranded`, `AlwaysOneCall` and `HostImplementsSlot` (initial states map to
initial states, steps to steps or stutters of `VoiceSlot`) hold for both values
of `Prompt`; `CallsEndByOwner` assumes `Prompt`. Without it, a stop() that
settles late disposes of whatever call is live then.

**WorkItemsProofs, the document.** `Inv` is `TypeOK`, `IdsUnique`, `LatestDecisionIsLast`
and what is known of a copy, finished or half read: its stories precede the stored ones
(`StoriesCurrent`), and what was read of it after its revision is current while that
revision is (`PartsCurrent`). Every operation is shown to commit a document that has
grown from the current one (`Grown`: stories keep their place and id, and one that
changed has its next revision), that keeps decided reviews (`ReviewsSettled`) and whose new
sponsorship decisions fit (`Sponsored`); `CommitInv` then needs no case per
operation. The write of the sponsorship handler is accepted only under the revision it
read, so the decisions it numbers against are the stored ones even in a torn copy, and its
stories are too unless a commit came between the two. All properties of the run are
theorems, for any clients, ids, titles and evidence. The assumptions are on constants
only: the document a repository is opened on has distinct ids.

**WorkItemsProofs, the directory.** `FilesInv` (`FilesTypesHold`) is the types with
`Orderly`: which files are still to be read or written at each stage, and that a story
is absent only while its layout is restored; it holds for any processes and failures.
The rest is for one process, since two lose changes (`MCMirkWorkItemsShared`), and for any
files, mutations, clients, upserts, layouts and failures. `Placed` says where the
sidecars are at each stage of a mutation, `Counted` that the index is the number of
answered mutations: `RevisionsCount`. `Said` is that the document a mutation reads is
what the files say, and that its files come to say the next one by one (`Faithful`,
`Reached`), where a file "says" what is in it, in its hidden copy and in the document of
the write that has it open (`Held`).

`AcksAreKept` adds `Kept`. Every copy of a client is `Good`: it says of the mutations
answered before its stories were read what the files said, and its number counts the
mutations answered when the number was read. What an operation is about to write
reflects all that was answered, but for what an upsert overlooked (`Grounded`). The
crucial lemma is `UpsertKnows`: while nothing has failed, if an upsert names a revision
and is accepted, as many mutations had been answered when its revision was read as
now, hence the same; so it overlooks only what was answered between the two halves of
its read. That much it does overwrite (`MCMirkWorkItemsTorn`), as does an upsert without a
revision, or with one that a refused put has brought back.

For `RoadmapIsAStore` a mutation enters the abstract document when the index is written
(`WriteIndex` is `Mutate`). A refused put is `Refuse`: the stories already put keep the
mutation that nobody was told of. A failing write and a death are `CutOff`: besides,
the hidden sidecars may be gone, and the one story or sidecar that was open. Everything
else is a stutter.

**ProjectRegistryProofs.** `TypeCorrect` needs nothing but `TInv`: the types and
`Located`, where each operation is. `LocksExclude`, `RevisionRaceHasOneWinner` and
`SlugsNeverChange` assume `SafeToReap`: no operation lasts a minute, and either no
process dies or there are just two processes, of which either may die wherever it is.
Run `registry_reap` shows that more cannot be said: with a dead holder and two waiters
exclusion fails. `LockKept` says that a living process that opened a lock file finds
its own under the path, and that only the file of a dead process is old or about
to be removed. A removal then hurts nobody, because whoever finds a dead holder is
alone (`NobodyDead`). `Known` says that a living process past its read has in hand
the record as stored, and after its check the revision its caller named; it is
kept because another process that writes has another record in hand. What the
dead one knew is let go.

**AgentServiceProofs, coordinator.** `OneSteer` is the types with `Steered`: at most one steer is
under way, the flag is up while it is, and it delivers only when nothing is in flight;
it needs `~Overlap`, which `coordinator_steer` shows. `Books` keeps account of the
requests: those in the queue, in a steer, in flight, settled or dropped are apart and
all remembered (`Enough`: no key is forgotten). `NeverAConcurrentSend` follows from
the first, `CoordinatorIsATurnDesk`, the refinement, from both.

**ArtifactStoreProofs.** `TypesHold` needs nothing. `NoUpdateLost` assumes `OneDeath`:
at most one process ever dies, and a living one sleeps past its lease only while it
reads or before it refreshes. The invariant is one of custody: the directory under the
path has an owner, whose file is in it, or a keeper, who has just made it, gives it up or
has claimed it (`OneCustodian`). Without either it was left by the one death, and all who
recover it mean this directory (`Abandoned`, `OneRecovery`). Who is about to write owns
it, or its file was claimed and carries the touch by which the claim will be undone
(`Fenced`), and has seen the manifest as it is. The inode that a new directory gets is
none that a waiter remembers (`NextInodeFacts`, by the pigeonhole principle).

**ScopeLinksProofs.** For one process (`Alone`), `IInv` is the types, `Acyclic`,
`Decided` (a change that was decided still replaces what is stored, and still closes
no cycle), `Follows` and `Trails` (the audit trail of a link is one chain, with the
change that is pending at its end). A link that passes the search closes no
cycle: the set of scopes the search stays in is the witness. Hence
`LinksStayAcyclic` and `AuditTrailReplays`, for any scopes, kinds and links.

The other theorems need no `Alone`: whoever writes, the store is a finite set of links,
each with an id of its own (`KeyedAlways`, `ListedGraph`; `TraversalAssumption` says
that scopes, ids and kinds are finite). On every such graph `WalkIsReach`,
`FirstLinkPlaces` and `ReachIsLeastClosed` hold, whatever its size, a graph with
cycles included. The invariant of the walk after `n` turns is `Layered` with `Placed`:
the list has no scope twice and is ordered by depth, the first `n` are expanded, and
every scope but the root stands where a link from an earlier one put it, the first of
all links that lead to it from scopes of the list. `WalkStarts` is its start and
`TurnKeeps` its step; it holds after as many turns as there are scopes by
induction (`NaturalsBelow`), and by then all are expanded, because a list without
repetition is no longer than the scopes are many (`DistinctAreFew`). `Layers` compares it
with the reference definition: the scopes of depth at most `d` are the ball of that
radius. The recursions of the model have values because their step maps a set
into itself (`RepeatedStep`). The reach is two such recursions around the walk
(`AddedGrows`, `AlongGrows`, `RoundsExpand`).

**GraphStoreProofs.** For the first two theorems what a plan requires stays opaque.
`IInv`: a planned call has a snapshot that was stored, and if its revision is the
current one, its document and its history are the stored ones, because two stored
documents never share a revision (`Genuine`). So a commit is an `Apply` of the desk: `StoreIsADesk`. For
`AcceptedOverWhatWasSeen`, which assumes `~Hasty`, `SInv` adds that the cache of a tab
with no command under way, every poll and every base are genuine; a tab with a command
shows what it made up, and goes back.

`StoredIsValid` is about the plan itself. It rests on the refinement (`StepOfDesk`), on
the validity of the sample (`DocumentAssumption`, which TLC evaluates) and on
`BatchKeeps`: a batch leads from a document of the right shape to one of the right shape,
and, if none of its commands computes, from a valid one to a valid one
(`HarmlessCommand`), which is what makes it safe not to check such a batch. The batch
is a recursion over its commands; that it has a value (`RunExists`) and what it keeps
are proved by induction, in the form of a lemma on sets (`NaturalsBelow`: a set that has
0 and with every number its successor has all of them), itself proved from the
pigeonhole principle, because the induction theorems of the library take an operator
as a parameter.

`SortIsTopological` is about the order of execution, of every stored document and every
one a planned call proposes (`ProposedShapes`), and assumes of the nodes only that they
are finitely many. It also shows that the visits are as deep as there are nodes at
most, because every inner visit has one more node being visited: so the recursion has a
value (`VisitExists`, as the repetition of a step, `RepeatedStep`), and visits are right
from the most nodes being visited down to none (`AllVisitsOK`). A visit begins with an
order in which every node comes after those it needs, and with nodes being visited that
all need the visited one (`Sound`); it ends with that node in such an order, or with the
remark that there is a cycle, and then there is one (`Advances`). In an order with all
the nodes none needs itself (`InOrderHasNoCycle`), so no order is returned for a graph
with a cycle. `DependsOn` says that the property speaks of the right relation:
`Depends` stops growing after as many rounds as there are nodes.

Every invariant and every action property of a passing run is stated by a theorem. Only
model-checked: liveness (`StrandedIsDisposed`, `HeadIsAnswered`, `OperationEnds`,
`EveryRequestEnds`, `IdleIsTold`, `WaitersGetOn`, `EveryCallAnswered`), which is beyond
this prover.

## 6. Not modelled

The components marked so in `PROJECT.json`, each with its reason. Inside the
modelled ones: the purge of context receipts after a thread is deleted, and what
a crash between the two leaves; concurrent renames of the same sidecars by two
processes; the lock's behaviour when process ids are reused; wrapped or
malformed records, which throw; the other fields of a thread that
a suspended process writes back whole. The workspace registry repeats the
project registry line for line except for the parent project it looks up before
taking the lock. Of the roadmap document: texts and timestamps, the history of the memory repository, which
the application does not deploy, uniqueness of evidence ids (the code does not ask
for it), board queries,
filters and searches, parsing of stored values, the score behind `Similar`, and
access checks other than the sponsor's. Of the coordinator: listeners that call back
into it, ports that throw before they return a promise, progress events. Of the
artifact store: bytes, reading back, names and quotas, and the clean-up of a failed
write of the owner file. Of the scopes: records of principals and containers, of
which only the existence counts. Of the graph: what reducers compute and how they
fail, the order of edges into an input, the import of the former JSON store, empty
batches. The usage ledger appends a step and then bumps five rollups with no look
at the record id, and an Eve session is created before its owner is bound: both are
listed as open (the ledger as a hazard), neither is modelled.

## 7. Plan

Done, in this order: threads, slugs, voice, work items, registry, the roadmap
document, coordinator, artifacts, scope links with reach, graph and graph store.

Next, by importance:

1. `ReviewStore`: passages, annotations, one lock decision, history; refinement of an
   abstract document with compare-and-set. Theorems: types, history a chain.
2. `SessionOwners`: bind, conflict, read-back, with the creation of the session by the
   host before it. Theorem: an owner never changes.
3. `AuthInvites`: redeemed once, never after revocation or expiry. Theorem: both.
4. Scope grants: no authority without a grant, on top of `ScopeTraversal`.
5. `MirkWorkItems` over the operations of `WorkItemsDocument`, so that a half-applied
   mutation is judged by what each operation writes; the specs repository.
6. The parent project check of `WorkspaceRegistry`, on top of `RecordLock`; the
   blackboard store, whose lock directory nobody recovers.
7. Proofs: the theorems of the modules above, as they are written.
