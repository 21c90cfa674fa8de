---------------------------- MODULE MirkWorkItems ----------------------------
(***************************************************************************)
(* The roadmap repository of work-items-store/src/mirk-repository.ts: one  *)
(* markdown file per story, three sidecar files and an index whose         *)
(* frontmatter holds the revision.  A process runs its mutations one at a  *)
(* time (runExclusive); its reads are not queued, and another process has  *)
(* a queue of its own.  Every await is a point where others step in.       *)
(*                                                                         *)
(* What a file says is abstracted to the set of mutations it reflects.     *)
(***************************************************************************)
EXTENDS Naturals, FiniteSets, Optional

CONSTANTS
  Mutations,   \* the requests made, each at most once
  Stories, Sidecars,
  Touches,     \* the files a mutation changes
  Replaces,    \* upsertStory: the client's copy of the story is stored
  RewritesAll, \* mutations that name no story ids: all stories are put
  Restored,    \* stories whose hand-written layout is restored after a put
  Processes, Clients,
  Failures     \* bound: the failures that happen together, each kind once

Files == Stories \cup Sidecars

ASSUME MirkAssumption ==
  /\ Stories \cap Sidecars = {}
  /\ Touches \in [Mutations -> (SUBSET Files) \ {{}}]
  /\ Replaces \subseteq Mutations /\ RewritesAll \subseteq Mutations
  /\ \A m \in Replaces : Touches[m] \subseteq Stories
  /\ Restored \subseteq Stories
  /\ Failures \subseteq SUBSET {"refused", "torn", "died"} /\ {} \in Failures

VARIABLES
  file,     \* the visible files, NONE when absent
  hidden,   \* sidecars renamed away, by the process that will rename them back
  index,    \* the revision that index.md yields
  readers,  \* per client, the get() in progress or the last one answered
  writers,  \* per process, the mutation at the head of its queue
  acked,    \* mutations whose caller was answered
  faults,   \* the failures so far
  overlooked  \* history: what an accepted upsert could not know of a file

filesVars == <<file, hidden, index, readers, writers, acked, faults, overlooked>>

Content == SUBSET Mutations
Contents == [Files -> Content]

Blanks == [f \in Files |-> {}]

\* readDocument reads the stories, leaving out those it finds empty, then the
\* revision, then the sidecars.
ReadStep == {"stories", "revision", "sidecars", "done"}
Reading == [at : ReadStep, left : SUBSET Sidecars, doc : Contents,
            gone : SUBSET Stories, rev : Nat,
            base : SUBSET Mutations,   \* history: acked, when the stories
            upto : SUBSET Mutations]   \* and when the revision was read
NoRead == [at |-> "done", left |-> {}, doc |-> Blanks, gone |-> {}, rev |-> 0,
           base |-> {}, upto |-> {}]

\* After reading: put the stories with the sidecars hidden, write the
\* sidecars, write the index.
WriteStep == {"hide", "put", "sidecars"}
Writing == [mut : Mutations, expected : Nat \cup {NONE},
            copy : Reading,                 \* what the client sent
            read : Reading, next : Contents, \* document and result.document
            at : {"read"} \cup WriteStep, left : SUBSET Files,
            restore : Stories \cup {NONE},  \* put, its layout not restored yet
            torn : Files \cup {NONE}]       \* emptied by a writeFile under way

ASSUME NoneIsNothing ==
  NONE \notin Files \cup Writing /\ \A c \in Content : c # NONE

FilesTypeOK ==
  /\ file \in [Files -> Content \cup {NONE}]
  /\ \A f \in Stories \ Restored : file[f] # NONE
  /\ hidden \in [Processes -> [Sidecars -> Content \cup {NONE}]]
  /\ index \in Nat
  /\ readers \in [Clients -> Reading]
  /\ writers \in [Processes -> Writing \cup {NONE}]
  /\ acked \in SUBSET Mutations
  /\ faults \in Failures
  /\ overlooked \in SUBSET (Mutations \X Files)

-----------------------------------------------------------------------------
\* A missing or emptied file yields nothing.
Seen(f) == IF file[f] = NONE THEN {} ELSE file[f]

Rest(left) == IF left = {} THEN "done" ELSE "sidecars"

\* What one await of readDocument may make of a read (sidecars in any order;
\* the code has a fixed one).
ReadOn(r) ==
  IF r.at = "stories"
    THEN {[r EXCEPT !.at = "revision", !.base = acked,
             !.gone = {f \in Stories : file[f] = NONE},
             !.doc = [f \in Files |-> IF f \in Stories THEN Seen(f) ELSE {}]]}
  ELSE IF r.at = "revision"
    THEN {[r EXCEPT !.at = Rest(r.left), !.rev = index, !.upto = acked]}
  ELSE {[r EXCEPT !.at = Rest(r.left \ {f}), !.left = @ \ {f}, !.doc[f] = Seen(f)] :
          f \in r.left}

Begun == [NoRead EXCEPT !.at = "stories", !.left = Sidecars]

\* get(): a client's read, straight from the files: the stories, and an await
\* later the revision.  No request sends sidecars back, so its reads of them
\* are left out.
StartGet(c) ==
  /\ readers[c].at = "done"
  /\ \E r \in ReadOn([Begun EXCEPT !.left = {}]) : readers' = [readers EXCEPT ![c] = r]
  /\ UNCHANGED <<file, hidden, index, writers, acked, faults, overlooked>>

GetStep(c) ==
  /\ readers[c].at # "done"
  /\ \E r \in ReadOn(readers[c]) : readers' = [readers EXCEPT ![c] = r]
  /\ UNCHANGED <<file, hidden, index, writers, acked, faults, overlooked>>

\* A mutation request reaches the head of the queue of p.  The client sends
\* the revision of the document it has, or none, and for an upsert its copy of
\* the story.
Submit(p, c, m, expected) ==
  /\ writers[p] = NONE
  /\ readers[c].at = "done"
  /\ m \notin acked /\ \A q \in Processes : writers[q] # NONE => writers[q].mut # m
  /\ expected \in {NONE, readers[c].rev}
  /\ m \in Replaces => Touches[m] \cap readers[c].gone = {}
  /\ writers' = [writers EXCEPT ![p] =
       [mut |-> m, expected |-> expected,
        copy |-> IF m \in Replaces THEN readers[c] ELSE NoRead,
        read |-> Begun, next |-> Blanks, at |-> "read", left |-> {},
        restore |-> NONE, torn |-> NONE]]
  /\ UNCHANGED <<file, hidden, index, readers, acked, faults, overlooked>>

At(p, step) == writers[p] # NONE /\ writers[p].at = step

MutateRead(p) ==
  /\ At(p, "read")
  /\ writers[p].read.at # "done"
  /\ \E r \in ReadOn(writers[p].read) :
       writers' = [writers EXCEPT ![p].read = r]
  /\ UNCHANGED <<file, hidden, index, readers, acked, faults, overlooked>>

\* What the operation makes of the document: the touched files reflect m,
\* an upsert storing the client's copy.
Applied(w) ==
  [f \in Files |->
     IF f \notin Touches[w.mut] THEN w.read.doc[f]
     ELSE {w.mut} \cup IF w.mut \in Replaces THEN w.copy.doc[f] ELSE w.read.doc[f]]

StoriesToPut(w) ==
  (Touches[w.mut] \cap Stories)
  \cup IF w.mut \in RewritesAll THEN Stories \ w.read.gone ELSE {}

\* assertRevision, and findStory: only an upsert may name an unknown story.
Current(w) == w.expected \in {NONE, w.read.rev}
Known(w) == w.mut \in Replaces \/ Touches[w.mut] \cap w.read.gone = {}

\* The mutations its client could not know of when it named the revision: those
\* answered between the reads of stories and revision.  Who names none, or a
\* revision that a failure has brought back, may have missed later ones.
Missed(w) ==
  (IF w.expected # NONE /\ faults = {} THEN w.copy.upto ELSE acked) \ w.copy.base

\* Mutant: a refused mutation stays at the head of the queue.
ApplyJamming(p) ==
  /\ At(p, "read") /\ writers[p].read.at = "done"
  /\ Current(writers[p]) /\ Known(writers[p])
  /\ LET w == writers[p] IN
       /\ writers' = [writers EXCEPT ![p].at = "hide", ![p].next = Applied(w),
                                     ![p].left = StoriesToPut(w)]
       /\ overlooked' = overlooked \cup
            IF w.mut \in Replaces THEN Missed(w) \X Touches[w.mut] ELSE {}
  /\ UNCHANGED <<file, hidden, index, readers, acked, faults>>

\* Mutant: the expected revision is not checked.
ApplyUnchecked(p) ==
  /\ At(p, "read") /\ writers[p].read.at = "done"
  /\ LET w == writers[p] IN
       IF Known(w)
         THEN /\ writers' = [writers EXCEPT ![p].at = "hide", ![p].next = Applied(w),
                                            ![p].left = StoriesToPut(w)]
              /\ overlooked' = overlooked \cup
                   IF w.mut \in Replaces THEN Missed(w) \X Touches[w.mut] ELSE {}
         ELSE /\ writers' = [writers EXCEPT ![p] = NONE]
              /\ UNCHANGED overlooked
  /\ UNCHANGED <<file, hidden, index, readers, acked, faults>>

\* The operation, synchronous once the document is read: a stale expectation
\* is refused, and so is a story that is not there.
Apply(p) ==
  /\ At(p, "read") /\ writers[p].read.at = "done"
  /\ LET w == writers[p] IN
       IF Current(w) /\ Known(w)
         THEN /\ writers' = [writers EXCEPT ![p].at = "hide", ![p].next = Applied(w),
                                            ![p].left = StoriesToPut(w)]
              /\ overlooked' = overlooked \cup
                   IF w.mut \in Replaces THEN Missed(w) \X Touches[w.mut] ELSE {}
         ELSE /\ writers' = [writers EXCEPT ![p] = NONE]
              /\ UNCHANGED overlooked
  /\ UNCHANGED <<file, hidden, index, readers, acked, faults>>

\* No file is between two writes of its own.
Settled(p) == writers[p].restore = NONE /\ writers[p].torn = NONE

Hide(p) ==
  /\ At(p, "hide")
  /\ hidden' = [hidden EXCEPT ![p] = [f \in Sidecars |-> file[f]]]
  /\ file' = [f \in Files |-> IF f \in Sidecars THEN NONE ELSE file[f]]
  /\ writers' = [writers EXCEPT ![p].at = "put"]
  /\ UNCHANGED <<index, readers, acked, faults, overlooked>>

\* store.put also projects the collection index, without the revision.
Put(p, f) ==
  /\ At(p, "put") /\ Settled(p) /\ f \in writers[p].left
  /\ file' = [file EXCEPT ![f] = writers[p].next[f]]
  /\ index' = 0
  /\ writers' = [writers EXCEPT ![p].left = @ \ {f},
                    ![p].restore = IF f \in Restored THEN f ELSE NONE]
  /\ UNCHANGED <<hidden, readers, acked, faults, overlooked>>

Nothing == [f \in Sidecars |-> NONE]

\* The finally block of withSidecarsHidden.
Unhide(p) ==
  /\ file' = [f \in Files |->
       IF f \in Sidecars /\ hidden[p][f] # NONE THEN hidden[p][f] ELSE file[f]]
  /\ hidden' = [hidden EXCEPT ![p] = Nothing]

\* Mutant: withSidecarsHidden does not await the puts.
RestoreEarly(p) ==
  /\ At(p, "put") /\ Settled(p)
  /\ Unhide(p)
  /\ writers' = [writers EXCEPT ![p].at = "sidecars", ![p].left = Sidecars]
  /\ UNCHANGED <<index, readers, acked, faults, overlooked>>

Restore(p) ==
  /\ At(p, "put") /\ Settled(p) /\ writers[p].left = {}
  /\ Unhide(p)
  /\ writers' = [writers EXCEPT ![p].at = "sidecars", ![p].left = Sidecars]
  /\ UNCHANGED <<index, readers, acked, faults, overlooked>>

\* writeFile on a story whose layout is to be restored, or on a sidecar:
\* opening the file empties it.
Truncate(p, f) ==
  /\ writers[p] # NONE /\ writers[p].torn = NONE
  /\ f = writers[p].restore \/ (At(p, "sidecars") /\ f \in writers[p].left)
  /\ file' = [file EXCEPT ![f] = NONE]
  /\ writers' = [writers EXCEPT
       ![p].left = @ \ {f}, ![p].restore = NONE, ![p].torn = f]
  /\ UNCHANGED <<hidden, index, readers, acked, faults, overlooked>>

Rewrite(p) ==
  /\ writers[p] # NONE /\ writers[p].torn # NONE
  /\ LET w == writers[p] IN file' = [file EXCEPT ![w.torn] = w.next[w.torn]]
  /\ writers' = [writers EXCEPT ![p].torn = NONE]
  /\ UNCHANGED <<hidden, index, readers, acked, faults, overlooked>>

\* Mutant: the index is written with the revision that was read.
WriteIndexUnrevised(p) ==
  /\ At(p, "sidecars") /\ Settled(p) /\ writers[p].left = {}
  /\ index' = writers[p].read.rev
  /\ acked' = acked \cup {writers[p].mut}
  /\ writers' = [writers EXCEPT ![p] = NONE]
  /\ UNCHANGED <<file, hidden, readers, faults, overlooked>>

\* The index carries the new revision and is written last; the commit to git
\* and the answer follow.  (The puts have left it without a revision, so
\* emptying it first changes nothing.)
WriteIndex(p) ==
  /\ At(p, "sidecars") /\ Settled(p) /\ writers[p].left = {}
  /\ index' = writers[p].read.rev + 1
  /\ acked' = acked \cup {writers[p].mut}
  /\ writers' = [writers EXCEPT ![p] = NONE]
  /\ UNCHANGED <<file, hidden, readers, faults, overlooked>>

Fails(how) ==
  /\ how \notin faults /\ faults \cup {how} \in Failures
  /\ faults' = faults \cup {how}

\* Mutant: the sidecars are restored only if the puts succeed.
PutFailsHidden(p) ==
  /\ At(p, "put") /\ Settled(p) /\ writers[p].left # {}
  /\ Fails("refused")
  /\ hidden' = [hidden EXCEPT ![p] = Nothing]
  /\ writers' = [writers EXCEPT ![p] = NONE]
  /\ UNCHANGED <<file, index, readers, acked, overlooked>>

\* The store refuses a record: the caller is refused, what was put stays.
PutFails(p) ==
  /\ At(p, "put") /\ Settled(p) /\ writers[p].left # {}
  /\ Fails("refused")
  /\ Unhide(p)
  /\ writers' = [writers EXCEPT ![p] = NONE]
  /\ UNCHANGED <<index, readers, acked, overlooked>>

\* A writeFile fails half-way.
WriteFails(p) ==
  /\ writers[p] # NONE /\ writers[p].torn # NONE
  /\ Fails("torn")
  /\ Unhide(p)
  /\ writers' = [writers EXCEPT ![p] = NONE]
  /\ UNCHANGED <<index, readers, acked, overlooked>>

\* The process dies; the next one does not look for renamed sidecars, and
\* repairing the index rows keeps the revision it reads.
Crash(p) ==
  /\ writers[p] # NONE
  /\ Fails("died")
  /\ writers' = [writers EXCEPT ![p] = NONE]
  /\ hidden' = [hidden EXCEPT ![p] = Nothing]
  /\ UNCHANGED <<file, index, readers, acked, overlooked>>

\* A seeded directory.
FilesInit ==
  /\ file = [f \in Files |-> {}]
  /\ hidden = [p \in Processes |-> Nothing]
  /\ index = 0
  /\ readers = [c \in Clients |-> NoRead]
  /\ writers = [p \in Processes |-> NONE]
  /\ acked = {}
  /\ faults = {} /\ overlooked = {}

WriterStep(p) ==
  \/ MutateRead(p) \/ Apply(p) \/ Hide(p) \/ Restore(p) \/ WriteIndex(p)
  \/ \E f \in Files : Put(p, f) \/ Truncate(p, f)
  \/ Rewrite(p)

Request ==
  \E c \in Clients :
    \/ StartGet(c) \/ GetStep(c)
    \/ \E p \in Processes, m \in Mutations, e \in {NONE, readers[c].rev} :
         Submit(p, c, m, e)

Failure(p) == PutFails(p) \/ WriteFails(p) \/ Crash(p)

FilesNext == Request \/ \E p \in Processes : WriterStep(p) \/ Failure(p)

FilesSpec == FilesInit /\ [][FilesNext]_filesVars

\* An await resumes.
FairFilesSpec == FilesSpec /\ \A p \in Processes : WF_filesVars(WriterStep(p))
-----------------------------------------------------------------------------
\* What a file says, also while a writer hides it or has it open.
Held(f) ==
  Seen(f)
  \cup (UNION {hidden[p][f] : p \in {p \in Processes :
                 f \in Sidecars /\ hidden[p][f] # NONE}})
  \cup (UNION {writers[p].next[f] : p \in {p \in Processes :
                 writers[p] # NONE /\ writers[p].torn = f}})

\* What the repository has answered stays in every file it changed, also when
\* the store refuses a put between two files and clients send back whole
\* stories of any age.  An upsert may drop only what its client could not know
\* of: a named revision holds off the copies that are older.
NoLostUpdate ==
  faults \subseteq {"refused"} =>
    \A m \in acked : \A f \in Touches[m] :
      <<m, f>> \in overlooked \/ m \in Held(f)

\* The revision counts the mutations, whatever a client may see while a put
\* hides it.
RevisionCounts ==
  faults = {} /\ (\A p \in Processes : ~At(p, "put") /\ ~At(p, "sidecars"))
    => index = Cardinality(acked)

\* A mutation at the head of the queue is answered, accepted or refused.
HeadIsAnswered ==
  \A p \in Processes, m \in Mutations :
    (writers[p] # NONE /\ writers[p].mut = m) ~>
      ~(writers[p] # NONE /\ writers[p].mut = m)

\* A document that is being written counts as it was read until the index is
\* written, or the mutation fails and leaves what it has come to.
Underway == {p \in Processes : writers[p] # NONE /\ writers[p].at # "read"}
Roadmap == [f \in Files |->
  IF Underway = {} THEN Held(f)
  ELSE UNION {writers[p].read.doc[f] : p \in Underway}]

\* One process implements the document that mutations change at once.  One that
\* is refused may have reached some of its stories and loses nothing.  One that
\* is cut off by a failing write or a death may lose the sidecars and the one
\* story that was open, and nothing else.
Store == INSTANCE WorkItemsStore WITH
  contents <- Roadmap, applied <- acked, failures <- faults

ImplementsStore == Store!StoreSpec

\* An upsert that names the revision it was made from overwrites nothing the
\* client has not seen.
Accepts(p) ==
  /\ At(p, "read") /\ writers[p].read.at = "done"
  /\ writers[p].expected = writers[p].read.rev

StaleCopyRefused ==
  [][\A p \in Processes :
       Apply(p) /\ Accepts(p) /\ writers[p].mut \in Replaces =>
         \A f \in Touches[writers[p].mut] :
           writers[p].read.doc[f] \subseteq writers[p].copy.doc[f]]_filesVars
=============================================================================
