-------------------------- MODULE WorkItemsDocument --------------------------
(***************************************************************************)
(* The roadmap document and its operations: operations.ts applied one at a *)
(* time (the queue of mirk-repository.ts), by clients that hold copies.  A *)
(* client is a tab or a request handler.  Its copy is read in parts, with  *)
(* an await between two (get() is not queued), and is sent back as the new *)
(* record (upserts), as the expected revision, or as the ground for a      *)
(* decision (sponsorship).                                                 *)
(*                                                                         *)
(* An operation that is refused changes nothing and is not a step.  Texts, *)
(* timestamps and fields no operation looks at are left out, and so is the *)
(* history, which the directory does not keep.  That an operation is spread*)
(* over several files is the matter of MirkWorkItems.                      *)
(***************************************************************************)
EXTENDS Integers, Sequences, FiniteSets, Optional

CONSTANTS
  Users,            \* clients, each acting for one principal
  Plain,            \* ids of stories that are not FR.1, FR.2, ...
  Authored,         \* ids that agents choose for stories they write
  Scopes, Titles,
  Similar,          \* titles the duplicate policy does not tell apart
  Statuses,         \* the story statuses beside "idea"
  Decisions,        \* approved, changes-requested
  Views,            \* ids of saved boards
  SeedStories,      \* the document a repository is opened on holds these
  SeedReviews,
  EvidenceSent,     \* the evidence lists in stories that clients send
  MaxRevision,      \* bound: revisions of the document
  MaxEvidence,      \* bound: evidence sent with a proposal
  MaxNumber         \* bound: numbers given out in ids and decisions

StoryIds == Plain \cup (Nat \ {0})  \* n stands for FR.n

Story == [id : StoryIds, request : BOOLEAN, home : Scopes, title : Titles,
          status : {"idea"} \cup Statuses,
          decision : {NONE, "proposed"} \cup Decisions,
          sponsor : Or(Users), evidence : Seq(Nat \ {0}), revision : Nat]
Review == [story : StoryIds, decision : Or(Decisions), completed : BOOLEAN]
Comment == [story : StoryIds, parent : Nat]   \* 0: the comment is no reply
Sponsorship == [story : StoryIds, sponsor : Users,
                decision : {"confirmed", "declined"}, revision : Nat \ {0}]
View == [id : Views, name : Titles, revision : Nat]
Document == [revision : Nat, stories : Seq(Story), boardViews : Seq(View),
             reviews : Seq(Review), comments : Seq(Comment),
             sponsorship : Seq(Sponsorship)]

ASSUME DocumentAssumption ==
  /\ Plain \cap Nat = {} /\ NONE \notin Nat \cup Users \cup Decisions
  /\ Authored \subseteq StoryIds
  /\ Similar \subseteq Titles \X Titles
  /\ SeedStories \in Seq(Story) /\ SeedReviews \in Seq(Review)
  /\ \A i, j \in DOMAIN SeedStories :
       SeedStories[i].id = SeedStories[j].id => i = j
  /\ EvidenceSent \subseteq Seq(Nat \ {0})
  /\ MaxRevision \in Nat /\ MaxNumber \in Nat
  /\ MaxEvidence \in Nat

VARIABLES
  doc,      \* the document of the repository
  seen,     \* the copy each client holds, or the parts it has read of one
  at,       \* the part it reads next
  since     \* history: the revision its stories were read at

vars == <<doc, seen, at, since>>

\* readDocument: the stories with their comments, then these.
ReadSteps == {"revision", "reviews", "boardViews", "sponsorship", "done"}

TypeOK ==
  /\ doc \in Document
  /\ seen \in [Users -> Document]
  /\ at \in [Users -> ReadSteps]
  /\ since \in [Users -> Nat]

Blank == [revision |-> 0, stories |-> <<>>, boardViews |-> <<>>,
          reviews |-> <<>>, comments |-> <<>>, sponsorship |-> <<>>]

Init ==
  /\ doc = [Blank EXCEPT !.stories = SeedStories, !.reviews = SeedReviews]
  /\ seen = [u \in Users |-> doc]
  /\ at = [u \in Users |-> "done"]
  /\ since = [u \in Users |-> 0]

-----------------------------------------------------------------------------
\* get(): the stories are read at once, and an await later each of the rest.
ReadStories(u) ==
  /\ at[u] = "done"
  /\ seen' = [seen EXCEPT ![u] = [Blank EXCEPT !.stories = doc.stories,
                                              !.comments = doc.comments]]
  /\ at' = [at EXCEPT ![u] = "revision"]
  /\ since' = [since EXCEPT ![u] = doc.revision]
  /\ UNCHANGED doc

Fetched(u, copy, next) ==
  /\ seen' = [seen EXCEPT ![u] = copy]
  /\ at' = [at EXCEPT ![u] = next]
  /\ UNCHANGED <<doc, since>>

ReadOneMore(u) ==
  \/ /\ at[u] = "revision"
     /\ Fetched(u, [seen[u] EXCEPT !.revision = doc.revision], "reviews")
  \/ /\ at[u] = "reviews"
     /\ Fetched(u, [seen[u] EXCEPT !.reviews = doc.reviews], "boardViews")
  \/ /\ at[u] = "boardViews"
     /\ Fetched(u, [seen[u] EXCEPT !.boardViews = doc.boardViews], "sponsorship")
  \/ /\ at[u] = "sponsorship"
     /\ Fetched(u, [seen[u] EXCEPT !.sponsorship = doc.sponsorship], "done")

\* assertRevision, with the revision of the client's copy or with none.
Expects(u, revision) == at[u] = "done" /\ revision \in {NONE, doc.revision}
Offers(u) == {NONE, seen[u].revision}

\* An operation reads the document in the queue, where nothing can change it,
\* and its caller gets the document it leaves.
Answered(u) ==
  /\ seen' = [seen EXCEPT ![u] = doc']
  /\ since' = [since EXCEPT ![u] = doc'.revision]
  /\ UNCHANGED at

\* commit
Commit(u, next) ==
  /\ doc.revision < MaxRevision
  /\ doc' = [next EXCEPT !.revision = doc.revision + 1]
  /\ Answered(u)

\* unchanged
Unchanged(u) == UNCHANGED doc /\ Answered(u)

StoryAt(i) == doc.stories[i]

\* Mutant: the revision of a changed story is taken from the client's copy.
ChangedFromCopy(i, story) ==
  [doc EXCEPT !.stories[i] = [story EXCEPT !.revision = @ + 1]]

\* A story takes its next revision from the stored one.
Changed(i, story) ==
  [doc EXCEPT !.stories[i] = [story EXCEPT !.revision = StoryAt(i).revision + 1]]

-----------------------------------------------------------------------------
\* What a client makes of a story it holds.  Any list of evidence is accepted,
\* ids that repeat included (isWorkRequestDetails).
Edited(s) ==
  {[s EXCEPT !.title = t] : t \in Titles}
    \cup {[s EXCEPT !.sponsor = p] : p \in Or(Users)}
    \cup {[s EXCEPT !.evidence = e] : e \in EvidenceSent}

\* A story a client writes down itself, an agent with sigil-story-upsert or a
\* browser, under an id of its choice; a feature request may be among them.
Written == [id : Authored, request : BOOLEAN, home : Scopes, title : Titles,
            status : {"idea"}, decision : {NONE}, sponsor : {NONE},
            evidence : EvidenceSent, revision : {1}]

\* upsertStory: a story whose id is known replaces the stored one.
UpsertStory(u, s, revision) ==
  /\ Expects(u, revision)
  /\ IF \E i \in DOMAIN doc.stories : StoryAt(i).id = s.id
       THEN \E i \in DOMAIN doc.stories :
              StoryAt(i).id = s.id /\ Commit(u, Changed(i, s))
       ELSE Commit(u, [doc EXCEPT !.stories = Append(@, s)])

\* upsertBoardView
UpsertBoardView(u, id, name, revision) ==
  /\ Expects(u, revision)
  /\ IF \E i \in DOMAIN doc.boardViews : doc.boardViews[i].id = id
       THEN \E i \in DOMAIN doc.boardViews :
              /\ doc.boardViews[i].id = id
              /\ Commit(u, [doc EXCEPT !.boardViews[i].name = name,
                                       !.boardViews[i].revision = @ + 1])
       ELSE Commit(u, [doc EXCEPT !.boardViews =
                         Append(@, [id |-> id, name |-> name, revision |-> 1])])

\* transitionStory
TransitionStory(u, i, status, revision) ==
  /\ Expects(u, revision)
  /\ IF StoryAt(i).status = status
       THEN Unchanged(u)
       ELSE Commit(u, Changed(i, [StoryAt(i) EXCEPT !.status = status]))

\* assignReview
AssignReview(u, i, revision) ==
  /\ Expects(u, revision)
  /\ Commit(u, [Changed(i, [StoryAt(i) EXCEPT !.decision = "proposed"])
                EXCEPT !.reviews =
                  Append(@, [story |-> StoryAt(i).id, decision |-> NONE,
                             completed |-> FALSE])])

\* Mutant: a completed review is decided again.
DecideReviewAgain(u, r, decision, revision) ==
  /\ Expects(u, revision)
  /\ \E i \in DOMAIN doc.stories :
       /\ StoryAt(i).id = doc.reviews[r].story
       /\ Commit(u, [Changed(i, [StoryAt(i) EXCEPT !.decision = decision])
                     EXCEPT !.reviews[r].decision = decision,
                            !.reviews[r].completed = TRUE])

\* decideReview
DecideReview(u, r, decision, revision) ==
  /\ Expects(u, revision)
  /\ \/ doc.reviews[r].completed /\ doc.reviews[r].decision = decision /\ Unchanged(u)
     \/ /\ ~doc.reviews[r].completed
        /\ \E i \in DOMAIN doc.stories :
             /\ StoryAt(i).id = doc.reviews[r].story
             /\ Commit(u, [Changed(i, [StoryAt(i) EXCEPT !.decision = decision])
                           EXCEPT !.reviews[r].decision = decision,
                                  !.reviews[r].completed = TRUE])

\* addComment; its id is a fresh uuid, so it is left out.
AddComment(u, i, parent, revision) ==
  /\ Expects(u, revision)
  /\ parent # 0 => parent \in DOMAIN doc.comments
                   /\ doc.comments[parent].story = StoryAt(i).id
  /\ Commit(u, [doc EXCEPT !.comments =
                  Append(@, [story |-> StoryAt(i).id, parent |-> parent])])

\* Mutant: what is there is counted, in place of the largest number.
IsNextByCount(n, used) == n = 1 + Cardinality(used)

\* n is one more than the largest number used.
IsNext(n, used) == (\A k \in used : k < n) /\ (n = 1 \/ n - 1 \in used)

Numbers == 1 .. MaxNumber

\* nextFeatureRequestId
RequestNumbers == {StoryAt(i).id : i \in DOMAIN doc.stories} \ Plain

\* decideFeatureRequestDuplicates
Duplicates(home, title) ==
  {i \in DOMAIN doc.stories :
     /\ StoryAt(i).request /\ StoryAt(i).home = home
     /\ StoryAt(i).title = title \/ <<StoryAt(i).title, title>> \in Similar}

\* initialRequestEvidence: none, or evidence-1 up to the number sent.
InitialEvidence == {[k \in 1 .. n |-> k] : n \in 0 .. MaxEvidence}

\* proposeFeatureRequest
ProposeFeatureRequest(u, home, title, sponsor, evidence, revision) ==
  /\ Expects(u, revision)
  /\ IF Duplicates(home, title) # {}
       THEN Unchanged(u)
       ELSE \E n \in Numbers :
              /\ IsNext(n, RequestNumbers)
              /\ Commit(u, [doc EXCEPT !.stories = Append(@,
                   [id |-> n, request |-> TRUE, home |-> home, title |-> title,
                    status |-> "idea", decision |-> NONE, sponsor |-> sponsor,
                    evidence |-> evidence, revision |-> 1])])

\* nextRequestEvidenceId
EvidenceNumbers(s) == {s.evidence[k] : k \in DOMAIN s.evidence}

\* addRequestEvidence
AddRequestEvidence(u, i, revision) ==
  /\ Expects(u, revision)
  /\ StoryAt(i).request
  /\ \E n \in Numbers :
       /\ IsNext(n, EvidenceNumbers(StoryAt(i)))
       /\ Commit(u, Changed(i, [StoryAt(i) EXCEPT !.evidence = Append(@, n)]))

\* Mutant: the prior decisions of all sponsors but the caller are looked up.
PriorsOfStory(d, id, sponsor) ==
  {d.sponsorship[k].revision : k \in {j \in DOMAIN d.sponsorship :
     d.sponsorship[j].story = id /\ d.sponsorship[j].sponsor # sponsor}}

\* The revisions of the decisions a sponsor has taken on a request.
Priors(d, id, sponsor) ==
  {d.sponsorship[k].revision : k \in {j \in DOMAIN d.sponsorship :
     d.sponsorship[j].story = id /\ d.sponsorship[j].sponsor = sponsor}}

\* Mutant: a decision is recorded without the revision the handler read.
RecordSponsorshipUnchecked(u, decision, revision) ==
  /\ \E i \in DOMAIN doc.stories : StoryAt(i).id = decision.story
  /\ Commit(u, [doc EXCEPT !.sponsorship = Append(@, decision)])

\* recordSponsorshipDecision
RecordSponsorship(u, decision, revision) ==
  /\ Expects(u, revision)
  /\ \E i \in DOMAIN doc.stories : StoryAt(i).id = decision.story
  /\ Commit(u, [doc EXCEPT !.sponsorship = Append(@, decision)])

\* decideSponsorshipFn: the handler read the document, found its caller to be
\* the sponsor proposed, and records under the revision it read.
DecideSponsorship(u, i, choice) ==
  LET id == seen[u].stories[i].id IN
  /\ seen[u].stories[i].sponsor = u
  /\ \E n \in Numbers :
       /\ IsNext(n, Priors(seen[u], id, u))
       /\ RecordSponsorship(u, [story |-> id, sponsor |-> u, decision |-> choice,
                                revision |-> n], seen[u].revision)

-----------------------------------------------------------------------------
Next == \E u \in Users :
  \/ ReadStories(u) \/ ReadOneMore(u)
  \/ \E revision \in Offers(u) :
       \/ \E s \in Written : UpsertStory(u, s, revision)
       \/ \E i \in DOMAIN seen[u].stories : \E s \in Edited(seen[u].stories[i]) :
            UpsertStory(u, s, revision)
       \/ \E id \in Views, name \in Titles : UpsertBoardView(u, id, name, revision)
       \/ \E i \in DOMAIN doc.stories :
            \/ \E s \in Statuses : TransitionStory(u, i, s, revision)
            \/ AssignReview(u, i, revision)
            \/ \E p \in {0} \cup DOMAIN doc.comments : AddComment(u, i, p, revision)
            \/ AddRequestEvidence(u, i, revision)
       \/ \E r \in DOMAIN doc.reviews, d \in Decisions :
            DecideReview(u, r, d, revision)
       \/ \E p \in Scopes, t \in Titles, sponsor \in Or(Users), e \in InitialEvidence :
            ProposeFeatureRequest(u, p, t, sponsor, e, revision)
  \/ \E i \in DOMAIN seen[u].stories, c \in {"confirmed", "declined"} :
       DecideSponsorship(u, i, c)

Spec == Init /\ [][Next]_vars

-----------------------------------------------------------------------------
\* Each story of the copy is the stored one or an earlier state of it: what has
\* moved has a higher revision, and nothing is removed or changes its place.
StoriesPrecede(copy) ==
  \A i \in DOMAIN copy.stories :
    LET s == copy.stories[i]  t == doc.stories[i] IN
    /\ i \in DOMAIN doc.stories /\ s.id = t.id
    /\ s.revision <= t.revision /\ (s.revision = t.revision => s = t)

\* A revision names a content: whoever holds a story under its current revision
\* holds the current story, also in a copy read in parts; whoever holds a copy
\* under the current revision holds what was read after the revision as it is,
\* and the stories too if they were read under it.  An accepted update replaces
\* what its caller saw (assertRevision, and the revision that upsertStory takes
\* from the stored story, not from the copy).
RevisionNamesContent == \A u \in Users :
  LET copy == seen[u] IN
  /\ StoriesPrecede(copy)
  /\ since[u] = doc.revision =>
       copy.stories = doc.stories /\ copy.comments = doc.comments
  /\ at[u] = "done" =>
       /\ since[u] <= copy.revision /\ copy.revision <= doc.revision
       /\ copy.revision = doc.revision =>
            /\ copy.reviews = doc.reviews /\ copy.boardViews = doc.boardViews
            /\ copy.sponsorship = doc.sponsorship

\* No two stories share an id, whatever ids agents and browsers chose for theirs:
\* the second would take the file of the first, and a document with a clash
\* would not load (isWorkItemsDocument).
Distinct(d) ==
  \A i, j \in DOMAIN d.stories : d.stories[i].id = d.stories[j].id => i = j
IdsUnique == Distinct(doc)

\* The decisions of a sponsor on a request are numbered in the order they were
\* recorded, so that the one hasConfirmedSponsor takes for the latest is the
\* last: two tabs that decide at once cannot both count.
Numbered(d) ==
  \A k, l \in DOMAIN d.sponsorship :
    LET a == d.sponsorship[k]  b == d.sponsorship[l] IN
    k < l /\ a.story = b.story /\ a.sponsor = b.sponsor
      => a.revision < b.revision
LatestDecisionIsLast == Numbered(doc)

Proposed(decision) ==
  \E i \in DOMAIN doc.stories : /\ StoryAt(i).id = decision.story
                               /\ StoryAt(i).sponsor = decision.sponsor

\* A handler that read stories and revision with a commit between the two.
ReadTorn(u) == since[u] # seen[u].revision

\* A decision counts only from whom the story proposes as its sponsor at the
\* moment it is recorded, although the handler looked at a copy of any age; the
\* one exception is a handler whose copy was torn, which no revision gives away.
SponsorDecides ==
  [][\A k \in DOMAIN doc'.sponsorship \ DOMAIN doc.sponsorship :
       LET decision == doc'.sponsorship[k] IN
       Proposed(decision) \/ ReadTorn(decision.sponsor)]_vars

\* "Lets only the authenticated proposed sponsor decide", torn copies included:
\* this is not so.
SponsorDecidesAlways ==
  [][\A k \in DOMAIN doc'.sponsorship \ DOMAIN doc.sponsorship :
       Proposed(doc'.sponsorship[k])]_vars

\* A review that was decided stays as it was decided (decideReview), whatever
\* copies its reviewers hold and however often they send their decision.
ReviewsStayDecided ==
  [][\A r \in DOMAIN doc.reviews : doc.reviews[r].completed =>
       r \in DOMAIN doc'.reviews /\ doc'.reviews[r] = doc.reviews[r]]_vars

=============================================================================
