-------------------------- MODULE WorkItemsProofs ----------------------------
(***************************************************************************)
(* Proofs about the work-items repository: the document and its operations *)
(* (WorkItemsDocument) and the directory of files it is kept in            *)
(* (MirkWorkItems).                                                        *)
(*                                                                         *)
(* The document, for any clients, ids and bounds: a revision names one     *)
(* content, the ids of stories stay unique and the decisions of sponsors   *)
(* are recorded in order and, on a copy read in one piece, by the sponsor. *)
(* Every step is a read or commits a document that Grown describes.  Who   *)
(* decides and what stays decided rest on the revisions: a copy whose      *)
(* revision is current has current reviews, and current stories if none    *)
(* was committed between its two halves.                                   *)
(*                                                                         *)
(* The directory, for any files, mutations, clients and failures: types    *)
(* hold with any number of processes.  With one, the revision counts the   *)
(* answered mutations, every answered mutation stays in the files it       *)
(* touches, but for what an upsert could not know of, and the directory is *)
(* a document that mutations change at once.                               *)
(***************************************************************************)
EXTENDS WorkItemsDocument, MirkWorkItems, FiniteSetTheorems, TLAPS

\* What is known of a copy that is still being read.
PartsCurrent ==
  \A u \in Users :
    /\ since[u] <= doc.revision
    /\ at[u] # "revision" =>
         since[u] <= seen[u].revision /\ seen[u].revision <= doc.revision
    /\ at[u] # "revision" /\ seen[u].revision = doc.revision =>
         /\ at[u] # "reviews" => seen[u].reviews = doc.reviews
         /\ at[u] \notin {"reviews", "boardViews"} =>
              seen[u].boardViews = doc.boardViews
         /\ at[u] = "done" => seen[u].sponsorship = doc.sponsorship

StoriesCurrent ==
  \A u \in Users :
    /\ StoriesPrecede(seen[u])
    /\ since[u] = doc.revision =>
         seen[u].stories = doc.stories /\ seen[u].comments = doc.comments

Inv ==
  /\ TypeOK
  /\ StoriesCurrent /\ PartsCurrent
  /\ IdsUnique /\ LatestDecisionIsLast

\* What a document to be committed has kept of the current one.
Grown(next) ==
  /\ next \in Document /\ next.revision = doc.revision
  /\ \A i \in DOMAIN doc.stories :
       /\ i \in DOMAIN next.stories /\ next.stories[i].id = StoryAt(i).id
       /\ \/ next.stories[i] = StoryAt(i)
          \/ next.stories[i].revision = StoryAt(i).revision + 1
  /\ Distinct(next) /\ Numbered(next)

\* Decisions are recorded by the sponsor proposed, or on a torn copy.
Sponsored(next) ==
  \A k \in DOMAIN next.sponsorship \ DOMAIN doc.sponsorship :
    LET decision == next.sponsorship[k] IN
    Proposed(decision) \/ ReadTorn(decision.sponsor)

ReviewsSettled(next) ==
  \A r \in DOMAIN doc.reviews : doc.reviews[r].completed =>
    r \in DOMAIN next.reviews /\ next.reviews[r] = doc.reviews[r]

\* A step reads or commits.
Steps(u) ==
  \/ ReadStories(u) \/ ReadOneMore(u)
  \/ at[u] = "done" /\ Unchanged(u)
  \/ /\ at[u] = "done"
     /\ \E next : Commit(u, next) /\ Grown(next) /\ Sponsored(next) /\ ReviewsSettled(next)

LEMMA StoriesTyped ==
  ASSUME NEW d \in Document
  PROVE  /\ d.revision \in Nat /\ d.stories \in Seq(Story)
         /\ DOMAIN d.stories = 1 .. Len(d.stories) /\ Len(d.stories) \in Nat
         /\ \A i \in DOMAIN d.stories :
              d.stories[i] \in Story /\ d.stories[i].revision \in Nat
<1>1. d.revision \in Nat /\ d.stories \in Seq(Story)
  BY DEF Document
<1>2. DOMAIN d.stories = 1 .. Len(d.stories) /\ Len(d.stories) \in Nat
      /\ \A i \in DOMAIN d.stories : d.stories[i] \in Story
  BY <1>1
<1>3. \A s \in Story : s.revision \in Nat
  BY DEF Story
<1> QED BY <1>1, <1>2, <1>3

LEMMA BlankWith ==
  ASSUME NEW s \in Seq(Story), NEW c \in Seq(Comment), NEW r \in Seq(Review)
  PROVE  LET e == [Blank EXCEPT !.stories = s, !.comments = c]
             f == [Blank EXCEPT !.stories = s, !.reviews = r] IN
         /\ e \in Document /\ e.stories = s /\ e.comments = c
         /\ f \in Document /\ f.stories = s /\ f.revision = 0
         /\ f.sponsorship = <<>>
<1> HIDE DocumentAssumption
<1>1. ASSUME NEW d \in Document
      PROVE  LET e == [d EXCEPT !.stories = s, !.comments = c]
                 f == [d EXCEPT !.stories = s, !.reviews = r] IN
             /\ e \in Document /\ e.stories = s /\ e.comments = c
             /\ f \in Document /\ f.stories = s /\ f.revision = d.revision
             /\ f.sponsorship = d.sponsorship
  BY DEF Document
<1>2. <<>> \in Seq(Story) /\ <<>> \in Seq(View) /\ <<>> \in Seq(Review)
      /\ <<>> \in Seq(Comment) /\ <<>> \in Seq(Sponsorship)
  OBVIOUS
<1>3. Blank \in Document /\ Blank.revision = 0 /\ Blank.sponsorship = <<>>
  BY <1>2 DEF Blank, Document
<1> QED BY <1>1, <1>3

LEMMA InvNamesContent == Inv => RevisionNamesContent
BY DEF Inv, StoriesCurrent, PartsCurrent, RevisionNamesContent

LEMMA InitInv == Init => Inv
<1> SUFFICES ASSUME Init PROVE Inv
  OBVIOUS
<1>1. /\ doc \in Document /\ doc.revision = 0 /\ doc.stories = SeedStories
      /\ doc.sponsorship = <<>>
  <2>1. <<>> \in Seq(Comment)
    OBVIOUS
  <2>2. SeedStories \in Seq(Story) /\ SeedReviews \in Seq(Review)
    BY DocumentAssumption
  <2> HIDE DocumentAssumption
  <2> QED BY <2>1, <2>2, BlankWith DEF Init
<1>2. TypeOK
  BY <1>1 DEF Init, TypeOK, ReadSteps
<1>3. \A u \in Users : seen[u] = doc /\ at[u] = "done" /\ since[u] = 0
  BY DEF Init
<1>5. StoriesPrecede(doc)
  BY <1>1, StoriesTyped DEF StoriesPrecede
<1>6. StoriesCurrent /\ PartsCurrent
  BY <1>1, <1>3, <1>5 DEF StoriesCurrent, PartsCurrent
<1>4. Distinct(doc) /\ Numbered(doc)
  BY <1>1, DocumentAssumption DEF Distinct, Numbered
<1> QED BY <1>2, <1>4, <1>6 DEF Inv, IdsUnique, LatestDecisionIsLast

\* A read takes one part of the current document.
LEMMA ReadInv ==
  ASSUME Inv, NEW u \in Users, ReadStories(u) \/ ReadOneMore(u) PROVE Inv'
<1>1. /\ doc \in Document /\ seen \in [Users -> Document]
      /\ at \in [Users -> ReadSteps] /\ since \in [Users -> Nat]
      /\ doc.revision \in Nat
  BY StoriesTyped DEF Inv, TypeOK
<1>2. IdsUnique' /\ LatestDecisionIsLast' /\ doc' = doc
  BY DEF Inv, IdsUnique, LatestDecisionIsLast, ReadStories, ReadOneMore, Fetched
<1>3. CASE ReadStories(u)
  <2> DEFINE copy == [Blank EXCEPT !.stories = doc.stories, !.comments = doc.comments]
  <2>1. /\ copy \in Document /\ copy.stories = doc.stories
        /\ copy.comments = doc.comments
    BY <1>1, BlankWith DEF Document
  <2>2. /\ seen' = [seen EXCEPT ![u] = copy]
        /\ at' = [at EXCEPT ![u] = "revision"]
        /\ since' = [since EXCEPT ![u] = doc.revision]
    BY <1>3 DEF ReadStories
  <2> HIDE DEF copy
  <2>3. TypeOK'
    BY <1>1, <1>2, <2>1, <2>2 DEF TypeOK, ReadSteps
  <2>4. StoriesCurrent'
    BY <1>1, <1>2, <2>1, <2>2, StoriesTyped
    DEF Inv, StoriesCurrent, StoriesPrecede
  <2>5. PartsCurrent'
    BY <1>1, <1>2, <2>1, <2>2 DEF Inv, PartsCurrent
  <2> QED BY <1>2, <2>3, <2>4, <2>5 DEF Inv
<1>4. ASSUME NEW copy \in Document, NEW next \in ReadSteps \ {"revision"},
             Fetched(u, copy, next),
             copy.stories = seen[u].stories, copy.comments = seen[u].comments,
             since[u] <= copy.revision, copy.revision <= doc.revision,
             copy.revision = doc.revision =>
               /\ next # "reviews" => copy.reviews = doc.reviews
               /\ next \notin {"reviews", "boardViews"} =>
                    copy.boardViews = doc.boardViews
               /\ next = "done" => copy.sponsorship = doc.sponsorship
      PROVE  Inv'
  <2>1. /\ seen' = [seen EXCEPT ![u] = copy] /\ at' = [at EXCEPT ![u] = next]
        /\ since' = since
    BY <1>4 DEF Fetched
  <2>2. TypeOK'
    BY <1>1, <1>2, <2>1 DEF TypeOK
  <2>3. StoriesCurrent'
    BY <1>1, <1>2, <1>4, <2>1 DEF Inv, StoriesCurrent, StoriesPrecede
  <2>4. PartsCurrent'
    BY <1>1, <1>2, <1>4, <2>1 DEF Inv, PartsCurrent
  <2> QED BY <1>2, <2>2, <2>3, <2>4 DEF Inv
<1>5. CASE ReadOneMore(u)
  <2>0. seen[u] \in Document
    BY <1>1
  <2>1. CASE at[u] = "revision"
    <3> DEFINE copy == [seen[u] EXCEPT !.revision = doc.revision]
    <3>1. /\ copy \in Document /\ copy.revision = doc.revision
          /\ copy.stories = seen[u].stories /\ copy.comments = seen[u].comments
      BY <1>1, <2>0 DEF Document
    <3>2. Fetched(u, copy, "reviews")
      BY <1>5, <2>1 DEF ReadOneMore
    <3> HIDE DEF copy
    <3>3. since[u] <= copy.revision /\ copy.revision <= doc.revision
      BY <1>1, <3>1 DEF Inv, PartsCurrent
    <3> QED BY <1>4, <3>1, <3>2, <3>3 DEF ReadSteps
  <2>2. CASE at[u] = "reviews"
    <3> DEFINE copy == [seen[u] EXCEPT !.reviews = doc.reviews]
    <3>1. /\ copy \in Document /\ copy.revision = seen[u].revision
          /\ copy.stories = seen[u].stories /\ copy.comments = seen[u].comments
          /\ copy.reviews = doc.reviews
      BY <1>1, <2>0 DEF Document
    <3>2. Fetched(u, copy, "boardViews")
      BY <1>5, <2>2 DEF ReadOneMore
    <3> HIDE DEF copy
    <3>3. since[u] <= copy.revision /\ copy.revision <= doc.revision
      BY <2>2, <3>1 DEF Inv, PartsCurrent
    <3> QED BY <1>4, <3>1, <3>2, <3>3 DEF ReadSteps
  <2>3. CASE at[u] = "boardViews"
    <3> DEFINE copy == [seen[u] EXCEPT !.boardViews = doc.boardViews]
    <3>1. /\ copy \in Document /\ copy.revision = seen[u].revision
          /\ copy.stories = seen[u].stories /\ copy.comments = seen[u].comments
          /\ copy.boardViews = doc.boardViews /\ copy.reviews = seen[u].reviews
      BY <1>1, <2>0 DEF Document
    <3>2. Fetched(u, copy, "sponsorship")
      BY <1>5, <2>3 DEF ReadOneMore
    <3> HIDE DEF copy
    <3>3. /\ since[u] <= copy.revision /\ copy.revision <= doc.revision
          /\ copy.revision = doc.revision => copy.reviews = doc.reviews
      BY <2>3, <3>1 DEF Inv, PartsCurrent
    <3> QED BY <1>4, <3>1, <3>2, <3>3 DEF ReadSteps
  <2>4. CASE at[u] = "sponsorship"
    <3> DEFINE copy == [seen[u] EXCEPT !.sponsorship = doc.sponsorship]
    <3>1. /\ copy \in Document /\ copy.revision = seen[u].revision
          /\ copy.stories = seen[u].stories /\ copy.comments = seen[u].comments
          /\ copy.boardViews = seen[u].boardViews
          /\ copy.reviews = seen[u].reviews /\ copy.sponsorship = doc.sponsorship
      BY <1>1, <2>0 DEF Document
    <3>2. Fetched(u, copy, "done")
      BY <1>5, <2>4 DEF ReadOneMore
    <3> HIDE DEF copy
    <3>3. /\ since[u] <= copy.revision /\ copy.revision <= doc.revision
          /\ copy.revision = doc.revision =>
               copy.reviews = doc.reviews /\ copy.boardViews = doc.boardViews
      BY <2>4, <3>1 DEF Inv, PartsCurrent
    <3> QED BY <1>4, <3>1, <3>2, <3>3 DEF ReadSteps
  <2> QED BY <1>5, <2>1, <2>2, <2>3, <2>4 DEF ReadOneMore
<1> QED BY <1>3, <1>5

\* The document committed comes right after the current one.
LEMMA CommitFacts ==
  ASSUME Inv, NEW u, NEW next, Commit(u, next), Grown(next)
  PROVE  /\ doc' \in Document /\ doc'.revision = doc.revision + 1
         /\ doc'.stories = next.stories /\ doc'.sponsorship = next.sponsorship
         /\ doc'.reviews = next.reviews
<1>1. /\ doc \in Document /\ next \in Document
      /\ doc' = [next EXCEPT !.revision = doc.revision + 1]
  BY DEF Inv, TypeOK, Grown, Commit
<1> HIDE DocumentAssumption
<1>2. doc.revision + 1 \in Nat
  BY <1>1, StoriesTyped
<1>3. ASSUME NEW d \in Document, NEW n \in Nat
      PROVE  LET e == [d EXCEPT !.revision = n] IN
             /\ e \in Document /\ e.revision = n /\ e.stories = d.stories
             /\ e.sponsorship = d.sponsorship /\ e.reviews = d.reviews
  BY DEF Document
<1> QED BY <1>1, <1>2, <1>3

LEMMA StoriesMove ==
  ASSUME Inv, NEW u, NEW next, Commit(u, next), Grown(next),
         NEW a \in Document, StoriesPrecede(a)
  PROVE  \A i \in DOMAIN a.stories :
           /\ i \in DOMAIN doc'.stories
           /\ a.stories[i].id = doc'.stories[i].id
           /\ a.stories[i].revision <= doc'.stories[i].revision
           /\ a.stories[i].revision = doc'.stories[i].revision
                => a.stories[i] = doc'.stories[i]
<1> SUFFICES ASSUME NEW i \in DOMAIN a.stories
             PROVE  /\ i \in DOMAIN doc'.stories
                    /\ a.stories[i].id = doc'.stories[i].id
                    /\ a.stories[i].revision <= doc'.stories[i].revision
                    /\ a.stories[i].revision = doc'.stories[i].revision
                         => a.stories[i] = doc'.stories[i]
  OBVIOUS
<1>1. doc \in Document /\ doc'.stories = next.stories
  BY CommitFacts DEF Inv, TypeOK
<1>2. i \in DOMAIN doc.stories /\ a.stories[i].id = doc.stories[i].id
      /\ a.stories[i].revision <= doc.stories[i].revision
      /\ (a.stories[i].revision = doc.stories[i].revision
            => a.stories[i] = doc.stories[i])
  BY DEF StoriesPrecede
<1>3. i \in DOMAIN doc'.stories /\ doc'.stories[i].id = doc.stories[i].id
      /\ \/ doc'.stories[i] = doc.stories[i]
         \/ doc'.stories[i].revision = doc.stories[i].revision + 1
  BY <1>1, <1>2 DEF Grown, StoryAt
<1>4. a.stories[i].revision \in Nat /\ doc.stories[i].revision \in Nat
  BY <1>1, <1>2, StoriesTyped
<1> QED BY <1>2, <1>3, <1>4

\* Whoever is answered holds the document, the others an earlier state of it.
LEMMA AnsweredInv ==
  ASSUME Inv, NEW u \in Users, Answered(u), at[u] = "done",
         doc' \in Document, doc.revision <= doc'.revision,
         doc'.revision = doc.revision => doc' = doc,
         \A v \in Users : \A i \in DOMAIN seen[v].stories :
           /\ i \in DOMAIN doc'.stories
           /\ seen[v].stories[i].id = doc'.stories[i].id
           /\ seen[v].stories[i].revision <= doc'.stories[i].revision
           /\ seen[v].stories[i].revision = doc'.stories[i].revision
                => seen[v].stories[i] = doc'.stories[i],
         Distinct(doc'), Numbered(doc')
  PROVE  Inv'
<1>1. /\ doc \in Document /\ seen \in [Users -> Document]
      /\ at \in [Users -> ReadSteps] /\ since \in [Users -> Nat]
      /\ doc.revision \in Nat /\ doc'.revision \in Nat
      /\ \A v \in Users : seen[v].revision \in Nat
  BY StoriesTyped DEF Inv, TypeOK
<1>2. /\ seen' = [seen EXCEPT ![u] = doc']
      /\ since' = [since EXCEPT ![u] = doc'.revision] /\ at' = at
  BY DEF Answered
<1>3. TypeOK'
  BY <1>1, <1>2 DEF TypeOK
<1>4. StoriesCurrent'
  <2>1. StoriesPrecede(doc)'
    BY StoriesTyped DEF StoriesPrecede
  <2>2. ASSUME NEW v \in Users PROVE StoriesPrecede(seen[v])'
    BY <1>1, <1>2, <2>1 DEF StoriesPrecede
  <2>3. ASSUME NEW v \in Users, since'[v] = doc'.revision
        PROVE  seen'[v].stories = doc'.stories /\ seen'[v].comments = doc'.comments
    BY <1>1, <1>2, <2>3 DEF Inv, StoriesCurrent, PartsCurrent
  <2> QED BY <2>2, <2>3 DEF StoriesCurrent
<1>5. PartsCurrent'
  <2>1. \A v \in Users \ {u} : UNCHANGED <<seen[v], at[v], since[v]>>
    BY <1>1, <1>2
  <2>2. seen'[u] = doc' /\ since'[u] = doc'.revision /\ at'[u] = "done"
    BY <1>1, <1>2
  <2> QED BY <1>1, <2>1, <2>2 DEF Inv, PartsCurrent
<1> QED BY <1>3, <1>4, <1>5 DEF Inv, IdsUnique, LatestDecisionIsLast

LEMMA UnchangedInv ==
  ASSUME Inv, NEW u \in Users, Unchanged(u), at[u] = "done" PROVE Inv'
BY AnsweredInv, StoriesTyped
DEF Unchanged, Inv, TypeOK, IdsUnique, LatestDecisionIsLast, StoriesCurrent,
    StoriesPrecede

LEMMA CommitInv ==
  ASSUME Inv, NEW u \in Users, at[u] = "done", NEW next, Commit(u, next),
         Grown(next)
  PROVE  Inv'
<1>1. /\ doc' \in Document /\ doc'.revision = doc.revision + 1
      /\ doc'.stories = next.stories /\ doc'.sponsorship = next.sponsorship
      /\ doc.revision \in Nat
  BY CommitFacts, StoriesTyped DEF Inv, TypeOK
<1>2. Distinct(doc') /\ Numbered(doc')
  BY <1>1 DEF Grown, Distinct, Numbered
<1>3. \A v \in Users : seen[v] \in Document /\ StoriesPrecede(seen[v])
  BY DEF Inv, TypeOK, StoriesCurrent
<1>4. Answered(u)
  BY DEF Commit
<1> QED BY <1>1, <1>2, <1>3, <1>4, StoriesMove, AnsweredInv

-----------------------------------------------------------------------------
\* What the operations commit.

\* Changing anything but the stories and the decisions keeps a document Grown.
LEMMA GrownRest ==
  ASSUME Inv, NEW d, Grown(d)
  PROVE  /\ \A x \in Seq(Review) :
              LET e == [d EXCEPT !.reviews = x] IN
              Grown(e) /\ e.reviews = x /\ e.sponsorship = d.sponsorship
         /\ \A x \in Seq(Comment) :
              LET e == [d EXCEPT !.comments = x] IN
              /\ Grown(e) /\ e.reviews = d.reviews
              /\ e.sponsorship = d.sponsorship
         /\ \A x \in Seq(View) :
              LET e == [d EXCEPT !.boardViews = x] IN
              /\ Grown(e) /\ e.reviews = d.reviews
              /\ e.sponsorship = d.sponsorship
<1>1. d \in Document
  BY DEF Grown
<1> DEFINE Same(e) == /\ e \in Document /\ e.revision = d.revision
                      /\ e.stories = d.stories /\ e.sponsorship = d.sponsorship
<1>2. \A e : Same(e) => Grown(e)
  BY DEF Grown, Distinct, Numbered
<1>3. \A x \in Seq(Review) :
        LET e == [d EXCEPT !.reviews = x] IN Same(e) /\ e.reviews = x
  BY <1>1 DEF Document
<1>4. \A x \in Seq(Comment) :
        LET e == [d EXCEPT !.comments = x] IN Same(e) /\ e.reviews = d.reviews
  BY <1>1 DEF Document
<1>5. \A x \in Seq(View) :
        LET e == [d EXCEPT !.boardViews = x] IN Same(e) /\ e.reviews = d.reviews
  BY <1>1 DEF Document
<1> HIDE DEF Same
<1> QED BY <1>2, <1>3, <1>4, <1>5 DEF Same

LEMMA GrownItself ==
  ASSUME Inv PROVE Grown(doc)
BY DEF Inv, TypeOK, Grown, StoryAt, IdsUnique, LatestDecisionIsLast

LEMMA GrownStories ==
  ASSUME Inv, NEW x \in Seq(Story),
         \A i \in DOMAIN doc.stories :
           /\ i \in DOMAIN x /\ x[i].id = StoryAt(i).id
           /\ x[i] = StoryAt(i) \/ x[i].revision = StoryAt(i).revision + 1,
         \A i, j \in DOMAIN x : x[i].id = x[j].id => i = j
  PROVE  LET e == [doc EXCEPT !.stories = x] IN
         /\ Grown(e) /\ e.reviews = doc.reviews
         /\ e.sponsorship = doc.sponsorship
<1> DEFINE e == [doc EXCEPT !.stories = x]
<1>1. doc \in Document /\ Numbered(doc)
  BY DEF Inv, TypeOK, LatestDecisionIsLast
<1>2. /\ e \in Document /\ e.revision = doc.revision /\ e.stories = x
      /\ e.sponsorship = doc.sponsorship /\ e.reviews = doc.reviews
  BY <1>1 DEF Document
<1> HIDE DEF e
<1>3. Distinct(e) /\ Numbered(e)
  BY <1>1, <1>2 DEF Distinct, Numbered
<1>4. Grown(e)
  BY <1>2, <1>3 DEF Grown
<1> QED BY <1>2, <1>4 DEF e

LEMMA GrownChanged ==
  ASSUME Inv, NEW i \in DOMAIN doc.stories, NEW s \in Story,
         s.id = StoryAt(i).id
  PROVE  /\ Grown(Changed(i, s)) /\ Changed(i, s).reviews = doc.reviews
         /\ Changed(i, s).sponsorship = doc.sponsorship
<1>1. doc \in Document /\ Distinct(doc)
  BY DEF Inv, TypeOK, IdsUnique
<1>2. StoryAt(i).revision + 1 \in Nat
  BY <1>1, StoriesTyped DEF StoryAt
<1> DEFINE t == [s EXCEPT !.revision = StoryAt(i).revision + 1]
           x == [doc.stories EXCEPT ![i] = t]
<1>3. t \in Story /\ t.id = s.id /\ t.revision = StoryAt(i).revision + 1
  <2> HIDE DocumentAssumption
  <2>1. ASSUME NEW n \in Nat
        PROVE  LET q == [s EXCEPT !.revision = n] IN
               q \in Story /\ q.id = s.id /\ q.revision = n
    BY DEF Story
  <2> QED BY <1>2, <2>1
<1> HIDE DEF t
<1>4. /\ x \in Seq(Story) /\ DOMAIN x = DOMAIN doc.stories /\ x[i] = t
      /\ \A j \in DOMAIN x : j # i => x[j] = StoryAt(j)
  BY <1>1, <1>3, StoriesTyped DEF StoryAt
<1> HIDE DEF x
<1>5. \A j \in DOMAIN x : x[j].id = StoryAt(j).id
  BY <1>1, <1>3, <1>4 DEF StoryAt
<1>6. \A j, k \in DOMAIN x : x[j].id = x[k].id => j = k
  BY <1>1, <1>4, <1>5 DEF Distinct, StoryAt
<1>7. LET e == [doc EXCEPT !.stories = x] IN
      Grown(e) /\ e.reviews = doc.reviews /\ e.sponsorship = doc.sponsorship
  BY <1>3, <1>4, <1>5, <1>6, GrownStories
<1>8. Changed(i, s) = [doc EXCEPT !.stories = x]
  BY <1>1 DEF Changed, x, t, Document
<1> QED BY <1>7, <1>8

LEMMA GrownAppended ==
  ASSUME Inv, NEW s \in Story,
         \A i \in DOMAIN doc.stories : StoryAt(i).id # s.id
  PROVE  LET e == [doc EXCEPT !.stories = Append(@, s)] IN
         /\ Grown(e) /\ e.reviews = doc.reviews
         /\ e.sponsorship = doc.sponsorship
<1>1. doc \in Document /\ Distinct(doc)
  BY DEF Inv, TypeOK, IdsUnique
<1> DEFINE x == Append(doc.stories, s)
<1>2. /\ x \in Seq(Story)
      /\ \A i \in DOMAIN doc.stories : i \in DOMAIN x /\ x[i] = StoryAt(i)
      /\ \A i \in DOMAIN x : i \in DOMAIN doc.stories \/ x[i] = s
      /\ \A i, j \in DOMAIN x :
           i \notin DOMAIN doc.stories /\ j \notin DOMAIN doc.stories => i = j
  BY <1>1, StoriesTyped DEF StoryAt
<1> HIDE DEF x
<1>3. \A i, j \in DOMAIN x : x[i].id = x[j].id => i = j
  BY <1>1, <1>2 DEF Distinct, StoryAt
<1>4. [doc EXCEPT !.stories = Append(@, s)] = [doc EXCEPT !.stories = x]
  BY DEF x
<1> QED BY <1>2, <1>3, <1>4, GrownStories

-----------------------------------------------------------------------------
\* Each operation reads or commits a grown document.

LEMMA SponsoredUnchanged ==
  ASSUME NEW d, d.sponsorship = doc.sponsorship PROVE Sponsored(d)
BY DEF Sponsored

LEMMA SettledUnchanged ==
  ASSUME NEW d, d.reviews = doc.reviews PROVE ReviewsSettled(d)
BY DEF ReviewsSettled

LEMMA UpsertStorySteps ==
  ASSUME Inv, NEW u \in Users, NEW s \in Story, NEW revision,
         UpsertStory(u, s, revision)
  PROVE  Steps(u)
<1>0. at[u] = "done"
  BY DEF UpsertStory, Expects
<1>1. CASE \E i \in DOMAIN doc.stories : StoryAt(i).id = s.id
  <2>1. PICK i \in DOMAIN doc.stories :
          StoryAt(i).id = s.id /\ Commit(u, Changed(i, s))
    BY <1>1 DEF UpsertStory
  <2>2. /\ Grown(Changed(i, s)) /\ Changed(i, s).reviews = doc.reviews
        /\ Changed(i, s).sponsorship = doc.sponsorship
    BY <2>1, GrownChanged
  <2> QED BY <1>0, <2>1, <2>2, SponsoredUnchanged, SettledUnchanged DEF Steps
<1>2. CASE ~ \E i \in DOMAIN doc.stories : StoryAt(i).id = s.id
  <2> DEFINE e == [doc EXCEPT !.stories = Append(@, s)]
  <2>1. Commit(u, e)
    BY <1>2 DEF UpsertStory
  <2>2. Grown(e) /\ e.reviews = doc.reviews /\ e.sponsorship = doc.sponsorship
    BY <1>2, GrownAppended
  <2> HIDE DEF e
  <2> QED BY <1>0, <2>1, <2>2, SponsoredUnchanged, SettledUnchanged DEF Steps
<1> QED BY <1>1, <1>2

LEMMA UpsertBoardViewSteps ==
  ASSUME Inv, NEW u \in Users, NEW id \in Views, NEW name \in Titles,
         NEW revision, UpsertBoardView(u, id, name, revision)
  PROVE  Steps(u)
<1>0. at[u] = "done"
  BY DEF UpsertBoardView, Expects
<1>1. doc \in Document /\ doc.boardViews \in Seq(View)
  BY DEF Inv, TypeOK, Document
<1>2. ASSUME NEW x \in Seq(View), Commit(u, [doc EXCEPT !.boardViews = x])
      PROVE  Steps(u)
  <2> DEFINE e == [doc EXCEPT !.boardViews = x]
  <2>1. Grown(e) /\ e.reviews = doc.reviews /\ e.sponsorship = doc.sponsorship
    BY GrownItself, GrownRest
  <2>2. Commit(u, e)
    BY <1>2
  <2> HIDE DEF e
  <2> QED BY <1>0, <2>1, <2>2, SponsoredUnchanged, SettledUnchanged DEF Steps
<1>3. CASE \E i \in DOMAIN doc.boardViews : doc.boardViews[i].id = id
  <2>1. PICK i \in DOMAIN doc.boardViews :
          Commit(u, [doc EXCEPT !.boardViews[i].name = name,
                                !.boardViews[i].revision = @ + 1])
    BY <1>3 DEF UpsertBoardView
  <2> DEFINE v == [doc.boardViews[i] EXCEPT !.name = name, !.revision = @ + 1]
             x == [doc.boardViews EXCEPT ![i] = v]
  <2>2. doc.boardViews[i] \in View
    BY <1>1
  <2>3. v \in View
    <3> HIDE DocumentAssumption
    <3>1. ASSUME NEW w \in View, NEW n \in Nat
          PROVE  [w EXCEPT !.name = name, !.revision = n] \in View
      BY DEF View
    <3>2. doc.boardViews[i].revision + 1 \in Nat
      BY <2>2 DEF View
    <3> QED BY <2>2, <3>1, <3>2
  <2>4. x \in Seq(View)
    <3> HIDE DEF v
    <3> QED BY <1>1, <2>3
  <2>5. [doc EXCEPT !.boardViews[i].name = name, !.boardViews[i].revision = @ + 1]
          = [doc EXCEPT !.boardViews = x]
    BY <1>1, <2>2 DEF Document, View
  <2> QED BY <1>2, <2>1, <2>4, <2>5
<1>4. CASE ~ \E i \in DOMAIN doc.boardViews : doc.boardViews[i].id = id
  <2> DEFINE v == [id |-> id, name |-> name, revision |-> 1]
  <2>1. v \in View
    BY DEF View
  <2>2. Append(doc.boardViews, v) \in Seq(View)
    BY <1>1, <2>1
  <2>3. Commit(u, [doc EXCEPT !.boardViews = Append(doc.boardViews, v)])
    BY <1>4 DEF UpsertBoardView
  <2> QED BY <1>2, <2>2, <2>3
<1> QED BY <1>3, <1>4

LEMMA StoredStory ==
  ASSUME Inv, NEW i \in DOMAIN doc.stories
  PROVE  StoryAt(i) \in Story
BY StoriesTyped DEF Inv, TypeOK, StoryAt

LEMMA TransitionStorySteps ==
  ASSUME Inv, NEW u \in Users, NEW i \in DOMAIN doc.stories,
         NEW status \in Statuses, NEW revision,
         TransitionStory(u, i, status, revision)
  PROVE  Steps(u)
<1>0. at[u] = "done"
  BY DEF TransitionStory, Expects
<1>1. CASE StoryAt(i).status = status
  BY <1>0, <1>1 DEF TransitionStory, Steps
<1>2. CASE StoryAt(i).status # status
  <2> DEFINE s == [StoryAt(i) EXCEPT !.status = status]
  <2>1. s \in Story /\ s.id = StoryAt(i).id
    BY StoredStory DEF Story
  <2>2. Commit(u, Changed(i, s))
    BY <1>2 DEF TransitionStory
  <2> HIDE DEF s
  <2> QED BY <1>0, <2>1, <2>2, GrownChanged, SponsoredUnchanged, SettledUnchanged
          DEF Steps
<1> QED BY <1>1, <1>2

LEMMA AssignReviewSteps ==
  ASSUME Inv, NEW u \in Users, NEW i \in DOMAIN doc.stories, NEW revision,
         AssignReview(u, i, revision)
  PROVE  Steps(u)
<1>0. at[u] = "done"
  BY DEF AssignReview, Expects
<1> DEFINE s == [StoryAt(i) EXCEPT !.decision = "proposed"]
           r == [story |-> StoryAt(i).id, decision |-> NONE, completed |-> FALSE]
           x == Append(doc.reviews, r)
<1>1. s \in Story /\ s.id = StoryAt(i).id
  BY StoredStory DEF Story
<1>2. doc.reviews \in Seq(Review) /\ r \in Review
  BY StoredStory DEF Inv, TypeOK, Document, Review, Story, Or
<1>3. /\ x \in Seq(Review)
      /\ \A k \in DOMAIN doc.reviews : k \in DOMAIN x /\ x[k] = doc.reviews[k]
  <2> HIDE DEF r
  <2> QED BY <1>2
<1> HIDE DEF s
<1>4. /\ Grown(Changed(i, s)) /\ Changed(i, s).reviews = doc.reviews
      /\ Changed(i, s).sponsorship = doc.sponsorship
  BY <1>1, GrownChanged
<1> DEFINE e == [Changed(i, s) EXCEPT !.reviews = x]
<1>5. Grown(e) /\ e.reviews = x /\ e.sponsorship = doc.sponsorship
  BY <1>3, <1>4, GrownRest
<1>6. Commit(u, e)
  BY <1>4 DEF AssignReview, s, r
<1> HIDE DEF e, x
<1>7. ReviewsSettled(e)
  BY <1>3, <1>5 DEF ReviewsSettled
<1> QED BY <1>0, <1>5, <1>6, <1>7, SponsoredUnchanged DEF Steps

LEMMA DecideReviewSteps ==
  ASSUME Inv, NEW u \in Users, NEW r \in DOMAIN doc.reviews,
         NEW decision \in Decisions, NEW revision,
         DecideReview(u, r, decision, revision)
  PROVE  Steps(u)
<1>0. at[u] = "done"
  BY DEF DecideReview, Expects
<1>1. CASE Unchanged(u)
  BY <1>0, <1>1 DEF Steps
<1>2. CASE /\ ~doc.reviews[r].completed
           /\ \E i \in DOMAIN doc.stories :
                Commit(u, [Changed(i, [StoryAt(i) EXCEPT !.decision = decision])
                           EXCEPT !.reviews[r].decision = decision,
                                  !.reviews[r].completed = TRUE])
  <2>1. PICK i \in DOMAIN doc.stories :
          Commit(u, [Changed(i, [StoryAt(i) EXCEPT !.decision = decision])
                     EXCEPT !.reviews[r].decision = decision,
                            !.reviews[r].completed = TRUE])
    BY <1>2
  <2> DEFINE s == [StoryAt(i) EXCEPT !.decision = decision]
             d == Changed(i, s)
             v == [doc.reviews[r] EXCEPT !.decision = decision,
                                         !.completed = TRUE]
             x == [doc.reviews EXCEPT ![r] = v]
             e == [d EXCEPT !.reviews = x]
  <2>2. s \in Story /\ s.id = StoryAt(i).id
    BY StoredStory DEF Story
  <2>3. /\ Grown(d) /\ d.reviews = doc.reviews
        /\ d.sponsorship = doc.sponsorship
    <3> HIDE DEF s
    <3> QED BY <2>2, GrownChanged
  <2>4. doc.reviews \in Seq(Review) /\ doc.reviews[r] \in Review
    BY DEF Inv, TypeOK, Document
  <2>5. v \in Review
    BY <2>4 DEF Review, Or
  <2>6. /\ x \in Seq(Review) /\ DOMAIN x = DOMAIN doc.reviews
        /\ \A k \in DOMAIN doc.reviews : k # r => x[k] = doc.reviews[k]
    <3> HIDE DEF v
    <3> QED BY <2>4, <2>5
  <2>7. Commit(u, e)
    <3> HIDE DEF d
    <3>1. d \in Document
      BY <2>3 DEF Grown
    <3>2. [d EXCEPT !.reviews[r].decision = decision,
                    !.reviews[r].completed = TRUE] = e
      BY <2>3, <2>4, <3>1 DEF Document, Review
    <3> QED BY <2>1, <3>2 DEF d
  <2>8. Grown(e) /\ e.reviews = x /\ e.sponsorship = doc.sponsorship
    <3> HIDE DEF d, x
    <3> QED BY <2>3, <2>6, GrownRest
  <2> HIDE DEF d, x, e
  <2>9. ReviewsSettled(e)
    BY <1>2, <2>6, <2>8 DEF ReviewsSettled
  <2> QED BY <1>0, <2>7, <2>8, <2>9, SponsoredUnchanged DEF Steps
<1> QED BY <1>1, <1>2 DEF DecideReview

LEMMA AddCommentSteps ==
  ASSUME Inv, NEW u \in Users, NEW i \in DOMAIN doc.stories,
         NEW parent \in {0} \cup DOMAIN doc.comments, NEW revision,
         AddComment(u, i, parent, revision)
  PROVE  Steps(u)
<1>0. at[u] = "done"
  BY DEF AddComment, Expects
<1> DEFINE c == [story |-> StoryAt(i).id, parent |-> parent]
           x == Append(doc.comments, c)
           e == [doc EXCEPT !.comments = x]
<1>1. doc.comments \in Seq(Comment)
  BY DEF Inv, TypeOK, Document
<1>2. parent \in Nat /\ StoryAt(i).id \in StoryIds
  BY <1>1, StoredStory DEF Story
<1>3. c \in Comment
  BY <1>2 DEF Comment
<1>4. x \in Seq(Comment)
  <2> HIDE DEF c
  <2> QED BY <1>1, <1>3
<1>5. Grown(e) /\ e.reviews = doc.reviews /\ e.sponsorship = doc.sponsorship
  <2> HIDE DEF x
  <2> QED BY <1>4, GrownItself, GrownRest
<1>6. Commit(u, e)
  BY DEF AddComment
<1> HIDE DEF e
<1> QED BY <1>0, <1>5, <1>6, SponsoredUnchanged, SettledUnchanged DEF Steps

LEMMA ProposeSteps ==
  ASSUME Inv, NEW u \in Users, NEW p \in Scopes, NEW t \in Titles,
         NEW sponsor \in Or(Users), NEW evidence \in InitialEvidence,
         NEW revision,
         ProposeFeatureRequest(u, p, t, sponsor, evidence, revision)
  PROVE  Steps(u)
<1>0. at[u] = "done"
  BY DEF ProposeFeatureRequest, Expects
<1>1. CASE Duplicates(p, t) # {}
  BY <1>0, <1>1 DEF ProposeFeatureRequest, Steps
<1>2. CASE Duplicates(p, t) = {}
  <2> DEFINE S(n) == [id |-> n, request |-> TRUE, home |-> p, title |-> t,
                      status |-> "idea", decision |-> NONE,
                      sponsor |-> sponsor, evidence |-> evidence,
                      revision |-> 1]
             E(n) == [doc EXCEPT !.stories = Append(@, S(n))]
  <2>1. PICK n \in Numbers : IsNext(n, RequestNumbers) /\ Commit(u, E(n))
    BY <1>2 DEF ProposeFeatureRequest
  <2>2. n \in Nat \ {0} /\ n \in StoryIds
    BY <2>1, DocumentAssumption DEF Numbers, StoryIds
  <2>3. \A i \in DOMAIN doc.stories : StoryAt(i).id # n
    <3>1. n \notin Plain
      BY <2>2, DocumentAssumption
    <3>2. n \notin RequestNumbers
      BY <2>1, <2>2 DEF IsNext
    <3> QED BY <3>1, <3>2 DEF RequestNumbers
  <2>4. evidence \in Seq(Nat \ {0})
    <3>1. PICK k \in 0 .. MaxEvidence : evidence = [l \in 1 .. k |-> l]
      BY DEF InitialEvidence
    <3> DEFINE P == Nat \ {0}
    <3>2. k \in Nat /\ \A l \in 1 .. k : l \in P
      BY DocumentAssumption
    <3> HIDE DEF P
    <3>3. evidence \in Seq(P)
      BY <3>1, <3>2
    <3> QED BY <3>3 DEF P
  <2>5. S(n) \in Story /\ S(n).id = n
    <3> HIDE DocumentAssumption
    <3> QED BY <2>2, <2>4 DEF Story
  <2> HIDE DEF S
  <2>6. /\ Grown(E(n)) /\ E(n).reviews = doc.reviews
        /\ E(n).sponsorship = doc.sponsorship
    BY <2>3, <2>5, GrownAppended
  <2> HIDE DEF E
  <2> QED BY <1>0, <2>1, <2>6, SponsoredUnchanged, SettledUnchanged DEF Steps
<1> QED BY <1>1, <1>2

LEMMA AddEvidenceSteps ==
  ASSUME Inv, NEW u \in Users, NEW i \in DOMAIN doc.stories, NEW revision,
         AddRequestEvidence(u, i, revision)
  PROVE  Steps(u)
<1> DEFINE s(n) == [StoryAt(i) EXCEPT !.evidence = Append(@, n)]
<1>1. PICK n \in Numbers : IsNext(n, EvidenceNumbers(StoryAt(i)))
                           /\ Commit(u, Changed(i, s(n)))
  BY DEF AddRequestEvidence
<1> DEFINE old == StoryAt(i).evidence
           new == Append(old, n)
<1>2. n \in Nat \ {0} /\ old \in Seq(Nat \ {0})
  BY <1>1, StoredStory, DocumentAssumption DEF Numbers, Story
<1> HIDE DEF old
<1>3. new \in Seq(Nat \ {0})
  BY <1>2
<1> HIDE DEF new
<1>4. s(n) \in Story /\ s(n).id = StoryAt(i).id
  BY <1>3, StoredStory DEF Story, new, old
<1> HIDE DEF s
<1>5. at[u] = "done"
  BY DEF AddRequestEvidence, Expects
<1> QED BY <1>1, <1>4, <1>5, GrownChanged, SponsoredUnchanged, SettledUnchanged
        DEF Steps

\* A decision is accepted only from a copy with the current revision: what is
\* read after the revision is current in it, and so are the stories unless the
\* copy is torn.
LEMMA DecideSponsorshipSteps ==
  ASSUME Inv, NEW u \in Users, NEW i \in DOMAIN seen[u].stories,
         NEW choice \in {"confirmed", "declined"},
         DecideSponsorship(u, i, choice)
  PROVE  Steps(u)
<1>1. doc \in Document /\ doc.sponsorship \in Seq(Sponsorship)
      /\ seen[u] \in Document /\ seen[u].revision \in Nat
  BY StoriesTyped DEF Inv, TypeOK, Document
<1>2. at[u] = "done" /\ seen[u].revision = doc.revision
  BY <1>1, DocumentAssumption DEF DecideSponsorship, RecordSponsorship, Expects
<1>3. seen[u].sponsorship = doc.sponsorship
  BY <1>2 DEF Inv, PartsCurrent
<1> DEFINE id == seen[u].stories[i].id
           a(n) == [story |-> id, sponsor |-> u, decision |-> choice,
                    revision |-> n]
           x(n) == Append(doc.sponsorship, a(n))
           e(n) == [doc EXCEPT !.sponsorship = x(n)]
<1>4. /\ seen[u].stories[i].sponsor = u
      /\ since[u] = doc.revision =>
           StoryAt(i).sponsor = u /\ StoryAt(i).id = id /\ i \in DOMAIN doc.stories
  BY DEF DecideSponsorship, StoryAt, Inv, StoriesCurrent
<1>5. PICK n \in Numbers : IsNext(n, Priors(doc, id, u)) /\ Commit(u, e(n))
  BY <1>3 DEF DecideSponsorship, RecordSponsorship, Priors
<1>6. n \in Nat \ {0} /\ id \in StoryIds
  <2>1. seen[u].stories[i] \in Story
    BY <1>1, StoriesTyped
  <2> QED BY <1>5, <2>1, DocumentAssumption DEF Numbers, Story
<1>7. a(n) \in Sponsorship
  BY <1>6 DEF Sponsorship
<1>8. \A k \in DOMAIN doc.sponsorship :
        doc.sponsorship[k].story = id /\ doc.sponsorship[k].sponsor = u
          => doc.sponsorship[k].revision < n
  BY <1>5 DEF IsNext, Priors
<1>9. a(n).story = id /\ a(n).sponsor = u /\ a(n).revision = n
  OBVIOUS
<1> HIDE DEF a
<1>10. /\ x(n) \in Seq(Sponsorship)
       /\ \A k \in DOMAIN x(n) :
            \/ k \in DOMAIN doc.sponsorship /\ x(n)[k] = doc.sponsorship[k]
            \/ /\ k \notin DOMAIN doc.sponsorship /\ x(n)[k] = a(n)
               /\ \A l \in DOMAIN x(n) : l <= k
  BY <1>1, <1>7
<1> HIDE DEF x
<1>11. /\ e(n) \in Document /\ e(n).revision = doc.revision
       /\ e(n).stories = doc.stories /\ e(n).reviews = doc.reviews
       /\ e(n).sponsorship = x(n)
  BY <1>1, <1>10 DEF Document
<1> HIDE DEF e
<1>12. Numbered(e(n))
  <2> SUFFICES ASSUME NEW k \in DOMAIN x(n), NEW l \in DOMAIN x(n), k < l,
                      x(n)[k].story = x(n)[l].story,
                      x(n)[k].sponsor = x(n)[l].sponsor
               PROVE  x(n)[k].revision < x(n)[l].revision
    BY <1>11 DEF Numbered
  <2>1. k \in Nat /\ l \in Nat
    BY <1>10
  <2>2. k \in DOMAIN doc.sponsorship /\ x(n)[k] = doc.sponsorship[k]
    BY <1>10, <2>1
  <2>3. CASE l \in DOMAIN doc.sponsorship
    BY <1>10, <2>2, <2>3 DEF Inv, LatestDecisionIsLast, Numbered
  <2>4. CASE l \notin DOMAIN doc.sponsorship
    BY <1>8, <1>9, <1>10, <2>2, <2>4
  <2> QED BY <2>3, <2>4
<1>13. Grown(e(n))
  BY <1>11, <1>12, GrownItself DEF Grown, Distinct
<1>14. Sponsored(e(n))
  BY <1>2, <1>4, <1>9, <1>10, <1>11 DEF Sponsored, Proposed, ReadTorn
<1> QED BY <1>2, <1>5, <1>11, <1>13, <1>14, SettledUnchanged DEF Steps

-----------------------------------------------------------------------------
\* The stories a client sends are stories.
LEMMA SentStories ==
  ASSUME Inv, NEW u \in Users
  PROVE  /\ \A s \in Written : s \in Story
         /\ \A i \in DOMAIN seen[u].stories :
              \A s \in Edited(seen[u].stories[i]) : s \in Story
<1> DEFINE E == Seq(Nat \ {0})
<1>0. EvidenceSent \subseteq E /\ Authored \subseteq StoryIds
  BY DocumentAssumption
<1> HIDE DEF E
<1>1. ASSUME NEW s \in Written PROVE s \in Story
  <2>1. s \in [id : StoryIds, request : BOOLEAN, home : Scopes, title : Titles,
                status : {"idea"} \cup Statuses,
                decision : {NONE, "proposed"} \cup Decisions,
                sponsor : Or(Users), evidence : E, revision : Nat]
    BY <1>0 DEF Written, Or
  <2> QED BY <2>1 DEF Story, E
<1>2. ASSUME NEW i \in DOMAIN seen[u].stories,
             NEW s \in Edited(seen[u].stories[i])
      PROVE  s \in Story
  <2> DEFINE o == seen[u].stories[i]
  <2>1. o \in Story
    BY StoriesTyped DEF Inv, TypeOK
  <2> HIDE DEF o
  <2>2. ASSUME NEW t \in Titles, s = [o EXCEPT !.title = t]
        PROVE  s \in Story
    BY <2>1, <2>2 DEF Story
  <2>3. ASSUME NEW p \in Or(Users), s = [o EXCEPT !.sponsor = p]
        PROVE  s \in Story
    BY <2>1, <2>3 DEF Story
  <2>4. ASSUME NEW e \in EvidenceSent, s = [o EXCEPT !.evidence = e]
        PROVE  s \in Story
    BY <1>0, <2>1, <2>4 DEF Story, E
  <2> QED BY <2>2, <2>3, <2>4 DEF Edited, o
<1> QED BY <1>1, <1>2

LEMMA NextSteps ==
  ASSUME Inv, Next PROVE \E u \in Users : Steps(u)
<1> SUFFICES ASSUME NEW u \in Users,
       \/ ReadStories(u) \/ ReadOneMore(u)
       \/ \E revision \in Offers(u) :
            \/ \E s \in Written : UpsertStory(u, s, revision)
            \/ \E i \in DOMAIN seen[u].stories :
                 \E s \in Edited(seen[u].stories[i]) :
                   UpsertStory(u, s, revision)
            \/ \E id \in Views, name \in Titles :
                 UpsertBoardView(u, id, name, revision)
            \/ \E i \in DOMAIN doc.stories :
                 \/ \E s \in Statuses : TransitionStory(u, i, s, revision)
                 \/ AssignReview(u, i, revision)
                 \/ \E p \in {0} \cup DOMAIN doc.comments :
                      AddComment(u, i, p, revision)
                 \/ AddRequestEvidence(u, i, revision)
            \/ \E r \in DOMAIN doc.reviews, d \in Decisions :
                 DecideReview(u, r, d, revision)
            \/ \E p \in Scopes, t \in Titles, sponsor \in Or(Users),
                  e \in InitialEvidence :
                 ProposeFeatureRequest(u, p, t, sponsor, e, revision)
       \/ \E i \in DOMAIN seen[u].stories, c \in {"confirmed", "declined"} :
            DecideSponsorship(u, i, c)
     PROVE Steps(u)
  BY DEF Next
<1>1. CASE ReadStories(u) \/ ReadOneMore(u)
  BY <1>1 DEF Steps
<1>2. ASSUME NEW revision, NEW s \in Written, UpsertStory(u, s, revision)
      PROVE  Steps(u)
  BY <1>2, SentStories, UpsertStorySteps
<1>3. ASSUME NEW revision, NEW i \in DOMAIN seen[u].stories,
             NEW s \in Edited(seen[u].stories[i]), UpsertStory(u, s, revision)
      PROVE  Steps(u)
  BY <1>3, SentStories, UpsertStorySteps
<1>4. ASSUME NEW revision, NEW id \in Views, NEW name \in Titles,
             UpsertBoardView(u, id, name, revision)
      PROVE  Steps(u)
  BY <1>4, UpsertBoardViewSteps
<1>5. ASSUME NEW revision, NEW i \in DOMAIN doc.stories, NEW s \in Statuses,
             TransitionStory(u, i, s, revision)
      PROVE  Steps(u)
  BY <1>5, TransitionStorySteps
<1>6. ASSUME NEW revision, NEW i \in DOMAIN doc.stories,
             AssignReview(u, i, revision)
      PROVE  Steps(u)
  BY <1>6, AssignReviewSteps
<1>7. ASSUME NEW revision, NEW i \in DOMAIN doc.stories,
             NEW p \in {0} \cup DOMAIN doc.comments,
             AddComment(u, i, p, revision)
      PROVE  Steps(u)
  BY <1>7, AddCommentSteps
<1>8. ASSUME NEW revision, NEW i \in DOMAIN doc.stories,
             AddRequestEvidence(u, i, revision)
      PROVE  Steps(u)
  BY <1>8, AddEvidenceSteps
<1>9. ASSUME NEW revision, NEW r \in DOMAIN doc.reviews, NEW d \in Decisions,
             DecideReview(u, r, d, revision)
      PROVE  Steps(u)
  BY <1>9, DecideReviewSteps
<1>10. ASSUME NEW revision, NEW p \in Scopes, NEW t \in Titles,
              NEW sponsor \in Or(Users), NEW e \in InitialEvidence,
              ProposeFeatureRequest(u, p, t, sponsor, e, revision)
       PROVE  Steps(u)
  BY <1>10, ProposeSteps
<1>11. ASSUME NEW i \in DOMAIN seen[u].stories,
              NEW c \in {"confirmed", "declined"}, DecideSponsorship(u, i, c)
       PROVE  Steps(u)
  BY <1>11, DecideSponsorshipSteps
<1> QED BY <1>1, <1>2, <1>3, <1>4, <1>5, <1>6, <1>7, <1>8, <1>9, <1>10, <1>11

LEMMA Invariance == Spec => []Inv
<1>1. Inv /\ [Next]_vars => Inv'
  <2> SUFFICES ASSUME Inv, [Next]_vars PROVE Inv'
    OBVIOUS
  <2>1. CASE Next
    <3>1. PICK u \in Users : Steps(u)
      BY <2>1, NextSteps
    <3> QED BY <3>1, ReadInv, UnchangedInv, CommitInv DEF Steps
  <2>2. CASE UNCHANGED vars
    BY <2>2 DEF vars, Inv, TypeOK, StoriesCurrent, StoriesPrecede, PartsCurrent,
                IdsUnique, LatestDecisionIsLast
  <2> QED BY <2>1, <2>2
<1> QED BY <1>1, InitInv, PTL DEF Spec

-----------------------------------------------------------------------------
\* The document and all copies are well-formed, whatever clients send back
\* (the validators of operations.ts).
THEOREM TypeCorrect == Spec => []TypeOK
<1>1. Inv => TypeOK
  BY DEF Inv
<1> QED BY <1>1, Invariance, PTL

\* A revision names one content, of every story and of the document, so that
\* an accepted expectedRevision means the caller saw what it replaces; of a
\* copy read in parts it is so for all but the stories.
THEOREM CopiesCurrentByRevision == Spec => []RevisionNamesContent
<1> QED BY InvNamesContent, Invariance, PTL

\* The ids given out by nextFeatureRequestId never meet one in use, nor does
\* an upsert make two stories share one.
THEOREM IdsStayUnique == Spec => []IdsUnique
<1>1. Inv => IdsUnique
  BY DEF Inv
<1> QED BY <1>1, Invariance, PTL

\* The latest decision of a sponsor, by revision, is the last one recorded.
THEOREM DecisionsInOrder == Spec => []LatestDecisionIsLast
<1>1. Inv => LatestDecisionIsLast
  BY DEF Inv
<1> QED BY <1>1, Invariance, PTL

\* A decision is recorded only for the sponsor the story proposes then, but
\* from a handler whose reading of the stories and of the revision a commit
\* has parted.
THEOREM OnlySponsorsDecide == Spec => SponsorDecides
<1> DEFINE Decides ==
      \A k \in DOMAIN doc'.sponsorship \ DOMAIN doc.sponsorship :
        LET decision == doc'.sponsorship[k] IN
        Proposed(decision) \/ ReadTorn(decision.sponsor)
<1>1. Inv /\ [Next]_vars => [Decides]_vars
  <2> SUFFICES ASSUME Inv, Next PROVE Decides
    OBVIOUS
  <2>1. PICK u \in Users : Steps(u)
    BY NextSteps
  <2>2. CASE ReadStories(u) \/ ReadOneMore(u) \/ Unchanged(u)
    BY <2>2 DEF ReadStories, ReadOneMore, Fetched, Unchanged
  <2>3. ASSUME NEW next, Commit(u, next), Grown(next), Sponsored(next)
        PROVE  Decides
    BY <2>3, CommitFacts DEF Sponsored
  <2> QED BY <2>1, <2>2, <2>3 DEF Steps
<1> QED BY <1>1, Invariance, PTL DEF Spec, SponsorDecides

\* A review that was decided keeps its decision.
THEOREM DecidedReviewsStay == Spec => ReviewsStayDecided
<1>1. Inv /\ [Next]_vars =>
        [\A r \in DOMAIN doc.reviews : doc.reviews[r].completed =>
           r \in DOMAIN doc'.reviews /\ doc'.reviews[r] = doc.reviews[r]]_vars
  <2> SUFFICES ASSUME Inv, Next
               PROVE  \A r \in DOMAIN doc.reviews : doc.reviews[r].completed =>
                        r \in DOMAIN doc'.reviews
                        /\ doc'.reviews[r] = doc.reviews[r]
    OBVIOUS
  <2>1. PICK u \in Users : Steps(u)
    BY NextSteps
  <2>2. CASE ReadStories(u) \/ ReadOneMore(u) \/ Unchanged(u)
    BY <2>2 DEF ReadStories, ReadOneMore, Fetched, Unchanged
  <2>3. ASSUME NEW next, Commit(u, next), Grown(next), ReviewsSettled(next)
        PROVE  \A r \in DOMAIN doc.reviews : doc.reviews[r].completed =>
                 r \in DOMAIN doc'.reviews /\ doc'.reviews[r] = doc.reviews[r]
    BY <2>3, CommitFacts DEF ReviewsSettled
  <2> QED BY <2>1, <2>2, <2>3 DEF Steps
<1> QED BY <1>1, Invariance, PTL DEF Spec, ReviewsStayDecided

-----------------------------------------------------------------------------
(***************************************************************************)
(* The directory.  A mutation is followed from the request to the index;   *)
(* FilesInv adds to the types which files are left to it at each step.     *)
(***************************************************************************)
\* Where a mutation is tells which files are left to it.
Orderly(w) ==
  /\ w.at \in {"hide", "put"} => w.left \subseteq Stories
  /\ w.at = "sidecars" => w.left \subseteq Sidecars
  /\ w.restore # NONE => w.restore \in Restored /\ w.at = "put"

FilesInv ==
  /\ FilesTypeOK
  /\ \A p \in Processes : writers[p] # NONE => Orderly(writers[p])

\* Process p goes on with its mutation as w.
Continues(p, w) ==
  w \in Writing /\ Orderly(w) /\ writers' = [writers EXCEPT ![p] = w]

\* Process p is done with its mutation.
Drops(p) == writers' = [writers EXCEPT ![p] = NONE]

\* A read stays one.
LEMMA ReadOnType ==
  ASSUME FilesTypeOK, NEW r \in Reading, NEW s \in ReadOn(r)
  PROVE  s \in Reading
<1>1. /\ r.at \in ReadStep /\ r.left \subseteq Sidecars /\ r.doc \in Contents
      /\ r.rev \in Nat /\ acked \subseteq Mutations /\ index \in Nat
  BY DEF Reading, FilesTypeOK
<1>2. \A f \in Files : Seen(f) \in Content
  BY DEF FilesTypeOK, Seen, Content
<1>3. CASE r.at = "stories"
  <2> DEFINE said == [f \in Files |-> IF f \in Stories THEN Seen(f) ELSE {}]
             gone == {f \in Stories : file[f] = NONE}
  <2>1. said \in Contents /\ gone \subseteq Stories
    BY <1>2 DEF Contents, Content
  <2>2. s = [r EXCEPT !.at = "revision", !.base = acked, !.gone = gone, !.doc = said]
    BY <1>3 DEF ReadOn
  <2> HIDE DEF said, gone
  <2> QED BY <1>1, <2>1, <2>2 DEF Reading, ReadStep
<1>4. \A left : Rest(left) \in ReadStep
  BY DEF Rest, ReadStep
<1>5. CASE r.at = "revision"
  <2> DEFINE step == Rest(r.left)
  <2>1. s = [r EXCEPT !.at = step, !.rev = index, !.upto = acked] /\ step \in ReadStep
    BY <1>4, <1>5 DEF ReadOn
  <2> HIDE DEF step
  <2> QED BY <1>1, <2>1 DEF Reading
<1>6. CASE r.at \notin {"stories", "revision"}
  <2>1. PICK f \in r.left :
          s = [r EXCEPT !.at = Rest(r.left \ {f}), !.left = @ \ {f}, !.doc[f] = Seen(f)]
    BY <1>6 DEF ReadOn
  <2>2. f \in Files /\ [r.doc EXCEPT ![f] = Seen(f)] \in Contents
    BY <1>1, <1>2 DEF Contents, Files
  <2> DEFINE said == [r.doc EXCEPT ![f] = Seen(f)]
             step == Rest(r.left \ {f})
  <2>3. s = [r EXCEPT !.at = step, !.left = @ \ {f}, !.doc = said] /\ step \in ReadStep
    BY <2>1, <1>1, <1>4 DEF Reading
  <2> HIDE DEF said, step
  <2> QED BY <2>2, <2>3, <1>1 DEF Reading, said
<1> QED BY <1>3, <1>5, <1>6

LEMMA BlanksType == Blanks \in Contents
BY DEF Blanks, Contents, Content

LEMMA BegunType ==
  /\ NoRead \in Reading /\ NoRead.doc = Blanks /\ NoRead.base = {}
  /\ NoRead.upto = {} /\ NoRead.gone = {} /\ NoRead.rev = 0 /\ NoRead.at = "done"
  /\ Begun \in Reading /\ Begun.at = "stories" /\ Begun.left = Sidecars
  /\ [Begun EXCEPT !.left = {}] \in Reading
  /\ [Begun EXCEPT !.left = {}].at = "stories"
BY BlanksType DEF NoRead, Begun, Reading, ReadStep

\* What the operation makes of the document is a document.
LEMMA AppliedType ==
  ASSUME NEW w \in Writing
  PROVE  Applied(w) \in Contents
<1>1. w.mut \in Mutations /\ w.read.doc \in Contents /\ w.copy.doc \in Contents
  BY DEF Writing, Reading
<1> QED BY <1>1 DEF Applied, Contents, Content

LEMMA StoriesToPutType ==
  ASSUME NEW w
  PROVE  StoriesToPut(w) \subseteq Stories /\ StoriesToPut(w) \subseteq Files
BY DEF StoriesToPut, Files

\* How each step moves the mutation of its process.
LEMMA SubmitMoves ==
  ASSUME FilesInv, NEW p \in Processes, NEW c \in Clients, NEW m \in Mutations,
         NEW e \in {NONE, readers[c].rev}, Submit(p, c, m, e)
  PROVE  \E w \in Writing :
           /\ Continues(p, w) /\ w.mut = m /\ w.expected = e /\ w.read = Begun
           /\ w.copy = IF m \in Replaces THEN readers[c] ELSE NoRead
           /\ w.at = "read" /\ w.restore = NONE /\ w.torn = NONE
<1> DEFINE copy == IF m \in Replaces THEN readers[c] ELSE NoRead
           w == [mut |-> m, expected |-> e, copy |-> copy,
                 read |-> Begun, next |-> Blanks, at |-> "read", left |-> {},
                 restore |-> NONE, torn |-> NONE]
<1>1. readers[c] \in Reading /\ readers[c].rev \in Nat
  BY DEF FilesInv, FilesTypeOK, Reading
<1>2. copy \in Reading
  BY <1>1, BegunType
<1>3. writers' = [writers EXCEPT ![p] = w]
  BY DEF Submit
<1> HIDE DEF copy
<1>4. w \in Writing
  BY <1>1, <1>2, BegunType, BlanksType DEF Writing
<1>5. Orderly(w)
  BY DEF Orderly
<1> HIDE DEF w
<1>6. /\ w.mut = m /\ w.expected = e /\ w.read = Begun /\ w.copy = copy
      /\ w.at = "read" /\ w.restore = NONE /\ w.torn = NONE
  BY DEF w
<1> QED BY <1>3, <1>4, <1>5, <1>6 DEF Continues, copy

LEMMA MutateReadMoves ==
  ASSUME FilesInv, NEW p \in Processes, MutateRead(p)
  PROVE  \E r \in ReadOn(writers[p].read) :
           /\ Continues(p, [writers[p] EXCEPT !.read = r]) /\ r \in Reading
<1>1. writers[p] \in Writing /\ Orderly(writers[p])
  BY DEF FilesInv, FilesTypeOK, MutateRead, At
<1>2. PICK r \in ReadOn(writers[p].read) :
             writers' = [writers EXCEPT ![p].read = r]
  BY DEF MutateRead
<1>3. r \in Reading
  BY <1>1, <1>2, ReadOnType DEF Writing, FilesInv
<1>4. [writers[p] EXCEPT !.read = r] \in Writing
  BY <1>1, <1>3 DEF Writing
<1>5. Orderly([writers[p] EXCEPT !.read = r])
  BY <1>1, <1>3 DEF Writing, Orderly
<1>6. writers' = [writers EXCEPT ![p] = [writers[p] EXCEPT !.read = r]]
  BY <1>2 DEF FilesInv, FilesTypeOK
<1> QED BY <1>2, <1>3, <1>4, <1>5, <1>6 DEF Continues

\* What an accepted operation adds to what was overlooked.
Overlooks(w) == IF w.mut \in Replaces THEN Missed(w) \X Touches[w.mut] ELSE {}

LEMMA OverlooksType ==
  ASSUME FilesTypeOK, NEW w \in Writing
  PROVE  Overlooks(w) \in SUBSET (Mutations \X Files)
<1>1. /\ w.mut \in Mutations /\ Touches[w.mut] \subseteq Files
      /\ w.copy.upto \subseteq Mutations /\ acked \subseteq Mutations
  BY MirkAssumption DEF Writing, Reading, FilesTypeOK
<1> QED BY <1>1 DEF Overlooks, Missed

LEMMA ApplyMoves ==
  ASSUME FilesInv, NEW p \in Processes, Apply(p)
  PROVE  LET w == writers[p] IN
         /\ w \in Writing /\ w.at = "read" /\ w.read.at = "done"
         /\ UNCHANGED <<file, hidden, index, readers, acked, faults>>
         /\ \/ Drops(p) /\ UNCHANGED overlooked
            \/ /\ Current(w) /\ Known(w)
               /\ overlooked' = overlooked \cup Overlooks(w)
               /\ \E v \in Writing :
                    /\ Continues(p, v) /\ v.mut = w.mut /\ v.at = "hide"
                    /\ v.left = StoriesToPut(w) /\ v.torn = w.torn
                    /\ v.restore = NONE /\ w.restore = NONE
                    /\ v.next = Applied(w) /\ v.read = w.read
<1> DEFINE w == writers[p]
<1>1. /\ w \in Writing /\ Orderly(w) /\ w.at = "read" /\ w.read.at = "done"
      /\ UNCHANGED <<file, hidden, index, readers, acked, faults>>
  BY DEF FilesInv, FilesTypeOK, Apply, At
<1>2. CASE ~(Current(w) /\ Known(w))
  BY <1>1, <1>2 DEF Apply, Drops
<1>3. CASE Current(w) /\ Known(w)
  <2> DEFINE said == Applied(w)
             left == StoriesToPut(w)
             v == [w EXCEPT !.at = "hide", !.next = said, !.left = left]
  <2>1. /\ writers' = [writers EXCEPT ![p].at = "hide", ![p].next = said,
                                      ![p].left = left]
        /\ overlooked' = overlooked \cup Overlooks(w)
    BY <1>3 DEF Apply, Overlooks
  <2>2. said \in Contents /\ left \subseteq Stories /\ left \subseteq Files
    BY <1>1, AppliedType, StoriesToPutType
  <2> HIDE DEF said, left
  <2>3. writers' = [writers EXCEPT ![p] = v]
    BY <1>1, <2>1 DEF FilesInv, FilesTypeOK
  <2>4. /\ v \in Writing /\ v.mut = w.mut /\ v.at = "hide" /\ v.left = left
        /\ v.torn = w.torn /\ v.restore = w.restore /\ v.read = w.read
        /\ v.next = said
    BY <1>1, <2>2 DEF Writing, WriteStep
  <2>5. w.restore = NONE
    BY <1>1 DEF Orderly
  <2> HIDE DEF v
  <2>6. Orderly(v)
    BY <2>2, <2>4, <2>5 DEF Orderly
  <2>7. Continues(p, v)
    BY <2>3, <2>4, <2>6 DEF Continues
  <2> QED BY <1>1, <1>3, <2>1, <2>4, <2>5, <2>7 DEF said, left
<1> QED BY <1>2, <1>3

\* The mutation w at another step, with these files left to it.
Going(w, step, left, restore, torn) ==
  [w EXCEPT !.at = step, !.left = left, !.restore = restore, !.torn = torn]

LEMMA GoingFacts ==
  ASSUME NEW w \in Writing, NEW step \in {"read"} \cup WriteStep,
         NEW left \in SUBSET Files, NEW restore \in Stories \cup {NONE},
         NEW torn \in Files \cup {NONE}
  PROVE  LET v == Going(w, step, left, restore, torn) IN
         /\ v \in Writing /\ v.mut = w.mut /\ v.expected = w.expected
         /\ v.copy = w.copy /\ v.read = w.read /\ v.next = w.next
         /\ v.at = step /\ v.left = left
         /\ v.restore = restore /\ v.torn = torn
BY DEF Writing, Going

LEMMA WriterMoves ==
  ASSUME FilesInv, NEW p \in Processes, writers[p] # NONE
  PROVE  LET w == writers[p] IN
         /\ w \in Writing /\ Orderly(w)
         /\ Hide(p) =>
              Continues(p, Going(w, "put", w.left, w.restore, w.torn))
         /\ \A f \in Files : Put(p, f) =>
              /\ f \in Stories
              /\ Continues(p, Going(w, "put", w.left \ {f},
                                    IF f \in Restored THEN f ELSE NONE, NONE))
         /\ Restore(p) => Continues(p, Going(w, "sidecars", Sidecars, NONE, NONE))
         /\ \A f \in Files : Truncate(p, f) =>
              /\ f \in Sidecars \cup Restored
              /\ Continues(p, Going(w, w.at, w.left \ {f}, NONE, f))
         /\ Rewrite(p) => Continues(p, Going(w, w.at, w.left, w.restore, NONE))
<1> DEFINE w == writers[p]
<1>1. w \in Writing /\ Orderly(w)
  BY DEF FilesInv, FilesTypeOK
<1>2. /\ w.left \subseteq Files /\ w.restore \in Stories \cup {NONE}
      /\ w.torn \in Files \cup {NONE} /\ w.at \in {"read"} \cup WriteStep
      /\ w = Going(w, w.at, w.left, w.restore, w.torn)
  BY <1>1 DEF Writing, Going
<1>3. Sidecars \subseteq Files /\ Stories \subseteq Files /\ Restored \subseteq Stories
  BY MirkAssumption DEF Files
<1>4. ASSUME Hide(p)
      PROVE  Continues(p, Going(w, "put", w.left, w.restore, w.torn))
  <2> DEFINE v == Going(w, "put", w.left, w.restore, w.torn)
  <2>1. writers' = [writers EXCEPT ![p] = v]
    <3>1. v = [w EXCEPT !.at = "put"]
      BY <1>1 DEF Going, Writing
    <3> QED BY <3>1, <1>4 DEF Hide, FilesInv, FilesTypeOK
  <2>2. v \in Writing /\ v.left = w.left /\ v.at = "put" /\ v.restore = w.restore
    BY <1>1, <1>2, GoingFacts DEF WriteStep
  <2> HIDE DEF v
  <2>3. Orderly(v)
    BY <1>1, <1>4, <2>2 DEF Orderly, Hide, At
  <2> QED BY <2>1, <2>2, <2>3 DEF Continues, v
<1>5. ASSUME NEW f \in Files, Put(p, f)
      PROVE  /\ f \in Stories
             /\ Continues(p, Going(w, "put", w.left \ {f},
                                   IF f \in Restored THEN f ELSE NONE, NONE))
  <2> DEFINE restore == IF f \in Restored THEN f ELSE NONE
             v == Going(w, "put", w.left \ {f}, restore, NONE)
  <2>0. f \in Stories /\ w.torn = NONE /\ w.at = "put" /\ f \in w.left
    BY <1>1, <1>5 DEF Put, At, Orderly, Settled
  <2>1. writers' = [writers EXCEPT ![p] = v]
    <3>1. v = [w EXCEPT !.left = @ \ {f}, !.restore = restore]
      BY <1>1, <2>0 DEF Going, Writing
    <3> QED BY <3>1, <1>5 DEF Put, FilesInv, FilesTypeOK
  <2>2. restore \in Stories \cup {NONE}
    BY <2>0
  <2>3. v \in Writing /\ v.left = w.left \ {f} /\ v.at = "put" /\ v.restore = restore
    BY <1>1, <1>2, <2>2, GoingFacts DEF WriteStep
  <2> HIDE DEF v
  <2>4. Orderly(v)
    BY <1>1, <2>0, <2>3 DEF Orderly
  <2> QED BY <2>0, <2>1, <2>3, <2>4 DEF Continues, v
<1>6. ASSUME Restore(p)
      PROVE  Continues(p, Going(w, "sidecars", Sidecars, NONE, NONE))
  <2> DEFINE v == Going(w, "sidecars", Sidecars, NONE, NONE)
  <2>1. writers' = [writers EXCEPT ![p] = v]
    <3>1. v = [w EXCEPT !.at = "sidecars", !.left = Sidecars]
      BY <1>1, <1>6 DEF Going, Writing, Restore, Settled
    <3> QED BY <3>1, <1>6 DEF Restore, FilesInv, FilesTypeOK
  <2>2. v \in Writing /\ v.left = Sidecars /\ v.at = "sidecars" /\ v.restore = NONE
    BY <1>1, <1>3, GoingFacts DEF WriteStep
  <2> HIDE DEF v
  <2>3. Orderly(v)
    BY <2>2 DEF Orderly
  <2> QED BY <2>1, <2>2, <2>3 DEF Continues, v
<1>7. ASSUME NEW f \in Files, Truncate(p, f)
      PROVE  /\ f \in Sidecars \cup Restored
             /\ Continues(p, Going(w, w.at, w.left \ {f}, NONE, f))
  <2> DEFINE v == Going(w, w.at, w.left \ {f}, NONE, f)
  <2>1. writers' = [writers EXCEPT ![p] = v]
    <3>1. v = [w EXCEPT !.left = @ \ {f}, !.restore = NONE, !.torn = f]
      BY <1>1 DEF Going, Writing
    <3> QED BY <3>1, <1>7 DEF Truncate, FilesInv, FilesTypeOK
  <2>2. v \in Writing /\ v.left = w.left \ {f} /\ v.at = w.at /\ v.restore = NONE
    <3> DEFINE step == w.at  left == w.left \ {f}
    <3>1. /\ step \in {"read"} \cup WriteStep /\ left \in SUBSET Files
          /\ NONE \in Stories \cup {NONE} /\ f \in Files \cup {NONE}
      BY <1>2
    <3>2. w \in Writing
      BY <1>1
    <3> HIDE DEF w, step, left
    <3>3. LET u == Going(w, step, left, NONE, f) IN
          u \in Writing /\ u.left = left /\ u.at = step /\ u.restore = NONE
      BY <3>1, <3>2, GoingFacts
    <3> QED BY <3>3 DEF step, left
  <2> HIDE DEF v
  <2>3. Orderly(v)
    BY <1>1, <2>2 DEF Orderly
  <2>4. f \in Sidecars \cup Restored
    BY <1>1, <1>7, NoneIsNothing DEF Truncate, At, Orderly
  <2> QED BY <2>1, <2>2, <2>3, <2>4 DEF Continues, v
<1>8. ASSUME Rewrite(p)
      PROVE  Continues(p, Going(w, w.at, w.left, w.restore, NONE))
  <2> DEFINE v == Going(w, w.at, w.left, w.restore, NONE)
  <2>1. writers' = [writers EXCEPT ![p] = v]
    <3>1. v = [w EXCEPT !.torn = NONE]
      BY <1>1 DEF Going, Writing
    <3> QED BY <3>1, <1>8 DEF Rewrite, FilesInv, FilesTypeOK
  <2>2. v \in Writing /\ v.left = w.left /\ v.at = w.at /\ v.restore = w.restore
    <3> DEFINE step == w.at  left == w.left  restore == w.restore
    <3>1. /\ step \in {"read"} \cup WriteStep /\ left \in SUBSET Files
          /\ restore \in Stories \cup {NONE} /\ NONE \in Files \cup {NONE}
      BY <1>2
    <3>2. w \in Writing
      BY <1>1
    <3> HIDE DEF w, step, left, restore
    <3>3. LET u == Going(w, step, left, restore, NONE) IN
          u \in Writing /\ u.left = left /\ u.at = step /\ u.restore = restore
      BY <3>1, <3>2, GoingFacts
    <3> QED BY <3>3 DEF step, left, restore
  <2> HIDE DEF v
  <2>3. Orderly(v)
    BY <1>1, <2>2 DEF Orderly
  <2> QED BY <2>1, <2>2, <2>3 DEF Continues, v
<1> QED BY <1>1, <1>4, <1>5, <1>6, <1>7, <1>8

LEMMA WritersStay ==
  ASSUME FilesInv, NEW p \in Processes,
         Drops(p) \/ (\E w \in Writing : Continues(p, w)) \/ UNCHANGED writers
  PROVE  /\ writers' \in [Processes -> Writing \cup {NONE}]
         /\ \A q \in Processes : writers'[q] # NONE => Orderly(writers'[q])
BY DEF FilesInv, FilesTypeOK, Drops, Continues

\* A file is some content or absent; a story only while it is emptied.
FileType(fs) ==
  /\ fs \in [Files -> Content \cup {NONE}]
  /\ \A f \in Stories \ Restored : fs[f] # NONE

LEMMA FilesInvFrom ==
  ASSUME FilesInv, NEW p \in Processes,
         Drops(p) \/ (\E w \in Writing : Continues(p, w)) \/ UNCHANGED writers,
         FileType(file'),
         hidden' \in [Processes -> [Sidecars -> Content \cup {NONE}]],
         index' \in Nat, readers' \in [Clients -> Reading],
         acked' \in SUBSET Mutations, faults' \in Failures,
         overlooked' \in SUBSET (Mutations \X Files)
  PROVE  FilesInv'
BY WritersStay DEF FilesInv, FilesTypeOK, FileType, Orderly

LEMMA FileTypeWith ==
  ASSUME FilesInv, NEW f \in Files, NEW x \in Content \cup {NONE},
         x # NONE \/ f \in Sidecars \cup Restored,
         file' = [file EXCEPT ![f] = x]
  PROVE  FileType(file')
BY MirkAssumption DEF FilesInv, FilesTypeOK, FileType

LEMMA NothingType == Nothing \in [Sidecars -> Content \cup {NONE}]
BY DEF Nothing

LEMMA UnhideType ==
  ASSUME FilesInv, NEW p \in Processes, Unhide(p)
  PROVE  /\ FileType(file')
         /\ hidden' \in [Processes -> [Sidecars -> Content \cup {NONE}]]
<1>1. hidden[p] \in [Sidecars -> Content \cup {NONE}]
  BY DEF FilesInv, FilesTypeOK
<1>2. hidden' \in [Processes -> [Sidecars -> Content \cup {NONE}]]
  BY NothingType DEF FilesInv, FilesTypeOK, Unhide
<1>3. FileType(file')
  <2>1. file' = [f \in Files |->
           IF f \in Sidecars /\ hidden[p][f] # NONE THEN hidden[p][f] ELSE file[f]]
    BY DEF Unhide
  <2>2. \A f \in Files : file[f] \in Content \cup {NONE}
    BY DEF FilesInv, FilesTypeOK
  <2>3. \A f \in Files : file'[f] \in Content \cup {NONE}
    BY <1>1, <2>1, <2>2
  <2>4. \A f \in Stories \ Restored : file'[f] # NONE
    BY <2>1 DEF FilesInv, FilesTypeOK, Files
  <2> QED BY <2>1, <2>3, <2>4 DEF FileType
<1> QED BY <1>2, <1>3

LEMMA FilesInitInv ==
  ASSUME FilesInit
  PROVE  FilesInv
<1>1. /\ FileType(file) /\ index \in Nat /\ acked \in SUBSET Mutations
      /\ faults \in Failures /\ overlooked \in SUBSET (Mutations \X Files)
  BY NoneIsNothing, MirkAssumption DEF FilesInit, FileType, Content, Files
<1>2. hidden \in [Processes -> [Sidecars -> Content \cup {NONE}]]
  BY NothingType DEF FilesInit
<1>3. readers \in [Clients -> Reading] /\ writers \in [Processes -> Writing \cup {NONE}]
  BY BegunType DEF FilesInit
<1>4. \A p \in Processes : writers[p] = NONE
  BY DEF FilesInit
<1> QED BY <1>1, <1>2, <1>3, <1>4 DEF FilesInv, FilesTypeOK, FileType

\* The other steps a process takes with its mutation.
LEMMA WriterDocs ==
  ASSUME FilesInv, NEW p \in Processes, writers[p] # NONE
  PROVE  /\ writers[p].mut \in Mutations /\ writers[p].read \in Reading
         /\ writers[p].read.rev \in Nat
         /\ \A f \in Files : writers[p].next[f] \in Content
         /\ writers[p].torn \in Files \cup {NONE}
<1>1. writers[p] \in Writing
  BY DEF FilesInv, FilesTypeOK
<1>2. writers[p].read \in Reading
  BY <1>1 DEF Writing
<1> QED BY <1>1, <1>2 DEF Writing, Reading, Contents

LEMMA WriterStepInv ==
  ASSUME FilesInv, NEW p \in Processes, WriterStep(p)
  PROVE  FilesInv'
<1>0. /\ FileType(file) /\ index \in Nat /\ readers \in [Clients -> Reading]
      /\ hidden \in [Processes -> [Sidecars -> Content \cup {NONE}]]
      /\ acked \in SUBSET Mutations /\ faults \in Failures
      /\ overlooked \in SUBSET (Mutations \X Files)
  BY DEF FilesInv, FilesTypeOK, FileType
<1>1. CASE MutateRead(p)
  <2>1. \E w \in Writing : Continues(p, w)
    BY <1>1, MutateReadMoves DEF Continues
  <2> QED BY <1>0, <1>1, <2>1, FilesInvFrom DEF MutateRead
<1>2. CASE Apply(p)
  <2>1. Drops(p) \/ \E w \in Writing : Continues(p, w)
    BY <1>2, ApplyMoves
  <2>2. overlooked' \in SUBSET (Mutations \X Files)
    BY <1>0, <1>2, ApplyMoves, OverlooksType DEF FilesInv
  <2>3. UNCHANGED <<file, hidden, index, readers, acked, faults>>
    BY <1>2, ApplyMoves
  <2> QED BY <1>0, <2>1, <2>2, <2>3, FilesInvFrom DEF FileType
<1>3. CASE Hide(p)
  <2>1. \E w \in Writing : Continues(p, w)
    BY <1>3, WriterMoves DEF Continues, Hide, At
  <2>2. FileType(file')
    <3>1. file' = [f \in Files |-> IF f \in Sidecars THEN NONE ELSE file[f]]
      BY <1>3 DEF Hide
    <3>2. \A f \in Files : file'[f] \in Content \cup {NONE}
      BY <1>0, <3>1 DEF FileType
    <3>3. \A f \in Stories \ Restored : file'[f] # NONE
      BY <1>0, <3>1, MirkAssumption DEF FileType, Files
    <3> QED BY <3>1, <3>2, <3>3 DEF FileType
  <2>3. [f \in Sidecars |-> file[f]] \in [Sidecars -> Content \cup {NONE}]
    BY <1>0 DEF FileType, Files
  <2>4. hidden' \in [Processes -> [Sidecars -> Content \cup {NONE}]]
    BY <1>0, <1>3, <2>3 DEF Hide
  <2> QED BY <1>0, <1>3, <2>1, <2>2, <2>4, FilesInvFrom DEF Hide
<1>4. CASE Restore(p)
  <2>1. \E w \in Writing : Continues(p, w)
    BY <1>4, WriterMoves DEF Continues, Restore, At
  <2>2. Unhide(p)
    BY <1>4 DEF Restore
  <2> QED BY <1>0, <1>4, <2>1, <2>2, UnhideType, FilesInvFrom DEF Restore
<1>5. CASE WriteIndex(p)
  <2>1. Drops(p)
    BY <1>5 DEF WriteIndex, Drops
  <2>2. index' \in Nat /\ acked' \in SUBSET Mutations
    BY <1>0, <1>5, WriterDocs DEF WriteIndex, At
  <2> QED BY <1>0, <1>5, <2>1, <2>2, FilesInvFrom DEF WriteIndex
<1>6. ASSUME NEW f \in Files, Put(p, f)
      PROVE  FilesInv'
  <2>1. \E w \in Writing : Continues(p, w)
    <3>1. writers[p] # NONE
      BY <1>6 DEF Put, At
    <3>2. \E w : Continues(p, w)
      BY <1>6, <3>1, WriterMoves
    <3> QED BY <3>2 DEF Continues
  <2>2. writers[p].next[f] \in Content /\ NONE \notin Content
    BY <1>6, WriterDocs, NoneIsNothing DEF Put, At
  <2>3. FileType(file')
    BY <1>6, <2>2, FileTypeWith DEF Put
  <2> QED BY <1>0, <1>6, <2>1, <2>3, FilesInvFrom DEF Put
<1>7. ASSUME NEW f \in Files, Truncate(p, f)
      PROVE  FilesInv'
  <2>1. f \in Sidecars \cup Restored /\ \E w \in Writing : Continues(p, w)
    <3>1. writers[p] # NONE
      BY <1>7 DEF Truncate
    <3>2. f \in Sidecars \cup Restored /\ \E w : Continues(p, w)
      BY <1>7, <3>1, WriterMoves
    <3> QED BY <3>2 DEF Continues
  <2>2. FileType(file')
    BY <1>7, <2>1, FileTypeWith DEF Truncate
  <2> QED BY <1>0, <1>7, <2>1, <2>2, FilesInvFrom DEF Truncate
<1>8. CASE Rewrite(p)
  <2>1. \E w \in Writing : Continues(p, w)
    BY <1>8, WriterMoves DEF Continues, Rewrite
  <2>2. /\ writers[p].torn \in Files /\ NONE \notin Content
        /\ writers[p].next[writers[p].torn] \in Content
    BY <1>8, WriterDocs, NoneIsNothing DEF Rewrite
  <2>3. FileType(file')
    BY <1>8, <2>2, FileTypeWith DEF Rewrite
  <2> QED BY <1>0, <1>8, <2>1, <2>3, FilesInvFrom DEF Rewrite
<1> QED BY <1>1, <1>2, <1>3, <1>4, <1>5, <1>6, <1>7, <1>8 DEF WriterStep

LEMMA FailureInv ==
  ASSUME FilesInv, NEW p \in Processes, Failure(p)
  PROVE  FilesInv'
<1>0. /\ FileType(file) /\ index \in Nat /\ readers \in [Clients -> Reading]
      /\ hidden \in [Processes -> [Sidecars -> Content \cup {NONE}]]
      /\ acked \in SUBSET Mutations /\ faults \in Failures
      /\ overlooked \in SUBSET (Mutations \X Files)
  BY DEF FilesInv, FilesTypeOK, FileType
<1>1. Drops(p) /\ faults' \in Failures
  BY <1>0 DEF Failure, PutFails, WriteFails, Crash, Drops, Fails
<1>2. UNCHANGED <<index, readers, acked, overlooked>>
  BY DEF Failure, PutFails, WriteFails, Crash
<1>3. CASE Unhide(p)
  BY <1>0, <1>1, <1>2, <1>3, UnhideType, FilesInvFrom
<1>4. CASE Crash(p)
  <2>1. hidden' \in [Processes -> [Sidecars -> Content \cup {NONE}]]
    BY <1>0, <1>4, NothingType DEF Crash
  <2>2. FileType(file')
    BY <1>0, <1>4 DEF Crash, FileType
  <2> QED BY <1>0, <1>1, <1>2, <2>1, <2>2, FilesInvFrom
<1> QED BY <1>3, <1>4 DEF Failure, PutFails, WriteFails

\* A request reads, or puts a mutation at the head of a queue.
LEMMA RequestInv ==
  ASSUME FilesInv, Request
  PROVE  FilesInv'
<1>0. /\ FileType(file) /\ index \in Nat /\ readers \in [Clients -> Reading]
      /\ hidden \in [Processes -> [Sidecars -> Content \cup {NONE}]]
      /\ acked \in SUBSET Mutations /\ faults \in Failures
      /\ overlooked \in SUBSET (Mutations \X Files)
  BY DEF FilesInv, FilesTypeOK, FileType
<1>1. ASSUME NEW c \in Clients, StartGet(c) \/ GetStep(c)
      PROVE  FilesInv'
  <2>1. UNCHANGED <<file, hidden, index, writers, acked, faults, overlooked>>
    BY <1>1 DEF StartGet, GetStep
  <2>2. readers' \in [Clients -> Reading]
    BY <1>0, <1>1, BegunType, ReadOnType DEF StartGet, GetStep, FilesInv
  <2> QED BY <2>1, <2>2 DEF FilesInv, FilesTypeOK, Orderly
<1>2. ASSUME NEW c \in Clients, NEW p \in Processes, NEW m \in Mutations,
             NEW e \in {NONE, readers[c].rev}, Submit(p, c, m, e)
      PROVE  FilesInv'
  <2>1. \E w \in Writing : Continues(p, w)
    BY <1>2, SubmitMoves
  <2>2. /\ FileType(file')
        /\ UNCHANGED <<file, hidden, index, readers, acked, faults, overlooked>>
    BY <1>0, <1>2 DEF Submit, FileType
  <2> QED BY <1>0, <2>1, <2>2, FilesInvFrom
<1> QED BY <1>1, <1>2 DEF Request

LEMMA FilesNextInv ==
  ASSUME FilesInv, [FilesNext]_filesVars
  PROVE  FilesInv'
<1>1. CASE UNCHANGED filesVars
  BY <1>1 DEF filesVars, FilesInv, FilesTypeOK, Orderly
<1>2. CASE FilesNext
  BY <1>2, RequestInv, WriterStepInv, FailureInv DEF FilesNext
<1> QED BY <1>1, <1>2

\* Any number of processes, any failures: every state has its type, and a
\* story is absent only while its hand-written layout is restored.
THEOREM FilesTypesHold == FilesSpec => []FilesTypeOK
<1>1. FilesInit => FilesInv
  BY FilesInitInv
<1>2. FilesInv /\ [FilesNext]_filesVars => FilesInv'
  BY FilesNextInv
<1>3. FilesInv => FilesTypeOK
  BY DEF FilesInv
<1> QED BY <1>1, <1>2, <1>3, PTL DEF FilesSpec
-----------------------------------------------------------------------------
\* One process.  What is hidden and which file is open follow from where its
\* mutation is.
Poised(w) ==
  /\ w.restore # NONE => w.torn = NONE
  /\ w.at \in {"read", "hide"} => w.torn = NONE
  /\ w.at = "put" /\ w.torn # NONE => w.torn \in Restored
  /\ w.at = "sidecars" /\ w.torn # NONE => w.torn \in Sidecars
  /\ w.at = "read" /\ w.read.at = "stories" => w.read.left = Sidecars
  /\ w.at = "read" /\ w.read.at = "done" => w.read.left = {}

Placed(p) ==
  /\ ~At(p, "put") => hidden[p] = Nothing
  /\ At(p, "put") => \A f \in Sidecars : file[f] = NONE
  /\ writers[p] # NONE =>
       Poised(writers[p]) /\ (writers[p].torn # NONE => file[writers[p].torn] = NONE)

\* What one await makes of a read.
LEMMA ReadOnFacts ==
  ASSUME NEW q \in Reading, NEW r \in ReadOn(q), q.at # "done"
  PROVE  \/ /\ q.at = "stories" /\ r.at = "revision" /\ r.left = q.left
            /\ \A f \in Stories : r.doc[f] = Seen(f)
            /\ r.gone = {f \in Stories : file[f] = NONE} /\ r.base = acked
         \/ /\ q.at = "revision" /\ r.at \in {"sidecars", "done"} /\ r.left = q.left
            /\ r.doc = q.doc /\ r.rev = index
            /\ r.gone = q.gone /\ r.base = q.base /\ r.upto = acked
            /\ r.at = "done" => r.left = {}
         \/ /\ q.at = "sidecars" /\ r.at \in {"sidecars", "done"} /\ r.rev = q.rev
            /\ r.gone = q.gone /\ r.base = q.base /\ r.upto = q.upto
            /\ r.at = "done" => r.left = {}
            /\ \E f \in q.left : /\ r.left = q.left \ {f}
                                 /\ r.doc = [q.doc EXCEPT ![f] = Seen(f)]
<1>1. q.at \in ReadStep
  BY DEF Reading
<1>2. CASE q.at = "stories"
  <2> DEFINE said == [f \in Files |-> IF f \in Stories THEN Seen(f) ELSE {}]
             gone == {f \in Stories : file[f] = NONE}
  <2>1. r = [q EXCEPT !.at = "revision", !.base = acked, !.gone = gone, !.doc = said]
    BY <1>2 DEF ReadOn
  <2>2. \A f \in Stories : said[f] = Seen(f)
    BY DEF Files
  <2> HIDE DEF said, gone
  <2>3. /\ r.at = "revision" /\ r.left = q.left /\ r.doc = said /\ r.gone = gone
        /\ r.base = acked
    BY <2>1 DEF Reading
  <2> QED BY <1>2, <2>2, <2>3 DEF gone
<1>3. \A left : Rest(left) \in {"sidecars", "done"} /\ (Rest(left) = "done" => left = {})
  BY DEF Rest
<1>4. CASE q.at = "revision"
  <2> DEFINE step == Rest(q.left)
  <2>1. /\ r = [q EXCEPT !.at = step, !.rev = index, !.upto = acked]
        /\ step \in {"sidecars", "done"} /\ (step = "done" => q.left = {})
    BY <1>3, <1>4 DEF ReadOn
  <2> HIDE DEF step
  <2> QED BY <1>4, <2>1 DEF Reading
<1>5. CASE q.at = "sidecars"
  <2>1. PICK f \in q.left :
          r = [q EXCEPT !.at = Rest(q.left \ {f}), !.left = @ \ {f}, !.doc[f] = Seen(f)]
    BY <1>5 DEF ReadOn
  <2> DEFINE said == [q.doc EXCEPT ![f] = Seen(f)]
             step == Rest(q.left \ {f})
  <2>2. /\ r = [q EXCEPT !.at = step, !.left = @ \ {f}, !.doc = said]
        /\ step \in {"sidecars", "done"} /\ (step = "done" => q.left \ {f} = {})
    BY <2>1, <1>3 DEF Reading
  <2> HIDE DEF said, step
  <2>3. /\ r.at = step /\ r.rev = q.rev /\ r.left = q.left \ {f} /\ r.doc = said
        /\ r.gone = q.gone /\ r.base = q.base /\ r.upto = q.upto
    BY <2>2 DEF Reading
  <2> QED BY <1>5, <2>2, <2>3 DEF said
<1> QED BY <1>1, <1>2, <1>4, <1>5 DEF ReadStep

LEMMA PlacedFrom ==
  ASSUME FilesInv, NEW p \in Processes, NEW w \in Writing, Continues(p, w),
         Poised(w),
         IF w.at = "put" THEN \A f \in Sidecars : file'[f] = NONE
                         ELSE hidden'[p] = Nothing,
         w.torn # NONE => file'[w.torn] = NONE
  PROVE  Placed(p)'
<1>1. writers'[p] = w /\ w # NONE
  BY NoneIsNothing DEF Continues, FilesInv, FilesTypeOK
<1> QED BY <1>1 DEF Placed, At, Poised

LEMMA PlacedDropped ==
  ASSUME FilesInv, NEW p \in Processes, Drops(p), hidden'[p] = Nothing
  PROVE  Placed(p)'
<1>1. writers'[p] = NONE
  BY DEF Drops, FilesInv, FilesTypeOK
<1> QED BY <1>1 DEF Placed, At

LEMMA Unhidden ==
  ASSUME FilesInv, NEW p \in Processes, Unhide(p)
  PROVE  hidden'[p] = Nothing
BY DEF Unhide, FilesInv, FilesTypeOK

LEMMA PlacedInit ==
  ASSUME FilesInit, NEW p \in Processes
  PROVE  Placed(p)
BY DEF FilesInit, Placed, At

LEMMA PlacedNext ==
  ASSUME FilesInv, NEW p, Processes = {p}, Placed(p), [FilesNext]_filesVars
  PROVE  Placed(p)'
<1> DEFINE w == writers[p]
<1>0. p \in Processes /\ (w # NONE => w \in Writing /\ Poised(w) /\ Orderly(w))
  BY DEF Placed, FilesInv, FilesTypeOK
<1>1. CASE UNCHANGED <<file, hidden, writers>>
  BY <1>1 DEF Placed, At, Poised
<1>2. ASSUME NEW c \in Clients, NEW m \in Mutations,
             NEW e \in {NONE, readers[c].rev}, Submit(p, c, m, e)
      PROVE  Placed(p)'
  <2>1. PICK v \in Writing :
           /\ Continues(p, v) /\ v.mut = m /\ v.expected = e /\ v.read = Begun
           /\ v.at = "read" /\ v.restore = NONE /\ v.torn = NONE
    BY <1>0, <1>2, SubmitMoves
  <2>2. Begun.at = "stories" /\ Begun.left = Sidecars
    BY BegunType
  <2>3. hidden'[p] = Nothing
    BY <1>2 DEF Submit, Placed, At
  <2> QED BY <1>0, <2>1, <2>2, <2>3, PlacedFrom DEF Poised
<1>3. CASE MutateRead(p)
  <2>1. PICK r \in ReadOn(w.read) :
               Continues(p, [w EXCEPT !.read = r]) /\ r \in Reading
    BY <1>0, <1>3, MutateReadMoves
  <2> DEFINE v == [w EXCEPT !.read = r]
  <2>2. /\ w # NONE /\ w \in Writing /\ w.at = "read" /\ w.read.at # "done"
        /\ w.read \in Reading
    BY <1>0, <1>3 DEF MutateRead, At, Writing
  <2>3. /\ v \in Writing /\ v.at = w.at /\ v.torn = w.torn /\ v.read = r
        /\ v.restore = w.restore
    BY <2>1, <2>2 DEF Continues, Writing
  <2>4. r.at # "stories" /\ (r.at = "done" => r.left = {})
    BY <2>2, ReadOnFacts
  <2> HIDE DEF v
  <2>5. Poised(v)
    BY <1>0, <2>2, <2>3, <2>4 DEF Poised
  <2>6. hidden'[p] = Nothing
    BY <1>3, <2>2 DEF MutateRead, Placed, At
  <2>7. Continues(p, v)
    BY <2>1 DEF v
  <2>8. v.torn = NONE
    BY <1>0, <2>2, <2>3 DEF Poised
  <2> QED BY <1>0, <2>2, <2>3, <2>5, <2>6, <2>7, <2>8, PlacedFrom
<1>4. CASE Apply(p)
  <2>1. hidden'[p] = Nothing
    BY <1>4 DEF Apply, Placed, At
  <2>2. CASE Drops(p)
    BY <1>0, <2>1, <2>2, PlacedDropped
  <2>3. ASSUME NEW v \in Writing, Continues(p, v), v.at = "hide",
               v.torn = w.torn, v.restore = NONE
        PROVE  Placed(p)'
    <3>1. w # NONE /\ w.at = "read" /\ w.torn = NONE
      BY <1>0, <1>4 DEF Apply, At, Poised
    <3>2. Poised(v)
      BY <1>0, <2>3, <3>1 DEF Poised
    <3> QED BY <1>0, <2>1, <2>3, <3>1, <3>2, PlacedFrom
  <2> QED BY <1>0, <1>4, <2>2, <2>3, ApplyMoves
<1>5. ASSUME NEW v, w # NONE, Continues(p, v), v.read = w.read, v.at \in WriteStep,
             v.restore # NONE => v.torn = NONE,
             v.torn # NONE => IF v.at = "put" THEN v.torn \in Restored
                              ELSE v.at = "sidecars" /\ v.torn \in Sidecars,
             IF v.at = "put" THEN \A f \in Sidecars : file'[f] = NONE
                             ELSE hidden'[p] = Nothing,
             v.torn # NONE => file'[v.torn] = NONE
      PROVE  Placed(p)'
  <2>1. Poised(v)
    BY <1>5 DEF Poised, WriteStep
  <2> QED BY <1>0, <1>5, <2>1, PlacedFrom DEF Continues
<1>6. CASE Hide(p)
  <2> DEFINE v == Going(w, "put", w.left, w.restore, w.torn)
  <2>1. w # NONE /\ w.at = "hide" /\ Continues(p, v)
    BY <1>0, <1>6, WriterMoves DEF Hide, At
  <2>2. w.torn = NONE
    BY <1>0, <2>1 DEF Poised
  <2>3. v.read = w.read /\ v.at = "put" /\ v.restore = w.restore /\ v.torn = w.torn
    BY <1>0, <2>1 DEF Going, Writing
  <2>4. \A f \in Sidecars : file'[f] = NONE
    BY <1>6 DEF Hide, Files
  <2> HIDE DEF v
  <2> QED BY <1>5, <2>1, <2>2, <2>3, <2>4 DEF WriteStep
<1>7. ASSUME NEW f \in Files, Put(p, f)
      PROVE  Placed(p)'
  <2> DEFINE restore == IF f \in Restored THEN f ELSE NONE
             v == Going(w, "put", w.left \ {f}, restore, NONE)
  <2>1. w # NONE /\ w.at = "put"
    BY <1>7 DEF Put, At
  <2>2. f \in Stories /\ Continues(p, v)
    BY <1>0, <1>7, <2>1, WriterMoves
  <2>3. v.read = w.read /\ v.at = "put" /\ v.torn = NONE
    BY <1>0, <2>1 DEF Going, Writing
  <2>4. \A g \in Sidecars : file'[g] = NONE
    BY <1>7, <2>1, <2>2, MirkAssumption DEF Put, Placed, At, FilesInv, FilesTypeOK, Files
  <2> HIDE DEF v
  <2> QED BY <1>5, <2>1, <2>2, <2>3, <2>4 DEF WriteStep
<1>8. CASE Restore(p)
  <2> DEFINE v == Going(w, "sidecars", Sidecars, NONE, NONE)
  <2>1. w # NONE /\ Continues(p, v)
    BY <1>0, <1>8, WriterMoves DEF Restore, At
  <2>2. v.read = w.read /\ v.at = "sidecars" /\ v.restore = NONE /\ v.torn = NONE
    BY <1>0, <2>1 DEF Going, Writing
  <2>3. hidden'[p] = Nothing
    BY <1>0, <1>8, Unhidden DEF Restore
  <2> HIDE DEF v
  <2> QED BY <1>5, <2>1, <2>2, <2>3 DEF WriteStep
<1>9. ASSUME NEW f \in Files, Truncate(p, f)
      PROVE  Placed(p)'
  <2> DEFINE v == Going(w, w.at, w.left \ {f}, NONE, f)
  <2>1. w # NONE
    BY <1>9 DEF Truncate
  <2>2. f \in Sidecars \cup Restored /\ Continues(p, v)
    BY <1>0, <1>9, <2>1, WriterMoves
  <2>3. v.read = w.read /\ v.at = w.at /\ v.restore = NONE /\ v.torn = f
    BY <1>0, <2>1 DEF Going, Writing
  <2> HIDE DEF v
  <2>7. file'[f] = NONE
    BY <1>9 DEF Truncate, FilesInv, FilesTypeOK
  <2>4. f = w.restore \/ (w.at = "sidecars" /\ f \in w.left)
    BY <1>9 DEF Truncate, At
  <2>5. \/ w.at = "put" /\ f \in Restored
        \/ w.at = "sidecars" /\ f \in Sidecars
    BY <1>0, <2>1, <2>4, NoneIsNothing DEF Orderly
  <2>6. IF w.at = "put" THEN \A g \in Sidecars : file'[g] = NONE
                        ELSE hidden'[p] = Nothing
    <3>1. CASE w.at = "put"
      BY <1>9, <2>1, <3>1 DEF Truncate, Placed, At, FilesInv, FilesTypeOK, Files
    <3>2. CASE w.at # "put"
      BY <1>9, <2>1, <3>2 DEF Truncate, Placed, At
    <3> QED BY <3>1, <3>2
  <2> QED BY <1>5, <2>1, <2>2, <2>3, <2>5, <2>6, <2>7 DEF WriteStep
<1>10. CASE Rewrite(p)
  <2> DEFINE v == Going(w, w.at, w.left, w.restore, NONE)
  <2>1. w # NONE /\ w.torn # NONE /\ Continues(p, v)
    BY <1>0, <1>10, WriterMoves DEF Rewrite
  <2>2. v.read = w.read /\ v.at = w.at /\ v.restore = w.restore /\ v.torn = NONE
    BY <1>0, <2>1 DEF Going, Writing
  <2> HIDE DEF v
  <2>3. w.at \in WriteStep /\ (w.at = "put" => w.torn \in Restored)
    BY <1>0, <2>1 DEF Poised, Writing, WriteStep
  <2>4. IF w.at = "put" THEN \A g \in Sidecars : file'[g] = NONE
                        ELSE hidden'[p] = Nothing
    <3>1. CASE w.at = "put"
      BY <1>10, <2>1, <2>3, <3>1, MirkAssumption
      DEF Rewrite, Placed, At, FilesInv, FilesTypeOK, Files
    <3>2. CASE w.at # "put"
      BY <1>10, <2>1, <3>2 DEF Rewrite, Placed, At
    <3> QED BY <3>1, <3>2
  <2> QED BY <1>5, <2>1, <2>2, <2>3, <2>4
<1>11. CASE WriteIndex(p) \/ Failure(p)
  <2>1. Drops(p)
    BY <1>11 DEF WriteIndex, Failure, PutFails, WriteFails, Crash, Drops
  <2>2. hidden'[p] = Nothing
    <3>1. CASE Unhide(p)
      BY <1>0, <3>1, Unhidden
    <3>2. CASE Crash(p)
      BY <1>0, <3>2 DEF Crash, FilesInv, FilesTypeOK
    <3>3. CASE WriteIndex(p)
      BY <3>3 DEF WriteIndex, Placed, At
    <3> QED BY <1>11, <3>1, <3>2, <3>3 DEF Failure, PutFails, WriteFails
  <2> QED BY <1>0, <2>1, <2>2, PlacedDropped
<1>12. CASE Request
  <2>1. ASSUME NEW c \in Clients, StartGet(c) \/ GetStep(c)
        PROVE  Placed(p)'
    BY <1>1, <2>1 DEF StartGet, GetStep
  <2> QED BY <1>2, <1>12, <2>1 DEF Request
<1> QED BY <1>1, <1>3, <1>4, <1>6, <1>7, <1>8, <1>9, <1>10, <1>11, <1>12
    DEF FilesNext, WriterStep, filesVars

\* The index counts the answered mutations until the puts clear it; a
\* mutation has read that count.
Counts(w, n) ==
  /\ w.mut \notin acked
  /\ faults = {} =>
       /\ w.at \in {"read", "hide"} => index = n
       /\ w.at # "read" \/ w.read.at \in {"sidecars", "done"} => w.read.rev = n

Counted(p) ==
  /\ IsFiniteSet(acked)
  /\ faults = {} /\ writers[p] = NONE => index = Cardinality(acked)
  /\ writers[p] # NONE => Counts(writers[p], Cardinality(acked))
  /\ faults = {} => index \in {0, Cardinality(acked)}

LEMMA CountedFrom ==
  ASSUME FilesInv, NEW p \in Processes, NEW v \in Writing, Continues(p, v),
         Counted(p), acked' = acked, faults' = faults, v.mut \notin acked,
         faults = {} =>
           /\ index' \in {0, Cardinality(acked)}
           /\ v.at \in {"read", "hide"} => index' = Cardinality(acked)
           /\ v.at # "read" \/ v.read.at \in {"sidecars", "done"}
                => v.read.rev = Cardinality(acked)
  PROVE  Counted(p)'
<1>1. writers'[p] = v /\ v # NONE
  BY NoneIsNothing DEF Continues, FilesInv, FilesTypeOK
<1> QED BY <1>1 DEF Counted, Counts

LEMMA CountedInit ==
  ASSUME FilesInit, NEW p \in Processes
  PROVE  Counted(p)
BY FS_EmptySet DEF FilesInit, Counted

LEMMA CountedNext ==
  ASSUME FilesInv, NEW p, Processes = {p}, Placed(p), Counted(p),
         [FilesNext]_filesVars
  PROVE  Counted(p)'
<1> DEFINE w == writers[p]
           n == Cardinality(acked)
<1>0. /\ p \in Processes
      /\ w # NONE => w \in Writing /\ Counts(w, n) /\ w.read \in Reading
  BY DEF Counted, FilesInv, FilesTypeOK, Writing
<1>1. CASE UNCHANGED <<index, writers, acked, faults>>
  BY <1>1 DEF Counted, Counts
<1>2. ASSUME NEW c \in Clients, NEW m \in Mutations,
             NEW e \in {NONE, readers[c].rev}, Submit(p, c, m, e)
      PROVE  Counted(p)'
  <2>1. PICK v \in Writing :
           /\ Continues(p, v) /\ v.mut = m /\ v.expected = e /\ v.read = Begun
           /\ v.at = "read" /\ v.restore = NONE /\ v.torn = NONE
    BY <1>0, <1>2, SubmitMoves
  <2>2. Begun.at = "stories"
    BY BegunType
  <2>3. /\ UNCHANGED <<index, acked, faults>> /\ m \notin acked
        /\ faults = {} => index = n
    BY <1>2 DEF Submit, Counted
  <2> QED BY <1>0, <2>1, <2>2, <2>3, CountedFrom
<1>3. CASE MutateRead(p)
  <2>1. PICK r \in ReadOn(w.read) :
               Continues(p, [w EXCEPT !.read = r]) /\ r \in Reading
    BY <1>0, <1>3, MutateReadMoves
  <2> DEFINE v == [w EXCEPT !.read = r]
  <2>2. /\ w # NONE /\ w \in Writing /\ w.at = "read" /\ w.read.at # "done"
        /\ w.read \in Reading /\ Counts(w, n)
    BY <1>0, <1>3 DEF MutateRead, At
  <2>3. v \in Writing /\ v.at = w.at /\ v.read = r /\ v.mut = w.mut
    BY <2>1, <2>2 DEF Continues, Writing
  <2>4. Continues(p, v)
    BY <2>1
  <2>5. UNCHANGED <<index, acked, faults>>
    BY <1>3 DEF MutateRead
  <2> HIDE DEF v
  <2>6. faults = {} =>
          index = n /\ (r.at \in {"sidecars", "done"} => r.rev = n)
    BY <2>2, ReadOnFacts DEF Counts
  <2>7. v.mut \notin acked
    BY <2>2, <2>3 DEF Counts
  <2> QED BY <1>0, <2>2, <2>3, <2>4, <2>5, <2>6, <2>7, CountedFrom
<1>4. CASE Apply(p)
  <2>1. /\ UNCHANGED <<index, acked, faults>> /\ w # NONE /\ w.at = "read"
        /\ w.read.at = "done"
    BY <1>4 DEF Apply, At
  <2>2. CASE Drops(p)
    BY <1>0, <2>1, <2>2 DEF Drops, Counted, Counts, FilesInv, FilesTypeOK
  <2>3. ASSUME NEW v \in Writing, Continues(p, v), v.mut = w.mut, v.at = "hide",
               v.read = w.read
        PROVE  Counted(p)'
    <3>1. w.mut \notin acked /\ (faults = {} => w.read.rev = n /\ index = n)
      BY <1>0, <2>1 DEF Counts
    <3> QED BY <1>0, <2>1, <2>3, <3>1, CountedFrom
  <2> QED BY <1>0, <1>4, <2>2, <2>3, ApplyMoves
<1>5. ASSUME NEW v, w # NONE, w.at # "read", Continues(p, v), v.read = w.read,
             v.mut = w.mut, v.at \in {"put", "sidecars"}, UNCHANGED <<acked, faults>>,
             index' \in {0, index}
      PROVE  Counted(p)'
  <2>1. w.mut \notin acked /\ (faults = {} => w.read.rev = n)
    BY <1>0, <1>5 DEF Counts
  <2>2. v \in Writing
    BY <1>5 DEF Continues
  <2>3. faults = {} => index' \in {0, n}
    BY <1>5 DEF Counted
  <2> QED BY <1>0, <1>5, <2>1, <2>2, <2>3, CountedFrom
<1>6. CASE Hide(p)
  <2>1. w # NONE /\ w.at = "hide" /\ UNCHANGED <<acked, faults>> /\ index' \in {0, index}
        /\ Continues(p, Going(w, "put", w.left, w.restore, w.torn))
    BY <1>0, <1>6, WriterMoves DEF Hide, At
  <2> QED BY <1>0, <1>5, <2>1 DEF Going, Writing
<1>7. ASSUME NEW f \in Files, Put(p, f)
      PROVE  Counted(p)'
  <2>1. w # NONE /\ w.at = "put" /\ UNCHANGED <<acked, faults>> /\ index' \in {0, index}
    BY <1>7 DEF Put, At
  <2>2. Continues(p, Going(w, "put", w.left \ {f},
                           IF f \in Restored THEN f ELSE NONE, NONE))
    BY <1>0, <1>7, <2>1, WriterMoves
  <2> QED BY <1>0, <1>5, <2>1, <2>2 DEF Going, Writing
<1>8. CASE Restore(p)
  <2>1. /\ w # NONE /\ w.at = "put" /\ UNCHANGED <<acked, faults>> /\ index' \in {0, index}
        /\ Continues(p, Going(w, "sidecars", Sidecars, NONE, NONE))
    BY <1>0, <1>8, WriterMoves DEF Restore, At
  <2> QED BY <1>0, <1>5, <2>1 DEF Going, Writing
<1>9. ASSUME NEW f \in Files, Truncate(p, f)
      PROVE  Counted(p)'
  <2>1. w # NONE /\ UNCHANGED <<acked, faults>> /\ index' \in {0, index}
    BY <1>9 DEF Truncate
  <2>2. Continues(p, Going(w, w.at, w.left \ {f}, NONE, f))
    BY <1>0, <1>9, <2>1, WriterMoves
  <2>3. w.at \in {"put", "sidecars"}
    <3>1. f = w.restore \/ w.at = "sidecars"
      BY <1>9 DEF Truncate, At
    <3> QED BY <2>1, <3>1, NoneIsNothing DEF FilesInv, Orderly
  <2> QED BY <1>0, <1>5, <2>1, <2>2, <2>3 DEF Going, Writing
<1>10. CASE Rewrite(p)
  <2>1. w # NONE /\ w.torn # NONE /\ UNCHANGED <<acked, faults>> /\ index' \in {0, index}
    BY <1>10 DEF Rewrite
  <2>2. Continues(p, Going(w, w.at, w.left, w.restore, NONE))
    BY <1>0, <1>10, <2>1, WriterMoves
  <2>3. w.at \in {"put", "sidecars"}
    BY <1>0, <2>1 DEF Placed, Poised, Writing, WriteStep
  <2> QED BY <1>0, <1>5, <2>1, <2>2, <2>3 DEF Going, Writing
<1>11. CASE WriteIndex(p)
  <2>1. /\ w # NONE /\ w.at = "sidecars" /\ index' = w.read.rev + 1
        /\ acked' = acked \cup {w.mut} /\ writers'[p] = NONE /\ faults' = faults
    BY <1>0, <1>11 DEF WriteIndex, At, FilesInv, FilesTypeOK
  <2>2. IsFiniteSet(acked') /\ Cardinality(acked') = n + 1
    <3>1. w.mut \notin acked /\ IsFiniteSet(acked)
      BY <1>0, <2>1 DEF Counts, Counted
    <3> QED BY <2>1, <3>1, FS_AddElement
  <2>3. faults = {} => w.read.rev = n
    BY <1>0, <2>1 DEF Counts
  <2> QED BY <2>1, <2>2, <2>3 DEF Counted
<1>12. CASE Failure(p)
  <2>1. faults' # {} /\ acked' = acked /\ writers' = [writers EXCEPT ![p] = NONE]
    BY <1>12 DEF Failure, PutFails, WriteFails, Crash, Fails
  <2>2. writers'[p] = NONE
    BY <1>0, <2>1 DEF FilesInv, FilesTypeOK
  <2> QED BY <2>1, <2>2 DEF Counted
<1>13. CASE Request
  <2>1. ASSUME NEW c \in Clients, StartGet(c) \/ GetStep(c)
        PROVE  Counted(p)'
    BY <1>1, <2>1 DEF StartGet, GetStep
  <2> QED BY <1>2, <1>13, <2>1 DEF Request
<1> QED BY <1>1, <1>3, <1>4, <1>6, <1>7, <1>8, <1>9, <1>10, <1>11, <1>12, <1>13
    DEF FilesNext, WriterStep, filesVars

\* One process, any mutations and clients: when nothing failed and no put
\* hides it, the index counts the mutations that were answered.
THEOREM RevisionsCount ==
  ASSUME NEW p, Processes = {p}
  PROVE  FilesSpec => []RevisionCounts
<1> DEFINE I == FilesInv /\ Placed(p) /\ Counted(p)
<1>1. FilesInit => I
  BY FilesInitInv, PlacedInit, CountedInit
<1>2. I /\ [FilesNext]_filesVars => I'
  BY FilesNextInv, PlacedNext, CountedNext
<1>3. I => RevisionCounts
  <2> SUFFICES ASSUME I, faults = {}, ~At(p, "put") /\ ~At(p, "sidecars")
               PROVE  index = Cardinality(acked)
    BY DEF RevisionCounts
  <2>1. writers[p] = NONE \/ writers[p].at \in {"read", "hide"}
    BY DEF At, FilesInv, FilesTypeOK, Writing, WriteStep
  <2> QED BY <2>1 DEF Counted, Counts
<1> QED BY <1>1, <1>2, <1>3, PTL DEF FilesSpec
-----------------------------------------------------------------------------
\* With one process, what a file says is in the file, in its hidden copy and
\* in the document of the mutation that has it open.
HiddenPart(p, f) ==
  IF f \in Sidecars /\ hidden[p][f] # NONE THEN hidden[p][f] ELSE {}

OpenPart(p, f) ==
  IF writers[p] # NONE /\ writers[p].torn = f THEN writers[p].next[f] ELSE {}

Parts(p, f) == Seen(f) \cup HiddenPart(p, f) \cup OpenPart(p, f)

LEMMA HeldIsParts ==
  ASSUME NEW p, Processes = {p}, NEW f
  PROVE  Held(f) = Parts(p, f) /\ Held(f)' = Parts(p, f)'
<1>1. \A m : m \in Held(f) <=>
        \/ m \in Seen(f)
        \/ \E q \in Processes :
             f \in Sidecars /\ hidden[q][f] # NONE /\ m \in hidden[q][f]
        \/ \E q \in Processes :
             writers[q] # NONE /\ writers[q].torn = f /\ m \in writers[q].next[f]
  BY DEF Held
<1>2. \A m : m \in Held(f)' <=>
        \/ m \in Seen(f)'
        \/ \E q \in Processes :
             f \in Sidecars /\ hidden'[q][f] # NONE /\ m \in hidden'[q][f]
        \/ \E q \in Processes :
             writers'[q] # NONE /\ writers'[q].torn = f /\ m \in writers'[q].next[f]
  BY DEF Held
<1>3. \A m : m \in Held(f) <=> m \in Parts(p, f)
  BY <1>1 DEF Parts, HiddenPart, OpenPart
<1>4. \A m : m \in Held(f)' <=> m \in Parts(p, f)'
  BY <1>2 DEF Parts, HiddenPart, OpenPart
<1> QED BY <1>3, <1>4

\* Steps that leave what the files say.
LEMMA HeldStays ==
  ASSUME FilesInv, NEW p, Processes = {p}, Placed(p),
         \/ Request \/ MutateRead(p) \/ Apply(p) \/ Hide(p) \/ Restore(p)
         \/ WriteIndex(p) \/ PutFails(p) \/ UNCHANGED filesVars
  PROVE  \A f \in Files : Held(f)' = Held(f)
<1> DEFINE w == writers[p]
<1>0. /\ p \in Processes /\ (w # NONE => w \in Writing /\ Poised(w))
      /\ NONE \notin Files
  BY NoneIsNothing DEF Placed, FilesInv, FilesTypeOK
<1>1. SUFFICES ASSUME NEW f \in Files PROVE Parts(p, f)' = Parts(p, f)
  BY HeldIsParts
<1>2. ASSUME UNCHANGED <<file, hidden>>, w = NONE \/ w.torn = NONE,
             writers'[p] = NONE \/ writers'[p].torn = NONE
      PROVE  Parts(p, f)' = Parts(p, f)
  BY <1>0, <1>2 DEF Parts, Seen, HiddenPart, OpenPart
<1>3. CASE UNCHANGED <<file, hidden, writers>>
  BY <1>3 DEF Parts, Seen, HiddenPart, OpenPart
<1>4. ASSUME NEW c \in Clients, NEW m \in Mutations,
             NEW e \in {NONE, readers[c].rev}, Submit(p, c, m, e)
      PROVE  Parts(p, f)' = Parts(p, f)
  <2>1. w = NONE /\ UNCHANGED <<file, hidden>>
    BY <1>4 DEF Submit
  <2>2. PICK v \in Writing : Continues(p, v) /\ v.torn = NONE
    BY <1>0, <1>4, SubmitMoves
  <2>3. writers'[p] = v
    BY <1>0, <2>2 DEF Continues, FilesInv, FilesTypeOK
  <2> QED BY <1>2, <2>1, <2>2, <2>3
<1>5. CASE MutateRead(p)
  <2>1. /\ w # NONE /\ w \in Writing /\ w.torn = NONE
        /\ UNCHANGED <<file, hidden>>
    BY <1>0, <1>5 DEF MutateRead, At, Poised
  <2>2. PICK r : Continues(p, [w EXCEPT !.read = r])
    BY <1>0, <1>5, MutateReadMoves
  <2>3. writers'[p].torn = NONE
    BY <1>0, <2>1, <2>2 DEF Continues, FilesInv, FilesTypeOK, Writing
  <2> QED BY <1>2, <2>1, <2>3
<1>6. CASE Apply(p)
  <2>1. /\ w # NONE /\ w.torn = NONE /\ UNCHANGED <<file, hidden>>
    BY <1>0, <1>6 DEF Apply, At, Poised
  <2>2. writers'[p] = NONE \/ writers'[p].torn = NONE
    <3>1. Drops(p) \/ \E v \in Writing : Continues(p, v) /\ v.torn = w.torn
      BY <1>0, <1>6, ApplyMoves
    <3> QED BY <1>0, <2>1, <3>1 DEF Drops, Continues, FilesInv, FilesTypeOK
  <2> QED BY <1>2, <2>1, <2>2
<1>7. CASE WriteIndex(p)
  <2>1. /\ w.torn = NONE /\ UNCHANGED <<file, hidden>> /\ writers'[p] = NONE
    BY <1>0, <1>7 DEF WriteIndex, Settled, FilesInv, FilesTypeOK
  <2> QED BY <1>2, <2>1
<1>8. CASE Hide(p)
  <2>1. w # NONE /\ w.at = "hide" /\ w.torn = NONE /\ hidden[p] = Nothing
    BY <1>0, <1>8 DEF Hide, At, Poised, Placed
  <2>2. Continues(p, Going(w, "put", w.left, w.restore, w.torn))
    BY <1>0, <1>8, <2>1, WriterMoves
  <2>3. writers'[p].torn = NONE
    BY <1>0, <2>1, <2>2 DEF Continues, Going, FilesInv, FilesTypeOK, Writing
  <2>4. OpenPart(p, f) = {} /\ OpenPart(p, f)' = {}
    BY <1>0, <2>1, <2>3 DEF OpenPart
  <2>5. /\ file' = [g \in Files |-> IF g \in Sidecars THEN NONE ELSE file[g]]
        /\ hidden'[p] = [g \in Sidecars |-> file[g]]
    BY <1>0, <1>8 DEF Hide, FilesInv, FilesTypeOK
  <2>6. CASE f \in Sidecars
    BY <2>1, <2>4, <2>5, <2>6 DEF Parts, Seen, HiddenPart, Nothing
  <2>7. CASE f \notin Sidecars
    BY <2>1, <2>4, <2>5, <2>7 DEF Parts, Seen, HiddenPart
  <2> QED BY <2>6, <2>7
<1>9. CASE Restore(p) \/ PutFails(p)
  <2>1. w # NONE /\ w.at = "put" /\ w.torn = NONE /\ Unhide(p)
    BY <1>9 DEF Restore, PutFails, At, Settled
  <2>2. writers'[p] = NONE \/ writers'[p].torn = NONE
    <3>1. CASE Restore(p)
      <4>1. Continues(p, Going(w, "sidecars", Sidecars, NONE, NONE))
        BY <1>0, <2>1, <3>1, WriterMoves
      <4> QED BY <1>0, <2>1, <4>1 DEF Continues, Going, FilesInv, FilesTypeOK, Writing
    <3>2. CASE PutFails(p)
      BY <1>0, <3>2 DEF PutFails, FilesInv, FilesTypeOK
    <3> QED BY <1>9, <3>1, <3>2
  <2>3. OpenPart(p, f) = {} /\ OpenPart(p, f)' = {}
    BY <1>0, <2>1, <2>2 DEF OpenPart
  <2>4. /\ file'[f] = IF f \in Sidecars /\ hidden[p][f] # NONE
                        THEN hidden[p][f] ELSE file[f]
        /\ hidden'[p] = Nothing
    BY <1>0, <2>1, Unhidden DEF Unhide
  <2>5. f \in Sidecars => file[f] = NONE
    BY <2>1 DEF Placed, At
  <2>6. CASE f \in Sidecars
    BY <2>3, <2>4, <2>5, <2>6 DEF Parts, Seen, HiddenPart, Nothing
  <2>7. CASE f \notin Sidecars
    BY <2>3, <2>4, <2>7 DEF Parts, Seen, HiddenPart
  <2> QED BY <2>6, <2>7
<1>10. CASE Request
  <2>1. ASSUME NEW c \in Clients, StartGet(c) \/ GetStep(c)
        PROVE  Parts(p, f)' = Parts(p, f)
    BY <1>3, <2>1 DEF StartGet, GetStep
  <2> QED BY <1>4, <1>10, <2>1 DEF Request
<1> QED BY <1>3, <1>5, <1>6, <1>7, <1>8, <1>9, <1>10 DEF filesVars

\* Steps that write a file: it says what the mutation makes of it.
LEMMA HeldWritten ==
  ASSUME FilesInv, NEW p, Processes = {p}, Placed(p), NEW f \in Files,
         Put(p, f) \/ Truncate(p, f) \/ (Rewrite(p) /\ f = writers[p].torn)
  PROVE  /\ Held(f)' = writers[p].next[f]
         /\ Rewrite(p) => Held(f)' = Held(f)
         /\ \A g \in Files \ {f} : Held(g)' = Held(g)
<1> DEFINE w == writers[p]
<1>0. /\ p \in Processes /\ w # NONE /\ w \in Writing /\ Poised(w) /\ Orderly(w)
      /\ NONE \notin Files /\ w.next[f] \in Content /\ w.next[f] # NONE
  BY NoneIsNothing, WriterDocs
     DEF Put, At, Truncate, Rewrite, Placed, FilesInv, FilesTypeOK
<1>1. SUFFICES /\ Parts(p, f)' = w.next[f]
               /\ Rewrite(p) => Parts(p, f) = w.next[f]
               /\ \A g \in Files \ {f} : Parts(p, g)' = Parts(p, g)
  BY HeldIsParts
<1>2. hidden' = hidden
  BY DEF Put, Truncate, Rewrite
<1>3. f \in Stories \/ hidden[p] = Nothing
  <2>1. CASE Put(p, f)
    BY <1>0, <2>1, WriterMoves
  <2>2. CASE Truncate(p, f)
    BY <1>0, <2>2, MirkAssumption DEF Truncate, Orderly, Placed, At
  <2>3. CASE Rewrite(p) /\ f = w.torn
    BY <1>0, <2>3, MirkAssumption DEF Rewrite, Poised, Placed, At, Writing, WriteStep
  <2> QED BY <2>1, <2>2, <2>3
<1>4. HiddenPart(p, f)' = {}
  BY <1>2, <1>3, MirkAssumption DEF HiddenPart, Nothing
<1>5. ASSUME NEW v, Continues(p, v), v.next = w.next, v.torn \in {f, NONE},
             w.torn \in {f, NONE},
             file' = [file EXCEPT ![f] = w.next[f]]
               \/ (file' = [file EXCEPT ![f] = NONE] /\ v.torn = f)
      PROVE  /\ Parts(p, f)' = w.next[f]
             /\ \A g \in Files \ {f} : Parts(p, g)' = Parts(p, g)
  <2>1. writers'[p] = v /\ v # NONE
    BY <1>0, <1>5, NoneIsNothing DEF Continues, FilesInv, FilesTypeOK
  <2>2. OpenPart(p, f)' = IF v.torn = f THEN w.next[f] ELSE {}
    BY <1>5, <2>1 DEF OpenPart
  <2>3. \A g \in Files \ {f} : OpenPart(p, g)' = {} /\ OpenPart(p, g) = {}
    BY <1>0, <1>5, <2>1 DEF OpenPart
  <2>4. \A g \in Files \ {f} : Seen(g)' = Seen(g)
    BY <1>5 DEF Seen, FilesInv, FilesTypeOK
  <2>5. \A g : HiddenPart(p, g)' = HiddenPart(p, g)
    BY <1>2 DEF HiddenPart
  <2>6. Seen(f)' \cup OpenPart(p, f)' = w.next[f]
    BY <1>0, <1>5, <2>2 DEF Seen, FilesInv, FilesTypeOK
  <2> QED BY <1>4, <2>3, <2>4, <2>5, <2>6 DEF Parts
<1>6. ASSUME Put(p, f)
      PROVE  /\ Parts(p, f)' = w.next[f]
             /\ \A g \in Files \ {f} : Parts(p, g)' = Parts(p, g)
  <2> DEFINE v == Going(w, "put", w.left \ {f}, IF f \in Restored THEN f ELSE NONE, NONE)
  <2>1. Continues(p, v)
    BY <1>0, <1>6, WriterMoves
  <2>2. /\ v.next = w.next /\ v.torn = NONE
    BY <1>0 DEF Going, Writing
  <2>3. w.torn = NONE /\ file' = [file EXCEPT ![f] = w.next[f]]
    BY <1>6 DEF Put, Settled
  <2> HIDE DEF v
  <2> QED BY <1>5, <2>1, <2>2, <2>3
<1>7. ASSUME Truncate(p, f)
      PROVE  /\ Parts(p, f)' = w.next[f]
             /\ \A g \in Files \ {f} : Parts(p, g)' = Parts(p, g)
  <2> DEFINE v == Going(w, w.at, w.left \ {f}, NONE, f)
  <2>1. Continues(p, v)
    BY <1>0, <1>7, WriterMoves
  <2>2. /\ v.next = w.next /\ v.torn = f
    BY <1>0 DEF Going, Writing
  <2>3. w.torn = NONE /\ file' = [file EXCEPT ![f] = NONE]
    BY <1>7 DEF Truncate
  <2> HIDE DEF v
  <2> QED BY <1>5, <2>1, <2>2, <2>3
<1>8. ASSUME Rewrite(p), f = w.torn
      PROVE  /\ Parts(p, f)' = w.next[f]
             /\ \A g \in Files \ {f} : Parts(p, g)' = Parts(p, g)
  <2> DEFINE v == Going(w, w.at, w.left, w.restore, NONE)
  <2>1. Continues(p, v)
    BY <1>0, <1>8, WriterMoves
  <2>2. /\ v.next = w.next /\ v.torn = NONE
    BY <1>0 DEF Going, Writing
  <2>3. file' = [file EXCEPT ![f] = w.next[f]]
    BY <1>8 DEF Rewrite
  <2> HIDE DEF v
  <2> QED BY <1>5, <1>8, <2>1, <2>2, <2>3
<1>9. ASSUME Rewrite(p) PROVE Parts(p, f) = w.next[f]
  <2>1. f = w.torn /\ file[f] = NONE
    BY <1>0, <1>9 DEF Put, Truncate, Settled, Rewrite, Placed
  <2>2. HiddenPart(p, f) = {}
    BY <1>3, MirkAssumption DEF HiddenPart, Nothing
  <2> QED BY <1>0, <2>1, <2>2 DEF Parts, Seen, OpenPart
<1> QED BY <1>6, <1>7, <1>8, <1>9

\* What a failure may lose: the file that was open, and what was hidden when
\* the process died.
LEMMA HeldLost ==
  ASSUME FilesInv, NEW p, Processes = {p}, Placed(p), WriteFails(p) \/ Crash(p),
         NEW f \in Files
  PROVE  /\ f \in Sidecars => Held(f)' = Held(f) \/ Held(f)' = {}
         /\ f \in Stories => Held(f)' = IF f = writers[p].torn THEN {} ELSE Held(f)
         /\ f = writers[p].torn => f \in Restored \cup Sidecars
<1> DEFINE w == writers[p]
<1>0. /\ p \in Processes /\ w # NONE /\ w \in Writing /\ Poised(w)
      /\ NONE \notin Files /\ (w.torn # NONE => file[w.torn] = NONE)
      /\ w.at # "put" => hidden[p] = Nothing
      /\ w.at = "put" => \A g \in Sidecars : file[g] = NONE
  BY NoneIsNothing DEF WriteFails, Crash, Placed, FilesInv, FilesTypeOK, At
<1>1. SUFFICES /\ f \in Sidecars => Parts(p, f)' = Parts(p, f) \/ Parts(p, f)' = {}
               /\ f \in Stories => Parts(p, f)' = IF f = w.torn THEN {} ELSE Parts(p, f)
               /\ f = w.torn => f \in Restored \cup Sidecars
  BY HeldIsParts
<1>2. f = w.torn => f \in Restored \cup Sidecars
  BY <1>0 DEF Poised, Writing, WriteStep
<1>3. /\ writers'[p] = NONE /\ OpenPart(p, f)' = {}
      /\ hidden'[p] = Nothing /\ HiddenPart(p, f)' = {}
  BY <1>0, Unhidden
     DEF WriteFails, Crash, FilesInv, FilesTypeOK, OpenPart, HiddenPart, Nothing
<1>4. f # w.torn => OpenPart(p, f) = {}
  BY <1>0 DEF OpenPart
<1>5. CASE f \in Stories
  <2>1. HiddenPart(p, f) = {} /\ Seen(f)' = Seen(f)
    BY <1>5, MirkAssumption DEF WriteFails, Crash, Unhide, Seen, HiddenPart
  <2>2. f = w.torn => Seen(f) = {}
    BY <1>0 DEF Seen
  <2> QED BY <1>2, <1>3, <1>4, <1>5, <2>1, <2>2, MirkAssumption DEF Parts
<1>6. CASE f \in Sidecars
  <2>1. f \notin Stories
    BY <1>6, MirkAssumption
  <2>2. CASE f = w.torn
    <3>1. w.at # "put" /\ Seen(f) = {} /\ HiddenPart(p, f) = {}
      BY <1>0, <1>6, <2>1, <2>2, MirkAssumption DEF Poised, Seen, HiddenPart, Nothing
    <3>2. Seen(f)' = {}
      BY <1>0, <2>2, <3>1 DEF WriteFails, Crash, Unhide, Seen, Nothing
    <3> QED BY <1>2, <1>3, <2>1, <3>2 DEF Parts
  <2>3. CASE f # w.torn /\ w.at # "put"
    <3>1. HiddenPart(p, f) = {} /\ Seen(f)' = Seen(f)
      BY <1>0, <1>6, <2>3 DEF WriteFails, Crash, Unhide, Seen, HiddenPart, Nothing
    <3> QED BY <1>2, <1>3, <1>4, <2>1, <2>3, <3>1 DEF Parts
  <2>4. CASE f # w.torn /\ w.at = "put"
    <3>1. Seen(f) = {} /\ file[f] = NONE
      BY <1>0, <1>6, <2>4 DEF Seen
    <3>2. Seen(f)' = HiddenPart(p, f) \/ Seen(f)' = {}
      BY <1>6, <3>1 DEF WriteFails, Crash, Unhide, Seen, HiddenPart
    <3> QED BY <1>2, <1>3, <1>4, <2>1, <2>4, <3>1, <3>2 DEF Parts
  <2> QED BY <2>2, <2>3, <2>4
<1> QED BY <1>2, <1>5, <1>6 DEF Files

\* The files that already say what the mutation makes of them.
Reached(w) == IF w.at = "sidecars" THEN Files \ w.left ELSE Stories \ w.left

\* The document a mutation reads is what the files say.  It then changes the
\* files it touches, and the files come to say so one by one.
Faithful(w) ==
  /\ w.mut \notin acked
  /\ w.at = "read" /\ w.read.at # "stories" =>
       \A f \in Files \ w.read.left : w.read.doc[f] = Held(f)
  /\ w.at # "read" =>
       \A f \in Files :
         /\ f \notin Touches[w.mut] => w.next[f] = w.read.doc[f]
         /\ f \in Touches[w.mut] =>
              /\ w.mut \in w.next[f]
              /\ w.mut \notin Replaces => w.next[f] = w.read.doc[f] \cup {w.mut}
         /\ Held(f) = IF f \in Reached(w) THEN w.next[f] ELSE w.read.doc[f]

Said(p) == writers[p] # NONE => Faithful(writers[p])

LEMMA SaidFrom ==
  ASSUME FilesInv, NEW p \in Processes, NEW v \in Writing, Continues(p, v),
         Faithful(v)'
  PROVE  Said(p)'
<1>1. writers'[p] = v
  BY DEF Continues, FilesInv, FilesTypeOK
<1> QED BY <1>1 DEF Said, Faithful, Reached

LEMMA SaidDropped ==
  ASSUME FilesInv, NEW p \in Processes, Drops(p)
  PROVE  Said(p)'
<1>1. writers'[p] = NONE
  BY DEF Drops, FilesInv, FilesTypeOK
<1> QED BY <1>1 DEF Said

\* Between the operation and the index a mutation writes its files.
Writes(p) ==
  \/ Hide(p) \/ Restore(p) \/ Rewrite(p)
  \/ \E f \in Files : Put(p, f) \/ Truncate(p, f)

\* The mutation w further on.
Follows(v, w) ==
  /\ v.at # "read" /\ v.mut = w.mut
  /\ v.read = w.read /\ v.next = w.next

LEMMA GoingFollows ==
  ASSUME NEW w \in Writing, NEW step \in WriteStep, NEW left, NEW restore, NEW torn
  PROVE  LET v == Going(w, step, left, restore, torn) IN
         Follows(v, w) /\ v.at = step /\ v.left = left
BY DEF Going, Writing, Follows, WriteStep

\* What writing does to the files: those newly reached say what the mutation
\* makes of them, the others what they said.
LEMMA WritesReach ==
  ASSUME FilesInv, NEW p, Processes = {p}, Placed(p), Said(p), Writes(p)
  PROVE  LET w == writers[p] IN
         /\ w # NONE /\ w \in Writing /\ w.at # "read" /\ Faithful(w)
         /\ UNCHANGED <<readers, acked, faults, overlooked>>
         /\ \E v \in Writing :
              /\ Continues(p, v) /\ Follows(v, w)
              /\ \A f \in Files :
                   /\ f \in Reached(v) => Held(f)' = w.next[f]
                   /\ f \notin Reached(v) => f \notin Reached(w) /\ Held(f)' = Held(f)
<1> DEFINE w == writers[p]
<1>1. /\ p \in Processes /\ w # NONE
      /\ UNCHANGED <<readers, acked, faults, overlooked>>
  BY DEF Writes, Hide, Restore, Rewrite, Put, Truncate, At
<1>2. w \in Writing /\ Orderly(w) /\ Poised(w) /\ Faithful(w)
  BY <1>1 DEF Placed, Said, FilesInv, FilesTypeOK
<1>3. Stories \cap Sidecars = {} /\ Files = Stories \cup Sidecars /\ w.left \subseteq Files
  BY <1>2, MirkAssumption DEF Files, Writing
<1>4. w.at \in WriteStep
  <2>1. CASE Hide(p) \/ Restore(p) \/ \E f \in Files : Put(p, f)
    BY <2>1 DEF Hide, Restore, Put, At, WriteStep
  <2>2. CASE Rewrite(p)
    BY <1>2, <2>2 DEF Rewrite, Poised, Writing, WriteStep
  <2>3. ASSUME NEW f \in Files, Truncate(p, f)
        PROVE  w.at \in WriteStep
    <3>1. f = w.restore \/ w.at = "sidecars"
      BY <2>3 DEF Truncate, At
    <3> QED BY <1>2, <2>3, <3>1, NoneIsNothing DEF Orderly, WriteStep
  <2> QED BY <2>1, <2>2, <2>3 DEF Writes
<1>5. w.at # "read"
  BY <1>4 DEF WriteStep
<1>6. \A f \in Reached(w) : f \in Files => Held(f) = w.next[f]
  BY <1>2, <1>5 DEF Faithful
<1> SUFFICES \E v \in Writing :
               /\ Continues(p, v) /\ Follows(v, w)
               /\ \A f \in Files :
                    /\ f \in Reached(v) => Held(f)' = w.next[f]
                    /\ f \notin Reached(v) =>
                         f \notin Reached(w) /\ Held(f)' = Held(f)
  BY <1>1, <1>2, <1>5
<1>7. CASE Hide(p)
  <2> DEFINE v == Going(w, "put", w.left, w.restore, w.torn)
  <2>1. Continues(p, v) /\ w.at = "hide"
    BY <1>1, <1>7, WriterMoves DEF Hide, At
  <2>2. Follows(v, w) /\ v.at = "put" /\ v.left = w.left
    BY <1>2, GoingFollows DEF WriteStep
  <2>3. \A f \in Files : Held(f)' = Held(f)
    BY <1>7, HeldStays
  <2> HIDE DEF v
  <2>4. Reached(v) = Reached(w)
    BY <2>1, <2>2 DEF Reached
  <2> QED BY <1>6, <2>1, <2>2, <2>3, <2>4 DEF Continues
<1>8. CASE Restore(p)
  <2> DEFINE v == Going(w, "sidecars", Sidecars, NONE, NONE)
  <2>1. Continues(p, v) /\ w.at = "put" /\ w.left = {}
    BY <1>1, <1>8, WriterMoves DEF Restore, At
  <2>2. Follows(v, w) /\ v.at = "sidecars" /\ v.left = Sidecars
    BY <1>2, GoingFollows DEF WriteStep
  <2>3. \A f \in Files : Held(f)' = Held(f)
    BY <1>8, HeldStays
  <2> HIDE DEF v
  <2>4. Reached(v) = Reached(w)
    BY <1>3, <2>1, <2>2 DEF Reached
  <2> QED BY <1>6, <2>1, <2>2, <2>3, <2>4 DEF Continues
<1>9. CASE Rewrite(p)
  <2> DEFINE v == Going(w, w.at, w.left, w.restore, NONE)
  <2>1. Continues(p, v) /\ w.torn \in Files
    BY <1>1, <1>2, <1>9, WriterMoves DEF Rewrite, Writing
  <2>2. Follows(v, w) /\ v.at = w.at /\ v.left = w.left
    BY <1>2, <1>4, GoingFollows
  <2>3. \A f \in Files : Held(f)' = Held(f)
    BY <1>9, <2>1, HeldWritten
  <2> HIDE DEF v
  <2>4. Reached(v) = Reached(w)
    BY <2>2 DEF Reached
  <2> QED BY <1>6, <2>1, <2>2, <2>3, <2>4 DEF Continues
<1>10. ASSUME NEW f \in Files, NEW v, Continues(p, v), Follows(v, w), v.at = w.at,
              v.left = w.left \ {f}, Put(p, f) \/ Truncate(p, f),
              w.at = "sidecars" \/ f \in Stories
       PROVE  \E u \in Writing :
                /\ Continues(p, u) /\ Follows(u, w)
                /\ \A g \in Files :
                     /\ g \in Reached(u) => Held(g)' = w.next[g]
                     /\ g \notin Reached(u) =>
                          g \notin Reached(w) /\ Held(g)' = Held(g)
  <2>1. Held(f)' = w.next[f] /\ \A g \in Files \ {f} : Held(g)' = Held(g)
    BY <1>10, HeldWritten
  <2>2. Reached(v) = Reached(w) \cup {f}
    BY <1>3, <1>10 DEF Reached
  <2> QED BY <1>6, <1>10, <2>1, <2>2 DEF Continues
<1>11. ASSUME NEW f \in Files, Put(p, f)
       PROVE  \E v : /\ Continues(p, v) /\ Follows(v, w) /\ v.at = w.at
                     /\ v.left = w.left \ {f} /\ f \in Stories
  <2> DEFINE restore == IF f \in Restored THEN f ELSE NONE
             v == Going(w, "put", w.left \ {f}, restore, NONE)
  <2>1. w.at = "put" /\ f \in Stories /\ Continues(p, v)
    BY <1>1, <1>11, WriterMoves DEF Put, At
  <2>2. Follows(v, w) /\ v.at = "put" /\ v.left = w.left \ {f}
    BY <1>2, GoingFollows DEF WriteStep
  <2> HIDE DEF v
  <2> QED BY <2>1, <2>2
<1>12. ASSUME NEW f \in Files, Truncate(p, f)
       PROVE  \E v : /\ Continues(p, v) /\ Follows(v, w) /\ v.at = w.at
                     /\ v.left = w.left \ {f}
                     /\ w.at = "sidecars" \/ f \in Stories
  <2> DEFINE v == Going(w, w.at, w.left \ {f}, NONE, f)
  <2>1. Continues(p, v)
    BY <1>1, <1>12, WriterMoves
  <2>2. Follows(v, w) /\ v.at = w.at /\ v.left = w.left \ {f}
    BY <1>2, <1>4, GoingFollows
  <2>3. w.at = "sidecars" \/ f \in Stories
    <3>1. f = w.restore \/ w.at = "sidecars"
      BY <1>12 DEF Truncate, At
    <3> QED BY <1>2, <1>12, <3>1, NoneIsNothing, MirkAssumption DEF Orderly
  <2> HIDE DEF v
  <2> QED BY <2>1, <2>2, <2>3
<1> QED BY <1>7, <1>8, <1>9, <1>10, <1>11, <1>12 DEF Writes

LEMMA SaidInit ==
  ASSUME FilesInit, NEW p \in Processes
  PROVE  Said(p)
BY DEF FilesInit, Said

LEMMA SaidNext ==
  ASSUME FilesInv, NEW p, Processes = {p}, Placed(p), Said(p),
         [FilesNext]_filesVars
  PROVE  Said(p)'
<1> DEFINE w == writers[p]
<1>0. /\ p \in Processes
      /\ w # NONE => w \in Writing /\ Faithful(w) /\ Orderly(w) /\ Poised(w)
      /\ w # NONE => w.mut \in Mutations
  BY DEF Said, Placed, FilesInv, FilesTypeOK, Writing
<1>1. CASE UNCHANGED <<file, hidden, writers, acked>>
  <2>1. \A f \in Files : Parts(p, f)' = Parts(p, f)
    BY <1>1 DEF Parts, Seen, HiddenPart, OpenPart
  <2>2. \A f \in Files : Held(f)' = Held(f)
    BY <2>1, HeldIsParts
  <2>3. w # NONE => Faithful(w)'
    BY <1>0, <1>1, <2>2 DEF Faithful, Reached
  <2> QED BY <1>1, <2>3 DEF Said, Faithful, Reached
<1>2. ASSUME NEW c \in Clients, NEW m \in Mutations,
             NEW e \in {NONE, readers[c].rev}, Submit(p, c, m, e)
      PROVE  Said(p)'
  <2>1. PICK v \in Writing :
           /\ Continues(p, v) /\ v.mut = m /\ v.expected = e /\ v.read = Begun
           /\ v.at = "read" /\ v.restore = NONE /\ v.torn = NONE
    BY <1>0, <1>2, SubmitMoves
  <2>2. Begun.at = "stories"
    BY BegunType
  <2>3. acked' = acked /\ m \notin acked
    BY <1>2 DEF Submit
  <2>4. Faithful(v)'
    BY <2>1, <2>2, <2>3 DEF Faithful
  <2> QED BY <1>0, <2>1, <2>4, SaidFrom
<1>3. CASE MutateRead(p)
  <2>1. PICK r \in ReadOn(w.read) :
               Continues(p, [w EXCEPT !.read = r]) /\ r \in Reading
    BY <1>0, <1>3, MutateReadMoves
  <2>2. /\ w # NONE /\ w \in Writing /\ w.at = "read" /\ w.read.at # "done"
        /\ w.read \in Reading /\ Faithful(w) /\ Poised(w)
        /\ acked' = acked
    BY <1>0, <1>3 DEF MutateRead, At, Writing
  <2>3. PICK v \in Writing :
          Continues(p, v) /\ v.at = w.at /\ v.mut = w.mut /\ v.read = r
    <3>1. [w EXCEPT !.read = r] \in Writing
      BY <2>1 DEF Continues
    <3> QED BY <2>1, <2>2, <3>1 DEF Writing
  <2>4. \A f \in Files : Held(f)' = Held(f)
    BY <1>3, HeldStays
  <2>5. \A f \in Files : Seen(f) = Held(f)
    <3>1. ASSUME NEW f \in Files
          PROVE  Seen(f) = Parts(p, f)
      <4>1. hidden[p] = Nothing /\ w.torn = NONE /\ f # NONE
        BY <2>2, NoneIsNothing DEF Placed, At, Poised
      <4> QED BY <4>1 DEF Parts, HiddenPart, OpenPart, Nothing
    <3> QED BY <3>1, HeldIsParts
  <2>6. /\ w.read.left \subseteq Sidecars /\ w.read.doc \in Contents
        /\ w.read.at = "stories" => w.read.left = Sidecars
        /\ w.read.at # "stories" =>
             \A f \in Files \ w.read.left : w.read.doc[f] = Held(f)
    BY <2>2 DEF Reading, Poised, Faithful
  <2>7. \A f \in Files \ r.left : r.doc[f] = Held(f)
    <3>1. CASE /\ w.read.at = "stories" /\ r.left = w.read.left
               /\ \A f \in Stories : r.doc[f] = Seen(f)
      BY <2>5, <2>6, <3>1 DEF Files
    <3>2. CASE w.read.at # "stories" /\ r.left = w.read.left /\ r.doc = w.read.doc
      BY <2>6, <3>2
    <3>3. ASSUME NEW g \in w.read.left, r.left = w.read.left \ {g},
                 w.read.at # "stories", r.doc = [w.read.doc EXCEPT ![g] = Seen(g)]
          PROVE  \A f \in Files \ r.left : r.doc[f] = Held(f)
      BY <2>5, <2>6, <3>3 DEF Contents, Files
    <3> QED BY <2>2, <3>1, <3>2, <3>3, ReadOnFacts
  <2>8. Faithful(v)'
    BY <2>2, <2>3, <2>4, <2>7 DEF Faithful
  <2> QED BY <1>0, <2>3, <2>8, SaidFrom
<1>4. CASE Apply(p)
  <2>1. /\ w # NONE /\ w \in Writing /\ w.at = "read" /\ w.read.at = "done"
        /\ acked' = acked
    BY <1>0, <1>4 DEF Apply, At
  <2>2. \A f \in Files : Held(f)' = Held(f)
    BY <1>4, HeldStays
  <2>3. CASE Drops(p)
    BY <1>0, <2>3, SaidDropped
  <2>4. ASSUME NEW v \in Writing, Continues(p, v), v.mut = w.mut, v.at = "hide",
               v.left = StoriesToPut(w), v.next = Applied(w), v.read = w.read
        PROVE  Said(p)'
    <3>1. \A f \in Files : w.read.doc[f] = Held(f)
      BY <1>0, <2>1 DEF Poised, Faithful
    <3>2. \A f \in Files :
            v.next[f] = IF f \notin Touches[w.mut] THEN w.read.doc[f]
                        ELSE {w.mut} \cup IF w.mut \in Replaces THEN w.copy.doc[f]
                                          ELSE w.read.doc[f]
      BY <2>4 DEF Applied
    <3>3. Reached(v) \cap Touches[w.mut] = {}
      BY <2>4 DEF Reached, StoriesToPut
    <3>4. \A f \in Files :
            /\ f \notin Touches[w.mut] => v.next[f] = w.read.doc[f]
            /\ f \in Touches[w.mut] =>
                 /\ w.mut \in v.next[f]
                 /\ w.mut \notin Replaces => v.next[f] = w.read.doc[f] \cup {w.mut}
            /\ Held(f)' = IF f \in Reached(v) THEN v.next[f] ELSE w.read.doc[f]
      BY <2>2, <3>1, <3>2, <3>3
    <3>5. w.mut \notin acked
      BY <1>0, <2>1 DEF Faithful
    <3>6. Faithful(v)'
      BY <2>1, <2>4, <3>4, <3>5 DEF Faithful, Reached
    <3> QED BY <1>0, <2>4, <3>6, SaidFrom
  <2> QED BY <1>0, <1>4, <2>3, <2>4, ApplyMoves
<1>5. CASE Writes(p)
  <2>1. PICK v \in Writing :
           /\ Continues(p, v) /\ Follows(v, w)
           /\ \A f \in Files :
                /\ f \in Reached(v) => Held(f)' = w.next[f]
                /\ f \notin Reached(v) => f \notin Reached(w) /\ Held(f)' = Held(f)
    BY <1>5, WritesReach
  <2>2. w.at # "read" /\ Faithful(w) /\ acked' = acked
    BY <1>5, WritesReach
  <2>3. \A f \in Files : Held(f)' = IF f \in Reached(v) THEN w.next[f] ELSE w.read.doc[f]
    BY <2>1, <2>2 DEF Faithful
  <2>4. Faithful(v)'
    BY <2>1, <2>2, <2>3 DEF Faithful, Follows, Reached
  <2> QED BY <1>0, <2>1, <2>4, SaidFrom
<1>6. CASE WriteIndex(p) \/ Failure(p)
  <2>1. Drops(p)
    BY <1>6 DEF WriteIndex, Failure, PutFails, WriteFails, Crash, Drops
  <2> QED BY <1>0, <2>1, SaidDropped
<1>7. CASE Request
  <2>1. ASSUME NEW c \in Clients, StartGet(c) \/ GetStep(c)
        PROVE  Said(p)'
    BY <1>1, <2>1 DEF StartGet, GetStep
  <2> QED BY <1>2, <1>7, <2>1 DEF Request
<1> QED BY <1>1, <1>3, <1>4, <1>5, <1>6, <1>7
    DEF FilesNext, WriterStep, Writes, filesVars

\* A copy says of the mutations answered before its stories were read what the
\* files said, in all stories it found; and its number counts those answered
\* before the number was read, or none while a put has cleared it.
Good(r) ==
  /\ r.base \subseteq acked
  /\ faults \subseteq {"refused"} =>
       \A m \in r.base : \A f \in (Touches[m] \cap Stories) \ r.gone :
         <<m, f>> \in overlooked \/ m \in r.doc[f]
  /\ r.at \in {"sidecars", "done"} =>
       r.upto \subseteq acked /\ (faults = {} => r.rev \in {0, Cardinality(r.upto)})

\* An upsert stores such a copy; what an operation makes of the document
\* reflects all answered mutations, but for those the upsert overlooked.
Grounded(w) ==
  /\ w.at = "read" /\ w.mut \in Replaces =>
       /\ Good(w.copy) /\ w.copy.at = "done"
       /\ Touches[w.mut] \cap w.copy.gone = {}
       /\ w.expected \in {NONE, w.copy.rev}
  /\ w.at # "read" /\ faults \subseteq {"refused"} =>
       \A m \in acked : \A f \in Touches[m] :
         <<m, f>> \in overlooked \/ m \in w.next[f]

Kept(p) ==
  /\ NoLostUpdate
  /\ \A c \in Clients : Good(readers[c])
  /\ writers[p] # NONE => Grounded(writers[p])

\* What was answered, what went wrong and what was overlooked only grows.
LEMMA HistoryGrows ==
  ASSUME FilesInv, NEW p, Processes = {p}, [FilesNext]_filesVars
  PROVE  /\ acked \subseteq acked' /\ faults \subseteq faults'
         /\ overlooked \subseteq overlooked'
<1>1. CASE Request
  <2>1. UNCHANGED <<acked, faults, overlooked>>
    BY <1>1 DEF Request, StartGet, GetStep, Submit
  <2> QED BY <2>1
<1>2. CASE WriterStep(p)
  BY <1>2 DEF WriterStep, MutateRead, Apply, Hide, Restore, WriteIndex, Put,
              Truncate, Rewrite
<1>3. CASE Failure(p)
  BY <1>3 DEF Failure, PutFails, WriteFails, Crash, Fails
<1> QED BY <1>1, <1>2, <1>3 DEF FilesNext, filesVars

LEMMA GoodStays ==
  ASSUME NEW r \in Reading, Good(r), acked \subseteq acked', faults \subseteq faults',
         overlooked \subseteq overlooked'
  PROVE  Good(r)'
BY DEF Good

LEMMA KeptFrom ==
  ASSUME FilesInv, NEW p \in Processes, NEW v \in Writing, Continues(p, v),
         NoLostUpdate', \A c \in Clients : Good(readers[c])', Grounded(v)'
  PROVE  Kept(p)'
<1>1. writers'[p] = v
  BY DEF Continues, FilesInv, FilesTypeOK
<1> QED BY <1>1 DEF Kept, Grounded, Good

LEMMA KeptDropped ==
  ASSUME FilesInv, NEW p \in Processes, Drops(p),
         NoLostUpdate', \A c \in Clients : Good(readers[c])'
  PROVE  Kept(p)'
<1>1. writers'[p] = NONE
  BY DEF Drops, FilesInv, FilesTypeOK
<1> QED BY <1>1 DEF Kept

LEMMA NoLostUpdateStays ==
  ASSUME FilesInv, NoLostUpdate, acked' = acked, faults \subseteq faults',
         overlooked \subseteq overlooked',
         \A f \in Files : Held(f) \subseteq Held(f)'
  PROVE  NoLostUpdate'
<1>1. \A m \in acked : Touches[m] \subseteq Files
  BY MirkAssumption DEF FilesInv, FilesTypeOK
<1> QED BY <1>1 DEF NoLostUpdate

LEMMA NoReadGood ==
  ASSUME acked \subseteq Mutations
  PROVE  Good(NoRead)
<1>1. /\ NoRead.base = {} /\ NoRead.upto = {} /\ NoRead.rev = 0
  BY DEF NoRead
<1> QED BY <1>1 DEF Good

LEMMA KeptInit ==
  ASSUME FilesInit, NEW p \in Processes
  PROVE  Kept(p)
<1>1. \A c \in Clients : Good(readers[c])
  BY NoReadGood DEF FilesInit
<1> QED BY <1>1 DEF FilesInit, Kept, NoLostUpdate

\* One await of a client's read.
LEMMA ReadOnGood ==
  ASSUME FilesInv, NEW p, Processes = {p}, Placed(p), Counted(p), NoLostUpdate,
         NEW q \in Reading, q.at # "done", Good(q), NEW r \in ReadOn(q)
  PROVE  Good(r)
<1>0. /\ q.left \subseteq Sidecars /\ q.doc \in Contents
      /\ Stories \cap Sidecars = {} /\ Stories \subseteq Files
      /\ p \in Processes /\ NONE \notin Files
  BY MirkAssumption, NoneIsNothing DEF Reading, Files
<1>1. CASE /\ q.at = "stories" /\ r.at = "revision"
           /\ \A f \in Stories : r.doc[f] = Seen(f)
           /\ r.gone = {f \in Stories : file[f] = NONE} /\ r.base = acked
  <2>1. ASSUME NEW f \in Stories \ r.gone
        PROVE  Held(f) = Seen(f)
    <3>1. HiddenPart(p, f) = {}
      BY <1>0, <2>1 DEF HiddenPart
    <3>2. OpenPart(p, f) = {}
      BY <1>0, <1>1, <2>1 DEF OpenPart, Placed
    <3> QED BY <3>1, <3>2, HeldIsParts DEF Parts
  <2>2. faults \subseteq {"refused"} =>
          \A m \in r.base : \A f \in (Touches[m] \cap Stories) \ r.gone :
            <<m, f>> \in overlooked \/ m \in r.doc[f]
    <3> SUFFICES ASSUME faults \subseteq {"refused"}, NEW m \in acked,
                        NEW f \in Touches[m] \cap Stories, f \notin r.gone
                 PROVE  <<m, f>> \in overlooked \/ m \in r.doc[f]
      BY <1>1
    <3>1. <<m, f>> \in overlooked \/ m \in Held(f)
      BY DEF NoLostUpdate
    <3>2. Held(f) = Seen(f) /\ r.doc[f] = Seen(f)
      BY <1>1, <2>1
    <3> QED BY <3>1, <3>2
  <2> QED BY <1>1, <2>2 DEF Good
<1>2. CASE /\ q.at = "revision" /\ r.doc = q.doc /\ r.rev = index
           /\ r.gone = q.gone /\ r.base = q.base /\ r.upto = acked
  BY <1>2 DEF Good, Counted
<1>3. ASSUME q.at = "sidecars", r.rev = q.rev,
             r.gone = q.gone, r.base = q.base, r.upto = q.upto,
             NEW f \in q.left, r.doc = [q.doc EXCEPT ![f] = Seen(f)]
      PROVE  Good(r)
  <2>1. \A g \in Stories : r.doc[g] = q.doc[g]
    BY <1>0, <1>3 DEF Contents
  <2> QED BY <1>3, <2>1 DEF Good
<1> QED BY <1>1, <1>2, <1>3, ReadOnFacts

\* An accepted upsert that names a revision knows of what was answered then,
\* which is all of it; the others overlook what they do not know.
LEMMA UpsertKnows ==
  ASSUME FilesInv, NEW p, Processes = {p}, Placed(p), Counted(p),
         NEW w, w = writers[p], w # NONE, w.at = "read",
         w.read.at = "done", w.mut \in Replaces, Grounded(w), Current(w),
         NEW m \in acked, m \notin Missed(w)
  PROVE  m \in w.copy.base
<1> SUFFICES ASSUME m \notin w.copy.base PROVE FALSE
  OBVIOUS
<1>1. /\ w.expected # NONE /\ faults = {} /\ m \notin w.copy.upto
  BY DEF Missed
<1>2. /\ w.copy.upto \subseteq acked /\ w.copy.rev \in {0, Cardinality(w.copy.upto)}
      /\ w.expected = w.copy.rev
  BY <1>1 DEF Grounded, Good
<1>3. w.expected = w.read.rev /\ w.read.rev = Cardinality(acked)
  BY <1>1 DEF Current, Counted, Counts
<1>4. IsFiniteSet(acked)
  BY DEF Counted
<1>5. CASE Cardinality(acked) = 0
  BY <1>4, <1>5, FS_EmptySet
<1>6. CASE Cardinality(acked) = Cardinality(w.copy.upto)
  <2>1. w.copy.upto = acked
    BY <1>2, <1>4, <1>6, FS_Subset
  <2> QED BY <1>1, <2>1
<1> QED BY <1>2, <1>3, <1>5, <1>6

LEMMA KeptNext ==
  ASSUME FilesInv, NEW p, Processes = {p}, Placed(p), Counted(p), Said(p), Kept(p),
         [FilesNext]_filesVars
  PROVE  Kept(p)'
<1> DEFINE w == writers[p]
<1>0. /\ p \in Processes
      /\ w # NONE => /\ w \in Writing /\ Faithful(w) /\ Poised(w) /\ Grounded(w)
                     /\ w.mut \in Mutations /\ w.copy \in Reading
      /\ readers \in [Clients -> Reading]
      /\ \A c \in Clients : readers[c] \in Reading /\ Good(readers[c])
  BY DEF Said, Kept, Placed, FilesInv, FilesTypeOK, Writing
<1>1. /\ acked \subseteq acked' /\ faults \subseteq faults'
      /\ overlooked \subseteq overlooked'
  BY HistoryGrows
<1>2. ASSUME readers' = readers
      PROVE  \A c \in Clients : Good(readers[c])'
  <2>1. \A r \in Reading : Good(r) => Good(r)'
    BY <1>1, GoodStays
  <2> QED BY <1>0, <1>2, <2>1 DEF Good
<1>3. ASSUME UNCHANGED <<file, hidden, writers, acked, faults, overlooked>>,
             \A c \in Clients : Good(readers[c])'
      PROVE  Kept(p)'
  <2>1. \A f \in Files : Parts(p, f)' = Parts(p, f)
    BY <1>3 DEF Parts, Seen, HiddenPart, OpenPart
  <2>2. \A f \in Files : Held(f) \subseteq Held(f)'
    BY <2>1, HeldIsParts
  <2>3. NoLostUpdate'
    BY <1>3, <2>2, NoLostUpdateStays DEF Kept
  <2>4. w # NONE => Grounded(w)'
    BY <1>0, <1>3 DEF Grounded, Good
  <2> QED BY <1>3, <2>3, <2>4 DEF Kept, Grounded, Good
<1>4. ASSUME NEW c \in Clients, StartGet(c) \/ GetStep(c)
      PROVE  Kept(p)'
  <2>1. /\ UNCHANGED <<file, hidden, writers, acked, faults, overlooked>>
        /\ \E r \in Reading : Good(r) /\ readers' = [readers EXCEPT ![c] = r]
    <3>1. ASSUME NEW q \in Reading, q.at # "done", Good(q), NEW r \in ReadOn(q)
          PROVE  r \in Reading /\ Good(r)
      BY <3>1, ReadOnType, ReadOnGood DEF FilesInv, Kept
    <3>2. CASE GetStep(c)
      BY <1>0, <3>1, <3>2 DEF GetStep
    <3>3. CASE StartGet(c)
      <4> DEFINE q == [Begun EXCEPT !.left = {}]
      <4>1. /\ q \in Reading /\ q.at = "stories" /\ q.base = {}
        <5>1. Begun.base = {}
          BY DEF Begun, NoRead
        <5> QED BY <5>1, BegunType DEF Reading
      <4>2. Good(q)
        BY <4>1 DEF Good
      <4>3. /\ UNCHANGED <<file, hidden, writers, acked, faults, overlooked>>
            /\ \E r \in ReadOn(q) : readers' = [readers EXCEPT ![c] = r]
        BY <3>3 DEF StartGet
      <4> HIDE DEF q
      <4> QED BY <3>1, <4>1, <4>2, <4>3
    <3> QED BY <1>4, <3>2, <3>3
  <2>2. \A d \in Clients : Good(readers[d])'
    BY <1>0, <2>1 DEF Good
  <2> QED BY <1>3, <2>1, <2>2
<1>5. ASSUME NEW c \in Clients, NEW m \in Mutations,
             NEW e \in {NONE, readers[c].rev}, Submit(p, c, m, e)
      PROVE  Kept(p)'
  <2>1. PICK v \in Writing :
           /\ Continues(p, v) /\ v.mut = m /\ v.expected = e
           /\ v.copy = (IF m \in Replaces THEN readers[c] ELSE NoRead)
           /\ v.at = "read"
    BY <1>0, <1>5, SubmitMoves
  <2>2. /\ UNCHANGED <<acked, faults, overlooked, readers>>
        /\ readers[c].at = "done"
        /\ m \in Replaces => Touches[m] \cap readers[c].gone = {}
    BY <1>5 DEF Submit
  <2>3. \A f \in Files : Held(f) \subseteq Held(f)'
    BY <1>5, HeldStays DEF Request
  <2>4. NoLostUpdate'
    BY <1>1, <2>2, <2>3, NoLostUpdateStays DEF Kept
  <2>5. Good(readers[c])'
    BY <1>2, <2>2
  <2>6. m \in Replaces => Good(v.copy)'
    BY <2>1, <2>2, <2>5 DEF Good
  <2>7. Grounded(v)'
    BY <1>5, <2>1, <2>2, <2>6 DEF Grounded
  <2> QED BY <1>0, <1>2, <2>1, <2>2, <2>4, <2>7, KeptFrom
<1>6. CASE MutateRead(p)
  <2>1. PICK r \in ReadOn(w.read) :
               Continues(p, [w EXCEPT !.read = r]) /\ r \in Reading
    BY <1>0, <1>6, MutateReadMoves
  <2>2. /\ w # NONE /\ w \in Writing /\ w.at = "read"
        /\ UNCHANGED <<acked, faults, overlooked, readers>>
    BY <1>0, <1>6 DEF MutateRead, At
  <2>3. PICK v \in Writing :
          /\ Continues(p, v) /\ v.at = w.at /\ v.mut = w.mut /\ v.copy = w.copy
          /\ v.expected = w.expected
    <3>1. [w EXCEPT !.read = r] \in Writing
      BY <2>1 DEF Continues
    <3> QED BY <2>1, <2>2, <3>1 DEF Writing
  <2>4. \A f \in Files : Held(f) \subseteq Held(f)'
    BY <1>6, HeldStays
  <2>5. NoLostUpdate'
    BY <1>1, <2>2, <2>4, NoLostUpdateStays DEF Kept
  <2>6. v.mut \in Replaces => Good(v.copy)'
    BY <1>0, <1>1, <2>2, <2>3, GoodStays DEF Grounded
  <2>7. Grounded(v)'
    BY <1>0, <2>2, <2>3, <2>6 DEF Grounded, Good
  <2> QED BY <1>0, <1>2, <2>2, <2>3, <2>5, <2>7, KeptFrom
<1>7. CASE Apply(p)
  <2>1. /\ w # NONE /\ w \in Writing /\ w.at = "read" /\ w.read.at = "done"
        /\ UNCHANGED <<acked, faults, readers>>
    BY <1>0, <1>7 DEF Apply, At
  <2>2. \A f \in Files : Held(f)' = Held(f)
    BY <1>7, HeldStays
  <2>3. NoLostUpdate'
    BY <1>1, <2>1, <2>2, NoLostUpdateStays DEF Kept
  <2>4. CASE Drops(p)
    BY <1>0, <1>2, <2>1, <2>3, <2>4, KeptDropped
  <2>5. ASSUME NEW v \in Writing, Continues(p, v), v.mut = w.mut, v.at = "hide",
               v.next = Applied(w), Current(w),
               overlooked' = overlooked \cup Overlooks(w)
        PROVE  Kept(p)'
    <3>1. \A f \in Files : w.read.doc[f] = Held(f)
      BY <1>0, <2>1 DEF Poised, Faithful
    <3>2. \A f \in Files :
            v.next[f] = IF f \notin Touches[w.mut] THEN w.read.doc[f]
                        ELSE {w.mut} \cup IF w.mut \in Replaces THEN w.copy.doc[f]
                                          ELSE w.read.doc[f]
      BY <2>5 DEF Applied
    <3>3. ASSUME faults \subseteq {"refused"}, NEW m \in acked, NEW f \in Touches[m],
                 <<m, f>> \notin overlooked'
          PROVE  m \in v.next[f]
      <4>1. f \in Files /\ m \in Held(f) /\ <<m, f>> \notin overlooked
        BY <2>5, <3>3, MirkAssumption DEF Kept, NoLostUpdate, FilesInv, FilesTypeOK
      <4>2. CASE f \notin Touches[w.mut] \/ w.mut \notin Replaces
        <5>1. w.read.doc[f] \subseteq v.next[f]
          BY <3>2, <4>1, <4>2
        <5> QED BY <3>1, <4>1, <5>1
      <4>3. CASE f \in Touches[w.mut] /\ w.mut \in Replaces
        <5>1. f \in Stories \ w.copy.gone /\ Good(w.copy)
          BY <1>0, <2>1, <4>3, MirkAssumption DEF Grounded
        <5>2. m \notin Missed(w)
          BY <2>5, <3>3, <4>3 DEF Overlooks
        <5>3. m \in w.copy.base
          BY <1>0, <2>1, <2>5, <4>3, <5>2, UpsertKnows
        <5>4. m \in w.copy.doc[f]
          BY <3>3, <4>1, <5>1, <5>3 DEF Good
        <5> QED BY <3>2, <4>1, <4>3, <5>4
      <4> QED BY <4>2, <4>3
    <3>4. Grounded(v)'
      BY <2>1, <2>5, <3>3 DEF Grounded
    <3> QED BY <1>0, <1>2, <2>1, <2>3, <2>5, <3>4, KeptFrom
  <2> QED BY <1>0, <1>7, <2>4, <2>5, ApplyMoves
<1>8. CASE Writes(p)
  <2>1. PICK v \in Writing :
           /\ Continues(p, v) /\ Follows(v, w)
           /\ \A f \in Files :
                /\ f \in Reached(v) => Held(f)' = w.next[f]
                /\ f \notin Reached(v) => f \notin Reached(w) /\ Held(f)' = Held(f)
    BY <1>8, WritesReach
  <2>2. w # NONE /\ w.at # "read" /\ UNCHANGED <<readers, acked, faults, overlooked>>
    BY <1>8, WritesReach
  <2>3. \A m \in acked : Touches[m] \subseteq Files
    BY MirkAssumption DEF FilesInv, FilesTypeOK
  <2>4. NoLostUpdate'
    BY <1>0, <2>1, <2>2, <2>3 DEF NoLostUpdate, Kept, Grounded
  <2>5. Grounded(v)'
    BY <1>0, <2>1, <2>2 DEF Grounded, Follows
  <2> QED BY <1>0, <1>2, <2>1, <2>2, <2>4, <2>5, KeptFrom
<1>9. CASE WriteIndex(p)
  <2>1. /\ w # NONE /\ w.at = "sidecars" /\ w.left = {} /\ Drops(p)
        /\ acked' = acked \cup {w.mut} /\ UNCHANGED <<readers, faults, overlooked>>
    BY <1>9 DEF WriteIndex, At, Drops
  <2>2. \A f \in Files : Held(f)' = Held(f)
    BY <1>9, HeldStays
  <2>3. \A f \in Touches[w.mut] : w.mut \in Held(f)
    BY <1>0, <2>1, MirkAssumption DEF Faithful, Reached
  <2>4. \A m \in acked' : Touches[m] \subseteq Files
    BY <1>0, <2>1, MirkAssumption DEF FilesInv, FilesTypeOK
  <2>5. NoLostUpdate'
    BY <2>1, <2>2, <2>3, <2>4 DEF NoLostUpdate, Kept
  <2> QED BY <1>0, <1>2, <2>1, <2>5, KeptDropped
<1>10. CASE PutFails(p)
  <2>1. Drops(p) /\ UNCHANGED <<acked, readers>>
    BY <1>10 DEF PutFails, Drops
  <2>2. \A f \in Files : Held(f) \subseteq Held(f)'
    BY <1>10, HeldStays
  <2>3. NoLostUpdate'
    BY <1>1, <2>1, <2>2, NoLostUpdateStays DEF Kept
  <2> QED BY <1>0, <1>2, <2>1, <2>3, KeptDropped
<1>11. CASE WriteFails(p) \/ Crash(p)
  <2>1. Drops(p) /\ ~(faults' \subseteq {"refused"}) /\ readers' = readers
    BY <1>11 DEF WriteFails, Crash, Fails, Drops
  <2>2. NoLostUpdate'
    BY <2>1 DEF NoLostUpdate
  <2> QED BY <1>0, <1>2, <2>1, <2>2, KeptDropped
<1>12. CASE UNCHANGED filesVars
  <2>1. readers' = readers
    BY <1>12 DEF filesVars
  <2> QED BY <1>2, <1>3, <1>12, <2>1 DEF filesVars
<1> QED BY <1>4, <1>5, <1>6, <1>7, <1>8, <1>9, <1>10, <1>11, <1>12
    DEF FilesNext, Request, WriterStep, Writes, Failure

\* One process, any mutations, upserts of any copies and refusals of the store:
\* whatever was answered stays in every file it changed, but for what an upsert
\* could not know of.
THEOREM AcksAreKept ==
  ASSUME NEW p, Processes = {p}
  PROVE  FilesSpec => []NoLostUpdate
<1> DEFINE I == FilesInv /\ Placed(p) /\ Counted(p) /\ Said(p) /\ Kept(p)
<1>1. FilesInit => I
  BY FilesInitInv, PlacedInit, CountedInit, SaidInit, KeptInit
<1>2. I /\ [FilesNext]_filesVars => I'
  BY FilesNextInv, PlacedNext, CountedNext, SaidNext, KeptNext
<1>3. I => NoLostUpdate
  BY DEF Kept
<1> QED BY <1>1, <1>2, <1>3, PTL DEF FilesSpec

\* What the document counts as: as it was read, while a mutation writes it.
Counting(p, f) ==
  IF writers[p] # NONE /\ writers[p].at # "read" THEN writers[p].read.doc[f] ELSE Held(f)

LEMMA RoadmapCounts ==
  ASSUME NEW p, Processes = {p}
  PROVE  /\ Roadmap = [f \in Files |-> Counting(p, f)]
         /\ Roadmap' = [f \in Files |-> Counting(p, f)']
<1>1. /\ Underway = IF writers[p] # NONE /\ writers[p].at # "read" THEN {p} ELSE {}
      /\ Underway' = IF writers'[p] # NONE /\ writers'[p].at # "read" THEN {p} ELSE {}
  BY DEF Underway
<1>2. \A S : UNION {S} = S
  OBVIOUS
<1>3. \A f : /\ UNION {writers[q].read.doc[f] : q \in {p}} = writers[p].read.doc[f]
             /\ UNION {writers'[q].read.doc[f] : q \in {p}} = writers'[p].read.doc[f]
  OBVIOUS
<1>4. Roadmap = [f \in Files |-> Counting(p, f)]
  BY <1>1, <1>3 DEF Roadmap, Counting
<1>5. Roadmap' = [f \in Files |-> Counting(p, f)']
  BY <1>1, <1>3 DEF Roadmap, Counting
<1> QED BY <1>4, <1>5

\* The files a mutation has come to change.
LEMMA ReachedSays ==
  ASSUME FilesInv, NEW p \in Processes, NEW w, w = writers[p], w # NONE,
         Faithful(w), w.at # "read", NEW f \in Files
  PROVE  IF f \notin Touches[w.mut] \cap Reached(w) THEN Held(f) = w.read.doc[f]
         ELSE IF w.mut \in Replaces
           THEN Held(f) \in {{w.mut} \cup copy : copy \in SUBSET Mutations}
         ELSE Held(f) = w.read.doc[f] \cup {w.mut}
<1>1. w.next[f] \subseteq Mutations
  BY WriterDocs DEF Content
<1>2. CASE f \notin Touches[w.mut] \cap Reached(w)
  BY <1>2 DEF Faithful
<1>3. CASE f \in Touches[w.mut] \cap Reached(w)
  <2>1. Held(f) = w.next[f] /\ w.mut \in w.next[f]
    BY <1>3 DEF Faithful
  <2>2. w.next[f] = {w.mut} \cup w.next[f]
    BY <2>1
  <2>3. w.next[f] \in {{w.mut} \cup copy : copy \in SUBSET Mutations}
    BY <1>1, <2>2
  <2>4. w.mut \notin Replaces => w.next[f] = w.read.doc[f] \cup {w.mut}
    BY <1>3 DEF Faithful
  <2> QED BY <1>3, <2>1, <2>3, <2>4
<1> QED BY <1>2, <1>3

\* Steps on which the document counts as what it was.
LEMMA StoreStutters ==
  ASSUME FilesInv, NEW p, Processes = {p}, Placed(p), Said(p),
         Request \/ MutateRead(p) \/ Apply(p) \/ Writes(p) \/ UNCHANGED filesVars
  PROVE  UNCHANGED <<Roadmap, acked, faults>>
<1> DEFINE w == writers[p]
<1>0. /\ p \in Processes
      /\ w # NONE => w \in Writing /\ Faithful(w) /\ Poised(w)
      /\ NONE \notin Writing
  BY NoneIsNothing DEF Said, Placed, FilesInv, FilesTypeOK
<1> SUFFICES /\ UNCHANGED <<acked, faults>>
             /\ \A f \in Files : Counting(p, f)' = Counting(p, f)
  BY RoadmapCounts
<1>1. ASSUME NEW v \in Writing, Continues(p, v)
      PROVE  writers'[p] = v /\ v # NONE
  BY <1>0, <1>1 DEF Continues, FilesInv, FilesTypeOK
<1>2. CASE UNCHANGED <<file, hidden, writers, acked, faults>>
  <2>1. \A f \in Files : Parts(p, f)' = Parts(p, f)
    BY <1>2 DEF Parts, Seen, HiddenPart, OpenPart
  <2>2. \A f \in Files : Held(f)' = Held(f)
    BY <2>1, HeldIsParts
  <2> QED BY <1>2, <2>2 DEF Counting
<1>3. ASSUME NEW c \in Clients, NEW m \in Mutations,
             NEW e \in {NONE, readers[c].rev}, Submit(p, c, m, e)
      PROVE  /\ UNCHANGED <<acked, faults>>
             /\ \A f \in Files : Counting(p, f)' = Counting(p, f)
  <2>1. PICK v \in Writing : Continues(p, v) /\ v.at = "read"
    BY <1>0, <1>3, SubmitMoves
  <2>2. w = NONE /\ UNCHANGED <<acked, faults>>
    BY <1>3 DEF Submit
  <2>3. \A f \in Files : Held(f)' = Held(f)
    BY <1>3, HeldStays DEF Request
  <2> QED BY <1>1, <2>1, <2>2, <2>3 DEF Counting
<1>4. CASE MutateRead(p)
  <2>1. PICK r \in ReadOn(w.read) :
               Continues(p, [w EXCEPT !.read = r]) /\ r \in Reading
    BY <1>0, <1>4, MutateReadMoves
  <2>2. w # NONE /\ w.at = "read" /\ UNCHANGED <<acked, faults>>
    BY <1>4 DEF MutateRead, At
  <2>3. writers'[p].at = "read"
    BY <1>0, <2>1, <2>2 DEF Continues, FilesInv, FilesTypeOK, Writing
  <2>4. \A f \in Files : Held(f)' = Held(f)
    BY <1>4, HeldStays
  <2> QED BY <2>2, <2>3, <2>4 DEF Counting
<1>5. CASE Apply(p)
  <2>1. /\ w # NONE /\ w.at = "read" /\ w.read.at = "done"
        /\ UNCHANGED <<acked, faults>>
    BY <1>5 DEF Apply, At
  <2>2. \A f \in Files : Held(f)' = Held(f) /\ w.read.doc[f] = Held(f)
    BY <1>0, <1>5, <2>1, HeldStays DEF Poised, Faithful
  <2>3. CASE Drops(p)
    <3>1. writers'[p] = NONE
      BY <1>0, <2>3 DEF Drops, FilesInv, FilesTypeOK
    <3> QED BY <2>1, <2>2, <3>1 DEF Counting
  <2>4. ASSUME NEW v \in Writing, Continues(p, v), v.at = "hide", v.read = w.read
        PROVE  \A f \in Files : Counting(p, f)' = Counting(p, f)
    BY <1>1, <2>1, <2>2, <2>4 DEF Counting
  <2> QED BY <1>0, <1>5, <2>1, <2>3, <2>4, ApplyMoves
<1>6. CASE Writes(p)
  <2>1. PICK v \in Writing : Continues(p, v) /\ Follows(v, w)
    BY <1>6, WritesReach
  <2>2. w # NONE /\ w.at # "read" /\ UNCHANGED <<acked, faults>>
    BY <1>6, WritesReach
  <2> QED BY <1>1, <2>1, <2>2 DEF Follows, Counting
<1>7. CASE Request
  <2>1. ASSUME NEW c \in Clients, StartGet(c) \/ GetStep(c)
        PROVE  UNCHANGED <<file, hidden, writers, acked, faults>>
    BY <2>1 DEF StartGet, GetStep
  <2> QED BY <1>2, <1>3, <1>7, <2>1 DEF Request
<1> QED BY <1>2, <1>4, <1>5, <1>6, <1>7 DEF filesVars

\* The end of a mutation: it is answered, refused half-way or cut off.
LEMMA StoreMoves ==
  ASSUME FilesInv, NEW p, Processes = {p}, Placed(p), Said(p),
         WriteIndex(p) \/ Failure(p)
  PROVE  Store!StoreNext
<1> DEFINE w == writers[p]
           m == w.mut
<1>0. /\ p \in Processes /\ w # NONE /\ Drops(p)
      /\ w \in Writing /\ Faithful(w) /\ Poised(w) /\ m \in Mutations
      /\ NONE \notin Files /\ Files = Stories \cup Sidecars
      /\ Stories \cap Sidecars = {} /\ Restored \subseteq Stories
      /\ Touches[m] \subseteq Files
  BY NoneIsNothing, WriterDocs, MirkAssumption
     DEF WriteIndex, Failure, PutFails, WriteFails, Crash, At, Drops, Said, Placed,
         FilesInv, FilesTypeOK, Files
<1>1. DOMAIN Roadmap' = Files /\ \A f \in Files : Roadmap'[f] = Held(f)'
  <2>1. writers'[p] = NONE
    BY <1>0 DEF Drops, FilesInv, FilesTypeOK
  <2> QED BY <2>1, RoadmapCounts DEF Counting
<1>2. \A f \in Files : Roadmap[f] = IF w.at = "read" THEN Held(f) ELSE w.read.doc[f]
  BY <1>0, RoadmapCounts DEF Counting
<1>3. ASSUME NEW reached, NEW lost,
             \A f \in Files :
               IF f \in lost THEN Held(f)' = {}
               ELSE IF f \notin reached THEN Held(f)' = Roadmap[f]
               ELSE IF m \in Replaces
                 THEN Held(f)' \in {{m} \cup copy : copy \in SUBSET Mutations}
               ELSE Held(f)' = Roadmap[f] \cup {m}
      PROVE  Store!Leaves(m, reached, lost)
  BY <1>0, <1>1, <1>3 DEF Store!Leaves, Store!Names
<1>4. ASSUME w.at # "read", NEW f \in Files
      PROVE  IF f \notin Touches[m] \cap Reached(w) THEN Held(f) = Roadmap[f]
             ELSE IF m \in Replaces
               THEN Held(f) \in {{m} \cup copy : copy \in SUBSET Mutations}
             ELSE Held(f) = Roadmap[f] \cup {m}
  <2>1. Roadmap[f] = w.read.doc[f]
    BY <1>2, <1>4
  <2> QED BY <1>0, <1>4, <2>1, ReachedSays
<1>5. CASE WriteIndex(p)
  <2>1. /\ w.at = "sidecars" /\ w.left = {} /\ acked' = acked \cup {m}
        /\ faults' = faults
    BY <1>5 DEF WriteIndex, At
  <2>2. Touches[m] \cap Reached(w) = Touches[m]
    BY <1>0, <2>1 DEF Reached
  <2>3. \A f \in Files : Held(f)' = Held(f)
    BY <1>5, HeldStays
  <2>4. Store!Leaves(m, Touches[m], {})
    BY <1>3, <1>4, <2>1, <2>2, <2>3
  <2>5. Store!Mutate(m)
    BY <2>1, <2>4 DEF Store!Mutate
  <2> QED BY <1>0, <2>5 DEF Store!StoreNext
<1>6. CASE PutFails(p)
  <2>1. w.at = "put" /\ acked' = acked /\ faults' = faults \cup {"refused"}
    BY <1>6 DEF PutFails, At, Fails
  <2>2. \A f \in Files : Held(f)' = Held(f)
    BY <1>6, HeldStays
  <2> DEFINE reached == Touches[m] \cap Reached(w)
  <2>3. reached \in SUBSET (Touches[m] \cap Stories)
    BY <2>1 DEF Reached
  <2>4. Store!Leaves(m, reached, {})
    BY <1>3, <1>4, <2>1, <2>2
  <2>5. Store!Refuse(m)
    BY <2>1, <2>3, <2>4 DEF Store!Refuse
  <2> QED BY <1>0, <2>5 DEF Store!StoreNext
<1>7. CASE WriteFails(p) \/ Crash(p)
  <2>1. acked' = acked /\ \E how \in {"torn", "died"} : faults' = faults \cup {how}
    BY <1>7 DEF WriteFails, Crash, Fails
  <2> DEFINE reached == IF w.at = "read" THEN {} ELSE Touches[m] \cap Reached(w)
             sidecars == {f \in Sidecars : Held(f)' = {}}
             story == {f \in Restored : f = w.torn}
  <2>2. /\ reached \in SUBSET Touches[m] /\ sidecars \in SUBSET Sidecars
        /\ story \in {{}} \cup {{f} : f \in Restored}
    <3>1. story = {} \/ \E f \in Restored : story = {f}
      OBVIOUS
    <3> QED BY <3>1
  <2>3. ASSUME NEW f \in Files
        PROVE  IF f \in sidecars \cup story THEN Held(f)' = {} ELSE Held(f)' = Held(f)
    <3>1. /\ f \in Sidecars => Held(f)' = Held(f) \/ Held(f)' = {}
          /\ f \in Stories => Held(f)' = IF f = w.torn THEN {} ELSE Held(f)
          /\ f = w.torn => f \in Restored \cup Sidecars
      BY <1>7, HeldLost
    <3> QED BY <1>0, <3>1
  <2> HIDE DEF sidecars, story
  <2>4. \A f \in Files :
          IF f \in sidecars \cup story THEN Held(f)' = {}
          ELSE IF f \notin reached THEN Held(f)' = Roadmap[f]
          ELSE IF m \in Replaces
            THEN Held(f)' \in {{m} \cup copy : copy \in SUBSET Mutations}
          ELSE Held(f)' = Roadmap[f] \cup {m}
    <3>1. CASE w.at = "read"
      BY <1>2, <2>3, <3>1
    <3>2. CASE w.at # "read"
      BY <1>4, <2>3, <3>2
    <3> QED BY <3>1, <3>2
  <2> HIDE DEF reached
  <2>5. Store!Leaves(m, reached, sidecars \cup story)
    BY <1>3, <2>4
  <2>6. Store!CutOff(m)
    BY <2>1, <2>2, <2>5 DEF Store!CutOff
  <2> QED BY <1>0, <2>6 DEF Store!StoreNext
<1> QED BY <1>5, <1>6, <1>7 DEF Failure

\* One process: the directory is a document that mutations change at once,
\* upserts, rewritten layouts and all failures included; and what a mutation
\* leaves that is refused or cut off is what WorkItemsStore says.
THEOREM RoadmapIsAStore ==
  ASSUME NEW p, Processes = {p}
  PROVE  FilesSpec => ImplementsStore
<1> DEFINE I == FilesInv /\ Placed(p) /\ Said(p)
<1>1. FilesInit => I
  BY FilesInitInv, PlacedInit, SaidInit
<1>2. I /\ [FilesNext]_filesVars => I'
  BY FilesNextInv, PlacedNext, SaidNext
<1>3. FilesInit => Store!StoreInit
  <2> SUFFICES ASSUME FilesInit PROVE Store!StoreInit
    OBVIOUS
  <2>1. \A f \in Files : Parts(p, f) = {}
    BY NoneIsNothing DEF FilesInit, Parts, Seen, HiddenPart, OpenPart, Nothing
  <2>2. \A f \in Files : Counting(p, f) = {}
    BY <2>1, HeldIsParts DEF FilesInit, Counting
  <2>3. Roadmap = [f \in Files |-> {}]
    BY <2>2, RoadmapCounts
  <2> QED BY <2>3 DEF FilesInit, Store!StoreInit, Store!Names, Files
<1>4. I /\ [FilesNext]_filesVars => [Store!StoreNext]_(Store!dvars)
  <2> SUFFICES ASSUME I, [FilesNext]_filesVars
               PROVE  [Store!StoreNext]_(Store!dvars)
    OBVIOUS
  <2>1. CASE WriteIndex(p) \/ Failure(p)
    BY <2>1, StoreMoves
  <2>2. CASE Request \/ MutateRead(p) \/ Apply(p) \/ Writes(p) \/ UNCHANGED filesVars
    BY <2>2, StoreStutters DEF Store!dvars
  <2> QED BY <2>1, <2>2 DEF FilesNext, WriterStep, Writes
<1> QED BY <1>1, <1>2, <1>3, <1>4, PTL DEF FilesSpec, ImplementsStore, Store!StoreSpec
=============================================================================
