------------------------------ MODULE GraphStore ------------------------------
(***************************************************************************)
(* FileGraphRepository (packages/graph-store), shared by the web and the   *)
(* agent over one sqlite database, with those who call it: tabs of the     *)
(* studio, whose cache is changed before the server answers                *)
(* (reducer-data.ts), and the agent's tools.                               *)
(*                                                                         *)
(* A batch is planned with an await between the reading of the document    *)
(* and the transaction that writes it; undo and each transaction are       *)
(* synchronous.  A request is a call under way: which process serves it    *)
(* makes no difference, all state being in the database.                   *)
(***************************************************************************)
EXTENDS GraphDocument

CONSTANTS
  Tabs,          \* tabs of the studio
  Batches,       \* what the agent's tools apply
  Commands,      \* what a tab sends: single commands
  Sample,        \* sampleReducerGraph
  HistoryLimit,  \* 100
  AtOnce,        \* bound: calls under way at a time
  MaxRequests,   \* bound: calls in all
  Hasty          \* may a tab send while a call of its own is unanswered?

\* The call that carries no commands asks for an undo.
Undoing == <<>>

ASSUME GraphAssumption ==
  /\ HistoryLimit \in Nat \ {0}
  /\ AtOnce \in Nat /\ MaxRequests \in Nat
  /\ Hasty \in BOOLEAN
  /\ Commands \subseteq Batches
  /\ Undoing \notin Batches
  /\ "agent" \notin Tabs

\* sampleReducerGraph passes the checks of a plan; commands are of the union
\* ReducerGraphCommand.
ASSUME DocumentAssumption ==
  /\ IsFiniteSet(NodeIds)
  /\ Shaped(Sample) /\ Valid(Sample)
  /\ \A b \in Batches : Len(b) \in Nat /\ \A k \in 1..Len(b) : IsCommand(b[k])

VARIABLES
  graph,     \* the stored document
  history,   \* the documents undo leads back to, oldest first
  calls,     \* the calls under way
  made,      \* how many there have been
  cache,     \* the document each tab shows
  poll       \* the answer of a refetch that is on its way to a tab

vars == <<graph, history, calls, made, cache, poll>>

Slots == 1..AtOnce

\* slice(-100)
Kept(h) == IF Len(h) > HistoryLimit THEN Tail(h) ELSE h

\* assertRevision()
Fresh(call) == call.expected \in {NONE, graph.revision}

Moved(i, phase, answer) ==
  calls' = [calls EXCEPT ![i].phase = phase, ![i].plan = NONE,
                         ![i].snapshot = answer, ![i].past = <<>>]

Refused(i) == Moved(i, "refused", NONE) /\ UNCHANGED <<graph, history>>

\* A slot that no call occupies.
Idle == [from |-> NONE, batch |-> Undoing, base |-> NONE, expected |-> NONE,
         phase |-> "idle", plan |-> NONE, snapshot |-> NONE, past |-> <<>>]

\* A call as it leaves its caller: `base` is the document it expects to find.
Made(from, batch, base, expected) ==
  /\ made < MaxRequests /\ made' = made + 1
  /\ \E i \in Slots :
       /\ calls[i].phase = "idle" /\ \A j \in 1..(i - 1) : calls[j].phase # "idle"
       /\ calls' = [calls EXCEPT ![i] =
                      [from |-> from, batch |-> batch, base |-> base,
                       expected |-> expected, phase |-> "sent",
                       plan |-> NONE, snapshot |-> NONE, past |-> <<>>]]

CallsOf(t) == {i \in Slots : calls[i].phase # "idle" /\ calls[i].from = t}

Init ==
  /\ graph = [revision |-> 0, body |-> Sample]
  /\ history = <<>>
  /\ calls = [i \in Slots |-> Idle]
  /\ made = 0
  /\ cache = [t \in Tabs |-> graph]
  /\ poll = [t \in Tabs |-> NONE]

-----------------------------------------------------------------------------
\* The studio: useReducerGraphCommand applies the command to the cache, when
\* it can, and sends it with the revision the cache had before.
Shown(doc, batch) ==
  LET body == Outcome(doc.body, batch)
  IN IF body = NONE THEN doc ELSE [revision |-> doc.revision + 1, body |-> body]

Send(t) == \E batch \in Commands :
  /\ Hasty \/ CallsOf(t) = {}
  /\ Made(t, batch, cache[t], cache[t].revision)
  /\ cache' = [cache EXCEPT ![t] = Shown(@, batch)]
  /\ UNCHANGED <<graph, history, poll>>

\* useReducerGraphUndo: the button is disabled while an undo is unanswered.
SendUndo(t) ==
  /\ Hasty \/ CallsOf(t) = {}
  /\ \A i \in CallsOf(t) : calls[i].batch # Undoing
  /\ Made(t, Undoing, cache[t], cache[t].revision)
  /\ UNCHANGED <<graph, history, cache, poll>>

\* useReducerGraph refetches every second; the answer takes its time, and what
\* it brings may be older by then than what the tab shows.  (Bound: a tab is
\* not polled once the last call was made.)
Refetch(t) == /\ poll[t] = NONE /\ made < MaxRequests
              /\ poll' = [poll EXCEPT ![t] = graph]
              /\ UNCHANGED <<graph, history, calls, made, cache>>

Refetched(t) == /\ poll[t] # NONE
                /\ cache' = [cache EXCEPT ![t] = poll[t]]
                /\ poll' = [poll EXCEPT ![t] = NONE]
                /\ UNCHANGED <<graph, history, calls, made>>

\* The agent: sigil-graph-edit names the revision it has just read,
\* sigil-graph-apply-batch and sigil-graph-undo may name none.
AgentCalls == \E batch \in Batches \cup {Undoing},
                 expected \in {NONE, graph.revision} :
  /\ Made("agent", batch, IF expected = NONE THEN NONE ELSE graph, expected)
  /\ UNCHANGED <<graph, history, cache, poll>>

-----------------------------------------------------------------------------
\* The repository.  applyBatch(): a caller that expected another revision is
\* refused, and so is a plan with issues; else the plan is there, and whatever
\* happens while it was awaited.
Read(i) ==
  LET call == calls[i]
      plans == Plans(graph.body, call.batch)
  IN /\ call.phase = "sent" /\ call.batch # Undoing
     /\ \/ (~Fresh(call) \/ plans = {}) /\ Refused(i)
        \/ /\ Fresh(call)
           /\ \E body \in plans :
                calls' = [calls EXCEPT ![i].phase = "planned", ![i].plan = body,
                                       ![i].snapshot = graph, ![i].past = history]
           /\ UNCHANGED <<graph, history>>
     /\ UNCHANGED <<made, cache, poll>>

\* The plan is written, with the history that was read beside the document.
Written(i) ==
  /\ graph' = [revision |-> calls[i].snapshot.revision + 1, body |-> calls[i].plan]
  /\ history' = Kept(Append(calls[i].past, calls[i].snapshot))
  /\ Moved(i, "accepted", graph')

\* Mutant: the loop goes back to its plan, not to its reading.
CommitUnread(i) ==
  LET call == calls[i]
  IN /\ call.phase = "planned"
     /\ \/ ~Fresh(call) /\ Refused(i)
        \/ /\ Fresh(call) /\ graph.revision # call.snapshot.revision
           /\ UNCHANGED <<calls, graph, history>>
        \/ Fresh(call) /\ graph.revision = call.snapshot.revision /\ Written(i)
     /\ UNCHANGED <<made, cache, poll>>

\* Mutant: the transaction does not look at the revision of the snapshot.
CommitOver(i) ==
  LET call == calls[i]
  IN /\ call.phase = "planned"
     /\ \/ ~Fresh(call) /\ Refused(i)
        \/ Fresh(call) /\ Written(i)
     /\ UNCHANGED <<made, cache, poll>>

\* The transaction.  The caller expected another revision: refused.  Somebody
\* has written since the document was read: once more.  Else it is written.
Commit(i) ==
  LET call == calls[i]
  IN /\ call.phase = "planned"
     /\ \/ ~Fresh(call) /\ Refused(i)
        \/ /\ Fresh(call) /\ graph.revision # call.snapshot.revision
           /\ Moved(i, "sent", NONE) /\ UNCHANGED <<graph, history>>
        \/ Fresh(call) /\ graph.revision = call.snapshot.revision /\ Written(i)
     /\ UNCHANGED <<made, cache, poll>>

\* undo(): one transaction; with nothing to take back the document is the
\* answer as it is.
Undo(i) ==
  /\ calls[i].phase = "sent" /\ calls[i].batch = Undoing
  /\ \/ ~Fresh(calls[i]) /\ Refused(i)
     \/ /\ Fresh(calls[i]) /\ history = <<>>
        /\ Moved(i, "accepted", graph) /\ UNCHANGED <<graph, history>>
     \/ /\ Fresh(calls[i]) /\ history # <<>>
        /\ graph' = [revision |-> graph.revision + 1, body |-> Last(history).body]
        /\ history' = Front(history)
        /\ Moved(i, "accepted", graph')
  /\ UNCHANGED <<made, cache, poll>>

-----------------------------------------------------------------------------
Ended(i) == calls' = [calls EXCEPT ![i] = Idle]

\* Mutant: a refused command stays in the cache.
RefusedKept(i) ==
  /\ calls[i].phase = "refused"
  /\ Ended(i)
  /\ UNCHANGED <<graph, history, made, cache, poll>>

\* onSuccess: the tab shows the document of the answer.
Succeeds(i) ==
  /\ calls[i].phase = "accepted"
  /\ cache' = [t \in Tabs |-> IF t = calls[i].from THEN calls[i].snapshot
                              ELSE cache[t]]
  /\ Ended(i)
  /\ UNCHANGED <<graph, history, made, poll>>

\* A refusal, or an answer lost on its way: the tab goes back to the document
\* it had when it sent a command; a failed undo leaves the cache alone.
Fails(i) ==
  /\ calls[i].phase \in {"accepted", "refused"}
  /\ calls[i].from \in Tabs \/ calls[i].phase = "refused"
  /\ cache' = [t \in Tabs |-> IF t = calls[i].from /\ calls[i].batch # Undoing
                              THEN calls[i].base ELSE cache[t]]
  /\ Ended(i)
  /\ UNCHANGED <<graph, history, made, poll>>

Step(i) == Read(i) \/ Commit(i) \/ Undo(i) \/ Succeeds(i) \/ Fails(i)

Next ==
  \/ \E t \in Tabs : Send(t) \/ SendUndo(t) \/ Refetch(t) \/ Refetched(t)
  \/ AgentCalls
  \/ \E i \in Slots : Step(i)

\* The event loop goes on, and a plan that was begun comes to an end.
Spec == Init /\ [][Next]_vars /\ \A i \in Slots : WF_vars(Step(i))

-----------------------------------------------------------------------------
\* Every batch takes effect at one moment, on the document of that moment,
\* though it was planned on an earlier one beside others; undo takes back
\* the last change that stands, whoever made it.
Desk == INSTANCE GraphDesk
ImplementsDesk == Desk!Spec

\* Whatever is stored, by a batch or by undo, passes every check of the plan:
\* two batches that are each harmless are never a cycle, a dangling edge or a
\* second edge into one input together.
StoredGraphValid == Valid(graph.body)

\* A call that names a revision is accepted only on the very document its
\* caller had before it: two documents never go by one number.  This holds
\* where a tab awaits its call before it sends another (Hasty = FALSE), which
\* nothing in the code enforces; with Hasty = TRUE it fails, for the revision a
\* tab gives to an optimistic copy is given to another document by the server.
AcceptedOverSeen ==
  [][\A i \in Slots :
       calls[i].phase \notin {"idle", "accepted"}
         /\ calls'[i].phase = "accepted"
         /\ calls[i].expected # NONE => calls[i].base = graph]_vars

\* Every call is answered once the others leave off writing (MaxRequests bounds
\* them): the loop neither keeps a plan that others have overtaken nor waits
\* for anybody, so that again and again no call is under way.
EveryCallAnswered == []<>(\A i \in Slots : calls[i].phase = "idle")

\* Nodes are run after all that they depend on, each of them once, and the
\* sort refuses exactly the documents in which a node depends on itself: of
\* the stored document, and of what the calls would make of it.
Depends(body, n) ==
  LET reach[k \in 0..Cardinality(NodeIds)] ==
        IF k = 0 THEN Upstream(body.edges, n)
        ELSE reach[k - 1] \cup UNION {Upstream(body.edges, m) : m \in reach[k - 1]}
  IN reach[Cardinality(NodeIds)]

SortsUpstreamFirst ==
  \A body \in {graph.body} \cup
             {Outcome(graph.body, calls[i].batch) :
                i \in {j \in Slots : calls[j].phase = "sent"}} :
    body # NONE /\ NodesValid(body) /\ EdgesValid(body) =>
      LET sorted == TopologicalSort(DOMAIN body.nodes, body.edges)
          place(n) == CHOOSE k \in DOMAIN sorted.order : sorted.order[k] = n
      IN /\ sorted.cyclic <=> \E n \in DOMAIN body.nodes : n \in Depends(body, n)
         /\ ~sorted.cyclic =>
              /\ ToSet(sorted.order) = DOMAIN body.nodes
              /\ Len(sorted.order) = Cardinality(DOMAIN body.nodes)
              /\ \A n \in DOMAIN body.nodes : \A u \in Upstream(body.edges, n) :
                   place(u) < place(n)
=============================================================================
