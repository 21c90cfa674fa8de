--------------------------- MODULE GraphStoreProofs ---------------------------
(***************************************************************************)
(* Proofs about the graph store, for any number of tabs and calls and any  *)
(* commands.  What planGraphCommands() decides is left opaque at first, so  *)
(* that the theorems hold whatever a plan requires; the last parts are     *)
(* about what it requires, and about the order of execution.               *)
(***************************************************************************)
EXTENDS GraphStore, FiniteSetTheorems, SequenceTheorems, TLAPS

\* A document that is the stored one if it bears its revision: one that was
\* stored, or whose revision nobody has reached.
Genuine(doc) == /\ doc.revision \in Nat /\ doc.revision <= graph.revision
                /\ doc.revision = graph.revision => doc = graph

GraphOK == /\ graph = [revision |-> graph.revision, body |-> graph.body]
           /\ graph.revision \in Nat

Fields == {"from", "batch", "base", "expected", "phase", "plan", "snapshot", "past"}

IsCall(c) == c = [f \in Fields |-> c[f]]

CallsOK == /\ calls = [i \in Slots |-> calls[i]]
           /\ \A i \in Slots : /\ IsCall(calls[i])
                               /\ calls[i].batch \in Batches \cup {Undoing}

\* A plan was made on a document that was stored; if nobody has written since,
\* on the document and the history that are.
PlansOK ==
  \A i \in Slots : calls[i].phase = "planned" =>
    /\ Genuine(calls[i].snapshot)
    /\ calls[i].snapshot.revision = graph.revision => calls[i].past = history
    /\ calls[i].batch \in Batches
    /\ calls[i].plan \in Plans(calls[i].snapshot.body, calls[i].batch)

IInv == GraphOK /\ CallsOK /\ PlansOK

-----------------------------------------------------------------------------
LEMMA InitIInv == Init => IInv
BY GraphAssumption DEF Init, IInv, GraphOK, CallsOK, PlansOK, Idle, IsCall, Fields

\* A new call changes one free slot.
LEMMA MadeIInv ==
  ASSUME NEW from, NEW batch \in Batches \cup {Undoing}, NEW base, NEW expected,
         IInv, Made(from, batch, base, expected), UNCHANGED <<graph, history>>
  PROVE  IInv'
<1>1. PICK i \in Slots :
        calls' = [calls EXCEPT ![i] =
                   [from |-> from, batch |-> batch, base |-> base,
                    expected |-> expected, phase |-> "sent",
                    plan |-> NONE, snapshot |-> NONE, past |-> <<>>]]
  BY DEF Made
<1>2. CallsOK'
  BY <1>1 DEF IInv, CallsOK, IsCall, Fields
<1>3. PlansOK'
  BY <1>1 DEF IInv, CallsOK, PlansOK, Genuine
<1> QED BY <1>2, <1>3 DEF IInv, GraphOK

\* A call moves on, and its plan is forgotten.
LEMMA MovedIInv ==
  ASSUME NEW i \in Slots, NEW phase, NEW answer, phase # "planned",
         IInv, Moved(i, phase, answer), UNCHANGED <<graph, history>>
  PROVE  IInv'
<1>1. CallsOK'
  BY DEF IInv, CallsOK, IsCall, Fields, Moved
<1>2. PlansOK'
  BY DEF IInv, CallsOK, IsCall, Fields, Moved, PlansOK, Genuine
<1> QED BY <1>1, <1>2 DEF IInv, GraphOK

\* A write raises the revision, so that every older snapshot is told apart.
LEMMA WriteIInv ==
  ASSUME NEW i \in Slots, NEW body, NEW answer, IInv,
         graph' = [revision |-> graph.revision + 1, body |-> body],
         Moved(i, "accepted", answer)
  PROVE  IInv'
<1>1. GraphOK'
  BY DEF IInv, GraphOK
<1>2. CallsOK'
  BY DEF IInv, CallsOK, IsCall, Fields, Moved
<1>3. ASSUME NEW doc, Genuine(doc)
      PROVE  doc.revision \in Nat /\ doc.revision < graph'.revision
  BY <1>3 DEF IInv, GraphOK, Genuine
<1>4. ASSUME NEW j \in Slots, calls'[j].phase = "planned"
      PROVE  j # i /\ calls'[j] = calls[j]
  BY <1>4 DEF IInv, CallsOK, IsCall, Fields, Moved
<1>5. ASSUME NEW j \in Slots, calls'[j].phase = "planned"
      PROVE  (/\ Genuine(calls[j].snapshot)
              /\ calls[j].snapshot.revision # graph.revision
              /\ calls[j].batch \in Batches
              /\ calls[j].plan \in Plans(calls[j].snapshot.body, calls[j].batch))'
  <2>1. calls'[j] = calls[j]
    BY <1>4, <1>5
  <2>2. Genuine(calls[j].snapshot) /\ calls[j].batch \in Batches
        /\ calls[j].plan \in Plans(calls[j].snapshot.body, calls[j].batch)
    BY <1>5, <2>1 DEF IInv, PlansOK
  <2>3. calls[j].snapshot.revision \in Nat
        /\ calls[j].snapshot.revision < graph'.revision
    BY <1>3, <2>2
  <2> QED BY <1>1, <2>1, <2>2, <2>3 DEF Genuine, GraphOK
<1>6. PlansOK'
  BY <1>5 DEF PlansOK
<1> QED BY <1>1, <1>2, <1>6 DEF IInv

\* The write of Commit is one of the document as it stands.
LEMMA WrittenOnCurrent ==
  ASSUME NEW i \in Slots, IInv, calls[i].phase = "planned",
         graph.revision = calls[i].snapshot.revision, Written(i)
  PROVE  /\ graph' = [revision |-> graph.revision + 1, body |-> calls[i].plan]
         /\ history' = Kept(Append(history, graph))
         /\ calls[i].batch \in Batches
         /\ calls[i].plan \in Plans(graph.body, calls[i].batch)
<1>1. calls[i].snapshot = graph /\ calls[i].past = history
  BY DEF IInv, PlansOK, Genuine
<1> QED BY <1>1 DEF IInv, PlansOK, Written

LEMMA StepIInv ==
  ASSUME NEW i \in Slots, IInv, Step(i)
  PROVE  IInv'
<1>1. CASE Read(i)
  <2>1. CASE Refused(i)
    BY <2>1, MovedIInv DEF Refused
  <2>2. ASSUME NEW body \in Plans(graph.body, calls[i].batch),
               calls' = [calls EXCEPT ![i].phase = "planned", ![i].plan = body,
                                      ![i].snapshot = graph, ![i].past = history],
               UNCHANGED <<graph, history>>
        PROVE  IInv'
    <3>1. calls[i].batch \in Batches
      BY <1>1 DEF Read, IInv, CallsOK
    <3>2. CallsOK'
      <4>1. /\ calls' = [j \in Slots |-> calls'[j]]
            /\ \A j \in Slots : j # i => calls'[j] = calls[j]
            /\ calls'[i] = [calls[i] EXCEPT !.phase = "planned", !.plan = body,
                                             !.snapshot = graph, !.past = history]
        BY <2>2 DEF IInv, CallsOK
      <4>2. IsCall(calls'[i]) /\ calls'[i].batch = calls[i].batch
        BY <4>1 DEF IInv, CallsOK, IsCall, Fields
      <4> QED BY <4>1, <4>2 DEF IInv, CallsOK, IsCall
    <3>3. /\ \A j \in Slots : j # i => calls'[j] = calls[j]
          /\ calls'[i].snapshot = graph /\ calls'[i].past = history
          /\ calls'[i].plan = body /\ calls'[i].batch = calls[i].batch
      BY <2>2 DEF IInv, CallsOK, IsCall, Fields
    <3>4. PlansOK'
      <4>1. Genuine(graph)
        BY DEF IInv, GraphOK, Genuine
      <4>2. ASSUME NEW doc PROVE Genuine(doc)' <=> Genuine(doc)
        BY <2>2 DEF Genuine
      <4> QED BY <2>2, <3>1, <3>3, <4>1, <4>2 DEF IInv, PlansOK
    <3> QED BY <2>2, <3>2, <3>4 DEF IInv, GraphOK
  <2> QED BY <1>1, <2>1, <2>2 DEF Read
<1>2. CASE Commit(i)
  <2>1. CASE Refused(i)
    BY <2>1, MovedIInv DEF Refused
  <2>2. CASE Moved(i, "sent", NONE) /\ UNCHANGED <<graph, history>>
    BY <2>2, MovedIInv
  <2>3. CASE graph.revision = calls[i].snapshot.revision /\ Written(i)
    BY <1>2, <2>3, WrittenOnCurrent, WriteIInv DEF Commit, Written
  <2> QED BY <1>2, <2>1, <2>2, <2>3 DEF Commit
<1>3. CASE Undo(i)
  <2>1. CASE Refused(i)
    BY <2>1, MovedIInv DEF Refused
  <2>2. CASE Moved(i, "accepted", graph) /\ UNCHANGED <<graph, history>>
    BY <2>2, MovedIInv
  <2>3. CASE /\ graph' = [revision |-> graph.revision + 1, body |-> Last(history).body]
             /\ Moved(i, "accepted", graph')
    BY <2>3, WriteIInv
  <2> QED BY <1>3, <2>1, <2>2, <2>3 DEF Undo
<1>4. CASE Succeeds(i) \/ Fails(i)
  <2>1. Ended(i) /\ UNCHANGED <<graph, history>>
    BY <1>4 DEF Succeeds, Fails
  <2>2. CallsOK'
    BY <2>1 DEF IInv, CallsOK, IsCall, Fields, Ended, Idle
  <2>3. PlansOK'
    BY <2>1 DEF IInv, CallsOK, PlansOK, Genuine, Ended, Idle
  <2> QED BY <2>1, <2>2, <2>3 DEF IInv, GraphOK
<1> QED BY <1>1, <1>2, <1>3, <1>4 DEF Step

LEMMA NextIInv == IInv /\ [Next]_vars => IInv'
<1> SUFFICES ASSUME IInv, [Next]_vars PROVE IInv'
  OBVIOUS
<1>1. ASSUME NEW t \in Tabs, Send(t) PROVE IInv'
  BY <1>1, MadeIInv, GraphAssumption DEF Send
<1>2. ASSUME NEW t \in Tabs, SendUndo(t) PROVE IInv'
  BY <1>2, MadeIInv DEF SendUndo
<1>3. ASSUME NEW t \in Tabs, Refetch(t) \/ Refetched(t) PROVE IInv'
  BY <1>3 DEF Refetch, Refetched, IInv, GraphOK, CallsOK, PlansOK, Genuine
<1>4. CASE AgentCalls
  BY <1>4, MadeIInv DEF AgentCalls
<1>5. ASSUME NEW i \in Slots, Step(i) PROVE IInv'
  BY <1>5, StepIInv
<1>6. CASE UNCHANGED vars
  BY <1>6 DEF vars, IInv, GraphOK, CallsOK, PlansOK, Genuine
<1> QED BY <1>1, <1>2, <1>3, <1>4, <1>5, <1>6 DEF Next

\* What is proved of every state below.
LEMMA Invariant == Spec => []IInv
<1> QED BY InitIInv, NextIInv, PTL DEF Spec

-----------------------------------------------------------------------------
LEMMA StepOfDesk ==
  ASSUME IInv, [Next]_vars
  PROVE  [Desk!Apply \/ Desk!Undo]_<<graph, history>>
<1>1. CASE UNCHANGED <<graph, history>>
  BY <1>1
<1>2. ASSUME NEW i \in Slots, Commit(i)
      PROVE  [Desk!Apply]_<<graph, history>>
  <2>1. CASE UNCHANGED <<graph, history>>
    BY <2>1
  <2>2. CASE graph.revision = calls[i].snapshot.revision /\ Written(i)
    <3>1. calls[i].phase = "planned"
      BY <1>2 DEF Commit
    <3> QED BY <2>2, <3>1, WrittenOnCurrent
            DEF Desk!Apply, Desk!Becomes, Desk!Recent, Kept
  <2> QED BY <1>2, <2>1, <2>2 DEF Commit, Refused
<1>3. ASSUME NEW i \in Slots, Undo(i)
      PROVE  [Desk!Undo]_<<graph, history>>
  <2>1. CASE UNCHANGED <<graph, history>>
    BY <2>1
  <2>2. CASE /\ history # <<>> /\ history' = Front(history)
             /\ graph' = [revision |-> graph.revision + 1, body |-> Last(history).body]
    BY <2>2 DEF Desk!Undo, Desk!Becomes, Last, Front
  <2> QED BY <1>3, <2>1, <2>2 DEF Undo, Refused
<1>4. ASSUME NEW i \in Slots, Read(i) \/ Succeeds(i) \/ Fails(i)
      PROVE  UNCHANGED <<graph, history>>
  BY <1>4 DEF Read, Refused, Succeeds, Fails
<1>5. ASSUME NEW t \in Tabs, Send(t) \/ SendUndo(t) \/ Refetch(t) \/ Refetched(t)
      PROVE  UNCHANGED <<graph, history>>
  BY <1>5 DEF Send, SendUndo, Refetch, Refetched
<1>6. CASE AgentCalls
  BY <1>6, <1>1 DEF AgentCalls
<1>7. CASE UNCHANGED vars
  BY <1>7, <1>1 DEF vars
<1> QED BY <1>1, <1>2, <1>3, <1>4, <1>5, <1>6, <1>7 DEF Next, Step

\* The repository is the desk: every batch takes effect on the document as it
\* stands, under the next revision, and undo takes back the last change.
THEOREM StoreIsADesk == Spec => ImplementsDesk
<1>1. Init => Desk!Init
  BY DEF Init, Desk!Init
<1>2. IInv /\ [Next]_vars => [Desk!Apply \/ Desk!Undo]_<<graph, history>>
  BY StepOfDesk
<1> QED BY <1>1, <1>2, Invariant, PTL DEF Spec, ImplementsDesk, Desk!Spec

-----------------------------------------------------------------------------
(***************************************************************************)
(* What the callers have seen.  A tab that waits for the answer of each    *)
(* call shows a genuine document whenever it sends.                        *)
(***************************************************************************)
CacheOK == /\ cache = [t \in Tabs |-> cache[t]]
           /\ \A t \in Tabs : (\A i \in CallsOf(t) : calls[i].batch = Undoing)
                               => Genuine(cache[t])

PollOK == /\ poll = [t \in Tabs |-> poll[t]]
          /\ \A t \in Tabs : poll[t] # NONE => Genuine(poll[t])

BasesOK == \A i \in Slots : calls[i].phase # "idle" =>
  /\ calls[i].expected # NONE => calls[i].base.revision = calls[i].expected
  /\ calls[i].expected # NONE \/ calls[i].from \in Tabs => Genuine(calls[i].base)
  /\ calls[i].phase = "accepted" => Genuine(calls[i].snapshot)

SInv == CacheOK /\ PollOK /\ BasesOK

LEMMA InitSInv == Init => SInv
BY GraphAssumption DEF Init, SInv, CacheOK, PollOK, BasesOK, Genuine, Idle

\* No step takes the revision back, so what was genuine stays so.
LEMMA GenuineStays ==
  ASSUME NEW doc, IInv, [Next]_vars, Genuine(doc)
  PROVE  Genuine(doc)'
<1>1. graph' = graph \/ graph'.revision = graph.revision + 1
  <2>1. CASE UNCHANGED <<graph, history>>
    BY <2>1
  <2>2. CASE Desk!Apply \/ Desk!Undo
    BY <2>2 DEF Desk!Apply, Desk!Undo, Desk!Becomes
  <2> QED BY <2>1, <2>2, StepOfDesk
<1> QED BY <1>1 DEF Genuine, IInv, GraphOK

\* What a step that only moves a call on leaves as it was.
SameCall(i) == /\ calls[i].phase # "idle" /\ calls'[i].phase # "idle"
               /\ calls'[i].from = calls[i].from /\ calls'[i].batch = calls[i].batch
               /\ calls'[i].base = calls[i].base
               /\ calls'[i].expected = calls[i].expected
               /\ \A j \in Slots \ {i} : calls'[j] = calls[j]

LEMMA MovedSameCall ==
  ASSUME NEW i \in Slots, IInv, NEW phase, NEW answer, Moved(i, phase, answer),
         calls[i].phase # "idle", phase # "idle"
  PROVE  SameCall(i) /\ calls'[i].phase = phase /\ calls'[i].snapshot = answer
<1>1. /\ \A j \in Slots \ {i} : calls'[j] = calls[j]
      /\ calls'[i] = [calls[i] EXCEPT !.phase = phase, !.plan = NONE,
                                      !.snapshot = answer, !.past = <<>>]
  BY DEF Moved, IInv, CallsOK
<1> QED BY <1>1 DEF SameCall, IInv, CallsOK, IsCall, Fields

LEMMA SameCallSees ==
  ASSUME NEW i \in Slots, IInv, [Next]_vars, SInv, SameCall(i),
         UNCHANGED <<cache, poll>>,
         calls'[i].phase = "accepted" => Genuine(calls[i].snapshot)'
  PROVE  SInv'
<1>1. \A t \in Tabs : /\ CallsOf(t)' = CallsOf(t)
                       /\ \A j \in CallsOf(t) : calls'[j].batch = calls[j].batch
  BY DEF CallsOf, SameCall
<1>2. CacheOK'
  BY <1>1, GenuineStays DEF SInv, CacheOK
<1>3. PollOK'
  BY GenuineStays DEF SInv, PollOK
<1>4. BasesOK'
  BY GenuineStays DEF SInv, BasesOK, SameCall
<1> QED BY <1>2, <1>3, <1>4 DEF SInv

\* A new call fills one free slot.
LEMMA MadeSees ==
  ASSUME NEW from, NEW batch, NEW base, NEW expected, IInv, [Next]_vars, SInv,
         Made(from, batch, base, expected), UNCHANGED poll,
         expected # NONE => base.revision = expected,
         expected # NONE \/ from \in Tabs => Genuine(base)
  PROVE  /\ PollOK' /\ BasesOK'
         /\ \A t \in Tabs : \A j \in CallsOf(t) :
              j \in CallsOf(t)' /\ calls'[j].batch = calls[j].batch
         /\ \E i \in CallsOf(from)' : calls'[i].batch = batch
<1>1. PICK i \in Slots :
        /\ calls[i].phase = "idle"
        /\ calls' = [calls EXCEPT ![i] =
                   [from |-> from, batch |-> batch, base |-> base,
                    expected |-> expected, phase |-> "sent",
                    plan |-> NONE, snapshot |-> NONE, past |-> <<>>]]
  BY DEF Made
<1>2. /\ \A j \in Slots \ {i} : calls'[j] = calls[j]
      /\ calls'[i].phase = "sent" /\ calls'[i].from = from
      /\ calls'[i].base = base /\ calls'[i].expected = expected
      /\ calls'[i].batch = batch
  BY <1>1 DEF IInv, CallsOK
<1>3. PollOK'
  BY GenuineStays DEF SInv, PollOK
<1>4. BasesOK'
  BY <1>2, GenuineStays DEF SInv, BasesOK
<1> QED BY <1>1, <1>2, <1>3, <1>4 DEF CallsOf

\* A call of the repository, up to its answer.
LEMMA ServeSees ==
  ASSUME NEW i \in Slots, IInv, [Next]_vars, SInv, Read(i) \/ Commit(i) \/ Undo(i)
  PROVE  SInv'
<1>1. UNCHANGED <<cache, poll>>
  BY DEF Read, Commit, Undo
<1>2. IInv' /\ calls[i].phase # "idle"
  BY NextIInv DEF Read, Commit, Undo
<1>3. CASE Refused(i)
  <2>1. SameCall(i) /\ calls'[i].phase = "refused"
    BY <1>2, <1>3, MovedSameCall DEF Refused
  <2> QED BY <1>1, <2>1, SameCallSees
<1>4. CASE Moved(i, "sent", NONE)
  <2>1. SameCall(i) /\ calls'[i].phase = "sent"
    BY <1>2, <1>4, MovedSameCall
  <2> QED BY <1>1, <2>1, SameCallSees
<1>5. CASE Moved(i, "accepted", graph')
  <2>1. SameCall(i) /\ calls'[i].snapshot = graph'
    BY <1>2, <1>5, MovedSameCall
  <2>2. Genuine(calls[i].snapshot)'
    BY <1>2, <2>1 DEF IInv, GraphOK, Genuine
  <2> QED BY <1>1, <2>1, <2>2, SameCallSees
<1>6. ASSUME NEW body, calls[i].phase = "sent",
             calls' = [calls EXCEPT ![i].phase = "planned", ![i].plan = body,
                                    ![i].snapshot = graph, ![i].past = history]
      PROVE  SInv'
  <2>1. SameCall(i) /\ calls'[i].phase = "planned"
    BY <1>6 DEF SameCall, IInv, CallsOK, IsCall, Fields
  <2> QED BY <1>1, <2>1, SameCallSees
<1>7. CASE Read(i)
  BY <1>3, <1>6, <1>7 DEF Read
<1>8. CASE Commit(i)
  BY <1>3, <1>4, <1>5, <1>8 DEF Commit, Written
<1>9. CASE Undo(i)
  BY <1>3, <1>5, <1>9 DEF Undo
<1> QED BY <1>7, <1>8, <1>9

\* The answer: the tab shows a genuine document, unless another command of
\* its own is under way.
LEMMA AnswerSees ==
  ASSUME NEW i \in Slots, IInv, [Next]_vars, SInv, Succeeds(i) \/ Fails(i)
  PROVE  SInv'
<1>1. /\ calls'[i].phase = "idle" /\ \A j \in Slots \ {i} : calls'[j] = calls[j]
      /\ UNCHANGED poll /\ calls[i].phase # "idle"
  BY DEF Succeeds, Fails, Ended, Idle, IInv, CallsOK
<1>2. PollOK'
  BY <1>1, GenuineStays DEF SInv, PollOK
<1>3. BasesOK'
  BY <1>1, GenuineStays DEF SInv, BasesOK
<1>4. cache' = [t \in Tabs |-> cache'[t]]
  BY DEF Succeeds, Fails
<1>5. ASSUME NEW t \in Tabs, (\A j \in CallsOf(t) : calls[j].batch = Undoing)'
      PROVE  Genuine(cache[t])'
  <2>1. CASE cache'[t] = cache[t] /\ (calls[i].from # t \/ calls[i].batch = Undoing)
    <3>1. \A j \in CallsOf(t) : calls[j].batch = Undoing
      BY <1>1, <1>5, <2>1 DEF CallsOf
    <3> QED BY <2>1, <3>1, GenuineStays DEF SInv, CacheOK
  <2>2. CASE Succeeds(i) /\ calls[i].from = t
    <3>1. cache'[t] = calls[i].snapshot /\ Genuine(calls[i].snapshot)
      BY <2>2 DEF Succeeds, SInv, BasesOK
    <3> QED BY <3>1, GenuineStays
  <2>3. CASE Fails(i) /\ calls[i].from = t /\ calls[i].batch # Undoing
    <3>1. cache'[t] = calls[i].base /\ Genuine(calls[i].base)
      BY <1>1, <2>3 DEF Fails, SInv, BasesOK
    <3> QED BY <3>1, GenuineStays
  <2> QED BY <2>1, <2>2, <2>3 DEF Succeeds, Fails
<1> QED BY <1>2, <1>3, <1>4, <1>5 DEF SInv, CacheOK

LEMMA NextSInv ==
  ASSUME ~Hasty, IInv, SInv, [Next]_vars
  PROVE  SInv'
<1>1. ASSUME NEW t \in Tabs, Send(t) PROVE SInv'
  <2>1. PICK batch \in Commands :
          /\ Made(t, batch, cache[t], cache[t].revision)
          /\ cache' = [cache EXCEPT ![t] = Shown(@, batch)]
    BY <1>1 DEF Send
  <2>2. Genuine(cache[t]) /\ UNCHANGED poll
    BY <1>1 DEF Send, SInv, CacheOK
  <2>3. /\ PollOK' /\ BasesOK'
        /\ \A u \in Tabs : \A j \in CallsOf(u) :
             j \in CallsOf(u)' /\ calls'[j].batch = calls[j].batch
        /\ \E i \in CallsOf(t)' : calls'[i].batch = batch
    BY <2>1, <2>2, MadeSees
  <2>4. batch # Undoing
    BY GraphAssumption
  <2>5. CacheOK'
    BY <2>1, <2>3, <2>4, GenuineStays DEF SInv, CacheOK
  <2> QED BY <2>3, <2>5 DEF SInv
<1>2. ASSUME NEW t \in Tabs, SendUndo(t) PROVE SInv'
  <2>1. Genuine(cache[t]) /\ UNCHANGED <<cache, poll>>
        /\ Made(t, Undoing, cache[t], cache[t].revision)
    BY <1>2 DEF SendUndo, SInv, CacheOK
  <2>2. /\ PollOK' /\ BasesOK'
        /\ \A u \in Tabs : \A j \in CallsOf(u) :
             j \in CallsOf(u)' /\ calls'[j].batch = calls[j].batch
    BY <2>1, MadeSees
  <2>3. CacheOK'
    BY <2>1, <2>2, GenuineStays DEF SInv, CacheOK
  <2> QED BY <2>2, <2>3 DEF SInv
<1>3. CASE AgentCalls
  <2>1. PICK batch \in Batches \cup {Undoing}, expected \in {NONE, graph.revision} :
          Made("agent", batch, IF expected = NONE THEN NONE ELSE graph, expected)
    BY <1>3 DEF AgentCalls
  <2>2. UNCHANGED <<cache, poll>>
    BY <1>3 DEF AgentCalls
  <2>3. "agent" \notin Tabs
    BY GraphAssumption
  <2>4. Genuine(graph)
    BY DEF IInv, GraphOK, Genuine
  <2>5. /\ PollOK' /\ BasesOK'
        /\ \A u \in Tabs : \A j \in CallsOf(u) :
             j \in CallsOf(u)' /\ calls'[j].batch = calls[j].batch
    BY <2>1, <2>2, <2>3, <2>4, MadeSees
  <2>6. CacheOK'
    BY <2>2, <2>5, GenuineStays DEF SInv, CacheOK
  <2> QED BY <2>5, <2>6 DEF SInv
<1>4. ASSUME NEW t \in Tabs, Refetch(t) \/ Refetched(t) PROVE SInv'
  <2>1. UNCHANGED calls
    BY <1>4 DEF Refetch, Refetched
  <2>2. BasesOK'
    BY <2>1, GenuineStays DEF SInv, BasesOK
  <2>3. Genuine(graph)
    BY DEF IInv, GraphOK, Genuine
  <2>4. PollOK'
    BY <1>4, <2>3, GenuineStays DEF Refetch, Refetched, SInv, PollOK
  <2>5. CacheOK'
    BY <1>4, <2>1, GenuineStays
       DEF Refetch, Refetched, SInv, CacheOK, PollOK, CallsOf
  <2> QED BY <2>2, <2>4, <2>5 DEF SInv
<1>5. ASSUME NEW i \in Slots, Step(i) PROVE SInv'
  BY <1>5, ServeSees, AnswerSees DEF Step
<1>6. CASE UNCHANGED vars
  BY <1>6 DEF vars, SInv, CacheOK, PollOK, BasesOK, CallsOf, Genuine
<1> QED BY <1>1, <1>2, <1>3, <1>4, <1>5, <1>6 DEF Next

\* A call is accepted by a step of its own only, which finds its revision.
LEMMA AcceptsOverSeen ==
  ASSUME IInv, SInv, [Next]_vars, NEW i \in Slots,
         calls[i].phase \notin {"idle", "accepted"}, calls'[i].phase = "accepted",
         calls[i].expected # NONE
  PROVE  calls[i].base = graph
<1>1. CASE Commit(i) \/ Undo(i)
  <2>1. Fresh(calls[i])
    BY <1>1 DEF Commit, Undo, Refused, Moved, IInv, CallsOK, IsCall, Fields
  <2> QED BY <2>1 DEF Fresh, SInv, BasesOK, Genuine
<1>2. ASSUME NEW from, NEW batch, NEW base, NEW expected,
             Made(from, batch, base, expected)
      PROVE  FALSE
  BY <1>2 DEF Made, IInv, CallsOK
<1>3. ASSUME NEW j \in Slots, Step(j), ~(j = i /\ (Commit(i) \/ Undo(i)))
      PROVE  FALSE
  <2>1. CASE j # i
    BY <1>3, <2>1 DEF Step, Read, Commit, Undo, Succeeds, Fails, Ended, Written,
                      Refused, Moved, IInv, CallsOK
  <2>2. CASE Read(i)
    <3>1. calls'[i].phase \in {"planned", "refused"}
      <4>1. CASE Moved(i, "refused", NONE)
        BY <2>2, <4>1, MovedSameCall DEF Read
      <4>2. ASSUME NEW body, calls' = [calls EXCEPT ![i].phase = "planned",
                     ![i].plan = body, ![i].snapshot = graph, ![i].past = history]
            PROVE  calls'[i].phase = "planned"
        BY <4>2 DEF IInv, CallsOK, IsCall, Fields
      <4> QED BY <2>2, <4>1, <4>2 DEF Read, Refused
    <3> QED BY <3>1
  <2>3. CASE Succeeds(i) \/ Fails(i)
    BY <2>3 DEF Succeeds, Fails, Ended, Idle, IInv, CallsOK
  <2> QED BY <1>3, <2>1, <2>2, <2>3 DEF Step
<1>4. ASSUME NEW t \in Tabs, Refetch(t) \/ Refetched(t) PROVE FALSE
  BY <1>4 DEF Refetch, Refetched
<1>5. CASE UNCHANGED vars
  BY <1>5 DEF vars
<1> QED BY <1>1, <1>2, <1>3, <1>4, <1>5 DEF Next, Send, SendUndo, AgentCalls

\* If a tab waits for the answer of each call, no call that names a revision
\* is accepted over a document that its caller has not seen.
THEOREM AcceptedOverWhatWasSeen ==
  ASSUME ~Hasty
  PROVE  Spec => AcceptedOverSeen
<1>1. IInv /\ SInv /\ [Next]_vars => SInv'
  BY NextSInv
<1>2. IInv /\ SInv /\ [Next]_vars =>
        [\A i \in Slots :
           calls[i].phase \notin {"idle", "accepted"}
             /\ calls'[i].phase = "accepted"
             /\ calls[i].expected # NONE => calls[i].base = graph]_vars
  BY AcceptsOverSeen
<1> QED BY <1>1, <1>2, InitSInv, Invariant, PTL DEF Spec, AcceptedOverSeen
-----------------------------------------------------------------------------
(***************************************************************************)
(* The documents that are stored.  A batch is only checked when one of its *)
(* commands computes: what the others do leaves a valid document valid,    *)
(* and every document that is reached has the shape its type promises.     *)
(***************************************************************************)
\* Induction over the natural numbers, stated of sets.
LEMMA NaturalsBelow ==
  ASSUME NEW S, 0 \in S, \A n \in Nat : n \in S => n + 1 \in S
  PROVE  Nat \subseteq S
<1> SUFFICES ASSUME NEW n \in Nat, n \notin S
             PROVE  FALSE
  OBVIOUS
<1> DEFINE T == {k \in 0..n : k \notin S}
           down == [k \in T |-> k - 1]
<1>1. IsFiniteSet(T) /\ n \in T
  <2>1. IsFiniteSet(0..n)
    BY FS_Interval
  <2> QED BY <2>1, FS_Subset
<1>2. down \in [T -> T \ {n}]
  <2>1. ASSUME NEW k \in T PROVE k - 1 \in T \ {n}
    OBVIOUS
  <2> QED BY <2>1
<1> HIDE DEF T
<1>3. /\ IsFiniteSet(T \ {n}) /\ Cardinality(T) \in Nat
      /\ Cardinality(T \ {n}) = Cardinality(T) - 1
  BY <1>1, FS_RemoveElement, FS_CardinalityType
<1>4. PICK i, j \in T : i # j /\ down[i] = down[j]
  <2> DEFINE U == T \ {n}
  <2>1. /\ IsFiniteSet(T) /\ IsFiniteSet(U) /\ Cardinality(U) < Cardinality(T)
        /\ down \in [T -> U]
    BY <1>1, <1>2, <1>3
  <2> HIDE DEF U, down
  <2> QED BY <2>1, FS_PigeonHole
<1>5. i \in Nat /\ j \in Nat
  BY DEF T
<1>6. down[i] = i - 1 /\ down[j] = j - 1
  OBVIOUS
<1> QED BY <1>4, <1>5, <1>6

\* A step that stays within a set can be repeated any number of times.
StaysIn(S, step, N) == \A n \in 1..N : \A s \in S : step[n][s] \in S

Repeats(r, start, step, N) ==
  r[0] = start /\ \A n \in 1..N : r[n] = step[n][r[n - 1]]

LEMMA RepeatedStep ==
  ASSUME NEW N \in Nat, NEW S, NEW start \in S, NEW step, StaysIn(S, step, N)
  PROVE  \E r \in [0..N -> S] : Repeats(r, start, step, N)
<1> DEFINE Run(m, r) == /\ r[0] = start
                        /\ \A n \in 1..m : r[n] = step[n][r[n - 1]]
           I == {m \in Nat : m <= N => \E r \in [0..m -> S] : Run(m, r)}
<1>1. 0 \in I
  <2> DEFINE r == [k \in 0..0 |-> start]
  <2>1. r \in [0..0 -> S] /\ Run(0, r)
    OBVIOUS
  <2> QED BY <2>1
<1>2. ASSUME NEW m \in Nat, m \in I
      PROVE  m + 1 \in I
  <2> SUFFICES ASSUME m + 1 <= N
               PROVE  \E q \in [0..(m + 1) -> S] : Run(m + 1, q)
    OBVIOUS
  <2>1. PICK r \in [0..m -> S] : Run(m, r)
    BY <1>2
  <2> DEFINE q == [k \in 0..(m + 1) |-> IF k <= m THEN r[k] ELSE step[m + 1][r[m]]]
  <2>2. step[m + 1][r[m]] \in S
    <3>1. m + 1 \in 1..N /\ r[m] \in S
      OBVIOUS
    <3> QED BY <3>1 DEF StaysIn
  <2>3. q \in [0..(m + 1) -> S]
    <3>1. ASSUME NEW k \in 0..(m + 1) PROVE q[k] \in S
      BY <2>2
    <3> QED BY <3>1
  <2>4. q[0] = start
    BY <2>1
  <2>5. ASSUME NEW n \in 1..(m + 1) PROVE q[n] = step[n][q[n - 1]]
    <3>1. q[n - 1] = r[n - 1]
      OBVIOUS
    <3>2. CASE n <= m
      <4>1. q[n] = r[n] /\ n \in 1..m
        BY <3>2
      <4> QED BY <2>1, <3>1, <4>1
    <3>3. CASE n = m + 1
      <4>1. q[n] = step[m + 1][r[m]] /\ n - 1 = m
        BY <3>3
      <4> QED BY <3>1, <3>3, <4>1
    <3> QED BY <3>2, <3>3
  <2> HIDE DEF q
  <2> QED BY <2>3, <2>4, <2>5
<1> HIDE DEF I
<1>3. N \in I
  BY <1>1, <1>2, NaturalsBelow
<1> QED BY <1>3 DEF I, Repeats


Good(body) == Shaped(body) /\ Valid(body)

Harmless(c) == c.type \in {"node.move", "viewport.update"}

\* Nothing is computed from looks: a document that has the same nodes, but for
\* their looks, and the same edges is as valid.
LEMMA LooksAreHarmless ==
  ASSUME NEW body, NEW next, Valid(body),
         DOMAIN next.nodes = DOMAIN body.nodes, next.edges = body.edges,
         \A n \in DOMAIN body.nodes :
           /\ next.nodes[n].reducer = body.nodes[n].reducer
           /\ next.nodes[n].values = body.nodes[n].values
  PROVE  Valid(next)
<1>1. \A n \in DOMAIN body.nodes : /\ Inputs(next, n) = Inputs(body, n)
                                  /\ Outputs(next, n) = Outputs(body, n)
  BY DEF Inputs, Outputs
<1>2. NodesValid(next)
  BY <1>1 DEF Valid, NodesValid
<1>3. EdgesValid(next)
  BY <1>1 DEF Valid, EdgesValid
<1>4. Connects(next) /\ ~TopologicalSort(DOMAIN next.nodes, next.edges).cyclic
  BY DEF Valid, Connects
<1>5. Executes(next)
  BY <1>1 DEF Valid, Executes
<1> QED BY <1>2, <1>3, <1>4, <1>5 DEF Valid

LEMMA HarmlessCommand ==
  ASSUME NEW body, NEW c, Good(body), Harmless(c), ~Refuses(body, c)
  PROVE  Good(Reduced(body, c))
<1>1. CASE c.type = "node.move"
  <2>1. c.id \in DOMAIN body.nodes
    BY <1>1 DEF Refuses
  <2> DEFINE next == [body EXCEPT !.nodes[c.id].look = c.look]
  <2>2. next.edges = body.edges /\ DOMAIN next = DOMAIN body
        /\ next.nodes = [body.nodes EXCEPT ![c.id] = [body.nodes[c.id] EXCEPT !.look = c.look]]
    BY DEF Good, Shaped
  <2>3. ASSUME NEW n \in DOMAIN body.nodes
        PROVE  /\ DOMAIN next.nodes[n] = DOMAIN body.nodes[n]
               /\ next.nodes[n].reducer = body.nodes[n].reducer
               /\ next.nodes[n].values = body.nodes[n].values
    BY <2>1, <2>2 DEF Good, Shaped
  <2>4. DOMAIN next.nodes = DOMAIN body.nodes
    BY <2>2
  <2>5. Reduced(body, c) = next
    BY <1>1 DEF Reduced
  <2> HIDE DEF next
  <2>6. Valid(next)
    BY <2>2, <2>3, <2>4, LooksAreHarmless DEF Good
  <2> QED BY <2>2, <2>3, <2>4, <2>5, <2>6 DEF Good, Shaped
<1>2. CASE c.type = "viewport.update"
  <2> DEFINE next == [body EXCEPT !.look = c.look]
  <2>1. next.edges = body.edges /\ next.nodes = body.nodes /\ DOMAIN next = DOMAIN body
    BY DEF Good, Shaped
  <2>2. Reduced(body, c) = next
    BY <1>2 DEF Reduced
  <2> HIDE DEF next
  <2>3. Valid(next)
    BY <2>1, LooksAreHarmless DEF Good
  <2> QED BY <2>1, <2>2, <2>3 DEF Good, Shaped
<1> QED BY <1>1, <1>2 DEF Harmless

LEMMA CommandShapes ==
  ASSUME NEW body, NEW c, Shaped(body), IsCommand(c), ~Refuses(body, c)
  PROVE  Shaped(Reduced(body, c))
<1> USE DEF Shaped
<1>1. CASE c.type = "node.add"
  <2> DEFINE nodes == With(body.nodes, c.id, c.node)
  <2>1. Reduced(body, c) = [body EXCEPT !.nodes = nodes]
    BY <1>1 DEF Reduced
  <2>2. \A n \in DOMAIN nodes : nodes[n] = IF n = c.id THEN c.node ELSE body.nodes[n]
    BY DEF With
  <2>3. \A n \in DOMAIN nodes : n = c.id \/ n \in DOMAIN body.nodes
    BY DEF With
  <2> HIDE DEF nodes
  <2> QED BY <1>1, <2>1, <2>2, <2>3 DEF IsCommand
<1>2. CASE c.type = "node.update"
  <2>1. c.id \in DOMAIN body.nodes
    BY <1>2 DEF Refuses
  <2> DEFINE values == c.values @@ body.nodes[c.id].values
             nodes == [body.nodes EXCEPT ![c.id] = [body.nodes[c.id] EXCEPT !.values = values]]
  <2>2. Reduced(body, c) = [body EXCEPT !.nodes = nodes]
    BY <1>2 DEF Reduced
  <2> HIDE DEF values
  <2> QED BY <2>1, <2>2
<1>3. CASE c.type = "node.move"
  <2>1. c.id \in DOMAIN body.nodes
    BY <1>3 DEF Refuses
  <2> DEFINE nodes == [body.nodes EXCEPT ![c.id] = [body.nodes[c.id] EXCEPT !.look = c.look]]
  <2>2. Reduced(body, c) = [body EXCEPT !.nodes = nodes]
    BY <1>3 DEF Reduced
  <2> QED BY <2>1, <2>2
<1>4. CASE c.type = "node.remove"
  <2> DEFINE nodes == Without(body.nodes, {c.id})
             edges == Without(body.edges, Touching(body, c.id))
  <2>1. Reduced(body, c) = [body EXCEPT !.nodes = nodes, !.edges = edges]
    BY <1>4 DEF Reduced
  <2>2. \A n \in DOMAIN nodes : n \in DOMAIN body.nodes /\ nodes[n] = body.nodes[n]
    BY DEF Without
  <2> HIDE DEF nodes, edges
  <2> QED BY <2>1, <2>2
<1>5. CASE c.type \in {"edge.add", "edge.remove"}
  <2>1. PICK edges : Reduced(body, c) = [body EXCEPT !.edges = edges]
    BY <1>5 DEF Reduced
  <2> QED BY <2>1
<1>6. CASE c.type = "viewport.update"
  BY <1>6 DEF Reduced
<1> QED BY <1>1, <1>2, <1>3, <1>4, <1>5, <1>6 DEF IsCommand

-----------------------------------------------------------------------------
\* What Outcome computes: the body after each command of the batch.
After(body, batch, r, k) ==
  IF k = 0 THEN body
  ELSE LET b == r[k - 1]
       IN IF b = NONE \/ Refuses(b, batch[k]) THEN NONE ELSE Reduced(b, batch[k])

IsRun(body, batch, n, r) == r = [k \in 0..n |-> After(body, batch, r, k)]

LEMMA RunExists ==
  ASSUME NEW body, NEW batch, NEW n \in Nat
  PROVE  \E r : IsRun(body, batch, n, r)
<1> DEFINE S == {m \in Nat : \E r : IsRun(body, batch, m, r)}
<1>1. 0 \in S
  <2> DEFINE r == [k \in 0..0 |-> body]
  <2>1. IsRun(body, batch, 0, r)
    BY DEF IsRun, After
  <2> QED BY <2>1
<1>2. ASSUME NEW m \in Nat, m \in S
      PROVE  m + 1 \in S
  <2>1. PICK r : IsRun(body, batch, m, r)
    BY <1>2
  <2> DEFINE q == [k \in 0..(m + 1) |-> IF k <= m THEN r[k] ELSE After(body, batch, r, k)]
  <2>2. ASSUME NEW k \in 0..(m + 1)
        PROVE  After(body, batch, q, k) = After(body, batch, r, k)
    <3>1. k # 0 => k - 1 \in 0..m /\ q[k - 1] = r[k - 1]
      OBVIOUS
    <3> HIDE DEF q
    <3> QED BY <3>1 DEF After
  <2>3. ASSUME NEW k \in 0..m
        PROVE  r[k] = After(body, batch, r, k)
    <3> DEFINE F(j) == After(body, batch, r, j)
    <3>1. r = [j \in 0..m |-> F(j)]
      BY <2>1 DEF IsRun
    <3> HIDE DEF F
    <3>2. r[k] = F(k)
      BY <3>1
    <3> QED BY <3>2 DEF F
  <2>4. ASSUME NEW k \in 0..(m + 1)
        PROVE  q[k] = After(body, batch, q, k)
    <3> DEFINE a == After(body, batch, r, k)
    <3>1. q[k] = IF k <= m THEN r[k] ELSE a
      OBVIOUS
    <3>2. k <= m => k \in 0..m
      OBVIOUS
    <3> HIDE DEF q
    <3> QED BY <2>2, <2>3, <3>1, <3>2
  <2>5. IsRun(body, batch, m + 1, q)
    <3> DEFINE F(j) == After(body, batch, q, j)
    <3>1. \A k \in 0..(m + 1) : q[k] = F(k)
      BY <2>4
    <3>2. q = [k \in 0..(m + 1) |-> q[k]]
      OBVIOUS
    <3> HIDE DEF q, F
    <3>3. q = [k \in 0..(m + 1) |-> F(k)]
      BY <3>1, <3>2
    <3> QED BY <3>3 DEF IsRun, F
  <2> QED BY <2>5
<1> HIDE DEF S
<1>3. Nat \subseteq S
  BY <1>1, <1>2, NaturalsBelow
<1> QED BY <1>3 DEF S

LEMMA OutcomeIsLast ==
  ASSUME NEW body, NEW batch, Len(batch) \in Nat
  PROVE  \E r : IsRun(body, batch, Len(batch), r) /\ Outcome(body, batch) = r[Len(batch)]
<1> DEFINE R == CHOOSE r : IsRun(body, batch, Len(batch), r)
<1>1. IsRun(body, batch, Len(batch), R)
  BY RunExists
<1>2. Outcome(body, batch) = R[Len(batch)]
  BY DEF Outcome, IsRun, After
<1> QED BY <1>1, <1>2

LEMMA BatchKeeps ==
  ASSUME NEW body, NEW batch, Shaped(body), Len(batch) \in Nat,
         \A k \in 1..Len(batch) : IsCommand(batch[k])
  PROVE  \/ Outcome(body, batch) = NONE
         \/ /\ Shaped(Outcome(body, batch))
            /\ Valid(body) /\ (\A k \in 1..Len(batch) : Harmless(batch[k]))
                 => Valid(Outcome(body, batch))
<1> DEFINE n == Len(batch)
           plain == Valid(body) /\ \A k \in 1..n : Harmless(batch[k])
           Kind(b) == b = NONE \/ (Shaped(b) /\ (plain => Valid(b)))
<1>1. PICK r : IsRun(body, batch, n, r) /\ Outcome(body, batch) = r[n]
  BY OutcomeIsLast
<1>2. ASSUME NEW k \in 0..n
      PROVE  r[k] = After(body, batch, r, k)
  <2> DEFINE F(j) == After(body, batch, r, j)
  <2>1. r = [j \in 0..n |-> F(j)]
    BY <1>1 DEF IsRun
  <2> HIDE DEF F
  <2>2. r[k] = F(k)
    BY <2>1
  <2> QED BY <2>2 DEF F
<1> DEFINE S == {k \in Nat : k \in 0..n => Kind(r[k])}
<1>3. 0 \in S
  <2>1. r[0] = body
    BY <1>2 DEF After
  <2> QED BY <2>1
<1>4. ASSUME NEW k \in Nat, k \in S
      PROVE  k + 1 \in S
  <2> SUFFICES ASSUME k + 1 \in 0..n PROVE Kind(r[k + 1])
    OBVIOUS
  <2>1. k \in 0..n /\ k + 1 \in 1..n
    OBVIOUS
  <2>2. Kind(r[k])
    BY <1>4, <2>1
  <2> DEFINE b == r[k]  c == batch[k + 1]
  <2>3. r[k + 1] = IF b = NONE \/ Refuses(b, c) THEN NONE ELSE Reduced(b, c)
    BY <1>2, <2>1 DEF After
  <2>4. IsCommand(c) /\ (plain => Harmless(c))
    BY <2>1
  <2>5. CASE b = NONE \/ Refuses(b, c)
    BY <2>3, <2>5
  <2>6. CASE ~(b = NONE \/ Refuses(b, c))
    <3>1. Shaped(b) /\ (plain => Valid(b))
      BY <2>2, <2>6
    <3> HIDE DEF b, c, plain
    <3>2. Shaped(Reduced(b, c))
      BY <2>4, <2>6, <3>1, CommandShapes
    <3>3. plain => Valid(Reduced(b, c))
      BY <2>4, <2>6, <3>1, HarmlessCommand DEF Good
    <3> QED BY <2>3, <2>6, <3>2, <3>3
  <2> QED BY <2>5, <2>6
<1>5. n \in S
  <2> HIDE DEF S
  <2>1. Nat \subseteq S
    BY <1>3, <1>4, NaturalsBelow
  <2> QED BY <2>1
<1>6. Kind(r[n])
  BY <1>5
<1> QED BY <1>1, <1>6

\* What a plan makes of a good document is one.
LEMMA PlanKeeps ==
  ASSUME NEW body, NEW batch \in Batches, NEW next \in Plans(body, batch), Good(body)
  PROVE  Good(next)
<1>1. next = Outcome(body, batch) /\ next # NONE
      /\ (AffectsComputation(batch) => Valid(next))
  BY DEF Plans
<1>2. Len(batch) \in Nat /\ \A k \in 1..Len(batch) : IsCommand(batch[k])
  BY DocumentAssumption
<1>3. Shaped(next) /\ (Valid(body) /\ (\A k \in 1..Len(batch) : Harmless(batch[k]))
                         => Valid(next))
  BY <1>1, <1>2, BatchKeeps DEF Good
<1>4. ~AffectsComputation(batch) => \A k \in 1..Len(batch) : Harmless(batch[k])
  BY DocumentAssumption DEF AffectsComputation, Harmless
<1> QED BY <1>1, <1>3, <1>4 DEF Good

\* The stored document and those that undo leads back to.
StoredOK == /\ Good(graph.body)
            /\ \E S : history \in Seq(S) /\ \A doc \in S : Good(doc.body)

LEMMA StoredInit == Init => StoredOK
<1> SUFFICES ASSUME Init PROVE StoredOK
  OBVIOUS
<1>1. history \in Seq({})
  BY DEF Init
<1>2. \E S : history \in Seq(S) /\ \A doc \in S : Good(doc.body)
  BY <1>1
<1>3. graph.body = Sample
  BY DEF Init
<1> QED BY <1>2, <1>3, DocumentAssumption DEF StoredOK, Good

LEMMA StoredStep ==
  ASSUME StoredOK, [Desk!Apply \/ Desk!Undo]_<<graph, history>>
  PROVE  StoredOK'
<1>1. PICK S : history \in Seq(S) /\ \A doc \in S : Good(doc.body)
  BY DEF StoredOK
<1>2. CASE Desk!Apply
  <2>1. PICK batch \in Batches : \E body \in Plans(graph.body, batch) :
          graph' = [revision |-> graph.revision + 1, body |-> body]
    BY <1>2 DEF Desk!Apply, Desk!Becomes
  <2>2. PICK body \in Plans(graph.body, batch) :
          graph' = [revision |-> graph.revision + 1, body |-> body]
    BY <2>1
  <2>3. Good(body)
    BY <2>2, PlanKeeps DEF StoredOK
  <2>4. graph'.body = body
    BY <2>2
  <2> DEFINE T == S \cup {graph}
  <2>5. history' \in Seq(T)
    <3>1. history \in Seq(T)
      BY <1>1
    <3>2. Append(history, graph) \in Seq(T) /\ Append(history, graph) # <<>>
      BY <3>1
    <3>3. Tail(Append(history, graph)) \in Seq(T)
      BY <3>2
    <3> QED BY <1>2, <3>2, <3>3 DEF Desk!Apply, Desk!Recent
  <2>6. \A doc \in T : Good(doc.body)
    BY <1>1 DEF StoredOK
  <2> QED BY <2>3, <2>4, <2>5, <2>6 DEF StoredOK
<1>3. CASE Desk!Undo
  <2>1. /\ history # <<>>
        /\ graph'.body = history[Len(history)].body
        /\ history' = SubSeq(history, 1, Len(history) - 1)
    BY <1>3 DEF Desk!Undo, Desk!Becomes
  <2>2. Len(history) \in Nat \ {0} /\ history[Len(history)] \in S
    BY <1>1, <2>1
  <2>3. history' \in Seq(S)
    BY <1>1, <2>1, <2>2
  <2> QED BY <1>1, <2>1, <2>2, <2>3 DEF StoredOK
<1>4. CASE UNCHANGED <<graph, history>>
  BY <1>4 DEF StoredOK
<1> QED BY <1>2, <1>3, <1>4

\* Whatever is stored, by a batch or by undo, passes every check of the plan,
\* though a batch of looks is never checked: for any catalogue, commands and
\* number of callers.
THEOREM StoredIsValid == Spec => []StoredGraphValid
<1>1. IInv /\ StoredOK /\ [Next]_vars => StoredOK'
  BY StepOfDesk, StoredStep
<1>2. StoredOK => StoredGraphValid
  BY DEF StoredOK, Good, StoredGraphValid
<1> QED BY <1>1, <1>2, StoredInit, Invariant, PTL DEF Spec
-----------------------------------------------------------------------------
(***************************************************************************)
(* The sort.  Its recursion has a value, because what is being visited     *)
(* grows with every call; that value is right for whatever is being        *)
(* visited, from the most nodes to none.                                   *)
(***************************************************************************)
LEMMA CountedTo ==
  ASSUME NEW n \in Nat
  PROVE  IsFiniteSet(1..n) /\ Cardinality(1..n) = n
BY FS_Interval

\* Every node of a set is listed.
LEMMA AllListed ==
  ASSUME NEW T \in SUBSET NodeIds
  PROVE  /\ SetToSeq(T) \in Seq(T)
         /\ \A x \in T : \E k \in 1..Len(SetToSeq(T)) : SetToSeq(T)[k] = x
<1> DEFINE n == Cardinality(T)
           s == SetToSeq(T)
<1>0. IsFiniteSet(T)
  BY DocumentAssumption, FS_Subset
<1>1. n \in Nat /\ \E f \in [1..n -> T] : IsInjective(f)
  BY <1>0, FS_CardinalityType DEF ExistsBijection, Bijection, Injection
<1>2. s \in [1..n -> T] /\ IsInjective(s)
  BY <1>1 DEF SetToSeq
<1> HIDE DEF s, n
<1>3. s \in Surjection(1..n, T)
  <2>1. s \in Injection(1..n, T)
    BY <1>2 DEF Injection
  <2>2. Cardinality(1..n) = n /\ Cardinality(T) = n
    BY <1>1, CountedTo DEF n
  <2> QED BY <1>0, <2>1, <2>2, FS_Injection
<1>4. Len(s) = n /\ s \in Seq(T)
  BY <1>1, <1>2
<1>5. \A x \in T : \E k \in 1..n : s[k] = x
  BY <1>3 DEF Surjection
<1> QED BY <1>4, <1>5 DEF s

\* What a visit may be.
Visits == [NodeIds -> [Sorting -> Sorting]]

\* The states between the visits to the nodes of a list.
IsTour(r, visit, s, list) ==
  r = [k \in 0..Len(list) |-> IF k = 0 THEN s ELSE visit[list[k]][r[k - 1]]]

LEMMA TourExists ==
  ASSUME NEW visit \in Visits, NEW s \in Sorting, NEW list \in Seq(NodeIds)
  PROVE  \E r : IsTour(r, visit, s, list)
<1> DEFINE N == Len(list)
           step == [k \in 1..N |-> visit[list[k]]]
<1>1. N \in Nat /\ \A k \in 1..N : list[k] \in NodeIds
  OBVIOUS
<1>2. PICK r \in [0..N -> Sorting] : r[0] = s /\ \A k \in 1..N : r[k] = step[k][r[k - 1]]
  <2>1. StaysIn(Sorting, step, N)
    BY <1>1 DEF StaysIn, Visits
  <2> HIDE DEF step, N
  <2>2. PICK r \in [0..N -> Sorting] : Repeats(r, s, step, N)
    BY <1>1, <2>1, RepeatedStep
  <2> QED BY <2>2 DEF Repeats
<1> DEFINE F(k) == IF k = 0 THEN s ELSE visit[list[k]][r[k - 1]]
<1>3. ASSUME NEW k \in 0..N PROVE r[k] = F(k)
  <2>1. k # 0 => k \in 1..N
    BY <1>1
  <2> QED BY <1>2, <2>1
<1>4. r = [k \in 0..N |-> F(k)]
  <2> HIDE DEF F
  <2> QED BY <1>2, <1>3
<1> QED BY <1>4 DEF IsTour

LEMMA Tour ==
  ASSUME NEW visit \in Visits, NEW s \in Sorting, NEW list \in Seq(NodeIds)
  PROVE  \E r \in [0..Len(list) -> Sorting] :
           /\ r[0] = s /\ VisitAll(visit, s, list) = r[Len(list)]
           /\ \A k \in 1..Len(list) : r[k] = visit[list[k]][r[k - 1]]
<1> DEFINE N == Len(list)
           R == CHOOSE r : IsTour(r, visit, s, list)
           F(k) == IF k = 0 THEN s ELSE visit[list[k]][R[k - 1]]
<1>1. N \in Nat /\ \A k \in 1..N : list[k] \in NodeIds
  OBVIOUS
<1>2. VisitAll(visit, s, list) = R[N]
  BY DEF VisitAll, IsTour
<1>3. IsTour(R, visit, s, list)
  BY TourExists
<1>4. R = [k \in 0..N |-> F(k)]
  <2> HIDE DEF R
  <2> QED BY <1>3 DEF IsTour
<1> HIDE DEF R, N
<1>5. \A k \in 0..N : R[k] = F(k)
  <2> HIDE DEF F
  <2> QED BY <1>4
<1>6. R[0] = s
  BY <1>1, <1>5
<1>7. ASSUME NEW k \in 1..N PROVE R[k] = visit[list[k]][R[k - 1]]
  <2>1. k \in 0..N /\ k # 0
    BY <1>1
  <2> QED BY <1>5, <2>1
<1> DEFINE I == {k \in Nat : k <= N => R[k] \in Sorting}
<1>8. 0 \in I
  BY <1>6
<1>9. ASSUME NEW k \in Nat, k \in I PROVE k + 1 \in I
  <2> SUFFICES ASSUME k + 1 <= N PROVE R[k + 1] \in Sorting
    OBVIOUS
  <2>1. k + 1 \in 1..N /\ (k + 1) - 1 = k /\ R[k] \in Sorting
    BY <1>1, <1>9
  <2>2. R[k + 1] = visit[list[k + 1]][R[k]]
    BY <1>7, <2>1
  <2> QED BY <1>1, <2>1, <2>2 DEF Visits
<1> HIDE DEF I
<1>10. Nat \subseteq I
  BY <1>8, <1>9, NaturalsBelow
<1>11. \A k \in 0..N : R[k] \in Sorting
  BY <1>1, <1>10 DEF I
<1>12. R \in [0..N -> Sorting]
  <2>1. R = [k \in 0..N |-> R[k]]
    BY <1>4
  <2> QED BY <1>11, <2>1
<1> QED BY <1>2, <1>6, <1>7, <1>12 DEF N

-----------------------------------------------------------------------------
\* The edges lead from nodes of the document.
Within(nodes, edges) ==
  nodes \subseteq NodeIds /\ \A n \in NodeIds : Upstream(edges, n) \subseteq nodes

\* A visit to n, when `next` are the visits that it makes itself.
Visited(next, edges, visiting, n, s) ==
  IF s.cyclic \/ n \in ToSet(s.order) THEN s
  ELSE IF n \in visiting THEN [s EXCEPT !.cyclic = TRUE]
  ELSE LET t == VisitAll(next, s, SetToSeq(Upstream(edges, n)))
       IN [t EXCEPT !.order = Append(@, n)]

\* All visits: visit[visiting][n][s].
IsVisit(visit, edges) ==
  visit = [visiting \in SUBSET NodeIds |-> [n \in NodeIds |-> [s \in Sorting |->
             Visited(visit[visiting \cup {n}], edges, visiting, n, s)]]]

LEMMA SortingFields ==
  ASSUME NEW s \in Sorting
  PROVE  /\ s.order \in Seq(NodeIds) /\ s.cyclic \in BOOLEAN
         /\ [s EXCEPT !.cyclic = TRUE] \in Sorting
         /\ [s EXCEPT !.cyclic = TRUE].cyclic = TRUE
         /\ \A n \in NodeIds :
              /\ [s EXCEPT !.order = Append(@, n)] \in Sorting
              /\ [s EXCEPT !.order = Append(@, n)].order = Append(s.order, n)
              /\ [s EXCEPT !.order = Append(@, n)].cyclic = s.cyclic
<1>1. s.order \in Seq(NodeIds) /\ s.cyclic \in BOOLEAN
  BY DEF Sorting
<1>2. [s EXCEPT !.cyclic = TRUE] \in Sorting /\ [s EXCEPT !.cyclic = TRUE].cyclic = TRUE
  BY DEF Sorting
<1>3. ASSUME NEW n \in NodeIds
      PROVE  /\ [s EXCEPT !.order = Append(@, n)] \in Sorting
             /\ [s EXCEPT !.order = Append(@, n)].order = Append(s.order, n)
             /\ [s EXCEPT !.order = Append(@, n)].cyclic = s.cyclic
  <2> DEFINE list == Append(s.order, n)
             t == [s EXCEPT !.order = list]
  <2>1. list \in Seq(NodeIds)
    BY <1>1
  <2> HIDE DEF list
  <2>2. t \in Sorting /\ t.order = list /\ t.cyclic = s.cyclic
    BY <2>1 DEF Sorting
  <2> QED BY <2>2 DEF list
<1> QED BY <1>1, <1>2, <1>3

\* What a visit makes of a list is a state of the sort.
LEMMA VisitAllType ==
  ASSUME NEW visit \in Visits, NEW s \in Sorting, NEW list \in Seq(NodeIds)
  PROVE  VisitAll(visit, s, list) \in Sorting
<1>1. PICK r \in [0..Len(list) -> Sorting] : VisitAll(visit, s, list) = r[Len(list)]
  BY Tour
<1>2. Len(list) \in 0..Len(list)
  OBVIOUS
<1> QED BY <1>1, <1>2

LEMMA UpstreamListed ==
  ASSUME NEW nodes, NEW edges, Within(nodes, edges), NEW n \in NodeIds
  PROVE  /\ SetToSeq(Upstream(edges, n)) \in Seq(NodeIds)
         /\ \A u \in Upstream(edges, n) :
              \E k \in 1..Len(SetToSeq(Upstream(edges, n))) :
                SetToSeq(Upstream(edges, n))[k] = u
         /\ \A k \in 1..Len(SetToSeq(Upstream(edges, n))) :
              SetToSeq(Upstream(edges, n))[k] \in Upstream(edges, n)
<1> DEFINE T == Upstream(edges, n)
           list == SetToSeq(T)
<1>1. T \in SUBSET NodeIds
  BY DEF Within
<1> HIDE DEF T
<1>2. list \in Seq(T) /\ \A u \in T : \E k \in 1..Len(list) : list[k] = u
  BY <1>1, AllListed
<1> HIDE DEF list
<1>3. list \in Seq(NodeIds) /\ \A k \in 1..Len(list) : list[k] \in T
  BY <1>1, <1>2
<1> QED BY <1>2, <1>3 DEF list, T

LEMMA VisitedType ==
  ASSUME NEW nodes, NEW edges, Within(nodes, edges), NEW next \in Visits,
         NEW visiting \in SUBSET NodeIds, NEW n \in NodeIds, NEW s \in Sorting
  PROVE  Visited(next, edges, visiting, n, s) \in Sorting
<1> DEFINE t == VisitAll(next, s, SetToSeq(Upstream(edges, n)))
<1>1. t \in Sorting
  BY UpstreamListed, VisitAllType
<1> HIDE DEF t
<1>2. [t EXCEPT !.order = Append(@, n)] \in Sorting /\ [s EXCEPT !.cyclic = TRUE] \in Sorting
  BY <1>1, SortingFields
<1> QED BY <1>2 DEF Visited, t

\* One more node being visited leaves one fewer.
LEMMA FewerLeft ==
  ASSUME NEW V \in SUBSET NodeIds
  PROVE  /\ Cardinality(NodeIds \ V) \in Nat
         /\ Cardinality(NodeIds \ V) <= Cardinality(NodeIds)
         /\ Cardinality(NodeIds) \in Nat
         /\ \A n \in NodeIds \ V :
              Cardinality(NodeIds \ (V \cup {n})) = Cardinality(NodeIds \ V) - 1
<1>1. IsFiniteSet(NodeIds \ V) /\ IsFiniteSet(NodeIds)
  BY DocumentAssumption, FS_Subset
<1>2. /\ Cardinality(NodeIds \ V) \in Nat /\ Cardinality(NodeIds) \in Nat
      /\ Cardinality(NodeIds \ V) <= Cardinality(NodeIds)
  BY <1>1, FS_CardinalityType, FS_Subset
<1>3. ASSUME NEW n \in NodeIds \ V
      PROVE  Cardinality(NodeIds \ (V \cup {n})) = Cardinality(NodeIds \ V) - 1
  <2>1. NodeIds \ (V \cup {n}) = (NodeIds \ V) \ {n}
    OBVIOUS
  <2> QED BY <1>1, <2>1, FS_RemoveElement
<1> QED BY <1>2, <1>3

LEMMA VisitExists ==
  ASSUME NEW nodes, NEW edges, Within(nodes, edges)
  PROVE  \E visit : IsVisit(visit, edges)
<1> DEFINE C == Cardinality(NodeIds)
           N == C + 2
           S == [SUBSET NodeIds -> Visits]
           turn(f) == [V \in SUBSET NodeIds |-> [n \in NodeIds |-> [s \in Sorting |->
                         Visited(f[V \cup {n}], edges, V, n, s)]]]
           start == [V \in SUBSET NodeIds |-> [n \in NodeIds |-> [s \in Sorting |-> s]]]
           step == [k \in 1..N |-> [f \in S |-> turn(f)]]
<1>1. C \in Nat /\ N \in Nat
  BY DocumentAssumption, FS_CardinalityType
<1>2. start \in S
  BY DEF Visits
<1>3. ASSUME NEW f \in S PROVE turn(f) \in S
  <2>1. ASSUME NEW V \in SUBSET NodeIds, NEW n \in NodeIds, NEW s \in Sorting
        PROVE  Visited(f[V \cup {n}], edges, V, n, s) \in Sorting
    <3>1. f[V \cup {n}] \in Visits
      OBVIOUS
    <3> QED BY <3>1, VisitedType
  <2> QED BY <2>1 DEF Visits
<1>4. PICK r \in [0..N -> S] : \A k \in 1..N : r[k] = turn(r[k - 1])
  <2>1. StaysIn(S, step, N)
    <3> HIDE DEF turn, S
    <3> QED BY <1>3 DEF StaysIn
  <2>2. \A k \in 1..N : \A f \in S : step[k][f] = turn(f)
    <3> HIDE DEF turn, S
    <3> QED OBVIOUS
  <2> HIDE DEF step, N, S, start, turn
  <2>3. PICK r \in [0..N -> S] : Repeats(r, start, step, N)
    BY <1>1, <1>2, <2>1, RepeatedStep
  <2>4. ASSUME NEW k \in 1..N PROVE r[k] = turn(r[k - 1])
    <3>1. k - 1 \in 0..N
      BY <1>1
    <3> QED BY <2>2, <2>3, <3>1 DEF Repeats
  <2> QED BY <2>4
<1> DEFINE I == {k \in Nat : k <= C + 1 =>
                   \A V \in SUBSET NodeIds : Cardinality(NodeIds \ V) < k => r[k][V] = r[k + 1][V]}
<1>5. 0 \in I
  BY FewerLeft
<1>6. ASSUME NEW k \in Nat, k \in I PROVE k + 1 \in I
  <2> SUFFICES ASSUME k + 1 <= C + 1, NEW V \in SUBSET NodeIds,
                      Cardinality(NodeIds \ V) < k + 1
               PROVE  r[k + 1][V] = r[(k + 1) + 1][V]
    OBVIOUS
  <2>1. /\ k + 1 \in 1..N /\ k + 2 \in 1..N /\ (k + 1) - 1 = k /\ (k + 2) - 1 = k + 1
        /\ k \in 0..N /\ k + 1 \in 0..N /\ k <= C + 1
    BY <1>1
  <2>2. r[k + 1] = turn(r[k]) /\ r[k + 2] = turn(r[k + 1])
    BY <1>4, <2>1
  <2>3. ASSUME NEW n \in NodeIds, NEW s \in Sorting
        PROVE  Visited(r[k][V \cup {n}], edges, V, n, s) = Visited(r[k + 1][V \cup {n}], edges, V, n, s)
    <3>1. CASE n \in V
      BY <3>1 DEF Visited
    <3>2. CASE n \notin V
      <4>1. Cardinality(NodeIds \ (V \cup {n})) < k
        BY <3>2, FewerLeft
      <4>2. r[k][V \cup {n}] = r[k + 1][V \cup {n}]
        BY <1>6, <2>1, <4>1
      <4> QED BY <4>2
    <3> QED BY <3>1, <3>2
  <2>4. r[k + 1][V] = [n \in NodeIds |-> [s \in Sorting |-> Visited(r[k][V \cup {n}], edges, V, n, s)]]
    BY <2>2
  <2>5. r[k + 2][V] = [n \in NodeIds |-> [s \in Sorting |-> Visited(r[k + 1][V \cup {n}], edges, V, n, s)]]
    BY <2>2
  <2>6. (k + 1) + 1 = k + 2
    OBVIOUS
  <2> QED BY <2>3, <2>4, <2>5, <2>6
<1>7. C + 1 \in I
  <2> HIDE DEF I
  <2>1. Nat \subseteq I
    BY <1>5, <1>6, NaturalsBelow
  <2> QED BY <1>1, <2>1
<1> DEFINE f == r[C + 1]
<1>8. /\ C + 1 \in 0..N /\ C + 2 \in 1..N /\ (C + 2) - 1 = C + 1 /\ (C + 1) + 1 = C + 2
      /\ C + 2 \in 0..N
  BY <1>1
<1>9. f \in S /\ r[C + 2] \in S /\ r[C + 2] = turn(f)
  <2> HIDE DEF S, turn
  <2> QED BY <1>4, <1>8
<1>10. \A V \in SUBSET NodeIds : f[V] = r[C + 2][V]
  <2>1. \A V \in SUBSET NodeIds :
          Cardinality(NodeIds \ V) < C + 1 => r[C + 1][V] = r[(C + 1) + 1][V]
    BY <1>1, <1>7
  <2>2. \A V \in SUBSET NodeIds : Cardinality(NodeIds \ V) < C + 1
    BY <1>1, FewerLeft
  <2> QED BY <1>8, <2>1, <2>2
<1>11. f = r[C + 2]
  <2> HIDE DEF f
  <2> QED BY <1>9, <1>10
<1>12. f = turn(f)
  BY <1>9, <1>11
<1> HIDE DEF f
<1> QED BY <1>12 DEF IsVisit

\* A list without repetition of nodes, each after those it depends on.
InOrder(order, nodes, edges) ==
  /\ order \in Seq(NodeIds) /\ ToSet(order) \subseteq nodes
  /\ \A i, j \in 1..Len(order) : i < j => order[i] # order[j]
  /\ \A i \in 1..Len(order) : \A u \in Upstream(edges, order[i]) :
       \E j \in 1..Len(order) : j < i /\ order[j] = u

\* dep[n] is what n depends on, directly or by way of others.
IsDependence(dep, edges) ==
  \A n \in NodeIds :
    /\ Upstream(edges, n) \subseteq dep[n]
    /\ \A m \in dep[n] : Upstream(edges, m) \subseteq dep[n]
    /\ \A D : /\ Upstream(edges, n) \subseteq D
              /\ \A m \in D : Upstream(edges, m) \subseteq D
              => dep[n] \subseteq D

HasCycle(dep, nodes) == \E n \in nodes : n \in dep[n]

\* A sort under way, before a visit while those in V are being visited.
Sound(s, V, nodes, edges) ==
  s.cyclic = FALSE /\ InOrder(s.order, nodes, edges) /\ V \cap ToSet(s.order) = {}

\* What may come out of the visits to the nodes in D: a cycle there is, or
\* more of the order.
Advances(s, t, D, V, dep, nodes, edges) ==
  /\ t.cyclic => HasCycle(dep, nodes)
  /\ ~t.cyclic => /\ Sound(t, V, nodes, edges)
                  /\ ToSet(s.order) \cup D \subseteq ToSet(t.order)

\* Visits made while those in V, which depend on the visited, are visited.
VisitsOK(visit, V, dep, nodes, edges) ==
  \A n \in nodes : \A s \in Sorting :
    /\ s.cyclic => visit[n][s] = s
    /\ Sound(s, V, nodes, edges) /\ (\A v \in V : n \in dep[v])
         => Advances(s, visit[n][s], {n}, V, dep, nodes, edges)

\* The visits to a list.
LEMMA ListVisited ==
  ASSUME NEW nodes \in SUBSET NodeIds, NEW edges, NEW dep, NEW V,
         NEW visit \in Visits, VisitsOK(visit, V, dep, nodes, edges),
         NEW s \in Sorting, Sound(s, V, nodes, edges),
         NEW list \in Seq(NodeIds), NEW D \in SUBSET nodes,
         \A k \in 1..Len(list) : list[k] \in D,
         \A x \in D : \E k \in 1..Len(list) : list[k] = x,
         \A v \in V : D \subseteq dep[v]
  PROVE  /\ VisitAll(visit, s, list) \in Sorting
         /\ Advances(s, VisitAll(visit, s, list), D, V, dep, nodes, edges)
<1> DEFINE N == Len(list)
           Part(k) == {list[i] : i \in 1..k}
<1>0. N \in Nat
  OBVIOUS
<1>1. PICK r \in [0..N -> Sorting] :
        /\ r[0] = s /\ VisitAll(visit, s, list) = r[N]
        /\ \A k \in 1..N : r[k] = visit[list[k]][r[k - 1]]
  BY Tour
<1> DEFINE I == {k \in Nat : k <= N => Advances(s, r[k], Part(k), V, dep, nodes, edges)}
<1>2. 0 \in I
  <2>1. Part(0) = {}
    OBVIOUS
  <2> HIDE DEF Part
  <2> QED BY <1>1, <2>1 DEF Advances, Sound
<1>3. ASSUME NEW k \in Nat, k \in I PROVE k + 1 \in I
  <2> SUFFICES ASSUME k + 1 <= N
               PROVE  Advances(s, r[k + 1], Part(k + 1), V, dep, nodes, edges)
    OBVIOUS
  <2>1. k + 1 \in 1..N /\ (k + 1) - 1 = k /\ k \in 0..N /\ k <= N
    BY <1>0
  <2>2. /\ r[k + 1] = visit[list[k + 1]][r[k]] /\ list[k + 1] \in D
        /\ r[k] \in Sorting /\ Advances(s, r[k], Part(k), V, dep, nodes, edges)
    BY <1>1, <1>3, <2>1
  <2>3. Part(k + 1) = Part(k) \cup {list[k + 1]}
    <3>1. \A i \in 1..(k + 1) : i \in 1..k \/ i = k + 1
      OBVIOUS
    <3>2. k + 1 \in 1..(k + 1) /\ \A i \in 1..k : i \in 1..(k + 1)
      OBVIOUS
    <3> QED BY <3>1, <3>2
  <2> HIDE DEF Part
  <2>4. CASE r[k].cyclic
    <3>1. r[k + 1] = r[k]
      BY <2>2, <2>4 DEF VisitsOK
    <3> QED BY <2>2, <2>4, <3>1 DEF Advances
  <2>5. CASE ~r[k].cyclic
    <3>1. Sound(r[k], V, nodes, edges) /\ ToSet(s.order) \cup Part(k) \subseteq ToSet(r[k].order)
      BY <2>2, <2>5 DEF Advances
    <3>2. Advances(r[k], r[k + 1], {list[k + 1]}, V, dep, nodes, edges)
      BY <2>2, <3>1 DEF VisitsOK
    <3> QED BY <2>3, <3>1, <3>2 DEF Advances
  <2> QED BY <2>4, <2>5
<1>4. Advances(s, r[N], Part(N), V, dep, nodes, edges)
  <2> HIDE DEF I
  <2>1. Nat \subseteq I
    BY <1>2, <1>3, NaturalsBelow
  <2> QED BY <1>0, <2>1 DEF I
<1>5. Part(N) = D
  OBVIOUS
<1>6. r[N] \in Sorting
  BY <1>0, <1>1
<1> QED BY <1>1, <1>4, <1>5, <1>6

\* The visit itself, after those to all that the node depends on.
LEMMA OneVisited ==
  ASSUME NEW nodes, NEW edges, Within(nodes, edges),
         NEW dep, IsDependence(dep, edges),
         NEW V \in SUBSET NodeIds, NEW n \in nodes, n \notin V,
         NEW next \in Visits, VisitsOK(next, V \cup {n}, dep, nodes, edges),
         NEW s \in Sorting, Sound(s, V, nodes, edges), n \notin ToSet(s.order),
         \A v \in V : n \in dep[v]
  PROVE  Advances(s, Visited(next, edges, V, n, s), {n}, V, dep, nodes, edges)
<1> DEFINE D == Upstream(edges, n)
           list == SetToSeq(D)
           t == VisitAll(next, s, list)
           w == [t EXCEPT !.order = Append(@, n)]
<1>1. /\ n \in NodeIds /\ nodes \in SUBSET NodeIds /\ D \in SUBSET nodes
      /\ \A v \in V \cup {n} : D \subseteq dep[v]
  BY DEF Within, IsDependence
<1>2. /\ list \in Seq(NodeIds)
      /\ \A u \in D : \E k \in 1..Len(list) : list[k] = u
      /\ \A k \in 1..Len(list) : list[k] \in D
  BY <1>1, UpstreamListed
<1>3. Sound(s, V \cup {n}, nodes, edges)
  BY DEF Sound
<1> HIDE DEF list, D
<1>4. t \in Sorting /\ Advances(s, t, D, V \cup {n}, dep, nodes, edges)
  BY <1>1, <1>2, <1>3, ListVisited
<1>5. Visited(next, edges, V, n, s) = w
  BY DEF Visited, Sound, D, list
<1> HIDE DEF t
<1>6. w.order = Append(t.order, n) /\ w.cyclic = t.cyclic /\ t.order \in Seq(NodeIds)
      /\ t.cyclic \in BOOLEAN
  <2>1. t.order \in Seq(NodeIds) /\ t.cyclic \in BOOLEAN
    BY <1>4, SortingFields
  <2>2. w.order = Append(t.order, n) /\ w.cyclic = t.cyclic
    BY <1>1, <1>4 DEF Sorting
  <2> QED BY <2>1, <2>2
<1> HIDE DEF w
<1>7. CASE t.cyclic
  BY <1>4, <1>5, <1>6, <1>7 DEF Advances
<1>8. CASE ~t.cyclic
  <2> DEFINE o == t.order
             q == w.order
  <2>1. /\ InOrder(o, nodes, edges) /\ n \notin ToSet(o) /\ V \cap ToSet(o) = {}
        /\ ToSet(s.order) \subseteq ToSet(o) /\ D \subseteq ToSet(o)
    BY <1>4, <1>8 DEF Advances, Sound
  <2>2. /\ q \in Seq(NodeIds) /\ Len(q) = Len(o) + 1 /\ Len(o) \in Nat
        /\ q[Len(o) + 1] = n /\ \A i \in 1..Len(o) : q[i] = o[i]
        /\ DOMAIN o = 1..Len(o) /\ DOMAIN q = 1..(Len(o) + 1)
    BY <1>1, <1>6
  <2> HIDE DEF o, q
  <2>3. \A i \in 1..Len(q) : i \in 1..Len(o) \/ i = Len(o) + 1
    BY <2>2
  <2>4. \A i \in 1..Len(o) : i \in 1..Len(q) /\ i < Len(o) + 1 /\ o[i] # n
    BY <2>1, <2>2 DEF ToSet
  <2>5. ToSet(q) = ToSet(o) \cup {n}
    <3>1. ASSUME NEW x \in ToSet(q) PROVE x \in ToSet(o) \cup {n}
      <4>1. PICK i \in 1..Len(q) : x = q[i]
        BY <2>2, <3>1 DEF ToSet
      <4> QED BY <2>2, <2>3, <4>1 DEF ToSet
    <3>2. ASSUME NEW x \in ToSet(o) PROVE x \in ToSet(q)
      <4>1. PICK i \in 1..Len(o) : x = o[i]
        BY <2>2, <3>2 DEF ToSet
      <4>2. i \in DOMAIN q /\ x = q[i]
        BY <2>2, <2>4, <4>1
      <4> QED BY <4>2 DEF ToSet
    <3>3. n \in ToSet(q)
      <4>1. Len(o) + 1 \in DOMAIN q
        BY <2>2
      <4> QED BY <2>2, <4>1 DEF ToSet
    <3> QED BY <3>1, <3>2, <3>3
  <2>6. ASSUME NEW i \in 1..Len(q), NEW j \in 1..Len(q), i < j
        PROVE  q[i] # q[j]
    <3>1. CASE j \in 1..Len(o)
      <4>1. i \in 1..Len(o)
        BY <2>2, <2>6, <3>1
      <4> QED BY <2>1, <2>2, <2>6, <3>1, <4>1 DEF InOrder
    <3>2. CASE j = Len(o) + 1
      <4>1. i \in 1..Len(o)
        BY <2>2, <2>6, <3>2
      <4> QED BY <2>2, <2>4, <3>2, <4>1
    <3> QED BY <2>3, <3>1, <3>2
  <2>7. ASSUME NEW i \in 1..Len(q), NEW u \in Upstream(edges, q[i])
        PROVE  \E j \in 1..Len(q) : j < i /\ q[j] = u
    <3>1. CASE i \in 1..Len(o)
      <4>1. PICK j \in 1..Len(o) : j < i /\ o[j] = u
        BY <2>1, <2>2, <2>7, <3>1 DEF InOrder
      <4> QED BY <2>2, <2>4, <4>1
    <3>2. CASE i = Len(o) + 1
      <4>1. u \in ToSet(o)
        BY <2>1, <2>2, <2>7, <3>2 DEF D
      <4>2. PICK j \in 1..Len(o) : o[j] = u
        BY <2>2, <4>1 DEF ToSet
      <4> QED BY <2>2, <2>4, <3>2, <4>2
    <3> QED BY <2>3, <3>1, <3>2
  <2>8. InOrder(q, nodes, edges)
    <3>1. ToSet(q) \subseteq nodes
      BY <2>1, <2>5 DEF InOrder
    <3> QED BY <2>2, <2>6, <2>7, <3>1 DEF InOrder
  <2>9. w.cyclic = FALSE
    BY <1>6, <1>8
  <2> QED BY <1>5, <2>1, <2>5, <2>8, <2>9 DEF Advances, Sound, q
<1> QED BY <1>7, <1>8

\* All visits, whatever is being visited.
LEMMA AllVisitsOK ==
  ASSUME NEW nodes, NEW edges, Within(nodes, edges),
         NEW dep, IsDependence(dep, edges),
         NEW visit, IsVisit(visit, edges)
  PROVE  visit \in [SUBSET NodeIds -> Visits]
         /\ \A V \in SUBSET NodeIds : VisitsOK(visit[V], V, dep, nodes, edges)
<1> DEFINE C == Cardinality(NodeIds)
           Turn(V, n, s) == Visited(visit[V \cup {n}], edges, V, n, s)
           Fine(V) == visit[V] \in Visits /\ VisitsOK(visit[V], V, dep, nodes, edges)
           I == {k \in Nat : \A V \in SUBSET NodeIds : Cardinality(NodeIds \ V) < k => Fine(V)}
<1>0. C \in Nat
  BY DocumentAssumption, FS_CardinalityType
<1>1. visit = [V \in SUBSET NodeIds |-> [n \in NodeIds |-> [s \in Sorting |-> Turn(V, n, s)]]]
  BY DEF IsVisit
<1>2. 0 \in I
  BY FewerLeft
<1>3. ASSUME NEW k \in Nat, k \in I PROVE k + 1 \in I
  <2> SUFFICES ASSUME NEW V \in SUBSET NodeIds, Cardinality(NodeIds \ V) < k + 1
               PROVE  Fine(V)
    OBVIOUS
  <2>1. ASSUME NEW n \in NodeIds, n \notin V PROVE Fine(V \cup {n})
    <3>1. Cardinality(NodeIds \ (V \cup {n})) < k
      BY <2>1, FewerLeft
    <3> QED BY <1>3, <3>1
  <2> DEFINE F == [n \in NodeIds |-> [s \in Sorting |-> Turn(V, n, s)]]
  <2>2. visit[V] = F
    <3> HIDE DEF Turn
    <3> QED BY <1>1
  <2>3. ASSUME NEW n \in NodeIds, NEW s \in Sorting PROVE Turn(V, n, s) \in Sorting
    <3>1. CASE n \in V
      BY <3>1, SortingFields DEF Visited
    <3>2. CASE n \notin V
      <4>1. visit[V \cup {n}] \in Visits
        BY <2>1, <3>2
      <4> QED BY <4>1, VisitedType
    <3> QED BY <3>1, <3>2
  <2>4. F \in Visits
    <3> HIDE DEF Turn
    <3> QED BY <2>3 DEF Visits
  <2>5. \A n \in NodeIds : \A s \in Sorting : F[n][s] = Turn(V, n, s)
    <3> HIDE DEF Turn
    <3> QED OBVIOUS
  <2>6. ASSUME NEW n \in nodes, NEW s \in Sorting, s.cyclic
        PROVE  Turn(V, n, s) = s
    BY <2>6 DEF Visited
  <2>7. ASSUME NEW n \in nodes, NEW s \in Sorting, Sound(s, V, nodes, edges),
               \A v \in V : n \in dep[v]
        PROVE  Advances(s, Turn(V, n, s), {n}, V, dep, nodes, edges)
    <3>0. n \in NodeIds
      BY DEF Within
    <3>1. CASE n \in ToSet(s.order)
      <4>1. Turn(V, n, s) = s
        BY <3>1 DEF Visited
      <4> QED BY <2>7, <3>1, <4>1 DEF Advances, Sound
    <3>2. CASE n \notin ToSet(s.order) /\ n \in V
      <4>1. Turn(V, n, s) = [s EXCEPT !.cyclic = TRUE]
        BY <2>7, <3>2 DEF Visited, Sound
      <4>2. Turn(V, n, s).cyclic = TRUE
        BY <4>1, SortingFields
      <4>3. HasCycle(dep, nodes)
        BY <2>7, <3>2 DEF HasCycle
      <4> QED BY <4>2, <4>3 DEF Advances
    <3>3. CASE n \notin ToSet(s.order) /\ n \notin V
      <4>1. Fine(V \cup {n})
        BY <2>1, <3>0, <3>3
      <4> QED BY <2>7, <3>3, <4>1, OneVisited
    <3> QED BY <3>1, <3>2, <3>3
  <2>8. VisitsOK(F, V, dep, nodes, edges)
    <3>1. nodes \subseteq NodeIds
      BY DEF Within
    <3> HIDE DEF Turn, F
    <3> QED BY <2>5, <2>6, <2>7, <3>1 DEF VisitsOK
  <2> HIDE DEF F
  <2> QED BY <2>2, <2>4, <2>8
<1> HIDE DEF I, Fine
<1>4. Nat \subseteq I
  BY <1>2, <1>3, NaturalsBelow
<1>5. ASSUME NEW V \in SUBSET NodeIds PROVE Fine(V)
  <2>1. C + 1 \in I /\ Cardinality(NodeIds \ V) < C + 1
    BY <1>0, <1>4, FewerLeft
  <2> QED BY <2>1 DEF I
<1>6. visit \in [SUBSET NodeIds -> Visits]
  <2>1. visit = [V \in SUBSET NodeIds |-> visit[V]]
    <3> HIDE DEF Turn
    <3> QED BY <1>1
  <2>2. \A V \in SUBSET NodeIds : visit[V] \in Visits
    BY <1>5 DEF Fine
  <2> QED BY <2>1, <2>2
<1> QED BY <1>5, <1>6 DEF Fine

\* In an order that has all nodes none depends on itself.
LEMMA InOrderHasNoCycle ==
  ASSUME NEW nodes, NEW edges, Within(nodes, edges),
         NEW dep, IsDependence(dep, edges),
         NEW order, InOrder(order, nodes, edges), nodes \subseteq ToSet(order)
  PROVE  ~HasCycle(dep, nodes)
<1> SUFFICES ASSUME NEW n \in nodes, n \in dep[n] PROVE FALSE
  BY DEF HasCycle
<1>0. Len(order) \in Nat /\ DOMAIN order = 1..Len(order)
  BY DEF InOrder
<1>1. PICK i \in 1..Len(order) : order[i] = n
  BY <1>0 DEF ToSet
<1> DEFINE D == {order[j] : j \in {k \in 1..Len(order) : k < i}}
<1>2. Upstream(edges, n) \subseteq D
  BY <1>1 DEF InOrder
<1>3. ASSUME NEW m \in D PROVE Upstream(edges, m) \subseteq D
  <2>1. PICK j \in 1..Len(order) : j < i /\ order[j] = m
    OBVIOUS
  <2> SUFFICES ASSUME NEW u \in Upstream(edges, m) PROVE u \in D
    OBVIOUS
  <2>2. PICK k \in 1..Len(order) : k < j /\ order[k] = u
    BY <2>1 DEF InOrder
  <2>3. k < i
    BY <1>0, <2>1, <2>2
  <2> QED BY <2>2, <2>3
<1>4. dep[n] \subseteq D
  <2> HIDE DEF D
  <2>1. n \in NodeIds
    BY DEF Within
  <2> QED BY <1>2, <1>3, <2>1 DEF IsDependence
<1>5. PICK j \in 1..Len(order) : j < i /\ order[j] = n
  BY <1>4
<1> QED BY <1>1, <1>5 DEF InOrder

\* What the sort returns.
LEMMA SortIsRight ==
  ASSUME NEW nodes, NEW edges, Within(nodes, edges),
         NEW dep, IsDependence(dep, edges)
  PROVE  LET sorted == TopologicalSort(nodes, edges)
         IN /\ sorted \in Sorting
            /\ sorted.cyclic <=> HasCycle(dep, nodes)
            /\ ~sorted.cyclic => InOrder(sorted.order, nodes, edges)
                                 /\ ToSet(sorted.order) = nodes
<1> DEFINE sorted == TopologicalSort(nodes, edges)
           visit == CHOOSE f : IsVisit(f, edges)
           list == SetToSeq(nodes)
<1>1. IsVisit(visit, edges)
  BY VisitExists
<1>2. sorted = VisitAll(visit[{}], Unsorted, list)
  BY DEF TopologicalSort, IsVisit, Visited
<1> HIDE DEF visit, sorted
<1>3. visit[{}] \in Visits /\ VisitsOK(visit[{}], {}, dep, nodes, edges)
  <2>1. {} \in SUBSET NodeIds
    OBVIOUS
  <2> QED BY <1>1, <2>1, AllVisitsOK
<1>4. nodes \in SUBSET NodeIds
  BY DEF Within
<1>5. list \in Seq(nodes) /\ \A x \in nodes : \E k \in 1..Len(list) : list[k] = x
  BY <1>4, AllListed
<1> HIDE DEF list
<1>6. list \in Seq(NodeIds) /\ \A k \in 1..Len(list) : list[k] \in nodes
  BY <1>4, <1>5
<1>7. Unsorted \in Sorting
  BY DEF Unsorted, Sorting
<1>8. Sound(Unsorted, {}, nodes, edges)
  <2>1. Unsorted.order = <<>> /\ Unsorted.cyclic = FALSE
    BY DEF Unsorted
  <2>2. Len(<<>>) = 0 /\ ToSet(<<>>) = {} /\ <<>> \in Seq(NodeIds)
    BY DEF ToSet
  <2> QED BY <2>1, <2>2 DEF Sound, InOrder
<1>9. sorted \in Sorting /\ Advances(Unsorted, sorted, nodes, {}, dep, nodes, edges)
  <2> DEFINE all == visit[{}]
             none == {}
  <2>1. /\ all \in Visits /\ VisitsOK(all, none, dep, nodes, edges)
        /\ Sound(Unsorted, none, nodes, edges)
        /\ nodes \in SUBSET nodes /\ \A v \in none : nodes \subseteq dep[v]
    BY <1>3, <1>8
  <2>2. sorted = VisitAll(all, Unsorted, list)
    BY <1>2
  <2> HIDE DEF all, none
  <2>3. /\ VisitAll(all, Unsorted, list) \in Sorting
        /\ Advances(Unsorted, VisitAll(all, Unsorted, list), nodes, none, dep, nodes, edges)
    BY <1>4, <1>5, <1>6, <1>7, <2>1, ListVisited
  <2> QED BY <2>2, <2>3 DEF none
<1>10. ~sorted.cyclic => InOrder(sorted.order, nodes, edges) /\ ToSet(sorted.order) = nodes
  <2>1. ~sorted.cyclic => InOrder(sorted.order, nodes, edges) /\ nodes \subseteq ToSet(sorted.order)
    BY <1>9 DEF Advances, Sound
  <2>2. InOrder(sorted.order, nodes, edges) => ToSet(sorted.order) \subseteq nodes
    BY DEF InOrder
  <2> QED BY <2>1, <2>2
<1>11. ~sorted.cyclic => ~HasCycle(dep, nodes)
  BY <1>10, InOrderHasNoCycle
<1>12. sorted.cyclic => HasCycle(dep, nodes)
  BY <1>9 DEF Advances
<1>13. sorted.cyclic \in BOOLEAN
  BY <1>9, SortingFields
<1> QED BY <1>9, <1>10, <1>11, <1>12 DEF sorted

-----------------------------------------------------------------------------
\* Dependence, round by round.
Round(edges, A) == A \cup UNION {Upstream(edges, m) : m \in A}

IsSpread(r, edges, n, N) ==
  r = [k \in 0..N |-> IF k = 0 THEN Upstream(edges, n)
                      ELSE r[k - 1] \cup UNION {Upstream(edges, m) : m \in r[k - 1]}]

LEMMA SpreadExists ==
  ASSUME NEW nodes, NEW edges, Within(nodes, edges), NEW n \in NodeIds, NEW N \in Nat
  PROVE  \E r : IsSpread(r, edges, n, N)
<1> DEFINE S == SUBSET NodeIds
           step == [k \in 1..N |-> [A \in S |-> Round(edges, A)]]
           start == Upstream(edges, n)
<1>1. start \in S /\ \A A \in S : Round(edges, A) \in S
  BY DEF Within, Round
<1>2. \A k \in 1..N : \A A \in S : step[k][A] = Round(edges, A)
  <2> HIDE DEF S
  <2> QED OBVIOUS
<1>3. StaysIn(S, step, N)
  BY <1>1, <1>2 DEF StaysIn
<1> HIDE DEF S, step, start
<1>4. PICK r \in [0..N -> S] : Repeats(r, start, step, N)
  BY <1>1, <1>3, RepeatedStep
<1> DEFINE F(k) == IF k = 0 THEN start ELSE Round(edges, r[k - 1])
<1>5. ASSUME NEW k \in 0..N PROVE r[k] = F(k)
  <2>1. k # 0 => k \in 1..N /\ k - 1 \in 0..N
    OBVIOUS
  <2>2. k # 0 => r[k - 1] \in S
    BY <2>1
  <2> QED BY <1>2, <1>4, <2>1, <2>2 DEF Repeats
<1>6. r = [k \in 0..N |-> F(k)]
  <2> HIDE DEF F
  <2> QED BY <1>5
<1> QED BY <1>6 DEF IsSpread, Round, start

LEMMA DependsOn ==
  ASSUME NEW body, Within(DOMAIN body.nodes, body.edges)
  PROVE  IsDependence([n \in NodeIds |-> Depends(body, n)], body.edges)
<1> DEFINE edges == body.edges
           nodes == DOMAIN body.nodes
           C == Cardinality(NodeIds)
<1>0. C \in Nat /\ IsFiniteSet(NodeIds)
  BY DocumentAssumption, FS_CardinalityType
<1> SUFFICES ASSUME NEW n \in NodeIds
             PROVE  /\ Upstream(edges, n) \subseteq Depends(body, n)
                    /\ \A m \in Depends(body, n) : Upstream(edges, m) \subseteq Depends(body, n)
                    /\ \A D : /\ Upstream(edges, n) \subseteq D
                              /\ \A m \in D : Upstream(edges, m) \subseteq D
                              => Depends(body, n) \subseteq D
  BY DEF IsDependence
<1> DEFINE R == CHOOSE r : IsSpread(r, edges, n, C)
           F(k) == IF k = 0 THEN Upstream(edges, n) ELSE Round(edges, R[k - 1])
<1>1. Depends(body, n) = R[C]
  BY DEF Depends, IsSpread
<1>2. IsSpread(R, edges, n, C)
  BY <1>0, SpreadExists
<1> HIDE DEF R, C, edges, nodes
<1>3. R = [k \in 0..C |-> F(k)]
  BY <1>2 DEF IsSpread, Round
<1>4. \A k \in 0..C : R[k] = F(k)
  <2> HIDE DEF F
  <2> QED BY <1>3
<1>5. R[0] = Upstream(edges, n)
  BY <1>0, <1>4
<1>6. ASSUME NEW k \in Nat, k + 1 <= C
      PROVE  k \in 0..C /\ R[k + 1] = Round(edges, R[k])
  <2>1. k \in 0..C /\ k + 1 \in 0..C /\ k + 1 # 0 /\ (k + 1) - 1 = k
    BY <1>0, <1>6
  <2> QED BY <1>4, <2>1
<1>7. \A m \in NodeIds : Upstream(edges, m) \subseteq NodeIds
  BY DEF Within, edges
<1> HIDE DEF F
<1> DEFINE Stable(A) == \A m \in A : Upstream(edges, m) \subseteq A
           I == {k \in Nat : k <= C =>
                   /\ R[k] \in SUBSET NodeIds
                   /\ Upstream(edges, n) \subseteq R[k]
                   /\ Stable(R[k]) \/ Cardinality(R[k]) >= k}
<1>8. 0 \in I
  <2>1. R[0] \in SUBSET NodeIds
    BY <1>5, <1>7
  <2>2. Cardinality(R[0]) \in Nat
    BY <1>0, <2>1, FS_Subset, FS_CardinalityType
  <2> QED BY <1>5, <2>1, <2>2
<1>9. ASSUME NEW k \in Nat, k \in I PROVE k + 1 \in I
  <2> SUFFICES ASSUME k + 1 <= C
               PROVE  /\ R[k + 1] \in SUBSET NodeIds
                      /\ Upstream(edges, n) \subseteq R[k + 1]
                      /\ Stable(R[k + 1]) \/ Cardinality(R[k + 1]) >= k + 1
    OBVIOUS
  <2> DEFINE A == R[k]  B == R[k + 1]
  <2>1. /\ A \in SUBSET NodeIds /\ Upstream(edges, n) \subseteq A
        /\ Stable(A) \/ Cardinality(A) >= k
    BY <1>0, <1>9
  <2>2. B = A \cup UNION {Upstream(edges, m) : m \in A}
    BY <1>6 DEF Round
  <2> HIDE DEF A, B
  <2>3. B \in SUBSET NodeIds /\ A \subseteq B
    BY <1>7, <2>1, <2>2
  <2>4. CASE Stable(A)
    <3>1. B = A
      BY <2>2, <2>4
    <3> QED BY <2>1, <2>3, <2>4, <3>1 DEF B
  <2>5. CASE ~Stable(A)
    <3>1. PICK u \in B : u \notin A
      BY <2>2, <2>5
    <3>2. /\ IsFiniteSet(A) /\ IsFiniteSet(B) /\ IsFiniteSet(A \cup {u})
          /\ A \cup {u} \in SUBSET B
      BY <1>0, <2>1, <2>3, <3>1, FS_Subset
    <3>3. /\ Cardinality(A \cup {u}) = Cardinality(A) + 1
          /\ Cardinality(A) \in Nat /\ Cardinality(B) \in Nat
      BY <3>1, <3>2, FS_AddElement, FS_CardinalityType
    <3>4. Cardinality(A \cup {u}) <= Cardinality(B)
      BY <3>2, FS_Subset
    <3>5. Cardinality(A) >= k
      BY <2>1, <2>5
    <3>6. Cardinality(B) >= k + 1
      BY <3>3, <3>4, <3>5
    <3> QED BY <2>1, <2>3, <3>6 DEF B
  <2> QED BY <2>4, <2>5
<1> HIDE DEF I
<1>10. C \in I
  <2>1. Nat \subseteq I
    BY <1>8, <1>9, NaturalsBelow
  <2> QED BY <1>0, <2>1
<1>11. /\ R[C] \in SUBSET NodeIds /\ Upstream(edges, n) \subseteq R[C]
       /\ Stable(R[C]) \/ Cardinality(R[C]) >= C
  BY <1>0, <1>10 DEF I
<1>12. Stable(R[C])
  <2>1. CASE Cardinality(R[C]) >= C
    <3> DEFINE A == R[C]
    <3>1. Cardinality(A) <= Cardinality(NodeIds) /\ Cardinality(A) \in Nat
          /\ (Cardinality(NodeIds) = Cardinality(A) => NodeIds = A)
      BY <1>0, <1>11, FS_Subset, FS_CardinalityType
    <3>2. A = NodeIds
      BY <1>0, <2>1, <3>1 DEF C
    <3> QED BY <1>7, <3>2
  <2> QED BY <1>11, <2>1
<1>13. ASSUME NEW D, Upstream(edges, n) \subseteq D, Stable(D)
       PROVE  R[C] \subseteq D
  <2> DEFINE J == {k \in Nat : k <= C => R[k] \subseteq D}
  <2>1. 0 \in J
    BY <1>5, <1>13
  <2>2. ASSUME NEW k \in Nat, k \in J PROVE k + 1 \in J
    <3> SUFFICES ASSUME k + 1 <= C PROVE R[k + 1] \subseteq D
      OBVIOUS
    <3>1. R[k] \subseteq D
      BY <1>0, <2>2
    <3>2. R[k + 1] = R[k] \cup UNION {Upstream(edges, m) : m \in R[k]}
      BY <1>6 DEF Round
    <3> QED BY <1>13, <3>1, <3>2
  <2> HIDE DEF J
  <2>3. Nat \subseteq J
    BY <2>1, <2>2, NaturalsBelow
  <2> QED BY <1>0, <2>3 DEF J
<1> QED BY <1>1, <1>11, <1>12, <1>13

\* The statement about one body.
SortedUpstreamFirst(body) ==
  LET sorted == TopologicalSort(DOMAIN body.nodes, body.edges)
      place(n) == CHOOSE k \in DOMAIN sorted.order : sorted.order[k] = n
  IN /\ sorted.cyclic <=> \E n \in DOMAIN body.nodes : n \in Depends(body, n)
     /\ ~sorted.cyclic =>
          /\ ToSet(sorted.order) = DOMAIN body.nodes
          /\ Len(sorted.order) = Cardinality(DOMAIN body.nodes)
          /\ \A n \in DOMAIN body.nodes : \A u \in Upstream(body.edges, n) :
               place(u) < place(n)

LEMMA BodySorted ==
  ASSUME NEW body, Within(DOMAIN body.nodes, body.edges)
  PROVE  SortedUpstreamFirst(body)
<1> DEFINE nodes == DOMAIN body.nodes
           edges == body.edges
           dep == [n \in NodeIds |-> Depends(body, n)]
           sorted == TopologicalSort(nodes, edges)
           order == sorted.order
           place(n) == CHOOSE k \in DOMAIN order : order[k] = n
<1>1. /\ sorted.cyclic <=> HasCycle(dep, nodes)
      /\ ~sorted.cyclic => InOrder(order, nodes, edges) /\ ToSet(order) = nodes
  <2>1. Within(nodes, edges) /\ IsDependence(dep, edges)
    BY DependsOn
  <2> HIDE DEF nodes, edges, dep
  <2> QED BY <2>1, SortIsRight
<1>2. HasCycle(dep, nodes) <=> \E n \in nodes : n \in Depends(body, n)
  BY DEF HasCycle, Within
<1> HIDE DEF sorted
<1>3. ASSUME ~sorted.cyclic
      PROVE  /\ Len(order) = Cardinality(nodes)
             /\ \A n \in nodes : \A u \in Upstream(edges, n) : place(u) < place(n)
  <2> HIDE DEF order
  <2>1. /\ InOrder(order, nodes, edges) /\ ToSet(order) = nodes
    BY <1>1, <1>3
  <2> DEFINE N == Len(order)
  <2>2. N \in Nat /\ DOMAIN order = 1..N /\ IsFiniteSet(1..N) /\ Cardinality(1..N) = N
    BY <2>1, CountedTo DEF InOrder
  <2>3. /\ \A i, j \in 1..N : i < j => order[i] # order[j]
        /\ \A i \in 1..N : \A u \in Upstream(edges, order[i]) :
             \E j \in 1..N : j < i /\ order[j] = u
    BY <2>1 DEF InOrder
  <2>4. \A i, j \in 1..N : order[i] = order[j] => i = j
    BY <2>2, <2>3
  <2>5. /\ \A i \in 1..N : order[i] \in nodes
        /\ \A n \in nodes : \E i \in 1..N : order[i] = n
    BY <2>1, <2>2 DEF ToSet
  <2>6. order \in [1..N -> nodes]
    BY <2>1, <2>2, <2>5 DEF InOrder
  <2> HIDE DEF N, nodes, edges
  <2>7. order \in Surjection(1..N, nodes) /\ order \in Injection(1..N, nodes)
    BY <2>4, <2>5, <2>6 DEF Injection, Surjection, IsInjective
  <2>8. N = Cardinality(nodes)
    BY <2>2, <2>7, FS_Surjection
  <2>9. ASSUME NEW n \in nodes, NEW u \in Upstream(edges, n)
        PROVE  place(u) < place(n)
    <3>1. PICK i \in 1..N : order[i] = n
      BY <2>5
    <3>2. PICK j \in 1..N : j < i /\ order[j] = u
      BY <2>3, <2>9, <3>1
    <3>3. place(n) = i
      BY <2>2, <2>4, <3>1
    <3>4. place(u) = j
      BY <2>2, <2>4, <3>2
    <3> QED BY <3>2, <3>3, <3>4
  <2> QED BY <2>8, <2>9 DEF N
<1>4. /\ sorted.cyclic <=> \E n \in nodes : n \in Depends(body, n)
      /\ ~sorted.cyclic => /\ ToSet(order) = nodes
                           /\ Len(order) = Cardinality(nodes)
                           /\ \A n \in nodes : \A u \in Upstream(edges, n) : place(u) < place(n)
  BY <1>1, <1>2, <1>3
<1> QED BY <1>4 DEF SortedUpstreamFirst, sorted

LEMMA EdgesAreWithin ==
  ASSUME NEW body, Shaped(body), EdgesValid(body)
  PROVE  Within(DOMAIN body.nodes, body.edges)
BY DEF Shaped, EdgesValid, Within, Upstream

\* What any call would make of the stored document has the shape of one.
LEMMA ProposedShapes ==
  ASSUME IInv, StoredOK, NEW i \in Slots, Outcome(graph.body, calls[i].batch) # NONE
  PROVE  Shaped(Outcome(graph.body, calls[i].batch))
<1> DEFINE batch == calls[i].batch
<1>1. batch \in Batches \cup {Undoing}
  BY DEF IInv, CallsOK
<1>2. Len(batch) \in Nat /\ \A k \in 1..Len(batch) : IsCommand(batch[k])
  <2>1. CASE batch \in Batches
    BY <2>1, DocumentAssumption
  <2>2. CASE batch = Undoing
    <3>1. Len(batch) = 0
      BY <2>2 DEF Undoing
    <3> QED BY <3>1
  <2> QED BY <1>1, <2>1, <2>2
<1> HIDE DEF batch
<1>3. Outcome(graph.body, batch) # NONE /\ Shaped(graph.body)
  BY DEF StoredOK, Good, batch
<1>4. Shaped(Outcome(graph.body, batch))
  BY <1>2, <1>3, BatchKeeps
<1> QED BY <1>4 DEF batch

\* Graph.topologicalSort() puts every node of a document, once, after all that
\* it depends on, and refuses exactly the documents with a cycle: for every
\* document that is stored or that a call under way would make of it, over any
\* finite set of nodes and in whatever order nodes and edges are listed.
THEOREM SortIsTopological == Spec => []SortsUpstreamFirst
<1>1. IInv /\ StoredOK /\ [Next]_vars => StoredOK'
  BY StepOfDesk, StoredStep
<1>2. ASSUME IInv, StoredOK PROVE SortsUpstreamFirst
  <2> DEFINE Bodies == {graph.body} \cup
               {Outcome(graph.body, calls[i].batch) :
                  i \in {j \in Slots : calls[j].phase = "sent"}}
  <2>1. ASSUME NEW body \in Bodies, body # NONE, NodesValid(body), EdgesValid(body)
        PROVE  SortedUpstreamFirst(body)
    <3>1. Shaped(body)
      BY <1>2, <2>1, ProposedShapes DEF StoredOK, Good
    <3> QED BY <2>1, <3>1, EdgesAreWithin, BodySorted
  <2>2. (\A body \in Bodies : body # NONE /\ NodesValid(body) /\ EdgesValid(body)
           => SortedUpstreamFirst(body)) => SortsUpstreamFirst
    BY DEF SortsUpstreamFirst, SortedUpstreamFirst
  <2> QED BY <2>1, <2>2
<1> QED BY <1>1, <1>2, StoredInit, Invariant, PTL DEF Spec
=============================================================================
