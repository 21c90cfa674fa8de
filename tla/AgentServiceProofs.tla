------------------------- MODULE AgentServiceProofs -------------------------
(***************************************************************************)
(* Proofs about the two parts of the agent service that share one session  *)
(* or one microphone among many callers.                                   *)
(*                                                                         *)
(* What holds of the coordinator for every set of requests, every queue    *)
(* capacity and any number of turns of other surfaces, when one steer      *)
(* returns before the next is called and no key is forgotten.              *)
(*                                                                         *)
(* What holds of the realtime voice host for any numbers of owners and     *)
(* clients: no process is stranded, the slot holds one call, it implements *)
(* the abstract slot, and, when the SDK settles the calls of a disposed    *)
(* client promptly, a live call ends only by a request of its owner.       *)
(***************************************************************************)
EXTENDS AgentCoordinator, RealtimeVoice, FiniteSetTheorems, TLAPS

-----------------------------------------------------------------------------
\* The coordinator.

Injective(s) == \A i, j \in 1..Len(s) : s[i] = s[j] => i = j

\* A sequence grows at its end by one element.
LEMMA AppendTo ==
  ASSUME NEW S, NEW s \in Seq(S), NEW x \in S
  PROVE  /\ Append(s, x) \in Seq(S)
         /\ InSeq(Append(s, x)) = InSeq(s) \cup {x}
         /\ Injective(s) /\ x \notin InSeq(s) => Injective(Append(s, x))
  BY DEF InSeq, Injective

\* A sequence loses its head.
LEMMA TailOf ==
  ASSUME NEW S, NEW s \in Seq(S), s # <<>>
  PROVE  /\ Tail(s) \in Seq(S) /\ Head(s) \in S /\ Head(s) \in InSeq(s)
         /\ InSeq(Tail(s)) \subseteq InSeq(s)
         /\ InSeq(s) = InSeq(Tail(s)) \cup {Head(s)}
         /\ Injective(s) => Injective(Tail(s)) /\ Head(s) \notin InSeq(Tail(s))
  <1>1. Len(s) \in Nat \ {0} /\ Head(s) = s[1]
    OBVIOUS
  <1>2. /\ Tail(s) \in Seq(S) /\ Len(Tail(s)) = Len(s) - 1
        /\ \A i \in 1..Len(Tail(s)) : Tail(s)[i] = s[i + 1]
    OBVIOUS
  <1>3. InSeq(Tail(s)) \subseteq InSeq(s)
    BY <1>1, <1>2 DEF InSeq
  <1>4. InSeq(s) = InSeq(Tail(s)) \cup {Head(s)}
    <2>1. ASSUME NEW i \in 1..Len(s) PROVE s[i] \in InSeq(Tail(s)) \cup {Head(s)}
      <3>1. CASE i = 1 BY <3>1, <1>1
      <3>2. CASE i # 1
        <4>1. i - 1 \in 1..Len(Tail(s)) /\ Tail(s)[i - 1] = s[i]
          BY <3>2, <1>1, <1>2
        <4> QED BY <4>1 DEF InSeq
      <3> QED BY <3>1, <3>2
    <2>2. Head(s) \in InSeq(s)
      BY <1>1 DEF InSeq
    <2> QED BY <2>1, <2>2, <1>3 DEF InSeq
  <1>5. Injective(s) => Injective(Tail(s)) /\ Head(s) \notin InSeq(Tail(s))
    BY <1>1, <1>2 DEF InSeq, Injective
  <1> QED BY <1>1, <1>2, <1>3, <1>4, <1>5 DEF InSeq

\* A sequence grows at its head by one element.
LEMMA PutFirst ==
  ASSUME NEW S, NEW s \in Seq(S), NEW x \in S
  PROVE  /\ <<x>> \o s \in Seq(S) /\ <<x>> \o s # <<>>
         /\ InSeq(<<x>> \o s) = InSeq(s) \cup {x}
         /\ Injective(s) /\ x \notin InSeq(s) => Injective(<<x>> \o s)
  <1> DEFINE t == <<x>> \o s
  <1>1. /\ t \in Seq(S) /\ Len(t) = Len(s) + 1 /\ t[1] = x
        /\ \A i \in 1..Len(s) : t[i + 1] = s[i]
    OBVIOUS
  <1>2. \A i \in 1..Len(t) : i = 1 \/ (i - 1 \in 1..Len(s) /\ t[i] = s[i - 1])
    BY <1>1
  <1> HIDE DEF t
  <1>3. InSeq(t) = InSeq(s) \cup {x}
    <2>1. ASSUME NEW i \in 1..Len(t) PROVE t[i] \in InSeq(s) \cup {x}
      BY <1>1, <1>2 DEF InSeq
    <2>2. x \in InSeq(t)
      BY <1>1 DEF InSeq
    <2>3. ASSUME NEW i \in 1..Len(s) PROVE s[i] \in InSeq(t)
      <3>1. i + 1 \in 1..Len(t) /\ t[i + 1] = s[i]
        BY <1>1
      <3> QED BY <3>1 DEF InSeq
    <2> QED BY <2>1, <2>2, <2>3 DEF InSeq
  <1>4. Injective(s) /\ x \notin InSeq(s) => Injective(t)
    <2> SUFFICES ASSUME Injective(s), x \notin InSeq(s),
                        NEW i \in 1..Len(t), NEW j \in 1..Len(t), t[i] = t[j]
                 PROVE  i = j
      BY DEF Injective
    <2>1. \A k \in 1..Len(s) : s[k] # x
      BY DEF InSeq
    <2>2. CASE i = 1 \/ j = 1
      BY <2>1, <2>2, <1>1, <1>2
    <2>3. CASE i # 1 /\ j # 1
      <3>1. i - 1 \in 1..Len(s) /\ j - 1 \in 1..Len(s) /\ s[i - 1] = s[j - 1]
        BY <2>3, <1>2
      <3>2. i - 1 = j - 1
        BY <3>1 DEF Injective
      <3> QED BY <3>2, <1>1
    <2> QED BY <2>2, <2>3
  <1> QED BY <1>1, <1>3, <1>4 DEF t

-----------------------------------------------------------------------------
\* The inductive invariant: at most one steer is under way, it holds the flag,
\* and what it waits for is the turn in flight, if there is one.
Steered ==
  /\ \A d \in Delegations : steers[d] # "no" => steering
  /\ \A d, e \in Delegations : steers[d] # "no" /\ steers[e] # "no" => d = e
  /\ \A d \in Delegations :
       /\ steers[d] = "delivering" => inFlight = NONE
       /\ steers[d] = "draining" => inFlight \in {awaits[d], NONE}

OneSteer == TypeOK /\ Steered

\* What pump() may do.
LEMMA PumpStarts ==
  ASSUME NEW q \in Seq(Delegations), NEW flight \in Or(Delegations),
         Pump(q, flight)
  PROVE  \/ queue' = q /\ inFlight' = flight
         \/ /\ flight = NONE /\ ~steering' /\ Delivering' = {} /\ q # <<>>
            /\ inFlight' = Head(q) /\ queue' = Tail(q)
  BY DEF Pump

LEMMA PumpTypes ==
  ASSUME NEW q \in Seq(Delegations), NEW flight \in Or(Delegations),
         waiting \in BOOLEAN, steering' \in BOOLEAN, Pump(q, flight)
  PROVE  /\ queue' \in Seq(Delegations) /\ inFlight' \in Or(Delegations)
         /\ waiting' \in BOOLEAN
  <1>1. waiting' \in BOOLEAN
    BY DEF Pump
  <1> QED BY PumpStarts, TailOf, <1>1 DEF Or

\* Dispatch starts a turn only when nothing runs or steers.
LEMMA DispatchStarts ==
  ASSUME TypeOK, NEW d \in Delegations, Dispatch(d)
  PROVE  /\ queue' \in Seq(Delegations) /\ dropped' \subseteq Delegations
         /\ inFlight' \in Or(Delegations)
         /\ inFlight' # inFlight => inFlight = NONE /\ ~steering
  <1>1. CASE Enqueue(d) /\ UNCHANGED inFlight
    <2>1. queue # <<>> => Tail(queue) \in Seq(Delegations)
      BY DEF TypeOK
    <2>2. Len(queue) >= Capacity => queue # <<>>
      BY CoordinatorAssumption DEF TypeOK
    <2>3. InSeq(queue) \subseteq Delegations
      BY DEF TypeOK, InSeq
    <2>4. dropped' \subseteq Delegations
      BY <1>1, <2>3 DEF Enqueue, TypeOK
    <2>5. queue' \in Seq(Delegations)
      <3>1. CASE Len(queue) >= Capacity
        <4>1. queue' = Append(Tail(queue), d)
          BY <1>1, <3>1 DEF Enqueue
        <4> QED BY <4>1, <3>1, <2>1, <2>2, AppendTo
      <3>2. CASE ~(Len(queue) >= Capacity)
        <4>1. queue' = Append(queue, d)
          BY <1>1, <3>2 DEF Enqueue
        <4> QED BY <4>1, AppendTo DEF TypeOK
      <3> QED BY <3>1, <3>2
    <2> QED BY <1>1, <2>4, <2>5 DEF TypeOK
  <1>2. CASE ~(inFlight # NONE \/ steering \/ Busy \/ queue # <<>>)
             /\ inFlight' = d /\ UNCHANGED <<queue, dropped>>
    BY <1>2 DEF TypeOK, Or
  <1> QED BY <1>1, <1>2 DEF Dispatch

LEMMA RememberedType ==
  ASSUME TypeOK, NEW d \in Delegations
  PROVE  Remembered(d) \in Seq(Delegations)
  <1>1. Append(admitted, d) \in Seq(Delegations) /\ Append(admitted, d) # <<>>
    BY DEF TypeOK
  <1> QED BY <1>1, TailOf DEF Remembered

LEMMA InitOneSteer == Init => OneSteer
  <1> SUFFICES ASSUME Init PROVE OneSteer
    OBVIOUS
  <1>1. <<>> \in Seq(Delegations)
    OBVIOUS
  <1>2. TypeOK
    <2>1. /\ queue \in Seq(Delegations) /\ admitted \in Seq(Delegations)
          /\ inFlight \in Or(Delegations)
          /\ dropped \subseteq Delegations /\ settled \subseteq Delegations
      BY <1>1 DEF Init, Or
    <2>2. /\ steers \in [Delegations ->
                          {"no", "cancelling", "draining", "delivering"}]
          /\ awaits \in [Delegations -> Or(Delegations)]
      BY DEF Init, Or
    <2>3. steering \in BOOLEAN /\ waiting \in BOOLEAN
      BY Zenon DEF Init
    <2>4. elsewhere \in {"quiet", "working", "unannounced"}
      BY DEF Init
    <2>5. others \in 0..OtherTurns
      BY CoordinatorAssumption DEF Init
    <2> QED BY <2>1, <2>2, <2>3, <2>4, <2>5 DEF TypeOK
  <1>3. Steered
    BY DEF Init, Steered
  <1> QED BY <1>2, <1>3 DEF OneSteer

LEMMA StepOneSteer ==
  ASSUME ~Overlap, OneSteer, [Next]_vars
  PROVE  OneSteer'
  <1> USE DEF OneSteer
  <1>1. ASSUME NEW d \in Delegations, Delegate(d) PROVE OneSteer'
    <2>1. Dispatch(d) /\ admitted' = Remembered(d)
      BY <1>1 DEF Delegate, Admit
    <2>2. TypeOK'
      BY <1>1, <2>1, DispatchStarts, RememberedType DEF Delegate, TypeOK
    <2>3. Steered'
      BY <1>1, <2>1, DispatchStarts DEF Delegate, Steered
    <2> QED BY <2>2, <2>3
  <1>2. ASSUME NEW d \in Delegations, Steer(d) PROVE OneSteer'
    <2>1. TypeOK'
      BY <1>2, RememberedType DEF Steer, Admit, TypeOK
    <2>2. ~steering /\ \A e \in Delegations : steers[e] = "no"
      BY <1>2 DEF Steer, Steered
    <2>3. Steered'
      BY <1>2, <2>2 DEF Steer, Steered, TypeOK
    <2> QED BY <2>1, <2>3
  <1>3. ASSUME NEW d \in Delegations, CancelAccepted(d) PROVE OneSteer'
    BY <1>3 DEF CancelAccepted, TypeOK, Steered
  <1>4. ASSUME NEW d \in Delegations, CancelRefused(d) PROVE OneSteer'
    <2>1. <<d>> \o queue \in Seq(Delegations)
      BY PutFirst DEF TypeOK
    <2>2. TypeOK'
      BY <1>4, <2>1, PumpTypes DEF CancelRefused, TypeOK
    <2>3. \A e \in Delegations : steers'[e] = "no"
      BY <1>4 DEF CancelRefused, Steered, TypeOK
    <2> QED BY <2>2, <2>3 DEF Steered
  <1>5. ASSUME NEW d \in Delegations, Deliver(d) PROVE OneSteer'
    BY <1>5 DEF Deliver, TypeOK, Steered, Or
  <1>6. ASSUME NEW d \in Delegations, Delivered(d) PROVE OneSteer'
    <2>1. TypeOK'
      BY <1>6, PumpTypes DEF Delivered, TypeOK
    <2>2. \A e \in Delegations : steers'[e] = "no"
      BY <1>6 DEF Delivered, Steered, TypeOK
    <2> QED BY <2>1, <2>2 DEF Steered
  <1>7. CASE TurnEnds
    <2>1. NONE \in Or(Delegations) /\ settled' \subseteq Delegations
      BY <1>7 DEF Or, TurnEnds, TypeOK
    <2>2. TypeOK'
      BY <1>7, <2>1, PumpTypes DEF TurnEnds, TypeOK
    <2>3. steering => inFlight' = NONE
      BY <1>7, <2>1, PumpStarts DEF TurnEnds, TypeOK
    <2>4. Steered'
      BY <1>7, <2>3 DEF TurnEnds, Steered
    <2> QED BY <2>2, <2>4
  <1>8. CASE NotifyIdle
    <2>1. TypeOK'
      BY <1>8, PumpTypes DEF NotifyIdle, TypeOK
    <2>2. steering => inFlight' = inFlight
      BY <1>8, PumpStarts DEF NotifyIdle, TypeOK
    <2>3. Steered'
      BY <1>8, <2>2 DEF NotifyIdle, Steered
    <2> QED BY <2>1, <2>3
  <1>9. CASE WhenIdle
    BY <1>9 DEF WhenIdle, TypeOK, Steered
  <1>10. CASE OtherStarts
    BY <1>10, CoordinatorAssumption DEF OtherStarts, TypeOK, Steered
  <1>11. CASE OtherEnds
    BY <1>11 DEF OtherEnds, TypeOK, Steered
  <1>12. CASE UNCHANGED vars
    BY <1>12 DEF vars, TypeOK, Steered
  <1> QED
    BY <1>1, <1>2, <1>3, <1>4, <1>5, <1>6, <1>7, <1>8, <1>9, <1>10, <1>11,
       <1>12 DEF Next

LEMMA OneSteerRunsOne == OneSteer => OneTurnAtATime
  BY CoordinatorAssumption
  DEF OneSteer, TypeOK, Steered, OneTurnAtATime, Runs, Delivering

\* When a steer returns before the next is called, the session never runs two
\* turns of the coordinator at a time (invariant 3 of agent-coordinator.ts),
\* however its answers, the queue and other surfaces interleave.
THEOREM NeverAConcurrentSend ==
  ASSUME ~Overlap
  PROVE  Spec => []OneTurnAtATime
  <1>1. Init => OneSteer
    BY InitOneSteer
  <1>2. OneSteer /\ [Next]_vars => OneSteer'
    BY StepOneSteer
  <1>3. OneSteer => OneTurnAtATime
    BY OneSteerRunsOne
  <1> QED BY <1>1, <1>2, <1>3, PTL DEF Spec
-----------------------------------------------------------------------------
\* The bookkeeping that makes the coordinator a turn desk: a request is in one
\* place at a time, and everywhere it may be its key is remembered.
Books ==
  /\ Injective(queue) /\ Injective(admitted) /\ Len(admitted) <= Memory
  /\ InSeq(queue) \cap Runs = {} /\ Waits \cap Runs = {}
  /\ (Waits \cup Runs) \cap (dropped \cup settled) = {}
  /\ dropped \cap settled = {}
  /\ \A d \in InSeq(queue) : steers[d] = "no"
  /\ Waits \cup Runs \cup dropped \cup settled \subseteq InSeq(admitted)

Enough == IsFiniteSet(Delegations) /\ Memory >= Cardinality(Delegations)

\* With room for every key, remembering one more forgets none.
LEMMA NothingForgotten ==
  ASSUME Enough, TypeOK, Injective(admitted), NEW d \in Delegations, Admit(d)
  PROVE  /\ admitted' \in Seq(Delegations) /\ Injective(admitted')
         /\ Len(admitted') <= Memory
         /\ InSeq(admitted') = InSeq(admitted) \cup {d}
  <1> DEFINE keys == Append(admitted, d)
             n == Len(keys)
             f == [i \in 1..n |-> keys[i]]
  <1>1. /\ keys \in Seq(Delegations) /\ Injective(keys)
        /\ InSeq(keys) = InSeq(admitted) \cup {d}
    BY AppendTo DEF Admit, TypeOK
  <1>2. n \in Nat
    BY <1>1
  <1>3. f \in [1..n -> Delegations]
    BY <1>1
  <1>4. f \in Injection(1..n, Delegations)
    BY <1>1, <1>3 DEF Injection, IsInjective, Injective
  <1>5. IsFiniteSet(1..n) /\ Cardinality(1..n) = n
    BY <1>2, FS_Interval
  <1>6. n <= Cardinality(Delegations)
    BY <1>4, <1>5, FS_Injection DEF Enough
  <1>7. Cardinality(Delegations) \in Nat
    BY FS_CardinalityType DEF Enough
  <1>8. n <= Memory /\ admitted' = keys
    BY <1>2, <1>6, <1>7, CoordinatorAssumption DEF Enough, Admit, Remembered
  <1> QED BY <1>1, <1>8

\* One step of a desk, told by the sets it moves requests between.
DeskStep ==
  /\ Waits' \cap Runs' = {}
  /\ (Waits' \cup Runs') \cap (dropped' \cup settled') = {}
  /\ dropped' \cap settled' = {}
  /\ settled \subseteq settled' /\ settled' \subseteq settled \cup Runs
  /\ dropped \subseteq dropped' /\ dropped' \subseteq dropped \cup Waits
  /\ Waits \subseteq Waits' \cup Runs' \cup dropped'
  /\ Runs \subseteq Runs' \cup settled'
  /\ Waits' \cap Runs = {}
  /\ OneTurnAtATime'
  /\ dropped' # dropped => \E d \in Delegations :
       /\ d \notin Waits \cup Runs \cup dropped \cup settled
       /\ d \in Waits'

LEMMA DeskStepIsNext ==
  ASSUME TypeOK, TypeOK', Books, DeskStep
  PROVE  Desk!Next
  <1> DEFINE st == [d \in Delegations |-> StageOf(d)]
             su == [d \in Delegations |-> StageOf(d)']
  <1>1. ASSUME NEW d \in Delegations
        PROVE  st[d] = StageOf(d) /\ su[d] = StageOf(d)'
    OBVIOUS
  <1>2. su \in [Delegations -> Desk!Stages]
    BY DEF StageOf, Desk!Stages
  <1>3. ASSUME NEW d \in Delegations
        PROVE  su[d] = st[d] \/ <<st[d], su[d]>> \in Desk!Moves
    BY DEF DeskStep, Books, StageOf, Desk!Moves
  <1>4. \A d, e \in {r \in Delegations : su[r] = "running"} : d = e
    BY DEF DeskStep, StageOf, OneTurnAtATime
  <1>5. ASSUME NEW d \in Delegations, st[d] # "dropped", su[d] = "dropped"
        PROVE  \E e \in Delegations : st[e] = "new" /\ su[e] = "waiting"
    <2>1. d \in dropped' /\ d \notin dropped
      BY <1>5 DEF StageOf, Books
    <2>2. PICK e \in Delegations :
            /\ e \notin Waits \cup Runs \cup dropped \cup settled
            /\ e \in Waits'
      BY <2>1 DEF DeskStep
    <2> QED BY <2>2 DEF StageOf
  <1> QED BY <1>2, <1>3, <1>4, <1>5
       DEF Desk!Next, Desk!OneRunning, Desk!Running, Desk!DropsForANewerOne

\* What an overflow does to the queue.
LEMMA EnqueueSets ==
  ASSUME TypeOK, Injective(queue), NEW d \in Delegations, d \notin InSeq(queue),
         Enqueue(d)
  PROVE  /\ Injective(queue')
         /\ \/ dropped' = dropped /\ InSeq(queue') = InSeq(queue) \cup {d}
            \/ \E h \in InSeq(queue) :
                 /\ dropped' = dropped \cup {h}
                 /\ InSeq(queue') = (InSeq(queue) \ {h}) \cup {d}
  <1>1. CASE Len(queue) >= Capacity
    <2>1. queue # <<>>
      BY <1>1, CoordinatorAssumption DEF TypeOK
    <2>2. queue' = Append(Tail(queue), d)
      BY <1>1 DEF Enqueue
    <2>3. /\ Tail(queue) \in Seq(Delegations) /\ Injective(Tail(queue))
          /\ Head(queue) \in InSeq(queue)
          /\ InSeq(Tail(queue)) = InSeq(queue) \ {Head(queue)}
      BY <2>1, TailOf DEF TypeOK
    <2>4. Injective(queue') /\ InSeq(queue') = InSeq(Tail(queue)) \cup {d}
      BY <2>2, <2>3, AppendTo
    <2>5. dropped' = dropped \cup {Head(queue)}
      BY <1>1, <2>3 DEF Enqueue
    <2> QED BY <2>3, <2>4, <2>5
  <1>2. CASE ~(Len(queue) >= Capacity)
    <2>1. queue' = Append(queue, d) /\ dropped' = dropped
      BY <1>2 DEF Enqueue
    <2> QED BY <2>1, AppendTo DEF TypeOK
  <1> QED BY <1>1, <1>2

\* What a pump over queue q does to the places of the requests.
LEMMA PumpSets ==
  ASSUME NEW q \in Seq(Delegations), NEW flight \in Or(Delegations),
         Injective(q), Pump(q, flight)
  PROVE  /\ Injective(queue')
         /\ \/ InSeq(queue') = InSeq(q) /\ inFlight' = flight
            \/ /\ flight = NONE /\ ~steering' /\ Delivering' = {}
               /\ inFlight' \in InSeq(q)
               /\ InSeq(queue') = InSeq(q) \ {inFlight'}
  <1>1. CASE queue' = q /\ inFlight' = flight
    BY <1>1
  <1>2. CASE /\ flight = NONE /\ ~steering' /\ Delivering' = {} /\ q # <<>>
             /\ inFlight' = Head(q) /\ queue' = Tail(q)
    <2>1. /\ Injective(Tail(q)) /\ Head(q) \in InSeq(q)
          /\ InSeq(Tail(q)) = InSeq(q) \ {Head(q)}
      BY <1>2, TailOf
    <2> QED BY <1>2, <2>1
  <1> QED BY <1>1, <1>2, PumpStarts

LEMMA InitBooks == Init => Books
  <1> SUFFICES ASSUME Init PROVE Books
    OBVIOUS
  <1>1. InSeq(<<>>) = {} /\ Injective(<<>>) /\ Len(<<>>) = 0
    BY DEF InSeq, Injective
  <1>2. Waits = {}
    BY <1>1 DEF Init, Waits
  <1>3. Runs = {}
    BY CoordinatorAssumption DEF Init, Runs, Delivering
  <1> QED BY <1>1, <1>2, <1>3, CoordinatorAssumption DEF Init, Books

LEMMA StepBooks ==
  ASSUME ~Overlap, Enough, OneSteer, Books, [Next]_vars
  PROVE  Books' /\ DeskStep
  <1> USE DEF OneSteer
  <1>0. OneSteer' /\ OneTurnAtATime'
    <2>1. OneSteer'
      BY StepOneSteer
    <2> QED BY <2>1, OneSteerRunsOne, PTL
  <1>1. ASSUME NEW d \in Delegations, Delegate(d) PROVE Books' /\ DeskStep
    <2>1. Admit(d) /\ Dispatch(d) /\ UNCHANGED <<steers, settled>>
      BY <1>1 DEF Delegate
    <2>2. /\ Injective(admitted') /\ Len(admitted') <= Memory
          /\ InSeq(admitted') = InSeq(admitted) \cup {d}
      BY <2>1, NothingForgotten DEF Books
    <2>3. d \notin Waits \cup Runs \cup dropped \cup settled
      BY <2>1 DEF Admit, Books
    <2>4. steers[d] = "no"
      BY <2>3 DEF Waits, Runs, Delivering, TypeOK
    <2>5. CASE Enqueue(d) /\ UNCHANGED inFlight
      <3>1. Runs' = Runs
        BY <2>1, <2>5 DEF Runs, Delivering
      <3>2. d \notin InSeq(queue)
        BY <2>3 DEF Waits
      <3>3. CASE dropped' = dropped /\ InSeq(queue') = InSeq(queue) \cup {d}
        <4>1. Waits' = Waits \cup {d}
          BY <2>1, <3>3 DEF Waits
        <4> QED BY <1>0, <2>1, <2>2, <2>3, <2>4, <2>5, <3>1, <3>2, <3>3, <4>1,
                   EnqueueSets DEF Books, DeskStep
      <3>4. ASSUME NEW h \in InSeq(queue), dropped' = dropped \cup {h},
                   InSeq(queue') = (InSeq(queue) \ {h}) \cup {d}
            PROVE  Books' /\ DeskStep
        <4>1. steers[h] = "no"
          BY DEF Books
        <4>2. Waits' = (Waits \ {h}) \cup {d} /\ h \in Waits
          BY <2>1, <3>4, <4>1 DEF Waits
        <4> QED BY <1>0, <2>1, <2>2, <2>3, <2>4, <2>5, <3>1, <3>2, <3>4, <4>2,
                   EnqueueSets DEF Books, DeskStep
      <3> QED BY <2>5, <3>2, <3>3, <3>4, EnqueueSets DEF Books
    <2>6. CASE /\ ~(inFlight # NONE \/ steering \/ Busy \/ queue # <<>>)
               /\ inFlight' = d /\ UNCHANGED <<queue, dropped>>
      <3>1. Delivering = {} /\ inFlight = NONE /\ queue' = queue /\ inFlight' = d
        BY <2>6 DEF Busy
      <3>2. Delivering' = {} /\ Waits' = Waits
        BY <2>1, <3>1 DEF Waits, Delivering
      <3>3. Runs = {} /\ Runs' = {d}
        BY <3>1, <3>2, CoordinatorAssumption DEF Runs
      <3>4. /\ Injective(queue') /\ InSeq(queue') \subseteq Waits
            /\ \A e \in InSeq(queue') : steers'[e] = "no"
        BY <2>1, <3>1 DEF Books, Waits
      <3> QED BY <1>0, <2>1, <2>2, <2>3, <2>6, <3>1, <3>2, <3>3, <3>4
              DEF Books, DeskStep
    <2> QED BY <2>1, <2>5, <2>6 DEF Dispatch
  <1>2. ASSUME NEW d \in Delegations, Steer(d) PROVE Books' /\ DeskStep
    <2>1. Admit(d) /\ UNCHANGED <<queue, dropped, inFlight, settled>>
      BY <1>2 DEF Steer
    <2>2. /\ Injective(admitted') /\ Len(admitted') <= Memory
          /\ InSeq(admitted') = InSeq(admitted) \cup {d}
      BY <2>1, NothingForgotten DEF Books
    <2>3. d \notin Waits \cup Runs \cup dropped \cup settled
      BY <2>1 DEF Admit, Books
    <2>4. Waits' = Waits \cup {d} /\ Runs' = Runs
      BY <1>2 DEF Steer, Waits, Runs, Delivering, TypeOK
    <2>5. \A e \in InSeq(queue) : steers'[e] = "no"
      BY <1>2, <2>3 DEF Steer, Waits, Books, TypeOK
    <2> QED BY <1>0, <2>1, <2>2, <2>3, <2>4, <2>5 DEF Books, DeskStep
  <1>3. ASSUME NEW d \in Delegations, CancelAccepted(d) PROVE Books' /\ DeskStep
    <2>1. Waits' = Waits /\ Runs' = Runs
      BY <1>3 DEF CancelAccepted, Waits, Runs, Delivering, TypeOK
    <2>2. \A e \in InSeq(queue) : steers'[e] = "no"
      BY <1>3 DEF CancelAccepted, Books, TypeOK
    <2> QED BY <1>0, <1>3, <2>1, <2>2 DEF CancelAccepted, Books, DeskStep
  <1>4. ASSUME NEW d \in Delegations, CancelRefused(d) PROVE Books' /\ DeskStep
    <2> DEFINE q == <<d>> \o queue
    <2>1. d \in Waits /\ d \notin InSeq(queue)
      BY <1>4 DEF CancelRefused, Waits, Books
    <2>2. q \in Seq(Delegations) /\ Injective(q) /\ InSeq(q) = InSeq(queue) \cup {d}
      BY <2>1, PutFirst DEF Books, TypeOK
    <2>3. /\ Pump(q, inFlight) /\ UNCHANGED <<dropped, admitted, settled>>
          /\ steers' = [steers EXCEPT ![d] = "no"]
      BY <1>4 DEF CancelRefused
    <2> HIDE DEF q
    <2>4. \A e \in Delegations : steers'[e] = "no"
      BY <1>4, <2>3 DEF CancelRefused, Steered, TypeOK
    <2>5. /\ InSeq(queue) \subseteq Delegations
          /\ Waits = InSeq(queue) \cup {d} /\ Delivering = {} /\ Delivering' = {}
      BY <1>4, <2>4 DEF CancelRefused, Waits, Delivering, Steered, TypeOK, InSeq
    <2>6. Injective(queue') /\ Waits' = InSeq(queue')
      BY <2>2, <2>3, <2>4, PumpSets DEF Waits, TypeOK
    <2>7. CASE InSeq(queue') = InSeq(q) /\ inFlight' = inFlight
      <3>1. Waits' = Waits /\ Runs' = Runs
        BY <2>2, <2>5, <2>6, <2>7 DEF Runs
      <3> QED BY <1>0, <2>2, <2>3, <2>4, <2>5, <2>6, <2>7, <3>1
              DEF Books, DeskStep
    <2>8. CASE /\ inFlight = NONE /\ inFlight' \in InSeq(q)
               /\ InSeq(queue') = InSeq(q) \ {inFlight'}
      <3>1. inFlight' \in Waits /\ Runs = {} /\ Runs' = {inFlight'}
        BY <2>2, <2>5, <2>8, CoordinatorAssumption DEF Runs
      <3>2. Waits' = Waits \ {inFlight'}
        BY <2>2, <2>5, <2>6, <2>8
      <3> QED BY <1>0, <2>2, <2>3, <2>4, <2>5, <2>6, <2>8, <3>1, <3>2
              DEF Books, DeskStep
    <2> QED BY <2>2, <2>3, <2>7, <2>8, PumpSets DEF TypeOK

  <1>5. ASSUME NEW d \in Delegations, Deliver(d) PROVE Books' /\ DeskStep
    <2>1. /\ UNCHANGED <<queue, dropped, admitted, inFlight, settled>>
          /\ steers[d] = "draining"
          /\ steers' = [steers EXCEPT ![d] = "delivering"]
      BY <1>5 DEF Deliver
    <2>2. inFlight = NONE /\ Delivering = {} /\ Runs = {}
      BY <1>5, CoordinatorAssumption DEF Deliver, Steered, Delivering, Runs
    <2>3. d \notin InSeq(queue) /\ d \in Waits
      BY <2>1 DEF Books, Waits
    <2>4. Waits' = Waits \ {d} /\ Runs' = {d}
      BY <2>1, <2>2, <2>3, CoordinatorAssumption
      DEF Waits, Runs, Delivering, TypeOK
    <2>5. \A e \in InSeq(queue) : steers'[e] = "no"
      BY <2>1, <2>3 DEF Books, TypeOK
    <2> QED BY <1>0, <2>1, <2>2, <2>3, <2>4, <2>5 DEF Books, DeskStep
  <1>6. ASSUME NEW d \in Delegations, Delivered(d) PROVE Books' /\ DeskStep
    <2>1. /\ Pump(queue, inFlight) /\ UNCHANGED <<dropped, admitted>>
          /\ settled' = settled \cup {d} /\ steers[d] = "delivering"
          /\ steers' = [steers EXCEPT ![d] = "no"]
      BY <1>6 DEF Delivered
    <2>2. \A e \in Delegations : steers'[e] = "no"
      BY <2>1 DEF Steered, TypeOK
    <2>3. /\ inFlight = NONE /\ Runs = {d} /\ Delivering' = {}
          /\ Waits = InSeq(queue) /\ InSeq(queue) \subseteq Delegations
      BY <2>1, <2>2, CoordinatorAssumption
      DEF Steered, Delivering, Runs, Waits, TypeOK, InSeq
    <2>4. Waits' = InSeq(queue')
      BY <2>2 DEF Waits
    <2>5. Injective(queue')
      BY <2>1, PumpSets DEF Books, TypeOK
    <2>6. CASE InSeq(queue') = InSeq(queue) /\ inFlight' = inFlight
      <3>1. Waits' = Waits /\ Runs' = {}
        BY <2>3, <2>4, <2>6, CoordinatorAssumption DEF Runs
      <3> QED BY <1>0, <2>1, <2>2, <2>3, <2>4, <2>5, <2>6, <3>1
              DEF Books, DeskStep
    <2>7. CASE /\ inFlight' \in InSeq(queue)
               /\ InSeq(queue') = InSeq(queue) \ {inFlight'}
      <3>1. /\ inFlight' \in Waits /\ Runs' = {inFlight'}
            /\ Waits' = Waits \ {inFlight'}
        BY <2>3, <2>4, <2>7 DEF Runs
      <3> QED BY <1>0, <2>1, <2>2, <2>3, <2>4, <2>5, <2>7, <3>1
              DEF Books, DeskStep
    <2> QED BY <2>1, <2>6, <2>7, PumpSets DEF Books, TypeOK
  <1>7. CASE TurnEnds
    <2>1. /\ Pump(queue, NONE) /\ UNCHANGED <<dropped, admitted, steers, steering>>
          /\ settled' = settled \cup {inFlight} /\ inFlight \in Delegations
          /\ NONE \in Or(Delegations)
      BY <1>7 DEF TurnEnds, TypeOK, Or
    <2>2. Delivering = {} /\ Delivering' = {} /\ Runs = {inFlight}
      BY <2>1, CoordinatorAssumption DEF Steered, Delivering, Runs
    <2>3. Injective(queue')
      BY <2>1, PumpSets DEF Books, TypeOK
    <2>4. CASE InSeq(queue') = InSeq(queue) /\ inFlight' = NONE
      <3>1. Waits' = Waits /\ Runs' = {}
        BY <2>1, <2>2, <2>4, CoordinatorAssumption DEF Runs, Waits
      <3> QED BY <1>0, <2>1, <2>2, <2>3, <2>4, <3>1 DEF Books, DeskStep
    <2>5. CASE /\ ~steering' /\ inFlight' \in InSeq(queue)
               /\ InSeq(queue') = InSeq(queue) \ {inFlight'}
      <3>1. \A e \in Delegations : steers[e] = "no"
        BY <2>1, <2>5 DEF Steered
      <3>2. /\ Waits = InSeq(queue) /\ Waits' = InSeq(queue')
            /\ InSeq(queue) \subseteq Delegations
        BY <2>1, <3>1 DEF Waits, TypeOK, InSeq
      <3>3. /\ inFlight' \in Waits /\ Runs' = {inFlight'}
            /\ Waits' = Waits \ {inFlight'}
        BY <2>2, <2>5, <3>2 DEF Runs
      <3> QED BY <1>0, <2>1, <2>2, <2>3, <2>5, <3>1, <3>2, <3>3
              DEF Books, DeskStep
    <2> QED BY <2>1, <2>4, <2>5, PumpSets DEF Books, TypeOK
  <1>8. CASE NotifyIdle
    <2>1. /\ Pump(queue, inFlight)
          /\ UNCHANGED <<dropped, admitted, steers, steering, settled>>
      BY <1>8 DEF NotifyIdle
    <2>2. Delivering' = Delivering
      BY <2>1 DEF Delivering
    <2>3. Injective(queue')
      BY <2>1, PumpSets DEF Books, TypeOK
    <2>4. CASE InSeq(queue') = InSeq(queue) /\ inFlight' = inFlight
      <3>1. Waits' = Waits /\ Runs' = Runs
        BY <2>1, <2>2, <2>4 DEF Runs, Waits
      <3> QED BY <1>0, <2>1, <2>2, <2>3, <2>4, <3>1 DEF Books, DeskStep
    <2>5. CASE /\ inFlight = NONE /\ ~steering' /\ inFlight' \in InSeq(queue)
               /\ InSeq(queue') = InSeq(queue) \ {inFlight'}
      <3>1. \A e \in Delegations : steers[e] = "no"
        BY <2>1, <2>5 DEF Steered
      <3>2. /\ Waits = InSeq(queue) /\ Waits' = InSeq(queue')
            /\ InSeq(queue) \subseteq Delegations
        BY <2>1, <3>1 DEF Waits, TypeOK, InSeq
      <3>3. /\ inFlight' \in Waits /\ Runs = {} /\ Runs' = {inFlight'}
            /\ Waits' = Waits \ {inFlight'}
        BY <2>2, <2>5, <3>1, <3>2, CoordinatorAssumption DEF Runs, Delivering
      <3> QED BY <1>0, <2>1, <2>2, <2>3, <2>5, <3>1,
                 <3>2, <3>3 DEF Books, DeskStep
    <2> QED BY <2>1, <2>4, <2>5, PumpSets DEF Books, TypeOK
  <1>9. CASE UNCHANGED <<queue, dropped, admitted, inFlight, steers, settled>>
    <2>1. Waits' = Waits /\ Runs' = Runs
      BY <1>9 DEF Waits, Runs, Delivering
    <2> QED BY <1>0, <1>9, <2>1 DEF Books, DeskStep
  <1>10. WhenIdle \/ OtherStarts \/ OtherEnds \/ UNCHANGED vars =>
           UNCHANGED <<queue, dropped, admitted, inFlight, steers, settled>>
    BY DEF WhenIdle, OtherStarts, OtherEnds, vars
  <1> QED
    BY <1>1, <1>2, <1>3, <1>4, <1>5, <1>6, <1>7, <1>8, <1>9, <1>10 DEF Next

LEMMA InitDesk == Init => Desk!Init
  <1> SUFFICES ASSUME Init PROVE Desk!Init
    OBVIOUS
  <1>1. InSeq(<<>>) = {}
    BY DEF InSeq
  <1>2. Waits = {} /\ Runs = {}
    BY <1>1, CoordinatorAssumption DEF Init, Waits, Runs, Delivering
  <1> QED BY <1>2 DEF Init, Desk!Init, StageOf

\* When one steer returns before the next is called and no key is forgotten,
\* the coordinator implements the turn desk: each request gets one turn or is
\* dropped for a newer one, nothing is lost and nothing runs twice.
THEOREM CoordinatorIsATurnDesk ==
  ASSUME ~Overlap, Enough
  PROVE  Spec => ImplementsDesk
  <1>1. Init => OneSteer /\ Books
    BY InitOneSteer, InitBooks
  <1>2. (OneSteer /\ Books) /\ [Next]_vars => (OneSteer /\ Books)'
    BY StepOneSteer, StepBooks
  <1>3. Init => Desk!Init
    BY InitDesk
  <1>4. (OneSteer /\ Books) /\ (OneSteer /\ Books)' /\ [Next]_vars
          => [Desk!Next]_([d \in Delegations |-> StageOf(d)])
    BY StepBooks, DeskStepIsNext DEF OneSteer
  <1> QED BY <1>1, <1>2, <1>3, <1>4, PTL DEF Spec, ImplementsDesk, Desk!Spec

-----------------------------------------------------------------------------
\* The realtime voice host.

\* Clients that were never created run nothing and fill no slot.
Created ==
  \A c \in Clients :
    owner[c] = NONE => c \notin alive \cup starting \cup {live, pending}

\* A published client has settled its start().
Settled == live # NONE => live \notin starting

\* A stop() waits only on the call that is live, if disposal settles it.
StopsAreLive ==
  Prompt => \A c \in Clients : stops[c] > 0 => live = c

HostInv == HostTypeOK /\ NoStranded /\ OneCall /\ Created /\ Settled
       /\ StopsAreLive

\* What each step may do to the live call and to the abstract slot.
Faithful ==
  /\ Prompt => \A c \in Clients : live = c /\ live' # c =>
       stops[c] > 0 \/ (pending' # NONE /\ owner'[pending'] = owner[c])
  /\ [Slot!SlotNext]_<<Holder, Mode>>

LEMMA HostInitInv == HostInit => HostInv
BY VoiceAssumption
   DEF HostInit, HostInv, HostTypeOK, NoStranded, OneCall, Created, Settled,
       StopsAreLive, Or

LEMMA StartInv ==
  ASSUME HostInv, NEW o \in Owners, NEW c \in Clients, Start(o, c)
  PROVE  HostInv' /\ Faithful
<1> USE VoiceAssumption
<1>1. HostTypeOK'
  BY DEF HostInv, HostTypeOK, Start, Or
<1>2. NoStranded' /\ OneCall' /\ Created' /\ Settled'
  BY DEF HostInv, HostTypeOK, NoStranded, OneCall, Created, Settled, Start, Or
<1>3. StopsAreLive'
  BY DEF HostInv, HostTypeOK, StopsAreLive, Start, Or
<1>4. \A d \in Clients : live = d /\ live' # d => owner'[pending'] = owner[d]
  BY DEF HostInv, HostTypeOK, Created, Start, Holder, Or
<1>5. [Slot!SlotNext]_<<Holder, Mode>>
  <2>1. Holder' = o /\ Mode' = "connecting" /\ Holder \in {o, NONE}
    BY DEF HostInv, HostTypeOK, Start, Holder, Mode, Or
  <2>2. Slot!Take(o)
    BY <2>1 DEF Slot!Take
  <2> QED BY <2>2 DEF Slot!SlotNext
<1>6. pending' # NONE
  BY DEF Start
<1> QED BY <1>1, <1>2, <1>3, <1>4, <1>5, <1>6 DEF HostInv, Faithful

LEMMA StartResolvesInv ==
  ASSUME HostInv, NEW c \in Clients, StartResolves(c)
  PROVE  HostInv' /\ Faithful
<1> USE VoiceAssumption
<1>1. CASE pending = c
  <2>1. HostInv'
    BY <1>1 DEF HostInv, HostTypeOK, NoStranded, OneCall, Created,
       StopsAreLive, Settled, StartResolves, Or <2>2. live = NONE /\ pending #
       NONE /\ live' = c /\ c # NONE BY <1>1 DEF HostInv, OneCall,
       StartResolves <2>3. Slot!Publish BY <1>1, <2>2 DEF Slot!Publish, Holder,
       Mode, StartResolves <2> QED BY <2>1, <2>2, <2>3 DEF Faithful,
       Slot!SlotNext
<1>2. CASE pending # c
  <2>1. /\ starting' = starting \ {c} /\ alive' = alive \ {c}
        /\ stops' = [d \in Clients |->
                       IF Prompt /\ d \in {c} THEN 0 ELSE stops[d]]
        /\ UNCHANGED <<live, pending, owner>>
    BY <1>2 DEF StartResolves, Dispose <2>2. live # c BY DEF HostInv, Settled,
       StartResolves <2>3. HostInv' BY <1>2, <2>1, <2>2 DEF HostInv,
       HostTypeOK, NoStranded, OneCall, Created, StopsAreLive, Settled, Or <2>
       QED BY <2>1, <2>3 DEF Faithful, Holder, Mode
<1> QED BY <1>1, <1>2

LEMMA StartFailsInv ==
  ASSUME HostInv, NEW c \in Clients, StartFails(c)
  PROVE  HostInv' /\ Faithful
<1> USE VoiceAssumption
<1>1. /\ starting' = starting \ {c} /\ alive' = alive \ {c}
      /\ stops' = [d \in Clients |->
                     IF Prompt /\ d \in {c} THEN 0 ELSE stops[d]]
      /\ pending' = IF pending = c THEN NONE ELSE pending
      /\ UNCHANGED <<live, owner>>
  BY DEF StartFails, Dispose
<1>2. live # c
  BY DEF HostInv, Settled, StartFails
<1>3. HostInv'
  BY <1>1, <1>2 DEF HostInv, HostTypeOK, NoStranded, OneCall, Created,
     StopsAreLive, Settled, Or
<1>4. CASE pending = c
  <2>1. Slot!Release
    BY <1>1, <1>4 DEF HostInv, OneCall, Slot!Release, Holder, Mode
  <2> QED BY <1>1, <1>3, <2>1 DEF Faithful, Slot!SlotNext
<1>5. CASE pending # c
  BY <1>1, <1>3, <1>5 DEF Faithful, Holder, Mode
<1> QED BY <1>4, <1>5

LEMMA CancelPendingInv ==
  ASSUME HostInv, NEW o \in Owners, CancelPending(o)
  PROVE  HostInv' /\ Faithful
<1> USE VoiceAssumption
<1>1. /\ pending # NONE /\ pending' = NONE /\ alive' = alive \ {pending}
      /\ stops' = [d \in Clients |->
                     IF Prompt /\ d \in {pending} THEN 0 ELSE stops[d]]
      /\ UNCHANGED <<live, owner, starting>>
  BY DEF CancelPending, NegotiatedBy, Dispose
<1>2. HostInv'
  BY <1>1 DEF HostInv, HostTypeOK, NoStranded, OneCall, Created, StopsAreLive,
     Settled, Or
<1>3. Slot!Release
  BY <1>1 DEF HostInv, OneCall, Slot!Release, Holder, Mode
<1> QED BY <1>1, <1>2, <1>3 DEF Faithful, Slot!SlotNext

LEMMA StopLiveInv ==
  ASSUME HostInv, NEW o \in Owners, StopLive(o)
  PROVE  HostInv' /\ Faithful
<1> USE VoiceAssumption
<1>1. live \in Clients /\ UNCHANGED <<live, pending, owner, starting, alive>>
  BY DEF HostInv, HostTypeOK, StopLive, Or
<1>2. /\ stops' \in [Clients -> 0..MaxStops]
      /\ \A c \in Clients \ {live} : stops'[c] = stops[c]
  BY <1>1 DEF HostInv, HostTypeOK, StopLive
<1>3. HostInv'
  BY <1>1, <1>2 DEF HostInv, HostTypeOK, NoStranded, OneCall, Created,
     StopsAreLive, Settled
<1> QED BY <1>1, <1>3 DEF Faithful, Holder, Mode

LEMMA StopSettlesInv ==
  ASSUME HostInv, NEW c \in Clients, StopSettles(c)
  PROVE  HostInv' /\ Faithful
<1> USE VoiceAssumption
<1>1. /\ stops[c] > 0 /\ live' = NONE /\ alive' = alive \ {live}
      /\ stops' = [d \in Clients |->
           IF Prompt /\ d = live THEN 0
           ELSE IF d = c THEN stops[d] - 1 ELSE stops[d]]
      /\ UNCHANGED <<pending, owner, starting>>
  BY DEF StopSettles
<1>2. stops' \in [Clients -> 0..MaxStops]
  BY <1>1 DEF HostInv, HostTypeOK
<1>3. NoStranded' /\ OneCall' /\ Created' /\ Settled'
  BY <1>1 DEF HostInv, NoStranded, OneCall, Created, Settled
<1>4. StopsAreLive'
  BY <1>1 DEF HostInv, HostTypeOK, StopsAreLive
<1>5. HostTypeOK'
  BY <1>1, <1>2 DEF HostInv, HostTypeOK, Or
<1>6. CASE live = NONE
  BY <1>1, <1>3, <1>4, <1>5, <1>6 DEF HostInv, Faithful, Holder, Mode
<1>7. CASE live # NONE
  <2>1. Slot!Release
    BY <1>1, <1>7 DEF HostInv, OneCall, Slot!Release, Holder, Mode
  <2>2. Prompt => live = c
    BY <1>1 DEF HostInv, StopsAreLive
  <2> QED BY <1>1, <1>3, <1>4, <1>5, <2>1, <2>2
          DEF HostInv, Faithful, Slot!SlotNext
<1> QED BY <1>6, <1>7

LEMMA HostNextInv == HostInv /\ [HostNext]_hostVars => HostInv' /\ Faithful
<1>1. ASSUME HostInv, UNCHANGED hostVars PROVE HostInv' /\ Faithful
  BY <1>1 DEF hostVars, HostInv, HostTypeOK, NoStranded, OneCall, Created,
     StopsAreLive, Settled, Faithful, Holder, Mode
<1> QED BY <1>1, StartInv, StartResolvesInv, StartFailsInv, CancelPendingInv,
           StopLiveInv, StopSettlesInv DEF HostNext

LEMMA HostInvHolds == HostSpec => []HostInv
BY HostInitInv, HostNextInv, PTL DEF HostSpec

\* Every running codex process is in the slot or awaited by its own start().
THEOREM NeverStranded == HostSpec => []NoStranded
<1>1. HostInv => NoStranded
  BY DEF HostInv
<1> QED BY <1>1, HostInvHolds, PTL

\* The slot holds one call at most, negotiating or published, and it runs.
THEOREM AlwaysOneCall == HostSpec => []OneCall
<1>1. HostInv => OneCall
  BY DEF HostInv
<1> QED BY <1>1, HostInvHolds, PTL

\* The host implements the abstract slot, however late the SDK answers.
THEOREM HostImplementsSlot == HostSpec => ImplementsSlot
<1>1. HostInit => Slot!SlotInit
  BY DEF HostInit, Slot!SlotInit, Holder, Mode
<1>2. HostInv /\ [HostNext]_hostVars => [Slot!SlotNext]_<<Holder, Mode>>
  BY HostNextInv DEF Faithful
<1> QED BY <1>1, <1>2, HostInvHolds, PTL
        DEF HostSpec, ImplementsSlot, Slot!SlotSpec, Slot!svars

\* If the SDK settles the calls of a disposed client at once, no stop() and
\* no start() ends a live call but its owner's.
THEOREM CallsEndByOwner ==
  ASSUME Prompt
  PROVE  HostSpec => EndedByOwner
<1>1. HostInv /\ [HostNext]_hostVars =>
        [\A c \in Clients : live = c /\ live' # c =>
           \/ stops[c] > 0
           \/ pending' # NONE /\ owner'[pending'] = owner[c]]_hostVars
  BY HostNextInv DEF Faithful
<1> QED BY <1>1, HostInvHolds, PTL DEF HostSpec, EndedByOwner
=============================================================================
