-------------------------- MODULE AgentCoordinator --------------------------
(***************************************************************************)
(* createAgentCoordinator (agent-coordinator.ts): what becomes a turn of   *)
(* the bound Eve session.  Requests are delegated or steered; the session  *)
(* answers send(), cancel() and deliver() whenever it likes, and works for *)
(* other surfaces in between.                                              *)
(*                                                                         *)
(* JavaScript runs each stretch between two awaits without interruption,   *)
(* so such a stretch is one action.  A request that rejectionFor() refuses *)
(* changes nothing and is left out: Delegations are the well-formed ones.  *)
(* How a turn ended (succeeded, failed, cancelled) decides nothing here.   *)
(***************************************************************************)
EXTENDS Naturals, Sequences, Optional

CONSTANTS
  Delegations,   \* (sessionId, delegationId) keys of well-formed requests
  Capacity,      \* bounds.queueCapacity
  Memory,        \* bounds.idempotencyMemory
  OtherTurns,    \* bound: turns that other surfaces start on the session
  Overlap        \* may a steer be called while another has not returned?

ASSUME CoordinatorAssumption ==
  /\ Capacity \in Nat \ {0}
  /\ Memory \in Nat
  /\ OtherTurns \in Nat
  /\ Overlap \in BOOLEAN
  /\ NONE \notin Delegations

VARIABLES
  queue,      \* requests that wait for the session
  dropped,    \* requests discarded to overflow
  admitted,   \* remembered keys, oldest first
  inFlight,   \* the request whose send() is unsettled
  steers,     \* how far the steer of each request has got
  awaits,     \* the turn whose settlement a draining steer waits for
  steering,   \* the flag that holds the queue back
  settled,    \* requests whose turn has settled
  elsewhere,  \* what the session does for other surfaces
  others,     \* how many turns other surfaces have started
  waiting     \* somebody waits on whenIdle()

vars == <<queue, dropped, admitted, inFlight, steers, awaits, steering,
          settled, elsewhere, others, waiting>>

InSeq(s) == {s[i] : i \in 1..Len(s)}

TypeOK ==
  /\ queue \in Seq(Delegations)
  /\ dropped \subseteq Delegations
  /\ admitted \in Seq(Delegations)
  /\ inFlight \in Or(Delegations)
  /\ steers \in [Delegations -> {"no", "cancelling", "draining", "delivering"}]
  /\ awaits \in [Delegations -> Or(Delegations)]
  /\ steering \in BOOLEAN
  /\ settled \subseteq Delegations
  /\ elsewhere \in {"quiet", "working", "unannounced"}
  /\ others \in 0..OtherTurns
  /\ waiting \in BOOLEAN

Delivering == {d \in Delegations : steers[d] = "delivering"}

\* isBusy(): the session works, whoever asked for it.
Busy == elsewhere = "working" \/ inFlight # NONE \/ Delivering # {}

\* remember(): the oldest key is forgotten when the memory is full.
Remembered(d) ==
  LET keys == Append(admitted, d)
  IN  IF Len(keys) > Memory THEN Tail(keys) ELSE keys

\* refuse(): a key in memory is a replay and gets no further.
Admit(d) == d \notin InSeq(admitted) /\ admitted' = Remembered(d)

\* pump(), with q queued and `flight` in flight: it starts the head of the
\* queue when nothing runs or steers and the session is free, and tells the
\* waiters when there is nothing left to start.
Pump(q, flight) ==
  LET starts == /\ flight = NONE /\ ~steering' /\ q # <<>>
                /\ elsewhere' # "working" /\ Delivering' = {}
  IN  /\ inFlight' = IF starts THEN Head(q) ELSE flight
      /\ queue' = IF starts THEN Tail(q) ELSE q
      /\ waiting' = (waiting /\ (flight # NONE \/ steering' \/ q # <<>>))

\* enqueue(): at capacity the oldest is dropped, in sight of the user.
Enqueue(d) ==
  LET full == Len(queue) >= Capacity
  IN  /\ queue' = Append(IF full THEN Tail(queue) ELSE queue, d)
      /\ dropped' = dropped \cup {x \in InSeq(queue) : full /\ x = Head(queue)}

\* dispatch(): start now, or queue.
Dispatch(d) ==
  IF inFlight # NONE \/ steering \/ Busy \/ queue # <<>>
    THEN Enqueue(d) /\ UNCHANGED inFlight
    ELSE inFlight' = d /\ UNCHANGED <<queue, dropped>>

\* delegate(), and steer() when no turn has been observed.
Delegate(d) ==
  /\ Admit(d)
  /\ Dispatch(d)
  /\ UNCHANGED <<steers, awaits, steering, settled, elsewhere, others, waiting>>

\* steer() of an observed turn, up to its first await.  The turn may be
\* any the session has run, also one that is over: cancel() then is a no-op.
Steer(d) ==
  /\ Busy \/ settled # {} \/ others > 0
  /\ Overlap \/ ~steering
  /\ steers[d] = "no"
  /\ Admit(d)
  /\ steering' = TRUE
  /\ steers' = [steers EXCEPT ![d] = "cancelling"]
  /\ UNCHANGED <<queue, dropped, inFlight, awaits, settled, elsewhere, others,
                 waiting>>

\* cancel() is acknowledged: what is left to wait for is the promise of the
\* turn in flight, if it has not settled by now.
CancelAccepted(d) ==
  /\ steers[d] = "cancelling"
  /\ steers' = [steers EXCEPT ![d] = "draining"]
  /\ awaits' = [awaits EXCEPT ![d] = inFlight]
  /\ UNCHANGED <<queue, dropped, admitted, inFlight, steering, settled,
                 elsewhere, others, waiting>>

\* Mutant: the catch of cancel() only lowers the flag.
CancelForgotten(d) ==
  /\ steers[d] = "cancelling"
  /\ steers' = [steers EXCEPT ![d] = "no"]
  /\ steering' = FALSE
  /\ UNCHANGED <<dropped, admitted, awaits, settled, elsewhere, others>>
  /\ Pump(queue, inFlight)

\* cancel() fails: the replacement goes to the head of the queue.
CancelRefused(d) ==
  /\ steers[d] = "cancelling"
  /\ steers' = [steers EXCEPT ![d] = "no"]
  /\ steering' = FALSE
  /\ UNCHANGED <<dropped, admitted, awaits, settled, elsewhere, others>>
  /\ Pump(<<d>> \o queue, inFlight)

\* Mutant: an acknowledged cancel is taken for the end of the turn.
DeliverAtOnce(d) ==
  /\ steers[d] = "draining"
  /\ steers' = [steers EXCEPT ![d] = "delivering"]
  /\ awaits' = [awaits EXCEPT ![d] = NONE]
  /\ UNCHANGED <<queue, dropped, admitted, inFlight, steering, settled,
                 elsewhere, others, waiting>>

\* The awaited turn has settled: the replacement is delivered.
Deliver(d) ==
  /\ steers[d] = "draining"
  /\ awaits[d] = NONE \/ awaits[d] # inFlight
  /\ steers' = [steers EXCEPT ![d] = "delivering"]
  /\ awaits' = [awaits EXCEPT ![d] = NONE]
  /\ UNCHANGED <<queue, dropped, admitted, inFlight, steering, settled,
                 elsewhere, others, waiting>>

\* deliver() settles, and steer() returns.
Delivered(d) ==
  /\ steers[d] = "delivering"
  /\ steers' = [steers EXCEPT ![d] = "no"]
  /\ settled' = settled \cup {d}
  /\ steering' = FALSE
  /\ UNCHANGED <<dropped, admitted, awaits, elsewhere, others>>
  /\ Pump(queue, inFlight)

\* Mutant: runTurn() does not pump when its send() has settled.
TurnEndsUnpumped ==
  /\ inFlight # NONE
  /\ settled' = settled \cup {inFlight}
  /\ inFlight' = NONE
  /\ UNCHANGED <<queue, dropped, admitted, steers, awaits, steering, elsewhere,
                 others, waiting>>

\* runTurn() after its send() has settled.
TurnEnds ==
  /\ inFlight # NONE
  /\ settled' = settled \cup {inFlight}
  /\ UNCHANGED <<dropped, admitted, steers, awaits, steering, elsewhere, others>>
  /\ Pump(queue, NONE)

\* notifySessionIdle(): pump() by another name.
NotifyIdle ==
  /\ elsewhere' = IF elsewhere = "unannounced" THEN "quiet" ELSE elsewhere
  /\ UNCHANGED <<dropped, admitted, steers, awaits, steering, settled, others>>
  /\ Pump(queue, inFlight)

\* whenIdle() resolves at once, or waits.
WhenIdle ==
  /\ waiting' = (waiting \/ inFlight # NONE \/ steering \/ queue # <<>>)
  /\ UNCHANGED <<queue, dropped, admitted, inFlight, steers, awaits, steering,
                 settled, elsewhere, others>>

\* Another surface starts a turn on the session, and its turn ends; the host
\* owes the coordinator a notifySessionIdle() for that.
OtherStarts ==
  /\ elsewhere # "working" /\ others < OtherTurns
  /\ elsewhere' = "working" /\ others' = others + 1
  /\ UNCHANGED <<queue, dropped, admitted, inFlight, steers, awaits, steering,
                 settled, waiting>>

OtherEnds ==
  /\ elsewhere = "working" /\ elsewhere' = "unannounced"
  /\ UNCHANGED <<queue, dropped, admitted, inFlight, steers, awaits, steering,
                 settled, others, waiting>>

Init ==
  /\ queue = <<>> /\ dropped = {} /\ admitted = <<>> /\ inFlight = NONE
  /\ steers = [d \in Delegations |-> "no"]
  /\ awaits = [d \in Delegations |-> NONE]
  /\ steering = FALSE /\ settled = {}
  /\ elsewhere = "quiet" /\ others = 0 /\ waiting = FALSE

Next ==
  \/ \E d \in Delegations :
       \/ Delegate(d) \/ Steer(d)
       \/ CancelAccepted(d) \/ CancelRefused(d) \/ Deliver(d) \/ Delivered(d)
  \/ TurnEnds \/ NotifyIdle \/ WhenIdle \/ OtherStarts \/ OtherEnds

\* The port's contract: send() and deliver() settle, cancel() answers; the
\* host's: a turn of another surface ends and is announced.  Nothing else is:
\* the coordinator's own turns drain by themselves.
Fairness ==
  /\ \A d \in Delegations :
       /\ WF_vars(CancelAccepted(d) \/ CancelRefused(d))
       /\ WF_vars(Deliver(d)) /\ WF_vars(Delivered(d))
  /\ WF_vars(TurnEnds) /\ WF_vars(OtherEnds)
  /\ WF_vars(NotifyIdle /\ elsewhere = "unannounced")

Spec == Init /\ [][Next]_vars /\ Fairness

-----------------------------------------------------------------------------
\* Properties.

\* The requests that wait, those that run, and where each of them stands.
Waits == InSeq(queue) \cup
         {d \in Delegations : steers[d] \in {"cancelling", "draining"}}
Runs == Delivering \cup (Delegations \cap {inFlight})
StageOf(d) ==
  IF d \in Waits THEN "waiting"
  ELSE IF d \in Runs THEN "running"
  ELSE IF d \in dropped THEN "dropped"
  ELSE IF d \in settled THEN "settled"
  ELSE "new"

\* Invariant 3 of the source ("Never a concurrent send"): the session never
\* runs two turns of this coordinator at a time, whether the queue, a
\* delegate() or a steer() started them.
OneTurnAtATime ==
  \A d, e \in Runs : d = e

Desk == INSTANCE TurnDesk WITH
  Requests <- Delegations, stage <- [d \in Delegations |-> StageOf(d)]

\* The coordinator is a turn desk: no request gets a second turn, none is
\* lost between the queue, a steer and the session, none is dropped but for a
\* newer one (invariants 1 to 3 of the source).
ImplementsDesk == Desk!Spec

\* Nothing strands a request: it is answered or dropped once the session
\* keeps its contract ("the queue keeps draining").
EveryRequestEnds ==
  \A d \in Delegations : d \in InSeq(admitted) ~> d \in settled \cup dropped

\* Who waits for the coordinator to be idle is told when it is.
IdleIsTold == waiting ~> ~waiting
=============================================================================
