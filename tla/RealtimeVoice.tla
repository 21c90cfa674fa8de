---------------------------- MODULE RealtimeVoice ----------------------------
(***************************************************************************)
(* RealtimeVoiceHost of the agent service: at most one live voice call per *)
(* host, owned by (application thread, principal), with a codex process    *)
(* behind it.  start() and stop() suspend on the client in the middle, so  *)
(* requests interleave there; every stretch between two awaits is one      *)
(* action.  The client is the SDK's: it settles a call whenever it likes.  *)
(***************************************************************************)
EXTENDS Naturals, Optional

CONSTANTS
  Owners,    \* (application thread, principal) pairs that passed both proofs
  Clients,   \* one per start(): a codex process and its connection
  MaxStops,  \* bound: stop() calls waiting on one client
  Prompt     \* external: dispose() settles the pending calls of a client
             \* before the event loop turns to anything else

ASSUME VoiceAssumption ==
  MaxStops \in Nat /\ Prompt \in BOOLEAN /\ NONE \notin Owners \cup Clients

VARIABLES
  live,      \* #live: the client of the published call
  pending,   \* #pending: the client of the negotiation in flight
  owner,     \* whom each client was created for
  starting,  \* clients whose start() call has not settled
  alive,     \* clients created and not disposed
  stops      \* stop() calls waiting for client.stop() to settle

hostVars == <<live, pending, owner, starting, alive, stops>>

HostTypeOK ==
  /\ live \in Or(Clients)
  /\ pending \in Or(Clients)
  /\ owner \in [Clients -> Or(Owners)]
  /\ starting \in SUBSET Clients
  /\ alive \in SUBSET Clients
  /\ stops \in [Clients -> 0..MaxStops]

-----------------------------------------------------------------------------
\* Mutant: the conflict check looks at the published call alone.
LiveHolder == IF live # NONE THEN owner[live] ELSE NONE

\* Mutant: the conflict check looks at the negotiation alone.
PendingHolder == IF pending # NONE THEN owner[pending] ELSE NONE

Holder ==
  IF live # NONE THEN owner[live]
  ELSE IF pending # NONE THEN owner[pending] ELSE NONE

\* client.dispose() on a set of clients (idempotent).
Dispose(cs) ==
  /\ alive' = alive \ cs
  /\ stops' = [c \in Clients |-> IF Prompt /\ c \in cs THEN 0 ELSE stops[c]]

\* start() up to its await: a renegotiation by the holder disposes its
\* published call; a negotiation of its own that is still pending is only
\* displaced from the slot.
Start(o, c) ==
  /\ owner[c] = NONE
  /\ Holder \in {o, NONE}
  /\ live' = NONE
  /\ alive' = (alive \ {live}) \cup {c}
  /\ stops' = [d \in Clients |-> IF Prompt /\ d = live THEN 0 ELSE stops[d]]
  /\ pending' = c
  /\ owner' = [owner EXCEPT ![c] = o]
  /\ starting' = starting \cup {c}

\* Mutant: a session that comes up too late is left running.
StartResolvesOrphan(c) ==
  /\ c \in starting
  /\ starting' = starting \ {c}
  /\ live' = IF pending = c THEN c ELSE live
  /\ pending' = IF pending = c THEN NONE ELSE pending
  /\ UNCHANGED <<owner, alive, stops>>

\* client.start() resolves: published if the slot is still its own.
StartResolves(c) ==
  /\ c \in starting
  /\ starting' = starting \ {c}
  /\ IF pending = c
       THEN live' = c /\ pending' = NONE /\ UNCHANGED <<alive, stops>>
       ELSE Dispose({c}) /\ UNCHANGED <<live, pending>>
  /\ UNCHANGED owner

\* Mutant: a failed start leaves its child behind.
StartFailsLeaking(c) ==
  /\ c \in starting
  /\ starting' = starting \ {c}
  /\ pending' = IF pending = c THEN NONE ELSE pending
  /\ UNCHANGED <<live, owner, alive, stops>>

\* client.start() rejects.
StartFails(c) ==
  /\ c \in starting
  /\ starting' = starting \ {c}
  /\ Dispose({c})
  /\ pending' = IF pending = c THEN NONE ELSE pending
  /\ UNCHANGED <<live, owner>>

NegotiatedBy(o) == pending # NONE /\ owner[pending] = o

\* stop() of a negotiation: the slot is cleared, the process killed.
CancelPending(o) ==
  /\ NegotiatedBy(o)
  /\ Dispose({pending})
  /\ pending' = NONE
  /\ UNCHANGED <<live, owner, starting>>

\* stop() of the live call, up to its await.
StopLive(o) ==
  /\ ~NegotiatedBy(o)
  /\ live # NONE /\ owner[live] = o
  /\ stops[live] < MaxStops
  /\ stops' = [stops EXCEPT ![live] = @ + 1]
  /\ UNCHANGED <<live, pending, owner, starting, alive>>

\* client.stop() settles, well or badly: finally, whatever is live now is
\* disposed of.
StopSettles(c) ==
  /\ stops[c] > 0
  /\ live' = NONE
  /\ alive' = alive \ {live}
  /\ stops' = [d \in Clients |->
       IF Prompt /\ d = live THEN 0
       ELSE IF d = c THEN stops[d] - 1 ELSE stops[d]]
  /\ UNCHANGED <<pending, owner, starting>>

HostInit ==
  /\ live = NONE /\ pending = NONE
  /\ owner = [c \in Clients |-> NONE]
  /\ starting = {} /\ alive = {}
  /\ stops = [c \in Clients |-> 0]

HostNext ==
  \/ \E o \in Owners :
       (\E c \in Clients : Start(o, c)) \/ CancelPending(o) \/ StopLive(o)
  \/ \E c \in Clients : StartResolves(c) \/ StartFails(c) \/ StopSettles(c)

HostSpec == HostInit /\ [][HostNext]_hostVars

\* The SDK settles every start(), if only by its own timeout.
FairHostSpec ==
  HostSpec /\ \A c \in Clients : WF_hostVars(StartResolves(c) \/ StartFails(c))
-----------------------------------------------------------------------------
\* Every running codex process has somebody to dispose of it: the slot, or
\* the start() that created it and has not returned.
NoStranded == alive \subseteq {live, pending} \cup starting

\* The slot is never published and negotiating at once, whatever overlaps,
\* and what it holds is running.
OneCall ==
  /\ live = NONE \/ pending = NONE
  /\ live # NONE => live \in alive
  /\ pending # NONE => pending \in alive \cap starting

\* "A call bound to another thread is never touched": a live call ends by a
\* start() of its owner or by a stop() that named this very call.
EndedByOwner ==
  [][\A c \in Clients : live = c /\ live' # c =>
       \/ stops[c] > 0
       \/ pending' # NONE /\ owner'[pending'] = owner[c]]_hostVars

\* A displaced or cancelled negotiation does not keep its process forever.
StrandedIsDisposed ==
  \A c \in Clients :
    (c \in alive /\ c \notin {live, pending}) ~> c \notin alive

Mode == IF live # NONE THEN "live"
        ELSE IF pending # NONE THEN "connecting" ELSE "idle"

Slot == INSTANCE VoiceSlot WITH holder <- Holder, mode <- Mode

\* The host implements the single slot: it goes to another principal or
\* thread only after its holder has given it back.
ImplementsSlot == Slot!SlotSpec
=============================================================================
