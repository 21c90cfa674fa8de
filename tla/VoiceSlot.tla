------------------------------ MODULE VoiceSlot ------------------------------
(***************************************************************************)
(* What the realtime voice host promises: the host's one microphone        *)
(* belongs to one (thread, principal) at a time.  It is taken when free or *)
(* by its holder, goes live once, and only its holder gives it back (or    *)
(* the negotiation fails).  It never passes from one holder to another.    *)
(***************************************************************************)
CONSTANTS Owners, NONE

VARIABLES holder, mode

svars == <<holder, mode>>

SlotInit == holder = NONE /\ mode = "idle"

Take(o) == holder \in {o, NONE} /\ holder' = o /\ mode' = "connecting"

Publish == mode = "connecting" /\ mode' = "live" /\ holder' = holder

Release == mode # "idle" /\ mode' = "idle" /\ holder' = NONE

SlotNext == (\E o \in Owners : Take(o)) \/ Publish \/ Release

SlotSpec == SlotInit /\ [][SlotNext]_svars
=============================================================================
