--------------------------- MODULE WorkItemsStore ----------------------------
(***************************************************************************)
(* What a work-items repository promises (repository.ts, and the memory    *)
(* implementation of it): one document, whose files each mutation changes  *)
(* at once; and what becomes of it when a mutation is not carried out,     *)
(* which the memory implementation does not know.                          *)
(***************************************************************************)
EXTENDS Naturals, FiniteSets

CONSTANTS Mutations, Stories, Sidecars, Touches, Replaces, Restored

VARIABLES
  contents,  \* the mutations each file of the document reflects
  applied,   \* the mutations that were answered
  failures   \* what has gone wrong so far

dvars == <<contents, applied, failures>>

Names == Stories \cup Sidecars

StoreInit ==
  contents = [f \in Names |-> {}] /\ applied = {} /\ failures = {}

\* Some files come to reflect m, an upsert bringing any copy with it, some are
\* lost, and the others stay.
Leaves(m, reached, lost) ==
  /\ DOMAIN contents' = Names
  /\ \A f \in Names :
       contents'[f] \in
         IF f \in lost THEN {{}}
         ELSE IF f \notin reached THEN {contents[f]}
         ELSE IF m \in Replaces THEN {{m} \cup copy : copy \in SUBSET Mutations}
         ELSE {contents[f] \cup {m}}

Mutate(m) ==
  /\ Leaves(m, Touches[m], {})
  /\ applied' = applied \cup {m}
  /\ UNCHANGED failures

\* Refused half-way, m has reached some stories.
Refuse(m) ==
  /\ \E reached \in SUBSET (Touches[m] \cap Stories) : Leaves(m, reached, {})
  /\ failures' = failures \cup {"refused"}
  /\ UNCHANGED applied

\* Cut off, m has reached some files; sidecars are lost, and one story whose
\* layout was being restored.
CutOff(m) ==
  /\ \E reached \in SUBSET Touches[m], sidecars \in SUBSET Sidecars,
        story \in {{}} \cup {{f} : f \in Restored} :
       Leaves(m, reached, sidecars \cup story)
  /\ \E how \in {"torn", "died"} : failures' = failures \cup {how}
  /\ UNCHANGED applied

StoreNext == \E m \in Mutations : Mutate(m) \/ Refuse(m) \/ CutOff(m)

StoreSpec == StoreInit /\ [][StoreNext]_dvars
=============================================================================
