------------------------------ MODULE TurnDesk ------------------------------
(***************************************************************************)
(* What the coordinator promises of the requests it is handed: each is     *)
(* answered by one turn or dropped in front of the person who made it,     *)
(* and the session never runs two of its turns at a time.                  *)
(***************************************************************************)
CONSTANT Requests

VARIABLE stage   \* where each request stands

Stages == {"new", "waiting", "running", "settled", "dropped"}

\* One step takes a request no further than this: nothing is lost on the way,
\* and neither a settled nor a dropped request is ever taken up again.
Moves == {<<"new", "waiting">>, <<"new", "running">>, <<"waiting", "running">>,
          <<"waiting", "dropped">>, <<"running", "settled">>}

Running == {r \in Requests : stage[r] = "running"}

OneRunning == \A r, s \in Running : r = s

\* A request is dropped only because a newer one takes its place.
DropsForANewerOne ==
  \A r \in Requests : stage[r] # "dropped" /\ stage'[r] = "dropped" =>
    \E s \in Requests : stage[s] = "new" /\ stage'[s] = "waiting"

Init == stage = [r \in Requests |-> "new"]

Next ==
  /\ stage' \in [Requests -> Stages]
  /\ \A r \in Requests :
       stage'[r] = stage[r] \/ <<stage[r], stage'[r]>> \in Moves
  /\ OneRunning'
  /\ DropsForANewerOne

Spec == Init /\ [][Next]_stage
=============================================================================
