------------------------------ MODULE GraphDesk ------------------------------
(***************************************************************************)
(* What the graph store promises to the web, the agent and everybody else: *)
(* each batch is applied at once to the document as it stands, under the   *)
(* next revision, and undo takes back the last change that still stands,   *)
(* as a revision of its own.                                               *)
(***************************************************************************)
EXTENDS Naturals, Sequences

CONSTANTS Plans(_, _),   \* what a batch may make of a body
          Batches,       \* sequences of commands that people send
          Sample,        \* the body of a store nobody has written to
          HistoryLimit   \* how many changes can be taken back

VARIABLES graph,         \* the document: a revision and a body
          history        \* the documents undo leads back to, oldest first

Recent(h) == IF Len(h) > HistoryLimit THEN Tail(h) ELSE h

Init == graph = [revision |-> 0, body |-> Sample] /\ history = <<>>

Becomes(body) == graph' = [revision |-> graph.revision + 1, body |-> body]

Apply ==
  /\ history' = Recent(Append(history, graph))
  /\ \E batch \in Batches : \E body \in Plans(graph.body, batch) : Becomes(body)

Undo == /\ history # <<>>
        /\ Becomes(history[Len(history)].body)
        /\ history' = SubSeq(history, 1, Len(history) - 1)

Spec == Init /\ [][Apply \/ Undo]_<<graph, history>>
=============================================================================
