---------------------------- MODULE GraphDocument ----------------------------
(***************************************************************************)
(* The reducer graph of packages/graph: the commands that change it        *)
(* (document.ts), what planGraphCommands() requires of their result, and   *)
(* the order in which its nodes are run (graph.ts).                        *)
(*                                                                         *)
(* A document is a revision and a body.  Identifiers are the keys of       *)
(* functions, since every command that would repeat one is refused.        *)
(* Labels, positions and the viewport, which nothing is computed from, are *)
(* a `look`; an input value is its kind.  The order in which edges reach   *)
(* an input decides no refusal and is left out.                            *)
(***************************************************************************)
EXTENDS Naturals, FiniteSets, SequencesExt, TLC

CONSTANTS
  NodeIds,
  Catalog,   \* registered reducer -> [inputs, outputs]: sockets by name
  Coerces,   \* pairs of kinds: a value of the first fits a socket of the second
  NONE

\* What the types ReducerGraphDocument and ReducerGraphCommand say, as far as
\* anything is computed from it.
Shaped(body) ==
  /\ {"nodes", "edges"} \subseteq DOMAIN body
  /\ DOMAIN body.nodes \subseteq NodeIds
  /\ \A n \in DOMAIN body.nodes : {"reducer", "values"} \subseteq DOMAIN body.nodes[n]

IsCommand(c) ==
  /\ c.type \in {"node.add", "node.update", "node.move", "node.remove",
                 "edge.add", "edge.remove", "viewport.update"}
  /\ c.type = "node.add" => c.id \in NodeIds /\ {"reducer", "values"} \subseteq DOMAIN c.node

\* Nodes or edges with one more, and without those that are removed.
With(f, key, x) == [k \in DOMAIN f \cup {key} |-> IF k = key THEN x ELSE f[k]]
Without(f, keys) == [x \in DOMAIN f \ keys |-> f[x]]

Touching(body, id) ==
  {e \in DOMAIN body.edges : id \in {body.edges[e].source, body.edges[e].target}}

\* reduceGraphDocument(): when it throws ...
Refuses(body, c) ==
  CASE c.type = "node.add" -> c.id \in DOMAIN body.nodes
    [] c.type \in {"node.update", "node.move"} -> c.id \notin DOMAIN body.nodes
    [] c.type = "edge.add" -> c.id \in DOMAIN body.edges
    [] OTHER -> FALSE

\* ... and what it makes of the body when it does not.
Reduced(body, c) ==
  CASE c.type = "node.add" -> [body EXCEPT !.nodes = With(@, c.id, c.node)]
    [] c.type = "node.update" ->
         [body EXCEPT !.nodes[c.id].values = c.values @@ @]
    [] c.type = "node.move" -> [body EXCEPT !.nodes[c.id].look = c.look]
    [] c.type = "node.remove" ->
         [body EXCEPT !.nodes = Without(@, {c.id}),
                      !.edges = Without(@, Touching(body, c.id))]
    [] c.type = "edge.add" -> [body EXCEPT !.edges = With(@, c.id, c.edge)]
    [] c.type = "edge.remove" -> [body EXCEPT !.edges = Without(@, {c.id})]
    [] c.type = "viewport.update" -> [body EXCEPT !.look = c.look]

\* reduceGraphCommands(): all of the commands, or none.
Outcome(body, batch) ==
  LET after[k \in 0..Len(batch)] ==
        IF k = 0 THEN body
        ELSE LET b == after[k - 1]
             IN IF b = NONE \/ Refuses(b, batch[k]) THEN NONE ELSE Reduced(b, batch[k])
  IN after[Len(batch)]

-----------------------------------------------------------------------------
\* Mutant: only the first command of a batch is looked at.
AffectsFirst(batch) == batch[1].type \notin {"node.move", "viewport.update"}

\* graphCommandAffectsComputation(), over the batch.
AffectsComputation(batch) ==
  \E i \in DOMAIN batch : batch[i].type \notin {"node.move", "viewport.update"}

Inputs(body, n)  == Catalog[body.nodes[n].reducer].inputs
Outputs(body, n) == Catalog[body.nodes[n].reducer].outputs

\* validateGraphDocument(): the nodes run a registered reducer, with values
\* for inputs it has and of kinds they accept ...
NodesValid(body) ==
  \A n \in DOMAIN body.nodes :
    /\ body.nodes[n].reducer \in DOMAIN Catalog
    /\ \A s \in DOMAIN body.nodes[n].values :
         /\ s \in DOMAIN Inputs(body, n)
         /\ <<body.nodes[n].values[s], Inputs(body, n)[s].kind>> \in Coerces

\* ... and the edges lead from an output there is to an input there is, of a
\* kind it accepts, with a single edge into an input that takes one value.
EdgesValid(body) ==
  \A e \in DOMAIN body.edges :
    LET d == body.edges[e] IN
    /\ {d.source, d.target} \subseteq DOMAIN body.nodes
    /\ d.output \in DOMAIN Outputs(body, d.source)
    /\ d.input \in DOMAIN Inputs(body, d.target)
    /\ <<Outputs(body, d.source)[d.output].kind,
         Inputs(body, d.target)[d.input].kind>> \in Coerces
    /\ Inputs(body, d.target)[d.input].multiple
       \/ \A f \in DOMAIN body.edges \ {e} :
            <<body.edges[f].target, body.edges[f].input>> # <<d.target, d.input>>

\* canConnect(): materializing a valid document fails on an edge from a node
\* to itself only.
Connects(body) == \A e \in DOMAIN body.edges :
                    body.edges[e].source # body.edges[e].target

\* Graph.getUpstream()
Upstream(edges, n) == {edges[e].source : e \in {f \in DOMAIN edges : edges[f].target = n}}

\* A sort under way: the nodes in order so far, and whether it has failed.
Sorting == [order : Seq(NodeIds), cyclic : BOOLEAN]

\* The nodes of a list are visited one by one.
VisitAll(visit, s, list) ==
  LET after[k \in 0..Len(list)] ==
        IF k = 0 THEN s ELSE LET t == after[k - 1] IN visit[list[k]][t]
  IN after[Len(list)]

Unsorted == [order |-> <<>>, cyclic |-> FALSE]

\* Mutant: a node that is being visited counts as visited.
SortBlind(nodes, edges) ==
  LET visit[visiting \in SUBSET NodeIds] == [n \in NodeIds |-> [s \in Sorting |->
        IF n \in ToSet(s.order) \cup visiting THEN s
        ELSE LET t == VisitAll(visit[visiting \cup {n}], s, SetToSeq(Upstream(edges, n)))
             IN [t EXCEPT !.order = Append(@, n)]]]
  IN VisitAll(visit[{}], Unsorted, SetToSeq(nodes))

\* Graph.topologicalSort(): depth first, a node after all that it depends on;
\* a node met again while it is being visited is a cycle, after which the
\* order is of no use.
TopologicalSort(nodes, edges) ==
  LET visit[visiting \in SUBSET NodeIds] == [n \in NodeIds |-> [s \in Sorting |->
        IF s.cyclic \/ n \in ToSet(s.order) THEN s
        ELSE IF n \in visiting THEN [s EXCEPT !.cyclic = TRUE]
        ELSE LET t == VisitAll(visit[visiting \cup {n}], s, SetToSeq(Upstream(edges, n)))
             IN [t EXCEPT !.order = Append(@, n)]]]
  IN VisitAll(visit[{}], Unsorted, SetToSeq(nodes))

\* ExecutionEngine.gatherInputs(): a required input has an edge or a value.
Executes(body) ==
  \A n \in DOMAIN body.nodes : \A s \in DOMAIN Inputs(body, n) :
    Inputs(body, n)[s].required =>
      \/ s \in DOMAIN body.nodes[n].values
      \/ \E e \in DOMAIN body.edges :
           body.edges[e].target = n /\ body.edges[e].input = s

Valid(body) == /\ NodesValid(body) /\ EdgesValid(body) /\ Connects(body)
               /\ ~TopologicalSort(DOMAIN body.nodes, body.edges).cyclic /\ Executes(body)

\* planGraphCommands(): the document of the plan, unless it has issues.
Plans(body, batch) ==
  {proposed \in {Outcome(body, batch)} :
     proposed # NONE /\ (AffectsComputation(batch) => Valid(proposed))}
=============================================================================
