----------------------------- MODULE MCGraphStore -----------------------------
EXTENDS GraphStore

MCCoerces == {<<"number", "number">>}

Input(required) == [kind |-> "number", multiple |-> FALSE, required |-> required]

\* A reducer that takes a number or nothing, and one that needs its input.
MCCatalog ==
  [sum  |-> [inputs |-> [x |-> Input(FALSE)], outputs |-> [out |-> [kind |-> "number"]]],
   gate |-> [inputs |-> [x |-> Input(TRUE)],  outputs |-> [out |-> [kind |-> "text"]]]]

Node(reducer) == [reducer |-> reducer, values |-> <<>>, look |-> 0]
Edge(from, to) == [source |-> from, output |-> "out", target |-> to, input |-> "x"]

MCSample == [nodes |-> [n \in {"a", "b"} |-> Node("sum")], edges |-> <<>>, look |-> 0]

AddEdge(id, from, to) == [type |-> "edge.add", id |-> id, edge |-> Edge(from, to)]
RemoveNode(id) == [type |-> "node.remove", id |-> id]
MoveNode(id)   == [type |-> "node.move", id |-> id, look |-> 1]

MCCommands == {<<MoveNode("a")>>, <<AddEdge("ab", "a", "b")>>}

\* An edge that closes a cycle with the other, in a batch that is harmless by
\* its first command; a node which needs its edge, in place of the other edge;
\* the removal of a node that all of these touch.
MCBatches == MCCommands \cup
  {<<[type |-> "viewport.update", look |-> 1], AddEdge("ba", "b", "a")>>,
   <<[type |-> "edge.remove", id |-> "ab"],
     [type |-> "node.add", id |-> "c", node |-> Node("gate")], AddEdge("bc", "b", "c")>>,
   <<[type |-> "node.update", id |-> "a", values |-> [x |-> "number"]], RemoveNode("b")>>}
=============================================================================
