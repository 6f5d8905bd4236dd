----------------------------- MODULE PruneSpec ------------------------------
(***************************************************************************)
(* What remove_useless_nodes promises on a graph without instances, with   *)
(* no worklist: a useless node is removed at some time, in any order, and  *)
(* nothing else happens to the graph.                                      *)
(***************************************************************************)
EXTENDS DfgGraph

CONSTANTS Node, Kind
VARIABLES nodes, arcs

vars == <<nodes, arcs>>

Init ==
    /\ nodes \in SUBSET Node
    /\ arcs \in SUBSET (nodes \X nodes)

Remove(n) ==
    /\ n \in nodes
    /\ Useless(Kind[n], arcs, n, FALSE)
    /\ nodes' = nodes \ {n}
    /\ arcs' = WithoutNode(arcs, n)

Next == \E n \in Node : Remove(n)

Spec == Init /\ [][Next]_vars /\ WF_vars(Next)
=============================================================================
