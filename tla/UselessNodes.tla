---------------------------- MODULE UselessNodes ----------------------------
(***************************************************************************)
(* dfgGraph::remove_useless_nodes on one level of the design hierarchy: a  *)
(* top-level graph (no father) without module instances.  The loop over    *)
(* instances and the graph of an instance are in module HierCleanup, which *)
(* uses the same conditions.                                               *)
(*                                                                         *)
(* The code keeps the nodes to be examined twice, in node_set and          *)
(* node_list.  The list starts with every node of the graph in the order   *)
(* of the map nodes, whose keys are vertex addresses, so any order is      *)
(* possible; the nodes put back later are examined after all of those.     *)
(* todo is what is left of the initial list, again the nodes put back.     *)
(***************************************************************************)
EXTENDS DfgGraph

CONSTANTS Node,   \* the nodes a graph may have
          Kind,   \* their kinds
          Given   \* bound: the sets of nodes the graphs on entry have

ASSUME KindAssumption ==
    /\ Kind \in [Node -> PortKinds \cup {"reg", "comb"}]
    /\ Given \subseteq SUBSET Node

VARIABLES nodes,  \* the vertices of the graph
          arcs,   \* its arcs
          todo,   \* initial members of node_list not yet examined
          again,  \* nodes put back on node_list
          entry   \* history: the arcs of the graph on entry

vars == <<nodes, arcs, todo, again, entry>>

\* Arcs that gen_sdfg and the passes after it can draw: nothing drives an
\* input port, an output port drives nothing, and no port drives itself.
LegalArcs == {a \in Node \X Node :
                /\ Kind[a[1]] # "oport" /\ Kind[a[2]] # "iport"
                /\ a[1] = a[2] => Kind[a[1]] \notin PortKinds}

Pending == todo \cup again
Done    == Pending = {}

\* Mutant: the exemption of registers from the test for a source is lost.
UselessRegister(n) ==
    Useless(IF Kind[n] = "reg" THEN "comb" ELSE Kind[n], arcs, n, FALSE)

UselessNode(n) == Useless(Kind[n], arcs, n, FALSE)

TypeOK ==
    /\ nodes \subseteq Node
    /\ entry \subseteq LegalArcs
    /\ arcs = Within(entry, nodes)
    /\ todo \subseteq Node /\ again \subseteq Node

-----------------------------------------------------------------------------
Init ==
    /\ nodes \in Given
    /\ entry \in SUBSET Within(LegalArcs, nodes)
    /\ arcs = entry
    /\ todo = nodes
    /\ again = {}

\* Mutant: a node is examined once, the neighbours of a removed one are not
\* put back.
PopOnce(n, putBack) ==
    /\ todo' = todo \ {n}
    /\ again' = again \ {n}

\* node_list.front() and pop_front(): the put-back nodes come last.
Front == IF todo # {} THEN todo ELSE again

Pop(n, putBack) ==
    /\ todo' = todo \ {n}
    /\ again' = (again \ {n}) \cup (putBack \ (todo \ {n}))

\* Mutant: the loop puts the neighbours back although the node stays.
KeepAndPutBack(n) ==
    /\ n \in Front
    /\ ~UselessNode(n)
    /\ Pop(n, InNodes(arcs, n) \cup OutNodes(arcs, n))
    /\ UNCHANGED <<nodes, arcs, entry>>

\* The node is of use and stays.
Keep(n) ==
    /\ n \in Front
    /\ ~UselessNode(n)
    /\ Pop(n, {})
    /\ UNCHANGED <<nodes, arcs, entry>>

\* remove_node(n), then the neighbours that may have lost their last load or
\* source go back on the list unless they are on it.
Drop(n) ==
    /\ n \in Front
    /\ UselessNode(n)
    /\ nodes' = nodes \ {n}
    /\ arcs' = WithoutNode(arcs, n)
    /\ Pop(n, Disturbed(Kind[n], arcs, n))
    /\ UNCHANGED entry

Next == \E n \in Node : Keep(n) \/ Drop(n)

Spec == Init /\ [][Next]_vars /\ WF_vars(Next)
-----------------------------------------------------------------------------
(***************************************************************************)
(* Properties                                                              *)
(***************************************************************************)

\* A node on the worklist is still a vertex of the graph.  The loop reads the
\* adjacency of what it pops without looking whether the vertex exists.
WorklistAlive == Pending \subseteq nodes

\* No useless node escapes: one that is useless now is still to be examined,
\* so none is left when the loop ends.
NoneEscapes == \A n \in nodes : UselessNode(n) => n \in Pending

\* W supports itself in the graph the pass was given: each of its nodes would
\* be kept if W were all that is left.
SelfSupporting(W) ==
    \A n \in W : ~Useless(Kind[n], Within(entry, W), n, FALSE)

\* What lies on a path that keeps itself alive is never removed, whatever the
\* order in which the nodes are examined.
CoreKept == \A W \in SUBSET Node : SelfSupporting(W) => W \subseteq nodes

\* The result does not depend on the order of the vertex addresses: what is
\* left is the largest self-supporting set of the graph on entry.
Core      == UNION {W \in SUBSET Node : SelfSupporting(W)}
Confluent == Done => nodes = Core

\* The loop ends.
Terminates == <>Done

\* Examining the nodes from a worklist, and putting only some neighbours back,
\* still removes useless nodes one by one until there is none.
Abstract == INSTANCE PruneSpec
              WITH Node <- Node, Kind <- Kind, nodes <- nodes, arcs <- arcs
Implements       == Abstract!Spec
ImplementsSafely == Abstract!Init /\ [][Abstract!Next]_<<nodes, arcs>>
=============================================================================
