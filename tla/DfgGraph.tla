------------------------------ MODULE DfgGraph ------------------------------
(***************************************************************************)
(* Operators on one signal-level data flow graph (class dfgGraph).  A      *)
(* graph is seen through the set of its arcs <<source, target>>: what the  *)
(* operations of this module read is whether a vertex still has an arc,    *)
(* so parallel edges of different types between the same two vertices are  *)
(* one arc here.                                                           *)
(*                                                                         *)
(* The kind of a node stands for its node_type_t bits:                     *)
(*   "iport"   SDFG_IPORT            "oport"  SDFG_OPORT                   *)
(*   "inout"   SDFG_PORT             "module" SDFG_MODULE                  *)
(*   "reg"     SDFG_FF, SDFG_LATCH   "comb"   SDFG_DF, SDFG_COMB, SDFG_GATE*)
(***************************************************************************)

PortKinds == {"iport", "oport", "inout"}
Kinds     == PortKinds \cup {"reg", "comb", "module"}

\* get_out_nodes(n) and get_in_nodes(n): the vertices one arc away.
OutNodes(arcs, n) == {a[2] : a \in {b \in arcs : b[1] = n}}
InNodes(arcs, n)  == {a[1] : a \in {b \in arcs : b[2] = n}}

\* The two calls with bself = false, which leave a self loop out.
OutOthers(arcs, n) == OutNodes(arcs, n) \ {n}
InOthers(arcs, n)  == InNodes(arcs, n) \ {n}

\* The arcs left once boost::remove_vertex and the edge removals before it
\* have dropped vertex n.
WithoutNode(arcs, n) == {a \in arcs : a[1] # n /\ a[2] # n}

\* The arcs with both ends in W.
Within(arcs, W) == {a \in arcs : a[1] \in W /\ a[2] \in W}

(***************************************************************************)
(* The conditions of remove_useless_nodes, one per branch of its loop.     *)
(* "open" says that the port has lost its place in the father's port map,  *)
(* or is mapped to no signal; it is FALSE in a graph without a father.     *)
(***************************************************************************)
UselessPort(kind, arcs, n, open) ==
    \/ open
    \/ kind = "iport" /\ OutOthers(arcs, n) = {}
    \/ kind = "oport" /\ InNodes(arcs, n) = {}
    \/ kind = "inout" /\ OutNodes(arcs, n) = {} /\ InNodes(arcs, n) = {}

NoLoad(arcs, n)         == OutOthers(arcs, n) = {}
NoSource(kind, arcs, n) == kind = "comb" /\ InOthers(arcs, n) = {}

UselessInner(kind, arcs, n) == NoLoad(arcs, n) \/ NoSource(kind, arcs, n)

Useless(kind, arcs, n, open) ==
    IF kind \in PortKinds THEN UselessPort(kind, arcs, n, open)
                          ELSE UselessInner(kind, arcs, n)

\* Mutant: the sources are put back in every branch, the loads never are.
DisturbedSources(kind, arcs, n) == InOthers(arcs, n)

\* The neighbours the loop puts back on its worklist after it removed n: the
\* loads of an input port, the sources of an output port, both of an inout;
\* the sources of a node without load, the loads of a node without source.
\* They are read before the removal.
Disturbed(kind, arcs, n) ==
    CASE kind = "iport" -> OutNodes(arcs, n)
      [] kind = "oport" -> InNodes(arcs, n)
      [] kind = "inout" -> OutNodes(arcs, n) \cup InNodes(arcs, n)
      [] OTHER -> IF NoLoad(arcs, n) THEN InOthers(arcs, n)
                                     ELSE OutOthers(arcs, n)
=============================================================================
