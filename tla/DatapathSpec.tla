---------------------------- MODULE DatapathSpec ----------------------------
(***************************************************************************)
(* What extract_datapath_new promises on a design without instances: in    *)
(* one step, of the graph stay the nodes that lie on a walk of data wires  *)
(* from an input port to an output port, and the data wires between them,  *)
(* with the types they had.  How the nodes are found is not said.          *)
(***************************************************************************)
EXTENDS PathType

CONSTANTS Node, Kind

VARIABLES nodes, wires, done

vars == <<nodes, wires, done>>

OfKind(V, kind) == {n \in V : Kind[n] = kind}
DataWires       == {w \in wires : w[3] \in DataTypes}

ClosedDown(E, W) == \A w \in E : w[1] \in W => w[2] \in W
ClosedUp(E, W)   == \A w \in E : w[2] \in W => w[1] \in W

\* In the graph of vertices V and wires E: what a walk from S reaches, and
\* from where a walk reaches S.
Downstream(V, E, S) ==
    LET closed == {W \in SUBSET V : S \subseteq W /\ ClosedDown(E, W)}
    IN  {n \in V : \A W \in closed : n \in W}
Upstream(V, E, S) ==
    LET closed == {W \in SUBSET V : S \subseteq W /\ ClosedUp(E, W)}
    IN  {n \in V : \A W \in closed : n \in W}

DatapathOf(V, E) == Downstream(V, E, OfKind(V, "iport"))
                      \cap Upstream(V, E, OfKind(V, "oport"))

Init ==
    /\ nodes \in SUBSET Node
    /\ wires \in SUBSET (nodes \X nodes \X (DataTypes \cup ControlTypes \cup CRTypes))
    /\ done = FALSE

Extract ==
    /\ ~done /\ done'
    /\ nodes' = DatapathOf(nodes, DataWires)
    /\ wires' = {w \in DataWires : w[1] \in nodes' /\ w[2] \in nodes'}

Spec == Init /\ [][Extract]_vars /\ <>done
=============================================================================
