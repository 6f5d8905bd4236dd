------------------------------ MODULE Datapath ------------------------------
(***************************************************************************)
(* dfgGraph::extract_datapath_new on a design without module instances:    *)
(* remove_control_nodes cuts the control edges, removes the useless nodes  *)
(* and propagates edge types; remove_disconnected_nodes then keeps what is *)
(* connected to an input port and to an output port.  All of it works on a *)
(* deep copy, the graph of the module is left alone.                       *)
(*                                                                         *)
(* A wire <<source, target, type>> stands for an edge as it was drawn;     *)
(* type gives the type it has now, as a set of type bits.  Parallel edges  *)
(* have different types, so a wire names one edge.                         *)
(***************************************************************************)
EXTENDS DfgGraph, PathType, SequencesExt

CONSTANTS Node,    \* the nodes of the design
          Kind,    \* their kinds
          Wires    \* bound: the wires an initial graph may have

WireTypes == DataTypes \cup ControlTypes \cup CRTypes

ASSUME DatapathAssumption ==
    /\ Kind \in [Node -> PortKinds \cup {"reg", "comb"}]
    /\ Wires \subseteq Node \X Node \X WireTypes
    /\ \A w \in Wires : Kind[w[1]] # "oport" /\ Kind[w[2]] # "iport"
    /\ IsFiniteSet(Node) /\ IsFiniteSet(Wires)

VARIABLES
    nodes,     \* the vertices of the copy
    type,      \* its edges, each with its type
    pc,        \* "cut", "clean", "types", "back", "fwd" or "done"
    look,      \* nlook_list of edge_type_propagate
    inlook,    \* nlook_set, kept beside the list
    seen,      \* nall_set: nodes that have been put on the list as unseen
    list,      \* proc_nodes of remove_disconnected_nodes
    oconn,     \* nodes found connected to an output port
    iconn,     \* nodes found connected to an input port
    pass,      \* 1 before, 2 after the instances are processed
    entry      \* history: the wires of the design

vars == <<nodes, type, pc, look, inlook, seen, list, oconn, iconn, pass, entry>>
tvars == <<look, inlook, seen>>
lvars == <<list, oconn, iconn, pass>>

Wired       == DOMAIN type
Arcs(E)     == {<<w[1], w[2]>> : w \in E}
IsReg(n)    == Kind[n] = "reg"
OfKind(V, K) == {n \in V : Kind[n] \in K}

-----------------------------------------------------------------------------
Init ==
    /\ entry \in SUBSET Wires
    /\ nodes = Node
    /\ type = [w \in entry |-> {w[3]}]
    /\ pc = "cut" /\ pass = 1
    /\ look = << >> /\ inlook = {} /\ seen = {}
    /\ list = << >> /\ oconn = {} /\ iconn = {}

\* What remove_useless_nodes leaves of the arcs A: the largest set of nodes
\* that supports itself (UselessNodes, property Confluent).
Useful(A) ==
    UNION {W \in SUBSET nodes :
             \A n \in W : ~Useless(Kind[n], Within(A, W), n, FALSE)}

\* An edge that remove_control_nodes does not cut.
IsData(w) == Control(type[w]) \cup CR(type[w]) = {}

\* remove_control_nodes up to edge_type_propagate.
RemoveControl ==
    /\ pc = "cut"
    /\ \E cut \in {{w \in Wired : IsData(w)}} :
       \E keep \in {Useful(Arcs(cut))} :
          /\ nodes' = keep
          /\ type' = [w \in {x \in cut : x[1] \in keep /\ x[2] \in keep} |-> type[w]]
    /\ pc' = "clean"
    /\ UNCHANGED <<tvars, lvars, entry>>

\* edge_type_propagate starts with the registers and ports, in the order of
\* their addresses.
StartTypes ==
    /\ pc = "clean"
    /\ \E start \in {OfKind(nodes, PortKinds \cup {"reg"})} :
          /\ look' \in SetToSeqs(start)
          /\ inlook' = start /\ seen' = start
    /\ pc' = "types"
    /\ UNCHANGED <<nodes, type, lvars, entry>>

-----------------------------------------------------------------------------
(***************************************************************************)
(* edge_type_propagate.                                                    *)
(***************************************************************************)
OutType(ty, n) == UNION {ty[w] : w \in {x \in DOMAIN ty : x[1] = n}}
InType(ty, n)  == UNION {ty[w] : w \in {x \in DOMAIN ty : x[2] = n}}

\* The type that edges on one side take from those on the other.
EType(t) == IF t \in {{"CMP"}, {"EQU"}, {"ADR"}} THEN t ELSE {"CTL"}

\* The data edges into n that become control because all that leaves n is
\* control, or nothing leaves n; and those out of n.
TurnIn(ty, n)  == IF OutType(ty, n) \subseteq ControlTypes
    THEN {w \in DOMAIN ty : w[2] = n /\ w[1] # n /\ Data(ty[w]) # {}} ELSE {}
TurnOut(ty, n) == IF InType(ty, n) \subseteq ControlTypes
    THEN {w \in DOMAIN ty : w[1] = n /\ w[2] # n /\ Data(ty[w]) # {}} ELSE {}

RetypeIn(ty, n) ==
    LET turn == TurnIn(ty, n)
        to   == EType(OutType(ty, n))
    IN  [w \in DOMAIN ty |-> IF w \in turn THEN CalType(ty[w], to) ELSE ty[w]]
RetypeOut(ty, n) ==
    LET turn == TurnOut(ty, n)
        from == EType(InType(ty, n))
    IN  [w \in DOMAIN ty |-> IF w \in turn THEN CalType(from, ty[w]) ELSE ty[w]]

\* Mutants: only nodes never seen are pushed; the early returns at the
\* top-level ports are lost.
PushUnseen(W, on) == {m \in W : ~IsReg(m)} \ (on \cup seen)
NeverStops(n)     == FALSE

\* The neighbours that go back on the list because an edge to them changed.
PushTouched(W, on) == {m \in W : ~IsReg(m)} \ on

\* Ports at the top of the design: nothing is propagated through them.
Stops(n) == Kind[n] \in {"iport", "oport"}

\* Types become ty1 at the sources of n, then ty2 at its loads; the nodes new
\* and those whose edges changed go on the list.
Requeue(n, new, ty1, ty2) ==
    LET on1 == (inlook \ {n}) \cup new
        src == PushTouched({w[1] : w \in {x \in Wired : ty1[x] # type[x]}}, on1)
        tar == PushTouched({w[2] : w \in {x \in Wired : ty2[x] # ty1[x]}}, on1 \cup src)
    IN  /\ type' = ty2
        /\ inlook' = on1 \cup src \cup tar
        /\ seen' = seen \cup new
        /\ \E s0 \in SetToSeqs(new), s1 \in SetToSeqs(src), s2 \in SetToSeqs(tar) :
              look' = Tail(look) \o s0 \o s1 \o s2

\* edge_type_propagate_combi.
LookCombi(n) ==
    /\ ~IsReg(n)
    /\ \E new \in {IF Kind[n] = "iport" THEN {} ELSE InOthers(Arcs(Wired), n) \ seen} :
       \E ty1 \in {IF Stops(n) THEN type ELSE RetypeIn(type, n)} :
       \E ty2 \in {IF Stops(n) THEN type ELSE RetypeOut(ty1, n)} : Requeue(n, new, ty1, ty2)

\* edge_type_propagate_reg: only its sources are queued.
LookReg(n) ==
    /\ IsReg(n)
    /\ \E new \in {InOthers(Arcs(Wired), n)} :
       \E add \in {(new \ seen) \cup PushTouched(new, inlook \ {n})} :
          /\ inlook' = (inlook \ {n}) \cup add
          /\ seen' = seen \cup new
          /\ \E s \in SetToSeqs(add) : look' = Tail(look) \o s
    /\ UNCHANGED type

Look ==
    /\ pc = "types" /\ look # << >>
    /\ LookCombi(Head(look)) \/ LookReg(Head(look))
    /\ UNCHANGED <<nodes, pc, lvars, entry>>

-----------------------------------------------------------------------------
(***************************************************************************)
(* remove_disconnected_nodes.  An entry of proc_nodes is a node; via says  *)
(* over which edges the walk came to it (a history, nothing reads it).     *)
(***************************************************************************)
Starts(kind, L) ==
    \E s \in SetToSeqs(OfKind(nodes', {kind})) :
       L = [k \in DOMAIN s |-> [at |-> s[k], via |-> << >>]]

StartBack ==
    /\ pc = "types" /\ look = << >>
    /\ pc' = "back"
    /\ UNCHANGED <<nodes, type, tvars, oconn, iconn, pass, entry>>
    /\ Starts("oport", list')

\* Mutant: what has been reached is pushed again.
NewEverywhere(E, far, reached) == E

\* The edges at whose far end is a node not reached so far.
NewEdges(E, far, reached) == {w \in E : w[far] \notin reached}

\* One turn of a search: the far ends go on the list, one per edge.
Push(E, far) ==
    \E s \in SetToSeqs(E) :
       list' = Tail(list) \o [k \in DOMAIN s |->
                 [at |-> s[k][far], via |-> Append(Head(list).via, s[k])]]

WalkBack ==
    /\ pc = "back" /\ list # << >>
    /\ \E n \in {Head(list).at} :
          /\ oconn' = oconn \cup {n}
          /\ Push(NewEdges({w \in Wired : w[2] = n}, 1, oconn'), 1)
    /\ UNCHANGED <<nodes, type, pc, tvars, iconn, pass, entry>>

StartForward ==
    /\ pc = "back" /\ list = << >>
    /\ pc' = "fwd"
    /\ UNCHANGED <<nodes, type, tvars, oconn, iconn, pass, entry>>
    /\ Starts("iport", list')

WalkForward ==
    /\ pc = "fwd" /\ list # << >>
    /\ \E n \in {Head(list).at} :
          /\ iconn' = iconn \cup {n}
          /\ Push(NewEdges({w \in Wired : w[1] = n}, 2, iconn'), 2)
    /\ UNCHANGED <<nodes, type, pc, tvars, oconn, pass, entry>>

\* Mutant: the nodes found on either walk are kept.
FoundOnce == oconn \cup iconn

Found == oconn \cap iconn

\* remove_unlisted_nodes, then the same again: the loop over the instances
\* between the two passes has nothing to do here.
Prune ==
    /\ pc = "fwd" /\ list = << >>
    /\ nodes' = nodes \cap Found
    /\ type' = [w \in {x \in Wired : x[1] \in nodes' /\ x[2] \in nodes'} |-> type[w]]
    /\ IF pass = 1
       THEN /\ pc' = "back" /\ pass' = 2
            /\ oconn' = {} /\ iconn' = {}
            /\ Starts("oport", list')
       ELSE /\ pc' = "done"
            /\ UNCHANGED lvars
    /\ UNCHANGED <<tvars, entry>>

Next ==
    \/ RemoveControl
    \/ StartTypes
    \/ Look
    \/ StartBack
    \/ WalkBack
    \/ StartForward
    \/ WalkForward
    \/ Prune

Spec == Init /\ [][Next]_vars /\ WF_vars(Next)
-----------------------------------------------------------------------------
(***************************************************************************)
(* Properties                                                              *)
(***************************************************************************)
TypeOK ==
    /\ nodes \subseteq Node
    /\ entry \subseteq Wires /\ Wired \subseteq entry
    /\ \A w \in Wired : w[1] \in nodes /\ w[2] \in nodes /\ type[w] \subseteq WireTypes
    /\ pc \in {"cut", "clean", "types", "back", "fwd", "done"} /\ pass \in {1, 2}
    /\ inlook \subseteq ToSet(look) /\ ToSet(look) \subseteq nodes /\ seen \subseteq Node
    /\ \A k \in DOMAIN list : list[k].at \in nodes
    /\ pc # "done" => oconn \subseteq nodes /\ iconn \subseteq nodes

\* W carries data from the inputs to the outputs: each node of W but an input
\* has a source in W, each but an output a load in W.
Carries(W) ==
    \A n \in W :
       /\ Kind[n] # "iport" => \E w \in Wired : w[2] = n /\ w[1] \in W
       /\ Kind[n] # "oport" => \E w \in Wired : w[1] = n /\ w[2] \in W

\* An edge that has been retyped is part of nothing that carries data from
\* inputs to outputs, although edge_type_propagate runs when the control
\* edges, and with them sources and loads of other nodes, have been cut.
DataKept ==
    \A w \in Wired : type[w] # {w[3]} =>
      \A W \in SUBSET nodes : w[1] \in W /\ w[2] \in W => ~Carries(W)

\* When the list is empty nothing is left to propagate: no node looked at has
\* a data edge on one side and only control on the other.
Settled ==
    pc \notin {"cut", "clean"} /\ look = << >> /\ pass = 1 =>
      \A n \in seen : ~IsReg(n) /\ ~Stops(n) => TurnIn(type, n) \cup TurnOut(type, n) = {}

\* proc_nodes may hold a node many times, but never twice for one way to it,
\* and no way to it passes a node twice: the length of the list is bounded by
\* the number of paths through the graph.
OnePerPath ==
    /\ \A j, k \in DOMAIN list : list[j].at = list[k].at /\ list[j].via = list[k].via => j = k
    /\ \A k \in DOMAIN list :
         \A p, q \in DOMAIN list[k].via : p # q =>
            list[k].via[p][1] # list[k].via[q][1] /\ list[k].via[p][2] # list[k].via[q][2]

\* The result is the datapath of the design, with the types it had, and it is
\* reached in the end.
Abstract ==
    INSTANCE DatapathSpec
    WITH Node <- Node, Kind <- Kind,
         nodes <- IF pc = "done" THEN nodes ELSE Node,
         wires <- IF pc = "done"
                  THEN UNION {{w[1]} \X {w[2]} \X type[w] : w \in Wired} ELSE entry,
         done  <- pc = "done"
Implements       == Abstract!Spec
ImplementsSafely == Abstract!Init /\ [][Abstract!Extract]_(Abstract!vars)
=============================================================================
