---------------------------- MODULE HierCleanup -----------------------------
(***************************************************************************)
(* remove_control_nodes and remove_useless_nodes on two levels of the      *)
(* design hierarchy: a top graph that holds one module instance, and the   *)
(* graph of that instance (its child).  An instance is tied to the graph   *)
(* around it twice: by the arcs of the top graph between a signal and the  *)
(* instance, and by the port maps port2sig and sig2port of the instance    *)
(* node.  remove_edge, remove_port and remove_port_sig keep the two in     *)
(* step across the boundary; this module is about what they do to each     *)
(* other while both worklists run.                                         *)
(*                                                                         *)
(* A signal reaches the instance over one arc (gen_sdfg draws one edge of  *)
(* type SDFG_ASS per signal and direction, however many ports it feeds).   *)
(***************************************************************************)
EXTENDS DfgGraph

CONSTANTS TNode,    \* nodes of the top graph other than the instance
          TKind,    \* their kinds
          Inst,     \* the instance node
          Port,     \* ports of the instance, nodes of the child graph
          Inner,    \* the other nodes of the child graph
          CKind,    \* kinds of the nodes of the child graph
          Open,     \* the empty signal name: port left open or constant
          TArcs,    \* bound: top arcs an initial graph may have
          CArcs,    \* bound: child arcs an initial graph may have
          Conns     \* bound: instances, as the connections of their ports

CNode == Port \cup Inner
Sig   == {s \in TNode : TKind[s] \in {"reg", "comb"}}

ASSUME HierAssumption ==
    /\ TKind \in [TNode -> {"iport", "oport", "reg", "comb"}]
    /\ CKind \in [CNode -> PortKinds \cup {"reg", "comb"}]
    /\ \A n \in CNode : n \in Port <=> CKind[n] \in PortKinds
    /\ Inst \notin TNode \cup CNode /\ Open \notin TNode
    /\ Port \cap Inner = {}
    /\ TArcs \subseteq TNode \X TNode /\ CArcs \subseteq CNode \X CNode
    /\ \A a \in TArcs : TKind[a[1]] # "oport" /\ TKind[a[2]] # "iport"
    /\ \A a \in CArcs : CKind[a[1]] # "oport" /\ CKind[a[2]] # "iport"
    /\ \A n \in Port : <<n, n>> \notin CArcs
    /\ \A c \in Conns : DOMAIN c \subseteq Port /\ c \in [DOMAIN c -> Sig \cup {Open}]

VARIABLES
    dfg,            \* record: nodes and arcs of the top graph and of the child
                    \* (tnodes, tarcs, cnodes, carcs), and the instance's maps
                    \* port2sig and sig2port as functions (p2s, s2p)
    ctl,            \* top arcs of a control type still to be removed
    ttodo, tagain,  \* the worklist of the top graph: initial list, put back
    ctodo, cagain,  \* the worklist of the child graph
    ins, outs,      \* locals inodes and onodes of the instance branch
    pc,             \* where the call stack is
    entry           \* history: dfg once the control edges are gone

vars == <<dfg, ctl, ttodo, tagain, ctodo, cagain, ins, outs, pc, entry>>

Without(f, k) == [x \in DOMAIN f \ {k} |-> f[x]]

Reads(p)  == CKind[p] # "oport"     \* the port takes a signal in
Drives(p) == CKind[p] # "iport"     \* the port drives a signal

PortOpen(d, p) == p \notin DOMAIN d.p2s \/ d.p2s[p] = Open

\* Mutant: instances are not counted as loads or sources.
UselessTopAlone(d, n) == Useless(TKind[n], WithoutNode(d.tarcs, Inst), n, FALSE)

UselessTop(d, n)   == Useless(TKind[n], d.tarcs, n, FALSE)
UselessChild(d, n) == Useless(CKind[n], d.carcs, n, n \in Port /\ PortOpen(d, n))

-----------------------------------------------------------------------------
(***************************************************************************)
(* The edits, as operators on a design: one calls the other.               *)
(***************************************************************************)

\* Mutant: the port is taken off the signal but keeps its entry in port2sig.
RemovePortSigHalf(d, s, dir) ==
    IF s \notin DOMAIN d.s2p THEN d ELSE
    LET left == {p \in d.s2p[s] : p \in d.cnodes =>
                    IF dir = "in" THEN ~Reads(p) ELSE ~Drives(p)}
    IN  [d EXCEPT !.s2p = IF left = {} THEN Without(d.s2p, s)
                                       ELSE [d.s2p EXCEPT ![s] = left]]

\* dfgNode::remove_port_sig.  dir is "in" for the argument -1, "out" for 1.
\* Only ports that are still nodes of the child are taken off the signal.
RemovePortSig(d, s, dir) ==
    IF s \notin DOMAIN d.s2p THEN d ELSE
    LET hit  == {p \in d.s2p[s] \cap d.cnodes :
                    IF dir = "in" THEN Reads(p) ELSE Drives(p)}
        left == d.s2p[s] \ hit
    IN  [d EXCEPT
          !.p2s = [p \in DOMAIN d.p2s \cup hit |->
                      IF p \in hit THEN Open ELSE d.p2s[p]],
          !.s2p = IF left = {} THEN Without(d.s2p, s)
                               ELSE [d.s2p EXCEPT ![s] = left]]

\* Mutant: the edge is removed without a look at the port maps.
CutArcOnly(d, a) == [d EXCEPT !.tarcs = @ \ {a}]

\* dfgGraph::remove_edge on the top graph.
CutArc(d, a) ==
    IF a \notin d.tarcs THEN d ELSE
    LET e == IF a[1] = Inst THEN RemovePortSig(d, a[2], "out") ELSE d
        f == IF a[2] = Inst THEN RemovePortSig(e, a[1], "in") ELSE e
    IN  [f EXCEPT !.tarcs = @ \ {a}]

\* dfgGraph::remove_port, called on the child when a port node is gone: all
\* the edges between its signal and the instance go, in the port's direction.
RemovePort(d, p) ==
    IF p \notin DOMAIN d.p2s THEN d ELSE
    LET s == d.p2s[p]
        e == [d EXCEPT !.s2p[s] = @ \ {p}]
        f == IF Reads(p)  THEN CutArc(e, <<s, Inst>>) ELSE e
        g == IF Drives(p) THEN CutArc(f, <<Inst, s>>) ELSE f
        h == IF s = Open THEN d ELSE g
    IN  [h EXCEPT !.p2s = Without(@, p)]

\* dfgGraph::remove_node on the child: edges, node, then the port map.
RemoveChildNode(d, n) ==
    LET e == [d EXCEPT !.cnodes = @ \ {n}, !.carcs = WithoutNode(@, n)]
    IN  IF n \in Port THEN RemovePort(e, n) ELSE e

\* dfgGraph::remove_node on the top graph, for a node that is no instance.
RemoveTopNode(d, n) ==
    LET e == CutArc(CutArc(d, <<n, Inst>>), <<Inst, n>>)
    IN  [e EXCEPT !.tnodes = @ \ {n}, !.tarcs = WithoutNode(@, n)]

\* dfgGraph::remove_node for the instance: its maps are cleared and its child
\* is emptied.
RemoveInst(d) ==
    [tnodes |-> d.tnodes \ {Inst}, tarcs |-> WithoutNode(d.tarcs, Inst),
     cnodes |-> {}, carcs |-> {}, p2s |-> [p \in {} |-> Open], s2p |-> [s \in {} |-> {}]]

-----------------------------------------------------------------------------
\* What extract_sdfg and Instance::gen_sdfg build from a connection c: one
\* arc per signal and direction, an entry of both maps per port (open ports
\* are filed under the empty signal).
Connect(tarcs, carcs, c) ==
    LET ports == DOMAIN c
        wired == {p \in ports : c[p] # Open}
    IN  [tnodes |-> TNode \cup {Inst},
         tarcs  |-> tarcs \cup {<<c[p], Inst>> : p \in {x \in wired : Reads(x)}}
                          \cup {<<Inst, c[p]>> : p \in {x \in wired : Drives(x)}},
         cnodes |-> ports \cup Inner,
         carcs  |-> carcs,
         p2s    |-> c,
         s2p    |-> [s \in {c[p] : p \in ports} |-> {p \in ports : c[p] = s}]]

InstArcs(d) == {a \in d.tarcs : a[1] = Inst \/ a[2] = Inst}

Init ==
    /\ \E c \in Conns, ta \in SUBSET TArcs :
          \E ca \in SUBSET Within(CArcs, DOMAIN c \cup Inner) :
             dfg = Connect(ta, ca, c)
    /\ ctl \in SUBSET InstArcs(dfg)
    /\ ttodo = {} /\ tagain = {} /\ ctodo = {} /\ cagain = {}
    /\ ins = {} /\ outs = {}
    /\ pc = "cut"
    /\ entry = dfg

\* remove_control_nodes: the control edges of the top graph go one by one.
\* (Those of the child, and those between plain nodes, have no effect on the
\* port maps: the initial graphs range over what is left of them.)
CutControl(a) ==
    /\ pc = "cut" /\ a \in ctl
    /\ dfg' = CutArc(dfg, a)
    /\ ctl' = ctl \ {a}
    /\ UNCHANGED <<ttodo, tagain, ctodo, cagain, ins, outs, pc, entry>>

\* The child's own remove_control_nodes(false) calls remove_useless_nodes.
StartChild ==
    /\ pc = "cut" /\ ctl = {}
    /\ pc' = "child"
    /\ ctodo' = dfg.cnodes
    /\ entry' = dfg
    /\ UNCHANGED <<dfg, ctl, ttodo, tagain, cagain, ins, outs>>

TFront == IF ttodo # {} THEN ttodo ELSE tagain
CFront == IF ctodo # {} THEN ctodo ELSE cagain

\* Mutants: nothing is put back; a node put back stays on the list for ever.
TPopOnce(n, back) == ttodo' = ttodo \ {n} /\ tagain' = tagain \ {n}
TPopSticky(n, back) == ttodo' = ttodo \ {n} /\ tagain' = tagain \cup (back \ ttodo)
CPopSticky(n, back) == ctodo' = ctodo \ {n} /\ cagain' = cagain \cup (back \ ctodo)

TPop(n, back) ==
    /\ ttodo' = ttodo \ {n}
    /\ tagain' = (tagain \ {n}) \cup (back \ (ttodo \ {n}))

CPop(n, back) ==
    /\ ctodo' = ctodo \ {n}
    /\ cagain' = (cagain \ {n}) \cup (back \ (ctodo \ {n}))

\* One turn of the child's loop, in its own call ("child") or in the call
\* made from the instance branch of the top graph's loop ("nested").
ChildStep(n) ==
    /\ pc \in {"child", "nested"} /\ n \in CFront
    /\ IF UselessChild(dfg, n)
       THEN /\ dfg' = RemoveChildNode(dfg, n)
            /\ CPop(n, Disturbed(CKind[n], dfg.carcs, n))
       ELSE /\ dfg' = dfg
            /\ CPop(n, {})
    /\ UNCHANGED <<ctl, ttodo, tagain, ins, outs, pc, entry>>

\* Return from the child: to the start of the top graph's loop, or into the
\* instance branch.
ChildReturn ==
    /\ pc \in {"child", "nested"} /\ CFront = {}
    /\ IF pc = "child" THEN pc' = "top" /\ ttodo' = dfg.tnodes
                       ELSE pc' = "resume" /\ ttodo' = ttodo
    /\ UNCHANGED <<dfg, ctl, tagain, ctodo, cagain, ins, outs, entry>>

TopStep(n) ==
    /\ pc = "top" /\ n \in TFront \ {Inst}
    /\ IF UselessTop(dfg, n)
       THEN /\ dfg' = RemoveTopNode(dfg, n)
            /\ TPop(n, Disturbed(TKind[n], dfg.tarcs, n))
       ELSE /\ dfg' = dfg
            /\ TPop(n, {})
    /\ UNCHANGED <<ctl, ctodo, cagain, ins, outs, pc, entry>>

\* Mutant: the open ports are erased, the child is not cleaned again.
InstEnterShallow ==
    LET open == {p \in DOMAIN dfg.p2s : dfg.p2s[p] = Open}
    IN  /\ pc = "top" /\ Inst \in TFront
        /\ ins' = InNodes(dfg.tarcs, Inst)
        /\ outs' = OutNodes(dfg.tarcs, Inst)
        /\ TPop(Inst, {})
        /\ dfg' = [dfg EXCEPT !.p2s = [p \in DOMAIN @ \ open |-> @[p]]]
        /\ pc' = "resume"
        /\ UNCHANGED <<ctl, ctodo, cagain, entry>>

\* The instance branch up to the child's loop: remove_useless_ports erases
\* the open ports from port2sig, and only if there are any is the child
\* cleaned again.
InstEnter ==
    LET open == {p \in DOMAIN dfg.p2s : dfg.p2s[p] = Open}
    IN  /\ pc = "top" /\ Inst \in TFront
        /\ ins' = InNodes(dfg.tarcs, Inst)
        /\ outs' = OutNodes(dfg.tarcs, Inst)
        /\ TPop(Inst, {})
        /\ dfg' = [dfg EXCEPT !.p2s = [p \in DOMAIN @ \ open |-> @[p]]]
        /\ IF open # {} THEN pc' = "nested" /\ ctodo' = dfg.cnodes
                        ELSE pc' = "resume" /\ ctodo' = ctodo
        /\ UNCHANGED <<ctl, cagain, entry>>

\* The rest of the branch: the arcs of signals that no port is mapped to any
\* more are removed and those signals are examined again; an instance that
\* drives nothing is removed, and all its neighbours are examined again.
LostIn  == {s \in ins : s \notin DOMAIN dfg.s2p}
LostOut == {s \in outs : s \notin DOMAIN dfg.s2p}

InstEmpty(d) == DOMAIN d.s2p = {} \/ OutNodes(d.tarcs, Inst) = {}

InstResume ==
    LET d == [dfg EXCEPT !.tarcs = @ \ ((LostIn \X {Inst}) \cup ({Inst} \X LostOut))]
        gone == InstEmpty(d)
    IN  /\ pc = "resume"
        /\ dfg' = IF gone THEN RemoveInst(d) ELSE d
        /\ tagain' = tagain \cup
              ((IF gone THEN ins \cup outs ELSE LostIn \cup LostOut) \ ttodo)
        /\ pc' = "top" /\ ins' = {} /\ outs' = {}
        /\ UNCHANGED <<ctl, ttodo, ctodo, cagain, entry>>

Finish ==
    /\ pc = "top" /\ TFront = {}
    /\ pc' = "done"
    /\ UNCHANGED <<dfg, ctl, ttodo, tagain, ctodo, cagain, ins, outs, entry>>

Next ==
    \/ \E a \in ctl : CutControl(a)
    \/ StartChild
    \/ \E n \in CNode : ChildStep(n)
    \/ ChildReturn
    \/ \E n \in TNode : TopStep(n)
    \/ InstEnter
    \/ InstResume
    \/ Finish

Spec == Init /\ [][Next]_vars /\ WF_vars(Next)
-----------------------------------------------------------------------------
(***************************************************************************)
(* Properties                                                              *)
(***************************************************************************)
TypeOK ==
    /\ dfg.tnodes \subseteq TNode \cup {Inst} /\ dfg.cnodes \subseteq CNode
    /\ dfg.tarcs \subseteq dfg.tnodes \X dfg.tnodes
    /\ dfg.carcs \subseteq dfg.cnodes \X dfg.cnodes
    /\ DOMAIN dfg.p2s \subseteq Port
    /\ \A p \in DOMAIN dfg.p2s : dfg.p2s[p] \in Sig \cup {Open}
    /\ \A s \in DOMAIN dfg.s2p : s \in Sig \cup {Open} /\ dfg.s2p[s] \subseteq Port
    /\ ctl \subseteq dfg.tarcs
    /\ pc \in {"cut", "child", "top", "nested", "resume", "done"}

\* The two port maps are inverse to each other, and name only ports that the
\* child still has, at every step of the nested edits.
MapsAgree ==
    /\ DOMAIN dfg.p2s \subseteq dfg.cnodes
    /\ \A p \in Port, s \in Sig :
          (p \in DOMAIN dfg.p2s /\ dfg.p2s[p] = s)
            <=> (s \in DOMAIN dfg.s2p /\ p \in dfg.s2p[s])

\* The assertions of dfgNode::check_integrity hold where remove_control_nodes
\* calls it: every signal with an arc to or from the instance is mapped to a
\* port, every mapped port has its arcs, every port node has its entry.
Integrity ==
    pc = "done" /\ Inst \in dfg.tnodes =>
      /\ \A s \in InNodes(dfg.tarcs, Inst) \cup OutNodes(dfg.tarcs, Inst) :
            s \in DOMAIN dfg.s2p /\ dfg.s2p[s] # {}
      /\ \A p \in DOMAIN dfg.p2s :
            dfg.p2s[p] # Open =>
              /\ Reads(p)  => <<dfg.p2s[p], Inst>> \in dfg.tarcs
              /\ Drives(p) => <<Inst, dfg.p2s[p]>> \in dfg.tarcs
      /\ dfg.cnodes \cap Port \subseteq DOMAIN dfg.p2s

\* Neither loop examines a node that is no longer in its graph, although the
\* child's loop edits the top graph and the top graph's loop empties the child.
WorklistsAlive ==
    /\ ttodo \cup tagain \subseteq dfg.tnodes
    /\ ctodo \cup cagain \subseteq dfg.cnodes

\* The design on entry connects no signal to two ports of the instance.
Plain(d) == \A x, y \in DOMAIN d.p2s :
               d.p2s[x] = d.p2s[y] /\ d.p2s[x] # Open => x = y

\* No useless node is left in the top graph of a plain design, and no instance
\* without outputs.
PlainTopClean ==
    pc = "done" /\ Plain(entry) =>
      /\ \A n \in dfg.tnodes \ {Inst} : ~UselessTop(dfg, n)
      /\ Inst \in dfg.tnodes => OutNodes(dfg.tarcs, Inst) # {}

\* No useless node is left in the child of a plain design: each change the
\* top graph's loop makes to its ports is followed by another call of the
\* child's loop.
ChildClean ==
    pc = "done" /\ Plain(entry) => \A n \in dfg.cnodes : ~UselessChild(dfg, n)

(***************************************************************************)
(* The design on entry, seen through the hierarchy: W supports itself if   *)
(* each of its nodes is of use when W is all that is left, a port also     *)
(* needs its signal in W, and a part of the instance needs one of its      *)
(* outputs in W.                                                           *)
(***************************************************************************)
HierArcs(d, W) ==
    Within(d.tarcs, W)
      \cup {<<d.p2s[p], Inst>> : p \in {x \in W \cap DOMAIN d.p2s : Reads(x)}}
      \cup {<<Inst, d.p2s[p]>> : p \in {x \in W \cap DOMAIN d.p2s : Drives(x)}}

SelfSupporting(d, W) ==
    /\ \A n \in W \cap TNode : ~Useless(TKind[n], HierArcs(d, W), n, FALSE)
    /\ \A n \in W \cap CNode : ~Useless(CKind[n], Within(d.carcs, W), n, FALSE)
    /\ \A p \in W \cap Port : ~PortOpen(d, p) /\ d.p2s[p] \in W
    /\ W \cap CNode # {} => \E p \in W \cap Port : Drives(p)

\* What lies on a live path through the hierarchy is still there at the end
\* (and was there all along: the passes only remove).
HierCoreKept ==
    pc = "done" =>
      \A W \in SUBSET (TNode \cup entry.cnodes) :
         SelfSupporting(entry, W) => W \subseteq dfg.tnodes \cup dfg.cnodes

\* The same of designs in which no signal feeds two ports.
PlainCoreKept == Plain(entry) => HierCoreKept

\* The passes end.
Terminates == <>(pc = "done")
=============================================================================
