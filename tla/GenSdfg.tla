------------------------------ MODULE GenSdfg -------------------------------
(***************************************************************************)
(* Module::extract_sdfg of one module: from the relation trees of its      *)
(* statements and the connections of its instance to a data flow graph.    *)
(* A signal may be written and read in pieces, and each piece becomes a    *)
(* node of its own; connect_partial_nodes and correct_conections then have *)
(* to join the pieces so that every reader is fed by the writers of its    *)
(* bits, and by no others.                                                 *)
(*                                                                         *)
(* A node is <<name, bits>>, its range as a set of bits (empty for a       *)
(* signal without range).  An edge is kept with the type it was drawn      *)
(* with; edges that differ in it alone are alike in the graph.  The leaves *)
(* of a relation tree are as in RForest.                                   *)
(***************************************************************************)
EXTENDS PathType, SequencesExt

CONSTANTS Designs,   \* bound: the modules, as records of what is in them
          Full,      \* the bits of each signal
          Inst,      \* the instance
          Exp,       \* the name that UniName makes for an expression
          Open       \* the empty signal name

VARIABLES design,    \* ports: the direction of each port, by signal;
                     \* stmts: sequence of [kind, trees, pulse];
                     \* conns: sequence of [port, dir, kind, sig, bits, leaves]
          types,     \* the nodes and their types (nodes, node_map)
          edges,
          p2s,       \* port2sig of the instance; sig2port is its inverse
          next,      \* the next statement or connection
          pc

vars == <<design, types, edges, p2s, next, pc>>

Overlap(b, c) == b \cap c # {}

\* dfgRangeMap::toRange: the longest intervals of a set of bits.
Runs(bits) == {b .. c : b, c \in bits} \cap SUBSET bits
Intervals(bits) ==
    IF bits = {} THEN {{}}
    ELSE {r \in Runs(bits) \ {{}} : \A q \in Runs(bits) : r \subseteq q => q = r}

Signal(x)   == <<x, Full[x]>>
PortNode(x) == <<<<"port", x>>, {}>>
InstNode    == <<Inst, {}>>
ExpNode(k)  == <<<<Exp, k>>, {}>>

PortType(dir) == IF dir = "in" THEN "IPORT" ELSE IF dir = "out" THEN "OPORT" ELSE "PORT"
IsPort(n)     == types[n] \in {"IPORT", "OPORT", "PORT"}

\* add_node for those of N that do not exist; with set, their type is new
\* in any case.
Ensure(ty, N, t) == [n \in DOMAIN ty \cup N |-> IF n \in N THEN t ELSE ty[n]]
Missed(ty, N, t) == [n \in DOMAIN ty \cup N |-> IF n \in DOMAIN ty THEN ty[n] ELSE t]

\* add_edge: the edges are a set, so there is no second edge of the same type
\* between the same nodes.
Edge(s, t, type, was) == [src |-> s, tgt |-> t, type |-> type, was |-> was]
AddEdges(E, new)      == E \cup {Edge(a[1], a[2], a[3], a[3]) : a \in new}

\* add_edge_multi: one edge for each bit of the type.
Bits(type) == IF type = {} THEN {"DF"} ELSE type

-----------------------------------------------------------------------------
Init ==
    /\ design \in Designs
    /\ types = [n \in {} |-> "DF"] /\ edges = {}
    /\ p2s = [p \in {} |-> Open]
    /\ next = 1 /\ pc = "ports"

PortArcs(ports) ==
    {<<Signal(x), PortNode(x), "ASS">> : x \in {y \in DOMAIN ports : ports[y] # "in"}} \cup
    {<<PortNode(x), Signal(x), "ASS">> : x \in {y \in DOMAIN ports : ports[y] # "out"}}

\* The ports with their signals, then the instance.
DrawPorts ==
    LET ports == design.ports
        ofPort == [n \in {PortNode(x) : x \in DOMAIN ports} |->
                     PortType(ports[CHOOSE x \in DOMAIN ports : n = PortNode(x)])]
    IN  /\ pc = "ports"
        /\ types' = Missed(Missed(ofPort, {Signal(x) : x \in DOMAIN ports}, "DF"),
                           {InstNode : c \in ToSet(design.conns)}, "MODULE")
        /\ edges' = AddEdges({}, PortArcs(ports))
        /\ pc' = "stmts"
        /\ UNCHANGED <<design, p2s, next>>

\* The relations of a statement, get_plain_map: from an interval of a source
\* to an interval of a target.
LeafRelations(t, k) ==
    {[src |-> <<k[1], b>>, tgt |-> <<t.name, c>>, type |-> k[2]] :
        b \in Intervals(t.leaves[k]), c \in Intervals(t.select)}
Relations(trees) == UNION {UNION {LeafRelations(t, k) : k \in DOMAIN t.leaves} : t \in trees}

Targets(trees) == UNION {{t.name} \X Intervals(t.select) : t \in trees}
Drawn(rels)    == UNION {{<<r.src, r.tgt, b>> : b \in Bits(r.type)} : r \in rels}

\* Assign::gen_sdfg.
GenAssign(st) ==
    LET rels == Relations(st.trees)
    IN  /\ types' = Missed(Ensure(types, {r.tgt : r \in rels}, "COMB"),
                           {r.src : r \in rels}, "DF")
        /\ edges' = AddEdges(edges, Drawn(rels))

\* The first loop of SeqBlock::gen_sdfg: default self loops of combinational
\* blocks are left out.
SeqRelations(st) ==
    {r \in Relations(st.trees) : st.pulse = {} => r.type # {"DDP"}}

\* The signals of the conditions, and those in the sensitivity list that are
\* among them: resets.  The other one is the clock.
Controls(trees) ==
    UNION {{k[1] : k \in {j \in DOMAIN t.leaves : Control(j[2]) # {}}} : t \in trees}
Resets(st) == st.pulse \cap Controls(st.trees)
Clock(st)  == <<CHOOSE c \in st.pulse \ Resets(st) : TRUE, {}>>

\* A target that no relation names has no node: its lookup yields NULL.
Lost(st) == Targets(st.trees) \ (DOMAIN types \cup {r.tgt : r \in SeqRelations(st)})

ClockArcs(st) == {<<Clock(st), n, "CLK">> : n \in Targets(st.trees)}

\* SeqBlock::gen_sdfg.
GenSeq(st) ==
    LET rels == SeqRelations(st)
        tgts  == Targets(st.trees)
        named == Missed(types, {r.src : r \in rels} \cup {r.tgt : r \in rels}, "DF")
    IN  /\ Lost(st) = {}
        /\ IF st.pulse = {}
           THEN /\ types' = Ensure(named, tgts, "COMB")
                /\ edges' = AddEdges(edges, Drawn(rels))
           ELSE /\ types' = Missed(Ensure(named, tgts, "FF"), {Clock(st)}, "DF")
                /\ edges' = {IF e.tgt \in tgts /\ e.src[1] \in Resets(st)
                             THEN Edge(e.src, e.tgt, "RST", e.was) ELSE e :
                               e \in AddEdges(edges, Drawn(rels) \cup ClockArcs(st))}

Statement ==
    /\ pc = "stmts" /\ next <= Len(design.stmts)
    /\ LET st == design.stmts[next]
       IN  IF st.kind = "assign" THEN GenAssign(st) ELSE GenSeq(st)
    /\ next' = next + 1
    /\ UNCHANGED <<design, p2s, pc>>

\* The NULL is used: undefined behaviour, no graph is made.
StatementLost ==
    /\ pc = "stmts" /\ next <= Len(design.stmts)
    /\ design.stmts[next].kind = "always" /\ Lost(design.stmts[next]) # {}
    /\ pc' = "lost"
    /\ UNCHANGED <<design, types, edges, p2s, next>>

StartInst ==
    /\ pc = "stmts" /\ next > Len(design.stmts)
    /\ pc' = "inst" /\ next' = 1
    /\ UNCHANGED <<design, types, edges, p2s>>

\* What a port is connected to.
ConnNode(c) == IF c.kind = "exp" THEN ExpNode(c.port)
               ELSE IF c.kind = "var" THEN <<c.sig, c.bits>> ELSE Open

\* Inputs are drawn into the instance, outputs out of it, inouts both ways.
ConnEnds(c, n) == {<<n, InstNode, "ASS">> : d \in {c.dir} \ {"out"}} \cup
                  {<<InstNode, n, "ASS">> : d \in {c.dir} \ {"in"}}

\* The uses of a signal by the expression of a connection.
ConnUses(c) ==
    UNION {{<<<<k[1], s>>, ConnNode(c), b>> : s \in Intervals(c.leaves[k]), b \in Bits(k[2])} :
             k \in DOMAIN c.leaves}

\* Constants and open ports have no edge.
ConnArcs(c) == {b \in ConnUses(c) : c.kind = "exp"} \cup
               {b \in ConnEnds(c, ConnNode(c)) : c.kind \in {"exp", "var"}}

\* Instance::gen_sdfg, one connection.
Connection ==
    LET c == design.conns[next]
        n == ConnNode(c)
    IN  /\ pc = "inst" /\ next <= Len(design.conns)
        /\ \/ c.kind = "exp" /\ types' = Missed(Ensure(types, {n}, "COMB"), {u[1] : u \in ConnUses(c)}, "DF")
           \/ c.kind = "var" /\ types' = Missed(types, {n}, "DF")
           \/ c.kind \notin {"exp", "var"} /\ types' = types
        /\ edges' = AddEdges(edges, ConnArcs(c))
        /\ p2s' = Ensure(p2s, {c.port}, n)
        /\ next' = next + 1
        /\ UNCHANGED <<design, pc>>

-----------------------------------------------------------------------------
Sources(n) == {e.src : e \in {d \in edges : d.tgt = n}}

\* The pairs of nodes of one signal, from one that is fed to one that is not.
Joinable == {a \in (DOMAIN types) \X (DOMAIN types) :
                /\ a[1][1] = a[2][1] /\ ~IsPort(a[2])
                /\ Sources(a[1]) # {} /\ Sources(a[2]) = {}}

\* Mutant: only a piece that lies in the other one is connected.
JoinedInside == {a \in Joinable : a[1][2] \subseteq a[2][2]}

\* connect_partial_nodes: a node that nothing feeds is fed by the pieces of
\* its signal that are.
Joined == {a \in Joinable : Overlap(a[2][2], a[1][2])}

ConnectPartial ==
    /\ pc = "inst" /\ next > Len(design.conns)
    /\ edges' = AddEdges(edges, {<<a[1], a[2], "ASS">> : a \in Joined})
    /\ pc' = "correct"
    /\ UNCHANGED <<design, types, p2s, next>>

Driven(x) == {n \in DOMAIN types : n[1] = x /\ types[n] \in {"FF", "COMB"}}

\* Mutant: all the other pieces of a signal.
RedundantAny == {n \in DOMAIN types : Driven(n[1]) # {} /\ n \notin Driven(n[1])}

\* The other pieces of a signal, when registers and combinational nodes cover
\* them.
Redundant ==
    {n \in DOMAIN types :
       /\ Driven(n[1]) # {} /\ n \notin Driven(n[1])
       /\ n[2] \subseteq UNION {m[2] : m \in Driven(n[1])}}

\* correct_conections moves the edges into such a piece from elsewhere, and
\* those from it within its signal, to the driven nodes that overlap it.
Elsewhere == {e \in edges : e.tgt \in Redundant /\ e.src[1] # e.tgt[1]}
Inside    == {e \in edges : e.src \in Redundant /\ e.src[1] = e.tgt[1]}
Share(n)  == {m \in Driven(n[1]) : Overlap(m[2], n[2])}
Moved     == (UNION {{Edge(e.src, m, e.type, e.was) : m \in Share(e.tgt)} : e \in Elsewhere}) \cup
             (UNION {{Edge(m, e.tgt, e.type, e.was) : m \in Share(e.src)} : e \in Inside})

\* remove_edge takes the ports of the instance off a signal whose edge goes.
Correct ==
    LET gone == Elsewhere \cup Inside
        drives == {c.port : c \in {d \in ToSet(design.conns) : d.dir # "in"}}
        off == {p \in drives : \E e \in gone : e.src = InstNode /\ e.tgt = p2s[p]}
    IN  /\ pc = "correct"
        /\ edges' = (edges \cup Moved) \ gone
        /\ p2s' = [p \in DOMAIN p2s |-> IF p \in off THEN Open ELSE p2s[p]]
        /\ pc' = "done"
        /\ UNCHANGED <<design, types, next>>

\* The designs: names are those of the signals, and the instance, the port nodes
\* and the expressions have names of their own; a statement selects bits of the
\* signals it assigns; one signal in a sensitivity list is the clock, as the
\* assertion on clks says; each port has one connection, with a range if its
\* signal has one.
Signals == DOMAIN Full
Named(leaves) == \A k \in DOMAIN leaves : k[1] \in Signals

StatementOK(st) ==
    /\ st.kind \in {"assign", "always"} /\ st.pulse \subseteq Signals
    /\ st.pulse # {} => \E c \in st.pulse : st.pulse \ Resets(st) = {c}
    /\ \A t \in st.trees : t.name \in Signals /\ t.select \subseteq Full[t.name] /\ Named(t.leaves)

ConnOK(c) ==
    /\ c.kind = "exp" => Named(c.leaves) /\ <<Exp, c.port>> \notin Signals \cup {Inst} \cup {<<"port", x>> : x \in Signals}
    /\ c.kind = "var" => c.sig \in Signals /\ (c.bits = {} => Full[c.sig] = {})

NameAssumption == Inst \notin Signals /\ \A x \in Signals : <<"port", x>> \notin Signals \cup {Inst}

DesignAssumption ==
    \A de \in Designs :
      /\ DOMAIN de.ports \subseteq Signals
      /\ de.stmts \in Seq(ToSet(de.stmts)) /\ \A st \in ToSet(de.stmts) : StatementOK(st)
      /\ de.conns \in Seq(ToSet(de.conns)) /\ \A c \in ToSet(de.conns) : ConnOK(c)
      /\ \A i, j \in DOMAIN de.conns : de.conns[i].port = de.conns[j].port => i = j

ASSUME Assumptions == NameAssumption /\ DesignAssumption

Next == DrawPorts \/ Statement \/ StatementLost \/ StartInst \/ Connection
          \/ ConnectPartial \/ Correct

Spec == Init /\ [][Next]_vars

-----------------------------------------------------------------------------
Clocked(st) == st.kind = "always" /\ st.pulse # {}
Flows(st)   == IF st.kind = "assign" THEN Relations(st.trees) ELSE SeqRelations(st)

\* What reads a signal: the bits, the reader, and the kind of use.
Read(n, by, as) == [sig |-> n[1], bits |-> n[2], by |-> by, as |-> as]
Reads ==
    LET stmts == ToSet(design.stmts)
        conns == ToSet(design.conns)
    IN  (UNION {UNION {{Read(r.src, r.tgt, b) : b \in Bits(r.type)} : r \in Flows(st)} : st \in stmts})
          \cup (UNION {{Read(Clock(st), n, "CLK") : n \in Targets(st.trees)} : st \in {s \in stmts : Clocked(s)}})
          \cup {Read(Signal(x), PortNode(x), "ASS") : x \in {y \in DOMAIN design.ports : design.ports[y] # "in"}}
          \cup (UNION {{Read(u[1], u[2], u[3]) : u \in ConnUses(c)} : c \in {d \in conns : d.kind = "exp"}})
          \cup {Read(ConnNode(c), InstNode, "ASS") : c \in {d \in conns : d.kind = "var" /\ d.dir # "out"}}

\* A signal without range is read and written as a whole.
Meet(b, c) == b = c \/ Overlap(b, c)

\* What a statement drives; a constant that is assigned has no node.
Drives(st) == IF st.kind = "assign" THEN {r.tgt : r \in Relations(st.trees)} ELSE Targets(st.trees)

\* What writes some bits of a signal.
Write(n, by) == [sig |-> n[1], bits |-> n[2], by |-> by]
Writes ==
    (UNION {{Write(n, n) : n \in Drives(st)} : st \in ToSet(design.stmts)}) \cup
    {Write(Signal(x), PortNode(x)) : x \in {y \in DOMAIN design.ports : design.ports[y] # "out"}} \cup
    {Write(ConnNode(c), InstNode) : c \in {d \in ToSet(design.conns) : d.kind = "var" /\ d.dir # "in"}}

Writers(x, bits) == {w.by : w \in {v \in Writes : v.sig = x /\ Meet(v.bits, bits)}}

\* What feeds a node: itself when it computes, else what it is connected to.
\* A piece is connected to pieces that something feeds directly.
Computes(n) == types[n] # "DF"
Near(n)     == IF Computes(n) THEN {n} ELSE Sources(n)
Origins(n)  == IF Computes(n) THEN {n} ELSE UNION {Near(m) : m \in Sources(n)}
Uses(rd)    == {e \in edges : e.tgt = rd.by /\ e.was = rd.as /\ e.src[1] = rd.sig}
Feeding(rd) == UNION {Origins(e.src) : e \in Uses(rd)}

\* The reads by one reader of one signal, and whether all their bits have one
\* writer at most.
Alike(rd)  == {r \in Reads : r.sig = rd.sig /\ r.by = rd.by /\ r.as = rd.as}
Single(rd) == \A v, w \in Writes : v.sig = rd.sig /\ w.sig = rd.sig /\ v # w => ~Meet(v.bits, w.bits)

\* A combinational node that nothing feeds has the value of a constant.
Constant(n) == n \in DOMAIN types /\ types[n] = "COMB" /\ Sources(n) = {}

\* However the writers and the readers divide a signal without bits that are
\* driven twice, a read of some bits is fed by all that writes one of them, but
\* for constants, and a reader by nothing that writes only bits it does not read.
Fed == pc = "done" => \A rd \in Reads : Single(rd) =>
    /\ {n \in Writers(rd.sig, rd.bits) : ~Constant(n)} \subseteq Feeding(rd)
    /\ Feeding(rd) \subseteq UNION {Writers(r.sig, r.bits) : r \in Alike(rd)}

\* The signals of ports that drive them, where the module drives all the bits
\* as well, and not as one piece: correct_conections takes them apart.
Covered(n) == Driven(n[1]) # {} /\ n \notin Driven(n[1]) /\ n[2] \subseteq UNION {m[2] : m \in Driven(n[1])}
Torn == {n \in {ConnNode(c) : c \in {d \in ToSet(design.conns) : d.kind = "var" /\ d.dir # "in"}} : Covered(n)}

\* The assertions of dfgNode::check_integrity on the instance: its arcs are
\* in the port map, and a port that is connected has its arcs, also when an
\* inout port is on a signal the module drives in part.
ArcsMapped ==
    pc = "done" =>
      /\ \A e \in edges : e.tgt = InstNode /\ e.src \notin Torn => \E p \in DOMAIN p2s : p2s[p] = e.src
      /\ \A e \in edges : e.src = InstNode =>
            \/ \E p \in DOMAIN p2s : p2s[p] = e.tgt
            \/ \E n \in Torn : e.tgt \in Share(n)
      /\ \A c \in ToSet(design.conns) : p2s[c.port] # Open =>
            /\ c.dir # "in"  => p2s[c.port] \in {e.tgt : e \in {d \in edges : d.src = InstNode}}
            /\ c.dir # "out" => p2s[c.port] \in Sources(InstNode)
=============================================================================
