--------------------------- MODULE GenSdfg_proofs ---------------------------
(***************************************************************************)
(* The data flow graph of a module: Fed and ArcsMapped hold for all        *)
(* modules.  Ports, statements and connections add arcs that depend on     *)
(* nothing but themselves, so that the graph before connect_partial_nodes  *)
(* is known from the module (Base), up to the types of edges; what the two *)
(* corrections make of it is known as well (Joining, LastArcs).  The       *)
(* invariant says that the graph is this one.  The rest is about modules   *)
(* and their arcs: in a signal whose bits have one writer each, a piece    *)
(* that something drives from outside is never redundant, a wire keeps     *)
(* what is drawn into it or gets all the pieces that overlap it, and a     *)
(* read of a redundant piece is moved to the driven pieces of its bits.    *)
(* The last section is about the intervals that pieces are made of.        *)
(***************************************************************************)
EXTENDS GenSdfg, RangeElement, TLAPS

\* The arcs that a statement draws; all that are drawn for the statements S
\* and the connections C; what S drives; and the arcs of a set of edges.

StmtArcs(st)   == Drawn(Flows(st)) \cup (IF Clocked(st) THEN ClockArcs(st) ELSE {})
Base(de, S, C) == PortArcs(de.ports) \cup (UNION {StmtArcs(st) : st \in S}) \cup (UNION {ConnArcs(c) : c \in C})
DrivenBy(S)    == UNION {Drives(st) : st \in S}
Triples(E)     == {<<e.src, e.tgt, e.was>> : e \in E}

\* A relation of get_plain_map goes from a signal to a target of its
\* statement.
LEMMA RelationEnds ==
    ASSUME NEW st, StatementOK(st), NEW r \in Relations(st.trees)
    PROVE  /\ r.src[1] \in Signals /\ r.src = <<r.src[1], r.src[2]>>
           /\ r.tgt \in Targets(st.trees)
<1>1. PICK t \in st.trees : r \in UNION {LeafRelations(t, k) : k \in DOMAIN t.leaves}
  BY DEF Relations
<1>2. PICK k \in DOMAIN t.leaves : r \in LeafRelations(t, k)
  BY <1>1
<1>3. PICK b \in Intervals(t.leaves[k]), c \in Intervals(t.select) :
        r = [src |-> <<k[1], b>>, tgt |-> <<t.name, c>>, type |-> k[2]]
  BY <1>2 DEF LeafRelations
<1>4. k[1] \in Signals
  BY DEF StatementOK, Named
<1>5. r.tgt \in {t.name} \X Intervals(t.select)
  BY <1>3
<1> QED
  BY <1>3, <1>4, <1>5 DEF Targets

\* The targets of a statement are pieces of signals.
LEMMA TargetNamed ==
    ASSUME NEW st, StatementOK(st), NEW n \in Targets(st.trees)
    PROVE  n[1] \in Signals /\ n[2] \subseteq Full[n[1]] /\ n = <<n[1], n[2]>>
<1>1. PICK t \in st.trees : n \in {t.name} \X Intervals(t.select)
  BY DEF Targets
<1>2. PICK c \in Intervals(t.select) : n = <<t.name, c>>
  BY <1>1
<1>3. c \subseteq t.select
  <2>1. CASE t.select = {}
    BY <2>1 DEF Intervals
  <2>2. CASE t.select # {}
    BY <2>2 DEF Intervals, Runs
  <2> QED BY <2>1, <2>2
<1> QED
  BY <1>2, <1>3 DEF StatementOK

\* The arcs of a statement go from signals to what it drives.
LEMMA StmtArcEnds ==
    ASSUME NEW st, StatementOK(st), NEW b \in StmtArcs(st)
    PROVE  /\ b[1][1] \in Signals
           /\ b[2] \in Drives(st)
<1>1. CASE b \in Drawn(Flows(st))
  <2>1. PICK r \in Flows(st) : b \in {<<r.src, r.tgt, y>> : y \in Bits(r.type)}
    BY <1>1 DEF Drawn
  <2>2. r \in Relations(st.trees)
    BY DEF Flows, SeqRelations
  <2>3. r.tgt \in Drives(st)
    BY <2>2, RelationEnds DEF Drives
  <2> QED
    BY <2>1, <2>2, <2>3, RelationEnds
<1>2. CASE Clocked(st) /\ b \in ClockArcs(st)
  <2>1. PICK n \in Targets(st.trees) : b = <<Clock(st), n, "CLK">>
    BY <1>2 DEF ClockArcs
  <2>2. st.kind = "always" /\ st.pulse # {}
    BY <1>2 DEF Clocked
  <2>3. PICK c \in st.pulse : st.pulse \ Resets(st) = {c}
    BY <2>2 DEF StatementOK
  <2>4. Clock(st)[1] \in st.pulse
    BY <2>3 DEF Clock
  <2>5. st.pulse \subseteq Signals
    BY DEF StatementOK
  <2> QED
    BY <2>1, <2>2, <2>4, <2>5 DEF Drives
<1> QED
  BY <1>1, <1>2 DEF StmtArcs

\* So do the nodes that a statement drives: they are pieces of signals.
LEMMA DrivesNamed ==
    ASSUME NEW st, StatementOK(st), NEW n \in Drives(st)
    PROVE  n[1] \in Signals /\ n[2] \subseteq Full[n[1]] /\ n = <<n[1], n[2]>>
<1>1. n \in Targets(st.trees)
  BY RelationEnds DEF Drives
<1> QED
  BY <1>1, TargetNamed

Connects(c) == c.kind \in {"exp", "var"}

\* The arcs of a connection of the instance: between the instance and what
\* the port is on, or from a signal into the expression that it is on.
LEMMA ConnArcEnds ==
    ASSUME NEW c, ConnOK(c), NEW b \in ConnArcs(c)
    PROVE  /\ Connects(c)
           /\ \/ b = <<ConnNode(c), InstNode, "ASS">> /\ c.dir # "out"
              \/ b = <<InstNode, ConnNode(c), "ASS">> /\ c.dir # "in"
              \/ c.kind = "exp" /\ b \in ConnUses(c) /\ b[1][1] \in Signals /\ b[2] = ConnNode(c)
<1>1. CASE b \in ConnEnds(c, ConnNode(c)) /\ Connects(c)
  <2>1. CASE b \in {<<ConnNode(c), InstNode, "ASS">> : d \in {c.dir} \ {"out"}}
    BY <1>1, <2>1
  <2>2. CASE b \in {<<InstNode, ConnNode(c), "ASS">> : d \in {c.dir} \ {"in"}}
    BY <1>1, <2>2
  <2> QED
    BY <1>1, <2>1, <2>2 DEF ConnEnds
<1>2. CASE c.kind = "exp" /\ b \in ConnUses(c)
  <2>1. PICK k \in DOMAIN c.leaves :
          b \in {<<<<k[1], s>>, ConnNode(c), y>> : s \in Intervals(c.leaves[k]), y \in Bits(k[2])}
    BY <1>2 DEF ConnUses
  <2>2. PICK s \in Intervals(c.leaves[k]), y \in Bits(k[2]) : b = <<<<k[1], s>>, ConnNode(c), y>>
    BY <2>1
  <2>3. k[1] \in Signals
    BY <1>2 DEF ConnOK, Named
  <2>4. Connects(c)
    BY <1>2 DEF Connects
  <2> QED
    BY <1>2, <2>2, <2>3, <2>4
<1> QED
  BY <1>1, <1>2 DEF ConnArcs, Connects

\* The arcs of a port, between its node and its signal.
LEMMA PortArcEnds ==
    ASSUME NEW ports, NEW b \in PortArcs(ports)
    PROVE  \E x \in DOMAIN ports :
             \/ b = <<Signal(x), PortNode(x), "ASS">> /\ ports[x] # "in"
             \/ b = <<PortNode(x), Signal(x), "ASS">> /\ ports[x] # "out"
BY DEF PortArcs

IsTriple(b) == b = <<b[1], b[2], b[3]>>

\* Arcs are triples of two nodes and a type; those of ports,
LEMMA PortTriples ==
    ASSUME NEW ports, NEW b \in PortArcs(ports)
    PROVE  IsTriple(b)
BY PortArcEnds DEF IsTriple

\* those of statements,
LEMMA StmtTriples ==
    ASSUME NEW st, NEW b \in StmtArcs(st)
    PROVE  IsTriple(b)
BY DEF StmtArcs, Drawn, ClockArcs, IsTriple

\* and those of connections.
LEMMA ConnTriples ==
    ASSUME NEW c, NEW b \in ConnArcs(c)
    PROVE  IsTriple(b)
<1>1. CASE b \in ConnUses(c)
  BY <1>1 DEF ConnUses, IsTriple
<1>2. CASE b \in ConnEnds(c, ConnNode(c))
  BY <1>2 DEF ConnEnds, IsTriple
<1> QED
  BY <1>1, <1>2 DEF ConnArcs

-----------------------------------------------------------------------------
\* The types of the nodes when the statements S have been drawn.
OtherNode(de, n, ty) ==
    \/ n = InstNode /\ ty = "MODULE"
    \/ ty \in {"IPORT", "OPORT", "PORT"} /\ \E x \in DOMAIN de.ports : n = PortNode(x)
    \/ ty = "COMB" /\ \E c \in ToSet(de.conns) : c.kind = "exp" /\ n = ExpNode(c.port)

SignalNode(S, n, ty) ==
    /\ ty \in {"DF", "FF", "COMB"} /\ (ty # "DF" <=> n \in DrivenBy(S))
    /\ ty = "FF" => \E st \in S : Clocked(st) /\ n \in Targets(st.trees)

Ends(B, N)          == \A b \in B : b[1] \in N /\ b[2] \in N
SignalsOK(S, ty)    == DrivenBy(S) \subseteq DOMAIN ty /\ \A n \in DOMAIN ty : n[1] \in Signals => SignalNode(S, n, ty[n])
OthersOK(de, ty)    == \A n \in DOMAIN ty : n[1] \notin Signals => OtherNode(de, n, ty[n])
InstOK(de, ty)      == ToSet(de.conns) # {} => InstNode \in DOMAIN ty

NodesOK(de, S, C, ty) ==
    Ends(Base(de, S, C), DOMAIN ty) /\ SignalsOK(S, ty) /\ OthersOK(de, ty) /\ InstOK(de, ty)

\* What a statement does to the nodes, of both kinds.
Typed(st, ty, new) ==
    /\ DOMAIN ty \cup Drives(st) \subseteq DOMAIN new
    /\ \A b \in StmtArcs(st) : b[1] \in DOMAIN new
    /\ \A n \in DOMAIN new \ DOMAIN ty : n[1] \in Signals
    /\ \A n \in Drives(st) : new[n] = "COMB" \/ (new[n] = "FF" /\ Clocked(st) /\ n \in Targets(st.trees))
    /\ \A n \in DOMAIN new \ Drives(st) : new[n] = IF n \in DOMAIN ty THEN ty[n] ELSE "DF"

\* A statement that does this to the nodes keeps what is said of them.
LEMMA TypedKeeps ==
    ASSUME NEW de, NEW S, NEW C, NEW ty, NEW new, NEW st, StatementOK(st),
           NodesOK(de, S, C, ty), Typed(st, ty, new)
    PROVE  NodesOK(de, S \cup {st}, C, new)
<1>1. DrivenBy(S \cup {st}) = DrivenBy(S) \cup Drives(st)
  BY DEF DrivenBy
<1>2. Ends(Base(de, S \cup {st}, C), DOMAIN new)
  <2>1. SUFFICES ASSUME NEW b \in Base(de, S \cup {st}, C) PROVE b[1] \in DOMAIN new /\ b[2] \in DOMAIN new
    BY DEF Ends
  <2>2. CASE b \in StmtArcs(st)
    BY <2>2, StmtArcEnds DEF Typed
  <2>3. CASE b \in Base(de, S, C)
    BY <2>3 DEF Typed, NodesOK, Ends
  <2> QED
    BY <2>2, <2>3 DEF Base
<1>3. SignalsOK(S \cup {st}, new)
  <2>1. DrivenBy(S \cup {st}) \subseteq DOMAIN new
    BY <1>1 DEF NodesOK, SignalsOK, Typed
  <2>2. ASSUME NEW n \in DOMAIN new, n[1] \in Signals PROVE SignalNode(S \cup {st}, n, new[n])
    <3>1. CASE n \in Drives(st)
      BY <3>1, <1>1 DEF SignalNode, Typed
    <3>2. CASE n \notin Drives(st) /\ n \in DOMAIN ty
      BY <3>2, <2>2, <1>1 DEF SignalNode, Typed, NodesOK, SignalsOK
    <3>3. CASE n \notin Drives(st) /\ n \notin DOMAIN ty
      BY <3>3, <2>2, <1>1 DEF SignalNode, Typed, NodesOK, SignalsOK
    <3> QED
      BY <3>1, <3>2, <3>3
  <2> QED
    BY <2>1, <2>2 DEF SignalsOK
<1>4. OthersOK(de, new)
  <2>1. SUFFICES ASSUME NEW n \in DOMAIN new, n[1] \notin Signals PROVE OtherNode(de, n, new[n])
    BY DEF OthersOK
  <2>2. n \in DOMAIN ty /\ n \notin Drives(st)
    BY <2>1, DrivesNamed DEF Typed
  <2> QED
    BY <2>1, <2>2 DEF Typed, NodesOK, OthersOK
<1>5. InstOK(de, new)
  BY DEF NodesOK, InstOK, Typed
<1> QED
  BY <1>2, <1>3, <1>4, <1>5 DEF NodesOK

\* The ends of the arcs of relations are the ends of the relations.
LEMMA DrawnFrom ==
    ASSUME NEW rels, NEW b \in Drawn(rels)
    PROVE  \E r \in rels : b[1] = r.src /\ b[2] = r.tgt
BY DEF Drawn

\* Assign::gen_sdfg: targets become combinational, sources are wires if they
\* are new.
LEMMA AssignTyped ==
    ASSUME NEW st, StatementOK(st), st.kind = "assign", GenAssign(st)
    PROVE  Typed(st, types, types')
<1> DEFINE rels == Relations(st.trees)
           srcs == {r.src : r \in rels}
           mid  == Ensure(types, Drives(st), "COMB")
<1>1. Drives(st) = {r.tgt : r \in rels}
  BY DEF Drives
<1>2. types' = Missed(mid, srcs, "DF")
  BY <1>1 DEF GenAssign
<1>3. \A b \in StmtArcs(st) : b[1] \in srcs
  <2>1. StmtArcs(st) = Drawn(rels)
    BY DEF StmtArcs, Flows, Clocked
  <2> QED
    BY <2>1, DrawnFrom
<1>4. \A n \in srcs \cup Drives(st) : n[1] \in Signals
  BY <1>1, RelationEnds, TargetNamed
<1> HIDE DEF srcs
<1>5. /\ DOMAIN mid = DOMAIN types \cup Drives(st)
      /\ \A n \in Drives(st) : mid[n] = "COMB"
      /\ \A n \in DOMAIN types \ Drives(st) : mid[n] = types[n]
  BY DEF Ensure
<1> HIDE DEF mid
<1>6. /\ DOMAIN types' = DOMAIN mid \cup srcs
      /\ \A n \in DOMAIN mid : types'[n] = mid[n]
      /\ \A n \in srcs \ DOMAIN mid : types'[n] = "DF"
  BY <1>2 DEF Missed
<1> QED
  BY <1>3, <1>4, <1>5, <1>6 DEF Typed

\* SeqBlock::gen_sdfg: targets become registers or combinational, the others
\* are wires if they are new, the clock among them.
LEMMA SeqTyped ==
    ASSUME NEW st, StatementOK(st), st.kind = "always", GenSeq(st)
    PROVE  Typed(st, types, types')
<1> DEFINE rels  == SeqRelations(st)
           ends  == {r.src : r \in rels} \cup {r.tgt : r \in rels}
           named == Missed(types, ends, "DF")
           ff    == Ensure(named, Drives(st), "FF")
           clk   == {Clock(st)}
<1>1. Drives(st) = Targets(st.trees)
  BY DEF Drives
<1>2. \A b \in Drawn(rels) : b[1] \in ends
  BY DrawnFrom
<1>3. \A n \in ends : n[1] \in Signals
  <2>1. rels \subseteq Relations(st.trees)
    BY DEF SeqRelations
  <2> QED
    BY <2>1, RelationEnds, TargetNamed
<1>4. Drives(st) \subseteq DOMAIN types \cup ends
  BY <1>1 DEF GenSeq, Lost
<1>5. \A n \in Drives(st) : n[1] \in Signals
  BY DrivesNamed
<1>6. Flows(st) = rels
  BY DEF Flows
<1>7. st.pulse = {} => types' = Ensure(named, Drives(st), "COMB")
  BY <1>1 DEF GenSeq
<1>8. st.pulse # {} => types' = Missed(ff, clk, "DF")
  BY <1>1 DEF GenSeq
<1> HIDE DEF rels, ends
<1>9. /\ DOMAIN named = DOMAIN types \cup ends
      /\ \A n \in DOMAIN types : named[n] = types[n]
      /\ \A n \in ends \ DOMAIN types : named[n] = "DF"
  BY DEF Missed
<1> HIDE DEF named
<1>10. CASE st.pulse = {}
  <2>1. StmtArcs(st) = Drawn(rels)
    BY <1>6, <1>10 DEF StmtArcs, Clocked
  <2>2. /\ DOMAIN types' = DOMAIN named \cup Drives(st)
        /\ \A n \in Drives(st) : types'[n] = "COMB"
        /\ \A n \in DOMAIN named \ Drives(st) : types'[n] = named[n]
    BY <1>7, <1>10 DEF Ensure
  <2> QED
    BY <1>2, <1>3, <1>5, <1>9, <2>1, <2>2 DEF Typed
<1>11. CASE st.pulse # {}
  <2>1. Clock(st)[1] \in Signals
    <3>1. PICK c \in st.pulse : st.pulse \ Resets(st) = {c}
      BY <1>11 DEF StatementOK
    <3> QED
      BY <3>1 DEF Clock, StatementOK
  <2>2. \A b \in StmtArcs(st) : b[1] \in ends \cup clk
    <3>1. SUFFICES ASSUME NEW b \in StmtArcs(st) PROVE b[1] \in ends \cup clk
      OBVIOUS
    <3>2. CASE b \in Drawn(rels)
      BY <3>2, <1>2
    <3>3. CASE b \in ClockArcs(st)
      BY <3>3 DEF ClockArcs
    <3> QED
      BY <3>2, <3>3, <1>6 DEF StmtArcs
  <2>3. \A n \in clk : n[1] \in Signals
    BY <2>1
  <2> HIDE DEF clk
  <2>4. /\ DOMAIN ff = DOMAIN named \cup Drives(st)
        /\ \A n \in Drives(st) : ff[n] = "FF"
        /\ \A n \in DOMAIN named \ Drives(st) : ff[n] = named[n]
    BY DEF Ensure
  <2> HIDE DEF ff
  <2>5. /\ DOMAIN types' = DOMAIN ff \cup clk
        /\ \A n \in DOMAIN ff : types'[n] = ff[n]
        /\ \A n \in clk \ DOMAIN ff : types'[n] = "DF"
    BY <1>8, <1>11 DEF Missed
  <2>6. Clocked(st)
    BY <1>11 DEF Clocked
  <2> QED
    BY <1>1, <1>3, <1>5, <1>9, <2>2, <2>3, <2>4, <2>5, <2>6 DEF Typed
<1> QED
  BY <1>10, <1>11

\* What a connection does to the nodes.
Joins(de, c, ty, new) ==
    /\ DOMAIN ty \subseteq DOMAIN new
    /\ Ends(ConnArcs(c), DOMAIN new)
    /\ \A n \in DOMAIN new :
          \/ n \in DOMAIN ty /\ new[n] = ty[n]
          \/ n \notin DOMAIN ty /\ n[1] \in Signals /\ new[n] = "DF"
          \/ n[1] \notin Signals /\ OtherNode(de, n, new[n])

\* Instance::gen_sdfg on an expression: its node and the signals in it.
LEMMA ExpJoins ==
    ASSUME NEW de, NEW c \in ToSet(de.conns), ConnOK(c), c.kind = "exp",
           NEW ty, InstNode \in DOMAIN ty, NEW new,
           new = Missed(Ensure(ty, {ConnNode(c)}, "COMB"), {u[1] : u \in ConnUses(c)}, "DF")
    PROVE  Joins(de, c, ty, new)
<1> DEFINE node == {ConnNode(c)}
           uses == {u[1] : u \in ConnUses(c)}
           mid  == Ensure(ty, node, "COMB")
<1>1. ConnNode(c) = ExpNode(c.port)
  BY DEF ConnNode
<1>2. \A n \in node : n[1] \notin Signals /\ OtherNode(de, n, "COMB")
  BY <1>1 DEF ConnOK, ExpNode, OtherNode
<1>3. \A n \in uses : n[1] \in Signals
  <2>1. SUFFICES ASSUME NEW u \in ConnUses(c) PROVE u[1][1] \in Signals
    OBVIOUS
  <2>2. PICK k \in DOMAIN c.leaves :
          u \in {<<<<k[1], s>>, ConnNode(c), y>> : s \in Intervals(c.leaves[k]), y \in Bits(k[2])}
    BY DEF ConnUses
  <2>3. PICK s \in Intervals(c.leaves[k]), y \in Bits(k[2]) : u = <<<<k[1], s>>, ConnNode(c), y>>
    BY <2>2
  <2> QED
    BY <2>3 DEF ConnOK, Named
<1>4. \A b \in ConnArcs(c) : b[1] \in uses \cup node \cup {InstNode} /\ b[2] \in node \cup {InstNode}
  BY ConnArcEnds
<1>5. new = Missed(mid, uses, "DF")
  OBVIOUS
<1> HIDE DEF node, uses
<1>6. /\ DOMAIN mid = DOMAIN ty \cup node
      /\ \A n \in node : mid[n] = "COMB"
      /\ \A n \in DOMAIN ty \ node : mid[n] = ty[n]
  BY DEF Ensure
<1> HIDE DEF mid
<1>7. /\ DOMAIN new = DOMAIN mid \cup uses
      /\ \A n \in DOMAIN mid : new[n] = mid[n]
      /\ \A n \in uses \ DOMAIN mid : new[n] = "DF"
  BY <1>5 DEF Missed
<1> QED
  BY <1>2, <1>3, <1>4, <1>6, <1>7 DEF Joins, Ends

\* On a variable: its piece, a wire if it is new.
LEMMA VarJoins ==
    ASSUME NEW de, NEW c \in ToSet(de.conns), ConnOK(c), c.kind = "var",
           NEW ty, InstNode \in DOMAIN ty, NEW new, new = Missed(ty, {ConnNode(c)}, "DF")
    PROVE  Joins(de, c, ty, new)
<1> DEFINE node == {ConnNode(c)}
<1>1. \A n \in node : n[1] \in Signals
  BY DEF ConnOK, ConnNode
<1>2. \A b \in ConnArcs(c) : b[1] \in node \cup {InstNode} /\ b[2] \in node \cup {InstNode}
  BY ConnArcEnds
<1>3. new = Missed(ty, node, "DF")
  OBVIOUS
<1> HIDE DEF node
<1>4. /\ DOMAIN new = DOMAIN ty \cup node
      /\ \A n \in DOMAIN ty : new[n] = ty[n]
      /\ \A n \in node \ DOMAIN ty : new[n] = "DF"
  BY <1>3 DEF Missed
<1> QED
  BY <1>1, <1>2, <1>4 DEF Joins, Ends

\* On a constant or nothing: no node.
LEMMA NoJoins ==
    ASSUME NEW de, NEW c, ConnOK(c), ~Connects(c), NEW ty
    PROVE  Joins(de, c, ty, ty)
<1>1. ConnArcs(c) = {}
  BY ConnArcEnds
<1> QED
  BY <1>1 DEF Joins, Ends

\* A connection that does this to the nodes keeps what is said of them: it
\* never makes a wire of what a statement drives, or the reverse.
LEMMA JoinsKeeps ==
    ASSUME NEW de, NEW c, NEW S, NEW C, NEW ty, NEW new,
           \A n \in DrivenBy(S) : n[1] \in Signals, NodesOK(de, S, C, ty), Joins(de, c, ty, new)
    PROVE  NodesOK(de, S, C \cup {c}, new)
<1>1. Base(de, S, C \cup {c}) = Base(de, S, C) \cup ConnArcs(c)
  <2>1. (UNION {ConnArcs(d) : d \in C \cup {c}}) = (UNION {ConnArcs(d) : d \in C}) \cup ConnArcs(c)
    OBVIOUS
  <2> QED
    BY <2>1 DEF Base
<1>2. Ends(Base(de, S, C \cup {c}), DOMAIN new)
  BY <1>1 DEF NodesOK, Ends, Joins
<1>3. SignalsOK(S, new)
  BY DEF NodesOK, SignalsOK, SignalNode, Joins
<1>4. OthersOK(de, new)
  BY DEF NodesOK, OthersOK, Joins
<1> QED
  BY <1>2, <1>3, <1>4 DEF NodesOK, InstOK, Joins

-----------------------------------------------------------------------------
\* The arcs when all has been drawn, after ConnectPartial, and after Correct.
AllArcs(de)    == Base(de, ToSet(de.stmts), ToSet(de.conns))
FedBy(B, n)    == \E b \in B : b[2] = n
NotPort(ty, n) == ty[n] \notin {"IPORT", "OPORT", "PORT"}

JoinArcs(B, ty) ==
    {<<p[1], p[2], "ASS">> :
       p \in {a \in (DOMAIN ty) \X (DOMAIN ty) :
                /\ a[1][1] = a[2][1] /\ NotPort(ty, a[2])
                /\ FedBy(B, a[1]) /\ ~FedBy(B, a[2]) /\ Overlap(a[2][2], a[1][2])}}

DrivenIn(ty, x)  == {n \in DOMAIN ty : n[1] = x /\ ty[n] \in {"FF", "COMB"}}
RedundantIn(ty)  == {n \in DOMAIN ty : /\ DrivenIn(ty, n[1]) # {} /\ n \notin DrivenIn(ty, n[1])
                                       /\ n[2] \subseteq UNION {m[2] : m \in DrivenIn(ty, n[1])}}
ShareIn(ty, n)   == {m \in DrivenIn(ty, n[1]) : Overlap(m[2], n[2])}
Gone(ty, b)      == \/ b[2] \in RedundantIn(ty) /\ b[1][1] # b[2][1]
                    \/ b[1] \in RedundantIn(ty) /\ b[1][1] = b[2][1]
MovedIn(ty, b)   == {<<b[1], m, b[3]>> : m \in {q \in ShareIn(ty, b[2]) : b[2] \in RedundantIn(ty) /\ b[1][1] # b[2][1]}} \cup
                    {<<m, b[2], b[3]>> : m \in {q \in ShareIn(ty, b[1]) : b[1] \in RedundantIn(ty) /\ b[1][1] = b[2][1]}}
LastArcs(A, ty)  == {b \in A : ~Gone(ty, b)} \cup (UNION {MovedIn(ty, b) : b \in A})

Joining(de, ty)  == AllArcs(de) \cup JoinArcs(AllArcs(de), ty)
AllDriven(de)    == DrivenBy(ToSet(de.stmts))
AllNodesOK       == design \in Designs /\ NodesOK(design, ToSet(design.stmts), ToSet(design.conns), types)
ArcsOf           == Triples(edges) = LastArcs(Joining(design, types), types)
Finished         == AllNodesOK /\ ArcsOf

-----------------------------------------------------------------------------
\* Reads and writes are the arcs from and into signals.
LEMMA DesignFacts ==
    ASSUME design \in Designs
    PROVE  /\ DOMAIN design.ports \subseteq Signals
           /\ \A st \in ToSet(design.stmts) : StatementOK(st)
           /\ \A c \in ToSet(design.conns) : ConnOK(c)
           /\ InstNode[1] \notin Signals
           /\ \A x \in DOMAIN design.ports : PortNode(x)[1] \notin Signals
BY Assumptions DEF DesignAssumption, NameAssumption, InstNode, PortNode

\* What writes from outside.
Outer(b) ==
    \/ \E x \in DOMAIN design.ports : b = <<PortNode(x), Signal(x), "ASS">> /\ design.ports[x] # "out"
    \/ \E c \in ToSet(design.conns) : c.kind = "var" /\ c.dir # "in" /\ b = <<InstNode, ConnNode(c), "ASS">>

\* Statements and what is outside are all that drives a signal.
LEMMA ArcsInto ==
    ASSUME design \in Designs, NEW b \in AllArcs(design), b[2][1] \in Signals
    PROVE  b[2] \in AllDriven(design) \/ Outer(b)
<1>1. CASE b \in PortArcs(design.ports)
  BY <1>1, PortArcEnds, DesignFacts DEF Outer
<1>2. ASSUME NEW st \in ToSet(design.stmts), b \in StmtArcs(st) PROVE b[2] \in AllDriven(design)
  BY <1>2, StmtArcEnds, DesignFacts DEF AllDriven, DrivenBy
<1>3. ASSUME NEW c \in ToSet(design.conns), b \in ConnArcs(c) PROVE Outer(b)
  <2>1. ConnOK(c)
    BY DesignFacts
  <2>2. c.kind = "exp" => ConnNode(c)[1] \notin Signals
    BY <2>1 DEF ConnOK, ConnNode, ExpNode
  <2>3. b = <<InstNode, ConnNode(c), "ASS">> /\ c.dir # "in" /\ c.kind = "var"
    BY <1>3, <2>1, <2>2, ConnArcEnds, DesignFacts DEF Connects
  <2> QED
    BY <2>3 DEF Outer
<1> QED
  BY <1>1, <1>2, <1>3 DEF AllArcs, Base

\* What drives a signal from outside is a write, by a port or the instance;
\* a range is empty only when the signal has none.
LEMMA OuterWrites ==
    ASSUME design \in Designs, NEW b, Outer(b)
    PROVE  /\ b \in AllArcs(design) /\ Write(b[2], b[1]) \in Writes
           /\ b[1][1] \notin Signals /\ b[2][1] \in Signals /\ b[2] = <<b[2][1], b[2][2]>> /\ b[3] = "ASS"
           /\ b[2][2] = {} => Full[b[2][1]] = {}
<1>1. ASSUME NEW x \in DOMAIN design.ports, b = <<PortNode(x), Signal(x), "ASS">>, design.ports[x] # "out"
      PROVE  /\ b \in AllArcs(design) /\ Write(b[2], b[1]) \in Writes
             /\ b[1][1] \notin Signals /\ b[2][1] \in Signals /\ b[2] = <<b[2][1], b[2][2]>> /\ b[3] = "ASS"
             /\ b[2][2] = {} => Full[b[2][1]] = {}
  <2>1. b \in PortArcs(design.ports)
    BY <1>1 DEF PortArcs
  <2>2. Write(Signal(x), PortNode(x)) \in Writes
    BY <1>1 DEF Writes
  <2> QED
    BY <1>1, <2>1, <2>2, DesignFacts DEF AllArcs, Base, Signal
<1>2. ASSUME NEW c \in ToSet(design.conns), c.kind = "var", c.dir # "in", b = <<InstNode, ConnNode(c), "ASS">>
      PROVE  /\ b \in AllArcs(design) /\ Write(b[2], b[1]) \in Writes
             /\ b[1][1] \notin Signals /\ b[2][1] \in Signals /\ b[2] = <<b[2][1], b[2][2]>> /\ b[3] = "ASS"
             /\ b[2][2] = {} => Full[b[2][1]] = {}
  <2>1. b \in ConnArcs(c)
    BY <1>2 DEF ConnArcs, ConnEnds
  <2>2. Write(ConnNode(c), InstNode) \in Writes
    BY <1>2 DEF Writes
  <2>3. ConnNode(c) = <<c.sig, c.bits>>
    BY <1>2 DEF ConnNode
  <2>4. ConnOK(c)
    BY DesignFacts
  <2> QED
    BY <1>2, <2>1, <2>2, <2>3, <2>4, DesignFacts DEF AllArcs, Base, ConnOK
<1> QED
  BY <1>1, <1>2 DEF Outer

\* A node that a statement drives is a write of its bits by itself.
LEMMA DrivenWrites ==
    ASSUME design \in Designs, NEW n \in AllDriven(design)
    PROVE  /\ Write(n, n) \in Writes
           /\ n[1] \in Signals /\ n[2] \subseteq Full[n[1]] /\ n = <<n[1], n[2]>>
<1>1. PICK st \in ToSet(design.stmts) : n \in Drives(st)
  BY DEF AllDriven, DrivenBy
<1>2. Write(n, n) \in Writes
  BY <1>1 DEF Writes
<1> QED
  BY <1>1, <1>2, DesignFacts, DrivesNamed

\* There are no other writes.
LEMMA WritesAre ==
    ASSUME design \in Designs, NEW w \in Writes
    PROVE  \/ w.by \in AllDriven(design) /\ w.by = <<w.sig, w.bits>> /\ w = Write(w.by, w.by)
           \/ Outer(<<w.by, <<w.sig, w.bits>>, "ASS">>)
<1>1. ASSUME NEW st \in ToSet(design.stmts), NEW n \in Drives(st), w = Write(n, n)
      PROVE  w.by \in AllDriven(design) /\ w.by = <<w.sig, w.bits>> /\ w = Write(w.by, w.by)
  <2>1. n \in AllDriven(design)
    BY DEF AllDriven, DrivenBy
  <2> QED
    BY <1>1, <2>1, DrivenWrites DEF Write
<1>2. ASSUME NEW x \in DOMAIN design.ports, design.ports[x] # "out", w = Write(Signal(x), PortNode(x))
      PROVE  Outer(<<w.by, <<w.sig, w.bits>>, "ASS">>)
  BY <1>2 DEF Outer, Write, Signal
<1>3. ASSUME NEW c \in ToSet(design.conns), c.kind = "var", c.dir # "in", w = Write(ConnNode(c), InstNode)
      PROVE  Outer(<<w.by, <<w.sig, w.bits>>, "ASS">>)
  BY <1>3 DEF Outer, Write, ConnNode
<1> QED
  BY <1>1, <1>2, <1>3 DEF Writes

\* A read is an arc from a signal,
LEMMA ReadsAre ==
    ASSUME design \in Designs, NEW rd \in Reads
    PROVE  \E b \in AllArcs(design) : rd = Read(b[1], b[2], b[3]) /\ b[1][1] \in Signals /\ b[1] = <<b[1][1], b[1][2]>>
<1>1. ASSUME NEW st \in ToSet(design.stmts), NEW b \in StmtArcs(st)
      PROVE  b \in AllArcs(design)
  BY DEF AllArcs, Base
<1>2. ASSUME NEW st \in ToSet(design.stmts), NEW r \in Flows(st), NEW y \in Bits(r.type), rd = Read(r.src, r.tgt, y)
      PROVE  \E b \in AllArcs(design) : rd = Read(b[1], b[2], b[3]) /\ b[1][1] \in Signals /\ b[1] = <<b[1][1], b[1][2]>>
  <2>1. <<r.src, r.tgt, y>> \in StmtArcs(st)
    BY DEF StmtArcs, Drawn
  <2>2. r \in Relations(st.trees)
    BY DEF Flows, SeqRelations
  <2>3. r.src[1] \in Signals /\ r.src = <<r.src[1], r.src[2]>>
    BY <2>2, DesignFacts, RelationEnds
  <2>4. <<r.src, r.tgt, y>> \in AllArcs(design)
    BY <1>1, <2>1
  <2> QED
    BY <1>2, <2>3, <2>4
<1>3. ASSUME NEW st \in ToSet(design.stmts), Clocked(st), NEW n \in Targets(st.trees), rd = Read(Clock(st), n, "CLK")
      PROVE  \E b \in AllArcs(design) : rd = Read(b[1], b[2], b[3]) /\ b[1][1] \in Signals /\ b[1] = <<b[1][1], b[1][2]>>
  <2>1. <<Clock(st), n, "CLK">> \in StmtArcs(st)
    BY <1>3 DEF StmtArcs, ClockArcs
  <2>2. Clock(st)[1] \in Signals
    BY <2>1, DesignFacts, StmtArcEnds
  <2>3. <<Clock(st), n, "CLK">> \in AllArcs(design)
    BY <1>1, <2>1
  <2>4. Clock(st) = <<Clock(st)[1], Clock(st)[2]>>
    BY DEF Clock
  <2> QED
    BY <1>3, <2>2, <2>3, <2>4
<1>4. ASSUME NEW x \in DOMAIN design.ports, design.ports[x] # "in", rd = Read(Signal(x), PortNode(x), "ASS")
      PROVE  \E b \in AllArcs(design) : rd = Read(b[1], b[2], b[3]) /\ b[1][1] \in Signals /\ b[1] = <<b[1][1], b[1][2]>>
  <2>1. <<Signal(x), PortNode(x), "ASS">> \in AllArcs(design)
    BY <1>4 DEF AllArcs, Base, PortArcs
  <2> QED
    BY <1>4, <2>1, DesignFacts DEF Signal
<1>5. ASSUME NEW c \in ToSet(design.conns), c.kind = "exp", NEW u \in ConnUses(c), rd = Read(u[1], u[2], u[3])
      PROVE  \E b \in AllArcs(design) : rd = Read(b[1], b[2], b[3]) /\ b[1][1] \in Signals /\ b[1] = <<b[1][1], b[1][2]>>
  <2>1. u \in AllArcs(design)
    BY <1>5 DEF AllArcs, Base, ConnArcs
  <2>2. PICK k \in DOMAIN c.leaves :
          u \in {<<<<k[1], s>>, ConnNode(c), y>> : s \in Intervals(c.leaves[k]), y \in Bits(k[2])}
    BY DEF ConnUses
  <2>3. PICK s \in Intervals(c.leaves[k]), y \in Bits(k[2]) : u = <<<<k[1], s>>, ConnNode(c), y>>
    BY <2>2
  <2>4. k[1] \in Signals
    BY <1>5, DesignFacts DEF ConnOK, Named
  <2> QED
    BY <1>5, <2>1, <2>3, <2>4
<1>6. ASSUME NEW c \in ToSet(design.conns), c.kind = "var", c.dir # "out", rd = Read(ConnNode(c), InstNode, "ASS")
      PROVE  \E b \in AllArcs(design) : rd = Read(b[1], b[2], b[3]) /\ b[1][1] \in Signals /\ b[1] = <<b[1][1], b[1][2]>>
  <2>1. <<ConnNode(c), InstNode, "ASS">> \in ConnArcs(c)
    BY <1>6 DEF ConnArcs, ConnEnds
  <2>2. <<ConnNode(c), InstNode, "ASS">> \in AllArcs(design)
    BY <2>1 DEF AllArcs, Base
  <2> QED
    BY <1>6, <2>2, DesignFacts DEF ConnOK, ConnNode
<1> QED
  BY <1>2, <1>3, <1>4, <1>5, <1>6 DEF Reads

\* and an arc from a signal is a read.
LEMMA ArcsFrom ==
    ASSUME design \in Designs, NEW b \in AllArcs(design), b[1][1] \in Signals
    PROVE  Read(b[1], b[2], b[3]) \in Reads
<1>1. CASE b \in PortArcs(design.ports)
  BY <1>1, PortArcEnds, DesignFacts DEF Reads
<1>2. ASSUME NEW st \in ToSet(design.stmts), b \in StmtArcs(st) PROVE Read(b[1], b[2], b[3]) \in Reads
  <2>1. CASE b \in Drawn(Flows(st))
    <3>1. PICK r \in Flows(st) : b \in {<<r.src, r.tgt, y>> : y \in Bits(r.type)}
      BY <2>1 DEF Drawn
    <3> QED
      BY <3>1 DEF Reads
  <2>2. CASE Clocked(st) /\ b \in ClockArcs(st)
    BY <2>2 DEF Reads, ClockArcs
  <2> QED
    BY <1>2, <2>1, <2>2 DEF StmtArcs
<1>3. ASSUME NEW c \in ToSet(design.conns), b \in ConnArcs(c) PROVE Read(b[1], b[2], b[3]) \in Reads
  <2>1. ConnOK(c)
    BY DesignFacts
  <2>2. c.kind = "exp" => ConnNode(c)[1] \notin Signals
    BY <2>1 DEF ConnOK, ConnNode, ExpNode
  <2>3. CASE b = <<ConnNode(c), InstNode, "ASS">> /\ c.dir # "out" /\ c.kind = "var"
    BY <2>3 DEF Reads
  <2>4. CASE c.kind = "exp" /\ b \in ConnUses(c)
    BY <2>4 DEF Reads
  <2> QED
    BY <1>3, <2>1, <2>2, <2>3, <2>4, ConnArcEnds, DesignFacts DEF Connects
<1> QED
  BY <1>1, <1>2, <1>3 DEF AllArcs, Base

-----------------------------------------------------------------------------
\* The nodes when all has been drawn.
LEMMA SignalFacts ==
    ASSUME AllNodesOK, NEW n \in DOMAIN types, n[1] \in Signals
    PROVE  /\ types[n] \in {"DF", "FF", "COMB"}
           /\ types[n] # "DF" <=> n \in AllDriven(design)
           /\ n \in AllDriven(design) <=> n \in DrivenIn(types, n[1])
           /\ types[n] = "FF" => FedBy(AllArcs(design), n)
<1>1. SignalNode(ToSet(design.stmts), n, types[n])
  BY DEF AllNodesOK, NodesOK, SignalsOK
<1>2. types[n] = "FF" => FedBy(AllArcs(design), n)
  <2>1. SUFFICES ASSUME types[n] = "FF" PROVE FedBy(AllArcs(design), n)
    OBVIOUS
  <2>2. PICK st \in ToSet(design.stmts) : Clocked(st) /\ n \in Targets(st.trees)
    BY <1>1, <2>1 DEF SignalNode
  <2>3. <<Clock(st), n, "CLK">> \in StmtArcs(st)
    BY <2>2 DEF StmtArcs, ClockArcs
  <2>4. <<Clock(st), n, "CLK">> \in AllArcs(design)
    BY <2>3 DEF AllArcs, Base
  <2> QED
    BY <2>4 DEF FedBy
<1> QED
  BY <1>1, <1>2 DEF SignalNode, AllDriven, DrivenIn

\* Driven, for a signal: the nodes that statements drive,
LEMMA DrivenFacts ==
    ASSUME AllNodesOK, NEW x, NEW m \in DrivenIn(types, x), x \in Signals
    PROVE  m \in DOMAIN types /\ m[1] = x /\ m \in AllDriven(design) /\ types[m] # "DF"
BY SignalFacts DEF DrivenIn

\* all of them.
LEMMA DrivenThere ==
    ASSUME AllNodesOK, NEW n \in AllDriven(design)
    PROVE  n \in DOMAIN types /\ n \in DrivenIn(types, n[1]) /\ types[n] # "DF"
<1>1. n \in DOMAIN types
  BY DEF AllNodesOK, NodesOK, SignalsOK, AllDriven
<1>2. n[1] \in Signals
  BY DrivenWrites DEF AllNodesOK
<1> QED
  BY <1>1, <1>2, SignalFacts

\* Ports, expressions and the instance compute.
LEMMA OthersCompute ==
    ASSUME AllNodesOK, NEW n \in DOMAIN types, n[1] \notin Signals
    PROVE  types[n] # "DF"
BY DEF AllNodesOK, NodesOK, OthersOK, OtherNode

\* Expressions are the only combinational nodes beside signals, and have names
\* of their own.
LEMMA RedundantFacts ==
    ASSUME AllNodesOK, NEW n \in RedundantIn(types)
    PROVE  n \in DOMAIN types /\ n[1] \in Signals /\ types[n] = "DF" /\ n \notin AllDriven(design)
<1>1. n \in DOMAIN types /\ n \notin DrivenIn(types, n[1])
  BY DEF RedundantIn
<1>2. PICK m \in DOMAIN types : m[1] = n[1] /\ types[m] \in {"FF", "COMB"}
  BY DEF RedundantIn, DrivenIn
<1>3. n[1] \in Signals
  <2>1. SUFFICES ASSUME n[1] \notin Signals PROVE FALSE
    OBVIOUS
  <2>2. OtherNode(design, m, types[m]) /\ OtherNode(design, n, types[n])
    BY <1>1, <1>2, <2>1 DEF AllNodesOK, NodesOK, OthersOK
  <2>3. PICK c \in ToSet(design.conns) : c.kind = "exp" /\ m = ExpNode(c.port)
    BY <1>2, <2>2 DEF OtherNode
  <2>4. ConnOK(c) /\ DOMAIN design.ports \subseteq Signals
    BY DesignFacts DEF AllNodesOK
  <2>5. n[1] = <<Exp, c.port>> /\ n[1] # Inst /\ \A x \in Signals : n[1] # <<"port", x>>
    BY <1>2, <2>3, <2>4 DEF ConnOK, ExpNode
  <2>6. PICK d \in ToSet(design.conns) : types[n] = "COMB" /\ n = ExpNode(d.port)
    BY <2>2, <2>4, <2>5 DEF OtherNode, InstNode, PortNode
  <2> QED
    BY <1>1, <2>6 DEF DrivenIn
<1> QED
  BY <1>1, <1>3, SignalFacts

\* Share takes from a redundant piece what statements drive.
LEMMA ShareFacts ==
    ASSUME AllNodesOK, NEW n \in RedundantIn(types), NEW m \in ShareIn(types, n)
    PROVE  /\ m \in DOMAIN types /\ m[1] = n[1] /\ m \in AllDriven(design)
           /\ types[m] # "DF" /\ m \notin RedundantIn(types) /\ Overlap(m[2], n[2])
<1>1. n[1] \in Signals
  BY RedundantFacts
<1>2. m \in DrivenIn(types, n[1]) /\ Overlap(m[2], n[2])
  BY DEF ShareIn
<1> QED
  BY <1>1, <1>2, DrivenFacts DEF RedundantIn, DrivenIn

-----------------------------------------------------------------------------
\* A signal whose bits have one writer at most.
OneWriter(x) == \A v, w \in Writes : v.sig = x /\ w.sig = x /\ v # w => ~Meet(v.bits, w.bits)

\* Writes that meet are one, in a signal whose bits have one writer at most.
LEMMA SameWriter ==
    ASSUME NEW x, OneWriter(x), NEW v \in Writes, NEW w \in Writes, v.sig = x, w.sig = x,
           Meet(v.bits, w.bits)
    PROVE  v = w
BY DEF OneWriter

\* A piece that is driven from outside is not redundant in such a signal: its
\* bits would have a second writer.
LEMMA FedKept ==
    ASSUME AllNodesOK, NEW x \in Signals, OneWriter(x), NEW n, n[1] = x,
           n \notin AllDriven(design), FedBy(AllArcs(design), n)
    PROVE  n \notin RedundantIn(types)
<1> SUFFICES ASSUME n \in RedundantIn(types) PROVE FALSE
  OBVIOUS
<1> USE DEF AllNodesOK
<1>1. PICK b \in AllArcs(design) : b[2] = n
  BY DEF FedBy
<1>2. Outer(b)
  BY <1>1, ArcsInto
<1>3. Write(n, b[1]) \in Writes /\ b[1][1] \notin Signals /\ (n[2] = {} => Full[x] = {})
  BY <1>1, <1>2, OuterWrites
<1>4. PICK m \in DrivenIn(types, x) : Meet(n[2], m[2])
  <2>1. CASE n[2] = {}
    <3>1. PICK m \in DrivenIn(types, x) : TRUE
      BY DEF RedundantIn
    <3>2. m[2] \subseteq Full[x]
      BY DrivenFacts, DrivenWrites
    <3> QED
      BY <1>3, <2>1, <3>1, <3>2 DEF Meet
  <2>2. CASE n[2] # {}
    <3>1. PICK y : y \in n[2]
      BY <2>2
    <3>2. n[2] \subseteq UNION {m[2] : m \in DrivenIn(types, x)}
      BY DEF RedundantIn
    <3>3. PICK m \in DrivenIn(types, x) : y \in m[2]
      BY <3>1, <3>2
    <3> QED
      BY <3>1, <3>3 DEF Meet, Overlap
  <2> QED
    BY <2>1, <2>2
<1>5. m[1] = x /\ Write(m, m) \in Writes
  BY DrivenFacts, DrivenWrites
<1>6. Write(n, b[1]) = Write(m, m)
  BY <1>3, <1>4, <1>5, SameWriter DEF Write
<1> QED
  BY <1>3, <1>5, <1>6 DEF Write

\* What connect_partial_nodes joins.
LEMMA JoinFacts ==
    ASSUME NEW b \in JoinArcs(AllArcs(design), types)
    PROVE  /\ b[1] \in DOMAIN types /\ b[2] \in DOMAIN types /\ b[1][1] = b[2][1] /\ b = <<b[1], b[2], "ASS">>
           /\ NotPort(types, b[2]) /\ FedBy(AllArcs(design), b[1]) /\ ~FedBy(AllArcs(design), b[2])
           /\ Overlap(b[2][2], b[1][2])
BY DEF JoinArcs

\* correct_conections leaves what connect_partial_nodes has joined alone when
\* the bits of the signal have one writer.
LEMMA JoinKept ==
    ASSUME AllNodesOK, NEW x \in Signals, OneWriter(x),
           NEW b \in JoinArcs(AllArcs(design), types), b[2][1] = x
    PROVE  b[1] \notin RedundantIn(types) /\ ~Gone(types, b)
<1>1. b[1][1] = x /\ FedBy(AllArcs(design), b[1])
  BY JoinFacts
<1>2. b[1] \notin RedundantIn(types)
  BY <1>1, FedKept, RedundantFacts
<1> QED
  BY <1>1, <1>2 DEF Gone

\* What an arc of the graph was, before correct_conections.
LEMMA LastWas ==
    ASSUME NEW f \in LastArcs(Joining(design, types), types)
    PROVE  \/ f \in Joining(design, types) /\ ~Gone(types, f)
           \/ \E b \in Joining(design, types) :
                /\ b[2] \in RedundantIn(types) /\ b[1][1] # b[2][1]
                /\ f[1] = b[1] /\ f[2] \in ShareIn(types, b[2]) /\ f[3] = b[3]
           \/ \E b \in Joining(design, types) :
                /\ b[1] \in RedundantIn(types) /\ b[1][1] = b[2][1]
                /\ f[2] = b[2] /\ f[1] \in ShareIn(types, b[1]) /\ f[3] = b[3]
<1>1. CASE f \in Joining(design, types) /\ ~Gone(types, f)
  BY <1>1
<1>2. ASSUME NEW b \in Joining(design, types), f \in MovedIn(types, b)
      PROVE  \/ /\ b[2] \in RedundantIn(types) /\ b[1][1] # b[2][1]
                /\ f[1] = b[1] /\ f[2] \in ShareIn(types, b[2]) /\ f[3] = b[3]
             \/ /\ b[1] \in RedundantIn(types) /\ b[1][1] = b[2][1]
                /\ f[2] = b[2] /\ f[1] \in ShareIn(types, b[1]) /\ f[3] = b[3]
  BY <1>2 DEF MovedIn
<1> QED
  BY <1>1, <1>2 DEF LastArcs

\* What does not go is there at the end.
LEMMA StaysLast ==
    ASSUME NEW b \in Joining(design, types), ~Gone(types, b)
    PROVE  b \in LastArcs(Joining(design, types), types)
BY DEF LastArcs

\* The sources of a node, at the end, are those of its arcs.
LEMMA SourcesAre ==
    ASSUME Finished, NEW n, NEW s
    PROVE  s \in Sources(n) <=> \E f \in LastArcs(Joining(design, types), types) : f[1] = s /\ f[2] = n
<1> DEFINE L == LastArcs(Joining(design, types), types)
<1>1. Triples(edges) = L
  BY DEF Finished, ArcsOf
<1> HIDE DEF L
<1>2. ASSUME s \in Sources(n) PROVE \E f \in L : f[1] = s /\ f[2] = n
  <2>1. PICK e \in edges : e.src = s /\ e.tgt = n
    BY <1>2 DEF Sources
  <2>2. <<e.src, e.tgt, e.was>> \in L
    BY <1>1 DEF Triples
  <2> QED
    BY <2>1, <2>2
<1>3. ASSUME NEW f \in L, f[1] = s, f[2] = n PROVE s \in Sources(n)
  <2>1. PICK e \in edges : f = <<e.src, e.tgt, e.was>>
    BY <1>1 DEF Triples
  <2> QED
    BY <1>3, <2>1 DEF Sources
<1> QED
  BY <1>2, <1>3 DEF L

\* A node of a signal that does not compute keeps the arcs into it, whatever
\* they come from: one outside of the signal, or pieces of it.
LEMMA IntoWire ==
    ASSUME AllNodesOK, NEW x \in Signals, OneWriter(x), NEW f \in LastArcs(Joining(design, types), types),
           f[2] \in DOMAIN types, f[2][1] = x, types[f[2]] = "DF"
    PROVE  f \in Joining(design, types)
<1>1. f[2] \notin AllDriven(design)
  BY SignalFacts
<1>2. ASSUME NEW b \in Joining(design, types), b[2] \in RedundantIn(types), f[2] \in ShareIn(types, b[2])
      PROVE  FALSE
  BY <1>2, ShareFacts
<1>3. ASSUME NEW b \in Joining(design, types), b[1] \in RedundantIn(types), f[2] = b[2]
      PROVE  FALSE
  <2>1. CASE b \in AllArcs(design)
    BY <1>1, <1>3, <2>1, ArcsInto, OuterWrites, RedundantFacts DEF AllNodesOK
  <2>2. CASE b \in JoinArcs(AllArcs(design), types)
    BY <1>3, <2>2, JoinKept
  <2> QED
    BY <2>1, <2>2 DEF Joining
<1> QED
  BY <1>2, <1>3, LastWas

\* A wire that something drives has at the end the sources it was drawn with,
LEMMA FedSources ==
    ASSUME Finished, NEW x \in Signals, OneWriter(x), NEW n \in DOMAIN types, n[1] = x, types[n] = "DF",
           FedBy(AllArcs(design), n), NEW s
    PROVE  s \in Sources(n) <=> \E b \in AllArcs(design) : Outer(b) /\ b[1] = s /\ b[2] = n
<1>1. AllNodesOK /\ n \notin AllDriven(design)
  BY SignalFacts DEF Finished
<1>2. n \notin RedundantIn(types)
  BY <1>1, FedKept
<1>3. ASSUME s \in Sources(n) PROVE \E b \in AllArcs(design) : Outer(b) /\ b[1] = s /\ b[2] = n
  <2>1. PICK f \in LastArcs(Joining(design, types), types) : f[1] = s /\ f[2] = n
    BY <1>3, SourcesAre
  <2>2. f \in Joining(design, types)
    BY <1>1, <2>1, IntoWire
  <2>3. f \in AllArcs(design)
    BY <2>1, <2>2, JoinFacts DEF Joining
  <2> QED
    BY <1>1, <2>1, <2>3, ArcsInto DEF AllNodesOK
<1>4. ASSUME NEW b \in AllArcs(design), Outer(b), b[1] = s, b[2] = n PROVE s \in Sources(n)
  <2>1. b[1][1] # b[2][1]
    BY <1>1, <1>4, OuterWrites DEF AllNodesOK
  <2>2. ~Gone(types, b)
    BY <1>2, <1>4, <2>1 DEF Gone
  <2>3. b \in LastArcs(Joining(design, types), types)
    BY <2>2, StaysLast DEF Joining
  <2> QED
    BY <1>4, <2>3, SourcesAre
<1> QED
  BY <1>3, <1>4

\* and one that nothing drives has the pieces of its signal that are driven
\* and overlap it: connect_partial_nodes has joined these and no others.
LEMMA PieceSources ==
    ASSUME Finished, NEW x \in Signals, OneWriter(x), NEW n \in DOMAIN types, n[1] = x, types[n] = "DF",
           ~FedBy(AllArcs(design), n), NEW s
    PROVE  s \in Sources(n) <=>
             s \in DOMAIN types /\ s[1] = x /\ FedBy(AllArcs(design), s) /\ Overlap(n[2], s[2])
<1>1. AllNodesOK
  BY DEF Finished
<1>2. ASSUME s \in Sources(n)
      PROVE  s \in DOMAIN types /\ s[1] = x /\ FedBy(AllArcs(design), s) /\ Overlap(n[2], s[2])
  <2>1. PICK f \in LastArcs(Joining(design, types), types) : f[1] = s /\ f[2] = n
    BY <1>2, SourcesAre
  <2>2. f \in Joining(design, types)
    BY <1>1, <2>1, IntoWire
  <2>3. f \in JoinArcs(AllArcs(design), types)
    BY <2>1, <2>2 DEF Joining, FedBy
  <2> QED
    BY <2>1, <2>3, JoinFacts
<1>3. ASSUME s \in DOMAIN types, s[1] = x, FedBy(AllArcs(design), s), Overlap(n[2], s[2])
      PROVE  s \in Sources(n)
  <2>1. <<s, n, "ASS">> \in JoinArcs(AllArcs(design), types)
    <3> DEFINE a == <<s, n>>
    <3>1. /\ a \in (DOMAIN types) \X (DOMAIN types) /\ a[1][1] = a[2][1] /\ NotPort(types, a[2])
          /\ FedBy(AllArcs(design), a[1]) /\ ~FedBy(AllArcs(design), a[2]) /\ Overlap(a[2][2], a[1][2])
      BY <1>3 DEF NotPort
    <3> HIDE DEF a
    <3>2. <<a[1], a[2], "ASS">> \in JoinArcs(AllArcs(design), types)
      BY <3>1 DEF JoinArcs
    <3> QED
      BY <3>2 DEF a
  <2>2. ~Gone(types, <<s, n, "ASS">>)
    BY <1>1, <2>1, JoinKept
  <2>3. <<s, n, "ASS">> \in LastArcs(Joining(design, types), types)
    BY <2>1, <2>2, StaysLast DEF Joining
  <2> QED
    BY <2>3, SourcesAre
<1> QED
  BY <1>2, <1>3

-----------------------------------------------------------------------------
\* What feeds a node of a signal with one writer for each bit.
LEMMA OuterComputes ==
    ASSUME AllNodesOK, NEW b, Outer(b)
    PROVE  b[1] \in DOMAIN types /\ b[2] \in DOMAIN types /\ types[b[1]] # "DF"
<1>1. b \in AllArcs(design) /\ b[1][1] \notin Signals
  BY OuterWrites DEF AllNodesOK
<1>2. b[1] \in DOMAIN types /\ b[2] \in DOMAIN types
  BY <1>1 DEF AllNodesOK, NodesOK, Ends, AllArcs
<1> QED
  BY <1>1, <1>2, OthersCompute

\* A driven node without an arc into it is a constant at the end as well.
LEMMA DriverFed ==
    ASSUME Finished, NEW x \in Signals, OneWriter(x), NEW m \in AllDriven(design), m[1] = x, ~Constant(m)
    PROVE  FedBy(AllArcs(design), m)
<1> SUFFICES ASSUME ~FedBy(AllArcs(design), m) PROVE FALSE
  OBVIOUS
<1>1. AllNodesOK /\ design \in Designs
  BY DEF Finished, AllNodesOK
<1>2. m \in DOMAIN types /\ types[m] = "COMB"
  BY <1>1, DrivenThere, SignalFacts
<1>3. PICK s : s \in Sources(m)
  BY <1>2 DEF Constant
<1>4. PICK f \in LastArcs(Joining(design, types), types) : f[1] = s /\ f[2] = m
  BY <1>3, SourcesAre
<1>5. Write(m, m) \in Writes
  BY <1>1, DrivenWrites
<1>6. f \notin AllArcs(design)
  BY <1>4 DEF FedBy
<1>7. CASE f \in JoinArcs(AllArcs(design), types)
  <2>1. f[1] \in DOMAIN types /\ f[1][1] = x /\ FedBy(AllArcs(design), f[1]) /\ Overlap(m[2], f[1][2])
    BY <1>4, <1>7, JoinFacts
  <2>2. CASE f[1] \in AllDriven(design)
    <3>1. Write(f[1], f[1]) \in Writes
      BY <1>1, <2>2, DrivenWrites
    <3>2. Write(f[1], f[1]) = Write(m, m)
      BY <1>5, <2>1, <3>1, SameWriter DEF Write, Meet
    <3> QED
      BY <2>1, <3>2 DEF Write
  <2>3. CASE f[1] \notin AllDriven(design)
    <3>1. PICK b \in AllArcs(design) : b[2] = f[1]
      BY <2>1 DEF FedBy
    <3>2. Outer(b)
      BY <1>1, <2>1, <2>3, <3>1, ArcsInto
    <3>3. Write(f[1], b[1]) \in Writes /\ b[1][1] \notin Signals
      BY <1>1, <3>1, <3>2, OuterWrites
    <3>4. Write(f[1], b[1]) = Write(m, m)
      BY <1>5, <2>1, <3>3, SameWriter DEF Write, Meet
    <3> QED
      BY <3>3, <3>4 DEF Write
  <2> QED
    BY <2>2, <2>3
<1>8. ASSUME NEW b \in Joining(design, types), b[2] \in RedundantIn(types), b[1][1] # b[2][1], m \in ShareIn(types, b[2])
      PROVE  FALSE
  <2>1. b \in AllArcs(design)
    BY <1>8, JoinFacts DEF Joining
  <2>2. b[2][1] = x /\ b[2] \notin AllDriven(design)
    BY <1>1, <1>8, ShareFacts, RedundantFacts
  <2> QED
    BY <1>1, <1>8, <2>1, <2>2, FedKept DEF FedBy
<1>9. ASSUME NEW b \in Joining(design, types), b[1] \in RedundantIn(types), m = b[2]
      PROVE  FALSE
  <2>1. b \in JoinArcs(AllArcs(design), types)
    BY <1>9 DEF Joining, FedBy
  <2> QED
    BY <1>1, <1>9, <2>1, JoinKept
<1> QED
  BY <1>4, <1>6, <1>7, <1>8, <1>9, LastWas DEF Joining

\* A wire is fed by writers of its bits, and by all of them but constants.
LEMMA WireFedBySome ==
    ASSUME Finished, NEW x \in Signals, OneWriter(x), NEW n \in DOMAIN types, n[1] = x, types[n] = "DF",
           NEW o \in Origins(n)
    PROVE  \E w \in Writes : w.sig = x /\ Meet(w.bits, n[2]) /\ w.by = o
<1>1. AllNodesOK /\ design \in Designs
  BY DEF Finished, AllNodesOK
<1>2. PICK s \in Sources(n) : o \in Near(s)
  BY DEF Origins, Computes
<1>3. CASE FedBy(AllArcs(design), n)
  <2>1. PICK b \in AllArcs(design) : Outer(b) /\ b[1] = s /\ b[2] = n
    BY <1>2, <1>3, FedSources
  <2>2. o = s
    BY <1>1, <1>2, <2>1, OuterComputes DEF Near, Computes
  <2>3. Write(n, o) \in Writes
    BY <1>1, <2>1, <2>2, OuterWrites
  <2> QED
    BY <2>3 DEF Write, Meet
<1>4. CASE ~FedBy(AllArcs(design), n)
  <2>1. s \in DOMAIN types /\ s[1] = x /\ FedBy(AllArcs(design), s) /\ Overlap(n[2], s[2])
    BY <1>2, <1>4, PieceSources
  <2>2. CASE types[s] # "DF"
    <3>1. o = s /\ s \in AllDriven(design)
      BY <1>1, <1>2, <2>1, <2>2, SignalFacts DEF Near, Computes
    <3>2. Write(s, s) \in Writes
      BY <1>1, <3>1, DrivenWrites
    <3> QED
      BY <2>1, <3>1, <3>2 DEF Write, Meet, Overlap
  <2>3. CASE types[s] = "DF"
    <3>1. o \in Sources(s)
      BY <1>2, <2>3 DEF Near, Computes
    <3>2. PICK b \in AllArcs(design) : Outer(b) /\ b[1] = o /\ b[2] = s
      BY <2>1, <2>3, <3>1, FedSources
    <3>3. Write(s, o) \in Writes
      BY <1>1, <3>2, OuterWrites
    <3> QED
      BY <2>1, <3>3 DEF Write, Meet, Overlap
  <2> QED
    BY <2>2, <2>3
<1> QED
  BY <1>3, <1>4

\* All that writes a bit of a wire, but for constants, is among its origins.
LEMMA WireFedByAll ==
    ASSUME Finished, NEW x \in Signals, OneWriter(x),
           NEW n \in DOMAIN types, n[1] = x, n = <<n[1], n[2]>>, types[n] = "DF",
           NEW w \in Writes, w.sig = x, Meet(w.bits, n[2]), ~Constant(w.by)
    PROVE  w.by \in Origins(n)
<1>1. AllNodesOK /\ design \in Designs /\ n \notin AllDriven(design)
  BY SignalFacts DEF Finished, AllNodesOK
<1>2. SUFFICES \E s \in Sources(n) : w.by \in Near(s)
  BY DEF Origins, Computes
<1>3. CASE FedBy(AllArcs(design), n)
  <2>1. PICK b \in AllArcs(design) : b[2] = n
    BY <1>3 DEF FedBy
  <2>2. Outer(b)
    BY <1>1, <2>1, ArcsInto
  <2>3. Write(n, b[1]) \in Writes
    BY <1>1, <2>1, <2>2, OuterWrites
  <2>4. w = Write(n, b[1])
    BY <2>3, SameWriter DEF Write
  <2>5. w.by = b[1]
    BY <2>4 DEF Write
  <2>6. b[1] \in Sources(n)
    BY <1>3, <2>1, <2>2, FedSources
  <2>7. b[1] \in Near(b[1])
    BY <1>1, <2>2, OuterComputes DEF Near, Computes
  <2> QED
    BY <2>5, <2>6, <2>7
<1>4. CASE ~FedBy(AllArcs(design), n)
  <2> DEFINE s == <<x, w.bits>>
  <2>1. CASE w.by \in AllDriven(design) /\ w.by = <<w.sig, w.bits>>
    <3>1. FedBy(AllArcs(design), w.by) /\ w.by \in DOMAIN types /\ types[w.by] # "DF"
      BY <1>1, <2>1, DriverFed, DrivenThere
    <3>2. Overlap(n[2], w.bits)
      BY <1>1, <2>1 DEF Meet, Overlap
    <3>3. w.by \in Sources(n)
      BY <1>4, <2>1, <3>1, <3>2, PieceSources
    <3> QED
      BY <3>1, <3>3 DEF Near, Computes
  <2>2. CASE Outer(<<w.by, s, "ASS">>)
    <3> DEFINE b == <<w.by, s, "ASS">>
    <3>1. b \in AllArcs(design) /\ s \in DOMAIN types /\ w.by[1] \notin Signals
      BY <1>1, <2>2, OuterWrites, OuterComputes
    <3>2. FedBy(AllArcs(design), s)
      BY <3>1 DEF FedBy
    <3>3. Overlap(n[2], w.bits)
      BY <1>4, <3>2 DEF Meet, Overlap
    <3>4. s \in Sources(n)
      BY <1>4, <3>1, <3>2, <3>3, PieceSources
    <3>5. types[s] = "DF"
      <4>1. SUFFICES ASSUME s \in AllDriven(design) PROVE FALSE
        BY <1>1, <3>1, SignalFacts
      <4>2. Write(s, s) \in Writes
        BY <1>1, <4>1, DrivenWrites
      <4>3. w = Write(s, s)
        BY <4>2, SameWriter DEF Write, Meet
      <4> QED
        BY <3>1, <4>3 DEF Write
    <3>6. w.by \in Sources(s)
      BY <2>2, <3>1, <3>2, <3>5, FedSources
    <3>7. w.by \in Near(s)
      BY <3>5, <3>6 DEF Near, Computes
    <3> QED
      BY <3>4, <3>7
  <2> QED
    BY <1>1, <2>1, <2>2, WritesAre
<1> QED
  BY <1>3, <1>4

-----------------------------------------------------------------------------
\* What feeds a read.
LEMMA ReaderStays ==
    ASSUME AllNodesOK, NEW b \in AllArcs(design), b[1][1] \in Signals
    PROVE  b[2] \notin RedundantIn(types)
BY ArcsInto, OuterWrites, RedundantFacts DEF AllNodesOK

\* A read is drawn from a piece with its bits to its reader.
LEMMA ReadFacts ==
    ASSUME design \in Designs, NEW rd \in Reads
    PROVE  /\ rd.sig \in Signals /\ <<<<rd.sig, rd.bits>>, rd.by, rd.as>> \in AllArcs(design)
           /\ FedBy(AllArcs(design), rd.by)
<1>1. PICK b \in AllArcs(design) : rd = Read(b[1], b[2], b[3]) /\ b[1][1] \in Signals /\ b[1] = <<b[1][1], b[1][2]>>
  BY ReadsAre
<1>2. b = <<<<rd.sig, rd.bits>>, rd.by, rd.as>>
  <2>1. IsTriple(b)
    BY PortTriples, StmtTriples, ConnTriples DEF AllArcs, Base
  <2>2. b = <<b[1], b[2], b[3]>>
    BY <2>1 DEF IsTriple
  <2> QED
    BY <1>1, <2>2 DEF Read
<1>3. b[2] = rd.by
  BY <1>1 DEF Read
<1> QED
  BY <1>1, <1>2, <1>3 DEF FedBy, Read

\* An arc that a reader has from a signal, after Correct, stands for a read of
\* bits it shares with what it comes from.
LEMMA UseStands ==
    ASSUME Finished, NEW rd \in Reads, OneWriter(rd.sig), NEW e \in Uses(rd)
    PROVE  \E b \in AllArcs(design) :
             /\ b[1][1] = rd.sig /\ b[2] = rd.by /\ b[3] = rd.as
             /\ \/ e.src = b[1]
                \/ e.src \in AllDriven(design) /\ e.src \in DOMAIN types /\ Overlap(e.src[2], b[1][2])
<1> DEFINE f == <<e.src, e.tgt, e.was>>
<1>1. AllNodesOK /\ design \in Designs /\ rd.sig \in Signals
  BY ReadFacts DEF Finished, AllNodesOK
<1>2. e \in edges /\ e.tgt = rd.by /\ e.was = rd.as /\ e.src[1] = rd.sig
  BY DEF Uses
<1>3. f \in LastArcs(Joining(design, types), types)
  BY <1>2 DEF Finished, ArcsOf, Triples
<1>4. FedBy(AllArcs(design), rd.by)
  BY <1>1, ReadFacts
<1>5. \A b \in Joining(design, types) : b[2] = rd.by => b \in AllArcs(design)
  BY <1>4, JoinFacts DEF Joining
<1>6. CASE f \in Joining(design, types)
  <2>1. f \in AllArcs(design)
    BY <1>2, <1>5, <1>6
  <2> QED
    BY <1>2, <2>1
<1>7. ASSUME NEW b \in Joining(design, types), b[2] \in RedundantIn(types), b[1][1] # b[2][1], f[1] = b[1]
      PROVE  FALSE
  <2>1. b \in AllArcs(design)
    BY <1>7, JoinFacts DEF Joining
  <2>2. b[1][1] \in Signals
    BY <1>1, <1>2, <1>7
  <2> QED
    BY <1>1, <1>7, <2>1, <2>2, ReaderStays
<1>8. ASSUME NEW b \in Joining(design, types), b[1] \in RedundantIn(types), b[1][1] = b[2][1],
             f[2] = b[2], f[1] \in ShareIn(types, b[1]), f[3] = b[3]
      PROVE  \E c \in AllArcs(design) :
               /\ c[1][1] = rd.sig /\ c[2] = rd.by /\ c[3] = rd.as
               /\ e.src \in AllDriven(design) /\ e.src \in DOMAIN types /\ Overlap(e.src[2], c[1][2])
  <2>1. b \in AllArcs(design)
    BY <1>2, <1>5, <1>8
  <2>2. /\ e.src \in AllDriven(design) /\ e.src \in DOMAIN types
        /\ e.src[1] = b[1][1] /\ Overlap(e.src[2], b[1][2])
    BY <1>1, <1>8, ShareFacts
  <2> QED
    BY <1>2, <1>8, <2>1, <2>2
<1> QED
  BY <1>3, <1>6, <1>7, <1>8, LastWas

\* So what feeds a reader writes bits that it reads.
LEMMA UseFedBySome ==
    ASSUME Finished, NEW rd \in Reads, OneWriter(rd.sig), NEW e \in Uses(rd), NEW o \in Origins(e.src)
    PROVE  \E r \in Alike(rd) : o \in Writers(r.sig, r.bits)
<1>1. AllNodesOK /\ design \in Designs /\ rd.sig \in Signals
  BY ReadFacts DEF Finished, AllNodesOK
<1>2. PICK b \in AllArcs(design) :
        /\ b[1][1] = rd.sig /\ b[2] = rd.by /\ b[3] = rd.as
        /\ \/ e.src = b[1]
           \/ e.src \in AllDriven(design) /\ e.src \in DOMAIN types /\ Overlap(e.src[2], b[1][2])
  BY UseStands
<1> DEFINE r == Read(b[1], b[2], b[3])
<1>3. r \in Alike(rd) /\ r.sig = rd.sig /\ r.bits = b[1][2]
  BY <1>1, <1>2, ArcsFrom DEF Alike, Read
<1>4. e.src[1] = rd.sig
  BY DEF Uses
<1>5. e.src \in DOMAIN types
  BY <1>1, <1>2 DEF AllNodesOK, NodesOK, Ends, AllArcs
<1> HIDE DEF r
<1>6. \E w \in Writes : w.sig = rd.sig /\ Meet(w.bits, r.bits) /\ w.by = o
  <2>1. CASE types[e.src] # "DF"
    <3>1. o = e.src /\ e.src \in AllDriven(design)
      BY <1>1, <1>4, <1>5, <2>1, SignalFacts DEF Origins, Computes
    <3>2. Write(e.src, e.src) \in Writes
      BY <1>1, <3>1, DrivenWrites
    <3> QED
      BY <1>2, <1>3, <1>4, <3>1, <3>2 DEF Write, Meet
  <2>2. CASE types[e.src] = "DF"
    <3>1. e.src = b[1]
      BY <1>1, <1>2, <1>4, <1>5, <2>2, SignalFacts
    <3> QED
      BY <1>1, <1>3, <1>4, <1>5, <2>2, <3>1, WireFedBySome
  <2> QED
    BY <2>1, <2>2
<1> QED
  BY <1>3, <1>6 DEF Writers

\* What writes a bit that is read feeds the reader, but for constants: by the
\* piece that is read, or by what correct_conections puts in its place.
LEMMA ReadFedByAll ==
    ASSUME Finished, NEW rd \in Reads, OneWriter(rd.sig),
           NEW w \in Writes, w.sig = rd.sig, Meet(w.bits, rd.bits), ~Constant(w.by)
    PROVE  w.by \in Feeding(rd)
<1> DEFINE n == <<rd.sig, rd.bits>>
           b == <<n, rd.by, rd.as>>
           L == LastArcs(Joining(design, types), types)
<1>1. AllNodesOK /\ design \in Designs /\ rd.sig \in Signals /\ b \in AllArcs(design)
  BY ReadFacts DEF Finished, AllNodesOK
<1>2. n \in DOMAIN types
  BY <1>1 DEF AllNodesOK, NodesOK, Ends, AllArcs
<1>3. ASSUME NEW s, <<s, rd.by, rd.as>> \in L, s[1] = rd.sig PROVE Origins(s) \subseteq Feeding(rd)
  <2>1. <<s, rd.by, rd.as>> \in Triples(edges)
    BY <1>3 DEF Finished, ArcsOf
  <2>2. PICK e \in edges : e.src = s /\ e.tgt = rd.by /\ e.was = rd.as
    BY <2>1 DEF Triples
  <2>3. e \in Uses(rd)
    BY <1>3, <2>2 DEF Uses
  <2> QED
    BY <2>2, <2>3 DEF Feeding
<1>4. CASE ~Gone(types, b)
  <2>1. b \in L
    BY <1>1, <1>4, StaysLast DEF Joining
  <2>2. w.by \in Origins(n)
    <3>1. CASE types[n] = "DF"
      BY <1>1, <1>2, <3>1, WireFedByAll
    <3>2. CASE types[n] # "DF"
      <4>1. n \in AllDriven(design)
        BY <1>1, <1>2, <3>2, SignalFacts
      <4>2. Write(n, n) \in Writes
        BY <1>1, <4>1, DrivenWrites
      <4>3. w = Write(n, n)
        BY <4>2, SameWriter DEF Write
      <4> QED
        BY <3>2, <4>3 DEF Write, Origins, Computes
    <3> QED
      BY <3>1, <3>2
  <2> QED
    BY <1>3, <2>1, <2>2
<1>5. CASE Gone(types, b)
  <2>1. rd.by \notin RedundantIn(types)
    BY <1>1, ReaderStays
  <2>2. n \in RedundantIn(types) /\ rd.by[1] = rd.sig
    BY <1>5, <2>1 DEF Gone
  <2>3. types[n] = "DF" /\ n \notin AllDriven(design)
    BY <1>1, <2>2, RedundantFacts
  <2>4. CASE w.by \in AllDriven(design) /\ w.by = <<w.sig, w.bits>>
    <3>1. w.by \in DOMAIN types /\ w.by \in DrivenIn(types, rd.sig) /\ types[w.by] # "DF"
      BY <1>1, <2>4, DrivenThere
    <3>2. w.by \in ShareIn(types, n)
      BY <2>3, <2>4, <3>1 DEF ShareIn, Meet
    <3>3. <<w.by, rd.by, rd.as>> \in MovedIn(types, b)
      BY <2>2, <3>2 DEF MovedIn
    <3>4. <<w.by, rd.by, rd.as>> \in L
      BY <1>1, <3>3 DEF LastArcs, Joining
    <3>5. w.by \in Origins(w.by)
      BY <3>1 DEF Origins, Computes
    <3> QED
      BY <1>3, <2>4, <3>4, <3>5
  <2>5. CASE Outer(<<w.by, <<w.sig, w.bits>>, "ASS">>)
    <3>1. w.by[1] \notin Signals /\ <<w.by, <<w.sig, w.bits>>, "ASS">> \in AllArcs(design)
      BY <1>1, <2>5, OuterWrites
    <3>2. CASE w.bits = rd.bits
      <4>1. FedBy(AllArcs(design), n)
        BY <3>1, <3>2 DEF FedBy
      <4> QED
        BY <1>1, <2>2, <2>3, <4>1, FedKept
    <3>3. CASE Overlap(w.bits, rd.bits)
      <4>1. PICK y : y \in w.bits /\ y \in rd.bits
        BY <3>3 DEF Overlap
      <4>2. n[2] \subseteq UNION {m[2] : m \in DrivenIn(types, rd.sig)}
        BY <2>2 DEF RedundantIn
      <4>3. PICK m \in DrivenIn(types, rd.sig) : y \in m[2]
        BY <4>1, <4>2
      <4>4. m[1] = rd.sig /\ Write(m, m) \in Writes
        BY <1>1, DrivenFacts, DrivenWrites
      <4>5. Meet(w.bits, m[2])
        BY <4>1, <4>3 DEF Meet, Overlap
      <4>6. w = Write(m, m)
        BY <4>4, <4>5, SameWriter DEF Write
      <4> QED
        BY <1>1, <3>1, <4>4, <4>6 DEF Write
    <3> QED
      BY <3>2, <3>3 DEF Meet
  <2> QED
    BY <1>1, <2>4, <2>5, WritesAre
<1> QED
  BY <1>4, <1>5

\* Fed follows from what the graph is at the end.
LEMMA FinishedFed == Finished => Fed
<1> SUFFICES ASSUME Finished, NEW rd \in Reads, Single(rd)
             PROVE  /\ {n \in Writers(rd.sig, rd.bits) : ~Constant(n)} \subseteq Feeding(rd)
                    /\ Feeding(rd) \subseteq UNION {Writers(r.sig, r.bits) : r \in Alike(rd)}
  BY DEF Fed
<1>1. OneWriter(rd.sig)
  BY DEF Single, OneWriter
<1>2. ASSUME NEW n \in Writers(rd.sig, rd.bits), ~Constant(n) PROVE n \in Feeding(rd)
  <2>1. PICK w \in Writes : w.sig = rd.sig /\ Meet(w.bits, rd.bits) /\ w.by = n
    BY DEF Writers
  <2> QED
    BY <1>1, <1>2, <2>1, ReadFedByAll
<1>3. ASSUME NEW o \in Feeding(rd) PROVE o \in UNION {Writers(r.sig, r.bits) : r \in Alike(rd)}
  <2>1. PICK e \in Uses(rd) : o \in Origins(e.src)
    BY DEF Feeding
  <2>2. PICK r \in Alike(rd) : o \in Writers(r.sig, r.bits)
    BY <1>1, <2>1, UseFedBySome
  <2> QED
    BY <2>2
<1> QED
  BY <1>2, <1>3

-----------------------------------------------------------------------------
\* The arcs of the instance.
LEMMA InstOnly ==
    ASSUME AllNodesOK, NEW n \in DOMAIN types, n[1] = Inst
    PROVE  n = InstNode
<1>1. Inst \notin Signals /\ \A x \in Signals : <<"port", x>> # Inst
  BY Assumptions DEF NameAssumption
<1>2. OtherNode(design, n, types[n])
  BY <1>1 DEF AllNodesOK, NodesOK, OthersOK
<1>3. \A c \in ToSet(design.conns) : c.kind = "exp" => ExpNode(c.port)[1] # Inst
  BY DesignFacts DEF AllNodesOK, ConnOK, ExpNode
<1>4. \A x \in DOMAIN design.ports : PortNode(x)[1] # Inst
  BY <1>1, DesignFacts DEF AllNodesOK, PortNode
<1> QED
  BY <1>2, <1>3, <1>4 DEF OtherNode

\* They are between the instance and what its ports are on.
LEMMA InstArcs ==
    ASSUME design \in Designs, NEW b \in AllArcs(design)
    PROVE  /\ b[2] = InstNode => \E c \in ToSet(design.conns) :
                Connects(c) /\ c.dir # "out" /\ b[1] = ConnNode(c)
           /\ b[1] = InstNode => \E c \in ToSet(design.conns) :
                Connects(c) /\ c.dir # "in" /\ b[2] = ConnNode(c)
<1>1. Inst \notin Signals /\ \A x \in Signals : <<"port", x>> # Inst
  BY Assumptions DEF NameAssumption
<1>2. CASE b \in PortArcs(design.ports)
  BY <1>1, <1>2, PortArcEnds, DesignFacts DEF InstNode, PortNode, Signal
<1>3. ASSUME NEW st \in ToSet(design.stmts), b \in StmtArcs(st) PROVE b[1] # InstNode /\ b[2] # InstNode
  BY <1>1, <1>3, StmtArcEnds, DrivesNamed, DesignFacts DEF InstNode
<1>4. ASSUME NEW c \in ToSet(design.conns), b \in ConnArcs(c)
      PROVE  /\ b[2] = InstNode => Connects(c) /\ c.dir # "out" /\ b[1] = ConnNode(c)
             /\ b[1] = InstNode => Connects(c) /\ c.dir # "in" /\ b[2] = ConnNode(c)
  <2>1. ConnOK(c)
    BY DesignFacts
  <2>2. Connects(c) => ConnNode(c) # InstNode
    BY <1>1, <2>1 DEF Connects, ConnOK, ConnNode, ExpNode, InstNode
  <2> QED
    BY <1>1, <1>4, <2>1, <2>2, ConnArcEnds DEF InstNode
<1> QED
  BY <1>2, <1>3, <1>4 DEF AllArcs, Base

\* A connected port has its arcs.
LEMMA ArcsOfConn ==
    ASSUME design \in Designs, NEW c \in ToSet(design.conns), Connects(c)
    PROVE  /\ c.dir # "out" => <<ConnNode(c), InstNode, "ASS">> \in AllArcs(design)
           /\ c.dir # "in" => <<InstNode, ConnNode(c), "ASS">> \in AllArcs(design)
<1>1. \A b \in ConnEnds(c, ConnNode(c)) : b \in ConnArcs(c)
  BY DEF ConnArcs, Connects
<1>2. \A b \in ConnArcs(c) : b \in AllArcs(design)
  BY DEF AllArcs, Base
<1> QED
  BY <1>1, <1>2 DEF ConnEnds

\* A port that drives a redundant piece is on one of Torn.
LEMMA ConnTorn ==
    ASSUME AllNodesOK, NEW c \in ToSet(design.conns), Connects(c), c.dir # "in",
           ConnNode(c) \in RedundantIn(types)
    PROVE  ConnNode(c) \in Torn
<1>1. c.kind = "var"
  <2>1. ConnNode(c)[1] \in Signals
    BY RedundantFacts
  <2> QED
    BY <2>1, DesignFacts DEF AllNodesOK, Connects, ConnNode, ConnOK, ExpNode
<1>2. Covered(ConnNode(c))
  BY DEF Covered, Driven, RedundantIn, DrivenIn
<1> QED
  BY <1>1, <1>2 DEF Torn

\* At the end arcs into the instance are as drawn; an arc out of it is, or has
\* been moved off a redundant piece.
LEMMA LastAtInst ==
    ASSUME AllNodesOK, NEW f \in LastArcs(Joining(design, types), types)
    PROVE  /\ f[2] = InstNode => f \in AllArcs(design)
           /\ f[1] = InstNode =>
                \/ f \in AllArcs(design) /\ f[2] \notin RedundantIn(types)
                \/ \E b \in AllArcs(design) :
                     b[1] = InstNode /\ b[2] \in RedundantIn(types) /\ f[2] \in ShareIn(types, b[2])
<1>1. Inst \notin Signals /\ InstNode[1] = Inst
  BY Assumptions DEF NameAssumption, InstNode
<1>2. InstNode \notin RedundantIn(types) /\ \A n \in RedundantIn(types) : InstNode \notin ShareIn(types, n)
  BY <1>1, RedundantFacts, ShareFacts
<1>3. \A b \in JoinArcs(AllArcs(design), types) : b[1] # InstNode /\ b[2] # InstNode
  BY <1>1, JoinFacts, InstOnly
<1>4. CASE f \in Joining(design, types) /\ ~Gone(types, f)
  <2>1. f[2] \in RedundantIn(types) => f[2][1] # Inst
    BY <1>1, RedundantFacts
  <2> QED
    BY <1>1, <1>3, <1>4, <2>1 DEF Joining, Gone
<1>5. ASSUME NEW b \in Joining(design, types), b[2] \in RedundantIn(types), b[1][1] # b[2][1],
             f[1] = b[1], f[2] \in ShareIn(types, b[2])
      PROVE  /\ f[2] # InstNode
             /\ f[1] = InstNode => b \in AllArcs(design) /\ b[1] = InstNode
  BY <1>2, <1>3, <1>5 DEF Joining
<1>6. ASSUME NEW b \in Joining(design, types), b[1] \in RedundantIn(types), b[1][1] = b[2][1],
             f[2] = b[2], f[1] \in ShareIn(types, b[1])
      PROVE  f[2] # InstNode /\ f[1] # InstNode
  BY <1>1, <1>2, <1>6, RedundantFacts
<1> QED
  BY <1>4, <1>5, <1>6, LastWas

\* The port map at the end: a port that drives a signal correct_conections has
\* taken apart is open.
Off(c) == c.dir # "in" /\ ConnNode(c) \in RedundantIn(types) /\ <<InstNode, ConnNode(c), "ASS">> \in AllArcs(design)

MapDone ==
    \A c \in ToSet(design.conns) :
       c.port \in DOMAIN p2s /\ p2s[c.port] = IF Off(c) THEN Open ELSE ConnNode(c)

\* ArcsMapped follows from what the graph and the port map are at the end.
LEMMA FinishedMapped == Finished /\ MapDone => ArcsMapped
<1> SUFFICES ASSUME Finished, MapDone PROVE ArcsMapped
  OBVIOUS
<1> DEFINE L == LastArcs(Joining(design, types), types)
<1>1. AllNodesOK /\ design \in Designs
  BY DEF Finished, AllNodesOK
<1>2. \A e \in edges : <<e.src, e.tgt, e.was>> \in L
  BY DEF Finished, ArcsOf, Triples
<1>3. \A f \in L : \E e \in edges : e.src = f[1] /\ e.tgt = f[2]
  BY DEF Finished, ArcsOf, Triples
<1>4. ASSUME NEW c \in ToSet(design.conns), Connects(c), Off(c) PROVE ConnNode(c) \in Torn
  BY <1>1, <1>4, ConnTorn DEF Off
<1>5. ASSUME NEW e \in edges, e.tgt = InstNode, e.src \notin Torn
      PROVE  \E p \in DOMAIN p2s : p2s[p] = e.src
  <2>1. <<e.src, e.tgt, e.was>> \in AllArcs(design)
    BY <1>1, <1>2, <1>5, LastAtInst
  <2>2. PICK c \in ToSet(design.conns) : Connects(c) /\ e.src = ConnNode(c)
    BY <1>1, <1>5, <2>1, InstArcs
  <2> QED
    BY <1>4, <1>5, <2>2 DEF MapDone
<1>6. ASSUME NEW e \in edges, e.src = InstNode
      PROVE  \/ \E p \in DOMAIN p2s : p2s[p] = e.tgt
             \/ \E n \in Torn : e.tgt \in Share(n)
  <2>1. CASE <<e.src, e.tgt, e.was>> \in AllArcs(design) /\ e.tgt \notin RedundantIn(types)
    <3>1. PICK c \in ToSet(design.conns) : Connects(c) /\ e.tgt = ConnNode(c)
      BY <1>1, <1>6, <2>1, InstArcs
    <3> QED
      BY <2>1, <3>1 DEF MapDone, Off
  <2>2. ASSUME NEW b \in AllArcs(design), b[1] = InstNode, b[2] \in RedundantIn(types), e.tgt \in ShareIn(types, b[2])
        PROVE  \E n \in Torn : e.tgt \in Share(n)
    <3>1. PICK c \in ToSet(design.conns) : Connects(c) /\ c.dir # "in" /\ b[2] = ConnNode(c)
      BY <1>1, <2>2, InstArcs
    <3>2. b[2] \in Torn
      BY <1>1, <2>2, <3>1, ConnTorn
    <3>3. ShareIn(types, b[2]) = Share(b[2])
      BY DEF ShareIn, Share, DrivenIn, Driven
    <3> QED
      BY <2>2, <3>2, <3>3
  <2> QED
    BY <1>1, <1>2, <1>6, <2>1, <2>2, LastAtInst
<1>7. ASSUME NEW c \in ToSet(design.conns), p2s[c.port] # Open
      PROVE  /\ c.dir # "in"  => p2s[c.port] \in {e.tgt : e \in {d \in edges : d.src = InstNode}}
             /\ c.dir # "out" => p2s[c.port] \in Sources(InstNode)
  <2>1. ~Off(c) /\ p2s[c.port] = ConnNode(c)
    BY <1>7 DEF MapDone
  <2>2. Connects(c)
    BY <1>7, <2>1 DEF Connects, ConnNode
  <2>3. Inst \notin Signals /\ InstNode[1] = Inst
    BY Assumptions DEF NameAssumption, InstNode
  <2>4. \A n \in RedundantIn(types) : n[1] # Inst
    BY <1>1, <2>3, RedundantFacts
  <2>5. ASSUME c.dir # "in" PROVE p2s[c.port] \in {e.tgt : e \in {d \in edges : d.src = InstNode}}
    <3> DEFINE b == <<InstNode, ConnNode(c), "ASS">>
    <3>1. b \in AllArcs(design)
      BY <1>1, <2>2, <2>5, ArcsOfConn
    <3>2. ~Gone(types, b)
      BY <2>1, <2>3, <2>4, <2>5, <3>1 DEF Gone, Off
    <3>3. b \in L
      BY <3>1, <3>2, StaysLast DEF Joining
    <3>4. PICK e \in edges : e.src = InstNode /\ e.tgt = ConnNode(c)
      BY <1>3, <3>3
    <3> QED
      BY <2>1, <3>4
  <2>6. ASSUME c.dir # "out" PROVE p2s[c.port] \in Sources(InstNode)
    <3> DEFINE b == <<ConnNode(c), InstNode, "ASS">>
    <3>1. b \in AllArcs(design)
      BY <1>1, <2>2, <2>6, ArcsOfConn
    <3>2. ~Gone(types, b)
      BY <2>3, <2>4 DEF Gone
    <3>3. b \in L
      BY <3>1, <3>2, StaysLast DEF Joining
    <3> QED
      BY <2>1, <3>3, SourcesAre
  <2> QED
    BY <2>5, <2>6
<1> QED
  BY <1>5, <1>6, <1>7 DEF ArcsMapped

-----------------------------------------------------------------------------
\* The inductive invariant: what has been drawn when a phase has come to its
\* statement or connection number k.
First(s, k) == {s[i] : i \in {j \in DOMAIN s : j < k}}

DrawnSoFar(S, C) == NodesOK(design, S, C, types) /\ Triples(edges) = Base(design, S, C)
MapSoFar(C)      == DOMAIN p2s = {c.port : c \in C} /\ \A c \in C : p2s[c.port] = ConnNode(c)

GraphInv ==
    /\ pc = "stmts"   => DrawnSoFar(First(design.stmts, next), {})
    /\ pc = "inst"    => DrawnSoFar(ToSet(design.stmts), First(design.conns, next))
    /\ pc = "correct" => AllNodesOK /\ Triples(edges) = Joining(design, types)
    /\ pc = "done"    => Finished

MapInv ==
    /\ pc \in {"ports", "stmts"} => MapSoFar({})
    /\ pc = "inst"    => MapSoFar(First(design.conns, next))
    /\ pc = "correct" => MapSoFar(ToSet(design.conns))
    /\ pc = "done"    => MapDone

Inv ==
    /\ design \in Designs /\ next \in Nat \ {0}
    /\ pc \in {"ports", "stmts", "lost", "inst", "correct", "done"}
    /\ pc = "ports" => next = 1
    /\ GraphInv /\ MapInv

-----------------------------------------------------------------------------
\* add_edge adds the arcs.
LEMMA TriplesAdded ==
    ASSUME NEW E, NEW new, \A b \in new : IsTriple(b)
    PROVE  Triples(AddEdges(E, new)) = Triples(E) \cup new
<1>1. \A b \in new : LET e == Edge(b[1], b[2], b[3], b[3]) IN e \in AddEdges(E, new) /\ <<e.src, e.tgt, e.was>> = b
  BY DEF AddEdges, Edge, IsTriple
<1>2. ASSUME NEW e \in AddEdges(E, new) PROVE <<e.src, e.tgt, e.was>> \in Triples(E) \cup new
  <2>1. CASE e \in E
    BY <2>1 DEF Triples
  <2>2. ASSUME NEW b \in new, e = Edge(b[1], b[2], b[3], b[3]) PROVE <<e.src, e.tgt, e.was>> \in new
    BY <2>2 DEF Edge, IsTriple
  <2> QED
    BY <2>1, <2>2 DEF AddEdges
<1>3. E \subseteq AddEdges(E, new)
  BY DEF AddEdges
<1> QED
  BY <1>1, <1>2, <1>3 DEF Triples

\* The types of edges are not among the triples.
Retyped(st, E) == {IF e.tgt \in Targets(st.trees) /\ e.src[1] \in Resets(st)
                   THEN Edge(e.src, e.tgt, "RST", e.was) ELSE e : e \in E}

\* What SeqBlock::gen_sdfg makes a reset stays the arc it was drawn as.
LEMMA TriplesRetyped ==
    ASSUME NEW st, NEW E
    PROVE  Triples(Retyped(st, E)) = Triples(E)
<1> DEFINE f(e) == IF e.tgt \in Targets(st.trees) /\ e.src[1] \in Resets(st)
                   THEN Edge(e.src, e.tgt, "RST", e.was) ELSE e
<1>1. \A e : f(e).src = e.src /\ f(e).tgt = e.tgt /\ f(e).was = e.was
  BY DEF Edge
<1> HIDE DEF f
<1>2. Triples({f(e) : e \in E}) = Triples(E)
  BY <1>1 DEF Triples
<1> QED
  BY <1>2 DEF f, Retyped

\* An assignment draws its arcs and no others,
LEMMA AssignDraws ==
    ASSUME NEW st, st.kind = "assign", GenAssign(st)
    PROVE  Triples(edges') = Triples(edges) \cup StmtArcs(st)
<1>1. StmtArcs(st) = Drawn(Relations(st.trees))
  BY DEF StmtArcs, Flows, Clocked
<1>2. edges' = AddEdges(edges, StmtArcs(st))
  BY <1>1 DEF GenAssign
<1> QED
  BY <1>2, StmtTriples, TriplesAdded

\* and so does an always block.
LEMMA SeqDraws ==
    ASSUME NEW st, st.kind = "always", GenSeq(st)
    PROVE  Triples(edges') = Triples(edges) \cup StmtArcs(st)
<1>1. Flows(st) = SeqRelations(st)
  BY DEF Flows
<1>2. CASE st.pulse = {}
  <2>1. StmtArcs(st) = Drawn(SeqRelations(st))
    BY <1>1, <1>2 DEF StmtArcs, Clocked
  <2>2. edges' = AddEdges(edges, StmtArcs(st))
    BY <1>2, <2>1 DEF GenSeq
  <2> QED
    BY <2>2, StmtTriples, TriplesAdded
<1>3. CASE st.pulse # {}
  <2>1. StmtArcs(st) = Drawn(SeqRelations(st)) \cup ClockArcs(st)
    BY <1>1, <1>3 DEF StmtArcs, Clocked
  <2>2. edges' = Retyped(st, AddEdges(edges, StmtArcs(st)))
    BY <1>3, <2>1 DEF GenSeq, Retyped
  <2>3. Triples(edges') = Triples(AddEdges(edges, StmtArcs(st)))
    BY <2>2, TriplesRetyped
  <2> QED
    BY <2>3, StmtTriples, TriplesAdded
<1> QED
  BY <1>2, <1>3

\* The arcs drawn so far grow by those of one statement,
LEMMA StmtGrows ==
    ASSUME NEW de, NEW S, NEW C, NEW st
    PROVE  Base(de, S \cup {st}, C) = Base(de, S, C) \cup StmtArcs(st)
<1>1. (UNION {StmtArcs(d) : d \in S \cup {st}}) = (UNION {StmtArcs(d) : d \in S}) \cup StmtArcs(st)
  OBVIOUS
<1> QED
  BY <1>1 DEF Base

\* or by those of one connection.
LEMMA ConnGrows ==
    ASSUME NEW de, NEW S, NEW C, NEW c
    PROVE  Base(de, S, C \cup {c}) = Base(de, S, C) \cup ConnArcs(c)
<1>1. (UNION {ConnArcs(d) : d \in C \cup {c}}) = (UNION {ConnArcs(d) : d \in C}) \cup ConnArcs(c)
  OBVIOUS
<1> QED
  BY <1>1 DEF Base

\* The first k - 1 elements of a sequence: none, one more, or all.
LEMMA FirstFacts ==
    ASSUME NEW s, s \in Seq(ToSet(s)), NEW k \in Nat \ {0}
    PROVE  /\ First(s, 1) = {} /\ First(s, k) \subseteq ToSet(s)
           /\ k <= Len(s) => s[k] \in ToSet(s) /\ First(s, k + 1) = First(s, k) \cup {s[k]}
           /\ k > Len(s) => First(s, k) = ToSet(s)
<1>1. DOMAIN s = 1 .. Len(s) /\ Len(s) \in Nat
  OBVIOUS
<1>2. First(s, 1) = {}
  BY <1>1 DEF First
<1>3. First(s, k) \subseteq ToSet(s)
  BY DEF First, ToSet
<1>4. ASSUME k <= Len(s) PROVE s[k] \in ToSet(s) /\ First(s, k + 1) = First(s, k) \cup {s[k]}
  <2>1. k \in DOMAIN s
    BY <1>1, <1>4
  <2>2. {j \in DOMAIN s : j < k + 1} = {j \in DOMAIN s : j < k} \cup {k}
    BY <1>1, <2>1
  <2> QED
    BY <2>1, <2>2 DEF First, ToSet
<1>5. ASSUME k > Len(s) PROVE First(s, k) = ToSet(s)
  <2>1. {j \in DOMAIN s : j < k} = DOMAIN s
    BY <1>1, <1>5
  <2> QED
    BY <2>1 DEF First, ToSet
<1> QED
  BY <1>2, <1>3, <1>4, <1>5

\* Statements and connections are sequences, and a port has one connection.
LEMMA DesignSeqs ==
    ASSUME design \in Designs
    PROVE  /\ design.stmts \in Seq(ToSet(design.stmts)) /\ design.conns \in Seq(ToSet(design.conns))
           /\ \A c, d \in ToSet(design.conns) : c.port = d.port => c = d
<1>1. \A i, j \in DOMAIN design.conns : design.conns[i].port = design.conns[j].port => i = j
  BY Assumptions DEF DesignAssumption
<1>2. \A c, d \in ToSet(design.conns) : c.port = d.port => c = d
  BY <1>1 DEF ToSet
<1> QED
  BY <1>2, Assumptions DEF DesignAssumption

-----------------------------------------------------------------------------
\* The steps.
\* DrawPorts establishes it for no statement and no connection.
LEMMA PortsKeep ==
    ASSUME Inv, DrawPorts
    PROVE  Inv'
<1> DEFINE ports  == design.ports
           nodes  == {PortNode(x) : x \in DOMAIN ports}
           sigs   == {Signal(x) : x \in DOMAIN ports}
           inst   == {InstNode : c \in ToSet(design.conns)}
           ofPort == [n \in nodes |-> PortType(ports[CHOOSE x \in DOMAIN ports : n = PortNode(x)])]
           mid    == Missed(ofPort, sigs, "DF")
<1>1. types' = Missed(mid, inst, "MODULE") /\ edges' = AddEdges({}, PortArcs(ports)) /\ pc' = "stmts"
      /\ UNCHANGED <<design, p2s, next>> /\ pc = "ports"
  BY DEF DrawPorts
<1>2. design \in Designs
  BY DEF Inv
<1>3. /\ DOMAIN ofPort = nodes
      /\ \A n \in nodes : ofPort[n] \in {"IPORT", "OPORT", "PORT"}
  BY DEF PortType
<1> HIDE DEF ofPort
<1>4. /\ DOMAIN mid = nodes \cup sigs
      /\ \A n \in nodes : mid[n] = ofPort[n]
      /\ \A n \in sigs \ nodes : mid[n] = "DF"
  BY <1>3 DEF Missed
<1> HIDE DEF mid
<1>5. \A n \in nodes : n[1] \notin Signals /\ \E x \in DOMAIN ports : n = PortNode(x)
  BY <1>2, DesignFacts
<1>6. \A n \in sigs : n[1] \in Signals
  BY <1>2, DesignFacts DEF Signal
<1>7. \A n \in inst : n = InstNode /\ n[1] \notin Signals
  BY <1>2, DesignFacts
<1>8. \A b \in PortArcs(ports) : b[1] \in nodes \cup sigs /\ b[2] \in nodes \cup sigs
  BY PortArcEnds
<1>9. ToSet(design.conns) # {} => InstNode \in inst
  OBVIOUS
<1> HIDE DEF nodes, sigs, inst
<1>10. /\ DOMAIN types' = nodes \cup sigs \cup inst
       /\ \A n \in nodes \cup sigs : types'[n] = mid[n]
       /\ \A n \in inst \ (nodes \cup sigs) : types'[n] = "MODULE"
  BY <1>1, <1>4 DEF Missed
<1>11. Base(design, {}, {}) = PortArcs(ports)
  BY DEF Base
<1>12. NodesOK(design, {}, {}, types')
  <2>1. Ends(Base(design, {}, {}), DOMAIN types')
    BY <1>8, <1>10, <1>11 DEF Ends
  <2>2. DrivenBy({}) = {}
    BY DEF DrivenBy
  <2>3. SignalsOK({}, types')
    BY <1>4, <1>5, <1>6, <1>7, <1>10, <2>2 DEF SignalsOK, SignalNode
  <2>4. ASSUME NEW n \in DOMAIN types', n[1] \notin Signals PROVE OtherNode(design, n, types'[n])
    <3>1. CASE n \in nodes
      BY <1>3, <1>4, <1>5, <1>10, <3>1 DEF OtherNode
    <3>2. CASE n \notin nodes
      BY <1>6, <1>7, <1>10, <2>4, <3>2 DEF OtherNode
    <3> QED
      BY <3>1, <3>2
  <2>5. InstOK(design, types')
    BY <1>9, <1>10 DEF InstOK
  <2> QED
    BY <2>1, <2>3, <2>4, <2>5 DEF NodesOK, OthersOK
<1>13. Triples(edges') = Base(design, {}, {})
  <2>1. Triples({}) = {}
    BY DEF Triples
  <2> QED
    BY <1>1, <1>11, <2>1, PortTriples, TriplesAdded
<1>14. First(design.stmts, next)' = {}
  BY <1>1, <1>2, DesignSeqs, FirstFacts DEF Inv
<1>15. GraphInv'
  BY <1>1, <1>12, <1>13, <1>14 DEF GraphInv, DrawnSoFar
<1>16. MapInv'
  BY <1>1 DEF Inv, MapInv, MapSoFar
<1> QED
  BY <1>1, <1>2, <1>15, <1>16 DEF Inv

\* A statement adds its nodes and arcs to what is drawn.
LEMMA StatementKeeps ==
    ASSUME Inv, Statement
    PROVE  Inv'
<1> DEFINE st == design.stmts[next]
           S  == First(design.stmts, next)
<1>1. design \in Designs /\ next \in Nat \ {0}
  BY DEF Inv
<1>2. /\ pc = "stmts" /\ next <= Len(design.stmts) /\ next' = next + 1
      /\ IF st.kind = "assign" THEN GenAssign(st) ELSE GenSeq(st)
      /\ UNCHANGED <<design, p2s, pc>>
  BY DEF Statement
<1>3. st \in ToSet(design.stmts) /\ First(design.stmts, next)' = S \cup {st}
  BY <1>1, <1>2, DesignSeqs, FirstFacts
<1>4. StatementOK(st)
  BY <1>1, <1>3, DesignFacts
<1>5. NodesOK(design, S, {}, types) /\ Triples(edges) = Base(design, S, {})
  BY <1>2 DEF Inv, GraphInv, DrawnSoFar
<1> HIDE DEF st, S
<1>6. Typed(st, types, types') /\ Triples(edges') = Triples(edges) \cup StmtArcs(st)
  <2>1. CASE st.kind = "assign"
    BY <1>2, <1>4, <2>1, AssignTyped, AssignDraws
  <2>2. CASE st.kind = "always"
    BY <1>2, <1>4, <2>2, SeqTyped, SeqDraws
  <2> QED
    BY <1>4, <2>1, <2>2 DEF StatementOK
<1>7. NodesOK(design, S \cup {st}, {}, types')
  BY <1>4, <1>5, <1>6, TypedKeeps
<1>8. Triples(edges') = Base(design, S \cup {st}, {})
  BY <1>5, <1>6, StmtGrows
<1>9. GraphInv'
  BY <1>2, <1>3, <1>7, <1>8 DEF GraphInv, DrawnSoFar
<1>10. MapInv'
  BY <1>2 DEF Inv, MapInv, MapSoFar
<1>11. next' \in Nat \ {0}
  BY <1>1, <1>2
<1> QED
  BY <1>1, <1>2, <1>9, <1>10, <1>11 DEF Inv

\* When the statements are through, the connections begin.
LEMMA StartKeeps ==
    ASSUME Inv, StartInst
    PROVE  Inv'
<1>1. design \in Designs /\ next \in Nat \ {0}
  BY DEF Inv
<1>2. /\ pc = "stmts" /\ next > Len(design.stmts) /\ next' = 1 /\ pc' = "inst"
      /\ UNCHANGED <<design, types, edges, p2s>>
  BY DEF StartInst
<1>3. First(design.stmts, next) = ToSet(design.stmts) /\ First(design.conns, 1) = {}
  BY <1>1, <1>2, DesignSeqs, FirstFacts
<1>4. GraphInv'
  BY <1>2, <1>3 DEF Inv, GraphInv, DrawnSoFar
<1>5. MapInv'
  BY <1>2, <1>3 DEF Inv, MapInv, MapSoFar
<1> QED
  BY <1>1, <1>2, <1>4, <1>5 DEF Inv

\* Nothing is said of a module whose extraction was lost.
LEMMA LostKeeps ==
    ASSUME Inv, StatementLost
    PROVE  Inv'
BY DEF Inv, StatementLost, GraphInv, MapInv

\* A connection adds its nodes and arcs, and its port to the map.
LEMMA ConnectionKeeps ==
    ASSUME Inv, Connection
    PROVE  Inv'
<1> DEFINE c == design.conns[next]
           S == ToSet(design.stmts)
           C == First(design.conns, next)
<1>1. design \in Designs /\ next \in Nat \ {0}
  BY DEF Inv
<1>2. /\ pc = "inst" /\ next <= Len(design.conns) /\ next' = next + 1
      /\ edges' = AddEdges(edges, ConnArcs(c)) /\ p2s' = Ensure(p2s, {c.port}, ConnNode(c))
      /\ UNCHANGED <<design, pc>>
  BY DEF Connection
<1>3. \/ c.kind = "exp" /\ types' = Missed(Ensure(types, {ConnNode(c)}, "COMB"), {u[1] : u \in ConnUses(c)}, "DF")
      \/ c.kind = "var" /\ types' = Missed(types, {ConnNode(c)}, "DF")
      \/ c.kind \notin {"exp", "var"} /\ types' = types
  BY DEF Connection
<1>4. c \in ToSet(design.conns) /\ First(design.conns, next)' = C \cup {c} /\ C \subseteq ToSet(design.conns)
  BY <1>1, <1>2, DesignSeqs, FirstFacts
<1>5. ConnOK(c)
  BY <1>1, <1>4, DesignFacts
<1>6. NodesOK(design, S, C, types) /\ Triples(edges) = Base(design, S, C) /\ MapSoFar(C)
  BY <1>2 DEF Inv, GraphInv, MapInv, DrawnSoFar
<1>7. \A n \in DrivenBy(S) : n[1] \in Signals
  BY <1>1, DesignFacts, DrivesNamed DEF DrivenBy
<1> HIDE DEF c, S, C
<1>8. Joins(design, c, types, types')
  <2>1. InstNode \in DOMAIN types
    BY <1>4, <1>6 DEF NodesOK, InstOK
  <2> QED
    BY <1>3, <1>4, <1>5, <2>1, ExpJoins, VarJoins, NoJoins DEF Connects
<1>9. NodesOK(design, S, C \cup {c}, types')
  BY <1>6, <1>7, <1>8, JoinsKeeps
<1>10. Triples(edges') = Base(design, S, C \cup {c})
  <2>1. Triples(edges') = Triples(edges) \cup ConnArcs(c)
    BY <1>2, ConnTriples, TriplesAdded
  <2> QED
    BY <1>6, <2>1, ConnGrows
<1>11. GraphInv'
  <2>1. S' = S
    BY <1>2 DEF S
  <2> QED
    BY <1>2, <1>4, <1>9, <1>10, <2>1 DEF GraphInv, DrawnSoFar, S
<1>12. MapInv'
  <2>1. \A d \in C : d.port = c.port => d = c
    BY <1>1, <1>4, DesignSeqs
  <2>2. DOMAIN p2s = {d.port : d \in C} /\ \A d \in C : p2s[d.port] = ConnNode(d)
    BY <1>6 DEF MapSoFar
  <2>3. /\ DOMAIN p2s' = DOMAIN p2s \cup {c.port}
        /\ p2s'[c.port] = ConnNode(c)
        /\ \A p \in DOMAIN p2s : p # c.port => p2s'[p] = p2s[p]
    BY <1>2 DEF Ensure
  <2>4. DOMAIN p2s' = {d.port : d \in C \cup {c}}
    BY <2>2, <2>3
  <2>5. \A d \in C \cup {c} : p2s'[d.port] = ConnNode(d)
    BY <2>1, <2>2, <2>3
  <2> QED
    BY <1>2, <1>4, <2>4, <2>5 DEF MapInv, MapSoFar
<1>13. next' \in Nat \ {0}
  BY <1>1, <1>2
<1> QED
  BY <1>1, <1>2, <1>11, <1>12, <1>13 DEF Inv

\* A node has a source when an arc ends in it.
LEMMA FedMeans ==
    ASSUME NEW n
    PROVE  Sources(n) # {} <=> FedBy(Triples(edges), n)
<1>1. ASSUME NEW e \in edges, e.tgt = n PROVE FedBy(Triples(edges), n)
  <2>1. <<e.src, e.tgt, e.was>> \in Triples(edges)
    BY DEF Triples
  <2> QED
    BY <1>1, <2>1 DEF FedBy
<1>2. ASSUME FedBy(Triples(edges), n) PROVE Sources(n) # {}
  BY <1>2 DEF FedBy, Triples, Sources
<1> QED
  BY <1>1, <1>2 DEF Sources

\* connect_partial_nodes adds the joining arcs.
LEMMA PartialKeeps ==
    ASSUME Inv, ConnectPartial
    PROVE  Inv'
<1>1. design \in Designs /\ next \in Nat \ {0}
  BY DEF Inv
<1>2. /\ pc = "inst" /\ next > Len(design.conns) /\ pc' = "correct"
      /\ edges' = AddEdges(edges, {<<a[1], a[2], "ASS">> : a \in Joined})
      /\ UNCHANGED <<design, types, p2s, next>>
  BY DEF ConnectPartial
<1>3. First(design.conns, next) = ToSet(design.conns)
  BY <1>1, <1>2, DesignSeqs, FirstFacts
<1>4. AllNodesOK /\ Triples(edges) = AllArcs(design) /\ MapSoFar(ToSet(design.conns))
  BY <1>1, <1>2, <1>3 DEF Inv, GraphInv, MapInv, DrawnSoFar, AllNodesOK, AllArcs
<1>5. {<<a[1], a[2], "ASS">> : a \in Joined} = JoinArcs(AllArcs(design), types)
  BY <1>4, FedMeans DEF Joined, Joinable, JoinArcs, IsPort, NotPort
<1>6. \A b \in JoinArcs(AllArcs(design), types) : IsTriple(b)
  BY DEF JoinArcs, IsTriple
<1>7. Triples(edges') = Joining(design, types)
  BY <1>2, <1>4, <1>5, <1>6, TriplesAdded DEF Joining
<1>8. AllNodesOK'
  BY <1>2, <1>4 DEF AllNodesOK
<1>9. Joining(design, types)' = Joining(design, types)
  BY <1>2
<1>10. GraphInv'
  BY <1>2, <1>7, <1>8, <1>9 DEF GraphInv
<1>11. MapInv'
  BY <1>2, <1>4 DEF MapInv, MapSoFar
<1> QED
  BY <1>1, <1>2, <1>10, <1>11 DEF Inv

\* The arc that an edge is; Elsewhere and Inside are the edges of arcs that go.
Arc(e) == <<e.src, e.tgt, e.was>>

\* An edge goes when its arc does, whatever its type.
LEMMA GoneEdges ==
    ASSUME NEW e
    PROVE  e \in Elsewhere \cup Inside <=> e \in edges /\ Gone(types, Arc(e))
<1>1. RedundantIn(types) = Redundant
  BY DEF RedundantIn, DrivenIn, Redundant, Driven
<1> HIDE DEF Redundant
<1> QED
  BY <1>1 DEF Elsewhere, Inside, Gone, Arc

\* A moved edge is moved from one of the graph,
LEMMA MovedEdges ==
    ASSUME NEW f \in Moved
    PROVE  \E e \in edges : Arc(f) \in MovedIn(types, Arc(e))
<1>1. RedundantIn(types) = Redundant /\ \A n : ShareIn(types, n) = Share(n)
  BY DEF RedundantIn, DrivenIn, Redundant, Driven, ShareIn, Share
<1>2. ASSUME NEW e \in Elsewhere, NEW m \in Share(e.tgt), f = Edge(e.src, m, e.type, e.was)
      PROVE  e \in edges /\ Arc(f) \in MovedIn(types, Arc(e))
  BY <1>1, <1>2 DEF Elsewhere, MovedIn, Arc, Edge
<1>3. ASSUME NEW e \in Inside, NEW m \in Share(e.src), f = Edge(m, e.tgt, e.type, e.was)
      PROVE  e \in edges /\ Arc(f) \in MovedIn(types, Arc(e))
  BY <1>1, <1>3 DEF Inside, MovedIn, Arc, Edge
<1> QED
  BY <1>2, <1>3 DEF Moved

\* and each that is to be moved is.
LEMMA EdgesMoved ==
    ASSUME NEW e \in edges, NEW b \in MovedIn(types, Arc(e))
    PROVE  \E f \in Moved : Arc(f) = b
<1>1. RedundantIn(types) = Redundant /\ \A n : ShareIn(types, n) = Share(n)
  BY DEF RedundantIn, DrivenIn, Redundant, Driven, ShareIn, Share
<1>2. ASSUME e.tgt \in Redundant, e.src[1] # e.tgt[1], NEW m \in Share(e.tgt), b = <<e.src, m, e.was>>
      PROVE  \E f \in Moved : Arc(f) = b
  <2>1. e \in Elsewhere
    BY <1>2 DEF Elsewhere
  <2>2. Edge(e.src, m, e.type, e.was) \in Moved
    BY <1>2, <2>1 DEF Moved
  <2> QED
    BY <1>2, <2>2 DEF Arc, Edge
<1>3. ASSUME e.src \in Redundant, e.src[1] = e.tgt[1], NEW m \in Share(e.src), b = <<m, e.tgt, e.was>>
      PROVE  \E f \in Moved : Arc(f) = b
  <2>1. e \in Inside
    BY <1>3 DEF Inside
  <2>2. Edge(m, e.tgt, e.type, e.was) \in Moved
    BY <1>3, <2>1 DEF Moved
  <2> QED
    BY <1>3, <2>2 DEF Arc, Edge
<1> HIDE DEF Redundant
<1> QED
  BY <1>1, <1>2, <1>3 DEF MovedIn, Arc

\* What is moved does not go: it ends at a driven node where it ended at a
\* redundant one.
LEMMA MovedStay ==
    ASSUME NEW b, NEW f \in MovedIn(types, b)
    PROVE  ~Gone(types, f)
<1>1. \A n : \A m \in ShareIn(types, n) : m[1] = n[1] /\ m \notin RedundantIn(types)
  BY DEF ShareIn, DrivenIn, RedundantIn
<1> QED
  BY <1>1 DEF MovedIn, Gone

\* correct_conections makes the arcs those of the end.
LEMMA CorrectArcs ==
    ASSUME Correct
    PROVE  Triples(edges') = LastArcs(Triples(edges), types)
<1>1. edges' = (edges \cup Moved) \ (Elsewhere \cup Inside)
  BY DEF Correct
<1>2. Triples(edges) = {Arc(e) : e \in edges} /\ Triples(edges') = {Arc(e) : e \in edges'}
  BY DEF Triples, Arc
<1> DEFINE A == Triples(edges)
<1>3. ASSUME NEW f \in edges' PROVE Arc(f) \in LastArcs(A, types)
  <2>1. CASE f \in Moved
    BY <1>2, <2>1, MovedEdges DEF LastArcs
  <2>2. CASE f \in edges /\ f \notin Elsewhere \cup Inside
    BY <1>2, <2>2, GoneEdges DEF LastArcs
  <2> QED
    BY <1>1, <2>1, <2>2
<1>4. ASSUME NEW b \in LastArcs(A, types) PROVE \E f \in edges' : Arc(f) = b
  <2>1. CASE b \in A /\ ~Gone(types, b)
    BY <1>1, <1>2, <2>1, GoneEdges
  <2>2. ASSUME NEW e \in edges, b \in MovedIn(types, Arc(e)) PROVE \E f \in edges' : Arc(f) = b
    <3>1. PICK f \in Moved : Arc(f) = b
      BY <2>2, EdgesMoved
    <3>2. ~Gone(types, Arc(f))
      BY <2>2, <3>1, MovedStay
    <3> QED
      BY <1>1, <3>1, <3>2, GoneEdges
  <2> QED
    BY <1>2, <2>1, <2>2 DEF LastArcs
<1> QED
  BY <1>2, <1>3, <1>4

\* remove_edge takes a port off the map when its arc goes.
LEMMA OffPorts ==
    ASSUME AllNodesOK, Triples(edges) = Joining(design, types), MapSoFar(ToSet(design.conns)),
           NEW c \in ToSet(design.conns), Connects(c)
    PROVE  /\ c.port \in {d.port : d \in {x \in ToSet(design.conns) : x.dir # "in"}}
           /\ \E e \in Elsewhere \cup Inside : e.src = InstNode /\ e.tgt = p2s[c.port]
           <=> Off(c)
<1> DEFINE L == c.port \in {d.port : d \in {x \in ToSet(design.conns) : x.dir # "in"}}
           b == <<InstNode, ConnNode(c), "ASS">>
<1>1. design \in Designs /\ p2s[c.port] = ConnNode(c)
  BY DEF AllNodesOK, MapSoFar
<1>2. L <=> c.dir # "in"
  BY <1>1, DesignSeqs
<1>3. \A n \in RedundantIn(types) : n[1] # InstNode[1]
  BY <1>1, RedundantFacts, DesignFacts
<1>4. ASSUME c.dir # "in", NEW e \in Elsewhere \cup Inside, e.src = InstNode, e.tgt = ConnNode(c)
      PROVE  Off(c)
  <2>1. Gone(types, Arc(e))
    BY GoneEdges
  <2>2. ConnNode(c) \in RedundantIn(types)
    BY <1>3, <1>4, <2>1 DEF Gone, Arc
  <2> QED
    BY <1>1, <1>4, <2>2, ArcsOfConn DEF Off
<1>5. ASSUME Off(c)
      PROVE  c.dir # "in" /\ \E e \in Elsewhere \cup Inside : e.src = InstNode /\ e.tgt = ConnNode(c)
  <2>1. b \in Triples(edges)
    BY <1>5 DEF Off, Joining
  <2>2. PICK e \in edges : Arc(e) = b
    BY <2>1 DEF Triples, Arc
  <2>3. e.src = InstNode /\ e.tgt = ConnNode(c)
    BY <2>2 DEF Arc
  <2>4. Gone(types, Arc(e))
    BY <1>3, <1>5, <2>2 DEF Gone, Off
  <2> QED
    BY <1>5, <2>3, <2>4, GoneEdges DEF Off
<1> QED
  BY <1>1, <1>2, <1>4, <1>5

\* After correct_conections graph and port map are those of the end.
LEMMA CorrectKeeps ==
    ASSUME Inv, Correct
    PROVE  Inv'
<1> DEFINE drives == {d.port : d \in {x \in ToSet(design.conns) : x.dir # "in"}}
           off == {p \in drives : \E e \in Elsewhere \cup Inside : e.src = InstNode /\ e.tgt = p2s[p]}
<1>1. /\ pc = "correct" /\ pc' = "done" /\ UNCHANGED <<design, types, next>>
      /\ p2s' = [p \in DOMAIN p2s |-> IF p \in off THEN Open ELSE p2s[p]]
  BY DEF Correct
<1>2. /\ design \in Designs /\ next \in Nat \ {0} /\ AllNodesOK
      /\ Triples(edges) = Joining(design, types) /\ MapSoFar(ToSet(design.conns))
  BY <1>1 DEF Inv, GraphInv, MapInv
<1>3. \A c \in ToSet(design.conns) : Connects(c) => (c.port \in off <=> Off(c))
  BY <1>2, OffPorts
<1> HIDE DEF off
<1>4. GraphInv'
  <2>1. AllNodesOK'
    BY <1>1, <1>2 DEF AllNodesOK
  <2>2. Triples(edges') = LastArcs(Joining(design, types), types)
    BY <1>2, CorrectArcs
  <2>3. ArcsOf'
    BY <1>1, <2>2 DEF ArcsOf
  <2> QED
    BY <1>1, <2>1, <2>3 DEF GraphInv, Finished
<1>5. MapInv'
  <2>1. \A c : Off(c)' = Off(c)
    BY <1>1 DEF Off
  <2>2. ASSUME NEW c \in ToSet(design.conns)
        PROVE  c.port \in DOMAIN p2s' /\ p2s'[c.port] = IF Off(c) THEN Open ELSE ConnNode(c)
    <3>1. c.port \in DOMAIN p2s /\ p2s[c.port] = ConnNode(c)
      BY <1>2 DEF MapSoFar
    <3>2. ~Connects(c) => ConnNode(c) = Open
      BY DEF Connects, ConnNode
    <3> QED
      BY <1>1, <1>3, <3>1, <3>2
  <2> QED
    BY <1>1, <2>1, <2>2 DEF MapInv, MapDone
<1> QED
  BY <1>1, <1>2, <1>4, <1>5 DEF Inv

\* No step breaks the inductive invariant,
LEMMA StepKeeps == Inv /\ [Next]_vars => Inv'
<1> SUFFICES ASSUME Inv, [Next]_vars PROVE Inv'
  OBVIOUS
<1>1. CASE UNCHANGED vars
  <2>1. /\ design' = design /\ types' = types /\ edges' = edges /\ p2s' = p2s
        /\ next' = next /\ pc' = pc
    BY <1>1 DEF vars
  <2>2. GraphInv' /\ MapInv'
    BY <2>1 DEF Inv, GraphInv, MapInv, DrawnSoFar, MapSoFar, AllNodesOK, Finished, ArcsOf, MapDone, Off
  <2> QED
    BY <2>1, <2>2 DEF Inv
<1> QED
  BY <1>1, PortsKeep, StatementKeeps, LostKeeps, StartKeeps, ConnectionKeeps, PartialKeeps, CorrectKeeps DEF Next

\* so that it holds throughout.
LEMMA Invariant == Spec => []Inv
<1>1. Init => Inv
  BY DEF Init, Inv, GraphInv, MapInv, MapSoFar
<1> QED
  BY <1>1, StepKeeps, PTL DEF Spec

\* For every module, whatever its signals, pieces, statements and connections:
\* when extract_sdfg is done, a read of a signal without doubly driven bits is
\* fed by all that writes a bit of it, and its reader by nothing else.
THEOREM FedHolds == Spec => []Fed
<1>1. Inv => Fed
  BY FinishedFed DEF Inv, GraphInv, Fed
<1> QED
  BY <1>1, Invariant, PTL

\* For every module: the arcs of the instance and its port map agree when
\* extract_sdfg is done, as check_integrity asserts, but for the ports that
\* drive a signal correct_conections takes apart.
THEOREM ArcsMappedHolds == Spec => []ArcsMapped
<1>1. Inv => ArcsMapped
  BY FinishedMapped DEF Inv, GraphInv, MapInv, ArcsMapped
<1> QED
  BY <1>1, Invariant, PTL

-----------------------------------------------------------------------------
(***************************************************************************)
(* The intervals that pieces are made of, those of cpprange: what RangeMap *)
(* relies on when it cuts two rows, for intervals of any integers.  divide *)
(* loses no bit, counts none twice and keeps the order, and each of its    *)
(* outer parts comes from one of the two intervals.                        *)
(***************************************************************************)
NonEmpty == {e \in [hi : Int, lo : Int] : ~IsEmpty(e)}
In(b, e) == e.lo <= b /\ b <= e.hi

\* The shared part of two intervals has the bits of both.
LEMMA BothIsShared ==
    ASSUME NEW e \in NonEmpty, NEW r \in NonEmpty, NEW b \in Int
    PROVE  In(b, Both(e, r)) <=> In(b, e) /\ In(b, r)
BY DEF NonEmpty, In, Both, Interval, Lower, Higher, IsEmpty

\* RangeElement::divide, one bit at a time: a bit of either interval is in one
\* of the three parts, the bits of both are the middle part, and no part has
\* a bit that neither interval has.
THEOREM DivideKeepsBits ==
    ASSUME NEW e \in NonEmpty, NEW r \in NonEmpty, NEW b \in Int
    PROVE  LET d == Divide(e, r)
           IN  /\ In(b, e) \/ In(b, r) <=> In(b, d.high) \/ In(b, d.mid) \/ In(b, d.low)
               /\ In(b, d.mid) <=> In(b, e) /\ In(b, r)
<1> DEFINE both == Both(e, r)
           d    == Divide(e, r)
<1>1. CASE IsEmpty(both)
  <2>1. d.mid = both /\ {d.high, d.low} = {e, r}
    BY <1>1 DEF Divide
  <2>2. ~In(b, both)
    BY <1>1 DEF NonEmpty, In, Both, Interval, Lower, Higher, IsEmpty
  <2> QED
    BY <2>1, <2>2, BothIsShared
<1>2. CASE ~IsEmpty(both)
  <2>1. /\ d.high = Interval(Higher(e.hi, r.hi), both.hi + 1)
        /\ d.mid = both
        /\ d.low = Interval(both.lo - 1, Lower(e.lo, r.lo))
    BY <1>2 DEF Divide
  <2>2. In(b, e) \/ In(b, r) <=> In(b, d.high) \/ In(b, d.mid) \/ In(b, d.low)
    BY <1>2, <2>1 DEF NonEmpty, In, Both, Interval, Lower, Higher, IsEmpty
  <2> QED
    BY <2>1, <2>2, BothIsShared
<1> QED
  BY <1>1, <1>2

\* The parts are in order, from high to low, with no bit in two of them: what
\* normalize assumes of the rows a map operation has cut.
THEOREM DivideOrdered ==
    ASSUME NEW e \in NonEmpty, NEW r \in NonEmpty, NEW b \in Int, NEW c \in Int
    PROVE  LET d == Divide(e, r)
           IN  /\ In(b, d.high) /\ (In(c, d.mid) \/ In(c, d.low)) => c < b
               /\ In(b, d.mid) /\ In(c, d.low) => c < b
<1> DEFINE both == Both(e, r)
           d    == Divide(e, r)
<1>1. CASE IsEmpty(both)
  <2>1. \A i \in Int : ~In(i, d.mid)
    BY <1>1 DEF Divide, NonEmpty, In, Both, Interval, Lower, Higher, IsEmpty
  <2>2. In(b, d.high) /\ In(c, d.low) => c < b
    <3>1. CASE Less(e, r)
      BY <1>1, <3>1 DEF Divide, NonEmpty, In, Both, Interval, Lower, Higher, IsEmpty, Less
    <3>2. CASE ~Less(e, r)
      BY <1>1, <3>2 DEF Divide, NonEmpty, In, Both, Interval, Lower, Higher, IsEmpty, Less
    <3> QED
      BY <3>1, <3>2
  <2> QED
    BY <2>1, <2>2
<1>2. CASE ~IsEmpty(both)
  BY <1>2 DEF Divide, NonEmpty, In, Both, Interval, Lower, Higher, IsEmpty
<1> QED
  BY <1>1, <1>2

\* An outer part that has bits is part of one of the two intervals and not of
\* the other: the test rL.subset(*lit), which decides what row the lower part
\* goes on with, picks the row it was cut from.
THEOREM DivideOwner ==
    ASSUME NEW e \in NonEmpty, NEW r \in NonEmpty
    PROVE  LET d == Divide(e, r)
           IN  \A p \in {d.high, d.low} : ~IsEmpty(p) =>
                 /\ Part(p, e) \/ Part(p, r)
                 /\ ~(Part(p, e) /\ Part(p, r))
<1> DEFINE both == Both(e, r)
           d    == Divide(e, r)
<1>1. CASE IsEmpty(both)
  <2>1. {d.high, d.low} = {e, r}
    BY <1>1 DEF Divide
  <2> QED
    BY <1>1, <2>1 DEF NonEmpty, Part, Both, Interval, Lower, Higher, IsEmpty
<1>2. CASE ~IsEmpty(both)
  <2>1. d.high = Interval(Higher(e.hi, r.hi), both.hi + 1)
    BY <1>2 DEF Divide
  <2>2. d.low = Interval(both.lo - 1, Lower(e.lo, r.lo))
    BY <1>2 DEF Divide
  <2>3. ~IsEmpty(d.high) => (Part(d.high, e) \/ Part(d.high, r)) /\ ~(Part(d.high, e) /\ Part(d.high, r))
    BY <1>2, <2>1 DEF NonEmpty, Part, Both, Interval, Lower, Higher, IsEmpty
  <2>4. ~IsEmpty(d.low) => (Part(d.low, e) \/ Part(d.low, r)) /\ ~(Part(d.low, e) /\ Part(d.low, r))
    BY <1>2, <2>2 DEF NonEmpty, Part, Both, Interval, Lower, Higher, IsEmpty
  <2> QED
    BY <2>3, <2>4
<1> QED
  BY <1>1, <1>2

\* RangeElement::connected of two intervals without a shared bit: their bits
\* are those of one interval, which normalize makes of them.
THEOREM ConnectedJoins ==
    ASSUME NEW e \in NonEmpty, NEW r \in NonEmpty, NEW b \in Int,
           Connected(e, r), Less(r, e), IsEmpty(Both(e, r))
    PROVE  In(b, Interval(e.hi, r.lo)) <=> In(b, e) \/ In(b, r)
BY DEF NonEmpty, In, Both, Interval, Lower, Higher, IsEmpty, Less, Connected

\* A piece of a set of bits is a run of them that lies in no longer one.
LEMMA PieceLongest ==
    ASSUME NEW bits, bits # {}, NEW p \in Intervals(bits)
    PROVE  p \in Runs(bits) /\ p # {} /\ \A x \in Runs(bits) : p \subseteq x => p = x
BY DEF Intervals

\* Intervals, dfgRangeMap::toRange: two pieces of a set of bits share no bit
\* and are not connected, so that each piece is a node of its own.
THEOREM PiecesApart ==
    ASSUME NEW bits \in SUBSET Int, NEW p \in Intervals(bits), NEW q \in Intervals(bits), p # q
    PROVE  \E e, r \in NonEmpty : /\ p = {b \in Int : In(b, e)} /\ q = {b \in Int : In(b, r)}
                                  /\ ~Connected(e, r)
<1>1. bits # {}
  <2>1. bits = {} => Intervals(bits) = {{}}
    BY DEF Intervals
  <2> QED
    BY <2>1
<1>2. p \in Runs(bits) /\ p # {} /\ q \in Runs(bits) /\ q # {}
  BY <1>1, PieceLongest
<1>3. PICK pl \in bits, ph \in bits : p = pl .. ph
  BY <1>2 DEF Runs
<1>4. PICK ql \in bits, qh \in bits : q = ql .. qh
  BY <1>2 DEF Runs
<1>5. pl <= ph /\ ql <= qh
  BY <1>2, <1>3, <1>4
<1> DEFINE e == Interval(ph, pl)
           r == Interval(qh, ql)
<1>6. e \in NonEmpty /\ r \in NonEmpty
  BY <1>5 DEF NonEmpty, Interval, IsEmpty
<1>7. p = {b \in Int : In(b, e)} /\ q = {b \in Int : In(b, r)}
  BY <1>3, <1>4 DEF In, Interval
<1>8. ~Connected(e, r)
  <2>1. SUFFICES ASSUME ql <= ph + 1, pl <= qh + 1 PROVE FALSE
    BY DEF Connected, Interval
  <2> DEFINE lo  == IF pl < ql THEN pl ELSE ql
             hi  == IF ph < qh THEN qh ELSE ph
             run == lo .. hi
  <2>2. run \in {b .. c : b, c \in bits}
    OBVIOUS
  <2>3. run = p \cup q
    BY <1>3, <1>4, <1>5, <2>1
  <2> HIDE DEF run
  <2>4. run \in Runs(bits)
    <3>1. p \subseteq bits /\ q \subseteq bits
      BY <1>2 DEF Runs
    <3>2. run \in SUBSET bits
      BY <2>3, <3>1
    <3>3. run \in {b .. c : b, c \in bits} \cap SUBSET bits
      BY <2>2, <3>2
    <3> QED
      BY <3>3 DEF Runs
  <2>5. p = run
    BY <1>1, <2>3, <2>4, PieceLongest
  <2>6. q = run
    BY <1>1, <2>3, <2>4, PieceLongest
  <2> QED
    BY <2>5, <2>6
<1> QED
  BY <1>6, <1>7, <1>8
=============================================================================
