----------------------------- MODULE MCGenSdfg ------------------------------
(***************************************************************************)
(* Instances of GenSdfg around a vector x of three bits, written as a      *)
(* whole or in pieces by registers, combinational code, assignments, an    *)
(* instance or an input port, and read in any selection of bits.           *)
(***************************************************************************)
EXTENDS GenSdfg, RForest

CONSTANTS x, d, ck, rs, o, z

MCFull == [s \in {x, d, ck, rs, o, z} |-> IF s = x THEN {0, 1, 2} ELSE {}]

Leaf(s, bits, type) == [k \in {<<s, type>>} |-> bits]
Keep(bits)          == Leaf(x, bits, {"DDP"})
Data1               == Leaf(d, {}, {"DAT"})
Reset               == Leaf(rs, {}, {"CTL"})

Assign1(n, bits, leaves) == [kind |-> "assign", trees |-> {Tree(n, bits, leaves)}, pulse |-> {}]
Always(trees, pulse)     == [kind |-> "always", trees |-> trees, pulse |-> pulse]
Conn(p, dir, kind, sig, bits, leaves) ==
    [port |-> p, dir |-> dir, kind |-> kind, sig |-> sig, bits |-> bits, leaves |-> leaves]
Design(ports, stmts, conns) == [ports |-> ports, stmts |-> stmts, conns |-> conns]

\* The ways to divide x, and what writes each piece.
Divisions == {{{0, 1, 2}}, {{0}, {1, 2}}, {{0, 1}, {2}}, {{0}, {1}, {2}}}
Kinds     == {"ff", "comb", "assign", "inst"}
Layouts   == UNION {[P -> Kinds] : P \in Divisions}

\* A register also reads some bits of x, as a shift register does.
Shift(b) == Leaf(x, b, {"DAT"}) @@ Reset
Written(l, b, back) ==
    CASE l[b] = "ff"   -> <<Always({Tree(x, b, Shift(back))}, {ck, rs})>>
      [] l[b] = "comb" -> <<Always({Tree(x, b, Data1 @@ Keep(b))}, {})>>
      [] l[b] = "assign" -> <<Assign1(x, b, Data1)>>
      [] OTHER -> <<>>
WriteAll(l, back) == FlattenSeq([i \in 1 .. Cardinality(DOMAIN l) |->
                                   Written(l, SetToSeq(DOMAIN l)[i], back)])
Outs(l) == LET bs == SetToSeq({b \in DOMAIN l : l[b] = "inst"})
           IN  [i \in 1 .. Len(bs) |-> Conn(<<"out", i>>, "out", "var", x, bs[i], NoLeaves)]

\* A reader before or after the writers, and a connection that reads.
InPorts == [s \in {d, ck, rs} |-> "in"] @@ [s \in {o} |-> "out"]
Reader(b) == Assign1(o, {}, Leaf(x, b, {"DAT"}))
Orders(w, r) == {w \o <<r>>, <<r>> \o w}
ReadConns(b) == {<<>>, <<Conn(<<"in", 0>>, "in", "exp", Open, {}, Leaf(x, b, {"DAT"}))>>,
                 <<Conn(<<"in", 0>>, "in", "var", x, b, NoLeaves), Conn(<<"num", 0>>, "in", "num", Open, {}, NoLeaves),
                   Conn(<<"io", 0>>, "inout", "var", z, {}, NoLeaves)>>}
Selections == (SUBSET {0, 1, 2}) \ {{}}
Driving == UNION {{Design(ps, st, rc \o Outs(l)) :
                     ps \in {InPorts, [s \in {x} |-> "out"] @@ InPorts},
                     st \in Orders(WriteAll(l, {1, 2}), Reader(b)),
                     rc \in {q \in ReadConns(b) : b # {0, 2}}} :
                   l \in Layouts, b \in Selections}

\* x comes from a port; a register whose value is constant has no node.
Given == {Design([s \in {x} |-> "in"] @@ InPorts, <<Reader(b)>>, <<>>) : b \in Selections}
Const == {Design(InPorts, <<Always({Tree(x, {0}, NoLeaves)}, {ck})>>, <<>>)}

\* Constants, some of them in the middle of what is read before and after.
Consts == {Design(InPorts, <<Reader(a), Always({Tree(x, {1}, NoLeaves)}, p), Assign1(x, {0}, Data1), Reader(b)>>, <<>>) :
             a \in {{1}, {0}}, b \in Selections, p \in {{}, {ck}}}

\* An inout or output port, of the module or of the instance, on an x that is
\* assigned as it is connected, in all the bits or not.
Assigned(P) == WriteAll([b \in P |-> "assign"], {})
Parts   == {{{0}}, {{0}, {2}}, {{0, 1}}} \cup Divisions
Inouts  == {Design([s \in {x} |-> "inout"] @@ InPorts, Assigned(P), <<>>) : P \in Parts} \cup
           {Design(InPorts, Append(Assigned(P), Reader({0})), <<Conn(<<"io", 0>>, dir, "var", x, b, NoLeaves)>>) :
              P \in Parts, b \in {{0, 1, 2}, {1, 2}}, dir \in {"inout", "out"}}

\* A register that its own bits reset.
Own == {Design(InPorts, <<Always({Tree(x, {0}, Leaf(x, {0, 1}, {"CTL", "DAT"})), Tree(x, {1}, Data1)}, {ck, x}), Reader(b)>>, <<>>) :
          b \in Selections}

MCDesigns == Driving \cup Given \cup Const \cup Consts \cup Inouts \cup Own
=============================================================================
