--------------------------- MODULE MCHierCleanup ----------------------------
(***************************************************************************)
(* Instances of HierCleanup: a top graph with an input port, two signals   *)
(* and an output port around an instance, which has two inputs and an      *)
(* output, or an input, an inout and an output, or two inputs and two      *)
(* outputs, each input and output on a signal of its own or together.      *)
(***************************************************************************)
EXTENDS HierCleanup, FiniteSets

CONSTANTS i, sg, t, u, o,   \* top graph: i input, o output
          p1, p2, q, q2, b, \* ports: two inputs, two outputs, an inout
          k                 \* a combinational node of the child

MCTKind == [n \in TNode |->
    CASE n = i -> "iport" [] n = o -> "oport" [] OTHER -> "comb"]

MCCKind == [n \in CNode |->
    CASE n \in {p1, p2} -> "iport" [] n \in {q, q2} -> "oport"
      [] n = b -> "inout" [] OTHER -> "comb"]

MCTArcs == {<<i, sg>>, <<sg, t>>, <<t, o>>}

MCCArcs == {<<p1, k>>, <<p2, k>>, <<b, k>>, <<k, b>>, <<k, q>>, <<p2, q2>>, <<k, q2>>}

\* Inputs hang on sg or t, what the instance drives is t.
Wirings(ports) == {c \in [ports -> {sg, t, Open}] :
                     \A p \in ports \cap {q, b} : c[p] # sg}

TwoInputs  == Wirings({p1, p2, q})
BothKinds  == TwoInputs \cup Wirings({p1, b, q})

\* A second output drives u, which has no load.
Unloaded == {c \in [{p1, q, q2} -> {sg, t, u, Open}] :
                c[p1] = sg /\ c[q] \in {t, Open} /\ c[q2] = u}

\* Up to the order of the inputs, and with one of them connected.
AllKinds == {c \in BothKinds : /\ c[p1] # Open
                               /\ p2 \in DOMAIN c => c[p2] # sg \/ c[p1] = sg} \cup Unloaded
=============================================================================
