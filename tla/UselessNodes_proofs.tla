------------------------ MODULE UselessNodes_proofs ------------------------
(***************************************************************************)
(* Proofs about the worklist of remove_useless_nodes: for every graph, of  *)
(* any size, and every order in which the nodes are examined, the nodes    *)
(* that are left when the loop ends are exactly the largest set of nodes   *)
(* that supports itself in the graph on entry.                             *)
(***************************************************************************)
EXTENDS UselessNodes, TLAPS

-----------------------------------------------------------------------------
(* Facts about the operators of DfgGraph: which nodes a removal can make   *)
(* useless, and that the branches of remove_useless_nodes put back all of  *)
(* them.  "open" is what a graph with a father says of its ports.  The     *)
(* same facts open HierCleanup_proofs, about the same operators.           *)

\* The neighbour sets say which arcs there are, for a set of pairs.
LEMMA NeighbourArcs ==
  ASSUME NEW S, NEW A \in SUBSET (S \X S), NEW n, NEW m
  PROVE  /\ m \in OutNodes(A, n) <=> <<n, m>> \in A
         /\ m \in InNodes(A, n) <=> <<m, n>> \in A
<1>1. ASSUME m \in OutNodes(A, n) PROVE <<n, m>> \in A
  <2>1. PICK a \in A : a[1] = n /\ a[2] = m
    BY <1>1 DEF OutNodes
  <2>2. a = <<a[1], a[2]>>
    BY <2>1
  <2> QED BY <2>1, <2>2
<1>2. ASSUME m \in InNodes(A, n) PROVE <<m, n>> \in A
  <2>1. PICK a \in A : a[2] = n /\ a[1] = m
    BY <1>2 DEF InNodes
  <2>2. a = <<a[1], a[2]>>
    BY <2>1
  <2> QED BY <2>1, <2>2
<1>3. ASSUME <<n, m>> \in A PROVE m \in OutNodes(A, n)
  BY <1>3 DEF OutNodes
<1>4. ASSUME <<m, n>> \in A PROVE m \in InNodes(A, n)
  BY <1>4 DEF InNodes
<1> QED BY <1>1, <1>2, <1>3, <1>4

\* A node that is useless stays useless when arcs go away.
LEMMA UselessMonotone ==
  ASSUME NEW A, NEW B \in SUBSET A, NEW n, NEW kind,
         NEW open, Useless(kind, A, n, open)
  PROVE  Useless(kind, B, n, open)
<1>1. OutNodes(B, n) \subseteq OutNodes(A, n) /\ InNodes(B, n) \subseteq InNodes(A, n)
  BY DEF OutNodes, InNodes
<1> QED
  BY <1>1 DEF Useless, UselessPort, UselessInner, NoLoad, NoSource,
              OutOthers, InOthers

\* Whether a node is useless depends on its own arcs only.
LEMMA OwnArcs ==
  ASSUME NEW S, NEW A \in SUBSET (S \X S), NEW B \in SUBSET (S \X S), NEW m,
         \A x : <<m, x>> \in A <=> <<m, x>> \in B,
         \A x : <<x, m>> \in A <=> <<x, m>> \in B,
         NEW kind, NEW open
  PROVE  Useless(kind, A, m, open) <=> Useless(kind, B, m, open)
<1>1. OutNodes(B, m) = OutNodes(A, m)
  <2>1. \A x : x \in OutNodes(B, m) <=> x \in OutNodes(A, m)
    BY NeighbourArcs
  <2> QED BY <2>1
<1>2. InNodes(B, m) = InNodes(A, m)
  <2>1. \A x : x \in InNodes(B, m) <=> x \in InNodes(A, m)
    BY NeighbourArcs
  <2> QED BY <2>1
<1> QED
  BY <1>1, <1>2 DEF Useless, UselessPort, UselessInner, NoLoad, NoSource,
                    OutOthers, InOthers

\* Only a neighbour of the removed node can become useless by its removal.
LEMMA OnlyNeighboursSuffer ==
  ASSUME NEW S, NEW A \in SUBSET (S \X S), NEW n, NEW m, m # n,
         NEW kind, NEW open,
         ~Useless(kind, A, m, open),
         Useless(kind, WithoutNode(A, n), m, open)
  PROVE  <<m, n>> \in A \/ <<n, m>> \in A
<1> DEFINE B == WithoutNode(A, n)
<1>1. B \in SUBSET (S \X S) /\ \A x, y : x # n /\ y # n => (<<x, y>> \in A <=> <<x, y>> \in B)
  BY DEF WithoutNode
<1>2. SUFFICES ASSUME <<m, n>> \notin A, <<n, m>> \notin A
               PROVE  FALSE
  OBVIOUS
<1>3. /\ \A x : <<m, x>> \in A <=> <<m, x>> \in B
      /\ \A x : <<x, m>> \in A <=> <<x, m>> \in B
  BY <1>1, <1>2 DEF WithoutNode
<1> QED BY <1>1, <1>3, OwnArcs

\* In a legal graph, every neighbour of a node that is dropped goes back on
\* the list: the branches of the loop leave none out.
LEMMA DisturbedCovers ==
  ASSUME NEW S, NEW A \in SUBSET (S \X S), NEW n, NEW m, m # n,
         NEW kind \in PortKinds \cup {"reg", "comb"}, NEW open,
         kind = "iport" => \A x : <<x, n>> \notin A,
         kind = "oport" => \A x : <<n, x>> \notin A,
         Useless(kind, A, n, open),
         <<m, n>> \in A \/ <<n, m>> \in A
  PROVE  m \in Disturbed(kind, A, n)
<1>1. /\ m \in OutNodes(A, n) <=> <<n, m>> \in A
      /\ m \in InNodes(A, n) <=> <<m, n>> \in A
  BY NeighbourArcs
<1>2. CASE kind \in PortKinds
  BY <1>1, <1>2 DEF Disturbed, PortKinds
<1>3. CASE kind \in {"reg", "comb"}
  <2>1. NoLoad(A, n) \/ NoSource(kind, A, n)
    BY <1>3 DEF Useless, UselessInner, PortKinds
  <2>2. Disturbed(kind, A, n) =
          IF NoLoad(A, n) THEN InOthers(A, n) ELSE OutOthers(A, n)
    BY <1>3 DEF Disturbed
  <2>3. NoLoad(A, n) => <<n, m>> \notin A
    BY <1>1 DEF NoLoad, OutOthers
  <2>4. NoSource(kind, A, n) => <<m, n>> \notin A
    BY <1>1 DEF NoSource, InOthers
  <2>5. <<m, n>> \in A => m \in InOthers(A, n)
    BY <1>1 DEF InOthers
  <2>6. <<n, m>> \in A => m \in OutOthers(A, n)
    BY <1>1 DEF OutOthers
  <2> QED BY <2>1, <2>2, <2>3, <2>4, <2>5, <2>6
<1> QED BY <1>2, <1>3

\* What goes back on the list is another vertex of the graph.
LEMMA DisturbedInside ==
  ASSUME NEW S, NEW A \in SUBSET (S \X S), NEW n, NEW kind,
         kind \in PortKinds => <<n, n>> \notin A
  PROVE  Disturbed(kind, A, n) \subseteq S \ {n}
<1>1. OutNodes(A, n) \subseteq S /\ InNodes(A, n) \subseteq S
  BY DEF OutNodes, InNodes
<1>2. kind \in PortKinds => n \notin OutNodes(A, n) /\ n \notin InNodes(A, n)
  BY NeighbourArcs
<1> QED BY <1>1, <1>2 DEF Disturbed, PortKinds, OutOthers, InOthers

-----------------------------------------------------------------------------
(* Facts about the steps of the loop.                                      *)

\* The same of the kinds of this module: in a legal graph, every neighbour of
\* a node that is dropped goes back on the list.
LEMMA DroppedCovers ==
  ASSUME NEW A \in SUBSET LegalArcs, NEW n \in Node, NEW m, m # n,
         Useless(Kind[n], A, n, FALSE),
         <<m, n>> \in A \/ <<n, m>> \in A
  PROVE  m \in Disturbed(Kind[n], A, n)
<1>1. A \in SUBSET (Node \X Node) /\ Kind[n] \in PortKinds \cup {"reg", "comb"}
  BY KindAssumption DEF LegalArcs
<1>2. /\ Kind[n] = "iport" => \A x : <<x, n>> \notin A
      /\ Kind[n] = "oport" => \A x : <<n, x>> \notin A
  BY DEF LegalArcs
<1> QED BY <1>1, <1>2, DisturbedCovers

LEMMA DroppedOthers ==
  ASSUME NEW S \in SUBSET Node, NEW A \in SUBSET LegalArcs,
         A \subseteq S \X S, NEW n \in Node
  PROVE  Disturbed(Kind[n], A, n) \subseteq S \ {n}
<1>1. Kind[n] \in PortKinds => <<n, n>> \notin A
  BY DEF LegalArcs
<1> QED BY <1>1, DisturbedInside

\* A node that no arc of the graph touches is of no use.
LEMMA UnwiredUseless ==
  ASSUME NEW n \in Node, NEW A, \A a \in A : a[1] # n /\ a[2] # n
  PROVE  Useless(Kind[n], A, n, FALSE)
<1>1. OutNodes(A, n) = {} /\ InNodes(A, n) = {}
  BY DEF OutNodes, InNodes
<1> QED
  BY <1>1, KindAssumption DEF Useless, UselessPort, UselessInner, NoLoad,
     OutOthers, PortKinds

LEMMA PopPending ==
  ASSUME NEW n, NEW P, Pop(n, P)
  PROVE  Pending' = (Pending \ {n}) \cup P
BY DEF Pop, Pending

LEMMA DropWithin ==
  ASSUME arcs = Within(entry, nodes), NEW n, Drop(n)
  PROVE  arcs' = Within(entry', nodes')
BY DEF Drop, Within, WithoutNode

-----------------------------------------------------------------------------
\* The graph stays the part of the graph on entry that its vertices span.
THEOREM TypeCorrect == Spec => []TypeOK
<1>1. Init => TypeOK
  <2> SUFFICES ASSUME Init PROVE TypeOK
    OBVIOUS
  <2>1. nodes \subseteq Node
    BY KindAssumption DEF Init
  <2>2. entry \subseteq LegalArcs /\ entry = Within(entry, nodes)
    BY DEF Init, Within
  <2> QED BY <2>1, <2>2 DEF Init, TypeOK
<1>2. TypeOK /\ [Next]_vars => TypeOK'
  <2> SUFFICES ASSUME TypeOK, [Next]_vars PROVE TypeOK'
    OBVIOUS
  <2>1. ASSUME NEW n \in Node, Keep(n) PROVE TypeOK'
    BY <2>1 DEF TypeOK, Keep, Pop
  <2>2. ASSUME NEW n \in Node, Drop(n) PROVE TypeOK'
    <3>1. arcs' = Within(entry', nodes')
      BY <2>2, DropWithin DEF TypeOK
    <3>2. arcs \subseteq nodes \X nodes /\ arcs \in SUBSET LegalArcs
      BY DEF TypeOK, Within, LegalArcs
    <3>3. Disturbed(Kind[n], arcs, n) \subseteq Node
      BY <3>2, DroppedOthers DEF TypeOK
    <3> QED BY <2>2, <3>1, <3>3 DEF TypeOK, Drop, Pop
  <2>3. CASE UNCHANGED vars
    BY <2>3 DEF TypeOK, vars
  <2> QED BY <2>1, <2>2, <2>3 DEF Next
<1> QED BY <1>1, <1>2, PTL DEF Spec

\* The loop never examines a node it has removed.
THEOREM WorklistAliveHolds == Spec => []WorklistAlive
<1>1. Init => WorklistAlive
  BY DEF Init, WorklistAlive, Pending
<1>2. TypeOK /\ WorklistAlive /\ [Next]_vars => WorklistAlive'
  <2> SUFFICES ASSUME TypeOK, WorklistAlive, [Next]_vars
               PROVE  WorklistAlive'
    OBVIOUS
  <2>1. ASSUME NEW n \in Node, Keep(n) PROVE WorklistAlive'
    <3>1. Pending' = (Pending \ {n}) \cup {}
      BY <2>1, PopPending DEF Keep
    <3> QED BY <2>1, <3>1 DEF WorklistAlive, Keep
  <2>2. ASSUME NEW n \in Node, Drop(n) PROVE WorklistAlive'
    <3>1. Pending' = (Pending \ {n}) \cup Disturbed(Kind[n], arcs, n)
      BY <2>2, PopPending DEF Drop
    <3>2. arcs \subseteq nodes \X nodes /\ arcs \in SUBSET LegalArcs
      BY DEF TypeOK, Within, LegalArcs
    <3>3. Disturbed(Kind[n], arcs, n) \subseteq nodes \ {n}
      BY <3>2, DroppedOthers DEF TypeOK
    <3> QED BY <2>2, <3>1, <3>3 DEF WorklistAlive, Drop
  <2>3. CASE UNCHANGED vars
    BY <2>3 DEF WorklistAlive, Pending, vars
  <2> QED BY <2>1, <2>2, <2>3 DEF Next
<1> QED BY <1>1, <1>2, TypeCorrect, PTL DEF Spec

\* A useless node is always on the worklist, so the loop ends with none.
THEOREM NoneEscapesHolds == Spec => []NoneEscapes
<1>1. Init => NoneEscapes
  BY DEF Init, NoneEscapes, Pending
<1>2. TypeOK /\ NoneEscapes /\ [Next]_vars => NoneEscapes'
  <2> SUFFICES ASSUME TypeOK, NoneEscapes, [Next]_vars
               PROVE  NoneEscapes'
    OBVIOUS
  <2>1. ASSUME NEW n \in Node, Keep(n) PROVE NoneEscapes'
    <3>1. Pending' = (Pending \ {n}) \cup {}
      BY <2>1, PopPending DEF Keep
    <3> QED BY <2>1, <3>1 DEF NoneEscapes, UselessNode, Keep
  <2>2. ASSUME NEW n \in Node, Drop(n) PROVE NoneEscapes'
    <3>1. SUFFICES ASSUME NEW m \in nodes', UselessNode(m)'
                   PROVE  m \in Pending'
      BY DEF NoneEscapes
    <3>2. Pending' = (Pending \ {n}) \cup Disturbed(Kind[n], arcs, n)
      BY <2>2, PopPending DEF Drop
    <3>3. m \in nodes /\ m # n /\ arcs' = WithoutNode(arcs, n)
      BY <2>2 DEF Drop
    <3>4. CASE UselessNode(m)
      BY <3>2, <3>3, <3>4 DEF NoneEscapes
    <3>5. CASE ~UselessNode(m)
      <4>1. arcs \in SUBSET (Node \X Node) /\ arcs \in SUBSET LegalArcs
        BY DEF TypeOK, Within, LegalArcs
      <4>2. Useless(Kind[m], WithoutNode(arcs, n), m, FALSE)
        BY <3>1, <3>3 DEF UselessNode
      <4>3. <<m, n>> \in arcs \/ <<n, m>> \in arcs
        BY <3>3, <3>5, <4>1, <4>2, OnlyNeighboursSuffer DEF UselessNode
      <4>4. m \in Disturbed(Kind[n], arcs, n)
        BY <2>2, <3>3, <4>1, <4>3, DroppedCovers DEF Drop, UselessNode
      <4> QED BY <3>2, <4>4
    <3> QED BY <3>4, <3>5
  <2>3. CASE UNCHANGED vars
    BY <2>3 DEF NoneEscapes, UselessNode, Pending, vars
  <2> QED BY <2>1, <2>2, <2>3 DEF Next
<1> QED BY <1>1, <1>2, TypeCorrect, PTL DEF Spec

\* A set of nodes that supports itself is never touched, in any order.
THEOREM CoreKeptHolds == Spec => []CoreKept
<1>1. Init => CoreKept
  <2> SUFFICES ASSUME Init, NEW W \in SUBSET Node, SelfSupporting(W),
                      NEW n \in W, n \notin nodes
               PROVE  FALSE
    BY DEF CoreKept
  <2>1. \A a \in Within(entry, W) : a[1] # n /\ a[2] # n
    BY DEF Init, Within
  <2>2. Useless(Kind[n], Within(entry, W), n, FALSE)
    BY <2>1, UnwiredUseless
  <2> QED BY <2>2 DEF SelfSupporting
<1>2. TypeOK /\ CoreKept /\ [Next]_vars => CoreKept'
  <2> SUFFICES ASSUME TypeOK, CoreKept, [Next]_vars
               PROVE  CoreKept'
    OBVIOUS
  <2>1. ASSUME NEW n \in Node, Keep(n) PROVE CoreKept'
    BY <2>1 DEF CoreKept, SelfSupporting, Keep
  <2>2. ASSUME NEW n \in Node, Drop(n) PROVE CoreKept'
    <3>1. SUFFICES ASSUME NEW W \in SUBSET Node, SelfSupporting(W)'
                   PROVE  W \subseteq nodes'
      BY DEF CoreKept
    <3>2. SelfSupporting(W) /\ entry' = entry
      BY <2>2, <3>1 DEF Drop, SelfSupporting
    <3>3. W \subseteq nodes
      BY <3>2 DEF CoreKept
    <3>4. n \notin W
      <4>1. SUFFICES ASSUME n \in W PROVE FALSE
        OBVIOUS
      <4>2. Within(entry, W) \in SUBSET arcs
        BY <3>3 DEF TypeOK, Within
      <4>3. Useless(Kind[n], Within(entry, W), n, FALSE)
        BY <2>2, <4>2, UselessMonotone DEF Drop, UselessNode
      <4> QED BY <3>2, <4>1, <4>3 DEF SelfSupporting
    <3> QED BY <2>2, <3>3, <3>4 DEF Drop
  <2>3. CASE UNCHANGED vars
    BY <2>3 DEF CoreKept, SelfSupporting, vars
  <2> QED BY <2>1, <2>2, <2>3 DEF Next
<1> QED BY <1>1, <1>2, TypeCorrect, PTL DEF Spec

\* The nodes left at the end are the largest self-supporting set of the graph
\* on entry: the result does not depend on the addresses of the vertices.
THEOREM ConfluentHolds == Spec => []Confluent
<1>1. TypeOK /\ NoneEscapes /\ CoreKept => Confluent
  <2> SUFFICES ASSUME TypeOK, NoneEscapes, CoreKept, Done
               PROVE  nodes = Core
    BY DEF Confluent
  <2>1. SelfSupporting(nodes)
    BY DEF SelfSupporting, NoneEscapes, UselessNode, Done, TypeOK
  <2>2. nodes \in SUBSET Node
    BY DEF TypeOK
  <2>3. nodes \subseteq Core
    BY <2>1, <2>2 DEF Core
  <2>4. Core \subseteq nodes
    BY DEF Core, CoreKept
  <2> QED BY <2>3, <2>4
<1> QED BY <1>1, TypeCorrect, NoneEscapesHolds, CoreKeptHolds, PTL

\* Every step of the loop removes a useless node or leaves the graph alone.
THEOREM RefinesPrune == Spec => ImplementsSafely
<1>1. Init => Abstract!Init
  BY KindAssumption DEF Init, Within, LegalArcs, Abstract!Init
<1>2. TypeOK /\ WorklistAlive /\ [Next]_vars => [Abstract!Next]_<<nodes, arcs>>
  <2> SUFFICES ASSUME TypeOK, WorklistAlive, [Next]_vars
               PROVE  [Abstract!Next]_<<nodes, arcs>>
    OBVIOUS
  <2>1. ASSUME NEW n \in Node, Keep(n) PROVE UNCHANGED <<nodes, arcs>>
    BY <2>1 DEF Keep
  <2>2. ASSUME NEW n \in Node, Drop(n) PROVE Abstract!Next
    <3>1. n \in nodes
      BY <2>2 DEF Drop, Front, WorklistAlive, Pending
    <3>2. Abstract!Useless(Kind[n], arcs, n, FALSE)
      BY <2>2 DEF Drop, UselessNode, Useless, UselessPort, UselessInner,
         NoLoad, NoSource, OutOthers, InOthers, OutNodes, InNodes, PortKinds,
         Abstract!Useless, Abstract!UselessPort, Abstract!UselessInner,
         Abstract!NoLoad, Abstract!NoSource, Abstract!OutOthers,
         Abstract!InOthers, Abstract!OutNodes, Abstract!InNodes,
         Abstract!PortKinds
    <3>3. arcs' = Abstract!WithoutNode(arcs, n)
      BY <2>2 DEF Drop, WithoutNode, Abstract!WithoutNode
    <3> QED BY <2>2, <3>1, <3>2, <3>3 DEF Drop, Abstract!Next, Abstract!Remove
  <2>3. CASE UNCHANGED vars
    BY <2>3 DEF vars
  <2> QED BY <2>1, <2>2, <2>3 DEF Next
<1> QED BY <1>1, <1>2, TypeCorrect, WorklistAliveHolds, PTL DEF Spec, ImplementsSafely
=============================================================================
