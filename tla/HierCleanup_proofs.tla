------------------------- MODULE HierCleanup_proofs -------------------------
(***************************************************************************)
(* Proofs about the clean up across an instance: for every design, of any  *)
(* size, however its ports are connected, and every order of both          *)
(* worklists, the port maps stay inverse to each other and in step with    *)
(* the edges, no loop examines a node that is gone, and the assertions of  *)
(* check_integrity hold at the end.  Of a design in which no signal feeds  *)
(* two ports, the two loops leave nothing useless behind on either level,  *)
(* and lose nothing that supports itself across the instance.              *)
(***************************************************************************)
EXTENDS HierCleanup, TLAPS

-----------------------------------------------------------------------------
(* Facts about the operators of DfgGraph: which nodes a removal can make   *)
(* useless, and that the branches of remove_useless_nodes put back all of  *)
(* them.  "open" is what a graph with a father says of its ports.  The     *)
(* same facts open UselessNodes_proofs, about the same operators.          *)

\* The neighbour sets say which arcs there are, for a set of pairs.
LEMMA NeighbourArcs ==
  ASSUME NEW S, NEW A \in SUBSET (S \X S), NEW n, NEW m
  PROVE  /\ m \in OutNodes(A, n) <=> <<n, m>> \in A
         /\ m \in InNodes(A, n) <=> <<m, n>> \in A
<1>1. ASSUME m \in OutNodes(A, n) PROVE <<n, m>> \in A
  <2>1. PICK a \in A : a[1] = n /\ a[2] = m
    BY <1>1 DEF OutNodes
  <2>2. a = <<a[1], a[2]>>
    BY <2>1
  <2> QED BY <2>1, <2>2
<1>2. ASSUME m \in InNodes(A, n) PROVE <<m, n>> \in A
  <2>1. PICK a \in A : a[2] = n /\ a[1] = m
    BY <1>2 DEF InNodes
  <2>2. a = <<a[1], a[2]>>
    BY <2>1
  <2> QED BY <2>1, <2>2
<1>3. ASSUME <<n, m>> \in A PROVE m \in OutNodes(A, n)
  BY <1>3 DEF OutNodes
<1>4. ASSUME <<m, n>> \in A PROVE m \in InNodes(A, n)
  BY <1>4 DEF InNodes
<1> QED BY <1>1, <1>2, <1>3, <1>4

\* A node that is useless stays useless when arcs go away.
LEMMA UselessMonotone ==
  ASSUME NEW A, NEW B \in SUBSET A, NEW n, NEW kind,
         NEW open, Useless(kind, A, n, open)
  PROVE  Useless(kind, B, n, open)
<1>1. OutNodes(B, n) \subseteq OutNodes(A, n) /\ InNodes(B, n) \subseteq InNodes(A, n)
  BY DEF OutNodes, InNodes
<1> QED
  BY <1>1 DEF Useless, UselessPort, UselessInner, NoLoad, NoSource,
              OutOthers, InOthers

\* Whether a node is useless depends on its own arcs only.
LEMMA OwnArcs ==
  ASSUME NEW S, NEW A \in SUBSET (S \X S), NEW B \in SUBSET (S \X S), NEW m,
         \A x : <<m, x>> \in A <=> <<m, x>> \in B,
         \A x : <<x, m>> \in A <=> <<x, m>> \in B,
         NEW kind, NEW open
  PROVE  Useless(kind, A, m, open) <=> Useless(kind, B, m, open)
<1>1. OutNodes(B, m) = OutNodes(A, m)
  <2>1. \A x : x \in OutNodes(B, m) <=> x \in OutNodes(A, m)
    BY NeighbourArcs
  <2> QED BY <2>1
<1>2. InNodes(B, m) = InNodes(A, m)
  <2>1. \A x : x \in InNodes(B, m) <=> x \in InNodes(A, m)
    BY NeighbourArcs
  <2> QED BY <2>1
<1> QED
  BY <1>1, <1>2 DEF Useless, UselessPort, UselessInner, NoLoad, NoSource,
                    OutOthers, InOthers

\* Only a neighbour of the removed node can become useless by its removal.
LEMMA OnlyNeighboursSuffer ==
  ASSUME NEW S, NEW A \in SUBSET (S \X S), NEW n, NEW m, m # n,
         NEW kind, NEW open,
         ~Useless(kind, A, m, open),
         Useless(kind, WithoutNode(A, n), m, open)
  PROVE  <<m, n>> \in A \/ <<n, m>> \in A
<1> DEFINE B == WithoutNode(A, n)
<1>1. B \in SUBSET (S \X S) /\ \A x, y : x # n /\ y # n => (<<x, y>> \in A <=> <<x, y>> \in B)
  BY DEF WithoutNode
<1>2. SUFFICES ASSUME <<m, n>> \notin A, <<n, m>> \notin A
               PROVE  FALSE
  OBVIOUS
<1>3. /\ \A x : <<m, x>> \in A <=> <<m, x>> \in B
      /\ \A x : <<x, m>> \in A <=> <<x, m>> \in B
  BY <1>1, <1>2 DEF WithoutNode
<1> QED BY <1>1, <1>3, OwnArcs

\* In a legal graph, every neighbour of a node that is dropped goes back on
\* the list: the branches of the loop leave none out.
LEMMA DisturbedCovers ==
  ASSUME NEW S, NEW A \in SUBSET (S \X S), NEW n, NEW m, m # n,
         NEW kind \in PortKinds \cup {"reg", "comb"}, NEW open,
         kind = "iport" => \A x : <<x, n>> \notin A,
         kind = "oport" => \A x : <<n, x>> \notin A,
         Useless(kind, A, n, open),
         <<m, n>> \in A \/ <<n, m>> \in A
  PROVE  m \in Disturbed(kind, A, n)
<1>1. /\ m \in OutNodes(A, n) <=> <<n, m>> \in A
      /\ m \in InNodes(A, n) <=> <<m, n>> \in A
  BY NeighbourArcs
<1>2. CASE kind \in PortKinds
  BY <1>1, <1>2 DEF Disturbed, PortKinds
<1>3. CASE kind \in {"reg", "comb"}
  <2>1. NoLoad(A, n) \/ NoSource(kind, A, n)
    BY <1>3 DEF Useless, UselessInner, PortKinds
  <2>2. Disturbed(kind, A, n) =
          IF NoLoad(A, n) THEN InOthers(A, n) ELSE OutOthers(A, n)
    BY <1>3 DEF Disturbed
  <2>3. NoLoad(A, n) => <<n, m>> \notin A
    BY <1>1 DEF NoLoad, OutOthers
  <2>4. NoSource(kind, A, n) => <<m, n>> \notin A
    BY <1>1 DEF NoSource, InOthers
  <2>5. <<m, n>> \in A => m \in InOthers(A, n)
    BY <1>1 DEF InOthers
  <2>6. <<n, m>> \in A => m \in OutOthers(A, n)
    BY <1>1 DEF OutOthers
  <2> QED BY <2>1, <2>2, <2>3, <2>4, <2>5, <2>6
<1> QED BY <1>2, <1>3

\* What goes back on the list is another vertex of the graph.
LEMMA DisturbedInside ==
  ASSUME NEW S, NEW A \in SUBSET (S \X S), NEW n, NEW kind,
         kind \in PortKinds => <<n, n>> \notin A
  PROVE  Disturbed(kind, A, n) \subseteq S \ {n}
<1>1. OutNodes(A, n) \subseteq S /\ InNodes(A, n) \subseteq S
  BY DEF OutNodes, InNodes
<1>2. kind \in PortKinds => n \notin OutNodes(A, n) /\ n \notin InNodes(A, n)
  BY NeighbourArcs
<1> QED BY <1>1, <1>2 DEF Disturbed, PortKinds, OutOthers, InOthers

-----------------------------------------------------------------------------
(* The invariant of the edits.  A port in X is being removed: it is out of *)
(* the child and of sig2port, and still in port2sig.                       *)

IsDesign(d) ==
    d = [tnodes |-> d.tnodes, tarcs |-> d.tarcs, cnodes |-> d.cnodes,
         carcs |-> d.carcs, p2s |-> d.p2s, s2p |-> d.s2p]

Typed(d) ==
    /\ IsDesign(d)
    /\ d.tnodes \subseteq TNode \cup {Inst} /\ d.cnodes \subseteq CNode
    /\ d.tarcs \subseteq d.tnodes \X d.tnodes
    /\ d.carcs \subseteq d.cnodes \X d.cnodes
    /\ DOMAIN d.p2s \subseteq Port
    /\ \A p \in DOMAIN d.p2s : d.p2s[p] \in Sig \cup {Open}
    /\ \A s \in DOMAIN d.s2p : s \in Sig \cup {Open} /\ d.s2p[s] \subseteq Port

\* Only signals are connected to the instance; an input port has no source, an
\* output port no load, and no port of the child is connected to itself.
Legal(d) ==
    /\ \A s : <<s, Inst>> \in d.tarcs \/ <<Inst, s>> \in d.tarcs => s \in Sig
    /\ \A x, y : <<x, y>> \in d.tarcs =>
          (x \in TNode => TKind[x] # "oport") /\ (y \in TNode => TKind[y] # "iport")
    /\ \A x, y : <<x, y>> \in d.carcs =>
          CKind[x] # "oport" /\ CKind[y] # "iport" /\ (x \in Port => x # y)

Agree(d, X) ==
    /\ DOMAIN d.p2s \ X \subseteq d.cnodes
    /\ \A p \in Port \ X, s \in Sig :
          (p \in DOMAIN d.p2s /\ d.p2s[p] = s)
            <=> (s \in DOMAIN d.s2p /\ p \in d.s2p[s])
    /\ \A s \in DOMAIN d.s2p \cap Sig : d.s2p[s] \cap X = {}

\* Each mapped port has its arcs.
Backed(d, X) ==
    \A p \in DOMAIN d.p2s \ X :
        d.p2s[p] # Open => /\ Reads(p)  => <<d.p2s[p], Inst>> \in d.tarcs
                           /\ Drives(p) => <<Inst, d.p2s[p]>> \in d.tarcs

\* No signal but those of Y has an empty entry.
Filled(d, Y) == \A s \in (DOMAIN d.s2p \cap Sig) \ Y : d.s2p[s] # {}

Consistent(d, X, Y) ==
    Typed(d) /\ Legal(d) /\ Agree(d, X) /\ Backed(d, X) /\ Filled(d, Y)

\* What an edit of the boundary never does.
Shrinks(d, r) ==
    /\ r.tnodes = d.tnodes /\ r.cnodes = d.cnodes /\ r.carcs = d.carcs
    /\ r.tarcs \subseteq d.tarcs
    /\ DOMAIN r.p2s = DOMAIN d.p2s
    /\ DOMAIN r.s2p \subseteq DOMAIN d.s2p

\* The ports on s that read it, or that drive it, become open; no other does.
Hit(d, s, dir, p) ==
    p \in DOMAIN d.p2s /\ d.p2s[p] = s /\ IF dir = "in" THEN Reads(p) ELSE Drives(p)

Blanked(d, r, X, s, dir) ==
    /\ Shrinks(d, r)
    /\ \A p \in Port \ X : Hit(d, s, dir, p) => r.p2s[p] = Open
    /\ \A p \in DOMAIN d.p2s : ~Hit(d, s, dir, p) => r.p2s[p] = d.p2s[p]
    /\ DOMAIN d.s2p \ {s} \subseteq DOMAIN r.s2p

\* Nothing is lost but the arcs of s, and no port on another signal.
OnlyAt(d, r, s) ==
    /\ \A a \in d.tarcs : a \in r.tarcs \/ a = <<s, Inst>> \/ a = <<Inst, s>>
    /\ \A p \in DOMAIN r.p2s : d.p2s[p] # s \/ s = Open => r.p2s[p] = d.p2s[p]

InstArc(s, dir) == IF dir = "in" THEN <<s, Inst>> ELSE <<Inst, s>>

-----------------------------------------------------------------------------
LEMMA SigNotSpecial ==
  /\ Open \notin Sig /\ Inst \notin Sig /\ Sig \subseteq TNode
  BY HierAssumption DEF Sig

LEMMA KindFacts ==
  /\ \A n \in TNode : TKind[n] \in {"iport", "oport", "reg", "comb"}
  /\ \A s \in Sig : TKind[s] \in {"reg", "comb"}
  /\ \A n \in CNode : CKind[n] \in PortKinds \cup {"reg", "comb"}
  /\ \A n \in CNode : n \in Port <=> CKind[n] \in PortKinds
  BY HierAssumption DEF Sig

\* remove_port_sig keeps everything but the ports of that direction on the
\* signal, which become open.
LEMMA PortSigEdit ==
  ASSUME NEW d, NEW X, NEW s \in Sig, NEW dir \in {"in", "out"},
         Typed(d), Legal(d), Agree(d, X), Filled(d, {s})
  PROVE  LET r == RemovePortSig(d, s, dir)
         IN  /\ Typed(r) /\ Legal(r) /\ Agree(r, X) /\ Filled(r, {})
             /\ Blanked(d, r, X, s, dir) /\ r.tarcs = d.tarcs
<1> DEFINE r == RemovePortSig(d, s, dir)
           Way(p) == IF dir = "in" THEN Reads(p) ELSE Drives(p)
           hit == {p \in d.s2p[s] \cap d.cnodes : Way(p)}
           left == d.s2p[s] \ hit
<1>0. s # Open /\ Open \notin Sig
  BY SigNotSpecial
<1>1. CASE s \notin DOMAIN d.s2p
  <2>1. r = d
    BY <1>1 DEF RemovePortSig
  <2>2. \A p \in Port \ X : ~Hit(d, s, dir, p)
    BY <1>1 DEF Agree, Hit
  <2>3. Filled(d, {})
    BY <1>1 DEF Filled
  <2> QED BY <2>1, <2>2, <2>3 DEF Shrinks, Blanked
<1>2. CASE s \in DOMAIN d.s2p
  <2> DEFINE p2 == [p \in DOMAIN d.p2s \cup hit |-> IF p \in hit THEN Open ELSE d.p2s[p]]
             s2 == IF left = {} THEN Without(d.s2p, s) ELSE [d.s2p EXCEPT ![s] = left]
  <2>1. r = [d EXCEPT !.p2s = p2, !.s2p = s2]
    BY <1>2 DEF RemovePortSig
  <2>2. /\ IsDesign(r) /\ r.p2s = p2 /\ r.s2p = s2
        /\ r.tnodes = d.tnodes /\ r.cnodes = d.cnodes /\ r.carcs = d.carcs /\ r.tarcs = d.tarcs
    <3> HIDE DEF p2, s2, r
    <3>1. r = [tnodes |-> d.tnodes, tarcs |-> d.tarcs, cnodes |-> d.cnodes,
               carcs |-> d.carcs, p2s |-> p2, s2p |-> s2]
      BY <2>1 DEF Typed, IsDesign
    <3> QED BY <3>1 DEF IsDesign
  <2> HIDE DEF r
  <2>3. \A p : p \in hit <=> p \in Port \ X /\ p \in DOMAIN d.p2s /\ d.p2s[p] = s /\ Way(p)
    <3>1. \A p \in d.s2p[s] : p \in Port \ X
      BY <1>2 DEF Typed, Agree
    <3>2. ASSUME NEW p \in Port \ X
          PROVE  p \in d.s2p[s] \cap d.cnodes <=> p \in DOMAIN d.p2s /\ d.p2s[p] = s
      BY <1>2 DEF Agree
    <3> QED BY <3>1, <3>2
  <2>4. DOMAIN p2 = DOMAIN d.p2s
    BY <2>3
  <2>5. DOMAIN s2 \subseteq DOMAIN d.s2p /\ (\A u \in DOMAIN s2 : u # s => s2[u] = d.s2p[u])
        /\ (s \in DOMAIN s2 => s2[s] = left /\ left # {})
        /\ (\A u \in DOMAIN d.s2p : u # s \/ left # {} => u \in DOMAIN s2)
    BY <1>2 DEF Without
  <2>6. \A p \in DOMAIN d.p2s : p2[p] = IF p \in hit THEN Open ELSE d.p2s[p]
    OBVIOUS
  <2>l. left \subseteq d.s2p[s]
    OBVIOUS
  <2>7. Typed(r)
    <3>1. \A p \in DOMAIN p2 : p2[p] \in Sig \cup {Open}
      BY <2>4, <2>6 DEF Typed
    <3>2. \A u \in DOMAIN s2 : u \in Sig \cup {Open} /\ s2[u] \subseteq Port
      BY <2>5, <2>l, <1>2 DEF Typed
    <3> HIDE DEF p2, s2
    <3> QED BY <2>2, <2>4, <3>1, <3>2 DEF Typed
  <2>8. Legal(r)
    BY <2>2 DEF Legal
  <2>9. Agree(r, X)
    <3>1. DOMAIN r.p2s \ X \subseteq r.cnodes
      BY <2>2, <2>4 DEF Agree
    <3>2. ASSUME NEW p \in Port \ X, NEW u \in Sig
          PROVE  (p \in DOMAIN p2 /\ p2[p] = u) <=> (u \in DOMAIN s2 /\ p \in s2[u])
      <4>0. (p \in DOMAIN d.p2s /\ d.p2s[p] = u) <=> (u \in DOMAIN d.s2p /\ p \in d.s2p[u])
        BY DEF Agree
      <4>1. CASE u # s
        <5>1. u \in DOMAIN s2 /\ p \in s2[u] <=> u \in DOMAIN d.s2p /\ p \in d.s2p[u]
          BY <4>1, <2>5
        <5>2. p \in DOMAIN d.p2s => (p2[p] = u <=> d.p2s[p] = u)
          BY <4>1, <2>6, <2>3, <1>0
        <5> QED BY <5>1, <5>2, <4>0, <2>4
      <4>2. CASE u = s
        <5>1. s \in DOMAIN s2 /\ p \in s2[s] <=> p \in left
          <6> HIDE DEF left, s2
          <6>1. p \in left => s \in DOMAIN s2
            BY <2>5, <1>2
          <6> QED BY <2>5, <6>1
        <5>2. p \in DOMAIN d.p2s => (p2[p] = s <=> d.p2s[p] = s /\ p \notin hit)
          BY <2>6, <1>0
        <5> QED BY <5>1, <5>2, <4>0, <4>2, <2>4, <1>2
      <4> QED BY <4>1, <4>2
    <3>3. \A u \in DOMAIN s2 \cap Sig : s2[u] \cap X = {}
      BY <2>5, <2>l, <1>2 DEF Agree
    <3> HIDE DEF p2, s2
    <3> QED BY <3>1, <3>2, <3>3, <2>2 DEF Agree
  <2>10. Filled(r, {})
    <3> HIDE DEF s2, left
    <3> QED BY <2>2, <2>5 DEF Filled
  <2>11. Blanked(d, r, X, s, dir)
    <3>1. \A p \in Port \ X : Hit(d, s, dir, p) => p \in DOMAIN d.p2s /\ p \in hit
      BY <2>3 DEF Hit
    <3>2. \A p \in DOMAIN d.p2s : ~Hit(d, s, dir, p) => p \notin hit
      BY <2>3 DEF Hit
    <3>3. Shrinks(d, r)
      <4> HIDE DEF p2, s2
      <4> QED BY <2>2, <2>4, <2>5 DEF Shrinks
    <3> HIDE DEF p2, hit
    <3> HIDE DEF s2, left
    <3> QED BY <3>1, <3>2, <3>3, <2>2, <2>5, <2>6 DEF Blanked
  <2> QED BY <2>2, <2>7, <2>8, <2>9, <2>10, <2>11 DEF r
<1> QED BY <1>1, <1>2

\* remove_edge between a signal and the instance, either way.
LEMMA InstArcCut ==
  ASSUME NEW d, NEW X, NEW s \in Sig, NEW dir \in {"in", "out"},
         Typed(d), Legal(d), Agree(d, X), Backed(d, X), Filled(d, {s}),
         InstArc(s, dir) \in d.tarcs \/ Filled(d, {})
  PROVE  LET r == CutArc(d, InstArc(s, dir))
         IN  /\ Consistent(r, X, {}) /\ Blanked(d, r, X, s, dir)
             /\ r.tarcs = d.tarcs \ {InstArc(s, dir)}
<1> DEFINE a == InstArc(s, dir)
           e == RemovePortSig(d, s, dir)
           r == CutArc(d, a)
<1>0. s # Inst /\ s # Open /\ s \in TNode
  BY SigNotSpecial
<1>1. CASE a \notin d.tarcs
  <2>1. r = d
    BY <1>1 DEF CutArc
  <2>2. \A p \in Port \ X : ~Hit(d, s, dir, p)
    BY <1>0, <1>1 DEF Backed, Hit, InstArc
  <2>3. Consistent(d, X, {})
    BY <1>1 DEF Consistent
  <2>4. Blanked(d, d, X, s, dir)
    BY <2>2 DEF Blanked, Shrinks
  <2>5. d.tarcs = d.tarcs \ {a}
    BY <1>1
  <2> QED BY <2>1, <2>3, <2>4, <2>5
<1>2. CASE a \in d.tarcs
  <2> HIDE DEF e
  <2>1. /\ Typed(e) /\ Legal(e) /\ Agree(e, X) /\ Filled(e, {})
        /\ Blanked(d, e, X, s, dir) /\ e.tarcs = d.tarcs
    BY PortSigEdit DEF e
  <2>2. r = [e EXCEPT !.tarcs = @ \ {a}]
    BY <1>0, <1>2 DEF CutArc, InstArc, e
  <2> HIDE DEF r, a
  <2>3. /\ IsDesign(r) /\ r.tarcs = e.tarcs \ {a} /\ r.p2s = e.p2s /\ r.s2p = e.s2p
        /\ r.tnodes = e.tnodes /\ r.cnodes = e.cnodes /\ r.carcs = e.carcs
    <3>1. r = [tnodes |-> e.tnodes, tarcs |-> e.tarcs \ {a}, cnodes |-> e.cnodes,
               carcs |-> e.carcs, p2s |-> e.p2s, s2p |-> e.s2p]
      BY <2>1, <2>2 DEF Typed, IsDesign
    <3> QED BY <3>1 DEF IsDesign
  <2>4. Typed(r) /\ Legal(r) /\ Agree(r, X) /\ Filled(r, {})
    BY <2>1, <2>3 DEF Typed, Legal, Agree, Filled
  <2>5. Blanked(d, r, X, s, dir)
    BY <2>1, <2>3 DEF Blanked, Shrinks
  <2>6. Backed(r, X)
    <3> SUFFICES ASSUME NEW p \in DOMAIN r.p2s \ X, r.p2s[p] # Open
                 PROVE  /\ Reads(p)  => <<r.p2s[p], Inst>> \in r.tarcs
                        /\ Drives(p) => <<Inst, r.p2s[p]>> \in r.tarcs
      BY DEF Backed
    <3>1. p \in DOMAIN d.p2s /\ p \in Port
      BY <2>4, <2>5 DEF Blanked, Shrinks, Typed
    <3>2. ~Hit(d, s, dir, p) /\ r.p2s[p] = d.p2s[p]
      BY <3>1, <2>5 DEF Blanked
    <3>3. d.p2s[p] \in Sig
      BY <3>1, <3>2 DEF Typed
    <3>4. d.p2s[p] # Inst
      BY <3>3, SigNotSpecial
    <3>5. /\ Reads(p)  => <<d.p2s[p], Inst>> \in d.tarcs
          /\ Drives(p) => <<Inst, d.p2s[p]>> \in d.tarcs
      BY <3>1, <3>2 DEF Backed
    <3> QED BY <3>1, <3>2, <3>4, <3>5, <2>1, <2>3, <1>0 DEF a, Hit, InstArc
  <2> QED BY <2>1, <2>3, <2>4, <2>5, <2>6 DEF Consistent, r, a
<1> QED BY <1>1, <1>2

-----------------------------------------------------------------------------
\* An edit of two fields leaves the others alone.
LEMMA EditChild ==
  ASSUME NEW d, IsDesign(d), NEW N, NEW A
  PROVE  [d EXCEPT !.cnodes = N, !.carcs = A] =
           [tnodes |-> d.tnodes, tarcs |-> d.tarcs, cnodes |-> N, carcs |-> A,
            p2s |-> d.p2s, s2p |-> d.s2p]
<1> DEFINE r == [d EXCEPT !.cnodes = N, !.carcs = A]
<1>1. r = [d EXCEPT !.cnodes = N, !.carcs = A]
  OBVIOUS
<1> HIDE DEF r
<1>2. r = [tnodes |-> d.tnodes, tarcs |-> d.tarcs, cnodes |-> N, carcs |-> A,
          p2s |-> d.p2s, s2p |-> d.s2p]
  BY <1>1 DEF IsDesign
<1> QED BY <1>1, <1>2

LEMMA EditTop ==
  ASSUME NEW d, IsDesign(d), NEW N, NEW A
  PROVE  [d EXCEPT !.tnodes = N, !.tarcs = A] =
           [tnodes |-> N, tarcs |-> A, cnodes |-> d.cnodes, carcs |-> d.carcs,
            p2s |-> d.p2s, s2p |-> d.s2p]
<1> DEFINE r == [d EXCEPT !.tnodes = N, !.tarcs = A]
<1>1. r = [d EXCEPT !.tnodes = N, !.tarcs = A]
  OBVIOUS
<1> HIDE DEF r
<1>2. r = [tnodes |-> N, tarcs |-> A, cnodes |-> d.cnodes, carcs |-> d.carcs,
          p2s |-> d.p2s, s2p |-> d.s2p]
  BY <1>1 DEF IsDesign
<1> QED BY <1>1, <1>2

-----------------------------------------------------------------------------
(* A port leaves the child: what RemoveChildNode does.                     *)

\* The port map forgets n, which sig2port has forgotten before.
LEMMA PortForgotten ==
  ASSUME NEW d, NEW n, Consistent(d, {n}, {})
  PROVE  LET r == [d EXCEPT !.p2s = Without(@, n)]
         IN  /\ Consistent(r, {}, {}) /\ r.tnodes = d.tnodes /\ r.tarcs = d.tarcs
             /\ r.cnodes = d.cnodes /\ r.carcs = d.carcs /\ r.s2p = d.s2p
             /\ DOMAIN r.p2s = DOMAIN d.p2s \ {n}
<1> DEFINE w == Without(d.p2s, n)
           r == [d EXCEPT !.p2s = w]
<1>1. DOMAIN w = DOMAIN d.p2s \ {n} /\ \A p \in DOMAIN w : w[p] = d.p2s[p]
  BY DEF Without
<1> HIDE DEF w
<1>2. /\ IsDesign(r) /\ r.p2s = w /\ r.s2p = d.s2p /\ r.tnodes = d.tnodes
      /\ r.cnodes = d.cnodes /\ r.carcs = d.carcs /\ r.tarcs = d.tarcs
  <2>1. r = [tnodes |-> d.tnodes, tarcs |-> d.tarcs, cnodes |-> d.cnodes,
             carcs |-> d.carcs, p2s |-> w, s2p |-> d.s2p]
    BY DEF Consistent, Typed, IsDesign
  <2> QED BY <2>1 DEF IsDesign
<1> HIDE DEF r
<1>3. Typed(r) /\ Legal(r) /\ Filled(r, {})
  BY <1>1, <1>2 DEF Consistent, Typed, Legal, Filled
<1>4. Backed(r, {})
  BY <1>1, <1>2 DEF Consistent, Backed
<1>5. Agree(r, {})
  <2>1. DOMAIN r.p2s \subseteq r.cnodes
    BY <1>1, <1>2 DEF Consistent, Agree
  <2>2. ASSUME NEW p \in Port, NEW u \in Sig
        PROVE  (p \in DOMAIN w /\ w[p] = u) <=> (u \in DOMAIN d.s2p /\ p \in d.s2p[u])
    <3>1. CASE p = n
      BY <3>1, <1>1 DEF Consistent, Agree
    <3>2. CASE p # n
      BY <3>2, <1>1 DEF Consistent, Agree
    <3> QED BY <3>1, <3>2
  <2> QED BY <2>1, <2>2, <1>2 DEF Agree
<1> QED BY <1>1, <1>2, <1>3, <1>4, <1>5 DEF Consistent, r, w

\* remove_port on a child that has lost the node n.
LEMMA PortRemoved ==
  ASSUME NEW d, NEW n \in DOMAIN d.p2s,
         Typed(d), Legal(d), Backed(d, {}), Filled(d, {}), n \notin d.cnodes,
         DOMAIN d.p2s \ {n} \subseteq d.cnodes,
         \A p \in Port, s \in Sig :
            (p \in DOMAIN d.p2s /\ d.p2s[p] = s)
              <=> (s \in DOMAIN d.s2p /\ p \in d.s2p[s])
  PROVE  LET r == RemovePort(d, n)
         IN  /\ Consistent(r, {}, {}) /\ r.tnodes = d.tnodes /\ r.tarcs \subseteq d.tarcs
             /\ r.cnodes = d.cnodes /\ r.carcs = d.carcs
             /\ DOMAIN r.p2s = DOMAIN d.p2s \ {n} /\ OnlyAt(d, r, d.p2s[n])
<1> DEFINE s == d.p2s[n]
           e == [d EXCEPT !.s2p[s] = @ \ {n}]
           f == IF Reads(n)  THEN CutArc(e, <<s, Inst>>) ELSE e
           g == IF Drives(n) THEN CutArc(f, <<Inst, s>>) ELSE f
           h == IF s = Open THEN d ELSE g
<1>0. RemovePort(d, n) = [h EXCEPT !.p2s = Without(@, n)]
  BY DEF RemovePort
<1>1. n \in Port /\ (s = Open \/ s \in Sig)
  BY DEF Typed
<1>2. /\ Consistent(h, {n}, {}) /\ h.tnodes = d.tnodes /\ h.cnodes = d.cnodes
      /\ h.carcs = d.carcs /\ h.tarcs \subseteq d.tarcs /\ DOMAIN h.p2s = DOMAIN d.p2s
      /\ OnlyAt(d, h, s)
  <2>1. CASE s = Open
    <3>1. h = d
      BY <2>1
    <3>2. \A u \in DOMAIN d.s2p \cap Sig : n \notin d.s2p[u]
      BY <1>1, <2>1, SigNotSpecial
    <3>3. Agree(d, {n}) /\ Backed(d, {n})
      BY <3>2 DEF Agree, Backed
    <3> QED BY <3>1, <3>3 DEF Consistent, OnlyAt
  <2>2. CASE s \in Sig
    <3>1. h = g
      BY <2>2, SigNotSpecial
    <3>2. s \in DOMAIN d.s2p /\ n \in d.s2p[s]
      BY <1>1, <2>2
    <3> DEFINE s2 == [d.s2p EXCEPT ![s] = @ \ {n}]
    <3>3. DOMAIN s2 = DOMAIN d.s2p /\ s2[s] = d.s2p[s] \ {n}
          /\ \A u \in DOMAIN d.s2p : u # s => s2[u] = d.s2p[u]
      BY <3>2
    <3>4. /\ IsDesign(e) /\ e.p2s = d.p2s /\ e.s2p = s2 /\ e.tnodes = d.tnodes
          /\ e.cnodes = d.cnodes /\ e.carcs = d.carcs /\ e.tarcs = d.tarcs
      <4> HIDE DEF s
      <4>1. e = [d EXCEPT !.s2p = s2]
        BY DEF Typed, IsDesign
      <4> HIDE DEF s2, e
      <4>2. e = [tnodes |-> d.tnodes, tarcs |-> d.tarcs, cnodes |-> d.cnodes,
                 carcs |-> d.carcs, p2s |-> d.p2s, s2p |-> s2]
        BY <4>1 DEF Typed, IsDesign
      <4> QED BY <4>2 DEF IsDesign
    <3> HIDE DEF s2, e
    <3>5. Typed(e) /\ Legal(e) /\ Backed(e, {n}) /\ Filled(e, {s})
      <4>1. Typed(e)
        BY <3>2, <3>3, <3>4 DEF Typed
      <4>2. Legal(e) /\ Backed(e, {n})
        BY <3>4 DEF Legal, Backed
      <4>3. Filled(e, {s})
        BY <3>3, <3>4 DEF Filled
      <4> QED BY <4>1, <4>2, <4>3
    <3>6. Agree(e, {n})
      <4>1. ASSUME NEW p \in Port \ {n}, NEW u \in Sig
            PROVE  (p \in DOMAIN e.p2s /\ e.p2s[p] = u) <=> (u \in DOMAIN e.s2p /\ p \in e.s2p[u])
        BY <3>3, <3>4
      <4>2. \A u \in DOMAIN e.s2p \cap Sig : n \notin e.s2p[u]
        <5> SUFFICES ASSUME NEW u \in DOMAIN e.s2p \cap Sig, n \in e.s2p[u], u # s
                     PROVE  FALSE
          BY <3>3, <3>4
        <5> QED BY <3>3, <3>4, <1>1
      <4> QED BY <4>1, <4>2, <3>4 DEF Agree
    <3>7. /\ Reads(n)  => InstArc(s, "in") \in e.tarcs
          /\ Drives(n) => InstArc(s, "out") \in e.tarcs
      BY <2>2, <3>4, SigNotSpecial DEF Backed, InstArc
    <3>8. InstArc(s, "in") = <<s, Inst>> /\ InstArc(s, "out") = <<Inst, s>>
      BY DEF InstArc
    <3> HIDE DEF s
    <3>9. Reads(n) => /\ Consistent(f, {n}, {}) /\ Shrinks(e, f) /\ OnlyAt(e, f, s)
                      /\ f.tarcs = e.tarcs \ {<<s, Inst>>}
      <4> SUFFICES ASSUME Reads(n)
                   PROVE  /\ Consistent(f, {n}, {}) /\ Shrinks(e, f) /\ OnlyAt(e, f, s)
                          /\ f.tarcs = e.tarcs \ {<<s, Inst>>}
        OBVIOUS
      <4>1. f = CutArc(e, InstArc(s, "in"))
        BY <3>8
      <4>2. InstArc(s, "in") \in e.tarcs
        BY <3>7
      <4> HIDE DEF f
      <4>3. Consistent(f, {n}, {}) /\ Blanked(e, f, {n}, s, "in")
            /\ f.tarcs = e.tarcs \ {InstArc(s, "in")}
        <5>1. s \in Sig /\ Typed(e) /\ Legal(e) /\ Agree(e, {n}) /\ Backed(e, {n}) /\ Filled(e, {s})
          BY <2>2, <3>5, <3>6
        <5>2. f.tarcs = e.tarcs \ {InstArc(s, "in")}
          BY <4>1, <4>2, <5>1, InstArcCut
        <5>3. Consistent(f, {n}, {}) /\ Blanked(e, f, {n}, s, "in")
          BY <4>1, <4>2, <5>1, InstArcCut
        <5> QED BY <5>2, <5>3
      <4>4. OnlyAt(e, f, s)
        BY <4>3, <3>8, <2>2, SigNotSpecial DEF Blanked, Shrinks, Hit, OnlyAt
      <4> QED BY <4>3, <4>4, <3>8 DEF Blanked
    <3>10. ~Reads(n) => f = e /\ Drives(n)
      BY DEF Reads, Drives
    <3> HIDE DEF f
    <3>11. Drives(n) => Consistent(g, {n}, {}) /\ Shrinks(f, g) /\ OnlyAt(f, g, s)
      <4> SUFFICES ASSUME Drives(n)
                   PROVE  Consistent(g, {n}, {}) /\ Shrinks(f, g) /\ OnlyAt(f, g, s)
        OBVIOUS
      <4>1. g = CutArc(f, InstArc(s, "out"))
        BY <3>8
      <4>2. Typed(f) /\ Legal(f) /\ Agree(f, {n}) /\ Backed(f, {n}) /\ Filled(f, {s})
        <5>1. CASE Reads(n)
          BY <5>1, <3>9 DEF Consistent, Filled
        <5>2. CASE ~Reads(n)
          BY <5>2, <3>10, <3>5, <3>6
        <5> QED BY <5>1, <5>2
      <4>3. InstArc(s, "out") \in f.tarcs
        <5>1. CASE Reads(n)
          BY <5>1, <3>9, <3>7, <3>8, <2>2, SigNotSpecial
        <5>2. CASE ~Reads(n)
          BY <5>2, <3>10, <3>7
        <5> QED BY <5>1, <5>2
      <4> HIDE DEF g
      <4>4. Consistent(g, {n}, {}) /\ Blanked(f, g, {n}, s, "out")
        BY <4>1, <4>2, <4>3, <2>2, InstArcCut
      <4>5. g.tarcs = f.tarcs \ {InstArc(s, "out")}
        BY <4>1, <4>2, <4>3, <2>2, InstArcCut
      <4>6. OnlyAt(f, g, s)
        BY <4>4, <4>5, <3>8, <2>2, SigNotSpecial DEF Blanked, Shrinks, Hit, OnlyAt
      <4> QED BY <4>4, <4>6 DEF Blanked
    <3>12. ~Drives(n) => g = f /\ Reads(n)
      BY DEF Reads, Drives
    <3> HIDE DEF g
    <3>13. Consistent(g, {n}, {}) /\ Shrinks(e, g) /\ OnlyAt(e, g, s)
      <4>1. CASE Reads(n) /\ Drives(n)
        <5>1. OnlyAt(e, g, s)
          BY <4>1, <3>9, <3>11 DEF OnlyAt, Shrinks
        <5> QED BY <5>1, <4>1, <3>9, <3>11 DEF Shrinks
      <4>2. CASE ~Drives(n)
        BY <4>2, <3>12, <3>9
      <4>3. CASE ~Reads(n)
        BY <4>3, <3>10, <3>11
      <4> QED BY <4>1, <4>2, <4>3
    <3> HIDE DEF h
    <3> QED BY <3>1, <3>4, <3>13 DEF Shrinks, OnlyAt
  <2> QED BY <1>1, <2>1, <2>2
<1> HIDE DEF h, s
<1>3. LET r == [h EXCEPT !.p2s = Without(@, n)]
      IN  /\ Consistent(r, {}, {}) /\ r.tnodes = d.tnodes /\ r.tarcs \subseteq d.tarcs
          /\ r.cnodes = d.cnodes /\ r.carcs = d.carcs
          /\ DOMAIN r.p2s = DOMAIN d.p2s \ {n} /\ OnlyAt(d, r, s)
  <2> DEFINE r == [h EXCEPT !.p2s = Without(@, n)]
  <2>1. /\ Consistent(r, {}, {}) /\ r.tnodes = h.tnodes /\ r.tarcs = h.tarcs
        /\ r.cnodes = h.cnodes /\ r.carcs = h.carcs /\ r.s2p = h.s2p
        /\ DOMAIN r.p2s = DOMAIN h.p2s \ {n}
        /\ \A p \in DOMAIN r.p2s : r.p2s[p] = h.p2s[p]
    <3>1. Consistent(h, {n}, {})
      BY <1>2
    <3> DEFINE w == Without(h.p2s, n)
    <3>2. DOMAIN w = DOMAIN h.p2s \ {n} /\ \A p \in DOMAIN w : w[p] = h.p2s[p]
      BY DEF Without
    <3>3. r = [h EXCEPT !.p2s = w]
      OBVIOUS
    <3> HIDE DEF r, w
    <3>4. Consistent(r, {}, {})
      BY <3>1, <3>3, PortForgotten DEF w
    <3>5. r = [tnodes |-> h.tnodes, tarcs |-> h.tarcs, cnodes |-> h.cnodes,
               carcs |-> h.carcs, p2s |-> w, s2p |-> h.s2p]
      BY <3>1, <3>3 DEF Consistent, Typed, IsDesign
    <3> QED BY <3>2, <3>4, <3>5
  <2> HIDE DEF r
  <2>2. OnlyAt(d, r, s)
    BY <1>2, <2>1 DEF OnlyAt
  <2> QED BY <1>2, <2>1, <2>2 DEF r
<1> QED BY <1>0, <1>3 DEF s

\* A node of the child goes, and with a port its entry in the port map.
LEMMA ChildNodeRemoved ==
  ASSUME NEW d, NEW n \in d.cnodes, Consistent(d, {}, {})
  PROVE  LET r == RemoveChildNode(d, n)
         IN  /\ Consistent(r, {}, {}) /\ r.tnodes = d.tnodes /\ r.tarcs \subseteq d.tarcs
             /\ r.cnodes = d.cnodes \ {n} /\ r.carcs = WithoutNode(d.carcs, n)
             /\ DOMAIN r.p2s = DOMAIN d.p2s \ {n}
             /\ n \in DOMAIN d.p2s => OnlyAt(d, r, d.p2s[n])
             /\ n \notin DOMAIN d.p2s => r.tarcs = d.tarcs /\ r.p2s = d.p2s /\ r.s2p = d.s2p
<1> DEFINE e == [d EXCEPT !.cnodes = @ \ {n}, !.carcs = WithoutNode(@, n)]
<1>0. RemoveChildNode(d, n) = IF n \in Port THEN RemovePort(e, n) ELSE e
  BY DEF RemoveChildNode
<1>1. /\ IsDesign(e) /\ e.tnodes = d.tnodes /\ e.tarcs = d.tarcs /\ e.p2s = d.p2s
      /\ e.s2p = d.s2p /\ e.cnodes = d.cnodes \ {n} /\ e.carcs = WithoutNode(d.carcs, n)
  <2>1. e = [tnodes |-> d.tnodes, tarcs |-> d.tarcs, cnodes |-> d.cnodes \ {n},
             carcs |-> WithoutNode(d.carcs, n), p2s |-> d.p2s, s2p |-> d.s2p]
    BY EditChild DEF Consistent, Typed
  <2> QED BY <2>1 DEF IsDesign
<1> HIDE DEF e
<1>2. WithoutNode(d.carcs, n) \subseteq d.carcs
      /\ WithoutNode(d.carcs, n) \subseteq (d.cnodes \ {n}) \X (d.cnodes \ {n})
  BY DEF WithoutNode, Consistent, Typed
<1>3. Typed(e) /\ Legal(e) /\ Backed(e, {}) /\ Filled(e, {})
  <2>1. Typed(e)
    BY <1>1, <1>2 DEF Consistent, Typed
  <2>2. Legal(e)
    BY <1>1, <1>2 DEF Consistent, Legal
  <2>3. Backed(e, {}) /\ Filled(e, {})
    BY <1>1 DEF Consistent, Backed, Filled
  <2> QED BY <2>1, <2>2, <2>3
<1>4. \A p \in Port, s \in Sig :
         (p \in DOMAIN e.p2s /\ e.p2s[p] = s)
           <=> (s \in DOMAIN e.s2p /\ p \in e.s2p[s])
  BY <1>1 DEF Consistent, Agree
<1>5. DOMAIN d.p2s \subseteq d.cnodes /\ DOMAIN d.p2s \subseteq Port
  BY DEF Consistent, Agree, Typed
<1>6. CASE n \in DOMAIN d.p2s
  <2>1. RemoveChildNode(d, n) = RemovePort(e, n)
    BY <1>0, <1>5, <1>6
  <2>2. n \in DOMAIN e.p2s /\ n \notin e.cnodes /\ DOMAIN e.p2s \ {n} \subseteq e.cnodes
    BY <1>1, <1>5, <1>6
  <2>3. LET r == RemovePort(e, n)
        IN  /\ Consistent(r, {}, {}) /\ r.tnodes = e.tnodes /\ r.tarcs \subseteq e.tarcs
            /\ r.cnodes = e.cnodes /\ r.carcs = e.carcs
            /\ DOMAIN r.p2s = DOMAIN e.p2s \ {n} /\ OnlyAt(e, r, e.p2s[n])
    BY <2>2, <1>3, <1>4, PortRemoved
  <2> DEFINE r == RemovePort(e, n)
  <2> HIDE DEF r
  <2>4. OnlyAt(e, r, e.p2s[n]) <=> OnlyAt(d, r, d.p2s[n])
    BY <1>1 DEF OnlyAt
  <2> QED BY <2>1, <2>3, <2>4, <1>1, <1>6 DEF r
<1>7. CASE n \notin DOMAIN d.p2s
  <2>1. RemoveChildNode(d, n) = e
    BY <1>0, <1>1, <1>7 DEF RemovePort
  <2>2. Agree(e, {})
    BY <1>1, <1>4, <1>5, <1>7 DEF Agree
  <2> QED BY <2>1, <2>2, <1>1, <1>3, <1>7 DEF Consistent
<1> QED BY <1>6, <1>7

\* A node of the top graph goes; the ports on it become open.
LEMMA TopNodeRemoved ==
  ASSUME NEW d, NEW n \in TNode, Consistent(d, {}, {})
  PROVE  LET r == RemoveTopNode(d, n)
         IN  /\ Consistent(r, {}, {}) /\ r.tnodes = d.tnodes \ {n}
             /\ r.tarcs = WithoutNode(d.tarcs, n)
             /\ r.cnodes = d.cnodes /\ r.carcs = d.carcs
             /\ DOMAIN r.p2s = DOMAIN d.p2s
             /\ DOMAIN d.s2p \ {n} \subseteq DOMAIN r.s2p
             /\ \A p \in DOMAIN d.p2s : r.p2s[p] = IF d.p2s[p] = n THEN Open ELSE d.p2s[p]
<1> DEFINE c == CutArc(d, <<n, Inst>>)
           e == CutArc(c, <<Inst, n>>)
           r == [e EXCEPT !.tnodes = @ \ {n}, !.tarcs = WithoutNode(@, n)]
<1>0. RemoveTopNode(d, n) = r
  BY DEF RemoveTopNode
<1>1. /\ Consistent(e, {}, {}) /\ Shrinks(d, e)
      /\ e.tarcs = d.tarcs \ {<<n, Inst>>, <<Inst, n>>}
      /\ DOMAIN d.s2p \ {n} \subseteq DOMAIN e.s2p
      /\ \A p \in DOMAIN e.p2s : e.p2s[p] # n
      /\ \A p \in DOMAIN d.p2s : e.p2s[p] = IF d.p2s[p] = n THEN Open ELSE d.p2s[p]
  <2>1. CASE n \in Sig
    <3>0. InstArc(n, "in") = <<n, Inst>> /\ InstArc(n, "out") = <<Inst, n>>
      BY DEF InstArc
    <3>1. Typed(d) /\ Legal(d) /\ Agree(d, {}) /\ Backed(d, {}) /\ Filled(d, {}) /\ Filled(d, {n})
      BY DEF Consistent, Filled
    <3>2. c = CutArc(d, InstArc(n, "in"))
      BY <3>0
    <3> HIDE DEF c
    <3>3. Consistent(c, {}, {}) /\ Blanked(d, c, {}, n, "in")
      BY <2>1, <3>1, <3>2, InstArcCut
    <3>4. c.tarcs = d.tarcs \ {InstArc(n, "in")}
      BY <2>1, <3>1, <3>2, InstArcCut
    <3>5. Typed(c) /\ Legal(c) /\ Agree(c, {}) /\ Backed(c, {}) /\ Filled(c, {}) /\ Filled(c, {n})
      BY <3>3 DEF Consistent, Filled
    <3>6. e = CutArc(c, InstArc(n, "out"))
      BY <3>0
    <3> HIDE DEF e
    <3>7. Consistent(e, {}, {}) /\ Blanked(c, e, {}, n, "out")
      BY <2>1, <3>5, <3>6, InstArcCut
    <3>8. e.tarcs = c.tarcs \ {InstArc(n, "out")}
      BY <2>1, <3>5, <3>6, InstArcCut
    <3>9. Shrinks(d, e) /\ DOMAIN d.s2p \ {n} \subseteq DOMAIN e.s2p
      BY <3>3, <3>7 DEF Blanked, Shrinks
    <3>10. ASSUME NEW p \in DOMAIN e.p2s, e.p2s[p] = n PROVE FALSE
      <4>1. p \in DOMAIN c.p2s /\ p \in DOMAIN d.p2s /\ p \in Port
        BY <3>1, <3>3, <3>7 DEF Blanked, Shrinks, Typed
      <4>2. ~Hit(c, n, "out", p) /\ c.p2s[p] = n
        BY <3>7, <3>10, <4>1, <2>1, SigNotSpecial DEF Blanked
      <4>3. ~Hit(d, n, "in", p) /\ d.p2s[p] = n
        BY <3>3, <4>1, <4>2, <2>1, SigNotSpecial DEF Blanked
      <4> QED BY <4>1, <4>2, <4>3 DEF Hit, Reads, Drives
    <3>11. ASSUME NEW p \in DOMAIN d.p2s
           PROVE  e.p2s[p] = IF d.p2s[p] = n THEN Open ELSE d.p2s[p]
      <4>1. p \in DOMAIN c.p2s /\ p \in DOMAIN e.p2s /\ p \in Port
        BY <3>1, <3>3, <3>7 DEF Blanked, Shrinks, Typed
      <4>2. CASE d.p2s[p] # n
        <5>1. c.p2s[p] = d.p2s[p]
          BY <4>1, <4>2, <3>3 DEF Blanked, Hit
        <5>2. e.p2s[p] = c.p2s[p]
          BY <4>1, <4>2, <5>1, <3>7 DEF Blanked, Hit
        <5> QED BY <4>2, <5>1, <5>2
      <4>3. CASE d.p2s[p] = n
        <5>1. c.p2s[p] = n \/ c.p2s[p] = Open
          BY <4>1, <4>3, <3>3 DEF Blanked
        <5>2. e.p2s[p] = c.p2s[p] \/ e.p2s[p] = Open
          BY <4>1, <3>7 DEF Blanked
        <5> QED BY <4>1, <4>3, <5>1, <5>2, <3>10
      <4> QED BY <4>2, <4>3
    <3> QED BY <3>0, <3>4, <3>7, <3>8, <3>9, <3>10, <3>11
  <2>2. CASE n \notin Sig
    <3>1. <<n, Inst>> \notin d.tarcs /\ <<Inst, n>> \notin d.tarcs
      BY <2>2 DEF Consistent, Legal
    <3>2. e = d
      BY <3>1 DEF CutArc
    <3>3. \A p \in DOMAIN d.p2s : d.p2s[p] # n
      BY <2>2, HierAssumption DEF Consistent, Typed
    <3> QED BY <3>1, <3>2, <3>3 DEF Shrinks
  <2> QED BY <2>1, <2>2
<1> HIDE DEF e
<1>2. /\ IsDesign(r) /\ r.tnodes = d.tnodes \ {n} /\ r.tarcs = WithoutNode(e.tarcs, n)
      /\ r.p2s = e.p2s /\ r.s2p = e.s2p /\ r.cnodes = d.cnodes /\ r.carcs = d.carcs
  <2>1. r = [tnodes |-> e.tnodes \ {n}, tarcs |-> WithoutNode(e.tarcs, n), cnodes |-> e.cnodes,
             carcs |-> e.carcs, p2s |-> e.p2s, s2p |-> e.s2p]
    BY <1>1, EditTop DEF Consistent, Typed
  <2> QED BY <2>1, <1>1 DEF IsDesign, Shrinks
<1>3. WithoutNode(e.tarcs, n) = WithoutNode(d.tarcs, n)
  BY <1>1 DEF WithoutNode
<1>4. \A x, y : <<x, y>> \in WithoutNode(e.tarcs, n) <=> <<x, y>> \in e.tarcs /\ x # n /\ y # n
  BY DEF WithoutNode
<1>5. WithoutNode(e.tarcs, n) \subseteq (e.tnodes \ {n}) \X (e.tnodes \ {n})
      /\ WithoutNode(e.tarcs, n) \subseteq e.tarcs
  BY <1>1 DEF WithoutNode, Consistent, Typed
<1>6. e.tnodes = d.tnodes /\ e.cnodes = d.cnodes /\ e.carcs = d.carcs
  BY <1>1 DEF Shrinks
<1> HIDE DEF r
<1>7. Typed(r)
  BY <1>1, <1>2, <1>5, <1>6 DEF Consistent, Typed
<1>8. Legal(r)
  <2>1. r.tarcs \subseteq e.tarcs /\ r.carcs = e.carcs
    BY <1>2, <1>5, <1>6
  <2> QED BY <2>1, <1>1 DEF Consistent, Legal
<1>9. Agree(r, {}) /\ Filled(r, {})
  BY <1>1, <1>2, <1>6 DEF Consistent, Agree, Filled
<1>10. Backed(r, {})
  <2> SUFFICES ASSUME NEW p \in DOMAIN e.p2s, e.p2s[p] # Open
               PROVE  /\ Reads(p)  => <<e.p2s[p], Inst>> \in r.tarcs
                      /\ Drives(p) => <<Inst, e.p2s[p]>> \in r.tarcs
    BY <1>2 DEF Backed
  <2>1. e.p2s[p] # n /\ Inst # n
    BY <1>1, HierAssumption
  <2>2. /\ Reads(p)  => <<e.p2s[p], Inst>> \in e.tarcs
        /\ Drives(p) => <<Inst, e.p2s[p]>> \in e.tarcs
    BY <1>1 DEF Consistent, Backed
  <2> QED BY <2>1, <2>2, <1>2, <1>4
<1>11. /\ DOMAIN r.p2s = DOMAIN d.p2s /\ DOMAIN d.s2p \ {n} \subseteq DOMAIN r.s2p
       /\ \A p \in DOMAIN d.p2s : r.p2s[p] = IF d.p2s[p] = n THEN Open ELSE d.p2s[p]
  BY <1>1, <1>2 DEF Shrinks
<1>12. Consistent(r, {}, {})
  BY <1>7, <1>8, <1>9, <1>10 DEF Consistent
<1> QED BY <1>0, <1>2, <1>3, <1>11, <1>12

-----------------------------------------------------------------------------
(* The edits of the instance branch, and the design on entry.              *)

\* remove_useless_ports: open ports leave the port map.
LEMMA OpenErased ==
  ASSUME NEW d, Consistent(d, {}, {})
  PROVE  LET open == {p \in DOMAIN d.p2s : d.p2s[p] = Open}
             r == [d EXCEPT !.p2s = [p \in DOMAIN @ \ open |-> @[p]]]
         IN  /\ Consistent(r, {}, {}) /\ r.tnodes = d.tnodes /\ r.tarcs = d.tarcs
             /\ r.cnodes = d.cnodes /\ r.carcs = d.carcs /\ r.s2p = d.s2p
             /\ DOMAIN r.p2s = DOMAIN d.p2s \ open
             /\ \A p \in DOMAIN r.p2s : r.p2s[p] = d.p2s[p]
<1> DEFINE open == {p \in DOMAIN d.p2s : d.p2s[p] = Open}
           w == [p \in DOMAIN d.p2s \ open |-> d.p2s[p]]
           r == [d EXCEPT !.p2s = w]
<1>1. DOMAIN w = DOMAIN d.p2s \ open /\ \A p \in DOMAIN w : w[p] = d.p2s[p]
  OBVIOUS
<1>2. \A p : p \in DOMAIN w <=> p \in DOMAIN d.p2s /\ d.p2s[p] # Open
  OBVIOUS
<1> HIDE DEF w
<1>3. /\ IsDesign(r) /\ r.p2s = w /\ r.s2p = d.s2p /\ r.tnodes = d.tnodes
      /\ r.cnodes = d.cnodes /\ r.carcs = d.carcs /\ r.tarcs = d.tarcs
  <2>1. r = [tnodes |-> d.tnodes, tarcs |-> d.tarcs, cnodes |-> d.cnodes,
             carcs |-> d.carcs, p2s |-> w, s2p |-> d.s2p]
    BY DEF Consistent, Typed, IsDesign
  <2> QED BY <2>1 DEF IsDesign
<1> HIDE DEF r
<1>4. Typed(r) /\ Legal(r) /\ Filled(r, {})
  BY <1>1, <1>3 DEF Consistent, Typed, Legal, Filled
<1>5. Backed(r, {})
  BY <1>1, <1>3 DEF Consistent, Backed
<1>6. Agree(r, {})
  <2>1. DOMAIN r.p2s \subseteq r.cnodes
    BY <1>1, <1>3 DEF Consistent, Agree
  <2>2. ASSUME NEW p \in Port, NEW u \in Sig
        PROVE  (p \in DOMAIN w /\ w[p] = u) <=> (u \in DOMAIN d.s2p /\ p \in d.s2p[u])
    <3>1. (p \in DOMAIN w /\ w[p] = u) <=> (p \in DOMAIN d.p2s /\ d.p2s[p] = u)
      BY <1>1, <1>2, SigNotSpecial
    <3> QED BY <3>1 DEF Consistent, Agree
  <2> QED BY <2>1, <2>2, <1>3 DEF Agree
<1>7. Consistent(r, {}, {})
  BY <1>4, <1>5, <1>6 DEF Consistent
<1>8. r = [d EXCEPT !.p2s = [p \in DOMAIN @ \ open |-> @[p]]]
  BY DEF r, w
<1> HIDE DEF open
<1> QED BY <1>1, <1>3, <1>7, <1>8 DEF open

\* Arcs of signals without a port can go.
LEMMA ArcsLost ==
  ASSUME NEW d, Consistent(d, {}, {}), NEW I, NEW O,
         \A s \in I \cup O : s \notin DOMAIN d.s2p
  PROVE  LET r == [d EXCEPT !.tarcs = @ \ ((I \X {Inst}) \cup ({Inst} \X O))]
         IN  /\ Consistent(r, {}, {}) /\ r.tnodes = d.tnodes
             /\ r.cnodes = d.cnodes /\ r.carcs = d.carcs
             /\ r.p2s = d.p2s /\ r.s2p = d.s2p
             /\ r.tarcs = d.tarcs \ ((I \X {Inst}) \cup ({Inst} \X O))
<1> DEFINE t == d.tarcs \ ((I \X {Inst}) \cup ({Inst} \X O))
           r == [d EXCEPT !.tarcs = t]
<1>0. t \subseteq d.tarcs
      /\ (\A s : <<s, Inst>> \in d.tarcs /\ s # Inst /\ s \notin I => <<s, Inst>> \in t)
      /\ (\A s : <<Inst, s>> \in d.tarcs /\ s # Inst /\ s \notin O => <<Inst, s>> \in t)
  OBVIOUS
<1> HIDE DEF t
<1>1. /\ IsDesign(r) /\ r.tarcs = t /\ r.p2s = d.p2s /\ r.s2p = d.s2p
      /\ r.tnodes = d.tnodes /\ r.cnodes = d.cnodes /\ r.carcs = d.carcs
  <2>1. r = [tnodes |-> d.tnodes, tarcs |-> t, cnodes |-> d.cnodes,
             carcs |-> d.carcs, p2s |-> d.p2s, s2p |-> d.s2p]
    BY DEF Consistent, Typed, IsDesign
  <2> QED BY <2>1 DEF IsDesign
<1> HIDE DEF r
<1>2. Typed(r) /\ Legal(r) /\ Agree(r, {}) /\ Filled(r, {})
  BY <1>0, <1>1 DEF Consistent, Typed, Legal, Agree, Filled
<1>3. Backed(r, {})
  <2> SUFFICES ASSUME NEW p \in DOMAIN d.p2s, d.p2s[p] # Open
               PROVE  /\ Reads(p)  => <<d.p2s[p], Inst>> \in t
                      /\ Drives(p) => <<Inst, d.p2s[p]>> \in t
    BY <1>1 DEF Backed
  <2>1. p \in Port /\ d.p2s[p] \in Sig
    BY DEF Consistent, Typed
  <2>2. d.p2s[p] \in DOMAIN d.s2p /\ d.p2s[p] # Inst
    BY <2>1, SigNotSpecial DEF Consistent, Agree
  <2>3. d.p2s[p] \notin I \cup O
    BY <2>2
  <2> QED BY <2>2, <2>3, <1>0 DEF Consistent, Backed
<1> QED BY <1>1, <1>2, <1>3 DEF Consistent, r, t

LEMMA InstRemoved ==
  ASSUME NEW d, Consistent(d, {}, {})
  PROVE  LET r == RemoveInst(d)
         IN  /\ Consistent(r, {}, {}) /\ r.tnodes = d.tnodes \ {Inst} /\ r.cnodes = {}
             /\ \A a \in r.tarcs : a[1] # Inst /\ a[2] # Inst
<1> DEFINE r == RemoveInst(d)
           t == WithoutNode(d.tarcs, Inst)
<1>1. /\ IsDesign(r) /\ r.tnodes = d.tnodes \ {Inst} /\ r.tarcs = t
      /\ r.cnodes = {} /\ r.carcs = {} /\ DOMAIN r.p2s = {} /\ DOMAIN r.s2p = {}
  BY DEF RemoveInst, IsDesign
<1>2. t \subseteq d.tarcs /\ t \subseteq (d.tnodes \ {Inst}) \X (d.tnodes \ {Inst})
      /\ \A a \in t : a[1] # Inst /\ a[2] # Inst
  BY DEF WithoutNode, Consistent, Typed
<1> HIDE DEF r, t
<1>3. Typed(r)
  BY <1>1, <1>2 DEF Consistent, Typed
<1>4. Legal(r)
  BY <1>1, <1>2 DEF Consistent, Legal
<1>5. Agree(r, {}) /\ Backed(r, {}) /\ Filled(r, {})
  BY <1>1 DEF Agree, Backed, Filled
<1> QED BY <1>1, <1>2, <1>3, <1>4, <1>5 DEF Consistent, r

LEMMA Connected ==
  ASSUME NEW c \in Conns, NEW ta \in SUBSET TArcs,
         NEW ca \in SUBSET Within(CArcs, DOMAIN c \cup Inner)
  PROVE  LET r == Connect(ta, ca, c)
         IN  /\ Consistent(r, {}, {}) /\ Inst \in r.tnodes
             /\ r.cnodes \cap Port \subseteq DOMAIN r.p2s
<1> DEFINE r == Connect(ta, ca, c)
           P == DOMAIN c
           I == {<<c[p], Inst>> : p \in {x \in {y \in P : c[y] # Open} : Reads(x)}}
           O == {<<Inst, c[p]>> : p \in {x \in {y \in P : c[y] # Open} : Drives(x)}}
<1>1. P \subseteq Port /\ \A p \in P : c[p] \in Sig \cup {Open}
  BY HierAssumption
<1>2. /\ IsDesign(r) /\ r.tnodes = TNode \cup {Inst} /\ r.tarcs = ta \cup I \cup O
      /\ r.cnodes = P \cup Inner /\ r.carcs = ca /\ r.p2s = c
      /\ r.s2p = [s \in {c[p] : p \in P} |-> {p \in P : c[p] = s}]
  BY DEF Connect, IsDesign
<1>3. (DOMAIN r.s2p = {c[p] : p \in P}) /\ \A s \in DOMAIN r.s2p : r.s2p[s] = {p \in P : c[p] = s}
  BY <1>2
<1>4. ca \subseteq CArcs /\ ca \subseteq (P \cup Inner) \X (P \cup Inner)
  BY HierAssumption DEF Within
<1>5. ta \subseteq TNode \X TNode /\ \A x, y : <<x, y>> \in ta => x \in TNode /\ y \in TNode
  BY HierAssumption
<1>6. I \subseteq Sig \X {Inst} /\ O \subseteq {Inst} \X Sig
  BY <1>1
<1>7. \A p \in P : c[p] # Open => /\ Reads(p)  => <<c[p], Inst>> \in I
                                  /\ Drives(p) => <<Inst, c[p]>> \in O
  OBVIOUS
<1> HIDE DEF r, I, O
<1>8. Typed(r)
  <2>1. r.tarcs \subseteq r.tnodes \X r.tnodes
    BY <1>2, <1>5, <1>6, SigNotSpecial
  <2>2. r.cnodes \subseteq CNode /\ r.carcs \subseteq r.cnodes \X r.cnodes
    BY <1>1, <1>2, <1>4 DEF CNode
  <2>3. \A s \in DOMAIN r.s2p : s \in Sig \cup {Open} /\ r.s2p[s] \subseteq Port
    BY <1>1, <1>3
  <2> QED BY <1>1, <1>2, <2>1, <2>2, <2>3 DEF Typed
<1>9. Legal(r)
  <2>1. ASSUME NEW s, <<s, Inst>> \in r.tarcs \/ <<Inst, s>> \in r.tarcs PROVE s \in Sig
    BY <2>1, <1>2, <1>5, <1>6, HierAssumption, SigNotSpecial
  <2>2. ASSUME NEW x, NEW y, <<x, y>> \in r.tarcs
        PROVE  (x \in TNode => TKind[x] # "oport") /\ (y \in TNode => TKind[y] # "iport")
    <3>1. CASE <<x, y>> \in ta
      BY <3>1, HierAssumption
    <3>2. CASE <<x, y>> \in I \cup O
      <4>1. (x = Inst /\ y \in Sig) \/ (y = Inst /\ x \in Sig)
        BY <3>2, <1>6
      <4>2. Inst \notin TNode
        BY HierAssumption
      <4> QED BY <4>1, <4>2, KindFacts
    <3> QED BY <2>2, <3>1, <3>2, <1>2
  <2>3. ASSUME NEW x, NEW y, <<x, y>> \in r.carcs
        PROVE  CKind[x] # "oport" /\ CKind[y] # "iport" /\ (x \in Port => x # y)
    BY <2>3, <1>2, <1>4, HierAssumption
  <2> QED BY <2>1, <2>2, <2>3 DEF Legal
<1>10. Agree(r, {})
  BY <1>1, <1>2, <1>3 DEF Agree
<1>11. Backed(r, {})
  BY <1>2, <1>7 DEF Backed
<1>12. Filled(r, {})
  BY <1>3 DEF Filled
<1>13. r.cnodes \cap Port \subseteq DOMAIN r.p2s
  BY <1>2, HierAssumption DEF CNode
<1> QED BY <1>2, <1>8, <1>9, <1>10, <1>11, <1>12, <1>13 DEF Consistent, r

-----------------------------------------------------------------------------
(* The invariant of the worklists.                                         *)

Phases == pc \in {"cut", "child", "top", "nested", "resume", "done"}

ControlInv == ctl \subseteq InstArcs(dfg) /\ (pc # "cut" => ctl = {})

TopList == ttodo \cup tagain \subseteq dfg.tnodes /\ (pc = "done" => ttodo \cup tagain = {})

ChildList == /\ ctodo \cup cagain \subseteq dfg.cnodes
             /\ pc \notin {"child", "nested"} => ctodo \cup cagain = {}

\* While the branch of the instance waits for the child, its locals cover the
\* arcs that are left.
Branch ==
    pc \in {"nested", "resume"} =>
      /\ Inst \in dfg.tnodes /\ Inst \notin ttodo \cup tagain
      /\ ins \cup outs \subseteq dfg.tnodes \ {Inst}
      /\ \A s : /\ <<s, Inst>> \in dfg.tarcs => s \in ins
                /\ <<Inst, s>> \in dfg.tarcs => s \in outs

\* A port without entry is still to be examined.
PortsListed ==
    \A p \in dfg.cnodes \cap Port :
        p \in DOMAIN dfg.p2s \/ (pc = "nested" /\ p \in ctodo \cup cagain)

\* Unless the instance is still to be examined, its arcs are of signals that
\* a port is mapped to.
Mapped ==
    pc \in {"top", "done"} /\ Inst \notin ttodo \cup tagain =>
      \A s : <<s, Inst>> \in dfg.tarcs \/ <<Inst, s>> \in dfg.tarcs => s \in DOMAIN dfg.s2p

IInv ==
    /\ Consistent(dfg, {}, {}) /\ Phases /\ ControlInv /\ TopList /\ ChildList
    /\ Branch /\ PortsListed /\ Mapped

-----------------------------------------------------------------------------
\* The instance's arcs are of signals, on one side of it.
LEMMA InstArcForm ==
  ASSUME NEW d, Consistent(d, {}, {}), NEW a \in InstArcs(d)
  PROVE  \E s \in Sig, dir \in {"in", "out"} : a = InstArc(s, dir)
<1>1. a \in d.tarcs /\ a = <<a[1], a[2]>> /\ (a[1] = Inst \/ a[2] = Inst)
  BY DEF InstArcs, Consistent, Typed
<1>2. CASE a[2] = Inst
  <2>1. a = InstArc(a[1], "in")
    BY <1>1, <1>2 DEF InstArc
  <2>2. a[1] \in Sig
    BY <1>1, <1>2 DEF Consistent, Legal
  <2> QED BY <2>1, <2>2
<1>3. CASE a[1] = Inst
  <2>1. a = InstArc(a[2], "out")
    BY <1>1, <1>3 DEF InstArc
  <2>2. a[2] \in Sig
    BY <1>1, <1>3 DEF Consistent, Legal
  <2> QED BY <2>1, <2>2
<1> QED BY <1>1, <1>2, <1>3

LEMMA InitInv == Init => IInv
<1> SUFFICES ASSUME Init PROVE IInv
  OBVIOUS
<1>1. PICK c \in Conns, ta \in SUBSET TArcs :
        \E ca \in SUBSET Within(CArcs, DOMAIN c \cup Inner) : dfg = Connect(ta, ca, c)
  BY DEF Init
<1>2. PICK ca \in SUBSET Within(CArcs, DOMAIN c \cup Inner) : dfg = Connect(ta, ca, c)
  BY <1>1
<1>3. Consistent(dfg, {}, {}) /\ Inst \in dfg.tnodes /\ dfg.cnodes \cap Port \subseteq DOMAIN dfg.p2s
  BY <1>2, Connected
<1> QED BY <1>3 DEF Init, IInv, Phases, ControlInv, TopList, ChildList, Branch, PortsListed, Mapped

LEMMA CutControlInv ==
  ASSUME IInv, NEW a \in ctl, CutControl(a)
  PROVE  IInv'
<1>0. /\ pc = "cut" /\ dfg' = CutArc(dfg, a) /\ ctl' = ctl \ {a} /\ pc' = pc
      /\ ttodo' = ttodo /\ tagain' = tagain /\ ctodo' = ctodo /\ cagain' = cagain
      /\ ins' = ins /\ outs' = outs
  BY DEF CutControl
<1>1. PICK s \in Sig, dir \in {"in", "out"} : a = InstArc(s, dir)
  BY InstArcForm DEF IInv, ControlInv
<1>2. /\ Typed(dfg) /\ Legal(dfg) /\ Agree(dfg, {}) /\ Backed(dfg, {}) /\ Filled(dfg, {})
      /\ Filled(dfg, {s})
  BY DEF IInv, Consistent, Filled
<1>3. Consistent(dfg', {}, {}) /\ Blanked(dfg, dfg', {}, s, dir)
  <2>1. Consistent(CutArc(dfg, InstArc(s, dir)), {}, {})
    BY <1>2, InstArcCut
  <2>2. Blanked(dfg, CutArc(dfg, InstArc(s, dir)), {}, s, dir)
    <3>1. CASE dir = "in"
      BY <3>1, <1>2, InstArcCut
    <3>2. CASE dir = "out"
      BY <3>2, <1>2, InstArcCut
    <3> QED BY <3>1, <3>2
  <2> QED BY <2>1, <2>2, <1>0, <1>1
<1>4. dfg'.tarcs = dfg.tarcs \ {a}
  BY <1>0, <1>1, <1>2, InstArcCut
<1>5. Shrinks(dfg, dfg')
  BY <1>3 DEF Blanked
<1> QED BY <1>0, <1>3, <1>4, <1>5
     DEF IInv, Phases, ControlInv, TopList, ChildList, Branch, PortsListed, Mapped, InstArcs, Shrinks

LEMMA ChildStepInv ==
  ASSUME IInv, NEW n \in CNode, ChildStep(n)
  PROVE  IInv'
<1> DEFINE back == Disturbed(CKind[n], dfg.carcs, n)
<1>0. /\ pc \in {"child", "nested"} /\ n \in ctodo \cup cagain /\ pc' = pc /\ ctl' = ctl
      /\ ttodo' = ttodo /\ tagain' = tagain /\ ins' = ins /\ outs' = outs
  BY DEF ChildStep, CFront
<1>1. n \in dfg.cnodes /\ ctl = {}
  BY <1>0 DEF IInv, ChildList, ControlInv
<1>2. CASE UselessChild(dfg, n)
  <2>1. dfg' = RemoveChildNode(dfg, n) /\ ctodo' = ctodo \ {n}
        /\ cagain' = (cagain \ {n}) \cup (back \ (ctodo \ {n}))
    BY <1>2 DEF ChildStep, CPop
  <2>2. back \subseteq dfg.cnodes \ {n}
    <3>1. dfg.carcs \in SUBSET (dfg.cnodes \X dfg.cnodes)
      BY DEF IInv, Consistent, Typed
    <3>2. CKind[n] \in PortKinds => <<n, n>> \notin dfg.carcs
      BY KindFacts DEF IInv, Consistent, Legal
    <3> QED BY <3>1, <3>2, DisturbedInside
  <2>3. /\ Consistent(dfg', {}, {}) /\ dfg'.tnodes = dfg.tnodes /\ dfg'.tarcs \subseteq dfg.tarcs
        /\ dfg'.cnodes = dfg.cnodes \ {n} /\ DOMAIN dfg'.p2s = DOMAIN dfg.p2s \ {n}
    BY <1>1, <2>1, ChildNodeRemoved DEF IInv
  <2> HIDE DEF back
  <2> QED BY <1>0, <1>1, <2>1, <2>2, <2>3
       DEF IInv, Phases, ControlInv, TopList, ChildList, Branch, PortsListed, Mapped
<1>3. CASE ~UselessChild(dfg, n)
  <2>1. dfg' = dfg /\ ctodo' = ctodo \ {n} /\ cagain' = cagain \ {n}
    BY <1>3 DEF ChildStep, CPop
  <2>2. n \in Port => n \in DOMAIN dfg.p2s
    BY <1>3, HierAssumption DEF UselessChild, PortOpen, Useless, UselessPort, CNode
  <2> QED BY <1>0, <1>1, <2>1, <2>2
       DEF IInv, Phases, ControlInv, TopList, ChildList, Branch, PortsListed, Mapped
<1> QED BY <1>2, <1>3

LEMMA TopStepInv ==
  ASSUME IInv, NEW n \in TNode, TopStep(n)
  PROVE  IInv'
<1> DEFINE back == Disturbed(TKind[n], dfg.tarcs, n)
<1>0. /\ pc = "top" /\ n \in ttodo \cup tagain /\ n # Inst /\ pc' = pc /\ ctl' = ctl
      /\ ctodo' = ctodo /\ cagain' = cagain /\ ins' = ins /\ outs' = outs
  BY DEF TopStep, TFront
<1>1. ctl = {}
  BY <1>0 DEF IInv, ControlInv
<1>2. CASE UselessTop(dfg, n)
  <2>1. dfg' = RemoveTopNode(dfg, n) /\ ttodo' = ttodo \ {n}
        /\ tagain' = (tagain \ {n}) \cup (back \ (ttodo \ {n}))
    BY <1>2 DEF TopStep, TPop
  <2>2. back \subseteq dfg.tnodes \ {n}
    <3>1. dfg.tarcs \in SUBSET (dfg.tnodes \X dfg.tnodes)
      BY DEF IInv, Consistent, Typed
    <3>2. TKind[n] \in PortKinds => <<n, n>> \notin dfg.tarcs
      BY KindFacts DEF IInv, Consistent, Legal, PortKinds
    <3> QED BY <3>1, <3>2, DisturbedInside
  <2>3. /\ Consistent(dfg', {}, {}) /\ dfg'.tnodes = dfg.tnodes \ {n}
        /\ dfg'.tarcs = WithoutNode(dfg.tarcs, n) /\ dfg'.cnodes = dfg.cnodes
        /\ DOMAIN dfg'.p2s = DOMAIN dfg.p2s /\ DOMAIN dfg.s2p \ {n} \subseteq DOMAIN dfg'.s2p
    BY <2>1, TopNodeRemoved DEF IInv
  <2>4. \A s : /\ <<s, Inst>> \in dfg'.tarcs => <<s, Inst>> \in dfg.tarcs /\ s # n
               /\ <<Inst, s>> \in dfg'.tarcs => <<Inst, s>> \in dfg.tarcs /\ s # n
    BY <2>3 DEF WithoutNode
  <2> HIDE DEF back
  <2>5. Mapped'
    BY <1>0, <2>1, <2>3, <2>4 DEF IInv, Mapped
  <2> QED BY <1>0, <1>1, <2>1, <2>2, <2>3, <2>5
       DEF IInv, Phases, ControlInv, TopList, ChildList, Branch, PortsListed
<1>3. CASE ~UselessTop(dfg, n)
  <2>1. dfg' = dfg /\ ttodo' = ttodo \ {n} /\ tagain' = tagain \ {n}
    BY <1>3 DEF TopStep, TPop
  <2> QED BY <1>0, <1>1, <2>1
       DEF IInv, Phases, ControlInv, TopList, ChildList, Branch, PortsListed, Mapped
<1> QED BY <1>2, <1>3

LEMMA InstEnterInv ==
  ASSUME IInv, InstEnter
  PROVE  IInv'
<1> DEFINE open == {p \in DOMAIN dfg.p2s : dfg.p2s[p] = Open}
<1>0. /\ pc = "top" /\ Inst \in ttodo \cup tagain
      /\ ins' = InNodes(dfg.tarcs, Inst) /\ outs' = OutNodes(dfg.tarcs, Inst)
      /\ ttodo' = ttodo \ {Inst} /\ tagain' = tagain \ {Inst}
      /\ dfg' = [dfg EXCEPT !.p2s = [p \in DOMAIN @ \ open |-> @[p]]]
      /\ IF open # {} THEN pc' = "nested" /\ ctodo' = dfg.cnodes
                      ELSE pc' = "resume" /\ ctodo' = ctodo
      /\ ctl' = ctl /\ cagain' = cagain
  BY DEF InstEnter, TFront, TPop
<1>1. /\ Consistent(dfg', {}, {}) /\ dfg'.tnodes = dfg.tnodes /\ dfg'.tarcs = dfg.tarcs
      /\ dfg'.cnodes = dfg.cnodes /\ DOMAIN dfg'.p2s = DOMAIN dfg.p2s \ open
  BY <1>0, OpenErased DEF IInv
<1> HIDE DEF open
<1>2. Inst \in dfg.tnodes /\ ctodo \cup cagain = {} /\ ctl = {}
      /\ dfg.cnodes \cap Port \subseteq DOMAIN dfg.p2s
  BY <1>0 DEF IInv, TopList, ChildList, ControlInv, PortsListed
<1>3. Branch'
  <2>0. dfg.tarcs \in SUBSET (dfg.tnodes \X dfg.tnodes)
    BY DEF IInv, Consistent, Typed
  <2>1. \A s : (s \in ins' <=> <<s, Inst>> \in dfg.tarcs) /\ (s \in outs' <=> <<Inst, s>> \in dfg.tarcs)
    BY <1>0, <2>0, NeighbourArcs
  <2>2. \A s : <<s, Inst>> \in dfg.tarcs \/ <<Inst, s>> \in dfg.tarcs => s \in dfg.tnodes \ {Inst}
    BY <2>0, SigNotSpecial DEF IInv, Consistent, Legal
  <2> QED BY <2>1, <2>2, <1>0, <1>1, <1>2 DEF Branch
<1>4. PortsListed'
  BY <1>0, <1>1, <1>2 DEF PortsListed
<1> QED BY <1>0, <1>1, <1>2, <1>3, <1>4
     DEF IInv, Phases, ControlInv, TopList, ChildList, Mapped

LEMMA InstResumeInv ==
  ASSUME IInv, InstResume
  PROVE  IInv'
<1> DEFINE cut == (LostIn \X {Inst}) \cup ({Inst} \X LostOut)
           d == [dfg EXCEPT !.tarcs = @ \ cut]
           gone == InstEmpty(d)
<1>0. /\ pc = "resume" /\ pc' = "top" /\ ctl' = ctl
      /\ ttodo' = ttodo /\ ctodo' = ctodo /\ cagain' = cagain
      /\ dfg' = IF gone THEN RemoveInst(d) ELSE d
      /\ tagain' = tagain \cup ((IF gone THEN ins \cup outs ELSE LostIn \cup LostOut) \ ttodo)
  BY DEF InstResume
<1>1. /\ LostIn \subseteq ins /\ LostOut \subseteq outs
      /\ \A s \in LostIn \cup LostOut : s \notin DOMAIN dfg.s2p
      /\ \A s \in ins : s \notin LostIn => s \in DOMAIN dfg.s2p
      /\ \A s \in outs : s \notin LostOut => s \in DOMAIN dfg.s2p
  BY DEF LostIn, LostOut
<1>2. /\ Consistent(d, {}, {}) /\ d.tnodes = dfg.tnodes /\ d.cnodes = dfg.cnodes
      /\ d.p2s = dfg.p2s /\ d.s2p = dfg.s2p /\ d.tarcs = dfg.tarcs \ cut
  <2>1. Consistent(dfg, {}, {})
    BY DEF IInv
  <2> HIDE DEF LostIn, LostOut
  <2> QED BY <1>1, <2>1, ArcsLost
<1> HIDE DEF d, gone
<1>3. \A s : /\ <<s, Inst>> \in d.tarcs => <<s, Inst>> \in dfg.tarcs /\ s \notin LostIn
             /\ <<Inst, s>> \in d.tarcs => <<Inst, s>> \in dfg.tarcs /\ s \notin LostOut
  BY <1>2
<1>4. /\ ctl = {} /\ ctodo \cup cagain = {} /\ dfg.cnodes \cap Port \subseteq DOMAIN dfg.p2s
      /\ Inst \notin ttodo \cup tagain /\ ins \cup outs \subseteq dfg.tnodes \ {Inst}
      /\ ttodo \cup tagain \subseteq dfg.tnodes
  BY <1>0 DEF IInv, ControlInv, ChildList, PortsListed, Branch, TopList
<1>5. CASE gone
  <2>1. dfg' = RemoveInst(d)
    BY <1>0, <1>5
  <2>2. /\ Consistent(dfg', {}, {}) /\ dfg'.tnodes = dfg.tnodes \ {Inst} /\ dfg'.cnodes = {}
        /\ \A a \in dfg'.tarcs : a[1] # Inst /\ a[2] # Inst
    BY <2>1, <1>2, InstRemoved
  <2>3. \A s : <<s, Inst>> \notin dfg'.tarcs /\ <<Inst, s>> \notin dfg'.tarcs
    BY <2>2
  <2>4. ttodo' \cup tagain' \subseteq dfg'.tnodes
    BY <1>0, <1>4, <1>5, <2>2
  <2> QED BY <1>0, <1>4, <2>2, <2>3, <2>4
       DEF IInv, Phases, ControlInv, TopList, ChildList, Branch, PortsListed, Mapped
<1>6. CASE ~gone
  <2>1. dfg' = d
    BY <1>0, <1>6
  <2>2. ttodo' \cup tagain' \subseteq dfg'.tnodes
    BY <1>0, <1>1, <1>2, <1>4, <1>6, <2>1
  <2>3. Mapped'
    <3>1. \A s : /\ <<s, Inst>> \in dfg.tarcs => s \in ins
                 /\ <<Inst, s>> \in dfg.tarcs => s \in outs
      BY <1>0 DEF IInv, Branch
    <3> QED BY <3>1, <2>1, <1>1, <1>2, <1>3 DEF Mapped
  <2> QED BY <1>0, <1>2, <1>4, <2>1, <2>2, <2>3
       DEF IInv, Phases, ControlInv, TopList, ChildList, Branch, PortsListed
<1> QED BY <1>5, <1>6

LEMMA StartChildInv ==
  ASSUME IInv, StartChild
  PROVE  IInv'
  BY DEF StartChild, IInv, Phases, ControlInv, TopList, ChildList, Branch, PortsListed, Mapped

LEMMA ChildReturnInv ==
  ASSUME IInv, ChildReturn
  PROVE  IInv'
<1>1. ctodo = {} /\ cagain = {}
  BY DEF ChildReturn, CFront
<1>2. \A s : <<s, Inst>> \in dfg.tarcs \/ <<Inst, s>> \in dfg.tarcs => Inst \in dfg.tnodes
  BY DEF IInv, Consistent, Typed
<1> QED BY <1>1, <1>2
     DEF ChildReturn, IInv, Phases, ControlInv, TopList, ChildList, Branch, PortsListed, Mapped

LEMMA FinishInv ==
  ASSUME IInv, Finish
  PROVE  IInv'
<1>1. ttodo = {} /\ tagain = {}
  BY DEF Finish, TFront
<1> QED BY <1>1
     DEF Finish, IInv, Phases, ControlInv, TopList, ChildList, Branch, PortsListed, Mapped

\* Every step, and every stutter, keeps the invariant.
LEMMA NextInv ==
  ASSUME IInv, [Next]_vars
  PROVE  IInv'
<1>1. CASE \E a \in ctl : CutControl(a)
  BY <1>1, CutControlInv
<1>2. CASE StartChild
  BY <1>2, StartChildInv
<1>3. CASE \E n \in CNode : ChildStep(n)
  BY <1>3, ChildStepInv
<1>4. CASE ChildReturn
  BY <1>4, ChildReturnInv
<1>5. CASE \E n \in TNode : TopStep(n)
  BY <1>5, TopStepInv
<1>6. CASE InstEnter
  BY <1>6, InstEnterInv
<1>7. CASE InstResume
  BY <1>7, InstResumeInv
<1>8. CASE Finish
  BY <1>8, FinishInv
<1>9. CASE UNCHANGED vars
  BY <1>9 DEF vars, IInv, Phases, ControlInv, TopList, ChildList, Branch, PortsListed, Mapped
<1> QED BY <1>1, <1>2, <1>3, <1>4, <1>5, <1>6, <1>7, <1>8, <1>9 DEF Next

LEMMA Invariant == Spec => []IInv
  BY InitInv, NextInv, PTL DEF Spec

-----------------------------------------------------------------------------
\* The variables have their types throughout the nested loops.
THEOREM TypeCorrect == Spec => []TypeOK
<1>1. IInv => TypeOK
  BY DEF IInv, Consistent, Typed, Phases, ControlInv, InstArcs, TypeOK
<1> QED BY <1>1, Invariant, PTL

\* remove_edge, remove_port and remove_port_sig, however they call each other,
\* keep port2sig and sig2port inverse to each other, and port2sig free of ports
\* the child has lost.
THEOREM MapsAgreeHolds == Spec => []MapsAgree
<1>1. IInv => MapsAgree
  BY DEF IInv, Consistent, Agree, MapsAgree
<1> QED BY <1>1, Invariant, PTL

\* Neither worklist holds a node that is no longer in its graph, although each
\* loop edits the graph of the other.
THEOREM WorklistsAliveHolds == Spec => []WorklistsAlive
<1>1. IInv => WorklistsAlive
  BY DEF IInv, TopList, ChildList, WorklistsAlive
<1> QED BY <1>1, Invariant, PTL

\* When the loops have ended, the assertions of check_integrity hold.
THEOREM IntegrityHolds == Spec => []Integrity
<1>1. ASSUME IInv PROVE Integrity
  <2> SUFFICES ASSUME pc = "done", Inst \in dfg.tnodes
               PROVE  /\ \A s \in InNodes(dfg.tarcs, Inst) \cup OutNodes(dfg.tarcs, Inst) :
                            s \in DOMAIN dfg.s2p /\ dfg.s2p[s] # {}
                      /\ \A p \in DOMAIN dfg.p2s :
                            dfg.p2s[p] # Open =>
                              /\ Reads(p)  => <<dfg.p2s[p], Inst>> \in dfg.tarcs
                              /\ Drives(p) => <<Inst, dfg.p2s[p]>> \in dfg.tarcs
                      /\ dfg.cnodes \cap Port \subseteq DOMAIN dfg.p2s
    BY DEF Integrity
  <2>1. Consistent(dfg, {}, {})
    BY <1>1 DEF IInv
  <2>2. ASSUME NEW s \in InNodes(dfg.tarcs, Inst) \cup OutNodes(dfg.tarcs, Inst)
        PROVE  s \in DOMAIN dfg.s2p /\ dfg.s2p[s] # {}
    <3>1. <<s, Inst>> \in dfg.tarcs \/ <<Inst, s>> \in dfg.tarcs
      <4>1. dfg.tarcs \in SUBSET (dfg.tnodes \X dfg.tnodes)
        BY <2>1 DEF Consistent, Typed
      <4> QED BY <4>1, <2>2, NeighbourArcs
    <3>2. s \in DOMAIN dfg.s2p
      BY <1>1, <3>1 DEF IInv, TopList, Mapped
    <3>3. s \in Sig
      BY <2>1, <3>1 DEF Consistent, Legal
    <3> QED BY <2>1, <3>2, <3>3 DEF Consistent, Filled
  <2>3. \A p \in DOMAIN dfg.p2s :
           dfg.p2s[p] # Open => /\ Reads(p)  => <<dfg.p2s[p], Inst>> \in dfg.tarcs
                                /\ Drives(p) => <<Inst, dfg.p2s[p]>> \in dfg.tarcs
    BY <2>1 DEF Consistent, Backed
  <2>4. dfg.cnodes \cap Port \subseteq DOMAIN dfg.p2s
    BY <1>1 DEF IInv, PortsListed
  <2> QED BY <2>2, <2>3, <2>4
<1> QED BY <1>1, Invariant, PTL
-----------------------------------------------------------------------------
(* What the passes leave of a plain design, in which no signal has two     *)
(* ports: an edit of one port then changes no other.                       *)

\* The child loses n and what hung on it: its entry, and the arcs between the
\* instance and its signal, on which there is no port any more.
PlainLoss(d, r, n) ==
    /\ r.tnodes = d.tnodes /\ r.tarcs \subseteq d.tarcs
    /\ r.cnodes = d.cnodes \ {n} /\ r.carcs = WithoutNode(d.carcs, n)
    /\ DOMAIN r.p2s = DOMAIN d.p2s \ {n}
    /\ \A p \in DOMAIN r.p2s : r.p2s[p] = d.p2s[p]
    /\ \A s \in Sig : s \in DOMAIN r.s2p => s \in DOMAIN d.s2p
    /\ \A a \in d.tarcs : a \notin r.tarcs =>
          \E s \in Sig : (a = <<s, Inst>> \/ a = <<Inst, s>>) /\ s \notin DOMAIN r.s2p

\* A signal in sig2port has a port, which names it.
LEMMA SignalPort ==
  ASSUME NEW d, Consistent(d, {}, {}), NEW s \in Sig, s \in DOMAIN d.s2p
  PROVE  \E p \in DOMAIN d.p2s : d.p2s[p] = s
<1>1. d.s2p[s] # {} /\ d.s2p[s] \subseteq Port
  BY DEF Consistent, Filled, Typed
<1>2. PICK p \in Port : p \in d.s2p[s]
  BY <1>1
<1> QED BY <1>2 DEF Consistent, Agree

LEMMA PlainChildNodeRemoved ==
  ASSUME NEW d, NEW n \in d.cnodes, Consistent(d, {}, {}), Plain(d)
  PROVE  PlainLoss(d, RemoveChildNode(d, n), n)
<1> DEFINE r == RemoveChildNode(d, n)
<1>1. /\ Consistent(r, {}, {}) /\ r.tnodes = d.tnodes /\ r.tarcs \subseteq d.tarcs
      /\ r.cnodes = d.cnodes \ {n} /\ r.carcs = WithoutNode(d.carcs, n)
      /\ DOMAIN r.p2s = DOMAIN d.p2s \ {n}
      /\ n \in DOMAIN d.p2s => OnlyAt(d, r, d.p2s[n])
      /\ n \notin DOMAIN d.p2s => r.tarcs = d.tarcs /\ r.p2s = d.p2s /\ r.s2p = d.s2p
  BY ChildNodeRemoved
<1> HIDE DEF r
<1>2. \A p \in DOMAIN r.p2s : r.p2s[p] = d.p2s[p]
  <2>1. CASE n \in DOMAIN d.p2s
    BY <1>1, <2>1 DEF OnlyAt, Plain
  <2>2. CASE n \notin DOMAIN d.p2s
    BY <1>1, <2>2
  <2> QED BY <2>1, <2>2
<1>3. ASSUME NEW s \in Sig, s \in DOMAIN r.s2p
      PROVE  \E p \in DOMAIN d.p2s : p # n /\ d.p2s[p] = s
  <2>1. PICK p \in DOMAIN r.p2s : r.p2s[p] = s
    BY <1>1, <1>3, SignalPort
  <2> QED BY <1>1, <1>2, <2>1
<1>4. ASSUME NEW s \in Sig, s \in DOMAIN r.s2p PROVE s \in DOMAIN d.s2p
  <2>1. PICK p \in DOMAIN d.p2s : d.p2s[p] = s
    BY <1>3, <1>4
  <2>2. p \in Port
    BY DEF Consistent, Typed
  <2> QED BY <2>1, <2>2 DEF Consistent, Agree
<1>5. ASSUME NEW a \in d.tarcs, a \notin r.tarcs
      PROVE  \E s \in Sig : (a = <<s, Inst>> \/ a = <<Inst, s>>) /\ s \notin DOMAIN r.s2p
  <2>1. n \in DOMAIN d.p2s
    BY <1>1, <1>5
  <2> DEFINE s == d.p2s[n]
  <2>2. a = <<s, Inst>> \/ a = <<Inst, s>>
    BY <1>1, <1>5, <2>1 DEF OnlyAt
  <2>3. s \in Sig
    BY <1>5, <2>2 DEF Consistent, Legal
  <2>4. s # Open
    BY <2>3, SigNotSpecial
  <2>5. s \notin DOMAIN r.s2p
    BY <1>3, <2>1, <2>3, <2>4 DEF Plain
  <2> QED BY <2>2, <2>3, <2>5
<1>6. PlainLoss(d, r, n)
  BY <1>1, <1>2, <1>4, <1>5 DEF PlainLoss
<1> QED BY <1>6 DEF r

\* A design stays plain when ports are taken off their signals.
LEMMA StaysPlain ==
  ASSUME NEW d, NEW r, Plain(d), DOMAIN r.p2s \subseteq DOMAIN d.p2s,
         \A p \in DOMAIN r.p2s : r.p2s[p] = d.p2s[p] \/ r.p2s[p] = Open
  PROVE  Plain(r)
BY DEF Plain

-----------------------------------------------------------------------------
\* A useless node of the top graph is on the list, or the branch of the
\* instance will put it back when the child returns.
TopPending ==
    pc \in {"top", "nested", "resume", "done"} =>
      \A n \in dfg.tnodes \ {Inst} : UselessTop(dfg, n) =>
         \/ n \in ttodo \cup tagain
         \/ pc \in {"nested", "resume"} /\ n \in (ins \cup outs) \cap Sig /\ n \notin DOMAIN dfg.s2p

\* An instance that drives nothing is on the list.
InstPending ==
    pc \in {"top", "done"} /\ Inst \in dfg.tnodes =>
      Inst \in ttodo \cup tagain \/ \E s : <<Inst, s>> \in dfg.tarcs

\* A useless node of the child is on its list; or it is a port that has lost
\* its signal, and the instance is on the list of the top graph.
ChildPending ==
    \A n \in dfg.cnodes : UselessChild(dfg, n) =>
      \/ pc \in {"child", "nested"} /\ n \in ctodo \cup cagain
      \/ pc = "top" /\ n \in DOMAIN dfg.p2s /\ dfg.p2s[n] = Open /\ Inst \in ttodo \cup tagain

\* What the set W of nodes rests on in the design e is still in d.
CoreIn(e, d, W) ==
    /\ W \cap TNode \subseteq d.tnodes /\ W \cap e.cnodes \subseteq d.cnodes
    /\ Within(e.tarcs, W) \subseteq d.tarcs /\ Within(e.carcs, W) \subseteq d.carcs
    /\ \A p \in W \cap Port : p \in DOMAIN d.p2s /\ d.p2s[p] = e.p2s[p]

Core ==
    \A W \in SUBSET (TNode \cup entry.cnodes) :
       SelfSupporting(entry, W) => CoreIn(entry, dfg, W)

EntryInv ==
    /\ pc = "cut" => dfg.tnodes = TNode \cup {Inst}
    /\ pc # "cut" => Consistent(entry, {}, {})

PlainInv ==
    /\ Plain(dfg) /\ Core
    /\ TopPending /\ InstPending /\ ChildPending

\* Between two designs whose child differs by nothing but a node that goes, a
\* node that becomes useless is a neighbour that is put back.
LEMMA ChildSuffers ==
  ASSUME NEW d, NEW r, NEW n \in d.cnodes, Consistent(d, {}, {}), PlainLoss(d, r, n),
         UselessChild(d, n), NEW m \in r.cnodes, UselessChild(r, m), ~UselessChild(d, m)
  PROVE  m \in Disturbed(CKind[n], d.carcs, n)
<1>1. /\ d.carcs \in SUBSET (d.cnodes \X d.cnodes) /\ n \in CNode /\ m # n /\ m \in CNode
      /\ r.carcs = WithoutNode(d.carcs, n)
  BY DEF Consistent, Typed, PlainLoss
<1>2. PortOpen(r, m) = PortOpen(d, m)
  BY <1>1 DEF PlainLoss, PortOpen
<1> DEFINE open(x) == x \in Port /\ PortOpen(d, x)
<1>3. Useless(CKind[m], WithoutNode(d.carcs, n), m, open(m)) /\ ~Useless(CKind[m], d.carcs, m, open(m))
  BY <1>1, <1>2 DEF UselessChild
<1>4. <<m, n>> \in d.carcs \/ <<n, m>> \in d.carcs
  BY <1>1, <1>3, OnlyNeighboursSuffer
<1>5. Useless(CKind[n], d.carcs, n, open(n))
  BY DEF UselessChild
<1>6. /\ CKind[n] \in PortKinds \cup {"reg", "comb"}
      /\ CKind[n] = "iport" => \A x : <<x, n>> \notin d.carcs
      /\ CKind[n] = "oport" => \A x : <<n, x>> \notin d.carcs
  BY <1>1, KindFacts DEF Consistent, Legal
<1> HIDE DEF open
<1> QED BY <1>1, <1>4, <1>5, <1>6, DisturbedCovers

\* The same in the top graph; the instance is put back with its neighbours.
LEMMA TopSuffers ==
  ASSUME NEW d, NEW n \in TNode \cap d.tnodes, Consistent(d, {}, {}), UselessTop(d, n), NEW m, m # n
  PROVE  LET back == Disturbed(TKind[n], d.tarcs, n)
         IN  /\ <<m, n>> \in d.tarcs \/ <<n, m>> \in d.tarcs => m \in back
             /\ Useless(TKind[m], WithoutNode(d.tarcs, n), m, FALSE) /\ ~UselessTop(d, m) => m \in back
<1>1. d.tarcs \in SUBSET (d.tnodes \X d.tnodes)
  BY DEF Consistent, Typed
<1>2. /\ TKind[n] \in PortKinds \cup {"reg", "comb"}
      /\ TKind[n] = "iport" => \A x : <<x, n>> \notin d.tarcs
      /\ TKind[n] = "oport" => \A x : <<n, x>> \notin d.tarcs
  BY KindFacts DEF Consistent, Legal, PortKinds
<1>3. Useless(TKind[n], d.tarcs, n, FALSE)
  BY DEF UselessTop
<1>4. ASSUME <<m, n>> \in d.tarcs \/ <<n, m>> \in d.tarcs
      PROVE  m \in Disturbed(TKind[n], d.tarcs, n)
  BY <1>1, <1>2, <1>3, <1>4, DisturbedCovers
<1>5. ASSUME Useless(TKind[m], WithoutNode(d.tarcs, n), m, FALSE), ~UselessTop(d, m)
      PROVE  <<m, n>> \in d.tarcs \/ <<n, m>> \in d.tarcs
  BY <1>1, <1>5, OnlyNeighboursSuffer DEF UselessTop
<1> QED BY <1>4, <1>5

\* A node of the top graph whose arcs stay does not become useless.
LEMMA TopArcLost ==
  ASSUME NEW d, NEW r, Consistent(d, {}, {}), Consistent(r, {}, {}), r.tarcs \subseteq d.tarcs,
         NEW m, UselessTop(r, m), ~UselessTop(d, m)
  PROVE  \E x : \/ <<m, x>> \in d.tarcs /\ <<m, x>> \notin r.tarcs
                \/ <<x, m>> \in d.tarcs /\ <<x, m>> \notin r.tarcs
<1> SUFFICES ASSUME \A x : <<m, x>> \in d.tarcs <=> <<m, x>> \in r.tarcs,
                    \A x : <<x, m>> \in d.tarcs <=> <<x, m>> \in r.tarcs
             PROVE  FALSE
  OBVIOUS
<1>1. d.tarcs \in SUBSET (d.tnodes \X d.tnodes) /\ r.tarcs \in SUBSET (d.tnodes \X d.tnodes)
  BY DEF Consistent, Typed
<1>2. Useless(TKind[m], d.tarcs, m, FALSE) <=> Useless(TKind[m], r.tarcs, m, FALSE)
  BY <1>1, OwnArcs
<1> QED BY <1>2 DEF UselessTop

-----------------------------------------------------------------------------
(* The core: what W rests on keeps every node of W of use.                 *)

LEMMA CoreOutside ==
  ASSUME NEW e, Consistent(e, {}, {}), NEW W \in SUBSET (TNode \cup e.cnodes)
  PROVE  Inst \notin W /\ W \subseteq TNode \cup CNode
  BY HierAssumption DEF Consistent, Typed

LEMMA CoreTopUseful ==
  ASSUME NEW e, NEW d, Consistent(e, {}, {}), Consistent(d, {}, {}),
         NEW W \in SUBSET (TNode \cup e.cnodes), SelfSupporting(e, W), CoreIn(e, d, W),
         NEW n \in W \cap TNode
  PROVE  ~UselessTop(d, n)
<1>1. HierArcs(e, W) \subseteq d.tarcs
  <2>1. Within(e.tarcs, W) \subseteq d.tarcs
    BY DEF CoreIn
  <2>2. ASSUME NEW p \in W \cap DOMAIN e.p2s
        PROVE  /\ Reads(p)  => <<e.p2s[p], Inst>> \in d.tarcs
               /\ Drives(p) => <<Inst, e.p2s[p]>> \in d.tarcs
    <3>1. p \in Port
      BY DEF Consistent, Typed
    <3>2. p \in DOMAIN d.p2s /\ d.p2s[p] = e.p2s[p] /\ e.p2s[p] # Open
      BY <3>1 DEF CoreIn, SelfSupporting, PortOpen
    <3> QED BY <3>2 DEF Consistent, Backed
  <2> QED BY <2>1, <2>2 DEF HierArcs
<1>2. ~Useless(TKind[n], HierArcs(e, W), n, FALSE)
  BY DEF SelfSupporting
<1> QED BY <1>1, <1>2, UselessMonotone DEF UselessTop

LEMMA CoreChildUseful ==
  ASSUME NEW e, NEW d, NEW W, SelfSupporting(e, W), CoreIn(e, d, W),
         NEW n \in W \cap CNode
  PROVE  ~UselessChild(d, n)
<1>1. ~Useless(CKind[n], Within(e.carcs, W), n, FALSE)
  BY DEF SelfSupporting
<1>2. Within(e.carcs, W) \subseteq d.carcs
  BY DEF CoreIn
<1>3. ~Useless(CKind[n], d.carcs, n, FALSE)
  BY <1>1, <1>2, UselessMonotone
<1>4. n \in Port => ~PortOpen(d, n)
  BY DEF CoreIn, SelfSupporting, PortOpen
<1> QED BY <1>3, <1>4 DEF UselessChild, Useless, UselessPort

LEMMA CoreAfterChild ==
  ASSUME NEW e, NEW d, NEW r, NEW n \in d.cnodes, Consistent(e, {}, {}), Consistent(d, {}, {}),
         NEW W \in SUBSET (TNode \cup e.cnodes), SelfSupporting(e, W), CoreIn(e, d, W),
         UselessChild(d, n), PlainLoss(d, r, n)
  PROVE  CoreIn(e, r, W)
<1>1. n \notin W
  <2>1. n \in CNode
    BY DEF Consistent, Typed
  <2> QED BY <2>1, CoreChildUseful
<1>2. Inst \notin W
  BY CoreOutside
<1>3. Within(e.tarcs, W) \subseteq r.tarcs
  <2>1. \A a \in Within(e.tarcs, W) : a \in d.tarcs /\ a[1] # Inst /\ a[2] # Inst
    BY <1>2 DEF CoreIn, Within
  <2> QED BY <2>1 DEF PlainLoss
<1>4. Within(e.carcs, W) \subseteq r.carcs
  BY <1>1 DEF CoreIn, Within, PlainLoss, WithoutNode
<1>5. W \cap TNode \subseteq r.tnodes /\ W \cap e.cnodes \subseteq r.cnodes
  BY <1>1 DEF CoreIn, PlainLoss
<1>6. \A p \in W \cap Port : p \in DOMAIN r.p2s /\ r.p2s[p] = e.p2s[p]
  BY <1>1 DEF CoreIn, PlainLoss
<1> QED BY <1>3, <1>4, <1>5, <1>6 DEF CoreIn

LEMMA CoreAfterTop ==
  ASSUME NEW e, NEW d, NEW r, NEW n \in TNode, Consistent(e, {}, {}), Consistent(d, {}, {}),
         NEW W \in SUBSET (TNode \cup e.cnodes), SelfSupporting(e, W), CoreIn(e, d, W),
         UselessTop(d, n), r.tnodes = d.tnodes \ {n}, r.tarcs = WithoutNode(d.tarcs, n),
         r.cnodes = d.cnodes, r.carcs = d.carcs, DOMAIN r.p2s = DOMAIN d.p2s,
         \A p \in DOMAIN d.p2s : d.p2s[p] # n => r.p2s[p] = d.p2s[p]
  PROVE  CoreIn(e, r, W)
<1>1. n \notin W
  BY CoreTopUseful
<1>2. Within(e.tarcs, W) \subseteq r.tarcs
  BY <1>1 DEF CoreIn, Within, WithoutNode
<1>3. \A p \in W \cap Port : p \in DOMAIN r.p2s /\ r.p2s[p] = e.p2s[p]
  BY <1>1 DEF CoreIn, SelfSupporting
<1> QED BY <1>1, <1>2, <1>3 DEF CoreIn

\* The rest of the instance branch takes arcs of the instance, and the
\* instance only when no output of it is in W.
LEMMA CoreAfterResume ==
  ASSUME NEW e, NEW d, NEW c, Consistent(e, {}, {}), Consistent(c, {}, {}),
         NEW W \in SUBSET (TNode \cup e.cnodes), SelfSupporting(e, W), CoreIn(e, d, W),
         c.tnodes = d.tnodes, c.cnodes = d.cnodes, c.carcs = d.carcs, c.p2s = d.p2s,
         \A a \in d.tarcs : a \in c.tarcs \/ a[1] = Inst \/ a[2] = Inst
  PROVE  CoreIn(e, IF InstEmpty(c) THEN RemoveInst(c) ELSE c, W)
<1>1. Inst \notin W /\ W \subseteq TNode \cup CNode
  BY CoreOutside
<1>2. CoreIn(e, c, W)
  <2>1. Within(e.tarcs, W) \subseteq c.tarcs
    <3>1. \A a \in Within(e.tarcs, W) : a \in d.tarcs /\ a[1] # Inst /\ a[2] # Inst
      BY <1>1 DEF CoreIn, Within
    <3> QED BY <3>1
  <2> QED BY <2>1 DEF CoreIn
<1>3. ASSUME InstEmpty(c) PROVE W \cap CNode = {}
  <2> SUFFICES ASSUME W \cap CNode # {} PROVE FALSE
    OBVIOUS
  <2>1. PICK p \in W \cap Port : Drives(p)
    BY DEF SelfSupporting
  <2>2. p \in DOMAIN c.p2s /\ c.p2s[p] = e.p2s[p] /\ e.p2s[p] # Open
    BY <1>2 DEF CoreIn, SelfSupporting, PortOpen
  <2>3. <<Inst, c.p2s[p]>> \in c.tarcs
    BY <2>1, <2>2 DEF Consistent, Backed
  <2>4. c.p2s[p] \in OutNodes(c.tarcs, Inst)
    <3>1. c.tarcs \in SUBSET (c.tnodes \X c.tnodes)
      BY DEF Consistent, Typed
    <3> QED BY <2>3, <3>1, NeighbourArcs
  <2>5. c.p2s[p] \in DOMAIN c.s2p
    BY <2>1, <2>2 DEF Consistent, Typed, Agree
  <2> QED BY <1>3, <2>4, <2>5 DEF InstEmpty
<1>4. ASSUME InstEmpty(c) PROVE CoreIn(e, RemoveInst(c), W)
  <2>1. W \cap CNode = {} /\ W \cap e.cnodes = {} /\ W \cap Port = {}
    BY <1>3, <1>4 DEF CNode, Consistent, Typed
  <2>2. Within(e.carcs, W) = {}
    BY <2>1 DEF Within, Consistent, Typed
  <2>3. Within(e.tarcs, W) \subseteq WithoutNode(c.tarcs, Inst)
    BY <1>1, <1>2 DEF CoreIn, Within, WithoutNode
  <2>4. W \cap TNode \subseteq c.tnodes \ {Inst}
    BY <1>1, <1>2 DEF CoreIn
  <2> QED BY <2>1, <2>2, <2>3, <2>4 DEF CoreIn, RemoveInst
<1> QED BY <1>2, <1>4

-----------------------------------------------------------------------------
(* Each action keeps the two.  Before the child starts there is nothing to *)
(* keep but the nodes of the top graph.                                    *)

LEMMA StartChildPlain ==
  ASSUME IInv, EntryInv, StartChild
  PROVE  EntryInv' /\ (Plain(entry') => PlainInv')
<1>1. /\ pc = "cut" /\ pc' = "child" /\ ctodo' = dfg.cnodes /\ entry' = dfg /\ dfg' = dfg
      /\ Consistent(dfg, {}, {}) /\ dfg.tnodes = TNode \cup {Inst}
  BY DEF StartChild, IInv, EntryInv
<1>2. EntryInv'
  BY <1>1 DEF EntryInv
<1>3. ASSUME NEW W \in SUBSET (TNode \cup dfg.cnodes), SelfSupporting(dfg, W)
      PROVE  CoreIn(dfg, dfg, W)
  BY <1>1, <1>3 DEF CoreIn, Within, SelfSupporting, PortOpen
<1>4. Core'
  BY <1>1, <1>3 DEF Core
<1>5. TopPending' /\ InstPending' /\ ChildPending'
  BY <1>1 DEF TopPending, InstPending, ChildPending
<1> QED BY <1>1, <1>2, <1>4, <1>5 DEF PlainInv

LEMMA ChildStepPlain ==
  ASSUME IInv, EntryInv, PlainInv, NEW n \in CNode, ChildStep(n)
  PROVE  PlainInv'
<1>0. /\ pc \in {"child", "nested"} /\ n \in ctodo \cup cagain /\ pc' = pc /\ entry' = entry
      /\ ttodo' = ttodo /\ tagain' = tagain /\ ins' = ins /\ outs' = outs
  BY DEF ChildStep, CFront
<1>1. /\ n \in dfg.cnodes /\ Consistent(dfg, {}, {}) /\ Consistent(entry, {}, {})
      /\ Plain(dfg) /\ Core /\ TopPending /\ ChildPending
  BY <1>0 DEF IInv, ChildList, EntryInv, PlainInv
<1>2. InstPending'
  BY <1>0 DEF InstPending
<1>3. CASE ~UselessChild(dfg, n)
  <2>1. dfg' = dfg /\ ctodo' = ctodo \ {n} /\ cagain' = cagain \ {n}
    BY <1>3 DEF ChildStep, CPop
  <2>2. Core' /\ TopPending'
    BY <1>0, <1>1, <2>1 DEF Core, TopPending
  <2>3. ChildPending'
    BY <1>0, <1>1, <1>3, <2>1 DEF ChildPending
  <2> QED BY <1>1, <1>2, <2>1, <2>2, <2>3 DEF PlainInv
<1>4. CASE UselessChild(dfg, n)
  <2> DEFINE back == Disturbed(CKind[n], dfg.carcs, n)
  <2>1. dfg' = RemoveChildNode(dfg, n) /\ ctodo' = ctodo \ {n}
        /\ cagain' = (cagain \ {n}) \cup (back \ (ctodo \ {n}))
    BY <1>4 DEF ChildStep, CPop
  <2>2. PlainLoss(dfg, dfg', n) /\ Consistent(dfg', {}, {})
    BY <1>1, <2>1, PlainChildNodeRemoved, ChildNodeRemoved
  <2>3. Plain(dfg')
    BY <1>1, <2>2, StaysPlain DEF PlainLoss
  <2>4. Core'
    <3> SUFFICES ASSUME NEW W \in SUBSET (TNode \cup entry.cnodes), SelfSupporting(entry, W)
                 PROVE  CoreIn(entry, dfg', W)
      BY <1>0 DEF Core
    <3>1. CoreIn(entry, dfg, W)
      BY <1>1 DEF Core
    <3> QED BY <1>1, <1>4, <2>2, <3>1, CoreAfterChild
  <2>5. ChildPending'
    <3> SUFFICES ASSUME NEW m \in dfg'.cnodes, UselessChild(dfg', m)
                 PROVE  m \in ctodo' \cup cagain'
      BY <1>0 DEF ChildPending
    <3>1. m # n /\ m \in dfg.cnodes
      BY <2>2 DEF PlainLoss
    <3>2. CASE UselessChild(dfg, m)
      <4>1. m \in ctodo \cup cagain
        BY <1>0, <1>1, <3>1, <3>2 DEF ChildPending
      <4> QED BY <2>1, <3>1, <4>1
    <3>3. CASE ~UselessChild(dfg, m)
      <4>1. m \in back
        BY <1>1, <1>4, <2>2, <3>3, ChildSuffers
      <4> QED BY <2>1, <3>1, <4>1
    <3> QED BY <3>2, <3>3
  <2>6. TopPending'
    <3> SUFFICES ASSUME pc = "nested", NEW m \in dfg'.tnodes \ {Inst}, UselessTop(dfg', m)
                 PROVE  m \in ttodo \cup tagain
                          \/ (m \in (ins \cup outs) \cap Sig /\ m \notin DOMAIN dfg'.s2p)
      BY <1>0 DEF TopPending
    <3>1. m \in dfg.tnodes \ {Inst}
      BY <2>2 DEF PlainLoss
    <3>2. CASE UselessTop(dfg, m)
      <4>1. m \in ttodo \cup tagain \/ (m \in (ins \cup outs) \cap Sig /\ m \notin DOMAIN dfg.s2p)
        BY <1>1, <3>1, <3>2 DEF TopPending
      <4> QED BY <2>2, <4>1 DEF PlainLoss
    <3>3. CASE ~UselessTop(dfg, m)
      <4>0. dfg'.tarcs \subseteq dfg.tarcs
        BY <2>2 DEF PlainLoss
      <4>1. PICK a \in dfg.tarcs : a \notin dfg'.tarcs /\ \E x : a = <<m, x>> \/ a = <<x, m>>
        BY <1>1, <2>2, <3>3, <4>0, TopArcLost
      <4>2. PICK s \in Sig : (a = <<s, Inst>> \/ a = <<Inst, s>>) /\ s \notin DOMAIN dfg'.s2p
        BY <2>2, <4>1 DEF PlainLoss
      <4>3. m = s
        BY <3>1, <4>1, <4>2
      <4>4. s \in ins \cup outs
        BY <4>1, <4>2 DEF IInv, Branch
      <4> QED BY <4>2, <4>3, <4>4
    <3> QED BY <3>2, <3>3
  <2> QED BY <1>2, <2>3, <2>4, <2>5, <2>6 DEF PlainInv
<1> QED BY <1>3, <1>4

LEMMA ChildReturnPlain ==
  ASSUME IInv, PlainInv, ChildReturn
  PROVE  PlainInv'
<1>1. /\ ctodo = {} /\ cagain = {} /\ dfg' = dfg /\ entry' = entry /\ tagain' = tagain
      /\ ins' = ins /\ outs' = outs /\ pc \in {"child", "nested"}
      /\ \/ pc = "child" /\ pc' = "top" /\ ttodo' = dfg.tnodes
         \/ pc = "nested" /\ pc' = "resume" /\ ttodo' = ttodo
  BY DEF ChildReturn, CFront
<1>2. Plain(dfg') /\ Core'
  BY <1>1 DEF PlainInv, Core
<1>3. TopPending' /\ InstPending'
  BY <1>1 DEF PlainInv, TopPending, InstPending
<1>4. ChildPending'
  BY <1>1 DEF PlainInv, ChildPending
<1> QED BY <1>2, <1>3, <1>4 DEF PlainInv

LEMMA TopStepPlain ==
  ASSUME IInv, EntryInv, PlainInv, NEW n \in TNode, TopStep(n)
  PROVE  PlainInv'
<1>0. /\ pc = "top" /\ n \in ttodo \cup tagain /\ n # Inst /\ pc' = pc /\ entry' = entry
      /\ ctodo' = ctodo /\ cagain' = cagain /\ ins' = ins /\ outs' = outs
  BY DEF TopStep, TFront
<1>1. /\ n \in dfg.tnodes /\ Consistent(dfg, {}, {}) /\ Consistent(entry, {}, {})
      /\ Plain(dfg) /\ Core /\ TopPending /\ InstPending /\ ChildPending
  BY <1>0 DEF IInv, TopList, EntryInv, PlainInv
<1>2. CASE ~UselessTop(dfg, n)
  <2>1. dfg' = dfg /\ ttodo' = ttodo \ {n} /\ tagain' = tagain \ {n}
    BY <1>2 DEF TopStep, TPop
  <2>2. Core' /\ TopPending'
    BY <1>0, <1>1, <1>2, <2>1 DEF Core, TopPending
  <2>3. InstPending' /\ ChildPending'
    BY <1>0, <1>1, <2>1 DEF InstPending, ChildPending
  <2> QED BY <1>1, <2>1, <2>2, <2>3 DEF PlainInv
<1>3. CASE UselessTop(dfg, n)
  <2> DEFINE back == Disturbed(TKind[n], dfg.tarcs, n)
  <2>1. dfg' = RemoveTopNode(dfg, n) /\ ttodo' = ttodo \ {n}
        /\ tagain' = (tagain \ {n}) \cup (back \ (ttodo \ {n}))
    BY <1>3 DEF TopStep, TPop
  <2>2. /\ Consistent(dfg', {}, {}) /\ dfg'.tnodes = dfg.tnodes \ {n}
        /\ dfg'.tarcs = WithoutNode(dfg.tarcs, n)
        /\ dfg'.cnodes = dfg.cnodes /\ dfg'.carcs = dfg.carcs
        /\ DOMAIN dfg'.p2s = DOMAIN dfg.p2s
        /\ \A p \in DOMAIN dfg.p2s : dfg'.p2s[p] = IF dfg.p2s[p] = n THEN Open ELSE dfg.p2s[p]
    BY <1>1, <2>1, TopNodeRemoved
  <2>3. ASSUME NEW m, m # n
        PROVE  /\ <<m, n>> \in dfg.tarcs \/ <<n, m>> \in dfg.tarcs => m \in back
               /\ UselessTop(dfg', m) /\ ~UselessTop(dfg, m) => m \in back
    <3>1. n \in TNode \cap dfg.tnodes
      BY <1>1
    <3> QED BY <1>1, <1>3, <2>2, <2>3, <3>1, TopSuffers DEF UselessTop
  <2>4. \A m : m # n /\ (m \in back \/ m \in ttodo \cup tagain) => m \in ttodo' \cup tagain'
    BY <2>1
  <2> HIDE DEF back
  <2>5. Plain(dfg')
    BY <1>1, <2>2, StaysPlain
  <2>6. Core'
    <3> SUFFICES ASSUME NEW W \in SUBSET (TNode \cup entry.cnodes), SelfSupporting(entry, W)
                 PROVE  CoreIn(entry, dfg', W)
      BY <1>0 DEF Core
    <3>1. CoreIn(entry, dfg, W)
      BY <1>1 DEF Core
    <3> QED BY <1>1, <1>3, <2>2, <3>1, CoreAfterTop
  <2>7. TopPending'
    <3> SUFFICES ASSUME NEW m \in dfg'.tnodes \ {Inst}, UselessTop(dfg', m)
                 PROVE  m \in ttodo' \cup tagain'
      BY DEF TopPending
    <3>1. m \in dfg.tnodes \ {Inst} /\ m # n
      BY <2>2
    <3>2. UselessTop(dfg, m) => m \in ttodo \cup tagain
      BY <1>0, <1>1, <3>1 DEF TopPending
    <3> QED BY <2>3, <2>4, <3>1, <3>2
  <2>8. InstPending'
    <3> SUFFICES ASSUME Inst \in dfg'.tnodes, Inst \notin ttodo' \cup tagain'
                 PROVE  \E s : <<Inst, s>> \in dfg'.tarcs
      BY DEF InstPending
    <3>1. Inst \in dfg.tnodes /\ Inst \notin ttodo \cup tagain /\ Inst \notin back
      BY <1>0, <2>2, <2>4
    <3>2. PICK s : <<Inst, s>> \in dfg.tarcs
      BY <1>0, <1>1, <3>1 DEF InstPending
    <3>3. s # n
      BY <1>0, <2>3, <3>1, <3>2
    <3> QED BY <1>0, <2>2, <3>2, <3>3 DEF WithoutNode
  <2>9. ChildPending'
    <3> SUFFICES ASSUME NEW m \in dfg.cnodes, UselessChild(dfg', m)
                 PROVE  m \in DOMAIN dfg'.p2s /\ dfg'.p2s[m] = Open /\ Inst \in ttodo' \cup tagain'
      BY <1>0, <2>2 DEF ChildPending
    <3>1. CASE UselessChild(dfg, m)
      <4>1. m \in DOMAIN dfg.p2s /\ dfg.p2s[m] = Open /\ Inst \in ttodo \cup tagain
        BY <1>0, <1>1, <3>1 DEF ChildPending
      <4> QED BY <1>0, <2>2, <2>4, <4>1
    <3>2. CASE ~UselessChild(dfg, m)
      <4>1. m \in Port /\ PortOpen(dfg', m) /\ ~PortOpen(dfg, m)
        BY <2>2, <3>2 DEF UselessChild, Useless, UselessPort
      <4>2. m \in DOMAIN dfg.p2s /\ dfg.p2s[m] = n /\ dfg'.p2s[m] = Open /\ n # Open
        BY <2>2, <4>1 DEF PortOpen
      <4>3. <<n, Inst>> \in dfg.tarcs \/ <<Inst, n>> \in dfg.tarcs
        BY <1>1, <4>2 DEF Consistent, Backed, Reads, Drives
      <4>4. Inst \in back
        BY <1>0, <2>3, <4>3
      <4> QED BY <1>0, <2>2, <2>4, <4>2, <4>4
    <3> QED BY <3>1, <3>2
  <2> QED BY <2>5, <2>6, <2>7, <2>8, <2>9 DEF PlainInv
<1> QED BY <1>2, <1>3

LEMMA InstEnterPlain ==
  ASSUME IInv, EntryInv, PlainInv, InstEnter
  PROVE  PlainInv'
<1> DEFINE open == {p \in DOMAIN dfg.p2s : dfg.p2s[p] = Open}
<1>0. /\ pc = "top" /\ entry' = entry
      /\ ttodo' = ttodo \ {Inst} /\ tagain' = tagain \ {Inst} /\ cagain' = cagain
      /\ dfg' = [dfg EXCEPT !.p2s = [p \in DOMAIN @ \ open |-> @[p]]]
      /\ \/ open # {} /\ pc' = "nested" /\ ctodo' = dfg.cnodes
         \/ open = {} /\ pc' = "resume" /\ ctodo' = ctodo
  BY DEF InstEnter, TPop
<1>1. /\ Consistent(dfg, {}, {}) /\ Plain(dfg) /\ Core /\ TopPending /\ ChildPending
  BY DEF IInv, PlainInv
<1>2. /\ dfg'.tnodes = dfg.tnodes /\ dfg'.tarcs = dfg.tarcs
      /\ dfg'.cnodes = dfg.cnodes /\ dfg'.carcs = dfg.carcs
      /\ DOMAIN dfg'.p2s = DOMAIN dfg.p2s \ open
      /\ \A p \in DOMAIN dfg'.p2s : dfg'.p2s[p] = dfg.p2s[p]
  BY <1>0, <1>1, OpenErased
<1>3. Plain(dfg')
  BY <1>1, <1>2, StaysPlain
<1>4. Core'
  <2> SUFFICES ASSUME NEW W \in SUBSET (TNode \cup entry.cnodes), SelfSupporting(entry, W)
               PROVE  CoreIn(entry, dfg', W)
    BY <1>0 DEF Core
  <2>1. CoreIn(entry, dfg, W)
    BY <1>1 DEF Core
  <2>2. \A p \in W \cap Port : p \in DOMAIN dfg.p2s \ open
    BY <2>1 DEF CoreIn, SelfSupporting, PortOpen
  <2> HIDE DEF open
  <2> QED BY <1>2, <2>1, <2>2 DEF CoreIn
<1>5. TopPending'
  BY <1>0, <1>1, <1>2 DEF TopPending, UselessTop
<1>6. InstPending'
  BY <1>0 DEF InstPending
<1>7. ChildPending'
  <2>1. CASE open # {}
    BY <1>0, <1>2, <2>1 DEF ChildPending
  <2>2. CASE open = {}
    <3>1. \A m : PortOpen(dfg', m) <=> PortOpen(dfg, m)
      BY <1>2, <2>2 DEF PortOpen
    <3>2. \A m \in dfg'.cnodes : UselessChild(dfg', m) => UselessChild(dfg, m)
      BY <1>2, <3>1 DEF UselessChild, Useless, UselessPort
    <3>3. \A m \in dfg.cnodes : ~UselessChild(dfg, m)
      BY <1>0, <1>1, <2>2 DEF ChildPending
    <3> QED BY <1>2, <3>2, <3>3 DEF ChildPending
  <2> QED BY <2>1, <2>2
<1> QED BY <1>3, <1>4, <1>5, <1>6, <1>7 DEF PlainInv

LEMMA InstResumePlain ==
  ASSUME IInv, EntryInv, PlainInv, InstResume
  PROVE  PlainInv'
<1> DEFINE cut == (LostIn \X {Inst}) \cup ({Inst} \X LostOut)
           d == [dfg EXCEPT !.tarcs = @ \ cut]
           gone == InstEmpty(d)
<1>0. /\ pc = "resume" /\ pc' = "top" /\ entry' = entry
      /\ ttodo' = ttodo /\ ctodo' = ctodo /\ cagain' = cagain
      /\ dfg' = IF gone THEN RemoveInst(d) ELSE d
      /\ tagain' = tagain \cup ((IF gone THEN ins \cup outs ELSE LostIn \cup LostOut) \ ttodo)
  BY DEF InstResume
<1>1. /\ Consistent(dfg, {}, {}) /\ Consistent(entry, {}, {}) /\ Inst \in dfg.tnodes
      /\ Plain(dfg) /\ Core /\ TopPending /\ ChildPending
      /\ \A s : /\ <<s, Inst>> \in dfg.tarcs => s \in ins
                /\ <<Inst, s>> \in dfg.tarcs => s \in outs
  BY <1>0 DEF IInv, Branch, EntryInv, PlainInv
<1>2. /\ LostIn \subseteq ins /\ LostOut \subseteq outs
      /\ \A s \in LostIn \cup LostOut : s \notin DOMAIN dfg.s2p
      /\ \A s \in ins \cup outs : s \notin DOMAIN dfg.s2p => s \in LostIn \cup LostOut
  BY DEF LostIn, LostOut
<1>3. /\ Consistent(d, {}, {}) /\ d.tnodes = dfg.tnodes /\ d.cnodes = dfg.cnodes
      /\ d.carcs = dfg.carcs /\ d.p2s = dfg.p2s /\ d.tarcs = dfg.tarcs \ cut
  <2> HIDE DEF LostIn, LostOut
  <2> QED BY <1>1, <1>2, ArcsLost
<1>4. \A a \in dfg.tarcs : a \in d.tarcs \/ a[1] = Inst \/ a[2] = Inst
  BY <1>3
<1>5. ASSUME NEW x, NEW y, <<x, y>> \in dfg.tarcs, <<x, y>> \notin d.tarcs
      PROVE  (x \in LostIn /\ y = Inst) \/ (x = Inst /\ y \in LostOut)
  BY <1>3, <1>5
<1>6. LostIn \cup LostOut \subseteq ttodo' \cup tagain' /\ ttodo \cup tagain \subseteq ttodo' \cup tagain'
      /\ (gone => ins \cup outs \subseteq ttodo' \cup tagain')
  <2> HIDE DEF LostIn, LostOut, gone
  <2> QED BY <1>0, <1>2
<1> HIDE DEF d, cut
<1>7. /\ gone => /\ dfg'.tnodes = dfg.tnodes \ {Inst} /\ dfg'.tarcs = WithoutNode(d.tarcs, Inst)
                 /\ dfg'.cnodes = {} /\ DOMAIN dfg'.p2s = {}
      /\ ~gone => dfg' = d
  <2> HIDE DEF gone
  <2> QED BY <1>0, <1>3 DEF RemoveInst
<1>8. Consistent(dfg', {}, {})
  BY <1>0, <1>3, InstRemoved
<1>9. Core'
  <2> SUFFICES ASSUME NEW W \in SUBSET (TNode \cup entry.cnodes), SelfSupporting(entry, W)
               PROVE  CoreIn(entry, dfg', W)
    BY <1>0 DEF Core
  <2>1. CoreIn(entry, dfg, W)
    BY <1>1 DEF Core
  <2>2. CoreIn(entry, IF InstEmpty(d) THEN RemoveInst(d) ELSE d, W)
    BY <1>1, <1>3, <1>4, <2>1, CoreAfterResume
  <2> QED BY <1>0, <2>2
<1>10. Plain(dfg')
  <2> HIDE DEF gone
  <2> QED BY <1>1, <1>3, <1>7 DEF Plain
<1>11. TopPending'
  <2> SUFFICES ASSUME NEW m \in dfg'.tnodes \ {Inst}, UselessTop(dfg', m)
               PROVE  m \in ttodo' \cup tagain'
    BY DEF TopPending
  <2> HIDE DEF gone, LostIn, LostOut
  <2>1. m \in dfg.tnodes \ {Inst}
    BY <1>3, <1>7
  <2>2. CASE UselessTop(dfg, m)
    <3>1. m \in ttodo \cup tagain \/ (m \in ins \cup outs /\ m \notin DOMAIN dfg.s2p)
      BY <1>0, <1>1, <2>1, <2>2 DEF TopPending
    <3> QED BY <1>2, <1>6, <3>1
  <2>3. CASE ~UselessTop(dfg, m)
    <3>0. dfg'.tarcs \subseteq dfg.tarcs
      BY <1>3, <1>7 DEF WithoutNode
    <3>1. PICK x : \/ <<m, x>> \in dfg.tarcs /\ <<m, x>> \notin dfg'.tarcs
                   \/ <<x, m>> \in dfg.tarcs /\ <<x, m>> \notin dfg'.tarcs
      BY <1>1, <1>8, <2>3, <3>0, TopArcLost
    <3>2. CASE ~gone
      <4>1. m \in LostIn \cup LostOut
        BY <1>5, <1>7, <2>1, <3>1, <3>2
      <4> QED BY <1>6, <4>1
    <3>3. CASE gone
      <4>1. m \in ins \cup outs
        <5>1. x = Inst \/ m \in LostIn \cup LostOut
          BY <1>5, <1>7, <2>1, <3>1, <3>3 DEF WithoutNode
        <5>2. x = Inst => m \in ins \cup outs
          BY <1>1, <3>1
        <5> QED BY <1>2, <5>1, <5>2
      <4> QED BY <1>6, <3>3, <4>1
    <3> QED BY <3>2, <3>3
  <2> QED BY <2>2, <2>3
<1>12. InstPending'
  <2> SUFFICES ASSUME Inst \in dfg'.tnodes PROVE \E s : <<Inst, s>> \in dfg'.tarcs
    BY DEF InstPending
  <2>1. dfg' = d /\ OutNodes(d.tarcs, Inst) # {}
    BY <1>7 DEF InstEmpty
  <2>2. d.tarcs \in SUBSET (d.tnodes \X d.tnodes)
    BY <1>3 DEF Consistent, Typed
  <2>3. PICK s : s \in OutNodes(d.tarcs, Inst)
    BY <2>1
  <2> QED BY <2>1, <2>2, <2>3, NeighbourArcs
<1>13. ChildPending'
  <2> SUFFICES ASSUME NEW m \in dfg'.cnodes, UselessChild(dfg', m)
               PROVE  FALSE
    BY DEF ChildPending
  <2> HIDE DEF gone
  <2>1. dfg' = d /\ m \in dfg.cnodes
    BY <1>3, <1>7
  <2>2. UselessChild(dfg, m)
    BY <1>3, <2>1 DEF UselessChild, PortOpen
  <2> QED BY <1>0, <1>1, <2>1, <2>2 DEF ChildPending
<1> QED BY <1>9, <1>10, <1>11, <1>12, <1>13 DEF PlainInv

LEMMA FinishPlain ==
  ASSUME PlainInv, Finish
  PROVE  PlainInv'
<1>1. /\ pc = "top" /\ pc' = "done" /\ ttodo = {} /\ tagain = {} /\ dfg' = dfg /\ entry' = entry
      /\ ttodo' = ttodo /\ tagain' = tagain /\ ctodo' = ctodo /\ cagain' = cagain
  BY DEF Finish, TFront
<1>2. Plain(dfg') /\ Core'
  BY <1>1 DEF PlainInv, Core
<1>3. TopPending' /\ InstPending'
  BY <1>1 DEF PlainInv, TopPending, InstPending
<1>4. ChildPending'
  BY <1>1 DEF PlainInv, ChildPending
<1> QED BY <1>2, <1>3, <1>4 DEF PlainInv

LEMMA CutControlEntry ==
  ASSUME IInv, EntryInv, NEW a \in ctl, CutControl(a)
  PROVE  EntryInv'
<1>0. pc = "cut" /\ pc' = "cut" /\ dfg' = CutArc(dfg, a)
  BY DEF CutControl
<1>1. PICK s \in Sig, dir \in {"in", "out"} : a = InstArc(s, dir)
  BY InstArcForm DEF IInv, ControlInv
<1>2. /\ Typed(dfg) /\ Legal(dfg) /\ Agree(dfg, {}) /\ Backed(dfg, {}) /\ Filled(dfg, {})
      /\ Filled(dfg, {s})
  BY DEF IInv, Consistent, Filled
<1>3. Blanked(dfg, CutArc(dfg, InstArc(s, dir)), {}, s, dir)
  <2>1. CASE dir = "in"
    BY <2>1, <1>2, InstArcCut
  <2>2. CASE dir = "out"
    BY <2>2, <1>2, InstArcCut
  <2> QED BY <2>1, <2>2
<1>4. dfg'.tnodes = dfg.tnodes
  BY <1>0, <1>1, <1>3 DEF Blanked, Shrinks
<1> QED BY <1>0, <1>4 DEF EntryInv

KInv == IInv /\ EntryInv /\ (pc # "cut" /\ Plain(entry) => PlainInv)

LEMMA InitEntry == Init => KInv
<1>1. ASSUME Init PROVE dfg.tnodes = TNode \cup {Inst} /\ pc = "cut"
  BY <1>1 DEF Init, Connect
<1> QED BY <1>1, InitInv DEF KInv, EntryInv

LEMMA NextPlain ==
  ASSUME KInv, [Next]_vars
  PROVE  KInv'
<1>0. IInv /\ EntryInv /\ IInv' /\ (pc # "cut" /\ Plain(entry) => PlainInv)
  BY NextInv DEF KInv
<1>a. ASSUME pc # "cut", pc' # "cut", entry' = entry, Plain(entry) => PlainInv'
      PROVE  KInv'
  BY <1>0, <1>a DEF KInv, EntryInv
<1>1. CASE \E a \in ctl : CutControl(a)
  <2>1. pc' = "cut"
    BY <1>1 DEF CutControl
  <2> QED BY <1>0, <1>1, <2>1, CutControlEntry DEF KInv
<1>2. CASE StartChild
  BY <1>0, <1>2, StartChildPlain DEF KInv
<1>3. CASE \E n \in CNode : ChildStep(n)
  <2>1. pc # "cut" /\ pc' = pc /\ entry' = entry
    BY <1>3 DEF ChildStep
  <2>2. Plain(entry) => PlainInv'
    BY <1>0, <1>3, <2>1, ChildStepPlain
  <2> QED BY <1>a, <2>1, <2>2
<1>4. CASE ChildReturn
  <2>1. pc # "cut" /\ pc' # "cut" /\ entry' = entry
    BY <1>4 DEF ChildReturn
  <2> QED BY <1>a, <1>0, <1>4, <2>1, ChildReturnPlain
<1>5. CASE \E n \in TNode : TopStep(n)
  <2>1. pc # "cut" /\ pc' = pc /\ entry' = entry
    BY <1>5 DEF TopStep
  <2>2. Plain(entry) => PlainInv'
    BY <1>0, <1>5, <2>1, TopStepPlain
  <2> QED BY <1>a, <2>1, <2>2
<1>6. CASE InstEnter
  <2>1. pc # "cut" /\ pc' # "cut" /\ entry' = entry
    BY <1>6 DEF InstEnter
  <2> QED BY <1>a, <1>0, <1>6, <2>1, InstEnterPlain
<1>7. CASE InstResume
  <2>1. pc # "cut" /\ pc' # "cut" /\ entry' = entry
    BY <1>7 DEF InstResume
  <2> QED BY <1>a, <1>0, <1>7, <2>1, InstResumePlain
<1>8. CASE Finish
  <2>1. pc # "cut" /\ pc' # "cut" /\ entry' = entry
    BY <1>8 DEF Finish
  <2> QED BY <1>a, <1>0, <1>8, <2>1, FinishPlain
<1>9. CASE UNCHANGED vars
  <2>1. pc' = pc /\ entry' = entry /\ dfg' = dfg
    BY <1>9 DEF vars
  <2>2. PlainInv => PlainInv'
    BY <1>9 DEF vars, PlainInv, Core, TopPending, InstPending, ChildPending
  <2>3. EntryInv'
    BY <1>0, <2>1 DEF EntryInv
  <2> QED BY <1>0, <2>1, <2>2, <2>3 DEF KInv
<1> QED BY <1>1, <1>2, <1>3, <1>4, <1>5, <1>6, <1>7, <1>8, <1>9 DEF Next

LEMMA PlainInvariant == Spec => []KInv
  BY InitEntry, NextPlain, PTL DEF Spec

\* The two loops, run in this order and nested this way, leave no useless node
\* in the top graph of a plain design, and no instance that drives nothing.
THEOREM PlainTopCleanHolds == Spec => []PlainTopClean
<1>1. ASSUME KInv PROVE PlainTopClean
  <2> SUFFICES ASSUME pc = "done", Plain(entry)
               PROVE  /\ \A n \in dfg.tnodes \ {Inst} : ~UselessTop(dfg, n)
                      /\ Inst \in dfg.tnodes => OutNodes(dfg.tarcs, Inst) # {}
    BY DEF PlainTopClean
  <2>1. /\ ttodo \cup tagain = {} /\ TopPending /\ InstPending
        /\ dfg.tarcs \in SUBSET (dfg.tnodes \X dfg.tnodes)
    BY <1>1 DEF KInv, IInv, TopList, PlainInv, Consistent, Typed
  <2>2. \A n \in dfg.tnodes \ {Inst} : ~UselessTop(dfg, n)
    BY <2>1 DEF TopPending
  <2>3. ASSUME Inst \in dfg.tnodes PROVE OutNodes(dfg.tarcs, Inst) # {}
    <3>1. PICK s : <<Inst, s>> \in dfg.tarcs
      BY <2>1, <2>3 DEF InstPending
    <3>2. s \in OutNodes(dfg.tarcs, Inst)
      BY <2>1, <3>1, NeighbourArcs
    <3> QED BY <3>2
  <2> QED BY <2>2, <2>3
<1> QED BY <1>1, PlainInvariant, PTL

\* Nor a useless node in the child, although the top graph's loop opens ports
\* of it after the child's own loop has ended.
THEOREM ChildCleanHolds == Spec => []ChildClean
<1>1. KInv => ChildClean
  BY DEF KInv, PlainInv, ChildPending, ChildClean
<1> QED BY <1>1, PlainInvariant, PTL

\* And what supports itself in the design on entry, across the instance, is
\* still there.
THEOREM PlainCoreKeptHolds == Spec => []PlainCoreKept
<1>1. ASSUME KInv PROVE PlainCoreKept
  <2> SUFFICES ASSUME Plain(entry), pc = "done",
                      NEW W \in SUBSET (TNode \cup entry.cnodes), SelfSupporting(entry, W)
               PROVE  W \subseteq dfg.tnodes \cup dfg.cnodes
    BY DEF PlainCoreKept, HierCoreKept
  <2>1. CoreIn(entry, dfg, W)
    BY <1>1 DEF KInv, PlainInv, Core
  <2> QED BY <2>1 DEF CoreIn
<1> QED BY <1>1, PlainInvariant, PTL
=============================================================================
