--------------------------- MODULE Datapath_proofs ---------------------------
(***************************************************************************)
(* Proofs about extract_datapath_new: for every design without instances,  *)
(* and every order in which nodes and edges are visited, type propagation  *)
(* leaves the datapath alone and the two searches find exactly the nodes   *)
(* on walks of data edges from an input to an output.                      *)
(***************************************************************************)
EXTENDS Datapath, FiniteSetTheorems, SequenceTheorems, TLAPS

Ins(V)  == OfKind(V, {"iport"})
Outs(V) == OfKind(V, {"oport"})

Down(V, E) == Abstract!Downstream(V, E, Ins(V))
Up(V, E)   == Abstract!Upstream(V, E, Outs(V))

\* A set of wires between the vertices V.
Between(V, E) == \A w \in E : w[1] \in V /\ w[2] \in V

-----------------------------------------------------------------------------
(* Walks, as the least sets closed under the wires.                        *)

LEMMA DownFacts ==
  ASSUME NEW V, NEW E, Between(V, E)
  PROVE  /\ Ins(V) \subseteq Down(V, E) /\ Down(V, E) \subseteq V
         /\ \A w \in E : w[1] \in Down(V, E) => w[2] \in Down(V, E)
         /\ \A W \in SUBSET V :
              Ins(V) \subseteq W /\ (\A w \in E : w[1] \in W => w[2] \in W)
                => Down(V, E) \subseteq W
<1>1. Ins(V) \subseteq V
  BY DEF Ins, OfKind
<1> QED BY <1>1 DEF Down, Between, Abstract!Downstream, Abstract!ClosedDown

LEMMA UpFacts ==
  ASSUME NEW V, NEW E, Between(V, E)
  PROVE  /\ Outs(V) \subseteq Up(V, E) /\ Up(V, E) \subseteq V
         /\ \A w \in E : w[2] \in Up(V, E) => w[1] \in Up(V, E)
         /\ \A W \in SUBSET V :
              Outs(V) \subseteq W /\ (\A w \in E : w[2] \in W => w[1] \in W)
                => Up(V, E) \subseteq W
<1>1. Outs(V) \subseteq V
  BY DEF Outs, OfKind
<1> QED BY <1>1 DEF Up, Between, Abstract!Upstream, Abstract!ClosedUp

\* What is reached and is no input was reached from another node.
LEMMA DownHasSource ==
  ASSUME NEW V, NEW E, Between(V, E), NEW n \in Down(V, E), n \notin Ins(V)
  PROVE  \E w \in E : w[2] = n /\ w[1] \in Down(V, E) /\ w[1] # n
<1> SUFFICES ASSUME \A w \in E : w[2] = n /\ w[1] \in Down(V, E) => w[1] = n
             PROVE  FALSE
  OBVIOUS
<1> DEFINE W == Down(V, E) \ {n}
<1>1. W \in SUBSET V /\ Ins(V) \subseteq W
  BY DownFacts
<1>2. \A w \in E : w[1] \in W => w[2] \in W
  BY DownFacts
<1>3. Down(V, E) \subseteq W
  <2> HIDE DEF W
  <2> QED BY <1>1, <1>2, DownFacts
<1> QED BY <1>3

LEMMA UpHasLoad ==
  ASSUME NEW V, NEW E, Between(V, E), NEW n \in Up(V, E), n \notin Outs(V)
  PROVE  \E w \in E : w[1] = n /\ w[2] \in Up(V, E) /\ w[2] # n
<1> SUFFICES ASSUME \A w \in E : w[1] = n /\ w[2] \in Up(V, E) => w[2] = n
             PROVE  FALSE
  OBVIOUS
<1> DEFINE W == Up(V, E) \ {n}
<1>1. W \in SUBSET V /\ Outs(V) \subseteq W
  BY UpFacts
<1>2. \A w \in E : w[2] \in W => w[1] \in W
  BY UpFacts
<1>3. Up(V, E) \subseteq W
  <2> HIDE DEF W
  <2> QED BY <1>1, <1>2, UpFacts
<1> QED BY <1>3

\* Every node between inputs and outputs has a source and a load other than
\* itself between inputs and outputs.
LEMMA BetweenBoth ==
  ASSUME NEW V, NEW E, Between(V, E), NEW n \in Down(V, E) \cap Up(V, E)
  PROVE  /\ n \notin Ins(V) => \E w \in E :
              w[2] = n /\ w[1] # n /\ w[1] \in Down(V, E) \cap Up(V, E)
         /\ n \notin Outs(V) => \E w \in E :
              w[1] = n /\ w[2] # n /\ w[2] \in Down(V, E) \cap Up(V, E)
<1>1. ASSUME n \notin Ins(V)
      PROVE  \E w \in E : w[2] = n /\ w[1] # n /\ w[1] \in Down(V, E) \cap Up(V, E)
  <2>1. PICK w \in E : w[2] = n /\ w[1] \in Down(V, E) /\ w[1] # n
    BY <1>1, DownHasSource
  <2> QED BY <2>1, UpFacts
<1>2. ASSUME n \notin Outs(V)
      PROVE  \E w \in E : w[1] = n /\ w[2] # n /\ w[2] \in Down(V, E) \cap Up(V, E)
  <2>1. PICK w \in E : w[1] = n /\ w[2] \in Up(V, E) /\ w[2] # n
    BY <1>2, UpHasLoad
  <2> QED BY <2>1, DownFacts
<1> QED BY <1>1, <1>2

\* Taking away nodes that are not on the datapath does not change it.
LEMMA DatapathStays ==
  ASSUME NEW N, NEW D, Between(N, D), NEW V \in SUBSET N,
         Down(N, D) \cap Up(N, D) \subseteq V
  PROVE  LET E == {w \in D : w[1] \in V /\ w[2] \in V}
         IN  Down(V, E) \cap Up(V, E) = Down(N, D) \cap Up(N, D)
<1> DEFINE E == {w \in D : w[1] \in V /\ w[2] \in V}
<1>1. Between(V, E)
  BY DEF Between
<1>2. Ins(V) = Ins(N) \cap V /\ Outs(V) = Outs(N) \cap V
  BY DEF Ins, Outs, OfKind
<1>3. Down(V, E) \subseteq Down(N, D)
  <2> DEFINE W == Down(N, D) \cap V
  <2>1. W \in SUBSET V /\ Ins(V) \subseteq W
    BY <1>2, DownFacts
  <2>2. \A w \in E : w[1] \in W => w[2] \in W
    BY DownFacts
  <2>3. Down(V, E) \subseteq W
    <3> HIDE DEF W, E
    <3> QED BY <1>1, <2>1, <2>2, DownFacts
  <2> QED BY <2>3
<1>4. Up(V, E) \subseteq Up(N, D)
  <2> DEFINE W == Up(N, D) \cap V
  <2>1. W \in SUBSET V /\ Outs(V) \subseteq W
    BY <1>2, UpFacts
  <2>2. \A w \in E : w[2] \in W => w[1] \in W
    BY UpFacts
  <2>3. Up(V, E) \subseteq W
    <3> HIDE DEF W, E
    <3> QED BY <1>1, <2>1, <2>2, UpFacts
  <2> QED BY <2>3
<1>5. Down(N, D) \cap Up(N, D) \subseteq Down(V, E)
  <2> DEFINE W == {x \in Down(N, D) : x \in Down(V, E) \/ x \notin Up(N, D)}
  <2>1. W \in SUBSET N
    BY DownFacts
  <2>2. Ins(N) \subseteq W
    BY <1>1, <1>2, DownFacts
  <2>3. ASSUME NEW w \in D, w[1] \in W PROVE w[2] \in W
    <3>1. w[2] \in Down(N, D)
      BY <2>3, DownFacts
    <3>2. CASE w[2] \in Up(N, D)
      <4>1. w[1] \in Up(N, D)
        BY <3>2, UpFacts
      <4>2. w[1] \in Down(N, D) /\ w[1] \in Down(V, E)
        BY <2>3, <4>1
      <4>3. w \in E
        BY <3>1, <3>2, <4>1, <4>2
      <4>4. w[2] \in Down(V, E)
        <5> HIDE DEF E
        <5> QED BY <1>1, <4>2, <4>3, DownFacts
      <4> QED BY <3>1, <4>4
    <3> QED BY <3>1, <3>2
  <2>4. Down(N, D) \subseteq W
    <3> HIDE DEF W
    <3> QED BY <2>1, <2>2, <2>3, DownFacts
  <2> QED BY <2>4
<1>6. Down(N, D) \cap Up(N, D) \subseteq Up(V, E)
  <2> DEFINE W == {x \in Up(N, D) : x \in Up(V, E) \/ x \notin Down(N, D)}
  <2>1. W \in SUBSET N
    BY UpFacts
  <2>2. Outs(N) \subseteq W
    BY <1>1, <1>2, UpFacts
  <2>3. ASSUME NEW w \in D, w[2] \in W PROVE w[1] \in W
    <3>1. w[1] \in Up(N, D)
      BY <2>3, UpFacts
    <3>2. CASE w[1] \in Down(N, D)
      <4>1. w[2] \in Down(N, D)
        BY <3>2, DownFacts
      <4>2. w[2] \in Up(N, D) /\ w[2] \in Up(V, E)
        BY <2>3, <4>1
      <4>3. w \in E
        BY <3>1, <3>2, <4>1, <4>2
      <4>4. w[1] \in Up(V, E)
        <5> HIDE DEF E
        <5> QED BY <1>1, <4>2, <4>3, UpFacts
      <4> QED BY <3>1, <4>4
    <3> QED BY <3>1, <3>2
  <2>4. Up(N, D) \subseteq W
    <3> HIDE DEF W
    <3> QED BY <2>1, <2>2, <2>3, UpFacts
  <2> QED BY <2>4
<1> QED BY <1>3, <1>4, <1>5, <1>6

-----------------------------------------------------------------------------
(* The inductive invariant.                                                *)

\* The data wires of the design and its datapath.
D  == {w \in entry : w[3] \in DataTypes}
DP == Down(Node, D) \cap Up(Node, D)

ListNodes == {list[k].at : k \in DOMAIN list}

\* The graph is always the design without the control edges, cut down to
\* vertices among which the datapath still is; at the end it is no more.
GraphInv ==
    /\ nodes \subseteq Node /\ entry \subseteq Wires
    /\ pc \in {"cut", "clean", "types", "back", "fwd", "done"}
    /\ pc = "cut" => nodes = Node /\ Wired = entry /\ \A w \in Wired : type[w] = {w[3]}
    /\ pc # "cut" => DP \subseteq nodes
                   /\ Wired = {w \in D : w[1] \in nodes /\ w[2] \in nodes}
    /\ pc = "done" => nodes = DP

\* The searches: what has been found can be reached, what is one edge away
\* from it has been found or is on the list.
WalkInv ==
    /\ list \in Seq([at : Node, via : Seq(Wires)])
    /\ pc \in {"cut", "clean", "types"} => oconn = {} /\ iconn = {} /\ list = << >>
    /\ pc = "back" =>
         /\ iconn = {}
         /\ Outs(nodes) \subseteq oconn \cup ListNodes
         /\ oconn \cup ListNodes \subseteq Up(nodes, Wired)
         /\ \A w \in Wired : w[2] \in oconn => w[1] \in oconn \cup ListNodes
    /\ pc = "fwd" =>
         /\ oconn = Up(nodes, Wired)
         /\ Ins(nodes) \subseteq iconn \cup ListNodes
         /\ iconn \cup ListNodes \subseteq Down(nodes, Wired)
         /\ \A w \in Wired : w[1] \in iconn => w[2] \in iconn \cup ListNodes

-----------------------------------------------------------------------------
(* Lists.                                                                  *)

LEMMA OrderCovers ==
  ASSUME NEW S, IsFiniteSet(S), NEW s \in SetToSeqs(S)
  PROVE  s \in Seq(S) /\ \A x \in S : \E k \in DOMAIN s : s[k] = x
<1> DEFINE n == Cardinality(S)
<1>1. n \in Nat
  BY FS_CardinalityType
<1>2. s \in [1..n -> S] /\ \A i, j \in 1..n : i # j => s[i] # s[j]
  BY DEF SetToSeqs
<1>3. s \in Injection(1..n, S)
  <2> HIDE DEF n
  <2> QED BY <1>2 DEF Injection, IsInjective
<1>4. IsFiniteSet(1..n) /\ Cardinality(1..n) = n
  <2> HIDE DEF n
  <2> QED BY <1>1, FS_Interval
<1>5. s \in Surjection(1..n, S)
  BY <1>3, <1>4, FS_Injection
<1>6. \A x \in S : \E k \in 1..n : s[k] = x
  BY <1>5 DEF Surjection
<1>7. s \in Seq(S) /\ DOMAIN s = 1..n
  <2> HIDE DEF n
  <2> QED BY <1>1, <1>2
<1> QED BY <1>6, <1>7

\* A search starts with the ports on its list.
LEMMA StartsLists ==
  ASSUME DatapathAssumption, NEW kind, nodes' \subseteq Node, Starts(kind, list')
  PROVE  /\ list' \in Seq([at : Node, via : Seq(Wires)])
         /\ ListNodes' = OfKind(nodes', {kind})
<1> DEFINE S == OfKind(nodes', {kind})
<1>1. S \subseteq Node
  BY DEF OfKind
<1>2. IsFiniteSet(S)
  BY <1>1, FS_Subset DEF DatapathAssumption
<1>3. PICK s \in SetToSeqs(S) : list' = [k \in DOMAIN s |-> [at |-> s[k], via |-> << >>]]
  BY DEF Starts
<1>4. s \in Seq(S) /\ \A x \in S : \E k \in DOMAIN s : s[k] = x
  <2> HIDE DEF S
  <2> QED BY <1>2, OrderCovers
<1>5. \A k \in DOMAIN s : s[k] \in S
  BY <1>4
<1>6. list' \in Seq([at : Node, via : Seq(Wires)])
  <2>1. DOMAIN s = 1..Len(s) /\ Len(s) \in Nat
    BY <1>4
  <2>2. << >> \in Seq(Wires) /\ \A k \in 1..Len(s) : s[k] \in Node
    <3>1. << >> \in Seq(Wires)
      BY EmptySeq
    <3> HIDE DEF S
    <3> QED BY <1>1, <1>5, <2>1, <3>1
  <2> DEFINE L == [at : Node, via : Seq(Wires)]
  <2>3. \A k \in 1..Len(s) : [at |-> s[k], via |-> << >>] \in L
    BY <2>2
  <2> HIDE DEF L
  <2>4. list' \in [1..Len(s) -> L]
    BY <1>3, <2>1, <2>3
  <2>5. list' \in Seq(L)
    BY <2>1, <2>4
  <2> QED BY <2>5 DEF L
<1>7. ListNodes' = {s[k] : k \in DOMAIN s}
  BY <1>3 DEF ListNodes
<1> QED BY <1>4, <1>5, <1>6, <1>7

\* The elements of two sequences put together.
JoinOf(u, s, t) ==
    /\ \A k \in DOMAIN u : (\E j \in DOMAIN s : u[k] = s[j]) \/ (\E j \in DOMAIN t : u[k] = t[j])
    /\ \A j \in DOMAIN s : \E k \in DOMAIN u : u[k] = s[j]
    /\ \A j \in DOMAIN t : \E k \in DOMAIN u : u[k] = t[j]

LEMMA Joined ==
  ASSUME NEW L, NEW s \in Seq(L), NEW t \in Seq(L)
  PROVE  s \o t \in Seq(L) /\ JoinOf(s \o t, s, t)
<1> DEFINE u == s \o t
<1>1. u \in Seq(L) /\ Len(u) = Len(s) + Len(t)
      /\ \A k \in 1..Len(u) : u[k] = IF k <= Len(s) THEN s[k] ELSE t[k - Len(s)]
  BY ConcatProperties
<1> HIDE DEF u
<1>2. Len(s) \in Nat /\ Len(t) \in Nat /\ DOMAIN s = 1..Len(s) /\ DOMAIN t = 1..Len(t)
      /\ DOMAIN u = 1..Len(u)
  BY <1>1
<1>3. ASSUME NEW k \in DOMAIN u
      PROVE  (\E j \in DOMAIN s : u[k] = s[j]) \/ (\E j \in DOMAIN t : u[k] = t[j])
  <2>1. CASE k <= Len(s)
    <3>1. k \in DOMAIN s /\ u[k] = s[k]
      BY <1>1, <1>2, <2>1
    <3> QED BY <3>1
  <2>2. CASE ~(k <= Len(s))
    <3>1. k - Len(s) \in DOMAIN t /\ u[k] = t[k - Len(s)]
      BY <1>1, <1>2, <2>2
    <3> QED BY <3>1
  <2> QED BY <2>1, <2>2
<1>4. ASSUME NEW k \in DOMAIN s PROVE k \in DOMAIN u /\ u[k] = s[k]
  BY <1>1, <1>2
<1>5. ASSUME NEW k \in DOMAIN t PROVE Len(s) + k \in DOMAIN u /\ u[Len(s) + k] = t[k]
  <2>1. Len(s) + k \in 1..Len(u) /\ ~(Len(s) + k <= Len(s)) /\ (Len(s) + k) - Len(s) = k
    BY <1>1, <1>2
  <2> QED BY <1>1, <1>2, <2>1
<1>6. u \in Seq(L) /\ JoinOf(u, s, t)
  BY <1>1, <1>3, <1>4, <1>5 DEF JoinOf
<1> QED BY <1>6 DEF u

\* A sequence is its head and its tail.
LEMMA HeadAndTail ==
  ASSUME NEW L, NEW s \in Seq(L), s # << >>
  PROVE  /\ 1 \in DOMAIN s /\ Head(s) = s[1] /\ Head(s) \in L /\ Tail(s) \in Seq(L)
         /\ \A k \in DOMAIN Tail(s) : \E j \in DOMAIN s : Tail(s)[k] = s[j]
         /\ \A j \in DOMAIN s : s[j] = Head(s) \/ \E k \in DOMAIN Tail(s) : Tail(s)[k] = s[j]
<1>1. Len(s) \in Nat \ {0} /\ DOMAIN s = 1..Len(s)
  BY EmptySeq
<1>2. Head(s) = s[1] /\ 1 \in DOMAIN s /\ Head(s) \in L
  BY <1>1
<1>3. Tail(s) \in Seq(L) /\ Len(Tail(s)) = Len(s) - 1 /\ DOMAIN Tail(s) = 1..(Len(s) - 1)
  BY <1>1
<1>4. \A k \in 1..(Len(s) - 1) : Tail(s)[k] = s[k + 1]
  BY <1>1
<1>5. ASSUME NEW k \in DOMAIN Tail(s) PROVE k + 1 \in DOMAIN s /\ Tail(s)[k] = s[k + 1]
  BY <1>1, <1>3, <1>4
<1>6. ASSUME NEW j \in DOMAIN s, j # 1
      PROVE  j - 1 \in DOMAIN Tail(s) /\ Tail(s)[j - 1] = s[j]
  <2>1. j - 1 \in 1..(Len(s) - 1) /\ (j - 1) + 1 = j
    BY <1>1, <1>6
  <2> QED BY <1>3, <1>4, <2>1
<1> QED BY <1>2, <1>3, <1>5, <1>6

\* A turn of a search takes the head off the list and adds the far ends.
LEMMA PushLists ==
  ASSUME DatapathAssumption, list \in Seq([at : Node, via : Seq(Wires)]), list # << >>,
         NEW E \in SUBSET Wires, NEW far \in {1, 2}, Push(E, far)
  PROVE  /\ list' \in Seq([at : Node, via : Seq(Wires)])
         /\ Head(list).at \in ListNodes
         /\ ListNodes \subseteq ListNodes' \cup {Head(list).at}
         /\ ListNodes' \subseteq ListNodes \cup {w[far] : w \in E}
         /\ {w[far] : w \in E} \subseteq ListNodes'
<1> DEFINE L == [at : Node, via : Seq(Wires)]
<1>1. IsFiniteSet(E)
  BY FS_Subset DEF DatapathAssumption
<1>2. PICK s \in SetToSeqs(E) :
        list' = Tail(list) \o [k \in DOMAIN s |->
                  [at |-> s[k][far], via |-> Append(Head(list).via, s[k])]]
  BY DEF Push
<1>3. s \in Seq(E) /\ \A w \in E : \E k \in DOMAIN s : s[k] = w
  BY <1>1, OrderCovers
<1> DEFINE T == Tail(list)
           A == [k \in DOMAIN s |-> [at |-> s[k][far], via |-> Append(Head(list).via, s[k])]]
<1>4. /\ 1 \in DOMAIN list /\ Head(list) = list[1] /\ Head(list) \in L /\ T \in Seq(L)
      /\ \A k \in DOMAIN T : \E j \in DOMAIN list : T[k] = list[j]
      /\ \A j \in DOMAIN list : list[j] = Head(list) \/ \E k \in DOMAIN T : T[k] = list[j]
  <2> HIDE DEF L
  <2> QED BY HeadAndTail DEF L
<1>5. \A k \in DOMAIN s : s[k] \in E /\ s[k] \in Wires /\ s[k][far] \in Node
  BY <1>3 DEF DatapathAssumption
<1>6. A \in Seq(L) /\ DOMAIN A = DOMAIN s /\ \A k \in DOMAIN A : A[k].at = s[k][far]
  <2>1. DOMAIN s = 1..Len(s) /\ Len(s) \in Nat
    BY <1>3
  <2>2. \A k \in 1..Len(s) : A[k] \in L /\ A[k].at = s[k][far]
    <3> SUFFICES ASSUME NEW k \in 1..Len(s) PROVE A[k] \in L /\ A[k].at = s[k][far]
      OBVIOUS
    <3>1. Append(Head(list).via, s[k]) \in Seq(Wires)
      BY <1>4, <1>5, <2>1
    <3> QED BY <1>5, <2>1, <3>1
  <2>3. A \in [1..Len(s) -> L]
    BY <2>1, <2>2
  <2>4. A \in Seq(L)
    BY <2>1, <2>3
  <2> QED BY <2>1, <2>2, <2>4
<1> HIDE DEF A, T, L
<1>7. /\ list' \in Seq(L)
      /\ \A k \in DOMAIN list' :
           (\E j \in DOMAIN T : list'[k] = T[j]) \/ (\E j \in DOMAIN A : list'[k] = A[j])
      /\ \A j \in DOMAIN T : \E k \in DOMAIN list' : list'[k] = T[j]
      /\ \A j \in DOMAIN A : \E k \in DOMAIN list' : list'[k] = A[j]
  <2>1. list' = T \o A
    BY <1>2 DEF T, A
  <2>2. T \in Seq(L) /\ A \in Seq(L)
    BY <1>4, <1>6
  <2>3. T \o A \in Seq(L) /\ JoinOf(T \o A, T, A)
    BY <2>2, Joined
  <2>4. list' \in Seq(L) /\ JoinOf(list', T, A)
    BY <2>1, <2>3
  <2> QED BY <2>4 DEF JoinOf
<1>8. Head(list).at \in ListNodes
  BY <1>4 DEF ListNodes
<1>9. ASSUME NEW j \in DOMAIN list
      PROVE  list[j].at \in ListNodes' \cup {Head(list).at}
  <2>1. CASE list[j] = Head(list)
    BY <2>1
  <2>2. CASE \E k \in DOMAIN T : T[k] = list[j]
    <3>1. PICK k \in DOMAIN list' : list'[k] = list[j]
      BY <1>7, <2>2
    <3> QED BY <3>1 DEF ListNodes
  <2> QED BY <1>4, <2>1, <2>2
<1>10. ASSUME NEW k \in DOMAIN list'
       PROVE  list'[k].at \in ListNodes \cup {w[far] : w \in E}
  <2>1. CASE \E j \in DOMAIN T : list'[k] = T[j]
    BY <1>4, <2>1 DEF ListNodes
  <2>2. CASE \E j \in DOMAIN A : list'[k] = A[j]
    BY <1>5, <1>6, <2>2
  <2> QED BY <1>7, <2>1, <2>2
<1>11. ASSUME NEW w \in E PROVE w[far] \in ListNodes'
  <2>1. PICK j \in DOMAIN A : A[j].at = w[far]
    BY <1>3, <1>6
  <2>2. PICK k \in DOMAIN list' : list'[k] = A[j]
    BY <1>7
  <2> QED BY <2>1, <2>2 DEF ListNodes
<1>12. ListNodes \subseteq ListNodes' \cup {Head(list).at}
  BY <1>9 DEF ListNodes
<1>13. ListNodes' \subseteq ListNodes \cup {w[far] : w \in E}
  BY <1>10 DEF ListNodes
<1> QED BY <1>7, <1>8, <1>11, <1>12, <1>13 DEF L

-----------------------------------------------------------------------------
(* The graph.                                                              *)

LEMMA WiresFacts ==
  ASSUME DatapathAssumption, GraphInv
  PROVE  /\ D \subseteq Wires /\ Between(Node, D)
         /\ \A w \in Wires : /\ w = <<w[1], w[2], w[3]>>
                             /\ w[1] \in Node /\ w[2] \in Node /\ w[3] \in WireTypes
         /\ pc # "cut" => Wired \subseteq D /\ Between(nodes, Wired)
<1>1. \A w \in Wires : /\ w = <<w[1], w[2], w[3]>>
                       /\ w[1] \in Node /\ w[2] \in Node /\ w[3] \in WireTypes
  BY DEF DatapathAssumption
<1>2. D \subseteq Wires
  BY DEF GraphInv, D
<1> QED BY <1>1, <1>2 DEF Between, GraphInv

\* What lies on the datapath stays when the useless nodes are removed.
LEMMA UsefulKeeps ==
  ASSUME DatapathAssumption, GraphInv, pc = "cut"
  PROVE  DP \subseteq Useful(Arcs(D))
<1>1. DP \in SUBSET nodes
  BY WiresFacts, DownFacts DEF DP, GraphInv
<1>2. ASSUME NEW n \in DP
      PROVE  ~Useless(Kind[n], Within(Arcs(D), DP), n, FALSE)
  <2> DEFINE A == Within(Arcs(D), DP)
  <2>1. \A w \in D : w[1] \in DP /\ w[2] \in DP => <<w[1], w[2]>> \in A
    BY DEF Within, Arcs
  <2>2. n \in Node
    BY <1>1 DEF GraphInv
  <2>3. Kind[n] # "iport" => InOthers(A, n) # {} /\ InNodes(A, n) # {}
    <3> SUFFICES ASSUME Kind[n] # "iport"
                 PROVE  InOthers(A, n) # {} /\ InNodes(A, n) # {}
      OBVIOUS
    <3>1. n \notin Ins(Node)
      BY DEF Ins, OfKind
    <3>2. PICK w \in D : w[2] = n /\ w[1] # n /\ w[1] \in DP
      BY <3>1, WiresFacts, BetweenBoth DEF DP
    <3>3. <<w[1], n>> \in A
      BY <2>1, <3>2
    <3> HIDE DEF A
    <3>4. w[1] \in InNodes(A, n)
      BY <3>3 DEF InNodes
    <3> QED BY <3>2, <3>4 DEF InOthers
  <2>4. Kind[n] # "oport" => OutOthers(A, n) # {} /\ OutNodes(A, n) # {}
    <3> SUFFICES ASSUME Kind[n] # "oport"
                 PROVE  OutOthers(A, n) # {} /\ OutNodes(A, n) # {}
      OBVIOUS
    <3>1. n \notin Outs(Node)
      BY DEF Outs, OfKind
    <3>2. PICK w \in D : w[1] = n /\ w[2] # n /\ w[2] \in DP
      BY <3>1, WiresFacts, BetweenBoth DEF DP
    <3>3. <<n, w[2]>> \in A
      BY <2>1, <3>2
    <3> HIDE DEF A
    <3>4. w[2] \in OutNodes(A, n)
      BY <3>3 DEF OutNodes
    <3> QED BY <3>2, <3>4 DEF OutOthers
  <2> HIDE DEF A
  <2>5. ~Useless(Kind[n], A, n, FALSE)
    BY <2>3, <2>4 DEF Useless, UselessPort, UselessInner, NoLoad, NoSource, PortKinds
  <2> QED BY <2>5 DEF A
<1> QED BY <1>1, <1>2 DEF Useful

\* When a search has emptied its list it has found all there is.
LEMMA SearchEnds ==
  ASSUME DatapathAssumption, GraphInv, WalkInv, list = << >>
  PROVE  /\ pc = "back" => oconn = Up(nodes, Wired)
         /\ pc = "fwd" => oconn = Up(nodes, Wired) /\ iconn = Down(nodes, Wired)
<1>1. ListNodes = {}
  BY DEF ListNodes
<1>2. ASSUME pc = "back" PROVE oconn = Up(nodes, Wired)
  <2>1. Between(nodes, Wired)
    BY <1>2, WiresFacts
  <2>2. Outs(nodes) \subseteq oconn /\ oconn \subseteq Up(nodes, Wired)
        /\ \A w \in Wired : w[2] \in oconn => w[1] \in oconn
    BY <1>1, <1>2 DEF WalkInv
  <2> QED BY <2>1, <2>2, UpFacts
<1>3. ASSUME pc = "fwd" PROVE iconn = Down(nodes, Wired)
  <2>1. Between(nodes, Wired)
    BY <1>3, WiresFacts
  <2>2. Ins(nodes) \subseteq iconn /\ iconn \subseteq Down(nodes, Wired)
        /\ \A w \in Wired : w[1] \in iconn => w[2] \in iconn
    BY <1>1, <1>3 DEF WalkInv
  <2> QED BY <2>1, <2>2, DownFacts
<1> QED BY <1>2, <1>3 DEF WalkInv

\* What the two searches find together is the datapath of the design.
LEMMA FoundDatapath ==
  ASSUME DatapathAssumption, GraphInv, WalkInv, list = << >>, pc = "fwd"
  PROVE  nodes \cap Found = DP
<1>1. Between(Node, D) /\ nodes \in SUBSET Node /\ DP \subseteq nodes
  BY WiresFacts DEF GraphInv
<1>2. Wired = {w \in D : w[1] \in nodes /\ w[2] \in nodes} /\ Between(nodes, Wired)
  BY WiresFacts DEF GraphInv
<1>3. Down(nodes, Wired) \cap Up(nodes, Wired) = DP
  BY <1>1, <1>2, DatapathStays DEF DP
<1>4. Down(nodes, Wired) \subseteq nodes
  BY <1>2, DownFacts
<1> QED BY <1>3, <1>4, SearchEnds DEF Found

\* An action of edge_type_propagate changes types, never the edges.
LEMMA RetypeDomain ==
  \A ty, n : DOMAIN RetypeIn(ty, n) = DOMAIN ty /\ DOMAIN RetypeOut(ty, n) = DOMAIN ty
BY DEF RetypeIn, RetypeOut

LEMMA LookTypes ==
  ASSUME Look
  PROVE  \/ type' = type
         \/ \E n \in {Head(look)} : ~Stops(n) /\ type' = RetypeOut(RetypeIn(type, n), n)
<1>1. CASE LookCombi(Head(look))
  BY <1>1 DEF LookCombi, Requeue
<1>2. CASE LookReg(Head(look))
  BY <1>2 DEF LookReg
<1> QED BY <1>1, <1>2 DEF Look

LEMMA LookKeepsWires ==
  ASSUME Look
  PROVE  Wired' = Wired /\ nodes' = nodes /\ entry' = entry /\ pc' = pc /\ UNCHANGED lvars
<1>1. Wired' = Wired
  BY LookTypes, RetypeDomain DEF Wired
<1> QED BY <1>1 DEF Look

LEMMA GraphStep ==
  ASSUME DatapathAssumption, GraphInv, WalkInv, [Next]_vars
  PROVE  GraphInv'
<1>1. ASSUME RemoveControl PROVE GraphInv'
  <2>1. pc = "cut" /\ pc' = "clean" /\ entry' = entry
    BY <1>1 DEF RemoveControl
  <2>2. {w \in Wired : IsData(w)} = D
    <3>1. ASSUME NEW w \in Wired PROVE IsData(w) <=> w[3] \in DataTypes
      <4>1. type[w] = {w[3]} /\ w[3] \in WireTypes
        BY <2>1, WiresFacts DEF GraphInv
      <4>2. w[3] \in DataTypes => Control({w[3]}) = {} /\ CR({w[3]}) = {}
        BY DEF Control, CR, DataTypes, ControlTypes, CRTypes
      <4>3. w[3] \notin DataTypes => Control({w[3]}) # {} \/ CR({w[3]}) # {}
        BY <4>1 DEF Control, CR, WireTypes, DataTypes, ControlTypes, CRTypes
      <4> QED BY <4>1, <4>2, <4>3 DEF IsData
    <3> QED BY <2>1, <3>1 DEF D, GraphInv
  <2>3. nodes' = Useful(Arcs(D))
        /\ type' = [w \in {x \in D : x[1] \in nodes' /\ x[2] \in nodes'} |-> type[w]]
    <3> DEFINE S == {w \in Wired : IsData(w)}
    <3>1. \E cut \in {S} : \E keep \in {Useful(Arcs(cut))} :
             /\ nodes' = keep
             /\ type' = [w \in {x \in cut : x[1] \in keep /\ x[2] \in keep} |-> type[w]]
      BY <1>1 DEF RemoveControl
    <3>2. S = D
      BY <2>2
    <3> HIDE DEF S
    <3> QED BY <3>1, <3>2
  <2>4. D' = D /\ DP' = DP
    BY <2>1 DEF D, DP
  <2>5. nodes' \subseteq Node
    BY <2>3 DEF Useful, GraphInv
  <2> QED BY <2>1, <2>3, <2>4, <2>5, UsefulKeeps DEF GraphInv, Wired
<1>2. ASSUME Prune PROVE GraphInv'
  <2>1. pc = "fwd" /\ pc' \in {"back", "done"} /\ entry' = entry /\ list = << >>
    BY <1>2 DEF Prune
  <2>2. D' = D /\ DP' = DP
    BY <2>1 DEF D, DP
  <2>3. nodes' = DP
    BY <1>2, <2>1, FoundDatapath DEF Prune
  <2>4. Wired = {w \in D : w[1] \in nodes /\ w[2] \in nodes} /\ DP \subseteq nodes
    BY <2>1 DEF GraphInv
  <2>5. Wired' = {w \in Wired : w[1] \in nodes' /\ w[2] \in nodes'}
    BY <1>2 DEF Prune, Wired
  <2>6. Wired' = {w \in D : w[1] \in nodes' /\ w[2] \in nodes'}
    BY <2>3, <2>4, <2>5
  <2>7. nodes' \subseteq Node /\ entry' \subseteq Wires
    BY <2>1, <2>3, <2>4 DEF GraphInv
  <2> QED BY <2>1, <2>2, <2>3, <2>6, <2>7 DEF GraphInv
<1>3. ASSUME Wired' = Wired, nodes' = nodes, entry' = entry,
             pc # "cut", pc # "done", pc' \in {"clean", "types", "back", "fwd"}
      PROVE  GraphInv'
  <2>1. D' = D /\ DP' = DP
    BY <1>3 DEF D, DP
  <2> QED BY <1>3, <2>1 DEF GraphInv
<1>4. CASE Look
  BY <1>3, <1>4, LookKeepsWires DEF Look
<1>5. CASE StartTypes \/ StartBack \/ WalkBack \/ StartForward \/ WalkForward
  <2>1. type' = type /\ nodes' = nodes /\ entry' = entry
        /\ pc # "cut" /\ pc # "done" /\ pc' \in {"clean", "types", "back", "fwd"}
    BY <1>5 DEF StartTypes, StartBack, WalkBack, StartForward, WalkForward
  <2> QED BY <1>3, <2>1 DEF Wired
<1>6. CASE UNCHANGED vars
  <2>1. type' = type /\ nodes' = nodes /\ entry' = entry /\ pc' = pc
    BY <1>6 DEF vars
  <2>2. D' = D /\ DP' = DP /\ Wired' = Wired
    BY <2>1 DEF D, DP, Wired
  <2> QED BY <2>1, <2>2 DEF GraphInv
<1> QED BY <1>1, <1>2, <1>4, <1>5, <1>6 DEF Next

LEMMA WalkStep ==
  ASSUME DatapathAssumption, GraphInv, WalkInv, [Next]_vars
  PROVE  WalkInv'
<1> DEFINE L == [at : Node, via : Seq(Wires)]
<1>1. GraphInv'
  BY GraphStep
<1>2. ASSUME NEW kind, Starts(kind, list')
      PROVE  list' \in Seq(L) /\ ListNodes' = OfKind(nodes', {kind})
  BY <1>1, <1>2, StartsLists DEF GraphInv
<1>3. ASSUME pc' = "back", Starts("oport", list'), oconn' = {}, iconn' = {}
      PROVE  WalkInv'
  <2>1. ListNodes' = Outs(nodes') /\ list' \in Seq(L)
    BY <1>2, <1>3 DEF Outs
  <2>2. Between(nodes', Wired')
    BY <1>1, <1>3 DEF GraphInv, Between
  <2>3. Outs(nodes') \subseteq Up(nodes', Wired')
    BY <2>2, UpFacts
  <2> QED BY <1>3, <2>1, <2>3 DEF WalkInv
<1>4. CASE RemoveControl
  BY <1>4 DEF RemoveControl, lvars, WalkInv
<1>5. CASE StartTypes
  BY <1>5 DEF StartTypes, lvars, WalkInv
<1>6. CASE Look
  <2>1. pc = "types" /\ pc' = "types" /\ UNCHANGED lvars
    BY <1>6, LookKeepsWires DEF Look
  <2> QED BY <2>1 DEF lvars, WalkInv
<1>7. CASE StartBack
  BY <1>3, <1>7 DEF StartBack, WalkInv
<1>8. CASE WalkBack
  <2> DEFINE n == Head(list).at
             E == NewEdges({w \in Wired : w[2] = n}, 1, oconn')
  <2>1. pc = "back" /\ pc' = "back" /\ list # << >> /\ iconn' = iconn /\ nodes' = nodes
        /\ type' = type /\ oconn' = oconn \cup {n} /\ Push(E, 1)
    BY <1>8 DEF WalkBack
  <2>2. Wired' = Wired
    BY <2>1 DEF Wired
  <2>3. Between(nodes, Wired) /\ Wired \in SUBSET Wires
    BY <2>1, WiresFacts
  <2>4. E \in SUBSET Wires /\ \A w \in Wired : w \in E <=> w[2] = n /\ w[1] \notin oconn'
    BY <2>3 DEF NewEdges
  <2>5. \A w \in E : w \in Wired /\ w[2] = n
    BY DEF NewEdges
  <2> HIDE DEF E
  <2>6. /\ list' \in Seq(L) /\ n \in ListNodes
        /\ ListNodes \subseteq ListNodes' \cup {n}
        /\ ListNodes' \subseteq ListNodes \cup {w[1] : w \in E}
        /\ {w[1] : w \in E} \subseteq ListNodes'
    BY <2>1, <2>4, PushLists DEF WalkInv
  <2>7. /\ iconn = {}
        /\ Outs(nodes) \subseteq oconn \cup ListNodes
        /\ oconn \cup ListNodes \subseteq Up(nodes, Wired)
        /\ \A w \in Wired : w[2] \in oconn => w[1] \in oconn \cup ListNodes
    BY <2>1 DEF WalkInv
  <2>8. \A w \in Wired : w[2] \in Up(nodes, Wired) => w[1] \in Up(nodes, Wired)
    BY <2>3, UpFacts
  <2> HIDE DEF n
  <2>9. oconn' \cup ListNodes' \subseteq Up(nodes, Wired)
    BY <2>1, <2>5, <2>6, <2>7, <2>8
  <2>10. Outs(nodes) \subseteq oconn' \cup ListNodes'
    BY <2>1, <2>6, <2>7
  <2>11. \A w \in Wired : w[2] \in oconn' => w[1] \in oconn' \cup ListNodes'
    BY <2>1, <2>4, <2>6, <2>7
  <2>12. /\ Outs(nodes') \subseteq oconn' \cup ListNodes'
         /\ oconn' \cup ListNodes' \subseteq Up(nodes', Wired')
         /\ \A w \in Wired' : w[2] \in oconn' => w[1] \in oconn' \cup ListNodes'
    BY <2>1, <2>2, <2>9, <2>10, <2>11
  <2> QED BY <2>1, <2>6, <2>7, <2>12 DEF WalkInv
<1>9. CASE StartForward
  <2>1. pc = "back" /\ pc' = "fwd" /\ list = << >> /\ oconn' = oconn /\ iconn' = iconn
        /\ nodes' = nodes /\ type' = type /\ Starts("iport", list')
    BY <1>9 DEF StartForward, lvars
  <2>2. Wired' = Wired
    BY <2>1 DEF Wired
  <2>3. oconn = Up(nodes, Wired) /\ iconn = {}
    BY <2>1, SearchEnds DEF WalkInv
  <2>4. ListNodes' = Ins(nodes) /\ list' \in Seq(L)
    BY <1>2, <2>1 DEF Ins
  <2>5. Between(nodes, Wired)
    BY <2>1, WiresFacts
  <2>6. Ins(nodes) \subseteq Down(nodes, Wired)
    BY <2>5, DownFacts
  <2>7. /\ oconn' = Up(nodes', Wired')
        /\ ListNodes' = Ins(nodes')
        /\ ListNodes' \subseteq Down(nodes', Wired')
    BY <2>1, <2>2, <2>3, <2>4, <2>6
  <2> QED BY <2>1, <2>3, <2>4, <2>7 DEF WalkInv
<1>10. CASE WalkForward
  <2> DEFINE n == Head(list).at
             E == NewEdges({w \in Wired : w[1] = n}, 2, iconn')
  <2>1. pc = "fwd" /\ pc' = "fwd" /\ list # << >> /\ oconn' = oconn /\ nodes' = nodes
        /\ type' = type /\ iconn' = iconn \cup {n} /\ Push(E, 2)
    BY <1>10 DEF WalkForward
  <2>2. Wired' = Wired
    BY <2>1 DEF Wired
  <2>3. Between(nodes, Wired) /\ Wired \in SUBSET Wires
    BY <2>1, WiresFacts
  <2>4. E \in SUBSET Wires /\ \A w \in Wired : w \in E <=> w[1] = n /\ w[2] \notin iconn'
    BY <2>3 DEF NewEdges
  <2>5. \A w \in E : w \in Wired /\ w[1] = n
    BY DEF NewEdges
  <2> HIDE DEF E
  <2>6. /\ list' \in Seq(L) /\ n \in ListNodes
        /\ ListNodes \subseteq ListNodes' \cup {n}
        /\ ListNodes' \subseteq ListNodes \cup {w[2] : w \in E}
        /\ {w[2] : w \in E} \subseteq ListNodes'
    BY <2>1, <2>4, PushLists DEF WalkInv
  <2>7. /\ oconn = Up(nodes, Wired)
        /\ Ins(nodes) \subseteq iconn \cup ListNodes
        /\ iconn \cup ListNodes \subseteq Down(nodes, Wired)
        /\ \A w \in Wired : w[1] \in iconn => w[2] \in iconn \cup ListNodes
    BY <2>1 DEF WalkInv
  <2>8. \A w \in Wired : w[1] \in Down(nodes, Wired) => w[2] \in Down(nodes, Wired)
    BY <2>3, DownFacts
  <2> HIDE DEF n
  <2>9. iconn' \cup ListNodes' \subseteq Down(nodes, Wired)
    BY <2>1, <2>5, <2>6, <2>7, <2>8
  <2>10. Ins(nodes) \subseteq iconn' \cup ListNodes'
    BY <2>1, <2>6, <2>7
  <2>11. \A w \in Wired : w[1] \in iconn' => w[2] \in iconn' \cup ListNodes'
    BY <2>1, <2>4, <2>6, <2>7
  <2>12. /\ oconn' = Up(nodes', Wired')
         /\ Ins(nodes') \subseteq iconn' \cup ListNodes'
         /\ iconn' \cup ListNodes' \subseteq Down(nodes', Wired')
         /\ \A w \in Wired' : w[1] \in iconn' => w[2] \in iconn' \cup ListNodes'
    BY <2>1, <2>2, <2>7, <2>9, <2>10, <2>11
  <2> QED BY <2>1, <2>6, <2>12 DEF WalkInv
<1>11. CASE Prune
  <2>1. CASE pass = 1
    BY <1>3, <1>11, <2>1 DEF Prune
  <2>2. CASE pass # 1
    <3>1. pc' = "done" /\ list' = list
      BY <1>11, <2>2 DEF Prune, lvars
    <3> QED BY <3>1 DEF WalkInv
  <2> QED BY <2>1, <2>2
<1>12. CASE UNCHANGED vars
  <2>1. nodes' = nodes /\ type' = type /\ pc' = pc /\ UNCHANGED lvars
    BY <1>12 DEF vars, lvars
  <2>2. Wired' = Wired /\ list' = list /\ oconn' = oconn /\ iconn' = iconn
    BY <2>1 DEF Wired, lvars
  <2>3. ListNodes' = ListNodes
    BY <2>2 DEF ListNodes
  <2> QED BY <2>1, <2>2, <2>3 DEF WalkInv
<1> QED BY <1>4, <1>5, <1>6, <1>7, <1>8, <1>9, <1>10, <1>11, <1>12 DEF Next

-----------------------------------------------------------------------------
(* The datapath keeps its types.                                           *)

\* DataKept, of the types ty.
Kept(ty) ==
    \A w \in DOMAIN ty : ty[w] # {w[3]} =>
      \A W \in SUBSET nodes : w[1] \in W /\ w[2] \in W => ~Carries(W)

LEMMA KeptIsDataKept == DataKept <=> Kept(type)
BY DEF DataKept, Kept, Wired

\* Retyping at a node keeps the types of what carries data: there the node
\* has a load whose edge is data, and a source whose edge is data.
LEMMA RetypeInKept ==
  ASSUME DatapathAssumption, GraphInv, pc # "cut", Kept(type), NEW n, ~Stops(n)
  PROVE  Kept(RetypeIn(type, n))
<1> DEFINE ty == RetypeIn(type, n)
<1> SUFFICES ASSUME NEW w \in Wired, ty[w] # {w[3]},
                    NEW W \in SUBSET nodes, w[1] \in W, w[2] \in W, Carries(W)
             PROVE  FALSE
  BY RetypeDomain DEF Kept, Wired
<1>1. ASSUME NEW v \in Wired, v[1] \in W, v[2] \in W
      PROVE  type[v] = {v[3]} /\ v[3] \in DataTypes
  BY <1>1, WiresFacts DEF Kept, Wired, D
<1>2. ty[w] # type[w]
  BY <1>1
<1>3. w \in TurnIn(type, n)
  BY <1>2 DEF RetypeIn, Wired
<1>4. w[2] = n /\ OutType(type, n) \subseteq ControlTypes
  BY <1>3 DEF TurnIn
<1>5. PICK v \in Wired : v[1] = n /\ v[2] \in W
  BY <1>4 DEF Carries, Stops
<1>6. type[v] \subseteq OutType(type, n)
  BY <1>5 DEF OutType, Wired
<1>7. v[3] \in ControlTypes /\ v[3] \in DataTypes
  BY <1>1, <1>4, <1>5, <1>6
<1> QED BY <1>7 DEF ControlTypes, DataTypes

LEMMA RetypeOutKept ==
  ASSUME DatapathAssumption, GraphInv, pc # "cut", NEW n, ~Stops(n),
         NEW ty, DOMAIN ty = Wired, Kept(ty)
  PROVE  Kept(RetypeOut(ty, n))
<1> DEFINE tz == RetypeOut(ty, n)
<1> SUFFICES ASSUME NEW w \in Wired, tz[w] # {w[3]},
                    NEW W \in SUBSET nodes, w[1] \in W, w[2] \in W, Carries(W)
             PROVE  FALSE
  BY RetypeDomain DEF Kept
<1>1. ASSUME NEW v \in Wired, v[1] \in W, v[2] \in W
      PROVE  ty[v] = {v[3]} /\ v[3] \in DataTypes
  BY <1>1, WiresFacts DEF Kept, D
<1>2. tz[w] # ty[w]
  BY <1>1
<1>3. w \in TurnOut(ty, n)
  BY <1>2 DEF RetypeOut
<1>4. w[1] = n /\ InType(ty, n) \subseteq ControlTypes
  BY <1>3 DEF TurnOut
<1>5. PICK v \in Wired : v[2] = n /\ v[1] \in W
  BY <1>4 DEF Carries, Stops
<1>6. ty[v] \subseteq InType(ty, n)
  BY <1>5 DEF InType
<1>7. v[3] \in ControlTypes /\ v[3] \in DataTypes
  BY <1>1, <1>4, <1>5, <1>6
<1> QED BY <1>7 DEF ControlTypes, DataTypes

LEMMA KeptStep ==
  ASSUME DatapathAssumption, GraphInv, WalkInv, DataKept, [Next]_vars
  PROVE  DataKept'
<1>1. CASE RemoveControl
  <2>1. pc = "cut"
    BY <1>1 DEF RemoveControl
  <2>2. \A w \in Wired' : w \in Wired /\ type'[w] = type[w]
    BY <1>1 DEF RemoveControl, Wired
  <2>3. \A w \in Wired' : type'[w] = {w[3]}
    BY <2>1, <2>2 DEF GraphInv
  <2> QED BY <2>3 DEF DataKept
<1>2. CASE Look
  <2>1. Wired' = Wired /\ nodes' = nodes /\ pc # "cut"
    BY <1>2, LookKeepsWires DEF Look
  <2>2. CASE type' = type
    BY <2>1, <2>2 DEF DataKept, Carries
  <2>3. CASE type' # type
    <3>1. PICK n : ~Stops(n) /\ type' = RetypeOut(RetypeIn(type, n), n)
      BY <1>2, <2>3, LookTypes
    <3>2. Kept(RetypeIn(type, n)) /\ DOMAIN RetypeIn(type, n) = Wired
      BY <2>1, <3>1, KeptIsDataKept, RetypeInKept, RetypeDomain DEF Wired
    <3>3. Kept(type')
      <4> DEFINE ty == RetypeIn(type, n)
      <4> HIDE DEF ty
      <4>1. Kept(RetypeOut(ty, n))
        BY <2>1, <3>1, <3>2, RetypeOutKept DEF ty
      <4> QED BY <3>1, <4>1 DEF ty
    <3>4. \A w \in Wired : type'[w] # {w[3]} =>
            \A W \in SUBSET nodes : w[1] \in W /\ w[2] \in W => ~Carries(W)
      BY <2>1, <3>3 DEF Kept, Wired
    <3> QED BY <2>1, <3>4 DEF DataKept, Carries
  <2> QED BY <2>2, <2>3
<1>3. CASE Prune
  <2>1. nodes' \subseteq nodes /\ Wired' \subseteq Wired /\ \A w \in Wired' : type'[w] = type[w]
    BY <1>3 DEF Prune, Wired
  <2>2. \A W : Carries(W)' => Carries(W)
    BY <2>1 DEF Carries
  <2> QED BY <2>1, <2>2 DEF DataKept
<1>4. CASE StartTypes \/ StartBack \/ WalkBack \/ StartForward \/ WalkForward \/ UNCHANGED vars
  <2>1. type' = type /\ nodes' = nodes
    BY <1>4 DEF StartTypes, StartBack, WalkBack, StartForward, WalkForward, vars
  <2> QED BY <2>1 DEF DataKept, Carries, Wired
<1> QED BY <1>1, <1>2, <1>3, <1>4 DEF Next

IInv == GraphInv /\ WalkInv /\ DataKept

LEMMA Inductive ==
  Spec => []IInv
<1>1. Init => IInv
  <2> SUFFICES ASSUME Init PROVE IInv
    OBVIOUS
  <2>1. nodes = Node /\ entry \subseteq Wires /\ pc = "cut"
        /\ Wired = entry /\ \A w \in Wired : type[w] = {w[3]}
    BY DEF Init, Wired
  <2>2. list = << >> /\ oconn = {} /\ iconn = {}
    BY DEF Init
  <2>3. list \in Seq([at : Node, via : Seq(Wires)])
    BY <2>2, EmptySeq
  <2> QED BY <2>1, <2>2, <2>3 DEF IInv, GraphInv, WalkInv, DataKept
<1>2. IInv /\ [Next]_vars => IInv'
  BY DatapathAssumption, GraphStep, WalkStep, KeptStep DEF IInv
<1> QED BY <1>1, <1>2, PTL DEF Spec

\* Type propagation retypes no edge that is part of what carries data from
\* inputs to outputs (edge_type_propagate after remove_control_nodes).
THEOREM DataKeptHolds ==
  Spec => []DataKept
<1>1. IInv => DataKept
  BY DEF IInv
<1> QED BY <1>1, Inductive, PTL

-----------------------------------------------------------------------------
(* The result is the datapath of the design.                               *)

\* The datapath carries data.
LEMMA DatapathCarries ==
  ASSUME DatapathAssumption, GraphInv, pc # "cut"
  PROVE  DP \subseteq nodes /\ Carries(DP)
<1>1. DP \subseteq nodes /\ Wired = {w \in D : w[1] \in nodes /\ w[2] \in nodes}
  BY DEF GraphInv
<1>2. ASSUME NEW n \in DP, Kind[n] # "iport"
      PROVE  \E w \in Wired : w[2] = n /\ w[1] \in DP
  <2>1. n \notin Ins(Node)
    BY <1>2 DEF Ins, OfKind
  <2>2. PICK w \in D : w[2] = n /\ w[1] \in DP
    BY <1>2, <2>1, WiresFacts, BetweenBoth DEF DP
  <2> QED BY <1>1, <2>2
<1>3. ASSUME NEW n \in DP, Kind[n] # "oport"
      PROVE  \E w \in Wired : w[1] = n /\ w[2] \in DP
  <2>1. n \notin Outs(Node)
    BY <1>3 DEF Outs, OfKind
  <2>2. PICK w \in D : w[1] = n /\ w[2] \in DP
    BY <1>3, <2>1, WiresFacts, BetweenBoth DEF DP
  <2> QED BY <1>1, <2>2
<1> QED BY <1>1, <1>2, <1>3 DEF Carries

\* When the two searches are over for the second time, the graph becomes what
\* the abstract step leaves.
LEMMA PruneExtracts ==
  ASSUME DatapathAssumption, IInv, Prune, pass # 1
  PROVE  /\ pc # "done" /\ pc' = "done" /\ nodes' = DP
         /\ UNION {{w[1]} \X {w[2]} \X type'[w] : w \in Wired'}
              = {w \in D : w[1] \in nodes' /\ w[2] \in nodes'}
<1>1. pc = "fwd" /\ pc' = "done" /\ list = << >>
  BY DEF Prune
<1>2. nodes' = DP
  BY <1>1, FoundDatapath DEF IInv, Prune
<1>3. /\ Wired' = {w \in Wired : w[1] \in DP /\ w[2] \in DP}
      /\ \A w \in Wired' : type'[w] = type[w]
  BY <1>2 DEF Prune, Wired
<1>4. Wired' = {w \in D : w[1] \in DP /\ w[2] \in DP}
  BY <1>1, <1>3 DEF IInv, GraphInv
<1>5. ASSUME NEW w \in Wired' PROVE {w[1]} \X {w[2]} \X type'[w] = {w}
  <2>1. type[w] = {w[3]}
    BY <1>1, <1>3, DatapathCarries DEF IInv, DataKept
  <2>2. w = <<w[1], w[2], w[3]>>
    BY <1>4, WiresFacts DEF IInv
  <2>3. type'[w] = {w[3]}
    BY <1>3, <2>1
  <2>4. \A x \in {w[1]} \X {w[2]} \X {w[3]} : x = <<w[1], w[2], w[3]>>
    OBVIOUS
  <2>5. <<w[1], w[2], w[3]>> \in {w[1]} \X {w[2]} \X {w[3]}
    OBVIOUS
  <2>6. {w[1]} \X {w[2]} \X {w[3]} = {<<w[1], w[2], w[3]>>}
    BY <2>4, <2>5
  <2> QED BY <2>2, <2>3, <2>6
<1>6. {{w[1]} \X {w[2]} \X type'[w] : w \in Wired'} = {{w} : w \in Wired'}
  BY <1>5
<1>7. UNION {{w[1]} \X {w[2]} \X type'[w] : w \in Wired'} = Wired'
  BY <1>6
<1> QED BY <1>1, <1>2, <1>4, <1>7

\* Extraction takes the design to its datapath in one step of the abstract
\* specification, whatever the order of the worklists (extract_datapath_new).
THEOREM RefinesDatapathSpec ==
  Spec => ImplementsSafely
<1>1. Init => Abstract!Init
  <2> SUFFICES ASSUME Init PROVE Abstract!Init
    OBVIOUS
  <2>1. entry \subseteq Wires /\ pc = "cut"
    BY DEF Init
  <2>2. Wires \subseteq Node \X Node \X WireTypes
    BY DatapathAssumption DEF DatapathAssumption
  <2>3. WireTypes = Abstract!DataTypes \cup Abstract!ControlTypes \cup Abstract!CRTypes
    BY DEF WireTypes, DataTypes, ControlTypes, CRTypes,
           Abstract!DataTypes, Abstract!ControlTypes, Abstract!CRTypes
  <2>4. (pc = "done") = FALSE
    BY <2>1
  <2> QED BY <2>1, <2>2, <2>3, <2>4 DEF Abstract!Init
<1>2. ASSUME IInv, [Next]_vars PROVE [Abstract!Extract]_(Abstract!vars)
  <2>1. CASE Prune /\ pass # 1
    <3>1. /\ pc # "done" /\ pc' = "done" /\ nodes' = DP
          /\ UNION {{w[1]} \X {w[2]} \X type'[w] : w \in Wired'}
               = {w \in D : w[1] \in nodes' /\ w[2] \in nodes'}
      BY <1>2, <2>1, DatapathAssumption, PruneExtracts
    <3>2. Abstract!DataWires = D
      BY <3>1 DEF Abstract!DataWires, D, Abstract!DataTypes, DataTypes
    <3>3. Abstract!DatapathOf(Node, D) = DP
      <4>1. Abstract!OfKind(Node, "iport") = Ins(Node) /\ Abstract!OfKind(Node, "oport") = Outs(Node)
        BY DEF Abstract!OfKind, Ins, Outs, OfKind
      <4> QED BY <4>1 DEF Abstract!DatapathOf, DP, Down, Up
    <3> QED BY <3>1, <3>2, <3>3 DEF Abstract!Extract
  <2>2. CASE ~(Prune /\ pass # 1)
    <3>1. (entry' = entry /\ pc # "done" /\ pc' # "done") \/ UNCHANGED vars
      <4>1. CASE RemoveControl \/ StartTypes \/ Look \/ StartBack \/ WalkBack
                   \/ StartForward \/ WalkForward
        BY <4>1 DEF RemoveControl, StartTypes, Look, StartBack, WalkBack, StartForward,
                    WalkForward
      <4>2. CASE Prune
        BY <2>2, <4>2 DEF Prune
      <4> QED BY <1>2, <4>1, <4>2 DEF Next
    <3>2. CASE UNCHANGED vars
      BY <3>2 DEF vars, Abstract!vars, Wired
    <3>3. CASE entry' = entry /\ pc # "done" /\ pc' # "done"
      BY <3>3 DEF Abstract!vars
    <3> QED BY <3>1, <3>2, <3>3
  <2> QED BY <2>1, <2>2
<1> QED BY <1>1, <1>2, Inductive, PTL DEF Spec, ImplementsSafely
-----------------------------------------------------------------------------
(* Type propagation ends at a fixpoint.                                    *)

\* Nothing is left to propagate at the node n.
SettledAt(ty, n) == TurnIn(ty, n) = {} /\ TurnOut(ty, n) = {}

\* A node that has been looked at and has work left is on the list: the list
\* and its set are updated side by side.  Types are data and control once the
\* control edges and with them clocks and resets are cut.
LookInv ==
    /\ look \in Seq(Node) /\ inlook \subseteq ToSet(look)
    /\ pass \in {1, 2} /\ (pc \in {"cut", "clean"} => seen = {})
    /\ pc # "cut" => \A w \in Wired : CR(type[w]) = {}
    /\ pass = 1 => \A n \in seen : ~IsReg(n) /\ ~Stops(n) /\ n \notin inlook => SettledAt(type, n)

\* What an edge takes from the other side is control, and so is the edge then.
LEMMA TurnedIsControl ==
  ASSUME NEW t, NEW u, Data(t) # {}, CR(t) = {}
  PROVE  /\ Data(CalType(t, EType(u))) = {} /\ CR(CalType(t, EType(u))) = {}
         /\ Data(CalType(EType(u), t)) = {} /\ CR(CalType(EType(u), t)) = {}
<1> DEFINE c == EType(u)
<1>1. c # {} /\ Data(c) = {} /\ CR(c) = {} /\ c \subseteq ControlTypes
  BY DEF EType, Data, CR, DataTypes, CRTypes, ControlTypes
<1> HIDE DEF c
<1>2. t # {} /\ c # t
  BY <1>1 DEF Data
<1>3. CalType(t, c) = Control(t) \cup Control(c)
  BY <1>1, <1>2 DEF CalType, CalTypeData, CalTypeData2Control, Control
<1>4. CalType(c, t) = c
  BY <1>1, <1>2 DEF CalType, CalTypeData, CalTypeData2Control, Control
<1>5. \A s : Data(Control(s)) = {} /\ CR(Control(s)) = {}
  BY DEF Data, CR, Control, DataTypes, CRTypes, ControlTypes
<1>6. Data(CalType(t, c)) = {} /\ CR(CalType(t, c)) = {}
  BY <1>3, <1>5 DEF Data, CR
<1> QED BY <1>1, <1>4, <1>6 DEF c

\* What can turn at a node depends on the edges at it.
LEMMA TurnLocal ==
  ASSUME NEW ty, NEW tz, DOMAIN tz = DOMAIN ty, NEW m,
         \A w \in DOMAIN ty : w[1] = m \/ w[2] = m => tz[w] = ty[w]
  PROVE  TurnIn(tz, m) = TurnIn(ty, m) /\ TurnOut(tz, m) = TurnOut(ty, m)
<1>1. OutType(tz, m) = OutType(ty, m) /\ InType(tz, m) = InType(ty, m)
  BY DEF OutType, InType
<1> QED BY <1>1 DEF TurnIn, TurnOut

\* Types without clock and reset.
Clockless(ty) == \A w \in DOMAIN ty : CR(ty[w]) = {}

\* Retyping what enters a node touches only that, and leaves nothing to
\* retype there.
LEMMA RetypeInAt ==
  ASSUME NEW ty, NEW n, Clockless(ty)
  PROVE  LET tz == RetypeIn(ty, n)
         IN  /\ DOMAIN tz = DOMAIN ty /\ Clockless(tz)
             /\ \A w \in DOMAIN ty : tz[w] # ty[w] => w[2] = n /\ w[1] # n
             /\ TurnIn(tz, n) = {}
<1> DEFINE tz == RetypeIn(ty, n)
<1>1. DOMAIN tz = DOMAIN ty
  BY RetypeDomain
<1>2. ASSUME NEW w \in TurnIn(ty, n)
      PROVE  /\ w \in DOMAIN ty /\ Data(tz[w]) = {} /\ CR(tz[w]) = {} /\ w[2] = n /\ w[1] # n
  <2>1. w \in DOMAIN ty /\ Data(ty[w]) # {} /\ w[2] = n /\ w[1] # n
    BY <1>2 DEF TurnIn
  <2>2. tz[w] = CalType(ty[w], EType(OutType(ty, n)))
    BY <2>1 DEF RetypeIn
  <2> QED BY <2>1, <2>2, TurnedIsControl DEF Clockless
<1>3. \A w \in DOMAIN ty : w \notin TurnIn(ty, n) => tz[w] = ty[w]
  BY DEF RetypeIn
<1> HIDE DEF tz
<1>4. Clockless(tz)
  BY <1>1, <1>2, <1>3 DEF Clockless
<1>5. \A w \in DOMAIN ty : w[1] = n => tz[w] = ty[w]
  BY <1>2, <1>3
<1>6. OutType(tz, n) = OutType(ty, n)
  BY <1>1, <1>5 DEF OutType
<1>7. ASSUME NEW w \in TurnIn(tz, n) PROVE FALSE
  <2>1. /\ w \in DOMAIN ty /\ w[2] = n /\ w[1] # n /\ Data(tz[w]) # {}
        /\ OutType(ty, n) \subseteq ControlTypes
    BY <1>1, <1>6, <1>7 DEF TurnIn
  <2>2. w \notin TurnIn(ty, n)
    BY <1>2, <2>1
  <2>3. Data(ty[w]) # {}
    BY <1>3, <2>1, <2>2
  <2> QED BY <2>1, <2>2, <2>3 DEF TurnIn
<1>8. TurnIn(tz, n) = {}
  BY <1>7
<1> QED BY <1>1, <1>2, <1>3, <1>4, <1>8 DEF tz

\* The same for what leaves it; and since all that enters is control when an
\* edge that leaves is turned, what entered is still settled.
LEMMA RetypeOutAt ==
  ASSUME NEW ty, NEW n, Clockless(ty), TurnIn(ty, n) = {}
  PROVE  LET tz == RetypeOut(ty, n)
         IN  /\ DOMAIN tz = DOMAIN ty /\ Clockless(tz)
             /\ \A w \in DOMAIN ty : tz[w] # ty[w] => w[1] = n /\ w[2] # n
             /\ SettledAt(tz, n)
<1> DEFINE tz == RetypeOut(ty, n)
<1>1. DOMAIN tz = DOMAIN ty
  BY RetypeDomain
<1>2. ASSUME NEW w \in TurnOut(ty, n)
      PROVE  /\ w \in DOMAIN ty /\ Data(tz[w]) = {} /\ CR(tz[w]) = {} /\ w[1] = n /\ w[2] # n
             /\ InType(ty, n) \subseteq ControlTypes
  <2>1. /\ w \in DOMAIN ty /\ Data(ty[w]) # {} /\ w[1] = n /\ w[2] # n
        /\ InType(ty, n) \subseteq ControlTypes
    BY <1>2 DEF TurnOut
  <2>2. tz[w] = CalType(EType(InType(ty, n)), ty[w])
    BY <2>1 DEF RetypeOut
  <2> QED BY <2>1, <2>2, TurnedIsControl DEF Clockless
<1>3. \A w \in DOMAIN ty : w \notin TurnOut(ty, n) => tz[w] = ty[w]
  BY DEF RetypeOut
<1> HIDE DEF tz
<1>4. Clockless(tz)
  BY <1>1, <1>2, <1>3 DEF Clockless
<1>5. \A w \in DOMAIN ty : w[2] = n => tz[w] = ty[w]
  BY <1>2, <1>3
<1>6. InType(tz, n) = InType(ty, n)
  BY <1>1, <1>5 DEF InType
<1>7. ASSUME NEW w \in TurnOut(tz, n) PROVE FALSE
  <2>1. /\ w \in DOMAIN ty /\ w[1] = n /\ w[2] # n /\ Data(tz[w]) # {}
        /\ InType(ty, n) \subseteq ControlTypes
    BY <1>1, <1>6, <1>7 DEF TurnOut
  <2>2. w \notin TurnOut(ty, n)
    BY <1>2, <2>1
  <2>3. Data(ty[w]) # {}
    BY <1>3, <2>1, <2>2
  <2> QED BY <2>1, <2>2, <2>3 DEF TurnOut
<1>8. ASSUME NEW w \in TurnIn(tz, n) PROVE FALSE
  <2>1. w \in DOMAIN ty /\ w[2] = n /\ w[1] # n /\ Data(ty[w]) # {}
    BY <1>1, <1>5, <1>8 DEF TurnIn
  <2>2. CASE TurnOut(ty, n) = {}
    <3>1. TurnIn(tz, n) = TurnIn(ty, n)
      BY <1>1, <1>3, <2>2, TurnLocal
    <3> QED BY <1>8, <3>1
  <2>3. CASE TurnOut(ty, n) # {}
    <3>1. InType(ty, n) \subseteq ControlTypes
      BY <1>2, <2>3
    <3>2. ty[w] \subseteq InType(ty, n)
      BY <2>1 DEF InType
    <3>3. Data(ty[w]) = {}
      BY <3>1, <3>2 DEF Data, DataTypes, ControlTypes
    <3> QED BY <2>1, <3>3
  <2> QED BY <2>2, <2>3
<1>9. SettledAt(tz, n)
  BY <1>7, <1>8 DEF SettledAt
<1> QED BY <1>1, <1>2, <1>3, <1>4, <1>9 DEF tz

\* The elements of a list put together, of its rest, and of a set in order.
LEMMA ListSets ==
  /\ \A L : \A s, t \in Seq(L) : s \o t \in Seq(L) /\ ToSet(s \o t) = ToSet(s) \cup ToSet(t)
  /\ \A L : \A s \in Seq(L) : s # << >> =>
       Tail(s) \in Seq(L) /\ Head(s) \in L /\ ToSet(s) \subseteq {Head(s)} \cup ToSet(Tail(s))
  /\ \A S : IsFiniteSet(S) => \A s \in SetToSeqs(S) : s \in Seq(S) /\ ToSet(s) = S
<1>1. ASSUME NEW L, NEW s \in Seq(L), NEW t \in Seq(L)
      PROVE  s \o t \in Seq(L) /\ ToSet(s \o t) = ToSet(s) \cup ToSet(t)
  <2> DEFINE u == s \o t
  <2>1. u \in Seq(L) /\ JoinOf(u, s, t)
    BY Joined
  <2> HIDE DEF u
  <2>2. ToSet(u) = ToSet(s) \cup ToSet(t)
    BY <2>1 DEF JoinOf, ToSet
  <2> QED BY <2>1, <2>2 DEF u
<1>2. ASSUME NEW L, NEW s \in Seq(L), s # << >>
      PROVE  Tail(s) \in Seq(L) /\ Head(s) \in L /\ ToSet(s) \subseteq {Head(s)} \cup ToSet(Tail(s))
  <2>1. /\ Tail(s) \in Seq(L) /\ Head(s) \in L
        /\ \A j \in DOMAIN s : s[j] = Head(s) \/ \E k \in DOMAIN Tail(s) : Tail(s)[k] = s[j]
    BY <1>2, HeadAndTail
  <2> DEFINE T == Tail(s)
  <2> HIDE DEF T
  <2>2. ASSUME NEW x \in ToSet(s) PROVE x = Head(s) \/ x \in ToSet(T)
    <3>1. PICK j \in DOMAIN s : x = s[j]
      BY <2>2 DEF ToSet
    <3>2. CASE \E k \in DOMAIN T : T[k] = s[j]
      BY <3>1, <3>2 DEF ToSet
    <3> QED BY <2>1, <3>1, <3>2 DEF T
  <2> QED BY <2>1, <2>2 DEF T
<1>3. ASSUME NEW S, IsFiniteSet(S), NEW s \in SetToSeqs(S)
      PROVE  s \in Seq(S) /\ ToSet(s) = S
  <2>1. s \in Seq(S) /\ \A x \in S : \E k \in DOMAIN s : s[k] = x
    BY <1>3, OrderCovers
  <2>2. \A k \in DOMAIN s : s[k] \in S
    BY <2>1
  <2> QED BY <2>1, <2>2 DEF ToSet
<1> QED BY <1>1, <1>2, <1>3

\* A sequence of some nodes is a sequence of nodes.
LEMMA NodeOrder ==
  ASSUME DatapathAssumption, NEW S \in SUBSET Node, NEW s \in SetToSeqs(S)
  PROVE  s \in Seq(Node) /\ ToSet(s) = S
<1>1. IsFiniteSet(S)
  BY FS_Subset DEF DatapathAssumption
<1>2. s \in Seq(S) /\ ToSet(s) = S
  BY <1>1, ListSets
<1>3. Len(s) \in Nat /\ DOMAIN s = 1..Len(s) /\ \A k \in 1..Len(s) : s[k] \in Node
  BY <1>2
<1> QED BY <1>2, <1>3

\* One turn at a combinational node or an inout port.
LEMMA LookCombiStep ==
  ASSUME DatapathAssumption, GraphInv, LookInv, pc = "types", look # << >>,
         LookCombi(Head(look))
  PROVE  /\ look' \in Seq(Node) /\ inlook' \subseteq ToSet(look')
         /\ Wired' = Wired /\ Clockless(type')
         /\ pass = 1 => \A m \in seen' : ~IsReg(m) /\ ~Stops(m) /\ m \notin inlook' =>
                          SettledAt(type', m)
<1> DEFINE n == Head(look)
<1>1. Between(nodes, Wired) /\ nodes \subseteq Node /\ Clockless(type)
  BY WiresFacts DEF GraphInv, LookInv, Clockless, Wired
<1>2. /\ n \in Node /\ Tail(look) \in Seq(Node)
      /\ ToSet(look) \subseteq {n} \cup ToSet(Tail(look))
  BY ListSets DEF LookInv
<1> DEFINE new == IF Kind[n] = "iport" THEN {} ELSE InOthers(Arcs(Wired), n) \ seen
           ty1 == IF Stops(n) THEN type ELSE RetypeIn(type, n)
           ty2 == IF Stops(n) THEN type ELSE RetypeOut(ty1, n)
           on1 == (inlook \ {n}) \cup new
           src == PushTouched({w[1] : w \in {x \in Wired : ty1[x] # type[x]}}, on1)
           tar == PushTouched({w[2] : w \in {x \in Wired : ty2[x] # ty1[x]}}, on1 \cup src)
<1>3. Requeue(n, new, ty1, ty2)
  BY DEF LookCombi
<1>4. /\ type' = ty2
      /\ inlook' = on1 \cup src \cup tar
      /\ seen' = seen \cup new
      /\ \E s0 \in SetToSeqs(new), s1 \in SetToSeqs(src), s2 \in SetToSeqs(tar) :
            look' = Tail(look) \o s0 \o s1 \o s2
  BY <1>3, Zenon DEF Requeue
<1>5. new \subseteq Node /\ n \notin new
  <2>1. InNodes(Arcs(Wired), n) \subseteq Node
    BY <1>1 DEF InNodes, Arcs, Between
  <2> QED BY <2>1 DEF InOthers
<1>6. /\ DOMAIN ty1 = Wired /\ DOMAIN ty2 = Wired /\ Clockless(ty1) /\ Clockless(ty2)
      /\ \A w \in Wired : ty1[w] # type[w] => w[2] = n /\ w[1] # n
      /\ \A w \in Wired : ty2[w] # ty1[w] => w[1] = n /\ w[2] # n
      /\ ~Stops(n) => SettledAt(ty2, n)
  <2>1. CASE Stops(n)
    BY <1>1, <2>1 DEF Wired
  <2>2. CASE ~Stops(n)
    <3>1. ty1 = RetypeIn(type, n) /\ ty2 = RetypeOut(ty1, n)
      BY <2>2
    <3>2. /\ DOMAIN ty1 = Wired /\ Clockless(ty1) /\ TurnIn(ty1, n) = {}
          /\ \A w \in Wired : ty1[w] # type[w] => w[2] = n /\ w[1] # n
      BY <1>1, <3>1, RetypeInAt DEF Wired
    <3> HIDE DEF ty1, ty2
    <3>3. /\ DOMAIN ty2 = Wired /\ Clockless(ty2) /\ SettledAt(ty2, n)
          /\ \A w \in Wired : ty2[w] # ty1[w] => w[1] = n /\ w[2] # n
      BY <3>1, <3>2, RetypeOutAt
    <3> QED BY <3>2, <3>3
  <2> QED BY <2>1, <2>2
<1> HIDE DEF ty1, ty2
<1>7. /\ \A w \in Wired : ty1[w] # type[w] => IsReg(w[1]) \/ w[1] \in on1 \cup src
      /\ \A w \in Wired : ty2[w] # ty1[w] => IsReg(w[2]) \/ w[2] \in on1 \cup src \cup tar
  BY DEF PushTouched
<1>8. src \subseteq Node /\ tar \subseteq Node
  BY <1>1 DEF PushTouched, Between
<1> HIDE DEF src, tar
<1>9. look' \in Seq(Node) /\ ToSet(look') = ToSet(Tail(look)) \cup new \cup src \cup tar
  <2>1. PICK s0 \in SetToSeqs(new), s1 \in SetToSeqs(src), s2 \in SetToSeqs(tar) :
               look' = Tail(look) \o s0 \o s1 \o s2
    BY <1>4
  <2>2. /\ s0 \in Seq(Node) /\ ToSet(s0) = new
        /\ s1 \in Seq(Node) /\ ToSet(s1) = src
        /\ s2 \in Seq(Node) /\ ToSet(s2) = tar
    BY <1>5, <1>8, NodeOrder
  <2> DEFINE t0 == Tail(look)
             t1 == t0 \o s0
             t2 == t1 \o s1
             t3 == t2 \o s2
  <2>6. t0 \in Seq(Node)
    BY <1>2
  <2> HIDE DEF t0
  <2>3. t1 \in Seq(Node) /\ ToSet(t1) = ToSet(t0) \cup new
    BY <2>2, <2>6, ListSets
  <2> HIDE DEF t1
  <2>4. t2 \in Seq(Node) /\ ToSet(t2) = ToSet(t0) \cup new \cup src
    BY <2>2, <2>3, ListSets
  <2> HIDE DEF t2
  <2>5. t3 \in Seq(Node) /\ ToSet(t3) = ToSet(t0) \cup new \cup src \cup tar
    BY <2>2, <2>4, ListSets
  <2> QED BY <2>1, <2>5 DEF t0, t1, t2
<1>10. inlook' \subseteq ToSet(look')
  <2>1. inlook \ {n} \subseteq ToSet(Tail(look))
    BY <1>2 DEF LookInv
  <2> QED BY <1>4, <1>9, <2>1
<1>11. ASSUME pass = 1, NEW m \in seen', ~IsReg(m), ~Stops(m), m \notin inlook'
       PROVE  SettledAt(ty2, m)
  <2>1. CASE m = n
    BY <1>6, <1>11, <2>1
  <2>2. CASE m # n
    <3>1. m \in seen /\ m \notin inlook
      BY <1>4, <1>11, <2>2
    <3>2. SettledAt(type, m)
      BY <1>11, <3>1 DEF LookInv
    <3>3. m \notin on1 \cup src \cup tar
      BY <1>4, <1>11
    <3>4. \A w \in Wired : w[1] = m \/ w[2] = m => ty2[w] = type[w]
      <4> HIDE DEF on1
      <4> QED BY <1>6, <1>7, <1>11, <2>2, <3>3
    <3>5. TurnIn(ty2, m) = TurnIn(type, m) /\ TurnOut(ty2, m) = TurnOut(type, m)
      BY <1>6, <3>4, TurnLocal DEF Wired
    <3> QED BY <3>2, <3>5 DEF SettledAt
  <2> QED BY <2>1, <2>2
<1>12. Wired' = Wired
  BY <1>4, <1>6 DEF Wired
<1> QED BY <1>4, <1>6, <1>9, <1>10, <1>11, <1>12

\* One turn at a register: no type changes, sources that are new wait.
LEMMA LookRegStep ==
  ASSUME DatapathAssumption, GraphInv, LookInv, pc = "types", look # << >>,
         LookReg(Head(look))
  PROVE  /\ look' \in Seq(Node) /\ inlook' \subseteq ToSet(look') /\ type' = type
         /\ pass = 1 => \A m \in seen' : ~IsReg(m) /\ ~Stops(m) /\ m \notin inlook' =>
                          SettledAt(type', m)
<1> DEFINE n   == Head(look)
           new == InOthers(Arcs(Wired), n)
           add == (new \ seen) \cup PushTouched(new, inlook \ {n})
<1>1. Between(nodes, Wired) /\ nodes \subseteq Node
  BY WiresFacts DEF GraphInv
<1>2. /\ n \in Node /\ Tail(look) \in Seq(Node)
      /\ ToSet(look) \subseteq {n} \cup ToSet(Tail(look))
  BY ListSets DEF LookInv
<1>3. /\ inlook' = (inlook \ {n}) \cup add
      /\ seen' = seen \cup new
      /\ \E s \in SetToSeqs(add) : look' = Tail(look) \o s
      /\ type' = type /\ IsReg(n)
  BY DEF LookReg
<1>4. new \subseteq Node
  BY <1>1 DEF InOthers, InNodes, Arcs, Between
<1> HIDE DEF new
<1>5. add \subseteq Node
  BY <1>4 DEF PushTouched
<1>6. \A m \in new : IsReg(m) \/ m \in (inlook \ {n}) \cup add
  BY DEF PushTouched
<1> HIDE DEF add
<1>7. look' \in Seq(Node) /\ ToSet(look') = ToSet(Tail(look)) \cup add
  <2>1. PICK s \in SetToSeqs(add) : look' = Tail(look) \o s
    BY <1>3
  <2>2. s \in Seq(Node) /\ ToSet(s) = add
    BY <1>5, NodeOrder
  <2> DEFINE t0 == Tail(look)
             t1 == t0 \o s
  <2>3. t0 \in Seq(Node)
    BY <1>2
  <2> HIDE DEF t0
  <2>4. t1 \in Seq(Node) /\ ToSet(t1) = ToSet(t0) \cup add
    BY <2>2, <2>3, ListSets
  <2> QED BY <2>1, <2>4 DEF t0
<1>8. inlook \ {n} \subseteq ToSet(Tail(look))
  BY <1>2 DEF LookInv
<1>9. ASSUME pass = 1, NEW m \in seen', ~IsReg(m), ~Stops(m), m \notin inlook'
      PROVE  SettledAt(type, m)
  <2>1. m # n /\ m \in seen /\ m \notin inlook
    BY <1>3, <1>6, <1>9
  <2> QED BY <1>9, <2>1 DEF LookInv
<1> QED BY <1>3, <1>7, <1>8, <1>9

LEMMA LookStep ==
  ASSUME DatapathAssumption, GraphInv, LookInv, [Next]_vars
  PROVE  LookInv'
<1>1. CASE RemoveControl
  <2>1. pc = "cut" /\ pc' = "clean" /\ UNCHANGED <<look, inlook, seen, pass>>
    BY <1>1 DEF RemoveControl, tvars, lvars
  <2>2. \A w \in Wired' : CR(type'[w]) = {}
    BY <1>1 DEF RemoveControl, Wired, IsData
  <2> QED BY <2>1, <2>2 DEF LookInv
<1>2. CASE StartTypes
  <2> DEFINE start == OfKind(nodes, PortKinds \cup {"reg"})
  <2>1. /\ look' \in SetToSeqs(start) /\ inlook' = start /\ seen' = start
        /\ pc = "clean" /\ pc' = "types" /\ type' = type /\ pass' = pass
    BY <1>2 DEF StartTypes, lvars
  <2>2. start \subseteq Node
    BY DEF OfKind, GraphInv
  <2> HIDE DEF start
  <2>3. look' \in Seq(Node) /\ ToSet(look') = start
    BY <2>1, <2>2, NodeOrder
  <2> QED BY <2>1, <2>3 DEF LookInv, Wired
<1>3. CASE Look
  <2>1. pc = "types" /\ pc' = "types" /\ look # << >> /\ pass' = pass
        /\ (LookCombi(Head(look)) \/ LookReg(Head(look)))
    BY <1>3 DEF Look, lvars
  <2>2. CASE LookCombi(Head(look))
    <3>1. /\ look' \in Seq(Node) /\ inlook' \subseteq ToSet(look') /\ Clockless(type')
          /\ pass = 1 => \A m \in seen' : ~IsReg(m) /\ ~Stops(m) /\ m \notin inlook' =>
                           SettledAt(type', m)
      BY <2>1, <2>2, LookCombiStep
    <3> QED BY <2>1, <3>1 DEF LookInv, Clockless, Wired
  <2>3. CASE LookReg(Head(look))
    <3>1. /\ look' \in Seq(Node) /\ inlook' \subseteq ToSet(look') /\ type' = type
          /\ pass = 1 => \A m \in seen' : ~IsReg(m) /\ ~Stops(m) /\ m \notin inlook' =>
                           SettledAt(type', m)
      BY <2>1, <2>3, LookRegStep
    <3> QED BY <2>1, <3>1 DEF LookInv, Wired
  <2> QED BY <2>1, <2>2, <2>3
<1>4. CASE StartBack \/ WalkBack \/ StartForward \/ WalkForward \/ UNCHANGED vars
  <2>1. UNCHANGED <<look, inlook, seen, type, pass>> /\ (pc' = pc \/ pc' \in {"back", "fwd"})
        /\ (pc' # pc => pc # "cut")
    BY <1>4 DEF StartBack, WalkBack, StartForward, WalkForward, vars, tvars
  <2> QED BY <2>1 DEF LookInv, Wired
<1>5. CASE Prune
  <2>1. /\ UNCHANGED <<look, inlook, seen>> /\ pc = "fwd" /\ pc' \in {"back", "done"}
        /\ pass' = 2
    BY <1>5 DEF Prune, tvars, lvars, LookInv
  <2>2. Wired' \subseteq Wired /\ \A w \in Wired' : type'[w] = type[w]
    BY <1>5 DEF Prune, Wired
  <2> QED BY <2>1, <2>2 DEF LookInv
<1> QED BY <1>1, <1>2, <1>3, <1>4, <1>5 DEF Next

\* When the list is empty nothing is left to propagate: no node looked at has
\* a data edge on one side and only control on the other, although an edge may
\* be retyped at nodes that have long been looked at (edge_type_propagate).
THEOREM SettledHolds ==
  Spec => []Settled
<1>1. Init => LookInv
  <2> SUFFICES ASSUME Init PROVE LookInv
    OBVIOUS
  <2>1. look = << >> /\ inlook = {} /\ seen = {} /\ pass = 1 /\ pc = "cut"
    BY DEF Init
  <2>2. look \in Seq(Node)
    BY <2>1, EmptySeq
  <2> QED BY <2>1, <2>2 DEF LookInv
<1>2. IInv /\ LookInv /\ [Next]_vars => LookInv'
  BY DatapathAssumption, LookStep DEF IInv
<1>3. LookInv => Settled
  <2> SUFFICES ASSUME LookInv, look = << >>, pass = 1,
                      NEW n \in seen, ~IsReg(n), ~Stops(n)
               PROVE  TurnIn(type, n) \cup TurnOut(type, n) = {}
    BY DEF Settled
  <2>1. ToSet(look) = {}
    BY DEF ToSet
  <2> QED BY <2>1 DEF LookInv, SettledAt
<1> QED BY <1>1, <1>2, <1>3, Inductive, PTL DEF Spec

-----------------------------------------------------------------------------
(* The lists of the searches.  A search goes over wires from their end near *)
(* to their end far: an entry of its list came to its node over its wires.  *)

\* The nodes an entry has come over, its own at the end.
Met(e, k, near) == IF k = Len(e.via) + 1 THEN e.at ELSE e.via[k][near]

\* The way to the node of e is the way to that of f, or the first part of it.
Leads(e, f, near) ==
    /\ Len(e.via) <= Len(f.via)
    /\ \A k \in DOMAIN e.via : f.via[k] = e.via[k]
    /\ Met(f, Len(e.via) + 1, near) = e.at

\* The way to an entry leads through what has been reached, and its node is
\* not among those it has left, though it may have been reached otherwise.
Trail(e, near, far, reached) ==
    /\ \A p \in DOMAIN e.via :
         e.via[p][near] \in reached \ {e.at} /\ e.via[p][far] \in reached \cup {e.at}
    /\ \A p, q \in DOMAIN e.via : p # q =>
         e.via[p][near] # e.via[q][near] /\ e.via[p][far] # e.via[q][far]

\* No entry of a list leads to another: a way is extended when its entry
\* leaves the list.
Trails(L, near, far, reached) ==
    /\ \A k \in DOMAIN L : Trail(L[k], near, far, reached)
    /\ \A j, k \in DOMAIN L : j # k => ~Leads(L[j], L[k], near)

TrailInv ==
    /\ pc = "done" => list = << >>
    /\ pc = "back" => Trails(list, 2, 1, oconn)
    /\ pc = "fwd" => Trails(list, 1, 2, iconn)

Entries == [at : Node, via : Seq(Wires)]

\* An entry with one more wire.
Longer(e, w, far) == [at |-> w[far], via |-> Append(e.via, w)]

LEMMA LongerVia ==
  ASSUME NEW e \in Entries, NEW w \in Wires, NEW far
  PROVE  LET f == Longer(e, w, far)
         IN  /\ Len(e.via) \in Nat /\ DOMAIN e.via = 1..Len(e.via)
             /\ Len(f.via) = Len(e.via) + 1 /\ DOMAIN f.via = 1..(Len(e.via) + 1)
             /\ \A k \in 1..Len(e.via) : f.via[k] = e.via[k]
             /\ f.via[Len(e.via) + 1] = w /\ f.at = w[far]
<1>1. e.via \in Seq(Wires)
  BY DEF Entries
<1> QED BY <1>1 DEF Longer

\* A wire that goes on from the node of an entry to one not reached yet makes
\* a trail.
LEMMA TrailGrows ==
  ASSUME NEW e \in Entries, NEW w \in Wires, NEW near, NEW far, NEW reached,
         Trail(e, near, far, reached), w[near] = e.at, w[far] \notin reached \cup {e.at}
  PROVE  Trail(Longer(e, w, far), near, far, reached \cup {e.at})
<1> DEFINE f == Longer(e, w, far)
           l == Len(e.via)
           R == reached \cup {e.at}
<1>1. /\ l \in Nat /\ DOMAIN e.via = 1..l /\ DOMAIN f.via = 1..(l + 1)
      /\ \A k \in 1..l : f.via[k] = e.via[k]
      /\ f.via[l + 1] = w /\ f.at = w[far]
  BY LongerVia
<1> HIDE DEF f, l
<1>2. \A p \in 1..(l + 1) : p \in 1..l \/ p = l + 1
  BY <1>1
<1>3. ASSUME NEW p \in 1..l
      PROVE  /\ f.via[p][near] \in R \ {e.at} /\ f.via[p][far] \in R /\ f.via[p] = e.via[p]
  BY <1>1 DEF Trail
<1>4. ASSUME NEW p \in 1..(l + 1)
      PROVE  f.via[p][near] \in R \ {f.at} /\ f.via[p][far] \in R \cup {f.at}
  <2>1. CASE p \in 1..l
    BY <1>1, <1>3, <2>1
  <2>2. CASE p = l + 1
    BY <1>1, <2>2
  <2> QED BY <1>2, <2>1, <2>2
<1>5. ASSUME NEW p \in 1..l
      PROVE  f.via[p][near] # w[near] /\ f.via[p][far] # w[far]
  BY <1>3
<1>6. ASSUME NEW p \in 1..(l + 1), NEW q \in 1..(l + 1), p # q
      PROVE  f.via[p][near] # f.via[q][near] /\ f.via[p][far] # f.via[q][far]
  <2>1. CASE p \in 1..l /\ q \in 1..l
    <3>1. f.via[p] = e.via[p] /\ f.via[q] = e.via[q]
      BY <1>1, <2>1
    <3> QED BY <1>1, <1>6, <2>1, <3>1 DEF Trail
  <2>2. CASE p \in 1..l /\ q = l + 1
    BY <1>1, <1>5, <2>2
  <2>3. CASE p = l + 1 /\ q \in 1..l
    BY <1>1, <1>5, <2>3
  <2> QED BY <1>2, <1>6, <2>1, <2>2, <2>3
<1>7. Trail(f, near, far, R)
  BY <1>1, <1>4, <1>6 DEF Trail
<1> QED BY <1>7 DEF f

LEMMA TrailStays ==
  ASSUME NEW e, NEW near, NEW far, NEW reached, NEW more, Trail(e, near, far, reached)
  PROVE  Trail(e, near, far, reached \cup more)
BY DEF Trail

\* What a longer entry leads to, the entry itself led to; and what leads to
\* the longer one led to the entry, or the entry to it.
LEMMA LongerLeads ==
  ASSUME NEW h \in Entries, NEW w \in Wires, NEW near, NEW far, w[near] = h.at,
         NEW e \in Entries
  PROVE  /\ Leads(Longer(h, w, far), e, near) => Leads(h, e, near)
         /\ Leads(e, Longer(h, w, far), near) => Leads(e, h, near) \/ Leads(h, e, near)
<1> DEFINE c == Longer(h, w, far)
           l == Len(h.via)
           m == Len(e.via)
<1>1. /\ l \in Nat /\ DOMAIN h.via = 1..l /\ DOMAIN c.via = 1..(l + 1) /\ Len(c.via) = l + 1
      /\ \A k \in 1..l : c.via[k] = h.via[k]
      /\ c.via[l + 1] = w /\ c.at = w[far]
  BY LongerVia
<1>2. m \in Nat /\ DOMAIN e.via = 1..m
  BY DEF Entries
<1> HIDE DEF c
<1>3. ASSUME Leads(c, e, near) PROVE Leads(h, e, near)
  <2>1. l + 1 <= m /\ \A k \in 1..(l + 1) : e.via[k] = c.via[k]
    BY <1>1, <1>3 DEF Leads
  <2>2. l <= m /\ \A k \in 1..l : e.via[k] = h.via[k]
    BY <1>1, <1>2, <2>1
  <2>3. e.via[l + 1] = w /\ l + 1 # m + 1
    BY <1>1, <1>2, <2>1
  <2>4. Met(e, l + 1, near) = h.at
    BY <2>3 DEF Met
  <2> QED BY <1>1, <2>2, <2>4 DEF Leads
<1>4. ASSUME Leads(e, c, near) PROVE Leads(e, h, near) \/ Leads(h, e, near)
  <2>1. m <= l + 1 /\ (\A k \in 1..m : c.via[k] = e.via[k]) /\ Met(c, m + 1, near) = e.at
    BY <1>1, <1>2, <1>4 DEF Leads
  <2>2. CASE m <= l
    <3>1. \A k \in 1..m : h.via[k] = e.via[k]
      BY <1>1, <1>2, <2>1, <2>2
    <3>2. Met(c, m + 1, near) = c.via[m + 1][near]
      BY <1>1, <1>2, <2>2 DEF Met
    <3>3. CASE m = l
      <4>1. Met(h, m + 1, near) = h.at /\ c.via[m + 1] = w
        BY <1>1, <3>3 DEF Met
      <4> QED BY <1>2, <2>1, <2>2, <3>1, <3>2, <4>1 DEF Leads
    <3>4. CASE m # l
      <4>1. m + 1 \in 1..l /\ m + 1 # l + 1
        BY <1>1, <1>2, <2>2, <3>4
      <4>2. Met(h, m + 1, near) = h.via[m + 1][near] /\ c.via[m + 1] = h.via[m + 1]
        BY <1>1, <4>1 DEF Met
      <4> QED BY <1>2, <2>1, <2>2, <3>1, <3>2, <4>2 DEF Leads
    <3> QED BY <3>3, <3>4
  <2>3. CASE m = l + 1
    <3>1. \A k \in 1..l : e.via[k] = h.via[k]
      BY <1>1, <2>1, <2>3
    <3>2. e.via[l + 1] = w /\ l + 1 # m + 1
      BY <1>1, <2>1, <2>3
    <3>3. Met(e, l + 1, near) = h.at
      BY <3>2 DEF Met
    <3> QED BY <1>1, <1>2, <2>3, <3>1, <3>3 DEF Leads
  <2> QED BY <1>1, <1>2, <2>1, <2>2, <2>3
<1> QED BY <1>3, <1>4 DEF c

\* Entries made longer by different wires do not lead to each other.
LEMMA LongerApart ==
  ASSUME NEW h \in Entries, NEW w \in Wires, NEW v \in Wires, w # v, NEW near, NEW far
  PROVE  ~Leads(Longer(h, w, far), Longer(h, v, far), near)
<1> DEFINE c == Longer(h, w, far)
           b == Longer(h, v, far)
           l == Len(h.via)
<1>1. l \in Nat /\ DOMAIN c.via = 1..(l + 1) /\ c.via[l + 1] = w
  BY LongerVia
<1>2. b.via[l + 1] = v
  BY LongerVia
<1> HIDE DEF c, b, l
<1>3. ~Leads(c, b, near)
  BY <1>1, <1>2 DEF Leads
<1> QED BY <1>3 DEF c, b

\* No element is twice in an order of a set.
LEMMA OrderOnce ==
  ASSUME NEW S, NEW s \in SetToSeqs(S)
  PROVE  \A i, j \in DOMAIN s : i # j => s[i] # s[j]
<1> DEFINE n == Cardinality(S)
<1>1. s \in [1..n -> S] /\ \A i, j \in 1..n : i # j => s[i] # s[j]
  BY DEF SetToSeqs
<1> HIDE DEF n
<1> QED BY <1>1

\* The new list of a turn: what was behind the head, and its extensions.
LEMMA PushIndices ==
  ASSUME DatapathAssumption, list \in Seq(Entries), list # << >>,
         NEW E \in SUBSET Wires, NEW far, Push(E, far),
         \A w \in E : w[far] \in Node
  PROVE  \E s \in SetToSeqs(E) :
            /\ s \in Seq(E) /\ DOMAIN list' \subseteq Int
            /\ \A k \in DOMAIN list' :
                  \/ k + 1 \in DOMAIN list /\ k + 1 # 1 /\ list'[k] = list[k + 1]
                  \/ /\ k - (Len(list) - 1) \in DOMAIN s
                     /\ list'[k] = Longer(Head(list), s[k - (Len(list) - 1)], far)
<1> DEFINE h == Head(list)
           T == Tail(list)
           l == Len(list) - 1
<1>1. PICK s \in SetToSeqs(E) :
        list' = Tail(list) \o [k \in DOMAIN s |-> Longer(Head(list), s[k], far)]
  BY DEF Push, Longer
<1>2. s \in Seq(E)
  <2>1. IsFiniteSet(E)
    BY FS_Subset DEF DatapathAssumption
  <2> QED BY <2>1, OrderCovers
<1> DEFINE A == [k \in DOMAIN s |-> Longer(h, s[k], far)]
<1>3. /\ Len(list) \in Nat \ {0} /\ DOMAIN list = 1..Len(list) /\ h \in Entries
      /\ T \in Seq(Entries) /\ Len(T) = l /\ \A k \in 1..l : T[k] = list[k + 1]
  BY EmptySeq
<1>4. DOMAIN s = 1..Len(s) /\ Len(s) \in Nat /\ \A k \in 1..Len(s) : s[k] \in E
  BY <1>2
<1>5. A \in Seq(Entries) /\ Len(A) = Len(s) /\ \A k \in 1..Len(s) : A[k] = Longer(h, s[k], far)
  <2>1. ASSUME NEW w \in E PROVE Longer(h, w, far) \in Entries
    BY <1>3 DEF Longer, Entries
  <2> HIDE DEF h
  <2>2. A \in [1..Len(s) -> Entries]
    BY <1>4, <2>1
  <2> QED BY <1>4, <2>2
<1>6. list' = T \o A
  BY <1>1
<1> HIDE DEF T, A, h
<1>7. /\ T \o A \in Seq(Entries) /\ Len(T \o A) = Len(T) + Len(A)
      /\ \A k \in 1 .. Len(T) + Len(A) :
            (T \o A)[k] = IF k <= Len(T) THEN T[k] ELSE A[k - Len(T)]
  <2>1. T \in Seq(Entries) /\ A \in Seq(Entries)
    BY <1>3, <1>5
  <2> QED BY ONLY <2>1, ConcatProperties
<1>8. ASSUME NEW k \in DOMAIN list'
      PROVE  /\ k \in Int
             /\ \/ k + 1 \in DOMAIN list /\ k + 1 # 1 /\ list'[k] = list[k + 1]
                \/ k - l \in DOMAIN s /\ list'[k] = Longer(h, s[k - l], far)
  <2>1. k \in 1..(l + Len(s)) /\ list'[k] = IF k <= l THEN T[k] ELSE A[k - l]
    <3> DEFINE u == T \o A
    <3> HIDE DEF u
    <3>1. u \in Seq(Entries) /\ list' = u /\ Len(u) = l + Len(s)
          /\ \A x \in 1..(l + Len(s)) : u[x] = IF x <= l THEN T[x] ELSE A[x - l]
      BY <1>3, <1>5, <1>6, <1>7 DEF u
    <3>2. DOMAIN u = 1..(l + Len(s))
      BY <3>1
    <3> QED BY <3>1, <3>2
  <2>2. CASE k <= l
    <3>1. k \in Int /\ k \in 1..l /\ k + 1 \in 1..Len(list) /\ k + 1 # 1
      BY <1>3, <2>1, <2>2
    <3> QED BY <1>3, <2>1, <2>2, <3>1
  <2>3. CASE ~(k <= l)
    <3>1. k \in Int /\ k - l \in 1..Len(s)
      BY <1>3, <1>4, <2>1, <2>3
    <3> QED BY <1>4, <1>5, <2>1, <2>3, <3>1
  <2> QED BY <2>2, <2>3
<1> QED BY <1>1, <1>2, <1>8 DEF h

LEMMA PushTrails ==
  ASSUME DatapathAssumption, list \in Seq(Entries), list # << >>,
         NEW E \in SUBSET Wires, NEW near, NEW far, Push(E, far),
         \A w \in E : w[far] \in Node,
         NEW reached, NEW R, R = reached \cup {Head(list).at},
         \A w \in E : w[near] = Head(list).at /\ w[far] \notin R,
         Trails(list, near, far, reached)
  PROVE  Trails(list', near, far, R)
<1> DEFINE h == Head(list)
           l == Len(list) - 1
<1>1. PICK s \in SetToSeqs(E) :
        /\ s \in Seq(E) /\ DOMAIN list' \subseteq Int
        /\ \A k \in DOMAIN list' :
              \/ k + 1 \in DOMAIN list /\ k + 1 # 1 /\ list'[k] = list[k + 1]
              \/ k - l \in DOMAIN s /\ list'[k] = Longer(h, s[k - l], far)
  BY PushIndices
<1>2. /\ 1 \in DOMAIN list /\ h = list[1] /\ Len(list) \in Nat /\ DOMAIN list = 1..Len(list)
      /\ \A k \in DOMAIN list : list[k] \in Entries
  BY EmptySeq
<1>3. \A k \in DOMAIN s : s[k] \in E /\ s[k] \in Wires
  BY <1>1
<1>4. \A i, j \in DOMAIN s : i # j => s[i] # s[j]
  BY OrderOnce
<1>5. /\ \A k \in DOMAIN list : Trail(list[k], near, far, reached)
      /\ \A j, k \in DOMAIN list : j # k => ~Leads(list[j], list[k], near)
  BY DEF Trails
<1> HIDE DEF h, l
<1>6. ASSUME NEW k \in DOMAIN list' PROVE Trail(list'[k], near, far, R)
  <2>1. CASE k + 1 \in DOMAIN list /\ list'[k] = list[k + 1]
    BY <1>5, <2>1, TrailStays
  <2>2. CASE k - l \in DOMAIN s /\ list'[k] = Longer(h, s[k - l], far)
    <3>1. s[k - l] \in Wires /\ s[k - l][near] = h.at /\ s[k - l][far] \notin R
      BY <1>3, <2>2 DEF h
    <3>2. R = reached \cup {h.at} /\ Trail(h, near, far, reached) /\ h \in Entries
      BY <1>2, <1>5 DEF h
    <3> QED BY <2>2, <3>1, <3>2, TrailGrows
  <2> QED BY <1>1, <2>1, <2>2
<1>7. ASSUME NEW j \in DOMAIN list', NEW k \in DOMAIN list', j # k
      PROVE  ~Leads(list'[j], list'[k], near)
  <2>1. j \in Int /\ k \in Int /\ l \in Int
    BY <1>1, <1>2 DEF l
  <2>2. CASE j + 1 \in DOMAIN list /\ j + 1 # 1 /\ list'[j] = list[j + 1]
    <3>1. CASE k + 1 \in DOMAIN list /\ k + 1 # 1 /\ list'[k] = list[k + 1]
      BY <1>5, <1>7, <2>1, <2>2, <3>1
    <3>2. CASE k - l \in DOMAIN s /\ list'[k] = Longer(h, s[k - l], far)
      <4>1. ~Leads(list[j + 1], h, near) /\ ~Leads(h, list[j + 1], near)
        BY <1>2, <1>5, <2>2
      <4>2. s[k - l] \in Wires /\ s[k - l][near] = h.at
        BY <1>3, <3>2 DEF h
      <4>3. h \in Entries /\ list[j + 1] \in Entries
        BY <1>2, <2>2
      <4>4. ~Leads(list[j + 1], Longer(h, s[k - l], far), near)
        BY <4>1, <4>2, <4>3, LongerLeads
      <4> QED BY <2>2, <3>2, <4>4
    <3> QED BY <1>1, <3>1, <3>2
  <2>3. CASE j - l \in DOMAIN s /\ list'[j] = Longer(h, s[j - l], far)
    <3>1. CASE k + 1 \in DOMAIN list /\ k + 1 # 1 /\ list'[k] = list[k + 1]
      <4>1. ~Leads(h, list[k + 1], near)
        BY <1>2, <1>5, <3>1
      <4>2. s[j - l] \in Wires /\ s[j - l][near] = h.at
        BY <1>3, <2>3 DEF h
      <4>3. h \in Entries /\ list[k + 1] \in Entries
        BY <1>2, <3>1
      <4>4. ~Leads(Longer(h, s[j - l], far), list[k + 1], near)
        BY <4>1, <4>2, <4>3, LongerLeads
      <4> QED BY <2>3, <3>1, <4>4
    <3>2. CASE k - l \in DOMAIN s /\ list'[k] = Longer(h, s[k - l], far)
      <4>1. j - l # k - l
        BY <1>7, <2>1
      <4>2. s[j - l] # s[k - l] /\ s[j - l] \in Wires /\ s[k - l] \in Wires
        BY <1>3, <1>4, <2>3, <3>2, <4>1
      <4> QED BY <1>2, <2>3, <3>2, <4>2, LongerApart
    <3> QED BY <1>1, <3>1, <3>2
  <2> QED BY <1>1, <2>2, <2>3
<1> QED BY <1>6, <1>7 DEF Trails

\* A search starts with different nodes, and no way to any.
LEMMA StartTrails ==
  ASSUME DatapathAssumption, nodes' \subseteq Node, NEW kind, Starts(kind, list'),
         NEW near, NEW far, NEW reached
  PROVE  Trails(list', near, far, reached)
<1> DEFINE S == OfKind(nodes', {kind})
<1>1. PICK s \in SetToSeqs(S) : list' = [k \in DOMAIN s |-> [at |-> s[k], via |-> << >>]]
  BY DEF Starts
<1> HIDE DEF S
<1>2. \A j, k \in DOMAIN s : j # k => s[j] # s[k]
  BY OrderOnce
<1>3. ASSUME NEW k \in DOMAIN list'
      PROVE  /\ k \in DOMAIN s /\ list'[k].at = s[k] /\ list'[k].via = << >>
             /\ Len(list'[k].via) = 0 /\ DOMAIN list'[k].via = {}
  BY <1>1
<1>4. \A j, k \in DOMAIN list' : j # k => ~Leads(list'[j], list'[k], near)
  BY <1>2, <1>3 DEF Leads, Met
<1>5. \A k \in DOMAIN list' : Trail(list'[k], near, far, reached)
  BY <1>3 DEF Trail
<1> QED BY <1>4, <1>5 DEF Trails

LEMMA TrailStep ==
  ASSUME DatapathAssumption, GraphInv, WalkInv, TrailInv, [Next]_vars
  PROVE  TrailInv'
<1>1. nodes' \subseteq Node
  BY GraphStep DEF GraphInv
<1>2. list \in Seq(Entries)
  BY DEF WalkInv, Entries
<1>3. CASE RemoveControl \/ StartTypes
  BY <1>3 DEF RemoveControl, StartTypes, TrailInv
<1>4. CASE Look
  <2>1. pc' = "types"
    BY <1>4 DEF Look
  <2> QED BY <2>1 DEF TrailInv
<1>5. CASE StartBack
  <2>1. pc' = "back" /\ Starts("oport", list')
    BY <1>5 DEF StartBack
  <2>2. Trails(list', 2, 1, oconn')
    BY <1>1, <2>1, StartTrails
  <2> QED BY <2>1, <2>2 DEF TrailInv
<1>6. CASE WalkBack
  <2> DEFINE n == Head(list).at
             E == NewEdges({w \in Wired : w[2] = n}, 1, oconn')
  <2>1. /\ pc = "back" /\ pc' = "back" /\ list # << >>
        /\ oconn' = oconn \cup {n} /\ Push(E, 1)
    BY <1>6 DEF WalkBack
  <2>2. Wired \in SUBSET Wires
    BY <2>1, WiresFacts
  <2>3. E \in SUBSET Wires /\ \A w \in E : w[2] = n /\ w[1] \notin oconn' /\ w[1] \in Node
    BY <2>2, WiresFacts DEF NewEdges
  <2>4. Trails(list, 2, 1, oconn)
    BY <2>1 DEF TrailInv
  <2> HIDE DEF E
  <2>5. Trails(list', 2, 1, oconn')
    BY <1>2, <2>1, <2>3, <2>4, PushTrails
  <2> QED BY <2>1, <2>5 DEF TrailInv
<1>7. CASE StartForward
  <2>1. pc' = "fwd" /\ Starts("iport", list')
    BY <1>7 DEF StartForward
  <2>2. Trails(list', 1, 2, iconn')
    BY <1>1, <2>1, StartTrails
  <2> QED BY <2>1, <2>2 DEF TrailInv
<1>8. CASE WalkForward
  <2> DEFINE n == Head(list).at
             E == NewEdges({w \in Wired : w[1] = n}, 2, iconn')
  <2>1. /\ pc = "fwd" /\ pc' = "fwd" /\ list # << >>
        /\ iconn' = iconn \cup {n} /\ Push(E, 2)
    BY <1>8 DEF WalkForward
  <2>2. Wired \in SUBSET Wires
    BY <2>1, WiresFacts
  <2>3. E \in SUBSET Wires /\ \A w \in E : w[1] = n /\ w[2] \notin iconn' /\ w[2] \in Node
    BY <2>2, WiresFacts DEF NewEdges
  <2>4. Trails(list, 1, 2, iconn)
    BY <2>1 DEF TrailInv
  <2> HIDE DEF E
  <2>5. Trails(list', 1, 2, iconn')
    BY <1>2, <2>1, <2>3, <2>4, PushTrails
  <2> QED BY <2>1, <2>5 DEF TrailInv
<1>9. CASE Prune
  <2>1. CASE pass = 1
    <3>1. pc' = "back" /\ Starts("oport", list')
      BY <1>9, <2>1 DEF Prune
    <3>2. Trails(list', 2, 1, oconn')
      BY <1>1, <3>1, StartTrails
    <3> QED BY <3>1, <3>2 DEF TrailInv
  <2>2. CASE pass # 1
    <3>1. pc' = "done" /\ list' = << >>
      BY <1>9, <2>2 DEF Prune, lvars
    <3> QED BY <3>1 DEF TrailInv
  <2> QED BY <2>1, <2>2
<1>10. CASE UNCHANGED vars
  BY <1>10 DEF vars, TrailInv
<1> QED BY <1>3, <1>4, <1>5, <1>6, <1>7, <1>8, <1>9, <1>10 DEF Next

\* A list of the searches may hold a node many times, but never twice for one
\* way to it, and no way to it passes a node twice (proc_nodes of
\* remove_disconnected_nodes).
THEOREM OnePerPathHolds ==
  Spec => []OnePerPath
<1>1. Init => TrailInv
  BY DEF Init, TrailInv
<1>2. IInv /\ TrailInv /\ [Next]_vars => TrailInv'
  BY DatapathAssumption, TrailStep DEF IInv
<1>3. IInv /\ TrailInv => OnePerPath
  <2> SUFFICES ASSUME IInv, TrailInv PROVE OnePerPath
    OBVIOUS
  <2>1. list \in Seq(Entries)
    BY DEF IInv, WalkInv, Entries
  <2>2. ASSUME NEW near, NEW far, {near, far} = {1, 2}, NEW R, Trails(list, near, far, R)
        PROVE  OnePerPath
    <3>1. ASSUME NEW j \in DOMAIN list, NEW k \in DOMAIN list,
                 list[j].at = list[k].at, list[j].via = list[k].via
          PROVE  j = k
      <4>1. list[j] \in Entries /\ list[k] \in Entries
        BY <2>1
      <4>2. Leads(list[j], list[k], near)
        BY <3>1, <4>1 DEF Leads, Met, Entries
      <4> QED BY <2>2, <4>2 DEF Trails
    <3>2. ASSUME NEW k \in DOMAIN list, NEW p \in DOMAIN list[k].via,
                 NEW q \in DOMAIN list[k].via, p # q
          PROVE  list[k].via[p][1] # list[k].via[q][1] /\ list[k].via[p][2] # list[k].via[q][2]
      <4>1. /\ list[k].via[p][near] # list[k].via[q][near]
            /\ list[k].via[p][far] # list[k].via[q][far]
        BY <2>2, <3>2 DEF Trails, Trail
      <4>2. (near = 1 /\ far = 2) \/ (near = 2 /\ far = 1)
        BY <2>2
      <4> QED BY <4>1, <4>2
    <3> QED BY <3>1, <3>2 DEF OnePerPath
  <2>3. CASE pc = "back"
    BY <2>2, <2>3 DEF TrailInv
  <2>4. CASE pc = "fwd"
    BY <2>2, <2>4 DEF TrailInv
  <2>5. CASE pc \notin {"back", "fwd"}
    <3>1. list = << >>
      BY <2>5 DEF IInv, GraphInv, WalkInv, TrailInv
    <3> QED BY <3>1 DEF OnePerPath
  <2> QED BY <2>3, <2>4, <2>5
<1> QED BY <1>1, <1>2, <1>3, Inductive, PTL DEF Spec

=============================================================================
