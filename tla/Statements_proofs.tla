------------------------- MODULE Statements_proofs --------------------------
(***************************************************************************)
(* Proofs about the relation trees of statements, for signals of any width *)
(* and statements of any size: a bit of a signal is in one tree only, the  *)
(* trees name all a bit depends on, a bit that may keep its value has a    *)
(* self loop, and no other bit has one.  The last three hold of the case   *)
(* statements that NoLabelTwice, DefaultLast and DefaultReached describe.  *)
(*                                                                         *)
(* The argument: RForest::add keeps the bits of a signal apart, ends, and  *)
(* gives each bit all the leaves it is owed and no other; get_rforest of   *)
(* each statement is a few such additions; and each result on the stack is *)
(* made from results that have the properties.                             *)
(***************************************************************************)
EXTENDS Statements, FiniteSetTheorems, WellFoundedInduction, TLAPS

\* The signals and the bits that occur, the leaves a tree can have, the trees.
Names   == {v[1] : v \in Targets}
Whole   == {v[1] : v \in {w \in Targets : w[2] = {}}}
Bits    == UNION {v[2] : v \in Targets}
Loops   == Names \X {{"DDP"}}
Tests   == {<<q, CalType({"ASS"}, {type})>> : q \in Conds, type \in {"LOG", "EQU", "DAT"}}
Keys    == (UNION {DOMAIN f : f \in Rhs}) \cup Loops \cup Tests
Sources == Bits \cup UNION {UNION {f[k] : k \in DOMAIN f} : f \in Rhs}

LeafMaps == UNION {[D -> SUBSET Sources] : D \in SUBSET Keys}
Trees    == [name : Names, select : SUBSET Bits, leaves : LeafMaps]

\* Leaves are a function from keys to sets of bits.
LEMMA LeafMapFacts ==
  ASSUME NEW f
  PROVE  f \in LeafMaps <=> /\ f = [k \in DOMAIN f |-> f[k]]
                            /\ DOMAIN f \subseteq Keys
                            /\ \A k \in DOMAIN f : f[k] \subseteq Sources
<1>1. ASSUME f \in LeafMaps
      PROVE  /\ f = [k \in DOMAIN f |-> f[k]]
             /\ DOMAIN f \subseteq Keys
             /\ \A k \in DOMAIN f : f[k] \subseteq Sources
  <2>1. PICK D \in SUBSET Keys : f \in [D -> SUBSET Sources]
    BY <1>1 DEF LeafMaps
  <2> QED BY <2>1
<1>2. ASSUME f = [k \in DOMAIN f |-> f[k]], DOMAIN f \subseteq Keys,
             \A k \in DOMAIN f : f[k] \subseteq Sources
      PROVE  f \in LeafMaps
  <2>1. f \in [DOMAIN f -> SUBSET Sources]
    BY <1>2
  <2> QED BY <1>2, <2>1 DEF LeafMaps
<1> QED BY <1>1, <1>2

\* RTree::combine: the leaves of both; in sequence, of the second those that are
\* no default self loops.
LEMMA CombineLeavesFacts ==
  ASSUME NEW t \in LeafMaps, NEW u \in LeafMaps, NEW seq \in BOOLEAN
  PROVE  /\ CombineLeaves(t, u, seq) \in LeafMaps
         /\ DOMAIN CombineLeaves(t, u, seq) =
              DOMAIN t \cup {k \in DOMAIN u : ~seq \/ k[2] # {"DDP"}}
<1> DEFINE added == {k \in DOMAIN u : ~seq \/ k[2] # {"DDP"}}
           both(k) == (IF k \in DOMAIN t THEN t[k] ELSE {}) \cup (IF k \in added THEN u[k] ELSE {})
           f == [k \in DOMAIN t \cup added |-> both(k)]
<1>1. CombineLeaves(t, u, seq) = f
  BY DEF CombineLeaves
<1>2. /\ DOMAIN t \subseteq Keys /\ \A k \in DOMAIN t : t[k] \subseteq Sources
      /\ DOMAIN u \subseteq Keys /\ \A k \in DOMAIN u : u[k] \subseteq Sources
  BY LeafMapFacts
<1>3. \A k \in DOMAIN t \cup added : both(k) \subseteq Sources
  BY <1>2
<1>4. DOMAIN f = DOMAIN t \cup added /\ DOMAIN f \subseteq Keys
  BY <1>2
<1>5. f = [k \in DOMAIN f |-> f[k]] /\ \A k \in DOMAIN f : f[k] \subseteq Sources
  BY <1>3, <1>4
<1>6. f \in LeafMaps
  BY <1>4, <1>5, LeafMapFacts
<1> HIDE DEF f
<1> QED BY <1>1, <1>4, <1>6

\* The same of trees; name and range stay.
LEMMA CombineTreeFacts ==
  ASSUME NEW t \in Trees, NEW u, u.leaves \in LeafMaps, NEW seq \in BOOLEAN
  PROVE  /\ CombineTree(t, u, seq) \in Trees
         /\ CombineTree(t, u, seq).name = t.name
         /\ CombineTree(t, u, seq).select = t.select
         /\ DOMAIN CombineTree(t, u, seq).leaves =
              DOMAIN t.leaves \cup {k \in DOMAIN u.leaves : ~seq \/ k[2] # {"DDP"}}
<1>1. /\ CombineLeaves(t.leaves, u.leaves, seq) \in LeafMaps
      /\ DOMAIN CombineLeaves(t.leaves, u.leaves, seq) =
              DOMAIN t.leaves \cup {k \in DOMAIN u.leaves : ~seq \/ k[2] # {"DDP"}}
  <2> DEFINE l == t.leaves
             m == u.leaves
  <2>1. l \in LeafMaps /\ m \in LeafMaps
    BY DEF Trees
  <2> HIDE DEF l, m
  <2>2. /\ CombineLeaves(l, m, seq) \in LeafMaps
        /\ DOMAIN CombineLeaves(l, m, seq) = DOMAIN l \cup {k \in DOMAIN m : ~seq \/ k[2] # {"DDP"}}
    BY <2>1, CombineLeavesFacts
  <2> QED BY <2>2 DEF l, m
<1>2. CombineTree(t, u, seq) = [t EXCEPT !.leaves = CombineLeaves(t.leaves, u.leaves, seq)]
  BY DEF CombineTree
<1> QED BY <1>1, <1>2 DEF Trees

\* A tree that is cut down to some bits keeps its name and its leaves.
LEMMA CutFacts ==
  ASSUME NEW t \in Trees, NEW bits \in SUBSET Bits
  PROVE  /\ [t EXCEPT !.select = bits] \in Trees
         /\ [t EXCEPT !.select = bits].name = t.name
         /\ [t EXCEPT !.select = bits].select = bits
         /\ [t EXCEPT !.select = bits].leaves = t.leaves
BY DEF Trees

-----------------------------------------------------------------------------
\* A tree is of a bit, a forest has a tree of it, and that tree has the leaf.
Carries(t, c) == c \in CellsOf(t.name, t.select)
On(F, c)      == \E k \in DOMAIN F : Carries(F[k], c)
Has(F, c, key) == \E k \in DOMAIN F : Carries(F[k], c) /\ key \in DOMAIN F[k].leaves

\* The range is empty exactly if the signal has none.
Fit(t) == t \in Trees /\ (t.select = {} <=> t.name \in Whole)

\* The trees of a signal share no bit.
Apart(F) ==
    \A j, k \in DOMAIN F :
      j # k /\ F[j].name = F[k].name =>
        F[j].select # {} /\ F[j].select \cap F[k].select = {}

\* The invariant of a forest.
Good(F) == /\ F \in Seq(Trees)
           /\ \A k \in DOMAIN F : Fit(F[k])
           /\ Apart(F)

\* Of the bits and leaves that the properties speak of.
LEMMA OnCells ==
  ASSUME NEW F, NEW c
  PROVE  c \in Cells(F) <=> On(F, c)
<1>1. ToSet(F) = {F[k] : k \in DOMAIN F}
  BY DEF ToSet
<1> QED BY <1>1 DEF Cells, On, Carries

\* The same of a leaf.
LEMMA HasLeaves ==
  ASSUME NEW F, NEW c, NEW key
  PROVE  key \in Leaves(F, c) <=> Has(F, c, key)
<1>1. ToSet(F) = {F[k] : k \in DOMAIN F}
  BY DEF ToSet
<1> QED BY <1>1 DEF Leaves, Has, Carries

\* The bits of a tree; that of a signal without range is bit 0.
LEMMA CarriesFacts ==
  ASSUME NEW t, NEW c
  PROVE  /\ Carries(t, c) <=> IF t.select = {} THEN c = <<t.name, 0>>
                              ELSE c = <<t.name, c[2]>> /\ c[2] \in t.select
         /\ Carries(t, c) => c[1] = t.name
BY DEF Carries, CellsOf

\* Two trees of different signals or with disjoint ranges have no bit in common.
LEMMA OneCarries ==
  ASSUME NEW F, Apart(F), NEW j \in DOMAIN F, NEW k \in DOMAIN F, NEW c,
         Carries(F[j], c), Carries(F[k], c)
  PROVE  j = k
<1>1. SUFFICES ASSUME j # k PROVE FALSE
  OBVIOUS
<1>2. F[j].name = F[k].name
  BY CarriesFacts
<1>3. F[j].select # {} /\ F[k].select # {} /\ F[j].select \cap F[k].select = {}
  BY <1>1, <1>2 DEF Apart
<1> QED BY <1>3, CarriesFacts

\* The entries of two sequences in a row.
LEMMA EntriesConcat ==
  ASSUME NEW S, NEW p \in Seq(S), NEW q \in Seq(S)
  PROVE  p \o q \in Seq(S) /\ ToSet(p \o q) = ToSet(p) \cup ToSet(q)
<1>1. p \o q \in Seq(S) /\ Len(p \o q) = Len(p) + Len(q)
  OBVIOUS
<1>2. ASSUME NEW x \in ToSet(p \o q) PROVE x \in ToSet(p) \cup ToSet(q)
  <2>1. PICK k \in 1 .. Len(p) + Len(q) : x = (p \o q)[k]
    BY <1>1 DEF ToSet
  <2>2. CASE k <= Len(p)
    BY <2>1, <2>2 DEF ToSet
  <2>3. CASE k > Len(p)
    <3>1. x = q[k - Len(p)] /\ k - Len(p) \in 1 .. Len(q)
      BY <2>1, <2>3
    <3> QED BY <3>1 DEF ToSet
  <2> QED BY <2>2, <2>3
<1>3. ASSUME NEW x \in ToSet(p) PROVE x \in ToSet(p \o q)
  <2>1. PICK k \in 1 .. Len(p) : x = p[k]
    BY DEF ToSet
  <2>2. x = (p \o q)[k] /\ k \in 1 .. Len(p) + Len(q)
    BY <2>1
  <2> QED BY <1>1, <2>2 DEF ToSet
<1>4. ASSUME NEW x \in ToSet(q) PROVE x \in ToSet(p \o q)
  <2>1. PICK k \in 1 .. Len(q) : x = q[k]
    BY DEF ToSet
  <2>2. x = (p \o q)[Len(p) + k] /\ Len(p) + k \in 1 .. Len(p) + Len(q)
    BY <2>1
  <2> QED BY <1>1, <2>2 DEF ToSet
<1> QED BY <1>1, <1>2, <1>3, <1>4

\* The entries of a sequence are its first one and the others.
LEMMA EntriesHead ==
  ASSUME NEW S, NEW q \in Seq(S), q # <<>>
  PROVE  Tail(q) \in Seq(S) /\ Head(q) \in S /\ ToSet(q) = {Head(q)} \cup ToSet(Tail(q))
<1>1. Tail(q) \in Seq(S) /\ Len(Tail(q)) = Len(q) - 1 /\ Head(q) = q[1] /\ Len(q) \in Nat \ {0}
  OBVIOUS
<1>2. ASSUME NEW x \in ToSet(q) PROVE x \in {Head(q)} \cup ToSet(Tail(q))
  <2>1. PICK k \in 1 .. Len(q) : x = q[k]
    BY DEF ToSet
  <2>2. CASE k = 1
    BY <1>1, <2>1, <2>2
  <2>3. CASE k > 1
    <3>1. k - 1 \in 1 .. Len(Tail(q)) /\ k - 1 \in DOMAIN Tail(q)
      BY <1>1, <2>1, <2>3
    <3>2. \A j \in 1 .. Len(q) - 1 : Tail(q)[j] = q[j + 1]
      OBVIOUS
    <3>3. x = Tail(q)[k - 1]
      BY <1>1, <2>1, <3>1, <3>2
    <3> QED BY <3>1, <3>3 DEF ToSet
  <2> QED BY <2>2, <2>3
<1>3. ASSUME NEW x \in ToSet(Tail(q)) PROVE x \in ToSet(q)
  <2>1. PICK k \in 1 .. Len(q) - 1 : x = Tail(q)[k]
    BY <1>1 DEF ToSet
  <2>2. x = q[k + 1] /\ k + 1 \in 1 .. Len(q)
    BY <1>1, <2>1
  <2> QED BY <2>2 DEF ToSet
<1>4. Head(q) \in ToSet(q) /\ Head(q) \in S
  BY <1>1 DEF ToSet
<1> QED BY <1>1, <1>2, <1>3, <1>4

\* A set of numbers has a least one.
LEMMA LeastOf ==
  ASSUME NEW I \in SUBSET Nat, I # {}
  PROVE  \E k \in I : \A j \in I : k <= j
<1> DEFINE R == OpToRel(<, Nat)
           Less(j, k) == <<j, k>> \in R
<1>1. IsWellFoundedOn(R, Nat)
  BY NatLessThanWellFounded
<1>2. \A j, k \in Nat : j < k => Less(j, k)
  BY DEF OpToRel
<1>3. \E k \in I : \A j \in I : ~Less(j, k)
  <2> HIDE DEF R
  <2> QED BY <1>1, WFMin
<1> HIDE DEF Less
<1>4. PICK k \in I : \A j \in I : ~Less(j, k)
  BY <1>3
<1>5. ASSUME NEW j \in I
      PROVE  k <= j
  <2>1. ~(j < k)
    BY <1>2, <1>4
  <2> QED BY <2>1
<1> QED BY <1>5

\* What holds at 0 and is handed on to the next number holds up to N.
LEMMA UpTo ==
  ASSUME NEW N \in Nat, NEW I, 0 \in I, \A k \in 0 .. N : k \in I /\ k < N => k + 1 \in I
  PROVE  \A k \in 0 .. N : k \in I
<1> DEFINE T == {k \in 0 .. N : k \notin I}
<1>1. SUFFICES ASSUME T # {} PROVE FALSE
  OBVIOUS
<1>2. T \in SUBSET Nat
  OBVIOUS
<1>3. PICK k \in T : \A j \in T : k <= j
  BY <1>1, <1>2, LeastOf
<1>4. k # 0 /\ k - 1 \in 0 .. N /\ k - 1 < N
  BY <1>3
<1>5. k - 1 \in I
  BY <1>3, <1>4
<1>6. k - 1 + 1 \in I
  BY <1>4, <1>5
<1> QED BY <1>3, <1>4, <1>6

\* The recursive function of RForest::add satisfies its definition: after each
\* call stands what that call makes of the state before.
LEMMA AddCallsDef ==
  ASSUME NEW F, Len(F) \in Nat, NEW t, NEW seq
  PROVE  AddCalls(F, t, seq) =
           [n \in 0 .. 2 * Len(F) + 1 |->
              IF n = 0 THEN [forest |-> F, todo |-> <<[tree |-> t, seq |-> seq]>>]
                       ELSE AddCall(AddCalls(F, t, seq)[n - 1])]
<1> DEFINE M == 2 * Len(F) + 1
           init == [forest |-> F, todo |-> <<[tree |-> t, seq |-> seq]>>]
           Body(n, s) == IF n = 0 THEN init ELSE AddCall(s[n - 1])
           I == {m \in Nat : \E s : s = [n \in 0 .. m |-> Body(n, s)]}
<1>1. AddCalls(F, t, seq) = CHOOSE s : s = [n \in 0 .. M |-> Body(n, s)]
  BY DEF AddCalls
<1>2. M \in Nat
  OBVIOUS
<1> HIDE DEF M, init
<1>3. 0 \in I
  <2> DEFINE s == [n \in 0 .. 0 |-> init]
  <2>1. s = [n \in 0 .. 0 |-> Body(n, s)]
    BY DEF Body
  <2> HIDE DEF s
  <2> QED BY <2>1
<1>4. ASSUME NEW m \in 0 .. M, m \in I PROVE m + 1 \in I
  <2>1. PICK s : s = [n \in 0 .. m |-> Body(n, s)]
    BY <1>4
  <2> DEFINE r == [n \in 0 .. m + 1 |-> IF n = m + 1 THEN AddCall(s[m]) ELSE s[n]]
  <2>2. ASSUME NEW n \in 0 .. m + 1 PROVE r[n] = Body(n, r)
    <3>1. CASE n = m + 1
      <4>1. r[m] = s[m] /\ n # 0 /\ n - 1 = m
        BY <3>1
      <4> QED BY <3>1, <4>1
    <3>2. CASE n # m + 1
      <4>1. n \in 0 .. m /\ s[n] = Body(n, s) /\ r[n] = s[n]
        BY <2>1, <3>2
      <4>2. CASE n = 0
        BY <4>1, <4>2
      <4>3. CASE n # 0
        <5>1. n - 1 \in 0 .. m + 1 /\ n - 1 # m + 1
          BY <4>3, <3>2
        <5>2. r[n - 1] = s[n - 1]
          BY <5>1
        <5> QED BY <4>1, <4>3, <5>2
      <4> QED BY <4>2, <4>3
    <3> QED BY <3>1, <3>2
  <2>3. r = [n \in 0 .. m + 1 |-> r[n]]
    OBVIOUS
  <2>4. r = [n \in 0 .. m + 1 |-> Body(n, r)]
    <3> HIDE DEF r, Body
    <3> QED BY <2>2, <2>3
  <2> HIDE DEF r
  <2> QED BY <2>4
<1>5. M \in I
  <2> HIDE DEF I
  <2>1. \A m \in 0 .. M : m \in I /\ m < M => m + 1 \in I
    BY <1>4
  <2>2. \A m \in 0 .. M : m \in I
    BY <1>2, <1>3, <2>1, UpTo
  <2> QED BY <1>2, <2>2
<1>6. \E s : s = [n \in 0 .. M |-> Body(n, s)]
  BY <1>5
<1> HIDE DEF I
<1>7. AddCalls(F, t, seq) = [n \in 0 .. M |-> Body(n, AddCalls(F, t, seq))]
  <2> DEFINE P(s) == s = [n \in 0 .. M |-> Body(n, s)]
  <2>1. \E s : P(s)
    BY <1>6
  <2>2. AddCalls(F, t, seq) = CHOOSE s : P(s)
    BY <1>1
  <2> HIDE DEF P
  <2>3. P(AddCalls(F, t, seq))
    BY <2>1, <2>2
  <2> QED BY <2>3 DEF P
<1> QED BY <1>7 DEF M, init, Body

-----------------------------------------------------------------------------
\* The calls of RForest::add that wait, and the states between two calls.
Calls == [tree : Trees, seq : BOOLEAN]

Agendas == [forest : Seq(Trees), todo : Seq(Calls)]

\* What a call does, when the new tree shares bits with none and when the
\* first with which it does is at k.
Appended(s) == [forest |-> Append(s.forest, Head(s.todo).tree), todo |-> Tail(s.todo)]

Split(s, k) ==
    LET t      == Head(s.todo).tree
        shared == s.forest[k].select \cap t.select
    IN  [forest |-> [s.forest EXCEPT ![k] =
                       CombineTree([s.forest[k] EXCEPT !.select = shared], t, Head(s.todo).seq)],
         todo   |-> Waiting(s.forest[k], shared) \o Waiting(t, shared) \o Tail(s.todo)]

\* The first tree that shares bits with the new one.
FirstHit(s, k) ==
    /\ Meets(s.forest[k], Head(s.todo).tree)
    /\ \A j \in DOMAIN s.forest : Meets(s.forest[j], Head(s.todo).tree) => k <= j

\* A call of RForest::add appends the tree or splits the first it meets.
LEMMA AddCallCases ==
  ASSUME NEW s \in Agendas, s.todo # <<>>
  PROVE  \/ /\ \A j \in DOMAIN s.forest : ~Meets(s.forest[j], Head(s.todo).tree)
            /\ AddCall(s) = Appended(s)
         \/ \E k \in DOMAIN s.forest : FirstHit(s, k) /\ AddCall(s) = Split(s, k)
<1> DEFINE t    == Head(s.todo).tree
           hits == {k \in DOMAIN s.forest : Meets(s.forest[k], t)}
           Low(k) == \A i \in hits : k <= i
           h == CHOOSE k \in hits : Low(k)
<1>1. s.forest \in Seq(Trees) /\ hits \in SUBSET Nat
  BY DEF Agendas
<1>2. CASE hits = {}
  BY <1>2 DEF AddCall, Appended
<1>3. CASE hits # {}
  <2>1. \E k \in hits : Low(k)
    <3> HIDE DEF hits
    <3> QED BY <1>1, <1>3, LeastOf
  <2> HIDE DEF Low
  <2>2. h \in hits /\ Low(h)
    BY <2>1
  <2> USE DEF Low
  <2>3. h \in DOMAIN s.forest /\ FirstHit(s, h)
    BY <2>2 DEF FirstHit
  <2>4. AddCall(s) = Split(s, h)
    BY <1>3 DEF AddCall, Split
  <2> QED BY <2>3, <2>4
<1> QED BY <1>2, <1>3

\* What waits: the rest of a tree, if any, with all its leaves.
LEMMA WaitingFacts ==
  ASSUME NEW t, Fit(t), NEW u, Fit(u), Meets(t, u), NEW bits, bits = t.select \cap u.select
  PROVE  /\ Waiting(t, bits) \in Seq(Calls)
         /\ Rest(t, bits) = {} => Waiting(t, bits) = <<>> /\ ToSet(Waiting(t, bits)) = {}
         /\ Rest(t, bits) # {} =>
              \E r : /\ Waiting(t, bits) = <<r>> /\ ToSet(Waiting(t, bits)) = {r}
                     /\ r \in Calls /\ r.seq = FALSE /\ Fit(r.tree)
                     /\ r.tree.name = t.name /\ r.tree.leaves = t.leaves
                     /\ r.tree.select = t.select \ bits /\ r.tree.select # {}
<1>0. t \in Trees /\ t.select \subseteq Bits
  BY DEF Fit, Trees
<1>1. CASE Rest(t, bits) = {}
  <2>1. Waiting(t, bits) = <<>>
    BY <1>1 DEF Waiting
  <2>2. <<>> \in Seq(Calls) /\ ToSet(<<>>) = {}
    BY DEF ToSet
  <2> QED BY <1>1, <2>1, <2>2
<1>2. CASE Rest(t, bits) # {}
  <2> DEFINE v == [t EXCEPT !.select = Rest(t, bits)]
             r == [tree |-> v, seq |-> FALSE]
  <2>1. Rest(t, bits) = t.select \ bits
    BY DEF Rest
  <2>2. /\ v \in Trees /\ v.name = t.name /\ v.leaves = t.leaves
        /\ v.select = t.select \ bits
    BY <1>0, <2>1, CutFacts
  <2>3. t.select # {} /\ v.select # {}
    BY <1>2, <2>1, <2>2
  <2>4. Fit(v)
    BY <2>2, <2>3 DEF Fit
  <2>5. Waiting(t, bits) = <<r>>
    BY <1>2 DEF Waiting
  <2> HIDE DEF v
  <2>6. r \in Calls /\ r.seq = FALSE /\ r.tree = v
    BY <2>2 DEF Calls
  <2> HIDE DEF r
  <2>7. <<r>> \in Seq(Calls) /\ ToSet(<<r>>) = {r}
    BY <2>6 DEF ToSet
  <2> QED BY <1>2, <2>2, <2>3, <2>4, <2>5, <2>6, <2>7
<1> QED BY <1>1, <1>2

\* A bit of a tree that is split is shared with the other tree, or waits.
LEMMA Pieces ==
  ASSUME NEW t, Fit(t), NEW u, Fit(u), Meets(t, u), NEW bits, bits = t.select \cap u.select, NEW c
  PROVE  /\ Carries(t, c) <=> \/ c \in CellsOf(t.name, bits)
                              \/ \E a \in ToSet(Waiting(t, bits)) : Carries(a.tree, c)
         /\ c \in CellsOf(t.name, bits) => Carries(t, c) /\ Carries(u, c)
<1>1. t.name = u.name /\ (bits # {} \/ t.select = u.select)
  BY DEF Meets
<1>2. bits = {} <=> t.select = {} /\ u.select = {}
  BY <1>1
<1>3. CASE bits = {}
  <2>1. Rest(t, bits) = {}
    BY <1>2, <1>3 DEF Rest
  <2>2. ToSet(Waiting(t, bits)) = {}
    BY <2>1, WaitingFacts
  <2> QED BY <1>1, <1>2, <1>3, <2>2 DEF Carries
<1>4. CASE bits # {}
  <2>1. /\ Carries(t, c) <=> c = <<t.name, c[2]>> /\ c[2] \in t.select
        /\ Carries(u, c) <=> c = <<u.name, c[2]>> /\ c[2] \in u.select
        /\ c \in CellsOf(t.name, bits) <=> c = <<t.name, c[2]>> /\ c[2] \in bits
    BY <1>4 DEF Carries, CellsOf
  <2>2. CASE Rest(t, bits) = {}
    <3>1. ToSet(Waiting(t, bits)) = {}
      BY <2>2, WaitingFacts
    <3>2. t.select = bits
      BY <2>2 DEF Rest
    <3> QED BY <1>1, <2>1, <3>1, <3>2
  <2>3. CASE Rest(t, bits) # {}
    <3>1. PICK r : /\ ToSet(Waiting(t, bits)) = {r}
                   /\ r.tree.name = t.name
                   /\ r.tree.select = t.select \ bits /\ r.tree.select # {}
      BY <2>3, WaitingFacts
    <3>2. Carries(r.tree, c) <=> c = <<t.name, c[2]>> /\ c[2] \in t.select \ bits
      BY <3>1 DEF Carries, CellsOf
    <3> QED BY <1>1, <2>1, <3>1, <3>2
  <2> QED BY <2>2, <2>3
<1> QED BY <1>3, <1>4

\* A forest stays good when a tree that meets none of its own is appended.
LEMMA AppendGood ==
  ASSUME NEW F, Good(F), NEW t, Fit(t), \A k \in DOMAIN F : ~Meets(F[k], t)
  PROVE  /\ Good(Append(F, t))
         /\ \A c : On(Append(F, t), c) <=> On(F, c) \/ Carries(t, c)
         /\ \A c, key : Has(Append(F, t), c, key) <=>
                          Has(F, c, key) \/ (Carries(t, c) /\ key \in DOMAIN t.leaves)
<1> DEFINE G == Append(F, t)
           n == Len(F) + 1
<1>1. F \in Seq(Trees) /\ t \in Trees /\ Len(F) \in Nat
  BY DEF Good, Fit
<1>2. /\ G \in Seq(Trees) /\ DOMAIN G = 1 .. n /\ DOMAIN F = 1 .. Len(F)
      /\ G[n] = t /\ \A k \in DOMAIN F : G[k] = F[k]
  BY <1>1
<1>3. n \notin DOMAIN F /\ DOMAIN G = DOMAIN F \cup {n}
  BY <1>1, <1>2
<1> HIDE DEF G, n
<1>4. ASSUME NEW k \in DOMAIN F, F[k].name = t.name
      PROVE  F[k].select # {} /\ t.select # {} /\ F[k].select \cap t.select = {}
  BY <1>4 DEF Good, Fit, Meets
<1>5. Apart(G)
  <2>1. SUFFICES ASSUME NEW j \in DOMAIN G, NEW k \in DOMAIN G, j # k, G[j].name = G[k].name
                 PROVE  G[j].select # {} /\ G[j].select \cap G[k].select = {}
    BY DEF Apart
  <2>2. CASE j \in DOMAIN F /\ k \in DOMAIN F
    BY <1>2, <2>1, <2>2 DEF Good, Apart
  <2>3. CASE j = n /\ k \in DOMAIN F
    BY <1>2, <1>4, <2>1, <2>3
  <2>4. CASE k = n /\ j \in DOMAIN F
    BY <1>2, <1>4, <2>1, <2>4
  <2> QED BY <1>3, <2>1, <2>2, <2>3, <2>4
<1>6. \A k \in DOMAIN G : Fit(G[k])
  BY <1>2, <1>3 DEF Good
<1>7. \A c : On(G, c) <=> On(F, c) \/ Carries(t, c)
  BY <1>2, <1>3 DEF On
<1>8. \A c, key : Has(G, c, key) <=> Has(F, c, key) \/ (Carries(t, c) /\ key \in DOMAIN t.leaves)
  BY <1>2, <1>3 DEF Has
<1> QED BY <1>2, <1>5, <1>6, <1>7, <1>8 DEF Good, G

\* Or when one of its trees is cut down and gets more leaves.
LEMMA ReplaceGood ==
  ASSUME NEW F, Good(F), NEW k \in DOMAIN F, NEW t, Fit(t),
         t.name = F[k].name, t.select \subseteq F[k].select
  PROVE  /\ Good([F EXCEPT ![k] = t])
         /\ \A c : On([F EXCEPT ![k] = t], c) <=>
                     Carries(t, c) \/ \E j \in DOMAIN F \ {k} : Carries(F[j], c)
         /\ \A c, key : Has([F EXCEPT ![k] = t], c, key) <=>
                          \/ Carries(t, c) /\ key \in DOMAIN t.leaves
                          \/ \E j \in DOMAIN F \ {k} : Carries(F[j], c) /\ key \in DOMAIN F[j].leaves
<1> DEFINE G == [F EXCEPT ![k] = t]
<1>1. F \in Seq(Trees) /\ t \in Trees
  BY DEF Good, Fit
<1>2. /\ G \in Seq(Trees) /\ DOMAIN G = DOMAIN F
      /\ G[k] = t /\ \A j \in DOMAIN F \ {k} : G[j] = F[j]
  BY <1>1
<1> HIDE DEF G
<1>3. ASSUME NEW j \in DOMAIN F \ {k}, F[j].name = t.name
      PROVE  F[j].select # {} /\ t.select # {} /\ F[j].select \cap t.select = {}
  BY <1>3 DEF Good, Fit, Apart
<1>4. Apart(G)
  BY <1>2, <1>3 DEF Apart, Good
<1>5. \A j \in DOMAIN G : Fit(G[j])
  BY <1>2 DEF Good
<1> QED BY <1>2, <1>4, <1>5 DEF Good, On, Has, G

-----------------------------------------------------------------------------
\* What t owes the forest: its leaves, but in sequence no default self loop of
\* a bit that F assigns.
Owed(F, t, seq, c, key) ==
    Carries(t, c) /\ key \in DOMAIN t.leaves /\ (~seq \/ key[2] # {"DDP"} \/ ~On(F, c))

\* Between two calls, the forest and the calls that wait stand for F with t
\* added: the same bits, no leaf of another origin, and none is lost.
Agenda(F, t, seq, s) ==
    /\ s \in Agendas
    /\ Good(s.forest)
    /\ \A a \in ToSet(s.todo) : Fit(a.tree)
    /\ s.todo # <<>> => \A a \in ToSet(Tail(s.todo)) : ~a.seq
    /\ \A c : On(s.forest, c) \/ (\E a \in ToSet(s.todo) : Carries(a.tree, c))
                <=> On(F, c) \/ Carries(t, c)
    /\ \A c, key :
         Has(s.forest, c, key) \/ (\E a \in ToSet(s.todo) : Carries(a.tree, c) /\ key \in DOMAIN a.tree.leaves)
           => Has(F, c, key) \/ (Carries(t, c) /\ key \in DOMAIN t.leaves)
    /\ \A c, key :
         Has(F, c, key) \/ Owed(F, t, seq, c, key)
           => \/ Has(s.forest, c, key)
              \/ \E a \in ToSet(s.todo) : Owed(s.forest, a.tree, a.seq, c, key)

\* All that waits after a split fits and is no longer in sequence.
LEMMA WaitingSet ==
  ASSUME NEW t, Fit(t), NEW u, Fit(u), Meets(t, u), NEW bits, bits = t.select \cap u.select
  PROVE  /\ Waiting(t, bits) \in Seq(Calls)
         /\ \A a \in ToSet(Waiting(t, bits)) : Fit(a.tree) /\ ~a.seq /\ a.tree.leaves = t.leaves
<1>1. CASE Rest(t, bits) = {}
  BY <1>1, WaitingFacts
<1>2. CASE Rest(t, bits) # {}
  <2>1. PICK r : /\ ToSet(Waiting(t, bits)) = {r}
                 /\ r.seq = FALSE /\ Fit(r.tree) /\ r.tree.leaves = t.leaves
    BY <1>2, WaitingFacts
  <2> QED BY <2>1, WaitingFacts
<1> QED BY <1>1, <1>2

\* The entries of three sequences in a row.
LEMMA ConcatThree ==
  ASSUME NEW S, NEW p \in Seq(S), NEW q \in Seq(S), NEW r \in Seq(S)
  PROVE  /\ p \o q \o r \in Seq(S)
         /\ ToSet(p \o q \o r) = ToSet(p) \cup ToSet(q) \cup ToSet(r)
<1> DEFINE x == p \o q
<1>1. x \in Seq(S) /\ ToSet(x) = ToSet(p) \cup ToSet(q)
  BY EntriesConcat
<1> HIDE DEF x
<1>2. x \o r \in Seq(S) /\ ToSet(x \o r) = ToSet(x) \cup ToSet(r)
  BY <1>1, EntriesConcat
<1> QED BY <1>1, <1>2 DEF x

\* It holds at the first call.
LEMMA AgendaStart ==
  ASSUME NEW F, Good(F), NEW t, Fit(t), NEW seq \in BOOLEAN
  PROVE  Agenda(F, t, seq, [forest |-> F, todo |-> <<[tree |-> t, seq |-> seq]>>])
<1> DEFINE a == [tree |-> t, seq |-> seq]
           q == <<a>>
           s == [forest |-> F, todo |-> q]
<1>1. F \in Seq(Trees) /\ t \in Trees
  BY DEF Good, Fit
<1>2. a \in Calls /\ a.tree = t /\ a.seq = seq
  BY <1>1 DEF Calls
<1> HIDE DEF a
<1>3. q \in Seq(Calls) /\ ToSet(q) = {a} /\ Tail(q) = <<>> /\ ToSet(<<>>) = {}
  BY <1>2 DEF ToSet
<1> HIDE DEF q
<1>4. s \in Agendas /\ s.forest = F /\ s.todo = q
  BY <1>1, <1>3 DEF Agendas
<1> HIDE DEF s
<1>5. Agenda(F, t, seq, s)
  BY <1>2, <1>3, <1>4 DEF Agenda, Owed
<1> QED BY <1>5 DEF s, q, a

\* It holds after a call that appends.
LEMMA AgendaAppend ==
  ASSUME NEW F, NEW t, NEW seq, NEW s, Agenda(F, t, seq, s), s.todo # <<>>,
         \A j \in DOMAIN s.forest : ~Meets(s.forest[j], Head(s.todo).tree)
  PROVE  Agenda(F, t, seq, Appended(s))
<1> DEFINE h == Head(s.todo)
           q == Tail(s.todo)
           G == Append(s.forest, h.tree)
           r == Appended(s)
<1>1. s.forest \in Seq(Trees) /\ s.todo \in Seq(Calls)
  BY DEF Agenda, Agendas
<1>2. q \in Seq(Calls) /\ h \in Calls /\ ToSet(s.todo) = {h} \cup ToSet(q)
  BY <1>1, EntriesHead
<1>3. Fit(h.tree) /\ Good(s.forest)
  BY <1>2 DEF Agenda
<1>4. /\ Good(G)
      /\ \A c : On(G, c) <=> On(s.forest, c) \/ Carries(h.tree, c)
      /\ \A c, key : Has(G, c, key) <=>
                       Has(s.forest, c, key) \/ (Carries(h.tree, c) /\ key \in DOMAIN h.tree.leaves)
  BY <1>3, AppendGood
<1>5. q # <<>> => ToSet(Tail(q)) \subseteq ToSet(q)
  BY <1>2, EntriesHead
<1>6. r = [forest |-> G, todo |-> q]
  BY DEF Appended
<1>7. r \in Agendas /\ r.forest = G /\ r.todo = q
  BY <1>2, <1>4, <1>6 DEF Agendas, Good
<1>8. \A a \in ToSet(q) : Fit(a.tree) /\ ~a.seq
  BY <1>2 DEF Agenda
<1> HIDE DEF G, q, h, r
<1>9. \A c : On(G, c) \/ (\E a \in ToSet(q) : Carries(a.tree, c))
                <=> On(F, c) \/ Carries(t, c)
  BY <1>2, <1>4 DEF Agenda
<1>10. \A c, key :
         Has(G, c, key) \/ (\E a \in ToSet(q) : Carries(a.tree, c) /\ key \in DOMAIN a.tree.leaves)
           => Has(F, c, key) \/ (Carries(t, c) /\ key \in DOMAIN t.leaves)
  BY <1>2, <1>4 DEF Agenda
<1>11. \A c, key :
         Has(F, c, key) \/ Owed(F, t, seq, c, key)
           => \/ Has(G, c, key)
              \/ \E a \in ToSet(q) : Owed(G, a.tree, a.seq, c, key)
  BY <1>2, <1>4, <1>8 DEF Agenda, Owed
<1>12. Agenda(F, t, seq, r)
  BY <1>4, <1>5, <1>7, <1>8, <1>9, <1>10, <1>11 DEF Agenda
<1> QED BY <1>12 DEF r

\* And after a call that splits a tree: what the two trees share is combined,
\* what is left of both waits.
LEMMA AgendaSplit ==
  ASSUME NEW F, NEW t, NEW seq, NEW s, Agenda(F, t, seq, s), s.todo # <<>>,
         NEW k \in DOMAIN s.forest, Meets(s.forest[k], Head(s.todo).tree)
  PROVE  Agenda(F, t, seq, Split(s, k))
<1> DEFINE h == Head(s.todo)
           q == Tail(s.todo)
           u == h.tree
           old == s.forest[k]
           shared == old.select \cap u.select
           cut == [old EXCEPT !.select = shared]
           new == CombineTree(cut, u, h.seq)
           G == [s.forest EXCEPT ![k] = new]
           w1 == Waiting(old, shared)
           w2 == Waiting(u, shared)
           r == Split(s, k)
<1>1. s.forest \in Seq(Trees) /\ s.todo \in Seq(Calls) /\ Good(s.forest)
  BY DEF Agenda, Agendas
<1>2. q \in Seq(Calls) /\ h \in Calls /\ ToSet(s.todo) = {h} \cup ToSet(q)
  BY <1>1, EntriesHead
<1>3. Fit(u) /\ Fit(old) /\ Meets(old, u) /\ h.seq \in BOOLEAN
  BY <1>1, <1>2 DEF Agenda, Good, Calls
<1>4. old \in Trees /\ u \in Trees /\ u.leaves \in LeafMaps /\ shared \subseteq Bits
  BY <1>3 DEF Fit, Trees
<1>5. cut \in Trees /\ cut.name = old.name /\ cut.select = shared /\ cut.leaves = old.leaves
  BY <1>4, CutFacts
<1>6. /\ new \in Trees /\ new.name = old.name /\ new.select = shared
      /\ DOMAIN new.leaves =
           DOMAIN old.leaves \cup {key \in DOMAIN u.leaves : ~h.seq \/ key[2] # {"DDP"}}
  <2> HIDE DEF cut, shared, u, old
  <2> DEFINE b == h.seq
  <2>1. b \in BOOLEAN /\ cut \in Trees /\ u.leaves \in LeafMaps
    BY <1>3, <1>4, <1>5
  <2> HIDE DEF b
  <2>2. /\ CombineTree(cut, u, b) \in Trees
        /\ CombineTree(cut, u, b).name = cut.name
        /\ CombineTree(cut, u, b).select = cut.select
        /\ DOMAIN CombineTree(cut, u, b).leaves =
             DOMAIN cut.leaves \cup {key \in DOMAIN u.leaves : ~b \/ key[2] # {"DDP"}}
    BY <2>1, CombineTreeFacts
  <2> QED BY <1>5, <2>2 DEF b
<1>7. old.name = u.name /\ (shared = {} <=> old.select = {})
  BY <1>3 DEF Meets
<1>8. Fit(new) /\ new.select \subseteq old.select
  BY <1>3, <1>6, <1>7 DEF Fit
<1>9. r = [forest |-> G, todo |-> w1 \o w2 \o q]
  BY DEF Split
<1>10. s.forest[k] = old /\ shared = old.select \cap u.select /\ shared = u.select \cap old.select
  OBVIOUS
<1> HIDE DEF h, q, u, old, cut, new, r
<1> HIDE DEF shared
<1>11. /\ \A c : Carries(old, c) <=> \/ Carries(new, c)
                                     \/ \E a \in ToSet(w1) : Carries(a.tree, c)
       /\ \A c : Carries(new, c) => Carries(u, c) /\ Carries(old, c)
  <2>1. \A c : Carries(new, c) <=> c \in CellsOf(old.name, shared)
    BY <1>6 DEF Carries
  <2> QED BY <1>3, <1>10, <2>1, Pieces
<1>12. Meets(u, old)
  BY <1>3 DEF Meets
<1>13. \A c : Carries(u, c) <=> \/ Carries(new, c)
                                \/ \E a \in ToSet(w2) : Carries(a.tree, c)
  <2>1. \A c : Carries(new, c) <=> c \in CellsOf(u.name, shared)
    BY <1>6, <1>7 DEF Carries
  <2> QED BY <1>3, <1>10, <1>12, <2>1, Pieces
<1>14. /\ w1 \in Seq(Calls)
       /\ \A a \in ToSet(w1) : Fit(a.tree) /\ ~a.seq /\ a.tree.leaves = old.leaves
  BY <1>3, <1>10, WaitingSet
<1>15. /\ w2 \in Seq(Calls)
       /\ \A a \in ToSet(w2) : Fit(a.tree) /\ ~a.seq /\ a.tree.leaves = u.leaves
  BY <1>3, <1>10, <1>12, WaitingSet
<1> DEFINE todo == w1 \o w2 \o q
<1> HIDE DEF w1, w2
<1>16. todo \in Seq(Calls) /\ ToSet(todo) = ToSet(w1) \cup ToSet(w2) \cup ToSet(q)
  BY <1>2, <1>14, <1>15, ConcatThree
<1> HIDE DEF todo
<1>17. new.name = s.forest[k].name /\ new.select \subseteq s.forest[k].select
  BY <1>6, <1>8, <1>10
<1>18. /\ Good(G)
       /\ \A c : On(G, c) <=> Carries(new, c) \/ \E j \in DOMAIN s.forest \ {k} : Carries(s.forest[j], c)
       /\ \A c, key : Has(G, c, key) <=>
                        \/ Carries(new, c) /\ key \in DOMAIN new.leaves
                        \/ \E j \in DOMAIN s.forest \ {k} :
                             Carries(s.forest[j], c) /\ key \in DOMAIN s.forest[j].leaves
  <2> DEFINE f == s.forest
  <2>1. Good(f) /\ k \in DOMAIN f /\ new.name = f[k].name /\ new.select \subseteq f[k].select
    BY <1>1, <1>17
  <2> HIDE DEF f
  <2>2. /\ Good([f EXCEPT ![k] = new])
        /\ \A c : On([f EXCEPT ![k] = new], c) <=>
                     Carries(new, c) \/ \E j \in DOMAIN f \ {k} : Carries(f[j], c)
        /\ \A c, key : Has([f EXCEPT ![k] = new], c, key) <=>
                        \/ Carries(new, c) /\ key \in DOMAIN new.leaves
                        \/ \E j \in DOMAIN f \ {k} : Carries(f[j], c) /\ key \in DOMAIN f[j].leaves
    BY <1>8, <2>1, ReplaceGood
  <2> QED BY <2>2 DEF f
<1> HIDE DEF G
<1>19. r \in Agendas /\ r.forest = G /\ r.todo = todo
  BY <1>9, <1>18, <1>16 DEF Agendas, Good, todo
<1>20. \A a \in ToSet(q) : Fit(a.tree) /\ ~a.seq
  BY <1>2 DEF Agenda, q
<1>21. \A a \in ToSet(todo) : Fit(a.tree) /\ ~a.seq
  BY <1>14, <1>15, <1>16, <1>20
<1>22. todo # <<>> => ToSet(Tail(todo)) \subseteq ToSet(todo)
  BY <1>16, EntriesHead
<1>23. /\ \A c : On(s.forest, c) <=> Carries(old, c) \/ \E j \in DOMAIN s.forest \ {k} : Carries(s.forest[j], c)
       /\ \A c, key : Has(s.forest, c, key) <=>
                        \/ Carries(old, c) /\ key \in DOMAIN old.leaves
                        \/ \E j \in DOMAIN s.forest \ {k} :
                             Carries(s.forest[j], c) /\ key \in DOMAIN s.forest[j].leaves
  BY DEF On, Has, old
<1>24. \A c : On(G, c) \/ (\E a \in ToSet(todo) : Carries(a.tree, c))
                <=> On(F, c) \/ Carries(t, c)
  <2>1. \A c : On(s.forest, c) \/ Carries(u, c) \/ (\E a \in ToSet(q) : Carries(a.tree, c))
                <=> On(F, c) \/ Carries(t, c)
    BY <1>2 DEF Agenda, u
  <2> QED BY <1>11, <1>13, <1>18, <1>16, <1>23, <2>1
<1>25. \A c, key :
         Has(G, c, key) \/ (\E a \in ToSet(todo) : Carries(a.tree, c) /\ key \in DOMAIN a.tree.leaves)
           => Has(F, c, key) \/ (Carries(t, c) /\ key \in DOMAIN t.leaves)
  <2>1. \A c, key : \/ Has(s.forest, c, key)
                    \/ Carries(u, c) /\ key \in DOMAIN u.leaves
                    \/ \E a \in ToSet(q) : Carries(a.tree, c) /\ key \in DOMAIN a.tree.leaves
                    => Has(F, c, key) \/ (Carries(t, c) /\ key \in DOMAIN t.leaves)
    BY <1>2 DEF Agenda, u
  <2> SUFFICES ASSUME NEW c, NEW key,
                      Has(G, c, key) \/ (\E a \in ToSet(todo) : Carries(a.tree, c) /\ key \in DOMAIN a.tree.leaves)
               PROVE  \/ Has(s.forest, c, key)
                      \/ Carries(u, c) /\ key \in DOMAIN u.leaves
                      \/ \E a \in ToSet(q) : Carries(a.tree, c) /\ key \in DOMAIN a.tree.leaves
    BY <2>1
  <2>2. CASE Has(G, c, key)
    BY <1>6, <1>11, <1>18, <1>23, <2>2
  <2>3. CASE \E a \in ToSet(todo) : Carries(a.tree, c) /\ key \in DOMAIN a.tree.leaves
    <3>1. PICK a \in ToSet(todo) : Carries(a.tree, c) /\ key \in DOMAIN a.tree.leaves
      BY <2>3
    <3>2. CASE a \in ToSet(w1)
      BY <1>11, <1>14, <1>23, <3>1, <3>2
    <3>3. CASE a \in ToSet(w2)
      BY <1>13, <1>15, <3>1, <3>3
    <3> QED BY <1>16, <3>1, <3>2, <3>3
  <2> QED BY <2>2, <2>3
<1>26. \A c, key :
         Has(F, c, key) \/ Owed(F, t, seq, c, key)
           => \/ Has(G, c, key)
              \/ \E a \in ToSet(todo) : Owed(G, a.tree, a.seq, c, key)
  <2> SUFFICES ASSUME NEW c, NEW key, Has(F, c, key) \/ Owed(F, t, seq, c, key)
               PROVE  \/ Has(G, c, key)
                      \/ \E a \in ToSet(todo) : Carries(a.tree, c) /\ key \in DOMAIN a.tree.leaves
    BY <1>21 DEF Owed
  <2>1. \/ Has(s.forest, c, key)
        \/ Owed(s.forest, u, h.seq, c, key)
        \/ \E a \in ToSet(q) : Carries(a.tree, c) /\ key \in DOMAIN a.tree.leaves
    BY <1>2 DEF Agenda, Owed, u
  <2>2. CASE Has(s.forest, c, key)
    <3>1. CASE Carries(old, c) /\ key \in DOMAIN old.leaves
      <4>1. CASE Carries(new, c)
        BY <1>6, <1>18, <3>1, <4>1
      <4>2. CASE \E a \in ToSet(w1) : Carries(a.tree, c)
        BY <1>14, <1>16, <3>1, <4>2
      <4> QED BY <1>11, <3>1, <4>1, <4>2
    <3>2. CASE \E j \in DOMAIN s.forest \ {k} :
                 Carries(s.forest[j], c) /\ key \in DOMAIN s.forest[j].leaves
      BY <1>18, <3>2
    <3> QED BY <1>23, <2>2, <3>1, <3>2
  <2>3. CASE Owed(s.forest, u, h.seq, c, key)
    <3>1. Carries(u, c) /\ key \in DOMAIN u.leaves /\ (~h.seq \/ key[2] # {"DDP"} \/ ~On(s.forest, c))
      BY <2>3 DEF Owed
    <3>2. CASE Carries(new, c)
      <4>1. On(s.forest, c)
        BY <1>11, <1>23, <3>2
      <4> QED BY <1>6, <1>18, <3>1, <3>2, <4>1
    <3>3. CASE \E a \in ToSet(w2) : Carries(a.tree, c)
      BY <1>15, <1>16, <3>1, <3>3
    <3> QED BY <1>13, <3>1, <3>2, <3>3
  <2>4. CASE \E a \in ToSet(q) : Carries(a.tree, c) /\ key \in DOMAIN a.tree.leaves
    BY <1>16, <2>4
  <2> QED BY <2>1, <2>2, <2>3, <2>4
<1>27. Agenda(F, t, seq, r)
  BY <1>18, <1>19, <1>21, <1>22, <1>24, <1>25, <1>26 DEF Agenda
<1> QED BY <1>27 DEF r

-----------------------------------------------------------------------------
\* The calls end: the tree that is added no longer meets any of the first j
\* trees of the forest nor those that were appended, and j grows with the
\* number of calls.
Free(G, u) == \A k \in DOMAIN G : ~Meets(G[k], u)

Passed(F, G, u, j) == \A k \in DOMAIN G : k <= j \/ k > Len(F) => ~Meets(G[k], u)

\* The bound of AddCalls suffices: a tree of F is split at most once, and what
\* is left of it meets nothing, so that after n calls at most two wait, and the
\* next tree that can be split is past the first n / 2.
Ends(F, s, n) ==
    /\ Len(F) <= Len(s.forest)
    /\ \/ s.todo = <<>>
       \/ \E j \in 0 .. Len(F), a \in Calls :
            s.todo = <<a>> /\ n <= 2 * j /\ Passed(F, s.forest, a.tree, j)
       \/ \E j \in 0 .. Len(F), a \in Calls, b \in Calls :
            /\ s.todo = <<b, a>> /\ n < 2 * j
            /\ Free(s.forest, b.tree)
            /\ ~Meets(b.tree, a.tree)
            /\ Passed(F, s.forest, a.tree, j)

\* A smaller range meets less.
LEMMA SmallerMeets ==
  ASSUME NEW x, NEW u, NEW v, ~Meets(x, u),
         v.name = u.name, v.select \subseteq u.select, v.select # {}
  PROVE  ~Meets(x, v)
BY DEF Meets

\* The calls that wait after a split, written out.
LEMMA Concats ==
  ASSUME NEW b, NEW v
  PROVE  <<b>> \o <<v>> \o <<>> = <<b, v>>
<1> DEFINE S == {b, v}
           p == <<b>> \o <<v>>
           r == <<b, v>>
<1>1. <<b>> \in Seq(S) /\ <<v>> \in Seq(S) /\ r \in Seq(S) /\ Len(r) = 2
  OBVIOUS
<1>2. p \in Seq(S) /\ Len(p) = 2 /\ p[1] = b /\ p[2] = v
  BY <1>1
<1> HIDE DEF p
<1>3. p \o <<>> = p
  BY <1>2
<1>4. DOMAIN p = 1 .. 2 /\ DOMAIN r = 1 .. 2 /\ r[1] = b /\ r[2] = v
  BY <1>1, <1>2
<1>5. p = r
  BY <1>1, <1>2, <1>4
<1> QED BY <1>3, <1>5 DEF p

\* The count holds after a call that appends.
LEMMA EndsAppend ==
  ASSUME NEW F, NEW s \in Agendas, NEW n \in Nat, s.todo # <<>>, Len(F) \in Nat, Ends(F, s, n),
         Free(s.forest, Head(s.todo).tree)
  PROVE  Ends(F, Appended(s), n + 1)
<1> DEFINE r == Appended(s)
<1>1. s.forest \in Seq(Trees) /\ s.todo \in Seq(Calls)
  BY DEF Agendas
<1>2. Head(s.todo).tree \in Trees
  <2>1. Head(s.todo) \in Calls
    BY <1>1, EntriesHead
  <2> QED BY <2>1 DEF Calls
<1>3. /\ r.todo = Tail(s.todo)
      /\ r.forest = Append(s.forest, Head(s.todo).tree)
      /\ Len(r.forest) = Len(s.forest) + 1
      /\ DOMAIN r.forest = 1 .. Len(s.forest) + 1
      /\ r.forest[Len(s.forest) + 1] = Head(s.todo).tree
      /\ \A k \in 1 .. Len(s.forest) : r.forest[k] = s.forest[k]
  BY <1>1, <1>2 DEF Appended
<1>4. Len(s.forest) \in Nat /\ Len(F) <= Len(s.forest) /\ DOMAIN s.forest = 1 .. Len(s.forest)
  BY <1>1 DEF Ends
<1> HIDE DEF r
<1>5. CASE \E a \in Calls : s.todo = <<a>>
  <2>1. r.todo = <<>>
    BY <1>3, <1>5
  <2>2. Len(F) <= Len(r.forest)
    BY <1>3, <1>4
  <2>3. Ends(F, r, n + 1)
    BY <2>1, <2>2 DEF Ends
  <2> QED BY <2>3 DEF r
<1>6. ASSUME NEW j \in 0 .. Len(F), NEW a \in Calls, NEW b \in Calls,
             s.todo = <<b, a>>, n < 2 * j,
             ~Meets(b.tree, a.tree), Passed(F, s.forest, a.tree, j)
      PROVE  Ends(F, r, n + 1)
  <2>1. r.todo = <<a>> /\ Head(s.todo) = b
    BY <1>3, <1>6
  <2>2. Passed(F, r.forest, a.tree, j)
    BY <1>3, <1>4, <1>6, <2>1 DEF Passed
  <2>3. n + 1 <= 2 * j
    BY <1>6
  <2>4. Len(F) <= Len(r.forest)
    BY <1>3, <1>4
  <2> QED BY <2>1, <2>2, <2>3, <2>4 DEF Ends
<1> QED BY <1>5, <1>6 DEF Ends, r

\* And after a call that splits.
LEMMA EndsSplit ==
  ASSUME NEW F, NEW s \in Agendas, NEW n \in Nat, s.todo # <<>>, Len(F) \in Nat, Ends(F, s, n),
         Good(s.forest), \A a \in ToSet(s.todo) : Fit(a.tree),
         NEW k \in DOMAIN s.forest, FirstHit(s, k)
  PROVE  Ends(F, Split(s, k), n + 1)
<1> DEFINE h == Head(s.todo)
           u == h.tree
           old == s.forest[k]
           shared == old.select \cap u.select
           w1 == Waiting(old, shared)
           w2 == Waiting(u, shared)
           r == Split(s, k)
<1>1. s.forest \in Seq(Trees) /\ s.todo \in Seq(Calls) /\ Len(s.forest) \in Nat
  BY DEF Agendas
<1>2. PICK j \in 0 .. Len(F), a \in Calls :
        s.todo = <<a>> /\ n <= 2 * j /\ Passed(F, s.forest, a.tree, j)
  <2>1. ASSUME NEW a \in Calls, NEW b \in Calls, s.todo = <<b, a>>, Free(s.forest, b.tree)
        PROVE  FALSE
    BY <2>1 DEF FirstHit, Free
  <2> QED BY <2>1 DEF Ends
<1>3. h = a /\ Tail(s.todo) = <<>> /\ h \in Calls /\ h \in ToSet(s.todo)
  BY <1>2 DEF ToSet
<1>4. Fit(u) /\ Fit(old) /\ Meets(old, u)
  BY <1>3 DEF Good, FirstHit
<1>5. k \in 1 .. Len(s.forest) /\ j < k /\ k <= Len(F) /\ k \in 0 .. Len(F)
  <2>1. ~(k <= j \/ k > Len(F)) /\ k \in 1 .. Len(s.forest)
    BY <1>1, <1>2, <1>3, <1>4 DEF Passed
  <2> QED BY <2>1
<1>6. \A i \in DOMAIN s.forest : i < k \/ i > Len(F) => ~Meets(s.forest[i], u)
  <2>1. \A i \in DOMAIN s.forest : i \in Nat
    BY <1>1
  <2> QED BY <1>2, <1>3, <1>5, <2>1 DEF FirstHit, Passed
<1>7. /\ DOMAIN r.forest = DOMAIN s.forest /\ Len(r.forest) = Len(s.forest)
      /\ r.forest[k].name = old.name /\ r.forest[k].select = shared
      /\ \A i \in DOMAIN s.forest \ {k} : r.forest[i] = s.forest[i]
  <2> DEFINE cut == [old EXCEPT !.select = shared]
             new == CombineTree(cut, u, h.seq)
             b == h.seq
  <2>1. old \in Trees /\ u \in Trees /\ u.leaves \in LeafMaps /\ shared \subseteq Bits
    BY <1>4 DEF Fit, Trees
  <2>2. cut \in Trees /\ cut.name = old.name /\ cut.select = shared
    BY <2>1, CutFacts
  <2>3. b \in BOOLEAN
    BY <1>3 DEF Calls
  <2>4. r.forest = [s.forest EXCEPT ![k] = new]
    BY DEF Split
  <2> HIDE DEF cut, shared, old, u, b
  <2>5. /\ CombineTree(cut, u, b) \in Trees /\ CombineTree(cut, u, b).name = cut.name
        /\ CombineTree(cut, u, b).select = cut.select
    BY <2>1, <2>2, <2>3, CombineTreeFacts
  <2>6. new \in Trees /\ new.name = old.name /\ new.select = shared
    BY <2>2, <2>5 DEF b
  <2> HIDE DEF new
  <2> QED BY <1>1, <2>4, <2>6
<1>8. r.todo = w1 \o w2 \o <<>>
  BY <1>3 DEF Split
<1> HIDE DEF r, h
<1>9. s.forest[k] = old /\ shared = old.select \cap u.select /\ shared = u.select \cap old.select
  OBVIOUS
<1> HIDE DEF u, old
<1> HIDE DEF shared
<1>10. Meets(u, old) /\ old.name = u.name
  BY <1>4 DEF Meets
<1>11. Len(F) <= Len(r.forest)
  BY <1>7 DEF Ends
<1>12. ASSUME NEW b, b.name = old.name, b.select = old.select \ shared, b.select # {}
       PROVE  Free(r.forest, b)
  <2>1. ~Meets(r.forest[k], b)
    BY <1>7, <1>12 DEF Meets
  <2>2. ASSUME NEW i \in DOMAIN s.forest \ {k} PROVE ~Meets(s.forest[i], b)
    <3>1. s.forest[i].name = old.name => s.forest[i].select \cap old.select = {}
      BY <1>9 DEF Good, Apart
    <3> QED BY <1>12, <3>1 DEF Meets
  <2> QED BY <1>7, <2>1, <2>2 DEF Free
<1>13. ASSUME NEW v, v.name = u.name, v.select = u.select \ shared, v.select # {}
       PROVE  Passed(F, r.forest, v, k)
  <2>1. ~Meets(r.forest[k], v)
    BY <1>7, <1>10, <1>13 DEF Meets
  <2>2. ASSUME NEW i \in DOMAIN s.forest \ {k}, i <= k \/ i > Len(F) PROVE ~Meets(s.forest[i], v)
    <3>1. i \in Nat /\ k \in Nat /\ i # k
      BY <1>1
    <3>2. ~Meets(s.forest[i], u)
      BY <1>6, <2>2, <3>1
    <3> QED BY <1>13, <3>2, SmallerMeets
  <2> QED BY <1>7, <2>1, <2>2 DEF Passed
<1>14. CASE Rest(old, shared) = {} /\ Rest(u, shared) = {}
  <2>1. w1 = <<>> /\ w2 = <<>>
    BY <1>14 DEF Waiting
  <2>2. r.todo = <<>>
    BY <1>8, <2>1
  <2> QED BY <1>11, <2>2 DEF Ends, r
<1>15. CASE Rest(old, shared) # {} /\ Rest(u, shared) = {}
  <2>1. w2 = <<>>
    BY <1>15 DEF Waiting
  <2>2. PICK b \in Calls : /\ w1 = <<b>> /\ b.tree.name = old.name
                           /\ b.tree.select = old.select \ shared /\ b.tree.select # {}
    BY <1>4, <1>9, <1>15, WaitingFacts
  <2>3. r.todo = <<b>>
    <3> HIDE DEF w1, w2
    <3> QED BY <1>8, <2>1, <2>2
  <2>4. Passed(F, r.forest, b.tree, k)
    BY <1>12, <2>2 DEF Passed, Free
  <2>5. n + 1 <= 2 * k
    BY <1>2, <1>5
  <2> QED BY <1>5, <1>11, <2>3, <2>4, <2>5 DEF Ends, r
<1>16. CASE Rest(old, shared) = {} /\ Rest(u, shared) # {}
  <2>1. w1 = <<>>
    BY <1>16 DEF Waiting
  <2>2. PICK b \in Calls : /\ w2 = <<b>> /\ b.tree.name = u.name
                           /\ b.tree.select = u.select \ shared /\ b.tree.select # {}
    BY <1>4, <1>9, <1>10, <1>16, WaitingFacts
  <2>3. r.todo = <<b>>
    <3> HIDE DEF w1, w2
    <3> QED BY <1>8, <2>1, <2>2
  <2>4. Passed(F, r.forest, b.tree, k)
    BY <1>13, <2>2
  <2>5. n + 1 <= 2 * k
    BY <1>2, <1>5
  <2> QED BY <1>5, <1>11, <2>3, <2>4, <2>5 DEF Ends, r
<1>17. CASE Rest(old, shared) # {} /\ Rest(u, shared) # {}
  <2>1. PICK b \in Calls : /\ w1 = <<b>> /\ b.tree.name = old.name
                           /\ b.tree.select = old.select \ shared /\ b.tree.select # {}
    BY <1>4, <1>9, <1>17, WaitingFacts
  <2>2. PICK v \in Calls : /\ w2 = <<v>> /\ v.tree.name = u.name
                           /\ v.tree.select = u.select \ shared /\ v.tree.select # {}
    BY <1>4, <1>9, <1>10, <1>17, WaitingFacts
  <2>3. r.todo = <<b, v>>
    <3> HIDE DEF w1, w2
    <3>1. <<b>> \o <<v>> \o <<>> = <<b, v>>
      BY Concats
    <3> QED BY <1>8, <2>1, <2>2, <3>1
  <2>4. Passed(F, r.forest, v.tree, k) /\ Free(r.forest, b.tree)
    BY <1>12, <1>13, <2>1, <2>2
  <2>5. ~Meets(b.tree, v.tree)
    BY <1>9, <2>1, <2>2 DEF Meets
  <2>6. n + 1 < 2 * k
    BY <1>2, <1>5
  <2> QED BY <1>5, <1>11, <2>3, <2>4, <2>5, <2>6 DEF Ends, r
<1> QED BY <1>14, <1>15, <1>16, <1>17 DEF r

\* A call of RForest::add keeps both.
LEMMA AddCallKeeps ==
  ASSUME NEW F, Len(F) \in Nat, NEW t, NEW seq, NEW s, NEW n \in Nat,
         Agenda(F, t, seq, s), Ends(F, s, n)
  PROVE  Agenda(F, t, seq, AddCall(s)) /\ Ends(F, AddCall(s), n + 1)
<1>0. s \in Agendas /\ Good(s.forest) /\ \A a \in ToSet(s.todo) : Fit(a.tree)
  BY DEF Agenda
<1>1. CASE s.todo = <<>>
  <2>1. AddCall(s) = s
    BY <1>1 DEF AddCall
  <2>2. Ends(F, s, n + 1)
    BY <1>1 DEF Ends
  <2> QED BY <2>1, <2>2
<1>2. CASE s.todo # <<>> /\ AddCall(s) = Appended(s)
             /\ \A j \in DOMAIN s.forest : ~Meets(s.forest[j], Head(s.todo).tree)
  <2>1. Agenda(F, t, seq, Appended(s))
    BY <1>2, AgendaAppend
  <2>2. Free(s.forest, Head(s.todo).tree)
    BY <1>2 DEF Free
  <2>3. Ends(F, Appended(s), n + 1)
    BY <1>0, <1>2, <2>2, EndsAppend
  <2> QED BY <1>2, <2>1, <2>3
<1>3. ASSUME s.todo # <<>>, NEW k \in DOMAIN s.forest, FirstHit(s, k), AddCall(s) = Split(s, k)
      PROVE  Agenda(F, t, seq, AddCall(s)) /\ Ends(F, AddCall(s), n + 1)
  <2>1. Meets(s.forest[k], Head(s.todo).tree)
    BY <1>3 DEF FirstHit
  <2>2. Agenda(F, t, seq, Split(s, k))
    BY <1>3, <2>1, AgendaSplit
  <2>3. Ends(F, Split(s, k), n + 1)
    BY <1>0, <1>3, EndsSplit
  <2> QED BY <1>3, <2>2, <2>3
<1> QED BY <1>0, <1>1, <1>2, <1>3, AddCallCases

\* RForest::add: the forest stays good, has the bits of both, and no bit loses
\* a leaf or gets one that it should not have.
LEMMA AddTreeFacts ==
  ASSUME NEW F, Good(F), NEW t, Fit(t), NEW seq \in BOOLEAN
  PROVE  /\ Good(AddTree(F, t, seq))
         /\ \A c : On(AddTree(F, t, seq), c) <=> On(F, c) \/ Carries(t, c)
         /\ \A c, key : Has(AddTree(F, t, seq), c, key)
                          => Has(F, c, key) \/ (Carries(t, c) /\ key \in DOMAIN t.leaves)
         /\ \A c, key : Has(F, c, key) \/ Owed(F, t, seq, c, key)
                          => Has(AddTree(F, t, seq), c, key)
<1> DEFINE M == 2 * Len(F) + 1
           A == AddCalls(F, t, seq)
           I == {n \in 0 .. M : Agenda(F, t, seq, A[n]) /\ Ends(F, A[n], n)}
           init == [forest |-> F, todo |-> <<[tree |-> t, seq |-> seq]>>]
<1>1. F \in Seq(Trees) /\ Len(F) \in Nat /\ t \in Trees /\ DOMAIN F = 1 .. Len(F)
  BY DEF Good, Fit
<1>2. A = [n \in 0 .. M |-> IF n = 0 THEN init ELSE AddCall(A[n - 1])]
  BY <1>1, AddCallsDef
<1>3. M \in Nat
  BY <1>1
<1> HIDE DEF A
<1>4. 0 \in I
  <2>1. A[0] = init /\ 0 \in 0 .. M
    BY <1>2, <1>3
  <2>2. Agenda(F, t, seq, init)
    BY AgendaStart
  <2>3. Ends(F, init, 0)
    <3> DEFINE a == [tree |-> t, seq |-> seq]
    <3>1. a \in Calls /\ a.tree = t
      BY <1>1 DEF Calls
    <3> HIDE DEF a
    <3>2. init.forest = F /\ init.todo = <<a>>
      BY DEF a
    <3>3. Passed(F, F, t, 0)
      BY <1>1 DEF Passed
    <3> HIDE DEF init
    <3>4. 0 \in 0 .. Len(F) /\ 0 <= 2 * 0 /\ Len(F) <= Len(init.forest)
      BY <1>1, <3>2
    <3> QED BY <3>1, <3>2, <3>3, <3>4 DEF Ends
  <2> QED BY <2>1, <2>2, <2>3
<1>5. ASSUME NEW n \in 0 .. M, n \in I, n < M PROVE n + 1 \in I
  <2>1. n + 1 \in 0 .. M /\ n \in Nat /\ A[n + 1] = AddCall(A[n])
    BY <1>2, <1>3, <1>5
  <2>2. Agenda(F, t, seq, AddCall(A[n])) /\ Ends(F, AddCall(A[n]), n + 1)
    BY <1>1, <1>5, <2>1, AddCallKeeps
  <2> QED BY <2>1, <2>2
<1>6. M \in I
  <2> HIDE DEF I
  <2>1. \A n \in 0 .. M : n \in I
    BY <1>3, <1>4, <1>5, UpTo
  <2> QED BY <1>3, <2>1
<1>7. Agenda(F, t, seq, A[M]) /\ Ends(F, A[M], M)
  BY <1>6
<1>8. A[M].todo = <<>>
  <2>1. \A j \in 0 .. Len(F) : 2 * j < M
    BY <1>1
  <2>2. \A j \in 0 .. Len(F) : ~(M <= 2 * j) /\ ~(M < 2 * j)
    BY <1>1, <1>3, <2>1
  <2> HIDE DEF M
  <2> QED BY <1>7, <2>2 DEF Ends
<1>9. ToSet(A[M].todo) = {}
  BY <1>8 DEF ToSet
<1>10. AddTree(F, t, seq) = A[M].forest
  BY DEF AddTree, A
<1> HIDE DEF M
<1> QED BY <1>7, <1>9, <1>10 DEF Agenda

\* The recursive function of RForest::combine satisfies its definition.
LEMMA CombiningDef ==
  ASSUME NEW F, NEW G, Len(G) \in Nat, NEW seq
  PROVE  Combining(F, G, seq) =
           [n \in 0 .. Len(G) |->
              IF n = 0 THEN F ELSE AddTree(Combining(F, G, seq)[n - 1], G[n], seq)]
<1> DEFINE M == Len(G)
           init == F
           Body(n, s) == IF n = 0 THEN init ELSE AddTree(s[n - 1], G[n], seq)
           I == {m \in Nat : \E s : s = [n \in 0 .. m |-> Body(n, s)]}
<1>1. Combining(F, G, seq) = CHOOSE s : s = [n \in 0 .. M |-> Body(n, s)]
  BY DEF Combining
<1>2. M \in Nat
  OBVIOUS
<1> HIDE DEF M, init
<1>3. 0 \in I
  <2> DEFINE s == [n \in 0 .. 0 |-> init]
  <2>1. s = [n \in 0 .. 0 |-> Body(n, s)]
    BY DEF Body
  <2> HIDE DEF s
  <2> QED BY <2>1
<1>4. ASSUME NEW m \in 0 .. M, m \in I PROVE m + 1 \in I
  <2>1. PICK s : s = [n \in 0 .. m |-> Body(n, s)]
    BY <1>4
  <2> DEFINE r == [n \in 0 .. m + 1 |-> IF n = m + 1 THEN AddTree(s[m], G[m + 1], seq) ELSE s[n]]
  <2>2. ASSUME NEW n \in 0 .. m + 1 PROVE r[n] = Body(n, r)
    <3>1. CASE n = m + 1
      <4>1. r[m] = s[m] /\ n # 0 /\ n - 1 = m
        BY <3>1
      <4> QED BY <3>1, <4>1
    <3>2. CASE n # m + 1
      <4>1. n \in 0 .. m /\ s[n] = Body(n, s) /\ r[n] = s[n]
        BY <2>1, <3>2
      <4>2. CASE n = 0
        BY <4>1, <4>2
      <4>3. CASE n # 0
        <5>1. n - 1 \in 0 .. m + 1 /\ n - 1 # m + 1
          BY <4>3, <3>2
        <5>2. r[n - 1] = s[n - 1]
          BY <5>1
        <5> QED BY <4>1, <4>3, <5>2
      <4> QED BY <4>2, <4>3
    <3> QED BY <3>1, <3>2
  <2>3. r = [n \in 0 .. m + 1 |-> r[n]]
    OBVIOUS
  <2>4. r = [n \in 0 .. m + 1 |-> Body(n, r)]
    <3> HIDE DEF r, Body
    <3> QED BY <2>2, <2>3
  <2> HIDE DEF r
  <2> QED BY <2>4
<1>5. M \in I
  <2> HIDE DEF I
  <2>1. \A m \in 0 .. M : m \in I /\ m < M => m + 1 \in I
    BY <1>4
  <2>2. \A m \in 0 .. M : m \in I
    BY <1>2, <1>3, <2>1, UpTo
  <2> QED BY <1>2, <2>2
<1>6. \E s : s = [n \in 0 .. M |-> Body(n, s)]
  BY <1>5
<1> HIDE DEF I
<1>7. Combining(F, G, seq) = [n \in 0 .. M |-> Body(n, Combining(F, G, seq))]
  <2> DEFINE P(s) == s = [n \in 0 .. M |-> Body(n, s)]
  <2>1. \E s : P(s)
    BY <1>6
  <2>2. Combining(F, G, seq) = CHOOSE s : P(s)
    BY <1>1
  <2> HIDE DEF P
  <2>3. P(Combining(F, G, seq))
    BY <2>1, <2>2
  <2> QED BY <2>3 DEF P
<1> QED BY <1>7 DEF M, init, Body

\* And that over a sequence of forests.
LEMMA CombiningAllDef ==
  ASSUME NEW F, NEW parts, Len(parts) \in Nat, NEW seq
  PROVE  CombiningAll(F, parts, seq) =
           [n \in 0 .. Len(parts) |->
              IF n = 0 THEN F ELSE CombineForest(CombiningAll(F, parts, seq)[n - 1], parts[n], seq)]
<1> DEFINE M == Len(parts)
           init == F
           Body(n, s) == IF n = 0 THEN init ELSE CombineForest(s[n - 1], parts[n], seq)
           I == {m \in Nat : \E s : s = [n \in 0 .. m |-> Body(n, s)]}
<1>1. CombiningAll(F, parts, seq) = CHOOSE s : s = [n \in 0 .. M |-> Body(n, s)]
  BY DEF CombiningAll
<1>2. M \in Nat
  OBVIOUS
<1> HIDE DEF M, init
<1>3. 0 \in I
  <2> DEFINE s == [n \in 0 .. 0 |-> init]
  <2>1. s = [n \in 0 .. 0 |-> Body(n, s)]
    BY DEF Body
  <2> HIDE DEF s
  <2> QED BY <2>1
<1>4. ASSUME NEW m \in 0 .. M, m \in I PROVE m + 1 \in I
  <2>1. PICK s : s = [n \in 0 .. m |-> Body(n, s)]
    BY <1>4
  <2> DEFINE r == [n \in 0 .. m + 1 |-> IF n = m + 1 THEN CombineForest(s[m], parts[m + 1], seq) ELSE s[n]]
  <2>2. ASSUME NEW n \in 0 .. m + 1 PROVE r[n] = Body(n, r)
    <3>1. CASE n = m + 1
      <4>1. r[m] = s[m] /\ n # 0 /\ n - 1 = m
        BY <3>1
      <4> QED BY <3>1, <4>1
    <3>2. CASE n # m + 1
      <4>1. n \in 0 .. m /\ s[n] = Body(n, s) /\ r[n] = s[n]
        BY <2>1, <3>2
      <4>2. CASE n = 0
        BY <4>1, <4>2
      <4>3. CASE n # 0
        <5>1. n - 1 \in 0 .. m + 1 /\ n - 1 # m + 1
          BY <4>3, <3>2
        <5>2. r[n - 1] = s[n - 1]
          BY <5>1
        <5> QED BY <4>1, <4>3, <5>2
      <4> QED BY <4>2, <4>3
    <3> QED BY <3>1, <3>2
  <2>3. r = [n \in 0 .. m + 1 |-> r[n]]
    OBVIOUS
  <2>4. r = [n \in 0 .. m + 1 |-> Body(n, r)]
    <3> HIDE DEF r, Body
    <3> QED BY <2>2, <2>3
  <2> HIDE DEF r
  <2> QED BY <2>4
<1>5. M \in I
  <2> HIDE DEF I
  <2>1. \A m \in 0 .. M : m \in I /\ m < M => m + 1 \in I
    BY <1>4
  <2>2. \A m \in 0 .. M : m \in I
    BY <1>2, <1>3, <2>1, UpTo
  <2> QED BY <1>2, <2>2
<1>6. \E s : s = [n \in 0 .. M |-> Body(n, s)]
  BY <1>5
<1> HIDE DEF I
<1>7. CombiningAll(F, parts, seq) = [n \in 0 .. M |-> Body(n, CombiningAll(F, parts, seq))]
  <2> DEFINE P(s) == s = [n \in 0 .. M |-> Body(n, s)]
  <2>1. \E s : P(s)
    BY <1>6
  <2>2. CombiningAll(F, parts, seq) = CHOOSE s : P(s)
    BY <1>1
  <2> HIDE DEF P
  <2>3. P(CombiningAll(F, parts, seq))
    BY <2>1, <2>2
  <2> QED BY <2>3 DEF P
<1> QED BY <1>7 DEF M, init, Body

-----------------------------------------------------------------------------
\* A sequence of trees that may share bits.
Fitting(G) == G \in Seq(Trees) /\ \A k \in DOMAIN G : Fit(G[k])

\* The leaves a tree of G adds: in sequence no default self loop, except when
\* the bit is new to the forest.
Added(F, G, seq, c, key) ==
    Has(G, c, key) /\ (~seq \/ key[2] # {"DDP"} \/ (Apart(G) /\ ~On(F, c)))

\* RForest::combine.
LEMMA CombineFacts ==
  ASSUME NEW F, Good(F), NEW G, Fitting(G), NEW seq \in BOOLEAN
  PROVE  /\ Good(CombineForest(F, G, seq))
         /\ \A c : On(CombineForest(F, G, seq), c) <=> On(F, c) \/ On(G, c)
         /\ \A c, key : Has(CombineForest(F, G, seq), c, key) => Has(F, c, key) \/ Has(G, c, key)
         /\ \A c, key : Has(F, c, key) \/ Added(F, G, seq, c, key)
                          => Has(CombineForest(F, G, seq), c, key)
<1> DEFINE N == Len(G)
           H == Combining(F, G, seq)
           On1(k, c) == \E j \in 1 .. k : Carries(G[j], c)
           Has1(k, c, key) == \E j \in 1 .. k : Carries(G[j], c) /\ key \in DOMAIN G[j].leaves
           Kept(c, key) == ~seq \/ key[2] # {"DDP"} \/ (Apart(G) /\ ~On(F, c))
           Inv(k) == /\ Good(H[k])
                     /\ \A c : On(H[k], c) <=> On(F, c) \/ On1(k, c)
                     /\ \A c, key : Has(H[k], c, key) => Has(F, c, key) \/ Has1(k, c, key)
                     /\ \A c, key : Has(F, c, key) \/ (Has1(k, c, key) /\ Kept(c, key))
                                      => Has(H[k], c, key)
           I == {k \in 0 .. N : Inv(k)}
<1>1. N \in Nat /\ DOMAIN G = 1 .. N /\ \A k \in 1 .. N : Fit(G[k])
  BY DEF Fitting
<1>2. H = [k \in 0 .. N |-> IF k = 0 THEN F ELSE AddTree(H[k - 1], G[k], seq)]
  BY <1>1, CombiningDef
<1> HIDE DEF H, N
<1>3. 0 \in I
  <2>1. H[0] = F /\ 0 \in 0 .. N
    BY <1>1, <1>2
  <2>2. \A c, key : ~On1(0, c) /\ ~Has1(0, c, key)
    OBVIOUS
  <2> QED BY <2>1, <2>2
<1>4. ASSUME NEW k \in 0 .. N, k \in I, k < N PROVE k + 1 \in I
  <2> DEFINE u == G[k + 1]
  <2>1. k + 1 \in 0 .. N /\ k + 1 \in 1 .. N /\ H[k + 1] = AddTree(H[k], u, seq)
    BY <1>1, <1>2, <1>4
  <2>2. Fit(u) /\ Inv(k)
    BY <1>1, <1>4, <2>1
  <2>3. /\ Good(H[k + 1])
        /\ \A c : On(H[k + 1], c) <=> On(H[k], c) \/ Carries(u, c)
        /\ \A c, key : Has(H[k + 1], c, key)
                          => Has(H[k], c, key) \/ (Carries(u, c) /\ key \in DOMAIN u.leaves)
        /\ \A c, key : Has(H[k], c, key) \/ Owed(H[k], u, seq, c, key) => Has(H[k + 1], c, key)
    BY <2>1, <2>2, AddTreeFacts
  <2>4. \A j : j \in 1 .. k + 1 <=> j \in 1 .. k \/ j = k + 1
    BY <1>1, <1>4
  <2>5. \A c : On1(k + 1, c) <=> On1(k, c) \/ Carries(u, c)
    BY <2>4
  <2>6. \A c, key : Has1(k + 1, c, key) <=> Has1(k, c, key) \/ (Carries(u, c) /\ key \in DOMAIN u.leaves)
    BY <2>4
  <2>7. ASSUME NEW c, Carries(u, c), Apart(G) PROVE ~On1(k, c)
    <3>1. \A j \in 1 .. k : j \in DOMAIN G /\ k + 1 \in DOMAIN G /\ j # k + 1
      BY <1>1, <1>4, <2>1
    <3> QED BY <2>7, <3>1, OneCarries
  <2> HIDE DEF On1, Has1, u
  <2>8. ASSUME NEW c, NEW key, Carries(u, c), key \in DOMAIN u.leaves, Kept(c, key)
        PROVE  Has(H[k + 1], c, key)
    <3>1. ~seq \/ key[2] # {"DDP"} \/ ~On(H[k], c)
      BY <2>2, <2>7, <2>8
    <3>2. Owed(H[k], u, seq, c, key)
      BY <2>8, <3>1 DEF Owed
    <3> QED BY <2>3, <3>2
  <2> HIDE DEF Kept
  <2>9. Inv(k + 1)
    BY <2>2, <2>3, <2>5, <2>6, <2>8
  <2> QED BY <2>1, <2>9
<1>5. N \in I
  <2> HIDE DEF I
  <2>1. \A k \in 0 .. N : k \in I
    BY <1>1, <1>3, <1>4, UpTo
  <2> QED BY <1>1, <2>1
<1>6. Inv(N)
  BY <1>5
<1>7. CombineForest(F, G, seq) = H[N]
  BY DEF CombineForest, H, N
<1>8. \A c, key : (On1(N, c) <=> On(G, c)) /\ (Has1(N, c, key) <=> Has(G, c, key))
  BY <1>1 DEF On, Has
<1> HIDE DEF On1, Has1
<1> QED BY <1>6, <1>7, <1>8 DEF Added

\* The same for a sequence of forests.
AnyOn(parts, c)       == \E k \in DOMAIN parts : On(parts[k], c)
AnyHas(parts, c, key) == \E k \in DOMAIN parts : Has(parts[k], c, key)

\* Every part that assigns the bit gives it the leaf, and one does assign it.
AllHave(parts, c, key) ==
    AnyOn(parts, c) /\ \A k \in DOMAIN parts : On(parts[k], c) => Has(parts[k], c, key)

\* A sequence of forests combined into one: no bit and no leaf is lost, and in
\* sequence a default self loop stays that every part with the bit has.
LEMMA CombineAllFacts ==
  ASSUME NEW F, Good(F), NEW parts, Len(parts) \in Nat, DOMAIN parts = 1 .. Len(parts),
         \A k \in DOMAIN parts : Fitting(parts[k]), NEW seq \in BOOLEAN
  PROVE  /\ Good(CombineAll(F, parts, seq))
         /\ \A c : On(CombineAll(F, parts, seq), c) <=> On(F, c) \/ AnyOn(parts, c)
         /\ \A c, key : Has(CombineAll(F, parts, seq), c, key) => Has(F, c, key) \/ AnyHas(parts, c, key)
         /\ \A c, key : Has(F, c, key) => Has(CombineAll(F, parts, seq), c, key)
         /\ \A c, key : AnyHas(parts, c, key) /\ (~seq \/ key[2] # {"DDP"})
                          => Has(CombineAll(F, parts, seq), c, key)
         /\ \A c, key : /\ ~On(F, c) /\ AllHave(parts, c, key)
                        /\ \A k \in DOMAIN parts : Apart(parts[k])
                       => Has(CombineAll(F, parts, seq), c, key)
<1> DEFINE N == Len(parts)
           H == CombiningAll(F, parts, seq)
           On1(k, c) == \E j \in 1 .. k : On(parts[j], c)
           Has1(k, c, key) == \E j \in 1 .. k : Has(parts[j], c, key)
           All1(k, c, key) == \A j \in 1 .. k : On(parts[j], c) => Has(parts[j], c, key)
           Fresh(c) == ~On(F, c) /\ \A k \in DOMAIN parts : Apart(parts[k])
           Inv(k) == /\ Good(H[k])
                     /\ \A c : On(H[k], c) <=> On(F, c) \/ On1(k, c)
                     /\ \A c, key : Has(H[k], c, key) => Has(F, c, key) \/ Has1(k, c, key)
                     /\ \A c, key : Has(F, c, key) => Has(H[k], c, key)
                     /\ \A c, key : Has1(k, c, key) /\ (~seq \/ key[2] # {"DDP"}) => Has(H[k], c, key)
                     /\ \A c, key : Fresh(c) /\ On1(k, c) /\ All1(k, c, key) => Has(H[k], c, key)
           I == {k \in 0 .. N : Inv(k)}
<1>1. N \in Nat /\ DOMAIN parts = 1 .. N /\ \A k \in 1 .. N : Fitting(parts[k])
  OBVIOUS
<1>2. H = [k \in 0 .. N |-> IF k = 0 THEN F ELSE CombineForest(H[k - 1], parts[k], seq)]
  BY <1>1, CombiningAllDef
<1> HIDE DEF H, N
<1>3. 0 \in I
  <2>1. H[0] = F /\ 0 \in 0 .. N
    BY <1>1, <1>2
  <2>2. \A c, key : ~On1(0, c) /\ ~Has1(0, c, key)
    OBVIOUS
  <2> HIDE DEF On1, Has1, All1, Fresh
  <2> QED BY <2>1, <2>2
<1>4. ASSUME NEW k \in 0 .. N, k \in I, k < N PROVE k + 1 \in I
  <2> DEFINE G == parts[k + 1]
  <2>1. k + 1 \in 0 .. N /\ k + 1 \in 1 .. N /\ H[k + 1] = CombineForest(H[k], G, seq)
    BY <1>1, <1>2, <1>4
  <2>2. Fitting(G) /\ Inv(k) /\ (\A c : Fresh(c) => Apart(G))
    BY <1>1, <1>4, <2>1
  <2>3. /\ Good(H[k + 1])
        /\ \A c : On(H[k + 1], c) <=> On(H[k], c) \/ On(G, c)
        /\ \A c, key : Has(H[k + 1], c, key) => Has(H[k], c, key) \/ Has(G, c, key)
        /\ \A c, key : Has(H[k], c, key) \/ Added(H[k], G, seq, c, key) => Has(H[k + 1], c, key)
    BY <2>1, <2>2, CombineFacts
  <2>4. \A j : j \in 1 .. k + 1 <=> j \in 1 .. k \/ j = k + 1
    BY <1>1, <1>4
  <2>5. \A c : On1(k + 1, c) <=> On1(k, c) \/ On(G, c)
    BY <2>4
  <2>6. \A c, key : Has1(k + 1, c, key) <=> Has1(k, c, key) \/ Has(G, c, key)
    BY <2>4
  <2>7. \A c, key : All1(k + 1, c, key) <=> All1(k, c, key) /\ (On(G, c) => Has(G, c, key))
    BY <2>4
  <2>8. \A c : Fresh(c) => ~On(F, c)
    OBVIOUS
  <2> HIDE DEF On1, Has1, All1, Fresh, G
  <2>9. \A c, key : Has1(k + 1, c, key) /\ (~seq \/ key[2] # {"DDP"}) => Has(H[k + 1], c, key)
    BY <2>2, <2>3, <2>6 DEF Added
  <2>10. ASSUME NEW c, NEW key, Fresh(c), On1(k + 1, c), All1(k + 1, c, key)
         PROVE  Has(H[k + 1], c, key)
    <3>1. CASE On1(k, c)
      BY <2>2, <2>3, <2>7, <2>10, <3>1
    <3>2. CASE ~On1(k, c)
      <4>1. Has(G, c, key) /\ Apart(G) /\ ~On(H[k], c)
        BY <2>2, <2>5, <2>7, <2>8, <2>10, <3>2
      <4> QED BY <2>3, <4>1 DEF Added
    <3> QED BY <3>1, <3>2
  <2>11. Inv(k + 1)
    BY <2>2, <2>3, <2>5, <2>6, <2>9, <2>10
  <2> QED BY <2>1, <2>11
<1>5. N \in I
  <2> HIDE DEF I
  <2>1. \A k \in 0 .. N : k \in I
    BY <1>1, <1>3, <1>4, UpTo
  <2> QED BY <1>1, <2>1
<1>6. Inv(N)
  BY <1>5
<1>7. CombineAll(F, parts, seq) = H[N]
  BY DEF CombineAll, H, N
<1>8. \A c, key : /\ On1(N, c) <=> AnyOn(parts, c)
                  /\ Has1(N, c, key) <=> AnyHas(parts, c, key)
                  /\ AllHave(parts, c, key) <=> On1(N, c) /\ All1(N, c, key)
  BY <1>1 DEF AnyOn, AnyHas, AllHave
<1>9. \A c : Fresh(c) <=> ~On(F, c) /\ \A k \in DOMAIN parts : Apart(parts[k])
  OBVIOUS
<1> HIDE DEF On1, Has1, All1, Fresh
<1> QED BY <1>6, <1>7, <1>8, <1>9

-----------------------------------------------------------------------------
\* The forest without trees.
LEMMA EmptyGood ==
  /\ Good(<<>>) /\ Fitting(<<>>)
  /\ \A c : ~On(<<>>, c)
  /\ \A c, key : ~Has(<<>>, c, key)
<1>1. <<>> \in Seq(Trees) /\ DOMAIN <<>> = {}
  OBVIOUS
<1> QED BY <1>1 DEF Good, Fitting, Apart, On, Has

\* A good forest can be combined into another.
LEMMA GoodFits ==
  ASSUME NEW F, Good(F)
  PROVE  Fitting(F) /\ Apart(F)
BY DEF Good, Fitting

\* The same leaves for every tree, as a right side or a condition is added.
LEMMA LeavesForAll ==
  ASSUME NEW F, Good(F), NEW l \in LeafMaps, NEW G,
         G = [k \in DOMAIN F |-> G[k]],
         \A k \in DOMAIN F : \E v : v.leaves = l /\ G[k] = CombineTree(F[k], v, FALSE)
  PROVE  /\ Good(G)
         /\ \A c : On(G, c) <=> On(F, c)
         /\ \A c, key : Has(G, c, key) <=> Has(F, c, key) \/ (On(F, c) /\ key \in DOMAIN l)
<1>1. F \in Seq(Trees) /\ Len(F) \in Nat /\ DOMAIN F = 1 .. Len(F) /\ DOMAIN G = DOMAIN F
  BY DEF Good
<1>2. ASSUME NEW k \in DOMAIN F
      PROVE  /\ G[k] \in Trees /\ G[k].name = F[k].name /\ G[k].select = F[k].select
             /\ DOMAIN G[k].leaves = DOMAIN F[k].leaves \cup DOMAIN l
  <2>1. PICK v : v.leaves = l /\ G[k] = CombineTree(F[k], v, FALSE)
    OBVIOUS
  <2>2. F[k] \in Trees /\ v.leaves \in LeafMaps
    BY <1>1, <2>1
  <2> DEFINE t == F[k]
             new == CombineTree(t, v, FALSE)
             kept == {j \in DOMAIN v.leaves : ~FALSE \/ j[2] # {"DDP"}}
  <2>3. t \in Trees
    BY <2>2
  <2>4. kept = DOMAIN v.leaves
    OBVIOUS
  <2> HIDE DEF t, kept
  <2>5. /\ new \in Trees /\ new.name = t.name /\ new.select = t.select
        /\ DOMAIN new.leaves = DOMAIN t.leaves \cup kept
    BY <2>2, <2>3, CombineTreeFacts DEF kept
  <2> QED BY <2>1, <2>4, <2>5 DEF t
<1>3. G \in Seq(Trees)
  <2>1. G \in [1 .. Len(F) -> Trees]
    BY <1>1, <1>2
  <2> QED BY <1>1, <2>1
<1>4. \A k \in DOMAIN G : Fit(G[k])
  BY <1>1, <1>2 DEF Fit, Good
<1>5. Apart(G)
  BY <1>1, <1>2 DEF Apart, Good
<1>6. \A k \in DOMAIN F : \A c : Carries(G[k], c) <=> Carries(F[k], c)
  BY <1>2 DEF Carries
<1>7. \A c : On(G, c) <=> On(F, c)
  BY <1>1, <1>6 DEF On
<1>8. \A c, key : Has(G, c, key) <=> Has(F, c, key) \/ (On(F, c) /\ key \in DOMAIN l)
  BY <1>1, <1>2, <1>6 DEF On, Has
<1> QED BY <1>3, <1>4, <1>5, <1>7, <1>8 DEF Good

\* The leaves of a right side can be those of a tree.
LEMMA RhsFacts ==
  /\ NoLeaves \in LeafMaps /\ DOMAIN NoLeaves = {}
  /\ \A f \in Rhs : f \in LeafMaps
<1>1. NoLeaves \in LeafMaps /\ DOMAIN NoLeaves = {}
  <2>1. NoLeaves \in [{} -> SUBSET Sources]
    BY DEF NoLeaves
  <2>2. {} \in SUBSET Keys
    OBVIOUS
  <2> QED BY <2>1, <2>2 DEF LeafMaps, NoLeaves
<1>2. ASSUME NEW f \in Rhs PROVE f \in LeafMaps
  <2>1. f = [k \in DOMAIN f |-> f[k]]
    BY RhsAssumption
  <2>2. DOMAIN f \subseteq Keys
    BY DEF Keys
  <2>3. \A k \in DOMAIN f : f[k] \subseteq Sources
    BY DEF Sources
  <2> QED BY <2>1, <2>2, <2>3, LeafMapFacts
<1> QED BY <1>1, <1>2

\* A target of an assignment.
LEMMA TargetFits ==
  ASSUME NEW v \in Targets, NEW l \in LeafMaps
  PROVE  /\ Fit(Tree(v[1], v[2], l))
         /\ Tree(v[1], v[2], l).leaves = l
<1>1. v[1] \in Names /\ v[2] \subseteq Bits
  BY DEF Names, Bits
<1>2. /\ Tree(v[1], v[2], l) \in Trees
      /\ Tree(v[1], v[2], l).name = v[1] /\ Tree(v[1], v[2], l).select = v[2]
      /\ Tree(v[1], v[2], l).leaves = l
  BY <1>1 DEF Tree, Trees
<1>3. v[2] = {} <=> v[1] \in Whole
  BY LvalAssumption DEF Whole
<1> QED BY <1>2, <1>3 DEF Fit

\* LConcatenation::get_rforest and Assign::get_rforest.
LEMMA AssignFacts ==
  ASSUME NEW lval \in Lvals, NEW rhs \in Rhs
  PROVE  /\ Good(AssignForest(lval, rhs))
         /\ \A c, key : Has(AssignForest(lval, rhs), c, key)
                          <=> On(AssignForest(lval, rhs), c) /\ key \in DOMAIN rhs
<1> DEFINE trees == [k \in DOMAIN lval |-> Tree(lval[k][1], lval[k][2], NoLeaves)]
           left == CombineForest(<<>>, trees, FALSE)
           F == AssignForest(lval, rhs)
<1>1. lval \in Seq(Targets) /\ DOMAIN lval = 1 .. Len(lval) /\ Len(lval) \in Nat
  BY LvalAssumption
<1>2. \A k \in DOMAIN lval : Fit(trees[k]) /\ trees[k].leaves = NoLeaves
  BY <1>1, RhsFacts, TargetFits
<1>3. Fitting(trees)
  <2>1. \A k \in DOMAIN lval : trees[k] \in Trees
    BY <1>2 DEF Fit
  <2>2. trees \in [1 .. Len(lval) -> Trees]
    BY <1>1, <2>1
  <2>3. trees \in Seq(Trees)
    BY <1>1, <2>2
  <2> QED BY <1>2, <2>3 DEF Fitting
<1>4. \A c, key : ~Has(trees, c, key)
  BY <1>2, RhsFacts DEF Has
<1>5. Good(left) /\ \A c, key : ~Has(left, c, key)
  <2>1. left = CombineForest(<<>>, trees, FALSE)
    OBVIOUS
  <2> HIDE DEF trees, left
  <2>2. Good(left) /\ \A c, key : Has(left, c, key) => Has(<<>>, c, key) \/ Has(trees, c, key)
    BY <1>3, <2>1, EmptyGood, CombineFacts
  <2> QED BY <1>4, <2>2, EmptyGood
<1> HIDE DEF trees
<1>6. F = [k \in DOMAIN left |-> CombineTree(left[k], Tree(left[k].name, {}, rhs), FALSE)]
  BY DEF AssignForest, trees
<1> HIDE DEF left, F
<1>7. F = [k \in DOMAIN left |-> F[k]]
  BY <1>6
<1>8. \A k \in DOMAIN left : \E v : v.leaves = rhs /\ F[k] = CombineTree(left[k], v, FALSE)
  <2>1. \A n : Tree(n, {}, rhs).leaves = rhs
    BY DEF Tree
  <2> QED BY <1>6, <2>1
<1>9. /\ Good(F)
      /\ \A c : On(F, c) <=> On(left, c)
      /\ \A c, key : Has(F, c, key) <=> Has(left, c, key) \/ (On(left, c) /\ key \in DOMAIN rhs)
  BY <1>5, <1>7, <1>8, RhsFacts, LeavesForAll
<1> QED BY <1>5, <1>9 DEF F

-----------------------------------------------------------------------------
\* A finite set as a sequence has the same elements.
LEMMA SetToSeqFacts ==
  ASSUME NEW S, IsFiniteSet(S)
  PROVE  SetToSeq(S) \in Seq(S) /\ ToSet(SetToSeq(S)) = S
<1> DEFINE n == Cardinality(S)
           s == SetToSeq(S)
<1>1. n \in Nat /\ \E f : f \in [1 .. n -> S] /\ IsInjective(f)
  <2>1. n \in Nat /\ Bijection(1 .. n, S) # {}
    BY FS_CardinalityType DEF ExistsBijection
  <2> HIDE DEF n
  <2> QED BY <2>1 DEF Bijection, Injection
<1>2. s \in [1 .. n -> S] /\ IsInjective(s)
  <2>1. s = CHOOSE f \in [1 .. n -> S] : IsInjective(f)
    BY DEF SetToSeq
  <2> HIDE DEF s, n
  <2> QED BY <1>1, <2>1
<1> HIDE DEF s
<1>3. s \in Surjection(1 .. n, S)
  <2>1. s \in Injection(1 .. n, S)
    BY <1>2 DEF Injection
  <2>2. IsFiniteSet(1 .. n) /\ Cardinality(1 .. n) = n
    BY <1>1, FS_Interval
  <2> QED BY <2>1, <2>2, FS_Injection DEF n
<1> HIDE DEF n
<1>4. s \in Seq(S) /\ DOMAIN s = 1 .. n
  BY <1>1, <1>2
<1>5. \A x \in S : \E k \in 1 .. n : s[k] = x
  BY <1>3 DEF Surjection
<1>6. ToSet(s) = S
  BY <1>2, <1>4, <1>5 DEF ToSet
<1> QED BY <1>4, <1>6 DEF s

\* The tree that keeps the value of some bits.
LEMMA SelfLoopFacts ==
  ASSUME NEW n \in Names, NEW bits \in SUBSET Bits, bits = {} <=> n \in Whole
  PROVE  /\ Fit(SelfLoop(n, bits))
         /\ SelfLoop(n, bits).name = n /\ SelfLoop(n, bits).select = bits
         /\ DOMAIN SelfLoop(n, bits).leaves = {<<n, {"DDP"}>>}
<1> DEFINE l == [k \in {<<n, {"DDP"}>>} |-> bits]
<1>1. l \in LeafMaps /\ DOMAIN l = {<<n, {"DDP"}>>}
  <2>1. l = [k \in DOMAIN l |-> l[k]] /\ DOMAIN l = {<<n, {"DDP"}>>}
    OBVIOUS
  <2>2. \A k \in DOMAIN l : l[k] \subseteq Sources
    BY DEF Sources
  <2>3. Loops \subseteq Keys
    BY DEF Keys
  <2>4. <<n, {"DDP"}>> \in Loops
    BY DEF Loops
  <2> HIDE DEF l
  <2>5. DOMAIN l \subseteq Keys
    BY <2>1, <2>3, <2>4
  <2> QED BY <2>1, <2>2, <2>5, LeafMapFacts
<1> HIDE DEF l
<1>2. SelfLoop(n, bits) = [name |-> n, select |-> bits, leaves |-> l]
  BY DEF SelfLoop, Tree, l
<1> QED BY <1>1, <1>2 DEF Fit, Trees

\* Self loops of the signals of D, b[n] the bits of n.
LEMMA LoopsFacts ==
  ASSUME NEW D, IsFiniteSet(D), NEW b,
         \A n \in D : n \in Names /\ b[n] \subseteq Bits /\ (b[n] = {} <=> n \in Whole),
         NEW S, S = {SelfLoop(n, b[n]) : n \in D}
  PROVE  /\ Good(SetToSeq(S))
         /\ \A c : On(SetToSeq(S), c) <=> c[1] \in D /\ c \in CellsOf(c[1], b[c[1]])
         /\ \A c, key : Has(SetToSeq(S), c, key)
                          <=> On(SetToSeq(S), c) /\ key = <<c[1], {"DDP"}>>
<1> DEFINE L == SetToSeq(S)
           loop == [n \in D |-> SelfLoop(n, b[n])]
<1>1. \A n \in D : /\ Fit(loop[n])
                   /\ loop[n].name = n /\ loop[n].select = b[n]
                   /\ DOMAIN loop[n].leaves = {<<n, {"DDP"}>>}
  BY SelfLoopFacts
<1>2. S = {loop[n] : n \in D}
  OBVIOUS
<1>3. IsFiniteSet(S)
  <2> HIDE DEF loop
  <2> DEFINE f == [n \in D |-> loop[n]]
  <2>1. f \in Surjection(D, S)
    BY <1>2 DEF Surjection
  <2> QED BY <2>1, FS_Surjection
<1>4. L \in Seq(S) /\ ToSet(L) = S
  BY <1>3, SetToSeqFacts
<1>4a. \A j, k \in DOMAIN L : j # k => L[j] # L[k]
  <2> DEFINE n == Cardinality(S)
  <2>1. n \in Nat /\ \E f : f \in [1 .. n -> S] /\ IsInjective(f)
    <3>1. n \in Nat /\ Bijection(1 .. n, S) # {}
      BY <1>3, FS_CardinalityType DEF ExistsBijection
    <3> HIDE DEF n
    <3> QED BY <3>1 DEF Bijection, Injection
  <2>2. L = CHOOSE f \in [1 .. n -> S] : IsInjective(f)
    BY DEF SetToSeq
  <2> HIDE DEF L, n
  <2> QED BY <2>1, <2>2 DEF IsInjective
<1> HIDE DEF L, loop
<1>5. ToSet(L) = {L[k] : k \in DOMAIN L}
  BY DEF ToSet
<1>6. \A k \in DOMAIN L : L[k] \in S
  BY <1>4, <1>5
<1>7. /\ \A k \in DOMAIN L : \E n \in D : L[k] = loop[n]
      /\ \A n \in D : \E k \in DOMAIN L : L[k] = loop[n]
  <2>1. \A t : t \in S <=> \E k \in DOMAIN L : L[k] = t
    BY <1>4, <1>5
  <2> QED BY <1>2, <2>1
<1>8. \A k \in DOMAIN L : Fit(L[k])
  BY <1>1, <1>7
<1>9. L \in Seq(Trees)
  <2>1. S \subseteq Trees
    BY <1>1, <1>2 DEF Fit
  <2> QED BY <1>4, <2>1
<1>10. Apart(L)
  <2> SUFFICES ASSUME NEW j \in DOMAIN L, NEW k \in DOMAIN L, j # k, L[j].name = L[k].name
               PROVE  FALSE
    BY DEF Apart
  <2>1. PICK m \in D : L[j] = loop[m]
    BY <1>7
  <2>2. PICK n \in D : L[k] = loop[n]
    BY <1>7
  <2>3. m = n
    BY <1>1, <2>1, <2>2
  <2> QED BY <1>4a, <2>1, <2>2, <2>3
<1>11. ASSUME NEW n \in D, NEW c
       PROVE  Carries(loop[n], c) <=> c[1] = n /\ c \in CellsOf(n, b[n])
  BY <1>1, CarriesFacts DEF Carries
<1>12. ASSUME NEW c PROVE On(L, c) <=> c[1] \in D /\ c \in CellsOf(c[1], b[c[1]])
  BY <1>7, <1>11 DEF On
<1>13. ASSUME NEW c, NEW key PROVE Has(L, c, key) <=> On(L, c) /\ key = <<c[1], {"DDP"}>>
  BY <1>1, <1>7, <1>11 DEF On, Has
<1> QED BY <1>8, <1>9, <1>10, <1>12, <1>13 DEF L, Good

\* RForest::get_target_signals.
LEMMA TargetsFacts ==
  ASSUME NEW F, Good(F), NEW all, all = TargetSignals(F)
  PROVE  /\ IsFiniteSet(DOMAIN all)
         /\ \A n \in DOMAIN all : n \in Names /\ all[n] \subseteq Bits /\ (all[n] = {} <=> n \in Whole)
         /\ \A c : On(F, c) <=> c[1] \in DOMAIN all /\ c \in CellsOf(c[1], all[c[1]])
<1>1. F \in Seq(Trees) /\ Len(F) \in Nat /\ DOMAIN F = 1 .. Len(F) /\ \A k \in DOMAIN F : Fit(F[k])
  BY DEF Good
<1>2. ToSet(F) = {F[k] : k \in DOMAIN F}
  BY DEF ToSet
<1>3. DOMAIN all = {F[k].name : k \in DOMAIN F}
  BY <1>2 DEF TargetSignals
<1>4. \A n \in DOMAIN all : all[n] = UNION {F[k].select : k \in {j \in DOMAIN F : F[j].name = n}}
  BY <1>2 DEF TargetSignals
<1>5. IsFiniteSet(DOMAIN all)
  <2> DEFINE f == [k \in DOMAIN F |-> F[k].name]
  <2>1. f \in Surjection(DOMAIN F, DOMAIN all)
    BY <1>3 DEF Surjection
  <2>2. IsFiniteSet(DOMAIN F)
    BY <1>1, FS_Interval
  <2> QED BY <2>1, <2>2, FS_Surjection
<1>6. \A k \in DOMAIN F : /\ F[k].name \in Names /\ F[k].select \subseteq Bits
                          /\ F[k].select = {} <=> F[k].name \in Whole
  BY <1>1 DEF Fit, Trees
<1>7. ASSUME NEW n \in DOMAIN all
      PROVE  n \in Names /\ all[n] \subseteq Bits /\ (all[n] = {} <=> n \in Whole)
  <2>1. PICK j \in DOMAIN F : F[j].name = n
    BY <1>3
  <2>2. \A v : v \in all[n] <=> \E k \in DOMAIN F : F[k].name = n /\ v \in F[k].select
    BY <1>4
  <2>3. n \in Names /\ all[n] \subseteq Bits
    BY <1>6, <2>1, <2>2
  <2>4. CASE n \in Whole
    <3>1. \A k \in DOMAIN F : F[k].name = n => F[k].select = {}
      BY <1>6, <2>4
    <3>2. all[n] = {}
      BY <2>2, <3>1
    <3> QED BY <2>3, <2>4, <3>2
  <2>5. CASE n \notin Whole
    <3>1. F[j].select # {}
      BY <1>6, <2>1, <2>5
    <3> QED BY <2>1, <2>2, <2>3, <2>5, <3>1
  <2> QED BY <2>3, <2>4, <2>5
<1>8. ASSUME NEW c, On(F, c)
      PROVE  c[1] \in DOMAIN all /\ c \in CellsOf(c[1], all[c[1]])
  <2>1. PICK k \in DOMAIN F : Carries(F[k], c)
    BY <1>8 DEF On
  <2>2. c[1] = F[k].name /\ c[1] \in DOMAIN all
    BY <1>3, <2>1, CarriesFacts
  <2>3. F[k].select \subseteq all[c[1]]
    BY <1>4, <2>2
  <2>4. F[k].select = {} <=> all[c[1]] = {}
    BY <1>6, <1>7, <2>2
  <2>5. c \in CellsOf(F[k].name, F[k].select)
    BY <2>1 DEF Carries
  <2> QED BY <2>2, <2>3, <2>4, <2>5 DEF CellsOf
<1>9. ASSUME NEW c, c[1] \in DOMAIN all, c \in CellsOf(c[1], all[c[1]])
      PROVE  On(F, c)
  <2>1. CASE all[c[1]] = {}
    <3>1. PICK k \in DOMAIN F : F[k].name = c[1]
      BY <1>3, <1>9
    <3>2. F[k].select = {}
      BY <1>6, <1>7, <1>9, <2>1, <3>1
    <3>3. c \in CellsOf(F[k].name, F[k].select)
      BY <1>9, <2>1, <3>1, <3>2
    <3> QED BY <3>3 DEF On, Carries
  <2>2. CASE all[c[1]] # {}
    <3>1. c = <<c[1], c[2]>> /\ c[2] \in all[c[1]]
      BY <1>9, <2>2 DEF CellsOf
    <3>2. PICK k \in DOMAIN F : F[k].name = c[1] /\ c[2] \in F[k].select
      BY <1>4, <1>9, <3>1
    <3>3. Carries(F[k], c)
      BY <3>1, <3>2, CarriesFacts
    <3> QED BY <3>3 DEF On
  <2> QED BY <2>1, <2>2
<1> QED BY <1>5, <1>7, <1>8, <1>9

\* The self loops of a branch: of the bits it leaves alone.
LEMMA MissingFacts ==
  ASSUME NEW F, Good(F), NEW P, Good(P), \A c : On(P, c) => On(F, c),
         NEW L, L = SetToSeq(Missing(TargetSignals(F), TargetSignals(P)))
  PROVE  /\ Good(L)
         /\ \A c : On(L, c) <=> On(F, c) /\ ~On(P, c)
         /\ \A c, key : Has(L, c, key) <=> On(L, c) /\ key = <<c[1], {"DDP"}>>
<1> DEFINE all  == TargetSignals(F)
           part == TargetSignals(P)
           some == {m \in DOMAIN part : part[m] \subseteq all[m] /\ part[m] # all[m]}
           D == (DOMAIN all \ DOMAIN part) \cup some
           b == [n \in D |-> IF n \in some THEN all[n] \ part[n] ELSE all[n]]
           S == {SelfLoop(n, b[n]) : n \in D}
<1>1. /\ IsFiniteSet(DOMAIN all)
      /\ \A n \in DOMAIN all : n \in Names /\ all[n] \subseteq Bits /\ (all[n] = {} <=> n \in Whole)
      /\ \A c : On(F, c) <=> c[1] \in DOMAIN all /\ c \in CellsOf(c[1], all[c[1]])
  BY TargetsFacts
<1>2. /\ IsFiniteSet(DOMAIN part)
      /\ \A n \in DOMAIN part : n \in Names /\ part[n] \subseteq Bits /\ (part[n] = {} <=> n \in Whole)
      /\ \A c : On(P, c) <=> c[1] \in DOMAIN part /\ c \in CellsOf(c[1], part[c[1]])
  BY TargetsFacts
<1>3. Missing(all, part) = S
  <2>1. \A t : t \in S <=> \/ \E n \in DOMAIN all \ DOMAIN part : t = SelfLoop(n, all[n])
                           \/ \E n \in some : t = SelfLoop(n, all[n] \ part[n])
    OBVIOUS
  <2>2. Missing(all, part) = {SelfLoop(n, all[n]) : n \in DOMAIN all \ DOMAIN part} \cup
                             {SelfLoop(n, all[n] \ part[n]) : n \in some}
    BY DEF Missing
  <2> HIDE DEF S, some, all, part
  <2> QED BY <2>1, <2>2
<1> HIDE DEF all, part
<1>4. \A n \in DOMAIN part : n \in DOMAIN all /\ part[n] \subseteq all[n]
  <2> SUFFICES ASSUME NEW n \in DOMAIN part
               PROVE  n \in DOMAIN all /\ part[n] \subseteq all[n]
    OBVIOUS
  <2>1. CASE part[n] = {}
    <3>1. <<n, 0>>[1] = n /\ <<n, 0>> \in CellsOf(n, part[n])
      BY <2>1 DEF CellsOf
    <3>2. On(P, <<n, 0>>)
      BY <1>2, <3>1
    <3>3. On(F, <<n, 0>>)
      BY <3>2
    <3> QED BY <1>1, <2>1, <3>1, <3>3
  <2>2. CASE part[n] # {}
    <3>1. ASSUME NEW v \in part[n] PROVE n \in DOMAIN all /\ v \in all[n]
      <4> DEFINE c == <<n, v>>
      <4>1. c[1] = n /\ c[2] = v /\ c \in CellsOf(n, part[n])
        BY <2>2, <3>1 DEF CellsOf
      <4> HIDE DEF c
      <4>2. On(P, c)
        BY <1>2, <4>1
      <4>3. On(F, c)
        BY <4>2
      <4>4. n \in DOMAIN all /\ c \in CellsOf(n, all[n])
        BY <1>1, <4>1, <4>3
      <4>5. all[n] # {}
        BY <1>1, <1>2, <2>2, <4>4
      <4> QED BY <4>1, <4>4, <4>5 DEF CellsOf
    <3> QED BY <2>2, <3>1
  <2> QED BY <2>1, <2>2
<1>5. D \subseteq DOMAIN all /\ IsFiniteSet(D)
  <2>1. D \subseteq DOMAIN all
    BY <1>4
  <2> HIDE DEF D
  <2> QED BY <1>1, <2>1, FS_Subset
<1>6. \A n \in D : n \in Names /\ b[n] \subseteq Bits /\ (b[n] = {} <=> n \in Whole)
  <2> SUFFICES ASSUME NEW n \in D
               PROVE  n \in Names /\ b[n] \subseteq Bits /\ (b[n] = {} <=> n \in Whole)
    OBVIOUS
  <2>1. n \in DOMAIN all
    BY <1>5
  <2>2. CASE n \in some
    <3>1. b[n] = all[n] \ part[n] /\ part[n] \subseteq all[n] /\ part[n] # all[n] /\ n \in DOMAIN part
      BY <2>2
    <3>2. n \notin Whole
      BY <1>1, <1>2, <2>1, <3>1
    <3> HIDE DEF b
    <3> QED BY <1>1, <2>1, <3>1, <3>2
  <2>3. CASE n \notin some
    <3>1. b[n] = all[n]
      BY <2>3
    <3> HIDE DEF b
    <3> QED BY <1>1, <2>1, <3>1
  <2> QED BY <2>2, <2>3
<1>7. L = SetToSeq(S)
  BY <1>3 DEF all, part
<1>8. ASSUME NEW c
      PROVE  c[1] \in D /\ c \in CellsOf(c[1], b[c[1]]) <=> On(F, c) /\ ~On(P, c)
  <2> DEFINE n == c[1]
  <2>1. On(F, c) <=> n \in DOMAIN all /\ c \in CellsOf(n, all[n])
    BY <1>1
  <2>2. On(P, c) <=> n \in DOMAIN part /\ c \in CellsOf(n, part[n])
    BY <1>2
  <2> HIDE DEF n
  <2>3. CASE n \notin DOMAIN part
    <3>1. n \in D <=> n \in DOMAIN all
      BY <2>3
    <3>2. n \in D => b[n] = all[n]
      BY <2>3
    <3> HIDE DEF D, b
    <3> QED BY <2>1, <2>2, <2>3, <3>1, <3>2 DEF n
  <2>4. CASE n \in DOMAIN part /\ part[n] = all[n]
    <3>1. n \notin D
      BY <2>4
    <3> HIDE DEF D, b
    <3> QED BY <1>4, <2>1, <2>2, <2>4, <3>1 DEF n
  <2>5. CASE n \in DOMAIN part /\ part[n] # all[n]
    <3>1. n \in D /\ b[n] = all[n] \ part[n] /\ n \in DOMAIN all /\ part[n] \subseteq all[n]
      BY <1>4, <2>5
    <3>2. all[n] # {} /\ all[n] \ part[n] # {} /\ part[n] # {}
      BY <1>1, <1>2, <2>5, <3>1
    <3>3. c \in CellsOf(n, all[n] \ part[n]) <=> c \in CellsOf(n, all[n]) /\ c \notin CellsOf(n, part[n])
      BY <3>2 DEF CellsOf
    <3> HIDE DEF D, b
    <3> QED BY <2>1, <2>2, <2>5, <3>1, <3>3 DEF n
  <2> QED BY <2>3, <2>4, <2>5
<1> HIDE DEF D, b
<1>9. S = {SelfLoop(n, b[n]) : n \in D}
  OBVIOUS
<1> HIDE DEF S
<1>10. /\ Good(SetToSeq(S))
       /\ \A c : On(SetToSeq(S), c) <=> c[1] \in D /\ c \in CellsOf(c[1], b[c[1]])
       /\ \A c, key : Has(SetToSeq(S), c, key) <=> On(SetToSeq(S), c) /\ key = <<c[1], {"DDP"}>>
  BY <1>5, <1>6, <1>9, LoopsFacts
<1> QED BY <1>7, <1>8, <1>10

-----------------------------------------------------------------------------
\* The leaf of a bit that keeps its value.
Loop(c) == <<c[1], {"DDP"}>>

\* A function that is a sequence of something.
Sequence(G) == Len(G) \in Nat /\ DOMAIN G = 1 .. Len(G)

\* Block::get_rforest: a default self loop stays when every part that assigns
\* the bit has it.
LEMMA BlockFacts ==
  ASSUME NEW G, Sequence(G), \A k \in DOMAIN G : Good(G[k])
  PROVE  /\ Good(BlockForest(G))
         /\ \A c : On(BlockForest(G), c) <=> AnyOn(G, c)
         /\ \A c, key : Has(BlockForest(G), c, key) => AnyHas(G, c, key)
         /\ \A c, key : (AnyHas(G, c, key) /\ key[2] # {"DDP"}) \/ AllHave(G, c, key)
                          => Has(BlockForest(G), c, key)
<1>1. Good(<<>>) /\ (\A c : ~On(<<>>, c)) /\ (\A c, key : ~Has(<<>>, c, key))
  BY EmptyGood
<1>2. Len(G) \in Nat /\ DOMAIN G = 1 .. Len(G) /\ \A k \in DOMAIN G : Fitting(G[k]) /\ Apart(G[k])
  BY GoodFits DEF Sequence
<1> DEFINE B == BlockForest(G)
<1>3. B = CombineAll(<<>>, G, TRUE)
  BY DEF BlockForest
<1> HIDE DEF B
<1>4. /\ Good(B)
      /\ \A c : On(B, c) <=> On(<<>>, c) \/ AnyOn(G, c)
      /\ \A c, key : Has(B, c, key) => Has(<<>>, c, key) \/ AnyHas(G, c, key)
      /\ \A c, key : AnyHas(G, c, key) /\ (~TRUE \/ key[2] # {"DDP"}) => Has(B, c, key)
      /\ \A c, key : /\ ~On(<<>>, c) /\ AllHave(G, c, key)
                     /\ \A k \in DOMAIN G : Apart(G[k])
                    => Has(B, c, key)
  BY <1>1, <1>2, <1>3, CombineAllFacts
<1>5. \A c, key : Has(B, c, key) => AnyHas(G, c, key)
  BY <1>1, <1>4
<1>6. \A c, key : AnyHas(G, c, key) /\ key[2] # {"DDP"} => Has(B, c, key)
  BY <1>4
<1>7. \A c, key : AllHave(G, c, key) => Has(B, c, key)
  <2> SUFFICES ASSUME NEW c, NEW key, AllHave(G, c, key) PROVE Has(B, c, key)
    OBVIOUS
  <2>1. ~On(<<>>, c) /\ \A k \in DOMAIN G : Apart(G[k])
    BY <1>1, <1>2
  <2> QED BY <1>4, <2>1
<1>8. \A c : On(B, c) <=> AnyOn(G, c)
  BY <1>1, <1>4
<1> QED BY <1>4, <1>5, <1>6, <1>7, <1>8 DEF B

\* A branch is a block of one part.
LEMMA OneBlock ==
  ASSUME NEW F, Good(F)
  PROVE  /\ Good(BlockForest(<<F>>))
         /\ \A c : On(BlockForest(<<F>>), c) <=> On(F, c)
         /\ \A c, key : Has(BlockForest(<<F>>), c, key) <=> Has(F, c, key)
<1> DEFINE G == <<F>>
<1>1. Sequence(G) /\ DOMAIN G = {1} /\ G[1] = F
  BY DEF Sequence
<1> HIDE DEF G
<1>2. \A c : AnyOn(G, c) <=> On(F, c)
  BY <1>1 DEF AnyOn
<1>3. \A c, key : AnyHas(G, c, key) <=> Has(F, c, key)
  BY <1>1 DEF AnyHas
<1>4. \A c, key : Has(F, c, key) => On(F, c)
  BY DEF Has, On
<1>5. \A c, key : Has(F, c, key) => AllHave(G, c, key)
  BY <1>1, <1>2, <1>4 DEF AllHave
<1>6. \A k \in DOMAIN G : Good(G[k])
  BY <1>1
<1>7. /\ Good(BlockForest(G))
      /\ \A c : On(BlockForest(G), c) <=> AnyOn(G, c)
      /\ \A c, key : Has(BlockForest(G), c, key) => AnyHas(G, c, key)
      /\ \A c, key : AllHave(G, c, key) => Has(BlockForest(G), c, key)
  BY <1>1, <1>6, BlockFacts
<1> QED BY <1>2, <1>3, <1>5, <1>7 DEF G

\* Forests that are combined side by side.
LEMMA CombineAllPlain ==
  ASSUME NEW F, Good(F), NEW G, Sequence(G), \A k \in DOMAIN G : Good(G[k]),
         NEW R, R = CombineAll(F, G, FALSE)
  PROVE  /\ Good(R)
         /\ \A c : On(R, c) <=> On(F, c) \/ AnyOn(G, c)
         /\ \A c, key : Has(R, c, key) <=> Has(F, c, key) \/ AnyHas(G, c, key)
<1>1. Len(G) \in Nat /\ DOMAIN G = 1 .. Len(G) /\ \A k \in DOMAIN G : Fitting(G[k])
  BY GoodFits DEF Sequence
<1>2. /\ Good(R)
      /\ \A c : On(R, c) <=> On(F, c) \/ AnyOn(G, c)
      /\ \A c, key : Has(R, c, key) => Has(F, c, key) \/ AnyHas(G, c, key)
      /\ \A c, key : Has(F, c, key) => Has(R, c, key)
      /\ \A c, key : AnyHas(G, c, key) /\ (~FALSE \/ key[2] # {"DDP"}) => Has(R, c, key)
  BY <1>1, CombineAllFacts
<1> QED BY <1>2

\* The branches with the self loops of what they leave alone.
LEMMA JoinedFacts ==
  ASSUME NEW G, Sequence(G), \A k \in DOMAIN G : Good(G[k]), NEW full \in BOOLEAN
  PROVE  /\ Good(Joined(G, full))
         /\ \A c : On(Joined(G, full), c) <=> AnyOn(G, c)
         /\ \A c, key : Has(Joined(G, full), c, key) <=>
              \/ AnyHas(G, c, key)
              \/ /\ key = Loop(c) /\ AnyOn(G, c)
                 /\ full => \E k \in DOMAIN G : ~On(G[k], c)
<1> DEFINE rv == CombineAll(<<>>, G, FALSE)
           all == TargetSignals(rv)
           L == [k \in DOMAIN G |-> SetToSeq(Missing(all, TargetSignals(G[k])))]
           M == SetToSeq({SelfLoop(n, all[n]) : n \in DOMAIN all})
           J == Joined(G, full)
<1>1. Len(G) \in Nat /\ DOMAIN G = 1 .. Len(G)
  BY DEF Sequence
<1>2. /\ Good(rv)
      /\ \A c : On(rv, c) <=> AnyOn(G, c)
      /\ \A c, key : Has(rv, c, key) <=> AnyHas(G, c, key)
  <2>1. Good(<<>>) /\ (\A c : ~On(<<>>, c)) /\ (\A c, key : ~Has(<<>>, c, key))
    BY EmptyGood
  <2>2. rv = CombineAll(<<>>, G, FALSE)
    OBVIOUS
  <2> HIDE DEF rv
  <2>3. /\ Good(rv)
        /\ \A c : On(rv, c) <=> On(<<>>, c) \/ AnyOn(G, c)
        /\ \A c, key : Has(rv, c, key) <=> Has(<<>>, c, key) \/ AnyHas(G, c, key)
    BY <2>1, <2>2, CombineAllPlain
  <2> QED BY <2>1, <2>3
<1>3. J = IF full THEN CombineAll(rv, L, FALSE) ELSE CombineForest(rv, M, FALSE)
  BY DEF Joined
<1> HIDE DEF rv, J
<1>4. CASE full
  <2>1. Len(L) \in Nat /\ DOMAIN L = DOMAIN G /\ DOMAIN L = 1 .. Len(L)
    BY <1>1
  <2>2. \A k \in DOMAIN G : /\ Good(L[k])
                            /\ \A c : On(L[k], c) <=> On(rv, c) /\ ~On(G[k], c)
                            /\ \A c, key : Has(L[k], c, key) <=> On(L[k], c) /\ key = <<c[1], {"DDP"}>>
    <3> SUFFICES ASSUME NEW k \in DOMAIN G
                 PROVE  /\ Good(L[k])
                        /\ \A c : On(L[k], c) <=> On(rv, c) /\ ~On(G[k], c)
                        /\ \A c, key : Has(L[k], c, key) <=> On(L[k], c) /\ key = <<c[1], {"DDP"}>>
      OBVIOUS
    <3>1. L[k] = SetToSeq(Missing(TargetSignals(rv), TargetSignals(G[k])))
      OBVIOUS
    <3>2. \A c : On(G[k], c) => On(rv, c)
      BY <1>2 DEF AnyOn
    <3> HIDE DEF L, all
    <3> QED BY <1>2, <3>1, <3>2, MissingFacts
  <2>3. J = CombineAll(rv, L, FALSE)
    BY <1>3, <1>4
  <2> HIDE DEF L
  <2>4. Sequence(L) /\ \A k \in DOMAIN L : Good(L[k])
    BY <2>1, <2>2 DEF Sequence
  <2>5. /\ Good(J)
        /\ \A c : On(J, c) <=> On(rv, c) \/ AnyOn(L, c)
        /\ \A c, key : Has(J, c, key) <=> Has(rv, c, key) \/ AnyHas(L, c, key)
    BY <1>2, <2>3, <2>4, CombineAllPlain
  <2>6. \A c : AnyOn(L, c) <=> On(rv, c) /\ \E k \in DOMAIN G : ~On(G[k], c)
    BY <2>1, <2>2 DEF AnyOn
  <2>7. \A c, key : AnyHas(L, c, key) <=> AnyOn(L, c) /\ key = Loop(c)
    BY <2>1, <2>2 DEF AnyHas, AnyOn, Loop
  <2> QED BY <1>2, <1>4, <2>5, <2>6, <2>7 DEF J
<1>5. CASE ~full
  <2>1. /\ IsFiniteSet(DOMAIN all)
        /\ \A n \in DOMAIN all : n \in Names /\ all[n] \subseteq Bits /\ (all[n] = {} <=> n \in Whole)
        /\ \A c : On(rv, c) <=> c[1] \in DOMAIN all /\ c \in CellsOf(c[1], all[c[1]])
    BY <1>2, TargetsFacts
  <2> HIDE DEF all
  <2>2. /\ Good(M)
        /\ \A c : On(M, c) <=> c[1] \in DOMAIN all /\ c \in CellsOf(c[1], all[c[1]])
        /\ \A c, key : Has(M, c, key) <=> On(M, c) /\ key = <<c[1], {"DDP"}>>
    BY <2>1, LoopsFacts
  <2>3. J = CombineForest(rv, M, FALSE)
    BY <1>3, <1>5 DEF all
  <2> HIDE DEF M
  <2>4. /\ Good(J)
        /\ \A c : On(J, c) <=> On(rv, c) \/ On(M, c)
        /\ \A c, key : Has(J, c, key) => Has(rv, c, key) \/ Has(M, c, key)
        /\ \A c, key : Has(rv, c, key) \/ Added(rv, M, FALSE, c, key) => Has(J, c, key)
    BY <1>2, <2>2, <2>3, GoodFits, CombineFacts
  <2>5. \A c, key : Added(rv, M, FALSE, c, key) <=> Has(M, c, key)
    BY DEF Added
  <2> QED BY <1>2, <1>5, <2>1, <2>2, <2>4, <2>5 DEF Loop, J
<1> QED BY <1>4, <1>5

-----------------------------------------------------------------------------
\* The leaf of a condition.
Test(q, type) == <<q, CalType({"ASS"}, {type})>>

\* It is a leaf of the condition and no default self loop.
LEMMA TestFacts ==
  ASSUME NEW q \in Conds, NEW type \in {"LOG", "EQU", "DAT"}
  PROVE  Test(q, type) \in Keys /\ Test(q, type)[1] = q /\ Test(q, type)[2] # {"DDP"}
<1>1. Test(q, type) \in Tests /\ Tests \subseteq Keys
  BY DEF Test, Tests, Keys
<1>2. CalType({"ASS"}, {type}) # {"DDP"}
  <2>1. CASE type = "DAT"
    <3>1. "DAT" \in CalType({"ASS"}, {"DAT"})
      BY DEF CalType, CR, CRTypes, Control, ControlTypes, Data, DataTypes, CalTypeData, CalTypeData2Control
    <3> QED BY <2>1, <3>1
  <2>2. CASE type \in {"LOG", "EQU"}
    <3>1. type \in CalType({"ASS"}, {type})
      BY <2>2 DEF CalType, CR, CRTypes, Control, ControlTypes, Data, DataTypes, CalTypeData2Control
    <3> QED BY <2>2, <3>1
  <2> QED BY <2>1, <2>2
<1> QED BY <1>1, <1>2 DEF Test

\* The condition becomes a source of every bit.
LEMMA GuardedFacts ==
  ASSUME NEW F, Good(F), NEW q \in Conds, NEW type \in {"LOG", "EQU", "DAT"}
  PROVE  /\ Good(Guarded(F, q, type))
         /\ \A c : On(Guarded(F, q, type), c) <=> On(F, c)
         /\ \A c, key : Has(Guarded(F, q, type), c, key)
                          <=> Has(F, c, key) \/ (On(F, c) /\ key = Test(q, type))
<1> DEFINE leaf == [k \in {<<q, {"ASS"}>>} |-> {}]
           exp == AssignType(leaf, {type})
           G == Guarded(F, q, type)
<1>1. exp = [k \in {Test(q, type)} |-> {}]
  <2>1. DOMAIN leaf = {<<q, {"ASS"}>>} /\ leaf[<<q, {"ASS"}>>] = {}
    OBVIOUS
  <2> HIDE DEF leaf
  <2> DEFINE Key(k) == <<k[1], CalType(k[2], {type})>>
  <2>2. Key(<<q, {"ASS"}>>) = Test(q, type)
    BY DEF Test
  <2>3. exp = [j \in {Key(k) : k \in DOMAIN leaf} |->
                 UNION {leaf[k] : k \in {i \in DOMAIN leaf : Key(i) = j}}]
    BY DEF AssignType
  <2> HIDE DEF Key
  <2>4. {Key(k) : k \in DOMAIN leaf} = {Test(q, type)}
    BY <2>1, <2>2
  <2>5. UNION {leaf[k] : k \in {i \in DOMAIN leaf : Key(i) = Test(q, type)}} = {}
    BY <2>1
  <2> HIDE DEF exp
  <2> QED BY <2>3, <2>4, <2>5
<1>2. exp \in LeafMaps /\ DOMAIN exp = {Test(q, type)}
  <2>1. exp = [k \in DOMAIN exp |-> exp[k]] /\ DOMAIN exp = {Test(q, type)}
        /\ \A k \in DOMAIN exp : exp[k] = {}
    BY <1>1
  <2> HIDE DEF exp
  <2>2. DOMAIN exp \subseteq Keys
    BY <2>1, TestFacts
  <2> QED BY <2>1, <2>2, LeafMapFacts
<1>3. G = [k \in DOMAIN F |-> CombineTree(F[k], Tree(q, {}, exp), FALSE)]
  BY DEF Guarded
<1> HIDE DEF G, exp
<1>4. G = [k \in DOMAIN F |-> G[k]]
  BY <1>3
<1>5. \A k \in DOMAIN F : \E v : v.leaves = exp /\ G[k] = CombineTree(F[k], v, FALSE)
  <2>1. Tree(q, {}, exp).leaves = exp
    BY DEF Tree
  <2> QED BY <1>3, <2>1
<1>6. /\ Good(G)
      /\ \A c : On(G, c) <=> On(F, c)
      /\ \A c, key : Has(G, c, key) <=> Has(F, c, key) \/ (On(F, c) /\ key \in DOMAIN exp)
  BY <1>2, <1>4, <1>5, LeavesForAll
<1> QED BY <1>2, <1>6 DEF G

\* A branch statement with the condition q, of which the parts in U are used:
\* what its forest is made of.
Branches(F, G, U, full, q) ==
    /\ Good(F)
    /\ \A c : On(F, c) <=> \E k \in U : On(G[k], c)
    /\ \E type \in {"LOG", "EQU", "DAT"} : \A c, key :
         Has(F, c, key) <=> \/ \E k \in U : Has(G[k], c, key)
                            \/ On(F, c) /\ key = Test(q, type)
                            \/ /\ On(F, c) /\ key = Loop(c)
                               /\ full => \E k \in U : ~On(G[k], c)

\* The common part of IfState::get_rforest and CaseState::get_rforest.
LEMMA BranchesFacts ==
  ASSUME NEW G, NEW n \in Nat, \A k \in 1 .. n : Good(G[k]), NEW full \in BOOLEAN,
         NEW q \in Conds, NEW type \in {"LOG", "EQU", "DAT"},
         NEW B, B = [k \in 1 .. n |-> BlockForest(<<G[k]>>)]
  PROVE  /\ Good(Joined(B, full))
         /\ Branches(Guarded(Joined(B, full), q, type), G, 1 .. n, full, q)
<1>1. Sequence(B) /\ DOMAIN B = 1 .. n
  <2>1. B \in Seq({BlockForest(<<G[k]>>) : k \in 1 .. n}) /\ Len(B) = n
    OBVIOUS
  <2> QED BY <2>1 DEF Sequence
<1>2. \A k \in 1 .. n : /\ Good(B[k])
                        /\ \A c : On(B[k], c) <=> On(G[k], c)
                        /\ \A c, key : Has(B[k], c, key) <=> Has(G[k], c, key)
  BY OneBlock
<1> DEFINE J == Joined(B, full)
           F == Guarded(J, q, type)
<1>3. /\ Good(J)
      /\ \A c : On(J, c) <=> AnyOn(B, c)
      /\ \A c, key : Has(J, c, key) <=>
              \/ AnyHas(B, c, key)
              \/ /\ key = Loop(c) /\ AnyOn(B, c)
                 /\ full => \E k \in DOMAIN B : ~On(B[k], c)
  BY <1>1, <1>2, JoinedFacts
<1> HIDE DEF J
<1>4. /\ Good(F)
      /\ \A c : On(F, c) <=> On(J, c)
      /\ \A c, key : Has(F, c, key) <=> Has(J, c, key) \/ (On(J, c) /\ key = Test(q, type))
  BY <1>3, GuardedFacts
<1> HIDE DEF F
<1>5. \A c : AnyOn(B, c) <=> \E k \in 1 .. n : On(G[k], c)
  BY <1>1, <1>2 DEF AnyOn
<1>6. \A c, key : AnyHas(B, c, key) <=> \E k \in 1 .. n : Has(G[k], c, key)
  BY <1>1, <1>2 DEF AnyHas
<1>7. \A c : (\E k \in DOMAIN B : ~On(B[k], c)) <=> \E k \in 1 .. n : ~On(G[k], c)
  BY <1>1, <1>2
<1>8. \A c, key : Has(F, c, key) <=>
              \/ \E k \in 1 .. n : Has(G[k], c, key)
              \/ On(F, c) /\ key = Test(q, type)
              \/ /\ On(F, c) /\ key = Loop(c)
                 /\ full => \E k \in 1 .. n : ~On(G[k], c)
  BY <1>3, <1>4, <1>6, <1>7
<1> QED BY <1>3, <1>4, <1>5, <1>8 DEF Branches, J, F

\* IfState::get_rforest.
LEMMA IfFacts ==
  ASSUME NEW G, Sequence(G), \A k \in DOMAIN G : Good(G[k]), NEW q \in Conds
  PROVE  Branches(IfForest(G, q), G, DOMAIN G, Len(G) = 2, q)
<1> DEFINE n == Len(G)
           full == Len(G) = 2
           B == [k \in 1 .. n |-> BlockForest(<<G[k]>>)]
<1>1. n \in Nat /\ DOMAIN G = 1 .. n /\ (\A k \in 1 .. n : Good(G[k])) /\ full \in BOOLEAN
  BY DEF Sequence
<1>2. IfForest(G, q) = Guarded(Joined(B, full), q, "LOG")
  BY <1>1 DEF IfForest
<1>3. "LOG" \in {"LOG", "EQU", "DAT"}
  OBVIOUS
<1> HIDE DEF n, full
<1> DEFINE H == B
<1>4. H = [k \in 1 .. n |-> BlockForest(<<G[k]>>)]
  OBVIOUS
<1> HIDE DEF H
<1>5. Branches(Guarded(Joined(H, full), q, "LOG"), G, 1 .. n, full, q)
  BY <1>1, <1>3, <1>4, BranchesFacts
<1> QED BY <1>1, <1>2, <1>5 DEF H, full

\* The number of items of a case up to the first default, and whether one of
\* them is always taken.
Defaults(labels) == {k \in DOMAIN labels : labels[k] = {}}

\* The items CaseState::get_rforest goes through, and whether it takes them for
\* complete.
Count(labels) ==
    IF Defaults(labels) = {} THEN Len(labels)
    ELSE CHOOSE k \in Defaults(labels) : \A j \in Defaults(labels) : k <= j

Full(labels) == Defaults(labels) # {} \/ Count(labels) >= Cardinality(Values)

\* It goes through one item at least.
LEMMA CountFacts ==
  ASSUME NEW labels \in Cases
  PROVE  /\ Sequence(labels) /\ Len(labels) # 0
         /\ Count(labels) \in 1 .. Len(labels)
         /\ Defaults(labels) # {} => Count(labels) \in Defaults(labels)
<1>1. labels \in Seq(SUBSET Values) /\ labels # <<>>
  BY CaseAssumption
<1>2. Sequence(labels) /\ Len(labels) \in Nat /\ DOMAIN labels = 1 .. Len(labels) /\ Len(labels) # 0
  BY <1>1 DEF Sequence
<1> DEFINE D == Defaults(labels)
<1>3. D \in SUBSET Nat /\ D \subseteq 1 .. Len(labels)
  BY <1>2 DEF Defaults
<1> HIDE DEF D
<1>4. CASE D = {}
  BY <1>2, <1>4 DEF Count, D
<1>5. CASE D # {}
  <2>1. \E k \in D : \A j \in D : k <= j
    BY <1>3, <1>5, LeastOf
  <2>2. Count(labels) = CHOOSE k \in D : \A j \in D : k <= j
    BY <1>5 DEF Count, D
  <2>3. Count(labels) \in D
    BY <2>1, <2>2
  <2> QED BY <1>2, <1>3, <2>3 DEF D
<1> QED BY <1>2, <1>4, <1>5

\* CaseState::get_rforest.
LEMMA CaseFacts ==
  ASSUME NEW G, Sequence(G), \A k \in DOMAIN G : Good(G[k]), NEW q \in Conds,
         NEW labels \in Cases, Len(labels) = Len(G)
  PROVE  Branches(CaseForest(G, labels, q), G, 1 .. Count(labels), Full(labels), q)
<1> DEFINE n == Count(labels)
           full == Full(labels)
           B == [k \in 1 .. n |-> BlockForest(<<G[k]>>)]
           type == IF DataSignals(Joined(B, full)) # {} THEN "EQU" ELSE "DAT"
<1>1. n \in 1 .. Len(G) /\ n \in Nat /\ (\A k \in 1 .. n : Good(G[k])) /\ full \in BOOLEAN
  BY CountFacts DEF Sequence, Full
<1>2. CaseForest(G, labels, q) = Guarded(Joined(B, full), q, type)
  BY DEF CaseForest, Full, Count, Defaults
<1>3. type \in {"LOG", "EQU", "DAT"}
  OBVIOUS
<1> HIDE DEF n, full, type
<1> DEFINE H == B
<1>4. H = [k \in 1 .. n |-> BlockForest(<<G[k]>>)]
  OBVIOUS
<1> HIDE DEF H
<1>5. Branches(Guarded(Joined(H, full), q, type), G, 1 .. n, full, q)
  BY <1>1, <1>3, <1>4, BranchesFacts
<1> QED BY <1>2, <1>5 DEF H, n, full

-----------------------------------------------------------------------------
\* What a step puts on the stack.
Assigned(e) ==
    \E l \in Lvals, rhs \in Rhs :
      e = [forest |-> AssignForest(l, rhs), runs |-> {[c \in Cells(AssignForest(l, rhs)) |-> rhs]},
           guards |-> {}, loose |-> {}]

\* Results taken from the stack.
Parts(P) == Sequence(P) /\ Len(P) # 0 /\ ToSet(P) \subseteq ToSet(stack)

\* Of a block.
Blocked(e, P) ==
    e = [forest |-> BlockForest(Forests(P)), runs |-> InSequence(P),
         guards |-> UNION {p.guards : p \in ToSet(P)},
         loose  |-> UNION {p.loose : p \in ToSet(P)}]

\* Of an if.
Decided(e, P) ==
    \E q \in Conds :
      e = Branch(IfForest(Forests(P), q), P, 1 .. Len(P), Len(P) = 1, FALSE, q)

\* Of a case.
Chosen(e, P) ==
    \E labels \in Cases, q \in Conds :
      /\ Len(labels) = Len(P)
      /\ e = Branch(CaseForest(Forests(P), labels, q), P, Taken(labels), NoneTaken(labels),
                    {} \notin ToSet(labels) /\ Len(labels) < Cardinality(Values), q)

\* Of any statement.
Made(e) ==
    \/ Assigned(e)
    \/ \E P : Parts(P) /\ \/ Blocked(e, P)
                          \/ Len(P) \in {1, 2} /\ Decided(e, P)
                          \/ Chosen(e, P)

\* The stack is a sequence.
Stacked == stack \in Seq(ToSet(stack))

\* The top of the stack consists of results on the stack.
LEMMA TopFacts ==
  ASSUME Stacked, NEW k \in 1 .. Len(stack)
  PROVE  Parts(Top(k)) /\ Len(Top(k)) = k
<1> DEFINE S == ToSet(stack)
           n == Len(stack)
           P == Top(k)
<1>1. stack \in Seq(S) /\ n \in Nat /\ S = {stack[j] : j \in 1 .. n}
  BY DEF Stacked, ToSet
<1>2. n - k + 1 \in 1 .. n /\ k \in Nat /\ k # 0
  BY <1>1
<1>3. P = SubSeq(stack, n - k + 1, n)
  BY DEF Top
<1> HIDE DEF S, P
<1>4. P \in Seq(S) /\ Len(P) = k
  <2> DEFINE m == n - k + 1
  <2>1. m \in 1 .. n /\ n \in 1 .. n /\ P = SubSeq(stack, m, n)
    BY <1>2, <1>3
  <2>2. n - m + 1 = k
    BY <1>1
  <2> HIDE DEF m
  <2>3. \A j \in 1 .. n : stack[j] \in S
    BY <1>1
  <2>4. Len(P) = k /\ P = [j \in 1 .. k |-> stack[j + m - 1]]
    BY <1>1, <1>2, <2>1, <2>2
  <2>5. ASSUME NEW j \in 1 .. k PROVE stack[j + m - 1] \in S
    <3>1. j + m - 1 \in 1 .. n
      BY <1>1, <1>2, <2>1, <2>2
    <3> QED BY <2>3, <3>1
  <2> QED BY <1>2, <2>4, <2>5
<1>5. Len(P) # 0 /\ Sequence(P)
  BY <1>2, <1>4 DEF Sequence
<1>6. ToSet(P) \subseteq S
  <2>1. \A j \in DOMAIN P : P[j] \in S
    BY <1>4
  <2> QED BY <2>1 DEF ToSet
<1> QED BY <1>4, <1>5, <1>6 DEF Parts, P, S

\* A statement replaces its parts on the stack.
LEMMA PutFacts ==
  ASSUME Stacked, NEW k \in 0 .. Len(stack), NEW e, Put(k, e)
  PROVE  Stacked' /\ \A x \in ToSet(stack') : x = e \/ x \in ToSet(stack)
<1> DEFINE S == ToSet(stack)
           n == Len(stack)
           low == SubSeq(stack, 1, n - k)
<1>1. stack \in Seq(S) /\ n \in Nat
  BY DEF Stacked
<1>2. n - k \in 0 .. n
  BY <1>1
<1> HIDE DEF S
<1>3. low \in Seq(S)
  BY <1>1, <1>2
<1>4. stack' = Append(low, e)
  BY DEF Put
<1> HIDE DEF low
<1>5. stack' \in Seq(S \cup {e})
  BY <1>3, <1>4
<1>6. ToSet(stack') = {stack'[j] : j \in DOMAIN stack'}
  BY DEF ToSet
<1>7. stack' \in Seq(ToSet(stack'))
  <2> DEFINE s == stack'
             T == ToSet(stack')
  <2>1. Len(s) \in Nat /\ DOMAIN s = 1 .. Len(s) /\ s = [j \in 1 .. Len(s) |-> s[j]]
    BY <1>5
  <2>2. \A j \in 1 .. Len(s) : s[j] \in T
    BY <1>6, <2>1
  <2> HIDE DEF s, T
  <2> QED BY <2>1, <2>2 DEF s, T
<1>8. \A x \in ToSet(stack') : x = e \/ x \in S
  BY <1>5, <1>6
<1> QED BY <1>7, <1>8 DEF Stacked, S

\* A step leaves results on the stack or makes one of results on it.
LEMMA StepFacts ==
  ASSUME Stacked, Next
  PROVE  Stacked' /\ \A x \in ToSet(stack') : Made(x) \/ x \in ToSet(stack)
<1>1. Len(stack) \in Nat
  BY DEF Stacked
<1>2. CASE Assign
  <2>1. PICK l \in Lvals, rhs \in Rhs : \E F \in {AssignForest(l, rhs)} :
          Put(0, [forest |-> F, runs |-> {[c \in Cells(F) |-> rhs]}, guards |-> {}, loose |-> {}])
    BY <1>2 DEF Assign
  <2> DEFINE e == [forest |-> AssignForest(l, rhs),
                   runs |-> {[c \in Cells(AssignForest(l, rhs)) |-> rhs]},
                   guards |-> {}, loose |-> {}]
  <2>2. Put(0, e) /\ Assigned(e)
    BY <2>1 DEF Assigned
  <2> HIDE DEF e
  <2> QED BY <1>1, <2>2, PutFacts DEF Made
<1>3. CASE Block
  <2>1. PICK k \in 2 .. Len(stack) : \E P \in {Top(k)} :
          Put(k, [forest |-> BlockForest(Forests(P)), runs |-> InSequence(P),
                  guards |-> UNION {p.guards : p \in ToSet(P)},
                  loose  |-> UNION {p.loose : p \in ToSet(P)}])
    BY <1>3 DEF Block
  <2> DEFINE P == Top(k)
             e == [forest |-> BlockForest(Forests(P)), runs |-> InSequence(P),
                  guards |-> UNION {p.guards : p \in ToSet(P)},
                  loose  |-> UNION {p.loose : p \in ToSet(P)}]
  <2>2. Put(k, e) /\ Blocked(e, P)
    BY <2>1 DEF Blocked
  <2>3. k \in 1 .. Len(stack) /\ k \in 0 .. Len(stack)
    BY <1>1
  <2>4. Parts(P)
    BY <2>3, TopFacts
  <2> HIDE DEF e, P
  <2> QED BY <2>2, <2>3, <2>4, PutFacts DEF Made
<1>4. CASE If
  <2>1. PICK k \in {1, 2}, q \in Conds : /\ k <= Len(stack)
          /\ \E P \in {Top(k)} :
               Put(k, Branch(IfForest(Forests(P), q), P, 1 .. k, k = 1, FALSE, q))
    BY <1>4 DEF If
  <2> DEFINE P == Top(k)
             e == Branch(IfForest(Forests(P), q), P, 1 .. k, k = 1, FALSE, q)
  <2>2. k \in 1 .. Len(stack) /\ k \in 0 .. Len(stack)
    BY <1>1, <2>1
  <2>3. Parts(P) /\ Len(P) = k
    BY <2>2, TopFacts
  <2>4. Put(k, e)
    BY <2>1
  <2> HIDE DEF P
  <2>5. Decided(e, P) /\ Len(P) \in {1, 2}
    BY <2>3 DEF Decided
  <2> HIDE DEF e
  <2> QED BY <2>2, <2>3, <2>4, <2>5, PutFacts DEF Made
<1>5. CASE Case
  <2>1. PICK labels \in Cases, q \in Conds : /\ Len(labels) <= Len(stack)
          /\ \E P \in {Top(Len(labels))} :
                Put(Len(labels),
                    Branch(CaseForest(Forests(P), labels, q), P, Taken(labels), NoneTaken(labels),
                           {} \notin ToSet(labels) /\ Len(labels) < Cardinality(Values), q))
    BY <1>5 DEF Case
  <2> DEFINE k == Len(labels)
             P == Top(k)
             e == Branch(CaseForest(Forests(P), labels, q), P, Taken(labels), NoneTaken(labels),
                         {} \notin ToSet(labels) /\ k < Cardinality(Values), q)
  <2>2. k \in Nat /\ k # 0
    BY CountFacts DEF Sequence
  <2>3. Put(k, e)
    BY <2>1
  <2>4. k \in 1 .. Len(stack) /\ k \in 0 .. Len(stack)
    BY <1>1, <2>1, <2>2
  <2>5. Parts(P) /\ Len(P) = k
    BY <2>4, TopFacts
  <2> HIDE DEF P
  <2>6. Chosen(e, P)
    BY <2>5 DEF Chosen
  <2> HIDE DEF e, k
  <2> QED BY <2>3, <2>4, <2>5, <2>6, PutFacts DEF Made
<1> QED BY <1>2, <1>3, <1>4, <1>5 DEF Next

\* Indices of the parts and of their forests.
LEMMA PartsFacts ==
  ASSUME NEW P, Parts(P)
  PROVE  /\ Sequence(Forests(P)) /\ Len(Forests(P)) = Len(P) /\ DOMAIN P = 1 .. Len(P)
         /\ Len(P) \in Nat \ {0}
         /\ ToSet(P) = {P[k] : k \in 1 .. Len(P)}
         /\ \A k \in 1 .. Len(P) : P[k] \in ToSet(stack) /\ Forests(P)[k] = P[k].forest
<1>1. Len(P) \in Nat /\ DOMAIN P = 1 .. Len(P) /\ Len(P) # 0 /\ ToSet(P) \subseteq ToSet(stack)
  BY DEF Parts, Sequence
<1>2. ToSet(P) = {P[k] : k \in 1 .. Len(P)}
  BY <1>1 DEF ToSet
<1>3. Forests(P) = [k \in 1 .. Len(P) |-> P[k].forest]
  BY <1>1 DEF Forests
<1>4. Sequence(Forests(P)) /\ Len(Forests(P)) = Len(P)
  BY <1>1, <1>3 DEF Sequence
<1> QED BY <1>1, <1>2, <1>3, <1>4

-----------------------------------------------------------------------------
\* What a Verilog case looks like: no value is in two labels, the default
\* comes last, and some value gets there.
NoLabelTwice ==
    \A labels \in Cases : \A j, k \in DOMAIN labels : j # k => labels[j] \cap labels[k] = {}

\* The default comes last.
DefaultLast ==
    \A labels \in Cases : \A k \in DOMAIN labels : labels[k] = {} => k = Len(labels)

\* Some value gets to the default.
DefaultReached ==
    \A labels \in Cases : {} \in ToSet(labels) => Values \ UNION ToSet(labels) # {}

\* The bits that are assigned have trees, with what is assigned and with the
\* conditions as leaves that no block drops.
Flows(e) ==
    /\ \A r \in e.runs : \A c \in DOMAIN r :
         /\ On(e.forest, c)
         /\ \A key \in DOMAIN r[c] : Has(e.forest, c, key) /\ key[2] # {"DDP"}
    /\ \A g \in e.guards : \E key : /\ Has(e.forest, g[2], key)
                                    /\ key[1] = g[1] /\ key[2] # {"DDP"}

\* A bit that some run leaves alone has a self loop.
Keeps(e) ==
    \A r \in e.runs : \A c : On(e.forest, c) /\ c \notin DOMAIN r => Has(e.forest, c, Loop(c))

\* There is no tree that no run assigns, and no self loop without reason.
Means(e) ==
    /\ e.runs # {}
    /\ \A c : On(e.forest, c) => \E r \in e.runs : c \in DOMAIN r
    /\ \A c : Has(e.forest, c, Loop(c)) => c \in e.loose

\* The key of a self loop has the default type.
LEMMA LoopKey == \A c : Loop(c)[2] = {"DDP"}
BY DEF Loop

\* Assign::get_rforest: an assignment has all three.
LEMMA AssignedFacts ==
  ASSUME NEW e, Assigned(e)
  PROVE  Good(e.forest) /\ Flows(e) /\ Keeps(e) /\ Means(e)
<1>1. PICK l \in Lvals, rhs \in Rhs :
        e = [forest |-> AssignForest(l, rhs), runs |-> {[c \in Cells(AssignForest(l, rhs)) |-> rhs]},
             guards |-> {}, loose |-> {}]
  BY DEF Assigned
<1> DEFINE F == AssignForest(l, rhs)
           r0 == [c \in Cells(F) |-> rhs]
<1>2. /\ Good(F)
      /\ \A c, key : Has(F, c, key) <=> On(F, c) /\ key \in DOMAIN rhs
  BY AssignFacts
<1> HIDE DEF F
<1>3. e.forest = F /\ e.runs = {r0} /\ e.guards = {} /\ e.loose = {}
  BY <1>1 DEF F
<1>4. \A c : c \in DOMAIN r0 <=> On(F, c)
  BY OnCells
<1>5. \A c \in DOMAIN r0 : r0[c] = rhs
  OBVIOUS
<1> HIDE DEF r0
<1>6. \A key \in DOMAIN rhs : key[2] # {"DDP"}
  BY RhsAssumption
<1>7. Flows(e)
  BY <1>2, <1>3, <1>4, <1>5, <1>6 DEF Flows
<1>8. Keeps(e)
  BY <1>3, <1>4 DEF Keeps
<1>9. Means(e)
  <2>1. \A c : ~Has(F, c, Loop(c))
    BY <1>2, <1>6, LoopKey
  <2> QED BY <1>3, <1>4, <2>1 DEF Means
<1> QED BY <1>2, <1>3, <1>7, <1>8, <1>9

\* What the parts of a statement assign, need and leave alone, together.
Joins(e, F, P, taken, none, incomplete, q) ==
    /\ e.forest = F
    /\ \A r : r \in e.runs <=> (\E k \in taken : r \in P[k].runs) \/ (none /\ r = Idle)
    /\ \A g : g \in e.guards <=>
         \/ \E k \in 1 .. Len(P) : g \in P[k].guards
         \/ g = <<q, g[2]>> /\ \E k \in 1 .. Len(P) : \E r \in P[k].runs : g[2] \in DOMAIN r
    /\ \A c : c \in e.loose <=>
         \/ \E k \in 1 .. Len(P) : c \in P[k].loose
         \/ /\ \E k \in 1 .. Len(P) : \E r \in P[k].runs : c \in DOMAIN r
            /\ incomplete \/ \E r \in e.runs : c \notin DOMAIN r

\* What the record of a branch statement says.
LEMMA BranchFields ==
  ASSUME NEW P, Parts(P), NEW F, NEW taken, NEW none \in BOOLEAN, NEW incomplete \in BOOLEAN, NEW q,
         NEW e, e = Branch(F, P, taken, none, incomplete, q)
  PROVE  Joins(e, F, P, taken, none, incomplete, q)
<1>1. ToSet(P) = {P[k] : k \in 1 .. Len(P)}
  BY PartsFacts
<1> DEFINE all == AllCells(P)
           guards == UNION {p.guards : p \in ToSet(P)}
           loose == UNION {p.loose : p \in ToSet(P)}
           runs == Runs(P, taken, none)
<1>2. \A c : c \in all <=> \E k \in 1 .. Len(P) : \E r \in P[k].runs : c \in DOMAIN r
  BY <1>1 DEF AllCells
<1>3. \A g : g \in guards <=> \E k \in 1 .. Len(P) : g \in P[k].guards
  BY <1>1
<1>4. \A c : c \in loose <=> \E k \in 1 .. Len(P) : c \in P[k].loose
  BY <1>1
<1>5. \A r : r \in runs <=> (\E k \in taken : r \in P[k].runs) \/ (none /\ r = Idle)
  <2>1. \A r : r \in (UNION {P[k].runs : k \in taken}) <=> \E k \in taken : r \in P[k].runs
    OBVIOUS
  <2>2. runs = (UNION {P[k].runs : k \in taken}) \cup (IF none THEN {Idle} ELSE {})
    BY DEF Runs
  <2> HIDE DEF runs
  <2> QED BY <2>1, <2>2
<1> HIDE DEF all, guards, loose, runs
<1>6. e = [forest |-> F, runs |-> runs, guards |-> guards \cup ({q} \X all),
           loose |-> loose \cup {c \in all : incomplete \/ \E r \in runs : c \notin DOMAIN r}]
  BY DEF Branch, all, guards, loose, runs
<1>7. \A g : g \in {q} \X all <=> g = <<q, g[2]>> /\ g[2] \in all
  OBVIOUS
<1>8. /\ e.forest = F /\ e.runs = runs
      /\ \A g : g \in e.guards <=> g \in guards \/ g \in {q} \X all
      /\ \A c : c \in e.loose <=>
           c \in loose \/ (c \in all /\ (incomplete \/ \E r \in runs : c \notin DOMAIN r))
  BY <1>6
<1> QED BY <1>2, <1>3, <1>4, <1>5, <1>7, <1>8 DEF Joins

\* An if or a case of which all parts are used.
Taking(e, P, full, taken, none, incomplete) ==
    \E F, q :
      /\ q \in Conds
      /\ Branches(F, Forests(P), 1 .. Len(P), full, q)
      /\ e = Branch(F, P, taken, none, incomplete, q)

\* An if or a case loses nothing that its branches depend on, and adds the
\* condition to all they assign.
LEMMA BranchFlows ==
  ASSUME NEW P, Parts(P), NEW full \in BOOLEAN, NEW taken \in SUBSET (1 .. Len(P)),
         NEW none \in BOOLEAN, NEW incomplete \in BOOLEAN,
         \A k \in 1 .. Len(P) : Flows(P[k]),
         NEW e, Taking(e, P, full, taken, none, incomplete)
  PROVE  Flows(e)
<1>1. PICK F, q : /\ q \in Conds
                  /\ Branches(F, Forests(P), 1 .. Len(P), full, q)
                  /\ e = Branch(F, P, taken, none, incomplete, q)
  BY DEF Taking
<1>2. Joins(e, F, P, taken, none, incomplete, q)
  BY <1>1, BranchFields
<1>3. /\ \A k \in 1 .. Len(P) : Forests(P)[k] = P[k].forest
      /\ \A c : On(F, c) <=> \E k \in 1 .. Len(P) : On(P[k].forest, c)
  BY <1>1, PartsFacts DEF Branches
<1>4. PICK type \in {"LOG", "EQU", "DAT"} : \A c, key :
         Has(F, c, key) <=> \/ \E k \in 1 .. Len(P) : Has(P[k].forest, c, key)
                            \/ On(F, c) /\ key = Test(q, type)
                            \/ /\ On(F, c) /\ key = Loop(c)
                               /\ full => \E k \in 1 .. Len(P) : ~On(P[k].forest, c)
  BY <1>3, <1>1 DEF Branches
<1>5. /\ e.forest = F
      /\ \A r : r \in e.runs <=> (\E k \in taken : r \in P[k].runs) \/ (none /\ r = Idle)
      /\ \A g : g \in e.guards <=>
              \/ \E k \in 1 .. Len(P) : g \in P[k].guards
              \/ g = <<q, g[2]>> /\ \E k \in 1 .. Len(P) : \E r \in P[k].runs : g[2] \in DOMAIN r
      /\ \A c : c \in e.loose <=>
              \/ \E k \in 1 .. Len(P) : c \in P[k].loose
              \/ /\ \E k \in 1 .. Len(P) : \E r \in P[k].runs : c \in DOMAIN r
                 /\ incomplete \/ \E r \in e.runs : c \notin DOMAIN r
  BY <1>2 DEF Joins
<1>6. ASSUME NEW k \in 1 .. Len(P), NEW r \in P[k].runs, NEW c \in DOMAIN r
      PROVE  On(F, c) /\ \A key \in DOMAIN r[c] : Has(F, c, key) /\ key[2] # {"DDP"}
  BY <1>3, <1>4 DEF Flows
<1>7. ASSUME NEW r \in e.runs, NEW c \in DOMAIN r
      PROVE  On(F, c) /\ \A key \in DOMAIN r[c] : Has(F, c, key) /\ key[2] # {"DDP"}
  <2>1. r # Idle
    BY DEF Idle
  <2> QED BY <1>5, <1>6, <2>1
<1>8. ASSUME NEW g \in e.guards
      PROVE  \E key : Has(F, g[2], key) /\ key[1] = g[1] /\ key[2] # {"DDP"}
  <2>1. CASE \E k \in 1 .. Len(P) : g \in P[k].guards
    BY <1>4, <2>1 DEF Flows
  <2>2. CASE g = <<q, g[2]>> /\ \E k \in 1 .. Len(P) : \E r \in P[k].runs : g[2] \in DOMAIN r
    <3>1. On(F, g[2]) /\ g[1] = q
      BY <1>6, <2>2
    <3>2. Has(F, g[2], Test(q, type))
      BY <1>4, <3>1
    <3> QED BY <1>1, <3>1, <3>2, TestFacts
  <2> QED BY <1>5, <2>1, <2>2
<1> QED BY <1>5, <1>7, <1>8 DEF Flows

\* It gives a self loop to what a branch leaves alone, and keeps those of the
\* branches.
LEMMA BranchKeeps ==
  ASSUME NEW P, Parts(P), NEW full \in BOOLEAN, NEW taken \in SUBSET (1 .. Len(P)),
         NEW none \in BOOLEAN, NEW incomplete \in BOOLEAN, full => ~none,
         \A k \in 1 .. Len(P) : Keeps(P[k]),
         NEW e, Taking(e, P, full, taken, none, incomplete)
  PROVE  Keeps(e)
<1>1. PICK F, q : /\ q \in Conds
                  /\ Branches(F, Forests(P), 1 .. Len(P), full, q)
                  /\ e = Branch(F, P, taken, none, incomplete, q)
  BY DEF Taking
<1>2. Joins(e, F, P, taken, none, incomplete, q)
  BY <1>1, BranchFields
<1>3. /\ \A k \in 1 .. Len(P) : Forests(P)[k] = P[k].forest
      /\ \A c : On(F, c) <=> \E k \in 1 .. Len(P) : On(P[k].forest, c)
  BY <1>1, PartsFacts DEF Branches
<1>4. \A c : /\ (\E k \in 1 .. Len(P) : Has(P[k].forest, c, Loop(c))) => Has(F, c, Loop(c))
             /\ On(F, c) /\ (full => \E k \in 1 .. Len(P) : ~On(P[k].forest, c)) => Has(F, c, Loop(c))
  BY <1>3, <1>1 DEF Branches
<1>5. /\ e.forest = F
      /\ \A r : r \in e.runs <=> (\E k \in taken : r \in P[k].runs) \/ (none /\ r = Idle)
      /\ \A g : g \in e.guards <=>
              \/ \E k \in 1 .. Len(P) : g \in P[k].guards
              \/ g = <<q, g[2]>> /\ \E k \in 1 .. Len(P) : \E r \in P[k].runs : g[2] \in DOMAIN r
      /\ \A c : c \in e.loose <=>
              \/ \E k \in 1 .. Len(P) : c \in P[k].loose
              \/ /\ \E k \in 1 .. Len(P) : \E r \in P[k].runs : c \in DOMAIN r
                 /\ incomplete \/ \E r \in e.runs : c \notin DOMAIN r
  BY <1>2 DEF Joins
<1> SUFFICES ASSUME NEW r \in e.runs, NEW c, On(F, c), c \notin DOMAIN r
             PROVE  Has(F, c, Loop(c))
  BY <1>5 DEF Keeps
<1>6. CASE none
  BY <1>4, <1>6
<1>7. CASE \E k \in taken : r \in P[k].runs
  <2>1. PICK k \in taken : r \in P[k].runs
    BY <1>7
  <2>2. CASE On(P[k].forest, c)
    BY <1>4, <2>1, <2>2 DEF Keeps
  <2>3. CASE ~On(P[k].forest, c)
    BY <1>4, <2>1, <2>3
  <2> QED BY <2>2, <2>3
<1> QED BY <1>5, <1>6, <1>7

\* It gives no self loop to what all branches assign, if all can be taken.
LEMMA BranchMeans ==
  ASSUME NEW P, Parts(P), NEW full \in BOOLEAN,
         NEW none \in BOOLEAN, NEW incomplete \in BOOLEAN, ~full => incomplete \/ none,
         \A k \in 1 .. Len(P) : Flows(P[k]) /\ Means(P[k]),
         NEW e, Taking(e, P, full, 1 .. Len(P), none, incomplete)
  PROVE  Means(e)
<1>1. PICK F, q : /\ q \in Conds
                  /\ Branches(F, Forests(P), 1 .. Len(P), full, q)
                  /\ e = Branch(F, P, 1 .. Len(P), none, incomplete, q)
  BY DEF Taking
<1>2. Joins(e, F, P, 1 .. Len(P), none, incomplete, q)
  BY <1>1, BranchFields
<1>3. /\ \A k \in 1 .. Len(P) : Forests(P)[k] = P[k].forest
      /\ \A c : On(F, c) <=> \E k \in 1 .. Len(P) : On(P[k].forest, c)
  BY <1>1, PartsFacts DEF Branches
<1>4. PICK type \in {"LOG", "EQU", "DAT"} : \A c, key :
         Has(F, c, key) <=> \/ \E k \in 1 .. Len(P) : Has(P[k].forest, c, key)
                            \/ On(F, c) /\ key = Test(q, type)
                            \/ /\ On(F, c) /\ key = Loop(c)
                               /\ full => \E k \in 1 .. Len(P) : ~On(P[k].forest, c)
  BY <1>3, <1>1 DEF Branches
<1>5. /\ e.forest = F
      /\ \A r : r \in e.runs <=> (\E k \in 1 .. Len(P) : r \in P[k].runs) \/ (none /\ r = Idle)
      /\ \A c : c \in e.loose <=>
              \/ \E k \in 1 .. Len(P) : c \in P[k].loose
              \/ /\ \E k \in 1 .. Len(P) : \E r \in P[k].runs : c \in DOMAIN r
                 /\ incomplete \/ \E r \in e.runs : c \notin DOMAIN r
  BY <1>2 DEF Joins
<1>6. e.runs # {}
  <2>1. 1 \in 1 .. Len(P)
    BY PartsFacts
  <2>2. P[1].runs # {}
    BY <2>1 DEF Means
  <2> QED BY <1>5, <2>1, <2>2
<1>7. ASSUME NEW c, On(F, c)
      PROVE  \E k \in 1 .. Len(P) : \E r \in P[k].runs : c \in DOMAIN r
  BY <1>3, <1>7 DEF Means
<1>8. ASSUME NEW c, Has(F, c, Loop(c))
      PROVE  c \in e.loose
  <2>1. Loop(c) # Test(q, type)
    BY <1>1, LoopKey, TestFacts
  <2>2. CASE \E k \in 1 .. Len(P) : Has(P[k].forest, c, Loop(c))
    BY <1>5, <2>2 DEF Means
  <2>3. CASE On(F, c) /\ (full => \E k \in 1 .. Len(P) : ~On(P[k].forest, c))
    <3>1. CASE incomplete
      BY <1>5, <1>7, <2>3, <3>1
    <3>2. CASE none
      <4>1. Idle \in e.runs /\ c \notin DOMAIN Idle
        BY <1>5, <3>2 DEF Idle
      <4> QED BY <1>5, <1>7, <2>3, <4>1
    <3>3. CASE full
      <4>1. PICK k \in 1 .. Len(P) : ~On(P[k].forest, c)
        BY <2>3, <3>3
      <4>2. PICK r : r \in P[k].runs
        BY DEF Means
      <4>3. c \notin DOMAIN r
        BY <4>1, <4>2 DEF Flows
      <4>4. r \in e.runs
        BY <1>5, <4>2
      <4> QED BY <1>5, <1>7, <2>3, <4>3, <4>4
    <3> QED BY <3>1, <3>2, <3>3
  <2> QED BY <1>4, <1>8, <2>1, <2>2, <2>3
<1> QED BY <1>5, <1>6, <1>7, <1>8 DEF Means

-----------------------------------------------------------------------------
\* A set of numbers up to n has a greatest one.
LEMMA GreatestOf ==
  ASSUME NEW n \in Nat, NEW I \in SUBSET (1 .. n), I # {}
  PROVE  \E k \in I : \A j \in I : j <= k
<1> DEFINE J == {n - k : k \in I}
<1>1. J \in SUBSET Nat /\ J # {}
  <2>1. \A k \in I : n - k \in Nat
    OBVIOUS
  <2> QED BY <2>1
<1>2. PICK m \in J : \A j \in J : m <= j
  <2> HIDE DEF J
  <2> QED BY <1>1, LeastOf
<1>3. PICK k \in I : m = n - k
  BY <1>2
<1>4. ASSUME NEW j \in I PROVE j <= k
  <2>1. n - k <= n - j
    BY <1>2, <1>3
  <2> QED BY <2>1
<1> QED BY <1>4

\* One run of each part.
LEMMA JointFacts ==
  ASSUME NEW n \in Nat, NEW f, DOMAIN f = 1 .. n
  PROVE  /\ \A c : c \in DOMAIN Joint(f) <=> \E k \in 1 .. n : c \in DOMAIN f[k]
         /\ \A c \in DOMAIN Joint(f) :
              \E k \in 1 .. n : c \in DOMAIN f[k] /\ Joint(f)[c] = f[k][c]
<1> DEFINE W(c) == {k \in DOMAIN f : c \in DOMAIN f[k]}
           last(c) == CHOOSE k \in W(c) : \A j \in W(c) : j <= k
           cells == UNION {DOMAIN f[k] : k \in DOMAIN f}
<1>1. Joint(f) = [c \in cells |-> f[last(c)][c]]
  BY DEF Joint
<1>2. \A c : c \in cells <=> \E k \in 1 .. n : c \in DOMAIN f[k]
  OBVIOUS
<1>3. ASSUME NEW c \in cells PROVE last(c) \in 1 .. n /\ c \in DOMAIN f[last(c)]
  <2> DEFINE I == W(c)
  <2>1. I \in SUBSET (1 .. n) /\ I # {}
    BY <1>2
  <2>2. last(c) = CHOOSE k \in I : \A j \in I : j <= k
    OBVIOUS
  <2> HIDE DEF I, last
  <2>3. \E k \in I : \A j \in I : j <= k
    BY <2>1, GreatestOf
  <2>4. last(c) \in I
    BY <2>2, <2>3
  <2> QED BY <2>1, <2>4 DEF I
<1> HIDE DEF last, cells
<1> QED BY <1>1, <1>2, <1>3

\* A run of a block is one run of each part.
LEMMA SequenceRuns ==
  ASSUME NEW P, Parts(P)
  PROVE  \A r : r \in InSequence(P) <=>
           \E f : /\ f = [k \in 1 .. Len(P) |-> f[k]]
                  /\ \A k \in 1 .. Len(P) : f[k] \in P[k].runs
                  /\ r = Joint(f)
<1>1. DOMAIN P = 1 .. Len(P) /\ ToSet(P) = {P[k] : k \in 1 .. Len(P)}
  BY PartsFacts
<1> DEFINE T == UNION {p.runs : p \in ToSet(P)}
<1>2. \A k \in 1 .. Len(P) : P[k].runs \subseteq T
  BY <1>1
<1>3. InSequence(P) = {Joint(f) : f \in {g \in [1 .. Len(P) -> T] : \A k \in 1 .. Len(P) : g[k] \in P[k].runs}}
  BY <1>1 DEF InSequence
<1> HIDE DEF T
<1>4. ASSUME NEW f, f = [k \in 1 .. Len(P) |-> f[k]], \A k \in 1 .. Len(P) : f[k] \in P[k].runs
      PROVE  f \in [1 .. Len(P) -> T]
  BY <1>2, <1>4
<1> QED BY <1>3, <1>4

\* What the forest and the runs of a block are made of.
LEMMA BlockedFacts ==
  ASSUME NEW P, Parts(P), \A k \in 1 .. Len(P) : Good(P[k].forest), NEW e, Blocked(e, P)
  PROVE  /\ Good(e.forest)
         /\ \A c : On(e.forest, c) <=> \E k \in 1 .. Len(P) : On(P[k].forest, c)
         /\ \A c, key : Has(e.forest, c, key) => \E k \in 1 .. Len(P) : Has(P[k].forest, c, key)
         /\ \A c, key : (\E k \in 1 .. Len(P) : Has(P[k].forest, c, key)) /\ key[2] # {"DDP"}
                          => Has(e.forest, c, key)
         /\ \A c, key : /\ \E k \in 1 .. Len(P) : On(P[k].forest, c)
                        /\ \A k \in 1 .. Len(P) : On(P[k].forest, c) => Has(P[k].forest, c, key)
                       => Has(e.forest, c, key)
         /\ e.runs = InSequence(P)
         /\ \A g : g \in e.guards <=> \E k \in 1 .. Len(P) : g \in P[k].guards
         /\ \A c : c \in e.loose <=> \E k \in 1 .. Len(P) : c \in P[k].loose
<1> DEFINE G == Forests(P)
<1>1. /\ Sequence(G) /\ DOMAIN G = 1 .. Len(P)
      /\ \A k \in 1 .. Len(P) : G[k] = P[k].forest
      /\ ToSet(P) = {P[k] : k \in 1 .. Len(P)}
  BY PartsFacts DEF Sequence
<1> HIDE DEF G
<1>2. /\ e.forest = BlockForest(G) /\ e.runs = InSequence(P)
      /\ e.guards = UNION {p.guards : p \in ToSet(P)}
      /\ e.loose = UNION {p.loose : p \in ToSet(P)}
  BY DEF Blocked, G
<1>3. \A k \in DOMAIN G : Good(G[k])
  BY <1>1
<1>4. /\ Good(BlockForest(G))
      /\ \A c : On(BlockForest(G), c) <=> AnyOn(G, c)
      /\ \A c, key : Has(BlockForest(G), c, key) => AnyHas(G, c, key)
      /\ \A c, key : (AnyHas(G, c, key) /\ key[2] # {"DDP"}) \/ AllHave(G, c, key)
                          => Has(BlockForest(G), c, key)
  BY <1>1, <1>3, BlockFacts
<1>5. \A c : AnyOn(G, c) <=> \E k \in 1 .. Len(P) : On(P[k].forest, c)
  BY <1>1 DEF AnyOn
<1>6. \A c, key : AnyHas(G, c, key) <=> \E k \in 1 .. Len(P) : Has(P[k].forest, c, key)
  BY <1>1 DEF AnyHas
<1>7. \A c, key : AllHave(G, c, key) <=>
        /\ \E k \in 1 .. Len(P) : On(P[k].forest, c)
        /\ \A k \in 1 .. Len(P) : On(P[k].forest, c) => Has(P[k].forest, c, key)
  BY <1>1, <1>5 DEF AllHave
<1>8. \A g : g \in e.guards <=> \E k \in 1 .. Len(P) : g \in P[k].guards
  BY <1>1, <1>2
<1>9. \A c : c \in e.loose <=> \E k \in 1 .. Len(P) : c \in P[k].loose
  BY <1>1, <1>2
<1>10. Good(e.forest) /\ \A c : On(e.forest, c) <=> \E k \in 1 .. Len(P) : On(P[k].forest, c)
  BY <1>2, <1>4, <1>5
<1>11. \A c, key : Has(e.forest, c, key) => \E k \in 1 .. Len(P) : Has(P[k].forest, c, key)
  BY <1>2, <1>4, <1>6
<1>12. \A c, key : (\E k \in 1 .. Len(P) : Has(P[k].forest, c, key)) /\ key[2] # {"DDP"}
                     => Has(e.forest, c, key)
  BY <1>2, <1>4, <1>6
<1>13. \A c, key : AllHave(G, c, key) => Has(e.forest, c, key)
  BY <1>2, <1>4
<1>14. \A c, key : /\ \E k \in 1 .. Len(P) : On(P[k].forest, c)
                   /\ \A k \in 1 .. Len(P) : On(P[k].forest, c) => Has(P[k].forest, c, key)
                  => Has(e.forest, c, key)
  BY <1>7, <1>13
<1> QED BY <1>2, <1>8, <1>9, <1>10, <1>11, <1>12, <1>14

\* A block loses nothing that a part depends on, not even if a later part
\* assigns the bit again.
LEMMA BlockFlows ==
  ASSUME NEW P, Parts(P), NEW e, Blocked(e, P),
         \A k \in 1 .. Len(P) : Good(P[k].forest) /\ Flows(P[k])
  PROVE  Flows(e)
<1>1. ASSUME NEW k \in 1 .. Len(P), NEW r \in P[k].runs, NEW c \in DOMAIN r
      PROVE  On(e.forest, c) /\ \A key \in DOMAIN r[c] : Has(e.forest, c, key) /\ key[2] # {"DDP"}
  <2>1. On(P[k].forest, c) /\ \A key \in DOMAIN r[c] : Has(P[k].forest, c, key) /\ key[2] # {"DDP"}
    BY DEF Flows
  <2>2. /\ \A d : On(e.forest, d) <=> \E j \in 1 .. Len(P) : On(P[j].forest, d)
        /\ \A d, key : (\E j \in 1 .. Len(P) : Has(P[j].forest, d, key)) /\ key[2] # {"DDP"}
                          => Has(e.forest, d, key)
    BY BlockedFacts
  <2> QED BY <2>1, <2>2
<1>2. ASSUME NEW r \in e.runs, NEW c \in DOMAIN r
      PROVE  On(e.forest, c) /\ \A key \in DOMAIN r[c] : Has(e.forest, c, key) /\ key[2] # {"DDP"}
  <2>1. r \in InSequence(P)
    BY DEF Blocked
  <2>2. PICK f : /\ f = [k \in 1 .. Len(P) |-> f[k]]
                 /\ \A k \in 1 .. Len(P) : f[k] \in P[k].runs
                 /\ r = Joint(f)
    BY <2>1, SequenceRuns
  <2>3. DOMAIN f = 1 .. Len(P) /\ Len(P) \in Nat
    BY <2>2, PartsFacts
  <2>4. \A d \in DOMAIN Joint(f) :
          \E k \in 1 .. Len(P) : d \in DOMAIN f[k] /\ Joint(f)[d] = f[k][d]
    BY <2>3, JointFacts
  <2>5. r = Joint(f) /\ c \in DOMAIN Joint(f)
    BY <2>2
  <2>6. PICK k \in 1 .. Len(P) : c \in DOMAIN f[k] /\ r[c] = f[k][c]
    BY <2>4, <2>5
  <2>7. f[k] \in P[k].runs
    BY <2>2
  <2> QED BY <1>1, <2>6, <2>7
<1>3. ASSUME NEW g \in e.guards
      PROVE  \E key : Has(e.forest, g[2], key) /\ key[1] = g[1] /\ key[2] # {"DDP"}
  <2>1. /\ \A h : h \in e.guards <=> \E k \in 1 .. Len(P) : h \in P[k].guards
        /\ \A c, key : (\E k \in 1 .. Len(P) : Has(P[k].forest, c, key)) /\ key[2] # {"DDP"}
                          => Has(e.forest, c, key)
    BY BlockedFacts
  <2>2. PICK k \in 1 .. Len(P) : g \in P[k].guards
    BY <2>1
  <2>3. PICK key : Has(P[k].forest, g[2], key) /\ key[1] = g[1] /\ key[2] # {"DDP"}
    BY <2>2 DEF Flows
  <2> QED BY <2>1, <2>3
<1> QED BY <1>2, <1>3 DEF Flows

\* A bit that no part of a block assigns in some run has a self loop in each
\* part that has it, so in the block.
LEMMA BlockKeeps ==
  ASSUME NEW P, Parts(P), NEW e, Blocked(e, P),
         \A k \in 1 .. Len(P) : Good(P[k].forest) /\ Keeps(P[k])
  PROVE  Keeps(e)
<1> SUFFICES ASSUME NEW r \in e.runs, NEW c, On(e.forest, c), c \notin DOMAIN r
             PROVE  Has(e.forest, c, Loop(c))
  BY DEF Keeps
<1>1. r \in InSequence(P)
  BY DEF Blocked
<1>2. PICK f : /\ f = [k \in 1 .. Len(P) |-> f[k]]
               /\ \A k \in 1 .. Len(P) : f[k] \in P[k].runs
               /\ r = Joint(f)
  BY <1>1, SequenceRuns
<1>3. DOMAIN f = 1 .. Len(P) /\ Len(P) \in Nat
  BY <1>2, PartsFacts
<1>4. \A k \in 1 .. Len(P) : c \notin DOMAIN f[k]
  BY <1>2, <1>3, JointFacts
<1>5. \A k \in 1 .. Len(P) : On(P[k].forest, c) => Has(P[k].forest, c, Loop(c))
  BY <1>2, <1>4 DEF Keeps
<1>6. \E k \in 1 .. Len(P) : On(P[k].forest, c)
  BY BlockedFacts
<1> QED BY <1>5, <1>6, BlockedFacts

\* A block has no self loop that no part has, and a run for each of its trees.
LEMMA BlockMeans ==
  ASSUME NEW P, Parts(P), NEW e, Blocked(e, P),
         \A k \in 1 .. Len(P) : Good(P[k].forest) /\ Means(P[k])
  PROVE  Means(e)
<1>1. Len(P) \in Nat /\ e.runs = InSequence(P)
  BY PartsFacts DEF Blocked
<1>2. ASSUME NEW k \in 1 .. Len(P), NEW r \in P[k].runs
      PROVE  \E s \in e.runs : \A c \in DOMAIN r : c \in DOMAIN s
  <2> DEFINE f == [j \in 1 .. Len(P) |-> IF j = k THEN r ELSE CHOOSE x : x \in P[j].runs]
  <2>1. ASSUME NEW j \in 1 .. Len(P) PROVE f[j] \in P[j].runs
    <3>1. \E x : x \in P[j].runs
      BY DEF Means
    <3> QED BY <3>1
  <2>2. f = [j \in 1 .. Len(P) |-> f[j]] /\ f[k] = r /\ DOMAIN f = 1 .. Len(P)
    OBVIOUS
  <2> HIDE DEF f
  <2>3. Joint(f) \in e.runs
    BY <1>1, <2>1, <2>2, SequenceRuns
  <2>4. \A c \in DOMAIN r : c \in DOMAIN Joint(f)
    BY <1>1, <2>2, JointFacts
  <2> QED BY <2>3, <2>4
<1>3. e.runs # {}
  <2>1. 1 \in 1 .. Len(P)
    BY PartsFacts
  <2>2. \E r : r \in P[1].runs
    BY <2>1 DEF Means
  <2> QED BY <1>2, <2>1, <2>2
<1>4. ASSUME NEW c, On(e.forest, c)
      PROVE  \E s \in e.runs : c \in DOMAIN s
  <2>1. PICK k \in 1 .. Len(P) : On(P[k].forest, c)
    BY <1>4, BlockedFacts
  <2>2. PICK r \in P[k].runs : c \in DOMAIN r
    BY <2>1 DEF Means
  <2> QED BY <1>2, <2>2
<1>5. ASSUME NEW c, Has(e.forest, c, Loop(c))
      PROVE  c \in e.loose
  <2>1. PICK k \in 1 .. Len(P) : Has(P[k].forest, c, Loop(c))
    BY <1>5, BlockedFacts
  <2>2. c \in P[k].loose
    BY <2>1 DEF Means
  <2> QED BY <2>2, BlockedFacts
<1> QED BY <1>3, <1>4, <1>5 DEF Means

-----------------------------------------------------------------------------
\* The case labels.
LEMMA AllUsed ==
  ASSUME DefaultLast, NEW labels \in Cases
  PROVE  Count(labels) = Len(labels)
BY CountFacts DEF DefaultLast, Defaults, Count

\* The items of a case and its defaults.
LEMMA DefaultsFacts ==
  ASSUME NEW labels \in Cases
  PROVE  /\ labels \in Seq(SUBSET Values) /\ Len(labels) \in Nat \ {0}
         /\ DOMAIN labels = 1 .. Len(labels)
         /\ ToSet(labels) = {labels[k] : k \in 1 .. Len(labels)}
         /\ Defaults(labels) # {} <=> {} \in ToSet(labels)
<1>1. labels \in Seq(SUBSET Values) /\ labels # <<>>
  BY CaseAssumption
<1>2. Len(labels) \in Nat \ {0} /\ DOMAIN labels = 1 .. Len(labels)
  BY <1>1
<1>3. ToSet(labels) = {labels[k] : k \in 1 .. Len(labels)}
  BY <1>2 DEF ToSet
<1>4. Defaults(labels) # {} <=> {} \in ToSet(labels)
  BY <1>2, <1>3 DEF Defaults
<1> QED BY <1>1, <1>2, <1>3, <1>4

\* As many labels as values, none twice, leave no value.
LEMMA FullTakes ==
  ASSUME NoLabelTwice, DefaultLast, NEW labels \in Cases, Full(labels)
  PROVE  ~NoneTaken(labels)
<1> DEFINE n == Len(labels)
<1>1. /\ labels \in Seq(SUBSET Values) /\ n \in Nat \ {0} /\ DOMAIN labels = 1 .. n
      /\ ToSet(labels) = {labels[k] : k \in 1 .. n}
      /\ Defaults(labels) # {} <=> {} \in ToSet(labels)
  BY DefaultsFacts
<1> HIDE DEF n
<1>2. SUFFICES ASSUME {} \notin ToSet(labels), NEW v \in Values, v \notin UNION ToSet(labels)
               PROVE  FALSE
  BY DEF NoneTaken
<1> DEFINE V == Values \ {v}
           f == [k \in 1 .. n |-> CHOOSE w : w \in labels[k]]
<1>3. n >= Cardinality(Values)
  BY <1>1, <1>2, AllUsed DEF Full, n
<1>4. IsFiniteSet(V) /\ Cardinality(V) = Cardinality(Values) - 1 /\ Cardinality(Values) \in Nat
  BY CaseAssumption, FS_RemoveElement, FS_CardinalityType
<1>5. ASSUME NEW k \in 1 .. n PROVE f[k] \in labels[k] /\ f[k] \in V
  <2>1. labels[k] \in ToSet(labels) /\ labels[k] \subseteq Values
    BY <1>1
  <2>2. \E w : w \in labels[k]
    BY <1>2, <2>1
  <2>3. f[k] \in labels[k]
    BY <2>2
  <2> HIDE DEF f
  <2> QED BY <1>2, <2>1, <2>3
<1>6. f \in [1 .. n -> V]
  BY <1>5
<1> HIDE DEF V, f
<1>7. IsFiniteSet(1 .. n) /\ Cardinality(1 .. n) = n
  BY <1>1, FS_Interval
<1>8. Cardinality(V) < Cardinality(1 .. n)
  BY <1>1, <1>3, <1>4, <1>7
<1>9. PICK j, k \in 1 .. n : j # k /\ f[j] = f[k]
  BY <1>4, <1>6, <1>7, <1>8, FS_PigeonHole
<1>10. labels[j] \cap labels[k] = {}
  BY <1>1, <1>9 DEF NoLabelTwice
<1> QED BY <1>5, <1>9, <1>10

\* With the three conditions, every item of a case is taken for some value.
LEMMA AllTaken ==
  ASSUME NoLabelTwice, DefaultLast, DefaultReached, NEW labels \in Cases
  PROVE  Taken(labels) = 1 .. Len(labels)
<1> DEFINE n == Len(labels)
<1>1. /\ labels \in Seq(SUBSET Values) /\ n \in Nat \ {0} /\ DOMAIN labels = 1 .. n
      /\ ToSet(labels) = {labels[k] : k \in 1 .. n}
  BY DefaultsFacts
<1> HIDE DEF n
<1>2. ASSUME NEW k \in 1 .. n PROVE k \in Taken(labels)
  <2>1. CASE labels[k] = {}
    <3>1. {} \in ToSet(labels)
      BY <1>1, <2>1
    <3>2. PICK v \in Values : v \notin UNION ToSet(labels)
      BY <3>1 DEF DefaultReached
    <3>3. \A j \in DOMAIN labels : v \notin labels[j]
      BY <1>1, <3>2
    <3> QED BY <1>1, <2>1, <3>3 DEF Taken
  <2>2. CASE labels[k] # {}
    <3>1. PICK v \in Values : v \in labels[k]
      BY <1>1, <2>2
    <3>2. ASSUME NEW j \in 1 .. k - 1 PROVE v \notin labels[j]
      <4>1. j \in 1 .. n /\ j # k
        BY <1>1
      <4> QED BY <1>1, <3>1, <4>1 DEF NoLabelTwice
    <3> QED BY <1>1, <3>1, <3>2 DEF Taken
  <2> QED BY <2>1, <2>2
<1>3. Taken(labels) \subseteq 1 .. n
  BY <1>1 DEF Taken
<1> QED BY <1>2, <1>3 DEF n

-----------------------------------------------------------------------------
\* The inductive invariant of Disjoint: every result is a good forest.
AllGood == Stacked /\ \A e \in ToSet(stack) : Good(e.forest)

\* A result made of good forests is one.
LEMMA GoodMade ==
  ASSUME AllGood, NEW e, Made(e)
  PROVE  Good(e.forest)
<1>1. CASE Assigned(e)
  BY <1>1, AssignedFacts
<1>2. ASSUME NEW P, Parts(P)
      PROVE  /\ \A k \in 1 .. Len(P) : Good(P[k].forest)
             /\ Sequence(Forests(P)) /\ DOMAIN Forests(P) = 1 .. Len(P)
             /\ \A k \in DOMAIN Forests(P) : Good(Forests(P)[k])
  BY <1>2, PartsFacts DEF AllGood, Sequence
<1>3. ASSUME NEW P, Parts(P), Blocked(e, P) PROVE Good(e.forest)
  BY <1>2, <1>3, BlockedFacts
<1>4. ASSUME NEW P, Parts(P), Decided(e, P) PROVE Good(e.forest)
  <2>1. PICK q \in Conds :
          e = Branch(IfForest(Forests(P), q), P, 1 .. Len(P), Len(P) = 1, FALSE, q)
    BY <1>4 DEF Decided
  <2>2. e.forest = IfForest(Forests(P), q)
    BY <2>1 DEF Branch
  <2> QED BY <1>2, <1>4, <2>2, IfFacts DEF Branches
<1>5. ASSUME NEW P, Parts(P), Chosen(e, P) PROVE Good(e.forest)
  <2>1. PICK labels \in Cases, q \in Conds :
          /\ Len(labels) = Len(P)
          /\ e = Branch(CaseForest(Forests(P), labels, q), P, Taken(labels), NoneTaken(labels),
                        {} \notin ToSet(labels) /\ Len(labels) < Cardinality(Values), q)
    BY <1>5 DEF Chosen
  <2>2. e.forest = CaseForest(Forests(P), labels, q)
    BY <2>1 DEF Branch
  <2>3. Len(labels) = Len(Forests(P))
    BY <1>5, <2>1, PartsFacts
  <2> QED BY <1>2, <1>5, <2>2, <2>3, CaseFacts DEF Branches
<1> QED BY <1>1, <1>3, <1>4, <1>5 DEF Made

\* Every result of get_rforest is a forest whose trees are apart and fit their
\* signals.
THEOREM AllGoodHolds == Spec => []AllGood
<1>1. Init => AllGood
  <2> SUFFICES ASSUME Init PROVE AllGood
    OBVIOUS
  <2>1. stack = <<>> /\ ToSet(<<>>) = {}
    BY DEF Init, ToSet
  <2> QED BY <2>1 DEF AllGood, Stacked
<1>2. AllGood /\ [Next]_vars => AllGood'
  <2> SUFFICES ASSUME AllGood, [Next]_vars PROVE AllGood'
    OBVIOUS
  <2>1. CASE Next
    <3>1. Stacked' /\ \A x \in ToSet(stack') : Made(x) \/ x \in ToSet(stack)
      BY <2>1, StepFacts DEF AllGood
    <3> QED BY <3>1, GoodMade DEF AllGood
  <2>2. CASE UNCHANGED vars
    <3>1. stack' = stack
      BY <2>2 DEF vars
    <3> QED BY <3>1 DEF AllGood, Stacked
  <2> QED BY <2>1, <2>2
<1> QED BY <1>1, <1>2, PTL DEF Spec

\* The bits of a signal are in one tree each, however trees are split.
THEOREM DisjointHolds == Spec => []Disjoint
<1>1. AllGood => Disjoint
  BY DEF AllGood, Good, Apart, Disjoint
<1> QED BY <1>1, AllGoodHolds, PTL

-----------------------------------------------------------------------------
\* The branches that are taken are parts of the case.
LEMMA TakenParts ==
  ASSUME NEW labels \in Cases
  PROVE  Taken(labels) \subseteq 1 .. Len(labels) /\ NoneTaken(labels) \in BOOLEAN
BY DefaultsFacts DEF Taken, NoneTaken

\* How the parts of an if and of a case are taken.
LEMMA DecidedBranches ==
  ASSUME AllGood, NEW e, NEW P, Parts(P), Len(P) \in {1, 2}, Decided(e, P)
  PROVE  \E full, none \in BOOLEAN :
           /\ Taking(e, P, full, 1 .. Len(P), none, FALSE)
           /\ full <=> ~none
<1>1. PICK q \in Conds :
        e = Branch(IfForest(Forests(P), q), P, 1 .. Len(P), Len(P) = 1, FALSE, q)
  BY DEF Decided
<1> DEFINE G == Forests(P)
           full == Len(P) = 2
           none == Len(P) = 1
<1>2. Sequence(G) /\ Len(G) = Len(P) /\ DOMAIN G = 1 .. Len(P) /\ \A k \in DOMAIN G : Good(G[k])
  BY PartsFacts DEF AllGood, Sequence
<1> HIDE DEF G
<1>3. Branches(IfForest(G, q), G, DOMAIN G, Len(G) = 2, q)
  BY <1>2, IfFacts
<1>4. full \in BOOLEAN /\ none \in BOOLEAN /\ (full <=> ~none)
  OBVIOUS
<1>5. /\ Branches(IfForest(G, q), G, 1 .. Len(P), full, q)
      /\ e = Branch(IfForest(G, q), P, 1 .. Len(P), none, FALSE, q)
  BY <1>1, <1>2, <1>3 DEF G
<1> HIDE DEF full, none
<1>6. Taking(e, P, full, 1 .. Len(P), none, FALSE)
  BY <1>5 DEF Taking, G
<1> QED BY <1>4, <1>6

\* What CaseState::get_rforest takes for complete is complete, and what it
\* does not is not: how the code counts items agrees with the values.
LEMMA ChosenBranches ==
  ASSUME AllGood, DefaultLast, NEW e, NEW P, Parts(P), Chosen(e, P)
  PROVE  \E full, none, incomplete \in BOOLEAN, taken \in SUBSET (1 .. Len(P)) :
           /\ Taking(e, P, full, taken, none, incomplete)
           /\ NoLabelTwice /\ full => ~none
           /\ ~full => incomplete
           /\ NoLabelTwice /\ DefaultReached => taken = 1 .. Len(P)
<1>1. PICK labels \in Cases, q \in Conds :
        /\ Len(labels) = Len(P)
        /\ e = Branch(CaseForest(Forests(P), labels, q), P, Taken(labels), NoneTaken(labels),
                      {} \notin ToSet(labels) /\ Len(labels) < Cardinality(Values), q)
  BY DEF Chosen
<1> DEFINE G == Forests(P)
           full == Full(labels)
           taken == Taken(labels)
           none == NoneTaken(labels)
           incomplete == {} \notin ToSet(labels) /\ Len(labels) < Cardinality(Values)
<1>2. Sequence(G) /\ Len(G) = Len(P) /\ \A k \in DOMAIN G : Good(G[k])
  BY PartsFacts DEF AllGood, Sequence
<1> HIDE DEF G
<1>3. Branches(CaseForest(G, labels, q), G, 1 .. Count(labels), full, q)
  BY <1>1, <1>2, CaseFacts
<1>4. Count(labels) = Len(labels)
  BY AllUsed
<1>5. full \in BOOLEAN /\ none \in BOOLEAN /\ incomplete \in BOOLEAN
  BY DEF Full, NoneTaken
<1>6. taken \in SUBSET (1 .. Len(P))
  BY <1>1, TakenParts
<1>7. NoLabelTwice /\ full => ~none
  BY FullTakes
<1>8. NoLabelTwice /\ DefaultReached => taken = 1 .. Len(P)
  BY <1>1, AllTaken
<1>9. ~full => incomplete
  <2>1. Cardinality(Values) \in Nat
    BY CaseAssumption, FS_CardinalityType
  <2>2. Len(labels) \in Nat /\ (Defaults(labels) # {} <=> {} \in ToSet(labels))
    BY DefaultsFacts
  <2>3. full <=> {} \in ToSet(labels) \/ Len(labels) >= Cardinality(Values)
    BY <1>4, <2>2 DEF Full
  <2> HIDE DEF full
  <2> QED BY <2>1, <2>2, <2>3
<1>10. /\ Branches(CaseForest(G, labels, q), G, 1 .. Len(P), full, q)
       /\ e = Branch(CaseForest(G, labels, q), P, taken, none, incomplete, q)
  BY <1>1, <1>3, <1>4 DEF G
<1> HIDE DEF full, taken, none, incomplete
<1>11. Taking(e, P, full, taken, none, incomplete)
  BY <1>10 DEF Taking, G
<1> QED BY <1>5, <1>6, <1>7, <1>8, <1>9, <1>11

\* The inductive invariant of FlowFound.
AllFlow == AllGood /\ \A e \in ToSet(stack) : Flows(e)

\* A result made of results that have it has it.
LEMMA FlowMade ==
  ASSUME DefaultLast, AllFlow, NEW e, Made(e)
  PROVE  Flows(e)
<1>1. CASE Assigned(e)
  BY <1>1, AssignedFacts
<1>2. ASSUME NEW P, Parts(P)
      PROVE  \A k \in 1 .. Len(P) : Good(P[k].forest) /\ Flows(P[k])
  BY <1>2, PartsFacts DEF AllFlow, AllGood
<1>3. ASSUME NEW P, Parts(P), Blocked(e, P) PROVE Flows(e)
  BY <1>2, <1>3, BlockFlows
<1>4. ASSUME NEW P, Parts(P), Len(P) \in {1, 2}, Decided(e, P) PROVE Flows(e)
  <2>1. AllGood
    BY DEF AllFlow
  <2>2. PICK full, none \in BOOLEAN :
           /\ Taking(e, P, full, 1 .. Len(P), none, FALSE)
           /\ full <=> ~none
    BY <1>4, <2>1, DecidedBranches
  <2> QED BY <1>2, <1>4, <2>2, BranchFlows
<1>5. ASSUME NEW P, Parts(P), Chosen(e, P) PROVE Flows(e)
  <2>1. AllGood
    BY DEF AllFlow
  <2>2. PICK full, none, incomplete \in BOOLEAN, taken \in SUBSET (1 .. Len(P)) :
           /\ Taking(e, P, full, taken, none, incomplete)
           /\ NoLabelTwice /\ full => ~none
           /\ ~full => incomplete
           /\ NoLabelTwice /\ DefaultReached => taken = 1 .. Len(P)
    BY <1>5, <2>1, ChosenBranches
  <2> QED BY <1>2, <1>5, <2>2, BranchFlows
<1> QED BY <1>1, <1>3, <1>4, <1>5 DEF Made

\* Each bit that a statement assigns has a tree with all it depends on, by
\* leaves that no block drops.
THEOREM AllFlowHolds == DefaultLast => (Spec => []AllFlow)
<1> SUFFICES ASSUME DefaultLast PROVE Spec => []AllFlow
  OBVIOUS
<1>1. Init => AllFlow
  <2> SUFFICES ASSUME Init PROVE AllFlow
    OBVIOUS
  <2>1. stack = <<>> /\ ToSet(<<>>) = {}
    BY DEF Init, ToSet
  <2> QED BY <2>1 DEF AllFlow, AllGood, Stacked
<1>2. AllFlow /\ [Next]_vars => AllFlow'
  <2> SUFFICES ASSUME AllFlow, [Next]_vars PROVE AllFlow'
    OBVIOUS
  <2>1. CASE Next
    <3>1. Stacked' /\ \A x \in ToSet(stack') : Made(x) \/ x \in ToSet(stack)
      BY <2>1, StepFacts DEF AllFlow, AllGood
    <3> QED BY <3>1, GoodMade, FlowMade DEF AllFlow, AllGood
  <2>2. CASE UNCHANGED vars
    <3>1. stack' = stack
      BY <2>2 DEF vars
    <3> QED BY <3>1 DEF AllFlow, AllGood, Stacked
  <2> QED BY <2>1, <2>2
<1> QED BY <1>1, <1>2, PTL DEF Spec

\* What is assigned last to a bit and every condition it is assigned under
\* are sources of the bit.
THEOREM FlowFoundHolds == DefaultLast => (Spec => []FlowFound)
<1> SUFFICES ASSUME DefaultLast PROVE Spec => []FlowFound
  OBVIOUS
<1>1. AllFlow => FlowFound
  <2> SUFFICES ASSUME AllFlow, NEW e \in ToSet(stack)
               PROVE  /\ \A r \in e.runs : \A c \in DOMAIN r : DOMAIN r[c] \subseteq Leaves(e.forest, c)
                      /\ \A g \in e.guards : \E k \in Leaves(e.forest, g[2]) : k[1] = g[1]
    BY DEF FlowFound
  <2>1. Flows(e)
    BY DEF AllFlow
  <2> QED BY <2>1, HasLeaves DEF Flows
<1>2. Spec => []AllFlow
  BY AllFlowHolds
<1> QED BY <1>1, <1>2, PTL

\* The inductive invariant of HoldFound.
AllKeep == AllGood /\ \A e \in ToSet(stack) : Keeps(e)

\* A result made of results that have it has it.
LEMMA KeepMade ==
  ASSUME NoLabelTwice, DefaultLast, AllKeep, NEW e, Made(e)
  PROVE  Keeps(e)
<1>1. CASE Assigned(e)
  BY <1>1, AssignedFacts
<1>2. ASSUME NEW P, Parts(P)
      PROVE  \A k \in 1 .. Len(P) : Good(P[k].forest) /\ Keeps(P[k])
  BY <1>2, PartsFacts DEF AllKeep, AllGood
<1>3. ASSUME NEW P, Parts(P), Blocked(e, P) PROVE Keeps(e)
  BY <1>2, <1>3, BlockKeeps
<1>4. ASSUME NEW P, Parts(P), Len(P) \in {1, 2}, Decided(e, P) PROVE Keeps(e)
  <2>1. AllGood
    BY DEF AllKeep
  <2>2. PICK full, none \in BOOLEAN :
           /\ Taking(e, P, full, 1 .. Len(P), none, FALSE)
           /\ full <=> ~none
    BY <1>4, <2>1, DecidedBranches
  <2> QED BY <1>2, <1>4, <2>2, BranchKeeps
<1>5. ASSUME NEW P, Parts(P), Chosen(e, P) PROVE Keeps(e)
  <2>1. AllGood
    BY DEF AllKeep
  <2>2. PICK full, none, incomplete \in BOOLEAN, taken \in SUBSET (1 .. Len(P)) :
           /\ Taking(e, P, full, taken, none, incomplete)
           /\ NoLabelTwice /\ full => ~none
           /\ ~full => incomplete
           /\ NoLabelTwice /\ DefaultReached => taken = 1 .. Len(P)
    BY <1>5, <2>1, ChosenBranches
  <2> QED BY <1>2, <1>5, <2>2, BranchKeeps
<1> QED BY <1>1, <1>3, <1>4, <1>5 DEF Made

\* Each bit with a tree that some run leaves alone has a self loop.
THEOREM AllKeepHolds == NoLabelTwice /\ DefaultLast => (Spec => []AllKeep)
<1> SUFFICES ASSUME NoLabelTwice, DefaultLast PROVE Spec => []AllKeep
  OBVIOUS
<1>1. Init => AllKeep
  <2> SUFFICES ASSUME Init PROVE AllKeep
    OBVIOUS
  <2>1. stack = <<>> /\ ToSet(<<>>) = {}
    BY DEF Init, ToSet
  <2> QED BY <2>1 DEF AllKeep, AllGood, Stacked
<1>2. AllKeep /\ [Next]_vars => AllKeep'
  <2> SUFFICES ASSUME AllKeep, [Next]_vars PROVE AllKeep'
    OBVIOUS
  <2>1. CASE Next
    <3>1. Stacked' /\ \A x \in ToSet(stack') : Made(x) \/ x \in ToSet(stack)
      BY <2>1, StepFacts DEF AllKeep, AllGood
    <3> QED BY <3>1, GoodMade, KeepMade DEF AllKeep, AllGood
  <2>2. CASE UNCHANGED vars
    <3>1. stack' = stack
      BY <2>2 DEF vars
    <3> QED BY <3>1 DEF AllKeep, AllGood, Stacked
  <2> QED BY <2>1, <2>2
<1> QED BY <1>1, <1>2, PTL DEF Spec

\* No latch is missed: a bit that some run leaves as it was has a self loop.
THEOREM HoldFoundHolds == NoLabelTwice /\ DefaultLast => (Spec => []HoldFound)
<1> SUFFICES ASSUME NoLabelTwice, DefaultLast PROVE Spec => []HoldFound
  OBVIOUS
<1>1. AllKeep => HoldFound
  <2> SUFFICES ASSUME AllKeep, NEW e \in ToSet(stack), NEW c \in Cells(e.forest),
                      NEW r \in e.runs, c \notin DOMAIN r
               PROVE  Holds(e.forest, c)
    BY DEF HoldFound
  <2>1. On(e.forest, c)
    BY OnCells
  <2>2. Has(e.forest, c, Loop(c))
    BY <2>1 DEF AllKeep, Keeps
  <2> QED BY <2>2, HasLeaves DEF Holds, Loop
<1>2. Spec => []AllKeep
  BY AllKeepHolds
<1> QED BY <1>1, <1>2, PTL

\* The inductive invariant of HoldMeant: it needs that of FlowFound, by which no
\* run of a branch assigns a bit of which the branch has no tree.
AllMean == AllFlow /\ \A e \in ToSet(stack) : Means(e)

\* A result made of results that have it has it.
LEMMA MeanMade ==
  ASSUME NoLabelTwice, DefaultLast, DefaultReached, AllMean, NEW e, Made(e)
  PROVE  Means(e)
<1>1. CASE Assigned(e)
  BY <1>1, AssignedFacts
<1>2. ASSUME NEW P, Parts(P)
      PROVE  \A k \in 1 .. Len(P) : Good(P[k].forest) /\ Flows(P[k]) /\ Means(P[k])
  BY <1>2, PartsFacts DEF AllMean, AllFlow, AllGood
<1>3. ASSUME NEW P, Parts(P), Blocked(e, P) PROVE Means(e)
  BY <1>2, <1>3, BlockMeans
<1>4. ASSUME NEW P, Parts(P), Len(P) \in {1, 2}, Decided(e, P) PROVE Means(e)
  <2>1. AllGood
    BY DEF AllMean, AllFlow
  <2>2. PICK full, none \in BOOLEAN :
           /\ Taking(e, P, full, 1 .. Len(P), none, FALSE)
           /\ full <=> ~none
    BY <1>4, <2>1, DecidedBranches
  <2> QED BY <1>2, <1>4, <2>2, BranchMeans
<1>5. ASSUME NEW P, Parts(P), Chosen(e, P) PROVE Means(e)
  <2>1. AllGood
    BY DEF AllMean, AllFlow
  <2>2. PICK full, none, incomplete \in BOOLEAN, taken \in SUBSET (1 .. Len(P)) :
           /\ Taking(e, P, full, taken, none, incomplete)
           /\ NoLabelTwice /\ full => ~none
           /\ ~full => incomplete
           /\ NoLabelTwice /\ DefaultReached => taken = 1 .. Len(P)
    BY <1>5, <2>1, ChosenBranches
  <2> QED BY <1>2, <1>5, <2>2, BranchMeans
<1> QED BY <1>1, <1>3, <1>4, <1>5 DEF Made

\* No bit has a tree that no run assigns, nor a self loop without an if or a
\* case that may leave it alone.
THEOREM AllMeanHolds == NoLabelTwice /\ DefaultLast /\ DefaultReached => (Spec => []AllMean)
<1> SUFFICES ASSUME NoLabelTwice, DefaultLast, DefaultReached PROVE Spec => []AllMean
  OBVIOUS
<1>1. Init => AllMean
  <2> SUFFICES ASSUME Init PROVE AllMean
    OBVIOUS
  <2>1. stack = <<>> /\ ToSet(<<>>) = {}
    BY DEF Init, ToSet
  <2> QED BY <2>1 DEF AllMean, AllFlow, AllGood, Stacked
<1>2. AllMean /\ [Next]_vars => AllMean'
  <2> SUFFICES ASSUME AllMean, [Next]_vars PROVE AllMean'
    OBVIOUS
  <2>1. CASE Next
    <3>1. Stacked' /\ \A x \in ToSet(stack') : Made(x) \/ x \in ToSet(stack)
      BY <2>1, StepFacts DEF AllMean, AllFlow, AllGood
    <3> QED BY <3>1, GoodMade, FlowMade, MeanMade DEF AllMean, AllFlow, AllGood
  <2>2. CASE UNCHANGED vars
    <3>1. stack' = stack
      BY <2>2 DEF vars
    <3> QED BY <3>1 DEF AllMean, AllFlow, AllGood, Stacked
  <2> QED BY <2>1, <2>2
<1> QED BY <1>1, <1>2, PTL DEF Spec

\* No latch is invented: only a bit that an if or a case inside the statement
\* may leave alone has a self loop.
THEOREM HoldMeantHolds == NoLabelTwice /\ DefaultLast /\ DefaultReached => (Spec => []HoldMeant)
<1> SUFFICES ASSUME NoLabelTwice, DefaultLast, DefaultReached PROVE Spec => []HoldMeant
  OBVIOUS
<1>1. AllMean => HoldMeant
  <2> SUFFICES ASSUME AllMean, NEW e \in ToSet(stack), NEW c \in Cells(e.forest), Holds(e.forest, c)
               PROVE  c \in e.loose
    BY DEF HoldMeant
  <2>1. Has(e.forest, c, Loop(c))
    BY HasLeaves DEF Holds, Loop
  <2> QED BY <2>1 DEF AllMean, Means
<1>2. Spec => []AllMean
  BY AllMeanHolds
<1> QED BY <1>1, <1>2, PTL
=============================================================================
