-------------------------- MODULE PathSearch_proofs --------------------------
(***************************************************************************)
(* Proofs about the register path search, for every graph, order of the    *)
(* neighbours and direction.                                               *)
(*                                                                         *)
(* 1. The algebra of path types (cal_type), and what it says bit by bit:   *)
(*    why merged types may be composed.                                    *)
(* 2. The walks, in the direction of the search.                           *)
(* 3. Sound: what is reported is of walks.  SInv.                          *)
(* 4. NoReentry: node_set bounds the calls.  NInv.                         *)
(* 5. Complete, MemoExact: without combinational loops every walk is       *)
(*    reported, and what is remembered is exact.  CInv.                    *)
(***************************************************************************)
EXTENDS PathSearch, WellFoundedInduction, TLAPS

(***************************************************************************)
(* The algebra of path types.  path_update_fast merges the types of all    *)
(* paths that end in the same register before it prefixes them with the    *)
(* type of the way to the node (the map rmap); that this gives the union   *)
(* of the types of the paths taken one by one rests on these laws.         *)
(***************************************************************************)

\* CalType on plain types, without its early returns.
LEMMA PlainForm ==
    ASSUME NEW a \in PlainTypes, NEW b \in PlainTypes
    PROVE  CalType(a, b) =
             Control(a) \cup (IF Data(a) = {} THEN {} ELSE Control(b))
                        \cup CalTypeData(Data(a), Data(b))
<1> DEFINE F == Control(a) \cup (IF Data(a) = {} THEN {} ELSE Control(b))
                           \cup CalTypeData(Data(a), Data(b))
<1>1. a # {} /\ b # {} /\ CR(b) = {} /\ a = Data(a) \cup Control(a)
      /\ b = Data(b) \cup Control(b)
  BY DEF PlainTypes, PlainBits, CR, CRTypes, Data, Control, DataTypes, ControlTypes
<1>2. CASE a = b
  <2>1. CalTypeData(Data(a), Data(a)) = Data(a)
    BY DEF CalTypeData
  <2> QED BY <1>1, <1>2, <2>1 DEF CalType
<1>3. CASE a # b /\ Data(a) = {} /\ Control(b) = {}
  BY <1>1, <1>3 DEF CalType, CalTypeData
<1>4. CASE a # b /\ ~(Data(a) = {} /\ Control(b) = {})
  BY <1>1, <1>4 DEF CalType, CalTypeData2Control
<1> QED BY <1>2, <1>3, <1>4

\* cal_type on plain types runs into no assertion and gives a plain type.
THEOREM CalTypeClosed ==
    ASSUME NEW a \in PlainTypes, NEW b \in PlainTypes
    PROVE  CalTypeDefined(a, b) /\ CalType(a, b) \in PlainTypes
<1>1. CalTypeDefined(a, b)
  BY DEF CalTypeDefined, PlainTypes, PlainBits, Data, Control, DataTypes, ControlTypes
<1>2. CalType(a, b) \subseteq PlainBits
  BY SMTT(20), PlainForm DEF PlainTypes, PlainBits, Data, Control, CalTypeData,
                   DataTypes, ControlTypes
<1>3. CalType(a, b) # {}
  <2>1. CASE Control(a) # {}
    BY <2>1, PlainForm
  <2>2. CASE Control(a) = {} /\ Control(b) # {}
    <3>1. Data(a) # {}
      BY <2>2 DEF PlainTypes, PlainBits, Data, Control, DataTypes, ControlTypes
    <3> QED BY <2>2, <3>1, PlainForm
  <2>3. CASE Control(a) = {} /\ Control(b) = {}
    <3>1. Data(a) # {} /\ Data(b) # {}
      BY <2>3 DEF PlainTypes, PlainBits, Data, Control, DataTypes, ControlTypes
    <3>2. CalTypeData(Data(a), Data(b)) # {}
      BY <3>1 DEF CalTypeData
    <3> QED BY <3>2, PlainForm
  <2> QED BY <2>1, <2>2, <2>3
<1> QED BY <1>1, <1>2, <1>3 DEF PlainTypes

\* The data and the control part of a composed type.
LEMMA PlainParts ==
    ASSUME NEW a \in PlainTypes, NEW b \in PlainTypes
    PROVE  /\ Data(CalType(a, b)) = CalTypeData(Data(a), Data(b))
           /\ Control(CalType(a, b)) =
                Control(a) \cup (IF Data(a) = {} THEN {} ELSE Control(b))
<1>1. CalTypeData(Data(a), Data(b)) \subseteq DataTypes
  BY DEF CalTypeData, Data
<1>2. DataTypes \cap ControlTypes = {}
  BY DEF DataTypes, ControlTypes
<1> DEFINE P == Control(a) \cup (IF Data(a) = {} THEN {} ELSE Control(b))
           Q == CalTypeData(Data(a), Data(b))
<1>3. CalType(a, b) = P \cup Q
  BY PlainForm
<1>4. P \subseteq ControlTypes
  BY DEF Control
<1>5. Data(P \cup Q) = Q /\ Control(P \cup Q) = P
  <2> HIDE DEF P, Q
  <2> QED BY <1>1, <1>2, <1>4 DEF Data, Control, Q
<1> QED BY <1>3, <1>5

\* Composition is associative: the type of a path may be computed from its
\* front (push_back), from its end (push_front) or from two halves (combine).
THEOREM CalTypeAssociative ==
    ASSUME NEW a \in PlainTypes, NEW b \in PlainTypes, NEW c \in PlainTypes
    PROVE  CalType(CalType(a, b), c) = CalType(a, CalType(b, c))
<1>1. CalType(a, b) \in PlainTypes /\ CalType(b, c) \in PlainTypes
  BY CalTypeClosed
<1> DEFINE da == Data(a)  db == Data(b)  dc == Data(c)
           ca == Control(a)  cb == Control(b)  cc == Control(c)
<1>2. CalTypeData(CalTypeData(da, db), dc) = CalTypeData(da, CalTypeData(db, dc))
  BY DEF CalTypeData
<1>3. CalTypeData(da, db) = {} <=> da = {} \/ db = {}
  BY DEF CalTypeData
<1>4. CalType(CalType(a, b), c) =
        (ca \cup (IF da = {} THEN {} ELSE cb))
          \cup (IF da = {} \/ db = {} THEN {} ELSE cc)
          \cup CalTypeData(CalTypeData(da, db), dc)
  BY <1>1, <1>3, PlainForm, PlainParts
<1>5. CalType(a, CalType(b, c)) =
        ca \cup (IF da = {} THEN {} ELSE cb \cup (IF db = {} THEN {} ELSE cc))
           \cup CalTypeData(da, CalTypeData(db, dc))
  BY <1>1, PlainForm, PlainParts
<1> QED BY <1>2, <1>4, <1>5

\* Prefixing two paths that were merged is merging the two prefixed paths,
\* and likewise for what follows: the law the memo of the search needs.
THEOREM CalTypeDistributes ==
    ASSUME NEW a \in PlainTypes, NEW b \in PlainTypes, NEW c \in PlainTypes
    PROVE  /\ CalType(a, b \cup c) = CalType(a, b) \cup CalType(a, c)
           /\ CalType(a \cup b, c) = CalType(a, c) \cup CalType(b, c)
<1>1. b \cup c \in PlainTypes /\ a \cup b \in PlainTypes
  BY DEF PlainTypes
<1>2. /\ Data(b \cup c) = Data(b) \cup Data(c)
      /\ Data(a \cup b) = Data(a) \cup Data(b)
      /\ Control(b \cup c) = Control(b) \cup Control(c)
      /\ Control(a \cup b) = Control(a) \cup Control(b)
  BY DEF Data, Control
<1>3. CalTypeData(Data(a), Data(b) \cup Data(c)) =
        CalTypeData(Data(a), Data(b)) \cup CalTypeData(Data(a), Data(c))
  BY DEF CalTypeData
<1>4. CalTypeData(Data(a) \cup Data(b), Data(c)) =
        CalTypeData(Data(a), Data(c)) \cup CalTypeData(Data(b), Data(c))
  BY DEF CalTypeData
<1>5. CalType(a, b \cup c) = CalType(a, b) \cup CalType(a, c)
  <2>1. CalType(a, b \cup c) =
          Control(a) \cup (IF Data(a) = {} THEN {} ELSE Control(b) \cup Control(c))
            \cup CalTypeData(Data(a), Data(b) \cup Data(c))
    <3> DEFINE d == b \cup c
    <3>1. d \in PlainTypes /\ Data(d) = Data(b) \cup Data(c)
          /\ Control(d) = Control(b) \cup Control(c)
      BY <1>1, <1>2
    <3> HIDE DEF d
    <3>2. CalType(a, d) =
            Control(a) \cup (IF Data(a) = {} THEN {} ELSE Control(d))
                       \cup CalTypeData(Data(a), Data(d))
      BY <3>1, PlainForm
    <3>3. CalType(a, d) =
            Control(a) \cup (IF Data(a) = {} THEN {} ELSE Control(b) \cup Control(c))
                       \cup CalTypeData(Data(a), Data(b) \cup Data(c))
      BY <3>1, <3>2
    <3> QED BY <3>3 DEF d
  <2>2. CalType(a, b) =
          Control(a) \cup (IF Data(a) = {} THEN {} ELSE Control(b))
                     \cup CalTypeData(Data(a), Data(b))
    BY PlainForm
  <2>3. CalType(a, c) =
          Control(a) \cup (IF Data(a) = {} THEN {} ELSE Control(c))
                     \cup CalTypeData(Data(a), Data(c))
    BY PlainForm
  <2> QED BY <2>1, <2>2, <2>3, <1>3
<1>6. CalType(a \cup b, c) = CalType(a, c) \cup CalType(b, c)
  <2>1. CalType(a \cup b, c) =
          (Control(a) \cup Control(b))
            \cup (IF Data(a) \cup Data(b) = {} THEN {} ELSE Control(c))
            \cup CalTypeData(Data(a) \cup Data(b), Data(c))
    BY <1>1, <1>2, PlainForm
  <2>2. CalType(a, c) =
          Control(a) \cup (IF Data(a) = {} THEN {} ELSE Control(c))
                     \cup CalTypeData(Data(a), Data(c))
    BY PlainForm
  <2>3. CalType(b, c) =
          Control(b) \cup (IF Data(b) = {} THEN {} ELSE Control(c))
                     \cup CalTypeData(Data(b), Data(c))
    BY PlainForm
  <2>4. Data(a) \cup Data(b) = {} <=> Data(a) = {} /\ Data(b) = {}
    OBVIOUS
  <2> QED BY <2>1, <2>2, <2>3, <2>4, <1>4
<1> QED BY <1>5, <1>6

-----------------------------------------------------------------------------
(***************************************************************************)
(* The bits of a composed type.                                            *)
(***************************************************************************)

\* A bit of a composed type is there because of one bit of each part: the
\* parts may be replaced by any types that have these bits.
LEMMA CalTypeBits ==
    ASSUME NEW a \in PlainTypes, NEW b \in PlainTypes, NEW x \in CalType(a, b)
    PROVE  \E p \in a, q \in b :
             \A c \in PlainTypes, d \in PlainTypes : p \in c /\ q \in d => x \in CalType(c, d)
<1> DEFINE Same(p, q) ==
             \A c \in PlainTypes, d \in PlainTypes : p \in c /\ q \in d => x \in CalType(c, d)
<1>1. /\ a # {} /\ b # {}
      /\ x \in Control(a) \/ (Data(a) # {} /\ x \in Control(b))
           \/ x \in CalTypeData(Data(a), Data(b))
  BY PlainForm DEF PlainTypes
<1>2. \A c \in PlainTypes, d \in PlainTypes :
        /\ x \in Control(c) => x \in CalType(c, d)
        /\ Data(c) # {} /\ x \in Control(d) => x \in CalType(c, d)
        /\ x \in CalTypeData(Data(c), Data(d)) => x \in CalType(c, d)
  BY PlainForm
<1>3. CASE x \in Control(a)
  <2>1. PICK q \in b : TRUE
    BY <1>1
  <2>2. x \in a /\ Same(x, q)
    BY <1>2, <1>3 DEF Control
  <2> QED BY <2>1, <2>2
<1>4. CASE Data(a) # {} /\ x \in Control(b)
  <2>1. PICK p \in Data(a) : TRUE
    BY <1>4
  <2>2. p \in a /\ x \in b /\ Same(p, x)
    BY <1>2, <1>4 DEF Control, Data
  <2> QED BY <2>2
<1>5. CASE x \in CalTypeData(Data(a), Data(b))
  <2>1. Data(a) # {} /\ Data(b) # {} /\ (x \in Data(a) \ {"ASS"} \/ ("ASS" \in Data(a) /\ x \in Data(b)))
    BY <1>5 DEF CalTypeData
  <2>2. CASE x \in Data(a) \ {"ASS"}
    <3>1. PICK q \in Data(b) : TRUE
      BY <2>1
    <3>2. \A c, d : x \in c /\ q \in d => x \in CalTypeData(Data(c), Data(d))
      BY <2>2 DEF CalTypeData, Data
    <3> QED BY <1>2, <2>2, <3>1, <3>2 DEF Data
  <2>3. CASE "ASS" \in Data(a) /\ x \in Data(b)
    <3>1. \A c, d : "ASS" \in c /\ x \in d => x \in CalTypeData(Data(c), Data(d))
      BY <2>3 DEF CalTypeData, Data
    <3> QED BY <1>2, <2>3, <3>1 DEF Data
  <2> QED BY <2>1, <2>2, <2>3
<1> QED BY <1>1, <1>3, <1>4, <1>5

\* Join composes in the direction of the search; the laws hold either way, and
\* the type of no way yet, the empty one, is neutral.
Ways == PlainTypes \cup {{}}

LEMMA CalTypeNeutral == \A t : CalType({}, t) = t /\ CalType(t, {}) = t
BY DEF CalType

LEMMA JoinClosed ==
    ASSUME NEW a \in Ways, NEW b \in PlainTypes
    PROVE  Join(a, b) \in PlainTypes /\ Join(b, a) \in PlainTypes
<1>1. CASE a \in PlainTypes
  BY <1>1, CalTypeClosed DEF Join
<1>2. CASE a = {}
  BY <1>2, CalTypeNeutral DEF Join
<1> QED BY <1>1, <1>2 DEF Ways

LEMMA JoinNeutral ==
    ASSUME NEW b \in PlainTypes
    PROVE  Join({}, b) = b /\ Join(b, {}) = b
BY CalTypeNeutral DEF Join

LEMMA JoinAssociative ==
    ASSUME NEW a \in Ways, NEW b \in PlainTypes, NEW c \in PlainTypes
    PROVE  Join(Join(a, b), c) = Join(a, Join(b, c))
<1>1. CASE a = {}
  BY <1>1, JoinNeutral, JoinClosed DEF Ways
<1>2. CASE a \in PlainTypes
  BY <1>2, CalTypeAssociative DEF Join
<1> QED BY <1>1, <1>2 DEF Ways

LEMMA JoinBits ==
    ASSUME NEW a \in PlainTypes, NEW b \in PlainTypes, NEW x \in Join(a, b)
    PROVE  \E p \in a, q \in b :
             \A c \in PlainTypes, d \in PlainTypes : p \in c /\ q \in d => x \in Join(c, d)
<1>1. CASE forward
  BY <1>1, CalTypeBits DEF Join
<1>2. CASE ~forward
  <2>1. x \in CalType(b, a)
    BY <1>2 DEF Join
  <2>2. PICK q \in b, p \in a :
           \A c \in PlainTypes, d \in PlainTypes : q \in c /\ p \in d => x \in CalType(c, d)
    BY <2>1, CalTypeBits
  <2> QED BY <1>2, <2>2 DEF Join
<1> QED BY <1>1, <1>2

-----------------------------------------------------------------------------
(***************************************************************************)
(* The walks: what WalkTypes computes is contained in every set that has   *)
(* the arcs and is closed, so what holds of arcs and survives one more arc *)
(* holds of all walks.                                                     *)
(***************************************************************************)

LEMMA Counting ==
    ASSUME NEW I \in SUBSET Nat, 1 \in I, \A k \in I : k + 1 \in I
    PROVE  \A k \in Nat \ {0} : k \in I
<1> DEFINE R == OpToRel(<, Nat)
           T == (Nat \ {0}) \ I
           Less(j, k) == <<j, k>> \in R
<1>1. IsWellFoundedOn(R, Nat)
  BY NatLessThanWellFounded
<1>2. \A j, k \in Nat : j < k => Less(j, k)
  BY DEF OpToRel
<1>3. T # {} => \E k \in T : \A j \in T : ~Less(j, k)
  <2> HIDE DEF R
  <2> QED BY <1>1, WFMin
<1> HIDE DEF Less
<1>4. SUFFICES ASSUME T # {} PROVE FALSE
  OBVIOUS
<1>5. PICK k \in T : \A j \in T : ~Less(j, k)
  BY <1>3, <1>4
<1>6. k # 1 /\ k - 1 \in Nat \ {0} /\ k - 1 < k
  OBVIOUS
<1>7. k - 1 \in I
  BY <1>2, <1>5, <1>6
<1>8. (k - 1) + 1 \in I
  BY <1>7
<1> QED BY <1>5, <1>8

\* The step of the recursion in WalkTypes.
Walked(g, f, k) ==
    IF k = 1 THEN ArcsOf(g) ELSE LET S == f[k - 1] IN S \cup Longer(S, ArcsOf(g))

LEMMA WalkedExists ==
    ASSUME NEW g, NEW n \in Nat \ {0}
    PROVE  \E f : f = [k \in 1..n |-> Walked(g, f, k)]
<1> DEFINE Has(m) == \E f : f = [k \in 1..m |-> Walked(g, f, k)]
           I == {m \in Nat \ {0} : Has(m)}
<1>1. Has(1)
  <2> DEFINE f == [k \in 1..1 |-> ArcsOf(g)]
  <2>1. f = [k \in 1..1 |-> Walked(g, f, k)]
    BY DEF Walked
  <2> QED BY <2>1
<1>2. ASSUME NEW m \in I
      PROVE  Has(m + 1)
  <2>1. PICK f : f = [k \in 1..m |-> Walked(g, f, k)]
    OBVIOUS
  <2> DEFINE h == [k \in 1..m + 1 |-> IF k \in 1..m THEN f[k] ELSE Walked(g, f, m + 1)]
  <2>2. \A k \in 1..m : h[k] = f[k] /\ f[k] = Walked(g, f, k)
    <3>1. \A k \in 1..m : k \in 1..m + 1
      OBVIOUS
    <3>2. \A k \in 1..m : f[k] = Walked(g, f, k)
      BY <2>1, Zenon
    <3> QED BY <3>1, <3>2
  <2>3. \A k \in 1..m + 1 : Walked(g, h, k) = Walked(g, f, k)
    <3> TAKE k \in 1..m + 1
    <3>1. k # 1 => k - 1 \in 1..m
      OBVIOUS
    <3>2. k # 1 => h[k - 1] = f[k - 1]
      BY <2>2, <3>1
    <3> HIDE DEF h
    <3> QED BY <3>2 DEF Walked
  <2>4. \A k \in 1..m + 1 : h[k] = Walked(g, h, k)
    <3> TAKE k \in 1..m + 1
    <3>1. CASE k \in 1..m
      BY <2>2, <2>3, <3>1
    <3>2. CASE k = m + 1
      <4>1. h[k] = Walked(g, f, k)
        BY <3>2
      <4> QED BY <2>3, <4>1
    <3> QED BY <3>1, <3>2
  <2>5. h = [k \in 1..m + 1 |-> h[k]]
    OBVIOUS
  <2>6. h = [k \in 1..m + 1 |-> Walked(g, h, k)]
    <3> HIDE DEF h
    <3> QED BY <2>4, <2>5
  <2> QED BY <2>6
<1>3. I \in SUBSET Nat /\ 1 \in I /\ \A m \in I : m + 1 \in I
  <2> HIDE DEF Has
  <2> QED BY <1>1, <1>2
<1>4. n \in I
  <2> HIDE DEF I
  <2> QED BY <1>3, Counting
<1> QED BY <1>4

LEMMA WalksLeast ==
    ASSUME NEW g, NEW n \in Nat \ {0},
           NEW S, ArcsOf(g) \subseteq S, Longer(S, ArcsOf(g)) \subseteq S
    PROVE  ArcsOf(g) \subseteq WalkTypes(g, n) /\ WalkTypes(g, n) \subseteq S
<1> DEFINE W == CHOOSE f : f = [k \in 1..n |-> Walked(g, f, k)]
           Good(k) == k <= n => ArcsOf(g) \subseteq W[k] /\ W[k] \subseteq S
           I == {k \in Nat \ {0} : Good(k)}
<1>1. W = [k \in 1..n |-> Walked(g, W, k)]
  BY WalkedExists
<1>2. WalkTypes(g, n) = W[n]
  BY DEF WalkTypes, Walked
<1> HIDE DEF W
<1>3. \A k \in 1..n : W[k] = Walked(g, W, k)
  BY <1>1
<1>4. Good(1)
  <2>1. W[1] = ArcsOf(g)
    <3>1. 1 \in 1..n
      OBVIOUS
    <3> QED BY <1>3, <3>1 DEF Walked
  <2> QED BY <2>1
<1>5. ASSUME NEW k \in I
      PROVE  Good(k + 1)
  <2>1. SUFFICES ASSUME k + 1 <= n PROVE Good(k + 1)
    OBVIOUS
  <2>2. W[k + 1] = W[k] \cup Longer(W[k], ArcsOf(g))
    <3>1. k + 1 \in 1..n /\ k + 1 # 1 /\ (k + 1) - 1 = k
      BY <2>1
    <3> QED BY <1>3, <3>1 DEF Walked
  <2>3. ArcsOf(g) \subseteq W[k] /\ W[k] \subseteq S
    BY <2>1
  <2>4. Longer(W[k], ArcsOf(g)) \subseteq Longer(S, ArcsOf(g))
    BY <2>3 DEF Longer
  <2> QED BY <2>2, <2>3, <2>4
<1>6. I \in SUBSET Nat /\ 1 \in I /\ \A k \in I : k + 1 \in I
  <2> HIDE DEF Good
  <2> QED BY <1>4, <1>5
<1>7. n \in I
  <2> HIDE DEF I
  <2> QED BY <1>6, Counting
<1> QED BY <1>2, <1>7

\* What Init says of the graph and the walks, and no step changes.
GraphOK ==
    /\ w \in Weights /\ forward \in BOOLEAN /\ start \in Starts
    /\ walks = WalkTypes(w, WalkBound)
    /\ Longer(walks, ArcsOf(w)) \subseteq walks

Triples == Node \X Node \X PlainTypes

LEMMA ArcsTyped ==
    ASSUME GraphOK
    PROVE  /\ ArcsOf(w) \subseteq Triples
           /\ \A n, m \in Node : w[<<n, m>>] \in Ways
           /\ \A n, m \in Node : w[<<n, m>>] # {} => <<n, m, w[<<n, m>>]>> \in ArcsOf(w)
           /\ \A a \in ArcsOf(w) : a[3] = w[<<a[1], a[2]>>]
<1>1. w \in [Node \X Node -> PlainTypes \cup {{}}]
  BY PathAssumption DEF GraphOK
<1>2. \A p \in Node \X Node : w[p] # {} => w[p] \in PlainTypes
  BY <1>1
<1>3. ArcsOf(w) \subseteq Triples
  BY <1>2 DEF ArcsOf, Triples
<1>4. \A n, m \in Node : <<n, m>> \in Node \X Node
  OBVIOUS
<1>5. \A n, m \in Node : w[<<n, m>>] \in Ways
  BY <1>1, <1>4 DEF Ways
<1>6. \A n, m \in Node : w[<<n, m>>] # {} => <<n, m, w[<<n, m>>]>> \in ArcsOf(w)
  BY <1>4 DEF ArcsOf
<1>7. \A a \in ArcsOf(w) : a[3] = w[<<a[1], a[2]>>]
  BY DEF ArcsOf
<1> QED BY <1>3, <1>5, <1>6, <1>7

LEMMA WalksTyped ==
    ASSUME GraphOK
    PROVE  ArcsOf(w) \subseteq walks /\ walks \subseteq Triples
<1>1. Longer(Triples, ArcsOf(w)) \subseteq Triples
  <2> SUFFICES ASSUME NEW d \in Triples \X ArcsOf(w)
               PROVE  <<d[1][1], d[2][2], CalType(d[1][3], d[2][3])>> \in Triples
    BY DEF Longer
  <2>1. d[1] \in Triples /\ d[2] \in Triples
    BY ArcsTyped
  <2> QED BY <2>1, CalTypeClosed DEF Triples
<1> QED BY <1>1, ArcsTyped, WalksLeast, PathAssumption DEF GraphOK

\* Induction over the walks.
LEMMA WalksInduct ==
    ASSUME GraphOK, NEW S, ArcsOf(w) \subseteq S,
           \A v \in S, a \in ArcsOf(w) :
              v \in walks /\ v[2] = a[1] /\ a[1] \notin Reg
                 => <<v[1], a[2], CalType(v[3], a[3])>> \in S
    PROVE  walks \subseteq S
<1> DEFINE T == S \cap walks
<1>1. ArcsOf(w) \subseteq T
  BY WalksTyped
<1>2. Longer(T, ArcsOf(w)) \subseteq walks
  BY DEF GraphOK, Longer
<1>3. Longer(T, ArcsOf(w)) \subseteq S
  BY DEF Longer
<1>4. Longer(T, ArcsOf(w)) \subseteq T
  BY <1>2, <1>3
<1>5. walks \subseteq T
  <2> HIDE DEF T
  <2> QED BY <1>1, <1>4, WalksLeast, PathAssumption DEF GraphOK
<1> QED BY <1>5

LEMMA WalksExtend ==
    ASSUME GraphOK, NEW v \in walks, NEW a \in ArcsOf(w), v[2] = a[1], a[1] \notin Reg
    PROVE  <<v[1], a[2], CalType(v[3], a[3])>> \in walks
<1>1. <<v, a>> \in {d \in walks \X ArcsOf(w) : d[1][2] = d[2][1] /\ d[2][1] \notin Reg}
  OBVIOUS
<1>2. <<v[1], a[2], CalType(v[3], a[3])>> \in Longer(walks, ArcsOf(w))
  BY <1>1 DEF Longer
<1> QED BY <1>2 DEF GraphOK

\* Two walks make one.
LEMMA WalksCompose ==
    ASSUME GraphOK, NEW u \in walks, NEW v \in walks, u[2] = v[1], v[1] \notin Reg
    PROVE  <<u[1], v[2], CalType(u[3], v[3])>> \in walks
<1> DEFINE S == {x \in walks : \A y \in walks : y[2] = x[1] /\ x[1] \notin Reg
                                  => <<y[1], x[2], CalType(y[3], x[3])>> \in walks}
<1>1. ArcsOf(w) \subseteq S
  BY WalksTyped, WalksExtend
<1>2. ASSUME NEW x \in S, NEW a \in ArcsOf(w), x[2] = a[1], a[1] \notin Reg
      PROVE  <<x[1], a[2], CalType(x[3], a[3])>> \in S
  <2> DEFINE z == <<x[1], a[2], CalType(x[3], a[3])>>
  <2>1. z \in walks
    BY <1>2, WalksExtend
  <2>2. ASSUME NEW y \in walks, y[2] = x[1], x[1] \notin Reg
        PROVE  <<y[1], a[2], CalType(y[3], CalType(x[3], a[3]))>> \in walks
    <3> DEFINE yx == <<y[1], x[2], CalType(y[3], x[3])>>
    <3>1. yx \in walks
      BY <2>2
    <3>2. <<yx[1], a[2], CalType(yx[3], a[3])>> \in walks
      BY <1>2, <3>1, WalksExtend
    <3>3. y[3] \in PlainTypes /\ x[3] \in PlainTypes /\ a[3] \in PlainTypes
      BY WalksTyped, ArcsTyped DEF Triples
    <3> QED BY <3>2, <3>3, CalTypeAssociative
  <2> QED BY <2>1, <2>2
<1>3. walks \subseteq S
  <2> HIDE DEF S
  <2> QED BY <1>1, <1>2, WalksInduct
<1> QED BY <1>3

\* A walk is an arc, or an arc and a walk, or a walk and an arc.
LEMMA WalksSplit ==
    ASSUME GraphOK, NEW v \in walks
    PROVE  \/ v \in ArcsOf(w)
           \/ /\ \E a \in ArcsOf(w), u \in walks :
                   /\ a[2] = u[1] /\ u[1] \notin Reg
                   /\ v = <<a[1], u[2], CalType(a[3], u[3])>>
              /\ \E u \in walks, a \in ArcsOf(w) :
                   /\ u[2] = a[1] /\ a[1] \notin Reg
                   /\ v = <<u[1], a[2], CalType(u[3], a[3])>>
<1> DEFINE First(x) == \E a \in ArcsOf(w), u \in walks :
                         /\ a[2] = u[1] /\ u[1] \notin Reg
                         /\ x = <<a[1], u[2], CalType(a[3], u[3])>>
           Final(x) == \E u \in walks, a \in ArcsOf(w) :
                         /\ u[2] = a[1] /\ a[1] \notin Reg
                         /\ x = <<u[1], a[2], CalType(u[3], a[3])>>
           S == {x \in walks : x \in ArcsOf(w) \/ (First(x) /\ Final(x))}
<1>1. ArcsOf(w) \subseteq S
  BY WalksTyped
<1>2. ASSUME NEW x \in S, NEW a \in ArcsOf(w), x[2] = a[1], a[1] \notin Reg
      PROVE  <<x[1], a[2], CalType(x[3], a[3])>> \in S
  <2> DEFINE z == <<x[1], a[2], CalType(x[3], a[3])>>
  <2>1. z \in walks
    BY <1>2, WalksExtend
  <2>2. Final(z)
    BY <1>2
  <2>3. First(z)
    <3>1. CASE x \in ArcsOf(w)
      <4>1. a \in walks
        BY WalksTyped
      <4> QED BY <1>2, <3>1, <4>1
    <3>2. CASE First(x)
      <4>1. PICK b \in ArcsOf(w), u \in walks :
              b[2] = u[1] /\ u[1] \notin Reg /\ x = <<b[1], u[2], CalType(b[3], u[3])>>
        BY <3>2
      <4> DEFINE ua == <<u[1], a[2], CalType(u[3], a[3])>>
      <4>2. x[1] = b[1] /\ x[2] = u[2] /\ x[3] = CalType(b[3], u[3])
        BY <4>1
      <4>3. ua \in walks
        BY <1>2, <4>2, WalksExtend
      <4>4. b[3] \in PlainTypes /\ u[3] \in PlainTypes /\ a[3] \in PlainTypes
        BY WalksTyped, ArcsTyped DEF Triples
      <4>5. z = <<b[1], ua[2], CalType(b[3], ua[3])>>
        BY <4>2, <4>4, CalTypeAssociative
      <4>6. b[2] = ua[1] /\ ua[1] \notin Reg
        BY <4>1
      <4> QED BY <4>3, <4>5, <4>6
    <3> QED BY <3>1, <3>2
  <2> HIDE DEF First, Final, z
  <2> QED BY <2>1, <2>2, <2>3 DEF z
<1>3. walks \subseteq S
  <2> HIDE DEF S
  <2> QED BY <1>1, <1>2, WalksInduct
<1> QED BY <1>3

-----------------------------------------------------------------------------
(***************************************************************************)
(* The same in the direction of the search.                                *)
(***************************************************************************)

Walk(n, e, t) == IF forward THEN <<n, e, t>> \in walks ELSE <<e, n, t>> \in walks

LEMMA WalkTyped ==
    ASSUME GraphOK, NEW n, NEW e, NEW t, Walk(n, e, t)
    PROVE  n \in Node /\ e \in Node /\ t \in PlainTypes
BY WalksTyped DEF Walk, Triples

LEMMA WeightTyped ==
    ASSUME GraphOK, NEW n \in Node, NEW m \in NextTo(n)
    PROVE  m \in Node /\ Weight(n, m) \in PlainTypes /\ Walk(n, m, Weight(n, m))
<1>1. m \in Node /\ Weight(n, m) # {}
  BY DEF NextTo
<1>2. Weight(n, m) \in PlainTypes
  BY <1>1, ArcsTyped DEF Weight, Ways
<1>3. Walk(n, m, Weight(n, m))
  BY <1>1, ArcsTyped, WalksTyped DEF Walk, Weight
<1> QED BY <1>1, <1>2, <1>3

LEMMA WalkJoin ==
    ASSUME GraphOK, NEW n, NEW m, NEW e, NEW t, NEW u,
           Walk(n, m, t), m \notin Reg, Walk(m, e, u)
    PROVE  Walk(n, e, Join(t, u))
<1>1. CASE forward
  <2>1. <<n, m, t>> \in walks /\ <<m, e, u>> \in walks
    BY <1>1 DEF Walk
  <2>2. <<n, e, CalType(t, u)>> \in walks
    BY <2>1, WalksCompose
  <2> QED BY <1>1, <2>2 DEF Walk, Join
<1>2. CASE ~forward
  <2>1. <<m, n, t>> \in walks /\ <<e, m, u>> \in walks
    BY <1>2 DEF Walk
  <2>2. <<e, n, CalType(u, t)>> \in walks
    BY <2>1, WalksCompose
  <2> QED BY <1>2, <2>2 DEF Walk, Join
<1> QED BY <1>1, <1>2

\* The first step of a walk, in the direction of the search.
LEMMA WalkFirst ==
    ASSUME GraphOK, NEW n, NEW e, NEW t, Walk(n, e, t)
    PROVE  \/ e \in NextTo(n) /\ t = Weight(n, e)
           \/ \E m \in NextTo(n) \ Reg : \E u :
                 Walk(m, e, u) /\ t = Join(Weight(n, m), u)
<1>0. n \in Node /\ e \in Node
  BY WalkTyped
<1>a. ASSUME NEW a \in ArcsOf(w)
      PROVE  a = <<a[1], a[2], w[<<a[1], a[2]>>]>> /\ w[<<a[1], a[2]>>] # {}
             /\ a[1] \in Node /\ a[2] \in Node
  <2>1. a \in Triples /\ a[3] = w[<<a[1], a[2]>>]
    BY ArcsTyped
  <2>2. a[3] # {}
    BY <2>1 DEF Triples, PlainTypes
  <2> QED BY <2>1, <2>2 DEF Triples
<1>b. ASSUME NEW u \in walks
      PROVE  u = <<u[1], u[2], u[3]>>
  BY WalksTyped DEF Triples
<1>1. CASE forward
  <2> DEFINE v == <<n, e, t>>
  <2>0. v \in walks
    BY <1>1 DEF Walk
  <2>1. CASE v \in ArcsOf(w)
    <3>1. t = w[<<n, e>>] /\ w[<<n, e>>] # {}
      BY <1>a, <2>1
    <3> QED BY <1>0, <1>1, <3>1 DEF Weight, NextTo
  <2>2. CASE \E a \in ArcsOf(w), u \in walks :
                a[2] = u[1] /\ u[1] \notin Reg /\ v = <<a[1], u[2], CalType(a[3], u[3])>>
    <3>1. PICK a \in ArcsOf(w), u \in walks :
                a[2] = u[1] /\ u[1] \notin Reg /\ v = <<a[1], u[2], CalType(a[3], u[3])>>
      BY <2>2
    <3>2. n = a[1] /\ e = u[2] /\ t = CalType(a[3], u[3])
      BY <3>1
    <3> DEFINE m == a[2]
    <3>3. Weight(n, m) = a[3] /\ m \in NextTo(n)
      BY <1>1, <1>a, <3>2, ArcsTyped DEF Weight, NextTo
    <3>4. Walk(m, e, u[3])
      BY <1>1, <1>b, <3>1, <3>2 DEF Walk
    <3>5. t = Join(Weight(n, m), u[3])
      BY <1>1, <3>2, <3>3 DEF Join
    <3> QED BY <3>1, <3>3, <3>4, <3>5
  <2> QED BY <2>0, <2>1, <2>2, WalksSplit
<1>2. CASE ~forward
  <2> DEFINE v == <<e, n, t>>
  <2>0. v \in walks
    BY <1>2 DEF Walk
  <2>1. CASE v \in ArcsOf(w)
    <3>1. t = w[<<e, n>>] /\ w[<<e, n>>] # {}
      BY <1>a, <2>1
    <3> QED BY <1>0, <1>2, <3>1 DEF Weight, NextTo
  <2>2. CASE \E u \in walks, a \in ArcsOf(w) :
                u[2] = a[1] /\ a[1] \notin Reg /\ v = <<u[1], a[2], CalType(u[3], a[3])>>
    <3>1. PICK u \in walks, a \in ArcsOf(w) :
                u[2] = a[1] /\ a[1] \notin Reg /\ v = <<u[1], a[2], CalType(u[3], a[3])>>
      BY <2>2
    <3>2. e = u[1] /\ n = a[2] /\ t = CalType(u[3], a[3])
      BY <3>1
    <3> DEFINE m == a[1]
    <3>3. Weight(n, m) = a[3] /\ m \in NextTo(n)
      BY <1>2, <1>a, <3>2, ArcsTyped DEF Weight, NextTo
    <3>4. Walk(m, e, u[3])
      BY <1>2, <1>b, <3>1, <3>2 DEF Walk
    <3>5. t = Join(Weight(n, m), u[3])
      BY <1>2, <3>2, <3>3 DEF Join
    <3> QED BY <3>1, <3>3, <3>4, <3>5
  <2> QED BY <2>0, <2>1, <2>2, WalksSplit
<1> QED BY <1>1, <1>2 DEF GraphOK

\* The bits of all walks between two nodes.
LEMMA BetweenBits ==
    ASSUME GraphOK, NEW n, NEW e
    PROVE  \A x : x \in Between(n, e) <=> \E t : Walk(n, e, t) /\ x \in t
<1>b. ASSUME NEW u \in walks
      PROVE  u = <<u[1], u[2], u[3]>>
  BY WalksTyped DEF Triples
<1> DEFINE V == {v \in walks : IF forward THEN v[1] = n /\ v[2] = e
                                          ELSE v[1] = e /\ v[2] = n}
<1>1. Between(n, e) = UNION {u[3] : u \in V}
  BY DEF Between
<1>2. ASSUME NEW x, x \in Between(n, e)
      PROVE  \E t : Walk(n, e, t) /\ x \in t
  <2>1. PICK u \in V : x \in u[3]
    BY <1>1, <1>2
  <2>2. Walk(n, e, u[3])
    BY <1>b, <2>1 DEF Walk
  <2> QED BY <2>1, <2>2
<1>3. ASSUME NEW x, NEW t, Walk(n, e, t), x \in t
      PROVE  x \in Between(n, e)
  <2> DEFINE u == IF forward THEN <<n, e, t>> ELSE <<e, n, t>>
  <2>1. u \in V /\ u[3] = t
    BY <1>3 DEF Walk
  <2> QED BY <1>1, <1>3, <2>1
<1> QED BY <1>2, <1>3

\* Between is a plain type, if there is a walk at all.
LEMMA BetweenTyped ==
    ASSUME GraphOK, NEW n, NEW e
    PROVE  /\ Between(n, e) # {} => Between(n, e) \in PlainTypes
           /\ \A t : Walk(n, e, t) => t \subseteq Between(n, e) /\ Between(n, e) # {}
<1>1. \A t : Walk(n, e, t) => t \subseteq PlainBits /\ t # {}
  BY WalkTyped DEF PlainTypes
<1>2. Between(n, e) \subseteq PlainBits
  BY <1>1, BetweenBits
<1> QED BY <1>1, <1>2, BetweenBits DEF PlainTypes

\* Parts of the walks to a node and from it make parts of walks through it:
\* what is learnt at a node may be composed although it is merged.
LEMMA BetweenJoin ==
    ASSUME GraphOK, NEW n, NEW m, NEW e, m \notin Reg,
           NEW a \in PlainTypes, a \subseteq Between(n, m),
           NEW b \in PlainTypes, b \subseteq Between(m, e)
    PROVE  Join(a, b) \in PlainTypes /\ Join(a, b) \subseteq Between(n, e)
<1>1. ASSUME NEW x \in Join(a, b)
      PROVE  x \in Between(n, e)
  <2>1. PICK p \in a, q \in b :
          \A c \in PlainTypes, d \in PlainTypes : p \in c /\ q \in d => x \in Join(c, d)
    BY JoinBits
  <2>2. PICK t : Walk(n, m, t) /\ p \in t
    BY BetweenBits
  <2>3. PICK u : Walk(m, e, u) /\ q \in u
    BY BetweenBits
  <2>4. x \in Join(t, u) /\ Walk(n, e, Join(t, u))
    BY <2>1, <2>2, <2>3, WalkTyped, WalkJoin
  <2> QED BY <2>4, BetweenBits
<1> QED BY <1>1, JoinClosed DEF Ways

-----------------------------------------------------------------------------
(***************************************************************************)
(* Sound.                                                                  *)
(***************************************************************************)

Frames == [node : Node, type : Ways, seen : SUBSET Node, todo : SUBSET Node]

\* The calls under way are a way from the start, with its type.
StackOK(s) ==
    /\ s \in Seq(Frames)
    /\ s # << >> => s[1].node = start /\ s[1].type = {}
    /\ \A k \in 1..Len(s) : s[k].todo \subseteq NextTo(s[k].node)
    /\ \A k \in 2..Len(s) :
          /\ ~EndNode(s[k].node)
          /\ s[k].node \in s[k - 1].todo
          /\ s[k].type = Join(s[k - 1].type, Weight(s[k - 1].node, s[k].node))
          /\ Walk(start, s[k].node, s[k].type)

\* What is reported, and what is remembered of node n, is of walks.
EntryOK(f, n) ==
    \A e \in DOMAIN f : EndNode(e) /\ f[e] \in PlainTypes /\ f[e] \subseteq Between(n, e)

\* An end remembers itself, with the type of no way.
RmapOK(r) ==
    /\ DOMAIN r \subseteq Node
    /\ \A n \in DOMAIN r : EndNode(n) => DOMAIN r[n] = {n} /\ r[n][n] = {}
    /\ \A n \in Node : ~EndNode(n) => EntryOK(Entry(r, n), n)

SInv == GraphOK /\ StackOK(stack) /\ EntryOK(pmap, start) /\ RmapOK(rmap)

Frozen == UNCHANGED <<w, forward, start, walks>>

LEMMA FrozenOps ==
    ASSUME Frozen
    PROVE  /\ GraphOK' <=> GraphOK
           /\ \A n : NextTo(n)' = NextTo(n)
           /\ \A n : EndNode(n)' <=> EndNode(n)
           /\ \A n, m : Weight(n, m)' = Weight(n, m)
           /\ \A a, b : Join(a, b)' = Join(a, b)
           /\ \A n, m : Between(n, m)' = Between(n, m)
           /\ \A n, m, t : Walk(n, m, t)' <=> Walk(n, m, t)
<1> USE DEF Frozen
<1>1. \A n, m : Weight(n, m)' = Weight(n, m)
  BY DEF Weight
<1>2. \A n : NextTo(n)' = NextTo(n)
  BY DEF NextTo, Weight
<1>3. \A n : EndNode(n)' <=> EndNode(n)
  BY <1>2 DEF EndNode
<1>4. \A a, b : Join(a, b)' = Join(a, b)
  BY DEF Join
<1>5. \A n, m : Between(n, m)' = Between(n, m)
  BY DEF Between
<1>6. \A n, m, t : Walk(n, m, t)' <=> Walk(n, m, t)
  BY DEF Walk
<1>7. GraphOK' <=> GraphOK
  BY DEF GraphOK
<1> QED BY <1>1, <1>2, <1>3, <1>4, <1>5, <1>6, <1>7

LEMMA FrozenSInv ==
    ASSUME Frozen, GraphOK, StackOK(stack'), EntryOK(pmap', start), RmapOK(rmap')
    PROVE  SInv'
<1>0. start' = start
  BY DEF Frozen
<1>1. StackOK(stack)'
  BY ZenonT(30), <1>0 DEF Frozen, StackOK, NextTo, EndNode, Weight, Join, Walk
<1>3. EntryOK(pmap, start)'
  BY <1>0, FrozenOps DEF EntryOK
<1>4. RmapOK(rmap)'
  <2>1. (DOMAIN rmap \subseteq Node)'
    BY DEF Frozen, RmapOK
  <2>2. (\A n \in DOMAIN rmap : EndNode(n) => DOMAIN rmap[n] = {n} /\ rmap[n][n] = {})'
    BY DEF Frozen, RmapOK, EndNode, NextTo, Weight
  <2>3. (\A n \in Node : ~EndNode(n) => EntryOK(Entry(rmap, n), n))'
    <3>1. \A n \in Node : ~EndNode(n)' => EntryOK(Entry(rmap', n), n)
      BY FrozenOps DEF RmapOK
    <3>2. \A n : Entry(rmap, n)' = Entry(rmap', n)
      BY DEF Entry
    <3>3. \A f, n : EntryOK(f, n) => EntryOK(f, n)'
      BY FrozenOps DEF EntryOK
    <3> QED BY <3>1, <3>2, <3>3 DEF EntryOK
  <2> QED BY <2>1, <2>2, <2>3 DEF RmapOK
<1> QED BY <1>1, <1>3, <1>4, FrozenOps DEF SInv

\* What Learn makes of the entries: only that of the caller changes.
Learnt(r, n, m, e) ==
    Type(Entry(r, n), e) \cup
      (IF e \in DOMAIN Entry(r, m) THEN Join(Weight(n, m), Entry(r, m)[e]) ELSE {})

IsLearnt(q, r, n, m) ==
    /\ DOMAIN r \subseteq DOMAIN q /\ m \in DOMAIN q
    /\ DOMAIN q \subseteq DOMAIN r \cup {n, m}
    /\ \A x : x # n => Entry(q, x) = Entry(r, x)
    /\ DOMAIN Entry(q, n) = DOMAIN Entry(r, n) \cup DOMAIN Entry(r, m)
    /\ \A e \in DOMAIN Entry(q, n) : Entry(q, n)[e] = Learnt(r, n, m, e)

LEMMA LearnEntry ==
    \A r, n, m : IsLearnt(Learn(r, n, m, FALSE), r, n, m)
<1> TAKE r, n, m
<1> DEFINE q == Learn(r, n, m, FALSE)
<1> DEFINE F(e) == Type(Entry(r, n), e) \cup
                   (IF e \in DOMAIN Entry(r, m) THEN Join(Weight(n, m), r[m][e]) ELSE {})
           E   == DOMAIN Entry(r, n) \cup DOMAIN Entry(r, m)
           new == [e \in E |-> F(e)]
           X   == DOMAIN r \cup {m} \cup (IF Entry(r, m) = NoMap THEN {} ELSE {n})
<1>1. q = [x \in X |-> IF x = n THEN new ELSE Entry(r, x)]
  BY DEF Learn
<1>2. \A e \in DOMAIN Entry(r, m) : Entry(r, m)[e] = r[m][e]
  BY DEF Entry, NoMap
<1>3. DOMAIN new = E /\ \A e \in E : new[e] = F(e)
  OBVIOUS
<1> HIDE DEF new
<1> HIDE DEF q
<1>4. DOMAIN q = X /\ \A x \in X : q[x] = IF x = n THEN new ELSE Entry(r, x)
  BY <1>1
<1>5. \A x : x # n => Entry(q, x) = Entry(r, x)
  BY <1>4 DEF Entry
<1>6. ASSUME n \in X PROVE IsLearnt(q, r, n, m)
  <2>1. Entry(q, n) = new
    BY <1>4, <1>6 DEF Entry
  <2> QED BY <1>2, <1>3, <1>4, <1>5, <2>1 DEF Learnt, IsLearnt
<1>7. ASSUME n \notin X PROVE IsLearnt(q, r, n, m)
  <2>1. Entry(r, m) = NoMap /\ Entry(r, n) = NoMap /\ Entry(q, n) = NoMap
    BY <1>4, <1>7 DEF Entry
  <2>2. DOMAIN NoMap = {}
    BY DEF NoMap
  <2> QED BY <1>4, <1>5, <2>1, <2>2 DEF IsLearnt
<1>8. IsLearnt(q, r, n, m)
  BY <1>6, <1>7
<1> QED BY <1>8 DEF q

LEMMA LearnKeeps ==
    ASSUME GraphOK, NEW r, RmapOK(r), NEW n \in Node, ~EndNode(n), NEW m \in NextTo(n),
           EndNode(m) => m \in DOMAIN r,
           NEW q, IsLearnt(q, r, n, m)
    PROVE  RmapOK(q)
<1>1. /\ DOMAIN q \subseteq DOMAIN r \cup {n, m} /\ DOMAIN r \subseteq DOMAIN q
      /\ \A x : x # n => Entry(q, x) = Entry(r, x)
      /\ DOMAIN Entry(q, n) = DOMAIN Entry(r, n) \cup DOMAIN Entry(r, m)
      /\ \A e \in DOMAIN Entry(q, n) : Entry(q, n)[e] = Learnt(r, n, m, e)
  BY DEF IsLearnt
<1>2. m \in Node /\ Weight(n, m) \in PlainTypes /\ Walk(n, m, Weight(n, m))
  BY WeightTyped
<1>3. Weight(n, m) \subseteq Between(n, m)
  BY <1>2, BetweenTyped
<1>4. ASSUME NEW e \in DOMAIN Entry(r, m)
      PROVE  LET t == Join(Weight(n, m), Entry(r, m)[e])
             IN  EndNode(e) /\ t \in PlainTypes /\ t \subseteq Between(n, e)
  <2>1. CASE EndNode(m)
    <3>1. e = m /\ Entry(r, m)[e] = {}
      <4>1. m \in DOMAIN r /\ Entry(r, m) = r[m]
        BY <2>1 DEF Entry
      <4>2. DOMAIN r[m] = {m} /\ r[m][m] = {}
        BY <2>1, <4>1 DEF RmapOK
      <4> QED BY <1>4, <4>1, <4>2
    <3> QED BY <1>2, <1>3, <2>1, <3>1, JoinNeutral
  <2>2. CASE ~EndNode(m)
    <3>1. EndNode(e) /\ Entry(r, m)[e] \in PlainTypes /\ Entry(r, m)[e] \subseteq Between(m, e)
      BY <1>2, <1>4, <2>2 DEF RmapOK, EntryOK
    <3>2. m \notin Reg
      BY <2>2 DEF EndNode
    <3> QED BY <1>2, <1>3, <3>1, <3>2, BetweenJoin
  <2> QED BY <2>1, <2>2
<1>5. ASSUME NEW e \in DOMAIN Entry(r, n)
      PROVE  EndNode(e) /\ Type(Entry(r, n), e) \in PlainTypes
             /\ Type(Entry(r, n), e) \subseteq Between(n, e)
  BY <1>5 DEF RmapOK, EntryOK, Type
<1>6. EntryOK(Entry(q, n), n)
  <2> SUFFICES ASSUME NEW e \in DOMAIN Entry(q, n)
               PROVE  EndNode(e) /\ Entry(q, n)[e] \in PlainTypes
                      /\ Entry(q, n)[e] \subseteq Between(n, e)
    BY DEF EntryOK
  <2>1. \A t, u : t \in PlainTypes /\ u \in PlainTypes => t \cup u \in PlainTypes
    BY DEF PlainTypes
  <2>2. e \notin DOMAIN Entry(r, n) => Type(Entry(r, n), e) = {}
    BY DEF Type
  <2> QED BY <1>1, <1>4, <1>5, <2>1, <2>2 DEF Learnt
<1>7. \A x \in DOMAIN q : EndNode(x) => x \in DOMAIN r /\ q[x] = r[x]
  BY <1>1, n \in Node DEF Entry
<1>8. \A x \in Node : ~EndNode(x) => EntryOK(Entry(q, x), x)
  BY <1>1, <1>6 DEF RmapOK
<1>9. DOMAIN q \subseteq Node
  BY <1>1, <1>2 DEF RmapOK
<1> QED BY <1>7, <1>8, <1>9 DEF RmapOK

LEMMA LearnStep ==
    ASSUME GraphOK, NEW r, RmapOK(r), NEW n \in Node, NEW base \in BOOLEAN,
           base \/ ~EndNode(n), NEW m \in NextTo(n), EndNode(m) => m \in DOMAIN r
    PROVE  RmapOK(Learn(r, n, m, base))
<1>1. CASE base
  BY <1>1 DEF Learn
<1>2. CASE base = FALSE
  BY <1>2, LearnEntry, LearnKeeps
<1> QED BY <1>1, <1>2

\* What Consume changes: v is s with m done.
Consumed(v, s, m) ==
    /\ v \in Seq(Frames) /\ Len(v) = Len(s)
    /\ \A k \in 1..Len(s) :
         /\ v[k].node = s[k].node /\ v[k].type = s[k].type /\ v[k].seen = s[k].seen
         /\ v[k].todo = IF k = Len(s) THEN s[k].todo \ {m} ELSE s[k].todo

LEMMA ConsumeFields ==
    ASSUME NEW s \in Seq(Frames), s # << >>, NEW m
    PROVE  Consumed([s EXCEPT ![Len(s)].todo = @ \ {m}], s, m)
<1> DEFINE z == [s EXCEPT ![Len(s)].todo = @ \ {m}]
<1>1. s \in Seq(Frames) /\ Len(s) \in Nat \ {0} /\ Len(s) \in 1..Len(s)
  OBVIOUS
<1>2. s[Len(s)] \in Frames
  BY <1>1
<1>3. [s[Len(s)] EXCEPT !.todo = @ \ {m}] \in Frames
  BY <1>2 DEF Frames
<1>4. z \in Seq(Frames) /\ Len(z) = Len(s)
  BY <1>1, <1>3
<1>5. ASSUME NEW k \in 1..Len(s)
      PROVE  /\ z[k].node = s[k].node /\ z[k].type = s[k].type
             /\ z[k].seen = s[k].seen
             /\ z[k].todo = IF k = Len(s) THEN s[k].todo \ {m} ELSE s[k].todo
  <2>1. s[k] \in Frames
    BY <1>1
  <2>2. CASE k = Len(s)
    <3> DEFINE g == [s[Len(s)] EXCEPT !.todo = @ \ {m}]
    <3>2. z = [s EXCEPT ![Len(s)] = g]
      BY <1>1
    <3> HIDE DEF g
    <3>3. z[k] = g
      BY <1>1, <2>2, <3>2
    <3>1. z[k] = [s[k] EXCEPT !.todo = @ \ {m}]
      BY <2>2, <3>3 DEF g
    <3> QED BY <2>1, <2>2, <3>1 DEF Frames
  <2>3. CASE k # Len(s)
    BY <1>1, <2>3
  <2> QED BY <2>2, <2>3
<1> QED BY <1>4, <1>5 DEF Consumed

LEMMA ConsumeStack ==
    ASSUME NEW s, StackOK(s), s # << >>, NEW m
    PROVE  StackOK([s EXCEPT ![Len(s)].todo = @ \ {m}])
<1> DEFINE z == [s EXCEPT ![Len(s)].todo = @ \ {m}]
<1>1. s \in Seq(Frames) /\ Len(s) \in Nat \ {0}
  BY DEF StackOK
<1>2. Consumed(z, s, m)
  BY <1>1, ConsumeFields
<1> HIDE DEF z
<1>4. z \in Seq(Frames) /\ Len(z) = Len(s)
  BY <1>2 DEF Consumed
<1>5. \A k \in 1..Len(s) :
        /\ z[k].node = s[k].node /\ z[k].type = s[k].type
        /\ z[k].todo = IF k = Len(s) THEN s[k].todo \ {m} ELSE s[k].todo
  BY <1>2 DEF Consumed
<1>6. ASSUME z # << >> PROVE z[1].node = start /\ z[1].type = {}
  <2>1. 1 \in 1..Len(s) /\ s[1].node = start /\ s[1].type = {}
    BY <1>1 DEF StackOK
  <2> QED BY <1>5, <2>1
<1>7. ASSUME NEW k \in 1..Len(z) PROVE z[k].todo \subseteq NextTo(z[k].node)
  BY <1>4, <1>5 DEF StackOK
<1>8. ASSUME NEW k \in 2..Len(z)
      PROVE  /\ ~EndNode(z[k].node)
             /\ z[k].node \in z[k - 1].todo
             /\ z[k].type = Join(z[k - 1].type, Weight(z[k - 1].node, z[k].node))
             /\ Walk(start, z[k].node, z[k].type)
  <2>1. k \in 2..Len(s) /\ k \in 1..Len(s) /\ k - 1 \in 1..Len(s) /\ k - 1 # Len(s)
    BY <1>1, <1>4
  <2> QED BY <1>5, <2>1 DEF StackOK
<1> QED BY <1>4, <1>6, <1>7, <1>8 DEF StackOK, z

LEMMA DeepStack ==
    ASSUME NEW s \in Seq(Frames), s # << >>, Len(s) # 1
    PROVE  LET z == SubSeq(s, 1, Len(s) - 1)
           IN  /\ Len(s) \in Nat /\ Len(s) > 1
               /\ z \in Seq(Frames) /\ z # << >> /\ Len(z) = Len(s) - 1
               /\ \A k \in 1..Len(z) : z[k] = s[k]
<1>1. Len(s) \in Nat /\ Len(s) # 0
  OBVIOUS
<1>2. Len(s) > 1
  <2>1. \A j \in Nat : j # 0 /\ j # 1 => j > 1
    OBVIOUS
  <2> QED BY <1>1, <2>1, Zenon
<1> DEFINE z == SubSeq(s, 1, Len(s) - 1)
<1>3. z \in Seq(Frames) /\ Len(z) = Len(s) - 1 /\ \A k \in 1..Len(z) : z[k] = s[k]
  BY <1>1, <1>2
<1>4. z # << >>
  <2> HIDE DEF z
  <2>1. Len(z) # 0
    BY <1>1, <1>2, <1>3
  <2> QED BY <2>1
<1> QED BY <1>1, <1>2, <1>3, <1>4

LEMMA PopStack ==
    ASSUME NEW s, StackOK(s), Len(s) > 1
    PROVE  LET z == SubSeq(s, 1, Len(s) - 1)
           IN  /\ StackOK(z) /\ z # << >> /\ Len(z) = Len(s) - 1
               /\ \A k \in 1..Len(z) : z[k] = s[k]
<1> DEFINE z == SubSeq(s, 1, Len(s) - 1)
<1>1. s \in Seq(Frames) /\ Len(s) \in Nat
  BY DEF StackOK
<1>2. z \in Seq(Frames) /\ Len(z) = Len(s) - 1 /\ \A k \in 1..Len(z) : z[k] = s[k]
  BY <1>1
<1> HIDE DEF z
<1>3. \A k \in 2..Len(z) : k \in 1..Len(z) /\ k - 1 \in 1..Len(z) /\ k \in 2..Len(s)
  BY <1>1, <1>2
<1>4. z # << >> /\ 1 \in 1..Len(z) /\ s # << >>
  BY <1>1, <1>2
<1>5. ASSUME NEW k \in 1..Len(z) PROVE z[k].todo \subseteq NextTo(z[k].node)
  <2>1. k \in 1..Len(s) /\ z[k] = s[k]
    BY <1>1, <1>2
  <2> QED BY <2>1 DEF StackOK
<1>6. ASSUME NEW k \in 2..Len(z)
      PROVE  /\ ~EndNode(z[k].node)
             /\ z[k].node \in z[k - 1].todo
             /\ z[k].type = Join(z[k - 1].type, Weight(z[k - 1].node, z[k].node))
             /\ Walk(start, z[k].node, z[k].type)
  <2>1. k \in 2..Len(s) /\ z[k] = s[k] /\ z[k - 1] = s[k - 1]
    BY <1>2, <1>3
  <2> QED BY <2>1 DEF StackOK
<1>7. z[1].node = start /\ z[1].type = {}
  <2>1. z[1] = s[1]
    BY <1>2, <1>4
  <2> QED BY <1>4, <2>1 DEF StackOK
<1>8. StackOK(z)
  BY <1>2, <1>5, <1>6, <1>7 DEF StackOK
<1> QED BY <1>2, <1>4, <1>8 DEF z

LEMMA PushStack ==
    ASSUME NEW s, StackOK(s), s # << >>, NEW f \in Frames,
           f.todo \subseteq NextTo(f.node), ~EndNode(f.node), f.node \in s[Len(s)].todo,
           f.type = Join(s[Len(s)].type, Weight(s[Len(s)].node, f.node)),
           Walk(start, f.node, f.type)
    PROVE  StackOK(Append(s, f))
<1> DEFINE z == Append(s, f)
<1>1. s \in Seq(Frames) /\ Len(s) \in Nat \ {0}
  BY DEF StackOK
<1>2. z \in Seq(Frames) /\ Len(z) = Len(s) + 1 /\ z[Len(s) + 1] = f
      /\ \A k \in 1..Len(s) : z[k] = s[k]
  BY <1>1
<1> HIDE DEF z
<1>3. z[1] = s[1]
  BY <1>1, <1>2
<1>4. ASSUME NEW k \in 1..Len(z) PROVE z[k].todo \subseteq NextTo(z[k].node)
  <2>1. CASE k = Len(s) + 1
    BY <1>2, <2>1
  <2>2. CASE k # Len(s) + 1
    BY <1>1, <1>2, <2>2 DEF StackOK
  <2> QED BY <2>1, <2>2
<1>5. ASSUME NEW k \in 2..Len(z)
      PROVE  /\ ~EndNode(z[k].node)
             /\ z[k].node \in z[k - 1].todo
             /\ z[k].type = Join(z[k - 1].type, Weight(z[k - 1].node, z[k].node))
             /\ Walk(start, z[k].node, z[k].type)
  <2>1. CASE k = Len(s) + 1
    <3>1. z[k] = f /\ z[k - 1] = s[Len(s)]
      BY <1>1, <1>2, <2>1
    <3> QED BY <3>1
  <2>2. CASE k # Len(s) + 1
    <3>1. k \in 2..Len(s) /\ z[k] = s[k] /\ z[k - 1] = s[k - 1]
      BY <1>1, <1>2, <2>2
    <3> QED BY <3>1 DEF StackOK
  <2> QED BY <2>1, <2>2
<1>6. s[1].node = start /\ s[1].type = {}
  BY DEF StackOK
<1> QED BY <1>2, <1>3, <1>4, <1>5, <1>6 DEF StackOK, z

\* The way handed to the next call is one from the start.
LEMMA TopWalk ==
    ASSUME GraphOK, StackOK(stack), ~Done
    PROVE  /\ Len(stack) \in Nat \ {0} /\ Top \in Frames
           /\ InBase \/ ~EndNode(Top.node)
           /\ InBase => Top.node = start /\ Top.type = {}
           /\ \A m \in Top.todo :
                /\ m \in Node /\ m \in NextTo(Top.node) /\ PathType1(m) \in PlainTypes
                /\ Walk(start, m, PathType1(m)) /\ PathType1(m) \subseteq Between(start, m)
<1>1. Len(stack) \in Nat \ {0} /\ stack \in Seq(Frames) /\ Len(stack) \in 1..Len(stack)
  BY DEF StackOK, Done
<1>2. Top \in Frames /\ Top.node \in Node /\ Top.todo \subseteq NextTo(Top.node)
  <2>1. stack[Len(stack)] \in Frames
    BY <1>1
  <2>2. \A f \in Frames : f.node \in Node
    BY DEF Frames
  <2> QED BY <1>1, <2>1, <2>2 DEF Top, StackOK
<1>3. InBase => Top.node = start /\ Top.type = {}
  BY <1>1 DEF Top, StackOK, InBase
<1>4. ~InBase => ~EndNode(Top.node) /\ Walk(start, Top.node, Top.type)
  <2>1. ~InBase => Len(stack) \in 2..Len(stack)
    BY <1>1 DEF InBase
  <2> QED BY <2>1 DEF StackOK, Top
<1>5. ASSUME NEW m \in Top.todo
      PROVE  /\ m \in Node /\ m \in NextTo(Top.node)
             /\ Walk(start, m, PathType1(m))
  <2>1. m \in NextTo(Top.node)
    BY <1>2
  <2>2. m \in Node /\ Weight(Top.node, m) \in PlainTypes
        /\ Walk(Top.node, m, Weight(Top.node, m))
    BY <1>2, <2>1, WeightTyped
  <2>3. CASE InBase
    BY <1>3, <2>1, <2>2, <2>3, JoinNeutral DEF PathType1
  <2>4. CASE ~InBase
    BY <1>4, <2>1, <2>2, <2>4, WalkJoin DEF PathType1, EndNode
  <2> QED BY <2>3, <2>4
<1> QED BY <1>1, <1>2, <1>3, <1>4, <1>5, WalkTyped, BetweenTyped

LEMMA SInvInit == Init => SInv
<1> SUFFICES ASSUME Init PROVE SInv
  OBVIOUS
<1> DEFINE f == Frame(start, {}, {}, NextTo(start))
<1>1. GraphOK
  BY PathAssumption DEF Init, GraphOK, Ways
<1>2. start \in Node
  BY PathAssumption DEF Init
<1>3. f \in Frames /\ f.node = start /\ f.type = {} /\ f.todo = NextTo(start)
  BY <1>2 DEF Frame, Frames, Ways, NextTo
<1> HIDE DEF f
<1>4. stack = <<f>>
  BY DEF Init, f
<1>5. stack \in Seq(Frames) /\ Len(stack) = 1 /\ stack[1] = f
  BY <1>3, <1>4
<1>6. StackOK(stack)
  BY <1>3, <1>5 DEF StackOK
<1>7. DOMAIN NoMap = {} /\ \A n : Entry(NoMap, n) = NoMap
  BY DEF NoMap, Entry
<1>8. EntryOK(pmap, start) /\ RmapOK(rmap)
  BY <1>7 DEF Init, EntryOK, RmapOK
<1> QED BY <1>1, <1>6, <1>8 DEF SInv

\* What each step keeps.
SKept == StackOK(stack') /\ EntryOK(pmap', start) /\ RmapOK(rmap')

\* The entries when the end m has been met.
Known(m) == [x \in DOMAIN rmap \cup {m} |->
                IF x \in DOMAIN rmap THEN rmap[x] ELSE [e \in {m} |-> {}]]

LEMMA KnownOK ==
    ASSUME RmapOK(rmap), NEW m \in Node, EndNode(m)
    PROVE  /\ RmapOK(Known(m)) /\ DOMAIN Known(m) = DOMAIN rmap \cup {m}
           /\ m \in DOMAIN Known(m)
           /\ \A n : n # m \/ m \in DOMAIN rmap => Entry(Known(m), n) = Entry(rmap, n)
<1> DEFINE known == Known(m)
<1>1. DOMAIN known = DOMAIN rmap \cup {m}
  BY DEF Known
<1>2. \A n \in DOMAIN known : EndNode(n) => DOMAIN known[n] = {n} /\ known[n][n] = {}
  BY DEF RmapOK, Known
<1>3. \A n : n # m \/ m \in DOMAIN rmap => Entry(known, n) = Entry(rmap, n)
  BY DEF Entry, Known
<1> HIDE DEF known
<1>4. RmapOK(known)
  BY <1>1, <1>2, <1>3 DEF RmapOK
<1> QED BY <1>1, <1>3, <1>4 DEF known

LEMMA EndKeeps ==
    ASSUME SInv, ~Done, NEW m \in Top.todo, End(m)
    PROVE  SKept
<1>1. GraphOK /\ StackOK(stack) /\ EntryOK(pmap, start) /\ RmapOK(rmap)
  BY DEF SInv
<1>2. EndNode(m) /\ stack # << >>
  BY DEF End, Done
<1>3. m \in Node /\ m \in NextTo(Top.node) /\ PathType1(m) \in PlainTypes
      /\ PathType1(m) \subseteq Between(start, m)
      /\ Top.node \in Node /\ (InBase \/ ~EndNode(Top.node))
  BY <1>1, TopWalk DEF Frames
<1>4. StackOK(stack')
  BY <1>1, <1>2, ConsumeStack DEF End, Consume
<1>5. EntryOK(pmap', start)
  <2> SUFFICES ASSUME NEW e \in DOMAIN pmap'
               PROVE  EndNode(e) /\ pmap'[e] \in PlainTypes /\ pmap'[e] \subseteq Between(start, e)
    BY DEF EntryOK
  <2>1. e \in DOMAIN pmap \cup {m}
        /\ pmap'[e] = Type(pmap, e) \cup (IF e = m THEN PathType1(m) ELSE {})
    BY DEF End
  <2>2. e \in DOMAIN pmap => EndNode(e) /\ pmap[e] \in PlainTypes
                             /\ pmap[e] \subseteq Between(start, e)
    BY <1>1 DEF EntryOK
  <2>3. \A t, u : t \in PlainTypes /\ u \in PlainTypes => t \cup u \in PlainTypes
    BY DEF PlainTypes
  <2> QED BY <1>2, <1>3, <2>1, <2>2, <2>3 DEF Type
<1>6. RmapOK(Known(m)) /\ m \in DOMAIN Known(m)
  BY <1>1, <1>2, <1>3, KnownOK
<1>7. rmap' = Learn(Known(m), Top.node, m, InBase)
  BY DEF End, Known
<1>8. RmapOK(rmap')
  BY <1>1, <1>3, <1>6, <1>7, LearnStep DEF InBase
<1> QED BY <1>4, <1>5, <1>8 DEF SKept

LEMMA LoopKeeps ==
    ASSUME SInv, ~Done, NEW m \in Top.todo, Loop(m)
    PROVE  SKept
<1>1. GraphOK /\ StackOK(stack) /\ EntryOK(pmap, start) /\ RmapOK(rmap)
  BY DEF SInv
<1>2. m \in NextTo(Top.node) /\ Top.node \in Node /\ (InBase \/ ~EndNode(Top.node))
  BY <1>1, TopWalk DEF Frames
<1>3. StackOK(stack')
  BY <1>1, ConsumeStack DEF Loop, Consume, Done
<1>4. RmapOK(rmap')
  <2>1. CASE forward
    <3>1. ~EndNode(m) /\ rmap' = Learn(rmap, Top.node, m, InBase)
      BY <2>1 DEF Loop
    <3> QED BY <1>1, <1>2, <3>1, LearnStep DEF InBase
  <2>2. CASE ~forward
    BY <1>1, <2>2 DEF Loop
  <2> QED BY <2>1, <2>2
<1> QED BY <1>1, <1>3, <1>4 DEF SKept, Loop

LEMMA ReplayKeeps ==
    ASSUME SInv, ~Done, NEW m \in Top.todo, Replay(m)
    PROVE  SKept
<1>1. GraphOK /\ StackOK(stack) /\ EntryOK(pmap, start) /\ RmapOK(rmap)
  BY DEF SInv
<1>2. m \in Node /\ m \in NextTo(Top.node) /\ PathType1(m) \in PlainTypes
      /\ PathType1(m) \subseteq Between(start, m)
      /\ Top.node \in Node /\ (InBase \/ ~EndNode(Top.node))
  BY <1>1, TopWalk DEF Frames
<1>3. StackOK(stack')
  BY <1>1, ConsumeStack DEF Replay, Consume, Done
<1>4. ~EndNode(m) /\ m \notin Reg /\ m \in DOMAIN rmap
  BY DEF Replay, EndNode
<1>5. RmapOK(rmap')
  BY <1>1, <1>2, <1>4, LearnStep DEF InBase, Replay
<1>6. EntryOK(pmap', start)
  <2> SUFFICES ASSUME NEW e \in DOMAIN pmap'
               PROVE  EndNode(e) /\ pmap'[e] \in PlainTypes /\ pmap'[e] \subseteq Between(start, e)
    BY DEF EntryOK
  <2> DEFINE via == IF e \in DOMAIN rmap[m] THEN Join(PathType1(m), rmap[m][e]) ELSE {}
  <2>1. e \in DOMAIN pmap \cup DOMAIN rmap[m] /\ pmap'[e] = Type(pmap, e) \cup via
    BY DEF Replay
  <2>2. e \in DOMAIN pmap => EndNode(e) /\ pmap[e] \in PlainTypes
                             /\ pmap[e] \subseteq Between(start, e)
    BY <1>1 DEF EntryOK
  <2>3. EntryOK(rmap[m], m)
    BY <1>1, <1>2, <1>4 DEF RmapOK, Entry
  <2>4. e \in DOMAIN rmap[m] => EndNode(e) /\ via \in PlainTypes /\ via \subseteq Between(start, e)
    BY <1>1, <1>2, <1>4, <2>3, BetweenJoin DEF EntryOK
  <2>5. e \notin DOMAIN rmap[m] => via = {}
    OBVIOUS
  <2>6. \A t, u : t \in PlainTypes /\ u \in PlainTypes => t \cup u \in PlainTypes
    BY DEF PlainTypes
  <2> HIDE DEF via
  <2> QED BY <2>1, <2>2, <2>4, <2>5, <2>6 DEF Type
<1> QED BY <1>3, <1>5, <1>6 DEF SKept

LEMMA ExpandKeeps ==
    ASSUME SInv, ~Done, NEW m \in Top.todo, Expand(m)
    PROVE  SKept
<1> DEFINE f == Frame(m, PathType1(m), Seen(m), NextTo(m))
<1>1. GraphOK /\ StackOK(stack) /\ EntryOK(pmap, start) /\ RmapOK(rmap)
  BY DEF SInv
<1>2. m \in Node /\ PathType1(m) \in PlainTypes /\ Walk(start, m, PathType1(m))
      /\ Top \in Frames
  BY <1>1, TopWalk
<1>3. Seen(m) \subseteq Node
  BY <1>2 DEF Seen, Frames
<1>4. f \in Frames /\ f.node = m /\ f.type = PathType1(m) /\ f.todo = NextTo(m)
  BY <1>2, <1>3 DEF Frame, Frames, Ways, NextTo
<1> HIDE DEF f
<1>5. stack' = Append(stack, f) /\ ~EndNode(m)
  BY DEF Expand, f
<1>6. f.type = Join(stack[Len(stack)].type, Weight(stack[Len(stack)].node, m))
      /\ m \in stack[Len(stack)].todo
  BY <1>4 DEF PathType1, Top
<1>7. StackOK(stack')
  BY <1>1, <1>2, <1>4, <1>5, <1>6, PushStack DEF Done
<1> QED BY <1>1, <1>7 DEF SKept, Expand

LEMMA ReturnKeeps ==
    ASSUME SInv, ~Done, Return
    PROVE  SKept
<1>1. GraphOK /\ StackOK(stack) /\ EntryOK(pmap, start) /\ RmapOK(rmap)
  BY DEF SInv
<1>2. CASE InBase
  <2>1. stack' = << >> /\ rmap' = rmap /\ pmap' = pmap
    BY <1>2 DEF Return
  <2>2. StackOK(<< >>)
    BY DEF StackOK
  <2> QED BY <1>1, <2>1, <2>2 DEF SKept
<1>3. CASE ~InBase
  <2> DEFINE n == Len(stack)
             z == SubSeq(stack, 1, n - 1)
  <2>1. n \in Nat /\ n > 1
    <3>1. stack \in Seq(Frames) /\ stack # << >> /\ Len(stack) # 1
      BY <1>1, <1>3 DEF InBase, StackOK, Done
    <3> QED BY <3>1, DeepStack
  <2>2. stack' = [z EXCEPT ![n - 1].todo = @ \ {Top.node}] /\ pmap' = pmap
        /\ rmap' = Learn(rmap, stack[n - 1].node, Top.node, n = 2)
    BY <1>3 DEF Return
  <2>3. StackOK(z) /\ z # << >> /\ Len(z) = n - 1
    BY <1>1, <2>1, PopStack
  <2>4. StackOK(stack')
    <3> HIDE DEF z
    <3> QED BY <2>2, <2>3, ConsumeStack
  <2>5. n \in 2..n /\ n - 1 \in 1..n /\ (n # 2 => n - 1 \in 2..n)
    <3> HIDE DEF n
    <3> QED BY <2>1
  <2>6. ~EndNode(Top.node) /\ Top.node \in NextTo(stack[n - 1].node)
        /\ (n # 2 => ~EndNode(stack[n - 1].node))
    BY <1>1, <2>5 DEF StackOK, Top
  <2>7. stack[n - 1].node \in Node
    <3>1. stack[n - 1] \in Frames
      BY <1>1, <2>5 DEF StackOK
    <3> QED BY <3>1 DEF Frames
  <2>8. RmapOK(rmap')
    <3> HIDE DEF n
    <3> QED BY <1>1, <2>2, <2>6, <2>7, LearnStep
  <2> QED BY <1>1, <2>2, <2>4, <2>8 DEF SKept
<1> QED BY <1>2, <1>3

LEMMA SInvStep == SInv /\ [Next]_vars => SInv'
<1> SUFFICES ASSUME SInv, [Next]_vars PROVE SInv'
  OBVIOUS
<1>1. CASE UNCHANGED vars
  <2>1. Frozen /\ SKept
    BY <1>1 DEF vars, Frozen, SKept, SInv
  <2> QED BY <2>1, FrozenSInv DEF SInv, SKept
<1>2. CASE Next
  <2>1. Frozen /\ ~Done
    BY <1>2 DEF Next, Frozen
  <2>2. SKept
    <3>1. CASE Return
      BY <2>1, <3>1, ReturnKeeps
    <3>2. ASSUME NEW m \in Top.todo, End(m) \/ Loop(m) \/ Replay(m) \/ Expand(m)
          PROVE  SKept
      BY <2>1, <3>2, EndKeeps, LoopKeeps, ReplayKeeps, ExpandKeeps
    <3> QED BY <1>2, <3>1, <3>2 DEF Next
  <2> QED BY <2>1, <2>2, FrozenSInv DEF SInv, SKept
<1> QED BY <1>1, <1>2

LEMMA SInvHolds == Spec => []SInv
BY SInvInit, SInvStep, PTL DEF Spec

\* Sound of PathSearch.tla: whatever path_search_base_fast reports, in any
\* order of the neighbours, in graphs with and without loops, each bit of the
\* type of a path is that of a walk that leads there.
THEOREM SoundHolds == Spec => []Sound
<1>1. SInv => Sound
  BY DEF SInv, EntryOK, Sound
<1> QED BY <1>1, SInvHolds, PTL

-----------------------------------------------------------------------------
(***************************************************************************)
(* NoReentry.                                                              *)
(***************************************************************************)

\* node_set holds the calls under way, but backwards not the base call, and
\* each node in it leads to the node of its call.
CallsOK(s) ==
    \A l \in 1..Len(s) :
       /\ l = 1 => s[l].seen = {}
       /\ \A x \in s[l].seen :
            /\ x = s[l].node \/ \E t : Walk(x, s[l].node, t)
            /\ ~forward => x \notin Reg
       /\ \A k \in 1..Len(s) :
            /\ k < l /\ s[k].node = s[l].node => ~forward /\ k = 1
            /\ k < l /\ forward => s[k].node \in s[l].seen
            /\ 1 < k /\ k <= l /\ ~forward => s[k].node \in s[l].seen

LEMMA SameCalls ==
    ASSUME NEW s \in Seq(Frames), CallsOK(s), NEW z \in Seq(Frames), Len(z) <= Len(s),
           \A k \in 1..Len(z) : z[k].node = s[k].node /\ z[k].seen = s[k].seen
    PROVE  CallsOK(z)
<1>1. \A k \in 1..Len(z) : k \in 1..Len(s)
  OBVIOUS
<1> QED BY <1>1 DEF CallsOK

LEMMA ConsumeCalls ==
    ASSUME NEW s \in Seq(Frames), s # << >>, CallsOK(s), NEW m
    PROVE  CallsOK([s EXCEPT ![Len(s)].todo = @ \ {m}])
<1> DEFINE z == [s EXCEPT ![Len(s)].todo = @ \ {m}]
<1>0. Len(s) \in Nat
  OBVIOUS
<1>1. Consumed(z, s, m)
  BY ConsumeFields
<1> HIDE DEF z
<1>2. z \in Seq(Frames) /\ Len(z) = Len(s)
      /\ \A k \in 1..Len(s) : z[k].node = s[k].node /\ z[k].seen = s[k].seen
  BY <1>1 DEF Consumed
<1>3. CallsOK(z)
  <2>1. Len(z) <= Len(s)
    BY <1>0, <1>2
  <2>2. \A k \in 1..Len(z) : z[k].node = s[k].node /\ z[k].seen = s[k].seen
    BY <1>2
  <2> QED BY <1>2, <2>1, <2>2, SameCalls
<1> QED BY <1>3 DEF z

LEMMA ExpandCalls ==
    ASSUME SInv, CallsOK(stack), ~Done, NEW m \in Top.todo, Expand(m)
    PROVE  CallsOK(stack')
<1> DEFINE f == Frame(m, PathType1(m), Seen(m), NextTo(m))
           n == Len(stack)
<1>1. GraphOK /\ stack \in Seq(Frames) /\ n \in Nat \ {0} /\ n \in 1..n
  BY TopWalk DEF SInv, StackOK
<1>2. m \in NextTo(Top.node) /\ Top.node \in Node /\ (n = 1 \/ Top.node \notin Reg)
      /\ m \notin Reg
  BY TopWalk DEF SInv, Frames, EndNode, InBase, Expand
<1>3. Walk(Top.node, m, Weight(Top.node, m))
  BY <1>1, <1>2, WeightTyped
<1>4. f.node = m /\ f.seen = Seen(m)
  BY DEF Frame
<1> HIDE DEF f
<1>5. stack' = Append(stack, f)
  BY DEF Expand, f
<1>6. Len(stack') = n + 1 /\ stack'[n + 1] = f /\ \A k \in 1..n : stack'[k] = stack[k]
  BY <1>1, <1>5
<1>7. ASSUME NEW x \in Seen(m)
      PROVE  (x = m \/ \E t : Walk(x, m, t)) /\ (~forward => x \notin Reg)
  <2>1. CASE x \in Top.seen
    <3>1. Top = stack[n] /\ n # 1
      BY <1>1, <2>1 DEF Top, CallsOK
    <3>2. (x = Top.node \/ \E t : Walk(x, Top.node, t)) /\ (~forward => x \notin Reg)
      BY <1>1, <2>1, <3>1 DEF CallsOK
    <3>3. Top.node \notin Reg
      BY <1>2, <3>1
    <3>4. \A t : Walk(x, Top.node, t) => Walk(x, m, Join(t, Weight(Top.node, m)))
      BY <1>1, <1>3, <3>3, WalkJoin
    <3> QED BY <1>3, <3>2, <3>4
  <2>2. CASE x \notin Top.seen
    BY <1>2, <1>3, <1>7, <2>2 DEF Seen
  <2> QED BY <2>1, <2>2
<1>8. m \notin Top.seen /\ (forward => m # Top.node)
  BY DEF Expand, OnPath, Seen
<1>9. ASSUME NEW k \in 1..n
      PROVE  /\ stack[k].node = m => ~forward /\ k = 1
             /\ forward \/ 1 < k => stack[k].node \in Seen(m)
  <2>1. Top = stack[n] /\ k <= n /\ (k # 1 => 1 < k) /\ (k # n => k < n)
    BY <1>1 DEF Top
  <2> HIDE DEF n
  <2>2. k = n => stack[k].node = Top.node
    BY <2>1
  <2>3. k < n /\ forward => stack[k].node \in Top.seen
    BY <1>1, <2>1 DEF CallsOK, n
  <2>4. 1 < k /\ ~forward => stack[k].node \in Top.seen
    BY <1>1, <2>1 DEF CallsOK, n
  <2>5. forward => Seen(m) = Top.seen \cup {Top.node}
    BY DEF Seen
  <2>6. ~forward => Seen(m) = Top.seen \cup {m}
    BY DEF Seen
  <2> QED BY <1>8, <2>1, <2>2, <2>3, <2>4, <2>5, <2>6
<1> SUFFICES ASSUME NEW l \in 1..n + 1
             PROVE
       /\ l = 1 => stack'[l].seen = {}
       /\ \A x \in stack'[l].seen :
            /\ x = stack'[l].node \/ \E t : Walk(x, stack'[l].node, t)
            /\ ~forward => x \notin Reg
       /\ \A k \in 1..n + 1 :
            /\ k < l /\ stack'[k].node = stack'[l].node => ~forward /\ k = 1
            /\ k < l /\ forward => stack'[k].node \in stack'[l].seen
            /\ 1 < k /\ k <= l /\ ~forward => stack'[k].node \in stack'[l].seen
  BY <1>6 DEF CallsOK
<1>10. CASE l = n + 1
  <2>1. stack'[l] = f /\ l # 1
    BY <1>1, <1>6, <1>10
  <2>2. \A k \in 1..n + 1 : k < l => k \in 1..n /\ stack'[k] = stack[k]
    BY <1>1, <1>6, <1>10
  <2>3. \A k \in 1..n + 1 : k < l \/ k = l
    BY <1>1, <1>10
  <2>4. ~forward => m \in Seen(m)
    BY DEF Seen
  <2> HIDE DEF n
  <2> QED BY <1>4, <1>7, <1>9, <2>1, <2>2, <2>3, <2>4
<1>11. CASE l # n + 1
  <2>1. l \in 1..n /\ stack'[l] = stack[l]
    BY <1>1, <1>6, <1>11
  <2>2. \A k \in 1..n + 1 : k <= l => k \in 1..n /\ stack'[k] = stack[k]
    BY <1>1, <1>6, <2>1
  <2>3. \A k \in 1..n + 1 : k < l => k <= l
    BY <1>1
  <2> QED BY <2>1, <2>2, <2>3 DEF CallsOK
<1> QED BY <1>10, <1>11

NInv == SInv /\ CallsOK(stack)

LEMMA CallsStep ==
    ASSUME NInv, Next
    PROVE  CallsOK(stack')
<1>1. SInv /\ CallsOK(stack) /\ ~Done /\ stack \in Seq(Frames) /\ stack # << >>
  BY DEF NInv, SInv, StackOK, Next, Done
<1>2. CASE Return
  <2>1. CASE InBase
    <3>1. stack' = << >>
      BY <1>2, <2>1 DEF Return
    <3> QED BY <3>1 DEF CallsOK
  <2>2. CASE ~InBase
    <3> DEFINE z == SubSeq(stack, 1, Len(stack) - 1)
    <3>1. Len(stack) # 1
      BY <2>2 DEF InBase
    <3>2. stack' = [z EXCEPT ![Len(stack) - 1].todo = @ \ {Top.node}]
      BY <1>2, <2>2 DEF Return
    <3>3. /\ Len(stack) \in Nat /\ Len(stack) > 1
          /\ z \in Seq(Frames) /\ z # << >> /\ Len(z) = Len(stack) - 1
          /\ \A k \in 1..Len(z) : z[k] = stack[k]
      BY <1>1, <3>1, DeepStack
    <3> HIDE DEF z
    <3>4. Len(z) <= Len(stack)
      BY <3>3
    <3>5. CallsOK(z)
      BY <1>1, <3>3, <3>4, SameCalls
    <3> QED BY <3>2, <3>3, <3>5, ConsumeCalls
  <2> QED BY <2>1, <2>2
<1>3. ASSUME NEW m \in Top.todo, Expand(m)
      PROVE  CallsOK(stack')
  BY <1>1, <1>3, ExpandCalls
<1>4. ASSUME NEW m \in Top.todo, Consume(m)
      PROVE  CallsOK(stack')
  BY <1>1, <1>4, ConsumeCalls DEF Consume
<1> QED BY <1>2, <1>3, <1>4 DEF Next, End, Loop, Replay

LEMMA NInvInit == Init => NInv
<1> SUFFICES ASSUME Init PROVE CallsOK(stack)
  BY SInvInit DEF NInv
<1> DEFINE f == Frame(start, {}, {}, NextTo(start))
<1>1. f.seen = {}
  BY DEF Frame
<1> HIDE DEF f
<1>2. stack = <<f>>
  BY DEF Init, f
<1>3. Len(stack) = 1 /\ stack[1] = f
  BY <1>2
<1>4. \A k \in 1..1 : k = 1
  OBVIOUS
<1> QED BY <1>1, <1>3, <1>4 DEF CallsOK

LEMMA NInvStep == NInv /\ [Next]_vars => NInv'
<1> SUFFICES ASSUME NInv, [Next]_vars PROVE NInv'
  OBVIOUS
<1>1. SInv'
  BY SInvStep DEF NInv
<1>2. Frozen /\ CallsOK(stack')
  BY CallsStep DEF Frozen, Next, vars, NInv
<1>3. CallsOK(stack)'
  BY <1>2 DEF CallsOK, Frozen, Walk
<1> QED BY <1>1, <1>3 DEF NInv

LEMMA NInvHolds == Spec => []NInv
BY NInvInit, NInvStep, PTL DEF Spec

\* NoReentry of PathSearch.tla: node_set keeps path_update_fast from being
\* called for a node that has a call under way, so its depth is bounded by the
\* number of nodes; backwards the start may be entered once more.
THEOREM NoReentryHolds == Spec => []NoReentry
<1>1. NInv => NoReentry
  BY DEF NInv, CallsOK, NoReentry
<1> QED BY <1>1, NInvHolds, PTL

-----------------------------------------------------------------------------
(***************************************************************************)
(* Complete and MemoExact.                                                 *)
(***************************************************************************)

LEMMA JoinGrows ==
    ASSUME NEW a \in PlainTypes, NEW b \in PlainTypes, NEW c \in PlainTypes, b \subseteq c
    PROVE  Join(a, b) \subseteq Join(a, c)
<1>1. ASSUME NEW x \in Join(a, b)
      PROVE  x \in Join(a, c)
  <2>1. PICK p \in a, q \in b :
          \A g \in PlainTypes, h \in PlainTypes : p \in g /\ q \in h => x \in Join(g, h)
    BY JoinBits
  <2> QED BY <2>1
<1> QED BY <1>1

\* f holds what the ways of type t to m, and on from m, add up to.
Reaches(f, t, m) ==
    IF EndNode(m) THEN t \subseteq Type(f, m)
    ELSE \A e : EndNode(e) /\ Between(m, e) # {}
                  => Join(t, Between(m, e)) \subseteq Type(f, e)

\* The same for ways of type t to n, and on through each of D.
Covers(f, t, n, D) == \A m \in D : Reaches(f, Join(t, Weight(n, m)), m)

Knows(f, n) == \A e : EndNode(e) => Between(n, e) \subseteq Type(f, e)

Grows(f, g) == \A e : Type(f, e) \subseteq Type(g, e)

LEMMA CoversGrow ==
    ASSUME NEW f, NEW g, Grows(f, g)
    PROVE  /\ \A t, n, D : Covers(f, t, n, D) => Covers(g, t, n, D)
           /\ \A n : Knows(f, n) => Knows(g, n)
BY DEF Grows, Covers, Reaches, Knows

\* What covers all neighbours of a node covers every walk from it.
LEMMA CoverAll ==
    ASSUME GraphOK, NEW n \in Node, NEW t \in Ways, NEW f, Covers(f, t, n, NextTo(n))
    PROVE  /\ \A e : EndNode(e) /\ Between(n, e) # {}
                        => Join(t, Between(n, e)) \subseteq Type(f, e)
           /\ t = {} => Knows(f, n)
<1>1. ASSUME NEW e, EndNode(e), NEW u, Walk(n, e, u)
      PROVE  Join(t, u) \subseteq Type(f, e)
  <2>0. u \in PlainTypes
    BY <1>1, WalkTyped
  <2>1. CASE e \in NextTo(n) /\ u = Weight(n, e)
    BY <1>1, <2>1 DEF Covers, Reaches
  <2>2. ASSUME NEW m \in NextTo(n) \ Reg, NEW v, Walk(m, e, v), u = Join(Weight(n, m), v)
        PROVE  Join(t, u) \subseteq Type(f, e)
    <3>1. v \in PlainTypes /\ m \in Node /\ Weight(n, m) \in PlainTypes
      BY <2>2, WalkTyped, WeightTyped
    <3>2. ~EndNode(m)
      BY <2>2, WalkFirst DEF EndNode
    <3>3. Between(m, e) \in PlainTypes /\ v \subseteq Between(m, e) /\ Between(m, e) # {}
      BY <2>2, BetweenTyped
    <3> DEFINE tw == Join(t, Weight(n, m))
    <3>4. tw \in PlainTypes
      BY <3>1, JoinClosed
    <3>5. Join(tw, Between(m, e)) \subseteq Type(f, e)
      BY <1>1, <2>2, <3>2, <3>3 DEF Covers, Reaches
    <3>6. Join(tw, v) \subseteq Join(tw, Between(m, e))
      <4> HIDE DEF tw
      <4> QED BY <3>1, <3>3, <3>4, JoinGrows
    <3>7. Join(t, u) = Join(tw, v)
      BY <2>2, <3>1, JoinAssociative
    <3> QED BY <3>5, <3>6, <3>7
  <2> QED BY <1>1, <2>1, <2>2, WalkFirst
<1>2. ASSUME NEW e, EndNode(e), Between(n, e) # {}, NEW x \in Join(t, Between(n, e))
      PROVE  x \in Type(f, e)
  <2>1. Between(n, e) \in PlainTypes
    BY <1>2, BetweenTyped
  <2>2. CASE t = {}
    <3>1. x \in Between(n, e)
      BY <1>2, <2>1, <2>2, JoinNeutral
    <3>2. PICK u : Walk(n, e, u) /\ x \in u
      BY <3>1, BetweenBits
    <3>3. Join(t, u) = u
      BY <2>2, <3>2, JoinNeutral, WalkTyped
    <3> QED BY <1>1, <1>2, <3>2, <3>3
  <2>3. CASE t \in PlainTypes
    <3>1. PICK p \in t, q \in Between(n, e) :
            \A g \in PlainTypes, h \in PlainTypes : p \in g /\ q \in h => x \in Join(g, h)
      BY <1>2, <2>1, <2>3, JoinBits
    <3>2. PICK u : Walk(n, e, u) /\ q \in u
      BY BetweenBits
    <3>3. x \in Join(t, u)
      BY <2>3, <3>1, <3>2, WalkTyped
    <3> QED BY <1>1, <1>2, <3>2, <3>3
  <2> QED BY <2>2, <2>3 DEF Ways
<1>3. ASSUME t = {}, NEW e, EndNode(e)
      PROVE  Between(n, e) \subseteq Type(f, e)
  <2>1. Between(n, e) # {} => Join(t, Between(n, e)) = Between(n, e)
    BY <1>3, BetweenTyped, JoinNeutral
  <2> QED BY <1>2, <1>3, <2>1
<1> QED BY <1>2, <1>3 DEF Knows

LEMMA LearnGrows ==
    ASSUME NEW r, NEW n, NEW m, NEW base \in BOOLEAN
    PROVE  LET q == Learn(r, n, m, base)
           IN  /\ \A x : Grows(Entry(r, x), Entry(q, x))
               /\ DOMAIN q \subseteq DOMAIN r \cup {m} \cup (IF base THEN {} ELSE {n})
               /\ ~base => \A e \in DOMAIN Entry(r, m) :
                     Join(Weight(n, m), Entry(r, m)[e]) \subseteq Type(Entry(q, n), e)
<1> DEFINE q == Learn(r, n, m, base)
<1>1. CASE base
  <2>1. q = r
    BY <1>1 DEF Learn
  <2> HIDE DEF q
  <2>2. \A x : Grows(Entry(r, x), Entry(q, x))
    BY <2>1 DEF Grows
  <2> QED BY <1>1, <2>1, <2>2 DEF q
<1>2. CASE base = FALSE
  <2>1. IsLearnt(q, r, n, m)
    BY <1>2, LearnEntry
  <2> HIDE DEF q
  <2>2. Grows(Entry(r, n), Entry(q, n))
    <3>1. \A e \in DOMAIN Entry(r, n) :
            e \in DOMAIN Entry(q, n) /\ Type(Entry(r, n), e) \subseteq Entry(q, n)[e]
      BY <2>1 DEF IsLearnt, Learnt
    <3>2. \A e : e \notin DOMAIN Entry(r, n) => Type(Entry(r, n), e) = {}
      BY DEF Type
    <3>3. \A e \in DOMAIN Entry(q, n) : Type(Entry(q, n), e) = Entry(q, n)[e]
      BY DEF Type
    <3> QED BY <3>1, <3>2, <3>3 DEF Grows
  <2>3. \A x : x # n => Grows(Entry(r, x), Entry(q, x))
    BY <2>1 DEF IsLearnt, Grows
  <2>4. \A e \in DOMAIN Entry(r, m) :
          Join(Weight(n, m), Entry(r, m)[e]) \subseteq Type(Entry(q, n), e)
    <3> SUFFICES ASSUME NEW e \in DOMAIN Entry(r, m)
                 PROVE  Join(Weight(n, m), Entry(r, m)[e]) \subseteq Type(Entry(q, n), e)
      OBVIOUS
    <3>1. e \in DOMAIN Entry(q, n) /\ Entry(q, n)[e] = Learnt(r, n, m, e)
      BY <2>1 DEF IsLearnt
    <3> QED BY <3>1 DEF Learnt, Type
  <2>5. DOMAIN q \subseteq DOMAIN r \cup {n, m}
    BY <2>1 DEF IsLearnt
  <2>6. \A x : Grows(Entry(r, x), Entry(q, x))
    BY <2>2, <2>3
  <2> QED BY <1>2, <2>4, <2>5, <2>6 DEF q
<1> QED BY <1>1, <1>2

\* What the caller learns of a neighbour that is an end, or known.
LEMMA LearnReaches ==
    ASSUME GraphOK, NEW n \in Node, NEW m \in NextTo(n), NEW r, RmapOK(r),
           IF EndNode(m) THEN m \in DOMAIN r ELSE Knows(Entry(r, m), m)
    PROVE  Reaches(Entry(Learn(r, n, m, FALSE), n), Join({}, Weight(n, m)), m)
<1> DEFINE f == Entry(Learn(r, n, m, FALSE), n)
<1>1. \A e \in DOMAIN Entry(r, m) :
        Join(Weight(n, m), Entry(r, m)[e]) \subseteq Type(f, e)
  BY LearnGrows
<1>2. m \in Node /\ Weight(n, m) \in PlainTypes
  BY WeightTyped
<1>3. Join({}, Weight(n, m)) = Weight(n, m) /\ Join(Weight(n, m), {}) = Weight(n, m)
  BY <1>2, JoinNeutral
<1> HIDE DEF f
<1>4. CASE EndNode(m)
  <2>1. m \in DOMAIN r /\ DOMAIN r[m] = {m} /\ r[m][m] = {}
    BY <1>4 DEF RmapOK
  <2>2. Entry(r, m) = r[m]
    BY <2>1 DEF Entry
  <2>3. m \in DOMAIN Entry(r, m) /\ Entry(r, m)[m] = {}
    BY <2>1, <2>2
  <2>4. Weight(n, m) \subseteq Type(f, m)
    BY <1>1, <1>3, <2>3
  <2> QED BY <1>3, <1>4, <2>4 DEF Reaches, f
<1>5. CASE ~EndNode(m)
  <2> SUFFICES ASSUME NEW e, EndNode(e), Between(m, e) # {}
               PROVE  Join(Weight(n, m), Between(m, e)) \subseteq Type(f, e)
    BY <1>3, <1>5 DEF Reaches, f
  <2>1. Between(m, e) \subseteq Type(Entry(r, m), e)
    BY <1>5 DEF Knows
  <2>2. e \in DOMAIN Entry(r, m) /\ Type(Entry(r, m), e) = Entry(r, m)[e]
    BY <2>1 DEF Type
  <2>3. Entry(r, m)[e] \in PlainTypes
    BY <1>2, <1>5, <2>2 DEF RmapOK, EntryOK
  <2>4. Between(m, e) \in PlainTypes
    BY BetweenTyped
  <2>5. Join(Weight(n, m), Between(m, e)) \subseteq Join(Weight(n, m), Entry(r, m)[e])
    BY <1>2, <2>1, <2>2, <2>3, <2>4, JoinGrows
  <2> QED BY <1>1, <2>2, <2>5
<1> QED BY <1>4, <1>5

\* Of every call under way, what its finished neighbours add is reported and,
\* but for the base call, remembered; a node left behind is known.
CoverOK(s, p, r) ==
    /\ \A k \in 1..Len(s) :
          Covers(p, s[k].type, s[k].node, NextTo(s[k].node) \ s[k].todo)
    /\ \A k \in 2..Len(s) :
          Covers(Entry(r, s[k].node), {}, s[k].node, NextTo(s[k].node) \ s[k].todo)
    /\ \A n \in DOMAIN r : EndNode(n) \/ (\E k \in 2..Len(s) : s[k].node = n)
                           \/ Knows(Entry(r, n), n)
    /\ s = << >> => Knows(p, start)

\* The last call has done with m: p and r have grown to q and z.
LEMMA ConsumeCover ==
    ASSUME NEW s \in Seq(Frames), s # << >>, NEW p, NEW r, CoverOK(s, p, r), NEW m,
           NEW q, Grows(p, q), NEW z, \A x : Grows(Entry(r, x), Entry(z, x)),
           Reaches(q, Join(s[Len(s)].type, Weight(s[Len(s)].node, m)), m),
           Len(s) # 1 => Reaches(Entry(z, s[Len(s)].node),
                                 Join({}, Weight(s[Len(s)].node, m)), m),
           \A x \in DOMAIN z : x \in DOMAIN r \/ EndNode(x) \/ Knows(Entry(z, x), x)
                               \/ (Len(s) # 1 /\ x = s[Len(s)].node)
    PROVE  CoverOK([s EXCEPT ![Len(s)].todo = @ \ {m}], q, z)
<1> DEFINE v == [s EXCEPT ![Len(s)].todo = @ \ {m}]
           n == Len(s)
           Left(k) == NextTo(v[k].node) \ v[k].todo
<1>0. n \in Nat \ {0}
  OBVIOUS
<1>1. n \in 1..n /\ (n # 1 => n \in 2..n) /\ (\A k \in 2..n : k \in 1..n)
      /\ (\A k \in 2..n : k = n => n # 1)
  <2> HIDE DEF n
  <2> QED BY <1>0
<1>a. Consumed(v, s, m)
  BY ConsumeFields
<1> HIDE DEF v
<1>2. Len(v) = n /\ \A k \in 1..n :
        /\ v[k].node = s[k].node /\ v[k].type = s[k].type
        /\ v[k].todo = IF k = n THEN s[k].todo \ {m} ELSE s[k].todo
  BY <1>a DEF Consumed
<1>3. v # << >>
  BY <1>0, <1>2
<1>4. ASSUME NEW k \in 1..n
      PROVE  /\ k # n => Left(k) = NextTo(s[k].node) \ s[k].todo
             /\ Left(n) \subseteq (NextTo(s[n].node) \ s[n].todo) \cup {m}
  BY <1>1, <1>2
<1>5. ASSUME NEW k \in 1..n
      PROVE  Covers(q, v[k].type, v[k].node, Left(k))
  <2>0. Covers(p, s[k].type, s[k].node, NextTo(s[k].node) \ s[k].todo)
    BY DEF CoverOK
  <2>1. Covers(q, s[k].type, s[k].node, NextTo(s[k].node) \ s[k].todo)
    BY <2>0, CoversGrow
  <2> QED BY <1>2, <1>4, <2>1 DEF Covers
<1>6. ASSUME NEW k \in 2..n
      PROVE  Covers(Entry(z, v[k].node), {}, v[k].node, Left(k))
  <2>0. Covers(Entry(r, s[k].node), {}, s[k].node, NextTo(s[k].node) \ s[k].todo)
    BY DEF CoverOK
  <2>1. Covers(Entry(z, s[k].node), {}, s[k].node, NextTo(s[k].node) \ s[k].todo)
    BY <2>0, CoversGrow
  <2> QED BY <1>1, <1>2, <1>4, <2>1 DEF Covers
<1>7. ASSUME NEW x \in DOMAIN z, ~EndNode(x), ~Knows(Entry(z, x), x)
      PROVE  \E k \in 2..n : v[k].node = x
  <2>1. CASE x \in DOMAIN r
    <3>1. ~Knows(Entry(r, x), x)
      BY <1>7, CoversGrow
    <3> QED BY <1>1, <1>2, <1>7, <2>1, <3>1 DEF CoverOK
  <2>2. CASE n # 1 /\ x = s[n].node
    BY <1>1, <1>2, <2>2
  <2> QED BY <1>7, <2>1, <2>2
<1>8. CoverOK(v, q, z)
  BY <1>2, <1>3, <1>5, <1>6, <1>7 DEF CoverOK
<1> QED BY <1>8 DEF v

\* The last call has been made, or is over, and nothing has changed in p and r.
LEMMA CutCover ==
    ASSUME NEW s, StackOK(s), Len(s) > 1, NEW p, NEW r, CoverOK(s, p, r),
           Knows(Entry(r, s[Len(s)].node), s[Len(s)].node)
    PROVE  CoverOK(SubSeq(s, 1, Len(s) - 1), p, r)
<1> DEFINE z == SubSeq(s, 1, Len(s) - 1)
<1>1. Len(s) \in Nat
  BY DEF StackOK
<1>2. z # << >> /\ Len(z) = Len(s) - 1 /\ \A k \in 1..Len(z) : z[k] = s[k]
  BY PopStack
<1> HIDE DEF z
<1>3. (\A k \in 1..Len(z) : k \in 1..Len(s)) /\ (\A k \in 2..Len(z) : k \in 1..Len(z))
      /\ (\A k \in 2..Len(z) : k \in 2..Len(s))
      /\ \A k \in 2..Len(s) : k # Len(s) => k \in 2..Len(z)
  BY <1>1, <1>2
<1>4. CoverOK(z, p, r)
  BY <1>2, <1>3 DEF CoverOK
<1> QED BY <1>4 DEF z

LEMMA PushCover ==
    ASSUME NEW s, StackOK(s), s # << >>, NEW p, NEW r, CoverOK(s, p, r),
           NEW f, f.todo = NextTo(f.node)
    PROVE  CoverOK(Append(s, f), p, r)
<1> DEFINE z == Append(s, f)
<1>1. s \in Seq(Frames) /\ Len(s) \in Nat
  BY DEF StackOK
<1>2. Len(z) = Len(s) + 1 /\ z[Len(s) + 1] = f /\ \A k \in 1..Len(s) : z[k] = s[k]
  BY <1>1
<1> HIDE DEF z
<1>3. (\A k \in 1..Len(z) : k \in 1..Len(s) \/ k = Len(s) + 1)
      /\ (\A k \in 2..Len(z) : k \in 2..Len(s) \/ k = Len(s) + 1)
      /\ (\A k \in 2..Len(s) : k \in 1..Len(s) /\ k \in 2..Len(z)) /\ Len(z) # 0
  BY <1>1, <1>2
<1>4. \A g, t, n : Covers(g, t, n, NextTo(f.node) \ f.todo)
  BY DEF Covers
<1>5. z # << >>
  BY <1>3
<1>6. CoverOK(z, p, r)
  BY <1>2, <1>3, <1>4, <1>5 DEF CoverOK
<1> QED BY <1>6 DEF z

LEMMA EndCovers ==
    ASSUME NInv, CoverOK(stack, pmap, rmap), ~Done, NEW m \in Top.todo, End(m)
    PROVE  CoverOK(stack', pmap', rmap')
<1> DEFINE n == Top.node
<1>1. GraphOK /\ StackOK(stack) /\ RmapOK(rmap) /\ stack \in Seq(Frames) /\ stack # << >>
  BY DEF NInv, SInv, StackOK, Done
<1>2. m \in Node /\ m \in NextTo(n) /\ n \in Node /\ EndNode(m)
  BY <1>1, TopWalk DEF Frames, End
<1>3. RmapOK(Known(m)) /\ DOMAIN Known(m) = DOMAIN rmap \cup {m} /\ m \in DOMAIN Known(m)
      /\ \A x : x # m \/ m \in DOMAIN rmap => Entry(Known(m), x) = Entry(rmap, x)
  BY <1>1, <1>2, KnownOK
<1>4. rmap' = Learn(Known(m), n, m, InBase) /\ InBase \in BOOLEAN
  BY DEF End, Known, InBase
<1>5. Grows(pmap, pmap') /\ Reaches(pmap', PathType1(m), m)
  <2>1. DOMAIN pmap' = DOMAIN pmap \cup {m}
        /\ \A e \in DOMAIN pmap' :
             pmap'[e] = Type(pmap, e) \cup (IF e = m THEN PathType1(m) ELSE {})
    BY DEF End
  <2> QED BY <1>2, <2>1 DEF Grows, Type, Reaches
<1>6. \A x : Grows(Entry(rmap, x), Entry(rmap', x))
  <2>1. \A x : Grows(Entry(Known(m), x), Entry(rmap', x))
    BY <1>4, LearnGrows
  <2>2. m \notin DOMAIN rmap => \A e : Type(Entry(rmap, m), e) = {}
    BY DEF Entry, Type, NoMap
  <2> QED BY <1>3, <2>1, <2>2 DEF Grows
<1>7. ~InBase => Reaches(Entry(rmap', n), Join({}, Weight(n, m)), m)
  BY <1>1, <1>2, <1>3, <1>4, LearnReaches
<1>8. \A x \in DOMAIN rmap' : x \in DOMAIN rmap \/ EndNode(x) \/ (~InBase /\ x = n)
  <2>1. DOMAIN rmap' \subseteq DOMAIN Known(m) \cup {m} \cup (IF InBase THEN {} ELSE {n})
    BY <1>4, LearnGrows
  <2> QED BY <1>2, <1>3, <2>1
<1>9. stack' = [stack EXCEPT ![Len(stack)].todo = @ \ {m}]
  BY DEF End, Consume
<1> QED BY <1>1, <1>5, <1>6, <1>7, <1>8, <1>9, ConsumeCover DEF Top, InBase, PathType1

\* A neighbour that is not on the path is none of the calls, but perhaps the base.
LEMMA NotUnderWay ==
    ASSUME NInv, ~Done, NEW m, ~OnPath(m), NEW k \in 2..Len(stack)
    PROVE  stack[k].node # m
<1>1. Len(stack) \in Nat \ {0} /\ k \in 1..Len(stack) /\ 1 < k /\ k <= Len(stack)
      /\ Len(stack) \in 1..Len(stack)
  BY TopWalk DEF NInv, SInv
<1>2. k < Len(stack) /\ forward => stack[k].node \in Top.seen
  BY <1>1 DEF NInv, CallsOK, Top
<1>3. ~forward => stack[k].node \in Top.seen
  BY <1>1 DEF NInv, CallsOK, Top
<1>4. k = Len(stack) => stack[k].node = Top.node
  BY DEF Top
<1>5. k < Len(stack) \/ k = Len(stack)
  BY <1>1
<1> QED BY <1>2, <1>3, <1>4, <1>5 DEF OnPath, Seen

LEMMA ReplayCovers ==
    ASSUME NInv, CoverOK(stack, pmap, rmap), ~Done, NEW m \in Top.todo, Replay(m)
    PROVE  CoverOK(stack', pmap', rmap')
<1> DEFINE n == Top.node
<1>1. GraphOK /\ StackOK(stack) /\ RmapOK(rmap) /\ stack \in Seq(Frames) /\ stack # << >>
  BY DEF NInv, SInv, StackOK, Done
<1>2. m \in Node /\ m \in NextTo(n) /\ n \in Node /\ PathType1(m) \in PlainTypes
  BY <1>1, TopWalk DEF Frames
<1>3. ~EndNode(m) /\ ~OnPath(m) /\ m \in DOMAIN rmap /\ Entry(rmap, m) = rmap[m]
  BY DEF Replay, Entry
<1>4. Knows(rmap[m], m)
  BY <1>3, NotUnderWay DEF CoverOK
<1>5. rmap' = Learn(rmap, n, m, InBase) /\ InBase \in BOOLEAN
  BY DEF Replay, InBase
<1>6. Grows(pmap, pmap') /\ Reaches(pmap', PathType1(m), m)
  <2>1. DOMAIN pmap' = DOMAIN pmap \cup DOMAIN rmap[m]
        /\ \A e \in DOMAIN pmap' :
             pmap'[e] = Type(pmap, e) \cup
               (IF e \in DOMAIN rmap[m] THEN Join(PathType1(m), rmap[m][e]) ELSE {})
    BY DEF Replay
  <2>2. Grows(pmap, pmap')
    BY <2>1 DEF Grows, Type
  <2>3. ASSUME NEW e, EndNode(e), Between(m, e) # {}
        PROVE  Join(PathType1(m), Between(m, e)) \subseteq Type(pmap', e)
    <3>1. Between(m, e) \subseteq Type(rmap[m], e)
      BY <1>4, <2>3 DEF Knows
    <3>2. e \in DOMAIN rmap[m] /\ Type(rmap[m], e) = rmap[m][e]
      BY <2>3, <3>1 DEF Type
    <3>3. rmap[m][e] \in PlainTypes
      BY <1>1, <1>2, <1>3, <3>2 DEF RmapOK, EntryOK
    <3>4. Between(m, e) \in PlainTypes
      BY <1>1, <2>3, BetweenTyped
    <3>5. Join(PathType1(m), Between(m, e)) \subseteq Join(PathType1(m), rmap[m][e])
      BY <1>2, <3>1, <3>2, <3>3, <3>4, JoinGrows
    <3> QED BY <2>1, <3>2, <3>5 DEF Type
  <2> QED BY <1>3, <2>2, <2>3 DEF Reaches
<1>7. /\ \A x : Grows(Entry(rmap, x), Entry(rmap', x))
      /\ DOMAIN rmap' \subseteq DOMAIN rmap \cup {m} \cup (IF InBase THEN {} ELSE {n})
  BY <1>5, LearnGrows
<1>8. ~InBase => Reaches(Entry(rmap', n), Join({}, Weight(n, m)), m)
  BY <1>1, <1>2, <1>3, <1>4, <1>5, LearnReaches
<1>9. \A x \in DOMAIN rmap' : x \in DOMAIN rmap \/ (~InBase /\ x = n)
  BY <1>3, <1>7
<1>10. stack' = [stack EXCEPT ![Len(stack)].todo = @ \ {m}]
  BY DEF Replay, Consume
<1> QED BY <1>1, <1>6, <1>7, <1>8, <1>9, <1>10, ConsumeCover DEF Top, InBase, PathType1

\* Without combinational loops no path closes one.
LEMMA NoLoop ==
    ASSUME NInv, Acyclic, ~Done, NEW m \in Top.todo
    PROVE  ~Loop(m)
<1> SUFFICES ASSUME Loop(m) PROVE FALSE
  OBVIOUS
<1>1. GraphOK /\ StackOK(stack) /\ Len(stack) \in Nat \ {0} /\ Len(stack) \in 1..Len(stack)
  BY TopWalk DEF NInv, SInv
<1>2. m \in NextTo(Top.node) /\ Top.node \in Node /\ (InBase \/ Top.node \notin Reg)
  BY <1>1, TopWalk DEF Frames, EndNode
<1>3. Walk(Top.node, m, Weight(Top.node, m))
  BY <1>1, <1>2, WeightTyped
<1>4. \A x, t : Walk(x, x, t) => x \in Reg
  <2> SUFFICES ASSUME NEW x, NEW t, Walk(x, x, t) PROVE x \in Reg
    OBVIOUS
  <2>1. <<x, x, t>> \in walks
    BY DEF Walk
  <2> QED BY <2>1 DEF Acyclic
<1>5. m \in Top.seen => ~InBase /\ (m = Top.node \/ \E t : Walk(m, Top.node, t))
                        /\ (~forward => m \notin Reg)
  BY <1>1 DEF NInv, CallsOK, Top, InBase
<1>6. m \notin Reg /\ (m \in Top.seen \/ m = Top.node)
  BY <1>5 DEF Loop, OnPath, Seen, EndNode
<1>7. CASE m = Top.node
  BY <1>3, <1>4, <1>6, <1>7
<1>8. CASE m # Top.node
  <2>1. PICK t : Walk(m, Top.node, t)
    BY <1>5, <1>6, <1>8
  <2>2. Walk(m, m, Join(t, Weight(Top.node, m)))
    BY <1>1, <1>2, <1>3, <1>5, <1>6, <1>8, <2>1, WalkJoin
  <2> QED BY <1>4, <1>6, <2>2
<1> QED BY <1>7, <1>8

LEMMA ExpandCovers ==
    ASSUME NInv, CoverOK(stack, pmap, rmap), ~Done, NEW m \in Top.todo, Expand(m)
    PROVE  CoverOK(stack', pmap', rmap')
<1> DEFINE f == Frame(m, PathType1(m), Seen(m), NextTo(m))
<1>1. f.todo = NextTo(f.node)
  BY DEF Frame
<1> HIDE DEF f
<1>2. stack' = Append(stack, f) /\ pmap' = pmap /\ rmap' = rmap
  BY DEF Expand, f
<1> QED BY <1>1, <1>2, PushCover DEF NInv, SInv, Done

LEMMA ReturnCovers ==
    ASSUME NInv, CoverOK(stack, pmap, rmap), ~Done, Return
    PROVE  CoverOK(stack', pmap', rmap')
<1> DEFINE n == Len(stack)
           t == Top.node
<1>1. GraphOK /\ StackOK(stack) /\ RmapOK(rmap) /\ stack \in Seq(Frames) /\ stack # << >>
      /\ n \in Nat \ {0} /\ n \in 1..n
  BY TopWalk DEF NInv, SInv, StackOK, Done
<1>2. Top = stack[n] /\ t \in Node /\ Top.type \in Ways /\ NextTo(t) \ Top.todo = NextTo(t)
  BY <1>1, TopWalk DEF Top, Frames, Return
<1>3. Covers(pmap, Top.type, t, NextTo(t))
  <2>1. Covers(pmap, stack[n].type, stack[n].node, NextTo(stack[n].node) \ stack[n].todo)
    BY <1>1 DEF CoverOK
  <2> QED BY <1>2, <2>1
<1>4. CASE InBase
  <2>1. stack' = << >> /\ pmap' = pmap /\ rmap' = rmap
    BY <1>4 DEF Return
  <2>2. t = start /\ Top.type = {}
    BY <1>1, <1>4, TopWalk
  <2>3. Knows(pmap, start)
    BY <1>1, <1>2, <1>3, <2>2, CoverAll
  <2>4. \A k \in 2..n : FALSE
    BY <1>4 DEF InBase
  <2>5. \A x \in DOMAIN rmap : EndNode(x) \/ Knows(Entry(rmap, x), x)
    BY <2>4 DEF CoverOK
  <2> QED BY <2>1, <2>3, <2>5 DEF CoverOK
<1>5. CASE ~InBase
  <2> DEFINE z == SubSeq(stack, 1, n - 1)
             c == stack[n - 1].node
  <2>1. n # 1
    BY <1>5 DEF InBase
  <2>2. n > 1 /\ z \in Seq(Frames) /\ z # << >> /\ Len(z) = n - 1
        /\ \A k \in 1..Len(z) : z[k] = stack[k]
    BY <1>1, <2>1, DeepStack
  <2>3. n \in 2..n /\ n - 1 \in 1..n /\ n - 1 \in 1..(n - 1) /\ (n - 1 = 1 <=> n = 2)
    <3> HIDE DEF n
    <3> QED BY <1>1, <2>2
  <2>4. z[n - 1] = stack[n - 1]
    BY <2>2, <2>3
  <2>5. stack' = [z EXCEPT ![Len(z)].todo = @ \ {t}] /\ pmap' = pmap
        /\ rmap' = Learn(rmap, c, t, n = 2)
    BY <1>5, <2>2 DEF Return
  <2>6. ~EndNode(t) /\ t \in NextTo(c) /\ Top.type = Join(stack[n - 1].type, Weight(c, t))
    BY <1>1, <1>2, <2>3 DEF StackOK
  <2>7. c \in Node
    <3>1. stack[n - 1] \in Frames
      BY <1>1, <2>3
    <3> QED BY <3>1 DEF Frames
  <2>8. Reaches(pmap, Join(stack[n - 1].type, Weight(c, t)), t)
    BY <1>1, <1>2, <1>3, <2>6, CoverAll DEF Reaches
  <2>9. Knows(Entry(rmap, t), t)
    <3>1. Covers(Entry(rmap, stack[n].node), {}, stack[n].node,
                 NextTo(stack[n].node) \ stack[n].todo)
      BY <2>3 DEF CoverOK
    <3>2. {} \in Ways
      BY DEF Ways
    <3> QED BY <1>1, <1>2, <3>1, <3>2, CoverAll
  <2> DEFINE base == n = 2
  <2>10. base \in BOOLEAN /\ rmap' = Learn(rmap, c, t, base)
    BY <2>5
  <2> HIDE DEF base
  <2>11. /\ \A x : Grows(Entry(rmap, x), Entry(rmap', x))
         /\ DOMAIN rmap' \subseteq DOMAIN rmap \cup {t} \cup (IF base THEN {} ELSE {c})
    BY <2>10, LearnGrows
  <2>12. ~base => Reaches(Entry(rmap', c), Join({}, Weight(c, t)), t)
    BY <1>1, <2>6, <2>7, <2>9, <2>10, LearnReaches
  <2>13. Knows(Entry(rmap', t), t)
    BY <2>9, <2>11, CoversGrow
  <2>14. CoverOK(z, pmap, rmap)
    BY <1>1, <1>2, <2>2, <2>9, CutCover
  <2>15. Len(z) # 1 <=> ~base
    BY <2>2, <2>3 DEF base
  <2>16. z[Len(z)].node = c /\ z[Len(z)].type = stack[n - 1].type
    BY <2>2, <2>4
  <2>17. Grows(pmap, pmap)
    BY DEF Grows
  <2>18. \A x \in DOMAIN rmap' : x \in DOMAIN rmap \/ EndNode(x) \/ Knows(Entry(rmap', x), x)
                                  \/ (Len(z) # 1 /\ x = z[Len(z)].node)
    BY <2>11, <2>13, <2>15, <2>16
  <2> HIDE DEF z, c, n, t
  <2>19. CoverOK([z EXCEPT ![Len(z)].todo = @ \ {t}], pmap, rmap')
    BY <2>2, <2>8, <2>11, <2>12, <2>14, <2>15, <2>16, <2>17, <2>18, ConsumeCover
  <2> QED BY <2>5, <2>19
<1> QED BY <1>4, <1>5

\* What is reported and remembered are functions.
IsMap(f) == f = [e \in DOMAIN f |-> f[e]]
MapsOK(p, r) == IsMap(p) /\ \A n : IsMap(Entry(r, n))

LEMMA LearnMaps ==
    ASSUME NEW r, \A x : IsMap(Entry(r, x)), NEW n, NEW m, NEW base \in BOOLEAN
    PROVE  \A x : IsMap(Entry(Learn(r, n, m, base), x))
<1>1. CASE base
  BY <1>1 DEF Learn
<1>2. CASE ~base
  <2> DEFINE F(e) == Type(Entry(r, n), e) \cup
                     (IF e \in DOMAIN Entry(r, m) THEN Join(Weight(n, m), r[m][e]) ELSE {})
             new == [e \in DOMAIN Entry(r, n) \cup DOMAIN Entry(r, m) |-> F(e)]
             X   == DOMAIN r \cup {m} \cup (IF Entry(r, m) = NoMap THEN {} ELSE {n})
             q   == Learn(r, n, m, base)
  <2>1. q = [x \in X |-> IF x = n THEN new ELSE Entry(r, x)]
    BY <1>2 DEF Learn
  <2>2. IsMap(new) /\ IsMap(NoMap)
    BY DEF IsMap, NoMap
  <2> HIDE DEF new, X, q
  <2>3. \A x : Entry(q, x) = NoMap \/ Entry(q, x) = new \/ Entry(q, x) = Entry(r, x)
    BY <2>1 DEF Entry
  <2>4. \A x : IsMap(Entry(q, x))
    BY <2>2, <2>3
  <2> QED BY <2>4 DEF q
<1> QED BY <1>1, <1>2

LEMMA MapsStep ==
    ASSUME MapsOK(pmap, rmap), Next
    PROVE  MapsOK(pmap', rmap')
<1> USE DEF MapsOK
<1>1. CASE Return
  <2>1. pmap' = pmap
    BY <1>1 DEF Return
  <2>2. \E n, m : \E base \in BOOLEAN : rmap' = rmap \/ rmap' = Learn(rmap, n, m, base)
    BY <1>1 DEF Return
  <2> QED BY <2>1, <2>2, LearnMaps
<1>2. ASSUME NEW m \in Top.todo, End(m)
      PROVE  MapsOK(pmap', rmap')
  <2>1. IsMap(pmap')
    BY <1>2 DEF End, IsMap
  <2>2. \A x : Entry(Known(m), x) = Entry(rmap, x) \/ Entry(Known(m), x) = [e \in {m} |-> {}]
    BY DEF Entry, Known
  <2>3. IsMap([e \in {m} |-> {}])
    BY DEF IsMap
  <2>4. \A x : IsMap(Entry(Known(m), x))
    BY <2>2, <2>3
  <2>5. rmap' = Learn(Known(m), Top.node, m, InBase) /\ InBase \in BOOLEAN
    BY <1>2 DEF End, Known, InBase
  <2> QED BY <2>1, <2>4, <2>5, LearnMaps
<1>3. ASSUME NEW m \in Top.todo, Loop(m)
      PROVE  MapsOK(pmap', rmap')
  <2>1. pmap' = pmap /\ InBase \in BOOLEAN
        /\ (rmap' = rmap \/ rmap' = Learn(rmap, Top.node, m, InBase))
    BY <1>3 DEF Loop, InBase
  <2> QED BY <2>1, LearnMaps
<1>4. ASSUME NEW m \in Top.todo, Replay(m)
      PROVE  MapsOK(pmap', rmap')
  <2>1. IsMap(pmap')
    BY <1>4 DEF Replay, IsMap
  <2>2. InBase \in BOOLEAN /\ rmap' = Learn(rmap, Top.node, m, InBase)
    BY <1>4 DEF Replay, InBase
  <2> QED BY <2>1, <2>2, LearnMaps
<1>5. ASSUME NEW m \in Top.todo, Expand(m)
      PROVE  MapsOK(pmap', rmap')
  BY <1>5 DEF Expand
<1> QED BY <1>1, <1>2, <1>3, <1>4, <1>5 DEF Next

CInv == NInv /\ MapsOK(pmap, rmap) /\ (Acyclic => CoverOK(stack, pmap, rmap))

LEMMA CInvInit == Init => CInv
<1> SUFFICES ASSUME Init PROVE MapsOK(pmap, rmap) /\ CoverOK(stack, pmap, rmap)
  BY NInvInit DEF CInv
<1> DEFINE f == Frame(start, {}, {}, NextTo(start))
<1>1. f.todo = NextTo(f.node)
  BY DEF Frame
<1> HIDE DEF f
<1>2. stack = <<f>>
  BY DEF Init, f
<1>3. Len(stack) = 1 /\ stack[1] = f /\ stack # << >>
  BY <1>2
<1>4. (\A k \in 1..1 : k = 1) /\ (\A k \in 2..1 : FALSE)
  OBVIOUS
<1>5. IsMap(NoMap) /\ DOMAIN NoMap = {} /\ pmap = NoMap /\ rmap = NoMap
  BY DEF IsMap, NoMap, Init
<1>6. \A n : Entry(rmap, n) = NoMap
  BY <1>5 DEF Entry
<1>7. \A p, t, n : Covers(p, t, n, {})
  BY DEF Covers
<1>8. NextTo(f.node) \ f.todo = {}
  BY <1>1
<1>9. CoverOK(stack, pmap, rmap)
  BY <1>3, <1>4, <1>5, <1>7, <1>8 DEF CoverOK
<1> QED BY <1>5, <1>6, <1>9 DEF MapsOK

LEMMA FrozenCover ==
    ASSUME Frozen, CoverOK(stack', pmap', rmap')
    PROVE  CoverOK(stack, pmap, rmap)'
<1>1. start' = start
  BY DEF Frozen
<1>2. \A f, t, n, D : Covers(f, t, n, D)' <=> Covers(f, t, n, D)
  BY FrozenOps DEF Covers, Reaches, Type
<1>3. \A f, n : Knows(f, n)' <=> Knows(f, n)
  BY FrozenOps DEF Knows, Type
<1>4. \A n : (NextTo(n)' = NextTo(n)) /\ (EndNode(n)' <=> EndNode(n))
  BY FrozenOps
<1> QED BY <1>1, <1>2, <1>3, <1>4 DEF CoverOK, Entry

LEMMA CInvStep == CInv /\ [Next]_vars => CInv'
<1> SUFFICES ASSUME CInv, [Next]_vars PROVE CInv'
  OBVIOUS
<1>1. NInv'
  BY NInvStep DEF CInv
<1>2. MapsOK(pmap, rmap)'
  BY MapsStep DEF CInv, MapsOK, vars, IsMap, Entry
<1>3. Frozen
  BY DEF Next, vars, Frozen
<1>4. ASSUME Acyclic'
      PROVE  CoverOK(stack, pmap, rmap)'
  <2>1. NInv /\ Acyclic /\ CoverOK(stack, pmap, rmap)
    BY <1>3, <1>4 DEF CInv, Acyclic, Frozen
  <2>2. CASE UNCHANGED vars
    BY <1>3, <2>1, <2>2, FrozenCover DEF vars
  <2>3. CASE Next
    <3>1. CoverOK(stack', pmap', rmap')
      BY <2>1, <2>3, EndCovers, NoLoop, ReplayCovers, ExpandCovers, ReturnCovers DEF Next
    <3> QED BY <1>3, <3>1, FrozenCover
  <2> QED BY <2>2, <2>3
<1> QED BY <1>1, <1>2, <1>4 DEF CInv

LEMMA CInvHolds == Spec => []CInv
BY CInvInit, CInvStep, PTL DEF Spec

\* What is sound and covers every walk is exact.
LEMMA ExactMap ==
    ASSUME GraphOK, NEW f, IsMap(f), NEW n, EntryOK(f, n), Knows(f, n)
    PROVE  f = Expected(n)
<1> DEFINE D == {m \in Node : EndNode(m) /\ Between(n, m) # {}}
<1>1. ASSUME NEW e \in DOMAIN f
      PROVE  e \in D /\ f[e] = Between(n, e)
  <2>1. EndNode(e) /\ f[e] # {} /\ f[e] \subseteq Between(n, e)
    BY DEF EntryOK, PlainTypes
  <2>2. e \in Node
    BY <2>1, BetweenBits, WalkTyped
  <2>3. Between(n, e) \subseteq f[e]
    BY <2>1 DEF Knows, Type
  <2> QED BY <2>1, <2>2, <2>3
<1>2. ASSUME NEW e \in D
      PROVE  e \in DOMAIN f
  BY DEF Knows, Type
<1>3. DOMAIN f = D
  BY <1>1, <1>2
<1> HIDE DEF D
<1>4. f = [e \in D |-> Between(n, e)]
  BY <1>1, <1>3 DEF IsMap
<1> QED BY <1>4 DEF Expected, D

\* Complete of PathSearch.tla: in every graph without combinational loops, and
\* whatever the order of the neighbours, path_search_base_fast reports every
\* register or port that a walk reaches, with the types of all walks to it.
THEOREM CompleteHolds == Spec => []Complete
<1>1. CInv => Complete
  <2> SUFFICES ASSUME CInv, Done, Acyclic PROVE pmap = Expected(start)
    BY DEF Complete
  <2>1. Knows(pmap, start)
    BY DEF CInv, CoverOK, Done
  <2> QED BY <2>1, ExactMap DEF CInv, NInv, SInv, MapsOK
<1> QED BY <1>1, CInvHolds, PTL

\* MemoExact of PathSearch.tla: the entry of rmap for a node that the search has
\* left says exactly what can be reached from it.
THEOREM MemoExactHolds == Spec => []MemoExact
<1>1. CInv => MemoExact
  <2> SUFFICES ASSUME CInv, Acyclic, NEW n \in DOMAIN rmap, ~EndNode(n),
                      ~\E k \in 1..Len(stack) : stack[k].node = n
               PROVE  rmap[n] = Expected(n)
    BY DEF MemoExact
  <2>1. GraphOK /\ RmapOK(rmap) /\ stack \in Seq(Frames)
    BY DEF CInv, NInv, SInv, StackOK
  <2>2. \A k \in 2..Len(stack) : k \in 1..Len(stack)
    BY <2>1
  <2>3. Entry(rmap, n) = rmap[n] /\ n \in Node
    BY <2>1 DEF Entry, RmapOK
  <2>4. Knows(rmap[n], n)
    BY <2>2, <2>3 DEF CInv, CoverOK
  <2>5. EntryOK(rmap[n], n)
    BY <2>1, <2>3 DEF RmapOK
  <2>6. IsMap(rmap[n])
    BY <2>3 DEF CInv, MapsOK
  <2> QED BY <2>1, <2>4, <2>5, <2>6, ExactMap
<1> QED BY <1>1, CInvHolds, PTL
=============================================================================
