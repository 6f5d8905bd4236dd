-------------------------- MODULE Elaborate_proofs --------------------------
(***************************************************************************)
(* Proofs about analyze and elaborate: whatever the libraries and their    *)
(* order, the modules, what they instantiate and the values of their       *)
(* parameters, and whatever commands came before and failed, elaborate     *)
(* saves a closed set of modules with every instance bound to what the     *)
(* source names, and leaves alone what was elaborated before as far as the *)
(* libraries agree about the texts.                                        *)
(***************************************************************************)
EXTENDS Elaborate, FiniteSetTheorems, SequenceTheorems, WellFoundedInduction, TLAPS

\* The call of a source text, and the names an instance may get for it.
Call        == [mod : Ident, actual : Val \cup {None}]
Named(m, v) == IF v = None THEN m ELSE <<m, v>>
NamesOf(c)  == {Named(c.mod, v) : v \in Meant(c)}

\* The instances of a module have names its source text allows.
Binds(inst, m, v) ==
    /\ DOMAIN inst = DOMAIN Body[m][v]
    /\ \A i \in DOMAIN inst : inst[i] \in NamesOf(Body[m][v][i])

\* An object under the name n, as elaborate leaves it in the map.
Good(o, n) ==
    /\ o \in Object
    /\ NewName(o) = n
    /\ o.src \in HasPara \/ o.val = None
    /\ o.elab => o.val = ParaValue(o) /\ Binds(o.inst, o.src, o.val)

GoodLib(lib) ==
    \A n \in DOMAIN lib : IF lib[n].elab THEN Good(lib[n], n)
                           ELSE \E m \in Src : n = Title[m] /\ lib[n] = Raw(m)

\* The name an instance without a value got is the one the libraries give,
\* or there is a text of that name without parameter.
Explains(ls, c, n) ==
    \E l \in Lib :
        /\ c.mod \in Ident \cap DOMAIN ls[l]
        /\ LET m == ls[l][c.mod].src IN m \in HasPara => n = <<c.mod, Default[m]>>

\* What the libraries still hold of the texts an elaborated module was bound to.
Backed(ls, o) ==
    o.elab => \A i \in DOMAIN o.inst : LET c == Body[o.src][o.val][i] IN
                 c.actual = None => Explains(ls, c, o.inst[i])

GoodLibs == /\ curLib \in Lib /\ DOMAIN libs = Lib
            /\ \A l \in Lib : GoodLib(libs[l])
            /\ \A l \in Lib : \A n \in DOMAIN libs[l] : Backed(libs, libs[l][n])

\* The library holds a text, said of any libraries.
HoldsIn(ls, m) == \E l \in Lib : \E n \in DOMAIN ls[l] : ls[l][n].src = m

GoodMap ==
    \A n \in DOMAIN mmap : /\ n \in Name /\ Good(mmap[n], n)
                           /\ Backed(libs, mmap[n]) /\ HoldsIn(libs, mmap[n].src)

GoodQueue == /\ queue \in Seq(DOMAIN mmap) /\ IsInjective(queue)
             /\ pc = "idle" => queue = <<>>

\* What is not in the queue is elaborated, and what it instantiates is in the
\* map.
Waits ==
    \A n \in DOMAIN mmap : \/ n \in ToSet(queue)
                           \/ /\ mmap[n].elab
                              /\ \A k \in DOMAIN mmap[n].inst : mmap[n].inst[k] \in DOMAIN mmap

TopKept == /\ pc \in {"idle", "run"}
           /\ pc = "run" => top \in DOMAIN mmap
           /\ pc = "idle" => mmap = Empty
           /\ pc = "idle" /\ top # None =>
                top \in DOMAIN libs[Work] /\ libs[Work][top].elab

IInv == GoodLibs /\ GoodMap /\ GoodQueue /\ Waits /\ TopKept /\ Closed

-----------------------------------------------------------------------------
(* Sequences and positions.                                                *)

LEMMA LeastOf ==
  ASSUME NEW I \in SUBSET Nat, I # {}
  PROVE  \E k \in I : \A j \in I : k <= j
<1> DEFINE R == OpToRel(<, Nat)
           Less(j, k) == <<j, k>> \in R
<1>1. IsWellFoundedOn(R, Nat)
  BY NatLessThanWellFounded
<1>2. \A j, k \in Nat : j < k => Less(j, k)
  BY DEF OpToRel
<1>3. \E k \in I : \A j \in I : ~Less(j, k)
  <2> HIDE DEF R
  <2> QED BY <1>1, WFMin
<1> HIDE DEF Less
<1>4. PICK k \in I : \A j \in I : ~Less(j, k)
  BY <1>3
<1>5. ASSUME NEW j \in I
      PROVE  k <= j
  <2>1. ~(j < k)
    BY <1>2, <1>4
  <2> QED BY <2>1
<1> QED BY <1>5

\* An enumeration of a finite set.
LEMMA SetOrder ==
  ASSUME NEW S, IsFiniteSet(S), NEW s \in SetToSeqs(S)
  PROVE  /\ s \in Seq(S) /\ IsInjective(s)
         /\ ToSet(s) = S
<1> DEFINE n == Cardinality(S)
<1>1. n \in Nat
  BY FS_CardinalityType
<1>2. s \in [1..n -> S] /\ \A i, j \in 1..n : i # j => s[i] # s[j]
  BY DEF SetToSeqs
<1> HIDE DEF n
<1>3. s \in Injection(1..n, S) /\ IsInjective(s)
  BY <1>2 DEF Injection, IsInjective
<1>4. IsFiniteSet(1..n) /\ Cardinality(1..n) = n
  BY <1>1, FS_Interval
<1>5. s \in Surjection(1..n, S)
  BY <1>3, <1>4, FS_Injection DEF n
<1>6. \A x \in S : \E k \in 1..n : s[k] = x
  BY <1>5 DEF Surjection
<1>7. s \in Seq(S) /\ DOMAIN s = 1..n
  BY <1>1, <1>2
<1>8. ToSet(s) = S
  BY <1>2, <1>6, <1>7 DEF ToSet
<1> QED BY <1>3, <1>7, <1>8

\* The queue after its head was taken and new names were put behind.
Turned(q, s) == Tail(q) \o s

LEMMA TurnOfQueue ==
  ASSUME NEW A, NEW B, NEW q \in Seq(A), q # <<>>, IsInjective(q),
         NEW s \in Seq(B), IsInjective(s), A \cap B = {},
         NEW r, r = Turned(q, s)
  PROVE  /\ r \in Seq(A \cup B) /\ IsInjective(r)
         /\ ToSet(q) \ {Head(q)} \subseteq ToSet(r)
         /\ ToSet(s) \subseteq ToSet(r)
<1> DEFINE t == Tail(q)
<1>0. r = t \o s
  BY DEF Turned
<1>1. /\ Len(q) \in Nat /\ Len(q) # 0 /\ DOMAIN q = 1..Len(q)
      /\ t \in Seq(A) /\ Len(t) = Len(q) - 1
      /\ \A k \in 1..Len(t) : t[k] = q[k + 1]
      /\ Head(q) = q[1]
  OBVIOUS
<1>2. Len(s) \in Nat /\ DOMAIN s = 1..Len(s)
  OBVIOUS
<1> HIDE DEF t
<1>3. /\ r \in Seq(A \cup B)
      /\ DOMAIN r = 1..(Len(t) + Len(s))
      /\ \A k \in 1..Len(t) : r[k] = t[k]
      /\ \A k \in 1..(Len(t) + Len(s)) : k > Len(t) => r[k] = s[k - Len(t)]
  <2>1. t \in Seq(A \cup B) /\ s \in Seq(A \cup B)
    BY <1>1, <1>2
  <2> DEFINE u == t \o s
  <2>2. /\ u \in Seq(A \cup B)
        /\ DOMAIN u = 1..(Len(t) + Len(s))
        /\ \A k \in 1..Len(t) : u[k] = t[k]
        /\ \A k \in 1..(Len(t) + Len(s)) : k > Len(t) => u[k] = s[k - Len(t)]
    BY <2>1
  <2> QED BY <1>0, <2>2
<1>4. \A k \in 1..Len(t) : t[k] \in A
  BY <1>1
<1>5. \A k \in 1..Len(s) : s[k] \in B
  BY <1>2
<1>6. ASSUME NEW a \in DOMAIN r, NEW b \in DOMAIN r, r[a] = r[b]
      PROVE  a = b
  <2>1. CASE a <= Len(t) /\ b <= Len(t)
    <3>1. a \in 1..Len(t) /\ b \in 1..Len(t) /\ a + 1 \in 1..Len(q) /\ b + 1 \in 1..Len(q)
      BY <1>1, <1>2, <1>3, <2>1
    <3>3. q[a + 1] = q[b + 1]
      BY <1>1, <1>3, <1>6, <3>1
    <3>2. a + 1 = b + 1
      BY <1>1, <3>1, <3>3 DEF IsInjective
    <3> QED BY <1>1, <1>2, <1>3, <3>2
  <2>2. CASE a > Len(t) /\ b > Len(t)
    <3>1. a - Len(t) \in DOMAIN s /\ b - Len(t) \in DOMAIN s
      BY <1>1, <1>2, <1>3, <2>2
    <3>2. s[a - Len(t)] = s[b - Len(t)]
      BY <1>3, <1>6, <2>2
    <3>3. a - Len(t) = b - Len(t)
      BY <3>1, <3>2 DEF IsInjective
    <3> QED BY <1>1, <1>2, <1>3, <3>3
  <2>3. CASE a <= Len(t) /\ b > Len(t)
    <3>1. a \in 1..Len(t) /\ b - Len(t) \in 1..Len(s)
      BY <1>1, <1>2, <1>3, <2>3
    <3>2. r[a] \in A /\ r[b] \in B
      BY <1>1, <1>2, <1>3, <1>4, <1>5, <2>3, <3>1
    <3> QED BY <1>6, <3>2
  <2>4. CASE a > Len(t) /\ b <= Len(t)
    <3>1. b \in 1..Len(t) /\ a - Len(t) \in 1..Len(s)
      BY <1>1, <1>2, <1>3, <2>4
    <3>2. r[b] \in A /\ r[a] \in B
      BY <1>1, <1>2, <1>3, <1>4, <1>5, <2>4, <3>1
    <3> QED BY <1>6, <3>2
  <2> QED BY <1>1, <1>2, <1>3, <2>1, <2>2, <2>3, <2>4
<1>7. ASSUME NEW k \in DOMAIN q, q[k] # Head(q)
      PROVE  \E j \in DOMAIN r : r[j] = q[k]
  <2>1. k # 1 /\ k - 1 \in 1..Len(t) /\ k - 1 + 1 = k
    BY <1>1, <1>7
  <2>2. k - 1 \in DOMAIN r /\ r[k - 1] = t[k - 1]
    BY <1>1, <1>2, <1>3, <2>1
  <2> QED BY <1>1, <2>1, <2>2
<1>8. ASSUME NEW k \in DOMAIN s
      PROVE  \E j \in DOMAIN r : r[j] = s[k]
  <2>1. /\ k + Len(t) \in 1..(Len(t) + Len(s))
        /\ k + Len(t) > Len(t) /\ k + Len(t) - Len(t) = k
    BY <1>1, <1>2
  <2>2. r[k + Len(t)] = s[k + Len(t) - Len(t)]
    BY <1>3, <2>1
  <2> QED BY <1>3, <2>1, <2>2
<1>9. r \in Seq(A \cup B) /\ IsInjective(r)
  BY <1>3, <1>6 DEF IsInjective
<1> QED BY <1>7, <1>8, <1>9 DEF ToSet

-----------------------------------------------------------------------------
(* Names and the objects under them.                                       *)

\* A name tells the module and the value.
LEMMA NamedFacts ==
  ASSUME NEW m \in Ident, NEW v \in Val \cup {None}
  PROVE  /\ Named(m, v) \in Name
         /\ Named(m, v) \in Ident => v = None
         /\ \A k \in Ident, w \in Val \cup {None} :
              Named(m, v) = Named(k, w) => m = k /\ v = w
BY SourceAssumption DEF Named, Name

\* What a name says of an object.
LEMMA NameFacts ==
  ASSUME NEW o \in Object
  PROVE  /\ o.src \in Src /\ Title[o.src] \in Ident
         /\ ParaValue(o) \in Val \cup {None}
         /\ o.src \in HasPara <=> ParaValue(o) # None
         /\ NewName(o) = Named(Title[o.src], ParaValue(o))
         /\ NewName(o) \in Name
<1>1. o.src \in Src /\ Title[o.src] \in Ident /\ o.val \in Val \cup {None}
  BY DEF Object, Ident
<1>2. ParaValue(o) \in Val \cup {None} /\ (o.src \in HasPara <=> ParaValue(o) # None)
  BY <1>1, SourceAssumption DEF ParaValue
<1>3. NewName(o) = Named(Title[o.src], ParaValue(o))
  BY <1>2 DEF NewName, Named
<1> QED BY <1>1, <1>2, <1>3, NamedFacts

\* Under the name of a source text there is no elaborated module of another
\* name, and none that takes a parameter.
LEMMA UnderSource ==
  ASSUME NEW o \in Object, NewName(o) \in Ident
  PROVE  NewName(o) = Title[o.src] /\ o.src \notin HasPara
BY NameFacts, NamedFacts DEF Named

LEMMA SetParaFacts ==
  ASSUME NEW o \in Object, NEW a \in Val \cup {None}
  PROVE  /\ SetPara(o, a) \in Object
         /\ SetPara(o, a).src = o.src
         /\ SetPara(o, a).elab = o.elab
         /\ SetPara(o, a).inst = o.inst
         /\ SetPara(o, a).val = IF a = None THEN o.val ELSE a
<1>1. CASE a = None
  BY <1>1 DEF SetPara
<1>2. CASE a # None
  <2>1. SetPara(o, a) = [src |-> o.src, val |-> a, elab |-> o.elab, inst |-> o.inst]
    BY <1>2 DEF SetPara, Object
  <2> QED BY <1>2, <2>1 DEF Object
<1> QED BY <1>1, <1>2

LEMMA RawFacts ==
  ASSUME NEW m \in Src
  PROVE  /\ Raw(m) \in Object /\ Raw(m).src = m /\ Raw(m).val = None
         /\ Raw(m).elab = FALSE
<1>1. <<>> \in Seq(Name)
  OBVIOUS
<1> QED BY <1>1 DEF Raw, Object

\* A module as the source has it, or with a value for its parameter.
LEMMA GoodRaw ==
  ASSUME NEW m \in Src, NEW a \in Val \cup {None}, a = None \/ TakesPara(Raw(m))
  PROVE  Good(SetPara(Raw(m), a), NewName(SetPara(Raw(m), a)))
<1> DEFINE r == Raw(m)
           o == SetPara(r, a)
<1>1. /\ o \in Object /\ o.src = m /\ o.elab = FALSE
      /\ o.val = IF a = None THEN None ELSE a
  <2>1. r \in Object /\ r.src = m /\ r.val = None /\ r.elab = FALSE
    BY RawFacts
  <2> HIDE DEF r
  <2> QED BY <2>1, SetParaFacts
<1>2. o.src \in HasPara \/ o.val = None
  BY <1>1, RawFacts DEF TakesPara
<1> HIDE DEF o
<1> QED BY <1>1, <1>2 DEF Good, o

\* What is found in a good library, with a value for its parameter.
LEMMA GoodCopy ==
  ASSUME NEW lib, GoodLib(lib), NEW n \in DOMAIN lib,
         NEW a \in Val \cup {None}, a = None \/ TakesPara(lib[n])
  PROVE  Good(SetPara(lib[n], a), NewName(SetPara(lib[n], a)))
<1>1. CASE lib[n].elab
  <2>1. a = None /\ SetPara(lib[n], a) = lib[n]
    BY <1>1 DEF TakesPara, SetPara
  <2>2. Good(lib[n], n)
    BY <1>1 DEF GoodLib
  <2> QED BY <2>1, <2>2 DEF Good
<1>2. CASE ~lib[n].elab
  <2>1. \E m \in Src : lib[n] = Raw(m)
    BY <1>2 DEF GoodLib
  <2> QED BY <2>1, GoodRaw
<1> QED BY <1>1, <1>2

LEMMA MeantType ==
  ASSUME NEW c \in Call
  PROVE  /\ c.mod \in Ident /\ c.actual \in Val \cup {None}
         /\ Meant(c) \subseteq Val \cup {None}
         /\ NamesOf(c) \subseteq Name
<1>1. c.mod \in Ident /\ c.actual \in Val \cup {None}
  BY DEF Call
<1>2. Meant(c) \subseteq Val \cup {None}
  BY <1>1, SourceAssumption DEF Meant
<1> QED BY <1>1, <1>2, NamedFacts DEF NamesOf

\* The instances in a source text.
LEMMA BodyFacts ==
  ASSUME NEW m \in Src, NEW v \in Val \cup {None}
  PROVE  /\ Len(Body[m][v]) \in Nat /\ DOMAIN Body[m][v] = 1..Len(Body[m][v])
         /\ \A i \in DOMAIN Body[m][v] : Body[m][v][i] \in Call
<1> DEFINE b == Body[m][v]
<1>1. b \in Seq(Call)
  BY SourceAssumption DEF Call
<1> HIDE DEF b
<1>2. /\ Len(b) \in Nat /\ DOMAIN b = 1..Len(b)
      /\ \A i \in DOMAIN b : b[i] \in Call
  BY <1>1
<1> QED BY <1>2 DEF b

-----------------------------------------------------------------------------
(* What a search of the libraries finds.                                   *)

LEMMA FoundIn ==
  ASSUME GoodLibs, NEW n, Finds(n)
  PROVE  /\ \E l \in Lib : n \in DOMAIN libs[l] /\ Found(n) = libs[l][n]
         /\ n \in DOMAIN libs[curLib] => Found(n) = libs[curLib][n]
<1> DEFINE order == <<curLib>> \o Order
           has   == {k \in DOMAIN order : n \in DOMAIN libs[order[k]]}
           least == CHOOSE k \in has : \A j \in has : k <= j
<1>1. curLib \in Lib /\ Order \in Seq(Lib)
  BY SourceAssumption DEF GoodLibs
<1>2. /\ Len(Order) \in Nat /\ order \in Seq(Lib)
      /\ DOMAIN order = 1..(Len(Order) + 1)
      /\ order[1] = curLib
      /\ \A k \in 1..Len(Order) : order[k + 1] = Order[k]
  BY <1>1
<1> HIDE DEF order
<1>3. has # {} /\ has \subseteq Nat
  <2>1. PICK l \in Lib : n \in DOMAIN libs[l]
    BY DEF Finds
  <2>2. PICK k \in DOMAIN Order : Order[k] = l
    BY DEF Lib, ToSet
  <2>3. k \in 1..Len(Order)
    BY <1>1
  <2>4. k + 1 \in DOMAIN order /\ order[k + 1] = l
    BY <1>2, <2>2, <2>3
  <2> QED BY <1>2, <2>1, <2>4
<1>4. least \in has /\ \A j \in has : least <= j
  <2> HIDE DEF has
  <2>1. \E k \in has : \A j \in has : k <= j
    BY <1>3, LeastOf
  <2> QED BY <2>1
<1>5. Found(n) = libs[order[least]][n]
  BY DEF Found, FirstIn, order
<1> HIDE DEF least
<1>6. order[least] \in Lib /\ n \in DOMAIN libs[order[least]]
  BY <1>2, <1>4
<1>7. ASSUME n \in DOMAIN libs[curLib]
      PROVE  least = 1
  <2>1. 1 \in has
    BY <1>2, <1>7
  <2> QED BY <1>2, <1>4, <2>1
<1> QED BY <1>2, <1>5, <1>6, <1>7

\* What a library has under the name of a source text.
LEMMA UnderTitle ==
  ASSUME NEW lib, GoodLib(lib), NEW n \in DOMAIN lib, n \in Ident
  PROVE  /\ lib[n].src \in Src /\ Title[lib[n].src] = n
         /\ ~lib[n].elab => lib[n] = Raw(lib[n].src)
         /\ lib[n].elab => lib[n].src \notin HasPara
<1>1. CASE lib[n].elab
  <2>1. lib[n] \in Object /\ NewName(lib[n]) = n
    BY <1>1 DEF GoodLib, Good
  <2> QED BY <1>1, <2>1, UnderSource, NameFacts
<1>2. CASE ~lib[n].elab
  <2>1. PICK m \in Src : n = Title[m] /\ lib[n] = Raw(m)
    BY <1>2 DEF GoodLib
  <2> QED BY <1>2, <2>1 DEF Raw
<1> QED BY <1>1, <1>2

\* What a call binds to is good, under the name of the call, and comes from
\* the libraries.
LEMMA GoodCall ==
  ASSUME GoodLibs, NEW c, c.actual \in Val \cup {None}, Resolves(c)
  PROVE  /\ Good(Copy(c), CallName(c)) /\ CallName(c) \in Name
         /\ Backed(libs, Copy(c)) /\ HoldsIn(libs, Copy(c).src)
<1>1. PICK l \in Lib : c.mod \in DOMAIN libs[l] /\ Found(c.mod) = libs[l][c.mod]
  BY FoundIn DEF Resolves
<1> DEFINE o == libs[l][c.mod]
<1>2. GoodLib(libs[l]) /\ Backed(libs, o)
  BY <1>1 DEF GoodLibs
<1>3. c.actual = None \/ TakesPara(o)
  BY <1>1 DEF Resolves
<1>4. Good(SetPara(o, c.actual), NewName(SetPara(o, c.actual)))
  BY <1>1, <1>2, <1>3, GoodCopy
<1>5. Good(Copy(c), CallName(c)) /\ Copy(c) = SetPara(o, c.actual)
  BY <1>1, <1>4 DEF Copy, CallName
<1>6. Copy(c) \in Object /\ CallName(c) = NewName(Copy(c))
  BY <1>5 DEF Good
<1>7. Copy(c).src = o.src /\ Copy(c).elab = o.elab
  BY <1>5 DEF SetPara
<1>8. Backed(libs, Copy(c))
  <2>1. CASE o.elab
    <3>1. Copy(c) = o
      BY <1>3, <1>5, <2>1 DEF TakesPara, SetPara
    <3> QED BY <1>2, <3>1
  <2>2. CASE ~o.elab
    BY <1>7, <2>2 DEF Backed
  <2> QED BY <2>1, <2>2
<1>9. HoldsIn(libs, Copy(c).src)
  BY <1>1, <1>7 DEF HoldsIn
<1> QED BY <1>5, <1>6, <1>8, <1>9, NameFacts

\* A call of the source text binds to a module it may mean.
LEMMA SourceCall ==
  ASSUME GoodLibs, NEW c \in Call, Resolves(c)
  PROVE  /\ CallName(c) \in NamesOf(c)
         /\ c.actual = None => Explains(libs, c, CallName(c))
<1>1. PICK l \in Lib : c.mod \in DOMAIN libs[l] /\ Found(c.mod) = libs[l][c.mod]
  BY FoundIn DEF Resolves
<1> DEFINE o == libs[l][c.mod]
<1>2. /\ c.actual = None \/ TakesPara(o)
      /\ CallName(c) = NewName(SetPara(o, c.actual))
  BY <1>1 DEF Resolves, CallName
<1>3. c.mod \in Ident /\ c.actual \in Val \cup {None}
  BY MeantType
<1>4. /\ o.src \in Src /\ Title[o.src] = c.mod
      /\ ~o.elab => o = Raw(o.src)
      /\ o.elab => o.src \notin HasPara
  BY <1>1, <1>3, UnderTitle DEF GoodLibs
<1>5. CASE o.src \notin HasPara
  <2>1. c.actual = None
    BY <1>2, <1>5 DEF TakesPara
  <2>2. CallName(c) = c.mod
    BY <1>2, <1>4, <1>5, <2>1 DEF SetPara, NewName
  <2>3. None \in Meant(c)
    BY <1>4, <1>5, <2>1 DEF Meant
  <2>4. Explains(libs, c, CallName(c))
    BY <1>1, <1>3, <1>5 DEF Explains
  <2> QED BY <2>2, <2>3, <2>4 DEF NamesOf, Named
<1>6. CASE o.src \in HasPara
  <2> DEFINE d == SetPara(o, c.actual)
             v == IF c.actual = None THEN Default[o.src] ELSE c.actual
  <2>1. o \in Object /\ o.val = None
    BY <1>4, <1>6, RawFacts
  <2>2. d.src = o.src /\ d.val = IF c.actual = None THEN None ELSE c.actual
    <3> HIDE DEF o
    <3> QED BY <1>3, <2>1, SetParaFacts
  <2> HIDE DEF d
  <2>3. v \in Val /\ v # None
    BY <1>3, <1>6, SourceAssumption
  <2>4. NewName(d) = <<c.mod, v>>
    BY <1>4, <1>6, <2>2 DEF NewName, ParaValue
  <2>5. v \in Meant(c)
    BY <1>4, <1>6 DEF Meant
  <2>6. CallName(c) = Named(c.mod, v)
    BY <1>2, <2>3, <2>4 DEF Named, d
  <2>7. ASSUME c.actual = None
        PROVE  Explains(libs, c, CallName(c))
    <3>1. CallName(c) = <<c.mod, Default[o.src]>>
      BY <1>2, <2>4, <2>7 DEF d
    <3> QED BY <1>1, <1>3, <3>1 DEF Explains
  <2> HIDE DEF v
  <2> QED BY <2>5, <2>6, <2>7 DEF NamesOf
<1> QED BY <1>5, <1>6

\* A call by the name an instance got before binds to the module of that name,
\* or to another text of the name in the source: again to one it may mean.
LEMMA ElabCall ==
  ASSUME GoodLibs, NEW c \in Call, NEW n \in NamesOf(c),
         c.actual = None => Explains(libs, c, n),
         Resolves([mod |-> n, actual |-> None])
  PROVE  LET k == CallName([mod |-> n, actual |-> None])
         IN  k \in NamesOf(c) /\ (c.actual = None => Explains(libs, c, k))
<1> DEFINE k == CallName([mod |-> n, actual |-> None])
<1>1. PICK l \in Lib : n \in DOMAIN libs[l] /\ Found(n) = libs[l][n]
  BY FoundIn DEF Resolves
<1> DEFINE o == libs[l][n]
<1>2. k = NewName(o)
  BY <1>1 DEF CallName, SetPara
<1>3. GoodLib(libs[l])
  BY DEF GoodLibs
<1>4. CASE o.elab
  <2>1. NewName(o) = n
    BY <1>1, <1>3, <1>4 DEF GoodLib, Good
  <2> QED BY <1>2, <2>1
<1>5. CASE ~o.elab
  <2>1. PICK m \in Src : n = Title[m] /\ o = Raw(m)
    BY <1>1, <1>3, <1>5 DEF GoodLib
  <2>2. PICK v \in Meant(c) : n = Named(c.mod, v)
    BY DEF NamesOf
  <2>3. c.mod \in Ident /\ v \in Val \cup {None} /\ n \in Ident
    BY <2>1, MeantType DEF Ident
  <2>4. v = None
    BY <2>2, <2>3, NamedFacts
  <2>5. n = c.mod /\ c.actual = None
    BY <2>2, <2>4 DEF Named, Meant
  <2>6. Resolves(c) /\ CallName(c) = k
    BY <2>5 DEF Resolves, CallName
  <2> QED BY <2>5, <2>6, SourceCall
<1> QED BY <1>4, <1>5

\* Names are bound again the same way as long as the libraries agree.
LEMMA SameName ==
  ASSUME GoodLibs, NEW c \in Call, Agreed(c.mod),
         NEW x \in Object, HoldsIn(libs, x.src), NewName(x) \in NamesOf(c),
         NEW y \in Object, HoldsIn(libs, y.src), NewName(y) \in NamesOf(c),
         c.actual = None => Explains(libs, c, NewName(x)) /\ Explains(libs, c, NewName(y))
  PROVE  NewName(x) = NewName(y)
<1>1. c.mod \in Ident /\ Meant(c) \subseteq Val \cup {None}
  BY MeantType
<1>2. /\ Title[x.src] = c.mod /\ ParaValue(x) \in Meant(c)
      /\ Title[y.src] = c.mod /\ ParaValue(y) \in Meant(c)
  <2>1. ASSUME NEW z \in Object, NewName(z) \in NamesOf(c)
        PROVE  Title[z.src] = c.mod /\ ParaValue(z) \in Meant(c)
    <3>1. PICK v \in Meant(c) : NewName(z) = Named(c.mod, v)
      BY <2>1 DEF NamesOf
    <3>2. /\ Title[z.src] \in Ident /\ ParaValue(z) \in Val \cup {None}
          /\ NewName(z) = Named(Title[z.src], ParaValue(z))
      BY NameFacts
    <3> DEFINE k == Title[z.src]
               u == ParaValue(z)
    <3>3. k \in Ident /\ u \in Val \cup {None} /\ Named(k, u) = Named(c.mod, v)
      BY <3>1, <3>2
    <3>4. v \in Val \cup {None}
      BY <1>1
    <3> HIDE DEF k, u
    <3>5. k = c.mod /\ u = v
      BY <1>1, <3>3, <3>4, NamedFacts
    <3> QED BY <3>5 DEF k, u
  <2> QED BY <2>1
<1>3. CASE c.actual # None
  <2>1. Meant(c) = {c.actual}
    BY <1>3 DEF Meant
  <2> QED BY <1>2, <2>1, NameFacts
<1>4. CASE c.actual = None
  <2>1. \A z \in Src : Title[z] = c.mod /\ HoldsIn(libs, z) => z = x.src
    BY <1>2, NameFacts DEF Agreed, Holds, HoldsIn
  <2>2. y.src = x.src
    BY <1>2, <2>1, NameFacts
  <2>3. CASE x.src \notin HasPara
    BY <1>2, <2>2, <2>3, NameFacts
  <2>4. CASE x.src \in HasPara
    <3>1. ASSUME NEW n, Explains(libs, c, n)
          PROVE  n = <<c.mod, Default[x.src]>>
      <4>1. PICK l \in Lib :
              /\ c.mod \in Ident \cap DOMAIN libs[l]
              /\ libs[l][c.mod].src \in HasPara => n = <<c.mod, Default[libs[l][c.mod].src]>>
        BY <3>1 DEF Explains
      <4>2. libs[l][c.mod].src \in Src /\ Title[libs[l][c.mod].src] = c.mod
        BY <4>1, UnderTitle DEF GoodLibs
      <4>3. libs[l][c.mod].src = x.src
        BY <2>1, <4>1, <4>2 DEF HoldsIn
      <4> QED BY <2>4, <4>1, <4>3
    <3> QED BY <1>4, <3>1
  <2> QED BY <2>3, <2>4
<1> QED BY <1>3, <1>4

\* A module elaborated again is the one in work, as long as the libraries agree
\* about its text and those it instantiates.
LEMMA SameModule ==
  ASSUME IInv, NEW n \in DOMAIN libs[Work], NEW o, o = libs[Work][n], o.elab,
         n \in DOMAIN mmap, \A k \in DOMAIN mmap : mmap[k].elab,
         \A i \in DOMAIN mmap[n].inst : mmap[n].inst[i] \in DOMAIN mmap,
         Agreed(Title[o.src]),
         \A i \in DOMAIN Body[o.src][o.val] : Agreed(Body[o.src][o.val][i].mod)
  PROVE  mmap[n] = o
<1> DEFINE w == libs[Work]
           a == mmap[n]
           b == Body[o.src][o.val]
<1>1. /\ Work \in Lib /\ GoodLibs /\ GoodLib(w) /\ GoodMap /\ Closed
      /\ Backed(libs, o)
  BY SourceAssumption DEF IInv, GoodLibs
<1>2. Good(o, n) /\ Good(a, n) /\ a.elab /\ Backed(libs, a) /\ HoldsIn(libs, a.src)
  BY <1>1 DEF GoodLib, GoodMap
<1>3. /\ o \in Object /\ a \in Object /\ NewName(o) = NewName(a)
      /\ o.val = ParaValue(o) /\ Binds(o.inst, o.src, o.val)
      /\ a.val = ParaValue(a) /\ Binds(a.inst, a.src, a.val)
  BY <1>2 DEF Good
<1>4. Title[a.src] = Title[o.src] /\ a.val = o.val
  BY <1>3, NameFacts, NamedFacts
<1>5. a.src = o.src
  <2>1. HoldsIn(libs, o.src)
    BY <1>1 DEF HoldsIn
  <2> QED BY <1>2, <1>3, <1>4, <2>1, NameFacts DEF Agreed, Holds, HoldsIn
<1>6. /\ DOMAIN o.inst = DOMAIN b /\ DOMAIN a.inst = DOMAIN b
      /\ \A i \in DOMAIN b : /\ o.inst[i] \in NamesOf(b[i]) /\ a.inst[i] \in NamesOf(b[i])
                             /\ b[i] \in Call
  <2>1. o.src \in Src /\ o.val \in Val \cup {None}
    BY <1>3, NameFacts
  <2> QED BY <1>3, <1>4, <1>5, <2>1, BodyFacts DEF Binds
<1>7. ASSUME NEW i \in DOMAIN b
      PROVE  a.inst[i] = o.inst[i]
  <2> DEFINE x == mmap[a.inst[i]]
             y == w[o.inst[i]]
             c == b[i]
  <2>1. a.inst[i] \in DOMAIN mmap /\ o.inst[i] \in DOMAIN w /\ y.elab
    BY <1>1, <1>6 DEF Closed
  <2>2. /\ x \in Object /\ x.elab /\ NewName(x) = a.inst[i] /\ HoldsIn(libs, x.src)
        /\ y \in Object /\ NewName(y) = o.inst[i]
    BY <1>1, <2>1 DEF GoodMap, GoodLib, Good
  <2>3. HoldsIn(libs, y.src)
    BY <1>1, <2>1 DEF HoldsIn
  <2>4. /\ c \in Call /\ Agreed(c.mod)
        /\ NewName(x) \in NamesOf(c) /\ NewName(y) \in NamesOf(c)
    BY <1>6, <2>2
  <2>5. c.actual = None => Explains(libs, c, NewName(x)) /\ Explains(libs, c, NewName(y))
    BY <1>1, <1>2, <1>4, <1>5, <1>6, <2>2 DEF Backed
  <2> HIDE DEF x, y, c
  <2>6. NewName(x) = NewName(y)
    BY <1>1, <2>1, <2>2, <2>3, <2>4, <2>5, SameName DEF y
  <2> QED BY <2>2, <2>6
<1>8. a.inst = o.inst
  <2>1. a.inst \in Seq(Name) /\ o.inst \in Seq(Name)
    BY <1>3 DEF Object
  <2>2. \A f, g \in Seq(Name) :
          DOMAIN f = DOMAIN g /\ (\A i \in DOMAIN f : f[i] = g[i]) => f = g
    <3>1. \A f \in Seq(Name) : f = [i \in DOMAIN f |-> f[i]]
      OBVIOUS
    <3> QED BY <3>1
  <2> HIDE DEF a, b
  <2> QED BY <1>6, <1>7, <2>1, <2>2
<1> QED BY <1>2, <1>3, <1>4, <1>5, <1>8 DEF Object

LEMMA OverFacts ==
  ASSUME NEW f, NEW g
  PROVE  /\ DOMAIN Over(f, g) = DOMAIN f \cup DOMAIN g
         /\ \A n \in DOMAIN f : Over(f, g)[n] = f[n]
         /\ \A n \in DOMAIN g : n \notin DOMAIN f => Over(f, g)[n] = g[n]
BY DEF Over

\* What explains a name stays when a library gets new modules, and when a
\* module is replaced by one without parameter.
Keeps(ls, ks) ==
    \A l \in Lib : \A n \in DOMAIN ls[l] :
        /\ n \in DOMAIN ks[l]
        /\ n \in Ident /\ ks[l][n].src \in HasPara => ks[l][n].src = ls[l][n].src

LEMMA BackedKept ==
  ASSUME NEW ls, NEW ks, Keeps(ls, ks), NEW o, Backed(ls, o)
  PROVE  Backed(ks, o)
<1>1. ASSUME NEW c, NEW n, Explains(ls, c, n)
      PROVE  Explains(ks, c, n)
  <2>1. PICK l \in Lib :
          /\ c.mod \in Ident \cap DOMAIN ls[l]
          /\ ls[l][c.mod].src \in HasPara => n = <<c.mod, Default[ls[l][c.mod].src]>>
    BY <1>1 DEF Explains
  <2>2. /\ c.mod \in DOMAIN ks[l]
        /\ ks[l][c.mod].src \in HasPara => ks[l][c.mod].src = ls[l][c.mod].src
    BY <2>1 DEF Keeps
  <2> QED BY <2>1, <2>2 DEF Explains
<1> QED BY <1>1 DEF Backed

LEMMA EntryFacts ==
  ASSUME NEW n, NEW v
  PROVE  DOMAIN Entry(n, v) = {n} /\ Entry(n, v)[n] = v
BY DEF Entry

-----------------------------------------------------------------------------
(* The invariant holds at first and every command keeps it.                *)

LEMMA InitInv == Init => IInv
<1> SUFFICES ASSUME Init PROVE IInv
  OBVIOUS
<1>1. DOMAIN Empty = {}
  BY DEF Empty
<1>2. /\ libs = [l \in Lib |-> Empty] /\ curLib = Work /\ mmap = Empty
      /\ queue = <<>> /\ pc = "idle" /\ top = None
  BY DEF Init
<1>3. Work \in Lib
  BY SourceAssumption
<1>4. GoodLibs
  BY <1>1, <1>2, <1>3 DEF GoodLibs, GoodLib
<1>5. Closed
  BY <1>1, <1>2, <1>3 DEF Closed
<1>6. GoodQueue
  BY <1>2 DEF GoodQueue, IsInjective
<1>7. GoodMap /\ Waits /\ TopKept
  BY <1>1, <1>2 DEF GoodMap, Waits, TopKept
<1> QED BY <1>4, <1>5, <1>6, <1>7 DEF IInv

LEMMA AnalyzeInv ==
  ASSUME IInv, NEW l \in Lib, NEW m \in Src, Analyze(l, m)
  PROVE  /\ IInv'
         /\ \A n \in DOMAIN libs[Work] :
              n \in DOMAIN libs'[Work] /\ libs'[Work][n] = libs[Work][n]
<1> DEFINE t   == Title[m]
           new == Entry(t, Raw(m))
           lib == Over(libs[l], new)
<1>1. /\ curLib' = l /\ libs' = [libs EXCEPT ![l] = lib]
      /\ UNCHANGED <<pc, top, queue, mmap>>
  BY DEF Analyze
<1>2. GoodLibs /\ DOMAIN libs = Lib /\ Work \in Lib
  BY SourceAssumption DEF IInv, GoodLibs
<1>3. /\ DOMAIN lib = DOMAIN libs[l] \cup {t}
      /\ \A n \in DOMAIN libs[l] : lib[n] = libs[l][n]
      /\ t \notin DOMAIN libs[l] => lib[t] = Raw(m)
  <2>1. DOMAIN new = {t} /\ new[t] = Raw(m)
    BY EntryFacts
  <2>2. /\ DOMAIN lib = DOMAIN libs[l] \cup DOMAIN new
        /\ \A n \in DOMAIN libs[l] : lib[n] = libs[l][n]
        /\ \A n \in DOMAIN new : n \notin DOMAIN libs[l] => lib[n] = new[n]
    <3> HIDE DEF new
    <3> QED BY OverFacts
  <2> HIDE DEF new, lib
  <2> QED BY <2>1, <2>2
<1>4. GoodLib(libs[l])
  BY <1>2 DEF GoodLibs
<1> HIDE DEF lib
<1>5. ~Raw(m).elab
  BY DEF Raw
<1>6. GoodLib(lib)
  <2> SUFFICES ASSUME NEW n \in DOMAIN lib
               PROVE  IF lib[n].elab THEN Good(lib[n], n)
                      ELSE \E k \in Src : n = Title[k] /\ lib[n] = Raw(k)
    BY DEF GoodLib
  <2>1. CASE n \in DOMAIN libs[l]
    BY <1>3, <1>4, <2>1 DEF GoodLib
  <2>2. CASE n \notin DOMAIN libs[l]
    <3>1. n = t /\ lib[n] = Raw(m)
      BY <1>3, <2>2
    <3> QED BY <1>5, <3>1
  <2> QED BY <2>1, <2>2
<1>7. DOMAIN libs' = Lib /\ \A k \in Lib : libs'[k] = IF k = l THEN lib ELSE libs[k]
  BY <1>1, <1>2
<1>8. \A k \in Lib : \A n \in DOMAIN libs[k] :
        n \in DOMAIN libs'[k] /\ libs'[k][n] = libs[k][n]
  BY <1>3, <1>7
<1>9. Keeps(libs, libs') /\ \A k \in Src : HoldsIn(libs, k) => HoldsIn(libs', k)
  BY <1>8 DEF Keeps, HoldsIn
<1>10. \A k \in Lib : \A n \in DOMAIN libs'[k] :
         ~(k = l /\ n \notin DOMAIN libs[l]) => n \in DOMAIN libs[k] /\ libs'[k][n] = libs[k][n]
  BY <1>3, <1>7
<1>11. ASSUME NEW k \in Lib, NEW n \in DOMAIN libs'[k]
       PROVE  Backed(libs', libs'[k][n])
  <2>1. CASE k = l /\ n \notin DOMAIN libs[l]
    <3>1. libs'[k][n] = Raw(m)
      BY <1>3, <1>7, <2>1
    <3> QED BY <1>5, <3>1 DEF Backed
  <2>2. CASE ~(k = l /\ n \notin DOMAIN libs[l])
    <3>1. n \in DOMAIN libs[k] /\ libs'[k][n] = libs[k][n]
      BY <1>10, <2>2
    <3>2. Backed(libs, libs[k][n])
      BY <1>2, <3>1 DEF GoodLibs
    <3> QED BY <1>9, <3>1, <3>2, BackedKept
  <2> QED BY <2>1, <2>2
<1>12. GoodLibs'
  BY <1>1, <1>2, <1>6, <1>7, <1>11 DEF GoodLibs
<1>13. /\ DOMAIN libs[Work] \subseteq DOMAIN libs'[Work]
       /\ \A n \in DOMAIN libs[Work] : libs'[Work][n] = libs[Work][n]
       /\ \A n \in DOMAIN libs'[Work] : libs'[Work][n].elab => n \in DOMAIN libs[Work]
  BY <1>2, <1>3, <1>5, <1>7
<1>14. Closed'
  <2> SUFFICES ASSUME NEW n \in DOMAIN libs'[Work], libs'[Work][n].elab,
                      NEW i \in DOMAIN libs'[Work][n].inst
               PROVE  /\ libs'[Work][n].inst[i] \in DOMAIN libs'[Work]
                      /\ libs'[Work][libs'[Work][n].inst[i]].elab
    BY DEF Closed
  <2> QED BY <1>13 DEF IInv, Closed
<1>15. TopKept'
  BY <1>1, <1>13 DEF IInv, TopKept
<1>16. GoodMap'
  <2> SUFFICES ASSUME NEW n \in DOMAIN mmap
               PROVE  /\ n \in Name /\ Good(mmap[n], n)
                      /\ Backed(libs', mmap[n]) /\ HoldsIn(libs', mmap[n].src)
    BY <1>1 DEF GoodMap
  <2>1. /\ n \in Name /\ Good(mmap[n], n)
        /\ Backed(libs, mmap[n]) /\ HoldsIn(libs, mmap[n].src)
    BY DEF IInv, GoodMap
  <2>2. mmap[n].src \in Src
    BY <2>1, NameFacts DEF Good
  <2> QED BY <1>9, <2>1, <2>2, BackedKept
<1>17. GoodQueue' /\ Waits'
  BY <1>1 DEF IInv, GoodQueue, Waits
<1> QED BY <1>12, <1>13, <1>14, <1>15, <1>16, <1>17 DEF IInv

LEMMA StartInv ==
  ASSUME IInv, NEW l \in Lib, NEW n \in Name, NEW a \in Val \cup {None}, Start(l, n, a)
  PROVE  IInv' /\ UNCHANGED libs
<1> DEFINE home == IF n \in DOMAIN libs[l] THEN l ELSE Work
           d    == SetPara(libs[home][n], a)
<1>1. /\ n \in DOMAIN libs[home] /\ (a = None \/ TakesPara(libs[home][n]))
      /\ top' = NewName(d) /\ queue' = <<NewName(d)>>
      /\ mmap' = Entry(NewName(d), d) /\ pc' = "run"
      /\ UNCHANGED <<libs, curLib>>
  BY DEF Start
<1>2. home \in Lib
  BY SourceAssumption
<1>3. GoodLib(libs[home]) /\ Backed(libs, libs[home][n])
  BY <1>1, <1>2 DEF IInv, GoodLibs
<1>4. Good(d, NewName(d))
  <2> HIDE DEF home
  <2> QED BY <1>1, <1>3, GoodCopy
<1>10. Backed(libs, d) /\ HoldsIn(libs, d.src)
  <2> DEFINE o == libs[home][n]
  <2>1. d.src = o.src /\ d.elab = o.elab
    BY DEF SetPara
  <2>2. o.elab => d = o
    BY <1>1 DEF TakesPara, SetPara
  <2>3. HoldsIn(libs, o.src)
    <3> HIDE DEF home
    <3> QED BY <1>1, <1>2 DEF HoldsIn
  <2> HIDE DEF d, o
  <2>4. Backed(libs, d)
    BY <1>3, <2>1, <2>2 DEF Backed, o
  <2> QED BY <2>1, <2>3, <2>4
<1> HIDE DEF home, d
<1>5. NewName(d) \in Name
  BY <1>4, NameFacts DEF Good
<1>6. DOMAIN mmap' = {NewName(d)} /\ mmap'[NewName(d)] = d
  BY <1>1, EntryFacts
<1>7. GoodMap'
  BY <1>1, <1>4, <1>5, <1>6, <1>10 DEF GoodMap
<1>8. GoodQueue' /\ Waits'
  <2>1. /\ queue' \in Seq(DOMAIN mmap') /\ DOMAIN queue' = {1}
        /\ queue'[1] = NewName(d)
    BY <1>1, <1>6
  <2> QED BY <1>1, <1>6, <2>1 DEF GoodQueue, Waits, IsInjective, ToSet
<1>9. TopKept' /\ Closed' /\ GoodLibs'
  BY <1>1, <1>6 DEF IInv, TopKept, Closed, GoodLibs
<1> QED BY <1>1, <1>7, <1>8, <1>9 DEF IInv

LEMMA FailInv ==
  ASSUME IInv, Fail
  PROVE  IInv' /\ UNCHANGED libs
<1>1. /\ pc' = "idle" /\ top' = None /\ queue' = <<>> /\ mmap' = Empty
      /\ UNCHANGED <<libs, curLib>>
  BY DEF Fail
<1>2. DOMAIN mmap' = {}
  BY <1>1 DEF Empty
<1>3. GoodMap' /\ Waits' /\ TopKept'
  BY <1>1, <1>2 DEF GoodMap, Waits, TopKept
<1>4. GoodQueue'
  BY <1>1 DEF GoodQueue, IsInjective
<1>5. GoodLibs' /\ Closed'
  BY <1>1 DEF IInv, GoodLibs, Closed
<1> QED BY <1>1, <1>3, <1>4, <1>5 DEF IInv

\* A step of Stable.
StableStep ==
    \A n \in DOMAIN libs[Work] : LET o == libs[Work][n] IN o.elab =>
        /\ n \in DOMAIN libs'[Work] /\ libs'[Work][n].elab
        /\ /\ Agreed(Title[o.src])
           /\ \A i \in DOMAIN Body[o.src][o.val] : Agreed(Body[o.src][o.val][i].mod)
           => libs'[Work][n] = o

LEMMA SaveInv ==
  ASSUME IInv, Save
  PROVE  /\ IInv'
         /\ StableStep
<1> DEFINE lib == Over(mmap, libs[Work])
<1>1. /\ pc = "run" /\ queue = <<>> /\ pc' = "idle" /\ mmap' = Empty
      /\ libs' = [libs EXCEPT ![Work] = lib]
      /\ UNCHANGED <<curLib, top, queue>>
  BY DEF Save, Swapped
<1>2. Work \in Lib /\ DOMAIN libs = Lib /\ GoodLib(libs[Work])
  BY SourceAssumption DEF IInv, GoodLibs
<1>3. /\ DOMAIN lib = DOMAIN mmap \cup DOMAIN libs[Work]
      /\ \A n \in DOMAIN mmap : lib[n] = mmap[n]
      /\ \A n \in DOMAIN libs[Work] : n \notin DOMAIN mmap => lib[n] = libs[Work][n]
  BY OverFacts
<1> HIDE DEF lib
<1>4. /\ libs'[Work] = lib /\ DOMAIN libs' = Lib
      /\ \A l \in Lib \ {Work} : libs'[l] = libs[l]
  BY <1>1, <1>2
<1>5. \A n \in DOMAIN mmap :
        /\ mmap[n].elab
        /\ \A k \in DOMAIN mmap[n].inst : mmap[n].inst[k] \in DOMAIN mmap
  <2>1. ToSet(queue) = {}
    BY <1>1 DEF ToSet
  <2> QED BY <2>1 DEF IInv, Waits
<1>6. \A n \in DOMAIN mmap : Good(mmap[n], n)
  BY DEF IInv, GoodMap
<1>7. GoodLib(lib)
  BY <1>2, <1>3, <1>5, <1>6 DEF GoodLib
<1>15. Keeps(libs, libs')
  <2> SUFFICES ASSUME NEW l \in Lib, NEW n \in DOMAIN libs[l]
               PROVE  /\ n \in DOMAIN libs'[l]
                      /\ n \in Ident /\ libs'[l][n].src \in HasPara =>
                           libs'[l][n].src = libs[l][n].src
    BY DEF Keeps
  <2>1. CASE l = Work /\ n \in DOMAIN mmap
    <3>1. libs'[l][n] = mmap[n] /\ n \in DOMAIN libs'[l]
      BY <1>3, <1>4, <2>1
    <3>2. n \in Ident => mmap[n].src \notin HasPara
      BY <1>6, <2>1, UnderSource DEF Good
    <3> QED BY <3>1, <3>2
  <2>2. CASE ~(l = Work /\ n \in DOMAIN mmap)
    BY <1>3, <1>4, <2>2
  <2> QED BY <2>1, <2>2
<1>16. ASSUME NEW l \in Lib, NEW n \in DOMAIN libs'[l]
       PROVE  Backed(libs', libs'[l][n])
  <2>1. CASE l = Work /\ n \in DOMAIN mmap
    <3>1. libs'[l][n] = mmap[n]
      BY <1>3, <1>4, <2>1
    <3>2. Backed(libs, mmap[n])
      BY <2>1 DEF IInv, GoodMap
    <3> QED BY <1>15, <3>1, <3>2, BackedKept
  <2>2. CASE ~(l = Work /\ n \in DOMAIN mmap)
    <3>1. n \in DOMAIN libs[l] /\ libs'[l][n] = libs[l][n]
      BY <1>3, <1>4, <2>2
    <3>2. Backed(libs, libs[l][n])
      BY <3>1 DEF IInv, GoodLibs
    <3> QED BY <1>15, <3>1, <3>2, BackedKept
  <2> QED BY <2>1, <2>2
<1>8. GoodLibs'
  BY <1>1, <1>2, <1>4, <1>7, <1>16 DEF IInv, GoodLibs
<1>9. Closed'
  <2> SUFFICES ASSUME NEW n \in DOMAIN lib, lib[n].elab, NEW i \in DOMAIN lib[n].inst
               PROVE  lib[n].inst[i] \in DOMAIN lib /\ lib[lib[n].inst[i]].elab
    BY <1>4 DEF Closed
  <2>1. CASE n \in DOMAIN mmap
    BY <1>3, <1>5, <2>1
  <2>2. CASE n \notin DOMAIN mmap
    <3>1. n \in DOMAIN libs[Work] /\ lib[n] = libs[Work][n]
      BY <1>3, <2>2
    <3>2. lib[n].inst[i] \in DOMAIN libs[Work] /\ libs[Work][lib[n].inst[i]].elab
      BY <3>1 DEF IInv, Closed
    <3> QED BY <1>3, <1>5, <3>2
  <2> QED BY <2>1, <2>2
<1>10. top' \in DOMAIN lib /\ lib[top'].elab
  BY <1>1, <1>3, <1>5 DEF IInv, TopKept
<1>11. DOMAIN mmap' = {}
  BY <1>1 DEF Empty
<1>12. GoodMap' /\ Waits' /\ TopKept'
  BY <1>1, <1>4, <1>10, <1>11 DEF GoodMap, Waits, TopKept
<1>13. GoodQueue'
  BY <1>1 DEF GoodQueue, IsInjective
<1>14. StableStep
  <2> SUFFICES ASSUME NEW n \in DOMAIN libs[Work], NEW o, o = libs[Work][n], o.elab
               PROVE  /\ n \in DOMAIN libs'[Work] /\ libs'[Work][n].elab
                      /\ /\ Agreed(Title[o.src])
                         /\ \A i \in DOMAIN Body[o.src][o.val] :
                              Agreed(Body[o.src][o.val][i].mod)
                         => libs'[Work][n] = o
    BY DEF StableStep
  <2>1. CASE n \in DOMAIN mmap
    <3>1. n \in DOMAIN libs'[Work] /\ libs'[Work][n] = mmap[n] /\ mmap[n].elab
      BY <1>3, <1>4, <1>5, <2>1
    <3>2. ASSUME Agreed(Title[o.src]),
                 \A i \in DOMAIN Body[o.src][o.val] : Agreed(Body[o.src][o.val][i].mod)
          PROVE  mmap[n] = o
      BY <1>5, <2>1, <3>2, SameModule
    <3> QED BY <3>1, <3>2
  <2>2. CASE n \notin DOMAIN mmap
    BY <1>3, <1>4, <2>2
  <2> QED BY <2>1, <2>2
<1> QED BY <1>8, <1>9, <1>12, <1>13, <1>14 DEF IInv

\* The instances of the module at the head of the queue take names the source
\* allows, and what is queued for them is good.
LEMMA TurnNames ==
  ASSUME GoodLibs, NEW o, NEW n, Good(o, n), Backed(libs, o),
         \A i \in DOMAIN Calls(o) : Resolves(Calls(o)[i]),
         NEW names, names = [i \in DOMAIN Calls(o) |-> CallName(Calls(o)[i])]
  PROVE  /\ names \in Seq(Name) /\ DOMAIN names = DOMAIN Calls(o)
         /\ Binds(names, o.src, ParaValue(o))
         /\ \A i \in DOMAIN names : LET c == Body[o.src][ParaValue(o)][i] IN
              c.actual = None => Explains(libs, c, names[i])
         /\ \A i \in DOMAIN Calls(o) :
              /\ names[i] \in Name /\ Good(Copy(Calls(o)[i]), names[i])
              /\ Backed(libs, Copy(Calls(o)[i])) /\ HoldsIn(libs, Copy(Calls(o)[i]).src)
<1> DEFINE v == ParaValue(o)
           b == Body[o.src][v]
<1>1. o \in Object /\ o.src \in Src /\ v \in Val \cup {None}
  BY NameFacts DEF Good
<1>2. /\ Len(b) \in Nat /\ DOMAIN b = 1..Len(b)
      /\ \A i \in DOMAIN b : b[i] \in Call
  BY <1>1, BodyFacts
<1> HIDE DEF b
<1>3. /\ DOMAIN Calls(o) = DOMAIN b
      /\ \A i \in DOMAIN b :
           /\ CallName(Calls(o)[i]) \in NamesOf(b[i])
           /\ b[i].actual = None => Explains(libs, b[i], CallName(Calls(o)[i]))
           /\ Calls(o)[i].actual \in Val \cup {None}
  <2>1. CASE o.elab
    <3>1. o.val = v /\ Binds(o.inst, o.src, v)
      BY <2>1 DEF Good
    <3>2. /\ DOMAIN Calls(o) = DOMAIN o.inst /\ DOMAIN o.inst = DOMAIN b
          /\ \A i \in DOMAIN b : /\ Calls(o)[i] = [mod |-> o.inst[i], actual |-> None]
                                 /\ o.inst[i] \in NamesOf(b[i])
      BY <2>1, <3>1 DEF Calls, Binds, b
    <3>3. ASSUME NEW i \in DOMAIN b
          PROVE  /\ CallName(Calls(o)[i]) \in NamesOf(b[i])
                 /\ b[i].actual = None => Explains(libs, b[i], CallName(Calls(o)[i]))
      <4> DEFINE c == b[i]
                 m == o.inst[i]
      <4>1. c \in Call /\ m \in NamesOf(c)
        BY <1>2, <3>2
      <4>2. Resolves([mod |-> m, actual |-> None])
        BY <3>2
      <4>3. c.actual = None => Explains(libs, c, m)
        BY <2>1, <3>1, <3>2 DEF Backed, b
      <4> HIDE DEF c, m
      <4>4. LET k == CallName([mod |-> m, actual |-> None])
            IN  k \in NamesOf(c) /\ (c.actual = None => Explains(libs, c, k))
        BY <4>1, <4>2, <4>3, ElabCall
      <4> QED BY <3>2, <4>4 DEF c, m
    <3> QED BY <3>2, <3>3
  <2>2. CASE ~o.elab
    <3>1. Calls(o) = b
      BY <2>2 DEF Calls, b
    <3>2. ASSUME NEW i \in DOMAIN b
          PROVE  /\ CallName(b[i]) \in NamesOf(b[i])
                 /\ b[i].actual = None => Explains(libs, b[i], CallName(b[i]))
                 /\ b[i].actual \in Val \cup {None}
      <4>1. b[i] \in Call /\ Resolves(b[i])
        BY <1>2, <3>1
      <4> QED BY <4>1, SourceCall, MeantType
    <3> QED BY <3>1, <3>2
  <2> QED BY <2>1, <2>2
<1>4. /\ DOMAIN names = DOMAIN b
      /\ \A i \in DOMAIN b : names[i] = CallName(Calls(o)[i])
  BY <1>3
<1>5. \A i \in DOMAIN b : NamesOf(b[i]) \subseteq Name
  BY <1>2, MeantType
<1>6. names \in Seq(Name)
  <2>1. names \in [1..Len(b) -> Name]
    BY <1>2, <1>3, <1>4, <1>5
  <2> QED BY <1>2, <2>1
<1>7. Binds(names, o.src, v)
  BY <1>3, <1>4 DEF Binds, b
<1>8. ASSUME NEW i \in DOMAIN Calls(o)
      PROVE  /\ names[i] \in Name /\ Good(Copy(Calls(o)[i]), names[i])
             /\ Backed(libs, Copy(Calls(o)[i])) /\ HoldsIn(libs, Copy(Calls(o)[i]).src)
  <2> DEFINE c == Calls(o)[i]
  <2>1. c.actual \in Val \cup {None} /\ Resolves(c) /\ names[i] = CallName(c)
    BY <1>3, <1>4
  <2> HIDE DEF c
  <2>2. /\ Good(Copy(c), CallName(c)) /\ CallName(c) \in Name
        /\ Backed(libs, Copy(c)) /\ HoldsIn(libs, Copy(c).src)
    BY <2>1, GoodCall
  <2> QED BY <2>1, <2>2 DEF c
<1>9. \A i \in DOMAIN names : b[i].actual = None => Explains(libs, b[i], names[i])
  BY <1>3, <1>4
<1> QED BY <1>3, <1>4, <1>6, <1>7, <1>8, <1>9 DEF b

LEMMA ElabInv ==
  ASSUME IInv, Elab
  PROVE  IInv' /\ UNCHANGED libs
<1> DEFINE h     == Head(queue)
           o     == mmap[h]
           calls == Calls(o)
           names == [i \in DOMAIN calls |-> CallName(calls[i])]
           U     == Unseen(names)
           done  == [src |-> o.src, val |-> ParaValue(o), elab |-> TRUE, inst |-> names]
<1>1. /\ pc = "run" /\ queue # <<>> /\ UNCHANGED <<libs, curLib, pc, top>>
      /\ GoodLibs /\ GoodMap /\ Waits /\ TopKept /\ Closed
      /\ queue \in Seq(DOMAIN mmap) /\ IsInjective(queue)
  BY DEF Elab, IInv, GoodQueue
<1>2. h \in DOMAIN mmap /\ h \in Name
  BY <1>1 DEF GoodMap
<1>3. Good(o, h) /\ Backed(libs, o) /\ HoldsIn(libs, o.src)
  BY <1>1, <1>2 DEF GoodMap
<1>4. \A i \in DOMAIN calls : Resolves(calls[i])
  BY DEF Elab
<1>5. /\ names \in Seq(Name) /\ DOMAIN names = DOMAIN calls
      /\ Binds(names, o.src, ParaValue(o))
      /\ \A i \in DOMAIN names : LET c == Body[o.src][ParaValue(o)][i] IN
           c.actual = None => Explains(libs, c, names[i])
      /\ \A i \in DOMAIN calls :
           /\ names[i] \in Name /\ Good(Copy(calls[i]), names[i])
           /\ Backed(libs, Copy(calls[i])) /\ HoldsIn(libs, Copy(calls[i]).src)
  <2> HIDE DEF o, h
  <2> QED BY <1>1, <1>3, <1>4, TurnNames
<1>6. PICK order \in SetToSeqs(U) :
        /\ queue' = Tail(queue) \o order
        /\ mmap' = Over([n \in ToSet(order) |->
                           Copy(calls[CHOOSE i \in DOMAIN names : names[i] = n])],
                        Over(Entry(h, done), mmap))
  <2> DEFINE Turn(w, r) ==
               /\ queue' = Tail(queue) \o r
               /\ mmap' = Over([n \in ToSet(r) |->
                                  Copy(calls[CHOOSE i \in DOMAIN w : w[i] = n])],
                               Over(Entry(h, [src |-> o.src, val |-> ParaValue(o),
                                              elab |-> TRUE, inst |-> w]), mmap))
  <2>1. \E w \in {names} : \E r \in SetToSeqs(Unseen(w)) : Turn(w, r)
    BY DEF Elab
  <2>2. \E r \in SetToSeqs(Unseen(names)) : Turn(names, r)
    <3> HIDE DEF Turn, names
    <3> QED BY <2>1
  <2> QED BY <2>2
<1>7. /\ o \in Object /\ o.src \in Src /\ ParaValue(o) \in Val \cup {None}
      /\ names \in Seq(Name) /\ DOMAIN names = DOMAIN calls
  BY <1>3, <1>5, NameFacts DEF Good
<1>8. /\ done \in Object /\ Good(done, h)
      /\ Backed(libs, done) /\ HoldsIn(libs, done.src)
  <2> HIDE DEF names
  <2>1. done \in Object
    BY <1>7 DEF Object
  <2>2. ParaValue(done) = ParaValue(o)
    BY <1>7, SourceAssumption DEF ParaValue
  <2>3. NewName(done) = NewName(o)
    BY <2>2 DEF NewName
  <2>4. done.src \in HasPara \/ done.val = None
    BY DEF ParaValue
  <2>5. Binds(done.inst, done.src, done.val) /\ Backed(libs, done)
    BY <1>5 DEF Backed
  <2> QED BY <1>3, <2>1, <2>2, <2>3, <2>4, <2>5 DEF Good
<1> DEFINE new == [n \in ToSet(order) |->
                     Copy(calls[CHOOSE i \in DOMAIN names : names[i] = n])]
           head == Entry(h, done)
           old == Over(head, mmap)
<1>9. DOMAIN head = {h} /\ head[h] = done
  BY EntryFacts
<1>10. done.elab /\ done.inst = names
  OBVIOUS
<1> HIDE DEF o, calls, names, done, h
<1>11. \A n \in U : \E i \in DOMAIN names : names[i] = n
  BY DEF Unseen, ToSet
<1>12. IsFiniteSet(U) /\ U \cap DOMAIN mmap = {}
  <2>1. names \in [1..Len(names) -> Name] /\ Len(names) \in Nat
        /\ DOMAIN names = 1..Len(names)
    BY <1>7
  <2>2. names \in Surjection(1..Len(names), ToSet(names))
    BY <2>1 DEF Surjection, ToSet
  <2>3. IsFiniteSet(1..Len(names))
    BY <2>1, FS_Interval
  <2>4. IsFiniteSet(ToSet(names))
    BY <2>2, <2>3, FS_Surjection
  <2>5. U \subseteq ToSet(names)
    BY DEF Unseen
  <2> QED BY <2>4, <2>5, FS_Subset DEF Unseen
<1> HIDE DEF U
<1>13. /\ order \in Seq(U) /\ IsInjective(order) /\ ToSet(order) = U
  BY <1>6, <1>12, SetOrder
<1>14. /\ DOMAIN new = U
       /\ \A n \in U : /\ n \in Name /\ Good(new[n], n)
                       /\ Backed(libs, new[n]) /\ HoldsIn(libs, new[n].src)
  <2>1. DOMAIN new = U
    BY <1>13
  <2>2. ASSUME NEW n \in U
        PROVE  /\ n \in Name /\ Good(new[n], n)
               /\ Backed(libs, new[n]) /\ HoldsIn(libs, new[n].src)
    <3> DEFINE i == CHOOSE i \in DOMAIN names : names[i] = n
    <3>1. i \in DOMAIN names /\ names[i] = n
      BY <1>11
    <3>2. new[n] = Copy(calls[i])
      BY <1>13
    <3> HIDE DEF i, new
    <3> QED BY <1>5, <1>7, <3>1, <3>2
  <2> QED BY <2>1, <2>2
<1> HIDE DEF head, new
<1>15. /\ DOMAIN old = DOMAIN mmap /\ old[h] = done
       /\ \A n \in DOMAIN mmap \ {h} : old[n] = mmap[n]
  <2>1. /\ DOMAIN old = DOMAIN head \cup DOMAIN mmap
        /\ \A n \in DOMAIN head : old[n] = head[n]
        /\ \A n \in DOMAIN mmap : n \notin DOMAIN head => old[n] = mmap[n]
    BY OverFacts
  <2> HIDE DEF old
  <2> QED BY <1>2, <1>9, <2>1
<1>16. mmap' = Over(new, old)
  BY <1>6 DEF new, old, head
<1> HIDE DEF old
<1>17. /\ DOMAIN mmap' = DOMAIN mmap \cup U /\ mmap'[h] = done
       /\ \A n \in DOMAIN mmap \ {h} : mmap'[n] = mmap[n]
       /\ \A n \in U : mmap'[n] = new[n]
  <2>1. /\ DOMAIN Over(new, old) = DOMAIN new \cup DOMAIN old
        /\ \A n \in DOMAIN new : Over(new, old)[n] = new[n]
        /\ \A n \in DOMAIN old : n \notin DOMAIN new => Over(new, old)[n] = old[n]
    BY OverFacts
  <2> QED BY <1>2, <1>12, <1>14, <1>15, <1>16, <2>1
<1>18. GoodMap'
  <2> SUFFICES ASSUME NEW n \in DOMAIN mmap'
               PROVE  /\ n \in Name /\ Good(mmap'[n], n)
                      /\ Backed(libs, mmap'[n]) /\ HoldsIn(libs, mmap'[n].src)
    BY <1>1 DEF GoodMap
  <2> QED BY <1>1, <1>2, <1>8, <1>14, <1>17 DEF GoodMap
<1>19. /\ queue' \in Seq(DOMAIN mmap \cup U) /\ IsInjective(queue')
       /\ ToSet(queue) \ {h} \subseteq ToSet(queue') /\ U \subseteq ToSet(queue')
  <2>1. DOMAIN mmap \cap U = {} /\ queue' = Turned(queue, order)
    BY <1>6, <1>12 DEF Turned
  <2>2. /\ queue' \in Seq(DOMAIN mmap \cup U) /\ IsInjective(queue')
        /\ ToSet(queue) \ {Head(queue)} \subseteq ToSet(queue')
        /\ ToSet(order) \subseteq ToSet(queue')
    BY <1>1, <1>13, <2>1, TurnOfQueue
  <2> QED BY <1>13, <2>2 DEF h
<1>20. GoodQueue'
  BY <1>1, <1>17, <1>19 DEF GoodQueue
<1>21. Waits'
  <2> SUFFICES ASSUME NEW n \in DOMAIN mmap', n \notin ToSet(queue')
               PROVE  /\ mmap'[n].elab
                      /\ \A k \in DOMAIN mmap'[n].inst : mmap'[n].inst[k] \in DOMAIN mmap'
    BY DEF Waits
  <2>1. n \in DOMAIN mmap
    BY <1>13, <1>17, <1>19
  <2>2. CASE n = h
    <3>1. \A k \in DOMAIN names : names[k] \in DOMAIN mmap \cup U
      BY DEF U, Unseen, ToSet
    <3> QED BY <1>10, <1>17, <2>2, <3>1
  <2>3. CASE n # h
    <3>1. n \notin ToSet(queue)
      BY <1>19, <2>3
    <3>2. /\ mmap[n].elab
          /\ \A k \in DOMAIN mmap[n].inst : mmap[n].inst[k] \in DOMAIN mmap
      BY <1>1, <2>1, <3>1 DEF Waits
    <3> QED BY <1>17, <2>1, <2>3, <3>2
  <2> QED BY <2>2, <2>3
<1>22. GoodLibs' /\ Closed' /\ TopKept'
  BY <1>1, <1>17 DEF GoodLibs, Closed, TopKept
<1> QED BY <1>1, <1>18, <1>20, <1>21, <1>22 DEF IInv

LEMMA SetCurrentInv ==
  ASSUME IInv, NEW n \in Name, SetCurrent(n)
  PROVE  IInv' /\ UNCHANGED libs
<1>1. UNCHANGED <<libs, curLib, pc, top, queue, mmap>>
  BY DEF SetCurrent
<1> QED BY <1>1 DEF IInv, GoodLibs, GoodMap, GoodQueue, Waits, TopKept, Closed

LEMMA NextInv ==
  ASSUME IInv, [Next]_vars
  PROVE  IInv' /\ StableStep
<1>0. UNCHANGED libs => StableStep
  BY DEF StableStep
<1>1. CASE UNCHANGED vars
  BY <1>0, <1>1 DEF vars, IInv, GoodLibs, GoodMap, GoodQueue, Waits, TopKept, Closed
<1>2. CASE \E l \in Lib, m \in Src : Analyze(l, m)
  BY <1>2, AnalyzeInv DEF StableStep
<1>3. CASE \E n \in Name : SetCurrent(n)
  BY <1>0, <1>3, SetCurrentInv
<1>4. CASE \E l \in Lib, n \in Name, a \in Val \cup {None} : Start(l, n, a)
  BY <1>0, <1>4, StartInv
<1>5. CASE Elab
  BY <1>0, <1>5, ElabInv
<1>6. CASE Fail
  BY <1>0, <1>6, FailInv
<1>7. CASE Save
  BY <1>7, SaveInv
<1> QED BY <1>1, <1>2, <1>3, <1>4, <1>5, <1>6, <1>7 DEF Next

\* The invariant that is inductive: objects are what their names say, a module
\* of the map waits or has its instances in the map, and what is saved is
\* closed.
THEOREM Invariant == Spec => []IInv
<1>1. Init => IInv
  BY InitInv
<1>2. IInv /\ [Next]_vars => IInv'
  BY NextInv
<1> QED BY <1>1, <1>2, PTL DEF Spec

-----------------------------------------------------------------------------
(* What follows.                                                           *)

\* A module is kept under the name its parameters give it, in the map and in
\* every library: calculate_name is the same before and after elaboration.
THEOREM TypeOKHolds == Spec => []TypeOK
<1>1. IInv => TypeOK
  BY DEF IInv, GoodLibs, GoodLib, GoodMap, Good, TopKept, TypeOK
<1> QED BY <1>1, Invariant, PTL

\* The loop of elaborate: no module is lost and none is queued twice, for
\* every order in which the instances of a module are visited.
THEOREM OnceEachHolds == Spec => []OnceEach
<1>1. ASSUME IInv
      PROVE  OnceEach
  <2>1. queue \in Seq(DOMAIN mmap) /\ IsInjective(queue) /\ Waits
    BY <1>1 DEF IInv, GoodQueue
  <2>2. DOMAIN queue = 1..Len(queue) /\ \A k \in DOMAIN queue : queue[k] \in DOMAIN mmap
    BY <2>1
  <2>3. ToSet(queue) \subseteq DOMAIN mmap
    BY <2>2 DEF ToSet
  <2>4. \A n \in ToSet(queue) : Contains(queue, n)
    BY <2>2 DEF ToSet, Contains
  <2> QED BY <2>1, <2>3, <2>4 DEF OnceEach, Waits
<1> QED BY <1>1, Invariant, PTL

\* Below an elaborated module of work there are only elaborated modules of
\* work, after any commands, those that failed half way included.
THEOREM ClosedHolds == Spec => []Closed
<1>1. IInv => Closed
  BY DEF IInv
<1> QED BY <1>1, Invariant, PTL

\* Every instance is bound to an elaborated module of the name the source
\* gives, with the value the instance gives or a default some text of that name
\* has, from whichever library the module was taken.
THEOREM BoundHolds == Spec => []Bound
<1>1. ASSUME IInv
      PROVE  Bound
  <2> SUFFICES ASSUME NEW n \in DOMAIN libs[Work], libs[Work][n].elab
               PROVE  LET o == libs[Work][n]
                          calls == Body[o.src][o.val]
                      IN  /\ DOMAIN o.inst = DOMAIN calls
                          /\ \A i \in DOMAIN calls : LET below == libs[Work][o.inst[i]] IN
                                /\ Title[below.src] = calls[i].mod
                                /\ below.val \in Meant(calls[i])
    BY DEF Bound
  <2> DEFINE o == libs[Work][n]
             calls == Body[o.src][o.val]
  <2>1. GoodLib(libs[Work]) /\ Closed
    BY <1>1, SourceAssumption DEF IInv, GoodLibs
  <2>2. Good(o, n) /\ o.elab
    BY <2>1 DEF GoodLib
  <2>3. /\ o.src \in Src /\ o.val \in Val \cup {None}
        /\ Binds(o.inst, o.src, o.val)
    BY <2>2, NameFacts DEF Good
  <2>4. /\ DOMAIN o.inst = DOMAIN calls
        /\ \A i \in DOMAIN calls : calls[i] \in Call /\ o.inst[i] \in NamesOf(calls[i])
    <3> HIDE DEF o
    <3> QED BY <2>3, BodyFacts DEF Binds
  <2>5. ASSUME NEW i \in DOMAIN calls
        PROVE  /\ Title[libs[Work][o.inst[i]].src] = calls[i].mod
               /\ libs[Work][o.inst[i]].val \in Meant(calls[i])
    <3> DEFINE c == calls[i]
               below == libs[Work][o.inst[i]]
               t == Title[below.src]
               u == ParaValue(below)
    <3>1. o.inst[i] \in DOMAIN libs[Work] /\ below.elab
      BY <2>1, <2>4 DEF Closed
    <3>2. Good(below, o.inst[i])
      BY <2>1, <3>1 DEF GoodLib
    <3>3. /\ below \in Object /\ NewName(below) \in NamesOf(c)
          /\ below.val = u /\ c \in Call
      BY <2>4, <3>1, <3>2 DEF Good
    <3> HIDE DEF c, below
    <3>4. PICK v \in Meant(c) : NewName(below) = Named(c.mod, v)
      BY <3>3 DEF NamesOf
    <3>5. c.mod \in Ident /\ v \in Val \cup {None}
      BY <3>3, MeantType
    <3>6. t \in Ident /\ u \in Val \cup {None} /\ Named(t, u) = Named(c.mod, v)
      BY <3>3, <3>4, NameFacts
    <3> HIDE DEF t, u
    <3>7. t = c.mod /\ u = v
      BY <3>5, <3>6, NamedFacts
    <3> QED BY <3>3, <3>7 DEF c, below, t
  <2> QED BY <2>4, <2>5
<1> QED BY <1>1, Invariant, PTL

\* With work as the current library, the search for the design that was
\* elaborated last finds its elaborated module, whatever the other libraries
\* have under that name.
THEOREM SavedFoundHolds == Spec => []SavedFound
<1>1. ASSUME IInv
      PROVE  SavedFound
  <2> SUFFICES ASSUME pc = "idle", top # None, curLib = Work
               PROVE  Found(top).elab
    BY DEF SavedFound
  <2>1. GoodLibs /\ Work \in Lib /\ top \in DOMAIN libs[Work] /\ libs[Work][top].elab
    BY <1>1, SourceAssumption DEF IInv, TopKept
  <2>2. Finds(top)
    BY <2>1 DEF Finds
  <2>3. Found(top) = libs[curLib][top]
    BY <2>1, <2>2, FoundIn
  <2> QED BY <2>1, <2>3
<1> QED BY <1>1, Invariant, PTL

\* Library::swap replaces an elaborated module only by an elaborated one, and by
\* an equal one unless the libraries hold different texts of it or of a
\* module it instantiates.
THEOREM StableHolds == Spec => Stable
<1>1. IInv /\ [Next]_vars => [StableStep]_vars
  BY NextInv
<1> QED BY <1>1, Invariant, PTL DEF Spec, Stable, StableStep
=============================================================================
