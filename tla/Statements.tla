----------------------------- MODULE Statements -----------------------------
(***************************************************************************)
(* get_rforest of the statements of an always block: which signals each    *)
(* bit that a statement assigns depends on, and whether it may keep its    *)
(* value (a self loop of type DDP, from which registers and latches get    *)
(* their self loops).  A statement is put together from its parts: the     *)
(* results of the parts wait on a stack, as they do in the recursion of    *)
(* the code.  Beside each result stands what running the statement does.   *)
(***************************************************************************)
EXTENDS RForest

CONSTANTS Lvals,      \* left sides: sequences of <<name, bits>>
          Rhs,        \* right sides: leaves of the expressions
          Conds,      \* signals in conditions
          Cases,      \* case statements: sequences of sets of labels, {} is default
          Values,     \* the values of a case expression
          MaxAssign   \* bound: assignments in a statement

Targets == UNION {ToSet(l) : l \in Lvals}

\* A signal with a range is never assigned without one: get_full_selected_name
\* gives every left side its full range.  A source has no default self loop.
ASSUME LvalAssumption ==
    /\ Lvals \subseteq Seq(Targets)
    /\ \A v \in Targets : v = <<v[1], v[2]>>
    /\ \A v, w \in Targets : v[1] = w[1] => (v[2] = {} <=> w[2] = {})

ASSUME RhsAssumption ==
    \A f \in Rhs : /\ f = [k \in DOMAIN f |-> f[k]]
                   /\ \A k \in DOMAIN f : k[2] # {"DDP"}

ASSUME CaseAssumption ==
    /\ IsFiniteSet(Values)
    /\ Cases \subseteq Seq(SUBSET Values) \ {<<>>}

VARIABLES stack,      \* results of get_rforest, the last one on top
          assigns     \* assignments so far

vars == <<stack, assigns>>

CellsOf(n, bits) == IF bits = {} THEN {<<n, 0>>} ELSE {n} \X bits
Cells(F)         == UNION {CellsOf(t.name, t.select) : t \in ToSet(F)}
Leaves(F, c)     == UNION {DOMAIN t.leaves : t \in {u \in ToSet(F) : c \in CellsOf(u.name, u.select)}}
Holds(F, c)      == <<c[1], {"DDP"}>> \in Leaves(F, c)

-----------------------------------------------------------------------------
(***************************************************************************)
(* get_rforest.                                                            *)
(***************************************************************************)

\* LConcatenation::get_rforest and Assign::get_rforest, with constant indices on
\* the left.
AssignForest(lval, rhs) ==
    LET trees == [k \in DOMAIN lval |-> Tree(lval[k][1], lval[k][2], NoLeaves)]
        left  == CombineForest(<<>>, trees, FALSE)
    IN  [k \in DOMAIN left |-> CombineTree(left[k], Tree(left[k].name, {}, rhs), FALSE)]

\* Block::get_rforest.
BlockForest(parts) == CombineAll(<<>>, parts, TRUE)

\* A tree that keeps the value of some bits.
SelfLoop(n, bits) == Tree(n, bits, [k \in {<<n, {"DDP"}>>} |-> bits])

\* Mutants: a branch that assigns some bits of a signal is taken for one that
\* assigns all, or for one that assigns none.
MissingSignals(all, part) == {SelfLoop(n, all[n]) : n \in DOMAIN all \ DOMAIN part}
MissingWhole(all, part) ==
    {SelfLoop(n, all[n]) : n \in {m \in DOMAIN all : m \in DOMAIN part => part[m] # all[m]}}

\* What one branch leaves alone of all that the branches assign.
Missing(all, part) ==
    {SelfLoop(n, all[n]) : n \in DOMAIN all \ DOMAIN part} \cup
    {SelfLoop(n, all[n] \ part[n]) :
       n \in {m \in DOMAIN part : part[m] \subseteq all[m] /\ part[m] # all[m]}}

\* The common part of IfState::get_rforest and CaseState::get_rforest: the
\* branches, without its statement's condition.  "full" says that one of
\* them is always taken.
Joined(parts, full) ==
    LET rv  == CombineAll(<<>>, parts, FALSE)
        all == TargetSignals(rv)
    IN  IF full
        THEN CombineAll(rv, [k \in DOMAIN parts |-> SetToSeq(Missing(all, TargetSignals(parts[k])))],
                        FALSE)
        ELSE CombineForest(rv, SetToSeq({SelfLoop(n, all[n]) : n \in DOMAIN all}), FALSE)

\* The condition becomes a leaf of every tree.
Guarded(F, cond, type) ==
    LET exp == AssignType([k \in {<<cond, {"ASS"}>>} |-> {}], {type})
    IN  [k \in DOMAIN F |-> CombineTree(F[k], Tree(cond, {}, exp), FALSE)]

\* IfState::get_rforest, of one branch or two; a branch is a block.
IfForest(parts, cond) ==
    Guarded(Joined([k \in DOMAIN parts |-> BlockForest(<<parts[k]>>)], Len(parts) = 2),
            cond, "LOG")

\* CaseState::get_rforest: the items up to the first default.  The condition
\* of a case that only chooses between constants counts as data.
CaseForest(parts, labels, cond) ==
    LET defaults == {k \in DOMAIN labels : labels[k] = {}}
        count    == IF defaults = {} THEN Len(labels)
                    ELSE CHOOSE k \in defaults : \A j \in defaults : k <= j
        used     == [k \in 1 .. count |-> BlockForest(<<parts[k]>>)]
        rv       == Joined(used, defaults # {} \/ count >= Cardinality(Values))
    IN  Guarded(rv, cond, IF DataSignals(rv) # {} THEN "EQU" ELSE "DAT")

-----------------------------------------------------------------------------
(***************************************************************************)
(* What running a statement does: the set of its runs, each the right side *)
(* assigned last to each bit it assigns; the conditions each bit depends   *)
(* on; and the bits that some if or case in it may leave alone.            *)
(***************************************************************************)
Idle == [c \in {} |-> NoLeaves]

\* One run of each part: what the last part that assigns a bit assigns to it.
Joint(runs) ==
    [c \in UNION {DOMAIN runs[k] : k \in DOMAIN runs} |->
       LET Writes == {k \in DOMAIN runs : c \in DOMAIN runs[k]}
       IN  runs[CHOOSE k \in Writes : \A j \in Writes : j <= k][c]]

InSequence(parts) ==
    {Joint(runs) : runs \in
       {f \in [DOMAIN parts -> UNION {p.runs : p \in ToSet(parts)}] :
          \A k \in DOMAIN parts : f[k] \in parts[k].runs}}

\* The branches taken for some value, and whether for some value none is.
Taken(labels) ==
    {k \in DOMAIN labels : \E v \in Values :
       \/ v \in labels[k] /\ \A j \in 1 .. k - 1 : v \notin labels[j]
       \/ labels[k] = {} /\ \A j \in DOMAIN labels : v \notin labels[j]}
NoneTaken(labels) ==
    {} \notin ToSet(labels) /\ Values \ UNION ToSet(labels) # {}

Runs(parts, taken, none) ==
    (UNION {parts[k].runs : k \in taken}) \cup (IF none THEN {Idle} ELSE {})

AllCells(parts) == UNION {UNION {DOMAIN r : r \in p.runs} : p \in ToSet(parts)}

\* A branch statement: all it assigns depends on the condition; what it
\* leaves alone in some run may be kept, and if it looks incomplete all.
Branch(F, parts, taken, none, incomplete, cond) ==
    LET runs == Runs(parts, taken, none)
        all  == AllCells(parts)
    IN  [forest |-> F, runs |-> runs,
         guards |-> (UNION {p.guards : p \in ToSet(parts)}) \cup ({cond} \X all),
         loose  |-> (UNION {p.loose : p \in ToSet(parts)})
                      \cup {c \in all : incomplete \/ \E r \in runs : c \notin DOMAIN r}]

-----------------------------------------------------------------------------
Init == stack = <<>> /\ assigns = 0

\* A statement made of the last k results replaces them.
Top(k)     == SubSeq(stack, Len(stack) - k + 1, Len(stack))
Put(k, e)  == stack' = Append(SubSeq(stack, 1, Len(stack) - k), e)
Forests(P) == [k \in DOMAIN P |-> P[k].forest]

Assign ==
    /\ assigns < MaxAssign
    /\ assigns' = assigns + 1
    /\ \E l \in Lvals, rhs \in Rhs : \E F \in {AssignForest(l, rhs)} :
          Put(0, [forest |-> F, runs |-> {[c \in Cells(F) |-> rhs]},
                  guards |-> {}, loose |-> {}])

Block ==
    /\ \E k \in 2 .. Len(stack) : \E P \in {Top(k)} :
          Put(k, [forest |-> BlockForest(Forests(P)), runs |-> InSequence(P),
                  guards |-> UNION {p.guards : p \in ToSet(P)},
                  loose  |-> UNION {p.loose : p \in ToSet(P)}])
    /\ UNCHANGED assigns

\* If with one branch or two.
If ==
    /\ \E k \in {1, 2}, q \in Conds :
          /\ k <= Len(stack)
          /\ \E P \in {Top(k)} :
                Put(k, Branch(IfForest(Forests(P), q), P, 1 .. k, k = 1, FALSE, q))
    /\ UNCHANGED assigns

Case ==
    /\ \E labels \in Cases, q \in Conds :
          /\ Len(labels) <= Len(stack)
          /\ \E P \in {Top(Len(labels))} :
                Put(Len(labels),
                    Branch(CaseForest(Forests(P), labels, q), P, Taken(labels), NoneTaken(labels),
                           {} \notin ToSet(labels) /\ Len(labels) < Cardinality(Values), q))
    /\ UNCHANGED assigns

Next == Assign \/ Block \/ If \/ Case

Spec == Init /\ [][Next]_vars
-----------------------------------------------------------------------------
(***************************************************************************)
(* Properties, of every result on the stack                                *)
(***************************************************************************)

\* The ranges of a signal never overlap, however trees are split, and none is
\* empty beside others (RForest::add).
Disjoint ==
    \A e \in ToSet(stack) : \A j, k \in DOMAIN e.forest :
      j # k /\ e.forest[j].name = e.forest[k].name =>
        e.forest[j].select # {} /\ e.forest[j].select \cap e.forest[k].select = {}

\* A bit that some run leaves as it was has a self loop: no latch is missed.
HoldFound ==
    \A e \in ToSet(stack) : \A c \in Cells(e.forest) :
      (\E r \in e.runs : c \notin DOMAIN r) => Holds(e.forest, c)

\* A bit depends on what is assigned to it last in any run, and on all
\* conditions of the statements that assign it.
FlowFound ==
    \A e \in ToSet(stack) :
      /\ \A r \in e.runs : \A c \in DOMAIN r : DOMAIN r[c] \subseteq Leaves(e.forest, c)
      /\ \A g \in e.guards : \E k \in Leaves(e.forest, g[2]) : k[1] = g[1]

\* Only a bit that an if or a case inside the statement may leave alone has a
\* self loop, whatever other bits are split from it or joined to it.
HoldMeant ==
    \A e \in ToSet(stack) : \A c \in Cells(e.forest) : Holds(e.forest, c) => c \in e.loose
=============================================================================
