------------------------------ MODULE RForest -------------------------------
(***************************************************************************)
(* The relation trees of sdfg/rtree.cpp, which say what the bits of a      *)
(* signal are computed from.  A leaf is a source with the type of the      *)
(* relation: the leaves of a tree are a function from <<name, type>> to    *)
(* the bits of the source.  A tree is the leaves of some bits of a signal, *)
(* a forest a sequence of trees, in the order of their insertion.  A range *)
(* is the set of its bits, that of a signal without range is empty.        *)
(***************************************************************************)
EXTENDS PathType, SequencesExt

NoLeaves == [k \in {} |-> {}]

Tree(n, bits, leaves) == [name |-> n, select |-> bits, leaves |-> leaves]

\* RTree::combine, by RTree::add of each leaf of u; in sequence, the default
\* self loops of u are left out.
CombineLeaves(t, u, seq) ==
    LET added == {k \in DOMAIN u : ~seq \/ k[2] # {"DDP"}}
        Bits(f, k) == IF k \in DOMAIN f THEN f[k] ELSE {}
    IN  [k \in DOMAIN t \cup added |->
           Bits(t, k) \cup (IF k \in added THEN u[k] ELSE {})]

CombineTree(t, u, seq) == [t EXCEPT !.leaves = CombineLeaves(@, u.leaves, seq)]

\* RTree::assign_type with normalize.
AssignType(leaves, type) ==
    LET Key(k) == <<k[1], CalType(k[2], type)>>
    IN  [j \in {Key(k) : k \in DOMAIN leaves} |->
           UNION {leaves[k] : k \in {i \in DOMAIN leaves : Key(i) = j}}]

\* Mutants: only equal ranges are found; what is left of a tree that is split
\* is lost.
SameRange(t, u) == t.name = u.name /\ t.select = u.select
NoRest(t, bits) == {}

\* The trees that share bits.
Meets(t, u) == t.name = u.name /\ (t.select \cap u.select # {} \/ t.select = u.select)

\* The bits of a tree that are not among the shared ones.
Rest(t, bits) == t.select \ bits

\* What is left of a tree waits to be added again, no longer in sequence.
Waiting(t, bits) ==
    IF Rest(t, bits) = {} THEN <<>>
    ELSE <<[tree |-> [t EXCEPT !.select = Rest(t, bits)], seq |-> FALSE]>>

\* One call of RForest::add: the first tree that shares bits with the new one
\* is cut down to them and combined with it; what is left of both is added
\* before the calls that wait.
AddCall(s) ==
    LET t      == Head(s.todo).tree
        hits   == {k \in DOMAIN s.forest : Meets(s.forest[k], t)}
        k      == CHOOSE j \in hits : \A i \in hits : j <= i
        old    == s.forest[k]
        shared == old.select \cap t.select
    IN  IF s.todo = <<>> THEN s
        ELSE IF hits = {} THEN [forest |-> Append(s.forest, t), todo |-> Tail(s.todo)]
        ELSE [forest |-> [s.forest EXCEPT ![k] =
                            CombineTree([old EXCEPT !.select = shared], t, Head(s.todo).seq)],
              todo   |-> Waiting(old, shared) \o Waiting(t, shared) \o Tail(s.todo)]

\* RForest::add with the calls it makes: at most one with the new tree and
\* one with an old tree for each old one, and a last one.
AddCalls(F, t, seq) ==
    LET s[n \in 0 .. 2 * Len(F) + 1] ==
          IF n = 0 THEN [forest |-> F, todo |-> <<[tree |-> t, seq |-> seq]>>]
                   ELSE AddCall(s[n - 1])
    IN  s

AddTree(F, t, seq) == AddCalls(F, t, seq)[2 * Len(F) + 1].forest

\* RForest::combine: the forest after each tree of G.
Combining(F, G, seq) ==
    LET H[k \in 0 .. Len(G)] == IF k = 0 THEN F ELSE AddTree(H[k - 1], G[k], seq)
    IN  H

CombineForest(F, G, seq) == Combining(F, G, seq)[Len(G)]

\* The same for a sequence of forests.
CombiningAll(F, parts, seq) ==
    LET H[k \in 0 .. Len(parts)] == IF k = 0 THEN F ELSE CombineForest(H[k - 1], parts[k], seq)
    IN  H

CombineAll(F, parts, seq) == CombiningAll(F, parts, seq)[Len(parts)]

\* RForest::get_target_signals: the bits of each signal that has a tree.
TargetSignals(F) ==
    [n \in {t.name : t \in ToSet(F)} |-> UNION {t.select : t \in {u \in ToSet(F) : u.name = n}}]

\* RForest::get_data_signals, the names.
DataSignals(F) ==
    UNION {{k[1] : k \in {j \in DOMAIN t.leaves : Data(j[2]) # {}}} : t \in ToSet(F)}
=============================================================================
