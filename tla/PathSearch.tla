----------------------------- MODULE PathSearch -----------------------------
(***************************************************************************)
(* dfgNode::path_search_base_fast and path_update_fast: the register to    *)
(* register paths that leave a node (forwards) or enter it (backwards),    *)
(* found by a depth-first search that remembers in rmap, for every node it *)
(* has left, the ends that can be reached from there and the type of the   *)
(* way, and that answers from rmap when it meets the node again.           *)
(*                                                                         *)
(* One graph, no hierarchy: the search that crosses boundaries runs the    *)
(* same two functions over other edges.  The recursion is an explicit      *)
(* stack.  The nodes next to a node are visited in the order of a map      *)
(* keyed by pointers, so in any order.                                     *)
(***************************************************************************)
EXTENDS PathType, Naturals, Sequences, FiniteSets

CONSTANTS Node, Reg,   \* the nodes; SDFG_FF and SDFG_LATCH among them
          Starts,      \* the nodes a search may be asked for
          Weights,     \* bound: the graphs, as types of the arcs
          WalkBound    \* bound: the edges of a walk, see Init

ASSUME PathAssumption ==
    /\ Reg \subseteq Node /\ Starts \subseteq Node
    /\ WalkBound \in Nat \ {0}
    /\ Weights \subseteq [Node \X Node -> PlainTypes \cup {{}}]

VARIABLES
    w,        \* the graph: the types of the edges from a to b, or'd; or none
    forward,  \* argument direction
    start,    \* the node whose paths are asked for
    stack,    \* the calls of path_update_fast, below them the base call
    pmap,     \* result: end node -> type
    rmap,     \* node -> end node -> type
    walks     \* history: the walks of the graph, each as <<from, to, type>>

vars == <<w, forward, start, stack, pmap, rmap, walks>>

NoMap == [n \in {} |-> {}]
Type(f, n) == IF n \in DOMAIN f THEN f[n] ELSE {}
Entry(r, n) == IF n \in DOMAIN r THEN r[n] ELSE NoMap

\* The types of the edges between n and its neighbour m in the direction of
\* the search, and the neighbours (update_search_map).
Weight(n, m) == IF forward THEN w[<<n, m>>] ELSE w[<<m, n>>]
NextTo(n)    == {m \in Node : Weight(n, m) # {}}

\* Mutant: the types are composed forwards in both directions.
JoinForward(near, far) == CalType(near, far)

\* The type of a way that starts with near, seen from the start of the search.
Join(near, far) == IF forward THEN CalType(near, far) ELSE CalType(far, near)

\* Where a path ends: a register, or an input or output of the graph.
EndNode(n) == n \in Reg \/ NextTo(n) = {}

-----------------------------------------------------------------------------
(***************************************************************************)
(* What a search should find.  A walk passes through no register; there    *)
(* are infinitely many in a graph with loops, but only finitely many       *)
(* triples of their ends and their type, each computed on its own.         *)
(***************************************************************************)
ArcsOf(g) == {<<p[1], p[2], g[p]>> : p \in {q \in Node \X Node : g[q] # {}}}

Longer(S, arcs) ==
    {<<c[1][1], c[2][2], CalType(c[1][3], c[2][3])>> :
        c \in {d \in S \X arcs : d[1][2] = d[2][1] /\ d[2][1] \notin Reg}}

\* The walks with at most bound edges.
WalkTypes(g, bound) ==
    LET arcs == ArcsOf(g)
        W[k \in 1..bound] ==
          IF k = 1 THEN arcs ELSE LET S == W[k - 1] IN S \cup Longer(S, arcs)
    IN  W[bound]

Between(n, e) ==
    UNION {u[3] : u \in {v \in walks : IF forward THEN v[1] = n /\ v[2] = e
                                                  ELSE v[1] = e /\ v[2] = n}}
Expected(n)   == [e \in {m \in Node : EndNode(m) /\ Between(n, m) # {}} |-> Between(n, e)]

Acyclic == \A v \in walks : v[1] = v[2] => v[1] \in Reg

-----------------------------------------------------------------------------
Frame(n, type, seen, todo) == [node |-> n, type |-> type, seen |-> seen, todo |-> todo]

Init ==
    /\ w \in Weights
    /\ forward \in BOOLEAN
    /\ start \in Starts
    /\ stack = <<Frame(start, {}, {}, NextTo(start))>>
    /\ pmap = NoMap
    /\ rmap = NoMap
    /\ walks = WalkTypes(w, WalkBound)
    /\ Longer(walks, ArcsOf(w)) \subseteq walks    \* longer ones add nothing

Done   == stack = << >>
Top    == stack[Len(stack)]
InBase == Len(stack) = 1

\* The path handed to the next call: its type, and the nodes on it (node_set).
PathType1(m) == Join(Top.type, Weight(Top.node, m))
Seen(m)      == Top.seen \cup {IF forward THEN Top.node ELSE m}

\* Mutant: the entry of the caller is overwritten, not or'd.
LearnLast(r, n, m, base) ==
    IF base \/ Entry(r, m) = NoMap THEN r ELSE
    LET new == [e \in DOMAIN Entry(r, n) \cup DOMAIN r[m] |->
                  IF e \in DOMAIN r[m] THEN Join(Weight(n, m), r[m][e])
                                       ELSE r[n][e]]
    IN  [x \in DOMAIN r \cup {m, n} |-> IF x = n THEN new ELSE Entry(r, x)]

\* "update rmap": what the call on m has left in rmap[m] goes to the caller's
\* entry.  rmap[m] makes an empty entry if there is none.
Learn(r, n, m, base) ==
    IF base THEN r ELSE
    LET new == [e \in DOMAIN Entry(r, n) \cup DOMAIN Entry(r, m) |->
                  Type(Entry(r, n), e) \cup
                    (IF e \in DOMAIN Entry(r, m)
                     THEN Join(Weight(n, m), r[m][e]) ELSE {})]
    IN  [x \in DOMAIN r \cup {m} \cup (IF Entry(r, m) = NoMap THEN {} ELSE {n}) |->
            IF x = n THEN new ELSE Entry(r, x)]

\* The caller goes on with the neighbours after m.
Consume(m) == stack' = [stack EXCEPT ![Len(stack)].todo = @ \ {m}]

\* Mutant: node_set is not looked at.
NeverOnPath(m) == FALSE

\* m is on the path that leads to it: a combinational loop.
OnPath(m) == m \in (IF forward THEN Seen(m) ELSE Top.seen)

\* m ends the path.
End(m) ==
    /\ EndNode(m) /\ (forward \/ ~OnPath(m))
    /\ pmap' = [e \in DOMAIN pmap \cup {m} |->
                  Type(pmap, e) \cup (IF e = m THEN PathType1(m) ELSE {})]
    /\ LET known == [x \in DOMAIN rmap \cup {m} |->
                        IF x \in DOMAIN rmap THEN rmap[x] ELSE [e \in {m} |-> {}]]
       IN  rmap' = Learn(known, Top.node, m, InBase)
    /\ Consume(m)

\* The path closes a loop: the error SDFG-ANALYSE-0.  Forwards the call on m
\* returns at once, backwards it is not made and nothing is learnt.
Loop(m) ==
    /\ OnPath(m) /\ (forward => ~EndNode(m))
    /\ rmap' = IF forward THEN Learn(rmap, Top.node, m, InBase) ELSE rmap
    /\ Consume(m)
    /\ UNCHANGED pmap

\* Mutant: the type of the latest path replaces those found before.
ReplayLast(m) ==
    /\ ~EndNode(m) /\ ~OnPath(m) /\ m \in DOMAIN rmap
    /\ pmap' = [e \in DOMAIN pmap \cup DOMAIN rmap[m] |->
                  IF e \in DOMAIN rmap[m] THEN Join(PathType1(m), rmap[m][e])
                                          ELSE pmap[e]]
    /\ rmap' = Learn(rmap, Top.node, m, InBase)
    /\ Consume(m)

\* m has been visited: its entry answers.
Replay(m) ==
    /\ ~EndNode(m) /\ ~OnPath(m) /\ m \in DOMAIN rmap
    /\ pmap' = [e \in DOMAIN pmap \cup DOMAIN rmap[m] |->
                  Type(pmap, e) \cup
                    (IF e \in DOMAIN rmap[m] THEN Join(PathType1(m), rmap[m][e]) ELSE {})]
    /\ rmap' = Learn(rmap, Top.node, m, InBase)
    /\ Consume(m)

\* m is new: its neighbours are visited before the caller goes on.
Expand(m) ==
    /\ ~EndNode(m) /\ ~OnPath(m) /\ m \notin DOMAIN rmap
    /\ stack' = Append(stack, Frame(m, PathType1(m), Seen(m), NextTo(m)))
    /\ UNCHANGED <<pmap, rmap>>

\* Mutant: the caller does not go on to its next neighbour.
ReturnAgain ==
    /\ Top.todo = {}
    /\ LET n == Len(stack)
       IN  /\ stack' = SubSeq(stack, 1, n - 1)
           /\ rmap' = IF InBase THEN rmap
                      ELSE Learn(rmap, stack[n - 1].node, Top.node, n = 2)
    /\ UNCHANGED pmap

Return ==
    /\ Top.todo = {}
    /\ LET n == Len(stack)
       IN  IF InBase
           THEN stack' = << >> /\ rmap' = rmap
           ELSE /\ stack' = [SubSeq(stack, 1, n - 1) EXCEPT
                               ![n - 1].todo = @ \ {Top.node}]
                /\ rmap' = Learn(rmap, stack[n - 1].node, Top.node, n = 2)
    /\ UNCHANGED pmap

Next ==
    /\ ~Done
    /\ \/ \E m \in Top.todo : End(m) \/ Loop(m) \/ Replay(m) \/ Expand(m)
       \/ Return
    /\ UNCHANGED <<w, forward, start, walks>>

Spec == Init /\ [][Next]_vars /\ WF_vars(Next)

-----------------------------------------------------------------------------
(***************************************************************************)
(* Properties                                                              *)
(***************************************************************************)
TypeOK ==
    /\ w \in [Node \X Node -> PlainTypes \cup {{}}] /\ forward \in BOOLEAN
    /\ \A k \in 1..Len(stack) :
         /\ stack[k].node \in Node
         /\ stack[k].type \in PlainTypes \cup {{}}
         /\ stack[k].seen \subseteq Node /\ stack[k].todo \subseteq NextTo(stack[k].node)
    /\ \A e \in DOMAIN pmap : EndNode(e) /\ pmap[e] \in PlainTypes
    /\ \A n \in DOMAIN rmap : \A e \in DOMAIN rmap[n] :
         EndNode(e) /\ rmap[n][e] \in PlainTypes \cup {{}}

\* Nothing is invented: at every moment, whatever the order and with or
\* without combinational loops, each bit of the type reported for an end is
\* the contribution of some walk that really leads there.
Sound == \A e \in DOMAIN pmap : pmap[e] \subseteq Between(start, e)

\* Without combinational loops the search finds every end, with the union of
\* the types of all walks to it, although most walks are never made but
\* composed from a prefix and an entry of rmap.
Complete == Done /\ Acyclic => pmap = Expected(start)

\* A node that has been left is never entered again, so its entry must be
\* right from then on, whichever way the search came to it first.
MemoExact ==
    Acyclic =>
      \A n \in DOMAIN rmap :
         EndNode(n) \/ (\E k \in 1..Len(stack) : stack[k].node = n)
           \/ rmap[n] = Expected(n)

\* The recursion is bounded by the graph even if it has combinational loops:
\* no call is made for a node that has one under way.  Only the backward
\* search, which leaves its start out of node_set, may enter that once more.
NoReentry ==
    \A k \in 1..Len(stack), l \in 1..Len(stack) :
       k < l /\ stack[k].node = stack[l].node => ~forward /\ k = 1

\* The search ends.
Terminates == <>Done
=============================================================================
