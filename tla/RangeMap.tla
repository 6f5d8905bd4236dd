------------------------------ MODULE RangeMap ------------------------------
(***************************************************************************)
(* The range maps of cpprange, which say which bits of a signal with       *)
(* several dimensions are meant.  A map is a sequence of rows, from high   *)
(* to low; a row is an interval of the first dimension with the map of the *)
(* other dimensions, empty in the last one.  Every operation walks down    *)
(* two maps side by side, cuts the rows at each other's bounds, and        *)
(* normalizes the result.  Maps of one signal have its dimensions; given   *)
(* maps that differ in them the operations throw, which is left out.       *)
(***************************************************************************)
EXTENDS RangeElement, SequencesExt

CONSTANTS Dims      \* bound: the highest bit of each dimension

ASSUME DimsAssumption == Dims \in Seq(Nat) /\ Dims # << >>

VARIABLES map,      \* two range maps
          bits      \* history: the sets of bits they should denote

vars == <<map, bits>>

-----------------------------------------------------------------------------
(***************************************************************************)
(* Maps (RangeMapBase).                                                    *)
(***************************************************************************)

Row(e, m) == [hi |-> e.hi, lo |-> e.lo, sub |-> m]

\* Mutant: rows that touch without sharing a bit stay apart.
FollowsOverlapping(r, s) == ~IsEmpty(Both(r, s)) /\ r.sub = s.sub

\* The lower row s continues r.
Follows(r, s) == Connected(r, s) /\ r.sub = s.sub

\* RangeMapBase::normalize: rows that follow each other are joined.
Normalize(m) ==
    FoldLeft(LAMBDA out, s :
               IF out # << >> /\ Follows(Last(out), s)
               THEN Append(Front(out), [Last(out) EXCEPT !.lo = s.lo])
               ELSE Append(out, s),
             << >>, m)

\* The row for interval e, none if it is empty.
Piece(e, m) == IF IsEmpty(e) THEN << >> ELSE <<Row(e, m)>>

\* What both maps have left when the first rows r of m and s of n have been
\* cut: the lower part goes on with the row it belongs to.
RestLeft(m, low)  == IF IsEmpty(low) \/ ~Part(low, Head(m)) THEN Tail(m)
                     ELSE <<Row(low, Head(m).sub)>> \o Tail(m)
RestRight(m, n, low) == IF IsEmpty(low) \/ Part(low, Head(m)) THEN Tail(n)
                        ELSE <<Row(low, Head(n).sub)>> \o Tail(n)

RECURSIVE Combine(_, _), Merge(_, _)
Combine(m, n) == Normalize(Merge(m, n))
Merge(m, n) ==
    IF m = << >> \/ n = << >> THEN m \o n ELSE
    LET r == Head(m)
        s == Head(n)
        d == Divide(Interval(r.hi, r.lo), Interval(s.hi, s.lo))
    IN  Piece(d.high, IF Part(d.high, r) THEN r.sub ELSE s.sub)
          \o (IF IsEmpty(d.mid) THEN << >> ELSE <<Row(d.mid, Combine(r.sub, s.sub))>>)
          \o Merge(RestLeft(m, d.low), RestRight(m, n, d.low))

\* A row is dropped if nothing of the lower dimensions is left.
RECURSIVE Intersection(_, _)
Intersection(m, n) ==
    LET Shared(r, s) ==
            LET sub == Intersection(r.sub, s.sub)
            IN  IF r.sub # << >> /\ sub = << >> THEN << >> ELSE Piece(Both(r, s), sub)
        Of(r) == FoldLeft(LAMBDA out, s : out \o Shared(r, s), << >>, n)
    IN  Normalize(FoldLeft(LAMBDA out, r : out \o Of(r), << >>, m))

RECURSIVE Complement(_, _), Subtract(_, _)
Complement(m, n) == Normalize(Subtract(m, n))
Subtract(m, n) ==
    IF m = << >> \/ n = << >> THEN m ELSE
    LET r == Head(m)
        s == Head(n)
        d == Divide(Interval(r.hi, r.lo), Interval(s.hi, s.lo))
        left == IF IsEmpty(d.mid) THEN << >> ELSE Complement(r.sub, s.sub)
    IN  (IF Part(d.high, r) THEN Piece(d.high, r.sub) ELSE << >>)
          \o (IF left = << >> THEN << >> ELSE <<Row(d.mid, left)>>)
          \o Subtract(RestLeft(m, d.low), RestRight(m, n, d.low))

RECURSIVE Subset(_, _)
Subset(m, n) ==
    IF m = << >> \/ n = << >> THEN m = << >> ELSE
    LET r == Head(m)
        s == Head(n)
        d == Divide(Interval(r.hi, r.lo), Interval(s.hi, s.lo))
    IN  IF IsEmpty(d.mid) THEN ~Less(s, r) /\ Subset(m, Tail(n))
        ELSE /\ IsEmpty(d.high) \/ ~Part(d.high, r)
             /\ Subset(r.sub, s.sub)
             /\ Subset(RestLeft(m, d.low), RestRight(m, n, d.low))

Overlap(m, n) == Intersection(m, n) # << >>

\* RangeMapBase::add_child: a row is put where it belongs; the rows above it
\* are written twice, which normalize undoes.
RECURSIVE Place(_, _)
Place(m, s) ==
    IF m = << >> THEN Piece(s, s.sub) ELSE
    LET r == Head(m)
        d == Divide(Interval(r.hi, r.lo), Interval(s.hi, s.lo))
        high == Piece(d.high, IF Part(d.high, r) THEN r.sub ELSE s.sub)
        mid  == IF IsEmpty(d.mid) THEN << >> ELSE <<Row(d.mid, Combine(r.sub, s.sub))>>
    IN  CASE IsEmpty(d.mid) /\ Part(d.low, r) -> high \o m
          [] IsEmpty(d.mid) /\ ~Part(d.low, r) -> high \o <<r>> \o Place(Tail(m), s)
          [] OTHER -> high \o mid \o
               (IF IsEmpty(d.low) THEN Tail(m)
                ELSE IF Part(d.low, r) THEN <<Row(d.low, r.sub)>> \o Tail(m)
                ELSE Place(Tail(m), Row(d.low, s.sub)))
AddChild(m, s) == Normalize(Place(m, s))

\* RangeMap::toRange: a map as a sequence of boxes, an interval for each
\* dimension.
RECURSIVE ToRange(_)
ToRange(m) ==
    LET Boxes(r) == IF r.sub = << >> THEN << <<Interval(r.hi, r.lo)>> >>
                    ELSE LET below == ToRange(r.sub)
                         IN  [k \in DOMAIN below |-> <<Interval(r.hi, r.lo)>> \o below[k]]
    IN  FoldLeft(LAMBDA out, r : out \o Boxes(r), << >>, m)

\* A box as a map (the conversion from Range).
RECURSIVE FromRange(_)
FromRange(box) == IF box = << >> THEN << >> ELSE <<Row(Head(box), FromRange(Tail(box)))>>

-----------------------------------------------------------------------------
Bit        == {b \in [DOMAIN Dims -> 0 .. Max({Dims[k] : k \in DOMAIN Dims})] :
                 \A k \in DOMAIN Dims : b[k] <= Dims[k]}
BitsOf(box) == {b \in Bit : \A k \in DOMAIN Dims : b[k] \in box[k].lo .. box[k].hi}

Box == {box \in [DOMAIN Dims -> [hi : 0 .. Max({Dims[k] : k \in DOMAIN Dims}),
                                 lo : 0 .. Max({Dims[k] : k \in DOMAIN Dims})]] :
          \A k \in DOMAIN Dims : box[k].lo <= box[k].hi /\ box[k].hi <= Dims[k]}

Init == /\ map = [k \in {1, 2} |-> << >>]
        /\ bits = [k \in {1, 2} |-> {}]

Assign(k, m, B) == /\ map' = [map EXCEPT ![k] = m]
                   /\ bits' = [bits EXCEPT ![k] = B]

\* A box is added to the first map: combined with it, or as a row of a list
\* from which a map is made.
Add(box)    == Assign(1, Combine(map[1], FromRange(box)), bits[1] \cup BitsOf(box))
Insert(box) == Assign(1, AddChild(map[1], FromRange(box)[1]), bits[1] \cup BitsOf(box))

\* The two maps change places, or the first becomes what an operation on both
\* returns.
Exchange == /\ map' = [map EXCEPT ![1] = map[2], ![2] = map[1]]
            /\ bits' = [bits EXCEPT ![1] = bits[2], ![2] = bits[1]]
Unite    == Assign(1, Combine(map[1], map[2]), bits[1] \cup bits[2])
Meet     == Assign(1, Intersection(map[1], map[2]), bits[1] \cap bits[2])
Take     == Assign(1, Complement(map[1], map[2]), bits[1] \ bits[2])

Next == \/ \E box \in Box : Add(box) \/ Insert(box)
        \/ Exchange \/ Unite \/ Meet \/ Take

Spec == Init /\ [][Next]_vars
-----------------------------------------------------------------------------
(***************************************************************************)
(* Properties                                                              *)
(***************************************************************************)

\* However it was computed, a map denotes the bits it should, and the boxes
\* made from it, which become nodes of the graph, share no bit; on such maps
\* subset and overlap decide what they say.
Exact ==
    \A k \in {1, 2} :
      LET boxes == ToRange(map[k])
      IN  /\ bits[k] = UNION {BitsOf(boxes[j]) : j \in DOMAIN boxes}
          /\ \A i, j \in DOMAIN boxes : i # j => BitsOf(boxes[i]) \cap BitsOf(boxes[j]) = {}
          /\ Subset(map[k], map[3 - k]) = (bits[k] \subseteq bits[3 - k])
          /\ Overlap(map[k], map[3 - k]) = (bits[k] \cap bits[3 - k] # {})

\* Maps of the same bits are the same map, whatever operations led to them:
\* RangeMapBase::equal compares row by row.
Canonical == bits[1] = bits[2] => map[1] = map[2]
=============================================================================
