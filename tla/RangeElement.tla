---------------------------- MODULE RangeElement ----------------------------
(***************************************************************************)
(* The intervals of cpprange, from a high bit down to a low one.  The rows *)
(* of a range map are cut with them.  An interval whose bounds are the     *)
(* wrong way round is empty.  Bits are integers; the overflow at the ends  *)
(* of int is left out, no signal is that wide.                             *)
(***************************************************************************)
EXTENDS Integers

Interval(h, l)   == [hi |-> h, lo |-> l]
IsEmpty(e)       == e.hi < e.lo
Lower(a, b)      == IF a < b THEN a ELSE b
Higher(a, b)     == IF a < b THEN b ELSE a
Part(e, r)       == r.lo <= e.lo /\ e.hi <= r.hi
Connected(e, r)  == r.lo <= e.hi + 1 /\ e.lo <= r.hi + 1
Less(e, r)       == e.hi < r.hi \/ (e.hi = r.hi /\ e.lo > r.lo)
Both(e, r)       == Interval(Lower(e.hi, r.hi), Higher(e.lo, r.lo))

\* Mutant: the upper part keeps the highest bit of the shared one.
DivideLoosely(e, r) ==
    LET both == Both(e, r)
    IN  IF IsEmpty(both)
        THEN IF Less(e, r) THEN [high |-> r, mid |-> both, low |-> e]
                           ELSE [high |-> e, mid |-> both, low |-> r]
        ELSE [high |-> Interval(Higher(e.hi, r.hi), both.hi), mid |-> both,
              low  |-> Interval(both.lo - 1, Lower(e.lo, r.lo))]

\* RangeElement::divide of two intervals: what is above their shared part,
\* the shared part, and what is below; two disjoint ones are put in order.
Divide(e, r) ==
    LET both == Both(e, r)
    IN  IF IsEmpty(both)
        THEN IF Less(e, r) THEN [high |-> r, mid |-> both, low |-> e]
                           ELSE [high |-> e, mid |-> both, low |-> r]
        ELSE [high |-> Interval(Higher(e.hi, r.hi), both.hi + 1), mid |-> both,
              low  |-> Interval(both.lo - 1, Lower(e.lo, r.lo))]
=============================================================================
