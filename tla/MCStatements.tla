---------------------------- MODULE MCStatements ----------------------------
(***************************************************************************)
(* An instance of Statements: a signal of two bits, assigned whole or a    *)
(* bit at a time, and one without range, assigned together with a bit.     *)
(***************************************************************************)
EXTENDS Statements

CONSTANTS x, y, a, q

MCLvals == {<< <<x, {1, 2}>> >>, << <<x, {1}>> >>, << <<y, {}>>, <<x, {2}>> >>}
MCRhs   == {NoLeaves, [k \in {<<a, {"ASS"}>>} |-> {}]}

\* No label twice, a default only at the end.
Orderly == {<<{0}, {1}>>, <<{0}, {}>>, <<{1}>>, <<{0, 1}>>}

\* A default before another item.
DefaultFirst == {<<{}, {1}>>}
=============================================================================
