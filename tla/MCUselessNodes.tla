--------------------------- MODULE MCUselessNodes ---------------------------
(***************************************************************************)
(* An instance of UselessNodes.  Every legal graph on either of two sets   *)
(* of nodes is an initial state: an input port and three inner nodes, so   *)
(* that chains and cycles of both kinds occur; an output port, an inout    *)
(* and two inner nodes for the other branches of the loop.                 *)
(***************************************************************************)
EXTENDS UselessNodes

CONSTANTS i, o, b, r, c, d

MCKind == [n \in {i, o, b, r, c, d} |->
    CASE n = i -> "iport" [] n = o -> "oport" [] n = b -> "inout"
      [] n = r -> "reg" [] OTHER -> "comb"]

MCGiven == {{i, r, c, d}, {o, b, r, c}}
=============================================================================
