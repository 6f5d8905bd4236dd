----------------------------- MODULE MCDatapath -----------------------------
(***************************************************************************)
(* An instance of Datapath: an input, an output, an inout port, a register *)
(* and two combinational nodes.  The wires are chosen so that control      *)
(* edges, when they are cut, leave nodes without source or load, that the  *)
(* inout port drives and is driven, and that two ways of different length  *)
(* and a loop lead through the same nodes.                                 *)
(***************************************************************************)
EXTENDS Datapath

CONSTANTS i, o, b, r, c, d

MCKind == [n \in {i, o, b, r, c, d} |->
    CASE n = i -> "iport" [] n = o -> "oport" [] n = b -> "inout"
      [] n = r -> "reg" [] OTHER -> "comb"]

MCWires == {<<i, c, "ASS">>, <<b, c, "CAL">>, <<c, d, "ASS">>, <<c, d, "CAL">>,
            <<d, c, "ASS">>, <<d, r, "ASS">>, <<r, c, "LOG">>, <<r, d, "CAL">>,
            <<d, b, "ASS">>, <<d, o, "ASS">>, <<r, o, "DAT">>, <<i, d, "CMP">>}
=============================================================================
