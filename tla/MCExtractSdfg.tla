--------------------------- MODULE MCExtractSdfg ----------------------------
(***************************************************************************)
(* Instances of ExtractSdfg.  Below t, u and x twice; below u, s; v shares *)
(* u and s with t and has s at two depths; x is below t alone.             *)
(***************************************************************************)
EXTENDS ExtractSdfg

CONSTANTS t1, v1, u1, s1, x1

MCDesign == [m \in Src |->
    CASE m = t1 -> <<u1, x1, x1>>
      [] m = v1 -> <<u1, s1>>
      [] m = u1 -> <<s1>>
      [] OTHER  -> <<>>]
=============================================================================
