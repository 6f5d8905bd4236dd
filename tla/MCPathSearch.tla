---------------------------- MODULE MCPathSearch ----------------------------
(***************************************************************************)
(* Instances of PathSearch: a register a, combinational nodes x, y and z,  *)
(* a register or output e.                                                 *)
(***************************************************************************)
EXTENDS PathSearch

CONSTANTS a, x, y, z, e

\* All graphs whose arcs are in may, with one of the types.
Graphs(may, types) ==
    {[p \in Node \X Node |-> IF p \in may THEN f[p] ELSE {}] :
        f \in [may -> types \cup {{}}]}

\* No cycle but through the register; the diamond a, x, y, e and short cuts.
Diamonds == Graphs({<<a, x>>, <<a, y>>, <<x, y>>, <<x, e>>, <<y, e>>, <<e, a>>},
                   {{"ASS"}, {"LOG"}, {"CAL", "CTL"}})

\* Combinational loops x, y and x, y, z, and a self loop of x, behind a.
Loops == {g \in Graphs({<<a, x>>, <<x, x>>, <<x, y>>, <<y, x>>, <<y, z>>, <<z, x>>,
                        <<x, e>>, <<z, e>>},
                       {{"CAL"}, {"DAT", "LOG"}}) : g[a, x] = {"CAL"} /\ g[x, y] # {}}

DiamondsAndLoops == Diamonds \cup Loops
=============================================================================
