---------------------------- MODULE MCElaborate -----------------------------
(***************************************************************************)
(* Instances of Elaborate.  The sources: s contains p, without a value for *)
(* its parameter; p contains s, and itself, with the value 1.  There are   *)
(* two other texts of p, without instances, one with another default and   *)
(* one without a parameter.                                                *)
(***************************************************************************)
EXTENDS Elaborate, TLC

CONSTANTS s, p, p2, plain, work, ip

Call(m, a) == [mod |-> m, actual |-> a]

MCLibs == <<ip, work>>

MCTitle == s :> s @@ p :> p @@ p2 :> p @@ plain :> p

MCDefault == p :> 1 @@ p2 :> 2

MCBody == [m \in {s, p, p2, plain} |-> [v \in {1, 2, None} |->
    CASE m = s -> <<Call(p, None)>>
      [] m = p -> <<Call(s, None), Call(p, 1)>>
      [] OTHER -> <<>>]]
=============================================================================
