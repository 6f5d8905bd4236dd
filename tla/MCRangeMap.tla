----------------------------- MODULE MCRangeMap -----------------------------
(***************************************************************************)
(* An instance of RangeMap: every range map of a signal of two dimensions. *)
(***************************************************************************)
EXTENDS RangeMap

MCDims == <<2, 1>>
=============================================================================
