------------------------- MODULE MCPreTradeControls -------------------------
(***************************************************************************)
(* Instances of PreTradeControls with two symbols, which the limits do not *)
(* tell apart.                                                             *)
(***************************************************************************)
EXTENDS PreTradeControls, TLC
CONSTANTS s1, s2

Symmetry == Permutations({s1, s2})
=============================================================================
