------------------------- MODULE MCCustomLinkSync -------------------------
(* The custom-link mirror for TLC: contents of a link are interchangeable. *)
EXTENDS CustomLinkSync, TLC

LinkSymmetry == Permutations(Links)
===========================================================================
