--------------------------- MODULE MCKeyframeStore ----------------------------
(* The temporary names are interchangeable.                                *)
EXTENDS KeyframeStore, TLC

Symmetry == Permutations(Temps)
=============================================================================
