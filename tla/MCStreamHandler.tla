--------------------------- MODULE MCStreamHandler ---------------------------
(* Instances of StreamHandler for TLC.                                     *)
EXTENDS StreamHandler, TLC

(* Goroutine identities are interchangeable.                               *)
Symmetry == Permutations(FbIds) \cup Permutations(SilIds)
=============================================================================
