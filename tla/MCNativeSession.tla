--------------------------- MODULE MCNativeSession ---------------------------
EXTENDS NativeSession, TLC
(* Worker slots are interchangeable. *)
Symmetry == Permutations(ReqIds)
=============================================================================
