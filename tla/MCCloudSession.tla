--------------------------- MODULE MCCloudSession ---------------------------
EXTENDS CloudSession, TLC
(* Session ids, tabs and requests are interchangeable. *)
Symmetry == Permutations(Sids) \cup Permutations(Tabs) \cup Permutations(ReqIds)
=============================================================================
