---------------------------- MODULE MCStoreLease ----------------------------
EXTENDS StoreLease, TLC
(* Leases are interchangeable names, and so are worker slots. *)
Symmetry == Permutations(LeaseIds) \cup Permutations(ReqIds)
=============================================================================
