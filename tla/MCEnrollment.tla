---------------------------- MODULE MCEnrollment ----------------------------
EXTENDS Enrollment, TLC
(* Worker slots, registrations, codes and node rows are interchangeable. *)
Symmetry == Permutations(ReqIds) \cup Permutations(Regs) \cup Permutations(Codes)
            \cup Permutations(Nodes)

(* Bound: the node comes from a code or from a registration, each with its   *)
(* own requests, one at a time beside a second registration.                 *)
Open == {i \in ReqIds : req[i] # Idle}
OnlyOpen(ops) == \A i \in Open : req[i].op \in ops
Bound ==
    \/ /\ \A r \in Regs : boot[r] = "idle"
       /\ OnlyOpen(NodeOps \cup {"list_enrollments"})
    \/ /\ \A c \in Codes : Fresh(c)
       /\ OnlyOpen(RegOps \cup {"list_registrations", "report"})
       /\ (\A r \in Regs : boot[r] # "idle") => Cardinality(Open) <= 1
=============================================================================
