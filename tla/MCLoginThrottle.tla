-------------------------- MODULE MCLoginThrottle --------------------------
EXTENDS LoginThrottle, TLC
(* Worker slots are interchangeable. *)
Symmetry == Permutations(ReqIds)

(* With 1, a second failure that was under way when the cooldown began would *)
(* start another; 2 lets failures add up within a window.                    *)
MCThreshold == [account |-> 1, device |-> 2, source |-> 2]

(* In steps of two and a half minutes; the third cooldown is shortened so    *)
(* that a purge can happen within the bound on time.                         *)
MCPenalties == <<2, 6, 6>>
=============================================================================
