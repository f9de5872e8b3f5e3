---------------------------- MODULE MCEdgeTunnel ----------------------------
EXTENDS EdgeTunnel, TLC
(* Handlers are interchangeable, and so are tickets. *)
Symmetry == Permutations(Conns) \cup Permutations(Tickets)
=============================================================================
