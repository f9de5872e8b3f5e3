---------------------------- MODULE MCMigration ----------------------------
EXTENDS Migration, TLC
(* Runs are interchangeable.                                                 *)
Symmetry == Permutations(Runs)

(* Every table refers to the one before it.                                  *)
Chain == {<<t, t - 1>> : t \in 2..NumTables}

(* All tables are full, or all but the first are empty.                      *)
FullOrNew == {[t \in 1..NumTables |-> Ids \X Vals],
              [t \in 1..NumTables |-> IF t = 1 THEN {Root} \X Vals ELSE {}]}

(* A target in use is empty, or full.                                        *)
EmptyOrFull == {{}, Ids \X Vals}
=============================================================================
