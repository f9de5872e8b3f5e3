----------------------------- MODULE Migration -----------------------------
(***************************************************************************)
(* scripts/migrate_sqlite_to_mysql.py: the source's tables are read once   *)
(* for a report of counts and fingerprints, and a second time to be copied *)
(* in one target transaction; then the target is compared with the report. *)
(* SQLite gives the reads no common snapshot, so an application that still *)
(* writes, which the operations guide tells the operator to stop, changes  *)
(* tables between them.  A run may die at every step and be started again, *)
(* and nothing keeps two runs apart.                                       *)
(***************************************************************************)
EXTENDS Integers, FiniteSets

CONSTANTS
    Runs,       \* executions of the script
    NumTables,  \* tables in copy_order
    Refs,       \* foreign keys: <<t, u>> when rows of table t refer to rows of table u
    Ids,        \* primary keys
    Root,       \* the key of the oldest row of the first table, audit_events, where none is deleted
    Vals,       \* what else a row may hold
    Origins,    \* what the source may hold at first
    Leftovers,  \* what a table of a target in use may hold
    MaxWrites   \* bound: changes by the application

Tables == 1..NumTables

(* The rows of a table: a key, and all else a row holds.                     *)
Contents == {rows \in SUBSET (Ids \X Vals) : \A x, y \in rows : x[1] = y[1] => x = y}
Keys(rows) == {x[1] : x \in rows}
AllEmpty == [t \in Tables |-> {}]

\* Every row refers to a row that is there.
Closed(db) == \A r \in Refs : Keys(db[r[1]]) \subseteq Keys(db[r[2]])

\* What an application that has been used keeps in its database.
Sound(db) == Root \in Keys(db[1]) /\ Closed(db)

ASSUME MigrationConstants ==
    /\ NumTables \in Nat \ {0} /\ MaxWrites \in Nat /\ Root \in Ids
    /\ Origins \subseteq {db \in [Tables -> Contents] : Sound(db)} /\ Leftovers \subseteq Contents
    /\ Refs \subseteq {r \in Tables \X Tables : r[2] < r[1]}

VARIABLES
    source,     \* the SQLite tables
    target,     \* the MySQL tables, as committed
    schema,     \* do the target's tables exist?
    at,         \* where a run stands
    reset,      \* --reset-empty-destination
    next,       \* the table it reads next
    report,     \* source_report: what it has read for the report
    staged,     \* what its open transaction has inserted
    written,    \* changes by the application so far, for the bound
    held,       \* history: what each table of the source has held since a run started
    again,      \* history: the tables that were given a content they had held in the run
    taken,      \* history: the source as its report pass ended
    result      \* history: the target as it passed verification

history == <<held, again, taken, result>>
vars == <<source, target, schema, at, reset, next, report, staged, written, history>>

-----------------------------------------------------------------------------
Places == {"idle", "report", "dry", "drop", "create", "copy", "commit", "verify", "done", "failed"}

UnderWay(m) == at[m] \in {"report", "drop", "create", "copy", "commit", "verify"}

TypeOK ==
    /\ source \in [Tables -> Contents]
    /\ target \in [Tables -> Contents]
    /\ schema \in BOOLEAN
    /\ at \in [Runs -> Places]
    /\ reset \in [Runs -> BOOLEAN]
    /\ next \in [Runs -> 1..NumTables + 1]
    /\ report \in [Runs -> [Tables -> Contents]]
    /\ staged \in [Runs -> [Tables -> Contents]]
    /\ written \in 0..MaxWrites
    /\ held \in [Runs -> [Tables -> SUBSET Contents]]
    /\ again \in [Runs -> SUBSET Tables]
    /\ taken \in [Runs -> [Tables -> Contents]]
    /\ result \in [Runs -> [Tables -> Contents]]

\* The target is new, or has been in use.
Init ==
    /\ source \in Origins
    /\ \/ schema = FALSE /\ target = AllEmpty
       \/ \E rows \in Leftovers : schema = TRUE /\ target = [t \in Tables |-> rows]
    /\ at = [m \in Runs |-> "idle"]
    /\ reset = [m \in Runs |-> FALSE]
    /\ next = [m \in Runs |-> 1]
    /\ report = [m \in Runs |-> AllEmpty]
    /\ staged = [m \in Runs |-> AllEmpty]
    /\ written = 0
    /\ held = [m \in Runs |-> AllEmpty]
    /\ again = [m \in Runs |-> {}]
    /\ taken = [m \in Runs |-> AllEmpty]
    /\ result = [m \in Runs |-> AllEmpty]

-----------------------------------------------------------------------------
\* The application commits a change.  It keeps references intact and deletes no
\* audit event; it may empty every other table, and restore what a table held.
Write(new) ==
    /\ written < MaxWrites
    /\ new # source /\ Sound(new)
    /\ source' = new
    /\ written' = written + 1
    /\ held' = [m \in Runs |-> IF UnderWay(m) THEN [t \in Tables |-> held[m][t] \cup {new[t]}] ELSE held[m]]
    /\ again' = [m \in Runs |-> IF UnderWay(m)
                                THEN again[m] \cup {t \in Tables : new[t] # source[t] /\ new[t] \in held[m][t]}
                                ELSE again[m]]
    /\ UNCHANGED <<target, schema, at, reset, next, report, staged, taken, result>>

\* _destination_nonempty.
DestinationEmpty == target = AllEmpty

\* A destination that is not empty is refused without the reset.
Start(m, r) ==
    LET go == r \/ DestinationEmpty
    IN  /\ at[m] = "idle"
        /\ at' = [at EXCEPT ![m] = IF go THEN "report" ELSE "failed"]
        /\ reset' = [reset EXCEPT ![m] = r]
        /\ held' = IF go THEN [held EXCEPT ![m] = [t \in Tables |-> {source[t]}]] ELSE held
        /\ UNCHANGED <<source, target, schema, next, report, staged, written, again, taken, result>>

\* Mutant of AfterReport: the reset leads to a stage the script does not have.
AfterReportMisnamed(m, dry) == IF dry THEN "dry" ELSE IF reset[m] THEN "reset" ELSE "create"

AfterReport(m, dry) == IF dry THEN "dry" ELSE IF reset[m] THEN "drop" ELSE "create"

\* One SELECT of the report pass; --dry-run is looked at when it ends.
ReportTable(m, dry) ==
    LET t == next[m]
    IN  /\ at[m] = "report"
        /\ report' = [report EXCEPT ![m] = [report[m] EXCEPT ![t] = source[t]]]
        /\ IF t < NumTables
           THEN /\ next' = [next EXCEPT ![m] = t + 1]
                /\ UNCHANGED <<at, taken>>
           ELSE /\ next' = [next EXCEPT ![m] = 1]
                /\ at' = [at EXCEPT ![m] = AfterReport(m, dry)]
                /\ taken' = IF dry THEN taken ELSE [taken EXCEPT ![m] = source]
        /\ UNCHANGED <<source, target, schema, reset, staged, written, held, again, result>>

\* metadata.drop_all; it waits for transactions that have inserted rows.
DropAll(m) ==
    /\ at[m] = "drop"
    /\ \A o \in Runs : staged[o] = AllEmpty
    /\ target' = AllEmpty /\ schema' = FALSE
    /\ at' = [at EXCEPT ![m] = "create"]
    /\ UNCHANGED <<source, reset, next, report, staged, written, history>>

\* metadata.create_all and prepare_target.
CreateAll(m) ==
    /\ at[m] = "create"
    /\ schema' = TRUE
    /\ at' = [at EXCEPT ![m] = "copy"]
    /\ UNCHANGED <<source, target, reset, next, report, staged, written, history>>

\* One SELECT and INSERT of the copy.  A key that is there already, a missing
\* reference and a missing table are errors.
CopyTable(m) ==
    LET t == next[m]
    IN  /\ at[m] = "copy" /\ schema
        /\ Keys(source[t]) \cap Keys(target[t]) = {}
        /\ \A r \in Refs : r[1] = t => Keys(source[t]) \subseteq Keys(staged[m][r[2]]) \cup Keys(target[r[2]])
        /\ staged' = [staged EXCEPT ![m] = [staged[m] EXCEPT ![t] = source[t]]]
        /\ next' = [next EXCEPT ![m] = t + 1]
        /\ at' = [at EXCEPT ![m] = IF t < NumTables THEN "copy" ELSE "commit"]
        /\ UNCHANGED <<source, target, schema, reset, report, written, history>>

Commit(m) ==
    /\ at[m] = "commit"
    /\ \A t \in Tables : Keys(staged[m][t]) \cap Keys(target[t]) = {}
    /\ target' = [t \in Tables |-> target[t] \cup staged[m][t]]
    /\ staged' = [staged EXCEPT ![m] = AllEmpty]
    /\ at' = [at EXCEPT ![m] = "verify"]
    /\ UNCHANGED <<source, schema, reset, next, report, written, history>>

\* Mutant of SameContent: the row counts agree.
SameContentByCount(read, found) == Cardinality(read) = Cardinality(found)

\* source_count = target_count and source_sha256 = target_sha256.
SameContent(read, found) == read = found

\* The checks of the target, which read one snapshot of it.
Verify(m) ==
    LET good == Closed(target) /\ \A t \in Tables : SameContent(report[m][t], target[t])
    IN  /\ at[m] = "verify" /\ schema
        /\ at' = [at EXCEPT ![m] = IF good THEN "done" ELSE "failed"]
        /\ result' = IF good THEN [result EXCEPT ![m] = target] ELSE result
        /\ UNCHANGED <<source, target, schema, reset, next, report, staged, written, held, again, taken>>

\* An error, or the process dies: the transaction is rolled back.
Abort(m) ==
    /\ UnderWay(m)
    /\ at' = [at EXCEPT ![m] = "failed"]
    /\ staged' = [staged EXCEPT ![m] = AllEmpty]
    /\ UNCHANGED <<source, target, schema, reset, next, report, written, history>>

-----------------------------------------------------------------------------
Next ==
    \/ \E new \in [Tables -> Contents] : Write(new)
    \/ \E m \in Runs :
          \/ \E r \in BOOLEAN : Start(m, r)
          \/ \E dry \in BOOLEAN : ReportTable(m, dry)
          \/ DropAll(m) \/ CreateAll(m) \/ CopyTable(m) \/ Commit(m)
          \/ Verify(m) \/ Abort(m)

Spec == Init /\ [][Next]_vars

-----------------------------------------------------------------------------
(* What success means: every table of the target is what the source held at  *)
(* some moment of the run, references are intact, and a table to which the   *)
(* application did not give back, during the run, a content that it had held *)
(* in the run is as it was when the report pass ended, although neither pass *)
(* read one snapshot: a table that reads the same in both passes did not     *)
(* change in between, and all these intervals contain that moment.           *)
Phase(m) == CASE at[m] = "idle" -> "idle"
              [] at[m] = "report" -> "begun"
              [] at[m] \in {"dry", "failed"} -> "failed"
              [] at[m] = "done" -> "done"
              [] OTHER -> "taken"

Abstract == INSTANCE SnapshotCopy WITH
    Intact <- {db \in [Tables -> Contents] : Closed(db)},
    src <- source, phase <- [m \in Runs |-> Phase(m)]

Refines == Abstract!SSpec
=============================================================================
