-------------------------- MODULE Migration_proofs --------------------------
(***************************************************************************)
(* What a migration delivers, for any number of runs, tables, keys, values *)
(* and writes, restoring and emptying ones among them: Migration           *)
(* implements SnapshotCopy.                                                *)
(***************************************************************************)
EXTENDS Migration, TLAPS

Working(m) == at[m] \in {"drop", "create", "copy", "commit", "verify"}
Copying(m) == at[m] \in {"copy", "commit"}

(* Where a run reads a table, its cursor is at one.                          *)
Cursor == \A m \in Runs :
    /\ at[m] \in {"idle", "drop", "create"} => next[m] = 1
    /\ at[m] \in {"report", "copy"} => next[m] \in Tables
    /\ at[m] = "commit" => next[m] = NumTables + 1

(* The oldest audit event is in the source, and in what has been read of the *)
(* audit events for a report.                                                *)
Reported(m, t) == Working(m) \/ (at[m] = "report" /\ t < next[m])
Rooted == /\ Root \in Keys(source[1])
          /\ \A m \in Runs : Reported(m, 1) => Root \in Keys(report[m][1])

(* The history of a run has what the source holds, and what was reported.    *)
Remembered == \A m \in Runs, t \in Tables :
    /\ UnderWay(m) => source[t] \in held[m][t]
    /\ Reported(m, t) => report[m][t] \in held[m][t]

(* Rows of table t that were read after the report of run m: if they are     *)
(* what it reported, the table did not change, or it was changed back.       *)
Agrees(m, rows, t) == t \notin again[m] /\ rows = report[m][t] => taken[m][t] = report[m][t]
Settled == \A m \in Runs, t \in Tables : Working(m) => Agrees(m, source[t], t)

(* What an open transaction holds: rows read after the report, beginning     *)
(* with the audit events.                                                    *)
Staging == \A m \in Runs :
    IF Copying(m)
    THEN /\ next[m] > 1 => Root \in Keys(staged[m][1])
         /\ \A t \in Tables : t < next[m] => Agrees(m, staged[m][t], t)
    ELSE staged[m] = AllEmpty

(* Once a run has found the target empty, or has dropped it, the target is   *)
(* empty or one copy: a second would insert the oldest audit event again.    *)
Entered(m) == at[m] \in {"create", "copy", "commit", "verify"} \/ (at[m] = "report" /\ ~reset[m])
Clean == (\E m \in Runs : Entered(m)) => target = AllEmpty \/ Root \in Keys(target[1])

(* What a run that verifies may find: its own copy, or, after another run's  *)
(* reset, a copy that began after that.                                      *)
Verifying == \A m \in Runs, t \in Tables : at[m] = "verify" =>
    IF Root \in Keys(target[1]) THEN Agrees(m, target[t], t)
    ELSE \A o \in Runs : Copying(o) /\ t < next[o] => Agrees(m, staged[o][t], t)

MigrationInv == Cursor /\ Rooted /\ Remembered /\ Settled /\ Staging /\ Clean /\ Verifying


-----------------------------------------------------------------------------
(* The constants, and the empty tables.                                      *)
LEMMA Constants ==
    /\ NumTables \in Nat /\ NumTables >= 1 /\ 1 \in Tables /\ Tables = 1 .. NumTables
    /\ \A db \in Origins : db \in [Tables -> Contents] /\ Root \in Keys(db[1])
    /\ Leftovers \subseteq Contents
    /\ {} \in Contents /\ Keys({}) = {}
    /\ AllEmpty \in [Tables -> Contents] /\ \A t \in Tables : AllEmpty[t] = {}
  <1>1. NumTables \in Nat /\ NumTables >= 1 /\ 1 \in Tables /\ Tables = 1 .. NumTables
    BY MigrationConstants DEF MigrationConstants, Tables
  <1>2. /\ \A db \in Origins : db \in [Tables -> Contents] /\ Root \in Keys(db[1])
        /\ Leftovers \subseteq Contents
    BY MigrationConstants DEF MigrationConstants, Sound
  <1>3. {} \in Contents /\ Keys({}) = {}
    BY DEF Contents, Keys
  <1>4. AllEmpty \in [Tables -> Contents] /\ \A t \in Tables : AllEmpty[t] = {}
    BY <1>3 DEF AllEmpty
  <1> QED
    BY <1>1, <1>2, <1>3, <1>4

(* Rows with other keys can be added to a table.                             *)
LEMMA UnionOfContents ==
    ASSUME NEW a \in Contents, NEW b \in Contents, Keys(a) \cap Keys(b) = {}
    PROVE  a \cup b \in Contents
  <1>1. a \cup b \in SUBSET (Ids \X Vals)
    BY DEF Contents
  <1>2. ASSUME NEW x \in a, NEW y \in b PROVE x[1] # y[1]
    BY DEF Keys
  <1>3. ASSUME NEW x \in a \cup b, NEW y \in a \cup b, x[1] = y[1] PROVE x = y
    BY <1>2, <1>3 DEF Contents
  <1> QED
    BY <1>1, <1>3 DEF Contents

(* The steps of one run.                                                     *)
RunStep(m) ==
    \/ \E r \in BOOLEAN : Start(m, r)
    \/ \E dry \in BOOLEAN : ReportTable(m, dry)
    \/ DropAll(m) \/ CreateAll(m) \/ CopyTable(m) \/ Commit(m) \/ Verify(m) \/ Abort(m)
Unmoved(m) == /\ at'[m] = at[m] /\ reset'[m] = reset[m] /\ next'[m] = next[m] /\ report'[m] = report[m]
              /\ staged'[m] = staged[m] /\ held'[m] = held[m] /\ taken'[m] = taken[m]

(* A run moves alone, and the source stands still meanwhile.                 *)
LEMMA OthersStand ==
    ASSUME TypeOK, NEW k \in Runs, RunStep(k)
    PROVE  source' = source /\ written' = written /\ again' = again /\ \A m \in Runs : m # k => Unmoved(m)
  <1> DEFINE P == source' = source /\ written' = written /\ again' = again /\ \A m \in Runs : m # k => Unmoved(m)
  <1> USE DEF TypeOK, Unmoved, history
  <1>1. ASSUME NEW r \in BOOLEAN, Start(k, r) PROVE P
    BY <1>1 DEF Start
  <1>2. ASSUME NEW dry \in BOOLEAN, ReportTable(k, dry) PROVE P
    BY <1>2 DEF ReportTable
  <1>3. ASSUME DropAll(k) \/ CreateAll(k) PROVE P
    BY <1>3 DEF DropAll, CreateAll
  <1>4. ASSUME CopyTable(k) PROVE P
    BY <1>4 DEF CopyTable
  <1>5. ASSUME Commit(k) \/ Verify(k) \/ Abort(k) PROVE P
    BY <1>5 DEF Commit, Verify, Abort
  <1> QED
    BY <1>1, <1>2, <1>3, <1>4, <1>5 DEF RunStep

(* A run begins to work when its report is read to the end; then report and  *)
(* histories stand.                                                          *)
LEMMA WorkingStep ==
    ASSUME TypeOK, NEW k \in Runs, RunStep(k), Working(k)'
    PROVE  \/ Working(k) /\ report' = report /\ taken' = taken /\ held' = held
           \/ /\ at[k] = "report" /\ at'[k] \in {"drop", "create"} /\ next[k] >= NumTables
              /\ ~reset[k] \/ at'[k] = "drop"
              /\ report' = [report EXCEPT ![k] = [report[k] EXCEPT ![next[k]] = source[next[k]]]]
              /\ taken' = [taken EXCEPT ![k] = source] /\ held' = held /\ next'[k] = 1
  <1> USE DEF TypeOK, Working, history
  <1>1. ASSUME NEW r \in BOOLEAN, Start(k, r) PROVE FALSE
    BY <1>1 DEF Start
  <1>2. ASSUME NEW dry \in BOOLEAN, ReportTable(k, dry)
        PROVE  /\ at[k] = "report" /\ at'[k] \in {"drop", "create"} /\ next[k] >= NumTables
               /\ ~reset[k] \/ at'[k] = "drop"
               /\ report' = [report EXCEPT ![k] = [report[k] EXCEPT ![next[k]] = source[next[k]]]]
               /\ taken' = [taken EXCEPT ![k] = source] /\ held' = held /\ next'[k] = 1
    <2>1. ~(next[k] < NumTables)
      BY <1>2 DEF ReportTable
    <2>2. next[k] \in Int /\ NumTables \in Int
      BY Constants
    <2>3. at'[k] = AfterReport(k, dry) /\ ~dry
      BY <1>2, <2>1 DEF ReportTable, AfterReport
    <2> QED
      BY <1>2, <2>1, <2>2, <2>3 DEF ReportTable, AfterReport
  <1>3. ASSUME DropAll(k) \/ CreateAll(k) \/ CopyTable(k) \/ Commit(k) \/ Verify(k) \/ Abort(k)
        PROVE  Working(k) /\ report' = report /\ taken' = taken /\ held' = held
    BY <1>3 DEF DropAll, CreateAll, CopyTable, Commit, Verify, Abort
  <1> QED
    BY <1>1, <1>2, <1>3 DEF RunStep

(* What the application writes.                                              *)
LEMMA WriteStep ==
    ASSUME TypeOK, NEW new \in [Tables -> Contents], Write(new)
    PROVE  /\ source' = new /\ new # source /\ Root \in Keys(new[1])
           /\ \A m \in Runs : again[m] \subseteq again'[m]
           /\ \A m \in Runs, t \in Tables : held[m][t] \subseteq held'[m][t]
           /\ \A m \in Runs, t \in Tables : UnderWay(m) => new[t] \in held'[m][t]
           /\ \A m \in Runs, t \in Tables : UnderWay(m) /\ new[t] # source[t] /\ new[t] \in held[m][t] => t \in again'[m]
           /\ held' \in [Runs -> [Tables -> SUBSET Contents]] /\ again' \in [Runs -> SUBSET Tables]
           /\ UNCHANGED <<target, schema, at, reset, next, report, staged, taken, result>>
  <1> DEFINE more(m) == [t \in Tables |-> held[m][t] \cup {new[t]}]
             back(m) == {t \in Tables : new[t] # source[t] /\ new[t] \in held[m][t]}
  <1>1. /\ held' = [m \in Runs |-> IF UnderWay(m) THEN more(m) ELSE held[m]]
        /\ again' = [m \in Runs |-> IF UnderWay(m) THEN again[m] \cup back(m) ELSE again[m]]
    BY DEF Write
  <1>2. ASSUME NEW m \in Runs
        PROVE  /\ more(m) \in [Tables -> SUBSET Contents] /\ back(m) \in SUBSET Tables
               /\ \A t \in Tables : held[m][t] \subseteq more(m)[t] /\ new[t] \in more(m)[t]
               /\ \A t \in Tables : new[t] # source[t] /\ new[t] \in held[m][t] => t \in back(m)
               /\ held[m] \in [Tables -> SUBSET Contents] /\ again[m] \in SUBSET Tables
    BY DEF TypeOK
  <1> HIDE DEF more, back
  <1>3. held' \in [Runs -> [Tables -> SUBSET Contents]] /\ again' \in [Runs -> SUBSET Tables]
    BY <1>1, <1>2
  <1>4. ASSUME NEW m \in Runs
        PROVE  /\ again[m] \subseteq again'[m]
               /\ \A t \in Tables : held[m][t] \subseteq held'[m][t]
               /\ \A t \in Tables : UnderWay(m) => new[t] \in held'[m][t]
               /\ \A t \in Tables : UnderWay(m) /\ new[t] # source[t] /\ new[t] \in held[m][t] => t \in again'[m]
    <2>1. CASE UnderWay(m)
      <3>1. held'[m] = more(m) /\ again'[m] = again[m] \cup back(m)
        BY <1>1, <2>1
      <3> QED
        BY <1>2, <3>1
    <2>2. CASE ~UnderWay(m)
      <3>1. held'[m] = held[m] /\ again'[m] = again[m]
        BY <1>1, <2>2
      <3> QED
        BY <2>2, <3>1
    <2> QED
      BY <2>1, <2>2
  <1> QED
    BY <1>3, <1>4 DEF Write, Sound


-----------------------------------------------------------------------------
(* Types.                                                                    *)
LEMMA TypeStep ==
    ASSUME TypeOK, Cursor, [Next]_vars
    PROVE  TypeOK'
  <1> USE Constants
  <1> USE DEF history
  <1>1. ASSUME NEW new \in [Tables -> Contents], Write(new) PROVE TypeOK'
    <2>1. written' \in 0..MaxWrites
      BY <1>1, MigrationConstants DEF TypeOK, Write, MigrationConstants
    <2> QED
      BY <1>1, <2>1, WriteStep DEF TypeOK
  <1>2. ASSUME NEW m \in Runs, NEW r \in BOOLEAN, Start(m, r) PROVE TypeOK'
    <2>1. [t \in Tables |-> {source[t]}] \in [Tables -> SUBSET Contents]
      BY DEF TypeOK
    <2>2. [held EXCEPT ![m] = [t \in Tables |-> {source[t]}]] \in [Runs -> [Tables -> SUBSET Contents]]
      BY <2>1 DEF TypeOK
    <2>3. held' \in [Runs -> [Tables -> SUBSET Contents]]
      BY <1>2, <2>2 DEF TypeOK, Start
    <2>4. at' \in [Runs -> Places] /\ reset' \in [Runs -> BOOLEAN]
      BY <1>2 DEF TypeOK, Start, Places
    <2> QED
      BY <1>2, <2>3, <2>4 DEF TypeOK, Start
  <1>3. ASSUME NEW m \in Runs, NEW dry \in BOOLEAN, ReportTable(m, dry) PROVE TypeOK'
    <2>1. next[m] \in Tables
      BY <1>3 DEF ReportTable, Cursor
    <2>2. source[next[m]] \in Contents /\ report[m] \in [Tables -> Contents]
      BY <2>1 DEF TypeOK
    <2>3. [report[m] EXCEPT ![next[m]] = source[next[m]]] \in [Tables -> Contents]
      BY <2>1, <2>2
    <2>4. report' \in [Runs -> [Tables -> Contents]]
      BY <1>3, <2>3 DEF TypeOK, ReportTable
    <2>5. AfterReport(m, dry) \in Places
      BY DEF AfterReport, Places
    <2>6. at' \in [Runs -> Places]
      <3>1. PICK p \in Places : at' = at \/ at' = [at EXCEPT ![m] = p]
        <4>1. at' = at \/ at' = [at EXCEPT ![m] = AfterReport(m, dry)]
          BY <1>3, Zenon DEF ReportTable
        <4> QED
          BY <2>5, <4>1, Zenon
      <3>2. at \in [Runs -> Places]
        BY DEF TypeOK
      <3> QED
        BY <3>1, <3>2
    <2>7. next' \in [Runs -> 1..NumTables + 1]
      <3>1. PICK n \in 1..NumTables + 1 : next' = [next EXCEPT ![m] = n]
        <4>1. next[m] + 1 \in 1..NumTables + 1 /\ 1 \in 1..NumTables + 1
          BY <2>1
        <4> QED
          BY <1>3, <4>1 DEF ReportTable
      <3> QED
        BY <3>1 DEF TypeOK
    <2>8. taken' \in [Runs -> [Tables -> Contents]]
      <3>1. [taken EXCEPT ![m] = source] \in [Runs -> [Tables -> Contents]]
        BY DEF TypeOK
      <3>2. taken' = taken \/ taken' = [taken EXCEPT ![m] = source]
        BY <1>3 DEF ReportTable
      <3> QED
        BY <3>1, <3>2 DEF TypeOK
    <2> QED
      BY <1>3, <2>4, <2>6, <2>7, <2>8 DEF TypeOK, ReportTable
  <1>4. ASSUME NEW m \in Runs, DropAll(m) \/ CreateAll(m) PROVE TypeOK'
    BY <1>4 DEF TypeOK, DropAll, CreateAll, Places
  <1>5. ASSUME NEW m \in Runs, CopyTable(m) PROVE TypeOK'
    <2>1. next[m] \in Tables
      BY <1>5 DEF CopyTable, Cursor
    <2>2. [staged[m] EXCEPT ![next[m]] = source[next[m]]] \in [Tables -> Contents]
      BY <2>1 DEF TypeOK
    <2>3. staged' \in [Runs -> [Tables -> Contents]]
      BY <1>5, <2>2 DEF TypeOK, CopyTable
    <2>4. next' \in [Runs -> 1..NumTables + 1]
      BY <1>5, <2>1 DEF TypeOK, CopyTable
    <2>5. at' \in [Runs -> Places]
      BY <1>5 DEF TypeOK, CopyTable, Places
    <2> QED
      BY <1>5, <2>3, <2>4, <2>5 DEF TypeOK, CopyTable
  <1>6. ASSUME NEW m \in Runs, Commit(m) PROVE TypeOK'
    <2>1. ASSUME NEW t \in Tables PROVE target[t] \cup staged[m][t] \in Contents
      <3>1. target[t] \in Contents /\ staged[m][t] \in Contents /\ Keys(target[t]) \cap Keys(staged[m][t]) = {}
        BY <1>6 DEF TypeOK, Commit
      <3> QED
        BY <3>1, UnionOfContents
    <2>2. target' \in [Tables -> Contents]
      BY <1>6, <2>1 DEF Commit
    <2> QED
      BY <1>6, <2>2 DEF TypeOK, Commit, Places
  <1>7. ASSUME NEW m \in Runs, Verify(m) PROVE TypeOK'
    <2>1. at' \in [Runs -> Places]
      BY <1>7 DEF TypeOK, Verify, Places
    <2>2. result' \in [Runs -> [Tables -> Contents]]
      BY <1>7 DEF TypeOK, Verify
    <2> QED
      BY <1>7, <2>1, <2>2 DEF TypeOK, Verify
  <1>8. ASSUME NEW m \in Runs, Abort(m) PROVE TypeOK'
    BY <1>8 DEF TypeOK, Abort, Places
  <1>9. CASE UNCHANGED vars
    BY <1>9 DEF TypeOK, vars
  <1> QED
    BY <1>1, <1>2, <1>3, <1>4, <1>5, <1>6, <1>7, <1>8, <1>9 DEF Next

-----------------------------------------------------------------------------
(* The invariant, part by part.  The cursor.                                 *)
LEMMA CursorStep ==
    ASSUME TypeOK, Cursor, [Next]_vars
    PROVE  Cursor'
  <1> USE Constants
  <1> DEFINE Good(m) == /\ at'[m] \in {"idle", "drop", "create"} => next'[m] = 1
                        /\ at'[m] \in {"report", "copy"} => next'[m] \in Tables
                        /\ at'[m] = "commit" => next'[m] = NumTables + 1
  <1>0. ASSUME NEW m \in Runs, at'[m] = at[m], next'[m] = next[m] PROVE Good(m)
    BY <1>0 DEF Cursor
  <1>1. ASSUME NEW m \in Runs, NEW r \in BOOLEAN, Start(m, r) PROVE Good(m)
    BY <1>1 DEF Start, TypeOK, Cursor
  <1>2. ASSUME NEW m \in Runs, NEW dry \in BOOLEAN, ReportTable(m, dry) PROVE Good(m)
    <2>1. next[m] \in Tables /\ at[m] = "report"
      BY <1>2 DEF ReportTable, Cursor
    <2>2. CASE next[m] < NumTables
      <3>1. next'[m] = next[m] + 1 /\ at'[m] = "report"
        BY <1>2, <2>1, <2>2 DEF ReportTable, TypeOK
      <3> QED
        BY <2>1, <2>2, <3>1
    <2>3. CASE ~(next[m] < NumTables)
      <3>1. next'[m] = 1 /\ at'[m] = AfterReport(m, dry)
        BY <1>2, <2>3 DEF ReportTable, TypeOK
      <3>2. at'[m] \in {"dry", "drop", "create"}
        BY <3>1 DEF AfterReport
      <3> QED
        BY <3>1, <3>2
    <2> QED
      BY <2>2, <2>3
  <1>3. ASSUME NEW m \in Runs, DropAll(m) \/ CreateAll(m) \/ Commit(m) \/ Verify(m) \/ Abort(m)
        PROVE  Good(m)
    BY <1>3 DEF DropAll, CreateAll, Commit, Verify, Abort, TypeOK, Cursor
  <1>4. ASSUME NEW m \in Runs, CopyTable(m) PROVE Good(m)
    <2>1. next[m] \in Tables /\ at[m] = "copy"
      BY <1>4 DEF CopyTable, Cursor
    <2>2. next'[m] = next[m] + 1 /\ at'[m] = IF next[m] < NumTables THEN "copy" ELSE "commit"
      BY <1>4 DEF CopyTable, TypeOK
    <2> QED
      BY <2>1, <2>2
  <1> HIDE DEF Good
  <1>5. ASSUME NEW k \in Runs, RunStep(k), NEW m \in Runs PROVE Good(m)
    BY <1>0, <1>1, <1>2, <1>3, <1>4, <1>5, OthersStand DEF RunStep, Unmoved
  <1>6. ASSUME NEW new \in [Tables -> Contents], Write(new), NEW m \in Runs PROVE Good(m)
    BY <1>0, <1>6 DEF Write
  <1>7. ASSUME UNCHANGED vars, NEW m \in Runs PROVE Good(m)
    BY <1>0, <1>7 DEF vars
  <1>8. \A m \in Runs : Good(m)
    BY <1>5, <1>6, <1>7 DEF Next, RunStep
  <1> QED
    BY <1>8 DEF Cursor, Good

(* What is reported of a table, and when.                                    *)
LEMMA ReportedStep ==
    ASSUME TypeOK, Cursor, NEW k \in Runs, RunStep(k), NEW t \in Tables, Reported(k, t)'
    PROVE  \/ Reported(k, t) /\ report'[k][t] = report[k][t] /\ UnderWay(k) /\ held'[k] = held[k]
           \/ report'[k][t] = source[t] /\ UnderWay(k) /\ held'[k] = held[k]
  <1> USE Constants
  <1>1. CASE Working(k)'
    <2>1. CASE Working(k) /\ report' = report /\ taken' = taken /\ held' = held
      BY <2>1 DEF Reported, Working, UnderWay
    <2>2. CASE /\ at[k] = "report" /\ next[k] >= NumTables /\ held' = held
               /\ report' = [report EXCEPT ![k] = [report[k] EXCEPT ![next[k]] = source[next[k]]]]
      <3>1. next[k] = NumTables
        BY <2>2 DEF Cursor
      <3>2. report'[k] = [report[k] EXCEPT ![next[k]] = source[next[k]]]
        BY <2>2 DEF TypeOK
      <3>3. CASE t = next[k]
        BY <2>2, <3>2, <3>3 DEF TypeOK, UnderWay
      <3>4. CASE t # next[k]
        <4>1. t < next[k] /\ report'[k][t] = report[k][t]
          BY <3>1, <3>2, <3>4 DEF TypeOK
        <4> QED
          BY <2>2, <4>1 DEF Reported, UnderWay
      <3> QED
        BY <3>3, <3>4
    <2> QED
      BY <1>1, <2>1, <2>2, WorkingStep
  <1>2. CASE ~Working(k)' /\ at'[k] = "report" /\ t < next'[k]
    <2>1. ASSUME NEW r \in BOOLEAN, Start(k, r) PROVE FALSE
      BY <1>2, <2>1 DEF Start, Cursor, TypeOK
    <2>2. ASSUME NEW dry \in BOOLEAN, ReportTable(k, dry)
          PROVE  \/ Reported(k, t) /\ report'[k][t] = report[k][t] /\ UnderWay(k) /\ held'[k] = held[k]
                 \/ report'[k][t] = source[t] /\ UnderWay(k) /\ held'[k] = held[k]
      <3>1. next[k] \in Tables /\ at[k] = "report" /\ held' = held
        BY <2>2 DEF ReportTable, Cursor
      <3>2. report'[k] = [report[k] EXCEPT ![next[k]] = source[next[k]]]
        BY <2>2 DEF TypeOK, ReportTable
      <3>3. next'[k] = next[k] + 1
        BY <1>2, <2>2, <3>1 DEF ReportTable, AfterReport, TypeOK
      <3>4. CASE t = next[k]
        BY <3>1, <3>2, <3>4 DEF TypeOK, UnderWay
      <3>5. CASE t # next[k]
        <4>1. t < next[k] /\ report'[k][t] = report[k][t]
          BY <1>2, <3>1, <3>2, <3>3, <3>5 DEF TypeOK
        <4> QED
          BY <3>1, <4>1 DEF Reported, UnderWay
      <3> QED
        BY <3>4, <3>5
    <2>3. ASSUME DropAll(k) \/ CreateAll(k) \/ CopyTable(k) \/ Commit(k) \/ Verify(k) \/ Abort(k) PROVE FALSE
      BY <1>2, <2>3 DEF DropAll, CreateAll, CopyTable, Commit, Verify, Abort, TypeOK
    <2> QED
      BY <2>1, <2>2, <2>3 DEF RunStep
  <1> QED
    BY <1>1, <1>2 DEF Reported

(* The oldest audit event.                                                   *)
LEMMA RootedStep ==
    ASSUME TypeOK, Cursor, Rooted, [Next]_vars
    PROVE  Rooted'
  <1> USE Constants
  <1>1. Root \in Keys(source[1])'
    <2>1. ASSUME NEW new \in [Tables -> Contents], Write(new) PROVE Root \in Keys(source'[1])
      BY <2>1, WriteStep
    <2>2. ASSUME source' = source PROVE Root \in Keys(source'[1])
      BY <2>2 DEF Rooted
    <2> QED
      BY <2>1, <2>2, OthersStand DEF Next, RunStep, vars
  <1>2. ASSUME NEW m \in Runs, Reported(m, 1)' PROVE Root \in Keys(report'[m][1])
    <2>1. ASSUME at'[m] = at[m], next'[m] = next[m], report'[m] = report[m] PROVE Root \in Keys(report'[m][1])
      BY <1>2, <2>1 DEF Rooted, Reported, Working
    <2>2. ASSUME RunStep(m) PROVE Root \in Keys(report'[m][1])
      BY <1>2, <2>2, ReportedStep DEF Rooted
    <2>3. ASSUME NEW k \in Runs, RunStep(k), k # m PROVE Root \in Keys(report'[m][1])
      BY <2>1, <2>3, OthersStand DEF Unmoved
    <2>4. ASSUME NEW new \in [Tables -> Contents], Write(new) PROVE Root \in Keys(report'[m][1])
      BY <2>1, <2>4, WriteStep
    <2>5. ASSUME UNCHANGED vars PROVE Root \in Keys(report'[m][1])
      BY <2>1, <2>5 DEF vars
    <2> QED
      BY <2>2, <2>3, <2>4, <2>5 DEF Next, RunStep
  <1> QED
    BY <1>1, <1>2 DEF Rooted

(* The history of a run.                                                     *)
LEMMA RememberedStep ==
    ASSUME TypeOK, Cursor, Remembered, [Next]_vars
    PROVE  Remembered'
  <1> SUFFICES ASSUME NEW m \in Runs, NEW t \in Tables
               PROVE  /\ UnderWay(m)' => source'[t] \in held'[m][t]
                      /\ Reported(m, t)' => report'[m][t] \in held'[m][t]
    BY DEF Remembered
  <1> DEFINE Good == /\ UnderWay(m)' => source'[t] \in held'[m][t]
                     /\ Reported(m, t)' => report'[m][t] \in held'[m][t]
  <1>1. ASSUME at'[m] = at[m], next'[m] = next[m], report'[m] = report[m], held'[m] = held[m], source' = source
        PROVE  Good
    BY <1>1 DEF Remembered, Reported, Working, UnderWay
  <1>2. ASSUME RunStep(m) PROVE Good
    <2>1. source' = source
      BY <1>2, OthersStand
    <2>2. ASSUME UnderWay(m)' PROVE source'[t] \in held'[m][t]
      <3>1. ASSUME NEW r \in BOOLEAN, Start(m, r) PROVE source'[t] \in held'[m][t]
        <4>1. held' = [held EXCEPT ![m] = [u \in Tables |-> {source[u]}]]
          BY <2>2, <3>1 DEF Start, UnderWay, TypeOK
        <4> QED
          BY <2>1, <4>1 DEF TypeOK
      <3>2. ASSUME ~\E r \in BOOLEAN : Start(m, r) PROVE UnderWay(m) /\ held' = held
        BY <1>2, <2>2, <3>2 DEF RunStep, ReportTable, DropAll, CreateAll, CopyTable, Commit, Verify, Abort, UnderWay, history
      <3> QED
        BY <2>1, <3>1, <3>2 DEF Remembered
    <2>3. ASSUME Reported(m, t)' PROVE report'[m][t] \in held'[m][t]
      BY <1>2, <2>3, ReportedStep DEF Remembered
    <2> QED
      BY <2>2, <2>3
  <1>3. ASSUME NEW k \in Runs, RunStep(k), k # m PROVE Good
    BY <1>1, <1>3, OthersStand DEF Unmoved
  <1>4. ASSUME NEW new \in [Tables -> Contents], Write(new) PROVE Good
    <2>1. at' = at /\ next' = next /\ report' = report /\ source' = new
      BY <1>4, WriteStep
    <2>2. held[m][t] \subseteq held'[m][t] /\ (UnderWay(m) => new[t] \in held'[m][t])
      BY <1>4, WriteStep
    <2> QED
      BY <2>1, <2>2 DEF Remembered, Reported, Working, UnderWay
  <1>5. ASSUME UNCHANGED vars PROVE Good
    BY <1>1, <1>5 DEF vars, history
  <1> QED
    BY <1>2, <1>3, <1>4, <1>5 DEF Next, RunStep

(* What the source holds after the report.                                   *)
LEMMA SettledStep ==
    ASSUME TypeOK, Cursor, Remembered, Settled, [Next]_vars
    PROVE  Settled'
  <1> SUFFICES ASSUME NEW m \in Runs, NEW t \in Tables, Working(m)', t \notin again'[m], source'[t] = report'[m][t]
               PROVE  taken'[m][t] = report'[m][t]
    BY DEF Settled, Agrees
  <1>1. ASSUME Working(m), again'[m] = again[m], report'[m] = report[m], taken'[m] = taken[m], source' = source
        PROVE  taken'[m][t] = report'[m][t]
    BY <1>1 DEF Settled, Agrees
  <1>2. ASSUME RunStep(m) PROVE taken'[m][t] = report'[m][t]
    <2>0. source' = source /\ again' = again
      BY <1>2, OthersStand
    <2>1. CASE Working(m) /\ report' = report /\ taken' = taken
      BY <1>1, <2>0, <2>1
    <2>2. CASE taken' = [taken EXCEPT ![m] = source]
      BY <2>0, <2>2 DEF TypeOK
    <2> QED
      BY <1>2, <2>1, <2>2, WorkingStep
  <1>3. ASSUME NEW k \in Runs, RunStep(k), k # m PROVE taken'[m][t] = report'[m][t]
    <2>1. Working(m)
      BY <1>3, OthersStand DEF Unmoved, Working
    <2> QED
      BY <1>1, <1>3, <2>1, OthersStand DEF Unmoved
  <1>4. ASSUME NEW new \in [Tables -> Contents], Write(new) PROVE taken'[m][t] = report'[m][t]
    <2>1. at' = at /\ report' = report /\ taken' = taken /\ source' = new /\ again[m] \subseteq again'[m]
      BY <1>4, WriteStep
    <2>2. Working(m) /\ UnderWay(m) /\ Reported(m, t)
      BY <2>1 DEF Working, UnderWay, Reported
    <2>3. CASE new[t] = source[t]
      BY <2>1, <2>2, <2>3 DEF Settled, Agrees
    <2>4. CASE new[t] # source[t]
      <3>1. new[t] \in held[m][t]
        BY <2>1, <2>2 DEF Remembered
      <3> QED
        BY <1>4, <2>2, <2>4, <3>1, WriteStep
    <2> QED
      BY <2>3, <2>4
  <1>5. ASSUME UNCHANGED vars PROVE taken'[m][t] = report'[m][t]
    BY <1>1, <1>5 DEF vars, history, Working
  <1> QED
    BY <1>2, <1>3, <1>4, <1>5 DEF Next, RunStep

(* What open transactions hold.  A copy puts a row of the source with them.  *)
LEMMA CopyStep ==
    ASSUME TypeOK, Cursor, NEW k \in Runs, CopyTable(k)
    PROVE  /\ at[k] = "copy" /\ next[k] \in Tables /\ next'[k] = next[k] + 1 /\ Copying(k)'
           /\ staged'[k][next[k]] = source[next[k]]
           /\ \A t \in Tables : t # next[k] => staged'[k][t] = staged[k][t]
           /\ \A o \in Runs : o # k => staged'[o] = staged[o] /\ next'[o] = next[o] /\ at'[o] = at[o]
           /\ target' = target /\ report' = report /\ taken' = taken /\ source' = source /\ again' = again
  <1>1. at[k] = "copy" /\ next[k] \in Tables
    BY DEF CopyTable, Cursor
  <1>2. next'[k] = next[k] + 1 /\ Copying(k)'
    BY DEF CopyTable, TypeOK, Copying
  <1>3. staged'[k] = [staged[k] EXCEPT ![next[k]] = source[next[k]]] /\ staged[k] \in [Tables -> Contents]
    BY DEF CopyTable, TypeOK
  <1>4. \A o \in Runs : o # k => staged'[o] = staged[o] /\ next'[o] = next[o] /\ at'[o] = at[o]
    BY DEF CopyTable, TypeOK
  <1> QED
    BY <1>1, <1>2, <1>3, <1>4 DEF CopyTable, history

LEMMA StagingStep ==
    ASSUME TypeOK, Cursor, Rooted, Settled, Staging, [Next]_vars
    PROVE  Staging'
  <1> USE Constants
  <1> DEFINE Open(m) == /\ next[m] > 1 => Root \in Keys(staged[m][1])
                        /\ \A t \in Tables : t < next[m] => Agrees(m, staged[m][t], t)
             Good(m) == IF Copying(m)' THEN Open(m)' ELSE staged'[m] = AllEmpty
  <1>1. ASSUME NEW m \in Runs, at'[m] = at[m], next'[m] = next[m], staged'[m] = staged[m], report'[m] = report[m],
               taken'[m] = taken[m], again[m] \subseteq again'[m]
        PROVE  Good(m)
    <2>1. CASE Copying(m)
      BY <1>1, <2>1 DEF Staging, Agrees, Copying
    <2>2. CASE ~Copying(m)
      BY <1>1, <2>2 DEF Staging, Copying
    <2> QED
      BY <2>1, <2>2
  <1>2. ASSUME NEW m \in Runs, RunStep(m), ~CopyTable(m), ~CreateAll(m) PROVE Good(m)
    <2>1. (staged' = staged /\ ~Copying(m)) \/ staged' = [staged EXCEPT ![m] = AllEmpty]
      BY <1>2 DEF RunStep, Start, ReportTable, DropAll, Commit, Verify, Abort, Copying
    <2>2. ~Copying(m)'
      BY <1>2 DEF RunStep, Start, ReportTable, AfterReport, DropAll, Commit, Verify, Abort, Copying, TypeOK
    <2> QED
      BY <2>1, <2>2 DEF Staging, TypeOK
  <1>3. ASSUME NEW m \in Runs, CreateAll(m) PROVE Good(m)
    <2>1. next'[m] = 1 /\ Copying(m)'
      BY <1>3 DEF CreateAll, Cursor, Copying, TypeOK
    <2> QED
      BY <2>1
  <1>4. ASSUME NEW m \in Runs, CopyTable(m) PROVE Good(m)
    <2>0. Copying(m) /\ Working(m) /\ Copying(m)'
      BY <1>4, CopyStep DEF Copying, Working
    <2>1. Root \in Keys(staged'[m][1])
      BY <1>4, <2>0, CopyStep DEF Rooted, Staging
    <2>2. ASSUME NEW t \in Tables, t < next'[m] PROVE Agrees(m, staged[m][t], t)'
      <3>1. CASE t = next[m]
        BY <1>4, <2>0, <3>1, CopyStep DEF Settled, Agrees
      <3>2. CASE t # next[m]
        <4>1. t < next[m] /\ staged'[m][t] = staged[m][t]
          BY <1>4, <2>2, <3>2, CopyStep
        <4> QED
          BY <1>4, <2>0, <4>1, CopyStep DEF Staging, Agrees
      <3> QED
        BY <3>1, <3>2
    <2> QED
      BY <2>0, <2>1, <2>2
  <1> HIDE DEF Good
  <1>5. ASSUME NEW k \in Runs, RunStep(k), NEW m \in Runs PROVE Good(m)
    <2>1. CASE m = k
      BY <1>2, <1>3, <1>4, <1>5, <2>1
    <2>2. CASE m # k
      BY <1>1, <1>5, <2>2, OthersStand DEF Unmoved
    <2> QED
      BY <2>1, <2>2
  <1>6. ASSUME NEW new \in [Tables -> Contents], Write(new), NEW m \in Runs PROVE Good(m)
    BY <1>1, <1>6, WriteStep
  <1>7. ASSUME UNCHANGED vars, NEW m \in Runs PROVE Good(m)
    BY <1>1, <1>7 DEF vars, history
  <1>8. \A m \in Runs : Good(m)
    BY <1>5, <1>6, <1>7 DEF Next, RunStep
  <1> QED
    BY <1>8 DEF Staging, Good

(* A transaction that commits brings the oldest audit event, so the target   *)
(* was empty, and becomes that copy.                                         *)
LEMMA CommitStep ==
    ASSUME TypeOK, Cursor, Staging, Clean, NEW k \in Runs, Commit(k)
    PROVE  /\ Copying(k) /\ next[k] = NumTables + 1 /\ Root \in Keys(staged[k][1])
           /\ target = AllEmpty /\ Root \notin Keys(target[1])
           /\ target' = staged[k] /\ at'[k] = "verify"
           /\ report' = report /\ taken' = taken /\ source' = source /\ again' = again
           /\ \A o \in Runs : o # k => at'[o] = at[o]
  <1> USE Constants
  <1>1. at[k] = "commit" /\ Copying(k) /\ next[k] = NumTables + 1
    BY DEF Commit, Copying, Cursor
  <1>2. Root \in Keys(staged[k][1])
    BY <1>1 DEF Staging
  <1>3. Root \notin Keys(target[1])
    BY <1>2 DEF Commit
  <1>4. target = AllEmpty
    BY <1>1, <1>3 DEF Clean, Entered
  <1>5. target' = staged[k]
    <2>1. target' = [t \in Tables |-> target[t] \cup staged[k][t]] /\ staged[k] \in [Tables -> Contents]
      BY DEF Commit, TypeOK
    <2>2. \A t \in Tables : target[t] \cup staged[k][t] = staged[k][t]
      BY <1>4
    <2> QED
      BY <2>1, <2>2
  <1> QED
    BY <1>1, <1>2, <1>3, <1>4, <1>5 DEF Commit, TypeOK, history

LEMMA CleanStep ==
    ASSUME TypeOK, Cursor, Staging, Clean, [Next]_vars
    PROVE  Clean'
  <1> USE Constants
  <1>1. ASSUME target' = target, at' = at, reset' = reset PROVE Clean'
    BY <1>1 DEF Clean, Entered
  <1>2. ASSUME NEW k \in Runs, RunStep(k) PROVE Clean'
    <2>1. CASE DropAll(k)
      BY <2>1 DEF DropAll, Clean
    <2>2. CASE Commit(k)
      BY <2>2, CommitStep DEF Clean
    <2>3. CASE ~DropAll(k) /\ ~Commit(k)
      <3>0. target' = target
        BY <1>2, <2>3 DEF RunStep, Start, ReportTable, CreateAll, CopyTable, Verify, Abort
      <3>1. ASSUME NEW m \in Runs, Entered(m)' PROVE target = AllEmpty \/ Root \in Keys(target[1])
        <4>1. CASE m # k
          BY <1>2, <3>1, <4>1, OthersStand DEF Unmoved, Entered, Clean
        <4>2. CASE m = k
          <5>1. ASSUME NEW r \in BOOLEAN, Start(k, r) PROVE target = AllEmpty
            BY <3>1, <4>2, <5>1 DEF Start, DestinationEmpty, Entered, TypeOK
          <5>2. ASSUME NEW dry \in BOOLEAN, ReportTable(k, dry) PROVE Entered(k)
            <6>1. at[k] = "report" /\ reset' = reset
              BY <5>2 DEF ReportTable
            <6>2. CASE Working(k)'
              <7>1. ~reset[k] \/ at'[k] = "drop"
                BY <1>2, <6>1, <6>2, WorkingStep DEF Working
              <7> QED
                BY <3>1, <4>2, <6>1, <7>1 DEF Entered
            <6>3. CASE ~Working(k)'
              BY <3>1, <4>2, <6>1, <6>3 DEF Entered, Working
            <6> QED
              BY <6>2, <6>3
          <5>3. ASSUME CreateAll(k) \/ CopyTable(k) \/ Verify(k) \/ Abort(k) PROVE Entered(k)
            BY <3>1, <4>2, <5>3 DEF CreateAll, CopyTable, Verify, Abort, Entered, TypeOK
          <5> QED
            BY <1>2, <2>3, <5>1, <5>2, <5>3 DEF RunStep, Clean
        <4> QED
          BY <4>1, <4>2
      <3> QED
        BY <3>0, <3>1 DEF Clean
    <2> QED
      BY <2>1, <2>2, <2>3
  <1>3. ASSUME NEW new \in [Tables -> Contents], Write(new) PROVE Clean'
    BY <1>1, <1>3 DEF Write
  <1>4. ASSUME UNCHANGED vars PROVE Clean'
    BY <1>1, <1>4 DEF vars
  <1> QED
    BY <1>2, <1>3, <1>4 DEF Next, RunStep

(* What a run that verifies may find.                                        *)
LEMMA VerifyingStep ==
    ASSUME TypeOK, Cursor, Settled, Staging, Clean, Verifying, [Next]_vars
    PROVE  Verifying'
  <1> USE Constants
  <1> DEFINE Good(m, t) == IF Root \in Keys(target'[1]) THEN Agrees(m, target[t], t)'
                           ELSE \A o \in Runs : Copying(o)' /\ t < next'[o] => Agrees(m, staged[o][t], t)'
  <1>1. ASSUME NEW m \in Runs, NEW t \in Tables, at[m] = "verify", target' = target,
               report'[m] = report[m], taken'[m] = taken[m], again[m] \subseteq again'[m],
               \A o \in Runs : Copying(o)' /\ t < next'[o] =>
                   Copying(o) /\ t < next[o] /\ staged'[o] = staged[o]
        PROVE  Good(m, t)
    <2>1. CASE Root \in Keys(target[1])
      BY <1>1, <2>1 DEF Verifying, Agrees
    <2>2. CASE Root \notin Keys(target[1])
      BY <1>1, <2>2 DEF Verifying, Agrees
    <2> QED
      BY <2>1, <2>2
  <1>2. ASSUME NEW m \in Runs, NEW t \in Tables, Commit(m) PROVE Good(m, t)
    <2>1. t < next[m] /\ Copying(m) /\ target' = staged[m] /\ Root \in Keys(target'[1])
      BY <1>2, CommitStep
    <2>2. Agrees(m, staged[m][t], t)
      BY <2>1 DEF Staging
    <2> QED
      BY <1>2, <2>1, <2>2, CommitStep DEF Agrees
  <1>3. ASSUME NEW m \in Runs, NEW t \in Tables, at[m] = "verify", NEW k \in Runs, Commit(k) PROVE Good(m, t)
    <2>1. /\ t < next[k] /\ Copying(k) /\ target' = staged[k] /\ Root \in Keys(target'[1])
          /\ Root \notin Keys(target[1])
      BY <1>3, CommitStep
    <2>2. Agrees(m, staged[k][t], t)
      BY <1>3, <2>1 DEF Verifying
    <2> QED
      BY <1>3, <2>1, <2>2, CommitStep DEF Agrees
  <1>4. ASSUME NEW m \in Runs, NEW t \in Tables, NEW k \in Runs, DropAll(k) PROVE Good(m, t)
    <2>1. Root \notin Keys(target'[1])
      BY <1>4 DEF DropAll
    <2>2. ASSUME NEW o \in Runs, Copying(o)', t < next'[o] PROVE FALSE
      <3>1. Copying(o) /\ next'[o] = next[o] /\ staged[o] = AllEmpty
        BY <1>4, <2>2 DEF DropAll, Copying, TypeOK
      <3>2. next[o] > 1
        <4>1. next[o] \in 1..NumTables + 1
          BY DEF TypeOK
        <4> QED
          BY <2>2, <3>1, <4>1
      <3>3. Root \in Keys(staged[o][1])
        BY <3>1, <3>2 DEF Staging
      <3> QED
        BY <3>1, <3>3
    <2> QED
      BY <2>1, <2>2
  <1>5. ASSUME NEW m \in Runs, NEW t \in Tables, at[m] = "verify", NEW k \in Runs, CopyTable(k) PROVE Good(m, t)
    <2>0. target' = target /\ report' = report /\ taken' = taken /\ again' = again /\ Copying(k)
      BY <1>5, CopyStep DEF Copying
    <2>1. CASE Root \in Keys(target[1])
      BY <1>5, <2>0, <2>1 DEF Verifying, Agrees
    <2>2. CASE Root \notin Keys(target[1])
      <3>1. ASSUME NEW o \in Runs, Copying(o)', t < next'[o] PROVE Agrees(m, staged'[o][t], t)
        <4>1. CASE o = k /\ t = next[k]
          <5>1. staged'[o][t] = source[t] /\ Working(m)
            BY <1>5, <4>1, CopyStep DEF Working
          <5> QED
            BY <5>1 DEF Settled
        <4>2. CASE o = k /\ t # next[k]
          <5>1. t < next[k] /\ staged'[k][t] = staged[k][t]
            BY <1>5, <3>1, <4>2, CopyStep
          <5> QED
            BY <1>5, <2>0, <2>2, <4>2, <5>1 DEF Verifying
        <4>3. CASE o # k
          <5>1. staged'[o] = staged[o] /\ next'[o] = next[o] /\ at'[o] = at[o]
            BY <1>5, <4>3, CopyStep
          <5> QED
            BY <1>5, <2>2, <3>1, <5>1 DEF Verifying, Copying
        <4> QED
          BY <4>1, <4>2, <4>3
      <3> QED
        BY <2>0, <2>2, <3>1 DEF Agrees
    <2> QED
      BY <2>1, <2>2
  <1>6. ASSUME NEW m \in Runs, NEW t \in Tables, at[m] = "verify", NEW k \in Runs, RunStep(k), k # m,
               ~DropAll(k), ~CopyTable(k), ~Commit(k)
        PROVE  Good(m, t)
    <2>1. target' = target /\ again' = again /\ report'[m] = report[m] /\ taken'[m] = taken[m]
      <3>1. target' = target
        BY <1>6 DEF RunStep, Start, ReportTable, CreateAll, Verify, Abort
      <3> QED
        BY <1>6, <3>1, OthersStand DEF Unmoved
    <2>2. ASSUME Copying(k)' PROVE next'[k] = 1
      BY <1>6, <2>2 DEF RunStep, Start, ReportTable, AfterReport, CreateAll, Verify, Abort, Copying, Cursor, TypeOK
    <2>3. \A o \in Runs : o # k => at'[o] = at[o] /\ next'[o] = next[o] /\ staged'[o] = staged[o]
      BY <1>6, OthersStand DEF Unmoved
    <2>4. ASSUME NEW o \in Runs, Copying(o)', t < next'[o]
          PROVE  Copying(o) /\ t < next[o] /\ staged'[o] = staged[o]
      <3>1. o # k
        BY <2>2, <2>4
      <3> QED
        BY <2>3, <2>4, <3>1 DEF Copying
    <2> QED
      BY <1>1, <1>6, <2>1, <2>4
  <1>7. ASSUME NEW m \in Runs, NEW t \in Tables, at[m] = "verify", NEW new \in [Tables -> Contents], Write(new)
        PROVE  Good(m, t)
    <2>1. /\ target' = target /\ report' = report /\ taken' = taken /\ again[m] \subseteq again'[m]
          /\ at' = at /\ next' = next /\ staged' = staged
      BY <1>7, WriteStep
    <2> QED
      BY <1>1, <1>7, <2>1 DEF Copying
  <1>8. ASSUME NEW m \in Runs, NEW t \in Tables, at[m] = "verify", UNCHANGED vars PROVE Good(m, t)
    BY <1>1, <1>8 DEF vars, history, Copying
  <1>9. ASSUME NEW k \in Runs, RunStep(k), NEW m \in Runs, at'[m] = "verify" PROVE Commit(m) \/ (m # k /\ at[m] = "verify")
    <2>1. CASE m = k
      BY <1>9, <2>1 DEF RunStep, Start, ReportTable, AfterReport, DropAll, CreateAll, CopyTable, Verify, Abort, TypeOK
    <2>2. CASE m # k
      BY <1>9, <2>2, OthersStand DEF Unmoved
    <2> QED
      BY <2>1, <2>2
  <1> HIDE DEF Good
  <1>10. ASSUME NEW m \in Runs, NEW t \in Tables, at'[m] = "verify" PROVE Good(m, t)
    <2>1. ASSUME NEW k \in Runs, RunStep(k) PROVE Good(m, t)
      BY <1>2, <1>3, <1>4, <1>5, <1>6, <1>9, <1>10, <2>1
    <2>2. ASSUME NEW new \in [Tables -> Contents], Write(new) PROVE Good(m, t)
      <3>1. at[m] = "verify"
        BY <1>10, <2>2 DEF Write
      <3> QED
        BY <1>7, <2>2, <3>1
    <2>3. ASSUME UNCHANGED vars PROVE Good(m, t)
      <3>1. at[m] = "verify"
        BY <1>10, <2>3 DEF vars
      <3> QED
        BY <1>8, <2>3, <3>1
    <2> QED
      BY <2>1, <2>2, <2>3 DEF Next, RunStep
  <1> QED
    BY <1>10 DEF Verifying, Good

(* The invariant is inductive.                                               *)
LEMMA InvStep ==
    ASSUME TypeOK, MigrationInv, [Next]_vars
    PROVE  TypeOK' /\ MigrationInv'
  BY TypeStep, CursorStep, RootedStep, RememberedStep, SettledStep, StagingStep, CleanStep, VerifyingStep
     DEF MigrationInv

LEMMA InitInv == Init => TypeOK /\ MigrationInv
  <1> SUFFICES ASSUME Init PROVE TypeOK /\ MigrationInv
    OBVIOUS
  <1> USE Constants
  <1>1. source \in [Tables -> Contents] /\ Root \in Keys(source[1])
    BY DEF Init
  <1>2. TypeOK
    <2>1. target \in [Tables -> Contents]
      BY DEF Init
    <2>2. schema \in BOOLEAN
      <3>1. (schema = FALSE) \/ (schema = TRUE)
        BY Zenon DEF Init
      <3> QED
        BY <3>1, Zenon
    <2>3. at \in [Runs -> Places] /\ reset \in [Runs -> BOOLEAN]
      BY DEF Init, Places
    <2>4. 1 \in 1..NumTables + 1 /\ 0 \in 0..MaxWrites
      BY MigrationConstants DEF MigrationConstants
    <2>5. AllEmpty \in [Tables -> SUBSET Contents]
      BY DEF AllEmpty
    <2>6. /\ report \in [Runs -> [Tables -> Contents]] /\ staged \in [Runs -> [Tables -> Contents]]
          /\ taken \in [Runs -> [Tables -> Contents]] /\ result \in [Runs -> [Tables -> Contents]]
          /\ held \in [Runs -> [Tables -> SUBSET Contents]]
      BY <2>5 DEF Init
    <2>7. next \in [Runs -> 1..NumTables + 1] /\ written \in 0..MaxWrites /\ again \in [Runs -> SUBSET Tables]
      BY <2>4 DEF Init
    <2> QED
      BY <1>1, <2>1, <2>2, <2>3, <2>6, <2>7 DEF TypeOK
  <1>3. Cursor /\ Rooted /\ Remembered /\ Settled
    BY <1>1 DEF Init, Cursor, Rooted, Remembered, Settled, Reported, Working, UnderWay
  <1>4. Staging /\ Clean /\ Verifying
    BY DEF Init, Staging, Clean, Verifying, Copying, Entered
  <1> QED
    BY <1>2, <1>3, <1>4 DEF MigrationInv

(* The state of a run is of its type: its cursor never leaves the tables of  *)
(* copy_order, whatever it reads, commits or gives up.                       *)
THEOREM TypeCorrect == Spec => []TypeOK
  <1>1. TypeOK /\ MigrationInv /\ [Next]_vars => (TypeOK /\ MigrationInv)'
    BY InvStep
  <1> QED
    BY <1>1, InitInv, PTL DEF Spec


-----------------------------------------------------------------------------
(* The refinement.  What passes verification is what the run took, save the  *)
(* tables that were changed back, and these are what they were reported.     *)
LEMMA VerifiedIsTaken ==
    ASSUME TypeOK, MigrationInv, NEW m \in Runs, at[m] = "verify", NEW t \in Tables,
           \A u \in Tables : SameContent(report[m][u], target[u])
    PROVE  IF t \in again[m] THEN target[t] \in held[m][t] ELSE target[t] = taken[m][t]
  <1>0. Rooted /\ Remembered /\ Verifying /\ Reported(m, t) /\ Reported(m, 1)
    BY DEF MigrationInv, Reported, Working
  <1>1. \A u \in Tables : target[u] = report[m][u]
    BY DEF SameContent
  <1>2. target[t] \in held[m][t]
    BY <1>0, <1>1 DEF Remembered
  <1>3. Root \in Keys(target[1])
    BY <1>0, <1>1, Constants DEF Rooted
  <1>4. Agrees(m, target[t], t)
    BY <1>0, <1>3 DEF Verifying
  <1> QED
    BY <1>1, <1>2, <1>4 DEF Agrees

(* A step of a run that leaves the source, and the phases of the others.     *)
LEMMA PhaseSet ==
    ASSUME TypeOK, NEW m \in Runs, NEW p, Phase(m)' = p, \A o \in Runs : o # m => at'[o] = at[o]
    PROVE  [o \in Runs |-> Phase(o)]' = [[o \in Runs |-> Phase(o)] EXCEPT ![m] = p]
  <1>1. \A o \in Runs : o # m => Phase(o)' = Phase(o)
    BY DEF Phase
  <1> QED
    BY <1>1

(* Every step is a step of the abstract migration, or changes nothing there. *)
LEMMA RefinesStep ==
    ASSUME TypeOK, MigrationInv, [Next]_vars
    PROVE  [Abstract!SNext]_(Abstract!svars)
  <1> DEFINE phase == [m \in Runs |-> Phase(m)]
  <1> USE DEF Abstract!svars
  <1>w. ASSUME NEW new \in [Tables -> Contents], Write(new) PROVE Abstract!SNext
    <2>1. source' = new /\ source' # source /\ at' = at /\ taken' = taken /\ result' = result
      BY <1>w, WriteStep
    <2>2. phase' = phase
      BY <2>1 DEF Phase
    <2>3. ASSUME NEW m \in Runs PROVE UnderWay(m) <=> phase[m] \in {"begun", "taken"}
      BY DEF UnderWay, Phase, TypeOK, Places
    <2>4. held' = [m \in Runs |-> IF phase[m] \in {"begun", "taken"}
                                  THEN [t \in Tables |-> held[m][t] \cup {source'[t]}] ELSE held[m]]
      BY <1>w, <2>1, <2>3 DEF Write
    <2>5. again' = [m \in Runs |-> IF phase[m] \in {"begun", "taken"}
                                   THEN again[m] \cup {t \in Tables : source'[t] # source[t] /\ source'[t] \in held[m][t]}
                                   ELSE again[m]]
      BY <1>w, <2>1, <2>3 DEF Write
    <2> QED
      BY <2>1, <2>2, <2>4, <2>5 DEF Abstract!SNext, Abstract!Change
  <1>s. ASSUME NEW m \in Runs, UNCHANGED <<source, history>>,
               Phase(m)' = Phase(m), \A o \in Runs : o # m => at'[o] = at[o]
        PROVE  UNCHANGED Abstract!svars
    <2>1. phase' = phase
      BY <1>s, PhaseSet
    <2> QED
      BY <1>s, <2>1 DEF history
  <1>g. ASSUME NEW m \in Runs, UNCHANGED <<source, history>>,
               Phase(m) \in {"idle", "begun", "taken"}, Phase(m)' = "failed", \A o \in Runs : o # m => at'[o] = at[o]
        PROVE  Abstract!SNext
    <2>1. phase' = [phase EXCEPT ![m] = "failed"]
      BY <1>g, PhaseSet
    <2> QED
      BY <1>g, <2>1 DEF Abstract!SNext, Abstract!GiveUp, history
  <1>o. ASSUME NEW m \in Runs, RunStep(m)
        PROVE  source' = source /\ again' = again /\ \A o \in Runs : o # m => at'[o] = at[o]
    BY <1>o, OthersStand DEF Unmoved
  <1>1. ASSUME NEW m \in Runs, NEW r \in BOOLEAN, Start(m, r) PROVE Abstract!SNext
    <2>1. taken' = taken /\ result' = result /\ at[m] = "idle" /\ Phase(m) = "idle"
      BY <1>1 DEF Start, Phase
    <2>2. CASE r \/ DestinationEmpty
      <3>1. at'[m] = "report" /\ held' = [held EXCEPT ![m] = [t \in Tables |-> {source[t]}]]
        BY <1>1, <2>2 DEF Start, TypeOK
      <3>2. Phase(m)' = "begun"
        BY <3>1 DEF Phase
      <3>3. phase' = [phase EXCEPT ![m] = "begun"]
        BY <1>1, <1>o, <3>2, PhaseSet DEF RunStep
      <3> QED
        BY <1>1, <1>o, <2>1, <3>1, <3>3 DEF RunStep, Abstract!SNext, Abstract!Begin
    <2>3. CASE ~(r \/ DestinationEmpty)
      <3>1. at'[m] = "failed" /\ held' = held
        BY <1>1, <2>3 DEF Start, TypeOK
      <3>2. Phase(m)' = "failed"
        BY <3>1 DEF Phase
      <3> QED
        BY <1>1, <1>o, <1>g, <2>1, <3>1, <3>2 DEF RunStep, history
    <2> QED
      BY <2>2, <2>3
  <1>2. ASSUME NEW m \in Runs, NEW dry \in BOOLEAN, ReportTable(m, dry) PROVE [Abstract!SNext]_(Abstract!svars)
    <2>1. result' = result /\ held' = held /\ at[m] = "report" /\ Phase(m) = "begun"
      BY <1>2 DEF ReportTable, Phase
    <2>2. CASE next[m] < NumTables
      <3>1. taken' = taken /\ Phase(m)' = "begun"
        BY <1>2, <2>1, <2>2 DEF ReportTable, Phase
      <3> QED
        BY <1>2, <1>o, <1>s, <2>1, <3>1 DEF RunStep, history
    <2>3. CASE ~(next[m] < NumTables) /\ dry
      <3>1. taken' = taken /\ at'[m] = "dry"
        BY <1>2, <2>3 DEF ReportTable, AfterReport, TypeOK
      <3>2. Phase(m)' = "failed"
        BY <3>1 DEF Phase
      <3> QED
        BY <1>2, <1>o, <1>g, <2>1, <3>1, <3>2 DEF RunStep, history
    <2>4. CASE ~(next[m] < NumTables) /\ ~dry
      <3>1. taken' = [taken EXCEPT ![m] = source] /\ at'[m] \in {"drop", "create"}
        BY <1>2, <2>4 DEF ReportTable, AfterReport, TypeOK
      <3>2. Phase(m)' = "taken"
        BY <3>1 DEF Phase
      <3>3. phase' = [phase EXCEPT ![m] = "taken"]
        BY <1>2, <1>o, <3>2, PhaseSet DEF RunStep
      <3> QED
        BY <1>2, <1>o, <2>1, <3>1, <3>3 DEF RunStep, Abstract!SNext, Abstract!Take
    <2> QED
      BY <2>2, <2>3, <2>4
  <1>3. ASSUME NEW m \in Runs, DropAll(m) \/ CreateAll(m) \/ CopyTable(m) \/ Commit(m)
        PROVE  UNCHANGED Abstract!svars
    <2>1. /\ UNCHANGED history
          /\ at[m] \in {"drop", "create", "copy", "commit"} /\ at'[m] \in {"create", "copy", "commit", "verify"}
      BY <1>3 DEF DropAll, CreateAll, CopyTable, Commit, TypeOK
    <2>2. Phase(m)' = Phase(m)
      BY <2>1 DEF Phase
    <2> QED
      BY <1>3, <1>o, <1>s, <2>1, <2>2 DEF RunStep
  <1>4. ASSUME NEW m \in Runs, Verify(m) PROVE Abstract!SNext
    <2> DEFINE good == Closed(target) /\ \A t \in Tables : SameContent(report[m][t], target[t])
    <2>1. at[m] = "verify" /\ taken' = taken /\ held' = held /\ Phase(m) = "taken"
      BY <1>4 DEF Verify, Phase
    <2>2. CASE good
      <3>1. at'[m] = "done" /\ result' = [result EXCEPT ![m] = target]
        BY <1>4, <2>2 DEF Verify, TypeOK
      <3>2. \A t \in Tables : IF t \in again[m] THEN target[t] \in held[m][t] ELSE target[t] = taken[m][t]
        BY <2>1, <2>2, VerifiedIsTaken
      <3>3. target \in {db \in [Tables -> Contents] : Closed(db)}
        BY <2>2 DEF TypeOK
      <3>4. Phase(m)' = "done"
        BY <3>1 DEF Phase
      <3>5. phase' = [phase EXCEPT ![m] = "done"]
        BY <1>4, <1>o, <3>4, PhaseSet DEF RunStep
      <3> QED
        BY <1>4, <1>o, <2>1, <3>1, <3>2, <3>3, <3>5 DEF RunStep, Abstract!SNext, Abstract!Deliver
    <2>3. CASE ~good
      <3>1. at'[m] = "failed" /\ result' = result
        BY <1>4, <2>3 DEF Verify, TypeOK
      <3>2. Phase(m)' = "failed"
        BY <3>1 DEF Phase
      <3> QED
        BY <1>4, <1>o, <1>g, <2>1, <3>1, <3>2 DEF RunStep, history
    <2> QED
      BY <2>2, <2>3
  <1>5. ASSUME NEW m \in Runs, Abort(m) PROVE Abstract!SNext
    <2>1. UNCHANGED history /\ at'[m] = "failed" /\ UnderWay(m)
      BY <1>5 DEF Abort, TypeOK
    <2>2. Phase(m) \in {"begun", "taken"} /\ Phase(m)' = "failed"
      BY <2>1 DEF Phase, UnderWay
    <2> QED
      BY <1>5, <1>o, <1>g, <2>1, <2>2 DEF RunStep
  <1>6. CASE UNCHANGED vars
    <2>1. source' = source /\ at' = at /\ UNCHANGED history
      BY <1>6 DEF vars
    <2>2. phase' = phase
      BY <2>1 DEF Phase
    <2> QED
      BY <2>1, <2>2 DEF history
  <1> QED
    BY <1>w, <1>1, <1>2, <1>3, <1>4, <1>5, <1>6 DEF Next

(* A migration that reports success (migrate_engines) delivers a database    *)
(* with intact references whose tables are as they were when the report had  *)
(* been read, save those to which the application gave back, during the run, *)
(* a content they had held in the run: these are as they were at some moment *)
(* of the run.  This holds for any number of tables, runs at once, and       *)
(* writes of a live application in between.                                  *)
THEOREM DeliversSnapshot == Spec => Refines
  <1>1. Init => Abstract!SInit
    BY DEF Init, Abstract!SInit, Abstract!Nothing, AllEmpty, Phase
  <1>2. TypeOK /\ MigrationInv /\ [Next]_vars => (TypeOK /\ MigrationInv)'
    BY InvStep
  <1>3. TypeOK /\ MigrationInv /\ [Next]_vars => [Abstract!SNext]_(Abstract!svars)
    BY RefinesStep
  <1> QED
    BY <1>1, <1>2, <1>3, InitInv, PTL DEF Spec, Refines, Abstract!SSpec
=============================================================================
