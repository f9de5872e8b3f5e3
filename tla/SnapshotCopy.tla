---------------------------- MODULE SnapshotCopy ----------------------------
(***************************************************************************)
(* What a migration of the database promises.  A run takes the source at   *)
(* one moment and, when it reports success, delivers it.  Of the tables    *)
(* that the application changed and changed back during the run it only    *)
(* promises what they held at some moment of the run.                      *)
(***************************************************************************)
CONSTANTS
    Runs,
    Tables,
    Intact      \* the databases whose references are intact

VARIABLES
    src,        \* the source database
    phase,      \* where a run stands
    held,       \* what each table has held since the run began
    again,      \* the tables that were given again what they had held
    taken,      \* what the run took
    result      \* what it delivered

svars == <<src, phase, held, again, taken, result>>

Nothing == [m \in Runs |-> [t \in Tables |-> {}]]

SInit ==
    /\ phase = [m \in Runs |-> "idle"]
    /\ held = Nothing
    /\ again = [m \in Runs |-> {}]
    /\ taken = Nothing
    /\ result = Nothing

Begin(m) ==
    /\ phase[m] = "idle"
    /\ phase' = [phase EXCEPT ![m] = "begun"]
    /\ held' = [held EXCEPT ![m] = [t \in Tables |-> {src[t]}]]
    /\ UNCHANGED <<src, again, taken, result>>

Take(m) ==
    /\ phase[m] = "begun"
    /\ phase' = [phase EXCEPT ![m] = "taken"]
    /\ taken' = [taken EXCEPT ![m] = src]
    /\ UNCHANGED <<src, held, again, result>>

\* The application writes.
Change ==
    LET open(m) == phase[m] \in {"begun", "taken"}
        back(m) == {t \in Tables : src'[t] # src[t] /\ src'[t] \in held[m][t]}
    IN  /\ src' # src
        /\ held' = [m \in Runs |-> IF open(m) THEN [t \in Tables |-> held[m][t] \cup {src'[t]}] ELSE held[m]]
        /\ again' = [m \in Runs |-> IF open(m) THEN again[m] \cup back(m) ELSE again[m]]
        /\ UNCHANGED <<phase, taken, result>>

Deliver(m) ==
    /\ phase[m] = "taken"
    /\ phase' = [phase EXCEPT ![m] = "done"]
    /\ \E db \in Intact :
          /\ \A t \in Tables : IF t \in again[m] THEN db[t] \in held[m][t] ELSE db[t] = taken[m][t]
          /\ result' = [result EXCEPT ![m] = db]
    /\ UNCHANGED <<src, held, again, taken>>

GiveUp(m) ==
    /\ phase[m] \in {"idle", "begun", "taken"}
    /\ phase' = [phase EXCEPT ![m] = "failed"]
    /\ UNCHANGED <<src, held, again, taken, result>>

SNext == Change \/ \E m \in Runs : Begin(m) \/ Take(m) \/ Deliver(m) \/ GiveUp(m)

SSpec == SInit /\ [][SNext]_svars
=============================================================================
