---------------------------- MODULE CloudSession ----------------------------
(***************************************************************************)
(* The cloud browser of one user (cloudbrowser/app.py, runner.py,          *)
(* browser_control.py).  A start inserts a browser_sessions row, takes the *)
(* profile's file lock, looks for a running container, runs a new one and  *)
(* waits for it; a stop removes the container and closes the lock; a       *)
(* status request writes what podman says into the row.  Every commit and  *)
(* every podman command is a step.  Requests of one user overlap, browsers *)
(* die, commands fail, and the server restarts: containers outlive it,     *)
(* locks do not.                                                           *)
(***************************************************************************)
EXTENDS Integers, FiniteSets

CONSTANTS
    Sids,       \* session ids, of which every start takes a new one
    Tabs,       \* browser targets
    ReqIds,     \* requests at once
    None,
    Ops         \* the operations and faults this instance exercises

ASSUME CloudConstants == None \notin Sids \cup Tabs

VARIABLES
    row,        \* browser_sessions.status
    box,        \* the container of a session
    kept,       \* PodmanBrowserRunner._locks: sessions whose lock is held
    tabs,       \* the page targets of the running browser
    req,        \* requests in flight
    clean       \* history: sessions stopped after their start had ended

vars == <<row, box, kept, tabs, req, clean>>

-----------------------------------------------------------------------------
Statuses == {"none", "starting", "running", "stopped", "error"}
Boxes == {"absent", "running", "exited"}

(* A start holds the profile's lock in these states.                         *)
Locking == {"locked", "checked", "waiting", "ready", "cleanup"}
StartAt == {"ask", "answered", "insert", "lock", "failed", "kept"} \cup Locking
StopAt == {"exists", "stop", "remove", "unlock", "save"}
Places == [start |-> StartAt, stop |-> StopAt, get |-> {"ask", "answered"}, close |-> {"close"}]

(* sid: the session the request works on; old: its status when it was read;  *)
(* seen: what podman said; tab: the tab to close; quiet: no start of this    *)
(* session was under way, and for a close, no tab has gone since it counted. *)
Requests == [op : {"start", "stop", "get", "close"}, at : StartAt \cup StopAt \cup {"close"},
             sid : Sids \cup {None}, old : Statuses, seen : Statuses, tab : Tabs \cup {None},
             quiet : BOOLEAN]
Idle == [op |-> "none"]
Request(op, at, s) ==
    [op |-> op, at |-> at, sid |-> s, old |-> IF s = None THEN "none" ELSE row[s],
     seen |-> "none", tab |-> None, quiet |-> FALSE]

TypeOK ==
    /\ row \in [Sids -> Statuses]
    /\ box \in [Sids -> Boxes]
    /\ kept \subseteq Sids
    /\ tabs \subseteq Tabs
    /\ req \in [ReqIds -> Requests \cup {Idle}]
    /\ \A i \in ReqIds : req[i] # Idle => /\ req[i].at \in Places[req[i].op]
                                          /\ req[i].sid = None => req[i].at = "insert"
    /\ clean \subseteq Sids

Init ==
    /\ row = [s \in Sids |-> "none"]
    /\ box = [s \in Sids |-> "absent"]
    /\ kept = {} /\ tabs = {} /\ clean = {}
    /\ req = [i \in ReqIds |-> Idle]

-----------------------------------------------------------------------------
\* A column the ORM assigns is written if the value it read was another.
Col(cur, old, new) == IF new = old THEN cur ELSE new

At(i, op, at) == req[i] # Idle /\ req[i].op = op /\ req[i].at = at
Goto(i, at) == req' = [req EXCEPT ![i] = [req[i] EXCEPT !.at = at]]
Finish(i) == req' = [req EXCEPT ![i] = Idle]

Starting(s) == \E i \in ReqIds : req[i] # Idle /\ req[i].op = "start" /\ req[i].sid = s
                                 /\ req[i].at \notin {"ask", "answered"}

\* flock(LOCK_EX | LOCK_NB) on the profile's .session.lock.
LockFree == kept = {} /\ \A i \in ReqIds : req[i] = Idle \/ req[i].at \notin Locking

\* Mutant of ProfileIdle: only the session's own container is looked for.
ProfileIdleForSession(s) == box[s] # "running"

\* podman ps, filtered by the profile's label.
ProfileIdle(s) == \A other \in Sids : box[other] # "running"

\* Mutant of RunnerStatus: podman's word for the state.
RunnerStatusRaw(s) == IF box[s] = "absent" THEN "stopped" ELSE box[s]

\* PodmanBrowserRunner.status.
RunnerStatus(s) ==
    CASE box[s] = "absent" -> "stopped" [] box[s] = "running" -> "running" [] OTHER -> "error"

\* The browser of a session that is no longer running has no targets.
TabsWithout(s) == IF box[s] = "running" THEN {} ELSE tabs

-----------------------------------------------------------------------------
(* start_session.                                                            *)

StartBegin(i) ==
    LET active == {s \in Sids : row[s] \in {"starting", "running"}}
    IN  /\ "start" \in Ops /\ req[i] = Idle
        /\ \/ active = {} /\ req' = [req EXCEPT ![i] = Request("start", "insert", None)]
           \/ \E s \in active : req' = [req EXCEPT ![i] = Request("start", "ask", s)]
        /\ UNCHANGED <<row, box, kept, tabs, clean>>

\* Also get_session's question.
AskStatus(i) ==
    /\ At(i, "start", "ask") \/ At(i, "get", "ask")
    /\ req' = [req EXCEPT ![i] = [req[i] EXCEPT !.at = "answered", !.seen = RunnerStatus(req[i].sid)]]
    /\ UNCHANGED <<row, box, kept, tabs, clean>>

SaveStatus(i) ==
    LET r == req[i]
    IN  /\ At(i, "start", "answered") \/ At(i, "get", "answered")
        /\ row' = [row EXCEPT ![r.sid] = Col(row[r.sid], r.old, r.seen)]
        /\ IF r.op = "get" \/ r.seen = "running" THEN Finish(i)
           ELSE req' = [req EXCEPT ![i] = Request("start", "insert", None)]
        /\ UNCHANGED <<box, kept, tabs, clean>>

InsertSession(i, s) ==
    /\ At(i, "start", "insert") /\ row[s] = "none"
    /\ row' = [row EXCEPT ![s] = "starting"]
    /\ req' = [req EXCEPT ![i] = [Request("start", "lock", s) EXCEPT !.old = "starting"]]
    /\ UNCHANGED <<box, kept, tabs, clean>>

TakeLock(i) ==
    /\ At(i, "start", "lock")
    /\ Goto(i, IF LockFree THEN "locked" ELSE "failed")
    /\ UNCHANGED <<row, box, kept, tabs, clean>>

\* No container but this profile's, or podman fails.  What follows, removing
\* Chromium's own lock files and a container of the same name, finds nothing
\* of a new session.
CheckProfile(i) ==
    /\ At(i, "start", "locked")
    /\ \/ ProfileIdle(req[i].sid) /\ Goto(i, "checked")
       \/ Goto(i, "failed")
    /\ UNCHANGED <<row, box, kept, tabs, clean>>

\* podman run, which may also fail, with or without a container to show for it.
RunContainer(i) ==
    LET s == req[i].sid
    IN  /\ At(i, "start", "checked")
        /\ \/ \E t \in Tabs : /\ box' = [box EXCEPT ![s] = "running"]
                              /\ tabs' = {t}
                              /\ \E at \in {"waiting", "cleanup"} : Goto(i, at)
           \/ Goto(i, "cleanup") /\ UNCHANGED <<box, tabs>>
        /\ UNCHANGED <<row, kept, clean>>

\* Both endpoints answer, or the deadline passes.
WaitReady(i) ==
    /\ At(i, "start", "waiting")
    /\ \/ box[req[i].sid] = "running" /\ Goto(i, "ready")
       \/ Goto(i, "cleanup")
    /\ UNCHANGED <<row, box, kept, tabs, clean>>

\* podman rm -f; its own failure is suppressed.
CleanUp(i) ==
    LET s == req[i].sid
    IN  /\ At(i, "start", "cleanup") /\ Goto(i, "failed")
        /\ \/ box' = [box EXCEPT ![s] = "absent"] /\ tabs' = TabsWithout(s)
           \/ UNCHANGED <<box, tabs>>
        /\ UNCHANGED <<row, kept, clean>>

KeepLock(i) ==
    /\ At(i, "start", "ready") /\ Goto(i, "kept")
    /\ kept' = kept \cup {req[i].sid}
    /\ UNCHANGED <<row, box, tabs, clean>>

CommitStart(i) ==
    /\ \/ At(i, "start", "kept") /\ row' = [row EXCEPT ![req[i].sid] = "running"]
       \/ At(i, "start", "failed") /\ row' = [row EXCEPT ![req[i].sid] = "error"]
    /\ Finish(i)
    /\ UNCHANGED <<box, kept, tabs, clean>>

-----------------------------------------------------------------------------
(* get_session and stop_session.                                             *)

GetBegin(i, s) ==
    /\ "get" \in Ops /\ req[i] = Idle /\ row[s] = "running"
    /\ req' = [req EXCEPT ![i] = Request("get", "ask", s)]
    /\ UNCHANGED <<row, box, kept, tabs, clean>>

StopBegin(i, s) ==
    /\ "stop" \in Ops /\ req[i] = Idle /\ row[s] # "none"
    /\ req' = [req EXCEPT ![i] = [Request("stop", "exists", s) EXCEPT !.quiet = ~Starting(s)]]
    /\ UNCHANGED <<row, box, kept, tabs, clean>>

StopLooks(i) ==
    /\ At(i, "stop", "exists")
    /\ Goto(i, IF box[req[i].sid] = "absent" THEN "unlock" ELSE "stop")
    /\ UNCHANGED <<row, box, kept, tabs, clean>>

StopContainer(i) ==
    LET s == req[i].sid
    IN  /\ At(i, "stop", "stop") /\ box[s] # "absent"
        /\ box' = [box EXCEPT ![s] = "exited"] /\ tabs' = TabsWithout(s)
        /\ Goto(i, "remove")
        /\ UNCHANGED <<row, kept, clean>>

RemoveContainer(i) ==
    /\ At(i, "stop", "remove") /\ box[req[i].sid] = "exited"
    /\ box' = [box EXCEPT ![req[i].sid] = "absent"]
    /\ Goto(i, "unlock")
    /\ UNCHANGED <<row, kept, tabs, clean>>

\* Mutant of Unlocked: the lock of a session is forgotten and stays open.
UnlockedNever(s) == kept

\* _locks.pop and close.
Unlocked(s) == kept \ {s}

Unlock(i) ==
    /\ At(i, "stop", "unlock")
    /\ kept' = Unlocked(req[i].sid)
    /\ Goto(i, "save")
    /\ UNCHANGED <<row, box, tabs, clean>>

CommitStop(i) ==
    LET r == req[i]
    IN  /\ At(i, "stop", "save") /\ Finish(i)
        /\ row' = [row EXCEPT ![r.sid] = Col(row[r.sid], r.old, "stopped")]
        /\ clean' = IF r.quiet THEN clean \cup {r.sid} ELSE clean
        /\ UNCHANGED <<box, kept, tabs>>

\* A podman command of a stop or of a status question fails or times out, or
\* the database refuses a commit: the request ends where it is.  A start that
\* holds the lock cleans up instead, in the steps above.
RequestFails(i) ==
    /\ "fail" \in Ops /\ req[i] # Idle /\ req[i].at \notin Locking
    /\ Finish(i)
    /\ UNCHANGED <<row, box, kept, tabs, clean>>

-----------------------------------------------------------------------------
(* Tabs: CDPBrowserControl, for a session whose row says running.            *)

\* running_browser_session; browser_result turns an absent browser into a 502.
Driveable(s) == row[s] = "running" /\ box[s] = "running"

NewTab(s, t) ==
    /\ "tabs" \in Ops /\ Driveable(s) /\ t \notin tabs
    /\ tabs' = tabs \cup {t}
    /\ UNCHANGED <<row, box, kept, req, clean>>

\* _target: the tab is among the page targets the browser lists.
Listed(t) == t \in tabs

\* Mutant of MayClose: the tab has to be there, no other.
MayCloseAny(t) == Listed(t)

MayClose(t) == Listed(t) /\ Cardinality(tabs) > 1

\* close counts the targets in one request and closes in another.
CloseBegin(i, s, t) ==
    /\ "tabs" \in Ops /\ req[i] = Idle /\ Driveable(s) /\ MayClose(t)
    /\ req' = [req EXCEPT ![i] = [Request("close", "close", s) EXCEPT !.tab = t, !.quiet = TRUE]]
    /\ UNCHANGED <<row, box, kept, tabs, clean>>

CloseTab(i) ==
    /\ At(i, "close", "close")
    /\ tabs' = IF box[req[i].sid] = "running" THEN tabs \ {req[i].tab} ELSE tabs
    /\ req' = [j \in ReqIds |->
                  IF j = i \/ req[j] = Idle THEN Idle
                  ELSE IF req[j].op = "close" /\ tabs' # tabs THEN [req[j] EXCEPT !.quiet = FALSE]
                  ELSE req[j]]
    /\ UNCHANGED <<row, box, kept, clean>>

-----------------------------------------------------------------------------
(* Faults.                                                                   *)

\* The browser or its container dies.
ContainerDies(s) ==
    /\ "die" \in Ops /\ box[s] = "running"
    /\ box' = [box EXCEPT ![s] = "exited"] /\ tabs' = {}
    /\ UNCHANGED <<row, kept, req, clean>>

\* The server and the commands it has started die; containers go on.
ServerRestarts ==
    /\ "restart" \in Ops
    /\ req' = [i \in ReqIds |-> Idle]
    /\ kept' = {}
    /\ UNCHANGED <<row, box, tabs, clean>>

-----------------------------------------------------------------------------
Next ==
    \/ \E i \in ReqIds :
          \/ StartBegin(i) \/ AskStatus(i) \/ SaveStatus(i) \/ TakeLock(i) \/ CheckProfile(i)
          \/ RunContainer(i) \/ WaitReady(i) \/ CleanUp(i) \/ KeepLock(i) \/ CommitStart(i)
          \/ StopLooks(i) \/ StopContainer(i) \/ RemoveContainer(i) \/ Unlock(i) \/ CommitStop(i)
          \/ CloseTab(i) \/ RequestFails(i)
          \/ \E s \in Sids : \/ InsertSession(i, s) \/ GetBegin(i, s) \/ StopBegin(i, s)
                             \/ \E t \in Tabs : CloseBegin(i, s, t)
    \/ \E s \in Sids : ContainerDies(s) \/ \E t \in Tabs : NewTab(s, t)
    \/ ServerRestarts

Spec == Init /\ [][Next]_vars

-----------------------------------------------------------------------------
(* What the runner promises.                                                 *)

(* Two browsers never run on one profile directory, whatever starts overlap, *)
(* whichever locks a stop or a restart has given up, and whatever container  *)
(* a failed start or a dead server left behind.                              *)
ProfileExclusive == \A s, t \in Sids : box[s] = "running" /\ box[t] = "running" => s = t

(* Why: starts that hold the lock exclude each other, so what one of them    *)
(* saw when it looked for a container is still so when it runs its own.  The *)
(* locks that sessions keep are not needed for it.                           *)
Locked(i) == req[i] # Idle /\ req[i].at \in Locking
OneStarter == \A i, j \in ReqIds : Locked(i) /\ Locked(j) => i = j
CheckedIsIdle ==
    \A i \in ReqIds : At(i, "start", "checked") => \A s \in Sids : box[s] # "running"
ProfileInv == TypeOK /\ OneStarter /\ CheckedIsIdle /\ ProfileExclusive

(* A stop that begins after the start has ended leaves nothing: no container *)
(* comes back, and no lock keeps the next start out.                         *)
StoppedIsClean == \A s \in clean : box[s] = "absent" /\ s \notin kept

(* "The last browser tab cannot be closed" (CDPBrowserControl.close) holds   *)
(* for closes that do not overlap: a browser that goes on running loses its  *)
(* last tab only to a close that counted a tab another has closed since.     *)
LastTabStays ==
    [][tabs # {} /\ tabs' = {} /\ box' = box
          => \E i \in ReqIds : At(i, "close", "close") /\ ~req[i].quiet]_vars
=============================================================================
