--------------------------- MODULE LoginThrottle ---------------------------
(***************************************************************************)
(* The persistent throttle of native_login (cloudbrowser/app.py): three    *)
(* counters per attempt, keyed by account and source, by device and source *)
(* and by source alone.  Attempts run side by side: each looks at its      *)
(* counters, verifies the password without holding any lock, and then      *)
(* records a failure or clears its counters.                               *)
(*                                                                         *)
(* Each of the two throttle transactions uses a time that was read before  *)
(* it got its locks.                                                       *)
(***************************************************************************)
EXTENDS Integers

CONSTANTS
    Accounts, Devices, Sources,
    ReqIds,         \* worker slots: how many attempts run at once
    None,
    Threshold,      \* failures that start a cooldown, per kind of key
    Window,         \* 10 min
    Penalties,      \* the cooldowns: 5, 15 and 30 min
    PurgeAfter,     \* 24 h
    Delay,          \* longest wait for the locks
    MaxClock        \* bound on time

Kinds == {"account", "device", "source"}

ASSUME ThrottleConstants ==
    /\ None \notin Accounts \cup Devices
    /\ Threshold \in [Kinds -> Nat \ {0}]
    /\ Penalties \in [1 .. 3 -> Nat \ {0}]
    /\ Window \in Nat \ {0} /\ PurgeAfter \in Nat /\ Delay \in Nat /\ MaxClock \in Nat
    /\ \A p \in 1 .. 3 : Penalties[p] < PurgeAfter
    \* Nobody waits for the locks as long as a window, and what follows the first
    \* cooldown lasts longer than a window: 15 and 30 minutes against 10.
    /\ Delay <= Window /\ Window + 2 * Delay <= PurgeAfter
    /\ \A p \in 2 .. 3 : Window + Delay <= Penalties[p]

VARIABLES
    clock,      \* current_login_time()
    row,        \* native_login_throttles
    req,        \* attempts in flight
    failures    \* history: failures counted per key in the Window that begins at
                \* each time, since a login last cleared the key; 0 again once the
                \* Window is over for every attempt

vars == <<clock, row, req, failures>>

-----------------------------------------------------------------------------
Time == 0 .. MaxClock

Keys == ({"account"} \X Accounts \X Sources) \cup ({"device"} \X Devices \X Sources)
        \cup ({"source"} \X {None} \X Sources)

(* blocked 0 stands for blocked_until NULL.                                  *)
Rows == [exists : BOOLEAN, count : Nat, level : 0 .. 3, start : Time,
         blocked : Nat, updated : Time]

(* An attempt: "arrived" (time read), "verifying" (no transaction open),     *)
(* "failed" (time read again) or "proved".  keys are its three counters.     *)
Attempts == [acct : Accounts, dev : Devices, src : Sources, at : Time,
             phase : {"arrived", "verifying", "failed", "proved"}]
Idle == [phase |-> "idle"]

TypeOK ==
    /\ clock \in Time
    /\ row \in [Keys -> Rows]
    /\ req \in [ReqIds -> Attempts \cup {Idle}]
    /\ failures \in [Keys -> [Time -> Nat]]

NoRow == [exists |-> FALSE, count |-> 0, level |-> 0, start |-> 0, blocked |-> 0, updated |-> 0]
NoFailures == [t \in Time |-> 0]

Init ==
    /\ clock = 0
    /\ row = [k \in Keys |-> NoRow]
    /\ req = [i \in ReqIds |-> Idle]
    /\ failures = [k \in Keys |-> NoFailures]

-----------------------------------------------------------------------------
\* throttle_keys.
ThrottleKeys(r) ==
    {<<"account", r.acct, r.src>>, <<"device", r.dev, r.src>>, <<"source", None, r.src>>}

\* lock_throttles: insert the missing rows, lock and read all three.
LockThrottles(tbl, keys, at) ==
    [k \in Keys |-> IF k \in keys /\ ~tbl[k].exists
                    THEN [NoRow EXCEPT !.exists = TRUE, !.start = at, !.updated = at]
                    ELSE tbl[k]]

\* active_retry_after > 0.
Blocked(tbl, keys, at) == \E k \in keys : tbl[k].blocked > at

Purged(tbl, at) ==
    [k \in Keys |-> IF tbl[k].updated <= at - PurgeAfter THEN NoRow ELSE tbl[k]]

\* Within(at, t): the Window that begins at t holds at.
Within(at, t) == t <= at /\ at < t + Window
OneMore(f, at) == [t \in Time |-> IF Within(at, t) THEN f[t] + 1 ELSE f[t]]

Phase(i, phase) == req[i] # Idle /\ req[i].phase = phase
Goto(i, phase) == req' = [req EXCEPT ![i] = [@ EXCEPT !.phase = phase, !.at = clock]]
Finish(i) == req' = [req EXCEPT ![i] = Idle]

Arrive(i, a, d, s) ==
    /\ req[i] = Idle
    /\ req' = [req EXCEPT ![i] = [acct |-> a, dev |-> d, src |-> s, at |-> clock,
                                  phase |-> "arrived"]]
    /\ UNCHANGED <<clock, row, failures>>

\* The first transaction: purge, insert, and answer 429 while a key is blocked.
Precheck(i) ==
    LET r == req[i]
        keys == ThrottleKeys(r)
        tbl == LockThrottles(Purged(row, r.at), keys, r.at)
    IN  /\ Phase(i, "arrived")
        /\ row' = tbl
        /\ IF Blocked(tbl, keys, r.at) THEN Finish(i) ELSE Goto(i, "verifying")
        /\ UNCHANGED <<clock, failures>>

\* Argon2, and the account lookup before it.
Verify(i, valid) ==
    /\ Phase(i, "verifying")
    /\ Goto(i, IF valid THEN "proved" ELSE "failed")
    /\ UNCHANGED <<clock, row, failures>>

\* Mutants of Counted: the cooldown ends when it starts; it lies in the past.
CountedNoWait(t, threshold, at) ==
    [t EXCEPT !.count = IF t.count + 1 >= threshold THEN 0 ELSE t.count + 1,
              !.updated = at, !.blocked = at]
CountedBackwards(t, threshold, at) ==
    [t EXCEPT !.level = 1, !.updated = at, !.blocked = at - Penalties[1]]

\* One more failure on a counter, at time at.
Counted(t, threshold, at) ==
    LET fresh == at - t.start >= Window
        n == IF fresh THEN 1 ELSE t.count + 1
        level == IF t.level + 1 < 3 THEN t.level + 1 ELSE 3
        start == IF fresh THEN at ELSE t.start
    IN  IF n >= threshold
        THEN [t EXCEPT !.count = 0, !.level = level, !.start = start, !.updated = at,
                       !.blocked = at + Penalties[level]]
        ELSE [t EXCEPT !.count = n, !.start = start, !.updated = at]

\* Mutant of RecordFailure: it relies on the first check.
RecordFailureUnchecked(i) ==
    LET r == req[i]
        keys == ThrottleKeys(r)
        tbl == LockThrottles(row, keys, r.at)
    IN  /\ Phase(i, "failed")
        /\ row' = [k \in Keys |-> IF k \in keys
                                  THEN Counted(tbl[k], Threshold[k[1]], r.at) ELSE tbl[k]]
        /\ Finish(i)
        /\ UNCHANGED <<clock, failures>>

\* The failure's transaction: nothing is counted while a key is blocked.
RecordFailure(i) ==
    LET r == req[i]
        keys == ThrottleKeys(r)
        tbl == LockThrottles(row, keys, r.at)
    IN  /\ Phase(i, "failed")
        /\ IF Blocked(tbl, keys, r.at)
           THEN row' = tbl /\ UNCHANGED failures
           ELSE /\ row' = [k \in Keys |-> IF k \in keys
                                          THEN Counted(tbl[k], Threshold[k[1]], r.at) ELSE tbl[k]]
                /\ failures' = [k \in Keys |-> IF k \in keys
                                               THEN OneMore(failures[k], r.at)
                                               ELSE failures[k]]
        /\ Finish(i)
        /\ UNCHANGED clock

\* The login succeeds: the counters of account and device are deleted, blocked
\* or not, and the source's stays.  (Or the account changed meanwhile: 401.)
ClearThrottles(i) ==
    LET keys == {k \in ThrottleKeys(req[i]) : k[1] # "source"}
    IN  /\ Phase(i, "proved")
        /\ \/ /\ row' = [k \in Keys |-> IF k \in keys THEN NoRow ELSE row[k]]
              /\ failures' = [k \in Keys |-> IF k \in keys THEN NoFailures ELSE failures[k]]
           \/ UNCHANGED <<row, failures>>
        /\ Finish(i)
        /\ UNCHANGED clock

\* The server stops, or the client goes away, before the next transaction.
Abandon(i) ==
    /\ req[i] # Idle
    /\ Finish(i)
    /\ UNCHANGED <<clock, row, failures>>

Tick ==
    /\ clock < MaxClock
    /\ \A i \in ReqIds : Phase(i, "arrived") \/ Phase(i, "failed") => clock + 1 <= req[i].at + Delay
    /\ clock' = clock + 1
    /\ failures' = [k \in Keys |-> [t \in Time |->
                      IF t + Window + Delay > clock THEN failures[k][t] ELSE 0]]
    /\ UNCHANGED <<row, req>>

Next ==
    \/ \E i \in ReqIds :
          \/ \E a \in Accounts, d \in Devices, s \in Sources : Arrive(i, a, d, s)
          \/ Precheck(i) \/ RecordFailure(i) \/ ClearThrottles(i) \/ Abandon(i)
          \/ \E valid \in BOOLEAN : Verify(i, valid)
    \/ Tick

Spec == Init /\ [][Next]_vars

-----------------------------------------------------------------------------
(* What the throttle promises.                                               *)

(* A running cooldown is neither shortened, prolonged nor lifted by anything *)
(* that runs beside it, except that an attempt which was already past its    *)
(* first check proves the password of that account or device; and nothing    *)
(* lifts the cooldown of a source.                                           *)
CooldownHolds ==
    [][\A k \in Keys :
          row[k].blocked > clock /\ row'[k].blocked # row[k].blocked
              => /\ k[1] # "source"
                 /\ \E i \in ReqIds : Phase(i, "proved") /\ k \in ThrottleKeys(req[i])
                                      /\ req'[i] = Idle]_vars

(* However the attempts interleave, whatever times they have read and even   *)
(* across a purge, a counter takes at most Budget failures in any stretch of *)
(* time as long as the window: what is left of one window, a full window     *)
(* with a first cooldown in it, what fits after that cooldown, and failures  *)
(* that were delayed until the next window had begun.                        *)
Budget(k) == IF Threshold[k[1]] = 1 THEN 2 ELSE 4 * Threshold[k[1]] - 3
RateBounded == \A k \in Keys, t \in Time : failures[k][t] <= Budget(k)
=============================================================================
