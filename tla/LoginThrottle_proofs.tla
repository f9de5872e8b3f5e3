------------------------ MODULE LoginThrottle_proofs ------------------------
(***************************************************************************)
(* LoginThrottle for any accounts, devices and sources, any number of      *)
(* attempts at once, any thresholds and cooldowns and any wait for locks.  *)
(***************************************************************************)
EXTENDS LoginThrottle, TLAPS

(* An attempt's time was read in the past.                                   *)
TimesPast == \A i \in ReqIds : req[i] # Idle => req[i].at <= clock

(* A cooldown ends before its row is old enough to be purged: the row is     *)
(* not written again while the cooldown runs, and no cooldown is as long as  *)
(* PurgeAfter.  A row that does not exist has none.                          *)
CooldownsKept == \A k \in Keys : /\ row[k].blocked < row[k].updated + PurgeAfter
                                 /\ ~row[k].exists => row[k].blocked = 0

ThrottleInv == TypeOK /\ TimesPast /\ CooldownsKept

-----------------------------------------------------------------------------
(* The operators.                                                            *)
LEMMA RowFields ==
    ASSUME NEW t \in Rows
    PROVE  /\ t.exists \in BOOLEAN /\ t.count \in Nat /\ t.level \in 0 .. 3 /\ t.start \in Time
           /\ t.blocked \in Nat /\ t.updated \in Time
  BY DEF Rows

LEMMA NewRow ==
    /\ NoRow \in Rows /\ NoRow.blocked = 0 /\ NoRow.updated = 0 /\ NoRow.exists = FALSE
    /\ \A at \in Time : LET t == [NoRow EXCEPT !.exists = TRUE, !.start = at, !.updated = at]
                        IN  t \in Rows /\ t.blocked = 0 /\ t.updated = at /\ t.exists = TRUE
  <1>1. 0 \in Time /\ 0 \in 0 .. 3 /\ 0 \in Nat
    BY ThrottleConstants DEF ThrottleConstants, Time
  <1>2. NoRow \in Rows /\ NoRow.blocked = 0 /\ NoRow.updated = 0 /\ NoRow.exists = FALSE
    BY <1>1 DEF NoRow, Rows
  <1>3. ASSUME NEW at \in Time
        PROVE  LET t == [NoRow EXCEPT !.exists = TRUE, !.start = at, !.updated = at]
               IN  t \in Rows /\ t.blocked = 0 /\ t.updated = at /\ t.exists = TRUE
    BY <1>1 DEF NoRow, Rows
  <1> QED
    BY <1>2, <1>3

LEMMA FreeRow ==
    /\ NoRow.blocked = 0 /\ NoRow.updated = 0 /\ NoRow.exists = FALSE
    /\ PurgeAfter \in Nat /\ PurgeAfter > 0 /\ 0 < 0 + PurgeAfter
  <1>1. PurgeAfter \in Nat /\ Penalties[1] \in Nat \ {0} /\ Penalties[1] < PurgeAfter
    BY ThrottleConstants DEF ThrottleConstants
  <1> QED
    BY <1>1 DEF NoRow

(* lock_throttles leaves the rows that exist alone, and the new ones are not *)
(* blocked.                                                                  *)
LEMMA Locking ==
    ASSUME NEW tbl \in [Keys -> Rows], NEW keys, NEW at \in Time
    PROVE  /\ LockThrottles(tbl, keys, at) \in [Keys -> Rows]
           /\ \A k \in Keys : \/ LockThrottles(tbl, keys, at)[k] = tbl[k]
                              \/ /\ LockThrottles(tbl, keys, at)[k].blocked = 0
                                 /\ LockThrottles(tbl, keys, at)[k].updated = at
                                 /\ ~tbl[k].exists
           /\ \A k \in Keys : k \in keys => LockThrottles(tbl, keys, at)[k].exists
           /\ \A k \in Keys : tbl[k].exists => LockThrottles(tbl, keys, at)[k] = tbl[k]
  <1> DEFINE new == [NoRow EXCEPT !.exists = TRUE, !.start = at, !.updated = at]
  <1>1. new \in Rows /\ new.blocked = 0 /\ new.updated = at /\ new.exists = TRUE
    BY NewRow
  <1> HIDE DEF new
  <1>2. LockThrottles(tbl, keys, at) = [k \in Keys |-> IF k \in keys /\ ~tbl[k].exists THEN new ELSE tbl[k]]
    BY DEF LockThrottles, new
  <1> QED
    BY <1>1, <1>2

(* The purge takes no row whose cooldown runs.                               *)
LEMMA Purging ==
    ASSUME NEW tbl \in [Keys -> Rows], NEW at \in Time
    PROVE  /\ Purged(tbl, at) \in [Keys -> Rows]
           /\ \A k \in Keys : \/ Purged(tbl, at)[k] = tbl[k]
                              \/ Purged(tbl, at)[k] = NoRow /\ tbl[k].updated <= at - PurgeAfter
  BY NewRow DEF Purged

(* A failure counted at a time when the row is not blocked.                  *)
LEMMA Counting ==
    ASSUME NEW t \in Rows, NEW threshold, NEW at \in Time, t.blocked <= at
    PROVE  /\ Counted(t, threshold, at) \in Rows
           /\ Counted(t, threshold, at).blocked < Counted(t, threshold, at).updated + PurgeAfter
           /\ Counted(t, threshold, at).exists = t.exists
  <1> DEFINE fresh == at - t.start >= Window
             n == IF fresh THEN 1 ELSE t.count + 1
             level == IF t.level + 1 < 3 THEN t.level + 1 ELSE 3
             start == IF fresh THEN at ELSE t.start
             end == at + Penalties[level]
             block == [t EXCEPT !.count = 0, !.level = level, !.start = start, !.updated = at,
                                !.blocked = end]
             note == [t EXCEPT !.count = n, !.start = start, !.updated = at]
  <1>1. Counted(t, threshold, at) = IF n >= threshold THEN block ELSE note
    BY DEF Counted
  <1>2. n \in Nat /\ level \in 1 .. 3 /\ level \in 0 .. 3 /\ start \in Time
    BY RowFields
  <1> HIDE DEF fresh, n, level, start
  <1>3. end \in Nat /\ end < at + PurgeAfter
    BY <1>2, ThrottleConstants DEF ThrottleConstants, Time
  <1> HIDE DEF end
  <1>4. block \in Rows /\ block.blocked = end /\ block.updated = at /\ block.exists = t.exists
    BY <1>2, <1>3 DEF Rows
  <1>5. note \in Rows /\ note.blocked = t.blocked /\ note.updated = at /\ note.exists = t.exists
    BY <1>2 DEF Rows
  <1>6. note.blocked < note.updated + PurgeAfter
    <2>1. t.blocked \in Nat /\ at \in Nat /\ PurgeAfter \in Nat /\ PurgeAfter > 0
      BY RowFields, ThrottleConstants DEF ThrottleConstants, Time
    <2> QED
      BY <1>5, <2>1
  <1> HIDE DEF block, note
  <1> QED
    BY <1>1, <1>3, <1>4, <1>5, <1>6

LEMMA KeysOfAttempt ==
    ASSUME NEW r \in Attempts
    PROVE  ThrottleKeys(r) \subseteq Keys /\ r.at \in Time
  BY DEF Attempts, ThrottleKeys, Keys

-----------------------------------------------------------------------------
(* Step by step: the invariant, and the cooldowns that run.                  *)
Lifted(k) == row[k].blocked > clock /\ row'[k].blocked # row[k].blocked
CooldownStep ==
    \A k \in Keys : Lifted(k) => /\ k[1] # "source"
                                 /\ \E i \in ReqIds : Phase(i, "proved") /\ k \in ThrottleKeys(req[i])
                                                      /\ req'[i] = Idle

LEMMA GotoReq ==
    ASSUME ThrottleInv, NEW i \in ReqIds, req[i] # Idle,
           NEW phase \in {"verifying", "failed", "proved"}, Goto(i, phase) \/ Finish(i), clock' = clock
    PROVE  req' \in [ReqIds -> Attempts \cup {Idle}] /\ TimesPast'
  <1> DEFINE new == [req[i] EXCEPT !.phase = phase, !.at = clock]
  <1>1. req[i] \in Attempts /\ clock \in Time
    BY DEF ThrottleInv, TypeOK
  <1>2. new \in Attempts /\ new.at = clock
    BY <1>1 DEF Attempts
  <1>3. req' = [req EXCEPT ![i] = new] \/ req' = [req EXCEPT ![i] = Idle]
    BY DEF Goto, Finish
  <1> HIDE DEF new
  <1>4. req' \in [ReqIds -> Attempts \cup {Idle}]
    BY <1>2, <1>3 DEF ThrottleInv, TypeOK
  <1>5. TimesPast'
    BY <1>1, <1>2, <1>3 DEF ThrottleInv, TypeOK, TimesPast, Time
  <1> QED
    BY <1>4, <1>5

LEMMA OneMoreType ==
    ASSUME NEW f \in [Time -> Nat], NEW at
    PROVE  OneMore(f, at) \in [Time -> Nat]
  BY DEF OneMore

LEMMA PrecheckStep ==
    ASSUME ThrottleInv, NEW i \in ReqIds, Precheck(i)
    PROVE  ThrottleInv' /\ CooldownStep
  <1> DEFINE r == req[i]
             keys == ThrottleKeys(r)
             pur == Purged(row, r.at)
             tbl == LockThrottles(pur, keys, r.at)
  <1>1. r # Idle /\ r \in Attempts /\ r.at \in Time /\ r.at <= clock /\ clock \in Time
    BY KeysOfAttempt DEF ThrottleInv, TypeOK, TimesPast, Precheck, Phase
  <1>2. pur \in [Keys -> Rows]
        /\ \A k \in Keys : pur[k] = row[k] \/ (pur[k] = NoRow /\ row[k].updated <= r.at - PurgeAfter)
    BY <1>1, Purging DEF ThrottleInv, TypeOK
  <1>3. /\ row' = tbl /\ failures' = failures /\ clock' = clock
        /\ Goto(i, "verifying") \/ Finish(i)
    BY DEF Precheck
  <1> HIDE DEF pur, keys
  <1>4. /\ tbl \in [Keys -> Rows]
        /\ \A k \in Keys : \/ tbl[k] = pur[k]
                           \/ tbl[k].blocked = 0 /\ tbl[k].updated = r.at /\ ~pur[k].exists
    BY <1>1, <1>2, Locking
  <1> HIDE DEF tbl
  <1>5. TypeOK' /\ TimesPast'
    BY <1>1, <1>3, <1>4, GotoReq DEF ThrottleInv, TypeOK
  <1> SUFFICES ASSUME NEW k \in Keys
               PROVE  /\ row'[k].blocked < row'[k].updated + PurgeAfter
                      /\ ~row'[k].exists => row'[k].blocked = 0
                      /\ ~Lifted(k)
    BY <1>5 DEF ThrottleInv, CooldownsKept, CooldownStep
  <1>6. /\ row[k].blocked \in Nat /\ row[k].updated \in Nat /\ clock \in Nat /\ r.at \in Nat
        /\ PurgeAfter \in Nat /\ PurgeAfter > 0
    <2>1. row[k] \in Rows
      BY DEF ThrottleInv, TypeOK
    <2> QED
      BY <1>1, <2>1, RowFields, ThrottleConstants DEF ThrottleConstants, Time
  <1>7. row[k].blocked < row[k].updated + PurgeAfter /\ (~row[k].exists => row[k].blocked = 0)
    BY DEF ThrottleInv, CooldownsKept
  <1>8. row[k].updated <= r.at - PurgeAfter => row[k].blocked <= clock
    BY <1>1, <1>6, <1>7
  <1>9. row[k].blocked > clock => row'[k] = row[k]
    <2> SUFFICES ASSUME row[k].blocked > clock
                 PROVE  row'[k] = row[k]
      OBVIOUS
    <2>1. pur[k] = row[k]
      BY <1>2, <1>6, <1>8
    <2>2. row[k].exists
      BY <1>6, <1>7
    <2> QED
      BY <1>3, <1>4, <2>1, <2>2
  <1>10. row'[k].blocked < row'[k].updated + PurgeAfter /\ (~row'[k].exists => row'[k].blocked = 0)
    <2>1. row'[k] = row[k] \/ row'[k] = NoRow \/ (row'[k].blocked = 0 /\ row'[k].updated = r.at)
      BY <1>2, <1>3, <1>4
    <2> QED
      BY <1>6, <1>7, <2>1, FreeRow
  <1> QED
    BY <1>9, <1>10 DEF Lifted

LEMMA RecordStep ==
    ASSUME ThrottleInv, NEW i \in ReqIds, RecordFailure(i)
    PROVE  ThrottleInv' /\ CooldownStep
  <1> DEFINE r == req[i]
             keys == ThrottleKeys(r)
             tbl == LockThrottles(row, keys, r.at)
             new(k) == Counted(tbl[k], Threshold[k[1]], r.at)
             more(k) == OneMore(failures[k], r.at)
  <1>1. r # Idle /\ r \in Attempts /\ r.at \in Time /\ r.at <= clock /\ clock \in Time
    BY KeysOfAttempt DEF ThrottleInv, TypeOK, TimesPast, RecordFailure, Phase
  <1>2. /\ clock' = clock /\ Finish(i)
        /\ \/ row' = tbl /\ failures' = failures
           \/ /\ ~Blocked(tbl, keys, r.at)
              /\ row' = [k \in Keys |-> IF k \in keys THEN new(k) ELSE tbl[k]]
              /\ failures' = [k \in Keys |-> IF k \in keys THEN more(k) ELSE failures[k]]
    BY DEF RecordFailure
  <1> HIDE DEF keys
  <1>3. /\ tbl \in [Keys -> Rows]
        /\ \A k \in Keys : \/ tbl[k] = row[k]
                           \/ tbl[k].blocked = 0 /\ tbl[k].updated = r.at /\ ~row[k].exists
        /\ \A k \in Keys : k \in keys => tbl[k].exists
        /\ \A k \in Keys : row[k].exists => tbl[k] = row[k]
    BY <1>1, Locking DEF ThrottleInv, TypeOK
  <1> HIDE DEF tbl
  <1>4. ASSUME ~Blocked(tbl, keys, r.at), NEW k \in Keys, k \in keys
        PROVE  /\ tbl[k].blocked <= r.at /\ new(k) \in Rows /\ new(k).exists
               /\ new(k).blocked < new(k).updated + PurgeAfter
    <2>1. tbl[k] \in Rows
      BY <1>3
    <2>2. tbl[k].blocked <= r.at
      BY <1>1, <1>4, <2>1, RowFields DEF Blocked, Time
    <2> QED
      BY <1>1, <1>3, <1>4, <2>1, <2>2, Counting
  <1> HIDE DEF new
  <1>5. row' \in [Keys -> Rows]
    BY <1>2, <1>3, <1>4
  <1>6. failures' \in [Keys -> [Time -> Nat]]
    <2>1. ASSUME NEW k \in Keys PROVE more(k) \in [Time -> Nat]
      <3>1. failures[k] \in [Time -> Nat]
        BY DEF ThrottleInv, TypeOK
      <3> QED
        BY <3>1, OneMoreType
    <2> HIDE DEF more
    <2> QED
      BY <1>2, <2>1 DEF ThrottleInv, TypeOK
  <1>7. TypeOK' /\ TimesPast'
    BY <1>1, <1>2, <1>5, <1>6, GotoReq DEF ThrottleInv, TypeOK
  <1> SUFFICES ASSUME NEW k \in Keys
               PROVE  /\ row'[k].blocked < row'[k].updated + PurgeAfter
                      /\ ~row'[k].exists => row'[k].blocked = 0
                      /\ ~Lifted(k)
    BY <1>7 DEF ThrottleInv, CooldownsKept, CooldownStep
  <1>8. /\ row[k].blocked \in Nat /\ row[k].updated \in Nat /\ clock \in Nat /\ r.at \in Nat
        /\ PurgeAfter \in Nat /\ PurgeAfter > 0
    <2>1. row[k] \in Rows
      BY DEF ThrottleInv, TypeOK
    <2> QED
      BY <1>1, <2>1, RowFields, ThrottleConstants DEF ThrottleConstants, Time
  <1>9. row[k].blocked < row[k].updated + PurgeAfter /\ (~row[k].exists => row[k].blocked = 0)
    BY DEF ThrottleInv, CooldownsKept
  <1>10. /\ tbl[k].blocked < tbl[k].updated + PurgeAfter
         /\ ~tbl[k].exists => tbl[k].blocked = 0
         /\ row[k].blocked > clock => tbl[k] = row[k]
    <2>1. row[k].blocked > clock => row[k].exists
      BY <1>8, <1>9
    <2> QED
      BY <1>3, <1>8, <1>9, <2>1
  <1>11. CASE row'[k] = tbl[k]
    BY <1>10, <1>11 DEF Lifted
  <1>12. CASE ~Blocked(tbl, keys, r.at) /\ k \in keys /\ row'[k] = new(k)
    <2>1. ~(row[k].blocked > clock)
      <3>1. row[k].blocked > clock => row[k].blocked <= r.at
        BY <1>4, <1>10, <1>12
      <3> QED
        BY <1>1, <1>8, <3>1
    <2> QED
      BY <1>4, <1>12, <2>1 DEF Lifted
  <1> QED
    BY <1>2, <1>11, <1>12

LEMMA ClearStep ==
    ASSUME ThrottleInv, NEW i \in ReqIds, ClearThrottles(i)
    PROVE  ThrottleInv' /\ CooldownStep
  <1> DEFINE keys == {k \in ThrottleKeys(req[i]) : k[1] # "source"}
             tbl == [k \in Keys |-> IF k \in keys THEN NoRow ELSE row[k]]
             none == [k \in Keys |-> IF k \in keys THEN NoFailures ELSE failures[k]]
  <1>1. req[i] # Idle /\ clock' = clock /\ Finish(i) /\ Phase(i, "proved")
    BY DEF ClearThrottles, Phase
  <1>2. (row' = tbl /\ failures' = none) \/ (row' = row /\ failures' = failures)
    BY DEF ClearThrottles
  <1>3. tbl \in [Keys -> Rows]
    BY NewRow DEF ThrottleInv, TypeOK
  <1>4. failures' \in [Keys -> [Time -> Nat]]
    <2>1. NoFailures \in [Time -> Nat]
      BY DEF NoFailures
    <2>2. none \in [Keys -> [Time -> Nat]]
      BY <2>1 DEF ThrottleInv, TypeOK
    <2> QED
      BY <1>2, <2>2 DEF ThrottleInv, TypeOK
  <1>5. TypeOK' /\ TimesPast'
    <2> HIDE DEF tbl
    <2> QED
      BY <1>1, <1>2, <1>3, <1>4, GotoReq DEF ThrottleInv, TypeOK
  <1>6. ASSUME NEW k \in Keys
        PROVE  row'[k] = row[k] \/ (k \in keys /\ row'[k] = NoRow)
    BY <1>2, <1>6
  <1>7. req'[i] = Idle
    BY <1>1 DEF Finish, ThrottleInv, TypeOK
  <1>8. CooldownsKept'
    <2> SUFFICES ASSUME NEW k \in Keys
                 PROVE  /\ row'[k].blocked < row'[k].updated + PurgeAfter
                        /\ ~row'[k].exists => row'[k].blocked = 0
      BY DEF CooldownsKept
    <2> HIDE DEF keys
    <2>2. CASE row'[k] = row[k]
      BY <2>2 DEF ThrottleInv, CooldownsKept
    <2>3. CASE row'[k] = NoRow
      BY <2>3, FreeRow
    <2> QED
      BY <1>6, <2>2, <2>3
  <1>9. CooldownStep
    BY <1>1, <1>6, <1>7 DEF CooldownStep, Lifted
  <1> QED
    BY <1>5, <1>8, <1>9 DEF ThrottleInv

LEMMA OtherStep ==
    ASSUME ThrottleInv, row' = row, TypeOK', TimesPast'
    PROVE  ThrottleInv' /\ CooldownStep
  BY DEF ThrottleInv, CooldownsKept, CooldownStep, Lifted

LEMMA ArriveStep ==
    ASSUME ThrottleInv, NEW i \in ReqIds, NEW a \in Accounts, NEW d \in Devices, NEW s \in Sources,
           Arrive(i, a, d, s)
    PROVE  ThrottleInv' /\ CooldownStep
  <1> DEFINE new == [acct |-> a, dev |-> d, src |-> s, at |-> clock, phase |-> "arrived"]
  <1>1. clock \in Time /\ new \in Attempts /\ new.at = clock
    BY DEF ThrottleInv, TypeOK, Attempts
  <1>2. req' = [req EXCEPT ![i] = new] /\ UNCHANGED <<clock, row, failures>>
    BY DEF Arrive
  <1> HIDE DEF new
  <1>3. TypeOK'
    BY <1>1, <1>2 DEF ThrottleInv, TypeOK
  <1>4. TimesPast'
    BY <1>1, <1>2 DEF ThrottleInv, TypeOK, TimesPast, Time
  <1> QED
    BY <1>2, <1>3, <1>4, OtherStep

LEMMA PassingStep ==
    ASSUME ThrottleInv, NEW i \in ReqIds, Abandon(i) \/ \E valid \in BOOLEAN : Verify(i, valid)
    PROVE  ThrottleInv' /\ CooldownStep
  <1>1. /\ UNCHANGED <<clock, row, failures>> /\ req[i] # Idle
        /\ \E phase \in {"failed", "proved"} : Goto(i, phase) \/ Finish(i)
    BY DEF Abandon, Verify, Phase
  <1>2. req' \in [ReqIds -> Attempts \cup {Idle}] /\ TimesPast'
    BY <1>1, GotoReq
  <1>3. TypeOK'
    BY <1>1, <1>2 DEF ThrottleInv, TypeOK
  <1> QED
    BY <1>1, <1>2, <1>3, OtherStep

LEMMA TickStep ==
    ASSUME ThrottleInv, Tick
    PROVE  ThrottleInv' /\ CooldownStep
  <1>1. clock \in Time /\ clock' = clock + 1 /\ clock < MaxClock /\ row' = row /\ req' = req
    BY DEF ThrottleInv, TypeOK, Tick
  <1>2. clock' \in Time /\ MaxClock \in Nat
    BY <1>1, ThrottleConstants DEF ThrottleConstants, Time
  <1>3. failures' \in [Keys -> [Time -> Nat]]
    <2>1. \A k \in Keys : failures[k] \in [Time -> Nat]
      BY DEF ThrottleInv, TypeOK
    <2> QED
      BY <2>1 DEF Tick
  <1>4. TypeOK'
    BY <1>1, <1>2, <1>3 DEF ThrottleInv, TypeOK
  <1>5. TimesPast'
    <2> SUFFICES ASSUME NEW i \in ReqIds, req[i] # Idle
                 PROVE  req[i].at <= clock + 1
      BY <1>1 DEF TimesPast
    <2>1. req[i].at \in Time /\ req[i].at <= clock
      BY DEF ThrottleInv, TypeOK, TimesPast, Attempts
    <2> QED
      BY <1>1, <2>1 DEF Time
  <1> QED
    BY <1>1, <1>4, <1>5, OtherStep

LEMMA ThrottleStep ==
    ASSUME ThrottleInv, [Next]_vars
    PROVE  ThrottleInv' /\ CooldownStep
  <1>1. CASE UNCHANGED vars
    <2>1. TypeOK' /\ TimesPast'
      BY <1>1 DEF vars, ThrottleInv, TypeOK, TimesPast
    <2> QED
      BY <1>1, <2>1, OtherStep DEF vars
  <1>2. CASE Next
    BY <1>2, PrecheckStep, RecordStep, ClearStep, ArriveStep, PassingStep, TickStep DEF Next
  <1> QED
    BY <1>1, <1>2

LEMMA ThrottleInit ==
    ASSUME Init
    PROVE  ThrottleInv
  <1>1. TypeOK
    <2>1. 0 \in Time /\ NoFailures \in [Time -> Nat]
      BY ThrottleConstants DEF ThrottleConstants, Time, NoFailures
    <2> QED
      BY <2>1, NewRow DEF Init, TypeOK
  <1>2. TimesPast
    BY DEF Init, TimesPast
  <1>3. CooldownsKept
    BY FreeRow DEF Init, CooldownsKept
  <1> QED
    BY <1>1, <1>2, <1>3 DEF ThrottleInv

-----------------------------------------------------------------------------
(* The counters and cooldowns stay in range; the third level is the last.    *)
THEOREM TypeCorrect == Spec => []TypeOK
  <1>1. Init => ThrottleInv
    BY ThrottleInit
  <1>2. ThrottleInv /\ [Next]_vars => ThrottleInv'
    BY ThrottleStep
  <1>3. ThrottleInv => TypeOK
    BY DEF ThrottleInv
  <1> QED
    BY <1>1, <1>2, <1>3, PTL DEF Spec

(* A cooldown that native_login has started runs to its end, whatever other  *)
(* attempts count, purge or insert beside it with times they read earlier;   *)
(* only a proved password lifts it, and not for a source.                    *)
THEOREM CooldownsHold == Spec => CooldownHolds
  <1>1. Init => ThrottleInv
    BY ThrottleInit
  <1>2. ThrottleInv /\ [Next]_vars => ThrottleInv'
    BY ThrottleStep
  <1>3. ThrottleInv /\ [Next]_vars =>
           [\A k \in Keys :
              row[k].blocked > clock /\ row'[k].blocked # row[k].blocked
                => /\ k[1] # "source"
                   /\ \E i \in ReqIds : Phase(i, "proved") /\ k \in ThrottleKeys(req[i])
                                        /\ req'[i] = Idle]_vars
    BY ThrottleStep DEF CooldownStep, Lifted
  <1> QED
    BY <1>1, <1>2, <1>3, PTL DEF Spec, CooldownHolds
-----------------------------------------------------------------------------
(* How many failures a window's length takes.                                *)

(* A failure may still be counted in the Window that begins at t: attempts   *)
(* that wait for their locks have read their times at most Delay ago.        *)
Open(t, now) == now < t + Window + Delay

(* The most failures that a counter with threshold n has taken since t in    *)
(* the windows it went through, when its own began at start and has count:   *)
(* the one that was running at t, the first that began after t, and one that *)
(* began after t + Window and takes late failures only.                      *)
Pieces(n, start, count, t) ==
    IF start < t THEN count
    ELSE IF start < t + Window THEN n - 1 + count
    ELSE IF n = 1 THEN 0 ELSE 2 * n - 3 + count

(* Only the first cooldown is short enough to leave room for more.           *)
Allowance(n, q, t) ==
    IF q.start + Window <= t THEN 0
    ELSE (IF q.level = 1 THEN n ELSE 0) + Pieces(n, q.start, q.count, t)

Quota(n) == IF n = 1 THEN 2 ELSE 4 * n - 3

(* A counter q with threshold n at time now, of which count failures are     *)
(* remembered in the Window that begins at t.                                *)
WindowOK(q, count, n, t, now) ==
    /\ count > 0 => t <= now
    /\ count > 0 /\ q.exists => t <= q.updated + Delay
    /\ count <= Quota(n)
    /\ ~q.exists /\ Open(t, now) => count = 0
    /\ q.exists /\ Open(t, now) /\ q.blocked < t + Window => count <= Allowance(n, q, t)

CounterOK(q, n, now) == q.exists => q.start <= now /\ q.count < n

(* The clock has moved at most Delay since an attempt that waits for its     *)
(* locks has read it.                                                        *)
LocksInTime ==
    \A i \in ReqIds : Phase(i, "arrived") \/ Phase(i, "failed") => clock <= req[i].at + Delay

KeyInv(k) ==
    /\ CounterOK(row[k], Threshold[k[1]], clock)
    /\ \A t \in Time : WindowOK(row[k], failures[k][t], Threshold[k[1]], t, clock)

RateInv == LocksInTime /\ \A k \in Keys : KeyInv(k)

LEMMA RateConstants ==
    /\ Window \in Nat /\ Window > 0 /\ Delay \in Nat /\ PurgeAfter \in Nat /\ Delay <= Window
    /\ Window + 2 * Delay <= PurgeAfter
    /\ \A p \in 1 .. 3 : Penalties[p] \in Nat /\ Penalties[p] > 0
    /\ \A p \in 2 .. 3 : Window + Delay <= Penalties[p]
    /\ \A k \in Keys : Threshold[k[1]] \in Nat /\ Threshold[k[1]] > 0
  <1>1. \A k \in Keys : k[1] \in Kinds
    BY DEF Keys, Kinds
  <1> QED
    BY <1>1, ThrottleConstants DEF ThrottleConstants

(* What Counted does to each column.                                         *)
LEMMA CountedFields ==
    ASSUME NEW q \in Rows, NEW n \in Nat, NEW at \in Time
    PROVE  LET w == Counted(q, n, at)
               m == IF at - q.start >= Window THEN 1 ELSE q.count + 1
           IN  /\ w.exists = q.exists /\ w.updated = at
               /\ at - q.start >= Window => w.start = at
               /\ ~(at - q.start >= Window) => w.start = q.start
               /\ m >= n => /\ w.count = 0 /\ w.level = IF q.level + 1 < 3 THEN q.level + 1 ELSE 3
                            /\ w.blocked = at + Penalties[w.level]
               /\ ~(m >= n) => w.count = m /\ w.level = q.level /\ w.blocked = q.blocked
  <1> DEFINE w == Counted(q, n, at)
             m == IF at - q.start >= Window THEN 1 ELSE q.count + 1
  <1> DEFINE level == IF q.level + 1 < 3 THEN q.level + 1 ELSE 3
             start == IF at - q.start >= Window THEN at ELSE q.start
             end == at + Penalties[level]
             block == [q EXCEPT !.count = 0, !.level = level, !.start = start, !.updated = at,
                                !.blocked = end]
             note == [q EXCEPT !.count = m, !.start = start, !.updated = at]
  <1>1. w = IF m >= n THEN block ELSE note
    BY DEF Counted
  <1>2. /\ at - q.start >= Window => start = at
        /\ ~(at - q.start >= Window) => start = q.start
    OBVIOUS
  <1> HIDE DEF level, start
  <1>3. end = at + Penalties[level]
    OBVIOUS
  <1> HIDE DEF end
  <1>4. /\ block.count = 0 /\ block.level = level /\ block.start = start /\ block.updated = at
        /\ block.blocked = end /\ block.exists = q.exists
    BY DEF Rows
  <1>5. /\ note.count = m /\ note.level = q.level /\ note.start = start /\ note.updated = at
        /\ note.blocked = q.blocked /\ note.exists = q.exists
    BY DEF Rows
  <1> HIDE DEF block, note
  <1> QED
    BY <1>1, <1>2, <1>3, <1>4, <1>5 DEF level

(* One more failure on a counter that is not blocked, with a time at that    *)
(* was read at most Delay ago.  It is in the Window that begins at t only    *)
(* while that is open and the last cooldown leaves room in it.               *)
LEMMA WindowCounted ==
    ASSUME NEW q \in Rows, NEW n \in Nat, n > 0, NEW at \in Time, NEW t \in Time,
           NEW now \in Nat, NEW f \in Nat,
           q.exists, q.blocked <= at, at <= now, now <= at + Delay,
           CounterOK(q, n, now), WindowOK(q, f, n, t, now),
           NEW w, w = Counted(q, n, at),
           NEW g, g = IF Within(at, t) THEN f + 1 ELSE f
    PROVE  CounterOK(w, n, now) /\ WindowOK(w, g, n, t, now)
  <1> DEFINE m == IF at - q.start >= Window THEN 1 ELSE q.count + 1
  <1>1. /\ at \in Nat /\ t \in Nat /\ q.count \in Nat /\ q.level \in 0 .. 3 /\ q.start \in Nat
        /\ q.blocked \in Nat
    BY RowFields DEF Time
  <1>2. /\ Window \in Nat /\ Window > 0 /\ Delay \in Nat /\ Delay <= Window
        /\ \A p \in 1 .. 3 : Penalties[p] \in Nat /\ Penalties[p] > 0
        /\ \A p \in 2 .. 3 : Window + Delay <= Penalties[p]
    BY RateConstants
  <1>3. q.start <= now /\ q.count < n
    BY DEF CounterOK
  <1>4. /\ f > 0 => t <= now
        /\ f <= Quota(n)
        /\ now < t + Window + Delay /\ q.blocked < t + Window => f <= Allowance(n, q, t)
    BY DEF WindowOK, Open
  <1>5. /\ w.exists = q.exists /\ w.updated = at
        /\ at - q.start >= Window => w.start = at
        /\ ~(at - q.start >= Window) => w.start = q.start
        /\ m >= n => /\ w.count = 0 /\ w.level = IF q.level + 1 < 3 THEN q.level + 1 ELSE 3
                     /\ w.blocked = at + Penalties[w.level]
        /\ ~(m >= n) => w.count = m /\ w.level = q.level /\ w.blocked = q.blocked
    <2> DEFINE x == Counted(q, n, at)
    <2>1. /\ x.exists = q.exists /\ x.updated = at
          /\ at - q.start >= Window => x.start = at
          /\ ~(at - q.start >= Window) => x.start = q.start
          /\ m >= n => /\ x.count = 0 /\ x.level = IF q.level + 1 < 3 THEN q.level + 1 ELSE 3
                       /\ x.blocked = at + Penalties[x.level]
          /\ ~(m >= n) => x.count = m /\ x.level = q.level /\ x.blocked = q.blocked
      BY CountedFields, Zenon
    <2>2. w = x
      OBVIOUS
    <2> HIDE DEF x, m
    <2> QED
      BY <2>1, <2>2
  <1>6. /\ m \in Nat /\ (at - q.start >= Window => m = 1)
        /\ ~(at - q.start >= Window) => m = q.count + 1
    BY <1>1
  <1> HIDE DEF m
  <1>7. CounterOK(w, n, now)
    <2>1. w.start <= now
      BY <1>1, <1>3, <1>5
    <2>2. w.count = 0 \/ (w.count = m /\ ~(m >= n))
      BY <1>5
    <2>3. w.count < n
      BY <1>6, <2>2
    <2> QED
      BY <2>1, <2>3 DEF CounterOK
  <1>8. g \in Nat /\ (Within(at, t) => t <= at /\ at < t + Window /\ g = f + 1) /\ (~Within(at, t) => g = f)
    BY DEF Within
  <1>9. g > 0 => t <= now
    BY <1>1, <1>4, <1>8
  <1>10. g > 0 => t <= w.updated + Delay
    BY <1>1, <1>2, <1>5, <1>9
  <1>11. CASE m < n
    <2>1. /\ w.count = m /\ w.level = q.level /\ w.blocked = q.blocked
      BY <1>5, <1>6, <1>11
    <2>2. now < t + Window + Delay /\ q.blocked < t + Window => g <= Allowance(n, w, t)
      <3> SUFFICES ASSUME now < t + Window + Delay, q.blocked < t + Window
                   PROVE  g <= Allowance(n, w, t)
        OBVIOUS
      <3>1. f <= Allowance(n, q, t)
        BY <1>4
      <3>2. CASE at - q.start >= Window
        <4>1. w.start = at /\ w.count = 1 /\ w.level = q.level /\ n >= 2
          BY <1>1, <1>5, <1>6, <1>11, <2>1, <3>2
        <4> QED
          BY <1>1, <1>2, <1>3, <1>8, <3>1, <3>2, <4>1 DEF Allowance, Pieces, Within
      <3>3. CASE ~(at - q.start >= Window)
        <4>1. w.start = q.start /\ w.count = q.count + 1 /\ w.level = q.level /\ n >= 2
          BY <1>1, <1>5, <1>6, <1>11, <2>1, <3>3
        <4> QED
          BY <1>1, <1>2, <1>3, <1>8, <3>1, <3>3, <4>1 DEF Allowance, Pieces, Within
      <3> QED
        BY <3>2, <3>3
    <2>3. g <= Quota(n)
      <3>1. CASE Within(at, t)
        <4>1. now < t + Window + Delay /\ q.blocked < t + Window
          BY <1>1, <1>2, <1>8, <3>1
        <4>2. w.start \in Nat /\ w.count \in Nat /\ w.count < n /\ w.level \in 0 .. 3
          BY <1>1, <1>5, <1>6, <1>11, <2>1
        <4> QED
          BY <1>2, <1>8, <2>2, <4>1, <4>2, <1>1 DEF Allowance, Pieces, Quota
      <3> QED
        BY <1>4, <1>8, <3>1
    <2> QED
      BY <1>5, <1>7, <1>9, <1>10, <2>1, <2>2, <2>3 DEF WindowOK, Open
  <1>12. CASE m >= n
    <2>1. /\ w.count = 0 /\ w.level = IF q.level + 1 < 3 THEN q.level + 1 ELSE 3
          /\ w.blocked = at + Penalties[w.level]
      BY <1>5, <1>12
    <2>2. w.level \in 1 .. 3 /\ w.blocked \in Nat /\ w.blocked > at /\ w.start \in Nat
      BY <1>1, <1>2, <1>5, <2>1
    <2>3. g <= Quota(n)
      <3>1. CASE Within(at, t)
        <4>1. now < t + Window + Delay /\ q.blocked < t + Window
          BY <1>1, <1>2, <1>8, <3>1
        <4>2. f <= Allowance(n, q, t)
          BY <1>4, <4>1
        <4>3. CASE n = 1
          BY <1>1, <1>2, <1>3, <1>6, <1>8, <1>12, <3>1, <4>2, <4>3 DEF Allowance, Pieces, Quota
        <4>4. CASE n # 1
          BY <1>1, <1>2, <1>3, <1>6, <1>8, <1>12, <3>1, <4>2, <4>4 DEF Allowance, Pieces, Quota
        <4> QED
          BY <4>3, <4>4
      <3> QED
        BY <1>4, <1>8, <3>1
    <2>4. now < t + Window + Delay /\ w.blocked < t + Window => g <= Allowance(n, w, t)
      <3> SUFFICES ASSUME now < t + Window + Delay, w.blocked < t + Window
                   PROVE  g <= Allowance(n, w, t)
        OBVIOUS
      <3>1. f <= Allowance(n, q, t)
        BY <1>1, <1>2, <1>4, <2>2
      <3>2. CASE w.level = 1
        <4>1. q.level = 0
          BY <1>1, <2>1, <3>2
        <4>2. CASE at - q.start >= Window
          <5>1. n = 1 /\ q.count = 0 /\ w.start = at
            BY <1>1, <1>3, <1>5, <1>6, <1>12, <4>2
          <5>2. f = 0
            BY <1>1, <1>2, <3>1, <4>1, <5>1 DEF Allowance, Pieces
          <5> QED
            BY <1>1, <1>2, <1>8, <2>1, <3>2, <5>1, <5>2 DEF Allowance, Pieces
        <4>3. CASE ~(at - q.start >= Window)
          <5>1. q.count = n - 1 /\ w.start = q.start
            BY <1>1, <1>3, <1>5, <1>6, <1>12, <4>3
          <5>2. CASE q.start + Window <= t
            <6>1. f = 0 /\ ~(t <= at)
              BY <1>1, <1>2, <3>1, <4>3, <5>2 DEF Allowance
            <6> QED
              BY <1>1, <1>2, <1>8, <5>1, <5>2, <6>1 DEF Allowance
          <5>3. CASE ~(q.start + Window <= t)
            <6>1. Allowance(n, q, t) = Pieces(n, q.start, n - 1, t)
              BY <1>1, <4>1, <5>1, <5>3 DEF Allowance, Pieces
            <6>2. Allowance(n, w, t) = n + Pieces(n, q.start, 0, t)
              BY <2>1, <3>2, <5>1, <5>3 DEF Allowance
            <6>3. Pieces(n, q.start, n - 1, t) + 1 <= n + Pieces(n, q.start, 0, t)
              BY <1>1, <1>2 DEF Pieces
            <6>4. Pieces(n, q.start, n - 1, t) \in Int /\ Pieces(n, q.start, 0, t) \in Int
              BY <1>1 DEF Pieces
            <6> QED
              BY <1>8, <3>1, <6>1, <6>2, <6>3, <6>4
          <5> QED
            BY <5>2, <5>3
        <4> QED
          BY <4>2, <4>3
      <3>3. CASE w.level # 1
        <4>1. Window + Delay <= Penalties[w.level] /\ Penalties[w.level] \in Nat
          BY <1>2, <2>2, <3>3
        <4>2. at + Delay < t
          BY <1>1, <1>2, <2>1, <4>1
        <4>3. g = 0
          BY <1>1, <1>2, <1>4, <1>8, <4>2
        <4> QED
          BY <1>1, <1>2, <2>1, <2>2, <4>3 DEF Allowance, Pieces
      <3> QED
        BY <3>2, <3>3
    <2> QED
      BY <1>5, <1>7, <1>9, <1>10, <2>3, <2>4 DEF WindowOK, Open
  <1> QED
    BY <1>6, <1>11, <1>12

(* A row made now, for a key that had none.                                  *)
NewAt(at) == [NoRow EXCEPT !.exists = TRUE, !.start = at, !.updated = at]

LEMMA NewAtFields ==
    ASSUME NEW at \in Time
    PROVE  /\ NewAt(at) \in Rows /\ NewAt(at).exists /\ NewAt(at).count = 0 /\ NewAt(at).level = 0
           /\ NewAt(at).start = at /\ NewAt(at).blocked = 0 /\ NewAt(at).updated = at
  <1>1. 0 \in Time /\ 0 \in 0 .. 3 /\ 0 \in Nat
    BY ThrottleConstants DEF ThrottleConstants, Time
  <1> QED
    BY <1>1 DEF NewAt, NoRow, Rows

LEMMA LockedRows ==
    ASSUME NEW tbl, NEW keys, NEW at, NEW k \in Keys
    PROVE  \/ LockThrottles(tbl, keys, at)[k] = tbl[k]
           \/ ~tbl[k].exists /\ LockThrottles(tbl, keys, at)[k] = NewAt(at)
  BY DEF LockThrottles, NewAt

LEMMA WindowNew ==
    ASSUME NEW q, ~q.exists, NEW n \in Nat, n > 0, NEW at \in Time, NEW t \in Time, NEW now \in Nat,
           NEW f \in Nat, at <= now, now <= at + Delay, WindowOK(q, f, n, t, now)
    PROVE  CounterOK(NewAt(at), n, now) /\ WindowOK(NewAt(at), f, n, t, now)
  <1>1. /\ NewAt(at).exists /\ NewAt(at).count = 0 /\ NewAt(at).level = 0
        /\ NewAt(at).start = at /\ NewAt(at).blocked = 0 /\ NewAt(at).updated = at
    BY NewAtFields
  <1>2. at \in Nat /\ t \in Nat /\ Window \in Nat /\ Delay \in Nat
    BY RateConstants DEF Time
  <1>3. (f > 0 => t <= now) /\ f <= Quota(n) /\ (Open(t, now) => f = 0)
    BY DEF WindowOK
  <1>4. f > 0 => t <= at + Delay
    BY <1>2, <1>3
  <1>5. 0 <= Allowance(n, NewAt(at), t)
    BY <1>1, <1>2 DEF Allowance, Pieces
  <1> QED
    BY <1>1, <1>3, <1>4, <1>5 DEF CounterOK, WindowOK

(* A row is purged only when every failure it has counted is out of reach.   *)
LEMMA WindowPurged ==
    ASSUME NEW q \in Rows, NEW n \in Nat, n > 0, NEW at \in Time, NEW t \in Time, NEW now \in Nat,
           NEW f \in Nat, at <= now, q.updated <= at - PurgeAfter, WindowOK(q, f, n, t, now)
    PROVE  CounterOK(NoRow, n, now) /\ WindowOK(NoRow, f, n, t, now)
  <1>1. NoRow.exists = FALSE
    BY FreeRow
  <1>2. /\ at \in Nat /\ t \in Nat /\ Window \in Nat /\ Delay \in Nat /\ PurgeAfter \in Nat
        /\ Window + 2 * Delay <= PurgeAfter /\ q.updated \in Nat /\ q.exists \in BOOLEAN
    BY RateConstants, RowFields DEF Time
  <1>3. /\ f > 0 => t <= now
        /\ f > 0 /\ q.exists => t <= q.updated + Delay
        /\ f <= Quota(n)
        /\ ~q.exists /\ Open(t, now) => f = 0
    BY DEF WindowOK
  <1>4. Open(t, now) => f = 0
    <2>1. CASE q.exists /\ f > 0
      <3>1. t <= q.updated + Delay
        BY <1>3, <2>1
      <3> QED
        BY <1>2, <3>1 DEF Open
    <2> QED
      BY <1>3, <2>1
  <1> QED
    BY <1>1, <1>3, <1>4 DEF CounterOK, WindowOK

LEMMA WindowCleared ==
    ASSUME NEW n \in Nat, n > 0, NEW t \in Time, NEW now \in Nat
    PROVE  CounterOK(NoRow, n, now) /\ WindowOK(NoRow, NoFailures[t], n, t, now)
  <1>1. NoRow.exists = FALSE /\ NoFailures[t] = 0
    BY FreeRow DEF NoFailures
  <1>2. 0 <= Quota(n)
    BY DEF Quota
  <1> QED
    BY <1>1, <1>2 DEF CounterOK, WindowOK

LEMMA WindowTick ==
    ASSUME NEW q \in Rows, NEW n \in Nat, n > 0, NEW t \in Time, NEW now \in Nat, NEW f \in Nat,
           CounterOK(q, n, now), WindowOK(q, f, n, t, now),
           NEW g, g = IF t + Window + Delay > now THEN f ELSE 0
    PROVE  CounterOK(q, n, now + 1) /\ WindowOK(q, g, n, t, now + 1)
  <1>1. /\ t \in Nat /\ Window \in Nat /\ Delay \in Nat /\ q.start \in Nat
    BY RateConstants, RowFields DEF Time
  <1>2. CounterOK(q, n, now + 1)
    BY <1>1 DEF CounterOK
  <1>3. Open(t, now + 1) => Open(t, now) /\ g = f
    BY <1>1 DEF Open
  <1>4. g = f \/ g = 0
    OBVIOUS
  <1>5. 0 <= Quota(n) /\ (g > 0 => t <= now + 1)
    BY <1>1, <1>4 DEF Quota, WindowOK
  <1> QED
    BY <1>2, <1>3, <1>4, <1>5 DEF WindowOK

-----------------------------------------------------------------------------
(* Step by step: the windows.                                                *)
LEMMA RateTypes ==
    ASSUME ThrottleInv, NEW k \in Keys
    PROVE  /\ row[k] \in Rows /\ clock \in Nat /\ (\A t \in Time : failures[k][t] \in Nat)
           /\ Threshold[k[1]] \in Nat /\ Threshold[k[1]] > 0
  <1>1. failures[k] \in [Time -> Nat] /\ row[k] \in Rows /\ clock \in Nat
    BY DEF ThrottleInv, TypeOK, Time
  <1>2. Threshold[k[1]] \in Nat /\ Threshold[k[1]] > 0
    BY RateConstants
  <1> QED
    BY <1>1, <1>2

LEMMA GotoInTime ==
    ASSUME ThrottleInv, RateInv, NEW i \in ReqIds, req[i] # Idle,
           NEW phase \in {"verifying", "failed", "proved"}, Goto(i, phase) \/ Finish(i), clock' = clock
    PROVE  LocksInTime'
  <1> DEFINE new == [req[i] EXCEPT !.phase = phase, !.at = clock]
  <1>1. req[i] \in Attempts /\ clock \in Nat /\ Delay \in Nat
    BY RateConstants DEF ThrottleInv, TypeOK, Time
  <1>2. new.at = clock
    BY <1>1 DEF Attempts
  <1>3. req' = [req EXCEPT ![i] = new] \/ req' = [req EXCEPT ![i] = Idle]
    BY DEF Goto, Finish
  <1> HIDE DEF new
  <1> SUFFICES ASSUME NEW j \in ReqIds, req'[j] # Idle,
                      req'[j].phase = "arrived" \/ req'[j].phase = "failed"
               PROVE  clock <= req'[j].at + Delay
    BY DEF LocksInTime, Phase
  <1>4. CASE j = i
    <2>1. req'[j] = new
      BY <1>3, <1>4 DEF ThrottleInv, TypeOK
    <2> QED
      BY <1>1, <1>2, <2>1
  <1>5. CASE j # i
    <2>1. req'[j] = req[j]
      BY <1>3, <1>5 DEF ThrottleInv, TypeOK
    <2> QED
      BY <2>1 DEF RateInv, LocksInTime, Phase
  <1> QED
    BY <1>4, <1>5

LEMMA PrecheckRate ==
    ASSUME ThrottleInv, RateInv, NEW i \in ReqIds, Precheck(i)
    PROVE  RateInv'
  <1> DEFINE r == req[i]
             pur == Purged(row, r.at)
             tbl == LockThrottles(pur, ThrottleKeys(r), r.at)
  <1>1. r # Idle /\ r \in Attempts /\ r.at \in Time /\ r.at <= clock /\ clock <= r.at + Delay
    BY KeysOfAttempt DEF ThrottleInv, TypeOK, TimesPast, Precheck, Phase, RateInv, LocksInTime
  <1>2. row' = tbl /\ failures' = failures /\ clock' = clock
    BY DEF Precheck
  <1>3. LocksInTime'
    BY <1>1, GotoInTime DEF Precheck
  <1>4. ASSUME NEW k \in Keys, NEW t \in Time
        PROVE  /\ CounterOK(tbl[k], Threshold[k[1]], clock)
               /\ WindowOK(tbl[k], failures[k][t], Threshold[k[1]], t, clock)
    <2> DEFINE n == Threshold[k[1]]
    <2>1. /\ row[k] \in Rows /\ clock \in Nat /\ failures[k][t] \in Nat /\ n \in Nat /\ n > 0
      BY RateTypes
    <2>2. CounterOK(row[k], n, clock) /\ WindowOK(row[k], failures[k][t], n, t, clock)
      BY DEF RateInv, KeyInv
    <2> HIDE DEF n
    <2>3. pur[k] = row[k] \/ (pur[k] = NoRow /\ row[k].updated <= r.at - PurgeAfter)
      BY <1>1, Purging DEF ThrottleInv, TypeOK
    <2> HIDE DEF pur, r
    <2>4. CounterOK(pur[k], n, clock) /\ WindowOK(pur[k], failures[k][t], n, t, clock)
      BY <1>1, <2>1, <2>2, <2>3, WindowPurged
    <2>5. tbl[k] = pur[k] \/ (~pur[k].exists /\ tbl[k] = NewAt(r.at))
      BY LockedRows
    <2> HIDE DEF tbl
    <2> QED
      BY <1>1, <2>1, <2>4, <2>5, WindowNew DEF n
  <1>5. ASSUME NEW k \in Keys PROVE KeyInv(k)'
    <2>1. 0 \in Time
      BY ThrottleConstants DEF ThrottleConstants, Time
    <2> HIDE DEF tbl
    <2> QED
      BY <1>2, <1>4, <2>1 DEF KeyInv
  <1> QED
    BY <1>3, <1>5 DEF RateInv

LEMMA RecordRate ==
    ASSUME ThrottleInv, RateInv, NEW i \in ReqIds, RecordFailure(i)
    PROVE  RateInv'
  <1> DEFINE r == req[i]
             keys == ThrottleKeys(r)
             tbl == LockThrottles(row, keys, r.at)
             new(k) == Counted(tbl[k], Threshold[k[1]], r.at)
             more(k) == OneMore(failures[k], r.at)
  <1>1. r # Idle /\ r \in Attempts /\ r.at \in Time /\ r.at <= clock /\ clock <= r.at + Delay
    BY KeysOfAttempt DEF ThrottleInv, TypeOK, TimesPast, RecordFailure, Phase, RateInv, LocksInTime
  <1>2. /\ clock' = clock
        /\ \/ row' = tbl /\ failures' = failures
           \/ /\ ~Blocked(tbl, keys, r.at)
              /\ row' = [k \in Keys |-> IF k \in keys THEN new(k) ELSE tbl[k]]
              /\ failures' = [k \in Keys |-> IF k \in keys THEN more(k) ELSE failures[k]]
    BY DEF RecordFailure
  <1>3. LocksInTime'
    BY <1>1, GotoInTime DEF RecordFailure
  <1> HIDE DEF keys
  <1>4. tbl \in [Keys -> Rows] /\ \A k \in Keys : k \in keys => tbl[k].exists
    BY <1>1, Locking DEF ThrottleInv, TypeOK
  <1>5. ASSUME NEW k \in Keys, NEW t \in Time
        PROVE  /\ CounterOK(tbl[k], Threshold[k[1]], clock)
               /\ WindowOK(tbl[k], failures[k][t], Threshold[k[1]], t, clock)
    <2> DEFINE n == Threshold[k[1]]
    <2>1. /\ row[k] \in Rows /\ clock \in Nat /\ failures[k][t] \in Nat /\ n \in Nat /\ n > 0
      BY RateTypes
    <2>2. CounterOK(row[k], n, clock) /\ WindowOK(row[k], failures[k][t], n, t, clock)
      BY DEF RateInv, KeyInv
    <2> HIDE DEF n, r
    <2>3. tbl[k] = row[k] \/ (~row[k].exists /\ tbl[k] = NewAt(r.at))
      BY LockedRows
    <2> HIDE DEF tbl
    <2> QED
      BY <1>1, <2>1, <2>2, <2>3, WindowNew DEF n
  <1> HIDE DEF tbl
  <1>6. ASSUME ~Blocked(tbl, keys, r.at), NEW k \in Keys, k \in keys, NEW t \in Time
        PROVE  /\ CounterOK(new(k), Threshold[k[1]], clock)
               /\ WindowOK(new(k), more(k)[t], Threshold[k[1]], t, clock)
    <2> DEFINE n == Threshold[k[1]]
               f == failures[k][t]
    <2>1. /\ clock \in Nat /\ f \in Nat /\ n \in Nat /\ n > 0
      BY RateTypes
    <2>2. tbl[k] \in Rows /\ tbl[k].exists
      BY <1>4, <1>6
    <2>3. tbl[k].blocked <= r.at
      BY <1>1, <1>6, <2>2, RowFields DEF Blocked, Time
    <2>4. more(k)[t] = IF Within(r.at, t) THEN f + 1 ELSE f
      BY DEF OneMore
    <2>5. CounterOK(tbl[k], n, clock) /\ WindowOK(tbl[k], f, n, t, clock)
      BY <1>5
    <2>6. new(k) = Counted(tbl[k], n, r.at)
      OBVIOUS
    <2> HIDE DEF n, f, r, new, more
    <2>7. CounterOK(new(k), n, clock) /\ WindowOK(new(k), more(k)[t], n, t, clock)
      BY <1>1, <2>1, <2>2, <2>3, <2>4, <2>5, <2>6, WindowCounted
    <2> QED
      BY <2>7 DEF n
  <1> HIDE DEF new, more
  <1>7. ASSUME NEW k \in Keys PROVE KeyInv(k)'
    <2>1. 0 \in Time
      BY ThrottleConstants DEF ThrottleConstants, Time
    <2>2. \/ row'[k] = tbl[k] /\ failures'[k] = failures[k]
          \/ /\ ~Blocked(tbl, keys, r.at) /\ k \in keys
             /\ row'[k] = new(k) /\ failures'[k] = more(k)
      BY <1>2
    <2>3. CASE row'[k] = tbl[k] /\ failures'[k] = failures[k]
      BY <1>2, <1>5, <2>1, <2>3 DEF KeyInv
    <2>4. CASE /\ ~Blocked(tbl, keys, r.at) /\ k \in keys
               /\ row'[k] = new(k) /\ failures'[k] = more(k)
      BY <1>2, <1>6, <2>1, <2>4 DEF KeyInv
    <2> QED
      BY <2>2, <2>3, <2>4
  <1> QED
    BY <1>3, <1>7 DEF RateInv

LEMMA ClearRate ==
    ASSUME ThrottleInv, RateInv, NEW i \in ReqIds, ClearThrottles(i)
    PROVE  RateInv'
  <1> DEFINE keys == {k \in ThrottleKeys(req[i]) : k[1] # "source"}
             tbl == [k \in Keys |-> IF k \in keys THEN NoRow ELSE row[k]]
             none == [k \in Keys |-> IF k \in keys THEN NoFailures ELSE failures[k]]
  <1>1. req[i] # Idle /\ clock' = clock /\ Finish(i)
    BY DEF ClearThrottles, Phase
  <1>2. (row' = tbl /\ failures' = none) \/ (row' = row /\ failures' = failures)
    BY DEF ClearThrottles
  <1>3. LocksInTime'
    BY <1>1, GotoInTime
  <1>4. ASSUME NEW k \in Keys PROVE KeyInv(k)'
    <2>1. \/ row'[k] = row[k] /\ failures'[k] = failures[k]
          \/ row'[k] = NoRow /\ failures'[k] = NoFailures
      BY <1>2
    <2>2. clock \in Nat /\ Threshold[k[1]] \in Nat /\ Threshold[k[1]] > 0 /\ 0 \in Time
      BY RateTypes, ThrottleConstants DEF ThrottleConstants, Time
    <2>3. CASE row'[k] = row[k] /\ failures'[k] = failures[k]
      BY <1>1, <2>3 DEF RateInv, KeyInv
    <2>4. CASE row'[k] = NoRow /\ failures'[k] = NoFailures
      <3>1. \A t \in Time : /\ CounterOK(NoRow, Threshold[k[1]], clock)
                            /\ WindowOK(NoRow, NoFailures[t], Threshold[k[1]], t, clock)
        BY <2>2, WindowCleared
      <3> QED
        BY <1>1, <2>2, <2>4, <3>1 DEF KeyInv
    <2> QED
      BY <2>1, <2>3, <2>4
  <1> QED
    BY <1>3, <1>4 DEF RateInv

LEMMA OtherRate ==
    ASSUME RateInv, UNCHANGED <<clock, row, failures>>, LocksInTime'
    PROVE  RateInv'
  BY DEF RateInv, KeyInv

LEMMA ArriveRate ==
    ASSUME ThrottleInv, RateInv, NEW i \in ReqIds, NEW a \in Accounts, NEW d \in Devices,
           NEW s \in Sources, Arrive(i, a, d, s)
    PROVE  RateInv'
  <1> DEFINE new == [acct |-> a, dev |-> d, src |-> s, at |-> clock, phase |-> "arrived"]
  <1>1. clock \in Nat /\ Delay \in Nat /\ new.at = clock
    BY RateConstants DEF ThrottleInv, TypeOK, Time
  <1>2. req' = [req EXCEPT ![i] = new] /\ UNCHANGED <<clock, row, failures>>
    BY DEF Arrive
  <1> HIDE DEF new
  <1>3. ASSUME NEW j \in ReqIds
        PROVE  req'[j] = new \/ req'[j] = req[j]
    BY <1>2 DEF ThrottleInv, TypeOK
  <1>4. LocksInTime'
    <2> SUFFICES ASSUME NEW j \in ReqIds, req'[j] # Idle,
                        req'[j].phase = "arrived" \/ req'[j].phase = "failed"
                 PROVE  clock <= req'[j].at + Delay
      BY <1>2 DEF LocksInTime, Phase
    <2>1. CASE req'[j] = new
      BY <1>1, <2>1
    <2>2. CASE req'[j] = req[j]
      BY <2>2 DEF RateInv, LocksInTime, Phase
    <2> QED
      BY <1>3, <2>1, <2>2
  <1> QED
    BY <1>2, <1>4, OtherRate

LEMMA PassingRate ==
    ASSUME ThrottleInv, RateInv, NEW i \in ReqIds, Abandon(i) \/ \E valid \in BOOLEAN : Verify(i, valid)
    PROVE  RateInv'
  <1>1. /\ UNCHANGED <<clock, row, failures>> /\ req[i] # Idle
        /\ \E phase \in {"failed", "proved"} : Goto(i, phase) \/ Finish(i)
    BY DEF Abandon, Verify, Phase
  <1> QED
    BY <1>1, GotoInTime, OtherRate

LEMMA TickRate ==
    ASSUME ThrottleInv, RateInv, Tick
    PROVE  RateInv'
  <1>1. clock' = clock + 1 /\ row' = row /\ req' = req
    BY DEF Tick
  <1>2. LocksInTime'
    BY <1>1 DEF Tick, LocksInTime, Phase
  <1>3. ASSUME NEW k \in Keys PROVE KeyInv(k)'
    <2> DEFINE n == Threshold[k[1]]
    <2>1. /\ row[k] \in Rows /\ clock \in Nat /\ n \in Nat /\ n > 0 /\ 0 \in Time
          /\ \A t \in Time : failures[k][t] \in Nat
      BY RateTypes, ThrottleConstants DEF ThrottleConstants, Time
    <2>2. CounterOK(row[k], n, clock) /\ \A t \in Time : WindowOK(row[k], failures[k][t], n, t, clock)
      BY DEF RateInv, KeyInv
    <2>3. \A t \in Time : failures'[k][t] = IF t + Window + Delay > clock THEN failures[k][t] ELSE 0
      BY DEF Tick
    <2> HIDE DEF n
    <2>4. \A t \in Time : /\ CounterOK(row[k], n, clock + 1)
                          /\ WindowOK(row[k], failures'[k][t], n, t, clock + 1)
      BY <2>1, <2>2, <2>3, WindowTick
    <2> QED
      BY <1>1, <2>1, <2>4 DEF KeyInv, n
  <1> QED
    BY <1>2, <1>3 DEF RateInv

LEMMA RateStep ==
    ASSUME ThrottleInv, RateInv, [Next]_vars
    PROVE  RateInv'
  <1>1. CASE UNCHANGED vars
    BY <1>1, OtherRate DEF vars, RateInv, LocksInTime, Phase
  <1>2. CASE Next
    BY <1>2, PrecheckRate, RecordRate, ClearRate, ArriveRate, PassingRate, TickRate DEF Next
  <1> QED
    BY <1>1, <1>2

LEMMA RateInit ==
    ASSUME Init
    PROVE  RateInv
  <1>1. LocksInTime
    BY DEF Init, LocksInTime, Phase
  <1>2. ASSUME NEW k \in Keys PROVE KeyInv(k)
    <2>1. Threshold[k[1]] \in Nat /\ Threshold[k[1]] > 0 /\ 0 \in Nat /\ 0 \in Time
      BY RateConstants, ThrottleConstants DEF ThrottleConstants, Time
    <2>2. row[k] = NoRow /\ failures[k] = NoFailures /\ clock = 0
      BY DEF Init
    <2>3. \A t \in Time : /\ CounterOK(NoRow, Threshold[k[1]], 0)
                          /\ WindowOK(NoRow, NoFailures[t], Threshold[k[1]], t, 0)
      BY <2>1, WindowCleared
    <2> QED
      BY <2>1, <2>2, <2>3 DEF KeyInv
  <1> QED
    BY <1>1, <1>2 DEF RateInv

(* native_login counts at most Budget failures per key in any stretch of     *)
(* time as long as the window: with thresholds of 5 and 20, 17 on an account *)
(* or a device and 77 from one source, however many attempts run at once,    *)
(* whatever times they have read and whenever rows are purged.               *)
THEOREM RatesBounded == Spec => []RateBounded
  <1>1. Init => ThrottleInv /\ RateInv
    BY ThrottleInit, RateInit
  <1>2. ThrottleInv /\ RateInv /\ [Next]_vars => (ThrottleInv /\ RateInv)'
    BY ThrottleStep, RateStep
  <1>3. RateInv => RateBounded
    BY DEF RateInv, KeyInv, WindowOK, Quota, RateBounded, Budget
  <1> QED
    BY <1>1, <1>2, <1>3, PTL DEF Spec
=============================================================================
