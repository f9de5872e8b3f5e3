------------------------ MODULE NativeSession_proofs ------------------------
(***************************************************************************)
(* Proofs about NativeSession for any number of devices and concurrent     *)
(* requests.                                                               *)
(***************************************************************************)
EXTENDS NativeSession, TLAPS

(* Columns written over a row that was read.                                 *)
LEMMA RevokedRowType ==
    ASSUME NEW cur \in Sessions, NEW was \in Sessions
    PROVE  /\ RevokedRow(cur, was) \in Sessions
           /\ [cur EXCEPT !.revoked = TRUE, !.gen = was.gen + 1] \in Sessions
  <1>1. was.gen + 1 \in Nat
    BY DEF Sessions
  <1> QED
    BY <1>1 DEF RevokedRow, Sessions

LEMMA RowTypes ==
    ASSUME NEW cur \in Sessions, NEW was \in Sessions, NEW a \in Accounts, NEW raw \in Raws
    PROVE  /\ LoginRow(cur, was, raw, a) \in Sessions
           /\ [cur EXCEPT !.expired = TRUE] \in Sessions
           /\ [cur EXCEPT !.raw = raw, !.gen = was.gen + 1, !.expired = FALSE] \in Sessions
  <1>1. was.gen + 1 \in Nat /\ cur.gen + 1 \in Nat /\ a.pw \in Nat
        /\ raw \in 0 .. MaxRaw
    BY DEF Sessions, Accounts, Raws
  <1>2. cur.revoked \in BOOLEAN /\ was.revoked \in BOOLEAN
    BY DEF Sessions
  <1>3. LoginRow(cur, was, raw, a) \in Sessions
    <2>1. (IF was.revoked THEN FALSE ELSE cur.revoked) \in BOOLEAN
      BY <1>2
    <2>2. ASSUME NEW b \in BOOLEAN
          PROVE  [cur EXCEPT !.gen = was.gen + 1, !.raw = raw, !.expired = FALSE,
                             !.revoked = b, !.pw = a.pw] \in Sessions
      BY <1>1 DEF Sessions
    <2>3. 1 \in Nat
      OBVIOUS
    <2>4. [exists |-> TRUE, gen |-> 1, raw |-> raw, revoked |-> FALSE,
           expired |-> FALSE, pw |-> a.pw] \in Sessions
      BY <1>1, <2>3 DEF Sessions
    <2> QED
      BY <2>1, <2>2, <2>4 DEF LoginRow
  <1> QED
    BY <1>1, <1>3 DEF Sessions

LEMMA InitType == Init => TypeOK
  <1> SUFFICES ASSUME Init PROVE TypeOK
    OBVIOUS
  <1>1. \A i \in ReqIds : req[i].op = "none"
    BY DEF Init, Idle
  <1>2. \A i \in ReqIds : req[i].op \in {"login"} \cup Revokers => req[i].dev \in Devices
    BY <1>1 DEF Revokers
  <1>3. raced \in BOOLEAN
    BY DEF Init
  <1>4. acct \in Accounts /\ NoSession \in Sessions
    BY SessionConstants DEF Init, Accounts, Sessions, NoSession, SessionConstants
  <1>5. /\ sess \in [Devices -> Sessions] /\ lock \in ReqIds \cup {None}
        /\ access \subseteq AccessTokens /\ web \subseteq WebTokens
        /\ issued \in [Raws -> Devices \cup {None}] /\ redeemed \in [Raws -> Nat]
        /\ req \in [ReqIds -> Requests \cup {Idle}]
    BY <1>4 DEF Init
  <1> QED
    BY <1>2, <1>3, <1>4, <1>5 DEF TypeOK

LEMMA FinishType ==
    ASSUME TypeOK, NEW i \in ReqIds, Finish(i)
    PROVE  /\ req' \in [ReqIds -> Requests \cup {Idle}]
           /\ \A j \in ReqIds : req'[j].op \in {"login"} \cup Revokers => req'[j].dev \in Devices
  <1>1. \A j \in ReqIds : req'[j] = req[j] \/ req'[j].op = "none"
    BY DEF Finish, Idle, TypeOK
  <1> QED
    BY <1>1 DEF Finish, TypeOK, Revokers

(* A running request moves to another phase with another session row.        *)
LEMMA PhaseType ==
    ASSUME TypeOK, NEW i \in ReqIds, req[i] # Idle, NEW ph \in {"locked", "replay"},
           NEW row \in Sessions,
           req' = [req EXCEPT ![i] = [@ EXCEPT !.phase = ph, !.sess = row]]
    PROVE  /\ req' \in [ReqIds -> Requests \cup {Idle}]
           /\ \A j \in ReqIds : req'[j].op \in {"login"} \cup Revokers => req'[j].dev \in Devices
  <1>1. req[i] \in Requests
    BY DEF TypeOK
  <1>2. [req[i] EXCEPT !.phase = ph, !.sess = row] \in Requests
    BY <1>1 DEF Requests
  <1>3. req' \in [ReqIds -> Requests \cup {Idle}]
    BY <1>2 DEF TypeOK
  <1>4. req'[i].op = req[i].op /\ req'[i].dev = req[i].dev
    BY <1>1 DEF Requests, TypeOK
  <1> QED
    BY <1>3, <1>4 DEF TypeOK

LEMMA RevokeAllType ==
    ASSUME TypeOK, RevokeDeviceSessions
    PROVE  sess' \in [Devices -> Sessions]
  <1>1. \A d \in Devices : [sess[d] EXCEPT !.revoked = TRUE, !.gen = sess[d].gen + 1] \in Sessions
    BY RevokedRowType DEF TypeOK
  <1> QED
    BY <1>1 DEF RevokeDeviceSessions, TypeOK

LEMMA TypeStep ==
    ASSUME TypeOK, [Next]_vars
    PROVE  TypeOK'
  <1> USE SessionConstants
  <1>0. acct \in Accounts /\ sess \in [Devices -> Sessions]
    BY DEF TypeOK
  <1>1. ASSUME NEW i \in ReqIds, NEW op \in Logins \cup Revokers \cup AccountOps,
               NEW d \in Devices \cup {None}, NEW r \in 0 .. MaxRaw,
               op \in {"login"} \cup Revokers => d \in Devices,
               Start(i, op, d, r)
        PROVE  TypeOK'
    <2>1. NoSession \in Sessions
      BY DEF NoSession, Sessions, SessionConstants
    <2>2. (IF op \in Revokers THEN sess[d] ELSE NoSession) \in Sessions
      <3>1. op \in Revokers => d \in Devices
        BY <1>1
      <3> QED
        BY <1>0, <2>1, <3>1
    <2>3. [op |-> op, dev |-> d, raw |-> r, phase |-> "read", acct |-> acct,
           sess |-> IF op \in Revokers THEN sess[d] ELSE NoSession] \in Requests
      BY <1>0, <2>2 DEF Requests
    <2>4. req' \in [ReqIds -> Requests \cup {Idle}]
      BY <1>1, <2>3 DEF Start, TypeOK
    <2>5. \A j \in ReqIds : req'[j].op \in {"login"} \cup Revokers => req'[j].dev \in Devices
      BY <1>1 DEF Start, TypeOK
    <2> QED
      BY <1>1, <2>4, <2>5 DEF Start, TypeOK
  <1>2. ASSUME NEW i \in ReqIds, Step(i)
        PROVE  TypeOK'
    <2> DEFINE r == req[i]
    <2>0. r # Idle /\ r \in Requests /\ r.acct \in Accounts /\ r.sess \in Sessions
          /\ (r.op \in {"login"} \cup Revokers => r.dev \in Devices)
      <3>1. r # Idle
        BY <1>2 DEF Step, Running, LoginLock, LoginCommit, WebLogin, RefreshRotate, RefreshLost,
             Revoke, ChangeUserPassword, DisableUser, EnableUser, DeleteUser, LegacyDisableUser,
             WebLogout, Committing, Rollback
      <3>2. r \in Requests
        BY <3>1 DEF TypeOK
      <3> QED
        BY <3>1, <3>2 DEF TypeOK, Requests
    <2>1. CASE LoginLock(i)
      <3>1. r.dev \in Devices
        BY <2>0, <2>1 DEF LoginLock, Running
      <3>2. sess[r.dev] \in Sessions
        BY <3>1, <1>0
      <3> QED
        BY <2>0, <2>1, <3>2, PhaseType DEF LoginLock, TypeOK
    <2>2. CASE LoginCommit(i)
      <3> DEFINE gen == IF r.sess.exists THEN r.sess.gen + 1 ELSE 1
      <3>1. r.dev \in Devices
        BY <2>0, <2>2 DEF LoginCommit, Running
      <3>2. PICK raw \in Raws :
              /\ sess' = [sess EXCEPT ![r.dev] = LoginRow(sess[r.dev], r.sess, raw, r.acct)]
              /\ issued' = [issued EXCEPT ![raw] = r.dev]
              /\ access' = access \cup {[dev |-> r.dev, gen |-> gen, ver |-> r.acct.ver, raw |-> raw,
                                        pw |-> r.acct.pw]}
        BY <2>2 DEF LoginCommit
      <3>3. LoginRow(sess[r.dev], r.sess, raw, r.acct) \in Sessions
        BY <2>0, <3>1, <1>0, RowTypes
      <3>4. gen \in Nat /\ r.acct.ver \in Nat /\ r.acct.pw \in Nat
        BY <2>0 DEF Sessions, Accounts
      <3>5. sess' \in [Devices -> Sessions]
        BY <3>2, <3>3, <1>0
      <3>6. access' \subseteq AccessTokens
        BY <3>1, <3>2, <3>4 DEF AccessTokens, TypeOK
      <3>7. issued' \in [Raws -> Devices \cup {None}]
        BY <3>1, <3>2 DEF TypeOK
      <3> QED
        BY <2>2, <3>5, <3>6, <3>7, FinishType DEF LoginCommit, TypeOK
    <2>3. CASE WebLogin(i)
      <3>1. web' \subseteq WebTokens
        BY <2>0, <2>3 DEF WebLogin, WebTokens, TypeOK, Accounts
      <3> QED
        BY <2>3, <3>1, FinishType DEF WebLogin, TypeOK
    <2>4. CASE RefreshRotate(i)
      <3>1. r.dev \in Devices
        BY <2>0, <2>4 DEF RefreshRotate, Running, Revokers
      <3>2. PICK raw \in Raws :
              /\ sess' = [sess EXCEPT ![r.dev] =
                    [@ EXCEPT !.raw = raw, !.gen = r.sess.gen + 1, !.expired = FALSE]]
              /\ issued' = [issued EXCEPT ![raw] = r.dev]
              /\ access' = access \cup
                    {[dev |-> r.dev, gen |-> r.sess.gen + 1, ver |-> r.acct.ver, raw |-> raw,
                      pw |-> sess[r.dev].pw]}
        BY <2>4 DEF RefreshRotate
      <3>3. [sess[r.dev] EXCEPT !.raw = raw, !.gen = r.sess.gen + 1, !.expired = FALSE] \in Sessions
        BY <2>0, <3>1, <1>0, RowTypes
      <3>4. r.sess.gen + 1 \in Nat /\ r.acct.ver \in Nat /\ sess[r.dev].pw \in Nat
        BY <1>0, <2>0, <3>1 DEF Sessions, Accounts
      <3>5. sess' \in [Devices -> Sessions]
        BY <3>2, <3>3, <1>0
      <3>6. access' \subseteq AccessTokens
        BY <3>1, <3>2, <3>4 DEF AccessTokens, TypeOK
      <3>7. issued' \in [Raws -> Devices \cup {None}]
        BY <3>1, <3>2 DEF TypeOK
      <3>8. redeemed' \in [Raws -> Nat]
        <4>1. redeemed' = [redeemed EXCEPT ![r.raw] = redeemed[r.raw] + 1]
          BY <2>4 DEF RefreshRotate
        <4>2. \A x \in Raws : redeemed[x] + 1 \in Nat
          BY DEF TypeOK
        <4> QED
          BY <4>1, <4>2 DEF TypeOK
      <3> QED
        BY <2>4, <3>5, <3>6, <3>7, <3>8, FinishType DEF RefreshRotate, TypeOK
    <2>5. CASE RefreshLost(i)
      <3>1. r.dev \in Devices
        BY <2>0, <2>5 DEF RefreshLost, Running, Revokers
      <3>2. sess[r.dev] \in Sessions
        BY <3>1, <1>0
      <3> QED
        BY <2>0, <2>5, <3>2, PhaseType DEF RefreshLost, TypeOK
    <2>6. CASE Revoke(i)
      <3>1. r.dev \in Devices
        BY <2>0, <2>6 DEF Revoke, Running, Revokers
      <3>2. RevokedRow(sess[r.dev], r.sess) \in Sessions
        BY <2>0, <3>1, <1>0, RevokedRowType
      <3>3. sess' \in [Devices -> Sessions]
        BY <2>6, <3>2, <1>0 DEF Revoke
      <3> QED
        BY <2>6, <3>3, FinishType DEF Revoke, TypeOK
    <2>7. ASSUME NEW op, Committing(i, op), acct' \in Accounts, sess' \in [Devices -> Sessions]
          PROVE  TypeOK'
      BY <2>7, FinishType DEF Committing, TypeOK
    <2>8. r.acct.ver + 1 \in Nat /\ acct.pw + 1 \in Nat
          /\ acct.enabled \in BOOLEAN /\ r.acct.enabled \in BOOLEAN
      BY <1>0, <2>0 DEF Accounts
    <2>9. CASE ChangeUserPassword(i)
      <3>1. acct' \in Accounts
        BY <1>0, <2>8, <2>9 DEF ChangeUserPassword, Accounts
      <3> QED
        BY <2>7, <2>9, <3>1, RevokeAllType DEF ChangeUserPassword
    <2>10. CASE DisableUser(i)
      <3>1. [acct EXCEPT !.enabled = FALSE, !.ver = r.acct.ver + 1] \in Accounts
        BY <1>0, <2>8 DEF Accounts
      <3> QED
        BY <1>0, <2>7, <2>10, <3>1, RevokeAllType DEF DisableUser
    <2>11. CASE EnableUser(i)
      <3>1. ASSUME NEW b \in BOOLEAN PROVE [acct EXCEPT !.enabled = b] \in Accounts
        BY <1>0 DEF Accounts
      <3> QED
        BY <1>0, <2>7, <2>8, <2>11, <3>1 DEF EnableUser
    <2>12. CASE DeleteUser(i)
      <3>1. acct' \in Accounts
        BY <2>8, <2>12 DEF DeleteUser, Accounts
      <3> QED
        BY <2>7, <2>12, <3>1, RevokeAllType DEF DeleteUser
    <2>13. CASE LegacyDisableUser(i)
      <3>1. ASSUME NEW b \in BOOLEAN
            PROVE  [acct EXCEPT !.ver = r.acct.ver + 1, !.enabled = b] \in Accounts
        BY <1>0, <2>8 DEF Accounts
      <3> QED
        BY <1>0, <2>7, <2>8, <2>13, <3>1 DEF LegacyDisableUser
    <2>14. CASE WebLogout(i)
      <3>1. [acct EXCEPT !.ver = r.acct.ver + 1] \in Accounts
        BY <1>0, <2>8 DEF Accounts
      <3> QED
        BY <1>0, <2>7, <2>14, <3>1 DEF WebLogout
    <2>15. CASE Rollback(i)
      BY <2>15, FinishType DEF Rollback, TypeOK
    <2> QED
      BY <1>2, <2>1, <2>2, <2>3, <2>4, <2>5, <2>6, <2>9, <2>10, <2>11, <2>12, <2>13, <2>14, <2>15
      DEF Step
  <1>3. ASSUME NEW d \in Devices, SessionExpires(d)
        PROVE  TypeOK'
    <2>1. [sess[d] EXCEPT !.expired = TRUE] \in Sessions
      BY <1>0 DEF Sessions
    <2> QED
      BY <1>3, <2>1 DEF SessionExpires, TypeOK
  <1>4. ASSUME UNCHANGED vars PROVE TypeOK'
    BY <1>4 DEF vars, TypeOK
  <1>5. 0 \in 0 .. MaxRaw /\ Raws \subseteq 0 .. MaxRaw
    BY DEF SessionConstants, Raws
  <1> QED
    BY <1>1, <1>2, <1>3, <1>4, <1>5 DEF Next, Logins, Revokers, AccountOps

(* Every behaviour is well typed.                                            *)
THEOREM TypeCorrect == Spec => []TypeOK
  <1>1. Init => TypeOK
    BY InitType
  <1>2. TypeOK /\ [Next]_vars => TypeOK'
    BY TypeStep
  <1> QED
    BY <1>1, <1>2, PTL DEF Spec

-----------------------------------------------------------------------------
(* A login that has passed its second look holds the account row, and the    *)
(* password it verified is still the account's.                              *)
LockedLogin ==
    \A i \in ReqIds :
        req[i] # Idle /\ req[i].phase = "locked" => lock = i /\ req[i].acct.pw = acct.pw

PasswordInv == LiveSessionProvedPassword /\ LockedLogin

LEMMA PasswordStep ==
    ASSUME TypeOK, PasswordInv, [Next]_vars
    PROVE  PasswordInv'
  <1> USE SessionConstants DEF PasswordInv
  <1>0. /\ sess \in [Devices -> Sessions] /\ req \in [ReqIds -> Requests \cup {Idle}]
        /\ \A j \in ReqIds : j # None
    BY DEF TypeOK, SessionConstants
  <1>1. ASSUME NEW i \in ReqIds, NEW op, NEW d, NEW r, Start(i, op, d, r)
        PROVE  PasswordInv'
    <2>1. LiveSessionProvedPassword'
      BY <1>1 DEF Start, LiveSessionProvedPassword
    <2>2. LockedLogin'
      BY <1>0, <1>1 DEF Start, LockedLogin
    <2> QED
      BY <2>1, <2>2
  <1>2. ASSUME NEW i \in ReqIds, Finish(i), UNCHANGED <<acct, lock>>
        PROVE  LockedLogin'
    BY <1>0, <1>2 DEF Finish, LockedLogin
  (* An account operation runs while no login holds the row.                 *)
  <1>3. ASSUME NEW i \in ReqIds, NEW op, Committing(i, op)
        PROVE  LockedLogin'
    <2>1. \A j \in ReqIds : req'[j] # Idle => req'[j] = req[j]
      BY <1>0, <1>3 DEF Committing, Finish
    <2>2. \A j \in ReqIds : ~(req[j] # Idle /\ req[j].phase = "locked")
      BY <1>0, <1>3 DEF Committing, LockedLogin
    <2> QED
      BY <2>1, <2>2 DEF LockedLogin
  <1>4. ASSUME RevokeDeviceSessions
        PROVE  LiveSessionProvedPassword'
    <2> SUFFICES ASSUME NEW d \in Devices, sess'[d].exists, ~sess'[d].revoked PROVE FALSE
      BY DEF LiveSessionProvedPassword
    <2>1. sess[d] \in Sessions
      BY <1>0
    <2>2. CASE sess[d].exists /\ ~sess[d].revoked
      <3>1. sess'[d] = [sess[d] EXCEPT !.revoked = TRUE, !.gen = sess[d].gen + 1]
        BY <1>4, <2>2 DEF RevokeDeviceSessions
      <3> QED
        BY <2>1, <3>1 DEF Sessions
    <2>3. CASE ~(sess[d].exists /\ ~sess[d].revoked)
      <3>1. sess'[d] = sess[d]
        BY <1>4, <2>3 DEF RevokeDeviceSessions
      <3> QED
        BY <2>3, <3>1
    <2> QED
      BY <2>2, <2>3
  <1>5. ASSUME UNCHANGED sess, acct'.pw = acct.pw
        PROVE  LiveSessionProvedPassword'
    BY <1>5 DEF LiveSessionProvedPassword
  <1>6. ASSUME NEW i \in ReqIds, Step(i)
        PROVE  PasswordInv'
    <2> DEFINE r == req[i]
    <2>1. CASE LoginLock(i)
      <3>1. r \in Requests /\ r.acct.pw = acct.pw
        BY <1>0, <2>1 DEF LoginLock, Running, LoginRecheck
      <3>2. req'[i].acct = r.acct
        BY <1>0, <2>1, <3>1 DEF LoginLock, Requests
      <3>3. LockedLogin'
        BY <1>0, <2>1, <3>1, <3>2 DEF LoginLock, LockedLogin
      <3> QED
        BY <1>5, <2>1, <3>3 DEF LoginLock
    <2>2. CASE LoginCommit(i)
      <3>1. r \in Requests /\ lock = i /\ r.acct.pw = acct.pw
        BY <1>0, <2>2 DEF LoginCommit, Running, LockedLogin
      <3>2. LockedLogin'
        BY <1>0, <2>2, <3>1 DEF LoginCommit, Finish, LockedLogin
      <3>3. LiveSessionProvedPassword'
        <4>1. PICK raw \in Raws :
                sess' = [sess EXCEPT ![r.dev] = LoginRow(sess[r.dev], r.sess, raw, r.acct)]
          BY <2>2 DEF LoginCommit
        <4>2. ASSUME NEW d \in Devices, d = r.dev PROVE sess'[d].pw = acct.pw
          <5>1. sess'[d] = LoginRow(sess[d], r.sess, raw, r.acct) /\ sess[d] \in Sessions
            BY <1>0, <4>1, <4>2
          <5> QED
            BY <5>1, <3>1 DEF LoginRow, Sessions
        <4>3. ASSUME NEW d \in Devices, d # r.dev PROVE sess'[d] = sess[d]
          BY <1>0, <4>1, <4>3
        <4>4. acct' = acct
          BY <2>2 DEF LoginCommit
        <4> QED
          BY <4>2, <4>3, <4>4 DEF LiveSessionProvedPassword
      <3> QED
        BY <3>2, <3>3
    <2>3. CASE WebLogin(i)
      BY <1>2, <1>5, <2>3 DEF WebLogin
    <2>4. CASE RefreshRotate(i)
      <3>1. PICK raw \in Raws :
              sess' = [sess EXCEPT ![r.dev] =
                    [@ EXCEPT !.raw = raw, !.gen = r.sess.gen + 1, !.expired = FALSE]]
        BY <2>4 DEF RefreshRotate
      <3>2. \A d \in Devices : /\ sess'[d].exists = sess[d].exists /\ sess'[d].pw = sess[d].pw
                               /\ sess'[d].revoked = sess[d].revoked
        BY <1>0, <3>1 DEF Sessions
      <3>3. LiveSessionProvedPassword'
        BY <2>4, <3>2 DEF RefreshRotate, LiveSessionProvedPassword
      <3> QED
        BY <1>2, <2>4, <3>3 DEF RefreshRotate
    <2>5. CASE RefreshLost(i)
      <3>1. r \in Requests
        BY <1>0, <2>5 DEF RefreshLost, Running
      <3>2. req'[i].phase = "replay"
        BY <1>0, <2>5, <3>1 DEF RefreshLost, Requests
      <3>3. LockedLogin'
        BY <1>0, <2>5, <3>2 DEF RefreshLost, LockedLogin
      <3> QED
        BY <1>5, <2>5, <3>3 DEF RefreshLost
    <2>6. CASE Revoke(i)
      <3>1. ASSUME NEW d \in Devices, d = r.dev PROVE sess'[d].revoked
        <4>1. sess'[d] = RevokedRow(sess[d], r.sess) /\ sess[d] \in Sessions
          BY <1>0, <2>6, <3>1 DEF Revoke
        <4> QED
          BY <4>1 DEF RevokedRow, Sessions
      <3>2. ASSUME NEW d \in Devices, d # r.dev PROVE sess'[d] = sess[d]
        BY <1>0, <2>6, <3>2 DEF Revoke
      <3>3. LiveSessionProvedPassword'
        BY <2>6, <3>1, <3>2 DEF Revoke, LiveSessionProvedPassword
      <3> QED
        BY <1>2, <2>6, <3>3 DEF Revoke
    <2>7. CASE ChangeUserPassword(i)
      BY <1>3, <1>4, <2>7 DEF ChangeUserPassword
    <2>8. CASE DisableUser(i)
      <3>1. UNCHANGED <<acct, sess>> => LiveSessionProvedPassword'
        BY <1>5
      <3> QED
        BY <1>3, <1>4, <2>8, <3>1 DEF DisableUser
    <2>9. CASE EnableUser(i)
      <3>1. acct'.pw = acct.pw
        BY <2>9 DEF EnableUser, TypeOK, Accounts
      <3> QED
        BY <1>3, <1>5, <2>9, <3>1 DEF EnableUser
    <2>10. CASE DeleteUser(i)
      BY <1>3, <1>4, <2>10 DEF DeleteUser
    <2>11. CASE LegacyDisableUser(i)
      <3>1. acct'.pw = acct.pw
        BY <2>11 DEF LegacyDisableUser, TypeOK, Accounts
      <3> QED
        BY <1>3, <1>5, <2>11, <3>1 DEF LegacyDisableUser
    <2>12. CASE WebLogout(i)
      <3>1. acct'.pw = acct.pw
        BY <2>12 DEF WebLogout, TypeOK, Accounts
      <3> QED
        BY <1>3, <1>5, <2>12, <3>1 DEF WebLogout
    <2>13. CASE Rollback(i)
      <3>1. LockedLogin'
        BY <1>0, <2>13 DEF Rollback, Finish, LockedLogin
      <3> QED
        BY <1>5, <2>13, <3>1 DEF Rollback
    <2> QED
      BY <1>6, <2>1, <2>2, <2>3, <2>4, <2>5, <2>6, <2>7, <2>8, <2>9, <2>10, <2>11, <2>12, <2>13
      DEF Step
  <1>7. ASSUME NEW d \in Devices, SessionExpires(d)
        PROVE  PasswordInv'
    <2>1. \A e \in Devices : /\ sess'[e].exists = sess[e].exists /\ sess'[e].pw = sess[e].pw
                             /\ sess'[e].revoked = sess[e].revoked
      BY <1>0, <1>7 DEF SessionExpires, Sessions
    <2> QED
      BY <1>7, <2>1 DEF SessionExpires, LiveSessionProvedPassword, LockedLogin
  <1>8. ASSUME UNCHANGED vars PROVE PasswordInv'
    BY <1>8 DEF vars, LiveSessionProvedPassword, LockedLogin
  <1> QED
    BY <1>1, <1>6, <1>7, <1>8 DEF Next

(* Whatever logins, refreshes, revocations and account operations run side   *)
(* by side, a session that is not revoked was opened with the account's      *)
(* present password.                                                         *)
THEOREM SessionsProvePassword == Spec => []LiveSessionProvedPassword
  <1>1. Init => PasswordInv
    BY DEF Init, PasswordInv, LiveSessionProvedPassword, LockedLogin, NoSession
  <1>2. TypeOK /\ PasswordInv /\ [Next]_vars => PasswordInv'
    BY PasswordStep
  <1>3. PasswordInv => LiveSessionProvedPassword
    BY DEF PasswordInv
  <1> QED
    BY <1>1, <1>2, <1>3, TypeCorrect, PTL DEF Spec

-----------------------------------------------------------------------------
(* Steps that draw no refresh token leave every session its own, and revive  *)
(* none.                                                                     *)
Quiet ==
    /\ UNCHANGED <<issued, redeemed>>
    /\ \A d \in Devices : /\ sess'[d].raw = sess[d].raw
                          /\ sess[d].revoked => sess'[d].revoked

LEMMA QuietSteps ==
    ASSUME TypeOK, [Next]_vars
    PROVE  Quiet \/ \E i \in ReqIds : LoginCommit(i) \/ RefreshRotate(i)
  <1>0. /\ sess \in [Devices -> Sessions] /\ req \in [ReqIds -> Requests \cup {Idle}]
    BY DEF TypeOK
  <1>1. ASSUME UNCHANGED <<sess, issued, redeemed>> PROVE Quiet
    BY <1>1 DEF Quiet
  <1>2. ASSUME RevokeDeviceSessions, UNCHANGED <<issued, redeemed>> PROVE Quiet
    <2> SUFFICES ASSUME NEW d \in Devices
                 PROVE  sess'[d].raw = sess[d].raw /\ (sess[d].revoked => sess'[d].revoked)
      BY <1>2 DEF Quiet
    <2>1. sess'[d] \in {sess[d], [sess[d] EXCEPT !.revoked = TRUE, !.gen = sess[d].gen + 1]}
      BY <1>2 DEF RevokeDeviceSessions
    <2> QED
      BY <1>0, <2>1 DEF Sessions
  <1>3. ASSUME NEW i \in ReqIds, Step(i), ~LoginCommit(i), ~RefreshRotate(i) PROVE Quiet
    <2>1. CASE Revoke(i)
      <3> SUFFICES ASSUME NEW d \in Devices
                   PROVE  sess'[d].raw = sess[d].raw /\ (sess[d].revoked => sess'[d].revoked)
        BY <2>1 DEF Quiet, Revoke
      <3>1. sess'[d] \in {sess[d], RevokedRow(sess[d], req[i].sess)}
        BY <1>0, <2>1 DEF Revoke
      <3> QED
        BY <1>0, <3>1 DEF Sessions, RevokedRow
    <2>2. CASE ChangeUserPassword(i) \/ DisableUser(i) \/ DeleteUser(i)
      BY <1>1, <1>2, <2>2 DEF ChangeUserPassword, DisableUser, DeleteUser, Committing
    <2>3. CASE EnableUser(i) \/ LegacyDisableUser(i) \/ WebLogout(i)
      BY <1>1, <2>3 DEF EnableUser, LegacyDisableUser, WebLogout, Committing
    <2>4. CASE LoginLock(i) \/ WebLogin(i) \/ RefreshLost(i) \/ Rollback(i)
      BY <1>1, <2>4 DEF LoginLock, WebLogin, RefreshLost, Rollback
    <2> QED
      BY <1>3, <2>1, <2>2, <2>3, <2>4 DEF Step
  <1>4. ASSUME NEW d \in Devices, SessionExpires(d) PROVE Quiet
    <2> SUFFICES ASSUME NEW e \in Devices
                 PROVE  sess'[e].raw = sess[e].raw /\ (sess[e].revoked => sess'[e].revoked)
      BY <1>4 DEF Quiet, SessionExpires
    <2>1. sess'[e] \in {sess[e], [sess[e] EXCEPT !.expired = TRUE]}
      BY <1>0, <1>4 DEF SessionExpires
    <2> QED
      BY <1>0, <2>1 DEF Sessions
  <1>5. ASSUME NEW i \in ReqIds, NEW op, NEW d, NEW r, Start(i, op, d, r) PROVE Quiet
    BY <1>1, <1>5 DEF Start
  <1>6. ASSUME UNCHANGED vars PROVE Quiet
    BY <1>1, <1>6 DEF vars
  <1> QED
    BY <1>3, <1>4, <1>5, <1>6 DEF Next

(* A session comes back from revocation only through a login of its device.  *)
THEOREM RevokedForGood == Spec => RevokedUntilLogin
  <1> DEFINE A == \A d \in Devices :
                     sess[d].revoked /\ ~sess'[d].revoked
                        => \E i \in ReqIds : req[i].op = "login" /\ req[i].dev = d /\ req'[i] = Idle
  <1>1. ASSUME TypeOK, [Next]_vars PROVE [A]_vars
    <2>0. sess \in [Devices -> Sessions] /\ req \in [ReqIds -> Requests \cup {Idle}]
      BY <1>1 DEF TypeOK
    <2>1. CASE Quiet
      BY <2>1 DEF Quiet
    <2>2. ASSUME NEW i \in ReqIds, LoginCommit(i) PROVE A
      <3>1. req[i].op = "login" /\ req'[i] = Idle
        BY <2>0, <2>2 DEF LoginCommit, Running, Finish
      <3>2. \A d \in Devices : d # req[i].dev => sess'[d] = sess[d]
        BY <2>0, <2>2 DEF LoginCommit
      <3> QED
        BY <3>1, <3>2
    <2>3. ASSUME NEW i \in ReqIds, RefreshRotate(i) PROVE A
      <3>1. PICK raw : sess' = [sess EXCEPT ![req[i].dev] =
                    [@ EXCEPT !.raw = raw, !.gen = req[i].sess.gen + 1, !.expired = FALSE]]
        BY <2>3 DEF RefreshRotate
      <3>2. \A d \in Devices : sess'[d].revoked = sess[d].revoked
        BY <2>0, <3>1 DEF Sessions
      <3> QED
        BY <3>2
    <2> QED
      BY <1>1, <2>1, <2>2, <2>3, QuietSteps
  <1> QED
    BY <1>1, TypeCorrect, PTL DEF Spec, RevokedUntilLogin

-----------------------------------------------------------------------------
(* A session's refresh token was drawn for its device and is not spent, and  *)
(* a token that was never drawn is not spent either.                         *)
HeldUnspent ==
    \A d \in Devices : sess[d].raw \in Raws => issued[sess[d].raw] = d /\ redeemed[sess[d].raw] = 0

UndrawnUnspent == \A r \in Raws : issued[r] = None => redeemed[r] = 0

TokenInv == RefreshTokenSingleUse /\ HeldUnspent /\ UndrawnUnspent

LEMMA TokenStep ==
    ASSUME TypeOK, TokenInv, [Next]_vars
    PROVE  TokenInv'
  <1> USE DEF TokenInv
  <1>0. /\ sess \in [Devices -> Sessions] /\ req \in [ReqIds -> Requests \cup {Idle}]
        /\ redeemed \in [Raws -> Nat] /\ issued \in [Raws -> Devices \cup {None}]
        /\ None \notin Devices
    BY SessionConstants DEF TypeOK, SessionConstants
  <1>1. CASE Quiet
    <2>1. RefreshTokenSingleUse' /\ UndrawnUnspent'
      BY <1>1 DEF Quiet, RefreshTokenSingleUse, UndrawnUnspent
    <2>2. HeldUnspent'
      BY <1>1 DEF Quiet, HeldUnspent
    <2> QED
      BY <2>1, <2>2
  (* Drawing a token for a device, with what that device held spent or not.  *)
  <1>2. ASSUME NEW d \in Devices, NEW raw \in Raws, issued[raw] = None,
               issued' = [issued EXCEPT ![raw] = d],
               sess'[d].raw = raw, \A e \in Devices \ {d} : sess'[e] = sess[e],
               redeemed' = redeemed \/ (sess[d].raw \in Raws /\
                   redeemed' = [redeemed EXCEPT ![sess[d].raw] = redeemed[sess[d].raw] + 1])
        PROVE  TokenInv'
    <2>1. \A r \in Raws : redeemed'[r] = redeemed[r] \/
               (r = sess[d].raw /\ redeemed[r] = 0 /\ redeemed'[r] = 1)
      BY <1>0, <1>2 DEF HeldUnspent
    <2>2. RefreshTokenSingleUse'
      BY <1>0, <2>1 DEF RefreshTokenSingleUse
    <2>3. sess[d].raw \in Raws => issued[sess[d].raw] = d
      BY DEF HeldUnspent
    <2>4. UndrawnUnspent'
      <3> SUFFICES ASSUME NEW r \in Raws, issued'[r] = None PROVE redeemed'[r] = 0
        BY DEF UndrawnUnspent
      <3>1. issued[r] = None /\ r # raw
        BY <1>0, <1>2
      <3>2. r # sess[d].raw
        BY <1>0, <2>3, <3>1
      <3> QED
        BY <2>1, <3>1, <3>2 DEF UndrawnUnspent
    <2>5. HeldUnspent'
      <3> SUFFICES ASSUME NEW e \in Devices, sess'[e].raw \in Raws
                   PROVE  issued'[sess'[e].raw] = e /\ redeemed'[sess'[e].raw] = 0
        BY DEF HeldUnspent
      <3>1. CASE e = d
        <4>1. redeemed[raw] = 0 /\ raw # sess[d].raw
          BY <1>0, <1>2, <2>3 DEF UndrawnUnspent
        <4> QED
          BY <1>0, <1>2, <2>1, <3>1, <4>1
      <3>2. CASE e # d
        <4>1. sess'[e].raw = sess[e].raw /\ issued[sess[e].raw] = e /\ redeemed[sess[e].raw] = 0
          BY <1>2, <3>2 DEF HeldUnspent
        <4>2. sess[e].raw # raw /\ sess[e].raw # sess[d].raw
          BY <1>0, <1>2, <2>3, <3>2, <4>1
        <4> QED
          BY <1>0, <1>2, <2>1, <4>1, <4>2
      <3> QED
        BY <3>1, <3>2
    <2> QED
      BY <2>2, <2>4, <2>5
  <1>3. ASSUME NEW i \in ReqIds, LoginCommit(i) PROVE TokenInv'
    <2> DEFINE r == req[i]
    <2>1. r.dev \in Devices /\ r \in Requests
      BY <1>3, <1>0 DEF LoginCommit, Running, TypeOK
    <2>2. PICK raw \in Raws :
              /\ NextRaw(raw)
              /\ sess' = [sess EXCEPT ![r.dev] = LoginRow(sess[r.dev], r.sess, raw, r.acct)]
              /\ issued' = [issued EXCEPT ![raw] = r.dev]
      BY <1>3 DEF LoginCommit
    <2>3. LoginRow(sess[r.dev], r.sess, raw, r.acct).raw = raw
      BY <1>0, <2>1 DEF LoginRow, Sessions
    <2>4. sess'[r.dev].raw = raw /\ \A e \in Devices \ {r.dev} : sess'[e] = sess[e]
      BY <1>0, <2>1, <2>2, <2>3
    <2>5. redeemed' = redeemed /\ issued[raw] = None
      BY <1>3, <2>2 DEF LoginCommit, NextRaw
    <2> QED
      BY <1>2, <2>1, <2>2, <2>4, <2>5
  <1>4. ASSUME NEW i \in ReqIds, RefreshRotate(i) PROVE TokenInv'
    <2> DEFINE r == req[i]
    <2>1. r.dev \in Devices /\ r \in Requests
      BY <1>4, <1>0 DEF RefreshRotate, Running, TypeOK, Revokers
    <2>2. PICK raw \in Raws :
              /\ NextRaw(raw)
              /\ sess' = [sess EXCEPT ![r.dev] =
                    [@ EXCEPT !.raw = raw, !.gen = r.sess.gen + 1, !.expired = FALSE]]
              /\ issued' = [issued EXCEPT ![raw] = r.dev]
      BY <1>4 DEF RefreshRotate
    <2>3. sess'[r.dev].raw = raw /\ \A e \in Devices \ {r.dev} : sess'[e] = sess[e]
      BY <1>0, <2>1, <2>2 DEF Sessions
    <2>4. /\ sess[r.dev].raw = r.raw /\ issued[raw] = None
          /\ redeemed' = [redeemed EXCEPT ![r.raw] = redeemed[r.raw] + 1]
      BY <1>4, <2>2 DEF RefreshRotate, RotationMatches, NextRaw
    <2>5. r.raw \notin Raws => redeemed' = redeemed
      BY <1>0, <2>4
    <2> QED
      BY <1>2, <2>1, <2>2, <2>3, <2>4, <2>5
  <1> QED
    BY <1>1, <1>3, <1>4, QuietSteps

(* No refresh token is exchanged twice, however many requests present it.    *)
THEOREM RefreshTokensSingleUse == Spec => []RefreshTokenSingleUse
  <1>1. Init => TokenInv
    BY SessionConstants DEF Init, TokenInv, RefreshTokenSingleUse, HeldUnspent, UndrawnUnspent,
         NoSession, Raws, SessionConstants
  <1>2. TypeOK /\ TokenInv /\ [Next]_vars => TokenInv'
    BY TokenStep
  <1>3. TokenInv => RefreshTokenSingleUse
    BY DEF TokenInv
  <1> QED
    BY <1>1, <1>2, <1>3, TypeCorrect, PTL DEF Spec

-----------------------------------------------------------------------------
(* Token versions.  Unless account operations overlapped, the version only   *)
(* grows and moves with every password, so that who has read or been handed  *)
(* the present version has it with the present password.                     *)
Current(ver, pw) == ver <= acct.ver /\ (ver = acct.ver => pw = acct.pw)

VersionInv ==
    ~raced => /\ \A t \in web : Current(t.ver, t.pw)
              /\ \A t \in access : Current(t.ver, t.pw)
              /\ \A i \in ReqIds : req[i] # Idle => Current(req[i].acct.ver, req[i].acct.pw)

(* Session rows are never deleted, one that has a refresh token exists, and  *)
(* a refresh presents a token.                                               *)
RowsStay ==
    /\ \A d \in Devices : sess[d].raw \in Raws => sess[d].exists
    /\ \A i \in ReqIds : req[i] # Idle =>
          /\ req[i].op = "refresh" => req[i].raw \in Raws
          /\ req[i].dev \in Devices /\ req[i].sess.exists => sess[req[i].dev].exists

LEMMA RowsStep ==
    ASSUME TypeOK, RowsStay, [Next]_vars
    PROVE  RowsStay'
  <1>0. /\ sess \in [Devices -> Sessions] /\ req \in [ReqIds -> Requests \cup {Idle}]
    BY DEF TypeOK
  (* No step takes a row away, and a new refresh token goes into one.        *)
  <1>1. ASSUME \A d \in Devices : sess[d].exists => sess'[d].exists,
               \A d \in Devices : sess'[d].raw # sess[d].raw => sess'[d].exists,
               \A j \in ReqIds : req'[j] # Idle /\ req'[j] # req[j] =>
                   /\ req'[j].op = "refresh" => req'[j].raw \in Raws
                   /\ req'[j].dev \in Devices /\ req'[j].sess.exists => sess'[req'[j].dev].exists
        PROVE  RowsStay'
    BY <1>1 DEF RowsStay
  <1>2. ASSUME NEW i \in ReqIds, Step(i) PROVE RowsStay'
    <2> DEFINE r == req[i]
    <2>0. r # Idle /\ r \in Requests /\ (r.op \in {"login"} \cup Revokers => r.dev \in Devices)
      <3>1. r # Idle
        BY <1>2 DEF Step, Running, LoginLock, LoginCommit, WebLogin, RefreshRotate, RefreshLost,
             Revoke, ChangeUserPassword, DisableUser, EnableUser, DeleteUser, LegacyDisableUser,
             WebLogout, Committing, Rollback
      <3> QED
        BY <3>1 DEF TypeOK
    <2>1. ASSUME Finish(i) PROVE \A j \in ReqIds : req'[j] # Idle => req'[j] = req[j]
      BY <1>0, <2>1 DEF Finish
    <2>2. CASE LoginLock(i) \/ RefreshLost(i)
      <3>1. PICK ph : req' = [req EXCEPT ![i] = [@ EXCEPT !.phase = ph, !.sess = sess[r.dev]]]
        BY <2>2 DEF LoginLock, RefreshLost
      <3>2. /\ req'[i].sess = sess[r.dev] /\ req'[i].dev = r.dev /\ req'[i].op = r.op /\ req'[i].raw = r.raw
            /\ \A j \in ReqIds : j # i => req'[j] = req[j]
        BY <1>0, <2>0, <3>1 DEF Requests
      <3>3. sess' = sess /\ (r.op = "refresh" => r.raw \in Raws)
        BY <2>0, <2>2 DEF LoginLock, RefreshLost, RowsStay
      <3> QED
        BY <1>1, <3>2, <3>3
    <2>3. CASE LoginCommit(i)
      <3>1. r.dev \in Devices /\ (r.sess.exists => sess[r.dev].exists)
        BY <2>0, <2>3 DEF LoginCommit, Running, RowsStay
      <3>2. PICK raw \in Raws :
              sess' = [sess EXCEPT ![r.dev] = LoginRow(sess[r.dev], r.sess, raw, r.acct)]
        BY <2>3 DEF LoginCommit
      <3>3. LoginRow(sess[r.dev], r.sess, raw, r.acct).exists
        BY <1>0, <3>1 DEF LoginRow, Sessions
      <3>4. \A d \in Devices : sess'[d] = sess[d] \/ sess'[d].exists
        BY <1>0, <3>2, <3>3
      <3>5. Finish(i)
        BY <2>3 DEF LoginCommit
      <3> QED
        BY <1>1, <2>1, <3>4, <3>5
    <2>4. CASE RefreshRotate(i)
      <3>1. r.dev \in Devices /\ sess[r.dev].exists
        BY <2>0, <2>4 DEF RefreshRotate, RotationMatches, Running, Revokers, RowsStay
      <3>2. PICK raw \in Raws : sess' = [sess EXCEPT ![r.dev] =
                    [@ EXCEPT !.raw = raw, !.gen = r.sess.gen + 1, !.expired = FALSE]]
        BY <2>4 DEF RefreshRotate
      <3>3. \A d \in Devices : sess'[d] = sess[d] \/ sess'[d].exists
        BY <1>0, <3>1, <3>2 DEF Sessions
      <3>4. Finish(i)
        BY <2>4 DEF RefreshRotate
      <3> QED
        BY <1>1, <2>1, <3>3, <3>4
    <2>5. ASSUME Finish(i),
                 \A d \in Devices : sess'[d].exists = sess[d].exists /\ sess'[d].raw = sess[d].raw
          PROVE  RowsStay'
      BY <1>1, <2>1, <2>5
    <2>6. CASE Revoke(i)
      <3> SUFFICES ASSUME NEW d \in Devices
                   PROVE  sess'[d].exists = sess[d].exists /\ sess'[d].raw = sess[d].raw
        BY <2>5, <2>6 DEF Revoke
      <3>1. sess'[d] = sess[d] \/ sess'[d] = RevokedRow(sess[d], r.sess)
        BY <1>0, <2>6 DEF Revoke
      <3> QED
        BY <1>0, <3>1 DEF Sessions, RevokedRow
    <2>7. CASE ChangeUserPassword(i) \/ DisableUser(i) \/ DeleteUser(i)
      <3>1. Finish(i) /\ (RevokeDeviceSessions \/ sess' = sess)
        BY <2>7 DEF ChangeUserPassword, DisableUser, DeleteUser, Committing
      <3> SUFFICES ASSUME NEW d \in Devices
                   PROVE  sess'[d].exists = sess[d].exists /\ sess'[d].raw = sess[d].raw
        BY <2>5, <3>1
      <3>2. sess'[d] = sess[d] \/ sess'[d] = [sess[d] EXCEPT !.revoked = TRUE, !.gen = sess[d].gen + 1]
        BY <3>1 DEF RevokeDeviceSessions
      <3> QED
        BY <1>0, <3>2 DEF Sessions
    <2>8. CASE EnableUser(i) \/ LegacyDisableUser(i) \/ WebLogout(i) \/ WebLogin(i) \/ Rollback(i)
      <3>1. sess' = sess /\ Finish(i)
        BY <2>8 DEF EnableUser, LegacyDisableUser, WebLogout, WebLogin, Rollback, Committing
      <3> QED
        BY <2>5, <3>1
    <2> QED
      BY <1>2, <2>2, <2>3, <2>4, <2>6, <2>7, <2>8 DEF Step
  <1>3. ASSUME NEW d \in Devices, SessionExpires(d) PROVE RowsStay'
    <2>1. \A e \in Devices : sess'[e].exists = sess[e].exists /\ sess'[e].raw = sess[e].raw
      BY <1>0, <1>3 DEF SessionExpires, Sessions
    <2> QED
      BY <1>1, <1>3, <2>1 DEF SessionExpires
  <1>4. ASSUME NEW i \in ReqIds, NEW op, NEW d, NEW r, op = "refresh" => r \in Raws, Start(i, op, d, r)
        PROVE  RowsStay'
    <2> DEFINE new == [op |-> op, dev |-> d, raw |-> r, phase |-> "read", acct |-> acct,
                       sess |-> IF op \in Revokers THEN sess[d] ELSE NoSession]
    <2>1. new.op = op /\ new.raw = r /\ new.dev = d /\ (new.sess.exists => sess[d].exists)
      BY DEF NoSession
    <2>2. req' = [req EXCEPT ![i] = new] /\ sess' = sess
      BY <1>4 DEF Start
    <2> HIDE DEF new
    <2>3. \A j \in ReqIds : req'[j] # req[j] => req'[j] = new
      BY <1>0, <2>2
    <2> QED
      BY <1>1, <1>4, <2>1, <2>2, <2>3
  <1>5. ASSUME UNCHANGED vars PROVE RowsStay'
    BY <1>1, <1>5 DEF vars
  <1> QED
    BY <1>2, <1>3, <1>4, <1>5 DEF Next, AccountOps

(* The steps that leave the account as it is hand out what was read before,  *)
(* or what the session has proved.                                           *)
LEMMA VersionKept ==
    ASSUME TypeOK, VersionInv, acct' = acct, raced' = raced,
           ~raced => /\ \A t \in web' : t \in web \/ Current(t.ver, t.pw)
                     /\ \A t \in access' : t \in access \/ Current(t.ver, t.pw)
                     /\ \A j \in ReqIds : req'[j] # Idle /\ req'[j] # req[j]
                                            => Current(req'[j].acct.ver, req'[j].acct.pw)
    PROVE  VersionInv'
  <1> SUFFICES ASSUME ~raced
               PROVE  /\ \A t \in web' : Current(t.ver, t.pw)
                      /\ \A t \in access' : Current(t.ver, t.pw)
                      /\ \A i \in ReqIds : req'[i] # Idle => Current(req'[i].acct.ver, req'[i].acct.pw)
    BY DEF VersionInv, Current
  <1> QED
    BY DEF VersionInv

LEMMA VersionStart ==
    ASSUME TypeOK, VersionInv, NEW i \in ReqIds, NEW op, NEW d, NEW r, Start(i, op, d, r)
    PROVE  VersionInv'
  <1> DEFINE new == [op |-> op, dev |-> d, raw |-> r, phase |-> "read", acct |-> acct,
                     sess |-> IF op \in Revokers THEN sess[d] ELSE NoSession]
  <1>1. new.acct = acct
    OBVIOUS
  <1>2. req' = [req EXCEPT ![i] = new] /\ UNCHANGED <<acct, web, access, raced>>
    BY DEF Start
  <1> HIDE DEF new
  <1>3. \A j \in ReqIds : req'[j] # req[j] => req'[j] = new
    BY <1>2 DEF TypeOK
  <1>4. Current(acct.ver, acct.pw)
    BY DEF Current, TypeOK, Accounts
  <1> QED
    BY <1>1, <1>2, <1>3, <1>4, VersionKept

(* An account operation that moved the version moved it on by one.           *)
LEMMA VersionCommit ==
    ASSUME TypeOK, VersionInv, NEW i \in ReqIds, NEW op, Committing(i, op),
           acct' \in Accounts,
           \/ acct'.ver = acct.ver /\ acct'.pw = acct.pw
           \/ MovesVersion(req[i]) /\ acct'.ver = req[i].acct.ver + 1
    PROVE  VersionInv'
  <1>1. /\ raced' = (raced \/ (MovesVersion(req[i]) /\ req[i].acct.ver # acct.ver))
        /\ UNCHANGED <<web, access>> /\ Finish(i)
    BY DEF Committing
  <1>2. \A j \in ReqIds : req'[j] # Idle => req'[j] = req[j]
    BY <1>1 DEF Finish, TypeOK
  <1> SUFFICES ASSUME ~raced'
               PROVE  /\ \A t \in web : Current(t.ver, t.pw)'
                      /\ \A t \in access : Current(t.ver, t.pw)'
                      /\ \A j \in ReqIds : req[j] # Idle
                            => req[j].acct.ver <= acct'.ver
                               /\ (req[j].acct.ver = acct'.ver => req[j].acct.pw = acct'.pw)
    BY <1>1, <1>2 DEF VersionInv, Current
  <1>3. ~raced /\ (MovesVersion(req[i]) => req[i].acct.ver = acct.ver)
    BY <1>1
  <1>4. acct.ver \in Nat /\ acct'.ver \in Nat
    BY DEF TypeOK, Accounts
  <1>5. \/ acct'.ver = acct.ver /\ acct'.pw = acct.pw
        \/ acct'.ver = acct.ver + 1
    BY <1>3
  <1>6. ASSUME NEW ver \in Nat, NEW pw, Current(ver, pw)
        PROVE  ver <= acct'.ver /\ (ver = acct'.ver => pw = acct'.pw)
    BY <1>4, <1>5, <1>6 DEF Current
  <1>7. /\ \A t \in web : t.ver \in Nat
        /\ \A t \in access : t.ver \in Nat
        /\ \A j \in ReqIds : req[j] # Idle => req[j].acct.ver \in Nat
    BY DEF TypeOK, WebTokens, AccessTokens, Requests, Accounts
  <1> QED
    BY <1>3, <1>6, <1>7 DEF VersionInv, Current

LEMMA VersionStep ==
    ASSUME TypeOK, TypeOK', PasswordInv, RowsStay, VersionInv, [Next]_vars
    PROVE  VersionInv'
  <1>0. /\ sess \in [Devices -> Sessions] /\ req \in [ReqIds -> Requests \cup {Idle}]
        /\ acct \in Accounts /\ acct' \in Accounts
    BY DEF TypeOK
  <1>1. ASSUME NEW i \in ReqIds, Step(i) PROVE VersionInv'
    <2> DEFINE r == req[i]
    <2>0. r # Idle /\ r \in Requests /\ (r.op \in {"login"} \cup Revokers => r.dev \in Devices)
      <3>1. r # Idle
        BY <1>1 DEF Step, Running, LoginLock, LoginCommit, WebLogin, RefreshRotate, RefreshLost,
             Revoke, ChangeUserPassword, DisableUser, EnableUser, DeleteUser, LegacyDisableUser,
             WebLogout, Committing, Rollback
      <3> QED
        BY <3>1 DEF TypeOK
    <2>1. ~raced => Current(r.acct.ver, r.acct.pw)
      BY <2>0 DEF VersionInv
    <2>2. ASSUME Finish(i) PROVE \A j \in ReqIds : req'[j] # Idle => req'[j] = req[j]
      BY <1>0, <2>2 DEF Finish
    <2>3. CASE LoginLock(i) \/ RefreshLost(i)
      <3>1. PICK ph, row : req' = [req EXCEPT ![i] = [@ EXCEPT !.phase = ph, !.sess = row]]
        BY <2>3 DEF LoginLock, RefreshLost
      <3>2. req'[i].acct = r.acct /\ \A j \in ReqIds : j # i => req'[j] = req[j]
        BY <1>0, <2>0, <3>1 DEF Requests
      <3>3. UNCHANGED <<acct, web, access, raced>>
        BY <2>3 DEF LoginLock, RefreshLost
      <3> QED
        BY <2>1, <3>2, <3>3, VersionKept
    <2>4. CASE LoginCommit(i)
      <3>1. PICK gen, raw : access' = access \cup {[dev |-> r.dev, gen |-> gen, ver |-> r.acct.ver,
                                                    raw |-> raw, pw |-> r.acct.pw]}
        BY <2>4 DEF LoginCommit
      <3>2. UNCHANGED <<acct, web, raced>> /\ Finish(i)
        BY <2>4 DEF LoginCommit
      <3> QED
        BY <2>1, <2>2, <3>1, <3>2, VersionKept
    <2>5. CASE WebLogin(i)
      <3>1. web' = web \cup {[ver |-> r.acct.ver, pw |-> r.acct.pw]}
        BY <2>5 DEF WebLogin
      <3>2. UNCHANGED <<acct, access, raced>> /\ Finish(i)
        BY <2>5 DEF WebLogin
      <3> QED
        BY <2>1, <2>2, <3>1, <3>2, VersionKept
    <2>6. CASE RefreshRotate(i)
      <3>1. PICK gen, raw : access' = access \cup {[dev |-> r.dev, gen |-> gen, ver |-> r.acct.ver,
                                                    raw |-> raw, pw |-> sess[r.dev].pw]}
        BY <2>6 DEF RefreshRotate
      <3>2. UNCHANGED <<acct, web, raced>> /\ Finish(i)
        BY <2>6 DEF RefreshRotate
      <3>3. r.dev \in Devices /\ ~sess[r.dev].revoked /\ sess[r.dev].raw = r.raw /\ r.raw \in Raws
        BY <2>0, <2>6 DEF RefreshRotate, RotationMatches, Running, Revokers, RowsStay
      <3>4. ~raced => Current(r.acct.ver, sess[r.dev].pw)
        BY <2>1, <3>3 DEF Current, PasswordInv, LiveSessionProvedPassword, RowsStay
      <3> QED
        BY <2>2, <3>1, <3>2, <3>4, VersionKept
    <2>7. CASE Revoke(i) \/ Rollback(i)
      <3>1. UNCHANGED <<acct, web, access, raced>> /\ Finish(i)
        BY <2>7 DEF Revoke, Rollback
      <3> QED
        BY <2>2, <3>1, VersionKept
    <2>8. CASE ChangeUserPassword(i) \/ DeleteUser(i) \/ LegacyDisableUser(i) \/ WebLogout(i)
      <3>1. acct'.ver = r.acct.ver + 1
        <4> DEFINE on == IF r.acct.enabled THEN FALSE ELSE acct.enabled
        <4>1. \/ acct' = [acct EXCEPT !.pw = acct.pw + 1, !.ver = r.acct.ver + 1]
              \/ acct' = [pw |-> acct.pw + 1, ver |-> r.acct.ver + 1, deleted |-> TRUE, enabled |-> on]
              \/ acct' = [acct EXCEPT !.ver = r.acct.ver + 1, !.enabled = on]
              \/ acct' = [acct EXCEPT !.ver = r.acct.ver + 1]
          BY <2>8 DEF ChangeUserPassword, DeleteUser, LegacyDisableUser, WebLogout
        <4> HIDE DEF on
        <4>2. CASE acct' = [pw |-> acct.pw + 1, ver |-> r.acct.ver + 1, deleted |-> TRUE, enabled |-> on]
          BY <4>2
        <4>3. CASE acct' = [acct EXCEPT !.pw = acct.pw + 1, !.ver = r.acct.ver + 1]
          BY <1>0, <4>3 DEF Accounts
        <4>4. CASE acct' = [acct EXCEPT !.ver = r.acct.ver + 1, !.enabled = on]
          BY <1>0, <4>4 DEF Accounts
        <4>5. CASE acct' = [acct EXCEPT !.ver = r.acct.ver + 1]
          BY <1>0, <4>5 DEF Accounts
        <4> QED
          BY <4>1, <4>2, <4>3, <4>4, <4>5
      <3>2. PICK op \in {"password", "delete", "legacy_disable", "web_logout"} : Committing(i, op)
        BY <2>8 DEF ChangeUserPassword, DeleteUser, LegacyDisableUser, WebLogout
      <3>3. MovesVersion(r)
        BY <3>2 DEF Committing, Running, MovesVersion
      <3> QED
        BY <1>0, <3>1, <3>2, <3>3, VersionCommit
    <2>9. CASE EnableUser(i)
      <3>1. acct'.ver = acct.ver /\ acct'.pw = acct.pw
        <4> DEFINE on == IF r.acct.enabled THEN acct.enabled ELSE TRUE
        <4>1. acct' = [acct EXCEPT !.enabled = on]
          BY <2>9 DEF EnableUser
        <4> HIDE DEF on
        <4> QED
          BY <1>0, <4>1 DEF Accounts
      <3> QED
        BY <1>0, <2>9, <3>1, VersionCommit DEF EnableUser
    <2>10. CASE DisableUser(i)
      <3>1. CASE r.acct.enabled
        <4>1. acct'.ver = r.acct.ver + 1
          BY <1>0, <2>10, <3>1 DEF DisableUser, Accounts
        <4>2. MovesVersion(r) /\ Committing(i, "disable")
          BY <2>10, <3>1 DEF DisableUser, MovesVersion, Committing, Running
        <4> QED
          BY <1>0, <4>1, <4>2, VersionCommit
      <3>2. CASE ~r.acct.enabled
        BY <1>0, <2>10, <3>2, VersionCommit DEF DisableUser
      <3> QED
        BY <3>1, <3>2
    <2> QED
      BY <1>1, <2>3, <2>4, <2>5, <2>6, <2>7, <2>8, <2>9, <2>10 DEF Step
  <1>2. ASSUME NEW d \in Devices, SessionExpires(d) PROVE VersionInv'
    BY <1>2, VersionKept DEF SessionExpires
  <1>3. ASSUME UNCHANGED vars PROVE VersionInv'
    BY <1>3, VersionKept DEF vars
  <1> QED
    BY <1>1, <1>2, <1>3, VersionStart DEF Next

(* Unless two account operations overlapped, every token that the server     *)
(* accepts was handed out for the account's present password: a password     *)
(* change, a deletion, a login or a refresh in between does not matter.      *)
THEOREM TokensDie == Spec => []TokensEndWithPassword
  <1>1. Init => PasswordInv /\ RowsStay /\ VersionInv
    BY DEF Init, PasswordInv, LiveSessionProvedPassword, LockedLogin, NoSession, RowsStay, Raws, VersionInv
  <1>2. TypeOK /\ TypeOK' /\ PasswordInv /\ RowsStay /\ VersionInv /\ [Next]_vars
           => (PasswordInv /\ RowsStay /\ VersionInv)'
    BY PasswordStep, RowsStep, VersionStep
  <1>3. VersionInv => TokensEndWithPassword
    BY DEF VersionInv, TokensEndWithPassword, Current, WebAccepted, NativeAccepted
  <1> QED
    BY <1>1, <1>2, <1>3, TypeCorrect, PTL DEF Spec
=============================================================================
