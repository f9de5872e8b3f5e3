---------------------------- MODULE NativeSession ----------------------------
(***************************************************************************)
(* The sign-in state of one member account (cloudbrowser/app.py): its      *)
(* password and token version, one device session per device with its      *)
(* token generation and refresh token, and the access tokens handed out.   *)
(*                                                                         *)
(* A request reads its rows in one step and writes in another.  The ORM    *)
(* writes the columns it changed, with values computed from what it read:  *)
(* "token_generation += 1" is a read-modify-write.  Two statements are     *)
(* computed by the database instead, the conditional rotation of           *)
(* native_refresh and the bulk revocation of revoke_device_sessions.       *)
(* native_login locks the account row before it touches the session.       *)
(*                                                                         *)
(* Passwords are numbered by their salted hash, refresh tokens by the      *)
(* order in which they were drawn.                                         *)
(***************************************************************************)
EXTENDS Integers, FiniteSets

CONSTANTS
    Devices,
    ReqIds,     \* worker slots: how many requests run at once
    None,
    MaxRaw,     \* bound on refresh tokens drawn (successful logins and rotations)
    MaxVersion, \* bound on token versions
    MaxWeb,     \* bound on web tokens handed out
    Ops         \* the operations this instance exercises

ASSUME SessionConstants ==
    /\ None \notin Devices \cup ReqIds
    /\ MaxRaw \in Nat /\ MaxVersion \in Nat \ {0} /\ MaxWeb \in Nat

VARIABLES
    acct,       \* the users row: password_hash, token_version, enabled, deleted_at
    sess,       \* device_sessions
    lock,       \* the request that holds the users row FOR UPDATE
    access,     \* native access tokens handed out
    web,        \* web tokens handed out
    issued,     \* refresh tokens drawn so far: the device of each
    redeemed,   \* history: how often each refresh token was rotated
    raced,      \* history: an account operation wrote a token version that it
                \* computed from one that was no longer the account's
    req         \* requests in flight

vars == <<acct, sess, lock, access, web, issued, redeemed, raced, req>>

-----------------------------------------------------------------------------
Raws == 1 .. MaxRaw

Accounts == [pw : Nat, ver : Nat, enabled : BOOLEAN, deleted : BOOLEAN]

(* A device_sessions row; raw 0 and exists = FALSE before the first login.   *)
(* expired stands for expires_at <= now.  pw is history: the password the    *)
(* latest login proved.                                                      *)
Sessions == [exists : BOOLEAN, gen : Nat, raw : 0 .. MaxRaw, revoked : BOOLEAN,
             expired : BOOLEAN, pw : Nat]

(* Claims of a native access token, the refresh token it came with, and the  *)
(* password that was proved for its session.                                 *)
AccessTokens == [dev : Devices, gen : Nat, ver : Nat, raw : Raws, pw : Nat]

(* Claims of a web token, and the password that was proved for it.           *)
WebTokens == [ver : Nat, pw : Nat]

Logins == {"login", "web_login"}
Revokers == {"logout", "refresh"}
AccountOps == {"password", "disable", "enable", "delete", "legacy_disable", "web_logout"}

(* A request: what it does, to which device, with which refresh token, and   *)
(* the rows it read.  phase: "read" before its writing step, "locked" for a  *)
(* login that holds the account, "replay" for a refresh that lost its race.  *)
Requests == [op : Logins \cup Revokers \cup AccountOps, dev : Devices \cup {None},
             raw : 0 .. MaxRaw, phase : {"read", "locked", "replay"},
             acct : Accounts, sess : Sessions]
Idle == [op |-> "none"]

NoSession == [exists |-> FALSE, gen |-> 0, raw |-> 0, revoked |-> FALSE,
              expired |-> FALSE, pw |-> 0]

TypeOK ==
    /\ acct \in Accounts
    /\ sess \in [Devices -> Sessions]
    /\ lock \in ReqIds \cup {None}
    /\ access \subseteq AccessTokens
    /\ web \subseteq WebTokens
    /\ issued \in [Raws -> Devices \cup {None}]
    /\ redeemed \in [Raws -> Nat]
    /\ raced \in BOOLEAN
    /\ req \in [ReqIds -> Requests \cup {Idle}]
    /\ \A i \in ReqIds : req[i].op \in {"login"} \cup Revokers => req[i].dev \in Devices

Init ==
    /\ acct = [pw |-> 1, ver |-> 1, enabled |-> TRUE, deleted |-> FALSE]
    /\ sess = [d \in Devices |-> NoSession]
    /\ lock = None
    /\ access = {} /\ web = {}
    /\ issued = [r \in Raws |-> None]
    /\ redeemed = [r \in Raws |-> 0]
    /\ raced = FALSE
    /\ req = [i \in ReqIds |-> Idle]

-----------------------------------------------------------------------------
\* native_access_identity, for a token within its 15 minutes.
NativeAccepted(t) ==
    LET s == sess[t.dev]
    IN  /\ s.exists /\ s.gen = t.gen /\ ~s.revoked /\ ~s.expired
        /\ acct.enabled /\ ~acct.deleted /\ acct.ver = t.ver

\* bearer_user, for a web token.
WebAccepted(t) == acct.enabled /\ ~acct.deleted /\ acct.ver = t.ver

Authenticated == (\E t \in access : NativeAccepted(t)) \/ (\E t \in web : WebAccepted(t))

\* secrets.token_urlsafe: never a value seen before.
NextRaw(r) == issued[r] = None /\ \A other \in Raws : other < r => issued[other] # None

\* The caller's rights, checked on the rows the request starts from:
\* member_user's target for an administrator, the caller's own token else.
MayStart(op, d, r) ==
    CASE op \in Logins -> acct.enabled /\ ~acct.deleted
      [] op = "refresh" -> r \in Raws /\ issued[r] = d
      [] op = "logout" -> sess[d].exists /\ \E t \in access : NativeAccepted(t)
      [] op = "web_logout" -> Authenticated
      [] op = "legacy_disable" -> TRUE
      [] OTHER -> ~acct.deleted

\* The bounds: what the request would add to is not yet at its limit.
InBounds(op) ==
    /\ op \in AccountOps \ {"enable"} => acct.ver < MaxVersion
    /\ op = "web_login" => Cardinality(web) < MaxWeb

\* The request's first reads.
Start(i, op, d, r) ==
    /\ req[i] = Idle /\ op \in Ops /\ MayStart(op, d, r) /\ InBounds(op)
    /\ req' = [req EXCEPT ![i] = [op |-> op, dev |-> d, raw |-> r, phase |-> "read", acct |-> acct,
                                  sess |-> IF op \in Revokers THEN sess[d] ELSE NoSession]]
    /\ UNCHANGED <<acct, sess, lock, access, web, issued, redeemed, raced>>

Running(i, op, phase) == req[i] # Idle /\ req[i].op = op /\ req[i].phase = phase
Finish(i) == req' = [req EXCEPT ![i] = Idle]

\* The request fails, or the server stops, before its commit.
Rollback(i) ==
    /\ req[i] # Idle
    /\ lock' = IF lock = i THEN None ELSE lock
    /\ Finish(i)
    /\ UNCHANGED <<acct, sess, access, web, issued, redeemed, raced>>

-----------------------------------------------------------------------------
(* Logging in.                                                               *)

\* Mutant of LoginRecheck: the verified hash and version are not compared.
LoginRecheckEnabledOnly(r) == acct.enabled /\ ~acct.deleted

\* native_login's second look at the account, after the slow verification: it
\* must be the very row whose password was verified.
LoginRecheck(r) ==
    /\ acct.enabled /\ ~acct.deleted
    /\ acct.pw = r.acct.pw /\ acct.ver = r.acct.ver

\* native_login: SELECT ... FOR UPDATE of the account, then read the session.
LoginLock(i) ==
    /\ Running(i, "login", "read") /\ lock = None
    /\ LoginRecheck(req[i])
    /\ lock' = i
    /\ req' = [req EXCEPT ![i] = [@ EXCEPT !.phase = "locked", !.sess = sess[req[i].dev]]]
    /\ UNCHANGED <<acct, sess, access, web, issued, redeemed, raced>>

\* Mutant of LoginRow: it stores the number of the next refresh token.
LoginRowNextRaw(cur, was, raw, a) ==
    [exists |-> TRUE, gen |-> was.gen + 1, raw |-> raw + 1, revoked |-> FALSE,
     expired |-> FALSE, pw |-> a.pw]

\* The row a login writes: over the current row cur, with what it read in was.
LoginRow(cur, was, raw, a) ==
    IF was.exists
    THEN [cur EXCEPT !.gen = was.gen + 1, !.raw = raw, !.expired = FALSE,
                     !.revoked = IF was.revoked THEN FALSE ELSE cur.revoked,
                     !.pw = a.pw]
    ELSE [exists |-> TRUE, gen |-> 1, raw |-> raw, revoked |-> FALSE,
          expired |-> FALSE, pw |-> a.pw]

\* native_login: write the session, commit, answer with the token pair.
LoginCommit(i) ==
    LET r == req[i]
        d == r.dev
        gen == IF r.sess.exists THEN r.sess.gen + 1 ELSE 1
    IN  /\ Running(i, "login", "locked")
        /\ \E raw \in Raws :
              /\ NextRaw(raw)
              /\ sess' = [sess EXCEPT ![d] = LoginRow(sess[d], r.sess, raw, r.acct)]
              /\ issued' = [issued EXCEPT ![raw] = d]
              /\ access' = access \cup {[dev |-> d, gen |-> gen, ver |-> r.acct.ver, raw |-> raw,
                                        pw |-> r.acct.pw]}
        /\ lock' = None /\ Finish(i)
        /\ UNCHANGED <<acct, web, redeemed, raced>>

\* login: the web token carries the version read before the verification.
WebLogin(i) ==
    /\ Running(i, "web_login", "read")
    /\ web' = web \cup {[ver |-> req[i].acct.ver, pw |-> req[i].acct.pw]}
    /\ Finish(i)
    /\ UNCHANGED <<acct, sess, lock, access, issued, redeemed, raced>>

-----------------------------------------------------------------------------
(* Refreshing and revoking.                                                  *)

\* native_refresh, once the presented token matched the row it read and the
\* account and session were good.
RefreshAllowed(r) ==
    /\ r.sess.raw = r.raw /\ ~r.sess.revoked /\ ~r.sess.expired
    /\ r.acct.enabled /\ ~r.acct.deleted

\* Mutant of RotationMatches: the row is matched by its id alone.
RotationMatchesId(r, cur) == ~cur.revoked

\* The WHERE clause of the rotation, evaluated on the current row.
RotationMatches(r, cur) == cur.raw = r.raw /\ cur.gen = r.sess.gen /\ ~cur.revoked

\* Mutant of RefreshRotate: matched by token, and it clears revoked_at.
RefreshRotateReviving(i) ==
    LET d == req[i].dev
    IN  /\ Running(i, "refresh", "read") /\ RefreshAllowed(req[i])
        /\ sess[d].raw = req[i].raw
        /\ \E raw \in Raws :
              /\ NextRaw(raw)
              /\ sess' = [sess EXCEPT ![d] =
                    [@ EXCEPT !.raw = raw, !.gen = @ + 1, !.revoked = FALSE]]
              /\ issued' = [issued EXCEPT ![raw] = d]
        /\ redeemed' = [redeemed EXCEPT ![req[i].raw] = @ + 1]
        /\ Finish(i)
        /\ UNCHANGED <<acct, lock, access, web, raced>>

RefreshRotate(i) ==
    LET r == req[i]
        d == r.dev
    IN  /\ Running(i, "refresh", "read") /\ RefreshAllowed(r)
        /\ RotationMatches(r, sess[d])
        /\ \E raw \in Raws :
              /\ NextRaw(raw)
              /\ sess' = [sess EXCEPT ![d] =
                    [@ EXCEPT !.raw = raw, !.gen = r.sess.gen + 1, !.expired = FALSE]]
              /\ issued' = [issued EXCEPT ![raw] = d]
              /\ access' = access \cup
                    {[dev |-> d, gen |-> r.sess.gen + 1, ver |-> r.acct.ver, raw |-> raw,
                      pw |-> sess[d].pw]}
        /\ redeemed' = [redeemed EXCEPT ![r.raw] = @ + 1]
        /\ Finish(i)
        /\ UNCHANGED <<acct, lock, web, raced>>

\* rowcount != 1: roll back and read the session again.
RefreshLost(i) ==
    LET r == req[i]
    IN  /\ Running(i, "refresh", "read") /\ RefreshAllowed(r)
        /\ ~RotationMatches(r, sess[r.dev])
        /\ req' = [req EXCEPT ![i] = [@ EXCEPT !.phase = "replay", !.sess = sess[r.dev]]]
        /\ UNCHANGED <<acct, sess, lock, access, web, issued, redeemed, raced>>

\* The row a revocation writes over cur, having read was.
RevokedRow(cur, was) == [cur EXCEPT !.revoked = TRUE, !.gen = was.gen + 1]

\* native_logout, revoke_native_device, and native_refresh taking a mismatch or
\* a lost race for a replay: revoke the session, unless it was read revoked.
Revoke(i) ==
    LET r == req[i]
    IN  /\ \/ Running(i, "logout", "read")
           \/ Running(i, "refresh", "read") /\ r.sess.raw # r.raw
           \/ Running(i, "refresh", "replay")
        /\ ~r.sess.revoked
        /\ sess' = [sess EXCEPT ![r.dev] = RevokedRow(sess[r.dev], r.sess)]
        /\ Finish(i)
        /\ UNCHANGED <<acct, lock, access, web, issued, redeemed, raced>>

-----------------------------------------------------------------------------
(* Account operations.  Each commits a new account row computed from the one *)
(* it read, once no login holds the row.                                     *)

\* revoke_device_sessions: one UPDATE over the rows as they are.
RevokeDeviceSessions ==
    sess' = [d \in Devices |->
               IF sess[d].exists /\ ~sess[d].revoked
               THEN [sess[d] EXCEPT !.revoked = TRUE, !.gen = sess[d].gen + 1]
               ELSE sess[d]]

\* Whether the operation writes token_version.
MovesVersion(r) == r.op # "enable" /\ (r.op = "disable" => r.acct.enabled)

Committing(i, op) ==
    /\ Running(i, op, "read") /\ lock = None
    /\ raced' = (raced \/ (MovesVersion(req[i]) /\ req[i].acct.ver # acct.ver))
    /\ Finish(i)
    /\ UNCHANGED <<lock, access, web, issued, redeemed>>

\* Mutant of ChangeUserPassword: the token version stays.
ChangeUserPasswordOnly(i) ==
    /\ Committing(i, "password")
    /\ acct' = [acct EXCEPT !.pw = acct.pw + 1]
    /\ RevokeDeviceSessions

\* change_user_password.
ChangeUserPassword(i) ==
    /\ Committing(i, "password")
    /\ acct' = [acct EXCEPT !.pw = acct.pw + 1, !.ver = req[i].acct.ver + 1]
    /\ RevokeDeviceSessions

\* set_user_enabled(FALSE): the token version moves and the sessions go only
\* if the account was read enabled.
DisableUser(i) ==
    /\ Committing(i, "disable")
    /\ IF req[i].acct.enabled
       THEN /\ acct' = [acct EXCEPT !.enabled = FALSE, !.ver = req[i].acct.ver + 1]
            /\ RevokeDeviceSessions
       ELSE UNCHANGED <<acct, sess>>

\* set_user_enabled(TRUE).
EnableUser(i) ==
    /\ Committing(i, "enable")
    /\ acct' = [acct EXCEPT !.enabled = IF req[i].acct.enabled THEN acct.enabled ELSE TRUE]
    /\ UNCHANGED sess

\* delete_user: the password becomes unusable.
DeleteUser(i) ==
    /\ Committing(i, "delete")
    /\ acct' = [pw |-> acct.pw + 1, ver |-> req[i].acct.ver + 1, deleted |-> TRUE,
                enabled |-> IF req[i].acct.enabled THEN FALSE ELSE acct.enabled]
    /\ RevokeDeviceSessions

\* disable_user, the older endpoint: the device sessions are left as they are.
LegacyDisableUser(i) ==
    /\ Committing(i, "legacy_disable")
    /\ acct' = [acct EXCEPT !.ver = req[i].acct.ver + 1,
                            !.enabled = IF req[i].acct.enabled THEN FALSE ELSE acct.enabled]
    /\ UNCHANGED sess

\* logout.
WebLogout(i) ==
    /\ Committing(i, "web_logout")
    /\ acct' = [acct EXCEPT !.ver = req[i].acct.ver + 1]
    /\ UNCHANGED sess

\* Thirty days without a login or a refresh.
SessionExpires(d) ==
    /\ "expire" \in Ops /\ sess[d].exists /\ ~sess[d].expired
    /\ sess' = [sess EXCEPT ![d] = [@ EXCEPT !.expired = TRUE]]
    /\ UNCHANGED <<acct, lock, access, web, issued, redeemed, raced, req>>

Step(i) ==
    \/ LoginLock(i) \/ LoginCommit(i) \/ WebLogin(i)
    \/ RefreshRotate(i) \/ RefreshLost(i) \/ Revoke(i)
    \/ ChangeUserPassword(i) \/ DisableUser(i) \/ EnableUser(i) \/ DeleteUser(i)
    \/ LegacyDisableUser(i) \/ WebLogout(i)
    \/ Rollback(i)

Next ==
    \/ \E i \in ReqIds :
          \/ \E op \in {"login", "logout"}, d \in Devices : Start(i, op, d, 0)
          \/ \E r \in Raws, d \in Devices : Start(i, "refresh", d, r)
          \/ \E op \in AccountOps \cup {"web_login"} : Start(i, op, None, 0)
          \/ Step(i)
    \/ \E d \in Devices : SessionExpires(d)

Spec == Init /\ [][Next]_vars

-----------------------------------------------------------------------------
(* What the sign-in state promises.                                          *)

(* Every device session that is not revoked was opened by someone who proved *)
(* the account's present password: a login whose verification is overtaken   *)
(* by a password change, a deactivation or a deletion leaves no session.     *)
LiveSessionProvedPassword ==
    \A d \in Devices : sess[d].exists /\ ~sess[d].revoked => sess[d].pw = acct.pw

(* No access token, of the web or of a device, outlives the password that    *)
(* was proved for it, as long as no account operation overlapped another:    *)
(* two that read the same token_version write the same next one, and a token *)
(* handed out between them carries it.                                       *)
TokensEndWithPassword ==
    ~raced => /\ \A t \in web : WebAccepted(t) => t.pw = acct.pw
              /\ \A t \in access : NativeAccepted(t) => t.pw = acct.pw

(* A refresh token is exchanged for a new one at most once, however many     *)
(* requests present it at the same moment.                                   *)
RefreshTokenSingleUse == \A r \in Raws : redeemed[r] <= 1

(* A session comes back from revocation only through a login: a refresh, a   *)
(* retry or a second revocation never clears it.                             *)
RevokedUntilLogin ==
    [][\A d \in Devices :
          sess[d].revoked /\ ~sess'[d].revoked
              => \E i \in ReqIds : req[i].op = "login" /\ req[i].dev = d /\ req'[i] = Idle]_vars
=============================================================================
