----------------------------- MODULE StoreLease -----------------------------
(***************************************************************************)
(* The connection leases of the control plane (cloudbrowser/app.py): which *)
(* user may use which store from which device, and the one-minute edge     *)
(* tickets handed out under a lease.                                       *)
(*                                                                         *)
(* A request is a database transaction of two or three steps.  Arrive      *)
(* authenticates the caller, which is the transaction's first read and     *)
(* therefore (MySQL, REPEATABLE READ) fixes the snapshot that every later  *)
(* plain SELECT of the request sees.  The handler's own action reads that  *)
(* snapshot and commits.  What it writes are the columns whose value it    *)
(* changed, on top of whatever other requests committed in between; this   *)
(* is how the ORM session writes.  A row read FOR UPDATE is read current   *)
(* and stays locked until the commit, so the lock and the commit are one   *)
(* step here.                                                              *)
(***************************************************************************)
EXTENDS Integers, FiniteSets

CONSTANTS
    Users, Admins,      \* accounts, and those with role "admin"
    Devices, Stores, Nodes,
    LeaseIds,           \* lease ids that can be drawn (uuid4; bounds the table)
    ReqIds,             \* worker slots: how many requests run at once
    None,               \* "no value"
    HeartbeatTimeout,   \* 90 s
    LeaseTTL,           \* 8 h
    TicketTTL,          \* 60 s
    RequestMax,         \* longest time a request stays in flight
    MaxClock,           \* bound on time
    MaxVersion,         \* bound on token versions
    Ops                 \* the operations this instance exercises

ASSUME ConstantsAssumption ==
    /\ Admins \subseteq Users
    /\ None \notin Users \cup Devices \cup Stores \cup Nodes \cup LeaseIds
    /\ HeartbeatTimeout \in Nat /\ LeaseTTL \in Nat \ {0}
    /\ TicketTTL \in Nat \ {0} /\ RequestMax \in Nat
    /\ MaxClock \in Nat /\ MaxVersion \in Nat \ {0}

VARIABLES
    clock,      \* datetime.now(UTC)
    user,       \* users: enabled, deleted_at, token_version
    token,      \* the token version each user's clients hold (0: none)
    grants,     \* user_edge_node_grants
    node,       \* edge_nodes: enabled, health_status = "online"
    store,      \* managed_stores
    lease,      \* store_connection_leases
    tickets,    \* every ticket ever issued
    req,        \* requests in flight
    supersededAt, \* history: when each token version stopped being current
    ungrantedAt  \* history: when each grant was last taken away

vars == <<clock, user, token, grants, node, store, lease, tickets, req,
          supersededAt, ungrantedAt>>

-----------------------------------------------------------------------------
Time == 0 .. MaxClock
Versions == 1 .. MaxVersion
Ended == {"expired", "disconnected"}

UserRows == [enabled : BOOLEAN, deleted : BOOLEAN, ver : Versions]
NodeRows == [enabled : BOOLEAN, online : BOOLEAN]
StoreRows == [exists : BOOLEAN, enabled : BOOLEAN, node : Nodes]

Blank == [status |-> "none", store |-> None, user |-> None, device |-> None,
          hb |-> 0, expires |-> 0, ver |-> 0]

(* A row of store_connection_leases.  "none": not inserted yet; "deleted":   *)
(* removed with its store.  ver is not a column: it records which token      *)
(* version last created or renewed the lease, for the properties below.      *)
LeaseRows == [status : {"none", "active", "deleted"} \cup Ended,
              store : Stores \cup {None}, user : Users \cup {None},
              device : Devices \cup {None}, hb : Time, expires : Int,
              ver : 0 .. MaxVersion]

Snapshots == [grants : SUBSET (Users \X Nodes),
              node : [Nodes -> NodeRows],
              store : [Stores -> StoreRows],
              lease : [LeaseIds -> LeaseRows]]

(* What a request asks for.  user is the caller, or the target of an         *)
(* administrator's operation; node is the new binding of "update".           *)
MemberOps == {"connect", "heartbeat", "ticket", "disconnect", "list"}
AccountOps == {"password", "delete_user"}
AdminOps == {"force_store", "force_lease", "update", "delete_store"} \cup AccountOps

Query(op, u, s, d, l, n) ==
    [op |-> op, user |-> u, store |-> s, device |-> d, lease |-> l, node |-> n]

Queries ==
    {Query("connect", u, s, d, None, None) : u \in Users, s \in Stores, d \in Devices}
    \cup {Query(op, u, s, d, l, None) : op \in {"heartbeat", "ticket", "disconnect"},
             u \in Users, s \in Stores, d \in Devices, l \in LeaseIds}
    \cup {Query(op, u, s, None, None, None) : op \in {"ticket", "disconnect"},
             u \in Users, s \in Stores}
    \cup {Query("list", u, None, None, None, None) : u \in Users}
    \cup {Query("force_store", None, s, None, None, None) : s \in Stores}
    \cup {Query("force_lease", None, None, None, l, None) : l \in LeaseIds}
    \cup {Query("update", None, s, None, None, n) : s \in Stores, n \in Nodes}
    \cup {Query("delete_store", None, s, None, None, None) : s \in Stores}
    \cup {Query(op, u, None, None, None, None) : op \in AccountOps, u \in Users \ Admins}

(* A request in flight: its query, when it arrived, the caller's token       *)
(* version, its snapshot and, for a ticket past its lease check, the lease   *)
(* it found and when.                                                        *)
Requests == [q : Queries, at : Time, ver : 0 .. MaxVersion, snap : Snapshots,
             found : LeaseIds \cup {None}, checked : Time]
Idle == [q |-> None]

Tickets == [lease : LeaseIds, user : Users, store : Stores, node : Nodes,
            ver : 0 .. MaxVersion, exp : Int]

TypeOK ==
    /\ clock \in Time
    /\ user \in [Users -> UserRows]
    /\ token \in [Users -> 0 .. MaxVersion]
    /\ grants \subseteq Users \X Nodes
    /\ node \in [Nodes -> NodeRows]
    /\ store \in [Stores -> StoreRows]
    /\ lease \in [LeaseIds -> LeaseRows]
    /\ tickets \subseteq Tickets
    /\ req \in [ReqIds -> Requests \cup {Idle}]
    /\ supersededAt \in [Users -> [Versions -> Time]]
    /\ ungrantedAt \in [Users \X Nodes -> Time]

Init ==
    /\ clock = 0
    /\ user = [u \in Users |-> [enabled |-> TRUE, deleted |-> FALSE, ver |-> 1]]
    /\ token = [u \in Users |-> 0]
    /\ grants = Users \X Nodes
    /\ node = [n \in Nodes |-> [enabled |-> TRUE, online |-> TRUE]]
    /\ store \in [Stores -> [exists : {TRUE}, enabled : {TRUE}, node : Nodes]]
    /\ lease = [l \in LeaseIds |-> Blank]
    /\ tickets = {}
    /\ req = [i \in ReqIds |-> Idle]
    /\ supersededAt = [u \in Users |-> [v \in Versions |-> 0]]
    /\ ungrantedAt = [g \in Users \X Nodes |-> 0]

-----------------------------------------------------------------------------
(* Reading the lease table.                                                  *)

\* The test of active_store_leases on one row.
Stale(row, now) == row.expires <= now \/ row.hb < now - HeartbeatTimeout

Live(row, now) == row.status = "active" /\ ~Stale(row, now)

\* active_store_leases: the rows it returns, and the rows it marks "expired".
ActiveStoreLeases(tbl, s, now) ==
    {l \in LeaseIds : tbl[l].store = s /\ Live(tbl[l], now)}

\* Mutant of MarkedExpired: what is stale is passed over and not marked.
MarkedExpiredNone(tbl, s, now) == {}

MarkedExpired(tbl, s, now) ==
    {l \in LeaseIds : tbl[l].store = s /\ tbl[l].status = "active" /\ Stale(tbl[l], now)}

\* active_store_lease: this user's lease of the store on this device.
ActiveStoreLease(tbl, s, u, d, now) ==
    {l \in ActiveStoreLeases(tbl, s, now) : tbl[l].user = u /\ tbl[l].device = d}

\* requested_store_lease: by lease and device together, or, naming neither,
\* the user's only lease of the store (several: 409).
RequestedStoreLease(tbl, q, now) ==
    LET mine == {l \in ActiveStoreLeases(tbl, q.store, now) : tbl[l].user = q.user}
    IN  IF q.lease # None
        THEN {l \in mine : l = q.lease /\ tbl[l].device = q.device}
        ELSE IF Cardinality(mine) > 1 THEN {} ELSE mine

\* Mutant of NodeAccessible: the join on the grants is missing.
NodeAccessibleUngranted(snap, u, s) ==
    snap.store[s].exists /\ snap.node[snap.store[s].node].enabled

\* accessible_store's join, on the snapshot: the node is enabled and granted.
NodeAccessible(snap, u, s) ==
    LET n == snap.store[s].node
    IN  /\ snap.store[s].exists
        /\ snap.node[n].enabled
        /\ u \in Admins \/ <<u, n>> \in snap.grants

(* Writing it.  The flush of a changed row that is gone raises, and the      *)
(* request rolls back.                                                       *)

Present(rows) == \A l \in rows : lease[l].status # "deleted"

SetStatus(tbl, rows, st) ==
    [l \in LeaseIds |-> IF l \in rows THEN [tbl[l] EXCEPT !.status = st] ELSE tbl[l]]

\* Mutants of Renew: it also makes the row active; it swaps the two dates.
RenewReactivating(tbl, l, ver) ==
    [tbl EXCEPT ![l] = [@ EXCEPT !.status = "active", !.hb = clock,
                                 !.expires = clock + LeaseTTL, !.ver = ver]]
RenewSwapped(tbl, l, ver) ==
    [tbl EXCEPT ![l] = [@ EXCEPT !.hb = clock + LeaseTTL, !.expires = clock, !.ver = ver]]

\* last_heartbeat_at = now, expires_at = now + 8 h; status is left alone.
Renew(tbl, l, ver) ==
    [tbl EXCEPT ![l] = [@ EXCEPT !.hb = clock, !.expires = clock + LeaseTTL, !.ver = ver]]

\* Mutant of UniqueIndexAdmits: the index was not created.
NoUniqueIndex(tbl, s, u, d) == TRUE

\* The unique index on (store, owner, device) of active rows.
UniqueIndexAdmits(tbl, s, u, d) ==
    ~ \E l \in LeaseIds : /\ tbl[l].status = "active"
                          /\ tbl[l].store = s /\ tbl[l].user = u /\ tbl[l].device = d

-----------------------------------------------------------------------------
(* Requests.                                                                 *)

Snapshot == [grants |-> grants, node |-> node, store |-> store, lease |-> lease]

\* Mutant of TokenAccepted: the token version is not compared.
TokenAcceptedAnyVersion(u) == user[u].enabled /\ ~user[u].deleted /\ token[u] # 0

\* bearer_user: the token is the current version of an enabled account.
TokenAccepted(u) ==
    user[u].enabled /\ ~user[u].deleted /\ token[u] = user[u].ver

\* member_user: the target of an account operation.
MemberUser(u) == u \notin Admins /\ ~user[u].deleted

\* Account operations on one user are taken to be serial here.
AccountOpRunning(u) ==
    \E i \in ReqIds : req[i] # Idle /\ req[i].q.op \in AccountOps /\ req[i].q.user = u

Arrive(i, q) ==
    /\ req[i] = Idle /\ q.op \in Ops
    /\ q.op \in MemberOps => TokenAccepted(q.user)
    /\ q.op \in AccountOps => MemberUser(q.user) /\ ~AccountOpRunning(q.user)
    /\ req' = [req EXCEPT ![i] =
                 [q |-> q, at |-> clock, snap |-> Snapshot, found |-> None, checked |-> clock,
                  ver |-> IF q.op \in MemberOps THEN token[q.user] ELSE 0]]
    /\ UNCHANGED <<clock, user, token, grants, node, store, lease, tickets, supersededAt, ungrantedAt>>

Handling(i, op) == req[i] # Idle /\ req[i].q.op = op
Finish(i) == req' = [req EXCEPT ![i] = Idle]
LeaseOnly == UNCHANGED <<clock, user, token, grants, node, store, tickets, supersededAt, ungrantedAt>>

\* The request ends without a commit: an error answer, a failed flush, a crash.
Rollback(i) ==
    /\ req[i] # Idle
    /\ Finish(i)
    /\ UNCHANGED <<clock, user, token, grants, node, store, lease, tickets, supersededAt, ungrantedAt>>

\* The checks of connect_store and native_store_preflight before the lease is
\* looked up.  The store row is read FOR UPDATE, its node from the snapshot.
ConnectAllowed(r) ==
    LET s == r.q.store
        n == r.snap.node[store[s].node]
    IN  /\ store[s].exists
        /\ NodeAccessible(r.snap, r.q.user, s)
        /\ store[s].enabled /\ n.enabled /\ n.online

\* connect_store and native_store_preflight: take over the device's own lease,
\* or insert one.  A duplicate the snapshot did not show fails in the index.
ConnectStore(i) ==
    LET r == req[i]
        q == r.q
        mine == ActiveStoreLease(r.snap.lease, q.store, q.user, q.device, clock)
        old == MarkedExpired(r.snap.lease, q.store, clock)
        flushed == SetStatus(lease, old, "expired")
    IN  /\ Handling(i, "connect") /\ ConnectAllowed(r) /\ Present(old \cup mine)
        /\ \/ \E l \in mine : lease' = Renew(flushed, l, r.ver)
           \/ /\ mine = {}
              /\ UniqueIndexAdmits(flushed, q.store, q.user, q.device)
              /\ \E l \in LeaseIds :
                    /\ lease[l].status = "none"
                    /\ lease' = [flushed EXCEPT ![l] =
                          [status |-> "active", store |-> q.store, user |-> q.user,
                           device |-> q.device, hb |-> clock,
                           expires |-> clock + LeaseTTL, ver |-> r.ver]]
        /\ Finish(i) /\ LeaseOnly

\* heartbeat_store: the named lease must be the device's live one.
HeartbeatStore(i) ==
    LET r == req[i]
        q == r.q
        old == MarkedExpired(r.snap.lease, q.store, clock)
    IN  /\ Handling(i, "heartbeat") /\ store[q.store].exists
        /\ NodeAccessible(r.snap, q.user, q.store)
        /\ q.lease \in ActiveStoreLease(r.snap.lease, q.store, q.user, q.device, clock)
        /\ Present(old \cup {q.lease})
        /\ lease' = Renew(SetStatus(lease, old, "expired"), q.lease, r.ver)
        /\ Finish(i) /\ LeaseOnly

\* issue_store_target_ticket up to the DNS lookup.  Without a lease it commits
\* the rows it found expired and answers 409.
TicketCheck(i) ==
    LET r == req[i]
        q == r.q
        n == r.snap.node[r.snap.store[q.store].node]
        leases == RequestedStoreLease(r.snap.lease, q, clock)
        old == MarkedExpired(r.snap.lease, q.store, clock)
    IN  /\ Handling(i, "ticket") /\ r.found = None
        /\ NodeAccessible(r.snap, q.user, q.store)
        /\ \/ /\ leases = {} /\ Present(old)
              /\ lease' = SetStatus(lease, old, "expired")
              /\ Finish(i)
           \/ /\ r.snap.store[q.store].enabled /\ n.enabled /\ n.online
              /\ \E l \in leases : req' = [req EXCEPT ![i] = [@ EXCEPT !.found = l, !.checked = clock]]
              /\ UNCHANGED lease
        /\ LeaseOnly

\* Mutant of TicketSeconds: always a minute.
FullTicketSeconds(remaining) == TicketTTL

\* expires_in: a ticket lasts a minute, or as long as the lease if that is less.
TicketSeconds(remaining) == IF remaining < TicketTTL THEN remaining ELSE TicketTTL

\* The rest of it, after the lookup: the lease of the snapshot must have time
\* left, and the ticket ends no later than that lease.
TicketIssue(i) ==
    LET r == req[i]
        q == r.q
        l == r.found
        row == r.snap.lease[l]
        remaining == row.expires - clock
        old == MarkedExpired(r.snap.lease, q.store, r.checked)
    IN  /\ Handling(i, "ticket") /\ l # None /\ Present(old)
        /\ \/ /\ remaining <= 0 /\ Present({l})
              /\ lease' = SetStatus(lease, old \cup {l}, "expired")
              /\ UNCHANGED tickets
           \/ /\ remaining > 0
              /\ lease' = SetStatus(lease, old, "expired")
              /\ tickets' = tickets \cup
                   {[lease |-> l, user |-> q.user, store |-> q.store,
                     node |-> r.snap.store[q.store].node, ver |-> r.ver,
                     exp |-> clock + TicketSeconds(remaining)]}
        /\ Finish(i)
        /\ UNCHANGED <<clock, user, token, grants, node, store, supersededAt, ungrantedAt>>

\* disconnect_store.
DisconnectStore(i) ==
    LET r == req[i]
        q == r.q
        old == MarkedExpired(r.snap.lease, q.store, clock)
        leases == RequestedStoreLease(r.snap.lease, q, clock)
    IN  /\ Handling(i, "disconnect")
        /\ NodeAccessible(r.snap, q.user, q.store)
        /\ leases # {} /\ Present(old \cup leases)
        /\ lease' = SetStatus(SetStatus(lease, old, "expired"), leases, "disconnected")
        /\ Finish(i) /\ LeaseOnly

\* list_owned_stores marks what it finds expired, on every store it lists.
ListOwnedStores(i) ==
    LET r == req[i]
        old == UNION {MarkedExpired(r.snap.lease, s, clock) :
                        s \in {t \in Stores : NodeAccessible(r.snap, r.q.user, t)}}
    IN  /\ Handling(i, "list") /\ Present(old)
        /\ lease' = SetStatus(lease, old, "expired")
        /\ Finish(i) /\ LeaseOnly

\* force_disconnect_managed_store: every live lease of the store.
ForceDisconnectStore(i) ==
    LET r == req[i]
        old == MarkedExpired(r.snap.lease, r.q.store, clock)
        leases == ActiveStoreLeases(r.snap.lease, r.q.store, clock)
    IN  /\ Handling(i, "force_store") /\ r.snap.store[r.q.store].exists
        /\ leases # {} /\ Present(old \cup leases)
        /\ lease' = SetStatus(SetStatus(lease, old, "expired"), leases, "disconnected")
        /\ Finish(i) /\ LeaseOnly

\* force_disconnect_store_lease: one live lease.
ForceDisconnectLease(i) ==
    LET r == req[i]
        l == r.q.lease
        s == r.snap.lease[l].store
        old == MarkedExpired(r.snap.lease, s, clock)
    IN  /\ Handling(i, "force_lease")
        /\ l \in ActiveStoreLeases(r.snap.lease, s, clock)
        /\ Present(old \cup {l})
        /\ lease' = SetStatus(SetStatus(lease, old, "expired"), {l}, "disconnected")
        /\ Finish(i) /\ LeaseOnly

\* update_managed_store: enable or disable a store, or bind it to another node
\* unless the snapshot shows a live lease.
UpdateManagedStore(i) ==
    LET r == req[i]
        s == r.q.store
        row == r.snap.store[s]
        rebind == r.q.node # row.node
        old == IF rebind THEN MarkedExpired(r.snap.lease, s, clock) ELSE {}
    IN  /\ Handling(i, "update") /\ row.exists /\ store[s].exists
        /\ rebind => ActiveStoreLeases(r.snap.lease, s, clock) = {}
        /\ Present(old)
        /\ lease' = SetStatus(lease, old, "expired")
        /\ \E on \in BOOLEAN :
              store' = [store EXCEPT ![s] = [store[s] EXCEPT
                 !.node = IF rebind THEN r.q.node ELSE store[s].node,
                 !.enabled = IF on # row.enabled THEN on ELSE store[s].enabled]]
        /\ Finish(i)
        /\ UNCHANGED <<clock, user, token, grants, node, tickets, supersededAt, ungrantedAt>>

\* delete_managed_store: no live lease in the snapshot; the snapshot's history
\* goes with the store.  A row the snapshot did not show holds the foreign key
\* and the deletion rolls back.
DeleteManagedStore(i) ==
    LET r == req[i]
        s == r.q.store
        history == {l \in LeaseIds : r.snap.lease[l].store = s
                                     /\ r.snap.lease[l].status \notin {"none", "deleted"}}
        rows == {l \in LeaseIds : lease[l].store = s
                                  /\ lease[l].status \notin {"none", "deleted"}}
    IN  /\ Handling(i, "delete_store") /\ store[s].exists
        /\ ActiveStoreLeases(r.snap.lease, s, clock) = {}
        /\ rows = history
        /\ lease' = SetStatus(lease, history, "deleted")
        /\ store' = [store EXCEPT ![s] = [@ EXCEPT !.exists = FALSE]]
        /\ Finish(i)
        /\ UNCHANGED <<clock, user, token, grants, node, tickets, supersededAt, ungrantedAt>>

\* The leases an account operation ends: the user's active rows, live or not.
OwnedActive(tbl, u) == {l \in LeaseIds : tbl[l].user = u /\ tbl[l].status = "active"}

Supersede(u) ==
    supersededAt' = [supersededAt EXCEPT ![u] = [@ EXCEPT ![user[u].ver] = clock]]

\* The user's grants become the nodes ns.
SetGrants(u, ns) ==
    /\ grants' = {g \in grants : g[1] # u} \cup ({u} \X ns)
    /\ ungrantedAt' = [g \in Users \X Nodes |->
                         IF g \in grants \ grants' THEN clock ELSE ungrantedAt[g]]

\* change_user_password.
ChangeUserPassword(i) ==
    LET u == req[i].q.user
        leases == OwnedActive(req[i].snap.lease, u)
    IN  /\ Handling(i, "password") /\ Present(leases)
        /\ user[u].ver < MaxVersion
        /\ user' = [user EXCEPT ![u] = [user[u] EXCEPT !.ver = user[u].ver + 1]]
        /\ lease' = SetStatus(lease, leases, "disconnected")
        /\ Supersede(u) /\ Finish(i)
        /\ UNCHANGED <<clock, token, grants, node, store, tickets, ungrantedAt>>

\* delete_user: grants and leases go, the account stays as a disabled shell.
DeleteUser(i) ==
    LET u == req[i].q.user
        leases == OwnedActive(req[i].snap.lease, u)
    IN  /\ Handling(i, "delete_user") /\ Present(leases)
        /\ user[u].ver < MaxVersion
        /\ user' = [user EXCEPT ![u] = [enabled |-> FALSE, deleted |-> TRUE, ver |-> @.ver + 1]]
        /\ SetGrants(u, {})
        /\ lease' = SetStatus(lease, leases, "disconnected")
        /\ Supersede(u) /\ Finish(i)
        /\ UNCHANGED <<clock, token, node, store, tickets>>

-----------------------------------------------------------------------------
(* Operations whose outcome depends on no other row: one step each.          *)

Login(u) ==
    /\ user[u].enabled /\ ~user[u].deleted /\ token[u] # user[u].ver
    /\ token' = [token EXCEPT ![u] = user[u].ver]
    /\ UNCHANGED <<clock, user, grants, node, store, lease, tickets, req, supersededAt, ungrantedAt>>

\* logout, and set_user_enabled / disable_user switching an account off: the
\* token version moves on, the leases stay.
BumpVersion(u, on) ==
    /\ user[u].ver < MaxVersion /\ ~AccountOpRunning(u)
    /\ user' = [user EXCEPT ![u] = [user[u] EXCEPT !.ver = user[u].ver + 1, !.enabled = on]]
    /\ Supersede(u)
    /\ UNCHANGED <<clock, token, grants, node, store, lease, tickets, req, ungrantedAt>>

Logout(u) == "user" \in Ops /\ TokenAccepted(u) /\ BumpVersion(u, TRUE)
DisableUser(u) == "user" \in Ops /\ MemberUser(u) /\ user[u].enabled /\ BumpVersion(u, FALSE)
EnableUser(u) ==
    /\ "user" \in Ops /\ MemberUser(u) /\ ~user[u].enabled
    /\ user' = [user EXCEPT ![u] = [@ EXCEPT !.enabled = TRUE]]
    /\ UNCHANGED <<clock, token, grants, node, store, lease, tickets, req, supersededAt, ungrantedAt>>

ReplaceUserEdgeNodes(u, ns) ==
    /\ "grant" \in Ops /\ MemberUser(u)
    /\ SetGrants(u, ns)
    /\ UNCHANGED <<clock, user, token, node, store, lease, tickets, req, supersededAt>>

\* update_edge_node: a node switched off or on, or into maintenance, is not
\* online until the monitor has seen it.
UpdateEdgeNode(n, on) ==
    /\ "node" \in Ops
    /\ node' = [node EXCEPT ![n] = [enabled |-> on, online |-> FALSE]]
    /\ UNCHANGED <<clock, user, token, grants, store, lease, tickets, req, supersededAt, ungrantedAt>>

\* EdgeHealthMonitor's verdict on a node, which may come after it was disabled.
MonitorVerdict(n, up) ==
    /\ "node" \in Ops
    /\ node' = [node EXCEPT ![n] = [@ EXCEPT !.online = up]]
    /\ UNCHANGED <<clock, user, token, grants, store, lease, tickets, req, supersededAt, ungrantedAt>>

\* Time passes, but no request outlives RequestMax.
Tick ==
    /\ clock < MaxClock
    /\ \A i \in ReqIds : req[i] # Idle => clock + 1 <= req[i].at + RequestMax
    /\ clock' = clock + 1
    /\ UNCHANGED <<user, token, grants, node, store, lease, tickets, req, supersededAt, ungrantedAt>>

Handler(i) ==
    \/ ConnectStore(i) \/ HeartbeatStore(i) \/ TicketCheck(i) \/ TicketIssue(i)
    \/ DisconnectStore(i) \/ ListOwnedStores(i)
    \/ ForceDisconnectStore(i) \/ ForceDisconnectLease(i)
    \/ UpdateManagedStore(i) \/ DeleteManagedStore(i)
    \/ ChangeUserPassword(i) \/ DeleteUser(i)
    \/ Rollback(i)

Next ==
    \/ \E i \in ReqIds : Handler(i) \/ \E q \in Queries : Arrive(i, q)
    \/ \E u \in Users : Login(u) \/ Logout(u) \/ DisableUser(u) \/ EnableUser(u)
    \/ \E u \in Users, ns \in SUBSET Nodes : ReplaceUserEdgeNodes(u, ns)
    \/ \E n \in Nodes, b \in BOOLEAN : UpdateEdgeNode(n, b) \/ MonitorVerdict(n, b)
    \/ Tick

Spec == Init /\ [][Next]_vars

-----------------------------------------------------------------------------
(* What the leases promise.                                                  *)

(* A store is connected at most once per user and device, whatever requests  *)
(* ran side by side: connect_store looks for the lease in a snapshot that is *)
(* older than its row lock.                                                  *)
OneLeasePerDevice ==
    \A l, m \in LeaseIds :
        /\ lease[l].status = "active" /\ lease[m].status = "active"
        /\ lease[l].store = lease[m].store /\ lease[l].user = lease[m].user
        /\ lease[l].device = lease[m].device
        => l = m

(* A lease that was disconnected or has expired never becomes active again,  *)
(* although heartbeats and reconnects decided on an older snapshot commit    *)
(* after the disconnection.                                                  *)
EndedStaysEnded ==
    [][\A l \in LeaseIds : lease[l].status \in Ended \cup {"deleted"}
                            => lease'[l].status \in Ended \cup {"deleted"}]_vars

(* A lease kept alive by a token that a password change, a logout, a         *)
(* deactivation or a deletion has superseded is dead within RequestMax plus  *)
(* the heartbeat timeout, even where the operation left the row active.      *)
SupersededTokenLapses ==
    \A l \in LeaseIds :
        LET row == lease[l]
        IN  Live(row, clock) /\ row.ver < user[row.user].ver
            => clock <= supersededAt[row.user][row.ver] + RequestMax + HeartbeatTimeout

(* No ticket obtained with a superseded token is good for longer than        *)
(* RequestMax plus one ticket lifetime after the token was superseded.       *)
SupersededTicketLapses ==
    \A t \in tickets :
        t.ver < user[t.user].ver
            => t.exp <= supersededAt[t.user][t.ver] + RequestMax + TicketTTL

(* A member whose grant on a node is taken away has no valid ticket for that *)
(* node RequestMax plus one ticket lifetime later: a request that read the   *)
(* old grants is the last that can obtain one.                               *)
RevokedGrantLapses ==
    \A t \in tickets :
        t.user \notin Admins /\ <<t.user, t.node>> \notin grants
            => t.exp <= ungrantedAt[<<t.user, t.node>>] + RequestMax + TicketTTL

(* A ticket never outlasts the lease it was issued under: its lifetime is    *)
(* computed after the DNS lookup from a lease row read before it.            *)
TicketWithinLease == \A t \in tickets : t.exp <= lease[t.lease].expires

(* "Cannot rebind a store with an active connection" (update_managed_store), *)
(* as far as a check on a snapshot goes: a lease that is live on the store   *)
(* as it is rebound was connected after the snapshot; one that the snapshot  *)
(* shows, live or stale, has not been kept alive meanwhile.                  *)
RebindOnlyIdle ==
    [][\A s \in Stores : store'[s].node # store[s].node /\ store'[s].exists
         => \A l \in ActiveStoreLeases(lease', s, clock) :
               \E i \in ReqIds : Handling(i, "update") /\ req[i].snap.lease[l].status = "none"]_vars
=============================================================================
