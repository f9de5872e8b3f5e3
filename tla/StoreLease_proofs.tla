-------------------------- MODULE StoreLease_proofs --------------------------
(***************************************************************************)
(* Proofs about StoreLease for any number of users, devices, stores,       *)
(* leases and concurrent requests, and any timeouts.                       *)
(***************************************************************************)
EXTENDS StoreLease, TLAPS

-----------------------------------------------------------------------------
(* Which fields of a query are present.                                      *)
LEMMA QueryFields ==
    ASSUME NEW q \in Queries
    PROVE  /\ q.op \in MemberOps => q.user \in Users
           /\ q.op \in {"connect", "heartbeat", "ticket", "disconnect"} => q.store \in Stores
           /\ q.op \in {"connect", "heartbeat"} => q.device \in Devices
           /\ q.op = "heartbeat" => q.lease \in LeaseIds
           /\ q.op = "force_lease" => q.lease \in LeaseIds
           /\ q.op \in {"force_store", "update", "delete_store"} => q.store \in Stores
           /\ q.op = "update" => q.node \in Nodes
           /\ q.op \in AccountOps => q.user \in Users
  BY DEF Queries, Query, MemberOps, AccountOps

(* A request in flight is a proper request record.                           *)
LEMMA RunningType ==
    ASSUME TypeOK, NEW i \in ReqIds, req[i] # Idle
    PROVE  req[i] \in Requests
  BY DEF TypeOK

(* Writing a status keeps the table well-typed.                              *)
LEMMA SetStatusType ==
    ASSUME NEW tbl \in [LeaseIds -> LeaseRows], NEW rows,
           NEW st \in {"none", "active", "deleted"} \cup Ended
    PROVE  SetStatus(tbl, rows, st) \in [LeaseIds -> LeaseRows]
  BY DEF SetStatus, LeaseRows, Ended

LEMMA RenewType ==
    ASSUME NEW tbl \in [LeaseIds -> LeaseRows], clock \in Time,
           NEW l \in LeaseIds, NEW ver \in 0 .. MaxVersion
    PROVE  Renew(tbl, l, ver) \in [LeaseIds -> LeaseRows]
  <1>1. clock + LeaseTTL \in Int
    BY ConstantsAssumption DEF ConstantsAssumption, Time
  <1>2. [tbl[l] EXCEPT !.hb = clock, !.expires = clock + LeaseTTL, !.ver = ver] \in LeaseRows
    BY <1>1 DEF LeaseRows
  <1> QED
    BY <1>2 DEF Renew

(* The initial state.                                                        *)
LEMMA InitType == Init => TypeOK
  <1> SUFFICES ASSUME Init PROVE TypeOK
    OBVIOUS
  <1>1. 0 \in Time /\ 1 \in Versions /\ 0 \in 0 .. MaxVersion
    BY ConstantsAssumption DEF ConstantsAssumption, Time, Versions
  <1>2. Blank \in LeaseRows
    BY <1>1 DEF Blank, LeaseRows
  <1> QED
    BY <1>1, <1>2 DEF Init, TypeOK, UserRows, NodeRows, StoreRows

(* One column of a row written.                                              *)
LEMMA RowTypes ==
    /\ \A x \in UserRows, v \in Versions : [x EXCEPT !.ver = v] \in UserRows
    /\ \A x \in UserRows, b \in BOOLEAN : [x EXCEPT !.enabled = b] \in UserRows
    /\ \A x \in UserRows, v \in Versions, b \in BOOLEAN :
          [x EXCEPT !.ver = v, !.enabled = b] \in UserRows
    /\ \A x \in NodeRows, b \in BOOLEAN : [x EXCEPT !.online = b] \in NodeRows
    /\ \A x \in StoreRows, b \in BOOLEAN : [x EXCEPT !.exists = b] \in StoreRows
    /\ \A x \in StoreRows, n \in Nodes, b \in BOOLEAN :
          [x EXCEPT !.node = n, !.enabled = b] \in StoreRows
  BY DEF UserRows, NodeRows, StoreRows

(* The next token version.                                                   *)
LEMMA NextVersion ==
    ASSUME TypeOK, NEW u \in Users, user[u].ver < MaxVersion
    PROVE  user[u] \in UserRows /\ user[u].ver + 1 \in Versions
  BY ConstantsAssumption DEF TypeOK, UserRows, Versions, ConstantsAssumption

LEMMA FinishType ==
    ASSUME TypeOK, NEW i \in ReqIds, Finish(i)
    PROVE  req' \in [ReqIds -> Requests \cup {Idle}]
  BY DEF TypeOK, Finish

(* Every action keeps the type invariant.                                    *)
LEMMA TypeStep ==
    ASSUME TypeOK, [Next]_vars
    PROVE  TypeOK'
  <1> USE ConstantsAssumption
  <1>0. /\ clock \in Time /\ lease \in [LeaseIds -> LeaseRows]
        /\ MaxVersion \in Nat
        /\ {"expired", "disconnected", "deleted"} \subseteq {"none", "active", "deleted"} \cup Ended
    BY DEF TypeOK, ConstantsAssumption, Ended
  <1>1. ASSUME NEW i \in ReqIds, NEW q \in Queries, Arrive(i, q)
        PROVE  TypeOK'
    <2>1. Snapshot \in Snapshots
      BY DEF Snapshot, Snapshots, TypeOK
    <2>2. (IF q.op \in MemberOps THEN token[q.user] ELSE 0) \in 0 .. MaxVersion
      BY <1>0, QueryFields DEF TypeOK
    <2>3. req'[i] \in Requests
      BY <1>0, <1>1, <2>1, <2>2 DEF Arrive, Requests, TypeOK
    <2>4. req' \in [ReqIds -> Requests \cup {Idle}]
      BY <1>1, <2>3 DEF Arrive, TypeOK
    <2> QED
      BY <1>1, <2>4 DEF Arrive, TypeOK
  <1>2. ASSUME NEW i \in ReqIds, Handler(i)
        PROVE  TypeOK'
    <2> DEFINE r == req[i]
    <2>0. r # Idle /\ r \in Requests /\ r.q \in Queries /\ r.ver \in 0 .. MaxVersion
          /\ r.snap.lease \in [LeaseIds -> LeaseRows]
      <3>1. r # Idle
        BY <1>2 DEF Handler, Handling, ConnectStore, HeartbeatStore, TicketCheck, TicketIssue,
             DisconnectStore, ListOwnedStores, ForceDisconnectStore, ForceDisconnectLease,
             UpdateManagedStore, DeleteManagedStore, ChangeUserPassword, DeleteUser, Rollback
      <3> QED
        BY <3>1, RunningType DEF Requests, Snapshots
    <2>1. CASE ConnectStore(i)
      <3> DEFINE q == r.q
                 old == MarkedExpired(r.snap.lease, q.store, clock)
                 flushed == SetStatus(lease, old, "expired")
      <3>1. flushed \in [LeaseIds -> LeaseRows]
        BY <1>0, SetStatusType
      <3>2. q.op = "connect" /\ q.user \in Users /\ q.store \in Stores /\ q.device \in Devices
        BY <2>0, <2>1, QueryFields DEF ConnectStore, Handling, MemberOps
      <3>3. lease' \in [LeaseIds -> LeaseRows]
        <4>1. CASE \E l \in ActiveStoreLease(r.snap.lease, q.store, q.user, q.device, clock) :
                     lease' = Renew(flushed, l, r.ver)
          BY <4>1, <3>1, <1>0, <2>0, RenewType DEF ActiveStoreLease, ActiveStoreLeases
        <4>2. ASSUME NEW l \in LeaseIds,
                     lease' = [flushed EXCEPT ![l] =
                          [status |-> "active", store |-> q.store, user |-> q.user,
                           device |-> q.device, hb |-> clock,
                           expires |-> clock + LeaseTTL, ver |-> r.ver]]
              PROVE  lease' \in [LeaseIds -> LeaseRows]
          <5>1. clock + LeaseTTL \in Int
            BY <1>0 DEF ConstantsAssumption, Time
          <5>2. [status |-> "active", store |-> q.store, user |-> q.user,
                           device |-> q.device, hb |-> clock,
                           expires |-> clock + LeaseTTL, ver |-> r.ver] \in LeaseRows
            BY <5>1, <3>2, <2>0, <1>0 DEF LeaseRows
          <5> QED
            BY <4>2, <5>2, <3>1
        <4> QED
          BY <2>1, <4>1, <4>2 DEF ConnectStore
      <3> QED
        BY <2>1, <3>3, FinishType DEF ConnectStore, LeaseOnly, TypeOK
    <2>2. CASE HeartbeatStore(i)
      <3>1. r.q.lease \in LeaseIds
        BY <2>0, <2>2, QueryFields DEF HeartbeatStore, Handling
      <3>2. lease' \in [LeaseIds -> LeaseRows]
        BY <1>0, <2>0, <2>2, <3>1, SetStatusType, RenewType DEF HeartbeatStore
      <3> QED
        BY <2>2, <3>2, FinishType DEF HeartbeatStore, LeaseOnly, TypeOK
    <2>3. CASE TicketCheck(i)
      <3> DEFINE old == MarkedExpired(r.snap.lease, r.q.store, clock)
      <3>0. SetStatus(lease, old, "expired") \in [LeaseIds -> LeaseRows]
        BY <1>0, SetStatusType
      <3>1. lease' \in [LeaseIds -> LeaseRows]
        BY <1>0, <2>3, <3>0 DEF TicketCheck
      <3>2. ASSUME NEW l \in RequestedStoreLease(r.snap.lease, r.q, clock)
            PROVE  l \in LeaseIds
        BY <3>2 DEF RequestedStoreLease, ActiveStoreLeases
      <3>3. ASSUME NEW l \in LeaseIds
            PROVE  [req EXCEPT ![i] = [@ EXCEPT !.found = l, !.checked = clock]]
                       \in [ReqIds -> Requests \cup {Idle}]
        <4>1. [r EXCEPT !.found = l, !.checked = clock] \in Requests
          BY <1>0, <2>0 DEF Requests
        <4> QED
          BY <4>1 DEF TypeOK
      <3>4. req' \in [ReqIds -> Requests \cup {Idle}]
        BY <2>3, <3>2, <3>3, FinishType DEF TicketCheck
      <3> QED
        BY <2>3, <3>1, <3>4 DEF TicketCheck, LeaseOnly, TypeOK
    <2>4. CASE TicketIssue(i)
      <3> DEFINE l == r.found
                 remaining == r.snap.lease[l].expires - clock
                 t == [lease |-> l, user |-> r.q.user, store |-> r.q.store,
                       node |-> r.snap.store[r.q.store].node, ver |-> r.ver,
                       exp |-> clock + TicketSeconds(remaining)]
      <3>1. r.q.user \in Users /\ r.q.store \in Stores /\ l \in LeaseIds
        BY <2>0, <2>4, QueryFields DEF TicketIssue, Handling, MemberOps, Requests
      <3>2. lease' \in [LeaseIds -> LeaseRows]
        <4>1. ASSUME NEW rows
              PROVE  SetStatus(lease, rows, "expired") \in [LeaseIds -> LeaseRows]
          BY <1>0, SetStatusType DEF Ended
        <4>2. \E rows : lease' = SetStatus(lease, rows, "expired")
          BY <2>4, Zenon DEF TicketIssue
        <4> QED
          BY <4>1, <4>2
      <3>3. clock + TicketSeconds(remaining) \in Int
        <4>1. r.snap.lease[l].expires \in Int
          BY <2>0, <3>1 DEF LeaseRows
        <4> QED
          BY <4>1, <1>0 DEF TicketSeconds, ConstantsAssumption, Time
      <3>4. r.snap.store[r.q.store].node \in Nodes
        BY <2>0, <3>1 DEF Requests, Snapshots, StoreRows
      <3>5. t \in Tickets
        BY <3>1, <3>3, <3>4, <2>0 DEF Tickets
      <3>6. tickets' \subseteq Tickets
        BY <2>4, <3>5 DEF TicketIssue, TypeOK
      <3> QED
        BY <2>4, <3>2, <3>6, FinishType DEF TicketIssue, TypeOK
    <2>5. CASE DisconnectStore(i)
      BY <1>0, <2>5, SetStatusType, FinishType DEF DisconnectStore, LeaseOnly, TypeOK
    <2>6. CASE ListOwnedStores(i)
      BY <1>0, <2>6, SetStatusType, FinishType DEF ListOwnedStores, LeaseOnly, TypeOK
    <2>7. CASE ForceDisconnectStore(i)
      BY <1>0, <2>7, SetStatusType, FinishType DEF ForceDisconnectStore, LeaseOnly, TypeOK
    <2>8. CASE ForceDisconnectLease(i)
      BY <1>0, <2>8, SetStatusType, FinishType DEF ForceDisconnectLease, LeaseOnly, TypeOK
    <2>9. CASE UpdateManagedStore(i)
      <3>1. r.q.store \in Stores /\ r.q.node \in Nodes
        BY <2>0, <2>9, QueryFields DEF UpdateManagedStore, Handling
      <3>2. store' \in [Stores -> StoreRows]
        <4>1. store[r.q.store] \in StoreRows /\ r.snap.store[r.q.store] \in StoreRows
          BY <3>1, <2>0 DEF TypeOK, Requests, Snapshots
        <4>2. ASSUME NEW n \in Nodes, NEW b \in BOOLEAN
              PROVE  [store EXCEPT ![r.q.store] = [store[r.q.store] EXCEPT !.node = n, !.enabled = b]]
                        \in [Stores -> StoreRows]
          BY <4>1, <3>1, RowTypes DEF TypeOK
        <4>3. store[r.q.store].node \in Nodes /\ store[r.q.store].enabled \in BOOLEAN
          BY <4>1 DEF StoreRows
        <4> QED
          <5> DEFINE n == IF r.q.node # r.snap.store[r.q.store].node
                          THEN r.q.node ELSE store[r.q.store].node
                     b(on) == IF on # r.snap.store[r.q.store].enabled
                              THEN on ELSE store[r.q.store].enabled
          <5>1. PICK on \in BOOLEAN :
                  store' = [store EXCEPT ![r.q.store] = [store[r.q.store] EXCEPT !.node = n, !.enabled = b(on)]]
            BY <2>9 DEF UpdateManagedStore
          <5>2. n \in Nodes /\ b(on) \in BOOLEAN
            BY <3>1, <4>3
          <5> QED
            BY <5>1, <5>2, <4>2
      <3>3. lease' \in [LeaseIds -> LeaseRows]
        BY <1>0, <2>9, SetStatusType DEF UpdateManagedStore
      <3> QED
        BY <2>9, <3>2, <3>3, FinishType DEF UpdateManagedStore, TypeOK
    <2>10. CASE DeleteManagedStore(i)
      <3>1. store' \in [Stores -> StoreRows]
        BY <2>10, RowTypes DEF DeleteManagedStore, TypeOK
      <3>2. lease' \in [LeaseIds -> LeaseRows]
        BY <1>0, <2>10, SetStatusType DEF DeleteManagedStore
      <3> QED
        BY <2>10, <3>1, <3>2, FinishType DEF DeleteManagedStore, TypeOK
    <2>11. CASE ChangeUserPassword(i)
      <3>1. r.q.user \in Users
        BY <2>0, <2>11, QueryFields DEF ChangeUserPassword, Handling, AccountOps
      <3>2. user' \in [Users -> UserRows]
        <4>1. [user[r.q.user] EXCEPT !.ver = user[r.q.user].ver + 1] \in UserRows
          BY <2>11, <3>1, NextVersion, RowTypes DEF ChangeUserPassword
        <4> QED
          BY <2>11, <3>1, <4>1 DEF ChangeUserPassword, TypeOK
      <3>3. supersededAt' \in [Users -> [Versions -> Time]]
        BY <2>11, <3>1, <1>0 DEF ChangeUserPassword, Supersede, TypeOK
      <3>4. lease' \in [LeaseIds -> LeaseRows]
        BY <1>0, <2>11, SetStatusType DEF ChangeUserPassword
      <3> QED
        BY <2>11, <3>2, <3>3, <3>4, FinishType DEF ChangeUserPassword, TypeOK
    <2>12. CASE DeleteUser(i)
      <3>1. r.q.user \in Users
        BY <2>0, <2>12, QueryFields DEF DeleteUser, Handling, AccountOps
      <3>2. user' \in [Users -> UserRows]
        BY <2>12, <3>1, NextVersion DEF DeleteUser, TypeOK, UserRows
      <3>3. supersededAt' \in [Users -> [Versions -> Time]]
        BY <2>12, <3>1, <1>0 DEF DeleteUser, Supersede, TypeOK
      <3>4. lease' \in [LeaseIds -> LeaseRows]
        BY <1>0, <2>12, SetStatusType DEF DeleteUser
      <3>5. grants' \subseteq Users \X Nodes /\ ungrantedAt' \in [Users \X Nodes -> Time]
        BY <2>12, <3>1, <1>0 DEF DeleteUser, SetGrants, TypeOK
      <3> QED
        BY <2>12, <3>2, <3>3, <3>4, <3>5, FinishType DEF DeleteUser, TypeOK
    <2>13. CASE Rollback(i)
      BY <2>13, FinishType DEF Rollback, TypeOK
    <2> QED
      BY <1>2, <2>1, <2>2, <2>3, <2>4, <2>5, <2>6, <2>7, <2>8, <2>9, <2>10, <2>11, <2>12, <2>13
      DEF Handler
  <1>3. ASSUME NEW u \in Users, Login(u)
        PROVE  TypeOK'
    BY <1>3, <1>0 DEF Login, TypeOK, UserRows, Versions
  <1>4. ASSUME NEW u \in Users, NEW on \in BOOLEAN, BumpVersion(u, on)
        PROVE  TypeOK'
    <2>1. user' \in [Users -> UserRows]
      <3>1. [user[u] EXCEPT !.ver = user[u].ver + 1, !.enabled = on] \in UserRows
        BY <1>4, NextVersion, RowTypes DEF BumpVersion
      <3> QED
        BY <1>4, <3>1 DEF BumpVersion, TypeOK
    <2>2. supersededAt' \in [Users -> [Versions -> Time]]
      BY <1>4, <1>0 DEF BumpVersion, Supersede, TypeOK
    <2> QED
      BY <1>4, <2>1, <2>2 DEF BumpVersion, TypeOK
  <1>5. ASSUME NEW u \in Users, Logout(u) \/ DisableUser(u) \/ EnableUser(u)
        PROVE  TypeOK'
    <2>1. CASE Logout(u) \/ DisableUser(u)
      BY <1>4, <2>1 DEF Logout, DisableUser
    <2>2. CASE EnableUser(u)
      <3>1. user' \in [Users -> UserRows]
        BY <2>2, RowTypes DEF EnableUser, TypeOK
      <3> QED
        BY <2>2, <3>1 DEF EnableUser, TypeOK
    <2> QED
      BY <1>5, <2>1, <2>2
  <1>6. ASSUME NEW u \in Users, NEW ns \in SUBSET Nodes, ReplaceUserEdgeNodes(u, ns)
        PROVE  TypeOK'
    <2>1. grants' \subseteq Users \X Nodes /\ ungrantedAt' \in [Users \X Nodes -> Time]
      BY <1>6, <1>0 DEF ReplaceUserEdgeNodes, SetGrants, TypeOK
    <2> QED
      BY <1>6, <2>1 DEF ReplaceUserEdgeNodes, TypeOK
  <1>7. ASSUME NEW n \in Nodes, NEW b \in BOOLEAN, UpdateEdgeNode(n, b) \/ MonitorVerdict(n, b)
        PROVE  TypeOK'
    <2>1. node' \in [Nodes -> NodeRows]
      <3>1. CASE UpdateEdgeNode(n, b)
        BY <3>1 DEF UpdateEdgeNode, TypeOK, NodeRows
      <3>2. CASE MonitorVerdict(n, b)
        <4>1. node[n] \in NodeRows
          BY DEF TypeOK
        <4>2. [node[n] EXCEPT !.online = b] \in NodeRows
          BY <4>1, RowTypes
        <4> QED
          BY <3>2, <4>2 DEF MonitorVerdict, TypeOK
      <3> QED
        BY <1>7, <3>1, <3>2
    <2> QED
      BY <1>7, <2>1 DEF UpdateEdgeNode, MonitorVerdict, TypeOK
  <1>8. ASSUME Tick PROVE TypeOK'
    BY <1>8 DEF Tick, TypeOK, Time, ConstantsAssumption
  <1>9. ASSUME UNCHANGED vars PROVE TypeOK'
    BY <1>9 DEF vars, TypeOK
  <1> QED
    BY <1>1, <1>2, <1>3, <1>5, <1>6, <1>7, <1>8, <1>9 DEF Next

-----------------------------------------------------------------------------
(* What a step does to one row of the lease table.                           *)
Kept(l) ==
    /\ lease'[l].store = lease[l].store
    /\ lease'[l].user = lease[l].user
    /\ lease'[l].device = lease[l].device
    /\ lease'[l].status \in {lease[l].status} \cup Ended \cup {"deleted"}

Inserted(l) ==
    /\ lease[l].status = "none" /\ lease'[l].status = "active"
    /\ \A m \in LeaseIds \ {l} : Kept(m)
    /\ ~ \E m \in LeaseIds \ {l} :
          /\ lease'[m].status = "active" /\ lease'[m].store = lease'[l].store
          /\ lease'[m].user = lease'[l].user /\ lease'[m].device = lease'[l].device

LEMMA SetStatusRow ==
    ASSUME TypeOK, NEW rows, NEW st, NEW l \in LeaseIds
    PROVE  /\ SetStatus(lease, rows, st)[l].store = lease[l].store
           /\ SetStatus(lease, rows, st)[l].user = lease[l].user
           /\ SetStatus(lease, rows, st)[l].device = lease[l].device
           /\ SetStatus(lease, rows, st)[l].hb = lease[l].hb
           /\ SetStatus(lease, rows, st)[l].expires = lease[l].expires
           /\ SetStatus(lease, rows, st)[l].ver = lease[l].ver
           /\ SetStatus(lease, rows, st)[l].status = IF l \in rows THEN st ELSE lease[l].status
  BY DEF SetStatus, TypeOK, LeaseRows

(* Every step keeps each row's identity and at most ends it, or inserts one  *)
(* row that no active row duplicates.                                        *)
LEMMA LeaseStep ==
    ASSUME TypeOK, [Next]_vars
    PROVE  (\A l \in LeaseIds : Kept(l)) \/ (\E l \in LeaseIds : Inserted(l))
  <1>0. ASSUME UNCHANGED lease PROVE \A l \in LeaseIds : Kept(l)
    BY <1>0 DEF Kept
  <1>1. ASSUME NEW rows, NEW st \in Ended \cup {"deleted"}, lease' = SetStatus(lease, rows, st)
        PROVE  \A l \in LeaseIds : Kept(l)
    BY <1>1, SetStatusRow DEF Kept
  <1>2. ASSUME NEW rows, NEW more, lease' = SetStatus(SetStatus(lease, rows, "expired"), more, "disconnected")
        PROVE  \A l \in LeaseIds : Kept(l)
    <2> SUFFICES ASSUME NEW l \in LeaseIds PROVE Kept(l)
      OBVIOUS
    <2> DEFINE mid == SetStatus(lease, rows, "expired")
    <2>1. mid \in [LeaseIds -> LeaseRows]
      BY SetStatusType DEF TypeOK, Ended
    <2>2. /\ lease'[l].store = mid[l].store /\ lease'[l].user = mid[l].user
          /\ lease'[l].device = mid[l].device
          /\ lease'[l].status = IF l \in more THEN "disconnected" ELSE mid[l].status
      BY <1>2, <2>1 DEF SetStatus, LeaseRows
    <2> QED
      BY <2>2, SetStatusRow DEF Kept, Ended
  <1>3. ASSUME NEW rows, NEW l \in LeaseIds, NEW v,
               lease' = Renew(SetStatus(lease, rows, "expired"), l, v)
        PROVE  \A m \in LeaseIds : Kept(m)
    <2> SUFFICES ASSUME NEW m \in LeaseIds PROVE Kept(m)
      OBVIOUS
    <2> DEFINE mid == SetStatus(lease, rows, "expired")
    <2>1. mid \in [LeaseIds -> LeaseRows]
      BY SetStatusType DEF TypeOK, Ended
    <2>2. /\ lease'[m].store = mid[m].store /\ lease'[m].user = mid[m].user
          /\ lease'[m].device = mid[m].device /\ lease'[m].status = mid[m].status
      BY <1>3, <2>1 DEF Renew, LeaseRows
    <2> QED
      BY <2>2, SetStatusRow DEF Kept, Ended
  <1>4. ASSUME NEW i \in ReqIds, ConnectStore(i)
        PROVE  (\A l \in LeaseIds : Kept(l)) \/ (\E l \in LeaseIds : Inserted(l))
    <2> DEFINE r == req[i]
               q == r.q
               mine == ActiveStoreLease(r.snap.lease, q.store, q.user, q.device, clock)
               old == MarkedExpired(r.snap.lease, q.store, clock)
               flushed == SetStatus(lease, old, "expired")
    <2>1. CASE \E l \in mine : lease' = Renew(flushed, l, r.ver)
      BY <2>1, <1>3 DEF ActiveStoreLease, ActiveStoreLeases
    <2>2. ASSUME UniqueIndexAdmits(flushed, q.store, q.user, q.device),
                 NEW l \in LeaseIds, lease[l].status = "none",
                 lease' = [flushed EXCEPT ![l] =
                          [status |-> "active", store |-> q.store, user |-> q.user,
                           device |-> q.device, hb |-> clock,
                           expires |-> clock + LeaseTTL, ver |-> r.ver]]
          PROVE  Inserted(l)
      <3>1. flushed \in [LeaseIds -> LeaseRows]
        BY SetStatusType DEF TypeOK, Ended
      <3>2. /\ lease'[l].status = "active" /\ lease'[l].store = q.store
            /\ lease'[l].user = q.user /\ lease'[l].device = q.device
        BY <2>2, <3>1
      <3>3. \A m \in LeaseIds \ {l} : lease'[m] = flushed[m]
        BY <2>2, <3>1
      <3>4. \A m \in LeaseIds \ {l} : Kept(m)
        BY <3>3, SetStatusRow DEF Kept, Ended
      <3> QED
        BY <2>2, <3>2, <3>3, <3>4 DEF Inserted, UniqueIndexAdmits
    <2> QED
      BY <1>4, <2>1, <2>2 DEF ConnectStore
  <1>5. ASSUME NEW i \in ReqIds, Handler(i)
        PROVE  (\A l \in LeaseIds : Kept(l)) \/ (\E l \in LeaseIds : Inserted(l))
    <2> DEFINE r == req[i]
    <2>1. CASE HeartbeatStore(i)
      <3>1. r.q.lease \in LeaseIds
        BY <2>1 DEF HeartbeatStore, ActiveStoreLease, ActiveStoreLeases
      <3> QED
        BY <2>1, <3>1, <1>3 DEF HeartbeatStore
    <2>2. CASE TicketCheck(i)
      BY <2>2, <1>0, <1>1 DEF TicketCheck, Ended
    <2>3. CASE TicketIssue(i)
      BY <2>3, <1>0, <1>1 DEF TicketIssue, Ended
    <2>4. CASE DisconnectStore(i)
      BY <2>4, <1>2 DEF DisconnectStore
    <2>5. CASE ListOwnedStores(i)
      BY <2>5, <1>1 DEF ListOwnedStores, Ended
    <2>6. CASE ForceDisconnectStore(i)
      BY <2>6, <1>2 DEF ForceDisconnectStore
    <2>7. CASE ForceDisconnectLease(i)
      BY <2>7, <1>2 DEF ForceDisconnectLease
    <2>8. CASE UpdateManagedStore(i)
      BY <2>8, <1>1 DEF UpdateManagedStore, Ended
    <2>9. CASE DeleteManagedStore(i)
      BY <2>9, <1>1 DEF DeleteManagedStore
    <2>10. CASE ChangeUserPassword(i)
      BY <2>10, <1>1 DEF ChangeUserPassword, Ended
    <2>11. CASE DeleteUser(i)
      BY <2>11, <1>1 DEF DeleteUser, Ended
    <2>12. CASE Rollback(i)
      BY <2>12, <1>0 DEF Rollback
    <2> QED
      BY <1>4, <1>5, <2>1, <2>2, <2>3, <2>4, <2>5, <2>6, <2>7, <2>8, <2>9, <2>10, <2>11, <2>12
      DEF Handler
  <1>6. ASSUME ~ \E i \in ReqIds : Handler(i)
        PROVE  UNCHANGED lease
    BY <1>6 DEF Next, vars, Arrive, Login, Logout, DisableUser, EnableUser, BumpVersion,
         ReplaceUserEdgeNodes, UpdateEdgeNode, MonitorVerdict, Tick
  <1> QED
    BY <1>0, <1>5, <1>6

(* Every behaviour is well typed.                                            *)
THEOREM TypeCorrect == Spec => []TypeOK
  <1>1. Init => TypeOK
    BY InitType
  <1>2. TypeOK /\ [Next]_vars => TypeOK'
    BY TypeStep
  <1> QED
    BY <1>1, <1>2, PTL DEF Spec

(* No interleaving of connects, heartbeats and disconnections gives a device *)
(* two active leases of one store.                                           *)
THEOREM OneLease == Spec => []OneLeasePerDevice
  <1>1. Init => OneLeasePerDevice
    BY DEF Init, OneLeasePerDevice, Blank
  <1>2. ASSUME TypeOK, OneLeasePerDevice, [Next]_vars
        PROVE  OneLeasePerDevice'
    <2>1. CASE \A l \in LeaseIds : Kept(l)
      BY <1>2, <2>1 DEF OneLeasePerDevice, Kept, Ended
    <2>2. CASE \E l \in LeaseIds : Inserted(l)
      <3>1. PICK l \in LeaseIds : Inserted(l)
        BY <2>2
      <3>2. SUFFICES ASSUME NEW a \in LeaseIds, NEW b \in LeaseIds,
                            lease'[a].status = "active", lease'[b].status = "active",
                            lease'[a].store = lease'[b].store, lease'[a].user = lease'[b].user,
                            lease'[a].device = lease'[b].device
                     PROVE  a = b
        BY DEF OneLeasePerDevice
      <3>3. CASE a = l \/ b = l
        BY <3>1, <3>2, <3>3 DEF Inserted
      <3>4. CASE a # l /\ b # l
        BY <1>2, <3>1, <3>2, <3>4 DEF Inserted, Kept, Ended, OneLeasePerDevice
      <3> QED
        BY <3>3, <3>4
    <2> QED
      BY <1>2, <2>1, <2>2, LeaseStep
  <1> QED
    BY <1>1, <1>2, TypeCorrect, PTL DEF Spec

(* No request decided on an old snapshot revives an ended lease.             *)
THEOREM EndedForGood == Spec => EndedStaysEnded
  <1>1. ASSUME TypeOK, [Next]_vars
        PROVE  [\A l \in LeaseIds : lease[l].status \in Ended \cup {"deleted"}
                            => lease'[l].status \in Ended \cup {"deleted"}]_vars
    BY <1>1, LeaseStep DEF Kept, Inserted, Ended
  <1> QED
    BY <1>1, TypeCorrect, PTL DEF Spec, EndedStaysEnded

-----------------------------------------------------------------------------
(* Why tokens and grants lapse: the conjuncts of the inductive invariant.    *)

\* A snapshot shows rows as they were: their identity has not changed since,
\* their expiry has at most moved forward, and what had ended has stayed so.
SnapshotsArePast ==
    \A i \in ReqIds : req[i] # Idle =>
        \A l \in LeaseIds :
            LET was == req[i].snap.lease[l]
            IN  /\ was.expires <= lease[l].expires
                /\ was.status # "none" => /\ lease[l].status # "none"
                                          /\ lease[l].user = was.user
                                          /\ lease[l].store = was.store
                /\ was.status \in Ended \cup {"deleted"} => lease[l].status \in Ended \cup {"deleted"}

\* A member's request is young, and if its token has been superseded that
\* happened after it arrived.
RequestsYoung ==
    \A i \in ReqIds : req[i] # Idle =>
        LET r == req[i]
            u == r.q.user
        IN  /\ r.at <= clock /\ clock <= r.at + RequestMax
            /\ r.q.op \in MemberOps => /\ r.ver \in 1 .. user[u].ver
                                       /\ r.ver < user[u].ver => r.at <= supersededAt[u][r.ver]

\* Rows are dated no later than now, and a row whose token was superseded was
\* last renewed by a request that was in flight at that moment.
RowsDated ==
    \A l \in LeaseIds :
        LET row == lease[l]
            u == row.user
        IN  /\ row.hb <= clock /\ row.expires <= clock + LeaseTTL
            /\ row.status # "none" =>
                  /\ u \in Users /\ row.ver \in 1 .. user[u].ver
                  /\ row.ver < user[u].ver => row.hb <= supersededAt[u][row.ver] + RequestMax

\* The same for tickets.
TicketsDated ==
    \A t \in tickets :
        /\ t.exp <= clock + TicketTTL /\ t.ver \in 1 .. user[t.user].ver

\* A request that still sees a grant arrived before it was taken away.
GrantsYoung ==
    \A i \in ReqIds : req[i] # Idle =>
        \A g \in req[i].snap.grants : g \notin grants => req[i].at <= ungrantedAt[g]

\* A ticket request past its check saw an active lease and a node it may use.
TicketsChecked ==
    \A i \in ReqIds : req[i] # Idle /\ req[i].found # None =>
        LET r == req[i]
        IN  r.snap.lease[r.found].status = "active" /\ NodeAccessible(r.snap, r.q.user, r.q.store)

(* A superseded token and a revoked grant lose their hold on leases and      *)
(* tickets within the stated time, because everything they still feed        *)
(* entered the system before they ended.                                     *)
LapseInv ==
    /\ SnapshotsArePast /\ RequestsYoung /\ RowsDated /\ TicketsDated /\ GrantsYoung
    /\ TicketsChecked
    /\ SupersededTicketLapses /\ TicketWithinLease /\ RevokedGrantLapses

-----------------------------------------------------------------------------
(* What a step does to the dates of the lapse invariant.                     *)

\* Its token version, dates and owner are untouched, and so is whether it exists.
DatesKept(l) ==
    /\ lease'[l].hb = lease[l].hb /\ lease'[l].expires = lease[l].expires
    /\ lease'[l].ver = lease[l].ver /\ lease'[l].user = lease[l].user
    /\ lease'[l].status = "none" <=> lease[l].status = "none"

\* A member's request created or renewed it just now.
RenewedBy(l, i) ==
    /\ req[i] # Idle /\ req[i].q.op \in MemberOps
    /\ lease'[l].hb = clock /\ lease'[l].expires = clock + LeaseTTL
    /\ lease'[l].ver = req[i].ver /\ lease'[l].user = req[i].q.user
    /\ lease'[l].status # "none"
    /\ lease[l].status # "none" => lease[l].user = req[i].q.user
    /\ UNCHANGED <<clock, user, supersededAt>>

\* A user's token version stays, or moves on by one, which is recorded.
VersionStep(u) ==
    \/ user'[u].ver = user[u].ver /\ supersededAt'[u] = supersededAt[u]
    \/ /\ user'[u].ver = user[u].ver + 1
       /\ supersededAt'[u] = [supersededAt[u] EXCEPT ![user[u].ver] = clock]

\* A grant that is absent was absent, or its removal is recorded.
GrantStep(g) ==
    g \notin grants' => \/ g \notin grants /\ ungrantedAt'[g] = ungrantedAt[g]
                        \/ ungrantedAt'[g] = clock

\* A request that is in flight after the step.
Arrives(i, q) ==
    /\ req'[i] = [q |-> q, at |-> clock, snap |-> Snapshot, found |-> None, checked |-> clock,
                  ver |-> IF q.op \in MemberOps THEN token[q.user] ELSE 0]
    /\ q.op \in MemberOps => TokenAccepted(q.user)
    /\ UNCHANGED <<clock, user, token, grants, lease, supersededAt, ungrantedAt>>

Checks(i, l) ==
    /\ req[i] # Idle
    /\ req'[i] = [req[i] EXCEPT !.found = l, !.checked = clock]
    /\ req[i].snap.lease[l].status = "active"
    /\ NodeAccessible(req[i].snap, req[i].q.user, req[i].q.store)

RequestStep(i) ==
    \/ req'[i] = req[i]
    \/ req'[i] = Idle
    \/ \E q \in Queries : Arrives(i, q)
    \/ \E l \in LeaseIds : Checks(i, l)

\* The ticket a request obtains.
Issues(i, t) ==
    /\ req[i] # Idle /\ req[i].q.op = "ticket" /\ req[i].found \in LeaseIds
    /\ req[i].snap.lease[req[i].found].expires > clock
    /\ t = [lease |-> req[i].found, user |-> req[i].q.user, store |-> req[i].q.store,
            node |-> req[i].snap.store[req[i].q.store].node, ver |-> req[i].ver,
            exp |-> clock + TicketSeconds(req[i].snap.lease[req[i].found].expires - clock)]
    /\ UNCHANGED <<clock, user, grants, supersededAt, ungrantedAt>>

\* Time stands still or moves on by one, within every request's life.
ClockStep ==
    \/ clock' = clock
    \/ /\ clock' = clock + 1
       /\ \A i \in ReqIds : req[i] # Idle => clock + 1 <= req[i].at + RequestMax
       /\ req' = req

(* The actions outside the handlers leave the leases and tickets alone.      *)
LEMMA OnlyHandlersWrite ==
    ASSUME [Next]_vars, ~ \E i \in ReqIds : Handler(i)
    PROVE  UNCHANGED <<lease, tickets>>
  BY DEF Next, vars, Arrive, Login, Logout, DisableUser, EnableUser, BumpVersion,
         ReplaceUserEdgeNodes, UpdateEdgeNode, MonitorVerdict, Tick

(* Time.                                                                     *)
LEMMA ClockSteps == ASSUME [Next]_vars PROVE ClockStep
  <1>1. ASSUME NEW i \in ReqIds, Handler(i) PROVE clock' = clock
    BY <1>1 DEF Handler, LeaseOnly, ConnectStore, HeartbeatStore, TicketCheck, TicketIssue,
         DisconnectStore, ListOwnedStores, ForceDisconnectStore, ForceDisconnectLease,
         UpdateManagedStore, DeleteManagedStore, ChangeUserPassword, DeleteUser, Rollback
  <1>2. CASE Tick
    BY <1>2 DEF Tick, ClockStep
  <1>3. ASSUME ~Tick, ~ \E i \in ReqIds : Handler(i) PROVE clock' = clock
    BY <1>3 DEF Next, vars, Arrive, Login, Logout, DisableUser, EnableUser, BumpVersion,
         ReplaceUserEdgeNodes, UpdateEdgeNode, MonitorVerdict
  <1> QED
    BY <1>1, <1>2, <1>3 DEF ClockStep

(* Grants.                                                                   *)
LEMMA GrantSteps ==
    ASSUME TypeOK, [Next]_vars, NEW g \in Users \X Nodes
    PROVE  GrantStep(g)
  <1>1. ASSUME NEW u, NEW ns, SetGrants(u, ns) PROVE GrantStep(g)
    BY <1>1 DEF SetGrants, GrantStep
  <1>2. ASSUME UNCHANGED <<grants, ungrantedAt>> PROVE GrantStep(g)
    BY <1>2 DEF GrantStep
  <1>3. ASSUME NEW i \in ReqIds, Handler(i) PROVE GrantStep(g)
    <2>1. CASE DeleteUser(i)
      BY <2>1, <1>1 DEF DeleteUser
    <2>2. CASE ~DeleteUser(i)
      BY <1>3, <2>2, <1>2 DEF Handler, LeaseOnly, ConnectStore, HeartbeatStore, TicketCheck,
         TicketIssue, DisconnectStore, ListOwnedStores, ForceDisconnectStore, ForceDisconnectLease,
         UpdateManagedStore, DeleteManagedStore, ChangeUserPassword, Rollback
    <2> QED
      BY <2>1, <2>2
  <1>4. ASSUME NEW u \in Users, NEW ns \in SUBSET Nodes, ReplaceUserEdgeNodes(u, ns)
        PROVE  GrantStep(g)
    BY <1>4, <1>1 DEF ReplaceUserEdgeNodes
  <1>5. ASSUME ~ \E i \in ReqIds : Handler(i),
               ~ \E u \in Users, ns \in SUBSET Nodes : ReplaceUserEdgeNodes(u, ns)
        PROVE  GrantStep(g)
    BY <1>5, <1>2 DEF Next, vars, Arrive, Login, Logout, DisableUser, EnableUser, BumpVersion,
         UpdateEdgeNode, MonitorVerdict, Tick
  <1> QED
    BY <1>3, <1>4, <1>5

(* Token versions.                                                           *)
LEMMA VersionSteps ==
    ASSUME TypeOK, [Next]_vars, NEW u \in Users
    PROVE  VersionStep(u)
  <1> USE DEF VersionStep
  <1>1. ASSUME UNCHANGED <<user, supersededAt>> PROVE VersionStep(u)
    BY <1>1
  <1>2. ASSUME NEW w \in Users, Supersede(w), user' = [user EXCEPT ![w] = user'[w]],
               user'[w].ver = user[w].ver + 1
        PROVE  VersionStep(u)
    BY <1>2 DEF Supersede, TypeOK
  <1>3. ASSUME NEW i \in ReqIds, Handler(i) PROVE VersionStep(u)
    <2>0. req[i] # Idle => req[i].q \in Queries
      BY RunningType DEF Requests
    <2>1. CASE ChangeUserPassword(i)
      <3>1. req[i].q.user \in Users
        BY <2>0, <2>1, QueryFields DEF ChangeUserPassword, Handling, AccountOps
      <3>2. user[req[i].q.user] \in UserRows
        BY <3>1 DEF TypeOK
      <3> QED
        BY <2>1, <3>1, <3>2, <1>2 DEF ChangeUserPassword, TypeOK, UserRows
    <2>2. CASE DeleteUser(i)
      <3>1. req[i].q.user \in Users
        BY <2>0, <2>2, QueryFields DEF DeleteUser, Handling, AccountOps
      <3> QED
        BY <2>2, <3>1, <1>2 DEF DeleteUser, TypeOK
    <2>3. CASE ~DeleteUser(i) /\ ~ChangeUserPassword(i)
      BY <1>3, <2>3, <1>1 DEF Handler, LeaseOnly, ConnectStore, HeartbeatStore, TicketCheck,
         TicketIssue, DisconnectStore, ListOwnedStores, ForceDisconnectStore, ForceDisconnectLease,
         UpdateManagedStore, DeleteManagedStore, Rollback
    <2> QED
      BY <2>1, <2>2, <2>3
  <1>4. ASSUME NEW w \in Users, NEW on, BumpVersion(w, on) PROVE VersionStep(u)
    <2>1. user[w] \in UserRows
      BY DEF TypeOK
    <2> QED
      BY <1>4, <2>1, <1>2 DEF BumpVersion, TypeOK, UserRows
  <1>5. ASSUME NEW w \in Users, Logout(w) \/ DisableUser(w) \/ EnableUser(w) PROVE VersionStep(u)
    <2>1. CASE EnableUser(w)
      <3>1. user[w] \in UserRows
        BY DEF TypeOK
      <3> QED
        BY <2>1, <3>1 DEF EnableUser, TypeOK, UserRows
    <2> QED
      BY <1>4, <1>5, <2>1 DEF Logout, DisableUser
  <1>6. ASSUME ~ \E i \in ReqIds : Handler(i),
               ~ \E w \in Users : Logout(w) \/ DisableUser(w) \/ EnableUser(w)
        PROVE  VersionStep(u)
    BY <1>6, <1>1 DEF Next, vars, Arrive, Login, ReplaceUserEdgeNodes,
         UpdateEdgeNode, MonitorVerdict, Tick
  <1> QED
    BY <1>3, <1>5, <1>6

(* Requests: a handler ends its own request, or passes the ticket check.     *)
LEMMA RequestSteps ==
    ASSUME TypeOK, [Next]_vars, NEW j \in ReqIds
    PROVE  RequestStep(j)
  <1>1. ASSUME NEW i \in ReqIds, Finish(i) PROVE RequestStep(j)
    BY <1>1 DEF Finish, RequestStep, TypeOK
  <1>2. ASSUME NEW i \in ReqIds, Handler(i) PROVE RequestStep(j)
    <2>1. CASE TicketCheck(i)
      <3> DEFINE r == req[i]
                 leases == RequestedStoreLease(r.snap.lease, r.q, clock)
      <3>1. CASE Finish(i)
        BY <3>1, <1>1
      <3>2. CASE \E l \in leases : req' = [req EXCEPT ![i] = [@ EXCEPT !.found = l, !.checked = clock]]
        <4>1. PICK l \in leases : req' = [req EXCEPT ![i] = [@ EXCEPT !.found = l, !.checked = clock]]
          BY <3>2
        <4>2. l \in LeaseIds /\ r.snap.lease[l].status = "active"
          BY DEF RequestedStoreLease, ActiveStoreLeases, Live
        <4>3. CASE j = i
          <5>1. Checks(j, l)
            BY <2>1, <4>1, <4>2, <4>3 DEF TicketCheck, Handling, Checks, TypeOK
          <5> QED
            BY <5>1, <4>2 DEF RequestStep
        <4>4. CASE j # i
          BY <4>1, <4>4 DEF RequestStep, TypeOK
        <4> QED
          BY <4>3, <4>4
      <3> QED
        BY <2>1, <3>1, <3>2 DEF TicketCheck
    <2>2. CASE ~TicketCheck(i)
      BY <1>2, <2>2, <1>1 DEF Handler, ConnectStore, HeartbeatStore, TicketIssue,
         DisconnectStore, ListOwnedStores, ForceDisconnectStore, ForceDisconnectLease,
         UpdateManagedStore, DeleteManagedStore, ChangeUserPassword, DeleteUser, Rollback
    <2> QED
      BY <2>1, <2>2
  <1>3. ASSUME NEW i \in ReqIds, NEW q \in Queries, Arrive(i, q) PROVE RequestStep(j)
    <2>1. CASE j = i
      BY <1>3, <2>1 DEF Arrive, Arrives, RequestStep, TypeOK
    <2>2. CASE j # i
      BY <1>3, <2>2 DEF Arrive, RequestStep, TypeOK
    <2> QED
      BY <2>1, <2>2
  <1>4. ASSUME ~ \E i \in ReqIds : Handler(i), ~ \E i \in ReqIds, q \in Queries : Arrive(i, q)
        PROVE  req' = req
    BY <1>4 DEF Next, vars, Login, Logout, DisableUser, EnableUser, BumpVersion,
         ReplaceUserEdgeNodes, UpdateEdgeNode, MonitorVerdict, Tick
  <1> QED
    BY <1>2, <1>3, <1>4 DEF RequestStep

(* Tickets: at most one is issued.                                           *)
LEMMA TicketSteps ==
    ASSUME TypeOK, [Next]_vars, NEW t \in tickets'
    PROVE  t \in tickets \/ \E i \in ReqIds : Issues(i, t)
  <1>1. ASSUME NEW i \in ReqIds, Handler(i) PROVE t \in tickets \/ Issues(i, t)
    <2>1. CASE TicketIssue(i)
      <3> DEFINE r == req[i]
                 remaining == r.snap.lease[r.found].expires - clock
      <3>1. CASE remaining > 0
        <4>0. r # Idle /\ r.q.op = "ticket" /\ r.found # None
          BY <2>1 DEF TicketIssue, Handling
        <4>1. r.found \in LeaseIds /\ r.snap.lease \in [LeaseIds -> LeaseRows] /\ clock \in Int
          BY <4>0, RunningType DEF Requests, Snapshots, TypeOK, Time
        <4>2. r.snap.lease[r.found].expires \in Int
          BY <4>1 DEF LeaseRows
        <4>3. r.snap.lease[r.found].expires > clock
          BY <4>1, <4>2, <3>1
        <4>4. t \in tickets \/ t = [lease |-> r.found, user |-> r.q.user, store |-> r.q.store,
                     node |-> r.snap.store[r.q.store].node, ver |-> r.ver,
                     exp |-> clock + TicketSeconds(remaining)]
          BY <2>1 DEF TicketIssue
        <4>5. UNCHANGED <<clock, user, grants, supersededAt, ungrantedAt>>
          BY <2>1 DEF TicketIssue
        <4> QED
          BY <4>0, <4>1, <4>3, <4>4, <4>5 DEF Issues
      <3>2. CASE ~(remaining > 0)
        BY <2>1, <3>2 DEF TicketIssue
      <3> QED
        BY <3>1, <3>2
    <2>2. CASE ~TicketIssue(i)
      BY <1>1, <2>2 DEF Handler, LeaseOnly, ConnectStore, HeartbeatStore, TicketCheck,
         DisconnectStore, ListOwnedStores, ForceDisconnectStore, ForceDisconnectLease,
         UpdateManagedStore, DeleteManagedStore, ChangeUserPassword, DeleteUser, Rollback
    <2> QED
      BY <2>1, <2>2
  <1> QED
    BY <1>1, OnlyHandlersWrite

(* Rows: what a handler marks it saw in its snapshot, so it exists; what it  *)
(* renews belongs to its caller.                                             *)
LEMMA DateSteps ==
    ASSUME TypeOK, SnapshotsArePast, TicketsChecked, [Next]_vars, NEW m \in LeaseIds
    PROVE  DatesKept(m) \/ \E i \in ReqIds : RenewedBy(m, i)
  <1> DEFINE Seen(i) == {l \in LeaseIds : req[i].snap.lease[l].status # "none"}
  <1>0. ASSUME UNCHANGED lease PROVE DatesKept(m)
    BY <1>0 DEF DatesKept
  <1>1. ASSUME NEW i \in ReqIds, req[i] # Idle, NEW rows \in SUBSET Seen(i),
               NEW st \in Ended \cup {"deleted"}, lease' = SetStatus(lease, rows, st)
        PROVE  DatesKept(m)
    <2>1. m \in rows => lease[m].status # "none"
      BY <1>1 DEF SnapshotsArePast
    <2> QED
      BY <1>1, <2>1, SetStatusRow DEF DatesKept, Ended
  <1>2. ASSUME NEW i \in ReqIds, req[i] # Idle, NEW rows \in SUBSET Seen(i), NEW more \in SUBSET Seen(i),
               lease' = SetStatus(SetStatus(lease, rows, "expired"), more, "disconnected")
        PROVE  DatesKept(m)
    <2> DEFINE mid == SetStatus(lease, rows, "expired")
    <2>1. mid \in [LeaseIds -> LeaseRows]
      BY SetStatusType DEF TypeOK, Ended
    <2>2. /\ lease'[m].hb = mid[m].hb /\ lease'[m].user = mid[m].user
          /\ lease'[m].expires = mid[m].expires /\ lease'[m].ver = mid[m].ver
          /\ lease'[m].status = IF m \in more THEN "disconnected" ELSE mid[m].status
      BY <1>2, <2>1 DEF SetStatus, LeaseRows
    <2>3. m \in rows \cup more => lease[m].status # "none"
      BY <1>2 DEF SnapshotsArePast
    <2> QED
      BY <2>2, <2>3, SetStatusRow DEF DatesKept
  <1>3. ASSUME NEW i \in ReqIds, req[i] # Idle, req[i].q.op \in MemberOps, LeaseOnly,
               NEW rows \in SUBSET Seen(i), NEW l \in Seen(i),
               req[i].snap.lease[l].user = req[i].q.user,
               lease' = Renew(SetStatus(lease, rows, "expired"), l, req[i].ver)
        PROVE  DatesKept(m) \/ RenewedBy(m, i)
    <2> DEFINE mid == SetStatus(lease, rows, "expired")
    <2>1. mid \in [LeaseIds -> LeaseRows]
      BY SetStatusType DEF TypeOK, Ended
    <2>2. m \in rows \cup {l} => lease[m].status # "none"
      BY <1>3 DEF SnapshotsArePast
    <2>3. lease[l].user = req[i].q.user
      BY <1>3 DEF SnapshotsArePast
    <2>4. mid[m].status = "none" <=> lease[m].status = "none"
      BY <2>2, SetStatusRow
    <2>5. CASE m = l
      <3>1. /\ lease'[m].hb = clock /\ lease'[m].expires = clock + LeaseTTL
            /\ lease'[m].ver = req[i].ver /\ lease'[m].user = mid[m].user
            /\ lease'[m].status = mid[m].status
        BY <1>3, <2>1, <2>5 DEF Renew, LeaseRows
      <3> QED
        BY <1>3, <2>2, <2>3, <2>4, <2>5, <3>1, SetStatusRow DEF RenewedBy, LeaseOnly
    <2>6. CASE m # l
      <3>1. lease'[m] = mid[m]
        BY <1>3, <2>1, <2>6 DEF Renew
      <3> QED
        BY <3>1, <2>4, SetStatusRow DEF DatesKept
    <2> QED
      BY <2>5, <2>6
  <1>4. ASSUME NEW i, NEW s, NEW now PROVE MarkedExpired(req[i].snap.lease, s, now) \subseteq Seen(i)
    BY DEF MarkedExpired
  <1>5. ASSUME NEW i, NEW s, NEW now PROVE ActiveStoreLeases(req[i].snap.lease, s, now) \subseteq Seen(i)
    BY DEF ActiveStoreLeases, Live
  <1>6. ASSUME NEW i \in ReqIds, ConnectStore(i)
        PROVE  DatesKept(m) \/ RenewedBy(m, i)
    <2> DEFINE r == req[i]
               q == r.q
               mine == ActiveStoreLease(r.snap.lease, q.store, q.user, q.device, clock)
               old == MarkedExpired(r.snap.lease, q.store, clock)
               flushed == SetStatus(lease, old, "expired")
    <2>0. r # Idle /\ q.op \in MemberOps /\ LeaseOnly
      BY <1>6 DEF ConnectStore, Handling, MemberOps
    <2>1. old \subseteq Seen(i)
      BY <1>4
    <2>2. CASE \E l \in mine : lease' = Renew(flushed, l, r.ver)
      <3>1. PICK l \in mine : lease' = Renew(flushed, l, r.ver)
        BY <2>2
      <3>2. l \in Seen(i) /\ r.snap.lease[l].user = q.user
        BY <1>5 DEF ActiveStoreLease
      <3> QED
        BY <2>0, <2>1, <3>1, <3>2, <1>3
    <2>3. ASSUME NEW l \in LeaseIds, lease[l].status = "none",
                 lease' = [flushed EXCEPT ![l] =
                          [status |-> "active", store |-> q.store, user |-> q.user,
                           device |-> q.device, hb |-> clock,
                           expires |-> clock + LeaseTTL, ver |-> r.ver]]
          PROVE  DatesKept(m) \/ RenewedBy(m, i)
      <3>1. flushed \in [LeaseIds -> LeaseRows]
        BY SetStatusType DEF TypeOK, Ended
      <3>2. CASE m = l
        BY <2>0, <2>3, <3>1, <3>2 DEF RenewedBy, LeaseOnly
      <3>3. CASE m # l
        <4>1. lease'[m] = flushed[m]
          BY <2>3, <3>1, <3>3
        <4>2. m \in old => lease[m].status # "none"
          BY <2>0, <2>1 DEF SnapshotsArePast
        <4> QED
          BY <4>1, <4>2, SetStatusRow DEF DatesKept
      <3> QED
        BY <3>2, <3>3
    <2> QED
      BY <1>6, <2>2, <2>3 DEF ConnectStore
  <1>7. ASSUME NEW i \in ReqIds, HeartbeatStore(i)
        PROVE  DatesKept(m) \/ RenewedBy(m, i)
    <2>0. req[i] # Idle /\ req[i].q.op \in MemberOps /\ LeaseOnly
      BY <1>7 DEF HeartbeatStore, Handling, MemberOps
    <2>1. req[i].q.lease \in Seen(i) /\ req[i].snap.lease[req[i].q.lease].user = req[i].q.user
      BY <1>7, <1>5 DEF HeartbeatStore, ActiveStoreLease
    <2> QED
      BY <1>7, <2>0, <2>1, <1>3, <1>4 DEF HeartbeatStore
  <1>8. ASSUME NEW i \in ReqIds, Handler(i)
        PROVE  DatesKept(m) \/ RenewedBy(m, i)
    <2> DEFINE r == req[i]
    <2>0. r # Idle
      BY <1>8 DEF Handler, Handling, ConnectStore, HeartbeatStore, TicketCheck, TicketIssue,
           DisconnectStore, ListOwnedStores, ForceDisconnectStore, ForceDisconnectLease,
           UpdateManagedStore, DeleteManagedStore, ChangeUserPassword, DeleteUser, Rollback
    <2>2. CASE TicketCheck(i)
      BY <2>0, <2>2, <1>0, <1>1, <1>4 DEF TicketCheck, Ended
    <2>3. CASE TicketIssue(i)
      <3>1. r.found \in LeaseIds
        BY <2>3, <2>0, RunningType DEF TicketIssue, Requests
      <3>2. {r.found} \subseteq Seen(i)
        BY <2>0, <2>3, <3>1 DEF TicketIssue, TicketsChecked
      <3>3. \E rows \in SUBSET Seen(i) : lease' = SetStatus(lease, rows, "expired")
        BY <2>3, <3>2, <1>4, Zenon DEF TicketIssue
      <3> QED
        BY <2>0, <3>3, <1>1 DEF Ended
    <2>4. CASE DisconnectStore(i)
      <3>1. RequestedStoreLease(r.snap.lease, r.q, clock) \subseteq Seen(i)
        BY <1>5 DEF RequestedStoreLease
      <3> QED
        BY <2>0, <2>4, <3>1, <1>2, <1>4 DEF DisconnectStore
    <2>5. CASE ListOwnedStores(i)
      <3> DEFINE old == UNION {MarkedExpired(r.snap.lease, s, clock) :
                                 s \in {t \in Stores : NodeAccessible(r.snap, r.q.user, t)}}
      <3>1. old \subseteq Seen(i)
        BY <1>4
      <3> QED
        BY <2>0, <2>5, <3>1, <1>1 DEF ListOwnedStores, Ended
    <2>6. CASE ForceDisconnectStore(i)
      BY <2>0, <2>6, <1>2, <1>4, <1>5 DEF ForceDisconnectStore
    <2>7. CASE ForceDisconnectLease(i)
      <3>1. {r.q.lease} \subseteq Seen(i)
        BY <2>7, <1>5 DEF ForceDisconnectLease
      <3>2. PICK old \in SUBSET Seen(i) :
                lease' = SetStatus(SetStatus(lease, old, "expired"), {r.q.lease}, "disconnected")
        BY <2>7, <1>4 DEF ForceDisconnectLease
      <3> QED
        BY <2>0, <3>1, <3>2, <1>2
    <2>8. CASE UpdateManagedStore(i)
      <3>1. \E rows \in SUBSET Seen(i) : lease' = SetStatus(lease, rows, "expired")
        BY <2>8, <1>4 DEF UpdateManagedStore
      <3> QED
        BY <2>0, <3>1, <1>1 DEF Ended
    <2>9. CASE DeleteManagedStore(i)
      <3> DEFINE history == {l \in LeaseIds : r.snap.lease[l].store = r.q.store
                                     /\ r.snap.lease[l].status \notin {"none", "deleted"}}
      <3>1. history \subseteq Seen(i)
        OBVIOUS
      <3> QED
        BY <2>0, <2>9, <3>1, <1>1 DEF DeleteManagedStore
    <2>10. CASE ChangeUserPassword(i) \/ DeleteUser(i)
      <3>1. OwnedActive(r.snap.lease, r.q.user) \subseteq Seen(i)
        BY DEF OwnedActive
      <3>2. lease' = SetStatus(lease, OwnedActive(r.snap.lease, r.q.user), "disconnected")
        BY <2>10 DEF ChangeUserPassword, DeleteUser
      <3> QED
        BY <2>0, <3>1, <3>2, <1>1 DEF Ended
    <2>11. CASE Rollback(i)
      BY <2>11, <1>0 DEF Rollback
    <2> QED
      BY <1>6, <1>7, <1>8, <2>2, <2>3, <2>4, <2>5, <2>6, <2>7, <2>8, <2>9, <2>10, <2>11
      DEF Handler
  <1> QED
    BY <1>0, <1>8, OnlyHandlersWrite

-----------------------------------------------------------------------------
(* The lapse invariant, conjunct by conjunct.                                *)

(* Constants and the types of the fields the arithmetic is about.            *)
LEMMA Numbers ==
    ASSUME TypeOK
    PROVE  /\ clock \in Nat /\ LeaseTTL \in Nat /\ TicketTTL \in Nat /\ RequestMax \in Nat
           /\ HeartbeatTimeout \in Nat /\ MaxVersion \in Nat
           /\ \A u \in Users : user[u].ver \in Versions
           /\ \A u \in Users, v \in Versions : supersededAt[u][v] \in Nat
           /\ \A g \in Users \X Nodes : ungrantedAt[g] \in Nat
           /\ \A l \in LeaseIds : /\ lease[l].hb \in Nat /\ lease[l].expires \in Int
                                  /\ lease[l].ver \in Nat
           /\ \A t \in tickets : /\ t.exp \in Int /\ t.ver \in Nat /\ t.user \in Users
                                 /\ t.node \in Nodes /\ t.lease \in LeaseIds
           /\ \A i \in ReqIds : req[i] # Idle =>
                  /\ req[i].at \in Nat /\ req[i].ver \in Nat /\ req[i].q \in Queries
                  /\ req[i].snap.grants \subseteq Users \X Nodes
                  /\ \A l \in LeaseIds : req[i].snap.lease[l].expires \in Int
                  /\ \A s \in Stores : req[i].snap.store[s].node \in Nodes
  <1>1. clock \in Nat /\ LeaseTTL \in Nat /\ TicketTTL \in Nat /\ RequestMax \in Nat
        /\ HeartbeatTimeout \in Nat /\ MaxVersion \in Nat
    BY ConstantsAssumption DEF ConstantsAssumption, TypeOK, Time
  <1>2. \A u \in Users : user[u].ver \in Versions
    BY DEF TypeOK, UserRows
  <1>3. /\ \A u \in Users, v \in Versions : supersededAt[u][v] \in Nat
        /\ \A g \in Users \X Nodes : ungrantedAt[g] \in Nat
    BY DEF TypeOK, Time
  <1>4. \A l \in LeaseIds : /\ lease[l].hb \in Nat /\ lease[l].expires \in Int
                            /\ lease[l].ver \in Nat
    BY DEF TypeOK, LeaseRows, Time
  <1>5. \A t \in tickets : /\ t.exp \in Int /\ t.ver \in Nat /\ t.user \in Users
                           /\ t.node \in Nodes /\ t.lease \in LeaseIds
    BY DEF TypeOK, Tickets
  <1>6. ASSUME NEW i \in ReqIds, req[i] # Idle
        PROVE  /\ req[i].at \in Nat /\ req[i].ver \in Nat /\ req[i].q \in Queries
               /\ req[i].snap.grants \subseteq Users \X Nodes
               /\ \A l \in LeaseIds : req[i].snap.lease[l].expires \in Int
               /\ \A s \in Stores : req[i].snap.store[s].node \in Nodes
    <2>1. req[i] \in Requests
      BY <1>6, RunningType
    <2> QED
      BY <2>1 DEF Requests, Snapshots, LeaseRows, StoreRows, Time
  <1> QED
    BY <1>1, <1>2, <1>3, <1>4, <1>5, <1>6

(* A lease's expiry never moves back.                                        *)
LEMMA ExpiryGrows ==
    ASSUME TypeOK, LapseInv, [Next]_vars, NEW l \in LeaseIds
    PROVE  /\ lease[l].expires <= lease'[l].expires
           /\ lease[l].status # "none" => /\ lease'[l].status # "none"
                                          /\ lease'[l].user = lease[l].user
  <1>1. lease[l].expires <= clock + LeaseTTL /\ lease[l].expires \in Int
    BY Numbers DEF LapseInv, RowsDated
  <1>2. DatesKept(l) \/ \E i \in ReqIds : RenewedBy(l, i)
    BY DateSteps DEF LapseInv
  <1>3. CASE DatesKept(l)
    BY <1>1, <1>3 DEF DatesKept
  <1>4. CASE \E i \in ReqIds : RenewedBy(l, i)
    BY <1>1, <1>4 DEF RenewedBy
  <1> QED
    BY <1>2, <1>3, <1>4

(* Whatever was dated before version v of the token was superseded stays so: *)
(* a version that is superseded in this step is superseded now.              *)
LEMMA StillBefore ==
    ASSUME TypeOK, [Next]_vars, NEW u \in Users, NEW v \in 1 .. user[u].ver, NEW x \in Int, NEW y \in Int,
           x <= clock + y, v < user[u].ver => x <= supersededAt[u][v] + y
    PROVE  /\ v \in 1 .. user'[u].ver
           /\ v < user'[u].ver => x <= supersededAt'[u][v] + y
  <1>1. /\ user[u].ver \in Nat /\ MaxVersion \in Nat /\ user[u].ver \in Versions
        /\ supersededAt[u] \in [Versions -> Time]
    BY Numbers DEF TypeOK, Versions
  <1>2. v \in Versions
    BY <1>1 DEF Versions
  <1>3. CASE user'[u].ver = user[u].ver /\ supersededAt'[u] = supersededAt[u]
    BY <1>3
  <1>4. CASE /\ user'[u].ver = user[u].ver + 1
             /\ supersededAt'[u] = [supersededAt[u] EXCEPT ![user[u].ver] = clock]
    <2>1. CASE v = user[u].ver
      <3>1. supersededAt'[u][v] = clock
        BY <1>1, <1>4, <2>1
      <3> QED
        BY <1>1, <1>4, <2>1, <3>1
    <2>2. CASE v < user[u].ver
      <3>1. supersededAt'[u][v] = supersededAt[u][v]
        BY <1>1, <1>2, <1>4, <2>2
      <3> QED
        BY <1>1, <1>4, <2>2, <3>1
    <2> QED
      BY <1>1, <2>1, <2>2
  <1> QED
    BY <1>3, <1>4, VersionSteps DEF VersionStep

LEMMA SnapshotsArePastStep ==
    ASSUME TypeOK, TypeOK', LapseInv, [Next]_vars
    PROVE  SnapshotsArePast'
  <1> DEFINE Over == Ended \cup {"deleted"}
  <1> SUFFICES ASSUME NEW i \in ReqIds, req'[i] # Idle, NEW l \in LeaseIds
               PROVE  LET was == req'[i].snap.lease[l]
                      IN  /\ was.expires <= lease'[l].expires
                          /\ was.status # "none" => /\ lease'[l].status # "none"
                                                    /\ lease'[l].user = was.user
                                                    /\ lease'[l].store = was.store
                          /\ was.status \in Over => lease'[l].status \in Over
    BY DEF SnapshotsArePast
  <1>1. CASE req[i] # Idle /\ req'[i].snap = req[i].snap
    <2>1. /\ req[i].snap.lease[l].expires <= lease[l].expires
          /\ req[i].snap.lease[l].status # "none" =>
                /\ lease[l].status # "none" /\ lease[l].user = req[i].snap.lease[l].user
                /\ lease[l].store = req[i].snap.lease[l].store
          /\ req[i].snap.lease[l].status \in Over => lease[l].status \in Over
      BY <1>1 DEF LapseInv, SnapshotsArePast
    <2>2. lease[l].expires \in Int /\ lease'[l].expires \in Int /\ req[i].snap.lease[l].expires \in Int
      BY <1>1, Numbers DEF TypeOK, LeaseRows
    <2>3. /\ lease[l].status # "none" => lease'[l].store = lease[l].store
          /\ lease[l].status \in Over => lease'[l].status \in Over
      BY LeaseStep DEF Kept, Inserted, Ended
    <2> QED
      BY <1>1, <2>1, <2>2, <2>3, ExpiryGrows
  <1>2. ASSUME NEW q \in Queries, Arrives(i, q)
        PROVE  req'[i].snap.lease[l] = lease'[l] /\ lease'[l].expires \in Int /\ lease'[l].status = lease[l].status
    BY <1>2, Numbers DEF Arrives, Snapshot
  <1>3. ASSUME NEW m \in LeaseIds, Checks(i, m)
        PROVE  req[i] # Idle /\ req'[i].snap = req[i].snap
    BY <1>3, RunningType DEF Checks, Requests
  <1> QED
    BY <1>1, <1>2, <1>3, RequestSteps DEF RequestStep

LEMMA RequestsYoungStep ==
    ASSUME TypeOK, TypeOK', LapseInv, [Next]_vars
    PROVE  RequestsYoung'
  <1> DEFINE Young(r) == /\ r.at <= clock' /\ clock' <= r.at + RequestMax
                         /\ r.q.op \in MemberOps =>
                               /\ r.ver \in 1 .. user'[r.q.user].ver
                               /\ r.ver < user'[r.q.user].ver => r.at <= supersededAt'[r.q.user][r.ver]
  <1> SUFFICES ASSUME NEW i \in ReqIds, req'[i] # Idle
               PROVE  Young(req'[i])
    BY DEF RequestsYoung
  <1>1. ASSUME req[i] # Idle, clock' = clock \/ (clock' = clock + 1 /\ clock + 1 <= req[i].at + RequestMax)
        PROVE  Young(req[i])
    <2> DEFINE r == req[i]
               u == r.q.user
    <2>0. /\ clock \in Nat /\ RequestMax \in Nat /\ r.at \in Nat /\ r.ver \in Nat /\ r.q \in Queries
          /\ MaxVersion \in Nat
      BY <1>1, Numbers
    <2>1. r.at <= clock /\ clock <= r.at + RequestMax
      BY <1>1 DEF LapseInv, RequestsYoung
    <2>2. r.at <= clock' /\ clock' <= r.at + RequestMax
      BY <2>0, <2>1, <1>1
    <2>3. ASSUME r.q.op \in MemberOps
          PROVE  /\ r.ver \in 1 .. user'[u].ver
                 /\ r.ver < user'[u].ver => r.at <= supersededAt'[u][r.ver]
      <3>1. u \in Users
        BY <2>0, <2>3, QueryFields
      <3>2. /\ r.ver \in 1 .. user[u].ver
            /\ r.ver < user[u].ver => r.at <= supersededAt[u][r.ver]
        BY <1>1, <2>3 DEF LapseInv, RequestsYoung
      <3>3. \A v \in Versions : supersededAt[u][v] \in Nat /\ supersededAt'[u][v] \in Nat
        BY <3>1 DEF TypeOK, Time
      <3>4. user[u].ver \in Versions
        BY <3>1, Numbers
      <3>5. r.ver \in Versions
        BY <2>0, <3>2, <3>4 DEF Versions
      <3>6. /\ r.at <= clock + 0
            /\ r.ver < user[u].ver => r.at <= supersededAt[u][r.ver] + 0
        BY <2>0, <2>1, <3>2, <3>3, <3>5
      <3>7. /\ r.ver \in 1 .. user'[u].ver
            /\ r.ver < user'[u].ver => r.at <= supersededAt'[u][r.ver] + 0
        <4>1. r.ver \in 1 .. user[u].ver /\ r.at \in Int /\ 0 \in Int
          BY <2>0, <3>2
        <4> HIDE DEF r, u
        <4> QED
          BY <3>1, <3>6, <4>1, StillBefore
      <3>8. r.ver < user'[u].ver => r.at <= supersededAt'[u][r.ver]
        <4>1. supersededAt'[u][r.ver] \in Nat
          BY <3>3, <3>5
        <4> QED
          BY <3>7, <4>1
      <3> QED
        BY <3>7, <3>8
    <2> QED
      BY <2>2, <2>3
  <1>2. ASSUME NEW q \in Queries, Arrives(i, q) PROVE Young(req'[i])
    <2>1. q.op \in MemberOps => token[q.user] = user[q.user].ver /\ user[q.user].ver \in Versions
      BY <1>2, QueryFields, Numbers DEF Arrives, TokenAccepted
    <2> QED
      BY <1>2, <2>1, Numbers DEF Arrives, Versions
  <1>3. ASSUME NEW m \in LeaseIds, Checks(i, m) PROVE Young(req'[i])
    <2>1. /\ req'[i].at = req[i].at /\ req'[i].ver = req[i].ver /\ req'[i].q = req[i].q
      BY <1>3, RunningType DEF Checks, Requests
    <2>2. req[i] # Idle
      BY <1>3 DEF Checks
    <2>3. clock' = clock \/ (clock' = clock + 1 /\ clock + 1 <= req[i].at + RequestMax)
      BY <2>2, ClockSteps DEF ClockStep
    <2> QED
      BY <2>1, <2>2, <2>3, <1>1
  <1>4. CASE req'[i] = req[i]
    BY <1>1, <1>4, ClockSteps DEF ClockStep
  <1> QED
    BY <1>2, <1>3, <1>4, RequestSteps DEF RequestStep

LEMMA RowsDatedStep ==
    ASSUME TypeOK, TypeOK', LapseInv, [Next]_vars
    PROVE  RowsDated'
  <1> DEFINE Dated(l) == LET row == lease'[l]
                             u == row.user
                         IN  /\ row.hb <= clock' /\ row.expires <= clock' + LeaseTTL
                             /\ row.status # "none" =>
                                   /\ u \in Users /\ row.ver \in 1 .. user'[u].ver
                                   /\ row.ver < user'[u].ver => row.hb <= supersededAt'[u][row.ver] + RequestMax
  <1> SUFFICES ASSUME NEW l \in LeaseIds PROVE Dated(l)
    BY DEF RowsDated
  <1>0. /\ clock \in Nat /\ RequestMax \in Nat /\ LeaseTTL \in Nat /\ MaxVersion \in Nat
        /\ clock' = clock \/ clock' = clock + 1
        /\ lease[l].hb \in Nat /\ lease[l].expires \in Int /\ lease[l].ver \in Nat
    BY Numbers, ClockSteps DEF ClockStep
  <1>1. CASE DatesKept(l)
    <2> DEFINE row == lease[l]
               u == row.user
    <2>1. row.hb <= clock /\ row.expires <= clock + LeaseTTL
      BY DEF LapseInv, RowsDated
    <2>2. ASSUME row.status # "none"
          PROVE  /\ u \in Users /\ row.ver \in 1 .. user'[u].ver
                 /\ row.ver < user'[u].ver => row.hb <= supersededAt'[u][row.ver] + RequestMax
      <3>1. /\ u \in Users /\ row.ver \in 1 .. user[u].ver
            /\ row.ver < user[u].ver => row.hb <= supersededAt[u][row.ver] + RequestMax
        BY <2>2 DEF LapseInv, RowsDated
      <3>2. row.hb <= clock + RequestMax /\ row.hb \in Int /\ RequestMax \in Int
        BY <1>0, <2>1
      <3>3. /\ row.ver \in 1 .. user'[u].ver
            /\ row.ver < user'[u].ver => row.hb <= supersededAt'[u][row.ver] + RequestMax
        BY <3>1, <3>2, StillBefore
      <3> QED
        BY <3>1, <3>3
    <2> QED
      BY <1>0, <1>1, <2>1, <2>2 DEF DatesKept
  <1>2. ASSUME NEW i \in ReqIds, RenewedBy(l, i) PROVE Dated(l)
    <2> DEFINE r == req[i]
               u == r.q.user
    <2>1. r # Idle /\ r.q.op \in MemberOps
      BY <1>2 DEF RenewedBy
    <2>2. r.at \in Nat /\ r.ver \in Nat /\ u \in Users
      BY <2>1, Numbers, QueryFields
    <2>3. /\ clock <= r.at + RequestMax /\ r.ver \in 1 .. user[u].ver
          /\ r.ver < user[u].ver => r.at <= supersededAt[u][r.ver]
      BY <2>1 DEF LapseInv, RequestsYoung
    <2>4. user[u].ver \in Versions /\ \A v \in Versions : supersededAt[u][v] \in Nat
      BY <2>2, Numbers
    <2>5. r.ver < user[u].ver => clock <= supersededAt[u][r.ver] + RequestMax
      BY <1>0, <2>2, <2>3, <2>4 DEF Versions
    <2> QED
      BY <1>0, <1>2, <2>2, <2>3, <2>5 DEF RenewedBy
  <1> QED
    BY <1>1, <1>2, DateSteps DEF LapseInv

(* What holds of a ticket as it is issued: it ends within TicketTTL and with *)
(* the lease it was issued under, and its request is still young.            *)
LEMMA IssuedTicket ==
    ASSUME TypeOK, LapseInv, NEW i \in ReqIds, NEW t, Issues(i, t)
    PROVE  /\ t.user = req[i].q.user /\ t.user \in Users
           /\ t.ver = req[i].ver /\ t.ver \in 1 .. user[t.user].ver
           /\ t.lease \in LeaseIds /\ t.exp \in Int
           /\ t.exp <= clock + TicketTTL /\ t.exp <= lease[t.lease].expires
           /\ t.exp <= req[i].at + RequestMax + TicketTTL
           /\ t.ver < user[t.user].ver => req[i].at <= supersededAt[t.user][t.ver]
           /\ t.user \notin Admins => <<t.user, t.node>> \in req[i].snap.grants
  <1> DEFINE r == req[i]
             l == r.found
             remaining == r.snap.lease[l].expires - clock
  <1>1. /\ r # Idle /\ r.q.op = "ticket" /\ l \in LeaseIds /\ r.snap.lease[l].expires > clock
        /\ t = [lease |-> l, user |-> r.q.user, store |-> r.q.store,
                node |-> r.snap.store[r.q.store].node, ver |-> r.ver,
                exp |-> clock + TicketSeconds(remaining)]
    BY DEF Issues
  <1>2. /\ clock \in Nat /\ TicketTTL \in Nat /\ RequestMax \in Nat /\ r.at \in Nat
        /\ r.snap.lease[l].expires \in Int /\ r.q \in Queries /\ lease[l].expires \in Int
    BY <1>1, Numbers
  <1>3. r.q.op \in MemberOps /\ r.q.user \in Users
    BY <1>1, <1>2, QueryFields DEF MemberOps
  <1>4. /\ clock <= r.at + RequestMax /\ r.ver \in 1 .. user[r.q.user].ver
        /\ r.ver < user[r.q.user].ver => r.at <= supersededAt[r.q.user][r.ver]
    BY <1>1, <1>3 DEF LapseInv, RequestsYoung
  <1>5. r.snap.lease[l].expires <= lease[l].expires
    BY <1>1 DEF LapseInv, SnapshotsArePast
  <1>6. TicketSeconds(remaining) \in Int /\ TicketSeconds(remaining) <= TicketTTL
        /\ TicketSeconds(remaining) <= remaining
    BY <1>2 DEF TicketSeconds
  <1>7. l # None
    BY <1>1, ConstantsAssumption DEF ConstantsAssumption
  <1>8. r.q.user \notin Admins => <<r.q.user, r.snap.store[r.q.store].node>> \in r.snap.grants
    BY <1>1, <1>7 DEF LapseInv, TicketsChecked, NodeAccessible
  <1>9. /\ t.user = r.q.user /\ t.ver = r.ver /\ t.lease = l
        /\ t.node = r.snap.store[r.q.store].node /\ t.exp = clock + TicketSeconds(remaining)
    BY <1>1
  <1>10. /\ t.exp \in Int /\ t.exp <= clock + TicketTTL /\ t.exp <= lease[l].expires
         /\ t.exp <= r.at + RequestMax + TicketTTL
    BY <1>2, <1>4, <1>5, <1>6, <1>9
  <1> QED
    BY <1>1, <1>3, <1>4, <1>8, <1>9, <1>10

LEMMA TicketsDatedStep ==
    ASSUME TypeOK, TypeOK', LapseInv, [Next]_vars
    PROVE  TicketsDated' /\ SupersededTicketLapses'
  <1> SUFFICES ASSUME NEW t \in tickets'
               PROVE  /\ t.exp <= clock' + TicketTTL /\ t.ver \in 1 .. user'[t.user].ver
                      /\ t.ver < user'[t.user].ver
                            => t.exp <= supersededAt'[t.user][t.ver] + RequestMax + TicketTTL
    BY DEF TicketsDated, SupersededTicketLapses
  <1>0. /\ clock \in Nat /\ TicketTTL \in Nat /\ RequestMax \in Nat /\ MaxVersion \in Nat
        /\ clock' = clock \/ clock' = clock + 1
    BY Numbers, ClockSteps DEF ClockStep
  <1>1. CASE t \in tickets
    <2>1. t.exp \in Int /\ t.user \in Users
      BY <1>1, Numbers
    <2>2. t.exp <= clock + TicketTTL /\ t.ver \in 1 .. user[t.user].ver
      BY <1>1 DEF LapseInv, TicketsDated
    <2>3. user[t.user].ver \in Versions /\ \A v \in Versions : supersededAt[t.user][v] \in Nat
      BY <2>1, Numbers
    <2>4. t.ver \in Versions
      BY <1>0, <2>2, <2>3 DEF Versions
    <2>5. t.exp <= clock + (RequestMax + TicketTTL) /\ RequestMax + TicketTTL \in Int
      BY <1>0, <2>1, <2>2
    <2>6. t.ver < user[t.user].ver => t.exp <= supersededAt[t.user][t.ver] + RequestMax + TicketTTL
      BY <1>1 DEF LapseInv, SupersededTicketLapses
    <2>7. t.ver < user[t.user].ver => t.exp <= supersededAt[t.user][t.ver] + (RequestMax + TicketTTL)
      BY <1>0, <2>1, <2>3, <2>4, <2>6
    <2>8. /\ t.ver \in 1 .. user'[t.user].ver
          /\ t.ver < user'[t.user].ver => t.exp <= supersededAt'[t.user][t.ver] + (RequestMax + TicketTTL)
      BY <2>1, <2>2, <2>5, <2>7, StillBefore
    <2>9. supersededAt'[t.user][t.ver] \in Nat
      BY <2>1, <2>4 DEF TypeOK, Time
    <2> QED
      BY <1>0, <2>1, <2>2, <2>8, <2>9
  <1>2. ASSUME NEW i \in ReqIds, Issues(i, t)
        PROVE  /\ t.exp <= clock' + TicketTTL /\ t.ver \in 1 .. user'[t.user].ver
               /\ t.ver < user'[t.user].ver
                     => t.exp <= supersededAt'[t.user][t.ver] + RequestMax + TicketTTL
    <2>1. UNCHANGED <<clock, user, supersededAt>> /\ req[i] # Idle
      BY <1>2 DEF Issues
    <2>2. /\ t.user \in Users /\ t.ver \in 1 .. user[t.user].ver /\ t.exp \in Int
          /\ t.exp <= clock + TicketTTL /\ t.exp <= req[i].at + RequestMax + TicketTTL
          /\ t.ver < user[t.user].ver => req[i].at <= supersededAt[t.user][t.ver]
      BY <1>2, IssuedTicket
    <2>3. /\ user[t.user].ver \in Versions /\ \A v \in Versions : supersededAt[t.user][v] \in Nat
          /\ req[i].at \in Nat
      BY <2>1, <2>2, Numbers
    <2>4. supersededAt[t.user][t.ver] \in Nat
      BY <1>0, <2>2, <2>3 DEF Versions
    <2> QED
      BY <1>0, <2>1, <2>2, <2>3, <2>4
  <1> QED
    BY <1>1, <1>2, TicketSteps

LEMMA TicketWithinLeaseStep ==
    ASSUME TypeOK, TypeOK', LapseInv, [Next]_vars
    PROVE  TicketWithinLease'
  <1> SUFFICES ASSUME NEW t \in tickets' PROVE t.exp <= lease'[t.lease].expires
    BY DEF TicketWithinLease
  <1>1. t.exp \in Int /\ t.lease \in LeaseIds /\ t.exp <= lease[t.lease].expires
    <2>1. CASE t \in tickets
      BY <2>1, Numbers DEF LapseInv, TicketWithinLease
    <2>2. ASSUME NEW i \in ReqIds, Issues(i, t)
          PROVE  t.exp \in Int /\ t.lease \in LeaseIds /\ t.exp <= lease[t.lease].expires
      BY <2>2, IssuedTicket
    <2> QED
      BY <2>1, <2>2, TicketSteps
  <1>2. lease[t.lease].expires \in Int /\ lease'[t.lease].expires \in Int
    BY <1>1 DEF TypeOK, LeaseRows
  <1> QED
    BY <1>1, <1>2, ExpiryGrows

LEMMA GrantsYoungStep ==
    ASSUME TypeOK, TypeOK', LapseInv, [Next]_vars
    PROVE  GrantsYoung'
  <1> SUFFICES ASSUME NEW i \in ReqIds, req'[i] # Idle, NEW g \in req'[i].snap.grants, g \notin grants'
               PROVE  req'[i].at <= ungrantedAt'[g]
    BY DEF GrantsYoung
  <1>1. ASSUME req[i] # Idle, req'[i].snap = req[i].snap, req'[i].at = req[i].at
        PROVE  req'[i].at <= ungrantedAt'[g]
    <2>1. g \in Users \X Nodes /\ req[i].at \in Nat
      BY <1>1, Numbers
    <2>2. GrantStep(g)
      BY <2>1, GrantSteps
    <2>3. req[i].at <= clock
      BY <1>1 DEF LapseInv, RequestsYoung
    <2>4. g \notin grants => req[i].at <= ungrantedAt[g]
      BY <1>1 DEF LapseInv, GrantsYoung
    <2> QED
      BY <1>1, <2>2, <2>3, <2>4 DEF GrantStep
  <1>2. ASSUME NEW q \in Queries, Arrives(i, q) PROVE FALSE
    BY <1>2 DEF Arrives, Snapshot
  <1>3. ASSUME NEW m \in LeaseIds, Checks(i, m)
        PROVE  req[i] # Idle /\ req'[i].snap = req[i].snap /\ req'[i].at = req[i].at
    BY <1>3, RunningType DEF Checks, Requests
  <1> QED
    BY <1>1, <1>2, <1>3, RequestSteps DEF RequestStep

LEMMA TicketsCheckedStep ==
    ASSUME TypeOK, TypeOK', LapseInv, [Next]_vars
    PROVE  TicketsChecked'
  <1> DEFINE Checked(r) == /\ r.snap.lease[r.found].status = "active"
                           /\ NodeAccessible(r.snap, r.q.user, r.q.store)
  <1> SUFFICES ASSUME NEW i \in ReqIds, req'[i] # Idle, req'[i].found # None
               PROVE  Checked(req'[i])
    BY DEF TicketsChecked, NodeAccessible
  <1>1. CASE req'[i] = req[i]
    BY <1>1 DEF LapseInv, TicketsChecked
  <1>2. ASSUME NEW q \in Queries, Arrives(i, q) PROVE FALSE
    BY <1>2 DEF Arrives
  <1>3. ASSUME NEW m \in LeaseIds, Checks(i, m) PROVE Checked(req'[i])
    <2>1. req'[i].snap = req[i].snap /\ req'[i].q = req[i].q /\ req'[i].found = m
      BY <1>3, RunningType DEF Checks, Requests
    <2> QED
      BY <1>3, <2>1 DEF Checks
  <1> QED
    BY <1>1, <1>2, <1>3, RequestSteps DEF RequestStep

LEMMA RevokedGrantStep ==
    ASSUME TypeOK, TypeOK', LapseInv, [Next]_vars
    PROVE  RevokedGrantLapses'
  <1> SUFFICES ASSUME NEW t \in tickets', t.user \notin Admins, <<t.user, t.node>> \notin grants'
               PROVE  t.exp <= ungrantedAt'[<<t.user, t.node>>] + RequestMax + TicketTTL
    BY DEF RevokedGrantLapses
  <1> DEFINE g == <<t.user, t.node>>
  <1>0. /\ clock \in Nat /\ TicketTTL \in Nat /\ RequestMax \in Nat
        /\ g \in Users \X Nodes
    BY Numbers DEF TypeOK, Tickets
  <1>1. CASE t \in tickets
    <2>1. GrantStep(g)
      BY <1>0, GrantSteps
    <2>2. t.exp \in Int /\ t.exp <= clock + TicketTTL
      BY <1>1, Numbers DEF LapseInv, TicketsDated
    <2>3. g \notin grants => t.exp <= ungrantedAt[g] + RequestMax + TicketTTL
      BY <1>1 DEF LapseInv, RevokedGrantLapses
    <2> QED
      BY <1>0, <2>1, <2>2, <2>3 DEF GrantStep
  <1>2. ASSUME NEW i \in ReqIds, Issues(i, t)
        PROVE  t.exp <= ungrantedAt'[g] + RequestMax + TicketTTL
    <2>1. UNCHANGED <<grants, ungrantedAt>> /\ req[i] # Idle
      BY <1>2 DEF Issues
    <2>2. /\ t.exp \in Int /\ t.exp <= req[i].at + RequestMax + TicketTTL
          /\ g \in req[i].snap.grants
      BY <1>2, IssuedTicket
    <2>3. req[i].at <= ungrantedAt[g]
      BY <2>1, <2>2 DEF LapseInv, GrantsYoung
    <2>4. req[i].at \in Nat /\ ungrantedAt[g] \in Nat
      BY <1>0, <2>1, Numbers
    <2> QED
      BY <1>0, <2>1, <2>2, <2>3, <2>4
  <1> QED
    BY <1>1, <1>2, TicketSteps

(* Everything a superseded token or a revoked grant still feeds entered the  *)
(* system before it ended: the lapse invariant holds in every behaviour.     *)
THEOREM Lapse == Spec => []LapseInv
  <1>1. Init => LapseInv
    <2> SUFFICES ASSUME Init PROVE LapseInv
      OBVIOUS
    <2>1. \A l \in LeaseIds : lease[l] = Blank
      BY DEF Init
    <2>2. tickets = {} /\ clock = 0 /\ \A i \in ReqIds : req[i] = Idle
      BY DEF Init
    <2>3. LeaseTTL \in Nat
      BY ConstantsAssumption DEF ConstantsAssumption
    <2>4. RowsDated
      BY <2>1, <2>2, <2>3 DEF RowsDated, Blank
    <2> QED
      BY <2>2, <2>4 DEF LapseInv, SnapshotsArePast, RequestsYoung, TicketsDated, GrantsYoung,
           TicketsChecked, SupersededTicketLapses, TicketWithinLease, RevokedGrantLapses
  <1>2. ASSUME TypeOK, TypeOK', LapseInv, [Next]_vars PROVE LapseInv'
    BY <1>2, SnapshotsArePastStep, RequestsYoungStep, RowsDatedStep, TicketsDatedStep,
       GrantsYoungStep, TicketsCheckedStep, TicketWithinLeaseStep, RevokedGrantStep DEF LapseInv
  <1> QED
    BY <1>1, <1>2, TypeCorrect, PTL DEF Spec

(* No ticket outlasts the lease it was issued under.                         *)
THEOREM TicketsEndWithLease == Spec => []TicketWithinLease
  <1>1. LapseInv => TicketWithinLease
    BY DEF LapseInv
  <1> QED
    BY <1>1, Lapse, PTL

(* A superseded token's tickets end RequestMax plus TicketTTL later.         *)
THEOREM SupersededTicketsEnd == Spec => []SupersededTicketLapses
  <1>1. LapseInv => SupersededTicketLapses
    BY DEF LapseInv
  <1> QED
    BY <1>1, Lapse, PTL

(* A revoked grant's tickets end RequestMax plus TicketTTL later.            *)
THEOREM RevokedGrantsEnd == Spec => []RevokedGrantLapses
  <1>1. LapseInv => RevokedGrantLapses
    BY DEF LapseInv
  <1> QED
    BY <1>1, Lapse, PTL

(* A lease that a superseded token kept alive is dead RequestMax plus the    *)
(* heartbeat timeout later, whether or not anything marked it.               *)
THEOREM SupersededLeasesLapse == Spec => []SupersededTokenLapses
  <1>1. ASSUME TypeOK, LapseInv PROVE SupersededTokenLapses
    <2> SUFFICES ASSUME NEW l \in LeaseIds, Live(lease[l], clock), lease[l].ver < user[lease[l].user].ver
                 PROVE  clock <= supersededAt[lease[l].user][lease[l].ver] + RequestMax + HeartbeatTimeout
      BY DEF SupersededTokenLapses
    <2> DEFINE row == lease[l]
               u == row.user
    <2>1. row.status # "none" /\ ~(row.hb < clock - HeartbeatTimeout)
      BY DEF Live, Stale
    <2>2. u \in Users /\ row.ver \in 1 .. user[u].ver /\ row.hb <= supersededAt[u][row.ver] + RequestMax
      BY <1>1, <2>1 DEF LapseInv, RowsDated
    <2>3. /\ clock \in Nat /\ HeartbeatTimeout \in Nat /\ RequestMax \in Nat /\ row.hb \in Nat
          /\ MaxVersion \in Nat
      BY <1>1, Numbers
    <2>4. user[u].ver \in Versions /\ \A v \in Versions : supersededAt[u][v] \in Nat
      BY <1>1, <2>2, Numbers
    <2>5. supersededAt[u][row.ver] \in Nat
      BY <2>2, <2>3, <2>4 DEF Versions
    <2> QED
      BY <2>1, <2>2, <2>3, <2>5
  <1> QED
    BY <1>1, TypeCorrect, Lapse, PTL

(* A store is rebound only while no lease that its request could see is live *)
(* on it, however old the snapshot was that the check was made on.           *)
THEOREM RebindIdle == Spec => RebindOnlyIdle
  <1> DEFINE Idly == \A s \in Stores : store'[s].node # store[s].node /\ store'[s].exists
                       => \A l \in ActiveStoreLeases(lease', s, clock) :
                             \E i \in ReqIds : Handling(i, "update") /\ req[i].snap.lease[l].status = "none"
  <1>1. ASSUME TypeOK, LapseInv, [Next]_vars PROVE [Idly]_vars
    <2> SUFFICES ASSUME NEW s \in Stores, store'[s].node # store[s].node,
                        NEW l \in ActiveStoreLeases(lease', s, clock)
                 PROVE  \E i \in ReqIds : Handling(i, "update") /\ req[i].snap.lease[l].status = "none"
      OBVIOUS
    <2>1. PICK i \in ReqIds : UpdateManagedStore(i)
      <3>1. ASSUME NEW i \in ReqIds, DeleteManagedStore(i) PROVE FALSE
        <4>1. store'[s] \in {store[s], [store[s] EXCEPT !.exists = FALSE]} /\ store[s] \in StoreRows
          BY <1>1, <3>1 DEF DeleteManagedStore, TypeOK
        <4> QED
          BY <4>1 DEF StoreRows
      <3>2. store' # store
        OBVIOUS
      <3>3. ASSUME NEW i \in ReqIds, Handler(i) PROVE UpdateManagedStore(i)
        BY <3>1, <3>2, <3>3 DEF Handler, LeaseOnly, ConnectStore, HeartbeatStore, TicketCheck,
           TicketIssue, DisconnectStore, ListOwnedStores, ForceDisconnectStore, ForceDisconnectLease,
           ChangeUserPassword, DeleteUser, Rollback
      <3>4. \E i \in ReqIds : Handler(i)
        BY <1>1, <3>2 DEF Next, vars, Arrive, Login, Logout, DisableUser, EnableUser, BumpVersion,
           ReplaceUserEdgeNodes, UpdateEdgeNode, MonitorVerdict, Tick
      <3> QED
        BY <3>3, <3>4
    <2> DEFINE r == req[i]
               old == MarkedExpired(r.snap.lease, s, clock)
    <2>2. r # Idle /\ r.q.op = "update" /\ r \in Requests
      BY <1>1, <2>1, RunningType DEF UpdateManagedStore, Handling
    <2>3. s = r.q.store /\ r.q.node # r.snap.store[s].node
      <3> DEFINE z == r.q.store
                 n == IF r.q.node # r.snap.store[z].node THEN r.q.node ELSE store[z].node
      <3>1. z \in Stores
        BY <2>2, QueryFields DEF Requests
      <3>2. PICK b : store' = [store EXCEPT ![z] = [store[z] EXCEPT !.node = n, !.enabled = b]]
        BY <2>1 DEF UpdateManagedStore
      <3>3. store[z] \in StoreRows /\ store \in [Stores -> StoreRows]
        BY <1>1, <3>1 DEF TypeOK
      <3>4. s = z
        BY <3>2, <3>3
      <3>5. store'[s].node = n
        BY <3>1, <3>2, <3>3, <3>4 DEF StoreRows
      <3> QED
        BY <3>4, <3>5
    <2>4. ActiveStoreLeases(r.snap.lease, s, clock) = {} /\ lease' = SetStatus(lease, old, "expired")
      BY <2>1, <2>3 DEF UpdateManagedStore
    <2>5. l \in LeaseIds /\ lease'[l].store = s /\ lease'[l].status = "active"
      BY DEF ActiveStoreLeases, Live
    <2>6. l \notin old /\ lease[l].status = "active" /\ lease[l].store = s
      BY <1>1, <2>4, <2>5, SetStatusRow
    <2>7. SUFFICES ASSUME r.snap.lease[l].status # "none" PROVE FALSE
      BY <2>2 DEF Handling
    <2>8. r.snap.lease[l].store = s /\ r.snap.lease[l].status \notin Ended \cup {"deleted"}
      BY <1>1, <2>2, <2>5, <2>6, <2>7 DEF LapseInv, SnapshotsArePast, Ended
    <2>9. r.snap.lease[l].status = "active"
      BY <2>2, <2>5, <2>7, <2>8 DEF Requests, Snapshots, LeaseRows
    <2> QED
      BY <2>4, <2>5, <2>6, <2>8, <2>9 DEF ActiveStoreLeases, Live, MarkedExpired
  <1> QED
    BY <1>1, TypeCorrect, Lapse, PTL DEF Spec, RebindOnlyIdle
=============================================================================
