------------------------- MODULE Enrollment_proofs -------------------------
(***************************************************************************)
(* Enrollment for any number of nodes, codes, registrations and requests   *)
(* at once, without the bounds of its run: by itself (Spec), and with the  *)
(* health monitor beside it (MonSpec), for any number of samples.          *)
(***************************************************************************)
EXTENDS HealthMonitor, FiniteSetTheorems, TLAPS

(* What the senders of claims and reports hold.                              *)
SendersHold == \A i \in ReqIds :
    /\ req[i].op = "claim" => req[i].grant \in Codes
    /\ req[i].op = "report" => req[i].grant \in Grants /\ req[i].arg \in Phases

(* The code of an enrollment is that node's, unused, and not superseded; a   *)
(* code that was never issued has no history.                                *)
CodesLive == \A n \in Nodes : enr[n].code # None =>
                owner[enr[n].code] = n /\ redeemed[enr[n].code] = 0 /\ enr[n].code \notin superseded
CodesFresh == \A c \in Codes : owner[c] = None => redeemed[c] = 0 /\ c \notin superseded

(* A registration row is written by one run of the bootstrap, has its token  *)
(* until it is redeemed, waits for one decision, and is approved by one.     *)
RegsLive == \A r \in Regs :
    /\ boot[r] = "idle" => /\ reg[r].status = "none" /\ redeemed[r] = 0
                           /\ decided[r].accepted = 0 /\ decided[r].rejected = 0
    /\ reg[r].token => redeemed[r] = 0
    /\ reg[r].status \in {"pending_proof", "pending_approval"} =>
          decided[r].accepted = 0 /\ decided[r].rejected = 0
    /\ reg[r].status = "approved" => decided[r].accepted = 1 /\ owner[r] \in Nodes
    /\ redeemed[r] > 0 => owner[r] \in Nodes

GrantInv == SendersHold /\ CodesLive /\ CodesFresh /\ RegsLive /\ RedeemedOnce /\ DecidedOnce

(* A report that read the enrollment before it was revoked races with it.    *)
ReportsRace == \A n \in Nodes : \A i \in ReqIds :
    /\ enr[n].status = "revoked" /\ Serving(i, "report") /\ req[i].node = n
    /\ req[i].snap.enr[n].status # "revoked"
    => n \in raced


-----------------------------------------------------------------------------
(* Rows.                                                                     *)
EnrStatuses == {"none", "pending", "claimed", "installing", "ready", "failed",
                "online", "revoked", "expired"}
RegStatuses == {"none", "pending_proof", "pending_approval", "approved", "rejected",
                "expired", "installing", "ready", "failed", "online"}

LEMMA EnrFields ==
    ASSUME NEW row \in EnrRows
    PROVE  /\ row.status \in EnrStatuses /\ row.code \in Codes \cup {None}
           /\ row.report \in Grants \cup {None} /\ row.claimed \in BOOLEAN /\ row.lapsed \in BOOLEAN
  BY DEF EnrRows, EnrStatuses

LEMMA EnrMake ==
    ASSUME NEW st \in EnrStatuses, NEW c \in Codes \cup {None}, NEW g \in Grants \cup {None},
           NEW b \in BOOLEAN, NEW x \in BOOLEAN
    PROVE  [status |-> st, code |-> c, report |-> g, claimed |-> b, lapsed |-> x] \in EnrRows
  BY DEF EnrRows, EnrStatuses

LEMMA EnrStatus ==
    ASSUME NEW row \in EnrRows, NEW st \in EnrStatuses
    PROVE  LET new == [row EXCEPT !.status = st]
           IN  new \in EnrRows /\ new.status = st /\ new.code = row.code
  BY DEF EnrRows, EnrStatuses

LEMMA RegFields ==
    ASSUME NEW row \in RegRows
    PROVE  /\ row.status \in RegStatuses /\ row.token \in BOOLEAN /\ row.chal \in BOOLEAN
           /\ row.lapsed \in BOOLEAN /\ row.proved \in BOOLEAN /\ row.node \in Nodes \cup {None}
  BY DEF RegRows, RegStatuses

LEMMA NodeFields ==
    ASSUME NEW row \in NodeRows
    PROVE  /\ row.state \in {"none", "present", "gone"} /\ row.enabled \in BOOLEAN /\ row.maint \in BOOLEAN
           /\ row.health \in Healths /\ row.expected \in Ips \cup {None}
  BY DEF NodeRows

LEMMA NewRows ==
    /\ NoNode \in NodeRows /\ NoEnr \in EnrRows /\ NoReg \in RegRows
    /\ NoEnr.code = None /\ NoEnr.status = "none"
    /\ NoReg.status = "none" /\ NoReg.token = FALSE /\ NoReg.node = None
    /\ [NoNode EXCEPT !.state = "gone"] \in NodeRows
    /\ \A on, maint \in BOOLEAN, ip \in Ips \cup {None} :
          PresentNode(on, maint, ip) \in NodeRows /\ PresentNode(on, maint, ip).enabled = on
  <1>1. /\ NoNode \in NodeRows /\ NoEnr \in EnrRows /\ NoReg \in RegRows
        /\ NoEnr.code = None /\ NoEnr.status = "none"
        /\ NoReg.status = "none" /\ NoReg.token = FALSE /\ NoReg.node = None
    BY DEF NoNode, NodeRows, Healths, NoEnr, EnrRows, NoReg, RegRows
  <1>2. [NoNode EXCEPT !.state = "gone"] \in NodeRows
    BY DEF NoNode, NodeRows, Healths
  <1>3. ASSUME NEW on \in BOOLEAN, NEW maint \in BOOLEAN, NEW ip \in Ips \cup {None}
        PROVE  PresentNode(on, maint, ip) \in NodeRows /\ PresentNode(on, maint, ip).enabled = on
    <2> DEFINE h == CASE maint -> "maintenance" [] ~maint /\ ~on -> "disabled" [] OTHER -> "unknown"
    <2>1. h \in Healths
      BY DEF Healths
    <2>2. PresentNode(on, maint, ip) = [state |-> "present", enabled |-> on, maint |-> maint,
                                        expected |-> ip, health |-> h]
      BY DEF PresentNode
    <2> HIDE DEF h
    <2> QED
      BY <2>1, <2>2 DEF NodeRows
  <1> QED
    BY <1>1, <1>2, <1>3

(* What a handler reads.                                                     *)
LEMMA SeenType ==
    ASSUME TypeOK, NEW op, NEW n, NEW g
    PROVE  /\ Seen(op, n, g) \in Tables
           /\ \A m \in Nodes : Seen(op, n, g).enr[m] \in {enr[m], NoEnr}
  <1> DEFINE linked == IF op = "claim_approved" THEN reg[g].node ELSE n
             A == IF op = "accept" THEN Nodes ELSE {n}
             B == IF op = "list_enrollments" THEN Nodes
                  ELSE IF op = "update" THEN {} ELSE {linked}
             C == CASE op = "list_registrations" -> Regs
                    [] op = "report" -> {r \in Regs : reg[r].node = n}
                    [] OTHER -> {g}
             s == [node |-> [m \in Nodes |-> IF m \in A THEN node[m] ELSE NoNode],
                   enr |-> [m \in Nodes |-> IF m \in B THEN enr[m] ELSE NoEnr],
                   reg |-> [r \in Regs |-> IF r \in C THEN reg[r] ELSE NoReg]]
  <1>1. Seen(op, n, g) = s
    BY Zenon DEF Seen
  <1> HIDE DEF A, B, C
  <1>2. [m \in Nodes |-> IF m \in A THEN node[m] ELSE NoNode] \in [Nodes -> NodeRows]
    BY NewRows DEF TypeOK
  <1>3. [m \in Nodes |-> IF m \in B THEN enr[m] ELSE NoEnr] \in [Nodes -> EnrRows]
    BY NewRows DEF TypeOK
  <1>4. [r \in Regs |-> IF r \in C THEN reg[r] ELSE NoReg] \in [Regs -> RegRows]
    BY NewRows DEF TypeOK
  <1>5. s \in Tables
    BY <1>2, <1>3, <1>4 DEF Tables
  <1>6. \A m \in Nodes : s.enr[m] \in {enr[m], NoEnr}
    OBVIOUS
  <1> QED
    BY <1>1, <1>5, <1>6

(* A request in flight, and its tables.                                      *)
LEMMA ReqFields ==
    ASSUME TypeOK, NEW i \in ReqIds, req[i] # Idle
    PROVE  /\ req[i] \in Requests
           /\ req[i].snap.node \in [Nodes -> NodeRows] /\ req[i].snap.enr \in [Nodes -> EnrRows]
           /\ req[i].snap.reg \in [Regs -> RegRows]
           /\ req[i].op \in NodeOps => req[i].node \in Nodes
           /\ req[i].op \in RegOps => req[i].grant \in Regs
           /\ req[i].grant \in Grants \cup {None}
  BY DEF TypeOK, Requests, Tables


(* Requests keep to their types when one of them ends.                       *)
ReqsOK == /\ req \in [ReqIds -> Requests \cup {Idle}]
          /\ \A i \in ReqIds : /\ req[i].op \in NodeOps => req[i].node \in Nodes
                               /\ req[i].op \in RegOps => req[i].grant \in Regs

LEMMA FinishOK ==
    ASSUME ReqsOK, NEW i \in ReqIds, Finish(i)
    PROVE  ReqsOK' /\ req'[i] = Idle /\ \A j \in ReqIds : j # i => req'[j] = req[j]
  <1>1. req' \in [ReqIds -> Requests \cup {Idle}] /\ req'[i] = Idle /\ \A j \in ReqIds : j # i => req'[j] = req[j]
    BY DEF Finish, ReqsOK
  <1>2. Idle.op \notin NodeOps /\ Idle.op \notin RegOps
    BY DEF Idle, NodeOps, RegOps
  <1> QED
    BY <1>1, <1>2 DEF ReqsOK

(* The types, and what the senders hold, by the tables they concern.         *)
RowsOK == node \in [Nodes -> NodeRows] /\ enr \in [Nodes -> EnrRows] /\ reg \in [Regs -> RegRows]
BootOK == boot \in [Regs -> BootStates] /\ sent \in [Regs -> SUBSET {"prove", "claim_approved"}]
HistoryOK ==
    /\ owner \in [Grants -> Nodes \cup {None}] /\ redeemed \in [Grants -> Nat]
    /\ superseded \subseteq Codes /\ decided \in [Regs -> [accepted : Nat, rejected : Nat]]
    /\ switched \subseteq Nodes /\ raced \subseteq Nodes

LEMMA TypeParts == TypeOK <=> RowsOK /\ BootOK /\ ReqsOK /\ HistoryOK
  BY DEF TypeOK, RowsOK, BootOK, ReqsOK, HistoryOK

LEMMA TypePartsNext == TypeOK' <=> RowsOK' /\ BootOK' /\ ReqsOK' /\ HistoryOK'
  BY DEF TypeOK, RowsOK, BootOK, ReqsOK, HistoryOK

(* The answer to a bootstrap run.                                            *)
LEMMA BootAnswer ==
    ASSUME BootOK, NEW r \in Regs, NEW w, NEW next \in BootStates,
           GiveUp(r, w) \/ Answer(r, w, next), UNCHANGED sent
    PROVE  BootOK' /\ \A q \in Regs : boot'[q] = boot[q] \/ boot'[q] \in {next, "failed"}
  <1>1. "failed" \in BootStates
    BY DEF BootStates
  <1>2. boot' = boot \/ \E b \in {next, "failed"} : boot' = [boot EXCEPT ![r] = b]
    BY DEF GiveUp, Answer
  <1> QED
    BY <1>1, <1>2 DEF BootOK

-----------------------------------------------------------------------------
(* What the queries carry, and that a request that starts is well-formed.    *)
LEMMA QueryKinds ==
    ASSUME TypeOK, CodesFresh, RegsLive, NEW q \in Queries
    PROVE  /\ q.op \in NodeOps \cup RegOps \cup ListOps /\ q.node \in Nodes \cup {None}
           /\ q.grant \in Grants \cup {None} /\ q.arg \in Phases \cup Changes \cup {None}
           /\ q.op \in NodeOps => q.node \in Nodes
           /\ q.op \in RegOps => q.grant \in Regs
           /\ q.op = "claim" => q.grant \in Codes
           /\ q.op = "report" => q.grant \in Grants /\ q.arg \in Phases
  <1> USE DEF Query, NodeOps, RegOps, ListOps
  <1>1. CASE \E c \in Codes : owner[c] # None /\ q = Query("claim", owner[c], c, None)
    BY <1>1 DEF TypeOK, Grants
  <1>2. CASE \E g \in Grants, p \in Phases : redeemed[g] > 0 /\ q = Query("report", owner[g], g, p)
    <2>1. PICK g \in Grants, p \in Phases : redeemed[g] > 0 /\ q = Query("report", owner[g], g, p)
      BY <1>2
    <2>2. owner[g] \in Nodes
      <3>1. CASE g \in Codes
        <4>1. redeemed[g] # 0
          BY <2>1 DEF TypeOK
        <4> QED
          BY <3>1, <4>1 DEF TypeOK, CodesFresh
      <3>2. CASE g \in Regs
        BY <2>1, <3>2 DEF RegsLive
      <3> QED
        BY <3>1, <3>2 DEF Grants
    <2> QED
      BY <2>1, <2>2
  <1>3. CASE \E n \in Nodes, change \in Changes : q = Query("update", n, None, change)
    BY <1>3
  <1>4. CASE \E op \in {"revoke", "regenerate"}, n \in Nodes : q = Query(op, n, None, None)
    BY <1>4
  <1>5. CASE \E r \in Regs : \E op \in sent[r] : q = Query(op, None, r, None)
    BY <1>5 DEF TypeOK, Grants
  <1>6. CASE \E r \in Regs : q = Query("accept", None, r, None)
    BY <1>6 DEF Grants
  <1>7. CASE \E op \in ListOps : q = Query(op, None, None, None)
    BY <1>7
  <1> HIDE DEF Query, NodeOps, RegOps, ListOps
  <1>8. q \in InstallerQueries =>
           \/ \E c \in Codes : owner[c] # None /\ q = Query("claim", owner[c], c, None)
           \/ \E g \in Grants, p \in Phases : redeemed[g] > 0 /\ q = Query("report", owner[g], g, p)
    BY DEF InstallerQueries
  <1>9. q \in BootstrapQueries => \E r \in Regs : \E op \in sent[r] : q = Query(op, None, r, None)
    BY DEF BootstrapQueries
  <1>10. q \in AdminQueries =>
            \/ \E n \in Nodes, change \in Changes : q = Query("update", n, None, change)
            \/ \E op \in {"revoke", "regenerate"}, n \in Nodes : q = Query(op, n, None, None)
            \/ \E r \in Regs : q = Query("accept", None, r, None)
            \/ \E op \in ListOps : q = Query(op, None, None, None)
    BY DEF AdminQueries
  <1>11. q \in InstallerQueries \/ q \in BootstrapQueries \/ q \in AdminQueries
    BY DEF Queries
  <1> QED
    BY <1>1, <1>2, <1>3, <1>4, <1>5, <1>6, <1>7, <1>8, <1>9, <1>10, <1>11

LEMMA StartStep ==
    ASSUME TypeOK, SendersHold, CodesFresh, RegsLive, NEW i \in ReqIds, NEW q \in Queries, Start(i, q)
    PROVE  /\ TypeOK' /\ SendersHold'
           /\ \A j \in ReqIds : j # i => req'[j] = req[j]
           /\ req'[i].op = q.op /\ req'[i].node = q.node /\ req'[i].grant = q.grant
           /\ req'[i].snap = Seen(q.op, q.node, q.grant)
  <1> DEFINE r == [op |-> q.op, node |-> q.node, grant |-> q.grant, arg |-> q.arg,
                   snap |-> Seen(q.op, q.node, q.grant)]
  <1>1. r \in Requests
    BY QueryKinds, SeenType DEF Requests
  <1>2. r.op = q.op /\ r.node = q.node /\ r.grant = q.grant /\ r.arg = q.arg /\ r.snap = Seen(q.op, q.node, q.grant)
    OBVIOUS
  <1>3. req' = [req EXCEPT ![i] = r]
    BY DEF Start
  <1> HIDE DEF r
  <1>4. req'[i] = r /\ \A j \in ReqIds : j # i => req'[j] = req[j]
    BY <1>3 DEF TypeOK
  <1>5. ReqsOK'
    <2>1. req' \in [ReqIds -> Requests \cup {Idle}]
      BY <1>1, <1>3 DEF TypeOK
    <2> QED
      BY <1>2, <1>4, <2>1, QueryKinds DEF TypeOK, ReqsOK
  <1>6. SendersHold'
    BY <1>2, <1>4, QueryKinds DEF SendersHold
  <1>7. RowsOK' /\ BootOK' /\ HistoryOK'
    BY DEF Start, TypeOK, RowsOK, BootOK, HistoryOK
  <1> QED
    BY <1>2, <1>4, <1>5, <1>6, <1>7, TypePartsNext


-----------------------------------------------------------------------------
(* Every step keeps the types: first those of enrollments.                   *)
LEMMA ServedBy ==
    ASSUME TypeOK, NEW i \in ReqIds, NEW op, Serving(i, op)
    PROVE  /\ req[i] # Idle /\ req[i].op = op
           /\ op \in NodeOps => /\ req[i].node \in Nodes
                                /\ req[i].snap.enr[req[i].node] \in EnrRows
                                /\ req[i].snap.node[req[i].node] \in NodeRows
                                /\ enr[req[i].node] \in EnrRows /\ node[req[i].node] \in NodeRows
           /\ op \in RegOps => /\ req[i].grant \in Regs
                               /\ req[i].snap.reg[req[i].grant] \in RegRows
                               /\ reg[req[i].grant] \in RegRows
  BY ReqFields DEF Serving, TypeOK

LEMMA ClaimTypes ==
    ASSUME TypeOK, NEW i \in ReqIds, ClaimEdgeEnrollment(i)
    PROVE  TypeOK'
  <1> DEFINE n == req[i].node
             g == req[i].grant
  <1>0. n \in Nodes /\ enr[n] \in EnrRows /\ g \in Grants \cup {None}
    BY ServedBy, ReqFields DEF ClaimEdgeEnrollment, NodeOps
  <1> DEFINE late == [enr[n] EXCEPT !.status = "expired"]
             done == [status |-> "claimed", code |-> None, report |-> g, claimed |-> TRUE, lapsed |-> FALSE]
  <1>1. late \in EnrRows /\ done \in EnrRows
    BY <1>0, EnrStatus, EnrMake DEF EnrStatuses
  <1>2. \/ enr' = [enr EXCEPT ![n] = late] /\ redeemed' = redeemed
        \/ enr' = [enr EXCEPT ![n] = done] /\ redeemed' = [redeemed EXCEPT ![g] = redeemed[g] + 1]
    BY DEF ClaimEdgeEnrollment
  <1> HIDE DEF late, done
  <1>3. enr' \in [Nodes -> EnrRows]
    BY <1>1, <1>2 DEF TypeOK
  <1>4. redeemed' \in [Grants -> Nat]
    BY <1>2 DEF TypeOK
  <1>5. ReqsOK'
    BY TypeParts, FinishOK DEF ClaimEdgeEnrollment
  <1> QED
    BY <1>3, <1>4, <1>5, TypePartsNext DEF ClaimEdgeEnrollment, TypeOK, RowsOK, BootOK, HistoryOK

(* What a report makes of the rows.                                          *)
LEMMA ReportRows ==
    ASSUME TypeOK, SendersHold, NEW i \in ReqIds, ReportEdgeEnrollment(i)
    PROVE  LET n == req[i].node IN
           /\ n \in Nodes
           /\ enr' \in [Nodes -> EnrRows] /\ \A m \in Nodes : enr'[m].code = enr[m].code
           /\ \A m \in Nodes : m # n => enr'[m] = enr[m]
           /\ enr'[n].status \in {enr[n].status} \cup Phases
           /\ node' \in [Nodes -> NodeRows] /\ \A m \in Nodes : m # n => node'[m] = node[m]
           /\ reg' \in [Regs -> RegRows]
           /\ \A r \in Regs : /\ reg'[r].token = reg[r].token
                              /\ \/ reg'[r].status = reg[r].status
                                 \/ reg'[r].status \in Phases /\ reg[r].status # "none"
  <1> DEFINE r == req[i]
             n == r.node
             old == r.snap.enr[n]
             was == r.snap.node[n]
             linked == {q \in Regs : r.snap.reg[q].node = n}
  <1>0. /\ n \in Nodes /\ enr[n] \in EnrRows /\ node[n] \in NodeRows /\ was \in NodeRows /\ old \in EnrRows
        /\ r.arg \in Phases /\ r.snap.reg \in [Regs -> RegRows]
    <2>1. Serving(i, "report")
      BY DEF ReportEdgeEnrollment
    <2>2. r.arg \in Phases
      BY <2>1 DEF Serving, SendersHold
    <2> QED
      BY <2>1, <2>2, ServedBy, ReqFields DEF NodeOps
  <1>p. Phases \subseteq EnrStatuses /\ Phases \subseteq RegStatuses
    BY DEF Phases, EnrStatuses, RegStatuses
  <1> DEFINE st == Col(enr[n].status, old.status, r.arg)
             e == [enr[n] EXCEPT !.status = st]
  <1>1. st \in {enr[n].status} \cup Phases /\ st \in EnrStatuses
    BY <1>0, <1>p, EnrFields DEF Col
  <1>2. enr' = [enr EXCEPT ![n] = e]
    BY DEF ReportEdgeEnrollment
  <1>3. e \in EnrRows /\ e.status = st /\ e.code = enr[n].code
    <2> HIDE DEF st
    <2> QED
      BY <1>0, <1>1, EnrStatus
  <1>4. /\ enr' \in [Nodes -> EnrRows] /\ \A m \in Nodes : enr'[m].code = enr[m].code
        /\ \A m \in Nodes : m # n => enr'[m] = enr[m]
        /\ enr'[n].status \in {enr[n].status} \cup Phases
    <2> HIDE DEF e, st
    <2> QED
      BY <1>0, <1>1, <1>2, <1>3 DEF TypeOK
  <1> DEFINE on == Col(node[n].enabled, was.enabled, TRUE)
             hl == Col(node[n].health, was.health, "unknown")
             w == [node[n] EXCEPT !.enabled = on, !.health = hl]
  <1>5. on \in BOOLEAN /\ hl \in Healths
    BY <1>0, NodeFields DEF Col, Healths
  <1>6. node' = node \/ node' = [node EXCEPT ![n] = w]
    BY DEF ReportEdgeEnrollment
  <1>7. w \in NodeRows
    <2> HIDE DEF on, hl
    <2> QED
      BY <1>0, <1>5 DEF NodeRows
  <1>8. node' \in [Nodes -> NodeRows] /\ \A m \in Nodes : m # n => node'[m] = node[m]
    <2> HIDE DEF w
    <2> QED
      BY <1>6, <1>7 DEF TypeOK
  <1> DEFINE s(q) == Col(reg[q].status, r.snap.reg[q].status, r.arg)
             v(q) == [reg[q] EXCEPT !.status = s(q)]
  <1>9. ASSUME NEW q \in Regs
        PROVE  /\ v(q) \in RegRows /\ v(q).token = reg[q].token
               /\ v(q).status = reg[q].status \/ v(q).status \in Phases
    <2>1. reg[q] \in RegRows
      BY DEF TypeOK
    <2>2. s(q) \in RegStatuses /\ (s(q) = reg[q].status \/ s(q) \in Phases)
      BY <1>0, <1>p, <2>1, RegFields DEF Col
    <2> HIDE DEF s
    <2> QED
      BY <2>1, <2>2 DEF RegRows, RegStatuses
  <1>10. reg' = [q \in Regs |-> IF q \in linked THEN v(q) ELSE reg[q]]
    BY DEF ReportEdgeEnrollment
  <1>11. \A q \in linked : reg[q].status # "none"
    BY DEF ReportEdgeEnrollment
  <1>12. /\ reg' \in [Regs -> RegRows]
         /\ \A q \in Regs : /\ reg'[q].token = reg[q].token
                            /\ reg'[q].status = reg[q].status \/ (reg'[q].status \in Phases /\ reg[q].status # "none")
    <2> HIDE DEF v, linked
    <2> QED
      BY <1>9, <1>10, <1>11 DEF TypeOK
  <1> HIDE DEF n, r
  <1>13. n = req[i].node
    BY DEF n, r
  <1> QED
    BY <1>0, <1>4, <1>8, <1>12, <1>13, Zenon


-----------------------------------------------------------------------------
(* The invariant, and the two kinds of step that leave its parts alone: one  *)
(* that issues, redeems, supersedes and decides nothing, and one that        *)
(* revokes nothing and switches on only what was switched on or had raced.   *)
EnrollmentInv == TypeOK /\ GrantInv /\ ReportsRace /\ RevokedMeansOff

DeadStep == \A c \in superseded : redeemed'[c] = redeemed[c]

Kept == EnrollmentInv' /\ DeadStep

Pending == {"pending_proof", "pending_approval"}

RegKeeps(r) ==
    /\ boot'[r] = "idle" => boot[r] = "idle"
    /\ reg[r].status = "none" => reg'[r].status = "none"
    /\ reg'[r].token => reg[r].token
    /\ reg'[r].status \in Pending => reg[r].status \in Pending
    /\ reg'[r].status = "approved" => reg[r].status = "approved"

QuietStep ==
    /\ owner' = owner /\ redeemed' = redeemed /\ superseded' = superseded /\ decided' = decided
    /\ \A n \in Nodes : enr'[n].code \in {enr[n].code, None}
    /\ \A r \in Regs : RegKeeps(r)

OffStep ==
    /\ \A n \in Nodes : enr'[n].status = "revoked" =>
          /\ enr[n].status = "revoked"
          /\ node'[n].enabled => node[n].enabled \/ n \in switched' \/ n \in raced
    /\ switched \subseteq switched' /\ raced' = raced
    /\ \A j \in ReqIds : req'[j] \in {req[j], Idle}

LEMMA QuietKeeps ==
    ASSUME GrantInv, SendersHold', QuietStep
    PROVE  GrantInv' /\ DeadStep
  <1>1. CodesLive'
    BY DEF GrantInv, CodesLive, QuietStep
  <1>2. CodesFresh'
    BY DEF GrantInv, CodesFresh, QuietStep
  <1>3. RegsLive'
    BY DEF GrantInv, RegsLive, QuietStep, RegKeeps, Pending
  <1>4. RedeemedOnce' /\ DecidedOnce' /\ DeadStep
    BY DEF GrantInv, RedeemedOnce, DecidedOnce, QuietStep, DeadStep
  <1> QED
    BY <1>1, <1>2, <1>3, <1>4 DEF GrantInv

LEMMA OffKeeps ==
    ASSUME ReportsRace, RevokedMeansOff, OffStep
    PROVE  ReportsRace' /\ RevokedMeansOff'
  <1>1. ReportsRace'
    BY DEF ReportsRace, OffStep, Serving
  <1>2. RevokedMeansOff'
    BY DEF RevokedMeansOff, OffStep
  <1> QED
    BY <1>1, <1>2

LEMMA FinishSenders ==
    ASSUME TypeOK, SendersHold, NEW i \in ReqIds, Finish(i)
    PROVE  SendersHold' /\ ReqsOK' /\ \A j \in ReqIds : req'[j] \in {req[j], Idle}
  <1>1. ReqsOK' /\ req'[i] = Idle /\ \A j \in ReqIds : j # i => req'[j] = req[j]
    BY TypeParts, FinishOK
  <1>2. Idle.op # "claim" /\ Idle.op # "report"
    BY DEF Idle
  <1> QED
    BY <1>1, <1>2 DEF SendersHold

LEMMA QuietOff ==
    ASSUME EnrollmentInv, TypeOK', SendersHold', QuietStep, OffStep
    PROVE  Kept
  BY QuietKeeps, OffKeeps DEF EnrollmentInv, Kept

LEMMA RedeemOff ==
    ASSUME EnrollmentInv, TypeOK', GrantInv', DeadStep, OffStep
    PROVE  Kept
  BY OffKeeps DEF EnrollmentInv, Kept


-----------------------------------------------------------------------------
(* Enrollments, operation by operation.                                      *)
LEMMA ClaimStep ==
    ASSUME EnrollmentConstants, EnrollmentInv, NEW i \in ReqIds, ClaimEdgeEnrollment(i)
    PROVE  Kept
  <1> DEFINE n == req[i].node
             g == req[i].grant
             old == req[i].snap.enr[n]
             late == [enr[n] EXCEPT !.status = "expired"]
             done == [status |-> "claimed", code |-> None, report |-> g, claimed |-> TRUE, lapsed |-> FALSE]
  <1>0. TypeOK /\ GrantInv /\ SendersHold /\ TypeOK'
    BY ClaimTypes DEF EnrollmentInv, GrantInv
  <1>1. n \in Nodes /\ enr[n] \in EnrRows /\ g \in Codes
    <2>1. Serving(i, "claim")
      BY DEF ClaimEdgeEnrollment
    <2>2. g \in Codes
      BY <1>0, <2>1 DEF Serving, SendersHold
    <2> QED
      BY <1>0, <2>1, <2>2, ServedBy DEF NodeOps
  <1>2. \/ enr' = [enr EXCEPT ![n] = late] /\ redeemed' = redeemed
        \/ /\ enr' = [enr EXCEPT ![n] = done] /\ redeemed' = [redeemed EXCEPT ![g] = redeemed[g] + 1]
           /\ enr[n].code = g
    BY DEF ClaimEdgeEnrollment, Redeemable
  <1>3. late.status = "expired" /\ late.code = enr[n].code /\ done.status = "claimed" /\ done.code = None
    BY <1>1, EnrStatus DEF EnrStatuses
  <1> HIDE DEF late, done
  <1>4. SendersHold' /\ \A j \in ReqIds : req'[j] \in {req[j], Idle}
    BY <1>0, FinishSenders DEF ClaimEdgeEnrollment
  <1>5. /\ \A m \in Nodes : m # n => enr'[m] = enr[m]
        /\ enr'[n].status # "revoked" /\ enr'[n].code \in {enr[n].code, None}
    BY <1>0, <1>1, <1>2, <1>3 DEF TypeOK
  <1>6. OffStep
    BY <1>4, <1>5 DEF ClaimEdgeEnrollment, OffStep
  <1>7. CASE redeemed' = redeemed
    <2>1. QuietStep
      BY <1>5, <1>7 DEF ClaimEdgeEnrollment, QuietStep, RegKeeps
    <2> QED
      BY <1>0, <1>4, <1>6, <2>1, QuietOff
  <1>8. CASE /\ enr' = [enr EXCEPT ![n] = done] /\ redeemed' = [redeemed EXCEPT ![g] = redeemed[g] + 1]
             /\ enr[n].code = g
    <2>1. owner[g] = n /\ redeemed[g] = 0 /\ g \notin superseded
      BY <1>0, <1>1, <1>8 DEF GrantInv, CodesLive, EnrollmentConstants
    <2>2. redeemed'[g] = 1 /\ \A h \in Grants : h # g => redeemed'[h] = redeemed[h]
      BY <1>0, <1>1, <1>8, <2>1 DEF TypeOK, Grants
    <2>3. enr'[n].code = None
      BY <1>0, <1>1, <1>3, <1>8 DEF TypeOK
    <2>4. owner' = owner /\ superseded' = superseded /\ decided' = decided /\ reg' = reg /\ boot' = boot
      BY DEF ClaimEdgeEnrollment
    <2>5. CodesLive'
      <3> SUFFICES ASSUME NEW m \in Nodes, enr'[m].code # None
                   PROVE  /\ owner[enr'[m].code] = m /\ redeemed'[enr'[m].code] = 0
                          /\ enr'[m].code \notin superseded
        BY <2>4 DEF CodesLive
      <3>1. m # n /\ enr'[m] = enr[m]
        BY <1>5, <2>3
      <3>2. owner[enr[m].code] = m /\ redeemed[enr[m].code] = 0 /\ enr[m].code \notin superseded
        BY <1>0, <3>1 DEF GrantInv, CodesLive
      <3>3. enr[m].code # g /\ enr[m].code \in Grants
        BY <1>0, <2>1, <3>1, <3>2, EnrFields DEF TypeOK, Grants
      <3> QED
        BY <2>2, <3>1, <3>2, <3>3
    <2>6. CodesFresh'
      BY <1>0, <1>1, <2>1, <2>2, <2>4 DEF GrantInv, CodesFresh, EnrollmentConstants, Grants
    <2>7. \A r \in Regs : redeemed'[r] = redeemed[r]
      BY <1>1, <2>2 DEF EnrollmentConstants, Grants
    <2>8. RegsLive' /\ DecidedOnce'
      BY <1>0, <2>4, <2>7 DEF GrantInv, RegsLive, DecidedOnce
    <2>9. RedeemedOnce'
      BY <1>0, <2>2 DEF GrantInv, RedeemedOnce
    <2>10. DeadStep
      BY <1>0, <2>1, <2>2 DEF DeadStep, TypeOK, Grants
    <2> QED
      BY <1>0, <1>4, <1>6, <2>5, <2>6, <2>8, <2>9, <2>10, RedeemOff DEF GrantInv
  <1> QED
    BY <1>2, <1>7, <1>8

LEMMA ReportStep ==
    ASSUME EnrollmentInv, NEW i \in ReqIds, ReportEdgeEnrollment(i)
    PROVE  Kept
  <1> DEFINE n == req[i].node
             old == req[i].snap.enr[n]
  <1>0. TypeOK /\ GrantInv /\ SendersHold /\ ReportsRace
    BY DEF EnrollmentInv, GrantInv
  <1>1. SendersHold' /\ ReqsOK' /\ \A j \in ReqIds : req'[j] \in {req[j], Idle}
    BY <1>0, FinishSenders DEF ReportEdgeEnrollment
  <1>2. Serving(i, "report") /\ old.status # "revoked"
    BY DEF ReportEdgeEnrollment
  <1>3. /\ n \in Nodes /\ enr' \in [Nodes -> EnrRows] /\ node' \in [Nodes -> NodeRows]
        /\ reg' \in [Regs -> RegRows]
    BY <1>0, ReportRows
  <1>4. TypeOK'
    BY <1>0, <1>1, <1>3, TypePartsNext DEF ReportEdgeEnrollment, TypeOK, RowsOK, BootOK, HistoryOK
  <1>5. QuietStep
    <2>1. \A r \in Regs : RegKeeps(r)
      BY <1>0, ReportRows DEF RegKeeps, ReportEdgeEnrollment, Phases, Pending
    <2>2. \A m \in Nodes : enr'[m].code = enr[m].code
      BY <1>0, ReportRows
    <2> QED
      BY <2>1, <2>2 DEF QuietStep, ReportEdgeEnrollment
  <1>6. OffStep
    <2>1. ASSUME NEW m \in Nodes, enr'[m].status = "revoked"
          PROVE  enr[m].status = "revoked" /\ (node'[m].enabled => node[m].enabled \/ m \in raced)
      <3>1. CASE m # n
        BY <1>0, <2>1, <3>1, ReportRows
      <3>2. CASE m = n
        <4>1. enr[n].status = "revoked"
          BY <1>0, <2>1, <3>2, ReportRows DEF Phases
        <4>2. n \in raced
          BY <1>0, <1>2, <1>3, <4>1 DEF ReportsRace
        <4> QED
          BY <3>2, <4>1, <4>2
      <3> QED
        BY <3>1, <3>2
    <2> QED
      BY <1>1, <2>1 DEF OffStep, ReportEdgeEnrollment
  <1> QED
    BY <1>1, <1>4, <1>5, <1>6, QuietOff


LEMMA RevokeStep ==
    ASSUME EnrollmentConstants, EnrollmentInv, NEW i \in ReqIds, RevokeEdgeEnrollment(i)
    PROVE  Kept
  <1> DEFINE n == req[i].node
             old == req[i].snap.enr[n]
             was == req[i].snap.node[n]
             rep == Col(enr[n].report, old.report, None)
             e == [enr[n] EXCEPT !.status = "revoked", !.code = None, !.report = rep]
             on == Col(node[n].enabled, was.enabled, FALSE)
             hl == Col(node[n].health, was.health, "disabled")
             w == [node[n] EXCEPT !.enabled = on, !.health = hl]
             overlap == \/ node[n].enabled # was.enabled
                        \/ \E j \in ReqIds : Serving(j, "report") /\ req[j].node = n
  <1>0. TypeOK /\ GrantInv /\ SendersHold /\ ReportsRace /\ RevokedMeansOff
    BY DEF EnrollmentInv, GrantInv
  <1>1. /\ n \in Nodes /\ enr[n] \in EnrRows /\ old \in EnrRows /\ node[n] \in NodeRows /\ was \in NodeRows
        /\ Serving(i, "revoke")
    BY <1>0, ServedBy DEF RevokeEdgeEnrollment, NodeOps
  <1>2. rep \in Grants \cup {None} /\ on \in BOOLEAN /\ hl \in Healths
    BY <1>1, EnrFields, NodeFields DEF Col, Healths
  <1>3. on => node[n].enabled /\ overlap
    BY <1>1, NodeFields DEF Col
  <1>4. /\ enr' = [enr EXCEPT ![n] = e] /\ node' = [node EXCEPT ![n] = w]
        /\ superseded' = superseded \cup CodesOf(n) /\ switched' = switched \ {n}
        /\ raced' = IF overlap THEN raced \cup {n} ELSE raced \ {n}
        /\ reg' = reg /\ boot' = boot /\ sent' = sent /\ owner' = owner /\ redeemed' = redeemed
        /\ decided' = decided /\ Finish(i)
    BY DEF RevokeEdgeEnrollment, SwitchedOff
  <1> HIDE DEF rep, on, hl
  <1>5. e \in EnrRows /\ e.status = "revoked" /\ e.code = None
    BY <1>1, <1>2 DEF EnrRows
  <1>6. w \in NodeRows /\ w.enabled = on
    BY <1>1, <1>2 DEF NodeRows
  <1> HIDE DEF e, w
  <1>7. SendersHold' /\ ReqsOK' /\ \A j \in ReqIds : req'[j] \in {req[j], Idle}
    BY <1>0, <1>4, FinishSenders
  <1>8. /\ enr' \in [Nodes -> EnrRows] /\ enr'[n] = e /\ \A m \in Nodes : m # n => enr'[m] = enr[m]
        /\ node' \in [Nodes -> NodeRows] /\ node'[n] = w /\ \A m \in Nodes : m # n => node'[m] = node[m]
    BY <1>0, <1>1, <1>4, <1>5, <1>6 DEF TypeOK
  <1>9. CodesOf(n) \subseteq Codes
    BY DEF CodesOf
  <1>10. raced' \subseteq Nodes /\ switched' \subseteq Nodes
    BY <1>0, <1>1, <1>4 DEF TypeOK
  <1>11. TypeOK'
    BY <1>0, <1>4, <1>7, <1>8, <1>9, <1>10, TypePartsNext DEF TypeOK, RowsOK, BootOK, HistoryOK
  <1>12. GrantInv' /\ DeadStep
    <2>1. CodesLive'
      <3> SUFFICES ASSUME NEW m \in Nodes, enr'[m].code # None
                   PROVE  /\ owner[enr'[m].code] = m /\ redeemed[enr'[m].code] = 0
                          /\ enr'[m].code \notin superseded \cup CodesOf(n)
        BY <1>4 DEF CodesLive
      <3>1. m # n /\ enr'[m] = enr[m]
        BY <1>5, <1>8
      <3> QED
        BY <1>0, <3>1 DEF GrantInv, CodesLive, CodesOf
    <2>2. CodesFresh'
      BY <1>0, <1>1, <1>4 DEF GrantInv, CodesFresh, CodesOf, EnrollmentConstants
    <2>3. RegsLive' /\ RedeemedOnce' /\ DecidedOnce'
      BY <1>0, <1>4 DEF GrantInv, RegsLive, RedeemedOnce, DecidedOnce
    <2> QED
      BY <1>4, <1>7, <2>1, <2>2, <2>3 DEF GrantInv, DeadStep
  <1>13. RevokedMeansOff'
    <2> SUFFICES ASSUME NEW m \in Nodes, enr'[m].status = "revoked", node'[m].enabled
                 PROVE  m \in raced' \cup switched'
      BY DEF RevokedMeansOff
    <2>1. CASE m = n
      BY <1>3, <1>4, <1>6, <1>8, <2>1
    <2>2. CASE m # n
      BY <1>0, <1>4, <1>8, <2>2 DEF RevokedMeansOff
    <2> QED
      BY <2>1, <2>2
  <1>14. ReportsRace'
    <2> SUFFICES ASSUME NEW m \in Nodes, NEW j \in ReqIds, enr'[m].status = "revoked",
                        Serving(j, "report"), req'[j] = req[j], req[j].node = m,
                        req[j].snap.enr[m].status # "revoked"
                 PROVE  m \in raced'
      BY <1>7 DEF ReportsRace, Serving
    <2>1. CASE m = n
      BY <1>1, <1>4, <2>1
    <2>2. CASE m # n
      BY <1>0, <1>4, <1>8, <2>2 DEF ReportsRace
    <2> QED
      BY <2>1, <2>2
  <1> QED
    BY <1>11, <1>12, <1>13, <1>14 DEF EnrollmentInv, Kept

LEMMA RegenerateStep ==
    ASSUME EnrollmentConstants, EnrollmentInv, NEW i \in ReqIds, NEW c \in Codes,
           RegenerateEdgeEnrollment(i, c)
    PROVE  Kept
  <1> DEFINE n == req[i].node
             old == req[i].snap.enr[n]
             st == Col(enr[n].status, old.status, "pending")
             rep == Col(enr[n].report, old.report, None)
             cl == Col(enr[n].claimed, old.claimed, FALSE)
             e == [status |-> st, code |-> c, report |-> rep, claimed |-> cl, lapsed |-> FALSE]
  <1>0. TypeOK /\ GrantInv /\ SendersHold
    BY DEF EnrollmentInv, GrantInv
  <1>1. n \in Nodes /\ enr[n] \in EnrRows /\ old \in EnrRows
    BY <1>0, ServedBy DEF RegenerateEdgeEnrollment, NodeOps
  <1>2. st \in EnrStatuses /\ rep \in Grants \cup {None} /\ cl \in BOOLEAN
    BY <1>1, EnrFields DEF Col, EnrStatuses
  <1>3. st = "revoked" => enr[n].status = "revoked"
    BY DEF Col
  <1>4. /\ enr' = [enr EXCEPT ![n] = e] /\ node' = node
        /\ superseded' = superseded \cup CodesOf(n) /\ switched' = switched /\ raced' = raced
        /\ reg' = reg /\ boot' = boot /\ sent' = sent /\ owner' = [owner EXCEPT ![c] = n]
        /\ redeemed' = redeemed /\ decided' = decided /\ Finish(i) /\ owner[c] = None
    BY DEF RegenerateEdgeEnrollment, Fresh
  <1> HIDE DEF st, rep, cl
  <1>5. e \in EnrRows /\ e.status = st /\ e.code = c
    BY <1>1, <1>2, EnrMake
  <1> HIDE DEF e
  <1>7. SendersHold' /\ ReqsOK' /\ \A j \in ReqIds : req'[j] \in {req[j], Idle}
    BY <1>0, <1>4, FinishSenders
  <1>8. enr' \in [Nodes -> EnrRows] /\ enr'[n] = e /\ \A m \in Nodes : m # n => enr'[m] = enr[m]
    BY <1>0, <1>1, <1>4, <1>5 DEF TypeOK
  <1>9. CodesOf(n) \subseteq Codes /\ c \notin CodesOf(n)
    BY <1>1, <1>4 DEF CodesOf, EnrollmentConstants
  <1>10. /\ owner' \in [Grants -> Nodes \cup {None}] /\ owner'[c] = n
         /\ \A g \in Grants : g # c => owner'[g] = owner[g]
    BY <1>0, <1>1, <1>4 DEF TypeOK, Grants
  <1>11. TypeOK'
    BY <1>0, <1>4, <1>7, <1>8, <1>9, <1>10, TypePartsNext DEF TypeOK, RowsOK, BootOK, HistoryOK
  <1>12. redeemed[c] = 0 /\ c \notin superseded
    BY <1>0, <1>4 DEF GrantInv, CodesFresh
  <1>13. GrantInv' /\ DeadStep
    <2>1. CodesLive'
      <3> SUFFICES ASSUME NEW m \in Nodes, enr'[m].code # None
                   PROVE  /\ owner'[enr'[m].code] = m /\ redeemed[enr'[m].code] = 0
                          /\ enr'[m].code \notin superseded \cup CodesOf(n)
        BY <1>4 DEF CodesLive
      <3>1. CASE m = n
        BY <1>5, <1>8, <1>9, <1>10, <1>12, <3>1
      <3>2. CASE m # n
        <4>1. enr'[m] = enr[m] /\ enr[m].code \in Grants
          BY <1>0, <1>8, <3>2, EnrFields DEF TypeOK, Grants
        <4>2. owner[enr[m].code] = m /\ redeemed[enr[m].code] = 0 /\ enr[m].code \notin superseded
          BY <1>0, <4>1 DEF GrantInv, CodesLive
        <4>3. enr[m].code # c
          BY <1>4, <4>2 DEF EnrollmentConstants
        <4> QED
          BY <1>10, <3>2, <4>1, <4>2, <4>3 DEF CodesOf
      <3> QED
        BY <3>1, <3>2
    <2>2. CodesFresh'
      <3> SUFFICES ASSUME NEW d \in Codes, owner'[d] = None
                   PROVE  redeemed[d] = 0 /\ d \notin superseded \cup CodesOf(n)
        BY <1>4 DEF CodesFresh
      <3>1. owner[d] = None
        BY <1>1, <1>10 DEF EnrollmentConstants, Grants
      <3> QED
        BY <1>0, <1>1, <3>1 DEF GrantInv, CodesFresh, CodesOf, EnrollmentConstants
    <2>3. \A r \in Regs : owner'[r] = owner[r]
      BY <1>10 DEF EnrollmentConstants, Grants
    <2>4. RegsLive' /\ RedeemedOnce' /\ DecidedOnce'
      BY <1>0, <1>4, <2>3 DEF GrantInv, RegsLive, RedeemedOnce, DecidedOnce
    <2> QED
      BY <1>4, <1>7, <2>1, <2>2, <2>4 DEF GrantInv, DeadStep
  <1>14. OffStep
    BY <1>3, <1>4, <1>5, <1>7, <1>8 DEF OffStep
  <1> QED
    BY <1>11, <1>13, <1>14, RedeemOff


LEMMA ListEnrollmentsStep ==
    ASSUME EnrollmentInv, NEW i \in ReqIds, ListEdgeEnrollments(i)
    PROVE  Kept
  <1> DEFINE late == {n \in Nodes : Overdue(req[i].snap.enr[n])}
             e(n) == [enr[n] EXCEPT !.status = "expired"]
  <1>0. TypeOK /\ GrantInv /\ SendersHold
    BY DEF EnrollmentInv, GrantInv
  <1>1. enr' = [n \in Nodes |-> IF n \in late THEN e(n) ELSE enr[n]]
    BY DEF ListEdgeEnrollments
  <1>2. \A n \in Nodes : e(n) \in EnrRows /\ e(n).status = "expired" /\ e(n).code = enr[n].code
    BY <1>0, EnrStatus DEF TypeOK, EnrStatuses
  <1> HIDE DEF late, e
  <1>3. enr' \in [Nodes -> EnrRows]
    BY <1>0, <1>1, <1>2 DEF TypeOK
  <1>4. \A n \in Nodes : enr'[n].code = enr[n].code /\ (enr'[n].status = "revoked" => enr[n].status = "revoked")
    BY <1>1, <1>2
  <1>5. SendersHold' /\ ReqsOK' /\ \A j \in ReqIds : req'[j] \in {req[j], Idle}
    BY <1>0, FinishSenders DEF ListEdgeEnrollments
  <1>6. TypeOK'
    BY <1>0, <1>3, <1>5, TypePartsNext DEF ListEdgeEnrollments, TypeOK, RowsOK, BootOK, HistoryOK
  <1>7. QuietStep
    BY <1>4 DEF ListEdgeEnrollments, QuietStep, RegKeeps
  <1>8. OffStep
    BY <1>4, <1>5 DEF ListEdgeEnrollments, OffStep
  <1> QED
    BY <1>5, <1>6, <1>7, <1>8, QuietOff

LEMMA CreateEnrollmentStep ==
    ASSUME EnrollmentConstants, EnrollmentInv, NEW n \in Nodes, NEW c \in Codes, NEW ip \in Ips,
           CreateEdgeEnrollment(n, c, ip)
    PROVE  Kept
  <1> DEFINE e == [NoEnr EXCEPT !.status = "pending", !.code = c]
             w == PresentNode(FALSE, FALSE, ip)
  <1>0. TypeOK /\ GrantInv /\ SendersHold
    BY DEF EnrollmentInv, GrantInv
  <1>1. e \in EnrRows /\ e.status = "pending" /\ e.code = c
    BY DEF NoEnr, EnrRows
  <1>2. w \in NodeRows /\ ~w.enabled
    BY NewRows
  <1>3. /\ enr' = [enr EXCEPT ![n] = e] /\ node' = [node EXCEPT ![n] = w]
        /\ superseded' = superseded /\ switched' = switched /\ raced' = raced
        /\ reg' = reg /\ boot' = boot /\ sent' = sent /\ owner' = [owner EXCEPT ![c] = n]
        /\ redeemed' = redeemed /\ decided' = decided /\ req' = req /\ owner[c] = None
    BY DEF CreateEdgeEnrollment, Fresh
  <1> HIDE DEF e, w
  <1>4. /\ enr' \in [Nodes -> EnrRows] /\ enr'[n] = e /\ \A m \in Nodes : m # n => enr'[m] = enr[m]
        /\ node' \in [Nodes -> NodeRows] /\ node'[n] = w /\ \A m \in Nodes : m # n => node'[m] = node[m]
    BY <1>0, <1>1, <1>2, <1>3 DEF TypeOK
  <1>5. /\ owner' \in [Grants -> Nodes \cup {None}] /\ owner'[c] = n
        /\ \A g \in Grants : g # c => owner'[g] = owner[g]
    BY <1>0, <1>3 DEF TypeOK, Grants
  <1>6. TypeOK'
    BY <1>0, <1>3, <1>4, <1>5 DEF TypeOK
  <1>7. redeemed[c] = 0 /\ c \notin superseded
    BY <1>0, <1>3 DEF GrantInv, CodesFresh
  <1>8. CodesLive'
    <2> SUFFICES ASSUME NEW m \in Nodes, enr'[m].code # None
                 PROVE  /\ owner'[enr'[m].code] = m /\ redeemed[enr'[m].code] = 0
                        /\ enr'[m].code \notin superseded
      BY <1>3 DEF CodesLive
    <2>1. CASE m = n
      BY <1>1, <1>4, <1>5, <1>7, <2>1
    <2>2. CASE m # n
      <3>1. enr'[m] = enr[m] /\ enr[m].code \in Grants
        BY <1>0, <1>4, <2>2, EnrFields DEF TypeOK, Grants
      <3>2. owner[enr[m].code] = m /\ redeemed[enr[m].code] = 0 /\ enr[m].code \notin superseded
        BY <1>0, <3>1 DEF GrantInv, CodesLive
      <3>3. enr[m].code # c
        BY <1>3, <3>2 DEF EnrollmentConstants
      <3> QED
        BY <1>5, <2>2, <3>1, <3>2, <3>3
    <2> QED
      BY <2>1, <2>2
  <1>9. CodesFresh'
    BY <1>0, <1>3, <1>5 DEF GrantInv, CodesFresh, EnrollmentConstants, Grants
  <1>10. \A r \in Regs : owner'[r] = owner[r]
    BY <1>5 DEF EnrollmentConstants, Grants
  <1>11. RegsLive' /\ RedeemedOnce' /\ DecidedOnce' /\ SendersHold'
    BY <1>0, <1>3, <1>10 DEF GrantInv, RegsLive, RedeemedOnce, DecidedOnce, SendersHold
  <1>12. OffStep
    BY <1>1, <1>3, <1>4 DEF OffStep
  <1>13. DeadStep
    BY <1>3 DEF DeadStep
  <1> QED
    BY <1>6, <1>8, <1>9, <1>11, <1>12, <1>13, RedeemOff DEF GrantInv

LEMMA EnrollmentLapsesStep ==
    ASSUME EnrollmentInv, NEW n \in Nodes, EnrollmentLapses(n)
    PROVE  Kept
  <1> DEFINE e == [enr[n] EXCEPT !.lapsed = TRUE]
  <1>0. TypeOK /\ SendersHold /\ enr[n] \in EnrRows
    BY DEF EnrollmentInv, GrantInv, TypeOK
  <1>1. e \in EnrRows /\ e.status = enr[n].status /\ e.code = enr[n].code
    BY <1>0 DEF EnrRows
  <1>2. enr' = [enr EXCEPT ![n] = e]
    BY DEF EnrollmentLapses
  <1> HIDE DEF e
  <1>3. /\ enr' \in [Nodes -> EnrRows]
        /\ \A m \in Nodes : enr'[m].status = enr[m].status /\ enr'[m].code = enr[m].code
    BY <1>0, <1>1, <1>2 DEF TypeOK
  <1>4. TypeOK' /\ SendersHold'
    BY <1>0, <1>3 DEF EnrollmentLapses, TypeOK, SendersHold
  <1>5. QuietStep /\ OffStep
    BY <1>3 DEF EnrollmentLapses, QuietStep, RegKeeps, OffStep
  <1> QED
    BY <1>4, <1>5, QuietOff

-----------------------------------------------------------------------------
(* Registrations, operation by operation.                                    *)
LEMMA RegistrationLapsesStep ==
    ASSUME EnrollmentInv, NEW r \in Regs, RegistrationLapses(r)
    PROVE  Kept
  <1> DEFINE v == [reg[r] EXCEPT !.lapsed = TRUE]
  <1>0. TypeOK /\ SendersHold /\ reg[r] \in RegRows
    BY DEF EnrollmentInv, GrantInv, TypeOK
  <1>1. v \in RegRows /\ v.status = reg[r].status /\ v.token = reg[r].token
    BY <1>0 DEF RegRows
  <1>2. reg' = [reg EXCEPT ![r] = v]
    BY DEF RegistrationLapses
  <1> HIDE DEF v
  <1>3. /\ reg' \in [Regs -> RegRows]
        /\ \A q \in Regs : reg'[q].status = reg[q].status /\ reg'[q].token = reg[q].token
    BY <1>0, <1>1, <1>2 DEF TypeOK
  <1>4. TypeOK' /\ SendersHold'
    BY <1>0, <1>3 DEF RegistrationLapses, TypeOK, SendersHold
  <1>5. QuietStep /\ OffStep
    BY <1>3 DEF RegistrationLapses, QuietStep, RegKeeps, OffStep
  <1> QED
    BY <1>4, <1>5, QuietOff

LEMMA ProveStep ==
    ASSUME EnrollmentInv, NEW i \in ReqIds, ProveNodeRegistration(i)
    PROVE  Kept
  <1> DEFINE r == req[i].grant
             late == [reg[r] EXCEPT !.status = "expired", !.chal = FALSE]
             done == [reg[r] EXCEPT !.status = "pending_approval", !.chal = FALSE,
                                    !.lapsed = FALSE, !.proved = TRUE]
  <1>0. TypeOK /\ SendersHold
    BY DEF EnrollmentInv, GrantInv
  <1>1. r \in Regs /\ reg[r] \in RegRows
    BY <1>0, ServedBy DEF ProveNodeRegistration, RegOps
  <1>2. /\ late \in RegRows /\ late.status = "expired" /\ late.token = reg[r].token
        /\ done \in RegRows /\ done.status = "pending_approval" /\ done.token = reg[r].token
    BY <1>1 DEF RegRows
  <1>3. /\ \/ reg' = [reg EXCEPT ![r] = late] /\ reg[r].status # "none"
           \/ reg' = [reg EXCEPT ![r] = done] /\ reg[r].status = "pending_proof"
        /\ GiveUp(r, "proving") \/ Answer(r, "proving", "polling")
    BY DEF ProveNodeRegistration
  <1> HIDE DEF late, done
  <1>4. /\ reg' \in [Regs -> RegRows] /\ \A q \in Regs : q # r => reg'[q] = reg[q]
        /\ reg'[r].token = reg[r].token
        /\ \/ reg'[r].status = "expired" /\ reg[r].status # "none"
           \/ reg'[r].status = "pending_approval" /\ reg[r].status = "pending_proof"
    BY <1>0, <1>1, <1>2, <1>3 DEF TypeOK
  <1>5. "polling" \in BootStates /\ BootOK /\ UNCHANGED sent
    BY <1>0, TypeParts DEF BootStates, ProveNodeRegistration
  <1>6. BootOK' /\ \A q \in Regs : boot'[q] = "idle" => boot[q] = "idle"
    <2>1. BootOK' /\ \A q \in Regs : boot'[q] = boot[q] \/ boot'[q] \in {"polling", "failed"}
      BY <1>1, <1>3, <1>5, BootAnswer
    <2> QED
      BY <2>1
  <1>7. SendersHold' /\ ReqsOK' /\ \A j \in ReqIds : req'[j] \in {req[j], Idle}
    BY <1>0, FinishSenders DEF ProveNodeRegistration
  <1>8. TypeOK'
    BY <1>0, <1>4, <1>6, <1>7, TypePartsNext DEF ProveNodeRegistration, TypeOK, RowsOK, HistoryOK
  <1>9. \A q \in Regs : RegKeeps(q)
    BY <1>1, <1>4, <1>6 DEF RegKeeps, Pending
  <1>10. QuietStep /\ OffStep
    BY <1>7, <1>9 DEF ProveNodeRegistration, QuietStep, OffStep
  <1> QED
    BY <1>7, <1>8, <1>10, QuietOff


LEMMA RegisterStep ==
    ASSUME EnrollmentInv, NEW r \in Regs, CreateNodeRegistration(r)
    PROVE  Kept
  <1> DEFINE row == [NoReg EXCEPT !.status = "pending_proof", !.token = TRUE, !.chal = TRUE]
  <1>0. TypeOK /\ GrantInv /\ SendersHold
    BY DEF EnrollmentInv, GrantInv
  <1>1. row \in RegRows /\ row.status = "pending_proof" /\ row.token = TRUE
    BY DEF NoReg, RegRows
  <1>2. /\ boot[r] = "idle" /\ req' = req
        /\ reg' = [reg EXCEPT ![r] = row] \/ reg' = reg
        /\ \/ boot' = [boot EXCEPT ![r] = "proving"] /\ sent' = [sent EXCEPT ![r] = {"prove"}]
           \/ boot' = [boot EXCEPT ![r] = "failed"] /\ sent' = sent
        /\ UNCHANGED <<node, enr, owner, redeemed, superseded, decided, switched, raced>>
    BY DEF CreateNodeRegistration
  <1> HIDE DEF row
  <1>3. reg' \in [Regs -> RegRows] /\ \A q \in Regs : q # r => reg'[q] = reg[q]
    BY <1>0, <1>1, <1>2 DEF TypeOK
  <1>4. BootOK' /\ boot'[r] # "idle" /\ \A q \in Regs : q # r => boot'[q] = boot[q]
    <2>1. boot' = [boot EXCEPT ![r] = "proving"] \/ boot' = [boot EXCEPT ![r] = "failed"]
      BY <1>2
    <2>2. boot' \in [Regs -> BootStates] /\ boot'[r] # "idle" /\ \A q \in Regs : q # r => boot'[q] = boot[q]
      BY <1>0, <2>1 DEF TypeOK, BootStates
    <2>3. sent' \in [Regs -> SUBSET {"prove", "claim_approved"}]
      <3>1. sent' = sent \/ sent' = [sent EXCEPT ![r] = {"prove"}]
        BY <1>2
      <3> QED
        BY <1>0, <3>1 DEF TypeOK
    <2> QED
      BY <2>2, <2>3 DEF BootOK
  <1>5. TypeOK' /\ SendersHold'
    BY <1>0, <1>2, <1>3, <1>4, TypePartsNext DEF TypeOK, RowsOK, ReqsOK, HistoryOK, SendersHold
  <1>6. /\ reg'[r].status = "pending_proof" \/ reg'[r] = reg[r]
        /\ redeemed[r] = 0 /\ decided[r].accepted = 0 /\ decided[r].rejected = 0
        /\ reg[r].status = "none"
    BY <1>0, <1>1, <1>2 DEF TypeOK, GrantInv, RegsLive
  <1>7. RegsLive'
    <2> SUFFICES ASSUME NEW q \in Regs
                 PROVE  /\ boot'[q] = "idle" => /\ reg'[q].status = "none" /\ redeemed[q] = 0
                                                /\ decided[q].accepted = 0 /\ decided[q].rejected = 0
                        /\ reg'[q].token => redeemed[q] = 0
                        /\ reg'[q].status \in {"pending_proof", "pending_approval"} =>
                              decided[q].accepted = 0 /\ decided[q].rejected = 0
                        /\ reg'[q].status = "approved" => decided[q].accepted = 1 /\ owner[q] \in Nodes
                        /\ redeemed[q] > 0 => owner[q] \in Nodes
      BY <1>2 DEF RegsLive
    <2>1. CASE q = r
      BY <1>4, <1>6, <2>1
    <2>2. CASE q # r
      BY <1>0, <1>3, <1>4, <2>2 DEF GrantInv, RegsLive
    <2> QED
      BY <2>1, <2>2
  <1>8. CodesLive' /\ CodesFresh' /\ RedeemedOnce' /\ DecidedOnce' /\ DeadStep
    BY <1>0, <1>2 DEF GrantInv, CodesLive, CodesFresh, RedeemedOnce, DecidedOnce, DeadStep
  <1>9. OffStep
    BY <1>2 DEF OffStep
  <1> QED
    BY <1>5, <1>7, <1>8, <1>9, RedeemOff DEF GrantInv

LEMMA PollStep ==
    ASSUME EnrollmentInv, NEW r \in Regs, Poll(r) \/ PollFails(r)
    PROVE  Kept
  <1>0. TypeOK /\ SendersHold
    BY DEF EnrollmentInv, GrantInv
  <1>1. /\ boot[r] = "polling"
        /\ \E b \in {"claiming", "failed"} : boot' = [boot EXCEPT ![r] = b]
        /\ sent' = sent \/ sent' = [sent EXCEPT ![r] = sent[r] \cup {"claim_approved"}]
        /\ UNCHANGED <<node, enr, reg, req, owner, redeemed, superseded, decided, switched, raced>>
    BY DEF Poll, PollFails
  <1>2. boot' \in [Regs -> BootStates] /\ \A q \in Regs : boot'[q] = "idle" => boot[q] = "idle"
    BY <1>0, <1>1 DEF TypeOK, BootStates
  <1>3. sent' \in [Regs -> SUBSET {"prove", "claim_approved"}]
    BY <1>0, <1>1 DEF TypeOK
  <1>4. TypeOK' /\ SendersHold'
    BY <1>0, <1>1, <1>2, <1>3 DEF TypeOK, SendersHold
  <1>5. QuietStep /\ OffStep
    BY <1>1, <1>2 DEF QuietStep, RegKeeps, OffStep
  <1> QED
    BY <1>4, <1>5, QuietOff

LEMMA AcceptStep ==
    ASSUME EnrollmentConstants, EnrollmentInv, NEW i \in ReqIds, NEW n \in Nodes,
           AcceptNodeRegistration(i, n)
    PROVE  Kept
  <1> DEFINE r == req[i].grant
             v == [reg[r] EXCEPT !.status = "approved", !.chal = TRUE, !.lapsed = FALSE, !.node = n]
             e == [status |-> "claimed", code |-> None, report |-> r, claimed |-> TRUE, lapsed |-> FALSE]
             d == [decided[r] EXCEPT !.accepted = decided[r].accepted + 1]
  <1>0. TypeOK /\ GrantInv /\ SendersHold
    BY DEF EnrollmentInv, GrantInv
  <1>1. r \in Regs /\ reg[r] \in RegRows
    BY <1>0, ServedBy DEF AcceptNodeRegistration, RegOps
  <1>2. v \in RegRows /\ v.status = "approved" /\ v.token = reg[r].token
    BY <1>1 DEF RegRows
  <1>3. e \in EnrRows /\ e.status = "claimed" /\ e.code = None
    BY <1>1, EnrMake DEF EnrStatuses, Grants
  <1>4. d \in [accepted : Nat, rejected : Nat] /\ d.accepted = decided[r].accepted + 1 /\ d.rejected = decided[r].rejected
    BY <1>0, <1>1 DEF TypeOK
  <1>5. PICK ip \in Ips : node' = [node EXCEPT ![n] = PresentNode(FALSE, FALSE, ip)]
    BY DEF AcceptNodeRegistration
  <1>6. PresentNode(FALSE, FALSE, ip) \in NodeRows
    BY NewRows
  <1>7. /\ Finish(i) /\ reg[r].status = "pending_approval"
        /\ reg' = [reg EXCEPT ![r] = v] /\ enr' = [enr EXCEPT ![n] = e]
        /\ owner' = [owner EXCEPT ![r] = n] /\ decided' = [decided EXCEPT ![r] = d]
        /\ UNCHANGED <<boot, sent, redeemed, superseded, switched, raced>>
    BY DEF AcceptNodeRegistration, Undecided
  <1> HIDE DEF v, e, d
  <1>8. SendersHold' /\ ReqsOK' /\ \A j \in ReqIds : req'[j] \in {req[j], Idle}
    BY <1>0, <1>7, FinishSenders
  <1>9. /\ reg' \in [Regs -> RegRows] /\ reg'[r] = v /\ \A q \in Regs : q # r => reg'[q] = reg[q]
        /\ enr' \in [Nodes -> EnrRows] /\ enr'[n] = e /\ \A m \in Nodes : m # n => enr'[m] = enr[m]
        /\ node' \in [Nodes -> NodeRows] /\ \A m \in Nodes : m # n => node'[m] = node[m]
    BY <1>0, <1>1, <1>2, <1>3, <1>5, <1>6, <1>7 DEF TypeOK
  <1>10. /\ owner' \in [Grants -> Nodes \cup {None}] /\ owner'[r] = n
         /\ \A g \in Grants : g # r => owner'[g] = owner[g]
    BY <1>0, <1>1, <1>7 DEF TypeOK, Grants
  <1>11. /\ decided' \in [Regs -> [accepted : Nat, rejected : Nat]] /\ decided'[r] = d
         /\ \A q \in Regs : q # r => decided'[q] = decided[q]
    BY <1>0, <1>1, <1>4, <1>7 DEF TypeOK
  <1>12. TypeOK'
    BY <1>0, <1>7, <1>8, <1>9, <1>10, <1>11, TypePartsNext DEF TypeOK, RowsOK, BootOK, HistoryOK
  <1>13. /\ decided[r].accepted = 0 /\ decided[r].rejected = 0 /\ boot[r] # "idle"
         /\ d.accepted = 1 /\ d.rejected = 0
    BY <1>0, <1>1, <1>4, <1>7 DEF GrantInv, RegsLive
  <1>14. redeemed[r] = 0
    <2>1. redeemed[r] \in Nat
      BY <1>0, <1>1 DEF TypeOK, Grants
    <2>2. redeemed[r] > 0 => decided[r].accepted = 1
      BY <1>0, <1>1 DEF GrantInv, DecidedOnce
    <2> QED
      BY <1>13, <2>1, <2>2
  <1>15. CodesLive'
    <2> SUFFICES ASSUME NEW m \in Nodes, enr'[m].code # None
                 PROVE  /\ owner'[enr'[m].code] = m /\ redeemed[enr'[m].code] = 0
                        /\ enr'[m].code \notin superseded
      BY <1>7 DEF CodesLive
    <2>1. m # n /\ enr'[m] = enr[m]
      BY <1>3, <1>9
    <2>2. enr[m].code \in Codes
      BY <1>0, <2>1, EnrFields DEF TypeOK
    <2>3. enr[m].code \in Grants /\ enr[m].code # r
      BY <1>1, <2>2 DEF EnrollmentConstants, Grants
    <2> QED
      BY <1>0, <1>10, <2>1, <2>3 DEF GrantInv, CodesLive
  <1>16. CodesFresh'
    <2>1. \A c \in Codes : owner'[c] = owner[c]
      BY <1>1, <1>10 DEF EnrollmentConstants, Grants
    <2> QED
      BY <1>0, <1>7, <2>1 DEF GrantInv, CodesFresh
  <1>17. RegsLive'
    <2> SUFFICES ASSUME NEW q \in Regs
                 PROVE  /\ boot[q] = "idle" => /\ reg'[q].status = "none" /\ redeemed[q] = 0
                                               /\ decided'[q].accepted = 0 /\ decided'[q].rejected = 0
                        /\ reg'[q].token => redeemed[q] = 0
                        /\ reg'[q].status \in {"pending_proof", "pending_approval"} =>
                              decided'[q].accepted = 0 /\ decided'[q].rejected = 0
                        /\ reg'[q].status = "approved" => decided'[q].accepted = 1 /\ owner'[q] \in Nodes
                        /\ redeemed[q] > 0 => owner'[q] \in Nodes
      BY <1>7 DEF RegsLive
    <2>1. CASE q = r
      BY <1>2, <1>9, <1>10, <1>11, <1>13, <1>14, <2>1
    <2>2. CASE q # r
      BY <1>0, <1>9, <1>10, <1>11, <2>2 DEF GrantInv, RegsLive, Grants
    <2> QED
      BY <2>1, <2>2
  <1>18. RedeemedOnce' /\ DeadStep
    BY <1>0, <1>7 DEF GrantInv, RedeemedOnce, DeadStep
  <1>19. DecidedOnce'
    <2> SUFFICES ASSUME NEW q \in Regs
                 PROVE  /\ decided'[q].accepted + decided'[q].rejected <= 1
                        /\ redeemed[q] > 0 => decided'[q].accepted = 1
      BY <1>7 DEF DecidedOnce
    <2>1. CASE q = r
      BY <1>11, <1>13, <2>1
    <2>2. CASE q # r
      BY <1>0, <1>11, <2>2 DEF GrantInv, DecidedOnce
    <2> QED
      BY <2>1, <2>2
  <1>20. OffStep
    BY <1>3, <1>7, <1>8, <1>9 DEF OffStep
  <1> QED
    BY <1>8, <1>12, <1>15, <1>16, <1>17, <1>18, <1>19, <1>20, RedeemOff DEF GrantInv

LEMMA RejectStep ==
    ASSUME EnrollmentInv, NEW r \in Regs, RejectNodeRegistration(r)
    PROVE  Kept
  <1> DEFINE v == [reg[r] EXCEPT !.status = "rejected", !.chal = FALSE]
             d == [decided[r] EXCEPT !.rejected = decided[r].rejected + 1]
  <1>0. TypeOK /\ GrantInv /\ SendersHold /\ reg[r] \in RegRows
    BY DEF EnrollmentInv, GrantInv, TypeOK
  <1>1. v \in RegRows /\ v.status = "rejected" /\ v.token = reg[r].token
    BY <1>0 DEF RegRows
  <1>2. d \in [accepted : Nat, rejected : Nat] /\ d.rejected = decided[r].rejected + 1 /\ d.accepted = decided[r].accepted
    BY <1>0 DEF TypeOK
  <1>3. /\ reg[r].status = "pending_approval"
        /\ reg' = [reg EXCEPT ![r] = v] /\ decided' = [decided EXCEPT ![r] = d]
        /\ UNCHANGED <<node, enr, boot, sent, req, owner, redeemed, superseded, switched, raced>>
    BY DEF RejectNodeRegistration, Undecided
  <1> HIDE DEF v, d
  <1>4. reg' \in [Regs -> RegRows] /\ reg'[r] = v /\ \A q \in Regs : q # r => reg'[q] = reg[q]
    BY <1>0, <1>1, <1>3 DEF TypeOK
  <1>5. /\ decided' \in [Regs -> [accepted : Nat, rejected : Nat]] /\ decided'[r] = d
        /\ \A q \in Regs : q # r => decided'[q] = decided[q]
    BY <1>0, <1>2, <1>3 DEF TypeOK
  <1>6. TypeOK' /\ SendersHold'
    BY <1>0, <1>3, <1>4, <1>5 DEF TypeOK, SendersHold
  <1>7. /\ decided[r].accepted = 0 /\ decided[r].rejected = 0 /\ boot[r] # "idle"
        /\ d.accepted = 0 /\ d.rejected = 1
    BY <1>0, <1>2, <1>3 DEF GrantInv, RegsLive
  <1>8. ~(redeemed[r] > 0)
    BY <1>0, <1>7 DEF GrantInv, DecidedOnce
  <1>9. RegsLive'
    <2> SUFFICES ASSUME NEW q \in Regs
                 PROVE  /\ boot[q] = "idle" => /\ reg'[q].status = "none" /\ redeemed[q] = 0
                                               /\ decided'[q].accepted = 0 /\ decided'[q].rejected = 0
                        /\ reg'[q].token => redeemed[q] = 0
                        /\ reg'[q].status \in {"pending_proof", "pending_approval"} =>
                              decided'[q].accepted = 0 /\ decided'[q].rejected = 0
                        /\ reg'[q].status = "approved" => decided'[q].accepted = 1 /\ owner[q] \in Nodes
                        /\ redeemed[q] > 0 => owner[q] \in Nodes
      BY <1>3 DEF RegsLive
    <2>1. CASE q = r
      BY <1>0, <1>1, <1>4, <1>7, <1>8, <2>1 DEF GrantInv, RegsLive
    <2>2. CASE q # r
      BY <1>0, <1>4, <1>5, <2>2 DEF GrantInv, RegsLive
    <2> QED
      BY <2>1, <2>2
  <1>10. DecidedOnce'
    <2> SUFFICES ASSUME NEW q \in Regs
                 PROVE  /\ decided'[q].accepted + decided'[q].rejected <= 1
                        /\ redeemed[q] > 0 => decided'[q].accepted = 1
      BY <1>3 DEF DecidedOnce
    <2>1. CASE q = r
      BY <1>5, <1>7, <1>8, <2>1
    <2>2. CASE q # r
      BY <1>0, <1>5, <2>2 DEF GrantInv, DecidedOnce
    <2> QED
      BY <2>1, <2>2
  <1>11. CodesLive' /\ CodesFresh' /\ RedeemedOnce' /\ DeadStep
    BY <1>0, <1>3 DEF GrantInv, CodesLive, CodesFresh, RedeemedOnce, DeadStep
  <1>12. OffStep
    BY <1>3 DEF OffStep
  <1> QED
    BY <1>6, <1>9, <1>10, <1>11, <1>12, RedeemOff DEF GrantInv


LEMMA ClaimApprovedStep ==
    ASSUME EnrollmentConstants, EnrollmentInv, NEW i \in ReqIds, ClaimApprovedNodeRegistration(i)
    PROVE  Kept
  <1> DEFINE r == req[i].grant
             n == req[i].snap.reg[r].node
             v == [reg[r] EXCEPT !.status = "installing", !.token = FALSE, !.chal = FALSE]
             e == [enr[n] EXCEPT !.status = "installing", !.lapsed = FALSE]
  <1>0. TypeOK /\ GrantInv /\ SendersHold
    BY DEF EnrollmentInv, GrantInv
  <1>1. r \in Regs /\ reg[r] \in RegRows /\ req[i].snap.reg[r] \in RegRows /\ n # None
    BY <1>0, ServedBy DEF ClaimApprovedNodeRegistration, RegOps
  <1>2. n \in Nodes /\ enr[n] \in EnrRows
    BY <1>0, <1>1, RegFields DEF TypeOK
  <1>3. v \in RegRows /\ v.status = "installing" /\ v.token = FALSE
    BY <1>1 DEF RegRows
  <1>4. e \in EnrRows /\ e.status = "installing" /\ e.code = enr[n].code
    BY <1>2 DEF EnrRows
  <1>5. /\ Finish(i) /\ reg[r].status = "approved" /\ reg[r].token
        /\ reg' = [reg EXCEPT ![r] = v] /\ enr' = [enr EXCEPT ![n] = e]
        /\ redeemed' = [redeemed EXCEPT ![r] = redeemed[r] + 1]
        /\ Answer(r, "claiming", "done")
        /\ UNCHANGED <<node, sent, owner, superseded, decided, switched, raced>>
    BY DEF ClaimApprovedNodeRegistration, Claimable
  <1> HIDE DEF v, e
  <1>6. SendersHold' /\ ReqsOK' /\ \A j \in ReqIds : req'[j] \in {req[j], Idle}
    BY <1>0, <1>5, FinishSenders
  <1>7. BootOK' /\ \A q \in Regs : boot'[q] = "idle" => boot[q] = "idle"
    <2>1. "done" \in BootStates /\ BootOK /\ UNCHANGED sent
      BY <1>0, <1>5, TypeParts DEF BootStates
    <2>2. BootOK' /\ \A q \in Regs : boot'[q] = boot[q] \/ boot'[q] \in {"done", "failed"}
      BY <1>1, <1>5, <2>1, BootAnswer
    <2> QED
      BY <2>2
  <1>8. /\ reg' \in [Regs -> RegRows] /\ reg'[r] = v /\ \A q \in Regs : q # r => reg'[q] = reg[q]
        /\ enr' \in [Nodes -> EnrRows] /\ enr'[n] = e /\ \A m \in Nodes : m # n => enr'[m] = enr[m]
    BY <1>0, <1>1, <1>2, <1>3, <1>4, <1>5 DEF TypeOK
  <1>9. redeemed[r] = 0 /\ decided[r].accepted = 1 /\ owner[r] \in Nodes /\ boot[r] # "idle"
    BY <1>0, <1>1, <1>5 DEF GrantInv, RegsLive
  <1>10. /\ redeemed' \in [Grants -> Nat] /\ redeemed'[r] = 1
         /\ \A g \in Grants : g # r => redeemed'[g] = redeemed[g]
    BY <1>0, <1>1, <1>5, <1>9 DEF TypeOK, Grants
  <1>11. TypeOK'
    BY <1>0, <1>5, <1>6, <1>7, <1>8, <1>10, TypePartsNext DEF TypeOK, RowsOK, HistoryOK
  <1>12. \A c \in Codes : redeemed'[c] = redeemed[c]
    BY <1>1, <1>10 DEF EnrollmentConstants, Grants
  <1>13. CodesLive'
    <2> SUFFICES ASSUME NEW m \in Nodes, enr'[m].code # None
                 PROVE  /\ owner[enr'[m].code] = m /\ redeemed'[enr'[m].code] = 0
                        /\ enr'[m].code \notin superseded
      BY <1>5 DEF CodesLive
    <2>1. enr'[m].code = enr[m].code
      BY <1>4, <1>8
    <2>2. enr[m].code \in Codes
      BY <1>0, <2>1, EnrFields DEF TypeOK
    <2> QED
      BY <1>0, <1>12, <2>1, <2>2 DEF GrantInv, CodesLive
  <1>14. CodesFresh' /\ DeadStep
    BY <1>0, <1>5, <1>12 DEF GrantInv, CodesFresh, DeadStep, TypeOK
  <1>15. RegsLive'
    <2> SUFFICES ASSUME NEW q \in Regs
                 PROVE  /\ boot'[q] = "idle" => /\ reg'[q].status = "none" /\ redeemed'[q] = 0
                                                /\ decided[q].accepted = 0 /\ decided[q].rejected = 0
                        /\ reg'[q].token => redeemed'[q] = 0
                        /\ reg'[q].status \in {"pending_proof", "pending_approval"} =>
                              decided[q].accepted = 0 /\ decided[q].rejected = 0
                        /\ reg'[q].status = "approved" => decided[q].accepted = 1 /\ owner[q] \in Nodes
                        /\ redeemed'[q] > 0 => owner[q] \in Nodes
      BY <1>5 DEF RegsLive
    <2>1. CASE q = r
      BY <1>3, <1>7, <1>8, <1>9, <2>1
    <2>2. CASE q # r
      <3>1. reg'[q] = reg[q] /\ redeemed'[q] = redeemed[q]
        BY <1>8, <1>10, <2>2 DEF Grants
      <3> QED
        BY <1>0, <1>7, <3>1 DEF GrantInv, RegsLive
    <2> QED
      BY <2>1, <2>2
  <1>16. RedeemedOnce'
    BY <1>0, <1>10 DEF GrantInv, RedeemedOnce
  <1>17. DecidedOnce'
    <2> SUFFICES ASSUME NEW q \in Regs
                 PROVE  /\ decided[q].accepted + decided[q].rejected <= 1
                        /\ redeemed'[q] > 0 => decided[q].accepted = 1
      BY <1>5 DEF DecidedOnce
    <2>1. decided[q].accepted + decided[q].rejected <= 1 /\ (redeemed[q] > 0 => decided[q].accepted = 1)
      BY <1>0 DEF GrantInv, DecidedOnce
    <2>2. q # r => redeemed'[q] = redeemed[q]
      BY <1>10 DEF Grants
    <2> QED
      BY <1>9, <2>1, <2>2
  <1>18. OffStep
    BY <1>4, <1>5, <1>6, <1>8 DEF OffStep
  <1> QED
    BY <1>6, <1>11, <1>13, <1>14, <1>15, <1>16, <1>17, <1>18, RedeemOff DEF GrantInv

LEMMA ListRegistrationsStep ==
    ASSUME EnrollmentInv, NEW i \in ReqIds, NEW old \in SUBSET Regs, ListNodeRegistrationRequests(i, old)
    PROVE  Kept
  <1> DEFINE was == req[i].snap.reg
             late == {r \in Regs : was[r].status \in {"pending_proof", "pending_approval"} /\ was[r].lapsed}
             ch(r) == Col(reg[r].chal, was[r].chal, FALSE)
             v(r) == [reg[r] EXCEPT !.status = "expired", !.chal = ch(r)]
  <1>0. TypeOK /\ SendersHold
    BY DEF EnrollmentInv, GrantInv
  <1>1. reg' = [r \in Regs |-> IF r \in old THEN NoReg ELSE IF r \in late THEN v(r) ELSE reg[r]]
    BY DEF ListNodeRegistrationRequests
  <1>2. \A r \in late \cup old : reg[r].status # "none"
    BY DEF ListNodeRegistrationRequests
  <1>3. ASSUME NEW r \in Regs
        PROVE  v(r) \in RegRows /\ v(r).status = "expired" /\ v(r).token = reg[r].token
    <2>1. reg[r] \in RegRows
      BY <1>0 DEF TypeOK
    <2>2. ch(r) \in BOOLEAN
      BY <2>1, RegFields DEF Col
    <2> HIDE DEF ch
    <2> QED
      BY <2>1, <2>2 DEF RegRows
  <1> HIDE DEF late, v
  <1>4. reg' \in [Regs -> RegRows]
    BY <1>0, <1>1, <1>3, NewRows DEF TypeOK
  <1>5. ASSUME NEW r \in Regs
        PROVE  \/ reg'[r] = reg[r]
               \/ /\ reg[r].status # "none" /\ reg'[r].status \in {"none", "expired"}
                  /\ reg'[r].token => reg[r].token
    BY <1>1, <1>2, <1>3, NewRows
  <1>6. SendersHold' /\ ReqsOK' /\ \A j \in ReqIds : req'[j] \in {req[j], Idle}
    BY <1>0, FinishSenders DEF ListNodeRegistrationRequests
  <1>7. TypeOK'
    BY <1>0, <1>4, <1>6, TypePartsNext DEF ListNodeRegistrationRequests, TypeOK, RowsOK, BootOK, HistoryOK
  <1>8. \A r \in Regs : RegKeeps(r)
    BY <1>5 DEF RegKeeps, Pending, ListNodeRegistrationRequests
  <1>9. QuietStep /\ OffStep
    BY <1>6, <1>8 DEF ListNodeRegistrationRequests, QuietStep, OffStep
  <1> QED
    BY <1>6, <1>7, <1>9, QuietOff

-----------------------------------------------------------------------------
(* Nodes, and requests that come and go.                                     *)
LEMMA CreateNodeStep ==
    ASSUME EnrollmentInv, NEW n \in Nodes, NEW on \in BOOLEAN, NEW maint \in BOOLEAN,
           NEW ip \in Ips \cup {None}, CreateEdgeNode(n, on, maint, ip)
    PROVE  Kept
  <1> DEFINE w == PresentNode(on, maint, ip)
  <1>0. TypeOK /\ SendersHold
    BY DEF EnrollmentInv, GrantInv
  <1>1. w \in NodeRows /\ w.enabled = on
    BY NewRows
  <1>2. /\ node' = [node EXCEPT ![n] = w] /\ switched' = IF on THEN switched \cup {n} ELSE switched
        /\ UNCHANGED <<enr, reg, boot, sent, req, owner, redeemed, superseded, decided, raced>>
    BY DEF CreateEdgeNode
  <1> HIDE DEF w
  <1>3. node' \in [Nodes -> NodeRows] /\ node'[n] = w /\ \A m \in Nodes : m # n => node'[m] = node[m]
    BY <1>0, <1>1, <1>2 DEF TypeOK
  <1>4. switched' \subseteq Nodes
    BY <1>0, <1>2 DEF TypeOK
  <1>5. TypeOK' /\ SendersHold'
    BY <1>0, <1>2, <1>3, <1>4 DEF TypeOK, SendersHold
  <1>6. QuietStep
    BY <1>2 DEF QuietStep, RegKeeps
  <1>7. OffStep
    BY <1>1, <1>2, <1>3 DEF OffStep
  <1> QED
    BY <1>5, <1>6, <1>7, QuietOff

LEMMA UpdateNodeStep ==
    ASSUME EnrollmentInv, NEW i \in ReqIds, NEW ip \in Ips \cup {None}, UpdateEdgeNode(i, ip)
    PROVE  Kept
  <1> DEFINE n == req[i].node
             old == req[i].snap.node[n]
             ch == req[i].arg
             on == CASE ch = "enable" -> TRUE [] ch = "disable" -> FALSE [] OTHER -> old.enabled
             mt == CASE ch = "maintain" -> TRUE [] ch = "resume" -> FALSE [] OTHER -> old.maint
             ex == IF ch = "expect" THEN ip ELSE old.expected
             hl == CASE mt -> "maintenance"
                     [] ~mt /\ ~on -> "disabled"
                     [] ~mt /\ on /\ ch # "expect" -> "unknown"
                     [] OTHER -> old.health
             new == [old EXCEPT !.enabled = on, !.maint = mt, !.expected = ex, !.health = hl]
             on2 == Col(node[n].enabled, old.enabled, new.enabled)
             mt2 == Col(node[n].maint, old.maint, new.maint)
             hl2 == Col(node[n].health, old.health, new.health)
             ex2 == Col(node[n].expected, old.expected, new.expected)
             w == [state |-> "present", enabled |-> on2, maint |-> mt2, health |-> hl2, expected |-> ex2]
  <1>0. TypeOK /\ SendersHold
    BY DEF EnrollmentInv, GrantInv
  <1>1. n \in Nodes /\ old \in NodeRows /\ node[n] \in NodeRows
    BY <1>0, ServedBy DEF UpdateEdgeNode, NodeOps
  <1>2. on \in BOOLEAN /\ mt \in BOOLEAN /\ ex \in Ips \cup {None}
    BY <1>1, NodeFields
  <1>3. hl \in Healths
    <2> HIDE DEF on, mt
    <2>1. old.health \in Healths
      BY <1>1, NodeFields
    <2> QED
      BY <2>1 DEF Healths
  <1>4. Changed(old, ch, ip) = new
    BY Zenon DEF Changed
  <1>5. new \in NodeRows /\ new.enabled = on
    <2> HIDE DEF on, mt, ex, hl
    <2> QED
      BY <1>1, <1>2, <1>3 DEF NodeRows
  <1>6. /\ node' = [node EXCEPT ![n] = w] /\ Finish(i)
        /\ switched' = IF new.enabled /\ ~old.enabled THEN switched \cup {n} ELSE switched
        /\ UNCHANGED <<enr, reg, boot, sent, owner, redeemed, superseded, decided, raced>>
    <2> HIDE DEF new
    <2> QED
      BY <1>4 DEF UpdateEdgeNode
  <1> HIDE DEF new
  <1>7. on2 \in BOOLEAN /\ mt2 \in BOOLEAN /\ hl2 \in Healths /\ ex2 \in Ips \cup {None}
    BY <1>1, <1>5, NodeFields DEF Col
  <1>8. on2 => node[n].enabled \/ (new.enabled /\ ~old.enabled)
    BY <1>1, <1>5, NodeFields DEF Col
  <1> HIDE DEF on2, mt2, hl2, ex2
  <1>9. w \in NodeRows /\ w.enabled = on2
    BY <1>7 DEF NodeRows
  <1> HIDE DEF w
  <1>10. node' \in [Nodes -> NodeRows] /\ node'[n] = w /\ \A m \in Nodes : m # n => node'[m] = node[m]
    BY <1>0, <1>1, <1>6, <1>9 DEF TypeOK
  <1>11. SendersHold' /\ ReqsOK' /\ \A j \in ReqIds : req'[j] \in {req[j], Idle}
    BY <1>0, <1>6, FinishSenders
  <1>12. switched' \subseteq Nodes /\ switched \subseteq switched'
    BY <1>0, <1>1, <1>6 DEF TypeOK
  <1>13. TypeOK'
    BY <1>0, <1>6, <1>10, <1>11, <1>12, TypePartsNext DEF TypeOK, RowsOK, BootOK, HistoryOK
  <1>14. QuietStep
    BY <1>6 DEF QuietStep, RegKeeps
  <1>15. OffStep
    <2>1. ASSUME NEW m \in Nodes
          PROVE  node'[m].enabled => node[m].enabled \/ m \in switched'
      BY <1>6, <1>8, <1>9, <1>10
    <2> QED
      BY <1>6, <1>11, <1>12, <2>1 DEF OffStep
  <1> QED
    BY <1>11, <1>13, <1>14, <1>15, QuietOff


LEMMA DeleteStep ==
    ASSUME EnrollmentInv, NEW n \in Nodes, DeleteEdgeNode(n)
    PROVE  Kept
  <1> DEFINE w == [NoNode EXCEPT !.state = "gone"]
             v(r) == [reg[r] EXCEPT !.node = None]
  <1>0. TypeOK /\ SendersHold
    BY DEF EnrollmentInv, GrantInv
  <1>1. /\ node' = [node EXCEPT ![n] = w] /\ enr' = [enr EXCEPT ![n] = NoEnr]
        /\ reg' = [r \in Regs |-> IF reg[r].node = n THEN v(r) ELSE reg[r]]
        /\ UNCHANGED <<boot, sent, req, owner, redeemed, superseded, decided, switched, raced>>
    BY DEF DeleteEdgeNode
  <1>2. w \in NodeRows
    BY NewRows
  <1>3. ASSUME NEW r \in Regs
        PROVE  v(r) \in RegRows /\ v(r).status = reg[r].status /\ v(r).token = reg[r].token
    <2>1. reg[r] \in RegRows
      BY <1>0 DEF TypeOK
    <2> QED
      BY <2>1 DEF RegRows
  <1> HIDE DEF w, v
  <1>4. node' \in [Nodes -> NodeRows] /\ \A m \in Nodes : m # n => node'[m] = node[m]
    BY <1>0, <1>1, <1>2 DEF TypeOK
  <1>5. enr' \in [Nodes -> EnrRows] /\ enr'[n] = NoEnr /\ \A m \in Nodes : m # n => enr'[m] = enr[m]
    BY <1>0, <1>1, NewRows DEF TypeOK
  <1>6. /\ reg' \in [Regs -> RegRows]
        /\ \A r \in Regs : reg'[r].status = reg[r].status /\ reg'[r].token = reg[r].token
    BY <1>0, <1>1, <1>3 DEF TypeOK
  <1>7. TypeOK' /\ SendersHold'
    BY <1>0, <1>1, <1>4, <1>5, <1>6 DEF TypeOK, SendersHold
  <1>8. QuietStep
    BY <1>1, <1>5, <1>6, NewRows DEF QuietStep, RegKeeps
  <1>9. OffStep
    BY <1>1, <1>4, <1>5, NewRows DEF OffStep
  <1> QED
    BY <1>7, <1>8, <1>9, QuietOff

LEMMA RollbackStep ==
    ASSUME EnrollmentInv, NEW i \in ReqIds, Rollback(i)
    PROVE  Kept
  <1>0. TypeOK /\ SendersHold /\ req[i] # Idle
    BY DEF EnrollmentInv, GrantInv, Rollback
  <1>1. SendersHold' /\ ReqsOK' /\ \A j \in ReqIds : req'[j] \in {req[j], Idle}
    BY <1>0, FinishSenders DEF Rollback
  <1>2. BootOK' /\ \A q \in Regs : boot'[q] = "idle" => boot[q] = "idle"
    <2>1. CASE boot' = boot
      BY <1>0, <2>1 DEF TypeOK, BootOK, Rollback
    <2>2. CASE req[i].op \in {"prove", "claim_approved"} /\ GiveUp(req[i].grant, Waits(req[i].op))
      <3>1. req[i].grant \in Regs
        BY <1>0, <2>2, ReqFields DEF RegOps
      <3>2. "failed" \in BootStates /\ BootOK /\ UNCHANGED sent
        BY <1>0, TypeParts DEF BootStates, Rollback
      <3>3. BootOK' /\ \A q \in Regs : boot'[q] = boot[q] \/ boot'[q] \in {"failed", "failed"}
        BY <2>2, <3>1, <3>2, BootAnswer
      <3> QED
        BY <3>3
    <2> QED
      BY <2>1, <2>2 DEF Rollback
  <1>3. TypeOK'
    BY <1>0, <1>1, <1>2, TypePartsNext DEF Rollback, TypeOK, RowsOK, HistoryOK
  <1>4. QuietStep /\ OffStep
    BY <1>1, <1>2 DEF Rollback, QuietStep, RegKeeps, OffStep
  <1> QED
    BY <1>1, <1>3, <1>4, QuietOff

(* A report reads the enrollment it reports on.                              *)
LEMMA ReportSees ==
    ASSUME NEW n \in Nodes, NEW g
    PROVE  Seen("report", n, g).enr[n] = enr[n]
  BY DEF Seen

LEMMA StartKeeps ==
    ASSUME EnrollmentInv, NEW i \in ReqIds, NEW q \in Queries, Start(i, q)
    PROVE  Kept
  <1>0. TypeOK /\ GrantInv /\ SendersHold /\ CodesFresh /\ RegsLive
    BY DEF EnrollmentInv, GrantInv
  <1>1. /\ TypeOK' /\ SendersHold'
        /\ \A j \in ReqIds : j # i => req'[j] = req[j]
        /\ req'[i].op = q.op /\ req'[i].node = q.node /\ req'[i].grant = q.grant
        /\ req'[i].snap = Seen(q.op, q.node, q.grant)
    BY <1>0, StartStep
  <1>2. UNCHANGED <<node, enr, reg, boot, sent, owner, redeemed, superseded, decided, switched, raced>>
    BY DEF Start
  <1>3. QuietStep
    BY <1>2 DEF QuietStep, RegKeeps
  <1>4. RevokedMeansOff'
    BY <1>2 DEF EnrollmentInv, RevokedMeansOff
  <1>5. ReportsRace'
    <2> SUFFICES ASSUME NEW n \in Nodes, NEW j \in ReqIds, enr[n].status = "revoked",
                        req'[j] # Idle, req'[j].op = "report", req'[j].node = n,
                        req'[j].snap.enr[n].status # "revoked"
                 PROVE  n \in raced
      BY <1>2 DEF ReportsRace, Serving
    <2>1. CASE j = i
      <3>1. req'[i].snap = Seen("report", n, q.grant)
        BY <1>1, <2>1
      <3> QED
        BY <2>1, <3>1, ReportSees
    <2>2. CASE j # i
      BY <1>1, <2>2 DEF EnrollmentInv, ReportsRace, Serving
    <2> QED
      BY <2>1, <2>2
  <1> QED
    BY <1>0, <1>1, <1>3, <1>4, <1>5, QuietKeeps DEF EnrollmentInv, Kept

LEMMA ServeStep ==
    ASSUME EnrollmentConstants, EnrollmentInv, NEW i \in ReqIds, Serve(i)
    PROVE  Kept
  BY ClaimStep, ReportStep, RevokeStep, RegenerateStep, ListEnrollmentsStep, ProveStep,
     ClaimApprovedStep, AcceptStep, ListRegistrationsStep, UpdateNodeStep, RollbackStep DEF Serve

LEMMA NextStep ==
    ASSUME EnrollmentConstants, EnrollmentInv, Next
    PROVE  Kept
  <1>1. ASSUME NEW i \in ReqIds, Serve(i) \/ \E q \in Queries : Start(i, q)
        PROVE  Kept
    BY <1>1, ServeStep, StartKeeps
  <1>2. ASSUME NEW n \in Nodes,
               \/ EnrollmentLapses(n)
               \/ \E on, maint \in BOOLEAN, ip \in Ips \cup {None} : CreateEdgeNode(n, on, maint, ip)
               \/ \E ip \in Ips, c \in Codes : CreateEdgeEnrollment(n, c, ip)
               \/ DeleteEdgeNode(n)
        PROVE  Kept
    BY <1>2, EnrollmentLapsesStep, CreateNodeStep, CreateEnrollmentStep, DeleteStep
  <1>3. ASSUME NEW r \in Regs,
               \/ CreateNodeRegistration(r) \/ Poll(r) \/ PollFails(r)
               \/ RejectNodeRegistration(r) \/ RegistrationLapses(r)
        PROVE  Kept
    BY <1>3, RegisterStep, PollStep, RejectStep, RegistrationLapsesStep
  <1> QED
    BY <1>1, <1>2, <1>3 DEF Next

LEMMA StutterStep ==
    ASSUME EnrollmentInv, UNCHANGED vars
    PROVE  Kept
  <1>1. TypeOK' /\ SendersHold'
    BY DEF EnrollmentInv, GrantInv, TypeOK, SendersHold, vars
  <1>2. QuietStep /\ OffStep
    BY DEF vars, QuietStep, RegKeeps, OffStep
  <1> QED
    BY <1>1, <1>2, QuietOff

LEMMA InitHolds ==
    ASSUME Init
    PROVE  EnrollmentInv
  <1> USE DEF Init
  <1>1. RowsOK /\ BootOK /\ HistoryOK
    BY NewRows DEF RowsOK, BootOK, HistoryOK, BootStates
  <1>2. ReqsOK /\ SendersHold
    BY DEF ReqsOK, SendersHold, Idle, NodeOps, RegOps
  <1>3. CodesLive /\ CodesFresh /\ RegsLive
    BY NewRows DEF CodesLive, CodesFresh, RegsLive, Grants
  <1>4. RedeemedOnce /\ DecidedOnce
    BY DEF RedeemedOnce, DecidedOnce, Grants
  <1>5. ReportsRace /\ RevokedMeansOff
    BY NewRows DEF ReportsRace, RevokedMeansOff
  <1> QED
    BY <1>1, <1>2, <1>3, <1>4, <1>5, TypeParts DEF EnrollmentInv, GrantInv

-----------------------------------------------------------------------------
(* The rows of the tables, the requests and the history keep to their types: *)
(* in particular a claim, report, revocation or update always names a node   *)
(* that exists or existed, whatever else ran between its read and its        *)
(* commit.                                                                   *)
THEOREM TypeCorrect == Spec => []TypeOK
  <1>1. Init => EnrollmentInv
    BY InitHolds
  <1>2. EnrollmentInv /\ [Next]_vars => EnrollmentInv'
    BY EnrollmentConstants, NextStep, StutterStep DEF Kept
  <1>3. EnrollmentInv => TypeOK
    BY DEF EnrollmentInv
  <1> QED
    BY <1>1, <1>2, <1>3, PTL DEF Spec

(* claim_edge_enrollment and claim_approved_node_registration hand out the   *)
(* secret of a code, and of a registration, at most once, however many       *)
(* installers, repeated requests, revocations, regenerations, listings and   *)
(* deletions run at once.                                                    *)
THEOREM SecretsOnce == Spec => []RedeemedOnce
  <1>1. Init => EnrollmentInv
    BY InitHolds
  <1>2. EnrollmentInv /\ [Next]_vars => EnrollmentInv'
    BY EnrollmentConstants, NextStep, StutterStep DEF Kept
  <1>3. EnrollmentInv => RedeemedOnce
    BY DEF EnrollmentInv, GrantInv
  <1> QED
    BY <1>1, <1>2, <1>3, PTL DEF Spec

(* accept_ and reject_node_registration decide a registration at most once   *)
(* between them, and no machine is given a secret that was not accepted.     *)
THEOREM DecisionsOnce == Spec => []DecidedOnce
  <1>1. Init => EnrollmentInv
    BY InitHolds
  <1>2. EnrollmentInv /\ [Next]_vars => EnrollmentInv'
    BY EnrollmentConstants, NextStep, StutterStep DEF Kept
  <1>3. EnrollmentInv => DecidedOnce
    BY DEF EnrollmentInv, GrantInv
  <1> QED
    BY <1>1, <1>2, <1>3, PTL DEF Spec

(* A code that revoke_ or regenerate_edge_enrollment has replaced is never   *)
(* redeemed afterwards, by claims that had read it before included.          *)
THEOREM OldCodesDead == Spec => SupersededCodeDead
  <1>1. Init => EnrollmentInv
    BY InitHolds
  <1>2. EnrollmentInv /\ [Next]_vars => EnrollmentInv'
    BY EnrollmentConstants, NextStep, StutterStep DEF Kept
  <1>3. EnrollmentInv /\ Next => \A c \in superseded : redeemed'[c] = redeemed[c]
    BY EnrollmentConstants, NextStep DEF Kept, DeadStep
  <1> QED
    BY <1>1, <1>2, <1>3, PTL DEF Spec, SupersededCodeDead

(* The node of a revoked enrollment is off, unless an administrator switched *)
(* it on or the revocation overlapped a report or a change of the node.      *)
THEOREM RevokedStaysOff == Spec => []RevokedMeansOff
  <1>1. Init => EnrollmentInv
    BY InitHolds
  <1>2. EnrollmentInv /\ [Next]_vars => EnrollmentInv'
    BY EnrollmentConstants, NextStep, StutterStep DEF Kept
  <1>3. EnrollmentInv => RevokedMeansOff
    BY DEF EnrollmentInv
  <1> QED
    BY <1>1, <1>2, <1>3, PTL DEF Spec

-----------------------------------------------------------------------------
(* The health monitor beside the server.  While a run is under way:          *)

(* a verdict that is or will be fresh rests on the node's present settings;  *)
ReadsCurrent == \A n \in Nodes :
    mon # Resting /\ mon.snap.node[n].enabled /\ fresh[n] # "stale" =>
        mon.snap.node[n].maint = node[n].maint /\ mon.snap.node[n].expected = node[n].expected

(* the server makes no node online, so one that is was when the run read it; *)
OnlineBefore == \A n \in Nodes :
    mon # Resting /\ mon.snap.node[n].enabled /\ node[n].health = "online" =>
        mon.snap.node[n].health = "online"

(* and the nodes that wait for its verdict are among those it probes.        *)
PendingProbed == \A n \in Nodes :
    fresh[n] = "pending" => mon # Resting /\ mon.snap.node[n].enabled

MonInv ==
    /\ EnrollmentInv /\ MonTypeOK
    /\ ReadsCurrent /\ OnlineBefore /\ PendingProbed /\ FreshVerdictHolds

-----------------------------------------------------------------------------
(* Probing.                                                                  *)

(* The last of the good samples exists.                                      *)
LEMMA LastGood ==
    ASSUME QuorumAssumption, NEW good \in SUBSET (1..SampleCount), good # {}
    PROVE  (CHOOSE k \in good : \A j \in good : j <= k) \in good
  <1> DEFINE R == OpToRel(<, Nat)
             T == {SampleCount - k : k \in good}
  <1>1. IsWellFoundedOn(R, Nat)
    BY NatLessThanWellFounded
  <1>2. T \subseteq Nat /\ T # {}
    <2>1. \A k \in good : k \in Nat /\ k <= SampleCount /\ SampleCount - k \in Nat
      BY DEF QuorumAssumption
    <2>2. PICK k \in good : TRUE
      OBVIOUS
    <2>3. SampleCount - k \in T
      BY <2>2
    <2> QED
      BY <2>1, <2>3
  <1> HIDE DEF R, T
  <1>3. PICK x \in T : \A y \in T : ~ (<<y, x>> \in R)
    BY <1>1, <1>2, WFMin
  <1>4. PICK k \in good : x = SampleCount - k
    BY <1>3 DEF T
  <1>5. ASSUME NEW j \in good PROVE j <= k
    <2>1. SampleCount - j \in T /\ SampleCount - j \in Nat /\ x \in Nat
      BY <1>2, <1>3 DEF T
    <2>2. ~(SampleCount - j < x)
      BY <1>3, <2>1 DEF R, OpToRel
    <2> QED
      BY <1>4, <2>2 DEF QuorumAssumption
  <1> QED
    BY <1>5

LEMMA OutcomeFields ==
    ASSUME NEW o \in Outcomes
    PROVE  o.ip \in Ips \cup {None, Elsewhere} /\ o.busy \in BOOLEAN
  BY DEF Outcomes

(* A verdict "online" is about the address that is expected, if one is.      *)
LEMMA VerdictRow ==
    ASSUME QuorumAssumption, NEW e \in Ips \cup {None}, NEW v \in Verdicts[e]
    PROVE  /\ v.health \in {"offline", "quarantined", "degraded", "online"}
           /\ v.ip \in Ips \cup {None, Elsewhere}
           /\ v.health = "online" => e \in {None, v.ip}
  <1>1. PICK s \in Samples : v = Verdict(s, e)
    BY DEF Verdicts
  <1> DEFINE good == {k \in 1..SampleCount : s[k].kind = "valid"}
             top == CHOOSE k \in good : \A j \in good : j <= k
             invalid == \E k \in 1..SampleCount : s[k].kind = "invalid"
             mixed == \E j, k \in good : s[j].ip # s[k].ip
  <1>2. v = IF invalid \/ Cardinality(good) < MinSuccess THEN [health |-> "offline", ip |-> None]
            ELSE IF mixed THEN [health |-> "quarantined", ip |-> None]
            ELSE [health |-> HealthStatus(s[top], e), ip |-> s[top].ip]
    BY <1>1, Zenon DEF Verdict
  <1>3. good \subseteq 1..SampleCount /\ (good = {} => Cardinality(good) < MinSuccess)
    BY FS_EmptySet DEF QuorumAssumption
  <1>4. good # {} => top \in good
    BY LastGood
  <1> HIDE DEF good, top, invalid, mixed
  <1>5. CASE invalid \/ Cardinality(good) < MinSuccess
    BY <1>2, <1>5
  <1>6. CASE ~(invalid \/ Cardinality(good) < MinSuccess) /\ mixed
    BY <1>2, <1>6
  <1>7. CASE ~(invalid \/ Cardinality(good) < MinSuccess) /\ ~mixed
    <2>1. s[top] \in Outcomes
      BY <1>3, <1>4, <1>7 DEF Samples
    <2>2. v = [health |-> HealthStatus(s[top], e), ip |-> s[top].ip]
      BY <1>2, <1>7
    <2>3. /\ HealthStatus(s[top], e) \in {"offline", "quarantined", "degraded", "online"}
          /\ HealthStatus(s[top], e) = "online" => e \in {None, s[top].ip}
      BY DEF HealthStatus
    <2> QED
      BY <2>1, <2>2, <2>3, OutcomeFields
  <1> QED
    BY <1>5, <1>6, <1>7


-----------------------------------------------------------------------------
(* The rows a run writes.                                                    *)
LEMMA EnrollmentFollows ==
    ASSUME NEW cur \in EnrRows, NEW old \in EnrRows, NEW health
    PROVE  LET new == EnrollmentAfter(cur, old, health)
           IN  new \in EnrRows /\ new.code = cur.code /\ (new.status = "revoked" => cur.status = "revoked")
  <1> DEFINE new == EnrollmentAfter(cur, old, health)
             rep == Col(cur.report, old.report, None)
             st == Col(cur.status, old.status, "failed")
             on == [cur EXCEPT !.status = "online", !.report = rep]
             off == [cur EXCEPT !.status = st]
  <1>1. new = on \/ new = off \/ new = cur
    BY DEF EnrollmentAfter
  <1>2. rep \in Grants \cup {None} /\ st \in EnrStatuses /\ (st = "revoked" => cur.status = "revoked")
    BY EnrFields DEF Col, EnrStatuses
  <1> HIDE DEF rep, st
  <1>3. on \in EnrRows /\ on.code = cur.code /\ on.status = "online"
    BY <1>2 DEF EnrRows
  <1>4. off \in EnrRows /\ off.code = cur.code /\ off.status = st
    BY <1>2, EnrStatus
  <1> HIDE DEF on, off, new
  <1>5. new \in EnrRows /\ new.code = cur.code /\ (new.status = "revoked" => cur.status = "revoked")
    BY <1>1, <1>2, <1>3, <1>4
  <1> QED
    BY <1>5 DEF new

LEMMA RegistrationFollows ==
    ASSUME NEW cur \in RegRows, NEW old \in RegRows, NEW health
    PROVE  LET new == RegistrationAfter(cur, old, health)
           IN  new \in RegRows /\ new.token = cur.token /\ new.status \in {cur.status, "online", "failed"}
  <1> DEFINE new == RegistrationAfter(cur, old, health)
             up(st) == [cur EXCEPT !.status = st]
             st1 == Col(cur.status, old.status, "online")
             st2 == Col(cur.status, old.status, "failed")
  <1>1. new = up(st1) \/ new = up(st2) \/ new = cur
    BY DEF RegistrationAfter
  <1>2. st1 \in {cur.status, "online"} /\ st2 \in {cur.status, "failed"} /\ cur.status \in RegStatuses
    BY RegFields DEF Col
  <1> HIDE DEF st1, st2
  <1>3. ASSUME NEW st \in {cur.status, "online", "failed"}
        PROVE  up(st) \in RegRows /\ up(st).token = cur.token /\ up(st).status = st
    <2>1. st \in RegStatuses
      BY <1>2 DEF RegStatuses
    <2> QED
      BY <2>1 DEF RegRows, RegStatuses
  <1> HIDE DEF up, new
  <1>5. new \in RegRows /\ new.token = cur.token /\ new.status \in {cur.status, "online", "failed"}
    BY <1>1, <1>2, <1>3
  <1> QED
    BY <1>5 DEF new

Probed(n) == mon.snap.node[n].enabled

(* What a run does to a node: nothing if it was off when the run read it,    *)
(* else the column of its health, by the verdict and the mode it had then.   *)
Judged(n) ==
    \E v \in Verdicts[mon.snap.node[n].expected] :
        LET health == Effective(mon.snap.node[n], v)
        IN  /\ node'[n] = [node[n] EXCEPT !.health = Col(@, mon.snap.node[n].health, health)]
            /\ seen'[n] = IF health = "online" THEN v.ip ELSE None

LEMMA RunTables ==
    ASSUME MonTypeOK, mon # Resting
    PROVE  /\ mon.snap \in Tables
           /\ \A n \in Nodes : mon.snap.node[n] \in NodeRows /\ mon.snap.enr[n] \in EnrRows
           /\ \A r \in Regs : mon.snap.reg[r] \in RegRows
  <1>1. mon.snap \in Tables
    BY DEF MonTypeOK
  <1> QED
    BY <1>1 DEF Tables

LEMMA CommitNodes ==
    ASSUME QuorumAssumption, MonTypeOK, MonitorCommit
    PROVE  /\ \A n \in Nodes : Probed(n) => Judged(n)
           /\ \A n \in Nodes : ~Probed(n) => node'[n] = node[n] /\ seen'[n] = seen[n]
           /\ node' \in [Nodes -> NodeRows] /\ seen' \in [Nodes -> Ips \cup {None, Elsewhere}]
           /\ \A n \in Nodes : /\ node'[n].enabled = node[n].enabled /\ node'[n].maint = node[n].maint
                               /\ node'[n].expected = node[n].expected
  <1> DEFINE snap == mon.snap
             probed == {n \in Nodes : snap.node[n].enabled}
             health(v) == [n \in probed |-> Effective(snap.node[n], v[n])]
  <1>0. mon # Resting
    BY DEF MonitorCommit
  <1>1. PICK v \in [probed -> UNION {Verdicts[snap.node[n].expected] : n \in probed}] :
           /\ \A n \in probed : v[n] \in Verdicts[snap.node[n].expected]
           /\ node' = [n \in Nodes |->
                         IF n \in probed
                         THEN [node[n] EXCEPT !.health = Col(@, snap.node[n].health, health(v)[n])]
                         ELSE node[n]]
           /\ seen' = [n \in Nodes |->
                         IF n \notin probed THEN seen[n]
                         ELSE IF health(v)[n] = "online" THEN v[n].ip ELSE None]
    BY Zenon DEF MonitorCommit
  <1>a. \A n \in probed : health(v)[n] = Effective(snap.node[n], v[n])
    OBVIOUS
  <1> HIDE DEF health
  <1>2. ASSUME NEW n \in Nodes, Probed(n)
        PROVE  Judged(n)
    <2>1. n \in probed
      BY <1>2 DEF Probed
    <2> HIDE DEF probed
    <2> QED
      BY <1>1, <1>a, <2>1 DEF Judged
  <1>3. ASSUME NEW n \in Nodes, ~Probed(n)
        PROVE  node'[n] = node[n] /\ seen'[n] = seen[n]
    BY <1>1, <1>3 DEF Probed
  <1>4. ASSUME NEW n \in Nodes
        PROVE  /\ node'[n] \in NodeRows /\ seen'[n] \in Ips \cup {None, Elsewhere}
               /\ node'[n].enabled = node[n].enabled /\ node'[n].maint = node[n].maint
               /\ node'[n].expected = node[n].expected
    <2>0. node[n] \in NodeRows /\ seen[n] \in Ips \cup {None, Elsewhere} /\ snap.node[n] \in NodeRows
      BY <1>0, RunTables DEF MonTypeOK, TypeOK
    <2>1. CASE Probed(n)
      <3>1. PICK u \in Verdicts[snap.node[n].expected] :
               /\ node'[n] = [node[n] EXCEPT !.health = Col(@, snap.node[n].health, Effective(snap.node[n], u))]
               /\ seen'[n] = IF Effective(snap.node[n], u) = "online" THEN u.ip ELSE None
        BY <1>2, <2>1 DEF Judged
      <3> DEFINE h == Col(node[n].health, snap.node[n].health, Effective(snap.node[n], u))
      <3>2. /\ u.health \in {"offline", "quarantined", "degraded", "online"}
            /\ u.ip \in Ips \cup {None, Elsewhere}
        BY <2>0, VerdictRow, NodeFields
      <3>3. h \in Healths
        BY <2>0, <3>2, NodeFields DEF Col, Effective, Healths
      <3>4. node'[n] = [node[n] EXCEPT !.health = h]
        BY <3>1
      <3> HIDE DEF h
      <3>5. /\ node'[n] \in NodeRows /\ node'[n].enabled = node[n].enabled
            /\ node'[n].maint = node[n].maint /\ node'[n].expected = node[n].expected
        BY <2>0, <3>3, <3>4 DEF NodeRows
      <3> QED
        BY <3>1, <3>2, <3>5
    <2> QED
      BY <1>3, <2>0, <2>1
  <1>5. node' \in [Nodes -> NodeRows] /\ seen' \in [Nodes -> Ips \cup {None, Elsewhere}]
    BY <1>1, <1>4
  <1> QED
    BY <1>2, <1>3, <1>4, <1>5


LEMMA CommitKeeps ==
    ASSUME QuorumAssumption, EnrollmentInv, MonTypeOK, MonitorCommit
    PROVE  Kept
  <1> DEFINE snap == mon.snap
             probed == {n \in Nodes : snap.node[n].enabled}
             linked == {r \in Regs : snap.reg[r].node \in probed}
             verdict(v) == [n \in probed |-> Effective(snap.node[n], v[n])]
  <1>0. TypeOK /\ SendersHold
    BY DEF EnrollmentInv, GrantInv
  <1>1. /\ mon # Resting /\ \A r \in linked : reg[r].status # "none"
        /\ UNCHANGED <<boot, sent, req, owner, redeemed, superseded, decided, switched, raced>>
    BY DEF MonitorCommit
  <1>2. PICK v \in [probed -> UNION {Verdicts[snap.node[n].expected] : n \in probed}] :
           /\ enr' = [n \in Nodes |-> IF n \in probed THEN EnrollmentAfter(enr[n], snap.enr[n], verdict(v)[n])
                                      ELSE enr[n]]
           /\ reg' = [r \in Regs |->
                         IF r \in linked
                         THEN RegistrationAfter(reg[r], snap.reg[r], verdict(v)[snap.reg[r].node])
                         ELSE reg[r]]
    BY Zenon DEF MonitorCommit
  <1> HIDE DEF verdict
  <1>3. ASSUME NEW n \in Nodes
        PROVE  /\ enr'[n] \in EnrRows /\ enr'[n].code = enr[n].code
               /\ enr'[n].status = "revoked" => enr[n].status = "revoked"
    <2>1. enr[n] \in EnrRows /\ snap.enr[n] \in EnrRows
      BY <1>0, <1>1, RunTables DEF TypeOK
    <2>2. enr'[n] = EnrollmentAfter(enr[n], snap.enr[n], verdict(v)[n]) \/ enr'[n] = enr[n]
      BY <1>2
    <2> QED
      BY <2>1, <2>2, EnrollmentFollows
  <1>4. ASSUME NEW r \in Regs
        PROVE  /\ reg'[r] \in RegRows /\ reg'[r].token = reg[r].token
               /\ reg'[r].status \in {reg[r].status, "online", "failed"}
               /\ reg[r].status = "none" => reg'[r].status = "none"
    <2>1. reg[r] \in RegRows /\ snap.reg[r] \in RegRows
      BY <1>0, <1>1, RunTables DEF TypeOK
    <2> DEFINE w == RegistrationAfter(reg[r], snap.reg[r], verdict(v)[snap.reg[r].node])
    <2>2. (r \in linked /\ reg'[r] = w) \/ reg'[r] = reg[r]
      BY <1>2
    <2>3. w \in RegRows /\ w.token = reg[r].token /\ w.status \in {reg[r].status, "online", "failed"}
      BY <2>1, RegistrationFollows
    <2> HIDE DEF w, linked
    <2> QED
      BY <1>1, <2>1, <2>2, <2>3
  <1>5. enr' \in [Nodes -> EnrRows] /\ reg' \in [Regs -> RegRows]
    BY <1>2, <1>3, <1>4
  <1>6. /\ node' \in [Nodes -> NodeRows]
        /\ \A n \in Nodes : node'[n].enabled = node[n].enabled
    BY CommitNodes
  <1>7. TypeOK' /\ SendersHold'
    BY <1>0, <1>1, <1>5, <1>6 DEF TypeOK, SendersHold
  <1>8. QuietStep
    BY <1>1, <1>3, <1>4 DEF QuietStep, RegKeeps, Pending
  <1>9. OffStep
    BY <1>1, <1>3, <1>6 DEF OffStep
  <1> QED
    BY <1>7, <1>8, <1>9, QuietOff

-----------------------------------------------------------------------------
(* The server makes no node online.                                          *)
OnlineStep == \A n \in Nodes : node'[n].health = "online" => node[n].health = "online"

LEMMA RowOffline ==
    ASSUME TypeOK, NEW n, NEW w, node' = [node EXCEPT ![n] = w], w.health = "online" => node[n].health = "online"
    PROVE  OnlineStep
  BY DEF TypeOK, OnlineStep

LEMMA PresentOffline ==
    ASSUME NEW on \in BOOLEAN, NEW maint \in BOOLEAN, NEW ip
    PROVE  PresentNode(on, maint, ip).health # "online"
  BY DEF PresentNode

LEMMA ServedOffline ==
    ASSUME EnrollmentInv, NEW i \in ReqIds, ReportEdgeEnrollment(i) \/ RevokeEdgeEnrollment(i)
    PROVE  OnlineStep
  <1> DEFINE n == req[i].node
             was == req[i].snap.node[n]
             on == Col(node[n].enabled, was.enabled, TRUE)
             up == Col(node[n].health, was.health, "unknown")
             off == Col(node[n].enabled, was.enabled, FALSE)
             down == Col(node[n].health, was.health, "disabled")
             w1 == [node[n] EXCEPT !.enabled = on, !.health = up]
             w2 == [node[n] EXCEPT !.enabled = off, !.health = down]
  <1>0. TypeOK
    BY DEF EnrollmentInv
  <1>1. n \in Nodes /\ node[n] \in NodeRows
    BY <1>0, ServedBy DEF ReportEdgeEnrollment, RevokeEdgeEnrollment, NodeOps
  <1>2. node' = [node EXCEPT ![n] = w1] \/ node' = [node EXCEPT ![n] = w2] \/ node' = node
    BY DEF ReportEdgeEnrollment, RevokeEdgeEnrollment, SwitchedOff
  <1>3. (up = "online" => node[n].health = "online") /\ (down = "online" => node[n].health = "online")
    BY DEF Col
  <1> HIDE DEF on, up, off, down
  <1>4. w1.health = up /\ w2.health = down
    BY <1>1 DEF NodeRows
  <1> HIDE DEF w1, w2
  <1> QED
    BY <1>0, <1>2, <1>3, <1>4, RowOffline DEF OnlineStep

LEMMA UpdateOffline ==
    ASSUME EnrollmentInv, NEW i \in ReqIds, NEW ip \in Ips \cup {None}, UpdateEdgeNode(i, ip)
    PROVE  OnlineStep
  <1> DEFINE n == req[i].node
             old == req[i].snap.node[n]
             ch == req[i].arg
             new == Changed(old, ch, ip)
             hl == Col(node[n].health, old.health, new.health)
  <1>0. TypeOK
    BY DEF EnrollmentInv
  <1>1. n \in Nodes /\ old \in NodeRows /\ node[n] \in NodeRows
    BY <1>0, ServedBy DEF UpdateEdgeNode, NodeOps
  <1>2. new.health \in {"maintenance", "disabled", "unknown", old.health}
    <2> DEFINE on == CASE ch = "enable" -> TRUE [] ch = "disable" -> FALSE [] OTHER -> old.enabled
               mt == CASE ch = "maintain" -> TRUE [] ch = "resume" -> FALSE [] OTHER -> old.maint
               ex == IF ch = "expect" THEN ip ELSE old.expected
               h == CASE mt -> "maintenance"
                      [] ~mt /\ ~on -> "disabled"
                      [] ~mt /\ on /\ ch # "expect" -> "unknown"
                      [] OTHER -> old.health
               row == [old EXCEPT !.enabled = on, !.maint = mt, !.expected = ex, !.health = h]
    <2>1. new = row
      BY Zenon DEF Changed
    <2> HIDE DEF new, on, mt, ex
    <2>2. h \in {"maintenance", "disabled", "unknown", old.health}
      OBVIOUS
    <2> HIDE DEF h
    <2>3. row.health = h
      BY <1>1 DEF NodeRows
    <2> QED
      BY <2>1, <2>2, <2>3
  <1> HIDE DEF new
  <1>3. hl = "online" => node[n].health = "online"
    BY <1>2 DEF Col
  <1>4. PICK a, b, d : node' = [node EXCEPT ![n] = [state |-> "present", enabled |-> a, maint |-> b,
                                                   health |-> hl, expected |-> d]]
    BY DEF UpdateEdgeNode, new
  <1> HIDE DEF hl
  <1>5. [state |-> "present", enabled |-> a, maint |-> b, health |-> hl, expected |-> d].health = hl
    OBVIOUS
  <1> QED
    BY <1>0, <1>3, <1>4, <1>5, RowOffline

LEMMA NoneGoesOnline ==
    ASSUME EnrollmentInv, Next
    PROVE  OnlineStep
  <1>0. TypeOK
    BY DEF EnrollmentInv
  <1>1. CASE node' = node
    BY <1>1 DEF OnlineStep
  <1>2. ASSUME NEW n \in Nodes, NEW on \in BOOLEAN, NEW maint \in BOOLEAN, NEW ip,
               node' = [node EXCEPT ![n] = PresentNode(on, maint, ip)]
        PROVE  OnlineStep
    BY <1>0, <1>2, PresentOffline, RowOffline
  <1>3. ASSUME NEW n \in Nodes, DeleteEdgeNode(n) PROVE OnlineStep
    <2>1. [NoNode EXCEPT !.state = "gone"].health # "online"
      BY DEF NoNode
    <2> QED
      BY <1>0, <1>3, <2>1, RowOffline DEF DeleteEdgeNode
  <1>4. ASSUME NEW i \in ReqIds, Serve(i) PROVE OnlineStep
    <2>1. CASE ReportEdgeEnrollment(i) \/ RevokeEdgeEnrollment(i)
      BY <2>1, ServedOffline
    <2>2. ASSUME NEW ip \in Ips \cup {None}, UpdateEdgeNode(i, ip) PROVE OnlineStep
      BY <2>2, UpdateOffline
    <2>3. ASSUME NEW n \in Nodes, AcceptNodeRegistration(i, n) PROVE OnlineStep
      BY <1>2, <2>3 DEF AcceptNodeRegistration
    <2>4. CASE ClaimEdgeEnrollment(i) \/ ListEdgeEnrollments(i) \/ Rollback(i)
      BY <1>1, <2>4 DEF ClaimEdgeEnrollment, ListEdgeEnrollments, Rollback
    <2>5. CASE ProveNodeRegistration(i) \/ ClaimApprovedNodeRegistration(i)
      BY <1>1, <2>5 DEF ProveNodeRegistration, ClaimApprovedNodeRegistration
    <2>6. CASE (\E c \in Codes : RegenerateEdgeEnrollment(i, c))
               \/ (\E old \in SUBSET Regs : ListNodeRegistrationRequests(i, old))
      BY <1>1, <2>6 DEF RegenerateEdgeEnrollment, ListNodeRegistrationRequests
    <2> QED
      BY <1>4, <2>1, <2>2, <2>3, <2>4, <2>5, <2>6 DEF Serve
  <1>5. ASSUME NEW i \in ReqIds, NEW q \in Queries, Start(i, q) PROVE OnlineStep
    BY <1>1, <1>5 DEF Start
  <1>6. ASSUME NEW n \in Nodes, NEW ip \in Ips, NEW c \in Codes, CreateEdgeEnrollment(n, c, ip) PROVE OnlineStep
    BY <1>2, <1>6 DEF CreateEdgeEnrollment
  <1>7. ASSUME NEW n \in Nodes, NEW on \in BOOLEAN, NEW maint \in BOOLEAN, NEW ip \in Ips \cup {None},
               CreateEdgeNode(n, on, maint, ip)
        PROVE  OnlineStep
    BY <1>2, <1>7 DEF CreateEdgeNode
  <1>8. ASSUME NEW n \in Nodes, EnrollmentLapses(n) PROVE OnlineStep
    BY <1>1, <1>8 DEF EnrollmentLapses
  <1>9. ASSUME NEW r \in Regs,
               \/ CreateNodeRegistration(r) \/ Poll(r) \/ PollFails(r)
               \/ RejectNodeRegistration(r) \/ RegistrationLapses(r)
        PROVE  OnlineStep
    BY <1>1, <1>9 DEF CreateNodeRegistration, Poll, PollFails, RejectNodeRegistration, RegistrationLapses
  <1> QED
    BY <1>3, <1>4, <1>5, <1>6, <1>7, <1>8, <1>9 DEF Next


-----------------------------------------------------------------------------
(* The invariant, step by step.                                              *)
LEMMA ServerKeeps ==
    ASSUME EnrollmentConstants, MonInv, ServerStep
    PROVE  MonInv'
  <1>1. EnrollmentInv' /\ TypeOK'
    BY NextStep DEF MonInv, ServerStep, Kept, EnrollmentInv
  <1>2. /\ mon' = mon /\ seen' = seen /\ OnlineStep
        /\ \A n \in Nodes : fresh'[n] # "stale" => /\ fresh'[n] = fresh[n] /\ node'[n].maint = node[n].maint
                                                   /\ node'[n].expected = node[n].expected
        /\ fresh' \in [Nodes -> {"stale", "pending", "fresh"}]
    <2>1. OnlineStep
      BY NoneGoesOnline DEF MonInv, ServerStep
    <2>2. /\ mon' = mon /\ seen' = seen
          /\ fresh' = [n \in Nodes |->
                        IF <<node[n].maint, node[n].expected>> # <<node'[n].maint, node'[n].expected>>
                        THEN "stale" ELSE fresh[n]]
      BY DEF ServerStep
    <2>3. fresh \in [Nodes -> {"stale", "pending", "fresh"}]
      BY DEF MonInv, MonTypeOK
    <2> QED
      BY <2>1, <2>2, <2>3
  <1>3. MonTypeOK'
    BY <1>1, <1>2 DEF MonInv, MonTypeOK
  <1>4. ReadsCurrent'
    BY <1>2 DEF MonInv, ReadsCurrent
  <1>5. OnlineBefore'
    BY <1>2 DEF MonInv, OnlineBefore, OnlineStep
  <1>6. PendingProbed'
    BY <1>2 DEF MonInv, PendingProbed
  <1>7. FreshVerdictHolds'
    BY <1>2 DEF MonInv, FreshVerdictHolds, OnlineStep
  <1> QED
    BY <1>1, <1>3, <1>4, <1>5, <1>6, <1>7 DEF MonInv

LEMMA ObservedRows ==
    ASSUME TypeOK
    PROVE  /\ Observed \in Tables
           /\ \A n \in Nodes : /\ Observed.node[n].enabled = node[n].enabled
                               /\ node[n].enabled => Observed.node[n] = node[n]
  <1> DEFINE on == {n \in Nodes : node[n].enabled}
             open == {n \in on : enr[n].status \in {"ready", "installing", "claimed", "failed"}}
             linked == {r \in Regs : /\ reg[r].node \in on
                                     /\ reg[r].status \in {"installing", "ready", "failed", "online"}}
             s == [node |-> [n \in Nodes |-> IF n \in on THEN node[n] ELSE NoNode],
                   enr |-> [n \in Nodes |-> IF n \in open THEN enr[n] ELSE NoEnr],
                   reg |-> [r \in Regs |-> IF r \in linked THEN reg[r] ELSE NoReg]]
  <1>1. Observed = s
    BY Zenon DEF Observed
  <1>2. \A n \in Nodes : n \in on <=> node[n].enabled
    OBVIOUS
  <1>3. \A n \in Nodes : node[n].enabled \in BOOLEAN
    BY NodeFields DEF TypeOK
  <1> HIDE DEF on, open, linked
  <1>4. [n \in Nodes |-> IF n \in on THEN node[n] ELSE NoNode] \in [Nodes -> NodeRows]
    BY NewRows DEF TypeOK
  <1>5. [n \in Nodes |-> IF n \in open THEN enr[n] ELSE NoEnr] \in [Nodes -> EnrRows]
    BY NewRows DEF TypeOK
  <1>6. [r \in Regs |-> IF r \in linked THEN reg[r] ELSE NoReg] \in [Regs -> RegRows]
    BY NewRows DEF TypeOK
  <1>7. s \in Tables
    BY <1>4, <1>5, <1>6 DEF Tables
  <1>8. NoNode.enabled = FALSE
    BY DEF NoNode
  <1>9. ASSUME NEW n \in Nodes
        PROVE  s.node[n].enabled = node[n].enabled /\ (node[n].enabled => s.node[n] = node[n])
    BY <1>2, <1>3, <1>8
  <1> QED
    BY <1>1, <1>7, <1>9

LEMMA MonitorStartKeeps ==
    ASSUME MonInv, MonitorStart
    PROVE  MonInv'
  <1>1. TypeOK /\ EnrollmentInv /\ UNCHANGED vars /\ seen' = seen /\ mon = Resting
    BY DEF MonInv, MonTypeOK, MonitorStart
  <1>2. mon' # Resting /\ mon'.snap = Observed /\ mon' \in [on : {TRUE}, snap : Tables]
    <2>1. mon' = [on |-> TRUE, snap |-> Observed] /\ Observed \in Tables
      BY <1>1, ObservedRows DEF MonitorStart
    <2>2. mon'.on = TRUE /\ mon'.snap = Observed /\ mon' \in [on : {TRUE}, snap : Tables]
      BY <2>1
    <2>3. Resting.on = FALSE
      BY DEF Resting
    <2> QED
      BY <2>2, <2>3
  <1>3. /\ fresh' \in [Nodes -> {"stale", "pending", "fresh"}]
        /\ \A n \in Nodes : /\ fresh[n] # "pending"
                            /\ fresh'[n] = "pending" => node[n].enabled
                            /\ fresh'[n] = "fresh" => fresh[n] = "fresh"
    BY <1>1 DEF MonInv, MonTypeOK, MonitorStart, PendingProbed
  <1>4. EnrollmentInv' /\ TypeOK' /\ node' = node
    BY <1>1, StutterStep DEF Kept, EnrollmentInv, vars
  <1>5. MonTypeOK'
    BY <1>1, <1>2, <1>3, <1>4 DEF MonInv, MonTypeOK
  <1>6. ReadsCurrent' /\ OnlineBefore' /\ PendingProbed'
    BY <1>1, <1>2, <1>3, <1>4, ObservedRows DEF ReadsCurrent, OnlineBefore, PendingProbed
  <1>7. FreshVerdictHolds'
    BY <1>1, <1>3, <1>4 DEF MonInv, FreshVerdictHolds
  <1> QED
    BY <1>4, <1>5, <1>6, <1>7 DEF MonInv

LEMMA MonitorCommitKeeps ==
    ASSUME QuorumAssumption, MonInv, MonitorCommit
    PROVE  MonInv'
  <1>1. MonTypeOK /\ EnrollmentInv /\ mon # Resting /\ mon' = Resting
    BY DEF MonInv, MonitorCommit
  <1>2. EnrollmentInv' /\ TypeOK'
    BY <1>1, CommitKeeps DEF Kept, EnrollmentInv
  <1>3. /\ fresh' \in [Nodes -> {"stale", "pending", "fresh"}]
        /\ \A n \in Nodes : fresh'[n] # "pending" /\ (fresh'[n] = "fresh" => fresh[n] \in {"pending", "fresh"})
    <2>1. fresh' = [n \in Nodes |-> IF fresh[n] = "pending" THEN "fresh" ELSE fresh[n]]
      BY DEF MonitorCommit
    <2>2. fresh \in [Nodes -> {"stale", "pending", "fresh"}]
      BY <1>1 DEF MonTypeOK
    <2> QED
      BY <2>1, <2>2
  <1>4. MonTypeOK'
    BY <1>1, <1>2, <1>3, CommitNodes DEF MonTypeOK
  <1>5. ReadsCurrent' /\ OnlineBefore' /\ PendingProbed'
    BY <1>1, <1>3 DEF ReadsCurrent, OnlineBefore, PendingProbed
  <1>6. ASSUME NEW n \in Nodes, fresh'[n] = "fresh", node'[n].health = "online"
        PROVE  ~node'[n].maint /\ node'[n].expected \in {None, seen'[n]}
    <2>0. node[n] \in NodeRows /\ mon.snap.node[n] \in NodeRows
      BY <1>1, RunTables DEF MonTypeOK, TypeOK
    <2>1. fresh[n] \in {"pending", "fresh"}
      BY <1>3, <1>6
    <2>2. CASE ~Probed(n)
      <3>1. node'[n] = node[n] /\ seen'[n] = seen[n]
        BY <1>1, <2>2, CommitNodes
      <3>2. fresh[n] = "fresh"
        BY <2>1, <2>2 DEF MonInv, PendingProbed, Probed
      <3> QED
        BY <1>6, <3>1, <3>2 DEF MonInv, FreshVerdictHolds
    <2>3. CASE Probed(n)
      <3>1. Judged(n) /\ node'[n].maint = node[n].maint /\ node'[n].expected = node[n].expected
        BY <1>1, <2>3, CommitNodes
      <3>2. PICK v \in Verdicts[mon.snap.node[n].expected] :
               /\ node'[n] = [node[n] EXCEPT !.health = Col(@, mon.snap.node[n].health, Effective(mon.snap.node[n], v))]
               /\ seen'[n] = IF Effective(mon.snap.node[n], v) = "online" THEN v.ip ELSE None
        BY <3>1 DEF Judged
      <3>3. node'[n].health = Col(node[n].health, mon.snap.node[n].health, Effective(mon.snap.node[n], v))
        <4> DEFINE h == Col(node[n].health, mon.snap.node[n].health, Effective(mon.snap.node[n], v))
        <4>1. node'[n] = [node[n] EXCEPT !.health = h]
          BY <3>2
        <4> HIDE DEF h
        <4>2. node'[n].health = h
          BY <2>0, <4>1 DEF NodeRows
        <4> QED
          BY <4>2 DEF h
      <3>4. node[n].health = "online" => mon.snap.node[n].health = "online"
        BY <1>1, <2>3 DEF MonInv, OnlineBefore, Probed
      <3>5. Effective(mon.snap.node[n], v) = "online"
        BY <1>6, <3>3, <3>4 DEF Col
      <3>6. ~mon.snap.node[n].maint /\ v.health = "online"
        BY <3>5 DEF Effective
      <3>7. mon.snap.node[n].expected \in {None, v.ip}
        BY <2>0, <3>6, VerdictRow, NodeFields
      <3>8. mon.snap.node[n].maint = node[n].maint /\ mon.snap.node[n].expected = node[n].expected
        BY <1>1, <2>1, <2>3 DEF MonInv, ReadsCurrent, Probed
      <3> QED
        BY <3>1, <3>2, <3>5, <3>6, <3>7, <3>8
    <2> QED
      BY <2>2, <2>3
  <1>7. FreshVerdictHolds'
    BY <1>6 DEF FreshVerdictHolds
  <1> QED
    BY <1>2, <1>4, <1>5, <1>7 DEF MonInv

LEMMA MonitorAbortKeeps ==
    ASSUME MonInv, MonitorAbort
    PROVE  MonInv'
  <1>1. /\ MonTypeOK /\ EnrollmentInv /\ mon' = Resting /\ UNCHANGED vars /\ seen' = seen
        /\ fresh' = [n \in Nodes |-> IF fresh[n] = "pending" THEN "stale" ELSE fresh[n]]
    BY DEF MonInv, MonitorAbort
  <1>2. EnrollmentInv' /\ TypeOK' /\ node' = node
    BY <1>1, StutterStep DEF Kept, EnrollmentInv, vars
  <1>3. /\ fresh' \in [Nodes -> {"stale", "pending", "fresh"}]
        /\ \A n \in Nodes : fresh'[n] # "pending" /\ (fresh'[n] = "fresh" => fresh[n] = "fresh")
    BY <1>1 DEF MonTypeOK
  <1>4. MonTypeOK'
    BY <1>1, <1>2, <1>3 DEF MonTypeOK
  <1>5. ReadsCurrent' /\ OnlineBefore' /\ PendingProbed'
    BY <1>1, <1>3 DEF ReadsCurrent, OnlineBefore, PendingProbed
  <1>6. FreshVerdictHolds'
    BY <1>1, <1>2, <1>3 DEF MonInv, FreshVerdictHolds
  <1> QED
    BY <1>2, <1>4, <1>5, <1>6 DEF MonInv

LEMMA MonitorInductive ==
    /\ MonInit => MonInv
    /\ MonInv /\ [MonNext]_allVars => MonInv'
  <1>1. ASSUME MonInit PROVE MonInv
    <2>1. Init /\ EnrollmentInv /\ TypeOK
      BY <1>1, InitHolds DEF MonInit, EnrollmentInv
    <2>2. MonTypeOK
      BY <1>1, <2>1 DEF MonInit, MonTypeOK
    <2> QED
      BY <1>1, <2>1, <2>2
      DEF MonInit, MonInv, ReadsCurrent, OnlineBefore, PendingProbed, FreshVerdictHolds
  <1>2. ASSUME MonInv, UNCHANGED allVars PROVE MonInv'
    <2>1. UNCHANGED vars /\ node' = node /\ mon' = mon /\ fresh' = fresh /\ seen' = seen
      BY <1>2 DEF allVars, monVars, vars
    <2>2. EnrollmentInv' /\ TypeOK'
      BY <1>2, <2>1, StutterStep DEF Kept, EnrollmentInv, MonInv
    <2> QED
      BY <1>2, <2>1, <2>2
      DEF MonInv, MonTypeOK, ReadsCurrent, OnlineBefore, PendingProbed, FreshVerdictHolds
  <1> QED
    BY <1>1, <1>2, EnrollmentConstants, QuorumAssumption,
       ServerKeeps, MonitorStartKeeps, MonitorCommitKeeps, MonitorAbortKeeps DEF MonNext

(* The tables keep to their types also with the monitor beside the server:   *)
(* whatever run_once commits is a status its column knows.                   *)
THEOREM MonitorTypeCorrect == MonSpec => []MonTypeOK
  <1>1. MonInv => MonTypeOK
    BY DEF MonInv
  <1> QED
    BY <1>1, MonitorInductive, PTL DEF MonSpec

(* However the server's requests and a run of the monitor interleave, an     *)
(* "online" that run_once wrote and no administrator's change overlapped     *)
(* means the node is not in maintenance and was seen where it is expected.   *)
THEOREM FreshVerdicts == MonSpec => []FreshVerdictHolds
  <1>1. MonInv => FreshVerdictHolds
    BY DEF MonInv
  <1> QED
    BY <1>1, MonitorInductive, PTL DEF MonSpec

(* What enrollment promises holds beside the monitor too: its commits, from  *)
(* rows read before the probes, neither redeem a secret, nor decide a        *)
(* registration, nor switch a revoked node back on.                          *)
THEOREM EnrollmentBesideMonitor == MonSpec => [](RedeemedOnce /\ DecidedOnce /\ RevokedMeansOff)
  <1>1. MonInv => RedeemedOnce /\ DecidedOnce /\ RevokedMeansOff
    BY DEF MonInv, EnrollmentInv, GrantInv
  <1> QED
    BY <1>1, MonitorInductive, PTL DEF MonSpec
=============================================================================
