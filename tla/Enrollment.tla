----------------------------- MODULE Enrollment -----------------------------
(***************************************************************************)
(* How an edge node comes into being (cloudbrowser/app.py): an             *)
(* administrator creates it with a one-time code that an installer         *)
(* redeems, or a machine registers by itself (windows-edge/bootstrap/      *)
(* register.py), proves its key and is accepted or rejected.  Either way   *)
(* the installer receives the node's secret and a report token, and its    *)
(* report "ready" switches the node on.                                    *)
(*                                                                         *)
(* A request reads its rows in one step (Start) and commits in another.    *)
(* The ORM writes the columns whose value differs from the one it read     *)
(* (Col); five statements are conditional UPDATEs instead, which look at   *)
(* the row as it is.                                                       *)
(***************************************************************************)
EXTENDS Integers, FiniteSets

CONSTANTS
    Nodes,      \* edge_nodes rows that may come to exist for one node name
    Regs,       \* registration requests of one machine, a bootstrap run each
    Codes,      \* enrollment codes
    Ips,        \* public addresses
    ReqIds,     \* worker slots: how many requests run at once
    None,
    Ops         \* the operations, reported phases and changes this instance exercises

ASSUME EnrollmentConstants ==
    /\ None \notin Nodes \cup Regs \cup Codes \cup Ips
    /\ Codes \cap Regs = {}

VARIABLES
    node,       \* edge_nodes
    enr,        \* node_enrollments, at most one row per node
    reg,        \* node_registration_requests
    boot,       \* where each run of register.py's enroll() stands
    sent,       \* the requests each run has sent; the network may repeat them
    req,        \* requests in flight
    owner,      \* the node a code or an accepted registration is for
    redeemed,   \* history: how often a code or registration was redeemed
    superseded, \* history: codes that were revoked or replaced
    decided,    \* history: the administrators' decisions on a registration
    switched,   \* history: nodes an administrator switched on since they were revoked
    raced       \* history: nodes whose last revocation overlapped a change

vars == <<node, enr, reg, boot, sent, req, owner, redeemed, superseded, decided, switched, raced>>

-----------------------------------------------------------------------------
Grants == Codes \cup Regs

Healths == {"unknown", "disabled", "maintenance", "online", "degraded", "offline", "quarantined"}

(* expected None: no address is expected.                                    *)
NodeRows == [state : {"none", "present", "gone"}, enabled : BOOLEAN, maint : BOOLEAN,
             health : Healths, expected : Ips \cup {None}]

(* lapsed stands for expires_at <= now.  code None: a hash nobody has the    *)
(* token for.  Status "none": there is no row.                               *)
EnrRows == [status : {"none", "pending", "claimed", "installing", "ready", "failed",
                      "online", "revoked", "expired"},
            code : Codes \cup {None}, report : Grants \cup {None},
            claimed : BOOLEAN, lapsed : BOOLEAN]

(* token and chal: registration_token_hash and challenge_hash are set.       *)
RegRows == [status : {"none", "pending_proof", "pending_approval", "approved", "rejected",
                      "expired", "installing", "ready", "failed", "online"},
            token : BOOLEAN, chal : BOOLEAN, lapsed : BOOLEAN, proved : BOOLEAN,
            node : Nodes \cup {None}]

NoNode == [state |-> "none", enabled |-> FALSE, maint |-> FALSE, health |-> "disabled",
           expected |-> None]
NoEnr == [status |-> "none", code |-> None, report |-> None, claimed |-> FALSE, lapsed |-> FALSE]
NoReg == [status |-> "none", token |-> FALSE, chal |-> FALSE, lapsed |-> FALSE,
          proved |-> FALSE, node |-> None]

Tables == [node : [Nodes -> NodeRows], enr : [Nodes -> EnrRows], reg : [Regs -> RegRows]]

Phases == {"installing", "ready", "failed"}

(* Changes of an administrator to a node.                                    *)
Changes == {"enable", "disable", "maintain", "resume", "expect"}

(* A request: what it does, to which enrollment (named after its node), with *)
(* which code or registration, and the tables as it read them.               *)
NodeOps == {"claim", "report", "revoke", "regenerate", "update"}
RegOps == {"prove", "accept", "claim_approved"}
ListOps == {"list_enrollments", "list_registrations"}
Requests == [op : NodeOps \cup RegOps \cup ListOps, node : Nodes \cup {None},
             grant : Grants \cup {None}, arg : Phases \cup Changes \cup {None}, snap : Tables]
Idle == [op |-> "none"]

BootStates == {"idle", "proving", "polling", "claiming", "done", "failed"}

TypeOK ==
    /\ node \in [Nodes -> NodeRows]
    /\ enr \in [Nodes -> EnrRows]
    /\ reg \in [Regs -> RegRows]
    /\ boot \in [Regs -> BootStates]
    /\ sent \in [Regs -> SUBSET {"prove", "claim_approved"}]
    /\ req \in [ReqIds -> Requests \cup {Idle}]
    /\ \A i \in ReqIds : /\ req[i].op \in NodeOps => req[i].node \in Nodes
                         /\ req[i].op \in RegOps => req[i].grant \in Regs
    /\ owner \in [Grants -> Nodes \cup {None}]
    /\ redeemed \in [Grants -> Nat]
    /\ superseded \subseteq Codes
    /\ decided \in [Regs -> [accepted : Nat, rejected : Nat]]
    /\ switched \subseteq Nodes /\ raced \subseteq Nodes

Init ==
    /\ node = [n \in Nodes |-> NoNode]
    /\ enr = [n \in Nodes |-> NoEnr]
    /\ reg = [r \in Regs |-> NoReg]
    /\ boot = [r \in Regs |-> "idle"]
    /\ sent = [r \in Regs |-> {}]
    /\ req = [i \in ReqIds |-> Idle]
    /\ owner = [g \in Grants |-> None]
    /\ redeemed = [g \in Grants |-> 0]
    /\ superseded = {}
    /\ decided = [r \in Regs |-> [accepted |-> 0, rejected |-> 0]]
    /\ switched = {} /\ raced = {}

-----------------------------------------------------------------------------
(* Requests.                                                                 *)

\* A column the ORM assigns: it is written if the value read was another.
Col(cur, old, new) == IF new = old THEN cur ELSE new

\* The unique index on names and endpoints.
NameFree(nodes) == \A n \in Nodes : nodes[n].state # "present"

\* The partial unique index on machine_fingerprint.
ActiveRegistration(row) ==
    row.status \in {"pending_proof", "pending_approval", "approved", "installing", "ready"}
IndexAdmits(regs) ==
    \A q, r \in Regs : ActiveRegistration(regs[q]) /\ ActiveRegistration(regs[r]) => q = r

\* Who may send what: installers present the tokens they hold, the bootstrap
\* what it has sent (once or again), administrators anything.
Query(op, n, g, arg) == [op |-> op, node |-> n, grant |-> g, arg |-> arg]
InstallerQueries ==
    {Query("claim", owner[c], c, None) : c \in {d \in Codes : owner[d] # None}}
    \cup {Query("report", owner[g], g, p) : g \in {h \in Grants : redeemed[h] > 0}, p \in Phases \cap Ops}
BootstrapQueries == UNION {{Query(op, None, r, None) : op \in sent[r]} : r \in Regs}
AdminQueries ==
    {Query("update", n, None, change) : n \in Nodes, change \in Changes \cap Ops}
    \cup {Query(op, n, None, None) : op \in {"revoke", "regenerate"}, n \in Nodes}
    \cup {Query("accept", None, r, None) : r \in {q \in Regs : reg[q].status # "none"}}
    \cup {Query(op, None, None, None) : op \in ListOps}
Queries == InstallerQueries \cup BootstrapQueries \cup AdminQueries

\* The rows a handler reads before it decides.
Seen(op, n, g) ==
    LET linked == IF op = "claim_approved" THEN reg[g].node ELSE n
        nodes == IF op = "accept" THEN Nodes ELSE {n}
        enrs == IF op = "list_enrollments" THEN Nodes
                ELSE IF op = "update" THEN {} ELSE {linked}
        regs == CASE op = "list_registrations" -> Regs
                  [] op = "report" -> {r \in Regs : reg[r].node = n}
                  [] OTHER -> {g}
    IN  [node |-> [m \in Nodes |-> IF m \in nodes THEN node[m] ELSE NoNode],
         enr |-> [m \in Nodes |-> IF m \in enrs THEN enr[m] ELSE NoEnr],
         reg |-> [r \in Regs |-> IF r \in regs THEN reg[r] ELSE NoReg]]

Start(i, q) ==
    /\ req[i] = Idle /\ q.op \in Ops
    /\ q.op \in NodeOps => node[q.node].state = "present"
    /\ req' = [req EXCEPT ![i] = [op |-> q.op, node |-> q.node, grant |-> q.grant, arg |-> q.arg,
                                  snap |-> Seen(q.op, q.node, q.grant)]]
    /\ UNCHANGED <<node, enr, reg, boot, sent, owner, redeemed, superseded, decided, switched, raced>>

Serving(i, op) == req[i] # Idle /\ req[i].op = op
Finish(i) == req' = [req EXCEPT ![i] = Idle]

\* The bootstrap run that waits for this answer goes on; or it does not get
\* the answer, or not a good one, and gives up.
Answer(r, waiting, next) ==
    IF boot[r] = waiting
    THEN \E b \in {next, "failed"} : boot' = [boot EXCEPT ![r] = b]
    ELSE UNCHANGED boot
GiveUp(r, waiting) == boot' = IF boot[r] = waiting THEN [boot EXCEPT ![r] = "failed"] ELSE boot
Waits(op) == IF op = "prove" THEN "proving" ELSE "claiming"

\* A refusal, an error in the flush, or the server stops before the commit.
Rollback(i) ==
    /\ req[i] # Idle /\ Finish(i)
    /\ IF req[i].op \in {"prove", "claim_approved"}
       THEN GiveUp(req[i].grant, Waits(req[i].op)) ELSE UNCHANGED boot
    /\ UNCHANGED <<node, enr, reg, sent, owner, redeemed, superseded, decided, switched, raced>>

\* expires_at passes, in a state in which some handler looks at it.
EnrollmentLapses(n) ==
    /\ "lapse" \in Ops /\ enr[n].status \notin {"none", "online", "revoked", "expired"} /\ ~enr[n].lapsed
    /\ enr' = [enr EXCEPT ![n] = [enr[n] EXCEPT !.lapsed = TRUE]]
    /\ UNCHANGED <<node, reg, boot, sent, req, owner, redeemed, superseded, decided, switched, raced>>
RegistrationLapses(r) ==
    /\ "lapse_registration" \in Ops /\ reg[r].status \in {"pending_proof", "pending_approval", "approved"}
    /\ ~reg[r].lapsed
    /\ reg' = [reg EXCEPT ![r] = [reg[r] EXCEPT !.lapsed = TRUE]]
    /\ UNCHANGED <<node, enr, boot, sent, req, owner, redeemed, superseded, decided, switched, raced>>

-----------------------------------------------------------------------------
(* Enrollment codes.                                                         *)

\* What serialize_enrollment, and a claim, mark expired.
Overdue(row) == row.status = "pending" /\ row.lapsed

Fresh(c) == owner[c] = None
CodesOf(n) == {c \in Codes : owner[c] = n}

PresentNode(on, maint, ip) ==
    [state |-> "present", enabled |-> on, maint |-> maint, expected |-> ip,
     health |-> CASE maint -> "maintenance" [] ~maint /\ ~on -> "disabled" [] OTHER -> "unknown"]

\* create_edge_enrollment: the unique index decides between two of them.
CreateEdgeEnrollment(n, c, ip) ==
    /\ "create" \in Ops /\ node[n].state = "none" /\ NameFree(node) /\ Fresh(c)
    /\ node' = [node EXCEPT ![n] = PresentNode(FALSE, FALSE, ip)]
    /\ enr' = [enr EXCEPT ![n] = [NoEnr EXCEPT !.status = "pending", !.code = c]]
    /\ owner' = [owner EXCEPT ![c] = n]
    /\ UNCHANGED <<reg, boot, sent, req, redeemed, superseded, decided, switched, raced>>

\* Mutant of Redeemable: the UPDATE does not compare the token's hash.
RedeemableAnyHash(cur, old) == cur.status = "pending" /\ ~cur.claimed

\* The WHERE clause of claim_edge_enrollment, on the row as it is.
Redeemable(cur, old) == cur.status = "pending" /\ ~cur.claimed /\ cur.code = old.code

ClaimEdgeEnrollment(i) ==
    LET r == req[i]
        n == r.node
        old == r.snap.enr[n]
        valid == /\ old.code = r.grant /\ old.status = "pending" /\ ~old.claimed /\ ~old.lapsed
                 /\ r.snap.node[n].expected # None
    IN  /\ Serving(i, "claim") /\ Finish(i)
        /\ \/ /\ Overdue(old) /\ enr[n].status # "none"
              /\ enr' = [enr EXCEPT ![n] = [enr[n] EXCEPT !.status = "expired"]]
              /\ UNCHANGED redeemed
           \/ /\ valid /\ Redeemable(enr[n], old)
              /\ enr' = [enr EXCEPT ![n] = [status |-> "claimed", code |-> None, report |-> r.grant,
                                            claimed |-> TRUE, lapsed |-> FALSE]]
              /\ redeemed' = [redeemed EXCEPT ![r.grant] = redeemed[r.grant] + 1]
        /\ UNCHANGED <<node, reg, boot, sent, owner, superseded, decided, switched, raced>>

\* report_edge_enrollment: enrollment, node and registration are written from
\* what was read; the registration may not break the index.
ReportEdgeEnrollment(i) ==
    LET r == req[i]
        n == r.node
        old == r.snap.enr[n]
        was == r.snap.node[n]
        linked == {q \in Regs : r.snap.reg[q].node = n}
    IN  /\ Serving(i, "report") /\ Finish(i)
        /\ old.report = r.grant /\ old.status \notin {"revoked", "expired", "online"} /\ ~old.lapsed
        /\ enr[n].status # "none" /\ \A q \in linked : reg[q].status # "none"
        /\ enr' = [enr EXCEPT ![n] = [enr[n] EXCEPT !.status = Col(@, old.status, r.arg)]]
        /\ node' = IF r.arg = "ready"
                   THEN [node EXCEPT ![n] = [node[n] EXCEPT !.enabled = Col(@, was.enabled, TRUE),
                                                            !.health = Col(@, was.health, "unknown")]]
                   ELSE node
        /\ reg' = [q \in Regs |-> IF q \in linked
                                  THEN [reg[q] EXCEPT !.status = Col(@, r.snap.reg[q].status, r.arg)]
                                  ELSE reg[q]]
        /\ IndexAdmits(reg')
        /\ UNCHANGED <<boot, sent, owner, redeemed, superseded, decided, switched, raced>>

\* Mutant of SwitchedOff: revoking leaves the node enabled.
SwitchedOffInName(cur, was) == [cur EXCEPT !.health = Col(@, was.health, "disabled")]

SwitchedOff(cur, was) == [cur EXCEPT !.enabled = Col(@, was.enabled, FALSE),
                                     !.health = Col(@, was.health, "disabled")]

RevokeEdgeEnrollment(i) ==
    LET n == req[i].node
        old == req[i].snap.enr[n]
        was == req[i].snap.node[n]
        overlap == \/ node[n].enabled # was.enabled
                   \/ \E j \in ReqIds : Serving(j, "report") /\ req[j].node = n
    IN  /\ Serving(i, "revoke") /\ Finish(i)
        /\ old.status \notin {"none", "revoked", "online"} /\ enr[n].status # "none"
        /\ enr' = [enr EXCEPT ![n] = [enr[n] EXCEPT !.status = "revoked", !.code = None,
                                                    !.report = Col(@, old.report, None)]]
        /\ node' = [node EXCEPT ![n] = SwitchedOff(node[n], was)]
        /\ superseded' = superseded \cup CodesOf(n)
        /\ raced' = IF overlap THEN raced \cup {n} ELSE raced \ {n}
        /\ switched' = switched \ {n}
        /\ UNCHANGED <<reg, boot, sent, owner, redeemed, decided>>

RegenerateEdgeEnrollment(i, c) ==
    LET n == req[i].node
        old == req[i].snap.enr[n]
    IN  /\ Serving(i, "regenerate") /\ Finish(i) /\ Fresh(c)
        /\ old.status \in {"pending", "expired", "revoked"} /\ enr[n].status # "none"
        /\ enr' = [enr EXCEPT ![n] = [status |-> Col(enr[n].status, old.status, "pending"), code |-> c,
                                      report |-> Col(enr[n].report, old.report, None),
                                      claimed |-> Col(enr[n].claimed, old.claimed, FALSE),
                                      lapsed |-> FALSE]]
        /\ superseded' = superseded \cup CodesOf(n)
        /\ owner' = [owner EXCEPT ![c] = n]
        /\ UNCHANGED <<node, reg, boot, sent, redeemed, decided, switched, raced>>

\* The listing commits what serialize_enrollment marked.
ListEdgeEnrollments(i) ==
    LET late == {n \in Nodes : Overdue(req[i].snap.enr[n])}
    IN  /\ Serving(i, "list_enrollments") /\ Finish(i)
        /\ \A n \in late : enr[n].status # "none"
        /\ enr' = [n \in Nodes |-> IF n \in late THEN [enr[n] EXCEPT !.status = "expired"] ELSE enr[n]]
        /\ UNCHANGED <<node, reg, boot, sent, owner, redeemed, superseded, decided, switched, raced>>

-----------------------------------------------------------------------------
(* Registration.                                                             *)

\* create_node_registration, called by enroll(): the answer may be lost, or
\* the machine already has an active registration (409).
CreateNodeRegistration(r) ==
    LET row == [NoReg EXCEPT !.status = "pending_proof", !.token = TRUE, !.chal = TRUE]
        new == [reg EXCEPT ![r] = row]
    IN  /\ "register" \in Ops /\ boot[r] = "idle"
        /\ \/ /\ IndexAdmits(new) /\ reg' = new
              /\ \/ /\ boot' = [boot EXCEPT ![r] = "proving"]
                    /\ sent' = [sent EXCEPT ![r] = {"prove"}]
                 \/ /\ boot' = [boot EXCEPT ![r] = "failed"]
                    /\ UNCHANGED sent
           \/ /\ ~IndexAdmits(new)
              /\ boot' = [boot EXCEPT ![r] = "failed"]
              /\ UNCHANGED <<reg, sent>>
        /\ UNCHANGED <<node, enr, req, owner, redeemed, superseded, decided, switched, raced>>

ProveNodeRegistration(i) ==
    LET r == req[i].grant
        old == req[i].snap.reg[r]
    IN  /\ Serving(i, "prove") /\ Finish(i)
        /\ old.token /\ old.status = "pending_proof" /\ old.chal
        /\ \/ /\ old.lapsed /\ reg[r].status # "none"
              /\ reg' = [reg EXCEPT ![r] = [reg[r] EXCEPT !.status = "expired", !.chal = FALSE]]
              /\ GiveUp(r, "proving")
           \/ /\ ~old.lapsed /\ reg[r].status = "pending_proof" /\ reg[r].chal
              /\ reg' = [reg EXCEPT ![r] = [reg[r] EXCEPT !.status = "pending_approval", !.chal = FALSE,
                                                          !.lapsed = FALSE, !.proved = TRUE]]
              /\ Answer(r, "proving", "polling")
        /\ UNCHANGED <<node, enr, sent, owner, redeemed, superseded, decided, switched, raced>>

\* node_registration_status: what the token's holder is told.
Told(row) == IF row.token THEN row.status ELSE "refused"

\* enroll()'s polling loop; the last poll, or one that gets no answer, ends it.
Poll(r) ==
    LET status == Told(reg[r])
    IN  /\ boot[r] = "polling"
        /\ \/ /\ status = "approved" /\ reg[r].chal
              /\ boot' = [boot EXCEPT ![r] = "claiming"]
              /\ sent' = [sent EXCEPT ![r] = sent[r] \cup {"claim_approved"}]
           \/ /\ status \notin {"approved", "pending_proof", "pending_approval"}
              /\ boot' = [boot EXCEPT ![r] = "failed"]
              /\ UNCHANGED sent
        /\ UNCHANGED <<node, enr, reg, req, owner, redeemed, superseded, decided, switched, raced>>
PollFails(r) ==
    /\ boot[r] = "polling" /\ boot' = [boot EXCEPT ![r] = "failed"]
    /\ UNCHANGED <<node, enr, reg, sent, req, owner, redeemed, superseded, decided, switched, raced>>

\* Mutant of Undecided: the UPDATE goes by the row that was read.
UndecidedAsRead(cur) == TRUE

\* The WHERE clause that accept and reject share.
Undecided(cur) == cur.status = "pending_approval"

AcceptNodeRegistration(i, n) ==
    LET r == req[i].grant
        snap == req[i].snap
    IN  /\ Serving(i, "accept") /\ Finish(i)
        /\ snap.reg[r].status = "pending_approval" /\ snap.reg[r].proved
        /\ NameFree(snap.node) /\ NameFree(node) /\ node[n].state = "none"
        /\ reg[r].status # "none" /\ Undecided(reg[r]) /\ reg[r].proved
        /\ reg' = [reg EXCEPT ![r] = [reg[r] EXCEPT !.status = "approved", !.chal = TRUE,
                                                    !.lapsed = FALSE, !.node = n]]
        /\ IndexAdmits(reg')
        /\ \E ip \in Ips : node' = [node EXCEPT ![n] = PresentNode(FALSE, FALSE, ip)]
        /\ enr' = [enr EXCEPT ![n] = [status |-> "claimed", code |-> None, report |-> r,
                                      claimed |-> TRUE, lapsed |-> FALSE]]
        /\ owner' = [owner EXCEPT ![r] = n]
        /\ decided' = [decided EXCEPT ![r] = [decided[r] EXCEPT !.accepted = @ + 1]]
        /\ UNCHANGED <<boot, sent, redeemed, superseded, switched, raced>>

\* reject_node_registration reads nothing that it uses.
RejectNodeRegistration(r) ==
    /\ "reject" \in Ops /\ reg[r].status # "none" /\ Undecided(reg[r])
    /\ reg' = [reg EXCEPT ![r] = [reg[r] EXCEPT !.status = "rejected", !.chal = FALSE]]
    /\ decided' = [decided EXCEPT ![r] = [decided[r] EXCEPT !.rejected = @ + 1]]
    /\ UNCHANGED <<node, enr, boot, sent, req, owner, redeemed, superseded, switched, raced>>

\* Mutant of Claimable: the UPDATE goes by the row that was read.
ClaimableAsRead(cur) == TRUE

\* The WHERE clause of claim_approved_node_registration.
Claimable(cur) == cur.status = "approved" /\ cur.token /\ cur.chal

ClaimApprovedNodeRegistration(i) ==
    LET r == req[i].grant
        old == req[i].snap.reg[r]
        n == old.node
    IN  /\ Serving(i, "claim_approved") /\ Finish(i)
        /\ old.token /\ old.status = "approved" /\ old.proved /\ n # None /\ ~old.lapsed /\ old.chal
        /\ req[i].snap.enr[n].status = "claimed"
        /\ Claimable(reg[r]) /\ enr[n].status # "none"
        /\ reg' = [reg EXCEPT ![r] = [reg[r] EXCEPT !.status = "installing", !.token = FALSE,
                                                    !.chal = FALSE]]
        /\ enr' = [enr EXCEPT ![n] = [enr[n] EXCEPT !.status = "installing", !.lapsed = FALSE]]
        /\ redeemed' = [redeemed EXCEPT ![r] = redeemed[r] + 1]
        /\ Answer(r, "claiming", "done")
        /\ UNCHANGED <<node, sent, owner, superseded, decided, switched, raced>>

\* list_node_registration_requests expires what is late, and deletes what
\* expired more than seven days ago (old).
ListNodeRegistrationRequests(i, old) ==
    LET was == req[i].snap.reg
        late == {r \in Regs : was[r].status \in {"pending_proof", "pending_approval"} /\ was[r].lapsed}
    IN  /\ Serving(i, "list_registrations") /\ Finish(i)
        /\ \A r \in old : was[r].status = "expired"
        /\ \A r \in late \cup old : reg[r].status # "none"
        /\ reg' = [r \in Regs |->
                     IF r \in old THEN NoReg
                     ELSE IF r \in late
                     THEN [reg[r] EXCEPT !.status = "expired", !.chal = Col(@, was[r].chal, FALSE)]
                     ELSE reg[r]]
        /\ UNCHANGED <<node, enr, boot, sent, owner, redeemed, superseded, decided, switched, raced>>

-----------------------------------------------------------------------------
(* Nodes.                                                                    *)

\* create_edge_node.
CreateEdgeNode(n, on, maint, ip) ==
    /\ "create_node" \in Ops /\ node[n].state = "none" /\ NameFree(node)
    /\ node' = [node EXCEPT ![n] = PresentNode(on, maint, ip)]
    /\ switched' = IF on THEN switched \cup {n} ELSE switched
    /\ UNCHANGED <<enr, reg, boot, sent, req, owner, redeemed, superseded, decided, raced>>

\* The row update_edge_node computes from the one it read.
Changed(row, change, ip) ==
    LET on == CASE change = "enable" -> TRUE [] change = "disable" -> FALSE [] OTHER -> row.enabled
        maint == CASE change = "maintain" -> TRUE [] change = "resume" -> FALSE [] OTHER -> row.maint
    IN  [row EXCEPT !.enabled = on, !.maint = maint,
                    !.expected = IF change = "expect" THEN ip ELSE @,
                    !.health = CASE maint -> "maintenance"
                                 [] ~maint /\ ~on -> "disabled"
                                 [] ~maint /\ on /\ change # "expect" -> "unknown"
                                 [] OTHER -> @]

UpdateEdgeNode(i, ip) ==
    LET n == req[i].node
        old == req[i].snap.node[n]
        new == Changed(old, req[i].arg, ip)
    IN  /\ Serving(i, "update") /\ Finish(i)
        /\ node[n].state = "present"
        /\ node' = [node EXCEPT ![n] = [state |-> "present",
                                        enabled |-> Col(node[n].enabled, old.enabled, new.enabled),
                                        maint |-> Col(node[n].maint, old.maint, new.maint),
                                        health |-> Col(node[n].health, old.health, new.health),
                                        expected |-> Col(node[n].expected, old.expected, new.expected)]]
        /\ switched' = IF new.enabled /\ ~old.enabled THEN switched \cup {n} ELSE switched
        /\ UNCHANGED <<enr, reg, boot, sent, owner, redeemed, superseded, decided, raced>>

\* delete_edge_node, for a node without stores.  The row is locked while it is
\* looked at; the enrollment goes too, and the registration loses its node.
DeleteEdgeNode(n) ==
    /\ "delete" \in Ops /\ node[n].state = "present"
    /\ node' = [node EXCEPT ![n] = [NoNode EXCEPT !.state = "gone"]]
    /\ enr' = [enr EXCEPT ![n] = NoEnr]
    /\ reg' = [r \in Regs |-> IF reg[r].node = n THEN [reg[r] EXCEPT !.node = None] ELSE reg[r]]
    /\ UNCHANGED <<boot, sent, req, owner, redeemed, superseded, decided, switched, raced>>

-----------------------------------------------------------------------------
Serve(i) ==
    \/ ClaimEdgeEnrollment(i) \/ ReportEdgeEnrollment(i) \/ RevokeEdgeEnrollment(i)
    \/ \E c \in Codes : RegenerateEdgeEnrollment(i, c)
    \/ ListEdgeEnrollments(i)
    \/ ProveNodeRegistration(i) \/ ClaimApprovedNodeRegistration(i)
    \/ \E n \in Nodes : AcceptNodeRegistration(i, n)
    \/ \E old \in SUBSET Regs : ListNodeRegistrationRequests(i, old)
    \/ \E ip \in Ips \cup {None} : UpdateEdgeNode(i, ip)
    \/ Rollback(i)

Next ==
    \/ \E i \in ReqIds :
          \/ Serve(i)
          \/ \E q \in Queries : Start(i, q)
    \/ \E n \in Nodes : \/ EnrollmentLapses(n)
                        \/ \E on, maint \in BOOLEAN, ip \in Ips \cup {None} :
                              CreateEdgeNode(n, on, maint, ip)
                        \/ \E ip \in Ips, c \in Codes : CreateEdgeEnrollment(n, c, ip)
                        \/ DeleteEdgeNode(n)
    \/ \E r \in Regs : \/ CreateNodeRegistration(r) \/ Poll(r) \/ PollFails(r)
                       \/ RejectNodeRegistration(r) \/ RegistrationLapses(r)

Spec == Init /\ [][Next]_vars

-----------------------------------------------------------------------------
(* What enrollment promises.                                                 *)

(* A code, and a registration, yields the node's secret at most once: two    *)
(* installers, a repeated request, a revocation and a regeneration in flight *)
(* together never redeem it twice.                                           *)
RedeemedOnce == \A g \in Grants : redeemed[g] <= 1

(* Once a revocation or a regeneration has committed, the earlier codes are  *)
(* dead, also for claims that had read the row before it.                    *)
SupersededCodeDead == [][\A c \in superseded : redeemed'[c] = redeemed[c]]_vars

(* Administrators deciding at once never both accept and reject a machine,   *)
(* nor accept it twice, and no machine gets a secret without an acceptance.  *)
DecidedOnce ==
    \A r \in Regs : /\ decided[r].accepted + decided[r].rejected <= 1
                    /\ redeemed[r] > 0 => decided[r].accepted = 1

(* Revoking an enrollment switches its node off, and it stays off until an   *)
(* administrator switches it on or a new code is redeemed: the exception is  *)
(* a revocation that overlapped an installer's report, since the ORM writes  *)
(* only the columns that changed from what the revocation had read.          *)
RevokedMeansOff ==
    \A n \in Nodes : enr[n].status = "revoked" /\ node[n].enabled => n \in raced \cup switched
=============================================================================
