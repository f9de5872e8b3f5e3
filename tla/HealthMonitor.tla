--------------------------- MODULE HealthMonitor ---------------------------
(***************************************************************************)
(* The edge health monitor (cloudbrowser/edge_health.py), run by a timer   *)
(* (deploy/idengrid-edge-health.timer) beside the server of module         *)
(* Enrollment.  One run reads the nodes, probes each over the network for  *)
(* seconds, and commits its verdicts and their consequences for            *)
(* enrollments and registrations, while administrators and installers      *)
(* change the same rows.                                                   *)
(***************************************************************************)
EXTENDS Enrollment

CONSTANTS
    SampleCount, MinSuccess,    \* sample_count, min_success
    Elsewhere                   \* an address that nobody expects

ASSUME QuorumAssumption ==
    /\ SampleCount \in Nat /\ MinSuccess \in Nat /\ 3 <= MinSuccess /\ MinSuccess <= SampleCount
    /\ Elsewhere \notin Ips \cup {None}

VARIABLES
    mon,    \* the run under way: the tables it read
    fresh,  \* history: is the last verdict on a node younger than its last change?
    seen    \* history: where the last verdict saw the node, if online

monVars == <<mon, fresh, seen>>
allVars == <<vars, monVars>>

Resting == [on |-> FALSE]

MonTypeOK ==
    /\ TypeOK
    /\ mon \in [on : {TRUE}, snap : Tables] \cup {Resting}
    /\ fresh \in [Nodes -> {"stale", "pending", "fresh"}]
    /\ seen \in [Nodes -> Ips \cup {None, Elsewhere}]

MonInit ==
    /\ Init
    /\ mon = Resting
    /\ fresh = [n \in Nodes |-> "stale"]
    /\ seen = [n \in Nodes |-> None]

-----------------------------------------------------------------------------
(* Probing.  _probe_sample ends in no answer, an answer that is not of this  *)
(* node or not valid, or a valid one with an address and a load.             *)
Outcomes == [kind : {"lost", "invalid"}, ip : {None}, busy : {FALSE}]
            \cup [kind : {"valid"}, ip : Ips \cup {Elsewhere}, busy : BOOLEAN]
Samples == [1..SampleCount -> Outcomes]

\* Mutant of HealthStatus: any address will do.
HealthStatusAnywhere(last, expected) == IF last.busy THEN "degraded" ELSE "online"

\* _health_status.
HealthStatus(last, expected) ==
    CASE expected \notin {None, last.ip} -> "quarantined"
      [] expected \in {None, last.ip} /\ last.busy -> "degraded"
      [] OTHER -> "online"

\* _probe.
Verdict(samples, expected) ==
    LET good == {k \in 1..SampleCount : samples[k].kind = "valid"}
        last == samples[CHOOSE k \in good : \A j \in good : j <= k]
        invalid == \E k \in 1..SampleCount : samples[k].kind = "invalid"
        mixed == \E j, k \in good : samples[j].ip # samples[k].ip
    IN  IF invalid \/ Cardinality(good) < MinSuccess THEN [health |-> "offline", ip |-> None]
        ELSE IF mixed THEN [health |-> "quarantined", ip |-> None]
        ELSE [health |-> HealthStatus(last, expected), ip |-> last.ip]
Verdicts == [expected \in Ips \cup {None} |-> {Verdict(s, expected) : s \in Samples}]

-----------------------------------------------------------------------------
(* A run.                                                                    *)

\* What run_once reads: enabled nodes, and the rows of theirs that may change.
Observed ==
    LET on == {n \in Nodes : node[n].enabled}
        open == {n \in on : enr[n].status \in {"ready", "installing", "claimed", "failed"}}
        linked == {r \in Regs : /\ reg[r].node \in on
                                /\ reg[r].status \in {"installing", "ready", "failed", "online"}}
    IN  [node |-> [n \in Nodes |-> IF n \in on THEN node[n] ELSE NoNode],
         enr |-> [n \in Nodes |-> IF n \in open THEN enr[n] ELSE NoEnr],
         reg |-> [r \in Regs |-> IF r \in linked THEN reg[r] ELSE NoReg]]

\* The whole run reads one snapshot, taken by its first query.
MonitorStart ==
    /\ mon = Resting
    /\ mon' = [on |-> TRUE, snap |-> Observed]
    /\ fresh' = [n \in Nodes |-> IF node[n].enabled /\ fresh[n] = "stale" THEN "pending" ELSE fresh[n]]
    /\ UNCHANGED <<vars, seen>>

\* Mutant of Effective: the verdict of the probe, also during maintenance.
EffectiveUnmasked(row, verdict) == verdict.health

\* Mutant of Effective: the column's name for the status.
EffectiveMisnamed(row, verdict) == IF row.maint THEN "maintenance_mode" ELSE verdict.health

Effective(row, verdict) == IF row.maint THEN "maintenance" ELSE verdict.health

\* The enrollment and the registration that follow a verdict.
EnrollmentAfter(cur, old, health) ==
    CASE old # NoEnr /\ health = "online" ->
           [cur EXCEPT !.status = "online", !.report = Col(@, old.report, None)]
      [] old # NoEnr /\ health \in {"offline", "quarantined"} ->
           [cur EXCEPT !.status = Col(@, old.status, "failed")]
      [] OTHER -> cur
RegistrationAfter(cur, old, health) ==
    CASE health = "online" -> [cur EXCEPT !.status = Col(@, old.status, "online")]
      [] health \in {"offline", "quarantined"} ->
           [cur EXCEPT !.status = Col(@, old.status, "failed")]
      [] OTHER -> cur

\* The flush of a row that is gone fails, and with it the run.
MonitorCommit ==
    LET snap == mon.snap
        probed == {n \in Nodes : snap.node[n].enabled}
        linked == {r \in Regs : snap.reg[r].node \in probed}
    IN  /\ mon # Resting
        /\ \A n \in probed : node[n].state = "present"
        /\ \A r \in linked : reg[r].status # "none"
        /\ \E v \in [probed -> UNION {Verdicts[snap.node[n].expected] : n \in probed}] :
              LET health == [n \in probed |-> Effective(snap.node[n], v[n])]
              IN  /\ \A n \in probed : v[n] \in Verdicts[snap.node[n].expected]
                  /\ node' = [n \in Nodes |->
                                IF n \in probed
                                THEN [node[n] EXCEPT !.health = Col(@, snap.node[n].health, health[n])]
                                ELSE node[n]]
                  /\ enr' = [n \in Nodes |->
                                IF n \in probed THEN EnrollmentAfter(enr[n], snap.enr[n], health[n])
                                ELSE enr[n]]
                  /\ reg' = [r \in Regs |->
                                IF r \in linked
                                THEN RegistrationAfter(reg[r], snap.reg[r], health[snap.reg[r].node])
                                ELSE reg[r]]
                  /\ seen' = [n \in Nodes |->
                                IF n \notin probed THEN seen[n]
                                ELSE IF health[n] = "online" THEN v[n].ip ELSE None]
        /\ mon' = Resting
        /\ fresh' = [n \in Nodes |-> IF fresh[n] = "pending" THEN "fresh" ELSE fresh[n]]
        /\ UNCHANGED <<boot, sent, req, owner, redeemed, superseded, decided, switched, raced>>

\* The process dies, or its transaction fails: nothing is written.
MonitorAbort ==
    /\ mon # Resting /\ mon' = Resting
    /\ fresh' = [n \in Nodes |-> IF fresh[n] = "pending" THEN "stale" ELSE fresh[n]]
    /\ UNCHANGED <<vars, seen>>

ServerStep ==
    /\ Next
    /\ fresh' = [n \in Nodes |->
                   IF <<node[n].maint, node[n].expected>> # <<node'[n].maint, node'[n].expected>>
                   THEN "stale" ELSE fresh[n]]
    /\ UNCHANGED <<mon, seen>>

MonNext == ServerStep \/ MonitorStart \/ MonitorCommit \/ MonitorAbort

MonSpec == MonInit /\ [][MonNext]_allVars

\* The timer starts a run after every run (Persistent, OnUnitActiveSec), and
\* runs that are started again and again do not all die.
FairSpec == MonSpec /\ WF_allVars(MonitorStart) /\ SF_allVars(MonitorCommit)

-----------------------------------------------------------------------------
(* What the fleet's rows promise: connect_managed_store admits a connection  *)
(* to an enabled node whose health is "online" (app.py).                     *)

(* "online" is about the node as it is now: unless an administrator changed  *)
(* it while the run was probing, a node in maintenance is not online, and an *)
(* online node was seen at the address expected of it.                       *)
FreshVerdictHolds ==
    \A n \in Nodes : fresh[n] = "fresh" /\ node[n].health = "online"
                        => /\ ~node[n].maint
                           /\ node[n].expected \in {None, seen[n]}

(* A run that overlaps the change may leave a node in maintenance online;    *)
(* the next one takes it off.                                                *)
MaintenanceHides ==
    \A n \in Nodes : node[n].enabled /\ node[n].maint /\ node[n].health = "online"
                        ~> ~(node[n].enabled /\ node[n].maint /\ node[n].health = "online")
=============================================================================
