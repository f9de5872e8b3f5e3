------------------------------- MODULE Agent -------------------------------
(***************************************************************************)
(* The local agents of one store on one device (native-client/agent-rs),   *)
(* and of the control plane what they depend on: the device session, whose *)
(* present access token is the one of generation gen, and the device's     *)
(* lease on the store.  An agent connects, serves its browser, renews the  *)
(* lease with heartbeats, may be handed a new access token while one is on *)
(* its way, and gives the lease up when it stops.  Requests and answers    *)
(* get lost, disconnects arrive late, and processes are killed.            *)
(***************************************************************************)
EXTENDS Integers, FiniteSets

CONSTANTS
    Agents,     \* agent processes at once
    MaxGen,     \* bound: generations of access tokens
    MaxLeases,  \* bound: leases ever issued
    Faults      \* the faults this instance exercises

ASSUME AgentConstants == MaxGen \in Nat /\ MaxLeases \in Nat

VARIABLES
    gen,        \* device_sessions.token_generation; refresh tokens are numbered alike
    session,    \* the device session is over (or there is none), or its access token
                \* of generation gen is fresh or past its 15 minutes (stale)
    lease,      \* the device's active lease, or 0
    issued,     \* leases issued so far
    agent,      \* the processes
    socket,     \* the store's control socket exists in the file system
    msgs        \* disconnects (the lease) and logouts (0) under way with the present token

planeVars == <<gen, session, lease, issued>>
agentVars == <<planeVars, agent, socket, msgs>>

-----------------------------------------------------------------------------
Gens == 0..MaxGen
LeaseIds == 0..MaxLeases

(* beat: a heartbeat is under way; rejected: the answer 401 or 403 to it is. *)
Up == {"serving", "beat", "rejected"}
AgentPlaces == {"gone", "connect", "stopping"} \cup Up

(* sent: the token of the heartbeat; ups: updates of the token since it was  *)
(* first sent, up to two; again: it has been repeated; told: the process has *)
(* been told to stop.                                                        *)
AgentRows == [pc : AgentPlaces, tok : Gens, lease : LeaseIds, sent : Gens, ups : 0..2,
              again : BOOLEAN, told : BOOLEAN]
Gone == [pc |-> "gone", tok |-> 0, lease |-> 0, sent |-> 0, ups |-> 0, again |-> FALSE,
         told |-> FALSE]

AgentTypeOK ==
    /\ gen \in Gens /\ session \in {"over", "fresh", "stale"}
    /\ lease \in LeaseIds /\ issued \in LeaseIds
    /\ agent \in [Agents -> AgentRows]
    /\ socket \in BOOLEAN
    /\ msgs \subseteq LeaseIds

AgentInit ==
    /\ gen = 0 /\ session = "over"
    /\ lease = 0 /\ issued = 0
    /\ agent = [a \in Agents |-> Gone]
    /\ socket = FALSE /\ msgs = {}

-----------------------------------------------------------------------------
(* The control plane.                                                        *)

\* native_access_identity.
Accepted(tok) == session = "fresh" /\ tok = gen

\* connect_store and native_store_preflight: the device's active lease is
\* handed out again, or a new one is made.
Grant(l) ==
    /\ \/ lease # 0 /\ l = lease /\ UNCHANGED issued
       \/ lease = 0 /\ issued < MaxLeases /\ l = issued + 1 /\ issued' = l
    /\ lease' = l

\* An administrator disconnects the store, or heartbeats stay away.
LeaseEnds ==
    /\ "end" \in Faults /\ lease # 0 /\ lease' = 0
    /\ UNCHANGED <<gen, session, issued, agent, socket, msgs>>

TokenExpires ==
    /\ session = "fresh" /\ session' = "stale" /\ msgs' = {}
    /\ UNCHANGED <<gen, lease, issued, agent, socket>>

\* Another device, a password change or an administrator revokes the session.
SessionRevoked ==
    /\ "revoke" \in Faults /\ session # "over" /\ session' = "over" /\ msgs' = {}
    /\ UNCHANGED <<gen, lease, issued, agent, socket>>

\* A request goes out.  One whose token is not the present one is refused
\* whenever it arrives, and one under way is as soon as the token changes.
Send(m, tok) == msgs' = IF Accepted(tok) THEN msgs \cup {m} ELSE msgs

\* disconnect_store and native_logout; or the request is lost.
Deliver(m) ==
    /\ m \in msgs
    /\ \/ m # 0 /\ lease' = (IF m = lease THEN 0 ELSE lease) /\ msgs' = msgs \ {m} /\ UNCHANGED session
       \/ m = 0 /\ session' = "over" /\ msgs' = {} /\ UNCHANGED lease
       \/ msgs' = msgs \ {m} /\ UNCHANGED <<lease, session>>
    /\ UNCHANGED <<gen, issued, agent, socket>>

-----------------------------------------------------------------------------
(* An agent.                                                                 *)

Set(a, row) == agent' = [agent EXCEPT ![a] = row]
At(a, pc) == agent[a].pc = pc
Quiet(row, pc) == [row EXCEPT !.pc = pc, !.sent = 0, !.ups = 0, !.again = FALSE]

\* run_with_shutdown up to run_connected's listeners.  The listing it starts
\* with changes nothing, and what it finds may change before the connect.  A
\* socket left behind makes the bind fail, which gives the lease up again.
Connect(a) ==
    LET r == agent[a]
    IN  /\ At(a, "connect")
        /\ \/ /\ Accepted(r.tok)
              /\ \E l \in LeaseIds \ {0} :
                    /\ Grant(l)
                    /\ \/ ~socket /\ Set(a, [r EXCEPT !.pc = "serving", !.lease = l]) /\ socket' = TRUE
                       \/ Set(a, [r EXCEPT !.pc = "stopping", !.lease = l]) /\ UNCHANGED socket
                       \/ "lose" \in Faults /\ Set(a, Gone) /\ UNCHANGED socket
           \/ Set(a, Gone) /\ UNCHANGED <<lease, issued, socket>>
        /\ UNCHANGED <<gen, session, msgs>>

\* heartbeat_loop's timer: token_snapshot and send.
Beat(a) ==
    /\ At(a, "serving")
    /\ Set(a, [agent[a] EXCEPT !.pc = "beat", !.sent = agent[a].tok])
    /\ UNCHANGED <<planeVars, socket, msgs>>

\* run_connected ends: its tasks are aborted and its socket is removed.
Shutdown(a) == Set(a, Quiet(agent[a], "stopping")) /\ socket' = FALSE

\* heartbeat_store.  Any answer but success and a rejection ends the agent, and
\* so does none within the client's 20 seconds.
BeatServed(a) ==
    LET r == agent[a]
    IN  /\ At(a, "beat")
        /\ \/ Accepted(r.sent) /\ r.lease = lease /\ Set(a, Quiet(r, "serving")) /\ UNCHANGED socket
           \/ Accepted(r.sent) /\ r.lease # lease /\ Shutdown(a)
           \/ ~Accepted(r.sent) /\ Set(a, [r EXCEPT !.pc = "rejected"]) /\ UNCHANGED socket
           \/ "lose" \in Faults /\ Shutdown(a)
        /\ UNCHANGED <<planeVars, msgs>>

\* Mutant of Repeats: the heartbeat is not repeated.
RepeatsNever(r) == FALSE

\* token_generation() # generation, looked at once.
Repeats(r) == ~r.again /\ r.ups > 0

\* Mutant of Judge: a rejection is waited out.
JudgeWaits(a) ==
    /\ At(a, "rejected") /\ Set(a, Quiet(agent[a], "serving"))
    /\ UNCHANGED <<planeVars, socket, msgs>>

\* The rejection arrives.
Judge(a) ==
    LET r == agent[a]
    IN  /\ At(a, "rejected")
        /\ \/ /\ Repeats(r) /\ UNCHANGED socket
              /\ Set(a, [r EXCEPT !.pc = "beat", !.sent = r.tok, !.again = TRUE])
           \/ ~Repeats(r) /\ Shutdown(a)
        /\ UNCHANGED <<planeVars, msgs>>

\* SIGTERM, or the control command.
Obey(a) ==
    /\ agent[a].told /\ agent[a].pc \in Up
    /\ Shutdown(a)
    /\ UNCHANGED <<planeVars, msgs>>

\* The process waits for the answer; one that never comes, or comes late, makes
\* no difference to it.
SendDisconnect(a) ==
    /\ At(a, "stopping") /\ Set(a, Gone)
    /\ Send(agent[a].lease, agent[a].tok)
    /\ UNCHANGED <<planeVars, socket>>

\* SIGKILL three seconds after SIGTERM, or a crash.  The socket stays.
Killed(a) ==
    /\ ~At(a, "gone") /\ (agent[a].told \/ "crash" \in Faults)
    /\ Set(a, Gone)
    /\ UNCHANGED <<planeVars, socket, msgs>>

\* handle_control's update_token, if the agent answers its control socket.
Updated(r, tok) ==
    [r EXCEPT !.tok = tok,
              !.ups = IF r.pc = "serving" \/ r.ups = 2 THEN r.ups ELSE r.ups + 1]

PlaneStep == LeaseEnds \/ TokenExpires \/ SessionRevoked \/ \E m \in msgs : Deliver(m)
AgentStep ==
    \E a \in Agents : \/ Connect(a) \/ Beat(a) \/ BeatServed(a) \/ Judge(a) \/ Obey(a)
                      \/ SendDisconnect(a) \/ Killed(a)
=============================================================================
