---------------------------- MODULE StoreClient ----------------------------
(***************************************************************************)
(* The macOS client (StoreViewModel, StoreProcessManager) and the agents   *)
(* it starts, for one store.  The client's functions run on one thread and *)
(* interleave at every await: a sign-in, one refresh of the access token,  *)
(* and launches, of which a second click can start another, while the user *)
(* closes the store or signs out, processes die and answers get lost.      *)
(***************************************************************************)
EXTENDS Agent

CONSTANTS
    Launches,   \* launches at once
    None,
    MaxSignIns  \* bound: sign-ins and sign-outs

ASSUME ClientConstants == None \notin Launches \cup Agents /\ MaxSignIns \in Nat

VARIABLES
    ui,         \* StoreViewModel: isAuthenticated, accessToken, the vault's refresh token
    sgen,       \* sessionGeneration
    refresh,    \* refreshAccessTokenIfNeeded under way
    launch,     \* launches under way
    running,    \* StoreProcessManager.running: the store's agent, or None
    browser,    \* the browser started with each agent runs and has not been told to end
    locked,     \* store.lock exists
    unheard     \* history: a refresh since the last sign-in was served, its answer lost

clientVars == <<ui, sgen, refresh, launch, running, browser, locked, unheard>>
vars == <<agentVars, clientVars>>

-----------------------------------------------------------------------------
(* A call: asked, or answered with a generation, "refused" or "lost".        *)
Answers == Gens \cup {-1, -2}
Refused == -1
Lost == -2
Idle == [at |-> "idle", arg |-> 0, ans |-> 0, sgen |-> 0, agent |-> None]
Calls == [at : {"idle", "asked", "answered", "update"}, arg : Gens, ans : Answers,
          sgen : 0..MaxSignIns, agent : Agents \cup {None}]

(* preflight: the request is under way; again: it is the second; ready: the  *)
(* agent has been started and has to prove itself.                           *)
LaunchRows == [at : {"idle", "preflight", "refreshing", "ready"},
               again : BOOLEAN, tok : Gens, lease : LeaseIds, agent : Agents \cup {None}]
NoLaunch == [at |-> "idle", again |-> FALSE, tok |-> 0, lease |-> 0, agent |-> None]

SignedOut == [auth |-> FALSE, tok |-> 0, vault |-> 0]

TypeOK ==
    /\ AgentTypeOK
    /\ ui \in [auth : BOOLEAN, tok : Gens, vault : Gens]
    /\ sgen \in 0..MaxSignIns
    /\ refresh \in Calls
    /\ launch \in [Launches -> LaunchRows]
    /\ running \in Agents \cup {None}
    /\ browser \in [Agents -> BOOLEAN]
    /\ locked \in BOOLEAN /\ unheard \in BOOLEAN

Init ==
    /\ AgentInit
    /\ ui = SignedOut /\ sgen = 0
    /\ refresh = Idle
    /\ launch = [k \in Launches |-> NoLaunch]
    /\ running = None /\ browser = [a \in Agents |-> FALSE]
    /\ locked = FALSE /\ unheard = FALSE

-----------------------------------------------------------------------------
(* Processes.                                                                *)

\* terminate: told to stop, if it runs.
Told(a) == IF At(a, "gone") THEN agent ELSE [agent EXCEPT ![a] = [agent[a] EXCEPT !.told = TRUE]]

\* close and handleUnexpectedExit, for the store if it has a record.
CloseStore ==
    IF running = None THEN UNCHANGED <<agent, browser, locked, running>>
    ELSE /\ agent' = Told(running)
         /\ browser' = [browser EXCEPT ![running] = FALSE]
         /\ locked' = FALSE
         /\ running' = None

Close ==
    /\ running # None /\ CloseStore
    /\ UNCHANGED <<planeVars, socket, msgs, ui, sgen, refresh, launch, unheard>>

\* The termination handlers that installCrashRecovery sets.
ExitNoticed ==
    /\ running # None /\ (At(running, "gone") \/ ~browser[running]) /\ CloseStore
    /\ UNCHANGED <<planeVars, socket, msgs, ui, sgen, refresh, launch, unheard>>

\* The user quits the browser, or it crashes.
BrowserExits ==
    /\ "browser" \in Faults /\ running # None /\ browser[running]
    /\ browser' = [browser EXCEPT ![running] = FALSE]
    /\ UNCHANGED <<agentVars, ui, sgen, refresh, launch, running, locked, unheard>>

-----------------------------------------------------------------------------
(* Signing in and out.                                                       *)

\* Mutant of Applied: the new refresh token is not saved.
AppliedUnsaved(g) == [auth |-> TRUE, tok |-> g, vault |-> IF ui.vault = 0 THEN g ELSE ui.vault]

\* Mutant of Applied: the vault is forgotten.
AppliedNoVault(g) == [auth |-> TRUE, tok |-> g]

\* apply.
Applied(g) == [auth |-> TRUE, tok |-> g, vault |-> g]

\* login and native_login: one device session, with new tokens.  Only an old
\* refresh, which is none of its business, can end during the call.  A login
\* that fails leaves the client as it was.
Login ==
    /\ ~ui.auth /\ sgen < MaxSignIns /\ gen < MaxGen
    /\ sgen' = sgen + 1 /\ ui' = Applied(gen + 1)
    /\ gen' = gen + 1 /\ session' = "fresh" /\ msgs' = {} /\ unheard' = FALSE
    /\ UNCHANGED <<lease, issued, agent, socket, refresh, launch, running, browser, locked>>

SignOut ==
    /\ ui.auth /\ sgen < MaxSignIns
    /\ sgen' = sgen + 1 /\ ui' = SignedOut
    /\ CloseStore
    /\ Send(0, ui.tok)
    /\ UNCHANGED <<planeVars, socket, refresh, launch, unheard>>

-----------------------------------------------------------------------------
(* refreshAccessTokenIfNeeded: by the timer, for a listing that was refused, *)
(* or for a launch that was.                                                 *)

RefreshStarts ==
    /\ refresh = Idle /\ ui.auth
    /\ refresh' = [Idle EXCEPT !.at = "asked", !.arg = ui.vault, !.sgen = sgen]
RefreshBegin ==
    /\ RefreshStarts
    /\ UNCHANGED <<agentVars, ui, sgen, launch, running, browser, locked, unheard>>

\* native_refresh: rotates the present token, and takes another for a replay.
RefreshServed ==
    /\ refresh.at = "asked"
    /\ \/ /\ session # "over" /\ refresh.arg = gen /\ gen < MaxGen
          /\ gen' = gen + 1 /\ session' = "fresh" /\ msgs' = {}
          /\ \/ refresh' = [refresh EXCEPT !.at = "answered", !.ans = gen + 1] /\ UNCHANGED unheard
             \/ /\ "lose" \in Faults /\ unheard' = TRUE
                /\ refresh' = [refresh EXCEPT !.at = "answered", !.ans = Lost]
       \/ /\ session = "over" \/ refresh.arg # gen
          /\ session' = "over" /\ msgs' = {}
          /\ refresh' = [refresh EXCEPT !.at = "answered", !.ans = Refused]
          /\ UNCHANGED <<gen, unheard>>
       \/ /\ "lose" \in Faults
          /\ refresh' = [refresh EXCEPT !.at = "answered", !.ans = Lost]
          /\ UNCHANGED <<gen, session, msgs, unheard>>
    /\ UNCHANGED <<lease, issued, agent, socket, ui, sgen, launch, running, browser, locked>>

\* A launch that waited for the refresh goes on with the present token, or ends.
Resumed(ok) ==
    [k \in Launches |->
        IF launch[k].at # "refreshing" THEN launch[k]
        ELSE IF ok THEN [NoLaunch EXCEPT !.at = "preflight", !.again = TRUE, !.tok = ui'.tok]
        ELSE NoLaunch]

RefreshEnd ==
    LET mine == refresh.sgen = sgen /\ ui.auth
    IN  /\ refresh.at = "answered"
        /\ \/ /\ mine /\ refresh.ans \in Gens
              /\ ui' = Applied(refresh.ans)
              /\ IF running = None
                 THEN refresh' = Idle /\ launch' = Resumed(TRUE)
                 ELSE /\ refresh' = [refresh EXCEPT !.at = "update", !.agent = running]
                      /\ UNCHANGED launch
              /\ UNCHANGED <<agent, browser, locked, running>>
           \/ /\ mine /\ refresh.ans = Refused
              /\ ui' = SignedOut /\ refresh' = Idle /\ launch' = Resumed(FALSE)
              /\ CloseStore
           \/ /\ ~mine \/ refresh.ans = Lost
              /\ refresh' = Idle /\ launch' = Resumed(FALSE)
              /\ UNCHANGED <<ui, agent, browser, locked, running>>
        /\ UNCHANGED <<planeVars, socket, msgs, sgen, unheard>>

\* updateAccessTokenForRunningAgents: the agent that was running when the
\* update began takes the token and says so; or it does not answer in time,
\* and the store is closed.
UpdateAgent ==
    LET a == refresh.agent
        up == agent[a].pc \in Up
    IN  /\ refresh.at = "update" /\ refresh' = Idle
        /\ UNCHANGED ui /\ launch' = Resumed(ui.auth)
        /\ \/ /\ up /\ Set(a, Updated(agent[a], refresh.ans))
              /\ UNCHANGED <<browser, locked, running>>
           \/ CloseStore
        /\ UNCHANGED <<planeVars, socket, msgs, sgen, unheard>>

-----------------------------------------------------------------------------
(* launch.                                                                   *)

\* The button is off while the store runs or its launch has got past the
\* preflight.
LaunchBegin(k) ==
    /\ ui.auth /\ running = None
    /\ launch[k] = NoLaunch
    /\ \A j \in Launches : launch[j].at # "ready"
    /\ launch' = [launch EXCEPT ![k] = [NoLaunch EXCEPT !.at = "preflight", !.tok = ui.tok]]
    /\ UNCHANGED <<agentVars, ui, sgen, refresh, running, browser, locked, unheard>>

\* Mutant of LockTaken: the file is created whether or not it exists.
LockTakenAnyway == TRUE

\* open(O_CREAT | O_EXCL).
LockTaken == ~locked

FreeAgents == {a \in Agents : /\ At(a, "gone") /\ ~browser[a] /\ running # a
                              /\ refresh.agent # a /\ \A k \in Launches : launch[k].agent # a}

\* StoreProcessManager.launch up to its first await, with the lease l, which a
\* launch that fails gives up.
Spawn(k, l) ==
    LET tok == launch[k].tok
        ends == launch' = [launch EXCEPT ![k] = NoLaunch]
    IN  \/ running # None /\ ends /\ UNCHANGED <<agent, msgs, locked>>
        \/ /\ running = None /\ LockTaken /\ locked' = TRUE /\ UNCHANGED msgs
           /\ \E a \in FreeAgents :
                 /\ Set(a, [Gone EXCEPT !.pc = "connect", !.tok = tok])
                 /\ launch' = [launch EXCEPT ![k] = [NoLaunch EXCEPT !.at = "ready", !.tok = tok,
                                                                    !.lease = l, !.agent = a]]
        \/ /\ running = None /\ (locked \/ "prepare" \in Faults)
           /\ ends /\ Send(l, tok) /\ UNCHANGED <<agent, locked>>

\* launch: native_store_preflight, and what its answer leads to.  A rejection
\* makes the launch refresh the token, if no refresh is under way, and try once
\* more.
Preflight(k) ==
    LET r == launch[k]
        ends == launch' = [launch EXCEPT ![k] = NoLaunch]
    IN  /\ r.at = "preflight"
        /\ \/ /\ Accepted(r.tok) /\ UNCHANGED refresh
              /\ \E l \in LeaseIds \ {0} :
                    /\ Grant(l)
                    /\ \/ Spawn(k, l)
                       \/ "lose" \in Faults /\ ends /\ UNCHANGED <<agent, msgs, locked>>
           \/ /\ ~Accepted(r.tok) /\ UNCHANGED <<lease, issued, agent, msgs, locked>>
              /\ \/ /\ ~r.again /\ RefreshStarts
                    /\ launch' = [launch EXCEPT ![k] = [NoLaunch EXCEPT !.at = "refreshing"]]
                 \/ (r.again \/ refresh # Idle \/ ~ui.auth) /\ ends /\ UNCHANGED refresh
           \/ "lose" \in Faults /\ ends /\ UNCHANGED <<lease, issued, refresh, agent, msgs, locked>>
        /\ UNCHANGED <<gen, session, socket, ui, sgen, running, browser, unheard>>

\* The agent answers its control socket, the exit address is the expected one
\* and the browser starts; or one of them fails or takes too long.
LaunchReady(k) ==
    LET a == launch[k].agent
    IN  /\ launch[k].at = "ready" /\ launch' = [launch EXCEPT ![k] = NoLaunch]
        /\ \/ /\ agent[a].pc \in Up
              /\ running' = a /\ browser' = [browser EXCEPT ![a] = TRUE]
              /\ UNCHANGED <<agent, msgs, locked>>
           \/ /\ agent' = Told(a) /\ locked' = FALSE /\ Send(launch[k].lease, launch[k].tok)
              /\ UNCHANGED <<running, browser>>
        /\ UNCHANGED <<planeVars, socket, ui, sgen, refresh, unheard>>

-----------------------------------------------------------------------------
ClientStep ==
    \/ Close \/ ExitNoticed \/ Login \/ SignOut
    \/ RefreshBegin \/ RefreshServed \/ RefreshEnd \/ UpdateAgent
    \/ BrowserExits
    \/ \E k \in Launches : \/ LaunchBegin(k) \/ Preflight(k) \/ LaunchReady(k)

Next == ClientStep \/ ((PlaneStep \/ AgentStep) /\ UNCHANGED clientVars)

Spec == Init /\ [][Next]_vars

\* Timers fire, calls return or time out, processes that were told to end do,
\* and an access token expires after its 15 minutes.
FairSpec ==
    /\ Spec
    /\ WF_vars(TokenExpires /\ UNCHANGED clientVars) /\ WF_vars(ExitNoticed)
    /\ \A a \in Agents : WF_vars((Beat(a) \/ BeatServed(a) \/ Judge(a) \/ SendDisconnect(a))
                                   /\ UNCHANGED clientVars)

-----------------------------------------------------------------------------
(* What the client and its agents promise.                                   *)

(* Fail closed: a browser whose lease has ended, or whose user has signed    *)
(* out, is closed, although an ended lease is noticed only by a heartbeat,   *)
(* a sign-out does not reach a launch under way, and its logout may get lost.*)
CutOff == \E a \in Agents : browser[a] /\ (agent[a].lease # lease \/ ~ui.auth)
CutOffCloses == CutOff ~> ~CutOff

(* A token that is replaced while a heartbeat is on its way costs no agent   *)
(* its store: an agent that nobody told to stop gives up over a rejection    *)
(* only when the token in its hands is dead, unless two updates overtook the *)
(* same heartbeat.                                                           *)
StopsOnlyIfTokenDead ==
    [][\A a \in Agents : agent[a].pc = "rejected" /\ ~agent[a].told /\ agent'[a].pc = "stopping"
          => ~Accepted(agent[a].tok) \/ agent[a].ups = 2]_vars

(* The profile of a store never has two browsers that were not told to end,  *)
(* however many launches were started.                                       *)
OneBrowser == \A a, b \in Agents : browser[a] /\ browser[b] => a = b

(* The server revokes the session for a replayed refresh token only if the   *)
(* client could not have known better: the answer that carried the next one  *)
(* was lost, or a later sign-in overtook the request.                        *)
ReplayOnlyAfterLoss ==
    [][session # "over" /\ session' = "over" /\ refresh.at = "asked" /\ refresh'.at = "answered"
          => unheard \/ refresh.sgen # sgen]_vars
=============================================================================
