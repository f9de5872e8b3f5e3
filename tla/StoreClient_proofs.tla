------------------------- MODULE StoreClient_proofs -------------------------
(***************************************************************************)
(* StoreClient for any number of agents, launches, generations, leases,    *)
(* sign-ins and faults.                                                    *)
(***************************************************************************)
EXTENDS StoreClient, TLAPS

PlaneOK ==
    /\ gen \in Gens /\ session \in {"over", "fresh", "stale"}
    /\ lease \in LeaseIds /\ issued \in LeaseIds
    /\ socket \in BOOLEAN /\ msgs \subseteq LeaseIds

(* An agent when the session is s and its generation g.  Its tokens are not  *)
(* from the future, so that one that was refused is refused for good.  A     *)
(* heartbeat carries the token in the agent's hands unless that was updated  *)
(* meanwhile; one that is repeated carries the first update.                 *)
RowOK(r, s, g) ==
    /\ r \in AgentRows /\ r.tok <= g /\ r.sent <= g
    /\ r.pc \in {"connect", "serving"} => r.ups = 0 /\ ~r.again
    /\ r.pc \in {"beat", "rejected"} =>
          /\ r.ups = 0 => ~r.again /\ r.sent = r.tok
          /\ r.ups = 1 /\ r.again => r.sent = r.tok
    /\ r.pc = "rejected" => ~(s = "fresh" /\ r.sent = g)
AgentsOK ==
    /\ agent \in [Agents -> AgentRows]
    /\ \A a \in Agents : RowOK(agent[a], session, gen)

(* The lock is held by the store that runs or by the one launch that got     *)
(* past its preflight, and only the store that runs has a browser.           *)
Ready(k) == launch[k].at = "ready"
Solo ==
    /\ \A a \in Agents : browser[a] => running = a
    /\ locked <=> running # None \/ \E k \in Launches : Ready(k)
    /\ running # None => \A k \in Launches : ~Ready(k)
    /\ \A j, k \in Launches : Ready(j) /\ Ready(k) => j = k
LaunchOK ==
    /\ launch \in [Launches -> LaunchRows]
    /\ running \in Agents \cup {None} /\ browser \in [Agents -> BOOLEAN] /\ locked \in BOOLEAN
    /\ Solo
    /\ \A k \in Launches : launch[k].tok <= gen /\ (Ready(k) => launch[k].agent \in Agents)

(* The refresh token in the vault is the present one, or its successor has   *)
(* been answered and is about to be stored; a refresh of this sign-in        *)
(* presents the present token, and one of an earlier sign-in an old one.     *)
Mine == refresh.sgen = sgen
Known == ~unheard /\ session # "over"
VaultCurrent ==
    /\ refresh.at = "answered" /\ refresh.ans \in Gens /\ Mine => refresh.ans = gen
    /\ Known /\ refresh.at = "asked" /\ Mine => refresh.arg = gen
    /\ refresh.at = "asked" /\ ~Mine /\ ui.auth => refresh.arg < gen
    /\ Known /\ ui.auth =>
          ui.vault = gen \/ (refresh.at = "answered" /\ refresh.ans \in Gens /\ Mine)
RefreshOK ==
    /\ ui \in [auth : BOOLEAN, tok : Gens, vault : Gens] /\ sgen \in 0..MaxSignIns
    /\ refresh \in Calls /\ unheard \in BOOLEAN
    /\ ui.tok <= gen /\ ui.vault <= gen /\ refresh.arg <= gen /\ refresh.ans <= gen
    /\ refresh.sgen <= sgen
    /\ refresh.at = "update" => refresh.agent \in Agents /\ refresh.ans \in Gens
    /\ VaultCurrent

ClientInv == PlaneOK /\ AgentsOK /\ LaunchOK /\ RefreshOK

LEMMA InvTypes == ClientInv => TypeOK
  BY DEF ClientInv, PlaneOK, AgentsOK, LaunchOK, RefreshOK, TypeOK, AgentTypeOK

-----------------------------------------------------------------------------
(* What the two action properties say of a step.                             *)
StopStep ==
    \A a \in Agents : agent[a].pc = "rejected" /\ ~agent[a].told /\ agent'[a].pc = "stopping"
                         => ~Accepted(agent[a].tok) \/ agent[a].ups = 2
ReplayStep ==
    session # "over" /\ session' = "over" /\ refresh.at = "asked" /\ refresh'.at = "answered"
       => unheard \/ refresh.sgen # sgen

Kept == PlaneOK' /\ AgentsOK' /\ LaunchOK' /\ RefreshOK' /\ StopStep /\ ReplayStep

-----------------------------------------------------------------------------
(* Agents: a token that was refused stays refused, so a row that is sound    *)
(* stays sound whatever the plane does.                                      *)
GenMove == \/ gen' = gen /\ (session' = session \/ session' # "fresh")
           \/ gen' = gen + 1

LEMMA GenBounds == Gens \subseteq Nat /\ \A g \in Gens : g \in Nat /\ g \in Int
  BY AgentConstants DEF AgentConstants, Gens

LEMMA RowKept ==
    ASSUME NEW r, NEW s, NEW g \in Gens, NEW t, NEW h \in Gens, RowOK(r, s, g),
           \/ h = g /\ (t = s \/ t # "fresh")
           \/ h = g + 1
    PROVE  RowOK(r, t, h)
  <1>1. r.tok \in Nat /\ r.sent \in Nat /\ g \in Nat /\ h \in Nat
    BY GenBounds DEF RowOK, AgentRows
  <1> QED
    BY <1>1 DEF RowOK

LEMMA AgentsSet ==
    ASSUME ClientInv, PlaneOK', GenMove, NEW a \in Agents, NEW row, RowOK(row, session', gen'),
           agent' = agent \/ agent' = [agent EXCEPT ![a] = row]
    PROVE  AgentsOK'
  <1>1. agent \in [Agents -> AgentRows] /\ row \in AgentRows /\ gen \in Gens /\ gen' \in Gens
    BY DEF ClientInv, AgentsOK, PlaneOK, RowOK
  <1>2. agent' \in [Agents -> AgentRows] /\ \A b \in Agents : agent'[b] = agent[b] \/ agent'[b] = row
    BY <1>1
  <1>3. ASSUME NEW b \in Agents PROVE RowOK(agent[b], session', gen')
    <2>1. RowOK(agent[b], session, gen)
      BY DEF ClientInv, AgentsOK
    <2> QED
      BY <1>1, <2>1, RowKept DEF GenMove
  <1> QED
    BY <1>2, <1>3 DEF AgentsOK

LEMMA AgentsSame ==
    ASSUME ClientInv, PlaneOK', GenMove, agent' = agent
    PROVE  AgentsOK' /\ StopStep
  <1>1. agent \in [Agents -> AgentRows] /\ gen \in Gens /\ gen' \in Gens
    BY DEF ClientInv, AgentsOK, PlaneOK
  <1>2. ASSUME NEW b \in Agents PROVE RowOK(agent[b], session', gen')
    <2>1. RowOK(agent[b], session, gen)
      BY DEF ClientInv, AgentsOK
    <2> QED
      BY <1>1, <2>1, RowKept DEF GenMove
  <1> QED
    BY <1>1, <1>2 DEF AgentsOK, StopStep

(* The client's state when only the plane and the agents move.               *)
LEMMA ClientSame ==
    ASSUME ClientInv, UNCHANGED clientVars, gen' = gen, session' # "over" => session # "over"
    PROVE  LaunchOK' /\ RefreshOK' /\ ReplayStep
  <1>1. LaunchOK'
    BY DEF ClientInv, LaunchOK, Solo, Ready, clientVars
  <1>2. RefreshOK'
    BY DEF ClientInv, RefreshOK, VaultCurrent, Known, Mine, clientVars
  <1>3. ReplayStep
    BY DEF ReplayStep, clientVars
  <1> QED
    BY <1>1, <1>2, <1>3

LEMMA PlaneKeeps ==
    ASSUME ClientInv, PlaneStep, UNCHANGED clientVars
    PROVE  Kept
  <1>1. gen' = gen /\ agent' = agent /\ GenMove /\ (session' # "over" => session # "over")
    BY DEF PlaneStep, LeaseEnds, TokenExpires, SessionRevoked, Deliver, GenMove
  <1>2. PlaneOK'
    <2>1. 0 \in LeaseIds
      BY AgentConstants DEF AgentConstants, LeaseIds
    <2> QED
      BY <2>1 DEF ClientInv, PlaneOK, PlaneStep, LeaseEnds, TokenExpires, SessionRevoked, Deliver
  <1> QED
    BY <1>1, <1>2, AgentsSame, ClientSame DEF Kept


-----------------------------------------------------------------------------
(* The steps of an agent.                                                    *)
LEMMA AgentMoves ==
    ASSUME ClientInv, UNCHANGED clientVars, gen' = gen, session' = session, PlaneOK',
           NEW a \in Agents, NEW row, agent' = [agent EXCEPT ![a] = row], RowOK(row, session, gen),
           agent[a].pc = "rejected" /\ ~agent[a].told /\ row.pc = "stopping"
              => ~Accepted(agent[a].tok) \/ agent[a].ups = 2
    PROVE  Kept
  <1>1. AgentsOK'
    BY AgentsSet DEF GenMove
  <1>2. StopStep
    <2>1. agent'[a] = row /\ \A b \in Agents : b # a => agent'[b] = agent[b]
      BY DEF ClientInv, AgentsOK
    <2> QED
      BY <2>1 DEF StopStep
  <1> QED
    BY <1>1, <1>2, ClientSame DEF Kept

LEMMA AgentRow ==
    ASSUME ClientInv, NEW a \in Agents
    PROVE  /\ agent[a] \in AgentRows /\ RowOK(agent[a], session, gen) /\ gen \in Nat
           /\ agent[a].tok \in Gens /\ agent[a].sent \in Gens /\ agent[a].lease \in LeaseIds
           /\ agent[a].ups \in 0..2 /\ agent[a].again \in BOOLEAN /\ agent[a].told \in BOOLEAN
           /\ agent[a].tok \in Nat /\ agent[a].sent \in Nat /\ agent[a].tok <= gen
  BY GenBounds DEF ClientInv, AgentsOK, PlaneOK, AgentRows, RowOK

LEMMA GoneRow ==
    ASSUME ClientInv
    PROVE  /\ RowOK(Gone, session, gen) /\ Gone.pc = "gone"
           /\ \A t \in Gens : t <= gen =>
                 RowOK([Gone EXCEPT !.pc = "connect", !.tok = t], session, gen)
  <1>1. 0 \in Gens /\ 0 \in LeaseIds /\ gen \in Nat /\ 0 <= gen /\ 0 \in 0..2
    BY GenBounds, AgentConstants DEF AgentConstants, Gens, LeaseIds, ClientInv, PlaneOK
  <1>2. Gone \in AgentRows /\ Gone.pc = "gone" /\ Gone.tok = 0 /\ Gone.sent = 0
    BY <1>1 DEF Gone, AgentRows, AgentPlaces
  <1>3. ASSUME NEW t \in Gens
        PROVE  LET r == [Gone EXCEPT !.pc = "connect", !.tok = t]
               IN  /\ r \in AgentRows /\ r.pc = "connect" /\ r.tok = t /\ r.sent = 0
                   /\ r.ups = 0 /\ r.again = FALSE
    BY <1>1 DEF Gone, AgentRows, AgentPlaces
  <1> QED
    BY <1>1, <1>2, <1>3 DEF RowOK

(* A row that ends a heartbeat, or stops.                                    *)
LEMMA QuietRow ==
    ASSUME ClientInv, NEW a \in Agents, NEW pc \in {"serving", "stopping"}
    PROVE  /\ RowOK(Quiet(agent[a], pc), session, gen) /\ Quiet(agent[a], pc).pc = pc
  <1>1. 0 \in Gens /\ 0 <= gen /\ 0 \in 0..2
    BY GenBounds, AgentConstants DEF AgentConstants, Gens, ClientInv, PlaneOK
  <1>2. LET r == Quiet(agent[a], pc)
        IN  /\ r \in AgentRows /\ r.pc = pc /\ r.tok = agent[a].tok /\ r.sent = 0
            /\ r.ups = 0 /\ r.again = FALSE
    BY <1>1, AgentRow DEF Quiet, AgentRows, AgentPlaces, Up
  <1> QED
    BY <1>1, <1>2, AgentRow DEF RowOK

LEMMA GrantPlane ==
    ASSUME ClientInv, NEW l \in LeaseIds, Grant(l)
    PROVE  lease' \in LeaseIds /\ issued' \in LeaseIds
  BY DEF ClientInv, PlaneOK, Grant

LEMMA ConnectKeeps ==
    ASSUME ClientInv, NEW a \in Agents, Connect(a), UNCHANGED clientVars
    PROVE  Kept
  <1> DEFINE r == agent[a]
  <1>1. /\ r.pc = "connect" /\ gen' = gen /\ session' = session /\ msgs' = msgs
        /\ \/ \E l \in LeaseIds : /\ Grant(l)
                                  /\ \/ Set(a, [r EXCEPT !.pc = "serving", !.lease = l]) /\ socket' = TRUE
                                     \/ Set(a, [r EXCEPT !.pc = "stopping", !.lease = l]) /\ socket' = socket
                                     \/ Set(a, Gone) /\ socket' = socket
           \/ Set(a, Gone) /\ UNCHANGED <<lease, issued, socket>>
    BY DEF Connect, At
  <1>2. PlaneOK'
    BY <1>1, GrantPlane DEF ClientInv, PlaneOK
  <1>3. CASE Set(a, Gone)
    BY <1>1, <1>2, <1>3, GoneRow, AgentMoves DEF Set
  <1>4. CASE \E l \in LeaseIds, pc \in {"serving", "stopping"} : Set(a, [r EXCEPT !.pc = pc, !.lease = l])
    <2>1. PICK l \in LeaseIds, pc \in {"serving", "stopping"} : Set(a, [r EXCEPT !.pc = pc, !.lease = l])
      BY <1>4
    <2> DEFINE row == [r EXCEPT !.pc = pc, !.lease = l]
    <2>2. /\ row \in AgentRows /\ row.pc = pc /\ row.tok = r.tok /\ row.sent = r.sent
          /\ row.ups = r.ups /\ row.again = r.again
      BY AgentRow DEF AgentRows, AgentPlaces, Up
    <2>3. RowOK(row, session, gen)
      <3> HIDE DEF row
      <3> QED
        BY <1>1, <2>2, AgentRow DEF RowOK
    <2> QED
      BY <1>1, <1>2, <2>1, <2>3, AgentMoves DEF Set
  <1> QED
    BY <1>1, <1>3, <1>4

LEMMA BeatKeeps ==
    ASSUME ClientInv, NEW a \in Agents, Beat(a), UNCHANGED clientVars
    PROVE  Kept
  <1> DEFINE r == agent[a]
             row == [r EXCEPT !.pc = "beat", !.sent = r.tok]
  <1>1. r.pc = "serving" /\ agent' = [agent EXCEPT ![a] = row] /\ UNCHANGED <<planeVars, socket, msgs>>
    BY DEF Beat, At, Set
  <1>2. PlaneOK' /\ gen' = gen /\ session' = session
    BY <1>1 DEF ClientInv, PlaneOK, planeVars
  <1>3. /\ row \in AgentRows /\ row.pc = "beat" /\ row.tok = r.tok /\ row.sent = r.tok
        /\ row.ups = r.ups /\ row.again = r.again
    BY AgentRow DEF AgentRows, AgentPlaces, Up
  <1> HIDE DEF row
  <1>4. RowOK(row, session, gen)
    BY <1>1, <1>3, AgentRow DEF RowOK
  <1> QED
    BY <1>1, <1>2, <1>4, AgentMoves

LEMMA BeatServedKeeps ==
    ASSUME ClientInv, NEW a \in Agents, BeatServed(a), UNCHANGED clientVars
    PROVE  Kept
  <1> DEFINE r == agent[a]
             row == [r EXCEPT !.pc = "rejected"]
  <1>1. /\ r.pc = "beat" /\ UNCHANGED <<planeVars, msgs>> /\ socket' \in {socket, FALSE}
        /\ \/ \E pc \in {"serving", "stopping"} : agent' = [agent EXCEPT ![a] = Quiet(r, pc)]
           \/ ~Accepted(r.sent) /\ agent' = [agent EXCEPT ![a] = row]
    BY DEF BeatServed, At, Set, Shutdown
  <1>2. PlaneOK' /\ gen' = gen /\ session' = session
    BY <1>1 DEF ClientInv, PlaneOK, planeVars
  <1>3. CASE \E pc \in {"serving", "stopping"} : agent' = [agent EXCEPT ![a] = Quiet(r, pc)]
    BY <1>1, <1>2, <1>3, QuietRow, AgentMoves
  <1>4. CASE ~Accepted(r.sent) /\ agent' = [agent EXCEPT ![a] = row]
    <2>1. /\ row \in AgentRows /\ row.pc = "rejected" /\ row.tok = r.tok /\ row.sent = r.sent
          /\ row.ups = r.ups /\ row.again = r.again
      BY AgentRow DEF AgentRows, AgentPlaces, Up
    <2> HIDE DEF row
    <2>2. RowOK(row, session, gen)
      BY <1>1, <1>4, <2>1, AgentRow DEF RowOK, Accepted
    <2> QED
      BY <1>1, <1>2, <1>4, <2>2, AgentMoves
  <1> QED
    BY <1>1, <1>3, <1>4

LEMMA JudgeKeeps ==
    ASSUME ClientInv, NEW a \in Agents, Judge(a), UNCHANGED clientVars
    PROVE  Kept
  <1> DEFINE r == agent[a]
             row == [r EXCEPT !.pc = "beat", !.sent = r.tok, !.again = TRUE]
  <1>1. /\ r.pc = "rejected" /\ UNCHANGED <<planeVars, msgs>> /\ socket' \in {socket, FALSE}
        /\ \/ Repeats(r) /\ agent' = [agent EXCEPT ![a] = row]
           \/ ~Repeats(r) /\ agent' = [agent EXCEPT ![a] = Quiet(r, "stopping")]
    BY DEF Judge, At, Set, Shutdown
  <1>2. PlaneOK' /\ gen' = gen /\ session' = session
    BY <1>1 DEF ClientInv, PlaneOK, planeVars
  <1>3. CASE Repeats(r) /\ agent' = [agent EXCEPT ![a] = row]
    <2>1. /\ row \in AgentRows /\ row.pc = "beat" /\ row.tok = r.tok /\ row.sent = r.tok
          /\ row.ups = r.ups /\ row.again = TRUE
      BY AgentRow DEF AgentRows, AgentPlaces, Up
    <2> HIDE DEF row
    <2>2. RowOK(row, session, gen)
      BY <1>3, <2>1, AgentRow DEF RowOK, Repeats
    <2> QED
      BY <1>1, <1>2, <1>3, <2>1, <2>2, AgentMoves
  <1>4. CASE ~Repeats(r) /\ agent' = [agent EXCEPT ![a] = Quiet(r, "stopping")]
    <2>1. ~Accepted(r.tok) \/ r.ups = 2
      BY <1>1, <1>4, AgentRow DEF RowOK, Repeats, Accepted
    <2> QED
      BY <1>1, <1>2, <1>4, <2>1, QuietRow, AgentMoves
  <1> QED
    BY <1>1, <1>3, <1>4

LEMMA EndKeeps ==
    ASSUME ClientInv, NEW a \in Agents, Obey(a) \/ SendDisconnect(a) \/ Killed(a), UNCHANGED clientVars
    PROVE  Kept
  <1>1. /\ UNCHANGED planeVars /\ socket' \in {socket, FALSE} /\ msgs' \in {msgs, msgs \cup {agent[a].lease}}
        /\ \/ agent[a].told /\ agent' = [agent EXCEPT ![a] = Quiet(agent[a], "stopping")]
           \/ agent' = [agent EXCEPT ![a] = Gone]
    BY DEF Obey, SendDisconnect, Killed, Set, Shutdown, Send
  <1>2. PlaneOK' /\ gen' = gen /\ session' = session
    BY <1>1, AgentRow DEF ClientInv, PlaneOK, planeVars
  <1>3. CASE agent[a].told /\ agent' = [agent EXCEPT ![a] = Quiet(agent[a], "stopping")]
    BY <1>2, <1>3, QuietRow, AgentMoves
  <1>4. CASE agent' = [agent EXCEPT ![a] = Gone]
    BY <1>2, <1>4, GoneRow, AgentMoves
  <1> QED
    BY <1>1, <1>3, <1>4

LEMMA AgentKeeps ==
    ASSUME ClientInv, AgentStep, UNCHANGED clientVars
    PROVE  Kept
  BY ConnectKeeps, BeatKeeps, BeatServedKeeps, JudgeKeeps, EndKeeps DEF AgentStep


-----------------------------------------------------------------------------
(* Closing a store, and the launches beside it.                              *)
LEMMA ToldAgents ==
    ASSUME ClientInv, NEW a \in Agents, agent' = Told(a), gen' = gen, session' = session, PlaneOK'
    PROVE  AgentsOK' /\ StopStep
  <1> DEFINE row == [agent[a] EXCEPT !.told = TRUE]
  <1>1. /\ row \in AgentRows /\ row.pc = agent[a].pc /\ row.tok = agent[a].tok /\ row.sent = agent[a].sent
        /\ row.ups = agent[a].ups /\ row.again = agent[a].again
    BY AgentRow DEF AgentRows
  <1>2. agent' = agent \/ agent' = [agent EXCEPT ![a] = row]
    BY DEF Told
  <1> HIDE DEF row
  <1>3. RowOK(row, session, gen)
    BY <1>1, AgentRow DEF RowOK
  <1>4. AgentsOK'
    BY <1>2, <1>3, AgentsSet DEF GenMove
  <1>5. \A b \in Agents : agent'[b].pc = agent[b].pc
    BY <1>1, <1>2 DEF ClientInv, AgentsOK
  <1>6. StopStep
    BY <1>5 DEF StopStep
  <1> QED
    BY <1>4, <1>6

LEMMA CloseAgents ==
    ASSUME ClientInv, CloseStore, gen' = gen, session' = session, PlaneOK'
    PROVE  AgentsOK' /\ StopStep
  <1>1. CASE running = None
    BY <1>1, AgentsSame DEF CloseStore, GenMove
  <1>2. CASE running # None
    BY <1>2, ToldAgents DEF CloseStore, ClientInv, LaunchOK
  <1> QED
    BY <1>1, <1>2

(* No launch gets past its preflight or ends there.                          *)
SameReady ==
    /\ launch' \in [Launches -> LaunchRows]
    /\ \A k \in Launches : /\ launch'[k].at = "ready" <=> launch[k].at = "ready"
                           /\ launch[k].at = "ready" => launch'[k] = launch[k]
                           /\ launch'[k].tok <= gen'

LEMMA LaunchSame ==
    ASSUME ClientInv, SameReady, CloseStore \/ UNCHANGED <<running, browser, locked>>
    PROVE  LaunchOK'
  <1>1. LaunchOK /\ Solo
    BY DEF ClientInv, LaunchOK
  <1>2. CASE UNCHANGED <<running, browser, locked>>
    <2>1. Solo'
      BY <1>1, <1>2 DEF SameReady, Solo, Ready
    <2> QED
      BY <1>1, <1>2, <2>1 DEF SameReady, LaunchOK, Ready
  <1>3. CASE running # None /\ CloseStore
    <2>1. /\ running' = None /\ locked' = FALSE /\ browser' = [browser EXCEPT ![running] = FALSE]
          /\ running \in Agents
      BY <1>1, <1>3 DEF CloseStore, LaunchOK
    <2>2. browser' \in [Agents -> BOOLEAN] /\ \A a \in Agents : ~browser'[a]
      BY <1>1, <2>1 DEF LaunchOK, Solo
    <2>3. \A k \in Launches : launch'[k].at # "ready"
      BY <1>1, <1>3 DEF SameReady, Solo, Ready
    <2>4. Solo'
      BY <2>1, <2>2, <2>3 DEF Solo, Ready
    <2> QED
      BY <2>1, <2>2, <2>3, <2>4 DEF SameReady, LaunchOK, Ready
  <1> QED
    BY <1>2, <1>3 DEF CloseStore

LEMMA StillReady ==
    ASSUME ClientInv, gen' \in Gens, gen <= gen', launch' = launch
    PROVE  SameReady
  <1>1. \A k \in Launches : launch[k].tok \in Nat /\ launch[k].tok <= gen
    BY GenBounds DEF ClientInv, LaunchOK, LaunchRows
  <1>2. gen \in Nat /\ gen' \in Nat
    BY GenBounds DEF ClientInv, PlaneOK
  <1> QED
    BY <1>1, <1>2 DEF ClientInv, LaunchOK, SameReady

LEMMA RefreshSame ==
    ASSUME ClientInv, UNCHANGED <<ui, sgen, refresh, unheard>>, gen' = gen, session' = session
    PROVE  RefreshOK' /\ ReplayStep
  BY DEF ClientInv, RefreshOK, VaultCurrent, Known, Mine, ReplayStep

LEMMA CloseKeeps ==
    ASSUME ClientInv, Close \/ ExitNoticed
    PROVE  Kept
  <1>1. CloseStore /\ UNCHANGED <<planeVars, socket, msgs, ui, sgen, refresh, launch, unheard>>
    BY DEF Close, ExitNoticed
  <1>2. PlaneOK' /\ gen' = gen /\ session' = session /\ gen' \in Gens /\ gen <= gen'
    BY <1>1, GenBounds DEF ClientInv, PlaneOK, planeVars
  <1> QED
    BY <1>1, <1>2, CloseAgents, StillReady, LaunchSame, RefreshSame DEF Kept

LEMMA BrowserExitsKeeps ==
    ASSUME ClientInv, BrowserExits
    PROVE  Kept
  <1>1. /\ browser' = [browser EXCEPT ![running] = FALSE] /\ UNCHANGED agentVars
        /\ UNCHANGED <<ui, sgen, refresh, launch, running, locked, unheard>>
    BY DEF BrowserExits
  <1>2. PlaneOK' /\ gen' = gen /\ session' = session /\ agent' = agent
    BY <1>1 DEF ClientInv, PlaneOK, agentVars, planeVars
  <1>3. AgentsOK' /\ StopStep
    BY <1>2, AgentsSame DEF GenMove
  <1>4. browser' \in [Agents -> BOOLEAN] /\ \A a \in Agents : browser'[a] => browser[a]
    BY <1>1 DEF ClientInv, LaunchOK
  <1>5. LaunchOK'
    BY <1>1, <1>2, <1>4 DEF ClientInv, LaunchOK, Solo, Ready
  <1> QED
    BY <1>1, <1>2, <1>3, <1>5, RefreshSame DEF Kept

-----------------------------------------------------------------------------
(* Signing in and out.                                                       *)
LEMMA RefreshFields ==
    ASSUME ClientInv
    PROVE  /\ refresh.arg \in Gens /\ refresh.ans \in Answers /\ refresh.sgen \in 0..MaxSignIns
           /\ refresh.agent \in Agents \cup {None}
           /\ refresh.at \in {"idle", "asked", "answered", "update"}
           /\ refresh.arg \in Nat /\ refresh.ans \in Int /\ refresh.sgen \in Nat
           /\ refresh.arg <= gen /\ refresh.ans <= gen /\ refresh.sgen <= sgen
           /\ Lost \notin Gens /\ Refused \notin Gens /\ Lost \in Answers /\ Refused \in Answers
           /\ Lost \in Int /\ Refused \in Int /\ Lost < 0 /\ Refused < 0
  <1>1. refresh \in Calls /\ refresh.arg <= gen /\ refresh.ans <= gen /\ refresh.sgen <= sgen
    BY DEF ClientInv, RefreshOK
  <1>2. /\ refresh.arg \in Gens /\ refresh.ans \in Answers /\ refresh.sgen \in 0..MaxSignIns
        /\ refresh.agent \in Agents \cup {None}
        /\ refresh.at \in {"idle", "asked", "answered", "update"}
    BY <1>1 DEF Calls
  <1>3. refresh.ans \in Int
    <2>1. refresh.ans \in Gens \/ refresh.ans = -1 \/ refresh.ans = -2
      BY <1>2 DEF Answers
    <2>2. -1 \in Int /\ -2 \in Int
      OBVIOUS
    <2> QED
      BY <2>1, <2>2, GenBounds
  <1>4. refresh.arg \in Nat /\ refresh.sgen \in Nat
    <2>1. refresh.arg \in Nat
      BY <1>2, GenBounds
    <2> QED
      BY <1>2, <2>1, ClientConstants DEF ClientConstants
  <1>5. /\ Lost \notin Gens /\ Refused \notin Gens /\ Lost \in Answers /\ Refused \in Answers
        /\ Lost \in Int /\ Refused \in Int /\ Lost < 0 /\ Refused < 0
    BY DEF Lost, Refused, Gens, Answers
  <1> QED
    BY <1>1, <1>2, <1>3, <1>4, <1>5

LEMMA LoginKeeps ==
    ASSUME ClientInv, Login
    PROVE  Kept
  <1>1. /\ ~ui.auth /\ sgen < MaxSignIns /\ gen < MaxGen
        /\ sgen' = sgen + 1 /\ ui' = [auth |-> TRUE, tok |-> gen + 1, vault |-> gen + 1]
        /\ gen' = gen + 1 /\ session' = "fresh" /\ msgs' = {} /\ unheard' = FALSE
        /\ UNCHANGED <<lease, issued, agent, socket, refresh, launch, running, browser, locked>>
    BY DEF Login, Applied
  <1>2. gen \in Nat /\ gen' \in Gens /\ gen <= gen' /\ gen < gen' /\ MaxSignIns \in Nat /\ sgen \in Nat
    BY <1>1, GenBounds, AgentConstants, ClientConstants
       DEF AgentConstants, ClientConstants, Gens, ClientInv, PlaneOK, RefreshOK
  <1>3. PlaneOK'
    BY <1>1, <1>2 DEF ClientInv, PlaneOK
  <1>4. AgentsOK' /\ StopStep
    BY <1>1, <1>3, AgentsSame DEF GenMove
  <1>5. LaunchOK'
    BY <1>1, <1>2, StillReady, LaunchSame
  <1>6. /\ refresh.arg \in Nat /\ refresh.ans \in Int /\ refresh.sgen \in Nat
        /\ refresh.arg <= gen /\ refresh.ans <= gen /\ refresh.sgen <= sgen
    BY RefreshFields
  <1>7. RefreshOK'
    <2>1. ui' \in [auth : BOOLEAN, tok : Gens, vault : Gens] /\ ui'.tok = gen' /\ ui'.vault = gen' /\ ui'.auth
      BY <1>1, <1>2
    <2>2. sgen' \in 0..MaxSignIns /\ ~(refresh.sgen = sgen') /\ refresh.sgen <= sgen'
      BY <1>1, <1>2, <1>6 DEF ClientInv, RefreshOK
    <2>3. refresh.arg < gen' /\ refresh.arg <= gen' /\ refresh.ans <= gen'
      BY <1>1, <1>2, <1>6
    <2>4. VaultCurrent'
      BY <1>1, <2>1, <2>2, <2>3 DEF VaultCurrent, Mine, Known
    <2>5. gen' <= gen'
      BY <1>2, GenBounds
    <2> QED
      BY <1>1, <2>1, <2>2, <2>3, <2>4, <2>5 DEF ClientInv, RefreshOK
  <1>8. ReplayStep
    BY <1>1 DEF ReplayStep
  <1> QED
    BY <1>3, <1>4, <1>5, <1>7, <1>8 DEF Kept

LEMMA SignedOutRow ==
    SignedOut \in [auth : BOOLEAN, tok : Gens, vault : Gens] /\ ~SignedOut.auth
    /\ SignedOut.tok = 0 /\ SignedOut.vault = 0 /\ 0 \in Gens /\ 0 \in LeaseIds
  <1>1. 0 \in Gens /\ 0 \in LeaseIds
    BY AgentConstants DEF AgentConstants, Gens, LeaseIds
  <1> QED
    BY <1>1 DEF SignedOut

LEMMA SignOutKeeps ==
    ASSUME ClientInv, SignOut
    PROVE  Kept
  <1>1. /\ sgen < MaxSignIns /\ sgen' = sgen + 1 /\ ui' = SignedOut /\ CloseStore
        /\ msgs' \in {msgs, msgs \cup {0}}
        /\ UNCHANGED <<planeVars, socket, refresh, launch, unheard>>
    BY DEF SignOut, Send
  <1>2. PlaneOK' /\ gen' = gen /\ session' = session /\ gen' \in Gens /\ gen <= gen' /\ gen \in Nat
    BY <1>1, GenBounds, SignedOutRow DEF ClientInv, PlaneOK, planeVars
  <1>3. AgentsOK' /\ StopStep /\ LaunchOK'
    BY <1>1, <1>2, CloseAgents, StillReady, LaunchSame
  <1>4. MaxSignIns \in Nat /\ sgen \in Nat /\ refresh.sgen \in Nat /\ refresh.sgen <= sgen
    BY ClientConstants DEF ClientConstants, ClientInv, RefreshOK, Calls
  <1>5. RefreshOK'
    <2>1. sgen' \in 0..MaxSignIns /\ ~(refresh.sgen = sgen') /\ refresh.sgen <= sgen'
      BY <1>1, <1>4
    <2>2. VaultCurrent'
      BY <1>1, <2>1, SignedOutRow DEF VaultCurrent, Mine, Known
    <2> QED
      BY <1>1, <1>2, <2>1, <2>2, SignedOutRow DEF ClientInv, RefreshOK
  <1>6. ReplayStep
    BY <1>1 DEF ReplayStep
  <1> QED
    BY <1>2, <1>3, <1>5, <1>6 DEF Kept


-----------------------------------------------------------------------------
(* Refreshing the access token.                                              *)
LEMMA ClientRow ==
    ASSUME ClientInv
    PROVE  /\ ui.auth \in BOOLEAN /\ ui.tok \in Gens /\ ui.vault \in Gens /\ ui.tok <= gen /\ ui.vault <= gen
           /\ sgen \in 0..MaxSignIns /\ sgen \in Nat /\ gen \in Gens /\ gen \in Nat
           /\ ui \in [auth : BOOLEAN, tok : Gens, vault : Gens] /\ unheard \in BOOLEAN
  <1>1. ui \in [auth : BOOLEAN, tok : Gens, vault : Gens] /\ sgen \in 0..MaxSignIns /\ gen \in Gens
        /\ ui.tok <= gen /\ ui.vault <= gen /\ unheard \in BOOLEAN
    BY DEF ClientInv, RefreshOK, PlaneOK
  <1>2. sgen \in Nat
    BY <1>1, ClientConstants DEF ClientConstants
  <1>3. gen \in Nat
    BY <1>1, GenBounds
  <1> QED
    BY <1>1, <1>2, <1>3

LEMMA IdleCall ==
    /\ Idle \in Calls /\ Idle.at = "idle" /\ Idle.arg = 0 /\ Idle.ans = 0 /\ Idle.sgen = 0
    /\ \A v \in Gens, n \in 0..MaxSignIns :
          LET c == [Idle EXCEPT !.at = "asked", !.arg = v, !.sgen = n]
          IN  c \in Calls /\ c.at = "asked" /\ c.arg = v /\ c.ans = 0 /\ c.sgen = n
  <1>1. 0 \in Gens /\ 0 \in 0..MaxSignIns /\ 0 \in Answers
    BY SignedOutRow, ClientConstants DEF ClientConstants, Answers
  <1>2. Idle \in Calls /\ Idle.at = "idle" /\ Idle.arg = 0 /\ Idle.ans = 0 /\ Idle.sgen = 0
    BY <1>1 DEF Idle, Calls
  <1>3. ASSUME NEW v \in Gens, NEW n \in 0..MaxSignIns
        PROVE  LET c == [Idle EXCEPT !.at = "asked", !.arg = v, !.sgen = n]
               IN  c \in Calls /\ c.at = "asked" /\ c.arg = v /\ c.ans = 0 /\ c.sgen = n
    BY <1>1 DEF Idle, Calls
  <1> QED
    BY <1>2, <1>3

LEMMA RefreshEnds ==
    ASSUME ClientInv, refresh' = Idle, ui' \in [auth : BOOLEAN, tok : Gens, vault : Gens],
           ui'.tok <= gen, ui'.vault <= gen, gen' = gen, session' = session, sgen' = sgen,
           unheard' = unheard, Known /\ ui'.auth => ui'.vault = gen
    PROVE  RefreshOK' /\ ReplayStep
  <1>1. 0 <= gen /\ 0 <= sgen
    BY ClientRow
  <1>2. VaultCurrent'
    BY IdleCall DEF VaultCurrent, Known
  <1>3. Idle \in Calls /\ Idle.at = "idle" /\ Idle.arg = 0 /\ Idle.ans = 0 /\ Idle.sgen = 0
    BY IdleCall
  <1>4. RefreshOK'
    BY <1>1, <1>2, <1>3, ClientRow DEF RefreshOK
  <1> QED
    BY <1>4 DEF ReplayStep

LEMMA RefreshStart ==
    ASSUME ClientInv, RefreshStarts, UNCHANGED <<gen, session, ui, sgen, unheard>>
    PROVE  RefreshOK' /\ ReplayStep
  <1> DEFINE c == [Idle EXCEPT !.at = "asked", !.arg = ui.vault, !.sgen = sgen]
  <1>1. refresh' = c /\ refresh = Idle /\ ui.auth
    BY DEF RefreshStarts
  <1>2. c \in Calls /\ c.at = "asked" /\ c.arg = ui.vault /\ c.ans = 0 /\ c.sgen = sgen
    BY ClientRow, IdleCall
  <1> HIDE DEF c
  <1>3. Known => ui.vault = gen
    BY <1>1, IdleCall DEF ClientInv, RefreshOK, VaultCurrent
  <1>4. VaultCurrent'
    BY <1>1, <1>2, <1>3 DEF VaultCurrent, Known, Mine
  <1>5. 0 <= gen /\ sgen <= sgen
    BY ClientRow
  <1>6. RefreshOK'
    BY <1>1, <1>2, <1>4, <1>5, ClientRow DEF RefreshOK
  <1> QED
    BY <1>6 DEF ReplayStep

LEMMA RefreshBeginKeeps ==
    ASSUME ClientInv, RefreshBegin
    PROVE  Kept
  <1>1. RefreshStarts /\ UNCHANGED agentVars /\ UNCHANGED <<ui, sgen, launch, running, browser, locked, unheard>>
    BY DEF RefreshBegin
  <1>2. PlaneOK' /\ gen' = gen /\ session' = session /\ agent' = agent /\ gen' \in Gens /\ gen <= gen'
    BY <1>1, GenBounds DEF ClientInv, PlaneOK, agentVars, planeVars
  <1>3. AgentsOK' /\ StopStep
    BY <1>2, AgentsSame DEF GenMove
  <1> QED
    BY <1>1, <1>2, <1>3, StillReady, LaunchSame, RefreshStart DEF Kept

LEMMA RefreshServedKeeps ==
    ASSUME ClientInv, RefreshServed
    PROVE  Kept
  <1> DEFINE c(x) == [refresh EXCEPT !.at = "answered", !.ans = x]
  <1>1. /\ refresh.at = "asked"
        /\ UNCHANGED <<lease, issued, agent, socket, ui, sgen, launch, running, browser, locked>>
        /\ \/ /\ session # "over" /\ refresh.arg = gen /\ gen < MaxGen
              /\ gen' = gen + 1 /\ session' = "fresh" /\ msgs' = {}
              /\ \/ refresh' = c(gen + 1) /\ unheard' = unheard
                 \/ refresh' = c(Lost) /\ unheard' = TRUE
           \/ /\ session = "over" \/ refresh.arg # gen
              /\ session' = "over" /\ msgs' = {} /\ refresh' = c(Refused)
              /\ gen' = gen /\ unheard' = unheard
           \/ refresh' = c(Lost) /\ UNCHANGED <<gen, session, msgs, unheard>>
    BY DEF RefreshServed
  <1>2. ASSUME NEW x \in Answers
        PROVE  /\ c(x) \in Calls /\ c(x).at = "answered" /\ c(x).arg = refresh.arg /\ c(x).ans = x
               /\ c(x).sgen = refresh.sgen
    <2>1. refresh \in Calls
      BY DEF ClientInv, RefreshOK
    <2> QED
      BY <2>1 DEF Calls
  <1> HIDE DEF c
  <1>3. gen' \in Gens /\ gen <= gen' /\ gen' \in Nat /\ GenMove
    BY <1>1, ClientRow, AgentConstants DEF AgentConstants, Gens, GenMove
  <1>4. PlaneOK'
    BY <1>1, <1>3 DEF ClientInv, PlaneOK
  <1>5. AgentsOK' /\ StopStep
    BY <1>1, <1>3, <1>4, AgentsSame
  <1>6. LaunchOK'
    BY <1>1, <1>3, StillReady, LaunchSame
  <1>7. /\ Known /\ Mine => refresh.arg = gen
        /\ ~Mine /\ ui.auth => refresh.arg < gen
        /\ Known /\ ui.auth => ui.vault = gen
    BY <1>1 DEF ClientInv, RefreshOK, VaultCurrent
  <1>8. ReplayStep
    BY <1>1, <1>7 DEF ReplayStep, Known, Mine
  <1>9. PICK x \in Answers : refresh' = c(x) /\ x <= gen' /\ x \in Int
    <2>1. gen + 1 \in Answers \/ gen' = gen
      BY <1>1, <1>3 DEF Answers
    <2>2. gen' \in Answers /\ gen' <= gen' /\ gen' \in Int /\ Lost <= gen' /\ Refused <= gen'
      BY <1>3, RefreshFields DEF Answers
    <2> QED
      BY <1>1, <2>2, RefreshFields
  <1>10. /\ refresh' \in Calls /\ refresh'.at = "answered" /\ refresh'.arg = refresh.arg
         /\ refresh'.ans = x /\ refresh'.sgen = refresh.sgen
    BY <1>2, <1>9
  <1>11. /\ ui.tok <= gen' /\ ui.vault <= gen' /\ refresh.arg <= gen'
    <2>1. ui.tok \in Nat /\ ui.vault \in Nat /\ refresh.arg \in Nat /\ gen \in Nat
      BY ClientRow, RefreshFields, GenBounds
    <2>2. ui.tok <= gen /\ ui.vault <= gen /\ refresh.arg <= gen
      BY ClientRow, RefreshFields
    <2> QED
      BY <1>3, <2>1, <2>2
  <1>12. VaultCurrent'
    <2>1. CASE /\ session # "over" /\ refresh.arg = gen
               /\ gen' = gen + 1 /\ session' = "fresh"
               /\ refresh' = c(gen + 1) /\ unheard' = unheard
      <3>1. refresh'.ans = gen' /\ gen' \in Gens
        BY <1>2, <1>3, <2>1 DEF Answers
      <3>2. ui.auth => Mine
        BY <1>7, <2>1, ClientRow
      <3> QED
        BY <1>1, <1>10, <3>1, <3>2 DEF VaultCurrent, Mine, Known
    <2>2. CASE refresh' = c(Lost) /\ unheard' = TRUE
      <3>1. refresh'.ans = Lost
        BY <1>2, <2>2, RefreshFields
      <3> QED
        BY <1>10, <2>2, <3>1, RefreshFields DEF VaultCurrent, Known
    <2>3. CASE session' = "over" /\ refresh' = c(Refused)
      <3>1. refresh'.ans = Refused
        BY <1>2, <2>3, RefreshFields
      <3> QED
        BY <1>10, <2>3, <3>1, RefreshFields DEF VaultCurrent, Known
    <2>4. CASE refresh' = c(Lost) /\ UNCHANGED <<gen, session, unheard>>
      <3>1. refresh'.ans = Lost
        BY <1>2, <2>4, RefreshFields
      <3> QED
        BY <1>1, <1>7, <1>10, <2>4, <3>1, RefreshFields DEF VaultCurrent, Known, Mine
    <2> QED
      BY <1>1, <2>1, <2>2, <2>3, <2>4
  <1>13. RefreshOK'
    <2>1. unheard' \in BOOLEAN
      BY <1>1, ClientRow
    <2> QED
      BY <1>1, <1>9, <1>10, <1>11, <1>12, <2>1, ClientRow, RefreshFields DEF RefreshOK
  <1> QED
    BY <1>4, <1>5, <1>6, <1>8, <1>13 DEF Kept


(* Launches that waited for a refresh go on, or end.                         *)
LEMMA LaunchRow ==
    /\ NoLaunch \in LaunchRows /\ NoLaunch.at = "idle" /\ NoLaunch.tok = 0
    /\ \A t \in Gens, b \in BOOLEAN, l \in LeaseIds, a \in Agents \cup {None},
          at \in {"preflight", "refreshing", "ready"} :
             [at |-> at, again |-> b, tok |-> t, lease |-> l, agent |-> a] \in LaunchRows
  BY SignedOutRow DEF NoLaunch, LaunchRows

LEMMA LaunchFields ==
    ASSUME ClientInv, NEW k \in Launches
    PROVE  /\ launch[k] \in LaunchRows /\ launch[k].tok \in Gens /\ launch[k].tok \in Nat
           /\ launch[k].tok <= gen /\ launch[k].lease \in LeaseIds /\ gen \in Nat
  BY GenBounds DEF ClientInv, LaunchOK, LaunchRows, PlaneOK

LEMMA ResumedReady ==
    ASSUME ClientInv, NEW ok, launch' = Resumed(ok), ui'.tok \in Gens, ui'.tok <= gen, gen' = gen
    PROVE  SameReady
  <1> DEFINE row == [NoLaunch EXCEPT !.at = "preflight", !.again = TRUE, !.tok = ui'.tok]
  <1>1. row \in LaunchRows /\ row.at = "preflight" /\ row.tok = ui'.tok
    BY SignedOutRow DEF NoLaunch, LaunchRows
  <1>2. launch' = [k \in Launches |-> IF launch[k].at # "refreshing" THEN launch[k]
                                      ELSE IF ok THEN row ELSE NoLaunch]
    BY DEF Resumed
  <1> HIDE DEF row
  <1>3. NoLaunch \in LaunchRows /\ NoLaunch.at = "idle" /\ NoLaunch.tok <= gen
    BY LaunchRow, ClientRow
  <1>4. launch' \in [Launches -> LaunchRows]
    BY <1>1, <1>2, <1>3, LaunchFields
  <1>5. ASSUME NEW k \in Launches
        PROVE  /\ launch'[k].at = "ready" <=> launch[k].at = "ready"
               /\ launch[k].at = "ready" => launch'[k] = launch[k]
               /\ launch'[k].tok <= gen'
    BY <1>1, <1>2, <1>3, LaunchFields
  <1> QED
    BY <1>4, <1>5 DEF SameReady

LEMMA RefreshEndKeeps ==
    ASSUME ClientInv, RefreshEnd
    PROVE  Kept
  <1> DEFINE mine == refresh.sgen = sgen /\ ui.auth
  <1>1. refresh.at = "answered" /\ UNCHANGED <<planeVars, socket, msgs, sgen, unheard>>
    BY DEF RefreshEnd
  <1>2. PlaneOK' /\ gen' = gen /\ session' = session /\ gen' \in Gens /\ gen <= gen'
    BY <1>1, GenBounds DEF ClientInv, PlaneOK, planeVars
  <1>3. /\ refresh.ans \in Gens /\ mine => refresh.ans = gen
        /\ Known /\ ui.auth => ui.vault = gen \/ (refresh.ans \in Gens /\ mine)
    BY <1>1 DEF ClientInv, RefreshOK, VaultCurrent, Mine
  <1>4. CASE /\ mine /\ refresh.ans \in Gens
             /\ ui' = Applied(refresh.ans)
             /\ IF running = None
                THEN refresh' = Idle /\ launch' = Resumed(TRUE)
                ELSE /\ refresh' = [refresh EXCEPT !.at = "update", !.agent = running]
                     /\ UNCHANGED launch
             /\ UNCHANGED <<agent, browser, locked, running>>
    <2>1. /\ ui' \in [auth : BOOLEAN, tok : Gens, vault : Gens] /\ ui'.tok = gen /\ ui'.vault = gen
          /\ ui'.tok \in Gens /\ ui'.tok <= gen /\ ui'.vault <= gen
      BY <1>3, <1>4, ClientRow DEF Applied
    <2>2. AgentsOK' /\ StopStep
      BY <1>2, <1>4, AgentsSame DEF GenMove
    <2>3. SameReady
      BY <1>2, <1>4, <2>1, ResumedReady, StillReady
    <2>4. LaunchOK'
      BY <1>4, <2>3, LaunchSame
    <2>5. CASE running = None
      BY <1>1, <1>2, <1>4, <2>1, <2>2, <2>4, <2>5, RefreshEnds DEF Kept
    <2>6. CASE running # None
      <3> DEFINE c == [refresh EXCEPT !.at = "update", !.agent = running]
      <3>1. refresh \in Calls /\ running \in Agents
        BY <2>6 DEF ClientInv, RefreshOK, LaunchOK
      <3>2. /\ c \in Calls /\ c.at = "update" /\ c.agent = running /\ c.arg = refresh.arg
            /\ c.ans = refresh.ans /\ c.sgen = refresh.sgen
        BY <3>1 DEF Calls
      <3>3. refresh' = c
        BY <1>4, <2>6
      <3> HIDE DEF c
      <3>4. VaultCurrent'
        BY <1>2, <2>1, <3>2, <3>3 DEF VaultCurrent
      <3>5. RefreshOK'
        BY <1>1, <1>2, <1>4, <2>1, <3>1, <3>2, <3>3, <3>4, ClientRow, RefreshFields DEF RefreshOK
      <3> QED
        BY <1>2, <2>2, <2>4, <3>5 DEF Kept, ReplayStep
    <2> QED
      BY <2>5, <2>6
  <1>5. CASE /\ ui' = SignedOut /\ refresh' = Idle /\ launch' = Resumed(FALSE) /\ CloseStore
    <2>1. /\ ui' \in [auth : BOOLEAN, tok : Gens, vault : Gens] /\ ~ui'.auth
          /\ ui'.tok \in Gens /\ ui'.tok <= gen /\ ui'.vault <= gen
      BY <1>5, SignedOutRow, ClientRow
    <2>2. SameReady
      BY <1>2, <1>5, <2>1, ResumedReady
    <2> QED
      BY <1>1, <1>2, <1>5, <2>1, <2>2, CloseAgents, LaunchSame, RefreshEnds DEF Kept
  <1>6. CASE /\ ~mine \/ refresh.ans = Lost
             /\ refresh' = Idle /\ launch' = Resumed(FALSE)
             /\ UNCHANGED <<ui, agent, browser, locked, running>>
    <2>1. AgentsOK' /\ StopStep
      BY <1>2, <1>6, AgentsSame DEF GenMove
    <2>2. ui'.tok \in Gens /\ ui'.tok <= gen
      BY <1>6, ClientRow
    <2>3. SameReady
      BY <1>2, <1>6, <2>2, ResumedReady
    <2>4. Known /\ ui.auth => ui.vault = gen
      BY <1>3, <1>6, RefreshFields
    <2> QED
      BY <1>1, <1>2, <1>6, <2>1, <2>2, <2>3, <2>4, ClientRow, LaunchSame, RefreshEnds DEF Kept
  <1> QED
    BY <1>4, <1>5, <1>6 DEF RefreshEnd

LEMMA UpdateAgentKeeps ==
    ASSUME ClientInv, UpdateAgent
    PROVE  Kept
  <1> DEFINE a == refresh.agent
             r == agent[a]
             ups == IF r.pc = "serving" \/ r.ups = 2 THEN r.ups ELSE r.ups + 1
             row == [r EXCEPT !.tok = refresh.ans, !.ups = ups]
  <1>1. /\ refresh.at = "update" /\ refresh' = Idle /\ ui' = ui /\ launch' = Resumed(ui.auth)
        /\ UNCHANGED <<planeVars, socket, msgs, sgen, unheard>>
        /\ \/ /\ r.pc \in Up /\ agent' = [agent EXCEPT ![a] = row]
              /\ UNCHANGED <<browser, locked, running>>
           \/ CloseStore
    BY DEF UpdateAgent, Set, Updated
  <1>2. PlaneOK' /\ gen' = gen /\ session' = session /\ gen' \in Gens
    BY <1>1 DEF ClientInv, PlaneOK, planeVars
  <1>3. a \in Agents /\ refresh.ans \in Gens /\ refresh.ans <= gen
    BY <1>1 DEF ClientInv, RefreshOK
  <1>4. SameReady
    BY <1>1, <1>2, ClientRow, ResumedReady
  <1>5. Known /\ ui.auth => ui.vault = gen
    BY <1>1 DEF ClientInv, RefreshOK, VaultCurrent
  <1>6. RefreshOK' /\ ReplayStep
    BY <1>1, <1>2, <1>5, ClientRow, RefreshEnds
  <1>7. LaunchOK'
    BY <1>1, <1>4, LaunchSame
  <1>8. CASE r.pc \in Up /\ agent' = [agent EXCEPT ![a] = row]
    <2>1. ups \in 0..2 /\ (ups = 0 => r.pc = "serving" /\ r.ups = 0) /\ (r.pc = "serving" => ups = r.ups)
          /\ (ups = 1 /\ r.pc # "serving" => r.ups = 0)
      BY <1>3, AgentRow
    <2> HIDE DEF ups
    <2>2. /\ row \in AgentRows /\ row.pc = r.pc /\ row.tok = refresh.ans /\ row.sent = r.sent
          /\ row.ups = ups /\ row.again = r.again
      BY <1>3, <2>1, AgentRow DEF AgentRows
    <2> HIDE DEF row
    <2>3. RowOK(row, session, gen)
      BY <1>3, <1>8, <2>1, <2>2, AgentRow DEF RowOK, Up
    <2>4. AgentsOK'
      BY <1>2, <1>3, <1>8, <2>3, AgentsSet DEF GenMove
    <2>5. \A b \in Agents : agent'[b].pc = agent[b].pc
      BY <1>3, <1>8, <2>2 DEF ClientInv, AgentsOK
    <2> QED
      BY <1>2, <1>6, <1>7, <2>4, <2>5 DEF Kept, StopStep
  <1>9. CASE CloseStore
    BY <1>2, <1>6, <1>7, <1>9, CloseAgents DEF Kept
  <1> QED
    BY <1>1, <1>8, <1>9


-----------------------------------------------------------------------------
(* Launches.                                                                 *)
LEMMA LaunchSet ==
    ASSUME ClientInv, gen' = gen, NEW k \in Launches, ~Ready(k), NEW row \in LaunchRows,
           row.at # "ready", row.tok <= gen, launch' = [launch EXCEPT ![k] = row]
    PROVE  SameReady
  <1>1. launch' \in [Launches -> LaunchRows] /\ launch'[k] = row /\ \A j \in Launches : j # k => launch'[j] = launch[j]
    BY DEF ClientInv, LaunchOK
  <1> QED
    BY <1>1, LaunchFields DEF SameReady, Ready

LEMMA LaunchBeginKeeps ==
    ASSUME ClientInv, NEW k \in Launches, LaunchBegin(k)
    PROVE  Kept
  <1> DEFINE row == [NoLaunch EXCEPT !.at = "preflight", !.tok = ui.tok]
  <1>1. /\ launch[k] = NoLaunch /\ launch' = [launch EXCEPT ![k] = row] /\ UNCHANGED agentVars
        /\ UNCHANGED <<ui, sgen, refresh, running, browser, locked, unheard>>
    BY DEF LaunchBegin
  <1>2. PlaneOK' /\ gen' = gen /\ session' = session /\ agent' = agent
    BY <1>1 DEF ClientInv, PlaneOK, agentVars, planeVars
  <1>3. row \in LaunchRows /\ row.at = "preflight" /\ row.tok = ui.tok /\ ui.tok <= gen
    BY SignedOutRow, ClientRow DEF NoLaunch, LaunchRows
  <1> HIDE DEF row
  <1>4. ~Ready(k)
    BY <1>1, LaunchRow DEF Ready
  <1>5. LaunchOK'
    BY <1>1, <1>2, <1>3, <1>4, LaunchSet, LaunchSame
  <1>6. AgentsOK' /\ StopStep
    BY <1>2, AgentsSame DEF GenMove
  <1> QED
    BY <1>1, <1>2, <1>5, <1>6, RefreshSame DEF Kept

LEMMA WaitRow ==
    LET wait == [NoLaunch EXCEPT !.at = "refreshing"]
    IN  wait \in LaunchRows /\ wait.at = "refreshing" /\ wait.tok = 0
  BY SignedOutRow DEF NoLaunch, LaunchRows

LEMMA PreflightKeeps ==
    ASSUME ClientInv, NEW k \in Launches, Preflight(k)
    PROVE  Kept
  <1> DEFINE tok == launch[k].tok
             wait == [NoLaunch EXCEPT !.at = "refreshing"]
             born == [Gone EXCEPT !.pc = "connect", !.tok = tok]
             up(l, a) == [NoLaunch EXCEPT !.at = "ready", !.tok = tok, !.lease = l, !.agent = a]
             Ends == launch' = [launch EXCEPT ![k] = NoLaunch] /\ UNCHANGED <<agent, locked, refresh>>
             Waits == launch' = [launch EXCEPT ![k] = wait] /\ RefreshStarts /\ UNCHANGED <<agent, locked>>
             Spawns(l) == /\ running = None /\ ~locked /\ locked' = TRUE /\ refresh' = refresh
                          /\ \E a \in Agents : /\ agent' = [agent EXCEPT ![a] = born] /\ agent[a].pc = "gone"
                                               /\ launch' = [launch EXCEPT ![k] = up(l, a)]
  <1>1. /\ launch[k].at = "preflight"
        /\ UNCHANGED <<gen, session, socket, ui, sgen, running, browser, unheard>>
    BY DEF Preflight
  <1>2. \/ UNCHANGED <<lease, issued, msgs>> /\ (Ends \/ Waits)
        \/ \E l \in LeaseIds : /\ Grant(l) /\ msgs' \in {msgs, msgs \cup {l}}
                               /\ Ends \/ Spawns(l)
    <2>1. CASE /\ Accepted(launch[k].tok) /\ UNCHANGED refresh
               /\ \E l \in LeaseIds \ {0} :
                     /\ Grant(l)
                     /\ \/ Spawn(k, l)
                        \/ launch' = [launch EXCEPT ![k] = NoLaunch] /\ UNCHANGED <<agent, msgs, locked>>
      <3>1. PICK l \in LeaseIds : /\ Grant(l)
                                  /\ \/ Spawn(k, l)
                                     \/ launch' = [launch EXCEPT ![k] = NoLaunch] /\ UNCHANGED <<agent, msgs, locked>>
        BY <2>1
      <3>2. Spawn(k, l) => msgs' \in {msgs, msgs \cup {l}} /\ (Ends \/ Spawns(l))
        BY <2>1 DEF Spawn, Send, LockTaken, FreeAgents, Set, At
      <3> QED
        BY <2>1, <3>1, <3>2
    <2>2. CASE /\ UNCHANGED <<lease, issued, agent, msgs, locked>>
               /\ \/ RefreshStarts /\ launch' = [launch EXCEPT ![k] = wait]
                  \/ launch' = [launch EXCEPT ![k] = NoLaunch] /\ UNCHANGED refresh
      BY <2>2
    <2> HIDE DEF Ends, Waits, Spawns
    <2> QED
      BY <2>1, <2>2 DEF Preflight
  <1>3. PlaneOK'
    <2>1. lease' \in LeaseIds /\ issued' \in LeaseIds /\ msgs' \subseteq LeaseIds
      <3> HIDE DEF Ends, Waits, Spawns
      <3> QED
        BY <1>2, GrantPlane DEF ClientInv, PlaneOK
    <2> QED
      BY <1>1, <2>1 DEF ClientInv, PlaneOK
  <1>4. ~Ready(k) /\ gen' = gen /\ session' = session /\ GenMove
    BY <1>1 DEF Ready, GenMove
  <1>5. CASE Ends
    <2>0. NoLaunch \in LaunchRows /\ NoLaunch.at # "ready" /\ NoLaunch.tok <= gen
      <3>1. gen \in Nat
        BY ClientRow
      <3> QED
        BY <3>1, LaunchRow
    <2>1. SameReady
      BY <1>4, <1>5, <2>0, LaunchSet
    <2>2. LaunchOK'
      BY <1>1, <1>5, <2>1, LaunchSame
    <2> QED
      BY <1>1, <1>3, <1>4, <1>5, <2>2, AgentsSame, RefreshSame DEF Kept
  <1>6. CASE Waits
    <2>0. gen \in Nat /\ 0 \in Gens /\ 0 \in LeaseIds
      BY SignedOutRow, ClientRow
    <2>1. wait \in LaunchRows /\ wait.at = "refreshing" /\ wait.tok = 0 /\ 0 <= gen
      BY <2>0, WaitRow
    <2>2. SameReady
      <3> HIDE DEF wait
      <3> QED
        BY <1>4, <1>6, <2>1, LaunchSet
    <2>3. LaunchOK'
      BY <1>1, <1>6, <2>2, LaunchSame
    <2> QED
      BY <1>1, <1>3, <1>4, <1>6, <2>3, AgentsSame, RefreshStart DEF Kept
  <1>7. ASSUME NEW l \in LeaseIds, Spawns(l)
        PROVE  Kept
    <2>1. PICK a \in Agents : /\ agent' = [agent EXCEPT ![a] = born] /\ agent[a].pc = "gone"
                              /\ launch' = [launch EXCEPT ![k] = up(l, a)]
      BY <1>7
    <2> DEFINE u == up(l, a)
    <2>2. u \in LaunchRows /\ u.at = "ready" /\ u.tok = tok /\ u.agent = a
      BY LaunchFields DEF NoLaunch, LaunchRows
    <2> HIDE DEF u
    <2>3. /\ launch' \in [Launches -> LaunchRows] /\ launch'[k] = u
          /\ \A j \in Launches : j # k => launch'[j] = launch[j]
      BY <2>1, <2>2 DEF ClientInv, LaunchOK, u
    <2>4. /\ running = None /\ running' = None /\ browser' = browser /\ locked' = TRUE
          /\ \A j \in Launches : ~Ready(j)
          /\ \A b \in Agents : ~browser[b]
      BY <1>1, <1>7, ClientConstants DEF ClientConstants, ClientInv, LaunchOK, Solo
    <2>5. Solo'
      BY <2>2, <2>3, <2>4 DEF Solo, Ready
    <2>6. LaunchOK'
      BY <1>1, <2>2, <2>3, <2>4, <2>5, LaunchFields DEF ClientInv, LaunchOK, Ready
    <2>7. RowOK(born, session, gen)
      BY LaunchFields, GoneRow
    <2>8. AgentsOK'
      <3> HIDE DEF born
      <3> QED
        BY <1>3, <1>4, <2>1, <2>7, AgentsSet
    <2>9. StopStep
      <3>1. \A b \in Agents : agent'[b] = agent[b] \/ agent[b].pc = "gone"
        BY <2>1 DEF ClientInv, AgentsOK
      <3> QED
        BY <3>1 DEF StopStep
    <2>10. refresh' = refresh
      BY <1>7
    <2> QED
      BY <1>1, <1>3, <1>4, <2>6, <2>8, <2>9, <2>10, RefreshSame DEF Kept
  <1> HIDE DEF Ends, Waits, Spawns
  <1> QED
    BY <1>2, <1>5, <1>6, <1>7

LEMMA LaunchReadyKeeps ==
    ASSUME ClientInv, NEW k \in Launches, LaunchReady(k)
    PROVE  Kept
  <1> DEFINE a == launch[k].agent
  <1>1. /\ Ready(k) /\ launch' = [launch EXCEPT ![k] = NoLaunch]
        /\ UNCHANGED <<planeVars, socket, ui, sgen, refresh, unheard>>
        /\ \/ /\ running' = a /\ browser' = [browser EXCEPT ![a] = TRUE]
              /\ UNCHANGED <<agent, msgs, locked>>
           \/ /\ agent' = Told(a) /\ locked' = FALSE /\ msgs' \in {msgs, msgs \cup {launch[k].lease}}
              /\ UNCHANGED <<running, browser>>
    BY DEF LaunchReady, Ready, Send
  <1>2. /\ a \in Agents /\ a # None /\ running = None /\ locked = TRUE
        /\ \A j \in Launches : Ready(j) => j = k
        /\ \A b \in Agents : ~browser[b]
    BY <1>1, ClientConstants DEF ClientConstants, ClientInv, LaunchOK, Solo
  <1>3. PlaneOK' /\ gen' = gen /\ session' = session /\ GenMove
    BY <1>1, LaunchFields DEF ClientInv, PlaneOK, planeVars, GenMove
  <1>4. /\ launch' \in [Launches -> LaunchRows] /\ launch'[k] = NoLaunch
        /\ \A j \in Launches : j # k => launch'[j] = launch[j]
    BY <1>1, LaunchRow DEF ClientInv, LaunchOK
  <1>5. \A j \in Launches : launch'[j].at # "ready" /\ launch'[j].tok <= gen
    BY <1>2, <1>4, LaunchRow, LaunchFields DEF Ready
  <1>6. RefreshOK' /\ ReplayStep
    BY <1>1, <1>3, RefreshSame
  <1>7. CASE /\ running' = a /\ browser' = [browser EXCEPT ![a] = TRUE]
             /\ UNCHANGED <<agent, msgs, locked>>
    <2>1. browser' \in [Agents -> BOOLEAN] /\ \A b \in Agents : browser'[b] => b = a
      BY <1>2, <1>7 DEF ClientInv, LaunchOK
    <2>2. Solo'
      BY <1>2, <1>5, <1>7, <2>1 DEF Solo, Ready
    <2>3. LaunchOK'
      BY <1>2, <1>3, <1>4, <1>5, <1>7, <2>1, <2>2 DEF LaunchOK, Ready
    <2> QED
      BY <1>3, <1>6, <1>7, <2>3, AgentsSame DEF Kept
  <1>8. CASE agent' = Told(a) /\ locked' = FALSE /\ UNCHANGED <<running, browser>>
    <2>1. Solo'
      BY <1>2, <1>5, <1>8 DEF Solo, Ready
    <2>2. LaunchOK'
      BY <1>2, <1>3, <1>4, <1>5, <1>8, <2>1 DEF ClientInv, LaunchOK, Ready
    <2> QED
      BY <1>2, <1>3, <1>6, <1>8, <2>2, ToldAgents DEF Kept
  <1> QED
    BY <1>1, <1>7, <1>8

-----------------------------------------------------------------------------
LEMMA NextKeeps ==
    ASSUME ClientInv, [Next]_vars
    PROVE  ClientInv' /\ StopStep /\ ReplayStep
  <1>1. CASE ClientStep
    BY <1>1, CloseKeeps, LoginKeeps, SignOutKeeps, RefreshBeginKeeps, RefreshServedKeeps, RefreshEndKeeps,
       UpdateAgentKeeps, BrowserExitsKeeps, LaunchBeginKeeps, PreflightKeeps, LaunchReadyKeeps
       DEF ClientStep, Kept, ClientInv
  <1>2. CASE (PlaneStep \/ AgentStep) /\ UNCHANGED clientVars
    BY <1>2, PlaneKeeps, AgentKeeps DEF Kept, ClientInv
  <1>3. CASE UNCHANGED vars
    <2>1. PlaneOK' /\ GenMove /\ agent' = agent /\ gen' = gen /\ session' = session /\ UNCHANGED clientVars
      BY <1>3 DEF ClientInv, PlaneOK, GenMove, vars, agentVars, planeVars
    <2> QED
      BY <2>1, AgentsSame, ClientSame DEF ClientInv
  <1> QED
    BY <1>1, <1>2, <1>3 DEF Next

LEMMA InitClient ==
    ASSUME Init
    PROVE  ClientInv
  <1>1. 0 \in Gens /\ 0 \in LeaseIds /\ 0 \in 0..MaxSignIns /\ 0 \in Answers /\ 0 <= 0
    BY SignedOutRow, ClientConstants DEF ClientConstants, Answers
  <1>2. PlaneOK
    BY <1>1 DEF Init, AgentInit, PlaneOK
  <1>3. AgentsOK
    <2>1. Gone \in AgentRows /\ RowOK(Gone, "over", 0)
      BY <1>1 DEF Gone, AgentRows, AgentPlaces, RowOK
    <2> QED
      BY <2>1 DEF Init, AgentInit, AgentsOK
  <1>4. LaunchOK
    <2>1. NoLaunch \in LaunchRows /\ NoLaunch.at = "idle" /\ NoLaunch.tok = 0
      BY LaunchRow
    <2>2. Solo
      BY <2>1 DEF Init, Solo, Ready
    <2> QED
      BY <1>1, <2>1, <2>2 DEF Init, AgentInit, LaunchOK, Ready
  <1>5. RefreshOK
    <2>1. Idle \in Calls /\ Idle.at = "idle" /\ Idle.arg = 0 /\ Idle.ans = 0 /\ Idle.sgen = 0
      BY IdleCall
    <2>2. VaultCurrent
      BY <2>1, SignedOutRow DEF Init, VaultCurrent
    <2> QED
      BY <1>1, <2>1, <2>2, SignedOutRow DEF Init, AgentInit, RefreshOK
  <1> QED
    BY <1>2, <1>3, <1>4, <1>5 DEF ClientInv

-----------------------------------------------------------------------------
(* The client's and the agents' variables keep to their types.               *)
THEOREM TypeCorrect == Spec => []TypeOK
  <1>1. Init => ClientInv
    BY InitClient
  <1>2. ClientInv /\ [Next]_vars => ClientInv'
    BY NextKeeps
  <1> QED
    BY <1>1, <1>2, InvTypes, PTL DEF Spec

(* However many launches the user starts, and whatever fails, closes or      *)
(* signs out between their awaits, the exclusive lock and the check of       *)
(* StoreProcessManager.running leave the profile with one browser.           *)
THEOREM BrowsersAlone == Spec => []OneBrowser
  <1>1. Init => ClientInv
    BY InitClient
  <1>2. ClientInv /\ [Next]_vars => ClientInv'
    BY NextKeeps
  <1>3. ClientInv => OneBrowser
    BY DEF ClientInv, LaunchOK, Solo, OneBrowser
  <1> QED
    BY <1>1, <1>2, <1>3, PTL DEF Spec

(* heartbeat_loop's single repetition is enough: with at most one update of  *)
(* the token during a heartbeat, an agent that nobody told to stop gives up  *)
(* over a rejection only when its token is dead.                             *)
THEOREM AgentsOutliveUpdates == Spec => StopsOnlyIfTokenDead
  <1>1. Init => ClientInv
    BY InitClient
  <1>2. ClientInv /\ [Next]_vars => ClientInv'
    BY NextKeeps
  <1>3. ClientInv /\ [Next]_vars =>
          [\A a \in Agents : agent[a].pc = "rejected" /\ ~agent[a].told /\ agent'[a].pc = "stopping"
              => ~Accepted(agent[a].tok) \/ agent[a].ups = 2]_vars
    BY NextKeeps DEF StopStep
  <1> QED
    BY <1>1, <1>2, <1>3, PTL DEF Spec, StopsOnlyIfTokenDead

(* refreshAccessTokenIfNeeded never replays a token on its own account: the  *)
(* server takes a refresh for a replay, and revokes the session, only if an  *)
(* answer was lost or the refresh belongs to an earlier sign-in.             *)
THEOREM RefreshesInStep == Spec => ReplayOnlyAfterLoss
  <1>1. Init => ClientInv
    BY InitClient
  <1>2. ClientInv /\ [Next]_vars => ClientInv'
    BY NextKeeps
  <1>3. ClientInv /\ [Next]_vars =>
          [session # "over" /\ session' = "over" /\ refresh.at = "asked" /\ refresh'.at = "answered"
              => unheard \/ refresh.sgen # sgen]_vars
    BY NextKeeps DEF ReplayStep
  <1> QED
    BY <1>1, <1>2, <1>3, PTL DEF Spec, ReplayOnlyAfterLoss
=============================================================================
