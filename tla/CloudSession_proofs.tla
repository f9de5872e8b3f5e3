------------------------ MODULE CloudSession_proofs ------------------------
(***************************************************************************)
(* CloudSession for any number of sessions, tabs and requests: its types,  *)
(* and that two browsers never share a profile.                            *)
(***************************************************************************)
EXTENDS CloudSession, TLAPS, FiniteSetTheorems

(* A request in flight is of its type and at a place its handler has.        *)
WellFormed(r) == /\ r \in Requests
                 /\ r.at \in Places[r.op]
                 /\ r.sid = None => r.at = "insert"
ReqType == req \in [ReqIds -> Requests \cup {Idle}]
           /\ \A i \in ReqIds : req[i] # Idle => WellFormed(req[i])

(* Every place belongs to the handlers that Places gives it.                 *)
LEMMA PlacesOf ==
    /\ Places["start"] = StartAt /\ Places["stop"] = StopAt
    /\ Places["get"] = {"ask", "answered"} /\ Places["close"] = {"close"}
  BY DEF Places

(* No request is mistaken for a free slot.                                   *)
LEMMA RequestsBusy == \A r \in Requests : r # Idle
  BY DEF Requests, Idle

(* TypeOK is made of the types of the tables and those of the requests.      *)
LEMMA TypeParts ==
    TypeOK <=> /\ row \in [Sids -> Statuses] /\ box \in [Sids -> Boxes]
               /\ kept \subseteq Sids /\ tabs \subseteq Tabs /\ clean \subseteq Sids
               /\ ReqType
  BY DEF TypeOK, ReqType, WellFormed

(* The same after a step.                                                    *)
LEMMA TypePartsNext ==
    TypeOK' <=> /\ row' \in [Sids -> Statuses] /\ box' \in [Sids -> Boxes]
                /\ kept' \subseteq Sids /\ tabs' \subseteq Tabs /\ clean' \subseteq Sids
                /\ ReqType'
  BY DEF TypeOK, ReqType, WellFormed

(* A step of one request that leaves it well-formed, or ends it.             *)
LEMMA ReqStep ==
    ASSUME ReqType, NEW i \in ReqIds, NEW r, r = Idle \/ WellFormed(r),
           req' = [req EXCEPT ![i] = r]
    PROVE  ReqType' /\ req'[i] = r /\ \A j \in ReqIds : j # i => req'[j] = req[j]
  <1>1. r \in Requests \cup {Idle}
    BY DEF WellFormed
  <1>2. req' \in [ReqIds -> Requests \cup {Idle}]
    BY <1>1 DEF ReqType
  <1>3. req'[i] = r /\ \A j \in ReqIds : j # i => req'[j] = req[j]
    BY DEF ReqType
  <1> QED
    BY <1>2, <1>3 DEF ReqType, WellFormed

(* Finish ends a request.                                                    *)
LEMMA FinishStep ==
    ASSUME ReqType, NEW i \in ReqIds, Finish(i)
    PROVE  ReqType' /\ req'[i] = Idle /\ \A j \in ReqIds : j # i => req'[j] = req[j]
  BY ReqStep DEF Finish

(* Goto moves a request to another place of its handler.                     *)
LEMMA GotoStep ==
    ASSUME ReqType, NEW i \in ReqIds, req[i] # Idle, NEW at \in Places[req[i].op],
           at \in StartAt \cup StopAt \cup {"close"},
           req[i].sid # None, Goto(i, at)
    PROVE  /\ ReqType' /\ req'[i] # Idle
           /\ req'[i].at = at /\ req'[i].op = req[i].op /\ req'[i].sid = req[i].sid
           /\ \A j \in ReqIds : j # i => req'[j] = req[j]
  <1> DEFINE r == [req[i] EXCEPT !.at = at]
  <1>1. req[i] \in Requests /\ WellFormed(req[i])
    BY DEF ReqType, WellFormed
  <1>2. r \in Requests /\ r.at = at /\ r.op = req[i].op /\ r.sid = req[i].sid
    BY <1>1 DEF Requests
  <1>3. WellFormed(r)
    BY <1>1, <1>2 DEF WellFormed
  <1> QED
    BY <1>2, <1>3, ReqStep, RequestsBusy DEF Goto

(* A new request is well-formed.                                             *)
LEMMA NewRequest ==
    ASSUME row \in [Sids -> Statuses],
           NEW op \in {"start", "stop", "get", "close"}, NEW at \in Places[op],
           at \in StartAt \cup StopAt \cup {"close"},
           NEW s \in Sids \cup {None}, s = None => at = "insert"
    PROVE  /\ Request(op, at, s) \in Requests /\ WellFormed(Request(op, at, s))
           /\ Request(op, at, s).at = at /\ Request(op, at, s).op = op
           /\ Request(op, at, s).sid = s
  <1>1. (IF s = None THEN "none" ELSE row[s]) \in Statuses
    BY DEF Statuses
  <1>2. "none" \in Statuses
    BY DEF Statuses
  <1>3. Request(op, at, s) \in Requests
    BY <1>1, <1>2 DEF Request, Requests
  <1>4. /\ Request(op, at, s).at = at /\ Request(op, at, s).op = op
        /\ Request(op, at, s).sid = s
    BY DEF Request
  <1> QED
    BY <1>3, <1>4 DEF WellFormed

(* What is known of a request at a place of a handler.                       *)
LEMMA AtFacts ==
    ASSUME ReqType, NEW i \in ReqIds, NEW op, NEW at, At(i, op, at)
    PROVE  /\ req[i] # Idle /\ req[i].op = op /\ req[i].at = at
           /\ req[i] \in Requests /\ WellFormed(req[i])
           /\ at # "insert" => req[i].sid \in Sids
  <1>1. req[i] # Idle /\ req[i].op = op /\ req[i].at = at
    BY DEF At
  <1>2. req[i] \in Requests /\ WellFormed(req[i])
    BY <1>1 DEF ReqType, WellFormed
  <1>3. req[i].sid \in Sids \cup {None}
    BY <1>2 DEF Requests
  <1> QED
    BY <1>1, <1>2, <1>3 DEF WellFormed

-----------------------------------------------------------------------------
(* Every step keeps the types: first those of a start.                       *)
LEMMA StartTypes ==
    ASSUME TypeOK, CloudConstants, NEW i \in ReqIds,
           \/ StartBegin(i) \/ AskStatus(i) \/ SaveStatus(i) \/ (\E s \in Sids : InsertSession(i, s))
           \/ TakeLock(i) \/ CheckProfile(i) \/ RunContainer(i) \/ WaitReady(i) \/ CleanUp(i)
           \/ KeepLock(i) \/ CommitStart(i)
    PROVE  TypeOK'
  <1> USE TypePartsNext
  <1>0. /\ ReqType /\ row \in [Sids -> Statuses] /\ box \in [Sids -> Boxes]
        /\ kept \subseteq Sids /\ tabs \subseteq Tabs /\ clean \subseteq Sids
    BY TypeParts
  <1>p. \A at \in {"ask", "answered", "insert", "lock", "failed", "kept", "locked", "checked",
                   "waiting", "ready", "cleanup"} : at \in Places["start"] /\ at \in StartAt
    BY PlacesOf DEF StartAt, Locking
  <1>g. "answered" \in Places["get"]
    BY PlacesOf
  <1>1. CASE StartBegin(i)
    <2>1. PICK s \in Sids \cup {None} :
              \/ s = None /\ req' = [req EXCEPT ![i] = Request("start", "insert", s)]
              \/ s # None /\ req' = [req EXCEPT ![i] = Request("start", "ask", s)]
      BY <1>1 DEF StartBegin, CloudConstants
    <2>2. ReqType'
      <3>1. CASE s = None
        <4>1. WellFormed(Request("start", "insert", s))
          BY <3>1, <1>0, <1>p, NewRequest
        <4> QED
          BY <2>1, <3>1, <4>1, <1>0, ReqStep
      <3>2. CASE s # None
        <4>1. WellFormed(Request("start", "ask", s))
          BY <3>2, <1>0, <1>p, NewRequest
        <4> QED
          BY <2>1, <3>2, <4>1, <1>0, ReqStep
      <3> QED
        BY <3>1, <3>2
    <2> QED
      BY <1>0, <1>1, <2>2 DEF StartBegin
  <1>2. CASE AskStatus(i)
    <2> DEFINE r == [req[i] EXCEPT !.at = "answered", !.seen = RunnerStatus(req[i].sid)]
    <2>1. PICK op \in {"start", "get"} : At(i, op, "ask")
      BY <1>2 DEF AskStatus
    <2>2. RunnerStatus(req[i].sid) \in Statuses
      BY DEF RunnerStatus, Statuses
    <2>a. req[i] \in Requests /\ req[i].op = op
      BY <1>0, <2>1, AtFacts
    <2>3. r \in Requests /\ r.at = "answered" /\ r.op = op /\ r.sid = req[i].sid
      BY <1>p, <2>2, <2>a DEF Requests
    <2>4. r.at \in Places[r.op]
      BY <1>p, <1>g, <2>1, <2>3
    <2>5. r.sid # None
      BY <1>0, <2>1, <2>3, AtFacts DEF CloudConstants
    <2>6. WellFormed(r)
      BY <2>3, <2>4, <2>5 DEF WellFormed
    <2>7. ReqType'
      BY <1>0, <1>2, <2>6, ReqStep DEF AskStatus
    <2> QED
      BY <1>0, <1>2, <2>7 DEF AskStatus
  <1>3. CASE SaveStatus(i)
    <2>1. PICK op \in {"start", "get"} : At(i, op, "answered")
      BY <1>3 DEF SaveStatus
    <2>2. req[i].sid \in Sids /\ req[i].seen \in Statuses
      BY <1>0, <2>1, AtFacts DEF Requests
    <2>3. row' \in [Sids -> Statuses]
      BY <1>0, <1>3, <2>2 DEF SaveStatus, Col
    <2>a. WellFormed(Request("start", "insert", None))
      BY <1>0, <1>p, NewRequest
    <2>b. Finish(i) \/ req' = [req EXCEPT ![i] = Request("start", "insert", None)]
      BY <1>3 DEF SaveStatus
    <2>4. ReqType'
      BY <1>0, <2>a, <2>b, FinishStep, ReqStep
    <2> QED
      BY <1>0, <1>3, <2>3, <2>4 DEF SaveStatus
  <1>4. CASE \E s \in Sids : InsertSession(i, s)
    <2>1. PICK s \in Sids : InsertSession(i, s)
      BY <1>4
    <2> DEFINE q == Request("start", "lock", s)
               r == [q EXCEPT !.old = "starting"]
    <2>2. q \in Requests /\ WellFormed(q) /\ q.at = "lock" /\ q.op = "start" /\ q.sid = s
      <3>1. s # None /\ s \in Sids \cup {None}
        BY DEF CloudConstants
      <3>2. "lock" \in Places["start"] /\ "lock" \in StartAt
        BY <1>p
      <3> HIDE DEF q
      <3> QED
        BY <1>0, <3>1, <3>2, NewRequest DEF q
    <2>3. r \in Requests /\ r.at = "lock" /\ r.op = "start" /\ r.sid = s
      <3> HIDE DEF q
      <3> QED
        BY <2>2 DEF Requests, Statuses
    <2>4. WellFormed(r)
      BY <1>p, <2>3 DEF WellFormed, CloudConstants
    <2>5. ReqType'
      BY <1>0, <2>1, <2>4, ReqStep DEF InsertSession
    <2>6. row' \in [Sids -> Statuses]
      BY <1>0, <2>1 DEF InsertSession, Statuses
    <2> QED
      BY <1>0, <2>1, <2>5, <2>6 DEF InsertSession
  <1>5. CASE TakeLock(i)
    <2>1. ReqType'
      BY <1>0, <1>5, <1>p, AtFacts, GotoStep DEF TakeLock, CloudConstants
    <2> QED
      BY <1>0, <1>5, <2>1 DEF TakeLock
  <1>6. CASE CheckProfile(i)
    <2>1. ReqType'
      BY <1>0, <1>6, <1>p, AtFacts, GotoStep DEF CheckProfile, CloudConstants
    <2> QED
      BY <1>0, <1>6, <2>1 DEF CheckProfile
  <1>7. CASE RunContainer(i)
    <2>1. ReqType'
      BY <1>0, <1>7, <1>p, AtFacts, GotoStep DEF RunContainer, CloudConstants
    <2>2. box' \in [Sids -> Boxes]
      BY <1>0, <1>7 DEF RunContainer, Boxes
    <2>3. tabs' \subseteq Tabs
      BY <1>0, <1>7 DEF RunContainer
    <2> QED
      BY <1>0, <1>7, <2>1, <2>2, <2>3 DEF RunContainer
  <1>8. CASE WaitReady(i)
    <2>1. ReqType'
      BY <1>0, <1>8, <1>p, AtFacts, GotoStep DEF WaitReady, CloudConstants
    <2> QED
      BY <1>0, <1>8, <2>1 DEF WaitReady
  <1>9. CASE CleanUp(i)
    <2>1. ReqType'
      BY <1>0, <1>9, <1>p, AtFacts, GotoStep DEF CleanUp, CloudConstants
    <2>2. box' \in [Sids -> Boxes] /\ tabs' \subseteq Tabs
      BY <1>0, <1>9 DEF CleanUp, Boxes, TabsWithout
    <2> QED
      BY <1>0, <1>9, <2>1, <2>2 DEF CleanUp
  <1>10. CASE KeepLock(i)
    <2>1. ReqType'
      BY <1>0, <1>10, <1>p, AtFacts, GotoStep DEF KeepLock, CloudConstants
    <2>2. kept' \subseteq Sids
      BY <1>0, <1>10, AtFacts DEF KeepLock
    <2> QED
      BY <1>0, <1>10, <2>1, <2>2 DEF KeepLock
  <1>11. CASE CommitStart(i)
    <2>1. ReqType'
      BY <1>0, <1>11, FinishStep DEF CommitStart
    <2>2. row' \in [Sids -> Statuses]
      BY <1>0, <1>11 DEF CommitStart, Statuses
    <2> QED
      BY <1>0, <1>11, <2>1, <2>2 DEF CommitStart
  <1> QED
    BY <1>1, <1>2, <1>3, <1>4, <1>5, <1>6, <1>7, <1>8, <1>9, <1>10, <1>11

(* The steps of stops, status requests and failing requests.                 *)
LEMMA StopTypes ==
    ASSUME TypeOK, CloudConstants, NEW i \in ReqIds,
           \/ (\E s \in Sids : GetBegin(i, s) \/ StopBegin(i, s))
           \/ StopLooks(i) \/ StopContainer(i) \/ RemoveContainer(i) \/ Unlock(i) \/ CommitStop(i)
           \/ RequestFails(i)
    PROVE  TypeOK'
  <1> USE TypePartsNext
  <1>0. /\ ReqType /\ row \in [Sids -> Statuses] /\ box \in [Sids -> Boxes]
        /\ kept \subseteq Sids /\ tabs \subseteq Tabs /\ clean \subseteq Sids
    BY TypeParts
  <1>p. \A at \in {"exists", "stop", "remove", "unlock", "save"} :
            at \in Places["stop"] /\ at \in StopAt
    BY PlacesOf DEF StopAt
  <1>1. CASE \E s \in Sids : GetBegin(i, s)
    <2>1. PICK s \in Sids : GetBegin(i, s)
      BY <1>1
    <2>2. "ask" \in Places["get"] /\ "ask" \in StartAt
      BY PlacesOf DEF StartAt
    <2>3. WellFormed(Request("get", "ask", s))
      BY <1>0, <2>2, NewRequest DEF CloudConstants
    <2>4. ReqType'
      BY <1>0, <2>1, <2>3, ReqStep DEF GetBegin
    <2> QED
      BY <1>0, <2>1, <2>4 DEF GetBegin
  <1>2. CASE \E s \in Sids : StopBegin(i, s)
    <2>1. PICK s \in Sids : StopBegin(i, s)
      BY <1>2
    <2> DEFINE q == Request("stop", "exists", s)
               r == [q EXCEPT !.quiet = ~Starting(s)]
    <2>2. q \in Requests /\ q.at = "exists" /\ q.op = "stop" /\ q.sid = s
      <3>1. s # None
        BY DEF CloudConstants
      <3> QED
        BY <1>0, <1>p, <3>1, NewRequest
    <2>3. r \in Requests /\ r.at = "exists" /\ r.op = "stop" /\ r.sid = s
      <3>1. (~Starting(s)) \in BOOLEAN
        BY DEF Starting
      <3> HIDE DEF q
      <3> QED
        BY <2>2, <3>1 DEF Requests
    <2>4. WellFormed(r)
      BY <1>p, <2>3 DEF WellFormed, CloudConstants
    <2>5. ReqType'
      BY <1>0, <2>1, <2>4, ReqStep DEF StopBegin
    <2> QED
      BY <1>0, <2>1, <2>5 DEF StopBegin
  <1>3. CASE StopLooks(i)
    <2>1. ReqType'
      BY <1>0, <1>3, <1>p, AtFacts, GotoStep DEF StopLooks, CloudConstants
    <2> QED
      BY <1>0, <1>3, <2>1 DEF StopLooks
  <1>4. CASE StopContainer(i)
    <2>1. ReqType'
      BY <1>0, <1>4, <1>p, AtFacts, GotoStep DEF StopContainer, CloudConstants
    <2>2. box' \in [Sids -> Boxes] /\ tabs' \subseteq Tabs
      BY <1>0, <1>4 DEF StopContainer, Boxes, TabsWithout
    <2> QED
      BY <1>0, <1>4, <2>1, <2>2 DEF StopContainer
  <1>5. CASE RemoveContainer(i)
    <2>1. ReqType'
      BY <1>0, <1>5, <1>p, AtFacts, GotoStep DEF RemoveContainer, CloudConstants
    <2>2. box' \in [Sids -> Boxes]
      BY <1>0, <1>5 DEF RemoveContainer, Boxes
    <2> QED
      BY <1>0, <1>5, <2>1, <2>2 DEF RemoveContainer
  <1>6. CASE Unlock(i)
    <2>1. ReqType'
      BY <1>0, <1>6, <1>p, AtFacts, GotoStep DEF Unlock, CloudConstants
    <2> QED
      BY <1>0, <1>6, <2>1 DEF Unlock, Unlocked
  <1>7. CASE CommitStop(i)
    <2>1. ReqType'
      BY <1>0, <1>7, FinishStep DEF CommitStop
    <2>2. row' \in [Sids -> Statuses]
      BY <1>0, <1>7 DEF CommitStop, Col, Statuses
    <2>3. clean' \subseteq Sids
      BY <1>0, <1>7, AtFacts DEF CommitStop
    <2> QED
      BY <1>0, <1>7, <2>1, <2>2, <2>3 DEF CommitStop
  <1>8. CASE RequestFails(i)
    <2>1. ReqType'
      BY <1>0, <1>8, FinishStep DEF RequestFails
    <2> QED
      BY <1>0, <1>8, <2>1 DEF RequestFails
  <1> QED
    BY <1>1, <1>2, <1>3, <1>4, <1>5, <1>6, <1>7, <1>8

(* Tabs and faults.                                                          *)
LEMMA TabTypes ==
    ASSUME TypeOK, CloudConstants,
           \/ \E i \in ReqIds : CloseTab(i) \/ \E s \in Sids, t \in Tabs : CloseBegin(i, s, t)
           \/ \E s \in Sids, t \in Tabs : NewTab(s, t)
           \/ \E s \in Sids : ContainerDies(s)
           \/ ServerRestarts
    PROVE  TypeOK'
  <1> USE TypePartsNext
  <1>0. /\ ReqType /\ row \in [Sids -> Statuses] /\ box \in [Sids -> Boxes]
        /\ kept \subseteq Sids /\ tabs \subseteq Tabs /\ clean \subseteq Sids
    BY TypeParts
  <1>1. CASE \E i \in ReqIds : CloseTab(i)
    <2>1. PICK i \in ReqIds : CloseTab(i)
      BY <1>1
    <2>2. ASSUME NEW j \in ReqIds
          PROVE  req'[j] = Idle \/ WellFormed(req'[j])
      <3>1. \/ req'[j] = Idle
            \/ req[j] # Idle /\ req'[j] = req[j]
            \/ req[j] # Idle /\ req'[j] = [req[j] EXCEPT !.quiet = FALSE]
        BY <2>1 DEF CloseTab
      <3>2. CASE req[j] # Idle
        <4>1. WellFormed(req[j])
          BY <1>0, <3>2 DEF ReqType
        <4>2. WellFormed([req[j] EXCEPT !.quiet = FALSE])
          BY <4>1 DEF WellFormed, Requests
        <4> QED
          BY <3>1, <4>1, <4>2
      <3> QED
        BY <3>1, <3>2
    <2>3. req' \in [ReqIds -> Requests \cup {Idle}]
      <3>1. req' = [j \in ReqIds |-> req'[j]]
        BY <2>1 DEF CloseTab
      <3>2. \A j \in ReqIds : req'[j] \in Requests \cup {Idle}
        BY <2>2 DEF WellFormed
      <3> QED
        BY <3>1, <3>2
    <2>4. ReqType'
      BY <2>2, <2>3 DEF ReqType, WellFormed
    <2> QED
      BY <1>0, <2>1, <2>4 DEF CloseTab
  <1>2. CASE \E i \in ReqIds : \E s \in Sids, t \in Tabs : CloseBegin(i, s, t)
    <2>1. PICK i \in ReqIds, s \in Sids, t \in Tabs : CloseBegin(i, s, t)
      BY <1>2
    <2> DEFINE q == Request("close", "close", s)
               r == [q EXCEPT !.tab = t, !.quiet = TRUE]
    <2>2. q \in Requests /\ q.at = "close" /\ q.op = "close" /\ q.sid = s
      <3>1. s # None
        BY DEF CloudConstants
      <3> QED
        BY <1>0, PlacesOf, <3>1, NewRequest
    <2>3. r \in Requests /\ r.at = "close" /\ r.op = "close" /\ r.sid = s
      <3> HIDE DEF q
      <3> QED
        BY <2>2 DEF Requests
    <2>4. WellFormed(r)
      BY <2>3, PlacesOf DEF WellFormed, CloudConstants
    <2>5. ReqType'
      BY <1>0, <2>1, <2>4, ReqStep DEF CloseBegin
    <2> QED
      BY <1>0, <2>1, <2>5 DEF CloseBegin
  <1>3. CASE \E s \in Sids, t \in Tabs : NewTab(s, t)
    BY <1>0, <1>3 DEF NewTab, ReqType, WellFormed
  <1>4. CASE \E s \in Sids : ContainerDies(s)
    BY <1>0, <1>4 DEF ContainerDies, Boxes, ReqType, WellFormed
  <1>5. CASE ServerRestarts
    BY <1>0, <1>5 DEF ServerRestarts, ReqType, WellFormed
  <1> QED
    BY <1>1, <1>2, <1>3, <1>4, <1>5

(* Every step.                                                               *)
LEMMA TypeStep ==
    ASSUME TypeOK, [Next]_vars
    PROVE  TypeOK'
  <1>1. CASE UNCHANGED vars
    BY <1>1 DEF vars, TypeOK
  <1>2. CASE Next
    BY <1>2, StartTypes, StopTypes, TabTypes, CloudConstants DEF Next
  <1> QED
    BY <1>1, <1>2

(* Types: rows, containers, locks, tabs and requests keep them under every   *)
(* interleaving and fault.                                                   *)
THEOREM TypeCorrect == Spec => []TypeOK
  <1>1. Init => TypeOK
    BY DEF Init, TypeOK, Statuses, Boxes
  <1> QED
    BY <1>1, TypeStep, PTL DEF Spec

-----------------------------------------------------------------------------
(* The profile.                                                              *)

(* A step that starts no browser, takes no lock and checks no profile keeps  *)
(* the profile's invariants.                                                 *)
LEMMA CalmStep ==
    ASSUME OneStarter, CheckedIsIdle, ProfileExclusive,
           \A s \in Sids : box'[s] = "running" => box[s] = "running",
           \A i \in ReqIds : Locked(i)' => Locked(i),
           \A i \in ReqIds : At(i, "start", "checked")' => At(i, "start", "checked")
    PROVE  OneStarter' /\ CheckedIsIdle' /\ ProfileExclusive'
  <1>1. OneStarter'
    BY DEF OneStarter
  <1>2. CheckedIsIdle'
    BY DEF CheckedIsIdle
  <1>3. ProfileExclusive'
    BY DEF ProfileExclusive
  <1> QED
    BY <1>1, <1>2, <1>3

(* The request that steps is the only one whose place changes.               *)
LEMMA LocalStep ==
    ASSUME NEW i \in ReqIds, \A j \in ReqIds : j # i => req'[j] = req[j],
           req'[i] = Idle \/ req'[i].at \notin Locking
    PROVE  /\ \A j \in ReqIds : Locked(j)' => Locked(j)
           /\ \A j \in ReqIds : At(j, "start", "checked")' => At(j, "start", "checked")
  BY DEF Locked, At, Locking

(* The steps of a start that holds the lock.                                 *)
LEMMA StarterStep ==
    ASSUME ProfileInv, NEW i \in ReqIds,
           TakeLock(i) \/ CheckProfile(i) \/ RunContainer(i) \/ WaitReady(i) \/ CleanUp(i)
           \/ KeepLock(i)
    PROVE  OneStarter' /\ CheckedIsIdle' /\ ProfileExclusive'
  <1>0. ReqType /\ box \in [Sids -> Boxes] /\ OneStarter /\ CheckedIsIdle /\ ProfileExclusive
    BY TypeParts DEF ProfileInv
  <1>p. \A at \in {"locked", "checked", "waiting", "ready", "cleanup", "kept", "failed"} :
            at \in Places["start"] /\ at \in StartAt
    BY PlacesOf DEF StartAt, Locking
  <1>m. ASSUME NEW at \in {"locked", "checked", "waiting", "ready", "cleanup", "kept", "failed"},
               NEW from \in StartAt \ {"insert"}, At(i, "start", from), Goto(i, at)
        PROVE  /\ req'[i] # Idle /\ req'[i].at = at /\ req'[i].op = "start"
               /\ req[i] # Idle /\ req[i].at = from /\ req[i].sid \in Sids
               /\ \A j \in ReqIds : j # i => req'[j] = req[j]
    BY <1>0, <1>m, <1>p, AtFacts, GotoStep, CloudConstants DEF CloudConstants
  <1>s. \A from \in {"lock", "locked", "checked", "waiting", "ready", "cleanup"} :
            from \in StartAt \ {"insert"}
    BY DEF StartAt, Locking
  <1>1. CASE TakeLock(i)
    <2>1. CASE LockFree
      <3>1. /\ req'[i] # Idle /\ req'[i].at = "locked"
            /\ \A j \in ReqIds : j # i => req'[j] = req[j]
        BY <1>1, <1>m, <1>s, <2>1 DEF TakeLock
      <3>2. \A j \in ReqIds : ~Locked(j)
        BY <2>1 DEF LockFree, Locked
      <3>3. OneStarter'
        BY <3>1, <3>2 DEF OneStarter, Locked
      <3>4. CheckedIsIdle'
        BY <1>0, <1>1, <3>1 DEF CheckedIsIdle, At, TakeLock
      <3> QED
        BY <1>0, <1>1, <3>3, <3>4 DEF TakeLock, ProfileExclusive
    <2>2. CASE ~LockFree
      <3>1. /\ req'[i].at \notin Locking
            /\ \A j \in ReqIds : j # i => req'[j] = req[j]
        BY <1>1, <1>m, <1>s, <2>2 DEF TakeLock, Locking
      <3> QED
        BY <1>0, <1>1, <3>1, LocalStep, CalmStep DEF TakeLock
    <2> QED
      BY <2>1, <2>2
  <1>2. CASE CheckProfile(i)
    <2>0. At(i, "start", "locked") /\ box' = box
      BY <1>2 DEF CheckProfile
    <2>1. CASE ProfileIdle(req[i].sid) /\ Goto(i, "checked")
      <3>1. /\ req'[i] # Idle /\ req'[i].at = "checked" /\ req[i] # Idle /\ req[i].at = "locked"
            /\ \A j \in ReqIds : j # i => req'[j] = req[j]
        BY <1>m, <1>s, <2>0, <2>1
      <3>2. \A s \in Sids : box'[s] # "running"
        BY <2>0, <2>1 DEF ProfileIdle
      <3>3. OneStarter'
        BY <1>0, <3>1 DEF OneStarter, Locked, Locking
      <3> QED
        BY <3>2, <3>3 DEF CheckedIsIdle, ProfileExclusive
    <2>2. CASE Goto(i, "failed")
      <3>1. /\ req'[i].at \notin Locking
            /\ \A j \in ReqIds : j # i => req'[j] = req[j]
        BY <1>m, <1>s, <2>0, <2>2 DEF Locking
      <3> QED
        BY <1>0, <2>0, <3>1, LocalStep, CalmStep
    <2> QED
      BY <1>2, <2>1, <2>2 DEF CheckProfile
  <1>3. CASE RunContainer(i)
    <2>0. At(i, "start", "checked")
      BY <1>3 DEF RunContainer
    <2>1. PICK at \in {"waiting", "cleanup"} : Goto(i, at)
      BY <1>3 DEF RunContainer
    <2>2. /\ req'[i] # Idle /\ req'[i].at = at /\ req[i] # Idle /\ req[i].at = "checked"
          /\ req[i].sid \in Sids /\ \A j \in ReqIds : j # i => req'[j] = req[j]
      BY <1>m, <1>s, <2>0, <2>1
    <2>3. OneStarter'
      BY <1>0, <2>2 DEF OneStarter, Locked, Locking
    <2>4. \A s \in Sids : box[s] # "running"
      BY <1>0, <2>0 DEF CheckedIsIdle
    <2>5. \A s \in Sids : box'[s] = "running" => s = req[i].sid
      BY <1>0, <1>3, <2>2, <2>4 DEF RunContainer
    <2>6. ASSUME NEW j \in ReqIds, At(j, "start", "checked")'
          PROVE  FALSE
      <3>1. j # i
        BY <2>2, <2>6 DEF At
      <3>2. Locked(i) /\ Locked(j)
        BY <2>2, <2>6, <3>1 DEF At, Locked, Locking
      <3> QED
        BY <1>0, <3>1, <3>2 DEF OneStarter
    <2> QED
      BY <2>3, <2>5, <2>6 DEF CheckedIsIdle, ProfileExclusive
  <1>4. CASE WaitReady(i)
    <2>1. PICK at \in {"ready", "cleanup"} : Goto(i, at)
      BY <1>4 DEF WaitReady
    <2>2. /\ req'[i] # Idle /\ req'[i].at = at /\ req[i] # Idle /\ req[i].at = "waiting"
          /\ \A j \in ReqIds : j # i => req'[j] = req[j]
      BY <1>4, <1>m, <1>s, <2>1 DEF WaitReady
    <2>3. /\ \A j \in ReqIds : Locked(j)' => Locked(j)
          /\ \A j \in ReqIds : At(j, "start", "checked")' => At(j, "start", "checked")
      BY <2>2 DEF Locked, At, Locking
    <2> QED
      BY <1>0, <1>4, <2>3, CalmStep DEF WaitReady
  <1>5. CASE CleanUp(i)
    <2>1. /\ req'[i].at \notin Locking /\ req[i].sid \in Sids
          /\ \A j \in ReqIds : j # i => req'[j] = req[j]
      BY <1>5, <1>m, <1>s DEF CleanUp, Locking
    <2>2. \A s \in Sids : box'[s] = "running" => box[s] = "running"
      BY <1>0, <1>5, <2>1 DEF CleanUp
    <2> QED
      BY <1>0, <2>1, <2>2, LocalStep, CalmStep
  <1>6. CASE KeepLock(i)
    <2>1. /\ req'[i].at \notin Locking
          /\ \A j \in ReqIds : j # i => req'[j] = req[j]
      BY <1>6, <1>m, <1>s DEF KeepLock, Locking
    <2> QED
      BY <1>0, <1>6, <2>1, LocalStep, CalmStep DEF KeepLock
  <1> QED
    BY <1>1, <1>2, <1>3, <1>4, <1>5, <1>6

(* Every other step of a request leaves it outside the lock.                 *)
LEMMA OtherSteps ==
    ASSUME ProfileInv, NEW i \in ReqIds,
           \/ StartBegin(i) \/ AskStatus(i) \/ SaveStatus(i) \/ (\E s \in Sids : InsertSession(i, s))
           \/ CommitStart(i) \/ (\E s \in Sids : GetBegin(i, s) \/ StopBegin(i, s))
           \/ StopLooks(i) \/ StopContainer(i) \/ RemoveContainer(i) \/ Unlock(i) \/ CommitStop(i)
           \/ RequestFails(i) \/ (\E s \in Sids, t \in Tabs : CloseBegin(i, s, t))
    PROVE  OneStarter' /\ CheckedIsIdle' /\ ProfileExclusive'
  <1>0. ReqType /\ box \in [Sids -> Boxes] /\ OneStarter /\ CheckedIsIdle /\ ProfileExclusive
    BY TypeParts DEF ProfileInv
  <1> DEFINE Stays == /\ \A j \in ReqIds : j # i => req'[j] = req[j]
                      /\ req'[i] = Idle \/ req'[i].at \notin Locking
  <1>q. ASSUME NEW r, req' = [req EXCEPT ![i] = r], r = Idle \/ r.at \notin Locking
        PROVE  Stays
    BY <1>0, <1>q DEF ReqType
  <1>g. ASSUME NEW at, at \notin Locking, req[i] \in Requests, Goto(i, at)
        PROVE  Stays
    <2>1. [req[i] EXCEPT !.at = at].at = at
      BY <1>g DEF Requests
    <2> QED
      BY <1>g, <1>q, <2>1 DEF Goto
  <1>f. Finish(i) => Stays
    BY <1>q DEF Finish
  <1>r. \A op, at, s : Request(op, at, s).at = at
    BY DEF Request
  <1>l. \A at \in {"ask", "answered", "insert", "lock", "exists", "stop", "remove", "unlock",
                   "save", "close"} : at \notin Locking
    BY DEF Locking
  <1>b. \A op, at : At(i, op, at) => req[i] \in Requests
    BY <1>0, AtFacts
  <1> HIDE DEF Stays
  <1>c. ASSUME Stays, \A s \in Sids : box'[s] = "running" => box[s] = "running"
        PROVE  OneStarter' /\ CheckedIsIdle' /\ ProfileExclusive'
    BY <1>0, <1>c, LocalStep, CalmStep DEF Stays
  <1>1. CASE StartBegin(i)
    <2>1. Stays
      BY <1>1, <1>q, <1>r, <1>l DEF StartBegin
    <2> QED
      BY <1>1, <2>1, <1>c DEF StartBegin
  <1>2. CASE AskStatus(i)
    <2> DEFINE r == [req[i] EXCEPT !.at = "answered", !.seen = RunnerStatus(req[i].sid)]
    <2>1. r.at = "answered"
      <3>1. req[i] \in Requests
        BY <1>2, <1>b DEF AskStatus
      <3> QED
        BY <3>1 DEF Requests
    <2>2. req' = [req EXCEPT ![i] = r] /\ box' = box
      BY <1>2 DEF AskStatus
    <2> HIDE DEF r
    <2>3. Stays
      BY <2>1, <2>2, <1>q, <1>l
    <2> QED
      BY <2>2, <2>3, <1>c
  <1>3. CASE SaveStatus(i)
    <2>1. Finish(i) \/ req' = [req EXCEPT ![i] = Request("start", "insert", None)]
      BY <1>3 DEF SaveStatus
    <2>2. Stays
      BY <2>1, <1>f, <1>q, <1>r, <1>l
    <2> QED
      BY <1>3, <2>2, <1>c DEF SaveStatus
  <1>4. CASE \E s \in Sids : InsertSession(i, s)
    <2>1. PICK s \in Sids : InsertSession(i, s)
      BY <1>4
    <2> DEFINE r == [Request("start", "lock", s) EXCEPT !.old = "starting"]
    <2>2. r.at = "lock"
      BY DEF Request
    <2>3. req' = [req EXCEPT ![i] = r] /\ box' = box
      BY <2>1 DEF InsertSession
    <2> HIDE DEF r
    <2>4. Stays
      BY <2>2, <2>3, <1>q, <1>l
    <2> QED
      BY <2>3, <2>4, <1>c
  <1>5. CASE CommitStart(i)
    BY <1>5, <1>f, <1>c DEF CommitStart
  <1>6. CASE \E s \in Sids : GetBegin(i, s)
    <2>1. PICK s \in Sids : GetBegin(i, s)
      BY <1>6
    <2> DEFINE r == Request("get", "ask", s)
    <2>2. r.at = "ask"
      BY <1>r
    <2>3. req' = [req EXCEPT ![i] = r] /\ box' = box
      BY <2>1 DEF GetBegin
    <2> HIDE DEF r
    <2>4. Stays
      BY <2>2, <2>3, <1>q, <1>l
    <2> QED
      BY <2>3, <2>4, <1>c
  <1>7. CASE \E s \in Sids : StopBegin(i, s)
    <2>1. PICK s \in Sids : StopBegin(i, s)
      BY <1>7
    <2> DEFINE r == [Request("stop", "exists", s) EXCEPT !.quiet = ~Starting(s)]
    <2>2. r.at = "exists"
      BY DEF Request
    <2>3. req' = [req EXCEPT ![i] = r] /\ box' = box
      BY <2>1 DEF StopBegin
    <2> HIDE DEF r
    <2>4. Stays
      BY <2>2, <2>3, <1>q, <1>l
    <2> QED
      BY <2>3, <2>4, <1>c
  <1>8. CASE StopLooks(i)
    <2>1. Stays /\ box' = box
      BY <1>8, <1>b, <1>g, <1>l DEF StopLooks
    <2> QED
      BY <2>1, <1>c
  <1>9. CASE StopContainer(i)
    <2>1. Stays
      BY <1>9, <1>b, <1>g, <1>l DEF StopContainer
    <2>2. \A s \in Sids : box'[s] = "running" => box[s] = "running"
      BY <1>0, <1>9 DEF StopContainer
    <2> QED
      BY <2>1, <2>2, <1>c
  <1>10. CASE RemoveContainer(i)
    <2>1. Stays
      BY <1>10, <1>b, <1>g, <1>l DEF RemoveContainer
    <2>2. \A s \in Sids : box'[s] = "running" => box[s] = "running"
      BY <1>0, <1>10 DEF RemoveContainer
    <2> QED
      BY <2>1, <2>2, <1>c
  <1>11. CASE Unlock(i)
    <2>1. Stays /\ box' = box
      BY <1>11, <1>b, <1>g, <1>l DEF Unlock
    <2> QED
      BY <2>1, <1>c
  <1>12. CASE CommitStop(i)
    BY <1>12, <1>f, <1>c DEF CommitStop
  <1>13. CASE RequestFails(i)
    BY <1>13, <1>f, <1>c DEF RequestFails
  <1>14. CASE \E s \in Sids, t \in Tabs : CloseBegin(i, s, t)
    <2>1. PICK s \in Sids, t \in Tabs : CloseBegin(i, s, t)
      BY <1>14
    <2> DEFINE r == [Request("close", "close", s) EXCEPT !.tab = t, !.quiet = TRUE]
    <2>2. r.at = "close"
      BY DEF Request
    <2>3. req' = [req EXCEPT ![i] = r] /\ box' = box
      BY <2>1 DEF CloseBegin
    <2> HIDE DEF r
    <2>4. Stays
      BY <2>2, <2>3, <1>q, <1>l
    <2> QED
      BY <2>3, <2>4, <1>c
  <1> QED
    BY <1>1, <1>2, <1>3, <1>4, <1>5, <1>6, <1>7, <1>8, <1>9, <1>10, <1>11, <1>12, <1>13, <1>14

(* Tabs and faults start no browser and take no lock.                        *)
LEMMA FaultSteps ==
    ASSUME ProfileInv,
           \/ \E i \in ReqIds : CloseTab(i)
           \/ \E s \in Sids, t \in Tabs : NewTab(s, t)
           \/ \E s \in Sids : ContainerDies(s)
           \/ ServerRestarts
           \/ UNCHANGED vars
    PROVE  OneStarter' /\ CheckedIsIdle' /\ ProfileExclusive'
  <1>0. ReqType /\ box \in [Sids -> Boxes] /\ OneStarter /\ CheckedIsIdle /\ ProfileExclusive
    BY TypeParts DEF ProfileInv
  <1>1. CASE \E i \in ReqIds : CloseTab(i)
    <2>1. PICK i \in ReqIds : CloseTab(i)
      BY <1>1
    <2>2. ASSUME NEW j \in ReqIds, req'[j] # Idle
          PROVE  req[j] # Idle /\ req'[j].at = req[j].at /\ req'[j].op = req[j].op
      <3>1. /\ req[j] # Idle
            /\ req'[j] = req[j] \/ req'[j] = [req[j] EXCEPT !.quiet = FALSE]
        BY <2>1, <2>2 DEF CloseTab
      <3>2. req[j] \in Requests
        BY <1>0, <3>1 DEF ReqType
      <3> QED
        BY <3>1, <3>2 DEF Requests
    <2>3. \A j \in ReqIds : Locked(j)' => Locked(j)
      BY <2>2 DEF Locked
    <2>4. \A j \in ReqIds : At(j, "start", "checked")' => At(j, "start", "checked")
      BY <2>2 DEF At
    <2> QED
      BY <1>0, <2>1, <2>3, <2>4, CalmStep DEF CloseTab
  <1>2. CASE \E s \in Sids, t \in Tabs : NewTab(s, t)
    <2>1. box' = box /\ req' = req
      BY <1>2 DEF NewTab
    <2> QED
      BY <1>0, <2>1, CalmStep DEF Locked, At
  <1>3. CASE \E s \in Sids : ContainerDies(s)
    <2>1. req' = req /\ \A s \in Sids : box'[s] = "running" => box[s] = "running"
      BY <1>0, <1>3 DEF ContainerDies
    <2> QED
      BY <1>0, <2>1, CalmStep DEF Locked, At
  <1>4. CASE ServerRestarts
    <2>1. box' = box /\ \A i \in ReqIds : req'[i] = Idle
      BY <1>4 DEF ServerRestarts
    <2> QED
      BY <1>0, <2>1, CalmStep DEF Locked, At
  <1>5. CASE UNCHANGED vars
    <2>1. box' = box /\ req' = req
      BY <1>5 DEF vars
    <2> QED
      BY <1>0, <2>1, CalmStep DEF Locked, At
  <1> QED
    BY <1>1, <1>2, <1>3, <1>4, <1>5

(* The profile's invariant is inductive.                                     *)
LEMMA ProfileStep ==
    ASSUME ProfileInv, [Next]_vars
    PROVE  ProfileInv'
  <1>1. TypeOK'
    BY TypeStep DEF ProfileInv
  <1>2. OneStarter' /\ CheckedIsIdle' /\ ProfileExclusive'
    BY StarterStep, OtherSteps, FaultSteps DEF Next
  <1> QED
    BY <1>1, <1>2 DEF ProfileInv

(* Two browsers never run on one profile, for any number of sessions and     *)
(* requests and under every crash: start_session looks for a container after *)
(* it has the file lock, and runs its own before it gives the lock up.       *)
THEOREM OneBrowserPerProfile == Spec => []ProfileExclusive
  <1>1. Init => ProfileInv
    <2>1. Init => TypeOK
      BY DEF Init, TypeOK, Statuses, Boxes
    <2>2. Init => OneStarter /\ CheckedIsIdle /\ ProfileExclusive
      BY DEF Init, OneStarter, CheckedIsIdle, ProfileExclusive, Locked, At
    <2> QED
      BY <2>1, <2>2 DEF ProfileInv
  <1>2. ProfileInv => ProfileExclusive
    BY DEF ProfileInv
  <1> QED
    BY <1>1, <1>2, ProfileStep, PTL DEF Spec
-----------------------------------------------------------------------------
(* What a stop leaves behind, and the last tab.  A request for which         *)
(* StartOf(r, s) holds is starting session s.                                *)
StartOf(r, s) == r # Idle /\ r.op = "start" /\ r.sid = s /\ r.at \notin {"ask", "answered"}
Early == {"lock", "locked", "checked"}

(* What a step makes of a request r, as q: nothing, or                       *)
Same(r, q) == q = r /\ r # Idle
(* another place of its handler, where a stop is sure of what it removed;    *)
Moved(r, q) ==
    /\ r # Idle /\ q.op = r.op /\ q.sid = r.sid /\ q.quiet = r.quiet
    /\ q.op \in {"start", "stop"}
    /\ r.at \notin {"ask", "answered", "insert"} /\ q.at \notin {"ask", "answered", "insert"}
    /\ q.op = "start" /\ q.at \in Early => r.at \in Early
    /\ q.op = "stop" /\ q.at = "unlock" => box'[q.sid] = "absent"
    /\ q.op = "stop" /\ q.at = "save" =>
          r.at = "unlock" /\ box' = box /\ q.sid \notin kept'
(* podman's answer;                                                          *)
Asked(r, q) ==
    /\ r # Idle /\ q.op = r.op /\ q.sid = r.sid /\ q.op \in {"start", "get"}
    /\ q.at = "answered" /\ q.seen # "none"
(* a start that has no session yet, a question, and a start that inserts s;  *)
Unbound(q) == q.op = "start" /\ q.sid = None /\ q.at = "insert"
Asks(q) == q.op \in {"start", "get"} /\ q.at = "ask" /\ q.sid \in Sids /\ row[q.sid] # "none"
Inserts(q) == /\ q.op = "start" /\ q.at = "lock" /\ q.sid \in Sids
              /\ row[q.sid] = "none" /\ row'[q.sid] # "none"
(* a stop, a close, and a close whose count another close has made stale.    *)
Stops(q) == /\ q.op = "stop" /\ q.at = "exists" /\ q.sid \in Sids /\ row[q.sid] # "none"
            /\ q.quiet => ~Starting(q.sid)
Closes(q) == /\ q.op = "close" /\ q.at = "close" /\ q.sid \in Sids
             /\ Driveable(q.sid) /\ MayClose(q.tab) /\ tabs' = tabs
Stale(r, q) == r # Idle /\ q.op = "close" /\ q.at = "close" /\ q.sid = r.sid /\ ~q.quiet
Kind(r, q) ==
    \/ q = Idle \/ Same(r, q) \/ Moved(r, q) \/ Asked(r, q) \/ Unbound(q) \/ Asks(q)
    \/ Inserts(q) \/ Stops(q) \/ Closes(q) \/ Stale(r, q)
Kinds == \A j \in ReqIds : Kind(req[j], req'[j])

(* A step that sets one request makes of it what it says.                    *)
LEMMA OneKind ==
    ASSUME ReqType, NEW i \in ReqIds, NEW q, req' = [req EXCEPT ![i] = q], Kind(req[i], q)
    PROVE  Kinds
  <1>1. req'[i] = q /\ \A j \in ReqIds : j # i => req'[j] = req[j]
    BY DEF ReqType
  <1>2. \A j \in ReqIds : j # i => Kind(req[j], req'[j])
    BY <1>1 DEF Kind, Same
  <1> QED
    BY <1>1, <1>2 DEF Kinds

(* The fields of a request that goes to another place.                       *)
LEMMA GotoFields ==
    ASSUME NEW r \in Requests, NEW at
    PROVE  LET q == [r EXCEPT !.at = at]
           IN  q.at = at /\ q.op = r.op /\ q.sid = r.sid /\ q.quiet = r.quiet /\ q.tab = r.tab
  BY DEF Requests

(* A start moves on.                                                         *)
LEMMA StartMoves ==
    ASSUME ReqType, NEW i \in ReqIds, NEW from \in {"lock", "locked", "checked", "waiting", "ready", "cleanup"},
           At(i, "start", from),
           NEW at \in {"locked", "checked", "waiting", "ready", "cleanup", "kept", "failed"}, Goto(i, at),
           at \in Early => from \in Early
    PROVE  Kinds
  <1> DEFINE q == [req[i] EXCEPT !.at = at]
  <1>1. req[i] # Idle /\ req[i].op = "start" /\ req[i].at = from /\ req[i] \in Requests
    BY AtFacts
  <1>2. q.at = at /\ q.op = req[i].op /\ q.sid = req[i].sid /\ q.quiet = req[i].quiet
    BY <1>1, GotoFields
  <1>3. req' = [req EXCEPT ![i] = q]
    BY DEF Goto
  <1> HIDE DEF q
  <1>4. Moved(req[i], q)
    BY <1>1, <1>2 DEF Moved
  <1> QED
    BY <1>3, <1>4, OneKind DEF Kind

(* A stop moves on.                                                          *)
LEMMA StopMoves ==
    ASSUME ReqType, NEW i \in ReqIds, NEW from \in StopAt, At(i, "stop", from), NEW at \in StopAt, Goto(i, at),
           at = "unlock" => box'[req[i].sid] = "absent",
           at = "save" => from = "unlock" /\ box' = box /\ req[i].sid \notin kept'
    PROVE  Kinds
  <1> DEFINE q == [req[i] EXCEPT !.at = at]
  <1>1. req[i] # Idle /\ req[i].op = "stop" /\ req[i].at = from /\ req[i] \in Requests
    BY AtFacts
  <1>2. q.at = at /\ q.op = req[i].op /\ q.sid = req[i].sid /\ q.quiet = req[i].quiet
    BY <1>1, GotoFields
  <1>3. req' = [req EXCEPT ![i] = q]
    BY DEF Goto
  <1> HIDE DEF q
  <1>4. Moved(req[i], q)
    BY <1>1, <1>2 DEF Moved, StopAt
  <1> QED
    BY <1>3, <1>4, OneKind DEF Kind

(* What a start makes of the requests.                                       *)
LEMMA StartKinds ==
    ASSUME TypeOK, CloudConstants, NEW i \in ReqIds,
           \/ StartBegin(i) \/ AskStatus(i) \/ SaveStatus(i) \/ (\E s \in Sids : InsertSession(i, s))
           \/ TakeLock(i) \/ CheckProfile(i) \/ RunContainer(i) \/ WaitReady(i) \/ CleanUp(i)
           \/ KeepLock(i) \/ CommitStart(i)
    PROVE  Kinds
  <1>0. ReqType
    BY TypeParts
  <1>f. Finish(i) => Kinds
    BY <1>0, OneKind DEF Finish, Kind
  <1>u. req' = [req EXCEPT ![i] = Request("start", "insert", None)] => Kinds
    <2>1. Unbound(Request("start", "insert", None))
      BY DEF Unbound, Request
    <2> QED
      BY <1>0, <2>1, OneKind DEF Kind
  <1>1. CASE StartBegin(i)
    <2>1. ASSUME NEW s \in Sids, row[s] \in {"starting", "running"},
                 req' = [req EXCEPT ![i] = Request("start", "ask", s)]
          PROVE  Kinds
      <3>1. Asks(Request("start", "ask", s))
        BY <2>1 DEF Asks, Request
      <3> QED
        BY <1>0, <2>1, <3>1, OneKind DEF Kind
    <2> QED
      BY <1>1, <1>u, <2>1 DEF StartBegin
  <1>2. CASE AskStatus(i)
    <2> DEFINE q == [req[i] EXCEPT !.at = "answered", !.seen = RunnerStatus(req[i].sid)]
    <2>1. PICK op \in {"start", "get"} : At(i, op, "ask")
      BY <1>2 DEF AskStatus
    <2>2. req[i] # Idle /\ req[i] \in Requests /\ req[i].op = op
      BY <1>0, <2>1, AtFacts
    <2>3. RunnerStatus(req[i].sid) # "none"
      BY DEF RunnerStatus
    <2>4. /\ q.op = req[i].op /\ q.sid = req[i].sid /\ q.at = "answered"
          /\ q.seen = RunnerStatus(req[i].sid)
      BY <2>2 DEF Requests
    <2>5. req' = [req EXCEPT ![i] = q]
      BY <1>2 DEF AskStatus
    <2> HIDE DEF q
    <2>6. Asked(req[i], q)
      BY <2>2, <2>3, <2>4 DEF Asked
    <2> QED
      BY <1>0, <2>5, <2>6, OneKind DEF Kind
  <1>3. CASE SaveStatus(i)
    BY <1>3, <1>f, <1>u DEF SaveStatus
  <1>4. CASE \E s \in Sids : InsertSession(i, s)
    <2>1. PICK s \in Sids : InsertSession(i, s)
      BY <1>4
    <2> DEFINE q == [Request("start", "lock", s) EXCEPT !.old = "starting"]
    <2>a. row[s] = "none" /\ row'[s] # "none"
      BY <2>1, TypeParts DEF InsertSession
    <2>2. Inserts(q)
      BY <2>a DEF Inserts, Request
    <2>3. req' = [req EXCEPT ![i] = q]
      BY <2>1 DEF InsertSession
    <2> HIDE DEF q
    <2> QED
      BY <1>0, <2>2, <2>3, OneKind DEF Kind
  <1>5. CASE TakeLock(i)
    BY <1>0, <1>5, StartMoves DEF TakeLock, Early
  <1>6. CASE CheckProfile(i)
    BY <1>0, <1>6, StartMoves DEF CheckProfile, Early
  <1>7. CASE RunContainer(i)
    BY <1>0, <1>7, StartMoves DEF RunContainer, Early
  <1>8. CASE WaitReady(i)
    BY <1>0, <1>8, StartMoves DEF WaitReady, Early
  <1>9. CASE CleanUp(i)
    BY <1>0, <1>9, StartMoves DEF CleanUp, Early
  <1>10. CASE KeepLock(i)
    BY <1>0, <1>10, StartMoves DEF KeepLock, Early
  <1>11. CASE CommitStart(i)
    BY <1>11, <1>f DEF CommitStart
  <1> QED
    BY <1>1, <1>2, <1>3, <1>4, <1>5, <1>6, <1>7, <1>8, <1>9, <1>10, <1>11

(* What the other steps make of them.                                        *)
LEMMA OtherKinds ==
    ASSUME TypeOK, CloudConstants,
           \/ \E i \in ReqIds :
                 \/ \E s \in Sids : GetBegin(i, s) \/ StopBegin(i, s) \/ \E t \in Tabs : CloseBegin(i, s, t)
                 \/ StopLooks(i) \/ StopContainer(i) \/ RemoveContainer(i) \/ Unlock(i) \/ CommitStop(i)
                 \/ RequestFails(i) \/ CloseTab(i)
           \/ \E s \in Sids : ContainerDies(s) \/ \E t \in Tabs : NewTab(s, t)
           \/ ServerRestarts \/ UNCHANGED vars
    PROVE  Kinds
  <1>0. ReqType /\ box \in [Sids -> Boxes]
    BY TypeParts
  <1>p. {"exists", "stop", "remove", "unlock", "save"} \subseteq StopAt
    BY DEF StopAt
  <1>1. ASSUME NEW i \in ReqIds, NEW s \in Sids, GetBegin(i, s) PROVE Kinds
    <2>1. Asks(Request("get", "ask", s))
      BY <1>1 DEF Asks, Request, GetBegin
    <2> QED
      BY <1>0, <1>1, <2>1, OneKind DEF GetBegin, Kind
  <1>2. ASSUME NEW i \in ReqIds, NEW s \in Sids, StopBegin(i, s) PROVE Kinds
    <2> DEFINE q == [Request("stop", "exists", s) EXCEPT !.quiet = ~Starting(s)]
    <2>1. Stops(q)
      BY <1>2 DEF Stops, Request, StopBegin
    <2>2. req' = [req EXCEPT ![i] = q]
      BY <1>2 DEF StopBegin
    <2> HIDE DEF q
    <2> QED
      BY <1>0, <2>1, <2>2, OneKind DEF Kind
  <1>3. ASSUME NEW i \in ReqIds, NEW s \in Sids, NEW t \in Tabs, CloseBegin(i, s, t) PROVE Kinds
    <2> DEFINE q == [Request("close", "close", s) EXCEPT !.tab = t, !.quiet = TRUE]
    <2>1. Closes(q)
      BY <1>3 DEF Closes, Request, CloseBegin
    <2>2. req' = [req EXCEPT ![i] = q]
      BY <1>3 DEF CloseBegin
    <2> HIDE DEF q
    <2> QED
      BY <1>0, <2>1, <2>2, OneKind DEF Kind
  <1>4. ASSUME NEW i \in ReqIds, StopLooks(i) PROVE Kinds
    BY <1>0, <1>p, <1>4, StopMoves DEF StopLooks
  <1>5. ASSUME NEW i \in ReqIds, StopContainer(i) PROVE Kinds
    BY <1>0, <1>p, <1>5, StopMoves DEF StopContainer
  <1>6. ASSUME NEW i \in ReqIds, RemoveContainer(i) PROVE Kinds
    <2>1. box'[req[i].sid] = "absent"
      BY <1>0, <1>6, AtFacts DEF RemoveContainer
    <2> QED
      BY <1>0, <1>p, <1>6, <2>1, StopMoves DEF RemoveContainer
  <1>7. ASSUME NEW i \in ReqIds, Unlock(i) PROVE Kinds
    BY <1>0, <1>p, <1>7, StopMoves DEF Unlock, Unlocked
  <1>8. ASSUME NEW i \in ReqIds, CommitStop(i) \/ RequestFails(i) PROVE Kinds
    BY <1>0, <1>8, OneKind DEF Finish, Kind, CommitStop, RequestFails
  <1>9. ASSUME NEW i \in ReqIds, CloseTab(i) PROVE Kinds
    <2> SUFFICES ASSUME NEW j \in ReqIds PROVE Kind(req[j], req'[j])
      BY DEF Kinds
    <2>1. \/ req'[j] = Idle
          \/ req[j] # Idle /\ req'[j] = req[j]
          \/ req[j] # Idle /\ req[j].op = "close" /\ req'[j] = [req[j] EXCEPT !.quiet = FALSE]
      BY <1>9 DEF CloseTab
    <2>2. ASSUME req[j] # Idle, req[j].op = "close", req'[j] = [req[j] EXCEPT !.quiet = FALSE]
          PROVE  Stale(req[j], req'[j])
      <3>1. req[j] \in Requests /\ req[j].at = "close"
        BY <1>0, <2>2, PlacesOf DEF ReqType, WellFormed
      <3> QED
        BY <2>2, <3>1 DEF Stale, Requests
    <2> QED
      BY <2>1, <2>2 DEF Kind, Same
  <1>10. ASSUME req' = req PROVE Kinds
    BY <1>10 DEF Kinds, Kind, Same
  <1>11. ASSUME ServerRestarts PROVE Kinds
    BY <1>11 DEF ServerRestarts, Kinds, Kind
  <1> QED
    BY <1>1, <1>2, <1>3, <1>4, <1>5, <1>6, <1>7, <1>8, <1>9, <1>10, <1>11
       DEF ContainerDies, NewTab, vars

(* Every step makes of every request one of these.                           *)
LEMMA AllKinds ==
    ASSUME TypeOK, [Next]_vars
    PROVE  Kinds
  BY StartKinds, OtherKinds, CloudConstants DEF Next


(* The invariant of stops.  A request that names a session names one that    *)
(* has its row, and no row means no container: every start inserts its own.  *)
AnswersSay == \A i \in ReqIds : req[i] # Idle /\ req[i].at = "answered" => req[i].seen # "none"
SidsInserted == \A i \in ReqIds : req[i] # Idle /\ req[i].sid # None => row[req[i].sid] # "none"
NoRowNoBox == \A s \in Sids : row[s] = "none" => box[s] = "absent"
(* A session is started by one request, and before podman runs there is no   *)
(* container.                                                                *)
OneStart == \A s \in Sids : \A i, j \in ReqIds : StartOf(req[i], s) /\ StartOf(req[j], s) => i = j
EarlyAbsent == \A s \in Sids : \A i \in ReqIds :
                  StartOf(req[i], s) /\ req[i].at \in Early => box[s] = "absent"
(* A stop that met no start finds none later: the container it removed and   *)
(* the lock it closed stay gone, until it commits and after.                 *)
Done(s) == row[s] # "none" /\ ~Starting(s)
QuietStops ==
    \A i \in ReqIds : req[i] # Idle /\ req[i].op = "stop" /\ req[i].quiet =>
       /\ ~Starting(req[i].sid)
       /\ req[i].at \in {"unlock", "save"} => box[req[i].sid] = "absent"
       /\ req[i].at = "save" => req[i].sid \notin kept
CleanStays == \A s \in clean : Done(s) /\ box[s] = "absent" /\ s \notin kept
StopInv == /\ AnswersSay /\ SidsInserted /\ NoRowNoBox /\ OneStart /\ EarlyAbsent
           /\ QuietStops /\ CleanStays

(* A close that still counts right has another tab to leave.                 *)
QuietCloses ==
    \A i \in ReqIds : req[i] # Idle /\ req[i].op = "close" /\ req[i].quiet =>
       /\ \A j \in ReqIds : StartOf(req[j], req[i].sid) => req[j].at \notin Early
       /\ box[req[i].sid] = "running" => \E u \in tabs : u # req[i].tab


(* What a step does to the tables.  No row goes away;                        *)
LEMMA RowsStay ==
    ASSUME TypeOK, AnswersSay, [Next]_vars
    PROVE  \A s \in Sids : row[s] # "none" => row'[s] # "none"
  <1>0. ReqType /\ row \in [Sids -> Statuses]
    BY TypeParts
  <1>1. ASSUME NEW i \in ReqIds, SaveStatus(i) PROVE \A s \in Sids : row[s] # "none" => row'[s] # "none"
    <2>1. req[i].seen # "none" /\ req[i].sid \in Sids
      BY <1>0, <1>1, AtFacts DEF SaveStatus, AnswersSay
    <2> QED
      BY <1>0, <1>1, <2>1 DEF SaveStatus, Col
  <1>2. ASSUME NEW i \in ReqIds, NEW s \in Sids, InsertSession(i, s)
        PROVE  \A t \in Sids : row[t] # "none" => row'[t] # "none"
    BY <1>0, <1>2 DEF InsertSession
  <1>3. ASSUME NEW i \in ReqIds, CommitStart(i) PROVE \A s \in Sids : row[s] # "none" => row'[s] # "none"
    BY <1>0, <1>3, AtFacts DEF CommitStart
  <1>4. ASSUME NEW i \in ReqIds, CommitStop(i) PROVE \A s \in Sids : row[s] # "none" => row'[s] # "none"
    BY <1>0, <1>4, AtFacts DEF CommitStop, Col
  <1>5. ASSUME row' = row PROVE \A s \in Sids : row[s] # "none" => row'[s] # "none"
    BY <1>5
  <1> QED
    BY <1>1, <1>2, <1>3, <1>4, <1>5
       DEF Next, vars, StartBegin, AskStatus, TakeLock, CheckProfile, RunContainer, WaitReady, CleanUp,
           KeepLock, StopLooks, StopContainer, RemoveContainer, Unlock, CloseTab, RequestFails,
           GetBegin, StopBegin, CloseBegin, ContainerDies, NewTab, ServerRestarts


(* a container appears only under a start that has checked the profile;      *)
Runs(s) == \E k \in ReqIds : At(k, "start", "checked") /\ req[k].sid = s /\ req'[k] # Idle
                             /\ req'[k].at \notin Early
LEMMA BoxSteps ==
    ASSUME TypeOK, [Next]_vars
    PROVE  /\ \A s \in Sids : box[s] = "absent" /\ box'[s] # "absent" => Runs(s)
           /\ \A s \in Sids : box[s] # "running" /\ box'[s] = "running" => Runs(s)
  <1> DEFINE Goal == /\ \A s \in Sids : box[s] = "absent" /\ box'[s] # "absent" => Runs(s)
                     /\ \A s \in Sids : box[s] # "running" /\ box'[s] = "running" => Runs(s)
  <1>0. ReqType /\ box \in [Sids -> Boxes]
    BY TypeParts
  <1>1. ASSUME NEW i \in ReqIds, RunContainer(i) PROVE Goal
    <2>1. PICK at \in {"waiting", "cleanup"} : Goto(i, at)
      BY <1>1 DEF RunContainer
    <2>2. At(i, "start", "checked") /\ req[i] \in Requests /\ req[i].sid \in Sids
      BY <1>0, <1>1, AtFacts DEF RunContainer
    <2>3. req'[i] = [req[i] EXCEPT !.at = at] /\ [req[i] EXCEPT !.at = at] \in Requests
      <3>1. at \in StartAt
        BY DEF StartAt, Locking
      <3>2. [req[i] EXCEPT !.at = at] \in Requests
        BY <2>2, <3>1 DEF Requests
      <3> QED
        BY <1>0, <2>1, <3>2 DEF Goto, ReqType
    <2>4. req'[i] # Idle /\ req'[i].at = at
      BY <2>2, <2>3, RequestsBusy, GotoFields
    <2>5. Runs(req[i].sid)
      BY <2>2, <2>4 DEF Runs, Early
    <2>6. \A s \in Sids : s # req[i].sid => box'[s] = box[s]
      BY <1>0, <1>1 DEF RunContainer
    <2> QED
      BY <2>5, <2>6
  <1>2. ASSUME NEW i \in ReqIds, CleanUp(i) \/ StopContainer(i) \/ RemoveContainer(i) PROVE Goal
    BY <1>0, <1>2, AtFacts DEF CleanUp, StopContainer, RemoveContainer
  <1>3. ASSUME NEW s \in Sids, ContainerDies(s) PROVE Goal
    BY <1>0, <1>3 DEF ContainerDies
  <1>4. ASSUME box' = box PROVE Goal
    BY <1>4
  <1> HIDE DEF Goal
  <1>5. Goal
    BY <1>1, <1>2, <1>3, <1>4
       DEF Next, vars, StartBegin, AskStatus, SaveStatus, InsertSession, TakeLock, CheckProfile, WaitReady,
           KeepLock, CommitStart, StopLooks, Unlock, CommitStop, CloseTab, RequestFails,
           GetBegin, StopBegin, CloseBegin, NewTab, ServerRestarts
  <1> QED
    BY <1>5 DEF Goal

(* a lock is kept only for a session being started;                          *)
LEMMA KeptSteps ==
    ASSUME TypeOK, [Next]_vars
    PROVE  \A s \in Sids : s \in kept' => s \in kept \/ Starting(s)
  <1>0. ReqType
    BY TypeParts
  <1>1. ASSUME NEW i \in ReqIds, KeepLock(i)
        PROVE  \A s \in Sids : s \in kept' => s \in kept \/ Starting(s)
    BY <1>1 DEF KeepLock, At, Starting
  <1>2. ASSUME kept' \subseteq kept PROVE \A s \in Sids : s \in kept' => s \in kept
    BY <1>2
  <1> QED
    BY <1>1, <1>2
       DEF Next, vars, StartBegin, AskStatus, SaveStatus, InsertSession, TakeLock, CheckProfile, RunContainer,
           WaitReady, CleanUp, CommitStart, StopLooks, StopContainer, RemoveContainer, Unlock, Unlocked,
           CommitStop, CloseTab, RequestFails, GetBegin, StopBegin, CloseBegin, ContainerDies, NewTab,
           ServerRestarts

(* and a session is recorded as clean by a stop that saves.                  *)
LEMMA CleanSteps ==
    ASSUME TypeOK, [Next]_vars
    PROVE  \A s \in Sids : s \in clean' =>
              \/ s \in clean
              \/ /\ box' = box /\ kept' = kept
                 /\ \E i \in ReqIds : At(i, "stop", "save") /\ req[i].quiet /\ req[i].sid = s
  <1>1. ASSUME NEW i \in ReqIds, CommitStop(i), NEW s \in Sids, s \in clean', s \notin clean
        PROVE  box' = box /\ kept' = kept /\ At(i, "stop", "save") /\ req[i].quiet /\ req[i].sid = s
    BY <1>1 DEF CommitStop
  <1>2. (\E i \in ReqIds : CommitStop(i)) \/ clean' = clean
    BY DEF Next, vars, StartBegin, AskStatus, SaveStatus, InsertSession, TakeLock, CheckProfile, RunContainer,
           WaitReady, CleanUp, KeepLock, CommitStart, StopLooks, StopContainer, RemoveContainer, Unlock,
           CloseTab, RequestFails, GetBegin, StopBegin, CloseBegin, ContainerDies, NewTab,
           ServerRestarts
  <1> QED
    BY <1>1, <1>2

(* A new start of s needs a session id without a row.                        *)
LEMMA StartSteps ==
    ASSUME TypeOK, TypeOK', Kinds, NEW i \in ReqIds, NEW s \in Sids, StartOf(req'[i], s)
    PROVE  \/ row[s] = "none" /\ req'[i].at = "lock"
           \/ StartOf(req[i], s) /\ (req'[i].at \in Early => req[i].at \in Early)
  <1>1. Kind(req[i], req'[i])
    BY DEF Kinds
  <1>2. s # None
    BY CloudConstants DEF CloudConstants
  <1> QED
    BY <1>1, <1>2 DEF Kind, StartOf, Same, Moved, Asked, Unbound, Asks, Inserts, Stops, Closes, Stale


(* So a session that has started is not started again.                       *)
LEMMA DoneStays ==
    ASSUME TypeOK, TypeOK', Kinds, NEW s \in Sids, row[s] # "none", ~Starting(s)
    PROVE  ~Starting(s)'
  <1>1. ASSUME NEW i \in ReqIds, StartOf(req'[i], s) PROVE FALSE
    BY <1>1, StartSteps DEF Starting, StartOf
  <1> QED
    BY <1>1 DEF Starting, StartOf

(* The session of a request, once it has one.                                *)
LEMMA SidType ==
    ASSUME TypeOK, NEW i \in ReqIds, req[i] # Idle, req[i].sid # None
    PROVE  req[i].sid \in Sids
  BY DEF TypeOK, Requests

LEMMA AnswersStep ==
    ASSUME AnswersSay, Kinds
    PROVE  AnswersSay'
  <1> SUFFICES ASSUME NEW i \in ReqIds, req'[i] # Idle, req'[i].at = "answered"
               PROVE  req'[i].seen # "none"
    BY DEF AnswersSay
  <1> QED
    BY DEF AnswersSay, Kinds, Kind, Same, Moved, Asked, Unbound, Asks, Inserts, Stops, Closes, Stale

LEMMA SidsStep ==
    ASSUME TypeOK, AnswersSay, SidsInserted, Kinds, [Next]_vars
    PROVE  SidsInserted'
  <1> SUFFICES ASSUME NEW i \in ReqIds, req'[i] # Idle, req'[i].sid # None
               PROVE  row'[req'[i].sid] # "none"
    BY DEF SidsInserted
  <1>1. ASSUME req[i] # Idle, req'[i].sid = req[i].sid PROVE row'[req'[i].sid] # "none"
    BY <1>1, SidType, RowsStay DEF SidsInserted
  <1>2. ASSUME Asks(req'[i]) \/ Stops(req'[i]) \/ Closes(req'[i]) PROVE row'[req'[i].sid] # "none"
    BY <1>2, RowsStay DEF Asks, Stops, Closes, Driveable
  <1> QED
    BY <1>1, <1>2 DEF Kinds, Kind, Same, Moved, Asked, Unbound, Inserts, Stale


LEMMA NoRowStep ==
    ASSUME TypeOK, AnswersSay, SidsInserted, NoRowNoBox, [Next]_vars
    PROVE  NoRowNoBox'
  <1> SUFFICES ASSUME NEW s \in Sids, row'[s] = "none" PROVE box'[s] = "absent"
    BY DEF NoRowNoBox
  <1>1. row[s] = "none"
    BY RowsStay
  <1>2. box[s] = "absent"
    BY <1>1 DEF NoRowNoBox
  <1>3. ~Runs(s)
    BY <1>1, CloudConstants DEF Runs, At, SidsInserted, CloudConstants
  <1> QED
    BY <1>2, <1>3, BoxSteps

(* A session being started has its row.                                      *)
LEMMA StartedRow ==
    ASSUME SidsInserted, NEW i \in ReqIds, NEW s \in Sids, StartOf(req[i], s)
    PROVE  row[s] # "none"
  BY CloudConstants DEF SidsInserted, StartOf, CloudConstants

(* A step makes at most one start.                                           *)
LEMMA OneInsert ==
    ASSUME TypeOK, [Next]_vars, NEW i \in ReqIds, NEW j \in ReqIds,
           req'[i] # Idle, req'[i].op = "start", req'[i] # req[i],
           req'[j] # Idle, req'[j].op = "start", req'[j] # req[j]
    PROVE  i = j
  <1>0. ReqType
    BY TypeParts
  <1>1. ASSUME NEW k \in ReqIds, NEW q, req' = [req EXCEPT ![k] = q] PROVE i = j
    BY <1>0, <1>1 DEF ReqType
  <1>2. ASSUME NEW k \in ReqIds, CloseTab(k) PROVE i = j
    <2>1. req[i] # Idle /\ req[i].op = "close" /\ req'[i] = [req[i] EXCEPT !.quiet = FALSE]
      BY <1>2 DEF CloseTab
    <2>2. req[i] \in Requests
      BY <1>0, <2>1 DEF ReqType
    <2> QED
      BY <2>1, <2>2 DEF Requests
  <1>3. ASSUME ServerRestarts PROVE i = j
    BY <1>3 DEF ServerRestarts
  <1>4. ASSUME NEW k \in ReqIds,
               \/ StartBegin(k) \/ AskStatus(k) \/ SaveStatus(k) \/ TakeLock(k) \/ CheckProfile(k)
               \/ RunContainer(k) \/ WaitReady(k) \/ CleanUp(k) \/ KeepLock(k) \/ CommitStart(k)
        PROVE  i = j
    <2>1. Finish(k) => i = j
      BY <1>1 DEF Finish
    <2>2. \A at : Goto(k, at) => i = j
      BY <1>1 DEF Goto
    <2> QED
      BY <1>1, <1>4, <2>1, <2>2 DEF StartBegin, AskStatus, SaveStatus, TakeLock, CheckProfile, RunContainer,
             WaitReady, CleanUp, KeepLock, CommitStart
  <1>5. ASSUME NEW k \in ReqIds,
               \/ StopLooks(k) \/ StopContainer(k) \/ RemoveContainer(k) \/ Unlock(k) \/ CommitStop(k)
               \/ RequestFails(k)
               \/ \E s \in Sids : \/ InsertSession(k, s) \/ GetBegin(k, s) \/ StopBegin(k, s)
                                  \/ \E t \in Tabs : CloseBegin(k, s, t)
        PROVE  i = j
    <2>1. Finish(k) => i = j
      BY <1>1 DEF Finish
    <2>2. \A at : Goto(k, at) => i = j
      BY <1>1 DEF Goto
    <2> QED
      BY <1>1, <1>5, <2>1, <2>2 DEF StopLooks, StopContainer, RemoveContainer, Unlock, CommitStop, RequestFails,
             InsertSession, GetBegin, StopBegin, CloseBegin
  <1> QED
    BY <1>2, <1>3, <1>4, <1>5 DEF Next, vars, ContainerDies, NewTab

LEMMA OneStartStep ==
    ASSUME TypeOK, TypeOK', SidsInserted, OneStart, Kinds, [Next]_vars
    PROVE  OneStart'
  <1> SUFFICES ASSUME NEW s \in Sids, NEW i \in ReqIds, NEW j \in ReqIds,
                      StartOf(req'[i], s), StartOf(req'[j], s)
               PROVE  i = j
    BY DEF OneStart
  <1>1. CASE row[s] # "none"
    BY <1>1, StartSteps DEF OneStart
  <1>2. CASE row[s] = "none"
    <2>1. ~StartOf(req[i], s) /\ ~StartOf(req[j], s)
      BY <1>2, StartedRow
    <2>2. req'[i] # req[i] /\ req'[j] # req[j]
      BY <2>1
    <2> QED
      BY <2>2, OneInsert DEF StartOf
  <1> QED
    BY <1>1, <1>2

LEMMA EarlyStep ==
    ASSUME TypeOK, TypeOK', SidsInserted, NoRowNoBox, OneStart, EarlyAbsent, Kinds, [Next]_vars
    PROVE  EarlyAbsent'
  <1> SUFFICES ASSUME NEW s \in Sids, NEW i \in ReqIds, StartOf(req'[i], s), req'[i].at \in Early
               PROVE  box'[s] = "absent"
    BY DEF EarlyAbsent
  <1>1. box[s] = "absent"
    BY StartSteps DEF EarlyAbsent, NoRowNoBox
  <1>2. ASSUME Runs(s) PROVE FALSE
    <2>1. PICK k \in ReqIds : At(k, "start", "checked") /\ req[k].sid = s /\ req'[k].at \notin Early
      BY <1>2 DEF Runs
    <2>2. StartOf(req[k], s)
      BY <2>1 DEF At, StartOf
    <2>3. StartOf(req[i], s)
      BY <2>2, StartSteps, StartedRow
    <2>4. k = i
      BY <2>2, <2>3 DEF OneStart
    <2> QED
      BY <2>1, <2>4
  <1> QED
    BY <1>1, <1>2, BoxSteps

(* A session under no start runs no container and keeps no lock.             *)
LEMMA QuietSession ==
    ASSUME TypeOK, [Next]_vars, NEW s \in Sids, ~Starting(s)
    PROVE  /\ box[s] = "absent" => box'[s] = "absent"
           /\ s \notin kept => s \notin kept'
  <1>1. ~Runs(s)
    BY DEF Runs, At, Starting
  <1> QED
    BY <1>1, BoxSteps, KeptSteps

LEMMA QuietStopStep ==
    ASSUME TypeOK, TypeOK', SidsInserted, QuietStops, Kinds, [Next]_vars
    PROVE  QuietStops'
  <1> DEFINE StartsLater(s) == \E k \in ReqIds : StartOf(req'[k], s)
  <1>0. \A s \in Sids : row[s] # "none" /\ ~Starting(s) => ~StartsLater(s)
    BY DoneStays DEF Starting, StartOf
  <1> SUFFICES ASSUME NEW i \in ReqIds, req'[i] # Idle, req'[i].op = "stop", req'[i].quiet
               PROVE  /\ ~StartsLater(req'[i].sid)
                      /\ req'[i].at \in {"unlock", "save"} => box'[req'[i].sid] = "absent"
                      /\ req'[i].at = "save" => req'[i].sid \notin kept'
    BY DEF QuietStops, Starting, StartOf
  <1> DEFINE s == req'[i].sid
  <1>1. req'[i].at # "insert" /\ req'[i] \in Requests
    BY PlacesOf DEF TypeOK, StopAt
  <1>2. s \in Sids
    BY <1>1 DEF TypeOK, Requests
  <1>3. CASE Stops(req'[i])
    <2>1. row[s] # "none" /\ ~Starting(s) /\ req'[i].at = "exists"
      BY <1>3 DEF Stops
    <2>2. ~StartsLater(s)
      BY <1>2, <2>1, <1>0
    <2> QED
      BY <2>1, <2>2
  <1>4. CASE Same(req[i], req'[i]) \/ Moved(req[i], req'[i])
    <2>1. /\ req[i] # Idle /\ req[i].op = "stop" /\ req[i].quiet /\ req[i].sid = s
      BY <1>4 DEF Same, Moved
    <2>2. row[s] # "none" /\ ~Starting(s)
      BY <1>2, <2>1, CloudConstants DEF SidsInserted, QuietStops, CloudConstants
    <2>3. ~StartsLater(s)
      BY <1>2, <2>2, <1>0
    <2>4. /\ box[s] = "absent" => box'[s] = "absent"
          /\ s \notin kept => s \notin kept'
      BY <1>2, <2>2, QuietSession
    <2> QED
      BY <1>4, <2>1, <2>3, <2>4 DEF Same, Moved, QuietStops
  <1> QED
    BY <1>3, <1>4 DEF Kinds, Kind, Asked, Unbound, Asks, Inserts, Closes, Stale

LEMMA CleanStep ==
    ASSUME TypeOK, TypeOK', AnswersSay, SidsInserted, QuietStops, CleanStays, Kinds, [Next]_vars
    PROVE  CleanStays'
  <1> SUFFICES ASSUME NEW s \in clean' PROVE Done(s)' /\ box'[s] = "absent" /\ s \notin kept'
    BY DEF CleanStays
  <1>1. s \in Sids
    BY DEF TypeOK
  <1>2. Done(s) /\ box[s] = "absent" /\ s \notin kept
    <2>1. CASE s \in clean
      BY <2>1 DEF CleanStays
    <2>2. CASE s \notin clean
      <3>1. PICK i \in ReqIds : At(i, "stop", "save") /\ req[i].quiet /\ req[i].sid = s
        BY <1>1, <2>2, CleanSteps
      <3> QED
        BY <1>1, <3>1, CloudConstants DEF At, QuietStops, SidsInserted, Done, CloudConstants
    <2> QED
      BY <2>1, <2>2
  <1>3. row'[s] # "none" /\ ~Starting(s)'
    BY <1>1, <1>2, RowsStay, DoneStays DEF Done
  <1>4. box'[s] = "absent" /\ s \notin kept'
    BY <1>1, <1>2, QuietSession DEF Done
  <1> QED
    BY <1>3, <1>4 DEF Done

(* The invariant of stops is inductive.                                      *)
LEMMA StopStep ==
    ASSUME TypeOK, StopInv, [Next]_vars
    PROVE  StopInv'
  <1>1. TypeOK' /\ Kinds
    BY TypeStep, AllKinds
  <1> QED
    BY <1>1, AnswersStep, SidsStep, NoRowStep, OneStartStep, EarlyStep, QuietStopStep, CleanStep DEF StopInv

(* A stop that begins after the start has ended leaves no container and no   *)
(* lock, and none comes back (stop_session and PodmanBrowserRunner.stop),    *)
(* whatever other requests, failures and restarts come between.              *)
THEOREM StopsLeaveNothing == Spec => []StoppedIsClean
  <1>1. Init => TypeOK /\ StopInv
    <2>1. Init => TypeOK
      BY DEF Init, TypeOK, Statuses, Boxes
    <2>2. Init => StopInv
      BY DEF Init, StopInv, AnswersSay, SidsInserted, NoRowNoBox, OneStart, EarlyAbsent, QuietStops, CleanStays,
             StartOf
    <2> QED
      BY <2>1, <2>2
  <1>2. TypeOK /\ StopInv /\ [Next]_vars => (TypeOK /\ StopInv)'
    BY TypeStep, StopStep
  <1>3. StopInv => StoppedIsClean
    BY DEF StopInv, CleanStays, StoppedIsClean
  <1> QED
    BY <1>1, <1>2, <1>3, PTL DEF Spec


-----------------------------------------------------------------------------
(* The last tab.  A tab goes with its browser, or to a close, which makes    *)
(* every other count stale; only a new browser begins with new tabs.         *)
LEMMA TabSteps ==
    ASSUME ProfileInv, [Next]_vars
    PROVE  \/ tabs \subseteq tabs'
           \/ \A j \in ReqIds : req'[j] # Idle /\ req'[j].op = "close" => ~req'[j].quiet
           \/ \A s \in Sids : box'[s] = "running" => Runs(s)
  <1> DEFINE Goal == \/ tabs \subseteq tabs'
                     \/ \A j \in ReqIds : req'[j] # Idle /\ req'[j].op = "close" => ~req'[j].quiet
                     \/ \A s \in Sids : box'[s] = "running" => Runs(s)
  <1>0. ReqType /\ box \in [Sids -> Boxes] /\ CheckedIsIdle /\ ProfileExclusive /\ TypeOK
    BY TypeParts DEF ProfileInv
  <1>1. ASSUME NEW i \in ReqIds, RunContainer(i) PROVE Goal
    <2>1. \A s \in Sids : box[s] # "running"
      BY <1>0, <1>1 DEF RunContainer, CheckedIsIdle
    <2> QED
      BY <1>0, <2>1, BoxSteps
  <1>2. ASSUME NEW i \in ReqIds, CleanUp(i) \/ StopContainer(i) PROVE Goal
    <2>1. req[i].sid \in Sids
      BY <1>0, <1>2, AtFacts DEF CleanUp, StopContainer
    <2>2. CASE box[req[i].sid] = "running" /\ tabs' # tabs
      <3>1. \A s \in Sids : s # req[i].sid => box[s] # "running"
        BY <1>0, <2>1, <2>2 DEF ProfileExclusive
      <3>2. \A s \in Sids : box'[s] # "running"
        BY <1>0, <1>2, <2>1, <2>2, <3>1 DEF CleanUp, StopContainer
      <3> QED
        BY <3>2
    <2>3. CASE box[req[i].sid] # "running" \/ tabs' = tabs
      BY <1>2, <2>3 DEF CleanUp, StopContainer, TabsWithout
    <2> QED
      BY <2>2, <2>3
  <1>3. ASSUME NEW s \in Sids, ContainerDies(s) PROVE Goal
    <2>1. \A t \in Sids : box'[t] # "running"
      BY <1>0, <1>3 DEF ContainerDies, ProfileExclusive
    <2> QED
      BY <2>1
  <1>4. ASSUME NEW i \in ReqIds, CloseTab(i) PROVE Goal
    <2>1. ASSUME tabs' # tabs, NEW j \in ReqIds, req'[j] # Idle, req'[j].op = "close" PROVE ~req'[j].quiet
      <3>1. req[j] # Idle /\ (req'[j] = req[j] \/ req'[j] = [req[j] EXCEPT !.quiet = FALSE])
        BY <1>4, <2>1 DEF CloseTab
      <3>2. req[j] \in Requests
        BY <1>0, <3>1 DEF ReqType
      <3>3. req[j].op = "close"
        BY <2>1, <3>1, <3>2 DEF Requests
      <3>4. req'[j] = [req[j] EXCEPT !.quiet = FALSE]
        BY <1>4, <2>1, <3>3 DEF CloseTab
      <3> QED
        BY <3>2, <3>4 DEF Requests
    <2> QED
      BY <2>1
  <1>5. ASSUME NEW s \in Sids, NEW t \in Tabs, NewTab(s, t) PROVE Goal
    BY <1>5 DEF NewTab
  <1>6. ASSUME tabs' = tabs PROVE Goal
    BY <1>6
  <1> HIDE DEF Goal
  <1>7. Goal
    BY <1>1, <1>2, <1>3, <1>4, <1>5, <1>6
       DEF Next, vars, StartBegin, AskStatus, SaveStatus, InsertSession, TakeLock, CheckProfile, WaitReady,
           KeepLock, CommitStart, StopLooks, RemoveContainer, Unlock, CommitStop, RequestFails,
           GetBegin, StopBegin, CloseBegin, ServerRestarts
  <1> QED
    BY <1>7 DEF Goal

(* A close that may go ahead leaves a tab behind.                            *)
LEMMA AnotherTab ==
    ASSUME NEW t, MayClose(t)
    PROVE  \E u \in tabs : u # t
  <1>1. ASSUME \A u \in tabs : u = t PROVE FALSE
    <2>1. tabs = {t}
      BY <1>1 DEF MayClose, Listed
    <2>2. Cardinality(tabs) = 1
      BY <2>1, FS_Singleton
    <2> QED
      BY <2>2 DEF MayClose
  <1> QED
    BY <1>1

(* The invariant of closes is inductive.                                     *)
LEMMA CloseStep ==
    ASSUME ProfileInv, StopInv, QuietCloses, [Next]_vars
    PROVE  QuietCloses'
  <1>0. TypeOK /\ TypeOK' /\ Kinds /\ SidsInserted /\ EarlyAbsent
    BY TypeStep, AllKinds DEF ProfileInv, StopInv
  <1> SUFFICES ASSUME NEW i \in ReqIds, req'[i] # Idle, req'[i].op = "close", req'[i].quiet
               PROVE  /\ \A j \in ReqIds : StartOf(req'[j], req'[i].sid) => req'[j].at \notin Early
                      /\ box'[req'[i].sid] = "running" => \E u \in tabs' : u # req'[i].tab
    BY DEF QuietCloses
  <1> DEFINE s == req'[i].sid
  <1>1. s \in Sids
    <2>1. req'[i].at = "close" /\ req'[i] \in Requests
      BY <1>0, PlacesOf DEF TypeOK
    <2> QED
      BY <1>0, <2>1 DEF TypeOK, Requests
  <1>2. /\ row[s] # "none"
        /\ \A j \in ReqIds : StartOf(req[j], s) => req[j].at \notin Early
        /\ box[s] = "running" => \E u \in tabs : u # req'[i].tab
    <2>1. CASE Same(req[i], req'[i])
      BY <1>0, <1>1, <2>1, CloudConstants DEF Same, QuietCloses, SidsInserted, CloudConstants
    <2>2. CASE Closes(req'[i])
      <3>1. row[s] = "running" /\ box[s] = "running"
        BY <2>2 DEF Closes, Driveable
      <3>2. \E u \in tabs : u # req'[i].tab
        BY <2>2, AnotherTab DEF Closes
      <3>3. ASSUME NEW j \in ReqIds, StartOf(req[j], s), req[j].at \in Early PROVE FALSE
        BY <1>0, <1>1, <3>1, <3>3 DEF EarlyAbsent
      <3> QED
        BY <3>1, <3>2, <3>3
    <2> QED
      BY <1>0, <2>1, <2>2 DEF Kinds, Kind, Moved, Asked, Unbound, Asks, Inserts, Stops, Stale
  <1>3. \A j \in ReqIds : StartOf(req'[j], s) => req'[j].at \notin Early
    BY <1>0, <1>1, <1>2, StartSteps
  <1>4. ~Runs(s)
    BY <1>2 DEF Runs, At, StartOf, Early
  <1>5. ASSUME box'[s] = "running" PROVE \E u \in tabs' : u # req'[i].tab
    <2>1. box[s] = "running"
      BY <1>0, <1>1, <1>4, <1>5, BoxSteps
    <2>2. tabs \subseteq tabs'
      BY <1>1, <1>4, <1>5, TabSteps
    <2> QED
      BY <1>2, <2>1, <2>2
  <1> QED
    BY <1>3, <1>5

(* A running browser loses its last tab to a close only.                     *)
LEMMA LastTabGoes ==
    ASSUME TypeOK, [Next]_vars, tabs # {}, tabs' = {}, box' = box
    PROVE  \E i \in ReqIds : CloseTab(i)
  <1>0. ReqType /\ box \in [Sids -> Boxes]
    BY TypeParts
  <1>1. ASSUME NEW i \in ReqIds, RunContainer(i) PROVE FALSE
    BY <1>1 DEF RunContainer
  <1>2. ASSUME NEW i \in ReqIds, CleanUp(i) \/ StopContainer(i) PROVE FALSE
    <2>1. req[i].sid \in Sids
      BY <1>0, <1>2, AtFacts DEF CleanUp, StopContainer
    <2>2. box[req[i].sid] = "running"
      BY <1>2 DEF CleanUp, StopContainer, TabsWithout
    <2>3. box'[req[i].sid] # "running"
      BY <1>0, <1>2, <2>1 DEF CleanUp, StopContainer
    <2> QED
      BY <2>2, <2>3
  <1>3. ASSUME NEW s \in Sids, ContainerDies(s) PROVE FALSE
    <2>1. box[s] = "running" /\ box'[s] = "exited"
      BY <1>0, <1>3 DEF ContainerDies
    <2> QED
      BY <2>1
  <1>4. ASSUME NEW s \in Sids, NEW t \in Tabs, NewTab(s, t) PROVE FALSE
    BY <1>4 DEF NewTab
  <1> QED
    BY <1>1, <1>2, <1>3, <1>4
       DEF Next, vars, StartBegin, AskStatus, SaveStatus, InsertSession, TakeLock, CheckProfile, WaitReady,
           KeepLock, CommitStart, StopLooks, RemoveContainer, Unlock, CommitStop, RequestFails,
           GetBegin, StopBegin, CloseBegin, ServerRestarts

(* "The last browser tab cannot be closed" (CDPBrowserControl.close): a      *)
(* browser that goes on running loses its last tab only to a close whose     *)
(* count another close has made stale.                                       *)
THEOREM LastTabKept == Spec => LastTabStays
  <1> DEFINE Inv == ProfileInv /\ StopInv /\ QuietCloses
             Fall == tabs # {} /\ tabs' = {} /\ box' = box
                       => \E i \in ReqIds : At(i, "close", "close") /\ ~req[i].quiet
  <1>1. Init => Inv
    <2>1. Init => TypeOK
      BY DEF Init, TypeOK, Statuses, Boxes
    <2>2. Init => OneStarter /\ CheckedIsIdle /\ ProfileExclusive
      BY DEF Init, OneStarter, CheckedIsIdle, ProfileExclusive, Locked, At
    <2>3. Init => StopInv /\ QuietCloses
      BY DEF Init, StopInv, AnswersSay, SidsInserted, NoRowNoBox, OneStart, EarlyAbsent, QuietStops, CleanStays,
             StartOf, QuietCloses
    <2> QED
      BY <2>1, <2>2, <2>3 DEF ProfileInv
  <1>2. Inv /\ [Next]_vars => Inv'
    BY ProfileStep, StopStep, CloseStep DEF ProfileInv
  <1>3. Inv /\ [Next]_vars => [Fall]_vars
    <2> SUFFICES ASSUME Inv, [Next]_vars, tabs # {}, tabs' = {}, box' = box
                 PROVE  \E i \in ReqIds : At(i, "close", "close") /\ ~req[i].quiet
      OBVIOUS
    <2>1. PICK i \in ReqIds : CloseTab(i)
      BY LastTabGoes DEF ProfileInv
    <2>2. At(i, "close", "close") /\ box[req[i].sid] = "running" /\ tabs' = tabs \ {req[i].tab}
      BY <2>1 DEF CloseTab
    <2>3. \A u \in tabs : u = req[i].tab
      BY <2>2
    <2>4. ~req[i].quiet
      BY <2>2, <2>3 DEF QuietCloses, At
    <2> QED
      BY <2>2, <2>4
  <1> QED
    BY <1>1, <1>2, <1>3, PTL DEF Spec, LastTabStays
=============================================================================
