-------------------------- MODULE EdgeTunnel_proofs --------------------------
(***************************************************************************)
(* Proofs about EdgeTunnel for any number of handlers and tickets and any  *)
(* limits.                                                                 *)
(***************************************************************************)
EXTENDS EdgeTunnel, FiniteSetTheorems, TLAPS

(* A handler state that respects the byte limit.                             *)
Good(h) == h \in Handlers /\ h.relayed <= h.bytes /\ h.relayed <= MaxBytes

LEMMA GoodConn ==
    ASSUME TunnelInv, NEW c \in Conns
    PROVE  Good(conn[c])
  BY DEF TunnelInv, TypeOK, ByteLimit, RelayedAccounted, Good

LEMMA TunnelsFinite == IsFiniteSet(Tunnels) /\ Cardinality(Tunnels) \in Nat
  <1>1. Tunnels \in SUBSET Conns
    BY DEF Tunnels
  <1> QED
    BY <1>1, TunnelConstants, FS_Subset, FS_CardinalityType DEF TunnelConstants

(* How a change of one handler changes the set of tunnels.                   *)
LEMMA TunnelsChange ==
    ASSUME TunnelInv, NEW c \in Conns, NEW h \in Handlers, Set(c, h)
    PROVE  Tunnels' = IF h.pc \in Holding THEN Tunnels \cup {c} ELSE Tunnels \ {c}
  <1>1. \A d \in Conns : conn'[d] = IF d = c THEN h ELSE conn[d]
    BY DEF TunnelInv, TypeOK, Set
  <1> QED
    BY <1>1 DEF Tunnels

(* The handler-local half of the invariant after such a change.              *)
LEMMA HandlerStep ==
    ASSUME TunnelInv, NEW c \in Conns, NEW h, Good(h), Set(c, h)
    PROVE  /\ conn' \in [Conns -> Handlers]
           /\ ByteLimit' /\ RelayedAccounted'
  <1>1. conn' \in [Conns -> Handlers]
    BY DEF TunnelInv, TypeOK, Set, Good
  <1>2. \A d \in Conns : conn'[d] = IF d = c THEN h ELSE conn[d]
    BY DEF TunnelInv, TypeOK, Set
  <1> QED
    BY <1>1, <1>2 DEF TunnelInv, ByteLimit, RelayedAccounted, Good

(* A step of one handler that keeps its slot, or never had one.              *)
LEMMA ConnStep ==
    ASSUME TunnelInv, NEW c \in Conns, NEW h, Good(h), Set(c, h), ConnOnly,
           h.pc \in Holding <=> conn[c].pc \in Holding
    PROVE  TunnelInv'
  <1>1. Tunnels' = Tunnels
    <2>1. c \in Tunnels <=> h.pc \in Holding
      BY DEF Tunnels
    <2>2. Tunnels' = IF h.pc \in Holding THEN Tunnels \cup {c} ELSE Tunnels \ {c}
      BY TunnelsChange DEF Good
    <2> QED
      BY <2>1, <2>2
  <1>2. SlotsAccounted'
    BY <1>1 DEF TunnelInv, SlotsAccounted, ConnOnly
  <1> QED
    BY <1>2, HandlerStep
    DEF TunnelInv, TypeOK, ConnOnly, OneUseWhileValid, UsesRemembered

(* A handler ends: its slot is released, or lost.                            *)
LEMMA EndStep ==
    ASSUME TunnelInv, NEW c \in Conns, NEW h, Good(h), Set(c, h),
           conn[c].pc \in Holding, h.pc \notin Holding,
           \/ active' = active - 1 /\ leaked' = leaked
           \/ active' = active /\ leaked' = leaked + 1,
           UNCHANGED <<clock, claims, cache, validUses>>
    PROVE  TunnelInv'
  <1>1. Tunnels' = Tunnels \ {c} /\ c \in Tunnels
    BY TunnelsChange DEF Good, Tunnels
  <1>2. Cardinality(Tunnels') = Cardinality(Tunnels) - 1
    BY <1>1, TunnelsFinite, FS_RemoveElement
  <1>3. Cardinality(Tunnels') \in Nat
    BY <1>1, TunnelsFinite, FS_RemoveElement, FS_CardinalityType
  <1>4. active \in Nat /\ leaked \in Nat /\ MaxConnections \in Nat
        /\ active = Cardinality(Tunnels) + leaked /\ active <= MaxConnections
    BY TunnelConstants DEF TunnelInv, TypeOK, SlotsAccounted, TunnelConstants
  <1>5. SlotsAccounted' /\ active' \in Nat /\ leaked' \in Nat
    BY <1>2, <1>3, <1>4, TunnelsFinite DEF SlotsAccounted
  <1> QED
    BY <1>5, HandlerStep
    DEF TunnelInv, TypeOK, OneUseWhileValid, UsesRemembered

LEMMA BareGood ==
    ASSUME NEW pc \in Points, NEW t \in Tickets \cup {None},
           NEW y \in SUBSET {"accepted", "denied"}
    PROVE  Good(Bare(pc, t, y))
  <1>1. 0 \in Nat /\ 0 <= MaxBytes /\ "none" \in Tasks /\ 0 \in Codes
    BY TunnelConstants DEF TunnelConstants, Tasks, Codes
  <1>2. Bare(pc, t, y) \in Handlers
    BY <1>1 DEF Bare, Handlers
  <1>3. Bare(pc, t, y).relayed = 0 /\ Bare(pc, t, y).bytes = 0
    BY DEF Bare
  <1> QED
    BY <1>1, <1>2, <1>3 DEF Good

LEMMA FreeGood == Good(Free) /\ Free.pc = "free"
  <1>1. Good(Free)
    BY BareGood DEF Free, Points
  <1> QED
    BY <1>1 DEF Free, Bare

LEMMA InitInv == Init => TunnelInv
  <1> SUFFICES ASSUME Init PROVE TunnelInv
    OBVIOUS
  <1>1. \A c \in Conns : conn[c] = Free
    BY DEF Init
  <1>2. TypeOK
    <2>1. conn \in [Conns -> Handlers]
      BY FreeGood DEF Init, Good
    <2>2. Unissued \in [iat : Nat, exp : Nat] /\ 0 \in Time /\ 0 \in Nat
      BY TunnelConstants DEF Unissued, Time, TunnelConstants
    <2> QED
      BY <2>1, <2>2 DEF Init, TypeOK
  <1>3. Tunnels = {}
    BY <1>1, FreeGood DEF Tunnels, Holding
  <1>4. SlotsAccounted
    BY <1>3, FS_EmptySet, TunnelConstants DEF Init, SlotsAccounted, TunnelConstants
  <1>5. ByteLimit /\ RelayedAccounted
    BY <1>1, FreeGood DEF ByteLimit, RelayedAccounted, Good
  <1>6. OneUseWhileValid /\ UsesRemembered
    BY DEF Init, OneUseWhileValid, UsesRemembered
  <1> QED
    BY <1>2, <1>4, <1>5, <1>6 DEF TunnelInv

(* Changes of a handler that move no data.                                   *)
LEMMA GoodTally ==
    ASSUME NEW h, Good(h), NEW pc \in Points, NEW y \in SUBSET {"accepted", "denied"}
    PROVE  Good([h EXCEPT !.pc = pc, !.tally = y]) /\ [h EXCEPT !.pc = pc, !.tally = y].pc = pc
  BY DEF Good, Handlers

LEMMA GoodReturn ==
    ASSUME NEW h, Good(h), NEW pc \in Points, NEW code \in Codes
    PROVE  Good([h EXCEPT !.pc = pc, !.code = code]) /\ [h EXCEPT !.pc = pc, !.code = code].pc = pc
  BY DEF Good, Handlers

LEMMA GoodFlag ==
    ASSUME NEW h, Good(h), NEW k \in Tasks, NEW b \in BOOLEAN
    PROVE  /\ Good([h EXCEPT !.up = k]) /\ [h EXCEPT !.up = k].pc = h.pc
           /\ Good([h EXCEPT !.up = k, !.limit = b]) /\ [h EXCEPT !.up = k, !.limit = b].pc = h.pc
           /\ Good([h EXCEPT !.down = k]) /\ [h EXCEPT !.down = k].pc = h.pc
           /\ Good([h EXCEPT !.down = k, !.limit = b]) /\ [h EXCEPT !.down = k, !.limit = b].pc = h.pc
           /\ Good([h EXCEPT !.down = k, !.clogged = b]) /\ [h EXCEPT !.down = k, !.clogged = b].pc = h.pc
           /\ Good([h EXCEPT !.clogged = b, !.down = k]) /\ [h EXCEPT !.clogged = b, !.down = k].pc = h.pc
           /\ Good([h EXCEPT !.stalled = b]) /\ [h EXCEPT !.stalled = b].pc = h.pc
           /\ Good([h EXCEPT !.clogged = b]) /\ [h EXCEPT !.clogged = b].pc = h.pc
  <1>1. Good([h EXCEPT !.up = k]) /\ [h EXCEPT !.up = k].pc = h.pc
    BY DEF Good, Handlers
  <1>2. Good([h EXCEPT !.up = k, !.limit = b]) /\ [h EXCEPT !.up = k, !.limit = b].pc = h.pc
    BY DEF Good, Handlers
  <1>3. Good([h EXCEPT !.down = k]) /\ [h EXCEPT !.down = k].pc = h.pc
    BY DEF Good, Handlers
  <1>4. Good([h EXCEPT !.down = k, !.limit = b]) /\ [h EXCEPT !.down = k, !.limit = b].pc = h.pc
    BY DEF Good, Handlers
  <1>5. Good([h EXCEPT !.down = k, !.clogged = b]) /\ [h EXCEPT !.down = k, !.clogged = b].pc = h.pc
    BY DEF Good, Handlers
  <1>6. Good([h EXCEPT !.clogged = b, !.down = k]) /\ [h EXCEPT !.clogged = b, !.down = k].pc = h.pc
    BY DEF Good, Handlers
  <1>7. Good([h EXCEPT !.stalled = b]) /\ [h EXCEPT !.stalled = b].pc = h.pc
    BY DEF Good, Handlers
  <1>8. Good([h EXCEPT !.clogged = b]) /\ [h EXCEPT !.clogged = b].pc = h.pc
    BY DEF Good, Handlers
  <1> QED
    BY <1>1, <1>2, <1>3, <1>4, <1>5, <1>6, <1>7, <1>8

LEMMA GoodCode ==
    ASSUME NEW h, Good(h), NEW k \in Tasks, NEW code \in Codes
    PROVE  Good([h EXCEPT !.up = k, !.code = code]) /\ [h EXCEPT !.up = k, !.code = code].pc = h.pc
  BY DEF Good, Handlers

LEMMA ClosingGood ==
    ASSUME NEW h, Good(h)
    PROVE  Good(Closing(h)) /\ Closing(h).pc = "closing"
  <1>1. "closing" \in Points /\ "none" \in Tasks
    BY DEF Points, Holding, Tasks
  <1>2. h \in Handlers
    BY DEF Good
  <1>3. Closing(h) \in Handlers
    BY <1>1, <1>2 DEF Closing, Handlers
  <1> QED
    BY <1>2, <1>3 DEF Good, Closing, Handlers

LEMMA AccountGood ==
    ASSUME NEW h, Good(h), NEW n \in Nat
    PROVE  /\ Good(Account(h, n).h) /\ Account(h, n).h.pc = h.pc
           /\ Account(h, n).ok \in BOOLEAN
  <1>1. h \in Handlers /\ h.bytes \in Nat /\ h.relayed \in Nat /\ MaxBytes \in Nat
        /\ h.relayed <= h.bytes /\ h.relayed <= MaxBytes
    BY TunnelConstants DEF Good, Handlers, TunnelConstants
  <1>2. h.bytes + n \in Nat /\ h.relayed + n \in Nat
    BY <1>1
  <1>3. CASE h.bytes + n > MaxBytes
    <2>1. [h EXCEPT !.bytes = h.bytes + n] \in Handlers
      BY <1>1, <1>2 DEF Handlers
    <2> DEFINE r == [h EXCEPT !.bytes = h.bytes + n]
    <2>2. r.pc = h.pc /\ r.bytes = h.bytes + n /\ r.relayed = h.relayed
      BY <1>1 DEF Handlers
    <2>3. Good(r)
      BY <1>1, <2>1, <2>2 DEF Good
    <2> QED
      BY <1>3, <2>2, <2>3 DEF Account
  <1>4. CASE ~(h.bytes + n > MaxBytes)
    <2> DEFINE r == [h EXCEPT !.bytes = h.bytes + n, !.relayed = h.relayed + n]
    <2>1. r \in Handlers
      BY <1>1, <1>2 DEF Handlers
    <2>2. r.pc = h.pc /\ r.bytes = h.bytes + n /\ r.relayed = h.relayed + n
      BY <1>1 DEF Handlers
    <2>3. Good(r)
      BY <1>1, <1>4, <2>1, <2>2 DEF Good
    <2> QED
      BY <1>4, <2>2, <2>3 DEF Account
  <1> QED
    BY <1>3, <1>4

(* Membership facts about points, task states and close codes.              *)
LEMMA PointFacts ==
    /\ "none" \in Tasks /\ "running" \in Tasks /\ "ended" \in Tasks
    /\ "idle" \in Tasks /\ "over" \in Tasks /\ "failed" \in Tasks
    /\ "refusing" \in Tasks /\ "timedout" \in Tasks /\ \A h : Lost(h) \in Tasks
    /\ 0 \in Codes /\ 1000 \in Codes /\ 1003 \in Codes /\ 1008 \in Codes
    /\ "done" \in Points /\ "free" \in Points
    /\ "done" \notin Holding /\ "free" \notin Holding
    /\ "resolving" \in Holding /\ "connecting" \in Holding /\ "upgrading" \in Holding
    /\ "relaying" \in Holding /\ "stopping" \in Holding /\ "closing" \in Holding
    /\ "cleanup" \in Holding
    /\ \A pc \in Holding : pc \in Points
  BY DEF Points, Holding, Tasks, Codes, Lost

(* The two shapes of a handler's step while it holds a slot.                 *)
LEMMA KeepStep ==
    ASSUME TunnelInv, NEW c \in Conns, conn[c].pc \in Holding,
           NEW h, Good(h), h.pc \in Holding, Set(c, h), ConnOnly
    PROVE  TunnelInv'
  BY ConnStep

LEMMA AnsweredStep ==
    ASSUME TunnelInv, NEW c \in Conns, At(c, "free"),
           NEW y \in SUBSET {"accepted", "denied"}, Answered(c, y), ConnOnly
    PROVE  TunnelInv'
  <1>1. Good(Bare("done", None, y)) /\ Bare("done", None, y).pc = "done"
    BY BareGood, PointFacts DEF Bare
  <1> QED
    BY <1>1, ConnStep, PointFacts DEF Answered, At

LEMMA ProgressStep ==
    ASSUME TunnelInv, NEW c \in Conns, Progress(c)
    PROVE  TunnelInv'
  <1> DEFINE h == conn[c]
  <1>0. Good(h) /\ h \in Handlers
    BY GoodConn DEF Good
  <1>1. ASSUME NEW pc \in Holding, h.pc \in Holding, Goto(c, pc), ConnOnly
        PROVE  TunnelInv'
    <2>1. Good([h EXCEPT !.pc = pc]) /\ [h EXCEPT !.pc = pc].pc = pc
      BY <1>0, <1>1, PointFacts DEF Good, Handlers
    <2> QED
      BY <1>1, <2>1, KeepStep DEF Goto
  <1>2. ASSUME h.pc \in Holding, RefuseAndRelease(c)
        PROVE  TunnelInv'
    <2>1. Good(Bare("done", None, {"denied"})) /\ Bare("done", None, {"denied"}).pc = "done"
      BY BareGood, PointFacts DEF Bare
    <2> QED
      BY <1>2, <2>1, EndStep, PointFacts DEF RefuseAndRelease, Answered
  <1>3. CASE Resolved(c)
    BY <1>1, <1>3, PointFacts DEF Resolved, At
  <1>4. CASE TargetDenied(c)
    BY <1>2, <1>4, PointFacts DEF TargetDenied, At
  <1>5. CASE Connected(c)
    BY <1>1, <1>5, PointFacts DEF Connected, At
  <1>6. CASE ConnectFailed(c)
    BY <1>2, <1>6, PointFacts DEF ConnectFailed, At
  <1>7. CASE Upgraded(c)
    <2> DEFINE dn == IF h.reset THEN Lost(h) ELSE "running"
               y == {"accepted"}
               r == [h EXCEPT !.pc = "relaying", !.tally = y, !.up = "running",
                              !.down = dn]
    <2>1. dn \in Tasks /\ "running" \in Tasks /\ "relaying" \in Points
          /\ y \in SUBSET {"accepted", "denied"}
      BY PointFacts
    <2> HIDE DEF dn, y
    <2>2. Good(r) /\ r.pc = "relaying"
      BY <1>0, <2>1 DEF Good, Handlers
    <2>3. Set(c, r) /\ ConnOnly /\ h.pc = "upgrading"
      BY <1>7 DEF Upgraded, At, dn, y
    <2> HIDE DEF r
    <2> QED
      BY <2>2, <2>3, KeepStep, PointFacts
  <1>8. ASSUME NEW y \in SUBSET {"denied"}, UpgradeFailed(c, y)
        PROVE  TunnelInv'
    <2> DEFINE r == [h EXCEPT !.pc = "cleanup", !.tally = y]
    <2>0. y \in SUBSET {"accepted", "denied"}
      OBVIOUS
    <2>a. "cleanup" \in Points
      BY PointFacts
    <2>1. Good(r) /\ r.pc = "cleanup"
      <3> HIDE DEF h
      <3> QED
        BY <1>0, <2>0, <2>a, GoodTally
    <2>2. Set(c, r) /\ ConnOnly /\ h.pc = "upgrading"
      BY <1>8 DEF UpgradeFailed, At
    <2> HIDE DEF r
    <2> QED
      BY <2>1, <2>2, KeepStep, PointFacts
  <1>9. CASE RelayWakes(c)
    <2>1. ConnOnly /\ h.pc = "relaying"
      BY <1>9 DEF RelayWakes, At
    <2>2. ASSUME NEW code \in Codes, Set(c, [h EXCEPT !.pc = "stopping", !.code = code])
          PROVE  TunnelInv'
      <3> DEFINE r == [h EXCEPT !.pc = "stopping", !.code = code]
      <3>1. Good(r) /\ r.pc = "stopping"
        BY <1>0, PointFacts, GoodReturn
      <3>2. Set(c, r)
        BY <2>2
      <3> HIDE DEF r
      <3> QED
        BY <2>1, <3>1, <3>2, KeepStep, PointFacts
    <2> DEFINE k == IF h.code = 0 THEN 1008 ELSE h.code
    <2>3. k \in Codes
      BY <1>0 DEF Handlers, Codes
    <2>4. ASSUME Set(c, [Closing(h) EXCEPT !.failed = TRUE]) PROVE TunnelInv'
      <3> DEFINE r == [Closing(h) EXCEPT !.failed = TRUE]
      <3>0. Good(Closing(h)) /\ Closing(h).pc = "closing"
        BY <1>0, ClosingGood
      <3>1. Good(r) /\ r.pc = "closing"
        BY <3>0 DEF Good, Handlers
      <3>2. Set(c, r)
        BY <2>4
      <3> HIDE DEF r
      <3> QED
        BY <2>1, <3>1, <3>2, KeepStep, PointFacts
    <2>5. ASSUME Set(c, Closing(h)) PROVE TunnelInv'
      BY <1>0, <2>1, <2>5, ClosingGood, KeepStep, PointFacts
    <2>6. \/ Set(c, [h EXCEPT !.pc = "stopping", !.code = k])
          \/ Set(c, [Closing(h) EXCEPT !.failed = TRUE])
          \/ Set(c, Closing(h))
      BY <1>9 DEF RelayWakes
    <2> HIDE DEF k
    <2> QED
      BY <2>2, <2>3, <2>4, <2>5, <2>6
  <1>10. CASE DurationExpires(c)
    BY <1>0, <1>10, ClosingGood, KeepStep, PointFacts DEF DurationExpires, At
  <1>11. CASE StopRelay(c)
    BY <1>0, <1>11, ClosingGood, KeepStep, PointFacts DEF StopRelay, At
  <1>12. CASE RelayClosed(c)
    <2>1. h.pc = "closing"
      BY <1>12 DEF RelayClosed, At
    <2>2. CASE h.reset \/ h.failed
      <3>0. PICK tally \in SUBSET {"denied"} :
               Set(c, [h EXCEPT !.pc = "cleanup", !.tally = h.tally \cup tally])
        BY <1>12, <2>2 DEF RelayClosed
      <3> DEFINE y == h.tally \cup tally
                 r == [h EXCEPT !.pc = "cleanup", !.tally = y]
      <3>1. y \in SUBSET {"accepted", "denied"}
        BY <1>0 DEF Handlers
      <3>3. Set(c, r) /\ ConnOnly
        BY <1>12, <2>2, <3>0 DEF RelayClosed, ConnOnly
      <3> HIDE DEF y
      <3>2. Good(r) /\ r.pc = "cleanup"
        BY <1>0, <3>1, PointFacts, GoodTally
      <3> HIDE DEF r
      <3> QED
        BY <2>1, <3>2, <3>3, KeepStep, PointFacts
    <2>3. CASE ~(h.reset \/ h.failed)
      <3> DEFINE code == IF h.code = 0 THEN 1000 ELSE h.code
                 r == [h EXCEPT !.pc = "done", !.code = code]
      <3>1. code \in Codes
        BY <1>0 DEF Handlers, Codes
      <3> HIDE DEF code
      <3>2. Good(r) /\ r.pc = "done"
        BY <1>0, <3>1, PointFacts, GoodReturn
      <3>3. /\ Set(c, r) /\ active' = active - 1 /\ leaked' = leaked
            /\ UNCHANGED <<clock, claims, cache, validUses>>
        BY <1>12, <2>3 DEF RelayClosed, code
      <3> HIDE DEF r
      <3> QED
        BY <2>1, <3>2, <3>3, EndStep, PointFacts
    <2> QED
      BY <2>2, <2>3
  <1>13. CASE CleanupDone(c)
    <2> DEFINE r == [h EXCEPT !.pc = "done"]
    <2>1. Good(r) /\ r.pc = "done"
      BY <1>0, PointFacts DEF Good, Handlers
    <2>2. /\ Set(c, r) /\ h.pc = "cleanup"
          /\ UNCHANGED <<clock, claims, cache, validUses>>
          /\ \/ active' = active - 1 /\ leaked' = leaked
             \/ active' = active /\ leaked' = leaked + 1
      BY <1>13 DEF CleanupDone, At, Goto
    <2> HIDE DEF r
    <2> QED
      BY <2>1, <2>2, EndStep, PointFacts
  <1>14. CASE Refused(c)
    <2> DEFINE r == [h EXCEPT !.up = "ended"]
    <2>1. Good(r) /\ r.pc = h.pc
      BY <1>0, PointFacts, GoodFlag
    <2>2. Set(c, r) /\ ConnOnly
      BY <1>14 DEF Refused
    <2> HIDE DEF r
    <2> QED
      BY <2>1, <2>2, ConnStep
  <1> QED
    BY <1>3, <1>4, <1>5, <1>6, <1>7, <1>8, <1>9, <1>10, <1>11, <1>12, <1>13, <1>14 DEF Progress

(* The first synchronous stretch of a handler, for a ticket it does not      *)
(* refuse: the clock, the cache and the counter change with it.              *)
LEMMA StartStep ==
    ASSUME TunnelInv, NEW c \in Conns, NEW t \in Tickets, NEW now, TunnelStart(c, t, now)
    PROVE  TunnelInv'
  <1> USE DEF Time
  <1>1. /\ clock \in Nat /\ now \in Nat /\ clock <= now /\ clock' = now /\ now \in Time
        /\ conn[c].pc = "free" /\ UNCHANGED <<claims, leaked>>
    BY TunnelConstants DEF TunnelInv, TypeOK, TunnelStart, TunnelConstants
  <1>2. /\ claims \in [Tickets -> [iat : Nat, exp : Nat]] /\ cache \subseteq Tickets
        /\ active \in Nat /\ leaked \in Nat /\ MaxConnections \in Nat
        /\ validUses \in [Tickets -> Nat]
    BY TunnelConstants DEF TunnelInv, TypeOK, TunnelConstants
  <1>3. \A u \in Tickets : claims[u].exp \in Nat
    BY <1>2
  <1>4. ASSUME NEW y \in SUBSET {"accepted", "denied"}, Answered(c, y)
        PROVE  /\ conn' \in [Conns -> Handlers] /\ ByteLimit' /\ RelayedAccounted'
               /\ Tunnels' = Tunnels
    <2> DEFINE r == Bare("done", None, y)
    <2>1. Good(r) /\ r.pc = "done"
      BY BareGood, PointFacts DEF Bare
    <2>2. Set(c, r)
      BY <1>4 DEF Answered
    <2> HIDE DEF r
    <2>3. Tunnels' = Tunnels \ {c}
      BY <2>1, <2>2, TunnelsChange, PointFacts DEF Good
    <2>4. c \notin Tunnels
      BY <1>1, PointFacts DEF Tunnels
    <2> QED
      BY <2>1, <2>2, <2>3, <2>4, HandlerStep
  <1>5. \A u \in Tickets : u \in Remembered(now) <=> u \in cache /\ now < claims[u].exp
    BY <1>1, <1>3 DEF Remembered
  <1>6. /\ \A u \in Tickets : validUses[u] \in Nat /\ validUses[u] <= 1
        /\ \A u \in Tickets : claims[u].exp = 0 => validUses[u] = 0
        /\ \A u \in Tickets : validUses[u] > 0 /\ clock < claims[u].exp => u \in cache
    BY <1>2 DEF TunnelInv, OneUseWhileValid, UsesRemembered
  <1>7. CASE ~Verified(t, clock)
    <2>1. Answered(c, {"denied"}) /\ UNCHANGED <<cache, active, validUses>>
      BY <1>7 DEF TunnelStart
    <2>2. UsesRemembered' /\ OneUseWhileValid'
      BY <1>1, <1>3, <1>6, <2>1 DEF UsesRemembered, OneUseWhileValid
    <2> QED
      BY <1>1, <1>4, <2>1, <2>2 DEF TunnelInv, TypeOK, SlotsAccounted
  <1>8. CASE Verified(t, clock) /\ t \in Remembered(now)
    <2>1. Answered(c, {"denied"}) /\ cache' = Remembered(now) /\ UNCHANGED <<active, validUses>>
      BY <1>8 DEF TunnelStart
    <2>2. UsesRemembered' /\ OneUseWhileValid'
      BY <1>1, <1>3, <1>5, <1>6, <2>1 DEF UsesRemembered, OneUseWhileValid
    <2>3. cache' \subseteq Tickets
      BY <1>2, <2>1 DEF Remembered
    <2> QED
      BY <1>1, <1>4, <2>1, <2>2, <2>3 DEF TunnelInv, TypeOK, SlotsAccounted
  <1>9. CASE Verified(t, clock) /\ t \notin Remembered(now)
    <2>1. /\ cache' = Remembered(now) \cup {t}
          /\ validUses' = IF now < claims[t].exp
                          THEN [validUses EXCEPT ![t] = validUses[t] + 1] ELSE validUses
      BY <1>9 DEF TunnelStart
    <2>2. validUses' \in [Tickets -> Nat] /\ cache' \subseteq Tickets
      BY <1>2, <2>1 DEF Remembered
    <2>3. now < claims[t].exp => validUses[t] = 0
      BY <1>1, <1>3, <1>5, <1>6, <1>9
    <2>4. \A u \in Tickets : validUses'[u] = validUses[u]
                             \/ (u = t /\ now < claims[t].exp /\ validUses'[u] = 1)
      <3>1. CASE now < claims[t].exp
        <4>1. validUses' = [validUses EXCEPT ![t] = validUses[t] + 1]
          BY <2>1, <3>1
        <4>2. \A u \in Tickets : validUses'[u] = IF u = t THEN 1 ELSE validUses[u]
          BY <1>2, <2>3, <3>1, <4>1
        <4> QED
          BY <3>1, <4>2
      <3>2. CASE ~(now < claims[t].exp)
        <4>1. validUses' = validUses
          BY <2>1, <3>2
        <4> QED
          BY <4>1
      <3> QED
        BY <3>1, <3>2
    <2>5. claims[t].exp # 0
      BY <1>1, <1>3, <1>9 DEF Verified
    <2>6. OneUseWhileValid'
      BY <1>6, <2>4 DEF OneUseWhileValid
    <2>7. UsesRemembered'
      <3> SUFFICES ASSUME NEW u \in Tickets
                   PROVE  /\ claims'[u].exp = 0 => validUses'[u] = 0
                          /\ validUses'[u] > 0 /\ clock' < claims'[u].exp => u \in cache'
        BY DEF UsesRemembered
      <3>1. CASE u = t
        BY <1>1, <2>1, <2>5, <3>1
      <3>2. CASE u # t
        BY <1>1, <1>3, <1>5, <1>6, <2>1, <2>4, <3>2
      <3> QED
        BY <3>1, <3>2
    <2>8. CASE MayAcquire
      <3> DEFINE r == Bare("resolving", t, {})
      <3>1. active' = active + 1 /\ Set(c, r)
        BY <1>9, <2>8 DEF TunnelStart
      <3>2. Good(r) /\ r.pc = "resolving"
        BY BareGood, PointFacts DEF Bare
      <3> HIDE DEF r
      <3>3. Tunnels' = Tunnels \cup {c} /\ c \notin Tunnels
        BY <1>1, <3>1, <3>2, TunnelsChange, PointFacts DEF Good, Tunnels
      <3>4. Cardinality(Tunnels') = Cardinality(Tunnels) + 1
        BY <3>3, TunnelsFinite, FS_AddElement
      <3>5. SlotsAccounted' /\ active' \in Nat
        <4>1. active = Cardinality(Tunnels) + leaked /\ active < MaxConnections
          BY <2>8 DEF TunnelInv, SlotsAccounted, MayAcquire
        <4> QED
          BY <1>1, <1>2, <3>1, <3>4, <4>1, TunnelsFinite DEF SlotsAccounted
      <3> QED
        BY <1>1, <1>2, <2>2, <2>6, <2>7, <3>1, <3>2, <3>5, HandlerStep DEF TunnelInv, TypeOK
    <2>9. CASE ~MayAcquire
      <3>1. Answered(c, {}) /\ UNCHANGED active
        BY <1>9, <2>9 DEF TunnelStart
      <3> QED
        BY <1>1, <1>2, <1>4, <2>2, <2>6, <2>7, <3>1 DEF TunnelInv, TypeOK, SlotsAccounted
    <2> QED
      BY <2>8, <2>9
  <1> QED
    BY <1>7, <1>8, <1>9

LEMMA PeersStep ==
    ASSUME TunnelInv, NEW c \in Conns, Peers(c)
    PROVE  TunnelInv'
  <1> DEFINE h == conn[c]
  <1>0. Good(h) /\ h \in Handlers
    BY GoodConn DEF Good
  <1>1. ASSUME NEW r, Good(r), r.pc = h.pc, Set(c, r), ConnOnly
        PROVE  TunnelInv'
    BY <1>1, ConnStep
  <1>2. ASSUME NEW t \in Tickets, NEW now \in {clock, clock + 1}, TunnelStart(c, t, now)
        PROVE  TunnelInv'
    BY <1>2, StartStep
  <1>3. CASE TunnelNoTicket(c)
    BY <1>3, AnsweredStep DEF TunnelNoTicket, At, ConnOnly
  <1>4. ASSUME NEW n \in 1 .. MaxFrame, NEW w \in BOOLEAN, TargetData(c, n, w) PROVE TunnelInv'
    <2> DEFINE g == Account(h, n).h
    <2>1. n \in Nat
      BY TunnelConstants DEF TunnelConstants
    <2>2. Good(g) /\ g.pc = h.pc
      BY <1>0, <2>1, AccountGood
    <2>3. ConnOnly /\ (Set(c, [g EXCEPT !.clogged = w]) \/ Set(c, [g EXCEPT !.down = "over", !.limit = TRUE]))
      BY <1>4 DEF TargetData
    <2> HIDE DEF g
    <2>4. /\ Good([g EXCEPT !.down = "over", !.limit = TRUE]) /\ [g EXCEPT !.down = "over", !.limit = TRUE].pc = g.pc
          /\ Good([g EXCEPT !.clogged = w]) /\ [g EXCEPT !.clogged = w].pc = g.pc
      BY <2>2, PointFacts, GoodFlag
    <2> QED
      BY <1>1, <2>2, <2>3, <2>4
  <1>5. ASSUME NEW n \in 1 .. MaxFrame, NEW w \in BOOLEAN, ClientData(c, n, w) PROVE TunnelInv'
    <2> DEFINE g == Account(h, n).h
    <2>1. n \in Nat
      BY TunnelConstants DEF TunnelConstants
    <2>2. Good(g) /\ g.pc = h.pc
      BY <1>0, <2>1, AccountGood
    <2>3. /\ ConnOnly
          /\ \/ Set(c, [g EXCEPT !.stalled = w])
             \/ Set(c, [g EXCEPT !.up = Lost(h)])
             \/ Set(c, [g EXCEPT !.up = "over", !.limit = TRUE])
      BY <1>5 DEF ClientData
    <2> HIDE DEF g
    <2>4. /\ Good([g EXCEPT !.up = "over", !.limit = TRUE]) /\ [g EXCEPT !.up = "over", !.limit = TRUE].pc = g.pc
          /\ Good([g EXCEPT !.up = Lost(h)]) /\ [g EXCEPT !.up = Lost(h)].pc = g.pc
          /\ Good([g EXCEPT !.stalled = w]) /\ [g EXCEPT !.stalled = w].pc = g.pc
      BY <2>2, PointFacts, GoodFlag
    <2> QED
      BY <1>1, <2>2, <2>3, <2>4
  <1>6. CASE ClientEnds(c)
    <2> DEFINE k == IF h.code = 0 THEN 1000 ELSE h.code
    <2>1. k \in Codes
      BY <1>0 DEF Handlers, Codes
    <2>2. Set(c, [h EXCEPT !.up = "ended", !.code = k]) /\ ConnOnly
      BY <1>6 DEF ClientEnds
    <2> HIDE DEF k
    <2>3. Good([h EXCEPT !.up = "ended", !.code = k]) /\ [h EXCEPT !.up = "ended", !.code = k].pc = h.pc
      <3>1. "ended" \in Tasks
        BY PointFacts
      <3> QED
        BY <1>0, <2>1, <3>1, GoodCode, Zenon
    <2> QED
      BY <1>1, <2>2, <2>3
  <1>7. CASE ClientText(c)
    <2> DEFINE k == 1003
    <2>1. "refusing" \in Tasks /\ k \in Codes
      BY PointFacts
    <2>2. Set(c, [h EXCEPT !.up = "refusing", !.code = k]) /\ ConnOnly
      BY <1>7 DEF ClientText
    <2> HIDE DEF k
    <2>3. Good([h EXCEPT !.up = "refusing", !.code = k]) /\ [h EXCEPT !.up = "refusing", !.code = k].pc = h.pc
      BY <1>0, <2>1, GoodCode, Zenon
    <2> QED
      BY <1>1, <2>2, <2>3
  <1>8. CASE TargetEnds(c) \/ ClientLost(c)
    <2>1. /\ Good([h EXCEPT !.down = "ended"]) /\ [h EXCEPT !.down = "ended"].pc = h.pc
          /\ Good([h EXCEPT !.down = "failed", !.clogged = FALSE]) /\ [h EXCEPT !.down = "failed", !.clogged = FALSE].pc = h.pc
      BY <1>0, PointFacts, GoodFlag
    <2> QED
      BY <1>1, <1>8, <2>1 DEF TargetEnds, ClientLost
  <1>9. CASE ClientIdle(c) \/ TargetIdle(c)
    <2>1. /\ Good([h EXCEPT !.up = "idle", !.limit = TRUE]) /\ [h EXCEPT !.up = "idle", !.limit = TRUE].pc = h.pc
          /\ Good([h EXCEPT !.down = "idle", !.limit = TRUE]) /\ [h EXCEPT !.down = "idle", !.limit = TRUE].pc = h.pc
      BY <1>0, PointFacts, GoodFlag
    <2> QED
      BY <1>1, <1>9, <2>1 DEF ClientIdle, TargetIdle
  <1>10. ASSUME NEW how \in {"failed", "timedout"}, TargetResets(c, how) PROVE TunnelInv'
    <2> DEFINE dn == IF h.down = "running" /\ ~h.clogged THEN how ELSE h.down
               up == IF h.up = "running" /\ h.stalled THEN how ELSE h.up
               late == how = "timedout"
               r == [h EXCEPT !.reset = TRUE, !.timedout = late, !.stalled = FALSE, !.down = dn, !.up = up]
    <2>1. dn \in Tasks /\ up \in Tasks /\ late \in BOOLEAN
      BY <1>0, PointFacts DEF Handlers
    <2>2. Set(c, r) /\ ConnOnly
      BY <1>10 DEF TargetResets
    <2> HIDE DEF dn, up, late
    <2>3. Good(r) /\ r.pc = h.pc
      <3>1. r \in Handlers
        BY <1>0, <2>1 DEF Handlers
      <3>3. r.pc = h.pc /\ r.bytes = h.bytes /\ r.relayed = h.relayed
        BY <1>0 DEF Handlers
      <3> QED
        BY <1>0, <3>1, <3>3 DEF Good
    <2> HIDE DEF r
    <2> QED
      BY <1>1, <2>2, <2>3
  <1>11. CASE TargetReads(c)
    <2> DEFINE r == [h EXCEPT !.stalled = FALSE]
    <2>1. Good(r) /\ r.pc = h.pc
      BY <1>0, PointFacts, GoodFlag
    <2>2. Set(c, r) /\ ConnOnly
      BY <1>11 DEF TargetReads
    <2> HIDE DEF r
    <2> QED
      BY <1>1, <2>1, <2>2
  <1>12. CASE ClientReads(c)
    <2> DEFINE dn == IF h.down = "running" /\ h.reset THEN Lost(h) ELSE h.down
    <2>1. dn \in Tasks
      BY <1>0, PointFacts DEF Handlers
    <2>2. Set(c, [h EXCEPT !.clogged = FALSE, !.down = dn]) /\ ConnOnly
      BY <1>12 DEF ClientReads
    <2> HIDE DEF dn
    <2>3. Good([h EXCEPT !.clogged = FALSE, !.down = dn]) /\ [h EXCEPT !.clogged = FALSE, !.down = dn].pc = h.pc
      BY <1>0, <2>1, PointFacts, GoodFlag
    <2> QED
      BY <1>1, <2>2, <2>3
  <1>13. CASE Recycle(c)
    BY <1>13, FreeGood, ConnStep, PointFacts DEF Recycle, At
  <1> QED
    BY <1>2, <1>3, <1>4, <1>5, <1>6, <1>7, <1>8, <1>9, <1>10, <1>11, <1>12, <1>13 DEF Peers

(* The steps of the environment.                                             *)
LEMMA EnvStep ==
    ASSUME TunnelInv,
           \/ \E t \in Tickets, lead \in 0 .. MaxLead, ttl \in 1 .. MaxTTL + 1 : Issue(t, lead, ttl)
           \/ Restart \/ Tick \/ UNCHANGED vars
    PROVE  TunnelInv'
  <1>1. ASSUME NEW t \in Tickets, NEW lead \in 0 .. MaxLead, NEW ttl \in 1 .. MaxTTL + 1,
               Issue(t, lead, ttl)
        PROVE  TunnelInv'
    <2>1. clock \in Nat /\ claims[t].exp = 0 /\ validUses \in [Tickets -> Nat]
          /\ claims \in [Tickets -> [iat : Nat, exp : Nat]] /\ lead \in Nat /\ ttl \in Nat
      BY <1>1, TunnelConstants DEF TunnelInv, TypeOK, Time, Issue, Unissued, TunnelConstants
    <2>2. [iat |-> clock + lead, exp |-> clock + lead + ttl] \in [iat : Nat, exp : Nat]
      BY <2>1
    <2>3. /\ claims' \in [Tickets -> [iat : Nat, exp : Nat]]
          /\ \A u \in Tickets : u # t => claims'[u] = claims[u]
      BY <1>1, <2>1, <2>2 DEF Issue
    <2>4. validUses[t] = 0
      BY <2>1 DEF TunnelInv, UsesRemembered
    <2>5. UsesRemembered'
      BY <1>1, <2>1, <2>3, <2>4 DEF TunnelInv, UsesRemembered, Issue
    <2> QED
      BY <1>1, <2>3, <2>5
      DEF TunnelInv, TypeOK, Issue, SlotsAccounted, Tunnels, OneUseWhileValid, ByteLimit,
          RelayedAccounted
  <1>2. CASE Restart
    <2>1. conn' \in [Conns -> Handlers] /\ \A c \in Conns : conn'[c] = Free
      BY <1>2, FreeGood DEF Restart, Good
    <2>2. Tunnels' = {}
      BY <2>1, FreeGood, PointFacts DEF Tunnels
    <2>3. SlotsAccounted'
      BY <1>2, <2>2, FS_EmptySet, TunnelConstants DEF Restart, SlotsAccounted, TunnelConstants
    <2>4. ByteLimit' /\ RelayedAccounted'
      BY <2>1, FreeGood DEF ByteLimit, RelayedAccounted, Good
    <2>5. OneUseWhileValid' /\ UsesRemembered'
      BY <1>2 DEF Restart, OneUseWhileValid, UsesRemembered
    <2> QED
      BY <1>2, <2>1, <2>3, <2>4, <2>5 DEF Restart, TunnelInv, TypeOK
  <1>3. CASE Tick
    <2>1. clock' \in Time /\ clock \in Nat /\ clock' = clock + 1
      BY <1>3, TunnelConstants DEF Tick, Time, TunnelInv, TypeOK, TunnelConstants
    <2>2. \A t \in Tickets : claims[t].exp \in Nat
      BY DEF TunnelInv, TypeOK
    <2>3. UsesRemembered'
      BY <1>3, <2>1, <2>2 DEF Tick, TunnelInv, UsesRemembered
    <2> QED
      BY <1>3, <2>1, <2>3
      DEF Tick, TunnelInv, TypeOK, SlotsAccounted, Tunnels, OneUseWhileValid, ByteLimit,
          RelayedAccounted
  <1>4. CASE UNCHANGED vars
    BY <1>4
    DEF vars, TunnelInv, TypeOK, SlotsAccounted, Tunnels, OneUseWhileValid, UsesRemembered,
        ByteLimit, RelayedAccounted
  <1> QED
    BY <1>1, <1>2, <1>3, <1>4

LEMMA InvStep == TunnelInv /\ [Next]_vars => TunnelInv'
  BY ProgressStep, PeersStep, EnvStep DEF Next

(* The inductive invariant holds in every behaviour.                         *)
LEMMA InvHolds == Spec => []TunnelInv
  BY InitInv, InvStep, PTL DEF Spec

(* Type correctness of the tunnel's state.                                   *)
THEOREM TypeCorrect == Spec => []TypeOK
  <1>1. TunnelInv => TypeOK
    BY DEF TunnelInv
  <1> QED
    BY <1>1, InvHolds, PTL

(* The tunnel never serves more than MaxConnections connections, and its     *)
(* counter is exact up to the slots lost to a failing wait_closed().         *)
THEOREM Capacity == Spec => []SlotsAccounted
  <1>1. TunnelInv => SlotsAccounted
    BY DEF TunnelInv
  <1> QED
    BY <1>1, InvHolds, PTL

(* A process grants a claim on a ticket at most once before it expires.      *)
THEOREM OneUse == Spec => []OneUseWhileValid
  <1>1. TunnelInv => OneUseWhileValid
    BY DEF TunnelInv
  <1> QED
    BY <1>1, InvHolds, PTL

(* No tunnel passes on more than MaxBytes.                                   *)
THEOREM BytesBounded == Spec => []ByteLimit
  <1>1. TunnelInv => ByteLimit
    BY DEF TunnelInv
  <1> QED
    BY <1>1, InvHolds, PTL


-----------------------------------------------------------------------------
(* The close code.  What a task ended with is remembered until the relay     *)
(* handles it, and no step in between forgets that a limit was met.          *)
Limits == {"idle", "over"}
Truthful(h) ==
    /\ h.code = 1008 => h.limit \/ h.timedout
    /\ h.up \in Limits \/ h.down \in Limits => h.limit
    /\ h.up = "timedout" \/ h.down = "timedout" => h.timedout
    /\ h.timedout => h.reset
    /\ h.limit => h.pc \notin {"free", "resolving", "connecting", "upgrading"}
    /\ h.limit /\ h.pc = "relaying" => h.up \in Limits \/ h.down \in Limits
    /\ h.limit /\ h.pc = "closing" => h.failed \/ h.code # 0
    /\ h.pc = "stopping" => h.code # 0
CloseInv == \A c \in Conns : Truthful(conn[c])

\* What Truthful looks at.
Shows(h, pc, up, down, code, limit, failed) ==
    h.pc = pc /\ h.up = up /\ h.down = down /\ h.code = code /\ h.limit = limit /\ h.failed = failed
SameLoss(h, g) == g.reset = h.reset /\ g.timedout = h.timedout

LEMMA BareTruthful == \A pc, t, y : pc # "stopping" => Truthful(Bare(pc, t, y))
  <1> SUFFICES ASSUME NEW pc, NEW t, NEW y, pc # "stopping" PROVE Truthful(Bare(pc, t, y))
    OBVIOUS
  <1> DEFINE h == Bare(pc, t, y)
  <1>1. /\ Shows(h, pc, "none", "none", 0, FALSE, FALSE) /\ h.reset = FALSE /\ h.timedout = FALSE
    BY DEF Bare, Shows
  <1> HIDE DEF h
  <1>2. Truthful(h)
    BY <1>1 DEF Truthful, Shows, Limits
  <1> QED
    BY <1>2 DEF h

(* The shapes of a handler's step.                                           *)
LEMMA StepShapes ==
    ASSUME NEW h \in Handlers
    PROVE  /\ \A x : LET g == [h EXCEPT !.pc = x]
                     IN  Shows(g, x, h.up, h.down, h.code, h.limit, h.failed) /\ SameLoss(h, g)
           /\ \A x, y : LET g == [h EXCEPT !.pc = x, !.tally = y]
                        IN  Shows(g, x, h.up, h.down, h.code, h.limit, h.failed) /\ SameLoss(h, g)
           /\ \A x, y : LET g == [h EXCEPT !.pc = x, !.code = y]
                        IN  Shows(g, x, h.up, h.down, y, h.limit, h.failed) /\ SameLoss(h, g)
           /\ \A x, y : LET g == [h EXCEPT !.up = x, !.code = y]
                        IN  Shows(g, h.pc, x, h.down, y, h.limit, h.failed) /\ SameLoss(h, g)
           /\ \A x, y, z, w : LET g == [h EXCEPT !.pc = x, !.tally = y, !.up = z, !.down = w]
                              IN  Shows(g, x, z, w, h.code, h.limit, h.failed) /\ SameLoss(h, g)
  BY DEF Handlers, Shows, SameLoss

LEMMA TaskShapes ==
    ASSUME NEW h \in Handlers
    PROVE  /\ \A x : LET g == [h EXCEPT !.up = x]
                     IN  Shows(g, h.pc, x, h.down, h.code, h.limit, h.failed) /\ SameLoss(h, g)
           /\ \A x : LET g == [h EXCEPT !.down = x]
                     IN  Shows(g, h.pc, h.up, x, h.code, h.limit, h.failed) /\ SameLoss(h, g)
           /\ \A x : LET g == [h EXCEPT !.up = x, !.limit = TRUE]
                     IN  Shows(g, h.pc, x, h.down, h.code, TRUE, h.failed) /\ SameLoss(h, g)
           /\ \A x : LET g == [h EXCEPT !.down = x, !.limit = TRUE]
                     IN  Shows(g, h.pc, h.up, x, h.code, TRUE, h.failed) /\ SameLoss(h, g)
           /\ \A x, y : LET g == [h EXCEPT !.down = x, !.clogged = y]
                        IN  Shows(g, h.pc, h.up, x, h.code, h.limit, h.failed) /\ SameLoss(h, g)
           /\ \A x, y : LET g == [h EXCEPT !.clogged = y, !.down = x]
                        IN  Shows(g, h.pc, h.up, x, h.code, h.limit, h.failed) /\ SameLoss(h, g)
           /\ \A x : LET g == [h EXCEPT !.stalled = x]
                     IN  Shows(g, h.pc, h.up, h.down, h.code, h.limit, h.failed) /\ SameLoss(h, g)
           /\ \A x : LET g == [h EXCEPT !.clogged = x]
                     IN  Shows(g, h.pc, h.up, h.down, h.code, h.limit, h.failed) /\ SameLoss(h, g)
  BY DEF Handlers, Shows, SameLoss

LEMMA ClosingShapes ==
    ASSUME NEW h \in Handlers
    PROVE  /\ Shows(Closing(h), "closing", "none", "none", h.code, h.limit, h.failed) /\ SameLoss(h, Closing(h))
           /\ LET g == [Closing(h) EXCEPT !.failed = TRUE]
              IN  Shows(g, "closing", "none", "none", h.code, h.limit, TRUE) /\ SameLoss(h, g)
  BY DEF Handlers, Shows, SameLoss, Closing

LEMMA AccountShape ==
    ASSUME NEW h \in Handlers, NEW n \in Nat
    PROVE  LET g == Account(h, n).h
           IN  g \in Handlers /\ Shows(g, h.pc, h.up, h.down, h.code, h.limit, h.failed) /\ SameLoss(h, g)
  <1>1. h.bytes + n \in Nat /\ h.relayed + n \in Nat
    BY DEF Handlers
  <1>2. /\ [h EXCEPT !.bytes = h.bytes + n] \in Handlers
        /\ [h EXCEPT !.bytes = h.bytes + n, !.relayed = h.relayed + n] \in Handlers
    BY <1>1 DEF Handlers
  <1>3. LET g == [h EXCEPT !.bytes = h.bytes + n]
        IN  Shows(g, h.pc, h.up, h.down, h.code, h.limit, h.failed) /\ SameLoss(h, g)
    BY DEF Handlers, Shows, SameLoss
  <1>4. LET g == [h EXCEPT !.bytes = h.bytes + n, !.relayed = h.relayed + n]
        IN  Shows(g, h.pc, h.up, h.down, h.code, h.limit, h.failed) /\ SameLoss(h, g)
    BY DEF Handlers, Shows, SameLoss
  <1> QED
    BY <1>2, <1>3, <1>4 DEF Account

LEMMA SetTruthful ==
    ASSUME TypeOK, CloseInv, NEW c \in Conns, NEW g, Truthful(g), Set(c, g)
    PROVE  CloseInv'
  <1>1. conn \in [Conns -> Handlers]
    BY DEF TypeOK
  <1>2. \A d \in Conns : conn'[d] = IF d = c THEN g ELSE conn[d]
    BY <1>1 DEF Set
  <1> QED
    BY <1>2 DEF CloseInv

LEMMA AnsweredTruthful ==
    ASSUME TypeOK, CloseInv, NEW c \in Conns, NEW y, Answered(c, y)
    PROVE  CloseInv'
  <1>1. Truthful(Bare("done", None, y))
    BY BareTruthful
  <1> QED
    BY <1>1, SetTruthful DEF Answered

LEMMA CloseProgress ==
    ASSUME TypeOK, CloseInv, NEW c \in Conns, Progress(c)
    PROVE  CloseInv'
  <1> DEFINE h == conn[c]
  <1>0. h \in Handlers /\ Truthful(h)
    BY DEF TypeOK, CloseInv
  <1>1. CASE Resolved(c)
    <2> DEFINE g == [h EXCEPT !.pc = "connecting"]
    <2>1. Shows(g, "connecting", h.up, h.down, h.code, h.limit, h.failed) /\ SameLoss(h, g)
      BY <1>0, StepShapes
    <2>2. Set(c, g) /\ h.pc = "resolving"
      BY <1>1 DEF Resolved, At, Goto
    <2> HIDE DEF g
    <2>3. Truthful(g)
      BY <1>0, <2>1, <2>2 DEF Truthful, Shows, SameLoss, Limits
    <2> QED
      BY <2>2, <2>3, SetTruthful
  <1>2. CASE Connected(c)
    <2> DEFINE g == [h EXCEPT !.pc = "upgrading"]
    <2>1. Shows(g, "upgrading", h.up, h.down, h.code, h.limit, h.failed) /\ SameLoss(h, g)
      BY <1>0, StepShapes
    <2>2. Set(c, g) /\ h.pc = "connecting"
      BY <1>2 DEF Connected, At, Goto
    <2> HIDE DEF g
    <2>3. Truthful(g)
      BY <1>0, <2>1, <2>2 DEF Truthful, Shows, SameLoss, Limits
    <2> QED
      BY <2>2, <2>3, SetTruthful
  <1>3. CASE CleanupDone(c)
    <2> DEFINE g == [h EXCEPT !.pc = "done"]
    <2>1. Shows(g, "done", h.up, h.down, h.code, h.limit, h.failed) /\ SameLoss(h, g)
      BY <1>0, StepShapes
    <2>2. Set(c, g)
      BY <1>3 DEF CleanupDone, At, Goto
    <2> HIDE DEF g
    <2>3. Truthful(g)
      BY <1>0, <2>1 DEF Truthful, Shows, SameLoss, Limits
    <2> QED
      BY <2>2, <2>3, SetTruthful
  <1>4. CASE TargetDenied(c) \/ ConnectFailed(c)
    BY <1>4, AnsweredTruthful DEF TargetDenied, ConnectFailed, RefuseAndRelease
  <1>5. CASE Upgraded(c)
    <2> DEFINE down == IF h.reset THEN Lost(h) ELSE "running"
               g == [h EXCEPT !.pc = "relaying", !.tally = {"accepted"}, !.up = "running", !.down = down]
    <2>1. Set(c, g) /\ h.pc = "upgrading"
      BY <1>5 DEF Upgraded, At
    <2>2. down \in {"running", "failed"} \/ (down = "timedout" /\ h.timedout)
      BY DEF Lost
    <2> HIDE DEF down
    <2>3. Shows(g, "relaying", "running", down, h.code, h.limit, h.failed) /\ SameLoss(h, g)
      BY <1>0, StepShapes
    <2> HIDE DEF g
    <2>4. Truthful(g)
      BY <1>0, <2>1, <2>2, <2>3 DEF Truthful, Shows, SameLoss, Limits
    <2> QED
      BY <2>1, <2>4, SetTruthful
  <1>6. ASSUME NEW y, UpgradeFailed(c, y) PROVE CloseInv'
    <2> DEFINE g == [h EXCEPT !.pc = "cleanup", !.tally = y]
    <2>1. Shows(g, "cleanup", h.up, h.down, h.code, h.limit, h.failed) /\ SameLoss(h, g)
      BY <1>0, StepShapes
    <2>2. Set(c, g) /\ h.pc = "upgrading"
      BY <1>6 DEF UpgradeFailed, At
    <2> HIDE DEF g
    <2>3. Truthful(g)
      BY <1>0, <2>1, <2>2 DEF Truthful, Shows, SameLoss, Limits
    <2> QED
      BY <2>2, <2>3, SetTruthful
  <1>7. CASE RelayWakes(c)
    <2> DEFINE k == IF h.code = 0 THEN 1008 ELSE h.code
               g == [h EXCEPT !.pc = "stopping", !.code = k]
               f == [Closing(h) EXCEPT !.failed = TRUE]
    <2>1. PICK r \in Done(h) : \/ r \in {"idle", "over", "timedout"} /\ Set(c, g)
                               \/ r = "failed" /\ Set(c, f)
                               \/ Done(h) = {"ended"} /\ Set(c, Closing(h))
      BY <1>7 DEF RelayWakes
    <2>2. h.pc = "relaying"
      BY <1>7 DEF RelayWakes, At
    <2>3. (k = 1008 /\ h.code = 0) \/ (k = h.code /\ k # 0)
      OBVIOUS
    <2> HIDE DEF k
    <2>4. /\ Shows(g, "stopping", h.up, h.down, k, h.limit, h.failed) /\ SameLoss(h, g)
          /\ Shows(f, "closing", "none", "none", h.code, h.limit, TRUE) /\ SameLoss(h, f)
          /\ Shows(Closing(h), "closing", "none", "none", h.code, h.limit, h.failed)
          /\ SameLoss(h, Closing(h))
      BY <1>0, StepShapes, ClosingShapes
    <2> HIDE DEF g, f
    <2>5. CASE r \in {"idle", "over", "timedout"} /\ Set(c, g)
      <3>1. h.up = r \/ h.down = r
        BY <2>1 DEF Done
      <3>2. h.limit \/ h.timedout
        BY <1>0, <2>5, <3>1 DEF Truthful, Limits
      <3>3. Truthful(g)
        BY <1>0, <2>2, <2>3, <2>4, <3>2 DEF Truthful, Shows, SameLoss, Limits
      <3> QED
        BY <2>5, <3>3, SetTruthful
    <2>6. CASE r = "failed" /\ Set(c, f)
      <3>1. Truthful(f)
        BY <1>0, <2>2, <2>4 DEF Truthful, Shows, SameLoss, Limits
      <3> QED
        BY <2>6, <3>1, SetTruthful
    <2>7. CASE Done(h) = {"ended"} /\ Set(c, Closing(h))
      <3>1. h.up \in {"ended", "running", "refusing"} /\ h.down \in {"ended", "running", "refusing"}
        BY <2>7 DEF Done
      <3>2. Truthful(Closing(h))
        BY <1>0, <2>2, <2>4, <3>1 DEF Truthful, Shows, SameLoss, Limits
      <3> QED
        BY <2>7, <3>2, SetTruthful
    <2> QED
      BY <2>1, <2>5, <2>6, <2>7
  <1>8. CASE DurationExpires(c)
    <2>1. h.pc = "relaying" /\ Set(c, Closing(h)) /\ Done(h) = {}
      BY <1>8 DEF DurationExpires, At
    <2>2. h.up \in {"running", "refusing"} /\ h.down \in {"running", "refusing"}
      BY <2>1 DEF Done
    <2>3. /\ Shows(Closing(h), "closing", "none", "none", h.code, h.limit, h.failed)
          /\ SameLoss(h, Closing(h))
      BY <1>0, ClosingShapes
    <2>4. Truthful(Closing(h))
      BY <1>0, <2>1, <2>2, <2>3 DEF Truthful, Shows, SameLoss, Limits
    <2> QED
      BY <2>1, <2>4, SetTruthful
  <1>9. CASE StopRelay(c)
    <2>1. h.pc = "stopping" /\ Set(c, Closing(h))
      BY <1>9 DEF StopRelay, At
    <2>2. /\ Shows(Closing(h), "closing", "none", "none", h.code, h.limit, h.failed)
          /\ SameLoss(h, Closing(h))
      BY <1>0, ClosingShapes
    <2>3. Truthful(Closing(h))
      BY <1>0, <2>1, <2>2 DEF Truthful, Shows, SameLoss, Limits
    <2> QED
      BY <2>1, <2>3, SetTruthful
  <1>10. CASE Refused(c)
    <2> DEFINE g == [h EXCEPT !.up = "ended"]
    <2>1. Shows(g, h.pc, "ended", h.down, h.code, h.limit, h.failed) /\ SameLoss(h, g)
      BY <1>0, TaskShapes
    <2>2. Set(c, g) /\ h.up = "refusing"
      BY <1>10 DEF Refused
    <2> HIDE DEF g
    <2>3. Truthful(g)
      BY <1>0, <2>1, <2>2 DEF Truthful, Shows, SameLoss, Limits
    <2> QED
      BY <2>2, <2>3, SetTruthful
  <1>11. CASE RelayClosed(c)
    <2>1. CASE h.reset \/ h.failed
      <3>1. PICK y : Set(c, [h EXCEPT !.pc = "cleanup", !.tally = h.tally \cup y])
        BY <1>11, <2>1 DEF RelayClosed
      <3> DEFINE v == h.tally \cup y
                 g == [h EXCEPT !.pc = "cleanup", !.tally = v]
      <3>2. Set(c, g)
        BY <3>1
      <3> HIDE DEF v
      <3>3. Shows(g, "cleanup", h.up, h.down, h.code, h.limit, h.failed) /\ SameLoss(h, g)
        BY <1>0, StepShapes
      <3> HIDE DEF g
      <3>4. h.pc = "closing"
        BY <1>11 DEF RelayClosed, At
      <3>5. Truthful(g)
        BY <1>0, <3>3, <3>4 DEF Truthful, Shows, SameLoss, Limits
      <3> QED
        BY <3>2, <3>5, SetTruthful
    <2>2. CASE ~(h.reset \/ h.failed)
      <3> DEFINE k == IF h.code = 0 THEN 1000 ELSE h.code
                 g == [h EXCEPT !.pc = "done", !.code = k]
      <3>1. Set(c, g) /\ h.pc = "closing"
        BY <1>11, <2>2 DEF RelayClosed, At
      <3>2. k = 1000 \/ k = h.code
        OBVIOUS
      <3> HIDE DEF k
      <3>3. Shows(g, "done", h.up, h.down, k, h.limit, h.failed) /\ SameLoss(h, g)
        BY <1>0, StepShapes
      <3> HIDE DEF g
      <3>4. Truthful(g)
        BY <1>0, <3>1, <3>2, <3>3 DEF Truthful, Shows, SameLoss, Limits
      <3> QED
        BY <3>1, <3>4, SetTruthful
    <2> QED
      BY <2>1, <2>2
  <1> QED
    BY <1>1, <1>2, <1>3, <1>4, <1>5, <1>6, <1>7, <1>8, <1>9, <1>10, <1>11 DEF Progress

LEMMA ClosePeers ==
    ASSUME TypeOK, CloseInv, NEW c \in Conns, Peers(c)
    PROVE  CloseInv'
  <1> DEFINE h == conn[c]
  <1>0. h \in Handlers /\ Truthful(h)
    BY DEF TypeOK, CloseInv
  <1>1. ASSUME NEW t, NEW now, TunnelStart(c, t, now) PROVE CloseInv'
    <2>1. \/ \E y : Answered(c, y)
          \/ Set(c, Bare("resolving", t, {}))
      BY <1>1 DEF TunnelStart
    <2>2. Truthful(Bare("resolving", t, {}))
      BY BareTruthful
    <2> QED
      BY <2>1, <2>2, SetTruthful, AnsweredTruthful
  <1>2. CASE TunnelNoTicket(c)
    BY <1>2, AnsweredTruthful DEF TunnelNoTicket
  <1>3. CASE Recycle(c)
    <2>1. Truthful(Free)
      BY BareTruthful DEF Free
    <2> QED
      BY <1>3, <2>1, SetTruthful DEF Recycle
  <1>4. ASSUME NEW n \in 1 .. MaxFrame, NEW s \in BOOLEAN, ClientData(c, n, s) PROVE CloseInv'
    <2> DEFINE g == Account(h, n).h
    <2>0. n \in Nat /\ h.pc \in {"relaying", "stopping"} /\ h.up = "running"
      BY <1>4 DEF ClientData, Relaying
    <2>1. g \in Handlers /\ Shows(g, h.pc, h.up, h.down, h.code, h.limit, h.failed) /\ SameLoss(h, g)
      BY <1>0, <2>0, AccountShape
    <2>2. PICK x \in {"failed", "timedout"} :
             /\ x = "timedout" => h.timedout
             /\ \/ Set(c, [g EXCEPT !.stalled = s])
                \/ Set(c, [g EXCEPT !.up = x])
                \/ Set(c, [g EXCEPT !.up = "over", !.limit = TRUE])
      <3>1. Lost(h) \in {"failed", "timedout"} /\ (Lost(h) = "timedout" => h.timedout)
        BY DEF Lost
      <3> QED
        BY <1>4, <3>1 DEF ClientData
    <2> HIDE DEF g
    <2> DEFINE g1 == [g EXCEPT !.stalled = s]
               g2 == [g EXCEPT !.up = x]
               g3 == [g EXCEPT !.up = "over", !.limit = TRUE]
    <2>3. /\ Shows(g1, g.pc, g.up, g.down, g.code, g.limit, g.failed) /\ SameLoss(g, g1)
          /\ Shows(g2, g.pc, x, g.down, g.code, g.limit, g.failed) /\ SameLoss(g, g2)
          /\ Shows(g3, g.pc, "over", g.down, g.code, TRUE, g.failed) /\ SameLoss(g, g3)
      BY <2>1, TaskShapes
    <2>4. Set(c, g1) \/ Set(c, g2) \/ Set(c, g3)
      BY <2>2
    <2> HIDE DEF g1, g2, g3
    <2>5. Truthful(g) /\ g.pc = h.pc /\ g.up = "running" /\ (x = "timedout" => g.timedout)
      BY <1>0, <2>0, <2>1, <2>2 DEF Truthful, Shows, SameLoss, Limits
    <2>6. Truthful(g1)
      BY <2>3, <2>5 DEF Truthful, Shows, SameLoss, Limits
    <2>7. Truthful(g2)
      BY <2>3, <2>5 DEF Truthful, Shows, SameLoss, Limits
    <2>8. Truthful(g3)
      BY <2>0, <2>3, <2>5 DEF Truthful, Shows, SameLoss, Limits
    <2> QED
      BY <2>4, <2>6, <2>7, <2>8, SetTruthful
  <1>5. ASSUME NEW n \in 1 .. MaxFrame, NEW s \in BOOLEAN, TargetData(c, n, s) PROVE CloseInv'
    <2> DEFINE g == Account(h, n).h
               g1 == [g EXCEPT !.clogged = s]
               g3 == [g EXCEPT !.down = "over", !.limit = TRUE]
    <2>0. n \in Nat /\ h.pc \in {"relaying", "stopping"} /\ h.down = "running"
      BY <1>5 DEF TargetData, Relaying
    <2>1. g \in Handlers /\ Shows(g, h.pc, h.up, h.down, h.code, h.limit, h.failed) /\ SameLoss(h, g)
      BY <1>0, <2>0, AccountShape
    <2>2. Set(c, g1) \/ Set(c, g3)
      BY <1>5 DEF TargetData
    <2> HIDE DEF g
    <2>3. /\ Shows(g1, g.pc, g.up, g.down, g.code, g.limit, g.failed) /\ SameLoss(g, g1)
          /\ Shows(g3, g.pc, g.up, "over", g.code, TRUE, g.failed) /\ SameLoss(g, g3)
      BY <2>1, TaskShapes
    <2> HIDE DEF g1, g3
    <2>5. Truthful(g) /\ g.pc = h.pc /\ g.down = "running"
      BY <1>0, <2>0, <2>1 DEF Truthful, Shows, SameLoss, Limits
    <2>6. Truthful(g1)
      BY <2>3, <2>5 DEF Truthful, Shows, SameLoss, Limits
    <2>7. Truthful(g3)
      BY <2>0, <2>3, <2>5 DEF Truthful, Shows, SameLoss, Limits
    <2> QED
      BY <2>2, <2>6, <2>7, SetTruthful
  <1>6. CASE ClientEnds(c)
    <2> DEFINE k == IF h.code = 0 THEN 1000 ELSE h.code
               g == [h EXCEPT !.up = "ended", !.code = k]
    <2>1. Set(c, g) /\ h.up = "running" /\ h.pc \in {"relaying", "stopping"}
      BY <1>6 DEF ClientEnds, Relaying
    <2>2. (k = 1000 /\ h.code = 0) \/ (k = h.code /\ k # 0)
      OBVIOUS
    <2> HIDE DEF k
    <2>3. Shows(g, h.pc, "ended", h.down, k, h.limit, h.failed) /\ SameLoss(h, g)
      BY <1>0, StepShapes
    <2> HIDE DEF g
    <2>4. Truthful(g)
      BY <1>0, <2>1, <2>2, <2>3 DEF Truthful, Shows, SameLoss, Limits
    <2> QED
      BY <2>1, <2>4, SetTruthful
  <1>7. CASE ClientText(c)
    <2> DEFINE k == 1003
               g == [h EXCEPT !.up = "refusing", !.code = k]
    <2>1. Set(c, g) /\ h.up = "running" /\ h.pc \in {"relaying", "stopping"}
      BY <1>7 DEF ClientText, Relaying
    <2>2. k # 0 /\ k # 1008
      OBVIOUS
    <2> HIDE DEF k
    <2>3. Shows(g, h.pc, "refusing", h.down, k, h.limit, h.failed) /\ SameLoss(h, g)
      BY <1>0, StepShapes
    <2> HIDE DEF g
    <2>4. Truthful(g)
      BY <1>0, <2>1, <2>2, <2>3 DEF Truthful, Shows, SameLoss, Limits
    <2> QED
      BY <2>1, <2>4, SetTruthful
  <1>8. CASE ClientLost(c)
    <2> DEFINE g == [h EXCEPT !.down = "failed", !.clogged = FALSE]
    <2>1. Shows(g, h.pc, h.up, "failed", h.code, h.limit, h.failed) /\ SameLoss(h, g)
      BY <1>0, TaskShapes
    <2>2. Set(c, g) /\ h.down = "running"
      BY <1>8 DEF ClientLost
    <2> HIDE DEF g
    <2>3. Truthful(g)
      BY <1>0, <2>1, <2>2 DEF Truthful, Shows, SameLoss, Limits
    <2> QED
      BY <2>2, <2>3, SetTruthful
  <1>9. CASE TargetEnds(c)
    <2> DEFINE g == [h EXCEPT !.down = "ended"]
    <2>1. Shows(g, h.pc, h.up, "ended", h.code, h.limit, h.failed) /\ SameLoss(h, g)
      BY <1>0, TaskShapes
    <2>2. Set(c, g) /\ h.down = "running"
      BY <1>9 DEF TargetEnds
    <2> HIDE DEF g
    <2>3. Truthful(g)
      BY <1>0, <2>1, <2>2 DEF Truthful, Shows, SameLoss, Limits
    <2> QED
      BY <2>2, <2>3, SetTruthful
  <1>10. CASE ClientIdle(c)
    <2> DEFINE g == [h EXCEPT !.up = "idle", !.limit = TRUE]
    <2>1. Shows(g, h.pc, "idle", h.down, h.code, TRUE, h.failed) /\ SameLoss(h, g)
      BY <1>0, TaskShapes
    <2>2. Set(c, g) /\ h.pc \in {"relaying", "stopping"}
      BY <1>10 DEF ClientIdle, Relaying
    <2> HIDE DEF g
    <2>3. Truthful(g)
      BY <1>0, <2>1, <2>2 DEF Truthful, Shows, SameLoss, Limits
    <2> QED
      BY <2>2, <2>3, SetTruthful
  <1>11. CASE TargetIdle(c)
    <2> DEFINE g == [h EXCEPT !.down = "idle", !.limit = TRUE]
    <2>1. Shows(g, h.pc, h.up, "idle", h.code, TRUE, h.failed) /\ SameLoss(h, g)
      BY <1>0, TaskShapes
    <2>2. Set(c, g) /\ h.pc \in {"relaying", "stopping"}
      BY <1>11 DEF TargetIdle, Relaying
    <2> HIDE DEF g
    <2>3. Truthful(g)
      BY <1>0, <2>1, <2>2 DEF Truthful, Shows, SameLoss, Limits
    <2> QED
      BY <2>2, <2>3, SetTruthful
  <1>12. CASE TargetReads(c)
    <2> DEFINE g == [h EXCEPT !.stalled = FALSE]
    <2>1. Shows(g, h.pc, h.up, h.down, h.code, h.limit, h.failed) /\ SameLoss(h, g)
      BY <1>0, TaskShapes
    <2>2. Set(c, g)
      BY <1>12 DEF TargetReads
    <2> HIDE DEF g
    <2>3. Truthful(g)
      BY <1>0, <2>1, <2>2 DEF Truthful, Shows, SameLoss, Limits
    <2> QED
      BY <2>2, <2>3, SetTruthful
  <1>13. CASE ClientReads(c)
    <2> DEFINE down == IF h.down = "running" /\ h.reset THEN Lost(h) ELSE h.down
               g == [h EXCEPT !.clogged = FALSE, !.down = down]
    <2>1. Set(c, g)
      BY <1>13 DEF ClientReads
    <2>2. \/ down = h.down
          \/ h.down = "running" /\ (down = "failed" \/ (down = "timedout" /\ h.timedout))
      BY DEF Lost
    <2> HIDE DEF down
    <2>3. Shows(g, h.pc, h.up, down, h.code, h.limit, h.failed) /\ SameLoss(h, g)
      BY <1>0, TaskShapes
    <2> HIDE DEF g
    <2>4. Truthful(g)
      BY <1>0, <2>2, <2>3 DEF Truthful, Shows, SameLoss, Limits
    <2> QED
      BY <2>1, <2>4, SetTruthful
  <1>14. ASSUME NEW how \in {"failed", "timedout"}, TargetResets(c, how) PROVE CloseInv'
    <2> DEFINE down == IF h.down = "running" /\ ~h.clogged THEN how ELSE h.down
               up == IF h.up = "running" /\ h.stalled THEN how ELSE h.up
               late == how = "timedout"
               g == [h EXCEPT !.reset = TRUE, !.timedout = late, !.stalled = FALSE,
                              !.down = down, !.up = up]
    <2>1. Set(c, g) /\ ~h.reset
      BY <1>14 DEF TargetResets
    <2>2. /\ down = h.down \/ (h.down = "running" /\ down = how)
          /\ up = h.up \/ (h.up = "running" /\ up = how)
          /\ late = (how = "timedout")
      OBVIOUS
    <2> HIDE DEF down, up, late
    <2>3. /\ Shows(g, h.pc, up, down, h.code, h.limit, h.failed)
          /\ g.reset = TRUE /\ g.timedout = late
      BY <1>0 DEF Handlers, Shows
    <2> HIDE DEF g
    <2>4. ~h.timedout
      BY <1>0, <2>1 DEF Truthful
    <2>5. CASE how = "failed"
      <3>1. Truthful(g)
        BY <1>0, <2>2, <2>3, <2>4, <2>5 DEF Truthful, Shows, Limits
      <3> QED
        BY <2>1, <3>1, SetTruthful
    <2>6. CASE how = "timedout"
      <3>0. g.timedout /\ g.reset
        BY <2>2, <2>3, <2>6
      <3>1. Truthful(g)
        BY <1>0, <2>2, <2>3, <2>4, <2>6, <3>0 DEF Truthful, Shows, Limits
      <3> QED
        BY <2>1, <3>1, SetTruthful
    <2> QED
      BY <2>5, <2>6
  <1> QED
    BY <1>1, <1>2, <1>3, <1>4, <1>5, <1>6, <1>7, <1>8, <1>9, <1>10, <1>11, <1>12, <1>13, <1>14 DEF Peers

LEMMA CloseStep ==
    ASSUME TypeOK, CloseInv, [Next]_vars
    PROVE  CloseInv'
  <1>1. ASSUME UNCHANGED conn PROVE CloseInv'
    BY <1>1 DEF CloseInv
  <1>2. CASE Restart
    <2>1. \A c \in Conns : conn'[c] = Free
      BY <1>2 DEF Restart
    <2>2. Truthful(Free)
      BY BareTruthful DEF Free
    <2> QED
      BY <2>1, <2>2 DEF CloseInv
  <1> QED
    BY <1>1, <1>2, CloseProgress, ClosePeers DEF Next, vars, Issue, Tick

(* A close code of 1008 means that the tunnel met a limit or that the system *)
(* gave up the target's connection, and a tunnel that met a limit does not   *)
(* end silently: for every interleaving of the two tasks' endings with the   *)
(* target's failures, of any number of tunnels.                              *)
THEOREM CloseCodes == Spec => []CloseCodeTells
  <1>1. Init => CloseInv
    <2>1. Truthful(Free)
      BY BareTruthful DEF Free
    <2> QED
      BY <2>1 DEF Init, CloseInv
  <1>2. TypeOK /\ CloseInv /\ [Next]_vars => CloseInv'
    BY CloseStep
  <1>3. CloseInv => CloseCodeTells
    BY DEF CloseInv, CloseCodeTells, Truthful
  <1> QED
    BY <1>1, <1>2, <1>3, TypeCorrect, PTL DEF Spec
=============================================================================
