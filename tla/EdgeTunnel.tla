----------------------------- MODULE EdgeTunnel -----------------------------
(***************************************************************************)
(* One process of the edge tunnel (edge-tunnel/edge_tunnel): it admits a   *)
(* WebSocket connection on a ticket signed by the control plane, at most   *)
(* once per ticket and MaxConnections at a time, and relays bytes to the   *)
(* ticket's target until one side closes or a limit is reached.            *)
(*                                                                         *)
(* Handlers are coroutines of one event loop: a step here runs from one    *)
(* await to the next.  Timers (connect, idle, total duration) may fire at  *)
(* any moment at which the code has them armed.                            *)
(***************************************************************************)
EXTENDS Integers, FiniteSets

CONSTANTS
    Conns,          \* handlers that can exist at once
    Tickets,        \* ticket ids (jti) the control plane signs for this node
    None,
    MaxConnections, \* settings.max_connections
    MaxBytes,       \* settings.max_bytes_per_connection
    MaxFrame,       \* settings.max_frame_bytes
    MaxTTL,         \* settings.ticket_max_ttl
    FutureSkew,     \* TicketVerifier.future_skew
    MaxLead,        \* how far the issuer's clock may run ahead of the edge's
    MaxClock,       \* bound on time
    Faults          \* which of "reset", "timeout", "stall", "clog", "restart" may happen

ASSUME TunnelConstants ==
    /\ IsFiniteSet(Conns) /\ None \notin Tickets
    /\ MaxConnections \in Nat /\ MaxBytes \in Nat /\ MaxFrame \in Nat \ {0}
    /\ MaxTTL \in Nat \ {0} /\ FutureSkew \in Nat /\ MaxLead \in Nat
    /\ MaxClock \in Nat

VARIABLES
    clock,      \* int(time.time()) on the edge
    claims,     \* iat and exp of each ticket issued
    cache,      \* ReplayCache._expires: the tickets it remembers
    active,     \* Runtime.active
    conn,       \* the handlers
    validUses,  \* history: claims granted per ticket by this process before its exp
    leaked      \* history: slots whose handler ended without release()

vars == <<clock, claims, cache, active, conn, validUses, leaked>>

-----------------------------------------------------------------------------
Time == 0 .. MaxClock

Unissued == [iat |-> 0, exp |-> 0]

(* Where a handler waits.  "upgrading" and later hold an open connection to  *)
(* the target; "stopping" is ws.close(1008), "closing" the wait_closed() of  *)
(* _relay and "cleanup" that of tunnel.                                      *)
Holding == {"resolving", "connecting", "upgrading", "relaying", "stopping", "closing", "cleanup"}
Points == {"free", "done"} \cup Holding

(* How a relay task stands: running, in ws.close(1003) ("refusing"), or how  *)
(* it finished.  "timedout" is the TimeoutError (ETIMEDOUT) of a connection  *)
(* to the target that the system gave up, "idle" that of wait_for.           *)
Tasks == {"none", "running", "refusing", "ended", "idle", "over", "failed", "timedout"}

Codes == {0, 1000, 1003, 1008}

(* bytes is the accounted total and relayed (history) what was passed on.    *)
(* stalled: data for the target is buffered and the target does not read.    *)
(* clogged: data for the client is buffered, it does not read, and the relay *)
(* waits in ws.send_bytes.  reset: the connection to the target was lost     *)
(* with an error; timedout: with a TimeoutError.  failed: the relay is       *)
(* ending on an error.  limit (history): a task met the limit on bytes or on *)
(* idle time.  code: what the WebSocket was closed with, 0 while it is open. *)
Handlers == [pc : Points, ticket : Tickets \cup {None}, up : Tasks, down : Tasks,
             bytes : Nat, relayed : Nat, stalled : BOOLEAN, clogged : BOOLEAN,
             reset : BOOLEAN, timedout : BOOLEAN, failed : BOOLEAN, limit : BOOLEAN,
             code : Codes, tally : SUBSET {"accepted", "denied"}]

\* A handler without a connection to the target.
Bare(pc, t, tally) ==
    [pc |-> pc, ticket |-> t, up |-> "none", down |-> "none",
     bytes |-> 0, relayed |-> 0, stalled |-> FALSE, clogged |-> FALSE,
     reset |-> FALSE, timedout |-> FALSE, failed |-> FALSE, limit |-> FALSE,
     code |-> 0, tally |-> tally]

Free == Bare("free", None, {})

TypeOK ==
    /\ clock \in Time
    /\ claims \in [Tickets -> [iat : Nat, exp : Nat]]
    /\ cache \subseteq Tickets
    /\ active \in Nat
    /\ conn \in [Conns -> Handlers]
    /\ validUses \in [Tickets -> Nat]
    /\ leaked \in Nat

Init ==
    /\ clock = 0
    /\ claims = [t \in Tickets |-> Unissued]
    /\ cache = {}
    /\ active = 0
    /\ conn = [c \in Conns |-> Free]
    /\ validUses = [t \in Tickets |-> 0]
    /\ leaked = 0

-----------------------------------------------------------------------------
(* Admission.                                                                *)

\* EdgeTicketIssuer.issue, on a clock that runs up to MaxLead ahead.
Issue(t, lead, ttl) ==
    /\ claims[t] = Unissued
    /\ claims' = [claims EXCEPT ![t] = [iat |-> clock + lead, exp |-> clock + lead + ttl]]
    /\ UNCHANGED <<clock, cache, active, conn, validUses, leaked>>

\* TicketVerifier.verify on a ticket signed for this node.
Verified(t, now) ==
    LET lifetime == claims[t].exp - claims[t].iat
    IN  /\ claims[t].exp > now
        /\ claims[t].iat <= now + FutureSkew
        /\ lifetime > 0 /\ lifetime <= MaxTTL

\* Mutant of Remembered: a ticket is forgotten a second before it expires.
RememberedShort(now) == {t \in cache : claims[t].exp > now + 1}

\* ReplayCache.claim forgets what has expired, then looks the ticket up.
Remembered(now) == {t \in cache : claims[t].exp > now}

\* Mutant of MayAcquire: off by one.
MayAcquireOneMore == active <= MaxConnections

\* Runtime.acquire.
MayAcquire == active < MaxConnections

Set(c, h) == conn' = [conn EXCEPT ![c] = h]

\* The handler is over; "denied" was counted or not.
Answered(c, tally) == Set(c, Bare("done", None, tally))

\* The handler up to its first await.  verify and claim each read the clock,
\* and the second may have changed between them: claim reads the time now.
TunnelStart(c, t, now) ==
    LET known == Remembered(now)
    IN  /\ conn[c].pc = "free" /\ now \in Time /\ now \in {clock, clock + 1}
        /\ clock' = now
        /\ IF ~Verified(t, clock)
           THEN /\ Answered(c, {"denied"})
                /\ UNCHANGED <<cache, active, validUses>>
           ELSE IF t \in known
           THEN /\ cache' = known
                /\ Answered(c, {"denied"})
                /\ UNCHANGED <<active, validUses>>
           ELSE /\ cache' = known \cup {t}
                /\ validUses' = IF now < claims[t].exp
                                THEN [validUses EXCEPT ![t] = @ + 1] ELSE validUses
                /\ IF MayAcquire
                   THEN /\ active' = active + 1
                        /\ Set(c, Bare("resolving", t, {}))
                   ELSE Answered(c, {}) /\ UNCHANGED active
        /\ UNCHANGED <<claims, leaked>>

\* A ticket with a bad signature or shape, or for another node.
TunnelNoTicket(c) ==
    /\ conn[c].pc = "free"
    /\ Answered(c, {"denied"})
    /\ UNCHANGED <<clock, claims, cache, active, validUses, leaked>>

ConnOnly == UNCHANGED <<clock, claims, cache, active, validUses, leaked>>

At(c, pc) == conn[c].pc = pc
Goto(c, pc) == Set(c, [conn[c] EXCEPT !.pc = pc])

\* Mutant of RefuseAndRelease: the except clause releases, and finally again.
RefuseAndReleaseTwice(c) ==
    /\ Answered(c, {"denied"})
    /\ active' = active - 2
    /\ UNCHANGED <<clock, claims, cache, validUses, leaked>>

\* tunnel's finally with no connection to close.
RefuseAndRelease(c) ==
    /\ Answered(c, {"denied"})
    /\ active' = active - 1
    /\ UNCHANGED <<clock, claims, cache, validUses, leaked>>

\* PublicTargetPolicy.resolve returns a vetted address, or raises TargetDenied.
Resolved(c) == At(c, "resolving") /\ Goto(c, "connecting") /\ ConnOnly
TargetDenied(c) == At(c, "resolving") /\ RefuseAndRelease(c)

\* The connector succeeds, or fails or exceeds connect_timeout.
Connected(c) == At(c, "connecting") /\ Goto(c, "upgrading") /\ ConnOnly
ConnectFailed(c) == At(c, "connecting") /\ RefuseAndRelease(c)

\* The error that reading from and writing to a lost target raises.
Lost(h) == IF h.timedout THEN "timedout" ELSE "failed"

\* ws.prepare: the relay starts; or the client is gone (OSError, counted); or
\* the request was no WebSocket handshake (400, not counted).
Upgraded(c) ==
    /\ At(c, "upgrading")
    /\ Set(c, [conn[c] EXCEPT !.pc = "relaying", !.tally = {"accepted"}, !.up = "running",
                              !.down = IF conn[c].reset THEN Lost(conn[c]) ELSE "running"])
    /\ ConnOnly
UpgradeFailed(c, tally) ==
    /\ At(c, "upgrading") /\ tally \in {{}, {"denied"}}
    /\ Set(c, [conn[c] EXCEPT !.pc = "cleanup", !.tally = tally])
    /\ ConnOnly

-----------------------------------------------------------------------------
(* The relay.  Its two tasks go on while ws.close(1008) is awaited.          *)

Relaying(c) == conn[c].pc \in {"relaying", "stopping"}

\* Mutant of Account: the limit is applied to each frame, not to the total.
AccountFrame(h, n) ==
    [ok |-> n <= MaxBytes, h |-> [h EXCEPT !.bytes = n, !.relayed = h.relayed + n]]

\* account(n), then pass the data on.
Account(h, n) ==
    IF h.bytes + n > MaxBytes
    THEN [ok |-> FALSE, h |-> [h EXCEPT !.bytes = h.bytes + n]]
    ELSE [ok |-> TRUE, h |-> [h EXCEPT !.bytes = h.bytes + n, !.relayed = h.relayed + n]]

\* websocket_to_tcp: a binary frame, after which drain() may have to wait.
ClientData(c, n, stalls) ==
    LET h == conn[c]
        a == Account(h, n)
    IN  /\ Relaying(c) /\ h.up = "running" /\ ~h.stalled
        /\ stalls => "stall" \in Faults /\ a.ok /\ ~h.reset
        /\ \/ a.ok /\ ~h.reset /\ Set(c, [a.h EXCEPT !.stalled = stalls])
           \/ a.ok /\ h.reset /\ Set(c, [a.h EXCEPT !.up = Lost(h)])
           \/ ~a.ok /\ Set(c, [a.h EXCEPT !.up = "over", !.limit = TRUE])
        /\ ConnOnly

\* tcp_to_websocket: a chunk from the target; send_bytes may have to wait.
TargetData(c, n, clogs) ==
    LET h == conn[c]
        a == Account(h, n)
    IN  /\ Relaying(c) /\ h.down = "running" /\ ~h.clogged
        /\ clogs => "clog" \in Faults /\ a.ok
        /\ Set(c, IF a.ok THEN [a.h EXCEPT !.clogged = clogs] ELSE [a.h EXCEPT !.down = "over", !.limit = TRUE])
        /\ ConnOnly

\* The client closes, or is gone.
ClientEnds(c) ==
    /\ Relaying(c) /\ conn[c].up = "running" /\ ~conn[c].stalled
    /\ Set(c, [conn[c] EXCEPT !.up = "ended", !.code = IF @ = 0 THEN 1000 ELSE @])
    /\ ConnOnly

\* A text frame: ws.close(1003), which waits until the client has read what is
\* buffered for it, and a while for its answer.
ClientText(c) ==
    /\ Relaying(c) /\ conn[c].up = "running" /\ ~conn[c].stalled /\ conn[c].code = 0
    /\ Set(c, [conn[c] EXCEPT !.up = "refusing", !.code = 1003])
    /\ ConnOnly
Refused(c) ==
    /\ Relaying(c) /\ conn[c].up = "refusing" /\ ~conn[c].clogged
    /\ Set(c, [conn[c] EXCEPT !.up = "ended"])
    /\ ConnOnly

\* The target's end of file.
TargetEnds(c) ==
    /\ Relaying(c) /\ conn[c].down = "running" /\ ~conn[c].clogged
    /\ Set(c, [conn[c] EXCEPT !.down = "ended"])
    /\ ConnOnly

\* send_bytes to a client that is gone, or to a WebSocket that was closed.
ClientLost(c) ==
    /\ Relaying(c) /\ conn[c].down = "running"
    /\ Set(c, [conn[c] EXCEPT !.down = "failed", !.clogged = FALSE])
    /\ ConnOnly

\* wait_for(..., idle_timeout) around receive and around read.
ClientIdle(c) ==
    /\ Relaying(c) /\ conn[c].up = "running" /\ ~conn[c].stalled
    /\ Set(c, [conn[c] EXCEPT !.up = "idle", !.limit = TRUE])
    /\ ConnOnly
TargetIdle(c) ==
    /\ Relaying(c) /\ conn[c].down = "running" /\ ~conn[c].clogged
    /\ Set(c, [conn[c] EXCEPT !.down = "idle", !.limit = TRUE])
    /\ ConnOnly

\* Stop both tasks and call writer.close().
Closing(h) == [h EXCEPT !.pc = "closing", !.up = "none", !.down = "none", !.clogged = FALSE]

\* The tasks that have finished.
Done(h) == {h.up, h.down} \ {"running", "refusing"}

\* Mutant of RelayWakes: any error of a task counts as a limit.
RelayWakesAnyError(c) ==
    /\ At(c, "relaying") /\ Done(conn[c]) # {}
    /\ Set(c, [conn[c] EXCEPT !.pc = "stopping", !.code = 1008])
    /\ ConnOnly

\* asyncio.wait returns with the finished tasks; result() raises the error of
\* the first one that has one, in no particular order.  A TimeoutError and the
\* ValueError of account() lead to ws.close(1008), which does nothing where
\* the WebSocket has been closed.
RelayWakes(c) ==
    LET h == conn[c]
    IN  /\ At(c, "relaying")
        /\ \E r \in Done(h) :
              \/ r \in {"idle", "over", "timedout"}
                 /\ Set(c, [h EXCEPT !.pc = "stopping", !.code = IF @ = 0 THEN 1008 ELSE @])
              \/ r = "failed" /\ Set(c, [Closing(h) EXCEPT !.failed = TRUE])
              \/ Done(h) = {"ended"} /\ Set(c, Closing(h))
        /\ ConnOnly

\* Mutant of DurationExpires: asyncio.wait without a timeout.
DurationUnlimited(c) == FALSE

\* asyncio.wait times out after max_connection_seconds: nothing is done, and
\* nothing raises.
DurationExpires(c) ==
    /\ At(c, "relaying") /\ Done(conn[c]) = {}
    /\ Set(c, Closing(conn[c]))
    /\ ConnOnly

\* ws.close(1008) returns once the client has read what is buffered for it and
\* has answered, or not in time.
StopRelay(c) ==
    /\ At(c, "stopping") /\ (conn[c].clogged => conn[c].code # 1008)
    /\ Set(c, Closing(conn[c]))
    /\ ConnOnly

\* wait_closed() in _relay returns once the buffer is flushed and the
\* connection gone.  It raises what the connection was lost with.  After an
\* error tunnel closes the connection once more, and counts it as denied
\* unless the error is one of aiohttp's own; else the handler returns, and
\* aiohttp closes the WebSocket with 1000.
RelayClosed(c) ==
    LET h == conn[c]
    IN  /\ At(c, "closing") /\ ~h.stalled
        /\ IF h.reset \/ h.failed
           THEN /\ \E tally \in SUBSET {"denied"} :
                      /\ h.reset => tally # {}
                      /\ Set(c, [h EXCEPT !.pc = "cleanup", !.tally = @ \cup tally])
                /\ UNCHANGED active
           ELSE /\ Set(c, [h EXCEPT !.pc = "done", !.code = IF @ = 0 THEN 1000 ELSE @])
                /\ active' = active - 1
        /\ UNCHANGED <<clock, claims, cache, validUses, leaked>>

\* tunnel's finally with a connection to close: if wait_closed() raises, the
\* release() after it is not reached.
CleanupDone(c) ==
    /\ At(c, "cleanup")
    /\ Goto(c, "done")
    /\ IF conn[c].reset
       THEN leaked' = leaked + 1 /\ UNCHANGED active
       ELSE active' = active - 1 /\ UNCHANGED leaked
    /\ UNCHANGED <<clock, claims, cache, validUses>>

Recycle(c) == At(c, "done") /\ Set(c, Free) /\ ConnOnly

-----------------------------------------------------------------------------
(* What happens to the process.                                              *)

\* The target resets the connection, or the system gives it up after lost
\* packets: reading fails, and so does drain().  A task that waits for the
\* client finds out later.  Once close() was called only unsent data can still
\* meet this.
TargetResets(c, how) ==
    LET h == conn[c]
    IN  /\ (IF how = "timedout" THEN "timeout" ELSE "reset") \in Faults /\ ~h.reset
        /\ h.pc \in {"upgrading", "relaying", "stopping"} \/ (h.pc = "closing" /\ h.stalled)
        /\ Set(c, [h EXCEPT !.reset = TRUE, !.timedout = how = "timedout", !.stalled = FALSE,
                            !.down = IF @ = "running" /\ ~h.clogged THEN how ELSE @,
                            !.up = IF @ = "running" /\ h.stalled THEN how ELSE @])
        /\ ConnOnly

\* The target reads again.
TargetReads(c) ==
    /\ conn[c].stalled
    /\ Set(c, [conn[c] EXCEPT !.stalled = FALSE])
    /\ ConnOnly

\* The client reads again.
ClientReads(c) ==
    LET h == conn[c]
    IN  /\ h.clogged
        /\ Set(c, [h EXCEPT !.clogged = FALSE, !.down = IF @ = "running" /\ h.reset THEN Lost(h) ELSE @])
        /\ ConnOnly

\* A restart loses the handlers, the counters and the replay cache.
Restart ==
    /\ "restart" \in Faults
    /\ cache' = {} /\ active' = 0 /\ leaked' = 0
    /\ conn' = [c \in Conns |-> Free]
    /\ validUses' = [t \in Tickets |-> 0]
    /\ UNCHANGED <<clock, claims>>

Tick ==
    /\ clock < MaxClock /\ clock' = clock + 1
    /\ UNCHANGED <<claims, cache, active, conn, validUses, leaked>>

\* What the event loop does by itself: resolver, timers, callbacks.
Progress(c) ==
    \/ Resolved(c) \/ TargetDenied(c) \/ Connected(c) \/ ConnectFailed(c)
    \/ Upgraded(c) \/ (\E tally \in SUBSET {"denied"} : UpgradeFailed(c, tally))
    \/ RelayWakes(c) \/ Refused(c) \/ DurationExpires(c) \/ StopRelay(c) \/ RelayClosed(c) \/ CleanupDone(c)

\* What client and target do.
Peers(c) ==
    \/ \E t \in Tickets, now \in {clock, clock + 1} : TunnelStart(c, t, now)
    \/ TunnelNoTicket(c)
    \/ \E n \in 1 .. MaxFrame, waits \in BOOLEAN : ClientData(c, n, waits) \/ TargetData(c, n, waits)
    \/ ClientEnds(c) \/ ClientText(c) \/ ClientLost(c) \/ TargetEnds(c)
    \/ ClientIdle(c) \/ TargetIdle(c)
    \/ \E how \in {"failed", "timedout"} : TargetResets(c, how)
    \/ TargetReads(c) \/ ClientReads(c) \/ Recycle(c)

Next ==
    \/ \E c \in Conns : Progress(c) \/ Peers(c)
    \/ \E t \in Tickets, lead \in 0 .. MaxLead, ttl \in 1 .. MaxTTL + 1 : Issue(t, lead, ttl)
    \/ Restart \/ Tick

Spec == Init /\ [][Next]_vars

\* The event loop runs every ready callback and fires every timer.
FairSpec == Spec /\ \A c \in Conns : WF_vars(Progress(c))

-----------------------------------------------------------------------------
(* What the tunnel promises.                                                 *)

Tunnels == {c \in Conns : conn[c].pc \in Holding}

(* The limit on concurrent connections is never exceeded, and the counter is *)
(* exact but for slots lost to a failing close: no refusal, error or restart *)
(* between acquire() and release() gives a slot back twice or not at all.    *)
SlotsAccounted ==
    /\ active = Cardinality(Tunnels) + leaked
    /\ active <= MaxConnections

(* A process admits a ticket at most once before the ticket expires, though  *)
(* claim() forgets tickets as they expire and verify() read the clock first. *)
OneUseWhileValid == \A t \in Tickets : validUses[t] <= 1

(* A tunnel passes on at most MaxBytes in both directions together, also     *)
(* while the other direction is being stopped.                               *)
ByteLimit == \A c \in Conns : conn[c].relayed <= MaxBytes

(* What the close code tells.  1008 means that a limit was met, or that the  *)
(* system gave up the connection to the target, whose TimeoutError the relay *)
(* cannot tell from that of its idle timer: not that a task failed or ended  *)
(* in the same turn of the event loop.  And a client learns of a limit,      *)
(* unless the relay ended on an error or the WebSocket was closed before.    *)
(* (The limit on total duration is not told: it closes with 1000.)           *)
CloseCodeTells ==
    \A c \in Conns :
        /\ conn[c].code = 1008 => conn[c].limit \/ conn[c].timedout
        /\ conn[c].pc = "closing" /\ conn[c].limit /\ ~conn[c].failed => conn[c].code # 0

(* Every admitted tunnel ends, however long client and target keep it busy,  *)
(* unless the target stops reading what is buffered for it, or the client    *)
(* does when a limit is to be told to it: ws.close(1008) has no timeout.     *)
TunnelEndsUnlessUnread ==
    \A c \in Conns :
        conn[c].pc \in Holding
          ~> (conn[c].pc \notin Holding \/ conn[c].stalled \/ (conn[c].pc = "stopping" /\ conn[c].clogged))

(* Why they hold.  While a ticket is valid the cache remembers its use; what *)
(* is passed on has been accounted for.                                      *)
UsesRemembered ==
    \A t \in Tickets :
        /\ claims[t].exp = 0 => validUses[t] = 0
        /\ validUses[t] > 0 /\ clock < claims[t].exp => t \in cache
RelayedAccounted == \A c \in Conns : conn[c].relayed <= conn[c].bytes

TunnelInv == TypeOK /\ SlotsAccounted /\ OneUseWhileValid /\ UsesRemembered
             /\ ByteLimit /\ RelayedAccounted
=============================================================================
