# IdenGrid: formal specification

TLA+ models of IdenGrid's control plane, edge tunnel, local agent and macOS
client, the TLC configurations that check them on small instances, and TLAPS
proofs for instances of any size.
Every definition is translated from the source; `PROJECT.json` maps each one to
the lines it stands for.

## 1. The system

IdenGrid lets members of a team work in browser profiles ("stores") whose
traffic leaves through edge nodes the team runs itself.

| Part | Source | State | Operations |
|---|---|---|---|
| Control plane: leases | `cloudbrowser/app.py` 2842-3414, `models.py`, `schema.py` | `store_connection_leases`, `managed_stores`, `user_edge_node_grants` | connect, preflight, heartbeat, ticket, disconnect, list; forced disconnection, rebinding, deletion by administrators |
| Control plane: sign-in | `cloudbrowser/app.py` 636-732, 929-1337, 1521-1739, 3856-3874 | `users` (password, `token_version`, `enabled`), `device_sessions` (`token_generation`, refresh token hash) | web login, native login, refresh, revoke, logout, password change, switch off and on, delete |
| Control plane: login throttle | `cloudbrowser/app.py` 960-1142 | `native_login_throttles` | check, count a failure, clear after a success, purge |
| Control plane: nodes | `cloudbrowser/app.py` 1795-2840, `edge_health.py`, `windows-edge/bootstrap/register.py` | `edge_nodes`, `node_enrollments`, `node_registration_requests` | issue, claim, report, revoke and regenerate a code; register, prove, accept, reject, claim; probe and judge; maintenance |
| Control plane: cloud sessions | `cloudbrowser/app.py` 3416-3807, `runner.py`, `browser_control.py` | `browser_sessions` rows, podman containers, profile locks, tabs | start, stop, status, open and close tabs (off by default) |
| Edge tunnel | `edge-tunnel/edge_tunnel/` | replay cache, slot counter, one handler per connection | verify and claim a ticket, resolve, connect, relay, close |
| Local agent | `native-client/agent-rs/src/` | current lease and token, control socket, SOCKS relays, latency samples | connect, heartbeat, control commands, relay, shutdown |
| Clients | `native-client/macos`, `windows-client` | session, tokens, agent and browser processes per store, store locks | sign in and out, refresh, open, close, recover |
| Database migration | `scripts/migrate_sqlite_to_mysql.py` | a source and a target database | report, reset, copy, verify |
| Windows edge | `windows-edge/scripts` | files and services | install, upgrade |

How they interact.  A client signs in (device session, access and refresh
token), and starts one agent per open store.  The agent takes a lease with
preflight or connect and renews it with a heartbeat; the lease dies 90 s after
its last heartbeat.  For each connection of the browser the agent obtains a
ticket (at most 60 s, never longer than the lease) and presents it to the edge
node, which verifies the control plane's signature, admits it once and relays.
The edge never asks the control plane, so everything that must stop a user has
to act through the lifetimes of tokens, leases and tickets.  The health monitor
probes nodes and switches them online and offline; connect and ticket refuse a
node that is not online.  A node comes into being with a one-time code or by a
machine's own registration, which an administrator accepts.  The client hands
each agent its access token at start and again after every refresh, over the
agent's control socket; when agent or browser ends, the client ends the other.

What is hard.  In production the database is MySQL at REPEATABLE READ: a
request sees the rows as of its first read, and the ORM writes back only the
columns it changed, with values computed from what it read.  Nearly every
guarantee above is a check made on one version of a row and a write made on
another.  On the edge, handlers are coroutines that interleave at every
`await`, counters are shared, timers race with the data they time, and cleanup
itself awaits and can fail.  The client's functions share one thread and
interleave at every `await`, beside processes that die and requests that get
lost.  The hazards are listed one by one, each at its
line, in `PROJECT.json`.

What makes each part correct:

- leases: one active lease per store, user and device; what was ended stays
  ended; a token or grant that is taken away loses its hold on leases and
  tickets within a stated time; a ticket does not outlast its lease;
- sign-in: a live device session always rests on the present password, and no
  access token outlives the password it was obtained with; a refresh token is
  redeemed once; only a login undoes a revocation;
- throttle: a cooldown holds; the rate of guesses is bounded;
- edge: a valid ticket is admitted once; slots are neither exceeded nor given
  back twice; the byte limit holds over both directions; the close code tells
  a limit from an error; tunnels end;
- nodes: a code and a registration yield the node's secret once, and a
  registration only after one acceptance; a code that was revoked or replaced is
  dead; revoking switches the node off; the monitor's verdict is about the node
  as it is, and an overtaken one is put right;
- cloud sessions: two browsers never run on one profile; a stop leaves nothing;
- migration: success means that the target holds one snapshot of the source,
  as far as two reads of each table can tell;
- agent and client: one browser per profile; a browser that is cut off is
  closed; an agent whose token is refreshed under its heartbeat repeats the
  heartbeat instead of giving up; a refresh token is not replayed unless an
  answer was lost.

## 2. The modules

Each component has a module with its state and actions, an `MC` module that
adds what TLC needs (symmetry, functions as constants), and, where something
is proved, a `_proofs` module; that of Enrollment also holds what is proved of
HealthMonitor, which extends it.
An operator introduced by a comment "Mutant of X" is not part of the model: it
is a plausible mistake in the code X models, kept to show that the properties
notice it.

### StoreLease

A request is a record in `req`: its query, the time it arrived, the version of
the caller's token and `snap`, the tables as of its first read.  `Arrive` is the
authentication (`current_user`), which is that first read.  One action per
handler then reads `snap`, and commits on top of the present tables: this is how
a decision made on old rows meets rows that have changed.  `connect_store` and
`heartbeat_store` read the store row `FOR UPDATE`, hence current, while its node
and the leases come from the snapshot.  The ticket handler has two actions,
before and after its DNS lookup.  `active_store_leases` marks the stale rows it
meets as expired; that write is part of each action that calls it.  `Rollback`
covers every answer that commits nothing, a failed flush (`Present`: the row
was deleted meanwhile) and a crash.  `UniqueIndexAdmits` is the unique index of
`schema.py`.  Operations whose effect depends on nothing else they read
(logout, switching an account, grants, a node's switch and the monitor's
verdict) are one step.  Account operations on one user are taken to be serial
here, because NativeSession is about them; so are replacements of a user's
grants, each of which in the code deletes the rows it has read.  A ticket
request that finds several leases of its device and is refused (409) is one of
those that find none: neither commits.  `ver` in a lease row and in a
ticket, `supersededAt` and `ungrantedAt` are history, for the properties.

### NativeSession

One member account, its device sessions and the tokens handed out.  A request
reads in `Start` and writes in a later action; what it writes is computed from
what it read, except for the two statements the database computes itself (the
conditional rotation of `native_refresh`, the bulk `revoke_device_sessions`).
`native_login` locks the account row (`LoginLock`), compares it with the row
whose password was verified, and commits (`LoginCommit`); account operations
wait for the lock.  Passwords are numbers, one per hash; refresh tokens are
numbered as drawn.  `redeemed`, the password in a token and `raced` are history;
`raced` tells that an account operation wrote a `token_version` computed from
one that was no longer the account's.

### LoginThrottle

The three counters of an attempt.  `Arrive` reads the clock, `Precheck` is the
first transaction, `Verify` the password check with no transaction open (it
reads the clock again on failure), `RecordFailure` and `ClearThrottles` the
second transaction.  `Delay` bounds how long an attempt waits for its locks
after it read the clock.  `failures` is history: for each time, how many
failures a counter took in the window's length that begins there, since a login
last cleared it.  A purge deletes the row and leaves the history.

### EdgeTunnel

One process.  A handler's `pc` is the `await` it is suspended in; a step is what
runs up to the next one.  `verify` and `claim` each read the clock, so
`TunnelStart` may see the second turn between them.  The relay's two tasks
each finish by themselves: at an end, at the limit on bytes or on idle time
(which sets `limit`), or with an error.  `RelayWakes` then looks at the tasks
that have finished, one or both, and goes by one of their results: to an end, to
`ws.close(1008)`, or to an error; the tasks go on while the close is awaited.
Timers are actions that are enabled whenever the code has them armed.  Peers are
nondeterministic.  The target may reset the connection, or the system may give
it up (`timedout`), whose `TimeoutError` the relay handles like that of its idle
timer.  The target may stop reading (`stalled`: `drain()` and `wait_closed()`
wait for it) and so may the client (`clogged`: `send_bytes` waits for it, and so
does `ws.close`, which drains the transport first; a close of a WebSocket that
is closed already returns at once).  The client may leave or send a text frame
(`ws.close(1003)`), the process may restart (losing its cache).
`validUses`, `leaked`, `relayed` and `limit` are history.

### Enrollment

The three tables of nodes, codes and registrations, and the runs of
`register.py`.  A request reads its rows in `Start` and commits in an action of
its own; `Col` is the ORM's rule that a column is written when its new value
differs from the one that was read, so two requests merge column by column.
Five statements are conditional `UPDATE`s, which look at the row as it is: those
of the two claims (`Redeemable`, `Claimable`), of the two decisions (`Undecided`)
and of the proof of a registration.
`Queries` says which requests installers, bootstrap clients and administrators
may send; what a bootstrap client has sent stays in `sent`, so that the network can repeat it,
and its answers may get lost (`GiveUp`, `PollFails`).  The listings expire and
delete rows and are actions for that reason.  A `PATCH` of a node changes one
of the fields that matter here (endpoint, name and shared secret are left out).
Codes, keys and secrets are
names; that a hash is compared is kept.

### HealthMonitor

Extends Enrollment with the monitor.  `MonitorStart` is a run's read of the
tables, `MonitorCommit` its verdicts for every choice of samples, written over
whatever has changed, and `MonitorAbort` a run that dies.  Latencies, resource
readings and texts are left out; the quorum of samples is kept.

### CloudSession

The cloud browser of one user.  Every commit and every podman command is a step;
`at` is where a request stands between them.  The locks a session keeps after
its start (`kept`) belong to the server process, the file lock of a start under
way follows from the requests.  Containers outlive the server.  The two reads of
the tabs with which a close begins are one.

### SnapshotCopy and Migration

SnapshotCopy is the abstract specification: a run takes the whole source at one
moment and delivers what it took, or gives up.  Of a table that the application
changed during the run to something it had held in the run, it delivers some
content that the table held in the run; references are intact in any case.
Migration is the script, table by table, in two passes, with the application
writing in between, other runs beside it and a death at every step.  A table's
content is a set of rows, a key and a value each, and a write may turn the
database into any other with intact references: rows come, go and change, tables
are emptied, and earlier contents come back.  `held` (what a table has held since
a run began) and `again` (the tables that were given back something of that) are
history.  `Refines` maps the stages to the abstract phases; the moment of `Take`
is the end of the report pass.

### Agent and StoreClient

Agent has the agents of one store on one device, and what they see of the
control plane: the present token generation, whether it is accepted, and the
device's lease, which connect and preflight hand out again while it is active
(StoreLease has the details).  Disconnects and logouts travel in `msgs`, arrive
late, or never.  `Judge` is where the code compares token generations after a
rejection and may repeat the heartbeat once.

StoreClient extends it with the macOS client: `ui` is the view model's session,
`sgen` its `sessionGeneration`, `refresh` and `launch` the asynchronous
functions under way, suspended at an `await`.  Faults are actions: agents and
browsers are killed (an agent leaves its control socket behind), answers are
lost, sessions and leases end.  A crash of the client itself, after which
`recoverStaleLocks` cleans up, is not modelled.

Taken for granted: a sign-in is one step (one that fails leaves the client as it
was); the answer to a launch's preflight is acted on at once; the key chain
stores what it is given; a process's termination handler is always called; a
request whose token has been superseded is refused whenever it arrives.  Three
simplifications more: the awaits between an agent's first status and the start
of the browser are one step (`LaunchReady`); a launch begins only while none is
past its preflight, though the failure of a second click re-enables the button
while the first goes on; and a token update whose answer was lost leaves the
agent with the old token, though it may have applied the new one.

## 3. The runs

| Run | Question | Bounds and why they are enough |
|---|---|---|
| `store_race` | Can stale snapshots give a device two leases, bring an ended lease back, or move a store under a connection the request could see? | one user, device and store, two nodes; two requests in flight and two lease rows are what a lost race needs; two ticks reach staleness by heartbeat |
| `store_token` | How long do a superseded token and a revoked grant keep leases and tickets alive? | ticket lifetime equal to the lease's, so that the lease's end cuts it short; time just past every bound that is claimed |
| `store_access` | The same for grants with an administrator present and nodes switching | one request at a time against one-step changes |
| `session_race` | Does every interleaving leave sessions that rest on the present password, refresh tokens redeemed once and revocations in force, and does a changed password end the tokens? | one device, two requests in flight, three refresh tokens: a login and both sides of a double refresh; one web token, which is enough to authenticate a logout |
| `edge_admit` | Is a valid ticket admitted twice, or a slot lost or given back twice, through refusals, resets and restarts? | two handlers, two tickets, one slot, no bytes to relay (the first frame meets the limit); lifetimes of one to three seconds around a maximum of two, an issuer up to two seconds ahead where one is allowed |
| `edge_relay` | Do the byte limit and the close code hold, and does every tunnel end? | one handler, two tickets, frames up to the whole budget; resets, connections given up, a target and a client that stop reading |
| `throttle_race` | Does a cooldown hold against attempts with old clocks, and how many guesses fit in one window's time? | two attempts in flight, thresholds 1 (a failure beside the one that starts the cooldown would start another), 2 and 2; a unit is 2.5 minutes, so window and first cooldown keep their ratio; the later cooldowns are shortened to the least that still outlasts a window and a wait for the locks; `RateBounded`'s bound, `4 * threshold - 3` and 2 for a threshold of 1, is met exactly by two of the three counters, and one less is violated |
| `enroll` | Is a secret handed out twice, or by a dead code, or without an acceptance, or a node left on by a revocation? | one node name, two codes or two registrations, two requests in flight; `Bound` keeps the two ways apart (the node comes from a code or from a registration, and a second registration meets one request at a time), since they share no row before the node exists |
| `fleet` | Does the monitor's verdict survive what happens while it probes? | one machine from its registration on, one request beside the monitor, three samples of which all must succeed |
| `cloud` | Can two browsers meet on one profile, or a stop leave something behind? | three sessions, two requests at once, two tabs, every fault |
| `migrate` | Does a successful migration implement the copy of one snapshot? | two runs, two tables of which the second refers to the first (`audit_events`, which the code copies first, is in fact referred to by none: the instance is the harder one), two keys, two writes, so that a table can be changed and changed back; where the abstract specification demands the snapshot of every table, TLC finds that history |
| `client` | Does the client keep one browser per profile and close what is cut off? | two agents and two launches (a double click, or an old agent that has not ended yet), two token generations, one lease, a sign-in and a sign-out or two sign-ins, every fault; with three, so that a refresh outlives a sign-out and meets the next sign-in, TLC finds 909,079 states and no violation, which is too long for a routine run |

Symmetry is used for worker slots, lease ids, handlers, tickets, codes and runs,
which are interchangeable names; it is not used in the runs with a liveness
property (`edge_relay`, `fleet`, `client`).  Deadlock checking is off where the
instance uses itself up: `session_race` and `store_token` (the only account is
deleted, the clock at its bound), `enroll` (no name is left), `migrate` (every
run has ended) and `client` (no sign-in is left).

Fairness.  `edge_relay`: weak fairness of what asyncio's event loop does by
itself for a handler, that is to run a callback that is ready and to fire a
timer that is armed.  Nothing is assumed of clients and targets: whether they
read, send or leave is their choice, and an `await` that only they can end is
not enabled until they do.  `fleet`: weak
fairness of the timer that starts the monitor, and strong fairness of its
commit, since a run may die but not every one does.  `client`: weak fairness of
an agent's own steps (the heartbeat timer, an answer or the client library's
timeout, the disconnect before the end), of the termination handlers, and of the
expiry of an access token after 15 minutes; nothing is assumed of users, of the
network, or of processes that were told to stop.

### What the properties leave room for

Behaviour of the code that the models show and that the properties, which hold,
are worded around:

- `update_managed_store` checks for live leases in its snapshot and takes no
  lock that `connect_store` respects: a device that connects meanwhile holds a
  live lease on a store that has moved (`RebindOnlyIdle`).  Its next ticket is
  for the new node.
- `native_login` computes the new `token_generation` from a row that a refresh
  may have moved meanwhile; two access tokens then carry the same generation,
  for at most their 15 minutes.
- `token_version` is read, incremented and written back without a lock, and
  tokens compare it for equality: a password change that overlaps another
  change or a logout can set a version that was already in use, and a web token
  handed out between the two outlives the change (`TokensEndWithPassword` is
  about the histories without such an overlap).
- `POST /api/users/{id}/disable` does not revoke device sessions, while `PATCH`
  with `enabled: false` does.
- After a reset by the target both `wait_closed()` calls in the edge's handler
  raise and `release()` is not reached: the slot is lost until the process
  restarts.  `SlotsAccounted` counts such slots.
- A revocation that overlaps the installer's ready report may leave the node
  enabled (`RevokedMeansOff`); a listing that read an undecided registration
  may write "expired" over its acceptance; deleting a node leaves its
  registration without one, which goes on blocking the machine; and a lost
  answer to a claim leaves the registration "installing".
- A cloud browser that dies keeps its session's lock, so a start is refused
  until a stop; a stop that races its start may leave a container or a lock; two
  overlapping closes may close the last tab (`LastTabStays`).
- A migration that fails its verification leaves the target filled, and the next
  run needs the reset.
- Connect hands an active lease out again, so the late disconnect of an old
  agent, or the failed launch of a second click, ends the lease of the new
  agent, which its next heartbeat notices.  A launch that overlaps a refresh
  gives its agent the old token.  An agent that is killed leaves its control
  socket, and the next agent's bind fails.  The store lock is released when the
  browser is told to stop, not when it has stopped: `OneBrowser` is about
  browsers that have not been told.

Three sentences of `edge-tunnel/README.md` hold only in a weaker form, which is
what the properties state.  "One-use per process" holds for a ticket that has
not expired (`OneUseWhileValid`): as the last second turns between `verify` and
`claim`, the cache has just forgotten the ticket.  "Close code 1008 indicates a
relay limit" holds but for a target whose connection the system gave up with
`ETIMEDOUT`, which `except (TimeoutError, ValueError)` catches as well
(`CloseCodeTells`); conversely reaching `max_connection_seconds` closes with
1000.  "Total duration [is] bounded" holds unless the target stops reading, for
which `wait_closed()` waits without a timeout, or the client does while a limit
is about to be told to it, for which `ws.close(1008)` waits
(`TunnelEndsUnlessUnread`).

The migration compares two reads of each table, so a table that was changed and
changed back between them (a node's `last_error`, a store's `enabled`, throttle
rows that a login inserts and deletes) passes the verification with what it held
earlier or later than the snapshot.  `Refines` says that this is all that can
happen: such a table still has a content that it held in the run, and every
other table is as it was at the moment of the snapshot.  `docs/OPERATIONS.md` asks
for a stop of all writes, under which there are no such tables.

Assumptions of the migration: an audit event is never deleted, so that two runs
that both copy meet in a key of `audit_events`, and equal fingerprints mean
equal contents.  Of cloud sessions: podman commands end with the server that
started them.

## 4. What is proved

For all constants that satisfy the modules' named assumptions, with any number
of users, devices, stores, requests, handlers, tickets and sessions:

| Theorem | Statement | Argument |
|---|---|---|
| `StoreLease_proofs!TypeCorrect` | `[]TypeOK` | one step per action; `QueryFields` says which fields a query has |
| `StoreLease_proofs!OneLease` | `[]OneLeasePerDevice` | only an insertion adds an active row, and the unique index looks at the table as it is, not at the snapshot |
| `StoreLease_proofs!EndedForGood` | `EndedStaysEnded` | every write is `SetStatus` to an ended state, a `Renew`, which leaves the status alone, or fills a blank row |
| `StoreLease_proofs!Lapse` | `[]LapseInv` | inductive with `TypeOK` and the lease theorems; see below |
| `StoreLease_proofs!TicketsEndWithLease` | `[]TicketWithinLease` | a conjunct of `LapseInv` |
| `StoreLease_proofs!SupersededTicketsEnd`, `!RevokedGrantsEnd` | `[]SupersededTicketLapses`, `[]RevokedGrantLapses` | conjuncts of `LapseInv` |
| `StoreLease_proofs!SupersededLeasesLapse` | `[]SupersededTokenLapses` | from `RowsDated` and `RequestsYoung`: a row was last renewed by a request that started while its token was current |
| `StoreLease_proofs!RebindIdle` | `RebindOnlyIdle` | from `SnapshotsArePast`: a lease that is active now and was in the snapshot was active there, so the request was refused over it or marks it expired |
| `NativeSession_proofs!TypeCorrect` | `[]TypeOK` | |
| `NativeSession_proofs!SessionsProvePassword` | `[]LiveSessionProvedPassword` | strengthened with: a login that holds the lock has verified the present password; no account operation commits while it does, and each that changes the password revokes every session as it is |
| `NativeSession_proofs!RevokedForGood` | `RevokedUntilLogin` | only `LoginCommit` clears `revoked`; a rotation leaves the column alone |
| `NativeSession_proofs!RefreshTokensSingleUse` | `[]RefreshTokenSingleUse` | strengthened to `TokenInv`: the token a session holds was drawn for its device and is not spent, and one that was never drawn is not spent either |
| `NativeSession_proofs!TokensDie` | `[]TokensEndWithPassword` | strengthened to `VersionInv` and `RowsStay`, see below |
| `EdgeTunnel_proofs!TypeCorrect` | `[]TypeOK` | needs `SlotsAccounted`: the counter is a natural number because the releasing handler is counted |
| `EdgeTunnel_proofs!Capacity` | `[]SlotsAccounted` | each step changes the counter and the set of tunnels alike |
| `EdgeTunnel_proofs!OneUse` | `[]OneUseWhileValid` | strengthened with `UsesRemembered`: until a ticket expires the cache holds its use |
| `EdgeTunnel_proofs!BytesBounded` | `[]ByteLimit` | strengthened with `RelayedAccounted`: what was passed on was accounted for before |
| `EdgeTunnel_proofs!CloseCodes` | `[]CloseCodeTells` | strengthened to `CloseInv`, see below |
| `CloudSession_proofs!TypeCorrect` | `[]TypeOK` | one lemma per group of actions |
| `CloudSession_proofs!OneBrowserPerProfile` | `[]ProfileExclusive` | strengthened to `ProfileInv`: starts that hold the file lock exclude each other (`OneStarter`), hence what a start saw when it looked for a container still holds when it runs its own (`CheckedIsIdle`); the locks that sessions keep are not needed |
| `CloudSession_proofs!StopsLeaveNothing` | `[]StoppedIsClean` | strengthened to `StopInv`, see below |
| `CloudSession_proofs!LastTabKept` | `LastTabStays` | strengthened with `QuietCloses`: as long as no other close has intervened, a close has a second tab to leave |
| `LoginThrottle_proofs!TypeCorrect` | `[]TypeOK` | one lemma per action; `Counted` keeps the level at 3 or below |
| `LoginThrottle_proofs!CooldownsHold` | `CooldownHolds` | strengthened to `ThrottleInv`: times that attempts have read are past (`TimesPast`), and a cooldown ends before its row may be purged (`CooldownsKept`) |
| `LoginThrottle_proofs!RatesBounded` | `[]RateBounded` | strengthened to `RateInv`, see below |
| `Enrollment_proofs!TypeCorrect` | `[]TypeOK` | one lemma per operation |
| `Enrollment_proofs!SecretsOnce`, `!DecisionsOnce` | `[]RedeemedOnce`, `[]DecidedOnce` | strengthened to `GrantInv`, see below |
| `Enrollment_proofs!OldCodesDead` | `SupersededCodeDead` | from `CodesLive`: a row's code is never a superseded one, and the claim's `UPDATE` compares it |
| `Enrollment_proofs!RevokedStaysOff` | `[]RevokedMeansOff` | strengthened with `ReportsRace`: a report that read the enrollment before its revocation is counted as racing |
| `Enrollment_proofs!MonitorTypeCorrect` | `MonSpec => []MonTypeOK` | `VerdictRow`: what a verdict may be, which needs that the last good sample exists |
| `Enrollment_proofs!FreshVerdicts` | `MonSpec => []FreshVerdictHolds` | strengthened to `MonInv`, see below |
| `Enrollment_proofs!EnrollmentBesideMonitor` | `MonSpec => [](RedeemedOnce /\ DecidedOnce /\ RevokedMeansOff)` | the monitor's commit is one more step that redeems, decides and enables nothing |
| `Migration_proofs!TypeCorrect` | `[]TypeOK` | with `Staging`, which bounds the cursor |
| `Migration_proofs!DeliversSnapshot` | `Spec => Refines` | `MigrationInv`, see below: a step maps to a step of SnapshotCopy or to none |
| `StoreClient_proofs!TypeCorrect` | `[]TypeOK` | a part of `ClientInv` |
| `StoreClient_proofs!BrowsersAlone` | `[]OneBrowser` | strengthened with `Solo`: the lock is held by the store that runs or by the one launch past its preflight |
| `StoreClient_proofs!AgentsOutliveUpdates` | `StopsOnlyIfTokenDead` | strengthened with `RowOK`: a repeated heartbeat carries the first update, and a token that was refused is refused for good |
| `StoreClient_proofs!RefreshesInStep` | `ReplayOnlyAfterLoss` | strengthened with `VaultCurrent`: the vault holds the present refresh token, or its successor is about to be stored |

The inductive invariants, each checked by TLC on its run's instance before it
was proved:

- `TunnelInv` (EdgeTunnel) is the conjunction of the first four theorems and of
  what they need; `ProfileInv` is that of CloudSession's first.
- `CloseInv` (EdgeTunnel) follows a limit from the task that met it to the close:
  until the relay wakes, one of the two tasks still shows it, so that the relay
  cannot take the tunnel for one that ended or ran out of time; a task that shows
  a limit or a `TimeoutError` of the target really met one; and a relay that
  awaits `ws.close(1008)` has its code, which nothing overwrites.
- `LapseInv` (StoreLease) dates everything that a token or a grant can still
  feed.  `SnapshotsArePast` says how a row in a snapshot relates to the row as
  it is (same identity, expiry at most moved forward, ended stays ended),
  `RequestsYoung` and `GrantsYoung` that a request that still believes in a
  superseded token or a revoked grant began before it ended, `RowsDated` and
  `TicketsDated` carry that over to what requests have written, and
  `TicketsChecked` that a ticket is issued on the row its request looked at.
- `StopInv` (CloudSession) follows a stop that began after the start had ended
  from its podman call to its commit (`QuietStops`), and what it cleaned
  afterwards (`CleanStays`); `OneStart`, `EarlyAbsent` and `NoRowNoBox` exclude
  a start of the same session that could bring the container back.
- `GrantInv` (Enrollment): the code in a row belongs to the row's node, is not
  redeemed and not superseded (`CodesLive`); a registration has its token until
  it is redeemed, and is undecided while it is pending (`RegsLive`).  It is
  preserved because the conditional updates look at the row as it is; the
  writes that go by what was read (`Col`) touch neither code nor token.
- `MonInv` (HealthMonitor) adds to this that while a run is under way, a verdict
  that is or will be fresh rests on the node's present mode and address
  (`ReadsCurrent`), that a node that is online now already was when the run read
  it, since the server makes none online (`OnlineBefore`; without it the ORM's
  rule for unchanged columns could leave an older "online" standing), and that
  who waits for a verdict gets one (`PendingProbed`).
- `MigrationInv` (Migration) says of rows read after a run's report that, if they
  are what it reported and the table was not given back an earlier content, the
  table was the same at the moment the report ended (`Agrees`): of the source
  (`Settled`), of what transactions have staged (`Staging`) and of what a run can
  find when it verifies (`Verifying`).  The last needs `Clean` and `Rooted`: the
  target is never a mixture of two copies, since both would insert the oldest
  audit event, so what a run verifies is its own copy or, after another run's
  reset, one that began later.  `Remembered` says that what was read is in `held`.
- `VersionInv` (NativeSession): as long as no account operations have
  overlapped, the version only grows and moves with every password, so a token
  or a request in flight that has the present version has it with the present
  password.  A refreshed token takes its version from the account and its
  password from the session row; that the two agree rests on
  `LiveSessionProvedPassword`, and that the row is there on `RowsStay`: rows are
  never deleted, and one with a refresh token exists.
- `RateInv` (LoginThrottle) says for each counter and each stretch of time as
  long as the window how many failures the stretch has and how many it may still
  get, by where the counter's own window lies.  A stretch meets at most the end
  of one window, a first cooldown with the full count before it, the window
  after that cooldown, and one more window that only failures that were
  delayed across its start can share with the stretch.  The second and third
  cooldown outlast a window and a wait, so nothing follows them inside the
  stretch (`WindowOK`); once every attempt that might still write a time of the
  stretch is over, its count is dropped (`Open`), and a purge comes later than
  that.  `LocksInTime` is what `Delay` promises.
- `ThrottleInv`, `TokenInv` and `ClientInv` as in the table.

The bound of `RateBounded` was first stated as `3 * threshold - 1`.  That holds
where an attempt waits for its locks at most one unit of time; the proof's case
of failures that are delayed across the start of a window showed a longer one,
for which `4 * threshold - 3` is the exact maximum.  With the code's thresholds
of 5 and 20, ten minutes admit at most 17 and 77 failures.

The bounds that make an instance finite (`MaxClock`, `MaxVersion`, `MaxGen` and
the like) are constants of the theorems too, and may have any value.  The
assumptions on constants are those the modules name; the ones with substance
are those of LoginThrottle: every cooldown is shorter than `PurgeAfter` (30
minutes against 24 hours), the second and the third are no shorter than
`Window + Delay` (15 and 30 minutes against ten and the wait for the locks),
`Delay <= Window` and `Window + 2 * Delay <= PurgeAfter`;
and `3 <= MinSuccess <= SampleCount` in HealthMonitor, of which the proofs need
that a verdict has at least one good sample.  The proofs on Enrollment do not
assume the constraint `Bound` of its run.

Model-checked only.  `TunnelEndsUnlessUnread`, `MaintenanceHides` and
`CutOffCloses` are liveness under fairness, which TLAPS does not reach.  Every
invariant and every action property of the runs is proved.

## 5. Not modelled, and the plan

Left out for good: the audit log, listings, templates and the request
middleware (nothing reads what they write); configuration and resource
readings; the user interfaces; build and packaging scripts; the PowerShell
installation of Windows edges.

Not modelled yet: the agent's SOCKS relays and `EdgeLatencyTracker`; the macOS
client's `restoreSession`, `quitAllAndWait` and `recoverStaleLocks`; the Windows
client, whose process life cycle follows the macOS one; the viewer tickets of
cloud sessions; the edge's public address cache; store creation and host
capabilities.

Theorems in order: the specifications below, once they are written, with the
refinement each is for.

Specifications: the edge's slots as a bounded pool that EdgeTunnel implements,
and the composition of ticket issue with the edge, for how long traffic outlives
a revocation.

## 6. Running

    tlc -workers 2 -config StoreLease_race.cfg MCStoreLease
    tlapm StoreLease_proofs.tla
