# GameMesh in TLA+

TLA+ modules for the stateful parts of GameMesh, the TLC models that check them
on small instances, and TLAPS proofs, for every instance, of every safety property
the models check. Every definition is translated from the Go sources;
`PROJECT.json` maps each one to its lines.

    tlc -workers 2 -config MCOutbox.cfg MCOutbox            # one run
    tlapm OutboxProofs.tla                                  # the proofs

## 1. The system

GameMesh is a set of Go services behind a gateway. Player data is in PostgreSQL,
everything that changes fast is in Redis, and events travel over NATS JetStream.

| Part | State | Operations | What makes it hard |
| --- | --- | --- | --- |
| Outbox (`internal/outbox`, `internal/player/repository.go`) | business rows, `outbox_events` with status and attempts, stream | business transaction; relay: claim, publish in a pool, mark, roll back | several replicas, crash between publish and mark, lost acks, poll deadline, dead-lettering, shutdown |
| Matchmaking (`internal/matchmaking`) | queue ZSET, join-time hash, rooms | join, leave, tick: evict, snapshot, pair, save, dequeue, publish | non-transactional pipelines interleave; a tick fails half-way |
| Presence (`internal/presence`, hub callbacks) | `presence:{id}` with TTL, online gauge | connect, disconnect, bulk heartbeat in two passes, set state, expiry | notifications overtake each other, TTL races, check before script |
| Sessions (`internal/player/session.go`, `wsgateway/sweep.go`, `handler.go`) | `session:{jti}`, gateway cache, open sockets | login, logout, check, handshake, event, sweep | stale verdicts, lost events, handshake racing a logout |
| WebSocket hub (`internal/wsgateway/hub.go`, `client.go`) | three maps, send channels, pumps | register, unregister, join, leave, fan-out, CloseAll | sends on closed channels, full buffers, pumps ending in any order |
| Event consumer (`pkg/events`, `wsgateway/bridge.go`) | pending set, pull buffer, work channel, pool, channel to the bridge | deliver, process, ack, nak, term, hand over, dispatch, shutdown; Pub/Sub | redelivery, MaxDeliver, closing channels under their senders, a transport that forgets |
| Leaderboard (`internal/leaderboard`) | score ZSET, feed | set, increment, rank, page | each answer takes two reads; events out of order |
| Profiles (`internal/player`) | players, unique indexes, outbox | register, update | read outside the transaction, racing registrations |
| Gateway (`internal/gateway`, `pkg/middleware`, `pkg/server` NewEngine) | requests in the chain, live sessions | preflight, limit, authenticate, forward, answer, upgrade, fail | sessions end and clients leave while a request waits; who is blamed |
| Rate limiter (`pkg/middleware`) | bucket per IP | request, refill, janitor | forgetting a bucket grants a fresh burst |
| Probes (`pkg/server` runChecks) | result channel, results | check, receive, deadline | stuck and late checks |
| Startup (`cmd`, `pkg/config` Validate, `pkg/database`, NewNATSBus) | dependencies left, backoff, waits | check secrets, connect, retry, give up | waits adding up against the startup probe |
| Loop heartbeat (`pkg/health`) | last beat, failed probes | begin, finish, overrun, probe | a slow loop taken for a stuck one, and the reverse |
| Lifecycle (`pkg/server` Run, `cmd`) | phase, timers, requests, hooks, workers | signal, shutdown, wait, flush, exit, restart | timeouts adding up against the grace period; a signal at the wrong moment |

They meet as follows. The player service writes events into the outbox; the relay
publishes them; the WebSocket replicas consume them and close the sockets of
revoked sessions. Matchmaking and leaderboard publish straight to the bus. The hub
of a WebSocket replica reports connections to presence. The gateway checks
sessions and limits rates before it forwards a request.

The hazards of each part, with the line where they bite and the properties that
watch them, are listed in `PROJECT.json`.

## 2. Modules

Each component has a module, an `MC` module with the constants of the runs, and
one `.cfg` per run. Operators named `X_Something` directly before `X` are faulty
variants of `X`; they are used by no specification, and the mutants in
`PROJECT.json` put them in the place of `X` to show that a property notices.

- **Outbox** — `Create`, `Insert`, `Commit`, `Abort` are the producer's
  transaction; `Poll`, `StartPublish`, `Store`, `Ack`, `PublishError`,
  `MarkAndCommit`, `Rollback`, `PollTimeout` the relay's batch. Events are numbered
  in `created_at` order, commit in any order. The claims of an open transaction are
  the rows with a job. `late` are messages whose publisher gave up and that may
  still arrive.
- **OutboxContract** — what producers and consumers may rely on: an event is owed
  from its commit, is delivered any number of times, and its debt is closed only
  after a delivery or, where dead-lettering is on, by giving up. `Outbox` is shown
  to implement it (`ImplementsContract`).
- **Pairing** — the function `Pair` of `matcher.go`, whose loop is the recursive
  function `Walk`; `MCMatchmaking` compares it with all matchings of every small
  queue (`Maximum`).
- **Matchmaking** — extends Pairing. Every Redis command is a step. A ticket is the
  index of the ZADD that made it, so that two joins of one player differ. `calls[c]`
  is what request `c` still has to do between its first and second Redis command.
- **Presence** — one player (keys are independent). A Lua script is one step. The
  clock counts heartbeat intervals; a notification or beat is due within one. Its
  names begin with `Presence` or `Hub` where another module has them too
  (`PresenceSpec`, `HubRegister`), since it is proved about together with Hub; those
  of Profiles (`ProfilesSpec`) and Health (`ProbeSpec`) likewise.
- **Sessions** — one session, one gateway cache, several WebSocket replicas. Login and
  logout are served by the store with that cache or by another one.
- **Hub** — what runs under the mutex is one step; the broadcast after it another.
- **Consumer** — one subscription in one of four modes: `durable` and `broadcast`
  (SubscribeAck, the bridge's handler in the pool), `channel` (the adapter
  `NATSBus.Subscribe`, `HandOver` and `Dispatch`) and `redis` (`PubSub`, `Pump`,
  `Dispatch`). The server's bookkeeping is external and modelled from how the code
  configures it (explicit ack, AckWait, MaxDeliver, durable or broadcast).
- **Leaderboard**, **Profiles** — requests as sequences of store commands. In Profiles
  `stamp[c]` is the `created_at` of the event request `c` put into the outbox.
- **RateLimit** — time is counted in ticks that earn `Rate` tokens. `Window` lets an
  observer start counting at any time, so `RateBounded` speaks of all windows.
- **Gateway** — extends RateLimit: a request takes its token by `Admit`. The record
  `request[r]` is the gin context. `Enter` is the chain up to the first wait; the
  further steps are those between which a handler waits (`Authenticated` or
  `Unauthorized` after the session check, `Reply` after the upstream's headers,
  `Copied` or `CopyAborts` after the body). `GiveUp` cancels the context in any of
  them. `seen` records, for the property, that the session was active meanwhile.
- **Health** — one probe.
- **Heartbeat** — one loop that beats, and the liveness probe. **Startup** — one
  process from its first line to Run. **Lifecycle** — composes both with the server
  into a container and its kubelet, with a second as the tick: `Starting`,
  `Started`, `NotStarted` are run up to `server.Run`, `Signal`, `SignalEarly` and
  `SignalKills` the three things a SIGTERM can meet. Which binary it is, and which
  secrets are weak, is chosen in `Init`. `WindowAssumption` is what the timeouts
  have to satisfy: a binary that waits for one server can do so within the startup
  window. TLC evaluates it for the deployed values.

Faults (errors, lost answers, crashes, signals) draw on a budget `MaxFaults`.

## 3. Runs

There is one run per component, and one for a sentence of the documentation that
does not hold. A run that states liveness uses `FairSpec` and no symmetry.
Each module has a type invariant: it is proved for Outbox and RateLimit (section 4)
and elsewhere is a conjunct of one of the module's invariants.

| Run | Checks | Distinct states |
| --- | --- | --- |
| outbox | atomic write, copies bounded by faults, exact dead-lettering, refinement of the contract (so no loss and no phantom); poison rows are settled and block nobody | 43,056 |
| matchmaking | `Pair` is sound and maximum; announced rooms are stored and sound; a ticket is matched once; nobody is forgotten or evicted early; compatible players do not both wait for ever | 997,802 |
| presence | no lost update, exact gauge, expiry only after `TTL` - 1 faults, nobody queued on a vanished record; self-healing; offline in the end | 393,465 |
| sessions | a revocation takes effect within cache TTL plus latency; no false refusals; sockets of dead sessions close | 447,781 |
| hub | maps and channels agree; pumps end together | 153,771 |
| consumer | in all four modes: ack after handling, duplicates only from faults or shutdowns, at-least-once, no message pending for ever | 130,897 |
| leaderboard | answers are fresh, pages fit their total, final scores are announced | 76,545 |
| profiles | identities unique; the last event describes the row | 15,036 |
| ratelimit | the whole gateway: any window grants at most burst + rate; idle buckets are reclaimed; upstreams see verified identities only; the error counter blames the server | 2,252,075 |
| health | status agrees with the results; the probe answers and no goroutine leaks | 1,021 |
| lifecycle | every binary: never killed, exits by itself, connects or gives up in the probe's window, serves in the end; loops are restarted when stuck and only then | 517,181 |
| outbox_hanging | (violated) a row whose publish is never answered is settled | |

**outbox_hanging.** A publish that is not answered before `pollTimeout` leaves the
transaction's context expired: the marks fail, everything is rolled back, the
attempt count included, and the row is retried for ever. `store.go:24-26` promises
that "a single poison row can never be retried forever".

**More sentences that do not hold.** They are defined in the last section of their
module and checked by no run; listing one of them alone in the component's `.cfg`
gives the counterexample.

| Definition | Sentence | What happens |
| --- | --- | --- |
| Outbox `ShutdownFinishesBatch` | `outbox/relay.go:82-84` "lets the batch finish publishing and marking its rows" | the process waits 5 s for a poll that may take 10 s |
| Matchmaking `EvictsOnlyStale` | `matchmaking/queue.go:130` "removes players whose tickets are older than maxAge" | a player who re-joins during an eviction loses the fresh ticket |
| Matchmaking `EveryTicketExpires` | `docs/design-document.md:229` "doesn't poison the queue forever" | a join between the ZREM and HDEL of a dequeue, or one whose HSET fails, leaves a ticket no eviction sees |
| Matchmaking `HalfRemovedIsRepaired` | `matchmaking/queue.go:81` "simply re-paired on the next tick" | a dequeue that fails after its ZREM leaves players neither queued nor told |
| Matchmaking `ShutdownFinishesTick` | `matchmaking/service_test.go:191-193` "must not cut the tick" | the process may exit at `WorkerShutdownTimeout` between dequeue and announcement |
| Presence `OfflineOnlyAtLastClose` | `presence/service.go:49-50` "only when the last connection closes" | an overtaking disconnect takes a connected player offline |
| Presence `HealRestoresCount` | `docs/presence.md:113-114` "`connection_count` tracks live connections" | a healed record counts one connection, whatever is open |
| Presence `TwoMissedBeats` | `docs/presence.md:104-105` "two missed beats still leave the player online" | the key may expire before the third beat arrives |
| Presence `HealsAreTransitions` | `presence/service.go:91-92` "had expired and was re-created" | a record re-created by somebody else is announced as healed |
| Presence `NoFabrication` (with `"ONLINE"` in `Targets`) | `presence/repository.go:116-117` "cannot fabricate presence" | setting ONLINE creates a record without a connection |
| Presence `QueueNeedsPresence` (with `Callers = {"a", "b"}`) | `presence/service.go:124-125` "OFFLINE->IN_QUEUE ... rejected" | a stale check lets an OFFLINE record become IN_QUEUE |
| Sessions `LocalLogoutAtOnce` | `player/session.go:74-75` "revokes at once" | a lookup in flight re-caches the session (no deployed binary serves logouts through the cached store) |
| Sessions `LoginUsable` | `player/service.go:98` "must not block logins" | a login whose session was not saved yields a token that is refused everywhere |
| Hub `ForcedClosesAll` | `wsgateway/hub.go:114-115` "closed outright" | a registration after the snapshot survives the forced close |
| Consumer `DrainedAtReturn` | `events/nats.go:285-286` "then drains in-flight work" | SubscribeAck returns before the pool is drained |
| Consumer `GivenUpWasTried` | `events/nats.go:357` "let it redeliver later" | the nak of a shutdown uses up the last delivery |
| Consumer `NoSendOnClosed` | `events/nats.go:373` "let workers drain" | the callback may send on the closed work channel, which panics |
| Consumer `NoPanic` | `events/nats.go:274` "Close the channel when ctx ends so range-based consumers terminate" | a worker may be sending on that channel (no caller uses the adapter on NATS today) |
| Gateway `LoggedOnce` | `middleware/middleware.go:67` "one structured log line per request" | a body that cannot be copied to its end panics through Logger and Metrics |
| Gateway `NoClientErrors` | `middleware/middleware.go:190` "Errors are the server's failures" | a client that leaves during the session check is answered, and counted as, 503 |
| Lifecycle `EverySignalHeard` | `server/server.go:176` "until SIGINT/SIGTERM, then shuts down gracefully" | a SIGTERM between `ShutdownContext` and Run ends the workers only; the process serves until SIGKILL |
| Lifecycle `WaitsFitWindow` | `events/nats.go:121-122` "stays inside the startup probe's 60 s window" | the relay waits for PostgreSQL first, and for the streams afterwards |
| Profiles `UnsetFieldsUnchanged` (without `SYMMETRY`) | `player/service_test.go:247` "unset fields stay unchanged" | a concurrent update's field is written back with its old value |

**Bounds.** Two replicas, workers, connections or requests suffice for the races,
which are all between two actors (a claim and a claim, a read and a write, two
commands of a pipeline and one in between).

- outbox: three events, so that a batch of two leaves one over; the first two are
  poison and fill a batch ahead of the third. `MaxAttempts` 2 and one fault: the
  fault alone cannot dead-letter a good row.
- matchmaking: two players and three joins, so that one of a pair can re-join while
  the tick holds both; ranks inside and outside the window. `Pair` is compared with
  every matching of every sorted queue of up to six tickets with ranks 0..4 and
  windows 0..2.
- presence: one connection on each of two replicas, a TTL of three beats as
  deployed, two faults (enough to lose the key), two API calls, which take the
  player offline or ask for the queue (the script and the check treat IN_MATCH as
  IN_QUEUE, and AWAY as ONLINE).
- sessions: two lookups in flight, two connections on two replicas, a cache that
  outlives a lookup (TTL 2, latency 1), one fault.
- hub: two tabs of one player, two rooms, a send buffer of one message, which is
  full after the first.
- consumer: a well-formed and a malformed message, two workers, two deliveries,
  buffers of one message, one fault and two shutdowns, so that a message can be
  lost in the first process and in the second; all four modes.
- ratelimit: two addresses that share nothing but the janitor, two players, so that
  a token and a header may disagree, and one request at a time: requests meet only
  in the buckets and in the sessions, which change between any two of its steps
  (any number of requests is in the proofs). A request costs two tokens of a burst
  of three, so a bucket is left between full and empty.
- lifecycle: the real timeouts in seconds (5 + 15 + 5 + 3 of 35; 30 s waits with
  backoff 1 to 5; a window of 60; a stall limit of 30 and three probes 10 s apart).
  Six binaries; the leaderboard connects and stops like presence. No secret weak, or
  those only some binaries use.

Symmetry is used by profiles, leaderboard and ratelimit, which check safety only.

**Deadlock** is not checked where the system may really stop: a finite set of
requests or messages has been served, a probe has answered, a process has exited.

**Fairness** is weak everywhere and stated per action: loops and tickers keep
running, goroutines are scheduled, a store or broker that is not at fault answers,
deadlines fire, the orchestrator restarts what exited. Nothing is assumed of
players, producers, late messages or faults. In Lifecycle requests, workers and the
loop may hang, and hooks return when their context ends; what a binary needs comes
up in the end, but may be late. In Health the `Stuck` checks may hang.

## 4. Proofs

`OutboxProofs` proves for any number of events, replicas and workers, any batch
size, MaxAttempts and number of faults (assumptions `OutboxAssumption`: the
constants have their types; `RelaysFinite`: finitely many replicas):

- `TypeCorrect`, `AtomicWrite`, `ExclusiveClaims`, `NoLoss`, `NoPhantom`,
  `ExactDeadLetter`, from one inductive invariant `OutboxInv`. The promises alone
  are not inductive: that a row marked PUBLISHED is in the stream needs that a job
  answered "ok" was stored, and exclusive claims need that a relay outside a batch
  holds no job. `BatchInv` adds these links between batch, table and stream.
- `FinalVerdicts`, from `RowSteps`: only a commit and a mark change rows, and a mark
  changes rows the relay has claimed, which are PENDING.
- `Refinement`: a commit is `Emit`, a stored message (also a late one) `Deliver`, a
  marked batch one `Close`, all else stutters.
- `DuplicatesNeedFaults`, assuming `Hanging = {}`. `CopiesInv` is a budget: copies in
  the stream, on their way and in the air, and the exits that may still abandon a
  batch, never exceed the faults plus the one free copy. With a hanging publish the
  deadline abandons a batch without any fault, so the bound does not hold there.

`GatewayProofs` proves of the limiter `LimiterTyped`, `LimitHolds` and
`MemoryReclaimed` from `RateInv`: what a client spent plus what its bucket holds is
within the window's allowance. Forgetting a bucket keeps this because an idle bucket
is full, which needs `Burst <= Rate * IdleLimit` (in `RateAssumption`). The code
satisfies this when burst ≤ rps × 600 s; the configuration does not enforce it.
`PipelineLimited` shows that the gateway implements RateLimit (every step is one of
the limiter's or leaves it alone), so `LimitHolds` carries over as `GatewayLimit`.
`GatewayIdentity` and `GatewayErrors` follow from `GatewayInv`, which says of each
stage what the chain has established so far: between Auth and the proxy the user is
the token's and its session has been active, and from the proxy on the header is the
user.

`LifecycleProofs`, for any binaries and timeouts with `PreStop + HTTP + Work + Flush
< Grace` and `3 * Deadline <= 2 * Floor`:

- `NoKill`: how old the stop is at most follows from the phase and its timer. It
  excepts the early signal, as `NeverKilled` does.
- `StallNoticed`: `BeatInv` bounds the age of the beat by the loop's own state, and
  beyond the limit by the probes that have failed since. Three intervals, or a floor
  of one and a half deadlines, are what `Interval + Deadline <= StallAfter` needs.
- `StartInWindow`, from `WindowAssumption`: `BootInv` bounds the wait for one
  dependency for every backoff; `WindowInv` bounds the time since the start of a
  binary with one server by the timeouts of what it has passed and the wait for what
  it is at.
- `ProbeStatus`, about Health: what the handler counts down is the number of checks
  that have not reported, so that it cannot answer 200 without one (`ProbeInv`).

`AccountProofs` is about Profiles and Sessions. `ProfilesUnique` follows from what
holds between open transactions: two of them never share a player or a key
(`Locked`), and none has the key of another player's committed row, even one
committed later (`Checked`). `LastEventIsRow` adds that events are stamped under the
same lock, so that an open one is later than all committed ones of its player
(`StampInv`). `RevocationWindow` and `LiveSessionsPass`: a lookup that saw a session
now deleted was sent before the deletion, and a verdict cached from it has no more to
live than the window has left (`StaleYes`).

`ConnectionProofs` is about Hub and Presence. `HubMapsAgree` and
`SendsOnOpenChannels` hold for any connections, rooms and buffer size; what makes
`MapsAgree` inductive is that a reader runs exactly while its channel is open, and
that a connection is untouched before it registers. `UpdatesKept`, `GaugeTells`,
`ExpiryTakesFaults` and `NoRecordNoQueue` hold for any replicas, connections, calls
and TTL. The count is exact because a connect under way has its connection still, or
its disconnect behind it (`CallsInOrder`); the age of a key under an open connection
is paid for by lost beats (`Missed`).

`ConsumerProofs`, for all modes, pools and delivery limits:

- `AckedWasHandled`, bounds of all buffers included. `Vouched` says it of every
  message a worker is about to ack, since the ack is a step of its own; behind the
  channel adapter a message may vanish with its process, which `StopCounted` ties to
  a shutdown.
- `RepeatsNeedFaults` (`DuplicatesNeedFaults`). `CopiesInv` is an account per message:
  the times it was handled, the copies of it anywhere between the server and the
  handler, and one more if a delivery is due, cost no more than one plus the faults
  and shutdowns so far. A delivery turns what is due into a copy; a redelivery while a
  copy is held takes a fault; the copies lost with a process are what its shutdown is
  allowed. That Pub/Sub has no second copy needs that nothing it sent is ever pending
  (`SentOnce`).

`LeaderboardProofs` proves `FreshAnswers` and `LastScoreAnnounced` for any players,
requests and scores. The player's score is among those a request may still read
(`Reading`), and a rank or a page already read stays within the board, which only
grows (`Ranked`, `Paged`). While a member's score is not in the feed, some submission
has still to read it or has read exactly it (`Announced`).

`MatchmakingProofs`:

- `GreedyIsMaximum`: `Pair` returns disjoint compatible pairs of every snapshot that
  is sorted by rank, and no set of such pairs is larger, for every length and window.
  The proof is by induction on the position from which `Walk` starts. If the first
  two tickets are compatible, an exchange shows that some maximum matching has that
  pair; if they are not, the first ticket has no partner at all. The library's induction
  theorems cannot be used for this (they take an operator), but the well-foundedness
  of the naturals is stated for sets, and gives induction by the least counterexample
  (`LeastNat`, `Induct`). `PairingIsMaximum` is `PairsMaximum` for every bound.
- `RoomsSound`, `OneMatchPerTicket`, `NobodyIsForgotten` from `MatchInv`, for any
  players, requests, joins and faults. The tickets of the pairs in progress belong to
  different players, are within the window and were not told before, and are out of
  the queue once they are dequeued (`PairsInv`, `ToldInv`); a player who waits is
  queued or in a pair (`WaitingInv`); and who is in the batch of an eviction with a
  fresh join time has joined before (`JoinTimesInv`). The step that begins a pair
  needs of `Pair` only that it is sound on the sorted snapshot.

Only model-checked: liveness, which is outside the prover's reach
(`PoisonDoesNotBlock`, `CompatibleMatched`, `SelfHeals`, `GoesOffline`,
`RevokedConnectionsClose`, `PumpsEndTogether`, `AtLeastOnce`, `Settles`,
`ProbeAnswers`, `ExitsByItself`, `ServesInTheEnd`). The constants' assumptions are
named in the modules that declare them, and TLC evaluates them in every run.

## 5. Not modelled

- Reading the environment, logging, metrics and tracing apart from what Gateway,
  Presence and Lifecycle say of them, response helpers, the connection pools: no
  state that a property is about.
- JWT and bcrypt: stateless cryptography; a token is its verdict.
- Reads that change nothing (room lookup, queue size, friends' presence), and the
  events of presence, which nobody in the repository consumes.
- The test client.

Two things are in the code and not in a property. A snapshot limited to the lowest
`BatchSize` ranks starves higher ranks while the lowest stay unmatched and keep
re-joining: no liveness property survives it, so the run takes `BatchSize` as large
as the queue. And nothing is said of the order in which events of different
transactions are published, which the outbox does not promise.

## 6. Plan

1. Compositions: hub and presence (the real order of notifications); outbox,
   consumer and sessions (a logout from its transaction to the closed socket).
2. An abstract presence (a set of live connections) and an abstract queue, refined
   by Presence and Matchmaking under the conditions in which they hold.
3. Proofs: the conditions under which the sentences of section 3 that the code does
   not keep would hold.
