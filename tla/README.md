# Verification of the HandLive relay

TLA+ models of the relay server (`src/crates/relay-server`) and its push
gateway (`src/crates/relay-push`), checked with TLC on small instances and, for
the properties that matter most, proved with TLAPS for instances of any size.

## The system

| Part | State | Operations | Interacts with |
|---|---|---|---|
| Hub (`relay/hub.rs`) | registry of local connections, request queue of the bus task, its set of subscriptions, a delivery queue with a byte counter per connection | `register`, `subscribe`, `unregister`, `unsubscribe`, `publish`, `dispatch`, `run_bus` with its reconnect loop | connections, Redis pub/sub |
| Bus messages (`relay/bus.rs`) | none | `encode`, `decode`, `queued_len` | hub, handlers |
| Connection (`relay/connection.rs`, `outbound.rs`) | where its task is, cached pairs, close code | `run`, `open`, `serve`, `on_delivery`, `refresh_presence`, `finish` | hub, presence, pairs, the device |
| Presence (`relay/presence.rs`) | `presence:<device>` keys, `revoked_notice:<device>` sets | `claim`, `refresh`, `release`, notices | connections, `delete_me` |
| Pairs and devices (`routes/pairs.rs`, `routes/devices.rs`, `store/`) | rows of `devices` and `pairs`, row locks | register a device, register and revoke a pair, `delete_me` | hub (notify), presence |
| Push (`routes/push.rs`, `relay-push`) | push tokens, `wake:<device>:<reason>` keys, two cached credentials | `put_push_token`, `send` of a wake or an alert | Redis, APNs, FCM |
| Frames, rendezvous, bandwidth (`relay/inbound.rs`, `rendezvous.rs`, `bandwidth.rs`) | rendezvous sets, token bucket | forward, `rv_join`, `rv_msg` | hub, pairs |
| Authentication and limits (`challenge.rs`, `routes/auth.rs`, `limits.rs`) | challenges, counters | challenge, token, limits | Redis |
| Usage and maintenance (`usage.rs`, `maintenance.rs`) | tallies, monthly salt | count, flush, clean up | PostgreSQL |

What is hard here: the same device may have connections opening, serving and
finishing at one or several instances at once; presence names an instance and
not a connection; the pub/sub connection may be lost with requests queued and
messages in flight, and Redis may come back empty; a REST handler changes rows
and tells the connections afterwards, message by message, and ignores failures
of the telling; coalescing of wakes races with their failure; a frame that is
held back must not let the next one pass; two devices that join a rendezvous at
once must both learn of it; counters leave memory before they are known to be
written; limits count requests that are still on their way. `PROJECT.json` lists
each hazard at its line with the properties that cover it.

## Modules

```
Bus <- Hub <- Connection     Pairs         Push         Usage <- Inbound -> Throttle     Auth
              |              |             |                     |                       |
       ConnectionProofs   PairsProofs   PushProofs               InboundProofs       AuthProofs
       MCConnection       MCPairs       MCPush                   UsageProofs         AuthLimitsProofs
                                                                 RendezvousProofs    MCAuth
                                                                 MCInbound
```

`<-` is EXTENDS; `Inbound -> Throttle` is a refinement (INSTANCE).

* **Bus**: the seven messages with their tags and `encode`/`decode`. Payloads
  are reduced to what the properties tell apart: type, sender, length, pair,
  connection, close code.
* **Hub**: one action per call of a connection (`Register` ... `Unsubscribe`),
  per arm of `run_bus` (`BusSubscribe`, `BusUnsubscribe`, `BusMessageArrives`,
  `BusReconnect`, then `BusResubscribe` for each device of the loop and
  `BusRestored` for `broadcast_resync`), `Publish`, and the environment: a lost
  pub/sub connection, payloads lost with it, a restart of the process. `stage`
  is all the hub needs to know of a connection. `HubSpec` is also the abstract
  specification of what connections may do to the hub.
* **Connection**: extends Hub with the task of a connection (`pc`), the presence
  keys, what peers were last told (`view`), which connections have read the
  pairs of their device (`loaded`) and the steps of `delete_me`, which may be
  dropped between them. Each await of `open`, `finish` and the arms of `serve`
  that another task can observe is a step: in the states `Arms` the connection
  has taken something from its `select!` and waits for a write or for Redis,
  while the bus task may give it the kill permit. It implements `HubSpec`.
* **Pairs**: the handlers of pairs and devices and the daily removal of inactive
  devices, one step per query or publish with the row locks a transaction holds
  (`FOR UPDATE`, the key-share lock of the foreign key). A handler may be
  dropped at any await, as actix does when the client is gone. For each device
  there is one connection with its cached pairs, the revocations it replays and
  its queue (`mail`). Two connections of one device are Connection's subject.
* **Push**: `POST /v1/push` with one step per await, the wake keys, the push
  tokens and both send loops with their credentials. A call may be dropped at any
  await (`Drop`), as in Pairs, and all of them when the process ends; `Restart` is
  the new process, which has no credential cached. `configured` is chosen once,
  as the environment does at start-up; `sent` and `stuck` are history variables
  that only the properties read.
* **Usage**: the counters of each instance, the flush (take the counters, ask for
  the salt of the month, write the rows, put the counters back after a failure)
  with one step per await, a crash of an instance, and the daily cleanup behind
  its lock key. `again` and `lost` record what was written twice after a lost
  answer and what died with a process.
* **Inbound**: what a connection does with frames: the size limit, the pair check
  of `is_peer` with its reload at most once in `MISS_RELOAD_GAP`, the token bucket
  of the peer, the one frame that is held until its deadline, `publish_forward`
  and the counting in Usage; `on_delivery` with the same check at the receiver;
  `rv_join` in its two halves around the answer of `JOIN_SCRIPT`, `rv_msg`, and
  the expiry of a rendezvous. The biased `select!` is in the guards: a
  connection reads only with an empty mailbox and no frame held. `meter`,
  `since`, `told` and `unheard` are read by the properties only.
* **Throttle**: what the bandwidth limit promises: a leaky bucket per link that
  leaks a byte per tick and takes a frame only when it fits. It is emptied when
  the link closes and at no other time, so at most `Size` and `t` bytes pass in
  any `t` ticks of an open link. In Inbound a link is open while its sender is
  connected and has the receiver in its cache of pairs; `Size` is a second's
  worth and one frame. A reload (`reload_peers`) that finds the peer again must
  keep its bucket: a new one would be a step Throttle does not have.
* **Auth**: `challenge`, `token` and `register` with one step per call of Redis or
  PostgreSQL, the fixed windows, the registration script, `Retry-After` and the
  deletion of devices. A header is the sequence of its `X-Forwarded-For` lines:
  `request_ip` gets the first one only (`forwarded`), and nothing when that one is
  `Unreadable`, that is, has a byte for which `to_str` fails; `client_ip` walks over
  the peer and the entries of this line.

The MC modules add budgets that bound the environment, fairness and the
properties that only a run checks. In MCPairs, MCInbound and MCAuth a budget is
chosen in the initial state, so that one run covers several scenarios. No cfg
replaces a definition.

## Runs

| Run | Instance | Shows |
|---|---|---|
| `connection_faults` | 2 connections of a device at one instance, timeouts, failing Redis and lookups, traffic and a removal, a lost pub/sub connection or a restart | `StaleIsTold`, `Reachable`, `ChannelsMatch`, types (and so `decode` of every payload), refinement of `HubSpec` |
| `connection_settles` | 2 connections at 2 instances, failing Redis, one lost pub/sub connection or Redis restart | liveness `Settles` |
| `connection_closes` | at one instance, a connection with 3 messages or removals or 2 connections with one; queue limit 2 bytes, frames of 2 | `QueueBounded`, `QueueAccounted`, liveness `OverrunCloses`, `RemovalCloses` |
| `pairs` | 2 handlers, 2 or 3 devices, 1 or 2 pairs, 6 scenarios | `StaleCacheIsNotified`, `RemovalReachesPeer`, `HeldIsComplete`, types |
| `push` | a phone and a tablet, 2 calls, 2 registrations, any providers configured, every failure, dropped calls, one token dies, one credential ages or a restart | `WakeCoalesced`, `FailedWakeForgotten`, types, liveness `EveryCallAnswered` |
| `inbound` | 3 devices at 2 instances, 6 scenarios, every failure | `Throttled` (refinement of Throttle), `WaitBounded`, `RefusalIsFresh`, `BothKnow`, `Conserved`, `OneHashPerDay`, `RowsExpire`, types |
| `auth` | 4 requests, 2 challenges, 2 devices, 4 addresses, 8 scenarios, failing Redis and PostgreSQL | `SingleUse`, `NoLockout`, `SlotsMatch`, `RegistrationsCounted`, `RetrySuffices`, `ClientAddress`, types |

The bounds are the smallest at which the interesting cases happen.

* Connections: two are enough for every race of a take-over, and two messages
  overrun a queue of one frame, the second while the first is written when there
  is a third. The two are interchangeable but for their order, so the first one
  to arrive is always `c1`.
* `pairs`: three calls let a pair be registered, revoked and its device removed
  while the connections of both devices open; the other scenarios trade a call
  for a lost pub/sub connection, the cleanup, a second registration of a removed
  device, or every failure the handlers ignore (a publish, the database, a write
  to the device, a notice, the end of a handler). The last has three devices and
  two pairs, so that a removal takes several pairs with it.
* `push`: two calls compete for a wake key and for the lock of the access token,
  and either may be dropped with the key set or the lock held.
* `inbound`: *Throughput* has four frames of 1 to 3 bytes to two peers in five
  ticks, with buckets of 2 bytes, so a frame is held, is released late and is
  followed by another; *Reloads* has four frames of 2 bytes in three ticks while
  the pair is removed and registered again and the sender is told three times,
  before, between and after; *Lookups* changes a pair twice around reloads that
  succeed, fail and come too soon; *Meetings* has four calls of three devices
  on one rendezvous that expires after two ticks, with a connection that ends
  and a message that is lost; *Flushes* has three flushes around a
  crash and midnight; *Cleanups* has four attempts over three days.
  Months have two days and rows are kept for none, so both change within a run.
* `auth`: *reuse* lets two token requests race for one challenge, with its expiry
  and the deletion of the device in between; *more* asks for three challenges
  where a device may have two, and then for a token; *late* is three challenges
  with two ticks, so that the clock `Retry-After` is computed from may be in the
  next window already; *registrations* has three
  from two addresses where one per address and two in all are allowed, and *cap*
  three from three addresses, where only the limit in all refuses;
  *deletions* removes a device while two requests register it; *addresses*
  takes every line of up to three entries behind every peer, with a proxy whose
  address has two spellings, and headers of several lines and unreadable ones; *unsigned* is a registration whose signature
  does not verify. Challenges are symmetric.

Runs that end in a counterexample show where the code does something else than
a comment or a test of the repository says; `findings` in `PROJECT.json` quotes
the line.

| Run | The code |
|---|---|
| `connection_replaced` | two connections opening at two instances both close with 4409, by the other's Replace or because a refresh finds the presence key taken |
| `connection_online` | an old connection announces offline after its successor at the same instance announced online |
| `connection_silent` | a connection that read its pairs before `delete_me` deleted them refreshes between the DEL and the Close, and announces offline when the Close ends it |
| `pairs_revocation` | the cascade deletes a revocation the peer has not seen |
| `push_clear` | a newly registered token is cleared for the dead one |

Other interleavings that a reader of the code may not expect are behaviours of
the models without a property of their own; `hazards` in `PROJECT.json` says
which: a channel left subscribed by a superseded connection, a peer that keeps
seeing a device online, a removal that found no row to lock, a notice lost with
a failed write, a duplicate wake accepted before the first one fails, a
connection that subscribes only after the Close of its removed device, and a
handler dropped before that Close.

### Fairness and deadlock

Weak fairness is assumed of every connection task, every bus task, a
`delete_me` and every push call until it is dropped (tokio keeps polling a task
that is ready, and Redis, PostgreSQL and the providers answer or time out) and
of the expiry of a presence key that nobody renews (Redis). Handlers may be
dropped at any of their awaits, and the properties say what then becomes of
them: `RemovalCloses` ends in a closed connection or a dropped `delete_me`. Where
Redis commands may fail, strong fairness of `refresh_presence` says that Redis
does not fail all the refreshes of a connection. The lock of the access
token is held over one bounded request and passed on in order, so weak fairness
is enough for the calls that wait for it. Nothing is assumed of
devices, faults, timeouts or arrivals. Deadlock is not an error: the system
stops when all connections are closed, all calls answered and the bounds used
up.

## Proofs

Eight modules hold the proofs. They are for every set of devices, instances,
connections, pairs, handlers, requests, challenges and tokens, and for limits of
any size.

* **ConnectionProofs**, the hub: `TypeCorrect`, and `HubInvariant` with
  `HubInv == TypeOK /\ ChannelsMatch /\ RequestsOwned /\ Reachable`.
  `Reachable` alone is not inductive: the step that executes a Subscribe makes
  its connection confirmed, which only helps if the request was queued at that
  connection's instance and for its device (`RequestsOwned`), and if what the
  bus task takes for subscribed already is subscribed (`ChannelsMatch`).
  `ChannelsAlwaysMatch` and `AlwaysReachable` follow. `RoundTrip` is the lemma
  that `decode` inverts `encode`.
* **ConnectionProofs**, queues: `QueuesBounded` and `QueuesAccounted` from
  `QueueInv`: the counter of a live connection is what waits in its queue, and
  that of a killed one at least that, since the message that was dropped stays
  counted. The second half is what keeps the bound: a killed connection may
  still receive what it was about to, and `dispatch` may then find room for
  another message, which has to fit. `BytesAppend` and `BytesTail`
  say what a message put in or taken out does to the sum; being replaced and a
  resync count nothing. `ServedQueues` carries both over to the connections.
* **ConnectionProofs**, connections: `ConnectionImplementsHub` (every step of
  Connection is a step of `HubNext` or leaves the hub alone), from which
  `ServedIsReachable` follows, and `ConnTypeCorrect` and `ReplacedIsTold` from
  `ConnInv == TypeOK /\ ConnTypeOK /\ StaleIsTold`: the Replace appended by
  `Register` stays in the queue until the connection that receives it has left
  `serve`.
* **PairsProofs**: `PairsTypeCorrect` and `HeldAlwaysComplete`: between the read
  and the DELETE of a removal that holds its device's row nobody can insert or
  revoke a pair of the device, so what was checked is what is deleted.
  `StaleAlwaysNotified` and `RemovalsReachPeers` rest on `ToldInv`: the messages a
  handler still owes are about pairs it changed, a connection that is loading
  will see the change or the message, and a statement is told, in a notice, in a
  replay or owed by the handler of the removal.
* **PushProofs**: `PushTypeCorrect`; `WakesCoalesce` and `FailedWakesForgotten`
  with the inductive invariant `Windows`: a wake key has at most one holder, a
  call with a held key has not sent, a sent wake's key lives, an unsent key has a
  holder unless a failing Redis command or a dropped call left it behind
  (`stuck`), and such a key has none.
* **UsageProofs**: `UsageTypeCorrect`; `NothingMiscounted`, the balance of every
  device over memory, flushes, rows and history; `StatisticsExpire` from
  `CleanInv`, which adds that the day of the lock is today whenever a cleanup is
  under way or an instance looked; `HashesAgree` from `SaltInv`: a month has one
  salt, and a flush writes under the salt of the month it began in, at most one
  day ago, which is why only the first day of a month may have two hashes.
  `InboundCounts` carries all of it over to the connections: `StatisticsKept`.
* **InboundProofs**: `BandwidthLimited` (Inbound implements Throttle) and
  `WaitsBounded` from `LimitInv`: what passed on a link and what is held for it is
  covered by the debt of its bucket but for one frame, only a held frame puts a
  bucket below zero, and its deadline is when the bucket is back at zero. Only an
  open link has a bucket, and what passed is forgotten only when the link closes,
  so a reload has to carry the bucket over for the invariant to hold.
  `RefusalsAreFresh` from `MissInv`: a reload that worked knew every pair that was
  valid before it. `InboundCounts`: the steps of connections are steps of Usage or
  leave it alone.
* **RendezvousProofs**: `BothAlwaysKnow` from `KnowInv`: a member that is not alone
  was told so, or the message is in its mailbox, in the second half of the other's
  `rv_join`, or on record as missed; and one whose own answer will say that it is
  alone is going to hear the contrary from the other. Without the second
  clause the invariant is lost when that answer arrives. `InboundTypeCorrect`
  adds `CacheInv`, the shape of caches, buckets and held frames.
* **AuthProofs**: `AuthTypeCorrect`; `OneToken` and `NeverLockedOut` from
  `TokenInv`: a challenge in Redis was not presented, one that a request holds
  was, no two requests hold the same, and one that was handed out stays in Redis
  until it is presented or expires.
* **AuthLimitsProofs**: `RetryAlwaysSuffices`, whose lemma `RetryReaches` is the
  arithmetic of the windows: whole seconds from a later reading of the clock,
  rounded up, reach past the window of an earlier one. `LimitsCountTheClient`: the
  walk of `client_ip` ends at the leftmost entry that only trusted proxies stand
  right of, for a first line of any length (`WalkEnds`), and at the peer when the
  line is unreadable or absent; `HopsType` is what the walk may rely on. `SlotsAlwaysMatch` from
  `SlotsInv`, the same for every window there may be: a step raises the relay-wide
  counter and that of one bucket, or neither (`NextSlots`), and one more in one
  place is one more in the sum (`TotalRaised`); that the counted address has a
  bucket is the previous theorem. `RegistrationsAlwaysCounted` from `LimitsInv`,
  which relates the set of requests that hold a slot of a window to the counter
  that each of them raised, and `SlotsInv`, which adds them up over the buckets
  (`SlotsTogether`); the rows created are a subset of these requests.

What the recursive functions compute (the bytes of a queue, the sum over the
addresses, the walk along a header) is shown by induction over the naturals. The
library states induction for an operator, which the provers cannot instantiate;
`NatSet` states it for a set, and follows from the existence of least elements
(`WFMin`, `NatLessThanWellFounded`). `SumsExist` and `WalkExists` show first that
the recursive definitions have a solution.

The assumptions on the constants are named in the modules that declare them
(`HubAssumption`, `FrameLenAssumption`, `ConnectionAssumption`,
`PairsAssumption`, `PushAssumption`, `UsageConstants`, `InboundConstants`,
`AuthConstants`, `NoRequest`). They say what kind of value each constant is, that
`None` is none of the values it stands beside, and of the limits only that a
frame is no longer than a second's worth of bandwidth (`config.rs`, `wire.rs`), and
of the addresses that there are finitely many.

Only model-checked are the liveness properties `Settles`, `OverrunCloses`,
`RemovalCloses` and `EveryCallAnswered`: the prover has no fairness. Every safety
property that a passing run checks is also proved.

`UsageTypeOK`, the type invariant of Usage, is only proved; the run of Inbound
checks the properties that rest on it.

## Abstractions

* What happens without an await is one step. Two such steps have an inside that
  another thread could see for a moment: Register inserts into the registry
  before it sends Replace to the connection it supersedes, and a connection takes
  a message out of its queue before it lowers the byte counter, which until
  then counts too much.
* The several messages one delivery writes to the device are one write, and the
  queries and the cache of pairs behind it are one step with taking the message.
* An UNSUBSCRIBE or SUBSCRIBE fails only with the pub/sub connection.
* A device that removed itself does not register again in Connection; Pairs has
  that case.
* A restarted instance keeps its id (`RELAY_INSTANCE_ID`), so its old presence
  keys look like its own.
* A presence key expires only when no connection of its instance is renewing it:
  repeated failures of the refresh for 60 s are not modelled, nor is a
  connection so busy that its biased `select!` never reaches the refresh.
* Payloads that `decode` rejects, the 30-day and TTL limits of revocations and
  notices, and signatures beyond being valid or not are left out.
* Push: rate limits (429) only refuse; `apns_sandbox` is the same client; the
  4 KB limit is not reachable behind `validate_push`; a provider that accepts a
  push and whose answer is lost or late gets it again (`sent` counts what the
  relay knows it sent); the command a dropped call waited for is done or not; a
  new process has the same providers configured; a wake key (300 s) does not expire during its own call (timeouts of
  10 s); a restart of Redis, which forgets all wake keys, is not modelled.
* Usage: envelopes, bytes and pushes are one amount, since the code treats them
  alike; months have a fixed length; a hash is the pair of device and salt; salts
  do not expire and Redis does not lose them. `OneHashPerDay` excepts the first
  day of a month, on which a flush that began the day before may still write.
* Inbound: a tick is the time in which a bucket gains one byte, and a frame is its
  length. Opening and closing a connection, and a change of a pair, are one step
  each; Connection and Pairs have the details. The limit is one of a connection:
  a device that reconnects, or whose pair the connection found gone, starts with a
  full bucket, in the code as in Throttle.
* Auth: a tick is a coarse millisecond. Counters do not expire: their keys name
  the window and their time to live is longer. The clock is read before the
  call of Redis, as in the code, and may have moved on when the answer comes.
  Redis commands fail, but Redis does not lose its keys: after that the limits
  would start again and the challenges be gone. `upsert` does not answer
  `Rejected`: no code sets `devices.revoked_at`.

## Not modelled

* The check of bearer tokens on later requests (`auth_extractor.rs`,
  `JwtIssuer::verify`), Ed25519, the wire format (`relay/wire.rs`), JSON and
  payload building: functions without state.
* `check_device`, the windows of the other routes, which work like those of Auth;
  `OnceAMinute`, which limits a log line.
* Reading the configuration, the keys of the push providers, the mapping of errors
  to HTTP answers.
* What a peer's device is shown of presence: `view` is the last announcement, not
  a connection of the peer.
