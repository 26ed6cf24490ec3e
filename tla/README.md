# IM_System: specifications, model checking and proofs

IM_System is a small instant-messaging server in Go. Several instances (nodes)
serve websocket connections and share MySQL (users, conversations, members,
messages), Redis (who is online where, caches, pub/sub between nodes) and
RabbitMQ (the update of a conversation's last message). This directory holds
TLA+ specifications of its core, TLC configurations for small instances, and
proofs for TLAPS. All paths below are relative to `src/`.

## 1. Inventory

| Component | State | Operations | What is hard | What makes it correct |
|---|---|---|---|---|
| Connection registry, `internal/ws/manager.go` | map user → client per node, Redis key `online:user:<id>`, gauge `im_online_users` | `Register`, `Unregister` (from the reader's defer, or from a kick), `CloseAll` | Redis calls and the gauge come after the unlock; two `Unregister`s for one client; a newer session of the same user here or elsewhere; shutdown, crash | only the client that holds an entry removes it; an entry is always a client that is still served; the key says where the user is |
| Heartbeat, `internal/ws/client.go` | read deadline, ping ticker, TTL of the key | `pingLoop`, pong handler, `refreshOnlineTTL` | three periods racing each other | an answering peer is never dropped, its key never expires, a silent peer and a ghost key disappear |
| Delivery, `internal/ws/client.go`, `internal/handler/user.go` | message table, read marks, `Send` channels, unread rows being pushed | `handleChatMsg`, `handleACKMsg`, `DeliverTotalMsg`, `DeliverMsg`, `DeliverUnreadMsg` | lookup, unlock, then send; store and lookup against register and load; a full or closed channel; a dead writer | a message is never lost between the tables and the live path, a mark hides nothing unseen |
| Forwarding, `internal/router` | messages in Redis pub/sub, the subscriber's current message | `PublishForward`, `StartSubscribe`, `handlerForwardMsg` | at most once; stale node names | same as delivery |
| Conversation update, `internal/mq`, `repository/conversation.go` | publisher channel and mutex, queue, dead letter queue, consumer, `last_msg_id` | `PublishWithFallback`, consumer loop, `UpdateConversation` | confirm timeouts, retries, redelivery, broken connections, error for "0 rows" | no stored message is forgotten |
| Reconnect watcher, `internal/mq/reconnect.go`, `pkg/rabbitmq` | current connection, publisher channel | `WatchAndReconnect`, `reconnectWithBackoff`, `rebuildAll` | `NotifyClose` on a connection that is closed already; unsynchronised `publishCh` | the node is connected again, or exits |
| Find or create a conversation, `handleChatMsg`, `repository/conversation*.go` | conversations, members, Redis cache | `CheckConversationExist`, `CreateConversation`, `CacheConversationID`, `AddMember` | two first messages at once; cached before the members exist | who has a complete conversation gets no other; a stored message's conversation has both members |
| Accounts, `internal/service`, `repository/user.go` | users, user cache | `Register`, `Login`, `GetUserByUserID` | check then insert; cached absence | a name is shared only after a race; a registered user is not unknown for ever |
| Lifecycle, `cmd/server/main.go` | the process | start, shutdown | hijacked connections outlive `srv.Shutdown`; Redis is closed under running handlers | every effect of a dead process ends |

How they interact. A websocket request runs `WsConnect`: it registers with the
registry, pushes unread rows, then starts the reader (`ListenMsg`) and becomes
the writer (`DeliverMsg`). The reader handles one message at a time: it stores
the message, publishes it to RabbitMQ and waits for the confirm, marks it read
for the sender, looks the receiver up in the map of its node or in Redis, and
sends to the receiver's channel or publishes to the receiver's node, whose
subscriber sends to the channel. A full channel starts a kick in a goroutine of
its own. The components share the map (under `ConnManager.mu`), Redis, MySQL,
and client pointers that outlive the lock.

`PROJECT.json` lists every hazard at its line, with the property that covers it
or the reason why none does yet.

## 2. Modules

| Module | Models | Builds on |
|---|---|---|
| `Presence` | the registry, kicks, shutdown, crash, restart | - |
| `PresenceTimed` | the heartbeat: deadlines, pings, TTLs; implements `Presence` | EXTENDS `Presence` |
| `Inbox` | abstract: what the service promises about messages, views and marks | - |
| `Delivery` | storing, marking, lookup, channels, forwarding, unread push, ACK; implements `Inbox` | EXTENDS `Presence` |
| `ConvUpdate` | publisher, broker, consumer, `last_msg_id`; links that break and come back | - |
| `Reconnect` | how a link comes back: the watcher, request by request; implements `ConvUpdate` | EXTENDS `ConvUpdate` |
| `Accounts` | registration, login, the user cache | - |
| `Conversation` | `handleChatMsg` up to the stored row: the lookup of `Accounts`, then finding or creating the conversation | EXTENDS `Accounts` |
| `PresenceProofs`, `PresenceTimedProofs`, `DeliveryProofs`, `ConvUpdateProofs`, `ReconnectProofs`, `ConversationProofs` | the proofs | EXTEND the module they are about, and the proofs of what that builds on |
| `PresenceGaugeProofs` | the counting argument about the gauge | EXTENDS `PresenceProofs` |
| `DeliveryOrderProofs` | the proofs of `NoGap` and `NoUnreadSkipped` | EXTENDS `DeliveryProofs` |
| `MCPresence`, `MCPresenceTimed`, `MCDelivery`, `MCConvUpdate`, `MCReconnect`, `MCConversation` | the instances TLC checks | EXTEND the module they instantiate |

### Presence

A *Client* is a Go `*Client`; one `WsConnect` creates it, so `Owner` and `Home`
are constants. `phase[c]` is the position of its goroutines in the code,
`kick[c]` that of `go Manager.Unregister(c)`. A critical section of
`ConnManager.mu` is one step; the Redis command (and the gauge) after it is
another, so any other step may come between.

| Code | Actions |
|---|---|
| `WsConnect` up to `Upgrade` | `Accept` |
| `Register`: under the lock / after it | `RegisterEntry` / `RegisterOnline` |
| `DeliverUnreadMsg` returns, loops start | `StartListening` |
| deferred function of `ListenMsg` | `Leave` (critical section), `ClearOnline` (DEL, gauge), `Close` |
| `go Manager.Unregister` of a full client | `SpawnKick`, `KickEntry`, `KickOnline` |
| `main()` after the signal | `BeginShutdown`, `CloseAllCollect`, `CloseAllClear`, `Release`, `Exit` |
| the environment | `Crash`, `Restart`, `KeyExpires` |

The goroutines of a process run on until the process ends: a connection that
`srv.Shutdown` did not wait for may still register, and its Redis commands fail
once `redisdb.Close` has run (`status = "released"`).

`Exclusive` is an assumption on users, not on code: such a user opens a session
only when everything the previous one started is over. `VisibleWhenExclusive`
and the strong delivery properties are claimed for them only; the counterexample
of run `presence_key` shows that they fail for others.

### PresenceTimed

| Code | Actions |
|---|---|
| pong handler, `refreshOnlineTTL`, the next ping of `pingLoop` | `Pong`, with `RefreshOnlineTTL` and `NextPing` |
| the read deadline passes, or the connection fails | `TimedLeave` |
| `Register`, `StartListening`, `CloseAll` with what they do to the clocks | `TimedRegisterOnline`, `TimedStartListening`, `TimedCloseAllClear` |
| the environment | `Tick`, `Lapse`, `PeerVanishes`, `PeerCloses` |

Time advances by `Tick`, and a deadline that is due stops the clock until its
handler has run. `timer[c]` counts down to the read deadline plus `Latency`,
`beat[c]` to the latest moment the next pong is handled, `ttl[u]` to the expiry of
the key. `Latency` bounds one `handleChatMsg` and a round trip, because the reader
sees neither a pong nor its deadline meanwhile; `PushTime` bounds
`DeliverUnreadMsg`, during which nothing reads or renews. `PeriodAssumption` has the
three inequalities that the constants of the code must satisfy (30 s + latency
< 60 s; push + 60 s + latency < 90 s). The third is not enforced by the code: a
push of very many rows can exceed it, see the hazard at `client.go:405`.

### Delivery

| Code | Actions |
|---|---|
| `handleChatMsg` | `Chat` (`CreateMessage`), `MarkOwn`, `FindClient`, `DeliverLocal` or `FindNode` and `Publish` |
| `DeliverTotalMsg` | `Enqueue`, `KickFull`, `Panic` |
| `DeliverMsg` | `WriteSend` |
| `DeliverUnreadMsg` | `LoadUnread`, `PushUnread` |
| `handleACKMsg` | `Ack` |
| subscriber | `ReceiveForward`, `DeliverForwarded` |
| reader ends | `Hangup`, `CloseSend` |
| `Register`, kicks, shutdown | the actions of `Presence`, with what they do to the channels |

Message ids are positions in `rows`. What `DeliverUnreadMsg` has loaded is a set, written
lowest id first (`InOrder`, the `ORDER BY` of the query). The conversation of two users exists
from the start. A peer acknowledges only messages it has received on that connection, which
is what the client protocol asks for; the server itself accepts any id. A write to
a peer that is gone may succeed or fail on this side. The message's way over RabbitMQ
does not affect delivery and is left to `ConvUpdate`.

`NoGap`, `NoUnreadSkipped` and `StoredIsDelivered` speak of the messages the code does not
lose (`Promised`) while nothing has gone wrong (`Undisturbed`). The exceptions are what the code
does: a Send buffer that ran full drops its message, and the acknowledgement of a later one
puts the mark above it; a receiver who writes back marks everything before as read, seen or not
(`AnsweredAfter`); two sessions of one sender, one at a time but on different nodes, reach the
receiver by two ways, on which a later message may overtake (`Steady` excludes it). `KeepsPromise`
needs none of these conditions.

`NextSessionBrings` is about the messages the live path does lose: the row is in the table, so
a session that connects afterwards and stays is sent it, unless the mark has passed it. It
claims nothing while MySQL may refuse the query, whose error the code only logs.

### ConvUpdate

One conversation, several nodes. `pub[h]` is a handler in `PublishWithFallback`; the
mutex is held from `Publish` to the end of the attempt. The broker is external: a
FIFO queue, confirms or refusals, delivery without a prefetch limit, requeueing
when a connection breaks, and the client library's refusal of confirms awaited on a
closed channel. MySQL counts *changed* rows (the DSN does not set
`clientFoundRows`), so applying a message twice in a row is an error for
`UpdateConversation`. `applied` and `failed` are history variables.

### Reconnect

A recovery is one step `Reconnects` in `ConvUpdate`; here it is a program that may fail at
every request. `at[n]` is the position of the watcher, `alive` the nodes whose
connection is open, `channel[n]` is `publishCh`. A link of `ConvUpdate` is an open
connection with a channel in confirm mode (`ReconnectTypeOK`).

| Code | Actions |
|---|---|
| `NotifyClose`, then the receive | `Register`, `Notice` |
| `rabbitmq.Reconnect` | `CloseOld` (an attempt that failed half way left a connection open), `Dial` |
| `DeclareTopology` | `DeclareTopology` |
| `InitPublisher` | `OpenChannel`, `ConfirmMode` |
| `StartConversationUpdateConsumer` | `Consume` |
| an error of any of them | `RequestFails`, that is `NextTry`: the next of `MaxAttempts` attempts, or SIGTERM (`killed`) |
| a publisher that meets a nil channel, or one without confirm mode | `PublishPanics` |
| the environment | `ConnDies`, at most `MaxFaults` times together with refused requests |

`NotifyClose` on a connection that has died already closes the channel it is given,
so the watcher stops (`stopped`). A panic ends the process and the model.

### Accounts and Conversation

| Code | Actions |
|---|---|
| `service.Register` | `CheckName`, `CreateUser`; `Refuse` for each of its early returns |
| `service.Login` | `CanLogin`, the guard of a session: `First` takes the lowest id of the name |
| `GetUserByUserID` | `BeginLookup`, `ReadCache`, `ReadUser`, `FillUser` (HSET), `ExpireUser` (EXPIRE) |
| `CheckConversationExist` | `CheckCache`, `Search`, and `CacheConversation` after a find |
| `CreateConversation`, `CacheConversationID` | `CreateConversation`, `CacheConversation` |
| `AddMember` twice, `CreateMessage` | `AddMember`, `CreateMessage` |
| the environment | `UserExpires`, `ConversationExpires`, `Dies` |

The entry of a user and its lifetime are two commands of a `Pipelined`, which is no
transaction, and its error is only logged (`user.go:70-79`, `87-98`); a `HSET` leaves an entry's
lifetime alone. `ttl[u]` says whether the entry of `u` has one (`kept`), waits for its EXPIRE
(`due`), or waits in vain (`lost`), because the EXPIRE failed or its process died. Redis drops
only entries with a lifetime.

Each statement is a step and may fail. Ids are positions in the tables. A handler may
name any user id, its own and one that is not registered yet included.
`convs[c].known` records which complete conversations the pair had when the search that
led to `c` began; `orphans` are the conversations whose creator failed or died before both
members were in. Both are history. The value 0 under `conv:exist` (the row of a
conversation gone while its members are there) cannot arise: no code deletes a conversation.

### Slips

Next to some definitions stand variants named for a plausible mistake
(`HoldsSomeone`, `LoadUnreadEarly`, `UnreadNewestFirst`, ...). No specification uses
them; `PROJECT.json` pairs each property with one that breaks it.

## 3. Runs

| Run | Instance and bounds | Shows |
|---|---|---|
| `presence` | 1 user, 2 nodes, 3 connections (two on `n1`, one on `n2`) that overlap freely, `n1` may stop, crash, restart, Redis may fail | `EntryIsServed`, `EntryRemovedByOwn`, `GaugeNeverUndercounts`, types |
| `presence_key` | the same without failures | violation: `Unregister` deletes the key that a newer session has set |
| `presence_gauge` | the same without failures | violation: the gauge drifts upwards |
| `presence_timed` | 1 user, 2 consecutive sessions on different nodes, ticks of 10 s with the code's periods 3/6/9, `Latency` and `PushTime` 1 | `AnsweringPeerStays`, `KeyOutlivesDeadline`, `VisibleWhenExclusive`, `SilentPeerIsReaped`, `GhostKeyLapses`, and that the heartbeat implements `Presence` |
| `delivery` | sender on `n1`, receiver with a session on each node, one after the other; 2 messages, channel of 1, which may run full, fair | `NoGap`, `NoUnreadSkipped`, refinement of `Inbox` (`KeepsPromise`), `StoredIsDelivered`, `NextSessionBrings` |
| `delivery_faults` | sender on `n1`, receiver on `n2`, channel of 1, Redis, pub/sub and MySQL may fail, `n2` may stop and crash | `KeepsPromise` under faults, types |
| `delivery_mark` | both users write | violation: the mark passes an undelivered message |
| `delivery_panic` | as `delivery` | violation: a send on a closed channel |
| `conv_update` | a handler on each of 2 nodes, 2 messages, 2 attempts, 1 broken connection, refusals, MySQL errors | `NothingForgotten`, types |
| `reconnect` | 1 node, 1 handler, 2 messages, 2 publish attempts, 2 faults, 2 reconnect attempts, refusals, MySQL works, fair | `SteadyState`, `RecoveryEnds`, `AppliedUnlessCutOff`, `RefusedWereApplied`, refinement of `ConvUpdate` (`RefinesPipeline`), types |
| `reconnect_watch` | the same with 1 message, no refusals | violation: the watcher stops though nobody shut down |
| `conversation` | 2 registrations, 2 names, a session of each user, 2 chat messages, Redis and MySQL may fail, entries expire, processes die, fair | `TwinsOverlapped`, `CreatedOnlyIfNone`, `MessagesHaveMembers`, `MessageBetweenUsers`, `EventuallyKnown`, types |

Why the bounds are enough. An entry of the map has one holder, so three
connections show every relation that an old, a current and a newer session may
have, on one node and across nodes; a second user shares no state with the first but
the gauge. Two messages are the fewest for which order, marks and a full channel of one
matter; the properties about marks speak of two messages. Two attempts have a first
failure, a retry and the last failure, as three have. One break is enough to requeue a
message whose handler and whose earlier consumer are still at work. In `reconnect` two
faults let the second strike the recovery from the first at each of its requests, and two
attempts are a retry and the last one; a second node shares only the queue, which
`conv_update` covers, and the proofs hold for any number. In `conversation` two sessions and
two messages give every overlap of two searches and creations, and a message that finds what
an earlier one left behind; three messages without liveness pass as well (3.4 million
states, not among the runs). Deadlock is not
checked: with `MaxMsgs` stored, the connections used up and nobody writing, the system
rightly stops; liveness is stated separately.

What the violations show, with the line each contradicts, is in `PROJECT.json`
under `findings`.

* `presence_key`: `manager.go:77` promises that only the active client cleans up in Redis.
  The check is local and comes before the unlock, the DEL after it. In between a newer session of
  the user may register and do its SET, on the same node (the trace TLC prints) or on another one;
  the DEL then removes the key of a session that is served, and the user stays invisible to the
  other nodes until the next connect (EXPIRE does not bring the key back). An older connection that
  removes its own SET before the newer session's is not counted as a violation.
* `presence_gauge`: a replaced connection is never uncounted (`metrics.go:37`).
* `delivery_mark`: `resume.md:12` relies on ACK and reconnect for what was not
  delivered; `last_read_msg_id` is a high-water mark that the user's own message raises.
  The same happens one way when a message is dropped at a full channel and a later one
  is acknowledged.
* `delivery_panic`: the pointer read under the lock is used after it, and `ListenMsg`
  closes the channel of a client it has unregistered.
* `reconnect_watch`: `reconnect.go:23` reads a closed channel as a wanted close. A connection
  that died before `NotifyClose` looks the same, and the node stays without RabbitMQ: every
  message waits for its failed attempts and goes to MySQL directly, and nothing is consumed there.

One more disagreement is modelled and has no run of its own: `user.go:85` says that the pipeline
executes HSET and EXPIRE together, and lines 72 and 89 that the lifetime must be set in any case.
An EXPIRE that fails alone, or is cut off by the end of its process, leaves an entry that
nothing removes; a cached absence ends every later lookup, so that such a user stays unknown.
`EventuallyKnown` excepts exactly these entries (`ttl[u] = "lost"`).

In `delivery` a message misses a session because its channel is full, its writer has given up,
the node name read from Redis is out of date, or the session ends; lost publishes are in
`delivery_faults` alone, which checks safety.

## 4. Fairness

* `PresenceTimed`: time passes, Redis expires keys, `DeliverUnreadMsg` returns
  (each write has a 10 s deadline), and a reader whose deadline has passed, whose
  connection failed, or that has a pong to handle, runs. All are weak: the action stays
  enabled until taken. Peers are not fair: they may answer for ever or vanish.
* `Delivery`: each connection's goroutines and each subscriber run. Weak fairness is on
  the disjunction of a connection's steps: a handler is one sequential goroutine, and
  the liveness properties need no more of the Go scheduler.
  Users connecting, writing, acknowledging or going are not fair.
* `Reconnect`: each handler's publisher, each watcher, each consumer goroutine, and the
  broker's work for a node (taking from a wire, pushing from the queue to a consumer) are
  weakly fair. The watcher's fairness says that its requests return, with an error on a
  dead connection, which the client library does; it says nothing of their success. Faults,
  refusals and new messages are not fair. `AppliedUnlessCutOff` excepts what the code
  does not recover from: no watcher left, a node about to exit, a panic.
* `Conversation`: handlers are goroutines that run, and Redis drops what has a lifetime, which
  an entry written by `FillUser` alone does not. Registrations, new messages, failures and
  deaths are not fair.

## 5. Proofs

Every invariant, action property and refinement that a passing run checks is also a theorem:
TLAPS proves it for any number of nodes, users, connections, messages, handlers and
attempts, from the assumptions on the constants alone. (`VisibleWhenExclusive` is listed twice, once for each of
the specifications that keep it.)

### Presence, from `PresenceAssumption`

* `TypeCorrect`, `LookupsAreServed` (`EntryIsServed`), `OnlyOwnUnregisterRemoves`
  (`EntryRemovedByOwn`). `EntryIsServed` is not inductive: when `RegisterEntry` puts a client
  into the map one has to know that no kick of it has run. `KickAfterEntry` says that a client
  that never registered was never kicked;
  `IInv == PresenceTypeOK /\ EntryIsServed /\ KickAfterEntry` is inductive (`Inductive`).
  The action property follows from it, because in each step that changes an entry the
  old holder's phase or kick is known.
* `ExclusiveUserVisible` (`VisibleWhenExclusive`). It is not inductive either: nothing in it
  keeps a DEL of an earlier session from coming late. `ExclusiveInv` adds that two sessions of such a
  user are never at work together (`SoleSession`), that a shutdown closes only clients that were
  served (`SnapshotWasServed`), and that a node that is down has nothing running (`DownIsQuiet`).
* `PresenceGaugeProofs!GaugeUndercountsNobody` (`GaugeNeverUndercounts`): every step changes the
  gauge by at most one, and with it moves at most one client into or out of the clients counted,
  or those whose kick uncounted them before `Register` had counted them (`Counted`, `Early`).
  Nothing bounds the connections, so that only finitely many were opened is part of
  `GaugeInv`; `UncountedOnce` says that a session's own `Unregister` and its kick do not both
  count it off.

### PresenceTimed, from `PeriodAssumption` as well

* `HeartbeatImplementsRegistry`: `TimedSpec => PresenceSpec`. Each step of the timed module is a
  step of `Presence` or leaves its variables alone; the one that needs an argument is `Lapse`,
  which `Presence` permits only when no connection of the user is served or Redis may fail.
  It follows from
* `KeysOutliveDeadlines` (`KeyOutlivesDeadline`): the TTL of a served user's key exceeds the
  reader's deadline, which is never negative. `TimedInv` adds the types of the clocks and
  the upper bounds of `timer` (`TimerBounded`), without which a pong, a new deadline or a
  second session of the user could overtake the TTL. `ClocksTypeCorrect` (`TimedTypeOK`) comes
  from the same invariant.
* `AnsweringPeersStay` (`AnsweringPeerStays`): the next pong of an answering peer is handled
  before the deadline it will move.
* `ExclusiveUserVisibleInTime`: by refinement, from `ExclusiveUserVisible`.

### Delivery, from `DeliveryAssumption` as well

* `DeliveryTypeCorrect`, `PromiseKept` (`DeliverySpec => KeepsPromise`, the refinement of `Inbox`)
  and `LookupsAreServedUnderDelivery`, under every fault. `DInv` is the invariant: `IInv`, the
  types of the channels, and `Refs`: wherever an id waits (handler, channel, Redis, loaded rows),
  it is the id of a stored row, and who gets it from there is a party of that row. A step of
  `Delivery` is a step of `Presence` or the end of a panicked process, which keeps `IInv` as well
  (`VanishTypeLemma`, `VanishEntryLemma`).
* `DeliveryOrderProofs!NothingFallsBetween` (`NoGap`) and `MarkSkipsNothing` (`NoUnreadSkipped`),
  from `OrderInductive`: `DInv /\ OrderInv` is inductive. Some of `OrderInv` holds whatever goes
  wrong: a session loads its rows between registering and listening (`LoadInv`), a message is
  between two who may talk (`RowsTalk`), a mark is an id its user sent or saw (`MarkRef`). The rest
  holds while `Undisturbed`: nodes are up (`UpInv`), an open session of an exclusive user keeps its
  entry (`ExclusiveInv`, `EntryStays`), a forward comes from another node than the one it goes
  to (`FarInv`), a message for an open session was taken (seen, answered, to be loaded) or waits
  in one definite place with nothing of its sender ahead of it (`PathInv`), loaded rows begin
  where the seen ones end (`LoadedBelow`), and so what a user saw of a sender is a prefix of what
  was sent (`PrefixSeen`). The step follows one message through the places: from the handler
  into the channel or to Redis, from there to the subscriber, from the subscriber into the
  channel, from the channel to the peer. Its effect is stated once per group of actions, and
  the parts are proved from the effects.

### ConvUpdate and Reconnect, from `ConvUpdateAssumption` and `ReconnectAssumption`

* `PipelineTypeCorrect` (`ConvTypeOK`), `NoMessageForgotten` (`NothingForgotten`),
  `RefusedAreDuplicates` (`RefusedWereApplied`). The second is inductive with `DoneIsApplied` (what
  a consumer is about to acknowledge was applied): each step that takes a message from one
  place puts it into another, a break what was prefetched and unsettled back into the queue.
  The third rests on `RefusalInv`: MySQL refuses only an update that changes nothing, and what
  the row holds was applied.
* `ReconnectProofs!ImplementsPipeline` (`RefinesPipeline`): every step of the watcher is
  `Breaks`, `Reconnects` or leaves the pipeline alone. That no step is lost to the guards of
  these two is what `ReconnectTypeOK` (a link is an open connection with a confirming
  channel) and, in the run, `RecoveryEnds` show. Hence `RecoveriesForgetNothing` and
  `RecoveriesRefuseDuplicates` under `ReconnectSpec`, by refinement alone.
* `SteadyOutsideRecovery` (`SteadyState`), with `RecoveryInv`, which adds the channel that the last
  request of a recovery finds, and `ReconnectTypeCorrect` (`ReconnectTypeOK`), with the types of
  the pipeline by refinement.

### Accounts and Conversation, from their two assumptions

* `TwinsOnlyFromOverlap` (`TwinsOverlapped`): `TwinInv` keeps what a check has seen, namely no
  row of the name among the first `seen` ones.
* `NeverASecondOne` (`CreatedOnlyIfNone`): complete conversations stay complete, because
  conversations and members are only added; so those that a search began with are still
  there when it reads, and it creates only if it reads none (`SearchInv`).
* `MembersBehindMessages` (`MessagesHaveMembers`) and `MessagesAreBetweenUsers`
  (`MessageBetweenUsers`): whoever holds an id (a handler, Redis, a member row, a message) holds
  that of a conversation of the right pair (`IdInv`); every conversation has its members, or
  is being created, or is an orphan (`BackedInv`); whoever is taken for registered is
  (`LookedUpInv`, `ReceiverInv`). `EffectLemma` says once what a step may do to a handler, to
  the tables and to Redis, and the invariants are proved from it without the actions.
* `ConversationTypeCorrect` (`ConversationTypeOK`): its bounds are counted. Each user comes from a
  call of its own (`CallInv`, an injection into `Call`), and the conversations and the messages
  that may still create one do not outnumber the messages that came in (`CountInv`).

### Only model-checked

The liveness properties: `SilentPeerIsReaped`, `GhostKeyLapses`, `StoredIsDelivered`,
`NextSessionBrings`, `RecoveryEnds`, `AppliedUnlessCutOff`, `EventuallyKnown`. Liveness under fairness is beyond the
prover.

## 6. Not modelled, and why

* JSON parsing, JWT, bcrypt, templates, configuration, logging: no state that the
  properties tell apart.
* Metrics other than `OnlineUsers`, the SCAN sampler and the channel sampler: observers.
* The load test under `cmd/loadtest`: a client.
* The MySQL pool: statements are atomic steps that may fail where a model has
  `MySQLMayFail` or `DBMayFail`.
* Writing to oneself: in the model, without a property. `HAVING COUNT(DISTINCT user_id) = 2`
  never finds such a conversation, so each message after the cache entry expires creates
  another; the code does not say whether it is meant to work.
* The branch of `CreateMessage` for a repeated `client_msg_id`: gorm reports `ErrDuplicatedKey`
  only with `TranslateError`, which `mysql.go` does not set, and the schema of `messages` is not
  in the repository. A message is inserted or the insert fails.
* A channel that the broker closes while the connection stays open: nothing in the code
  answers to it, and the liveness of `Reconnect` is claimed without it.
* What follows a panic of a process or the SIGTERM of a watcher that gave up: the shutdown is that
  of `Presence`.
* The order in which messages reach `last_msg_id`: `row` may move backward in the model, and the
  code promises nothing else.
* The end of a node in `ConvUpdate` and `Reconnect`: a publisher that dies with its process, or
  finds MySQL closed at shutdown, loses the update of the message it holds;
  `NothingForgotten` is claimed for running processes.

## 7. Plan

1. Done: every component that keeps state is modelled (section 2); the proofs of section 5, which
   cover all safety properties of the passing runs.
2. Left for proofs: what the liveness arguments need that is safety (for `StoredIsDelivered`, that a
   message on its way stays with a goroutine that can take its next step), and further theorems of
   `Delivery` for users who are not `Steady`.
3. `Delivery` with the restart of a node between publish and subscribe, and `NextSessionBrings` where
   publishes are lost and nodes crash, if the state space allows.
