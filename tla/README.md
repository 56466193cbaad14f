# A TLA+ model of zatat

zatat is a WebSocket server that speaks the Pusher protocol. Clients subscribe
to channels of an app; presence channels also tell every member who else is
there. Several nodes form a fleet over a Redis bus. This directory models the
parts of the server that run concurrently, checks them with TLC on small
instances and proves the central ones with TLAPS for instances of every size.

## The system and its parts

| part | source (under `src/crates/`) | here |
| --- | --- | --- |
| channel objects and the channel map | `zatat-channels/src/channel.rs`, `manager.rs` | `PresenceChannel`, `CacheChannel` |
| connection task: subscribe, unsubscribe, cleanup | `zatat-ws/src/handler.rs` | `PresenceChannel`, `ChannelCounts`, `CacheChannel`, `UserSessions` |
| connection task: upgrade, select loop, end | `zatat-ws/src/router.rs`, `handler.rs` | `Connections` |
| outbound queue, kick | `zatat-connection/src/connection.rs` | `PresenceChannel`, `Connections` |
| bus consumer | `zatat-scaling/src/dispatcher.rs`, `message.rs` | each message in the module of the state it changes |
| roster cache of the peers and its GC | `zatat-scaling/src/presence_cache.rs`, `zatat-ws/src/tasks.rs` | `PresenceChannel` (locks), `FleetPresence` (several nodes) |
| sequence numbers, snapshots, withheld webhooks | `dispatcher.rs`, `presence_cache.rs`, `tasks.rs` | `FleetPresence` |
| user sessions, sign-in, watchlists | `manager.rs`, `handler.rs`, `peer_state.rs` | `UserSessions` |
| peer channel counts, subscription_count | `peer_state.rs`, `dispatcher.rs`, `handler.rs`, `tasks.rs` | `ChannelCounts` |
| cache channels | `channel.rs`, `manager.rs`, `handler.rs` | `CacheChannel` |
| connection registry, quota, rate limiter | `manager.rs`, `router.rs`, `rate_limit.rs` | `Connections` |
| reload of the apps table | `zatat-config/src/lib.rs`, `zatat-cli/src/main.rs` | `Connections` |
| keepalive | `connection.rs`, `tasks.rs` | `Keepalive` |
| publisher queue, shutdown | `dispatcher.rs`, `zatat-cli/src/main.rs` | `BusPublisher` |
| Redis subscriber, bridge, supervised reader | `redis.rs`, `zatat-cli/src/main.rs` | `BusSubscription` |
| webhooks | `zatat-webhooks/src/lib.rs` | `WebhookDelivery` |
| fleet-wide queries | `dispatcher.rs`, `zatat-http/src/routes.rs` | `MetricsQuery` |
| wire protocol, signatures, core types, metrics exporter | `zatat-protocol`, `zatat-core`, `zatat-http/src/sign.rs`, `zatat-metrics` | not modelled: stateless parsing, formatting, cryptography |

How they interact: a connection task handles one request at a time and calls
the channel manager; what follows from a membership change (frames to the other
members, a message on the bus, a webhook) is issued by closures that run under
the channel's *transition lock*; what follows from a change of a user's sessions
runs under a mutex of that user. Messages for the bus go through a bounded queue
to one publisher task; webhooks go through another to a drain loop that starts
deliveries. The bus consumer applies what other nodes publish to the caches of
the peers' state and to the local members. Periodic tasks publish snapshots of
that state, drop the caches of peers that have gone silent, ping silent clients,
and reload the configuration.

## Modules

Operators commented as *mutant* are wrong variants of the operator that
follows; no specification uses them. Variables commented as *history* influence
no step; they mark situations that a property excludes, and each of them is
explained under *Findings and observations*.

### Presence on one node

* `Room`: what a presence channel promises, with no map, locks or objects: a
  function from sockets to users, entered and left in one step, and for each
  step the answer to "did the set of users change?".
* `PresenceChannel`: one presence channel of one app on one node. Its state:
  * `chan`, `entryLock`: the `DashMap` entry of the channel's name.
    `subscribe_with` holds it from `entry()` until the socket is a member, and
    every other access to the map waits for it;
  * `transLock`, `members`, `refs`: the fields of `Channel`, per allocation.
    Channels are reference counted and a task can hold one that the map has
    dropped, so `Objects` is a set of allocations; one is reused when neither
    the map nor a task refers to it;
  * `cache`, `event`, `diff`, `expired`: the peers' rosters, the envelope the
    bus consumer is applying, the frames a snapshot still has to emit, and what
    the GC has dropped but not announced;
  * `pc`, `obj`, `join`: where each task is in its handler, the `Arc<Channel>`
    it holds, its locals;
  * `subscribed`, `closing`, `kicked`, `queue`, `view`: the connection's list,
    cleanup, the kick signal, the outbound queue, and what the client believes;
  * `busRoster`: the users whose last presence message on the bus was an add.

  An action is the code between two points where another task can get in:
  `HandleSubscribe`, `SubscribeLock`, `Admit` or `Reject`, `Subscribe`,
  `AnnounceJoin` are one `handle_subscribe`; `HandleUnsubscribe` or `Cleanup`,
  `LeaveLock`, `Unsubscribe`, `AnnounceLeave`, `Reap` are one `leave_channel`;
  `BusFind`, `BusLock`, `BusApply`, `BusDiff`, `BusDiffDone` one bus message;
  `GcExpire`, `GcFind`, `GcLock`, `GcDecide` one GC pass. Peers' messages are
  any member of `Events` at any time, which covers loss, duplication and
  reordering on the bus.

### The fleet

* `FleetPresence`: one presence channel across nodes; the work under one hold
  of the transition lock is one step (`PresenceChannel` opens it up) but for its
  end. `Join` and `Leave` draw the sequence number of their message, which is
  then in the node's `hand` with the lock still held, and `Enqueue` puts it on
  the bus. A snapshot takes its number (`SnapshotDraw`) before it reads the
  roster (`SnapshotCapture`) and goes out later (`SnapshotSend`), with no lock, so
  either may overtake the other. `net` keeps the order of one origin and may lose
  messages (`Lose`). `Deliver` is `handle_incoming` with `accept_seq`.
  `Expire`, `GcPass`, `ForgetPeer` and `Heartbeat` are the TTLs; `Crash` and
  `Start` end a node and start one with a new id. `hook` is what the webhooks
  sent so far add up to; `withheld` what a node did not report because a peer
  still had the user, or the channel, and may have to claim later (`TieBreak`),
  until it is forgotten (`ForgetWithheld`). `calm` is history: it holds the users,
  and the channel, that began to leave while no message was on its way and no
  report of theirs was withheld, and that nobody has joined since; `slipped` is
  history too: those of which a peer ignored a leave with a flag, as too old.
* `UserSessions`: `HandleSignin`, `SigninBind`, `SigninList`, `SigninTell` are
  one sign-in, `Disconnect`, `CleanupUnbind`, `CleanupTell` the user part of
  `cleanup_connection`; `BusStart`, `BusApply`, `BusTell` one bus message or one
  user of a session snapshot; `GcSessions`, `GcUser`, `GcDecide` the GC.
  `lockOf` and `arc` are the map of mutexes and the references to them:
  `TakeArc` and `Release` are `with_user_transition` and its tidying.
  `SessionSnapshotDraw`, `SessionSnapshotCapture` and
  `PublishUserSessionSnapshot` are this node's own snapshot.
* `ChannelCounts`: the subscriber counts of a channel without presence on the
  nodes of a fleet. The steps of a join or a leave (`CountJoin` or `CountLeave`;
  `CheckPeers` and `NoteWithheld` decide on the webhook; `ReadTotal`,
  `AnnounceSubscriptionCount` and `EnqueueCount` tell), the application of a
  live count (`ApplySubscriptionCount`, `BusCheckEmpty`, `BusClaim`,
  `BusReadTotal`, `EmitTotal`) and of a snapshot (`ApplyCountSnapshot`,
  `BusReemit`), the GC (`GcCounts`), and the two ends of a snapshot interleave,
  because only some of them hold the transition lock. `noted` is the withheld
  `channel_vacated` of a node, which it forgets after a while (`ForgetNoted`).
* `MetricsQuery`: `ReadLocal`, `AskFleet`, `Collect`, `WaitIsOver`,
  `Unregister` are one query; `RespondToMetricsRequest` and `MetricsResponse`
  the two sides of a peer's answer, which may be late or lost.

### One node

* `CacheChannel`: the map entry and allocations as in `PresenceChannel`, with
  the cached payload, its age, and `notified`, the claim of the cache_miss
  webhook, which a new channel does not inherit (`recreated`). An event may
  except one socket. Subscribers (`Subscribe`, `CachedPayload`, `Replay` or
  `CacheMiss`), publishers (`Request` or `BusMessage`, `FindChannel`,
  `SendToMembers`, `SetCachedPayload`), client events and the GC
  (`GcEmptyCacheChannels`, `Reap`) interleave; publishers take no lock.
* `Connections`: `WsUpgrade`, `RegisterInsert`, `RegisterCheck`, `Greet`, the
  branches of the select loop, `Untrack`, `CleanupConnection`; `TrySend` is
  `ConnectionHandle::try_send`; `EditFile`, `ReloadApps`, `ApplyAppsReload` the
  reload; `ShutdownSignal`, `Restart` and `RestartSignalWatcher` what begins the
  drain. `phase` is the place in the task, `registry`
  and `tracker` the two tables that know a connection.
* `Keepalive`: one connection; time is counted in maintenance periods. `touch`
  (`TouchTime`, `TouchFlag`) and the maintenance visit (`Visit`, `VisitSend`,
  `MarkPinged`) are not atomic and interleave.
* `BusPublisher`: requests (`AcceptRequest`, `DeadlineAndMetrics`,
  `HandleRequest`) and connection tasks, `SpawnPublish` in both overflow modes,
  the forwarder of the staging buffer, the publisher (`PublisherTake`,
  `PublisherMark`, `PublisherPublish` or `PublisherTimeout`, `PublisherUnmark`),
  and the shutdown (`BeginShutdown`, `ListenerDrains`, `ListenerDone`,
  `PollCounter`).
* `BusSubscription`: the watchdog of the subscriber (`PingTick`, `PingReply`,
  `PingTimesOut`, `ForceReconnection`), the bridge (`Forward`) and the
  supervised reader with its restarts and backoff.
* `WebhookDelivery`: intake in both overflow modes, the drain loop (`LoopTake`,
  `LoopMark`, `LoopSpawn`, `LoopDone`), deliveries with slots and retries, and a
  caller of `pending()` that reads its four terms one after the other.

### For TLC and TLAPS

* `MCPresenceChannel`, `MCFleet`: values of constants, and symmetry.
* `MCPeerState`, `MCNode`, `MCPipeline`: several modules that share no state
  checked in one run. A variable `part` chosen in `Init` says which of them
  moves; the others stay in an initial state, so a run explores the sum of the
  state spaces and not their product. The modules have no variables in common
  because each models its neighbours' messages as inputs that may come at any
  time.
* Proofs: `PresenceInvariant` (definitions), `PresenceStepProofs` (lemmas on each
  action), `PresenceRosterProofs` (the same for rosters) and
  `PresenceChannelProofs` (the theorems) about `PresenceChannel`;
  `FleetInvariant` (definitions) and `FleetProofs` about `FleetPresence`;
  `CountProofs` about `ChannelCounts`; `UserSessionsProofs` about
  `UserSessions`; `NodeProofs` about `Connections`, `Keepalive`, `MetricsQuery`
  and `CacheChannel`; `PipelineProofs` about `WebhookDelivery` and
  `BusPublisher`.

## What TLC checks

| run | instance | shows |
| --- | --- | --- |
| `presence_local` | 3 sockets, 2 users, any socket as any user, cap 1, queue 1, 3 allocations | nobody is stranded on a dropped channel; connection and channel agree; the bus matches the membership; empty channels go; the cap holds; refinement of `Room` |
| `presence_peers` | 1 socket as either of 2 users, 2 peers with a user in common of which one may fall silent, queue 2 | the roster a client was sent plus the frames queued for it is the roster of the channel, also while rosters expire |
| `presence_live` | 2 sockets, fair scheduling | no handler is stuck; a kicked socket leaves |
| `fleet` | 2 nodes, one of which starts later, 2 users, 5 sequence numbers, 1 lost message or crash | a node that has all that a peer said has its roster exactly; its clients then see the users of the fleet; when a fleet at rest begins to leave and nodes withhold the webhook, one of them reports, unless a snapshot overtook a leave |
| `peer_state` | sessions: 3 sockets (two of one user, one of another, each watching the other user), 1 peer, 3 mutexes; counts: 2 nodes, see Bounds | watchers know who is online; the peer knows who is signed in; watch entries match sessions; counts are exact once caught up; subscribers see the total; channel_vacated once when a fleet at rest begins to leave, but for three orders of steps (see (e)) |
| `node` | see Bounds | safety of cache channels, connections and reload, keepalive, fleet queries, publisher and shutdown, webhooks |
| `pipeline` | see Bounds; fair scheduling | accepted envelopes leave; accepted webhooks settle; a connection told to close, or drained, is closed; a silent client is closed; a subscriber whose connection died, and a reader that panicked, come back |
| `late_leave`, `missed_update`, `crash_report`, `unreported`, `second_miss` | 1 or 2 sockets; 2 nodes; the cache channel of `node` | the five findings |

What the properties of `node` say: a payload stays available to late
subscribers until it expires, whatever subscribers, publishers and the GC do at
the same time (`KeptForLateSubscribers`, `SubscribersAreCurrent`), and its
absence is reported once unless the channel was created again in between
(`MissIsReportedOnce`). However registrations race, the
quota holds (`QuotaHolds`), and a reload leaves no revoked connection unclosed
(`ReloadClosesRevoked`). A client is closed as stale only after a ping it did not
answer (`StaleWasPinged`). A query that ends before its deadline has the users
of every peer it counted on, and no query mixes in the answers to another
(`EarlyAnswerIsComplete`, `AnswersAreCurrent`). Envelopes reach Redis in the
order in which they were accepted, and a request that was answered before the
end of a shutdown within its deadlines has been published (`PublishedInOrder`,
`AnsweredIsPublished`). Slots and counters of webhook deliveries balance, and
`pending()` says zero only when everything accepted before is settled
(`SlotsAndCountersBalance`, `PendingIsHonest`).

### Bounds

Presence on one node. Three sockets give two that share a user and a third that
races them; two users suffice since users interact only through the cap and the
roster. A queue of one frame makes "full" happen on the second frame, a cap of
one makes every second user meet it; in `presence_peers` the queue has two, so
that frames of two kinds can wait in it. With one allocation more than the tasks
that can hold a stale reference a join is never blocked for lack of memory. One
peer user is enough for "here, there, both or nowhere"; two peers are needed
only for "silent on one, alive on the other". Symmetry is over allocations, over
the users that no peer names, and over sockets where each may join as any user;
the runs with temporal properties under fairness use none.

`fleet`: `MaxDraws` bounds the sequence numbers drawn by all nodes together;
five allow a join, a leave, a rejoin and a snapshot on either side of them, so
that live messages and snapshots overtake each other in every order.
`MaxFaults` bounds lost messages and crashes. Two nodes are enough for the
tie-break of two that leave together; see (d) below for three. `PromptNext` leaves
out interleavings that add nothing: while a message is numbered and not yet
queued only the steps that publish are taken, for every other step commutes with
the queueing, and heartbeats matter only when something has expired. `unreported`
has no faults and six numbers: two joins on one node, one on the other, two
leaves that cross, and a snapshot.

`peer_state`: two sockets of one user make first and last sign-in differ from
the others. Three mutexes are one more than the users, so that a mutex removed
from the map can still be held while the map has a new one. `Apart` leaves out
behaviours in which this node's own snapshot overlaps the bus consumer or the
GC: they read and write nothing in common. The counts are run twice. `totals`
(2 subscribers, 3 numbers, 1 lost message or crash) decides on the webhook at
once, which no step that changes a count or a total reads; `ends` (1 subscriber
on each node, 5 numbers, no fault) tells the subscribers at once, which no step
that decides on the webhook reads, and lets one change be followed by the next
until the leave that finds the fleet at rest.

`node`: cache channel with 2 clients, 3 allocations, 2 events, requests of one
or two events of which the second may name another channel; connections with a
quota of 1, a queue of 1, 2 connections from different origins and tables that
change the key or the origins (`MaxAttempts = 0`: the rate limiter answers every
frame with an error, its window is exercised in `pipeline`); pings after 2
periods and a grace of 2; 2 queries, 2 peers and 1 user who moves once; 2
requests and 1 connection that publish through a queue of 1, a staging buffer of
2 and batches of 2; 2 webhook events, one for two targets, one for none, 1 slot,
1 retry at a time, 3 tries.

`pipeline`: the same parts with 1 request, 1 connection that is limited to one
frame, 2 tries, and the subscriber with 2 failed pings, 2 retained messages, a
backoff of at most 4 and 5 messages.

Because of the bounds the system may come to rest, so the runs added for the
fleet and the node do not check for deadlock; that nothing is stuck is what the
liveness properties of `presence_live` and `pipeline` say.

### Fairness

`presence_live`. A task inside a handler goes on: tokio runs every ready task,
`parking_lot` mutexes are eventually fair, and waiters of a `DashMap` shard are
parked and woken. Strong fairness says that a task waiting for a lock that
becomes free again and again gets it. Strong fairness of `Kick` is the random
choice of `tokio::select!` among its ready branches.

`pipeline`. Timers fire and ready tasks run (weak fairness of the forwarder, the
publisher, the drain loop, the maintenance, the watchdog and the watcher of the
restart file). Strong fairness of
the branches of the select loop again stands for its random choice; a slot that
is freed goes to a waiter because `tokio`'s semaphore is a queue. A request to a
webhook target ends, because it has a timeout. `ForceReconnection` is tried
again and again, and strong fairness says that Redis accepts it in the end.
Nothing is assumed of clients and peers: no frame, message or answer ever has
to come.

## What is proved

Every safety property of the passing runs but two, `ExactlyOneReports` and
`VacatedOnce`, is a theorem: for every value of the constants that satisfies the
assumptions named here, and with the bounds of the runs (events, sequence
numbers, faults, moves) arbitrary. The assumptions say that sets are finite where
the code counts them, that markers such as `None` are not members, and that
capacities are positive where the configuration or a channel's constructor
requires it.

| module | assumptions | theorems (the property, where the name differs) |
| --- | --- | --- |
| `PresenceChannelProofs` | `ConstantsAreSane`; for the cap also `Peers = {}` | `TypeCorrect`, `MembersNeverStranded`, `SubscriptionsCorrect`, `EmptyChannelsAreReaped`, `BusCorrect` (`BusMatchesMembership`), `ChannelImplementsRoom` (the refinement), `RosterAlwaysMatches` (`RosterMatchesStream`), `CapNeverExceeded` (`CapRespected`) |
| `FleetProofs` | `NodesAreOrdered` | `CacheAlwaysExact` (`CacheIsExact`), `ViewsAreTheFleet` (`ViewIsFleet`) |
| `CountProofs` | `ServersAreOrdered` | `CountsConverge` (`CountsAreExact`), `TotalsAreShown` (`SubscribersSeeTotal`) |
| `UserSessionsProofs` | `UserConstants` | `PeersAlwaysKnow` (`PeersKnowSessions`), `WatchesAlwaysMatch` (`WatchesMatchSessions`), `WatchersAlwaysKnow` (`WatchersKnow`) |
| `NodeProofs` | `ConnectionConstants`, `KeepaliveConstants`, `QueryConstants`, `CacheConstants` | `QuotaNeverExceeded`, `ReloadLeavesNoRevoked`, `NeverClosedUnasked` (`StaleWasPinged`), `AnswersAlwaysCurrent`, `EarlyAnswersComplete`, `EventsAreKept` (`KeptForLateSubscribers`), `NoSubscriberMissesEvent` (`SubscribersAreCurrent`), `MissesReportedOnce` |
| `PipelineProofs` | `WebhookConstants`, `PublisherConstants` | `CountersNeverLeak` (`SlotsAndCountersBalance`), `DrainLosesNothing` (`PendingIsHonest`), `PublishesInOrder`, `AnsweredArePublished` |

Where a property excludes a situation by a history variable, the theorem has the
same exclusion; *Findings and observations* says what it is.

None of these properties is inductive by itself. What each inductive invariant
adds, and why it is needed:

**Presence on one node** (`IInv`), in layers:

1. `SocketInv`, `BackgroundInv`: what each task knows at each point, above all
   that a joining task refers to the channel the map holds;
2. `EntryInv`, `TransInv`: both locks are held exactly in the code they protect;
3. `MemberInv`: every member is a member of the map's channel, and a member
   that its connection does not list is one that is joining or leaving;
4. `RefInv`: `user_refcounts` counts the member sockets of each user, so that
   "count was 0" and "count was 1" mean first and last socket;
5. `PendingInv`, `BusInv`: the bus differs from the membership only by a change
   that a task inside the transition lock has made and not yet published.

Why nobody is stranded: the map drops a channel only when it is empty and its
entry is free, a joining task holds the entry, and so what it joins is what the
map holds. `IInv` is `CoreInv`, all layers but the counts, and `RefInv`. The
handlers use the counts only to see whether a socket is its user's first or last
(`CountInv`, lemma `FirstAndLast`), so cardinalities appear in one place.
`Keeps(A)` says that a step of kind `A` preserves `CoreInv`; there is one such
lemma per action, or per pair of like actions, and `IInvNext` puts them together.

**Rosters** (`RosterInv`, with a lemma per action in `PresenceRosterProofs`,
which rest on `CoreInv` and `CountInv`). A client's roster is what it was sent
followed by its queue, and between two steps it may well be wrong. `Up` and
`Down` say by how much: a user who is present and unknown to a client is in a
frame that the holder of the transition lock has still to broadcast (`Coming`),
and a user who is known and absent is in such a frame (`Going`) or was dropped
by a GC pass that has not looked them up yet (`Excused`). A joiner acts on what
`admit` read: `ReadInv` says that this stays true as long as it holds the lock,
and it will not announce a user that it found on a peer, so the others must know
that user although a GC pass, which takes no lock to drop a roster, may have
removed the entry meanwhile (`Kept`). `DiffInv` says that the frames left of a
snapshot are still right. All of it rests on the lock being of the map's
channel; the tasks that hold another one reach nobody (`BroadcastElsewhere`).

**The cap** (`CapInv`). Between `admit` and the subscription the joiner holds the
map entry, so nobody else can come in (`OneJoiner`), and what fitted still fits.
The theorem is about a node without peers: `admit` always lets in a user that a
peer has, so with peers the cap is not a bound on this node's users.

**The fleet** (`FleetInv`). For each pair of nodes, `Pair` speaks of the
messages on their way and the one in the peer's hand, the number applied last,
the one missed last, the entry of the cache and the snapshot under way. The
message that counts for a user is the last one on its way that `accept_seq` will
let through and that speaks of the user: it tells the truth, or there is none
and the cache does, unless something was lost since. A snapshot that took its
number and has read the roster is right unless a live message with a higher
number follows; one with a lower number, still in the hand when the snapshot
goes out, is silenced by it, and the snapshot has read what that message says
(`PairInsert`). `ViewInv` then relates each client to its node's roster and its
unexpired cache. `blind` was corrected in the course of this proof: a GC pass
forgets only those blind users whom nobody has any more. The earlier model
forgot all of them, and the invariant failed just beyond the bounds of the run.

**Counts** (`CountInv`). The same argument with one number in place of a set
(`Takes`, `Final`), over the messages on their way followed by the one in the
outbox, and for what the subscribers were told: it is the sum, unless
a task that changed the sum has still to tell them, or `crossed`.

**Sessions** (`UserInv`). The mutex of a user lives in a map only while somebody
refers to it. `LockInv` says that all who refer to a user's mutex refer to the
same one and that it excludes; from this `DecisionInv`, that what a task decided
about a user is so until it has told, and `TruthInv` about the watchers.

**Connections** (`ConnInv`). `Books` says between which steps the registry and
the tracker know a connection; `InOrder` that an upgrade under way has read the
live table (or is in `straddled`), and that a served connection which the table
no longer allows has been told to close or is owed it by the reload under way.
The quota follows from one observation (`OnlyRegistrationServes`): what is served
is in the registry, and only a registration that has counted the registry,
itself included, adds to it. `TrySendTells` says that `try_send` of a close frame
leaves a frame or a kick and never takes one back.

**Keepalive** (`KeepInv`). `UnpingedIsRecent`: a client not pinged since its last
frame has been silent for one period beyond the interval at most. It needs a
grace of at least two maintenance periods, which is what `PONG_GRACE_SECONDS` is.

**Queries** (`QueryInv`). Each answer, on its way, in an inbox or merged, has
only users who were on its node while the query ran, and all who stayed; a query
that has as many answers as it expected has one of each peer it counted.

**Cache channels** (`CacheInv`). Who refers to which allocation, and that the
subscribed and the joining are members of the map's channel (`MembersAreInMap`);
what a lone publisher has sent and not yet stored has reached every subscriber
(`SentReachesMembers`), and a client that joins while nothing is published finds
the current event (`JoinersFindCurrent`). `MissIsRemembered` ties the number of
cache_miss webhooks to the claim in the map's channel: it can only be lost with
the channel, and then `recreated` says so.

**Webhooks** (`HookInv`). An event is in one place at a time: queue, staging
buffer, forwarder, drain loop or a delivery (`OnePlace`), and each counter counts
its place. `ZerosRead` says what each of the four terms of `pending()` that were
already read as zero still implies, because events move in one direction only.

**Publisher** (`PubInv`). `Line` is what Redis has, followed by the batch, the
queue, the envelope in the forwarder's hands and the staging buffer. Each step
moves the head of one part to the end of the part before it, or drops something,
so `Line` stays in the order in which envelopes were accepted (`Follows`). For
the shutdown, `DrainInv` says where no answered envelope is once
`drain_outbound` has read a zero. The publisher hands over a batch element by
element, in the order in which `join_all` polls it.

Only model-checked:

* liveness (`HandlersFinish`, `KickedSocketLeaves`, `EnqueuedLeaves`,
  `EventsSettle`, `SilentClientIsClosed`, `CloseIsCarriedOut`, `DrainClosesAll`,
  `NeverStaysDeaf`): fairness and `ENABLED` are out of the prover's reach;
* `ExactlyOneReports` and `VacatedOnce`: they are true of two nodes and not of
  three (see (d)), so there is nothing to state for every number of nodes;
* `BusSubscription`, of which only liveness is checked.

## Findings and observations

Each finding is a run in which TLC violates what a comment, a test or the
documentation says:

1. `late_leave` (`manager.rs:233`): the map may drop an empty channel while the
   last leaver is still inside its lock, about to publish `member_removed`. A
   rejoin gets a new channel with a new lock and publishes `member_added` first.
   The regression test in `handler.rs` says that "the last presence message on
   the bus must always match the final membership". `BusMatchesMembership`
   excludes exactly the users in `late` and is proved.
2. `missed_update` (`dispatcher.rs:1146`, also 1194 and 1336): the channel is
   looked up before the lock; if there is none, the update is applied with no
   lock. A joiner may have read the cache before and become a member after, and
   never hears of the update, against the comment in `handle_subscribe`.
3. `crash_report` (`tasks.rs:109`): the GC looks for a local channel before it
   decides who reports the end. When the node with the last members crashes and
   no survivor has a subscriber of its own, nobody reports `member_removed` or
   `channel_vacated`, although the comment there says that "one surviving node
   reports the fleet-wide transition".
4. `unreported` (`dispatcher.rs:848`): two nodes lose a user at the same moment
   and both withhold the webhook. One of them has drawn the number of its leave
   and not yet queued it when its snapshot task draws a later number, reads the
   roster, which still has another user, and is queued first. The peer applies
   the snapshot and drops the leave as too old, with the flag that would have
   made it report. Nobody reports, although the comment in `leave_channel`
   (`handler.rs:539`) says that "the flags on the bus let exactly one of them
   report it". `ExactlyOneReports` says what is kept: when the fleet was at rest
   (`calm`) and no flag was dropped in this way (`slipped`), there is exactly
   one report, however the leaves interleave.
5. `second_miss` (`channel.rs:64`): the claim of the cache_miss webhook is kept in
   the channel object. A client that missed and left took the empty channel with
   it, and the next one gets a new channel and a second webhook, within the same
   empty period and the same interval. The repository's README says "once per
   channel per empty period". `MissIsReportedOnce` excludes exactly this
   (`recreated`) and is proved.

`RosterMatchesStream` excludes exactly the sockets in `tainted`: those of 2, and
those that rejoined while frames of their earlier membership were in the outbound
queue, which the reply with the roster overtakes (`handler.rs:456`).

Other races that the models reach and that a property excludes by a history
variable or a premise, so that it says what the code does keep:

* (a) A lost bus message can take a withheld report with it
  (`dispatcher.rs:1226`): `ExactlyOneReports` has the premise that nothing was
  lost. Without `calm` it would also be false: a note is not tied to the end it
  was withheld for (`dispatcher.rs:379`). Two nodes leave and both withhold; the
  higher one rejoins, hears of the other's leave, leaves again and reports; its
  first leave is still on the bus, and the lower node, which applies it and finds
  nobody and its old note, reports the same end again.
* (b) Between a roster's TTL and the GC pass an entry counts for nothing but is
  still there (`presence_cache.rs:153`, likewise for sessions): users decided on
  in this window are in `blind`.
* (c) Sign-in reads which watched users are online outside their mutexes
  (`handler.rs:678`), so its list may follow a newer event: `misled`.
* (d) With three nodes, two that withheld can both report, since the tie-break
  is between pairs; the fleet run has two.
* (e) Totals are broadcast after the lock under which they were read, or with
  none: `crossed`. The check and the claim of a withheld `channel_vacated`
  (`dispatcher.rs:1254`) hold no lock either, nor does the snapshot. `VacatedOnce`
  has the premises of `ExactlyOneReports` and leaves out three orders of steps: a
  snapshot overtakes the count that has the flag, so that nobody reports (as in
  4); the flag arrives after `occupied_on_peers` was read and before
  `note_withheld`, so that nobody reports; a snapshot is captured between a leave
  and its `occupied_on_peers`, so that both nodes find the channel empty and both
  report. The second and the third cannot happen to a presence channel, whose
  messages are applied under the transition lock.
* (f) A publisher sends to the members and stores the payload afterwards, with no
  lock (`CacheChannel`): two that overlap may store in the other order
  (`crossing`), a subscriber in between may get neither (`overlap`), and the GC
  may drop the channel just before the payload is stored (`lost`).
* (g) An upgrade that read the old apps table and is not yet registered when the
  table is replaced and the reload applied stays open: `straddled`.
* (h) The shutdown's poll can fall between the publisher's receive and the store
  of its counter (`inHand`); `pending()` has a window of the same kind, and
  reads the queue before the staging counter (`slipped`). Publications of
  connections that end during the shutdown are not waited for.
* (i) A peer that the asking node had not heard of yet can answer a fleet query
  and be counted in place of an expected one; `EarlyAnswerIsComplete` is about
  the peers that were counted.

## Not modelled

* Wire format, parsing, signatures, TLS, the metrics
  exporter: stateless, or they replace one value; messages are abstract values.
  Requests that validation or authentication refuses change nothing.
* The Redis client and the HTTP client of webhooks: external; the models have
  what the code relies on (order per origin, possible loss, a request that
  succeeds, fails or times out).
* Read-only queries of a single node, and start-up, which is sequential. One
  thing is lost with it: an edit of the configuration between its first load and
  the start of its watcher is not seen (`main.rs:462`).
* `gc_peer_sequences`, which forgets sequence numbers after four TTLs, when the
  state that they protect is long gone; envelopes of a future version, which
  are dropped.
* Composition of all parts in one state space: out of TLC's reach. Where two
  parts meet, each models the other's messages as inputs at any time;
  `PresenceChannel` and `FleetPresence` overlap on purpose, the first with every
  lock and one node, the second with several nodes and one step per lock.
