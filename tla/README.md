# Execution gateway: TLA+ specifications and proofs

The gateway (`src/src`, NestJS, one Node process) sits between *execution
engines* (agents beside a trading terminal, and *managers* that run several of
them), the *Signal Engine* that produces trading signals, the *dashboards* that
watch, and Supabase, which holds licenses, devices, credentials, sessions and
commands. Its own state is in memory; most of what can go wrong is in the order
in which socket events, answers of the database and timers reach it.

This directory holds TLA+ modules for that core, TLC configurations that check
them on small instances, and proofs checked by TLAPS for every value of the
constants. A handler runs alone up to its next `await`: that is the grain of
all the actions.

## Inventory

| Component (source) | State | Operations | What is hard | What makes it correct |
|---|---|---|---|---|
| Engine gateway (`engine-connections/engine.gateway.ts`) | none of its own; locals of handlers across `await` | connect, hello, activate, heartbeat, subscribe, unsubscribe, manager snapshot, events, command acknowledgements, disconnect, device release | an activation awaits the license store, the session store and the credential store; the socket may leave, be replaced or say hello again meanwhile | a late answer never revives, misattributes or duplicates a connection |
| Connection registry (`connection-registry.service.ts`) | `connections`, `byEngineId` | add, identify, authorize, setSessionId, remove, sweepStale, sendToEngine | table and index are two maps, changed at different times, with several sockets per engine id | the index leads to the one live licensed connection of an id |
| Room registry (`rooms/`) | symbol -> engine id -> (socket, expiry) | join, leave, renew, evictExpired | an old socket's departure races the new one's membership | members are connected sockets; nobody is removed by another's departure |
| Engine registry (`engine-registry.service.ts`) | health entry of each engine | register, heartbeat, markOffline, sweep, findByBroker | entries outlive connections | an engine that left is not shown online |
| Sessions (`engine-session.service.ts`) | rows in the database | open, touch, close | opened asynchronously for a socket that may be gone | one session for one connection |
| Signal Engine subscriber (`signal-engine/`) | desired and sent subscriptions, socket, timer | rooms changed, demand changed, open, close, reconnect, shutdown, routeSignal | differences are sent over a connection that comes and goes | the Signal Engine is subscribed to exactly the rooms there are |
| Dashboards (`dashboard-connections/`) | who watches what, event buffers | authenticate, subscribe, unsubscribe, broadcast, evict, disconnect | demand must be told to engines whichever side connects first, with an ownership check in flight | metrics are asked for as long as, and no longer than, somebody watches |
| Licensing (`licensing/`) | rows in the database | activate, verify and rotate credentials, issue and revoke keys, release devices | store and live connections are two sources of truth | no live connection without a grant |
| Remote commands (`commands/`, `admin/`) | rows in the database | create, deliver, acknowledge, complete, fail, expire | delivery, answer and expiry race | a final status is final |
| Payment webhooks (`webhooks/`) | rows in the database | charge, subscription, invoice, refund events | duplicated, reordered, retried events; crash between two writes | one active license per subscription, its key delivered |
| Rate limits (`common/rate-limit/`) | sliding windows | check, remaining, sweep | checks before an await, counts after it | a limit is a limit |
| Billing, protocol validation, configuration, health endpoint, bootstrap | a price cache | - | - | no state that the rest depends on |

`PROJECT.json` lists the hazards of each at their lines.

## Modules

| Module | Models | Uses |
|---|---|---|
| `Identifiers` | the constants: sockets, engine ids, symbols, sessions | |
| `ConnectionRegistry` | `ConnectionRegistryService`: each method as an operator on values of table and index | `Identifiers` |
| `RoomRegistry` | `RoomRegistryService` in the same form | `ConnectionRegistry` |
| `EngineGateway` | the handlers and timers that compose them, with the engine registry's health and the session store | `RoomRegistry`, `EngineSpeaker` |
| `EngineSpeaker` | abstract specification: at most one connection speaks for an engine id | |
| `SymbolRooms` | abstract specification: which engines are in which room, shared by `EngineGateway` and `SignalFeed` | |
| `MCEngineGateway` | symmetry for TLC | `EngineGateway` |
| `EngineGatewayProofs` | the theorems about `EngineGateway` | `SymbolRooms`, TLAPS |
| `SignalNames` | the engine ids that both halves of the Signal Engine subscriber share | |
| `SignalFeed` | `SignalEngineSubscriberService` against the set of rooms, with the Signal Engine as its environment | `SignalNames` |
| `SignalFeedProofs` | the theorems about `SignalFeed` and `SignalRouting` | `SymbolRooms`, TLAPS |
| `MetricDemand`, `MCMetricDemand` | dashboards, their users and subscriptions, and the demand told to engines and Signal Engine | |
| `MetricDemandProofs` | the theorems about it | TLAPS |
| `SignalRouting`, `MCSignalRouting` | the engine registry's entries, `findByBroker` and `routeSignal` for one broker and symbol | `SignalNames` |
| `RemoteCommands` | `RemoteCommandService` with both callers, the engine and the rows of the database | `CommandLife` |
| `CommandLife` | abstract specification: a command is sent once or never and acted on at most once | |
| `RemoteCommandsProofs` | the theorems about `RemoteCommands`, its refinement among them | TLAPS |
| `PaymentWebhooks`, `MCPaymentWebhooks` | `WebhookService`, with the keys issued and revoked and the licenses patched by hand: handlers, users and licenses | |
| `PaymentWebhooksProofs` | the theorems about it | TLAPS |
| `DeviceCredentials`, `MCDeviceCredentials` | the credential of one engine's device, its rotation and the release of the device, between `LicenseService`, gateway and engine | |
| `DeviceCredentialsProofs` | the theorems about it | TLAPS |
| `RateLimits` | `RateLimitService` as operators on a bucket | |
| `ActivationLimits` | the two limits on activation, around its await | `RateLimits` |
| `ActivationLimitsProofs` | the theorems about it, and the lemmas about the filter of a bucket | TLAPS |
| `Lifetimes` | a clock, the three sweeps and everything of one engine they end: connection, license, room membership, registry entry | |
| `LifetimesProofs` | the theorems about it | TLAPS |

### How state and actions correspond to the code

`conn[s]` is the `EngineConnection` of socket `s`, `live` telling whether it is
in the `Map`. `licenseId` and `engineDeviceId` are written together and appear
as `licensedFor`, the engine id the activation was made for: what matters is
for whom the license was granted. `byEngineId` is the index. `member[y][e]` is the socket
with which `e` is in the room of `y`. `health` has "up" for the online, stale and
error grades, which only a clock or a payload tells apart. `openSessions` is
what the session store holds open.

A registry method never awaits, and handlers call several in a row; so methods
are operators and `Retire`, for instance, is all that `handleDisconnect` and
`retireSocket` do: leave the rooms, take the engine offline if the connection
is the current one, close the session, remove the entry. `closeSession` does not await the store.
A socket that `retireSocket` has closed emits 'close' nevertheless: `Disconnect` may come for
a socket that is in the table no more, or never was.

`call[h]` is a handler in one of its awaits: "granting" (the license store),
"opening" (the session store), "crediting" (the credential store). It keeps the
socket and the engine id, as the code's locals do. Each continuation is an
action (`Granted`, `SessionOpened`, ...), with `Refused` and `SessionNotOpened`
for failures; a socket's name is reused only when nothing refers to it.

Abstractions that every module shares:

- *Time.* But for `Lifetimes` and `ActivationLimits`, whose subject it is, a
  comparison of `Date.now()` with a timestamp may go either way: any connection
  may be found stale, any membership expired. What these modules show holds
  for any timing.
- *External stores* answer what they like, or fail; their delay is an `await`.
- *Rejections without effect* (schema errors, rate limits, account metadata that do not match) are
  left out: the handler that returns early is the step not taken. The branch of
  `activate` for a grant without device id is left out too: both producers of
  a grant fill it in.
- *Roamers.* The code lets a connection say hello under several ids until it
  holds a license; the shipped engines keep to one. Sockets in `Roamers` use
  that freedom, the others do not. Only `MembersAreConnected` needs the
  distinction: a second hello leaves the rooms joined under the first id.
- `SignalFeed` keeps engine ids of room members only; a frame in `wire` is on its way.
  A connection that is not OPEN any more but has not emitted 'close' is "lost".
  What the frames on their way come to is what the last of them that speaks of a symbol, or
  of the metrics, says of it.
- In `MetricDemand`, `told[e]` is what the current connection of an engine was
  last told. `asks` holds the questions put to `userOwnsEngine`: the socket, the user, the
  engine to watch, and the one asked about, which is `parent[e]` if the registry's
  entry names one (dashboard.gateway.ts:173-178). Any licensed manager's snapshot sets it,
  about any engine, and nothing clears it. `dropped`, `owner`, `through`, `switched` and
  `reported` are auxiliary: demand that disappeared with an evicted dashboard, the user and
  the engine of the check behind a watch, whether the socket authenticated as one user and
  then as another, and which managers ever reported which engines.
- In `SignalRouting` an entry keeps what a signal for one broker sees of it: whether its
  source key is the broker, whether its server name contains it, and its health,
  with "degraded" for stale and error. `order` is the insertion order of the `Map`.
  The proofs extend it together with `SignalFeed`, so its specification is called `RoutingSpec`.
  A signal is no action: `Route` is who may receive one that arrives in the
  present state, so an invariant about `Route` is about a signal at any time.
- In `RemoteCommands` `row[c]` is the status in the database and `writes` the
  updates on their way to it. Nobody awaits them, so they land in any order or
  fail. `update_command_status` and `expire_stale_commands` are functions of the
  database and not in the repository: the first may keep a final status or
  replace it, the second is taken to expire a command that is pending or
  delivered when its time is over.
- In `PaymentWebhooks` `task[h]` is a handler and the await it is in. The user a
  delivery is for is the one with its email. (`resolveUserId` leaves that to a
  `filter` argument of `listUsers`, whose effect is the library's.) Of
  the ids a reactivation returns the code takes the first; whether `limit(1)`
  restricts the update or only its answer is the database's, so either happens.
  The database function that issues a key may or may not make the license active.
  `raced`, `doubled` and `unissued` are auxiliary: customers for whom the guard against
  duplicates was passed by two handlers together or unread, customers of whom a license became active
  again beside or together with another, and active licenses left without a key. The first
  two are forgotten when a suspension leaves the customer no license active or about to be.
- `DeviceCredentials` splits a request to the store in two, the moment it takes
  effect and its answer: between them the socket, another activation or a
  release may get in. It is about one engine and its device, so the index
  is one variable, `current`; that a connection counts at most once is
  `EngineSpeaker`. `crossed`, `astray` and `outlived` are auxiliary.
- In `ActivationLimits` a bucket is the sequence of its timestamps. `admitted`,
  `counted` and `excess` are auxiliary: the same events, and the failures that the
  full bucket did not take, kept for a window whatever the service prunes or sweeps.
  The service's `filter` is written out as a recursive function (`After`).
- In `Lifetimes` a timestamp is its distance from the present, which `Tick` moves
  on by a unit of 15 s. A timer runs in the unit it is due in, at any place
  among the messages of that unit. One engine and one connection at a time are enough: nothing
  that a clock ends depends on another engine, and a replaced connection
  leaves everything in one step (`ReplacementIsClean`). `beat` counts from
  the connection's start or last heartbeat that came before the license expired;
  `unheard` from the last moment a connection, an activation under way or a manager
  could speak for the engine.

## What the runs check

| Run | Instance | Result |
|---|---|---|
| `gateway` | 2 sockets (one roams), 2 engine ids (one a manager's), 1 symbol, 2 sessions, 2 suspended handlers | 5 invariants and 6 action properties hold, the refinement of `EngineSpeaker` among them; about 229,000 states |
| `feed` | 2 engines, 2 symbols, at most 2 frames on their way when rooms or demand change | 2 invariants, an action property and liveness hold; about 16,000 states |
| `demand` | 2 dashboards, 2 users, an engine and a manager, an ownership check in flight | 4 invariants hold; about 1,416,000 states |
| `routing` | 2 engines, 1 manager | 2 invariants hold; about 45,000 states |
| `commands` | 2 commands to one engine | 3 invariants, the refinement of `CommandLife` and liveness hold; about 7,600 states |
| `payments` | 2 customers, 3 licenses, 2 handlers | 3 invariants hold; about 803,000 states |
| `limits` | 2 addresses, 1 key, 2 attempts at a time, windows of 3 units, a clock of 6 | 3 invariants hold; about 930,000 states |
| `credentials` | 2 connections, 2 activations at a time, 4 names for credentials | 3 invariants hold; about 31,000 states |
| `lifetimes` | units of 15 s, the configured intervals but for two | 4 invariants and an action property hold; about 2,460,000 states |
| `takeover` | 2 sockets, 2 ids, 1 handler | finds a connection taking over an id with a license granted for another |
| `feed_hung` | 1 engine, 1 symbol | finds a Signal Engine that hangs and is never disconnected |
| `payments_duplicate` | 1 customer, 2 handlers | finds two licenses provisioned for one purchase |

*Gateway.* Two connections are what every hazard of the table and its index
needs: the one that holds an id and the one that takes it over. Two engine ids
let a connection change its id between an await and its answer, and two
handlers let two activations of one socket, or of two sockets, overlap at every
pair of awaits. A third connection or handler adds no relation that the
properties, all about a pair, could tell apart; for the sizes beyond, there are
the proofs.

*Feed.* Two rooms are needed for one frame to carry an addition while another
carries a removal. The bound on the wire only stops rooms and demand from changing while frames
pile up; the connection itself may be lost at any time. Deadlock is not
checked because the service may be shut down.

*Demand.* Two dashboards on one engine show that the first to leave does not
end the demand of the other; two engines show a dashboard that turns from one
to the other, and one of them a manager that reports the other, or itself, while a check is
under way; two users a socket that authenticates as somebody else while ownership is looked
up for the first. One check in flight is enough for TLC, since its answer is handled in one step
and touches the entry of one dashboard; the theorems are for any number. `WatchersOwn` holds of the
socket's own answers: a socket that switched users keeps what it watched. And it says no
more of the engine than the code asks: the user owns it, or owns a manager that has
reported it, whether or not that is its parent by the time of the answer, or later.

*Routing.* Two engines and a manager give every pair of a stale or offline match
and an online one, in either order, with and without a manager to fall back on.
`OnlyKeyHolderServed` is what holds of the promise that the online
match is found: it is true of matches by source key, not by server name.

*Commands.* One command shows every race between its note of delivery, its
report and its expiry; two show that a connection carries one while the other is being
created. A report may be repeated without bound. `ActedOnOnce` maps wire,
engine and answers to one value per command and says that it moves as
`CommandLife` allows.

*Payments.* Two handlers are what a race takes, and three licenses allow two for one
customer beside one of the other, or all for one. Deliveries are unbounded: any event may come
again at any time, and so may the requests by hand. The invariants hold with failing reads and crashes included;
`DuplicatesAccounted` says that overlapping handlers, an unread guard and a license that
becomes active again beside or together with another are the only ways to a second active license.
Deliveries that only provision, handled in turn and with the guard read, never give one;
deliveries of every kind, handled in turn, can: create, disable, create and enable do, and the
third way is there for them. `KeylessAccounted` leaves three ways to an active license without a key: the
handler that was to issue it failed or died; it was reactivated together with the one that got the
key; it was suspended, which clears the key, and made active by hand, which does not restore it.

*Limits.* The clock runs for two windows, so that a window slides over a full bucket and
out of it, and hits lie on both of its edges. A sweep may come at any time and its
age equals the window, the shortest the code allows: the longest window used
is the hour for which buckets are kept. Two attempts at a time are the least that overlap;
the bound of `FailuresBounded` grows with their number, and this instance reaches it.

*Credentials.* Two activations let one rotation overtake another and two connections
let an answer belong to a connection that was replaced. The store may refuse or
fail anything, and a name of a credential is used again only when nothing refers to it;
four names are as many as can be referred to at once.

*Lifetimes.* 15 s divides every interval and limit of the default configuration
but two: the registry sweeps every 10 s (15 here, the worse case for an entry that is
stale or silent) and rooms last an hour (75 s here: longer than a heartbeat's interval and
shorter than the silence a connection is given, so that rooms do expire).
Licenses run out at once, in a unit, in a minute or never; an
engine asks for the least time the schema allows or names none. Two of its
properties have a margin of one unit and no more: an entry may be online for
StaleAfter and an interval, and a punctual engine's heartbeat comes within
StaleAfter. Durations are counted up to `Horizon`, which is above all limits that a property
compares one with (9 units here; the assumption on it says so for any configuration).

The three findings:

1. `authorize` (connection-registry.service.ts:119) indexes a connection under
   the id it has when the store answers. After `activation.request` as one
   engine and `engine.hello` as another the connection replaces the live
   connection of the second with the license of the first. The comment at line
   37 rules out a replacement without authorization.
2. `startPing` (signal-engine-subscriber.service.ts:325-333) expects the ws
   library to terminate a socket whose pongs stop. The library does not, and
   neither does the code.
3. The guard against a second license (webhook.service.ts:236-250) reads, awaits and
   then inserts: two events for one purchase that are handled at a time both pass.

Observations that the models contain, or that bound what a property says,
without a run of their own:

- `room.subscribe` (engine.gateway.ts:552) does not act on `authorizationErrors`,
  so a connection that has only said hello takes the licensed one's place in
  its rooms. `MembershipKept` therefore excepts another connection of the same engine.
- `markDelivered` (remote-command.service.ts:149) writes whatever the status is:
  a command that has completed may become "delivered" again, and then expired.
  `RecordSettles` therefore says that a status comes to be final, not that the first final one stays.
- `findByBroker` (engine-registry.service.ts:199-230) returns an offline entry
  whose source key matches although an online engine matches by server name.
- A second activation on a connection takes a new session and leaves the old one
  open (`SessionsClosed` excepts it).
- Attempts with one key that overlap may fail more often than the limit that
  engine.gateway.ts:38 states; `FailuresBounded` says by how much.
- The registry calls an engine stale that is heard of every 30 s exactly
  (`>=`, and both are 30 s): `BeatingIsNotStale` needs a heartbeat that is early.
- The shortest membership an engine may ask for, 30 s, is the interval of its heartbeats, and
  renewal comes with the heartbeat: `BeatingKeepsRoom` needs one that is early, against
  "rooms never expire for active engines" (room-registry.service.ts:69).
- A release that is answered late retires the engine's current connection even if that was
  activated after the release took effect.
- license.service.ts:230 and license.controller.ts:90 say that sessions remain
  until the heartbeat sweep after a key is revoked. The sweep looks at silence and at the expiry
  the connection was granted with; a revocation that leaves that expiry alone ends nothing (`ConnectionsEnd`).
- subscription.enable makes every suspended license of its customer active, whoever
  suspended it, and does not ask whether one is active already (webhook.service.ts:401-411); neither
  does patchLicense, which may also make a license active that has lost its key
  (webhook.service.ts:373, admin.controller.ts:282-309).
- Who may watch an engine is the owner of its parent, if it has one (dashboard.gateway.ts:173-178).
  The parent is what any licensed manager's snapshot last said of that engine id
  (engine.gateway.ts:470-516), is read before the await, and is not looked at again.
- A session that the store opens after its connection has gone is attached to nothing and
  stays open. `SessionsClosed` speaks of sessions that a connection had.
- A send that fails evicts a dashboard and tells nobody (dashboard-connection-registry.service.ts:138):
  `EngineKnowsDemand` and `SignalEngineKnowsDemand` except the demand it leaves behind.

## Fairness

`SignalFeed` and `RemoteCommands` state liveness. In `SignalFeed`, weak fairness is assumed of

- `Closed`: ws emits 'close' for every socket that ends;
- `Reconnect`: a timer that is set fires;
- `Opened`: an attempt to connect ends, in 'open' unless `Lost` comes first;
- `Reads`: a Signal Engine that does not hang reads its socket.

Nothing is assumed of rooms, demand or losses. `FeedRestored` is conditional on
the losses ending and the Signal Engine not hanging for ever: with endless
losses no gateway could serve. A symbol is promised service only if its room
lasts, metrics only if the demand does.

In `RemoteCommands`, weak fairness is assumed of `SweepExpired`, because the
sweep runs every minute (remote-command.service.ts:41-45) and a command is overdue after
30 seconds, and of the end of a note of delivery, which lands or fails. Neither
the engine nor its connection need do anything: `RecordSettles` says that no
record stays open for want of an answer.

## What is proved

Every safety property that a run finds to hold is also a theorem, for every value of the
constants: any sets of sockets, engines, symbols, sessions, handlers, dashboards, users,
commands, licenses or addresses, infinite ones too unless said otherwise, and any
limits and intervals. The bounds that stop TLC (`MaxWire`, `MaxAsks`, `MaxNow`, `Horizon`) are
constants like any other.
Assumed are the `ASSUME`s of the modules and no more: `None` is in none of the sets; managers
are engines; licenses and handlers of the limits are finite sets, the latter not empty; intervals and limits are positive;
a bucket is kept no shorter than the longest window; memberships last longer than the interval
of heartbeats by default, and no shorter one may be asked for; `Horizon` exceeds the limits.
TLC evaluates all of them.

An invariant here is seldom inductive; the strengthenings were checked with TLC before they were proved.

### Gateway (`EngineGatewayProofs`)

| Theorem | Property |
|---|---|
| `TypeCorrect` | `TypeOK` |
| `HandlersIdentified` | `CallsIdentified`, which no run lists: the others rest on it |
| `IndexIsConsistent` | `IndexConsistent` |
| `OneLicensedConnection` | `LicensedIsCurrent` |
| `SessionsAreExclusive` | `SessionsExclusive` |
| `RoomsHoldConnectedSockets` | `MembersAreConnected` |
| `ReplacementRetiresCleanly` | `ReplacementIsClean` |
| `LossTakesOffline` | `LossMarksOffline` |
| `OnlyLossTakesOffline` | `OnlyLossMarksOffline` |
| `SessionsAreClosed` | `SessionsClosed` |
| `MembershipsAreKept` | `MembershipKept` |
| `GatewayKeepsPromise` | `SpeaksForOne`, the refinement of `EngineSpeaker` |
| `GrantsAreOwn` | `GrantIsOwn`, stated with the proofs |
| `TakeoversHoldGrants` | `TakeoverHoldsGrant`, if no connection roams |
| `ReleasesMissNone` | `ReleaseMissesNone`, stated with the proofs |
| `GatewayMovesRooms` | the refinement of `SymbolRooms` |

The inductive invariant is built in layers, each inductive together with those
before it:

1. `TypeInv`: `TypeOK` and `CallsIdentified`. Types alone are not inductive: a
   continuation writes to the socket and engine id its handler kept, so what
   `call` holds must be known.
2. `IndexInv`: `IndexConsistent` and `LicensedIsCurrent`, over `TypeInv`. A
   handler that came back to a connection without engine id would license one
   that is not indexed (hence `CallsIdentified`); a replaced connection is found
   through the index, so no second licensed connection survives only if the index
   was consistent; and with a consistent index the departure of a socket takes
   away its own entry and no other (`RetireEffect`).
3. `SessionsExclusive` and `MembersAreConnected`, each over `TypeInv`.
4. `GrantIsOwn`, over `TypeInv`: a connection outside `Roamers` is licensed for the
   id it goes by or not at all, *and so is whatever its handlers await*. Without the
   second half it is not inductive: an answer of the store writes the id that its
   handler captured.

The last layer says how far the finding of the run `takeover` goes. `TakeoverHoldsGrant` is
the comment that the code does not keep; `TakeoversHoldGrants` proves it
for every number of connections and overlapping activations, on the one condition that no
connection changes its id. So the hole is the second hello, and no other
order of steps. The same division decides what a release reaches: `device_released` looks for the one current
connection of the engine id, and `ReleasesMissNone` says that this is
every connection with that license, again but for those that roam: one of these may
hold the license of the id it left, and goes on after that device was released.

The lemmas on `Retire`, `Authorize`, `Index` and `Granted` are stated once and cited by
the step of each action. The action properties and the refinement follow, step by step, from
the first two layers: `IndexMoves` says how the index can change, `TableSteps` which
steps write to the table or the rooms (`SessionsAreClosed` and `MembershipsAreKept` need
no more than `TypeInv` with it), and `PromiseStep` maps each step to `Connect`, `Leave` or `TakeOver` of
`EngineSpeaker`, or to a stutter.

### The other components

| Module | Theorem | Property |
|---|---|---|
| `SignalFeedProofs` | `FeedTypeCorrect` | `TypeOK` |
| | `OneSubscriber` | `SoleSubscriber` |
| | `FeedNeverStranded` | `NeverStranded` |
| | `FeedFollowsRooms` | `FeedMatchesRooms` |
| | `RoutingTypeCorrect` | `RoutingTypeOK` |
| | `KeyHolderIsServed` | `OnlyKeyHolderServed` |
| | `NoSignalAstray` | `NoStrangerServed`, stated with the proofs |
| | `FeedKeepsRooms`, `FeedHearsRooms` | the refinement of `SymbolRooms`, and its converse |
| `MetricDemandProofs` | `DemandTypeCorrect` | `TypeOK` |
| | `EnginesKnowDemand` | `EngineKnowsDemand` |
| | `SignalEngineAsked` | `SignalEngineKnowsDemand` |
| | `OwnersWatch` | `WatchersOwn` |
| `RemoteCommandsProofs` | `CommandsTypeCorrect` | `TypeOK` |
| | `UndeliveredNeverActs` | `OnlyDeliveredActs` |
| | `RecordsTellTheOutcome` | `RecordIsOutcome` |
| | `CommandsAreActedOnOnce` | `ActedOnOnce`, the refinement of `CommandLife` |
| | `RecordsReopenOnce` | `RecordReopensOnce`, stated with the proofs |
| `PaymentWebhooksProofs` | `PaymentsTypeCorrect` | `TypeOK` |
| | `TwoActiveExplained` | `DuplicatesAccounted` |
| | `PayingCustomersAreKeyed` | `KeylessAccounted` |
| `DeviceCredentialsProofs` | `CredentialsTypeCorrect` | `TypeOK` |
| | `HeldCredentialIsStored` | `HeldIsStored` |
| | `ReleaseRetires` | `ReleasedIsOut` |
| `ActivationLimitsProofs` | `LimitsTypeCorrect` | `TypeOK` |
| | `LimitsAreExact` | `WindowsExact` |
| | `FailuresAreBounded` | `FailuresBounded` |
| `LifetimesProofs` | `LifetimesTypeCorrect` | `TypeOK` |
| | `ConnectionsEndInTime` | `ConnectionsEnd` |
| | `UnheardGoesOffline` | `UnheardIsOffline` |
| | `BeatingEngineIsNotStale` | `BeatingIsNotStale` |
| | `BeatingEngineKeepsRoom` | `BeatingKeepsRoom` |

*Feed.* `SocketInv` (a timer is set exactly when the socket has closed and the service
runs, and a service that stops has let go of its socket) gives `SoleSubscriber`, and
`NeverStranded`, which is stated with the proofs: the safety half of `FeedRestored`.
`FeedMatchesRooms` compares rooms with what the Signal Engine will be subscribed to, and
no step relates the two directly: `SyncInv` says that what was desired is the rooms
and, while connected, what was subscribed is what was desired; `WireInv` that the frames on their way lead from what the Signal Engine
has to what was subscribed. A frame is put at one end and read at the other, so
`WireInv` is stated of a sequence of any length, by its last frame on a topic (`Settles`).

*Rooms, between gateway and feed.* `SignalFeed` has the rooms change as they like, and this is
what the gateway does to them: `GatewayMovesRooms` says that under `occupants`, the engine ids
of the members, every step of every handler and timer is one of `SymbolRooms` (one
engine joins, or some memberships end) or a stutter, and `FeedHearsRooms` that each of those, with the
listener notified, is a step of `SignalFeed`. So `FeedMatchesRooms` is true of the rooms
of the real gateway, a replacement, a sweep or a released device included. The one condition is the bound
on the wire, for which any number may be taken. Where one handler ends several memberships in
turn and each is announced, `SymbolRooms` has as many steps.

*Routing.* `FirstOfFinds`: a pass over the entries yields a member of the set it looks for,
if any is registered, for a sequence of entries of any length. Both properties follow from it and the
types: `KeyHolderIsServed`, and `NoSignalAstray`, that whoever is served
without being a manager matches the broker, is online and is in the room.

*Demand.* `EngineKnowsDemand` and `SignalEngineKnowsDemand` are inductive with `TypeOK`:
every operation that changes who watches tells of it in the same step. `WatchersOwn` is not:
`AsksAreOwn` is needed, that an ownership check under way was asked for the user the
socket still is, unless it switched; and `AsksSpeak`, that it was asked about the engine itself or a
manager that has reported it, which rests in turn on `ParentsReported`.

*Commands.* `CommandInv` adds that a caller has its answer exactly when its
request has ended, that updates on their way to the database are of delivered commands
and say the outcome, and that the engine knows nothing of what it has not read. With
it every step is one of `CommandLife` or a stutter. `RecordsReopenOnce` is the safety half of
`RecordSettles`: a record that has ended changes only when the late note of delivery
lands, or when the report corrects one that had expired; and the note is written once,
because an answer to the caller is final. It takes `RowFollowsStage` besides, that there is no row before
the database was asked for one.

*Payments.* `PayInv` adds to the types whose a license is (`Owned`) and what a handler at
work is about (`TasksAtWork`). `DuplicatesAccounted` says nothing of a handler between the guard and
the insertion; `OneUnlessExcused` does: of a customer neither raced nor doubled at most one license is active or
at most one handler is past the guard, and not both.

*Credentials.* `ReleaseInv` adds that a grant under way is of an active device unless a
release crossed it; `HeldInv` that whenever a hash is stored, the engine holds its credential,
an answer that carries it is under way, or it went astray.

*Limits.* A hit leaves a bucket by the filter, by a sweep, or stays although it is too old:
`Bucket` says that the bucket is in the order of time and that, pruned now, it is exactly
what was recorded in the last window. That takes facts about the filter on
sequences of any length (`AfterTwice`, `AfterAppend`, `AfterNone`), which follow from
`AfterDrops`: of a sequence that is cut somewhere into old and young, the filter leaves the young part.
For `FailuresBounded` the total is not inductive, since the window moves. `Accounted`
states the bound after *every* cutoff: the failures beyond the limit are at most
`Others`, the handlers but one, for each recorded failure and once more; and while
the bucket is full the handlers still waiting are included.

*Lifetimes.* Every invariant about a duration is made inductive by what is left on the timer
that ends it: `InTime` bounds silence *plus* the time to the next sweep, `Silenced` the
same for the registry. `Beaten` says that the registry has heard of a licensed engine no
later than its last heartbeat; `Outlasts` that a membership and the time since the last beat together
reach to the next beat. `Presence` says what a connection must have for the rest to hold.

Two techniques stand in for what the provers lack. The library's induction theorems take an
operator as parameter and cannot be instantiated; an induction over a length is therefore
done by the least counterexample of a set (`LeastElement`, from the
well-foundedness of the order on numbers). And a fold or a filter that TLAPS has no definition of is stated
by what it comes to (`LastWord`) or written as a recursive function (`After`).

### Only model-checked

Liveness under fairness (`FeedRestored`, `RecordSettles`) is out of the prover's
reach and stays with TLC, as do the three violations. The properties stated with the
proofs were checked with TLC on the instances above before they were proved.

## Plan

Done: the core (`ConnectionRegistry`, `RoomRegistry`, `EngineGateway`);
`SignalFeed` and `MetricDemand` with their users; `RemoteCommands` over `CommandLife`;
`PaymentWebhooks`; `SignalRouting`; `DeviceCredentials`; the limits; `Lifetimes`; and the
proofs of every safety property of theirs, with results above that no run lists.

What is left:

Expiry dates in `PaymentWebhooks`, and with them invoice.update.

## Not modelled, and why

- Protocol validation, configuration, health endpoint and bootstrap have no
  state the rest depends on; a message that is refused changes nothing.
- Billing: requests to the payment provider and a cache of prices.
- Execution lifecycle records: rows that are inserted and not waited for.
- Email, Supabase, Paystack and the Signal Engine are external: they appear
  only as answers and events, which may fail, be late or be lost.
- What the gateway merely forwards (telemetry, awareness payloads, execution
  events, the 200-entry event buffers of dashboards) and account metadata.
- Expiry dates in `PaymentWebhooks`, and with them invoice.update and half of
  patchLicense: dates are only compared in `LicenseService`'s store and in
  `Lifetimes`, where a license may have any time left.
- Several processes under PM2: they share no state; everything above is about one process.

## Running

    tlc -workers 2 -config gateway.cfg MCEngineGateway
    tlc -workers 2 -config takeover.cfg MCEngineGateway
    tlc -workers 2 -config feed.cfg SignalFeed
    tlc -workers 2 -config feed_hung.cfg SignalFeed
    tlc -workers 2 -config demand.cfg MCMetricDemand
    tlc -workers 2 -config routing.cfg MCSignalRouting
    tlc -workers 2 -config commands.cfg RemoteCommands
    tlc -workers 2 -config payments.cfg MCPaymentWebhooks
    tlc -workers 2 -config payments_duplicate.cfg MCPaymentWebhooks
    tlc -workers 2 -config limits.cfg ActivationLimits
    tlc -workers 2 -config credentials.cfg MCDeviceCredentials
    tlc -workers 2 -config lifetimes.cfg Lifetimes
    tlapm EngineGatewayProofs.tla
    tlapm SignalFeedProofs.tla
    tlapm MetricDemandProofs.tla
    tlapm RemoteCommandsProofs.tla
    tlapm PaymentWebhooksProofs.tla
    tlapm DeviceCredentialsProofs.tla
    tlapm ActivationLimitsProofs.tla
    tlapm LifetimesProofs.tla
