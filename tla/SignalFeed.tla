----------------------------- MODULE SignalFeed -----------------------------
(***************************************************************************)
(* SignalEngineSubscriberService: the one WebSocket to the Signal Engine,  *)
(* over which the gateway subscribes to the symbol of every room and, for  *)
(* as long as a dashboard watches, to the engine's metrics.                *)
(*                                                                         *)
(* The rooms are those of RoomRegistryService, with engine ids only (who   *)
(* is in a room with which socket is the business of RoomRegistry).  Every *)
(* change of the set of rooms calls the subscriber in the same step.       *)
(*                                                                         *)
(* The Signal Engine is external: it starts a connection with no           *)
(* subscription and reads the frames in the order they were sent.          *)
(***************************************************************************)
EXTENDS SignalNames, Naturals, Sequences

CONSTANTS
    Symbols,    \* normalized symbols
    MaxWire     \* bound: frames on their way before rooms or demand change

ASSUME FeedAssumption == MaxWire \in Nat

VARIABLES
    room,               \* room[y]: the members of the room of y
    desiredSymbols, subscribedSymbols,
    metricsDesired, metricsSubscribed,
    socket,             \* "lost": no longer OPEN, 'close' still to come
    reconnectTimer,     \* pending
    stopping,
    upstream,           \* what the Signal Engine is subscribed to
    wire,               \* the frames it has not read yet
    hung                \* it has stopped reading

roomVars == <<room>>
wanted   == <<desiredSymbols, metricsDesired>>
sent     == <<subscribedSymbols, metricsSubscribed, wire>>
vars     == <<room, wanted, sent, socket, reconnectTimer, stopping, upstream, hung>>

\* A subscription names at least one symbol.
Frame ==
    [action : {"subscribe", "unsubscribe"}, symbols : (SUBSET Symbols) \ {{}}]
      \cup [action : {"subscribe_metrics", "unsubscribe_metrics"}, symbols : {{}}]

Nothing == [symbols |-> {}, metrics |-> FALSE]

TypeOK ==
    /\ room \in [Symbols -> SUBSET Engines]
    /\ desiredSymbols \subseteq Symbols /\ subscribedSymbols \subseteq Symbols
    /\ metricsDesired \in BOOLEAN /\ metricsSubscribed \in BOOLEAN
    /\ socket \in {"connecting", "open", "lost", "closed"}
    /\ reconnectTimer \in BOOLEAN /\ stopping \in BOOLEAN
    /\ upstream \in [symbols : SUBSET Symbols, metrics : BOOLEAN]
    /\ wire \in Seq(Frame)
    /\ hung \in BOOLEAN

\* onModuleInit, with no room and no dashboard yet.
Init ==
    /\ room = [y \in Symbols |-> {}]
    /\ desiredSymbols = {} /\ subscribedSymbols = {}
    /\ metricsDesired = FALSE /\ metricsSubscribed = FALSE
    /\ socket = "connecting"
    /\ reconnectTimer = FALSE /\ stopping = FALSE
    /\ upstream = Nothing
    /\ wire = <<>>
    /\ hung = FALSE

-----------------------------------------------------------------------------
(* What is sent to bring the Signal Engine from one state to another.      *)

\* Mutant: frames that would change nothing are sent as well.
SymbolFramesAlways(subscribed, desired) ==
    <<[action |-> "subscribe", symbols |-> desired \ subscribed],
      [action |-> "unsubscribe", symbols |-> subscribed \ desired]>>

SymbolFrames(subscribed, desired) ==
    LET add == desired \ subscribed
        del == subscribed \ desired
    IN  (IF add = {} THEN <<>> ELSE <<[action |-> "subscribe", symbols |-> add]>>)
        \o (IF del = {} THEN <<>> ELSE <<[action |-> "unsubscribe", symbols |-> del]>>)

MetricFrames(subscribed, desired) ==
    IF subscribed = desired THEN <<>>
    ELSE <<[action  |-> IF desired THEN "subscribe_metrics" ELSE "unsubscribe_metrics",
            symbols |-> {}]>>

SyncSubscriptions(desired) ==
    IF socket # "open" THEN UNCHANGED <<subscribedSymbols, wire>>
    ELSE /\ subscribedSymbols' = desired
         /\ wire' = wire \o SymbolFrames(subscribedSymbols, desired)

SyncMetricSubscription(desired) ==
    IF socket # "open" THEN UNCHANGED <<metricsSubscribed, wire>>
    ELSE /\ metricsSubscribed' = desired
         /\ wire' = wire \o MetricFrames(metricsSubscribed, desired)

-----------------------------------------------------------------------------
(* Rooms.                                                                  *)

\* The keys of the Map: a room goes with its last member.
Rooms(r) == {y \in Symbols : r[y] # {}}

\* Mutant: only a new room is announced, not the end of one.
RoomsBecomeGrowing(r) ==
    /\ room' = r
    /\ IF ~(Rooms(room) \subseteq Rooms(r)) \/ Rooms(r) = Rooms(room) \/ stopping
         THEN UNCHANGED <<desiredSymbols, subscribedSymbols, wire>>
         ELSE /\ desiredSymbols' = Rooms(r)
              /\ SyncSubscriptions(Rooms(r))

\* notifySymbolsChanged, if the set of rooms has changed.
RoomsBecome(r) ==
    /\ room' = r
    /\ IF Rooms(r) = Rooms(room) \/ stopping
         THEN UNCHANGED <<desiredSymbols, subscribedSymbols, wire>>
         ELSE /\ desiredSymbols' = Rooms(r)
              /\ SyncSubscriptions(Rooms(r))

RoomsOnly ==
    /\ Len(wire) < MaxWire
    /\ UNCHANGED <<metricsDesired, metricsSubscribed, socket, reconnectTimer,
                   stopping, upstream, hung>>

Join(e, Y) ==
    /\ RoomsBecome([y \in Symbols |-> IF y \in Y THEN room[y] \cup {e} ELSE room[y]])
    /\ RoomsOnly

Leave(e, Y) ==
    /\ \E y \in Y : e \in room[y]
    /\ RoomsBecome([y \in Symbols |-> IF y \in Y THEN room[y] \ {e} ELSE room[y]])
    /\ RoomsOnly

\* The memberships in D, pairs of a symbol and an engine, have run out.
EvictExpired(D) ==
    /\ D # {}
    /\ \A p \in D : p[2] \in room[p[1]]
    /\ RoomsBecome([y \in Symbols |-> {e \in room[y] : <<y, e>> \notin D}])
    /\ RoomsOnly

\* The dashboards report their demand, which may be what it was.
MetricDemand(d) ==
    /\ Len(wire) < MaxWire
    /\ ~stopping
    /\ metricsDesired' = d
    /\ SyncMetricSubscription(d)
    /\ UNCHANGED <<room, desiredSymbols, subscribedSymbols, socket, reconnectTimer,
                   stopping, upstream, hung>>

-----------------------------------------------------------------------------
(* The socket.                                                             *)

\* Mutant: the subscriptions of the last connection are taken for this one's.
OpenedRemembering ==
    /\ socket = "connecting"
    /\ socket' = "open"
    /\ subscribedSymbols' = desiredSymbols
    /\ metricsSubscribed' = metricsDesired
    /\ wire' = SymbolFrames(subscribedSymbols, desiredSymbols)
                 \o MetricFrames(metricsSubscribed, metricsDesired)
    /\ upstream' = Nothing
    /\ UNCHANGED <<room, wanted, reconnectTimer, stopping, hung>>

\* 'open': forget the last connection, then bring this one up to date.
Opened ==
    /\ socket = "connecting"
    /\ socket' = "open"
    /\ subscribedSymbols' = desiredSymbols
    /\ metricsSubscribed' = metricsDesired
    /\ wire' = SymbolFrames({}, desiredSymbols) \o MetricFrames(FALSE, metricsDesired)
    /\ upstream' = Nothing
    /\ UNCHANGED <<room, wanted, reconnectTimer, stopping, hung>>

\* The peer closes, the network fails, or the connection attempt does.
Lost ==
    /\ socket \in {"connecting", "open"}
    /\ socket' = "lost"
    /\ UNCHANGED <<room, wanted, sent, reconnectTimer, stopping, upstream, hung>>

\* Mutant: a pending timer is not cancelled when the service stops.
ClosedAlwaysReconnects ==
    /\ socket = "lost"
    /\ socket' = "closed"
    /\ reconnectTimer' = TRUE
    /\ upstream' = Nothing
    /\ wire' = <<>>
    /\ hung' = FALSE
    /\ UNCHANGED <<room, wanted, subscribedSymbols, metricsSubscribed, stopping>>

\* 'close': scheduleReconnect.
Closed ==
    /\ socket = "lost"
    /\ socket' = "closed"
    /\ reconnectTimer' = ~stopping
    /\ upstream' = Nothing
    /\ wire' = <<>>
    /\ hung' = FALSE
    /\ UNCHANGED <<room, wanted, subscribedSymbols, metricsSubscribed, stopping>>

Reconnect ==
    /\ reconnectTimer
    /\ reconnectTimer' = FALSE
    /\ socket' = "connecting"
    /\ UNCHANGED <<room, wanted, sent, stopping, upstream, hung>>

\* onModuleDestroy.
Stop ==
    /\ ~stopping
    /\ stopping' = TRUE
    /\ reconnectTimer' = FALSE
    /\ socket' = IF socket \in {"connecting", "open"} THEN "lost" ELSE socket
    /\ UNCHANGED <<room, wanted, sent, upstream, hung>>

-----------------------------------------------------------------------------
(* The Signal Engine.                                                      *)

Apply(u, f) ==
    CASE f.action = "subscribe"           -> [u EXCEPT !.symbols = @ \cup f.symbols]
      [] f.action = "unsubscribe"         -> [u EXCEPT !.symbols = @ \ f.symbols]
      [] f.action = "subscribe_metrics"   -> [u EXCEPT !.metrics = TRUE]
      [] f.action = "unsubscribe_metrics" -> [u EXCEPT !.metrics = FALSE]

Reads ==
    /\ socket = "open"
    /\ ~hung
    /\ wire # <<>>
    /\ upstream' = Apply(upstream, Head(wire))
    /\ wire' = Tail(wire)
    /\ UNCHANGED <<room, wanted, subscribedSymbols, metricsSubscribed, socket,
                   reconnectTimer, stopping, hung>>

\* It stops reading and keeps the socket.
Hang ==
    /\ socket = "open"
    /\ hung' = TRUE
    /\ UNCHANGED <<room, wanted, sent, socket, reconnectTimer, stopping, upstream>>

-----------------------------------------------------------------------------
Next ==
    \/ \E e \in Engines, Y \in SUBSET Symbols : Join(e, Y) \/ Leave(e, Y)
    \/ \E D \in SUBSET (Symbols \X Engines) : EvictExpired(D)
    \/ \E d \in BOOLEAN : MetricDemand(d)
    \/ Opened \/ Lost \/ Closed \/ Reconnect \/ Stop \/ Reads \/ Hang

Spec == Init /\ [][Next]_vars

(* ws emits 'close' for every socket that ends, a timer fires, and an       *)
(* attempt to connect ends: by opening, unless Lost comes first.  A Signal  *)
(* Engine that does not hang reads what it is sent.                         *)
Fairness ==
    WF_vars(Closed) /\ WF_vars(Reconnect) /\ WF_vars(Opened) /\ WF_vars(Reads)

FairSpec == Spec /\ Fairness

-----------------------------------------------------------------------------
(* Properties.                                                             *)

\* The frames on their way that speak of a symbol, and of the metrics.
About(y) == {i \in DOMAIN wire : y \in wire[i].symbols}

AboutMetrics ==
    {i \in DOMAIN wire : wire[i].action \in {"subscribe_metrics", "unsubscribe_metrics"}}

\* Whether the last of the frames in I subscribes; without any, what is so now.
LastWord(I, subscribe, now) ==
    IF I = {} THEN now
    ELSE \E i \in I : wire[i].action = subscribe /\ \A j \in I : j <= i

(* What the Signal Engine is subscribed to, once it has read what is on its *)
(* way, is the rooms there are and the demand there is: no join, leave or   *)
(* eviction goes unannounced, and the incremental frames never drift from   *)
(* the rooms, through any sequence of changes and reconnections.            *)
FeedMatchesRooms ==
    socket = "open" =>
        /\ \A y \in Symbols :
              LastWord(About(y), "subscribe", y \in upstream.symbols) <=> y \in Rooms(room)
        /\ LastWord(AboutMetrics, "subscribe_metrics", upstream.metrics) <=> metricsDesired

(* The gateway has one socket to the Signal Engine: a new one is opened     *)
(* only after 'close' of the last, and none once the service is stopping.   *)
SoleSubscriber ==
    [][socket' = "connecting" => socket = "closed" /\ ~stopping]_<<socket>>

(* If the connection is some day lost for the last time and the Signal      *)
(* Engine reads, it comes to serve every symbol whose room lasts, and the   *)
(* metrics a dashboard keeps asking for, and goes on serving them: no       *)
(* series of losses leaves the gateway without socket or subscriptions.     *)
FeedRestored ==
    <>[][~Lost]_vars /\ <>[]~hung =>
        /\ \A y \in Symbols :
              <>[](room[y] # {} /\ ~stopping) => <>[](y \in upstream.symbols)
        /\ <>[](metricsDesired /\ ~stopping) => <>[](upstream.metrics)

(* signal-engine-subscriber.service.ts:325: a Signal Engine that does not   *)
(* answer the 30 s ping with a pong is disconnected, which triggers a       *)
(* reconnect and a fresh subscribe.                                         *)
HungIsReplaced == hung ~> ~hung
=============================================================================
