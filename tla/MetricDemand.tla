---------------------------- MODULE MetricDemand ----------------------------
(***************************************************************************)
(* DashboardConnectionRegistryService and DashboardGateway: which          *)
(* dashboards watch what, and what is asked of the engines and of the      *)
(* Signal Engine on their behalf.  Metrics flow only while somebody        *)
(* watches, so the registry tells ConnectionRegistryService (for the       *)
(* metrics of one engine) and SignalEngineSubscriberService (for the       *)
(* Signal Engine's) whenever the number of watchers may have changed.      *)
(*                                                                         *)
(* Tokens and ownership are decided by Supabase: both answers are free, and*)
(* a socket may authenticate again, as the same user or as another.  The   *)
(* question of ownership is put about the manager an engine was last       *)
(* reported by, if EngineRegistryService knows of one, and else about the  *)
(* engine itself.                                                          *)
(* Rate limits reject without touching the state and are left out.         *)
(***************************************************************************)
EXTENDS Naturals, FiniteSets

CONSTANTS
    Viewers,    \* dashboard sockets; a name is reused once nothing holds it
    Users,
    Engines,    \* engine ids
    Managers,   \* those for which isManagerEngineId holds
    MaxAsks,    \* bound: subscriptions that await userOwnsEngine at once
    None

ASSUME DemandAssumption ==
    /\ None \notin Engines \cup Users
    /\ Managers \subseteq Engines
    /\ MaxAsks \in Nat

VARIABLES
    socket,     \* the dashboard sockets that have not emitted 'close' yet
    dash,       \* this.connections, DashboardConnection by socket
    asks,       \* execution.metrics.subscribe waiting for userOwnsEngine: the
                \* socket, the user, the engine to watch and the one asked about
    parent,     \* parentSourceKey of the registry's entries
    link,       \* the current engine connection: "closing" is not OPEN any more
    told,       \* what that connection was last told by the gateway
    asked,      \* the metricsDesired of SignalEngineSubscriberService
    dropped,    \* auxiliary: demand that went with an evicted dashboard and
                \* of which nobody was told since
    reported    \* auxiliary: the managers that ever reported an engine

vars == <<socket, dash, asks, parent, link, told, asked, dropped, reported>>

\* owner, through and switched are auxiliary: the user and the engine of the
\* ownership check behind engine, and whether the socket authenticated as one
\* user and then as another.
Entry == [user : Users \cup {None}, signal : BOOLEAN, engine : Engines \cup {None},
          owner : Users \cup {None}, through : Engines \cup {None},
          switched : BOOLEAN]

Fresh == [user |-> None, signal |-> FALSE, engine |-> None,
          owner |-> None, through |-> None, switched |-> FALSE]

TypeOK ==
    /\ socket \subseteq Viewers
    /\ DOMAIN dash \subseteq socket
    /\ \A v \in DOMAIN dash : dash[v] \in Entry
    /\ asks \subseteq Viewers \X Users \X Engines \X Engines
    /\ parent \in [Engines -> Managers \cup {None}]
    /\ link \in [Engines -> {"down", "open", "closing"}]
    /\ told \in [Engines -> BOOLEAN]
    /\ asked \in BOOLEAN
    /\ dropped \in [engines : SUBSET Engines, signal : BOOLEAN]
    /\ reported \subseteq Managers \X Engines

Init ==
    /\ socket = {}
    /\ dash = [v \in {} |-> Fresh]
    /\ asks = {}
    /\ parent = [e \in Engines |-> None]
    /\ link = [e \in Engines |-> "down"]
    /\ told = [e \in Engines |-> FALSE]
    /\ asked = FALSE
    /\ dropped = [engines |-> {}, signal |-> FALSE]
    /\ reported = {}

-----------------------------------------------------------------------------
(* Demand, on a value d of dash.                                           *)

Watching(d, e) == {v \in DOMAIN d : d[v].engine = e}

WatchingSignal(d) == {v \in DOMAIN d : d[v].signal}

Set(v, entry) == [u \in DOMAIN dash \cup {v} |-> IF u = v THEN entry ELSE dash[u]]

\* Mutant: the entry is kept.
WithoutNobody(v) == dash

Without(v) == [u \in DOMAIN dash \ {v} |-> dash[u]]

AsksOf(v) == {a \in asks : a[1] = v}

\* Mutant: the engine a dashboard turns away from is not told.
TellEnginesOfNewOnly(d, E) ==
    /\ told' = [e \in Engines |->
                  IF e \in E /\ link[e] = "open" /\ Watching(d, e) # {} THEN TRUE
                  ELSE told[e]]
    /\ dropped' = [dropped EXCEPT !.engines = @ \ E]

\* emitExecutionMetricDemand for the engines of E, heard by the ones connected.
TellEngines(d, E) ==
    /\ told' = [e \in Engines |->
                  IF e \in E /\ link[e] = "open" THEN Watching(d, e) # {} ELSE told[e]]
    /\ dropped' = [dropped EXCEPT !.engines = @ \ E]

\* emitSignalMetricDemand.
TellSignalEngine(d) ==
    /\ asked' = (WatchingSignal(d) # {})
    /\ dropped' = [dropped EXCEPT !.signal = FALSE]

-----------------------------------------------------------------------------
(* Dashboards.                                                             *)

Connect(v) ==
    /\ v \notin socket
    /\ AsksOf(v) = {}
    /\ socket' = socket \cup {v}
    /\ dash' = Set(v, Fresh)
    /\ UNCHANGED <<asks, parent, link, told, asked, dropped, reported>>

\* auth.verify has found user u, and the socket is still there: whatever it
\* watches, it goes on watching.
Authenticated(v, u) ==
    /\ v \in DOMAIN dash
    /\ dash' = Set(v, [dash[v] EXCEPT !.user = u,
                                     !.switched = @ \/ dash[v].user \notin {None, u}])
    /\ UNCHANGED <<socket, asks, parent, link, told, asked, dropped, reported>>

SubscribeSignalMetrics(v) ==
    /\ v \in DOMAIN dash
    /\ dash[v].user # None /\ ~dash[v].signal
    /\ dash' = Set(v, [dash[v] EXCEPT !.signal = TRUE])
    /\ TellSignalEngine(dash')
    /\ UNCHANGED <<socket, asks, parent, link, told, reported>>

UnsubscribeSignalMetrics(v) ==
    /\ v \in DOMAIN dash
    /\ dash[v].signal
    /\ dash' = Set(v, [dash[v] EXCEPT !.signal = FALSE])
    /\ TellSignalEngine(dash')
    /\ UNCHANGED <<socket, asks, parent, link, told, reported>>

\* Whose owner may watch e: ownershipEngineId.
OwnershipEngine(e) == IF parent[e] = None THEN e ELSE parent[e]

\* Both the user and the engine asked about are read before the await.
SubscribeExecutionMetrics(v, e) ==
    /\ v \in DOMAIN dash
    /\ dash[v].user # None
    /\ Cardinality(asks) < MaxAsks
    /\ asks' = asks \cup {<<v, dash[v].user, e, OwnershipEngine(e)>>}
    /\ UNCHANGED <<socket, dash, parent, link, told, asked, dropped, reported>>

\* Mutant: an answer for a socket that has gone creates its entry anew.
OwnedByAny(v, u, e, o) ==
    /\ <<v, u, e, o>> \in asks
    /\ asks' = asks \ {<<v, u, e, o>>}
    /\ dash' = Set(v, [Fresh EXCEPT !.engine = e, !.owner = u, !.through = o])
    /\ TellEngines(dash', {e})
    /\ UNCHANGED <<socket, parent, link, asked, reported>>

\* userOwnsEngine says yes of u and o: the socket as it is by now watches e, if
\* it is there and whoever it is authenticated as, and whatever the parent of e
\* is by now.
Owned(v, u, e, o) ==
    /\ <<v, u, e, o>> \in asks
    /\ asks' = asks \ {<<v, u, e, o>>}
    /\ IF v \in DOMAIN dash /\ dash[v].user # None /\ dash[v].engine # e
         THEN /\ dash' = Set(v, [dash[v] EXCEPT !.engine = e, !.owner = u, !.through = o])
              /\ TellEngines(dash', {e, dash[v].engine} \ {None})
         ELSE UNCHANGED <<dash, told, dropped>>
    /\ UNCHANGED <<socket, parent, link, asked, reported>>

\* userOwnsEngine says no.
Forbidden(v, u, e, o) ==
    /\ <<v, u, e, o>> \in asks
    /\ asks' = asks \ {<<v, u, e, o>>}
    /\ UNCHANGED <<socket, dash, parent, link, told, asked, dropped, reported>>

UnsubscribeExecutionMetrics(v) ==
    /\ v \in DOMAIN dash
    /\ dash[v].engine # None
    /\ dash' = Set(v, [dash[v] EXCEPT !.engine = None, !.owner = None, !.through = None])
    /\ TellEngines(dash', {dash[v].engine})
    /\ UNCHANGED <<socket, asks, parent, link, asked, reported>>

\* Mutant: the Signal Engine is not told that a dashboard has gone.
DisconnectTellsEngines(v) ==
    /\ v \in socket
    /\ socket' = socket \ {v}
    /\ dash' = Without(v)
    /\ TellEngines(dash', IF v \in DOMAIN dash THEN {dash[v].engine} \ {None} ELSE {})
    /\ UNCHANGED <<asks, parent, link, asked, reported>>

\* handleDisconnect: whoever was watched through v hears of it.
Disconnect(v) ==
    LET engines == IF v \in DOMAIN dash THEN {dash[v].engine} \ {None} ELSE {}
        signal  == v \in DOMAIN dash /\ dash[v].signal
    IN  /\ v \in socket
        /\ socket' = socket \ {v}
        /\ dash' = Without(v)
        /\ told' = [e \in Engines |-> IF e \in engines /\ link[e] = "open"
                                        THEN Watching(dash', e) # {} ELSE told[e]]
        /\ asked' = IF signal THEN WatchingSignal(dash') # {} ELSE asked
        /\ dropped' = [engines |-> dropped.engines \ engines,
                        signal  |-> dropped.signal /\ ~signal]
        /\ UNCHANGED <<asks, parent, link, reported>>

\* A send to v throws in the middle of a broadcast: v is evicted.
SendFails(v) ==
    /\ v \in DOMAIN dash
    /\ dash[v].user # None
    /\ dash' = Without(v)
    /\ dropped' = [engines |-> dropped.engines \cup ({dash[v].engine} \ {None}),
                    signal  |-> dropped.signal \/ dash[v].signal]
    /\ UNCHANGED <<socket, asks, parent, link, told, asked, reported>>

-----------------------------------------------------------------------------
(* Engines, as ConnectionRegistryService sees them.                        *)

\* Mutant: a new connection is not told of the demand it finds.
AuthorizeUntold(e) ==
    /\ link' = [link EXCEPT ![e] = "open"]
    /\ told' = [told EXCEPT ![e] = FALSE]
    /\ UNCHANGED <<socket, dash, asks, parent, asked, dropped, reported>>

\* A connection becomes the current one of e: a new one, which has heard
\* nothing, is told if there is demand.
Authorize(e) ==
    /\ link' = [link EXCEPT ![e] = "open"]
    /\ told' = [told EXCEPT ![e] = Watching(dash, e) # {}]
    /\ UNCHANGED <<socket, dash, asks, parent, asked, dropped, reported>>

\* The current connection activates once more.
Reauthorize(e) ==
    /\ link[e] = "open"
    /\ told' = [told EXCEPT ![e] = @ \/ Watching(dash, e) # {}]
    /\ UNCHANGED <<socket, dash, asks, parent, link, asked, dropped, reported>>

Closing(e) ==
    /\ link[e] = "open"
    /\ link' = [link EXCEPT ![e] = "closing"]
    /\ UNCHANGED <<socket, dash, asks, parent, told, asked, dropped, reported>>

Remove(e) ==
    /\ link[e] # "down"
    /\ link' = [link EXCEPT ![e] = "down"]
    /\ told' = [told EXCEPT ![e] = FALSE]
    /\ UNCHANGED <<socket, dash, asks, parent, asked, dropped, reported>>

\* manager.agent.snapshot of the licensed connection of m about e: whatever e
\* was reported by before, or was not, m is its parent now.
ManagerAgentSnapshot(m, e) ==
    /\ link[m] # "down"
    /\ parent' = [parent EXCEPT ![e] = m]
    /\ reported' = reported \cup {<<m, e>>}
    /\ UNCHANGED <<socket, dash, asks, link, told, asked, dropped>>

-----------------------------------------------------------------------------
Next ==
    \/ \E v \in Viewers :
          \/ Connect(v) \/ Disconnect(v) \/ SendFails(v)
          \/ \E u \in Users : Authenticated(v, u)
          \/ SubscribeSignalMetrics(v) \/ UnsubscribeSignalMetrics(v)
          \/ UnsubscribeExecutionMetrics(v)
          \/ \E e \in Engines : SubscribeExecutionMetrics(v, e)
          \/ \E u \in Users, e, o \in Engines :
                Owned(v, u, e, o) \/ Forbidden(v, u, e, o)
    \/ \E e \in Engines :
          \/ Authorize(e) \/ Reauthorize(e) \/ Closing(e) \/ Remove(e)
          \/ \E m \in Managers : ManagerAgentSnapshot(m, e)

Spec == Init /\ [][Next]_vars

-----------------------------------------------------------------------------
(* Properties.                                                             *)

(* The current connection of an engine has last been told to send metrics   *)
(* if anybody watches the engine, whichever connected first and whatever    *)
(* the dashboards asked for meanwhile; and otherwise it has been told to    *)
(* stop, unless the last who watched was evicted by a failed send.          *)
EngineKnowsDemand ==
    \A e \in Engines : link[e] = "open" =>
        /\ Watching(dash, e) # {} => told[e]
        /\ told[e] => Watching(dash, e) # {} \/ e \in dropped.engines

(* The same of the Signal Engine's metrics.                                 *)
SignalEngineKnowsDemand ==
    /\ WatchingSignal(dash) # {} => asked
    /\ asked => WatchingSignal(dash) # {} \/ dropped.signal

(* Whoever watches an engine was authenticated, on the connection on which  *)
(* it watches, as a user found to own the engine, or found to own a manager *)
(* that has reported it, and still is unless the socket authenticated as    *)
(* somebody else since.  A check that is answered late dies with the        *)
(* connection that asked for it, and is not taken for a check on another    *)
(* engine.  What the check asked about is not looked at again: the engine   *)
(* may have another parent when the answer comes, and ever after.           *)
WatchersOwn ==
    \A v \in DOMAIN dash :
        /\ dash[v].signal => dash[v].user # None
        /\ dash[v].engine # None =>
              /\ dash[v].owner # None
              /\ dash[v].user = dash[v].owner \/ dash[v].switched
              /\ \/ dash[v].through = dash[v].engine
                 \/ <<dash[v].through, dash[v].engine>> \in reported
=============================================================================
