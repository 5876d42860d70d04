-------------------------- MODULE LifetimesProofs --------------------------
(***************************************************************************)
(* Proofs about Lifetimes, for any intervals, limits and times that        *)
(* LifetimesAssumption allows.                                             *)
(***************************************************************************)
EXTENDS Lifetimes, TLAPS

-----------------------------------------------------------------------------
(* Arithmetic of distances.                                                *)

LEMMA Numbers ==
    /\ OfflineAfter \in Nat \ {0} /\ ConnectionsEvery \in Nat \ {0}
    /\ StaleAfter \in Nat \ {0} /\ RegistryOfflineAfter \in Nat \ {0}
    /\ RegistryEvery \in Nat \ {0} /\ DefaultTtl \in Nat \ {0}
    /\ RoomsEvery \in Nat \ {0} /\ HeartbeatEvery \in Nat \ {0}
    /\ Horizon \in Nat /\ HeartbeatEvery < Horizon /\ DefaultTtl > HeartbeatEvery
    /\ None \notin Int
BY LifetimesAssumption

LEMMA LaterType ==
    ASSUME NEW n \in Silence
    PROVE  Later(n) \in Silence /\ Later(n) <= n + 1 /\ n <= Later(n)
BY Numbers DEF Later, Silence

LEMMA LaterMonotone ==
    ASSUME NEW m \in Silence, NEW n \in Silence, m <= n
    PROVE  Later(m) <= Later(n)
BY Numbers DEF Later, Silence

LEMMA SoonerType ==
    /\ Sooner(None) = None
    /\ \A n \in Int : Sooner(n) \in Int /\ Sooner(n) >= n - 1 /\ Sooner(n) <= n
BY Numbers DEF Sooner

LEMMA MinOfTwo ==
    ASSUME NEW m \in Int, NEW n \in Int
    PROVE  Min({m, n}) \in {m, n} /\ Min({m}) = m
<1>1. \E x \in {m, n} : \A y \in {m, n} : x =< y
  OBVIOUS
<1>2. Min({m, n}) \in {m, n}
  BY <1>1 DEF Min
<1>3. \E x \in {m} : \A y \in {m} : x =< y
  OBVIOUS
<1>4. Min({m}) \in {m}
  BY <1>3 DEF Min
<1> QED BY <1>2, <1>4

LEMMA MaxOfTwo ==
    ASSUME NEW m \in Int, NEW n \in Int
    PROVE  Max({m, n}) \in Int /\ Max({m, n}) >= m /\ Max({m, n}) >= n
<1> DEFINE larger(x) == x \in {m, n} /\ \A y \in {m, n} : x >= y
<1>1. \E x \in {m, n} : \A y \in {m, n} : x >= y
  OBVIOUS
<1>2. larger(Max({m, n}))
  BY <1>1 DEF Max
<1> QED BY <1>2

\* What is granted to a membership is never negative.
LEMMA CappedTtlType ==
    ASSUME conn.left \in Int \cup {None}, NEW requested \in Requests \cup {None}
    PROVE  CappedTtl(requested) \in Nat
<1>1. requested # None => requested \in Nat
  BY LifetimesAssumption
<1>2. CASE conn.left = None
  BY <1>1, <1>2, Numbers DEF CappedTtl
<1>3. CASE conn.left # None
  <2> DEFINE left == Max({0, conn.left})
  <2>1. left \in Nat
    BY <1>3, MaxOfTwo
  <2> HIDE DEF left
  <2>2. CASE requested = None
    <3>1. {left} \cup ({requested} \ {None}) = {left}
      BY <2>2
    <3> QED BY <1>3, <2>1, <3>1, MinOfTwo DEF CappedTtl, left
  <2>3. CASE requested # None
    <3>1. {left} \cup ({requested} \ {None}) = {left, requested}
      BY <2>3
    <3>2. Min({left, requested}) \in {left, requested}
      <4>1. left \in Int /\ requested \in Int
        BY <1>1, <2>1, <2>3
      <4> QED BY <4>1, MinOfTwo
    <3> QED BY <1>1, <1>3, <2>1, <2>3, <3>1, <3>2 DEF CappedTtl, left
  <2> QED BY <2>2, <2>3
<1> QED BY <1>2, <1>3

-----------------------------------------------------------------------------
(* Types.                                                                  *)

Timers == {"connections", "registry", "rooms"}

LEMMA EveryType ==
    /\ DOMAIN Every = Timers
    /\ Every.connections = ConnectionsEvery
    /\ Every.registry = RegistryEvery
    /\ Every.rooms = RoomsEvery
    /\ \A t \in Timers : Every[t] \in Nat \ {0}
BY Numbers DEF Every, Timers

ConnType ==
    [up : BOOLEAN, hello : BOOLEAN, licensed : BOOLEAN, silence : Silence,
     left : Int \cup {None}]

EntryType ==
    [health : {"unknown", "online", "stale", "error", "offline"}, silence : Silence]

CallType == [at : {"idle", "granting", "crediting"}, here : BOOLEAN]

RoomOK == room \in Int \cup {None} /\ (room # None => room >= timer.rooms - RoomsEvery)

TimerOK == timer \in [Timers -> Nat] /\ \A t \in Timers : timer[t] <= Every[t]

\* The type invariant, with the membership kept in step with the timer that
\* evicts it.
Types ==
    /\ conn \in ConnType /\ entry \in EntryType /\ call \in CallType
    /\ RoomOK /\ TimerOK
    /\ capped \in BOOLEAN /\ beat \in Silence /\ unheard \in Silence

LEMMA TypesAreTypeOK == Types => TypeOK
BY EveryType, Numbers
   DEF Types, TypeOK, ConnType, EntryType, CallType, RoomOK, TimerOK, Timers

LEMMA GoneType == Gone \in ConnType /\ 0 \in Silence
BY Numbers DEF Gone, ConnType, Silence

LEMMA NoCallType == NoCall \in CallType
BY DEF NoCall, CallType

LEMMA TouchedType ==
    ASSUME Types
    PROVE  /\ Touched(conn) \in ConnType
           /\ Touched(conn).silence = 0
           /\ Touched(conn).up = conn.up /\ Touched(conn).hello = conn.hello
           /\ Touched(conn).licensed = conn.licensed /\ Touched(conn).left = conn.left
BY GoneType DEF Types, Touched, ConnType

LEMMA LifeTypesInitially == Init => Types
<1> SUFFICES ASSUME Init PROVE Types
  OBVIOUS
<1>1. timer \in [Timers -> Nat] /\ \A t \in Timers : timer[t] <= Every[t]
  <2>1. timer = Every
    BY DEF Init
  <2>2. Every \in [Timers -> Nat]
    BY EveryType DEF Every
  <2> QED BY <2>1, <2>2, EveryType
<1>2. room = None
  BY DEF Init
<1> QED BY <1>1, <1>2, GoneType, NoCallType DEF Init, Types, RoomOK, TimerOK, EntryType

\* An interval runs and starts again, and no other does.
LEMMA RunEffect ==
    ASSUME TimerOK, NEW t \in Timers, Run(t)
    PROVE  /\ TimerOK' /\ timer[t] = 0 /\ timer'[t] = Every[t]
           /\ \A u \in Timers \ {t} : timer'[u] = timer[u]
BY EveryType DEF TimerOK, Run

LEMMA TickEffect ==
    ASSUME Types, Tick
    PROVE  /\ TimerOK' /\ \A t \in Timers : timer[t] > 0 /\ timer'[t] = timer[t] - 1
           /\ conn' \in ConnType /\ entry' \in EntryType
           /\ entry'.health = entry.health /\ entry'.silence = Later(entry.silence)
           /\ conn'.up = conn.up /\ conn'.hello = conn.hello
           /\ conn'.licensed = conn.licensed
           /\ IF conn.up THEN /\ conn'.silence = Later(conn.silence)
                              /\ conn'.left = Sooner(conn.left)
                         ELSE conn' = conn
           /\ room' = Sooner(room) /\ beat' = Later(beat)
           /\ unheard' = IF conn.up \/ call.at # "idle" THEN 0 ELSE Later(unheard)
           /\ UNCHANGED <<capped, call>>
<1>1. \A t \in Timers : timer[t] > 0 /\ timer'[t] = timer[t] - 1
  BY EveryType DEF Tick
<1>2. TimerOK'
  <2>1. timer' = [t \in Timers |-> timer[t] - 1]
    BY EveryType DEF Tick
  <2>2. \A t \in Timers : timer[t] - 1 \in Nat /\ timer[t] - 1 <= Every[t]
    BY <1>1, EveryType DEF Types, TimerOK
  <2> QED BY <2>1, <2>2 DEF TimerOK
<1>3. Later(entry.silence) \in Silence /\ Later(conn.silence) \in Silence
      /\ Sooner(conn.left) \in Int \cup {None}
  BY LaterType, SoonerType DEF Types, EntryType, ConnType
<1>4. /\ entry' \in EntryType /\ entry'.health = entry.health
      /\ entry'.silence = Later(entry.silence)
  BY <1>3 DEF Tick, Types, EntryType
<1>5. conn' = IF conn.up
                THEN [conn EXCEPT !.silence = Later(conn.silence), !.left = Sooner(conn.left)]
                ELSE conn
  BY DEF Tick
<1>6. CASE conn.up
  <2> DEFINE new == [conn EXCEPT !.silence = Later(conn.silence), !.left = Sooner(conn.left)]
  <2>1. /\ new \in ConnType /\ new.up = conn.up /\ new.hello = conn.hello
        /\ new.licensed = conn.licensed /\ new.silence = Later(conn.silence)
        /\ new.left = Sooner(conn.left)
    BY <1>3 DEF Types, ConnType
  <2> HIDE DEF new
  <2>2. conn' = new
    BY <1>5, <1>6 DEF new
  <2> QED BY <1>1, <1>2, <1>4, <1>6, <2>1, <2>2 DEF Tick
<1>7. CASE ~conn.up
  BY <1>1, <1>2, <1>4, <1>5, <1>7 DEF Tick, Types
<1> QED BY <1>6, <1>7

LEMMA LeavesEffect ==
    ASSUME Types, Leaves
    PROVE  /\ conn' = Gone /\ room' = None /\ capped' = FALSE /\ beat' = 0
           /\ entry' \in EntryType /\ entry'.silence = entry.silence
           /\ entry'.health \in {entry.health, "offline"}
           /\ call' \in CallType /\ call'.at = call.at /\ ~call'.here
BY DEF Leaves, Types, EntryType, CallType

LEMMA GrantedEffect ==
    ASSUME Types, NEW left \in Terms \cup {None}, Granted(left)
    PROVE  /\ conn' \in ConnType /\ call' \in CallType
           /\ call.at = "granting" /\ call'.at = "crediting" /\ call'.here = call.here
           /\ conn'.up = conn.up /\ conn'.hello = conn.hello
           /\ IF call.here THEN conn'.silence = 0 /\ conn'.left = left
                           ELSE conn' = conn
           /\ UNCHANGED <<room, capped, entry, timer, beat, unheard>>
<1>1. left \in Int \cup {None}
  BY LifetimesAssumption
<1>2. call' \in CallType /\ call'.at = "crediting" /\ call'.here = call.here
  BY DEF Granted, Types, CallType
<1> DEFINE t == Touched(conn)
           new == [t EXCEPT !.licensed = TRUE, !.left = left]
<1>3. /\ t \in ConnType /\ t.silence = 0 /\ t.up = conn.up /\ t.hello = conn.hello
  BY TouchedType
<1>4. conn' = IF call.here THEN new ELSE conn
  BY DEF Granted
<1> HIDE DEF t
<1>5. /\ new \in ConnType /\ new.silence = 0 /\ new.left = left
      /\ new.up = conn.up /\ new.hello = conn.hello
  BY <1>1, <1>3 DEF ConnType
<1> HIDE DEF new
<1> QED BY <1>2, <1>4, <1>5 DEF Granted, Types

\* What the engine registry's own operations make of the entry.
LEMMA EntryEffect ==
    ASSUME Types
    PROVE  /\ Heard \in EntryType
           /\ entry.health = "unknown" => Heard = entry
           /\ entry.health # "unknown" => Heard.health = "online" /\ Heard.silence = 0
           /\ Swept \in EntryType /\ Swept.silence = entry.silence
           /\ entry.health = "unknown" <=> Swept.health = "unknown"
           /\ Swept.health = "online" => entry.health = "online" /\ entry.silence < StaleAfter
           /\ Swept.health = "stale" => entry.silence >= StaleAfter \/ entry.health = "stale"
           /\ Swept.health \notin {"unknown", "offline"} =>
                 /\ entry.silence < RegistryOfflineAfter
                 /\ entry.health \notin {"unknown", "offline"} 
<1>1. /\ Heard \in EntryType
      /\ entry.health = "unknown" => Heard = entry
      /\ entry.health # "unknown" => Heard.health = "online" /\ Heard.silence = 0
  BY GoneType DEF Heard, Types, EntryType
<1> DEFINE health ==
        IF entry.health = "unknown" THEN entry.health
        ELSE IF entry.silence >= RegistryOfflineAfter THEN "offline"
        ELSE IF entry.silence >= StaleAfter /\ entry.health = "online" THEN "stale"
        ELSE entry.health
<1>2. /\ Swept \in EntryType /\ Swept.silence = entry.silence /\ Swept.health = health
  BY DEF Swept, Types, EntryType
<1>3. entry.silence \in Int /\ StaleAfter \in Int /\ RegistryOfflineAfter \in Int
  BY Numbers DEF Types, EntryType, Silence
<1> QED BY <1>1, <1>2, <1>3

LEMMA HelloEffect ==
    ASSUME Types, Hello
    PROVE  /\ conn' \in ConnType /\ conn.up /\ conn'.up /\ conn'.hello
           /\ conn'.licensed = conn.licensed
           /\ conn'.silence = 0 /\ conn'.left = conn.left
           /\ UNCHANGED <<room, capped, entry, call, timer, beat, unheard>>
<1> DEFINE t == Touched(conn)
<1>1. /\ t \in ConnType /\ t.silence = 0 /\ t.up = conn.up
      /\ t.licensed = conn.licensed /\ t.left = conn.left
  BY TouchedType
<1>2. conn' = [t EXCEPT !.hello = TRUE]
  BY DEF Hello
<1> HIDE DEF t
<1> QED BY <1>1, <1>2 DEF Hello, ConnType

LEMMA ConnectEffect ==
    ASSUME Connect
    PROVE  /\ conn' \in ConnType /\ ~conn.up /\ conn'.up /\ ~conn'.hello /\ ~conn'.licensed
           /\ conn'.silence = 0 /\ conn'.left = None /\ beat' = 0 /\ unheard' = 0
           /\ UNCHANGED <<room, capped, entry, call, timer>>
BY GoneType DEF Connect, Gone, ConnType

\* The messages that touch the connection and leave its license as it is.
TouchesConn == Telemetry \/ Heartbeat \/ AwarenessError

LEMMA TouchesEffect ==
    ASSUME Types, TouchesConn
    PROVE  /\ conn' = Touched(conn)
           /\ entry' \in EntryType /\ UNCHANGED <<call, timer, unheard>>
<1>1. [entry EXCEPT !.health = "error"] \in EntryType /\ entry \in EntryType
  BY DEF Types, EntryType
<1>2. CASE Telemetry
  BY <1>1, <1>2 DEF Telemetry
<1>3. CASE Heartbeat
  BY <1>1, <1>3, EntryEffect DEF Heartbeat
<1>4. CASE AwarenessError
  BY <1>1, <1>4 DEF AwarenessError
<1> QED BY <1>2, <1>3, <1>4 DEF TouchesConn

LEMMA LifeTypesStep ==
    ASSUME Types, [Next]_vars
    PROVE  Types'
<1>0. /\ conn \in ConnType /\ entry \in EntryType /\ call \in CallType
      /\ RoomOK /\ TimerOK /\ capped \in BOOLEAN /\ beat \in Silence /\ unheard \in Silence
      /\ 0 \in Silence /\ RoomsEvery \in Nat \ {0}
  BY GoneType, Numbers DEF Types
<1>1. timer.rooms \in Nat /\ timer.rooms <= RoomsEvery
  BY <1>0, EveryType DEF TimerOK, Timers
<1>2. ASSUME room' = None \/ room' \in Nat, UNCHANGED timer PROVE RoomOK' /\ TimerOK'
  BY <1>0, <1>1, <1>2 DEF RoomOK, TimerOK
<1>3. ASSUME UNCHANGED <<room, timer>> PROVE RoomOK' /\ TimerOK'
  BY <1>0, <1>3 DEF RoomOK, TimerOK
<1>4. CASE Tick
  <2>1. RoomOK'
    <3>1. room' = Sooner(room) /\ timer'.rooms = timer.rooms - 1
      BY <1>4, TickEffect DEF Timers
    <3>2. CASE room = None
      BY <3>1, <3>2, SoonerType DEF RoomOK
    <3>3. CASE room # None
      BY <1>0, <1>1, <3>1, <3>3, SoonerType DEF RoomOK
    <3> QED BY <3>2, <3>3
  <2>2. beat' \in Silence /\ unheard' \in Silence
    BY <1>0, <1>4, TickEffect, LaterType
  <2> QED BY <1>0, <1>4, <2>1, <2>2, TickEffect DEF Types
<1>5. CASE Connect
  BY <1>0, <1>3, <1>5, ConnectEffect DEF Types
<1>6. CASE Disconnect
  BY <1>0, <1>2, <1>6, LeavesEffect, GoneType DEF Disconnect, Types
<1>7. CASE Hello
  BY <1>0, <1>3, <1>7, HelloEffect DEF Types
<1>8. CASE TouchesConn
  <2>1. conn' \in ConnType /\ entry' \in EntryType /\ UNCHANGED <<call, timer, unheard>>
    BY <1>8, TouchesEffect, TouchedType
  <2>2. (room' = None \/ room' \in Nat \/ room' = room) /\ capped' \in BOOLEAN
        /\ beat' \in Silence
    BY <1>0, <1>8, Numbers DEF TouchesConn, Telemetry, Heartbeat, AwarenessError
  <2> QED BY <1>0, <1>2, <1>3, <2>1, <2>2 DEF Types
<1>9. CASE Activation \/ Refused
  <2>1. call' \in CallType
    <3>1. [at |-> "granting", here |-> TRUE] \in CallType
      BY DEF CallType
    <3> QED BY <1>9, <3>1, NoCallType DEF Activation, Refused
  <2> QED BY <1>0, <1>3, <1>9, <2>1 DEF Activation, Refused, Types
<1>10. ASSUME NEW left \in Terms \cup {None}, Granted(left) PROVE Types'
  BY <1>0, <1>3, <1>10, GrantedEffect DEF Types
<1>11. CASE Registered
  BY <1>0, <1>3, <1>11, NoCallType DEF Registered, Types, EntryType
<1>12. ASSUME NEW requested \in Requests \cup {None}, Subscribe(requested) PROVE Types'
  <2>1. room' \in Nat /\ capped' \in BOOLEAN
    BY <1>0, <1>12, CappedTtlType DEF Subscribe, ConnType
  <2> QED BY <1>0, <1>2, <1>12, <2>1 DEF Subscribe, Types
<1>13. CASE Unsubscribe
  BY <1>0, <1>2, <1>13 DEF Unsubscribe, Types
<1>14. ASSUME NEW health \in {"online", "error"}, ManagerAgentSnapshot(health) PROVE Types'
  BY <1>0, <1>3, <1>14 DEF ManagerAgentSnapshot, Types, EntryType
<1>15. CASE SweepConnections
  <2>1. TimerOK' /\ timer'.rooms = timer.rooms
    BY <1>0, <1>15, RunEffect DEF SweepConnections, Timers
  <2>2. CASE Due
    <3>1. Leaves /\ unheard' = unheard
      BY <1>15, <2>2 DEF SweepConnections
    <3> QED BY <1>0, <2>1, <3>1, LeavesEffect, GoneType DEF Types, RoomOK
  <2>3. CASE ~Due
    BY <1>0, <1>15, <2>1, <2>3 DEF SweepConnections, Types, RoomOK
  <2> QED BY <2>2, <2>3
<1>16. CASE SweepRegistry
  <2>1. TimerOK' /\ timer'.rooms = timer.rooms
    BY <1>0, <1>16, RunEffect DEF SweepRegistry, Timers
  <2> QED BY <1>0, <1>16, <2>1, EntryEffect DEF SweepRegistry, Types, RoomOK
<1>17. CASE EvictExpired
  <2>1. TimerOK' /\ timer.rooms = 0 /\ timer'.rooms = RoomsEvery
    BY <1>0, <1>17, RunEffect, EveryType DEF EvictExpired, Timers
  <2>2. CASE room # None /\ room <= 0
    BY <1>0, <1>17, <2>1, <2>2 DEF EvictExpired, RoomOK, Types
  <2>3. CASE ~(room # None /\ room <= 0)
    <3>1. room' = room /\ UNCHANGED <<conn, entry, call, capped, beat, unheard>>
      BY <1>17, <2>3 DEF EvictExpired
    <3>2. RoomOK'
      BY <1>0, <2>1, <2>3, <3>1 DEF RoomOK
    <3> QED BY <1>0, <2>1, <3>1, <3>2 DEF Types
  <2> QED BY <2>2, <2>3
<1>18. CASE UNCHANGED vars
  BY <1>0, <1>3, <1>18 DEF vars, Types
<1> QED BY <1>4, <1>5, <1>6, <1>7, <1>8, <1>9, <1>10, <1>11, <1>12, <1>13, <1>14, <1>15,
           <1>16, <1>17, <1>18 DEF Next, TouchesConn

(* Every variable keeps its type: in particular no membership is overdue by *)
(* more than an interval of the sweep that evicts it.                       *)
THEOREM LifetimesTypeCorrect == Spec => []TypeOK
<1>1. Types /\ [Next]_vars => Types'
  BY LifeTypesStep
<1> QED BY <1>1, LifeTypesInitially, TypesAreTypeOK, PTL DEF Spec

-----------------------------------------------------------------------------
(* What only a connection has.                                             *)

Presence ==
    /\ ~conn.up => conn = Gone
    /\ conn.licensed => conn.hello
    /\ call.here => conn.hello
    /\ room # None => conn.hello

LEMMA HelloIsUp ==
    ASSUME Presence
    PROVE  (conn.hello => conn.up) /\ (~conn.up => room = None /\ ~call.here)
BY DEF Presence, Gone

LEMMA PresenceStep ==
    ASSUME Types, Presence, [Next]_vars
    PROVE  Presence'
<1>0. Gone.up = FALSE /\ Gone.hello = FALSE /\ Gone.licensed = FALSE
  BY DEF Gone
\* Nothing that matters here changes.
<1>1. ASSUME conn' = conn, call'.here => call.here, room' # None => room # None
      PROVE  Presence'
  BY <1>1 DEF Presence
<1>2. CASE Tick
  <2>1. room' # None => room # None
    BY <1>2, TickEffect, SoonerType
  <2> QED BY <1>2, <2>1, TickEffect DEF Presence
<1>3. CASE Connect
  BY <1>3, ConnectEffect, HelloIsUp
     DEF Presence
<1>4. ASSUME Leaves PROVE Presence'
  BY <1>0, <1>4, LeavesEffect DEF Presence
<1>5. CASE Hello
  BY <1>5, HelloEffect DEF Presence
<1>6. CASE TouchesConn
  <2>1. /\ conn'.up = conn.up /\ conn'.hello = conn.hello /\ conn'.licensed = conn.licensed
        /\ call' = call
    BY <1>6, TouchesEffect, TouchedType
  <2>2. room' # None => room # None
    BY <1>6 DEF TouchesConn, Telemetry, Heartbeat, AwarenessError
  <2>3. conn.up
    BY <1>6, HelloIsUp DEF TouchesConn, Telemetry, Heartbeat, AwarenessError, Presence
  <2> QED BY <2>1, <2>2, <2>3 DEF Presence
<1>7. CASE Activation
  <2>1. conn.hello /\ conn' = conn /\ room' = room
    BY <1>7 DEF Activation
  <2> QED BY <2>1 DEF Presence
<1>8. CASE Refused \/ Registered
  BY <1>1, <1>8 DEF Refused, Registered, NoCall
<1>9. ASSUME NEW left \in Terms \cup {None}, Granted(left) PROVE Presence'
  <2>1. CASE call.here
    <3>1. conn.hello /\ conn.up
      BY <2>1, HelloIsUp DEF Presence
    <3> QED BY <1>9, <3>1, GrantedEffect DEF Presence
  <2>2. CASE ~call.here
    BY <1>1, <1>9, <2>2, GrantedEffect
  <2> QED BY <2>1, <2>2
<1>10. ASSUME NEW requested \in Requests \cup {None}, Subscribe(requested) PROVE Presence'
  BY <1>10 DEF Subscribe, Presence
<1>11. ASSUME NEW health \in {"online", "error"}, ManagerAgentSnapshot(health)
       PROVE  Presence'
  BY <1>1, <1>11 DEF ManagerAgentSnapshot
<1>12. CASE Unsubscribe \/ SweepRegistry \/ EvictExpired \/ UNCHANGED vars
  BY <1>1, <1>12 DEF Unsubscribe, SweepRegistry, EvictExpired, vars
<1>13. CASE SweepConnections
  BY <1>1, <1>4, <1>13 DEF SweepConnections
<1> QED BY <1>2, <1>3, <1>4, <1>5, <1>6, <1>7, <1>8, <1>9, <1>10, <1>11, <1>12, <1>13
        DEF Next, TouchesConn, Disconnect

-----------------------------------------------------------------------------
(* The connection ends in time.                                            *)

\* The timer that ends a connection has not long to go when its silence or
\* what has passed of its license has grown long.
InTime ==
    /\ conn.silence + timer.connections <= OfflineAfter + ConnectionsEvery
    /\ conn.left # None => conn.left >= timer.connections - ConnectionsEvery

LEMMA InTimeStep ==
    ASSUME Types, Presence, InTime, [Next]_vars
    PROVE  InTime'
<1>0. /\ timer.connections \in Nat /\ timer.connections <= ConnectionsEvery
      /\ OfflineAfter \in Nat \ {0} /\ ConnectionsEvery \in Nat \ {0}
      /\ conn.silence \in Nat /\ conn.left \in Int \cup {None} /\ conn \in ConnType
  BY EveryType, Numbers DEF Types, TimerOK, Timers, ConnType, Silence
\* A connection that is new or was just heard of.
<1>1. ASSUME UNCHANGED timer, conn'.silence = 0 \/ conn'.silence = conn.silence,
             conn'.left = None \/ conn'.left = conn.left \/ conn'.left \in Nat
      PROVE  InTime'
  BY <1>0, <1>1 DEF InTime
<1>2. CASE Tick
  <2>1. timer'.connections = timer.connections - 1 /\ timer.connections > 0
    BY <1>2, TickEffect DEF Timers
  <2>2. CASE conn.up
    <3>1. conn'.silence \in Nat /\ conn'.silence <= conn.silence + 1
      <4>1. conn'.silence = Later(conn.silence) /\ conn.silence \in Silence
        BY <1>0, <1>2, <2>2, TickEffect DEF ConnType
      <4>2. Later(conn.silence) \in Silence /\ Later(conn.silence) <= conn.silence + 1
        BY <4>1, LaterType
      <4> QED BY <4>1, <4>2, Numbers DEF Silence
    <3>2. conn'.left = Sooner(conn.left)
      BY <1>2, <2>2, TickEffect
    <3>3. CASE conn.left = None
      BY <1>0, <2>1, <3>1, <3>2, <3>3, SoonerType DEF InTime
    <3>4. CASE conn.left # None
      BY <1>0, <2>1, <3>1, <3>2, <3>4, SoonerType DEF InTime
    <3> QED BY <3>3, <3>4
  <2>3. CASE ~conn.up
    <3>1. conn' = conn /\ conn.silence = 0 /\ conn.left = None
      BY <1>2, <2>3, TickEffect DEF Presence, Gone
    <3> QED BY <1>0, <2>1, <3>1 DEF InTime
  <2> QED BY <2>2, <2>3
<1>3. ASSUME Leaves, timer'.connections \in Nat, timer'.connections <= ConnectionsEvery
      PROVE  InTime'
  BY <1>0, <1>3, LeavesEffect DEF InTime, Gone
<1>4. CASE Disconnect
  BY <1>0, <1>3, <1>4 DEF Disconnect
<1>5. CASE Connect \/ Hello \/ TouchesConn
  <2>1. UNCHANGED timer /\ conn'.silence = 0 /\ (conn'.left = None \/ conn'.left = conn.left)
    BY <1>5, ConnectEffect, HelloEffect, TouchesEffect, TouchedType
  <2> QED BY <1>1, <2>1
<1>6. ASSUME NEW left \in Terms \cup {None}, Granted(left) PROVE InTime'
  <2>1. left = None \/ left \in Nat
    BY LifetimesAssumption
  <2> QED BY <1>1, <1>6, <2>1, GrantedEffect
<1>7. ASSUME \/ Activation \/ Refused \/ Registered \/ Unsubscribe
             \/ \E requested \in Requests \cup {None} : Subscribe(requested)
             \/ \E health \in {"online", "error"} : ManagerAgentSnapshot(health)
             \/ UNCHANGED vars
      PROVE  InTime'
  BY <1>1, <1>7 DEF Activation, Refused, Registered, Unsubscribe, Subscribe,
                    ManagerAgentSnapshot, vars
<1>8. CASE SweepConnections
  <2>1. timer'.connections = ConnectionsEvery /\ timer.connections = 0
    BY <1>8, RunEffect, EveryType DEF SweepConnections, Types, Timers
  <2>2. CASE Due
    BY <1>0, <1>3, <1>8, <2>1, <2>2 DEF SweepConnections
  <2>3. CASE ~Due
    <3>1. conn' = conn
      BY <1>8, <2>3 DEF SweepConnections
    <3>2. conn.silence <= OfflineAfter /\ (conn.left # None => conn.left > 0)
      BY <1>0, <2>3 DEF Due, Expired, Presence, Gone
    <3> QED BY <1>0, <2>1, <3>1, <3>2 DEF InTime
  <2> QED BY <2>2, <2>3
<1>9. CASE SweepRegistry \/ EvictExpired
  <2>1. conn' = conn /\ timer'.connections = timer.connections
    BY <1>9, RunEffect DEF SweepRegistry, EvictExpired, Types, Timers
  <2> QED BY <2>1 DEF InTime
<1> QED BY <1>2, <1>4, <1>5, <1>6, <1>7, <1>8, <1>9 DEF Next, TouchesConn

ConnectionInv == Types /\ Presence /\ InTime

LEMMA ConnectionInitially == Init => ConnectionInv
<1> SUFFICES ASSUME Init PROVE ConnectionInv
  OBVIOUS
<1>1. conn = Gone /\ room = None /\ call = NoCall /\ timer.connections = ConnectionsEvery
  BY EveryType DEF Init
<1>2. Presence
  BY <1>1 DEF Presence, Gone, NoCall
<1>3. InTime
  BY <1>1, Numbers DEF InTime, Gone
<1> QED BY <1>2, <1>3, LifeTypesInitially DEF ConnectionInv

LEMMA ConnectionStep == ConnectionInv /\ [Next]_vars => ConnectionInv'
BY LifeTypesStep, PresenceStep, InTimeStep DEF ConnectionInv

(* A connection ends within an interval of its sweep once its engine is     *)
(* silent for OfflineAfter or its license has run out, and with it its      *)
(* membership, however the engine beats.                                    *)
THEOREM ConnectionsEndInTime == Spec => []ConnectionsEnd
<1>1. ASSUME ConnectionInv PROVE ConnectionsEnd
  <2>1. timer.connections \in Nat /\ conn.silence \in Nat /\ conn.left \in Int \cup {None}
    BY <1>1 DEF ConnectionInv, Types, TimerOK, Timers, ConnType, Silence
  <2>2. /\ conn.silence <= OfflineAfter + ConnectionsEvery
        /\ conn.left # None => conn.left >= -ConnectionsEvery
    BY <1>1, <2>1, Numbers DEF ConnectionInv, InTime
  <2>3. room # None => conn.up
    BY <1>1, HelloIsUp DEF ConnectionInv, Presence
  <2> QED BY <2>2, <2>3 DEF ConnectionsEnd
<1> QED BY <1>1, ConnectionInitially, ConnectionStep, PTL DEF Spec

-----------------------------------------------------------------------------
(* An engine nothing speaks for goes offline.                              *)

\* The registry has heard of the engine no later than anything could speak for
\* it, and its sweep will come in time.
Silenced ==
    /\ conn.up \/ call.at # "idle" => unheard = 0
    /\ unheard <= entry.silence
    /\ entry.health = "online" => unheard + timer.registry < StaleAfter + RegistryEvery
    /\ entry.health \notin {"unknown", "offline"} =>
          unheard + timer.registry < RegistryOfflineAfter + RegistryEvery

LEMMA SilencedStep ==
    ASSUME Types, Presence, Silenced, [Next]_vars
    PROVE  Silenced'
<1>0. /\ timer.registry \in Nat /\ timer.registry <= RegistryEvery
      /\ StaleAfter \in Nat \ {0} /\ RegistryOfflineAfter \in Nat \ {0}
      /\ RegistryEvery \in Nat \ {0}
      /\ unheard \in Nat /\ unheard \in Silence
      /\ entry.silence \in Nat /\ entry.silence \in Silence
  BY EveryType, Numbers DEF Types, TimerOK, Timers, EntryType, Silence
\* Something speaks for the engine.
<1>1. ASSUME unheard' = 0, entry'.silence \in Nat, timer'.registry \in Nat,
             timer'.registry <= RegistryEvery
      PROVE  Silenced'
  BY <1>0, <1>1 DEF Silenced
\* Nothing does, and the entry is not called better than it was.
<1>2. ASSUME UNCHANGED <<unheard, timer>>, entry'.silence = entry.silence,
             entry'.health \in {entry.health, "offline"},
             conn'.up \/ call'.at # "idle" => conn.up \/ call.at # "idle"
      PROVE  Silenced'
  BY <1>0, <1>2 DEF Silenced
<1>3. CASE Tick
  <2>1. timer'.registry = timer.registry - 1 /\ timer.registry > 0
        /\ entry'.health = entry.health /\ entry'.silence = Later(entry.silence)
    BY <1>3, TickEffect DEF Timers
  <2>2. entry'.silence \in Nat
    BY <1>0, <2>1, LaterType, Numbers DEF Silence
  <2>3. CASE conn.up \/ call.at # "idle"
    BY <1>0, <1>1, <1>3, <2>1, <2>2, <2>3, TickEffect
  <2>4. CASE ~(conn.up \/ call.at # "idle")
    <3>1. unheard' = Later(unheard) /\ conn' = conn /\ call' = call
      BY <1>3, <2>4, TickEffect
    <3>2. unheard <= entry.silence
      BY DEF Silenced
    <3>3. unheard' \in Silence /\ unheard' <= unheard + 1
      BY <1>0, <3>1, LaterType
    <3>4. unheard' <= entry'.silence
      BY <1>0, <2>1, <3>1, <3>2, LaterMonotone
    <3>5. unheard' \in Nat
      BY <3>3, Numbers DEF Silence
    <3> QED BY <1>0, <2>1, <2>4, <3>1, <3>3, <3>4, <3>5 DEF Silenced
  <2> QED BY <2>3, <2>4
<1>4. CASE Connect
  BY <1>0, <1>1, <1>4, ConnectEffect
<1>5. ASSUME Leaves, UNCHANGED unheard, timer'.registry = timer.registry PROVE Silenced'
  BY <1>0, <1>5, LeavesEffect DEF Silenced, Gone
<1>6. CASE Hello
  BY <1>2, <1>6, HelloEffect
<1>7. CASE TouchesConn
  <2>1. unheard = 0 /\ UNCHANGED <<call, timer, unheard>> /\ entry' \in EntryType
    BY <1>7, HelloIsUp, TouchesEffect
       DEF TouchesConn, Telemetry, Heartbeat, AwarenessError, Silenced, Presence
  <2>2. entry'.silence \in Nat
    BY <2>1, Numbers DEF EntryType, Silence
  <2> QED BY <1>0, <1>1, <2>1, <2>2
<1>8. CASE Activation
  <2>1. unheard = 0 /\ UNCHANGED <<conn, entry, timer, unheard>>
    BY <1>8, HelloIsUp DEF Activation, Silenced
  <2> QED BY <1>0, <1>1, <2>1
<1>9. CASE Refused
  BY <1>2, <1>9 DEF Refused, NoCall
<1>10. ASSUME NEW left \in Terms \cup {None}, Granted(left) PROVE Silenced'
  <2>1. unheard = 0 /\ UNCHANGED <<entry, timer, unheard>>
    BY <1>10, GrantedEffect DEF Silenced
  <2> QED BY <1>0, <1>1, <2>1
<1>11. ASSUME \/ Registered
              \/ \E health \in {"online", "error"} : ManagerAgentSnapshot(health)
       PROVE  Silenced'
  <2>1. unheard' = 0 /\ entry'.silence = 0 /\ timer' = timer
    BY <1>11 DEF Registered, ManagerAgentSnapshot
  <2> QED BY <1>0, <1>1, <2>1
<1>12. ASSUME \/ \E requested \in Requests \cup {None} : Subscribe(requested)
              \/ Unsubscribe \/ UNCHANGED vars
       PROVE  Silenced'
  BY <1>2, <1>12 DEF Subscribe, Unsubscribe, vars
<1>13. CASE SweepConnections
  <2>1. timer'.registry = timer.registry
    BY <1>13, RunEffect DEF SweepConnections, Types, Timers
  <2>2. CASE Due
    BY <1>5, <1>13, <2>1, <2>2 DEF SweepConnections
  <2>3. CASE ~Due
    BY <1>13, <2>1, <2>3 DEF SweepConnections, Silenced
  <2> QED BY <2>2, <2>3
<1>14. CASE SweepRegistry
  <2>1. /\ timer'.registry = RegistryEvery /\ entry' = Swept
        /\ UNCHANGED <<conn, call, unheard>>
    BY <1>14, RunEffect, EveryType DEF SweepRegistry, Types, Timers
  <2>2. /\ entry'.silence = entry.silence
        /\ entry'.health = "online" => entry.silence < StaleAfter
        /\ entry'.health \notin {"unknown", "offline"} => entry.silence < RegistryOfflineAfter
    BY <2>1, EntryEffect
  <2> QED BY <1>0, <2>1, <2>2 DEF Silenced
<1>15. CASE EvictExpired
  <2>1. timer'.registry = timer.registry /\ UNCHANGED <<conn, entry, call, unheard>>
    BY <1>15, RunEffect DEF EvictExpired, Types, Timers
  <2> QED BY <2>1 DEF Silenced
<1> QED BY <1>3, <1>4, <1>5, <1>6, <1>7, <1>8, <1>9, <1>10, <1>11, <1>12, <1>13, <1>14,
           <1>15 DEF Next, TouchesConn, Disconnect

SilencedInv == Types /\ Presence /\ Silenced

(* An engine that nothing speaks for is no longer called online after       *)
(* StaleAfter and an interval of the sweep, and is called offline after     *)
(* RegistryOfflineAfter and an interval, whatever registered it last.       *)
THEOREM UnheardGoesOffline == Spec => []UnheardIsOffline
<1>1. Init => SilencedInv
  <2> SUFFICES ASSUME Init PROVE SilencedInv
    OBVIOUS
  <2>1. Silenced
    BY Numbers DEF Init, Silenced, Gone, NoCall
  <2> QED BY <2>1, ConnectionInitially, LifeTypesInitially DEF SilencedInv, ConnectionInv
<1>2. SilencedInv /\ [Next]_vars => SilencedInv'
  BY LifeTypesStep, PresenceStep, SilencedStep DEF SilencedInv
<1>3. ASSUME SilencedInv PROVE UnheardIsOffline
  <2>1. timer.registry \in Nat /\ unheard \in Nat
    BY <1>3, Numbers DEF SilencedInv, Types, TimerOK, Timers, Silence
  <2> QED BY <1>3, <2>1, Numbers DEF SilencedInv, Silenced, UnheardIsOffline
<1> QED BY <1>1, <1>2, <1>3, PTL DEF Spec

-----------------------------------------------------------------------------
(* An engine that beats is not stale.                                      *)

\* What is stale was silent for that long, and the registry heard of a
\* licensed engine no later than its last beat.
Beaten ==
    /\ entry.health = "stale" => entry.silence >= StaleAfter
    /\ conn.licensed /\ call.at # "crediting" =>
          entry.health # "unknown" /\ entry.silence <= beat

LEMMA BeatenStep ==
    ASSUME Types, Presence, Beaten, [Next]_vars
    PROVE  Beaten'
<1>0. /\ StaleAfter \in Nat \ {0} /\ 0 \in Silence
      /\ beat \in Nat /\ beat \in Silence
      /\ entry.silence \in Nat /\ entry.silence \in Silence
  BY Numbers, GoneType DEF Types, EntryType, Silence
\* The entry and the beat are as they were, and nothing is licensed.
<1>1. ASSUME UNCHANGED <<entry, beat>>,
             conn'.licensed /\ call'.at # "crediting" => conn.licensed /\ call.at # "crediting"
      PROVE  Beaten'
  BY <1>1 DEF Beaten
\* The registry hears of the engine.
<1>2. ASSUME entry'.silence = 0, entry'.health \in {"online", "error"}, beat' \in Nat
      PROVE  Beaten'
  BY <1>2 DEF Beaten
<1>3. CASE Tick
  <2>1. /\ entry'.health = entry.health /\ entry'.silence = Later(entry.silence)
        /\ beat' = Later(beat) /\ conn'.licensed = conn.licensed /\ call' = call
    BY <1>3, TickEffect
  <2>2. entry'.silence \in Nat /\ entry'.silence >= entry.silence
    BY <1>0, <2>1, LaterType, Numbers DEF Silence
  <2>3. entry.silence <= beat => entry'.silence <= beat'
    BY <1>0, <2>1, LaterMonotone
  <2> QED BY <1>0, <2>1, <2>2, <2>3 DEF Beaten
<1>4. CASE Connect
  BY <1>4, ConnectEffect DEF Beaten
<1>5. ASSUME Leaves PROVE Beaten'
  BY <1>5, LeavesEffect DEF Beaten, Gone
<1>6. CASE Hello
  BY <1>1, <1>6, HelloEffect
<1>7. CASE Telemetry
  <2>1. conn'.licensed = conn.licensed
    BY <1>7, TouchesEffect, TouchedType DEF TouchesConn
  <2> QED BY <1>1, <1>7, <2>1 DEF Telemetry
<1>8. CASE Heartbeat
  <2>1. conn'.licensed = conn.licensed /\ call' = call
    BY <1>8, TouchesEffect, TouchedType DEF TouchesConn
  <2>2. CASE Expired
    BY <1>1, <1>8, <2>1, <2>2 DEF Heartbeat
  <2>3. CASE ~Expired /\ conn.hello
    <3>1. entry' = Heard /\ beat' = 0
      BY <1>8, <2>3 DEF Heartbeat
    <3>2. CASE entry.health = "unknown"
      BY <2>1, <3>1, <3>2, EntryEffect DEF Beaten
    <3>3. CASE entry.health # "unknown"
      BY <1>2, <3>1, <3>3, EntryEffect
    <3> QED BY <3>2, <3>3
  <2>4. CASE ~Expired /\ ~conn.hello
    BY <1>8, <2>1, <2>4 DEF Heartbeat, Beaten, Presence
  <2> QED BY <2>2, <2>3, <2>4
<1>9. CASE AwarenessError
  <2>1. conn'.licensed = conn.licensed /\ call' = call
    BY <1>9, TouchesEffect, TouchedType DEF TouchesConn
  <2>2. CASE entry.health = "unknown"
    BY <1>1, <1>9, <2>1, <2>2 DEF AwarenessError
  <2>3. CASE entry.health # "unknown"
    <3>1. entry'.health = "error" /\ entry'.silence = entry.silence /\ beat' = beat
      BY <1>9, <2>3 DEF AwarenessError, Types, EntryType
    <3> QED BY <2>1, <3>1 DEF Beaten
  <2> QED BY <2>2, <2>3
<1>10. CASE Activation
  BY <1>1, <1>10 DEF Activation, NoCall
<1>11. CASE Refused
  BY <1>1, <1>11 DEF Refused
<1>12. ASSUME NEW left \in Terms \cup {None}, Granted(left) PROVE Beaten'
  BY <1>1, <1>12, GrantedEffect
<1>13. CASE Registered
  BY <1>0, <1>2, <1>13 DEF Registered
<1>14. ASSUME NEW health \in {"online", "error"}, ManagerAgentSnapshot(health) PROVE Beaten'
  BY <1>0, <1>2, <1>14 DEF ManagerAgentSnapshot
<1>15. ASSUME \/ \E requested \in Requests \cup {None} : Subscribe(requested)
              \/ Unsubscribe \/ EvictExpired \/ UNCHANGED vars
       PROVE  Beaten'
  BY <1>1, <1>15 DEF Subscribe, Unsubscribe, EvictExpired, vars
<1>16. CASE SweepConnections
  BY <1>1, <1>5, <1>16 DEF SweepConnections
<1>17. CASE SweepRegistry
  <2>1. entry' = Swept /\ UNCHANGED <<conn, call, beat>>
    BY <1>17 DEF SweepRegistry
  <2> QED BY <2>1, EntryEffect DEF Beaten
<1> QED BY <1>3, <1>4, <1>5, <1>6, <1>7, <1>8, <1>9, <1>10, <1>11, <1>12, <1>13, <1>14,
           <1>15, <1>16, <1>17 DEF Next, Disconnect

BeatenInv == Types /\ Presence /\ Beaten

(* The registry never calls a licensed engine stale that has beaten within  *)
(* StaleAfter, once its activation has reached register: not for what an    *)
(* earlier connection, another message or an early heartbeat left behind.   *)
THEOREM BeatingEngineIsNotStale == Spec => []BeatingIsNotStale
<1>1. Init => BeatenInv
  <2> SUFFICES ASSUME Init PROVE BeatenInv
    OBVIOUS
  <2>1. Beaten
    BY DEF Init, Beaten, Gone
  <2> QED BY <2>1, ConnectionInitially, LifeTypesInitially DEF BeatenInv, ConnectionInv
<1>2. BeatenInv /\ [Next]_vars => BeatenInv'
  BY LifeTypesStep, PresenceStep, BeatenStep DEF BeatenInv
<1>3. ASSUME BeatenInv PROVE BeatingIsNotStale
  <2>1. entry.silence \in Nat /\ beat \in Nat
    BY <1>3, Numbers DEF BeatenInv, Types, EntryType, Silence
  <2> QED BY <1>3, <2>1, Numbers DEF BeatenInv, Beaten, BeatingIsNotStale
<1> QED BY <1>1, <1>2, <1>3, PTL DEF Spec

-----------------------------------------------------------------------------
(* An engine that beats keeps its room.                                    *)

\* A membership its license has not cut outlasts the wait for a heartbeat.
Outlasts ==
    room # None /\ ~capped => beat >= HeartbeatEvery \/ room + beat >= HeartbeatEvery

RoomInv == Types /\ Presence /\ Outlasts

LEMMA SumReaches ==
    ASSUME NEW x \in Nat, NEW y \in Nat, NEW least \in Nat, ~(x < least)
    PROVE  x + y >= least
OBVIOUS

LEMMA OutlastsStep ==
    ASSUME RoomInv, [Next]_vars
    PROVE  Outlasts'
<1>0. /\ Types /\ Presence /\ beat \in Nat /\ beat \in Silence
      /\ room \in Int \cup {None} /\ capped \in BOOLEAN
      /\ HeartbeatEvery \in Nat \ {0} /\ HeartbeatEvery < Horizon /\ Horizon \in Nat
      /\ DefaultTtl \in Nat /\ DefaultTtl > HeartbeatEvery /\ None \notin Int
  BY Numbers DEF RoomInv, Types, RoomOK, Silence
\* No membership, or the one there was.
<1>1. ASSUME room' = None \/ UNCHANGED <<room, capped, beat>> PROVE Outlasts'
  BY <1>1 DEF RoomInv, Outlasts
<1>2. CASE Tick
  <2>1. room' = Sooner(room) /\ beat' = Later(beat) /\ capped' = capped
    BY <1>0, <1>2, TickEffect
  <2>2. CASE room = None
    BY <1>1, <2>1, <2>2, SoonerType
  <2>3. CASE room # None
    <3>1. room' \in Int /\ room' >= room - 1
      BY <1>0, <2>1, <2>3, SoonerType
    <3>2. beat' = IF beat < Horizon THEN beat + 1 ELSE beat
      BY <2>1 DEF Later
    <3>3. CASE beat < Horizon
      BY <1>0, <2>1, <2>3, <3>1, <3>2, <3>3 DEF RoomInv, Outlasts
    <3>4. CASE ~(beat < Horizon)
      BY <1>0, <3>2, <3>4 DEF Outlasts
    <3> QED BY <3>3, <3>4
  <2> QED BY <2>2, <2>3
<1>3. CASE Connect
  BY <1>0, <1>1, <1>3, ConnectEffect, HelloIsUp
<1>4. ASSUME Leaves PROVE Outlasts'
  BY <1>0, <1>1, <1>4, LeavesEffect
<1>5. CASE Hello
  BY <1>0, <1>1, <1>5, HelloEffect
<1>6. CASE Telemetry \/ AwarenessError
  BY <1>1, <1>6 DEF Telemetry, AwarenessError
<1>7. CASE Heartbeat
  <2>1. CASE Expired
    BY <1>1, <1>7, <2>1 DEF Heartbeat
  <2>2. CASE ~Expired /\ conn.hello
    <3>1. /\ room' = IF room = None THEN None ELSE DefaultTtl
          /\ beat' = 0
      BY <1>7, <2>2 DEF Heartbeat
    <3> QED BY <1>0, <3>1 DEF Outlasts
  <2>3. CASE ~Expired /\ ~conn.hello
    BY <1>0, <1>1, <1>7, <2>3 DEF Heartbeat, Presence
  <2> QED BY <2>1, <2>2, <2>3
<1>8. ASSUME NEW left \in Terms \cup {None}, Granted(left) PROVE Outlasts'
  BY <1>0, <1>1, <1>8, GrantedEffect
<1>9. ASSUME NEW requested \in Requests \cup {None}, Subscribe(requested) PROVE Outlasts'
  <2>1. room' \in Nat
    BY <1>0, <1>9, CappedTtlType DEF Subscribe, Types, ConnType
  <2>2. beat' = beat /\ (~capped' => ~(room' < HeartbeatEvery))
    BY <1>9, Zenon DEF Subscribe
  <2>3. CASE capped'
    BY <2>3, Zenon DEF Outlasts
  <2>4. CASE ~capped'
    <3>1. beat' = beat /\ ~(room' < HeartbeatEvery)
      BY <2>2, <2>4, Zenon
    <3>2. beat \in Nat /\ HeartbeatEvery \in Nat
      BY <1>0
    <3>3. room' + beat' >= HeartbeatEvery
      BY <2>1, <3>1, <3>2, SumReaches, Zenon
    <3> QED BY <3>3, Zenon DEF Outlasts
  <2> QED BY <2>3, <2>4, Zenon
<1>10. ASSUME \/ Activation \/ Refused \/ Registered \/ Unsubscribe
              \/ \E health \in {"online", "error"} : ManagerAgentSnapshot(health)
              \/ UNCHANGED vars
       PROVE  Outlasts'
  BY <1>1, <1>10 DEF Activation, Refused, Registered, Unsubscribe, ManagerAgentSnapshot, vars
<1>11. CASE SweepConnections
  BY <1>1, <1>4, <1>11 DEF SweepConnections
<1>12. CASE SweepRegistry \/ EvictExpired
  BY <1>1, <1>12 DEF SweepRegistry, EvictExpired
<1> QED BY <1>2, <1>3, <1>4, <1>5, <1>6, <1>7, <1>8, <1>9, <1>10, <1>11, <1>12
        DEF Next, Disconnect

\* The steps by which a membership ends.
LEMMA RoomEnds ==
    ASSUME RoomInv, [Next]_vars, room # None, room' = None
    PROVE  Unsubscribe \/ ~conn'.up \/ capped \/ beat >= HeartbeatEvery
<1>0. /\ Types /\ room \in Int /\ beat \in Nat /\ HeartbeatEvery \in Nat /\ None \notin Int
  BY Numbers DEF RoomInv, Types, RoomOK, Silence
<1>1. ASSUME Leaves PROVE ~conn'.up
  BY <1>0, <1>1, LeavesEffect DEF Gone
<1>2. ASSUME EvictExpired PROVE capped \/ beat >= HeartbeatEvery
  <2>1. room <= 0
    BY <1>2 DEF EvictExpired
  <2> QED BY <1>0, <2>1 DEF RoomInv, Outlasts
<1>3. ASSUME Tick PROVE FALSE
  BY <1>0, <1>3, TickEffect, SoonerType
<1>4. ASSUME Connect \/ Hello \/ (\E left \in Terms \cup {None} : Granted(left))
      PROVE  FALSE
  BY <1>0, <1>4, ConnectEffect, HelloEffect, GrantedEffect
<1>5. ASSUME Telemetry \/ AwarenessError \/ Activation \/ Refused \/ Registered
             \/ (\E health \in {"online", "error"} : ManagerAgentSnapshot(health))
             \/ SweepRegistry \/ UNCHANGED vars
      PROVE  FALSE
  BY <1>5 DEF Telemetry, AwarenessError, Activation, Refused, Registered,
              ManagerAgentSnapshot, SweepRegistry, vars
<1>6. ASSUME Heartbeat PROVE FALSE
  BY <1>0, <1>6, Numbers DEF Heartbeat
<1>7. ASSUME NEW requested \in Requests \cup {None}, Subscribe(requested) PROVE FALSE
  <2>1. room' \in Nat
    BY <1>0, <1>7, CappedTtlType DEF Subscribe, Types, ConnType
  <2> QED BY <1>0, <2>1
<1>8. ASSUME SweepConnections PROVE ~conn'.up
  BY <1>1, <1>8 DEF SweepConnections
<1> QED BY <1>1, <1>2, <1>3, <1>4, <1>5, <1>6, <1>7, <1>8 DEF Next, Disconnect

(* A member of a room loses it only by its own wish, with its connection,   *)
(* if its license cut the time of its membership, or if a heartbeat before  *)
(* expiry was due.                                                          *)
THEOREM BeatingEngineKeepsRoom == Spec => BeatingKeepsRoom
<1>1. Init => RoomInv
  <2> SUFFICES ASSUME Init PROVE RoomInv
    OBVIOUS
  <2>1. Outlasts
    BY DEF Init, Outlasts
  <2> QED BY <2>1, ConnectionInitially, LifeTypesInitially DEF RoomInv, ConnectionInv
<1>2. RoomInv /\ [Next]_vars => RoomInv'
  BY LifeTypesStep, PresenceStep, OutlastsStep DEF RoomInv
<1>3. ASSUME RoomInv, [Next]_vars
      PROVE  [room # None /\ room' = None =>
                \/ Unsubscribe \/ ~conn'.up \/ capped \/ beat >= HeartbeatEvery]_vars
  BY <1>3, RoomEnds
<1> QED BY <1>1, <1>2, <1>3, PTL DEF Spec, BeatingKeepsRoom
=============================================================================
