------------------------- MODULE MetricDemandProofs -------------------------
(***************************************************************************)
(* Proofs about MetricDemand, for every set of dashboards, users, engines  *)
(* and any number of ownership checks under way.                           *)
(***************************************************************************)
EXTENDS MetricDemand, TLAPS

-----------------------------------------------------------------------------
(* Who watches, after a change of one entry.                               *)

LEMMA SetEntry ==
    ASSUME NEW v, NEW entry
    PROVE  /\ DOMAIN Set(v, entry) = DOMAIN dash \cup {v}
           /\ Set(v, entry)[v] = entry
           /\ \A u \in DOMAIN dash \ {v} : Set(v, entry)[u] = dash[u]
BY DEF Set

LEMMA SetWatching ==
    ASSUME NEW v, NEW entry, NEW e
    PROVE  /\ Watching(Set(v, entry), e) =
                 IF entry.engine = e THEN Watching(dash, e) \cup {v}
                                     ELSE Watching(dash, e) \ {v}
           /\ WatchingSignal(Set(v, entry)) =
                 IF entry.signal THEN WatchingSignal(dash) \cup {v}
                                 ELSE WatchingSignal(dash) \ {v}
<1>1. \A u : u \in DOMAIN Set(v, entry) <=> u = v \/ u \in DOMAIN dash
  BY DEF Set
<1>2. Set(v, entry)[v] = entry /\ \A u \in DOMAIN dash \ {v} : Set(v, entry)[u] = dash[u]
  BY DEF Set
<1>3. \A u : u \in Watching(Set(v, entry), e) <=>
        IF u = v THEN entry.engine = e ELSE u \in Watching(dash, e)
  BY <1>1, <1>2, Zenon DEF Watching
<1>4. \A u : u \in WatchingSignal(Set(v, entry)) <=>
        IF u = v THEN entry.signal ELSE u \in WatchingSignal(dash)
  BY <1>1, <1>2, Zenon DEF WatchingSignal
<1> QED BY <1>3, <1>4

LEMMA WithoutEntry ==
    ASSUME NEW v
    PROVE  /\ DOMAIN Without(v) = DOMAIN dash \ {v}
           /\ \A u \in DOMAIN dash \ {v} : Without(v)[u] = dash[u]
BY DEF Without

LEMMA WithoutWatching ==
    ASSUME NEW v, NEW e
    PROVE  /\ Watching(Without(v), e) = Watching(dash, e) \ {v}
           /\ WatchingSignal(Without(v)) = WatchingSignal(dash) \ {v}
BY WithoutEntry DEF Watching, WatchingSignal

-----------------------------------------------------------------------------
(* Types.                                                                  *)

\* Telling engines keeps the types.
LEMMA TellEnginesType ==
    ASSUME TypeOK, NEW d, NEW E, TellEngines(d, E)
    PROVE  /\ told' \in [Engines -> BOOLEAN]
           /\ dropped' \in [engines : SUBSET Engines, signal : BOOLEAN]
BY DEF TellEngines, TypeOK

\* An entry of the type put for a socket keeps the types of the table.
LEMMA SetType ==
    ASSUME TypeOK, NEW v, NEW entry \in Entry, dash' = Set(v, entry),
           socket \cup {v} \subseteq socket'
    PROVE  /\ DOMAIN dash' \subseteq socket'
           /\ \A u \in DOMAIN dash' : dash'[u] \in Entry
<1>1. /\ DOMAIN dash' = DOMAIN dash \cup {v}
      /\ dash'[v] = entry
      /\ \A u \in DOMAIN dash \ {v} : dash'[u] = dash[u]
  BY DEF Set
<1>2. DOMAIN dash \subseteq socket /\ \A u \in DOMAIN dash : dash[u] \in Entry
  BY DEF TypeOK
<1> QED BY <1>1, <1>2

\* So does an entry removed, be its socket kept or not.
LEMMA WithoutType ==
    ASSUME TypeOK, NEW v, dash' = Without(v), socket \ {v} \subseteq socket'
    PROVE  /\ DOMAIN dash' \subseteq socket'
           /\ \A u \in DOMAIN dash' : dash'[u] \in Entry
<1>1. /\ DOMAIN dash' = DOMAIN dash \ {v}
      /\ \A u \in DOMAIN dash \ {v} : dash'[u] = dash[u]
  BY WithoutEntry
<1>2. DOMAIN dash \subseteq socket /\ \A u \in DOMAIN dash : dash[u] \in Entry
  BY DEF TypeOK
<1> QED BY <1>1, <1>2

LEMMA DemandTypeInitially == Init => TypeOK
<1> SUFFICES ASSUME Init PROVE TypeOK
  OBVIOUS
<1>1. DOMAIN dash = {}
  BY DEF Init
<1>2. /\ DOMAIN dash \subseteq socket
      /\ \A v \in DOMAIN dash : dash[v] \in Entry
  BY <1>1
<1> QED BY <1>2 DEF Init, TypeOK

LEMMA DemandTypeStep ==
    ASSUME TypeOK, [Next]_vars
    PROVE  TypeOK'
<1> DEFINE TableOK == /\ DOMAIN dash' \subseteq socket'
                      /\ \A u \in DOMAIN dash' : dash'[u] \in Entry
<1>0. \A v \in DOMAIN dash : v \in socket /\ v \in Viewers /\ dash[v] \in Entry
  BY DEF TypeOK
<1>1. ASSUME NEW v \in Viewers, Connect(v) PROVE TypeOK'
  <2>1. Fresh \in Entry
    BY DEF Fresh, Entry
  <2>2. TableOK
    BY <1>1, <2>1, SetType DEF Connect
  <2> QED BY <1>1, <2>2 DEF Connect, TypeOK
<1>2. ASSUME NEW v \in Viewers, Disconnect(v) PROVE TypeOK'
  <2>1. TableOK
    BY <1>2, WithoutType DEF Disconnect
  <2>2. told' \in [Engines -> BOOLEAN] /\ asked' \in BOOLEAN
    BY <1>2 DEF Disconnect, TypeOK
  <2>3. dropped' \in [engines : SUBSET Engines, signal : BOOLEAN]
    BY <1>0, <1>2 DEF Disconnect, TypeOK, Entry
  <2> QED BY <1>2, <2>1, <2>2, <2>3 DEF Disconnect, TypeOK
<1>3. ASSUME NEW v \in Viewers, SendFails(v) PROVE TypeOK'
  <2>1. TableOK
    BY <1>3, WithoutType DEF SendFails
  <2>2. dropped' \in [engines : SUBSET Engines, signal : BOOLEAN]
    BY <1>0, <1>3 DEF SendFails, TypeOK, Entry
  <2> QED BY <1>3, <2>1, <2>2 DEF SendFails, TypeOK
<1>4. ASSUME NEW v \in Viewers, NEW u \in Users, Authenticated(v, u) PROVE TypeOK'
  <2>1. [dash[v] EXCEPT !.user = u, !.switched = @ \/ dash[v].user \notin {None, u}]
           \in Entry
    BY <1>0, <1>4 DEF Authenticated, Entry
  <2>2. TableOK
    BY <1>0, <1>4, <2>1, SetType DEF Authenticated
  <2> QED BY <1>4, <2>2 DEF Authenticated, TypeOK
<1>5. ASSUME NEW v \in Viewers, NEW b \in BOOLEAN, v \in DOMAIN dash,
             dash' = Set(v, [dash[v] EXCEPT !.signal = b]),
             TellSignalEngine(dash'), UNCHANGED <<socket, asks, parent, link, told, reported>>
      PROVE  TypeOK'
  <2>1. [dash[v] EXCEPT !.signal = b] \in Entry
    BY <1>0, <1>5 DEF Entry
  <2>2. TableOK
    BY <1>0, <1>5, <2>1, SetType
  <2> QED BY <1>5, <2>2 DEF TellSignalEngine, TypeOK
<1>6. ASSUME NEW v \in Viewers, SubscribeSignalMetrics(v) \/ UnsubscribeSignalMetrics(v)
      PROVE  TypeOK'
  BY <1>5, <1>6 DEF SubscribeSignalMetrics, UnsubscribeSignalMetrics
<1>7. ASSUME NEW v \in Viewers, UnsubscribeExecutionMetrics(v) PROVE TypeOK'
  <2>1. [dash[v] EXCEPT !.engine = None, !.owner = None, !.through = None] \in Entry
    BY <1>0, <1>7 DEF UnsubscribeExecutionMetrics, Entry
  <2>2. TableOK
    BY <1>0, <1>7, <2>1, SetType DEF UnsubscribeExecutionMetrics
  <2> QED BY <1>7, <2>2, TellEnginesType DEF UnsubscribeExecutionMetrics, TypeOK
<1>8. ASSUME NEW v \in Viewers, NEW e \in Engines, SubscribeExecutionMetrics(v, e)
      PROVE  TypeOK'
  <2>1. OwnershipEngine(e) \in Engines /\ dash[v].user \in Users
    BY <1>0, <1>8, DemandAssumption DEF OwnershipEngine, SubscribeExecutionMetrics, TypeOK, Entry
  <2> QED BY <1>8, <2>1 DEF SubscribeExecutionMetrics, TypeOK
<1>9. ASSUME NEW v \in Viewers, NEW u \in Users, NEW e \in Engines, NEW o \in Engines,
             Owned(v, u, e, o)
      PROVE  TypeOK'
  <2>1. CASE v \in DOMAIN dash /\ dash[v].user # None /\ dash[v].engine # e
    <3>1. [dash[v] EXCEPT !.engine = e, !.owner = u, !.through = o] \in Entry
      BY <1>0, <2>1 DEF Entry
    <3>2. TableOK
      BY <1>0, <1>9, <2>1, <3>1, SetType DEF Owned
    <3> QED BY <1>9, <2>1, <3>2, TellEnginesType DEF Owned, TypeOK
  <2>2. CASE ~(v \in DOMAIN dash /\ dash[v].user # None /\ dash[v].engine # e)
    BY <1>9, <2>2 DEF Owned, TypeOK
  <2> QED BY <2>1, <2>2
<1>10. ASSUME NEW v \in Viewers, NEW u \in Users, NEW e \in Engines, NEW o \in Engines,
              Forbidden(v, u, e, o)
       PROVE  TypeOK'
  BY <1>10 DEF Forbidden, TypeOK
<1>11. ASSUME NEW e \in Engines,
              Authorize(e) \/ Reauthorize(e) \/ Closing(e) \/ Remove(e)
       PROVE  TypeOK'
  BY <1>11 DEF Authorize, Reauthorize, Closing, Remove, TypeOK
<1>12. ASSUME NEW m \in Managers, NEW e \in Engines, ManagerAgentSnapshot(m, e)
       PROVE  TypeOK'
  BY <1>12 DEF ManagerAgentSnapshot, TypeOK
<1>13. CASE UNCHANGED vars
  BY <1>13 DEF vars, TypeOK
<1> QED BY <1>1, <1>2, <1>3, <1>4, <1>6, <1>7, <1>8, <1>9, <1>10, <1>11, <1>12, <1>13 DEF Next

(* Every variable of the dashboards' registry keeps its type.               *)
THEOREM DemandTypeCorrect == Spec => []TypeOK
<1>1. TypeOK /\ [Next]_vars => TypeOK'
  BY DemandTypeStep
<1> QED BY DemandTypeInitially, <1>1, PTL DEF Spec

-----------------------------------------------------------------------------
(* The demand an engine knows of.                                          *)

\* A change of one socket's entry, seen from engine e: nobody else starts or
\* stops watching.
LEMMA WatchingAfter ==
    ASSUME NEW v, NEW entry, NEW e, dash' = Set(v, entry)
    PROVE  /\ entry.engine = e => v \in Watching(dash', e)
           /\ entry.engine # e => Watching(dash', e) = Watching(dash, e) \ {v}
BY SetWatching

LEMMA NotWatching ==
    ASSUME NEW v, NEW e, v \notin DOMAIN dash \/ dash[v].engine # e
    PROVE  Watching(dash, e) \ {v} = Watching(dash, e)
BY DEF Watching

LEMMA WatchingSame ==
    ASSUME NEW v \in DOMAIN dash, NEW entry, NEW e, dash' = Set(v, entry),
           entry.engine = dash[v].engine
    PROVE  Watching(dash', e) = Watching(dash, e)
<1>1. CASE dash[v].engine = e
  <2>1. v \in Watching(dash, e)
    BY <1>1 DEF Watching
  <2>2. Watching(dash', e) = Watching(dash, e) \cup {v}
    BY <1>1, SetWatching
  <2> QED BY <2>1, <2>2
<1>2. CASE dash[v].engine # e
  <2>1. Watching(dash', e) = Watching(dash, e) \ {v}
    BY <1>2, WatchingAfter
  <2> QED BY <1>2, <2>1, NotWatching
<1> QED BY <1>1, <1>2

LEMMA EngineDemandStep ==
    ASSUME TypeOK, EngineKnowsDemand, [Next]_vars
    PROVE  EngineKnowsDemand'
<1> DEFINE Known(e) == /\ Watching(dash, e) # {} => told[e]
                       /\ told[e] => Watching(dash, e) # {} \/ e \in dropped.engines
<1> SUFFICES ASSUME NEW e \in Engines, link'[e] = "open" PROVE Known(e)'
  BY DEF EngineKnowsDemand
<1>0. link[e] = "open" => Known(e)
  BY DEF EngineKnowsDemand
<1>1. ASSUME link'[e] = link[e], told'[e] = told[e],
             Watching(dash', e) = Watching(dash, e),
             e \in dropped.engines => e \in dropped'.engines
      PROVE  Known(e)'
  BY <1>0, <1>1
<1>2. ASSUME told'[e] = (Watching(dash', e) # {})
      PROVE  Known(e)'
  BY <1>2
<1> HIDE DEF Known
<1>3. ASSUME NEW E, TellEngines(dash', E), UNCHANGED link,
             e \notin E => Watching(dash', e) = Watching(dash, e)
      PROVE  Known(e)'
  <2>1. CASE e \in E
    BY <1>2, <1>3, <2>1 DEF TellEngines
  <2>2. CASE e \notin E
    BY <1>1, <1>3, <2>2 DEF TellEngines, TypeOK
  <2> QED BY <2>1, <2>2
<1>4. ASSUME UNCHANGED <<dash, link, told, dropped>> PROVE Known(e)'
  BY <1>1, <1>4
<1>5. ASSUME NEW v \in Viewers, Connect(v) PROVE Known(e)'
  <2>1. v \notin DOMAIN dash
    BY <1>5 DEF Connect, TypeOK
  <2>2. Fresh.engine # e
    BY DemandAssumption DEF Fresh
  <2>3. Watching(dash', e) = Watching(dash, e)
    BY <1>5, <2>1, <2>2, WatchingAfter, NotWatching DEF Connect
  <2> QED BY <1>1, <1>5, <2>3 DEF Connect
<1>6. ASSUME NEW v \in Viewers, Disconnect(v) PROVE Known(e)'
  <2>1. dash' = Without(v)
    BY <1>6 DEF Disconnect
  <2>2. Watching(dash', e) = Watching(dash, e) \ {v}
    BY <2>1, WithoutWatching
  <2>3. CASE v \in DOMAIN dash /\ dash[v].engine = e
    <3>1. told'[e] = (Watching(dash', e) # {})
      BY <1>6, <2>3, DemandAssumption DEF Disconnect
    <3> QED BY <1>2, <3>1
  <2>4. CASE ~(v \in DOMAIN dash /\ dash[v].engine = e)
    <3>1. Watching(dash', e) = Watching(dash, e)
      BY <2>2, <2>4, NotWatching
    <3>2. told'[e] = told[e] /\ (e \in dropped.engines => e \in dropped'.engines)
      BY <1>6, <2>4 DEF Disconnect, TypeOK
    <3> QED BY <1>1, <1>6, <3>1, <3>2 DEF Disconnect
  <2> QED BY <2>3, <2>4
<1>7. ASSUME NEW v \in Viewers, SendFails(v) PROVE Known(e)'
  <2>1. Watching(dash', e) = Watching(dash, e) \ {v}
    BY <1>7, WithoutWatching DEF SendFails
  <2>2. /\ link' = link /\ told' = told
        /\ e \in dropped.engines => e \in dropped'.engines
        /\ dash[v].engine = e => e \in dropped'.engines
    BY <1>7, DemandAssumption DEF SendFails, TypeOK
  <2>3. CASE dash[v].engine = e
    BY <1>0, <2>1, <2>2, <2>3 DEF Known
  <2>4. CASE dash[v].engine # e
    BY <1>1, <2>1, <2>2, <2>4, NotWatching
  <2> QED BY <2>3, <2>4
<1>8. ASSUME NEW v \in Viewers, NEW u \in Users, Authenticated(v, u) PROVE Known(e)'
  <2> DEFINE entry ==
        [dash[v] EXCEPT !.user = u, !.switched = @ \/ dash[v].user \notin {None, u}]
  <2>1. v \in DOMAIN dash /\ dash' = Set(v, entry) /\ entry.engine = dash[v].engine
    BY <1>8 DEF Authenticated, TypeOK, Entry
  <2> HIDE DEF entry
  <2>2. Watching(dash', e) = Watching(dash, e)
    BY <2>1, WatchingSame
  <2> QED BY <1>1, <1>8, <2>2 DEF Authenticated
<1>9. ASSUME NEW v \in Viewers, SubscribeSignalMetrics(v) \/ UnsubscribeSignalMetrics(v)
      PROVE  Known(e)'
  <2>1. PICK entry : /\ v \in DOMAIN dash /\ dash' = Set(v, entry)
                     /\ entry.engine = dash[v].engine
    BY <1>9 DEF SubscribeSignalMetrics, UnsubscribeSignalMetrics, TypeOK, Entry
  <2>2. Watching(dash', e) = Watching(dash, e)
    BY <2>1, WatchingSame
  <2> QED BY <1>1, <1>9, <2>2
          DEF SubscribeSignalMetrics, UnsubscribeSignalMetrics, TellSignalEngine, TypeOK
<1>10. ASSUME NEW v \in Viewers, UnsubscribeExecutionMetrics(v) PROVE Known(e)'
  <2> DEFINE entry == [dash[v] EXCEPT !.engine = None, !.owner = None, !.through = None]
  <2>1. v \in DOMAIN dash /\ dash' = Set(v, entry) /\ entry.engine = None
    BY <1>10 DEF UnsubscribeExecutionMetrics, TypeOK, Entry
  <2> HIDE DEF entry
  <2>2. Watching(dash', e) = Watching(dash, e) \ {v}
    BY <2>1, WatchingAfter, DemandAssumption
  <2>3. dash[v].engine # e => Watching(dash', e) = Watching(dash, e)
    BY <2>2, NotWatching
  <2> QED BY <1>3, <1>10, <2>3 DEF UnsubscribeExecutionMetrics
<1>11. ASSUME NEW v \in Viewers, NEW u \in Users, NEW f \in Engines, NEW o \in Engines,
              Owned(v, u, f, o)
       PROVE  Known(e)'
  <2>1. CASE v \in DOMAIN dash /\ dash[v].user # None /\ dash[v].engine # f
    <3> DEFINE entry == [dash[v] EXCEPT !.engine = f, !.owner = u, !.through = o]
    <3>1. dash' = Set(v, entry) /\ entry.engine = f
      BY <1>11, <2>1 DEF Owned, TypeOK, Entry
    <3> HIDE DEF entry
    <3>2. e \notin {f, dash[v].engine} \ {None} => Watching(dash', e) = Watching(dash, e)
      <4>1. e # f => Watching(dash', e) = Watching(dash, e) \ {v}
        BY <3>1, WatchingAfter
      <4>2. dash[v].engine # e => Watching(dash, e) \ {v} = Watching(dash, e)
        BY NotWatching
      <4>3. e # None
        BY DemandAssumption
      <4> QED BY <4>1, <4>2, <4>3
    <3> QED BY <1>3, <1>11, <2>1, <3>2 DEF Owned
  <2>2. CASE ~(v \in DOMAIN dash /\ dash[v].user # None /\ dash[v].engine # f)
    BY <1>4, <1>11, <2>2 DEF Owned
  <2> QED BY <2>1, <2>2
<1>12. ASSUME NEW v \in Viewers, NEW f \in Engines,
              \/ SubscribeExecutionMetrics(v, f)
              \/ \E u \in Users, o \in Engines : Forbidden(v, u, f, o)
       PROVE  Known(e)'
  BY <1>4, <1>12 DEF SubscribeExecutionMetrics, Forbidden
<1>13. ASSUME NEW f \in Engines, Authorize(f) PROVE Known(e)'
  <2>1. CASE e = f
    BY <1>2, <1>13, <2>1 DEF Authorize, TypeOK
  <2>2. CASE e # f
    BY <1>1, <1>13, <2>2 DEF Authorize, TypeOK
  <2> QED BY <2>1, <2>2
<1>14. ASSUME NEW f \in Engines, Reauthorize(f) PROVE Known(e)'
  <2>1. CASE e = f
    BY <1>0, <1>14, <2>1 DEF Reauthorize, TypeOK, Known
  <2>2. CASE e # f
    BY <1>1, <1>14, <2>2 DEF Reauthorize, TypeOK
  <2> QED BY <2>1, <2>2
<1>15. ASSUME NEW f \in Engines, Closing(f) \/ Remove(f) PROVE Known(e)'
  <2>1. e # f
    BY <1>15 DEF Closing, Remove, TypeOK
  <2> QED BY <1>1, <1>15, <2>1 DEF Closing, Remove, TypeOK
<1>16. ASSUME NEW m \in Managers, NEW f \in Engines, ManagerAgentSnapshot(m, f)
       PROVE  Known(e)'
  BY <1>4, <1>16 DEF ManagerAgentSnapshot
<1>17. CASE UNCHANGED vars
  BY <1>4, <1>17 DEF vars
<1> QED BY <1>5, <1>6, <1>7, <1>8, <1>9, <1>10, <1>11, <1>12, <1>13, <1>14, <1>15, <1>16,
           <1>17 DEF Next

(* The current connection of an engine has last been told to send metrics   *)
(* if and only if somebody watches, evicted dashboards excepted: authorize  *)
(* and every change of a subscription tell it in the step that changes.     *)
THEOREM EnginesKnowDemand == Spec => []EngineKnowsDemand
<1>1. Init => EngineKnowsDemand
  BY DEF Init, EngineKnowsDemand
<1>2. TypeOK /\ EngineKnowsDemand /\ [Next]_vars => EngineKnowsDemand'
  BY EngineDemandStep
<1> QED BY <1>1, <1>2, DemandTypeCorrect, PTL DEF Spec

-----------------------------------------------------------------------------
(* The demand the Signal Engine knows of.                                  *)

LEMMA SignalDemandStep ==
    ASSUME TypeOK, SignalEngineKnowsDemand, [Next]_vars
    PROVE  SignalEngineKnowsDemand'
<1> USE DEF SignalEngineKnowsDemand
<1>1. ASSUME asked' = asked, WatchingSignal(dash') = WatchingSignal(dash),
             dropped.signal => dropped'.signal
      PROVE  SignalEngineKnowsDemand'
  BY <1>1
<1>2. ASSUME asked' = (WatchingSignal(dash') # {})
      PROVE  SignalEngineKnowsDemand'
  BY <1>2
<1> HIDE DEF SignalEngineKnowsDemand
\* A change of an entry that leaves its signal alone, and tells engines only.
<1>3. ASSUME NEW v \in DOMAIN dash, NEW entry, dash' = Set(v, entry),
             entry.signal = dash[v].signal
      PROVE  WatchingSignal(dash') = WatchingSignal(dash)
  <2>1. CASE dash[v].signal
    <3>1. v \in WatchingSignal(dash)
      BY <2>1 DEF WatchingSignal
    <3>2. WatchingSignal(dash') = WatchingSignal(dash) \cup {v}
      BY <1>3, <2>1, SetWatching
    <3> QED BY <3>1, <3>2
  <2>2. CASE ~dash[v].signal
    <3>1. v \notin WatchingSignal(dash)
      BY <2>2 DEF WatchingSignal
    <3>2. WatchingSignal(dash') = WatchingSignal(dash) \ {v}
      BY <1>3, <2>2, SetWatching
    <3> QED BY <3>1, <3>2
  <2> QED BY <2>1, <2>2
<1>4. ASSUME NEW E, TellEngines(dash', E)
      PROVE  dropped'.signal = dropped.signal
  BY <1>4 DEF TellEngines, TypeOK
<1>5. ASSUME NEW v \in Viewers, Connect(v) PROVE SignalEngineKnowsDemand'
  <2>1. v \notin WatchingSignal(dash)
    BY <1>5 DEF Connect, TypeOK, WatchingSignal
  <2>2. dash' = Set(v, Fresh) /\ ~Fresh.signal
    BY <1>5 DEF Connect, Fresh
  <2>3. WatchingSignal(dash') = WatchingSignal(dash) \ {v}
    BY <2>2, SetWatching
  <2> QED BY <1>1, <1>5, <2>1, <2>3 DEF Connect
<1>6. ASSUME NEW v \in Viewers, Disconnect(v) PROVE SignalEngineKnowsDemand'
  <2>1. WatchingSignal(dash') = WatchingSignal(dash) \ {v}
    BY <1>6, WithoutWatching DEF Disconnect
  <2>2. CASE v \in DOMAIN dash /\ dash[v].signal
    BY <1>2, <1>6, <2>2 DEF Disconnect
  <2>3. CASE ~(v \in DOMAIN dash /\ dash[v].signal)
    <3>1. WatchingSignal(dash') = WatchingSignal(dash)
      BY <2>1, <2>3 DEF WatchingSignal
    <3>2. asked' = asked /\ (dropped.signal => dropped'.signal)
      BY <1>6, <2>3 DEF Disconnect
    <3> QED BY <1>1, <3>1, <3>2
  <2> QED BY <2>2, <2>3
<1>7. ASSUME NEW v \in Viewers, SendFails(v) PROVE SignalEngineKnowsDemand'
  <2>1. WatchingSignal(dash') = WatchingSignal(dash) \ {v}
    BY <1>7, WithoutWatching DEF SendFails
  <2>2. asked' = asked /\ dropped'.signal = (dropped.signal \/ dash[v].signal)
    BY <1>7 DEF SendFails
  <2>3. ~dash[v].signal => WatchingSignal(dash') = WatchingSignal(dash)
    BY <2>1 DEF WatchingSignal
  <2> QED BY <2>1, <2>2, <2>3 DEF SignalEngineKnowsDemand
<1>8. ASSUME NEW v \in Viewers, NEW u \in Users, Authenticated(v, u)
      PROVE  SignalEngineKnowsDemand'
  <2> DEFINE entry ==
        [dash[v] EXCEPT !.user = u, !.switched = @ \/ dash[v].user \notin {None, u}]
  <2>1. v \in DOMAIN dash /\ dash' = Set(v, entry) /\ entry.signal = dash[v].signal
    BY <1>8 DEF Authenticated, TypeOK, Entry
  <2> HIDE DEF entry
  <2>2. WatchingSignal(dash') = WatchingSignal(dash)
    BY <1>3, <2>1
  <2> QED BY <1>1, <1>8, <2>2 DEF Authenticated
<1>9. ASSUME NEW v \in Viewers, SubscribeSignalMetrics(v) \/ UnsubscribeSignalMetrics(v)
      PROVE  SignalEngineKnowsDemand'
  BY <1>2, <1>9
     DEF SubscribeSignalMetrics, UnsubscribeSignalMetrics, TellSignalEngine
<1>10. ASSUME NEW v \in Viewers, UnsubscribeExecutionMetrics(v)
       PROVE  SignalEngineKnowsDemand'
  <2> DEFINE entry == [dash[v] EXCEPT !.engine = None, !.owner = None, !.through = None]
  <2>1. v \in DOMAIN dash /\ dash' = Set(v, entry) /\ entry.signal = dash[v].signal
    BY <1>10 DEF UnsubscribeExecutionMetrics, TypeOK, Entry
  <2> HIDE DEF entry
  <2>2. WatchingSignal(dash') = WatchingSignal(dash)
    BY <1>3, <2>1
  <2> QED BY <1>1, <1>4, <1>10, <2>2 DEF UnsubscribeExecutionMetrics
<1>11. ASSUME NEW v \in Viewers, NEW u \in Users, NEW e \in Engines, NEW o \in Engines,
             Owned(v, u, e, o)
       PROVE  SignalEngineKnowsDemand'
  <2>1. CASE v \in DOMAIN dash /\ dash[v].user # None /\ dash[v].engine # e
    <3> DEFINE entry == [dash[v] EXCEPT !.engine = e, !.owner = u, !.through = o]
    <3>1. dash' = Set(v, entry) /\ entry.signal = dash[v].signal
      BY <1>11, <2>1 DEF Owned, TypeOK, Entry
    <3> HIDE DEF entry
    <3>2. WatchingSignal(dash') = WatchingSignal(dash)
      BY <1>3, <2>1, <3>1
    <3> QED BY <1>1, <1>4, <1>11, <2>1, <3>2 DEF Owned
  <2>2. CASE ~(v \in DOMAIN dash /\ dash[v].user # None /\ dash[v].engine # e)
    BY <1>1, <1>11, <2>2 DEF Owned
  <2> QED BY <2>1, <2>2
<1>12. ASSUME NEW v \in Viewers, NEW e \in Engines,
              \/ SubscribeExecutionMetrics(v, e)
              \/ \E u \in Users, o \in Engines : Forbidden(v, u, e, o)
       PROVE  SignalEngineKnowsDemand'
  BY <1>1, <1>12 DEF SubscribeExecutionMetrics, Forbidden
<1>13. ASSUME NEW e \in Engines,
              Authorize(e) \/ Reauthorize(e) \/ Closing(e) \/ Remove(e)
       PROVE  SignalEngineKnowsDemand'
  BY <1>1, <1>13 DEF Authorize, Reauthorize, Closing, Remove
<1>14. ASSUME NEW m \in Managers, NEW e \in Engines, ManagerAgentSnapshot(m, e)
       PROVE  SignalEngineKnowsDemand'
  BY <1>1, <1>14 DEF ManagerAgentSnapshot
<1>15. CASE UNCHANGED vars
  BY <1>1, <1>15 DEF vars
<1> QED BY <1>5, <1>6, <1>7, <1>8, <1>9, <1>10, <1>11, <1>12, <1>13, <1>14, <1>15 DEF Next

(* The Signal Engine is asked for its metrics if and only if a dashboard    *)
(* wants them, evicted dashboards excepted.                                 *)
THEOREM SignalEngineAsked == Spec => []SignalEngineKnowsDemand
<1>1. Init => SignalEngineKnowsDemand
  BY DEF Init, SignalEngineKnowsDemand, WatchingSignal
<1>2. TypeOK /\ SignalEngineKnowsDemand /\ [Next]_vars => SignalEngineKnowsDemand'
  BY SignalDemandStep
<1> QED BY <1>1, <1>2, DemandTypeCorrect, PTL DEF Spec

-----------------------------------------------------------------------------
(* Who may watch.                                                          *)

\* The ownership of e may be asked of o: o is e, or is of R to have reported it.
Speaks(R, o, e) == o = e \/ <<o, e>> \in R

\* A manager that is the parent of an engine has reported it.
ParentsReported == \A e \in Engines : parent[e] # None => <<parent[e], e>> \in reported

\* An ownership check under way asks about an engine that speaks for the one to
\* be watched.
AsksSpeak == \A a \in asks : Speaks(reported, a[4], a[3])

\* It asks about the user its socket is authenticated as, unless that changed:
\* a new connection of the socket has none.
AsksAreOwn ==
    \A a \in asks : a[1] \in DOMAIN dash =>
        dash[a[1]].user = a[2] \/ dash[a[1]].switched

WatchInv == TypeOK /\ ParentsReported /\ AsksSpeak /\ AsksAreOwn /\ WatchersOwn

\* What the last two ask of the entry of one socket v, with A the checks under
\* way and R the reports.
EntryOwn(A, R, v, entry) ==
    /\ entry.signal => entry.user # None
    /\ entry.engine # None =>
          /\ entry.owner # None
          /\ entry.user = entry.owner \/ entry.switched
          /\ Speaks(R, entry.through, entry.engine)
    /\ \A a \in A : a[1] = v => entry.user = a[2] \/ entry.switched

LEMMA EntriesOwn ==
    AsksAreOwn /\ WatchersOwn
      <=> \A v \in DOMAIN dash : EntryOwn(asks, reported, v, dash[v])
BY DEF AsksAreOwn, WatchersOwn, EntryOwn, Speaks

LEMMA EntriesOwnNext ==
    ASSUME \A v \in DOMAIN dash' : EntryOwn(asks', reported', v, dash'[v])
    PROVE  (AsksAreOwn /\ WatchersOwn)'
BY DEF AsksAreOwn, WatchersOwn, EntryOwn, Speaks

\* No report is taken back.
LEMMA EntryStillOwn ==
    ASSUME reported \subseteq reported', NEW v, NEW entry,
           EntryOwn(asks, reported, v, entry),
           \A a \in asks' \ asks : a[1] # v
    PROVE  EntryOwn(asks', reported', v, entry)
BY DEF EntryOwn, Speaks

\* One entry is put, and no check is added for any other socket.
LEMMA EntryOwnStep ==
    ASSUME WatchInv, NEW v, NEW entry, dash' = Set(v, entry), reported' = reported,
           EntryOwn(asks', reported, v, entry), \A a \in asks' \ asks : a[1] = v
    PROVE  (AsksAreOwn /\ WatchersOwn)'
<1>1. /\ DOMAIN dash' = DOMAIN dash \cup {v}
      /\ dash'[v] = entry
      /\ \A u \in DOMAIN dash \ {v} : dash'[u] = dash[u]
  BY DEF Set
<1>2. \A u \in DOMAIN dash : EntryOwn(asks, reported, u, dash[u])
  BY EntriesOwn DEF WatchInv
<1>3. \A u \in DOMAIN dash \ {v} : EntryOwn(asks', reported', u, dash'[u])
  BY <1>1, <1>2, EntryStillOwn
<1>4. \A u \in DOMAIN dash' : EntryOwn(asks', reported', u, dash'[u])
  BY <1>1, <1>3
<1> QED BY <1>4, EntriesOwnNext

\* A manager's report, and a check under way: neither is forgotten, and a new
\* check asks about whoever speaks for the engine by now.
LEMMA SpeakStep ==
    ASSUME WatchInv, [Next]_vars
    PROVE  (ParentsReported /\ AsksSpeak)'
<1>1. ASSUME UNCHANGED <<parent, reported>>, asks' \subseteq asks
      PROVE  (ParentsReported /\ AsksSpeak)'
  BY <1>1 DEF WatchInv, ParentsReported, AsksSpeak, Speaks
<1>2. ASSUME NEW v \in Viewers, NEW e \in Engines, SubscribeExecutionMetrics(v, e)
      PROVE  (ParentsReported /\ AsksSpeak)'
  <2>1. Speaks(reported, OwnershipEngine(e), e)
    BY DEF WatchInv, ParentsReported, Speaks, OwnershipEngine
  <2>2. /\ UNCHANGED <<parent, reported>>
        /\ asks' = asks \cup {<<v, dash[v].user, e, OwnershipEngine(e)>>}
    BY <1>2 DEF SubscribeExecutionMetrics
  <2>3. \A a \in asks' : Speaks(reported', a[4], a[3])
    BY <2>1, <2>2 DEF WatchInv, AsksSpeak
  <2> QED BY <2>2, <2>3 DEF WatchInv, ParentsReported, AsksSpeak
<1>3. ASSUME NEW m \in Managers, NEW e \in Engines, ManagerAgentSnapshot(m, e)
      PROVE  (ParentsReported /\ AsksSpeak)'
  BY <1>3 DEF ManagerAgentSnapshot, WatchInv, TypeOK, ParentsReported, AsksSpeak, Speaks
<1>4. ASSUME NEW v \in Viewers,
             \/ Connect(v) \/ Disconnect(v) \/ SendFails(v)
             \/ \E u \in Users : Authenticated(v, u)
             \/ SubscribeSignalMetrics(v) \/ UnsubscribeSignalMetrics(v)
             \/ UnsubscribeExecutionMetrics(v)
      PROVE  UNCHANGED <<asks, parent, reported>>
  BY <1>4 DEF Connect, Disconnect, SendFails, Authenticated, SubscribeSignalMetrics,
              UnsubscribeSignalMetrics, UnsubscribeExecutionMetrics
<1>5. ASSUME NEW v \in Viewers, NEW u \in Users, NEW e \in Engines, NEW o \in Engines,
             Owned(v, u, e, o) \/ Forbidden(v, u, e, o)
      PROVE  UNCHANGED <<parent, reported>> /\ asks' \subseteq asks
  BY <1>5 DEF Owned, Forbidden
<1>6. ASSUME NEW e \in Engines,
             Authorize(e) \/ Reauthorize(e) \/ Closing(e) \/ Remove(e)
      PROVE  UNCHANGED <<asks, parent, reported>>
  BY <1>6 DEF Authorize, Reauthorize, Closing, Remove
<1>7. CASE UNCHANGED vars
  BY <1>1, <1>7 DEF vars
<1> QED BY <1>1, <1>2, <1>3, <1>4, <1>5, <1>6, <1>7 DEF Next

LEMMA WatchStep ==
    ASSUME WatchInv, [Next]_vars
    PROVE  WatchInv'
<1> DEFINE Own == AsksAreOwn /\ WatchersOwn
<1>0. \A v \in DOMAIN dash : EntryOwn(asks, reported, v, dash[v]) /\ dash[v] \in Entry
  BY EntriesOwn DEF WatchInv, TypeOK
<1>1. ASSUME NEW v \in Viewers, Connect(v) PROVE Own'
  <2>1. EntryOwn(asks', reported, v, Fresh)
    BY <1>1 DEF Connect, AsksOf, EntryOwn, Fresh
  <2> QED BY <1>1, <2>1, EntryOwnStep DEF Connect
<1>2. ASSUME NEW v \in Viewers, Disconnect(v) \/ SendFails(v) PROVE Own'
  <2>1. dash' = Without(v) /\ asks' = asks /\ reported' = reported
    BY <1>2 DEF Disconnect, SendFails
  <2>2. \A u \in DOMAIN dash' : u \in DOMAIN dash /\ dash'[u] = dash[u]
    BY <2>1, WithoutEntry
  <2>3. \A u \in DOMAIN dash' : EntryOwn(asks', reported', u, dash'[u])
    BY <1>0, <2>1, <2>2
  <2> QED BY <2>3, EntriesOwnNext
<1>3. ASSUME NEW v \in Viewers, NEW u \in Users, Authenticated(v, u) PROVE Own'
  <2> DEFINE entry ==
        [dash[v] EXCEPT !.user = u, !.switched = @ \/ dash[v].user \notin {None, u}]
  <2>1. /\ v \in DOMAIN dash /\ dash' = Set(v, entry)
        /\ asks' = asks /\ reported' = reported
    BY <1>3 DEF Authenticated
  <2>2. EntryOwn(asks', reported, v, entry)
    <3>1. /\ entry.user = u /\ entry.signal = dash[v].signal
          /\ entry.engine = dash[v].engine /\ entry.owner = dash[v].owner
          /\ entry.through = dash[v].through
          /\ entry.switched <=> dash[v].switched \/ dash[v].user \notin {None, u}
      BY <1>0, <2>1 DEF Entry
    <3>2. u # None
      BY DemandAssumption
    <3>3. \A a \in asks : a[2] # None
      BY DemandAssumption DEF WatchInv, TypeOK
    <3> HIDE DEF entry
    <3> QED BY <1>0, <2>1, <3>1, <3>2, <3>3 DEF EntryOwn
  <2> HIDE DEF entry
  <2> QED BY <2>1, <2>2, EntryOwnStep
<1>4. ASSUME NEW v \in Viewers, SubscribeSignalMetrics(v) PROVE Own'
  <2> DEFINE entry == [dash[v] EXCEPT !.signal = TRUE]
  <2>1. /\ v \in DOMAIN dash /\ dash[v].user # None
        /\ asks' = asks /\ reported' = reported /\ dash' = Set(v, entry)
    BY <1>4 DEF SubscribeSignalMetrics
  <2>2. EntryOwn(asks', reported, v, entry)
    BY <1>0, <2>1 DEF Entry, EntryOwn
  <2> HIDE DEF entry
  <2> QED BY <2>1, <2>2, EntryOwnStep
<1>5. ASSUME NEW v \in Viewers, UnsubscribeSignalMetrics(v) PROVE Own'
  <2> DEFINE entry == [dash[v] EXCEPT !.signal = FALSE]
  <2>1. /\ v \in DOMAIN dash /\ dash' = Set(v, entry)
        /\ asks' = asks /\ reported' = reported
    BY <1>5 DEF UnsubscribeSignalMetrics
  <2>2. EntryOwn(asks', reported, v, entry)
    BY <1>0, <2>1 DEF Entry, EntryOwn
  <2> HIDE DEF entry
  <2> QED BY <2>1, <2>2, EntryOwnStep
<1>6. ASSUME NEW v \in Viewers, UnsubscribeExecutionMetrics(v) PROVE Own'
  <2> DEFINE entry == [dash[v] EXCEPT !.engine = None, !.owner = None, !.through = None]
  <2>1. /\ v \in DOMAIN dash /\ dash' = Set(v, entry)
        /\ asks' = asks /\ reported' = reported
    BY <1>6 DEF UnsubscribeExecutionMetrics
  <2>2. EntryOwn(asks', reported, v, entry)
    BY <1>0, <2>1 DEF Entry, EntryOwn
  <2> HIDE DEF entry
  <2> QED BY <2>1, <2>2, EntryOwnStep
<1>7. ASSUME NEW v \in Viewers, NEW e \in Engines, SubscribeExecutionMetrics(v, e)
      PROVE  Own'
  <2>1. /\ v \in DOMAIN dash /\ dash' = dash /\ reported' = reported
        /\ asks' = asks \cup {<<v, dash[v].user, e, OwnershipEngine(e)>>}
    BY <1>7 DEF SubscribeExecutionMetrics
  <2>2. \A u \in DOMAIN dash' : EntryOwn(asks', reported', u, dash'[u])
    BY <1>0, <2>1 DEF EntryOwn
  <2> QED BY <2>2, EntriesOwnNext
<1>8. ASSUME asks' \subseteq asks, dash' = dash, reported \subseteq reported' PROVE Own'
  <2>1. \A u \in DOMAIN dash' : EntryOwn(asks', reported', u, dash'[u])
    BY <1>0, <1>8, EntryStillOwn
  <2> QED BY <2>1, EntriesOwnNext
<1>9. ASSUME NEW v \in Viewers, NEW u \in Users, NEW e \in Engines, NEW o \in Engines,
             Owned(v, u, e, o)
      PROVE  Own'
  <2>1. CASE v \in DOMAIN dash /\ dash[v].user # None /\ dash[v].engine # e
    <3> DEFINE entry == [dash[v] EXCEPT !.engine = e, !.owner = u, !.through = o]
    <3>1. /\ dash' = Set(v, entry) /\ reported' = reported
          /\ <<v, u, e, o>> \in asks /\ asks' \subseteq asks
      BY <1>9, <2>1 DEF Owned
    <3>2. EntryOwn(asks', reported, v, entry)
      <4>1. /\ entry.user = dash[v].user /\ entry.signal = dash[v].signal
            /\ entry.owner = u /\ entry.switched = dash[v].switched
            /\ entry.engine = e /\ entry.through = o
        BY <1>0, <2>1 DEF Entry
      <4>2. dash[v].user = u \/ dash[v].switched
        BY <1>0, <2>1, <3>1 DEF EntryOwn
      <4>3. Speaks(reported, o, e)
        BY <3>1 DEF WatchInv, AsksSpeak
      <4> HIDE DEF entry
      <4> QED BY <1>0, <2>1, <3>1, <4>1, <4>2, <4>3, DemandAssumption DEF EntryOwn
    <3> HIDE DEF entry
    <3> QED BY <3>1, <3>2, EntryOwnStep
  <2>2. CASE ~(v \in DOMAIN dash /\ dash[v].user # None /\ dash[v].engine # e)
    BY <1>8, <1>9, <2>2 DEF Owned
  <2> QED BY <2>1, <2>2
<1>10. ASSUME NEW v \in Viewers, NEW u \in Users, NEW e \in Engines, NEW o \in Engines,
              Forbidden(v, u, e, o)
       PROVE  Own'
  BY <1>8, <1>10 DEF Forbidden
<1>11. ASSUME NEW e \in Engines,
              Authorize(e) \/ Reauthorize(e) \/ Closing(e) \/ Remove(e)
       PROVE  Own'
  BY <1>8, <1>11 DEF Authorize, Reauthorize, Closing, Remove
<1>12. ASSUME NEW m \in Managers, NEW e \in Engines, ManagerAgentSnapshot(m, e)
       PROVE  Own'
  BY <1>8, <1>12 DEF ManagerAgentSnapshot
<1>13. ASSUME UNCHANGED vars PROVE Own'
  BY <1>8, <1>13 DEF vars
<1> HIDE DEF Own
<1>14. Own'
  BY <1>1, <1>2, <1>3, <1>4, <1>5, <1>6, <1>7, <1>9, <1>10, <1>11, <1>12, <1>13 DEF Next
<1> QED BY <1>14, DemandTypeStep, SpeakStep DEF WatchInv, Own

(* Whoever watches an engine was authenticated on that connection as a user *)
(* found to own it, or to own a manager that has reported it, however late  *)
(* the check is answered and whatever the managers report meanwhile. The    *)
(* gateway asks again whether the socket is authenticated, and a check dies *)
(* with the connection it was made for; whom the engine has for its parent  *)
(* by then is not asked again, and the theorem does not say that the        *)
(* manager is still it.                                                     *)
THEOREM OwnersWatch == Spec => []WatchersOwn
<1>1. Init => WatchInv
  BY DemandTypeInitially
     DEF Init, WatchInv, ParentsReported, AsksSpeak, AsksAreOwn, WatchersOwn
<1>2. WatchInv /\ [Next]_vars => WatchInv'
  BY WatchStep
<1>3. WatchInv => WatchersOwn
  BY DEF WatchInv
<1> QED BY <1>1, <1>2, <1>3, PTL DEF Spec
=============================================================================
