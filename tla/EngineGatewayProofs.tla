------------------------- MODULE EngineGatewayProofs -------------------------
(***************************************************************************)
(* Proofs about EngineGateway, for every number of sockets, engines, rooms,*)
(* sessions and suspended handlers.                                        *)
(***************************************************************************)
EXTENDS EngineGateway, TLAPS

-----------------------------------------------------------------------------
(* Types.                                                                  *)

\* Leaving keeps the types, whatever connections and index it starts from.
LEMMA RetireType ==
    ASSUME NEW c \in [Sockets -> Connection],
           NEW ix \in [Engines -> Sockets \cup {None}],
           NEW S \in SUBSET Sockets,
           TypeOK, Retire(c, ix, S)
    PROVE  /\ RegistryTypeOK'
           /\ RoomsTypeOK'
           /\ health' \in [Engines -> {"unknown", "up", "offline"}]
           /\ openSessions' \subseteq Sessions
<1>1. Absent \in Connection
  BY DEF Absent, Connection
<1>2. RegistryTypeOK'
  BY <1>1 DEF Retire, RegistryTypeOK, Remove, Unindex
<1>3. RoomsTypeOK'
  BY DEF Retire, TypeOK, RoomsTypeOK, LeaveAll
<1>4. health' \in [Engines -> {"unknown", "up", "offline"}]
  BY DEF Retire, TypeOK, MarkOffline
<1>5. openSessions' \subseteq Sessions
  BY DEF Retire, TypeOK
<1> QED BY <1>2, <1>3, <1>4, <1>5

\* So does what authorize() writes.
LEMMA AuthorizeType ==
    ASSUME NEW s \in Sockets, NEW e \in Engines, RegistryTypeOK
    PROVE  /\ Authorize(conn, s, e) \in [Sockets -> Connection]
           /\ Index(byEngineId, conn, s) \in [Engines -> Sockets \cup {None}]
           /\ Replaced(byEngineId, conn, s) \in SUBSET Sockets
<1>1. Authorize(conn, s, e) \in [Sockets -> Connection]
  BY DEF Authorize, RegistryTypeOK, Connection
<1>2. Index(byEngineId, conn, s) \in [Engines -> Sockets \cup {None}]
  BY DEF Index, RegistryTypeOK, Connection
<1>3. Replaced(byEngineId, conn, s) \in SUBSET Sockets
  BY DEF Replaced
<1> QED BY <1>1, <1>2, <1>3

\* A handler suspended in an await holds a socket and an engine id, and a
\* connection that is gone has left nothing behind.
TypeInv == TypeOK /\ CallsIdentified

\* authorize() and the retirement of whoever it replaced keep the types.
LEMMA GrantedType ==
    ASSUME TypeOK, CallsIdentified, NEW h \in Handlers, Granted(h)
    PROVE  /\ call[h].socket \in Sockets
           /\ call[h].engineId \in Engines
           /\ TypeOK'
<1>1. call[h].socket \in Sockets /\ call[h].engineId \in Engines
  BY DEF CallsIdentified, Granted
<1>2. /\ Authorize(conn, call[h].socket, call[h].engineId) \in [Sockets -> Connection]
      /\ Index(byEngineId, conn, call[h].socket) \in [Engines -> Sockets \cup {None}]
      /\ Replaced(byEngineId, conn, call[h].socket) \in SUBSET Sockets
  BY <1>1, AuthorizeType DEF TypeOK
<1>3. /\ RegistryTypeOK' /\ RoomsTypeOK'
      /\ health' \in [Engines -> {"unknown", "up", "offline"}]
      /\ openSessions' \subseteq Sessions
  BY <1>2, RetireType DEF Granted
<1>4. call' \in [Handlers -> Calls]
  BY DEF Granted, TypeOK, Calls, Stage
<1> QED BY <1>1, <1>3, <1>4 DEF TypeOK

\* A step is one of the actions.
LEMMA NextCases ==
    ASSUME Next
    PROVE  \/ \E s \in Sockets : Connect(s)
           \/ \E s \in Sockets : Disconnect(s)
           \/ \E s \in Sockets : Heartbeat(s)
           \/ \E s \in Sockets, e \in Engines : Hello(s, e)
           \/ \E s \in Sockets, e \in Engines : ManagerAgentSnapshot(s, e)
           \/ \E s \in Sockets, e \in Engines, h \in Handlers :
                 HelloWithCredential(s, e, h)
           \/ \E s \in Sockets, h \in Handlers : ActivationRequest(s, h)
           \/ \E s \in Sockets, Y \in SUBSET Symbols : Subscribe(s, Y)
           \/ \E s \in Sockets, Y \in SUBSET Symbols : Unsubscribe(s, Y)
           \/ \E h \in Handlers : Refused(h)
           \/ \E h \in Handlers : Granted(h)
           \/ \E h \in Handlers, id \in Sessions : SessionOpened(h, id)
           \/ \E h \in Handlers : SessionNotOpened(h)
           \/ \E h \in Handlers : CredentialIssued(h)
           \/ \E S \in SUBSET Sockets : SweepStale(S)
           \/ \E e \in Engines : DeviceReleased(e)
           \/ \E D \in SUBSET Memberships(member) : EvictExpired(D)
           \/ \E E \in SUBSET Engines : SweepRegistry(E)
BY DEF Next

\* Retiring connections of the table keeps the record of who is identified.
LEMMA RetireIdentified ==
    ASSUME TypeInv, NEW S \in SUBSET Sockets, Retire(conn, byEngineId, S),
           UNCHANGED call
    PROVE  TypeInv'
<1>1. TypeOK'
  BY RetireType DEF TypeInv, TypeOK, RegistryTypeOK
<1>2. \A s \in Sockets : conn'[s] = IF s \in S THEN Absent ELSE conn[s]
  BY DEF Retire, Remove
<1>3. \A s \in Sockets : conn'[s].live => conn'[s] = conn[s]
  BY <1>2 DEF Absent
<1>4. \A s \in Sockets : ~conn'[s].live => conn'[s] = Absent
  BY <1>2 DEF TypeInv, CallsIdentified
<1>5. CallsIdentified'
  BY <1>3, <1>4 DEF TypeInv, CallsIdentified
<1> QED BY <1>1, <1>5 DEF TypeInv

\* The types hold before anyone connects.
LEMMA TypeInitially ==
    Init => TypeInv
BY NoneAssumption
   DEF Init, RegistryInit, RoomsInit, TypeInv, TypeOK, RegistryTypeOK, RoomsTypeOK,
       CallsIdentified, Connection, Absent, Calls, Stage, Idle

\* Every step keeps the types and the record of who is identified.
LEMMA TypeStep ==
    ASSUME TypeInv, [Next]_vars
    PROVE  TypeInv'
<1> USE DEF TypeInv, TypeOK
<1>0. CASE UNCHANGED vars
  BY <1>0 DEF vars, RegistryTypeOK, RoomsTypeOK, CallsIdentified
<1>1. ASSUME NEW s \in Sockets, Connect(s) PROVE TypeInv'
  <2>1. conn' = [conn EXCEPT ![s] = [Absent EXCEPT !.live = TRUE]]
    BY <1>1 DEF Connect, Add
  <2>2. [Absent EXCEPT !.live = TRUE] \in Connection
    BY DEF Absent, Connection
  <2>3. RegistryTypeOK'
    BY <1>1, <2>1, <2>2 DEF Connect, RegistryTypeOK
  <2>4. CallsIdentified'
    <3>1. \A h \in Handlers : call'[h] = call[h] /\ call[h].socket # s
      BY <1>1 DEF Connect, Unreferenced
    <3>2. \A t \in Sockets : t # s => conn'[t] = conn[t]
      BY <2>1 DEF RegistryTypeOK
    <3>3. conn'[s].live
      BY <2>1 DEF RegistryTypeOK, Absent
    <3> QED BY <3>1, <3>2, <3>3 DEF CallsIdentified
  <2> QED BY <1>1, <2>3, <2>4 DEF Connect, RoomsTypeOK
<1>2. ASSUME NEW s \in Sockets, Disconnect(s) PROVE TypeInv'
  BY <1>2, RetireIdentified DEF Disconnect
<1>3. ASSUME NEW s \in Sockets, NEW e \in Engines, HelloAs(s, e)
      PROVE  /\ conn' \in [Sockets -> Connection]
             /\ \A t \in Sockets : t # s => conn'[t] = conn[t]
             /\ conn'[s].live /\ conn'[s].engineId = e
  BY <1>3 DEF HelloAs, MayIdentify, Identify, RegistryTypeOK, Connection
<1>4. ASSUME NEW s \in Sockets, NEW e \in Engines, Hello(s, e) PROVE TypeInv'
  <2>1. HelloAs(s, e) /\ UNCHANGED call
    BY <1>4 DEF Hello
  <2>2. CallsIdentified'
    BY <2>1, <1>3, NoneAssumption DEF CallsIdentified
  <2> QED BY <2>1, <2>2, <1>3 DEF HelloAs, RegistryTypeOK, RoomsTypeOK
<1>5. ASSUME NEW s \in Sockets, NEW e \in Engines, NEW h \in Handlers,
             HelloWithCredential(s, e, h)
      PROVE  TypeInv'
  <2>1. HelloAs(s, e) /\ Suspend(h, s, e)
    BY <1>5 DEF HelloWithCredential
  <2>2. call' \in [Handlers -> Calls]
    BY <2>1 DEF Suspend, Calls, Stage
  <2>3. CallsIdentified'
    <3>1. \A g \in Handlers : call'[g] = IF g = h
            THEN [stage |-> "granting", socket |-> s, engineId |-> e] ELSE call[g]
      BY <2>1 DEF Suspend
    <3> QED BY <2>1, <3>1, <1>3, NoneAssumption DEF CallsIdentified
  <2> QED BY <2>1, <2>2, <2>3, <1>3 DEF HelloAs, RegistryTypeOK, RoomsTypeOK
<1>6. ASSUME NEW s \in Sockets, NEW h \in Handlers, ActivationRequest(s, h)
      PROVE  TypeInv'
  <2>1. conn[s].engineId \in Engines
    BY <1>6 DEF ActivationRequest, RegistryTypeOK, Connection
  <2>2. \A g \in Handlers : call'[g] = IF g = h
          THEN [stage |-> "granting", socket |-> s, engineId |-> conn[s].engineId]
          ELSE call[g]
    BY <1>6 DEF ActivationRequest, Suspend
  <2>3. call' \in [Handlers -> Calls]
    BY <1>6, <2>1 DEF ActivationRequest, Suspend, Calls, Stage
  <2>4. CallsIdentified'
    BY <1>6, <2>1, <2>2, NoneAssumption DEF ActivationRequest, CallsIdentified
  <2> QED BY <1>6, <2>3, <2>4 DEF ActivationRequest, RegistryTypeOK, RoomsTypeOK
<1>7. ASSUME NEW h \in Handlers, Refused(h) PROVE TypeInv'
  <2>1. \A g \in Handlers : call'[g] = IF g = h THEN Idle ELSE call[g]
    BY <1>7 DEF Refused
  <2>2. call' \in [Handlers -> Calls]
    BY <1>7 DEF Refused, Calls, Stage, Idle
  <2> QED BY <1>7, <2>1, <2>2
          DEF Refused, CallsIdentified, RegistryTypeOK, RoomsTypeOK, Idle
<1>8. ASSUME NEW h \in Handlers, Granted(h) PROVE TypeInv'
  <2> DEFINE s == call[h].socket
             S == Replaced(byEngineId, conn, s)
             c == Authorize(conn, s, call[h].engineId)
  <2>1. TypeOK' /\ s \in Sockets
    BY <1>8, GrantedType
  <2>2. \A t \in Sockets : conn'[t] = IF t \in S THEN Absent ELSE c[t]
    BY <1>8 DEF Granted, Retire, Remove
  <2>3. \A t \in Sockets : c[t].live = conn[t].live /\ c[t].engineId = conn[t].engineId
                          /\ (~conn[t].live => c[t] = conn[t])
    BY <2>1 DEF Authorize, RegistryTypeOK, Connection
  <2>4. call' = [call EXCEPT ![h].stage = "opening"] /\ call[h].stage = "granting"
    BY <1>8 DEF Granted
  <2>5. CallsIdentified'
    <3>1. \A t \in Sockets : conn'[t].live =>
            conn[t].live /\ conn'[t].engineId = conn[t].engineId
      BY <2>2, <2>3 DEF Absent
    <3>2. \A t \in Sockets : ~conn'[t].live => conn'[t] = Absent
      BY <2>2, <2>3 DEF CallsIdentified
    <3>3. \A g \in Handlers :
            /\ call'[g].socket = call[g].socket
            /\ call'[g].engineId = call[g].engineId
            /\ call'[g].stage = "idle" <=> call[g].stage = "idle"
            /\ call'[g].stage = "idle" => call'[g] = call[g]
      BY <2>4 DEF Calls
    <3> HIDE DEF s, S, c
    <3> QED BY <3>1, <3>2, <3>3 DEF CallsIdentified
  <2> QED BY <2>1, <2>5
<1>9. ASSUME NEW h \in Handlers, NEW id \in Sessions, SessionOpened(h, id)
      PROVE  TypeInv'
  <2>1. call[h].socket \in Sockets
    BY <1>9 DEF SessionOpened, CallsIdentified
  <2>2. conn' \in [Sockets -> Connection]
    BY <1>9, <2>1 DEF SessionOpened, SetSessionId, RegistryTypeOK, Connection
  <2>3. \A t \in Sockets : /\ conn'[t].live <=> conn[t].live
                           /\ conn'[t].engineId = conn[t].engineId
                           /\ ~conn[t].live => conn'[t] = conn[t]
    BY <1>9, <2>1 DEF SessionOpened, SetSessionId, RegistryTypeOK, Connection
  <2>4. call' = [call EXCEPT ![h].stage = "crediting"] /\ call[h].stage = "opening"
    BY <1>9 DEF SessionOpened
  <2>5. CallsIdentified'
    <3>1. \A g \in Handlers :
            /\ call'[g].socket = call[g].socket
            /\ call'[g].engineId = call[g].engineId
            /\ call'[g].stage = "idle" <=> call[g].stage = "idle"
            /\ call'[g].stage = "idle" => call'[g] = call[g]
      BY <2>4 DEF Calls
    <3>2. \A t \in Sockets : ~conn'[t].live => conn'[t] = Absent
      BY <2>3 DEF CallsIdentified
    <3> QED BY <2>3, <3>1, <3>2 DEF CallsIdentified
  <2>6. call' \in [Handlers -> Calls]
    BY <2>4 DEF Calls, Stage
  <2> QED BY <1>9, <2>2, <2>5, <2>6 DEF SessionOpened, RegistryTypeOK, RoomsTypeOK
<1>10. ASSUME NEW h \in Handlers, SessionNotOpened(h) PROVE TypeInv'
  <2>1. call' = [call EXCEPT ![h].stage = "crediting"] /\ call[h].stage = "opening"
    BY <1>10 DEF SessionNotOpened
  <2>2. CallsIdentified' /\ call' \in [Handlers -> Calls]
    BY <1>10, <2>1 DEF SessionNotOpened, CallsIdentified, Calls, Stage
  <2> QED BY <1>10, <2>2 DEF SessionNotOpened, RegistryTypeOK, RoomsTypeOK
<1>11. ASSUME NEW h \in Handlers, CredentialIssued(h) PROVE TypeInv'
  <2>1. \A g \in Handlers : call'[g] = IF g = h THEN Idle ELSE call[g]
    BY <1>11 DEF CredentialIssued
  <2>2. call' \in [Handlers -> Calls]
    BY <1>11 DEF CredentialIssued, Calls, Stage, Idle
  <2> QED BY <1>11, <2>1, <2>2
          DEF CredentialIssued, Register, CallsIdentified, RegistryTypeOK, RoomsTypeOK,
              Idle
<1>12. ASSUME NEW s \in Sockets, Heartbeat(s) PROVE TypeInv'
  BY <1>12 DEF Heartbeat, Beat, CallsIdentified, RegistryTypeOK, RoomsTypeOK
<1>13. ASSUME NEW s \in Sockets, NEW e \in Engines, ManagerAgentSnapshot(s, e)
       PROVE  TypeInv'
  BY <1>13
     DEF ManagerAgentSnapshot, Register, CallsIdentified, RegistryTypeOK, RoomsTypeOK
<1>14. ASSUME NEW s \in Sockets, NEW Y \in SUBSET Symbols,
              Subscribe(s, Y) \/ Unsubscribe(s, Y)
       PROVE  TypeInv'
  <2>1. RoomsTypeOK'
    BY <1>14 DEF Subscribe, Unsubscribe, Join, Leave, RoomsTypeOK
  <2> QED BY <1>14, <2>1 DEF Subscribe, Unsubscribe, CallsIdentified, RegistryTypeOK
<1>15. ASSUME NEW S \in SUBSET Sockets, SweepStale(S) PROVE TypeInv'
  BY <1>15, RetireIdentified DEF SweepStale
<1>16. ASSUME NEW e \in Engines, DeviceReleased(e) PROVE TypeInv'
  BY <1>16, RetireIdentified DEF DeviceReleased, CurrentSocket
<1>17. ASSUME NEW D \in SUBSET Memberships(member), EvictExpired(D) PROVE TypeInv'
  BY <1>17 DEF EvictExpired, Evict, CallsIdentified, RegistryTypeOK, RoomsTypeOK
<1>18. ASSUME NEW E \in SUBSET Engines, SweepRegistry(E) PROVE TypeInv'
  BY <1>18 DEF SweepRegistry, MarkOffline, CallsIdentified, RegistryTypeOK, RoomsTypeOK
<1> HIDE DEF TypeInv, TypeOK
<1> QED BY NextCases, <1>0, <1>1, <1>2, <1>4, <1>5, <1>6, <1>7, <1>8, <1>9, <1>10,
           <1>11, <1>12, <1>13, <1>14, <1>15, <1>16, <1>17, <1>18

(* Every variable keeps its type, and a handler that awaits the license     *)
(* store comes back to a connection that is gone or still identified.       *)
THEOREM TypeInvariance == Spec => []TypeInv
<1>1. TypeInv /\ [Next]_vars => TypeInv'
  BY TypeStep
<1> QED BY TypeInitially, <1>1, PTL DEF Spec

(* Every variable of the gateway keeps its type: conn, byEngineId, member,  *)
(* call, health and openSessions through every handler and timer.           *)
THEOREM TypeCorrect == Spec => []TypeOK
<1>1. TypeInv => TypeOK
  BY DEF TypeInv
<1> QED BY <1>1, TypeInvariance, PTL

(* A handler that comes back from an await finds its connection gone or     *)
(* still identified, and setSessionId never brings back a removed entry.    *)
THEOREM HandlersIdentified == Spec => []CallsIdentified
<1>1. TypeInv => CallsIdentified
  BY DEF TypeInv
<1> QED BY <1>1, TypeInvariance, PTL

-----------------------------------------------------------------------------
(* The index.                                                              *)

IndexInv == IndexConsistent /\ LicensedIsCurrent

\* When the registry is consistent an index entry goes exactly if its socket does.
LEMMA RetireEffect ==
    ASSUME TypeInv, IndexConsistent, NEW S \in SUBSET Sockets,
           Retire(conn, byEngineId, S)
    PROVE  /\ \A s \in Sockets : conn'[s] = IF s \in S THEN Absent ELSE conn[s]
           /\ \A e \in Engines :
                 byEngineId'[e] = IF byEngineId[e] \in S THEN None ELSE byEngineId[e]
<1>1. \A s \in Sockets : conn'[s] = IF s \in S THEN Absent ELSE conn[s]
  BY DEF Retire, Remove
<1>2. \A e \in Engines : byEngineId[e] \in S =>
        byEngineId[e] # None /\ conn[byEngineId[e]].engineId = e
  BY NoneAssumption DEF IndexConsistent
<1>3. \A e \in Engines :
        byEngineId'[e] = IF byEngineId[e] \in S THEN None ELSE byEngineId[e]
  BY <1>2 DEF Retire, Unindex
<1> QED BY <1>1, <1>3

\* Leaving keeps the index consistent: an entry goes with its socket.
LEMMA RetireIndex ==
    ASSUME TypeInv, IndexInv, NEW S \in SUBSET Sockets, Retire(conn, byEngineId, S)
    PROVE  IndexInv'
<1>1. /\ \A s \in Sockets : conn'[s] = IF s \in S THEN Absent ELSE conn[s]
      /\ \A e \in Engines :
            byEngineId'[e] = IF byEngineId[e] \in S THEN None ELSE byEngineId[e]
  BY RetireEffect DEF IndexInv
<1>2. IndexConsistent'
  <2> SUFFICES ASSUME NEW e \in Engines, byEngineId'[e] # None
               PROVE  /\ conn'[byEngineId'[e]].live
                      /\ conn'[byEngineId'[e]].engineId = e
                      /\ conn'[byEngineId'[e]].licensedFor # None
    BY DEF IndexConsistent
  <2>1. byEngineId'[e] = byEngineId[e] /\ byEngineId[e] \in Sockets \ S
    BY <1>1 DEF TypeInv, TypeOK, RegistryTypeOK
  <2>2. conn'[byEngineId'[e]] = conn[byEngineId[e]]
    BY <1>1, <2>1
  <2> QED BY <2>1, <2>2 DEF IndexInv, IndexConsistent
<1>3. LicensedIsCurrent'
  <2> SUFFICES ASSUME NEW s \in Sockets, conn'[s].licensedFor # None
               PROVE  conn'[s].live /\ IsCurrent(byEngineId', conn', s)
    BY DEF LicensedIsCurrent
  <2>1. conn'[s] = conn[s] /\ s \notin S
    BY <1>1 DEF Absent
  <2>2. conn[s].live /\ IsCurrent(byEngineId, conn, s)
    BY <2>1 DEF IndexInv, LicensedIsCurrent
  <2>3. conn[s].engineId \in Engines
    BY <2>2 DEF IsCurrent, TypeInv, TypeOK, RegistryTypeOK, Connection
  <2>4. byEngineId'[conn[s].engineId] = s
    BY <1>1, <2>1, <2>2, <2>3 DEF IsCurrent
  <2> QED BY <2>1, <2>2, <2>4 DEF IsCurrent
<1> QED BY <1>2, <1>3 DEF IndexInv

\* What authorize() and the retirement of the replaced socket do together.
LEMMA GrantedEffect ==
    ASSUME TypeInv, IndexConsistent, NEW h \in Handlers, Granted(h),
           NEW s \in Sockets, s = call[h].socket, conn[s].live
    PROVE  LET g == conn[s].engineId
               p == byEngineId[g]
           IN  /\ g \in Engines
               /\ p \in Sockets \cup {None}
               /\ conn'[s] = [conn[s] EXCEPT !.licensedFor = call[h].engineId]
               /\ p \notin {s, None} => conn'[p] = Absent
               /\ \A t \in Sockets \ {s, p} : conn'[t] = conn[t]
               /\ byEngineId'[g] = s
               /\ \A e \in Engines \ {g} : byEngineId'[e] = byEngineId[e]
<1> DEFINE g == conn[s].engineId
           p == byEngineId[g]
           c == Authorize(conn, s, call[h].engineId)
           ix == Index(byEngineId, conn, s)
           S == Replaced(byEngineId, conn, s)
<1>1. g \in Engines /\ p \in Sockets \cup {None}
  BY DEF Granted, TypeInv, TypeOK, CallsIdentified, RegistryTypeOK, Connection
<1>2. S = {t \in Sockets \ {s} : t = p}
  BY <1>1, NoneAssumption DEF Replaced
<1>3. c = [conn EXCEPT ![s].licensedFor = call[h].engineId]
  BY DEF Authorize
<1>4. ix = [byEngineId EXCEPT ![g] = s]
  BY <1>1, NoneAssumption DEF Index
<1>5. conn' = Remove(c, S) /\ byEngineId' = Unindex(ix, c, S)
  BY DEF Granted, Retire
<1>6. \A t \in Sockets : conn'[t] = IF t \in S THEN Absent ELSE c[t]
  BY <1>5 DEF Remove
<1>7. \A t \in Sockets : c[t] = IF t = s
        THEN [conn[s] EXCEPT !.licensedFor = call[h].engineId] ELSE conn[t]
  BY <1>3 DEF TypeInv, TypeOK, RegistryTypeOK
<1>8. \A e \in Engines : byEngineId'[e] = ix[e]
  <2> SUFFICES ASSUME NEW e \in Engines, NEW t \in S, c[t].engineId = e, ix[e] = t
               PROVE  FALSE
    BY <1>5 DEF Unindex
  <2>1. t = p /\ t # s /\ t \in Sockets
    BY <1>2
  <2>2. conn[p].engineId = g /\ c[p] = conn[p]
    BY <1>1, <1>7, <2>1, NoneAssumption DEF IndexConsistent
  <2>3. ix[g] = s
    BY <1>1, <1>4 DEF TypeInv, TypeOK, RegistryTypeOK
  <2> QED BY <2>1, <2>2, <2>3
<1>9. \A e \in Engines : ix[e] = IF e = g THEN s ELSE byEngineId[e]
  BY <1>1, <1>4 DEF TypeInv, TypeOK, RegistryTypeOK
<1> HIDE DEF c, ix, S
<1> QED BY <1>1, <1>2, <1>6, <1>7, <1>8, <1>9, NoneAssumption

\* The few ways in which a step touches connections, index, rooms or sessions.
LEMMA RegistrySteps ==
    ASSUME [Next]_vars
    PROVE  \/ UNCHANGED <<conn, byEngineId, member, openSessions>>
           \/ \E s \in Sockets : Connect(s)
           \/ \E s \in Sockets, e \in Engines : HelloAs(s, e)
           \/ \E S \in SUBSET Sockets : Retire(conn, byEngineId, S)
           \/ \E h \in Handlers : Granted(h)
           \/ \E h \in Handlers, id \in Sessions : SessionOpened(h, id)
           \/ \E s \in Sockets, Y \in SUBSET Symbols : Subscribe(s, Y)
           \/ \E s \in Sockets, Y \in SUBSET Symbols : Unsubscribe(s, Y)
           \/ \E D \in SUBSET Memberships(member) : EvictExpired(D)
<1>1. CASE UNCHANGED vars
  BY <1>1 DEF vars
<1>2. CASE Next
  <2>1. ASSUME NEW s \in Sockets, Disconnect(s)
        PROVE  \E S \in SUBSET Sockets : Retire(conn, byEngineId, S)
    BY <2>1 DEF Disconnect
  <2>2. ASSUME NEW S \in SUBSET Sockets, SweepStale(S)
        PROVE  Retire(conn, byEngineId, S)
    BY <2>2 DEF SweepStale
  <2>3. ASSUME NEW e \in Engines, DeviceReleased(e)
        PROVE  \E S \in SUBSET Sockets : Retire(conn, byEngineId, S)
    <3>1. CurrentSocket(byEngineId, conn, e) \in SUBSET Sockets
      BY DEF CurrentSocket
    <3> QED BY <2>3, <3>1 DEF DeviceReleased
  <2>4. ASSUME NEW s \in Sockets, NEW e \in Engines,
               Hello(s, e) \/ \E h \in Handlers : HelloWithCredential(s, e, h)
        PROVE  HelloAs(s, e)
    BY <2>4 DEF Hello, HelloWithCredential
  <2>5. ASSUME NEW s \in Sockets,
               \/ Heartbeat(s)
               \/ \E e \in Engines : ManagerAgentSnapshot(s, e)
               \/ \E h \in Handlers : ActivationRequest(s, h)
        PROVE  UNCHANGED <<conn, byEngineId, member, openSessions>>
    BY <2>5 DEF Heartbeat, ManagerAgentSnapshot, ActivationRequest
  <2>6. ASSUME NEW h \in Handlers,
               Refused(h) \/ SessionNotOpened(h) \/ CredentialIssued(h)
        PROVE  UNCHANGED <<conn, byEngineId, member, openSessions>>
    BY <2>6 DEF Refused, SessionNotOpened, CredentialIssued
  <2>7. ASSUME NEW E \in SUBSET Engines, SweepRegistry(E)
        PROVE  UNCHANGED <<conn, byEngineId, member, openSessions>>
    BY <2>7 DEF SweepRegistry
  <2> QED BY <1>2, NextCases, <2>1, <2>2, <2>3, <2>4, <2>5, <2>6, <2>7
<1> QED BY <1>1, <1>2

\* Taking over an engine id leaves it indexed to the newcomer and to nobody else.
LEMMA GrantedIndex ==
    ASSUME TypeInv, IndexInv, TypeInv', NEW h \in Handlers, Granted(h)
    PROVE  IndexInv'
<1> DEFINE s == call[h].socket
           g == conn[s].engineId
           p == byEngineId[g]
<1>1. s \in Sockets /\ call[h].engineId \in Engines
  BY GrantedType DEF TypeInv
<1>2. CASE ~conn[s].live
  <2>1. Authorize(conn, s, call[h].engineId) = conn
    BY <1>2 DEF Authorize
  <2>2. Index(byEngineId, conn, s) = byEngineId
    BY <1>2 DEF Index
  <2>3. Replaced(byEngineId, conn, s) = {}
    BY <1>2 DEF Replaced
  <2>4. Retire(conn, byEngineId, {})
    BY <2>1, <2>2, <2>3 DEF Granted
  <2> QED BY <2>4, RetireIndex
<1>3. CASE conn[s].live
  <2>1. /\ g \in Engines
        /\ p \in Sockets \cup {None}
        /\ conn'[s] = [conn[s] EXCEPT !.licensedFor = call[h].engineId]
        /\ p \notin {s, None} => conn'[p] = Absent
        /\ \A t \in Sockets \ {s, p} : conn'[t] = conn[t]
        /\ byEngineId'[g] = s
        /\ \A e \in Engines \ {g} : byEngineId'[e] = byEngineId[e]
    BY <1>1, <1>3, GrantedEffect DEF IndexInv
  <2>2. /\ conn'[s].live /\ conn'[s].engineId = g
        /\ conn'[s].licensedFor \in Engines
    BY <1>1, <1>3, <2>1 DEF TypeInv, TypeOK, RegistryTypeOK, Connection
  <2>3. IndexConsistent'
    <3> SUFFICES ASSUME NEW e \in Engines, byEngineId'[e] # None
                 PROVE  /\ conn'[byEngineId'[e]].live
                        /\ conn'[byEngineId'[e]].engineId = e
                        /\ conn'[byEngineId'[e]].licensedFor # None
      BY DEF IndexConsistent
    <3>1. CASE e = g
      <4>1. byEngineId'[e] = s
        BY <2>1, <3>1
      <4>2. conn'[s].licensedFor # None
        BY <2>2, NoneAssumption
      <4> QED BY <2>2, <3>1, <4>1, <4>2
    <3>2. CASE e # g
      <4> DEFINE q == byEngineId[e]
      <4>1. byEngineId'[e] = q /\ q \in Sockets
        BY <2>1, <3>2 DEF TypeInv, TypeOK, RegistryTypeOK
      <4>2. conn[q].live /\ conn[q].engineId = e /\ conn[q].licensedFor # None
        BY <4>1, NoneAssumption DEF IndexInv, IndexConsistent
      <4>3. q # s /\ q # p
        BY <3>2, <4>1, <4>2, <2>1, NoneAssumption DEF IndexInv, IndexConsistent
      <4> QED BY <2>1, <4>1, <4>2, <4>3
    <3> QED BY <3>1, <3>2
  <2>4. LicensedIsCurrent'
    <3> SUFFICES ASSUME NEW t \in Sockets, conn'[t].licensedFor # None
                 PROVE  conn'[t].live /\ IsCurrent(byEngineId', conn', t)
      BY DEF LicensedIsCurrent
    <3>1. CASE t = s
      BY <2>1, <2>2, <3>1, NoneAssumption DEF IsCurrent
    <3>2. CASE t # s
      <4>1. t # p
        BY <2>1, <3>2, NoneAssumption DEF Absent
      <4>2. conn'[t] = conn[t]
        BY <2>1, <3>2, <4>1
      <4>3. conn[t].live /\ conn[t].engineId # None /\ byEngineId[conn[t].engineId] = t
        BY <4>2 DEF IndexInv, LicensedIsCurrent, IsCurrent
      <4>4. conn[t].engineId \in Engines \ {g}
        BY <4>1, <4>3 DEF TypeInv, TypeOK, RegistryTypeOK, Connection
      <4> QED BY <2>1, <4>2, <4>3, <4>4 DEF IsCurrent
    <3> QED BY <3>1, <3>2
  <2> QED BY <2>3, <2>4 DEF IndexInv
<1> QED BY <1>2, <1>3

\* The index invariant is inductive, relative to the types.
LEMMA IndexStep ==
    ASSUME TypeInv, TypeInv', IndexInv, [Next]_vars
    PROVE  IndexInv'
<1>1. CASE UNCHANGED <<conn, byEngineId>>
  BY <1>1 DEF IndexInv, IndexConsistent, LicensedIsCurrent, IsCurrent
<1>2. ASSUME NEW s \in Sockets, Connect(s) PROVE IndexInv'
  <2>1. /\ byEngineId' = byEngineId
        /\ ~conn[s].live
        /\ \A t \in Sockets \ {s} : conn'[t] = conn[t]
        /\ conn'[s].licensedFor = None
    BY <1>2 DEF Connect, Add, Absent, TypeInv, TypeOK, RegistryTypeOK
  <2>2. \A e \in Engines : byEngineId[e] # s
    BY <2>1, NoneAssumption DEF IndexInv, IndexConsistent
  <2>3. \A e \in Engines : byEngineId[e] # None => byEngineId[e] \in Sockets
    BY DEF TypeInv, TypeOK, RegistryTypeOK
  <2>4. IndexConsistent'
    BY <2>1, <2>2, <2>3 DEF IndexInv, IndexConsistent
  <2>5. LicensedIsCurrent'
    BY <2>1 DEF IndexInv, LicensedIsCurrent, IsCurrent
  <2> QED BY <2>4, <2>5 DEF IndexInv
<1>3. ASSUME NEW s \in Sockets, NEW e \in Engines, HelloAs(s, e) PROVE IndexInv'
  <2>1. /\ byEngineId' = byEngineId
        /\ \A t \in Sockets \ {s} : conn'[t] = conn[t]
        /\ conn'[s] = [conn[s] EXCEPT !.engineId = e]
        /\ conn[s].live
        /\ conn[s].licensedFor = None \/ conn[s].engineId \in {None, e}
    BY <1>3 DEF HelloAs, MayIdentify, Identify, TypeInv, TypeOK, RegistryTypeOK
  <2>2. conn'[s] = conn[s] \/ conn[s].licensedFor = None
    <3>1. CASE conn[s].licensedFor # None
      <4>1. conn[s].engineId # None
        BY <3>1 DEF IndexInv, LicensedIsCurrent, IsCurrent
      <4>2. conn[s].engineId = e
        BY <2>1, <3>1, <4>1
      <4> QED BY <2>1, <4>2 DEF TypeInv, TypeOK, RegistryTypeOK, Connection
    <3> QED BY <3>1
  <2>3. CASE conn'[s] = conn[s]
    <3>1. \A t \in Sockets : conn'[t] = conn[t]
      BY <2>1, <2>3
    <3>2. \A f \in Engines : byEngineId[f] # None => byEngineId[f] \in Sockets
      BY DEF TypeInv, TypeOK, RegistryTypeOK
    <3> QED BY <2>1, <3>1, <3>2 DEF IndexInv, IndexConsistent, LicensedIsCurrent, IsCurrent
  <2>4. CASE conn[s].licensedFor = None
    <3>1. \A f \in Engines : byEngineId[f] # s
      BY <2>4, NoneAssumption DEF IndexInv, IndexConsistent
    <3>2. \A f \in Engines : byEngineId[f] # None => byEngineId[f] \in Sockets
      BY DEF TypeInv, TypeOK, RegistryTypeOK
    <3>3. conn'[s].licensedFor = None
      BY <2>1, <2>4 DEF TypeInv, TypeOK, RegistryTypeOK, Connection
    <3>4. \A f \in Engines : byEngineId[f] # None =>
            conn'[byEngineId[f]] = conn[byEngineId[f]]
      BY <2>1, <3>1, <3>2
    <3>5. IndexConsistent'
      BY <2>1, <3>4 DEF IndexInv, IndexConsistent
    <3>6. LicensedIsCurrent'
      <4> SUFFICES ASSUME NEW t \in Sockets, conn'[t].licensedFor # None
                   PROVE  conn'[t].live /\ IsCurrent(byEngineId', conn', t)
        BY DEF LicensedIsCurrent
      <4>1. conn'[t] = conn[t]
        BY <2>1, <3>3
      <4> QED BY <2>1, <4>1 DEF IndexInv, LicensedIsCurrent, IsCurrent
    <3> QED BY <3>5, <3>6 DEF IndexInv
  <2> QED BY <2>2, <2>3, <2>4
<1>4. ASSUME NEW S \in SUBSET Sockets, Retire(conn, byEngineId, S) PROVE IndexInv'
  BY <1>4, RetireIndex
<1>5. ASSUME NEW h \in Handlers, Granted(h) PROVE IndexInv'
  BY <1>5, GrantedIndex
<1>6. ASSUME NEW h \in Handlers, NEW id \in Sessions, SessionOpened(h, id)
      PROVE  IndexInv'
  <2>1. call[h].socket \in Sockets
    BY <1>6 DEF SessionOpened, TypeInv, CallsIdentified
  <2>2. \A t \in Sockets : /\ conn'[t].live <=> conn[t].live
                           /\ conn'[t].engineId = conn[t].engineId
                           /\ conn'[t].licensedFor = conn[t].licensedFor
    BY <1>6, <2>1
       DEF SessionOpened, SetSessionId, TypeInv, TypeOK, RegistryTypeOK, Connection
  <2>3. \A f \in Engines : byEngineId[f] # None => byEngineId[f] \in Sockets
    BY DEF TypeInv, TypeOK, RegistryTypeOK
  <2>4. byEngineId' = byEngineId
    BY <1>6 DEF SessionOpened
  <2> QED BY <2>2, <2>3, <2>4 DEF IndexInv, IndexConsistent, LicensedIsCurrent, IsCurrent
<1>7. ASSUME NEW s \in Sockets, NEW Y \in SUBSET Symbols,
             Subscribe(s, Y) \/ Unsubscribe(s, Y)
      PROVE  UNCHANGED <<conn, byEngineId>>
  BY <1>7 DEF Subscribe, Unsubscribe
<1>8. ASSUME NEW D \in SUBSET Memberships(member), EvictExpired(D)
      PROVE  UNCHANGED <<conn, byEngineId>>
  BY <1>8 DEF EvictExpired
<1> QED BY RegistrySteps, <1>1, <1>2, <1>3, <1>4, <1>5, <1>6, <1>7, <1>8

\* Nobody is indexed before anyone connects.
LEMMA IndexInitially ==
    Init => IndexInv
BY DEF Init, RegistryInit, IndexInv, IndexConsistent, LicensedIsCurrent, Absent

(* No step of any handler, timer or socket leaves an index entry that does  *)
(* not lead to a live, licensed connection going by that engine id, however *)
(* handlers interleave at their awaits (ConnectionRegistryService).         *)
THEOREM IndexIsConsistent == Spec => []IndexConsistent
<1>1. Init => TypeInv /\ IndexInv
  BY IndexInitially, TypeInitially
<1>2. TypeInv /\ IndexInv /\ [Next]_vars => (TypeInv /\ IndexInv)'
  BY TypeStep, IndexStep
<1>3. TypeInv /\ IndexInv => IndexConsistent
  BY DEF IndexInv
<1> QED BY <1>1, <1>2, <1>3, PTL DEF Spec

(* Every licensed connection is the current one of its engine id, and so    *)
(* two licensed connections never share an engine id: authorize and         *)
(* retireSocket together keep one connection per engine.                    *)
THEOREM OneLicensedConnection == Spec => []LicensedIsCurrent
<1>1. Init => TypeInv /\ IndexInv
  BY IndexInitially, TypeInitially
<1>2. TypeInv /\ IndexInv /\ [Next]_vars => (TypeInv /\ IndexInv)'
  BY TypeStep, IndexStep
<1>3. TypeInv /\ IndexInv => LicensedIsCurrent
  BY DEF IndexInv
<1> QED BY <1>1, <1>2, <1>3, PTL DEF Spec

-----------------------------------------------------------------------------
(* Sessions.                                                               *)

\* Closing the sessions of the sockets that leave touches nobody else's.
LEMMA RetireSessions ==
    ASSUME TypeInv, SessionsExclusive, NEW c, NEW ix, NEW S \in SUBSET Sockets,
           \A s \in Sockets : c[s].sessionId = conn[s].sessionId,
           Retire(c, ix, S)
    PROVE  SessionsExclusive'
<1>1. \A s \in Sockets : /\ s \in S => conn'[s].sessionId = None
                         /\ s \notin S => conn'[s].sessionId = conn[s].sessionId
  BY DEF Retire, Remove, Absent
<1>2. openSessions' = openSessions \ SessionsOf(c, S)
  BY DEF Retire
<1>3. ASSUME NEW s \in Sockets, NEW t \in Sockets, s # t, conn'[s].sessionId # None
      PROVE  conn'[s].sessionId # conn'[t].sessionId
  BY <1>1, <1>3 DEF SessionsExclusive
<1>4. ASSUME NEW s \in Sockets, conn'[s].sessionId # None
      PROVE  conn'[s].sessionId \in openSessions'
  <2>1. s \notin S /\ conn'[s].sessionId = conn[s].sessionId
    BY <1>1, <1>4
  <2>2. conn[s].sessionId \in openSessions
    BY <1>4, <2>1 DEF SessionsExclusive, SessionsOf
  <2>3. \A t \in S : c[t].sessionId # conn[s].sessionId
    BY <1>4, <2>1 DEF SessionsExclusive
  <2> QED BY <1>2, <2>1, <2>2, <2>3 DEF SessionsOf
<1> QED BY <1>3, <1>4 DEF SessionsExclusive, SessionsOf

\* A session goes to one connection and is closed only with that connection.
LEMMA SessionsStep ==
    ASSUME TypeInv, SessionsExclusive, [Next]_vars
    PROVE  SessionsExclusive'
<1>1. CASE UNCHANGED <<conn, openSessions>>
  BY <1>1 DEF SessionsExclusive, SessionsOf
<1>2. ASSUME UNCHANGED openSessions,
             \A s \in Sockets : conn'[s].sessionId = conn[s].sessionId
      PROVE  SessionsExclusive'
  BY <1>2 DEF SessionsExclusive, SessionsOf
<1>3. ASSUME NEW s \in Sockets, Connect(s) PROVE SessionsExclusive'
  <2>1. conn[s] = Absent
    BY <1>3 DEF Connect, TypeInv, CallsIdentified
  <2>2. \A t \in Sockets : conn'[t].sessionId = conn[t].sessionId
    BY <1>3, <2>1 DEF Connect, Add, Absent, TypeInv, TypeOK, RegistryTypeOK
  <2> QED BY <1>2, <1>3, <2>2 DEF Connect
<1>4. ASSUME NEW s \in Sockets, NEW e \in Engines, HelloAs(s, e)
      PROVE  SessionsExclusive'
  <2>1. \A t \in Sockets : conn'[t].sessionId = conn[t].sessionId
    BY <1>4 DEF HelloAs, Identify, TypeInv, TypeOK, RegistryTypeOK, Connection
  <2> QED BY <1>2, <1>4, <2>1 DEF HelloAs
<1>5. ASSUME NEW S \in SUBSET Sockets, Retire(conn, byEngineId, S)
      PROVE  SessionsExclusive'
  BY <1>5, RetireSessions
<1>6. ASSUME NEW h \in Handlers, Granted(h) PROVE SessionsExclusive'
  <2> DEFINE s == call[h].socket
             c == Authorize(conn, s, call[h].engineId)
             ix == Index(byEngineId, conn, s)
             S == Replaced(byEngineId, conn, s)
  <2>1. \A t \in Sockets : c[t].sessionId = conn[t].sessionId
    BY DEF Authorize, TypeInv, TypeOK, RegistryTypeOK, Connection
  <2>2. S \in SUBSET Sockets
    BY DEF Replaced
  <2>3. Retire(c, ix, S)
    BY <1>6 DEF Granted
  <2> HIDE DEF s, c, ix, S
  <2> QED BY <2>1, <2>2, <2>3, RetireSessions
<1>7. ASSUME NEW h \in Handlers, NEW id \in Sessions, SessionOpened(h, id)
      PROVE  SessionsExclusive'
  <2> DEFINE s == call[h].socket
  <2>1. s \in Sockets
    BY <1>7 DEF SessionOpened, TypeInv, CallsIdentified
  <2>2. /\ \A t \in Sockets \ {s} : conn'[t].sessionId = conn[t].sessionId
        /\ conn'[s].sessionId \in {id, conn[s].sessionId}
    BY <1>7, <2>1
       DEF SessionOpened, SetSessionId, TypeInv, TypeOK, RegistryTypeOK, Connection
  <2>3. /\ openSessions' = openSessions \cup {id}
        /\ \A t \in Sockets : conn[t].sessionId # id
    BY <1>7 DEF SessionOpened, SessionsOf
  <2> HIDE DEF s
  <2>4. ASSUME NEW t \in Sockets, NEW u \in Sockets, t # u, conn'[t].sessionId # None
        PROVE  conn'[t].sessionId # conn'[u].sessionId
    BY <2>1, <2>2, <2>3, <2>4 DEF SessionsExclusive
  <2>5. ASSUME NEW t \in Sockets, conn'[t].sessionId # None
        PROVE  conn'[t].sessionId \in openSessions'
    <3>1. conn'[t].sessionId \in {id, conn[t].sessionId}
      BY <2>2
    <3> QED BY <2>3, <2>5, <3>1 DEF SessionsExclusive, SessionsOf
  <2> QED BY <2>4, <2>5 DEF SessionsExclusive, SessionsOf
<1>8. ASSUME NEW s \in Sockets, NEW Y \in SUBSET Symbols,
             Subscribe(s, Y) \/ Unsubscribe(s, Y)
      PROVE  UNCHANGED <<conn, openSessions>>
  BY <1>8 DEF Subscribe, Unsubscribe
<1>9. ASSUME NEW D \in SUBSET Memberships(member), EvictExpired(D)
      PROVE  UNCHANGED <<conn, openSessions>>
  BY <1>9 DEF EvictExpired
<1> QED BY RegistrySteps, <1>1, <1>3, <1>4, <1>5, <1>6, <1>7, <1>8, <1>9

(* A session belongs to one connection and is open for as long as that      *)
(* connection holds it: no interleaving of sessions.open with disconnects,  *)
(* replacements and sweeps attaches a closed session or shares one.         *)
THEOREM SessionsAreExclusive == Spec => []SessionsExclusive
<1>1. Init => TypeInv /\ SessionsExclusive
  BY TypeInitially
     DEF Init, RegistryInit, SessionsExclusive, SessionsOf, Absent
<1>2. TypeInv /\ SessionsExclusive /\ [Next]_vars => (TypeInv /\ SessionsExclusive)'
  BY TypeStep, SessionsStep
<1> QED BY <1>1, <1>2, PTL DEF Spec

-----------------------------------------------------------------------------
(* Rooms.                                                                  *)

\* A socket that leaves takes its memberships under its engine id with it.
LEMMA RetireMembers ==
    ASSUME TypeInv, MembersAreConnected, NEW c, NEW ix, NEW S \in SUBSET Sockets,
           \A s \in Sockets : /\ conn[s].live => c[s].live
                             /\ c[s].engineId = conn[s].engineId,
           Retire(c, ix, S)
    PROVE  MembersAreConnected'
<1> SUFFICES ASSUME NEW y \in Symbols, NEW e \in Engines,
                    member'[y][e] \notin Roamers \cup {None}
             PROVE  conn'[member'[y][e]].live /\ conn'[member'[y][e]].engineId = e
  BY DEF MembersAreConnected
<1> DEFINE s == member[y][e]
<1>1. member'[y][e] = IF \E t \in S : c[t].engineId = e /\ s = t THEN None ELSE s
  BY DEF Retire, LeaveAll
<1>2. member'[y][e] = s /\ s \in Sockets
  BY <1>1 DEF TypeInv, TypeOK, RoomsTypeOK
<1>3. conn[s].live /\ conn[s].engineId = e
  BY <1>2 DEF MembersAreConnected
<1>4. s \notin S
  BY <1>1, <1>2, <1>3
<1>5. conn'[s] = c[s]
  BY <1>2, <1>4 DEF Retire, Remove
<1> QED BY <1>2, <1>3, <1>5

LEMMA MembersStep ==
    ASSUME TypeInv, MembersAreConnected, [Next]_vars
    PROVE  MembersAreConnected'
<1>1. ASSUME UNCHANGED member,
             \A s \in Sockets : /\ conn[s].live => conn'[s].live
                               /\ conn'[s].engineId = conn[s].engineId
      PROVE  MembersAreConnected'
  <2> SUFFICES ASSUME NEW y \in Symbols, NEW e \in Engines,
                      member[y][e] \notin Roamers \cup {None}
               PROVE  conn'[member[y][e]].live /\ conn'[member[y][e]].engineId = e
    BY <1>1 DEF MembersAreConnected
  <2>1. member[y][e] \in Sockets
    BY DEF TypeInv, TypeOK, RoomsTypeOK
  <2> QED BY <1>1, <2>1 DEF MembersAreConnected
<1>2. CASE UNCHANGED <<conn, byEngineId, member, openSessions>>
  BY <1>1, <1>2
<1>3. ASSUME NEW s \in Sockets, Connect(s) PROVE MembersAreConnected'
  <2>1. /\ UNCHANGED member
        /\ \A y \in Symbols, e \in Engines : member[y][e] # s
        /\ \A t \in Sockets \ {s} : conn'[t] = conn[t]
    BY <1>3 DEF Connect, Unreferenced, Add, TypeInv, TypeOK, RegistryTypeOK
  <2> SUFFICES ASSUME NEW y \in Symbols, NEW e \in Engines,
                      member[y][e] \notin Roamers \cup {None}
               PROVE  conn'[member[y][e]].live /\ conn'[member[y][e]].engineId = e
    BY <2>1 DEF MembersAreConnected
  <2>2. member[y][e] \in Sockets \ {s}
    BY <2>1 DEF TypeInv, TypeOK, RoomsTypeOK
  <2> QED BY <2>1, <2>2 DEF MembersAreConnected
<1>4. ASSUME NEW s \in Sockets, NEW f \in Engines, HelloAs(s, f)
      PROVE  MembersAreConnected'
  <2>1. /\ UNCHANGED member
        /\ \A t \in Sockets \ {s} : conn'[t] = conn[t]
        /\ conn'[s] = [conn[s] EXCEPT !.engineId = f]
        /\ conn[s].live
        /\ s \in Roamers \/ conn[s].engineId \in {None, f}
    BY <1>4 DEF HelloAs, MayIdentify, Identify, TypeInv, TypeOK, RegistryTypeOK
  <2>2. conn'[s].live /\ conn'[s].engineId = f
    BY <2>1 DEF TypeInv, TypeOK, RegistryTypeOK, Connection
  <2> SUFFICES ASSUME NEW y \in Symbols, NEW e \in Engines,
                      member[y][e] \notin Roamers \cup {None}
               PROVE  conn'[member[y][e]].live /\ conn'[member[y][e]].engineId = e
    BY <2>1 DEF MembersAreConnected
  <2>3. /\ member[y][e] \in Sockets
        /\ conn[member[y][e]].live /\ conn[member[y][e]].engineId = e
    BY DEF TypeInv, TypeOK, RoomsTypeOK, MembersAreConnected
  <2>4. CASE member[y][e] = s
    <3>1. f = e
      BY <2>1, <2>3, <2>4, NoneAssumption
    <3> QED BY <2>2, <2>4, <3>1
  <2>5. CASE member[y][e] # s
    BY <2>1, <2>3, <2>5
  <2> QED BY <2>4, <2>5
<1>5. ASSUME NEW S \in SUBSET Sockets, Retire(conn, byEngineId, S)
      PROVE  MembersAreConnected'
  BY <1>5, RetireMembers
<1>6. ASSUME NEW h \in Handlers, Granted(h) PROVE MembersAreConnected'
  <2> DEFINE s == call[h].socket
             c == Authorize(conn, s, call[h].engineId)
             ix == Index(byEngineId, conn, s)
             S == Replaced(byEngineId, conn, s)
  <2>1. \A t \in Sockets : /\ conn[t].live => c[t].live
                           /\ c[t].engineId = conn[t].engineId
    BY DEF Authorize, TypeInv, TypeOK, RegistryTypeOK, Connection
  <2>2. S \in SUBSET Sockets
    BY DEF Replaced
  <2>3. Retire(c, ix, S)
    BY <1>6 DEF Granted
  <2> HIDE DEF s, c, ix, S
  <2> QED BY <2>1, <2>2, <2>3, RetireMembers
<1>7. ASSUME NEW h \in Handlers, NEW id \in Sessions, SessionOpened(h, id)
      PROVE  MembersAreConnected'
  <2>1. call[h].socket \in Sockets
    BY <1>7 DEF SessionOpened, TypeInv, CallsIdentified
  <2>2. \A t \in Sockets : /\ conn[t].live => conn'[t].live
                           /\ conn'[t].engineId = conn[t].engineId
    BY <1>7, <2>1
       DEF SessionOpened, SetSessionId, TypeInv, TypeOK, RegistryTypeOK, Connection
  <2>3. UNCHANGED member
    BY <1>7 DEF SessionOpened
  <2> QED BY <1>1, <2>2, <2>3
<1>8. ASSUME NEW s \in Sockets, NEW Y \in SUBSET Symbols, Subscribe(s, Y)
      PROVE  MembersAreConnected'
  <2>1. /\ conn' = conn
        /\ conn[s].live /\ conn[s].engineId # None
    BY <1>8 DEF Subscribe, TypeInv, CallsIdentified, Absent
  <2>2. \A y \in Symbols, e \in Engines : member'[y][e] =
          IF y \in Y /\ e = conn[s].engineId THEN s ELSE member[y][e]
    BY <1>8 DEF Subscribe, Join, TypeInv, TypeOK, RoomsTypeOK
  <2> QED BY <2>1, <2>2 DEF MembersAreConnected
<1>9. ASSUME NEW s \in Sockets, NEW Y \in SUBSET Symbols, Unsubscribe(s, Y)
      PROVE  MembersAreConnected'
  <2>1. \A y \in Symbols, e \in Engines : member'[y][e] \in {None, member[y][e]}
    BY <1>9 DEF Unsubscribe, Leave, TypeInv, TypeOK, RoomsTypeOK
  <2>2. conn' = conn
    BY <1>9 DEF Unsubscribe
  <2> QED BY <2>1, <2>2 DEF MembersAreConnected
<1>10. ASSUME NEW D \in SUBSET Memberships(member), EvictExpired(D)
       PROVE  MembersAreConnected'
  <2>1. \A y \in Symbols, e \in Engines : member'[y][e] \in {None, member[y][e]}
    BY <1>10 DEF EvictExpired, Evict
  <2>2. conn' = conn
    BY <1>10 DEF EvictExpired
  <2> QED BY <2>1, <2>2 DEF MembersAreConnected
<1> QED BY RegistrySteps, <1>2, <1>3, <1>4, <1>5, <1>6, <1>7, <1>8, <1>9, <1>10

(* For engines that keep to one engine id per connection, the rooms never   *)
(* hold a socket that has left: handleDisconnect and retireSocket, which    *)
(* clear the rooms under the connection's last engine id only, are enough.  *)
THEOREM RoomsHoldConnectedSockets == Spec => []MembersAreConnected
<1>1. Init => TypeInv /\ MembersAreConnected
  BY TypeInitially DEF Init, RoomsInit, MembersAreConnected
<1>2. TypeInv /\ MembersAreConnected /\ [Next]_vars
        => (TypeInv /\ MembersAreConnected)'
  BY TypeStep, MembersStep
<1> QED BY <1>1, <1>2, PTL DEF Spec

-----------------------------------------------------------------------------
(* What a license was granted for.                                         *)

\* A connection that keeps to one engine id is licensed for that id or not at
\* all, and so is whatever it awaits.
GrantIsOwn ==
    \A s \in Sockets \ Roamers :
        /\ conn[s].licensedFor \in {None, conn[s].engineId}
        /\ conn[s].live =>
              \A h \in Handlers : call[h].socket = s => call[h].engineId = conn[s].engineId

\* It is enough to look at what becomes of each connection and of each handler.
LEMMA GrantKept ==
    ASSUME GrantIsOwn,
           \A s \in Sockets \ Roamers :
              \/ conn'[s] = Absent
              \/ /\ conn'[s].engineId = conn[s].engineId
                 /\ conn'[s].licensedFor \in {None, conn[s].licensedFor, conn[s].engineId}
                 /\ conn'[s].live => conn[s].live,
           \A h \in Handlers :
              \/ call'[h].socket = None
              \/ /\ call'[h].socket = call[h].socket
                 /\ call'[h].engineId = call[h].engineId
              \/ call'[h].engineId = conn'[call'[h].socket].engineId
    PROVE  GrantIsOwn'
BY NoneAssumption DEF GrantIsOwn, Absent

\* engine.hello names the id there was, unless the connection roams.
LEMMA GrantHello ==
    ASSUME TypeInv, GrantIsOwn, NEW s \in Sockets, NEW e \in Engines, HelloAs(s, e),
           \A h \in Handlers :
              \/ call'[h] = call[h]
              \/ call'[h].socket = s /\ call'[h].engineId = e
    PROVE  GrantIsOwn'
<1>1. /\ \A t \in Sockets \ {s} : conn'[t] = conn[t]
      /\ conn'[s].engineId = e /\ conn'[s].licensedFor = conn[s].licensedFor
      /\ conn[s].live
      /\ s \in Roamers \/ conn[s].engineId \in {None, e}
  BY DEF HelloAs, MayIdentify, Identify, TypeInv, TypeOK, RegistryTypeOK, Connection
<1> SUFFICES ASSUME NEW t \in Sockets \ Roamers
             PROVE  /\ conn'[t].licensedFor \in {None, conn'[t].engineId}
                    /\ conn'[t].live => \A h \in Handlers :
                          call'[h].socket = t => call'[h].engineId = conn'[t].engineId
  BY DEF GrantIsOwn
<1>2. CASE t # s
  BY <1>1, <1>2 DEF GrantIsOwn
<1>3. CASE t = s
  <2>1. conn'[t].licensedFor \in {None, conn'[t].engineId}
    BY <1>1, <1>3 DEF GrantIsOwn
  <2>2. ASSUME NEW h \in Handlers, call[h].socket = s PROVE call[h].engineId = e
    <3>1. call[h] # Idle
      BY <2>2, NoneAssumption DEF Idle
    <3>2. conn[s].engineId # None
      BY <1>1, <2>2, <3>1 DEF TypeInv, CallsIdentified
    <3> QED BY <1>1, <1>3, <2>2, <3>2 DEF GrantIsOwn
  <2> QED BY <1>1, <1>3, <2>1, <2>2
<1> QED BY <1>2, <1>3

\* authorize() writes the id that the handler captured, which is the connection's.
LEMMA GrantGranted ==
    ASSUME TypeInv, GrantIsOwn, NEW h \in Handlers, Granted(h)
    PROVE  GrantIsOwn'
<1> DEFINE s == call[h].socket
           c == Authorize(conn, s, call[h].engineId)
           S == Replaced(byEngineId, conn, s)
<1>1. s \in Sockets
  BY GrantedType DEF TypeInv
<1>2. \A t \in Sockets : conn'[t] = IF t \in S THEN Absent ELSE c[t]
  BY DEF Granted, Retire, Remove
<1>3. \A t \in Sockets \ {s} : c[t] = conn[t]
  BY DEF Authorize, TypeInv, TypeOK, RegistryTypeOK
<1>4. /\ c[s].engineId = conn[s].engineId /\ c[s].live = conn[s].live
      /\ c[s].licensedFor = IF conn[s].live THEN call[h].engineId ELSE conn[s].licensedFor
  BY <1>1 DEF Authorize, TypeInv, TypeOK, RegistryTypeOK, Connection
<1>5. s \notin Roamers /\ conn[s].live => call[h].engineId = conn[s].engineId
  BY <1>1 DEF GrantIsOwn
<1>6. \A k \in Handlers : /\ call'[k].socket = call[k].socket
                          /\ call'[k].engineId = call[k].engineId
  BY DEF Granted, TypeInv, TypeOK, Calls
<1> HIDE DEF c, S
<1>7. ASSUME NEW t \in Sockets \ Roamers, conn'[t] # Absent
      PROVE  /\ conn'[t].engineId = conn[t].engineId
             /\ conn'[t].licensedFor \in {None, conn[t].licensedFor, conn[t].engineId}
             /\ conn'[t].live => conn[t].live
  <2>1. conn'[t] = c[t]
    BY <1>2, <1>7
  <2>2. CASE t = s
    BY <1>4, <1>5, <2>1, <2>2
  <2>3. CASE t # s
    BY <1>3, <2>1, <2>3
  <2> QED BY <2>2, <2>3
<1> QED BY <1>6, <1>7, GrantKept

\* A step of any handler or timer.
LEMMA GrantStep ==
    ASSUME TypeInv, GrantIsOwn, [Next]_vars
    PROVE  GrantIsOwn'
<1>1. ASSUME UNCHANGED <<conn, call>> PROVE GrantIsOwn'
  BY <1>1 DEF GrantIsOwn
<1>2. ASSUME NEW s \in Sockets, Connect(s) PROVE GrantIsOwn'
  <2>1. /\ \A t \in Sockets \ {s} : conn'[t] = conn[t]
        /\ conn'[s].licensedFor = None
        /\ \A h \in Handlers : call[h].socket # s
        /\ call' = call
    BY <1>2 DEF Connect, Unreferenced, Add, Absent, TypeInv, TypeOK, RegistryTypeOK
  <2> QED BY <2>1 DEF GrantIsOwn
<1>3. ASSUME NEW S \in SUBSET Sockets, Retire(conn, byEngineId, S), UNCHANGED call
      PROVE  GrantIsOwn'
  <2>1. \A s \in Sockets : conn'[s] = Absent \/ conn'[s] = conn[s]
    BY <1>3 DEF Retire, Remove
  <2> QED BY <1>3, <2>1, GrantKept
<1>4. ASSUME NEW s \in Sockets, Disconnect(s) PROVE GrantIsOwn'
  BY <1>3, <1>4 DEF Disconnect
<1>5. ASSUME NEW S \in SUBSET Sockets, SweepStale(S) PROVE GrantIsOwn'
  BY <1>3, <1>5 DEF SweepStale
<1>6. ASSUME NEW e \in Engines, DeviceReleased(e) PROVE GrantIsOwn'
  <2>1. CurrentSocket(byEngineId, conn, e) \in SUBSET Sockets
    BY DEF CurrentSocket
  <2> QED BY <1>3, <1>6, <2>1 DEF DeviceReleased
<1>7. ASSUME NEW s \in Sockets, NEW e \in Engines, Hello(s, e) PROVE GrantIsOwn'
  BY <1>7, GrantHello DEF Hello
<1>8. ASSUME NEW s \in Sockets, NEW e \in Engines, NEW h \in Handlers,
             HelloWithCredential(s, e, h)
      PROVE  GrantIsOwn'
  <2>1. \A k \in Handlers :
           \/ call'[k] = call[k]
           \/ call'[k].socket = s /\ call'[k].engineId = e
    BY <1>8 DEF HelloWithCredential, Suspend, TypeInv, TypeOK
  <2> QED BY <1>8, <2>1, GrantHello DEF HelloWithCredential
<1>9. ASSUME NEW s \in Sockets, NEW h \in Handlers, ActivationRequest(s, h)
      PROVE  GrantIsOwn'
  <2>1. /\ conn' = conn
        /\ \A k \in Handlers :
              \/ call'[k] = call[k]
              \/ call'[k].socket = s /\ call'[k].engineId = conn[s].engineId
    BY <1>9 DEF ActivationRequest, Suspend, TypeInv, TypeOK
  <2> QED BY <2>1, GrantKept
<1>10. ASSUME NEW h \in Handlers, Refused(h) \/ CredentialIssued(h) PROVE GrantIsOwn'
  <2>1. conn' = conn /\ \A k \in Handlers : call'[k] = call[k] \/ call'[k] = Idle
    BY <1>10 DEF Refused, CredentialIssued, TypeInv, TypeOK
  <2> QED BY <2>1, GrantKept DEF Idle
<1>11. ASSUME NEW h \in Handlers, NEW id \in Sessions, SessionOpened(h, id)
       PROVE  GrantIsOwn'
  <2>1. \A t \in Sockets : /\ conn'[t].live <=> conn[t].live
                           /\ conn'[t].engineId = conn[t].engineId
                           /\ conn'[t].licensedFor = conn[t].licensedFor
    BY <1>11 DEF SessionOpened, SetSessionId, TypeInv, TypeOK, RegistryTypeOK, Connection
  <2>2. \A k \in Handlers : /\ call'[k].socket = call[k].socket
                            /\ call'[k].engineId = call[k].engineId
    BY <1>11 DEF SessionOpened, TypeInv, TypeOK, Calls
  <2> QED BY <2>1, <2>2, GrantKept
<1>12. ASSUME NEW h \in Handlers, SessionNotOpened(h) PROVE GrantIsOwn'
  <2>1. conn' = conn /\ \A k \in Handlers : /\ call'[k].socket = call[k].socket
                                            /\ call'[k].engineId = call[k].engineId
    BY <1>12 DEF SessionNotOpened, TypeInv, TypeOK, Calls
  <2> QED BY <2>1, GrantKept
<1>13. ASSUME NEW h \in Handlers, Granted(h) PROVE GrantIsOwn'
  BY <1>13, GrantGranted
<1>14. ASSUME NEW s \in Sockets,
              \/ Heartbeat(s)
              \/ \E e \in Engines : ManagerAgentSnapshot(s, e)
              \/ \E Y \in SUBSET Symbols : Subscribe(s, Y) \/ Unsubscribe(s, Y)
       PROVE  UNCHANGED <<conn, call>>
  BY <1>14 DEF Heartbeat, ManagerAgentSnapshot, Subscribe, Unsubscribe
<1>15. ASSUME \/ \E D \in SUBSET Memberships(member) : EvictExpired(D)
              \/ \E E \in SUBSET Engines : SweepRegistry(E)
              \/ UNCHANGED vars
       PROVE  UNCHANGED <<conn, call>>
  BY <1>15 DEF EvictExpired, SweepRegistry, vars
<1> QED BY NextCases, <1>1, <1>2, <1>4, <1>5, <1>6, <1>7, <1>8, <1>9, <1>10, <1>11,
           <1>12, <1>13, <1>14, <1>15

(* A connection that keeps to one engine id holds a license granted for that *)
(* id, and awaits one for no other: however long hello and activation wait  *)
(* for the store, what they captured is still what the connection goes by.  *)
THEOREM GrantsAreOwn == Spec => []GrantIsOwn
<1>1. Init => TypeInv /\ GrantIsOwn
  BY TypeInitially, NoneAssumption
     DEF Init, RegistryInit, GrantIsOwn, Absent, Idle
<1>2. TypeInv /\ GrantIsOwn /\ [Next]_vars => (TypeInv /\ GrantIsOwn)'
  BY TypeStep, GrantStep
<1> QED BY <1>1, <1>2, PTL DEF Spec

(* What connection-registry.service.ts:37 says of a takeover is true of     *)
(* engines that keep to one id: whoever takes over an id holds a license    *)
(* granted for it.  Only a connection that changes its id before it is      *)
(* granted one can break it, as the run takeover shows.                     *)
THEOREM TakeoversHoldGrants ==
    ASSUME Roamers = {}
    PROVE  Spec => TakeoverHoldsGrant
<1> DEFINE Held == \A e \in Engines :
              byEngineId[e] # None /\ byEngineId'[e] \notin {None, byEngineId[e]} =>
                  conn'[byEngineId'[e]].licensedFor = e
<1>1. TypeInv' /\ IndexConsistent' /\ GrantIsOwn' => Held
  BY DEF GrantIsOwn, IndexConsistent, TypeInv, TypeOK, RegistryTypeOK
<1>2. TypeInv' /\ IndexConsistent' /\ GrantIsOwn' => [Held]_vars
  BY <1>1
<1> QED BY <1>2, TypeInvariance, IndexIsConsistent, GrantsAreOwn, PTL DEF TakeoverHoldsGrant

\* When the release of an engine's device is known, no connection that keeps to
\* one id goes on with a license for that engine.
ReleaseMissesNone ==
    [][\A e \in Engines : DeviceReleased(e) =>
          \A s \in Sockets \ Roamers : conn'[s].licensedFor # e]_vars

(* notifyDeviceReleased retires every connection that the released device   *)
(* licenses, although it looks for one only, and by engine id: of           *)
(* connections that keep to one id, none goes on with a license that is     *)
(* gone.  One that roams may: its license may be for the id it left.        *)
THEOREM ReleasesMissNone == Spec => ReleaseMissesNone
<1> DEFINE Gone == \A e \in Engines : DeviceReleased(e) =>
                       \A s \in Sockets \ Roamers : conn'[s].licensedFor # e
<1>1. ASSUME TypeInv, IndexConsistent, LicensedIsCurrent', GrantIsOwn', [Next]_vars PROVE Gone
  <2> SUFFICES ASSUME NEW e \in Engines, DeviceReleased(e),
                      NEW s \in Sockets \ Roamers, conn'[s].licensedFor = e
               PROVE  FALSE
    OBVIOUS
  <2> DEFINE S == CurrentSocket(byEngineId, conn, e)
  <2>1. S \in SUBSET Sockets /\ Retire(conn, byEngineId, S)
    BY DEF DeviceReleased, CurrentSocket
  <2>2. /\ conn'[s] = IF s \in S THEN Absent ELSE conn[s]
        /\ byEngineId'[e] = IF byEngineId[e] \in S THEN None ELSE byEngineId[e]
    BY <1>1, <2>1, RetireEffect
  <2>3. conn'[s].engineId = e /\ byEngineId'[e] = s
    BY <1>1, NoneAssumption DEF GrantIsOwn, LicensedIsCurrent, IsCurrent
  <2>4. conn'[s] = conn[s] /\ byEngineId[e] = s
    BY <2>2, <2>3, NoneAssumption DEF Absent
  <2>5. s \in S
    BY <2>4, NoneAssumption DEF CurrentSocket
  <2> QED BY <2>2, <2>3, <2>5, NoneAssumption DEF Absent
<1>2. TypeInv /\ IndexConsistent /\ LicensedIsCurrent' /\ GrantIsOwn' /\ [Next]_vars
        => [Gone]_vars
  BY <1>1
<1> QED BY <1>2, TypeInvariance, IndexIsConsistent, OneLicensedConnection, GrantsAreOwn, PTL
        DEF Spec, ReleaseMissesNone

-----------------------------------------------------------------------------
(* Steps.                                                                  *)

\* Whoever is replaced is no longer current when it leaves, and goes entirely.
LEMMA GrantedRetires ==
    ASSUME TypeInv, IndexInv, NEW h \in Handlers, Granted(h),
           NEW s \in Sockets, s = call[h].socket, conn[s].live
    PROVE  LET g == conn[s].engineId
               p == byEngineId[g]
           IN  /\ health' = health
               /\ p \notin {s, None} =>
                     /\ conn[p].sessionId \notin openSessions'
                     /\ \A y \in Symbols : member'[y][g] # p
<1> DEFINE g == conn[s].engineId
           p == byEngineId[g]
           c == Authorize(conn, s, call[h].engineId)
           ix == Index(byEngineId, conn, s)
           S == Replaced(byEngineId, conn, s)
<1>1. g \in Engines /\ p \in Sockets \cup {None}
  BY GrantedEffect DEF IndexInv
<1>2. S = {t \in Sockets \ {s} : t = p}
  BY <1>1, NoneAssumption DEF Replaced
<1>3. \A t \in Sockets : /\ c[t].engineId = conn[t].engineId
                         /\ c[t].sessionId = conn[t].sessionId
  BY DEF Authorize, TypeInv, TypeOK, RegistryTypeOK, Connection
<1>4. ix[g] = s
  BY <1>1, NoneAssumption DEF Index, TypeInv, TypeOK, RegistryTypeOK
<1>5. p # None => conn[p].engineId = g
  BY <1>1 DEF IndexInv, IndexConsistent
<1>6. Retire(c, ix, S)
  BY DEF Granted
<1> HIDE DEF c, ix, S
<1>7. SpokenFor(c, ix, S) = {}
  <2> SUFFICES ASSUME NEW t \in S, IsCurrent(ix, c, t) PROVE FALSE
    BY DEF SpokenFor
  <2>1. t = p /\ t # s /\ t \in Sockets /\ p # None
    BY <1>2, NoneAssumption
  <2>2. c[t].engineId = g
    BY <1>3, <1>5, <2>1
  <2> QED BY <1>4, <2>1, <2>2 DEF IsCurrent
<1>8. health' = health
  BY <1>6, <1>7 DEF Retire, MarkOffline, TypeInv, TypeOK
<1>9. ASSUME p \notin {s, None}
      PROVE  /\ conn[p].sessionId \notin openSessions'
             /\ \A y \in Symbols : member'[y][g] # p
  <2>1. p \in S /\ p \in Sockets
    BY <1>1, <1>2, <1>9
  <2>2. c[p].sessionId = conn[p].sessionId /\ c[p].engineId = g
    BY <1>3, <1>5, <1>9, <2>1
  <2>3. conn[p].sessionId \notin openSessions'
    BY <1>6, <2>1, <2>2 DEF Retire, SessionsOf
  <2>4. \A y \in Symbols : member'[y][g] = IF \E t \in S : c[t].engineId = g /\ member[y][g] = t
                                             THEN None ELSE member[y][g]
    BY <1>1, <1>6 DEF Retire, LeaveAll
  <2>5. ASSUME NEW y \in Symbols, member'[y][g] = p PROVE FALSE
    <3>1. member[y][g] = p
      BY <1>9, <2>4, <2>5
    <3> QED BY <1>9, <2>1, <2>2, <2>4, <2>5, <3>1
  <2> QED BY <2>3, <2>5
<1> QED BY <1>8, <1>9

\* The index entry of an engine changes only when sockets leave or one takes over.
LEMMA IndexMoves ==
    ASSUME TypeInv, IndexInv, [Next]_vars, NEW e \in Engines,
           byEngineId'[e] # byEngineId[e]
    PROVE  \/ \E S \in SUBSET Sockets :
                /\ Retire(conn, byEngineId, S)
                /\ byEngineId[e] \in S
                /\ byEngineId'[e] = None
           \/ \E h \in Handlers :
                /\ Granted(h)
                /\ call[h].socket \in Sockets
                /\ conn[call[h].socket].live
                /\ conn[call[h].socket].engineId = e
                /\ byEngineId'[e] = call[h].socket
<1>1. ASSUME NEW S \in SUBSET Sockets, Retire(conn, byEngineId, S)
      PROVE  byEngineId[e] \in S /\ byEngineId'[e] = None
  BY <1>1, RetireEffect DEF IndexInv
<1>2. ASSUME NEW h \in Handlers, Granted(h)
      PROVE  /\ call[h].socket \in Sockets
             /\ conn[call[h].socket].live
             /\ conn[call[h].socket].engineId = e
             /\ byEngineId'[e] = call[h].socket
  <2> DEFINE s == call[h].socket
             g == conn[s].engineId
             p == byEngineId[g]
  <2>1. s \in Sockets
    BY <1>2, GrantedType DEF TypeInv
  <2>2. conn[s].live
    <3> SUFFICES ASSUME ~conn[s].live PROVE FALSE
      OBVIOUS
    <3>1. Index(byEngineId, conn, s) = byEngineId
      BY DEF Index
    <3>2. Replaced(byEngineId, conn, s) = {}
      BY DEF Replaced
    <3>3. byEngineId' = [f \in Engines |-> byEngineId[f]]
      BY <1>2, <3>1, <3>2 DEF Granted, Retire, Unindex
    <3> QED BY <3>3
  <2>3. /\ g \in Engines
        /\ p \in Sockets \cup {None}
        /\ conn'[s] = [conn[s] EXCEPT !.licensedFor = call[h].engineId]
        /\ p \notin {s, None} => conn'[p] = Absent
        /\ \A t \in Sockets \ {s, p} : conn'[t] = conn[t]
        /\ byEngineId'[g] = s
        /\ \A f \in Engines \ {g} : byEngineId'[f] = byEngineId[f]
    BY <1>2, <2>1, <2>2, GrantedEffect DEF IndexInv
  <2> QED BY <2>1, <2>2, <2>3
<1>3. ASSUME UNCHANGED byEngineId PROVE FALSE
  BY <1>3
<1>4. ASSUME NEW s \in Sockets,
             \/ Connect(s)
             \/ \E f \in Engines : HelloAs(s, f)
             \/ \E Y \in SUBSET Symbols : Subscribe(s, Y) \/ Unsubscribe(s, Y)
      PROVE  UNCHANGED byEngineId
  BY <1>4 DEF Connect, HelloAs, Subscribe, Unsubscribe
<1>5. ASSUME NEW h \in Handlers, NEW id \in Sessions, SessionOpened(h, id)
      PROVE  UNCHANGED byEngineId
  BY <1>5 DEF SessionOpened
<1>6. ASSUME NEW D \in SUBSET Memberships(member), EvictExpired(D)
      PROVE  UNCHANGED byEngineId
  BY <1>6 DEF EvictExpired
<1> QED BY RegistrySteps, <1>1, <1>2, <1>3, <1>4, <1>5, <1>6

(* A connection that loses its engine id to another is gone in that step    *)
(* from the table, the rooms and the session store, and the engine's health *)
(* does not flicker (authorize, then retireSocket of the replaced socket).  *)
THEOREM ReplacementRetiresCleanly == Spec => ReplacementIsClean
<1> DEFINE Clean == \A e \in Engines :
             LET p == byEngineId[e]
             IN  p # None /\ byEngineId'[e] \notin {None, p} =>
                   /\ ~conn'[p].live
                   /\ \A y \in Symbols : member'[y][e] # p
                   /\ conn[p].sessionId \notin openSessions'
                   /\ health'[e] = health[e]
<1>1. Init => TypeInv /\ IndexInv
  BY IndexInitially, TypeInitially
<1>2. TypeInv /\ IndexInv /\ [Next]_vars => (TypeInv /\ IndexInv)'
  BY TypeStep, IndexStep
<1>3. TypeInv /\ IndexInv /\ [Next]_vars => [Clean]_vars
  <2> SUFFICES ASSUME TypeInv, IndexInv, [Next]_vars, NEW e \in Engines,
                      byEngineId[e] # None, byEngineId'[e] \notin {None, byEngineId[e]}
               PROVE  /\ ~conn'[byEngineId[e]].live
                      /\ \A y \in Symbols : member'[y][e] # byEngineId[e]
                      /\ conn[byEngineId[e]].sessionId \notin openSessions'
                      /\ health'[e] = health[e]
    OBVIOUS
  <2>1. PICK h \in Handlers : /\ Granted(h)
                              /\ call[h].socket \in Sockets
                              /\ conn[call[h].socket].live
                              /\ conn[call[h].socket].engineId = e
                              /\ byEngineId'[e] = call[h].socket
    BY IndexMoves
  <2>2. conn'[byEngineId[e]] = Absent
    BY <2>1, GrantedEffect DEF IndexInv
  <2>3. ~conn'[byEngineId[e]].live
    BY <2>2 DEF Absent
  <2>4. /\ health' = health
        /\ conn[byEngineId[e]].sessionId \notin openSessions'
        /\ \A y \in Symbols : member'[y][e] # byEngineId[e]
    BY <2>1, GrantedRetires
  <2> QED BY <2>3, <2>4
<1>4. Spec => [][Clean]_vars
  BY <1>1, <1>2, <1>3, PTL DEF Spec
<1> QED BY <1>4 DEF ReplacementIsClean

(* An engine whose current connection leaves with nobody taking over is     *)
(* offline from that very step (handleDisconnect and retireSocket ask       *)
(* isCurrent before they remove the connection).                            *)
THEOREM LossTakesOffline == Spec => LossMarksOffline
<1> DEFINE Marked == \A e \in Engines :
             byEngineId[e] # None /\ byEngineId'[e] = None => health'[e] # "up"
<1>1. Init => TypeInv /\ IndexInv
  BY IndexInitially, TypeInitially
<1>2. TypeInv /\ IndexInv /\ [Next]_vars => (TypeInv /\ IndexInv)'
  BY TypeStep, IndexStep
<1>3. TypeInv /\ IndexInv /\ [Next]_vars => [Marked]_vars
  <2> SUFFICES ASSUME TypeInv, IndexInv, [Next]_vars, NEW e \in Engines,
                      byEngineId[e] # None, byEngineId'[e] = None
               PROVE  health'[e] # "up"
    OBVIOUS
  <2>1. PICK S \in SUBSET Sockets : Retire(conn, byEngineId, S) /\ byEngineId[e] \in S
    BY IndexMoves, NoneAssumption
  <2>2. conn[byEngineId[e]].engineId = e
    BY DEF IndexInv, IndexConsistent
  <2>3. IsCurrent(byEngineId, conn, byEngineId[e])
    BY <2>2, NoneAssumption DEF IsCurrent
  <2>4. e \in SpokenFor(conn, byEngineId, S)
    BY <2>1, <2>2, <2>3 DEF SpokenFor
  <2> QED BY <2>1, <2>4 DEF Retire, MarkOffline
<1>4. Spec => [][Marked]_vars
  BY <1>1, <1>2, <1>3, PTL DEF Spec
<1> QED BY <1>4 DEF LossMarksOffline

\* The ways in which a step can touch the table of connections or the rooms.
LEMMA TableSteps ==
    ASSUME Next
    PROVE  \/ UNCHANGED <<conn, member>>
           \/ \E s \in Sockets : Connect(s)
           \/ \E s \in Sockets, e \in Engines : HelloAs(s, e)
           \/ \E S \in SUBSET Sockets : Retire(conn, byEngineId, S)
           \/ \E h \in Handlers : Granted(h)
           \/ \E h \in Handlers, id \in Sessions : SessionOpened(h, id)
           \/ \E s \in Sockets, Y \in SUBSET Symbols :
                 Subscribe(s, Y) \/ Unsubscribe(s, Y)
           \/ \E D \in SUBSET Memberships(member) : EvictExpired(D)
<1>1. ASSUME NEW s \in Sockets, Disconnect(s)
      PROVE  \E S \in SUBSET Sockets : Retire(conn, byEngineId, S)
  BY <1>1 DEF Disconnect
<1>2. ASSUME NEW s \in Sockets, NEW e \in Engines,
             \/ Hello(s, e)
             \/ \E h \in Handlers : HelloWithCredential(s, e, h)
      PROVE  HelloAs(s, e)
  BY <1>2 DEF Hello, HelloWithCredential
<1>3. ASSUME NEW e \in Engines, DeviceReleased(e)
      PROVE  \E S \in SUBSET Sockets : Retire(conn, byEngineId, S)
  BY <1>3 DEF DeviceReleased, CurrentSocket
<1>4. ASSUME NEW S \in SUBSET Sockets, SweepStale(S)
      PROVE  Retire(conn, byEngineId, S)
  BY <1>4 DEF SweepStale
<1>5. ASSUME NEW s \in Sockets,
             \/ Heartbeat(s)
             \/ \E e \in Engines : ManagerAgentSnapshot(s, e)
             \/ \E h \in Handlers : ActivationRequest(s, h)
      PROVE  UNCHANGED <<conn, member>>
  BY <1>5 DEF Heartbeat, ManagerAgentSnapshot, ActivationRequest
<1>6. ASSUME NEW h \in Handlers,
             Refused(h) \/ SessionNotOpened(h) \/ CredentialIssued(h)
      PROVE  UNCHANGED <<conn, member>>
  BY <1>6 DEF Refused, SessionNotOpened, CredentialIssued
<1>7. ASSUME NEW E \in SUBSET Engines, SweepRegistry(E)
      PROVE  UNCHANGED <<conn, member>>
  BY <1>7 DEF SweepRegistry
<1> QED BY NextCases, <1>1, <1>2, <1>3, <1>4, <1>5, <1>6, <1>7

\* Retiring, from a table that differs from conn in the licenses at most,
\* closes the session of every connection that loses one.
LEMMA RetireCloses ==
    ASSUME NEW c, NEW ix, NEW S \in SUBSET Sockets, Retire(c, ix, S),
           \A t \in Sockets : c[t].sessionId = conn[t].sessionId,
           NEW s \in Sockets, conn[s].sessionId # conn'[s].sessionId
    PROVE  conn[s].sessionId \notin openSessions'
<1>1. conn'[s] = IF s \in S THEN Absent ELSE c[s]
  BY DEF Retire, Remove
<1>2. s \in S
  BY <1>1
<1>3. conn[s].sessionId \in SessionsOf(c, S)
  BY <1>2 DEF SessionsOf
<1> QED BY <1>3 DEF Retire

(* A session that a connection lets go of is closed in that very step,      *)
(* unless the connection stays and took a new one (handleDisconnect,        *)
(* retireSocket and the sweep all close what they remove).                  *)
THEOREM SessionsAreClosed == Spec => SessionsClosed
<1> DEFINE Kept(s) == conn[s].sessionId = conn'[s].sessionId
           Closed(s) == conn[s].sessionId \notin openSessions'
           Renewed(s) == conn'[s].live /\ conn'[s].sessionId # None
           Closing == \A s \in Sockets :
             LET id == conn[s].sessionId
             IN  id \notin {None, conn'[s].sessionId} /\ id \in openSessions' =>
                   /\ conn'[s].live
                   /\ conn'[s].sessionId # None
<1>1. Init => TypeInv
  BY TypeInitially
<1>2. TypeInv /\ [Next]_vars => TypeInv'
  BY TypeStep
<1>3. TypeInv /\ [Next]_vars => [Closing]_vars
  <2> SUFFICES ASSUME TypeInv, Next, NEW s \in Sockets, conn[s].sessionId # None
               PROVE  Kept(s) \/ Closed(s) \/ Renewed(s)
    OBVIOUS
  <2>0. conn \in [Sockets -> Connection]
    BY DEF TypeInv, TypeOK, RegistryTypeOK
  <2>1. ASSUME NEW t \in Sockets, Connect(t) PROVE Kept(s)
    <3>1. conn[t] = Absent
      BY <2>1 DEF Connect, TypeInv, CallsIdentified
    <3>2. s # t
      BY <3>1 DEF Absent
    <3> QED BY <2>0, <2>1, <3>2 DEF Connect, Add
  <2>2. ASSUME NEW t \in Sockets, NEW e \in Engines, HelloAs(t, e) PROVE Kept(s)
    BY <2>0, <2>2 DEF HelloAs, Identify, Connection
  <2>3. ASSUME NEW S \in SUBSET Sockets, Retire(conn, byEngineId, S)
        PROVE  Kept(s) \/ Closed(s)
    BY <2>3, RetireCloses
  <2>4. ASSUME NEW h \in Handlers, Granted(h) PROVE Kept(s) \/ Closed(s)
    <3> DEFINE t == call[h].socket
               c == Authorize(conn, t, call[h].engineId)
               ix == Index(byEngineId, conn, t)
               S == Replaced(byEngineId, conn, t)
    <3>1. Retire(c, ix, S)
      BY <2>4 DEF Granted
    <3>2. S \in SUBSET Sockets
      BY DEF Replaced
    <3>3. \A u \in Sockets : c[u].sessionId = conn[u].sessionId
      BY <2>0 DEF Authorize, Connection
    <3> HIDE DEF c, ix, S
    <3> QED BY <3>1, <3>2, <3>3, RetireCloses
  <2>5. ASSUME NEW h \in Handlers, NEW id \in Sessions, SessionOpened(h, id)
        PROVE  Kept(s) \/ Renewed(s)
    BY <2>0, <2>5, NoneAssumption DEF SessionOpened, SetSessionId, Connection
  <2>6. ASSUME \/ UNCHANGED <<conn, member>>
               \/ \E t \in Sockets, Y \in SUBSET Symbols :
                     Subscribe(t, Y) \/ Unsubscribe(t, Y)
               \/ \E D \in SUBSET Memberships(member) : EvictExpired(D)
        PROVE  Kept(s)
    BY <2>6 DEF Subscribe, Unsubscribe, EvictExpired
  <2> QED BY TableSteps, <2>1, <2>2, <2>3, <2>4, <2>5, <2>6
<1>4. Spec => [][Closing]_vars
  BY <1>1, <1>2, <1>3, PTL DEF Spec
<1> QED BY <1>4 DEF SessionsClosed

\* Retiring takes a membership from no connection but those that leave.
LEMMA RetireKeepsOthers ==
    ASSUME NEW c, NEW ix, NEW S \in SUBSET Sockets, Retire(c, ix, S),
           NEW y \in Symbols, NEW e \in Engines, member'[y][e] # member[y][e]
    PROVE  ~conn'[member[y][e]].live
<1>1. member'[y][e] = IF \E s \in S : c[s].engineId = e /\ member[y][e] = s
                        THEN None ELSE member[y][e]
  BY DEF Retire, LeaveAll
<1>2. member[y][e] \in S
  BY <1>1
<1>3. conn'[member[y][e]] = Absent
  BY <1>2 DEF Retire, Remove
<1> QED BY <1>3 DEF Absent

(* The room membership of an engine's current connection ends only by its   *)
(* own unsubscribe, by expiry, by the end of that connection, or because    *)
(* another connection subscribes under the same id (leave() compares the    *)
(* socket, and everyone who calls it passes the one that leaves).           *)
THEOREM MembershipsAreKept == Spec => MembershipKept
<1> DEFINE Ended(s) == ~conn'[s].live
           Left(s) == \E Y \in SUBSET Symbols : Unsubscribe(s, Y)
           Expired == \E D \in SUBSET Memberships(member) : EvictExpired(D)
           TakenOver == \E t \in Sockets, Y \in SUBSET Symbols : Subscribe(t, Y)
           Keeping == \A y \in Symbols, e \in Engines :
             LET s == member[y][e]
             IN  s # None /\ s = byEngineId[e] /\ member'[y][e] # s =>
                   \/ ~conn'[s].live
                   \/ \E Y \in SUBSET Symbols : Unsubscribe(s, Y)
                   \/ \E D \in SUBSET Memberships(member) : EvictExpired(D)
                   \/ \E t \in Sockets, Y \in SUBSET Symbols : Subscribe(t, Y)
<1>1. Init => TypeInv
  BY TypeInitially
<1>2. TypeInv /\ [Next]_vars => TypeInv'
  BY TypeStep
<1>3. TypeInv /\ [Next]_vars => [Keeping]_vars
  <2> SUFFICES ASSUME TypeInv, Next, NEW y \in Symbols, NEW e \in Engines,
                      member'[y][e] # member[y][e]
               PROVE  \/ Ended(member[y][e])
                      \/ Left(member[y][e])
                      \/ Expired
                      \/ TakenOver
    OBVIOUS
  <2>1. ASSUME \/ \E s \in Sockets : Connect(s)
               \/ \E s \in Sockets, f \in Engines : HelloAs(s, f)
               \/ \E h \in Handlers, id \in Sessions : SessionOpened(h, id)
        PROVE  UNCHANGED member
    BY <2>1 DEF Connect, HelloAs, SessionOpened
  <2>2. ASSUME NEW S \in SUBSET Sockets, Retire(conn, byEngineId, S)
        PROVE  Ended(member[y][e])
    BY <2>2, RetireKeepsOthers
  <2>3. ASSUME NEW h \in Handlers, Granted(h) PROVE Ended(member[y][e])
    <3> DEFINE s == call[h].socket
               c == Authorize(conn, s, call[h].engineId)
               ix == Index(byEngineId, conn, s)
               S == Replaced(byEngineId, conn, s)
    <3>1. Retire(c, ix, S)
      BY <2>3 DEF Granted
    <3>2. S \in SUBSET Sockets
      BY DEF Replaced
    <3> HIDE DEF c, ix, S
    <3> QED BY <3>1, <3>2, RetireKeepsOthers
  <2>4. ASSUME NEW s \in Sockets, NEW Y \in SUBSET Symbols, Unsubscribe(s, Y)
        PROVE  Left(member[y][e])
    <3>1. member'[y] = IF y \in Y /\ member[y][conn[s].engineId] = s
                         THEN [member[y] EXCEPT ![conn[s].engineId] = None]
                         ELSE member[y]
      BY <2>4 DEF Unsubscribe, Leave
    <3>2. member[y] \in [Engines -> Sockets \cup {None}]
      BY DEF TypeInv, TypeOK, RoomsTypeOK
    <3>3. conn[s].engineId = e /\ member[y][e] = s
      BY <3>1, <3>2
    <3> QED BY <2>4, <3>3
  <2> QED BY TableSteps, <2>1, <2>2, <2>3, <2>4
<1>4. Spec => [][Keeping]_vars
  BY <1>1, <1>2, <1>3, PTL DEF Spec
<1> QED BY <1>4 DEF MembershipKept

\* Health falls only in a sweep of the registry or when sockets leave.
LEMMA HealthSteps ==
    ASSUME TypeInv, [Next]_vars
    PROVE  \/ \E E \in SUBSET Engines : SweepRegistry(E)
           \/ \E S \in SUBSET Sockets : Retire(conn, byEngineId, S)
           \/ \E h \in Handlers : Granted(h)
           \/ \A e \in Engines : health[e] = "up" => health'[e] = "up"
<1>1. CASE UNCHANGED health
  BY <1>1
<1>2. ASSUME NEW s \in Sockets,
             Connect(s) \/ \E Y \in SUBSET Symbols : Subscribe(s, Y) \/ Unsubscribe(s, Y)
      PROVE  UNCHANGED health
  BY <1>2 DEF Connect, Subscribe, Unsubscribe
<1>3. ASSUME NEW s \in Sockets,
             \/ \E e \in Engines :
                   Hello(s, e) \/ \E h \in Handlers : HelloWithCredential(s, e, h)
             \/ \E h \in Handlers : ActivationRequest(s, h)
      PROVE  UNCHANGED health
  BY <1>3 DEF Hello, HelloWithCredential, HelloAs, ActivationRequest
<1>4. ASSUME NEW h \in Handlers,
             \/ Refused(h) \/ SessionNotOpened(h)
             \/ \E id \in Sessions : SessionOpened(h, id)
      PROVE  UNCHANGED health
  BY <1>4 DEF Refused, SessionNotOpened, SessionOpened
<1>5. ASSUME NEW D \in SUBSET Memberships(member), EvictExpired(D)
      PROVE  UNCHANGED health
  BY <1>5 DEF EvictExpired
<1>6. ASSUME NEW s \in Sockets,
             Heartbeat(s) \/ \E e \in Engines : ManagerAgentSnapshot(s, e)
      PROVE  \A e \in Engines : health[e] = "up" => health'[e] = "up"
  BY <1>6 DEF Heartbeat, ManagerAgentSnapshot, Beat, Register, TypeInv, TypeOK
<1>7. ASSUME NEW h \in Handlers, CredentialIssued(h)
      PROVE  \A e \in Engines : health[e] = "up" => health'[e] = "up"
  BY <1>7 DEF CredentialIssued, Register, TypeInv, TypeOK
<1>8. ASSUME NEW s \in Sockets, Disconnect(s)
      PROVE  \E S \in SUBSET Sockets : Retire(conn, byEngineId, S)
  BY <1>8 DEF Disconnect
<1>9. ASSUME NEW S \in SUBSET Sockets, SweepStale(S)
      PROVE  Retire(conn, byEngineId, S)
  BY <1>9 DEF SweepStale
<1>10. ASSUME NEW e \in Engines, DeviceReleased(e)
       PROVE  \E S \in SUBSET Sockets : Retire(conn, byEngineId, S)
  <2>1. CurrentSocket(byEngineId, conn, e) \in SUBSET Sockets
    BY DEF CurrentSocket
  <2> QED BY <1>10, <2>1 DEF DeviceReleased
<1>11. CASE UNCHANGED vars
  BY <1>11 DEF vars
<1>12. CASE Next
  BY <1>12, NextCases, <1>1, <1>2, <1>3, <1>4, <1>5, <1>6, <1>7, <1>8, <1>9, <1>10
<1> QED BY <1>11, <1>12

(* Apart from the registry's own sweep only the loss of its current         *)
(* connection takes an engine offline: a second connection that comes and   *)
(* goes without ever being authorized leaves the engine's health alone.     *)
THEOREM OnlyLossTakesOffline == Spec => OnlyLossMarksOffline
<1> DEFINE Justified ==
             \/ \E E \in SUBSET Engines : SweepRegistry(E)
             \/ \A e \in Engines : health[e] = "up" /\ health'[e] # "up" =>
                   byEngineId[e] # None /\ byEngineId'[e] = None
<1>1. Init => TypeInv /\ IndexInv
  BY IndexInitially, TypeInitially
<1>2. TypeInv /\ IndexInv /\ [Next]_vars => (TypeInv /\ IndexInv)'
  BY TypeStep, IndexStep
<1>3. TypeInv /\ IndexInv /\ [Next]_vars => [Justified]_vars
  <2> SUFFICES ASSUME TypeInv, IndexInv, [Next]_vars PROVE Justified
    OBVIOUS
  <2>1. ASSUME NEW S \in SUBSET Sockets, Retire(conn, byEngineId, S),
               NEW e \in Engines, health[e] = "up", health'[e] # "up"
        PROVE  byEngineId[e] # None /\ byEngineId'[e] = None
    <3>1. e \in SpokenFor(conn, byEngineId, S)
      BY <2>1 DEF Retire, MarkOffline
    <3>2. PICK s \in S : IsCurrent(byEngineId, conn, s) /\ conn[s].engineId = e
      BY <3>1 DEF SpokenFor
    <3>3. byEngineId[e] = s
      BY <3>2 DEF IsCurrent
    <3> QED BY <2>1, <3>3, RetireEffect, NoneAssumption DEF IndexInv
  <2>2. ASSUME NEW h \in Handlers, Granted(h), NEW e \in Engines,
               health[e] = "up", health'[e] # "up"
        PROVE  FALSE
    <3> DEFINE s == call[h].socket
    <3>1. s \in Sockets
      BY <2>2, GrantedType DEF TypeInv
    <3>2. CASE conn[s].live
      BY <2>2, <3>1, <3>2, GrantedRetires
    <3>3. CASE ~conn[s].live
      <4>1. Replaced(byEngineId, conn, s) = {}
        BY <3>3 DEF Replaced
      <4>2. health' = MarkOffline(health, {})
        BY <2>2, <4>1 DEF Granted, Retire, SpokenFor
      <4> QED BY <2>2, <4>2 DEF MarkOffline
    <3> QED BY <3>2, <3>3
  <2> QED BY HealthSteps, <2>1, <2>2
<1>4. Spec => [][Justified]_vars
  BY <1>1, <1>2, <1>3, PTL DEF Spec
<1> QED BY <1>4 DEF OnlyLossMarksOffline

-----------------------------------------------------------------------------
(* Refinement.                                                             *)

\* Sockets that leave: the abstract speakers among them leave.
LEMMA RetireIsLeave ==
    ASSUME TypeInv, TypeInv', IndexInv, NEW S \in SUBSET Sockets,
           Retire(conn, byEngineId, S)
    PROVE  Promise!Next
<1> DEFINE T == S \cap connected
<1>1. /\ \A s \in Sockets : conn'[s] = IF s \in S THEN Absent ELSE conn[s]
      /\ \A e \in Engines :
            byEngineId'[e] = IF byEngineId[e] \in S THEN None ELSE byEngineId[e]
  BY RetireEffect DEF IndexInv
<1>2. \A e \in Engines : byEngineId[e] \in S => byEngineId[e] \in T
  BY NoneAssumption DEF IndexInv, IndexConsistent, connected
<1>3. connected' = connected \ T
  BY <1>1 DEF connected, Absent
<1>4. byEngineId' = [e \in Engines |-> IF byEngineId[e] \in T THEN None ELSE byEngineId[e]]
  BY <1>1, <1>2 DEF TypeInv, TypeOK, RegistryTypeOK
<1>5. T \in SUBSET Sockets /\ T \subseteq connected
  OBVIOUS
<1>6. Promise!Leave(T)
  BY <1>3, <1>4, <1>5 DEF Promise!Leave
<1> QED BY <1>5, <1>6 DEF Promise!Next

\* A grant: its connection takes over, or has gone and nothing happens.
LEMMA GrantedIsTakeOver ==
    ASSUME TypeInv, TypeInv', IndexInv, NEW h \in Handlers, Granted(h)
    PROVE  Promise!Next
<1> DEFINE s == call[h].socket
           g == conn[s].engineId
           p == byEngineId[g]
<1>1. s \in Sockets
  BY GrantedType DEF TypeInv
<1>2. CASE ~conn[s].live
  <2>1. Authorize(conn, s, call[h].engineId) = conn
    BY <1>2 DEF Authorize
  <2>2. Index(byEngineId, conn, s) = byEngineId
    BY <1>2 DEF Index
  <2>3. Replaced(byEngineId, conn, s) = {}
    BY <1>2 DEF Replaced
  <2>4. Retire(conn, byEngineId, {})
    BY <2>1, <2>2, <2>3 DEF Granted
  <2> QED BY <2>4, RetireIsLeave
<1>3. CASE conn[s].live
  <2>1. /\ g \in Engines
        /\ p \in Sockets \cup {None}
        /\ conn'[s] = [conn[s] EXCEPT !.licensedFor = call[h].engineId]
        /\ p \notin {s, None} => conn'[p] = Absent
        /\ \A t \in Sockets \ {s, p} : conn'[t] = conn[t]
        /\ byEngineId'[g] = s
        /\ \A f \in Engines \ {g} : byEngineId'[f] = byEngineId[f]
    BY <1>1, <1>3, GrantedEffect DEF IndexInv
  <2>2. conn'[s].live
    BY <1>1, <1>3, <2>1 DEF TypeInv, TypeOK, RegistryTypeOK, Connection
  <2>3. connected' = connected \ ({p} \ {s})
    <3> SUFFICES ASSUME NEW t \in Sockets
                 PROVE  conn'[t].live <=> conn[t].live /\ (t # p \/ t = s)
      BY DEF connected
    <3>1. CASE t = s
      BY <1>3, <2>2, <3>1
    <3>2. CASE t # s /\ t = p
      BY <2>1, <3>2, NoneAssumption DEF Absent
    <3>3. CASE t # s /\ t # p
      BY <2>1, <3>3
    <3> QED BY <3>1, <3>2, <3>3
  <2>4. byEngineId' = [byEngineId EXCEPT ![g] = s]
    BY <2>1 DEF TypeInv, TypeOK, RegistryTypeOK
  <2>5. \A f \in Engines \ {g} : byEngineId[f] # s
    BY <1>1, NoneAssumption DEF IndexInv, IndexConsistent
  <2>6. s \in connected
    BY <1>1, <1>3 DEF connected
  <2>7. Promise!TakeOver(s, g)
    BY <2>3, <2>4, <2>5, <2>6 DEF Promise!TakeOver
  <2> QED BY <1>1, <2>1, <2>7 DEF Promise!Next
<1> QED BY <1>2, <1>3

LEMMA PromiseStep ==
    ASSUME TypeInv, TypeInv', IndexInv, [Next]_vars
    PROVE  [Promise!Next]_<<connected, byEngineId>>
<1>1. ASSUME UNCHANGED byEngineId,
             \A t \in Sockets : conn'[t].live <=> conn[t].live
      PROVE  UNCHANGED <<connected, byEngineId>>
  BY <1>1 DEF connected
<1>2. ASSUME UNCHANGED <<conn, byEngineId>>
      PROVE  UNCHANGED <<connected, byEngineId>>
  BY <1>1, <1>2
<1>3. ASSUME NEW s \in Sockets, Connect(s) PROVE Promise!Next
  <2>1. /\ ~conn[s].live
        /\ conn'[s].live
        /\ \A t \in Sockets \ {s} : conn'[t] = conn[t]
        /\ UNCHANGED byEngineId
    BY <1>3 DEF Connect, Add, Absent, TypeInv, TypeOK, RegistryTypeOK
  <2>2. s \notin connected /\ connected' = connected \cup {s}
    BY <2>1 DEF connected
  <2>3. Promise!Connect(s)
    BY <2>1, <2>2 DEF Promise!Connect
  <2> QED BY <2>3 DEF Promise!Next
<1>4. ASSUME NEW s \in Sockets, NEW e \in Engines, HelloAs(s, e)
      PROVE  UNCHANGED <<connected, byEngineId>>
  <2>1. \A t \in Sockets : conn'[t].live <=> conn[t].live
    BY <1>4 DEF HelloAs, Identify, TypeInv, TypeOK, RegistryTypeOK, Connection
  <2> QED BY <1>1, <1>4, <2>1 DEF HelloAs
<1>5. ASSUME NEW h \in Handlers, NEW id \in Sessions, SessionOpened(h, id)
      PROVE  UNCHANGED <<connected, byEngineId>>
  <2>1. \A t \in Sockets : conn'[t].live <=> conn[t].live
    BY <1>5 DEF SessionOpened, SetSessionId, TypeInv, TypeOK, RegistryTypeOK, Connection
  <2> QED BY <1>1, <1>5, <2>1 DEF SessionOpened
<1>6. ASSUME NEW s \in Sockets, NEW Y \in SUBSET Symbols,
             Subscribe(s, Y) \/ Unsubscribe(s, Y)
      PROVE  UNCHANGED <<conn, byEngineId>>
  BY <1>6 DEF Subscribe, Unsubscribe
<1>7. ASSUME NEW D \in SUBSET Memberships(member), EvictExpired(D)
      PROVE  UNCHANGED <<conn, byEngineId>>
  BY <1>7 DEF EvictExpired
<1> QED BY RegistrySteps, <1>2, <1>3, <1>4, <1>5, <1>6, <1>7, RetireIsLeave,
           GrantedIsTakeOver

(* EngineGateway implements EngineSpeaker: whatever handlers are suspended  *)
(* where, at most one connection speaks for an engine, for one engine only, *)
(* until it leaves or is sent away by its successor.                        *)
THEOREM GatewayKeepsPromise == Spec => SpeaksForOne
<1>1. Init => TypeInv /\ IndexInv
  BY IndexInitially, TypeInitially
<1>2. TypeInv /\ IndexInv /\ [Next]_vars => (TypeInv /\ IndexInv)'
  BY TypeStep, IndexStep
<1>3. Init => Promise!Init
  BY DEF Init, RegistryInit, connected, Absent, Promise!Init
<1>4. TypeInv /\ TypeInv' /\ IndexInv /\ [Next]_vars
        => [Promise!Next]_<<connected, byEngineId>>
  BY PromiseStep
<1>5. Spec => Promise!Spec
  BY <1>1, <1>2, <1>3, <1>4, PTL DEF Spec, Promise!Spec
<1> QED BY <1>5 DEF SpeaksForOne

-----------------------------------------------------------------------------
(* Rooms as the Signal Engine subscriber sees them.                        *)

occupants == [y \in Symbols |-> {e \in Engines : member[y][e] # None}]

RoomsHeard == INSTANCE SymbolRooms WITH room <- occupants

\* Whatever takes memberships away and changes no other, some of them end.
LEMMA MembershipsEnd ==
    ASSUME \A y \in Symbols, e \in Engines : member'[y][e] \in {member[y][e], None}
    PROVE  RoomsHeard!Next
<1> DEFINE D == {p \in Symbols \X Engines :
                   member[p[1]][p[2]] # None /\ member'[p[1]][p[2]] = None}
<1>1. \A p \in D : p[2] \in occupants[p[1]]
  BY DEF occupants
<1>2. \A y \in Symbols, e \in Engines :
        member'[y][e] # None <=> member[y][e] # None /\ <<y, e>> \notin D
  OBVIOUS
<1>3. occupants' = [y \in Symbols |-> {e \in occupants[y] : <<y, e>> \notin D}]
  BY <1>2 DEF occupants
<1>4. D \in SUBSET (Symbols \X Engines)
  OBVIOUS
<1> QED BY <1>1, <1>3, <1>4 DEF RoomsHeard!End, RoomsHeard!Next

\* room.subscribe: one engine joins, in whosever place.
LEMMA SubscribeIsJoin ==
    ASSUME TypeInv, NEW s \in Sockets, NEW Y \in SUBSET Symbols, Subscribe(s, Y)
    PROVE  RoomsHeard!Next
<1> DEFINE e == conn[s].engineId
<1>1. e \in Engines
  BY DEF Subscribe, TypeInv, TypeOK, RegistryTypeOK, Connection
<1>2. \A y \in Symbols, f \in Engines :
        member'[y][f] = IF y \in Y /\ f = e THEN s ELSE member[y][f]
  BY DEF Subscribe, Join, TypeInv, TypeOK, RoomsTypeOK
<1>3. \A y \in Symbols, f \in Engines :
        member'[y][f] # None <=> member[y][f] # None \/ (y \in Y /\ f = e)
  BY <1>2, NoneAssumption
<1>4. occupants' = [y \in Symbols |-> IF y \in Y THEN occupants[y] \cup {e} ELSE occupants[y]]
  BY <1>1, <1>3 DEF occupants
<1> QED BY <1>1, <1>4 DEF RoomsHeard!Join, RoomsHeard!Next

LEMMA RoomsStep ==
    ASSUME TypeInv, [Next]_vars
    PROVE  [RoomsHeard!Next]_occupants
<1>1. ASSUME UNCHANGED member PROVE UNCHANGED occupants
  BY <1>1 DEF occupants
<1>2. ASSUME NEW c, NEW ix, NEW S \in SUBSET Sockets, Retire(c, ix, S)
      PROVE  RoomsHeard!Next
  <2>1. \A y \in Symbols, e \in Engines : member'[y][e] \in {member[y][e], None}
    BY <1>2 DEF Retire, LeaveAll
  <2> QED BY <2>1, MembershipsEnd
<1>3. ASSUME NEW h \in Handlers, Granted(h) PROVE RoomsHeard!Next
  <2> DEFINE S == Replaced(byEngineId, conn, call[h].socket)
  <2>1. S \in SUBSET Sockets
    BY <1>3, GrantedType DEF Replaced, TypeInv, TypeOK, RegistryTypeOK
  <2> QED BY <1>2, <1>3, <2>1 DEF Granted
<1>4. ASSUME NEW s \in Sockets, NEW Y \in SUBSET Symbols, Unsubscribe(s, Y)
      PROVE  RoomsHeard!Next
  <2>1. \A y \in Symbols, e \in Engines : member'[y][e] \in {member[y][e], None}
    BY <1>4 DEF Unsubscribe, Leave, TypeInv, TypeOK, RoomsTypeOK
  <2> QED BY <2>1, MembershipsEnd
<1>5. ASSUME NEW D \in SUBSET Memberships(member), EvictExpired(D)
      PROVE  RoomsHeard!Next
  <2>1. \A y \in Symbols, e \in Engines : member'[y][e] \in {member[y][e], None}
    BY <1>5 DEF EvictExpired, Evict
  <2> QED BY <2>1, MembershipsEnd
<1>6. ASSUME \/ \E s \in Sockets : Connect(s)
             \/ \E s \in Sockets, e \in Engines : HelloAs(s, e)
             \/ \E h \in Handlers, id \in Sessions : SessionOpened(h, id)
             \/ UNCHANGED vars
      PROVE  UNCHANGED member
  BY <1>6 DEF Connect, HelloAs, SessionOpened, vars
<1> QED BY TableSteps, SubscribeIsJoin, <1>1, <1>2, <1>3, <1>4, <1>5, <1>6

(* What the gateway does to the rooms is what SignalFeed lets happen to     *)
(* them (FeedHearsRooms in SignalFeedProofs): every step of every handler   *)
(* and timer has one engine join rooms or some memberships end, a takeover, *)
(* which retires a connection and licenses another, included.               *)
THEOREM GatewayMovesRooms == Spec => RoomsHeard!Spec
<1>1. Init => RoomsHeard!Init
  BY DEF Init, RoomsInit, occupants, RoomsHeard!Init
<1>2. TypeInv /\ [Next]_vars => [RoomsHeard!Next]_occupants
  BY RoomsStep
<1> QED BY <1>1, <1>2, TypeInvariance, PTL DEF Spec, RoomsHeard!Spec
=============================================================================
