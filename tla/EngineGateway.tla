--------------------------- MODULE EngineGateway ---------------------------
(***************************************************************************)
(* EngineGateway: the handlers of the /engine WebSocket, over the          *)
(* connection registry, the rooms and the health the engine registry keeps *)
(* of each engine.                                                         *)
(*                                                                         *)
(* A handler runs alone up to its next await.  hello with a credential and *)
(* activation.request await the license store, the session store and the   *)
(* credential store in turn; anything may run in between, on this socket   *)
(* or another.  call[h] is such a handler between two awaits, with what it *)
(* captured before the first: the socket and the engine id.                *)
(*                                                                         *)
(* Time is left out: where the code compares Date.now() with a timestamp   *)
(* the model takes either answer, so a sweep may find any connection,      *)
(* membership or registry entry overdue.  Answers of the license store are *)
(* free too, as are the rejections that change no state (schema, account   *)
(* metadata, rate limits).                                                 *)
(***************************************************************************)
EXTENDS RoomRegistry

CONSTANTS
    Managers,   \* engine ids with the AQM- prefix
    Roamers,    \* sockets whose engine says hello under more than one id
    Handlers    \* bound: handlers suspended in an await at the same time

ASSUME GatewayAssumption == Managers \subseteq Engines /\ Roamers \subseteq Sockets

VARIABLES
    call,          \* call[h]: a suspended hello or activation.request
    health,        \* EngineRegistryService: "up" is online, stale or error
    openSessions   \* sessions opened in the store and not told to close

vars == <<conn, byEngineId, member, call, health, openSessions>>

Idle == [stage |-> "idle", socket |-> None, engineId |-> None]

Stage == {"idle", "granting", "opening", "crediting"}

Calls == [stage : Stage, socket : Sockets \cup {None}, engineId : Engines \cup {None}]

TypeOK ==
    /\ RegistryTypeOK
    /\ RoomsTypeOK
    /\ call \in [Handlers -> Calls]
    /\ health \in [Engines -> {"unknown", "up", "offline"}]
    /\ openSessions \subseteq Sessions

Init ==
    /\ RegistryInit
    /\ RoomsInit
    /\ call = [h \in Handlers |-> Idle]
    /\ health = [e \in Engines |-> "unknown"]
    /\ openSessions = {}

-----------------------------------------------------------------------------
(* The engine registry, on a value g of health.                            *)

Register(g, e) == [g EXCEPT ![e] = "up"]

\* heartbeat of an engine the registry has no entry of does nothing.
Beat(g, e) == IF g[e] = "unknown" THEN g ELSE [g EXCEPT ![e] = "up"]

\* Mutant: an entry is left with no state at all instead of "offline".
MarkOfflineBlank(g, E) ==
    [e \in Engines |-> IF e \in E /\ g[e] # "unknown" THEN None ELSE g[e]]

MarkOffline(g, E) ==
    [e \in Engines |-> IF e \in E /\ g[e] # "unknown" THEN "offline" ELSE g[e]]

-----------------------------------------------------------------------------
(* Leaving: handleDisconnect and retireSocket do the same to the state.    *)

\* Mutant: whether the socket is current is asked after its removal.
SpokenForAfterRemove(c, ix, S) == {}

\* Mutant: every leaving connection takes its engine offline.
SpokenForByAny(c, ix, S) == {c[s].engineId : s \in S}

\* The engine ids for which a socket of S is the current connection.
SpokenFor(c, ix, S) == {c[s].engineId : s \in {t \in S : IsCurrent(ix, c, t)}}

SessionsOf(c, S) == {c[s].sessionId : s \in S}

\* Mutant: the connection is told to leave but stays in the table.
RetireKeepsConnection(c, ix, S) ==
    /\ member' = LeaveAll(member, c, S)
    /\ health' = MarkOffline(health, SpokenFor(c, ix, S))
    /\ openSessions' = openSessions \ SessionsOf(c, S)
    /\ conn' = c
    /\ byEngineId' = ix

\* Mutant: the rooms are left only by the current connection.
RetireLeavesIfCurrent(c, ix, S) ==
    /\ member' = LeaveAll(member, c, {s \in S : IsCurrent(ix, c, s)})
    /\ health' = MarkOffline(health, SpokenFor(c, ix, S))
    /\ openSessions' = openSessions \ SessionsOf(c, S)
    /\ conn' = Remove(c, S)
    /\ byEngineId' = Unindex(ix, c, S)

\* Mutant: the sessions stay open.
RetireKeepsSessions(c, ix, S) ==
    /\ member' = LeaveAll(member, c, S)
    /\ health' = MarkOffline(health, SpokenFor(c, ix, S))
    /\ openSessions' = openSessions
    /\ conn' = Remove(c, S)
    /\ byEngineId' = Unindex(ix, c, S)

\* From connections c and index ix, every socket of S leaves.
Retire(c, ix, S) ==
    /\ member' = LeaveAll(member, c, S)
    /\ health' = MarkOffline(health, SpokenFor(c, ix, S))
    /\ openSessions' = openSessions \ SessionsOf(c, S)
    /\ conn' = Remove(c, S)
    /\ byEngineId' = Unindex(ix, c, S)

-----------------------------------------------------------------------------
(* Sockets.                                                                *)

Unreferenced(s) ==
    /\ \A h \in Handlers : call[h].socket # s
    /\ \A y \in Symbols, e \in Engines : member[y][e] # s

Connect(s) ==
    /\ ~conn[s].live
    /\ Unreferenced(s)
    /\ conn' = Add(conn, s)
    /\ UNCHANGED <<byEngineId, member, call, health, openSessions>>

\* handleDisconnect asks nothing of the table: the 'close' of a connection that
\* was replaced or retired before, or never added, comes to it as well.
Disconnect(s) ==
    /\ Retire(conn, byEngineId, {s})
    /\ UNCHANGED call

\* Connections silent for too long, or whose license has run out.
SweepStale(S) ==
    /\ S # {}
    /\ \A s \in S : conn[s].live
    /\ Retire(conn, byEngineId, S)
    /\ UNCHANGED call

\* The license store has released the device of engine e.
DeviceReleased(e) ==
    /\ Retire(conn, byEngineId, CurrentSocket(byEngineId, conn, e))
    /\ UNCHANGED call

-----------------------------------------------------------------------------
(* engine.hello and activation.request.                                    *)

\* What the code admits, and what this engine ever asks for.
HelloAs(s, e) ==
    /\ MayIdentify(conn, s, e)
    /\ s \in Roamers \/ conn[s].engineId \in {None, e}
    /\ conn' = Identify(conn, s, e)
    /\ UNCHANGED <<byEngineId, member, health, openSessions>>

Hello(s, e) ==
    /\ HelloAs(s, e)
    /\ UNCHANGED call

Suspend(h, s, e) ==
    /\ call[h] = Idle
    /\ call' = [call EXCEPT ![h] =
                  [stage |-> "granting", socket |-> s, engineId |-> e]]

HelloWithCredential(s, e, h) ==
    /\ HelloAs(s, e)
    /\ Suspend(h, s, e)

ActivationRequest(s, h) ==
    /\ conn[s].engineId # None
    /\ Suspend(h, s, conn[s].engineId)
    /\ UNCHANGED <<conn, byEngineId, member, health, openSessions>>

\* The license store refuses: the handler ends.
Refused(h) ==
    /\ call[h].stage = "granting"
    /\ call' = [call EXCEPT ![h] = Idle]
    /\ UNCHANGED <<conn, byEngineId, member, health, openSessions>>

\* It grants: authorize, retire whoever was replaced, and await a session.
Granted(h) ==
    LET s  == call[h].socket
        c  == Authorize(conn, s, call[h].engineId)
        ix == Index(byEngineId, conn, s)
    IN  /\ call[h].stage = "granting"
        /\ Retire(c, ix, Replaced(byEngineId, conn, s))
        /\ call' = [call EXCEPT ![h].stage = "opening"]

\* The session store answers with id, which the connection takes if it is there.
SessionOpened(h, id) ==
    /\ call[h].stage = "opening"
    /\ id \notin openSessions \cup SessionsOf(conn, Sockets)
    /\ openSessions' = openSessions \cup {id}
    /\ conn' = SetSessionId(conn, call[h].socket, id)
    /\ call' = [call EXCEPT ![h].stage = "crediting"]
    /\ UNCHANGED <<byEngineId, member, health>>

\* The session store fails, which is not an error for the handler.
SessionNotOpened(h) ==
    /\ call[h].stage = "opening"
    /\ call' = [call EXCEPT ![h].stage = "crediting"]
    /\ UNCHANGED <<conn, byEngineId, member, health, openSessions>>

\* A credential is issued, or not; the engine is registered and answered.
CredentialIssued(h) ==
    /\ call[h].stage = "crediting"
    /\ health' = Register(health, call[h].engineId)
    /\ call' = [call EXCEPT ![h] = Idle]
    /\ UNCHANGED <<conn, byEngineId, member, openSessions>>

-----------------------------------------------------------------------------
(* The other messages of an engine.                                        *)

\* Nothing here asks for a license; one that has run out is not renewed.
Heartbeat(s) ==
    /\ conn[s].engineId # None
    /\ health' = Beat(health, conn[s].engineId)
    /\ UNCHANGED <<conn, byEngineId, member, call, openSessions>>

\* The check of authorizationErrors is commented out in the code.
Subscribe(s, Y) ==
    /\ conn[s].engineId # None
    /\ member' = Join(member, conn[s].engineId, s, Y)
    /\ UNCHANGED <<conn, byEngineId, call, health, openSessions>>

Unsubscribe(s, Y) ==
    /\ conn[s].engineId # None
    /\ member' = Leave(member, conn[s].engineId, Y, s)
    /\ UNCHANGED <<conn, byEngineId, call, health, openSessions>>

\* A licensed manager reports an agent it runs.
ManagerAgentSnapshot(s, e) ==
    /\ conn[s].engineId \in Managers
    /\ conn[s].licensedFor # None
    /\ health' = Register(health, e)
    /\ UNCHANGED <<conn, byEngineId, member, call, openSessions>>

-----------------------------------------------------------------------------
(* Timers.                                                                 *)

\* RoomRegistryService drops the memberships that have run out.
EvictExpired(D) ==
    /\ D # {}
    /\ member' = Evict(member, D)
    /\ UNCHANGED <<conn, byEngineId, call, health, openSessions>>

\* EngineRegistryService finds that nothing was heard of the engines in E.
SweepRegistry(E) ==
    /\ E # {}
    /\ \A e \in E : health[e] = "up"
    /\ health' = MarkOffline(health, E)
    /\ UNCHANGED <<conn, byEngineId, member, call, openSessions>>

-----------------------------------------------------------------------------
Next ==
    \/ \E s \in Sockets : Connect(s) \/ Disconnect(s) \/ Heartbeat(s)
    \/ \E s \in Sockets, e \in Engines :
          \/ Hello(s, e)
          \/ ManagerAgentSnapshot(s, e)
          \/ \E h \in Handlers : HelloWithCredential(s, e, h)
    \/ \E s \in Sockets, h \in Handlers : ActivationRequest(s, h)
    \/ \E s \in Sockets, Y \in SUBSET Symbols : Subscribe(s, Y) \/ Unsubscribe(s, Y)
    \/ \E h \in Handlers :
          \/ Refused(h) \/ Granted(h) \/ SessionNotOpened(h) \/ CredentialIssued(h)
          \/ \E id \in Sessions : SessionOpened(h, id)
    \/ \E S \in SUBSET Sockets : SweepStale(S)
    \/ \E e \in Engines : DeviceReleased(e)
    \/ \E D \in SUBSET Memberships(member) : EvictExpired(D)
    \/ \E E \in SUBSET Engines : SweepRegistry(E)

Spec == Init /\ [][Next]_vars

-----------------------------------------------------------------------------
(* Safety.                                                                 *)

(* A room never holds a socket that has left, nor one that now goes by      *)
(* another engine id, for engines that keep to one id per connection: what  *)
(* handleDisconnect and retireSocket take out of the rooms is all there is. *)
MembersAreConnected ==
    \A y \in Symbols, e \in Engines :
        LET s == member[y][e]
        IN  s \notin Roamers \cup {None} => conn[s].live /\ conn[s].engineId = e

(* A session is attached to one connection at most, and what is attached    *)
(* has not been closed: a heartbeat or a lifecycle record never goes to a   *)
(* session that ended or that belongs to another connection.                *)
SessionsExclusive ==
    /\ SessionsOf(conn, Sockets) \subseteq openSessions \cup {None}
    /\ \A s, t \in Sockets :
          s # t /\ conn[s].sessionId # None => conn[s].sessionId # conn[t].sessionId

(* A connection is licensed only after engine.hello, and a handler that     *)
(* comes back from the license store finds its connection gone or still     *)
(* identified: authorize never licenses a connection it cannot index.       *)
CallsIdentified ==
    /\ \A s \in Sockets : ~conn[s].live => conn[s] = Absent
    /\ \A h \in Handlers :
          IF call[h].stage = "idle" THEN call[h] = Idle
          ELSE /\ call[h].socket \in Sockets
               /\ call[h].engineId \in Engines
               /\ conn[call[h].socket].live =>
                     conn[call[h].socket].engineId # None

(* When a connection takes over an engine id from another, the other one is *)
(* gone in the same step: from the table, from the rooms it held under that *)
(* id and from the session store, and the engine's health does not flicker. *)
ReplacementIsClean ==
    [][\A e \in Engines :
          LET p == byEngineId[e]
          IN  p # None /\ byEngineId'[e] \notin {None, p} =>
                /\ ~conn'[p].live
                /\ \A y \in Symbols : member'[y][e] # p
                /\ conn[p].sessionId \notin openSessions'
                /\ health'[e] = health[e]]_vars

(* An engine whose current connection leaves with nobody taking over is     *)
(* offline from that very step, so that no command or signal is routed to   *)
(* an engine that is shown online and is not there.                         *)
LossMarksOffline ==
    [][\A e \in Engines :
          byEngineId[e] # None /\ byEngineId'[e] = None => health'[e] # "up"]_vars

(* Only the loss of its current connection or the registry's own sweep      *)
(* takes an engine offline: the end of a second connection that never       *)
(* became current leaves the engine's health alone.                         *)
OnlyLossMarksOffline ==
    [][\/ \E E \in SUBSET Engines : SweepRegistry(E)
       \/ \A e \in Engines : health[e] = "up" /\ health'[e] # "up" =>
             byEngineId[e] # None /\ byEngineId'[e] = None]_vars

(* The room membership of an engine's current connection ends only by its   *)
(* own unsubscribe, by expiry, by the end of that connection, or because    *)
(* another connection subscribes under the same engine id.                  *)
MembershipKept ==
    [][\A y \in Symbols, e \in Engines :
          LET s == member[y][e]
          IN  s # None /\ s = byEngineId[e] /\ member'[y][e] # s =>
                \/ ~conn'[s].live
                \/ \E Y \in SUBSET Symbols : Unsubscribe(s, Y)
                \/ \E D \in SUBSET Memberships(member) : EvictExpired(D)
                \/ \E t \in Sockets, Y \in SUBSET Symbols : Subscribe(t, Y)]_vars

(* A session that a connection lets go of is closed in that very step, by   *)
(* whatever way the connection ends.  What the code does not close is the   *)
(* session of a connection that activates once more and takes a new one.    *)
SessionsClosed ==
    [][\A s \in Sockets :
          LET id == conn[s].sessionId
          IN  id \notin {None, conn'[s].sessionId} /\ id \in openSessions' =>
                /\ conn'[s].live
                /\ conn'[s].sessionId # None]_vars

-----------------------------------------------------------------------------
(* Refinement.                                                             *)

connected == {s \in Sockets : conn[s].live}

Promise == INSTANCE EngineSpeaker WITH speaker <- byEngineId

(* The gateway keeps the promise of EngineSpeaker: through all its handlers *)
(* at most one connection speaks for an engine id, each for one id, and     *)
(* none stops speaking while it stays connected.                            *)
SpeaksForOne == Promise!Spec

-----------------------------------------------------------------------------
(* What comments in the code say and the code does not do.                 *)

(* connection-registry.service.ts:37 says that an unauthenticated           *)
(* engine.hello must not replace a live engine that happens to share its    *)
(* id: whoever takes over an id holds a license granted for that id.        *)
TakeoverHoldsGrant ==
    [][\A e \in Engines :
          byEngineId[e] # None /\ byEngineId'[e] \notin {None, byEngineId[e]} =>
              conn'[byEngineId'[e]].licensedFor = e]_vars
=============================================================================
