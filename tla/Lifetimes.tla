----------------------------- MODULE Lifetimes -----------------------------
(***************************************************************************)
(* What time does to one engine: its connection, its membership of a room, *)
(* its entry in the engine registry and the license its connection was     *)
(* granted for, with the three timers that end them.  EngineGateway leaves *)
(* every timestamp open; here the clock is the subject.                    *)
(*                                                                         *)
(* A timestamp is modelled by its distance from the present, and Tick moves*)
(* the present on by one unit.  A timer that is due runs before that: it   *)
(* is late by less than a unit.  Within a unit anything may come first.    *)
(* A distance stays at Horizon, past all that anything compares it with.   *)
(***************************************************************************)
EXTENDS Integers, FiniteSets, FiniteSetsExt

CONSTANTS
    OfflineAfter,           \* connections.offlineAfterSeconds
    ConnectionsEvery,       \* the interval of its sweep
    StaleAfter,             \* engineRegistry.staleAfterSeconds
    RegistryOfflineAfter,   \* engineRegistry.offlineAfterSeconds
    RegistryEvery,          \* the interval of its sweep
    DefaultTtl,             \* rooms.defaultTtlSeconds
    RoomsEvery,             \* rooms.evictionIntervalSeconds
    HeartbeatEvery,         \* connections.heartbeatIntervalSeconds
    Requests,               \* the ttl_seconds an engine may ask for
    Terms,                  \* how long a license granted now may still have
    Horizon,                \* bound: what is longer ago or later is not told apart
    None

ASSUME LifetimesAssumption ==
    /\ {OfflineAfter, ConnectionsEvery, StaleAfter, RegistryOfflineAfter,
        RegistryEvery, DefaultTtl, RoomsEvery, HeartbeatEvery} \subseteq Nat \ {0}
    /\ Requests \subseteq Nat \ 0..(HeartbeatEvery - 1)
    /\ Terms \subseteq Nat
    /\ DefaultTtl > HeartbeatEvery
    /\ Horizon \in Nat
    /\ \A n \in {OfflineAfter + ConnectionsEvery, StaleAfter + RegistryEvery,
                RegistryOfflineAfter + RegistryEvery, RoomsEvery, HeartbeatEvery} :
          n < Horizon
    /\ None \notin Int

VARIABLES
    conn,       \* the EngineConnection; left is the time to licenseExpiresAt
    room,       \* the time to expiresAt of the membership
    capped,     \* auxiliary: the license cut it to a heartbeat or less
    entry,      \* of the engine registry
    call,       \* an activation: what it awaits, and if its socket is conn's
    timer,      \* the time to the next run of each interval
    beat,       \* auxiliary: since its start or its last heartbeat before expiry
    unheard     \* auxiliary: since anything could last speak for the engine

vars == <<conn, room, capped, entry, call, timer, beat, unheard>>

Every == [connections |-> ConnectionsEvery, registry |-> RegistryEvery, rooms |-> RoomsEvery]

Silence == 0..Horizon

Gone == [up |-> FALSE, hello |-> FALSE, licensed |-> FALSE, silence |-> 0, left |-> None]

TypeOK ==
    /\ conn \in [up : BOOLEAN, hello : BOOLEAN, licensed : BOOLEAN,
                 silence : Silence, left : Int \cup {None}]
    /\ room \in Int \cup {None} /\ (room # None => room >= -RoomsEvery)
    /\ capped \in BOOLEAN
    /\ entry \in [health : {"unknown", "online", "stale", "error", "offline"},
                  silence : Silence]
    /\ call \in [at : {"idle", "granting", "crediting"}, here : BOOLEAN]
    /\ timer \in [DOMAIN Every -> Nat] /\ \A t \in DOMAIN Every : timer[t] <= Every[t]
    /\ beat \in Silence
    /\ unheard \in Silence

NoCall == [at |-> "idle", here |-> FALSE]

Init ==
    /\ conn = Gone
    /\ room = None /\ capped = FALSE
    /\ entry = [health |-> "unknown", silence |-> 0]
    /\ call = NoCall
    /\ timer = Every
    /\ beat = 0 /\ unheard = 0

-----------------------------------------------------------------------------
(* The clock.                                                              *)

Later(n) == IF n < Horizon THEN n + 1 ELSE n

Sooner(n) == IF n = None \/ n = -Horizon THEN n ELSE n - 1

Tick ==
    /\ \A t \in DOMAIN Every : timer[t] > 0
    /\ timer' = [t \in DOMAIN Every |-> timer[t] - 1]
    /\ conn' = IF conn.up THEN [conn EXCEPT !.silence = Later(@), !.left = Sooner(@)]
               ELSE conn
    /\ room' = Sooner(room)
    /\ entry' = [entry EXCEPT !.silence = Later(@)]
    /\ beat' = Later(beat)
    /\ unheard' = IF conn.up \/ call.at # "idle" THEN 0 ELSE Later(unheard)
    /\ UNCHANGED <<capped, call>>

-----------------------------------------------------------------------------
(* The connection comes and goes.                                          *)

Connect ==
    /\ ~conn.up
    /\ conn' = [Gone EXCEPT !.up = TRUE]
    /\ beat' = 0
    /\ unheard' = 0
    /\ UNCHANGED <<room, capped, entry, call, timer>>

\* handleDisconnect and retireSocket: the current connection takes the engine
\* offline; a handler that awaits finds it gone.
Leaves ==
    /\ conn' = Gone
    /\ room' = None /\ capped' = FALSE
    /\ entry' = IF conn.licensed /\ entry.health # "unknown"
                  THEN [entry EXCEPT !.health = "offline"] ELSE entry
    /\ call' = [call EXCEPT !.here = FALSE]
    /\ beat' = 0

Disconnect ==
    /\ conn.up
    /\ Leaves
    /\ UNCHANGED <<timer, unheard>>

-----------------------------------------------------------------------------
(* Messages.                                                               *)

Touched(c) == [c EXCEPT !.silence = 0]

Hello ==
    /\ conn.up
    /\ conn' = [Touched(conn) EXCEPT !.hello = TRUE]
    /\ UNCHANGED <<room, capped, entry, call, timer, beat, unheard>>

\* telemetry.snapshot, and whatever else calls touch() and nothing more.
Telemetry ==
    /\ conn.up
    /\ conn' = Touched(conn)
    /\ UNCHANGED <<room, capped, entry, call, timer, beat, unheard>>

\* By activation.request, or by the credential in a hello.
Activation ==
    /\ conn.hello
    /\ call = NoCall
    /\ call' = [at |-> "granting", here |-> TRUE]
    /\ UNCHANGED <<conn, room, capped, entry, timer, beat, unheard>>

Refused ==
    /\ call.at = "granting"
    /\ call' = NoCall
    /\ UNCHANGED <<conn, room, capped, entry, timer, beat, unheard>>

\* authorize takes over the expiry the license had when the store looked.
Granted(left) ==
    /\ call.at = "granting"
    /\ call' = [call EXCEPT !.at = "crediting"]
    /\ conn' = IF call.here
                 THEN [Touched(conn) EXCEPT !.licensed = TRUE, !.left = left]
                 ELSE conn
    /\ UNCHANGED <<room, capped, entry, timer, beat, unheard>>

\* register, whether or not the connection is still there.
Registered ==
    /\ call.at = "crediting"
    /\ call' = NoCall
    /\ entry' = [health |-> "online", silence |-> 0]
    /\ unheard' = 0
    /\ UNCHANGED <<conn, room, capped, timer, beat>>

Expired == conn.left # None /\ conn.left <= 0

\* Mutant: the state is set and the time is not.
HeardUntimed == IF entry.health = "unknown" THEN entry ELSE [entry EXCEPT !.health = "online"]

\* engineRegistry.heartbeat
Heard == IF entry.health = "unknown" THEN entry ELSE [health |-> "online", silence |-> 0]

\* Mutant: a heartbeat does not renew the membership.
HeartbeatNoRenewal ==
    /\ conn.up
    /\ conn' = Touched(conn)
    /\ beat' = IF Expired THEN beat ELSE 0
    /\ entry' = IF conn.hello /\ ~Expired THEN Heard ELSE entry
    /\ UNCHANGED <<room, capped, call, timer, unheard>>

\* No license is asked for, but one that has run out is not renewed.  The
\* membership is renewed for the default time, whatever time it was capped to.
Heartbeat ==
    /\ conn.up
    /\ conn' = Touched(conn)
    /\ beat' = IF Expired THEN beat ELSE 0
    /\ IF conn.hello /\ ~Expired
         THEN /\ room' = IF room = None THEN None ELSE DefaultTtl
              /\ capped' = FALSE
              /\ entry' = Heard
         ELSE UNCHANGED <<room, capped, entry>>
    /\ UNCHANGED <<call, timer, unheard>>

\* engine.awareness with runtime_state "error", of an activated connection.
AwarenessError ==
    /\ conn.licensed
    /\ conn' = Touched(conn)
    /\ entry' = IF entry.health = "unknown" THEN entry ELSE [entry EXCEPT !.health = "error"]
    /\ UNCHANGED <<room, capped, call, timer, beat, unheard>>

\* A manager reports this engine among its agents.
ManagerAgentSnapshot(health) ==
    /\ entry' = [health |-> health, silence |-> 0]
    /\ unheard' = 0
    /\ UNCHANGED <<conn, room, capped, call, timer, beat>>

\* Mutant: what is left of an expired license is negative.
CappedTtlUnfloored(requested) ==
    IF conn.left = None
      THEN IF requested = None THEN DefaultTtl ELSE requested
      ELSE Min({conn.left} \cup ({requested} \ {None}))

\* cappedTtl, for a request that names a time or none.
CappedTtl(requested) ==
    IF conn.left = None
      THEN IF requested = None THEN DefaultTtl ELSE requested
      ELSE Min({Max({0, conn.left})} \cup ({requested} \ {None}))

\* authorizationErrors is not acted upon.
Subscribe(requested) ==
    /\ conn.hello
    /\ room' = CappedTtl(requested)
    /\ capped' = (room' < HeartbeatEvery)
    /\ UNCHANGED <<conn, entry, call, timer, beat, unheard>>

Unsubscribe ==
    /\ conn.hello /\ room # None
    /\ room' = None /\ capped' = FALSE
    /\ UNCHANGED <<conn, entry, call, timer, beat, unheard>>

-----------------------------------------------------------------------------
(* Timers.                                                                 *)

Run(t) == timer[t] = 0 /\ timer' = [timer EXCEPT ![t] = Every[t]]

\* Mutant: a connection that is heard of is not asked for its license.
DueBySilence == conn.up /\ conn.silence > OfflineAfter

\* Expired, or silent for longer than OfflineAfter.
Due == conn.up /\ (Expired \/ conn.silence > OfflineAfter)

SweepConnections ==
    /\ Run("connections")
    /\ IF Due THEN Leaves ELSE UNCHANGED <<conn, room, capped, entry, call, beat>>
    /\ UNCHANGED unheard

\* Mutant: an entry that is not "online" any more is not looked at.
SweptWhileOnline ==
    IF entry.health # "online" THEN entry
    ELSE [entry EXCEPT !.health =
            IF entry.silence >= RegistryOfflineAfter THEN "offline"
            ELSE IF entry.silence >= StaleAfter THEN "stale" ELSE @]

\* What the registry's sweep makes of the entry.
Swept ==
    [entry EXCEPT !.health =
        IF entry.health = "unknown" THEN @
        ELSE IF entry.silence >= RegistryOfflineAfter THEN "offline"
        ELSE IF entry.silence >= StaleAfter /\ @ = "online" THEN "stale" ELSE @]

SweepRegistry ==
    /\ Run("registry")
    /\ entry' = Swept
    /\ UNCHANGED <<conn, room, capped, call, beat, unheard>>

EvictExpired ==
    /\ Run("rooms")
    /\ IF room # None /\ room <= 0
         THEN room' = None /\ capped' = FALSE
         ELSE UNCHANGED <<room, capped>>
    /\ UNCHANGED <<conn, entry, call, beat, unheard>>

-----------------------------------------------------------------------------
Next ==
    \/ Tick \/ Connect \/ Disconnect
    \/ Hello \/ Telemetry \/ Heartbeat \/ AwarenessError
    \/ Activation \/ Refused \/ Registered
    \/ \E left \in Terms \cup {None} : Granted(left)
    \/ \E requested \in Requests \cup {None} : Subscribe(requested)
    \/ Unsubscribe
    \/ \E health \in {"online", "error"} : ManagerAgentSnapshot(health)
    \/ SweepConnections \/ SweepRegistry \/ EvictExpired

Spec == Init /\ [][Next]_vars

-----------------------------------------------------------------------------
(* Properties.                                                             *)

(* No connection outlives its engine or its license for long: one that is   *)
(* silent ends an interval after OfflineAfter at the latest, one whose      *)
(* license has run out within an interval, however the engine beats; and    *)
(* with it its membership, although heartbeats renewed that beyond the      *)
(* license.  A license that is only revoked in the store ends nothing       *)
(* before the expiry the connection was granted with.                       *)
ConnectionsEnd ==
    /\ conn.silence <= OfflineAfter + ConnectionsEvery
    /\ conn.left # None => conn.left >= -ConnectionsEvery
    /\ room # None => conn.up

(* An engine that nothing speaks for, neither a connection nor an           *)
(* activation still under way nor a manager, is not taken for online        *)
(* longer than StaleAfter and an interval of the sweep, although a late     *)
(* register or the heartbeat of an unlicensed connection may have called it *)
(* online; and it is called offline in the end.                             *)
UnheardIsOffline ==
    /\ unheard >= StaleAfter + RegistryEvery => entry.health # "online"
    /\ unheard >= RegistryOfflineAfter + RegistryEvery =>
          entry.health \in {"unknown", "offline"}

(* Signals are refused to an engine that is stale: the registry calls a     *)
(* licensed engine so only if its last heartbeat is StaleAfter old, never   *)
(* because of what it kept from an earlier connection, of sweeps, of other  *)
(* messages or of a heartbeat that came before its hello.  It may until the *)
(* activation that licensed the connection reaches register.                *)
BeatingIsNotStale ==
    conn.licensed /\ ~Expired /\ call.at # "crediting" /\ beat < StaleAfter =>
        entry.health # "stale"

(* The engine is not told of an eviction and heartbeats do not undo it.  It *)
(* loses the room it is in only by its own wish, with its connection, or if *)
(* a heartbeat before expiry was due: even if it asked for the least time   *)
(* the schema lets it ask for, unless its license cut that down.            *)
BeatingKeepsRoom ==
    [][room # None /\ room' = None =>
          \/ Unsubscribe
          \/ ~conn'.up
          \/ capped
          \/ beat >= HeartbeatEvery]_vars
=============================================================================
