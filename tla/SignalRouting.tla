--------------------------- MODULE SignalRouting ---------------------------
(***************************************************************************)
(* Where a signal goes: EngineRegistryService.findByBroker over the entries*)
(* of all the engines there ever were, and routeSignal over the room of the*)
(* signal's symbol.                                                        *)
(*                                                                         *)
(* One broker and one symbol: of an entry only whether it matches the      *)
(* broker matters, by the source key its engine reports or by the server   *)
(* name of its account, and of a room who can be reached in it.  A signal  *)
(* changes no state: Route is what becomes of one that arrives now.        *)
(***************************************************************************)
EXTENDS SignalNames, SequencesExt

CONSTANTS
    Managers,   \* engine ids of managers
    None

ASSUME RoutingAssumption == Managers \subseteq Engines /\ None \notin Engines

VARIABLES
    order,      \* the keys of the Map entries, oldest first
    entry,      \* "degraded" is stale or error
    reachable   \* members of the room whose socket is OPEN

routingVars == <<order, entry, reachable>>

Health == {"online", "degraded", "offline"}

Entry == [key : BOOLEAN, server : BOOLEAN, health : Health]

Unmatched == [key |-> FALSE, server |-> FALSE, health |-> "offline"]

Known == Range(order)

RoutingTypeOK ==
    /\ order \in Seq(Engines)
    /\ entry \in [Engines -> Entry]
    /\ reachable \subseteq Engines

RoutingInit ==
    /\ order = <<>>
    /\ entry = [e \in Engines |-> Unmatched]
    /\ reachable = {}

-----------------------------------------------------------------------------
(* The entries.                                                            *)

\* Map.set: an entry that exists keeps its place.
PlaceOf(e) == IF e \in Known THEN order ELSE Append(order, e)

Put(e, value) ==
    /\ order' = PlaceOf(e)
    /\ entry' = [entry EXCEPT ![e] = value]
    /\ UNCHANGED reachable

\* On activation: the account is new or what it was.
Register(e, server) == Put(e, [entry[e] EXCEPT !.server = server, !.health = "online"])

\* An agent as its manager reports it.
UpsertManagedSource(e, key, server, health) ==
    /\ health \in {"online", "degraded"}
    /\ Put(e, [key |-> key, server |-> server, health |-> health])

UpdateAwareness(e, key, failed) ==
    /\ e \in Known
    /\ Put(e, [entry[e] EXCEPT !.key = key,
                               !.health = IF failed THEN "degraded" ELSE @])

Heartbeat(e) ==
    /\ e \in Known
    /\ Put(e, [entry[e] EXCEPT !.health = "online"])

SweepStale(e) ==
    /\ e \in Known /\ entry[e].health = "online"
    /\ Put(e, [entry[e] EXCEPT !.health = "degraded"])

\* Mutant: the entry keeps the word the agent's manager has for it.
OfflineAsReported(e) ==
    /\ e \in Known /\ entry[e].health # "offline"
    /\ Put(e, [entry[e] EXCEPT !.health = "disconnected"])

\* markOffline, or the sweep when the silence lasts.
Offline(e) ==
    /\ e \in Known /\ entry[e].health # "offline"
    /\ Put(e, [entry[e] EXCEPT !.health = "offline"])

\* Joins the room with an open socket, or leaves it, or the socket closes.
Reach(e) ==
    /\ reachable' = IF e \in reachable THEN reachable \ {e} ELSE reachable \cup {e}
    /\ UNCHANGED <<order, entry>>

-----------------------------------------------------------------------------
(* Routing.                                                                *)

\* pass(): the first entry among those of S.
FirstOf(S) ==
    LET i == SelectInSeq(order, LAMBDA e : e \in S) IN IF i = 0 THEN None ELSE order[i]

OrElse(a, b) == IF a # None THEN a ELSE b

Online == {e \in Known : entry[e].health = "online"}

ByKey == {e \in Known : entry[e].key}

ByServer == {e \in Known : entry[e].server}

\* Mutant: engines that are online are not preferred.
FindByBrokerAnyState == OrElse(FirstOf(ByKey), FirstOf(ByServer))

FindByBroker ==
    OrElse(FirstOf(ByKey \cap Online),
    OrElse(FirstOf(ByKey),
    OrElse(FirstOf(ByServer \cap Online),
           FirstOf(ByServer))))

\* broadcastToManager: some manager that can be reached.
ManagerRoute == reachable \cap Managers

\* The recipients a signal for the broker may have, one of which gets it.
Route ==
    IF FindByBroker \in Online \cap reachable
      THEN {FindByBroker}
      ELSE ManagerRoute

-----------------------------------------------------------------------------
RoutingNext ==
    \E e \in Engines :
        \/ \E server \in BOOLEAN : Register(e, server)
        \/ \E key, server \in BOOLEAN, health \in Health :
              UpsertManagedSource(e, key, server, health)
        \/ \E key, failed \in BOOLEAN : UpdateAwareness(e, key, failed)
        \/ Heartbeat(e) \/ SweepStale(e) \/ Offline(e) \/ Reach(e)

RoutingSpec == RoutingInit /\ [][RoutingNext]_routingVars

-----------------------------------------------------------------------------
(* Properties.                                                             *)

(* An online engine in the room that reports the broker's source key gets   *)
(* the signal directly if it is the only online one to report it, whatever  *)
(* entries its predecessors and namesakes left in the registry.             *)
OnlyKeyHolderServed ==
    \A e \in reachable : ByKey \cap Online = {e} => Route = {e}
=============================================================================
