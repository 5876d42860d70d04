---------------------------- MODULE RoomRegistry ----------------------------
(***************************************************************************)
(* RoomRegistryService: who is in the room of each symbol.  A room keys    *)
(* its members by engine id and remembers the socket each joined with.     *)
(* When a membership expires is left open here (see EngineGateway).        *)
(***************************************************************************)
EXTENDS ConnectionRegistry

VARIABLE member   \* member[y][e]: the socket engine e is in room y with

RoomsTypeOK == member \in [Symbols -> [Engines -> Sockets \cup {None}]]

RoomsInit == member = [y \in Symbols |-> [e \in Engines |-> None]]

-----------------------------------------------------------------------------
(* Methods, on a value m of member.                                        *)

\* join: the newcomer takes the place of whoever held the engine id.
Join(m, e, s, Y) ==
    [y \in Symbols |-> IF y \in Y THEN [m[y] EXCEPT ![e] = s] ELSE m[y]]

\* leave(e, Y, s): only a membership held with this very socket goes.
Leave(m, e, Y, s) ==
    [y \in Symbols |-> IF y \in Y /\ m[y][e] = s
                         THEN [m[y] EXCEPT ![e] = None] ELSE m[y]]

\* Mutant: the socket guard of leave() is dropped.
LeaveAllAnyHolder(m, c, S) ==
    [y \in Symbols |-> [e \in Engines |->
        IF \E s \in S : c[s].engineId = e THEN None ELSE m[y][e]]]

\* leave(engineId(s), undefined, s) for every socket s of S.
LeaveAll(m, c, S) ==
    [y \in Symbols |-> [e \in Engines |->
        IF \E s \in S : c[s].engineId = e /\ m[y][e] = s THEN None ELSE m[y][e]]]

\* evictExpired: the memberships in D, pairs of a symbol and an engine, go.
Evict(m, D) ==
    [y \in Symbols |-> [e \in Engines |->
        IF <<y, e>> \in D THEN None ELSE m[y][e]]]

Memberships(m) == {p \in Symbols \X Engines : m[p[1]][p[2]] # None}
=============================================================================
