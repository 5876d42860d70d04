---------------------------- MODULE SymbolRooms ----------------------------
(***************************************************************************)
(* Which engines are in the room of each symbol: what the Signal Engine    *)
(* subscriber hears of the gateway.  One engine joins rooms at a time; any *)
(* number of memberships may end at once.                                  *)
(***************************************************************************)
CONSTANTS Symbols, Engines

VARIABLE room

Init == room = [y \in Symbols |-> {}]

Join(e, Y) ==
    room' = [y \in Symbols |-> IF y \in Y THEN room[y] \cup {e} ELSE room[y]]

\* The memberships in D, pairs of a symbol and an engine, end.
End(D) ==
    /\ \A p \in D : p[2] \in room[p[1]]
    /\ room' = [y \in Symbols |-> {e \in room[y] : <<y, e>> \notin D}]

Next ==
    \/ \E e \in Engines, Y \in SUBSET Symbols : Join(e, Y)
    \/ \E D \in SUBSET (Symbols \X Engines) : End(D)

Spec == Init /\ [][Next]_room
=============================================================================
