---------------------------- MODULE Identifiers ----------------------------
(***************************************************************************)
(* The names the engine-side modules share.                                *)
(***************************************************************************)
CONSTANTS
    Sockets,    \* WebSocket objects; a name is reused once nothing holds it
    Engines,    \* engine ids
    Symbols,    \* normalized trading symbols, each the name of a room
    Sessions,   \* ids that open_engine_session hands out
    None        \* null

ASSUME NoneAssumption ==
    None \notin Sockets \cup Engines \cup Symbols \cup Sessions
=============================================================================
