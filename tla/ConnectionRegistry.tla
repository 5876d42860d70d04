------------------------- MODULE ConnectionRegistry -------------------------
(***************************************************************************)
(* ConnectionRegistryService: the table of the engine sockets a gateway    *)
(* process holds and the reverse index from an engine id to the one        *)
(* connection that speaks for it.                                          *)
(*                                                                         *)
(* Node runs a handler to its next await without interruption, and one     *)
(* handler calls several registry methods in that stretch.  A method is    *)
(* therefore an operator from the registry's value to its next value, and  *)
(* the gateway's actions compose them.                                     *)
(*                                                                         *)
(* An operator marked "Mutant" is no part of the model: it is a plausible  *)
(* mistake in the method below it, and the runs show that the properties   *)
(* would catch it.                                                         *)
(***************************************************************************)
EXTENDS Identifiers

VARIABLES
    conn,       \* this.connections: the EngineConnection of each socket
    byEngineId  \* this.byEngineId: the index of authorized connections

(***************************************************************************)
(* An EngineConnection.  licensedFor stands for licenseId together with    *)
(* engineDeviceId: the engine id whose device row the activation was made  *)
(* for.  live is membership of the socket in the Map; for a socket that is *)
(* not in it every getter answers null, as Absent does.                    *)
(***************************************************************************)
Connection ==
    [live : BOOLEAN, engineId : Engines \cup {None},
     licensedFor : Engines \cup {None}, sessionId : Sessions \cup {None}]

Absent ==
    [live |-> FALSE, engineId |-> None, licensedFor |-> None, sessionId |-> None]

RegistryTypeOK ==
    /\ conn \in [Sockets -> Connection]
    /\ byEngineId \in [Engines -> Sockets \cup {None}]

RegistryInit ==
    /\ conn = [s \in Sockets |-> Absent]
    /\ byEngineId = [e \in Engines |-> None]

-----------------------------------------------------------------------------
(* Methods.  c is a value of conn, ix one of byEngineId, S a set of sockets *)

Add(c, s) == [c EXCEPT ![s] = [Absent EXCEPT !.live = TRUE]]

\* Mutant: the license no longer pins the engine id.
MayIdentifyAlways(c, s, e) == c[s].live

\* Once a license is held the engine id is fixed.
MayIdentify(c, s, e) ==
    /\ c[s].live
    /\ c[s].licensedFor = None \/ c[s].engineId \in {None, e}

Identify(c, s, e) == [c EXCEPT ![s].engineId = e]

\* authorize, its write to the connection: to whatever the socket now has ...
Authorize(c, s, e) ==
    IF c[s].live THEN [c EXCEPT ![s].licensedFor = e] ELSE c

\* ... and to the index: under the id it now has, not the one granted.
Index(ix, c, s) ==
    IF c[s].live /\ c[s].engineId # None
      THEN [ix EXCEPT ![c[s].engineId] = s]
      ELSE ix

\* Mutant: the caller is never told whom it replaced.
ReplacedForgotten(ix, c, s) == {}

\* authorize, its result: the socket the caller is to retire, as a set.
Replaced(ix, c, s) ==
    {p \in Sockets \ {s} : /\ c[s].live
                           /\ c[s].engineId # None
                           /\ ix[c[s].engineId] = p}

\* Mutant: the session of a socket that has left is recorded all the same.
SetSessionIdOfAny(c, s, id) == [c EXCEPT ![s].sessionId = id]

SetSessionId(c, s, id) ==
    IF c[s].live THEN [c EXCEPT ![s].sessionId = id] ELSE c

IsCurrent(ix, c, s) == c[s].engineId # None /\ ix[c[s].engineId] = s

\* An indexed connection counts only if it has a license.
CurrentSocket(ix, c, e) ==
    {s \in Sockets : ix[e] = s /\ c[s].licensedFor # None}

\* remove() of every socket of S: from the table ...
Remove(c, S) == [s \in Sockets |-> IF s \in S THEN Absent ELSE c[s]]

\* Mutant: remove() drops the entry of whoever now owns the id.
UnindexAnyOwner(ix, c, S) ==
    [e \in Engines |-> IF \E s \in S : c[s].engineId = e THEN None ELSE ix[e]]

\* ... and from the index, where an entry goes only with its owner.
Unindex(ix, c, S) ==
    [e \in Engines |-> IF \E s \in S : c[s].engineId = e /\ ix[e] = s
                         THEN None ELSE ix[e]]

-----------------------------------------------------------------------------
(* Every index entry leads to a live, licensed connection that goes by      *)
(* that engine id: sendToEngine never writes to a socket that has left or   *)
(* that speaks for someone else.                                            *)
IndexConsistent ==
    \A e \in Engines : byEngineId[e] # None =>
        /\ conn[byEngineId[e]].live
        /\ conn[byEngineId[e]].engineId = e
        /\ conn[byEngineId[e]].licensedFor # None

(* Every licensed connection is the one its engine id is indexed to.  The   *)
(* index holds one socket per id, so no two licensed connections share an   *)
(* engine id, and releasing a device or replacing a connection, which look  *)
(* the socket up in the index, miss none.                                   *)
LicensedIsCurrent ==
    \A s \in Sockets : conn[s].licensedFor # None =>
        conn[s].live /\ IsCurrent(byEngineId, conn, s)
=============================================================================
