--------------------------- MODULE EngineSpeaker ---------------------------
(***************************************************************************)
(* What the gateway promises about engine ids: at any time at most one     *)
(* connection speaks for an engine, a connection speaks for one engine at  *)
(* most, and it stops only by leaving: its own end, or a successor that    *)
(* takes over and sends it away.                                           *)
(***************************************************************************)
CONSTANTS Sockets, Engines, None

VARIABLES
    connected,  \* the sockets of the gateway
    speaker     \* speaker[e]: the socket that speaks for engine e, or None

Init ==
    /\ connected = {}
    /\ speaker = [e \in Engines |-> None]

Connect(s) ==
    /\ s \notin connected
    /\ connected' = connected \cup {s}
    /\ UNCHANGED speaker

\* s speaks for e from now on; whoever did so is sent away.
TakeOver(s, e) ==
    /\ s \in connected
    /\ \A f \in Engines \ {e} : speaker[f] # s
    /\ connected' = connected \ ({speaker[e]} \ {s})
    /\ speaker' = [speaker EXCEPT ![e] = s]

Leave(S) ==
    /\ S \subseteq connected
    /\ connected' = connected \ S
    /\ speaker' = [e \in Engines |-> IF speaker[e] \in S THEN None ELSE speaker[e]]

Next ==
    \/ \E s \in Sockets : Connect(s) \/ \E e \in Engines : TakeOver(s, e)
    \/ \E S \in SUBSET Sockets : Leave(S)

Spec == Init /\ [][Next]_<<connected, speaker>>
=============================================================================
