---------------------------- MODULE CommandLife ----------------------------
(***************************************************************************)
(* What RemoteCommandService promises of a command, seen from the engine   *)
(* that is to act on it: it is sent once or never, acted on once at most,  *)
(* and lost for good if it was lost on the way.                            *)
(***************************************************************************)
CONSTANTS Commands

VARIABLES life

Outcomes == {"completed", "failed"}

Init == life = [c \in Commands |-> "new"]

Send(c) ==
    /\ life[c] = "new"
    /\ life' = [life EXCEPT ![c] = "sent"]

\* The caller is told that it is pending, or that there was an error.
Withhold(c) ==
    /\ life[c] = "new"
    /\ life' = [life EXCEPT ![c] = "withheld"]

\* What was sent over one connection is lost together.
Lose(C) ==
    /\ \A c \in C : life[c] = "sent"
    /\ life' = [c \in Commands |-> IF c \in C THEN "lost" ELSE life[c]]

Act(c) ==
    /\ life[c] = "sent"
    /\ life' = [life EXCEPT ![c] = "running"]

End(c) ==
    /\ life[c] = "running"
    /\ \E outcome \in Outcomes : life' = [life EXCEPT ![c] = outcome]

Next ==
    \/ \E c \in Commands : Send(c) \/ Withhold(c) \/ Act(c) \/ End(c)
    \/ \E C \in SUBSET Commands : Lose(C)

Spec == Init /\ [][Next]_life
=============================================================================
