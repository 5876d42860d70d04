--------------------------- MODULE RemoteCommands ---------------------------
(***************************************************************************)
(* RemoteCommandService with its callers: a dashboard or an admin issues a *)
(* command, it is sent to the engine if that is connected, and the engine  *)
(* reports how it ended.  The record of the command is a row of the        *)
(* database; every write to it is a request that nobody awaits, so that    *)
(* two of them may reach the row in either order.                          *)
(*                                                                         *)
(* All commands here are for one engine: no step relates two engines.      *)
(* External: the database, whose functions may refuse, fail or be answered *)
(* late; and the engine, which runs a command it reads and may report the  *)
(* outcome more than once.                                                 *)
(***************************************************************************)
CONSTANTS Commands

VARIABLES
    stage,      \* of the request that issues a command
    told,       \* the status its caller was answered
    row,        \* the status in remote_commands
    writes,     \* updates on their way to the database
    link,       \* the engine's authorized connection
    wire,       \* commands sent over it and not read yet
    engine      \* what the engine has made of a command

vars == <<stage, told, row, writes, link, wire, engine>>

Outcome == {"completed", "failed"}

Final == Outcome \cup {"expired"}

TypeOK ==
    /\ stage \in [Commands -> {"idle", "creating", "created", "answered"}]
    /\ told \in [Commands -> {"nothing", "pending", "delivered", "error"}]
    /\ row \in [Commands -> {"none", "pending", "delivered"} \cup Final]
    /\ writes \subseteq Commands \X ({"delivered"} \cup Outcome)
    /\ link \in {"down", "open", "closing"}
    /\ wire \subseteq Commands
    /\ engine \in [Commands -> {"unaware", "running"} \cup Outcome]

Init ==
    /\ stage = [c \in Commands |-> "idle"]
    /\ told = [c \in Commands |-> "nothing"]
    /\ row = [c \in Commands |-> "none"]
    /\ writes = {}
    /\ link = "down"
    /\ wire = {}
    /\ engine = [c \in Commands |-> "unaware"]

-----------------------------------------------------------------------------
(* Issuing.                                                                *)

\* POST /commands or /admin/commands: create awaits the database.
Issue(c) ==
    /\ stage[c] = "idle"
    /\ stage' = [stage EXCEPT ![c] = "creating"]
    /\ UNCHANGED <<told, row, writes, link, wire, engine>>

\* Mutant: the request takes the status of the row for its own.
RowCreatedAsStatus(c) ==
    /\ stage[c] = "creating"
    /\ row' = [row EXCEPT ![c] = "pending"]
    /\ stage' = [stage EXCEPT ![c] = row'[c]]
    /\ UNCHANGED <<told, writes, link, wire, engine>>

\* The row is there; the answer may still be lost.
RowCreated(c) ==
    /\ stage[c] = "creating"
    /\ row' = [row EXCEPT ![c] = "pending"]
    /\ stage' = [stage EXCEPT ![c] = "created"]
    /\ UNCHANGED <<told, writes, link, wire, engine>>

\* Not owned, no such engine, or the database did not answer.
CreateFails(c) ==
    /\ stage[c] \in {"creating", "created"}
    /\ stage' = [stage EXCEPT ![c] = "answered"]
    /\ told' = [told EXCEPT ![c] = "error"]
    /\ UNCHANGED <<row, writes, link, wire, engine>>

\* Mutant: the delivery is recorded whether or not there was a connection, and
\* its caller is told to wait.
DeliverUnchecked(c) ==
    /\ stage[c] = "created"
    /\ stage' = [stage EXCEPT ![c] = "answered"]
    /\ told' = [told EXCEPT ![c] = "pending"]
    /\ wire' = IF link = "open" THEN wire \cup {c} ELSE wire
    /\ writes' = writes \cup {<<c, "delivered">>}
    /\ UNCHANGED <<row, link, engine>>

\* create() has answered: send, and record that it was sent.
Deliver(c) ==
    /\ stage[c] = "created"
    /\ stage' = [stage EXCEPT ![c] = "answered"]
    /\ IF link = "open"
         THEN /\ wire' = wire \cup {c}
              /\ writes' = writes \cup {<<c, "delivered">>}
              /\ told' = [told EXCEPT ![c] = "delivered"]
         ELSE /\ told' = [told EXCEPT ![c] = "pending"]
              /\ UNCHANGED <<wire, writes>>
    /\ UNCHANGED <<row, link, engine>>

-----------------------------------------------------------------------------
(* The engine and its connection.                                          *)

\* Mutant: a new connection is sent what is pending, sent before or not.
ActivatedResending ==
    /\ link = "down"
    /\ link' = "open"
    /\ wire' = {c \in Commands : row[c] = "pending"}
    /\ UNCHANGED <<stage, told, row, writes, engine>>

Activated ==
    /\ link = "down"
    /\ link' = "open"
    /\ UNCHANGED <<stage, told, row, writes, wire, engine>>

Closing ==
    /\ link = "open"
    /\ link' = "closing"
    /\ UNCHANGED <<stage, told, row, writes, wire, engine>>

\* What the engine has not read is lost.
Disconnected ==
    /\ link # "down"
    /\ link' = "down"
    /\ wire' = {}
    /\ UNCHANGED <<stage, told, row, writes, engine>>

EngineReads(c) ==
    /\ c \in wire
    /\ wire' = wire \ {c}
    /\ engine' = [engine EXCEPT ![c] = "running"]
    /\ UNCHANGED <<stage, told, row, writes, link>>

EngineFinishes(c, outcome) ==
    /\ engine[c] = "running"
    /\ engine' = [engine EXCEPT ![c] = outcome]
    /\ UNCHANGED <<stage, told, row, writes, link, wire>>

\* Mutant: whatever the engine reports is recorded as completed.
ReportAsCompleted(c) ==
    /\ engine[c] \in Outcome
    /\ link # "down"
    /\ <<c, "completed">> \notin writes
    /\ writes' = writes \cup {<<c, "completed">>}
    /\ UNCHANGED <<stage, told, row, link, wire, engine>>

\* command.completed or command.failed, over an activated connection.
Report(c) ==
    /\ engine[c] \in Outcome
    /\ link # "down"
    /\ <<c, engine[c]>> \notin writes
    /\ writes' = writes \cup {<<c, engine[c]>>}
    /\ UNCHANGED <<stage, told, row, link, wire, engine>>

-----------------------------------------------------------------------------
(* The database.                                                           *)

\* markDelivered writes whatever the status is by now.
DeliveredLands(c) ==
    /\ <<c, "delivered">> \in writes
    /\ writes' = writes \ {<<c, "delivered">>}
    /\ row' = [row EXCEPT ![c] = "delivered"]
    /\ UNCHANGED <<stage, told, link, wire, engine>>

\* update_command_status, which may not take it for a command that has ended.
FinishedLands(c, outcome) ==
    /\ <<c, outcome>> \in writes
    /\ writes' = writes \ {<<c, outcome>>}
    /\ \/ row' = [row EXCEPT ![c] = outcome]
       \/ row[c] \in Final /\ UNCHANGED row
    /\ UNCHANGED <<stage, told, link, wire, engine>>

\* A failed write is logged at most.
WriteFails(w) ==
    /\ w \in writes
    /\ writes' = writes \ {w}
    /\ UNCHANGED <<stage, told, row, link, wire, engine>>

\* Mutant: only commands that were never sent expire.
SweepExpiredPending(c) ==
    /\ row[c] = "pending"
    /\ row' = [row EXCEPT ![c] = "expired"]
    /\ UNCHANGED <<stage, told, writes, link, wire, engine>>

\* expire_stale_commands finds c overdue; others it may expire one by one.
SweepExpired(c) ==
    /\ row[c] \in {"pending", "delivered"}
    /\ row' = [row EXCEPT ![c] = "expired"]
    /\ UNCHANGED <<stage, told, writes, link, wire, engine>>

-----------------------------------------------------------------------------
Next ==
    \/ \E c \in Commands :
          \/ Issue(c) \/ RowCreated(c) \/ CreateFails(c) \/ Deliver(c)
          \/ EngineReads(c) \/ Report(c) \/ DeliveredLands(c) \/ SweepExpired(c)
          \/ \E outcome \in Outcome :
                EngineFinishes(c, outcome) \/ FinishedLands(c, outcome)
    \/ \E w \in writes : WriteFails(w)
    \/ Activated \/ Closing \/ Disconnected

Spec == Init /\ [][Next]_vars

(* The sweep runs every minute and a command is overdue after 30 seconds;   *)
(* a write either lands or fails.  Engine and callers need do nothing.      *)
Fairness ==
    \A c \in Commands :
        /\ WF_vars(SweepExpired(c))
        /\ WF_vars(DeliveredLands(c) \/ WriteFails(<<c, "delivered">>))

FairSpec == Spec /\ Fairness

-----------------------------------------------------------------------------
(* Properties.                                                             *)

(* Only a command its caller was told is delivered is ever acted on: one    *)
(* answered "pending" or with an error never reaches the engine later, and  *)
(* its record never says that it did.                                       *)
OnlyDeliveredActs ==
    \A c \in Commands : told[c] # "delivered" =>
        /\ c \notin wire /\ engine[c] = "unaware"
        /\ row[c] \in {"none", "pending", "expired"}

(* The record of a command says completed or failed only if that is what    *)
(* became of it, however often the report is repeated and however late its  *)
(* writes land.                                                             *)
RecordIsOutcome ==
    \A c \in Commands : row[c] \in Outcome => row[c] = engine[c]

(* No record stays open: each comes to a final status and keeps having one, *)
(* although the note of delivery may set it back once.                      *)
RecordSettles ==
    \A c \in Commands : <>[](row[c] # "none" => row[c] \in Final)

-----------------------------------------------------------------------------
(* Refinement.                                                             *)

lifeOf == [c \in Commands |->
    IF c \in wire THEN "sent"
    ELSE IF engine[c] # "unaware" THEN engine[c]
    ELSE CASE told[c] = "nothing" -> "new"
           [] told[c] = "delivered" -> "lost"
           [] OTHER -> "withheld"]

Life == INSTANCE CommandLife WITH life <- lifeOf

(* The service keeps the promise of CommandLife: whatever connections come  *)
(* and go and whatever the record says, a command is sent once or never,    *)
(* and nothing the engine may have read is sent to it again.                *)
ActedOnOnce == Life!Spec
=============================================================================
