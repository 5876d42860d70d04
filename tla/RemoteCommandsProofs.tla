------------------------ MODULE RemoteCommandsProofs ------------------------
(***************************************************************************)
(* Proofs about RemoteCommands, for every set of commands.                 *)
(***************************************************************************)
EXTENDS RemoteCommands, TLAPS

-----------------------------------------------------------------------------
(* The inductive invariant.                                                *)

\* Its caller has an answer if and only if the request that issues a command
\* has ended.
AnsweredOnce ==
    \A c \in Commands : told[c] = "nothing" <=> stage[c] # "answered"

\* Nothing is recorded of a command that was not sent ...
WritesOfDelivered ==
    \A c \in Commands : told[c] # "delivered" =>
        \A status \in {"delivered"} \cup Outcome : <<c, status>> \notin writes

\* ... and of one that was, no outcome but the one it had.
WritesAreOutcomes ==
    \A c \in Commands, outcome \in Outcome :
        <<c, outcome>> \in writes => engine[c] = outcome

\* What the engine has not read it does not know.
SentIsUnread == \A c \in wire : engine[c] = "unaware"

CommandInv ==
    /\ TypeOK
    /\ AnsweredOnce
    /\ OnlyDeliveredActs
    /\ WritesOfDelivered
    /\ WritesAreOutcomes
    /\ SentIsUnread
    /\ RecordIsOutcome

LEMMA CommandInitially == Init => CommandInv
BY DEF Init, CommandInv, TypeOK, AnsweredOnce, OnlyDeliveredActs, WritesOfDelivered,
       WritesAreOutcomes, SentIsUnread, RecordIsOutcome, Outcome, Final

LEMMA CommandStep ==
    ASSUME CommandInv, [Next]_vars
    PROVE  CommandInv'
<1> USE DEF CommandInv, TypeOK, AnsweredOnce, OnlyDeliveredActs, WritesOfDelivered,
            WritesAreOutcomes, SentIsUnread, RecordIsOutcome, Outcome, Final
<1>1. ASSUME NEW c \in Commands, Issue(c) PROVE CommandInv'
  BY <1>1 DEF Issue
<1>2. ASSUME NEW c \in Commands, RowCreated(c) PROVE CommandInv'
  BY <1>2 DEF RowCreated
<1>3. ASSUME NEW c \in Commands, CreateFails(c) PROVE CommandInv'
  BY <1>3 DEF CreateFails
<1>4. ASSUME NEW c \in Commands, Deliver(c) PROVE CommandInv'
  BY <1>4 DEF Deliver
<1>5. ASSUME NEW c \in Commands, EngineReads(c) PROVE CommandInv'
  BY <1>5 DEF EngineReads
<1>6. ASSUME NEW c \in Commands, Report(c) PROVE CommandInv'
  BY <1>6 DEF Report
<1>7. ASSUME NEW c \in Commands, DeliveredLands(c) PROVE CommandInv'
  BY <1>7 DEF DeliveredLands
<1>8. ASSUME NEW c \in Commands, SweepExpired(c) PROVE CommandInv'
  BY <1>8 DEF SweepExpired
<1>9. ASSUME NEW c \in Commands, NEW outcome \in Outcome, EngineFinishes(c, outcome)
      PROVE  CommandInv'
  BY <1>9 DEF EngineFinishes
<1>10. ASSUME NEW c \in Commands, NEW outcome \in Outcome, FinishedLands(c, outcome)
       PROVE  CommandInv'
  <2>1. told[c] = "delivered" /\ engine[c] = outcome
    BY <1>10 DEF FinishedLands
  <2>2. \A d \in Commands : row'[d] = IF d = c /\ row'[c] # row[c] 
                                          THEN outcome ELSE row[d]
    BY <1>10 DEF FinishedLands
  <2>3. RecordIsOutcome'
    BY <1>10, <2>1, <2>2 DEF FinishedLands
  <2>4. OnlyDeliveredActs'
    BY <1>10, <2>1, <2>2 DEF FinishedLands
  <2> QED BY <1>10, <2>3, <2>4 DEF FinishedLands
<1>11. ASSUME NEW w \in writes, WriteFails(w) PROVE CommandInv'
  BY <1>11 DEF WriteFails
<1>12. CASE Activated \/ Closing
  BY <1>12 DEF Activated, Closing
<1>13. CASE Disconnected
  BY <1>13 DEF Disconnected
<1>14. CASE UNCHANGED vars
  BY <1>14 DEF vars
<1> HIDE DEF CommandInv
<1> QED BY <1>1, <1>2, <1>3, <1>4, <1>5, <1>6, <1>7, <1>8, <1>9, <1>10, <1>11, <1>12,
           <1>13, <1>14 DEF Next

LEMMA CommandInvariance == Spec => []CommandInv
<1>1. CommandInv /\ [Next]_vars => CommandInv'
  BY CommandStep
<1> QED BY CommandInitially, <1>1, PTL DEF Spec

-----------------------------------------------------------------------------
(* The invariants the runs check.                                          *)

(* Every variable of the service keeps its type.                            *)
THEOREM CommandsTypeCorrect == Spec => []TypeOK
<1>1. CommandInv => TypeOK
  BY DEF CommandInv
<1> QED BY <1>1, CommandInvariance, PTL

(* A command that its caller was told is pending or failed never reaches    *)
(* the engine, and its row never says that it did (deliver sends before it  *)
(* answers, and markDelivered is called only for what was sent).            *)
THEOREM UndeliveredNeverActs == Spec => []OnlyDeliveredActs
<1>1. CommandInv => OnlyDeliveredActs
  BY DEF CommandInv
<1> QED BY <1>1, CommandInvariance, PTL

(* The row of a command says completed or failed only if that is what       *)
(* became of it, in whatever order the unawaited updates land.              *)
THEOREM RecordsTellTheOutcome == Spec => []RecordIsOutcome
<1>1. CommandInv => RecordIsOutcome
  BY DEF CommandInv
<1> QED BY <1>1, CommandInvariance, PTL

-----------------------------------------------------------------------------
(* Refinement of CommandLife.                                              *)

\* What a step leaves alone keeps its place in the life of a command.
LEMMA LifeUnchanged ==
    ASSUME NEW c \in Commands, c \in wire <=> c \in wire',
           engine'[c] = engine[c], told'[c] = told[c]
    PROVE  lifeOf'[c] = lifeOf[c]
BY DEF lifeOf

\* A step that touches one command, and takes it to b.
LEMMA LifeMoves ==
    ASSUME NEW c \in Commands, NEW b, lifeOf'[c] = b,
           \A d \in Commands \ {c} :
              /\ d \in wire <=> d \in wire'
              /\ engine'[d] = engine[d] /\ told'[d] = told[d]
    PROVE  lifeOf' = [lifeOf EXCEPT ![c] = b]
<1>1. \A d \in Commands \ {c} : lifeOf'[d] = lifeOf[d]
  BY LifeUnchanged
<1>2. DOMAIN lifeOf = Commands /\ lifeOf = [d \in DOMAIN lifeOf |-> lifeOf[d]]
  BY DEF lifeOf
<1>3. DOMAIN lifeOf' = Commands /\ lifeOf' = [d \in DOMAIN lifeOf' |-> lifeOf'[d]]
  BY DEF lifeOf
<1> QED BY <1>1, <1>2, <1>3

LEMMA LifeStep ==
    ASSUME CommandInv, [Next]_vars
    PROVE  [Life!Next]_lifeOf
<1> USE DEF CommandInv, TypeOK
<1>1. ASSUME UNCHANGED <<wire, engine, told>> PROVE UNCHANGED lifeOf
  BY <1>1 DEF lifeOf
<1>2. ASSUME NEW c \in Commands, CreateFails(c) PROVE Life!Next
  <2>1. lifeOf[c] = "new" /\ lifeOf'[c] = "withheld"
    BY <1>2 DEF CreateFails, lifeOf, AnsweredOnce, OnlyDeliveredActs
  <2>2. lifeOf' = [lifeOf EXCEPT ![c] = "withheld"]
    BY <1>2, <2>1, LifeMoves DEF CreateFails
  <2> QED BY <2>1, <2>2 DEF Life!Withhold, Life!Next
<1>3. ASSUME NEW c \in Commands, Deliver(c) PROVE Life!Next
  <2>1. lifeOf[c] = "new"
    BY <1>3 DEF Deliver, lifeOf, AnsweredOnce, OnlyDeliveredActs
  <2>2. CASE link = "open"
    <3>1. lifeOf'[c] = "sent"
      BY <1>3, <2>2 DEF Deliver, lifeOf
    <3>2. lifeOf' = [lifeOf EXCEPT ![c] = "sent"]
      BY <1>3, <2>2, <3>1, LifeMoves DEF Deliver
    <3> QED BY <2>1, <3>2 DEF Life!Send, Life!Next
  <2>3. CASE link # "open"
    <3>1. lifeOf'[c] = "withheld"
      BY <1>3, <2>3 DEF Deliver, lifeOf, AnsweredOnce, OnlyDeliveredActs
    <3>2. lifeOf' = [lifeOf EXCEPT ![c] = "withheld"]
      BY <1>3, <2>3, <3>1, LifeMoves DEF Deliver
    <3> QED BY <2>1, <3>2 DEF Life!Withhold, Life!Next
  <2> QED BY <2>2, <2>3
<1>4. ASSUME NEW c \in Commands, EngineReads(c) PROVE Life!Next
  <2>1. lifeOf[c] = "sent" /\ lifeOf'[c] = "running"
    BY <1>4 DEF EngineReads, lifeOf
  <2>2. lifeOf' = [lifeOf EXCEPT ![c] = "running"]
    BY <1>4, <2>1, LifeMoves DEF EngineReads
  <2> QED BY <2>1, <2>2 DEF Life!Act, Life!Next
<1>5. ASSUME NEW c \in Commands, NEW outcome \in Outcome, EngineFinishes(c, outcome)
      PROVE  Life!Next
  <2>1. c \notin wire
    BY <1>5 DEF EngineFinishes, SentIsUnread
  <2>2. lifeOf[c] = "running" /\ lifeOf'[c] = outcome
    BY <1>5, <2>1 DEF EngineFinishes, lifeOf, Outcome
  <2>3. lifeOf' = [lifeOf EXCEPT ![c] = outcome]
    BY <1>5, <2>2, LifeMoves DEF EngineFinishes
  <2> QED BY <2>2, <2>3 DEF Life!End, Life!Next, Life!Outcomes, Outcome
<1>6. CASE Disconnected
  <2>1. \A c \in wire : engine[c] = "unaware" /\ told[c] = "delivered"
    BY DEF SentIsUnread, OnlyDeliveredActs
  <2>2. lifeOf' = [c \in Commands |-> IF c \in wire THEN "lost" ELSE lifeOf[c]]
    BY <1>6, <2>1 DEF Disconnected, lifeOf
  <2>3. \A c \in wire : lifeOf[c] = "sent"
    BY DEF lifeOf
  <2>4. Life!Lose(wire)
    BY <2>2, <2>3 DEF Life!Lose
  <2> QED BY <2>4 DEF Life!Next
<1>7. ASSUME NEW c \in Commands,
             \/ Issue(c) \/ RowCreated(c) \/ Report(c) \/ DeliveredLands(c)
             \/ SweepExpired(c)
             \/ \E outcome \in Outcome : FinishedLands(c, outcome)
      PROVE  UNCHANGED <<wire, engine, told>>
  BY <1>7 DEF Issue, RowCreated, Report, DeliveredLands, SweepExpired, FinishedLands
<1>8. ASSUME \/ Activated \/ Closing
             \/ \E w \in writes : WriteFails(w)
             \/ UNCHANGED vars
      PROVE  UNCHANGED <<wire, engine, told>>
  BY <1>8 DEF Activated, Closing, WriteFails, vars
<1> HIDE DEF CommandInv
<1> QED BY <1>1, <1>2, <1>3, <1>4, <1>5, <1>6, <1>7, <1>8 DEF Next

(* RemoteCommands implements CommandLife: a command is sent once or never,  *)
(* what was lost with a connection is not sent again, and nothing that the  *)
(* engine has read can be read once more.                                   *)
THEOREM CommandsAreActedOnOnce == Spec => ActedOnOnce
<1>1. Init => Life!Init
  BY DEF Init, lifeOf, Life!Init
<1>2. CommandInv /\ [Next]_vars => [Life!Next]_lifeOf
  BY LifeStep
<1>3. Spec => Life!Spec
  BY <1>1, <1>2, CommandInvariance, PTL DEF Spec, Life!Spec
<1> QED BY <1>3 DEF ActedOnOnce

-----------------------------------------------------------------------------
(* How often a record is opened again.                                     *)

\* There is no row before the database has been asked for one.
RowFollowsStage ==
    \A c \in Commands : stage[c] \in {"idle", "creating"} => row[c] = "none"

LEMMA RowFollowsStageInitially == Init => RowFollowsStage
BY DEF Init, RowFollowsStage

LEMMA RowFollowsStageStep ==
    ASSUME CommandInv, RowFollowsStage, [Next]_vars
    PROVE  RowFollowsStage'
<1> USE DEF RowFollowsStage, CommandInv, TypeOK
<1>1. ASSUME NEW c \in Commands,
             Issue(c) \/ RowCreated(c) \/ CreateFails(c) \/ Deliver(c)
      PROVE  RowFollowsStage'
  BY <1>1 DEF Issue, RowCreated, CreateFails, Deliver
<1>2. ASSUME NEW c \in Commands, DeliveredLands(c) PROVE RowFollowsStage'
  <2>1. stage[c] = "answered"
    BY <1>2 DEF DeliveredLands, WritesOfDelivered, AnsweredOnce
  <2> QED BY <1>2, <2>1 DEF DeliveredLands
<1>3. ASSUME NEW c \in Commands, SweepExpired(c) PROVE RowFollowsStage'
  BY <1>3 DEF SweepExpired
<1>4. ASSUME NEW c \in Commands, NEW outcome \in Outcome, FinishedLands(c, outcome)
      PROVE  RowFollowsStage'
  <2>1. stage[c] = "answered"
    BY <1>4 DEF FinishedLands, WritesOfDelivered, AnsweredOnce
  <2> QED BY <1>4, <2>1 DEF FinishedLands
<1>5. ASSUME NEW c \in Commands,
             \/ EngineReads(c) \/ Report(c)
             \/ \E outcome \in Outcome : EngineFinishes(c, outcome)
      PROVE  UNCHANGED <<stage, row>>
  BY <1>5 DEF EngineReads, Report, EngineFinishes
<1>6. ASSUME \/ Activated \/ Closing \/ Disconnected
             \/ \E w \in writes : WriteFails(w)
             \/ UNCHANGED vars
      PROVE  UNCHANGED <<stage, row>>
  BY <1>6 DEF Activated, Closing, Disconnected, WriteFails, vars
<1>7. ASSUME UNCHANGED <<stage, row>> PROVE RowFollowsStage'
  BY <1>7
<1> HIDE DEF RowFollowsStage, CommandInv
<1> QED BY <1>1, <1>2, <1>3, <1>4, <1>5, <1>6, <1>7 DEF Next

\* What a step may do to the record of c, and to what would open it again.
RecordMoves(c) ==
    /\ row[c] \in Final /\ row'[c] # row[c] =>
          \/ <<c, "delivered">> \in writes \ writes' /\ row'[c] = "delivered"
          \/ row[c] = "expired" /\ row'[c] = engine[c]
    /\ <<c, "delivered">> \in writes' \ writes => told[c] = "nothing"
    /\ <<c, "delivered">> \in writes' => told'[c] # "nothing"
    /\ told[c] # "nothing" => told'[c] = told[c]

(* What RecordSettles says of safety.  A record that has ended changes in   *)
(* two ways only: the note of delivery lands late and opens it again, or    *)
(* the report corrects one that had expired; completed never becomes        *)
(* failed.  The note is written while its caller waits for an answer, and   *)
(* an answer is final: so a record is opened again once at most.            *)
RecordReopensOnce == [][\A c \in Commands : RecordMoves(c)]_vars

LEMMA RecordStep ==
    ASSUME CommandInv, RowFollowsStage, [Next]_vars, NEW c \in Commands
    PROVE  RecordMoves(c)
<1>1. <<c, "delivered">> \in writes' => told'[c] # "nothing"
  BY CommandStep DEF CommandInv, WritesOfDelivered
<1> USE <1>1 DEF RecordMoves, CommandInv, TypeOK, Final, Outcome
<1>2. ASSUME NEW d \in Commands, Issue(d) PROVE RecordMoves(c)
  BY <1>2 DEF Issue
<1>3. ASSUME NEW d \in Commands, RowCreated(d) PROVE RecordMoves(c)
  <2>1. row[d] = "none"
    BY <1>3 DEF RowCreated, RowFollowsStage
  <2> QED BY <1>3, <2>1 DEF RowCreated
<1>4. ASSUME NEW d \in Commands, CreateFails(d) PROVE RecordMoves(c)
  BY <1>4 DEF CreateFails, AnsweredOnce
<1>5. ASSUME NEW d \in Commands, Deliver(d) PROVE RecordMoves(c)
  BY <1>5 DEF Deliver, AnsweredOnce
<1>6. ASSUME NEW d \in Commands, EngineReads(d) \/ Report(d) PROVE RecordMoves(c)
  BY <1>6 DEF EngineReads, Report
<1>7. ASSUME NEW d \in Commands, DeliveredLands(d) PROVE RecordMoves(c)
  BY <1>7 DEF DeliveredLands
<1>8. ASSUME NEW d \in Commands, SweepExpired(d) PROVE RecordMoves(c)
  BY <1>8 DEF SweepExpired
<1>9. ASSUME NEW d \in Commands, NEW outcome \in Outcome, EngineFinishes(d, outcome)
      PROVE  RecordMoves(c)
  BY <1>9 DEF EngineFinishes
<1>10. ASSUME NEW d \in Commands, NEW outcome \in Outcome, FinishedLands(d, outcome)
      PROVE  RecordMoves(c)
  <2>1. engine[d] = outcome
    BY <1>10 DEF FinishedLands, WritesAreOutcomes
  <2>2. row[d] \in Outcome => row[d] = outcome
    BY <2>1 DEF RecordIsOutcome
  <2> QED BY <1>10, <2>1, <2>2 DEF FinishedLands
<1>11. ASSUME NEW w \in writes, WriteFails(w) PROVE RecordMoves(c)
  BY <1>11 DEF WriteFails
<1>12. CASE Activated \/ Closing \/ Disconnected
  BY <1>12 DEF Activated, Closing, Disconnected
<1>13. CASE UNCHANGED vars
  BY <1>13 DEF vars
<1> HIDE DEF RecordMoves, CommandInv
<1> QED BY <1>2, <1>3, <1>4, <1>5, <1>6, <1>7, <1>8, <1>9, <1>10, <1>11, <1>12, <1>13
        DEF Next

(* However late the unawaited writes land, the record of a command is       *)
(* opened again once at most, and only by the note of its delivery.         *)
THEOREM RecordsReopenOnce == Spec => RecordReopensOnce
<1>1. CommandInv /\ RowFollowsStage /\ [Next]_vars => RowFollowsStage'
  BY RowFollowsStageStep
<1>2. CommandInv /\ RowFollowsStage /\ [Next]_vars =>
        [\A c \in Commands : RecordMoves(c)]_vars
  BY RecordStep
<1> QED BY RowFollowsStageInitially, CommandInvariance, <1>1, <1>2, PTL
        DEF Spec, RecordReopensOnce
=============================================================================
