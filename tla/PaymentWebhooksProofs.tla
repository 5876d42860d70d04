----------------------- MODULE PaymentWebhooksProofs -----------------------
(***************************************************************************)
(* Proofs about PaymentWebhooks, for any customers, any finite table of    *)
(* licenses and any number of handlers, whether the guard against          *)
(* duplicates can always be read or not.                                   *)
(***************************************************************************)
EXTENDS PaymentWebhooks, FiniteSetTheorems, TLAPS

-----------------------------------------------------------------------------
(* Types, and what a row and a handler hold together.                      *)

Row == [status : {"none", "active", "suspended", "expired"},
        owner  : Customers \cup {None},
        key    : BOOLEAN]

Task ==
    [at       : {"idle", "resolving", "creatingUser", "checking", "inserting",
                 "keying", "suspending", "enabling"},
     event    : {None, "provision", "suspend", "enable"},
     customer : Customers \cup {None},
     license  : Licenses \cup {None}]

LEMMA TypeParts ==
    TypeOK <=> /\ account \subseteq Customers /\ raced \subseteq Customers
               /\ doubled \subseteq Customers /\ unissued \subseteq Licenses
               /\ license \in [Licenses -> Row] /\ task \in [Handlers -> Task]
BY DEF TypeOK, Row, Task

LEMMA TypePartsNext ==
    TypeOK' <=> /\ account' \subseteq Customers /\ raced' \subseteq Customers
                /\ doubled' \subseteq Customers /\ unissued' \subseteq Licenses
                /\ license' \in [Licenses -> Row] /\ task' \in [Handlers -> Task]
BY DEF TypeOK, Row, Task

\* What is left without a key was so before, or is among what the step leaves.
LEMMA LeftKeylessType ==
    ASSUME NEW L, LeftKeyless(L)
    PROVE  unissued' \subseteq unissued \cup L
BY DEF LeftKeyless

LEMMA NothingLeftType == LeftKeyless({}) => unissued' \subseteq unissued
BY LeftKeylessType

\* A license that was inserted has an owner.
Owned == \A l \in Licenses : license[l].status # "none" => license[l].owner \in Customers

\* A handler at work is for an event of a customer, and one that issues a key
\* issues it for a license that was inserted.
AtWork(t) ==
    t.at # "idle" =>
        /\ t.customer \in Customers
        /\ t.event \in {"provision", "suspend", "enable"}
        /\ t.at = "keying" => t.license \in Licenses /\ license[t.license].status # "none"

TasksAtWork == \A h \in Handlers : AtWork(task[h])

PayInv == TypeOK /\ Owned /\ TasksAtWork

-----------------------------------------------------------------------------
(* The steps of a handler, in the variables it moves.                      *)

\* A handler moves, and no other does.
Moves(h) == \A g \in Handlers \ {h} : task'[g] = task[g]

LEMMA GotoEffect ==
    ASSUME PayInv, NEW h \in Handlers, NEW at, Goto(h, at)
    PROVE  /\ Moves(h)
           /\ task'[h] = [task[h] EXCEPT !.at = at]
           /\ task'[h].at = at /\ task'[h].event = task[h].event
           /\ task'[h].customer = task[h].customer /\ task'[h].license = task[h].license
           /\ task' = [task EXCEPT ![h] = task'[h]]
<1> DEFINE new == [task[h] EXCEPT !.at = at]
<1>1. task' = [task EXCEPT ![h] = new] /\ task[h] \in Task
  BY TypeParts DEF Goto, PayInv
<1>2. /\ new.at = at /\ new.event = task[h].event /\ new.customer = task[h].customer
      /\ new.license = task[h].license
  BY <1>1 DEF Task
<1>3. task'[h] = new /\ Moves(h)
  BY <1>1, TypeParts DEF Moves, PayInv
<1> QED BY <1>1, <1>2, <1>3

LEMMA DoneEffect ==
    ASSUME PayInv, NEW h \in Handlers, Done(h)
    PROVE  Moves(h) /\ task'[h] = Idle /\ task' = [task EXCEPT ![h] = task'[h]]
BY TypeParts DEF Done, Moves, PayInv

LEMMA IdleTask == Idle \in Task /\ Idle.at = "idle"
BY DEF Idle, Task

\* A handler moves on at its license, or ends; the rows stay inserted.
LEMMA HandlerTyped ==
    ASSUME PayInv, NEW h \in Handlers, task' = [task EXCEPT ![h] = task'[h]],
           task'[h] \in Task, AtWork(task[h])' ,
           \A l \in Licenses : license[l].status # "none" => license'[l].status # "none"
    PROVE  task' \in [Handlers -> Task] /\ TasksAtWork'
<1>1. task' \in [Handlers -> Task]
  BY TypeParts DEF PayInv
<1>2. ASSUME NEW g \in Handlers PROVE AtWork(task[g])'
  <2>1. CASE g = h
    BY <2>1
  <2>2. CASE g # h
    BY <2>2, TypeParts DEF PayInv, TasksAtWork, AtWork
  <2> QED BY <2>1, <2>2
<1> QED BY <1>1, <1>2 DEF TasksAtWork

\* A change of the table that inserts nothing, and of no owner.
LEMMA RowsTyped ==
    ASSUME PayInv, NEW f \in [Licenses -> Row], license' = f,
           \A l \in Licenses : f[l].owner = license[l].owner
                               /\ (f[l].status # "none" <=> license[l].status # "none")
    PROVE  Owned' /\ (task' = task => TasksAtWork')
BY DEF PayInv, Owned, TasksAtWork, AtWork

LEMMA PayStep ==
    ASSUME PayInv, [Next]_vars
    PROVE  PayInv'
<1> DEFINE Typed == TypeOK' /\ Owned' /\ TasksAtWork'
<1>0. /\ license \in [Licenses -> Row] /\ task \in [Handlers -> Task]
      /\ account \subseteq Customers /\ unissued \subseteq Licenses
      /\ raced \subseteq Customers /\ doubled \subseteq Customers
      /\ \A l \in Licenses : license[l] \in Row
      /\ \A h \in Handlers : task[h] \in Task /\ AtWork(task[h])
  BY TypeParts DEF PayInv, TasksAtWork
<1> USE DEF PayInv
<1>1. ASSUME NEW h \in Handlers, NEW event \in {"provision", "suspend", "enable"},
             NEW c \in Customers, Receive(h, event, c)
      PROVE  Typed
  <2> DEFINE new == [at |-> "resolving", event |-> event, customer |-> c, license |-> None]
  <2>1. new \in Task /\ AtWork(new)'
    BY PaymentAssumption DEF Task, AtWork
  <2>2. task' = [task EXCEPT ![h] = new] /\ task'[h] = new
    BY <1>0, <1>1 DEF Receive
  <2>3. task' \in [Handlers -> Task] /\ TasksAtWork'
    BY <1>1, <2>1, <2>2, HandlerTyped DEF Receive
  <2> QED BY <1>0, <1>1, <2>3, TypePartsNext DEF Receive, Owned
\* A handler that goes on to a place where it holds no license.
<1>2. ASSUME NEW h \in Handlers, task[h].at # "idle",
             NEW at \in {"creatingUser", "checking", "inserting", "suspending", "enabling"},
             Goto(h, at), UNCHANGED license
      PROVE  task' \in [Handlers -> Task] /\ TasksAtWork'
  <2>1. task'[h] \in Task
    BY <1>0, <1>2, GotoEffect DEF Task
  <2>2. AtWork(task[h])'
    BY <1>0, <1>2, GotoEffect DEF AtWork
  <2> QED BY <1>2, <2>1, <2>2, GotoEffect, HandlerTyped
\* A handler that ends.
<1>3. ASSUME NEW h \in Handlers, Done(h),
             \A l \in Licenses : license[l].status # "none" => license'[l].status # "none"
      PROVE  task' \in [Handlers -> Task] /\ TasksAtWork'
  BY <1>3, DoneEffect, IdleTask, HandlerTyped DEF AtWork
<1>4. ASSUME NEW h \in Handlers, UserFound(h) \/ UserNotFound(h) \/ UserCreated(h)
      PROVE  Typed
  <2>1. task' \in [Handlers -> Task] /\ TasksAtWork'
    <3>1. CASE UserFound(h)
      <4>1. PICK at \in {"checking", "suspending", "enabling"} : Goto(h, at)
        BY <1>0, <3>1 DEF UserFound, AtWork, Task
      <4> QED BY <1>2, <3>1, <4>1 DEF UserFound
    <3>2. CASE UserNotFound(h)
      BY <1>2, <1>3, <3>2 DEF UserNotFound
    <3>3. CASE UserCreated(h)
      BY <1>2, <1>3, <3>3 DEF UserCreated
    <3> QED BY <1>4, <3>1, <3>2, <3>3
  <2>2. account' \subseteq Customers
    BY <1>0, <1>4 DEF UserFound, UserNotFound, UserCreated, AtWork
  <2>3. UNCHANGED <<license, raced, doubled, unissued>>
    BY <1>4 DEF UserFound, UserNotFound, UserCreated
  <2> QED BY <1>0, <2>1, <2>2, <2>3, TypePartsNext DEF Owned
<1>5. ASSUME NEW h \in Handlers, CheckActive(h) \/ CheckUnread(h)
      PROVE  Typed
  <2>1. task' \in [Handlers -> Task] /\ TasksAtWork'
    BY <1>2, <1>3, <1>5 DEF CheckActive, CheckUnread
  <2>2. raced' \subseteq Customers
    BY <1>0, <1>5 DEF CheckActive, CheckUnread, AtWork
  <2>3. UNCHANGED <<account, license, doubled, unissued>>
    BY <1>5 DEF CheckActive, CheckUnread
  <2> QED BY <1>0, <2>1, <2>2, <2>3, TypePartsNext DEF Owned
<1>6. ASSUME NEW h \in Handlers, NEW l \in Licenses, Inserted(h, l)
      PROVE  Typed
  <2> DEFINE new == [task[h] EXCEPT !.at = "keying", !.license = l]
             row == [status |-> "active", owner |-> task[h].customer, key |-> FALSE]
  <2>1. task' = [task EXCEPT ![h] = new] /\ new \in Task
    BY <1>0, <1>6 DEF Inserted, Task
  <2>2. new.at = "keying" /\ new.license = l /\ new.customer = task[h].customer
        /\ new.event = task[h].event
    BY <1>0 DEF Task
  <2>3. license' = [license EXCEPT ![l] = row] /\ row \in Row /\ row.owner \in Customers
    BY <1>0, <1>6 DEF Inserted, Row, AtWork
  <2>4. license' \in [Licenses -> Row] /\ license'[l] = row /\ row.status = "active"
    BY <1>0, <2>3
  <2>5. Owned'
    BY <1>0, <2>3, <2>4 DEF Owned
  <2>6. task'[h] = new
    BY <1>0, <2>1
  <2>7. AtWork(task[h])'
    BY <1>0, <1>6, <2>2, <2>4, <2>6 DEF AtWork, Inserted
  <2>8. \A m \in Licenses : license[m].status # "none" => license'[m].status # "none"
    BY <1>0, <2>3, <2>4
  <2> HIDE DEF new
  <2>9. task' \in [Handlers -> Task] /\ TasksAtWork'
    BY <1>6, <2>1, <2>6, <2>7, <2>8, HandlerTyped
  <2> QED BY <1>0, <1>6, <2>4, <2>5, <2>9, TypePartsNext DEF Inserted
<1>7. ASSUME NEW h \in Handlers, Suspended(h)
      PROVE  Typed
  <2> DEFINE gone == With("active", task[h].customer)
             f == [l \in Licenses |->
                     IF l \in gone THEN [license[l] EXCEPT !.status = "suspended", !.key = FALSE]
                     ELSE license[l]]
  <2>1. license' = f
    BY <1>7 DEF Suspended
  <2>2. ASSUME NEW l \in Licenses
        PROVE  /\ f[l] \in Row /\ f[l].owner = license[l].owner
               /\ f[l].status # "none" <=> license[l].status # "none"
    <3>1. CASE l \in gone
      BY <1>0, <3>1 DEF Row, With
    <3>2. CASE l \notin gone
      BY <1>0, <3>2
    <3> QED BY <3>1, <3>2
  <2>3. f \in [Licenses -> Row]
    BY <2>2
  <2> HIDE DEF f
  <2>4. Owned'
    BY <2>1, <2>2, <2>3, RowsTyped
  <2>5. task' \in [Handlers -> Task] /\ TasksAtWork'
    BY <1>3, <1>7, <2>1, <2>2 DEF Suspended
  <2>6. /\ raced' \subseteq raced /\ doubled' \subseteq doubled
        /\ unissued' \subseteq unissued /\ UNCHANGED account
    <3>1. Settled(task[h].customer) /\ LeftKeyless({}) /\ UNCHANGED account
      BY <1>7 DEF Suspended
    <3>2. raced' \subseteq raced /\ doubled' \subseteq doubled
      BY <3>1 DEF Settled
    <3> QED BY <3>1, <3>2, NothingLeftType
  <2> QED BY <1>0, <2>1, <2>3, <2>4, <2>5, <2>6, TypePartsNext
<1>8. ASSUME NEW h \in Handlers, NEW L \in SUBSET Licenses, NEW first \in Licenses,
             Enabled(h, L, first)
      PROVE  Typed
  <2> DEFINE f == [l \in Licenses |->
                     IF l \in L THEN [license[l] EXCEPT !.status = "active"] ELSE license[l]]
             new == [task[h] EXCEPT !.at = "keying", !.license = first]
  <2>1. license' = f
    BY <1>8 DEF Enabled
  <2>2. ASSUME NEW l \in Licenses
        PROVE  /\ f[l] \in Row /\ f[l].owner = license[l].owner
               /\ f[l].status # "none" <=> license[l].status # "none"
    <3>1. CASE l \in L
      BY <1>0, <1>8, <3>1 DEF Row, With, Enabled
    <3>2. CASE l \notin L
      BY <1>0, <3>2
    <3> QED BY <3>1, <3>2
  <2>3. f \in [Licenses -> Row] /\ f[first].status # "none"
    <3>1. first \in L /\ license[first].status = "suspended"
      BY <1>8 DEF Enabled, With
    <3> QED BY <2>2, <3>1
  <2> HIDE DEF f
  <2>4. Owned'
    BY <2>1, <2>2, <2>3, RowsTyped
  <2>5. task' = [task EXCEPT ![h] = new] /\ new \in Task
    BY <1>0, <1>8 DEF Enabled, Task
  <2>6. new.at = "keying" /\ new.license = first /\ new.customer = task[h].customer
        /\ new.event = task[h].event
    BY <1>0 DEF Task
  <2>7. task'[h] = new
    BY <1>0, <2>5
  <2>8. AtWork(task[h])'
    BY <1>0, <1>8, <2>1, <2>3, <2>6, <2>7 DEF AtWork, Enabled
  <2> HIDE DEF new
  <2>9. task' \in [Handlers -> Task] /\ TasksAtWork'
    BY <2>1, <2>2, <2>5, <2>7, <2>8, HandlerTyped
  <2>10. /\ doubled' \subseteq Customers /\ unissued' \subseteq Licenses
         /\ UNCHANGED <<account, raced>>
    BY <1>0, <1>8, LeftKeylessType DEF Enabled, AtWork
  <2> QED BY <1>0, <2>1, <2>3, <2>4, <2>9, <2>10, TypePartsNext
\* One row is given a key or a status.
<1>9. ASSUME NEW l \in Licenses, NEW status \in Given, NEW key \in BOOLEAN,
             license[l].status # "none",
             license' = [license EXCEPT ![l] = [license[l] EXCEPT !.key = key, !.status = status]]
      PROVE  /\ license' \in [Licenses -> Row] /\ Owned' /\ (task' = task => TasksAtWork')
             /\ \A m \in Licenses : license[m].status # "none" => license'[m].status # "none"
  <2> DEFINE row == [license[l] EXCEPT !.key = key, !.status = status]
             f == [license EXCEPT ![l] = row]
  <2>1. row \in Row /\ row.owner = license[l].owner /\ row.status # "none"
    BY <1>0 DEF Row, Given
  <2> HIDE DEF row
  <2>2. f \in [Licenses -> Row]
    BY <1>0, <2>1
  <2>3. \A m \in Licenses : f[m].owner = license[m].owner
                            /\ (f[m].status # "none" <=> license[m].status # "none")
    BY <1>0, <1>9, <2>1
  <2>4. license' = f
    BY <1>9 DEF row
  <2> HIDE DEF f
  <2> QED BY <2>2, <2>3, <2>4, RowsTyped
<1>10. ASSUME NEW l \in Licenses, NEW status \in Given, license[l].status # "none",
              IssueKey(l, status)
       PROVE  /\ license' \in [Licenses -> Row] /\ Owned' /\ (task' = task => TasksAtWork')
              /\ \A m \in Licenses : license[m].status # "none" => license'[m].status # "none"
              /\ raced' = raced /\ doubled' \subseteq Customers
              /\ unissued' \subseteq Licenses
  <2>1. license' = [license EXCEPT ![l] = [license[l] EXCEPT !.key = TRUE, !.status = status]]
    BY <1>10 DEF IssueKey
  <2>2. raced' = raced /\ doubled' \subseteq Customers /\ unissued' \subseteq Licenses
    BY <1>0, <1>10, LeftKeylessType DEF IssueKey, DoubledBy, Owned
  <2> QED BY <1>9, <1>10, <2>1, <2>2
<1>11. ASSUME NEW h \in Handlers, NEW status \in Given, KeyIssued(h, status)
       PROVE  Typed
  <2>1. task[h].license \in Licenses /\ license[task[h].license].status # "none"
    BY <1>0, <1>11 DEF KeyIssued, AtWork
  <2>2. IssueKey(task[h].license, status) /\ Done(h) /\ account' = account
    BY <1>11 DEF KeyIssued
  <2> QED BY <1>0, <1>3, <1>10, <2>1, <2>2, TypePartsNext
<1>12. ASSUME NEW h \in Handlers, Abandon(h)
       PROVE  Typed
  <2>1. task' \in [Handlers -> Task] /\ TasksAtWork'
    BY <1>3, <1>12 DEF Abandon
  <2>2. unissued' \subseteq Licenses /\ UNCHANGED <<account, license, raced, doubled>>
    BY <1>0, <1>12, LeftKeylessType DEF Abandon
  <2> QED BY <1>0, <2>1, <2>2, TypePartsNext DEF Owned
<1>13. ASSUME NEW l \in Licenses, NEW status \in Given,
              KeyIssuedByHand(l, status) \/ Patched(l, status) \/ KeyRevoked(l)
       PROVE  Typed
  <2>1. CASE KeyIssuedByHand(l, status)
    BY <1>0, <1>10, <2>1, TypePartsNext DEF KeyIssuedByHand
  <2>2. CASE Patched(l, status)
    <3>1. /\ license' = [license EXCEPT ![l] =
                           [license[l] EXCEPT !.key = license[l].key, !.status = status]]
          /\ license[l].status # "none" /\ license[l].key \in BOOLEAN
      BY <1>0, <2>2 DEF Patched, Row
    <3>2. doubled' \subseteq Customers /\ unissued' \subseteq Licenses
          /\ UNCHANGED <<account, task, raced>>
      BY <1>0, <2>2, LeftKeylessType DEF Patched, DoubledBy, Owned
    <3> QED BY <1>0, <1>9, <3>1, <3>2, TypePartsNext
  <2>3. CASE KeyRevoked(l)
    <3>1. /\ license' = [license EXCEPT ![l] =
                           [license[l] EXCEPT !.key = FALSE, !.status = "suspended"]]
          /\ license[l].status # "none" /\ UNCHANGED <<account, task, raced, doubled>>
          /\ LeftKeyless({})
      BY <1>0, <2>3 DEF KeyRevoked
    <3>2. "suspended" \in Given /\ FALSE \in BOOLEAN
      BY DEF Given
    <3>3. unissued' \subseteq unissued
      BY <3>1, NothingLeftType
    <3> QED BY <1>0, <1>9, <3>1, <3>2, <3>3, TypePartsNext
  <2> QED BY <1>13, <2>1, <2>2, <2>3
<1>14. ASSUME Crash PROVE Typed
  <2>1. task' \in [Handlers -> Task] /\ TasksAtWork'
    BY <1>14, IdleTask DEF Crash, TasksAtWork, AtWork
  <2>2. unissued' \subseteq Licenses /\ UNCHANGED <<account, license, raced, doubled>>
    BY <1>0, <1>14, LeftKeylessType DEF Crash
  <2> QED BY <1>0, <2>1, <2>2, TypePartsNext DEF Owned
<1>15. ASSUME UNCHANGED vars PROVE Typed
  BY <1>0, <1>15, TypePartsNext DEF vars, Owned, TasksAtWork, AtWork
<1>16. ASSUME NEW l \in Licenses, KeyRevoked(l) PROVE Typed
  BY <1>13, <1>16 DEF Given
<1> HIDE DEF PayInv
<1> QED BY <1>1, <1>4, <1>5, <1>6, <1>7, <1>8, <1>11, <1>12, <1>13, <1>14, <1>15, <1>16
        DEF Next, PayInv

LEMMA PayInitially == Init => PayInv
<1> SUFFICES ASSUME Init PROVE PayInv
  OBVIOUS
<1>1. NoLicense \in Row /\ NoLicense.status = "none"
  BY DEF NoLicense, Row
<1>2. TypeOK
  BY <1>1, IdleTask, TypeParts DEF Init
<1>3. Owned /\ TasksAtWork
  BY <1>1, IdleTask DEF Init, Owned, TasksAtWork, AtWork
<1> QED BY <1>2, <1>3 DEF PayInv

(* Every variable keeps its type; in particular only rows of the table are  *)
(* left without a key, and no customer is unknown.                          *)
THEOREM PaymentsTypeCorrect == Spec => []TypeOK
<1>1. PayInv /\ [Next]_vars => PayInv'
  BY PayStep
<1>2. PayInv => TypeOK
  BY DEF PayInv
<1> QED BY PayInitially, <1>1, <1>2, PTL DEF Spec

-----------------------------------------------------------------------------
(* One active license per customer.                                        *)

\* A license is active or one is being inserted, never both nor two.
OneAt(c) ==
    /\ \A l, m \in With("active", c) : l = m
    /\ \A g, h \in Inserting(c) : g = h
    /\ With("active", c) = {} \/ Inserting(c) = {}

\* Those of whom two active licenses are accounted for.
Excused == raced \cup doubled

OneUnlessExcused == \A c \in Customers \ Excused : OneAt(c)

\* A step that makes no license active and lets no handler past the guard,
\* for those who are not excused.
LEMMA OneShrinks ==
    ASSUME NEW c, OneAt(c), With("active", c)' \subseteq With("active", c),
           Inserting(c)' \subseteq Inserting(c)
    PROVE  OneAt(c)'
BY DEF OneAt

LEMMA InsertingShrinks ==
    ASSUME PayInv, NEW h \in Handlers, Moves(h), NEW c,
           task'[h].at # "inserting" \/ task'[h].customer # c
    PROVE  Inserting(c)' \subseteq Inserting(c) \ {h}
BY DEF Inserting, Moves

\* A handler takes a step that is neither past the guard nor an insertion.
LEMMA MovesOn ==
    ASSUME PayInv, NEW h \in Handlers,
           \/ \E event \in {"provision", "suspend", "enable"}, c \in Customers :
                 Receive(h, event, c)
           \/ UserFound(h) \/ UserNotFound(h) \/ UserCreated(h)
           \/ CheckActive(h) /\ With("active", task[h].customer) # {}
           \/ Suspended(h) \/ Abandon(h)
           \/ \E status \in Given : KeyIssued(h, status)
           \/ \E L \in SUBSET Licenses, l \in Licenses : Enabled(h, L, l)
    PROVE  Moves(h) /\ task'[h].at # "inserting"
<1>1. CASE \E event \in {"provision", "suspend", "enable"}, c \in Customers :
              Receive(h, event, c)
  BY <1>1, TypeParts DEF Receive, Moves, PayInv
<1>2. CASE UserFound(h)
  <2>1. PICK at \in {"checking", "suspending", "enabling"} : Goto(h, at)
    BY <1>2 DEF UserFound, PayInv, TasksAtWork, AtWork
  <2> QED BY <2>1, GotoEffect
<1>3. CASE UserNotFound(h) \/ UserCreated(h)
  <2>1. Goto(h, "creatingUser") \/ Goto(h, "checking") \/ Done(h)
    BY <1>3 DEF UserNotFound, UserCreated
  <2>2. CASE Done(h)
    BY <2>2, DoneEffect, IdleTask
  <2>3. ASSUME NEW at \in {"creatingUser", "checking"}, Goto(h, at)
        PROVE  Moves(h) /\ task'[h].at # "inserting"
    BY <2>3, GotoEffect
  <2> QED BY <2>1, <2>2, <2>3
<1>4. CASE \/ CheckActive(h) /\ With("active", task[h].customer) # {}
           \/ Suspended(h) \/ Abandon(h)
           \/ \E status \in Given : KeyIssued(h, status)
  <2>1. Done(h)
    BY <1>4 DEF CheckActive, Suspended, Abandon, KeyIssued
  <2> QED BY <2>1, DoneEffect, IdleTask
<1>5. CASE \E L \in SUBSET Licenses, l \in Licenses : Enabled(h, L, l)
  <2>1. PICK L \in SUBSET Licenses, l \in Licenses : Enabled(h, L, l)
    BY <1>5
  <2>2. task' = [task EXCEPT ![h].at = "keying", ![h].license = l]
    BY <2>1 DEF Enabled
  <2>3. task'[h].at = "keying" /\ Moves(h)
    BY <2>2, TypeParts DEF Moves, PayInv, Task
  <2> QED BY <2>3
<1> QED BY <1>1, <1>2, <1>3, <1>4, <1>5

LEMMA OneStep ==
    ASSUME PayInv, OneUnlessExcused, [Next]_vars
    PROVE  OneUnlessExcused'
<1>0. /\ license \in [Licenses -> Row] /\ \A l \in Licenses : license[l] \in Row
      /\ task \in [Handlers -> Task]
      /\ \A h \in Handlers : AtWork(task[h])
  BY TypeParts DEF PayInv, TasksAtWork
<1>1. ASSUME NEW h \in Handlers,
             \/ \E event \in {"provision", "suspend", "enable"}, c \in Customers :
                   Receive(h, event, c)
             \/ UserFound(h) \/ UserNotFound(h) \/ UserCreated(h) \/ Abandon(h)
             \/ CheckActive(h) /\ With("active", task[h].customer) # {}
      PROVE  OneUnlessExcused'
  <2>1. license' = license /\ Excused' = Excused
    BY <1>1 DEF Excused, Receive, UserFound, UserNotFound, UserCreated, Abandon, CheckActive
  <2>2. Moves(h) /\ task'[h].at # "inserting"
    BY <1>1, MovesOn
  <2>3. ASSUME NEW c PROVE Inserting(c)' \subseteq Inserting(c)
    BY <2>2, InsertingShrinks
  <2>4. ASSUME NEW c PROVE With("active", c)' = With("active", c)
    BY <2>1 DEF With
  <2> QED BY <2>1, <2>3, <2>4, OneShrinks DEF OneUnlessExcused
<1>2. ASSUME NEW h \in Handlers,
             \/ CheckActive(h) /\ With("active", task[h].customer) = {}
             \/ CheckUnread(h)
      PROVE  OneUnlessExcused'
  <2>1. Goto(h, "inserting") /\ license' = license
    BY <1>2 DEF CheckActive, CheckUnread
  <2>2. Moves(h) /\ task'[h].customer = task[h].customer
    BY <2>1, GotoEffect
  <2>3. ASSUME NEW c PROVE With("active", c)' = With("active", c)
    BY <2>1 DEF With
  <2>4. ASSUME NEW c \in Customers \ Excused' PROVE OneAt(c)'
    <3>1. OneAt(c)
      BY <1>2, <2>4 DEF CheckActive, CheckUnread, OneUnlessExcused, Excused
    <3>2. CASE c # task[h].customer
      BY <2>2, <2>3, <3>1, <3>2, InsertingShrinks, OneShrinks
    <3>3. CASE c = task[h].customer
      <4>1. With("active", c) = {} /\ Inserting(c) = {}
        BY <1>2, <2>4, <3>3 DEF CheckActive, CheckUnread, Excused
      <4>2. Inserting(c)' \subseteq {h}
        BY <2>2, <4>1 DEF Inserting, Moves
      <4> QED BY <2>3, <4>1, <4>2 DEF OneAt
    <3> QED BY <3>2, <3>3
  <2> QED BY <2>4 DEF OneUnlessExcused
<1>3. ASSUME NEW h \in Handlers, NEW l \in Licenses, Inserted(h, l)
      PROVE  OneUnlessExcused'
  <2>1. Moves(h) /\ task'[h].at = "keying" /\ Excused' = Excused
    BY <1>0, <1>3 DEF Inserted, Moves, Task, Excused
  <2>2. license' = [license EXCEPT ![l] = [status |-> "active",
                                           owner |-> task[h].customer, key |-> FALSE]]
    BY <1>3 DEF Inserted
  <2>3. ASSUME NEW c \in Customers \ Excused PROVE OneAt(c)'
    <3>1. OneAt(c) /\ Inserting(c)' \subseteq Inserting(c) \ {h}
      BY <2>1, <2>3, InsertingShrinks DEF OneUnlessExcused
    <3>2. CASE c # task[h].customer
      <4>1. With("active", c)' \subseteq With("active", c)
        BY <1>0, <2>2, <3>2 DEF With
      <4> QED BY <3>1, <4>1, OneShrinks
    <3>3. CASE c = task[h].customer
      <4>1. h \in Inserting(c)
        BY <1>3, <3>3 DEF Inserted, Inserting
      <4>2. With("active", c) = {} /\ Inserting(c)' = {}
        BY <3>1, <4>1 DEF OneAt
      <4>3. With("active", c)' \subseteq {l}
        BY <1>0, <2>2, <4>2 DEF With
      <4> QED BY <4>2, <4>3 DEF OneAt
    <3> QED BY <3>2, <3>3
  <2> QED BY <2>1, <2>3 DEF OneUnlessExcused
<1>4. ASSUME NEW h \in Handlers, Suspended(h) PROVE OneUnlessExcused'
  <2>1. Moves(h) /\ task'[h].at # "inserting"
    BY <1>4, MovesOn
  <2>2. ASSUME NEW c PROVE With("active", c)' \subseteq With("active", c)
    <3>1. ASSUME NEW l \in Licenses, l \in With("active", task[h].customer)
          PROVE  license'[l].status = "suspended"
      BY <1>0, <1>4, <3>1 DEF Suspended, Row
    <3>2. ASSUME NEW l \in Licenses, l \notin With("active", task[h].customer)
          PROVE  license'[l] = license[l]
      BY <1>4, <3>2 DEF Suspended
    <3> QED BY <3>1, <3>2 DEF With
  <2>3. ASSUME NEW c \in Customers \ Excused' PROVE OneAt(c)'
    <3>1. Inserting(c)' \subseteq Inserting(c)
      BY <2>1, InsertingShrinks
    <3>2. CASE c \in Excused
      <4>1. c = task[h].customer /\ Inserting(c) = {}
        BY <1>4, <2>3, <3>2 DEF Suspended, Settled, Excused
      <4>2. With("active", c)' = {}
        <5>1. ASSUME NEW l \in Licenses PROVE l \notin With("active", c)'
          <6>1. CASE l \in With("active", c)
            <7>1. license'[l].status = "suspended"
              BY <1>0, <1>4, <4>1, <6>1 DEF Suspended, Row
            <7> QED BY <7>1 DEF With
          <6>2. CASE l \notin With("active", c)
            BY <2>2, <6>2
          <6> QED BY <6>1, <6>2
        <5> QED BY <5>1 DEF With
      <4> QED BY <3>1, <4>1, <4>2 DEF OneAt
    <3>3. CASE c \notin Excused
      BY <2>2, <3>1, <3>3, <2>3, OneShrinks DEF OneUnlessExcused
    <3> QED BY <3>2, <3>3
  <2> QED BY <2>3 DEF OneUnlessExcused
<1>5. ASSUME NEW h \in Handlers, NEW L \in SUBSET Licenses, NEW first \in Licenses,
             Enabled(h, L, first)
      PROVE  OneUnlessExcused'
  <2>1. Moves(h) /\ task'[h].at # "inserting"
    BY <1>5, MovesOn
  <2>2. \A l \in Licenses : license'[l].owner = license[l].owner
                            /\ (l \notin L => license'[l] = license[l])
    BY <1>0, <1>5 DEF Enabled, Row
  <2>3. \A l \in L : license[l].owner = task[h].customer
    BY <1>5 DEF Enabled, With
  <2>4. ASSUME NEW c \in Customers \ Excused' PROVE OneAt(c)'
    <3>1. OneAt(c) /\ Inserting(c)' \subseteq Inserting(c)
      BY <1>5, <2>1, <2>4, InsertingShrinks DEF OneUnlessExcused, Enabled, Excused
    <3>2. CASE c # task[h].customer
      <4>1. With("active", c)' \subseteq With("active", c)
        BY <2>2, <2>3, <3>2 DEF With
      <4> QED BY <3>1, <4>1, OneShrinks
    <3>3. CASE c = task[h].customer
      <4>1. Cardinality(L) = 1 /\ With("active", c) = {} /\ Inserting(c) = {}
        BY <1>5, <2>4, <3>3 DEF Enabled, Excused
      <4>2. IsFiniteSet(L)
        BY PaymentAssumption, FS_Subset
      <4>3. PICK l : L = {l}
        BY <4>1, <4>2, FS_Singleton
      <4>4. With("active", c)' \subseteq {l}
        BY <2>2, <4>1, <4>3 DEF With
      <4> QED BY <3>1, <4>1, <4>4 DEF OneAt
    <3> QED BY <3>2, <3>3
  <2> QED BY <2>4 DEF OneUnlessExcused
\* A license is given a status by itself.
<1>6. ASSUME NEW l \in Licenses, NEW status, DoubledBy(l, status),
             \A m \in Licenses : license'[m].owner = license[m].owner
                                 /\ (m # l => license'[m].status = license[m].status),
             license'[l].status = status,
             \A c : Inserting(c)' \subseteq Inserting(c)
      PROVE  OneUnlessExcused'
  <2>1. ASSUME NEW c \in Customers \ Excused' PROVE OneAt(c)'
    <3>1. OneAt(c)
      BY <1>6, <2>1 DEF OneUnlessExcused, DoubledBy, Excused
    <3>2. CASE status = "active" /\ license[l].status # "active" /\ c = license[l].owner
      <4>1. With("active", c) = {} /\ Inserting(c) = {}
        BY <1>6, <2>1, <3>2 DEF DoubledBy, Meets, Excused
      <4>2. With("active", c)' \subseteq {l}
        BY <1>6, <4>1 DEF With
      <4> QED BY <1>6, <4>1, <4>2 DEF OneAt
    <3>3. CASE ~(status = "active" /\ license[l].status # "active" /\ c = license[l].owner)
      <4>1. With("active", c)' \subseteq With("active", c)
        BY <1>6, <3>3 DEF With
      <4> QED BY <1>6, <3>1, <4>1, OneShrinks
    <3> QED BY <3>2, <3>3
  <2> QED BY <2>1 DEF OneUnlessExcused
<1>7. ASSUME NEW l \in Licenses, NEW status, NEW key,
             license' = [license EXCEPT ![l] = [license[l] EXCEPT !.key = key, !.status = status]]
      PROVE  /\ \A m \in Licenses : license'[m].owner = license[m].owner
                                    /\ (m # l => license'[m].status = license[m].status)
             /\ license'[l].status = status
  BY <1>0, <1>7 DEF Row
<1>8. ASSUME NEW h \in Handlers, NEW status \in Given, KeyIssued(h, status)
      PROVE  OneUnlessExcused'
  <2>1. PICK l \in Licenses : IssueKey(l, status)
    BY <1>0, <1>8 DEF KeyIssued, AtWork
  <2>2. Moves(h) /\ task'[h].at # "inserting"
    BY <1>8, MovesOn
  <2>3. \A c : Inserting(c)' \subseteq Inserting(c)
    BY <2>2, InsertingShrinks
  <2>4. DoubledBy(l, status)
        /\ license' = [license EXCEPT ![l] = [license[l] EXCEPT !.key = TRUE, !.status = status]]
    BY <2>1 DEF IssueKey
  <2> QED BY <1>6, <1>7, <2>3, <2>4
<1>9. ASSUME NEW l \in Licenses, NEW status \in Given,
             KeyIssuedByHand(l, status) \/ Patched(l, status)
      PROVE  OneUnlessExcused'
  <2>1. task' = task /\ DoubledBy(l, status)
    BY <1>9 DEF KeyIssuedByHand, Patched, IssueKey
  <2>2. PICK key : license' = [license EXCEPT ![l] =
                                 [license[l] EXCEPT !.key = key, !.status = status]]
    <3>1. license[l] \in Row
      BY <1>0
    <3>2. CASE KeyIssuedByHand(l, status)
      BY <3>2 DEF KeyIssuedByHand, IssueKey
    <3>3. CASE Patched(l, status)
      <4>1. [license[l] EXCEPT !.status = status]
              = [license[l] EXCEPT !.key = license[l].key, !.status = status]
        BY <3>1 DEF Row
      <4> QED BY <3>3, <4>1 DEF Patched
    <3> QED BY <1>9, <3>2, <3>3
  <2>3. \A c : Inserting(c)' \subseteq Inserting(c)
    BY <2>1 DEF Inserting
  <2> QED BY <1>6, <1>7, <2>1, <2>2, <2>3
<1>10. ASSUME NEW l \in Licenses, KeyRevoked(l) PROVE OneUnlessExcused'
  <2>1. Excused' = Excused /\ task' = task /\ license'[l].status = "suspended"
        /\ \A m \in Licenses \ {l} : license'[m] = license[m]
    BY <1>0, <1>10 DEF KeyRevoked, Row, Excused
  <2>2. ASSUME NEW c PROVE With("active", c)' \subseteq With("active", c)
                           /\ Inserting(c)' \subseteq Inserting(c)
    BY <2>1 DEF With, Inserting
  <2> QED BY <2>1, <2>2, OneShrinks DEF OneUnlessExcused
<1>11. ASSUME Crash \/ UNCHANGED vars PROVE OneUnlessExcused'
  <2>1. Excused' = Excused /\ license' = license
    BY <1>11 DEF Crash, vars, Excused
  <2>2. ASSUME NEW c PROVE With("active", c)' \subseteq With("active", c)
    BY <2>1 DEF With
  <2>3. ASSUME NEW c PROVE Inserting(c)' \subseteq Inserting(c)
    BY <1>11, IdleTask DEF Crash, vars, Inserting
  <2> QED BY <2>1, <2>2, <2>3, OneShrinks DEF OneUnlessExcused
<1> QED BY <1>1, <1>2, <1>3, <1>4, <1>5, <1>8, <1>9, <1>10, <1>11 DEF Next

(* A customer has two active licenses, whatever is delivered in whatever    *)
(* order and done by hand, only in the ways that DuplicatesAccounted names: *)
(* handlers past the guard together, a guard not read, or a license that    *)
(* became active again beside another, which no guard looks for.            *)
THEOREM TwoActiveExplained == Spec => []DuplicatesAccounted
<1>1. Init => OneUnlessExcused
  BY IdleTask, PayInitially, TypeParts
     DEF Init, OneUnlessExcused, Excused, OneAt, With, Inserting, NoLicense
<1>2. ASSUME PayInv, OneUnlessExcused PROVE DuplicatesAccounted
  <2>1. ASSUME NEW c \in Customers \ Excused PROVE Cardinality(With("active", c)) \in {0, 1}
    <3>1. \A l, m \in With("active", c) : l = m
      BY <1>2, <2>1 DEF OneUnlessExcused, OneAt
    <3>2. CASE With("active", c) = {}
      BY <3>2, FS_EmptySet
    <3>3. CASE With("active", c) # {}
      <4>1. PICK l : With("active", c) = {l}
        BY <3>1, <3>3
      <4> QED BY <4>1, FS_Singleton
    <3> QED BY <3>2, <3>3
  <2> QED BY <2>1 DEF DuplicatesAccounted, Excused
<1> QED BY <1>1, <1>2, PayInitially, PayStep, OneStep, PTL DEF Spec

-----------------------------------------------------------------------------
(* Keys.                                                                   *)

\* A step that leaves L without a key: whatever is active without one either
\* was, and its handlers go on, or gets one, or is of L.
LEMMA KeylessLeft ==
    ASSUME KeylessAccounted, NEW L, LeftKeyless(L),
           \A l \in Licenses \ L : license'[l].status = "active" /\ ~license'[l].key =>
              \/ Keying(l)' # {}
              \/ license[l].status = "active" /\ ~license[l].key /\ Keying(l) \subseteq Keying(l)'
    PROVE  KeylessAccounted'
BY DEF KeylessAccounted, LeftKeyless

LEMMA KeyingKept ==
    ASSUME NEW h \in Handlers, Moves(h), NEW l, task[h].at # "keying" \/ task[h].license # l
    PROVE  Keying(l) \subseteq Keying(l)'
BY DEF Keying, Moves

LEMMA KeylessStep ==
    ASSUME PayInv, KeylessAccounted, [Next]_vars
    PROVE  KeylessAccounted'
<1>0. /\ license \in [Licenses -> Row] /\ \A l \in Licenses : license[l] \in Row
      /\ task \in [Handlers -> Task]
      /\ \A h \in Handlers : AtWork(task[h])
  BY TypeParts DEF PayInv, TasksAtWork
<1>1. ASSUME NEW h \in Handlers,
             \/ \E event \in {"provision", "suspend", "enable"}, c \in Customers :
                   Receive(h, event, c)
             \/ UserFound(h) \/ UserNotFound(h) \/ UserCreated(h)
             \/ CheckActive(h) \/ CheckUnread(h)
      PROVE  KeylessAccounted'
  <2>1. license' = license /\ unissued' = unissued /\ task[h].at # "keying"
    BY <1>1, IdleTask
       DEF Receive, UserFound, UserNotFound, UserCreated, CheckActive, CheckUnread
  <2>2. Moves(h)
    <3>1. CASE Goto(h, "inserting")
      BY <3>1, GotoEffect
    <3>2. CASE ~Goto(h, "inserting")
      BY <1>1, <3>2, MovesOn DEF CheckActive, CheckUnread
    <3> QED BY <3>1, <3>2
  <2> QED BY <2>1, <2>2, KeyingKept DEF KeylessAccounted
<1>2. ASSUME NEW h \in Handlers, Abandon(h) PROVE KeylessAccounted'
  <2> DEFINE L == {l \in Licenses : h \in Keying(l)}
  <2>1. Moves(h) /\ license' = license /\ LeftKeyless(L)
    BY <1>2, MovesOn DEF Abandon
  <2>2. ASSUME NEW l \in Licenses \ L PROVE Keying(l) \subseteq Keying(l)'
    BY <2>1, <2>2, KeyingKept DEF Keying
  <2> HIDE DEF L
  <2> QED BY <2>1, <2>2, KeylessLeft
<1>3. ASSUME NEW h \in Handlers, NEW l \in Licenses, Inserted(h, l)
      PROVE  KeylessAccounted'
  <2>1. /\ Moves(h) /\ task[h].at = "inserting" /\ unissued' = unissued
        /\ task'[h].at = "keying" /\ task'[h].license = l
        /\ \A m \in Licenses \ {l} : license'[m] = license[m]
    BY <1>0, <1>3 DEF Inserted, Moves, Task
  <2>2. Keying(l)' # {}
    BY <2>1 DEF Keying
  <2>3. ASSUME NEW m PROVE Keying(m) \subseteq Keying(m)'
    BY <2>1, KeyingKept
  <2> QED BY <2>1, <2>2, <2>3 DEF KeylessAccounted
<1>4. ASSUME NEW h \in Handlers, Suspended(h) PROVE KeylessAccounted'
  <2>1. Moves(h) /\ task[h].at = "suspending"
    BY <1>4, MovesOn DEF Suspended
  <2>2. ASSUME NEW l \in Licenses, l \in With("active", task[h].customer)
        PROVE  license'[l].status = "suspended"
    BY <1>0, <1>4, <2>2 DEF Suspended, Row
  <2>3. ASSUME NEW l \in Licenses, l \notin With("active", task[h].customer)
        PROVE  license'[l] = license[l]
    BY <1>4, <2>3 DEF Suspended
  <2>4. ASSUME NEW l PROVE Keying(l) \subseteq Keying(l)'
    BY <2>1, KeyingKept
  <2>5. LeftKeyless({})
    BY <1>4 DEF Suspended
  <2> QED BY <2>2, <2>3, <2>4, <2>5, KeylessLeft
<1>5. ASSUME NEW h \in Handlers, NEW L \in SUBSET Licenses, NEW first \in Licenses,
             Enabled(h, L, first)
      PROVE  KeylessAccounted'
  <2>1. /\ Moves(h) /\ task[h].at = "enabling" /\ LeftKeyless(L \ {first})
        /\ \A l \in Licenses \ L : license'[l] = license[l]
    BY <1>5, MovesOn DEF Enabled
  <2>2. task'[h].at = "keying" /\ task'[h].license = first
    BY <1>0, <1>5 DEF Enabled, Task
  <2>3. Keying(first)' # {}
    BY <2>2 DEF Keying
  <2>4. ASSUME NEW l PROVE Keying(l) \subseteq Keying(l)'
    BY <2>1, KeyingKept
  <2> QED BY <2>1, <2>3, <2>4, KeylessLeft
\* A key is issued; whoever was to issue that of another license still is.
<1>6. ASSUME NEW l \in Licenses, NEW status, IssueKey(l, status),
             \A m \in Licenses \ {l} : Keying(m) \subseteq Keying(m)'
      PROVE  KeylessAccounted'
  <2>1. license'[l].key /\ LeftKeyless({})
        /\ \A m \in Licenses \ {l} : license'[m] = license[m]
    BY <1>0, <1>6 DEF IssueKey, Row
  <2> QED BY <1>6, <2>1, KeylessLeft
<1>7. ASSUME NEW h \in Handlers, NEW status \in Given, KeyIssued(h, status)
      PROVE  KeylessAccounted'
  <2>1. PICK l \in Licenses : IssueKey(l, status) /\ task[h].license = l
    BY <1>0, <1>7 DEF KeyIssued, AtWork
  <2>2. Moves(h)
    BY <1>7, MovesOn
  <2>3. \A m \in Licenses \ {l} : Keying(m) \subseteq Keying(m)'
    BY <2>1, <2>2, KeyingKept
  <2> QED BY <1>6, <2>1, <2>3
<1>8. ASSUME NEW l \in Licenses, NEW status \in Given, KeyIssuedByHand(l, status)
      PROVE  KeylessAccounted'
  <2>1. \A m : Keying(m) \subseteq Keying(m)'
    BY <1>8 DEF KeyIssuedByHand, Keying
  <2> QED BY <1>6, <1>8, <2>1 DEF KeyIssuedByHand
<1>9. ASSUME NEW l \in Licenses, NEW status \in Given, Patched(l, status) \/ KeyRevoked(l)
      PROVE  KeylessAccounted'
  <2>1. (\A m \in Licenses \ {l} : license'[m] = license[m]) /\ task' = task
    BY <1>0, <1>9 DEF Patched, KeyRevoked
  <2>2. ASSUME NEW m PROVE Keying(m)' = Keying(m)
    BY <2>1 DEF Keying
  <2>3. CASE Patched(l, status)
    <3>1. license'[l].key = license[l].key
      BY <1>0, <2>3 DEF Patched, Row
    <3>2. LeftKeyless(IF license[l].status # "active" THEN {l} ELSE {})
      BY <2>3 DEF Patched
    <3> QED BY <2>1, <2>2, <3>1, <3>2, KeylessLeft
  <2>4. CASE KeyRevoked(l)
    <3>1. license'[l].status = "suspended" /\ LeftKeyless({})
      BY <1>0, <2>4 DEF KeyRevoked, Row
    <3> QED BY <2>1, <2>2, <3>1, KeylessLeft
  <2> QED BY <1>9, <2>3, <2>4
<1>10. ASSUME NEW l \in Licenses, KeyRevoked(l) PROVE KeylessAccounted'
  BY <1>9, <1>10 DEF Given
<1>11. ASSUME Crash PROVE KeylessAccounted'
  <2> DEFINE L == {l \in Licenses : Keying(l) # {}}
  <2>1. license' = license /\ LeftKeyless(L)
    BY <1>11 DEF Crash
  <2>2. \A l \in Licenses \ L : Keying(l) \subseteq Keying(l)'
    OBVIOUS
  <2> HIDE DEF L
  <2> QED BY <2>1, <2>2, KeylessLeft
<1>12. ASSUME UNCHANGED vars PROVE KeylessAccounted'
  BY <1>12 DEF vars, KeylessAccounted, Keying
<1> QED BY <1>1, <1>2, <1>3, <1>4, <1>5, <1>7, <1>8, <1>9, <1>10, <1>11, <1>12 DEF Next

(* An active license has its key or a handler about to issue it, or was     *)
(* left without one in one of three ways: a handler failed or died before   *)
(* it issued the key, subscription.enable reactivated the license together  *)
(* with another, or an administrator made it active by hand after its key   *)
(* was cleared. No order of events, of hands and of failures leaves a       *)
(* paying customer without a key in a fourth way.                           *)
THEOREM PayingCustomersAreKeyed == Spec => []KeylessAccounted
<1>1. Init => KeylessAccounted
  BY DEF Init, KeylessAccounted, NoLicense
<1> QED BY <1>1, PayInitially, PayStep, KeylessStep, PTL DEF Spec
=============================================================================
