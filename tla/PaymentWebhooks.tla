-------------------------- MODULE PaymentWebhooks --------------------------
(***************************************************************************)
(* WebhookService: events of the payment provider that create, suspend and *)
(* reactivate licenses, beside the owner and the administrator, who issue  *)
(* and revoke keys and patch a license by hand.  The provider delivers an  *)
(* event when it likes, more than once, in any order and several at a time.*)
(* A handler awaits each request to the database; task[h] is what it       *)
(* awaits and has captured.                                                *)
(*                                                                         *)
(* External: the database, whose requests take effect or fail; who the     *)
(* email in an event belongs to; the mail server.  Expiry dates are left   *)
(* out, and with them invoice.update, which changes nothing else.  So are  *)
(* charges without a plan and charges of a subscription, which are skipped.*)
(***************************************************************************)
EXTENDS Naturals, FiniteSets

CONSTANTS
    Customers,  \* by email
    Licenses,   \* rows of the licenses table, before they are inserted
    Handlers,   \* bound: webhook handlers running at a time
    ReadsFail,  \* whether the query of the guard against duplicates may fail
    None

ASSUME PaymentAssumption ==
    /\ ReadsFail \in BOOLEAN
    /\ IsFiniteSet(Licenses)
    /\ None \notin Customers \cup Licenses

VARIABLES
    account,    \* customers with a user in auth
    license,
    task,
    raced,      \* auxiliary: customers for whom the guard against duplicates
                \* was passed twice at a time, or unread
    doubled,    \* auxiliary: customers of whom a license became active again,
                \* by the provider or by hand, beside another; both only until
                \* a suspension leaves the customer none
    unissued    \* auxiliary: active licenses that were left without a key

vars == <<account, license, task, raced, doubled, unissued>>

NoLicense == [status |-> "none", owner |-> None, key |-> FALSE]

Idle == [at |-> "idle", event |-> None, customer |-> None, license |-> None]

TypeOK ==
    /\ account \subseteq Customers
    /\ license \in [Licenses -> [status : {"none", "active", "suspended", "expired"},
                                 owner  : Customers \cup {None},
                                 key    : BOOLEAN]]
    /\ task \in [Handlers ->
          [at       : {"idle", "resolving", "creatingUser", "checking", "inserting",
                       "keying", "suspending", "enabling"},
           event    : {None, "provision", "suspend", "enable"},
           customer : Customers \cup {None},
           license  : Licenses \cup {None}]]
    /\ raced \subseteq Customers /\ doubled \subseteq Customers
    /\ unissued \subseteq Licenses

Init ==
    /\ account = {}
    /\ license = [l \in Licenses |-> NoLicense]
    /\ task = [h \in Handlers |-> Idle]
    /\ raced = {} /\ doubled = {} /\ unissued = {}

-----------------------------------------------------------------------------
With(status, c) ==
    {l \in Licenses : license[l].status = status /\ license[l].owner = c}

Goto(h, at) == task' = [task EXCEPT ![h].at = at]

\* Mutant: what the handler held is kept.
DoneKeeping(h) == task' = [task EXCEPT ![h].at = "done"]

Done(h) == task' = [task EXCEPT ![h] = Idle]

Inserting(c) == {h \in Handlers : task[h].at = "inserting" /\ task[h].customer = c}

Keying(l) == {h \in Handlers : task[h].at = "keying" /\ task[h].license = l}

\* The licenses of L are left without a key, those of them that are active and
\* have none.
LeftKeyless(L) ==
    unissued' = {l \in unissued \cup L : license'[l].status = "active" /\ ~license'[l].key}

-----------------------------------------------------------------------------
(* A delivery and the user it is for.  "provision" is charge.success or    *)
(* subscription.create, "suspend" subscription.disable or refund.processed.*)

Receive(h, event, c) ==
    /\ task[h] = Idle
    /\ task' = [task EXCEPT ![h] = [at |-> "resolving", event |-> event,
                                    customer |-> c, license |-> None]]
    /\ UNCHANGED <<account, license, raced, doubled, unissued>>

UserFound(h) ==
    /\ task[h].at = "resolving"
    /\ task[h].customer \in account
    /\ Goto(h, CASE task[h].event = "provision" -> "checking"
                 [] task[h].event = "suspend"   -> "suspending"
                 [] task[h].event = "enable"    -> "enabling")
    /\ UNCHANGED <<account, license, raced, doubled, unissued>>

\* No user, or no answer, which is taken for the same.
UserNotFound(h) ==
    /\ task[h].at = "resolving"
    /\ IF task[h].event = "provision" THEN Goto(h, "creatingUser") ELSE Done(h)
    /\ UNCHANGED <<account, license, raced, doubled, unissued>>

\* The user is there; the answer may still be lost.
UserCreated(h) ==
    /\ task[h].at = "creatingUser"
    /\ task[h].customer \notin account
    /\ account' = account \cup {task[h].customer}
    /\ Goto(h, "checking") \/ Done(h)
    /\ UNCHANGED <<license, raced, doubled, unissued>>

-----------------------------------------------------------------------------
(* Provisioning.                                                           *)

\* Mutant: the guard against a second license is dropped.
CheckActiveAlwaysPasses(h) ==
    /\ task[h].at = "checking"
    /\ Goto(h, "inserting")
    /\ raced' = IF Inserting(task[h].customer) = {} THEN raced
                ELSE raced \cup {task[h].customer}
    /\ UNCHANGED <<account, license, doubled, unissued>>

\* The guard: a customer with an active license is not given another.
CheckActive(h) ==
    /\ task[h].at = "checking"
    /\ IF With("active", task[h].customer) # {}
         THEN Done(h) /\ UNCHANGED raced
         ELSE /\ Goto(h, "inserting")
              /\ raced' = IF Inserting(task[h].customer) = {} THEN raced
                          ELSE raced \cup {task[h].customer}
    /\ UNCHANGED <<account, license, doubled, unissued>>

\* The error of the query is not looked at: no rows, no license.
CheckUnread(h) ==
    /\ ReadsFail
    /\ task[h].at = "checking"
    /\ Goto(h, "inserting")
    /\ raced' = raced \cup {task[h].customer}
    /\ UNCHANGED <<account, license, doubled, unissued>>

Inserted(h, l) ==
    /\ task[h].at = "inserting"
    /\ license[l].status = "none"
    /\ license' = [license EXCEPT ![l] = [status |-> "active",
                                          owner |-> task[h].customer, key |-> FALSE]]
    /\ task' = [task EXCEPT ![h].at = "keying", ![h].license = l]
    /\ UNCHANGED <<account, raced, doubled, unissued>>

-----------------------------------------------------------------------------
(* Suspension and reactivation.                                            *)

\* No license of c is active now.  If none is about to be, what gave it two is past.
Settled(c) ==
    LET past == IF Inserting(c) = {} THEN {c} ELSE {}
    IN  raced' = raced \ past /\ doubled' = doubled \ past

\* All active licenses of the customer, and their keys.
Suspended(h) ==
    /\ task[h].at = "suspending"
    /\ license' = [l \in Licenses |->
                     IF l \in With("active", task[h].customer)
                       THEN [license[l] EXCEPT !.status = "suspended", !.key = FALSE]
                       ELSE license[l]]
    /\ Settled(task[h].customer)
    /\ LeftKeyless({})
    /\ Done(h)
    /\ UNCHANGED account

\* Mutant: a reactivated license is not given a key.
EnabledKeyless(h, L, first) ==
    /\ task[h].at = "enabling"
    /\ L \subseteq With("suspended", task[h].customer)
    /\ first \in L
    /\ license' = [l \in Licenses |->
                     IF l \in L THEN [license[l] EXCEPT !.status = "active"]
                     ELSE license[l]]
    /\ Done(h)
    /\ doubled' = IF Cardinality(L) = 1 /\ With("active", task[h].customer) = {}
                       /\ Inserting(task[h].customer) = {}
                    THEN doubled ELSE doubled \cup {task[h].customer}
    /\ LeftKeyless(L \ {first})
    /\ UNCHANGED <<account, raced>>

\* The licenses of L, one or all, are active again; one is given a key.
Enabled(h, L, first) ==
    /\ task[h].at = "enabling"
    /\ L \subseteq With("suspended", task[h].customer)
    /\ Cardinality(L) = 1 \/ L = With("suspended", task[h].customer)
    /\ first \in L
    /\ license' = [l \in Licenses |->
                     IF l \in L THEN [license[l] EXCEPT !.status = "active"]
                     ELSE license[l]]
    /\ task' = [task EXCEPT ![h].at = "keying", ![h].license = first]
    /\ doubled' = IF Cardinality(L) = 1 /\ With("active", task[h].customer) = {}
                       /\ Inserting(task[h].customer) = {}
                    THEN doubled ELSE doubled \cup {task[h].customer}
    /\ LeftKeyless(L \ {first})
    /\ UNCHANGED <<account, raced>>

-----------------------------------------------------------------------------
(* Keys and endings.                                                       *)

\* A license becomes active by itself: does it meet another?
Meets(l) ==
    /\ license[l].status # "active"
    /\ With("active", license[l].owner) # {} \/ Inserting(license[l].owner) # {}

DoubledBy(l, status) ==
    /\ doubled' = IF status = "active" /\ Meets(l) THEN doubled \cup {license[l].owner}
                  ELSE doubled
    /\ UNCHANGED raced

\* issue_activation_key, which may make the license active or leave it as it is.
IssueKey(l, status) ==
    /\ status \in {license[l].status, "active"}
    /\ license' = [license EXCEPT ![l].key = TRUE, ![l].status = status]
    /\ LeftKeyless({})
    /\ DoubledBy(l, status)

\* The mail that follows changes nothing here.
KeyIssued(h, status) ==
    /\ task[h].at = "keying"
    /\ IssueKey(task[h].license, status)
    /\ Done(h)
    /\ UNCHANGED account

\* A request fails, nothing is found, no symbols to entitle: the handler ends,
\* and the provider is answered 200.
Abandon(h) ==
    /\ task[h].at \notin {"idle", "resolving", "checking"}
    /\ Done(h)
    /\ UNCHANGED <<account, license, raced, doubled>>
    /\ LeftKeyless({l \in Licenses : h \in Keying(l)})

-----------------------------------------------------------------------------
(* By hand: the owner or the administrator.  One request each to the       *)
(* database changes the license, whoever else is at work on it.            *)

KeyIssuedByHand(l, status) ==
    /\ license[l].status # "none"
    /\ IssueKey(l, status)
    /\ UNCHANGED <<account, task>>

KeyRevoked(l) ==
    /\ license[l].status # "none"
    /\ license' = [license EXCEPT ![l].key = FALSE, ![l].status = "suspended"]
    /\ LeftKeyless({})
    /\ UNCHANGED <<account, task, raced, doubled>>

\* patchLicense writes the status it is given, and leaves the key: a license
\* that lost its key when it was suspended has none when it is active again.
Patched(l, status) ==
    /\ license[l].status # "none"
    /\ license' = [license EXCEPT ![l].status = status]
    /\ LeftKeyless(IF license[l].status # "active" THEN {l} ELSE {})
    /\ DoubledBy(l, status)
    /\ UNCHANGED <<account, task>>

\* The process dies with its handlers.
Crash ==
    /\ \E h \in Handlers : task[h] # Idle
    /\ task' = [h \in Handlers |-> Idle]
    /\ UNCHANGED <<account, license, raced, doubled>>
    /\ LeftKeyless({l \in Licenses : Keying(l) # {}})

-----------------------------------------------------------------------------
Given == {"active", "suspended", "expired"}

Next ==
    \/ \E h \in Handlers :
          \/ \E event \in {"provision", "suspend", "enable"}, c \in Customers :
                Receive(h, event, c)
          \/ UserFound(h) \/ UserNotFound(h) \/ UserCreated(h)
          \/ CheckActive(h) \/ CheckUnread(h) \/ Suspended(h)
          \/ Abandon(h)
          \/ \E status \in Given : KeyIssued(h, status)
          \/ \E l \in Licenses : Inserted(h, l)
          \/ \E L \in SUBSET Licenses, l \in Licenses : Enabled(h, L, l)
    \/ \E l \in Licenses :
          \/ KeyRevoked(l)
          \/ \E status \in Given : KeyIssuedByHand(l, status) \/ Patched(l, status)
    \/ Crash

Spec == Init /\ [][Next]_vars

-----------------------------------------------------------------------------
(* Properties.                                                             *)

(* A customer has two active licenses only if, since a suspension last left *)
(* none active or about to be inserted, two provisioning handlers passed    *)
(* the guard of webhook.service.ts:236 together or one passed it unread, or *)
(* a license became active again beside another that was active or about to *)
(* be inserted, or together with another by one subscription.enable.        *)
(* Deliveries that only provision, handled one after the other with a guard *)
(* that is read, never give two. Serial deliveries can: create, disable,    *)
(* create again and enable leave two, because subscription.enable does not  *)
(* look for an active license (webhook.service.ts:401). Neither do the      *)
(* issue of a key and a patch by hand.                                      *)
DuplicatesAccounted ==
    \A c \in Customers :
        Cardinality(With("active", c)) > 1 => c \in raced \cup doubled

(* An active license without a key has a handler about to issue it, or was  *)
(* left so in one of three ways: the handler that was to issue its key      *)
(* failed or died, subscription.enable reactivated it together with another *)
(* that was given the key, or an administrator made it active by hand when  *)
(* its suspension had cleared the key (webhook.service.ts:373), which       *)
(* patchLicense does not restore.                                           *)
KeylessAccounted ==
    \A l \in Licenses : license[l].status = "active" /\ ~license[l].key =>
        Keying(l) # {} \/ l \in unissued

(* webhook.service.ts:236 says that a user who already has an active        *)
(* license is skipped, because subscription.create may fire for the same    *)
(* purchase: a license is inserted only for a customer without one.         *)
NoDuplicateProvision ==
    [][\A l \in Licenses : license[l].status = "none" /\ license'[l].status = "active" =>
          With("active", license'[l].owner) = {}]_vars
=============================================================================
