------------------------- MODULE DeviceCredentials -------------------------
(***************************************************************************)
(* The device of one engine: the credential that spares it the activation  *)
(* key, rotated on every activation, and its release.  LicenseService      *)
(* keeps both in the store only; what the gateway holds is the connection  *)
(* that was granted.  A request to the store takes effect there at some    *)
(* time and is answered later, or not at all: in between anything may      *)
(* happen at either end.                                                   *)
(*                                                                         *)
(* External: the store, whose functions activate_engine and                *)
(* release_engine_device are not in the repository, and which may refuse   *)
(* any request (a license that is not active, an error); and the engine.   *)
(***************************************************************************)
CONSTANTS
    Sockets,        \* connections of this engine
    Handlers,       \* bound: activations under way at a time
    Credentials,    \* a name is used again once nothing refers to it
    None

ASSUME CredentialAssumption == None \notin Credentials \cup Sockets

VARIABLES
    open,       \* sockets the gateway has not removed
    current,    \* the licensed one (see LicensedIsCurrent of EngineGateway)
    call,       \* call[h]: an activation and what it awaits
    device,     \* the row in engine_devices: active, credential_hash
    release,    \* of the device: requested, taken effect, or neither
    held,       \* the credential the engine would present
    astray,     \* auxiliary: the engine was not told of the credential that is
                \* stored, or was told of an older one after it
    outlived    \* auxiliary: the current connection rests on a grant older
                \* than the release, or on one whose release was not answered

vars == <<open, current, call, device, release, held, astray, outlived>>

Idle == [at |-> "idle", socket |-> None, credential |-> None, crossed |-> FALSE]

TypeOK ==
    /\ open \subseteq Sockets
    /\ current \in open \cup {None}
    /\ call \in [Handlers ->
          [at         : {"idle", "verifying", "activating", "granted", "crediting",
                         "stored", "failed"},
           socket     : Sockets \cup {None},
           credential : Credentials \cup {None},
           crossed    : BOOLEAN]]
    /\ device \in [active : BOOLEAN, hash : Credentials \cup {None}]
    /\ release \in {"none", "requested", "released"}
    /\ held \in Credentials \cup {None}
    /\ astray \in BOOLEAN
    /\ outlived \in BOOLEAN

Init ==
    /\ open = {}
    /\ current = None
    /\ call = [h \in Handlers |-> Idle]
    /\ device = [active |-> FALSE, hash |-> None]
    /\ release = "none"
    /\ held = None
    /\ astray = FALSE
    /\ outlived = FALSE

-----------------------------------------------------------------------------
(* Connections.                                                            *)

Connect(s) ==
    /\ s \notin open
    /\ \A h \in Handlers : call[h].socket # s
    /\ open' = open \cup {s}
    /\ UNCHANGED <<current, call, device, release, held, astray, outlived>>

\* retireSocket, of the current connection.
RetireCurrent ==
    /\ open' = open \ {current}
    /\ current' = None
    /\ outlived' = FALSE

Disconnect(s) ==
    /\ s \in open
    /\ IF s = current THEN RetireCurrent
       ELSE open' = open \ {s} /\ UNCHANGED <<current, outlived>>
    /\ UNCHANGED <<call, device, release, held, astray>>

-----------------------------------------------------------------------------
(* Activation.                                                             *)

Await(h, s, at, credential) ==
    /\ call[h] = Idle
    /\ s \in open
    /\ call' = [call EXCEPT ![h] = [Idle EXCEPT !.at = at, !.socket = s,
                                                !.credential = credential]]
    /\ UNCHANGED <<open, current, device, release, held, astray, outlived>>

HelloWithCredential(h, s) == held # None /\ Await(h, s, "verifying", held)

ActivationRequest(h, s) == Await(h, s, "activating", None)

Return(h) == call' = [call EXCEPT ![h] = Idle]

\* Mutant: the credential is compared, the device's status is not looked at.
VerifiedAnyStatus(h) ==
    /\ call[h].at = "verifying"
    /\ device.hash = call[h].credential
    /\ call' = [call EXCEPT ![h].at = "granted", ![h].credential = None]
    /\ UNCHANGED <<open, current, device, release, held, astray, outlived>>

\* verifyDeviceCredential finds the row of an active device, and the hash equal.
Verified(h) ==
    /\ call[h].at = "verifying"
    /\ device.active
    /\ device.hash = call[h].credential
    /\ call' = [call EXCEPT ![h].at = "granted", ![h].credential = None]
    /\ UNCHANGED <<open, current, device, release, held, astray, outlived>>

\* activate_engine: the device is active, whatever it was.
Activated(h) ==
    /\ call[h].at = "activating"
    /\ call' = [call EXCEPT ![h].at = "granted"]
    /\ device' = [device EXCEPT !.active = TRUE]
    /\ UNCHANGED <<open, current, release, held, astray, outlived>>

\* Any refusal, and any failure of the store: the handler answers and ends.
Refused(h) ==
    /\ call[h].at \in {"verifying", "activating"}
    /\ Return(h)
    /\ UNCHANGED <<open, current, device, release, held, astray, outlived>>

Referred == {held, device.hash} \cup {call[h].credential : h \in Handlers}

\* Mutant: a connection that was removed meanwhile is authorized all the same.
AuthorizedBlindly(h, c) ==
    /\ call[h].at = "granted"
    /\ c \notin Referred
    /\ call' = [call EXCEPT ![h].at = "crediting", ![h].credential = c]
    /\ current' = call[h].socket
    /\ open' = open \ ({current} \ {call[h].socket})
    /\ outlived' = call[h].crossed
    /\ UNCHANGED <<device, release, held, astray>>

\* The gateway hears of the grant: it authorizes the connection if it is still
\* there, retires the one replaced, opens a session and issues a credential.
Authorized(h, c) ==
    LET s == call[h].socket
    IN  /\ call[h].at = "granted"
        /\ c \notin Referred
        /\ call' = [call EXCEPT ![h].at = "crediting", ![h].credential = c]
        /\ IF s \in open
             THEN /\ current' = s
                  /\ open' = open \ ({current} \ {s})
                  /\ outlived' = call[h].crossed
             ELSE UNCHANGED <<open, current, outlived>>
        /\ UNCHANGED <<device, release, held, astray>>

\* The UPDATE of credential_hash takes effect.
CredentialStored(h) ==
    /\ call[h].at = "crediting"
    /\ device' = [device EXCEPT !.hash = call[h].credential]
    /\ call' = [call EXCEPT ![h].at = "stored"]
    /\ astray' = FALSE
    /\ UNCHANGED <<open, current, release, held, outlived>>

\* The credential of h is the one in the row.
Stored(h) == call[h].at = "stored" /\ call[h].credential = device.hash

\* It fails, or its answer does: the credential is not passed on.
CredentialFails(h) ==
    /\ call[h].at \in {"crediting", "stored"}
    /\ call' = [call EXCEPT ![h].at = "failed"]
    /\ astray' = (astray \/ Stored(h))
    /\ UNCHANGED <<open, current, device, release, held, outlived>>

\* Mutant: the credential is passed on although the update failed.
FailedAnswerCarries(h) ==
    /\ call[h].at = "failed"
    /\ Return(h)
    /\ held' = IF call[h].socket \in open THEN call[h].credential ELSE held
    /\ UNCHANGED <<open, current, device, release, astray, outlived>>

\* activation.accepted without a credential.
FailedAnswer(h) ==
    /\ call[h].at = "failed"
    /\ Return(h)
    /\ UNCHANGED <<open, current, device, release, held, astray, outlived>>

\* activation.accepted with the credential, which the engine keeps ...
CredentialAnswered(h) ==
    /\ call[h].at = "stored"
    /\ call[h].socket \in open
    /\ Return(h)
    /\ held' = call[h].credential
    /\ astray' = (astray \/ held = device.hash)
    /\ UNCHANGED <<open, current, device, release, outlived>>

\* ... or never reads.
AnswerLost(h) ==
    /\ call[h].at = "stored"
    /\ Return(h)
    /\ astray' = (astray \/ Stored(h))
    /\ UNCHANGED <<open, current, device, release, held, outlived>>

-----------------------------------------------------------------------------
(* Release.                                                                *)

\* By the owner of the license, or by the engine with a credential: who may is
\* for the store to say.  Bound: one request at a time.
ReleaseRequested ==
    /\ release = "none"
    /\ release' = "requested"
    /\ UNCHANGED <<open, current, call, device, held, astray, outlived>>

ReleaseRefused ==
    /\ release = "requested"
    /\ release' = "none"
    /\ UNCHANGED <<open, current, call, device, held, astray, outlived>>

\* It takes effect; the hash may stay in the row or go with it.  Grants that
\* are on their way to the gateway are older.
Released ==
    /\ release = "requested"
    /\ device.active
    /\ release' = "released"
    /\ \E hash \in {None, device.hash} : device' = [active |-> FALSE, hash |-> hash]
    /\ call' = [h \in Handlers |-> IF call[h].at = "granted"
                                     THEN [call[h] EXCEPT !.crossed = TRUE] ELSE call[h]]
    /\ UNCHANGED <<open, current, held, astray, outlived>>

\* Mutant: the listeners are not notified.
ReleaseUnnoticed ==
    /\ release = "released"
    /\ release' = "none"
    /\ UNCHANGED <<open, current, call, device, held, astray, outlived>>

\* The answer arrives: notifyDeviceReleased has the connection retired.
ReleaseAnswered ==
    /\ release = "released"
    /\ release' = "none"
    /\ IF current = None THEN UNCHANGED <<open, current, outlived>> ELSE RetireCurrent
    /\ UNCHANGED <<call, device, held, astray>>

\* The answer is an error although the release took effect: nobody is notified.
ReleaseUnanswered ==
    /\ release = "released"
    /\ release' = "none"
    /\ outlived' = (outlived \/ (current # None /\ ~device.active))
    /\ UNCHANGED <<open, current, call, device, held, astray>>

-----------------------------------------------------------------------------
Next ==
    \/ \E s \in Sockets : Connect(s) \/ Disconnect(s)
    \/ \E h \in Handlers :
          \/ \E s \in Sockets : HelloWithCredential(h, s) \/ ActivationRequest(h, s)
          \/ \E c \in Credentials : Authorized(h, c)
          \/ Verified(h) \/ Activated(h) \/ Refused(h)
          \/ CredentialStored(h) \/ CredentialFails(h) \/ FailedAnswer(h)
          \/ CredentialAnswered(h) \/ AnswerLost(h)
    \/ ReleaseRequested \/ ReleaseRefused
    \/ Released \/ ReleaseAnswered \/ ReleaseUnanswered

Spec == Init /\ [][Next]_vars

-----------------------------------------------------------------------------
(* Properties.                                                             *)

(* The engine holds the credential that is stored, or one that its next     *)
(* hello may find refused for a reason: the release of the device, an       *)
(* answer still on its way, one that was lost, or two rotations answered    *)
(* in the other order.  What is refused it falls back from with its key.    *)
HeldIsStored ==
    held \notin {None, device.hash} =>
        \/ device.hash = None \/ astray
        \/ \E h \in Handlers : Stored(h)

(* A licensed connection ends with the release of its device, except that   *)
(* the release is not answered yet or was answered with an error, or that   *)
(* the grant was on its way to the gateway when the device was released:    *)
(* the release found nobody to retire, and the connection stays.            *)
ReleasedIsOut ==
    current # None /\ ~device.active => release = "released" \/ outlived
=============================================================================
