---------------------- MODULE DeviceCredentialsProofs ----------------------
(***************************************************************************)
(* Proofs about DeviceCredentials, for any number of connections,          *)
(* activations under way and credentials.                                  *)
(***************************************************************************)
EXTENDS DeviceCredentials, TLAPS

-----------------------------------------------------------------------------
(* Types.                                                                  *)

\* What a handler keeps while it awaits.
Call ==
    [at         : {"idle", "verifying", "activating", "granted", "crediting",
                   "stored", "failed"},
     socket     : Sockets \cup {None},
     credential : Credentials \cup {None},
     crossed    : BOOLEAN]

OthersOK ==
    /\ open \subseteq Sockets
    /\ current \in open \cup {None}
    /\ device \in [active : BOOLEAN, hash : Credentials \cup {None}]
    /\ release \in {"none", "requested", "released"}
    /\ held \in Credentials \cup {None}
    /\ astray \in BOOLEAN
    /\ outlived \in BOOLEAN

LEMMA TypeParts == TypeOK <=> OthersOK /\ call \in [Handlers -> Call]
BY DEF TypeOK, OthersOK, Call

LEMMA TypePartsNext == TypeOK' <=> OthersOK' /\ call' \in [Handlers -> Call]
BY DEF TypeOK, OthersOK, Call

LEMMA IdleType == Idle \in Call
BY DEF Idle, Call

LEMMA DeviceTypeInitially == Init => TypeOK
<1> SUFFICES ASSUME Init PROVE TypeOK
  OBVIOUS
<1>1. call \in [Handlers -> Call]
  BY IdleType DEF Init
<1> QED BY <1>1, TypeParts DEF Init, OthersOK

LEMMA DeviceTypeStep ==
    ASSUME TypeOK, [Next]_vars
    PROVE  TypeOK'
<1>0. OthersOK /\ call \in [Handlers -> Call] /\ \A h \in Handlers : call[h] \in Call
  BY TypeParts
<1>1. ASSUME NEW s \in Sockets, Connect(s) PROVE TypeOK'
  BY <1>0, <1>1, TypePartsNext DEF Connect, OthersOK
<1>2. ASSUME NEW s \in Sockets, Disconnect(s) PROVE TypeOK'
  BY <1>0, <1>2, TypePartsNext DEF Disconnect, RetireCurrent, OthersOK
<1>3. ASSUME NEW h \in Handlers, NEW s \in Sockets,
             HelloWithCredential(h, s) \/ ActivationRequest(h, s)
      PROVE  TypeOK'
  <2>1. PICK at \in {"verifying", "activating"}, credential \in Credentials \cup {None} :
          Await(h, s, at, credential)
    BY <1>0, <1>3 DEF HelloWithCredential, ActivationRequest, OthersOK
  <2>2. [Idle EXCEPT !.at = at, !.socket = s, !.credential = credential] \in Call
    BY DEF Idle, Call
  <2>3. call' \in [Handlers -> Call]
    BY <1>0, <2>1, <2>2 DEF Await
  <2> QED BY <1>0, <2>1, <2>3, TypePartsNext DEF Await, OthersOK
<1>4. ASSUME NEW h \in Handlers, NEW c \in Credentials, Authorized(h, c) PROVE TypeOK'
  <2>1. [call[h] EXCEPT !.at = "crediting", !.credential = c] \in Call
    BY <1>0 DEF Call
  <2>2. call' = [call EXCEPT ![h] = [call[h] EXCEPT !.at = "crediting", !.credential = c]]
    BY <1>0, <1>4 DEF Authorized, Call
  <2>3. call' \in [Handlers -> Call]
    BY <1>0, <2>1, <2>2
  <2>4. OthersOK'
    BY <1>0, <1>4 DEF Authorized, OthersOK, Call
  <2> QED BY <2>3, <2>4, TypePartsNext
<1>5. ASSUME NEW h \in Handlers, Verified(h) PROVE TypeOK'
  <2>1. [call[h] EXCEPT !.at = "granted", !.credential = None] \in Call
    BY <1>0 DEF Call
  <2>2. call' \in [Handlers -> Call]
    BY <1>0, <1>5, <2>1 DEF Verified, Call
  <2> QED BY <1>0, <1>5, <2>2, TypePartsNext DEF Verified, OthersOK
<1>6. ASSUME NEW h \in Handlers, Activated(h) PROVE TypeOK'
  <2>1. call' \in [Handlers -> Call]
    BY <1>0, <1>6 DEF Activated, Call
  <2> QED BY <1>0, <1>6, <2>1, TypePartsNext DEF Activated, OthersOK
<1>7. ASSUME NEW h \in Handlers,
             Refused(h) \/ FailedAnswer(h) \/ CredentialAnswered(h) \/ AnswerLost(h)
      PROVE  TypeOK'
  <2>1. call' \in [Handlers -> Call]
    BY <1>0, <1>7, IdleType DEF Refused, FailedAnswer, CredentialAnswered, AnswerLost, Return
  <2>2. held' \in Credentials \cup {None}
    BY <1>0, <1>7
       DEF Refused, FailedAnswer, CredentialAnswered, AnswerLost, OthersOK, Call
  <2>3. astray' \in BOOLEAN
    BY <1>0, <1>7
       DEF Refused, FailedAnswer, CredentialAnswered, AnswerLost, OthersOK, Stored
  <2> QED BY <1>0, <1>7, <2>1, <2>2, <2>3, TypePartsNext
          DEF Refused, FailedAnswer, CredentialAnswered, AnswerLost, OthersOK
<1>8. ASSUME NEW h \in Handlers, CredentialStored(h) PROVE TypeOK'
  <2>1. call' \in [Handlers -> Call] /\ call[h].credential \in Credentials \cup {None}
    BY <1>0, <1>8 DEF CredentialStored, Call
  <2> QED BY <1>0, <1>8, <2>1, TypePartsNext DEF CredentialStored, OthersOK
<1>9. ASSUME NEW h \in Handlers, CredentialFails(h) PROVE TypeOK'
  <2>1. call' \in [Handlers -> Call]
    BY <1>0, <1>9 DEF CredentialFails, Call
  <2> QED BY <1>0, <1>9, <2>1, TypePartsNext DEF CredentialFails, OthersOK, Stored
<1>10. CASE ReleaseRequested \/ ReleaseRefused
  BY <1>0, <1>10, TypePartsNext DEF ReleaseRequested, ReleaseRefused, OthersOK
<1>11. CASE Released
  <2>1. \A h \in Handlers : [call[h] EXCEPT !.crossed = TRUE] \in Call
    BY <1>0 DEF Call
  <2>2. call' \in [Handlers -> Call]
    BY <1>0, <1>11, <2>1 DEF Released
  <2>3. OthersOK'
    BY <1>0, <1>11 DEF Released, OthersOK
  <2> QED BY <2>2, <2>3, TypePartsNext
<1>12. CASE ReleaseAnswered
  BY <1>0, <1>12, TypePartsNext DEF ReleaseAnswered, RetireCurrent, OthersOK
<1>13. CASE ReleaseUnanswered
  BY <1>0, <1>13, TypePartsNext DEF ReleaseUnanswered, OthersOK
<1>14. CASE UNCHANGED vars
  BY <1>0, <1>14, TypePartsNext DEF vars, OthersOK
<1> QED BY <1>1, <1>2, <1>3, <1>4, <1>5, <1>6, <1>7, <1>8, <1>9, <1>10, <1>11, <1>12,
           <1>13, <1>14 DEF Next

(* Every variable keeps its type; in particular the licensed connection is  *)
(* one that the gateway still has.                                          *)
THEOREM CredentialsTypeCorrect == Spec => []TypeOK
<1>1. TypeOK /\ [Next]_vars => TypeOK'
  BY DeviceTypeStep
<1> QED BY DeviceTypeInitially, <1>1, PTL DEF Spec

-----------------------------------------------------------------------------
(* The calls of a step.                                                    *)

\* A handler moves, and no other does.
Moves(h) == \A g \in Handlers \ {h} : call'[g] = call[g]

LEMMA CallMoves ==
    ASSUME TypeOK, NEW h \in Handlers,
           \/ \E s \in Sockets : HelloWithCredential(h, s) \/ ActivationRequest(h, s)
           \/ \E c \in Credentials : Authorized(h, c)
           \/ Verified(h) \/ Activated(h) \/ Refused(h)
           \/ CredentialStored(h) \/ CredentialFails(h) \/ FailedAnswer(h)
           \/ CredentialAnswered(h) \/ AnswerLost(h)
    PROVE  Moves(h)
BY DEF TypeOK, Moves, HelloWithCredential, ActivationRequest, Await, Authorized, Verified,
       Activated, Refused, CredentialStored, CredentialFails, FailedAnswer,
       CredentialAnswered, AnswerLost, Return

\* A handler that begins to await was idle, and has yet to be granted.
LEMMA AwaitEffect ==
    ASSUME TypeOK, NEW h \in Handlers, NEW s \in Sockets,
           HelloWithCredential(h, s) \/ ActivationRequest(h, s)
    PROVE  /\ call[h].at = "idle" /\ call'[h].at \in {"verifying", "activating"}
           /\ UNCHANGED <<open, current, device, release, held, astray, outlived>>
<1>1. \E at \in {"verifying", "activating"} : \E credential : Await(h, s, at, credential)
  BY DEF HelloWithCredential, ActivationRequest
<1>2. PICK at \in {"verifying", "activating"} : \E credential : Await(h, s, at, credential)
  BY <1>1
<1>3. PICK credential : Await(h, s, at, credential)
  BY <1>2
<1>4. call'[h] = [Idle EXCEPT !.at = at, !.socket = s, !.credential = credential]
  BY <1>3, TypeParts DEF Await
<1>5. call'[h].at = at
  BY <1>4 DEF Idle
<1>6. call[h].at = "idle"
  BY <1>3 DEF Await, Idle
<1> QED BY <1>3, <1>5, <1>6 DEF Await

-----------------------------------------------------------------------------
(* Release.                                                                *)

\* A grant on its way to the gateway is of an active device, unless it has
\* crossed a release.
GrantsAreActive ==
    \A h \in Handlers : call[h].at = "granted" /\ ~call[h].crossed => device.active

ReleaseInv == TypeOK /\ GrantsAreActive /\ ReleasedIsOut

LEMMA ReleaseStep ==
    ASSUME ReleaseInv, [Next]_vars
    PROVE  ReleaseInv'
<1> USE DEF ReleaseInv
<1>1. ASSUME NEW s \in Sockets, Connect(s) PROVE (GrantsAreActive /\ ReleasedIsOut)'
  BY <1>1 DEF Connect, GrantsAreActive, ReleasedIsOut
<1>2. ASSUME NEW s \in Sockets, Disconnect(s)
      PROVE  (GrantsAreActive /\ ReleasedIsOut)'
  BY <1>2 DEF Disconnect, RetireCurrent, GrantsAreActive, ReleasedIsOut
<1>3. ASSUME NEW h \in Handlers, NEW c \in Credentials, Authorized(h, c)
      PROVE  (GrantsAreActive /\ ReleasedIsOut)'
  <2>1. GrantsAreActive'
    BY <1>3, CallMoves DEF Authorized, Moves, GrantsAreActive, TypeOK
  <2>2. ReleasedIsOut'
    BY <1>3 DEF Authorized, GrantsAreActive, ReleasedIsOut
  <2> QED BY <2>1, <2>2
<1>4. ASSUME NEW h \in Handlers, Verified(h) \/ Activated(h)
      PROVE  (GrantsAreActive /\ ReleasedIsOut)'
  <2>1. device'.active /\ UNCHANGED <<current, release, outlived>>
    BY <1>4 DEF Verified, Activated, TypeOK
  <2> QED BY <2>1 DEF GrantsAreActive, ReleasedIsOut
<1>5. ASSUME NEW h \in Handlers,
             \/ \E s \in Sockets : HelloWithCredential(h, s) \/ ActivationRequest(h, s)
             \/ Refused(h) \/ CredentialStored(h) \/ CredentialFails(h)
             \/ FailedAnswer(h) \/ CredentialAnswered(h) \/ AnswerLost(h)
      PROVE  (GrantsAreActive /\ ReleasedIsOut)'
  <2>1. Moves(h)
    BY <1>5, CallMoves
  <2>2. call'[h].at # "granted"
    <3>1. ASSUME Refused(h) \/ FailedAnswer(h) \/ CredentialAnswered(h) \/ AnswerLost(h)
          PROVE  call'[h].at # "granted"
      BY <3>1, TypeParts
         DEF Refused, FailedAnswer, CredentialAnswered, AnswerLost, Return, Idle
    <3>2. ASSUME CredentialStored(h) \/ CredentialFails(h)
          PROVE  call'[h].at # "granted"
      BY <3>2, TypeParts DEF CredentialStored, CredentialFails, Call
    <3> QED BY <1>5, <3>1, <3>2, AwaitEffect
  <2>3. device'.active = device.active /\ UNCHANGED <<current, release, outlived>>
    BY <1>5 DEF TypeOK, HelloWithCredential, ActivationRequest, Await, Refused,
                CredentialStored, CredentialFails, FailedAnswer, CredentialAnswered,
                AnswerLost
  <2> QED BY <2>1, <2>2, <2>3 DEF Moves, GrantsAreActive, ReleasedIsOut
<1>6. ASSUME ReleaseRequested \/ ReleaseRefused
      PROVE  (GrantsAreActive /\ ReleasedIsOut)'
  BY <1>6 DEF ReleaseRequested, ReleaseRefused, GrantsAreActive, ReleasedIsOut
<1>7. ASSUME Released PROVE (GrantsAreActive /\ ReleasedIsOut)'
  <2>1. \A h \in Handlers : call'[h].at = "granted" => call'[h].crossed
    BY <1>7 DEF Released, TypeOK
  <2> QED BY <1>7, <2>1 DEF Released, GrantsAreActive, ReleasedIsOut
<1>8. ASSUME ReleaseAnswered PROVE (GrantsAreActive /\ ReleasedIsOut)'
  BY <1>8 DEF ReleaseAnswered, RetireCurrent, GrantsAreActive, ReleasedIsOut
<1>9. ASSUME ReleaseUnanswered PROVE (GrantsAreActive /\ ReleasedIsOut)'
  BY <1>9 DEF ReleaseUnanswered, GrantsAreActive, ReleasedIsOut
<1>10. ASSUME UNCHANGED vars PROVE (GrantsAreActive /\ ReleasedIsOut)'
  BY <1>10 DEF vars, GrantsAreActive, ReleasedIsOut
<1> HIDE DEF ReleaseInv
<1>11. (GrantsAreActive /\ ReleasedIsOut)'
  BY <1>1, <1>2, <1>3, <1>4, <1>5, <1>6, <1>7, <1>8, <1>9, <1>10 DEF Next
<1> QED BY <1>11, DeviceTypeStep DEF ReleaseInv

(* A licensed connection ends with the release of its device, once the      *)
(* release is answered: only a grant that crossed the release on its way,   *)
(* or an answer that was an error, leaves it in place.                      *)
THEOREM ReleaseRetires == Spec => []ReleasedIsOut
<1>1. Init => ReleaseInv
  BY DeviceTypeInitially DEF Init, ReleaseInv, GrantsAreActive, ReleasedIsOut, Idle
<1>2. ReleaseInv /\ [Next]_vars => ReleaseInv'
  BY ReleaseStep
<1>3. ReleaseInv => ReleasedIsOut
  BY DEF ReleaseInv
<1> QED BY <1>1, <1>2, <1>3, PTL DEF Spec

-----------------------------------------------------------------------------
(* The credential an engine holds.                                         *)

\* HeldIsStored of an engine that holds no credential as well: what is stored
\* has been told to it, is about to be, or went astray.
StoredIsTold ==
    device.hash # None =>
        held = device.hash \/ astray \/ \E h \in Handlers : Stored(h)

HeldInv == TypeOK /\ StoredIsTold

LEMMA HeldStep ==
    ASSUME HeldInv, [Next]_vars
    PROVE  HeldInv'
<1> USE DEF HeldInv
\* Whoever was about to tell the engine still is, if the row stays as it is.
<1>1. ASSUME NEW h \in Handlers, Moves(h), ~Stored(h), device'.hash = device.hash,
             held' = held, astray => astray'
      PROVE  StoredIsTold'
  BY <1>1 DEF StoredIsTold, Stored, Moves
<1>2. ASSUME NEW h \in Handlers,
             \/ \E s \in Sockets : HelloWithCredential(h, s) \/ ActivationRequest(h, s)
             \/ \E c \in Credentials : Authorized(h, c)
             \/ Verified(h) \/ Activated(h) \/ Refused(h) \/ FailedAnswer(h)
      PROVE  StoredIsTold'
  <2>1. Moves(h)
    BY <1>2, CallMoves
  <2>2. ~Stored(h)
    BY <1>2, AwaitEffect DEF Stored, Authorized, Verified, Activated, Refused, FailedAnswer
  <2>3. device'.hash = device.hash /\ held' = held /\ astray' = astray
    BY <1>2 DEF TypeOK, HelloWithCredential, ActivationRequest, Await, Authorized,
                Verified, Activated, Refused, FailedAnswer
  <2> QED BY <1>1, <2>1, <2>2, <2>3
<1>3. ASSUME NEW h \in Handlers, CredentialStored(h) PROVE StoredIsTold'
  <2>1. Stored(h)'
    BY <1>3 DEF CredentialStored, Stored, TypeOK
  <2> QED BY <2>1 DEF StoredIsTold
<1>4. ASSUME NEW h \in Handlers, CredentialFails(h) \/ AnswerLost(h) PROVE StoredIsTold'
  <2>1. Moves(h)
    BY <1>4, CallMoves
  <2>2. device' = device /\ held' = held /\ astray' = (astray \/ Stored(h))
    BY <1>4 DEF CredentialFails, AnswerLost
  <2>3. CASE Stored(h)
    BY <2>2, <2>3 DEF StoredIsTold
  <2>4. CASE ~Stored(h)
    BY <1>1, <2>1, <2>2, <2>4
  <2> QED BY <2>3, <2>4
<1>5. ASSUME NEW h \in Handlers, CredentialAnswered(h) PROVE StoredIsTold'
  <2>1. Moves(h)
    BY <1>5, CallMoves
  <2>2. /\ device' = device /\ held' = call[h].credential /\ call[h].at = "stored"
        /\ astray' = (astray \/ held = device.hash)
    BY <1>5 DEF CredentialAnswered
  <2>3. CASE Stored(h)
    BY <2>2, <2>3 DEF StoredIsTold, Stored
  <2>4. CASE ~Stored(h)
    BY <2>1, <2>2, <2>4 DEF StoredIsTold, Stored, Moves
  <2> QED BY <2>3, <2>4
<1>6. ASSUME Released PROVE StoredIsTold'
  <2>1. device'.hash \in {None, device.hash} /\ UNCHANGED <<held, astray>>
    BY <1>6 DEF Released
  <2>2. \A h \in Handlers : call'[h].at = call[h].at
                            /\ call'[h].credential = call[h].credential
    BY <1>6 DEF Released, TypeOK
  <2> QED BY <2>1, <2>2 DEF StoredIsTold, Stored
<1>7. ASSUME UNCHANGED <<call, device, held, astray>> PROVE StoredIsTold'
  BY <1>7 DEF StoredIsTold, Stored
<1>8. ASSUME NEW s \in Sockets, Connect(s) \/ Disconnect(s) PROVE StoredIsTold'
  BY <1>7, <1>8 DEF Connect, Disconnect
<1>9. ASSUME \/ ReleaseRequested \/ ReleaseRefused
             \/ ReleaseAnswered \/ ReleaseUnanswered
             \/ UNCHANGED vars
      PROVE  StoredIsTold'
  BY <1>7, <1>9
     DEF ReleaseRequested, ReleaseRefused, ReleaseAnswered, ReleaseUnanswered, vars
<1> HIDE DEF HeldInv
<1>10. StoredIsTold'
  BY <1>2, <1>3, <1>4, <1>5, <1>6, <1>8, <1>9 DEF Next
<1> QED BY <1>10, DeviceTypeStep DEF HeldInv

(* The engine holds the credential that is stored, unless the device was    *)
(* released, an answer is still on its way, one was lost, or two rotations  *)
(* were answered in the other order.                                        *)
THEOREM HeldCredentialIsStored == Spec => []HeldIsStored
<1>1. Init => HeldInv
  BY DeviceTypeInitially DEF Init, HeldInv, StoredIsTold
<1>2. HeldInv /\ [Next]_vars => HeldInv'
  BY HeldStep
<1>3. HeldInv => HeldIsStored
  BY DEF HeldInv, StoredIsTold, HeldIsStored
<1> QED BY <1>1, <1>2, <1>3, PTL DEF Spec
=============================================================================
