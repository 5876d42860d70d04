-------------------------- MODULE ActivationLimits --------------------------
(***************************************************************************)
(* The two limits on activation.request, around its await of the license   *)
(* store: one on requests per client address, recorded when they come in,  *)
(* and one on failures per activation key, which is asked before the await *)
(* and recorded after it.  One key, tried from several addresses at a time.*)
(*                                                                         *)
(* External: the license store, which accepts or refuses an attempt, or    *)
(* fails, after any delay.                                                 *)
(***************************************************************************)
EXTENDS RateLimits, FiniteSets

CONSTANTS
    Addresses,      \* client IPs
    Handlers,       \* bound: activations waiting for the license store
    AddressLimit,   \* RL_ACT_IP_LIMIT
    KeyLimit,       \* RL_ACT_KEY_FAILURE_LIMIT
    MaxNow          \* bound: the clock

ASSUME ActivationAssumption ==
    /\ AddressLimit \in Nat \ {0}
    /\ KeyLimit \in Nat \ {0}
    /\ MaxNow \in Nat
    /\ IsFiniteSet(Handlers) /\ Handlers # {}

VARIABLES
    now,        \* Date.now()
    addressHits,
    keyHits,
    waiting,    \* handlers that await licenses.activate
    admitted,   \* auxiliary: when the limit of an address last let a request pass
    counted,    \* auxiliary: when a failure with the key was last recorded
    excess      \* auxiliary: when one was last left unrecorded, for the limit

vars == <<now, addressHits, keyHits, waiting, admitted, counted, excess>>

Times == Seq(0..MaxNow)

TypeOK ==
    /\ now \in 0..MaxNow
    /\ addressHits \in [Addresses -> Times]
    /\ \A a \in Addresses : Len(addressHits[a]) <= AddressLimit
    /\ keyHits \in Times
    /\ Len(keyHits) <= KeyLimit
    /\ waiting \subseteq Handlers
    /\ admitted \in [Addresses -> Times]
    /\ counted \in Times
    /\ excess \in Times

Init ==
    /\ now = 0
    /\ addressHits = [a \in Addresses |-> <<>>]
    /\ keyHits = <<>>
    /\ waiting = {}
    /\ admitted = [a \in Addresses |-> <<>>]
    /\ counted = <<>>
    /\ excess = <<>>

-----------------------------------------------------------------------------
\* Time passes, and the auxiliary histories forget what is a window old.
Tick ==
    LET Kept(times) == After(times, now + 1 - Window)
    IN  /\ now < MaxNow
        /\ now' = now + 1
        /\ admitted' = [a \in Addresses |-> Kept(admitted[a])]
        /\ counted' = Kept(counted)
        /\ excess' = Kept(excess)
        /\ UNCHANGED <<addressHits, keyHits, waiting>>

\* A request is let pass by its address.  It is refused for its key or for the
\* account it reports, or goes on to the store.
ActivationRequest(h, a) ==
    /\ h \notin waiting
    /\ Allows(addressHits[a], AddressLimit, now)
    /\ addressHits' = [addressHits EXCEPT ![a] = Hit(@, AddressLimit, now)]
    /\ admitted' = [admitted EXCEPT ![a] = Append(@, now)]
    /\ \/ waiting' = waiting
       \/ Remaining(keyHits, KeyLimit, now) > 0 /\ waiting' = waiting \cup {h}
    /\ UNCHANGED <<now, keyHits, counted, excess>>

\* The store grants: no failure.
Granted(h) ==
    /\ h \in waiting
    /\ waiting' = waiting \ {h}
    /\ UNCHANGED <<now, addressHits, keyHits, admitted, counted, excess>>

\* Mutant: failures of the store are not recorded.
FailedUncounted(h) ==
    /\ h \in waiting
    /\ waiting' = waiting \ {h}
    /\ excess' = Append(excess, now)
    /\ UNCHANGED <<now, addressHits, keyHits, admitted, counted>>

\* It refuses or fails.  A failure beyond the limit is not recorded.
Failed(h) ==
    /\ h \in waiting
    /\ waiting' = waiting \ {h}
    /\ keyHits' = Hit(keyHits, KeyLimit, now)
    /\ IF Allows(keyHits, KeyLimit, now)
         THEN counted' = Append(counted, now) /\ excess' = excess
         ELSE excess' = Append(excess, now) /\ counted' = counted
    /\ UNCHANGED <<now, addressHits, admitted>>

Sweep ==
    /\ addressHits' = [a \in Addresses |-> Swept(addressHits[a], now)]
    /\ keyHits' = Swept(keyHits, now)
    /\ UNCHANGED <<now, waiting, admitted, counted, excess>>

Next ==
    \/ \E h \in Handlers :
          \/ \E a \in Addresses : ActivationRequest(h, a)
          \/ Granted(h) \/ Failed(h)
    \/ Tick \/ Sweep

Spec == Init /\ [][Next]_vars

-----------------------------------------------------------------------------
(* Properties.                                                             *)

(* A limit is neither exceeded nor applied too soon: at any time at most    *)
(* AddressLimit requests of an address have passed within the last window,  *)
(* and one is refused only when so many have; what refusals, pruning and    *)
(* the sweep leave out of a bucket never matters.  The same of the failures *)
(* recorded for the key.                                                    *)
WindowsExact ==
    /\ \A a \in Addresses :
          /\ Len(admitted[a]) <= AddressLimit
          /\ Remaining(addressHits[a], AddressLimit, now)
                = AddressLimit - Len(admitted[a])
    /\ Len(counted) <= KeyLimit
    /\ Remaining(keyHits, KeyLimit, now) = KeyLimit - Len(counted)

(* Attempts that overlap may all pass the limit on failures before any of   *)
(* them has failed, but not without bound: each time the bucket fills, and  *)
(* once for the window before, only the handlers already waiting are left.  *)
(* One handler at a time never sees more failures than the limit.           *)
FailuresBounded ==
    Len(counted) + Len(excess) <= KeyLimit + (KeyLimit + 1) * (Cardinality(Handlers) - 1)
=============================================================================
