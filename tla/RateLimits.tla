----------------------------- MODULE RateLimits -----------------------------
(***************************************************************************)
(* RateLimitService: sliding windows.  A bucket is the sequence of the     *)
(* times it was hit at, oldest first; a bucket that is not in the Map is   *)
(* the empty sequence.  A method is an operator on the value of a bucket   *)
(* and the present time.                                                   *)
(***************************************************************************)
EXTENDS Integers, Sequences

CONSTANTS
    Window,     \* windowMs, the same for all callers here
    MaxAge      \* SWEEP_MAX_AGE_MS

\* No caller uses a window longer than the hour for which hits are kept.
ASSUME LimitsAssumption ==
    /\ Window \in Nat \ {0}
    /\ MaxAge \in Nat
    /\ Window <= MaxAge

\* filter((t) => t > cutoff).  A recursive function, for the proofs: TLAPS has
\* no definition of SelectSeq.
After(times, cutoff) ==
    LET kept[i \in 0..Len(times)] ==
            IF i = 0 THEN <<>>
            ELSE IF times[i] > cutoff THEN Append(kept[i - 1], times[i]) ELSE kept[i - 1]
    IN  kept[Len(times)]

\* Mutant: a hit that is exactly one window old is counted.
RecentInclusive(hits, now) == After(hits, now - Window - 1)

\* The hits inside the window that ends now.
Recent(hits, now) == After(hits, now - Window)

Remaining(hits, limit, now) ==
    LET used == Len(Recent(hits, now)) IN IF used < limit THEN limit - used ELSE 0

\* check(), what it answers ...
Allows(hits, limit, now) == Len(Recent(hits, now)) < limit

\* Mutant: a request that is refused is recorded.
HitAlways(hits, limit, now) == Append(Recent(hits, now), now)

\* ... and what it leaves: a request that is refused is not recorded.
Hit(hits, limit, now) ==
    IF Allows(hits, limit, now) THEN Append(Recent(hits, now), now) ELSE hits

\* Mutant: a bucket goes when its first hit is too old.
SweptByFirst(hits, now) ==
    IF hits = <<>> \/ Head(hits) < now - MaxAge THEN <<>> ELSE hits

\* sweep(): a bucket goes when its last hit is too old.
Swept(hits, now) ==
    IF hits = <<>> \/ hits[Len(hits)] < now - MaxAge THEN <<>> ELSE hits
=============================================================================
