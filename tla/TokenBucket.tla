---------------------------- MODULE TokenBucket ----------------------------
(***************************************************************************)
(* The per-peer token bucket of policy.py (_TokenBucket and                *)
(* PolicyEngine.check_rate), as operators on one bucket.                   *)
(*                                                                         *)
(* The code counts tokens as floats and refills rate/60 of a token per     *)
(* second; here one token is 60 units and a second refills Rate units, so  *)
(* the arithmetic is exact.  Time is in whole seconds.                     *)
(***************************************************************************)
EXTENDS Integers

CONSTANTS
    PerMinute,  \* policy.rate_limits.per_peer_per_minute
    Burst       \* policy.rate_limits.burst

ASSUME BucketAssumption == PerMinute \in Int /\ Burst \in Int

TokenUnit == 60

\* Both settings are raised to at least 1, so 0 or a negative never blocks.
Rate == IF PerMinute > 1 THEN PerMinute ELSE 1
Capacity == TokenUnit * (IF Burst > 1 THEN Burst ELSE 1)

\* A peer with no entry in PolicyEngine._buckets.
NoBucket == [tokens |-> 0, updated |-> -1]

\* tokens may be negative: a clock that steps back subtracts.
Bucket == [tokens : Int, updated : Nat]

\* Faulty variants, each of which a run must find: no cap on the refill, and
\* a refill that leaves the time of the last one.
RefilledUncapped(b, now) ==
    [tokens |-> IF b = NoBucket THEN Capacity ELSE b.tokens + (now - b.updated) * Rate,
     updated |-> now]
RefilledStale(b, now) ==
    [tokens |-> IF b = NoBucket THEN Capacity ELSE b.tokens, updated |-> b.updated]

\* The bucket check_rate works on: the peer's own, or a new full one,
\* refilled up to now.
Refilled(b, now) ==
    LET tokens == IF b = NoBucket THEN Capacity
                  ELSE b.tokens + (now - b.updated) * Rate
    IN  [tokens |-> IF tokens < Capacity THEN tokens ELSE Capacity,
         updated |-> now]

HasToken(b, now) == Refilled(b, now).tokens >= TokenUnit

\* Faulty variant: a refused call costs a token too.
AfterCheckCharged(b, now) == [Refilled(b, now) EXCEPT !.tokens = @ - TokenUnit]

\* Faulty variant: a call that is let through costs nothing.
AfterCheckFree(b, now) == Refilled(b, now)

\* The bucket check_rate leaves behind; a refused call refills it too.
AfterCheck(b, now) ==
    IF HasToken(b, now)
    THEN [Refilled(b, now) EXCEPT !.tokens = @ - TokenUnit]
    ELSE Refilled(b, now)
=============================================================================
