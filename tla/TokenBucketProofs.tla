------------------------- MODULE TokenBucketProofs -------------------------
(***************************************************************************)
(* Facts about one bucket, for every rate and burst.                       *)
(***************************************************************************)
EXTENDS TokenBucket, TLAPS

\* The rate and the capacity are at least one token's worth of work.
LEMMA Settings ==
    /\ Rate \in Nat /\ Rate > 0
    /\ Capacity \in Nat /\ Capacity >= TokenUnit
    /\ TokenUnit = 60
<1> PerMinute \in Int /\ Burst \in Int
    BY BucketAssumption
<1> QED
    BY DEF Rate, Capacity, TokenUnit

\* What a second that passes, or is taken back, is worth.
LEMMA OneSecond ==
    ASSUME NEW d \in Int
    PROVE  /\ d * Rate \in Int
           /\ (d + 1) * Rate = d * Rate + Rate
           /\ (d - 1) * Rate = d * Rate - Rate
           /\ d >= 0 => d * Rate >= 0
<1> Rate \in Nat
    BY Settings
<1> QED
    BY SMT

\* Refilling gives a bucket of this moment, no fuller than the capacity.
LEMMA RefilledBucket ==
    ASSUME NEW b \in Bucket \cup {NoBucket}, NEW t \in Nat
    PROVE  /\ Refilled(b, t) \in Bucket
           /\ Refilled(b, t).tokens <= Capacity
           /\ Refilled(b, t).updated = t
<1>1. CASE b = NoBucket
    BY <1>1, Settings DEF Refilled, Bucket
<1>2. CASE b # NoBucket
    <2>1. b \in Bucket /\ t - b.updated \in Int
        BY <1>2 DEF Bucket
    <2>2. (t - b.updated) * Rate \in Int
        BY <2>1, OneSecond
    <2> QED
        BY <1>2, <2>1, <2>2, Settings DEF Refilled, Bucket
<1> QED
    BY <1>1, <1>2

\* A bucket of time t is not the absent one, and refilling it at t changes nothing.
LEMMA RefilledNow ==
    ASSUME NEW b \in Bucket, b.tokens <= Capacity
    PROVE  b # NoBucket /\ Refilled(b, b.updated).tokens = b.tokens
<1>1. b.updated \in Nat /\ b.tokens \in Int
    BY DEF Bucket
<1>2. b # NoBucket
    BY <1>1 DEF NoBucket
<1>3. (b.updated - b.updated) * Rate = 0
    BY <1>1, Settings
<1> QED
    BY <1>1, <1>2, <1>3, Settings DEF Refilled

\* check_rate leaves a bucket of this moment, one token lower when it admits.
LEMMA Checked ==
    ASSUME NEW b \in Bucket \cup {NoBucket}, NEW t \in Nat
    PROVE  /\ AfterCheck(b, t) \in Bucket
           /\ AfterCheck(b, t) # NoBucket
           /\ AfterCheck(b, t).updated = t
           /\ Refilled(AfterCheck(b, t), t).tokens
                = IF HasToken(b, t) THEN Refilled(b, t).tokens - TokenUnit
                                    ELSE Refilled(b, t).tokens
<1> DEFINE c == AfterCheck(b, t)
           r == Refilled(b, t)
<1>1. r \in Bucket /\ r.tokens <= Capacity /\ r.updated = t
    BY RefilledBucket
<1>2. /\ c \in Bucket /\ c.updated = t /\ c.tokens <= Capacity
      /\ c.tokens = IF HasToken(b, t) THEN r.tokens - TokenUnit ELSE r.tokens
    <2> HIDE DEF r
    <2>1. c = IF HasToken(b, t) THEN [r EXCEPT !.tokens = @ - TokenUnit] ELSE r
        BY DEF c, AfterCheck, r
    <2> HIDE DEF c
    <2> QED
        BY <1>1, <2>1, Settings DEF Bucket
<1> QED
    BY <1>2, RefilledNow

\* In a second a bucket gains at most Rate; a second back it gains nothing.
LEMMA RefillSpeed ==
    ASSUME NEW b \in Bucket \cup {NoBucket}, NEW t \in Nat
    PROVE  /\ Refilled(b, t + 1).tokens <= Refilled(b, t).tokens + Rate
           /\ t > 0 => Refilled(b, t - 1).tokens <= Refilled(b, t).tokens
<1>1. CASE b = NoBucket
    BY <1>1, Settings DEF Refilled
<1>2. CASE b # NoBucket
    <2>1. b \in Bucket /\ b.tokens \in Int /\ b.updated \in Nat
        BY <1>2 DEF Bucket
    <2> DEFINE d == t - b.updated
    <2>2. /\ d \in Int /\ (t + 1) - b.updated = d + 1
          /\ (t - 1) - b.updated = d - 1
        BY <2>1
    <2>3. /\ d * Rate \in Int /\ (d + 1) * Rate = d * Rate + Rate
          /\ (d - 1) * Rate = d * Rate - Rate
        BY <2>2, OneSecond
    <2> QED
        BY <1>2, <2>1, <2>2, <2>3, Settings DEF Refilled
<1> QED
    BY <1>1, <1>2
=============================================================================
