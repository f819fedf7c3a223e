------------------------- MODULE RateLimiterProofs -------------------------
(***************************************************************************)
(* The window bound and the fairness of refusals of RateLimiter, for every *)
(* rate, burst, set of processes and of peers.                             *)
(***************************************************************************)
EXTENDS RateLimiter, TokenBucketProofs

-----------------------------------------------------------------------------

\* The state has its types, whatever the settings.
THEOREM TypeCorrect == Spec => []TypeOK
<1>1. Init => TypeOK
    BY DEF Init, TypeOK, PerPeer
<1>2. TypeOK /\ [Next]_vars => TypeOK'
    <2> SUFFICES ASSUME TypeOK, [Next]_vars PROVE TypeOK'
        OBVIOUS
    <2> USE DEF TypeOK
    <2>1. ASSUME NEW p \in Procs, NEW x \in Peers, Admit(p, x) \/ Refuse(p, x)
          PROVE  TypeOK'
        <3>1. AfterCheck(buckets[p][x], now) \in Bucket
            BY Checked
        <3>2. CASE Admit(p, x)
            <4>1. buckets' \in [Procs -> [Peers -> Bucket \cup {NoBucket}]]
                BY <3>1, <3>2 DEF Admit
            <4>2. count' \in [Procs -> [Peers -> Nat]]
                BY <3>2 DEF Admit
            <4>3. last' \in [Procs -> [Peers -> Nat \cup {-1}]]
                BY <3>2 DEF Admit
            <4> QED
                BY <3>2, <4>1, <4>2, <4>3 DEF Admit
        <3>3. CASE Refuse(p, x)
            BY <3>1, <3>3 DEF Refuse
        <3> QED
            BY <2>1, <3>2, <3>3
    <2>2. ASSUME NEW p \in Procs, Restart(p) PROVE TypeOK'
        BY <2>2 DEF Restart, PerPeer
    <2>3. CASE Tick \/ StepBack
        BY <2>3 DEF Tick, StepBack
    <2>4. CASE OpenWindow
        BY <2>4 DEF OpenWindow, PerPeer
    <2>5. CASE UNCHANGED vars
        BY <2>5 DEF vars
    <2> QED
        BY <2>1, <2>2, <2>3, <2>4, <2>5 DEF Next
<1> QED
    BY <1>1, <1>2, PTL DEF Spec

\* The tokens left in a bucket and those it gave in the window come out of
\* one budget.  This is what makes WindowBound inductive: without it a full
\* window could still hold tokens.
Potential ==
    \A p \in Procs, x \in Peers :
        TokenUnit * count[p][x] + Refilled(buckets[p][x], now).tokens <= WindowBudget

WindowInv == TypeOK /\ Potential /\ WindowBound

LEMMA BudgetType == TypeOK => WindowBudget \in Int /\ WindowBudget >= Capacity
<1> SUFFICES ASSUME TypeOK PROVE WindowBudget \in Int /\ WindowBudget >= Capacity
    OBVIOUS
<1>1. age \in Nat /\ age * Rate \in Int /\ age * Rate >= 0
    BY OneSecond DEF TypeOK
<1> QED
    BY <1>1, Settings DEF WindowBudget

LEMMA WindowStep == WindowInv /\ TypeOK' /\ [Next]_vars => WindowInv'
<1> SUFFICES ASSUME TypeOK, Potential, WindowBound, TypeOK', [Next]_vars
             PROVE  Potential' /\ WindowBound'
    BY DEF WindowInv
<1> SUFFICES ASSUME NEW q \in Procs, NEW y \in Peers
             PROVE  /\ TokenUnit * count'[q][y]
                         + Refilled(buckets'[q][y], now').tokens <= WindowBudget'
                    /\ TokenUnit * count'[q][y] <= WindowBudget'
    BY DEF Potential, WindowBound
<1> DEFINE b == buckets[q][y]
           r == Refilled(b, now).tokens
<1>1. /\ b \in Bucket \cup {NoBucket} /\ now \in Nat /\ now' \in Nat
      /\ count[q][y] \in Nat /\ count'[q][y] \in Nat
      /\ buckets'[q][y] \in Bucket \cup {NoBucket}
      /\ age \in Nat
    BY DEF TypeOK
<1>2. WindowBudget \in Int /\ WindowBudget >= Capacity
    BY BudgetType
<1>3. r \in Int /\ r <= Capacity /\ Refilled(buckets'[q][y], now').tokens \in Int
    BY <1>1, RefilledBucket DEF Bucket
<1>4. /\ TokenUnit * count[q][y] + r <= WindowBudget
      /\ TokenUnit * count[q][y] <= WindowBudget
    BY DEF Potential, WindowBound
<1>5. TokenUnit = 60 /\ Rate \in Nat /\ Capacity \in Nat
    BY Settings
<1>6. ASSUME UNCHANGED <<now, age>>, buckets'[q][y] = b, count'[q][y] = count[q][y]
      PROVE  /\ TokenUnit * count'[q][y]
                  + Refilled(buckets'[q][y], now').tokens <= WindowBudget'
             /\ TokenUnit * count'[q][y] <= WindowBudget'
    BY <1>4, <1>6 DEF WindowBudget
<1>7. ASSUME NEW p \in Procs, NEW x \in Peers, Admit(p, x) \/ Refuse(p, x)
      PROVE  /\ TokenUnit * count'[q][y]
                  + Refilled(buckets'[q][y], now').tokens <= WindowBudget'
             /\ TokenUnit * count'[q][y] <= WindowBudget'
    <2>1. CASE p = q /\ x = y
        <3>1. /\ now' = now /\ age' = age
              /\ buckets'[q][y] = AfterCheck(b, now)
              /\ count'[q][y] = IF HasToken(b, now) THEN count[q][y] + 1
                                                    ELSE count[q][y]
            BY <1>7, <2>1 DEF Admit, Refuse, TypeOK
        <3>2. Refilled(AfterCheck(b, now), now).tokens
                = IF HasToken(b, now) THEN r - TokenUnit ELSE r
            BY <1>1, Checked
        <3>3. HasToken(b, now) => r >= TokenUnit
            BY DEF HasToken
        <3>4. WindowBudget' = WindowBudget
            BY <3>1 DEF WindowBudget
        <3> HIDE DEF b, r
        <3> QED
            BY <1>1, <1>2, <1>3, <1>4, <1>5, <3>1, <3>2, <3>3, <3>4
    <2>2. CASE ~(p = q /\ x = y)
        <3>1. /\ UNCHANGED <<now, age>> /\ buckets'[q][y] = b
              /\ count'[q][y] = count[q][y]
            BY <1>7, <2>2 DEF Admit, Refuse, TypeOK
        <3> QED
            BY <1>6, <3>1
    <2> QED
        BY <2>1, <2>2
<1>8. ASSUME NEW p \in Procs, Restart(p)
      PROVE  /\ TokenUnit * count'[q][y]
                  + Refilled(buckets'[q][y], now').tokens <= WindowBudget'
             /\ TokenUnit * count'[q][y] <= WindowBudget'
    <2>1. CASE p = q
        <3>1. /\ count'[q][y] = 0 /\ buckets'[q][y] = NoBucket
              /\ UNCHANGED <<now, age>>
            BY <1>8, <2>1 DEF Restart, PerPeer, TypeOK
        <3>2. WindowBudget' = WindowBudget
            BY <3>1 DEF WindowBudget
        <3>3. Refilled(buckets'[q][y], now').tokens <= Capacity
            BY <1>1, RefilledBucket
        <3> QED
            BY <1>2, <1>3, <1>5, <3>1, <3>2, <3>3
    <2>2. CASE p # q
        <3>1. /\ UNCHANGED <<now, age>> /\ buckets'[q][y] = b
              /\ count'[q][y] = count[q][y]
            BY <1>8, <2>2 DEF Restart, TypeOK
        <3> QED
            BY <1>6, <3>1
    <2> QED
        BY <2>1, <2>2
<1>9. CASE Tick
    <2>1. /\ now' = now + 1 /\ age' = age + 1
          /\ buckets' = buckets /\ count' = count
        BY <1>9 DEF Tick
    <2>2. Refilled(b, now + 1).tokens <= r + Rate
        BY <1>1, RefillSpeed
    <2>3. WindowBudget' = WindowBudget + Rate
        BY <1>1, <1>5, <2>1, OneSecond DEF WindowBudget
    <2> HIDE DEF r
    <2> QED
        BY <1>1, <1>2, <1>3, <1>4, <1>5, <2>1, <2>2, <2>3
<1>10. CASE StepBack
    <2>1. now' = now - 1 /\ now > 0 /\ UNCHANGED <<buckets, count, age>>
        BY <1>10 DEF StepBack
    <2>2. Refilled(b, now - 1).tokens <= r
        BY <1>1, <2>1, RefillSpeed
    <2>3. WindowBudget' = WindowBudget
        BY <2>1 DEF WindowBudget
    <2> HIDE DEF r
    <2> QED
        BY <1>1, <1>2, <1>3, <1>4, <1>5, <2>1, <2>2, <2>3
<1>11. CASE OpenWindow
    <2>1. count'[q][y] = 0 /\ age' = 0
        BY <1>11 DEF OpenWindow, PerPeer, TypeOK
    <2>2. WindowBudget' = Capacity
        BY <1>5, <2>1 DEF WindowBudget
    <2>3. Refilled(buckets'[q][y], now').tokens <= Capacity
        BY <1>1, RefilledBucket
    <2> QED
        BY <1>3, <1>5, <2>1, <2>2, <2>3
<1>12. CASE UNCHANGED vars
    BY <1>6, <1>12 DEF vars
<1> QED
    BY <1>7, <1>8, <1>9, <1>10, <1>11, <1>12 DEF Next

\* check_rate admits no more than burst + rate * length in any window in which
\* the process does not restart, whatever the clock does.
THEOREM WindowBoundHolds == Spec => []WindowBound
<1>1. Init => Potential /\ WindowBound
    <2> SUFFICES ASSUME Init, NEW p \in Procs, NEW x \in Peers
                 PROVE  /\ TokenUnit * count[p][x]
                             + Refilled(buckets[p][x], now).tokens <= WindowBudget
                        /\ TokenUnit * count[p][x] <= WindowBudget
        BY DEF Potential, WindowBound
    <2>1. /\ count[p][x] = 0 /\ buckets[p][x] = NoBucket /\ now = 0
          /\ WindowBudget = Capacity
        BY Settings DEF Init, PerPeer, WindowBudget
    <2>2. Refilled(NoBucket, 0).tokens = Capacity
        BY Settings DEF Refilled
    <2> QED
        BY <2>1, <2>2, Settings
<1>2. WindowInv => WindowBound
    BY DEF WindowInv
<1> QED
    BY <1>1, <1>2, WindowStep, TypeCorrect, PTL DEF Spec, WindowInv

-----------------------------------------------------------------------------

\* While the clock never went back, a bucket holds at least what has been
\* refilled since the last admission, or is full.
SinceLast(b, t) ==
    /\ t \in Nat /\ t <= b.updated
    /\ b.tokens >= Capacity \/ b.tokens >= (b.updated - t) * Rate

SpentInv ==
    backs = 0 => \A p \in Procs, x \in Peers :
        buckets[p][x] # NoBucket =>
            /\ SinceLast(buckets[p][x], last[p][x])
            /\ buckets[p][x].updated <= now

\* Refilling keeps SinceLast.
LEMMA RefilledSince ==
    ASSUME NEW b \in Bucket, NEW t \in Nat, NEW u \in Nat,
           SinceLast(b, t), b.updated <= u, b # NoBucket
    PROVE  SinceLast(Refilled(b, u), t)
<1> DEFINE d == b.updated - t
           e == u - b.updated
<1>1. /\ b.tokens \in Int /\ b.updated \in Nat /\ t <= b.updated
      /\ b.tokens >= Capacity \/ b.tokens >= d * Rate
    BY DEF Bucket, SinceLast
<1>2. d \in Nat /\ e \in Nat /\ u - t = d + e
    BY <1>1
<1>3. Rate \in Nat /\ Capacity \in Nat
    BY Settings
<1>4. d * Rate \in Nat /\ e * Rate \in Nat /\ (d + e) * Rate = d * Rate + e * Rate
    <2> HIDE DEF d, e
    <2> QED
        BY <1>2, <1>3, SMT
<1>5. /\ Refilled(b, u).updated = u
      /\ Refilled(b, u).tokens = IF b.tokens + e * Rate < Capacity
                                 THEN b.tokens + e * Rate ELSE Capacity
    BY DEF Refilled
<1>6. Refilled(b, u).tokens >= Capacity \/ Refilled(b, u).tokens >= (u - t) * Rate
    <2> HIDE DEF d, e
    <2> QED
        BY <1>1, <1>2, <1>3, <1>4, <1>5
<1> QED
    BY <1>1, <1>5, <1>6 DEF SinceLast

\* A refused peer's bucket exists, and its refill since the last admission
\* does not make a token.
LEMMA RefusalSpent ==
    ASSUME TypeOK, SpentInv, backs = 0,
           NEW p \in Procs, NEW x \in Peers, ~HasToken(buckets[p][x], now)
    PROVE  /\ buckets[p][x] # NoBucket
           /\ SinceLast(AfterCheck(buckets[p][x], now), last[p][x])
           /\ last[p][x] \in Nat
           /\ (now - last[p][x]) * Rate < TokenUnit
<1> DEFINE b == buckets[p][x]
<1>1. b \in Bucket \cup {NoBucket} /\ now \in Nat
    BY DEF TypeOK
<1>2. b # NoBucket
    <2> SUFFICES ASSUME b = NoBucket PROVE FALSE
        OBVIOUS
    <2> QED
        BY Settings DEF HasToken, Refilled
<1>3. last[p][x] \in Nat /\ SinceLast(b, last[p][x]) /\ b.updated <= now
    BY <1>2 DEF SpentInv, SinceLast
<1>4. SinceLast(Refilled(b, now), last[p][x])
    BY <1>1, <1>2, <1>3, RefilledSince
<1>5. AfterCheck(b, now) = Refilled(b, now)
    BY DEF AfterCheck
<1>6. Refilled(b, now).tokens \in Int /\ Refilled(b, now).updated = now
    BY <1>1, RefilledBucket DEF Bucket
<1>7. now - last[p][x] \in Int /\ (now - last[p][x]) * Rate \in Int
    BY <1>1, <1>3, OneSecond
<1>8. ~(Refilled(b, now).tokens >= TokenUnit)
    BY DEF HasToken
<1> QED
    BY <1>2, <1>3, <1>4, <1>5, <1>6, <1>7, <1>8, Settings DEF SinceLast

LEMMA SpentStep == TypeOK /\ SpentInv /\ [Next]_vars => SpentInv'
<1> SUFFICES ASSUME TypeOK, SpentInv, [Next]_vars, backs' = 0,
                    NEW q \in Procs, NEW y \in Peers, buckets'[q][y] # NoBucket
             PROVE  /\ SinceLast(buckets'[q][y], last'[q][y])
                    /\ buckets'[q][y].updated <= now'
    BY DEF SpentInv
<1> DEFINE b == buckets[q][y]
<1>1. /\ b \in Bucket \cup {NoBucket} /\ now \in Nat /\ backs \in Nat
      /\ b \in Bucket => b.updated \in Nat
    BY DEF TypeOK, Bucket
<1>2. backs = 0 /\ ~StepBack
    BY <1>1 DEF Next, StepBack, Admit, Refuse, Restart, Tick, OpenWindow, vars
<1>3. b # NoBucket => SinceLast(b, last[q][y]) /\ b.updated <= now
    BY <1>2 DEF SpentInv
<1>4. ASSUME buckets'[q][y] = b, last'[q][y] = last[q][y], now' = now \/ now' = now + 1
      PROVE  /\ SinceLast(buckets'[q][y], last'[q][y])
             /\ buckets'[q][y].updated <= now'
    <2>1. b \in Bucket /\ SinceLast(b, last[q][y]) /\ b.updated <= now
        BY <1>1, <1>3, <1>4
    <2> HIDE DEF b
    <2> QED
        BY <1>1, <1>4, <2>1
<1>5. ASSUME NEW p \in Procs, NEW x \in Peers, Admit(p, x)
      PROVE  /\ SinceLast(buckets'[q][y], last'[q][y])
             /\ buckets'[q][y].updated <= now'
    <2>1. CASE p = q /\ x = y
        <3>1. /\ buckets'[q][y] = AfterCheck(b, now) /\ last'[q][y] = now
              /\ now' = now /\ HasToken(b, now)
            BY <1>5, <2>1 DEF Admit, TypeOK
        <3>2. /\ AfterCheck(b, now).updated = now
              /\ AfterCheck(b, now).tokens = Refilled(b, now).tokens - TokenUnit
            BY <1>1, <3>1, Checked, RefilledBucket DEF AfterCheck, Bucket
        <3>3. Refilled(b, now).tokens \in Int /\ Refilled(b, now).tokens >= TokenUnit
            BY <1>1, <3>1, RefilledBucket DEF HasToken, Bucket
        <3>4. (now - now) * Rate = 0
            BY <1>1, Settings
        <3> QED
            BY <1>1, <3>1, <3>2, <3>3, <3>4, Settings DEF SinceLast
    <2>2. CASE ~(p = q /\ x = y)
        <3>1. buckets'[q][y] = b /\ last'[q][y] = last[q][y] /\ now' = now
            BY <1>5, <2>2 DEF Admit, TypeOK
        <3> QED
            BY <1>4, <3>1
    <2> QED
        BY <2>1, <2>2
<1>6. ASSUME NEW p \in Procs, NEW x \in Peers, Refuse(p, x)
      PROVE  /\ SinceLast(buckets'[q][y], last'[q][y])
             /\ buckets'[q][y].updated <= now'
    <2>1. CASE p = q /\ x = y
        <3>1. /\ buckets'[q][y] = AfterCheck(b, now) /\ last'[q][y] = last[q][y]
              /\ now' = now /\ ~HasToken(b, now)
            BY <1>6, <2>1 DEF Refuse, TypeOK
        <3>2. SinceLast(AfterCheck(b, now), last[q][y])
            BY <1>2, <3>1, RefusalSpent
        <3>3. AfterCheck(b, now).updated = now
            BY <1>1, Checked
        <3> QED
            BY <1>1, <3>1, <3>2, <3>3
    <2>2. CASE ~(p = q /\ x = y)
        <3>1. buckets'[q][y] = b /\ last'[q][y] = last[q][y] /\ now' = now
            BY <1>6, <2>2 DEF Refuse, TypeOK
        <3> QED
            BY <1>4, <3>1
    <2> QED
        BY <2>1, <2>2
<1>7. ASSUME NEW p \in Procs, Restart(p)
      PROVE  /\ SinceLast(buckets'[q][y], last'[q][y])
             /\ buckets'[q][y].updated <= now'
    <2>1. p # q
        BY <1>7 DEF Restart, PerPeer, TypeOK
    <2>2. buckets'[q][y] = b /\ last'[q][y] = last[q][y] /\ now' = now
        BY <1>7, <2>1 DEF Restart, TypeOK
    <2> QED
        BY <1>4, <2>2
<1>8. CASE Tick \/ OpenWindow \/ UNCHANGED vars
    BY <1>4, <1>8 DEF Tick, OpenWindow, vars
<1> QED
    BY <1>2, <1>5, <1>6, <1>7, <1>8 DEF Next

\* A peer that waits one token's refill after its last admission is never
\* refused, whatever the other peers and its own refused requests did, as
\* long as the clock was not set back.
THEOREM RefusalsAreSpent == Spec => RefusedOnlyWhenSpent
<1>1. Init => SpentInv
    BY DEF Init, SpentInv, PerPeer
<1>2. TypeOK /\ SpentInv /\ [Next]_vars =>
        [\A p \in Procs, x \in Peers :
            Refuse(p, x) /\ backs = 0 =>
               /\ last[p][x] # -1
               /\ (now - last[p][x]) * Rate < TokenUnit]_vars
    <2> SUFFICES ASSUME TypeOK, SpentInv, NEW p \in Procs, NEW x \in Peers,
                        Refuse(p, x), backs = 0
                 PROVE  /\ last[p][x] # -1
                        /\ (now - last[p][x]) * Rate < TokenUnit
        OBVIOUS
    <2>1. last[p][x] \in Nat /\ (now - last[p][x]) * Rate < TokenUnit
        BY RefusalSpent DEF Refuse
    <2> QED
        BY <2>1
<1> QED
    BY <1>1, <1>2, SpentStep, TypeCorrect, PTL DEF Spec, RefusedOnlyWhenSpent
=============================================================================
