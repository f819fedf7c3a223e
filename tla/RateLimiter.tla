---------------------------- MODULE RateLimiter ----------------------------
(***************************************************************************)
(* PolicyEngine.check_rate in time: every server process keeps its own     *)
(* buckets in memory and loses them when it restarts.  An observer counts  *)
(* the admitted requests in a window it may open at any moment.            *)
(***************************************************************************)
EXTENDS TokenBucket

CONSTANTS
    Procs,      \* server processes of one node (pip-http, pip-mcp)
    Peers,
    MaxTime,    \* bound on the clock and on the age of a window
    MaxBacks    \* bound on steps of the wall clock backwards

ASSUME LimiterAssumption == MaxTime \in Nat /\ MaxBacks \in Nat

VARIABLES
    now,        \* the wall clock check_rate reads
    buckets,    \* buckets[p][x]: process p's PolicyEngine._buckets entry for x
    count,      \* count[p][x]: admissions in the window (observer)
    age,        \* seconds that really passed in the window (observer)
    last,       \* last[p][x]: clock at x's last admission by p, -1 if none
    backs       \* number of backward clock steps so far

vars == <<now, buckets, count, age, last, backs>>

PerPeer(v) == [x \in Peers |-> v]

TypeOK ==
    /\ now \in Nat
    /\ buckets \in [Procs -> [Peers -> Bucket \cup {NoBucket}]]
    /\ count \in [Procs -> [Peers -> Nat]]
    /\ age \in Nat
    /\ last \in [Procs -> [Peers -> Nat \cup {-1}]]
    /\ backs \in Nat

Init ==
    /\ now = 0
    /\ buckets = [p \in Procs |-> PerPeer(NoBucket)]
    /\ count = [p \in Procs |-> PerPeer(0)]
    /\ age = 0
    /\ last = [p \in Procs |-> PerPeer(-1)]
    /\ backs = 0

\* check_rate returns: one token is spent.
Admit(p, x) ==
    /\ HasToken(buckets[p][x], now)
    /\ buckets' = [buckets EXCEPT ![p][x] = AfterCheck(@, now)]
    /\ count' = [count EXCEPT ![p][x] = @ + 1]
    /\ last' = [last EXCEPT ![p][x] = now]
    /\ UNCHANGED <<now, age, backs>>

\* check_rate raises RATE_LIMITED; the refill has been stored already.
Refuse(p, x) ==
    /\ ~HasToken(buckets[p][x], now)
    /\ buckets' = [buckets EXCEPT ![p][x] = AfterCheck(@, now)]
    /\ UNCHANGED <<now, count, age, last, backs>>

\* The buckets live in the process.
Restart(p) ==
    /\ buckets' = [buckets EXCEPT ![p] = PerPeer(NoBucket)]
    /\ count' = [count EXCEPT ![p] = PerPeer(0)]
    /\ UNCHANGED <<now, age, last, backs>>

\* A second passes.
Tick ==
    /\ now < MaxTime /\ age < MaxTime
    /\ now' = now + 1
    /\ age' = age + 1
    /\ UNCHANGED <<buckets, count, last, backs>>

\* The wall clock (SystemClock is not monotonic) is set back by a second.
StepBack ==
    /\ backs < MaxBacks /\ now > 0
    /\ now' = now - 1
    /\ backs' = backs + 1
    /\ UNCHANGED <<buckets, count, age, last>>

\* The observer opens a new window here.
OpenWindow ==
    /\ count' = [p \in Procs |-> PerPeer(0)]
    /\ age' = 0
    /\ UNCHANGED <<now, buckets, last, backs>>

Next ==
    \/ \E p \in Procs, x \in Peers : Admit(p, x) \/ Refuse(p, x)
    \/ \E p \in Procs : Restart(p)
    \/ Tick \/ StepBack \/ OpenWindow

Spec == Init /\ [][Next]_vars

-----------------------------------------------------------------------------

\* What a window may still admit, on top of the time that passes in it.
WindowBudget == Capacity + age * Rate

\* policy.py check_rate: in any window of time in which a process does not
\* restart, it admits at most burst + rate * length requests of one peer,
\* even when its clock steps back in between.
WindowBound ==
    \A p \in Procs, x \in Peers : TokenUnit * count[p][x] <= WindowBudget

\* policy.py check_rate: while the clock has not been set back, a peer is
\* refused only within the time one token takes to refill after one of its
\* own admissions; requests that were refused, or other peers', cost it nothing.
RefusedOnlyWhenSpent ==
    [][\A p \in Procs, x \in Peers :
         Refuse(p, x) /\ backs = 0 =>
            /\ last[p][x] # -1
            /\ (now - last[p][x]) * Rate < TokenUnit]_vars
=============================================================================
