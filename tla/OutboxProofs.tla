---------------------------- MODULE OutboxProofs ----------------------------
(***************************************************************************)
(* The safety of Outbox: for every number of items, attempts, crashes and  *)
(* workers, nothing leaves the queue unanswered; and, for every setting    *)
(* with one worker, settled items stay settled and sends are bounded.      *)
(***************************************************************************)
EXTENDS Outbox, TLAPS

\* A row that is not dead has attempts left.
AttemptsLeft ==
    \A i \in Items : outbox[i] # Absent /\ ~outbox[i].dead => outbox[i].attempts < MaxAttempts

TInv == TypeOK /\ AttemptsLeft

\* mark_failed and mark_dead store a row that is dead or has attempts left.
LEMMA MarkedRow ==
    ASSUME NEW c \in Copy
    PROVE  /\ Failed(c) \in Row /\ Failed(c).attempts = c.attempts + 1
           /\ Failed(c).dead \/ Failed(c).attempts < MaxAttempts
           /\ Dead(c) \in Row /\ Dead(c).dead /\ Dead(c).attempts = MaxAttempts
           /\ Failed(c) # Absent /\ Dead(c) # Absent
<1>1. c.attempts \in Nat /\ c.attempts + 1 \in 0..MaxAttempts /\ MaxAttempts \in Nat \ {0}
    BY OutboxAssumption DEF Copy
<1>2. \A n \in Nat : BackoffBase * 2^n \in Int
    BY OutboxAssumption
<1>3. Doubled(c.attempts + 1) \in Int
    BY <1>1, <1>2 DEF Doubled
<1>4. Backoff(c.attempts + 1) \in Int
    BY <1>3, OutboxAssumption DEF Backoff
<1>5. Failed(c) \in Row /\ Failed(c).attempts = c.attempts + 1
      /\ Failed(c).dead = (c.attempts + 1 >= MaxAttempts)
    BY <1>1, <1>4 DEF Failed, Row
<1>6. Failed(c).dead \/ Failed(c).attempts < MaxAttempts
    <2>1. CASE c.attempts + 1 >= MaxAttempts
        BY <2>1, Zenon DEF Failed
    <2>2. CASE ~(c.attempts + 1 >= MaxAttempts)
        BY <1>1, <1>5, <2>2
    <2> QED
        BY <2>1, <2>2
<1>7. Dead(c) \in Row /\ Dead(c).dead /\ Dead(c).attempts = MaxAttempts
    BY <1>1 DEF Dead, Row
<1>8. Absent.attempts = -1
    BY DEF Absent
<1> QED
    BY <1>1, <1>5, <1>6, <1>7, <1>8

\* What a send leaves in the queue.
LEMMA MarkedIsRow ==
    ASSUME NEW c \in Copy, NEW o \in Outcomes
    PROVE  /\ Marked(c, o) \in Row \cup {Absent}
           /\ o \in Answers <=> Marked(c, o) = Absent
           /\ o \notin Answers => \/ Marked(c, o).dead
                                  \/ /\ Marked(c, o).attempts = c.attempts + 1
                                     /\ Marked(c, o).attempts < MaxAttempts
<1>1. c.attempts \in Nat /\ MaxAttempts \in Nat
    BY OutboxAssumption DEF Copy
<1>2. CASE o \in Answers
    <2>1. Marked(c, o) = Absent
        BY <1>2, Zenon DEF Marked, Answers
    <2> QED
        BY <1>2, <2>1
<1>3. CASE o \notin Answers /\ o = "bad_response"
    <2>1. Marked(c, o) = Dead(c)
        BY <1>3, Zenon DEF Marked
    <2> QED
        BY <1>3, <2>1, MarkedRow
<1>4. CASE o \notin Answers /\ o # "bad_response"
    <2>1. Marked(c, o) = Failed(c)
        BY <1>4, Zenon DEF Marked
    <2> QED
        BY <1>1, <1>4, <2>1, MarkedRow
<1> QED
    BY <1>2, <1>3, <1>4

\* A row stays a row while time passes, an absent one absent and a due one due.
LEMMA AgedRow ==
    ASSUME NEW r \in Row \cup {Absent}
    PROVE  /\ Aged(r) \in Row \cup {Absent}
           /\ Aged(r).attempts = r.attempts /\ Aged(r).dead = r.dead
           /\ Aged(r) = Absent <=> r = Absent
           /\ r.delay <= 0 => Aged(r) = r
<1>1. CASE r = Absent
    BY <1>1 DEF Absent, Aged
<1>2. CASE r \in Row
    <2>1. r = [attempts |-> r.attempts, delay |-> r.delay, dead |-> r.dead]
        BY <1>2 DEF Row
    <2>2. r.attempts # -1 /\ r.delay \in Int
        BY <1>2, OutboxAssumption DEF Row
    <2> QED
        BY <1>2, <2>1, <2>2 DEF Row, Absent, Aged
<1> QED
    BY <1>1, <1>2

-----------------------------------------------------------------------------

LEMMA TypedStart == Init => TInv
    BY OutboxAssumption DEF Init, TInv, TypeOK, AttemptsLeft, Absent

LEMMA TypedStep == TInv /\ [Next]_vars => TInv'
<1> SUFFICES ASSUME TInv, [Next]_vars PROVE TInv'
    OBVIOUS
<1> USE DEF TInv, TypeOK
<1>1. ASSUME NEW i \in Items, Enqueue(i) PROVE TInv'
    <2>1. [attempts |-> 0, delay |-> 0, dead |-> FALSE] \in Row
        BY OutboxAssumption DEF Row
    <2> QED
        BY <1>1, <2>1, OutboxAssumption DEF Enqueue, AttemptsLeft
<1>2. ASSUME NEW w \in Workers, StartPass(w) PROVE TInv'
    <2>1. {[item |-> i, attempts |-> outbox[i].attempts] : i \in Due} \in SUBSET Copy
        BY OutboxAssumption DEF Due, Copy, AttemptsLeft, Row
    <2> QED
        BY <1>2, <2>1 DEF StartPass, AttemptsLeft
<1>3. ASSUME NEW w \in Workers, NEW c \in pass[w], NEW o \in Outcomes, Send(w, c, o)
      PROVE  TInv'
    <2>1. c \in Copy /\ c.item \in Items
        BY DEF Copy
    <2>2. pass' \in [Workers -> SUBSET Copy]
        BY <1>3 DEF Send
    <2>3. sending' \in [Workers -> [copy : Copy, outcome : Outcomes] \cup {NotSending}]
        BY <1>3, <2>1 DEF Send
    <2>4. answered' \subseteq Items
        BY <1>3, <2>1 DEF Send
    <2>5. sends' \in [Items -> Nat]
        BY <1>3, <2>1 DEF Send
    <2> QED
        BY <1>3, <2>2, <2>3, <2>4, <2>5 DEF Send, AttemptsLeft
<1>4. ASSUME NEW w \in Workers, NEW c \in pass[w], NoClient(w, c) PROVE TInv'
    <2>1. c \in Copy /\ c.item \in Items /\ c.attempts \in Nat
        BY OutboxAssumption DEF Copy
    <2>2. pass' \in [Workers -> SUBSET Copy]
        BY <1>4 DEF NoClient
    <2>3. outbox' \in [Items -> Row \cup {Absent}]
        BY <1>4, <2>1, MarkedRow DEF NoClient
    <2>4. AttemptsLeft'
        BY <1>4, <2>1, MarkedRow, OutboxAssumption DEF NoClient, AttemptsLeft
    <2> QED
        BY <1>4, <2>2, <2>3, <2>4 DEF NoClient
<1>5. ASSUME NEW w \in Workers, Mark(w) PROVE TInv'
    <2> DEFINE c == sending[w].copy
    <2>1. c \in Copy /\ c.item \in Items /\ sending[w].outcome \in Outcomes
        BY <1>5 DEF Mark, Copy
    <2>2. outbox' \in [Items -> Row \cup {Absent}]
        BY <1>5, <2>1, MarkedIsRow DEF Mark
    <2>3. AttemptsLeft'
        BY <1>5, <2>1, MarkedIsRow DEF Mark, AttemptsLeft
    <2>4. sending' \in [Workers -> [copy : Copy, outcome : Outcomes] \cup {NotSending}]
        BY <1>5 DEF Mark
    <2> QED
        BY <1>5, <2>2, <2>3, <2>4 DEF Mark
<1>6. ASSUME NEW w \in Workers, Crash(w) PROVE TInv'
    BY <1>6 DEF Crash, AttemptsLeft
<1>7. ASSUME Tick PROVE TInv'
    <2>1. outbox' \in [Items -> Row \cup {Absent}]
        BY <1>7, AgedRow DEF Tick
    <2>2. AttemptsLeft'
        BY <1>7, AgedRow DEF Tick, AttemptsLeft
    <2> QED
        BY <1>7, <2>1, <2>2 DEF Tick
<1>8. ASSUME UNCHANGED vars PROVE TInv'
    BY <1>8 DEF vars, AttemptsLeft
<1> QED
    BY <1>1, <1>2, <1>3, <1>4, <1>5, <1>6, <1>7, <1>8 DEF Next, Work

\* For every number of items, workers, attempts and crashes, Outbox keeps its
\* rows, snapshots and marks well-formed.
THEOREM TypeCorrect == Spec => []TypeOK
<1>1. TInv => TypeOK
    BY DEF TInv
<1> QED
    BY TypedStart, TypedStep, <1>1, PTL DEF Spec

\* The same, with the attempts that live rows have left.
THEOREM Typed == Spec => []TInv
    BY TypedStart, TypedStep, PTL DEF Spec

-----------------------------------------------------------------------------
(* Nothing leaves the queue unanswered.                                    *)

\* An answer that is about to be marked has been recorded.
AnswerRecorded ==
    \A w \in Workers :
        sending[w] # NotSending /\ sending[w].outcome \in Answers
            => sending[w].copy.item \in answered

AInv == AnswerRecorded /\ RemovedOnlyAnswered

LEMMA AnsweredStep == TInv /\ AInv /\ [Next]_vars => AInv'
<1> SUFFICES ASSUME TInv, AInv, [Next]_vars PROVE AInv'
    OBVIOUS
<1> USE DEF TInv, TypeOK, AInv
<1>1. ASSUME NEW i \in Items, Enqueue(i) PROVE AInv'
    <2>1. [attempts |-> 0, delay |-> 0, dead |-> FALSE] # Absent
        BY DEF Absent
    <2> QED
        BY <1>1, <2>1 DEF Enqueue, AnswerRecorded, RemovedOnlyAnswered
<1>2. ASSUME NEW w \in Workers, StartPass(w) PROVE AInv'
    BY <1>2 DEF StartPass, AnswerRecorded, RemovedOnlyAnswered
<1>3. ASSUME NEW w \in Workers, NEW c \in pass[w], NEW o \in Outcomes, Send(w, c, o)
      PROVE  AInv'
    <2>1. AnswerRecorded'
        BY <1>3 DEF Send, AnswerRecorded
    <2>2. RemovedOnlyAnswered'
        BY <1>3 DEF Send, RemovedOnlyAnswered
    <2> QED
        BY <2>1, <2>2
<1>4. ASSUME NEW w \in Workers, NEW c \in pass[w], NoClient(w, c) PROVE AInv'
    <2>1. c \in Copy /\ Failed(c) # Absent
        BY MarkedRow
    <2> QED
        BY <1>4, <2>1 DEF NoClient, AnswerRecorded, RemovedOnlyAnswered
<1>5. ASSUME NEW w \in Workers, Mark(w) PROVE AInv'
    <2>1. sending[w].copy \in Copy /\ sending[w].outcome \in Outcomes
        BY <1>5 DEF Mark
    <2>2. AnswerRecorded'
        BY <1>5 DEF Mark, AnswerRecorded
    <2>3. RemovedOnlyAnswered'
        BY <1>5, <2>1, MarkedIsRow DEF Mark, AnswerRecorded, RemovedOnlyAnswered
    <2> QED
        BY <2>2, <2>3
<1>6. ASSUME NEW w \in Workers, Crash(w) PROVE AInv'
    BY <1>6 DEF Crash, AnswerRecorded, RemovedOnlyAnswered
<1>7. ASSUME Tick PROVE AInv'
    BY <1>7, AgedRow DEF Tick, AnswerRecorded, RemovedOnlyAnswered
<1>8. ASSUME UNCHANGED vars PROVE AInv'
    BY <1>8 DEF vars, AnswerRecorded, RemovedOnlyAnswered
<1> QED
    BY <1>1, <1>2, <1>3, <1>4, <1>5, <1>6, <1>7, <1>8 DEF Next, Work

\* deliver_outbox, any number of workers with any snapshots, however stale: an
\* item leaves the queue only after an answer the peer signed.
THEOREM NothingLostUnanswered == Spec => []RemovedOnlyAnswered
<1>1. Init => AInv
    BY DEF Init, AInv, AnswerRecorded, RemovedOnlyAnswered
<1>2. AInv => RemovedOnlyAnswered
    BY DEF AInv
<1> QED
    BY Typed, <1>1, AnsweredStep, <1>2, PTL DEF Spec

-----------------------------------------------------------------------------
(* One worker.                                                             *)

OneWorker == \A v, w \in Workers : v = w

\* The row a worker's copy was read from, unchanged since.
IsFresh(c) ==
    /\ c.item \in enqueued
    /\ outbox[c.item] # Absent /\ ~outbox[c.item].dead
    /\ outbox[c.item].delay <= 0
    /\ outbox[c.item].attempts = c.attempts

\* With one worker copies do not grow stale, and there is one for an item.
CopiesFresh ==
    \A w \in Workers :
        /\ \A c \in pass[w] : IsFresh(c)
        /\ \A c, d \in pass[w] : c.item = d.item => c = d
        /\ sending[w] # NotSending =>
             /\ IsFresh(sending[w].copy)
             /\ \A c \in pass[w] : c.item # sending[w].copy.item

\* Only what was enqueued has a row.
RowsEnqueued == \A i \in Items : outbox[i] # Absent => i \in enqueued

FInv == RowsEnqueued /\ CopiesFresh

LEMMA FreshStep ==
    ASSUME OneWorker, TInv, FInv, [Next]_vars
    PROVE  FInv'
<1> USE DEF TInv, TypeOK, FInv
<1>1. ASSUME NEW i \in Items, Enqueue(i) PROVE FInv'
    <2>1. outbox[i] = Absent
        BY <1>1 DEF Enqueue, RowsEnqueued
    <2>2. CopiesFresh'
        BY <1>1, <2>1 DEF Enqueue, CopiesFresh, IsFresh, Copy
    <2>3. RowsEnqueued'
        BY <1>1 DEF Enqueue, RowsEnqueued
    <2> QED
        BY <2>2, <2>3
<1>2. ASSUME NEW w \in Workers, StartPass(w) PROVE FInv'
    <2>1. pass'[w] = {[item |-> i, attempts |-> outbox[i].attempts] : i \in Due}
        BY <1>2 DEF StartPass
    <2>2. \A c \in pass'[w] : IsFresh(c)'
        BY <1>2, <2>1 DEF StartPass, Due, RowsEnqueued, IsFresh
    <2>3. \A c, d \in pass'[w] : c.item = d.item => c = d
        BY <2>1
    <2>4. \A v \in Workers : v = w
        BY DEF OneWorker
    <2> QED
        BY <1>2, <2>2, <2>3, <2>4 DEF StartPass, RowsEnqueued, CopiesFresh
<1>3. ASSUME NEW w \in Workers, NEW c \in pass[w], NEW o \in Outcomes, Send(w, c, o)
      PROVE  FInv'
    <2>1. \A v \in Workers : v = w
        BY DEF OneWorker
    <2>2. /\ sending'[w].copy = c /\ pass'[w] = pass[w] \ {c}
          /\ outbox' = outbox /\ enqueued' = enqueued
        BY <1>3 DEF Send
    <2> QED
        BY <1>3, <2>1, <2>2 DEF Send, RowsEnqueued, CopiesFresh, IsFresh
<1>4. ASSUME NEW w \in Workers, NEW c \in pass[w], NoClient(w, c) PROVE FInv'
    <2>1. \A v \in Workers : v = w
        BY DEF OneWorker
    <2>2. /\ pass'[w] = pass[w] \ {c} /\ enqueued' = enqueued /\ sending'[w] = NotSending
          /\ outbox' = [outbox EXCEPT ![c.item] = Failed(c)] /\ c.item \in Items
        BY <1>4 DEF NoClient, Copy
    <2>3. \A d \in pass'[w] : d.item # c.item /\ d.item \in Items
        BY <2>2 DEF CopiesFresh, Copy
    <2>4. CopiesFresh'
        BY <2>1, <2>2, <2>3 DEF CopiesFresh, IsFresh
    <2>5. RowsEnqueued'
        BY <2>2 DEF RowsEnqueued, CopiesFresh, IsFresh
    <2> QED
        BY <2>4, <2>5
<1>5. ASSUME NEW w \in Workers, Mark(w) PROVE FInv'
    <2> DEFINE c == sending[w].copy
    <2>1. \A v \in Workers : v = w
        BY DEF OneWorker
    <2>2. /\ pass'[w] = pass[w] /\ enqueued' = enqueued /\ sending'[w] = NotSending
          /\ outbox' = [outbox EXCEPT ![c.item] = Marked(c, sending[w].outcome)]
          /\ c.item \in Items
        BY <1>5 DEF Mark, Copy
    <2>3. \A d \in pass'[w] : d.item # c.item /\ d.item \in Items
        BY <1>5, <2>2 DEF CopiesFresh, Copy, Mark
    <2>4. CopiesFresh'
        BY <2>1, <2>2, <2>3 DEF CopiesFresh, IsFresh
    <2>5. c.item \in enqueued
        BY <1>5 DEF Mark, CopiesFresh, IsFresh
    <2>6. RowsEnqueued'
        BY <2>2, <2>5 DEF RowsEnqueued
    <2> QED
        BY <2>4, <2>6
<1>6. ASSUME NEW w \in Workers, Crash(w) PROVE FInv'
    <2>1. \A v \in Workers : v = w
        BY DEF OneWorker
    <2> QED
        BY <1>6, <2>1 DEF Crash, RowsEnqueued, CopiesFresh, IsFresh
<1>7. ASSUME Tick PROVE FInv'
    <2>1. \A i \in Items : /\ outbox'[i] = Absent <=> outbox[i] = Absent
                           /\ outbox[i].delay <= 0 => outbox'[i] = outbox[i]
        BY <1>7, AgedRow DEF Tick
    <2>2. RowsEnqueued'
        BY <1>7, <2>1 DEF Tick, RowsEnqueued
    <2>3. \A c \in Copy : IsFresh(c) => IsFresh(c)'
        BY <1>7, <2>1 DEF Tick, IsFresh, Copy
    <2>4. CopiesFresh'
        BY <1>7, <2>3 DEF Tick, CopiesFresh
    <2> QED
        BY <2>2, <2>4
<1>8. ASSUME UNCHANGED vars PROVE FInv'
    BY <1>8 DEF vars, RowsEnqueued, CopiesFresh, IsFresh
<1> QED
    BY <1>1, <1>2, <1>3, <1>4, <1>5, <1>6, <1>7, <1>8 DEF Next, Work

LEMMA FreshAlways == ASSUME OneWorker PROVE Spec => []FInv
<1>1. Init => FInv
    BY DEF Init, FInv, RowsEnqueued, CopiesFresh
<1>2. TInv /\ FInv /\ [Next]_vars => FInv'
    BY FreshStep
<1> QED
    BY Typed, <1>1, <1>2, PTL DEF Spec

\* What a step may do to the row of an enqueued item.
KeepsSettled(i) ==
    /\ outbox[i] = Absent => outbox'[i] = Absent
    /\ outbox[i].dead => outbox'[i] # Absent /\ outbox'[i].dead

LEMMA SettledStep ==
    ASSUME TInv, FInv, [Next]_vars, NEW i \in enqueued
    PROVE  KeepsSettled(i)
<1> USE DEF TInv, TypeOK, FInv, KeepsSettled
<1>0. i \in Items /\ ~Absent.dead
    BY DEF Absent
<1>1. ASSUME NEW j \in Items, Enqueue(j) PROVE KeepsSettled(i)
    BY <1>0, <1>1 DEF Enqueue
<1>2. ASSUME NEW w \in Workers, NEW c \in pass[w], NoClient(w, c) PROVE KeepsSettled(i)
    BY <1>0, <1>2 DEF NoClient, CopiesFresh, IsFresh
<1>3. ASSUME NEW w \in Workers, Mark(w) PROVE KeepsSettled(i)
    BY <1>0, <1>3 DEF Mark, CopiesFresh, IsFresh
<1>4. ASSUME Tick PROVE KeepsSettled(i)
    BY <1>0, <1>4, AgedRow DEF Tick
<1>5. ASSUME UNCHANGED outbox PROVE KeepsSettled(i)
    BY <1>0, <1>5
<1> QED
    BY <1>1, <1>2, <1>3, <1>4, <1>5 DEF Next, Work, vars, StartPass, Send, Crash

\* delivery.py with one worker, for every setting: what is delivered never
\* comes back to the queue, what is dead is never tried or removed.
THEOREM SettledStays == ASSUME OneWorker PROVE Spec => SettledIsFinal
<1>1. TInv /\ FInv /\ [Next]_vars =>
        \A i \in enqueued : /\ outbox[i] = Absent => outbox'[i] = Absent
                            /\ outbox[i].dead => outbox'[i] # Absent /\ outbox'[i].dead
    BY SettledStep DEF KeepsSettled
<1> QED
    BY Typed, FreshAlways, <1>1, PTL DEF Spec, SettledIsFinal

\* A send of i that is not marked yet.
InFlight(i) == \E w \in Workers : sending[w] # NotSending /\ sending[w].copy.item = i

\* Every send is an attempt that the row counts, one that is still in flight,
\* or one whose mark was lost in a crash.
SendsOf(i) ==
    /\ i \notin enqueued => sends[i] = 0
    /\ outbox[i] = Absent \/ outbox[i].dead => sends[i] <= MaxAttempts + crashes
    /\ outbox[i] # Absent /\ ~outbox[i].dead =>
         /\ sends[i] <= outbox[i].attempts + 1 + crashes
         /\ InFlight(i) \/ sends[i] <= outbox[i].attempts + crashes

SendsCounted == \A i \in Items : SendsOf(i)

LEMMA CountedStep ==
    ASSUME OneWorker, TInv, FInv, SendsCounted, [Next]_vars
    PROVE  SendsCounted'
<1> USE DEF TInv, TypeOK, FInv
<1> SUFFICES ASSUME NEW i \in Items PROVE SendsOf(i)'
    BY DEF SendsCounted
<1>0. SendsOf(i) /\ sends[i] \in Nat /\ crashes \in Nat /\ MaxAttempts \in Nat \ {0}
    BY OutboxAssumption DEF SendsCounted
<1>r. outbox[i] # Absent => outbox[i] \in Row /\ outbox[i].attempts \in 0..MaxAttempts
    BY DEF Row
<1>1. ASSUME NEW j \in Items, Enqueue(j) PROVE SendsOf(i)'
    <2>1. CASE i # j
        BY <1>0, <1>1, <2>1 DEF Enqueue, SendsOf, InFlight
    <2>2. CASE i = j
        BY <1>0, <1>1, <2>2 DEF Enqueue, SendsOf, Absent
    <2> QED
        BY <2>1, <2>2
<1>2. ASSUME NEW w \in Workers, StartPass(w) PROVE SendsOf(i)'
    BY <1>0, <1>2 DEF StartPass, SendsOf, InFlight
<1>3. ASSUME NEW w \in Workers, NEW c \in pass[w], NEW o \in Outcomes, Send(w, c, o)
      PROVE  SendsOf(i)'
    <2>1. IsFresh(c) /\ c.item \in Items /\ ~InFlight(c.item)
        BY <1>3 DEF CopiesFresh, Copy, InFlight, OneWorker, Send
    <2>2. CASE i = c.item
        <3>1. InFlight(i)'
            <4>1. sending'[w].outcome = o /\ sending'[w].copy = c
                BY <1>3 DEF Send
            <4>2. sending'[w] # NotSending
                BY <4>1 DEF NotSending, Outcomes, Answers
            <4> QED
                BY <2>2, <4>1, <4>2 DEF InFlight
        <3>2. sends'[i] = sends[i] + 1 /\ i \in enqueued /\ outbox' = outbox
              /\ crashes' = crashes /\ enqueued' = enqueued
            BY <1>3, <2>1, <2>2 DEF Send, IsFresh
        <3>3. sends[i] <= outbox[i].attempts + crashes
            BY <1>0, <2>1, <2>2 DEF SendsOf, IsFresh
        <3> QED
            BY <1>0, <1>r, <2>1, <2>2, <3>1, <3>2, <3>3 DEF SendsOf, IsFresh
    <2>3. CASE i # c.item
        <3>1. ~InFlight(i)
            BY <1>3 DEF Send, InFlight, OneWorker
        <3>2. sends'[i] = sends[i] /\ outbox' = outbox
              /\ crashes' = crashes /\ enqueued' = enqueued
            BY <1>3, <2>1, <2>3 DEF Send
        <3> QED
            BY <1>0, <3>1, <3>2 DEF SendsOf
    <2> QED
        BY <2>2, <2>3
<1>4. ASSUME NEW w \in Workers, NEW c \in pass[w], NoClient(w, c) PROVE SendsOf(i)'
    <2>1. IsFresh(c) /\ c \in Copy /\ c.item \in Items /\ c.attempts \in Nat
        BY <1>4, OutboxAssumption DEF CopiesFresh, Copy
    <2>2. CASE i = c.item
        <3>1. ~InFlight(i)
            BY <1>4, <2>2 DEF NoClient, InFlight, OneWorker
        <3>2. sends[i] <= c.attempts + crashes /\ c.attempts < MaxAttempts
            BY <1>0, <2>1, <2>2, <3>1 DEF SendsOf, IsFresh, AttemptsLeft
        <3>3. outbox'[i] = Failed(c) /\ sends' = sends /\ crashes' = crashes
              /\ enqueued' = enqueued
            BY <1>4, <2>1, <2>2 DEF NoClient
        <3> QED
            BY <1>0, <2>1, <2>2, <3>2, <3>3, MarkedRow DEF SendsOf, IsFresh
    <2>3. CASE i # c.item
        BY <1>0, <1>4, <2>1, <2>3 DEF NoClient, SendsOf, InFlight
    <2> QED
        BY <2>2, <2>3
<1>5. ASSUME NEW w \in Workers, Mark(w) PROVE SendsOf(i)'
    <2> DEFINE c == sending[w].copy
    <2> DEFINE m == Marked(c, sending[w].outcome)
    <2>1. IsFresh(c) /\ c \in Copy /\ c.item \in Items /\ c.attempts \in Nat
          /\ sending[w].outcome \in Outcomes
        BY <1>5, OutboxAssumption DEF Mark, CopiesFresh, Copy
    <2>2. CASE i = c.item
        <3>1. sends[i] <= c.attempts + 1 + crashes /\ c.attempts < MaxAttempts
            BY <1>0, <2>1, <2>2 DEF SendsOf, IsFresh, AttemptsLeft
        <3>2. outbox'[i] = m /\ sends' = sends /\ crashes' = crashes /\ enqueued' = enqueued
            BY <1>5, <2>1, <2>2 DEF Mark
        <3>3. m = Absent \/ m.dead \/ m.attempts = c.attempts + 1
            BY <2>1, MarkedIsRow
        <3> HIDE DEF m
        <3> QED
            BY <1>0, <2>1, <2>2, <3>1, <3>2, <3>3 DEF SendsOf, IsFresh
    <2>3. CASE i # c.item
        <3>1. InFlight(i) => InFlight(i)'
            BY <1>5, <2>3 DEF Mark, InFlight, OneWorker
        <3> QED
            BY <1>0, <1>5, <2>1, <2>3, <3>1 DEF Mark, SendsOf
    <2> QED
        BY <2>2, <2>3
<1>6. ASSUME NEW w \in Workers, Crash(w) PROVE SendsOf(i)'
    BY <1>0, <1>r, <1>6 DEF Crash, SendsOf
<1>7. ASSUME Tick PROVE SendsOf(i)'
    <2>1. /\ outbox'[i] = Absent <=> outbox[i] = Absent
          /\ outbox'[i].dead = outbox[i].dead /\ outbox'[i].attempts = outbox[i].attempts
        BY <1>7, AgedRow DEF Tick
    <2> QED
        BY <1>0, <1>7, <2>1 DEF Tick, SendsOf, InFlight
<1>8. ASSUME UNCHANGED vars PROVE SendsOf(i)'
    BY <1>0, <1>8 DEF vars, SendsOf, InFlight
<1> QED
    BY <1>1, <1>2, <1>3, <1>4, <1>5, <1>6, <1>7, <1>8 DEF Next, Work

\* MAX_ATTEMPTS with one worker, for every setting: an item is sent at most
\* max_attempts times, plus once for each crash.
THEOREM SendsAreBounded == ASSUME OneWorker PROVE Spec => []SendsBounded
<1>1. Init => SendsCounted
    <2> SUFFICES ASSUME Init, NEW i \in Items PROVE SendsOf(i)
        BY DEF SendsCounted
    <2>1. outbox[i] = Absent /\ sends[i] = 0 /\ crashes = 0 /\ MaxAttempts \in Nat
        BY OutboxAssumption DEF Init
    <2> QED
        BY <2>1 DEF SendsOf
<1>2. TInv /\ FInv /\ SendsCounted /\ [Next]_vars => SendsCounted'
    BY CountedStep
<1>3. TInv /\ SendsCounted => SendsBounded
    <2> SUFFICES ASSUME TInv, SendsCounted, NEW i \in Items
                 PROVE  sends[i] <= MaxAttempts + crashes
        BY DEF SendsBounded
    <2>1. SendsOf(i) /\ sends[i] \in Nat /\ crashes \in Nat /\ MaxAttempts \in Nat
          /\ (outbox[i] # Absent => outbox[i].attempts \in Nat)
        BY OutboxAssumption DEF SendsCounted, TInv, TypeOK, Row
    <2>2. outbox[i] # Absent /\ ~outbox[i].dead => outbox[i].attempts < MaxAttempts
        BY DEF TInv, AttemptsLeft
    <2> QED
        BY <2>1, <2>2 DEF SendsOf
<1> QED
    BY Typed, FreshAlways, <1>1, <1>2, <1>3, PTL DEF Spec
=============================================================================
