--------------------------- MODULE DeliveryProofs ---------------------------
(***************************************************************************)
(* Delivery: the composition takes steps of the queue and steps of the     *)
(* node, so what is proved of either holds in it.  For one worker and a    *)
(* database that survives crashes it implements Handover; and what became  *)
(* of the items that left the queue, or were given up, is accounted for.   *)
(*                                                                         *)
(* The prover cannot cite a theorem of an instantiated module, so the few  *)
(* facts needed of the queue are proved again, for the composition.        *)
(***************************************************************************)
EXTENDS Delivery, NodeProofs

\* Every process of the receiver serves the inbox route.
InboxServed == \A p \in Procs : "inbox" \in Tools[p]

CallsTyped == call \in [Workers -> [copy : Sender!Copy, at : Places] \cup {NoCall}]

-----------------------------------------------------------------------------
(* Steps of the two ends.                                                  *)

\* Rows that do not wait stay as they are.
LEMMA AgedRows ==
    ASSUME Sender!TypeOK, NEW e \in Envelopes
    PROVE  /\ outbox[e].delay <= 0 => Sender!Aged(outbox[e]) = outbox[e]
           /\ Sender!Aged(outbox[e]).dead = outbox[e].dead
           /\ Sender!Aged(outbox[e]).attempts = outbox[e].attempts
           /\ outbox[e] = Sender!Absent <=> Sender!Aged(outbox[e]) = Sender!Absent
           /\ outbox[e] \in Sender!Row => Sender!Aged(outbox[e]) \in Sender!Row
<1>1. outbox[e] \in Sender!Row \/ outbox[e] = Sender!Absent
    BY DEF Sender!TypeOK
<1> DEFINE row == outbox[e]
<1>2. CASE row \in Sender!Row
    <2>1. /\ row = [attempts |-> row.attempts, delay |-> row.delay, dead |-> row.dead]
          /\ row.attempts \in 0..MaxAttempts /\ row.delay \in Int
        BY <1>2 DEF Sender!Row
    <2>2. Sender!Aged(row) \in Sender!Row
        BY <1>2 DEF Sender!Aged, Sender!Row
    <2>3. Sender!Aged(row).attempts = row.attempts /\ Sender!Aged(row).dead = row.dead
        BY DEF Sender!Aged
    <2>4. row.attempts # -1 /\ Sender!Absent.attempts = -1
        BY <2>1, DeliveryAssumption DEF Sender!Absent
    <2>5. row.delay <= 0 => Sender!Aged(row) = row
        BY <2>1 DEF Sender!Aged
    <2> QED
        BY <1>2, <2>2, <2>3, <2>4, <2>5
<1>3. CASE row = Sender!Absent
    BY <1>3 DEF Sender!Absent, Sender!Aged, Sender!Row
<1> QED
    BY <1>1, <1>2, <1>3

LEMMA OutcomeKnown == \A e, res : Outcome(e, res) \in Sender!Answers \cup {"bad_response"}
    BY DEF Outcome, Sender!Answers

\* What the composition does at the sender is a step of Outbox, or none.
LEMMA SenderStep ==
    ASSUME Sender!TypeOK, [DeliveryNext]_DeliveryVars
    PROVE  [Sender!Next]_(Sender!vars)
<1>1. ASSUME NEW e \in Envelopes, Post(e) PROVE Sender!Next
    BY <1>1 DEF Post, Sender!Next
<1>2. ASSUME NEW w \in Workers, StartPass(w) PROVE Sender!Next
    BY <1>2 DEF StartPass, Sender!Next, Sender!Work
<1>3. ASSUME NEW w \in Workers, Mark(w) PROVE Sender!Next
    BY <1>3 DEF Mark, Sender!Next, Sender!Work
<1>4. ASSUME NEW w \in Workers, SenderCrash(w) PROVE Sender!Next
    BY <1>4 DEF SenderCrash, Sender!Next
<1>5. ASSUME NEW w \in Workers, NEW o \in Sender!Outcomes, EndCall(w, o) PROVE Sender!Next
    <2>1. Sender!Send(w, call[w].copy, o) /\ call[w].copy \in pass[w]
        BY <1>5 DEF EndCall, Sender!Send
    <2> QED
        BY <2>1 DEF Sender!Next, Sender!Work
<1>6. ASSUME NEW w \in Workers, NEW p, Return(w, p) PROVE Sender!Next
    BY <1>5, <1>6, OutcomeKnown DEF Return, Sender!Outcomes
<1>7. ASSUME NEW w \in Workers, NEW o \in {"network", "bad_response"}, Break(w, o)
      PROVE  Sender!Next
    BY <1>5, <1>7 DEF Break, Sender!Outcomes
<1>8. ASSUME Clock PROVE [Sender!Next]_(Sender!vars)
    <2>1. CASE \E e \in Envelopes : outbox[e].delay > 0
        BY <1>8, <2>1 DEF Clock, Sender!Tick, Sender!Next
    <2>2. CASE \A e \in Envelopes : ~(outbox[e].delay > 0)
        <3>1. \A e \in Envelopes : outbox[e].delay \in Int
            BY DEF Sender!TypeOK, Sender!Row, Sender!Absent
        <3>2. \A e \in Envelopes : Sender!Aged(outbox[e]) = outbox[e]
            BY <2>2, <3>1, AgedRows
        <3>3. outbox' = outbox
            BY <1>8, <3>2 DEF Clock, Sender!TypeOK
        <3> QED
            BY <1>8, <3>3 DEF Clock, Sender!vars
    <2> QED
        BY <2>1, <2>2
<1>9. ASSUME UNCHANGED sender PROVE UNCHANGED Sender!vars
    BY <1>9 DEF sender, Sender!vars
<1>10. ASSUME NEW w, NEW c, Dial(w, c) PROVE UNCHANGED sender
    BY <1>10 DEF Dial
<1>11. ASSUME NEW w, NEW e, NEW p, Arrive(w, p) \/ ArriveLate(e, p) PROVE UNCHANGED sender
    BY <1>11 DEF Arrive, ArriveLate
<1>12. ASSUME NEW p, Serve(p) \/ ServerCrash(p) \/ ReturnToNobody(p) \/ PurgeTables
       PROVE UNCHANGED sender
    BY <1>12 DEF Serve, ServerCrash, ReturnToNobody, PurgeTables
<1>13. CASE UNCHANGED DeliveryVars
    BY <1>13, <1>9 DEF DeliveryVars
<1> QED
    BY <1>1, <1>2, <1>3, <1>4, <1>6, <1>7, <1>8, <1>9, <1>10, <1>11, <1>12, <1>13 DEF DeliveryNext

\* What it does at the receiver is a step of Node, or none.
LEMMA ReceiverStep ==
    ASSUME InboxServed, CallsTyped, [DeliveryNext]_DeliveryVars
    PROVE  [Next]_vars
<1>1. ASSUME NEW p \in Procs, NEW e \in Envelopes, Receive(p, e) PROVE Next
    BY <1>1 DEF Receive, Next, InboxServed
<1>2. ASSUME NEW w \in Workers, NEW p \in Procs, Arrive(w, p) PROVE Next
    <2>1. call[w].at = "way" /\ Receive(p, call[w].copy.item)
        BY <1>2 DEF Arrive
    <2>2. call[w].copy.item \in Envelopes
        BY <2>1 DEF CallsTyped, NoCall, Sender!Copy
    <2> QED
        BY <1>1, <2>1, <2>2
<1>3. ASSUME NEW e \in Envelopes, NEW p \in Procs, ArriveLate(e, p) PROVE Next
    BY <1>1, <1>3 DEF ArriveLate
<1>4. ASSUME NEW p \in Procs, Serve(p) \/ ServerCrash(p) \/ ReturnToNobody(p) PROVE Next
    BY <1>4 DEF Serve, ServerCrash, ReturnToNobody, Next, Step
<1>5. ASSUME NEW w, NEW p \in Procs, Return(w, p) PROVE Next
    BY <1>5 DEF Return, Next, Step
<1>6. ASSUME PurgeTables \/ Clock PROVE Next
    BY <1>6 DEF PurgeTables, Clock, Next
<1>7. ASSUME NEW e, NEW w, NEW c, NEW o,
             Post(e) \/ StartPass(w) \/ Mark(w) \/ SenderCrash(w) \/ Dial(w, c) \/ Break(w, o)
      PROVE  UNCHANGED receiver
    BY <1>7 DEF Post, StartPass, Mark, SenderCrash, Dial, Break
<1>8. CASE UNCHANGED DeliveryVars
    BY <1>8 DEF DeliveryVars, receiver
<1> QED
    BY <1>2, <1>3, <1>4, <1>5, <1>6, <1>7, <1>8 DEF DeliveryNext, receiver

-----------------------------------------------------------------------------
(* The queue in the composition.                                          *)

AttemptsLeft ==
    \A i \in Envelopes :
        outbox[i] # Sender!Absent /\ ~outbox[i].dead => outbox[i].attempts < MaxAttempts

QueueInv == Sender!TypeOK /\ AttemptsLeft

\* mark_failed and mark_dead store a row that is dead or has attempts left.
LEMMA MarkedRow ==
    ASSUME NEW c \in Sender!Copy
    PROVE  /\ Sender!Failed(c) \in Sender!Row /\ Sender!Failed(c).attempts = c.attempts + 1
           /\ Sender!Failed(c).dead \/ Sender!Failed(c).attempts < MaxAttempts
           /\ Sender!Dead(c) \in Sender!Row
           /\ Sender!Dead(c).dead /\ Sender!Dead(c).attempts = MaxAttempts
           /\ Sender!Failed(c) # Sender!Absent /\ Sender!Dead(c) # Sender!Absent
<1>1. c.attempts \in Nat /\ c.attempts + 1 \in 0..MaxAttempts /\ MaxAttempts \in Nat \ {0}
    BY DeliveryAssumption DEF Sender!Copy
<1>2. \A n \in Nat : BackoffBase * 2^n \in Int
    BY DeliveryAssumption
<1>3. Sender!Doubled(c.attempts + 1) \in Int
    BY <1>1, <1>2 DEF Sender!Doubled
<1>4. Sender!Backoff(c.attempts + 1) \in Int
    BY <1>3, DeliveryAssumption DEF Sender!Backoff
<1>5. Sender!Failed(c) \in Sender!Row /\ Sender!Failed(c).attempts = c.attempts + 1
      /\ Sender!Failed(c).dead = (c.attempts + 1 >= MaxAttempts)
    BY <1>1, <1>4 DEF Sender!Failed, Sender!Row
<1>6. Sender!Failed(c).dead \/ Sender!Failed(c).attempts < MaxAttempts
    <2>1. CASE c.attempts + 1 >= MaxAttempts
        BY <2>1, Zenon DEF Sender!Failed
    <2>2. CASE ~(c.attempts + 1 >= MaxAttempts)
        BY <1>1, <1>5, <2>2
    <2> QED
        BY <2>1, <2>2
<1>7. Sender!Dead(c) \in Sender!Row /\ Sender!Dead(c).dead /\ Sender!Dead(c).attempts = MaxAttempts
    BY <1>1 DEF Sender!Dead, Sender!Row
<1>8. Sender!Absent.attempts = -1
    BY DEF Sender!Absent
<1> QED
    BY <1>1, <1>5, <1>6, <1>7, <1>8

\* What a send leaves in the queue.
LEMMA MarkedIsRow ==
    ASSUME NEW c \in Sender!Copy, NEW o \in Sender!Outcomes
    PROVE  /\ Sender!Marked(c, o) \in Sender!Row \cup {Sender!Absent}
           /\ o \in Sender!Answers <=> Sender!Marked(c, o) = Sender!Absent
           /\ o \notin Sender!Answers => \/ Sender!Marked(c, o).dead
                                  \/ /\ Sender!Marked(c, o).attempts = c.attempts + 1
                                     /\ Sender!Marked(c, o).attempts < MaxAttempts
<1>1. c.attempts \in Nat /\ MaxAttempts \in Nat
    BY DeliveryAssumption DEF Sender!Copy
<1>2. CASE o \in Sender!Answers
    <2>1. Sender!Marked(c, o) = Sender!Absent
        BY <1>2, Zenon DEF Sender!Marked, Sender!Answers
    <2> QED
        BY <1>2, <2>1
<1>3. CASE o \notin Sender!Answers /\ o = "bad_response"
    <2>1. Sender!Marked(c, o) = Sender!Dead(c)
        BY <1>3, Zenon DEF Sender!Marked
    <2> QED
        BY <1>3, <2>1, MarkedRow
<1>4. CASE o \notin Sender!Answers /\ o # "bad_response"
    <2>1. Sender!Marked(c, o) = Sender!Failed(c)
        BY <1>4, Zenon DEF Sender!Marked
    <2> QED
        BY <1>1, <1>4, <2>1, MarkedRow
<1> QED
    BY <1>2, <1>3, <1>4

LEMMA QueueStart == Sender!Init => QueueInv
    BY DeliveryAssumption DEF Sender!Init, QueueInv, Sender!TypeOK, AttemptsLeft, Sender!Absent

LEMMA QueueStep == QueueInv /\ [Sender!Next]_(Sender!vars) => QueueInv'
<1> SUFFICES ASSUME QueueInv, [Sender!Next]_(Sender!vars) PROVE QueueInv'
    OBVIOUS
<1> USE DEF QueueInv, Sender!TypeOK
<1>1. ASSUME NEW i \in Envelopes, Sender!Enqueue(i) PROVE QueueInv'
    <2>1. [attempts |-> 0, delay |-> 0, dead |-> FALSE] \in Sender!Row
        BY DeliveryAssumption DEF Sender!Row
    <2> QED
        BY <1>1, <2>1, DeliveryAssumption DEF Sender!Enqueue, AttemptsLeft
<1>2. ASSUME NEW w \in Workers, Sender!StartPass(w) PROVE QueueInv'
    <2>1. {[item |-> i, attempts |-> outbox[i].attempts] : i \in Sender!Due} \in SUBSET Sender!Copy
        BY DeliveryAssumption DEF Sender!Due, Sender!Copy, AttemptsLeft, Sender!Row
    <2> QED
        BY <1>2, <2>1 DEF Sender!StartPass, AttemptsLeft
<1>3. ASSUME NEW w \in Workers, NEW c \in pass[w], NEW o \in Sender!Outcomes, Sender!Send(w, c, o)
      PROVE  QueueInv'
    <2>1. c \in Sender!Copy /\ c.item \in Envelopes
        BY DEF Sender!Copy
    <2>2. pass' \in [Workers -> SUBSET Sender!Copy]
        BY <1>3 DEF Sender!Send
    <2>3. sending' \in [Workers -> [copy : Sender!Copy, outcome : Sender!Outcomes]
                                \cup {Sender!NotSending}]
        BY <1>3, <2>1 DEF Sender!Send
    <2>4. answered' \subseteq Envelopes
        BY <1>3, <2>1 DEF Sender!Send
    <2>5. sends' \in [Envelopes -> Nat]
        BY <1>3, <2>1 DEF Sender!Send
    <2> QED
        BY <1>3, <2>2, <2>3, <2>4, <2>5 DEF Sender!Send, AttemptsLeft
<1>4. ASSUME NEW w \in Workers, NEW c \in pass[w], Sender!NoClient(w, c) PROVE FALSE
    BY <1>4 DEF Sender!NoClient, Sender!Copy
<1>5. ASSUME NEW w \in Workers, Sender!Mark(w) PROVE QueueInv'
    <2> DEFINE c == sending[w].copy
    <2>1. c \in Sender!Copy /\ c.item \in Envelopes /\ sending[w].outcome \in Sender!Outcomes
        BY <1>5 DEF Sender!Mark, Sender!Copy
    <2>2. outbox' \in [Envelopes -> Sender!Row \cup {Sender!Absent}]
        BY <1>5, <2>1, MarkedIsRow DEF Sender!Mark
    <2>3. AttemptsLeft'
        BY <1>5, <2>1, MarkedIsRow DEF Sender!Mark, AttemptsLeft
    <2>4. sending' \in [Workers -> [copy : Sender!Copy, outcome : Sender!Outcomes]
                                \cup {Sender!NotSending}]
        BY <1>5 DEF Sender!Mark
    <2> QED
        BY <1>5, <2>2, <2>3, <2>4 DEF Sender!Mark
<1>6. ASSUME NEW w \in Workers, Sender!Crash(w) PROVE QueueInv'
    BY <1>6 DEF Sender!Crash, AttemptsLeft
<1>7. ASSUME Sender!Tick PROVE QueueInv'
    <2>1. outbox' \in [Envelopes -> Sender!Row \cup {Sender!Absent}]
        BY <1>7, AgedRows DEF Sender!Tick
    <2>2. AttemptsLeft'
        BY <1>7, AgedRows DEF Sender!Tick, AttemptsLeft
    <2> QED
        BY <1>7, <2>1, <2>2 DEF Sender!Tick
<1>8. ASSUME UNCHANGED Sender!vars PROVE QueueInv'
    BY <1>8 DEF Sender!vars, AttemptsLeft
<1> QED
    BY <1>1, <1>2, <1>3, <1>4, <1>5, <1>6, <1>7, <1>8 DEF Sender!Next, Sender!Work

\* An answer that is about to be marked has been recorded.
AnswerRecorded ==
    \A w \in Workers :
        sending[w] # Sender!NotSending /\ sending[w].outcome \in Sender!Answers
            => sending[w].copy.item \in answered

AnsweredInv == AnswerRecorded /\ Sender!RemovedOnlyAnswered

LEMMA AnsweredStep == QueueInv /\ AnsweredInv /\ [Sender!Next]_(Sender!vars) => AnsweredInv'
<1> SUFFICES ASSUME QueueInv, AnsweredInv, [Sender!Next]_(Sender!vars) PROVE AnsweredInv'
    OBVIOUS
<1> USE DEF QueueInv, Sender!TypeOK, AnsweredInv
<1>1. ASSUME NEW i \in Envelopes, Sender!Enqueue(i) PROVE AnsweredInv'
    <2>1. [attempts |-> 0, delay |-> 0, dead |-> FALSE] # Sender!Absent
        BY DEF Sender!Absent
    <2> QED
        BY <1>1, <2>1 DEF Sender!Enqueue, AnswerRecorded, Sender!RemovedOnlyAnswered
<1>2. ASSUME NEW w \in Workers, Sender!StartPass(w) PROVE AnsweredInv'
    BY <1>2 DEF Sender!StartPass, AnswerRecorded, Sender!RemovedOnlyAnswered
<1>3. ASSUME NEW w \in Workers, NEW c \in pass[w], NEW o \in Sender!Outcomes, Sender!Send(w, c, o)
      PROVE  AnsweredInv'
    <2>1. AnswerRecorded'
        BY <1>3 DEF Sender!Send, AnswerRecorded
    <2>2. Sender!RemovedOnlyAnswered'
        BY <1>3 DEF Sender!Send, Sender!RemovedOnlyAnswered
    <2> QED
        BY <2>1, <2>2
<1>4. ASSUME NEW w \in Workers, NEW c \in pass[w], Sender!NoClient(w, c) PROVE FALSE
    BY <1>4 DEF Sender!NoClient, Sender!Copy
<1>5. ASSUME NEW w \in Workers, Sender!Mark(w) PROVE AnsweredInv'
    <2>1. sending[w].copy \in Sender!Copy /\ sending[w].outcome \in Sender!Outcomes
        BY <1>5 DEF Sender!Mark
    <2>2. AnswerRecorded'
        BY <1>5 DEF Sender!Mark, AnswerRecorded
    <2>3. Sender!RemovedOnlyAnswered'
        BY <1>5, <2>1, MarkedIsRow DEF Sender!Mark, AnswerRecorded, Sender!RemovedOnlyAnswered
    <2> QED
        BY <2>2, <2>3
<1>6. ASSUME NEW w \in Workers, Sender!Crash(w) PROVE AnsweredInv'
    BY <1>6 DEF Sender!Crash, AnswerRecorded, Sender!RemovedOnlyAnswered
<1>7. ASSUME Sender!Tick PROVE AnsweredInv'
    BY <1>7, AgedRows DEF Sender!Tick, AnswerRecorded, Sender!RemovedOnlyAnswered
<1>8. ASSUME UNCHANGED Sender!vars PROVE AnsweredInv'
    BY <1>8 DEF Sender!vars, AnswerRecorded, Sender!RemovedOnlyAnswered
<1> QED
    BY <1>1, <1>2, <1>3, <1>4, <1>5, <1>6, <1>7, <1>8 DEF Sender!Next, Sender!Work

OneWorker == \A v, w \in Workers : v = w

\* The row a worker's copy was read from, unchanged since.
IsFresh(c) ==
    /\ c.item \in enqueued
    /\ outbox[c.item] # Sender!Absent /\ ~outbox[c.item].dead
    /\ outbox[c.item].delay <= 0
    /\ outbox[c.item].attempts = c.attempts

\* With one worker copies do not grow stale, and there is one for an item.
CopiesFresh ==
    \A w \in Workers :
        /\ \A c \in pass[w] : IsFresh(c)
        /\ \A c, d \in pass[w] : c.item = d.item => c = d
        /\ sending[w] # Sender!NotSending =>
             /\ IsFresh(sending[w].copy)
             /\ \A c \in pass[w] : c.item # sending[w].copy.item

\* Only what was enqueued has a row.
RowsEnqueued == \A i \in Envelopes : outbox[i] # Sender!Absent => i \in enqueued

FreshInv == RowsEnqueued /\ CopiesFresh

\* With any number of workers a copy may be stale, but its item was enqueued.
CopiesEnqueued ==
    \A w \in Workers :
        /\ \A c \in pass[w] : c.item \in enqueued
        /\ sending[w] # Sender!NotSending => sending[w].copy.item \in enqueued

QueuedInv == RowsEnqueued /\ CopiesEnqueued

LEMMA FreshIsQueued == FreshInv => QueuedInv
    BY DEF FreshInv, QueuedInv, CopiesFresh, CopiesEnqueued, IsFresh

LEMMA QueuedStep ==
    ASSUME QueueInv, QueuedInv, [Sender!Next]_(Sender!vars)
    PROVE  QueuedInv'
<1> USE DEF QueueInv, Sender!TypeOK, QueuedInv
<1>1. ASSUME NEW i \in Envelopes, Sender!Enqueue(i) PROVE QueuedInv'
    BY <1>1 DEF Sender!Enqueue, RowsEnqueued, CopiesEnqueued
<1>2. ASSUME NEW w \in Workers, Sender!StartPass(w) PROVE QueuedInv'
    <2>1. pass'[w] = {[item |-> i, attempts |-> outbox[i].attempts] : i \in Sender!Due}
        BY <1>2 DEF Sender!StartPass
    <2>2. \A c \in pass'[w] : c.item \in enqueued
        BY <2>1 DEF Sender!Due, RowsEnqueued
    <2> QED
        BY <1>2, <2>2 DEF Sender!StartPass, RowsEnqueued, CopiesEnqueued
<1>3. ASSUME NEW w \in Workers, NEW c \in pass[w], NEW o \in Sender!Outcomes, Sender!Send(w, c, o)
      PROVE  QueuedInv'
    BY <1>3 DEF Sender!Send, RowsEnqueued, CopiesEnqueued
<1>4. ASSUME NEW w \in Workers, NEW c \in pass[w], Sender!NoClient(w, c) PROVE FALSE
    BY <1>4 DEF Sender!NoClient, Sender!Copy
<1>5. ASSUME NEW w \in Workers, Sender!Mark(w) PROVE QueuedInv'
    <2> DEFINE i == sending[w].copy.item
    <2>1. /\ enqueued' = enqueued /\ pass' = pass /\ i \in enqueued
          /\ sending' = [sending EXCEPT ![w] = Sender!NotSending]
          /\ \A e \in Envelopes : e # i => outbox'[e] = outbox[e]
        BY <1>5 DEF Sender!Mark, CopiesEnqueued
    <2> HIDE DEF i
    <2> QED
        BY <2>1 DEF RowsEnqueued, CopiesEnqueued
<1>6. ASSUME NEW w \in Workers, Sender!Crash(w) PROVE QueuedInv'
    BY <1>6 DEF Sender!Crash, RowsEnqueued, CopiesEnqueued
<1>7. ASSUME Sender!Tick PROVE QueuedInv'
    BY <1>7, AgedRows DEF Sender!Tick, RowsEnqueued, CopiesEnqueued
<1>8. ASSUME UNCHANGED Sender!vars PROVE QueuedInv'
    BY <1>8 DEF Sender!vars, RowsEnqueued, CopiesEnqueued
<1> QED
    BY <1>1, <1>2, <1>3, <1>4, <1>5, <1>6, <1>7, <1>8 DEF Sender!Next, Sender!Work

LEMMA FreshStep ==
    ASSUME OneWorker, QueueInv, FreshInv, [Sender!Next]_(Sender!vars)
    PROVE  FreshInv'
<1> USE DEF QueueInv, Sender!TypeOK, FreshInv
<1>1. ASSUME NEW i \in Envelopes, Sender!Enqueue(i) PROVE FreshInv'
    <2>1. outbox[i] = Sender!Absent
        BY <1>1 DEF Sender!Enqueue, RowsEnqueued
    <2>2. CopiesFresh'
        BY <1>1, <2>1 DEF Sender!Enqueue, CopiesFresh, IsFresh, Sender!Copy
    <2>3. RowsEnqueued'
        BY <1>1 DEF Sender!Enqueue, RowsEnqueued
    <2> QED
        BY <2>2, <2>3
<1>2. ASSUME NEW w \in Workers, Sender!StartPass(w) PROVE FreshInv'
    <2>1. pass'[w] = {[item |-> i, attempts |-> outbox[i].attempts] : i \in Sender!Due}
        BY <1>2 DEF Sender!StartPass
    <2>2. \A c \in pass'[w] : IsFresh(c)'
        BY <1>2, <2>1 DEF Sender!StartPass, Sender!Due, RowsEnqueued, IsFresh
    <2>3. \A c, d \in pass'[w] : c.item = d.item => c = d
        BY <2>1
    <2>4. \A v \in Workers : v = w
        BY DEF OneWorker
    <2> QED
        BY <1>2, <2>2, <2>3, <2>4 DEF Sender!StartPass, RowsEnqueued, CopiesFresh
<1>3. ASSUME NEW w \in Workers, NEW c \in pass[w], NEW o \in Sender!Outcomes, Sender!Send(w, c, o)
      PROVE  FreshInv'
    <2>1. \A v \in Workers : v = w
        BY DEF OneWorker
    <2>2. /\ sending'[w].copy = c /\ pass'[w] = pass[w] \ {c}
          /\ outbox' = outbox /\ enqueued' = enqueued
        BY <1>3 DEF Sender!Send
    <2> QED
        BY <1>3, <2>1, <2>2 DEF Sender!Send, RowsEnqueued, CopiesFresh, IsFresh
<1>4. ASSUME NEW w \in Workers, NEW c \in pass[w], Sender!NoClient(w, c) PROVE FALSE
    BY <1>4 DEF Sender!NoClient, Sender!Copy
<1>5. ASSUME NEW w \in Workers, Sender!Mark(w) PROVE FreshInv'
    <2> DEFINE c == sending[w].copy
    <2>1. \A v \in Workers : v = w
        BY DEF OneWorker
    <2>2. /\ pass'[w] = pass[w] /\ enqueued' = enqueued /\ sending'[w] = Sender!NotSending
          /\ outbox' = [outbox EXCEPT ![c.item] = Sender!Marked(c, sending[w].outcome)]
          /\ c.item \in Envelopes
        BY <1>5 DEF Sender!Mark, Sender!Copy
    <2>3. \A d \in pass'[w] : d.item # c.item /\ d.item \in Envelopes
        BY <1>5, <2>2 DEF CopiesFresh, Sender!Copy, Sender!Mark
    <2>4. CopiesFresh'
        BY <2>1, <2>2, <2>3 DEF CopiesFresh, IsFresh
    <2>5. c.item \in enqueued
        BY <1>5 DEF Sender!Mark, CopiesFresh, IsFresh
    <2>6. RowsEnqueued'
        BY <2>2, <2>5 DEF RowsEnqueued
    <2> QED
        BY <2>4, <2>6
<1>6. ASSUME NEW w \in Workers, Sender!Crash(w) PROVE FreshInv'
    <2>1. \A v \in Workers : v = w
        BY DEF OneWorker
    <2> QED
        BY <1>6, <2>1 DEF Sender!Crash, RowsEnqueued, CopiesFresh, IsFresh
<1>7. ASSUME Sender!Tick PROVE FreshInv'
    <2>1. ASSUME NEW i \in Envelopes
          PROVE  /\ outbox'[i] = Sender!Absent <=> outbox[i] = Sender!Absent
                 /\ outbox[i].delay <= 0 => outbox'[i] = outbox[i]
        <3>1. outbox'[i] = Sender!Aged(outbox[i])
            BY <1>7 DEF Sender!Tick
        <3> QED
            BY <3>1, AgedRows
    <2>2. RowsEnqueued'
        BY <1>7, <2>1 DEF Sender!Tick, RowsEnqueued
    <2>3. \A c \in Sender!Copy : IsFresh(c) => outbox'[c.item] = outbox[c.item]
        BY <2>1 DEF IsFresh, Sender!Copy
    <2>4. pass' = pass /\ sending' = sending /\ enqueued' = enqueued
        BY <1>7 DEF Sender!Tick
    <2>5. ASSUME NEW c \in Sender!Copy, IsFresh(c) PROVE IsFresh(c)'
        <3>1. outbox'[c.item] = outbox[c.item]
            BY <2>3, <2>5
        <3> QED
            BY <2>4, <2>5, <3>1 DEF IsFresh
    <2>6. \A w \in Workers : /\ pass[w] \subseteq Sender!Copy
                             /\ sending[w] # Sender!NotSending => sending[w].copy \in Sender!Copy
        OBVIOUS
    <2>7. CopiesFresh'
        BY <2>4, <2>5, <2>6 DEF CopiesFresh
    <2> QED
        BY <2>2, <2>7
<1>8. ASSUME UNCHANGED Sender!vars PROVE FreshInv'
    BY <1>8 DEF Sender!vars, RowsEnqueued, CopiesFresh, IsFresh
<1> QED
    BY <1>1, <1>2, <1>3, <1>4, <1>5, <1>6, <1>7, <1>8 DEF Sender!Next, Sender!Work

-----------------------------------------------------------------------------
(* The refinements of the parts.                                           *)

LEMMA CallsStep ==
    ASSUME Sender!TypeOK, CallsTyped, [DeliveryNext]_DeliveryVars
    PROVE  CallsTyped'
<1> USE DEF CallsTyped
<1>1. ASSUME NEW w \in Workers, NEW c \in pass[w], Dial(w, c) PROVE CallsTyped'
    <2>1. c \in Sender!Copy
        BY DEF Sender!TypeOK
    <2>2. [copy |-> c, at |-> "way"] \in [copy : Sender!Copy, at : Places]
        BY <2>1 DEF Places
    <2> QED
        BY <1>1, <2>2 DEF Dial
<1>2. ASSUME NEW w \in Workers, NEW p \in Procs, Arrive(w, p) PROVE CallsTyped'
    <2>1. call[w].at = "way" /\ call' = [call EXCEPT ![w] = [copy |-> call[w].copy, at |-> p]]
        BY <1>2 DEF Arrive
    <2>2. call[w].copy \in Sender!Copy
        BY <2>1 DEF NoCall
    <2> QED
        BY <2>1, <2>2 DEF Places
<1>3. ASSUME NEW w \in Workers, call' = [call EXCEPT ![w] = NoCall] PROVE CallsTyped'
    BY <1>3
<1>4. ASSUME NEW p \in Procs, ServerCrash(p) PROVE CallsTyped'
    <2>1. ASSUME NEW w \in Workers
          PROVE  (IF call[w].at = p THEN [copy |-> call[w].copy, at |-> "gone"] ELSE call[w])
                     \in [copy : Sender!Copy, at : Places] \cup {NoCall}
        <3>1. CASE call[w].at = p
            <4>1. p # "none"
                BY DeliveryAssumption
            <4>2. call[w].copy \in Sender!Copy
                BY <3>1, <4>1 DEF NoCall
            <4> QED
                BY <3>1, <4>2 DEF Places
        <3>2. CASE call[w].at # p
            BY <3>2
        <3> QED
            BY <3>1, <3>2
    <2> QED
        BY <1>4, <2>1 DEF ServerCrash
<1>5. ASSUME NEW w \in Workers, NEW p, NEW o, Return(w, p) \/ Break(w, o) \/ SenderCrash(w)
      PROVE CallsTyped'
    BY <1>3, <1>5 DEF Return, Break, EndCall, SenderCrash
<1>6. ASSUME NEW e, NEW w, NEW p,
             \/ Post(e) \/ StartPass(w) \/ Mark(w) \/ ArriveLate(e, p)
             \/ Serve(p) \/ ReturnToNobody(p) \/ PurgeTables \/ Clock
      PROVE  UNCHANGED call
    BY <1>6 DEF Post, StartPass, Mark, ArriveLate, Serve, ReturnToNobody, PurgeTables, Clock, network
<1>7. CASE UNCHANGED DeliveryVars
    BY <1>7 DEF DeliveryVars, network
<1> QED
    BY <1>1, <1>2, <1>4, <1>5, <1>6, <1>7 DEF DeliveryNext

PartsInv == QueueInv /\ CallsTyped /\ TInv /\ TruthInv

LEMMA PartsStart == DeliveryInit => PartsInv
<1> SUFFICES ASSUME DeliveryInit PROVE PartsInv
    OBVIOUS
<1>1. CallsTyped
    BY DEF DeliveryInit, CallsTyped
<1>2. TruthInv
    BY TruthStart DEF DeliveryInit
<1> QED
    BY <1>1, <1>2, QueueStart, TypedStart DEF DeliveryInit, PartsInv

LEMMA PartsStep ==
    ASSUME InboxServed, PartsInv, [DeliveryNext]_DeliveryVars
    PROVE  PartsInv' /\ [Next]_vars /\ [Sender!Next]_(Sender!vars)
<1>1. [Next]_vars /\ [Sender!Next]_(Sender!vars)
    BY ReceiverStep, SenderStep DEF PartsInv, QueueInv
<1>2. QueueInv' /\ TInv' /\ TruthInv' /\ CallsTyped'
    BY <1>1, QueueStep, TypedStep, TruthStep, CallsStep DEF PartsInv, QueueInv
<1> QED
    BY <1>1, <1>2 DEF PartsInv

\* The queue in the composition is the queue of Outbox: what is proved there
\* holds here, whatever the node answers and however calls break.
THEOREM SenderRefined == DeliverySpec => Sender!Spec
<1> DEFINE SInv == QueueInv /\ CallsTyped
<1>1. DeliveryInit => SInv /\ Sender!Init
    BY PartsStart DEF PartsInv, DeliveryInit
<1>2. SInv /\ [DeliveryNext]_DeliveryVars => SInv' /\ [Sender!Next]_(Sender!vars)
    BY SenderStep, QueueStep, CallsStep DEF QueueInv
<1> HIDE DEF SInv
<1> QED
    BY <1>1, <1>2, PTL DEF DeliverySpec, Sender!Spec

\* The receiver in the composition is the node of Node, which may be asked
\* anything at any time: what is proved there holds here.
THEOREM ReceiverRefined == ASSUME InboxServed PROVE DeliverySpec => Spec
<1>1. DeliveryInit => Init
    BY DEF DeliveryInit
<1>2. PartsInv /\ [DeliveryNext]_DeliveryVars => PartsInv' /\ [Next]_vars
    BY PartsStep
<1> QED
    BY <1>1, <1>2, PartsStart, PTL DEF DeliverySpec, Spec

-----------------------------------------------------------------------------
(* The node's work on one envelope.                                        *)

\* Process p is past the replay check with e, and has not run the handler.
WorksOn(p, e) == pc[p] \in {"lookup", "dispatch"} /\ job[p].env = e

\* Before e expires one process at most works on it, and only if none did.
WorkOnce ==
    \A e \in Envelopes : now < e.expires =>
        /\ Ran(e) => admitted[e] > 0
        /\ \A p \in Procs : WorksOn(p, e) =>
              admitted[e] > 0 /\ ~Ran(e) /\ \A q \in Procs : WorksOn(q, e) => q = p

\* The actions that start no work and run no handler.
LEMMA NoNewWork ==
    ASSUME TInv, [Next]_vars
    PROVE  \/ /\ UNCHANGED <<now, handled, admitted>>
              /\ \A q \in Procs, e \in Envelopes : WorksOn(q, e)' => WorksOn(q, e)
           \/ Tick
           \/ \E p \in Procs : Admit(p)
           \/ \E p \in Procs : \E result \in Outcomes : RunHandler(p, result)
<1> USE DEF TInv, TypeOK
<1> DEFINE Quiet == /\ UNCHANGED <<now, handled, admitted>>
                    /\ \A q \in Procs, e \in Envelopes : WorksOn(q, e)' => WorksOn(q, e)
<1>1. ASSUME NEW p \in Procs, NEW e \in Envelopes, NEW tool, Verify(p, e, tool) \/ Refuse(p, e, tool)
      PROVE  Quiet
    <2>1. pc' = [pc EXCEPT ![p] = "nonce"] \/ pc' = [pc EXCEPT ![p] = "reply"]
        BY <1>1 DEF Verify, Refuse
    <2>2. job' = [job EXCEPT ![p] = [tool |-> tool, env |-> e]]
        BY <1>1 DEF Verify, Refuse
    <2>3. UNCHANGED <<now, handled, admitted>>
        BY <1>1 DEF Verify, Refuse, observed
    <2> QED
        BY <2>1, <2>2, <2>3 DEF WorksOn
<1>2. ASSUME NEW p \in Procs, NEW res, Answer(p, res) PROVE
             \A q \in Procs, e \in Envelopes : WorksOn(q, e)' => WorksOn(q, e)
    BY <1>2 DEF Answer, WorksOn
<1>3. ASSUME NEW p \in Procs, Replay(p) \/ Deny(p) \/ Find(p) \/ StoreBusy(p) PROVE Quiet
    <2>1. UNCHANGED <<now, handled, admitted>>
        BY <1>3 DEF Replay, Deny, Find, StoreBusy, observed
    <2>2. \E res : Answer(p, res)
        BY <1>3 DEF Replay, Deny, Find, StoreBusy
    <2> QED
        BY <1>2, <2>1, <2>2
<1>4. ASSUME NEW p \in Procs, Lookup(p) PROVE Quiet
    <2>1. UNCHANGED <<now, handled, admitted>> /\ pc[p] = "lookup"
        BY <1>4 DEF Lookup, observed
    <2>2. CASE Goto(p, "dispatch")
        BY <2>1, <2>2 DEF Goto, WorksOn
    <2> QED
        BY <1>2, <1>4, <2>1, <2>2 DEF Lookup
<1>5. ASSUME NEW p \in Procs, Put(p) PROVE Quiet
    <2>1. UNCHANGED <<now, handled, admitted, job>> /\ pc' = [pc EXCEPT ![p] = "reply"]
        BY <1>5 DEF Put, observed, Answer
    <2> QED
        BY <2>1 DEF WorksOn
<1>6. ASSUME NEW p \in Procs, Respond(p) \/ Crash(p) PROVE Quiet
    <2>1. UNCHANGED <<now, handled, admitted>> /\ pc' = [pc EXCEPT ![p] = "idle"]
          /\ job' = [job EXCEPT ![p] = NoJob]
        BY <1>6 DEF Respond, Crash, observed
    <2> QED
        BY <2>1 DEF WorksOn
<1>7. CASE PurgeStore \/ UNCHANGED vars
    BY <1>7 DEF PurgeStore, vars, observed, WorksOn
<1> QED
    BY <1>1, <1>3, <1>4, <1>5, <1>6, <1>7 DEF Next, Step

LEMMA WorkOnceStep ==
    ASSUME Backend = "sqlite", TInv, NonceKept, WorkOnce, [Next]_vars
    PROVE  WorkOnce'
<1> USE DEF TInv, TypeOK
<1>1. ASSUME UNCHANGED <<now, handled, admitted>>,
             \A q \in Procs, e \in Envelopes : WorksOn(q, e)' => WorksOn(q, e)
      PROVE  WorkOnce'
    <2>1. \A e : Ran(e)' <=> Ran(e)
        BY <1>1 DEF Ran
    <2> QED
        BY <1>1, <2>1 DEF WorkOnce
<1>2. CASE Tick
    <2>1. now < now' /\ now' \in Nat /\ UNCHANGED <<admitted, handled, pc, job>>
        BY <1>2 DEF Tick, observed
    <2>2. \A e \in Envelopes : now' < e.expires => now < e.expires
        BY <2>1, NodeAssumption
    <2>3. \A e : /\ Ran(e)' <=> Ran(e)
                 /\ \A q : WorksOn(q, e)' <=> WorksOn(q, e)
        BY <2>1 DEF Ran, WorksOn
    <2> QED
        BY <2>1, <2>2, <2>3 DEF WorkOnce
<1>3. ASSUME NEW p \in Procs, Admit(p) PROVE WorkOnce'
    <2> DEFINE e == job[p].env
    <2>1. e \in Envelopes /\ pc[p] = "nonce"
        BY <1>3, JobFacts DEF Admit
    <2>2. now < e.expires => ~(admitted[e] > 0)
        BY <1>3, <2>1 DEF Admit, SeenNonce, NonceRow, NonceKept
    <2>3. /\ admitted' = [admitted EXCEPT ![e] = @ + 1] /\ job' = job
          /\ pc' = [pc EXCEPT ![p] = pc'[p]] /\ UNCHANGED <<now, handled>>
        BY <1>3 DEF Admit, Answer, Goto
    <2>4. \A f : Ran(f)' <=> Ran(f)
        BY <2>3 DEF Ran
    <2>5. \A q \in Procs, f \in Envelopes :
              WorksOn(q, f)' => WorksOn(q, f) \/ (q = p /\ f = e)
        BY <2>3 DEF WorksOn
    <2>6. \A f \in Envelopes : f # e => admitted'[f] = admitted[f]
        BY <2>3
    <2>7. admitted'[e] > 0
        BY <2>1, <2>3
    <2> HIDE DEF e
    <2> QED
        BY <2>1, <2>2, <2>3, <2>4, <2>5, <2>6, <2>7 DEF WorkOnce
<1>4. ASSUME NEW p \in Procs, NEW result, RunHandler(p, result) PROVE WorkOnce'
    <2> DEFINE e == job[p].env
    <2>1. e \in Envelopes /\ WorksOn(p, e)
        BY <1>4, JobFacts DEF RunHandler, WorksOn
    <2>2. /\ UNCHANGED <<now, admitted, job>>
          /\ pc' = [pc EXCEPT ![p] = pc'[p]] /\ pc'[p] \in {"put", "reply"}
        <3>1. pc' = [pc EXCEPT ![p] = "put"] \/ pc' = [pc EXCEPT ![p] = "reply"]
            BY <1>4, RunMoves
        <3>2. UNCHANGED <<now, admitted, job>>
            BY <1>4, RunMoves DEF RunHandler
        <3> QED
            BY <3>1, <3>2
    <2>3. \A f : Ran(f)' => Ran(f) \/ f = e
        BY <1>4, HandledGrows DEF Ran
    <2>4. \A q \in Procs, f \in Envelopes : WorksOn(q, f)' => WorksOn(q, f) /\ q # p
        BY <2>2 DEF WorksOn
    <2> HIDE DEF e
    <2> QED
        BY <2>1, <2>2, <2>3, <2>4 DEF WorkOnce
<1> QED
    BY <1>1, <1>2, <1>3, <1>4, NoNewWork

\* An answer of the inbox route names its request, says that something was
\* handled, or refuses a request that was not read; and one that is neither an
\* error nor says so names nothing.
Plain(r, res) ==
    r.tool = "inbox" =>
        /\ res.type = "error" \/ Positive(r, res) \/ res.ref = NoRef
        /\ res.ref = r.env.id \/ Positive(r, res) \/ Barred(r.env, "inbox")

RepliesPlain == \A p \in Procs : pc[p] \in {"put", "reply"} => Plain(job[p], reply[p])

LEMMA PlainStep ==
    ASSUME TInv, TruthInv, RepliesPlain, [Next]_vars
    PROVE  RepliesPlain'
<1> USE DEF TInv, TypeOK
<1>1. ASSUME NEW p \in Procs, NEW res, Answer(p, res), Plain(job[p], res)
      PROVE  RepliesPlain'
    <2>1. job[p].tool = "inbox" => ToolReply(job[p].tool, res) = res
        BY DEF ToolReply
    <2>2. /\ pc' = [pc EXCEPT ![p] = "reply"] /\ job' = job
          /\ reply' = [reply EXCEPT ![p] = ToolReply(job[p].tool, res)]
        BY <1>1 DEF Answer
    <2> QED
        BY <1>1, <2>1, <2>2 DEF RepliesPlain, Plain
<1>2. ASSUME NEW p \in Procs, NEW step, Goto(p, step), pc[p] = "put" \/ step \notin {"put", "reply"}
      PROVE  RepliesPlain'
    BY <1>2 DEF Goto, RepliesPlain
<1>3. \A r, code : Plain(r, RequestError(r, code))
    BY DEF Plain, RequestError, Error
<1>4. ASSUME NEW p \in Procs, NEW e \in Envelopes, NEW tool, Verify(p, e, tool)
      PROVE  RepliesPlain'
    BY <1>4 DEF Verify, RepliesPlain
<1>5. ASSUME NEW p \in Procs, NEW e \in Envelopes, NEW tool, Refuse(p, e, tool)
      PROVE  RepliesPlain'
    <2> DEFINE r == [tool |-> tool, env |-> e]
    <2>1. /\ pc' = [pc EXCEPT ![p] = "reply"] /\ job' = [job EXCEPT ![p] = r]
          /\ reply' = [reply EXCEPT ![p] = reply'[p]]
        BY <1>5 DEF Refuse
    <2>2. Plain(r, reply'[p])
        <3>1. CASE Barred(e, tool) /\ reply' = [reply EXCEPT ![p] = BarredReply(e)]
            BY <3>1 DEF Plain, BarredReply, Error, Response
        <3>2. CASE ~ToolTakes(tool, e.type)
            BY <3>2 DEF Plain, ToolTakes
        <3>3. CASE reply' = [reply EXCEPT ![p] = RequestError(r, VerifyHeader(e, now))]
            BY <1>3, <3>3
        <3> QED
            BY <1>5, <3>1, <3>2, <3>3 DEF Refuse
    <2> HIDE DEF r
    <2> QED
        BY <2>1, <2>2 DEF RepliesPlain
<1>6. ASSUME NEW p \in Procs, Replay(p) \/ Deny(p) PROVE RepliesPlain'
    BY <1>1, <1>3, <1>6 DEF Replay, Deny
<1>7. ASSUME NEW p \in Procs, Admit(p) PROVE RepliesPlain'
    <2>1. AfterNonce(job[p]) \notin {"put", "reply"}
        BY DEF AfterNonce
    <2> QED
        BY <1>1, <1>2, <1>3, <1>7, <2>1 DEF Admit
<1>8. ASSUME NEW p \in Procs, Lookup(p) PROVE RepliesPlain'
    <2>1. \A r, ref : Plain(r, Receipt("duplicate", ref)) /\ Plain(r, Response("data", ref))
        BY DEF Plain, Receipt, Response, Positive
    <2> QED
        BY <1>1, <1>2, <1>8, <2>1 DEF Lookup
<1>9. ASSUME NEW p \in Procs, NEW result \in Outcomes, RunHandler(p, result)
      PROVE  RepliesPlain'
    <2> DEFINE res == HandlerResponse(job[p].env, result)
    <2>1. Plain(job[p], res)
        BY HandlerResponses DEF Outcomes, Plain, Positive, Receipt, Response, Error
    <2>2. PICK out \in {res, ToolReply(job[p].tool, res)} :
            reply' = [reply EXCEPT ![p] = out]
        BY <1>9, RunEffect
    <2>3. job' = job /\ pc' = [pc EXCEPT ![p] = pc'[p]]
        BY <1>9, RunEffect
    <2>4. Plain(job[p], out)
        BY <2>1, <2>2 DEF Plain, ToolReply
    <2> QED
        BY <2>2, <2>3, <2>4 DEF RepliesPlain
<1>10. ASSUME NEW p \in Procs, Put(p) PROVE RepliesPlain'
    <2>1. Answer(p, reply[p]) /\ Plain(job[p], reply[p])
        BY <1>10 DEF Put, RepliesPlain
    <2> QED
        BY <1>1, <2>1
<1>11. ASSUME NEW p \in Procs, Find(p) PROVE RepliesPlain'
    <2>1. job[p].tool = "pip_get_receipt" /\ \E res : Answer(p, res)
        BY <1>11 DEF Find, TruthInv, NoReplyYet
    <2> QED
        BY <1>1, <2>1 DEF Plain
<1>12. ASSUME NEW p \in Procs, StoreBusy(p) PROVE RepliesPlain'
    <2>1. CASE job[p].tool = "pip_get_receipt"
        <3>1. Answer(p, Response("exception", NoRef)) /\ Plain(job[p], Response("exception", NoRef))
            BY <1>12, <2>1 DEF StoreBusy, Plain
        <3> QED
            BY <1>1, <3>1
    <2>2. CASE job[p].tool # "pip_get_receipt"
        <3>1. /\ Answer(p, Error("INTERNAL", job[p].env.id))
              /\ Plain(job[p], Error("INTERNAL", job[p].env.id))
            BY <1>12, <2>2 DEF StoreBusy, Plain, Error
        <3> QED
            BY <1>1, <3>1
    <2> QED
        BY <2>1, <2>2
<1>13. ASSUME NEW p \in Procs, Respond(p) \/ Crash(p) PROVE RepliesPlain'
    <2>1. pc' = [pc EXCEPT ![p] = "idle"] /\ job' = [job EXCEPT ![p] = NoJob]
          /\ reply' = [reply EXCEPT ![p] = NoReply]
        BY <1>13 DEF Respond, Crash
    <2> QED
        BY <2>1 DEF RepliesPlain
<1>14. CASE PurgeStore \/ Tick \/ UNCHANGED vars
    BY <1>14 DEF PurgeStore, Tick, vars, RepliesPlain
<1> QED
    BY <1>4, <1>5, <1>6, <1>7, <1>8, <1>9, <1>10, <1>11, <1>12, <1>13, <1>14 DEF Next, Step

-----------------------------------------------------------------------------
(* Calls, requests and items.                                              *)

\* A worker waits on an item of its snapshot that it has not sent yet.
CallsWait ==
    \A w \in Workers : call[w] # NoCall =>
        sending[w] = Sender!NotSending /\ call[w].copy \in pass[w]

\* The process a call is at works on the item of the call, and on no other call.
CallsServed ==
    \A w \in Workers, p \in Procs : call[w].at = p =>
        /\ pc[p] # "idle" /\ job[p].env = call[w].copy.item
        /\ \A v \in Workers : call[v].at = p => v = w

\* Only items of the queue reach the node, through the inbox route.
OnlyPosted ==
    /\ \A p \in Procs : pc[p] # "idle" => job[p].env \in enqueued /\ job[p].tool = "inbox"
    /\ \A e \in Envelopes : strays[e] > 0 => e \in enqueued

StraysTyped == strays \in [Envelopes -> Nat]

LinkInv == CallsWait /\ CallsServed /\ OnlyPosted /\ StraysTyped

\* What the receiver's actions do to its requests.
LEMMA ServeKeeps ==
    ASSUME TInv, NEW p \in Procs, Serve(p)
    PROVE  /\ pc[p] # "idle" /\ pc' = [pc EXCEPT ![p] = pc'[p]] /\ pc'[p] # "idle"
           /\ job' = job
<1>1. ASSUME NEW res, Answer(p, res)
      PROVE  pc' = [pc EXCEPT ![p] = pc'[p]] /\ pc'[p] # "idle" /\ job' = job
    BY <1>1 DEF Answer, TInv, TypeOK
<1>2. ASSUME NEW step, Goto(p, step), step # "idle"
      PROVE  pc' = [pc EXCEPT ![p] = pc'[p]] /\ pc'[p] # "idle" /\ job' = job
    BY <1>2 DEF Goto, TInv, TypeOK
<1>3. CASE Replay(p)
    BY <1>1, <1>3 DEF Replay
<1>4. CASE Admit(p)
    BY <1>1, <1>2, <1>4 DEF Admit, AfterNonce
<1>5. CASE Lookup(p)
    BY <1>1, <1>2, <1>5 DEF Lookup
<1>6. CASE Deny(p)
    BY <1>1, <1>6 DEF Deny
<1>7. ASSUME NEW result, RunHandler(p, result)
      PROVE  /\ pc[p] # "idle" /\ pc' = [pc EXCEPT ![p] = pc'[p]] /\ pc'[p] # "idle"
             /\ job' = job
    BY <1>7, RunMoves DEF TInv, TypeOK
<1>8. CASE Put(p)
    BY <1>1, <1>8 DEF Put
<1>9. CASE StoreBusy(p)
    BY <1>1, <1>9 DEF StoreBusy
<1> QED
    BY <1>3, <1>4, <1>5, <1>6, <1>7, <1>8, <1>9 DEF Serve

LEMMA ReceiveTakes ==
    ASSUME TInv, NEW p \in Procs, NEW e, Receive(p, e)
    PROVE  /\ pc[p] = "idle" /\ pc' = [pc EXCEPT ![p] = pc'[p]] /\ pc'[p] # "idle"
           /\ job' = [job EXCEPT ![p] = [tool |-> "inbox", env |-> e]]
           /\ UNCHANGED <<now, store, handled, admitted, crashes>>
    BY DEF Receive, Verify, Refuse, TInv, TypeOK, observed

\* A call ends, or its worker dies; the other workers wait on.
CallEnds(w) ==
    /\ call' = [call EXCEPT ![w] = NoCall]
    /\ \A v \in Workers : v # w => pass'[v] = pass[v] /\ sending'[v] = sending[v]

LEMMA CallsKept ==
    ASSUME PartsInv, CallsWait, NEW w \in Workers, CallEnds(w)
    PROVE  /\ CallsWait'
           /\ \A v \in Workers : v # w => call'[v] = call[v]
           /\ \A p \in Procs : call'[w].at # p
<1> USE DEF PartsInv, CallsTyped
<1>1. call'[w] = NoCall /\ \A v \in Workers : v # w => call'[v] = call[v]
    BY DEF CallEnds
<1>2. \A p \in Procs : NoCall.at # p
    BY DeliveryAssumption DEF NoCall
<1> QED
    BY <1>1, <1>2 DEF CallEnds, CallsWait

LEMMA LinkStep ==
    ASSUME PartsInv, QueuedInv, LinkInv, [DeliveryNext]_DeliveryVars
    PROVE  LinkInv'
<1> USE DEF PartsInv, QueueInv, Sender!TypeOK, CallsTyped, LinkInv, StraysTyped
<1>1. \A w \in Workers : call[w] # NoCall => call[w].copy.item \in enqueued /\ call[w].copy.item \in Envelopes
    BY DEF CallsWait, QueuedInv, CopiesEnqueued, Sender!Copy
<1>2. TInv /\ \A w \in Workers, p \in Procs : call[w].at = p => call[w] # NoCall
    BY DeliveryAssumption DEF NoCall
<1>3. ASSUME NEW e \in Envelopes, Post(e) PROVE LinkInv'
    BY <1>3 DEF Post, Sender!Enqueue, receiver, vars, network, CallsWait, CallsServed, OnlyPosted
<1>4. ASSUME NEW w \in Workers, StartPass(w) PROVE LinkInv'
    <2>1. call[w] = NoCall
        BY <1>4 DEF StartPass, Sender!StartPass, CallsWait
    <2> QED
        BY <1>4, <2>1
           DEF StartPass, Sender!StartPass, receiver, vars, network, CallsWait, CallsServed, OnlyPosted
<1>5. ASSUME NEW w \in Workers, Mark(w) PROVE LinkInv'
    <2>1. call[w] = NoCall
        BY <1>5 DEF Mark, Sender!Mark, CallsWait
    <2> QED
        BY <1>5, <2>1
           DEF Mark, Sender!Mark, receiver, vars, network, CallsWait, CallsServed, OnlyPosted
<1>6. ASSUME NEW w \in Workers, NEW c \in pass[w], Dial(w, c) PROVE LinkInv'
    <2>1. /\ call' = [call EXCEPT ![w] = [copy |-> c, at |-> "way"]]
          /\ UNCHANGED <<pass, sending, enqueued, pc, job, strays>>
          /\ sending[w] = Sender!NotSending
        BY <1>6 DEF Dial, receiver, vars, sender
    <2>2. CallsWait'
        BY <2>1 DEF CallsWait
    <2>3. CallsServed'
        BY <2>1, DeliveryAssumption DEF CallsServed
    <2>4. OnlyPosted'
        BY <2>1 DEF OnlyPosted
    <2> QED
        BY <2>1, <2>2, <2>3, <2>4
\* A call ends, or its worker dies: the request goes on, if at all, as a stray.
<1>7. ASSUME NEW w \in Workers, CallEnds(w), UNCHANGED <<pc, job, enqueued>>,
             \/ strays' = strays
             \/ call[w].at = "way" /\ strays' = [strays EXCEPT ![call[w].copy.item] = @ + 1]
      PROVE  LinkInv'
    <2>1. CallsWait' /\ CallsServed'
        <3>1. \A v \in Workers, p \in Procs : call'[v].at = p => call[v].at = p
            BY <1>7, CallsKept
        <3> QED
            BY <1>7, <3>1, CallsKept DEF CallsServed
    <2>2. OnlyPosted' /\ StraysTyped'
        <3>1. CASE strays' = strays
            BY <1>7, <3>1 DEF OnlyPosted
        <3>2. CASE call[w].at = "way" /\ strays' = [strays EXCEPT ![call[w].copy.item] = @ + 1]
            <4>1. call[w] # NoCall
                BY <3>2 DEF NoCall
            <4> QED
                BY <1>1, <1>7, <3>2, <4>1 DEF OnlyPosted
        <3> QED
            BY <1>7, <3>1, <3>2
    <2> QED
        BY <2>1, <2>2
<1>8. ASSUME NEW w \in Workers, SenderCrash(w) PROVE LinkInv'
    BY <1>7, <1>8 DEF SenderCrash, Sender!Crash, receiver, vars, CallEnds
<1>9. ASSUME NEW w \in Workers, NEW o, Break(w, o) PROVE LinkInv'
    BY <1>7, <1>9 DEF Break, EndCall, Sender!Send, receiver, vars, CallEnds
<1>10. ASSUME NEW w \in Workers, NEW p \in Procs, Return(w, p) PROVE LinkInv'
    <2>1. /\ call[w].at = p /\ CallEnds(w)
          /\ pc' = [pc EXCEPT ![p] = "idle"] /\ job' = [job EXCEPT ![p] = NoJob]
          /\ UNCHANGED <<enqueued, strays>>
        BY <1>10 DEF Return, EndCall, Respond, Sender!Send, CallEnds
    <2>2. CallsWait' /\ CallsServed'
        <3>1. \A v \in Workers, q \in Procs : call'[v].at = q => call[v].at = q /\ v # w
            BY <2>1, CallsKept
        <3>2. \A v \in Workers, q \in Procs : call'[v].at = q => q # p
            BY <2>1, <3>1 DEF CallsServed
        <3>3. \A q \in Procs : q # p => pc'[q] = pc[q] /\ job'[q] = job[q]
            BY <1>2, <2>1 DEF TInv, TypeOK
        <3>4. CallsWait' /\ \A v \in Workers : v # w => call'[v] = call[v]
            BY <2>1, CallsKept
        <3> QED
            BY <3>1, <3>2, <3>3, <3>4 DEF CallsServed
    <2>3. OnlyPosted' /\ StraysTyped'
        BY <1>2, <2>1 DEF OnlyPosted, TInv, TypeOK
    <2> QED
        BY <2>2, <2>3
<1>11. ASSUME NEW w \in Workers, NEW p \in Procs, Arrive(w, p) PROVE LinkInv'
    <2> DEFINE e == call[w].copy.item
    <2>1. /\ pc[p] = "idle" /\ pc' = [pc EXCEPT ![p] = pc'[p]] /\ pc'[p] # "idle"
          /\ job' = [job EXCEPT ![p] = [tool |-> "inbox", env |-> e]]
          /\ call' = [call EXCEPT ![w] = [copy |-> call[w].copy, at |-> p]]
          /\ UNCHANGED <<pass, sending, enqueued, strays>>
        BY <1>2, <1>11, ReceiveTakes DEF Arrive, sender
    <2>2. call[w] # NoCall /\ e \in enqueued
        BY <1>1, <1>11 DEF Arrive, NoCall
    <2>3. CallsWait'
        BY <2>1, <2>2 DEF CallsWait
    <2>4. CallsServed'
        <3>1. \A v \in Workers, q \in Procs :
                  call'[v].at = q => (v = w /\ q = p) \/ (v # w /\ q # p /\ call[v].at = q)
            BY <2>1 DEF CallsServed
        <3>2. /\ \A q \in Procs : q # p => pc'[q] = pc[q] /\ job'[q] = job[q]
              /\ job'[p].env = e /\ call'[w].copy.item = e
              /\ \A v \in Workers : v # w => call'[v] = call[v]
            BY <1>2, <2>1 DEF TInv, TypeOK
        <3> HIDE DEF e
        <3> QED
            BY <2>1, <3>1, <3>2 DEF CallsServed
    <2>5. OnlyPosted'
        BY <1>2, <2>1, <2>2 DEF OnlyPosted, TInv, TypeOK
    <2> QED
        BY <2>1, <2>3, <2>4, <2>5
<1>12. ASSUME NEW e \in Envelopes, NEW p \in Procs, ArriveLate(e, p) PROVE LinkInv'
    <2>1. /\ pc[p] = "idle" /\ pc' = [pc EXCEPT ![p] = pc'[p]] /\ pc'[p] # "idle"
          /\ job' = [job EXCEPT ![p] = [tool |-> "inbox", env |-> e]]
          /\ strays' = [strays EXCEPT ![e] = @ - 1] /\ strays[e] > 0
          /\ UNCHANGED <<pass, sending, enqueued, call>>
        BY <1>2, <1>12, ReceiveTakes DEF ArriveLate, sender
    <2>2. CallsWait' /\ StraysTyped'
        BY <2>1 DEF CallsWait
    <2>3. CallsServed'
        <3>1. \A q \in Procs : q # p => pc'[q] = pc[q] /\ job'[q] = job[q]
            BY <1>2, <2>1 DEF TInv, TypeOK
        <3> QED
            BY <2>1, <3>1 DEF CallsServed
    <2>4. OnlyPosted'
        BY <1>2, <2>1 DEF OnlyPosted, TInv, TypeOK
    <2> QED
        BY <2>2, <2>3, <2>4
<1>13. ASSUME NEW p \in Procs, Serve(p) PROVE LinkInv'
    <2>1. /\ pc[p] # "idle" /\ pc' = [pc EXCEPT ![p] = pc'[p]] /\ pc'[p] # "idle" /\ job' = job
          /\ UNCHANGED <<pass, sending, enqueued, call, strays>>
        BY <1>2, <1>13, ServeKeeps DEF Serve, sender, network
    <2> QED
        BY <1>2, <2>1 DEF CallsWait, CallsServed, OnlyPosted, TInv, TypeOK
<1>14. ASSUME NEW p \in Procs, ServerCrash(p) PROVE LinkInv'
    <2>1. /\ pc' = [pc EXCEPT ![p] = "idle"] /\ job' = [job EXCEPT ![p] = NoJob]
          /\ UNCHANGED <<pass, sending, enqueued, strays>>
          /\ call' = [w \in Workers |-> IF call[w].at = p
                                        THEN [copy |-> call[w].copy, at |-> "gone"] ELSE call[w]]
        BY <1>14 DEF ServerCrash, Crash, sender
    <2>2. \A w \in Workers : /\ call'[w] # NoCall => call[w] # NoCall /\ call'[w].copy = call[w].copy
                             /\ \A q \in Procs : call'[w].at = q => call[w].at = q /\ q # p
        BY <1>2, <2>1, DeliveryAssumption
    <2>3. CallsWait'
        BY <2>1, <2>2 DEF CallsWait
    <2>4. CallsServed'
        <3>1. \A q \in Procs : q # p => pc'[q] = pc[q] /\ job'[q] = job[q]
            BY <1>2, <2>1 DEF TInv, TypeOK
        <3>2. \A w \in Workers, q \in Procs : call'[w].at = q => call'[w] = call[w]
            BY <2>1, DeliveryAssumption
        <3> QED
            BY <2>2, <3>1, <3>2 DEF CallsServed
    <2>5. OnlyPosted'
        BY <1>2, <2>1 DEF OnlyPosted, TInv, TypeOK
    <2> QED
        BY <2>1, <2>3, <2>4, <2>5
<1>15. ASSUME NEW p \in Procs, ReturnToNobody(p) PROVE LinkInv'
    <2>1. /\ pc' = [pc EXCEPT ![p] = "idle"] /\ job' = [job EXCEPT ![p] = NoJob]
          /\ \A w \in Workers : call[w].at # p
          /\ UNCHANGED <<pass, sending, enqueued, strays, call>>
        BY <1>15 DEF ReturnToNobody, Respond, sender, network
    <2> QED
        BY <1>2, <2>1 DEF CallsWait, CallsServed, OnlyPosted, TInv, TypeOK
<1>16. ASSUME PurgeTables \/ Clock \/ UNCHANGED DeliveryVars PROVE LinkInv'
    <2>1. UNCHANGED <<pc, job, pass, sending, enqueued, strays, call>>
        BY <1>16 DEF PurgeTables, PurgeStore, Clock, Tick, DeliveryVars, receiver, vars, sender, network
    <2> QED
        BY <2>1 DEF CallsWait, CallsServed, OnlyPosted
<1> QED
    BY <1>3, <1>4, <1>5, <1>6, <1>8, <1>9, <1>10, <1>11, <1>12, <1>13, <1>14, <1>15, <1>16 DEF DeliveryNext

-----------------------------------------------------------------------------
(* What the sender concludes.                                              *)

\* Where a receipt or data came in, the handler ran for the item.
AcceptedRan ==
    \A w \in Workers : sending[w] # Sender!NotSending /\ sending[w].outcome = "accepted" =>
        Ran(sending[w].copy.item)

ConfirmedGone == \A e \in confirmed : e \in enqueued /\ outbox[e] = Sender!Absent

HandInv ==
    /\ FreshInv /\ AnsweredInv /\ LinkInv
    /\ RepliesPlain /\ NonceKept /\ WorkOnce
    /\ AcceptedRan /\ ConfirmedGone

\* The reply that HttpPeerClient takes for an acceptance is for a run of this item.
LEMMA AcceptedReply ==
    ASSUME PartsInv, LinkInv, RepliesPlain,
           NEW w \in Workers, NEW p \in Procs, call[w].at = p, pc[p] = "reply",
           Outcome(call[w].copy.item, reply[p]) = "accepted"
    PROVE  Ran(call[w].copy.item)
<1> DEFINE e == call[w].copy.item
<1>1. job[p].env = e /\ job[p].tool = "inbox" /\ e \in Envelopes
    BY JobFacts DEF LinkInv, CallsServed, OnlyPosted, PartsInv
<1>2. reply[p].ref = e.id /\ reply[p].type # "error"
    BY DEF Outcome
<1>3. e.id # NoRef
    BY <1>1, FreshAssumption
<1>4. Positive(job[p], reply[p])
    BY <1>1, <1>2, <1>3 DEF RepliesPlain, Plain
<1>5. PICK f \in Envelopes : Ran(f) /\ Backs(f, job[p], reply[p])
    BY <1>4 DEF PartsInv, TruthInv, RepliesBacked
<1>6. f.id = e.id
    BY <1>2, <1>3, <1>5 DEF Backs
<1> QED
    BY <1>1, <1>5, <1>6, FreshAssumption

LEMMA AcceptedStep ==
    ASSUME InboxServed, PartsInv, LinkInv, RepliesPlain, AcceptedRan, [DeliveryNext]_DeliveryVars
    PROVE  AcceptedRan'
<1> USE DEF PartsInv, QueueInv, Sender!TypeOK
<1>1. TInv /\ [Next]_vars
    BY PartsStep
<1>2. ASSUME UNCHANGED sending PROVE AcceptedRan'
    BY <1>1, <1>2, RanStays DEF AcceptedRan
<1>3. ASSUME NEW w \in Workers, sending' = [sending EXCEPT ![w] = Sender!NotSending]
      PROVE  AcceptedRan'
    BY <1>1, <1>3, RanStays DEF AcceptedRan
<1>4. ASSUME NEW w \in Workers, NEW o, EndCall(w, o), o = "accepted" => Ran(call[w].copy.item)
      PROVE  AcceptedRan'
    <2>1. sending' = [sending EXCEPT ![w] = [copy |-> call[w].copy, outcome |-> o]]
        BY <1>4 DEF EndCall, Sender!Send
    <2> QED
        BY <1>1, <1>4, <2>1, RanStays DEF AcceptedRan
<1>5. ASSUME NEW w \in Workers, NEW p \in Procs, Return(w, p) PROVE AcceptedRan'
    <2>1. /\ EndCall(w, Outcome(call[w].copy.item, reply[p]))
          /\ call[w].at = p /\ pc[p] = "reply"
        BY <1>5 DEF Return, Respond
    <2> QED
        BY <1>4, <2>1, AcceptedReply
<1>6. ASSUME NEW w \in Workers, NEW o \in {"network", "bad_response"}, Break(w, o)
      PROVE  AcceptedRan'
    BY <1>4, <1>6 DEF Break
<1>7. ASSUME NEW w \in Workers, Mark(w) \/ SenderCrash(w) PROVE AcceptedRan'
    BY <1>3, <1>7 DEF Mark, Sender!Mark, SenderCrash, Sender!Crash
<1>8. ASSUME NEW e, NEW w, NEW c, NEW p,
             \/ Post(e) \/ StartPass(w) \/ Dial(w, c) \/ Arrive(w, p) \/ ArriveLate(e, p)
             \/ Serve(p) \/ ServerCrash(p) \/ ReturnToNobody(p) \/ PurgeTables \/ Clock
      PROVE  UNCHANGED sending
    BY <1>8 DEF Post, Sender!Enqueue, StartPass, Sender!StartPass, Dial, Arrive, ArriveLate, Serve,
       ServerCrash, ReturnToNobody, PurgeTables, Clock, sender
<1>9. CASE UNCHANGED DeliveryVars
    BY <1>2, <1>9 DEF DeliveryVars, sender
<1> QED
    BY <1>2, <1>5, <1>6, <1>7, <1>8, <1>9 DEF DeliveryNext

LEMMA ConfirmedStep ==
    ASSUME PartsInv, FreshInv, ConfirmedGone, [DeliveryNext]_DeliveryVars
    PROVE  ConfirmedGone'
<1> USE DEF PartsInv, QueueInv, Sender!TypeOK
<1>1. ASSUME UNCHANGED <<confirmed, outbox, enqueued>> PROVE ConfirmedGone'
    BY <1>1 DEF ConfirmedGone
<1>2. ASSUME NEW e \in Envelopes, Post(e) PROVE ConfirmedGone'
    BY <1>2 DEF Post, Sender!Enqueue, ConfirmedGone
<1>3. ASSUME NEW w \in Workers, Mark(w) PROVE ConfirmedGone'
    <2> DEFINE c == sending[w].copy
    <2>1. /\ sending[w] # Sender!NotSending /\ c \in Sender!Copy /\ c.item \in Envelopes
          /\ outbox' = [outbox EXCEPT ![c.item] = Sender!Marked(c, sending[w].outcome)]
          /\ enqueued' = enqueued
        BY <1>3 DEF Mark, Sender!Mark, Sender!Copy
    <2>2. c.item \in enqueued /\ outbox[c.item] # Sender!Absent
        BY <2>1 DEF FreshInv, CopiesFresh, IsFresh
    <2>3. \A e \in confirmed : e \in enqueued' /\ outbox'[e] = Sender!Absent
        BY <2>1, <2>2 DEF ConfirmedGone
    <2>4. CASE sending[w].outcome = "accepted"
        <3>1. Sender!Marked(c, "accepted") = Sender!Absent
            BY <2>1, MarkedIsRow DEF Sender!Outcomes, Sender!Answers
        <3>2. confirmed' = confirmed \cup {c.item}
            BY <1>3, <2>4 DEF Mark
        <3>3. outbox'[c.item] = Sender!Absent
            BY <2>1, <2>4, <3>1
        <3> QED
            BY <2>1, <2>2, <2>3, <3>2, <3>3 DEF ConfirmedGone
    <2>5. CASE sending[w].outcome # "accepted"
        BY <1>3, <2>3, <2>5 DEF Mark, ConfirmedGone
    <2> QED
        BY <2>4, <2>5
<1>4. CASE Clock
    <2>1. UNCHANGED <<confirmed, enqueued>> /\ \A e \in Envelopes : outbox'[e] = Sender!Aged(outbox[e])
        BY <1>4 DEF Clock
    <2>2. \A e \in confirmed : e \in Envelopes
        BY DEF ConfirmedGone
    <2> QED
        BY <2>1, <2>2, AgedRows DEF ConfirmedGone
<1>5. ASSUME NEW w, NEW p, NEW o, \/ StartPass(w) \/ SenderCrash(w) \/ Return(w, p) \/ Break(w, o)
      PROVE  UNCHANGED <<confirmed, outbox, enqueued>>
    BY <1>5 DEF StartPass, Sender!StartPass, SenderCrash, Sender!Crash, Return, Break, EndCall, Sender!Send
<1>6. ASSUME NEW e, NEW w, NEW c, NEW p,
             \/ Dial(w, c) \/ Arrive(w, p) \/ ArriveLate(e, p)
             \/ Serve(p) \/ ServerCrash(p) \/ ReturnToNobody(p) \/ PurgeTables
      PROVE  UNCHANGED <<confirmed, outbox, enqueued>>
    BY <1>6 DEF Dial, Arrive, ArriveLate, Serve, ServerCrash, ReturnToNobody, PurgeTables, sender
<1>7. CASE UNCHANGED DeliveryVars
    BY <1>1, <1>7 DEF DeliveryVars, sender
<1> QED
    BY <1>1, <1>2, <1>3, <1>4, <1>5, <1>6, <1>7 DEF DeliveryNext

LEMMA HandStart == DeliveryInit => HandInv
<1> SUFFICES ASSUME DeliveryInit PROVE HandInv
    OBVIOUS
<1> USE DEF DeliveryInit, Sender!Init, Init
<1>1. FreshInv
    BY DEF FreshInv, RowsEnqueued, CopiesFresh
<1>2. AnsweredInv
    BY DEF AnsweredInv, AnswerRecorded, Sender!RemovedOnlyAnswered
<1>3. CallsWait /\ OnlyPosted /\ StraysTyped
    BY DEF CallsWait, OnlyPosted, StraysTyped
<1>4. CallsServed
    BY DeliveryAssumption DEF CallsServed, NoCall
<1>5. RepliesPlain /\ NonceKept
    BY DEF RepliesPlain, NonceKept
<1>6. WorkOnce
    BY DEF WorkOnce, WorksOn, Ran
<1>7. AcceptedRan /\ ConfirmedGone
    BY DEF AcceptedRan, ConfirmedGone
<1> QED
    BY <1>1, <1>2, <1>3, <1>4, <1>5, <1>6, <1>7 DEF HandInv, LinkInv

LEMMA HandStep ==
    ASSUME Backend = "sqlite", OneWorker, InboxServed, PartsInv, HandInv,
           [DeliveryNext]_DeliveryVars
    PROVE  HandInv'
<1>1. [Next]_vars /\ [Sender!Next]_(Sender!vars) /\ QueueInv /\ TInv /\ TruthInv
    BY PartsStep DEF PartsInv
<1>2. FreshInv' /\ AnsweredInv'
    BY <1>1, FreshStep, AnsweredStep DEF HandInv
<1>3. LinkInv'
    BY FreshIsQueued, LinkStep DEF HandInv
<1>4. RepliesPlain' /\ NonceKept' /\ WorkOnce'
    BY <1>1, PlainStep, NonceKeptStep, WorkOnceStep DEF HandInv
<1>5. AcceptedRan' /\ ConfirmedGone'
    BY AcceptedStep, ConfirmedStep DEF HandInv
<1> QED
    BY <1>2, <1>3, <1>4, <1>5 DEF HandInv

-----------------------------------------------------------------------------
(* The refinement of Handover.                                             *)

\* The abstract variables, as Abstract substitutes them.
StatusOf == [e \in Envelopes |-> Status(e)]
RunSet == {e \in Envelopes : RunsOf(e) # {}}
RerunSet == {e \in Envelopes : \E i, j \in RunsOf(e) : i # j}
LapsedSet == {e \in Envelopes : e.expires <= now}

LEMMA RunSetIsRan == \A e \in Envelopes : e \in RunSet <=> Ran(e)
    BY DEF RunSet, RunsOf, Ran

\* One more run of e is seen in the abstract sets, and of no other item.
LEMMA OneMoreRun ==
    ASSUME TInv, NEW p \in Procs, NEW e \in Envelopes,
           handled' = Append(handled, [env |-> e, at |-> now, by |-> p])
    PROVE  /\ RunSet' = RunSet \cup {e}
           /\ RerunSet' = IF e \in RunSet THEN RerunSet \cup {e} ELSE RerunSet
<1> DEFINE run == [env |-> e, at |-> now, by |-> p]
<1>1. run \in [env : Envelopes, at : Nat, by : Procs] /\ handled \in Seq([env : Envelopes, at : Nat, by : Procs])
    BY DEF TInv, TypeOK
<1>2. run.env = e
    OBVIOUS
<1> DEFINE last == Len(handled) + 1
<1> HIDE DEF run
<1>3. /\ DOMAIN handled' = DOMAIN handled \cup {last} /\ last \notin DOMAIN handled
      /\ \A i \in DOMAIN handled : handled'[i] = handled[i]
      /\ handled'[last] = run
    BY <1>1 DEF run
<1> HIDE DEF last
<1>4. \A f : RunsOf(f)' = IF f = e THEN RunsOf(f) \cup {last} ELSE RunsOf(f)
    BY <1>2, <1>3 DEF RunsOf
<1>5. last \notin RunsOf(e)
    BY <1>3 DEF RunsOf
<1> QED
    BY <1>4, <1>5 DEF RunSet, RerunSet

LEMMA Stutters ==
    ASSUME UNCHANGED <<StatusOf, RunSet, RerunSet, answered, LapsedSet>>
    PROVE  UNCHANGED Abstract!vars
    BY DEF Abstract!vars, StatusOf, RunSet, RerunSet, LapsedSet

\* The parts of the abstract state follow what they are made of.
LEMMA SameStatus ==
    ASSUME UNCHANGED <<enqueued, outbox, confirmed>> PROVE UNCHANGED StatusOf
    BY DEF StatusOf, Status
LEMMA SameRuns ==
    ASSUME UNCHANGED handled PROVE UNCHANGED <<RunSet, RerunSet>>
    BY DEF RunSet, RerunSet, RunsOf
LEMMA SameLapsed ==
    ASSUME UNCHANGED now PROVE UNCHANGED LapsedSet
    BY DEF LapsedSet

LEMMA QueuedStatus ==
    ASSUME Sender!TypeOK, NEW e \in Envelopes
    PROVE  /\ StatusOf[e] = "queued" <=> /\ e \in enqueued /\ ~outbox[e].dead
                                         /\ outbox[e] # Sender!Absent
           /\ StatusOf[e] = "new" <=> e \notin enqueued
    BY DEF StatusOf, Status

\* The receiver's step, seen from outside: a run, or nothing.
LEMMA ReceiverHandover ==
    ASSUME TInv, WorkOnce, OnlyPosted, NEW p \in Procs, NEW result, RunHandler(p, result),
           Sender!TypeOK, UNCHANGED <<sender, confirmed>>
    PROVE  [Abstract!Next]_(Abstract!vars)
<1>0. PICK e \in Envelopes : e = job[p].env
    BY JobFacts DEF RunHandler
<1>1. WorksOn(p, e) /\ e \in enqueued /\ e.expires \in Nat /\ now \in Nat
    BY <1>0, NodeAssumption DEF RunHandler, WorksOn, OnlyPosted, TInv, TypeOK
<1>2. UNCHANGED <<StatusOf, LapsedSet, answered>>
    BY SameStatus, SameLapsed DEF RunHandler, sender
<1>3. CASE UNCHANGED handled
    BY <1>2, <1>3, SameRuns, Stutters
<1>4. CASE handled' = Append(handled, [env |-> e, at |-> now, by |-> p])
    <2>1. /\ RunSet' = RunSet \cup {e}
          /\ RerunSet' = IF e \in RunSet THEN RerunSet \cup {e} ELSE RerunSet
        BY <1>1, <1>4, OneMoreRun
    <2>2. e \in RunSet => e \in LapsedSet /\ RunSet' = RunSet
        BY <1>1, <2>1, RunSetIsRan DEF WorkOnce, LapsedSet
    <2>3. StatusOf[e] # "new"
        BY <1>1, QueuedStatus
    <2>4. Abstract!Run(e)
        BY <1>2, <2>1, <2>2, <2>3 DEF Abstract!Run, StatusOf, RunSet, RerunSet, LapsedSet
    <2> QED
        BY <1>1, <2>4 DEF Abstract!Next
<1> QED
    BY <1>0, <1>3, <1>4 DEF RunHandler

LEMMA MarkHandover ==
    ASSUME PartsInv, HandInv, NEW w \in Workers, Mark(w)
    PROVE  [Abstract!Next]_(Abstract!vars)
<1> USE DEF PartsInv, QueueInv, Sender!TypeOK
<1>0. sending[w] # Sender!NotSending /\ sending[w].copy \in Sender!Copy
      /\ sending[w].outcome \in Sender!Outcomes
    BY DEF Mark, Sender!Mark
<1>a. PICK c \in Sender!Copy, o \in Sender!Outcomes :
          c = sending[w].copy /\ o = sending[w].outcome
    BY <1>0
<1>b. PICK i \in Envelopes : i = c.item
    BY DEF Sender!Copy
<1>1. /\ outbox' = [outbox EXCEPT ![i] = Sender!Marked(c, o)]
      /\ enqueued' = enqueued /\ answered' = answered
    BY <1>a, <1>b DEF Mark, Sender!Mark
<1>2. i \in enqueued /\ outbox[i] # Sender!Absent /\ ~outbox[i].dead
    BY <1>0, <1>a, <1>b DEF HandInv, FreshInv, CopiesFresh, IsFresh
<1>3. UNCHANGED <<RunSet, RerunSet, LapsedSet, answered>>
    BY <1>1, SameRuns, SameLapsed DEF Mark, receiver, vars
<1>4. i \notin confirmed /\ StatusOf[i] = "queued"
    BY <1>1, <1>2, QueuedStatus DEF HandInv, ConfirmedGone
<1>5. confirmed' = IF o = "accepted" THEN confirmed \cup {i} ELSE confirmed
    BY <1>a, <1>b DEF Mark
<1>6. ASSUME NEW s, Status(i)' = s PROVE StatusOf' = [StatusOf EXCEPT ![i] = s]
    <2>1. \A e \in Envelopes : e # i => Status(e)' = Status(e)
        BY <1>1, <1>5 DEF Status
    <2> QED
        BY <1>1, <1>6, <2>1 DEF StatusOf
<1>7. Sender!Absent.dead = FALSE /\ outbox'[i] = Sender!Marked(c, o)
    BY <1>1 DEF Sender!Absent
<1>8. CASE o \in Sender!Answers
    <2>1. outbox'[i] = Sender!Absent /\ i \in answered
        BY <1>0, <1>1, <1>7, <1>8, <1>a, <1>b, MarkedIsRow DEF HandInv, AnsweredInv, AnswerRecorded
    <2>2. CASE o = "accepted"
        <3>1. Status(i)' = "confirmed"
            BY <1>1, <1>2, <1>5, <1>7, <2>1, <2>2 DEF Status
        <3>2. i \in RunSet
            BY <1>0, <2>2, <1>a, <1>b, RunSetIsRan DEF HandInv, AcceptedRan
        <3>3. Abstract!Confirm(i)
            BY <1>3, <1>4, <1>6, <2>1, <3>1, <3>2
               DEF Abstract!Confirm, StatusOf, RunSet, RerunSet, LapsedSet
        <3> QED
            BY <1>1, <3>3 DEF Abstract!Next
    <2>3. CASE o # "accepted"
        <3>1. Status(i)' = "refused"
            BY <1>1, <1>2, <1>4, <1>5, <1>7, <2>1, <2>3 DEF Status
        <3>2. Abstract!Refuse(i)
            BY <1>3, <1>4, <1>6, <2>1, <3>1
               DEF Abstract!Refuse, StatusOf, RunSet, RerunSet, LapsedSet
        <3> QED
            BY <1>1, <3>2 DEF Abstract!Next
    <2> QED
        BY <2>2, <2>3
<1>9. CASE o \notin Sender!Answers
    <2>1. outbox'[i] # Sender!Absent
        BY <1>1, <1>7, <1>9, MarkedIsRow
    <2>2. CASE outbox'[i].dead
        <3>1. Status(i)' = "abandoned"
            BY <1>1, <1>2, <2>2 DEF Status
        <3>2. Abstract!Abandon(i)
            BY <1>3, <1>4, <1>6, <3>1
               DEF Abstract!Abandon, StatusOf, RunSet, RerunSet, LapsedSet
        <3> QED
            BY <1>1, <3>2 DEF Abstract!Next
    <2>3. CASE ~outbox'[i].dead
        <3>1. Status(i)' = "queued"
            BY <1>1, <1>2, <2>1, <2>3 DEF Status
        <3>2. StatusOf' = StatusOf
            BY <1>4, <1>6, <3>1 DEF StatusOf
        <3> QED
            BY <1>3, <3>2, Stutters
    <2> QED
        BY <2>2, <2>3
<1> QED
    BY <1>8, <1>9

LEMMA EndHandover ==
    ASSUME PartsInv, HandInv, NEW w \in Workers, NEW o, EndCall(w, o),
           UNCHANGED <<handled, now, confirmed>>
    PROVE  [Abstract!Next]_(Abstract!vars)
<1> USE DEF PartsInv, QueueInv, Sender!TypeOK
<1>0. PICK i \in Envelopes : i = call[w].copy.item
    BY DEF EndCall, Sender!Send, Sender!Copy
<1>1. /\ call[w].copy \in pass[w] /\ UNCHANGED <<outbox, enqueued>>
      /\ answered' = IF o \in Sender!Answers THEN answered \cup {i} ELSE answered
    BY <1>0 DEF EndCall, Sender!Send
<1>2. i \in enqueued /\ outbox[i] # Sender!Absent /\ ~outbox[i].dead
    BY <1>0, <1>1 DEF HandInv, FreshInv, CopiesFresh, IsFresh
<1>3. UNCHANGED <<StatusOf, RunSet, RerunSet, LapsedSet>>
    BY <1>1, SameStatus, SameRuns, SameLapsed
<1>4. StatusOf[i] = "queued"
    BY <1>2, QueuedStatus
<1>5. CASE o \in Sender!Answers
    <2>1. Abstract!Answer(i)
        BY <1>1, <1>3, <1>4, <1>5 DEF Abstract!Answer, StatusOf, RunSet, RerunSet, LapsedSet
    <2> QED
        BY <1>2, <2>1 DEF Abstract!Next
<1>6. CASE o \notin Sender!Answers
    BY <1>1, <1>3, <1>6, Stutters
<1> QED
    BY <1>5, <1>6

LEMMA HandoverStep ==
    ASSUME PartsInv, HandInv, [DeliveryNext]_DeliveryVars
    PROVE  [Abstract!Next]_(Abstract!vars)
<1> USE DEF PartsInv, QueueInv, Sender!TypeOK
<1>1. ASSUME UNCHANGED <<enqueued, outbox, confirmed, answered, handled, now>>
      PROVE  UNCHANGED Abstract!vars
    BY <1>1, SameStatus, SameRuns, SameLapsed, Stutters
<1>2. ASSUME NEW e \in Envelopes, Post(e) PROVE Abstract!Next
    <2>1. /\ e \notin enqueued /\ enqueued' = enqueued \cup {e}
          /\ outbox' = [outbox EXCEPT ![e] = [attempts |-> 0, delay |-> 0, dead |-> FALSE]]
          /\ UNCHANGED <<answered, confirmed>>
        BY <1>2 DEF Post, Sender!Enqueue
    <2>2. UNCHANGED <<RunSet, RerunSet, LapsedSet>>
        BY <1>2, SameRuns, SameLapsed DEF Post, receiver, vars
    <2>3. Status(e)' = "queued"
        BY <2>1 DEF Status, Sender!Absent
    <2>4. \A f \in Envelopes : f # e => Status(f)' = Status(f)
        BY <2>1 DEF Status
    <2>5. StatusOf[e] = "new" /\ StatusOf' = [StatusOf EXCEPT ![e] = "queued"]
        BY <2>1, <2>3, <2>4, QueuedStatus DEF StatusOf
    <2>6. Abstract!Post(e)
        BY <2>1, <2>2, <2>5 DEF Abstract!Post, StatusOf, RunSet, RerunSet, LapsedSet
    <2> QED
        BY <2>6 DEF Abstract!Next
<1>3. ASSUME NEW w \in Workers, NEW o, NEW p, Return(w, p) \/ Break(w, o)
      PROVE  [Abstract!Next]_(Abstract!vars)
    <2>1. UNCHANGED <<handled, now, confirmed>>
        BY <1>3 DEF Return, Break, Respond, observed, receiver, vars
    <2>2. \E out : EndCall(w, out)
        BY <1>3 DEF Return, Break
    <2> QED
        BY <2>1, <2>2, EndHandover
<1>4. ASSUME NEW p \in Procs, Serve(p) PROVE [Abstract!Next]_(Abstract!vars)
    <2>1. UNCHANGED <<enqueued, outbox, confirmed, answered>>
        BY <1>4 DEF Serve, sender
    <2>2. CASE UNCHANGED <<handled, now>>
        BY <1>1, <2>1, <2>2
    <2>3. ASSUME NEW result, RunHandler(p, result) PROVE [Abstract!Next]_(Abstract!vars)
        <3>1. UNCHANGED <<sender, confirmed>>
            BY <1>4 DEF Serve
        <3> QED
            BY <2>3, <3>1, ReceiverHandover DEF HandInv, LinkInv
    <2>4. ASSUME Replay(p) \/ Admit(p) \/ Lookup(p) \/ Deny(p) \/ Put(p) \/ StoreBusy(p)
          PROVE UNCHANGED <<handled, now>>
        BY <2>4 DEF Replay, Admit, Lookup, Deny, Put, StoreBusy, observed
    <2> QED
        BY <1>4, <2>2, <2>3, <2>4 DEF Serve
<1>5. ASSUME Clock PROVE [Abstract!Next]_(Abstract!vars)
    <2>1. /\ UNCHANGED <<enqueued, answered, confirmed, handled>> /\ now' = now + 1
          /\ \A e \in Envelopes : outbox'[e] = Sender!Aged(outbox[e])
        BY <1>5 DEF Clock, Tick, observed
    <2>2. \A e \in Envelopes : Status(e)' = Status(e)
        BY <2>1, AgedRows DEF Status
    <2>3. UNCHANGED <<StatusOf, RunSet, RerunSet>>
        BY <2>1, <2>2, SameRuns DEF StatusOf
    <2>4. \A e \in Envelopes : e.expires <= now => e.expires <= now'
        BY <2>1, NodeAssumption DEF TInv, TypeOK
    <2>5. LapsedSet \subseteq LapsedSet' /\ LapsedSet' \subseteq Envelopes
        BY <2>4 DEF LapsedSet
    <2>6. Abstract!Lapse
        BY <2>1, <2>3, <2>5 DEF Abstract!Lapse, StatusOf, RunSet, RerunSet, LapsedSet
    <2> QED
        BY <2>6 DEF Abstract!Next
<1>6. ASSUME NEW w, StartPass(w) \/ SenderCrash(w) PROVE UNCHANGED Abstract!vars
    <2>1. UNCHANGED <<enqueued, outbox, confirmed, answered, handled, now>>
        BY <1>6 DEF StartPass, Sender!StartPass, SenderCrash, Sender!Crash, receiver, vars
    <2> QED
        BY <1>1, <2>1
<1>7. ASSUME NEW w, NEW c, Dial(w, c) PROVE UNCHANGED Abstract!vars
    <2>1. UNCHANGED <<enqueued, outbox, confirmed, answered, handled, now>>
        BY <1>7 DEF Dial, sender, receiver, vars
    <2> QED
        BY <1>1, <2>1
<1>8. ASSUME NEW w, NEW p \in Procs, NEW e, Arrive(w, p) \/ ArriveLate(e, p)
      PROVE  UNCHANGED Abstract!vars
    <2>1. UNCHANGED <<enqueued, outbox, confirmed, answered>>
        BY <1>8 DEF Arrive, ArriveLate, sender
    <2>2. UNCHANGED <<handled, now>>
        BY <1>8, ReceiveTakes DEF Arrive, ArriveLate
    <2> QED
        BY <1>1, <2>1, <2>2
<1>9. ASSUME NEW p, ServerCrash(p) \/ ReturnToNobody(p) \/ PurgeTables
      PROVE  UNCHANGED Abstract!vars
    <2>1. UNCHANGED <<enqueued, outbox, confirmed, answered>>
        BY <1>9 DEF ServerCrash, ReturnToNobody, PurgeTables, sender
    <2>2. UNCHANGED <<handled, now>>
        BY <1>9 DEF ServerCrash, Crash, ReturnToNobody, Respond, PurgeTables, PurgeStore, observed
    <2> QED
        BY <1>1, <2>1, <2>2
<1>10. CASE UNCHANGED DeliveryVars
    <2>1. UNCHANGED <<enqueued, outbox, confirmed, answered, handled, now>>
        BY <1>10 DEF DeliveryVars, sender, receiver, vars
    <2> QED
        BY <1>1, <2>1
<1>11. ASSUME NEW w \in Workers, Mark(w) PROVE [Abstract!Next]_(Abstract!vars)
    BY <1>11, MarkHandover
<1> QED
    BY <1>2, <1>3, <1>4, <1>5, <1>6, <1>7, <1>8, <1>9, <1>10, <1>11 DEF DeliveryNext

\* The two ends together, for any number of envelopes, attempts, breaks and
\* crashes, any number of receiving processes on one database, and one sender:
\* an item is settled once, confirmed only when the handler ran for it, and not
\* run twice before it expires.
THEOREM HandedOver ==
    ASSUME Backend = "sqlite", OneWorker, InboxServed
    PROVE  DeliverySpec => HandoverKept
<1>1. DeliveryInit => PartsInv /\ HandInv
    BY PartsStart, HandStart
<1>2. DeliveryInit => Abstract!Init
    <2> SUFFICES ASSUME DeliveryInit PROVE Abstract!Init
        OBVIOUS
    <2>1. enqueued = {} /\ handled = << >> /\ answered = {}
        BY DEF DeliveryInit, Sender!Init, Init
    <2>2. StatusOf = [e \in Envelopes |-> "new"]
        BY <2>1 DEF StatusOf, Status
    <2>3. \A e \in Envelopes : RunsOf(e) = {}
        BY <2>1 DEF RunsOf
    <2>4. RunSet = {} /\ RerunSet = {} /\ LapsedSet \in SUBSET Envelopes
        BY <2>3 DEF RunSet, RerunSet, LapsedSet
    <2> QED
        BY <2>1, <2>2, <2>4 DEF Abstract!Init, StatusOf, RunSet, RerunSet, LapsedSet
<1>3. PartsInv /\ HandInv /\ [DeliveryNext]_DeliveryVars => PartsInv' /\ HandInv'
    BY PartsStep, HandStep
<1>4. PartsInv /\ HandInv /\ [DeliveryNext]_DeliveryVars => [Abstract!Next]_(Abstract!vars)
    BY HandoverStep
<1> QED
    BY <1>1, <1>2, <1>3, <1>4, PTL DEF DeliverySpec, HandoverKept, Abstract!Spec

-----------------------------------------------------------------------------
(* What becomes of an item that left the queue.                            *)

\* The item was handled, under its own id or another, or denied, or a process
\* is about to do one of the two.
Safe(e) == TakenUp(e) \/ e \in denied \/ \E p \in Procs : WorksOn(p, e)

\* Nonces are on record for admitted envelopes only.
NoncesAdmitted ==
    \A r \in nonces : \E e \in Envelopes : admitted[e] > 0 /\ NonceRow(e) = r

\* Every error but REPLAY that the node answers with is seen by the observer.
DenialsSeen ==
    \A p \in Procs : reply[p].type = "error" /\ reply[p].status # "REPLAY" => job[p].env \in denied

\* What was admitted, is answered REPLAY, is about to be removed, or left the queue.
AdmittedSafe == \A e \in Envelopes : admitted[e] > 0 => Safe(e)
ReplaysSafe ==
    \A p \in Procs, e \in Envelopes : reply[p].status = "REPLAY" /\ job[p].env = e => Safe(e)
SentSafe ==
    \A w \in Workers : sending[w] # Sender!NotSending /\ sending[w].outcome \in Sender!Answers =>
        Safe(sending[w].copy.item)
RemovedSafe == \A e \in enqueued : outbox[e] = Sender!Absent => Safe(e)

SafeInv == AdmittedSafe /\ ReplaysSafe /\ SentSafe /\ RemovedSafe

GoneInv == NoncesAdmitted /\ DenialsSeen /\ (crashes = 0 => SafeInv)

LEMMA TakenUpIsRan ==
    ASSUME TInv, NEW e
    PROVE  TakenUp(e) <=> \E f \in Envelopes : Ran(f) /\ (f = e \/ SharesSlot(f, e))
<1>1. ASSUME NEW i \in DOMAIN handled PROVE handled[i].env \in Envelopes
    <2>1. handled \in Seq([env : Envelopes, at : Nat, by : Procs])
        BY DEF TInv, TypeOK
    <2>2. handled[i] \in [env : Envelopes, at : Nat, by : Procs]
        BY <2>1, ElementOfSeq
    <2> QED
        BY <2>2
<1>2. ASSUME NEW i \in DOMAIN handled, handled[i].env = e \/ SharesSlot(handled[i].env, e)
      PROVE  \E f \in Envelopes : Ran(f) /\ (f = e \/ SharesSlot(f, e))
    <2>1. handled[i].env \in Envelopes /\ Ran(handled[i].env)
        BY <1>1 DEF Ran
    <2> QED
        BY <1>2, <2>1
<1>3. ASSUME NEW f \in Envelopes, Ran(f), f = e \/ SharesSlot(f, e) PROVE TakenUp(e)
    BY <1>3 DEF Ran, TakenUp
<1> QED
    BY <1>2, <1>3 DEF TakenUp

LEMMA TakenUpStays ==
    ASSUME TInv, TInv', [Next]_vars, NEW e, TakenUp(e)
    PROVE  TakenUp(e)'
<1>1. PICK f \in Envelopes : Ran(f) /\ (f = e \/ SharesSlot(f, e))
    BY TakenUpIsRan
<1>2. Ran(f)'
    BY <1>1, RanStays
<1> QED
    BY <1>1, <1>2 DEF TakenUp, Ran

LEMMA NoncesAdmittedStep ==
    ASSUME TInv, NoncesAdmitted, [Next]_vars
    PROVE  NoncesAdmitted'
<1> USE DEF TInv, TypeOK
<1>1. CASE UNCHANGED <<nonces, admitted>>
    BY <1>1 DEF NoncesAdmitted
<1>2. ASSUME NEW p \in Procs, Admit(p) PROVE NoncesAdmitted'
    <2>1. PICK e \in Envelopes : e = job[p].env
        BY <1>2, JobFacts DEF Admit
    <2>2. nonces' = nonces \cup {NonceRow(e)} /\ admitted' = [admitted EXCEPT ![e] = @ + 1]
        BY <1>2, <2>1 DEF Admit
    <2>3. \A f \in Envelopes : (admitted[f] > 0 => admitted'[f] > 0) /\ admitted'[e] > 0
        BY <2>2
    <2> QED
        BY <2>2, <2>3 DEF NoncesAdmitted
<1>3. ASSUME NEW p \in Procs, Crash(p) PROVE NoncesAdmitted'
    BY <1>3, CrashedRows DEF Crash, observed, NoncesAdmitted
<1>4. CASE PurgeStore
    BY <1>4 DEF PurgeStore, Purge, NoncesAdmitted, observed
<1>5. CASE Tick
    BY <1>1, <1>5 DEF Tick, store, observed
<1> QED
    BY <1>1, <1>2, <1>3, <1>4, <1>5, NoncesUntouched

\* What the composition may do to denied, reply and job.
LEMMA DenialsStep ==
    ASSUME PartsInv, DenialsSeen, [DeliveryNext]_DeliveryVars
    PROVE  DenialsSeen' /\ denied \subseteq denied'
<1> USE DEF PartsInv, TInv, TypeOK
<1>1. ASSUME denied' = denied \cup Denials PROVE DenialsSeen' /\ denied \subseteq denied'
    BY <1>1 DEF DenialsSeen, Denials
<1>2. ASSUME denied' = denied, UNCHANGED <<reply, job>> PROVE DenialsSeen' /\ denied \subseteq denied'
    BY <1>2 DEF DenialsSeen
<1>3. ASSUME NEW p \in Procs, denied' = denied, Respond(p) \/ Crash(p)
      PROVE  DenialsSeen' /\ denied \subseteq denied'
    <2>1. reply' = [reply EXCEPT ![p] = NoReply] /\ job' = [job EXCEPT ![p] = NoJob]
        BY <1>3 DEF Respond, Crash
    <2> QED
        BY <1>3, <2>1 DEF DenialsSeen, NoReply
<1>4. ASSUME NEW p \in Procs, NEW w, NEW e, Arrive(w, p) \/ ArriveLate(e, p) \/ Serve(p)
      PROVE  denied' = denied \cup Denials
    BY <1>4 DEF Arrive, ArriveLate, Serve, Receive
<1>5. ASSUME NEW p \in Procs, NEW w, Return(w, p) \/ ServerCrash(p) \/ ReturnToNobody(p)
      PROVE  denied' = denied /\ (Respond(p) \/ Crash(p))
    BY <1>5 DEF Return, ServerCrash, ReturnToNobody
<1>6. ASSUME NEW e, NEW w, NEW c, NEW o,
             \/ Post(e) \/ StartPass(w) \/ Dial(w, c) \/ Mark(w) \/ SenderCrash(w) \/ Break(w, o)
             \/ PurgeTables \/ Clock \/ UNCHANGED DeliveryVars
      PROVE  denied' = denied /\ UNCHANGED <<reply, job>>
    BY <1>6 DEF Post, StartPass, Dial, Mark, SenderCrash, Break, PurgeTables, PurgeStore, Clock, Tick,
       DeliveryVars, receiver, vars
<1> QED
    BY <1>1, <1>2, <1>3, <1>4, <1>5, <1>6 DEF DeliveryNext

\* Only the replay check answers REPLAY.
LEMMA OtherCodes ==
    ASSUME NEW e, NEW t
    PROVE  VerifyHeader(e, t) # "REPLAY" /\ AuthorizeEnvelope(e, t) # "REPLAY"
<1>1. VerifyHeader(e, t) # "REPLAY"
    BY DEF VerifyHeader, OK
<1>2. \A y, s : Authorize(y, s) # "REPLAY"
    BY DEF Authorize, OK
<1>3. \A y, s, r, a : AuthorizeResource(y, s, r, a, t) # "REPLAY"
    BY <1>2 DEF AuthorizeResource, OK
<1>4. \/ AuthorizeEnvelope(e, t) = OK
      \/ \E y, s : AuthorizeEnvelope(e, t) = Authorize(y, s)
      \/ \E y, s, r, a : AuthorizeEnvelope(e, t) = AuthorizeResource(y, s, r, a, t)
    BY Zenon DEF AuthorizeEnvelope
<1> QED
    BY <1>1, <1>2, <1>3, <1>4 DEF OK

\* A process at an item goes on with it, answers it, or dies.
LEMMA WorkEnds ==
    ASSUME TInv, TruthInv, TruthInv', TInv', NEW p \in Procs, NEW e \in Envelopes, WorksOn(p, e),
           job[p].tool = "inbox", Serve(p)
    PROVE  \/ WorksOn(p, e)'
           \/ Ran(e)'
           \/ Positive(job'[p], reply'[p])
           \/ reply'[p].type = "error" /\ reply'[p].status # "REPLAY"
<1> USE DEF TInv, TypeOK
<1>0. \A res : ToolReply(job[p].tool, res) = res
    BY DEF ToolReply
<1>1. CASE Lookup(p)
    <2>1. CASE Goto(p, "dispatch")
        BY <2>1 DEF Goto, WorksOn
    <2>2. ASSUME NEW ref, Answer(p, Receipt("duplicate", ref)) \/ Answer(p, Response("data", ref))
          PROVE  Positive(job'[p], reply'[p])
        BY <1>0, <2>2 DEF Answer, Positive, Receipt, Response
    <2> QED
        BY <1>1, <2>1, <2>2 DEF Lookup
<1>2. CASE Deny(p)
    <2>1. PICK code : Answer(p, RequestError(job[p], code)) /\ code # "REPLAY"
        BY <1>2, OtherCodes DEF Deny
    <2> QED
        BY <1>0, <2>1 DEF Answer, RequestError, Error
<1>3. ASSUME NEW result \in Outcomes, RunHandler(p, result)
      PROVE  \/ Positive(job'[p], reply'[p])
             \/ reply'[p].type = "error" /\ reply'[p].status # "REPLAY"
    <2> DEFINE res == HandlerResponse(job[p].env, result)
    <2>1. reply'[p] = res /\ job' = job
        BY <1>0, <1>3, RunEffect
    <2> QED
        BY <2>1, HandlerResponses DEF Outcomes, Positive, Receipt, Response, Error
<1>4. ~Replay(p) /\ ~Admit(p) /\ ~Put(p) /\ ~StoreBusy(p)
    BY DEF WorksOn, Replay, Admit, Put, StoreBusy
<1> QED
    BY <1>1, <1>2, <1>3, <1>4 DEF Serve

LEMMA SafeStays ==
    ASSUME InboxServed, PartsInv, LinkInv, DenialsSeen, [DeliveryNext]_DeliveryVars,
           crashes' = crashes, NEW e \in Envelopes, Safe(e)
    PROVE  Safe(e)'
<1> USE DEF PartsInv
<1>1. [Next]_vars /\ PartsInv' /\ DenialsSeen' /\ denied \subseteq denied'
    BY PartsStep, DenialsStep
<1>2. CASE TakenUp(e)
    BY <1>1, <1>2, TakenUpStays DEF Safe
<1>3. CASE e \in denied
    BY <1>1, <1>3 DEF Safe
<1>4. ASSUME NEW p \in Procs, WorksOn(p, e) PROVE Safe(e)'
    <2>1. pc[p] \notin {"idle", "reply"} /\ job[p].tool = "inbox" /\ job[p].env = e
        BY <1>4 DEF WorksOn, LinkInv, OnlyPosted
    <2>2. CASE Serve(p)
        <3>1. job' = job
            BY <2>2, ServeKeeps
        <3>2. CASE WorksOn(p, e)'
            BY <3>2 DEF Safe
        <3>3. CASE Ran(e)'
            BY <3>3 DEF Safe, TakenUp, Ran
        <3>4. CASE Positive(job'[p], reply'[p])
            <4>1. PICK f \in Envelopes : Ran(f)' /\ Backs(f, job'[p], reply'[p])
                BY <1>1, <3>4 DEF TruthInv, RepliesBacked
            <4>2. f = e \/ SharesSlot(f, e)
                BY <2>1, <3>1, <4>1 DEF Backs
            <4> QED
                BY <4>1, <4>2 DEF Safe, TakenUp, Ran
        <3>5. CASE reply'[p].type = "error" /\ reply'[p].status # "REPLAY"
            BY <1>1, <2>1, <3>1, <3>5 DEF DenialsSeen, Safe
        <3> QED
            BY <1>1, <1>4, <2>1, <2>2, <3>2, <3>3, <3>4, <3>5, WorkEnds
    <2>3. ASSUME pc'[p] = pc[p], job'[p] = job[p] PROVE Safe(e)'
        BY <1>4, <2>3 DEF WorksOn, Safe
    <2>4. ASSUME NEW q \in Procs, q # p, Serve(q) PROVE Safe(e)'
        <3>1. pc'[p] = pc[p] /\ job' = job
            BY <2>4, ServeKeeps DEF TInv, TypeOK
        <3> QED
            BY <2>3, <3>1
    <2>5. ASSUME NEW q \in Procs, NEW w, NEW f, Arrive(w, q) \/ ArriveLate(f, q) PROVE Safe(e)'
        <3>1. \E g : Receive(q, g)
            BY <2>5 DEF Arrive, ArriveLate
        <3>2. q # p /\ pc'[p] = pc[p] /\ job'[p] = job[p]
            BY <2>1, <3>1, ReceiveTakes DEF TInv, TypeOK
        <3> QED
            BY <2>3, <3>2
    <2>6. ASSUME NEW q \in Procs, NEW w, Return(w, q) \/ ReturnToNobody(q) PROVE Safe(e)'
        <3>1. /\ pc[q] = "reply" /\ pc' = [pc EXCEPT ![q] = "idle"]
              /\ job' = [job EXCEPT ![q] = NoJob]
            BY <2>6 DEF Return, ReturnToNobody, Respond
        <3> QED
            BY <2>1, <2>3, <3>1
    <2>7. ASSUME NEW q \in Procs, ServerCrash(q) PROVE FALSE
        BY <2>7 DEF ServerCrash, Crash, TInv, TypeOK
    <2>8. ASSUME NEW f, NEW w, NEW c, NEW o,
                 \/ Post(f) \/ StartPass(w) \/ Dial(w, c) \/ Mark(w) \/ SenderCrash(w) \/ Break(w, o)
                 \/ PurgeTables \/ Clock \/ UNCHANGED DeliveryVars
          PROVE  UNCHANGED <<pc, job>>
        BY <2>8 DEF Post, StartPass, Dial, Mark, SenderCrash, Break, PurgeTables, PurgeStore, Clock,
           Tick, DeliveryVars, receiver, vars
    <2> QED
        BY <2>2, <2>3, <2>4, <2>5, <2>6, <2>7, <2>8 DEF DeliveryNext
<1> QED
    BY <1>2, <1>3, <1>4 DEF Safe

\* The answer that takes an item out of the queue says what became of it.
LEMMA AnsweredIsSafe ==
    ASSUME PartsInv, LinkInv, RepliesPlain, DenialsSeen, SafeInv,
           NEW w \in Workers, NEW p \in Procs, call[w].at = p, pc[p] = "reply",
           Outcome(call[w].copy.item, reply[p]) \in Sender!Answers
    PROVE  Safe(call[w].copy.item)
<1> DEFINE e == call[w].copy.item
<1>1. job[p].env = e /\ job[p].tool = "inbox" /\ e \in Envelopes /\ e.id # NoRef
    BY JobFacts, FreshAssumption DEF LinkInv, CallsServed, OnlyPosted, PartsInv
<1>2. reply[p].ref = e.id
    BY DEF Outcome, Sender!Answers
<1>3. CASE reply[p].type = "error" /\ reply[p].status # "REPLAY"
    BY <1>1, <1>3 DEF DenialsSeen, Safe
<1>4. CASE reply[p].status = "REPLAY"
    BY <1>1, <1>4 DEF SafeInv, ReplaysSafe
<1>5. CASE Positive(job[p], reply[p])
    <2>1. PICK f \in Envelopes : Ran(f) /\ Backs(f, job[p], reply[p])
        BY <1>5 DEF PartsInv, TruthInv, RepliesBacked
    <2>2. f = e \/ SharesSlot(f, e)
        BY <1>1, <2>1 DEF Backs
    <2> QED
        BY <2>1, <2>2 DEF Safe, TakenUp, Ran
<1> QED
    BY <1>1, <1>2, <1>3, <1>4, <1>5 DEF RepliesPlain, Plain

\* A reply says REPLAY when the replay check has just said so.
LEMMA ReplayReply ==
    ASSUME TInv, TruthInv, [Next]_vars, NEW p \in Procs,
           reply'[p].status = "REPLAY", reply'[p] # reply[p]
    PROVE  Replay(p)
<1> USE DEF TInv, TypeOK
<1>1. ASSUME NEW q \in Procs, NEW res, Answer(q, res), res.status # "REPLAY" PROVE FALSE
    <2>1. ToolReply(job[q].tool, res).status # "REPLAY"
        BY <1>1 DEF ToolReply, Response
    <2> QED
        BY <1>1, <2>1 DEF Answer
<1>2. /\ \A r, code : RequestError(r, code).status = code
      /\ \A code, ref : Error(code, ref).status = code
      /\ \A type, ref : Response(type, ref).status = "none"
      /\ \A status, ref : Receipt(status, ref).status = status
    BY DEF RequestError, Error, Response, Receipt
<1>0. ASSUME NEW q \in Procs, NEW code, Answer(q, RequestError(job[q], code)), code # "REPLAY"
      PROVE  FALSE
    <2>1. PICK res : res = RequestError(job[q], code)
        OBVIOUS
    <2>2. res.status # "REPLAY"
        BY <1>0, <2>1 DEF RequestError, Error
    <2> QED
        BY <1>0, <1>1, <2>1, <2>2
<1>g. ASSUME NEW q \in Procs, NEW step, Goto(q, step) PROVE FALSE
    BY <1>g DEF Goto
<1>3. ASSUME NEW q \in Procs, NEW e \in Envelopes, NEW tool, Verify(q, e, tool) \/ Refuse(q, e, tool)
      PROVE  FALSE
    <2>1. CASE Verify(q, e, tool)
        BY <2>1 DEF Verify
    <2>2. CASE Refuse(q, e, tool)
        <3>1. BarredReply(e).status # "REPLAY"
            BY <1>2 DEF BarredReply
        <3>2. RequestError([tool |-> tool, env |-> e], VerifyHeader(e, now)).status # "REPLAY"
            BY <1>2, OtherCodes
        <3> QED
            BY <1>2, <2>2, <3>1, <3>2 DEF Refuse
    <2> QED
        BY <1>3, <2>1, <2>2
<1>4. ASSUME NEW q \in Procs, Admit(q) \/ Deny(q) \/ Lookup(q) PROVE FALSE
    <2>1. CASE Admit(q)
        BY <1>0, <1>g, <2>1 DEF Admit
    <2>2. CASE Deny(q)
        <3>1. AuthorizeEnvelope(job[q].env, now) # "REPLAY"
            BY OtherCodes
        <3> QED
            BY <1>0, <2>2, <3>1 DEF Deny
    <2>3. CASE Lookup(q)
        <3>1. ASSUME NEW ref, \/ Answer(q, Receipt("duplicate", ref))
                              \/ Answer(q, Response("data", ref))
              PROVE  FALSE
            BY <3>1 DEF Answer, ToolReply, Receipt, Response
        <3> QED
            BY <1>g, <2>3, <3>1 DEF Lookup
    <2> QED
        BY <1>4, <2>1, <2>2, <2>3
<1>5. ASSUME NEW q \in Procs, NEW result \in Outcomes, RunHandler(q, result) PROVE FALSE
    <2> DEFINE res == HandlerResponse(job[q].env, result)
    <2>1. res.status # "REPLAY"
        <3>1. \/ \E s \in ReceiptStatuses : res = Receipt(s, job[q].env.id)
              \/ \E type : res = Response(type, job[q].env.id)
              \/ res = Error("INTERNAL", job[q].env.id)
            BY HandlerResponses DEF Outcomes
        <3> HIDE DEF res
        <3> QED
            BY <1>2, <3>1 DEF ReceiptStatuses
    <2>2. PICK out \in {res, ToolReply(job[q].tool, res)} :
            reply' = [reply EXCEPT ![q] = out]
        BY <1>5, RunEffect
    <2>3. out.status # "REPLAY"
        BY <2>1, <2>2 DEF ToolReply, Response
    <2> QED
        BY <2>2, <2>3
<1>6. ASSUME NEW q \in Procs, Put(q) PROVE FALSE
    <2>1. reply[q].status # "REPLAY"
        BY <1>6 DEF Put, PutReady, Kept, ReceiptStatuses
    <2>2. ToolReply(job[q].tool, reply[q]).status # "REPLAY"
        BY <2>1 DEF ToolReply, Response
    <2> QED
        BY <1>6, <2>2 DEF Put, Answer
<1>7. ASSUME NEW q \in Procs, Find(q) PROVE FALSE
    <2>1. Authorize(job[q].env.from, Scope("messages", "read")) # "REPLAY"
        BY DEF Authorize, OK
    <2> DEFINE e == job[q].env
               found == FindReceiptByRef(idempotent, e.from, e.ref, now)
    <2>2. ASSUME NEW row \in found PROVE FoundReply(e, row).status # "REPLAY"
        <3>1. row = NoRow \/ row \in idempotent
            BY DEF FindReceiptByRef
        <3>2. CASE row = NoRow
            BY <1>2, <3>2 DEF FoundReply, NoRow
        <3>3. CASE row \in idempotent
            <4>1. row.status # "REPLAY" /\ row.type \in {"receipt", "data"}
                BY <3>3 DEF ReceiptStatuses
            <4> QED
                BY <1>2, <4>1 DEF FoundReply
        <3> QED
            BY <3>1, <3>2, <3>3
    <2> QED
        <3>1. CASE Answer(q, Error("SCHEMA_INVALID", NoRef))
            BY <3>1 DEF Answer, ToolReply, Response, Error
        <3>2. CASE Answer(q, Error(Authorize(job[q].env.from, Scope("messages", "read")), NoRef))
            BY <2>1, <3>2 DEF Answer, ToolReply, Response, Error
        <3>3. ASSUME NEW row \in found, Answer(q, FoundReply(job[q].env, row)) PROVE FALSE
            <4>1. PICK res : res = FoundReply(job[q].env, row)
                OBVIOUS
            <4>2. res.status # "REPLAY"
                BY <2>2, <4>1
            <4> QED
                BY <1>1, <3>3, <4>1, <4>2
        <3> QED
            BY <1>7, <3>1, <3>2, <3>3 DEF Find
<1>8. ASSUME NEW q \in Procs, StoreBusy(q) PROVE FALSE
    <2>1. CASE Answer(q, Response("exception", NoRef))
        BY <2>1 DEF Answer, ToolReply, Response
    <2>2. CASE Answer(q, Error("INTERNAL", job[q].env.id))
        BY <2>2 DEF Answer, ToolReply, Response, Error
    <2> QED
        BY <1>8, <2>1, <2>2 DEF StoreBusy
<1>9. ASSUME NEW q \in Procs, Respond(q) \/ Crash(q) PROVE FALSE
    <2>1. reply' = [reply EXCEPT ![q] = NoReply]
        BY <1>9 DEF Respond, Crash
    <2> QED
        BY <2>1 DEF NoReply
<1>10. ~PurgeStore /\ ~Tick /\ ~UNCHANGED vars
    BY DEF PurgeStore, Tick, vars
<1>11. ASSUME NEW q \in Procs, q # p, Replay(q) PROVE FALSE
    BY <1>11 DEF Replay, Answer
<1> QED
    BY <1>3, <1>4, <1>5, <1>6, <1>7, <1>8, <1>9, <1>10, <1>11 DEF Next, Step

LEMMA AdmittedSafeStep ==
    ASSUME InboxServed, PartsInv, LinkInv, DenialsSeen, AdmittedSafe,
           [DeliveryNext]_DeliveryVars, crashes' = crashes
    PROVE  AdmittedSafe'
<1> USE DEF PartsInv, TInv, TypeOK
<1>1. [Next]_vars /\ PartsInv' /\ DenialsSeen'
    BY PartsStep, DenialsStep
<1>2. ASSUME NEW e \in Envelopes, admitted[e] > 0 PROVE Safe(e)'
    BY <1>2, SafeStays DEF AdmittedSafe
<1>3. CASE UNCHANGED admitted
    BY <1>2, <1>3 DEF AdmittedSafe
<1>4. ASSUME NEW p \in Procs, Admit(p) PROVE AdmittedSafe'
    <2>1. PICK e \in Envelopes : e = job[p].env
        BY <1>4, JobFacts DEF Admit
    <2>2. \A f \in Envelopes : f # e => admitted'[f] = admitted[f]
        BY <1>4, <2>1 DEF Admit
    <2>3. job' = job /\ job[p].tool = "inbox"
        BY <1>4 DEF Admit, Answer, Goto, LinkInv, OnlyPosted
    <2>4. CASE Goto(p, AfterNonce(job[p]))
        <3>1. AfterNonce(job[p]) \in {"lookup", "dispatch"}
            BY <2>3 DEF AfterNonce
        <3>2. WorksOn(p, e)'
            BY <2>1, <2>4, <3>1 DEF Goto, WorksOn
        <3> QED
            BY <1>2, <2>2, <3>2 DEF AdmittedSafe, Safe
    <2>5. CASE Answer(p, RequestError(job[p], "SCHEMA_INVALID"))
        <3>1. reply'[p].type = "error" /\ reply'[p].status = "SCHEMA_INVALID"
            BY <2>3, <2>5 DEF Answer, ToolReply, RequestError, Error
        <3>2. e \in denied'
            BY <1>1, <2>1, <2>3, <3>1 DEF DenialsSeen
        <3> QED
            BY <1>2, <2>2, <3>2 DEF AdmittedSafe, Safe
    <2> QED
        BY <1>4, <2>4, <2>5 DEF Admit
<1>5. ASSUME NEW p \in Procs, Crash(p) PROVE FALSE
    BY <1>5 DEF Crash
<1>6. PurgeStore \/ Tick => UNCHANGED admitted
    BY DEF PurgeStore, Tick, observed
<1> QED
    BY <1>1, <1>3, <1>4, <1>5, <1>6, NoncesUntouched

\* A REPLAY is for a nonce on record, which is this very envelope's.
LEMMA ReplaysSafeStep ==
    ASSUME InboxServed, PartsInv, LinkInv, DenialsSeen, NoncesAdmitted, AdmittedSafe, ReplaysSafe,
           [DeliveryNext]_DeliveryVars, crashes' = crashes
    PROVE  ReplaysSafe'
<1> USE DEF PartsInv
<1> SUFFICES ASSUME NEW p \in Procs, NEW e \in Envelopes,
                    reply'[p].status = "REPLAY", job'[p].env = e
             PROVE  Safe(e)'
    BY DEF ReplaysSafe
<1>1. [Next]_vars /\ PartsInv'
    BY PartsStep
<1>3. CASE reply'[p] # reply[p]
    <2>1. Replay(p)
        BY <1>1, <1>3, ReplayReply
    <2>2. e = job[p].env
        BY <2>1 DEF Replay, Answer
    <2>3. PICK r \in nonces : r.peer = e.from /\ r.nonce = e.nonce
        BY <2>1, <2>2 DEF Replay, SeenNonce
    <2>4. PICK f \in Envelopes : admitted[f] > 0 /\ NonceRow(f) = r
        BY DEF NoncesAdmitted
    <2>5. f = e
        BY <2>3, <2>4, FreshAssumption DEF NonceRow
    <2>6. Safe(e)
        BY <2>4, <2>5 DEF AdmittedSafe
    <2> QED
        BY <2>6, SafeStays
<1>4. CASE reply'[p] = reply[p]
    <2>1. pc[p] \in {"put", "reply"} /\ reply'[p] # NoReply
        BY <1>4 DEF TruthInv, NoReplyYet, NoReply
    <2>2. job'[p] = job[p]
        <3>1. ASSUME NEW q \in Procs, Serve(q) PROVE job'[p] = job[p]
            BY <3>1, ServeKeeps
        <3>2. ASSUME NEW q \in Procs, NEW w, NEW f, Arrive(w, q) \/ ArriveLate(f, q)
              PROVE  job'[p] = job[p]
            <4>1. \E g : Receive(q, g)
                BY <3>2 DEF Arrive, ArriveLate
            <4> QED
                BY <2>1, <4>1, ReceiveTakes DEF TInv, TypeOK
        <3>3. ASSUME NEW q \in Procs, NEW w, Return(w, q) \/ ReturnToNobody(q) \/ ServerCrash(q)
              PROVE  job'[p] = job[p]
            <4>1. /\ reply' = [reply EXCEPT ![q] = NoReply] /\ job' = [job EXCEPT ![q] = NoJob]
                BY <3>3 DEF Return, ReturnToNobody, Respond, ServerCrash, Crash
            <4> QED
                BY <2>1, <4>1 DEF TInv, TypeOK
        <3>4. ASSUME NEW f, NEW w, NEW c, NEW o,
                     \/ Post(f) \/ StartPass(w) \/ Dial(w, c) \/ Mark(w) \/ SenderCrash(w)
                     \/ Break(w, o) \/ PurgeTables \/ Clock \/ UNCHANGED DeliveryVars
              PROVE  UNCHANGED job
            BY <3>4 DEF Post, StartPass, Dial, Mark, SenderCrash, Break, PurgeTables, PurgeStore,
               Clock, Tick, DeliveryVars, receiver, vars
        <3> QED
            BY <3>1, <3>2, <3>3, <3>4 DEF DeliveryNext
    <2>3. Safe(e)
        BY <1>4, <2>2 DEF ReplaysSafe
    <2> QED
        BY <2>3, SafeStays
<1> QED
    BY <1>3, <1>4

LEMMA SentSafeStep ==
    ASSUME InboxServed, PartsInv, LinkInv, RepliesPlain, DenialsSeen, SafeInv,
           [DeliveryNext]_DeliveryVars, crashes' = crashes
    PROVE  SentSafe'
<1> USE DEF PartsInv, QueueInv, Sender!TypeOK
<1>0. \A e \in Envelopes : Safe(e) => Safe(e)'
    BY SafeStays
<1>1. \A w \in Workers : sending[w] # Sender!NotSending => sending[w].copy.item \in Envelopes
    BY DEF Sender!Copy
<1>2. ASSUME UNCHANGED sending PROVE SentSafe'
    BY <1>0, <1>1, <1>2 DEF SafeInv, SentSafe
<1>3. ASSUME NEW w \in Workers, sending' = [sending EXCEPT ![w] = Sender!NotSending]
      PROVE  SentSafe'
    BY <1>0, <1>1, <1>3 DEF SafeInv, SentSafe
<1>4. ASSUME NEW w \in Workers, NEW o, EndCall(w, o),
             o \in Sender!Answers => Safe(call[w].copy.item)
      PROVE  SentSafe'
    <2>1. sending' = [sending EXCEPT ![w] = [copy |-> call[w].copy, outcome |-> o]]
        BY <1>4 DEF EndCall, Sender!Send
    <2>2. PICK e \in Envelopes : e = call[w].copy.item
        BY <1>4 DEF EndCall, Sender!Send, Sender!Copy
    <2>3. o \in Sender!Answers => Safe(e)'
        BY <1>0, <1>4, <2>2
    <2> QED
        BY <1>0, <1>1, <2>1, <2>2, <2>3 DEF SafeInv, SentSafe
<1>5. ASSUME NEW w \in Workers, NEW p \in Procs, Return(w, p) PROVE SentSafe'
    <2>1. /\ EndCall(w, Outcome(call[w].copy.item, reply[p]))
          /\ call[w].at = p /\ pc[p] = "reply"
        BY <1>5 DEF Return, Respond
    <2>2. PICK o : o = Outcome(call[w].copy.item, reply[p])
        OBVIOUS
    <2> QED
        BY <1>4, <2>1, <2>2, AnsweredIsSafe
<1>6. ASSUME NEW w \in Workers, NEW o \in {"network", "bad_response"}, Break(w, o)
      PROVE  SentSafe'
    BY <1>4, <1>6 DEF Break, Sender!Answers
<1>7. ASSUME NEW w \in Workers, Mark(w) \/ SenderCrash(w) PROVE SentSafe'
    BY <1>3, <1>7 DEF Mark, Sender!Mark, SenderCrash, Sender!Crash
<1>8. ASSUME NEW e, NEW w, NEW c, NEW p,
             \/ Post(e) \/ StartPass(w) \/ Dial(w, c) \/ Arrive(w, p) \/ ArriveLate(e, p)
             \/ Serve(p) \/ ServerCrash(p) \/ ReturnToNobody(p) \/ PurgeTables \/ Clock
      PROVE  UNCHANGED sending
    BY <1>8 DEF Post, Sender!Enqueue, StartPass, Sender!StartPass, Dial, Arrive, ArriveLate, Serve,
       ServerCrash, ReturnToNobody, PurgeTables, Clock, sender
<1>9. CASE UNCHANGED DeliveryVars
    BY <1>2, <1>9 DEF DeliveryVars, sender
<1> QED
    BY <1>2, <1>5, <1>6, <1>7, <1>8, <1>9 DEF DeliveryNext

LEMMA RemovedSafeStep ==
    ASSUME InboxServed, PartsInv, LinkInv, DenialsSeen, SafeInv,
           [DeliveryNext]_DeliveryVars, crashes' = crashes
    PROVE  RemovedSafe'
<1> USE DEF PartsInv, QueueInv, Sender!TypeOK
<1>0. \A e \in Envelopes : Safe(e) => Safe(e)'
    BY SafeStays
<1>1. ASSUME UNCHANGED <<outbox, enqueued>> PROVE RemovedSafe'
    BY <1>0, <1>1 DEF SafeInv, RemovedSafe
<1>2. ASSUME NEW e \in Envelopes, Post(e) PROVE RemovedSafe'
    <2>1. /\ enqueued' = enqueued \cup {e}
          /\ outbox' = [outbox EXCEPT ![e] = [attempts |-> 0, delay |-> 0, dead |-> FALSE]]
        BY <1>2 DEF Post, Sender!Enqueue
    <2>2. outbox'[e] # Sender!Absent
        BY <2>1 DEF Sender!Absent
    <2> QED
        BY <1>0, <2>1, <2>2 DEF SafeInv, RemovedSafe
<1>3. ASSUME NEW w \in Workers, Mark(w) PROVE RemovedSafe'
    <2>0. sending[w] # Sender!NotSending /\ sending[w].copy \in Sender!Copy
          /\ sending[w].outcome \in Sender!Outcomes
        BY <1>3 DEF Mark, Sender!Mark
    <2>1. PICK c \in Sender!Copy, o \in Sender!Outcomes, i \in Envelopes :
              c = sending[w].copy /\ o = sending[w].outcome /\ i = c.item
        BY <2>0 DEF Sender!Copy
    <2>2. outbox' = [outbox EXCEPT ![i] = Sender!Marked(c, o)] /\ enqueued' = enqueued
        BY <1>3, <2>1 DEF Mark, Sender!Mark
    <2>3. outbox'[i] = Sender!Absent => Safe(i)
        BY <2>0, <2>1, <2>2, MarkedIsRow DEF SafeInv, SentSafe
    <2> QED
        BY <1>0, <2>2, <2>3 DEF SafeInv, RemovedSafe
<1>4. CASE Clock
    BY <1>0, <1>4, AgedRows DEF Clock, SafeInv, RemovedSafe
<1>5. ASSUME NEW e, NEW w, NEW c, NEW p, NEW o,
             \/ StartPass(w) \/ SenderCrash(w) \/ Dial(w, c) \/ Arrive(w, p) \/ ArriveLate(e, p)
             \/ Return(w, p) \/ Break(w, o)
             \/ Serve(p) \/ ServerCrash(p) \/ ReturnToNobody(p) \/ PurgeTables
      PROVE  UNCHANGED <<outbox, enqueued>>
    BY <1>5 DEF StartPass, Sender!StartPass, SenderCrash, Sender!Crash, Dial, Arrive, ArriveLate,
       Return, Break, EndCall, Sender!Send, Serve, ServerCrash, ReturnToNobody, PurgeTables, sender
<1>6. CASE UNCHANGED DeliveryVars
    BY <1>1, <1>6 DEF DeliveryVars, sender
<1> QED
    BY <1>1, <1>2, <1>3, <1>4, <1>5, <1>6 DEF DeliveryNext

LEMMA GoneStart == DeliveryInit => GoneInv
<1> SUFFICES ASSUME DeliveryInit PROVE GoneInv
    OBVIOUS
<1> USE DEF DeliveryInit, Sender!Init, Init
<1>1. NoncesAdmitted /\ AdmittedSafe /\ RemovedSafe
    BY DEF NoncesAdmitted, AdmittedSafe, RemovedSafe
<1>2. DenialsSeen /\ ReplaysSafe
    BY DEF DenialsSeen, ReplaysSafe, NoReply
<1>3. SentSafe
    BY DEF SentSafe
<1> QED
    BY <1>1, <1>2, <1>3 DEF GoneInv, SafeInv

\* What GoneInv rests on.
WorkInv == PartsInv /\ QueuedInv /\ LinkInv /\ RepliesPlain

LEMMA WorkStep ==
    ASSUME InboxServed, WorkInv, [DeliveryNext]_DeliveryVars
    PROVE  WorkInv'
<1>1. [Next]_vars /\ [Sender!Next]_(Sender!vars) /\ QueueInv /\ TInv /\ TruthInv /\ PartsInv'
    BY PartsStep DEF WorkInv, PartsInv
<1>2. QueuedInv' /\ LinkInv' /\ RepliesPlain'
    BY <1>1, QueuedStep, LinkStep, PlainStep DEF WorkInv
<1> QED
    BY <1>1, <1>2 DEF WorkInv

LEMMA CrashesGrow ==
    ASSUME TInv, [Next]_vars, crashes' = 0
    PROVE  crashes = 0
<1>1. crashes \in Nat
    BY DEF TInv, TypeOK
<1>2. ASSUME NEW p, Crash(p) PROVE crashes' = crashes + 1
    BY <1>2 DEF Crash
<1>3. ASSUME NEW p, Step(p) PROVE crashes' = crashes
    BY <1>3 DEF Step, Replay, Admit, Lookup, Deny, RunHandler, Put, Find, StoreBusy, Respond, bounds
<1>4. ASSUME NEW p, NEW e, NEW tool, Verify(p, e, tool) \/ Refuse(p, e, tool)
      PROVE  crashes' = crashes
    BY <1>4 DEF Verify, Refuse
<1>5. PurgeStore \/ Tick \/ UNCHANGED vars => crashes' = crashes
    BY DEF PurgeStore, Tick, bounds, vars
<1> QED
    BY <1>1, <1>2, <1>3, <1>4, <1>5 DEF Next

LEMMA GoneStep ==
    ASSUME InboxServed, WorkInv, GoneInv, [DeliveryNext]_DeliveryVars
    PROVE  GoneInv'
<1> USE DEF WorkInv, GoneInv
<1>1. [Next]_vars /\ TInv
    BY PartsStep DEF PartsInv
<1>2. NoncesAdmitted' /\ DenialsSeen'
    BY <1>1, NoncesAdmittedStep, DenialsStep
<1>3. ASSUME crashes' = 0 PROVE SafeInv'
    <2>1. crashes = 0
        BY <1>1, <1>3, CrashesGrow
    <2>2. SafeInv /\ crashes' = crashes
        BY <1>3, <2>1
    <2>3. AdmittedSafe'
        BY <2>2, AdmittedSafeStep DEF SafeInv
    <2>4. ReplaysSafe'
        BY <2>2, ReplaysSafeStep DEF SafeInv
    <2>5. SentSafe' /\ RemovedSafe'
        BY <2>2, SentSafeStep, RemovedSafeStep
    <2> QED
        BY <2>3, <2>4, <2>5 DEF SafeInv
<1> QED
    BY <1>2, <1>3

\* With any number of senders, and while no process of the receiver crashes, an
\* item that left the queue was handled, is about to be, or was denied: what a
\* copy that is answered REPLAY takes out of the queue is not lost.
THEOREM GoneAccounted ==
    ASSUME InboxServed
    PROVE  DeliverySpec => []GoneIsTakenUp
<1>1. DeliveryInit => WorkInv /\ GoneInv
    BY PartsStart, HandStart, GoneStart, FreshIsQueued DEF WorkInv, HandInv
<1>2. WorkInv /\ GoneInv /\ [DeliveryNext]_DeliveryVars => WorkInv' /\ GoneInv'
    BY WorkStep, GoneStep
<1>3. WorkInv /\ GoneInv => GoneIsTakenUp
    BY DEF GoneInv, SafeInv, RemovedSafe, Safe, WorksOn, GoneIsTakenUp
<1> QED
    BY <1>1, <1>2, <1>3, PTL DEF DeliverySpec

-----------------------------------------------------------------------------
(* What several workers of one sender leave of Handover.                   *)

\* With several workers an item may be settled more than once, since each marks
\* the row by its own copy.  What a confirmation says, and what the receiver
\* does about copies, does not depend on their number.
ConfirmedRan == \A e \in confirmed : e \in Envelopes /\ Ran(e)
RerunsLapsed ==
    \A e \in Envelopes : \A i, j \in RunsOf(e) : i < j => e.expires <= now

RunsInv == AcceptedRan /\ ConfirmedRan /\ NonceKept /\ WorkOnce /\ RerunsLapsed

LEMMA ConfirmedRanStep ==
    ASSUME InboxServed, PartsInv, AcceptedRan, ConfirmedRan, [DeliveryNext]_DeliveryVars
    PROVE  ConfirmedRan'
<1> USE DEF PartsInv, QueueInv, Sender!TypeOK
<1>1. TInv /\ [Next]_vars
    BY PartsStep
<1>2. ASSUME UNCHANGED confirmed PROVE ConfirmedRan'
    BY <1>1, <1>2, RanStays DEF ConfirmedRan
<1>3. ASSUME NEW w \in Workers, Mark(w) PROVE ConfirmedRan'
    <2>1. /\ sending[w] # Sender!NotSending /\ sending[w].copy.item \in Envelopes
          /\ confirmed' = IF sending[w].outcome = "accepted"
                          THEN confirmed \cup {sending[w].copy.item} ELSE confirmed
        BY <1>3 DEF Mark, Sender!Mark, Sender!Copy
    <2>2. \A e \in confirmed' : e \in Envelopes /\ Ran(e)
        BY <2>1 DEF AcceptedRan, ConfirmedRan
    <2> QED
        BY <1>1, <2>2, RanStays DEF ConfirmedRan
<1>4. ASSUME NEW e, NEW w, NEW c, NEW p, NEW o,
             \/ Post(e) \/ StartPass(w) \/ Dial(w, c) \/ Arrive(w, p) \/ ArriveLate(e, p)
             \/ SenderCrash(w) \/ Return(w, p) \/ Break(w, o)
             \/ Serve(p) \/ ServerCrash(p) \/ ReturnToNobody(p) \/ PurgeTables \/ Clock
             \/ UNCHANGED DeliveryVars
      PROVE  UNCHANGED confirmed
    BY <1>4 DEF Post, StartPass, Dial, Arrive, ArriveLate, SenderCrash, Return, Break, Serve,
       ServerCrash, ReturnToNobody, PurgeTables, Clock, DeliveryVars
<1> QED
    BY <1>2, <1>3, <1>4 DEF DeliveryNext

LEMMA RerunsStep ==
    ASSUME TInv, WorkOnce, RerunsLapsed, [Next]_vars
    PROVE  RerunsLapsed'
<1> SUFFICES ASSUME NEW e \in Envelopes, NEW i \in RunsOf(e)', NEW j \in RunsOf(e)', i < j
             PROVE  e.expires <= now'
    BY DEF RerunsLapsed
<1>1. now \in Nat /\ now' \in Nat /\ now <= now' /\ e.expires \in Nat
    BY TimePasses, NodeAssumption DEF TInv, TypeOK
<1>2. i \in DOMAIN handled' /\ j \in DOMAIN handled' /\ handled'[i].env = e /\ handled'[j].env = e
    BY DEF RunsOf
<1>3. i \in RunsOf(e) /\ Ran(e)
    BY <1>2, LastRun DEF RunsOf, Ran
<1>4. CASE j \in DOMAIN handled /\ handled'[j] = handled[j]
    BY <1>1, <1>2, <1>3, <1>4 DEF RerunsLapsed, RunsOf
<1>5. ASSUME NEW p \in Procs, pc[p] = "dispatch",
             handled'[j] = [env |-> job[p].env, at |-> now, by |-> p]
      PROVE  e.expires <= now'
    BY <1>1, <1>2, <1>3, <1>5 DEF WorkOnce, WorksOn
<1> QED
    BY <1>2, <1>4, <1>5, LastRun

\* The two ends together over a shared database, for any number of workers of the
\* sender and processes of the receiver, and whatever breaks or crashes: an item
\* that a worker marked delivered for a receipt or data was run by the node, and
\* no item is run again before it expires.
THEOREM ConfirmedWasRun ==
    ASSUME Backend = "sqlite", InboxServed
    PROVE  DeliverySpec => [](ConfirmedRan /\ RerunsLapsed)
<1>1. DeliveryInit => WorkInv /\ RunsInv
    <2> SUFFICES ASSUME DeliveryInit PROVE WorkInv /\ RunsInv
        OBVIOUS
    <2>1. PartsInv /\ HandInv
        BY PartsStart, HandStart
    <2>2. ConfirmedRan /\ RerunsLapsed
        BY DEF DeliveryInit, Init, ConfirmedRan, RerunsLapsed, RunsOf
    <2> QED
        BY <2>1, <2>2, FreshIsQueued DEF WorkInv, RunsInv, HandInv
<1>2. WorkInv /\ RunsInv /\ [DeliveryNext]_DeliveryVars => WorkInv' /\ RunsInv'
    <2> SUFFICES ASSUME WorkInv, RunsInv, [DeliveryNext]_DeliveryVars PROVE WorkInv' /\ RunsInv'
        OBVIOUS
    <2>1. [Next]_vars /\ TInv
        BY PartsStep DEF WorkInv, PartsInv
    <2>2. AcceptedRan' /\ ConfirmedRan'
        BY AcceptedStep, ConfirmedRanStep DEF WorkInv, RunsInv
    <2>3. NonceKept' /\ WorkOnce' /\ RerunsLapsed'
        BY <2>1, NonceKeptStep, WorkOnceStep, RerunsStep DEF RunsInv
    <2> QED
        BY <2>2, <2>3, WorkStep DEF RunsInv
<1>3. RunsInv => ConfirmedRan /\ RerunsLapsed
    BY DEF RunsInv
<1> QED
    BY <1>1, <1>2, <1>3, PTL DEF DeliverySpec

-----------------------------------------------------------------------------
(* Why an item is declared dead.                                           *)

Doomed(e) == Barred(e, "inbox") \/ TakenUp(e)

\* Where nothing breaks, a send ends with an answer, or with one about another
\* envelope.
SentDoomed ==
    \A w \in Workers : sending[w] # Sender!NotSending =>
        \/ sending[w].outcome \in Sender!Answers
        \/ sending[w].outcome = "bad_response" /\ Doomed(sending[w].copy.item)
DeadDoomed == \A e \in Envelopes : outbox[e].dead => Doomed(e)
CallsAlive == \A w \in Workers : call[w].at # "gone"

DoomInv ==
    /\ breaks \in Nat
    /\ crashes = 0 /\ breaks = 0 => CallsAlive /\ SentDoomed /\ DeadDoomed

LEMMA DoomedReply ==
    ASSUME PartsInv, LinkInv, RepliesPlain,
           NEW w \in Workers, NEW p \in Procs, call[w].at = p, pc[p] = "reply",
           NEW e \in Envelopes, e = call[w].copy.item, Outcome(e, reply[p]) \notin Sender!Answers
    PROVE  Outcome(e, reply[p]) = "bad_response" /\ Doomed(e)
<1>1. job[p].env = e /\ job[p].tool = "inbox"
    BY DEF LinkInv, CallsServed, OnlyPosted
<1>2. Outcome(e, reply[p]) = "bad_response" /\ reply[p].ref # e.id
    BY DEF Outcome, Sender!Answers
<1>3. Positive(job[p], reply[p]) \/ Barred(e, "inbox")
    BY <1>1, <1>2 DEF RepliesPlain, Plain
<1>4. CASE Positive(job[p], reply[p])
    <2>1. PICK f \in Envelopes : Ran(f) /\ Backs(f, job[p], reply[p])
        BY <1>4 DEF PartsInv, TruthInv, RepliesBacked
    <2>2. f = e \/ SharesSlot(f, e)
        BY <1>1, <2>1 DEF Backs
    <2> QED
        BY <1>2, <2>1, <2>2 DEF Ran, TakenUp, Doomed
<1> QED
    BY <1>2, <1>3, <1>4 DEF Doomed

LEMMA DoomStep ==
    ASSUME InboxServed, WorkInv, DoomInv, [DeliveryNext]_DeliveryVars
    PROVE  DoomInv'
<1> USE DEF WorkInv, PartsInv, QueueInv, Sender!TypeOK
<1>1. [Next]_vars /\ TInv /\ TInv'
    BY PartsStep
<1>2. breaks' \in Nat /\ (breaks' = 0 => breaks = 0)
    <2>1. ASSUME NEW w, NEW o, Break(w, o) PROVE breaks' \in {breaks, breaks + 1}
        BY <2>1 DEF Break
    <2>2. ASSUME NEW e, NEW w, NEW c, NEW p,
                 \/ Post(e) \/ StartPass(w) \/ Dial(w, c) \/ Mark(w) \/ SenderCrash(w) \/ Return(w, p)
                 \/ Arrive(w, p) \/ ArriveLate(e, p) \/ Serve(p) \/ ServerCrash(p)
                 \/ ReturnToNobody(p) \/ PurgeTables \/ Clock \/ UNCHANGED DeliveryVars
          PROVE  breaks' = breaks
        BY <2>2 DEF Post, StartPass, Dial, Mark, SenderCrash, Return, Arrive, ArriveLate, Serve,
           ServerCrash, ReturnToNobody, PurgeTables, Clock, network, DeliveryVars
    <2>3. breaks' = breaks \/ \E w, o : Break(w, o)
        BY <2>2 DEF DeliveryNext
    <2> QED
        BY <2>1, <2>3 DEF DoomInv
<1> SUFFICES ASSUME crashes' = 0, breaks' = 0 PROVE (CallsAlive /\ SentDoomed /\ DeadDoomed)'
    BY <1>2 DEF DoomInv
<1>3. crashes = 0 /\ breaks = 0 /\ CallsAlive /\ SentDoomed /\ DeadDoomed
    BY <1>1, <1>2, CrashesGrow DEF DoomInv
<1>4. \A e \in Envelopes : Doomed(e) => Doomed(e)'
    BY <1>1, TakenUpStays DEF Doomed
<1>5. \A w \in Workers : sending[w] # Sender!NotSending => sending[w].copy.item \in Envelopes
    BY DEF Sender!Copy
<1>6. ASSUME NEW w \in Workers, NEW o, EndCall(w, o), NEW e \in Envelopes, e = call[w].copy.item,
             o \in Sender!Answers \/ (o = "bad_response" /\ Doomed(e))
      PROVE  (CallsAlive /\ SentDoomed /\ DeadDoomed)'
    <2>1. /\ sending' = [sending EXCEPT ![w] = [copy |-> call[w].copy, outcome |-> o]]
          /\ call' = [call EXCEPT ![w] = NoCall] /\ UNCHANGED outbox
        BY <1>6 DEF EndCall, Sender!Send
    <2>2. SentDoomed'
        BY <1>3, <1>4, <1>5, <1>6, <2>1 DEF SentDoomed
    <2> QED
        BY <1>3, <1>4, <2>1, <2>2 DEF CallsAlive, CallsTyped, NoCall, DeadDoomed
<1>7. ASSUME NEW w \in Workers, NEW p \in Procs, Return(w, p)
      PROVE  (CallsAlive /\ SentDoomed /\ DeadDoomed)'
    <2>1. /\ EndCall(w, Outcome(call[w].copy.item, reply[p]))
          /\ call[w].at = p /\ pc[p] = "reply"
        BY <1>7 DEF Return, Respond
    <2>2. PICK e \in Envelopes : e = call[w].copy.item
        BY <2>1 DEF EndCall, Sender!Send, Sender!Copy
    <2>3. PICK o : o = Outcome(e, reply[p])
        OBVIOUS
    <2>4. ASSUME o \notin Sender!Answers PROVE o = "bad_response" /\ Doomed(e)
        <3>1. PartsInv /\ LinkInv /\ RepliesPlain
            OBVIOUS
        <3>2. Outcome(e, reply[p]) \notin Sender!Answers
            BY <2>3, <2>4
        <3> HIDE DEF WorkInv, PartsInv
        <3>3. Outcome(e, reply[p]) = "bad_response" /\ Doomed(e)
            BY <2>1, <2>2, <3>1, <3>2, DoomedReply
        <3> QED
            BY <2>3, <3>3
    <2>5. EndCall(w, o)
        BY <2>1, <2>2, <2>3
    <2> QED
        BY <1>6, <2>2, <2>4, <2>5
<1>8. ASSUME NEW w \in Workers, NEW o, Break(w, o) PROVE FALSE
    BY <1>3, <1>8 DEF Break, CallsAlive
<1>9. ASSUME NEW w \in Workers, Mark(w) PROVE (CallsAlive /\ SentDoomed /\ DeadDoomed)'
    <2>0. sending[w] # Sender!NotSending /\ sending[w].copy \in Sender!Copy
          /\ sending[w].outcome \in Sender!Outcomes
        BY <1>9 DEF Mark, Sender!Mark
    <2>1. PICK c \in Sender!Copy, o \in Sender!Outcomes, i \in Envelopes :
              c = sending[w].copy /\ o = sending[w].outcome /\ i = c.item
        BY <2>0 DEF Sender!Copy
    <2>2. /\ outbox' = [outbox EXCEPT ![i] = Sender!Marked(c, o)]
          /\ sending' = [sending EXCEPT ![w] = Sender!NotSending] /\ UNCHANGED call
        BY <1>9, <2>1 DEF Mark, Sender!Mark, receiver, network
    <2>3. outbox'[i].dead => Doomed(i)
        BY <1>3, <2>0, <2>1, <2>2, MarkedIsRow DEF SentDoomed, Sender!Absent
    <2>4. DeadDoomed'
        BY <1>3, <1>4, <2>2, <2>3 DEF DeadDoomed
    <2>5. SentDoomed'
        BY <1>3, <1>4, <1>5, <2>2 DEF SentDoomed
    <2> QED
        BY <1>3, <2>2, <2>4, <2>5 DEF CallsAlive
<1>10. ASSUME UNCHANGED sending, CallsAlive', \A e \in Envelopes : outbox'[e].dead => outbox[e].dead
       PROVE  (CallsAlive /\ SentDoomed /\ DeadDoomed)'
    BY <1>3, <1>4, <1>5, <1>10 DEF SentDoomed, DeadDoomed
<1>11. ASSUME NEW e \in Envelopes, Post(e) PROVE (CallsAlive /\ SentDoomed /\ DeadDoomed)'
    <2>1. UNCHANGED <<sending, call>> /\ \A f \in Envelopes : outbox'[f].dead => outbox[f].dead
        BY <1>11 DEF Post, Sender!Enqueue, network
    <2> QED
        BY <1>3, <1>10, <2>1 DEF CallsAlive
<1>12. CASE Clock
    <2>1. UNCHANGED <<sending, call>> /\ \A f \in Envelopes : outbox'[f].dead => outbox[f].dead
        BY <1>12, AgedRows DEF Clock, network
    <2> QED
        BY <1>3, <1>10, <2>1 DEF CallsAlive
<1>13. ASSUME NEW w \in Workers, SenderCrash(w) PROVE (CallsAlive /\ SentDoomed /\ DeadDoomed)'
    <2>1. /\ sending' = [sending EXCEPT ![w] = Sender!NotSending] /\ UNCHANGED outbox
          /\ call' = [call EXCEPT ![w] = NoCall]
        BY <1>13 DEF SenderCrash, Sender!Crash
    <2> QED
        BY <1>3, <1>4, <1>5, <2>1 DEF CallsAlive, CallsTyped, NoCall, SentDoomed, DeadDoomed
<1>14. ASSUME NEW w, NEW c, NEW p,
              Dial(w, c) \/ (p \in Procs /\ Arrive(w, p))
       PROVE  (CallsAlive /\ SentDoomed /\ DeadDoomed)'
    <2>1. UNCHANGED <<sending, outbox>> /\ \E x : x.at # "gone" /\ call' = [call EXCEPT ![w] = x]
        BY <1>14, DeliveryAssumption DEF Dial, Arrive, sender
    <2>2. CallsAlive'
        BY <1>3, <2>1 DEF CallsAlive, CallsTyped
    <2> QED
        BY <1>10, <2>1, <2>2
<1>15. ASSUME NEW p, ServerCrash(p) PROVE FALSE
    BY <1>1, <1>3, <1>15 DEF ServerCrash, Crash, TInv, TypeOK
<1>16. ASSUME NEW e, NEW w, NEW p,
              \/ StartPass(w) \/ ArriveLate(e, p) \/ Serve(p) \/ ReturnToNobody(p)
              \/ PurgeTables \/ UNCHANGED DeliveryVars
       PROVE  (CallsAlive /\ SentDoomed /\ DeadDoomed)'
    <2>1. UNCHANGED <<sending, outbox, call>>
        BY <1>16 DEF StartPass, Sender!StartPass, ArriveLate, Serve, ReturnToNobody, PurgeTables,
           sender, network, DeliveryVars
    <2> QED
        BY <1>3, <1>10, <2>1 DEF CallsAlive
<1> QED
    BY <1>7, <1>8, <1>9, <1>11, <1>12, <1>13, <1>14, <1>15, <1>16 DEF DeliveryNext

\* With any number of senders, and while nothing crashes and no call breaks, an
\* item is declared dead only if the node cannot take it, or has handled its slot.
THEOREM DeadAccounted ==
    ASSUME InboxServed
    PROVE  DeliverySpec => []DeadWasDuplicate
<1>1. DeliveryInit => WorkInv
    BY PartsStart, HandStart, FreshIsQueued DEF WorkInv, HandInv
<1>2. DeliveryInit => DoomInv
    <2> SUFFICES ASSUME DeliveryInit PROVE DoomInv
        OBVIOUS
    <2> USE DEF DeliveryInit, Sender!Init
    <2>1. CallsAlive /\ breaks \in Nat
        BY DEF CallsAlive, NoCall
    <2>2. SentDoomed
        BY DEF SentDoomed
    <2>3. DeadDoomed
        BY DEF DeadDoomed, Sender!Absent
    <2> QED
        BY <2>1, <2>2, <2>3 DEF DoomInv
<1>3. WorkInv /\ DoomInv /\ [DeliveryNext]_DeliveryVars => WorkInv' /\ DoomInv'
    BY WorkStep, DoomStep
<1>4. WorkInv /\ DoomInv => DeadWasDuplicate
    BY DEF WorkInv, QueuedInv, RowsEnqueued, PartsInv, QueueInv, Sender!TypeOK,
       DoomInv, DeadDoomed, Doomed, DeadWasDuplicate
<1> QED
    BY <1>1, <1>2, <1>3, <1>4, PTL DEF DeliverySpec

\* The rest of the types.
LinksTyped == StraysTyped /\ confirmed \subseteq Envelopes /\ denied \subseteq Envelopes /\ breaks \in Nat

LEMMA LinksTypedStep ==
    ASSUME InboxServed, PartsInv, LinksTyped, [DeliveryNext]_DeliveryVars
    PROVE  LinksTyped'
<1> USE DEF PartsInv, QueueInv, Sender!TypeOK, LinksTyped, StraysTyped
<1>1. TInv' /\ TruthInv'
    BY PartsStep
<1>2. Denials \subseteq Envelopes
    <2>1. ASSUME NEW p \in Procs, reply'[p].type = "error" PROVE job'[p].env \in Envelopes
        <3>1. pc'[p] # "idle"
            BY <1>1, <2>1 DEF TruthInv, NoReplyYet, NoReply
        <3> QED
            BY <1>1, <3>1 DEF TInv, TypeOK, Requests
    <2> QED
        BY <2>1 DEF Denials
<1>3. ASSUME NEW w \in Workers, call[w].at = "way" PROVE call[w].copy.item \in Envelopes
    BY <1>3 DEF CallsTyped, NoCall, Sender!Copy
<1>4. ASSUME NEW e \in Envelopes, Post(e) PROVE LinksTyped'
    BY <1>4 DEF Post, network
<1>5. ASSUME NEW w \in Workers, NEW c \in pass[w], Dial(w, c) PROVE LinksTyped'
    BY <1>5 DEF Dial
<1>6. ASSUME NEW w \in Workers, StartPass(w) PROVE LinksTyped'
    BY <1>6 DEF StartPass, network
<1>7. ASSUME NEW w \in Workers, Mark(w) PROVE LinksTyped'
    <2>1. sending[w].copy.item \in Envelopes
        BY <1>7 DEF Mark, Sender!Mark, Sender!Copy
    <2> QED
        BY <1>7, <2>1 DEF Mark, network
<1>8. ASSUME NEW w \in Workers, SenderCrash(w) PROVE LinksTyped'
    BY <1>3, <1>8 DEF SenderCrash
<1>9. ASSUME NEW w \in Workers, NEW p \in Procs, Arrive(w, p) PROVE LinksTyped'
    BY <1>2, <1>9 DEF Arrive, Receive
<1>10. ASSUME NEW e \in Envelopes, NEW p \in Procs, ArriveLate(e, p) PROVE LinksTyped'
    BY <1>2, <1>10 DEF ArriveLate, Receive
<1>11. ASSUME NEW p \in Procs, Serve(p) PROVE LinksTyped'
    BY <1>2, <1>11 DEF Serve, network
<1>12. ASSUME NEW p \in Procs, NEW w, ServerCrash(p) \/ ReturnToNobody(p) \/ Return(w, p)
       PROVE  LinksTyped'
    BY <1>12 DEF ServerCrash, ReturnToNobody, Return, network
<1>13. ASSUME NEW w \in Workers, NEW o, Break(w, o) PROVE LinksTyped'
    BY <1>3, <1>13 DEF Break
<1>14. CASE PurgeTables \/ Clock \/ UNCHANGED DeliveryVars
    BY <1>14 DEF PurgeTables, Clock, network, DeliveryVars
<1> QED
    BY <1>4, <1>5, <1>6, <1>7, <1>8, <1>9, <1>10, <1>11, <1>12, <1>13, <1>14 DEF DeliveryNext

\* Type correctness of the composition: every call is at one place, for an item
\* with attempts left, and no request comes back from nowhere.
THEOREM DeliveryTypeCorrect == ASSUME InboxServed PROVE DeliverySpec => []DeliveryTypeOK
<1>1. DeliveryInit => PartsInv /\ LinksTyped
    <2>1. DeliveryInit => PartsInv
        BY PartsStart
    <2>2. DeliveryInit => LinksTyped
        BY DEF DeliveryInit, LinksTyped, StraysTyped
    <2> QED
        BY <2>1, <2>2
<1>2. PartsInv /\ LinksTyped /\ [DeliveryNext]_DeliveryVars => PartsInv' /\ LinksTyped'
    BY PartsStep, LinksTypedStep
<1>3. PartsInv /\ LinksTyped => DeliveryTypeOK
    BY DEF PartsInv, TInv, QueueInv, CallsTyped, LinksTyped, StraysTyped, DeliveryTypeOK
<1> QED
    BY <1>1, <1>2, <1>3, PTL DEF DeliverySpec
=============================================================================
