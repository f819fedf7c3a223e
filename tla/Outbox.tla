------------------------------- MODULE Outbox -------------------------------
(***************************************************************************)
(* delivery.py (Outbox) driven by transport/http.py (deliver_outbox and    *)
(* HttpPeerClient.send): the sender's persistent queue, worked off by      *)
(* passes that a caller starts again and again.                            *)
(*                                                                         *)
(* A pass takes a snapshot of the due items and works on that copy: what   *)
(* it writes back is the item as it was read.  Sending and marking are two *)
(* steps, a crash of the worker may fall between them.                     *)
(***************************************************************************)
EXTENDS Integers

CONSTANTS
    Items,          \* the envelopes ever enqueued
    Workers,        \* threads or processes that run deliver_outbox
    HasClient,      \* items whose peer has an entry in clients
    MaxAttempts,    \* Outbox.max_attempts
    BackoffBase,    \* BACKOFF_BASE_SECONDS
    BackoffCap,     \* BACKOFF_CAP_SECONDS
    MaxCrashes      \* bound on crashes of a worker

ASSUME OutboxAssumption ==
    /\ MaxAttempts \in Nat \ {0}
    /\ BackoffBase \in Nat /\ BackoffCap \in Nat
    /\ MaxCrashes \in Nat

VARIABLES
    outbox,     \* outbox[i]: the stored row of i, or Absent
    pass,       \* pass[w]: the items w still has to send, as it read them
    sending,    \* sending[w]: the item w sent and has not marked
    answered,   \* observer: items some send of which got a verified answer
    sends,      \* observer: number of times i was sent
    enqueued,   \* observer: the items enqueued so far
    crashes

vars == <<outbox, pass, sending, answered, sends, enqueued, crashes>>

\* A row; delay is the time left until next_attempt_at.
Row == [attempts : 0..MaxAttempts, delay : Int, dead : BOOLEAN]
Absent == [attempts |-> -1, delay |-> 0, dead |-> FALSE]

\* An item of a snapshot.
Copy == [item : Items, attempts : 0..(MaxAttempts - 1)]

\* What HttpPeerClient.send does: return a receipt or data, return an ERROR
\* envelope (which it does not raise), raise a PipError for a response that is
\* no signed answer to this envelope, or raise httpx's exception.
Answers == {"accepted", "retryable_error", "final_error"}
Outcomes == Answers \cup {"bad_response", "network"}
NotSending == [outcome |-> "none"]

TypeOK ==
    /\ outbox \in [Items -> Row \cup {Absent}]
    /\ pass \in [Workers -> SUBSET Copy]
    /\ sending \in [Workers -> [copy : Copy, outcome : Outcomes] \cup {NotSending}]
    /\ answered \subseteq Items
    /\ sends \in [Items -> Nat]
    /\ enqueued \subseteq Items
    /\ crashes \in Nat

Init ==
    /\ outbox = [i \in Items |-> Absent]
    /\ pass = [w \in Workers |-> {}]
    /\ sending = [w \in Workers |-> NotSending]
    /\ answered = {} /\ enqueued = {}
    /\ sends = [i \in Items |-> 0]
    /\ crashes = 0

\* The delay after a failed attempt doubles each time, up to the cap.
Doubled(attempts) == BackoffBase * 2^(attempts - 1)
Backoff(attempts) == IF Doubled(attempts) < BackoffCap THEN Doubled(attempts) ELSE BackoffCap

\* Faulty variants: an attempt that is not counted, and no end of attempts.
FailedUncounted(c) == [attempts |-> c.attempts, delay |-> Backoff(c.attempts + 1),
                       dead |-> FALSE]
FailedForever(c) == [attempts |-> c.attempts + 1, delay |-> Backoff(c.attempts + 1),
                     dead |-> FALSE]

\* mark_failed and mark_dead, on the item as the pass read it.  mark_dead
\* keeps the next_attempt_at that was due.
Failed(c) == [attempts |-> c.attempts + 1, delay |-> Backoff(c.attempts + 1),
              dead |-> c.attempts + 1 >= MaxAttempts]
Dead(c) == [attempts |-> MaxAttempts, delay |-> 0, dead |-> TRUE]

Enqueue(i) ==
    /\ i \notin enqueued
    /\ enqueued' = enqueued \cup {i}
    /\ outbox' = [outbox EXCEPT ![i] = [attempts |-> 0, delay |-> 0, dead |-> FALSE]]
    /\ UNCHANGED <<pass, sending, answered, sends, crashes>>

\* Faulty variant: whatever was sent is taken for delivered.
Sent(c, outcome) == IF outcome = "bad_response" THEN Dead(c) ELSE Absent

\* mark_delivered for any returned envelope, mark_dead for a PipError (the
\* codes send raises are not retryable), mark_failed for other exceptions.
Marked(c, outcome) ==
    CASE outcome \in Answers -> Absent
      [] outcome = "bad_response" -> Dead(c)
      [] OTHER -> Failed(c)

\* Faulty variant: dead rows are due, too.
DueOrDead == {i \in Items : outbox[i] # Absent /\ outbox[i].delay <= 0}

\* Outbox.due: the rows whose time has come and that are not dead.
Due == {i \in Items : outbox[i] # Absent /\ outbox[i].delay <= 0 /\ ~outbox[i].dead}

StartPass(w) ==
    /\ pass[w] = {} /\ sending[w] = NotSending /\ Due # {}
    /\ pass' = [pass EXCEPT ![w] = {[item |-> i, attempts |-> outbox[i].attempts] : i \in Due}]
    /\ UNCHANGED <<outbox, sending, answered, sends, enqueued, crashes>>

\* client.send: the peer's answer or failure is in, nothing is marked yet.
Send(w, c, outcome) ==
    /\ sending[w] = NotSending /\ c \in pass[w] /\ c.item \in HasClient
    /\ pass' = [pass EXCEPT ![w] = @ \ {c}]
    /\ sending' = [sending EXCEPT ![w] = [copy |-> c, outcome |-> outcome]]
    /\ sends' = [sends EXCEPT ![c.item] = @ + 1]
    /\ answered' = IF outcome \in Answers THEN answered \cup {c.item} ELSE answered
    /\ UNCHANGED <<outbox, enqueued, crashes>>

\* No client for the peer: a failed attempt without a send.
NoClient(w, c) ==
    /\ sending[w] = NotSending /\ c \in pass[w] /\ c.item \notin HasClient
    /\ pass' = [pass EXCEPT ![w] = @ \ {c}]
    /\ outbox' = [outbox EXCEPT ![c.item] = Failed(c)]
    /\ UNCHANGED <<sending, answered, sends, enqueued, crashes>>

\* The item's row is written as the outcome demands, on the copy's values.
Mark(w) ==
    LET c == sending[w].copy IN
    /\ sending[w] # NotSending
    /\ outbox' = [outbox EXCEPT ![c.item] = Marked(c, sending[w].outcome)]
    /\ sending' = [sending EXCEPT ![w] = NotSending]
    /\ UNCHANGED <<pass, answered, sends, enqueued, crashes>>

\* The worker dies in its pass; the rows stay in the store.
Crash(w) ==
    /\ crashes < MaxCrashes
    /\ crashes' = crashes + 1
    /\ pass' = [pass EXCEPT ![w] = {}]
    /\ sending' = [sending EXCEPT ![w] = NotSending]
    /\ UNCHANGED <<outbox, answered, sends, enqueued>>

\* A second passes for every row that waits.
Aged(row) == [attempts |-> row.attempts, dead |-> row.dead,
              delay |-> IF row.delay > 0 THEN row.delay - 1 ELSE row.delay]

Tick ==
    /\ \E i \in Items : outbox[i].delay > 0
    /\ outbox' = [i \in Items |-> Aged(outbox[i])]
    /\ UNCHANGED <<pass, sending, answered, sends, enqueued, crashes>>

Work(w) ==
    \/ StartPass(w)
    \/ \E c \in pass[w] : NoClient(w, c) \/ \E o \in Outcomes : Send(w, c, o)
    \/ Mark(w)

Next ==
    \/ \E i \in Items : Enqueue(i)
    \/ \E w \in Workers : Work(w) \/ Crash(w)
    \/ Tick

Spec == Init /\ [][Next]_vars

\* Time passes, and the application keeps running passes.
FairSpec == Spec /\ WF_vars(Tick) /\ \A w \in Workers : WF_vars(Work(w))

-----------------------------------------------------------------------------
(* Properties *)

\* Delivered and removed, or dead.
Settled(i) == i \in enqueued /\ (outbox[i] = Absent \/ outbox[i].dead)

\* deliver_outbox: an item leaves the queue only after an answer the peer
\* signed; loss, garbage and crashes never lose it.
RemovedOnlyAnswered ==
    \A i \in enqueued : outbox[i] = Absent => i \in answered

\* delivery.py, one worker: what is delivered never comes back to the queue,
\* what is dead is never tried or removed.
SettledIsFinal ==
    [][\A i \in enqueued :
         /\ outbox[i] = Absent => outbox'[i] = Absent
         /\ outbox[i].dead => outbox'[i] # Absent /\ outbox'[i].dead]_vars

\* MAX_ATTEMPTS, one worker: an item is sent at most max_attempts times, plus
\* once for each crash, which may fall between the send and the mark.
SendsBounded ==
    \A i \in Items : sends[i] <= MaxAttempts + crashes

\* Every enqueued item is delivered or declared dead: retries do not go on
\* for ever, and no item is forgotten.
EventuallySettled == \A i \in Items : i \in enqueued ~> Settled(i)
=============================================================================
