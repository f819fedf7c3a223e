------------------------------ MODULE Delivery ------------------------------
(***************************************************************************)
(* A sender's queue and a receiver's node end to end: deliver_outbox posts *)
(* the queued envelopes to the node's inbox route over HTTP.               *)
(*                                                                         *)
(* The receiver is module Node.  The sender is module Outbox, where the    *)
(* outcome of a send is here what the node answered, or that the call      *)
(* broke.  A broken call may have reached the node and be served to its    *)
(* end, or reach it later, beside the next attempt.                        *)
(***************************************************************************)
EXTENDS Node

CONSTANTS
    Workers,            \* processes of the sender that run deliver_outbox
    MaxAttempts, BackoffBase, BackoffCap,   \* as in Outbox
    MaxBreaks,          \* bound on calls that break
    MaxSenderCrashes    \* bound on crashes of a worker

\* new_id and new_nonce: no two envelopes share an id or a nonce.
ASSUME FreshAssumption ==
    /\ \A e \in Envelopes : e.id # NoRef
    /\ \A e, f \in Envelopes : e.id = f.id \/ (e.from = f.from /\ e.nonce = f.nonce) => e = f

ASSUME DeliveryAssumption ==
    /\ MaxAttempts \in Nat \ {0}
    /\ BackoffBase \in Nat /\ BackoffCap \in Nat
    /\ Procs \cap {"none", "way", "gone"} = {}

VARIABLES
    outbox, pass, sending, answered, sends, enqueued, senderCrashes,  \* of Outbox
    call,       \* call[w]: the copy worker w waits on, and where its request is
    strays,     \* strays[e]: requests with e under way that nobody waits on
    confirmed,  \* observer: envelopes marked delivered for a receipt or data
    denied,     \* observer: envelopes answered with an error other than REPLAY
    breaks

Sender == INSTANCE Outbox WITH
    Items <- Envelopes, HasClient <- Envelopes,
    MaxCrashes <- MaxSenderCrashes, crashes <- senderCrashes

receiver == vars
sender == <<outbox, pass, sending, answered, sends, enqueued, senderCrashes>>
network == <<call, strays, breaks>>

DeliveryVars == <<receiver, sender, network, confirmed, denied>>

\* The request is on its way, at a process, or died with the process it was at.
Places == {"way", "gone"} \cup Procs
NoCall == [at |-> "none"]

DeliveryTypeOK ==
    /\ TypeOK /\ Sender!TypeOK
    /\ call \in [Workers -> [copy : Sender!Copy, at : Places] \cup {NoCall}]
    /\ strays \in [Envelopes -> Nat]
    /\ confirmed \subseteq Envelopes /\ denied \subseteq Envelopes
    /\ breaks \in Nat

DeliveryInit ==
    /\ Init /\ Sender!Init
    /\ call = [w \in Workers |-> NoCall]
    /\ strays = [e \in Envelopes |-> 0]
    /\ confirmed = {} /\ denied = {}
    /\ breaks = 0

-----------------------------------------------------------------------------
(* The sender by itself.                                                   *)

Post(e) ==
    /\ Sender!Enqueue(e)
    /\ UNCHANGED <<receiver, network, confirmed, denied>>

StartPass(w) ==
    /\ Sender!StartPass(w)
    /\ UNCHANGED <<receiver, network, confirmed, denied>>

\* client.send starts: the request is on its way, the worker waits.
Dial(w, c) ==
    /\ sending[w] = Sender!NotSending /\ call[w] = NoCall /\ c \in pass[w]
    /\ call' = [call EXCEPT ![w] = [copy |-> c, at |-> "way"]]
    /\ UNCHANGED <<receiver, sender, strays, breaks, confirmed, denied>>

Mark(w) ==
    /\ Sender!Mark(w)
    /\ confirmed' = IF sending[w].outcome = "accepted"
                    THEN confirmed \cup {sending[w].copy.item} ELSE confirmed
    /\ UNCHANGED <<receiver, network, denied>>

\* The worker dies; the request it waited on is not called back.
SenderCrash(w) ==
    /\ Sender!Crash(w)
    /\ call' = [call EXCEPT ![w] = NoCall]
    /\ strays' = IF call[w].at = "way"
                 THEN [strays EXCEPT ![call[w].copy.item] = @ + 1] ELSE strays
    /\ UNCHANGED <<receiver, breaks, confirmed, denied>>

-----------------------------------------------------------------------------
(* The receiver.                                                           *)

\* Envelopes that have been answered with an error, other than as a repetition.
Denials ==
    {job'[p].env : p \in {q \in Procs : reply'[q].type = "error" /\ reply'[q].status # "REPLAY"}}

Receive(p, e) ==
    /\ Verify(p, e, "inbox") \/ Refuse(p, e, "inbox")
    /\ denied' = denied \cup Denials

Arrive(w, p) ==
    /\ call[w].at = "way"
    /\ Receive(p, call[w].copy.item)
    /\ call' = [call EXCEPT ![w] = [copy |-> call[w].copy, at |-> p]]
    /\ UNCHANGED <<sender, strays, breaks, confirmed>>

ArriveLate(e, p) ==
    /\ strays[e] > 0
    /\ Receive(p, e)
    /\ strays' = [strays EXCEPT ![e] = @ - 1]
    /\ UNCHANGED <<sender, call, breaks, confirmed>>

\* The node works on the request, whether or not anybody waits for it.
Serve(p) ==
    /\ \/ Replay(p) \/ Admit(p) \/ Lookup(p) \/ Deny(p)
       \/ \E result \in Outcomes : RunHandler(p, result)
       \/ Put(p) \/ StoreBusy(p)
    /\ denied' = denied \cup Denials
    /\ UNCHANGED <<sender, network, confirmed>>

ServerCrash(p) ==
    /\ Crash(p)
    /\ call' = [w \in Workers |-> IF call[w].at = p
                                  THEN [copy |-> call[w].copy, at |-> "gone"] ELSE call[w]]
    /\ UNCHANGED <<sender, strays, breaks, confirmed, denied>>

PurgeTables ==
    /\ PurgeStore
    /\ UNCHANGED <<sender, network, confirmed, denied>>

-----------------------------------------------------------------------------
(* The end of a call.                                                      *)

\* Faulty variant: in_reply_to is not compared.
OutcomeUnrelated(e, res) ==
    IF res.type # "error" THEN "accepted"
    ELSE IF res.status \in {"RATE_LIMITED", "INTERNAL"} THEN "retryable_error"
    ELSE "final_error"

\* Faulty variant: every error is raised, and none is retried.
OutcomeRaised(e, res) ==
    IF res.ref # e.id \/ res.type = "error" THEN "bad_response" ELSE "accepted"

\* HttpPeerClient.send on a signed response: it has to name this envelope.
Outcome(e, res) ==
    IF res.ref # e.id THEN "bad_response"
    ELSE IF res.type # "error" THEN "accepted"
    ELSE IF res.status \in {"RATE_LIMITED", "INTERNAL"} THEN "retryable_error"
    ELSE "final_error"

EndCall(w, outcome) ==
    /\ Sender!Send(w, call[w].copy, outcome)
    /\ call' = [call EXCEPT ![w] = NoCall]

Return(w, p) ==
    /\ call[w].at = p /\ Respond(p)
    /\ EndCall(w, Outcome(call[w].copy.item, reply[p]))
    /\ UNCHANGED <<strays, breaks, confirmed, denied>>

ReturnToNobody(p) ==
    /\ \A w \in Workers : call[w].at # p
    /\ Respond(p)
    /\ UNCHANGED <<sender, network, confirmed, denied>>

\* A timeout, a connection lost or refused, or a proxy that answers instead:
\* the worker goes on, the request stays where it is.
Break(w, outcome) ==
    /\ call[w].at # "none"
    /\ call[w].at # "gone" => breaks < MaxBreaks
    /\ EndCall(w, outcome)
    /\ breaks' = IF call[w].at = "gone" THEN breaks ELSE breaks + 1
    /\ strays' = IF call[w].at = "way"
                 THEN [strays EXCEPT ![call[w].copy.item] = @ + 1] ELSE strays
    /\ UNCHANGED <<receiver, confirmed, denied>>

\* A second passes on both sides.
Clock ==
    /\ Tick
    /\ outbox' = [e \in Envelopes |-> Sender!Aged(outbox[e])]
    /\ UNCHANGED <<pass, sending, answered, sends, enqueued, senderCrashes>>
    /\ UNCHANGED <<network, confirmed, denied>>

DeliveryNext ==
    \/ \E e \in Envelopes : Post(e) \/ \E p \in Procs : ArriveLate(e, p)
    \/ \E w \in Workers :
          \/ StartPass(w) \/ Mark(w) \/ SenderCrash(w)
          \/ \E c \in pass[w] : Dial(w, c)
          \/ \E p \in Procs : Arrive(w, p) \/ Return(w, p)
          \/ \E outcome \in {"network", "bad_response"} : Break(w, outcome)
    \/ \E p \in Procs : Serve(p) \/ ServerCrash(p) \/ ReturnToNobody(p)
    \/ PurgeTables \/ Clock

DeliverySpec == DeliveryInit /\ [][DeliveryNext]_DeliveryVars

-----------------------------------------------------------------------------
(* Properties *)

RunsOf(e) == {i \in DOMAIN handled : handled[i].env = e}

Status(e) ==
    IF e \notin enqueued THEN "new"
    ELSE IF outbox[e].dead THEN "abandoned"
    ELSE IF outbox[e] # Sender!Absent THEN "queued"
    ELSE IF e \in confirmed THEN "confirmed" ELSE "refused"

Abstract == INSTANCE Handover WITH
    Items <- Envelopes,
    status <- [e \in Envelopes |-> Status(e)],
    run <- {e \in Envelopes : RunsOf(e) # {}},
    rerun <- {e \in Envelopes : \E i, j \in RunsOf(e) : i # j},
    lapsed <- {e \in Envelopes : e.expires <= now}

\* With one worker, the two ends and all that may break between them keep
\* what Handover promises: an item is settled once, confirmed only when the
\* handler ran for it, and not run twice before it expires.
HandoverKept == Abstract!Spec

\* The handler ran for e, or for an envelope whose slot e shares.
TakenUp(e) ==
    \E i \in DOMAIN handled : handled[i].env = e \/ SharesSlot(handled[i].env, e)

\* verify_inbound spends the nonce first, so a second copy of an envelope is
\* answered REPLAY and its item removed.  While the node does not crash, that
\* loses nothing: an item removed was handled, is about to be, or was denied.
GoneIsTakenUp ==
    crashes = 0 =>
        \A e \in enqueued : outbox[e] = Sender!Absent =>
            \/ TakenUp(e) \/ e \in denied
            \/ \E p \in Procs : pc[p] \in {"lookup", "dispatch"} /\ job[p].env = e

\* HttpPeerClient.send takes a receipt for another envelope for an invalid
\* answer.  Where no call breaks, an item is declared dead for that reason
\* only: it is barred, or its slot has been handled under another id.
DeadWasDuplicate ==
    crashes = 0 /\ breaks = 0 =>
        \A e \in enqueued : outbox[e].dead => Barred(e, "inbox") \/ TakenUp(e)

\* docs/PROTOCOL.md:147-150: at least once from the sender, by retries.
AtLeastOnce == \A e \in enqueued : outbox[e] = Sender!Absent => TakenUp(e)
=============================================================================
