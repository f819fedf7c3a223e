-------------------------------- MODULE Node --------------------------------
(***************************************************************************)
(* One PIP node as its server processes run it: Node.handle behind the     *)
(* HTTP inbox and the MCP tools, and pip_get_receipt, over a store that is *)
(* the process's own memory or a database the processes share.             *)
(*                                                                         *)
(* A process answers one request at a time (handle is synchronous in the   *)
(* event loop), but another process, the clock and purge may act between   *)
(* any two of its store calls, so each store call is a step of its own.    *)
(***************************************************************************)
EXTENDS Verification, TokenBucket, Store, Sequences, FiniteSets

CONSTANTS
    Procs,          \* server processes
    Tools,          \* Tools[p]: the entry points process p serves
    Envelopes,      \* the envelopes that may arrive, any number of times
    NoKey,          \* an envelope without idempotency_key
    Handlers,       \* Handlers[type]: what the handler of a type of envelope,
                    \* the default one or one registered with Node.on, may do
    Unauthorized,   \* envelopes that reach the inbox without a valid token
    Headroom,       \* http._BODY_HEADROOM_BYTES
    IdemTtl,        \* policy.idempotency_ttl_seconds
    MaxTime,        \* bound on the clock
    MaxRequests,    \* bound on the requests received
    MaxCrashes,     \* bound on crashes of a process
    MaxBusy         \* bound on store writes that time out

EntryPoints == {"inbox", "pip_handshake", "pip_send_message", "pip_exchange_data",
                "pip_get_receipt"}

EnvelopeTypes == {"handshake", "message", "data", "receipt", "error"}

\* What a handler may do: what the default handler of the type does ("default");
\* return None or what is no payload of a response ("none"), a ReceiptPayload,
\* denoted by its status, or a payload of another type; raise a PipError, which
\* is answered like an ErrorPayload ("error"), or another exception ("raise").
ReceiptStatuses == {"accepted", "delivered", "rejected", "duplicate"}
Outcomes == {"default", "none", "data", "handshake", "error", "raise"} \cup ReceiptStatuses

ASSUME NodeAssumption ==
    /\ IdemTtl \in Nat
    /\ \A p \in Procs : Tools[p] \subseteq EntryPoints
    /\ Handlers \in [EnvelopeTypes -> SUBSET Outcomes]
    /\ \A e \in Envelopes : e.expires \in Nat /\ e.type \in EnvelopeTypes
    /\ Backend = "memory" => \A p, q \in Procs : p = q

VARIABLES
    now,            \* the clock of the node and of the store
    nonces,         \* store table
    idempotent,     \* store table
    buckets,        \* buckets[p][x]: PolicyEngine._buckets of process p
    inbox,          \* inbox[p]: Node.inbox of process p
    pc,             \* pc[p]: the next step of p's request
    job,            \* job[p]: the request p works on
    reply,          \* reply[p]: its response, once there is one
    handled,        \* observer: successful handler runs, in order, with the
                    \* time of each and the process it was in
    admitted,       \* observer: times e passed the replay check
    requests, crashes, busy     \* counters for the bounds

vars == <<now, nonces, idempotent, buckets, inbox, pc, job, reply,
          handled, admitted, requests, crashes, busy>>

store == <<nonces, idempotent>>
memory == <<buckets, inbox>>
observed == <<handled, admitted>>
bounds == <<requests, crashes, busy>>

Peers == {e.from : e \in Envelopes}
Ids == {e.id : e \in Envelopes}

NoRef == "none"
NoReply == [type |-> "none", status |-> "none", ref |-> NoRef]
NoJob == [tool |-> "none"]

Requests == [tool : EntryPoints, env : Envelopes]

\* What each step still has to do with the request; "reply" is all done.
Steps == {"idle", "nonce", "lookup", "dispatch", "put", "find", "reply"}

-----------------------------------------------------------------------------
(* Responses.  ref is in_reply_to; error_for_raw leaves it out.            *)

Codes == {"VERSION_UNSUPPORTED", "IDENTITY_MISMATCH", "PAYLOAD_TOO_LARGE",
          "SIGNATURE_INVALID", "SCHEMA_INVALID", "UNKNOWN_PEER", "CLOCK_SKEW",
          "EXPIRED", "REPLAY", "RATE_LIMITED", "FORBIDDEN", "CONSENT_REQUIRED",
          "INTERNAL"}

Replies == [type : {"none", "receipt", "data", "handshake", "error", "exception"},
            status : Codes \cup ReceiptStatuses \cup {"none"},
            ref : Ids \cup {NoRef}]

Receipt(status, ref) == [type |-> "receipt", status |-> status, ref |-> ref]
Response(type, ref) == [type |-> type, status |-> "none", ref |-> ref]
Error(code, ref) == [type |-> "error", status |-> code, ref |-> ref]

\* The error to a verified or refused request: pip_get_receipt reports its
\* PipErrors with error_for_raw, handle with _error_envelope.
RequestError(r, code) ==
    Error(code, IF r.tool = "pip_get_receipt" THEN NoRef ELSE r.env.id)

\* pip_handshake turns a good receipt into the node's own handshake.
ToolReply(tool, res) ==
    IF /\ tool = "pip_handshake" /\ res.type = "receipt"
       /\ res.status \in {"accepted", "duplicate"}
    THEN Response("handshake", NoRef) ELSE res

\* The MCP tools that only take one type of envelope.
ToolTakes(tool, type) ==
    /\ tool = "pip_send_message" => type = "message"
    /\ tool = "pip_exchange_data" => type = "data"

\* The inbox route looks at the bearer token and the size of the body first;
\* what it answers then names no request, and a missing token gets no envelope.
Barred(e, tool) ==
    tool = "inbox" /\ (e \in Unauthorized \/ e.size > MaxPayload + Headroom)

BarredReply(e) ==
    IF e \in Unauthorized THEN Response("exception", NoRef)
    ELSE Error("PAYLOAD_TOO_LARGE", NoRef)

Answer(p, res) ==
    /\ pc' = [pc EXCEPT ![p] = "reply"]
    /\ reply' = [reply EXCEPT ![p] = ToolReply(job[p].tool, res)]
    /\ UNCHANGED job

Goto(p, step) ==
    /\ pc' = [pc EXCEPT ![p] = step]
    /\ UNCHANGED <<job, reply>>

-----------------------------------------------------------------------------

TypeOK ==
    /\ now \in Nat
    /\ nonces \subseteq [peer : Peers, nonce : {e.nonce : e \in Envelopes}, expires : Nat]
    /\ idempotent \subseteq [peer : Peers, key : {e.key : e \in Envelopes} \ {NoKey},
                             ref : Ids, expires : Nat, type : {"receipt", "data"},
                             status : ReceiptStatuses \cup {"none"}]
    /\ buckets \in [Procs -> [Peers -> Bucket \cup {NoBucket}]]
    /\ inbox \in [Procs -> Seq(Envelopes)]
    /\ pc \in [Procs -> Steps]
    /\ job \in [Procs -> Requests \cup {NoJob}]
    /\ \A p \in Procs : pc[p] # "idle" => job[p] \in Requests
    /\ reply \in [Procs -> Replies]
    /\ handled \in Seq([env : Envelopes, at : Nat, by : Procs])
    /\ admitted \in [Envelopes -> Nat]
    /\ requests \in Nat /\ crashes \in Nat /\ busy \in Nat

Init ==
    /\ now = 0
    /\ nonces = {} /\ idempotent = {}
    /\ buckets = [p \in Procs |-> [x \in Peers |-> NoBucket]]
    /\ inbox = [p \in Procs |-> << >>]
    /\ pc = [p \in Procs |-> "idle"]
    /\ job = [p \in Procs |-> NoJob]
    /\ reply = [p \in Procs |-> NoReply]
    /\ handled = << >>
    /\ admitted = [e \in Envelopes |-> 0]
    /\ requests = 0 /\ crashes = 0 /\ busy = 0

\* A request arrives and passes the checks that do not touch the store.
Verify(p, e, tool) ==
    /\ pc[p] = "idle" /\ requests < MaxRequests
    /\ ~Barred(e, tool) /\ ToolTakes(tool, e.type) /\ VerifyHeader(e, now) = OK
    /\ requests' = requests + 1
    /\ pc' = [pc EXCEPT ![p] = "nonce"]
    /\ job' = [job EXCEPT ![p] = [tool |-> tool, env |-> e]]
    /\ UNCHANGED <<now, store, memory, reply, observed, crashes, busy>>

\* A request arrives and is refused before it touches the store.
Refuse(p, e, tool) ==
    /\ pc[p] = "idle" /\ requests < MaxRequests
    /\ requests' = requests + 1
    /\ pc' = [pc EXCEPT ![p] = "reply"]
    /\ job' = [job EXCEPT ![p] = [tool |-> tool, env |-> e]]
    /\ \/ /\ Barred(e, tool)
          /\ reply' = [reply EXCEPT ![p] = BarredReply(e)]
       \/ /\ ~ToolTakes(tool, e.type)
          /\ reply' = [reply EXCEPT ![p] = Error("SCHEMA_INVALID", NoRef)]
       \/ /\ ~Barred(e, tool) /\ ToolTakes(tool, e.type) /\ VerifyHeader(e, now) # OK
          /\ reply' = [reply EXCEPT ![p] =
                         RequestError([tool |-> tool, env |-> e], VerifyHeader(e, now))]
    /\ UNCHANGED <<now, store, memory, observed, crashes, busy>>

\* store.seen_nonce returned True.
Replay(p) ==
    LET e == job[p].env IN
    /\ pc[p] = "nonce" /\ SeenNonce(nonces, e)
    /\ Answer(p, RequestError(job[p], "REPLAY"))
    /\ UNCHANGED <<now, store, memory, observed, bounds>>

\* Faulty variant: the idempotent short-circuit is left out.
NoShortCircuit(r) == IF r.tool = "pip_get_receipt" THEN "find" ELSE "dispatch"

\* Where a request goes once its nonce is recorded.
AfterNonce(r) ==
    IF r.tool = "pip_get_receipt" THEN "find"
    ELSE IF r.env.key # NoKey THEN "lookup" ELSE "dispatch"

\* store.seen_nonce recorded the nonce; only then is the payload parsed.
Admit(p) ==
    LET e == job[p].env IN
    /\ pc[p] = "nonce" /\ ~SeenNonce(nonces, e)
    /\ nonces' = nonces \cup {NonceRow(e)}
    /\ admitted' = [admitted EXCEPT ![e] = @ + 1]
    /\ \/ ~e.payloadValid /\ Answer(p, RequestError(job[p], "SCHEMA_INVALID"))
       \/ e.payloadValid /\ Goto(p, AfterNonce(job[p]))
    /\ UNCHANGED <<now, idempotent, memory, handled, bounds>>

\* The idempotent short-circuit at the head of _dispatch: a stored receipt is
\* answered as a duplicate, a stored data response as it is.
Lookup(p) ==
    LET e == job[p].env
        found == GetIdempotent(idempotent, e.from, e.key, now) IN
    /\ pc[p] = "lookup"
    /\ \/ found = {} /\ Goto(p, "dispatch")
       \/ \E row \in found :
            Answer(p, IF row.type = "receipt" THEN Receipt("duplicate", row.ref)
                                              ELSE Response("data", row.ref))
    /\ UNCHANGED <<now, store, memory, observed, bounds>>

\* check_rate refuses (its refill stays), or it spends a token and authorize
\* refuses.
Deny(p) ==
    LET e == job[p].env
        b == buckets[p][e.from]
        verdict == AuthorizeEnvelope(e, now) IN
    /\ pc[p] = "dispatch"
    /\ \/ ~HasToken(b, now) /\ Answer(p, RequestError(job[p], "RATE_LIMITED"))
       \/ /\ HasToken(b, now) /\ verdict # OK
          /\ Answer(p, RequestError(job[p], verdict))
    /\ buckets' = [buckets EXCEPT ![p][e.from] = AfterCheck(@, now)]
    /\ UNCHANGED <<now, store, inbox, observed, bounds>>

\* The default handlers answer a data request with data and all else with None.
DefaultResponse(e) ==
    IF e.type = "data" /\ e.op = "request" THEN Response("data", e.id)
                                           ELSE Receipt("accepted", e.id)

\* What _dispatch, or handle after an exception, makes of what the handler did.
HandlerResponse(e, result) ==
    CASE result = "default" -> DefaultResponse(e)
      [] result = "none" -> Receipt("accepted", e.id)
      [] result \in ReceiptStatuses -> Receipt(result, e.id)
      [] result = "raise" -> Error("INTERNAL", e.id)
      [] OTHER -> Response(result, e.id)

\* Faulty variant: any response is stored, of whatever type.
StorableAny(e, res) == e.key # NoKey

\* Whether the response to e is stored for its slot.
Storable(e, res) == e.key # NoKey /\ res.type \in {"receipt", "data"}

\* The handler runs.  A result it raised or declared an error counts as not
\* handled; the default handler puts a message into the inbox.
RunHandler(p, result) ==
    LET e == job[p].env
        res == HandlerResponse(e, result) IN
    /\ pc[p] = "dispatch"
    /\ HasToken(buckets[p][e.from], now) /\ AuthorizeEnvelope(e, now) = OK
    /\ result \in Handlers[e.type]
    /\ buckets' = [buckets EXCEPT ![p][e.from] = AfterCheck(@, now)]
    /\ handled' = IF result \in {"error", "raise"} THEN handled
                  ELSE Append(handled, [env |-> e, at |-> now, by |-> p])
    /\ inbox' = IF e.type = "message" /\ result = "default"
                THEN [inbox EXCEPT ![p] = Append(@, e)] ELSE inbox
    /\ \/ /\ Storable(e, res)
          /\ pc' = [pc EXCEPT ![p] = "put"]
          /\ reply' = [reply EXCEPT ![p] = res]
          /\ UNCHANGED job
       \/ ~Storable(e, res) /\ Answer(p, res)
    /\ UNCHANGED <<now, store, admitted, bounds>>

\* The response is stored for the slot before it is returned.
Put(p) ==
    LET e == job[p].env IN
    /\ pc[p] = "put"
    /\ idempotent' = PutIdempotent(idempotent,
                        [peer |-> e.from, key |-> e.key, ref |-> e.id,
                         expires |-> now + IdemTtl,
                         type |-> reply[p].type, status |-> reply[p].status])
    /\ Answer(p, reply[p])
    /\ UNCHANGED <<now, nonces, memory, observed, bounds>>

FoundReply(e, row) ==
    CASE row.type = "none" -> Receipt("rejected", e.id)
      [] row.type = "receipt" -> Receipt(row.status, row.ref)
      [] OTHER -> Response("data", row.ref)

\* pip_get_receipt after verify_inbound: type, peer and scope, then the lookup.
Find(p) ==
    LET e == job[p].env
        verdict == Authorize(e.from, Scope("messages", "read")) IN
    /\ pc[p] = "find"
    /\ \/ e.type # "receipt" /\ Answer(p, Error("SCHEMA_INVALID", NoRef))
       \/ e.type = "receipt" /\ verdict # OK /\ Answer(p, Error(verdict, NoRef))
       \/ /\ e.type = "receipt" /\ verdict = OK
          /\ \E row \in FindReceiptByRef(idempotent, e.from, e.ref, now) :
               Answer(p, FoundReply(e, row))
    /\ UNCHANGED <<now, store, memory, observed, bounds>>

\* A sqlite write waits 5 s for another process's lock and raises
\* OperationalError: handle answers INTERNAL, pip_get_receipt lets it escape.
StoreBusy(p) ==
    /\ Backend = "sqlite" /\ busy < MaxBusy
    /\ pc[p] \in {"nonce", "put"}
    /\ busy' = busy + 1
    /\ Answer(p, IF job[p].tool = "pip_get_receipt" THEN Response("exception", NoRef)
                 ELSE Error("INTERNAL", job[p].env.id))
    /\ UNCHANGED <<now, store, memory, observed, requests, crashes>>

\* The response leaves; whether it arrives is not the node's concern.
Respond(p) ==
    /\ pc[p] = "reply"
    /\ pc' = [pc EXCEPT ![p] = "idle"]
    /\ job' = [job EXCEPT ![p] = NoJob]
    /\ reply' = [reply EXCEPT ![p] = NoReply]
    /\ UNCHANGED <<now, store, memory, observed, bounds>>

\* The process dies and is started again: its memory is lost, and with it the
\* tables of a MemoryStore.
Crash(p) ==
    /\ crashes < MaxCrashes
    /\ crashes' = crashes + 1
    /\ pc' = [pc EXCEPT ![p] = "idle"]
    /\ job' = [job EXCEPT ![p] = NoJob]
    /\ reply' = [reply EXCEPT ![p] = NoReply]
    /\ buckets' = [buckets EXCEPT ![p] = [x \in Peers |-> NoBucket]]
    /\ inbox' = [inbox EXCEPT ![p] = << >>]
    /\ nonces' = AfterCrash(nonces) /\ idempotent' = AfterCrash(idempotent)
    /\ UNCHANGED <<now, observed, requests, busy>>

\* Store.purge, which the embedding application calls.
PurgeStore ==
    /\ nonces' = Purge(nonces, now)
    /\ idempotent' = Purge(idempotent, now)
    /\ UNCHANGED <<now, memory, pc, job, reply, observed, bounds>>

Tick ==
    /\ now < MaxTime
    /\ now' = now + 1
    /\ UNCHANGED <<store, memory, pc, job, reply, observed, bounds>>

\* What process p does by itself once it has a request.
Step(p) ==
    \/ Replay(p) \/ Admit(p) \/ Lookup(p) \/ Deny(p)
    \/ \E result \in Outcomes : RunHandler(p, result)
    \/ Put(p) \/ Find(p) \/ StoreBusy(p) \/ Respond(p)

Next ==
    \/ \E p \in Procs : Step(p) \/ Crash(p)
    \/ \E p \in Procs, e \in Envelopes : \E tool \in Tools[p] :
         Verify(p, e, tool) \/ Refuse(p, e, tool)
    \/ PurgeStore \/ Tick

Spec == Init /\ [][Next]_vars

-----------------------------------------------------------------------------
(* Properties *)

\* Signed by the key its sender's id is the hash of, and meant for this node.
Authentic(e) ==
    /\ e.to = Self /\ e.signedBy = e.kid
    /\ e.kid \in DOMAIN InstanceId /\ InstanceId[e.kid] = e.from

\* Two envelopes that share an idempotency slot.
SharesSlot(e, f) == e.from = f.from /\ e.key = f.key /\ e.key # NoKey

\* verify_inbound: however processes interleave, crash or purge, an envelope
\* passes the replay check at most once before it expires.
AdmitOnce ==
    [][\A e \in Envelopes :
         admitted'[e] # admitted[e] /\ now < e.expires => admitted[e] = 0]_vars

\* verify_inbound and authorize together: only an envelope that its claimed
\* sender signed for this node, and from a stranger only a handshake, is
\* ever handled (docs/PROTOCOL.md:31-33).
OnlyTrustedHandled ==
    \A i \in DOMAIN handled : LET e == handled[i].env IN
        Authentic(e) /\ (e.type = "handshake" \/ IsKnown(e.from))

\* The order of verify_inbound and _dispatch: a nonce is recorded, and a bucket
\* is touched, only by the request at hand, and only when its claimed sender
\* signed it for this node: a forgery uses up neither a nonce nor a token of
\* the peer in whose name it comes.
NoTraceOfForgeries ==
    [][/\ \A r \in nonces' \ nonces : \E p \in Procs :
            /\ pc[p] = "nonce" /\ pc'[p] # "nonce"
            /\ Authentic(job[p].env) /\ NonceRow(job[p].env) = r
       /\ \A p \in Procs, x \in Peers :
            buckets'[p][x] \notin {buckets[p][x], NoBucket} =>
                /\ pc[p] = "dispatch" /\ pc'[p] # "dispatch"
                /\ Authentic(job[p].env) /\ job[p].env.from = x]_vars

\* docs/PROTOCOL.md:143-150: as long as nothing fails, a slot's handler runs
\* once in idempotency_ttl_seconds, over all retries and all tools.
EffectivelyOnce ==
    crashes = 0 /\ busy = 0 =>
        \A i, j \in DOMAIN handled :
            i < j /\ SharesSlot(handled[i].env, handled[j].env)
                => handled[j].at >= handled[i].at + IdemTtl

\* The lookup and the store of a key are two calls, so two processes may both
\* run a slot's handler (see EffectivelyOnce).  Each of them does so only once in
\* idempotency_ttl_seconds, as long as nothing fails: its own response, or one
\* that took its place later, keeps it from a rerun.
OncePerProcess ==
    crashes = 0 /\ busy = 0 =>
        \A i, j \in DOMAIN handled :
            /\ i < j /\ handled[i].by = handled[j].by
            /\ SharesSlot(handled[i].env, handled[j].env)
            => handled[j].at >= handled[i].at + IdemTtl

RunsIn(p, x, from, to) ==
    {i \in DOMAIN handled : /\ handled[i].by = p /\ handled[i].env.from = x
                            /\ from <= handled[i].at /\ handled[i].at <= to}

\* check_rate as _dispatch uses it: from one second to another a process runs
\* handlers for a peer no more often than burst plus rate times the time
\* between allows, and another burst for each crash, which loses the buckets;
\* with n processes it is n times that.
RunsWithinRate ==
    \A p \in Procs, x \in Peers : \A from, to \in 0..now :
        from <= to =>
            TokenUnit * Cardinality(RunsIn(p, x, from, to))
                <= (crashes + 1) * Capacity + (to - from) * Rate

\* _dispatch in a single process: a handler is never about to run for a slot
\* whose response is stored and live, whatever crashed or timed out before.
NoRerunOnceStored ==
    \A p \in Procs : pc[p] = "dispatch" =>
        GetIdempotent(idempotent, job[p].env.from, job[p].env.key, now) = {}

\* put_idempotent and purge in a single process: a stored response neither
\* disappears nor is replaced by another before it expires.
LiveReceiptKept ==
    [][\A r \in idempotent : r.expires > now => r \in idempotent']_vars

\* Every answer that says a handler took the request (but pip_get_receipt's
\* "rejected", which also stands for a ref it does not know), that it is a
\* duplicate or has this data goes back to a handler run for the same sender and
\* the same envelope, slot or looked-up ref.
TruthfulReply ==
    \A p \in Procs :
        LET e == job[p].env
            res == reply[p]
            query == job[p].tool = "pip_get_receipt" IN
        /\ res.type \in {"receipt", "data", "handshake"}
        /\ res.status = "rejected" => ~query
        => \E i \in DOMAIN handled : LET f == handled[i].env IN
                /\ f.from = e.from
                /\ res.ref # NoRef => f.id = res.ref
                /\ res.status \in {"accepted", "delivered", "rejected"} /\ ~query => f = e
                /\ f = e \/ SharesSlot(f, e) \/ (query /\ f.id = e.ref)

\* No handler registered for messages answers one itself with what is stored.
MessagesKept == Handlers["message"] \cap ({"none", "data"} \cup ReceiptStatuses) = {}

\* Where no registered handler takes messages away from the default one, a
\* message whose receipt is stored (and will be repeated as a duplicate) is in an
\* inbox: with MemoryStore as long as the receipt is there, for the two die
\* together; with sqlite, whose receipts outlive Node.inbox, until a process
\* crashes.
StoredReceiptBacked ==
    MessagesKept /\ (Backend = "memory" \/ crashes = 0) =>
    \A r \in idempotent, e \in Envelopes :
        e.from = r.peer /\ e.id = r.ref /\ e.type = "message" =>
            \E p \in Procs : \E i \in DOMAIN inbox[p] : inbox[p][i] = e

\* docs/SECURITY.md:15-16, docs/PROTOCOL.md:28-30: an authentic envelope signed
\* with a peer's previous key in grace, under the peer's id or the key's own,
\* is not refused for its identity.
RotationGrace ==
    \A p \in Procs, x \in DOMAIN PeerRecords :
        LET e == job[p].env IN
        (/\ pc[p] = "reply"
         /\ e.to = Self /\ Signed(e) /\ e.kid \in AllowedKeys(x, now)
         /\ e.from \in {x, InstanceId[e.kid]})
            => reply[p].status \notin {"IDENTITY_MISMATCH", "UNKNOWN_PEER"}

\* docs/PROTOCOL.md:126: a data response is given out only while the peer's
\* consent for the dataset is in force.
DisclosureConsented ==
    [][\A p \in Procs :
         reply'[p] # reply[p] /\ reply'[p].type = "data" =>
            LET e == job[p].env IN
            e.type = "data" => AuthorizeEnvelope(e, now) = OK]_vars

\* docs/PROTOCOL.md:195-197: errors are returned as signed error envelopes,
\* never raised as raw exceptions (but for a request without a token).
ErrorsAreSigned ==
    \A p \in Procs : reply[p].type = "exception" =>
        job[p].tool = "inbox" /\ job[p].env \in Unauthorized
=============================================================================
