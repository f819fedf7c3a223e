----------------------------- MODULE NodeProofs -----------------------------
(***************************************************************************)
(* The safety of Node, for every set of processes, tools, envelopes, peers *)
(* and every policy.                                                       *)
(***************************************************************************)
EXTENDS Node, TokenBucketProofs, FiniteSetTheorems

-----------------------------------------------------------------------------
(* Types.                                                                  *)

\* The responses _dispatch may store for the envelope e.
Kept(e) == [type : {"receipt", "data"}, status : ReceiptStatuses \cup {"none"}, ref : {e.id}]

\* Only the receipt or data response to an envelope with a key is stored.
PutReady ==
    \A p \in Procs : pc[p] = "put" =>
        job[p].env.key # NoKey /\ reply[p] \in Kept(job[p].env)

TInv == TypeOK /\ PutReady

LEMMA VerifyHeaderCodes ==
    ASSUME NEW e, NEW t
    PROVE  VerifyHeader(e, t) = OK \/ VerifyHeader(e, t) \in Codes
    BY DEF VerifyHeader, Codes

LEMMA AuthorizeCodes ==
    ASSUME NEW e, NEW x, NEW scope, NEW t
    PROVE  /\ Authorize(x, scope) = OK \/ Authorize(x, scope) \in Codes
           /\ AuthorizeEnvelope(e, t) = OK \/ AuthorizeEnvelope(e, t) \in Codes
<1>1. \A y, s : Authorize(y, s) = OK \/ Authorize(y, s) \in Codes
    BY DEF Authorize, Codes
<1>2. \A y, s, r, a : \/ AuthorizeResource(y, s, r, a, t) = OK
                      \/ AuthorizeResource(y, s, r, a, t) \in Codes
    BY <1>1 DEF AuthorizeResource, Codes
<1>3. \/ AuthorizeEnvelope(e, t) = OK
      \/ \E y, s : AuthorizeEnvelope(e, t) = Authorize(y, s)
      \/ \E y, s, r, a : AuthorizeEnvelope(e, t) = AuthorizeResource(y, s, r, a, t)
    BY Zenon DEF AuthorizeEnvelope
<1> QED
    BY <1>1, <1>2, <1>3

LEMMA ReplyType ==
    ASSUME NEW tool, NEW r \in Replies
    PROVE  ToolReply(tool, r) \in Replies
    BY DEF ToolReply, Replies, Response

LEMMA Replying ==
    ASSUME NEW ref \in Ids \cup {NoRef}
    PROVE  /\ \A s \in ReceiptStatuses : Receipt(s, ref) \in Replies
           /\ \A t \in {"data", "handshake", "error", "exception"} : Response(t, ref) \in Replies
           /\ \A c \in Codes : Error(c, ref) \in Replies
    BY DEF Replies, Receipt, Response, Error

LEMMA RefusalType ==
    ASSUME NEW r \in Requests, NEW c \in Codes
    PROVE  RequestError(r, c) \in Replies
<1>1. r.env.id \in Ids
    BY DEF Requests, Ids
<1> QED
    BY <1>1, Replying DEF RequestError

\* What a handler leads to, by its kind.
LEMMA HandlerResponses ==
    ASSUME NEW e, NEW result \in Outcomes
    PROVE  /\ result \in {"default", "none"} \cup ReceiptStatuses =>
                \/ \E s \in ReceiptStatuses : HandlerResponse(e, result) = Receipt(s, e.id)
                \/ HandlerResponse(e, result) = Response("data", e.id)
           /\ result = "raise" => HandlerResponse(e, result) = Error("INTERNAL", e.id)
           /\ result \in {"data", "handshake", "error"} =>
                HandlerResponse(e, result) = Response(result, e.id)
<1>1. CASE result = "default"
    <2>1. HandlerResponse(e, result) = DefaultResponse(e)
        BY <1>1 DEF HandlerResponse, ReceiptStatuses
    <2> QED
        BY <1>1, <2>1 DEF DefaultResponse, ReceiptStatuses
<1>2. CASE result = "none"
    <2>1. HandlerResponse(e, result) = Receipt("accepted", e.id)
        BY <1>2 DEF HandlerResponse, ReceiptStatuses
    <2> QED
        BY <1>2, <2>1 DEF ReceiptStatuses
<1>3. CASE result \in ReceiptStatuses
    <2>1. result \notin {"default", "none", "raise", "data", "handshake", "error"}
        BY <1>3 DEF ReceiptStatuses
    <2>2. HandlerResponse(e, result) = Receipt(result, e.id)
        BY <1>3, <2>1 DEF HandlerResponse
    <2> QED
        BY <1>3, <2>1, <2>2
<1>4. CASE result = "raise"
    BY <1>4 DEF HandlerResponse, ReceiptStatuses
<1>5. CASE result \in {"data", "handshake", "error"}
    <2>1. result \notin {"default", "none", "raise"} \cup ReceiptStatuses
        BY <1>5 DEF ReceiptStatuses
    <2>2. HandlerResponse(e, result) = Response(result, e.id)
        BY <2>1 DEF HandlerResponse
    <2> QED
        BY <2>1, <2>2
<1> QED
    BY <1>1, <1>2, <1>3, <1>4, <1>5 DEF Outcomes

LEMMA HandlerResponseType ==
    ASSUME NEW e \in Envelopes, NEW result \in Outcomes
    PROVE  HandlerResponse(e, result) \in Replies
<1>1. e.id \in Ids
    BY DEF Ids
<1>2. \/ \E s \in ReceiptStatuses : HandlerResponse(e, result) = Receipt(s, e.id)
      \/ \E t \in {"data", "handshake", "error"} : HandlerResponse(e, result) = Response(t, e.id)
      \/ HandlerResponse(e, result) = Error("INTERNAL", e.id)
    BY HandlerResponses DEF Outcomes
<1>3. "INTERNAL" \in Codes
    BY DEF Codes
<1> QED
    BY <1>1, <1>2, <1>3, Replying

\* Of these, _dispatch stores receipts and data responses.
LEMMA StorableKept ==
    ASSUME NEW e, NEW result \in Outcomes, Storable(e, HandlerResponse(e, result))
    PROVE  /\ HandlerResponse(e, result) \in Kept(e) /\ e.key # NoKey
           /\ result \notin {"raise", "error", "handshake"}
<1>1. \/ \E s \in ReceiptStatuses : HandlerResponse(e, result) = Receipt(s, e.id)
      \/ HandlerResponse(e, result) = Response("data", e.id)
      \/ /\ result \in {"handshake", "error"}
         /\ HandlerResponse(e, result) = Response(result, e.id)
      \/ result = "raise" /\ HandlerResponse(e, result) = Error("INTERNAL", e.id)
    BY HandlerResponses DEF Outcomes
<1>2. HandlerResponse(e, result).type \in {"receipt", "data"} /\ e.key # NoKey
    BY DEF Storable
<1>3. result \notin {"raise", "error", "handshake"}
    <2>1. result = "raise" => HandlerResponse(e, result).type = "error"
        BY HandlerResponses DEF Error
    <2>2. result \in {"error", "handshake"} => HandlerResponse(e, result).type = result
        BY HandlerResponses DEF Response
    <2> QED
        BY <1>2, <2>1, <2>2
<1> QED
    BY <1>1, <1>2, <1>3 DEF Kept, Receipt, Response

\* A handler run leaves the request, and its response to be stored or returned.
LEMMA RunEffect ==
    ASSUME NEW p, NEW result, RunHandler(p, result)
    PROVE  LET e == job[p].env
               res == HandlerResponse(e, result) IN
           /\ pc[p] = "dispatch" /\ result \in Handlers[e.type]
           /\ UNCHANGED <<job, idempotent>>
           /\ \/ /\ Storable(e, res) /\ reply' = [reply EXCEPT ![p] = res]
                 /\ pc' = [pc EXCEPT ![p] = "put"]
              \/ /\ ~Storable(e, res)
                 /\ reply' = [reply EXCEPT ![p] = ToolReply(job[p].tool, res)]
                 /\ pc' = [pc EXCEPT ![p] = "reply"]
    BY DEF RunHandler, Answer, store

LEMMA RunMoves ==
    ASSUME NEW p, NEW result, RunHandler(p, result)
    PROVE  /\ pc[p] = "dispatch" /\ UNCHANGED <<job, idempotent>>
           /\ pc' = [pc EXCEPT ![p] = "put"] \/ pc' = [pc EXCEPT ![p] = "reply"]
    BY RunEffect

\* Every response but a handshake or an error may be stored.
LEMMA HandledStorable ==
    ASSUME NEW e, e.key # NoKey, NEW result \in Outcomes \ {"raise", "error", "handshake"}
    PROVE  Storable(e, HandlerResponse(e, result))
<1>1. \/ \E s \in ReceiptStatuses : HandlerResponse(e, result) = Receipt(s, e.id)
      \/ HandlerResponse(e, result) = Response("data", e.id)
    BY HandlerResponses DEF Outcomes
<1> QED
    BY <1>1 DEF Storable, Receipt, Response

LEMMA FoundReplyType ==
    ASSUME NEW e \in Envelopes, NEW row, row = NoRow \/ row \in idempotent, TInv
    PROVE  FoundReply(e, row) \in Replies
<1>1. e.id \in Ids
    BY DEF Ids
<1>2. CASE row.type = "none"
    <2>1. FoundReply(e, row) = Receipt("rejected", e.id)
        BY <1>2, Zenon DEF FoundReply
    <2> QED
        BY <1>1, <2>1, Replying DEF ReceiptStatuses
<1>3. CASE row.type # "none"
    <2>1. row.ref \in Ids
        BY <1>3 DEF NoRow, TInv, TypeOK
    <2>2. CASE row.type = "receipt"
        <3>1. FoundReply(e, row) = Receipt(row.status, row.ref)
            BY <1>3, <2>2, Zenon DEF FoundReply
        <3>2. row.status \in ReceiptStatuses \cup {"none"}
            BY <1>3 DEF NoRow, TInv, TypeOK
        <3> QED
            BY <2>1, <3>1, <3>2 DEF Replies, Receipt
    <2>3. CASE row.type # "receipt"
        <3>1. FoundReply(e, row) = Response("data", row.ref)
            BY <1>3, <2>3, Zenon DEF FoundReply
        <3> QED
            BY <2>1, <3>1, Replying
    <2> QED
        BY <2>2, <2>3
<1> QED
    BY <1>2, <1>3

\* What the lookups return and what purge and a crash leave are rows of the table.
LEMMA FoundRows ==
    ASSUME NEW rows, NEW peer, NEW key, NEW t
    PROVE  GetIdempotent(rows, peer, key, t) \subseteq rows
    BY DEF GetIdempotent

LEMMA FoundByRef ==
    ASSUME NEW rows, NEW peer, NEW ref, NEW t
    PROVE  FindReceiptByRef(rows, peer, ref, t) \subseteq rows \cup {NoRow}
    BY DEF FindReceiptByRef

LEMMA PurgedRows ==
    ASSUME NEW rows, NEW t
    PROVE  Purge(rows, t) \subseteq rows
    BY DEF Purge

LEMMA CrashedRows ==
    ASSUME NEW rows
    PROVE  AfterCrash(rows) \subseteq rows
    BY DEF AfterCrash

LEMMA TypedStart == Init => TInv
<1> SUFFICES ASSUME Init PROVE TInv
    OBVIOUS
<1>1. NoReply \in Replies
    BY DEF NoReply, Replies, NoRef
<1> QED
    BY <1>1 DEF Init, TInv, TypeOK, PutReady, Steps

\* An action that only answers the request of p, or takes it a step further.
Progress(p) ==
    /\ \/ \E res \in Replies : Answer(p, res)
       \/ \E step \in Steps \ {"put"} : Goto(p, step)
    /\ UNCHANGED <<now, idempotent, inbox, handled, requests, crashes>>

LEMMA ProgressTyped ==
    ASSUME TInv, NEW p \in Procs, pc[p] # "idle", Progress(p),
           nonces' \subseteq [peer : Peers, nonce : {e.nonce : e \in Envelopes}, expires : Nat],
           buckets' \in [Procs -> [Peers -> Bucket \cup {NoBucket}]],
           admitted' \in [Envelopes -> Nat], busy' \in Nat
    PROVE  TInv'
<1> USE DEF TInv, TypeOK
<1>1. ASSUME NEW res \in Replies, Answer(p, res)
      PROVE  /\ pc' \in [Procs -> Steps] /\ reply' \in [Procs -> Replies] /\ job' = job
             /\ PutReady' /\ \A q \in Procs : pc'[q] # "idle" => pc[q] # "idle"
    <2>1. ToolReply(job[p].tool, res) \in Replies
        BY ReplyType
    <2> QED
        BY <1>1, <2>1 DEF Answer, Steps, PutReady
<1>2. ASSUME NEW step \in Steps \ {"put"}, Goto(p, step)
      PROVE  /\ pc' \in [Procs -> Steps] /\ reply' \in [Procs -> Replies] /\ job' = job
             /\ PutReady' /\ \A q \in Procs : pc'[q] # "idle" => pc[q] # "idle"
    BY <1>2 DEF Goto, PutReady
<1>3. /\ pc' \in [Procs -> Steps] /\ reply' \in [Procs -> Replies] /\ job' = job
      /\ PutReady' /\ \A q \in Procs : pc'[q] # "idle" => pc[q] # "idle"
    BY <1>1, <1>2 DEF Progress
<1> QED
    BY <1>3 DEF Progress

LEMMA JobFacts ==
    ASSUME TInv, NEW p \in Procs, pc[p] # "idle"
    PROVE  /\ job[p] \in Requests /\ job[p].env \in Envelopes
           /\ job[p].env.from \in Peers /\ job[p].env.id \in Ids
           /\ job[p].env.expires \in Nat
    BY NodeAssumption DEF TInv, TypeOK, Requests, Peers, Ids

LEMMA VerifyTyped ==
    ASSUME TInv, NEW p \in Procs, NEW e \in Envelopes, NEW tool \in Tools[p],
           Verify(p, e, tool) \/ Refuse(p, e, tool)
    PROVE  TInv'
<1> USE DEF TInv, TypeOK
<1> DEFINE r == [tool |-> tool, env |-> e]
<1>1. r \in Requests /\ e.id \in Ids
    BY NodeAssumption DEF Requests, Ids
<1>2. CASE Verify(p, e, tool)
    BY <1>1, <1>2 DEF Verify, Steps, PutReady, store, memory, observed
<1>3. CASE Refuse(p, e, tool)
    <2>1. Error("SCHEMA_INVALID", NoRef) \in Replies
        BY Replying DEF Codes
    <2>2. VerifyHeader(e, now) # OK => RequestError(r, VerifyHeader(e, now)) \in Replies
        BY <1>1, VerifyHeaderCodes, RefusalType
    <2>3. BarredReply(e) \in Replies
        BY Replying DEF BarredReply, Codes
    <2>4. reply' \in [Procs -> Replies]
        BY <1>3, <2>1, <2>2, <2>3 DEF Refuse
    <2> QED
        BY <1>1, <1>3, <2>4 DEF Refuse, Steps, PutReady, store, memory, observed
<1> QED
    BY <1>2, <1>3

LEMMA NonceTyped ==
    ASSUME TInv, NEW p \in Procs, Replay(p) \/ Admit(p)
    PROVE  TInv'
<1> USE DEF TInv, TypeOK
<1> DEFINE e == job[p].env
<1>0. pc[p] = "nonce"
    BY DEF Replay, Admit
<1>1. job[p] \in Requests /\ e \in Envelopes /\ e.from \in Peers /\ e.expires \in Nat
    BY <1>0, JobFacts
<1>2. CASE Replay(p)
    <2>1. RequestError(job[p], "REPLAY") \in Replies
        BY <1>1, RefusalType DEF Codes
    <2> QED
        BY <1>0, <1>2, <2>1, ProgressTyped
           DEF Replay, Progress, store, memory, observed, bounds
<1>3. CASE Admit(p)
    <2>1. RequestError(job[p], "SCHEMA_INVALID") \in Replies
        BY <1>1, RefusalType DEF Codes
    <2>2. AfterNonce(job[p]) \in Steps \ {"put"}
        BY DEF AfterNonce, Steps
    <2>3. NonceRow(e) \in [peer : Peers, nonce : {f.nonce : f \in Envelopes}, expires : Nat]
        BY <1>1 DEF NonceRow
    <2>4. nonces' \subseteq [peer : Peers, nonce : {f.nonce : f \in Envelopes}, expires : Nat]
        BY <1>3, <2>3 DEF Admit
    <2>5. admitted' \in [Envelopes -> Nat]
        BY <1>1, <1>3 DEF Admit
    <2>6. Progress(p)
        BY <1>3, <2>1, <2>2 DEF Admit, Progress, memory, bounds
    <2> QED
        BY <1>0, <1>3, <2>4, <2>5, <2>6, ProgressTyped DEF Admit, memory, bounds
<1> QED
    BY <1>2, <1>3

LEMMA LookupTyped ==
    ASSUME TInv, NEW p \in Procs, Lookup(p) \/ Find(p) \/ StoreBusy(p)
    PROVE  TInv'
<1> USE DEF TInv, TypeOK
<1> DEFINE e == job[p].env
<1>0. pc[p] # "idle"
    BY DEF Lookup, Find, StoreBusy
<1>1. job[p] \in Requests /\ e \in Envelopes /\ e.id \in Ids
    BY <1>0, JobFacts
<1>2. CASE Lookup(p)
    <2>1. ASSUME NEW row \in GetIdempotent(idempotent, e.from, e.key, now)
          PROVE  /\ Receipt("duplicate", row.ref) \in Replies
                 /\ Response("data", row.ref) \in Replies
        <3>1. row \in idempotent
            BY FoundRows
        <3>2. row.ref \in Ids
            BY <3>1
        <3> QED
            BY <3>2, Replying DEF ReceiptStatuses
    <2>2. Progress(p)
        BY <1>2, <2>1 DEF Lookup, Progress, store, memory, observed, bounds, Steps
    <2> QED
        BY <1>0, <1>2, <2>2, ProgressTyped DEF Lookup, store, memory, observed, bounds
<1>3. CASE Find(p)
    <2>1. /\ Error("SCHEMA_INVALID", NoRef) \in Replies
          /\ \A x, scope : Authorize(x, scope) # OK =>
                Error(Authorize(x, scope), NoRef) \in Replies
        BY Replying, AuthorizeCodes DEF Codes
    <2>2. \A row \in FindReceiptByRef(idempotent, e.from, e.ref, now) :
            FoundReply(e, row) \in Replies
        <3> TAKE row \in FindReceiptByRef(idempotent, e.from, e.ref, now)
        <3>1. row \in idempotent \cup {NoRow}
            BY FoundByRef
        <3> QED
            BY <1>1, <3>1, FoundReplyType
    <2>3. Progress(p)
        BY <1>3, <2>1, <2>2 DEF Find, Progress, store, memory, observed, bounds
    <2> QED
        BY <1>0, <1>3, <2>3, ProgressTyped DEF Find, store, memory, observed, bounds
<1>4. CASE StoreBusy(p)
    <2>1. Response("exception", NoRef) \in Replies /\ Error("INTERNAL", e.id) \in Replies
        BY <1>1, Replying DEF Codes
    <2>2. Progress(p)
        BY <1>4, <2>1 DEF StoreBusy, Progress, store, memory, observed
    <2>3. busy' \in Nat
        BY <1>4 DEF StoreBusy
    <2> QED
        BY <1>0, <1>4, <2>2, <2>3, ProgressTyped DEF StoreBusy, store, memory, observed
<1> QED
    BY <1>2, <1>3, <1>4

LEMMA RateTyped ==
    ASSUME TInv, NEW p \in Procs, pc[p] # "idle",
           buckets' = [buckets EXCEPT ![p][job[p].env.from] = AfterCheck(@, now)]
    PROVE  buckets' \in [Procs -> [Peers -> Bucket \cup {NoBucket}]]
<1> DEFINE x == job[p].env.from
<1>1. x \in Peers
    BY JobFacts
<1> HIDE DEF x
<1>2. AfterCheck(buckets[p][x], now) \in Bucket
    <2>1. buckets[p][x] \in Bucket \cup {NoBucket} /\ now \in Nat
        BY <1>1 DEF TInv, TypeOK
    <2> QED
        BY <2>1, Checked
<1> QED
    BY <1>1, <1>2 DEF TInv, TypeOK, x

LEMMA Appended ==
    ASSUME NEW S, NEW seq \in Seq(S), NEW x \in S
    PROVE  /\ Append(seq, x) \in Seq(S)
           /\ Len(Append(seq, x)) = Len(seq) + 1
           /\ \A i \in 1..Len(seq) : Append(seq, x)[i] = seq[i]
           /\ Append(seq, x)[Len(seq) + 1] = x
    OBVIOUS

LEMMA ElementOfSeq ==
    ASSUME NEW S, NEW seq \in Seq(S), NEW i \in DOMAIN seq
    PROVE  seq[i] \in S
    OBVIOUS

LEMMA AppendedEntry ==
    ASSUME NEW S, NEW seq \in Seq(S), NEW x \in S
    PROVE  \A i \in DOMAIN Append(seq, x) :
              \/ Append(seq, x)[i] = x
              \/ i \in DOMAIN seq /\ Append(seq, x)[i] = seq[i]
    OBVIOUS

LEMMA AppendedLast ==
    ASSUME NEW S, NEW seq \in Seq(S), NEW x \in S
    PROVE  /\ DOMAIN Append(seq, x) = DOMAIN seq \cup {Len(seq) + 1}
           /\ Len(seq) + 1 \notin DOMAIN seq
           /\ \A i \in DOMAIN seq : Append(seq, x)[i] = seq[i]
           /\ Append(seq, x)[Len(seq) + 1] = x
    OBVIOUS

LEMMA DispatchTyped ==
    ASSUME TInv, NEW p \in Procs, NEW result \in Outcomes,
           Deny(p) \/ RunHandler(p, result)
    PROVE  TInv'
<1> USE DEF TInv, TypeOK
<1> DEFINE e == job[p].env
<1>0. pc[p] = "dispatch"
    BY DEF Deny, RunHandler
<1>1. job[p] \in Requests /\ e \in Envelopes /\ e.id \in Ids
    BY <1>0, JobFacts
<1>2. buckets' \in [Procs -> [Peers -> Bucket \cup {NoBucket}]]
    BY <1>0, RateTyped DEF Deny, RunHandler
<1>3. CASE Deny(p)
    <2>1. /\ RequestError(job[p], "RATE_LIMITED") \in Replies
          /\ AuthorizeEnvelope(e, now) # OK =>
                RequestError(job[p], AuthorizeEnvelope(e, now)) \in Replies
        BY <1>1, RefusalType, AuthorizeCodes DEF Codes
    <2>2. Progress(p)
        BY <1>3, <2>1 DEF Deny, Progress, store, observed, bounds
    <2> QED
        BY <1>0, <1>2, <1>3, <2>2, ProgressTyped DEF Deny, store, observed, bounds
<1>4. CASE RunHandler(p, result)
    <2> DEFINE res == HandlerResponse(e, result)
    <2>0. res \in Replies /\ ToolReply(job[p].tool, res) \in Replies
        BY <1>1, HandlerResponseType, ReplyType
    <2>a. \/ /\ Storable(e, res) /\ reply' = [reply EXCEPT ![p] = res]
             /\ pc' = [pc EXCEPT ![p] = "put"]
          \/ /\ reply' = [reply EXCEPT ![p] = ToolReply(job[p].tool, res)]
             /\ pc' = [pc EXCEPT ![p] = "reply"]
        BY <1>4, RunEffect
    <2>b. job' = job
        BY <1>4, RunMoves
    <2>c. Storable(e, res) => res \in Kept(e) /\ e.key # NoKey
        BY StorableKept
    <2> HIDE DEF res
    <2>1. reply' \in [Procs -> Replies]
        BY <2>0, <2>a
    <2>2. handled' \in Seq([env : Envelopes, at : Nat, by : Procs])
        <3>1. [env |-> e, at |-> now, by |-> p] \in [env : Envelopes, at : Nat, by : Procs]
            BY <1>1
        <3>2. handled' = handled \/ handled' = Append(handled, [env |-> e, at |-> now, by |-> p])
            BY <1>4 DEF RunHandler
        <3>3. Append(handled, [env |-> e, at |-> now, by |-> p]) \in Seq([env : Envelopes, at : Nat, by : Procs])
            BY <3>1, Appended, Zenon
        <3> QED
            BY <3>2, <3>3
    <2>3. inbox' \in [Procs -> Seq(Envelopes)]
        BY <1>1, <1>4 DEF RunHandler
    <2>4. pc' \in [Procs -> Steps]
        BY <2>a DEF Steps
    <2>5. PutReady'
        BY <2>a, <2>b, <2>c DEF PutReady
    <2>6. \A q \in Procs : pc'[q] # "idle" => job'[q] \in Requests
        BY <1>0, <2>a, <2>b
    <2> QED
        BY <1>2, <1>4, <2>b, <2>1, <2>2, <2>3, <2>4, <2>5, <2>6 DEF RunHandler, store, bounds
<1> QED
    BY <1>3, <1>4

LEMMA PutTyped ==
    ASSUME TInv, NEW p \in Procs, Put(p)
    PROVE  TInv'
<1> USE DEF TInv, TypeOK
<1> DEFINE e == job[p].env
           row == [peer |-> e.from, key |-> e.key, ref |-> e.id, expires |-> now + IdemTtl,
                   type |-> reply[p].type, status |-> reply[p].status]
<1>1. /\ e \in Envelopes /\ e.id \in Ids /\ e.from \in Peers /\ e.key # NoKey
      /\ reply[p] \in Kept(e)
    BY JobFacts DEF Put, PutReady
<1>2. row.type \in {"receipt", "data"} /\ row.status \in ReceiptStatuses \cup {"none"}
    BY <1>1 DEF Kept
<1>3. row \in [peer : Peers, key : {f.key : f \in Envelopes} \ {NoKey}, ref : Ids,
               expires : Nat, type : {"receipt", "data"},
               status : ReceiptStatuses \cup {"none"}]
    BY <1>1, <1>2, NodeAssumption
<1>4. idempotent' = PutIdempotent(idempotent, row)
    BY DEF Put
<1> HIDE DEF row
<1>5. idempotent' \subseteq [peer : Peers, key : {f.key : f \in Envelopes} \ {NoKey},
                             ref : Ids, expires : Nat, type : {"receipt", "data"},
                             status : ReceiptStatuses \cup {"none"}]
    BY <1>3, <1>4 DEF PutIdempotent
<1>6. ToolReply(job[p].tool, reply[p]) \in Replies
    BY ReplyType
<1> QED
    BY <1>5, <1>6 DEF Put, Answer, Steps, PutReady, memory, observed, bounds

LEMMA OthersTyped ==
    ASSUME TInv,
           \/ \E p \in Procs : Respond(p) \/ Crash(p)
           \/ PurgeStore \/ Tick \/ UNCHANGED vars
    PROVE  TInv'
<1> USE DEF TInv, TypeOK
<1>1. ASSUME NEW p \in Procs, Respond(p) PROVE TInv'
    <2>1. NoReply \in Replies
        BY DEF NoReply, Replies, NoRef
    <2> QED
        BY <1>1, <2>1 DEF Respond, Steps, PutReady, store, memory, observed, bounds
<1>2. ASSUME NEW p \in Procs, Crash(p) PROVE TInv'
    <2>1. NoReply \in Replies
        BY DEF NoReply, Replies, NoRef
    <2>2. nonces' \subseteq nonces /\ idempotent' \subseteq idempotent
        BY <1>2, CrashedRows DEF Crash
    <2>3. << >> \in Seq(Envelopes)
        OBVIOUS
    <2>4. inbox' \in [Procs -> Seq(Envelopes)]
        BY <1>2, <2>3 DEF Crash
    <2> QED
        BY <1>2, <2>1, <2>2, <2>4 DEF Crash, Steps, PutReady, observed
<1>3. CASE PurgeStore
    <2>1. nonces' \subseteq nonces /\ idempotent' \subseteq idempotent
        BY <1>3, PurgedRows DEF PurgeStore
    <2> QED
        BY <1>3, <2>1 DEF PurgeStore, PutReady, memory, observed, bounds
<1>4. CASE Tick
    BY <1>4 DEF Tick, PutReady, store, memory, observed, bounds
<1>5. CASE UNCHANGED vars
    BY <1>5 DEF vars, PutReady
<1> QED
    BY <1>1, <1>2, <1>3, <1>4, <1>5

LEMMA TypedStep == TInv /\ [Next]_vars => TInv'
<1>1. "none" \in Outcomes
    BY DEF Outcomes
<1> QED
    BY <1>1, VerifyTyped, NonceTyped, LookupTyped, DispatchTyped, PutTyped, OthersTyped
       DEF Next, Step

\* For every set of processes, tools and envelopes and every policy, all of
\* Node's state and every reply keeps its type.
THEOREM TypeCorrect == Spec => []TypeOK
<1>1. TInv => TypeOK
    BY DEF TInv
<1> QED
    BY TypedStart, TypedStep, <1>1, PTL DEF Spec

\* The same, and what waits to be stored has an idempotency key.
THEOREM Typed == Spec => []TInv
    BY TypedStart, TypedStep, PTL DEF Spec

-----------------------------------------------------------------------------
(* Replay.                                                                 *)

\* An envelope that passed the replay check is on record until it expires.
NonceKept ==
    \A e \in Envelopes : admitted[e] > 0 /\ now < e.expires => NonceRow(e) \in nonces

\* The steps that leave the nonces and the observer of admissions alone.
LEMMA NoncesUntouched ==
    ASSUME [Next]_vars
    PROVE  \/ UNCHANGED <<nonces, admitted, now>>
           \/ \E p \in Procs : Admit(p) \/ Crash(p)
           \/ PurgeStore \/ Tick
<1>1. ASSUME NEW p, NEW e, NEW tool, Verify(p, e, tool) \/ Refuse(p, e, tool)
      PROVE  UNCHANGED <<nonces, admitted, now>>
    BY <1>1 DEF Verify, Refuse, store, observed
<1>2. ASSUME NEW p, NEW result, RunHandler(p, result)
      PROVE  UNCHANGED <<nonces, admitted, now>>
    BY <1>2 DEF RunHandler, store
<1>3. ASSUME NEW p, \/ Replay(p) \/ Lookup(p) \/ Deny(p)
                    \/ Put(p) \/ Find(p) \/ StoreBusy(p) \/ Respond(p)
      PROVE  UNCHANGED <<nonces, admitted, now>>
    BY <1>3 DEF Replay, Lookup, Deny, Put, Find, StoreBusy, Respond, store, observed
<1> QED
    BY <1>1, <1>2, <1>3 DEF Next, Step, vars

LEMMA NonceKeptStep ==
    ASSUME Backend = "sqlite", TInv, NonceKept, [Next]_vars
    PROVE  NonceKept'
<1> USE DEF TInv, TypeOK
<1>1. CASE UNCHANGED <<nonces, admitted, now>>
    BY <1>1 DEF NonceKept
<1>2. ASSUME NEW p \in Procs, Admit(p) PROVE NonceKept'
    BY <1>2, JobFacts DEF Admit, NonceKept
<1>3. ASSUME NEW p \in Procs, Crash(p) PROVE NonceKept'
    BY <1>3 DEF Crash, observed, AfterCrash, NonceKept
<1>4. CASE PurgeStore
    BY <1>4 DEF PurgeStore, Purge, NonceRow, NonceKept, observed
<1>5. CASE Tick
    <2>1. now < now' /\ now' \in Nat /\ UNCHANGED <<nonces, admitted>>
        BY <1>5 DEF Tick, store, observed
    <2>2. \A e \in Envelopes : now' < e.expires => now < e.expires
        BY <2>1, NodeAssumption
    <2> QED
        BY <2>1, <2>2 DEF NonceKept
<1> QED
    BY <1>1, <1>2, <1>3, <1>4, <1>5, NoncesUntouched

\* verify_inbound on a SqliteStore, for any number of processes, crashes and
\* purges: an envelope passes the replay check once before it expires.
THEOREM AdmittedOnce == ASSUME Backend = "sqlite" PROVE Spec => AdmitOnce
<1>1. Init => NonceKept
    BY DEF Init, NonceKept
<1>2. TInv /\ NonceKept /\ [Next]_vars => NonceKept'
    BY NonceKeptStep
<1>3. TInv /\ NonceKept /\ [Next]_vars =>
        \A e \in Envelopes :
            admitted'[e] # admitted[e] /\ now < e.expires => admitted[e] = 0
    <2> SUFFICES ASSUME TInv, NonceKept, [Next]_vars, NEW e \in Envelopes,
                        admitted'[e] # admitted[e], now < e.expires
                 PROVE  admitted[e] = 0
        OBVIOUS
    <2>1. PICK p \in Procs : Admit(p)
        BY NoncesUntouched DEF Crash, PurgeStore, Tick, observed
    <2>2. job[p].env = e
        BY <2>1 DEF Admit, TInv, TypeOK
    <2>3. NonceRow(e) \notin nonces
        BY <2>1, <2>2 DEF Admit, SeenNonce, NonceRow
    <2> QED
        BY <2>3 DEF NonceKept, TInv, TypeOK
<1> QED
    BY Typed, <1>1, <1>2, <1>3, PTL DEF Spec, AdmitOnce

-----------------------------------------------------------------------------
(* Forgeries.                                                              *)

LEMMA VerifiedIsAuthentic ==
    ASSUME NEW e, NEW t, VerifyHeader(e, t) = OK
    PROVE  Authentic(e)
    BY DEF VerifyHeader, Authentic, Signed, OK

LEMMA StrangersOnlyGreet ==
    ASSUME NEW e, NEW t, AuthorizeEnvelope(e, t) = OK
    PROVE  e.type = "handshake" \/ IsKnown(e.from)
<1>1. \A s : Authorize(e.from, s) = OK => IsKnown(e.from)
    BY DEF Authorize, OK
<1>2. \A s, r, a : AuthorizeResource(e.from, s, r, a, t) = OK => IsKnown(e.from)
    BY <1>1 DEF AuthorizeResource, OK
<1>3. CASE e.type # "handshake"
    <2>1. \/ \E s : AuthorizeEnvelope(e, t) = Authorize(e.from, s)
          \/ \E s, r, a : AuthorizeEnvelope(e, t) = AuthorizeResource(e.from, s, r, a, t)
        BY <1>3, Zenon DEF AuthorizeEnvelope
    <2> QED
        BY <1>1, <1>2, <2>1
<1> QED
    BY <1>3

\* What a process works on past the header is authentic.
WorkAuthentic ==
    \A p \in Procs : pc[p] \notin {"idle", "reply"} => Authentic(job[p].env)

TrustInv == WorkAuthentic /\ OnlyTrustedHandled

\* A request that goes on is still the same request.
LEMMA WorkKept ==
    ASSUME TInv, WorkAuthentic, NEW p \in Procs, pc[p] \notin {"idle", "reply"},
           \/ \E res : Answer(p, res)
           \/ \E step : Goto(p, step)
    PROVE  WorkAuthentic'
    BY DEF TInv, TypeOK, Answer, Goto, WorkAuthentic, Authentic

\* A handler run adds at most one entry to the observer, its own.
LEMMA HandledGrows ==
    ASSUME TInv, NEW p \in Procs, NEW result, RunHandler(p, result)
    PROVE  \A i \in DOMAIN handled' :
              \/ handled'[i] = [env |-> job[p].env, at |-> now, by |-> p]
              \/ i \in DOMAIN handled /\ handled'[i] = handled[i]
<1> DEFINE run == [env |-> job[p].env, at |-> now, by |-> p]
<1>1. run \in [env : Envelopes, at : Nat, by : Procs]
    BY JobFacts DEF RunHandler, TInv, TypeOK
<1>2. handled' = handled \/ handled' = Append(handled, run)
    BY DEF RunHandler
<1>3. handled \in Seq([env : Envelopes, at : Nat, by : Procs])
    BY DEF TInv, TypeOK
<1> HIDE DEF run
<1>4. \A i \in DOMAIN Append(handled, run) :
          \/ Append(handled, run)[i] = run
          \/ i \in DOMAIN handled /\ Append(handled, run)[i] = handled[i]
    BY <1>1, <1>3, AppendedEntry
<1>5. \A i \in DOMAIN handled' :
          handled'[i] = run \/ (i \in DOMAIN handled /\ handled'[i] = handled[i])
    BY <1>2, <1>4
<1> QED
    BY <1>5 DEF run

LEMMA TrustStep ==
    ASSUME TInv, TrustInv, [Next]_vars
    PROVE  TrustInv'
<1> USE DEF TInv, TypeOK, TrustInv
<1>1. ASSUME NEW p \in Procs, NEW e \in Envelopes, NEW tool, Verify(p, e, tool)
      PROVE  TrustInv'
    <2>1. Authentic(e)
        BY <1>1, VerifiedIsAuthentic DEF Verify
    <2> QED
        BY <1>1, <2>1 DEF Verify, observed, WorkAuthentic, OnlyTrustedHandled, Authentic
<1>2. ASSUME NEW p \in Procs, NEW e \in Envelopes, NEW tool, Refuse(p, e, tool)
      PROVE  TrustInv'
    BY <1>2 DEF Refuse, observed, WorkAuthentic, OnlyTrustedHandled, Authentic
<1>3. ASSUME NEW p \in Procs,
             \/ Replay(p) \/ Admit(p) \/ Lookup(p) \/ Deny(p)
             \/ Put(p) \/ Find(p) \/ StoreBusy(p)
      PROVE  TrustInv'
    <2>1. WorkAuthentic'
        BY <1>3, WorkKept DEF Replay, Admit, Lookup, Deny, Put, Find, StoreBusy
    <2>2. handled' = handled
        BY <1>3 DEF Replay, Admit, Lookup, Deny, Put, Find, StoreBusy, observed
    <2> QED
        BY <2>1, <2>2 DEF OnlyTrustedHandled, Authentic
<1>4. ASSUME NEW p \in Procs, NEW result, RunHandler(p, result) PROVE TrustInv'
    <2> DEFINE e == job[p].env
    <2>1. Authentic(e) /\ (e.type = "handshake" \/ IsKnown(e.from))
        BY <1>4, StrangersOnlyGreet DEF RunHandler, WorkAuthentic
    <2>2. WorkAuthentic'
        BY <1>4, RunMoves DEF WorkAuthentic, Authentic
    <2>3. [env |-> e, at |-> now, by |-> p] \in [env : Envelopes, at : Nat, by : Procs]
        BY <1>4, JobFacts DEF RunHandler
    <2>4. \A i \in DOMAIN handled' :
            handled'[i].env = e \/ (i \in DOMAIN handled /\ handled'[i] = handled[i])
        BY <1>4, <2>3, HandledGrows
    <2>5. OnlyTrustedHandled'
        BY <2>1, <2>4 DEF OnlyTrustedHandled, Authentic, IsKnown
    <2> QED
        BY <2>2, <2>5
<1>5. ASSUME NEW p \in Procs, Respond(p) \/ Crash(p) PROVE TrustInv'
    BY <1>5 DEF Respond, Crash, observed, WorkAuthentic, OnlyTrustedHandled, Authentic
<1>6. CASE PurgeStore \/ Tick \/ UNCHANGED vars
    BY <1>6 DEF PurgeStore, Tick, vars, observed, WorkAuthentic, OnlyTrustedHandled, Authentic
<1> QED
    BY <1>1, <1>2, <1>3, <1>4, <1>5, <1>6 DEF Next, Step

\* verify_inbound and authorize, for every policy and every set of envelopes:
\* only what its claimed sender signed for this node is handled, and of
\* strangers only a handshake.
THEOREM TrustedHandled == Spec => []OnlyTrustedHandled
<1>1. Init => TrustInv
    BY DEF Init, TrustInv, WorkAuthentic, OnlyTrustedHandled
<1>2. TrustInv => OnlyTrustedHandled
    BY DEF TrustInv
<1>3. TInv /\ TrustInv /\ [Next]_vars => TrustInv'
    BY TrustStep
<1> QED
    BY Typed, <1>1, <1>2, <1>3, PTL DEF Spec

\* The invariant behind it, which the next theorem needs too: whatever a process
\* works on past verify_inbound's header checks is authentic.
THEOREM TrustAlways == Spec => []TrustInv
<1>1. Init => TrustInv
    BY DEF Init, TrustInv, WorkAuthentic, OnlyTrustedHandled
<1>2. TInv /\ TrustInv /\ [Next]_vars => TrustInv'
    BY TrustStep
<1> QED
    BY Typed, <1>1, <1>2, PTL DEF Spec

LEMMA BucketsUntouched ==
    ASSUME [Next]_vars
    PROVE  \/ UNCHANGED buckets
           \/ \E p \in Procs : Deny(p) \/ Crash(p) \/ \E result : RunHandler(p, result)
<1>1. ASSUME NEW p, NEW e, NEW tool, Verify(p, e, tool) \/ Refuse(p, e, tool)
      PROVE  UNCHANGED buckets
    BY <1>1 DEF Verify, Refuse, memory
<1>2. ASSUME NEW p, \/ Replay(p) \/ Admit(p) \/ Lookup(p)
                    \/ Put(p) \/ Find(p) \/ StoreBusy(p) \/ Respond(p)
      PROVE  UNCHANGED buckets
    BY <1>2 DEF Replay, Admit, Lookup, Put, Find, StoreBusy, Respond, memory
<1>3. PurgeStore \/ Tick \/ UNCHANGED vars => UNCHANGED buckets
    BY DEF PurgeStore, Tick, vars, memory
<1> QED
    BY <1>1, <1>2, <1>3 DEF Next, Step

\* A new nonce is that of the authentic envelope a process is at.
LEMMA NonceTrace ==
    ASSUME TInv, WorkAuthentic, [Next]_vars, NEW r \in nonces' \ nonces
    PROVE  \E p \in Procs : /\ pc[p] = "nonce" /\ pc'[p] # "nonce"
                           /\ Authentic(job[p].env) /\ NonceRow(job[p].env) = r
<1>1. ~Tick /\ ~PurgeStore /\ ~UNCHANGED <<nonces, admitted, now>>
    BY PurgedRows DEF Tick, PurgeStore, store
<1>2. \A p \in Procs : ~Crash(p)
    BY CrashedRows DEF Crash
<1>3. PICK p \in Procs : Admit(p)
    BY <1>1, <1>2, NoncesUntouched
<1>4. pc[p] = "nonce" /\ NonceRow(job[p].env) = r
    BY <1>3 DEF Admit
<1>5. pc'[p] # "nonce"
    BY <1>3 DEF Admit, Answer, Goto, AfterNonce, TInv, TypeOK
<1> QED
    BY <1>4, <1>5 DEF WorkAuthentic

\* A bucket that changes is that of the sender of such an envelope.
LEMMA TokenTrace ==
    ASSUME TInv, WorkAuthentic, [Next]_vars, NEW p \in Procs, NEW x \in Peers,
           buckets'[p][x] \notin {buckets[p][x], NoBucket}
    PROVE  /\ pc[p] = "dispatch" /\ pc'[p] # "dispatch"
           /\ Authentic(job[p].env) /\ job[p].env.from = x
<1> USE DEF TInv, TypeOK
<1>1. ASSUME NEW q \in Procs, Crash(q) PROVE FALSE
    <2>1. buckets' = [buckets EXCEPT ![q] = [y \in Peers |-> NoBucket]]
        BY <1>1 DEF Crash
    <2> QED
        BY <2>1
<1>2. PICK q \in Procs : Deny(q) \/ \E result : RunHandler(q, result)
    BY <1>1, BucketsUntouched
<1>3. /\ pc[q] = "dispatch"
      /\ buckets' = [buckets EXCEPT ![q][job[q].env.from] = AfterCheck(@, now)]
    BY <1>2 DEF Deny, RunHandler
<1>4. pc'[q] # "dispatch"
    BY <1>2, <1>3, RunEffect DEF Deny, Answer
<1>5. p = q /\ x = job[q].env.from
    BY <1>3
<1> QED
    BY <1>3, <1>4, <1>5 DEF WorkAuthentic

\* The order of verify_inbound and _dispatch, for every policy and every set of
\* envelopes: each nonce recorded and each token spent goes to a request at that
\* very step whose envelope its claimed sender signed for this node.
THEOREM ForgeriesLeaveNoTrace == Spec => NoTraceOfForgeries
<1>1. TInv /\ TrustInv /\ [Next]_vars =>
        /\ \A r \in nonces' \ nonces : \E p \in Procs :
             /\ pc[p] = "nonce" /\ pc'[p] # "nonce"
             /\ Authentic(job[p].env) /\ NonceRow(job[p].env) = r
        /\ \A p \in Procs, x \in Peers :
             buckets'[p][x] \notin {buckets[p][x], NoBucket} =>
                 /\ pc[p] = "dispatch" /\ pc'[p] # "dispatch"
                 /\ Authentic(job[p].env) /\ job[p].env.from = x
    BY NonceTrace, TokenTrace, Zenon DEF TrustInv
<1> QED
    BY Typed, TrustAlways, <1>1, PTL DEF Spec, NoTraceOfForgeries

-----------------------------------------------------------------------------
(* One process.                                                            *)

OneProcess == \A p, q \in Procs : p = q

Slot(e) == GetIdempotent(idempotent, e.from, e.key, now)

\* From the lookup to the store of a response its slot stays free.
SlotFree == \A p \in Procs : pc[p] \in {"dispatch", "put"} => Slot(job[p].env) = {}

\* A slot that is free stays free when rows or time go.
LEMMA StaysFree ==
    ASSUME TInv, NEW e \in Envelopes, Slot(e) = {},
           idempotent' \subseteq idempotent, now' \in Nat, now <= now'
    PROVE  Slot(e)' = {}
<1> SUFFICES ASSUME NEW r \in idempotent', SameSlot(r, e.from, e.key), Live(r, now')
             PROVE  FALSE
    BY DEF Slot, GetIdempotent
<1>1. r \in idempotent /\ r.expires \in Nat /\ now \in Nat
    BY DEF TInv, TypeOK
<1>2. Live(r, now)
    BY <1>1 DEF Live
<1> QED
    BY <1>1, <1>2 DEF Slot, GetIdempotent

\* No response is stored for an envelope without a key.
LEMMA KeylessSlot ==
    ASSUME TInv, NEW e \in Envelopes, e.key = NoKey
    PROVE  Slot(e) = {}
    BY DEF TInv, TypeOK, Slot, GetIdempotent, SameSlot

\* Which steps write the table, and what the others do to it and to the clock.
LEMMA RowsOnlyGo ==
    ASSUME TInv, [Next]_vars, \A p \in Procs : ~Put(p)
    PROVE  idempotent' \subseteq idempotent /\ now' \in Nat /\ now <= now'
<1> USE DEF TInv, TypeOK
<1>1. ASSUME NEW p, NEW e, NEW tool, Verify(p, e, tool) \/ Refuse(p, e, tool)
      PROVE  UNCHANGED <<idempotent, now>>
    BY <1>1 DEF Verify, Refuse, store
<1>2. ASSUME NEW p, NEW result, RunHandler(p, result)
      PROVE  UNCHANGED <<idempotent, now>>
    BY <1>2 DEF RunHandler, store
<1>3. ASSUME NEW p, \/ Replay(p) \/ Admit(p) \/ Lookup(p) \/ Deny(p)
                    \/ Find(p) \/ StoreBusy(p) \/ Respond(p)
      PROVE  UNCHANGED <<idempotent, now>>
    BY <1>3 DEF Replay, Admit, Lookup, Deny, Find, StoreBusy, Respond, store
<1>4. ASSUME NEW p, Crash(p) PROVE idempotent' \subseteq idempotent /\ now' = now
    BY <1>4, CrashedRows DEF Crash
<1>5. PurgeStore => idempotent' \subseteq idempotent /\ now' = now
    BY PurgedRows DEF PurgeStore
<1>6. Tick => idempotent' = idempotent /\ now' = now + 1
    BY DEF Tick, store
<1>7. UNCHANGED vars => UNCHANGED <<idempotent, now>>
    BY DEF vars
<1> QED
    BY <1>1, <1>2, <1>3, <1>4, <1>5, <1>6, <1>7 DEF Next, Step

LEMMA TableUntouched ==
    ASSUME [Next]_vars
    PROVE  \/ UNCHANGED idempotent
           \/ \E p \in Procs : Put(p) \/ Crash(p)
           \/ PurgeStore
<1>1. ASSUME NEW p, NEW e, NEW tool, Verify(p, e, tool) \/ Refuse(p, e, tool)
      PROVE  UNCHANGED idempotent
    BY <1>1 DEF Verify, Refuse, store
<1>2. ASSUME NEW p, NEW result, RunHandler(p, result)
      PROVE  UNCHANGED idempotent
    BY <1>2 DEF RunHandler, store
<1>3. ASSUME NEW p, \/ Replay(p) \/ Admit(p) \/ Lookup(p) \/ Deny(p)
                    \/ Find(p) \/ StoreBusy(p) \/ Respond(p)
      PROVE  UNCHANGED idempotent
    BY <1>3 DEF Replay, Admit, Lookup, Deny, Find, StoreBusy, Respond, store
<1>4. Tick \/ UNCHANGED vars => UNCHANGED idempotent
    BY DEF Tick, vars, store
<1> QED
    BY <1>1, <1>2, <1>3, <1>4 DEF Next, Step

\* How a process gets to dispatch or put.
LEMMA IntoDispatch ==
    ASSUME TInv, [Next]_vars, NEW p \in Procs, pc'[p] \in {"dispatch", "put"}
    PROVE  /\ job'[p] = job[p]
           /\ \/ pc[p] \in {"dispatch", "put"}
              \/ pc[p] = "lookup" /\ Slot(job[p].env) = {}
              \/ pc[p] = "nonce" /\ job[p].env.key = NoKey
<1> USE DEF TInv, TypeOK
<1>1. ASSUME NEW q \in Procs, NEW e, NEW tool, Verify(q, e, tool) \/ Refuse(q, e, tool)
      PROVE  q # p /\ job'[p] = job[p] /\ pc'[p] = pc[p]
    BY <1>1 DEF Verify, Refuse
<1>2. ASSUME NEW q \in Procs, Admit(q)
      PROVE  /\ job'[p] = job[p]
             /\ pc'[p] = pc[p] \/ (pc[p] = "nonce" /\ job[p].env.key = NoKey)
    BY <1>2 DEF Admit, Answer, Goto, AfterNonce
<1>3. ASSUME NEW q \in Procs, Lookup(q)
      PROVE  /\ job'[p] = job[p]
             /\ pc'[p] = pc[p] \/ (pc[p] = "lookup" /\ Slot(job[p].env) = {})
    BY <1>3 DEF Lookup, Answer, Goto, Slot
<1>4. ASSUME NEW q \in Procs, NEW result, RunHandler(q, result)
      PROVE  job'[p] = job[p] /\ pc[p] \in {"dispatch", "put"}
    BY <1>4, RunMoves
<1>5. ASSUME NEW q \in Procs,
             Replay(q) \/ Deny(q) \/ Put(q) \/ Find(q) \/ StoreBusy(q)
      PROVE  job'[p] = job[p] /\ pc'[p] = pc[p]
    BY <1>5 DEF Replay, Deny, Put, Find, StoreBusy, Answer, Goto
<1>6. ASSUME NEW q \in Procs, Respond(q) \/ Crash(q)
      PROVE  job'[p] = job[p] /\ pc'[p] = pc[p]
    BY <1>6 DEF Respond, Crash
<1>7. PurgeStore \/ Tick \/ UNCHANGED vars => job'[p] = job[p] /\ pc'[p] = pc[p]
    BY DEF PurgeStore, Tick, vars
<1> QED
    BY <1>1, <1>2, <1>3, <1>4, <1>5, <1>6, <1>7 DEF Next, Step

LEMMA FreeStep ==
    ASSUME OneProcess, TInv, SlotFree, [Next]_vars
    PROVE  SlotFree'
<1> SUFFICES ASSUME NEW p \in Procs, pc'[p] \in {"dispatch", "put"}
             PROVE  Slot(job[p].env)' = {}
    BY IntoDispatch DEF SlotFree
<1>1. pc[p] # "idle" /\ Slot(job[p].env) = {}
    BY IntoDispatch, JobFacts, KeylessSlot DEF SlotFree
<1>2. \A q \in Procs : ~Put(q)
    BY DEF OneProcess, Put, Answer, TInv, TypeOK
<1>3. idempotent' \subseteq idempotent /\ now' \in Nat /\ now <= now'
    BY <1>2, RowsOnlyGo
<1>4. job'[p] = job[p] /\ job[p].env \in Envelopes
    BY <1>1, IntoDispatch, JobFacts
<1> QED
    BY <1>1, <1>3, <1>4, StaysFree DEF Slot

\* _dispatch with one process: from the lookup of a slot to the storing of its
\* response nothing is stored in it.
THEOREM FreeAlways == ASSUME OneProcess PROVE Spec => []SlotFree
<1>1. Init => SlotFree
    BY DEF Init, SlotFree
<1>2. TInv /\ SlotFree /\ [Next]_vars => SlotFree'
    BY FreeStep
<1> QED
    BY Typed, <1>1, <1>2, PTL DEF Spec

\* _dispatch with one process, whatever crashed, timed out or was purged: a
\* handler is never about to run for a slot whose response is stored.
THEOREM NeverRerun == ASSUME OneProcess PROVE Spec => []NoRerunOnceStored
<1>1. SlotFree => NoRerunOnceStored
    BY DEF SlotFree, NoRerunOnceStored, Slot
<1> QED
    BY FreeAlways, <1>1, PTL

\* A stored response is only replaced when its time is over.
LEMMA PutKeepsLive ==
    ASSUME TInv, SlotFree, NEW p \in Procs, Put(p),
           NEW r \in idempotent, r.expires > now
    PROVE  r \in idempotent'
<1> DEFINE e == job[p].env
<1>1. Slot(e) = {} /\ e \in Envelopes
    BY JobFacts DEF SlotFree, Put
<1>2. Live(r, now)
    BY DEF Live, TInv, TypeOK
<1>3. ~SameSlot(r, e.from, e.key)
    BY <1>1, <1>2 DEF Slot, GetIdempotent
<1> QED
    BY <1>3 DEF Put, PutIdempotent

LEMMA LiveKept ==
    ASSUME OneProcess, Backend = "sqlite", TInv, SlotFree, [Next]_vars,
           NEW r \in idempotent, r.expires > now
    PROVE  r \in idempotent'
<1>1. CASE \E p \in Procs : Put(p)
    BY <1>1, PutKeepsLive
<1>2. CASE PurgeStore
    BY <1>2 DEF PurgeStore, Purge
<1>3. CASE \E p \in Procs : Crash(p)
    BY <1>3 DEF Crash, AfterCrash
<1>4. CASE UNCHANGED idempotent
    BY <1>4
<1> QED
    BY <1>1, <1>2, <1>3, <1>4, TableUntouched

\* put_idempotent and purge on a SqliteStore with one process: a stored
\* response neither disappears nor is replaced before it expires.
THEOREM LiveReceiptsStay ==
    ASSUME OneProcess, Backend = "sqlite" PROVE Spec => LiveReceiptKept
<1>1. TInv /\ SlotFree /\ [Next]_vars =>
        \A r \in idempotent : r.expires > now => r \in idempotent'
    BY LiveKept
<1> QED
    BY Typed, FreeAlways, <1>1, PTL DEF Spec, LiveReceiptKept

-----------------------------------------------------------------------------
(* The handler runs once for a slot.                                       *)

\* A run by p of the handler for e whose slot is taken until end is covered:
\* that time is over, or its response waits to be stored by p, or it is stored
\* (or one that took its place).
Covered(p, e, end) ==
    \/ end <= now
    \/ pc[p] = "put" /\ job[p].env = e
    \/ \E r \in idempotent : SameSlot(r, e.from, e.key) /\ r.expires >= end

RunsPast == \A i \in DOMAIN handled : handled[i].at <= now

RunsCovered ==
    \A i \in DOMAIN handled : LET run == handled[i] IN
        run.env.key # NoKey => Covered(run.by, run.env, run.at + IdemTtl)

\* When a process is about to run a handler, its own runs for the slot are over.
OwnRunsOver ==
    \A p \in Procs : pc[p] = "dispatch" =>
        \A i \in DOMAIN handled :
            handled[i].by = p /\ SharesSlot(handled[i].env, job[p].env)
                => handled[i].at + IdemTtl <= now

Unfailed == crashes = 0 /\ busy = 0

OnceInv == /\ RunsPast
           /\ Unfailed => RunsCovered /\ OwnRunsOver
           /\ OncePerProcess

LEMMA StillUnfailed ==
    ASSUME TInv, [Next]_vars, Unfailed'
    PROVE  Unfailed /\ \A p \in Procs : ~Crash(p) /\ ~StoreBusy(p)
<1> USE DEF TInv, TypeOK, Unfailed
<1>1. ASSUME NEW p, NEW e, NEW tool, Verify(p, e, tool) \/ Refuse(p, e, tool)
      PROVE  UNCHANGED <<crashes, busy>>
    BY <1>1 DEF Verify, Refuse
<1>2. ASSUME NEW p, NEW result, RunHandler(p, result)
      PROVE  UNCHANGED <<crashes, busy>>
    BY <1>2 DEF RunHandler, bounds
<1>3. ASSUME NEW p, \/ Replay(p) \/ Admit(p) \/ Lookup(p) \/ Deny(p)
                    \/ Put(p) \/ Find(p) \/ Respond(p)
      PROVE  UNCHANGED <<crashes, busy>>
    BY <1>3 DEF Replay, Admit, Lookup, Deny, Put, Find, Respond, bounds
<1>4. \A p : ~Crash(p) /\ ~StoreBusy(p)
    BY DEF Crash, StoreBusy
<1>5. PurgeStore \/ Tick \/ UNCHANGED vars => UNCHANGED <<crashes, busy>>
    BY DEF PurgeStore, Tick, vars, bounds
<1> QED
    BY <1>1, <1>2, <1>3, <1>4, <1>5 DEF Next, Step

\* What a process whose request is under way may do next; another process, the
\* clock and purge leave it where it is.
LEMMA OwnSteps ==
    ASSUME TInv, [Next]_vars, NEW p \in Procs, pc[p] # "idle"
    PROVE  \/ UNCHANGED <<pc[p], job[p]>>
           \/ Step(p) \/ Crash(p)
<1> USE DEF TInv, TypeOK
<1>1. ASSUME NEW q \in Procs, q # p, NEW e, NEW tool, Verify(q, e, tool) \/ Refuse(q, e, tool)
      PROVE  UNCHANGED <<pc[p], job[p]>>
    BY <1>1 DEF Verify, Refuse
<1>2. ASSUME NEW q \in Procs, q # p, NEW result, RunHandler(q, result)
      PROVE  UNCHANGED <<pc[p], job[p]>>
    BY <1>2, RunMoves
<1>3. ASSUME NEW q \in Procs, q # p, \/ Replay(q) \/ Admit(q) \/ Lookup(q) \/ Deny(q)
                                     \/ Put(q) \/ Find(q) \/ StoreBusy(q)
      PROVE  UNCHANGED <<pc[p], job[p]>>
    BY <1>3 DEF Replay, Admit, Lookup, Deny, Put, Find, StoreBusy, Answer, Goto
<1>4. ASSUME NEW q \in Procs, q # p, Respond(q) \/ Crash(q)
      PROVE  UNCHANGED <<pc[p], job[p]>>
    BY <1>4 DEF Respond, Crash
<1>5. \A e, tool : ~Verify(p, e, tool) /\ ~Refuse(p, e, tool)
    BY DEF Verify, Refuse
<1>6. PurgeStore \/ Tick \/ UNCHANGED vars => UNCHANGED <<pc[p], job[p]>>
    BY DEF PurgeStore, Tick, vars
<1> QED
    BY <1>1, <1>2, <1>3, <1>4, <1>5, <1>6 DEF Next, Step

\* A process that has a response to store does nothing else first.
LEMMA PutIsNext ==
    ASSUME TInv, [Next]_vars, Unfailed', NEW p \in Procs, pc[p] = "put"
    PROVE  Put(p) \/ UNCHANGED <<pc[p], job[p]>>
<1>1. ~Crash(p) /\ ~StoreBusy(p)
    BY StillUnfailed
<1>2. /\ ~Replay(p) /\ ~Admit(p) /\ ~Lookup(p) /\ ~Deny(p) /\ ~Find(p) /\ ~Respond(p)
      /\ \A result : ~RunHandler(p, result)
    BY DEF Replay, Admit, Lookup, Deny, Find, Respond, RunHandler
<1> QED
    BY <1>1, <1>2, OwnSteps DEF Step

\* A stored response is stored for idempotency_ttl_seconds.
LEMMA PutCovers ==
    ASSUME TInv, NEW q \in Procs, Put(q), NEW p, NEW e, NEW end \in Int,
           end <= now + IdemTtl, job[q].env.from = e.from, job[q].env.key = e.key
    PROVE  Covered(p, e, end)'
<1> DEFINE f == job[q].env
           row == [peer |-> f.from, key |-> f.key, ref |-> f.id,
                   expires |-> now + IdemTtl,
                   type |-> reply[q].type, status |-> reply[q].status]
<1>1. row \in idempotent'
    BY DEF Put, PutIdempotent
<1>2. SameSlot(row, e.from, e.key) /\ row.expires >= end
    BY DEF SameSlot
<1> HIDE DEF row
<1> QED
    BY <1>1, <1>2 DEF Covered

LEMMA TimePasses ==
    ASSUME TInv, [Next]_vars
    PROVE  now' \in Nat /\ now <= now'
<1>1. CASE \E p \in Procs : Put(p)
    BY <1>1 DEF Put, TInv, TypeOK
<1> QED
    BY <1>1, RowsOnlyGo

\* Covered runs stay covered, whatever the other processes store.
LEMMA CoverKept ==
    ASSUME TInv, [Next]_vars, Unfailed', NEW p \in Procs, NEW e, NEW end \in Int,
           end <= now + IdemTtl, Covered(p, e, end)
    PROVE  Covered(p, e, end)'
<1> USE DEF TInv, TypeOK
<1>1. now' \in Nat /\ now <= now'
    BY TimePasses
<1>2. CASE end <= now
    BY <1>1, <1>2 DEF Covered
<1>3. CASE pc[p] = "put" /\ job[p].env = e
    <2>1. CASE Put(p)
        BY <1>3, <2>1, PutCovers
    <2>2. CASE UNCHANGED <<pc[p], job[p]>>
        BY <1>3, <2>2 DEF Covered
    <2> QED
        BY <1>3, <2>1, <2>2, PutIsNext
<1>4. ASSUME NEW r \in idempotent, SameSlot(r, e.from, e.key), r.expires >= end
      PROVE  Covered(p, e, end)'
    <2>1. CASE UNCHANGED idempotent
        BY <1>4, <2>1 DEF Covered
    <2>2. CASE PurgeStore
        <3>1. r \in idempotent' \/ end <= now'
            BY <1>4, <2>2 DEF PurgeStore, Purge
        <3> QED
            BY <1>4, <3>1 DEF Covered
    <2>3. ASSUME NEW q \in Procs, Put(q) PROVE Covered(p, e, end)'
        <3>1. CASE job[q].env.from = e.from /\ job[q].env.key = e.key
            BY <2>3, <3>1, PutCovers
        <3>2. r \in idempotent' \/ SameSlot(r, job[q].env.from, job[q].env.key)
            BY <2>3 DEF Put, PutIdempotent
        <3> QED
            BY <1>4, <3>1, <3>2 DEF Covered, SameSlot
    <2> QED
        BY <2>1, <2>2, <2>3, TableUntouched, StillUnfailed
<1> QED
    BY <1>2, <1>3, <1>4 DEF Covered

\* Only a handler run adds to the observer.
LEMMA HandledUntouched ==
    ASSUME [Next]_vars
    PROVE  UNCHANGED handled \/ \E p \in Procs : \E result : RunHandler(p, result)
<1>1. ASSUME NEW p, NEW e, NEW tool, Verify(p, e, tool) \/ Refuse(p, e, tool)
      PROVE  UNCHANGED handled
    BY <1>1 DEF Verify, Refuse, observed
<1>2. ASSUME NEW p, \/ Replay(p) \/ Admit(p) \/ Lookup(p) \/ Deny(p) \/ Put(p)
                    \/ Find(p) \/ StoreBusy(p) \/ Respond(p) \/ Crash(p)
      PROVE  UNCHANGED handled
    BY <1>2 DEF Replay, Admit, Lookup, Deny, Put, Find, StoreBusy, Respond, Crash, observed
<1>3. PurgeStore \/ Tick \/ UNCHANGED vars => UNCHANGED handled
    BY DEF PurgeStore, Tick, vars, observed
<1> QED
    BY <1>1, <1>2, <1>3 DEF Next, Step

\* The entries of the observer.
LEMMA RunFacts ==
    ASSUME TInv, NEW i \in DOMAIN handled
    PROVE  /\ handled[i].env \in Envelopes /\ handled[i].by \in Procs
           /\ handled[i].at \in Nat /\ handled[i].at + IdemTtl \in Int
<1>1. handled \in Seq([env : Envelopes, at : Nat, by : Procs])
    BY DEF TInv, TypeOK
<1>2. handled[i] \in [env : Envelopes, at : Nat, by : Procs]
    BY <1>1, ElementOfSeq
<1> QED
    BY <1>2, NodeAssumption

\* A step keeps every entry and adds at most one, at the end.
LEMMA LastRun ==
    ASSUME TInv, [Next]_vars
    PROVE  /\ \A i \in DOMAIN handled : i \in DOMAIN handled' /\ handled'[i] = handled[i]
           /\ \A i, j \in DOMAIN handled' :
                  i < j => i \in DOMAIN handled /\ handled'[i] = handled[i]
           /\ \A i \in DOMAIN handled' :
                  \/ i \in DOMAIN handled /\ handled'[i] = handled[i]
                  \/ \E p \in Procs : /\ handled'[i] = [env |-> job[p].env, at |-> now, by |-> p]
                                      /\ pc[p] = "dispatch" /\ handled' # handled
                                      /\ \E result : RunHandler(p, result)
<1>0. handled \in Seq([env : Envelopes, at : Nat, by : Procs])
    BY DEF TInv, TypeOK
<1>1. CASE UNCHANGED handled
    BY <1>0, <1>1
<1>2. ASSUME NEW p \in Procs, NEW result, RunHandler(p, result), handled' # handled
      PROVE  /\ pc[p] = "dispatch"
             /\ handled' = Append(handled, [env |-> job[p].env, at |-> now, by |-> p])
             /\ [env |-> job[p].env, at |-> now, by |-> p]
                    \in [env : Envelopes, at : Nat, by : Procs]
    BY <1>2, JobFacts DEF RunHandler, TInv, TypeOK
<1>3. ASSUME NEW run \in [env : Envelopes, at : Nat, by : Procs],
             handled' = Append(handled, run)
      PROVE  /\ \A i \in DOMAIN handled : i \in DOMAIN handled' /\ handled'[i] = handled[i]
             /\ \A i, j \in DOMAIN handled' :
                    i < j => i \in DOMAIN handled /\ handled'[i] = handled[i]
             /\ \A i \in DOMAIN handled' :
                    (i \in DOMAIN handled /\ handled'[i] = handled[i]) \/ handled'[i] = run
    BY <1>0, <1>3
<1>4. ASSUME NEW p \in Procs, NEW result, RunHandler(p, result), handled' # handled
      PROVE  /\ \A i \in DOMAIN handled : i \in DOMAIN handled' /\ handled'[i] = handled[i]
             /\ \A i, j \in DOMAIN handled' :
                    i < j => i \in DOMAIN handled /\ handled'[i] = handled[i]
             /\ \A i \in DOMAIN handled' :
                    \/ i \in DOMAIN handled /\ handled'[i] = handled[i]
                    \/ handled'[i] = [env |-> job[p].env, at |-> now, by |-> p]
    BY <1>2, <1>3, <1>4
<1>5. CASE handled' # handled
    <2>1. PICK p \in Procs : \E result : RunHandler(p, result)
        BY <1>5, HandledUntouched
    <2>2. PICK result : RunHandler(p, result)
        BY <2>1
    <2> QED
        BY <1>2, <1>4, <1>5, <2>2
<1> QED
    BY <1>1, <1>5

LEMMA RunsPastStep ==
    ASSUME TInv, RunsPast, [Next]_vars
    PROVE  RunsPast'
<1> SUFFICES ASSUME NEW i \in DOMAIN handled' PROVE handled'[i].at <= now'
    BY DEF RunsPast
<1>1. now' \in Nat /\ now <= now' /\ now \in Nat
    BY TimePasses DEF TInv, TypeOK
<1>2. CASE i \in DOMAIN handled /\ handled'[i] = handled[i]
    BY <1>1, <1>2, RunFacts DEF RunsPast
<1>3. CASE handled'[i].at = now
    BY <1>1, <1>3
<1> QED
    BY <1>2, <1>3, LastRun

\* No handler answers an envelope that has an idempotency key with a handshake,
\* which would be returned but not stored.
NoHandshakes ==
    \A e \in Envelopes : e.key # NoKey => "handshake" \notin Handlers[e.type]

\* A handler run without failures is covered: its response waits to be stored.
LEMMA RunIsCovered ==
    ASSUME TInv, NoHandshakes,
           NEW p \in Procs, NEW result, RunHandler(p, result), handled' # handled,
           NEW e, NEW end, e = job[p].env, e.key # NoKey
    PROVE  Covered(p, e, end)'
<1>1. result \in Outcomes \ {"raise", "error", "handshake"}
    <2>1. result \in Handlers[e.type] /\ e \in Envelopes
        BY RunEffect, JobFacts
    <2>2. result \in Outcomes /\ result # "handshake"
        BY <2>1, NodeAssumption DEF NoHandshakes
    <2> QED
        BY <2>2 DEF RunHandler
<1>2. pc'[p] = "put" /\ job' = job
    BY <1>1, RunEffect, HandledStorable DEF TInv, TypeOK
<1> QED
    BY <1>2 DEF Covered

LEMMA CoveredStep ==
    ASSUME NoHandshakes,
           TInv, RunsPast, RunsCovered, [Next]_vars, Unfailed'
    PROVE  RunsCovered'
<1> SUFFICES ASSUME NEW i \in DOMAIN handled', NEW p, NEW e, NEW end,
                    p = handled'[i].by, e = handled'[i].env,
                    end = handled'[i].at + IdemTtl, e.key # NoKey
             PROVE  Covered(p, e, end)'
    BY DEF RunsCovered
<1>1. CASE i \in DOMAIN handled /\ handled'[i] = handled[i]
    <2>1. p \in Procs /\ end \in Int /\ Covered(p, e, end)
        BY <1>1, RunFacts DEF RunsCovered
    <2>2. end <= now + IdemTtl
        <3>1. handled[i].at <= now /\ handled[i].at \in Nat
            BY <1>1, RunFacts DEF RunsPast
        <3>2. now \in Nat /\ IdemTtl \in Nat
            BY NodeAssumption DEF TInv, TypeOK
        <3> QED
            BY <1>1, <3>1, <3>2
    <2> QED
        BY <2>1, <2>2, CoverKept
<1>2. ASSUME NEW q \in Procs, NEW result, RunHandler(q, result), handled' # handled,
             handled'[i] = [env |-> job[q].env, at |-> now, by |-> q]
      PROVE  Covered(p, e, end)'
    <2>1. p = q /\ e = job[q].env
        BY <1>2
    <2> QED
        BY <1>2, <2>1, RunIsCovered
<1> QED
    BY <1>1, <1>2, LastRun

\* At a slot that is found free, the time of every covered run is over.
LEMMA FreeSlotIsOver ==
    ASSUME TInv, NEW p \in Procs, pc[p] = "lookup", NEW f, Slot(f) = {},
           NEW e, NEW end \in Int, Covered(p, e, end), SharesSlot(e, f)
    PROVE  end <= now
<1>1. ASSUME NEW r \in idempotent, SameSlot(r, e.from, e.key), r.expires >= end
      PROVE  end <= now
    <2>1. ~Live(r, now)
        BY <1>1 DEF Slot, GetIdempotent, SharesSlot, SameSlot
    <2> QED
        BY <1>1, <2>1 DEF Live, TInv, TypeOK
<1> QED
    BY <1>1 DEF Covered

LEMMA OwnRunsStep ==
    ASSUME TInv, RunsCovered, OwnRunsOver, [Next]_vars, Unfailed'
    PROVE  OwnRunsOver'
<1> SUFFICES ASSUME NEW p \in Procs, pc'[p] = "dispatch", NEW i \in DOMAIN handled',
                    handled'[i].by = p, SharesSlot(handled'[i].env, job'[p].env)
             PROVE  handled'[i].at + IdemTtl <= now'
    BY DEF OwnRunsOver, SharesSlot
<1>1. /\ job'[p] = job[p]
      /\ \/ pc[p] \in {"dispatch", "put"}
         \/ pc[p] = "lookup" /\ Slot(job[p].env) = {}
         \/ pc[p] = "nonce" /\ job[p].env.key = NoKey
    BY IntoDispatch
<1>2. i \in DOMAIN handled /\ handled'[i] = handled[i]
    <2>1. ASSUME NEW result, RunHandler(p, result) PROVE FALSE
        <3>1. pc' = [pc EXCEPT ![p] = "put"] \/ pc' = [pc EXCEPT ![p] = "reply"]
            BY <2>1, RunMoves
        <3>2. pc \in [Procs -> Steps]
            BY DEF TInv, TypeOK
        <3> QED
            BY <3>1, <3>2
    <2> QED
        BY <2>1, LastRun
<1>3. /\ now' \in Nat /\ now <= now' /\ now \in Nat
      /\ handled[i].at + IdemTtl \in Int
    BY <1>2, TimePasses, RunFacts DEF TInv, TypeOK
<1>4. CASE pc[p] = "dispatch"
    BY <1>1, <1>2, <1>3, <1>4 DEF OwnRunsOver
<1>5. pc[p] # "put"
    BY PutIsNext DEF Put, Answer, TInv, TypeOK
<1>6. CASE pc[p] = "lookup" /\ Slot(job[p].env) = {}
    <2>1. Covered(p, handled[i].env, handled[i].at + IdemTtl)
        BY <1>1, <1>2 DEF RunsCovered, SharesSlot
    <2> QED
        BY <1>1, <1>2, <1>3, <1>6, <2>1, FreeSlotIsOver
<1> QED
    BY <1>1, <1>4, <1>5, <1>6 DEF SharesSlot

LEMMA OnceStep ==
    ASSUME NoHandshakes, TInv, OnceInv, [Next]_vars
    PROVE  OnceInv'
<1>1. RunsPast'
    BY RunsPastStep DEF OnceInv
<1>2. ASSUME Unfailed' PROVE RunsCovered' /\ OwnRunsOver'
    BY <1>2, StillUnfailed, CoveredStep, OwnRunsStep DEF OnceInv
<1>3. ASSUME Unfailed', NEW i \in DOMAIN handled', NEW j \in DOMAIN handled', i < j,
             handled'[i].by = handled'[j].by, SharesSlot(handled'[i].env, handled'[j].env)
      PROVE  handled'[j].at >= handled'[i].at + IdemTtl
    <2>1. i \in DOMAIN handled /\ handled'[i] = handled[i]
        BY <1>3, LastRun
    <2>2. CASE j \in DOMAIN handled /\ handled'[j] = handled[j]
        BY <1>3, <2>1, <2>2, StillUnfailed DEF OnceInv, OncePerProcess, Unfailed
    <2>3. ASSUME NEW p \in Procs, pc[p] = "dispatch",
                 handled'[j] = [env |-> job[p].env, at |-> now, by |-> p]
          PROVE  handled'[j].at >= handled'[i].at + IdemTtl
        <3>1. OwnRunsOver
            BY <1>3, StillUnfailed DEF OnceInv
        <3>2. handled[i].at + IdemTtl <= now
            BY <1>3, <2>1, <2>3, <3>1 DEF OwnRunsOver
        <3> QED
            BY <2>1, <2>3, <3>2, RunFacts DEF TInv, TypeOK
    <2> QED
        BY <2>2, <2>3, LastRun
<1>4. OncePerProcess'
    BY <1>3 DEF OncePerProcess, Unfailed, SharesSlot
<1> QED
    BY <1>1, <1>2, <1>4 DEF OnceInv

\* _dispatch over a shared store, any number of processes, envelopes, retries
\* and tools: while nothing fails, no process runs a slot's handler twice in
\* idempotency_ttl_seconds.
THEOREM HandledOncePerProcess ==
    ASSUME NoHandshakes
    PROVE  Spec => []OncePerProcess
<1>1. Init => OnceInv
    BY DEF Init, OnceInv, RunsPast, RunsCovered, OwnRunsOver, OncePerProcess
<1>2. TInv /\ OnceInv /\ [Next]_vars => OnceInv'
    BY OnceStep
<1>3. OnceInv => OncePerProcess
    BY DEF OnceInv
<1> QED
    BY Typed, <1>1, <1>2, <1>3, PTL DEF Spec

\* docs/PROTOCOL.md:143-150 for one process, any envelopes, retries and tools:
\* while nothing fails, the handler of a slot runs once in its time.
THEOREM HandledOnce ==
    ASSUME OneProcess, NoHandshakes
    PROVE  Spec => []EffectivelyOnce
<1>1. ASSUME TInv, OncePerProcess PROVE EffectivelyOnce
    BY <1>1, RunFacts DEF OneProcess, OncePerProcess, EffectivelyOnce
<1> QED
    BY Typed, HandledOncePerProcess, <1>1, PTL

-----------------------------------------------------------------------------
(* The rate of handler runs.                                               *)

\* What n starts of a process, and its clock, allow a peer.
Allowance(n, span) == (n + 1) * Capacity + span * Rate

\* Potential argument: the runs since any second, and the tokens still there.
RunsPaid ==
    \A p \in Procs, x \in Peers : \A from \in 0..now :
        TokenUnit * Cardinality(RunsIn(p, x, from, now)) + Refilled(buckets[p][x], now).tokens
            <= Allowance(crashes, now - from)

\* A bucket is never overdrawn, since the node's clock does not go back.
Solvent == \A p \in Procs, x \in Peers : Refilled(buckets[p][x], now).tokens >= 0

RateInv == RunsPast /\ Solvent /\ RunsPaid /\ RunsWithinRate

\* One more start is worth a full bucket, one more second a refill.
LEMMA AllowanceSteps ==
    ASSUME NEW n \in Nat, NEW span \in Nat
    PROVE  /\ Allowance(n, span) \in Int
           /\ Capacity <= Allowance(n, span)
           /\ Allowance(n + 1, span) = Allowance(n, span) + Capacity
           /\ Allowance(n, span + 1) = Allowance(n, span) + Rate
<1>1. Capacity \in Nat /\ Rate \in Nat
    BY Settings
<1>2. /\ n * Capacity \in Nat /\ (n + 1) * Capacity = n * Capacity + Capacity
      /\ (n + 1) + 1 = n + 2 /\ (n + 2) * Capacity = n * Capacity + Capacity + Capacity
    BY <1>1, SMT
<1>3. span * Rate \in Nat /\ (span + 1) * Rate = span * Rate + Rate
    BY OneSecond
<1> QED
    BY <1>1, <1>2, <1>3 DEF Allowance

\* A set of entries of the observer is finite.
LEMMA FiniteRuns ==
    ASSUME NEW h \in Seq([env : Envelopes, at : Nat, by : Procs]), NEW S \in SUBSET DOMAIN h
    PROVE  IsFiniteSet(S) /\ Cardinality(S) \in Nat
<1>1. DOMAIN h = 1..Len(h) /\ Len(h) \in Nat
    OBVIOUS
<1>2. IsFiniteSet(DOMAIN h)
    BY <1>1, FS_Interval
<1>3. IsFiniteSet(S)
    BY <1>2, FS_Subset
<1> QED
    BY <1>3, FS_CardinalityType

LEMMA RunsCount ==
    ASSUME TInv, NEW p, NEW x, NEW from, NEW to
    PROVE  /\ IsFiniteSet(RunsIn(p, x, from, to))
           /\ Cardinality(RunsIn(p, x, from, to)) \in Nat
<1>1. handled \in Seq([env : Envelopes, at : Nat, by : Procs])
    BY DEF TInv, TypeOK
<1>2. RunsIn(p, x, from, to) \subseteq DOMAIN handled
    BY DEF RunsIn
<1> QED
    BY <1>1, <1>2, FiniteRuns

LEMMA BucketFacts ==
    ASSUME TInv, NEW p \in Procs, NEW x \in Peers
    PROVE  /\ buckets[p][x] \in Bucket \cup {NoBucket} /\ now \in Nat
           /\ Refilled(buckets[p][x], now).tokens \in Int
           /\ Refilled(buckets[p][x], now).tokens <= Capacity
<1>1. buckets[p][x] \in Bucket \cup {NoBucket} /\ now \in Nat
    BY DEF TInv, TypeOK
<1> QED
    BY <1>1, RefilledBucket DEF Bucket

\* Between two crashes of a process, and while the clock stands still, a step
\* takes from a bucket the token it uses.
LEMMA SpendStep ==
    ASSUME TInv, RunsPast, Solvent, RunsPaid, NEW p \in Procs,
           NEW result, Deny(p) \/ RunHandler(p, result)
    PROVE  Solvent' /\ RunsPaid'
<1> DEFINE x == job[p].env.from
           b == buckets[p][x]
<1>1. pc[p] = "dispatch" /\ x \in Peers /\ job[p].env \in Envelopes
    BY JobFacts DEF Deny, RunHandler
<1>2. /\ now' = now /\ crashes' = crashes
      /\ buckets' = [buckets EXCEPT ![p][x] = AfterCheck(@, now)]
    BY DEF Deny, RunHandler, bounds
<1>3. \A q \in Procs, y \in Peers :
          buckets'[q][y] = IF q = p /\ y = x THEN AfterCheck(b, now) ELSE buckets[q][y]
    BY <1>1, <1>2 DEF TInv, TypeOK
<1>4. /\ b \in Bucket \cup {NoBucket} /\ now \in Nat
      /\ Refilled(b, now).tokens \in Int
      /\ Refilled(AfterCheck(b, now), now).tokens
            = IF HasToken(b, now) THEN Refilled(b, now).tokens - TokenUnit
                                  ELSE Refilled(b, now).tokens
    BY <1>1, BucketFacts, Checked
<1>5. Solvent'
    BY <1>1, <1>2, <1>3, <1>4 DEF Solvent, HasToken, TokenUnit
<1>6. ASSUME UNCHANGED handled, NEW q \in Procs, NEW y \in Peers, NEW from \in 0..now
      PROVE  TokenUnit * Cardinality(RunsIn(q, y, from, now)')
                + Refilled(buckets'[q][y], now).tokens <= Allowance(crashes, now - from)
    <2>1. RunsIn(q, y, from, now)' = RunsIn(q, y, from, now)
        BY <1>2, <1>6 DEF RunsIn
    <2> DEFINE n == Cardinality(RunsIn(q, y, from, now))
    <2>2. /\ n \in Nat
          /\ TokenUnit * n + Refilled(buckets[q][y], now).tokens
                <= Allowance(crashes, now - from)
        BY <1>6, RunsCount DEF RunsPaid
    <2>3. /\ Refilled(buckets'[q][y], now).tokens \in Int
          /\ Refilled(buckets[q][y], now).tokens \in Int
          /\ Refilled(buckets'[q][y], now).tokens <= Refilled(buckets[q][y], now).tokens
        BY <1>1, <1>3, <1>4, BucketFacts DEF TokenUnit
    <2>4. Allowance(crashes, now - from) \in Int
        BY <1>4, AllowanceSteps DEF TInv, TypeOK
    <2> HIDE DEF n
    <2> QED
        BY <2>1, <2>2, <2>3, <2>4 DEF TokenUnit, n
<1>7. ASSUME handled' # handled, NEW q \in Procs, NEW y \in Peers, NEW from \in 0..now
      PROVE  TokenUnit * Cardinality(RunsIn(q, y, from, now)')
                + Refilled(buckets'[q][y], now).tokens <= Allowance(crashes, now - from)
    <2> DEFINE last == Len(handled) + 1
               n == Cardinality(RunsIn(q, y, from, now))
    <2>1. /\ HasToken(b, now)
          /\ handled' = Append(handled, [env |-> job[p].env, at |-> now, by |-> p])
        BY <1>7 DEF RunHandler, Deny, observed
    <2>2. handled \in Seq([env : Envelopes, at : Nat, by : Procs])
        BY DEF TInv, TypeOK
    <2>3. [env |-> job[p].env, at |-> now, by |-> p] \in [env : Envelopes, at : Nat, by : Procs]
        BY <1>1, <1>4
    <2>4. /\ DOMAIN handled' = DOMAIN handled \cup {last} /\ last \notin DOMAIN handled
          /\ \A i \in DOMAIN handled : handled'[i] = handled[i]
          /\ handled'[last] = [env |-> job[p].env, at |-> now, by |-> p]
        BY <2>1, <2>2, <2>3, AppendedLast
    <2> HIDE DEF last
    <2>5. /\ handled'[last].env = job[p].env /\ handled'[last].at = now
          /\ handled'[last].by = p
        BY <2>4
    <2>6. from <= now /\ now <= now
        BY <1>4, <1>7
    <2>7. RunsIn(q, y, from, now)' = IF q = p /\ y = x THEN RunsIn(q, y, from, now) \cup {last}
                                     ELSE RunsIn(q, y, from, now)
        BY <1>2, <2>4, <2>5, <2>6 DEF RunsIn
    <2>8. last \notin RunsIn(q, y, from, now)
        BY <2>4 DEF RunsIn
    <2>9. /\ n \in Nat
          /\ Cardinality(RunsIn(q, y, from, now)') = IF q = p /\ y = x THEN n + 1 ELSE n
        BY <2>7, <2>8, RunsCount, FS_AddElement
    <2>10. /\ TokenUnit * n + Refilled(buckets[q][y], now).tokens
                <= Allowance(crashes, now - from)
           /\ Refilled(buckets[q][y], now).tokens \in Int
           /\ Allowance(crashes, now - from) \in Int
        <3>1. now - from \in Nat /\ crashes \in Nat
            BY <1>4, <1>7 DEF TInv, TypeOK
        <3> QED
            BY <1>7, <3>1, BucketFacts, AllowanceSteps DEF RunsPaid
    <2> HIDE DEF n
    <2>11. Refilled(buckets'[q][y], now).tokens
              = IF q = p /\ y = x THEN Refilled(buckets[q][y], now).tokens - TokenUnit
                ELSE Refilled(buckets[q][y], now).tokens
        BY <1>3, <1>4, <2>1
    <2> QED
        BY <2>9, <2>10, <2>11 DEF TokenUnit
<1>8. RunsPaid'
    BY <1>2, <1>6, <1>7 DEF RunsPaid, Allowance
<1> QED
    BY <1>5, <1>8

LEMMA CrashRate ==
    ASSUME TInv, Solvent, RunsPaid, NEW p \in Procs, Crash(p)
    PROVE  Solvent' /\ RunsPaid'
<1>1. /\ now' = now /\ crashes' = crashes + 1 /\ UNCHANGED handled
      /\ now \in Nat /\ crashes \in Nat
    BY DEF Crash, observed, TInv, TypeOK
<1>2. \A q \in Procs, y \in Peers :
          buckets'[q][y] = IF q = p THEN NoBucket ELSE buckets[q][y]
    BY DEF Crash, TInv, TypeOK
<1>3. Refilled(NoBucket, now).tokens = Capacity /\ Capacity \in Nat
    BY Settings DEF Refilled
<1>4. Solvent'
    BY <1>1, <1>2, <1>3 DEF Solvent
<1>5. ASSUME NEW q \in Procs, NEW y \in Peers, NEW from \in 0..now
      PROVE  TokenUnit * Cardinality(RunsIn(q, y, from, now)')
                + Refilled(buckets'[q][y], now).tokens <= Allowance(crashes + 1, now - from)
    <2> DEFINE n == Cardinality(RunsIn(q, y, from, now))
    <2>1. RunsIn(q, y, from, now)' = RunsIn(q, y, from, now)
        BY <1>1 DEF RunsIn
    <2>2. /\ n \in Nat
          /\ TokenUnit * n + Refilled(buckets[q][y], now).tokens
                <= Allowance(crashes, now - from)
          /\ Refilled(buckets[q][y], now).tokens \in Int
          /\ Refilled(buckets[q][y], now).tokens >= 0
        BY <1>5, RunsCount, BucketFacts DEF RunsPaid, Solvent
    <2>3. /\ Allowance(crashes, now - from) \in Int
          /\ Allowance(crashes + 1, now - from) = Allowance(crashes, now - from) + Capacity
        BY <1>1, AllowanceSteps
    <2> HIDE DEF n
    <2> QED
        BY <1>2, <1>3, <2>1, <2>2, <2>3 DEF TokenUnit, n
<1>6. RunsPaid'
    BY <1>1, <1>5 DEF RunsPaid, Allowance
<1> QED
    BY <1>4, <1>6

LEMMA TickRate ==
    ASSUME TInv, RunsPast, Solvent, RunsPaid, Tick
    PROVE  Solvent' /\ RunsPaid'
<1>1. /\ now' = now + 1 /\ UNCHANGED <<crashes, handled, buckets>>
      /\ now \in Nat /\ crashes \in Nat
    BY DEF Tick, observed, memory, bounds, TInv, TypeOK
<1>2. ASSUME NEW q \in Procs, NEW y \in Peers
      PROVE  /\ Refilled(buckets[q][y], now + 1).tokens \in Int
             /\ Refilled(buckets[q][y], now + 1).tokens <= Capacity
             /\ Refilled(buckets[q][y], now).tokens \in Int
             /\ Refilled(buckets[q][y], now).tokens <= Refilled(buckets[q][y], now + 1).tokens
             /\ Refilled(buckets[q][y], now + 1).tokens
                    <= Refilled(buckets[q][y], now).tokens + Rate
    <2>1. buckets[q][y] \in Bucket \cup {NoBucket} /\ now + 1 \in Nat /\ (now + 1) - 1 = now
        BY <1>1, <1>2, BucketFacts
    <2>2. Refilled(buckets[q][y], now + 1) \in Bucket
        BY <2>1, RefilledBucket
    <2> QED
        <3> DEFINE b == buckets[q][y]
        <3>1. /\ Refilled(b, now + 1).tokens \in Int
              /\ Refilled(b, now + 1).tokens <= Capacity
            BY <2>1, <2>2, RefilledBucket DEF Bucket
        <3>2. Refilled(b, now).tokens \in Int
            BY BucketFacts
        <3>3. Refilled(b, now + 1).tokens <= Refilled(b, now).tokens + Rate
            BY <1>1, <2>1, RefillSpeed
        <3>4. Refilled(b, (now + 1) - 1).tokens <= Refilled(b, now + 1).tokens
            <4>1. now + 1 > 0
                BY <1>1
            <4> HIDE DEF b
            <4> QED
                BY <2>1, <4>1, RefillSpeed DEF b
        <3> QED
            BY <2>1, <3>1, <3>2, <3>3, <3>4
<1>3. Solvent'
    BY <1>1, <1>2 DEF Solvent
<1>4. ASSUME NEW q \in Procs, NEW y \in Peers, NEW from \in 0..now + 1
      PROVE  TokenUnit * Cardinality(RunsIn(q, y, from, now)')
                + Refilled(buckets[q][y], now + 1).tokens <= Allowance(crashes, (now + 1) - from)
    <2>1. CASE from = now + 1
        <3>1. RunsIn(q, y, from, now)' = {}
            BY <1>1, <2>1, RunFacts DEF RunsIn, RunsPast
        <3>2. Capacity <= Allowance(crashes, (now + 1) - from) /\ Capacity \in Nat
              /\ Allowance(crashes, (now + 1) - from) \in Int
            BY <1>1, <2>1, AllowanceSteps, Settings
        <3> QED
            <4>1. TokenUnit * Cardinality(RunsIn(q, y, from, now)') = 0
                BY <3>1, FS_EmptySet DEF TokenUnit
            <4> QED
                BY <1>2, <3>2, <4>1
    <2>2. CASE from # now + 1
        <3> DEFINE n == Cardinality(RunsIn(q, y, from, now))
        <3>1. from \in 0..now /\ now - from \in Nat /\ (now + 1) - from = (now - from) + 1
            BY <1>1, <2>2
        <3>2. RunsIn(q, y, from, now)' = RunsIn(q, y, from, now)
            BY <1>1, RunFacts DEF RunsIn, RunsPast
        <3>3. /\ n \in Nat
              /\ TokenUnit * n + Refilled(buckets[q][y], now).tokens
                    <= Allowance(crashes, now - from)
            BY <3>1, RunsCount DEF RunsPaid
        <3>4. /\ Allowance(crashes, now - from) \in Int /\ Rate \in Nat
              /\ Allowance(crashes, (now + 1) - from) = Allowance(crashes, now - from) + Rate
            BY <1>1, <3>1, AllowanceSteps, Settings
        <3> HIDE DEF n
        <3> QED
            BY <1>2, <3>2, <3>3, <3>4 DEF TokenUnit, n
    <2> QED
        BY <2>1, <2>2
<1>5. RunsPaid'
    <2> SUFFICES ASSUME NEW q \in Procs, NEW y \in Peers, NEW from \in 0..now'
                 PROVE  TokenUnit * Cardinality(RunsIn(q, y, from, now)')
                            + Refilled(buckets'[q][y], now').tokens
                                <= Allowance(crashes', now' - from)
        BY DEF RunsPaid, Allowance
    <2>1. from \in 0..now + 1
        BY <1>1
    <2> QED
        BY <1>1, <1>4, <2>1
<1> QED
    BY <1>3, <1>5

LEMMA PaidStep ==
    ASSUME TInv, RunsPast, Solvent, RunsPaid, [Next]_vars
    PROVE  Solvent' /\ RunsPaid'
<1>1. ASSUME UNCHANGED <<now, crashes, handled, buckets>> PROVE Solvent' /\ RunsPaid'
    BY <1>1 DEF Solvent, RunsPaid, Allowance, RunsIn
<1>2. ASSUME NEW p, NEW e, NEW tool, Verify(p, e, tool) \/ Refuse(p, e, tool)
      PROVE  UNCHANGED <<now, crashes, handled, buckets>>
    BY <1>2 DEF Verify, Refuse, memory, observed
<1>3. ASSUME NEW p, \/ Replay(p) \/ Admit(p) \/ Lookup(p)
                    \/ Put(p) \/ Find(p) \/ StoreBusy(p) \/ Respond(p)
      PROVE  UNCHANGED <<now, crashes, handled, buckets>>
    BY <1>3 DEF Replay, Admit, Lookup, Put, Find, StoreBusy, Respond, memory, observed, bounds
<1>4. PurgeStore \/ UNCHANGED vars => UNCHANGED <<now, crashes, handled, buckets>>
    BY DEF PurgeStore, vars, memory, observed, bounds
<1> QED
    BY <1>1, <1>2, <1>3, <1>4, SpendStep, CrashRate, TickRate DEF Next, Step

\* The clock and the number of crashes go up one at a time.
LEMMA Counters ==
    ASSUME TInv, [Next]_vars
    PROVE  now' \in {now, now + 1} /\ crashes' \in {crashes, crashes + 1}
<1>1. ASSUME NEW p, NEW e, NEW tool, Verify(p, e, tool) \/ Refuse(p, e, tool)
      PROVE  UNCHANGED <<now, crashes>>
    BY <1>1 DEF Verify, Refuse
<1>2. ASSUME NEW p, NEW result, RunHandler(p, result) PROVE UNCHANGED <<now, crashes>>
    BY <1>2 DEF RunHandler, bounds
<1>3. ASSUME NEW p, \/ Replay(p) \/ Admit(p) \/ Lookup(p) \/ Deny(p)
                    \/ Put(p) \/ Find(p) \/ StoreBusy(p) \/ Respond(p)
      PROVE  UNCHANGED <<now, crashes>>
    BY <1>3 DEF Replay, Admit, Lookup, Deny, Put, Find, StoreBusy, Respond, bounds
<1>4. ASSUME NEW p, Crash(p) PROVE now' = now /\ crashes' = crashes + 1
    BY <1>4 DEF Crash
<1>5. PurgeStore \/ UNCHANGED vars => UNCHANGED <<now, crashes>>
    BY DEF PurgeStore, vars, bounds
<1>6. Tick => now' = now + 1 /\ crashes' = crashes
    BY DEF Tick, bounds
<1> QED
    BY <1>1, <1>2, <1>3, <1>4, <1>5, <1>6 DEF Next, Step

\* What happened before this second does not change any more.
LEMMA PastRunsStay ==
    ASSUME TInv, [Next]_vars, NEW p, NEW x, NEW from, NEW to \in Nat, to < now'
    PROVE  RunsIn(p, x, from, to)' = RunsIn(p, x, from, to)
<1>1. now \in Nat /\ now' \in Nat /\ now <= now'
    BY TimePasses DEF TInv, TypeOK
<1>2. ASSUME NEW q, NEW result, RunHandler(q, result) PROVE now' = now
    BY <1>2 DEF RunHandler
<1>3. \A i \in DOMAIN handled' :
          \/ i \in DOMAIN handled /\ handled'[i] = handled[i]
          \/ handled'[i].at = now /\ now' = now
    BY <1>2, LastRun
<1>4. \A i \in DOMAIN handled : i \in DOMAIN handled' /\ handled'[i] = handled[i]
    BY LastRun
<1>5. \A i \in DOMAIN handled' :
          \/ i \in DOMAIN handled /\ handled'[i] = handled[i]
          \/ ~(handled'[i].at <= to)
    BY <1>1, <1>3
<1> QED
    BY <1>4, <1>5 DEF RunsIn

LEMMA RateStep ==
    ASSUME TInv, RateInv, [Next]_vars
    PROVE  RateInv'
<1>1. RunsPast'
    BY RunsPastStep DEF RateInv
<1>2. Solvent' /\ RunsPaid'
    BY PaidStep DEF RateInv
<1>3. /\ now \in Nat /\ now' \in {now, now + 1}
      /\ crashes \in Nat /\ crashes' \in {crashes, crashes + 1}
    BY Counters DEF TInv, TypeOK
<1>4. ASSUME NEW p \in Procs, NEW x \in Peers, NEW from \in 0..now', NEW to \in 0..now',
             from <= to
      PROVE  TokenUnit * Cardinality(RunsIn(p, x, from, to)') <= Allowance(crashes', to - from)
    <2> DEFINE n == Cardinality(RunsIn(p, x, from, to)')
    <2>1. n \in Nat
        <3>1. handled' \in Seq([env : Envelopes, at : Nat, by : Procs])
            BY TypedStep DEF TInv, TypeOK
        <3>2. RunsIn(p, x, from, to)' \subseteq DOMAIN handled'
            BY DEF RunsIn
        <3> QED
            BY <3>1, <3>2, FiniteRuns
    <2>2. CASE to = now'
        <3>1. RunsIn(p, x, from, now)' = RunsIn(p, x, from, to)'
            BY <2>2 DEF RunsIn
        <3>2. TokenUnit * n + Refilled(buckets'[p][x], now').tokens
                    <= Allowance(crashes', to - from)
            BY <1>2, <2>2, <3>1 DEF RunsPaid, Allowance
        <3>3. Refilled(buckets'[p][x], now').tokens >= 0
            BY <1>2 DEF Solvent
        <3>4. Refilled(buckets'[p][x], now').tokens \in Int
            <4>1. buckets'[p][x] \in Bucket \cup {NoBucket} /\ now' \in Nat
                BY TypedStep DEF TInv, TypeOK
            <4> QED
                BY <4>1, RefilledBucket DEF Bucket
        <3>5. Allowance(crashes', to - from) \in Int
            <4>1. to - from \in Nat /\ crashes' \in Nat
                BY <1>3, <1>4
            <4> QED
                BY <4>1, AllowanceSteps
        <3>6. TokenUnit * n \in Int
            BY <2>1 DEF TokenUnit
        <3> QED
            BY <3>2, <3>3, <3>4, <3>5, <3>6
    <2>3. CASE to # now'
        <3>1. to \in 0..now /\ from \in 0..now /\ to < now' /\ to - from \in Nat
            BY <1>3, <1>4, <2>3
        <3>2. TokenUnit * n <= Allowance(crashes, to - from)
            BY <1>4, <3>1, PastRunsStay DEF RateInv, RunsWithinRate, Allowance
        <3>3. /\ Allowance(crashes, to - from) \in Int /\ Capacity \in Nat
              /\ Allowance(crashes', to - from)
                    \in {Allowance(crashes, to - from), Allowance(crashes, to - from) + Capacity}
            BY <1>3, <3>1, AllowanceSteps, Settings
        <3>4. TokenUnit * n \in Int
            BY <2>1 DEF TokenUnit
        <3> QED
            BY <3>2, <3>3, <3>4
    <2> QED
        BY <2>2, <2>3
<1>5. RunsWithinRate'
    BY <1>4 DEF RunsWithinRate, Allowance
<1> QED
    BY <1>1, <1>2, <1>5 DEF RateInv

\* check_rate as _dispatch uses it, for every policy, any processes, envelopes
\* and crashes: from any second to any other a process runs handlers for a peer
\* at most as often as burst and rate allow.
THEOREM HandlersWithinRate == Spec => []RunsWithinRate
<1>1. Init => RateInv
    <2> SUFFICES ASSUME Init PROVE RateInv
        OBVIOUS
    <2>1. now = 0 /\ crashes = 0 /\ handled = << >>
        BY DEF Init
    <2>2. \A p \in Procs, x \in Peers : Refilled(buckets[p][x], now).tokens = Capacity
        BY <2>1, Settings DEF Init, Refilled
    <2>3. \A p, x, from, to : RunsIn(p, x, from, to) = {}
        BY <2>1 DEF RunsIn
    <2>4. Cardinality({}) = 0 /\ TokenUnit * 0 = 0
        BY FS_EmptySet DEF TokenUnit
    <2>5. \A span \in Nat : /\ Allowance(crashes, span) \in Int
                            /\ Capacity <= Allowance(crashes, span)
        BY <2>1, AllowanceSteps
    <2>6. Capacity \in Nat
        BY Settings
    <2>7. RunsPast /\ Solvent
        BY <2>1, <2>2, <2>6 DEF RunsPast, Solvent
    <2>8. RunsPaid
        <3> SUFFICES ASSUME NEW p \in Procs, NEW x \in Peers, NEW from \in 0..now
                     PROVE  TokenUnit * Cardinality({}) + Capacity <= Allowance(crashes, now - from)
            BY <2>2, <2>3 DEF RunsPaid
        <3>1. now - from \in Nat
            BY <2>1
        <3> QED
            BY <2>4, <2>5, <2>6, <3>1
    <2>9. \A from, to \in 0..now : to - from \in Nat
        BY <2>1
    <2>10. ASSUME NEW span \in Nat PROVE 0 <= Allowance(crashes, span)
        BY <2>5, <2>6
    <2>11. RunsWithinRate
        BY <2>3, <2>4, <2>9, <2>10 DEF RunsWithinRate, Allowance
    <2> QED
        BY <2>7, <2>8, <2>11 DEF RateInv
<1>2. TInv /\ RateInv /\ [Next]_vars => RateInv'
    BY RateStep
<1>3. RateInv => RunsWithinRate
    BY DEF RateInv
<1> QED
    BY Typed, <1>1, <1>2, <1>3, PTL DEF Spec

-----------------------------------------------------------------------------
(* Replies and the runs behind them.                                       *)

\* The handler ran for f.
Ran(f) == \E i \in DOMAIN handled : handled[i].env = f

\* The replies res to request r that say that something was handled.
Positive(r, res) ==
    /\ res.type \in {"receipt", "data", "handshake"}
    /\ res.status = "rejected" => r.tool # "pip_get_receipt"

\* The run for f is what the reply res to request r is about.
Backs(f, r, res) ==
    LET e == r.env IN
    /\ f.from = e.from
    /\ res.ref # NoRef => f.id = res.ref
    /\ res.status \in {"accepted", "delivered", "rejected"} /\ r.tool # "pip_get_receipt" => f = e
    /\ f = e \/ SharesSlot(f, e) \/ (r.tool = "pip_get_receipt" /\ f.id = e.ref)

RepliesBacked ==
    \A p \in Procs : Positive(job[p], reply[p]) => \E f \in Envelopes : Ran(f) /\ Backs(f, job[p], reply[p])

\* A response is stored, or about to be, for a handler that ran.
RowsBacked ==
    \A r \in idempotent :
        \E f \in Envelopes : Ran(f) /\ f.from = r.peer /\ f.key = r.key /\ f.id = r.ref

PutBacked == \A p \in Procs : pc[p] = "put" => Ran(job[p].env)

\* There is no reply before there is one, and only queries are looked up.
NoReplyYet ==
    \A p \in Procs : /\ pc[p] \notin {"put", "reply"} => reply[p] = NoReply
                     /\ pc[p] = "find" => job[p].tool = "pip_get_receipt"

TruthInv == RepliesBacked /\ RowsBacked /\ PutBacked /\ NoReplyYet

LEMMA RanStays ==
    ASSUME TInv, [Next]_vars, NEW f, Ran(f)
    PROVE  Ran(f)'
    BY LastRun DEF Ran

\* The error replies, and what the tools make of a reply that is none.
LEMMA ErrorsSayNothing ==
    /\ \A r, q, c : ~Positive(r, RequestError(q, c))
    /\ \A r, c, ref : ~Positive(r, Error(c, ref))
    /\ \A r, ref : ~Positive(r, Response("exception", ref))
    /\ \A r, ref : r.tool = "pip_get_receipt" => ~Positive(r, Receipt("rejected", ref))
    /\ \A r : ~Positive(r, NoReply)
    /\ \A r, tool, res : ~Positive(r, res) => ~Positive(r, ToolReply(tool, res))
    BY DEF Positive, RequestError, Error, Response, Receipt, NoReply, ToolReply

\* An answer keeps the invariant when it says nothing or is backed.
LEMMA AnswerBacked ==
    ASSUME TInv, TruthInv, [Next]_vars, NEW p \in Procs, NEW res, Answer(p, res),
           pc[p] # "put",
           UNCHANGED idempotent,
           Positive(job[p], ToolReply(job[p].tool, res)) =>
              \E f \in Envelopes : Ran(f) /\ Backs(f, job[p], ToolReply(job[p].tool, res))
    PROVE  TruthInv'
<1> USE DEF TInv, TypeOK, TruthInv
<1> DEFINE out == ToolReply(job[p].tool, res)
<1>1. /\ pc' = [pc EXCEPT ![p] = "reply"] /\ reply' = [reply EXCEPT ![p] = out] /\ job' = job
    BY DEF Answer
<1>2. Positive(job[p], out) => \E f \in Envelopes : Ran(f) /\ Backs(f, job[p], out)
    OBVIOUS
<1> HIDE DEF out
<1>3. RepliesBacked'
    <2> SUFFICES ASSUME NEW q \in Procs, Positive(job'[q], reply'[q])
                 PROVE  \E f \in Envelopes : Ran(f) /\ Backs(f, job'[q], reply'[q])
        BY RanStays DEF RepliesBacked
    <2>1. CASE q = p
        BY <1>1, <1>2, <2>1
    <2>2. CASE q # p
        BY <1>1, <2>2 DEF RepliesBacked
    <2> QED
        BY <2>1, <2>2
<1>4. RowsBacked'
    BY RanStays DEF RowsBacked
<1>5. PutBacked' /\ NoReplyYet'
    BY <1>1, RanStays DEF PutBacked, NoReplyYet
<1> QED
    BY <1>3, <1>4, <1>5

LEMMA GotoBacked ==
    ASSUME TInv, TruthInv, [Next]_vars, NEW p \in Procs, NEW step, Goto(p, step),
           pc[p] # "put", step \notin {"put", "find"} \/ (step = "find" /\ job[p].tool = "pip_get_receipt"),
           pc[p] # "reply", UNCHANGED idempotent
    PROVE  TruthInv'
<1> USE DEF TInv, TypeOK, TruthInv
<1>1. pc' = [pc EXCEPT ![p] = step] /\ UNCHANGED <<job, reply>>
    BY DEF Goto
<1>2. RepliesBacked'
    BY <1>1, RanStays DEF RepliesBacked
<1>3. RowsBacked'
    BY RanStays DEF RowsBacked
<1>4. PutBacked' /\ NoReplyYet'
    BY <1>1, RanStays DEF PutBacked, NoReplyYet
<1> QED
    BY <1>2, <1>3, <1>4

LEMMA TruthArrive ==
    ASSUME TInv, TruthInv, [Next]_vars, NEW p \in Procs, NEW e \in Envelopes, NEW tool,
           Verify(p, e, tool) \/ Refuse(p, e, tool)
    PROVE  TruthInv'
<1> USE DEF TInv, TypeOK, TruthInv
<1>1. pc[p] = "idle" /\ UNCHANGED <<idempotent, handled>>
    BY DEF Verify, Refuse, store, observed
<1>2. /\ job' = [job EXCEPT ![p] = [tool |-> tool, env |-> e]]
      /\ \/ pc' = [pc EXCEPT ![p] = "nonce"] /\ reply' = reply
         \/ pc' = [pc EXCEPT ![p] = "reply"]
    BY DEF Verify, Refuse
<1>3. /\ \A q \in Procs : q # p => reply'[q] = reply[q]
      /\ ~Positive(job'[p], reply'[p])
    <2>1. CASE Verify(p, e, tool)
        BY <1>1, <2>1, ErrorsSayNothing DEF Verify, NoReplyYet
    <2>2. CASE Refuse(p, e, tool)
        <3>1. ~Positive(job'[p], BarredReply(e))
            BY ErrorsSayNothing DEF BarredReply
        <3> QED
            BY <2>2, <3>1, ErrorsSayNothing DEF Refuse
    <2> QED
        BY <2>1, <2>2
<1>4. RepliesBacked'
    BY <1>2, <1>3, RanStays DEF RepliesBacked
<1>5. RowsBacked'
    BY <1>1, RanStays DEF RowsBacked
<1>6. PutBacked' /\ NoReplyYet'
    BY <1>1, <1>2, <1>3, RanStays DEF PutBacked, NoReplyYet
<1> QED
    BY <1>4, <1>5, <1>6

LEMMA TruthLookup ==
    ASSUME TInv, TruthInv, [Next]_vars, NEW p \in Procs, Lookup(p)
    PROVE  TruthInv'
<1> DEFINE e == job[p].env
<1>1. pc[p] = "lookup" /\ UNCHANGED idempotent /\ e \in Envelopes
    BY JobFacts DEF Lookup, store
<1>2. CASE Goto(p, "dispatch")
    BY <1>1, <1>2, GotoBacked
<1>3. ASSUME NEW row \in GetIdempotent(idempotent, e.from, e.key, now), NEW res,
             res = Receipt("duplicate", row.ref) \/ res = Response("data", row.ref),
             Answer(p, res)
      PROVE  TruthInv'
    <2>1. row \in idempotent /\ row.peer = e.from /\ row.key = e.key /\ e.key # NoKey
        BY DEF GetIdempotent, SameSlot, TInv, TypeOK
    <2>2. PICK f \in Envelopes : Ran(f) /\ f.from = row.peer /\ f.key = row.key /\ f.id = row.ref
        BY <2>1 DEF TruthInv, RowsBacked
    <2> DEFINE out == ToolReply(job[p].tool, res)
    <2>3. out.status \notin {"accepted", "delivered", "rejected"} /\ (out.ref = NoRef \/ out.ref = row.ref)
        BY <1>3 DEF ToolReply, Receipt, Response
    <2> HIDE DEF out
    <2>4. Backs(f, job[p], out)
        BY <2>1, <2>2, <2>3 DEF Backs, SharesSlot
    <2>5. Positive(job[p], out) => \E g \in Envelopes : Ran(g) /\ Backs(g, job[p], out)
        BY <2>2, <2>4
    <2> QED
        BY <1>1, <1>3, <2>5, AnswerBacked DEF out
<1> QED
    BY <1>2, <1>3 DEF Lookup

LEMMA TruthFind ==
    ASSUME TInv, TruthInv, [Next]_vars, NEW p \in Procs, Find(p)
    PROVE  TruthInv'
<1> DEFINE e == job[p].env
<1>1. /\ pc[p] = "find" /\ UNCHANGED idempotent /\ e \in Envelopes
      /\ job[p].tool = "pip_get_receipt"
    BY JobFacts DEF Find, store, TruthInv, NoReplyYet
<1>2. ASSUME NEW c, Answer(p, Error(c, NoRef)) PROVE TruthInv'
    BY <1>1, <1>2, ErrorsSayNothing, AnswerBacked
<1>3. ASSUME NEW row \in FindReceiptByRef(idempotent, e.from, e.ref, now),
             Answer(p, FoundReply(e, row))
      PROVE  TruthInv'
    <2> DEFINE out == ToolReply(job[p].tool, FoundReply(e, row))
    <2>1. out = FoundReply(e, row)
        BY <1>1 DEF ToolReply
    <2>2. CASE row.type = "none"
        <3>1. FoundReply(e, row) = Receipt("rejected", e.id)
            BY <2>2, Zenon DEF FoundReply
        <3>2. ~Positive(job[p], out)
            BY <1>1, <2>1, <3>1 DEF Positive, Receipt
        <3> QED
            BY <1>1, <1>3, <3>2, AnswerBacked
    <2>3. CASE row.type # "none"
        <3>1. row \in idempotent /\ row.peer = e.from /\ row.ref = e.ref
            BY <2>3 DEF FindReceiptByRef, NoRow
        <3>2. PICK f \in Envelopes : Ran(f) /\ f.from = row.peer /\ f.key = row.key /\ f.id = row.ref
            BY <3>1 DEF TruthInv, RowsBacked
        <3>3. out.ref = row.ref
            <4>1. CASE row.type = "receipt"
                <5>1. FoundReply(e, row) = Receipt(row.status, row.ref)
                    BY <2>3, <4>1, Zenon DEF FoundReply
                <5> QED
                    BY <2>1, <5>1 DEF Receipt
            <4>2. CASE row.type # "receipt"
                <5>1. FoundReply(e, row) = Response("data", row.ref)
                    BY <2>3, <4>2, Zenon DEF FoundReply
                <5> QED
                    BY <2>1, <5>1 DEF Response
            <4> QED
                BY <4>1, <4>2
        <3> HIDE DEF out
        <3>4. Backs(f, job[p], out)
            BY <1>1, <3>1, <3>2, <3>3 DEF Backs
        <3>5. Positive(job[p], out) => \E g \in Envelopes : Ran(g) /\ Backs(g, job[p], out)
            BY <3>2, <3>4
        <3> QED
            BY <1>1, <1>3, <3>5, AnswerBacked DEF out
    <2> QED
        BY <2>2, <2>3
<1> QED
    BY <1>2, <1>3 DEF Find

LEMMA TruthHandler ==
    ASSUME TInv, TruthInv, [Next]_vars, NEW p \in Procs,
           NEW result \in Outcomes, RunHandler(p, result)
    PROVE  TruthInv'
<1> USE DEF TInv, TypeOK, TruthInv
<1> DEFINE e == job[p].env
           run == [env |-> e, at |-> now, by |-> p]
           res == HandlerResponse(e, result)
<1>1. PICK out \in {res, ToolReply(job[p].tool, res)} :
        /\ reply' = [reply EXCEPT ![p] = out]
        /\ \/ pc' = [pc EXCEPT ![p] = "put"] /\ Storable(e, res)
           \/ pc' = [pc EXCEPT ![p] = "reply"]
    BY RunEffect
<1>2. e \in Envelopes /\ UNCHANGED <<idempotent, job>> /\ pc[p] = "dispatch"
    BY RunEffect, JobFacts
<1>3. result \notin {"error", "raise"} => \E i \in DOMAIN handled' : handled'[i].env = e
    <2> SUFFICES ASSUME result \notin {"error", "raise"}
                 PROVE  \E i \in DOMAIN handled' : handled'[i].env = e
        OBVIOUS
    <2>1. run \in [env : Envelopes, at : Nat, by : Procs] /\ handled' = Append(handled, run)
        BY <1>2 DEF RunHandler
    <2>2. handled \in Seq([env : Envelopes, at : Nat, by : Procs]) /\ run.env = e
        OBVIOUS
    <2> HIDE DEF run, e
    <2>3. Len(handled) + 1 \in DOMAIN handled' /\ handled'[Len(handled) + 1] = run
        BY <2>1, <2>2
    <2> QED
        BY <2>2, <2>3
<1>4. Positive(job[p], out) => result \notin {"error", "raise"} /\ Backs(e, job[p], out)
    <2>1. res.ref = e.id /\ (result \in {"error", "raise"} => res.type = "error")
        BY HandlerResponses DEF Outcomes, Receipt, Response, Error
    <2>2. /\ out.ref = NoRef \/ out.ref = e.id
          /\ result \in {"error", "raise"} => out.type = "error"
        BY <2>1 DEF ToolReply, Response
    <2> HIDE DEF res, e
    <2> QED
        BY <2>2 DEF Backs, Positive, e
<1>5. Storable(e, res) => result \notin {"error", "raise"}
    BY StorableKept
<1>6. job'[p].env = e
    BY <1>2
<1> HIDE DEF e, run, res
<1>7. RepliesBacked'
    <2> SUFFICES ASSUME NEW q \in Procs, Positive(job'[q], reply'[q])
                 PROVE  \E f \in Envelopes : Ran(f)' /\ Backs(f, job'[q], reply'[q])
        BY DEF RepliesBacked
    <2>1. CASE q = p
        <3>1. Positive(job[p], out) /\ reply'[q] = out /\ job'[q] = job[p]
            BY <1>1, <1>2, <2>1
        <3> QED
            BY <1>2, <1>3, <1>4, <3>1 DEF Ran
    <2>2. CASE q # p
        BY <1>1, <1>2, <2>2, RanStays DEF RepliesBacked
    <2> QED
        BY <2>1, <2>2
<1>8. RowsBacked'
    BY <1>2, RanStays DEF RowsBacked
<1>9. PutBacked'
    <2> SUFFICES ASSUME NEW q \in Procs, pc'[q] = "put" PROVE Ran(job[q].env)'
        BY DEF PutBacked
    <2>1. CASE q = p
        BY <1>1, <1>3, <1>5, <1>6, <2>1 DEF Ran
    <2>2. CASE q # p
        BY <1>1, <1>2, <2>2, RanStays DEF PutBacked
    <2> QED
        BY <2>1, <2>2
<1>10. NoReplyYet'
    BY <1>1, <1>2 DEF NoReplyYet
<1> QED
    BY <1>7, <1>8, <1>9, <1>10

LEMMA TruthPut ==
    ASSUME TInv, TruthInv, [Next]_vars, NEW p \in Procs, Put(p)
    PROVE  TruthInv'
<1> USE DEF TInv, TypeOK, TruthInv
<1> DEFINE e == job[p].env
           out == ToolReply(job[p].tool, reply[p])
           row == [peer |-> e.from, key |-> e.key, ref |-> e.id, expires |-> now + IdemTtl,
                   type |-> reply[p].type, status |-> reply[p].status]
<1>1. Ran(e) /\ e \in Envelopes /\ reply[p] \in Kept(e)
    BY JobFacts DEF Put, PutBacked, PutReady
<1>2. idempotent' = PutIdempotent(idempotent, row)
    BY DEF Put
<1>3. pc' = [pc EXCEPT ![p] = "reply"] /\ reply' = [reply EXCEPT ![p] = out] /\ job' = job
    BY DEF Put, Answer
<1>4. row.peer = e.from /\ row.key = e.key /\ row.ref = e.id
    OBVIOUS
<1>5. Backs(e, job[p], out)
    BY <1>1 DEF Backs, Kept, ToolReply, Response
<1>6. job'[p] = job[p]
    BY <1>3
<1> HIDE DEF row, e, out
<1>7. RowsBacked'
    <2>1. idempotent' \subseteq idempotent \cup {row}
        BY <1>2 DEF PutIdempotent
    <2> QED
        BY <1>1, <1>4, <2>1, RanStays DEF RowsBacked
<1>8. RepliesBacked'
    <2> SUFFICES ASSUME NEW q \in Procs, Positive(job'[q], reply'[q])
                 PROVE  \E f \in Envelopes : Ran(f) /\ Backs(f, job'[q], reply'[q])
        BY RanStays DEF RepliesBacked
    <2>1. CASE q = p
        BY <1>1, <1>3, <1>5, <1>6, <2>1
    <2>2. CASE q # p
        BY <1>3, <2>2 DEF RepliesBacked
    <2> QED
        BY <2>1, <2>2
<1>9. PutBacked' /\ NoReplyYet'
    BY <1>3, RanStays DEF PutBacked, NoReplyYet
<1> QED
    BY <1>7, <1>8, <1>9

LEMMA TruthOthers ==
    ASSUME TInv, TruthInv, [Next]_vars,
           \/ \E p \in Procs : Respond(p) \/ Crash(p)
           \/ PurgeStore \/ Tick \/ UNCHANGED vars
    PROVE  TruthInv'
<1> USE DEF TInv, TypeOK, TruthInv
<1>1. ASSUME NEW p \in Procs, Respond(p) \/ Crash(p) PROVE TruthInv'
    <2>1. /\ pc' = [pc EXCEPT ![p] = "idle"] /\ job' = [job EXCEPT ![p] = NoJob]
          /\ reply' = [reply EXCEPT ![p] = NoReply]
          /\ idempotent' \subseteq idempotent
        BY <1>1, CrashedRows DEF Respond, Crash, store
    <2>2. RepliesBacked'
        BY <2>1, RanStays, ErrorsSayNothing DEF RepliesBacked
    <2>3. RowsBacked'
        BY <2>1, RanStays DEF RowsBacked
    <2>4. PutBacked' /\ NoReplyYet'
        BY <2>1, RanStays DEF PutBacked, NoReplyYet
    <2> QED
        BY <2>2, <2>3, <2>4
<1>2. ASSUME PurgeStore \/ Tick \/ UNCHANGED vars PROVE TruthInv'
    <2>1. UNCHANGED <<pc, job, reply>> /\ idempotent' \subseteq idempotent
        BY <1>2, PurgedRows DEF PurgeStore, Tick, vars, store
    <2>2. RepliesBacked'
        BY <2>1, RanStays DEF RepliesBacked
    <2>3. RowsBacked'
        BY <2>1, RanStays DEF RowsBacked
    <2>4. PutBacked' /\ NoReplyYet'
        BY <2>1, RanStays DEF PutBacked, NoReplyYet
    <2> QED
        BY <2>2, <2>3, <2>4
<1> QED
    BY <1>1, <1>2

LEMMA TruthRefused ==
    ASSUME TInv, TruthInv, [Next]_vars, NEW p \in Procs,
           Replay(p) \/ Admit(p) \/ Deny(p) \/ StoreBusy(p)
    PROVE  TruthInv'
<1>1. UNCHANGED idempotent
    BY DEF Replay, Admit, Deny, StoreBusy, store
<1>2. ASSUME NEW res, Answer(p, res), ~Positive(job[p], res), pc[p] # "put" PROVE TruthInv'
    BY <1>1, <1>2, ErrorsSayNothing, AnswerBacked
<1>3. ASSUME Admit(p), Goto(p, AfterNonce(job[p])) PROVE TruthInv'
    <2>1. \/ AfterNonce(job[p]) \in {"lookup", "dispatch"}
          \/ AfterNonce(job[p]) = "find" /\ job[p].tool = "pip_get_receipt"
        BY DEF AfterNonce
    <2>2. pc[p] = "nonce"
        BY <1>3 DEF Admit
    <2> QED
        BY <1>1, <1>3, <2>1, <2>2, GotoBacked
<1>4. CASE Replay(p)
    BY <1>2, <1>4, ErrorsSayNothing DEF Replay
<1>5. CASE Admit(p)
    BY <1>2, <1>3, <1>5, ErrorsSayNothing DEF Admit
<1>6. CASE Deny(p)
    BY <1>2, <1>6, ErrorsSayNothing DEF Deny
<1>7. CASE StoreBusy(p)
    <2>1. PICK res : Answer(p, res) /\ ~Positive(job[p], res)
        BY <1>7, ErrorsSayNothing DEF StoreBusy
    <2> USE DEF TInv, TypeOK, TruthInv
    <2>2. /\ pc' = [pc EXCEPT ![p] = "reply"] /\ job' = job
          /\ \A q \in Procs : q # p => reply'[q] = reply[q]
          /\ ~Positive(job'[p], reply'[p])
        BY <2>1, ErrorsSayNothing DEF Answer
    <2>3. RepliesBacked'
        BY <2>2, RanStays DEF RepliesBacked
    <2>4. RowsBacked'
        BY <1>1, RanStays DEF RowsBacked
    <2>5. PutBacked' /\ NoReplyYet'
        BY <2>2, RanStays DEF PutBacked, NoReplyYet
    <2> QED
        BY <2>3, <2>4, <2>5
<1> QED
    BY <1>4, <1>5, <1>6, <1>7

LEMMA TruthStep ==
    ASSUME TInv, TruthInv, [Next]_vars
    PROVE  TruthInv'
    BY TruthArrive, TruthLookup, TruthFind, TruthHandler, TruthPut, TruthOthers, TruthRefused
       DEF Next, Step

LEMMA TruthStart == Init => TruthInv
<1> SUFFICES ASSUME Init PROVE TruthInv
    OBVIOUS
<1>1. /\ idempotent = {} /\ \A p \in Procs : pc[p] = "idle" /\ reply[p] = NoReply
    BY DEF Init
<1> QED
    BY <1>1, ErrorsSayNothing
       DEF TruthInv, RepliesBacked, RowsBacked, PutBacked, NoReplyYet

\* For both backends, any number of processes, and whatever crashes, times out
\* or is purged: no reply claims a handler run that did not happen.
THEOREM RepliesTruthful == Spec => []TruthfulReply
<1>1. Init => TruthInv
    BY TruthStart
<1>2. TInv /\ TruthInv /\ [Next]_vars => TruthInv'
    BY TruthStep
<1>3. TruthInv => TruthfulReply
    <2> SUFFICES ASSUME TruthInv, NEW p \in Procs, Positive(job[p], reply[p])
                 PROVE  \E i \in DOMAIN handled : Backs(handled[i].env, job[p], reply[p])
        BY DEF TruthfulReply, Positive, Backs
    <2> QED
        BY DEF TruthInv, RepliesBacked, Ran
<1> QED
    BY Typed, <1>1, <1>2, <1>3, PTL DEF Spec

-----------------------------------------------------------------------------
(* Receipts and the inbox.                                                 *)

\* A peer gives no two envelopes the same id.
UniqueIds == \A e, f \in Envelopes : e.from = f.from /\ e.id = f.id => e = f

InSomeInbox(e) == \E p \in Procs : \E i \in DOMAIN inbox[p] : inbox[p][i] = e

\* A response is stored, or about to be, for a message that is in an inbox.
RowsInInbox ==
    \A r \in idempotent :
        \E f \in Envelopes : /\ f.from = r.peer /\ f.id = r.ref
                             /\ f.type = "message" => InSomeInbox(f)

PutInInbox ==
    \A p \in Procs : pc[p] = "put" /\ job[p].env.type = "message" => InSomeInbox(job[p].env)

BackInv ==
    MessagesKept /\ (Backend = "memory" \/ crashes = 0) => RowsInInbox /\ PutInInbox

LEMMA InboxUntouched ==
    ASSUME [Next]_vars
    PROVE  \/ UNCHANGED inbox
           \/ \E p \in Procs : Crash(p) \/ \E result : RunHandler(p, result)
<1>1. ASSUME NEW p, NEW e, NEW tool, Verify(p, e, tool) \/ Refuse(p, e, tool)
      PROVE  UNCHANGED inbox
    BY <1>1 DEF Verify, Refuse, memory
<1>2. ASSUME NEW p, \/ Replay(p) \/ Admit(p) \/ Lookup(p) \/ Deny(p) \/ Put(p)
                    \/ Find(p) \/ StoreBusy(p) \/ Respond(p)
      PROVE  UNCHANGED inbox
    BY <1>2 DEF Replay, Admit, Lookup, Deny, Put, Find, StoreBusy, Respond, memory
<1>3. PurgeStore \/ Tick \/ UNCHANGED vars => UNCHANGED inbox
    BY DEF PurgeStore, Tick, vars, memory
<1> QED
    BY <1>1, <1>2, <1>3 DEF Next, Step

\* A handler run only adds to the inbox.
LEMMA InboxGrows ==
    ASSUME TInv, NEW p \in Procs, NEW result, RunHandler(p, result), NEW e, InSomeInbox(e)
    PROVE  InSomeInbox(e)'
<1> DEFINE f == job[p].env
<1>1. f \in Envelopes /\ inbox \in [Procs -> Seq(Envelopes)]
    BY JobFacts DEF RunHandler, TInv, TypeOK
<1>2. \/ inbox' = inbox
      \/ inbox' = [inbox EXCEPT ![p] = Append(@, f)]
    BY DEF RunHandler
<1> HIDE DEF f
<1>3. ASSUME NEW q \in Procs, NEW i \in DOMAIN inbox[q]
      PROVE  i \in DOMAIN inbox'[q] /\ inbox'[q][i] = inbox[q][i]
    <2>1. inbox[q] \in Seq(Envelopes) /\ i \in 1..Len(inbox[q])
        BY <1>1
    <2>2. inbox'[q] = inbox[q] \/ inbox'[q] = Append(inbox[q], f)
        BY <1>1, <1>2
    <2> QED
        BY <1>1, <2>1, <2>2
<1> QED
    BY <1>3 DEF InSomeInbox

\* A message whose response is to be stored has been put into the inbox.
LEMMA RunFillsInbox ==
    ASSUME TInv, MessagesKept, NEW p \in Procs, NEW result, RunHandler(p, result),
           pc'[p] = "put", job[p].env.type = "message"
    PROVE  InSomeInbox(job[p].env)'
<1> DEFINE f == job[p].env
<1>1. /\ f \in Envelopes /\ UNCHANGED job /\ result \in Handlers["message"]
      /\ inbox \in [Procs -> Seq(Envelopes)] /\ inbox[p] \in Seq(Envelopes)
    BY RunEffect, JobFacts DEF TInv, TypeOK
<1>2. result = "default"
    <2>1. result \in Outcomes
        BY <1>1, NodeAssumption DEF EnvelopeTypes
    <2>2. Storable(f, HandlerResponse(f, result))
        BY RunEffect DEF TInv, TypeOK
    <2> QED
        BY <1>1, <2>1, <2>2, StorableKept DEF MessagesKept, Outcomes
<1>3. inbox' = [inbox EXCEPT ![p] = Append(@, f)]
    BY <1>2 DEF RunHandler
<1> HIDE DEF f
<1>4. Len(inbox[p]) + 1 \in DOMAIN inbox'[p] /\ inbox'[p][Len(inbox[p]) + 1] = f
    BY <1>1, <1>3
<1>5. job'[p].env = f
    BY <1>1 DEF f
<1> QED
    BY <1>4, <1>5 DEF InSomeInbox

\* While no process crashes, what is stored stays in step with the inboxes.
LEMMA BackWork ==
    ASSUME TInv, MessagesKept, RowsInInbox, PutInInbox, [Next]_vars, \A p \in Procs : ~Crash(p)
    PROVE  RowsInInbox' /\ PutInInbox'
<1> USE DEF TInv, TypeOK
<1>1. ASSUME NEW p \in Procs, NEW result, RunHandler(p, result)
      PROVE  RowsInInbox' /\ PutInInbox'
    <2>1. UNCHANGED <<idempotent, job>> /\ \A q \in Procs : q # p => pc'[q] = pc[q]
        BY <1>1, RunMoves
    <2>2. RowsInInbox'
        BY <1>1, <2>1, InboxGrows DEF RowsInInbox
    <2>3. ASSUME NEW q \in Procs, pc'[q] = "put", job'[q].env.type = "message"
          PROVE  InSomeInbox(job[q].env)'
        <3>1. CASE q = p
            BY <1>1, <2>1, <2>3, <3>1, RunFillsInbox
        <3>2. CASE q # p
            <4>1. InSomeInbox(job[q].env)
                BY <2>1, <2>3, <3>2 DEF PutInInbox
            <4> QED
                BY <1>1, <2>1, <4>1, InboxGrows
        <3> QED
            BY <3>1, <3>2
    <2> QED
        BY <2>2, <2>3 DEF PutInInbox
<1>2. ASSUME UNCHANGED inbox, \A p \in Procs : \A result : ~RunHandler(p, result)
      PROVE  RowsInInbox' /\ PutInInbox'
    <2>1. \A e : InSomeInbox(e) => \E p \in Procs : \E i \in DOMAIN inbox'[p] : inbox'[p][i] = e
        BY <1>2 DEF InSomeInbox
    <2>2. ASSUME NEW p \in Procs, pc'[p] = "put"
          PROVE  pc[p] = "put" /\ job'[p] = job[p]
        <3>1. ASSUME NEW q \in Procs, NEW e, NEW tool, Verify(q, e, tool) \/ Refuse(q, e, tool)
              PROVE  pc[p] = "put" /\ job'[p] = job[p]
            BY <2>2, <3>1 DEF Verify, Refuse
        <3>2. ASSUME NEW q \in Procs, \/ Replay(q) \/ Admit(q) \/ Lookup(q) \/ Deny(q)
                                      \/ Put(q) \/ Find(q) \/ StoreBusy(q)
              PROVE  pc[p] = "put" /\ job'[p] = job[p]
            BY <2>2, <3>2 DEF Replay, Admit, Lookup, Deny, Put, Find, StoreBusy, Answer, Goto,
                              AfterNonce
        <3>3. ASSUME NEW q \in Procs, Respond(q) PROVE pc[p] = "put" /\ job'[p] = job[p]
            BY <2>2, <3>3 DEF Respond
        <3>4. PurgeStore \/ Tick \/ UNCHANGED vars => pc[p] = "put" /\ job'[p] = job[p]
            BY <2>2 DEF PurgeStore, Tick, vars
        <3> QED
            BY <1>2, <3>1, <3>2, <3>3, <3>4 DEF Next, Step
    <2>3. PutInInbox'
        BY <1>2, <2>2 DEF PutInInbox, InSomeInbox
    <2>4. ASSUME NEW r \in idempotent'
          PROVE  \E f \in Envelopes : /\ f.from = r.peer /\ f.id = r.ref
                                      /\ f.type = "message" => InSomeInbox(f)
        <3>1. CASE r \in idempotent
            BY <3>1 DEF RowsInInbox
        <3>2. CASE r \notin idempotent
            <4>1. PICK p \in Procs : Put(p)
                BY <1>2, <3>2, TableUntouched, PurgedRows DEF PurgeStore
            <4>2. /\ pc[p] = "put" /\ job[p].env \in Envelopes
                  /\ r.peer = job[p].env.from /\ r.ref = job[p].env.id
                BY <3>2, <4>1, JobFacts DEF Put, PutIdempotent
            <4> QED
                BY <4>2 DEF PutInInbox
        <3> QED
            BY <3>1, <3>2
    <2>5. RowsInInbox'
        BY <1>2, <2>4 DEF RowsInInbox, InSomeInbox
    <2> QED
        BY <2>3, <2>5
<1> QED
    BY <1>1, <1>2, InboxUntouched

LEMMA CrashCounted ==
    ASSUME [Next]_vars, \A p \in Procs : ~Crash(p)
    PROVE  UNCHANGED crashes
<1>1. ASSUME NEW p, NEW e, NEW tool, Verify(p, e, tool) \/ Refuse(p, e, tool)
      PROVE  UNCHANGED crashes
    BY <1>1 DEF Verify, Refuse
<1>2. ASSUME NEW p, \/ Replay(p) \/ Admit(p) \/ Lookup(p) \/ Deny(p) \/ Put(p)
                    \/ Find(p) \/ StoreBusy(p) \/ Respond(p)
                    \/ \E result : RunHandler(p, result)
      PROVE  UNCHANGED crashes
    BY <1>2 DEF Replay, Admit, Lookup, Deny, RunHandler, Put, Find, StoreBusy, Respond, bounds
<1>3. PurgeStore \/ Tick \/ UNCHANGED vars => UNCHANGED crashes
    BY DEF PurgeStore, Tick, vars, bounds
<1> QED
    BY <1>1, <1>2, <1>3 DEF Next, Step

LEMMA BackStep ==
    ASSUME TInv, BackInv, [Next]_vars
    PROVE  BackInv'
<1>1. ASSUME NEW p \in Procs, Crash(p) PROVE BackInv'
    <2>1. crashes' # 0
        BY <1>1 DEF Crash, TInv, TypeOK
    <2>2. CASE Backend = "memory"
        <3>1. idempotent' = {} /\ \A q \in Procs : pc'[q] = "idle"
            BY <1>1, <2>2, NodeAssumption DEF Crash, AfterCrash, TInv, TypeOK
        <3> QED
            BY <3>1 DEF BackInv, RowsInInbox, PutInInbox
    <2> QED
        BY <2>1, <2>2 DEF BackInv
<1>2. CASE \A p \in Procs : ~Crash(p)
    BY <1>2, BackWork, CrashCounted DEF BackInv
<1> QED
    BY <1>1, <1>2

\* Where peers give no two envelopes the same id, and no registered handler
\* takes messages away from the default one: a message whose receipt is stored,
\* and will be repeated, is in an inbox, on a MemoryStore as long as the receipt
\* is there, on sqlite until a process crashes.
THEOREM ReceiptsBacked ==
    ASSUME UniqueIds PROVE Spec => []StoredReceiptBacked
<1>1. Init => BackInv
    BY DEF Init, BackInv, RowsInInbox, PutInInbox
<1>2. TInv /\ BackInv /\ [Next]_vars => BackInv'
    BY BackStep
<1>3. BackInv => StoredReceiptBacked
    BY DEF BackInv, RowsInInbox, StoredReceiptBacked, UniqueIds, InSomeInbox
<1> QED
    BY Typed, <1>1, <1>2, <1>3, PTL DEF Spec
=============================================================================
