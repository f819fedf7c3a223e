# A TLA+ development for hivemind (pip_protocol)

This directory models the Python package in `src/src/pip_protocol`: a PIP node
that receives signed envelopes from peers over HTTP and MCP, checks them
against a policy, runs handlers, remembers nonces and receipts in a store, and
delivers its own envelopes through a persistent outbox.

All paths below are relative to the repository; module names refer to this
directory.  `PROJECT.json` maps every definition to the lines it models, and
lists the runs, a mutant per property, the hazards and the theorems.

## 1. The system

| Component | State | Operations | Interacts with |
|---|---|---|---|
| `node.py` Node | `inbox`, `_handlers` (fixed after start); everything else is in the store and the engine | `verify_inbound`, `handle`/`_dispatch`, default handlers, error and receipt envelopes, building outbound envelopes | policy engine, store, clock; called by HTTP and MCP |
| `node.py` DictDataProvider | `datasets`, which the application may change at any time | `query`: filter, cursor, page | the default data handler |
| `policy.py` PolicyEngine | `_buckets` (a token bucket per peer, in memory) | `get_peer`, `authorize`, `check_rate` | read-only policy file, clock |
| `store.py` MemoryStore, SqliteStore | tables `nonces`, `idempotent`, `outbox` | `seen_nonce`, `get_idempotent`, `put_idempotent`, `find_receipt_by_ref`, `purge`, `outbox_*` | the node, the MCP server, the outbox; the sqlite file is shared by processes |
| `delivery.py` Outbox | the `outbox` table | `enqueue`, `due`, `mark_failed`, `mark_dead`, `mark_delivered` | store, clock, `deliver_outbox` |
| `transport/http.py` | none of its own | `POST /pip/v1/inbox`, `HttpPeerClient.send`, `deliver_outbox` | node, outbox, a remote node |
| `mcp_server.py` | none of its own | `pip_handshake`, `pip_send_message`, `pip_exchange_data`, `pip_get_receipt`, public tools and resources | node, store |
| `envelope.py`, `canonical.py`, `schemas.py` | none | parse, sign and verify envelopes | node, clients |
| `identity.py`, `bootstrap.py`, `config.py` | the key file on the volume | generate, save, load the key; build the node | file system shared by the processes |
| `redaction.py` | none | mask fields and patterns of outbound payloads | node |
| `errors.py`, `observability.py`, `cli.py`, `clock.py` | metric counters | error codes, logging, commands, time | everything |

`docker-compose.yml` runs two processes, `pip-http` and `pip-mcp`, on one
volume: one sqlite database and one key file, but two policy engines, two
inboxes and two sets of token buckets.  Both are restarted when they die.
In a process requests are handled one after the other (`handle` is
synchronous and runs in the event loop), so what interleaves are processes,
the clock, `purge`, and crashes.  On the sending side a pass of
`deliver_outbox` works on a snapshot of the due items, may be cut short at any
point, and meets a network that loses, garbles or refuses.

### What makes it hard, and what must hold

- **Replay and idempotency across processes.**  The check of a key and its
  recording are two store calls; between them another process, a purge or a
  crash may come.  Must hold: an envelope passes the replay check once; the
  handler of a slot `(from, idempotency_key)` runs once; a stored response is
  kept for its time and never run again; no answer claims what did not happen.
- **The order of the checks.**  Only after the signature is verified may a
  request leave any trace: a nonce or a token taken on behalf of somebody who
  did not sign would silence him.
- **The token bucket under a clock that is no monotonic clock.**  Must hold:
  no window admits more than burst plus rate times length; nobody is refused
  who waited.
- **Delivery over failures.**  Must hold: an item leaves the queue only when
  the peer answered; attempts are bounded; every item ends delivered or dead;
  a settled item stays settled.
- **Delivery end to end.**  A call that broke may have reached the node, may be
  served to its end with nobody waiting, and may reach it after the next
  attempt; the resend is the identical envelope, whose nonce may be spent by
  then.  Must hold: what was marked delivered for a receipt or data was handled;
  what left the queue at all was taken up or denied, unless the node crashed;
  where no call broke, an item given up was barred or had been handled already.
- **Key rotation, consent expiry**: decisions that read the clock and meet
  answers computed earlier.
- **Start-up on an empty volume**: two processes that each may create the key,
  and `pip-node keygen`, which looks for the file, may be told to overwrite it,
  and truncates it before it writes.
- **Pages by offset** over a dataset that changes between two of them.  Must
  hold: nothing is repeated unless something was inserted, nothing skipped
  unless something was removed, and the walk ends whatever limit was asked for.
- **Masking at any depth.**  Must hold: what leaves is masked exactly where a
  field name or a pattern says so.

The hazards in `PROJECT.json` name the lines where each of these bites.

## 2. The modules

| Module | Models |
|---|---|
| `TokenBucket` | the arithmetic of one bucket (`_TokenBucket`, `check_rate`) |
| `RateLimiter` | `check_rate` over time: processes, peers, restarts, a clock that steps back, and an observer that opens a window at any moment |
| `Authorization` | peers, scopes, consents, `authorize`, and what `_dispatch` asks of it for each type of envelope |
| `Verification` | `verify_inbound` up to the replay check |
| `Store` | the nonce and idempotency tables of both backends, one operator per call |
| `Node` | the composition: server processes that take requests through `verify_inbound`, `_dispatch` or `pip_get_receipt` over the shared or private store |
| `Outbox` | the sender's queue with `deliver_outbox` and `HttpPeerClient.send` |
| `Delivery` | the composition of `Outbox` and `Node`: calls over HTTP that break, requests that arrive late, crashes at both ends |
| `Handover` | the abstract specification of `Delivery`: what a sender may conclude from its queue |
| `KeyFile` | nodes that load or create the instance key on one volume, and runs of `pip-node keygen` |
| `Paging` | a peer that walks over a dataset with cursors while the application changes it |
| `Redaction` | `redact_value` on JSON of any depth, and a reference definition of what has to be masked |
| `DataExchange` | the composition of the two: the walk with the redaction in it |
| `TokenBucketProofs`, `RateLimiterProofs`, `NodeProofs`, `OutboxProofs`, `DeliveryProofs`, `KeyFileProofs`, `PagingProofs`, `DataExchangeProofs` | the theorems; the first holds lemmas on one bucket that the next two share, `DeliveryProofs` builds on `NodeProofs` and `DataExchangeProofs` on `PagingProofs` |
| `MCRateLimiter`, `MCNode`, `MCOutbox`, `MCDelivery`, `MCDataExchange` | constants for the runs (`KeyFile` needs none) |

`Node` extends `Verification` (which extends `Authorization`), `TokenBucket`
and `Store`; `RateLimiter` extends `TokenBucket` too, so the bucket the limiter
proves about is the one the node uses.  `Delivery` extends `Node` and has
`Sender == INSTANCE Outbox`, so both ends are the modules that are checked by
themselves; `Abstract == INSTANCE Handover WITH ...` is the refinement mapping.

### Node

A process is at one of the steps `idle, nonce, lookup, dispatch, put, find,
reply` of its request `job[p]`.  Every call to the store is a step of its own,
because that is where another process may come in; what lies between two store
calls is one step with the later of them.

| Action | Code |
|---|---|
| `Verify`, `Refuse` | arrival at the inbox route (its bearer gate and body cut are `Barred`) or an MCP tool; the tool's type check; `verify_inbound` to the time window (it reads the clock and changes nothing) |
| `Admit`, `Replay` | `seen_nonce` and the payload validation after it |
| `Lookup` | the idempotent short-circuit of `_dispatch` |
| `Deny`, `RunHandler` | `check_rate`, the policy per type, the handler, the response |
| `Put` | `put_idempotent` |
| `Find` | `pip_get_receipt` after `verify_inbound` |
| `StoreBusy` | a sqlite write that waits 5 s in vain and raises |
| `Respond`, `Crash`, `PurgeStore`, `Tick` | the answer leaves; the process dies and is restarted; `Store.purge`; time |

`handled` and `admitted` are observers: the handler runs that succeeded, with
the time and the process of each, and how often each envelope passed the replay
check.

### Outbox

`pass[w]` is what is left of worker `w`'s snapshot, and `sending[w]` the item
it sent and has not marked yet, so a crash or another worker may fall in
between.  What is written back is computed from the copy, as in the code, so a
stale copy overwrites a newer row.  `delay` is the time left until
`next_attempt_at`.  The outcomes of a send are what `HttpPeerClient.send` can
do: return a receipt or data, *return* an ERROR envelope, raise a `PipError`
because the response is no signed answer to this envelope, or raise httpx's
exception.

### Delivery

`call[w]` is the call worker `w` waits on: the copy it sends and where the
request is - on its way, at a process of the node, or gone with one that died.
`strays` counts the requests nobody waits on any more that have not arrived.

| Action | Code |
|---|---|
| `Post`, `StartPass`, `Mark` | `Outbox.enqueue`, the snapshot of `deliver_outbox`, and what it writes back |
| `Dial`, `Arrive`, `ArriveLate` | `client.send` starts; its request reaches the inbox route, in time or after the call broke |
| `Serve` | a step of `Node` on a request, whether or not somebody waits for it |
| `Return`, `ReturnToNobody` | the response leaves; `HttpPeerClient.send` checks `in_reply_to` and returns or raises (`Outcome`) |
| `Break` | httpx times out, the connection is lost or refused, or a proxy answers; the request stays where it is |
| `SenderCrash`, `ServerCrash`, `PurgeTables`, `Clock` | a worker or a process dies; `Store.purge`; a second passes at both ends |

`confirmed` and `denied` are observers: the items marked delivered for a
receipt or data, and the envelopes answered with an error other than `REPLAY`.

`Handover` knows neither processes nor network: an item is posted, run, and
settled once as confirmed, refused or abandoned.  An item confirmed has been
run; one that is refused or abandoned may have been, may yet be, or never be;
none is run a second time before it lapses.  `status` is computed from the
queue and `confirmed`, `run` and `rerun` from the handler runs, `lapsed` from
`expires` and the clock.

### KeyFile

`file` is `Absent`, `Empty` (truncated by `os.open`, not written yet) or a key.
`Start` is `key_path.exists()` with the generation of a key, `Open` and `Write`
are the two system calls of `KeyPair.save`, `Load` is `KeyPair.load`, which
ends the process on an empty file.  `Keygen` is `out.exists()` and `--force`;
it goes on to the same two calls and then ends.  `used` records every key a
node ever ran with, `overlapped` whether two processes found no file before one
of them opened it, `forced` how often `--force` took the place of a file.  The
file's permission bits are left out: `save` always sets 0600, and `load`
refuses what somebody else has loosened.

### Paging, Redaction and DataExchange

`Serve` is `DictDataProvider.query` for the peer's cursor with the `DataPayload`
made of it, `Refuse` the page that `DataPayload` does not take because it has
more than `MAX_RECORDS`.  `Take` and `Lose` are what becomes of the response;
`AddRecord`, `InsertRecord` and `DeleteRecord` what the application does to its
list between two requests.  `got` is what the peer has, as it was in the
dataset, `received` as it came over the wire.

`Redaction` gives values as tagged records, a dict as the sequence of its
items, and a pattern as the set of tokens it matches.  `Json` is the values
nested at most `Depth` deep, and `redact` a recursive function on it: `Items`
is the branch for dicts, `RedactText` the loop over the patterns.  Nothing asks
that the names of a dict differ, which only adds values.  The reference
definition takes a value apart into leaves with the path to each: a leaf is
masked at the first sensitive name on its path, and otherwise token by token.

### Abstractions

- Time is in whole seconds and there is one clock per model; the store's
  `datetime.now` and the node's `clock` are the same.  Only `RateLimiter` lets
  it step back.
- Tokens are counted in sixtieths, which makes the refill exact; the code's
  floats may be off by a rounding error.
- JSON is nested at most `Depth` deep, any number; that the interpreter gives up
  on nesting beyond its recursion limit is left out.
- An envelope is a record.  `kid` is the key its signature names and
  `signedBy` the key that made it, over exactly these fields; Ed25519 is taken
  as unforgeable and canonical JSON as injective.  Instance ids are the
  constant function `InstanceId` of keys.
- Payload validation is a flag of the envelope, the payload size a number.
- `Handlers` says what the handlers of each type of envelope may do, the default
  ones or those registered with `Node.on`; any set of `Outcomes` is allowed, which
  are the cases `_dispatch` and `handle` tell apart (`node.py:278-281,336-350`).
  `None` and what is no payload become an accepted receipt, so they are one
  outcome; a `ReceiptPayload` is denoted by its status, and its reference is taken
  to be the id of the envelope it answers, as `docs/PROTOCOL.md:73` has it; a
  `PipError` is answered like an `ErrorPayload`.  What a registered handler does
  elsewhere is not modelled; only the default handlers touch `Node.inbox`.
- The policy does not change while a node runs (nothing in the code reloads
  it).
- A peer that walks over a dataset sends only cursors the node gave it, keeps
  its limit, and asks for a page again in a new envelope without an idempotency
  key.  `dataset` holds just the records that match the query's filter, so an
  edit is an insertion or a removal.
- A token of a text is matched by a pattern as a whole or not at all.
- In `Delivery` the node serves its inbox route only, to which every call of
  `HttpPeerClient.send` goes, and every item has a client.
- `purge` may happen at any time: no code of the repository calls it, an
  embedding application does.
- Several processes need a shared store, so `NodeAssumption` allows
  `Backend = "memory"` with one process only.
- The outbox of a worker holds envelopes that parse; a row whose envelope does
  not is declared dead without a send, which the model leaves out.
- The operators marked "Faulty variant" are bugs planted for comparison: each
  run is repeated with one of them in place of the definition that follows it,
  and the property has to fail.  No specification uses them.

## 3. The runs

| Run | Checks | Instance | Distinct states |
|---|---|---|---|
| `rate_limiter` | `TypeOK`, `WindowBound`, `RefusedOnlyWhenSpent` | one process, two peers, 40 a minute (no whole number of seconds per token), burst 2, clock and window up to 5 s, one step back | 147,926 |
| `node_memory` | `TypeOK`, `EffectivelyOnce`, `StoredReceiptBacked`, `OnlyTrustedHandled`, `NoTraceOfForgeries` | MemoryStore behind the inbox and the MCP tools; good envelopes, a retry, a stranger's handshake and message, an old key, a bad payload, a missing bearer token, a body that is cut, and nine kinds of envelope that must be refused; a handler for messages that may declare an error or raise, for data that may return None or a receipt, for handshakes that may answer with its own; 2 requests, 1 crash, 4 s | 429,299 |
| `node_shared` | `TruthfulReply`, `OncePerProcess`, `RunsWithinRate`, `StoredReceiptBacked`, `AdmitOnce` | two processes, one database; a message and its retry, a data request, and a query for each; a handler for messages that may declare an error, for data that may return a receipt; 3 requests, 1 failed write, 2 s; the processes are symmetric | 936,810 |
| `outbox` | `TypeOK`, `RemovedOnlyAnswered`, `SendsBounded`, `SettledIsFinal`, `EventuallySettled` | one worker, two items (one without a client), 3 attempts, backoff 1, 2, 3 (capped), 1 crash | 1,646 |
| `key_file` | `TypeOK`, `OneIdentity`, `IdentitiesBounded`, `EventuallyUp` | two nodes and one place `keygen` is run from, one forced replacement, 2 crashes | 20,569 |
| `delivery` | `GoneIsTakenUp`, `DeadWasDuplicate`, `NoRerunOnceStored`, `HandoverKept`, `LiveReceiptKept` | one worker, one process on sqlite; a message and the application's own retry of it under the same idempotency key; 2 attempts, 3 requests, 2 s, and two failures of any kind: a broken call, a failed write, a crash of the worker, a crash of the node | 418,730 |
| `data_exchange` | `TypeOK`, `NoRepeatUnlessInserted`, `NoSkipUnlessRemoved`, `PrefixUnlessChanged`, `SentExactlyMasked`, `WalkEnds` | datasets of 0 to 4 of 6 records, page size 1, limits none, 0, 2 and 3, at most 2 records to a page, 2 changes | 35,941 |
| `race`, `consent`, `raw_exception`, `rotation`, `lost` | one property each, violated | see section 6 | |

Why the bounds are enough.  A slot's fate is decided by its first request and
one retry, so two requests show a rerun and the third a rerun of a rerun or a
lookup in between; envelopes may arrive any number of times within the bound.
In `node_memory` the clock reaches past the expiry of the envelopes (2 or 3), of
the receipts (`IdemTtl` 2), of the consent (2) and of the grace period (3), so every
comparison is met from both sides and at equality; in `node_shared` and `delivery`,
which are about interleavings, it reaches the expiry of the first envelope and of
its receipt.  One crash can fall between
any two steps.  Burst 1 makes the second request of a second a refused one;
burst 2 lets two processes go through at once.  Three attempts make a first
failure, a second one whose delay doubles, and a last one whose delay is
capped.  In `delivery` two attempts and a late arrival make three requests,
enough for a resend that meets its own first copy before, during and after it
is served; the constraint `TwoFailures` lets any two failures fall together.
In `data_exchange` a limit of 2 leaves a page over in datasets of 3 and 4, a
limit of 3 is above the cap, and a limit of 0 is below the least page; two
changes allow one before and one after the cursor.

Deadlock is checked in the node and limiter runs: `PurgeStore` or
`OpenWindow` is always possible, so this only says that no evaluation is
stuck.  It is switched off for the outbox, which comes to rest when all items
are settled, for the key file, which does when all nodes run and nobody may
overwrite the key again, and for the walk, which ends.

### Fairness

`EventuallySettled` assumes that time passes and that the application keeps calling
`deliver_outbox` (`WF_vars(Tick)`, `WF_vars(Work(w))`); nothing is assumed of
the network, which may refuse for ever: the item is then dead.  `EventuallyUp`
assumes that a starting node goes on and is started again when it ended
(`WF_vars(Start(p) \/ Load(p))`, `restart: unless-stopped` in compose), and that
whoever opened the file writes it (`WF_vars(Save(p))`); nobody has to run
`keygen`.  `WalkEnds` assumes that the node answers a request
(`WF_vars(Serve \/ Refuse)`) and that a peer that asks again and again gets some
response in the end (`SF_vars(Take)`): a network that loses every response ends
no walk.

## 4. What is proved

The theorems hold for every value of the constants that satisfies the named
assumptions: any number of processes, workers, peers, keys and envelopes, any
policy, any bound on crashes, requests and time.  The assumptions are
`BucketAssumption` (rate and burst are integers), `BackendAssumption`,
`NodeAssumption` (expiry times are natural numbers, tools and types of envelopes
are those of the code, a handler may do anything of `Outcomes`, a memory store
belongs to one process), `OutboxAssumption` and
`DeliveryAssumption` (`max_attempts` is positive, delays are natural numbers),
`FreshAssumption` (no two envelopes share an id or a nonce, which `new_id` and
`new_nonce` see to), `KeyFileAssumption` (finitely many processes, and `keygen`
is none of the nodes), `PagingAssumption` (page sizes are positive, limits
are integers, a dataset does not begin with a record twice), `RedactionAssumption`
(a pattern matches tokens, and what it leaves in their place is one) and
`ExchangeAssumption` (records are JSON, and what is done to them is
`redact_value`).  Where a theorem
needs more it says so in its ASSUME, and the runs of section 3 use an instance
of it.

| Module | Theorem | States | Assumes |
|---|---|---|---|
| `RateLimiterProofs` | `TypeCorrect` | `TypeOK` | |
| | `WindowBoundHolds` | `WindowBound` | |
| | `RefusalsAreSpent` | `RefusedOnlyWhenSpent` | |
| `NodeProofs` | `TypeCorrect` | `TypeOK` | |
| | `AdmittedOnce` | `AdmitOnce` | sqlite |
| | `TrustedHandled` | `OnlyTrustedHandled` | |
| | `ForgeriesLeaveNoTrace` | `NoTraceOfForgeries`, an action property | |
| | `NeverRerun` | `NoRerunOnceStored` | one process |
| | `LiveReceiptsStay` | `LiveReceiptKept` | one process, sqlite |
| | `HandledOncePerProcess` | `OncePerProcess` | no handler that answers an envelope with a key with a handshake (`NoHandshakes`) |
| | `HandledOnce` | `EffectivelyOnce` | one process, `NoHandshakes` |
| | `HandlersWithinRate` | `RunsWithinRate` | |
| | `RepliesTruthful` | `TruthfulReply` | |
| | `ReceiptsBacked` | `StoredReceiptBacked`, which asks that no registered handler takes messages from the default one (`MessagesKept`) | no peer uses an id twice |
| `OutboxProofs` | `TypeCorrect` | `TypeOK` | |
| | `NothingLostUnanswered` | `RemovedOnlyAnswered` | |
| | `SettledStays` | `SettledIsFinal` | one worker |
| | `SendsAreBounded` | `SendsBounded` | one worker |
| `DeliveryProofs` | `SenderRefined` | `DeliverySpec` implements `Outbox` | |
| | `ReceiverRefined` | `DeliverySpec` implements `Node` | the inbox is served |
| | `DeliveryTypeCorrect` | `DeliveryTypeOK`, the types of both ends and of the calls (no run checks it) | the inbox is served |
| | `HandedOver` | `HandoverKept`: `DeliverySpec` implements `Handover` | sqlite, one worker, the inbox is served |
| | `GoneAccounted` | `GoneIsTakenUp` | the inbox is served |
| | `DeadAccounted` | `DeadWasDuplicate` | the inbox is served |
| | `ConfirmedWasRun` | of `Handover`, that what is confirmed was run and that reruns are past their time | sqlite, the inbox is served |
| `KeyFileProofs` | `TypeCorrect` | `TypeOK` | |
| | `OneIdentityHolds` | `OneIdentity` | |
| | `FewIdentities` | `IdentitiesBounded` | |
| `PagingProofs` | `TypeCorrect` | `TypeOK` | |
| | `NoRepeats` | `NoRepeatUnlessInserted` | |
| | `NoSkips` | `NoSkipUnlessRemoved` | |
| | `Prefix` | `PrefixUnlessChanged` | |
| `DataExchangeProofs` | `MaskedAtEveryDepth` | `ExactlyMasked` of every JSON value and what `redact_value` makes of it | |
| | `SentMasked` | `SentExactlyMasked` | |

The theorems of `Delivery` hold for any number of processes of the node, and all
but `HandedOver` for any number of workers.  With two workers a stale copy may
bring back an item that was settled (hazard at `delivery.py:66`), so an item may be
settled more than once; what several workers leave of `Handover` is
`ConfirmedWasRun`.

That three of the node's need one process is not a weakness of the proofs: the run
`race` shows `EffectivelyOnce` violated with two, and by the same interleaving a
second process puts a row where `SlotFree` needs none.  What holds with any number
is `OncePerProcess`: two runs of one slot that overlap are of different processes.

### The arguments

- **`WindowBound`.**  The bound itself is not inductive; `Potential` is: what
  was admitted since the window opened, plus what the bucket would hold if it
  were refilled now, is at most the capacity plus what the time passed in the
  window refills.  An admission moves a token from one term to the other; a
  second adds as much to either side; a clock that is set back only takes
  tokens away, because the code's refill is then negative.
- **`RefusedOnlyWhenSpent`.**  While the clock is not set back, a bucket's time
  of update is never ahead of the clock, and holds at least what has been
  refilled since the last admission.
- **`TypeOK` of the node** needs `PutReady`: what waits to be stored is a receipt
  or data response to an envelope with an idempotency key (`TInv`).  What handlers
  answer is taken apart once, in `HandlerResponses`.
- **`AdmitOnce`.**  `NonceKept`: an envelope that passed the replay check and
  has not expired has its nonce on record.  `purge` drops rows that expired, a
  crash leaves the database, and a second `Admit` finds the row.
- **`OnlyTrustedHandled`, `NoTraceOfForgeries`.**  `WorkAuthentic`: a process
  that is past the header checks works on an authentic envelope; it holds
  because `Verify` is the only way there, and the key a process checks with
  does not change.  Each action that adds a nonce or touches a bucket is a step of
  such a process, for its own envelope and in its sender's name (`NonceTrace`,
  `TokenTrace`), and no other action changes either but to drop rows or, in a
  crash, all buckets of the process.
- **`NoRerunOnceStored`, `LiveReceiptKept`.**  `SlotFree`: from the lookup of a
  slot to the storing of its response nothing live is stored in it.  With one
  process nobody else can store; time and purge only take rows away.  A
  request without a key comes to `dispatch` without a lookup, but no row has
  its key.
- **`OncePerProcess`, `EffectivelyOnce`.**  `RunsCovered`: a run of a handler in
  the past is over its time, or its response waits in `put` of the process that
  ran it, or the slot has a row that lives at least as long.  Another process may
  replace that row (the run `race`), but only by one that lives no shorter, since
  a later `put` counts its time from a later clock.  So a process that comes to
  `dispatch` through a lookup that found nothing is past the time of all its own
  runs (`FreeSlotIsOver`, `OwnRunsOver`).  A crash or a failed write between handler
  and `put` breaks exactly this, so the invariant carries the proviso that nothing
  failed.  With one process all runs are its own, which gives `EffectivelyOnce`.
  A handler that answers a keyed envelope with a handshake is outside: `_dispatch`
  stores receipts and data only (`node.py:352`), so nothing keeps it from a rerun.
- **`RunsWithinRate`.**  A count over all pairs of times is not inductive, so
  `RunsPaid` follows each span that is still open: the handler runs in it, plus
  what the bucket would hold if it were refilled now, are at most what the bucket
  may hold, once more for each crash, and what the time passed since the span
  began refills.  A run takes its token out of the bucket (`SpendStep`), a crash
  fills the bucket and raises the allowance, a second raises both sides; and of a
  span that is over nothing changes any more (`PastRunsStay`).  The bucket's own
  facts are those of `TokenBucketProofs`, the ones `WindowBound` rests on.
- **`RemovedOnlyAnswered`.**  `AnswerRecorded`: an item whose answer a worker
  has in hand was answered, and stays so.
- **`SettledIsFinal`, `SendsBounded`.**  `CopiesFresh`: what a single worker
  still has in its snapshot is in the outbox as it was read, alive and due to
  this pass; `SendsCounted`: sends exceed the recorded attempts by at most one
  in flight and one per crash.
- **`TruthfulReply`.**  `TruthInv`: a reply that says something was handled, a
  row of the idempotency table and a request that waits in `put` each have a
  run of a handler behind them, and the run is for the envelope the reply
  names or for its slot.  The observer `handled` only grows, so neither a crash
  nor a purge takes the run away.
- **`StoredReceiptBacked`.**  `BackInv`: a message whose receipt is stored, or
  about to be, is in an inbox, on sqlite as long as no process has crashed.  The
  crash of a process with a memory store, which belongs to it alone, empties both.
  It needs `MessagesKept`: a handler registered for messages that returns None, a
  receipt or data has its response stored while nothing goes to an inbox, and what
  it did with the message is its own affair.
- **`SenderRefined`, `ReceiverRefined`.**  Each step of the composition is a step
  or a stutter of the queue, and of the node.  The prover cannot use a theorem
  of an instantiated module, so the invariants of the queue that are needed
  (`QueueInv`, `AnsweredInv`, `FreshInv`) are proved again for the composition;
  those of the node are carried over (`PartsInv`).
- **`HandoverKept`.**  `LinkInv` ties the parts together: a worker waits on an
  item of its snapshot that is not sent, the process a call is at works on that
  item, and only what was posted reaches the node.  `WorkOnce` (from
  `NonceKept`): before an envelope expires, one process at most is past the
  replay check with it, and only if no handler ran for it, so a step of a
  handler is an abstract `Run` of an item that has not run or has lapsed.
  `HandInv`: an answer taken for accepted, by `TruthInv` and `RepliesPlain` and
  because it names this envelope, comes from a handler that ran for it; so a
  `Mark` is an abstract `Confirm` only of what has been run.
- **`ConfirmedWasRun`.**  Of the parts of `HandInv` those that do not speak of one
  copy per item: `WorkOnce` and `NonceKept` are about the node, and an answer
  stands for a run whoever asked.  That a call ends at the process it was served by
  needs no worker to be alone, only that no two calls are at one process
  (`CallsServed`).
- **`GoneIsTakenUp`.**  `SafeInv`, while the node has not crashed: an envelope
  that was admitted is handled, shares its slot with one that was, is denied, or
  is being worked on.  A nonce on record was left by an envelope that was
  admitted (`NoncesAdmitted`), and by `FreshAssumption` by this very one; so an
  answer `REPLAY` is as safe as the first copy.  A crash between the nonce and
  the handler breaks exactly this, which is the run `lost`.
- **`DeadWasDuplicate`.**  `DoomInv`: where no call breaks and no process dies, a
  send ends with an answer to this envelope or with one that names none or
  another.  By `RepliesPlain` the first is the gate of the inbox route, and the
  second a duplicate receipt or a stored response of the slot.
- **`OneIdentity`.**  `OneCreator`: as long as no two processes found the file
  missing at the same time and nobody used `--force`, at most one is between its
  check and its write, the file is absent until it opens it and empty until it
  writes it.
- **`IdentitiesBounded`.**  `CountInv`: the keys that are known, in the file or
  used by a node, and the processes that have yet to write one are together no
  more than the processes and the forced replacements.  A process gets to be
  one that writes before there is any file, when no key is known, or by force.
- **`NoRepeatUnlessInserted`.**  `Fresh`: nothing behind the cursor, and nothing
  of a page under way, is among what the peer has.  A removal only moves
  records to the front, where they are not looked for again.
- **`NoSkipUnlessRemoved`.**  `Kept`: each record of the beginning has arrived,
  is on its way, or lies behind the cursor.  An insertion only moves it back.
- **`PrefixUnlessChanged`.**  `InStep`: the cursor is the number of records the
  peer has.
- **`MaskedAtEveryDepth`.**  The library's induction theorems take an operator,
  which the provers cannot instantiate, so a claim about all values is proved of
  the set of those it fails for: that set has no member of least nesting
  (`LeastRank`), hence none.  That the recursive definitions define functions at
  all is proved the same way (`Recursion`, for any step that looks at lower ranks
  only) and used for the levels of JSON (`Levels`), for `redact` (`Redacts`) and
  for the leaves (`LeavesFound`).  The patterns applied one after the other mask
  the tokens any of them matches (`TextMasked`): a mask that a later pattern
  matches is masked again and stays what it is.  The leaves of a redacted dict or
  list are those of its redacted parts with one more step before their paths;
  `MaskedLonger` says that masking a leaf commutes with that step, unless the step
  is a sensitive name, and then all leaves behind it fall together into one.
- **`SentExactlyMasked`.**  `SentRedacted`: what has arrived is, record for
  record, `redact_value` of what the peer has.  A page is cut before it is
  redacted, so the two sequences grow by the same records.

## 5. What is only model-checked, and what is not modelled

Only model-checked: the liveness properties `EventuallySettled`, `EventuallyUp`
and `WalkEnds`, because the prover has no
rule for fairness and ENABLED that could be used here.  Every other property of
a passing run is proved.

Not modelled:

- building outbound envelopes (`node.py:114-190`): ids and nonces are fresh
  (`FreshAssumption`), the rest is filling in fields and signing;
- the branch of `redact_payload` for messages, which applies the same
  `redact_value` to three fields;
- an abstract store: the operators of `Store` are already shared by both
  backends, and their two differences, `FindReceiptByRef` and `AfterCrash`,
  stand in one operator each;
- the other HTTP routes (`well-known`, health, metrics), headers and status
  codes, MCP resources, prompts and public tools: no state, no order to get
  wrong;
- metrics and log lines: nothing reads them back;
- the commands of the command line other than `keygen`: argument parsing around
  the other components, which they start as a node does;
- parsing of envelopes and payloads, canonical JSON, the text of SQL statements
  and the conversion of rows to JSON and back: a parsed envelope is the input,
  and whether its payload is valid a flag;
- the policy file: loading it is input, and nothing reloads it;
- a clock that differs between sender and node, and one that steps back, outside
  of `RateLimiter`.

## 6. Findings

Five runs end in a violation.  Each compares what a document of the repository
says with what the code does.

- **`race`.**  `docs/PROTOCOL.md:149` promises effectively-once handling by
  idempotency keys and `docs/DEPLOYMENT.md:53-54` that the two processes may
  share the database.  `_dispatch` looks the key up (`node.py:305`) and stores
  the response (`node.py:356`) in two store calls.  A message and its retry
  under a fresh nonce that reach `pip-http` and `pip-mcp` at the same time are
  both handled.  The second receipt replaces the first.
- **`consent`.**  `docs/PROTOCOL.md:65-66` puts policy and consent before the
  handler's answer.  The short-circuit (`node.py:306`) returns a stored data
  response before `authorize` is asked, so a retry gets the data after its
  consent has run out.
- **`raw_exception`.**  `docs/PROTOCOL.md:195-197` says of the MCP tools that
  errors are returned as signed `error` envelopes and never raised as raw
  exceptions (`README.md:79-80` says the same).  `pip_get_receipt` catches
  `PipError` only (`mcp_server.py:93-102`).  `verify_inbound` records the nonce of
  the query, and with the database shared that write may wait five seconds for
  another process and raise `sqlite3.OperationalError` (`store.py:153`), which then
  leaves the tool as it is.  The other tools go through `handle`, which answers
  `INTERNAL`.
- **`rotation`.**  `docs/SECURITY.md:15-16` says that peers accept the old key
  during the grace period.  `verify_inbound` requires the signature's key to
  hash to the sender id, and looks the peer record up by that id.  For a
  record whose `instance_id` is the hash of its `public_key`, an envelope with
  the old key is an identity mismatch under the peer's id and unknown under
  the key's own; the list of previous keys is never reached.
- **`lost`.**  `docs/PROTOCOL.md:147-149` promises delivery at least once, by
  retries under the same idempotency key.  The queue resends the identical
  envelope, and `verify_inbound` spends its nonce (`node.py:247`) before the
  handler runs.  When the node dies in between, the resend is answered
  `REPLAY`; `HttpPeerClient.send` returns that like any other answer and
  `deliver_outbox` marks the item delivered (`http.py:180`), though no handler
  ever ran for it.  By the same line an item is marked delivered that the peer
  refused with `RATE_LIMITED` or `INTERNAL`.

Met while modelling, and kept as hazards or noted here:

- At the instant `now == expires` an envelope is still accepted but `purge`
  already drops its nonce, so `AdmitOnce` is stated strictly before `expires`,
  and `Handover` allows a second run once an item has lapsed.
- With a sqlite store the receipts outlive `Node.inbox`, so a retry after a
  restart is told `duplicate` of a message that no inbox holds any more
  (on sqlite `StoredReceiptBacked` is stated until a process crashes).
- By the order of `node.py:339-352` the receipt of a message is stored whatever
  handler took it; that it is in `Node.inbox` holds for the default handler only.
- A retry with the same idempotency key in an envelope of its own gets a
  duplicate receipt that names the first envelope.  The sender's check of
  `in_reply_to` takes that for an invalid answer, and the item is declared dead
  although the message was handled (`DeadWasDuplicate` says when).
- `docs/DEPLOYMENT.md:34,53` takes the shared volume for a shared identity:
  processes that start together on an empty one each create a key
  (`bootstrap.py:17`), and run with different ones until they are restarted.  A
  creator that dies between truncating and writing the file leaves one no
  process can start on (`identity.py:86`).
- `keygen` without `--force` asks whether the file exists and then truncates it
  (`cli.py:19`): the key of a node that started in between is lost.
- A `limit` or `page_size` above `MAX_RECORDS` makes the node refuse its own
  page, and the peer is told a retryable `INTERNAL` however often it asks.
- `query` takes a cursor as any integer: a negative one slices from the end.  The
  node never gives one out, so `Paging` does not ask for it.

## 7. What could follow

Every safety and action property of a passing run has a theorem; what is left
out (section 5) has no state of its own.  Should the code change, three places
are worth a look first, because the statements here carry a condition on their
account: the two store calls of the idempotency check (`EffectivelyOnce` asks
for one process), the nonce that is spent before the handler runs
(`GoneIsTakenUp` asks for a node that does not crash), and `mark_failed`, which
writes back a copy without looking at the row (`SettledIsFinal` and
`HandoverKept` ask for one worker).
