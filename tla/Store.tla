------------------------------- MODULE Store -------------------------------
(***************************************************************************)
(* store.py: the nonce and idempotency tables of MemoryStore and           *)
(* SqliteStore, as operators on their sets of rows.  Each operator is one  *)
(* call, atomic under the store's lock (and, for sqlite, its transaction). *)
(*                                                                         *)
(*   nonce row        [peer, nonce, expires]                               *)
(*   idempotency row  [peer, key, ref, expires, type]: the stored response *)
(*                    of type "receipt" or "data" to the envelope with id  *)
(*                    ref.                                                 *)
(***************************************************************************)
EXTENDS Integers

CONSTANT Backend    \* "memory" (MemoryStore) or "sqlite" (SqliteStore)

ASSUME BackendAssumption == Backend \in {"memory", "sqlite"}

\* What a lookup that finds nothing returns.
NoRow == [type |-> "none"]

\* Faulty variant: the nonce is kept until the wrong time.
NonceRowBrief(e) == [peer |-> e.from, nonce |-> e.nonce, expires |-> e.ts]

NonceRow(e) == [peer |-> e.from, nonce |-> e.nonce, expires |-> e.expires]

\* seen_nonce returns True: a row with this primary key is there, expired or not.
SeenNonce(nonces, e) == \E r \in nonces : r.peer = e.from /\ r.nonce = e.nonce

\* Faulty variant: the comparison the other way round.
Outdated(row, now) == row.expires <= now

\* The lookups hide a row once its expiry is past.
Live(row, now) == row.expires >= now

SameSlot(row, peer, key) == row.peer = peer /\ row.key = key

\* Faulty variant: the key is left out of the query.
GetAnyOfPeer(rows, peer, key, now) == {r \in rows : r.peer = peer /\ Live(r, now)}

GetIdempotent(rows, peer, key, now) ==
    {r \in rows : SameSlot(r, peer, key) /\ Live(r, now)}

\* INSERT OR REPLACE, or a dict assignment: an older row of the slot is lost.
PutIdempotent(rows, row) ==
    {r \in rows : ~SameSlot(r, row.peer, row.key)} \cup {row}

\* The results find_receipt_by_ref may return.  MemoryStore looks for a live
\* receipt whose payload names ref, so never finds a data response; SqliteStore
\* takes some row with that ref, and then looks at its expiry.
FindReceiptByRef(rows, peer, ref, now) ==
    LET candidates == {r \in rows : /\ r.peer = peer /\ r.ref = ref
                                    /\ Backend = "memory" =>
                                         r.type = "receipt" /\ Live(r, now)}
    IN  IF candidates = {} THEN {NoRow}
        ELSE {IF Live(r, now) THEN r ELSE NoRow : r \in candidates}

\* Faulty variant: a memory store that survives its process.
Durable(rows) == rows

\* What is left of a table when the process that uses it dies.
AfterCrash(rows) == IF Backend = "memory" THEN {} ELSE rows

\* Faulty variant: the comparison the other way round.
PurgeLive(rows, now) == {r \in rows : r.expires <= now}

\* purge keeps the rows that expire after now.
Purge(rows, now) == {r \in rows : r.expires > now}
=============================================================================
