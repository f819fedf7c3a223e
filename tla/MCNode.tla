------------------------------- MODULE MCNode -------------------------------
(***************************************************************************)
(* Peers, policies and envelopes for checking Node.  Keys are named after  *)
(* the instance they hash to: "ka" is a's key, "kaOld" its previous one.   *)
(***************************************************************************)
EXTENDS Node, TLC

MCInstanceId == ("ka" :> "a") @@ ("kb" :> "b") @@ ("kaOld" :> "aOld")

\* a may do everything, and may read notes for two seconds only; it rotated
\* its key at 0.  b is a stranger.
MCPeerRecords ==
    "a" :> [public_key |-> "ka",
            previous_keys |-> {[public_key |-> "kaOld", rotated_at |-> 0]},
            scopes |-> {Scope("messages", "*"), Scope("data", "request")},
            consents |-> {[resource |-> "notes", actions |-> {"read"},
                           forever |-> FALSE, expires |-> 2]}]

\* A good message of a with idempotency key "k"; the others differ from it.
Base ==
    [id |-> "m1", nonce |-> "n1", from |-> "a", to |-> "self", pip |-> 1,
     size |-> 1, kid |-> "ka", signedBy |-> "ka", ts |-> 0, expires |-> 2,
     key |-> "k", type |-> "message", op |-> "none", dataset |-> "none",
     ref |-> "none", payloadValid |-> TRUE]

\* A retry with the same key; a data request; a query for m1's receipt.
Retry == [Base EXCEPT !.id = "m2", !.nonce = "n2", !.ts = 1, !.expires = 3]
Ask == [Base EXCEPT !.id = "d1", !.nonce = "n3", !.type = "data", !.key = "q",
                    !.op = "request", !.dataset = "notes", !.expires = 3]
AskAgain == [Ask EXCEPT !.id = "d2", !.nonce = "n4", !.ts = 2, !.expires = 4]
Query == [Base EXCEPT !.id = "r1", !.nonce = "n5", !.type = "receipt",
                      !.key = NoKey, !.ref = "m1", !.expires = 3]
QueryData == [Query EXCEPT !.id = "r2", !.nonce = "n6", !.ref = "d1"]
Hello == [Base EXCEPT !.id = "h1", !.nonce = "n7", !.type = "handshake",
                      !.from = "b", !.kid = "kb", !.signedBy = "kb", !.key = NoKey]

\* What verify_inbound has to refuse: altered, re-addressed, in another's
\* name, unsigned, too big, of another version, of a wrong time.
Forgeries ==
    {[Base EXCEPT !.id = "f1", !.nonce = "f", !.signedBy = "kb"],
     [Base EXCEPT !.id = "f2", !.nonce = "f", !.to = "other"],
     [Base EXCEPT !.id = "f3", !.nonce = "f", !.kid = "kb", !.signedBy = "kb"],
     [Base EXCEPT !.id = "f4", !.nonce = "f", !.kid = NoSig],
     [Base EXCEPT !.id = "f5", !.nonce = "n8", !.size = 2],
     [Base EXCEPT !.id = "f6", !.nonce = "n8", !.pip = 2],
     [Base EXCEPT !.id = "f7", !.nonce = "n8", !.expires = 9],
     [Base EXCEPT !.id = "f8", !.nonce = "n8", !.ts = 4, !.expires = 5],
     [Base EXCEPT !.id = "f9", !.nonce = "n8", !.kid = "kx"]}
\* A stranger's message, and one in the name of a that a's old key signed.
Strange == [Hello EXCEPT !.id = "s1", !.nonce = "s", !.type = "message"]
OldKey == [Base EXCEPT !.id = "o1", !.nonce = "o", !.kid = "kaOld", !.signedBy = "kaOld"]
OldSelf == [OldKey EXCEPT !.id = "o2", !.from = "aOld"]
\* Too big for the inbox, and one that comes without a token.
Huge == [Base EXCEPT !.id = "f10", !.nonce = "huge", !.size = 3]
Tokenless == [Base EXCEPT !.id = "u1", !.nonce = "u"]
BadPayload == [Base EXCEPT !.id = "b1", !.nonce = "b", !.payloadValid = FALSE]

-----------------------------------------------------------------------------
(* What the runs give the constants.                                       *)

NoScopes == {}
Sym == Permutations(Procs)

McpTools == {"pip_handshake", "pip_send_message", "pip_exchange_data", "pip_get_receipt"}
Inbox == [p \in Procs |-> {"inbox"}]
McpAndInbox == [p \in Procs |-> McpTools \cup {"inbox"}]
InboxAndQueries == [p \in Procs |-> {"inbox", "pip_get_receipt"}]

\* No handler registered; handlers that fail, refuse or answer by themselves.
DefaultHandlers == [t \in EnvelopeTypes |-> {"default"}]
MemoryHandlers == [DefaultHandlers EXCEPT !["handshake"] = {"default", "handshake"},
                                          !["message"] = {"default", "error", "raise"},
                                          !["data"] = {"default", "none", "delivered"}]
SharedHandlers == [DefaultHandlers EXCEPT !["message"] = {"default", "error"},
                                          !["data"] = {"default", "delivered"}]

Retries == {Base, Retry}
DataRetries == {Ask, AskAgain}
Lookups == {Base, Retry, Ask, Query, QueryData}
Queries == {Base, Query}
OldKeys == {OldKey, OldSelf}
Admission == Forgeries \cup {Base, Retry, Ask, Hello, Strange, OldKey, OldSelf,
                           BadPayload, Huge, Tokenless}
NoToken == {Tokenless}
=============================================================================
