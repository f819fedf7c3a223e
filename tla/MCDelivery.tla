----------------------------- MODULE MCDelivery -----------------------------
(***************************************************************************)
(* Peers and envelopes for checking Delivery: peer a posts to the node.    *)
(***************************************************************************)
EXTENDS Delivery, TLC

MCInstanceId == "ka" :> "a"

MCPeerRecords ==
    "a" :> [public_key |-> "ka", previous_keys |-> {},
            scopes |-> {Scope("messages", "send")}, consents |-> {}]

\* A message with an idempotency key, and the application's own retry of it:
\* a new envelope with the same key.
First ==
    [id |-> "m1", nonce |-> "n1", from |-> "a", to |-> "self", pip |-> 1,
     size |-> 1, kid |-> "ka", signedBy |-> "ka", ts |-> 0, expires |-> 1,
     key |-> "k", type |-> "message", op |-> "none", dataset |-> "none",
     ref |-> "none", payloadValid |-> TRUE]
Second == [First EXCEPT !.id = "m2", !.nonce = "n2", !.ts = 1, !.expires = 2]

NoScopes == {}
DefaultHandlers == [t \in EnvelopeTypes |-> {"default"}]
Inbox == [p \in Procs |-> {"inbox"}]
Posted == {First, Second}
PostedOnce == {First}

\* Two failures on a way through the instance, of whatever kind.
TwoFailures == crashes + senderCrashes + breaks + busy <= 2
=============================================================================
