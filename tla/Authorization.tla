--------------------------- MODULE Authorization ---------------------------
(***************************************************************************)
(* policy.py: the policy file's peers and what PolicyEngine.authorize      *)
(* lets them do, and node.py's choice of what an envelope needs.           *)
(*                                                                         *)
(* A scope "ns:act" is the record [ns, act]; the wildcard has act = "*".   *)
(***************************************************************************)
EXTENDS Integers

CONSTANTS
    PeerRecords,    \* instance_id -> PeerRecord, for the peers in the file
    DefaultScopes   \* policy.default_scopes

OK == "OK"

Scope(ns, act) == [ns |-> ns, act |-> act]

\* PolicyEngine.get_peer is not None
IsKnown(x) == x \in DOMAIN PeerRecords

\* Equal, a wildcard of the same namespace, or admin:*, which grants all.
ScopeGrants(granted, required) ==
    \/ granted = required
    \/ granted.act = "*" /\ granted.ns \in {required.ns, "admin"}

HasScope(x, scope) ==
    \E g \in PeerRecords[x].scopes \cup DefaultScopes : ScopeGrants(g, scope)

\* A consent whose expires is None is [forever |-> TRUE, ...].
Allows(consent, resource, action, now) ==
    /\ consent.resource = resource
    /\ action \in consent.actions
    /\ consent.forever \/ now < consent.expires

\* Faulty variant: a peer that is not in the file is let through.
AuthorizeStranger(x, scope) ==
    IF IsKnown(x) /\ ~HasScope(x, scope) THEN "FORBIDDEN" ELSE OK

\* authorize(peer, scope): OK or the code of the PipError it raises.
Authorize(x, scope) ==
    IF ~IsKnown(x) THEN "UNKNOWN_PEER"
    ELSE IF ~HasScope(x, scope) THEN "FORBIDDEN" ELSE OK

\* authorize(peer, scope, resource=..., action=...)
AuthorizeResource(x, scope, resource, action, now) ==
    IF /\ Authorize(x, scope) = OK
       /\ ~\E c \in PeerRecords[x].consents : Allows(c, resource, action, now)
    THEN "CONSENT_REQUIRED" ELSE Authorize(x, scope)

\* The policy/consent part of Node._dispatch, per type of envelope.
AuthorizeEnvelope(e, now) ==
    CASE e.type = "handshake" -> OK
      [] e.type = "data" /\ e.op = "request" ->
            AuthorizeResource(e.from, Scope("data", "request"), e.dataset, "read", now)
      [] e.type = "data" /\ e.op = "offer" ->
            AuthorizeResource(e.from, Scope("data", "offer"), e.dataset, "write", now)
      [] e.type = "data" /\ e.op = "response" ->
            Authorize(e.from, Scope("data", "respond"))
      [] OTHER -> Authorize(e.from, Scope("messages", "send"))
=============================================================================
