---------------------------- MODULE DataExchange ----------------------------
(***************************************************************************)
(* The walk of Paging with the node's redaction in it.                     *)
(***************************************************************************)
EXTENDS Paging, Redaction

\* Records are JSON, and Redacted is redact_value.
ASSUME ExchangeAssumption ==
    /\ Records \subseteq Json
    /\ \A r \in Records : Redacted(r) = RedactValue(r)

\* docs/PROTOCOL.md:132-135: whatever a peer collects is masked, at every
\* depth of a record, and nothing but what has to be masked is altered.
SentExactlyMasked == \A i \in DOMAIN got : ExactlyMasked(got[i], received[i])
=============================================================================
