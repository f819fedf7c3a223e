---------------------------- MODULE Verification ----------------------------
(***************************************************************************)
(* Node.verify_inbound up to the replay check: the ordered checks on one   *)
(* envelope, which read the policy and the clock and change nothing.       *)
(*                                                                         *)
(* An envelope is a record; kid is the key its signature names and         *)
(* signedBy the key that really signed these very fields (none for a       *)
(* forged or altered envelope).                                            *)
(***************************************************************************)
EXTENDS Authorization

CONSTANTS
    Self,           \* Node.instance_id
    InstanceId,     \* public key -> instance id (the hash of the key)
    NoSig,          \* kid of an unsigned envelope
    AllowUnknown,   \* policy.allow_unknown_peers
    MaxPayload,     \* policy.max_payload_bytes
    MaxTtl,         \* envelope.MAX_TTL_SECONDS
    Skew,           \* policy.max_clock_skew_seconds
    Grace           \* policy.rotation_grace_seconds

Major == 1

\* The pinned key, and the previous ones still in grace.
AllowedKeys(x, now) ==
    {PeerRecords[x].public_key} \cup
    {k.public_key : k \in {k \in PeerRecords[x].previous_keys :
                              now < k.rotated_at + Grace}}

\* Faulty variant: the signature is only looked for.
SignedAtAll(e) == e.kid # NoSig

\* envelope.verify_signature
Signed(e) == e.signedBy = e.kid

Distance(a, b) == IF a < b THEN b - a ELSE a - b

InWindow(e, now) == now <= e.expires

\* The code of the first check that fails, or OK.
VerifyHeader(e, now) ==
    IF e.pip # Major THEN "VERSION_UNSUPPORTED"
    ELSE IF e.to # Self THEN "IDENTITY_MISMATCH"
    ELSE IF e.size > MaxPayload THEN "PAYLOAD_TOO_LARGE"
    ELSE IF e.kid = NoSig THEN "SIGNATURE_INVALID"
    ELSE IF e.kid \notin DOMAIN InstanceId THEN "SCHEMA_INVALID"
    ELSE IF InstanceId[e.kid] # e.from THEN "IDENTITY_MISMATCH"
    ELSE IF IsKnown(e.from) /\ e.kid \notin AllowedKeys(e.from, now) THEN "IDENTITY_MISMATCH"
    ELSE IF ~IsKnown(e.from) /\ ~AllowUnknown THEN "UNKNOWN_PEER"
    ELSE IF ~Signed(e) THEN "SIGNATURE_INVALID"
    ELSE IF e.expires < e.ts \/ e.expires - e.ts > MaxTtl THEN "SCHEMA_INVALID"
    ELSE IF Distance(now, e.ts) > Skew THEN "CLOCK_SKEW"
    ELSE IF ~InWindow(e, now) THEN "EXPIRED"
    ELSE OK
=============================================================================
