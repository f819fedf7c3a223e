------------------------------ MODULE Redaction ------------------------------
(***************************************************************************)
(* redaction.py: masking of what leaves a node, by field names and by      *)
(* patterns, in a value of any depth.                                      *)
(*                                                                         *)
(* A JSON value is tagged: [dict |-> the sequence of its items], each a    *)
(* name and a value, [list |-> sequence of values], [text |-> sequence of  *)
(* tokens] or [other |-> anything].  A token is what a pattern matches as  *)
(* a whole or not at all, so a pattern is a set of tokens.                 *)
(***************************************************************************)
EXTENDS Naturals, Sequences

CONSTANTS
    Names,      \* the keys of dicts
    Tokens,     \* what texts are made of
    Others,     \* numbers, booleans and null
    Depth,      \* bound on nesting (json and pydantic have one, too)
    Fields,     \* RedactionConfig.fields
    Patterns,   \* RedactionConfig.patterns, in order
    Lower,      \* Lower[name]: the name in lower case
    MASK

ASSUME RedactionAssumption ==
    /\ Depth \in Nat
    /\ Patterns \in Seq(SUBSET Tokens)
    /\ MASK \in Tokens

\* Values that are nested at most d deep.
Scalars == [text : Seq(Tokens)] \cup [other : Others]
Above(S) == Scalars \cup [dict : Seq([name : Names, value : S])] \cup [list : Seq(S)]
Level[d \in Nat] == IF d = 0 THEN Scalars ELSE Above(Level[d - 1])

Json == Level[Depth]

IsDict(v) == DOMAIN v = {"dict"}
IsList(v) == DOMAIN v = {"list"}
IsText(v) == DOMAIN v = {"text"}

Masked == [text |-> <<MASK>>]

Sensitive(name) == Lower[name] \in {Lower[f] : f \in Fields}

\* pattern.sub(MASK, text)
Sub(text, pattern) == [i \in DOMAIN text |-> IF text[i] \in pattern THEN MASK ELSE text[i]]

\* for pattern in self.patterns
RedactText(text) ==
    LET sub[k \in 0..Len(Patterns)] ==
            IF k = 0 THEN text ELSE Sub(sub[k - 1], Patterns[k])
    IN  sub[Len(Patterns)]

\* What becomes of the items of a dict, where f is applied to values.
Items(items, f) ==
    [i \in DOMAIN items |->
        [name |-> items[i].name,
         value |-> IF Sensitive(items[i].name) THEN Masked ELSE f[items[i].value]]]

\* Faulty variant: lists are passed on as they are.
redactDicts[v \in Json] ==
    IF IsDict(v) THEN [dict |-> Items(v.dict, redactDicts)]
    ELSE IF IsText(v) THEN [text |-> RedactText(v.text)]
    ELSE v
RedactDicts(v) == redactDicts[v]

\* Redactor.redact_value
redact[v \in Json] ==
    IF IsDict(v) THEN [dict |-> Items(v.dict, redact)]
    ELSE IF IsList(v) THEN [list |-> [i \in DOMAIN v.list |-> redact[v.list[i]]]]
    ELSE IF IsText(v) THEN [text |-> RedactText(v.text)]
    ELSE v
RedactValue(v) == redact[v]

-----------------------------------------------------------------------------
(* Reference: a value as the set of its leaves, each with the names and    *)
(* positions on the way to it.                                             *)

Step(s, leaves) == {[path |-> <<s>> \o l.path, leaf |-> l.leaf] : l \in leaves}

leaves[v \in Json] ==
    IF IsDict(v) /\ v.dict # << >> THEN
        UNION {Step([name |-> v.dict[i].name], leaves[v.dict[i].value]) : i \in DOMAIN v.dict}
    ELSE IF IsList(v) /\ v.list # << >> THEN
        UNION {Step([pos |-> i], leaves[v.list[i]]) : i \in DOMAIN v.list}
    ELSE {[path |-> << >>, leaf |-> v]}

\* The first sensitive name on a path, 0 if there is none.
FirstSensitive(path) ==
    LET at == {i \in DOMAIN path : DOMAIN path[i] = {"name"} /\ Sensitive(path[i].name)}
    IN  IF at = {} THEN 0 ELSE CHOOSE i \in at : \A j \in at : i <= j

Matched == UNION {Patterns[i] : i \in DOMAIN Patterns}

MaskedScalar(v) ==
    IF IsText(v)
    THEN [text |-> [i \in DOMAIN v.text |-> IF v.text[i] \in Matched THEN MASK ELSE v.text[i]]]
    ELSE v

MaskedLeaf(l) ==
    LET first == FirstSensitive(l.path) IN
    IF first > 0 THEN [path |-> SubSeq(l.path, 1, first), leaf |-> Masked]
    ELSE [path |-> l.path, leaf |-> MaskedScalar(l.leaf)]

\* w is v with exactly what has to be masked masked.
ExactlyMasked(v, w) == leaves[w] = {MaskedLeaf(l) : l \in leaves[v]}
=============================================================================
