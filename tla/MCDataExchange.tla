--------------------------- MODULE MCDataExchange ---------------------------
(***************************************************************************)
(* Records, queries and a redaction policy for checking DataExchange.      *)
(***************************************************************************)
EXTENDS DataExchange

Text(tokens) == [text |-> tokens]

Item(n, v) == [name |-> n, value |-> v]

\* A record with a field that is masked by its name, in whatever case, deep in
\* a list, one that a pattern hits, an empty list, and a number.
MCRecord(n) ==
    [dict |-> <<
        Item("id", [other |-> n]),
        Item("note", Text(<<"hello", "secret", "1234">>)),
        Item("Token", [list |-> <<Text(<<"abc">>)>>]),
        Item("more", [list |-> << [dict |-> <<Item("password", Text(<<"pw">>)),
                                              Item("tags", [list |-> << >>])>>],
                                  Text(<<"1234">>)>>])>>]

MCRecords == {MCRecord(n) : n \in 1..6}

MCFields == {"password", "TOKEN"}
MCPatterns == <<{"secret"}, {"1234"}>>
MCNames == {"id", "note", "more", "tags", "password", "Token"}
MCTokens == {"hello", "secret", "1234", "abc", "pw", "[REDACTED]"}
MCOthers == 1..6
MCLower == [name \in MCNames \cup MCFields |->
              IF name \in {"Token", "TOKEN"} THEN "token" ELSE name]

MCLimits == {NoLimit, 0, 2, 3}

MCDatasets == {[i \in 1..n |-> MCRecord(i)] : n \in 0..4}
=============================================================================
