------------------------------- MODULE Paging -------------------------------
(***************************************************************************)
(* A peer reads a dataset page by page (DictDataProvider.query behind the  *)
(* default data handler) while the application changes the dataset.        *)
(*                                                                         *)
(* A cursor is an offset into the records that match the query's filter    *)
(* when the page is asked for.  dataset holds just those records, in       *)
(* order: a record that is edited so that it begins or ceases to match is  *)
(* one that is inserted or removed.  Records are told apart, as by an id.  *)
(***************************************************************************)
EXTENDS Integers, Sequences, SequencesExt

CONSTANTS
    Records,        \* the records the dataset may ever hold
    Datasets,       \* the datasets a walk may begin with
    PageSize,       \* DictDataProvider.page_size
    Limits,         \* what the query's "limit" may be, NoLimit or an integer
    NoLimit,
    MaxRecords,     \* schemas.MAX_RECORDS
    Redacted(_),    \* Redactor.redact_value on a record
    MaxChanges      \* bound on changes of the dataset

Distinct(s) == \A i, j \in DOMAIN s : i # j => s[i] # s[j]

ASSUME PagingAssumption ==
    /\ \A s \in Datasets : s \in Seq(Records) /\ Distinct(s)
    /\ PageSize \in Nat \ {0} /\ MaxRecords \in Nat
    /\ Limits \subseteq Int \cup {NoLimit} /\ NoLimit \notin Int

VARIABLES
    dataset,        \* DictDataProvider.datasets[name]
    limit,          \* the limit of the walk's query
    cursor,         \* the cursor the peer will send next, or how the walk ended
    answer,         \* the response under way to the peer, or NoAnswer
    received,       \* the records the peer got, as they were on the wire
    got,            \* observer: the same records as they were in the dataset
    initial,        \* observer: the dataset when the walk began
    ever,           \* observer: the records that were ever in the dataset
    inserted,       \* observer: a record came that is not the last
    removed,        \* observer: a record went
    changes

vars == <<dataset, limit, cursor, answer, received, got,
          initial, ever, inserted, removed, changes>>

data == <<dataset, ever, inserted, removed, changes>>
walk == <<cursor, answer, received, got>>
given == <<limit, initial>>

\* The walk is over: there is no next cursor, or the node answered INTERNAL.
End == -1
Failed == -2
NoAnswer == [page |-> << >>, next |-> Failed]

Cursors == Nat \cup {End}

Max2(a, b) == IF a < b THEN b ELSE a
Min2(a, b) == IF a < b THEN a ELSE b

\* Faulty variant: the limit is taken as it comes.
PageLimitAsGiven == IF limit = NoLimit THEN PageSize ELSE limit

\* A limit of the query replaces page_size, and is at least one.
PageLimit == IF limit = NoLimit THEN PageSize ELSE Max2(1, limit)

\* records[start : start + limit]
Page(start) == SubSeq(dataset, start + 1, Min2(start + PageLimit, Len(dataset)))

\* Faulty variants: the next cursor is one too low, or one too high.
NextCursorLow(start) ==
    IF start + PageLimit - 1 < Len(dataset) THEN start + PageLimit - 1 ELSE End
NextCursorHigh(start) ==
    IF start + PageLimit + 1 < Len(dataset) THEN start + PageLimit + 1 ELSE End

NextCursor(start) ==
    IF start + PageLimit < Len(dataset) THEN start + PageLimit ELSE End

-----------------------------------------------------------------------------

TypeOK ==
    /\ dataset \in Seq(Records) /\ initial \in Seq(Records)
    /\ limit \in Limits
    /\ cursor \in Cursors \cup {Failed}
    /\ answer.page \in Seq(Records) /\ answer.next \in Cursors \cup {Failed}
    /\ Len(answer.page) <= MaxRecords
    /\ got \in Seq(Records)
    /\ received \in Seq({Redacted(r) : r \in Records}) /\ Len(received) = Len(got)
    /\ ever \subseteq Records
    /\ inserted \in BOOLEAN /\ removed \in BOOLEAN
    /\ changes \in Nat

Init ==
    /\ dataset \in Datasets
    /\ limit \in Limits
    /\ cursor = 0 /\ answer = NoAnswer
    /\ received = << >> /\ got = << >>
    /\ initial = dataset /\ ever = ToSet(dataset)
    /\ inserted = FALSE /\ removed = FALSE
    /\ changes = 0

\* Faulty variant: the size of the page is not looked at.
ServeAnySize ==
    /\ cursor \in Nat /\ answer = NoAnswer
    /\ answer' = [page |-> Page(cursor), next |-> NextCursor(cursor)]
    /\ UNCHANGED <<data, given, cursor, received, got>>

\* A request for the page at the cursor is handled: query, and a DataPayload
\* with what it returned.
Serve ==
    /\ cursor \in Nat /\ answer = NoAnswer
    /\ Len(Page(cursor)) <= MaxRecords
    /\ answer' = [page |-> Page(cursor), next |-> NextCursor(cursor)]
    /\ UNCHANGED <<data, given, cursor, received, got>>

\* DataPayload does not take that many records, and _dispatch raises: the
\* peer is told INTERNAL, now and whenever it asks again, and gives up.
Refuse ==
    /\ cursor \in Nat /\ answer = NoAnswer
    /\ Len(Page(cursor)) > MaxRecords
    /\ cursor' = Failed
    /\ UNCHANGED <<data, given, answer, received, got>>

\* The response arrives, redacted as it was before it was signed.
Take ==
    /\ answer # NoAnswer
    /\ received' = received \o [i \in DOMAIN answer.page |-> Redacted(answer.page[i])]
    /\ got' = got \o answer.page
    /\ cursor' = answer.next
    /\ answer' = NoAnswer
    /\ UNCHANGED <<data, given>>

\* The response is lost; the peer asks again, in a new envelope.
Lose ==
    /\ answer # NoAnswer
    /\ answer' = NoAnswer
    /\ UNCHANGED <<data, given, cursor, received, got>>

-----------------------------------------------------------------------------
(* The application changes the list it gave the provider.                  *)

Change == changes < MaxChanges /\ changes' = changes + 1 /\ UNCHANGED <<given, walk>>

AddRecord(r) ==
    /\ Change /\ r \notin ever
    /\ dataset' = Append(dataset, r)
    /\ ever' = ever \cup {r}
    /\ UNCHANGED <<inserted, removed>>

\* Before the record that was the i-th.
InsertRecord(r, i) ==
    /\ Change /\ r \notin ever
    /\ dataset' = InsertAt(dataset, i, r)
    /\ ever' = ever \cup {r}
    /\ inserted' = TRUE
    /\ UNCHANGED removed

DeleteRecord(i) ==
    /\ Change
    /\ dataset' = RemoveAt(dataset, i)
    /\ removed' = TRUE
    /\ UNCHANGED <<ever, inserted>>

Next ==
    \/ Serve \/ Refuse \/ Take \/ Lose
    \/ \E r \in Records : AddRecord(r) \/ \E i \in DOMAIN dataset : InsertRecord(r, i)
    \/ \E i \in DOMAIN dataset : DeleteRecord(i)

Spec == Init /\ [][Next]_vars

\* The peer keeps asking, and not every response is lost.
FairSpec == Spec /\ WF_vars(Serve \/ Refuse) /\ SF_vars(Take)

-----------------------------------------------------------------------------
(* Properties *)

\* Offsets while records go: a page may miss records then, but as long as none
\* is inserted before others, the peer gets no record twice.
NoRepeatUnlessInserted == ~inserted => Distinct(got)

\* Offsets while records come: a page may repeat records then, but as long as
\* none is removed, a walk to the end gets every record there was when it began.
NoSkipUnlessRemoved ==
    cursor = End /\ ~removed => \A i \in DOMAIN initial : initial[i] \in ToSet(got)

\* While the dataset at most grows at its end, the peer has the records in
\* their order from the first on, whatever responses were lost.
PrefixUnlessChanged ==
    ~inserted /\ ~removed =>
        Len(got) <= Len(dataset) /\ \A i \in DOMAIN got : got[i] = dataset[i]

\* max(1, limit): no limit a peer may send makes it walk for ever over a
\* dataset that no longer changes.
WalkEnds == <>(cursor \in {End, Failed})
=============================================================================
