---------------------------- MODULE PagingProofs ----------------------------
(***************************************************************************)
(* What a walk by offsets gives a peer, for all datasets, limits, page     *)
(* sizes and any number of changes.                                        *)
(***************************************************************************)
EXTENDS Paging, SequenceTheorems, TLAPS

-----------------------------------------------------------------------------
(* Sequences.                                                              *)

\* q is s, of length n, without its element at position i.
WithRemoved(q, s, n, i) ==
    /\ q \in Seq(Records) /\ Len(q) = n - 1
    /\ \A j \in 1..(n - 1) : j < i => q[j] = s[j]
    /\ \A j \in 1..(n - 1) : j >= i => q[j] = s[j + 1]

\* RemoveAt moves what comes after the position one to the left.
LEMMA RemoveAtFacts ==
    ASSUME NEW s \in Seq(Records), NEW n \in Nat, n = Len(s), NEW i \in 1..n
    PROVE  WithRemoved(RemoveAt(s, i), s, n, i)
<1> DEFINE a == SubSeq(s, 1, i - 1)
           b == SubSeq(s, i + 1, n)
<1>2. a \in Seq(Records) /\ Len(a) = i - 1 /\ \A j \in 1..(i - 1) : a[j] = s[j]
  OBVIOUS
<1>3. b \in Seq(Records) /\ Len(b) = n - i /\ \A j \in 1..(n - i) : b[j] = s[i + j]
  OBVIOUS
<1>4. RemoveAt(s, i) = a \o b
  BY DEF RemoveAt
<1> DEFINE q == a \o b
<1> HIDE DEF a, b
<1>5. /\ q \in Seq(Records) /\ Len(q) = Len(a) + Len(b)
      /\ \A j \in 1..(Len(a) + Len(b)) : q[j] = IF j <= Len(a) THEN a[j] ELSE b[j - Len(a)]
  BY <1>2, <1>3, ConcatProperties
<1> HIDE DEF q
<1>6. /\ Len(q) = n - 1
      /\ \A j \in 1..(n - 1) : q[j] = IF j <= i - 1 THEN a[j] ELSE b[j - (i - 1)]
  BY <1>2, <1>3, <1>5
<1>7. ASSUME NEW j \in 1..(n - 1), j < i
      PROVE  q[j] = s[j]
  BY <1>2, <1>6, <1>7
<1>8. ASSUME NEW j \in 1..(n - 1), j >= i
      PROVE  q[j] = s[j + 1]
  <2>1. q[j] = b[j - (i - 1)]
    BY <1>6, <1>8
  <2>2. j - (i - 1) \in 1..(n - i) /\ i + (j - (i - 1)) = j + 1
    BY <1>8
  <2> QED BY <1>3, <2>1, <2>2
<1>9. WithRemoved(q, s, n, i)
  BY <1>5, <1>6, <1>7, <1>8 DEF WithRemoved
<1> QED BY <1>4, <1>9 DEF q

\* q is s, of length n, with e put before position i.
WithInserted(q, s, n, i, e) ==
    /\ q \in Seq(Records) /\ Len(q) = n + 1
    /\ \A j \in 1..(n + 1) : j < i => q[j] = s[j]
    /\ \A j \in 1..(n + 1) : j > i => q[j] = s[j - 1]
    /\ q[i] = e

\* InsertAt moves what comes from the position on one to the right.
LEMMA InsertAtFacts ==
    ASSUME NEW s \in Seq(Records), NEW n \in Nat, n = Len(s), NEW i \in 1..n, NEW e \in Records
    PROVE  WithInserted(InsertAt(s, i, e), s, n, i, e)
<1> DEFINE a == SubSeq(s, 1, i - 1) \o <<e>>
           b == SubSeq(s, i, n)
<1>2. a \in Seq(Records) /\ Len(a) = i /\ \A j \in 1..(i - 1) : a[j] = s[j]
  OBVIOUS
<1>2a. a[i] = e
  OBVIOUS
<1>3. b \in Seq(Records) /\ Len(b) = n - i + 1 /\ \A j \in 1..(n - i + 1) : b[j] = s[(i + j) - 1]
  OBVIOUS
<1>4. InsertAt(s, i, e) = a \o b
  BY DEF InsertAt
<1> DEFINE q == a \o b
<1> HIDE DEF a, b
<1>5. /\ q \in Seq(Records) /\ Len(q) = Len(a) + Len(b)
      /\ \A j \in 1..(Len(a) + Len(b)) : q[j] = IF j <= Len(a) THEN a[j] ELSE b[j - Len(a)]
  BY <1>2, <1>3, ConcatProperties
<1> HIDE DEF q
<1>6. /\ Len(q) = n + 1
      /\ \A j \in 1..(n + 1) : q[j] = IF j <= i THEN a[j] ELSE b[j - i]
  BY <1>2, <1>3, <1>5
<1>7. ASSUME NEW j \in 1..(n + 1), j < i
      PROVE  q[j] = s[j]
  BY <1>2, <1>6, <1>7
<1>8. ASSUME NEW j \in 1..(n + 1), j > i
      PROVE  q[j] = s[j - 1]
  <2>1. q[j] = b[j - i]
    BY <1>6, <1>8
  <2>2. j - i \in 1..(n - i + 1) /\ (i + (j - i)) - 1 = j - 1
    BY <1>8
  <2> QED BY <1>3, <2>1, <2>2
<1>9. q[i] = e
  BY <1>2a, <1>6
<1>10. WithInserted(q, s, n, i, e)
  BY <1>5, <1>6, <1>7, <1>8, <1>9 DEF WithInserted
<1> QED BY <1>4, <1>10 DEF q

LEMMA MinFacts ==
    ASSUME NEW a \in Nat, NEW b \in Nat
    PROVE  /\ Min2(a, b) \in Nat /\ Min2(a, b) <= a /\ Min2(a, b) <= b
           /\ Min2(a, b) = a \/ Min2(a, b) = b
  BY DEF Min2

\* What Python's slice gives, for a start that is no negative number.
LEMMA PageFacts ==
    ASSUME NEW start \in Nat, PageLimit \in Nat \ {0}, dataset \in Seq(Records)
    PROVE  /\ Page(start) \in Seq(Records)
           /\ NextCursor(start) \in Cursors
           /\ \A j \in 1..Len(Page(start)) :
                start + j \in DOMAIN dataset /\ Page(start)[j] = dataset[start + j]
           /\ NextCursor(start) # End => NextCursor(start) = start + Len(Page(start))
           /\ NextCursor(start) = End =>
                \A k \in DOMAIN dataset : k > start => k - start \in 1..Len(Page(start))
<1> DEFINE n == Len(dataset)
           stop == Min2(start + PageLimit, n)
<1>1. n \in Nat /\ DOMAIN dataset = 1..n /\ \A k \in 1..n : dataset[k] \in Records
  OBVIOUS
<1>2. stop \in Nat /\ stop <= n /\ stop <= start + PageLimit
      /\ (stop = start + PageLimit \/ stop = n)
  <2>1. start + PageLimit \in Nat
    OBVIOUS
  <2> QED BY <1>1, <2>1, MinFacts
<1>3. Page(start) = SubSeq(dataset, start + 1, stop)
  BY DEF Page
<1>4. NextCursor(start) = IF start + PageLimit < n THEN start + PageLimit ELSE End
  BY DEF NextCursor
<1> HIDE DEF stop, n
<1>5. \A k \in (start + 1)..stop : dataset[k] \in Records
  BY <1>1, <1>2
<1>6. /\ SubSeq(dataset, start + 1, stop) \in Seq(Records)
      /\ Len(SubSeq(dataset, start + 1, stop)) = IF start + 1 <= stop THEN stop - start ELSE 0
      /\ \A j \in 1..(stop - start) : SubSeq(dataset, start + 1, stop)[j] = dataset[start + j]
  BY <1>1, <1>2, <1>5, SubSeqProperties
<1> DEFINE len == Len(Page(start))
<1>7. /\ Page(start) \in Seq(Records) /\ len \in Nat
      /\ (stop > start => len = stop - start) /\ (stop <= start => len = 0)
      /\ \A j \in 1..(stop - start) : Page(start)[j] = dataset[start + j]
  BY <1>2, <1>3, <1>6
<1> HIDE DEF len
<1>8. NextCursor(start) \in Cursors
  BY <1>4 DEF Cursors, End
<1>9. \A j \in 1..len : start + j \in DOMAIN dataset /\ Page(start)[j] = dataset[start + j]
  BY <1>1, <1>2, <1>7
<1>10. NextCursor(start) # End => NextCursor(start) = start + len
  <2>1. CASE start + PageLimit < n
    BY <1>1, <1>2, <1>4, <1>7, <2>1
  <2> QED BY <1>4, <2>1
<1>11. NextCursor(start) = End => \A k \in DOMAIN dataset : k > start => k - start \in 1..len
  BY <1>1, <1>2, <1>4, <1>7 DEF End
<1> QED BY <1>7, <1>8, <1>9, <1>10, <1>11 DEF len

-----------------------------------------------------------------------------
(* Types.                                                                  *)

Waiting == answer # NoAnswer

\* What is known of the parts, beside TypeOK: a response is under way to an
\* open walk only, and all that was sent was in the dataset.
Shape ==
    /\ TypeOK
    /\ answer = [page |-> answer.page, next |-> answer.next]
    /\ Waiting => cursor \in Nat /\ answer.next \in Cursors
    /\ \A k \in DOMAIN dataset : dataset[k] \in ever
    /\ \A k \in DOMAIN got : got[k] \in ever
    /\ \A k \in DOMAIN answer.page : answer.page[k] \in ever
    /\ Distinct(dataset)

LEMMA LimitPositive == ASSUME TypeOK PROVE PageLimit \in Nat \ {0}
  BY PagingAssumption DEF TypeOK, PageLimit, Max2

LEMMA ShapeInit == ASSUME Init PROVE Shape
<1>1. dataset \in Seq(Records) /\ Distinct(dataset)
  BY PagingAssumption DEF Init
<1>2. << >> \in Seq(Records) /\ Len(<< >>) = 0 /\ << >> \in Seq({Redacted(r) : r \in Records})
  OBVIOUS
<1>3. ever \subseteq Records /\ \A k \in DOMAIN dataset : dataset[k] \in ever
  BY <1>1 DEF Init, ToSet
<1>4. inserted \in BOOLEAN /\ removed \in BOOLEAN
  BY Zenon DEF Init
<1>5. /\ answer.page = << >> /\ answer.next = Failed
      /\ cursor = 0 /\ changes = 0 /\ limit \in Limits
      /\ initial = dataset /\ received = << >> /\ got = << >>
  BY DEF Init, NoAnswer
<1>6. TypeOK
  BY <1>1, <1>2, <1>3, <1>4, <1>5, PagingAssumption DEF TypeOK, Cursors
<1> QED BY <1>1, <1>2, <1>3, <1>5, <1>6 DEF Init, Shape, NoAnswer, Waiting

\* A response is on its way when the node has answered, and only then.
LEMMA AnswerSet ==
    ASSUME NEW page, NEW next \in Cursors
    PROVE  [page |-> page, next |-> next] # NoAnswer
  BY DEF NoAnswer, Cursors, End, Failed

LEMMA ShapeServe == ASSUME Shape, Serve PROVE Shape'
<1>1. cursor \in Nat /\ dataset \in Seq(Records)
  BY DEF Serve, Shape, TypeOK
<1>2. /\ Page(cursor) \in Seq(Records) /\ NextCursor(cursor) \in Cursors
      /\ \A j \in 1..Len(Page(cursor)) :
            cursor + j \in DOMAIN dataset /\ Page(cursor)[j] = dataset[cursor + j]
  BY <1>1, LimitPositive, PageFacts DEF Shape
<1>3. /\ answer' = [page |-> Page(cursor), next |-> NextCursor(cursor)]
      /\ UNCHANGED <<dataset, ever, inserted, removed, changes, limit, initial, cursor,
                     received, got>>
      /\ Len(Page(cursor)) <= MaxRecords
  BY DEF Serve, data, given
<1>4. \A k \in DOMAIN Page(cursor) : Page(cursor)[k] \in ever
  <2>1. DOMAIN Page(cursor) = 1..Len(Page(cursor))
    BY <1>2
  <2> QED BY <1>2, <2>1 DEF Shape
<1>5. answer'.page = Page(cursor) /\ answer'.next = NextCursor(cursor)
  BY <1>3
<1>6. TypeOK'
  BY <1>2, <1>3, <1>5 DEF Shape, TypeOK
<1> QED BY <1>1, <1>2, <1>3, <1>4, <1>5, <1>6 DEF Shape, Waiting, Distinct

LEMMA ShapeRefuse == ASSUME Shape, Refuse PROVE Shape'
<1>1. /\ cursor' = Failed /\ ~Waiting
      /\ UNCHANGED <<dataset, ever, inserted, removed, changes, limit, initial, answer,
                     received, got>>
  BY DEF Refuse, data, given, Waiting
<1>2. TypeOK'
  BY <1>1 DEF Shape, TypeOK
<1> QED BY <1>1, <1>2 DEF Shape, Waiting, Distinct

LEMMA ShapeLose == ASSUME Shape, Lose PROVE Shape'
<1>1. /\ answer' = NoAnswer
      /\ UNCHANGED <<dataset, ever, inserted, removed, changes, limit, initial, cursor,
                     received, got>>
  BY DEF Lose, data, given
<1>2. answer'.page = << >> /\ answer'.next = Failed
  BY <1>1 DEF NoAnswer
<1>3. << >> \in Seq(Records) /\ Len(<< >>) = 0 /\ DOMAIN << >> = {}
  OBVIOUS
<1>4. TypeOK'
  BY <1>1, <1>2, <1>3, PagingAssumption DEF Shape, TypeOK
<1> QED BY <1>1, <1>2, <1>3, <1>4 DEF Shape, Waiting, Distinct, NoAnswer

\* What a peer has after a response arrived.
LEMMA TakeFacts ==
    ASSUME Shape, Take
    PROVE  /\ got' \in Seq(Records)
           /\ Len(got') = Len(got) + Len(answer.page)
           /\ \A k \in 1..Len(got) : got'[k] = got[k]
           /\ \A k \in 1..Len(answer.page) : got'[Len(got) + k] = answer.page[k]
           /\ \A k \in 1..Len(got') :
                k \in 1..Len(got)
                \/ (k - Len(got) \in 1..Len(answer.page) /\ got'[k] = answer.page[k - Len(got)])
           /\ received' \in Seq({Redacted(r) : r \in Records})
           /\ Len(received') = Len(got')
<1> DEFINE m == Len(got)
           n == Len(answer.page)
           sent == [i \in DOMAIN answer.page |-> Redacted(answer.page[i])]
           wire == {Redacted(r) : r \in Records}
<1>1. got \in Seq(Records) /\ answer.page \in Seq(Records) /\ m \in Nat /\ n \in Nat
      /\ got' = got \o answer.page
  BY DEF Shape, TypeOK, Take
<1>2. /\ got' \in Seq(Records) /\ Len(got') = m + n
      /\ \A k \in 1..(m + n) : got'[k] = IF k <= m THEN got[k] ELSE answer.page[k - m]
  BY <1>1, ConcatProperties
<1>3. DOMAIN answer.page = 1..n /\ \A i \in 1..n : answer.page[i] \in Records
  BY <1>1
<1>4. sent \in Seq(wire) /\ Len(sent) = n
  BY <1>1, <1>3
<1>5. received \in Seq(wire) /\ Len(received) = m
  BY DEF Shape, TypeOK
<1>6. received' = received \o sent
  BY DEF Take
<1> HIDE DEF sent, wire, m, n
<1>7. received' \in Seq(wire) /\ Len(received') = m + n
  BY <1>4, <1>5, <1>6, ConcatProperties
<1>8. \A k \in 1..m : got'[k] = got[k]
  BY <1>1, <1>2
<1>9. \A k \in 1..n : got'[m + k] = answer.page[k]
  BY <1>1, <1>2
<1>10. \A k \in 1..(m + n) :
         k \in 1..m \/ (k - m \in 1..n /\ got'[k] = answer.page[k - m])
  BY <1>1, <1>2
<1> QED BY <1>2, <1>7, <1>8, <1>9, <1>10 DEF m, n, wire

LEMMA ShapeTake == ASSUME Shape, Take PROVE Shape'
<1>1. /\ cursor' = answer.next /\ answer' = NoAnswer /\ answer.next \in Cursors
      /\ UNCHANGED <<dataset, ever, inserted, removed, changes, limit, initial>>
  BY DEF Take, data, given, Shape, Waiting
<1>2. answer'.page = << >> /\ answer'.next = Failed
  BY <1>1 DEF NoAnswer
<1>3. << >> \in Seq(Records) /\ Len(<< >>) = 0 /\ DOMAIN << >> = {}
  OBVIOUS
<1>4. TypeOK'
  BY <1>1, <1>2, <1>3, TakeFacts, PagingAssumption DEF Shape, TypeOK
<1>5. \A k \in DOMAIN got' : got'[k] \in ever
  <2>1. DOMAIN got' = 1..Len(got') /\ DOMAIN got = 1..Len(got)
        /\ DOMAIN answer.page = 1..Len(answer.page)
    BY TakeFacts DEF Shape, TypeOK
  <2> QED BY <2>1, TakeFacts DEF Shape
<1> QED BY <1>1, <1>2, <1>3, <1>4, <1>5 DEF Shape, Waiting, Distinct, NoAnswer

\* What all changes of the dataset leave alone.
LEMMA ChangeFacts ==
    ASSUME Change
    PROVE  /\ UNCHANGED <<cursor, answer, received, got, limit, initial>>
           /\ changes' = changes + 1
  BY DEF Change, given, walk

LEMMA ShapeAdd == ASSUME Shape, NEW r \in Records, AddRecord(r) PROVE Shape'
<1> DEFINE n == Len(dataset)
<1>1. dataset \in Seq(Records) /\ n \in Nat /\ dataset' = Append(dataset, r)
      /\ r \notin ever /\ ever' = ever \cup {r}
      /\ UNCHANGED <<inserted, removed, cursor, answer, received, got, limit, initial>>
      /\ changes' = changes + 1
  BY ChangeFacts DEF Shape, TypeOK, AddRecord
<1>2. dataset' \in Seq(Records) /\ DOMAIN dataset = 1..n /\ DOMAIN dataset' = 1..(n + 1)
      /\ (\A k \in 1..n : dataset'[k] = dataset[k]) /\ dataset'[n + 1] = r
  BY <1>1
<1> HIDE DEF n
<1>3. TypeOK'
  BY <1>1, <1>2 DEF Shape, TypeOK
<1>4. \A k \in DOMAIN dataset' : dataset'[k] \in ever'
  BY <1>1, <1>2 DEF Shape
<1>5. Distinct(dataset')
  BY <1>1, <1>2 DEF Shape, Distinct
<1> QED BY <1>1, <1>3, <1>4, <1>5 DEF Shape, Waiting

LEMMA ShapeInsert ==
    ASSUME Shape, NEW r \in Records, NEW i \in DOMAIN dataset, InsertRecord(r, i)
    PROVE  Shape'
<1> DEFINE n == Len(dataset)
<1>1. dataset \in Seq(Records) /\ n \in Nat /\ i \in 1..n /\ DOMAIN dataset = 1..n
      /\ dataset' = InsertAt(dataset, i, r)
      /\ r \notin ever /\ ever' = ever \cup {r} /\ inserted' = TRUE
      /\ UNCHANGED <<removed, cursor, answer, received, got, limit, initial>>
      /\ changes' = changes + 1
  BY ChangeFacts DEF Shape, TypeOK, InsertRecord
<1>2. dataset' \in Seq(Records) /\ DOMAIN dataset' = 1..(n + 1)
      /\ (\A k \in 1..(n + 1) : k < i => dataset'[k] = dataset[k])
      /\ (\A k \in 1..(n + 1) : k > i => dataset'[k] = dataset[k - 1]) /\ dataset'[i] = r
  <2>1. n = Len(dataset) /\ dataset \in Seq(Records) /\ n \in Nat /\ i \in 1..n /\ r \in Records
    BY <1>1
  <2> HIDE DEF n
  <2> DEFINE q == InsertAt(dataset, i, r)
  <2>2. /\ q \in Seq(Records) /\ Len(q) = n + 1
        /\ \A j \in 1..(n + 1) : j < i => q[j] = dataset[j]
        /\ \A j \in 1..(n + 1) : j > i => q[j] = dataset[j - 1]
        /\ q[i] = r
    <3>1. WithInserted(q, dataset, n, i, r)
      BY <2>1, InsertAtFacts
    <3> HIDE DEF q
    <3> QED BY <3>1 DEF WithInserted
  <2> QED BY <1>1, <2>2
<1> HIDE DEF n
<1>3. TypeOK'
  <2>1. inserted' \in BOOLEAN
    BY <1>1, Zenon
  <2> QED BY <1>1, <1>2, <2>1 DEF Shape, TypeOK
<1>4. \A k \in DOMAIN dataset' : dataset'[k] \in ever'
  BY <1>1, <1>2 DEF Shape
<1>5. Distinct(dataset')
  <2> SUFFICES ASSUME NEW j \in 1..(n + 1), NEW k \in 1..(n + 1), j < k
               PROVE  dataset'[j] # dataset'[k]
    BY <1>2 DEF Distinct
  <2>1. \A a, b \in 1..n : a # b => dataset[a] # dataset[b]
    BY <1>1 DEF Shape, Distinct
  <2>2. \A a \in 1..n : dataset[a] # r
    BY <1>1 DEF Shape
  <2>3. CASE j = i
    BY <1>1, <1>2, <2>2, <2>3
  <2>4. CASE k = i
    BY <1>1, <1>2, <2>2, <2>4
  <2>5. CASE j < i /\ k < i
    BY <1>1, <1>2, <2>1, <2>5
  <2>6. CASE j < i /\ k > i
    <3>1. dataset'[j] = dataset[j] /\ dataset'[k] = dataset[k - 1] /\ j # k - 1
      BY <1>1, <1>2, <2>6
    <3> QED BY <1>1, <2>1, <2>6, <3>1
  <2>7. CASE j > i /\ k > i
    <3>1. dataset'[j] = dataset[j - 1] /\ dataset'[k] = dataset[k - 1] /\ j - 1 # k - 1
      BY <1>1, <1>2, <2>7
    <3> QED BY <1>1, <2>1, <2>7, <3>1
  <2> QED BY <1>1, <2>3, <2>4, <2>5, <2>6, <2>7
<1> QED BY <1>1, <1>3, <1>4, <1>5 DEF Shape, Waiting

\* What the dataset is after a record was taken out.
LEMMA DeleteFacts ==
    ASSUME Shape, NEW i \in DOMAIN dataset, DeleteRecord(i)
    PROVE  /\ dataset' \in Seq(Records) /\ Len(dataset') = Len(dataset) - 1
           /\ \A k \in DOMAIN dataset' : \/ k \in DOMAIN dataset /\ dataset'[k] = dataset[k]
                                         \/ k + 1 \in DOMAIN dataset /\ dataset'[k] = dataset[k + 1]
           /\ Distinct(dataset')
           /\ removed' = TRUE
           /\ UNCHANGED <<ever, inserted, cursor, answer, received, got, limit, initial>>
           /\ changes' = changes + 1
<1> DEFINE n == Len(dataset)
<1>1. dataset \in Seq(Records) /\ n \in Nat /\ i \in 1..n /\ DOMAIN dataset = 1..n
      /\ dataset' = RemoveAt(dataset, i)
  BY DEF Shape, TypeOK, DeleteRecord
<1>2. removed' = TRUE /\ changes' = changes + 1
      /\ UNCHANGED <<ever, inserted, cursor, answer, received, got, limit, initial>>
  BY ChangeFacts DEF DeleteRecord
<1>3. dataset' \in Seq(Records) /\ Len(dataset') = n - 1
      /\ (\A k \in 1..(n - 1) : k < i => dataset'[k] = dataset[k])
      /\ (\A k \in 1..(n - 1) : k >= i => dataset'[k] = dataset[k + 1])
  <2>1. n = Len(dataset) /\ dataset \in Seq(Records) /\ n \in Nat /\ i \in 1..n
    BY <1>1
  <2> HIDE DEF n
  <2>2. WithRemoved(dataset', dataset, n, i)
    BY <1>1, <2>1, RemoveAtFacts
  <2> QED BY <2>2 DEF WithRemoved
<1>4. DOMAIN dataset' = 1..(n - 1)
  BY <1>3
<1> HIDE DEF n
<1>5. Distinct(dataset')
  <2> SUFFICES ASSUME NEW j \in 1..(n - 1), NEW k \in 1..(n - 1), j < k
               PROVE  dataset'[j] # dataset'[k]
    BY <1>4 DEF Distinct
  <2>1. \A a, b \in 1..n : a # b => dataset[a] # dataset[b]
    BY <1>1 DEF Shape, Distinct
  <2>2. CASE j < i /\ k < i
    BY <1>1, <1>3, <2>1, <2>2
  <2>3. CASE j < i /\ k >= i
    <3>1. dataset'[j] = dataset[j] /\ dataset'[k] = dataset[k + 1] /\ j # k + 1
      BY <1>1, <1>3, <2>3
    <3> QED BY <1>1, <2>1, <2>3, <3>1
  <2>4. CASE j >= i /\ k >= i
    <3>1. dataset'[j] = dataset[j + 1] /\ dataset'[k] = dataset[k + 1] /\ j + 1 # k + 1
      BY <1>1, <1>3, <2>4
    <3> QED BY <1>1, <2>1, <2>4, <3>1
  <2> QED BY <1>1, <2>2, <2>3, <2>4
<1>6. \A k \in DOMAIN dataset' : \/ k \in DOMAIN dataset /\ dataset'[k] = dataset[k]
                                 \/ k + 1 \in DOMAIN dataset /\ dataset'[k] = dataset[k + 1]
  BY <1>1, <1>3, <1>4
<1> QED BY <1>2, <1>3, <1>5, <1>6 DEF n

LEMMA ShapeDelete == ASSUME Shape, NEW i \in DOMAIN dataset, DeleteRecord(i) PROVE Shape'
<1>1. removed' \in BOOLEAN
  BY DeleteFacts, Zenon
<1>2. TypeOK'
  <2>1. /\ dataset' \in Seq(Records) /\ changes' = changes + 1
        /\ UNCHANGED <<ever, inserted, cursor, answer, received, got, limit, initial>>
    BY DeleteFacts
  <2> QED BY <1>1, <2>1 DEF Shape, TypeOK
<1>3. \A k \in DOMAIN dataset' : dataset'[k] \in ever'
  BY DeleteFacts DEF Shape
<1> QED BY <1>2, <1>3, DeleteFacts DEF Shape, Waiting

LEMMA ShapeStep == ASSUME Shape, [Next]_vars PROVE Shape'
<1>1. CASE UNCHANGED vars
  BY <1>1 DEF vars, Shape, TypeOK, Waiting, Distinct
<1>2. CASE Next
  BY <1>2, ShapeServe, ShapeRefuse, ShapeTake, ShapeLose, ShapeAdd, ShapeInsert, ShapeDelete
     DEF Next
<1> QED BY <1>1, <1>2

\* Every value of the walk's parts is of its kind, whatever the dataset, the
\* limits and the changes; in particular no page exceeds MAX_RECORDS.
THEOREM TypeCorrect == Spec => []TypeOK
<1>1. Init => Shape
  BY ShapeInit
<1>2. Shape /\ [Next]_vars => Shape'
  BY ShapeStep
<1>3. Shape => TypeOK
  BY DEF Shape
<1> QED BY <1>1, <1>2, <1>3, PTL DEF Spec

-----------------------------------------------------------------------------
(* What an action does, as the arguments below need it.                    *)

LEMMA ServeFacts ==
    ASSUME Shape, Serve
    PROVE  /\ cursor \in Nat
           /\ UNCHANGED <<dataset, initial, ever, inserted, removed, cursor, got>>
           /\ answer'.page \in Seq(Records) /\ answer'.next \in Cursors
           /\ \A j \in 1..Len(answer'.page) :
                cursor + j \in DOMAIN dataset /\ answer'.page[j] = dataset[cursor + j]
           /\ answer'.next # End => answer'.next = cursor + Len(answer'.page)
           /\ answer'.next = End =>
                \A k \in DOMAIN dataset : k > cursor => k - cursor \in 1..Len(answer'.page)
<1>1. cursor \in Nat /\ dataset \in Seq(Records) /\ PageLimit \in Nat \ {0}
  BY LimitPositive DEF Serve, Shape, TypeOK
<1>2. /\ answer'.page = Page(cursor) /\ answer'.next = NextCursor(cursor)
      /\ UNCHANGED <<dataset, initial, ever, inserted, removed, cursor, got>>
  BY DEF Serve, data, given
<1> QED BY <1>1, <1>2, PageFacts

LEMMA AddFacts ==
    ASSUME Shape, NEW r \in Records, AddRecord(r)
    PROVE  /\ \A k \in DOMAIN dataset : k \in DOMAIN dataset' /\ dataset'[k] = dataset[k]
           /\ \A k \in DOMAIN dataset' :
                (k \in DOMAIN dataset /\ dataset'[k] = dataset[k]) \/ dataset'[k] \notin ever
           /\ UNCHANGED <<inserted, removed, cursor, answer, got, initial>>
<1>1. dataset \in Seq(Records) /\ dataset' = Append(dataset, r) /\ r \notin ever
      /\ UNCHANGED <<inserted, removed, cursor, answer, got, initial>>
  BY ChangeFacts DEF Shape, TypeOK, AddRecord
<1>2. DOMAIN dataset = 1..Len(dataset) /\ DOMAIN dataset' = 1..(Len(dataset) + 1)
      /\ (\A k \in 1..Len(dataset) : dataset'[k] = dataset[k])
      /\ dataset'[Len(dataset) + 1] = r
  BY <1>1
<1> QED BY <1>1, <1>2

LEMMA InsertFacts ==
    ASSUME Shape, NEW r \in Records, NEW i \in DOMAIN dataset, InsertRecord(r, i)
    PROVE  /\ \A k \in DOMAIN dataset :
                \/ k \in DOMAIN dataset' /\ dataset'[k] = dataset[k]
                \/ k + 1 \in DOMAIN dataset' /\ dataset'[k + 1] = dataset[k]
           /\ inserted' = TRUE
           /\ UNCHANGED <<removed, cursor, answer, got, initial>>
<1> DEFINE n == Len(dataset)
<1>1. dataset \in Seq(Records) /\ n \in Nat /\ i \in 1..n /\ DOMAIN dataset = 1..n
      /\ dataset' = InsertAt(dataset, i, r) /\ inserted' = TRUE
      /\ UNCHANGED <<removed, cursor, answer, got, initial>>
  BY ChangeFacts DEF Shape, TypeOK, InsertRecord
<1>2. n = Len(dataset) /\ dataset \in Seq(Records) /\ n \in Nat /\ i \in 1..n /\ r \in Records
  BY <1>1
<1> HIDE DEF n
<1> DEFINE q == InsertAt(dataset, i, r)
<1>3. /\ q \in Seq(Records) /\ Len(q) = n + 1
      /\ \A j \in 1..(n + 1) : j < i => q[j] = dataset[j]
      /\ \A j \in 1..(n + 1) : j > i => q[j] = dataset[j - 1]
      /\ q[i] = r
  <2>1. WithInserted(q, dataset, n, i, r)
    BY <1>2, InsertAtFacts
  <2> HIDE DEF q
  <2> QED BY <2>1 DEF WithInserted
<1>4. q = dataset' /\ DOMAIN q = 1..(n + 1)
  BY <1>1, <1>3
<1> HIDE DEF q
<1>5. ASSUME NEW k \in DOMAIN dataset
      PROVE  \/ k \in DOMAIN q /\ q[k] = dataset[k]
             \/ k + 1 \in DOMAIN q /\ q[k + 1] = dataset[k]
  <2>1. CASE k < i
    BY <1>1, <1>3, <1>4, <2>1
  <2>2. CASE k >= i
    <3>1. k + 1 \in 1..(n + 1) /\ k + 1 > i /\ (k + 1) - 1 = k
      BY <1>1, <2>2
    <3> QED BY <1>3, <1>4, <3>1
  <2> QED BY <1>1, <2>1, <2>2
<1> QED BY <1>1, <1>4, <1>5

LEMMA ReplyFacts ==
    ASSUME Shape
    PROVE  /\ DOMAIN got = 1..Len(got) /\ Len(got) \in Nat
           /\ DOMAIN answer.page = 1..Len(answer.page) /\ Len(answer.page) \in Nat
           /\ DOMAIN dataset = 1..Len(dataset) /\ Len(dataset) \in Nat
           /\ Waiting => cursor \in Nat /\ answer.next \in Cursors
  BY DEF Shape, TypeOK

-----------------------------------------------------------------------------
(* No record twice.                                                        *)

\* Nothing that is still to come was sent before: all of it lies behind the
\* cursor, where it was not looked for yet.
Fresh ==
    ~inserted =>
        /\ Distinct(got)
        /\ cursor \in Nat =>
             \A k \in DOMAIN dataset : k > cursor => \A j \in DOMAIN got : dataset[k] # got[j]
        /\ Waiting =>
             /\ Distinct(answer.page)
             /\ \A i \in DOMAIN answer.page : \A j \in DOMAIN got : answer.page[i] # got[j]
             /\ answer.next \in Nat =>
                  /\ answer.next >= cursor
                  /\ \A k \in DOMAIN dataset : k > answer.next =>
                       \A i \in DOMAIN answer.page : dataset[k] # answer.page[i]

LEMMA FreshServe == ASSUME Shape, Fresh, Serve PROVE Fresh'
<1> SUFFICES ASSUME ~inserted PROVE Fresh'
  BY ServeFacts DEF Fresh
<1> DEFINE page == answer'.page
<1>1. /\ DOMAIN page = 1..Len(page) /\ Len(page) \in Nat
      /\ \A j \in 1..Len(page) : cursor + j \in DOMAIN dataset /\ page[j] = dataset[cursor + j]
      /\ DOMAIN dataset \subseteq Nat /\ DOMAIN got \subseteq Nat /\ cursor \in Nat
      /\ answer'.next \in Nat => answer'.next = cursor + Len(page)
  BY ServeFacts, ReplyFacts DEF End
<1>2. /\ Distinct(got) /\ Distinct(dataset)
      /\ \A k \in DOMAIN dataset : k > cursor => \A j \in DOMAIN got : dataset[k] # got[j]
  BY <1>1 DEF Fresh, Shape
<1>3. UNCHANGED <<dataset, got, cursor, inserted>>
  BY ServeFacts
<1> HIDE DEF page
<1>4. Distinct(page)
  BY <1>1, <1>2 DEF Distinct
<1>5. \A i \in DOMAIN page : \A j \in DOMAIN got : page[i] # got[j]
  BY <1>1, <1>2
<1>6. \A k \in DOMAIN dataset : k > cursor + Len(page) =>
        \A i \in DOMAIN page : dataset[k] # page[i]
  BY <1>1, <1>2 DEF Distinct
<1>7. Distinct(got') /\ Distinct(answer'.page)
  BY <1>2, <1>3, <1>4 DEF page
<1> QED BY <1>1, <1>2, <1>3, <1>5, <1>6, <1>7 DEF Fresh, page

LEMMA FreshTake == ASSUME Shape, Fresh, Take PROVE Fresh'
<1> DEFINE m == Len(got)
           page == answer.page
<1>1. /\ Waiting /\ ~Waiting' /\ cursor' = answer.next /\ UNCHANGED <<dataset, inserted>>
  BY DEF Take, data, Waiting
<1> SUFFICES ASSUME ~inserted PROVE Fresh'
  BY <1>1 DEF Fresh
<1>2. /\ DOMAIN got = 1..m /\ m \in Nat /\ DOMAIN page = 1..Len(page) /\ Len(page) \in Nat
      /\ cursor \in Nat /\ DOMAIN dataset \subseteq Nat
  BY <1>1, ReplyFacts
<1>3. /\ DOMAIN got' = 1..Len(got')
      /\ \A k \in 1..m : got'[k] = got[k]
      /\ \A k \in 1..Len(got') :
           k \in 1..m \/ (k - m \in 1..Len(page) /\ got'[k] = page[k - m])
      /\ Len(got') \in Nat
  BY TakeFacts
<1>4. /\ Distinct(got) /\ Distinct(page)
      /\ \A i \in DOMAIN page : \A j \in DOMAIN got : page[i] # got[j]
      /\ \A k \in DOMAIN dataset : k > cursor => \A j \in DOMAIN got : dataset[k] # got[j]
      /\ answer.next \in Nat =>
           /\ answer.next >= cursor
           /\ \A k \in DOMAIN dataset : k > answer.next =>
                \A i \in DOMAIN page : dataset[k] # page[i]
  BY <1>1, <1>2 DEF Fresh
<1> HIDE DEF m, page
<1>5. Distinct(got')
  <2> SUFFICES ASSUME NEW i \in 1..Len(got'), NEW j \in 1..Len(got'), i # j
               PROVE  got'[i] # got'[j]
    BY <1>3 DEF Distinct
  <2>1. CASE i \in 1..m /\ j \in 1..m
    <3>1. got'[i] = got[i] /\ got'[j] = got[j]
      BY <1>3, <2>1
    <3>2. \A a, b \in DOMAIN got : a # b => got[a] # got[b]
      BY <1>4, Zenon DEF Distinct
    <3>3. i \in DOMAIN got /\ j \in DOMAIN got /\ i # j
      BY <1>2, <2>1
    <3> QED BY <3>1, <3>2, <3>3, Zenon
  <2>2. CASE i \in 1..m /\ j \notin 1..m
    <3>1. got'[i] = got[i] /\ i \in DOMAIN got
      BY <1>2, <1>3, <2>2
    <3>2. j - m \in DOMAIN page /\ got'[j] = page[j - m]
      BY <1>2, <1>3, <2>2
    <3> QED BY <1>4, <3>1, <3>2
  <2>3. CASE i \notin 1..m /\ j \in 1..m
    <3>1. got'[j] = got[j] /\ j \in DOMAIN got
      BY <1>2, <1>3, <2>3
    <3>2. i - m \in DOMAIN page /\ got'[i] = page[i - m]
      BY <1>2, <1>3, <2>3
    <3> QED BY <1>4, <3>1, <3>2
  <2>4. CASE i \notin 1..m /\ j \notin 1..m
    <3>1. i - m \in DOMAIN page /\ j - m \in DOMAIN page /\ i - m # j - m
      BY <1>2, <1>3, <2>4
    <3> QED BY <1>3, <1>4, <2>4, <3>1 DEF Distinct
  <2> QED BY <2>1, <2>2, <2>3, <2>4
<1>6. ASSUME NEW k \in DOMAIN dataset, answer.next \in Nat, k > answer.next,
             NEW j \in DOMAIN got'
      PROVE  dataset[k] # got'[j]
  <2>1. k > cursor
    BY <1>2, <1>4, <1>6
  <2>2. CASE j \in 1..m
    BY <1>2, <1>3, <1>4, <2>1, <2>2
  <2>3. CASE j \notin 1..m
    BY <1>2, <1>3, <1>4, <1>6, <2>3
  <2> QED BY <2>2, <2>3
<1> QED BY <1>1, <1>5, <1>6 DEF Fresh

LEMMA FreshAdd == ASSUME Shape, Fresh, NEW r \in Records, AddRecord(r) PROVE Fresh'
<1>1. /\ \A k \in DOMAIN dataset' :
           (k \in DOMAIN dataset /\ dataset'[k] = dataset[k]) \/ dataset'[k] \notin ever
      /\ UNCHANGED <<inserted, cursor, answer, got>>
  BY AddFacts
<1>2. /\ \A k \in DOMAIN got : got[k] \in ever
      /\ \A k \in DOMAIN answer.page : answer.page[k] \in ever
  BY DEF Shape
<1> QED BY <1>1, <1>2 DEF Fresh, Waiting, Distinct

LEMMA FreshDelete ==
    ASSUME Shape, Fresh, NEW i \in DOMAIN dataset, DeleteRecord(i)
    PROVE  Fresh'
<1>1. /\ \A k \in DOMAIN dataset' : \/ k \in DOMAIN dataset /\ dataset'[k] = dataset[k]
                                    \/ k + 1 \in DOMAIN dataset /\ dataset'[k] = dataset[k + 1]
      /\ UNCHANGED <<inserted, cursor, answer, got>>
      /\ dataset' \in Seq(Records)
  BY DeleteFacts
<1>1a. \A k \in DOMAIN dataset' : k \in Nat
  BY <1>1
<1>2. ASSUME NEW c \in Nat, NEW k \in DOMAIN dataset', k > c
      PROVE  \E l \in DOMAIN dataset : l > c /\ dataset'[k] = dataset[l]
  BY <1>1, <1>1a, <1>2
<1> SUFFICES ASSUME ~inserted PROVE Fresh'
  BY <1>1 DEF Fresh
<1>3. cursor \in Nat =>
        \A k \in DOMAIN dataset' : k > cursor => \A j \in DOMAIN got : dataset'[k] # got[j]
  BY <1>2 DEF Fresh
<1>4. Waiting /\ answer.next \in Nat =>
        \A k \in DOMAIN dataset' : k > answer.next =>
          \A j \in DOMAIN answer.page : dataset'[k] # answer.page[j]
  BY <1>2 DEF Fresh
<1>5. Distinct(got') /\ (Waiting' <=> Waiting) /\ (Waiting => Distinct(answer'.page))
  BY <1>1 DEF Fresh, Waiting, Distinct
<1> QED BY <1>1, <1>3, <1>4, <1>5 DEF Fresh

LEMMA FreshStep == ASSUME Shape, Fresh, [Next]_vars PROVE Fresh'
<1>1. CASE UNCHANGED vars
  BY <1>1 DEF vars, Fresh, Waiting, Distinct
<1>2. CASE Refuse
  BY <1>2 DEF Refuse, Fresh, Waiting, Distinct, data, Failed
<1>3. CASE Lose
  BY <1>3 DEF Lose, Fresh, Waiting, Distinct, data
<1>4. ASSUME NEW r \in Records, NEW i \in DOMAIN dataset, InsertRecord(r, i)
      PROVE  Fresh'
  BY <1>4, InsertFacts DEF Fresh
<1> QED BY <1>1, <1>2, <1>3, <1>4, FreshServe, FreshTake, FreshAdd, FreshDelete DEF Next

\* As long as no record is put before others, however many are removed or
\* added at the end and whatever answers are lost, no record comes twice.
THEOREM NoRepeats == Spec => []NoRepeatUnlessInserted
<1>1. Init => Shape /\ Fresh
  <2>1. ASSUME Init PROVE Fresh
    BY <2>1 DEF Init, Fresh, Distinct, Waiting
  <2> QED BY <2>1, ShapeInit
<1>2. Shape /\ Fresh /\ [Next]_vars => Shape' /\ Fresh'
  BY ShapeStep, FreshStep
<1>3. Fresh => NoRepeatUnlessInserted
  BY DEF Fresh, NoRepeatUnlessInserted
<1> QED BY <1>1, <1>2, <1>3, PTL DEF Spec

-----------------------------------------------------------------------------
(* No record left out.                                                     *)

\* What was in the dataset when the walk began has arrived, is on its way, or
\* still lies behind the cursor.
Kept ==
    ~removed =>
        \A i \in DOMAIN initial :
            /\ \/ cursor = Failed
               \/ \E j \in DOMAIN got : got[j] = initial[i]
               \/ cursor \in Nat /\ \E k \in DOMAIN dataset : k > cursor /\ dataset[k] = initial[i]
            /\ Waiting =>
                 \/ \E j \in DOMAIN got : got[j] = initial[i]
                 \/ \E j \in DOMAIN answer.page : answer.page[j] = initial[i]
                 \/ /\ answer.next \in Nat
                    /\ \E k \in DOMAIN dataset : k > answer.next /\ dataset[k] = initial[i]

LEMMA KeptServe == ASSUME Shape, Kept, Serve PROVE Kept'
<1> DEFINE page == answer'.page
<1>1. /\ DOMAIN page = 1..Len(page) /\ Len(page) \in Nat
      /\ \A j \in 1..Len(page) : cursor + j \in DOMAIN dataset /\ page[j] = dataset[cursor + j]
      /\ answer'.next \in Cursors
      /\ answer'.next # End => answer'.next = cursor + Len(page)
      /\ answer'.next = End =>
           \A k \in DOMAIN dataset : k > cursor => k - cursor \in 1..Len(page)
      /\ DOMAIN dataset \subseteq Nat /\ cursor \in Nat
      /\ UNCHANGED <<dataset, initial, removed, cursor, got>>
  BY ServeFacts, ReplyFacts
<1> SUFFICES ASSUME ~removed, NEW i \in DOMAIN initial
             PROVE  \/ \E j \in DOMAIN got : got[j] = initial[i]
                    \/ \E j \in DOMAIN page : page[j] = initial[i]
                    \/ /\ answer'.next \in Nat
                       /\ \E k \in DOMAIN dataset :
                            k > answer'.next /\ dataset[k] = initial[i]
  BY <1>1 DEF Kept, page
<1>2. CASE \E j \in DOMAIN got : got[j] = initial[i]
  BY <1>2
<1>3. ASSUME NEW k \in DOMAIN dataset, k > cursor, dataset[k] = initial[i]
      PROVE  \/ \E j \in DOMAIN page : page[j] = initial[i]
             \/ answer'.next \in Nat /\ k > answer'.next
  <2> HIDE DEF page
  <2>1. CASE k - cursor \in 1..Len(page)
    <3>1. cursor + (k - cursor) = k
      BY <1>1
    <3>2. page[k - cursor] = initial[i]
      BY <1>1, <1>3, <2>1, <3>1
    <3> QED BY <1>1, <2>1, <3>2
  <2>2. CASE k - cursor \notin 1..Len(page)
    <3>1. answer'.next # End /\ answer'.next \in Nat
      BY <1>1, <1>3, <2>2 DEF Cursors
    <3> QED BY <1>1, <1>3, <2>2, <3>1
  <2> QED BY <2>1, <2>2
<1>4. \/ \E j \in DOMAIN got : got[j] = initial[i]
      \/ \E k \in DOMAIN dataset : k > cursor /\ dataset[k] = initial[i]
  BY <1>1 DEF Kept, Failed
<1> HIDE DEF page
<1> QED BY <1>3, <1>4

LEMMA KeptTake == ASSUME Shape, Kept, Take PROVE Kept'
<1>1. /\ Waiting /\ ~Waiting' /\ cursor' = answer.next
      /\ UNCHANGED <<dataset, initial, removed>>
  BY DEF Take, data, given, Waiting
<1>2. /\ DOMAIN got = 1..Len(got) /\ DOMAIN answer.page = 1..Len(answer.page)
      /\ Len(got) \in Nat /\ Len(answer.page) \in Nat /\ Len(got') \in Nat
      /\ DOMAIN got' = 1..Len(got') /\ Len(got') = Len(got) + Len(answer.page)
      /\ \A k \in 1..Len(got) : got'[k] = got[k]
      /\ \A k \in 1..Len(answer.page) : got'[Len(got) + k] = answer.page[k]
  BY ReplyFacts, TakeFacts
<1>3. \A j \in DOMAIN got : j \in DOMAIN got' /\ got'[j] = got[j]
  BY <1>2
<1>4. \A j \in DOMAIN answer.page :
        Len(got) + j \in DOMAIN got' /\ got'[Len(got) + j] = answer.page[j]
  <2>1. \A m, n \in Nat : \A j \in 1..n : m + j \in 1..(m + n)
    OBVIOUS
  <2> QED BY <1>2, <2>1
<1> QED BY <1>1, <1>3, <1>4 DEF Kept

LEMMA KeptChange ==
    ASSUME Shape, Kept, UNCHANGED <<removed, cursor, answer, got, initial>>,
           \A k \in DOMAIN dataset :
                \/ k \in DOMAIN dataset' /\ dataset'[k] = dataset[k]
                \/ k + 1 \in DOMAIN dataset' /\ dataset'[k + 1] = dataset[k]
    PROVE  Kept'
<1>1. DOMAIN dataset \subseteq Nat
  BY ReplyFacts
<1>2. ASSUME NEW c \in Nat, NEW k \in DOMAIN dataset, k > c
      PROVE  \E l \in DOMAIN dataset' : l > c /\ dataset'[l] = dataset[k]
  BY <1>1, <1>2
<1> QED BY <1>2 DEF Kept, Waiting

LEMMA KeptStep == ASSUME Shape, Kept, [Next]_vars PROVE Kept'
<1>1. CASE UNCHANGED vars
  BY <1>1 DEF vars, Kept, Waiting
<1>2. CASE Refuse
  BY <1>2 DEF Refuse, Kept, Waiting, data, given
<1>3. CASE Lose
  BY <1>3 DEF Lose, Kept, Waiting, data, given
<1>4. ASSUME NEW r \in Records, AddRecord(r) PROVE Kept'
  BY <1>4, AddFacts, KeptChange
<1>5. ASSUME NEW r \in Records, NEW i \in DOMAIN dataset, InsertRecord(r, i) PROVE Kept'
  BY <1>5, InsertFacts, KeptChange
<1>6. ASSUME NEW i \in DOMAIN dataset, DeleteRecord(i) PROVE Kept'
  BY <1>6, DeleteFacts DEF Kept
<1> QED BY <1>1, <1>2, <1>3, <1>4, <1>5, <1>6, KeptServe, KeptTake DEF Next

\* As long as no record is removed, wherever others are added, a walk that got
\* to its end has every record there was when it began.
THEOREM NoSkips == Spec => []NoSkipUnlessRemoved
<1>1. Init => Shape /\ Kept
  <2>1. ASSUME Init PROVE Kept
    <3>1. dataset \in Seq(Records) /\ cursor = 0 /\ initial = dataset /\ ~Waiting
      BY <2>1, ShapeInit DEF Init, Waiting, Shape, TypeOK
    <3>2. DOMAIN dataset = 1..Len(dataset)
      BY <3>1
    <3> QED BY <3>1, <3>2 DEF Kept
  <2> QED BY <2>1, ShapeInit
<1>2. Shape /\ Kept /\ [Next]_vars => Shape' /\ Kept'
  BY ShapeStep, KeptStep
<1>3. Shape /\ Kept => NoSkipUnlessRemoved
  BY DEF Kept, NoSkipUnlessRemoved, ToSet, End, Failed
<1> QED BY <1>1, <1>2, <1>3, PTL DEF Spec

-----------------------------------------------------------------------------
(* The records in their order.                                             *)

\* The cursor counts what the peer got, and a response continues it.
InStep ==
    ~inserted /\ ~removed =>
        /\ \A i \in DOMAIN got : i \in DOMAIN dataset /\ got[i] = dataset[i]
        /\ cursor \in Nat => cursor = Len(got)
        /\ Waiting =>
             /\ \A j \in DOMAIN answer.page :
                  Len(got) + j \in DOMAIN dataset /\ answer.page[j] = dataset[Len(got) + j]
             /\ answer.next \in Nat => answer.next = Len(got) + Len(answer.page)

LEMMA InStepServe == ASSUME Shape, InStep, Serve PROVE InStep'
<1> DEFINE page == answer'.page
<1>1. /\ DOMAIN page = 1..Len(page)
      /\ \A j \in 1..Len(page) : cursor + j \in DOMAIN dataset /\ page[j] = dataset[cursor + j]
      /\ answer'.next \in Nat => answer'.next = cursor + Len(page)
      /\ cursor \in Nat
      /\ UNCHANGED <<dataset, inserted, removed, cursor, got>>
  BY ServeFacts DEF End
<1> HIDE DEF page
<1> QED BY <1>1 DEF InStep, page

LEMMA InStepTake == ASSUME Shape, InStep, Take PROVE InStep'
<1> DEFINE m == Len(got)
           page == answer.page
<1>1. /\ Waiting /\ ~Waiting' /\ cursor' = answer.next
      /\ UNCHANGED <<dataset, inserted, removed>>
  BY DEF Take, data, Waiting
<1>2. /\ DOMAIN got = 1..m /\ m \in Nat /\ DOMAIN page = 1..Len(page) /\ Len(page) \in Nat
      /\ DOMAIN got' = 1..Len(got') /\ Len(got') = m + Len(page)
      /\ \A k \in 1..m : got'[k] = got[k]
      /\ \A k \in 1..Len(got') :
           k \in 1..m \/ (k - m \in 1..Len(page) /\ got'[k] = page[k - m])
  BY ReplyFacts, TakeFacts
<1> HIDE DEF m, page
<1> SUFFICES ASSUME ~inserted, ~removed PROVE InStep'
  BY <1>1 DEF InStep
<1>3. /\ \A i \in 1..m : i \in DOMAIN dataset /\ got[i] = dataset[i]
      /\ \A j \in 1..Len(page) : m + j \in DOMAIN dataset /\ page[j] = dataset[m + j]
      /\ answer.next \in Nat => answer.next = m + Len(page)
  BY <1>1, <1>2 DEF InStep, m, page
<1>4. ASSUME NEW i \in DOMAIN got'
      PROVE  i \in DOMAIN dataset /\ got'[i] = dataset[i]
  <2>1. CASE i \in 1..m
    BY <1>2, <1>3, <2>1
  <2>2. CASE i \notin 1..m
    <3>1. i - m \in 1..Len(page) /\ got'[i] = page[i - m] /\ m + (i - m) = i
      BY <1>2, <2>2
    <3> QED BY <1>3, <3>1
  <2> QED BY <2>1, <2>2
<1> QED BY <1>1, <1>2, <1>3, <1>4 DEF InStep

LEMMA InStepStep == ASSUME Shape, InStep, [Next]_vars PROVE InStep'
<1>1. CASE UNCHANGED vars
  BY <1>1 DEF vars, InStep, Waiting
<1>2. CASE Refuse
  BY <1>2 DEF Refuse, InStep, Waiting, data, Failed
<1>3. CASE Lose
  BY <1>3 DEF Lose, InStep, Waiting, data
<1>4. ASSUME NEW r \in Records, AddRecord(r) PROVE InStep'
  <2>1. /\ \A k \in DOMAIN dataset : k \in DOMAIN dataset' /\ dataset'[k] = dataset[k]
        /\ UNCHANGED <<inserted, removed, cursor, answer, got>>
    BY <1>4, AddFacts
  <2> QED BY <2>1 DEF InStep, Waiting
<1>5. ASSUME NEW r \in Records, NEW i \in DOMAIN dataset, InsertRecord(r, i) PROVE InStep'
  BY <1>5, InsertFacts DEF InStep
<1>6. ASSUME NEW i \in DOMAIN dataset, DeleteRecord(i) PROVE InStep'
  BY <1>6, DeleteFacts DEF InStep
<1> QED BY <1>1, <1>2, <1>3, <1>4, <1>5, <1>6, InStepServe, InStepTake DEF Next

\* While records are added at the end only, what the peer has is what the
\* dataset begins with, though responses were lost and pages asked for again.
THEOREM Prefix == Spec => []PrefixUnlessChanged
<1>1. Init => Shape /\ InStep
  <2>1. ASSUME Init PROVE InStep
    BY <2>1 DEF Init, InStep, Waiting
  <2> QED BY <2>1, ShapeInit
<1>2. Shape /\ InStep /\ [Next]_vars => Shape' /\ InStep'
  BY ShapeStep, InStepStep
<1>3. Shape /\ InStep => PrefixUnlessChanged
  <2> SUFFICES ASSUME Shape, InStep, ~inserted, ~removed
               PROVE  Len(got) <= Len(dataset) /\ \A i \in DOMAIN got : got[i] = dataset[i]
    BY DEF PrefixUnlessChanged
  <2>1. /\ \A i \in 1..Len(got) : i \in 1..Len(dataset) /\ got[i] = dataset[i]
        /\ Len(got) \in Nat /\ Len(dataset) \in Nat /\ DOMAIN got = 1..Len(got)
    BY ReplyFacts DEF InStep
  <2>2. Len(got) <= Len(dataset)
    <3>1. Len(got) > 0 => Len(got) \in 1..Len(got)
      BY <2>1
    <3> QED BY <2>1, <3>1
  <2> QED BY <2>1, <2>2
<1> QED BY <1>1, <1>2, <1>3, PTL DEF Spec
=============================================================================
