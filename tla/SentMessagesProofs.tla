------------------------ MODULE SentMessagesProofs --------------------------
(***************************************************************************)
(* Proofs about the paged reading of sent messages, for every size of the  *)
(* table, every assignment of creation times and every limit.              *)
(***************************************************************************)
EXTENDS SentMessages, FiniteSetTheorems, SequenceTheorems, TLAPS

-----------------------------------------------------------------------------
(***************************************************************************)
(* Counting rows.                                                          *)
(***************************************************************************)

\* Sets of rows have a size, and larger sets a larger one.
LEMMA RowsCount ==
    ASSUME NEW S \in SUBSET Offsets, NEW T \in SUBSET S
    PROVE  /\ IsFiniteSet(S)
           /\ Cardinality(S) \in Nat /\ Cardinality(T) \in Nat
           /\ Cardinality(T) <= Cardinality(S)
<1>1. IsFiniteSet(Offsets)
  BY StoreAssumption, FS_Interval DEF Offsets
<1>2. IsFiniteSet(S)
  BY <1>1, FS_Subset
<1>3. IsFiniteSet(T) /\ Cardinality(T) <= Cardinality(S)
  BY <1>2, FS_Subset
<1> QED
  BY <1>2, <1>3, FS_CardinalityType

\* A row that is in one set and not in the other makes the difference.
LEMMA OneRowMore ==
    ASSUME NEW S \in SUBSET Offsets, NEW T \in SUBSET S, NEW m \in S, m \notin T
    PROVE  Cardinality(T) + 1 <= Cardinality(S)
<1>1. IsFiniteSet(T) /\ Cardinality(T) \in Nat
  BY RowsCount
<1>2. Cardinality(T \cup {m}) = Cardinality(T) + 1
  BY <1>1, FS_AddElement
<1>3. T \cup {m} \in SUBSET S
  OBVIOUS
<1> QED
  BY <1>2, <1>3, RowsCount

\* The rows that are newer than a row, in a set and in a larger one.
LEMMA NewerGrows ==
    ASSUME NEW S \in SUBSET Offsets, NEW T \in SUBSET S, NEW m
    PROVE  /\ Cardinality(Newer(S, m)) \in Nat /\ Cardinality(Newer(T, m)) \in Nat
           /\ Cardinality(Newer(T, m)) <= Cardinality(Newer(S, m))
<1> Newer(T, m) \in SUBSET Newer(S, m) /\ Newer(S, m) \in SUBSET Offsets
  BY DEF Newer
<1> QED
  BY RowsCount

-----------------------------------------------------------------------------
(***************************************************************************)
(* The query.                                                              *)
(***************************************************************************)

\* What a slice of the sent messages is made of, and where it ends.
LEMMA ListProperties ==
    ASSUME NEW lim \in Nat \ {0}, NEW skip \in Nat, NEW s, NEW p \in List(lim, skip, s)
    PROVE  /\ p \in Seq(Offsets)
           /\ Elements(p) \subseteq WithStatus(s)
           /\ Len(p) \in Nat
           /\ Len(p) = SliceSize(Cardinality(WithStatus(s)), lim, skip)
           /\ p # <<>> => skip + Len(p) <= Cardinality(WithStatus(s))
<1> DEFINE rows == WithStatus(s)
           n == Cardinality(rows)
           size == SliceSize(n, lim, skip)
<1>1. rows \in SUBSET Offsets /\ n \in Nat
  BY RowsCount DEF WithStatus
<1>2. size \in Nat /\ (size > 0 => skip + size <= n)
  BY <1>1 DEF SliceSize
<1>3. p \in [1..size -> rows]
  BY DEF List
<1>4. p \in Seq(rows) /\ Len(p) = size
  <2>1. p \in UNION {[1..k -> rows] : k \in Nat}
    BY <1>2, <1>3
  <2>2. p \in Seq(rows)
    BY <2>1, SeqDef
  <2>3. DOMAIN p = 1..size /\ DOMAIN p = 1..Len(p)
    BY <1>3, <2>2, LenProperties
  <2> HIDE DEF rows, size
  <2> QED
    BY <1>2, <2>2, <2>3, LenProperties
<1>5. p \in Seq(Offsets)
  BY <1>1, <1>4, SeqMonotonic
<1>6. Elements(p) \subseteq rows
  BY <1>3, <1>4 DEF Elements
<1>7. p # <<>> => size > 0
  <2> HIDE DEF rows, size
  <2> QED
    BY <1>2, <1>4, EmptySeq
<1> QED
  BY <1>2, <1>4, <1>5, <1>6, <1>7

\* A row with a creation time of its own that lies behind the rows skipped is
\* in the slice, or lies behind a slice that is full.
LEMMA ListReaches ==
    ASSUME status \in [Offsets -> Statuses \cup {"ABSENT"}],
           NEW lim \in Nat \ {0}, NEW skip \in Nat, NEW s, NEW p \in List(lim, skip, s),
           NEW m \in WithStatus(s), ~Tied(m), m \notin Elements(p),
           skip <= Cardinality(Newer(WithStatus(s), m))
    PROVE  /\ skip + Len(p) <= Cardinality(Newer(WithStatus(s), m))
           /\ lim <= Len(p)
<1> DEFINE rows == WithStatus(s)
           n == Cardinality(rows)
           c == Cardinality(Newer(rows, m))
<1>1. rows \in SUBSET Offsets /\ m \in rows
  BY DEF WithStatus
<1>2. c \in Nat /\ n \in Nat /\ c + 1 <= n
  <2>1. Newer(rows, m) \in SUBSET rows /\ m \notin Newer(rows, m)
    BY <1>1, QueryAssumption DEF Newer
  <2>2. c + 1 <= n
    BY <1>1, <2>1, OneRowMore
  <2> QED
    BY <1>1, <2>1, <2>2, RowsCount
<1>3. Len(p) = SliceSize(n, lim, skip) /\ Len(p) \in Nat
  BY ListProperties
<1>4. ASSUME c < skip + Len(p) PROVE FALSE
  <2> DEFINE i == c + 1 - skip
             q == p[i]
  <2>1. i \in 1..Len(p) /\ skip + i = c + 1
    BY <1>2, <1>3, <1>4
  <2>2. p \in [1..Len(p) -> rows]
    BY <1>3 DEF List
  <2>3. q \in rows /\ q \in Elements(p)
    BY <2>1, <2>2 DEF Elements
  <2>4. Cardinality(Newer(rows, q)) < c + 1 /\ c + 1 <= Cardinality(NotOlder(rows, q))
    BY <2>1, <2>2 DEF List
  <2>5. /\ Newer(rows, q) \in SUBSET Offsets /\ NotOlder(rows, q) \in SUBSET Offsets
        /\ CreatedAt[q] \in Nat /\ CreatedAt[m] \in Nat
        /\ \A r \in rows : CreatedAt[r] \in Nat
    BY <1>1, <2>3, QueryAssumption DEF Newer, NotOlder
  <2>6. CASE CreatedAt[q] > CreatedAt[m]
    <3>1. NotOlder(rows, q) \in SUBSET Newer(rows, m)
      BY <2>5, <2>6 DEF NotOlder, Newer
    <3>2. Newer(rows, m) \in SUBSET Offsets
      BY <1>1 DEF Newer
    <3>3. Cardinality(NotOlder(rows, q)) <= c /\ Cardinality(NotOlder(rows, q)) \in Nat
      BY <3>1, <3>2, RowsCount
    <3> HIDE DEF c, q
    <3> QED
      BY <1>2, <2>4, <3>3
  <2>7. CASE CreatedAt[q] < CreatedAt[m]
    <3>1. Newer(rows, m) \in SUBSET Newer(rows, q) /\ m \notin Newer(rows, m)
      <4> HIDE DEF q, rows
      <4> QED
        BY <2>5, <2>7, SMT DEF Newer
    <3>2. m \in Newer(rows, q)
      BY <1>1, <2>7 DEF Newer
    <3>3. c + 1 <= Cardinality(Newer(rows, q)) /\ Cardinality(Newer(rows, q)) \in Nat
      BY <2>5, <3>1, <3>2, OneRowMore, RowsCount
    <3> HIDE DEF c, q
    <3> QED
      BY <1>2, <2>4, <3>3
  <2>8. CASE CreatedAt[q] = CreatedAt[m]
    <3>1. q = m
      BY <1>1, <2>3, <2>8 DEF Tied
    <3> QED
      BY <2>3, <3>1
  <2> QED
    BY <2>5, <2>6, <2>7, <2>8
<1>5. skip + Len(p) <= c
  <2> HIDE DEF c
  <2> QED
    BY <1>2, <1>3, <1>4
<1>6. lim <= Len(p)
  <2> HIDE DEF c, n
  <2> QED
    BY <1>2, <1>3, <1>5 DEF SliceSize
<1> QED
  BY <1>5, <1>6

-----------------------------------------------------------------------------
(***************************************************************************)
(* Type correctness.                                                       *)
(***************************************************************************)

LEMMA InitTypeOK == Init => TypeOK
<1> <<>> \in Seq(Offsets)
  BY EmptySeq
<1> QED
  BY DEF Init, StoreInit, TypeOK, StoreTypeOK

LEMMA StepTypeOK == TypeOK /\ [Next]_vars => TypeOK'
<1> SUFFICES ASSUME TypeOK, [Next]_vars PROVE TypeOK'
  OBVIOUS
<1> USE DEF TypeOK, StoreTypeOK, answerVars
<1>e. <<>> \in Seq(Offsets) /\ Len(page) \in Nat
  BY EmptySeq, LenProperties
<1>0. ASSUME NEW m \in Offsets, Seed(m) PROVE TypeOK'
  BY <1>0, StoreAssumption DEF Seed, Create
<1>1. ASSUME NEW rows \in SUBSET Offsets, CreateInBatches(rows) PROVE TypeOK'
  BY <1>1, StoreAssumption DEF CreateInBatches, GenerateRandomMessages
<1>2. ASSUME NEW m \in Offsets, Settle(m) PROVE TypeOK'
  BY <1>2 DEF Settle, Update, Statuses
<1>3. ASSUME NEW key \in Keys, Refuse(key) PROVE TypeOK'
  BY <1>3 DEF Refuse
<1>4. ASSUME NEW key \in Keys, NEW l \in Params, NEW o \in Params, Begin(key, l, o)
      PROVE  TypeOK'
  <2>1. Atoi(l) \in Int /\ Atoi(o) \in Int
    BY QueryAssumption DEF Atoi
  <2>2. Limit(l) \in Nat \ {0} /\ Offset(o) \in Nat
    BY <2>1 DEF Limit, Offset, DefaultLimit
  <2>3. SentRows \in SUBSET Offsets
    BY DEF SentRows, WithStatus
  <2> QED
    BY <1>4, <1>e, <2>2, <2>3 DEF Begin
<1>5. CASE ListSent
  <2>1. page' \in Seq(Offsets)
    BY <1>5, ListProperties DEF ListSent
  <2> QED
    BY <1>5, <2>1 DEF ListSent
<1>6. CASE ListFails
  BY <1>6 DEF ListFails
<1>7. CASE CountAll
  <2>1. GetTotalCount \in Nat
    BY RowsCount DEF GetTotalCount, VisibleRows
  <2> QED
    BY <1>7, <2>1 DEF CountAll
<1>8. CASE TakePage
  <2>1. Elements(page) \subseteq Offsets
    BY ElementOfSeq DEF Elements
  <2> QED
    BY <1>8, <1>e, <2>1 DEF TakePage
<1>9. CASE UNCHANGED vars
  BY <1>9 DEF vars
<1> QED
  BY <1>0, <1>1, <1>2, <1>3, <1>4, <1>5, <1>6, <1>7, <1>8, <1>9 DEF Next, Read

-----------------------------------------------------------------------------
(***************************************************************************)
(* The invariant of a reading.                                             *)
(***************************************************************************)

ReadingInv ==
    PageInHand /\ HistoryIsSent /\ OwedBehind /\ OwedByFull /\ PageInTable /\ TotalCoversPage

\* Inserts and settled messages move what is owed further away and enlarge
\* the table.
LEMMA TableKeepsReading ==
    ASSUME TypeOK, ReadingInv, UNCHANGED <<request, answerVars, initial, shown>>,
           SentRows \subseteq SentRows', VisibleRows \subseteq VisibleRows'
    PROVE  ReadingInv'
<1> USE DEF ReadingInv, answerVars
<1>1. /\ SentRows \in SUBSET Offsets /\ SentRows' \in SUBSET Offsets
      /\ VisibleRows \in SUBSET Offsets /\ VisibleRows' \in SUBSET Offsets
  BY DEF SentRows, WithStatus, VisibleRows
<1>2. Owed' = Owed /\ Elements(page)' = Elements(page) /\ offset + Len(page) \in Nat
  BY LenProperties DEF Owed, Elements, Tied, TypeOK
<1>3. PageInHand' /\ HistoryIsSent' /\ OwedByFull' /\ TotalCoversPage'
  BY <1>2 DEF PageInHand, HistoryIsSent, OwedByFull, TotalCoversPage, Fetched
<1>4. OwedBehind'
  <2> SUFFICES ASSUME Reading, NEW m \in Owed
               PROVE  offset + Len(page) <= Cardinality(Newer(SentRows', m))
    BY <1>2 DEF OwedBehind, Reading, Newer
  <2>1. offset + Len(page) <= Cardinality(Newer(SentRows, m))
    BY DEF OwedBehind
  <2>2. /\ Cardinality(Newer(SentRows, m)) \in Nat /\ Cardinality(Newer(SentRows', m)) \in Nat
        /\ Cardinality(Newer(SentRows, m)) <= Cardinality(Newer(SentRows', m))
    BY <1>1, NewerGrows
  <2> QED
    BY <1>2, <2>1, <2>2
<1>5. PageInTable'
  <2>1. /\ Cardinality(VisibleRows) \in Nat /\ Cardinality(VisibleRows') \in Nat
        /\ Cardinality(VisibleRows) <= Cardinality(VisibleRows')
    BY <1>1, RowsCount
  <2> QED
    BY <1>2, <2>1 DEF PageInTable
<1> QED
  BY <1>3, <1>4, <1>5

\* The query hands out what is owed next.
LEMMA ListKeepsReading ==
    ASSUME TypeOK, ReadingInv, ListSent
    PROVE  ReadingInv'
<1> USE DEF ReadingInv, ListSent
<1>1. /\ page = <<>> /\ Len(page) = 0 /\ Elements(page) = {}
      /\ limit \in Nat \ {0} /\ offset \in Nat
  BY EmptySeq DEF PageInHand, Fetched, Elements, TypeOK
<1>2. /\ page' \in List(limit, offset, "SENT")
      /\ Elements(page') \subseteq SentRows
      /\ Len(page') \in Nat
      /\ page' # <<>> => offset + Len(page') <= Cardinality(SentRows)
  BY <1>1, ListProperties DEF SentRows
<1>3. SentRows' = SentRows /\ VisibleRows' = VisibleRows
  BY DEF SentRows, WithStatus, VisibleRows, Visible
<1>4. PageInHand' /\ HistoryIsSent' /\ TotalCoversPage'
  BY <1>2, <1>3 DEF PageInHand, Fetched, HistoryIsSent, TotalCoversPage, Elements
<1>5. ASSUME NEW m \in Owed'
      PROVE  offset + Len(page') <= Cardinality(Newer(SentRows, m)) /\ limit <= Len(page')
  <2>1. m \in initial \ shown /\ m \notin Elements(page') /\ ~Tied(m)
    BY <1>5 DEF Owed, Elements, Tied
  <2>2. m \in Owed /\ m \in WithStatus("SENT")
    BY <1>1, <2>1 DEF Owed, HistoryIsSent, SentRows
  <2>3. offset <= Cardinality(Newer(WithStatus("SENT"), m))
    BY <1>1, <2>2 DEF OwedBehind, Reading, SentRows
  <2>4. status \in [Offsets -> Statuses \cup {"ABSENT"}]
    BY DEF TypeOK, StoreTypeOK
  <2> QED
    BY <1>1, <1>2, <2>1, <2>2, <2>3, <2>4, ListReaches DEF SentRows
<1>6. OwedBehind'
  BY <1>3, <1>5 DEF OwedBehind, Newer
<1>7. OwedByFull'
  BY <1>1, <1>2, <1>5 DEF OwedByFull
<1>8. PageInTable'
  <2>1. SentRows \in SUBSET VisibleRows /\ VisibleRows \in SUBSET Offsets
    BY DEF SentRows, WithStatus, VisibleRows, Visible
  <2>2. Cardinality(SentRows) <= Cardinality(VisibleRows)
        /\ Cardinality(SentRows) \in Nat /\ Cardinality(VisibleRows) \in Nat
    BY <2>1, RowsCount
  <2> QED
    BY <1>1, <1>2, <1>3, <2>2 DEF PageInTable
<1> QED
  BY <1>4, <1>6, <1>7, <1>8

\* The client takes the page: what it is owed lies behind it, or there is
\* nothing left.
LEMMA TakeKeepsReading ==
    ASSUME TypeOK, ReadingInv, TakePage
    PROVE  ReadingInv'
<1> USE DEF ReadingInv, TakePage
<1>1. /\ Fetched /\ Reading
      /\ Len(page) \in Nat /\ offset \in Nat /\ limit \in Nat
  BY LenProperties DEF Fetched, Reading, TypeOK
<1>2. page' = <<>> /\ Len(page') = 0 /\ Elements(page') = {}
  BY EmptySeq DEF Elements
<1>3. SentRows' = SentRows
  BY DEF SentRows, WithStatus
<1>4. shown' \cup Elements(page') = shown \cup Elements(page)
  BY <1>2
<1>5. Owed' = Owed
  BY <1>4 DEF Owed, Elements, Tied
<1>6. HistoryIsSent'
  BY <1>3, <1>4 DEF HistoryIsSent, Elements
<1>7. PageInHand' /\ PageInTable' /\ TotalCoversPage'
  BY <1>2 DEF PageInHand, PageInTable, TotalCoversPage
<1>8. CASE Len(page) >= limit /\ request' = "list" /\ offset' = offset + Len(page)
  <2>1. OwedBehind'
    BY <1>1, <1>2, <1>3, <1>5, <1>8 DEF OwedBehind, Newer
  <2>2. OwedByFull'
    BY <1>8 DEF OwedByFull, Fetched
  <2> QED
    BY <1>6, <1>7, <2>1, <2>2
<1>9. CASE Len(page) < limit /\ request' = "done" /\ UNCHANGED offset
  <2>1. Owed = {}
    BY <1>1, <1>9 DEF OwedByFull
  <2>2. OwedBehind' /\ OwedByFull'
    BY <1>5, <1>9, <2>1 DEF OwedBehind, OwedByFull, Reading
  <2> QED
    BY <1>6, <1>7, <2>2
<1> QED
  BY <1>8, <1>9

LEMMA StepReading == TypeOK /\ ReadingInv /\ [Next]_vars => ReadingInv'
<1> SUFFICES ASSUME TypeOK, ReadingInv, [Next]_vars PROVE ReadingInv'
  OBVIOUS
<1>0. ASSUME NEW m \in Offsets, Seed(m) PROVE ReadingInv'
  <2>1. SentRows \subseteq SentRows' /\ VisibleRows \subseteq VisibleRows'
    BY <1>0 DEF Seed, Create, SentRows, WithStatus, VisibleRows, Visible, TypeOK, StoreTypeOK
  <2> QED
    BY <1>0, <2>1, TableKeepsReading DEF Seed
<1>1. ASSUME NEW rows \in SUBSET Offsets, CreateInBatches(rows) PROVE ReadingInv'
  <2>1. SentRows \subseteq SentRows' /\ VisibleRows \subseteq VisibleRows'
    <3>1. \A m \in Offsets : Visible(m) => status'[m] = status[m]
      BY <1>1 DEF CreateInBatches
    <3> QED
      BY <3>1 DEF SentRows, WithStatus, VisibleRows, Visible
  <2> QED
    BY <1>1, <2>1, TableKeepsReading DEF CreateInBatches
<1>2. ASSUME NEW m \in Offsets, Settle(m) PROVE ReadingInv'
  <2>1. SentRows \subseteq SentRows' /\ VisibleRows \subseteq VisibleRows'
    BY <1>2 DEF Settle, Update, SentRows, WithStatus, VisibleRows, Visible, TypeOK, StoreTypeOK
  <2> QED
    BY <1>2, <2>1, TableKeepsReading DEF Settle
<1>3. ASSUME NEW key \in Keys, Refuse(key) PROVE ReadingInv'
  BY <1>3 DEF Refuse, ReadingInv, PageInHand, HistoryIsSent, OwedBehind, OwedByFull,
       PageInTable, TotalCoversPage, Fetched, Reading, Owed, SentRows, WithStatus, VisibleRows,
       Visible, Newer, Tied, Elements
<1>4. ASSUME NEW key \in Keys, NEW l \in Params, NEW o \in Params, Begin(key, l, o)
      PROVE  ReadingInv'
  <2>1. /\ page' = <<>> /\ Len(page') = 0 /\ Elements(page') = {}
        /\ request' = "list" /\ initial' = SentRows /\ shown' = {} /\ offset' = 0
        /\ SentRows' = SentRows
    BY <1>4, EmptySeq DEF Begin, Elements, SentRows, WithStatus
  <2>2. \A r : Cardinality(Newer(SentRows', r)) \in Nat
    BY <2>1, NewerGrows DEF SentRows, WithStatus
  <2>3. OwedBehind'
    BY <2>1, <2>2 DEF OwedBehind
  <2>4. HistoryIsSent'
    BY <2>1 DEF HistoryIsSent, Elements
  <2> QED
    BY <2>1, <2>3, <2>4 DEF ReadingInv, PageInHand, OwedByFull, PageInTable,
       TotalCoversPage, Fetched
<1>5. CASE ListSent
  BY <1>5, ListKeepsReading
<1>6. CASE ListFails
  BY <1>6 DEF ListFails, ReadingInv, PageInHand, HistoryIsSent, OwedBehind, OwedByFull,
       PageInTable, TotalCoversPage, Fetched, Reading, SentRows, WithStatus, VisibleRows,
       Visible, Elements
<1>7. CASE CountAll
  <2>1. /\ UNCHANGED <<status, limit, offset, page, initial, shown>>
        /\ Owed' = Owed /\ SentRows' = SentRows /\ VisibleRows' = VisibleRows
        /\ Elements(page)' = Elements(page)
        /\ request = "count" /\ request' = "answered"
    BY <1>7 DEF CountAll, Owed, SentRows, WithStatus, VisibleRows, Visible, Elements, Tied
  <2>2. TotalCoversPage'
    BY <1>7, <2>1 DEF CountAll, TotalCoversPage, ReadingInv, PageInTable, GetTotalCount
  <2>3. PageInHand' /\ HistoryIsSent' /\ OwedByFull' /\ PageInTable'
    BY <2>1 DEF ReadingInv, PageInHand, HistoryIsSent, OwedByFull, PageInTable, Fetched
  <2>4. OwedBehind'
    BY <2>1 DEF ReadingInv, OwedBehind, Reading, Newer
  <2> QED
    BY <2>2, <2>3, <2>4 DEF ReadingInv
<1>8. CASE TakePage
  BY <1>8, TakeKeepsReading
<1>9. CASE UNCHANGED vars
  BY <1>9 DEF vars, answerVars, ReadingInv, PageInHand, HistoryIsSent, OwedBehind, OwedByFull,
       PageInTable, TotalCoversPage, Fetched, Reading, Owed, SentRows, WithStatus, VisibleRows,
       Visible, Newer, Tied, Elements
<1> QED
  BY <1>0, <1>1, <1>2, <1>3, <1>4, <1>5, <1>6, <1>7, <1>8, <1>9 DEF Next, Read

LEMMA InitReading == Init => ReadingInv
<1> SUFFICES ASSUME Init PROVE ReadingInv
  OBVIOUS
<1> page = <<>> /\ Elements(page) = {} /\ initial = {} /\ shown = {} /\ request = "idle"
  BY EmptySeq DEF Init, Elements
<1> QED
  BY DEF ReadingInv, PageInHand, HistoryIsSent, OwedBehind, OwedByFull, PageInTable,
     TotalCoversPage, Fetched, Reading

-----------------------------------------------------------------------------
\* What a reading owes its client always lies behind the page it is at, in
\* every state of the reading and of the table (message.go:50-90).
THEOREM ReadingInvariant == Spec => []QInv
<1>1. TypeOK /\ ReadingInv => QInv
  BY DEF QInv, ReadingInv
<1> QED
  BY <1>1, InitTypeOK, InitReading, StepTypeOK, StepReading, PTL DEF Spec

\* The variables keep their types; the limit of a request is never zero
\* (message.go:51-59).
THEOREM QueryTypeCorrect == Spec => []TypeOK
<1>1. QInv => TypeOK
  BY DEF QInv
<1> QED
  BY <1>1, ReadingInvariant, PTL

\* Nothing that was SENT when a reading began is missed at its end, but for
\* rows that share their creation time (message.go:64, store.go:144-154).
THEOREM NothingMissed == Spec => []FaithfulReading
<1>1. QInv => FaithfulReading
  <2> SUFFICES ASSUME QInv, request = "done" PROVE FaithfulReading
    BY DEF FaithfulReading
  <2>1. Owed = {} /\ page = <<>>
    BY DEF QInv, OwedByFull, PageInHand, Fetched
  <2>2. Elements(page) = {}
    BY <2>1, EmptySeq DEF Elements
  <2> QED
    BY <2>1, <2>2 DEF FaithfulReading, QInv, Owed, HistoryIsSent
<1> QED
  BY <1>1, ReadingInvariant, PTL

\* The total of an answer is never short of its page (message.go:64-79).
THEOREM TotalIsEnough == Spec => []TotalCoversPage
<1>1. QInv => TotalCoversPage
  BY DEF QInv
<1> QED
  BY <1>1, ReadingInvariant, PTL
=============================================================================
