---------------------------- MODULE SentMessages ----------------------------
(***************************************************************************)
(* GET /messages/sent: a client reads the sent messages page by page,      *)
(* newest first, while rows are inserted and settled.  A request is        *)
(* authenticated (middleware/auth.go), parsed (handlers/url.go) and        *)
(* answered (service/message.go) from two queries that share no            *)
(* transaction (store/postgres/store.go).                                  *)
(***************************************************************************)
EXTENDS MessageStore

CONSTANTS
    CreatedAt,              \* the time at which each row's inserter creates it
    Keys, NoKey, ApiKey,    \* what a client may send as its key, and the right one
    Params, Malformed       \* what it may send as a limit or an offset

ASSUME QueryAssumption ==
    /\ CreatedAt \in [Offsets -> Nat]
    /\ Params \subseteq Int \cup {Malformed}

VARIABLES
    request,        \* the client: "idle", at a step of its request, or "done" reading
    limit, offset,  \* of the request, as the answer repeats them
    page, total,    \* what the two queries have returned
    code,           \* status code of the last answer, 0 before there is one
    \* The history of this reading, for the properties only:
    initial,        \* rows that were SENT when it began
    shown           \* rows that full answers have held

answerVars == <<limit, offset, page, total, code>>
vars == <<status, request, answerVars, initial, shown>>

TypeOK ==
    /\ StoreTypeOK
    /\ request \in {"idle", "list", "count", "answered", "done"}
    /\ limit \in Nat \ {0}
    /\ offset \in Nat
    /\ page \in Seq(Offsets)
    /\ total \in Nat
    /\ code \in {0, 200, 401, 500}
    /\ initial \subseteq Offsets
    /\ shown \subseteq Offsets

Init ==
    /\ StoreInit
    /\ request = "idle"
    /\ limit = 1 /\ offset = 0
    /\ page = <<>> /\ total = 0
    /\ code = 0
    /\ initial = {} /\ shown = {}

-----------------------------------------------------------------------------
(***************************************************************************)
(* The table, as other programs and the delivery pipeline change it.       *)
(***************************************************************************)

\* data_faker's seeds: one row at a time.
Seed(m) ==
    /\ \E s \in NewStatuses : Create(m, s)
    /\ UNCHANGED <<request, answerVars, initial, shown>>

\* The status of each row is drawn on its own.
GenerateRandomMessages(rows) == [rows -> NewStatuses]

\* data_faker_big's batches: the rows of one statement become visible together
\* and have one creation time.  Several programs may insert at a time, so that
\* batches become visible in any order.
CreateInBatches(rows) ==
    /\ rows # {}
    /\ \A m, n \in rows : ~Visible(m) /\ CreatedAt[m] = CreatedAt[n]
    /\ \E new \in GenerateRandomMessages(rows) :
          status' = [m \in Offsets |-> IF m \in rows THEN new[m] ELSE status[m]]
    /\ UNCHANGED <<request, answerVars, initial, shown>>

\* SENT and FAILED are final, as MessageLedger promises.
Settle(m) ==
    /\ status[m] = "PENDING"
    /\ \E s \in {"SENT", "FAILED"} : Update(m, s)
    /\ UNCHANGED <<request, answerVars, initial, shown>>

-----------------------------------------------------------------------------
WithStatus(s) == {m \in Offsets : status[m] = s}

SentRows    == WithStatus("SENT")
VisibleRows == {m \in Offsets : Visible(m)}

Newer(rows, m)    == {n \in rows : CreatedAt[n] > CreatedAt[m]}
NotOlder(rows, m) == {n \in rows : CreatedAt[n] >= CreatedAt[m]}

\* LIMIT is left out when it is not positive, and so is OFFSET.
SliceSize(n, lim, skip) ==
    LET rest == IF skip <= 0 THEN n ELSE IF skip < n THEN n - skip ELSE 0
    IN  IF lim > 0 /\ lim < rest THEN lim ELSE rest

\* A slip for a mutation run: no order.
ListInAnyOrder(lim, skip, s) ==
    LET rows == WithStatus(s)
    IN  {p \in [1..SliceSize(Cardinality(rows), lim, skip) -> rows] :
            \A i, j \in DOMAIN p : p[i] = p[j] => i = j}

\* The results of the query: a slice of the rows in the order of created_at
\* DESC.  Rows with the same creation time have one order in one query and
\* another in the next, so that a row's place is only known up to them.
List(lim, skip, s) ==
    LET rows == WithStatus(s)
    IN  {p \in [1..SliceSize(Cardinality(rows), lim, skip) -> rows] :
            /\ \A i, j \in DOMAIN p : p[i] = p[j] => i = j
            /\ \A i \in DOMAIN p :
                  /\ Cardinality(Newer(rows, p[i])) < skip + i
                  /\ skip + i <= Cardinality(NotOlder(rows, p[i]))}

\* A slip for a mutation run: the rows that are still to be sent.
CountPending == Cardinality(WithStatus("PENDING"))

GetTotalCount == Cardinality(VisibleRows)

-----------------------------------------------------------------------------
\* A missing key is refused, and so is a wrong one.
Authorized(key) == key # NoKey /\ key = ApiKey

\* A parameter that is missing or no number counts as 0.
Atoi(param) == IF param = Malformed THEN 0 ELSE param

\* A slip for mutation runs: the service takes the number as it is.
LimitAsAsked(param) == Atoi(param)

DefaultLimit == 10

Limit(param)  == IF Atoi(param) <= 0 THEN DefaultLimit ELSE Atoi(param)
Offset(param) == IF Atoi(param) < 0 THEN 0 ELSE Atoi(param)

Reading == request \notin {"idle", "done"}

Refuse(key) ==
    /\ ~Reading /\ ~Authorized(key)
    /\ code' = 401
    /\ UNCHANGED <<status, request, limit, offset, page, total, initial, shown>>

\* The client's first request.  It starts at the first row.
Begin(key, limitParam, offsetParam) ==
    /\ ~Reading /\ Authorized(key)
    /\ Offset(offsetParam) = 0
    /\ limit' = Limit(limitParam)
    /\ offset' = Offset(offsetParam)
    /\ page' = <<>> /\ total' = 0
    /\ request' = "list"
    /\ initial' = SentRows /\ shown' = {}
    /\ UNCHANGED <<status, code>>

ListSent ==
    /\ request = "list"
    /\ page' \in List(limit, offset, "SENT")
    /\ request' = "count"
    /\ UNCHANGED <<status, limit, offset, total, code, initial, shown>>

ListFails ==
    /\ request = "list" /\ "store" \in Faults
    /\ code' = 500
    /\ request' = "idle"
    /\ UNCHANGED <<status, limit, offset, page, total, initial, shown>>

\* The error of the second query is not reported.
CountAll ==
    /\ request = "count"
    /\ \/ total' = GetTotalCount
       \/ "store" \in Faults /\ total' = 0
    /\ code' = 200
    /\ request' = "answered"
    /\ UNCHANGED <<status, limit, offset, page, initial, shown>>

\* The client goes on behind the page it was given, until one is not full.
TakePage ==
    /\ request = "answered"
    /\ shown' = shown \cup Elements(page)
    /\ \/ Len(page) >= limit /\ request' = "list" /\ offset' = offset + Len(page)
       \/ Len(page) < limit  /\ request' = "done" /\ UNCHANGED offset
    /\ page' = <<>>
    /\ UNCHANGED <<status, limit, total, code, initial>>

Read == ListSent \/ ListFails \/ CountAll \/ TakePage

Next ==
    \/ \E m \in Offsets : Seed(m) \/ Settle(m)
    \/ \E rows \in SUBSET Offsets : CreateInBatches(rows)
    \/ \E key \in Keys :
          Refuse(key) \/ \E l, o \in Params : Begin(key, l, o)
    \/ Read

Spec == Init /\ [][Next]_vars

\* Queries return and the client that has begun goes on.
FairSpec == Spec /\ WF_vars(Read)

-----------------------------------------------------------------------------
Tied(m) == \E n \in Offsets \ {m} : CreatedAt[n] = CreatedAt[m]

\* A client that has read to the end has been shown every row that was SENT
\* when it began, unless the row shares its creation time with another one,
\* and only rows that are SENT (message.go:50-73, store.go:138-162).
FaithfulReading ==
    request = "done" =>
        /\ \A m \in initial : ~Tied(m) => m \in shown
        /\ shown \subseteq SentRows

\* The total that comes with a page is at least the place of its last row,
\* though it was counted later and over rows of any status, or it is the 0 of
\* a failed count (message.go:64-79).
TotalCoversPage ==
    request = "answered" /\ page # <<>> => total = 0 \/ offset + Len(page) <= total

\* A client that keeps reading comes to an end, as no limit is taken for a
\* page of no size (message.go:51-54).
ReadingEnds == Reading ~> ~Reading

-----------------------------------------------------------------------------
(***************************************************************************)
(* What makes the invariants above inductive.                              *)
(***************************************************************************)

\* The rows that the reading still owes its client.
Owed == {m \in initial \ (shown \cup Elements(page)) : ~Tied(m)}

Fetched == request \in {"count", "answered"}

\* There is a page only between the queries and the next request.
PageInHand == ~Fetched => page = <<>>

\* SENT is final.
HistoryIsSent == initial \cup shown \cup Elements(page) \subseteq SentRows

\* What is owed lies behind the page, ...
OwedBehind == Reading => \A m \in Owed : offset + Len(page) <= Cardinality(Newer(SentRows, m))

\* ... and nothing does behind a page that is not full.
OwedByFull == (Fetched /\ Len(page) < limit) \/ request = "done" => Owed = {}

\* The table has not lost a row since the page was read.
PageInTable == page # <<>> => offset + Len(page) <= Cardinality(VisibleRows)

QInv ==
    /\ TypeOK
    /\ PageInHand
    /\ HistoryIsSent
    /\ OwedBehind
    /\ OwedByFull
    /\ PageInTable
    /\ TotalCoversPage
=============================================================================
