---------------------------- MODULE MessageStore ----------------------------
(***************************************************************************)
(* The messages table of ulak (src/internal/store/postgres/store.go,       *)
(* src/internal/models/message.go) as its clients see it.  A row is named  *)
(* by its record_offset, a serial column with a unique index, so that a    *)
(* row, a message and an offset are the same number here.  The columns     *)
(* that no control decision reads (recipient, text, timestamps) are left   *)
(* out.  Transactions are read committed: an update made inside one is     *)
(* visible when it commits, which is when status changes here.             *)
(***************************************************************************)
EXTENDS Integers, Sequences, FiniteSets

CONSTANTS
    MaxOffset,    \* bound on the offsets the serial column hands out
    NewStatuses,  \* the statuses rows are inserted with
    Faults        \* what the environment may do wrong, see FaultKinds

FaultKinds ==
    {"store",     \* a database call returns an error
     "webhook",   \* the notification call returns an error
     "panic",     \* the notification call panics
     "redis",     \* the delivery record cannot be written
     "late",      \* an insert becomes visible after one with a higher offset
     "stop"}      \* the workers are stopped and started again

Offsets  == 1..MaxOffset
Statuses == {"PENDING", "SENT", "FAILED"}

ASSUME StoreAssumption ==
    /\ MaxOffset \in Nat
    /\ NewStatuses \subseteq Statuses
    /\ Faults \subseteq FaultKinds

VARIABLE status   \* the committed status of each row, "ABSENT" before it is visible

StoreTypeOK == status \in [Offsets -> Statuses \cup {"ABSENT"}]

StoreInit == status = [m \in Offsets |-> "ABSENT"]

-----------------------------------------------------------------------------
Visible(m) == status[m] # "ABSENT"

\* No row with a higher offset is visible yet: the insert of m commits in the
\* order in which the serial column handed out the offsets.
Newest(m) == \A n \in Offsets : n > m => ~Visible(n)

\* An insert commits.  Offsets come from a sequence that does not roll back
\* with the transaction, so a lower offset may stay absent for ever, or
\* become visible late.
Create(m, s) ==
    /\ ~Visible(m)
    /\ Newest(m) \/ "late" \in Faults
    /\ status' = [status EXCEPT ![m] = s]

\* A committed write of the status column, by Update or by a transaction.
Update(m, s) ==
    /\ Visible(m)
    /\ status' = [status EXCEPT ![m] = s]

-----------------------------------------------------------------------------
Elements(seq)  == {seq[i] : i \in 1..Len(seq)}
Ascending(seq) == \A i, j \in 1..Len(seq) : i < j => seq[i] < seq[j]

Matching(offset, s) == {m \in Offsets : m > offset /\ status[m] = s}

\* LIMIT is applied only when it is positive.
PageSize(rows, limit) ==
    IF limit > 0 /\ limit < Cardinality(rows) THEN limit ELSE Cardinality(rows)

\* Slips that mutation runs put in ListByOffset's place: the status condition
\* is left out; the limit is applied without an order.
ListEveryStatus(offset, s, limit) ==
    LET rows == {m \in Offsets : m > offset /\ Visible(m)}
    IN  {page \in [1..PageSize(rows, limit) -> rows] :
            /\ Ascending(page)
            /\ \A m \in rows, i \in DOMAIN page : m < page[i] => m \in Elements(page)}

ListUnordered(offset, s, limit) ==
    LET rows == Matching(offset, s)
    IN  {page \in [1..PageSize(rows, limit) -> rows] : Ascending(page)}

\* The results of the query: the first rows above the offset with the wanted
\* status, in ascending order.  There is exactly one.
ListByOffset(offset, s, limit) ==
    LET rows == Matching(offset, s)
        size == PageSize(rows, limit)
    IN  {page \in [1..size -> rows] :
            /\ Ascending(page)
            /\ \A m \in rows, i \in 1..size : m < page[i] => m \in Elements(page)}
=============================================================================
