--------------------------- MODULE DeliveryProofs ---------------------------
(***************************************************************************)
(* Proofs about the delivery pipeline, for every size of the table, of the *)
(* channel and of the batches, every set of faults and any number of       *)
(* restarts.                                                               *)
(***************************************************************************)
EXTENDS Delivery, FiniteSetTheorems, SequenceTheorems, TLAPS

-----------------------------------------------------------------------------
(***************************************************************************)
(* The query and the channel.                                              *)
(***************************************************************************)

\* The size of a page is a natural number, whatever the limit.
LEMMA PageSizeType ==
    ASSUME NEW rows \in SUBSET Offsets, NEW limit \in Nat
    PROVE  PageSize(rows, limit) \in Nat
<1>1. IsFiniteSet(Offsets)
  BY StoreAssumption, FS_Interval DEF Offsets
<1>2. Cardinality(rows) \in Nat
  BY <1>1, FS_Subset, FS_CardinalityType
<1> QED
  BY <1>2 DEF PageSize

\* A page that the query returns is an ascending sequence of rows above the
\* offset that have the wanted status.
LEMMA PageProperties ==
    ASSUME NEW offset, NEW s, NEW limit \in Nat,
           NEW page \in ListByOffset(offset, s, limit)
    PROVE  /\ page \in Seq(Offsets)
           /\ Ascending(page)
           /\ \A m \in Elements(page) : m > offset /\ status[m] = s
           /\ \A m \in Offsets, n \in Elements(page) :
                 m > offset /\ status[m] = s /\ m < n => m \in Elements(page)
<1> DEFINE rows == Matching(offset, s)
           size == PageSize(rows, limit)
<1>1. rows \in SUBSET Offsets
  BY DEF Matching
<1>2. size \in Nat
  BY <1>1, PageSizeType
<1>3. page \in [1..size -> rows]
  BY DEF ListByOffset
<1>4. page \in Seq(rows) /\ Len(page) = size
  <2>1. page \in UNION {[1..n -> rows] : n \in Nat}
    BY <1>2, <1>3
  <2>2. page \in Seq(rows)
    BY <2>1, SeqDef
  <2>3. DOMAIN page = 1..size /\ DOMAIN page = 1..Len(page)
    BY <1>3, <2>2, LenProperties
  <2> HIDE DEF rows, size
  <2> QED
    BY <1>2, <2>2, <2>3, LenProperties
<1>5. page \in Seq(Offsets)
  BY <1>1, <1>4, SeqMonotonic
<1>6. Ascending(page)
  BY DEF ListByOffset
<1>7. \A m \in Elements(page) : m > offset /\ status[m] = s
  BY <1>3, <1>4 DEF Matching, Elements
<1>8. ASSUME NEW m \in Offsets, NEW n \in Elements(page), m > offset, status[m] = s, m < n
      PROVE  m \in Elements(page)
  <2>1. PICK i \in 1..size : n = page[i]
    BY <1>4 DEF Elements
  <2> QED
    BY <1>8, <2>1 DEF ListByOffset, Matching
<1> QED
  BY <1>5, <1>6, <1>7, <1>8

-----------------------------------------------------------------------------
(***************************************************************************)
(* Type correctness.                                                       *)
(***************************************************************************)

LEMMA InitTypeOK == Init => TypeOK
<1> SUFFICES ASSUME Init PROVE TypeOK
  OBVIOUS
<1> USE DEF Init, StoreInit, ChannelInit, PopulatorInit, ProcessorInit
<1> <<>> \in Seq(Offsets) /\ Len(<<>>) = 0
  BY EmptySeq
<1>1. StoreTypeOK
  BY DEF StoreTypeOK
<1>2. ChannelTypeOK
  BY ChannelAssumption DEF ChannelTypeOK
<1>b. isProcessing \in BOOLEAN
  OBVIOUS
<1>3. PopulatorTypeOK
  BY <1>b, SMT DEF PopulatorTypeOK, RunStates
<1>4. ProcessorTypeOK
  BY DEF ProcessorTypeOK, Working, Finished
<1> QED
  BY <1>1, <1>2, <1>3, <1>4, DeliveryAssumption DEF TypeOK

LEMMA StepTypeOK == TypeOK /\ [Next]_vars => TypeOK'
<1> SUFFICES ASSUME TypeOK, [Next]_vars PROVE TypeOK'
  OBVIOUS
<1> USE DEF TypeOK
<1>t. /\ <<>> \in Seq(Offsets) /\ Len(<<>>) = 0
      /\ messages \in Seq(Offsets) /\ Len(messages) \in Nat
      /\ messagesCh \in Seq(Offsets) /\ Len(messagesCh) \in Nat
      /\ MessageChannelSize \in Nat
  BY EmptySeq, LenProperties, ChannelAssumption DEF PopulatorTypeOK, ChannelTypeOK
<1>1. ASSUME NEW m \in Offsets, Insert(m) PROVE TypeOK'
  <2> USE <1>1 DEF Insert, Create, popVars, procVars
  <2>1. StoreTypeOK'
    BY StoreAssumption DEF StoreTypeOK
  <2>2. ChannelTypeOK' /\ PopulatorTypeOK' /\ ProcessorTypeOK'
    BY DEF ChannelTypeOK, PopulatorTypeOK, ProcessorTypeOK
  <2> QED
    BY <2>1, <2>2
<1>2. CASE Restart
  <2> USE <1>2, <1>t DEF Restart, RebootPopulator, RebootProcessor
  <2>1. StoreTypeOK' /\ ChannelTypeOK'
    BY DEF StoreTypeOK, ChannelTypeOK
  <2>b. isProcessing' \in BOOLEAN
    OBVIOUS
  <2>2. PopulatorTypeOK'
    BY <2>b DEF PopulatorTypeOK, RunStates
  <2>3. ProcessorTypeOK'
    BY DEF ProcessorTypeOK
  <2> QED
    BY <2>1, <2>2, <2>3, DeliveryAssumption
<1>3. CASE Operate
  BY <1>3 DEF Operate, StartPopulator, CancelPopulator, StartProcessor, CancelProcessor,
       history, popVars, procVars, StoreTypeOK, ChannelTypeOK, PopulatorTypeOK,
       ProcessorTypeOK, RunStates
<1>4. CASE Populate
  <2> restarts' = restarts /\ late' = late /\ UNCHANGED procVars /\ UNCHANGED status
    BY <1>4 DEF Populate, Tick, PausePopulator, AcceptBatch, SendMessage, SendFails,
         CompleteBatch, EndPass, ExitPopulator
  <2>1. StoreTypeOK' /\ ProcessorTypeOK'
    BY DEF StoreTypeOK, ProcessorTypeOK, procVars
  <2>2. CASE Tick /\ UNCHANGED dropped
    <3> USE <2>2 DEF Tick
    <3>1. messages' \in Seq(Offsets)
      BY <1>t, PageProperties, PopulatorAssumption DEF Fetched
    <3>2. Len(messages') \in Nat /\ next' = 1
      BY <3>1, LenProperties
    <3>b. isProcessing' \in BOOLEAN
      OBVIOUS
    <3>3. PopulatorTypeOK'
      BY <3>1, <3>2, <3>b DEF PopulatorTypeOK
    <3> QED
      BY <2>1, <3>3 DEF ChannelTypeOK
  <2>3. CASE PausePopulator /\ UNCHANGED dropped
    <3>b. isProcessing' \in BOOLEAN
      BY <2>3 DEF PausePopulator
    <3>1. PopulatorTypeOK'
      BY <1>t, <2>3, <3>b DEF PausePopulator, PopulatorTypeOK
    <3> QED
      BY <2>1, <2>3, <3>1 DEF PausePopulator, ChannelTypeOK
  <2>4. CASE (AcceptBatch \/ ExitPopulator) /\ UNCHANGED dropped
    BY <2>1, <2>4 DEF AcceptBatch, ExitPopulator, PopulatorTypeOK, ChannelTypeOK, RunStates
  <2>5. CASE SendMessage /\ UNCHANGED dropped
    <3> USE <2>5 DEF SendMessage, Sending, Put
    <3>1. PopulatorTypeOK'
      BY <1>t DEF PopulatorTypeOK
    <3>2. messages[next] \in Offsets
      BY <1>t, ElementOfSeq DEF PopulatorTypeOK
    <3>3. ChannelTypeOK'
      BY <1>t, <3>2, AppendProperties DEF ChannelTypeOK, Full
    <3> QED
      BY <2>1, <3>1, <3>3
  <2>6. CASE SendFails /\ dropped' = dropped \cup {messages[next]}
    <3> USE <2>6 DEF SendFails, Sending
    <3>1. PopulatorTypeOK'
      BY <1>t DEF PopulatorTypeOK
    <3>2. messages[next] \in Offsets
      BY <1>t, ElementOfSeq DEF PopulatorTypeOK
    <3> QED
      BY <2>1, <3>1, <3>2 DEF ChannelTypeOK
  <2>7. CASE CompleteBatch /\ UNCHANGED dropped
    <3> USE <2>7 DEF CompleteBatch, EndPass
    <3>1. messages # <<>> => messages[Len(messages)] \in Offsets
      BY <1>t, ElementOfSeq, EmptySeq
    <3>b. isProcessing' \in BOOLEAN
      OBVIOUS
    <3>2. PopulatorTypeOK'
      BY <1>t, <3>1, <3>b DEF PopulatorTypeOK
    <3> QED
      BY <2>1, <3>2 DEF ChannelTypeOK
  <2> QED
    BY <1>4, <2>2, <2>3, <2>4, <2>5, <2>6, <2>7 DEF Populate
<1>5. CASE Process
  <2> restarts' = restarts /\ late' = late /\ UNCHANGED popVars /\ UNCHANGED status
    BY <1>5 DEF Process, ReceiveMessage, SpawnTask, BeginDrain, ExitProcessor, DropCancelled,
         LimiterFails
  <2>1. StoreTypeOK' /\ PopulatorTypeOK'
    BY DEF StoreTypeOK, PopulatorTypeOK, popVars
  <2>2. CASE ReceiveMessage /\ UNCHANGED dropped
    <3> USE <2>2 DEF ReceiveMessage, Take
    <3>1. ChannelTypeOK' /\ Head(messagesCh) \in Offsets
      BY <1>t, HeadTailProperties DEF ChannelTypeOK
    <3> QED
      BY <2>1, <3>1 DEF ProcessorTypeOK
  <2>3. CASE (SpawnTask \/ BeginDrain \/ ExitProcessor) /\ UNCHANGED dropped
    <3>1. ProcessorTypeOK'
      BY <2>3 DEF SpawnTask, BeginDrain, ExitProcessor, ProcessorTypeOK, Working
    <3>2. ChannelTypeOK'
      BY <2>3 DEF SpawnTask, BeginDrain, ExitProcessor, ChannelTypeOK
    <3> QED
      BY <2>1, <2>3, <3>1, <3>2
  <2>4. CASE (DropCancelled \/ LimiterFails) /\ dropped' = dropped \cup {held}
    BY <2>1, <2>4 DEF DropCancelled, LimiterFails, ProcessorTypeOK, ChannelTypeOK
  <2> QED
    BY <1>5, <2>2, <2>3, <2>4 DEF Process
<1>6. ASSUME NEW m \in Offsets, ProcessMessage(m) PROVE TypeOK'
  <2>1. /\ UNCHANGED <<messagesCh, restarts, dropped, late, procRun, procPc, held>>
        /\ UNCHANGED popVars
        /\ \E s \in Working \cup Finished : task' = [task EXCEPT ![m] = s]
        /\ delivered' \in {delivered, delivered \cup {m}}
        /\ recorded' \in {recorded, recorded \cup {m}}
        /\ status' = status \/ \E s \in Statuses : status' = [status EXCEPT ![m] = s]
    BY <1>6 DEF ProcessMessage, BeginTx, NotificationSent, NotificationFails,
         NotificationPanics, TxUpdate, SetMessageDelivered, SetMessageDeliveredFails, Commit,
         CommitFails, MarkFailed, Goto, Update, history, Working, Finished, Statuses
  <2>2. StoreTypeOK' /\ ChannelTypeOK' /\ PopulatorTypeOK'
    BY <2>1 DEF StoreTypeOK, ChannelTypeOK, PopulatorTypeOK, popVars
  <2>3. ProcessorTypeOK'
    BY <2>1 DEF ProcessorTypeOK
  <2> QED
    BY <2>1, <2>2, <2>3
<1>7. CASE UNCHANGED vars
  BY <1>7 DEF vars, history, popVars, procVars, StoreTypeOK, ChannelTypeOK, PopulatorTypeOK,
       ProcessorTypeOK
<1> QED
  BY <1>1, <1>2, <1>3, <1>4, <1>5, <1>6, <1>7 DEF Next

\* The variables keep their types; in particular the channel never holds more
\* than its capacity and the populator's offset is that of a row.
THEOREM TypeCorrect == Spec => []TypeOK
<1> QED
  BY InitTypeOK, StepTypeOK, PTL DEF Spec
-----------------------------------------------------------------------------
(***************************************************************************)
(* Ascending sequences of offsets.                                         *)
(***************************************************************************)

\* Putting a message that is above all others at the end keeps the order.
LEMMA AppendAscending ==
    ASSUME NEW seq \in Seq(Offsets), Ascending(seq),
           NEW m \in Offsets, \A n \in Elements(seq) : n < m
    PROVE  /\ Ascending(Append(seq, m))
           /\ Elements(Append(seq, m)) = Elements(seq) \cup {m}
<1> DEFINE new == Append(seq, m)
<1>1. /\ Len(seq) \in Nat
      /\ Len(new) = Len(seq) + 1
      /\ \A i \in 1..Len(seq) : new[i] = seq[i]
      /\ new[Len(seq) + 1] = m
  BY AppendProperties, LenProperties
<1> HIDE DEF new
<1>2. Ascending(new)
  BY <1>1 DEF Ascending, Elements
<1>3. Elements(new) = Elements(seq) \cup {m}
  BY <1>1 DEF Elements
<1> QED
  BY <1>2, <1>3 DEF new

\* The first message is the lowest; taking it keeps the order of the others.
LEMMA TailAscending ==
    ASSUME NEW seq \in Seq(Offsets), Ascending(seq), seq # <<>>
    PROVE  /\ Head(seq) \in Elements(seq)
           /\ Ascending(Tail(seq))
           /\ Elements(Tail(seq)) = Elements(seq) \ {Head(seq)}
           /\ \A n \in Elements(Tail(seq)) : Head(seq) < n
<1> DEFINE rest == Tail(seq)
<1>1. /\ Len(seq) \in Nat \ {0}
      /\ Len(rest) = Len(seq) - 1
      /\ \A i \in 1..Len(rest) : rest[i] = seq[i + 1]
      /\ \A i \in 1..Len(seq) : seq[i] \in Nat
      /\ Head(seq) = seq[1]
  BY HeadTailProperties, EmptySeq, ElementOfSeq, StoreAssumption DEF Offsets
<1> HIDE DEF rest
<1>i. \A i \in 1..Len(rest) : i + 1 \in 1..Len(seq) /\ 1 < i + 1 /\ rest[i] = seq[i + 1]
  BY <1>1
<1>2. Ascending(rest)
  <2> SUFFICES ASSUME NEW i \in 1..Len(rest), NEW j \in 1..Len(rest), i < j
               PROVE  rest[i] < rest[j]
    BY DEF Ascending
  <2> QED
    BY <1>i DEF Ascending
<1>3. ASSUME NEW n \in Elements(rest) PROVE seq[1] < n
  <2>1. PICK i \in 1..Len(rest) : n = rest[i]
    BY DEF Elements
  <2> QED
    BY <1>1, <1>i, <2>1 DEF Ascending
<1>4. ASSUME NEW n \in Elements(seq), n # seq[1] PROVE n \in Elements(rest)
  <2>1. PICK i \in 1..Len(seq) : n = seq[i]
    BY DEF Elements
  <2>2. i - 1 \in 1..Len(rest) /\ n = rest[i - 1]
    BY <1>1, <1>4, <2>1
  <2> QED
    BY <2>2 DEF Elements
<1>5. ASSUME NEW n \in Elements(rest) PROVE n \in Elements(seq) \ {seq[1]}
  <2>1. PICK i \in 1..Len(rest) : n = rest[i]
    BY DEF Elements
  <2>2. i + 1 \in 1..Len(seq) /\ n = seq[i + 1]
    BY <1>i, <2>1
  <2>3. n \in Elements(seq) /\ n \in Nat
    BY <1>1, <2>2 DEF Elements
  <2> QED
    BY <1>1, <1>3, <2>3
<1>6. Head(seq) \in Elements(seq)
  BY <1>1 DEF Elements
<1> QED
  BY <1>1, <1>2, <1>3, <1>4, <1>5, <1>6 DEF rest
-----------------------------------------------------------------------------
(***************************************************************************)
(* The order of the pipeline.                                              *)
(***************************************************************************)

LEMMA PlacesType ==
    TypeOK => /\ Queued \subseteq Offsets /\ Held \subseteq Offsets
              /\ Started \subseteq Offsets /\ Unsent \subseteq Offsets
              /\ Elements(messages) \subseteq Offsets
              /\ Unsent \subseteq Elements(messages)
              /\ Reached \in Nat /\ lastProcessedOffset \in Nat
              /\ Offsets \subseteq Nat
<1> SUFFICES ASSUME TypeOK
             PROVE  /\ Queued \subseteq Offsets /\ Held \subseteq Offsets
                    /\ Started \subseteq Offsets /\ Unsent \subseteq Offsets
                    /\ Elements(messages) \subseteq Offsets
                    /\ Unsent \subseteq Elements(messages)
                    /\ Reached \in Nat /\ lastProcessedOffset \in Nat
                    /\ Offsets \subseteq Nat
  OBVIOUS
<1>1. Offsets \subseteq Nat
  BY StoreAssumption DEF Offsets
<1>2. /\ messages \in Seq(Offsets) /\ Len(messages) \in Nat
      /\ messagesCh \in Seq(Offsets)
      /\ next \in 1..(Len(messages) + 1)
  BY LenProperties DEF TypeOK, PopulatorTypeOK, ChannelTypeOK
<1>3. Queued \subseteq Offsets
  BY <1>2, ElementOfSeq DEF Queued, Elements
<1>4. Elements(messages) \subseteq Offsets
  BY <1>2, ElementOfSeq DEF Elements
<1>5. Unsent \subseteq Elements(messages)
  BY <1>2 DEF Unsent, Elements
<1>6. Held \subseteq Offsets /\ Started \subseteq Offsets
  BY DEF TypeOK, ProcessorTypeOK, Held, Started
<1>7. lastProcessedOffset \in Nat
  BY <1>1 DEF TypeOK, PopulatorTypeOK
<1>8. ASSUME next > 1 PROVE messages[next - 1] \in Nat
  <2>1. next - 1 \in 1..Len(messages)
    BY <1>2, <1>8
  <2> QED
    BY <1>1, <1>2, <2>1, ElementOfSeq
<1> QED
  BY <1>1, <1>3, <1>4, <1>5, <1>6, <1>7, <1>8 DEF Reached

\* What is still to be sent lies above everything that has been tried.
LEMMA UnsentAhead ==
    TypeOK /\ BatchAhead => \A n \in Unsent : Reached < n
<1> SUFFICES ASSUME TypeOK, BatchAhead, NEW n \in Unsent PROVE Reached < n
  OBVIOUS
<1>1. PICK i \in next..Len(messages) : n = messages[i]
  BY DEF Unsent
<1>2. /\ Len(messages) \in Nat /\ next \in 1..(Len(messages) + 1)
      /\ i \in 1..Len(messages)
  BY <1>1, LenProperties DEF TypeOK, PopulatorTypeOK
<1>3. CASE popPc = "send" /\ next > 1
  <2>1. next - 1 \in 1..Len(messages) /\ next - 1 < i
    BY <1>1, <1>2, <1>3
  <2>2. messages[next - 1] < messages[i]
    BY <1>2, <2>1 DEF BatchAhead, Ascending
  <2> QED
    BY <1>1, <1>3, <2>2 DEF Reached
<1>4. CASE ~(popPc = "send" /\ next > 1)
  <2>1. n \in Elements(messages)
    BY <1>1, <1>2 DEF Elements
  <2>2. lastProcessedOffset < n
    BY <2>1, PlacesType DEF BatchAhead
  <2> QED
    BY <1>4, <2>2 DEF Reached
<1> QED
  BY <1>3, <1>4

\* So the order of the whole pipeline follows from that of its sent part.
LEMMA OrderFromSent ==
    TypeOK /\ BatchAhead /\ NothingBeyond /\ SentInOrder => InOrder
<1> SUFFICES ASSUME TypeOK, BatchAhead, NothingBeyond, SentInOrder PROVE InOrder
  OBVIOUS
<1>1. ASSUME NEW m \in Queued \cup Held \cup Started, NEW n \in Unsent PROVE m < n
  <2>1. m <= Reached /\ Reached < n
    BY UnsentAhead DEF NothingBeyond
  <2>2. m \in Nat /\ Reached \in Nat /\ n \in Nat
    BY PlacesType
  <2> QED
    BY <2>1, <2>2
<1> QED
  BY <1>1 DEF InOrder, SentInOrder
-----------------------------------------------------------------------------
(***************************************************************************)
(* The inductive invariant.                                                *)
(***************************************************************************)

LEMMA InitPipeline == Init => Pipeline
<1> SUFFICES ASSUME Init PROVE Pipeline
  OBVIOUS
<1> USE DEF Init, StoreInit, ChannelInit, PopulatorInit, ProcessorInit
<1>1. messages = <<>> /\ messagesCh = <<>> /\ Len(<<>>) = 0 /\ next = 1
  BY EmptySeq
<1>2. /\ Elements(messages) = {} /\ Queued = {} /\ Unsent = {} /\ Held = {}
      /\ Started = {} /\ Active = {}
  BY <1>1 DEF Elements, Queued, Unsent, Held, Started, Active, Working
<1>3. BatchAhead /\ SentInOrder
  BY <1>1, <1>2 DEF BatchAhead, SentInOrder, Ascending
<1>4. RoomForBatch
  BY DEF RoomForBatch
<1> QED
  BY <1>2, <1>3, <1>4 DEF Pipeline, NothingBeyond, CarriesPending, NoBurstNoTask,
       DrainedBeforeOff

\* A step of a pass of the populator keeps the pipeline in order.
LEMMA PopulateKeepsPipeline ==
    TypeOK /\ TypeOK' /\ Pipeline /\ Populate => Pipeline'
<1> SUFFICES ASSUME TypeOK, TypeOK', Pipeline, Populate PROVE Pipeline'
  OBVIOUS
<1> USE DEF Pipeline
<1>p. /\ UNCHANGED <<procRun, procPc, held, task, status>>
      /\ Held' = Held /\ Started' = Started /\ Active' = Active
  BY DEF Populate, Tick, PausePopulator, AcceptBatch, SendMessage, SendFails,
       CompleteBatch, EndPass, ExitPopulator, procVars, Held, Started, Active
<1>q. NoBurstNoTask' /\ DrainedBeforeOff'
  BY <1>p DEF NoBurstNoTask, DrainedBeforeOff
<1>t. /\ messages \in Seq(Offsets) /\ Len(messages) \in Nat
      /\ messagesCh \in Seq(Offsets) /\ Len(messagesCh) \in Nat
      /\ next \in 1..(Len(messages) + 1) /\ MessageChannelSize \in Nat
      /\ Len(<<>>) = 0 /\ lastProcessedOffset \in Nat
  BY LenProperties, EmptySeq, PlacesType, ChannelAssumption DEF TypeOK, PopulatorTypeOK, ChannelTypeOK
<1>1. CASE Tick
  <2> USE <1>1 DEF Tick
  <2>1. /\ messages' \in Seq(Offsets) /\ Ascending(messages')
        /\ \A m \in Elements(messages') : m > lastProcessedOffset /\ status[m] = "PENDING"
    <3>1. CASE messages' = <<>>
      BY <1>t, <3>1, EmptySeq DEF Ascending, Elements
    <3>2. CASE messages' \in ListByOffset(lastProcessedOffset, "PENDING", MaxRecordsPerRead)
      BY <3>2, PageProperties, PopulatorAssumption
    <3> QED
      BY <3>1, <3>2 DEF Fetched
  <2>2. BatchAhead'
    BY <2>1 DEF BatchAhead, Elements
  <2>3. Queued' = Queued /\ Reached' = Reached
    BY DEF Queued, Reached, Elements
  <2>4. NothingBeyond' /\ SentInOrder'
    BY <1>p, <2>3 DEF NothingBeyond, SentInOrder, Ascending
  <2>5. Unsent' = Elements(messages')
    BY DEF Unsent, Elements
  <2>6. CarriesPending'
    BY <1>p, <2>1, <2>3, <2>5 DEF CarriesPending
  <2> QED
    BY <1>q, <2>2, <2>4, <2>6 DEF RoomForBatch
<1>2. CASE PausePopulator
  <2> USE <1>2 DEF PausePopulator
  <2>1. Elements(messages') = {} /\ Unsent' = {}
    BY <1>t DEF Elements, Unsent
  <2>2. BatchAhead'
    BY <1>t, <2>1 DEF BatchAhead, Ascending, Elements
  <2>3. Queued' = Queued /\ Reached' = Reached
    BY DEF Queued, Reached, Elements
  <2>4. NothingBeyond' /\ SentInOrder'
    BY <1>p, <2>3 DEF NothingBeyond, SentInOrder, Ascending
  <2>5. CarriesPending'
    BY <1>p, <2>1, <2>3 DEF CarriesPending
  <2> QED
    BY <1>q, <2>2, <2>4, <2>5 DEF RoomForBatch
<1>3. CASE AcceptBatch \/ ExitPopulator
  <2>1. /\ UNCHANGED <<messages, next, lastProcessedOffset, messagesCh>>
        /\ \/ popPc = "check" /\ popPc' = "send"
           \/ popPc = "select" /\ popPc' = "select"
    <3>1. CASE AcceptBatch
      BY <3>1 DEF AcceptBatch
    <3>2. CASE ExitPopulator
      BY <3>2 DEF ExitPopulator
    <3> QED
      BY <1>3, <3>1, <3>2
  <2>2. next = 1 /\ BatchAhead'
    BY <2>1 DEF BatchAhead, Ascending, Elements
  <2>3. Queued' = Queued /\ Unsent' = Unsent /\ Reached' = Reached
    BY <2>1, <2>2 DEF Queued, Unsent, Reached, Elements
  <2>4. NothingBeyond' /\ SentInOrder'
    BY <1>p, <2>1, <2>3 DEF NothingBeyond, SentInOrder, Ascending
  <2>5. CarriesPending'
    BY <1>p, <2>3 DEF CarriesPending
  <2>6. RoomForBatch'
    BY <1>3, <1>t, <2>1, <2>2 DEF RoomForBatch, AcceptBatch, ExitPopulator, AvailableArea
  <2> QED
    BY <1>q, <2>2, <2>4, <2>5, <2>6
<1>4. CASE SendMessage \/ SendFails
  <2>1. /\ UNCHANGED <<popPc, messages, lastProcessedOffset>>
        /\ popPc = "send" /\ next <= Len(messages) /\ next' = next + 1
    BY <1>4 DEF SendMessage, SendFails, Sending
  <2> DEFINE m == messages[next]
  <2>2. m \in Offsets /\ m \in Unsent
    BY <1>t, <2>1, ElementOfSeq DEF Unsent
  <2>3. /\ Reached < m
        /\ \A n \in Queued \cup Held \cup Started : n < m
    BY <2>2, UnsentAhead, PlacesType DEF NothingBeyond
  <2>4. Reached' = m
    BY <1>t, <2>1 DEF Reached
  <2>5. BatchAhead'
    BY <2>1 DEF BatchAhead, Ascending, Elements
  <2>6. Unsent' \subseteq Unsent
    BY <1>t, <2>1 DEF Unsent
  <2>7. CASE SendMessage
    <3>1. messagesCh' = Append(messagesCh, m)
      BY <2>7 DEF SendMessage, Put
    <3>2. Ascending(messagesCh') /\ Queued' = Queued \cup {m}
      BY <1>t, <2>2, <2>3, <3>1, AppendAscending DEF SentInOrder, Queued
    <3>3. NothingBeyond'
      BY <1>p, <2>2, <2>3, <2>4, <3>2, PlacesType DEF NothingBeyond
    <3>4. SentInOrder'
      BY <1>p, <2>3, <3>2 DEF SentInOrder
    <3>5. CarriesPending'
      BY <1>p, <2>2, <2>6, <3>2 DEF CarriesPending
    <3>6. RoomForBatch'
      BY <1>t, <2>1, <2>2, <3>1, AppendProperties DEF RoomForBatch, AvailableArea
    <3> QED
      BY <1>q, <2>5, <3>3, <3>4, <3>5, <3>6
  <2>8. CASE SendFails
    <3>1. messagesCh' = messagesCh /\ Queued' = Queued
      BY <2>8 DEF SendFails, Queued
    <3>2. NothingBeyond'
      BY <1>p, <2>2, <2>3, <2>4, <3>1, PlacesType DEF NothingBeyond
    <3>3. SentInOrder'
      BY <1>p, <3>1 DEF SentInOrder
    <3>4. CarriesPending'
      BY <1>p, <2>6, <3>1 DEF CarriesPending
    <3>5. RoomForBatch'
      BY <1>t, <2>1, <3>1 DEF RoomForBatch, AvailableArea
    <3> QED
      BY <1>q, <2>5, <3>2, <3>3, <3>4, <3>5
  <2> QED
    BY <1>4, <2>7, <2>8
<1>5. CASE CompleteBatch
  <2> USE <1>5 DEF CompleteBatch, EndPass
  <2>1. Elements(messages') = {} /\ Unsent' = {}
    BY <1>t DEF Elements, Unsent
  <2>2. BatchAhead'
    BY <1>t, <2>1 DEF BatchAhead, Ascending, Elements
  <2>3. Queued' = Queued
    BY DEF Queued
  <2>4. Reached' = Reached
    <3>1. next = Len(messages) + 1 /\ Reached' = lastProcessedOffset'
      BY <1>t DEF Reached
    <3>2. CASE messages = <<>>
      BY <1>t, <3>1, <3>2 DEF Reached
    <3>3. CASE messages # <<>>
      <4>1. Len(messages) > 0
        BY <1>t, <3>3, EmptySeq
      <4> QED
        BY <1>t, <3>1, <3>3, <4>1 DEF Reached
    <3> QED
      BY <3>2, <3>3
  <2>5. NothingBeyond' /\ SentInOrder'
    BY <1>p, <2>3, <2>4 DEF NothingBeyond, SentInOrder
  <2>6. CarriesPending'
    BY <1>p, <2>1, <2>3 DEF CarriesPending
  <2> QED
    BY <1>q, <2>2, <2>5, <2>6 DEF RoomForBatch
<1> QED
  BY <1>1, <1>2, <1>3, <1>4, <1>5 DEF Populate
\* So does a step of the processor's loop.
LEMMA ProcessKeepsPipeline ==
    TypeOK /\ TypeOK' /\ Pipeline /\ Process => Pipeline'
<1> SUFFICES ASSUME TypeOK, TypeOK', Pipeline, Process PROVE Pipeline'
  OBVIOUS
<1> USE DEF Pipeline
<1>p. /\ UNCHANGED <<popRun, popPc, messages, next, lastProcessedOffset, status>>
      /\ Unsent' = Unsent /\ Reached' = Reached
  BY DEF Process, ReceiveMessage, SpawnTask, BeginDrain, ExitProcessor, DropCancelled,
       LimiterFails, popVars, Unsent, Reached
<1>q. BatchAhead'
  BY <1>p DEF BatchAhead, Ascending, Elements
<1>t. /\ messagesCh \in Seq(Offsets) /\ Len(messagesCh) \in Nat
      /\ MessageChannelSize \in Nat
  BY LenProperties, ChannelAssumption DEF TypeOK, ChannelTypeOK
<1>1. CASE ReceiveMessage
  <2> USE <1>1 DEF ReceiveMessage, Take
  <2>1. /\ held' \in Queued /\ Ascending(messagesCh')
        /\ Queued' = Queued \ {held'}
        /\ \A n \in Queued' : held' < n
    BY <1>t, TailAscending DEF SentInOrder, Queued
  <2>2. Held = {} /\ Held' = {held'} /\ Started' = Started /\ Active' = Active
    BY DEF Held, Started, Active
  <2>3. NothingBeyond'
    BY <1>p, <2>1, <2>2 DEF NothingBeyond
  <2>4. SentInOrder'
    BY <2>1, <2>2 DEF SentInOrder
  <2>5. CarriesPending'
    BY <1>p, <2>1, <2>2 DEF CarriesPending
  <2>6. RoomForBatch'
    <3>1. Len(messagesCh') = Len(messagesCh) - 1
      BY <1>t, HeadTailProperties
    <3>2. Len(messages) \in Nat /\ next \in Nat
      BY LenProperties DEF TypeOK, PopulatorTypeOK
    <3> QED
      BY <1>p, <1>t, <3>1, <3>2 DEF RoomForBatch, AvailableArea
  <2> QED
    BY <1>q, <2>2, <2>3, <2>4, <2>5, <2>6 DEF NoBurstNoTask, DrainedBeforeOff
<1>2. CASE ~ReceiveMessage
  <2>1. messagesCh' = messagesCh /\ Queued' = Queued
    BY <1>2 DEF Process, SpawnTask, BeginDrain, ExitProcessor, DropCancelled, LimiterFails, Queued
  <2>2. RoomForBatch'
    BY <1>p, <2>1 DEF RoomForBatch, AvailableArea
  <2>3. CASE SpawnTask
    <3> USE <2>3 DEF SpawnTask
    <3>1. Held = {held} /\ Held' = {} /\ held \in Offsets
      BY DEF Held, TypeOK, ProcessorTypeOK
    <3>2. Started' = Started \cup {held} /\ Active' = Active \cup {held}
      BY <3>1 DEF Started, Active, Working, TypeOK, ProcessorTypeOK
    <3>3. NothingBeyond'
      BY <1>p, <2>1, <3>1, <3>2 DEF NothingBeyond
    <3>4. SentInOrder'
      BY <2>1, <3>1, <3>2 DEF SentInOrder
    <3>5. CarriesPending'
      BY <1>p, <2>1, <3>1, <3>2 DEF CarriesPending
    <3>6. NoBurstNoTask' /\ DrainedBeforeOff'
      BY ProcessorAssumption DEF NoBurstNoTask, DrainedBeforeOff
    <3> QED
      BY <1>q, <2>2, <3>3, <3>4, <3>5, <3>6
  <2>4. CASE BeginDrain \/ ExitProcessor \/ DropCancelled \/ LimiterFails
    <3>1. task' = task /\ Started' = Started /\ Active' = Active /\ Held' = {}
      BY <2>4 DEF BeginDrain, ExitProcessor, DropCancelled, LimiterFails, Started, Active, Held
    <3>2. NothingBeyond' /\ SentInOrder' /\ CarriesPending' /\ NoBurstNoTask'
      BY <1>p, <2>1, <3>1 DEF NothingBeyond, SentInOrder, CarriesPending, NoBurstNoTask
    <3>3. DrainedBeforeOff'
      <4>1. CASE BeginDrain \/ DropCancelled
        BY <4>1 DEF BeginDrain, DropCancelled, DrainedBeforeOff
      <4>2. CASE ExitProcessor
        BY <3>1, <4>2 DEF ExitProcessor, DrainedBeforeOff
      <4>3. CASE LimiterFails
        <5>1. Started = {}
          BY <4>3 DEF LimiterFails, NoBurstNoTask
        <5>2. Active = {}
          BY <5>1 DEF Started, Active, Working
        <5> QED
          BY <3>1, <5>2 DEF DrainedBeforeOff
      <4> QED
        BY <2>4, <4>1, <4>2, <4>3
    <3> QED
      BY <1>q, <2>2, <3>2, <3>3
  <2> QED
    BY <1>2, <2>3, <2>4 DEF Process
<1> QED
  BY <1>1, <1>2

\* So does a step of a goroutine, which is the only one that changes the
\* status of its message, and no longer active when it has.
LEMMA ProcessMessageKeepsPipeline ==
    ASSUME TypeOK, Pipeline, NEW m \in Offsets, ProcessMessage(m)
    PROVE  Pipeline'
<1> USE DEF Pipeline
<1>1. /\ UNCHANGED <<messagesCh, procRun, procPc, held>> /\ UNCHANGED popVars
      /\ task[m] \in Working
      /\ \E s \in Working \cup Finished :
            /\ task' = [task EXCEPT ![m] = s]
            /\ \/ status' = status
               \/ s \in Finished /\ \E t \in Statuses : status' = [status EXCEPT ![m] = t]
  BY DEF ProcessMessage, BeginTx, NotificationSent, NotificationFails,
       NotificationPanics, TxUpdate, SetMessageDelivered, SetMessageDeliveredFails, Commit,
       CommitFails, MarkFailed, Goto, Update, history, Working, Finished, Statuses
<1>2. /\ Unsent' = Unsent /\ Queued' = Queued /\ Held' = Held /\ Reached' = Reached
      /\ BatchAhead' /\ RoomForBatch'
  BY <1>1 DEF popVars, Unsent, Queued, Held, Reached, BatchAhead, RoomForBatch, AvailableArea,
       Elements, Ascending
<1>3. m \in Started /\ m \in Active /\ Started' = Started /\ Active' \subseteq Active
  BY <1>1 DEF Started, Active, Working, Finished, TypeOK, ProcessorTypeOK
<1>4. NothingBeyond' /\ NoBurstNoTask' /\ DrainedBeforeOff'
  BY <1>1, <1>2, <1>3 DEF NothingBeyond, NoBurstNoTask, DrainedBeforeOff
<1>5. SentInOrder'
  BY <1>1, <1>2, <1>3 DEF SentInOrder
<1>6. CarriesPending'
  <2>1. CASE status' = status
    BY <1>2, <1>3, <2>1 DEF CarriesPending
  <2>2. CASE status' # status
    <3>1. /\ m \notin Active'
          /\ \A n \in Offsets : n # m => status'[n] = status[n]
      BY <1>1, <2>2 DEF Active, Working, Finished, TypeOK, StoreTypeOK, ProcessorTypeOK
    <3>2. m \notin Unsent \cup Queued \cup Held
      <4>1. \A n \in Held \cup Queued \cup Unsent : m < n
        BY <1>3, OrderFromSent DEF InOrder
      <4> QED
        BY <4>1, PlacesType
    <3> QED
      BY <1>2, <1>3, <3>1, <3>2, PlacesType DEF CarriesPending, Active
  <2> QED
    BY <2>1, <2>2
<1> QED
  BY <1>2, <1>4, <1>5, <1>6

LEMMA StepPipeline == TypeOK /\ TypeOK' /\ Pipeline /\ [Next]_vars => Pipeline'
<1> SUFFICES ASSUME TypeOK, TypeOK', Pipeline, [Next]_vars PROVE Pipeline'
  OBVIOUS
<1>1. ASSUME NEW m \in Offsets, Insert(m) PROVE Pipeline'
  <2>1. /\ UNCHANGED <<messagesCh, popVars, procVars>>
        /\ status[m] = "ABSENT" /\ \A n \in Offsets : n # m => status'[n] = status[n]
    BY <1>1 DEF Insert, Create, Visible, TypeOK, StoreTypeOK
  <2>2. /\ Unsent' = Unsent /\ Queued' = Queued /\ Held' = Held /\ Reached' = Reached
        /\ Started' = Started /\ Active' = Active
    BY <2>1 DEF popVars, procVars, Unsent, Queued, Held, Reached, Started, Active, Elements
  <2>3. CarriesPending'
    BY <2>1, <2>2, PlacesType DEF Pipeline, CarriesPending, Active
  <2> QED
    BY <2>1, <2>2, <2>3 DEF Pipeline, popVars, procVars, BatchAhead, NothingBeyond, SentInOrder,
         RoomForBatch, AvailableArea, NoBurstNoTask, DrainedBeforeOff, Elements, Ascending
<1>2. CASE Restart
  <2> USE <1>2 DEF Restart, RebootPopulator, RebootProcessor
  <2>1. messages' = <<>> /\ messagesCh' = <<>> /\ Len(<<>>) = 0
    BY EmptySeq
  <2>2. /\ Elements(messages') = {} /\ Queued' = {} /\ Unsent' = {} /\ Held' = {}
        /\ Started' = {} /\ Active' = {}
    BY <2>1 DEF Elements, Queued, Unsent, Held, Started, Active, Working
  <2>3. BatchAhead' /\ SentInOrder'
    BY <2>1, <2>2 DEF BatchAhead, SentInOrder, Ascending, Elements
  <2> QED
    BY <2>2, <2>3 DEF Pipeline, NothingBeyond, CarriesPending, NoBurstNoTask,
       DrainedBeforeOff, RoomForBatch
<1>3. CASE Operate
  <2>1. /\ UNCHANGED <<status, messagesCh, popPc, messages, next, lastProcessedOffset>>
        /\ UNCHANGED <<procPc, held, task>>
        /\ procRun' = "off" => procRun = "off"
    BY <1>3 DEF Operate, StartPopulator, CancelPopulator, StartProcessor, CancelProcessor,
         popVars, procVars
  <2> QED
    BY <2>1 DEF Pipeline, BatchAhead, NothingBeyond, SentInOrder, CarriesPending, RoomForBatch,
         AvailableArea, NoBurstNoTask, DrainedBeforeOff, Elements, Ascending, Unsent, Queued,
         Held, Started, Active, Reached
<1>4. CASE UNCHANGED vars
  BY <1>4 DEF vars, popVars, procVars, Pipeline, BatchAhead, NothingBeyond, SentInOrder,
         CarriesPending, RoomForBatch, AvailableArea, NoBurstNoTask, DrainedBeforeOff, Elements,
         Ascending, Unsent, Queued, Held, Started, Active, Reached
<1> QED
  BY <1>1, <1>2, <1>3, <1>4, PopulateKeepsPipeline, ProcessKeepsPipeline,
     ProcessMessageKeepsPipeline DEF Next

-----------------------------------------------------------------------------
(***************************************************************************)
(* No pending row is lost but the dropped and the late ones.               *)
(***************************************************************************)

LEMMA InitAccounting == Init => Accounting
<1> SUFFICES ASSUME Init PROVE Accounting
  OBVIOUS
<1> USE DEF Init, StoreInit, ChannelInit, PopulatorInit, ProcessorInit
<1>1. Elements(messages) = {} /\ next = 1
  BY EmptySeq DEF Elements
<1>2. AccountedFor
  BY DEF AccountedFor
<1> QED
  BY <1>1, <1>2 DEF Accounting

\* A message that has been tried stays tried while the program runs.
LEMMA TriedGrows ==
    TypeOK /\ Pipeline /\ Next => Restart \/ Tried \subseteq Tried'
<1> SUFFICES ASSUME TypeOK, Pipeline, Next, ~Restart PROVE Tried \subseteq Tried'
  OBVIOUS
<1>t. messagesCh \in Seq(Offsets) /\ Ascending(messagesCh)
  BY DEF TypeOK, ChannelTypeOK, Pipeline, SentInOrder
<1>1. ASSUME NEW m \in Offsets, Insert(m) PROVE Tried \subseteq Tried'
  BY <1>1 DEF Insert, procVars, Tried, Queued, Held, Started, Elements
<1>2. ASSUME NEW m \in Offsets, ProcessMessage(m) PROVE Tried \subseteq Tried'
  <2>1. /\ UNCHANGED <<messagesCh, procPc, held, dropped>>
        /\ \E s \in Working \cup Finished : task' = [task EXCEPT ![m] = s]
    BY <1>2 DEF ProcessMessage, BeginTx, NotificationSent, NotificationFails,
         NotificationPanics, TxUpdate, SetMessageDelivered, SetMessageDeliveredFails, Commit,
         CommitFails, MarkFailed, Goto, history, Working, Finished
  <2>2. Started \subseteq Started'
    BY <2>1 DEF Started, Working, Finished, TypeOK, ProcessorTypeOK
  <2> QED
    BY <2>1, <2>2 DEF Tried, Queued, Held, Elements
<1>3. CASE Operate
  BY <1>3 DEF Operate, StartPopulator, CancelPopulator, StartProcessor, CancelProcessor,
       procVars, history, Tried, Queued, Held, Started, Elements
<1>4. CASE Populate
  <2>1. Held' = Held /\ Started' = Started /\ dropped \subseteq dropped'
    BY <1>4 DEF Populate, procVars, Held, Started
  <2>2. CASE SendMessage
    <3>1. messagesCh' = Append(messagesCh, messages[next]) /\ messages[next] \in Offsets
      BY <2>2, ElementOfSeq, LenProperties DEF SendMessage, Sending, Put, TypeOK, PopulatorTypeOK
    <3>2. Queued \subseteq Queued'
      BY <1>t, <3>1, AppendProperties, LenProperties DEF Queued, Elements
    <3> QED
      BY <2>1, <3>2 DEF Tried
  <2>3. CASE ~SendMessage
    <3>1. Queued' = Queued
      BY <1>4, <2>3 DEF Populate, Tick, PausePopulator, AcceptBatch, SendFails,
         CompleteBatch, EndPass, ExitPopulator, Queued, Elements
    <3> QED
      BY <2>1, <3>1 DEF Tried
  <2> QED
    BY <2>2, <2>3
<1>5. CASE Process
  <2>1. CASE ReceiveMessage
    <3>1. Queued = Queued' \cup {Head(messagesCh)}
      BY <1>t, <2>1, TailAscending DEF ReceiveMessage, Take, Queued
    <3>2. Held = {} /\ Held' = {Head(messagesCh)} /\ Started' = Started
      BY <2>1 DEF ReceiveMessage, Held, Started
    <3> QED
      BY <1>5, <2>1, <3>1, <3>2 DEF Process, ReceiveMessage, DropCancelled, LimiterFails, Tried
  <2>2. CASE SpawnTask
    <3>1. Held = {held} /\ held \in Offsets /\ Queued' = Queued
      BY <2>2 DEF SpawnTask, Held, Queued, TypeOK, ProcessorTypeOK
    <3>2. Started' = Started \cup {held}
      BY <2>2, <3>1 DEF SpawnTask, Started, TypeOK, ProcessorTypeOK
    <3> QED
      BY <1>5, <2>2, <3>1, <3>2 DEF Process, SpawnTask, DropCancelled, LimiterFails, Tried
  <2>3. CASE BeginDrain \/ ExitProcessor
    BY <1>5, <2>3 DEF Process, BeginDrain, ExitProcessor, DropCancelled, LimiterFails,
       Tried, Held, Queued, Started
  <2>4. CASE (DropCancelled \/ LimiterFails) /\ dropped' = dropped \cup {held}
    BY <2>4 DEF DropCancelled, LimiterFails, Tried, Held, Queued, Started
  <2> QED
    BY <1>5, <2>1, <2>2, <2>3, <2>4 DEF Process
<1> QED
  BY <1>1, <1>2, <1>3, <1>4, <1>5 DEF Next

\* A step that leaves the batch and the offset alone, loses no row, makes none
\* pending and forgets nothing that was tried keeps the accounts.
LEMMA QuietKeepsAccounting ==
    ASSUME Accounting, UNCHANGED <<messages, next, lastProcessedOffset, late>>,
           \A m \in Offsets : status[m] # "ABSENT" => status'[m] # "ABSENT",
           \A m \in Offsets : status'[m] = "PENDING" => status[m] = "PENDING",
           TypeOK, Tried \subseteq Tried'
    PROVE  Accounting'
<1>1. Elements(messages)' = Elements(messages)
  BY DEF Elements
<1>2. AccountedFor'
  BY DEF Accounting, AccountedFor
<1>3. (lastProcessedOffset # 0 => Visible(lastProcessedOffset))'
  BY DEF Accounting, Visible, TypeOK, PopulatorTypeOK
<1>4. (\A m \in Elements(messages) : Visible(m))'
  BY <1>1, PlacesType DEF Accounting, Visible
<1>5. (\A i \in 1..(next - 1) : messages[i] \in Tried)'
  BY DEF Accounting
<1>6. (\A m \in Offsets, n \in Elements(messages) :
          status[m] = "PENDING" /\ lastProcessedOffset < m /\ m < n
              => m \in Elements(messages) \cup late)'
  BY <1>1 DEF Accounting
<1> QED
  BY <1>2, <1>3, <1>4, <1>5, <1>6 DEF Accounting

LEMMA PopulateKeepsAccounting ==
    TypeOK /\ TypeOK' /\ Pipeline /\ Accounting /\ Populate => Accounting'
<1> SUFFICES ASSUME TypeOK, TypeOK', Pipeline, Accounting, Populate PROVE Accounting'
  OBVIOUS
<1>r. Tried \subseteq Tried'
  <2>1. ~Restart
    BY DEF Restart, Populate, TypeOK
  <2> QED
    BY <2>1, TriedGrows DEF Next
<1>p. status' = status /\ late' = late
  BY DEF Populate, Tick, PausePopulator, AcceptBatch, SendMessage, SendFails,
       CompleteBatch, EndPass, ExitPopulator
<1>t. /\ messages \in Seq(Offsets) /\ Len(messages) \in Nat
      /\ next \in 1..(Len(messages) + 1) /\ Len(<<>>) = 0
      /\ lastProcessedOffset \in Offsets \cup {0} /\ Offsets \subseteq Nat
  BY LenProperties, EmptySeq, PlacesType DEF TypeOK, PopulatorTypeOK
<1>a. ASSUME UNCHANGED lastProcessedOffset PROVE AccountedFor'
  BY <1>a, <1>p, <1>r DEF Accounting, AccountedFor
<1>1. CASE Tick
  <2> USE <1>1 DEF Tick
  <2>1. CASE messages' = <<>>
    <3>1. Elements(messages') = {} /\ 1..(next' - 1) = {}
      BY <1>t, <2>1 DEF Elements
    <3> QED
      BY <1>a, <1>p, <3>1 DEF Accounting, Visible
  <2>2. CASE messages' \in ListByOffset(lastProcessedOffset, "PENDING", MaxRecordsPerRead)
    <3>1. /\ \A m \in Elements(messages') : status[m] = "PENDING"
          /\ \A m \in Offsets, n \in Elements(messages') :
                 m > lastProcessedOffset /\ status[m] = "PENDING" /\ m < n
                     => m \in Elements(messages')
      BY <2>2, PageProperties, PopulatorAssumption
    <3>2. \A m \in Offsets : lastProcessedOffset < m => m > lastProcessedOffset
      BY <1>t
    <3> QED
      BY <1>a, <1>p, <3>1, <3>2 DEF Accounting, Visible, Elements
  <2> QED
    BY <2>1, <2>2 DEF Fetched
<1>2. CASE PausePopulator
  <2> USE <1>2 DEF PausePopulator
  <2>1. Elements(messages') = {}
    BY <1>t DEF Elements
  <2> QED
    BY <1>a, <1>p, <2>1 DEF Accounting, Visible, Elements
<1>3. CASE AcceptBatch \/ ExitPopulator
  <2>1. UNCHANGED <<messages, next, lastProcessedOffset>>
    BY <1>3 DEF AcceptBatch, ExitPopulator
  <2> QED
    BY <1>p, <1>r, <2>1, QuietKeepsAccounting DEF Visible
<1>4. CASE SendMessage \/ (SendFails /\ dropped' = dropped \cup {messages[next]})
  <2>1. /\ UNCHANGED <<messages, lastProcessedOffset>>
        /\ next <= Len(messages) /\ next' = next + 1
    BY <1>4 DEF SendMessage, SendFails, Sending
  <2>2. messages[next] \in Tried'
    <3>1. CASE SendMessage
      <4>1. messagesCh' = Append(messagesCh, messages[next])
        BY <3>1 DEF SendMessage, Put
      <4>2. messages[next] \in Offsets /\ messagesCh \in Seq(Offsets) /\ Len(messagesCh) \in Nat
        BY <1>t, <2>1, ElementOfSeq, LenProperties DEF TypeOK, ChannelTypeOK
      <4>3. messages[next] \in Queued'
        BY <4>1, <4>2, AppendProperties DEF Queued, Elements
      <4> QED
        BY <4>3 DEF Tried
    <3>2. CASE SendFails /\ dropped' = dropped \cup {messages[next]}
      BY <3>2 DEF Tried
    <3> QED
      BY <1>4, <3>1, <3>2
  <2>3. (\A i \in 1..(next - 1) : messages[i] \in Tried)'
    <3> SUFFICES ASSUME NEW i \in 1..(next' - 1) PROVE messages[i] \in Tried'
      BY <2>1
    <3>1. i \in 1..(next - 1) \/ i = next
      BY <1>t, <2>1
    <3> QED
      BY <1>r, <2>2, <3>1 DEF Accounting
  <2> QED
    BY <1>a, <1>p, <2>1, <2>3 DEF Accounting, Visible, Elements
<1>5. CASE CompleteBatch
  <2> USE <1>5 DEF CompleteBatch, EndPass
  <2>1. Elements(messages') = {} /\ 1..(next' - 1) = {}
    BY <1>t DEF Elements
  <2>2. CASE messages = <<>>
    BY <1>a, <1>p, <2>1, <2>2 DEF Accounting, Visible
  <2>3. CASE messages # <<>>
    <3> DEFINE last == messages[Len(messages)]
    <3>1. /\ lastProcessedOffset' = last /\ last \in Elements(messages)
          /\ last \in Offsets /\ next - 1 = Len(messages)
      BY <1>t, <2>3, EmptySeq, ElementOfSeq DEF Elements
    <3>2. Visible(last)
      BY <3>1 DEF Accounting
    <3>3. Elements(messages) \subseteq Tried
      BY <3>1 DEF Accounting, Elements
    <3>4. ASSUME NEW m \in Offsets, status[m] = "PENDING", m <= last
          PROVE  m \in Tried \cup late
      <4>1. CASE m <= lastProcessedOffset
        BY <3>4, <4>1 DEF Accounting, AccountedFor
      <4>2. CASE lastProcessedOffset < m /\ m < last
        BY <3>1, <3>3, <3>4, <4>2 DEF Accounting
      <4>3. CASE m = last
        BY <3>1, <3>3, <4>3
      <4>4. m \in Nat /\ last \in Nat /\ lastProcessedOffset \in Nat
        BY <3>1, PlacesType
      <4> HIDE DEF last
      <4>5. m <= lastProcessedOffset \/ (lastProcessedOffset < m /\ m < last) \/ m = last
        BY <3>4, <4>4
      <4> QED
        BY <4>1, <4>2, <4>3, <4>5
    <3>5. AccountedFor'
      BY <1>p, <1>r, <3>1, <3>4 DEF AccountedFor
    <3> QED
      BY <1>p, <2>1, <3>1, <3>2, <3>5 DEF Accounting, Visible
  <2> QED
    BY <2>2, <2>3
<1> QED
  BY <1>1, <1>2, <1>3, <1>4, <1>5 DEF Populate

LEMMA StepAccounting ==
    TypeOK /\ TypeOK' /\ Pipeline /\ Accounting /\ [Next]_vars => Accounting'
<1> SUFFICES ASSUME TypeOK, TypeOK', Pipeline, Accounting, [Next]_vars PROVE Accounting'
  OBVIOUS
<1>1. ASSUME NEW m \in Offsets, Insert(m) PROVE Accounting'
  <2>1. /\ UNCHANGED <<messages, next, lastProcessedOffset>> /\ Tried' = Tried
        /\ late' = IF Newest(m) THEN late ELSE late \cup {m}
    BY <1>1 DEF Insert, popVars, procVars, Tried, Queued, Held, Started, Elements
  <2>2. ~Visible(m) /\ \E s \in Statuses : status' = [status EXCEPT ![m] = s]
    BY <1>1, StoreAssumption DEF Insert, Create
  <2>3. \A n \in Offsets : Visible(n) => Visible(n)' /\ n # m
    BY <2>2 DEF Visible, Statuses, TypeOK, StoreTypeOK
  <2>4. \A n \in Offsets : n # m => status'[n] = status[n]
    BY <2>2 DEF TypeOK, StoreTypeOK
  <2>5. /\ Elements(messages)' = Elements(messages) /\ Elements(messages) \subseteq Offsets
        /\ lastProcessedOffset \in Offsets \cup {0} /\ Offsets \subseteq Nat /\ m # 0
    BY <2>1, PlacesType, StoreAssumption DEF Elements, TypeOK, PopulatorTypeOK, Offsets
  <2>6. ASSUME NEW n \in Offsets, Visible(n), m < n PROVE m \in late'
    BY <2>1, <2>6 DEF Newest
  <2>7. AccountedFor'
    <3> SUFFICES ASSUME NEW n \in Offsets, status'[n] = "PENDING", n <= lastProcessedOffset
                 PROVE  n \in Tried \cup late'
      BY <2>1 DEF AccountedFor
    <3>1. CASE n # m
      BY <2>1, <2>4, <3>1 DEF Accounting, AccountedFor
    <3>2. CASE n = m
      <4>1. lastProcessedOffset \in Offsets /\ Visible(lastProcessedOffset)
        BY <2>5, <3>2, StoreAssumption DEF Accounting, Offsets
      <4>2. m < lastProcessedOffset
        BY <2>3, <2>5, <3>2, <4>1
      <4> QED
        BY <2>6, <3>2, <4>1, <4>2
    <3> QED
      BY <3>1, <3>2
  <2>8. ASSUME NEW k \in Offsets, NEW n \in Elements(messages), status'[k] = "PENDING",
               lastProcessedOffset < k, k < n
        PROVE  k \in Elements(messages) \cup late'
    <3>1. CASE k # m
      BY <2>1, <2>4, <2>8, <3>1 DEF Accounting
    <3>2. CASE k = m
      BY <2>5, <2>6, <2>8, <3>2 DEF Accounting
    <3> QED
      BY <3>1, <3>2
  <2>9. lastProcessedOffset # 0 => status'[lastProcessedOffset] # "ABSENT"
    BY <2>3, <2>5 DEF Accounting, Visible
  <2>10. \A n \in Elements(messages) : Visible(n)'
    BY <2>3, <2>5 DEF Accounting
  <2> QED
    BY <2>1, <2>5, <2>7, <2>8, <2>9, <2>10 DEF Accounting, Visible
<1>2. ASSUME NEW m \in Offsets, ProcessMessage(m) PROVE Accounting'
  <2>1. /\ UNCHANGED <<messages, next, lastProcessedOffset, late>>
        /\ \/ status' = status
           \/ \E s \in {"SENT", "FAILED"} : status' = [status EXCEPT ![m] = s]
    BY <1>2 DEF ProcessMessage, BeginTx, NotificationSent, NotificationFails,
         NotificationPanics, TxUpdate, SetMessageDelivered, SetMessageDeliveredFails, Commit,
         CommitFails, MarkFailed, Update, history, popVars
  <2>2. /\ \A n \in Offsets : status[n] # "ABSENT" => status'[n] # "ABSENT"
        /\ \A n \in Offsets : status'[n] = "PENDING" => status[n] = "PENDING"
    BY <2>1 DEF TypeOK, StoreTypeOK
  <2>3. Tried \subseteq Tried'
    <3>1. ~Restart
      BY <1>2 DEF Restart, ProcessMessage, TypeOK
    <3> QED
      BY <1>2, <3>1, TriedGrows DEF Next
  <2> QED
    BY <2>1, <2>2, <2>3, QuietKeepsAccounting
<1>3. CASE Restart
  <2>1. messages' = <<>> /\ next' = 1 /\ lastProcessedOffset' = 0
    BY <1>3 DEF Restart, RebootPopulator
  <2>2. Elements(messages') = {} /\ 1..(next' - 1) = {}
    BY <2>1, EmptySeq DEF Elements
  <2>3. AccountedFor'
    BY <2>1, PlacesType, StoreAssumption DEF AccountedFor, Offsets
  <2> QED
    BY <2>1, <2>2, <2>3 DEF Accounting
<1>4. CASE Operate \/ Process
  <2>1. UNCHANGED <<messages, next, lastProcessedOffset, late, status>>
    BY <1>4 DEF Operate, StartPopulator, CancelPopulator, StartProcessor, CancelProcessor,
         Process, ReceiveMessage, SpawnTask, BeginDrain, ExitProcessor, DropCancelled,
         LimiterFails, popVars, history
  <2>2. Tried \subseteq Tried'
    <3>1. ~Restart
      BY <1>4 DEF Restart, Operate, Process, TypeOK
    <3> QED
      BY <1>4, <3>1, TriedGrows DEF Next
  <2> QED
    BY <2>1, <2>2, QuietKeepsAccounting
<1>5. CASE UNCHANGED vars
  BY <1>5, QuietKeepsAccounting DEF vars, popVars, procVars, history, Tried, Queued, Held,
     Started, Elements
<1> QED
  BY <1>1, <1>2, <1>3, <1>4, <1>5, PopulateKeepsAccounting DEF Next

-----------------------------------------------------------------------------
(***************************************************************************)
(* The progress of the goroutines.                                         *)
(***************************************************************************)

LEMMA StepProgressIsReal ==
    TypeOK /\ ProgressIsReal /\ [Next]_vars => ProgressIsReal'
<1> SUFFICES ASSUME TypeOK, ProgressIsReal, [Next]_vars,
                    NEW n \in Offsets
             PROVE  /\ task'[n] \in {"update", "redis", "commit"} => n \in delivered'
                    /\ task'[n] = "commit" => n \in recorded'
  BY DEF ProgressIsReal
<1> USE DEF TypeOK, ProcessorTypeOK, ProgressIsReal
<1>1. ASSUME NEW m \in Offsets, ProcessMessage(m)
      PROVE  /\ task'[n] \in {"update", "redis", "commit"} => n \in delivered'
             /\ task'[n] = "commit" => n \in recorded'
  <2>1. CASE BeginTx(m) \/ TxUpdate(m)
    BY <2>1 DEF BeginTx, TxUpdate, Goto
  <2>2. CASE NotificationSent(m) \/ NotificationFails(m) \/ NotificationPanics(m)
    BY <2>2 DEF NotificationSent, NotificationFails, NotificationPanics, Goto
  <2>3. CASE SetMessageDelivered(m) \/ SetMessageDeliveredFails(m)
    BY <2>3 DEF SetMessageDelivered, SetMessageDeliveredFails, Goto
  <2>4. CASE Commit(m) \/ CommitFails(m) \/ MarkFailed(m)
    BY <2>4 DEF Commit, CommitFails, MarkFailed, Goto
  <2> QED
    BY <1>1, <2>1, <2>2, <2>3, <2>4 DEF ProcessMessage
<1>2. CASE Restart
  BY <1>2 DEF Restart, RebootProcessor
<1>3. CASE SpawnTask
  BY <1>3 DEF SpawnTask
<1>4. CASE UNCHANGED <<task, delivered, recorded>>
  BY <1>4
<1>5. CASE Process /\ ~SpawnTask
  BY <1>4, <1>5 DEF Process, ReceiveMessage, BeginDrain, ExitProcessor, DropCancelled, LimiterFails
<1>6. CASE Operate \/ Populate \/ (\E m \in Offsets : Insert(m)) \/ UNCHANGED vars
  BY <1>4, <1>6 DEF Operate, StartProcessor, CancelProcessor, Populate, Insert, vars, procVars
<1> QED
  BY <1>1, <1>2, <1>3, <1>5, <1>6 DEF Next

-----------------------------------------------------------------------------
(***************************************************************************)
(* The workers that are off.                                               *)
(***************************************************************************)

LEMMA StepIdleWhenOff == IdleWhenOff /\ [Next]_vars => IdleWhenOff'
<1> SUFFICES ASSUME IdleWhenOff, [Next]_vars PROVE IdleWhenOff'
  OBVIOUS
<1> USE DEF IdleWhenOff
<1>1. CASE Populate
  BY <1>1 DEF Populate, Tick, PausePopulator, AcceptBatch, SendMessage, SendFails,
     CompleteBatch, EndPass, ExitPopulator, procVars
<1>2. CASE Process
  BY <1>2 DEF Process, ReceiveMessage, SpawnTask, BeginDrain, ExitProcessor, DropCancelled,
     LimiterFails, popVars
<1>3. CASE Operate
  BY <1>3 DEF Operate, StartPopulator, CancelPopulator, StartProcessor, CancelProcessor, popVars,
     procVars
<1>4. CASE Restart
  BY <1>4 DEF Restart, RebootPopulator, RebootProcessor
<1>5. ASSUME NEW m \in Offsets, Insert(m) \/ ProcessMessage(m) PROVE IdleWhenOff'
  <2>1. UNCHANGED <<popVars, procRun, procPc>>
    BY <1>5 DEF Insert, ProcessMessage, BeginTx, NotificationSent, NotificationFails,
       NotificationPanics, TxUpdate, SetMessageDelivered, SetMessageDeliveredFails, Commit,
       CommitFails, MarkFailed, procVars
  <2> QED
    BY <2>1 DEF popVars
<1>6. CASE UNCHANGED vars
  BY <1>6 DEF vars, popVars, procVars
<1> QED
  BY <1>1, <1>2, <1>3, <1>4, <1>5, <1>6 DEF Next

-----------------------------------------------------------------------------
(***************************************************************************)
(* The theorems.                                                           *)
(***************************************************************************)

\* IInv is an inductive invariant.
THEOREM InductiveInvariant == Spec => []IInv
<1>1. Init => IInv
  <2>1. Init => ProgressIsReal /\ IdleWhenOff
    BY DEF Init, PopulatorInit, ProcessorInit, ProgressIsReal, IdleWhenOff
  <2> QED
    BY <2>1, InitTypeOK, InitPipeline, InitAccounting DEF IInv
<1>2. IInv /\ [Next]_vars => IInv'
  BY StepTypeOK, StepIdleWhenOff, StepPipeline, StepAccounting, StepProgressIsReal DEF IInv
<1> QED
  BY <1>1, <1>2, PTL DEF Spec

\* The populator never waits on a full channel, whatever the processor, the
\* operator and the environment do.
THEOREM NeverBlocks == Spec => []RoomForBatch
<1>1. IInv => RoomForBatch
  BY DEF IInv, Pipeline
<1> QED
  BY <1>1, InductiveInvariant, PTL

\* Messages go through the pipeline in the order of their offsets, each is in
\* one place at most, and none is handled twice in a run of the program.
THEOREM DeliveredInOrder == Spec => []InOrder
<1>1. IInv => InOrder
  BY OrderFromSent DEF IInv, Pipeline
<1> QED
  BY <1>1, InductiveInvariant, PTL

\* Whatever the pipeline carries is still pending in the table.
THEOREM NoStaleStatus == Spec => []CarriesPending
<1>1. IInv => CarriesPending
  BY DEF IInv, Pipeline
<1> QED
  BY <1>1, InductiveInvariant, PTL

\* No goroutine outlives the run of the processor that started it.
THEOREM NoOrphanTask == Spec => []DrainedBeforeOff
<1>1. IInv => DrainedBeforeOff
  BY DEF IInv, Pipeline
<1> QED
  BY <1>1, InductiveInvariant, PTL
\* Every pending row that the offset has passed is in the pipeline, has been
\* handled, or is one of those dropped from the batch or the throttle, or of
\* those inserted late.
THEOREM NothingElseLost == Spec => []AccountedFor
<1>1. IInv => AccountedFor
  BY DEF IInv, Accounting
<1> QED
  BY <1>1, InductiveInvariant, PTL

\* A row becomes SENT only with a message that was delivered and recorded.
THEOREM SentMeansDelivered == Spec => []SentIsReal
<1>1. Init => SentIsReal
  BY DEF Init, StoreInit, SentIsReal
<1>2. ASSUME IInv, SentIsReal, [Next]_vars PROVE SentIsReal'
  <2> SUFFICES ASSUME "SENT" \notin NewStatuses, NEW n \in Offsets, status'[n] = "SENT"
               PROVE  n \in delivered' \cap recorded'
    BY DEF SentIsReal
  <2> USE <1>2 DEF IInv, TypeOK, StoreTypeOK, SentIsReal
  <2>1. delivered \subseteq delivered' /\ recorded \subseteq recorded'
    BY DEF Next, Insert, Restart, RebootProcessor, Operate, StartProcessor, CancelProcessor,
       Populate, Process, ReceiveMessage, SpawnTask, BeginDrain, ExitProcessor, DropCancelled,
       LimiterFails, ProcessMessage, BeginTx, NotificationSent, NotificationFails,
       NotificationPanics, TxUpdate, SetMessageDelivered, SetMessageDeliveredFails, Commit,
       CommitFails, MarkFailed, vars, procVars
  <2>2. CASE status[n] = "SENT"
    BY <2>1, <2>2
  <2>3. ASSUME NEW m \in Offsets, Insert(m) PROVE status[n] = "SENT"
    BY <2>3 DEF Insert, Create
  <2>4. ASSUME NEW m \in Offsets, ProcessMessage(m), status[n] # "SENT"
        PROVE  task[m] = "commit" /\ m = n
    BY <2>4 DEF ProcessMessage, BeginTx, NotificationSent, NotificationFails,
       NotificationPanics, TxUpdate, SetMessageDelivered, SetMessageDeliveredFails, Commit,
       CommitFails, MarkFailed, Update
  <2>5. task[n] = "commit" => n \in delivered \cap recorded
    BY DEF ProgressIsReal
  <2>6. status' = status \/ \E m \in Offsets : Insert(m) \/ ProcessMessage(m)
    BY DEF Next, Restart, Operate, StartPopulator, CancelPopulator, StartProcessor,
       CancelProcessor, Populate, Tick, PausePopulator, AcceptBatch, SendMessage, SendFails,
       CompleteBatch, EndPass, ExitPopulator, Process, ReceiveMessage, SpawnTask, BeginDrain,
       ExitProcessor, DropCancelled, LimiterFails, vars
  <2> QED
    BY <2>1, <2>2, <2>3, <2>4, <2>5, <2>6
<1> QED
  BY <1>1, <1>2, InductiveInvariant, PTL DEF Spec

\* SENT and FAILED are final: what the pipeline still carries is pending, and
\* only its messages are written to.
THEOREM StatusIsFinal == Spec => FinalStatus
<1>1. ASSUME IInv, [Next]_vars, NEW n \in Offsets, status[n] \in {"SENT", "FAILED"}
      PROVE  status'[n] = status[n]
  <2> USE <1>1 DEF IInv, TypeOK, StoreTypeOK
  <2>1. ASSUME NEW m \in Offsets, Insert(m) PROVE status'[n] = status[n]
    BY <2>1 DEF Insert, Create, Visible
  <2>2. ASSUME NEW m \in Offsets, ProcessMessage(m) PROVE status'[n] = status[n]
    <3>1. m \in Active /\ status[m] = "PENDING"
      BY <2>2 DEF ProcessMessage, BeginTx, NotificationSent, NotificationFails,
         NotificationPanics, TxUpdate, SetMessageDelivered, SetMessageDeliveredFails, Commit,
         CommitFails, MarkFailed, Active, Working, Pipeline, CarriesPending
    <3> QED
      BY <2>2, <3>1 DEF ProcessMessage, BeginTx, NotificationSent, NotificationFails,
         NotificationPanics, TxUpdate, SetMessageDelivered, SetMessageDeliveredFails, Commit,
         CommitFails, MarkFailed, Update
  <2>3. status' = status \/ \E m \in Offsets : Insert(m) \/ ProcessMessage(m)
    BY DEF Next, Restart, Operate, StartPopulator, CancelPopulator, StartProcessor,
       CancelProcessor, Populate, Tick, PausePopulator, AcceptBatch, SendMessage, SendFails,
       CompleteBatch, EndPass, ExitPopulator, Process, ReceiveMessage, SpawnTask, BeginDrain,
       ExitProcessor, DropCancelled, LimiterFails, vars
  <2> QED
    BY <2>1, <2>2, <2>3
<1>2. IInv /\ [Next]_vars =>
        [\A m \in Offsets : status[m] \in {"SENT", "FAILED"} => status'[m] = status[m]]_vars
  BY <1>1
<1> QED
  BY <1>2, InductiveInvariant, PTL DEF Spec, FinalStatus

-----------------------------------------------------------------------------
(***************************************************************************)
(* Tracking is reliable as long as nothing but the webhook and redis fails. *)
(***************************************************************************)

\* Then both workers run, nothing is dropped or late, and a goroutine that is
\* done has settled its row.
Undisturbed ==
    /\ popRun = "on" /\ procRun = "on" /\ procPc # "drain"
    /\ dropped = {} /\ late = {}
    /\ \A m \in Offsets : task[m] \in Finished => status[m] \in {"SENT", "FAILED"}

LEMMA StepUndisturbed ==
    ASSUME Faults \cap {"stop", "late", "store", "panic"} = {},
           MessageChannelSendTimeout > 0, RateLimitBurst > 0,
           IInv, Undisturbed, [Next]_vars
    PROVE  Undisturbed'
<1> USE DEF Undisturbed
<1>1. ASSUME NEW m \in Offsets, Insert(m) PROVE Undisturbed'
  BY <1>1 DEF Insert, Create, Visible, popVars, procVars, IInv, TypeOK, StoreTypeOK
<1>2. ASSUME NEW m \in Offsets, ProcessMessage(m) PROVE Undisturbed'
  <2>1. /\ UNCHANGED <<popRun, procRun, procPc, dropped, late>>
        /\ \A n \in Offsets \ {m} : task'[n] = task[n] /\ status'[n] = status[n]
    BY <1>2 DEF ProcessMessage, BeginTx, NotificationSent, NotificationFails,
       NotificationPanics, TxUpdate, SetMessageDelivered, SetMessageDeliveredFails, Commit,
       CommitFails, MarkFailed, Update, Goto, popVars, history, IInv, TypeOK, StoreTypeOK,
       ProcessorTypeOK
  <2>2. task'[m] \in Finished => status'[m] \in {"SENT", "FAILED"}
    BY <1>2 DEF ProcessMessage, BeginTx, NotificationSent, NotificationFails,
       NotificationPanics, TxUpdate, SetMessageDelivered, SetMessageDeliveredFails, Commit,
       CommitFails, MarkFailed, Update, Goto, Cancelled, Finished, IInv, TypeOK, StoreTypeOK,
       ProcessorTypeOK
  <2> QED
    BY <2>1, <2>2
<1>3. CASE Restart
  BY <1>3 DEF Restart, RebootPopulator, RebootProcessor, Finished
<1>4. CASE Operate
  BY <1>4 DEF Operate
<1>5. CASE Populate
  <2>1. ~SendFails
    <3>1. Sending => ~Full
      <4>1. /\ Len(messages) \in Nat /\ next \in Nat
            /\ Len(messagesCh) \in Nat /\ MessageChannelSize \in Nat
        BY LenProperties, ChannelAssumption DEF IInv, TypeOK, PopulatorTypeOK, ChannelTypeOK
      <4> QED
        BY <4>1 DEF Sending, Full, AvailableArea, IInv, Pipeline, RoomForBatch
    <3> QED
      BY <3>1 DEF SendFails
  <2>2. ~ExitPopulator
    BY DEF ExitPopulator
  <2> QED
    BY <1>5, <2>1, <2>2 DEF Populate, Tick, PausePopulator, AcceptBatch, SendMessage,
       CompleteBatch, EndPass, procVars
<1>6. CASE Process
  <2>1. ~DropCancelled /\ ~LimiterFails /\ ~BeginDrain /\ ~ExitProcessor
    BY DEF DropCancelled, LimiterFails, BeginDrain, ExitProcessor
  <2>3. CASE SpawnTask
    BY <1>6, <2>1, <2>3 DEF Process, SpawnTask, popVars, Finished, IInv, TypeOK, ProcessorTypeOK
  <2>4. CASE ReceiveMessage
    BY <1>6, <2>1, <2>4 DEF Process, ReceiveMessage, popVars, Finished, IInv, TypeOK, ProcessorTypeOK
  <2> QED
    BY <1>6, <2>1, <2>3, <2>4 DEF Process
<1>7. CASE UNCHANGED vars
  BY <1>7 DEF vars, popVars, procVars, history
<1> QED
  BY <1>1, <1>2, <1>3, <1>4, <1>5, <1>6, <1>7 DEF Next

\* The promise of README.MD:73 holds of a program whose workers are left alone,
\* whose database works, whose notifications do not panic and whose rows become
\* visible in the order of their offsets: whatever the webhook and redis do and
\* however often it restarts, every pending row that the offset has passed is
\* still being handled.
THEOREM TrackedWhenUndisturbed ==
    ASSUME Faults \cap {"stop", "late", "store", "panic"} = {},
           MessageChannelSendTimeout > 0, RateLimitBurst > 0
    PROVE  Spec => []OnItsWay /\ []ReliableTracking
<1>1. Init => Undisturbed
  BY DEF Init, PopulatorInit, ProcessorInit, Undisturbed, Finished
<1>2. IInv /\ Undisturbed /\ [Next]_vars => Undisturbed'
  BY StepUndisturbed
<1>3. IInv /\ Undisturbed => OnItsWay
  <2> SUFFICES ASSUME IInv, Undisturbed, NEW m \in Offsets,
                      status[m] = "PENDING", m <= lastProcessedOffset
               PROVE  m \in Queued \cup Held \cup Active
    BY DEF OnItsWay
  <2>1. m \in Queued \cup Held \cup Started
    BY DEF IInv, Accounting, AccountedFor, Undisturbed, Tried
  <2>2. m \in Started => m \in Active
    BY DEF Started, Active, Undisturbed, IInv, TypeOK, ProcessorTypeOK, Finished
  <2> QED
    BY <2>1, <2>2
<1>4. OnItsWay => ReliableTracking
  BY DEF OnItsWay, ReliableTracking, Active, Started, Working
<1> QED
  BY <1>1, <1>2, <1>3, <1>4, InductiveInvariant, PTL DEF Spec

-----------------------------------------------------------------------------
\* The offset never goes back while the program runs.
THEOREM OffsetNeverGoesBack == Spec => OffsetMonotone
<1>1. ASSUME IInv, [Next]_vars, restarts' = restarts
      PROVE  lastProcessedOffset' >= lastProcessedOffset
  <2>1. TypeOK /\ BatchAhead /\ lastProcessedOffset \in Nat
    BY <1>1, PlacesType DEF IInv, Pipeline
  <2>2. CASE CompleteBatch
    <3>1. CASE messages = <<>>
      BY <2>1, <2>2, <3>1 DEF CompleteBatch, EndPass
    <3>2. CASE messages # <<>>
      <4>1. messages \in Seq(Offsets) /\ Len(messages) \in 1..Len(messages)
        BY <2>1, <3>2, EmptySeq DEF TypeOK, PopulatorTypeOK
      <4>2. messages[Len(messages)] \in Elements(messages)
        BY <4>1 DEF Elements
      <4>3. lastProcessedOffset' > lastProcessedOffset
        BY <2>1, <2>2, <3>2, <4>2 DEF CompleteBatch, EndPass, BatchAhead
      <4> QED
        BY <2>1, <4>2, <4>3, PlacesType, <2>2, <3>2 DEF CompleteBatch, EndPass
    <3> QED
      BY <3>1, <3>2
  <2>3. CASE ~CompleteBatch
    <3>1. ~Restart
      BY <1>1, <2>1 DEF Restart, TypeOK
    <3>2. lastProcessedOffset' = lastProcessedOffset
      BY <1>1, <2>3, <3>1 DEF Next, Insert, Operate, Populate, Process, ProcessMessage, popVars,
         StartPopulator, CancelPopulator, Tick, PausePopulator, AcceptBatch, SendMessage,
         SendFails, ExitPopulator, vars
    <3> QED
      BY <2>1, <3>2
  <2> QED
    BY <2>2, <2>3
<1> QED
  BY <1>1, InductiveInvariant, PTL DEF Spec, OffsetMonotone

-----------------------------------------------------------------------------
(***************************************************************************)
(* Starvation, which the run fetch_fits comes upon: how lasting it is.     *)
(***************************************************************************)

\* More rows make no smaller page.
LEMMA PageSizeGrows ==
    ASSUME NEW larger \in SUBSET Offsets, NEW rows \in SUBSET larger, NEW limit \in Nat
    PROVE  PageSize(rows, limit) <= PageSize(larger, limit)
<1>1. IsFiniteSet(Offsets)
  BY StoreAssumption, FS_Interval DEF Offsets
<1>2. IsFiniteSet(larger)
  BY <1>1, FS_Subset
<1>3. Cardinality(rows) \in Nat /\ Cardinality(larger) \in Nat
      /\ Cardinality(rows) <= Cardinality(larger)
  BY <1>2, FS_Subset, FS_CardinalityType
<1> QED
  BY <1>3 DEF PageSize

\* A page that the query returns is as long as its size says.
LEMMA PageLength ==
    ASSUME NEW offset, NEW s, NEW limit \in Nat, NEW page \in ListByOffset(offset, s, limit)
    PROVE  Len(page) = PageSize(Matching(offset, s), limit)
<1> DEFINE size == PageSize(Matching(offset, s), limit)
<1>1. size \in Nat
  BY PageSizeType DEF Matching
<1>2. DOMAIN page = 1..size
  BY DEF ListByOffset
<1>3. page \in Seq(Offsets) /\ DOMAIN page = 1..Len(page)
  BY PageProperties, LenProperties
<1>4. Len(page) = size
  <2> HIDE DEF size
  <2> QED
    BY <1>1, <1>2, <1>3, LenProperties
<1> QED
  BY <1>4

\* The processor changes no row above the offset while the batch is empty or
\* waits for room.
LEMMA ProcessorStaysBelow ==
    ASSUME IInv, Starved, NEW m \in Offsets, ProcessMessage(m)
    PROVE  Starved'
<1>1. task[m] # "none" /\ UNCHANGED popVars
  BY DEF ProcessMessage, BeginTx, NotificationSent, NotificationFails, NotificationPanics,
     TxUpdate, SetMessageDelivered, SetMessageDeliveredFails, Commit, CommitFails, MarkFailed
<1>2. m <= lastProcessedOffset
  <2>1. Reached = lastProcessedOffset
    BY DEF Starved, Reached, IInv, TypeOK, PopulatorTypeOK
  <2> QED
    BY <1>1, <2>1 DEF IInv, Pipeline, NothingBeyond, Started
<1>3. \A n \in Offsets \ {m} : status'[n] = status[n]
  BY DEF ProcessMessage, BeginTx, NotificationSent, NotificationFails, NotificationPanics,
     TxUpdate, SetMessageDelivered, SetMessageDeliveredFails, Commit, CommitFails, MarkFailed,
     Update, IInv, TypeOK, StoreTypeOK
<1>4. m \in Nat /\ lastProcessedOffset \in Nat
  BY StoreAssumption DEF Offsets, IInv, TypeOK, PopulatorTypeOK
<1>5. Matching(lastProcessedOffset, "PENDING")' = Matching(lastProcessedOffset, "PENDING")
  <2>1. lastProcessedOffset' = lastProcessedOffset
    BY <1>1 DEF popVars
  <2>2. \A n \in Offsets : n > lastProcessedOffset => status'[n] = status[n]
    BY <1>2, <1>3, <1>4, StoreAssumption DEF Offsets
  <2> QED
    BY <2>1, <2>2 DEF Matching
<1> QED
  BY <1>1, <1>5 DEF Starved, popVars, PageSize

LEMMA StarvationLasts == IInv /\ Starved /\ [Next]_vars => Starved'
<1> SUFFICES ASSUME IInv, Starved, [Next]_vars PROVE Starved'
  OBVIOUS
<1> DEFINE rows(offset) == Matching(offset, "PENDING")
<1>1. /\ lastProcessedOffset \in Nat /\ MaxRecordsPerRead \in Nat /\ MessageChannelSize \in Nat
      /\ PageSize(rows(lastProcessedOffset), MaxRecordsPerRead) > MessageChannelSize
      /\ Len(messages) \in Nat
  BY PlacesType, PopulatorAssumption, ChannelAssumption, LenProperties
     DEF Starved, IInv, TypeOK, PopulatorTypeOK
<1>2. ASSUME rows(lastProcessedOffset) \subseteq rows(lastProcessedOffset)'
      PROVE  PageSize(rows(lastProcessedOffset), MaxRecordsPerRead)' > MessageChannelSize
  <2>1. rows(lastProcessedOffset)' \in SUBSET Offsets /\ rows(lastProcessedOffset) \in SUBSET Offsets
    BY DEF Matching
  <2>2. /\ PageSize(rows(lastProcessedOffset), MaxRecordsPerRead) \in Nat
        /\ PageSize(rows(lastProcessedOffset)', MaxRecordsPerRead) \in Nat
        /\ PageSize(rows(lastProcessedOffset), MaxRecordsPerRead)
              <= PageSize(rows(lastProcessedOffset)', MaxRecordsPerRead)
    BY <1>1, <1>2, <2>1, PageSizeGrows, PageSizeType
  <2> HIDE DEF rows
  <2> QED
    BY <1>1, <2>2 DEF PageSize
<1>3. ASSUME NEW m \in Offsets, Insert(m) PROVE Starved'
  <2>1. rows(lastProcessedOffset) \subseteq rows(lastProcessedOffset)'
    BY <1>3 DEF Insert, Create, Visible, Matching, popVars, IInv, TypeOK, StoreTypeOK
  <2> QED
    BY <1>2, <1>3, <2>1 DEF Starved, Insert, popVars
<1>4. CASE Restart
  <2>1. rows(lastProcessedOffset) \subseteq rows(lastProcessedOffset)'
    BY <1>1, <1>4, StoreAssumption DEF Restart, RebootPopulator, Matching, Offsets
  <2> QED
    BY <1>2, <1>4, <2>1 DEF Starved, Restart, RebootPopulator
<1>5. CASE Operate \/ Process \/ UNCHANGED vars
  BY <1>5 DEF Operate, StartPopulator, CancelPopulator, StartProcessor, CancelProcessor,
     Process, ReceiveMessage, SpawnTask, BeginDrain, ExitProcessor, DropCancelled, LimiterFails,
     Starved, Matching, PageSize, popVars, vars
<1>6. CASE Populate
  <2>1. UNCHANGED status
    BY <1>6 DEF Populate, Tick, PausePopulator, AcceptBatch, SendMessage, SendFails,
       CompleteBatch, EndPass, ExitPopulator
  <2>2. CASE Tick
    <3>1. messages' = <<>> \/ messages' \in ListByOffset(lastProcessedOffset, "PENDING", MaxRecordsPerRead)
      BY <2>2 DEF Tick, Fetched
    <3>2. messages' # <<>> => Len(messages') > MessageChannelSize
      BY <1>1, <3>1, PageLength
    <3> QED
      BY <2>1, <2>2, <3>2 DEF Tick, Starved, Matching, PageSize
  <2>3. CASE PausePopulator \/ ExitPopulator
    BY <2>1, <2>3 DEF PausePopulator, ExitPopulator, Starved, Matching, PageSize
  <2>4. CASE AcceptBatch
    <3>1. messages = <<>>
      BY <1>1, <2>4, PlacesType DEF AcceptBatch, AvailableArea, Starved, IInv, TypeOK, ChannelTypeOK
    <3> QED
      BY <2>1, <2>4, <3>1 DEF AcceptBatch, Starved, Matching, PageSize
  <2>5. CASE SendMessage \/ SendFails
    <3>1. messages # <<>> /\ popPc = "send"
      BY <2>5, EmptySeq DEF SendMessage, SendFails, Sending, IInv, TypeOK, PopulatorTypeOK
    <3> QED
      BY <3>1 DEF Starved
  <2>6. CASE CompleteBatch
    <3>1. messages = <<>>
      BY <2>6 DEF CompleteBatch, EndPass, Starved
    <3> QED
      BY <2>1, <2>6, <3>1 DEF CompleteBatch, EndPass, Starved, Matching, PageSize
  <2> QED
    BY <1>6, <2>2, <2>3, <2>4, <2>5, <2>6 DEF Populate
<1>7. ASSUME NEW m \in Offsets, ProcessMessage(m) PROVE Starved'
  BY <1>7, ProcessorStaysBelow
<1> QED
  BY <1>3, <1>4, <1>5, <1>6, <1>7 DEF Next

\* A page that does not fit into the channel starves the populator for good,
\* against what populator.go:91 says of the fetch.
THEOREM StarvationIsPermanent == Spec => StarvationIsFinal
  BY StarvationLasts, InductiveInvariant, PTL DEF Spec, StarvationIsFinal
=============================================================================
