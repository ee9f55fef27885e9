---------------------------- MODULE LedgerProofs ----------------------------
(***************************************************************************)
(* The pipeline of Delivery implements the promise of MessageLedger.       *)
(***************************************************************************)
EXTENDS DeliveryProofs

LEMMA InitRefines == Init => Ledger!Init
<1> SUFFICES ASSUME Init PROVE Ledger!Init
  OBVIOUS
<1>1. Stage = [m \in Offsets |-> "free"]
  BY DEF Init, ProcessorInit, Stage
<1> QED
  BY <1>1 DEF Init, StoreInit, ProcessorInit, Ledger!Init

\* A goroutine's step is a step of its message's ledger entry, or none.
LEMMA ProcessMessageRefines ==
    ASSUME IInv, NEW m \in Offsets, ProcessMessage(m)
    PROVE  Ledger!Next \/ UNCHANGED Ledger!vars
<1> DEFINE to(g) == [Stage EXCEPT ![m] = g]
<1>1. task[m] \in Working /\ Stage[m] = "claimed" /\ status[m] = "PENDING"
  <2>1. task[m] \in Working
    BY DEF ProcessMessage, BeginTx, NotificationSent, NotificationFails,
         NotificationPanics, TxUpdate, SetMessageDelivered, SetMessageDeliveredFails, Commit,
         CommitFails, MarkFailed, Working
  <2>2. Stage[m] = "claimed"
    BY <2>1 DEF Stage, Working
  <2>3. status[m] = "PENDING"
    BY <2>1 DEF IInv, Pipeline, CarriesPending, Active
  <2> QED
    BY <2>1, <2>2, <2>3
<1>2. ASSUME NEW s \in Working, Goto(m, s) PROVE Stage' = Stage
  BY <1>1, <1>2 DEF Goto, Stage, Working, IInv, TypeOK, ProcessorTypeOK
<1>3. ASSUME NEW s \in Finished, Goto(m, s) PROVE Stage' = to("closed")
  BY <1>1, <1>3 DEF Goto, Stage, Working, Finished, IInv, TypeOK, ProcessorTypeOK
<1>4. ASSUME Ledger!Post(m) \/ Ledger!Record(m) \/ Ledger!Settle(m)
      PROVE  Ledger!Next
  BY <1>4 DEF Ledger!Next
<1>5. CASE BeginTx(m) \/ TxUpdate(m)
  <2>1. UNCHANGED <<status, delivered, recorded>>
    BY <1>5 DEF BeginTx, TxUpdate
  <2>2. Stage' = Stage \/ Stage' = to("closed")
    BY <1>2, <1>3, <1>5 DEF BeginTx, TxUpdate, Working, Finished
  <2> QED
    BY <1>1, <1>4, <2>1, <2>2 DEF Ledger!vars, Ledger!Settle
<1>6. CASE NotificationSent(m) \/ NotificationFails(m) \/ NotificationPanics(m)
  <2>1. /\ UNCHANGED <<status, recorded>>
        /\ \/ delivered' = delivered
           \/ delivered' = delivered \cup {m}
    BY <1>6 DEF NotificationSent, NotificationFails, NotificationPanics
  <2>2. Stage' = Stage \/ Stage' = to("closed")
    BY <1>2, <1>3, <1>6 DEF NotificationSent, NotificationFails, NotificationPanics, Working, Finished
  <2> QED
    BY <1>1, <1>4, <2>1, <2>2 DEF Ledger!vars, Ledger!Settle, Ledger!Post
<1>7. CASE SetMessageDelivered(m) \/ SetMessageDeliveredFails(m)
  <2>1. /\ UNCHANGED <<status, delivered>> /\ m \in delivered
        /\ \/ recorded' = recorded
           \/ recorded' = recorded \cup {m}
    BY <1>7 DEF SetMessageDelivered, SetMessageDeliveredFails, IInv, ProgressIsReal
  <2>2. Stage' = Stage
    BY <1>2, <1>7 DEF SetMessageDelivered, SetMessageDeliveredFails, Working
  <2> QED
    BY <1>1, <1>4, <2>1, <2>2 DEF Ledger!vars, Ledger!Record
<1>8. CASE Commit(m) \/ CommitFails(m)
  <2>1. /\ UNCHANGED <<delivered, recorded>> /\ m \in delivered \cap recorded
        /\ \/ status' = status
           \/ status' = [status EXCEPT ![m] = "SENT"]
    BY <1>8 DEF Commit, CommitFails, Update, IInv, ProgressIsReal
  <2>2. Stage' = to("closed")
    BY <1>3, <1>8 DEF Commit, CommitFails, Finished
  <2> QED
    BY <1>1, <1>4, <2>1, <2>2 DEF Ledger!Settle
<1>9. CASE MarkFailed(m)
  <2>1. /\ UNCHANGED <<delivered, recorded>>
        /\ \/ status' = status
           \/ status' = [status EXCEPT ![m] = "FAILED"]
    BY <1>9 DEF MarkFailed, Update
  <2>2. Stage' = to("closed")
    BY <1>3, <1>9 DEF MarkFailed, Finished
  <2> QED
    BY <1>1, <1>4, <2>1, <2>2 DEF Ledger!Settle
<1> QED
  BY <1>5, <1>6, <1>7, <1>8, <1>9 DEF ProcessMessage

LEMMA StepRefines == IInv /\ [Next]_vars => [Ledger!Next]_(Ledger!vars)
<1> SUFFICES ASSUME IInv, [Next]_vars PROVE Ledger!Next \/ UNCHANGED Ledger!vars
  OBVIOUS
<1>1. ASSUME NEW m \in Offsets, Insert(m) PROVE Ledger!Next
  <2>1. Ledger!Insert(m)
    BY <1>1 DEF Insert, Create, Visible, procVars, Stage, Ledger!Insert, IInv, TypeOK, StoreTypeOK
  <2> QED
    BY <2>1 DEF Ledger!Next
<1>2. CASE Restart
  <2>1. Stage' = [m \in Offsets |-> "free"]
    BY <1>2 DEF Restart, RebootProcessor, Stage
  <2>2. Ledger!Restart
    BY <1>2, <2>1 DEF Restart, RebootProcessor, Ledger!Restart
  <2> QED
    BY <2>2 DEF Ledger!Next
<1>3. CASE SpawnTask
  <2>1. held \in Offsets /\ Held = {held} /\ status[held] = "PENDING"
    BY <1>3 DEF SpawnTask, Held, IInv, TypeOK, ProcessorTypeOK, Pipeline, CarriesPending
  <2>2. task[held] = "none"
    <3>1. \A n \in Started : n < held /\ n \in Nat
      BY <2>1, PlacesType DEF IInv, Pipeline, SentInOrder
    <3> QED
      BY <2>1, <3>1 DEF Started
  <2>3. Stage[held] = "free"
    BY <2>1, <2>2 DEF Stage
  <2>4. Stage' = [Stage EXCEPT ![held] = "claimed"]
    BY <1>3, <2>1 DEF SpawnTask, Stage, Working, IInv, TypeOK, ProcessorTypeOK
  <2>5. Ledger!Claim(held)
    BY <1>3, <2>1, <2>3, <2>4 DEF SpawnTask, Ledger!Claim
  <2> QED
    BY <2>1, <2>5 DEF Ledger!Next
<1>4. CASE UNCHANGED <<status, task, delivered, recorded>>
  BY <1>4 DEF Ledger!vars, Stage
<1>5. CASE Process /\ ~SpawnTask
  BY <1>4, <1>5 DEF Process, ReceiveMessage, BeginDrain, ExitProcessor, DropCancelled, LimiterFails
<1>6. CASE Operate
  BY <1>4, <1>6 DEF Operate, StartPopulator, CancelPopulator, StartProcessor, CancelProcessor,
     procVars
<1>7. CASE Populate
  BY <1>4, <1>7 DEF Populate, Tick, PausePopulator, AcceptBatch, SendMessage, SendFails,
     CompleteBatch, EndPass, ExitPopulator, procVars
<1>8. CASE UNCHANGED vars
  BY <1>4, <1>8 DEF vars, procVars
<1> QED
  BY <1>1, <1>2, <1>3, <1>5, <1>6, <1>7, <1>8, ProcessMessageRefines DEF Next

\* Whatever the workers, the operator and the faults do, each message is
\* handled at most once in a run of the program, becomes SENT only once it has
\* reached its receiver and is recorded, and keeps its final status.
THEOREM PipelineImplementsLedger == Spec => ImplementsLedger
<1> QED
  BY InitRefines, StepRefines, InductiveInvariant, PTL
     DEF Spec, ImplementsLedger, Ledger!Spec
=============================================================================
