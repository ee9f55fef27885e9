--------------------------- MODULE MessageLedger ----------------------------
(***************************************************************************)
(* What ulak promises about each message, without workers, channel or      *)
(* transactions.  Since the program last started a message is handled at   *)
(* most once; a row becomes SENT only for a message that has reached its   *)
(* receiver and whose delivery is recorded; SENT and FAILED are final.     *)
(***************************************************************************)
CONSTANTS Message, NewStatus

VARIABLES
    status,     \* of the row: "ABSENT", "PENDING", "SENT" or "FAILED"
    stage,      \* since the program started: "free", "claimed" or "closed"
    delivered,  \* messages that have reached the receiver
    recorded    \* messages with a delivery record

vars == <<status, stage, delivered, recorded>>

Init ==
    /\ status = [m \in Message |-> "ABSENT"]
    /\ stage = [m \in Message |-> "free"]
    /\ delivered = {}
    /\ recorded = {}

Insert(m) ==
    /\ status[m] = "ABSENT"
    /\ \E s \in NewStatus : status' = [status EXCEPT ![m] = s]
    /\ UNCHANGED <<stage, delivered, recorded>>

\* A pending message that has not been handled yet is taken up.
Claim(m) ==
    /\ status[m] = "PENDING" /\ stage[m] = "free"
    /\ stage' = [stage EXCEPT ![m] = "claimed"]
    /\ UNCHANGED <<status, delivered, recorded>>

\* The message reaches its receiver, possibly as the last thing done for it.
Post(m) ==
    /\ stage[m] = "claimed"
    /\ delivered' = delivered \cup {m}
    /\ stage' \in {stage, [stage EXCEPT ![m] = "closed"]}
    /\ UNCHANGED <<status, recorded>>

Record(m) ==
    /\ stage[m] = "claimed" /\ m \in delivered
    /\ recorded' = recorded \cup {m}
    /\ UNCHANGED <<status, stage, delivered>>

\* Handling ends: the row gets its final status, or stays pending.
Settle(m) ==
    /\ stage[m] = "claimed" /\ status[m] = "PENDING"
    /\ stage' = [stage EXCEPT ![m] = "closed"]
    /\ \/ m \in delivered \cap recorded /\ status' = [status EXCEPT ![m] = "SENT"]
       \/ status' = [status EXCEPT ![m] = "FAILED"]
       \/ UNCHANGED status
    /\ UNCHANGED <<delivered, recorded>>

\* The program starts afresh and may take up again what is still pending.
Restart ==
    /\ stage' = [m \in Message |-> "free"]
    /\ UNCHANGED <<status, delivered, recorded>>

Next ==
    \/ Restart
    \/ \E m \in Message :
          Insert(m) \/ Claim(m) \/ Post(m) \/ Record(m) \/ Settle(m)

Spec == Init /\ [][Next]_vars
=============================================================================
