---------------------------- MODULE Notification ----------------------------
(***************************************************************************)
(* What SendNotification promises its caller: the receiver sees each try   *)
(* of a call once at most, a call that succeeds has been seen, and one     *)
(* that fails may have been seen, before it fails or after.                *)
(***************************************************************************)
CONSTANTS Call, Try

VARIABLES
    outcome,   \* of each call: "open", "ok" or "error"
    seen       \* of each call: the tries that the receiver has seen

vars == <<outcome, seen>>

Init ==
    /\ outcome = [c \in Call |-> "open"]
    /\ seen = [c \in Call |-> {}]

Deliver(c) ==
    /\ \E n \in Try \ seen[c] : seen' = [seen EXCEPT ![c] = @ \cup {n}]
    /\ UNCHANGED outcome

Succeed(c) ==
    /\ outcome[c] = "open" /\ seen[c] # {}
    /\ outcome' = [outcome EXCEPT ![c] = "ok"]
    /\ UNCHANGED seen

Fail(c) ==
    /\ outcome[c] = "open"
    /\ outcome' = [outcome EXCEPT ![c] = "error"]
    /\ UNCHANGED seen

Next == \E c \in Call : Deliver(c) \/ Succeed(c) \/ Fail(c)

Spec == Init /\ [][Next]_vars
=============================================================================
