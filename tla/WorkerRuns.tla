----------------------------- MODULE WorkerRuns -----------------------------
(***************************************************************************)
(* What the lifecycle promises to the rest of the system, and all that the *)
(* module Delivery assumes of it: a worker is off, on, or cancelled and    *)
(* not yet returned; it is started only when it is off; only a worker that *)
(* is cancelled, or one that may fail, goes off; and nothing brings a      *)
(* cancelled run back.                                                     *)
(***************************************************************************)
CONSTANTS
    Worker,
    MayFail   \* the workers whose run may end by itself

VARIABLES
    run,      \* of each worker: "off", "on" or "cancelled"
    ending,   \* the program is ending: every run is a cancelled one
    closed    \* the channel is closed

vars == <<run, ending, closed>>

Init ==
    /\ run = [w \in Worker |-> "on"]
    /\ ending = FALSE
    /\ closed = FALSE

Start(w) ==
    /\ run[w] = "off"
    /\ run' = [run EXCEPT ![w] = IF ending THEN "cancelled" ELSE "on"]
    /\ UNCHANGED <<ending, closed>>

Cancel(w) ==
    /\ run[w] = "on"
    /\ run' = [run EXCEPT ![w] = "cancelled"]
    /\ UNCHANGED <<ending, closed>>

Return(w) ==
    /\ run[w] = "cancelled" \/ (run[w] = "on" /\ w \in MayFail)
    /\ run' = [run EXCEPT ![w] = "off"]
    /\ UNCHANGED <<ending, closed>>

End ==
    /\ ending' = TRUE
    /\ run' = [w \in Worker |-> IF run[w] = "off" THEN "off" ELSE "cancelled"]
    /\ UNCHANGED closed

Close ==
    /\ ending
    /\ closed' = TRUE
    /\ UNCHANGED <<run, ending>>

Next ==
    \/ \E w \in Worker : Start(w) \/ Cancel(w) \/ Return(w)
    \/ End
    \/ Close

Spec == Init /\ [][Next]_vars
=============================================================================
