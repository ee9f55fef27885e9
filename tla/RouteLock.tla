----------------------------- MODULE RouteLock ------------------------------
(***************************************************************************)
(* What the request serializer promises: of the requests for one route,    *)
(* one is served at a time; requests for other routes do not matter.       *)
(***************************************************************************)
CONSTANTS Request, Route, RouteOf

VARIABLES
    serving,   \* the requests being served
    served     \* the requests that have been

vars == <<serving, served>>

Init == serving = {} /\ served = {}

Enter(r) ==
    /\ r \notin serving \cup served
    /\ \A q \in serving : RouteOf[q] # RouteOf[r]
    /\ serving' = serving \cup {r}
    /\ UNCHANGED served

Leave(r) ==
    /\ r \in serving
    /\ serving' = serving \ {r}
    /\ served' = served \cup {r}

Next == \E r \in Request : Enter(r) \/ Leave(r)

Spec == Init /\ [][Next]_vars
=============================================================================
