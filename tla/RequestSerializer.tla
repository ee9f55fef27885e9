------------------------- MODULE RequestSerializer --------------------------
(***************************************************************************)
(* The middleware that serializes the requests for a route                 *)
(* (src/internal/middleware/serialize.go): a map from routes to mutexes,   *)
(* filled on demand.  mapMu makes the look-up one step and the creation    *)
(* another; a mutex is named by the request that has created it.           *)
(***************************************************************************)
CONSTANTS
    Requests,
    Routes,
    RouteOf,   \* the route of each request
    NoMutex    \* no entry in the map

ASSUME SerializerAssumption ==
    /\ RouteOf \in [Requests -> Routes]
    /\ NoMutex \notin Requests

VARIABLES
    mutexes,   \* the map
    pc,        \* of each request: the step it takes next
    mu,        \* of each request: the mutex getMutex has returned to it
    locked     \* the mutexes that are locked

vars == <<mutexes, pc, mu, locked>>

TypeOK ==
    /\ mutexes \in [Routes -> Requests \cup {NoMutex}]
    /\ pc \in [Requests -> {"lookup", "create", "lock", "serve", "done"}]
    /\ mu \in [Requests -> Requests \cup {NoMutex}]
    /\ locked \subseteq Requests

Init ==
    /\ mutexes = [k \in Routes |-> NoMutex]
    /\ pc = [r \in Requests |-> "lookup"]
    /\ mu = [r \in Requests |-> NoMutex]
    /\ locked = {}

-----------------------------------------------------------------------------
Goto(r, s) == pc' = [pc EXCEPT ![r] = s]

Obtain(r, m) ==
    /\ mu' = [mu EXCEPT ![r] = m]
    /\ Goto(r, "lock")

\* The look-up under mapMu.RLock.
Lookup(r) ==
    /\ pc[r] = "lookup"
    /\ \/ mutexes[RouteOf[r]] = NoMutex /\ Goto(r, "create") /\ UNCHANGED mu
       \/ mutexes[RouteOf[r]] # NoMutex /\ Obtain(r, mutexes[RouteOf[r]])
    /\ UNCHANGED <<mutexes, locked>>

\* Slips for mutation runs: no second look-up; an entry for every route.
CreateUnchecked(r) ==
    /\ pc[r] = "create"
    /\ mutexes' = [mutexes EXCEPT ![RouteOf[r]] = r]
    /\ Obtain(r, r)
    /\ UNCHANGED locked

CreateForAll(r) ==
    /\ pc[r] = "create"
    /\ mutexes' = [k \in Routes |-> r]
    /\ Obtain(r, r)
    /\ UNCHANGED locked

\* Under mapMu.Lock: the map is looked up again, as another request may have
\* made the entry in between.
Create(r) ==
    /\ pc[r] = "create"
    /\ \/ /\ mutexes[RouteOf[r]] # NoMutex
          /\ Obtain(r, mutexes[RouteOf[r]])
          /\ UNCHANGED mutexes
       \/ /\ mutexes[RouteOf[r]] = NoMutex
          /\ mutexes' = [mutexes EXCEPT ![RouteOf[r]] = r]
          /\ Obtain(r, r)
    /\ UNCHANGED locked

Lock(r) ==
    /\ pc[r] = "lock"
    /\ mu[r] \notin locked
    /\ locked' = locked \cup {mu[r]}
    /\ Goto(r, "serve")
    /\ UNCHANGED <<mutexes, mu>>

\* A slip for a mutation run: no Unlock.
UnlockNot(r) ==
    /\ pc[r] = "serve"
    /\ Goto(r, "done")
    /\ UNCHANGED <<mutexes, mu, locked>>

\* The deferred Unlock, after the handler has returned or panicked.
Unlock(r) ==
    /\ pc[r] = "serve"
    /\ locked' = locked \ {mu[r]}
    /\ Goto(r, "done")
    /\ UNCHANGED <<mutexes, mu>>

Step(r) == Lookup(r) \/ Create(r) \/ Lock(r) \/ Unlock(r)

AllDone == \A r \in Requests : pc[r] = "done"

Next ==
    \/ \E r \in Requests : Step(r)
    \/ AllDone /\ UNCHANGED vars

Spec == Init /\ [][Next]_vars

\* Handlers return, and a mutex that is free for good is not kept from a
\* request; as every request unlocks it once, no more is needed.
Fairness == \A r \in Requests : WF_vars(Step(r))

FairSpec == Spec /\ Fairness

-----------------------------------------------------------------------------
\* The comment of SerializeRequestsMiddleware: "ensures only one request at a
\* time can execute for a specific route" (serialize.go:45).
OneAtATime ==
    \A r, q \in Requests :
        pc[r] = "serve" /\ pc[q] = "serve" /\ RouteOf[r] = RouteOf[q] => r = q

\* Requests for different routes never wait for each other: they have
\* different mutexes (serialize.go:33-40).
RoutesApart ==
    \A r, q \in Requests :
        mu[r] # NoMutex /\ mu[r] = mu[q] => RouteOf[r] = RouteOf[q]

\* Every request gets its turn.
EveryoneServed == \A r \in Requests : pc[r] = "lookup" ~> pc[r] = "done"

Serving == {r \in Requests : pc[r] = "serve"}
Served  == {r \in Requests : pc[r] = "done"}

Turns == INSTANCE RouteLock
           WITH Request <- Requests, Route <- Routes, serving <- Serving, served <- Served

\* The serializer implements the promise of RouteLock.
ImplementsRouteLock == Turns!Spec

-----------------------------------------------------------------------------
(***************************************************************************)
(* What makes the invariants inductive.                                    *)
(***************************************************************************)

\* A request that has a mutex has that of its route, which never changes, and
\* a mutex in the map was made by a request for the route it is under.
MutexOfRoute ==
    /\ \A r \in Requests : mu[r] # NoMutex => mu[r] = mutexes[RouteOf[r]]
    /\ \A r \in Requests : pc[r] \in {"lock", "serve", "done"} => mu[r] # NoMutex
    /\ \A k \in Routes : mutexes[k] # NoMutex => RouteOf[mutexes[k]] = k

\* The mutex of a request being served is locked, by that request alone.
LockedByOne ==
    /\ \A r \in Requests : pc[r] = "serve" => mu[r] \in locked
    /\ \A r, q \in Requests :
          pc[r] = "serve" /\ pc[q] = "serve" /\ mu[r] = mu[q] => r = q

SInv == TypeOK /\ MutexOfRoute /\ LockedByOne
=============================================================================
