-------------------------- MODULE SerializerProofs --------------------------
(***************************************************************************)
(* Proofs about RequestSerializer: for any requests and routes, a route's  *)
(* requests are served one at a time, and no others wait for them.         *)
(***************************************************************************)
EXTENDS RequestSerializer, TLAPS

LEMMA InitSInv == Init => SInv
  BY SerializerAssumption DEF Init, SInv, TypeOK, MutexOfRoute, LockedByOne

LEMMA LookupSInv ==
  ASSUME SInv, NEW r \in Requests, Lookup(r)
  PROVE  SInv'
<1> USE SerializerAssumption DEF SInv, Lookup, Goto, Obtain
<1>1. TypeOK'
  BY DEF TypeOK
<1>2. MutexOfRoute'
  BY DEF TypeOK, MutexOfRoute
<1>3. LockedByOne'
  BY DEF TypeOK, LockedByOne
<1> QED
  BY <1>1, <1>2, <1>3

LEMMA CreateSInv ==
  ASSUME SInv, NEW r \in Requests, Create(r)
  PROVE  SInv'
<1> USE SerializerAssumption DEF SInv, Goto, Obtain
<1>1. TypeOK'
  BY DEF TypeOK, Create
<1>2. MutexOfRoute'
  <2>1. CASE mutexes' = mutexes
    BY <2>1 DEF TypeOK, MutexOfRoute, Create
  <2>2. CASE /\ mutexes[RouteOf[r]] = NoMutex
             /\ mutexes' = [mutexes EXCEPT ![RouteOf[r]] = r]
             /\ mu' = [mu EXCEPT ![r] = r]
    BY <2>2 DEF TypeOK, MutexOfRoute, Create
  <2> QED
    BY <2>1, <2>2 DEF Create
<1>3. LockedByOne'
  BY DEF TypeOK, LockedByOne, Create
<1> QED
  BY <1>1, <1>2, <1>3

LEMMA LockSInv ==
  ASSUME SInv, NEW r \in Requests, Lock(r)
  PROVE  SInv'
<1> USE SerializerAssumption DEF SInv, Lock, Goto
<1>1. TypeOK'
  BY DEF TypeOK, MutexOfRoute
<1>2. MutexOfRoute'
  BY DEF TypeOK, MutexOfRoute
<1>3. LockedByOne'
  BY DEF TypeOK, LockedByOne
<1> QED
  BY <1>1, <1>2, <1>3

LEMMA UnlockSInv ==
  ASSUME SInv, NEW r \in Requests, Unlock(r)
  PROVE  SInv'
<1> USE SerializerAssumption DEF SInv, Unlock, Goto
<1>1. TypeOK'
  BY DEF TypeOK
<1>2. MutexOfRoute'
  BY DEF TypeOK, MutexOfRoute
<1>3. LockedByOne'
  BY DEF TypeOK, LockedByOne
<1> QED
  BY <1>1, <1>2, <1>3

LEMMA NextSInv == SInv /\ [Next]_vars => SInv'
<1> SUFFICES ASSUME SInv, [Next]_vars PROVE SInv'
  OBVIOUS
<1>1. CASE UNCHANGED vars
  BY <1>1 DEF vars, SInv, TypeOK, MutexOfRoute, LockedByOne
<1>2. CASE \E r \in Requests : Step(r)
  BY <1>2, LookupSInv, CreateSInv, LockSInv, UnlockSInv DEF Step
<1> QED
  BY <1>1, <1>2 DEF Next

\* The invariant of the serializer: a request has the mutex of its route, and
\* the mutex of one being served is locked (serialize.go:21-56).
THEOREM SerializerInvariant == Spec => []SInv
  BY InitSInv, NextSInv, PTL DEF Spec

\* One request at a time is served for a route (serialize.go:45).
THEOREM ServedOneAtATime == Spec => []OneAtATime
<1>1. SInv => OneAtATime
  BY DEF SInv, TypeOK, MutexOfRoute, LockedByOne, OneAtATime
<1> QED
  BY <1>1, SerializerInvariant, PTL

\* Requests for different routes have different mutexes (serialize.go:33-40).
THEOREM RoutesDoNotWait == Spec => []RoutesApart
<1>1. SInv => RoutesApart
  BY SerializerAssumption DEF SInv, TypeOK, MutexOfRoute, RoutesApart
<1> QED
  BY <1>1, SerializerInvariant, PTL

-----------------------------------------------------------------------------
LEMMA InitTurns == Init => Turns!Init
  BY DEF Init, Turns!Init, Serving, Served

LEMMA StepTurns ==
  ASSUME SInv, NEW r \in Requests, Step(r)
  PROVE  Turns!Next \/ UNCHANGED <<Serving, Served>>
<1> USE DEF SInv, TypeOK, Goto, Obtain, Serving, Served
<1>1. CASE Lookup(r) \/ Create(r)
  BY <1>1 DEF Lookup, Create
<1>2. CASE Lock(r)
  <2>1. Turns!Enter(r)
    <3>1. r \notin Serving \cup Served
      BY <1>2 DEF Lock
    <3>2. \A q \in Serving : RouteOf[q] # RouteOf[r]
      BY <1>2 DEF Lock, MutexOfRoute, LockedByOne
    <3>3. Serving' = Serving \cup {r} /\ Served' = Served
      BY <1>2 DEF Lock
    <3> QED
      BY <3>1, <3>2, <3>3 DEF Turns!Enter
  <2> QED
    BY <2>1 DEF Turns!Next
<1>3. CASE Unlock(r)
  <2>1. Turns!Leave(r)
    BY <1>3 DEF Unlock, Turns!Leave
  <2> QED
    BY <2>1 DEF Turns!Next
<1> QED
  BY <1>1, <1>2, <1>3 DEF Step

LEMMA NextTurns == SInv /\ [Next]_vars => [Turns!Next]_<<Serving, Served>>
<1> SUFFICES ASSUME SInv, [Next]_vars PROVE Turns!Next \/ UNCHANGED <<Serving, Served>>
  OBVIOUS
<1>1. CASE UNCHANGED vars
  BY <1>1 DEF vars, Serving, Served
<1>2. CASE \E r \in Requests : Step(r)
  BY <1>2, StepTurns
<1> QED
  BY <1>1, <1>2 DEF Next

\* The serializer implements a lock per route (serialize.go:45-58).
THEOREM SerializerImplementsRouteLock == Spec => ImplementsRouteLock
<1>1. SInv /\ [Next]_vars => [Turns!Next]_Turns!vars
  BY NextTurns DEF Turns!vars
<1> QED
  BY <1>1, InitTurns, SerializerInvariant, PTL DEF Spec, ImplementsRouteLock, Turns!Spec
=============================================================================
