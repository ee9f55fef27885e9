SPECIFICATION FairSpec
CONSTANTS
    r1 = r1
    r2 = r2
    r3 = r3
    r4 = r4
    startStop = startStop
    other = other
    NoMutex = none
    Requests <- MCRequests
    Routes <- MCRoutes
    RouteOf <- MCRouteOf
INVARIANTS SInv RoutesApart
PROPERTIES ImplementsRouteLock EveryoneServed
