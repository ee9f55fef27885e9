SPECIFICATION Spec
CONSTANTS
    Requests = {r1, r2}
    Main = main
    Nobody = nobody
    Faults = {"timeout"}
INVARIANTS StartTurnsOn
