CONSTANTS
    Scale = 10
    MaxInt = 100
    Inputs <- Starts
SPECIFICATION Spec
CHECK_DEADLOCK FALSE
INVARIANTS
    AcceptedUsable
    AskedIsKept
    WaitsAroundDoubling
    NeverShortensBelowMax
    TotalBounded
