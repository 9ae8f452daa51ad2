CONSTANTS
    ThisYear = 1985
    Actors = {a1, a2, a3, a4}
    Numbers <- TwoDigitsVary
    MaxClock = 2
    MaxDocs = 3
    MaxRuns = 2
SPECIFICATION GenSpec
CHECK_DEADLOCK FALSE
INVARIANTS
    IdsUnique
    NeverPanics
    FieldsValid
