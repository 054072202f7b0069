CONSTANTS
    Paths = {p1}
    Contents = {a, b}
    BatchSize = 1
    LateLanding = TRUE
    ClockStepsBack = FALSE
    MaxRuns = 2
    MaxEdits = 0
SPECIFICATION LateSpec
SYMMETRY Symmetry
INVARIANTS
    NoDoubleObservation
