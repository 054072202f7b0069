CONSTANTS
    Paths = {p1}
    Contents = {a, b}
    BatchSize = 1
    LateLanding = TRUE
    ClockStepsBack = TRUE
    MaxRuns = 3
    MaxEdits = 2
SPECIFICATION OSpec
SYMMETRY Symmetry
INVARIANTS
    BothRecorded
    NothingOverclaims
    LoneRunIsSound
