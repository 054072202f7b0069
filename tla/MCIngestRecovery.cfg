CONSTANTS
    Paths = {p1, p2}
    Contents = {a, b}
    BatchSize = 1
    LateLanding = FALSE
    ClockStepsBack = FALSE
    MaxRuns = 3
    MaxEdits = 1
SPECIFICATION Spec
SYMMETRY Symmetry
INVARIANTS
    NoDoubleObservation
    CompletedIsCurrent
    ReconciledIsAFact
    ListingIsTrue
PROPERTIES
    HistoryOnlyGrows
