SPECIFICATION Spec
CONSTANTS
    Procs = {p1, p2}
    Stacks = {"none", "current", "old"}
    ConfiguredId = 0
    LegacyId = 1
    ConflictCarriesId = TRUE
    MaxRuns = 5
    MaxResets = 2
SYMMETRY Symmetry
INVARIANTS SuccessMeansReady CommandsWork CalmInitSucceeds
