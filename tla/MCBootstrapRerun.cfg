SPECIFICATION Spec
CONSTANTS
    Procs = {p1}
    Stacks = {"none"}
    ConfiguredId = 0
    LegacyId = 0
    ConflictCarriesId = FALSE
    MaxRuns = 2
    MaxResets = 0
INVARIANT CalmInitSucceeds
