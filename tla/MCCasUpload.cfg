CONSTANTS
    p1 = p1
    p2 = p2
    a = a
    b = b
    c = c
    NoMetadata = NoMetadata
    Paths = {p1, p2}
    Contents = {a, b, c}
    Size <- MCSize
    Known <- MCKnown
    InitialStores <- TwoStores
    Modes = {"ingest", "dry_run", "offline"}
    KeepsMetadata = TRUE
SPECIFICATION FairSpec
INVARIANTS
    CasIntegrity
    RowHasItsBlob
    OneUploader
    RowIsOneVersion
    UnchangedIsKnown
PROPERTIES
    WriteOnce
    EveryFileEnds
