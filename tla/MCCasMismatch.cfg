CONSTANTS
    p1 = p1
    p2 = p2
    a = a
    b = b
    c = c
    NoMetadata = NoMetadata
    Paths = {p1, p2}
    Contents = {a, b, c}
    Size <- MCSize
    Known <- MCKnown
    InitialStores <- UploadedBefore
    Modes = {"ingest"}
    KeepsMetadata = TRUE
SPECIFICATION Spec
INVARIANTS
    MismatchIsReal
