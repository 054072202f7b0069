SPECIFICATION Spec
CONSTANTS
    Contents <- MCContents
    Size <- MCSize
    Head64 <- MCHead64
    Extensions = {"jpg", "txt"}
    Types = {"jpg"}
    Limit = 2
    NoMaxSize = NoMaxSize
    MaxSizes = {1, NoMaxSize}
    MAX_LARGEST = 1
    TOP_LARGEST = 1
    MaxHashFiles = 3
    MaxEntries = 4
INVARIANTS
    SelectionIsExact
    ScanIsABeginning
    GroupsAddUp
    LargestAreTheLargest
    EstimateIsTrue
