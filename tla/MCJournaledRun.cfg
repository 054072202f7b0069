CONSTANTS
    NumFiles = 5
    Concurrency = 2
    BatchSize = 2
    HasCommitter = TRUE
SPECIFICATION JFairSpec
INVARIANTS
    Accounting
    StagesAgree
    RowsConserved
    MissingRowsBounded
    ReportIsTrue
    BooksAgree
    JournalUnderReports
    ClosedJournalIsTrue
PROPERTIES
    RunEnds
    FailureIsFinal
    ImplementsLedger
