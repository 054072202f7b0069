CONSTANTS
    None = None
    empty = empty
    photo = photo
    paper = paper
    film = film
    Contents <- MCContents
    Size <- MCSize
    MimeOf <- MCMimeOf
    Block <- MCBlock
    Files <- MCFiles
    Answers <- MCAnswers
    Sources = {s1, s2}
    MaxEdits = 1
    MaxRuns = 2
SPECIFICATION Spec
INVARIANTS
    RowsAreWritable
    RowIsOneObservation
    EachSourceIsCurrent
    SuggestionsFallBack
PROPERTIES
    ScanEnds
