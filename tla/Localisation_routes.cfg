SPECIFICATION Spec
CONSTANTS
    NoName = NoName
    NoFile = NoFile
    Whole = Whole
    NoExports = NoExports
    NoModel = NoModel
    Missing = Missing
    NoCommit = NoCommit
    NoRepo = NoRepo
    TooLarge = TooLarge
    MaxExactCells = 20
    Spellings = 3
    KindOfPath <- MCKindOfPath
    CommentLines <- MCCommentLines
    Short <- MCShort
    Ghsa <- MCGhsa
    WellFormed <- MCWellFormed
    Stopwords <- MCStopwords
    Scenarios <- PackageScenarios
INVARIANT ClosedIsExhaustive
CHECK_DEADLOCK FALSE
