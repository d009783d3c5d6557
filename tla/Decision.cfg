SPECIFICATION Spec
CONSTANTS
    Wide = TRUE
    MaxUnanalysed = 2
    MaxObservations = 2
    Findings <- MCFindings
    ScanFindings <- MCScanFindings
    Symbols <- MCSymbols
    Occurrences <- MCOccurrences
    PURLs <- MCPURLs
    Packages <- MCPackages
    ObservationIds <- MCObservationIds
    Headers <- MCHeaders
    LocalisationResults <- MCLocalisationResults
    UnanalysedEntries <- MCUnanalysedEntries
    Observations <- MCObservations
INVARIANTS
    ExportNeverRejects
    ValidatorAcceptsAnalysed
    NegativeIsEarned
    UsageIsWitnessed
    HighIsCorroborated
    JoinSummarises
PROPERTIES
    LedgerSpec
CHECK_DEADLOCK FALSE
