SPECIFICATION Spec
CONSTANTS
    Wide = FALSE
    MaxUnanalysed = 2
    MaxObservations = 2
    Findings <- MCFindings
    ScanFindings <- MCScanFindings
    Symbols <- MCSymbols
    Occurrences <- MCOccurrences
    PURLs <- MCPURLs
    Packages <- MCPackages
    ObservationIds <- MCObservationIds
    Headers <- MCHeaders
    LocalisationResults <- MCLocalisationResults
    UnanalysedEntries <- MCUnanalysedEntries
    Observations <- MCObservations
INVARIANTS
    ValidatorAccepts
CHECK_DEADLOCK FALSE
