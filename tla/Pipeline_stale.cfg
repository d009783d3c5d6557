SPECIFICATION Spec
CONSTANTS
    Rich = FALSE
    MaxEdits = 2
    MaxRuns = 5
    Findings <- MCFindings
    ScanFindings <- MCScanFindings
    Symbols <- MCSymbols
    Occurrences <- MCOccurrences
    PURLs <- MCPURLs
    Packages <- MCPackages
    ObservationIds <- MCObservationIds
    Repos <- MCRepos
    Dirs <- MCDirs
    OccurrenceInfo <- MCOccurrenceInfo
    Trees <- MCTrees
    Edited <- MCEdited
    LocalisationReports <- MCLocalisationReports
    Signals <- MCSignals
    Installed <- MCInstalled
    NameOrder <- MCNameOrder
    Filters <- MCFilters
INVARIANTS
    NegativesWereAnalysed
CHECK_DEADLOCK FALSE
