SPECIFICATION Spec
CONSTANTS
    c1 = c1
    c2 = c2
    g1 = g1
    g2 = g2
    NoCve = NoCve
    Cves = {c1, c2}
    Ghsas = {g1, g2}
    Published = {c1, g1}
    Listed = {c1}
    Scored = {c1, c2}
    Results <- MCResults
    Again <- Twice
    MapsTo <- MCMapsTo
    MaxLookups = 2
    MaxRegistry = 2
    BatchSize = 1
    Slots = 1
    Refusals = {"rate limited", "unavailable"}
    MaxRuns = 2
INVARIANTS
    NothingHidden
    ReportIsTheWorst
    OnlyItsOwn
PROPERTIES
    ReportsAccumulate
    Terminates
CHECK_DEADLOCK FALSE
