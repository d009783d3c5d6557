SPECIFICATION Spec
CONSTANTS
    a1 = a1
    a2 = a2
    a3 = a3
    Advisories = {a1, a2, a3}
    WithCve = {a1, a2}
    Lists <- MCLists
    Affects <- MCAffects
    GrypeScans <- MCGrypeScans
    Cap = 4
    PageSize = 2
    Slots = 2
    Refusals = {"rate limited", "timed out", "unavailable"}
INVARIANTS
    OncePerAdvisory
    RefusalIsTold
    MergeKeepsAll
PROPERTIES
    Terminates
CHECK_DEADLOCK FALSE
