\* Two sbomber processes look up overlapping sets of three CVEs, of which one
\* has no score, while the entries written at the start expire.
SPECIFICATION Spec
CONSTANTS
    Procs = {p, q}
    Cves = {c1, c2, c3}
    Scored = {c1, c2}
    Wants = {{c1, c2}, {c2, c3}}
    BatchSize = 1
    TTL = 1
    MaxClock = 1
    MayDie = TRUE
INVARIANTS
    SuccessMeansAll
    CacheKeepsFetched
PROPERTIES
    ServedWasFetched
CHECK_DEADLOCK FALSE
