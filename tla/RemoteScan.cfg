\* Trees of up to three manifests; a pool limited to one or two workers, or left
\* at its default of three (SetMaxConcurrency(0)).
SPECIFICATION LiveSpec
CONSTANTS
    Manifests = {go_mod, package_json, pom_xml}
    Limits = {0, 1, 2}
    DefaultLimit = 3
INVARIANTS
    Accounted
    StatusMeansWhatItSays
    NoGoroutineOutlives
PROPERTIES
    Terminates
    ReportSpec
CHECK_DEADLOCK FALSE
