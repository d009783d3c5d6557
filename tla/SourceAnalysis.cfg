SPECIFICATION Spec
CONSTANTS
    NoName = NoName
    Computed = Computed
    Untracked = Untracked
    Reexported = Reexported
    NoUse = NoUse
    NoCallee = NoCallee
    OtherValue = OtherValue
    Synthetic = Synthetic
    ModuleName = ModuleName
    NoExt = NoExt
    NoEntry = NoEntry
    NoSymbol = NoSymbol
    NoParent = NoParent
    Applications <- MCApplications
INVARIANTS
    NothingUnrecorded
    CallsAreTheirImports
    PathsAreCalls
    PathsAreShortest
CHECK_DEADLOCK FALSE
