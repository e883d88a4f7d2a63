SPECIFICATION Spec
CONSTANTS
    NProfiles = 2
    Actions <- MCActions
    OptionSets <- MCOptionSets
    Links <- MCLinks
    Entries <- MCEntries
    HasHats <- MCHasHats
INVARIANTS
    LoadsAreRight
    ReportsAreTrue
    CacheAsAllowed
CHECK_DEADLOCK FALSE
