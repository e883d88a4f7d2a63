SPECIFICATION OptSpec
CONSTANTS
    LONG_MAX = 1000000
    OptionSeqs <- MCOptionSeqs
    CpuCounts <- MCCpuCounts
    JobEstimates <- MCJobEstimates
    MAX_CACHE_LOCS = 2
    Given <- MCGiven
    CommandLines <- MCCommandLines
INVARIANTS
    JobsCapped
    PlainNumberObeyed
    InBounds
    LastOptionCounts
PROPERTY
    ScanEnds
CHECK_DEADLOCK FALSE
