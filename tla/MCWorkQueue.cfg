SPECIFICATION FairSpec
CONSTANTS
    NArgs = 2
    MaxEntries = 2
    Retvals <- MCRetvals
    Errnos <- MCErrnos
    OnlineCpus <- MCOnlineCpus
    Setups <- MCSetups
INVARIANTS
    JobBound
    Accounting
    NoOrphans
    FailureReported
    ContinuesOnError
PROPERTIES
    ErrorSticks
    PoolSpec
    Terminates
CHECK_DEADLOCK FALSE
