CONSTANTS
    j1 = j1
    j2 = j2
    Jobs = {j1, j2}
    MaxConcurrentJobs = 1
    MaxPendingJobs = 2
    MaxCrashes = 2
    DiskFaults = TRUE
SPECIFICATION FairSpec
INVARIANT TaskMatchesRecord
PROPERTY RunningEnds
PROPERTY InputEventuallyRemoved
CHECK_DEADLOCK FALSE
