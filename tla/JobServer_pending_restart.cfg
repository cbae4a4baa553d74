CONSTANTS
    j1 = j1
    j2 = j2
    Jobs = {j1, j2}
    MaxConcurrentJobs = 1
    MaxPendingJobs = 2
    MaxCrashes = 1
    DiskFaults = FALSE
SPECIFICATION FairSpec
PROPERTY PendingEventuallyStarts
CHECK_DEADLOCK FALSE
