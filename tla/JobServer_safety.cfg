CONSTANTS
    j1 = j1
    j2 = j2
    j3 = j3
    Jobs = {j1, j2, j3}
    MaxConcurrentJobs = 1
    MaxPendingJobs = 2
    MaxCrashes = 2
    DiskFaults = FALSE
SPECIFICATION OrderSpec
SYMMETRY JobSymmetry
INVARIANT TypeOK
INVARIANT SemaphoreExact
INVARIANT LiveJobKeepsInput
INVARIANT ReportsAreTrue
INVARIANT PendingBounded
INVARIANT OutcomeHasOutput
INVARIANT FirstComeFirstServed
PROPERTY ImplementsLifecycle
CHECK_DEADLOCK FALSE
