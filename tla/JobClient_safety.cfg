SPECIFICATION FairSpec
CONSTANTS
    Clients = {"cli", "other"}
    Watched = "cli"
    None = None
    MaxUploads = 2
    MaxJobs = 2
    Files = 2
    MaxRetries = 3
    MaxDisturbances = 1
INVARIANT TypeOK
INVARIANT JobInputsAreTheirOwn
INVARIANT AcceptedUploadsAreKept
PROPERTY UploadDirsAreRemoved
PROPERTY RunEnds
CHECK_DEADLOCK FALSE
