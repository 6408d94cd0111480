SPECIFICATION Spec
CONSTANTS
    Videos = {1, 2}
    Reqs = {1, 2}
    JobIds = {1, 2}
    Batch = 1
    JobTimeout = 1
    StaleAge = 2
    MaxCrashes = 1
    MaxDbErrors = 1
    MaxEdits = 1
    MaxStops = 1
INVARIANTS
    TypeOK
    NoDuplicateWork
    CompleteHasResult
PROPERTIES
    ImplementsMuxContract
    SettledAtExit
    NoClaimLost
