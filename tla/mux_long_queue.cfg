SPECIFICATION Spec
CONSTANTS
    Videos = {1, 2, 3, 4}
    Reqs = {1}
    JobIds = {1, 2, 3, 4, 5}
    Batch = 1
    JobTimeout = 1
    StaleAge = 2
    MaxCrashes = 0
    MaxDbErrors = 0
    MaxEdits = 0
    MaxStops = 0
INVARIANTS
    NoDuplicateWork
