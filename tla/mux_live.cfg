SPECIFICATION FairSpec
CONSTANTS
    Videos = {1, 2}
    Reqs = {1}
    JobIds = {1, 2}
    Batch = 1
    JobTimeout = 1
    StaleAge = 2
    MaxCrashes = 1
    MaxDbErrors = 1
    MaxEdits = 1
    MaxStops = 0
PROPERTIES
    ProcessingResolves
