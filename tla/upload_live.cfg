\* Liveness on one upload of one part: no symmetry, weak fairness of the server.
SPECIFICATION FairSpec
CONSTANTS
    Uploads = {u1}
    NoUpload = NoUpload
    Reqs = {r1, r2}
    MaxParts = 1
    Sizes = {1}
    UrlTTL = 0
    LeaseAge = 1
    StagingAge = 2
    AssemblyBound = 1
    MaxFaults = 2
PROPERTIES
    StagingReclaimed
    FinalizingResolves
