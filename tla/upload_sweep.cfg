\* The sweep against a claim taken while it runs: no fault is needed.
SPECIFICATION Spec
CONSTANTS
    Uploads = {u1}
    NoUpload = NoUpload
    Reqs = {r1, r2}
    MaxParts = 1
    Sizes = {1}
    UrlTTL = 0
    LeaseAge = 1
    StagingAge = 2
    AssemblyBound = 1
    MaxFaults = 0
PROPERTIES
    FinalizingPreserved
