\* Two uploads to one destination, two handlers at a time, one part.
SPECIFICATION Spec
CONSTANTS
    Uploads = {u1, u2}
    NoUpload = NoUpload
    Reqs = {r1, r2}
    MaxParts = 1
    Sizes = {1}
    UrlTTL = 0
    LeaseAge = 1
    StagingAge = 2
    AssemblyBound = 1
    MaxFaults = 1
SYMMETRY Symmetry
INVARIANTS
    TypeOK
    ExclusiveFinalizer
    ProgressHasOpenUpload
