\* One upload of up to two parts of two sizes, two handlers at a time.
SPECIFICATION Spec
CONSTANTS
    Uploads = {u1}
    NoUpload = NoUpload
    Reqs = {r1, r2}
    MaxParts = 2
    Sizes = {1, 2}
    UrlTTL = 0
    LeaseAge = 1
    StagingAge = 2
    AssemblyBound = 1
    MaxFaults = 1
SYMMETRY Symmetry
PROPERTIES
    TerminalIsFinal
    ImplementsContract
