\* No symmetry, as the properties are liveness properties.
SPECIFICATION LivenessSpec
CONSTANTS
    Puts = {p1}
    Reports = {}
    Deletes = {d1, d2}
    MaxSize = 1
    UrlAge = 0
    MaxFaults = 1
    Permits = 1
    PoolFaults = 1
    Names = {n1}
    Passwords = {p1}
    NoPassword = NoPassword
    Signers = {s1, s2}
    KeyIds = {k1}
    NoKey = NoKey
    JwtTTL = 0
    Signups = TRUE
    CaptionIds = {c1, c2}
    WithFile = {c1}
    NoCaption = NoCaption
    Editors = {e1, e2}
    Removers = {d1}
    CaptionFaults = 1
INVARIANTS
    RowKeepsFile
PROPERTIES
    SignInServed
    EditsEnd
    DeletionRepeatable
