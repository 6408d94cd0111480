\* One recording, two owners' requests and one unlock under one permit, three
\* changes of access.
SPECIFICATION AccessSpec
CONSTANTS
    Permits = 1
    PoolFaults = 1
    Videos = {v1}
    Passwords = {p1, p2}
    NoHash = NoHash
    Setters = {s1, s2}
    Unlockers = {u1}
    Viewers = {w1}
    AccessTTL = 0
    MediaTTL = 1
    MaxChanges = 3
SYMMETRY Symmetry
INVARIANTS
    AccessTypeOK
    HashJobsBounded
    CompatInStep
    CookieFitsPassword
    UrlsRunOut
PROPERTIES
    ImplementsLock
