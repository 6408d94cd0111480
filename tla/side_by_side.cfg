\* One component at a time, each on an instance of its own.
SPECIFICATION SideBySideSpec
CONSTANTS
    Puts = {p1, w1, seg}
    Workers = {w1}
    SegmentsDir = seg
    Reports = {r1, r2}
    Deletes = {d1}
    MaxSize = 2
    UrlAge = 0
    MaxFaults = 1
    Permits = 1
    PoolFaults = 1
    Names = {n1}
    Passwords = {p1, p2}
    NoPassword = NoPassword
    Signers = {s1, s2}
    KeyIds = {k1}
    NoKey = NoKey
    JwtTTL = 0
    Signups = TRUE
    CaptionIds = {c1, c2}
    WithFile = {c1, c2}
    NoCaption = NoCaption
    Editors = {e1, e2}
    Removers = {d1}
    CaptionFaults = 1
    CommentIds = {c1, c2, c3}
    NoComment = NoComment
    Authors = {a1, a2}
    Owner = a2
    Texts = {x1}
    Posters = {h1, h2}
    Marks = {m1}
    Togglers = {t1, t2}
    Browsers = {b1}
    Visitors = {v1, v2}
    NoVisitor = NoVisitor
    Watchers = {o1, o2}
    LastDay = 1
    Segments = {g1}
    Players = {p1}
    MaxBytes = 2
    MaxNumber = 3
    Missing = Missing
    Absent = Absent
    NoRange = NoRange
INVARIANTS
    CompletedHasFile
    PartsTypeOK
    SuccessIsProven
    OneDefault
    RowKeepsVtt
    DeletedLeavesNothing
    RepliesHaveThread
    DeletedStaysDeleted
    CountedOnce
    BodyIsTheRange
    UrlLeadsToFile
PROPERTIES
    ProgressNeverFalls
    OnlyFinishedEnds
    DefaultNotLost
    ImplementsList
    LoneToggleFlips
