\* One player and one file; nothing has to be replaced or deleted.
SPECIFICATION PlaybackSpec
CONSTANTS
    Segments = {}
    Players = {p1}
    MaxBytes = 2
    MaxNumber = 3
    Missing = Missing
    Absent = Absent
    NoRange = NoRange
INVARIANTS
    RefusedIsUnsatisfiable
