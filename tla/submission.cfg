CONSTANTS
    a = a
    b = b
    c = c
    x = x
    y = y
    k = k
    s1 = s1
    w1 = w1
    w2 = w2
    NoEdit = NoEdit
    Saves = {a, b, c}
    Submits = {x, y}
    Sessions = {s1}
    Workers = {w1, w2}
    Keys = {a, b, c, k}
    KeyOf <- MCKeyOf
    MaxSent = 4
    MaxVersion = 3
    MaxLosses = 1
SPECIFICATION Spec
SYMMETRY Interchangeable
CHECK_DEADLOCK FALSE
INVARIANTS
    MarksAreOfficial
    AnnouncedUnlessLost
PROPERTIES
    VersionedSavesSeeWhatTheyReplace
    SubmittedDraftsAreKept
