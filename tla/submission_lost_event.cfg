CONSTANTS
    a = a
    b = b
    c = c
    x = x
    y = y
    k = k
    s1 = s1
    w1 = w1
    w2 = w2
    NoEdit = NoEdit
    Saves = {}
    Submits = {x}
    Sessions = {s1}
    Workers = {w1}
    Keys = {a, b, c, k}
    KeyOf <- MCKeyOf
    MaxSent = 1
    MaxVersion = 1
    MaxLosses = 1
SPECIFICATION FairSpec
CHECK_DEADLOCK FALSE
PROPERTIES
    BatchIsAnnounced
