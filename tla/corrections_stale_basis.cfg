CONSTANTS
    ann = ann
    ben = ben
    t = t
    h = h
    d = d
    low = low
    high = high
    NoOne = NoOne
    NoScore = NoScore
    Records = {ann}
    Requests = {1, 2}
    Scores = {low, high}
    Users = {t, h, d}
    Teachers <- MCTeachers
    Hods = {h}
    AcademicHeads = {d}
    InitialScore <- MCInitialScore
    Bandings <- MCBandings
    Movers = {ann}
SPECIFICATION CorrectionSpec
CHECK_DEADLOCK FALSE
PROPERTIES
    AppliesToReviewedState
