CONSTANTS
    ann = ann
    ben = ben
    t = t
    h = h
    d = d
    low = low
    high = high
    c1 = c1
    c2 = c2
    p1 = p1
    NoOne = NoOne
    NoScore = NoScore
    Records = {ann}
    Requests = {1}
    Scores = {low, high}
    Users = {t, h}
    Teachers = {t}
    Hods = {h}
    AcademicHeads = {}
    InitialScore <- MCInitialScore
    Bandings <- MCBandings
    Movers = {}
    Compilers = {c1, c2}
    Reporters = {p1}
    MaxRuns = 3
    MaxLosses = 1
SPECIFICATION FairSpec
CHECK_DEADLOCK FALSE
INVARIANTS
    FreshnessIsTrue
    OnlyOverlapHidesACorrection
    CompletionAnnouncedUnlessLost
PROPERTIES
    ReportsMissOnlyTheirOwnRace
    CompilationEnds
