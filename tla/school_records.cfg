CONSTANTS
    ann = ann
    ben = ben
    t = t
    h = h
    d = d
    low = low
    high = high
    NoOne = NoOne
    NoScore = NoScore
    Records = {ann, ben}
    Requests = {1, 2}
    Scores = {low, high}
    Users = {t, h, d}
    Teachers <- MCTeachers
    Hods = {h}
    AcademicHeads = {d}
    InitialScore <- MCInitialScore
    Bandings <- MCBandings
    Movers = {ann}
    Schemas = {s1}
    GradedAssessments = {"test"}
    AssessmentType <- MCAssessmentType
    SchemaTypes = {"cat"}
    HasCbeContext = {"test"}
    Bands = {1, 2}
    Hundred = 4
    MaxScore = 2
    Admins = {w1, w2}
    NoSchema = NoSchema
    MaxSchemaCalls = 4
    Signups = {1, 2}
    Wants <- MCWants
    Lowered <- MCLowered
    NormalDomain <- MCNormalDomain
    Subdomain <- MCSubdomain
    NormalEmail <- MCNormalEmail
    Stem <- MCStem
    Suffixes = {1, 2}
    Invalid = Invalid
    Entries <- MCEntries
    Row <- MCRow
    Clerks = {1, 2}
    Staff = {"ms"}
    NoEntry = NoEntry
SPECIFICATION MatterSpec
CHECK_DEADLOCK FALSE
INVARIANTS
    FourEyes
    AuditTellsTheStory
    BandsStayTrue
    OnlyOverlapLosesDeprecation
    SchoolsStand
    RefusedForCause
    RegisterHolds
PROPERTIES
    ApprovedIsAppliedOrRefused
    KeepsTheLedger
    BindsWithdrawnOnlyByOverlap
    EveryRequestEnds
    AssignedUnboundOnlyByOverlap
