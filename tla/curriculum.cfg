CONSTANTS
    c1 = c1
    v1 = v1
    v2 = v2
    s1 = s1
    a1 = a1
    w1 = w1
    w2 = w2
    ChangeSets = {c1}
    Versions = {v1, v2}
    Schools = {s1}
    Assessments = {a1}
    Workers = {w1, w2}
    Proposes <- MCProposes
    SchoolOf <- MCSchoolOf
    NoVersion = NoVersion
    MaxPublications = 2
    MaxCalls = 7
    Senders = {"east", "west"}
    Documents = {"circular"}
    Storages = {"upload"}
    Officers = {w1, w2}
    Claims <- MCClaims
    MaxEvidence = 3
    MaxSteps = 4
    Clerks = {w1, w2}
    Nobody = Nobody
    MaxCards = 2
    MaxSaves = 7
SPECIFICATION StorySpec
CHECK_DEADLOCK FALSE
SYMMETRY Callers
INVARIANTS
    TruthIsReviewed
    OnlyStaleObjectsOverrule
    GradedContextFrozen
    UseFollowsAdoption
    ApprovalFollowsCleanVerdict
    SharedOnlyByOverlap
    EvidenceAnnounced
    IssuedWhileVerified
    AcknowledgedOnce
PROPERTIES
    WithdrawalStopsNewUse
