CONSTANTS
    c1 = c1
    v1 = v1
    v2 = v2
    s1 = s1
    a1 = a1
    w1 = w1
    w2 = w2
    ChangeSets = {c1}
    Versions = {v1, v2}
    Schools = {s1}
    Assessments = {a1}
    Workers = {w1}
    Proposes <- MCProposes
    SchoolOf <- MCSchoolOf
    NoVersion = NoVersion
    MaxPublications = 2
    MaxCalls = 5
SPECIFICATION Spec
CHECK_DEADLOCK FALSE
INVARIANTS
    OperationalIsAdopted
