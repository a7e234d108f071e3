CONSTANTS
    Assessments = {"exam", "project"}
    Learners = {l1, l2}
    SchemaRequired = {"exam"}
    Settled = {"project"}
    Schemas = {s1, s2}
    ListOrder <- MCListOrder
    Scopes <- MCScopes
    MaxChanges = 2
    MaxReports = 1
    Cohorts = {"c1", "c2"}
    Areas = {"math", "english"}
    Tests = {"algebra1", "algebra2", "essay"}
    CohortOf <- MCCohortOf
    AreaOf <- MCAreaOf
    Students = {"amy", "zoe"}
    ClassOf <- MCClassOf
    Placements <- MCPlacements
    Volatile <- MCVolatile
    MaxEvents = 1
SPECIFICATION DeskSpec
SYMMETRY Pupils
CHECK_DEADLOCK FALSE
INVARIANTS
    ReportsAreWhole
    ShownWasTrue
    KeptAuthorityIsServed
PROPERTIES
    EntersInOrder
