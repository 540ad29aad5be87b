SPECIFICATION Spec
CONSTANTS
    p1 = p1
    p2 = p2
    p3 = p3
    t1 = t1
    t2 = t2
    t3 = t3
    Paths <- MCPaths
    Tests <- MCTests
    MaxRuns = 3
SYMMETRY MCSymmetry
CHECK_DEADLOCK FALSE
PROPERTY
    DeveloperFilesSurvive
