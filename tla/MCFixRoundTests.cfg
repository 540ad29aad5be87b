SPECIFICATION Spec
CONSTANTS
    g1 = g1
    g2 = g2
    b = b
    o = o
    stray = stray
    Generated = {g1, g2}
    Baseline = {b}
    Others = {o}
    Strays = {stray}
    Alias <- MCAlias
    MaxTests = 2
    AllowReduction = FALSE
    SignatureOnly = FALSE
    MaxAttempts = 3
    MaxRounds = 3
    ReplyFiles = 2
PROPERTIES
    TestsKept
CHECK_DEADLOCK FALSE
