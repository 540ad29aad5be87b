SPECIFICATION HistorySpec
CONSTANTS
    a1 = a1
    a2 = a2
    b = b
    c = c
    siteA = siteA
    siteB = siteB
    NoSite = NoSite
    Failures = {a1, a2, b, c}
    Site <- MCSite
    Magnitude <- MCMagnitude
    ParseBroken = {c}
    Writable = {siteA, siteB}
    Kept = {siteA}
    MaxAttempts = 4
    MaxRounds = 5
    RepeatStop = 3
    RecurrenceStop = 2
    NoProgressStop = 4
INVARIANTS
    TypeOK
    CountersMatchLog
    StopsOnlyWhereForced
    GraceIsOneRound
    RepeatsBounded
CHECK_DEADLOCK FALSE
