SPECIFICATION Spec
CONSTANTS
    gap = gap
    doc = doc
    Callers <- MCCallers
    OneShot <- MCOneShot
    Slots = 1
    MaxAttempts = 2
    MaxTurns = 2
    CallsPerTurn = 2
    CallsPerRun = 2
    ResultChars = 2
    Notice = 1
    Lengths = {1, 3}
    Requests = {1, 3}
    MaxTries = 2
    MaxEscalations = 1
CHECK_DEADLOCK FALSE
INVARIANTS
    TypeOK
    SlotsConserved
    EveryCallAnswered
PROPERTY
    EveryCallerEnds
