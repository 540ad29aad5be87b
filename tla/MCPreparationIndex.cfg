SPECIFICATION PrepSpec
CONSTANTS
    html = html
    jsx = jsx
    None = None
    Templates <- MCTemplates
    Sources <- MCSources
    Own <- MCOwn
    MaxRuns = 2
    MaxEdits = 1
CHECK_DEADLOCK FALSE
INVARIANT
    InventoryReflectsThePass
