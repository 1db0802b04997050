SPECIFICATION Spec
CONSTANTS
    None = None
    Resets = {"erase", "archive"}
    MaxDrops = 3
    MaxResets = 2
    MaxRuns = 2
PROPERTY GrowsByLoss
CHECK_DEADLOCK FALSE
