SPECIFICATION Spec
CONSTANTS
    None = None
    Days = 1
    MouseDays = 1
    Batch = 1
    Ops = {"prune", "events", "recording", "erase"}
    Times = {1, 3}
    MaxRows = 3
    MaxBoots = 2
    MaxRecs = 1
    MaxLost = 1
    MaxSets = 1
    MaxUpsets = 1
INVARIANT Intact
INVARIANT NoFalseAlarm
INVARIANT LossShown
INVARIANT PreviewExact
PROPERTY RecentKept
CHECK_DEADLOCK FALSE
