SPECIFICATION Spec
CONSTANTS
    NoTs = NoTs
    App = {a, x}
    Excluded = {x}
    NoApp = NoApp
    Reason = {r}
    NoReason = NoReason
    Suppress = TRUE
    Inputs = {"focus", "input", "process", "notice", "entered", "exited"}
    Commands = {"forget", "erase"}
    Faults = {"busy"}
    BatchSize = 2
    Threshold = 0
    Skews <- Steady
    MaxNow = 0
    ChannelBound = 2
    MaxCaptures = 3
    MaxCommands = 2
    MaxToggles = 1
    MaxRuns = 0
 
INVARIANT SeqsAccounted
INVARIANT HotRowsRedacted
CHECK_DEADLOCK FALSE
