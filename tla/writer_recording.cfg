SPECIFICATION Spec
CONSTANTS
    NoTs = NoTs
    App = {a, x}
    Excluded = {x}
    NoApp = NoApp
    Reason = {r}
    NoReason = NoReason
    Suppress = TRUE
    Inputs = {"action"}
    Commands = {"start", "pause", "resume", "stop", "erase"}
    Faults = {"busy", "close"}
    BatchSize = 2
    Threshold = 0
    Skews <- Steady
    MaxNow = 1
    ChannelBound = 2
    MaxCaptures = 3
    MaxCommands = 3
    MaxToggles = 0
    MaxRuns = 1
INVARIANT PendingActionsOpen
INVARIANT NoActionPastPanic
INVARIANT GapMarkersApart
PROPERTY EndedSessionsFinal
CHECK_DEADLOCK FALSE
