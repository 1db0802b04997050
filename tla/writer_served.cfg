SPECIFICATION FairSpec
CONSTANTS
    NoTs = NoTs
    App = {a}
    Excluded = {}
    NoApp = NoApp
    Reason = {r}
    NoReason = NoReason
    Suppress = TRUE
    Inputs = {"input", "action", "entered", "exited", "focus", "cut"}
    Commands = {"forget", "start", "stop", "erase", "archive"}
    Faults = {"close", "delete", "session"}
    BatchSize = 2
    Threshold = 0
    Skews <- Steady
    MaxNow = 0
    ChannelBound = 1
    MaxCaptures = 2
    MaxCommands = 2
    MaxToggles = 1
    MaxRuns = 0
PROPERTY CommandsServed
PROPERTY SuspensionEnds
CHECK_DEADLOCK FALSE
