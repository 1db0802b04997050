SPECIFICATION Spec
CONSTANTS
    NoTs = NoTs
    App = {a}
    Excluded = {}
    NoApp = NoApp
    Reason = {r}
    NoReason = NoReason
    Suppress = TRUE
    Inputs = {"focus", "wake", "entered", "exited"}
    Commands = {"erase"}
    Faults = {}
    BatchSize = 2
    Threshold = 0
    Skews <- Backwards
    MaxNow = 2
    ChannelBound = 2
    MaxCaptures = 3
    MaxCommands = 1
    MaxToggles = 1
    MaxRuns = 0
INVARIANT TimestampsFollowSeqs
INVARIANT ErasedStaysErased
INVARIANT ContextsReemitted
CHECK_DEADLOCK FALSE
