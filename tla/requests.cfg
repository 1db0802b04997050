SPECIFICATION FairSpec
CONSTANTS
    Faults = {"expire", "invalid", "open", "mark", "close", "erase"}
    MaxAsked = 2
    MaxWindows = 1
    MaxUpsets = 1
INVARIANT StartedOnce
INVARIANT ConfirmedInStart
INVARIANT OnePrompt
INVARIANT CapStopsOwn
PROPERTY DecisionsFinal
PROPERTY RequestsSurface
CHECK_DEADLOCK FALSE
