SPECIFICATION FairSpec
CONSTANTS
    a = a
    b = b
    box = box
    pane = pane
    App = {a, b}
    Self = Self
    Control = {box, pane}
    AppOf <- Owner
    Inputs <- Mixed
    Lanes = {"tray", "helper"}
    Faults = {"subscribe", "worker", "helper", "control", "app", "stall", "bridge", "clock"}
    Skews <- Ahead
    DedupWindow = 0
    ScrollQuiet = 1
    NoAction = NoAction
    Never = Never
    QueueBound = 2
    ChannelBound = 2
    PipeBound = 1
    MaxEvents <- Some
    MaxSwitches <- InTray
    MaxUpsets = 1
    MaxNow = 1
INVARIANT Faithful
INVARIANT PanicFence
PROPERTY RecordingEnds
CHECK_DEADLOCK FALSE
