SPECIFICATION Spec
CONSTANTS
    App = {a, b}
    None = None
    Ops = {"lock", "suspend", "missed", "pause", "recording", "stop", "crash"}
    IdleAfter = 2
    MaxTime = 3
    MaxOps = 2
    MaxSwitches = 1
SYMMETRY Interchangeable
INVARIANT CreditedOnce
INVARIANT EveryMinuteCounted
INVARIANT SweepExact
CHECK_DEADLOCK FALSE
