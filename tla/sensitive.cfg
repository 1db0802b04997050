SPECIFICATION FairSpec
CONSTANTS
    Contexts = {desktop}
    Password = password
    Suspenders = {"pause", "record"}
    Faults = {"drain", "row", "reply"}
    ChannelBound = 2
    MaxTransitions = 3
    MaxSuspends = 2
    MaxResumes = 1
    MaxRows = 1
INVARIANT ProtectedRowsSuppressed
INVARIANT PolicyAgrees
PROPERTY GateReopens
PROPERTY ResumeEnds
CHECK_DEADLOCK FALSE
