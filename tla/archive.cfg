SPECIFICATION Spec
CONSTANTS
    None = None
    Faults = {"vacuum", "seal", "scrub", "rename", "delete", "session", "remove", "crash", "hurt"}
    MaxRows = 3
    MaxRuns = 3
    MaxHurts = 1
INVARIANT WhatOpensIsWhole
PROPERTY PlaintextReported
PROPERTY ImplementsLedger
CHECK_DEADLOCK FALSE
