SPECIFICATION Spec
CONSTANTS
    Opts <- MCOpts
    SAVED_LOG_LINES = 2
    MaxMessages = 4
    MaxSignals = 2
    MaxSwitches = 2
INVARIANTS LogKept
CHECK_DEADLOCK FALSE
