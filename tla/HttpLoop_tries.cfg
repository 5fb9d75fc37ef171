SPECIFICATION FairSpec
CONSTANTS
    Size = 2
    Codes = {200, 204, 206, 301, 304, 401, 404, 416, 500, 503, 504}
    MaxRuns = 1
    Opts <- TryOpts
    Disks <- TryDisks
    Sites <- AnySite
INVARIANTS LoopSound TimestampingUpdates
PROPERTIES Terminates
CHECK_DEADLOCK FALSE
