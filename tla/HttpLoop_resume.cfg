SPECIFICATION Spec
CONSTANTS
    Size = 3
    Codes = {200, 206, 301, 401, 404, 416, 503, 504}
    MaxRuns = 2
    Opts <- ResumeOpts
    Disks <- Resumable
    Sites <- AnySite
INVARIANTS PrefixOnly SavedWhole ResumesAtEnd
PROPERTIES KeepsFiles
CHECK_DEADLOCK FALSE
