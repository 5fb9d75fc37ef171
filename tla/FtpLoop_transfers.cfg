CONSTANTS
    Opts <- MCOpts
    Sites <- MCSites
    Disks <- MCDisks
    MaxFaults = 2
SPECIFICATION FairSpec
INVARIANTS
    SavedWhole
    RightDirectory
    SocketsSound
    NothingForgotten
PROPERTIES
    Terminates
