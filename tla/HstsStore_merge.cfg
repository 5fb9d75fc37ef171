SPECIFICATION Spec
CONSTANTS
    p = p
    q = q
    Processes = {p, q}
    Hosts = {"a", "w.a", "b"}
    Supers <- MCSupers
    Ages <- MCAges
    Overflow = 9
    Files <- MCFiles
    MaxEvents = 1
    MaxTime = 3
SYMMETRY Symmetry
INVARIANTS FileWhole
PROPERTIES NewerKept
CHECK_DEADLOCK FALSE
