SPECIFICATION FairSpec
CONSTANTS
    Hosts = {"many", "one", "num"}
    Numeric = {"num"}
    Answers <- MCAnswers
    Opts <- MCOpts
    Lists = {"l1", "l2", "l3", "l4"}
    Calls = 4
INVARIANTS
    ListsSound
    FailsOnlyWhenAllFail
PROPERTIES
    Terminates
CHECK_DEADLOCK FALSE
