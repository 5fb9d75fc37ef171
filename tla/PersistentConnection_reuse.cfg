SPECIFICATION FairSpec
CONSTANTS
    Hosts = {"a", "b"}
    Proxy = "proxy"
    Cases <- AllCases
    Calls = 2
INVARIANTS SocketsSound RightPeer AnswersMatch
PROPERTIES Terminates
CHECK_DEADLOCK FALSE
