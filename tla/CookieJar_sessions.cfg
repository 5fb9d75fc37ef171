SPECIFICATION Spec
CONSTANTS
    Places = {1, 2, 3, 4, 5}
    Requests <- Asked
    Responses <- Received
    Numeric <- Addresses
    Short <- TwoLetters
    known_toplevel_domains <- Com
    MaxTime = 3
    MaxHeaders = 4
INVARIANTS ChainsSound HeaderRight
PROPERTIES ImplementsCookieStore
CHECK_DEADLOCK FALSE
