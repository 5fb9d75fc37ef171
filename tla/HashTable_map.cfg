SPECIFICATION FairSpec
CONSTANTS
    a = a
    b = b
    c = c
    d = d
    x = x
    y = y
    NoValue = none
    Keys = {a, b, c, d}
    Values = {x, y}
    Hashes <- MCHashes
    primes <- MCPrimes
    Items = {0, 3}
INVARIANTS CellsSound
PROPERTIES ImplementsMap Terminates
