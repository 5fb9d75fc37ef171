---------------------------- MODULE MCHashTable -----------------------------
(* Instances of HashTable: four keys in three or seven cells.  The hashes    *)
(* are the last cell, the first one, and one before the last at both sizes.  *)
EXTENDS HashTable

CONSTANTS a, b, c, d, x, y
Hash(i, j, k, l) == [n \in {a, b, c, d} |-> CASE n = a -> i [] n = b -> j [] n = c -> k [] n = d -> l]
MCHashes == {Hash(20, 20, 20, 20), Hash(20, 20, 21, 19), Hash(20, 19, 19, 21),
             Hash(20, 20, 21, 21), Hash(19, 20, 20, 21)}
MCPrimes == <<3, 7>>
=============================================================================
