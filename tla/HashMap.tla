------------------------------ MODULE HashMap -------------------------------
(***************************************************************************)
(* What the rest of wget takes a hash table for (src/src/hash.h): a map    *)
(* from keys to values.  It may be walked (hash_table_for_each) while the  *)
(* entry at hand is removed; dissociate_urls_from_file removes all entries *)
(* with one value so.                                                      *)
(***************************************************************************)
EXTENDS Naturals, FiniteSets

CONSTANTS Keys, Values, NoValue     \* NoValue is no value

VARIABLES
    map,    \* the entries
    got,    \* what the last operation returned
    walk    \* the value whose entries are being removed, or NoValue

vars == <<map, got, walk>>

Init == map = [k \in {} |-> NoValue] /\ got = NoValue /\ walk = NoValue

Idle == walk = NoValue /\ UNCHANGED walk

Get(k) ==
    /\ Idle /\ UNCHANGED map
    /\ got' = IF k \in DOMAIN map THEN map[k] ELSE NoValue

Put(k, v) ==
    /\ Idle /\ UNCHANGED got
    /\ map' = [j \in DOMAIN map \cup {k} |-> IF j = k THEN v ELSE map[j]]

Remove(k) ==
    /\ Idle
    /\ map' = [j \in DOMAIN map \ {k} |-> map[j]]
    /\ got' = IF k \in DOMAIN map THEN 1 ELSE 0

Count == Idle /\ UNCHANGED map /\ got' = Cardinality(DOMAIN map)

Clear == Idle /\ UNCHANGED got /\ map' = [k \in {} |-> NoValue]

\* hash_table_for_each with a callback that removes the entries with value v.
Start(v) == walk = NoValue /\ walk' = v /\ UNCHANGED <<map, got>>
RemoveNext ==
    /\ walk # NoValue /\ UNCHANGED <<got, walk>>
    /\ \E k \in DOMAIN map :
          map[k] = walk /\ map' = [j \in DOMAIN map \ {k} |-> map[j]]
Finish ==
    /\ walk # NoValue /\ walk' = NoValue /\ UNCHANGED <<map, got>>
    /\ \A k \in DOMAIN map : map[k] # walk

Next ==
    \/ \E k \in Keys : Get(k) \/ Remove(k) \/ \E v \in Values : Put(k, v)
    \/ Count \/ Clear
    \/ \E v \in Values : Start(v)
    \/ RemoveNext \/ Finish

Spec == Init /\ [][Next]_vars
=============================================================================
