----------------------------- MODULE HashTable ------------------------------
(***************************************************************************)
(* Hash tables (src/src/hash.c): open addressing with linear probing.      *)
(* There are no tombstones; hash_table_remove moves the entries after the  *)
(* cell that it frees, one per step here, and a table that gets too full   *)
(* is replaced by a larger one, again one entry per step.  The steps of    *)
(* one operation are never interleaved with those of another, except that  *)
(* the callback of hash_table_for_each removes the entry it is given.      *)
(*                                                                         *)
(* The table implements HashMap: probing finds exactly what was put in.    *)
(***************************************************************************)
EXTENDS Integers, Sequences, FiniteSets

CONSTANTS
    Keys, Values, NoValue,
    Hashes,     \* the hash functions considered: numbers of the keys
    primes,     \* the table of sizes (a constant array of prime_size)
    Items       \* the numbers of items that a table is made for

ASSUME ValuesAssumption == NoValue \notin Values
ASSUME HashesAssumption == Hashes \subseteq [Keys -> Nat]
ASSUME ItemsAssumption == Items \subseteq Nat
ASSUME PrimesAssumption ==
    /\ primes \in Seq(Nat)
    /\ \A i, j \in DOMAIN primes : i < j => primes[i] < primes[j]
    /\ \A i \in DOMAIN primes : primes[i] > 1

\* HASH_MAX_FULLNESS is 0.75, HASH_RESIZE_FACTOR 2.
Threshold(n) == (n * 3) \div 4

\* There is a size for all keys, so that prime_size does not abort.
ASSUME RoomAssumption ==
    /\ IsFiniteSet(Keys)
    /\ \E i \in DOMAIN primes :
          /\ Cardinality(Keys) <= Threshold(primes[i])
          /\ \A n \in Items : 1 + (n * 4) \div 3 <= primes[i]
          /\ \A j \in DOMAIN primes : j < i => 2 * primes[j] <= primes[i]

VARIABLES
    hash_function,
    cells,          \* the array: 0 .. size - 1 to entries
    count, resize_threshold, prime_offset,
    old, at,        \* grow_hash_table: the old cells and the next one to move;
                    \* hash_table_remove: the next one to look at
    pending,        \* hash_table_put: the entry to add when the table has grown
    walk, pos, seen,\* hash_table_for_each: the value whose entries its callback
                    \* removes, the cell, and the key that was there
    got,            \* what the last operation returned
    pc

vars == <<hash_function, cells, count, resize_threshold, prime_offset, old, at,
          pending, walk, pos, seen, got, pc>>
growing == <<old, pending>>
walking == <<walk, pos, seen>>
sizing == <<resize_threshold, prime_offset>>

Empty == [key |-> NoValue, value |-> NoValue]
CELL_OCCUPIED(c) == c # Empty
size == Cardinality(DOMAIN cells)
Cleared(n) == [i \in 0 .. n - 1 |-> Empty]

\* Variant for sensitivity checks: the last cell is not followed by the first.
NEXT_CELL_flat(i) == IF i + 1 < size THEN i + 1 ELSE i
NEXT_CELL(i) == (i + 1) % size
HASH_POSITION(k, n) == hash_function[k] % n

\* Where prime_size finds the first size that is large enough.
prime_size(n, offset) ==
    CHOOSE i \in DOMAIN primes :
        /\ i >= offset /\ primes[i] >= n
        /\ \A j \in DOMAIN primes : j >= offset /\ j < i => primes[j] < n

\* The cell where probing for k in array a stops: the one that holds it, or the
\* first that is not occupied.
Probe(a, k) ==
    LET n == Cardinality(DOMAIN a)
        Cell(d) == (HASH_POSITION(k, n) + d) % n
        Stop(d) == a[Cell(d)].key = k \/ ~CELL_OCCUPIED(a[Cell(d)])
    IN  Cell(CHOOSE d \in 0 .. n - 1 : Stop(d) /\ \A e \in 0 .. d - 1 : ~Stop(e))
find_cell(k) == Probe(cells, k)

\* hash_table_new.
Init ==
    /\ hash_function \in Hashes
    /\ \E items \in Items :
          LET i == prime_size(1 + (items * 4) \div 3, 1) IN
          /\ cells = Cleared(primes[i]) /\ prime_offset = i + 1
          /\ resize_threshold = Threshold(primes[i])
    /\ count = 0
    /\ old = <<>> /\ at = 0 /\ pending = Empty
    /\ walk = NoValue /\ pos = 0 /\ seen = NoValue
    /\ got = NoValue /\ pc = "ready"

-----------------------------------------------------------------------------
Ready == pc = "ready" /\ walk = NoValue

hash_table_get(k) ==
    /\ Ready /\ got' = cells[find_cell(k)].value
    /\ UNCHANGED <<hash_function, cells, count, sizing, growing, at, walking, pc>>

hash_table_count ==
    /\ Ready /\ got' = count
    /\ UNCHANGED <<hash_function, cells, count, sizing, growing, at, walking, pc>>

hash_table_clear ==
    /\ Ready
    /\ cells' = Cleared(size) /\ count' = 0
    /\ UNCHANGED <<hash_function, sizing, growing, at, walking, got, pc>>

\* A new entry when there is room for it.
Add(entry) ==
    /\ cells' = [cells EXCEPT ![find_cell(entry.key)] = entry]
    /\ count' = count + 1

\* Variant for sensitivity checks: the table may become full.
hash_table_put_full(k, v) ==
    LET entry == [key |-> k, value |-> v] IN
    /\ Ready
    /\ IF CELL_OCCUPIED(cells[find_cell(k)]) THEN
          cells' = [cells EXCEPT ![find_cell(k)] = entry] /\ UNCHANGED count
       ELSE Add(entry)
    /\ UNCHANGED <<hash_function, sizing, growing, at, walking, got, pc>>

hash_table_put(k, v) ==
    LET entry == [key |-> k, value |-> v] IN
    /\ Ready
    /\ IF CELL_OCCUPIED(cells[find_cell(k)]) THEN
          /\ cells' = [cells EXCEPT ![find_cell(k)] = entry]
          /\ UNCHANGED <<count, sizing, growing, at, pc>>
       ELSE IF count < resize_threshold THEN
          Add(entry) /\ UNCHANGED <<sizing, growing, at, pc>>
       ELSE LET i == prime_size(2 * size, prime_offset) IN
          /\ old' = cells /\ cells' = Cleared(primes[i])
          /\ prime_offset' = i + 1 /\ resize_threshold' = Threshold(primes[i])
          /\ at' = 0 /\ pending' = entry /\ pc' = "grow" /\ UNCHANGED count
    /\ UNCHANGED <<hash_function, walking, got>>

\* grow_hash_table: the next old cell, and after the last one the new entry.
grow_hash_table ==
    /\ pc = "grow"
    /\ IF at \in DOMAIN old THEN
          /\ cells' = IF CELL_OCCUPIED(old[at])
                      THEN [cells EXCEPT ![find_cell(old[at].key)] = old[at]] ELSE cells
          /\ at' = at + 1 /\ UNCHANGED <<old, pending, count, pc>>
       ELSE /\ Add(pending)
            /\ old' = <<>> /\ at' = 0 /\ pending' = Empty /\ pc' = "ready"
    /\ UNCHANGED <<hash_function, sizing, walking, got>>

\* hash_table_remove: the cell is freed, and those after it are looked at.
Free(i) ==
    /\ cells' = [cells EXCEPT ![i] = Empty] /\ count' = count - 1
    /\ at' = NEXT_CELL(i) /\ pc' = "rehash"

hash_table_remove(k) ==
    LET i == find_cell(k) IN
    /\ Ready
    /\ IF CELL_OCCUPIED(cells[i]) THEN Free(i) /\ got' = 1
       ELSE got' = 0 /\ UNCHANGED <<cells, count, at, pc>>
    /\ UNCHANGED <<hash_function, sizing, growing, walking>>

\* An entry that follows the freed cell moves if probing for it stops earlier now.
Rehash ==
    /\ pc = "rehash"
    /\ IF CELL_OCCUPIED(cells[at]) THEN
          LET i == find_cell(cells[at].key) IN
          /\ cells' = IF i = at THEN cells
                      ELSE [cells EXCEPT ![i] = cells[at], ![at] = Empty]
          /\ at' = NEXT_CELL(at) /\ UNCHANGED pc
       ELSE pc' = "ready" /\ at' = 0 /\ UNCHANGED cells
    /\ UNCHANGED <<hash_function, count, sizing, growing, walking, got>>

-----------------------------------------------------------------------------
\* hash_table_for_each, called by dissociate_urls_from_file for the value v.
hash_table_for_each(v) ==
    /\ Ready
    /\ walk' = v /\ pos' = 0 /\ seen' = NoValue
    /\ UNCHANGED <<hash_function, cells, count, sizing, growing, at, got, pc>>

\* Variant for sensitivity checks: a cell is looked at once.
Callback_once ==
    /\ pc = "ready" /\ walk # NoValue /\ pos < size /\ seen = NoValue
    /\ IF cells[pos].value = walk THEN
          Free(pos) /\ pos' = pos + 1 /\ UNCHANGED <<got, seen>>
       ELSE pos' = pos + 1 /\ UNCHANGED <<cells, count, at, pc, got, seen>>
    /\ UNCHANGED <<hash_function, sizing, growing, walk>>

\* fn is called for an occupied cell: it removes the entry, or it does not.
Callback ==
    /\ pc = "ready" /\ walk # NoValue /\ pos < size /\ seen = NoValue
    /\ IF cells[pos].value = walk THEN
          seen' = cells[pos].key /\ Free(find_cell(cells[pos].key)) /\ UNCHANGED pos
       ELSE pos' = pos + 1 /\ UNCHANGED <<seen, cells, count, at, pc>>
    /\ UNCHANGED <<hash_function, sizing, growing, walk, got>>

\* "hash_table_remove might have moved the adjacent cells": the same cell again
\* if another entry is there now.
Repeat ==
    /\ pc = "ready" /\ walk # NoValue /\ seen # NoValue
    /\ pos' = IF cells[pos].key # seen /\ CELL_OCCUPIED(cells[pos]) THEN pos ELSE pos + 1
    /\ seen' = NoValue
    /\ UNCHANGED <<hash_function, cells, count, sizing, growing, at, walk, got, pc>>

EndWalk ==
    /\ pc = "ready" /\ walk # NoValue /\ pos = size
    /\ walk' = NoValue /\ pos' = 0
    /\ UNCHANGED <<hash_function, cells, count, sizing, growing, at, seen, got, pc>>

Loops == grow_hash_table \/ Rehash \/ Callback \/ Repeat \/ EndWalk

Next ==
    \/ \E k \in Keys : hash_table_get(k) \/ hash_table_remove(k)
    \/ \E k \in Keys, v \in Values : hash_table_put(k, v)
    \/ hash_table_count \/ hash_table_clear
    \/ \E v \in Values : hash_table_for_each(v)
    \/ Loops

Spec == Init /\ [][Next]_vars

\* A loop that has been entered goes on.
FairSpec == Spec /\ WF_vars(Loops)

-----------------------------------------------------------------------------
Occupied(a) == {i \in DOMAIN a : CELL_OCCUPIED(a[i])}

\* The entries: those of the cells and, while the table grows, of the old cells
\* that have not been moved yet.
Entries == {cells[i] : i \in Occupied(cells)} \cup
               {old[i] : i \in {j \in DOMAIN old : j >= at /\ CELL_OCCUPIED(old[j])}}

TypeOK ==
    /\ size \in {primes[i] : i \in DOMAIN primes} /\ DOMAIN cells = 0 .. size - 1
    /\ \A i \in Occupied(cells) : cells[i] \in [key : Keys, value : Values]
    /\ count \in 0 .. Cardinality(Keys) /\ resize_threshold = Threshold(size)
    /\ at \in 0 .. size /\ pos \in 0 .. size
    /\ walk \in Values \cup {NoValue} /\ pc \in {"ready", "grow", "rehash"}

\* Between operations the count is right, each key is in one cell, and from where
\* its hash puts it to that cell there is no empty one; and there is always an
\* empty cell, without which probing would not end (hash_table_remove's loop,
\* the wrap-around of NEXT_CELL, growing before a cell is taken).
CellsSound ==
    /\ TypeOK
    /\ Occupied(cells) # DOMAIN cells
    /\ pc = "ready" =>
          /\ count = Cardinality(Occupied(cells)) /\ count <= resize_threshold
          /\ \A i \in Occupied(cells) : find_cell(cells[i].key) = i

\* The table is a map, in spite of removals, growing and walks that remove.
Map == INSTANCE HashMap WITH
    map <- [k \in {e.key : e \in Entries} |-> (CHOOSE e \in Entries : e.key = k).value]
ImplementsMap == Map!Spec

\* Every operation ends.
Terminates == []<>Ready
=============================================================================
