-------------------------- MODULE HashTableProofs ---------------------------
(***************************************************************************)
(* Theorems about HashTable, for any keys, values, hash functions, sizes   *)
(* and histories: what is put in is found again, and the table implements  *)
(* the map of HashMap.                                                     *)
(***************************************************************************)
EXTENDS HashTable, TLAPS, FunctionTheorems, FiniteSetTheorems, WellFoundedInduction

(***************************************************************************)
(* Numbers.                                                                *)
(***************************************************************************)
\* A nonempty set of natural numbers has a smallest element.
LEMMA LeastNumber ==
    ASSUME NEW S \in SUBSET Nat, S # {}
    PROVE  \E k \in S : \A j \in S : k <= j
<1> DEFINE T == {0 .. k : k \in S}
           R == StrictSubsetOrdering(Nat)
<1>1. T \subseteq FiniteSubsetsOf(Nat) /\ T # {}
  <2>1. \A k \in S : 0 .. k \subseteq Nat /\ IsFiniteSet(0 .. k)
    BY FS_Interval
  <2> QED BY <2>1 DEF FiniteSubsetsOf
<1>2. IsWellFoundedOn(R, FiniteSubsetsOf(Nat))
  BY FS_StrictSubsetOrderingWellFounded
<1>3. PICK t \in T : \A u \in T : ~(<<u, t>> \in R)
  <2> HIDE DEF T, R
  <2> QED BY <1>1, <1>2, WFMin
<1>4. PICK k \in S : t = 0 .. k
  BY <1>3
<1>5. ASSUME NEW j \in S, j < k PROVE FALSE
  <2>1. 0 .. j \in SUBSET Nat /\ 0 .. k \in SUBSET Nat
    OBVIOUS
  <2>2. 0 .. j \subseteq 0 .. k /\ k \in 0 .. k /\ k \notin 0 .. j
    BY <1>5
  <2>3. <<0 .. j, 0 .. k>> \in R
    BY <2>1, <2>2 DEF StrictSubsetOrdering
  <2> QED BY <1>3, <1>4, <2>3
<1> QED BY <1>5

\* A remainder is a position of the table.
LEMMA ModRange ==
    ASSUME NEW a \in Nat, NEW n \in Nat \ {0}
    PROVE  a % n \in 0 .. n - 1
OBVIOUS

\* Going d cells on from cell h wraps round at most once.
LEMMA ModWrap ==
    ASSUME NEW n \in Nat \ {0}, NEW h \in 0 .. n - 1, NEW d \in 0 .. n - 1
    PROVE  (h + d) % n = IF h + d < n THEN h + d ELSE h + d - n
OBVIOUS

\* As many cells as the last one's number and one more.
LEMMA SizeOfArray ==
    ASSUME NEW n \in Nat
    PROVE  IsFiniteSet(0 .. n - 1) /\ Cardinality(0 .. n - 1) = n
<1>1. 0 \in Int /\ n - 1 \in Int
  OBVIOUS
<1>2. Cardinality(0 .. n - 1) = IF 0 > n - 1 THEN 0 ELSE (n - 1) - 0 + 1
  BY <1>1, FS_Interval
<1> QED BY <1>1, <1>2, FS_Interval

(***************************************************************************)
(* Paths.  Probing goes round the table from the home of a key; x is on    *)
(* the path from h to i when it is met before i is.                        *)
(***************************************************************************)
OnPath(h, i, x) == IF h <= i THEN h <= x /\ x < i ELSE h <= x \/ x < i
Following(n, i) == IF i + 1 < n THEN i + 1 ELSE 0

\* What the paths have to do with one another.
LEMMA PathSuffix ==
    ASSUME NEW n \in Nat, NEW h \in 0 .. n - 1, NEW i \in 0 .. n - 1,
           NEW j \in 0 .. n - 1, OnPath(h, i, j) \/ (h = j /\ i # j),
           NEW x \in 0 .. n - 1, OnPath(Following(n, j), i, x)
    PROVE  OnPath(h, i, x) /\ x # j
BY DEF OnPath, Following

\* Of two cells, one is met before the other.
LEMMA PathOrder ==
    ASSUME NEW n \in Nat, NEW h \in 0 .. n - 1, NEW i \in 0 .. n - 1,
           NEW j \in 0 .. n - 1, i # j
    PROVE  OnPath(h, i, j) \/ OnPath(h, j, i)
BY DEF OnPath

(***************************************************************************)
(* Tables and probing.                                                     *)
(***************************************************************************)
Cells == [key : Keys, value : Values] \cup {Empty}
IsArray(a, n) ==
    /\ n \in Nat \ {0} /\ DOMAIN a = 0 .. n - 1 /\ a = [i \in 0 .. n - 1 |-> a[i]]
    /\ \A i \in 0 .. n - 1 : a[i] \in Cells
Keyed(a) == \A i, j \in Occupied(a) : a[i].key = a[j].key => i = j
KeysOf(a) == {a[i].key : i \in Occupied(a)}

\* No cell on the way from h to i is empty.
Filled(a, h, i) == \A x \in DOMAIN a : OnPath(h, i, x) => CELL_OCCUPIED(a[x])
Home(a, k) == HASH_POSITION(k, Cardinality(DOMAIN a))
Reached(a, i) == Filled(a, Home(a, a[i].key), i)
Probing(a) == \A i \in Occupied(a) : Reached(a, i)

\* The hash of a key leads to a cell of the table.
LEMMA HomeInTable ==
    ASSUME NEW a, NEW n, IsArray(a, n), hash_function \in [Keys -> Nat], NEW k \in Keys
    PROVE  /\ Cardinality(DOMAIN a) = n
           /\ Home(a, k) = HASH_POSITION(k, n) /\ Home(a, k) \in 0 .. n - 1
<1>1. Cardinality(DOMAIN a) = n
  BY SizeOfArray DEF IsArray
<1>2. hash_function[k] \in Nat
  OBVIOUS
<1> QED BY <1>1, <1>2, ModRange DEF IsArray, Home, HASH_POSITION

\* Where probing stops: at the key or at an empty cell, and before it neither.
Stops(a, k, i) ==
    /\ i \in DOMAIN a /\ (a[i].key = k \/ ~CELL_OCCUPIED(a[i]))
    /\ \A x \in DOMAIN a : OnPath(Home(a, k), i, x) => CELL_OCCUPIED(a[x]) /\ a[x].key # k

\* Probing stops at the key or at an empty cell, if there is one (find_cell).
LEMMA ProbeStops ==
    ASSUME NEW a, NEW n, IsArray(a, n), hash_function \in [Keys -> Nat], NEW k \in Keys,
           Occupied(a) # DOMAIN a
    PROVE  Stops(a, k, Probe(a, k))
<1> DEFINE h == Home(a, k)
           Cell(d) == (h + d) % n
           Stop(d) == a[Cell(d)].key = k \/ ~CELL_OCCUPIED(a[Cell(d)])
           Least(d) == Stop(d) /\ \A e \in 0 .. d - 1 : ~Stop(e)
           D == {d \in 0 .. n - 1 : Stop(d)}
<1>1. h = HASH_POSITION(k, n) /\ h \in 0 .. n - 1 /\ Cardinality(DOMAIN a) = n
  BY HomeInTable
<1> HIDE DEF h
<1>n. n \in Nat \ {0} /\ DOMAIN a = 0 .. n - 1
  BY DEF IsArray
<1>2. \A d \in 0 .. n - 1 : Cell(d) = IF h + d < n THEN h + d ELSE h + d - n
  BY <1>1, <1>n, ModWrap
<1>3. D # {}
  <2>1. PICK i \in 0 .. n - 1 : ~CELL_OCCUPIED(a[i])
    BY <1>n DEF Occupied
  <2>2. \E d \in 0 .. n - 1 : i = IF h + d < n THEN h + d ELSE h + d - n
    <3>1. CASE h <= i
      <4>1. i - h \in 0 .. n - 1 /\ h + (i - h) < n /\ i = h + (i - h)
        BY <1>1, <1>n, <3>1
      <4> QED BY <4>1
    <3>2. CASE ~(h <= i)
      <4>1. i - h + n \in 0 .. n - 1 /\ ~(h + (i - h + n) < n) /\ i = h + (i - h + n) - n
        BY <1>1, <1>n, <3>2
      <4> QED BY <4>1
    <3> QED BY <3>1, <3>2
  <2>3. \E d \in 0 .. n - 1 : Cell(d) = i
    BY <1>2, <2>2
  <2> QED BY <2>1, <2>3
<1>4. \E d \in 0 .. n - 1 : Least(d)
  <2>1. D \in SUBSET Nat
    BY <1>n
  <2>2. PICK d \in D : \A e \in D : d <= e
    BY <1>3, <2>1, LeastNumber
  <2>3. d \in 0 .. n - 1 /\ Stop(d)
    BY <2>2
  <2>4. \A e \in 0 .. d - 1 : ~Stop(e)
    <3> SUFFICES ASSUME NEW e \in 0 .. d - 1, Stop(e) PROVE FALSE
      OBVIOUS
    <3>1. e \in D
      BY <1>n, <2>3
    <3>2. d <= e
      BY <2>2, <3>1
    <3> QED BY <1>n, <2>3, <3>2
  <2> QED BY <2>3, <2>4
<1>5. PICK d \in 0 .. n - 1 : Least(d) /\ Probe(a, k) = Cell(d)
  <2> DEFINE c == CHOOSE d \in 0 .. n - 1 : Least(d)
  <2>1. c \in 0 .. n - 1 /\ Least(c)
    BY <1>4
  <2>2. Probe(a, k) = Cell(c)
    BY <1>1 DEF Probe
  <2> QED BY <2>1, <2>2
<1>6. Probe(a, k) \in DOMAIN a /\ (a[Probe(a, k)].key = k \/ ~CELL_OCCUPIED(a[Probe(a, k)]))
  <2>1. Cell(d) \in 0 .. n - 1
    <3>1. Cell(d) = IF h + d < n THEN h + d ELSE h + d - n
      BY <1>2
    <3> HIDE DEF Cell
    <3> QED BY <1>1, <1>n, <3>1
  <2>2. Stop(d)
    BY <1>5
  <2> QED BY <1>n, <1>5, <2>1, <2>2
<1>7. ASSUME NEW x \in DOMAIN a, OnPath(h, Probe(a, k), x)
      PROVE  CELL_OCCUPIED(a[x]) /\ a[x].key # k
  <2> DEFINE p == Probe(a, k)
  <2>1. p = (IF h + d < n THEN h + d ELSE h + d - n) /\ x \in 0 .. n - 1
    BY <1>n, <1>2, <1>5
  <2>2. \E e \in 0 .. d - 1 : x = IF h + e < n THEN h + e ELSE h + e - n
    <3> HIDE DEF p
    <3>0. OnPath(h, p, x) /\ d \in 0 .. n - 1
      BY <1>7 DEF p
    <3>1. CASE h <= x
      <4>1. x - h \in 0 .. d - 1 /\ h + (x - h) < n /\ x = h + (x - h)
        BY <1>1, <1>n, <2>1, <3>0, <3>1 DEF OnPath
      <4> QED BY <4>1
    <3>2. CASE ~(h <= x)
      <4>1. x - h + n \in 0 .. d - 1 /\ ~(h + (x - h + n) < n) /\ x = h + (x - h + n) - n
        BY <1>1, <1>n, <2>1, <3>0, <3>2 DEF OnPath
      <4> QED BY <4>1
    <3> QED BY <1>1, <1>n, <2>1, <3>1, <3>2
  <2>3. PICK e \in 0 .. d - 1 : x = Cell(e)
    BY <1>n, <1>2, <2>2
  <2> QED BY <1>5, <2>3
<1> QED BY <1>6, <1>7 DEF Stops, h

\* It stops in one place only.
LEMMA StopsOnce ==
    ASSUME NEW a, NEW n, IsArray(a, n), hash_function \in [Keys -> Nat], NEW k \in Keys,
           Occupied(a) # DOMAIN a, NEW i, Stops(a, k, i)
    PROVE  Probe(a, k) = i
<1>1. Stops(a, k, Probe(a, k)) /\ DOMAIN a = 0 .. n - 1 /\ n \in Nat
  BY ProbeStops DEF IsArray
<1>2. Home(a, k) \in 0 .. n - 1
  BY HomeInTable
<1>3. Probe(a, k) \in 0 .. n - 1 /\ i \in 0 .. n - 1
  BY <1>1 DEF Stops
<1>4. Probe(a, k) # i => OnPath(Home(a, k), i, Probe(a, k)) \/ OnPath(Home(a, k), Probe(a, k), i)
  BY <1>1, <1>2, <1>3, PathOrder
<1> QED BY <1>1, <1>4 DEF Stops

\* A probing sequence that is filled leads to each entry.
LEMMA EntriesFound ==
    ASSUME NEW a, NEW n, IsArray(a, n), hash_function \in [Keys -> Nat],
           Occupied(a) # DOMAIN a, Keyed(a), Probing(a)
    PROVE  /\ \A i \in Occupied(a) : Probe(a, a[i].key) = i
           /\ \A k \in Keys : Probe(a, k) \in Occupied(a) <=> k \in KeysOf(a)
<1>1. \A i \in Occupied(a) : i \in DOMAIN a /\ a[i].key \in Keys /\ CELL_OCCUPIED(a[i])
  BY DEF IsArray, Occupied, Cells, CELL_OCCUPIED
<1>2. ASSUME NEW i \in Occupied(a) PROVE Probe(a, a[i].key) = i
  <2>1. n \in Nat /\ DOMAIN a = 0 .. n - 1 /\ Home(a, a[i].key) \in 0 .. n - 1
    BY <1>1, HomeInTable DEF IsArray
  <2>2. \A x \in DOMAIN a : OnPath(Home(a, a[i].key), i, x) => x # i
    BY <1>1, <2>1 DEF OnPath
  <2>3. \A x \in DOMAIN a : OnPath(Home(a, a[i].key), i, x) => CELL_OCCUPIED(a[x])
    BY DEF Probing, Reached, Filled
  <2>4. \A x \in DOMAIN a : CELL_OCCUPIED(a[x]) => x \in Occupied(a)
    BY DEF Occupied
  <2>5. Stops(a, a[i].key, i)
    BY <1>1, <2>2, <2>3, <2>4 DEF Stops, Keyed
  <2> QED BY <1>1, <2>5, StopsOnce
<1>3. ASSUME NEW k \in Keys PROVE Probe(a, k) \in Occupied(a) <=> k \in KeysOf(a)
  <2>1. Stops(a, k, Probe(a, k))
    BY ProbeStops
  <2> QED BY <1>2, <2>1 DEF Stops, KeysOf, Occupied
<1> QED BY <1>2, <1>3

\* An entry is put where probing for its key stops: in place of the one with its
\* key, or in an empty cell.
LEMMA Put ==
    ASSUME NEW a, NEW n, IsArray(a, n), hash_function \in [Keys -> Nat],
           Occupied(a) # DOMAIN a, Keyed(a), Probing(a),
           NEW e \in [key : Keys, value : Values],
           NEW b, b = [a EXCEPT ![Probe(a, e.key)] = e]
    PROVE  /\ IsArray(b, n) /\ Keyed(b) /\ Probing(b)
           /\ Probe(a, e.key) \in DOMAIN a
           /\ Occupied(b) = Occupied(a) \cup {Probe(a, e.key)}
           /\ KeysOf(b) = KeysOf(a) \cup {e.key}
<1> DEFINE p == Probe(a, e.key)
<1>1. Stops(a, e.key, p) /\ e.key \in Keys
  BY ProbeStops
<1>2. CELL_OCCUPIED(e)
  BY ValuesAssumption DEF CELL_OCCUPIED, Empty
<1>3. p \in 0 .. n - 1 /\ DOMAIN a = 0 .. n - 1 /\ DOMAIN b = 0 .. n - 1
  BY <1>1 DEF Stops, IsArray
<1>4. \A i \in DOMAIN a : b[i] = IF i = p THEN e ELSE a[i]
  BY <1>3
<1>5. IsArray(b, n)
  BY <1>3, <1>4 DEF IsArray, Cells
<1>6. Occupied(b) = Occupied(a) \cup {p}
  BY <1>2, <1>3, <1>4 DEF Occupied
<1>7. \A i \in Occupied(a) : a[i].key = e.key => i = p
  BY EntriesFound
<1>8. \A i \in Occupied(b) : b[i] = (IF i = p THEN e ELSE a[i]) /\ (i # p => i \in Occupied(a))
  BY <1>3, <1>4, <1>6 DEF Occupied
<1>9. Keyed(b)
  BY <1>7, <1>8 DEF Keyed
<1>10. KeysOf(b) = KeysOf(a) \cup {e.key}
  <2>1. p \in Occupied(a) => a[p].key = e.key
    BY <1>1 DEF Stops, Occupied
  <2>2. KeysOf(b) \subseteq KeysOf(a) \cup {e.key}
    BY <1>8 DEF KeysOf
  <2>3. KeysOf(a) \subseteq KeysOf(b)
    BY <1>6, <1>8, <2>1 DEF KeysOf
  <2>4. e.key \in KeysOf(b)
    BY <1>6, <1>8 DEF KeysOf
  <2> QED BY <2>2, <2>3, <2>4
<1>11. \A x \in DOMAIN a : CELL_OCCUPIED(a[x]) => CELL_OCCUPIED(b[x])
  BY <1>2, <1>4
<1>12. \A k : Home(b, k) = Home(a, k)
  BY <1>3 DEF Home
<1>13. Probing(b)
  <2> SUFFICES ASSUME NEW i \in Occupied(b), NEW x \in DOMAIN b,
                      OnPath(Home(b, b[i].key), i, x)
               PROVE  CELL_OCCUPIED(b[x])
    BY DEF Probing, Reached, Filled
  <2>1. CASE i = p
    BY <1>1, <1>3, <1>8, <1>11, <1>12, <2>1 DEF Stops
  <2>2. CASE i # p
    BY <1>3, <1>8, <1>11, <1>12, <2>2 DEF Probing, Reached, Filled
  <2> QED BY <2>1, <2>2
<1> QED BY <1>1, <1>3, <1>5, <1>6, <1>9, <1>10, <1>13

(***************************************************************************)
(* Removing.  While the entries after a freed cell are looked at, each     *)
(* entry can be reached, or stands in the run of occupied cells from the   *)
(* next one to look at.                                                    *)
(***************************************************************************)
Settled(a, from) == \A i \in Occupied(a) : Reached(a, i) \/ Filled(a, from, i)

\* When a cell is freed, the entries cut off are in the run after it.
LEMMA Freed ==
    ASSUME NEW a, NEW n, IsArray(a, n), hash_function \in [Keys -> Nat],
           NEW j \in DOMAIN a, Settled(a, j), NEW b, b = [a EXCEPT ![j] = Empty]
    PROVE  /\ IsArray(b, n) /\ Settled(b, Following(n, j))
           /\ Occupied(b) = Occupied(a) \ {j} /\ \A i \in Occupied(b) : b[i] = a[i]
<1>1. n \in Nat \ {0} /\ DOMAIN a = 0 .. n - 1 /\ DOMAIN b = 0 .. n - 1
  BY DEF IsArray
<1>2. \A i \in DOMAIN a : b[i] = IF i = j THEN Empty ELSE a[i]
  BY <1>1
<1>3. IsArray(b, n)
  BY <1>1, <1>2 DEF IsArray, Cells
<1>4. Occupied(b) = Occupied(a) \ {j}
  BY <1>1, <1>2 DEF Occupied, CELL_OCCUPIED
<1>5. \A i \in Occupied(b) : i \in Occupied(a) /\ i # j /\ b[i] = a[i] /\ i \in 0 .. n - 1
  BY <1>1, <1>2, <1>4 DEF Occupied
<1>7. ASSUME NEW i \in Occupied(b), NEW h \in 0 .. n - 1, Filled(a, h, i),
             OnPath(h, i, j) \/ h = j
      PROVE  Filled(b, Following(n, j), i)
  <2> SUFFICES ASSUME NEW x \in 0 .. n - 1, OnPath(Following(n, j), i, x)
               PROVE  CELL_OCCUPIED(b[x])
    BY <1>1 DEF Filled
  <2>0. i \in 0 .. n - 1 /\ j \in 0 .. n - 1 /\ i # j
    BY <1>1, <1>5
  <2>1. OnPath(h, i, x) /\ x # j
    BY <1>1, <1>7, <2>0, PathSuffix
  <2> QED BY <1>1, <1>2, <1>7, <2>1 DEF Filled
<1>8. ASSUME NEW i \in Occupied(b), Reached(a, i)
      PROVE  Reached(b, i) \/ Filled(b, Following(n, j), i)
  <2> DEFINE h == Home(a, a[i].key)
  <2>1. a[i].key \in Keys
    BY <1>1, <1>5 DEF IsArray, Cells, Occupied, CELL_OCCUPIED
  <2>2. h \in 0 .. n - 1
    BY <2>1, HomeInTable
  <2>3. Filled(a, h, i)
    BY <1>8 DEF Reached
  <2>4. Home(b, b[i].key) = h
    BY <1>1, <1>5 DEF Home
  <2> HIDE DEF h
  <2>5. CASE OnPath(h, i, j)
    BY <1>7, <2>2, <2>3, <2>5
  <2>6. CASE ~OnPath(h, i, j)
    <3>1. Filled(b, h, i)
      BY <1>1, <1>2, <2>3, <2>6 DEF Filled
    <3> QED BY <2>4, <3>1 DEF Reached
  <2> QED BY <2>5, <2>6
<1>9. Settled(b, Following(n, j))
  BY <1>1, <1>5, <1>7, <1>8 DEF Settled
<1> QED BY <1>3, <1>4, <1>5, <1>9

\* An entry that probing does not reach moves to where probing for it stops.
LEMMA Moved ==
    ASSUME NEW a, NEW n, IsArray(a, n), hash_function \in [Keys -> Nat], Keyed(a),
           Occupied(a) # DOMAIN a, NEW j \in Occupied(a), Settled(a, j),
           NEW p, p = Probe(a, a[j].key), p # j,
           NEW b, b = [x \in 0 .. n - 1 |->
                         IF x = j THEN Empty ELSE IF x = p THEN a[j] ELSE a[x]]
    PROVE  /\ IsArray(b, n) /\ Keyed(b) /\ Settled(b, Following(n, j))
           /\ p \in DOMAIN a \ Occupied(a)
           /\ Occupied(b) = (Occupied(a) \cup {p}) \ {j}
<1> DEFINE c == [a EXCEPT ![p] = a[j]]
           k == a[j].key
<1>1. n \in Nat \ {0} /\ DOMAIN a = 0 .. n - 1 /\ DOMAIN c = 0 .. n - 1 /\ j \in 0 .. n - 1
  BY DEF IsArray, Occupied
<1>2. CELL_OCCUPIED(a[j]) /\ k \in Keys /\ a[j] \in Cells
  BY <1>1 DEF IsArray, Occupied, Cells, CELL_OCCUPIED
<1>3. Stops(a, k, p)
  BY <1>2, ProbeStops
<1>4. p \in 0 .. n - 1 /\ p \notin Occupied(a)
  <2>1. p \in 0 .. n - 1 /\ (a[p].key = k \/ ~CELL_OCCUPIED(a[p]))
    BY <1>1, <1>3 DEF Stops
  <2>2. p \in Occupied(a) => a[p].key = k
    BY <2>1 DEF Occupied
  <2> QED BY <2>1, <2>2 DEF Keyed
<1>5. \A i \in 0 .. n - 1 : c[i] = IF i = p THEN a[j] ELSE a[i]
  BY <1>1, <1>4
<1>6. IsArray(c, n)
  BY <1>1, <1>2, <1>5 DEF IsArray
<1>7. Occupied(c) = Occupied(a) \cup {p}
  BY <1>1, <1>2, <1>4, <1>5 DEF Occupied
<1>8. \A x \in 0 .. n - 1 : CELL_OCCUPIED(a[x]) => CELL_OCCUPIED(c[x])
  BY <1>2, <1>5
<1>9. ASSUME NEW i \in Occupied(c) PROVE Reached(c, i) \/ Filled(c, j, i)
  <2>1. \A q : Home(c, q) = Home(a, q)
    BY <1>1 DEF Home
  <2>2. CASE i = p
    <3>1. c[i].key = k
      BY <1>4, <1>5, <2>2
    <3>2. Filled(c, Home(c, c[i].key), i)
      BY <1>1, <1>3, <1>8, <2>1, <2>2, <3>1 DEF Stops, Filled
    <3> QED BY <3>2 DEF Reached
  <2>3. CASE i # p
    <3>1. i \in Occupied(a) /\ c[i] = a[i]
      BY <1>1, <1>5, <1>7, <2>3 DEF Occupied
    <3>2. Reached(a, i) \/ Filled(a, j, i)
      BY <3>1 DEF Settled
    <3> QED BY <1>1, <1>8, <2>1, <3>1, <3>2 DEF Reached, Filled
  <2> QED BY <2>2, <2>3
<1>10. b = [c EXCEPT ![j] = Empty]
  <2>1. DOMAIN b = 0 .. n - 1 /\ b = [i \in 0 .. n - 1 |-> b[i]]
    BY <1>1
  <2>2. \A i \in 0 .. n - 1 : b[i] = IF i = j THEN Empty ELSE c[i]
    BY <1>1, <1>4
  <2> QED BY <1>1, <2>1, <2>2
<1>11. \A i \in 0 .. n - 1 : b[i] = IF i = j THEN Empty ELSE IF i = p THEN a[j] ELSE a[i]
  BY <1>1, <1>5, <1>10
<1>12. IsArray(b, n) /\ Settled(b, Following(n, j)) /\ Occupied(b) = Occupied(c) \ {j}
  <2>1. Settled(c, j) /\ j \in DOMAIN c
    BY <1>1, <1>9 DEF Settled
  <2> HIDE DEF c
  <2> QED BY <1>6, <1>10, <2>1, Freed
<1>13. \A i \in Occupied(b) : /\ i = p => b[i] = a[j]
                              /\ i # p => i \in Occupied(a) \ {j} /\ b[i] = a[i]
  BY <1>1, <1>4, <1>7, <1>11, <1>12 DEF Occupied
<1>14. Keyed(b)
  <2> SUFFICES ASSUME NEW i \in Occupied(b), NEW m \in Occupied(b), b[i].key = b[m].key
               PROVE  i = m
    BY DEF Keyed
  <2>1. CASE i # p /\ m # p
    BY <1>13, <2>1 DEF Keyed
  <2>2. CASE i = p /\ m # p
    BY <1>13, <2>2 DEF Keyed
  <2>3. CASE i # p /\ m = p
    BY <1>13, <2>3 DEF Keyed
  <2> QED BY <2>1, <2>2, <2>3
<1> QED BY <1>1, <1>4, <1>7, <1>11, <1>12, <1>13, <1>14

\* When the next cell is empty, every entry can be reached again.
LEMMA RunEnds ==
    ASSUME NEW a, NEW n, IsArray(a, n), NEW j \in DOMAIN a, Settled(a, j),
           ~CELL_OCCUPIED(a[j])
    PROVE  Probing(a)
<1> SUFFICES ASSUME NEW i \in Occupied(a), Filled(a, j, i) PROVE FALSE
  BY DEF Settled, Probing
<1>1. i \in 0 .. n - 1 /\ j \in 0 .. n - 1 /\ n \in Nat /\ i # j
  BY DEF IsArray, Occupied
<1>2. OnPath(j, i, j)
  BY <1>1 DEF OnPath
<1> QED BY <1>2 DEF Filled

\* An entry that is reached is not in question any more.
LEMMA Stays ==
    ASSUME NEW a, NEW n, IsArray(a, n), NEW j \in DOMAIN a, Settled(a, j), Reached(a, j)
    PROVE  Settled(a, Following(n, j))
<1>1. n \in Nat \ {0} /\ DOMAIN a = 0 .. n - 1
  BY DEF IsArray
<1> SUFFICES ASSUME NEW i \in Occupied(a), i # j, Filled(a, j, i)
             PROVE  Filled(a, Following(n, j), i)
  BY DEF Settled
<1>2. i \in 0 .. n - 1 /\ j \in 0 .. n - 1
  BY <1>1 DEF Occupied
<1>3. \A x \in 0 .. n - 1 : OnPath(Following(n, j), i, x) => OnPath(j, i, x)
  BY <1>1, <1>2, PathSuffix
<1> QED BY <1>1, <1>3 DEF Filled

(***************************************************************************)
(* Counting.                                                               *)
(***************************************************************************)
\* There are as many entries as keys, and no more than there may be keys.
LEMMA AsManyAsKeys ==
    ASSUME NEW a, NEW n, IsArray(a, n), Keyed(a)
    PROVE  /\ IsFiniteSet(Occupied(a)) /\ Cardinality(Occupied(a)) \in Nat
           /\ IsFiniteSet(KeysOf(a)) /\ KeysOf(a) \subseteq Keys
           /\ Cardinality(Occupied(a)) = Cardinality(KeysOf(a))
           /\ Cardinality(Keys) \in Nat
           /\ Cardinality(Occupied(a)) <= Cardinality(Keys)
<1>1. IsFiniteSet(DOMAIN a) /\ IsFiniteSet(Keys)
  BY SizeOfArray, RoomAssumption DEF IsArray
<1>2. IsFiniteSet(Occupied(a))
  BY <1>1, FS_Subset DEF Occupied
<1>3. KeysOf(a) \subseteq Keys
  BY DEF KeysOf, IsArray, Occupied, Cells, CELL_OCCUPIED
<1>4. IsFiniteSet(KeysOf(a)) /\ Cardinality(KeysOf(a)) <= Cardinality(Keys)
  BY <1>1, <1>3, FS_Subset
<1> DEFINE key == [i \in Occupied(a) |-> a[i].key]
<1>5. key \in Bijection(Occupied(a), KeysOf(a))
  <2>1. key \in [Occupied(a) -> KeysOf(a)]
    BY DEF KeysOf
  <2>2. \A i, j \in Occupied(a) : key[i] = key[j] => i = j
    BY DEF Keyed
  <2>3. \A q \in KeysOf(a) : \E i \in Occupied(a) : key[i] = q
    BY DEF KeysOf
  <2> QED BY <2>1, <2>2, <2>3, Fun_IsBij
<1>6. Cardinality(Occupied(a)) = Cardinality(KeysOf(a))
  BY <1>2, <1>5, FS_Bijection DEF ExistsBijection
<1> QED BY <1>1, <1>2, <1>3, <1>4, <1>6, FS_CardinalityType

\* A set without one of its elements, and with one more.
LEMMA CountChanges ==
    ASSUME NEW S, IsFiniteSet(S), NEW x
    PROVE  /\ x \in S => /\ IsFiniteSet(S \ {x}) /\ Cardinality(S \ {x}) = Cardinality(S) - 1
                         /\ Cardinality(S) \in Nat \ {0}
           /\ x \notin S => /\ IsFiniteSet(S \cup {x})
                            /\ Cardinality(S \cup {x}) = Cardinality(S) + 1
<1>1. ASSUME x \in S
      PROVE  /\ IsFiniteSet(S \ {x}) /\ Cardinality(S \ {x}) = Cardinality(S) - 1
             /\ Cardinality(S) \in Nat \ {0}
  <2>1. Cardinality(S) \in Nat /\ Cardinality(S \ {x}) \in Nat /\ IsFiniteSet(S \ {x})
    BY FS_CardinalityType, FS_RemoveElement
  <2>2. Cardinality(S \ {x}) = Cardinality(S) - 1
    BY <1>1, FS_RemoveElement
  <2> QED BY <2>1, <2>2
<1>2. x \notin S => IsFiniteSet(S \cup {x}) /\ Cardinality(S \cup {x}) = Cardinality(S) + 1
  BY FS_AddElement
<1> QED BY <1>1, <1>2

\* A table that is not fuller than its threshold has an empty cell.
LEMMA NotFull ==
    ASSUME NEW a, NEW n, IsArray(a, n), NEW c \in Nat, c <= Threshold(n),
           Cardinality(Occupied(a)) <= c, Cardinality(Occupied(a)) \in Nat
    PROVE  Occupied(a) # DOMAIN a
<1>1. n \in Nat \ {0} /\ Cardinality(DOMAIN a) = n
  BY SizeOfArray DEF IsArray
<1>2. Threshold(n) < n /\ Threshold(n) \in Nat
  BY <1>1 DEF Threshold
<1> QED BY <1>1, <1>2

(***************************************************************************)
(* Sizes.                                                                  *)
(***************************************************************************)
\* A table is never full, and one twice as large takes at least one entry more.
LEMMA Thresholds ==
    ASSUME NEW m \in Nat, NEW n \in Nat, m > 1
    PROVE  /\ Threshold(m) \in Nat /\ Threshold(m) < m
           /\ 2 * m <= n => Threshold(m) + 1 <= Threshold(n)
           /\ n <= m => Threshold(n) <= Threshold(m)
BY DEF Threshold

\* prime_size finds a size where there is one.
LEMMA SizeFound ==
    ASSUME NEW n \in Nat, NEW offset \in Nat,
           \E i \in DOMAIN primes : i >= offset /\ primes[i] >= n
    PROVE  /\ prime_size(n, offset) \in DOMAIN primes /\ prime_size(n, offset) >= offset
           /\ primes[prime_size(n, offset)] >= n
<1> DEFINE Large == {i \in DOMAIN primes : i >= offset /\ primes[i] >= n}
<1>1. Large \in SUBSET Nat /\ Large # {}
  BY PrimesAssumption
<1>2. PICK i \in Large : \A j \in Large : i <= j
  BY <1>1, LeastNumber
<1>3. \A j \in DOMAIN primes : j >= offset /\ j < i => primes[j] < n
  <2> SUFFICES ASSUME NEW j \in DOMAIN primes, j >= offset, j < i, ~(primes[j] < n)
               PROVE  FALSE
    OBVIOUS
  <2>1. primes[j] \in Nat /\ j \in Nat /\ i \in Nat
    BY <1>1, PrimesAssumption
  <2>2. j \in Large
    BY <2>1
  <2> QED BY <1>2, <2>1, <2>2
<1>4. \E k \in DOMAIN primes : /\ k >= offset /\ primes[k] >= n
                               /\ \A j \in DOMAIN primes : j >= offset /\ j < k => primes[j] < n
  BY <1>2, <1>3
<1> QED BY <1>4 DEF prime_size

\* There is a larger size as long as there are keys that are not in the table.
LEMMA RoomToGrow ==
    ASSUME NEW i \in DOMAIN primes, Threshold(primes[i]) < Cardinality(Keys)
    PROVE  LET j == prime_size(2 * primes[i], i + 1)
           IN  j \in DOMAIN primes /\ primes[j] >= 2 * primes[i]
<1> DEFINE n == primes[i]
<1>1. PICK r \in DOMAIN primes : /\ Cardinality(Keys) <= Threshold(primes[r])
                                /\ \A j \in DOMAIN primes : j < r => 2 * primes[j] <= primes[r]
  BY RoomAssumption
<1>2. n \in Nat /\ n > 1 /\ primes[r] \in Nat /\ primes[r] > 1 /\ r \in Nat /\ i \in Nat
  BY PrimesAssumption
<1>3. Cardinality(Keys) \in Nat
  BY RoomAssumption, FS_CardinalityType
<1>4. ~(primes[r] <= n)
  BY <1>1, <1>2, <1>3, Thresholds
<1>5. i < r
  <2>1. i = r \/ r < i => primes[r] <= n
    BY <1>2, PrimesAssumption
  <2> QED BY <1>2, <1>4, <2>1
<1>6. r >= i + 1 /\ primes[r] >= 2 * n /\ 2 * n \in Nat /\ i + 1 \in Nat
  BY <1>1, <1>2, <1>5
<1> QED BY <1>6, SizeFound

\* The next cell, with wrap-around.
LEMMA NextCell ==
    ASSUME NEW n \in Nat, n > 1, size = n, NEW j \in 0 .. n - 1
    PROVE  NEXT_CELL(j) = Following(n, j) /\ NEXT_CELL(j) \in 0 .. n - 1
<1>1. (j + 1) % n = IF j + 1 < n THEN j + 1 ELSE j + 1 - n
  <2>1. n \in Nat \ {0} /\ 1 \in 0 .. n - 1
    OBVIOUS
  <2> QED BY <2>1, ModWrap
<1> QED BY <1>1 DEF NEXT_CELL, Following

(***************************************************************************)
(* The invariant.  CellsSound is not inductive: during a removal and while *)
(* the table grows it says nothing of the entries.                         *)
(***************************************************************************)
Sized(i) ==
    /\ i \in DOMAIN primes /\ IsArray(cells, primes[i])
    /\ prime_offset = i + 1 /\ resize_threshold = Threshold(primes[i])

Counted == count = Cardinality(Occupied(cells)) /\ count <= resize_threshold

\* The old cells that hold an entry still to be moved.
Left == {j \in Occupied(old) : at <= j}

Moving(m) ==
    /\ IsArray(old, m) /\ Keyed(old) /\ m <= size /\ at \in 0 .. m
    /\ Probing(cells)
    /\ pending \in [key : Keys, value : Values] /\ pending.key \notin KeysOf(cells)
    /\ \A j \in Left : old[j].key \notin KeysOf(cells) /\ old[j].key # pending.key
    /\ count = Cardinality(Occupied(cells)) + Cardinality(Left)
    /\ count + 1 <= resize_threshold

Walking ==
    /\ walk \in Values \cup {NoValue} /\ pos \in 0 .. size
    /\ seen # NoValue => pos < size

Stage ==
    \/ pc = "ready" /\ at = 0 /\ Probing(cells) /\ Counted
    \/ pc = "rehash" /\ at \in 0 .. size - 1 /\ Settled(cells, at) /\ Counted
    \/ pc = "grow" /\ \E m \in Nat : Moving(m)

Inv ==
    /\ hash_function \in [Keys -> Nat] /\ (\E i \in DOMAIN primes : Sized(i))
    /\ Keyed(cells) /\ count \in 0 .. Cardinality(Keys)
    /\ Walking /\ Stage

\* What is said of the cells changes with the cells only.
LEMMA SameHash ==
    ASSUME hash_function' = hash_function
    PROVE  /\ Probing(cells)' <=> Probing(cells')
           /\ Settled(cells, at)' <=> Settled(cells', at')
<1>1. \A k : Home(cells, k)' = Home(cells', k)
  BY DEF Home, HASH_POSITION
<1> QED BY <1>1 DEF Probing, Settled, Reached, Filled

\* There is always an empty cell, so that probing ends.
LEMMA EmptyCell ==
    ASSUME Inv
    PROVE  Occupied(cells) # DOMAIN cells
<1>1. PICK i \in DOMAIN primes : Sized(i)
  BY DEF Inv
<1>2. Keyed(cells) /\ IsArray(cells, primes[i]) /\ resize_threshold = Threshold(primes[i])
      /\ count \in Nat
  BY <1>1, AsManyAsKeys DEF Inv, Sized
<1>3. Cardinality(Occupied(cells)) \in Nat
  BY <1>2, AsManyAsKeys
<1>4. Cardinality(Occupied(cells)) <= count /\ count <= Threshold(primes[i])
  <2>1. CASE pc # "grow"
    BY <1>2, <1>3, <2>1 DEF Inv, Stage, Counted
  <2>2. CASE pc = "grow"
    <3>1. PICK m \in Nat : Moving(m)
      BY <2>2 DEF Inv, Stage
    <3>2. IsFiniteSet(Occupied(old))
      BY <3>1, AsManyAsKeys DEF Moving
    <3>3. Cardinality(Left) \in Nat
      BY <3>2, FS_Subset, FS_CardinalityType DEF Left
    <3>4. Threshold(primes[i]) \in Nat
      BY PrimesAssumption, Thresholds
    <3> QED BY <1>2, <1>3, <3>1, <3>3, <3>4 DEF Moving
  <2> QED BY <2>1, <2>2
<1> QED BY <1>2, <1>3, <1>4, NotFull

\* A table that has just been made.
LEMMA NewTable ==
    ASSUME NEW n \in Nat \ {0}
    PROVE  /\ IsArray(Cleared(n), n) /\ Keyed(Cleared(n)) /\ Probing(Cleared(n))
           /\ Occupied(Cleared(n)) = {} /\ KeysOf(Cleared(n)) = {}
<1>1. Occupied(Cleared(n)) = {}
  BY DEF Occupied, Cleared, CELL_OCCUPIED
<1>2. IsArray(Cleared(n), n)
  BY DEF IsArray, Cleared, Cells
<1> QED BY <1>1, <1>2 DEF Keyed, Probing, KeysOf

\* hash_table_new makes such a table.
LEMMA InvInit == Init => Inv
<1> SUFFICES ASSUME Init PROVE Inv
  OBVIOUS
<1>1. PICK items \in Items :
        LET i == prime_size(1 + (items * 4) \div 3, 1) IN
        /\ cells = Cleared(primes[i]) /\ prime_offset = i + 1
        /\ resize_threshold = Threshold(primes[i])
  BY DEF Init
<1> DEFINE wanted == 1 + (items * 4) \div 3
           i == prime_size(wanted, 1)
           n == primes[i]
<1>2. wanted \in Nat
  BY ItemsAssumption
<1>3. \E r \in DOMAIN primes : r >= 1 /\ primes[r] >= wanted
  <2>1. PICK r \in DOMAIN primes : wanted <= primes[r]
    BY RoomAssumption
  <2>2. r \in Nat \ {0} /\ primes[r] \in Nat
    BY PrimesAssumption
  <2> QED BY <1>2, <2>1, <2>2
<1>4. i \in DOMAIN primes
  <2> HIDE DEF wanted
  <2> QED BY <1>2, <1>3, SizeFound
<1>5. n \in Nat /\ n > 1
  BY <1>4, PrimesAssumption
<1> HIDE DEF i, n
<1>6. cells = Cleared(n) /\ prime_offset = i + 1 /\ resize_threshold = Threshold(n)
  BY <1>1 DEF i, n
<1>7. /\ IsArray(cells, n) /\ Keyed(cells) /\ Probing(cells) /\ Occupied(cells) = {}
  BY <1>5, <1>6, NewTable
<1>8. Cardinality(Occupied(cells)) = 0 /\ Cardinality(Keys) \in Nat
  BY <1>7, FS_EmptySet, RoomAssumption, FS_CardinalityType
<1>9. size = n
  BY <1>7, SizeOfArray DEF IsArray, size
<1>10. Counted
  BY <1>5, <1>6, <1>8, Thresholds DEF Counted, Init
<1>11. hash_function \in [Keys -> Nat] /\ Sized(i)
  BY <1>4, <1>6, <1>7, HashesAssumption DEF Init, Sized, n
<1> QED BY <1>4, <1>5, <1>7, <1>8, <1>9, <1>10, <1>11 DEF Inv, Init, Stage, Walking

(***************************************************************************)
(* Steps.                                                                  *)
(***************************************************************************)
\* The size that the other fields stand for is the size of the array.
LEMMA SizeOfTable ==
    ASSUME NEW i \in DOMAIN primes, Sized(i)
    PROVE  /\ size = primes[i] /\ primes[i] \in Nat /\ primes[i] > 1
           /\ DOMAIN cells = 0 .. primes[i] - 1 /\ IsArray(cells, primes[i])
<1>1. primes[i] \in Nat /\ primes[i] > 1
  BY PrimesAssumption
<1>2. IsArray(cells, primes[i])
  BY DEF Sized
<1>3. Cardinality(0 .. primes[i] - 1) = primes[i]
  BY <1>1, SizeOfArray
<1> QED BY <1>1, <1>2, <1>3 DEF IsArray, size

\* Steps that leave the table alone.
LEMMA TableUntouched ==
    ASSUME Inv, UNCHANGED <<hash_function, cells, count, sizing, growing, at, pc>>, Walking'
    PROVE  Inv'
<1>1. \A i : Sized(i)' <=> Sized(i)
  BY DEF Sized, sizing
<1>2. Keyed(cells)' /\ (count \in 0 .. Cardinality(Keys))' /\ (hash_function \in [Keys -> Nat])'
  BY DEF Inv
<1>3. (Probing(cells)' <=> Probing(cells)) /\ (Settled(cells, at)' <=> Settled(cells, at))
  BY SameHash
<1>4. (Counted' <=> Counted) /\ size' = size
  BY DEF Counted, sizing, size
<1>5. \A m : Moving(m)' <=> Moving(m)
  <2>1. Left' = Left /\ old' = old /\ pending' = pending /\ resize_threshold' = resize_threshold
    BY DEF Left, growing, sizing
  <2> QED BY <1>3, <1>4, <2>1 DEF Moving
<1>6. Stage'
  BY <1>3, <1>4, <1>5 DEF Inv, Stage
<1> QED BY <1>1, <1>2, <1>6 DEF Inv

\* Steps that leave the size alone and end or begin a removal or an addition.
LEMMA TableChanged ==
    ASSUME NEW i \in DOMAIN primes, Sized(i), hash_function \in [Keys -> Nat],
           UNCHANGED <<hash_function, sizing>>, IsArray(cells', primes[i]), Keyed(cells'),
           count' = Cardinality(Occupied(cells')), count' <= resize_threshold,
           walk' \in Values \cup {NoValue}, pos' \in 0 .. primes[i],
           seen' # NoValue => pos' < primes[i],
           \/ pc' = "ready" /\ at' = 0 /\ Probing(cells')
           \/ pc' = "rehash" /\ at' \in 0 .. primes[i] - 1 /\ Settled(cells', at')
    PROVE  Inv'
<1>1. Sized(i)'
  BY DEF Sized, sizing
<1>2. size' = primes[i]
  BY <1>1, SizeOfArray, PrimesAssumption DEF Sized, IsArray, size
<1>3. Counted'
  BY DEF Counted, sizing
<1>4. count' \in 0 .. Cardinality(Keys)
  BY AsManyAsKeys
<1>5. Stage'
  BY <1>2, <1>3, SameHash DEF Stage
<1>6. Walking'
  BY <1>2 DEF Walking
<1> QED BY <1>1, <1>4, <1>5, <1>6 DEF Inv

\* What the invariant says between operations and in a walk.
LEMMA WhenReady ==
    ASSUME Inv, pc = "ready"
    PROVE  /\ Probing(cells) /\ Keyed(cells) /\ at = 0 /\ hash_function \in [Keys -> Nat]
           /\ count = Cardinality(Occupied(cells)) /\ count <= resize_threshold
           /\ count \in Nat /\ Occupied(cells) # DOMAIN cells
           /\ \A i \in Occupied(cells) : find_cell(cells[i].key) = i
           /\ \A k \in Keys : find_cell(k) \in Occupied(cells) <=> k \in KeysOf(cells)
<1>1. PICK i \in DOMAIN primes : Sized(i)
  BY DEF Inv
<1>2. IsArray(cells, primes[i])
  BY <1>1, SizeOfTable
<1>3. /\ Probing(cells) /\ Keyed(cells) /\ at = 0 /\ hash_function \in [Keys -> Nat]
      /\ count = Cardinality(Occupied(cells)) /\ count <= resize_threshold
  BY DEF Inv, Stage, Counted
<1>4. count \in Nat
  BY <1>2, <1>3, AsManyAsKeys
<1>5. Occupied(cells) # DOMAIN cells
  BY EmptyCell
<1> QED BY <1>2, <1>3, <1>4, <1>5, EntriesFound DEF find_cell

\* A cell is freed: the entries after it may not be reached any more.
LEMMA FreeStep ==
    ASSUME Inv, pc = "ready", NEW j \in Occupied(cells), Free(j),
           UNCHANGED <<hash_function, sizing, walk, pos>>, seen' # NoValue => pos < size
    PROVE  Inv'
<1>1. PICK i \in DOMAIN primes : Sized(i)
  BY DEF Inv
<1> DEFINE n == primes[i]
<1>2. size = n /\ n \in Nat /\ n > 1 /\ DOMAIN cells = 0 .. n - 1 /\ IsArray(cells, n)
  BY <1>1, SizeOfTable
<1> HIDE DEF n
<1>3. j \in DOMAIN cells /\ j \in 0 .. n - 1
  BY <1>2 DEF Occupied
<1>4. Probing(cells) /\ Keyed(cells) /\ hash_function \in [Keys -> Nat]
      /\ count = Cardinality(Occupied(cells)) /\ count <= resize_threshold /\ count \in Nat
  BY WhenReady
<1>5. Settled(cells, j) /\ cells' = [cells EXCEPT ![j] = Empty]
  BY <1>4 DEF Probing, Settled, Free
<1>6. /\ IsArray(cells', n) /\ Settled(cells', Following(n, j))
      /\ Occupied(cells') = Occupied(cells) \ {j}
      /\ \A q \in Occupied(cells') : cells'[q] = cells[q]
  <2>1. IsArray(cells', n) /\ Settled(cells', Following(n, j))
    BY <1>2, <1>3, <1>4, <1>5, Freed
  <2>2. Occupied(cells') = Occupied(cells) \ {j}
    BY <1>2, <1>3, <1>4, <1>5, Freed
  <2>3. \A q \in Occupied(cells') : cells'[q] = cells[q]
    BY <1>2, <1>5, <2>2 DEF Occupied
  <2> QED BY <2>1, <2>2, <2>3
<1>7. at' = Following(n, j) /\ at' \in 0 .. n - 1 /\ pc' = "rehash"
  BY <1>2, <1>3, NextCell DEF Free
<1>8. Keyed(cells')
  BY <1>4, <1>6 DEF Keyed
<1>9. count' = count - 1 /\ count' = Cardinality(Occupied(cells'))
  BY <1>2, <1>4, <1>6, AsManyAsKeys, CountChanges DEF Free
<1>10. count' <= resize_threshold
  <2>1. resize_threshold \in Nat
    BY <1>1, <1>2, Thresholds DEF Sized, n
  <2> QED BY <1>4, <1>9, <2>1
<1>11. walk' \in Values \cup {NoValue} /\ pos' \in 0 .. n /\ (seen' # NoValue => pos' < n)
  BY <1>2 DEF Inv, Walking
<1> QED BY <1>1, <1>4, <1>6, <1>7, <1>8, <1>9, <1>10, <1>11, TableChanged DEF n

\* The entry at the next cell stays or moves, or there is none.
LEMMA RehashStep == Inv /\ Rehash => Inv'
<1> SUFFICES ASSUME Inv, Rehash PROVE Inv'
  OBVIOUS
<1>1. PICK i \in DOMAIN primes : Sized(i)
  BY DEF Inv
<1> DEFINE n == primes[i]
<1>2. size = n /\ n \in Nat /\ n > 1 /\ DOMAIN cells = 0 .. n - 1 /\ IsArray(cells, n)
  BY <1>1, SizeOfTable
<1> HIDE DEF n
<1>3. /\ at \in 0 .. n - 1 /\ Settled(cells, at) /\ Keyed(cells)
      /\ hash_function \in [Keys -> Nat] /\ Occupied(cells) # DOMAIN cells
      /\ count = Cardinality(Occupied(cells)) /\ count <= resize_threshold
  BY <1>2, EmptyCell DEF Inv, Stage, Counted, Rehash
<1>4. UNCHANGED <<hash_function, sizing, count>>
  BY DEF Rehash
<1>5. walk' \in Values \cup {NoValue} /\ pos' \in 0 .. n /\ (seen' # NoValue => pos' < n)
  BY <1>2 DEF Inv, Walking, Rehash, walking
<1>6. CASE ~CELL_OCCUPIED(cells[at])
  <2>1. cells' = cells /\ pc' = "ready" /\ at' = 0
    BY <1>6 DEF Rehash
  <2>2. Probing(cells)
    BY <1>2, <1>3, <1>6, RunEnds
  <2> QED BY <1>1, <1>2, <1>3, <1>4, <1>5, <2>1, <2>2, TableChanged DEF n
<1>7. CASE CELL_OCCUPIED(cells[at])
  <2> DEFINE p == find_cell(cells[at].key)
  <2>1. /\ pc' = "rehash" /\ at' = NEXT_CELL(at)
        /\ cells' = IF p = at THEN cells ELSE [cells EXCEPT ![p] = cells[at], ![at] = Empty]
    BY <1>7 DEF Rehash
  <2>2. at' = Following(n, at) /\ at' \in 0 .. n - 1
    BY <1>2, <1>3, <2>1, NextCell
  <2>3. at \in Occupied(cells) /\ cells[at].key \in Keys
    BY <1>2, <1>3, <1>7 DEF Occupied, IsArray, Cells, CELL_OCCUPIED
  <2>4. p = Probe(cells, cells[at].key)
    BY DEF find_cell
  <2>5. CASE p = at
    <3>1. Stops(cells, cells[at].key, at)
      BY <1>2, <1>3, <2>3, <2>4, <2>5, ProbeStops
    <3>2. Reached(cells, at)
      BY <3>1 DEF Stops, Reached, Filled
    <3>3. Settled(cells, Following(n, at))
      BY <1>2, <1>3, <3>2, Stays
    <3> QED BY <1>1, <1>2, <1>3, <1>4, <1>5, <2>1, <2>2, <2>5, <3>3, TableChanged DEF n
  <2>6. CASE p # at
    <3> HIDE DEF p
    <3>0. cells' = [cells EXCEPT ![p] = cells[at], ![at] = Empty]
      BY <2>1, <2>6
    <3>1. /\ IsArray(cells', n) /\ Keyed(cells') /\ Settled(cells', Following(n, at))
          /\ p \in DOMAIN cells \ Occupied(cells)
          /\ Occupied(cells') = (Occupied(cells) \cup {p}) \ {at}
      <4>0. cells' = [x \in 0 .. n - 1 |-> IF x = at THEN Empty
                                          ELSE IF x = p THEN cells[at] ELSE cells[x]]
        BY <1>2, <2>6, <3>0
      <4>1. IsArray(cells', n) /\ Keyed(cells') /\ Settled(cells', Following(n, at))
        BY <1>2, <1>3, <2>3, <2>4, <2>6, <4>0, Moved
      <4>2. p \in DOMAIN cells \ Occupied(cells)
        BY <1>2, <1>3, <2>3, <2>4, <2>6, <4>0, Moved
      <4>3. Occupied(cells') = (Occupied(cells) \cup {p}) \ {at}
        BY <1>2, <2>3, <4>0, <4>2 DEF Occupied, CELL_OCCUPIED
      <4> QED BY <4>1, <4>2, <4>3
    <3>2. Cardinality(Occupied(cells')) = Cardinality(Occupied(cells))
      <4> DEFINE O == Occupied(cells)
      <4>1. IsFiniteSet(O) /\ Cardinality(O) \in Nat
        BY <1>2, <1>3, AsManyAsKeys
      <4>2. p \notin O /\ at \in O /\ Occupied(cells') = (O \cup {p}) \ {at}
        BY <2>3, <3>1
      <4> HIDE DEF O
      <4>3. IsFiniteSet(O \cup {p}) /\ Cardinality(O \cup {p}) = Cardinality(O) + 1
        BY <4>1, <4>2, CountChanges
      <4>4. Cardinality((O \cup {p}) \ {at}) = Cardinality(O \cup {p}) - 1
        BY <4>2, <4>3, CountChanges
      <4> QED BY <4>1, <4>2, <4>3, <4>4 DEF O
    <3> QED BY <1>1, <1>2, <1>3, <1>4, <1>5, <2>1, <2>2, <3>1, <3>2, TableChanged DEF n
  <2> QED BY <2>5, <2>6
<1> QED BY <1>6, <1>7

\* An entry is put where there is room for it, or in place of one.
LEMMA PutStep ==
    ASSUME Inv, pc = "ready", NEW e \in [key : Keys, value : Values],
           cells' = [cells EXCEPT ![find_cell(e.key)] = e],
           \/ e.key \in KeysOf(cells) /\ count' = count
           \/ e.key \notin KeysOf(cells) /\ count' = count + 1 /\ count < resize_threshold,
           UNCHANGED <<hash_function, sizing, at, pc, walking>>
    PROVE  Inv'
<1>1. PICK i \in DOMAIN primes : Sized(i)
  BY DEF Inv
<1> DEFINE n == primes[i]
           p == find_cell(e.key)
<1>2. size = n /\ n \in Nat /\ n > 1 /\ DOMAIN cells = 0 .. n - 1 /\ IsArray(cells, n)
  BY <1>1, SizeOfTable
<1> HIDE DEF n
<1>3. /\ Probing(cells) /\ Keyed(cells) /\ at = 0 /\ hash_function \in [Keys -> Nat]
      /\ count = Cardinality(Occupied(cells)) /\ count <= resize_threshold
      /\ count \in Nat /\ Occupied(cells) # DOMAIN cells
      /\ \A k \in Keys : find_cell(k) \in Occupied(cells) <=> k \in KeysOf(cells)
  BY WhenReady
<1>4. cells' = [cells EXCEPT ![Probe(cells, e.key)] = e]
  BY DEF find_cell
<1>5. IsArray(cells', n) /\ Keyed(cells') /\ Probing(cells')
  BY <1>2, <1>3, <1>4, Put
<1>6. Occupied(cells') = Occupied(cells) \cup {p}
  BY <1>2, <1>3, <1>4, Put DEF find_cell
<1>7. p \in Occupied(cells) <=> e.key \in KeysOf(cells)
  BY <1>3
<1>8. IsFiniteSet(Occupied(cells))
  BY <1>2, <1>3, AsManyAsKeys
<1> HIDE DEF p
<1>9. count' = Cardinality(Occupied(cells'))
  <2>1. CASE e.key \in KeysOf(cells)
    <3>1. Occupied(cells') = Occupied(cells)
      BY <1>6, <1>7, <2>1
    <3> QED BY <1>3, <2>1, <3>1
  <2>2. CASE e.key \notin KeysOf(cells)
    BY <1>3, <1>6, <1>7, <1>8, <2>2, CountChanges
  <2> QED BY <2>1, <2>2
<1>10. count' <= resize_threshold
  <2>1. resize_threshold \in Nat
    BY <1>1, <1>2, Thresholds DEF Sized, n
  <2> QED BY <1>3, <2>1
<1>11. walk' \in Values \cup {NoValue} /\ pos' \in 0 .. n /\ (seen' # NoValue => pos' < n)
  BY <1>2 DEF Inv, Walking, walking
<1> QED BY <1>1, <1>3, <1>5, <1>9, <1>10, <1>11, TableChanged DEF n, sizing

\* The table is too full for a new key: its entries are to be moved to a larger one.
LEMMA GrowStep ==
    ASSUME Inv, pc = "ready", NEW e \in [key : Keys, value : Values],
           e.key \notin KeysOf(cells), ~(count < resize_threshold),
           NEW r, r = prime_size(2 * size, prime_offset),
           old' = cells, cells' = Cleared(primes[r]), prime_offset' = r + 1,
           resize_threshold' = Threshold(primes[r]), at' = 0, pending' = e, pc' = "grow",
           UNCHANGED <<hash_function, count, walking>>
    PROVE  Inv'
<1>1. PICK i \in DOMAIN primes : Sized(i)
  BY DEF Inv
<1> DEFINE n == primes[i]
           m == primes[r]
<1>2. size = n /\ n \in Nat /\ n > 1 /\ DOMAIN cells = 0 .. n - 1 /\ IsArray(cells, n)
  BY <1>1, SizeOfTable
<1>3. prime_offset = i + 1 /\ resize_threshold = Threshold(n) /\ Threshold(n) \in Nat
  BY <1>1, <1>2, Thresholds DEF Sized
<1>4. /\ Keyed(cells) /\ hash_function \in [Keys -> Nat]
      /\ count = Cardinality(Occupied(cells)) /\ count \in Nat /\ count <= resize_threshold
  BY WhenReady
<1>5. count = Threshold(n)
  BY <1>3, <1>4
<1>6. count + 1 <= Cardinality(Keys) /\ Cardinality(Keys) \in Nat
  <2>1. /\ IsFiniteSet(KeysOf(cells)) /\ KeysOf(cells) \subseteq Keys
        /\ Cardinality(KeysOf(cells)) = count /\ Cardinality(Keys) \in Nat
    BY <1>2, <1>4, AsManyAsKeys
  <2>2. IsFiniteSet(KeysOf(cells) \cup {e.key}) /\ Cardinality(KeysOf(cells) \cup {e.key}) = count + 1
    BY <2>1, CountChanges
  <2>3. KeysOf(cells) \cup {e.key} \subseteq Keys
    BY <2>1
  <2>4. Cardinality(KeysOf(cells) \cup {e.key}) <= Cardinality(Keys)
    BY <2>2, <2>3, RoomAssumption, FS_Subset
  <2> QED BY <2>1, <2>2, <2>4
<1>7. r \in DOMAIN primes /\ m >= 2 * n
  <2>1. Threshold(primes[i]) < Cardinality(Keys)
    BY <1>4, <1>5, <1>6
  <2>2. r = prime_size(2 * primes[i], i + 1)
    BY <1>2, <1>3
  <2> QED BY <2>1, <2>2, RoomToGrow
<1>8. m \in Nat /\ m > 1
  BY <1>7, PrimesAssumption
<1>9. count + 1 <= Threshold(m)
  <2>1. Threshold(n) + 1 <= Threshold(m)
    BY <1>2, <1>7, <1>8, Thresholds
  <2> QED BY <1>5, <2>1
<1> HIDE DEF n, m
<1>10. IsArray(cells', m) /\ Keyed(cells') /\ Occupied(cells') = {} /\ KeysOf(cells') = {}
  BY <1>8, NewTable DEF m
<1>11. Probing(cells')
  BY <1>8, NewTable DEF m
<1>12. size' = m
  BY <1>8, <1>10, SizeOfArray DEF IsArray, size
<1>13. Sized(r)'
  BY <1>7, <1>10 DEF Sized, m
<1>14. Left' = Occupied(cells)
  BY <1>2 DEF Left, Occupied
<1>15. IsArray(old', n) /\ Keyed(old') /\ n <= m
  BY <1>2, <1>4, <1>7, <1>8
<1>16. count' = Cardinality(Occupied(cells')) + Cardinality(Left')
  BY <1>4, <1>10, <1>14, FS_EmptySet
<1>17. \A j \in Left' : old'[j].key # e.key
  BY <1>14 DEF KeysOf
<1>18. Probing(cells)'
  BY <1>11, SameHash
<1>19. Moving(n)'
  BY <1>2, <1>9, <1>10, <1>12, <1>15, <1>16, <1>17, <1>18 DEF Moving, m
<1>20. Walking'
  BY <1>2, <1>7, <1>8, <1>12 DEF Inv, Walking, walking
<1>21. count' \in 0 .. Cardinality(Keys)
  BY <1>4, <1>6
<1> QED BY <1>2, <1>4, <1>7, <1>10, <1>13, <1>19, <1>20, <1>21 DEF Inv, Stage

\* The next old entry is moved, or all are and the new one is added.
LEMMA MoveStep == Inv /\ grow_hash_table => Inv'
<1> SUFFICES ASSUME Inv, grow_hash_table PROVE Inv'
  OBVIOUS
<1>1. PICK i \in DOMAIN primes : Sized(i)
  BY DEF Inv
<1>2. PICK m \in Nat : Moving(m)
  BY DEF Inv, Stage, grow_hash_table
<1> DEFINE n == primes[i]
<1>3. size = n /\ n \in Nat /\ n > 1 /\ DOMAIN cells = 0 .. n - 1 /\ IsArray(cells, n)
  BY <1>1, SizeOfTable
<1> HIDE DEF n
<1>4. /\ Probing(cells) /\ Keyed(cells) /\ hash_function \in [Keys -> Nat]
      /\ count \in 0 .. Cardinality(Keys) /\ Occupied(cells) # DOMAIN cells
  BY <1>2, EmptyCell DEF Inv, Moving
<1>5. /\ IsArray(old, m) /\ Keyed(old) /\ m <= n /\ at \in 0 .. m /\ DOMAIN old = 0 .. m - 1
      /\ pending \in [key : Keys, value : Values] /\ pending.key \notin KeysOf(cells)
      /\ \A j \in Left : old[j].key \notin KeysOf(cells) /\ old[j].key # pending.key
      /\ count = Cardinality(Occupied(cells)) + Cardinality(Left)
      /\ count + 1 <= resize_threshold
  BY <1>2, <1>3 DEF Moving, IsArray
<1>6. /\ IsFiniteSet(Occupied(cells)) /\ Cardinality(Occupied(cells)) \in Nat
      /\ IsFiniteSet(Left) /\ Cardinality(Left) \in Nat
  <2>1. IsFiniteSet(Occupied(cells)) /\ IsFiniteSet(Occupied(old))
    BY <1>3, <1>4, <1>5, AsManyAsKeys
  <2>2. IsFiniteSet(Left)
    BY <2>1, FS_Subset DEF Left
  <2> QED BY <2>1, <2>2, FS_CardinalityType
<1>7. UNCHANGED <<hash_function, sizing, walking>>
  BY DEF grow_hash_table
<1>8. walk' \in Values \cup {NoValue} /\ pos' \in 0 .. n /\ (seen' # NoValue => pos' < n)
  BY <1>3, <1>7 DEF Inv, Walking, walking
<1>9. \A e \in [key : Keys, value : Values] : e.key \in Keys /\ CELL_OCCUPIED(e)
  BY ValuesAssumption DEF CELL_OCCUPIED, Empty
\* An entry whose key the table does not hold adds one.
<1>10. ASSUME NEW e \in [key : Keys, value : Values], e.key \notin KeysOf(cells),
              cells' = [cells EXCEPT ![find_cell(e.key)] = e]
       PROVE  /\ IsArray(cells', n) /\ Keyed(cells') /\ Probing(cells')
              /\ KeysOf(cells') = KeysOf(cells) \cup {e.key}
              /\ Cardinality(Occupied(cells')) = Cardinality(Occupied(cells)) + 1
  <2>1. cells' = [cells EXCEPT ![Probe(cells, e.key)] = e]
    BY <1>10 DEF find_cell
  <2>2. IsArray(cells', n) /\ Keyed(cells') /\ Probing(cells')
    BY <1>3, <1>4, <2>1, Put
  <2>3. /\ Occupied(cells') = Occupied(cells) \cup {Probe(cells, e.key)}
        /\ KeysOf(cells') = KeysOf(cells) \cup {e.key}
    BY <1>3, <1>4, <2>1, Put
  <2>4. Probe(cells, e.key) \notin Occupied(cells)
    BY <1>3, <1>4, <1>10, EntriesFound
  <2>5. Cardinality(Occupied(cells')) = Cardinality(Occupied(cells)) + 1
    BY <1>6, <2>3, <2>4, CountChanges
  <2> QED BY <2>2, <2>3, <2>5
<1>11. CASE at \in DOMAIN old
  <2>1. /\ cells' = IF CELL_OCCUPIED(old[at])
                   THEN [cells EXCEPT ![find_cell(old[at].key)] = old[at]] ELSE cells
        /\ at' = at + 1 /\ UNCHANGED <<old, pending, count, pc>> /\ pc = "grow"
    BY <1>11 DEF grow_hash_table
  <2>2. at \in 0 .. m - 1 /\ at' \in 0 .. m
    BY <1>5, <1>11, <2>1
  <2>3. /\ IsArray(cells', n) /\ Keyed(cells') /\ Probing(cells')
        /\ \A j \in Left' : j \in Left /\ old[j].key \notin KeysOf(cells')
        /\ pending.key \notin KeysOf(cells')
        /\ count = Cardinality(Occupied(cells')) + Cardinality(Left')
    <3>1. CASE ~CELL_OCCUPIED(old[at])
      <4>1. cells' = cells
        BY <2>1, <3>1
      <4>2. Left' = Left
        BY <1>5, <2>1, <2>2, <3>1 DEF Left, Occupied
      <4> QED BY <1>3, <1>4, <1>5, <4>1, <4>2
    <3>2. CASE CELL_OCCUPIED(old[at])
      <4>1. at \in Left
        BY <1>5, <1>11, <2>2, <3>2 DEF Left, Occupied
      <4>2. Left' = Left \ {at}
        <5>1. \A j \in Occupied(old) : j \in 0 .. m - 1
          BY <1>5 DEF Occupied
        <5>2. old' = old /\ at' = at + 1 /\ at \in Nat /\ m \in Nat
          BY <2>1, <2>2
        <5>3. \A j \in Occupied(old) : at + 1 <= j <=> at <= j /\ j # at
          BY <5>1, <5>2
        <5> QED BY <5>2, <5>3 DEF Left
      <4>3. old[at] \in [key : Keys, value : Values]
        BY <1>5, <2>2, <3>2 DEF IsArray, Cells, CELL_OCCUPIED
      <4>4. old[at].key \notin KeysOf(cells) /\ old[at].key # pending.key
        BY <1>5, <4>1
      <4>5. cells' = [cells EXCEPT ![find_cell(old[at].key)] = old[at]]
        BY <2>1, <3>2
      <4>6. /\ IsArray(cells', n) /\ Keyed(cells') /\ Probing(cells')
            /\ KeysOf(cells') = KeysOf(cells) \cup {old[at].key}
            /\ Cardinality(Occupied(cells')) = Cardinality(Occupied(cells)) + 1
        BY <1>10, <4>3, <4>4, <4>5
      <4>7. \A j \in Left' : j \in Left /\ j # at
        BY <4>2
      <4>8. \A j \in Left' : old[j].key # old[at].key
        BY <1>5, <4>1, <4>7 DEF Keyed, Left
      <4>9. \A j \in Left' : j \in Left /\ old[j].key \notin KeysOf(cells')
        BY <1>5, <4>6, <4>7, <4>8
      <4>10. Cardinality(Left') = Cardinality(Left) - 1
        BY <1>6, <4>1, <4>2, CountChanges
      <4>11. count = Cardinality(Occupied(cells')) + Cardinality(Left')
        BY <1>5, <1>6, <4>6, <4>10
      <4> QED BY <1>5, <4>4, <4>6, <4>9, <4>11
    <3> QED BY <3>1, <3>2
  <2>4. Sized(i)' /\ size' = n
    BY <1>1, <1>3, <1>7, <2>3, SizeOfArray DEF Sized, sizing, IsArray, size, n
  <2>5. Probing(cells)'
    BY <1>7, <2>3, SameHash
  <2>6. Moving(m)'
    <3>1. old' = old /\ pending' = pending /\ count' = count /\ resize_threshold' = resize_threshold
      BY <1>7, <2>1 DEF sizing
    <3> QED BY <1>5, <2>2, <2>3, <2>4, <2>5, <3>1 DEF Moving
  <2>7. Walking'
    BY <1>8, <2>4 DEF Walking
  <2> QED BY <1>1, <1>4, <1>7, <2>1, <2>3, <2>4, <2>6, <2>7 DEF Inv, Stage
<1>12. CASE at \notin DOMAIN old
  <2>1. /\ cells' = [cells EXCEPT ![find_cell(pending.key)] = pending]
        /\ count' = count + 1 /\ at' = 0 /\ pc' = "ready"
    BY <1>12 DEF grow_hash_table, Add
  <2>2. Left = {}
    BY <1>5, <1>12 DEF Left, Occupied
  <2>3. count = Cardinality(Occupied(cells))
    BY <1>5, <1>6, <2>2, FS_EmptySet
  <2>4. /\ IsArray(cells', n) /\ Keyed(cells') /\ Probing(cells')
        /\ Cardinality(Occupied(cells')) = Cardinality(Occupied(cells)) + 1
    BY <1>5, <1>10, <2>1
  <2> QED BY <1>1, <1>4, <1>5, <1>7, <1>8, <2>1, <2>3, <2>4, TableChanged DEF n
<1> QED BY <1>11, <1>12

\* Walks: an entry with the value is removed, or the next cell is turned to.
LEMMA WalkStep == Inv /\ (Callback \/ Repeat \/ EndWalk) => Inv'
<1> SUFFICES ASSUME Inv, Callback \/ Repeat \/ EndWalk PROVE Inv'
  OBVIOUS
<1>1. PICK i \in DOMAIN primes : Sized(i)
  BY DEF Inv
<1> DEFINE n == primes[i]
<1>2. size = n /\ n \in Nat /\ n > 1 /\ DOMAIN cells = 0 .. n - 1 /\ IsArray(cells, n)
  BY <1>1, SizeOfTable
<1>3. pc = "ready"
  BY DEF Callback, Repeat, EndWalk
<1>4. walk \in Values \cup {NoValue} /\ pos \in 0 .. n /\ (seen # NoValue => pos < n)
  BY <1>2 DEF Inv, Walking
<1>5. CASE Callback /\ cells[pos].value = walk
  <2>1. pos \in Occupied(cells)
    BY <1>2, <1>4, <1>5 DEF Callback, Occupied, CELL_OCCUPIED, Empty
  <2>2. find_cell(cells[pos].key) = pos
    BY <1>3, <2>1, WhenReady
  <2>3. Free(pos) /\ pos < size
    BY <1>5, <2>2 DEF Callback
  <2> QED BY <1>3, <1>5, <2>1, <2>3, FreeStep DEF Callback
<1>6. CASE ~(Callback /\ cells[pos].value = walk)
  <2>1. UNCHANGED <<hash_function, cells, count, sizing, growing, at, pc>>
    BY <1>6 DEF Callback, Repeat, EndWalk
  <2>2. size' = n
    BY <1>2, <2>1 DEF size
  <2>3. walk' \in Values \cup {NoValue} /\ pos' \in 0 .. n
    BY <1>2, <1>4, <1>6 DEF Callback, Repeat, EndWalk
  <2>4. seen' = NoValue \/ EndWalk
    BY <1>6 DEF Callback, Repeat
  <2>5. seen' # NoValue => pos' < n
    BY <1>2, <1>4, <2>4 DEF EndWalk
  <2> QED BY <2>1, <2>2, <2>3, <2>5, TableUntouched DEF Walking
<1> QED BY <1>5, <1>6

\* The invariant is kept by every step.
LEMMA InvStep == Inv /\ [Next]_vars => Inv'
<1> SUFFICES ASSUME Inv, [Next]_vars PROVE Inv'
  OBVIOUS
<1>1. PICK i \in DOMAIN primes : Sized(i)
  BY DEF Inv
<1> DEFINE n == primes[i]
<1>2. size = n /\ n \in Nat /\ n > 1 /\ DOMAIN cells = 0 .. n - 1 /\ IsArray(cells, n)
  BY <1>1, SizeOfTable
\* Steps that read the table, and the beginning of a walk.
<1>3. ASSUME UNCHANGED <<hash_function, cells, count, sizing, growing, at, pc>>,
             UNCHANGED walking \/ \E v \in Values : hash_table_for_each(v)
      PROVE  Inv'
  <2>1. size' = size
    BY <1>3 DEF size
  <2>2. CASE UNCHANGED walking
    <3>1. Walking'
      BY <2>1, <2>2 DEF Inv, Walking, walking
    <3> QED BY <1>3, <3>1, TableUntouched
  <2>3. CASE \E v \in Values : hash_table_for_each(v)
    <3>1. Walking'
      BY <1>2, <2>1, <2>3 DEF Walking, hash_table_for_each
    <3> QED BY <1>3, <3>1, TableUntouched
  <2> QED BY <1>3, <2>2, <2>3
<1>4. ASSUME NEW k \in Keys, hash_table_get(k) PROVE Inv'
  <2>1. UNCHANGED <<hash_function, cells, count, sizing, growing, at, walking, pc>>
    BY <1>4 DEF hash_table_get
  <2> QED BY <1>3, <2>1
<1>5. ASSUME NEW k \in Keys, hash_table_remove(k) PROVE Inv'
  <2> DEFINE j == find_cell(k)
  <2>1. CASE CELL_OCCUPIED(cells[j])
    <3>1. Ready /\ Free(j) /\ UNCHANGED <<hash_function, sizing, growing, walking>>
      BY <1>5, <2>1 DEF hash_table_remove
    <3>2. j \in Occupied(cells)
      <4>1. pc = "ready" /\ hash_function \in [Keys -> Nat] /\ Occupied(cells) # DOMAIN cells
        BY <3>1, EmptyCell DEF Ready, Inv
      <4>2. Stops(cells, k, j)
        BY <1>2, <4>1, ProbeStops DEF find_cell
      <4> QED BY <2>1, <4>2 DEF Stops, Occupied
    <3>3. pc = "ready" /\ (seen' # NoValue => pos < size)
      BY <3>1 DEF Ready, walking, Inv, Walking
    <3> HIDE DEF j
    <3> QED BY <3>1, <3>2, <3>3, FreeStep DEF walking
  <2>2. CASE ~CELL_OCCUPIED(cells[j])
    <3>1. UNCHANGED <<hash_function, cells, count, sizing, growing, at, walking, pc>>
      BY <1>5, <2>2 DEF hash_table_remove
    <3> QED BY <1>3, <3>1
  <2> QED BY <2>1, <2>2
<1>6. ASSUME NEW k \in Keys, NEW v \in Values, hash_table_put(k, v) PROVE Inv'
  <2> DEFINE e == [key |-> k, value |-> v]
             j == find_cell(k)
  <2>1. e \in [key : Keys, value : Values] /\ e.key = k
    OBVIOUS
  <2>2. Ready /\ UNCHANGED <<hash_function, walking>>
    BY <1>6 DEF hash_table_put
  <2>3. pc = "ready"
    BY <2>2 DEF Ready
  <2>4. CELL_OCCUPIED(cells[j]) <=> k \in KeysOf(cells)
    <3>1. j \in Occupied(cells) <=> k \in KeysOf(cells)
      BY <2>3, WhenReady
    <3>2. hash_function \in [Keys -> Nat] /\ Occupied(cells) # DOMAIN cells
      BY EmptyCell DEF Inv
    <3>3. Stops(cells, k, j)
      BY <1>2, <3>2, ProbeStops DEF find_cell
    <3> QED BY <3>1, <3>3 DEF Stops, Occupied
  <2>5. CASE CELL_OCCUPIED(cells[j])
    <3>1. /\ cells' = [cells EXCEPT ![j] = e]
          /\ UNCHANGED <<count, sizing, growing, at, pc>>
      BY <1>6, <2>5 DEF hash_table_put
    <3> HIDE DEF e
    <3> QED BY <2>1, <2>2, <2>3, <2>4, <2>5, <3>1, PutStep
  <2>6. CASE ~CELL_OCCUPIED(cells[j]) /\ count < resize_threshold
    <3>1. /\ cells' = [cells EXCEPT ![find_cell(e.key)] = e] /\ count' = count + 1
          /\ UNCHANGED <<sizing, growing, at, pc>>
      BY <1>6, <2>6 DEF hash_table_put, Add
    <3> HIDE DEF e
    <3> QED BY <2>1, <2>2, <2>3, <2>4, <2>6, <3>1, PutStep
  <2>7. CASE ~CELL_OCCUPIED(cells[j]) /\ ~(count < resize_threshold)
    <3> DEFINE r == prime_size(2 * size, prime_offset)
    <3>1. /\ old' = cells /\ cells' = Cleared(primes[r]) /\ prime_offset' = r + 1
          /\ resize_threshold' = Threshold(primes[r]) /\ at' = 0 /\ pending' = e
          /\ pc' = "grow" /\ UNCHANGED count
      BY <1>6, <2>7 DEF hash_table_put
    <3> HIDE DEF e, r
    <3>2. r = prime_size(2 * size, prime_offset)
      BY DEF r
    <3> QED BY <2>1, <2>2, <2>3, <2>4, <2>7, <3>1, <3>2, GrowStep
  <2> QED BY <2>5, <2>6, <2>7
<1>7. CASE hash_table_count
  <2>1. UNCHANGED <<hash_function, cells, count, sizing, growing, at, walking, pc>>
    BY <1>7 DEF hash_table_count
  <2> QED BY <1>3, <2>1
<1>8. CASE hash_table_clear
  <2>1. /\ pc = "ready" /\ cells' = Cleared(n) /\ count' = 0
        /\ UNCHANGED <<hash_function, sizing, growing, at, walking, pc>>
    BY <1>2, <1>8 DEF hash_table_clear, Ready
  <2>2. /\ IsArray(cells', n) /\ Keyed(cells') /\ Probing(cells')
        /\ Occupied(cells') = {}
    BY <1>2, <2>1, NewTable
  <2>3. count' = Cardinality(Occupied(cells'))
    BY <2>1, <2>2, FS_EmptySet
  <2>4. count' <= resize_threshold
    BY <1>1, <1>2, <2>1, Thresholds DEF Sized
  <2>5. at' = 0 /\ hash_function \in [Keys -> Nat]
    BY <2>1, WhenReady
  <2>6. walk' \in Values \cup {NoValue} /\ pos' \in 0 .. n /\ (seen' # NoValue => pos' < n)
    BY <1>2, <2>1 DEF Inv, Walking, walking
  <2> QED BY <1>1, <2>1, <2>2, <2>3, <2>4, <2>5, <2>6, TableChanged DEF n
<1>9. ASSUME NEW v \in Values, hash_table_for_each(v) PROVE Inv'
  <2>1. UNCHANGED <<hash_function, cells, count, sizing, growing, at, pc>>
    BY <1>9 DEF hash_table_for_each
  <2> QED BY <1>3, <1>9, <2>1
<1>10. CASE Loops
  BY <1>10, MoveStep, RehashStep, WalkStep DEF Loops
<1>11. CASE UNCHANGED vars
  <2>1. UNCHANGED <<hash_function, cells, count, sizing, growing, at, walking, pc>>
    BY <1>11 DEF vars, sizing, growing, walking
  <2> QED BY <1>3, <2>1
<1> QED BY <1>4, <1>5, <1>6, <1>7, <1>8, <1>9, <1>10, <1>11 DEF Next

\* Between operations each entry is found where it is; there is always an empty cell.
LEMMA InvCellsSound == Inv => CellsSound
<1> SUFFICES ASSUME Inv PROVE CellsSound
  OBVIOUS
<1>1. PICK i \in DOMAIN primes : Sized(i)
  BY DEF Inv
<1>2. /\ size = primes[i] /\ primes[i] \in Nat /\ primes[i] > 1
      /\ DOMAIN cells = 0 .. primes[i] - 1 /\ IsArray(cells, primes[i])
  BY <1>1, SizeOfTable
<1>3. \A j \in Occupied(cells) : cells[j] \in [key : Keys, value : Values]
  BY <1>2 DEF IsArray, Cells, Occupied, CELL_OCCUPIED
<1>4. at \in 0 .. size
  <2>1. CASE pc = "grow"
    <3>1. PICK m \in Nat : Moving(m)
      BY <2>1 DEF Inv, Stage
    <3> QED BY <1>2, <3>1 DEF Moving
  <2>2. CASE pc # "grow"
    BY <1>2, <2>2 DEF Inv, Stage
  <2> QED BY <2>1, <2>2
<1>5. resize_threshold = Threshold(size) /\ size \in {primes[j] : j \in DOMAIN primes}
  BY <1>1, <1>2 DEF Sized
<1>6. TypeOK
  BY <1>2, <1>3, <1>4, <1>5 DEF TypeOK, Inv, Walking, Stage
<1>7. pc = "ready" =>
        /\ count = Cardinality(Occupied(cells)) /\ count <= resize_threshold
        /\ \A j \in Occupied(cells) : find_cell(cells[j].key) = j
  BY WhenReady
<1> QED BY <1>6, <1>7, EmptyCell DEF CellsSound

\* For any keys, hash functions and sizes and after any operations, each entry is
\* found where it is, the count is right, and there is always an empty cell
\* (hash_table_put, hash_table_remove, grow_hash_table, hash_table_for_each).
THEOREM CellsStaySound == Spec => []CellsSound
<1>1. Init => Inv
  BY InvInit
<1>2. Inv /\ [Next]_vars => Inv'
  BY InvStep
<1>3. Inv => CellsSound
  BY InvCellsSound
<1> QED BY <1>1, <1>2, <1>3, PTL DEF Spec

-----------------------------------------------------------------------------
(***************************************************************************)
(* Sets of entries as maps.                                                *)
(***************************************************************************)
Unique(E) == \A e, f \in E : e.key = f.key => e = f
MapOf(E) == [k \in {e.key : e \in E} |-> (CHOOSE e \in E : e.key = k).value]
Without(E, k) == {e \in E : e.key # k}
With(m, k, v) == [j \in DOMAIN m \cup {k} |-> IF j = k THEN v ELSE m[j]]

\* The map has the value of the entry for its key.
LEMMA MapOfEntry ==
    ASSUME NEW E, Unique(E), NEW e \in E
    PROVE  e.key \in DOMAIN MapOf(E) /\ MapOf(E)[e.key] = e.value
<1> DEFINE c == CHOOSE f \in E : f.key = e.key
<1>1. c \in E /\ c.key = e.key
  OBVIOUS
<1>2. c = e
  BY <1>1 DEF Unique
<1>3. MapOf(E)[e.key] = c.value
  BY DEF MapOf
<1> QED BY <1>2, <1>3 DEF MapOf

\* An entry that takes the place of the one with its key gives its key its value.
LEMMA MapOfPut ==
    ASSUME NEW E, Unique(E), NEW e
    PROVE  MapOf(Without(E, e.key) \cup {e}) = With(MapOf(E), e.key, e.value)
<1> DEFINE F == Without(E, e.key) \cup {e}
           G == With(MapOf(E), e.key, e.value)
<1>1. Unique(F)
  BY DEF Unique, Without
<1>2. {f.key : f \in F} = {f.key : f \in E} \cup {e.key}
  BY DEF Without
<1>3. ASSUME NEW f \in F PROVE MapOf(F)[f.key] = G[f.key]
  <2>1. MapOf(F)[f.key] = f.value
    <3> HIDE DEF F
    <3> QED BY <1>1, MapOfEntry
  <2>2. CASE f = e
    BY <2>1, <2>2 DEF With
  <2>3. CASE f # e
    <3>1. f \in E /\ f.key # e.key
      BY <2>3 DEF Without
    <3>2. f.key \in DOMAIN MapOf(E) /\ MapOf(E)[f.key] = f.value
      BY <3>1, MapOfEntry
    <3> QED BY <2>1, <3>1, <3>2 DEF With
  <2> QED BY <2>2, <2>3
<1>4. DOMAIN MapOf(F) = {f.key : f \in F} /\ DOMAIN G = {f.key : f \in F}
  <2>1. DOMAIN MapOf(E) = {f.key : f \in E} /\ DOMAIN MapOf(F) = {f.key : f \in F}
    BY DEF MapOf
  <2> QED BY <1>2, <2>1 DEF With
<1>5. MapOf(F) = G
  <2>1. \A k \in DOMAIN G : MapOf(F)[k] = G[k]
    BY <1>3, <1>4
  <2>2. MapOf(F) = [k \in DOMAIN MapOf(F) |-> MapOf(F)[k]] /\ G = [k \in DOMAIN G |-> G[k]]
    BY DEF MapOf, With
  <2> HIDE DEF F, G
  <2> QED BY <1>4, <2>1, <2>2
<1> QED BY <1>5

\* Without the entry for a key, the map is what it was for the other keys.
LEMMA MapOfRemove ==
    ASSUME NEW E, Unique(E), NEW k
    PROVE  MapOf(Without(E, k)) = [j \in DOMAIN MapOf(E) \ {k} |-> MapOf(E)[j]]
<1> DEFINE F == Without(E, k)
           G == [j \in DOMAIN MapOf(E) \ {k} |-> MapOf(E)[j]]
<1>1. Unique(F)
  BY DEF Unique, Without
<1>2. {f.key : f \in F} = {f.key : f \in E} \ {k}
  BY DEF Without
<1>3. ASSUME NEW f \in F PROVE MapOf(F)[f.key] = G[f.key]
  <2>1. f \in E /\ f.key # k
    BY DEF Without
  <2>2. MapOf(F)[f.key] = f.value
    <3> HIDE DEF F
    <3> QED BY <1>1, MapOfEntry
  <2>3. f.key \in DOMAIN MapOf(E) /\ MapOf(E)[f.key] = f.value
    BY <2>1, MapOfEntry
  <2> QED BY <2>1, <2>2, <2>3
<1>4. DOMAIN MapOf(F) = {f.key : f \in F} /\ DOMAIN G = {f.key : f \in F}
  <2>1. DOMAIN MapOf(E) = {f.key : f \in E} /\ DOMAIN MapOf(F) = {f.key : f \in F}
    BY DEF MapOf
  <2> QED BY <1>2, <2>1
<1>5. MapOf(F) = G
  <2>1. \A q \in DOMAIN G : MapOf(F)[q] = G[q]
    BY <1>3, <1>4
  <2>2. MapOf(F) = [q \in DOMAIN MapOf(F) |-> MapOf(F)[q]] /\ G = [q \in DOMAIN G |-> G[q]]
    BY DEF MapOf
  <2> HIDE DEF F, G
  <2> QED BY <1>4, <2>1, <2>2
<1> QED BY <1>5

(***************************************************************************)
(* The entries of a table, and what the operations on arrays do to them.   *)
(***************************************************************************)
EntriesOf(a) == {a[i] : i \in Occupied(a)}

\* A cell that is written holds the entry instead of the one with its key.
LEMMA EntriesOfPut ==
    ASSUME NEW a, NEW n, IsArray(a, n), hash_function \in [Keys -> Nat],
           Occupied(a) # DOMAIN a, Keyed(a), Probing(a),
           NEW e \in [key : Keys, value : Values],
           NEW b, b = [a EXCEPT ![Probe(a, e.key)] = e]
    PROVE  EntriesOf(b) = Without(EntriesOf(a), e.key) \cup {e}
<1> DEFINE p == Probe(a, e.key)
<1>1. p \in DOMAIN a /\ Occupied(b) = Occupied(a) \cup {p}
  BY Put
<1>2. \A i \in Occupied(a) : a[i].key = e.key => i = p
  BY EntriesFound
<1>3. p \in Occupied(a) => a[p].key = e.key
  <2>1. Stops(a, e.key, p)
    BY ProbeStops
  <2> QED BY <2>1 DEF Stops, Occupied
<1> HIDE DEF p
<1>4. \A i \in Occupied(b) : /\ i = p => b[i] = e
                             /\ i # p => i \in Occupied(a) /\ b[i] = a[i]
  BY <1>1 DEF Occupied, IsArray, p
<1>5. \A i \in Occupied(a) : i # p => i \in Occupied(b) /\ b[i] = a[i] /\ a[i].key # e.key
  BY <1>1, <1>2, <1>4
<1>6. p \in Occupied(b) /\ b[p] = e
  BY <1>1, <1>4
<1>7. EntriesOf(b) \subseteq Without(EntriesOf(a), e.key) \cup {e}
  <2> SUFFICES ASSUME NEW i \in Occupied(b)
               PROVE  b[i] \in Without(EntriesOf(a), e.key) \cup {e}
    BY DEF EntriesOf
  <2>1. CASE i = p
    BY <1>4, <2>1
  <2>2. CASE i # p
    <3>1. i \in Occupied(a) /\ b[i] = a[i] /\ a[i].key # e.key
      BY <1>4, <1>5, <2>2
    <3> QED BY <3>1 DEF EntriesOf, Without
  <2> QED BY <2>1, <2>2
<1>8. Without(EntriesOf(a), e.key) \subseteq EntriesOf(b)
  BY <1>3, <1>5 DEF EntriesOf, Without
<1>9. e \in EntriesOf(b)
  BY <1>6 DEF EntriesOf
<1> QED BY <1>7, <1>8, <1>9

\* A cell that is freed takes its entry away and no other.
LEMMA EntriesOfFreed ==
    ASSUME NEW a, NEW n, IsArray(a, n), Keyed(a), NEW j \in Occupied(a),
           NEW b, b = [a EXCEPT ![j] = Empty]
    PROVE  EntriesOf(b) = Without(EntriesOf(a), a[j].key)
<1>1. j \in 0 .. n - 1 /\ DOMAIN a = 0 .. n - 1 /\ DOMAIN b = 0 .. n - 1
  BY DEF IsArray, Occupied
<1>2. \A i \in 0 .. n - 1 : b[i] = IF i = j THEN Empty ELSE a[i]
  BY <1>1
<1>3. Occupied(b) = Occupied(a) \ {j} /\ \A i \in Occupied(b) : b[i] = a[i]
  BY <1>1, <1>2 DEF Occupied, CELL_OCCUPIED
<1>4. \A i \in Occupied(a) : a[i].key = a[j].key => i = j
  BY DEF Keyed
<1>5. EntriesOf(b) \subseteq Without(EntriesOf(a), a[j].key)
  BY <1>3, <1>4 DEF EntriesOf, Without
<1>6. Without(EntriesOf(a), a[j].key) \subseteq EntriesOf(b)
  BY <1>3 DEF EntriesOf, Without
<1> QED BY <1>5, <1>6

\* An entry that moves to another cell is still an entry.
LEMMA EntriesOfMoved ==
    ASSUME NEW a, NEW n, IsArray(a, n), NEW j \in Occupied(a), NEW p \in DOMAIN a \ Occupied(a),
           NEW b, b = [x \in 0 .. n - 1 |->
                         IF x = j THEN Empty ELSE IF x = p THEN a[j] ELSE a[x]]
    PROVE  EntriesOf(b) = EntriesOf(a)
<1>1. DOMAIN a = 0 .. n - 1 /\ DOMAIN b = 0 .. n - 1 /\ p # j /\ CELL_OCCUPIED(a[j])
  BY DEF IsArray, Occupied
<1>2. p \in Occupied(b) /\ b[p] = a[j]
  BY <1>1 DEF Occupied
<1>3. \A i \in Occupied(b) : i # p => i \in Occupied(a) /\ b[i] = a[i]
  BY <1>1 DEF Occupied, CELL_OCCUPIED
<1>4. \A i \in Occupied(a) : i # j => i \in Occupied(b) /\ b[i] = a[i]
  BY <1>1 DEF Occupied
<1>5. EntriesOf(b) \subseteq EntriesOf(a)
  BY <1>2, <1>3 DEF EntriesOf
<1>6. EntriesOf(a) \subseteq EntriesOf(b)
  BY <1>2, <1>4 DEF EntriesOf
<1> QED BY <1>5, <1>6

\* Keys are those of the entries.
LEMMA KeysOfEntries ==
    ASSUME NEW a
    PROVE  KeysOf(a) = {e.key : e \in EntriesOf(a)}
BY DEF KeysOf, EntriesOf

(***************************************************************************)
(* Walks that remove.  The cells before the one at hand hold no entry with *)
(* the value.  When entries move after a removal, none comes back to those *)
(* cells: there is an empty cell that the walk round the table has yet to  *)
(* meet, and it cuts off the entries before it.                            *)
(***************************************************************************)
HomeOf(i) == Home(cells, cells[i].key)

Beyond(e) ==
    /\ ~CELL_OCCUPIED(cells[e]) /\ OnPath(at, pos, e)
    /\ \A i \in Occupied(cells) : ~OnPath(HomeOf(i), i, e)

Shielded ==
    \A i \in Occupied(cells), x \in DOMAIN cells :
        i >= pos /\ x < pos /\ ~CELL_OCCUPIED(cells[x]) => ~OnPath(HomeOf(i), i, x)

Passed == \A i \in Occupied(cells) : i < pos => cells[i].value # walk

Swept ==
    /\ pc # "grow" => old = <<>>
    /\ pc = "grow" => walk = NoValue
    /\ seen # NoValue => walk # NoValue /\ seen \notin KeysOf(cells)
    /\ walk # NoValue => Passed
    /\ pc = "rehash" /\ walk # NoValue =>
          pos < size /\ Shielded /\ \E e \in DOMAIN cells : Beyond(e)

\* Paths from one cell further on, round the whole table, and of what is before.
LEMMA PathNext ==
    ASSUME NEW n \in Nat, NEW i \in 0 .. n - 1, NEW j \in 0 .. n - 1, NEW x \in 0 .. n - 1
    PROVE  /\ OnPath(j, i, x) /\ x # j => OnPath(Following(n, j), i, x)
           /\ x # j => OnPath(Following(n, j), j, x)
BY DEF OnPath, Following

\* What is met on the way to a cell is met on the way past it.
LEMMA PathPrefix ==
    ASSUME NEW n \in Nat, NEW h \in 0 .. n - 1, NEW i \in 0 .. n - 1, NEW j \in 0 .. n - 1,
           NEW x \in 0 .. n - 1, OnPath(h, i, j), OnPath(h, j, x)
    PROVE  OnPath(h, i, x)
BY DEF OnPath

\* A way from before j to q or beyond leads over what is between j and q.
LEMMA PathAcross ==
    ASSUME NEW n \in Nat, NEW h \in 0 .. n - 1, NEW i \in 0 .. n - 1, NEW j \in 0 .. n - 1,
           NEW e \in 0 .. n - 1, NEW q \in 0 .. n - 1,
           j < q, q <= i, OnPath(j, q, e), OnPath(h, i, j)
    PROVE  OnPath(h, i, e)
BY DEF OnPath

\* The callback removes the entry at hand.
LEMMA SweptCallback ==
    ASSUME Inv, Swept, Callback, cells[pos].value = walk
    PROVE  Swept'
<1>1. PICK i \in DOMAIN primes : Sized(i)
  BY DEF Inv
<1> DEFINE n == primes[i]
<1>2. size = n /\ n \in Nat /\ n > 1 /\ DOMAIN cells = 0 .. n - 1 /\ IsArray(cells, n)
  BY <1>1, SizeOfTable
<1> HIDE DEF n
<1>3. pc = "ready" /\ walk # NoValue /\ pos \in 0 .. n - 1
  BY <1>2 DEF Callback, Inv, Walking
<1>4. /\ Probing(cells) /\ Keyed(cells) /\ hash_function \in [Keys -> Nat]
      /\ Occupied(cells) # DOMAIN cells
      /\ \A j \in Occupied(cells) : find_cell(cells[j].key) = j
  BY <1>3, WhenReady
<1>5. pos \in Occupied(cells)
  BY <1>2, <1>3 DEF Callback, Occupied, CELL_OCCUPIED, Empty
<1>6. /\ cells' = [cells EXCEPT ![pos] = Empty] /\ at' = NEXT_CELL(pos) /\ pc' = "rehash"
      /\ seen' = cells[pos].key
      /\ UNCHANGED <<hash_function, old, walk, pos>>
  BY <1>4, <1>5 DEF Callback, Free, growing
<1>7. at' = Following(n, pos)
  BY <1>2, <1>3, <1>6, NextCell
<1>8. \A x \in 0 .. n - 1 : cells'[x] = IF x = pos THEN Empty ELSE cells[x]
  BY <1>2, <1>6
<1>9. /\ DOMAIN cells' = 0 .. n - 1
      /\ \A x \in Occupied(cells') : x \in Occupied(cells) /\ x # pos /\ cells'[x] = cells[x]
  BY <1>2, <1>6, <1>8 DEF Occupied, CELL_OCCUPIED
<1>10. \A k : Home(cells, k)' = Home(cells, k)
  BY <1>2, <1>6, <1>9 DEF Home, HASH_POSITION
<1>11. \A x \in Occupied(cells') : HomeOf(x)' = HomeOf(x)
  BY <1>9, <1>10 DEF HomeOf
\* The entries are all reached, over occupied cells.
<1>12. ASSUME NEW j \in Occupied(cells'), NEW x \in 0 .. n - 1, OnPath(HomeOf(j), j, x)
       PROVE  CELL_OCCUPIED(cells[x])
  BY <1>2, <1>4, <1>9, <1>12 DEF Probing, Reached, Filled, HomeOf
<1>13. PICK e \in 0 .. n - 1 : ~CELL_OCCUPIED(cells[e])
  BY <1>2, <1>4 DEF Occupied
<1>14. e # pos
  BY <1>5, <1>13 DEF Occupied
<1>15. Beyond(e)'
  <2>1. ~CELL_OCCUPIED(cells'[e])
    BY <1>8, <1>13, <1>14
  <2>2. OnPath(at', pos', e)
    BY <1>2, <1>3, <1>6, <1>7, <1>14, PathNext
  <2>3. \A j \in Occupied(cells') : ~OnPath(HomeOf(j)', j, e)
    BY <1>11, <1>12, <1>13
  <2> QED BY <2>1, <2>2, <2>3 DEF Beyond
<1>16. Shielded'
  <2> SUFFICES ASSUME NEW j \in Occupied(cells'), NEW x \in 0 .. n - 1, x < pos,
                      ~CELL_OCCUPIED(cells'[x]), OnPath(HomeOf(j)', j, x)
               PROVE  FALSE
    BY <1>6, <1>9 DEF Shielded
  <2>1. cells'[x] = cells[x]
    BY <1>3, <1>8
  <2> QED BY <1>11, <1>12, <2>1
<1>17. Passed'
  BY <1>3, <1>6, <1>9 DEF Swept, Passed
<1>18. size' = n
  BY <1>2, <1>9, SizeOfArray DEF size
<1>19. seen' \notin KeysOf(cells')
  <2>1. EntriesOf(cells') = Without(EntriesOf(cells), cells[pos].key)
    BY <1>2, <1>4, <1>5, <1>6, EntriesOfFreed
  <2> QED BY <1>6, <2>1, KeysOfEntries DEF Without
<1>20. pos' < size' /\ \E x \in DOMAIN cells' : Beyond(x)'
  BY <1>2, <1>3, <1>6, <1>9, <1>15, <1>18
<1>21. pc' # "grow" /\ old' = <<>> /\ walk' # NoValue
  BY <1>3, <1>6 DEF Swept
<1> QED BY <1>16, <1>17, <1>19, <1>20, <1>21 DEF Swept

\* Entries that move stay what they are.
LEMMA RehashEntries ==
    ASSUME Inv, Rehash
    PROVE  EntriesOf(cells') = EntriesOf(cells)
<1>1. PICK i \in DOMAIN primes : Sized(i)
  BY DEF Inv
<1> DEFINE n == primes[i]
           p == find_cell(cells[at].key)
<1>2. size = n /\ n \in Nat /\ n > 1 /\ DOMAIN cells = 0 .. n - 1 /\ IsArray(cells, n)
  BY <1>1, SizeOfTable
<1>3. /\ at \in 0 .. n - 1 /\ hash_function \in [Keys -> Nat]
      /\ Occupied(cells) # DOMAIN cells /\ Keyed(cells)
  BY <1>2, EmptyCell DEF Inv, Stage, Rehash
<1> HIDE DEF n
<1>4. CASE cells' = cells
  BY <1>4
<1>5. CASE cells' # cells
  <2>1. /\ CELL_OCCUPIED(cells[at]) /\ p # at
        /\ cells' = [cells EXCEPT ![p] = cells[at], ![at] = Empty]
    BY <1>5 DEF Rehash
  <2>2. at \in Occupied(cells) /\ cells[at].key \in Keys
    BY <1>2, <1>3, <2>1 DEF Occupied, IsArray, Cells, CELL_OCCUPIED
  <2>3. Stops(cells, cells[at].key, p)
    BY <1>2, <1>3, <2>2, ProbeStops DEF find_cell
  <2> HIDE DEF p
  <2>4. p \in DOMAIN cells \ Occupied(cells)
    <3>1. p \in DOMAIN cells /\ (cells[p].key = cells[at].key \/ ~CELL_OCCUPIED(cells[p]))
      BY <2>3 DEF Stops
    <3>2. p \in Occupied(cells) => cells[p].key # cells[at].key
      BY <1>3, <2>1, <2>2 DEF Keyed
    <3> QED BY <3>1, <3>2 DEF Occupied
  <2>5. cells' = [x \in 0 .. n - 1 |-> IF x = at THEN Empty
                                      ELSE IF x = p THEN cells[at] ELSE cells[x]]
    BY <1>2, <2>1
  <2> QED BY <1>2, <2>2, <2>4, <2>5, EntriesOfMoved
<1> QED BY <1>4, <1>5

\* An entry after the removed one stays or moves.
LEMMA SweptRehash ==
    ASSUME Inv, Swept, Rehash, walk # NoValue, CELL_OCCUPIED(cells[at])
    PROVE  Swept'
<1>1. PICK i \in DOMAIN primes : Sized(i)
  BY DEF Inv
<1>p. PICK p : p = find_cell(cells[at].key)
  OBVIOUS
<1>h. PICK h : h = HomeOf(at)
  OBVIOUS
<1> DEFINE n == primes[i]
<1>2. size = n /\ n \in Nat /\ n > 1 /\ DOMAIN cells = 0 .. n - 1 /\ IsArray(cells, n)
  BY <1>1, SizeOfTable
<1> HIDE DEF n
<1>3. /\ at \in 0 .. n - 1 /\ hash_function \in [Keys -> Nat]
      /\ Occupied(cells) # DOMAIN cells
  BY <1>2, EmptyCell DEF Inv, Stage, Rehash
<1>4. /\ pc = "rehash" /\ pc' = "rehash" /\ at' = NEXT_CELL(at)
      /\ cells' = IF p = at THEN cells ELSE [cells EXCEPT ![p] = cells[at], ![at] = Empty]
      /\ UNCHANGED <<hash_function, old, walk, pos, seen>>
  BY <1>p DEF Rehash, growing, walking
<1>5. at' = Following(n, at)
  BY <1>2, <1>3, <1>4, NextCell
<1>6. pos \in 0 .. n - 1 /\ Passed /\ Shielded
  BY <1>2, <1>4 DEF Swept, Inv, Walking
<1>7. PICK e \in 0 .. n - 1 : Beyond(e)
  BY <1>2, <1>4 DEF Swept
<1>8. at \in Occupied(cells) /\ cells[at].key \in Keys /\ e # at
  BY <1>2, <1>3, <1>7 DEF Occupied, IsArray, Cells, CELL_OCCUPIED, Beyond
<1>9. Stops(cells, cells[at].key, p)
  BY <1>2, <1>3, <1>8, <1>p, ProbeStops DEF find_cell
<1>10. h \in 0 .. n - 1 /\ p \in 0 .. n - 1
  BY <1>2, <1>3, <1>8, <1>9, <1>h, HomeInTable DEF HomeOf, Stops
<1>11. OnPath(at', pos, e)
  BY <1>2, <1>3, <1>5, <1>6, <1>7, <1>8, PathNext DEF Beyond
<1>12. CASE p = at
  <2>1. cells' = cells
    BY <1>4, <1>12
  <2>2. /\ \A j : HomeOf(j)' = HomeOf(j)
        /\ size' = size
    BY <1>4, <2>1 DEF HomeOf, Home, HASH_POSITION, size
  <2>3. Shielded' /\ Passed'
    BY <1>4, <1>6, <2>1, <2>2 DEF Shielded, Passed
  <2>4. Beyond(e)'
    BY <1>4, <1>7, <1>11, <2>1, <2>2 DEF Beyond
  <2>5. pos' < size' /\ \E x \in DOMAIN cells' : Beyond(x)'
    BY <1>2, <1>4, <1>6, <2>1, <2>2, <2>4
  <2> QED BY <1>4, <2>1, <2>3, <2>5 DEF Swept
<1>13. CASE p # at
  <2>1. cells' = [x \in 0 .. n - 1 |-> IF x = at THEN Empty
                                      ELSE IF x = p THEN cells[at] ELSE cells[x]]
    BY <1>2, <1>4, <1>13
  <2>2. /\ p \notin Occupied(cells) /\ ~CELL_OCCUPIED(cells[p])
    <3>1. cells[p].key = cells[at].key \/ ~CELL_OCCUPIED(cells[p])
      BY <1>9 DEF Stops
    <3>2. p \in Occupied(cells) => cells[p].key # cells[at].key
      BY <1>8, <1>13 DEF Inv, Keyed
    <3> QED BY <1>2, <1>10, <3>1, <3>2 DEF Occupied
  <2>3. EntriesOf(cells') = EntriesOf(cells)
    BY RehashEntries
  <2>4. \A x \in 0 .. n - 1 : OnPath(h, p, x) => CELL_OCCUPIED(cells[x]) /\ x # at
    BY <1>2, <1>9, <1>h DEF Stops, HomeOf
  <2>5. OnPath(h, at, p)
    BY <1>2, <1>3, <1>10, <1>13, <2>4, PathOrder
  <2>6. e # p /\ ~OnPath(h, at, e)
    BY <1>7, <1>8, <1>h, <2>5 DEF Beyond
  <2>7. /\ DOMAIN cells' = 0 .. n - 1 /\ p \in Occupied(cells') /\ cells'[p] = cells[at]
        /\ \A x \in Occupied(cells') : x # p => x \in Occupied(cells) /\ cells'[x] = cells[x]
    BY <1>2, <1>8, <1>10, <1>13, <2>1 DEF Occupied, CELL_OCCUPIED
  <2>8. \A x \in 0 .. n - 1 :
            ~CELL_OCCUPIED(cells'[x]) => x = at \/ (x # p /\ ~CELL_OCCUPIED(cells[x]))
    BY <1>8, <1>13, <2>1 DEF Occupied
  <2>9. \A k : Home(cells, k)' = Home(cells, k)
    BY <1>2, <1>4, <2>7 DEF Home, HASH_POSITION
  <2>10. HomeOf(p)' = h /\ \A x \in Occupied(cells') : x # p => HomeOf(x)' = HomeOf(x)
    BY <1>h, <2>7, <2>9 DEF HomeOf
  <2>11. Beyond(e)'
    <3>1. ~CELL_OCCUPIED(cells'[e])
      BY <1>7, <1>8, <2>1, <2>6 DEF Beyond
    <3>2. ASSUME NEW j \in Occupied(cells') PROVE ~OnPath(HomeOf(j)', j, e)
      <4>1. CASE j = p
        BY <1>2, <1>3, <1>10, <2>5, <2>6, <2>10, <4>1, PathPrefix
      <4>2. CASE j # p
        BY <1>7, <2>7, <2>10, <4>2 DEF Beyond
      <4> QED BY <4>1, <4>2
    <3> QED BY <1>4, <1>11, <3>1, <3>2 DEF Beyond
  <2>12. Shielded'
    <3> SUFFICES ASSUME NEW j \in Occupied(cells'), NEW x \in 0 .. n - 1, j >= pos, x < pos,
                        ~CELL_OCCUPIED(cells'[x]), OnPath(HomeOf(j)', j, x)
                 PROVE  FALSE
      BY <1>4, <2>7 DEF Shielded
    <3>1. CASE j = p
      BY <2>4, <2>8, <2>10, <3>1
    <3>2. CASE j # p /\ x # at
      BY <1>2, <1>6, <2>7, <2>8, <2>10, <3>2 DEF Shielded
    <3>3. CASE j # p /\ x = at
      <4>1. j \in Occupied(cells) /\ j \in 0 .. n - 1 /\ cells[j].key \in Keys
        BY <1>2, <2>7, <3>3 DEF Occupied, IsArray, Cells, CELL_OCCUPIED
      <4>2. HomeOf(j) \in 0 .. n - 1
        BY <1>2, <1>3, <4>1, HomeInTable DEF HomeOf
      <4>3. OnPath(HomeOf(j), j, at) /\ OnPath(at, pos, e) /\ at < pos /\ pos <= j
        BY <1>2, <1>6, <1>7, <2>10, <3>3, <4>1 DEF Beyond
      <4>4. OnPath(HomeOf(j), j, e)
        BY <1>2, <1>3, <1>6, <4>1, <4>2, <4>3, PathAcross
      <4> QED BY <1>7, <4>1, <4>4 DEF Beyond
    <3> QED BY <3>1, <3>2, <3>3
  <2>13. Passed'
    <3> SUFFICES ASSUME NEW j \in Occupied(cells'), j < pos PROVE cells'[j].value # walk
      BY <1>4 DEF Passed
    <3>1. CASE j # p
      BY <1>6, <2>7, <3>1 DEF Passed
    <3>2. CASE j = p /\ at < pos
      BY <1>6, <1>8, <2>7, <3>2 DEF Passed
    <3>3. CASE j = p /\ ~(at < pos)
      <4>1. p < pos /\ at >= pos
        BY <1>2, <1>3, <1>6, <3>3
      <4> QED BY <1>2, <1>6, <1>8, <1>10, <1>h, <2>2, <2>5, <4>1 DEF Shielded
    <3> QED BY <3>1, <3>2, <3>3
  <2>14. size' = n
    BY <1>2, <2>7, SizeOfArray DEF size
  <2>15. seen' # NoValue => walk' # NoValue /\ seen' \notin KeysOf(cells')
    BY <1>4, <2>3, KeysOfEntries DEF Swept
  <2>16. pos' < size' /\ \E x \in DOMAIN cells' : Beyond(x)'
    BY <1>2, <1>4, <1>6, <2>7, <2>11, <2>14
  <2>17. pc' # "grow" /\ old' = <<>>
    BY <1>4 DEF Swept
  <2> QED BY <2>12, <2>13, <2>15, <2>16, <2>17 DEF Swept
<1> QED BY <1>12, <1>13

\* The walk's invariant is kept by every step.
LEMMA SweptStep == Inv /\ Swept /\ [Next]_vars => Swept'
<1> SUFFICES ASSUME Inv, Swept, [Next]_vars PROVE Swept'
  OBVIOUS
<1>1. PICK i \in DOMAIN primes : Sized(i)
  BY DEF Inv
<1> DEFINE n == primes[i]
<1>2. size = n /\ n \in Nat /\ n > 1 /\ DOMAIN cells = 0 .. n - 1 /\ IsArray(cells, n)
  BY <1>1, SizeOfTable
<1>3. walk = NoValue => seen = NoValue
  BY DEF Swept
\* No walk is under way.
<1>4. ASSUME walk' = NoValue, seen' = NoValue, pc' # "grow" => old' = <<>>
      PROVE  Swept'
  BY <1>4 DEF Swept
\* Nothing that matters here changes.
<1>5. ASSUME UNCHANGED <<hash_function, cells, old, at, walk, pos, seen, pc>>
      PROVE  Swept'
  <2>1. \A j : HomeOf(j)' = HomeOf(j)
    BY <1>5 DEF HomeOf, Home, HASH_POSITION
  <2>2. (Shielded' <=> Shielded) /\ (Passed' <=> Passed) /\ size' = size
    BY <1>5, <2>1 DEF Shielded, Passed, size
  <2>3. \A e : Beyond(e)' <=> Beyond(e)
    BY <1>5, <2>1 DEF Beyond
  <2> QED BY <1>5, <2>2, <2>3 DEF Swept
<1>6. ASSUME NEW k \in Keys, hash_table_get(k) \/ hash_table_remove(k) PROVE Swept'
  <2>1. walk' = NoValue /\ seen' = NoValue /\ pc' # "grow" /\ old' = <<>>
    BY <1>3, <1>6 DEF hash_table_get, hash_table_remove, Ready, walking, growing, Free, Swept
  <2> QED BY <1>4, <2>1
<1>7. ASSUME NEW k \in Keys, NEW v \in Values, hash_table_put(k, v) PROVE Swept'
  <2>1. walk' = NoValue /\ seen' = NoValue
    BY <1>3, <1>7 DEF hash_table_put, Ready, walking
  <2>2. pc' # "grow" => old' = <<>>
    BY <1>7 DEF hash_table_put, Ready, growing, Swept
  <2> QED BY <1>4, <2>1, <2>2
<1>8. CASE hash_table_count \/ hash_table_clear
  <2>1. walk' = NoValue /\ seen' = NoValue /\ pc' # "grow" /\ old' = <<>>
    BY <1>3, <1>8 DEF hash_table_count, hash_table_clear, Ready, walking, growing, Swept
  <2> QED BY <1>4, <2>1
<1>9. ASSUME NEW v \in Values, hash_table_for_each(v) PROVE Swept'
  <2>1. pc' = "ready" /\ old' = <<>> /\ seen' = NoValue /\ pos' = 0 /\ cells' = cells
    BY <1>9 DEF hash_table_for_each, Ready, growing, Swept
  <2>2. Passed'
    BY <1>2, <2>1 DEF Passed, Occupied
  <2> QED BY <2>1, <2>2 DEF Swept
<1>10. CASE grow_hash_table
  <2>1. walk' = NoValue /\ seen' = NoValue /\ (pc' # "grow" => old' = <<>>)
    BY <1>3, <1>10 DEF grow_hash_table, walking, Swept
  <2> QED BY <1>4, <2>1
<1>11. CASE Rehash
  <2>1. CASE walk = NoValue
    <3>1. walk' = NoValue /\ seen' = NoValue /\ pc' # "grow" /\ old' = <<>>
      BY <1>3, <1>11, <2>1 DEF Rehash, walking, growing, Swept
    <3> QED BY <1>4, <3>1
  <2>2. CASE walk # NoValue /\ CELL_OCCUPIED(cells[at])
    BY <1>11, <2>2, SweptRehash
  <2>3. CASE walk # NoValue /\ ~CELL_OCCUPIED(cells[at])
    <3>1. /\ pc' = "ready" /\ old' = <<>>
          /\ UNCHANGED <<cells, walk, pos, seen>>
      BY <1>11, <2>3 DEF Rehash, walking, growing, Swept
    <3>2. Passed'
      BY <2>3, <3>1 DEF Swept, Passed
    <3> QED BY <3>1, <3>2 DEF Swept
  <2> QED BY <2>1, <2>2, <2>3
<1>12. CASE Callback
  <2>1. CASE cells[pos].value = walk
    BY <1>12, <2>1, SweptCallback
  <2>2. CASE cells[pos].value # walk
    <3>1. /\ walk # NoValue /\ pc' = "ready" /\ old' = <<>> /\ seen' = NoValue
          /\ pos' = pos + 1 /\ UNCHANGED <<cells, walk>> /\ pos \in 0 .. n
      BY <1>2, <1>12, <2>2 DEF Callback, growing, Swept, Inv, Walking
    <3>2. Passed
      BY <3>1 DEF Swept
    <3>3. \A j \in Occupied(cells) : j < pos + 1 => j < pos \/ j = pos
      BY <1>2, <3>1 DEF Occupied
    <3>4. Passed'
      BY <2>2, <3>1, <3>2, <3>3 DEF Passed
    <3> QED BY <3>1, <3>4 DEF Swept
  <2> QED BY <2>1, <2>2
<1>13. CASE Repeat
  <2>1. /\ walk # NoValue /\ seen # NoValue /\ pc' = "ready" /\ old' = <<>> /\ seen' = NoValue
        /\ UNCHANGED <<cells, walk>> /\ pos \in 0 .. n
        /\ Passed /\ seen \notin KeysOf(cells)
    BY <1>2, <1>13 DEF Repeat, growing, Swept, Inv, Walking
  <2>2. pos' = pos \/ (pos' = pos + 1 /\ pos \notin Occupied(cells))
    BY <1>13, <2>1 DEF Repeat, KeysOf, Occupied
  <2>3. \A j \in Occupied(cells) : j < pos' => j < pos
    BY <1>2, <2>1, <2>2 DEF Occupied
  <2>4. Passed'
    BY <2>1, <2>3 DEF Passed
  <2> QED BY <2>1, <2>4 DEF Swept
<1>14. CASE EndWalk
  <2>1. walk' = NoValue /\ seen' = seen /\ pc' # "grow" /\ old' = <<>> /\ pos = n
    BY <1>2, <1>14 DEF EndWalk, growing, Swept
  <2>2. seen = NoValue
    BY <1>2, <2>1 DEF Inv, Walking
  <2> QED BY <1>4, <2>1, <2>2
<1>15. CASE UNCHANGED vars
  <2>1. UNCHANGED <<hash_function, cells, old, at, walk, pos, seen, pc>>
    BY <1>15 DEF vars
  <2> QED BY <1>5, <2>1
<1> QED BY <1>6, <1>7, <1>8, <1>9, <1>10, <1>11, <1>12, <1>13, <1>14, <1>15 DEF Next, Loops

(***************************************************************************)
(* The refinement.                                                         *)
(***************************************************************************)
\* While the table does not grow, the entries are those of the cells.
LEMMA EntriesInCells ==
    /\ old = <<>> => Entries = EntriesOf(cells)
    /\ old' = <<>> => Entries' = EntriesOf(cells')
BY DEF Entries, EntriesOf

\* While it does, the old cells hold the others.
LEMMA EntriesInBoth ==
    ASSUME NEW m \in Nat, Moving(m)
    PROVE  Entries = EntriesOf(cells) \cup {old[i] : i \in Left}
<1>1. \A j \in Occupied(old) : j \in 0 .. m - 1 /\ at \in Nat
  BY DEF Moving, IsArray, Occupied
<1>2. {j \in DOMAIN old : j >= at /\ CELL_OCCUPIED(old[j])} = Left
  <2>1. DOMAIN old = 0 .. m - 1 /\ at \in Nat
    BY DEF Moving, IsArray
  <2> QED BY <2>1 DEF Left, Occupied
<1> QED BY <1>2 DEF Entries, EntriesOf

\* No two entries have the same key.
LEMMA UniqueEntries ==
    ASSUME Inv, Swept
    PROVE  Unique(Entries)
<1>1. Keyed(cells)
  BY DEF Inv
<1>2. Unique(EntriesOf(cells))
  BY <1>1 DEF Unique, EntriesOf, Keyed
<1>3. CASE pc # "grow"
  BY <1>2, <1>3, EntriesInCells DEF Swept
<1>4. CASE pc = "grow"
  <2>1. PICK m \in Nat : Moving(m)
    BY <1>4 DEF Inv, Stage
  <2>2. Entries = EntriesOf(cells) \cup {old[i] : i \in Left}
    BY <2>1, EntriesInBoth
  <2>3. \A i \in Left : \A e \in EntriesOf(cells) : e.key # old[i].key
    BY <2>1, KeysOfEntries DEF Moving
  <2>4. \A i, j \in Left : old[i].key = old[j].key => i = j
    BY <2>1 DEF Moving, Keyed, Left
  <2> SUFFICES ASSUME NEW e \in Entries, NEW f \in Entries, e.key = f.key PROVE e = f
    BY DEF Unique
  <2>5. CASE e \in EntriesOf(cells) /\ f \in EntriesOf(cells)
    BY <1>2, <2>5 DEF Unique
  <2>6. CASE e \in EntriesOf(cells) /\ f \in {old[i] : i \in Left}
    BY <2>3, <2>6
  <2>7. CASE e \in {old[i] : i \in Left} /\ f \in EntriesOf(cells)
    BY <2>3, <2>7
  <2>8. CASE e \in {old[i] : i \in Left} /\ f \in {old[i] : i \in Left}
    BY <2>4, <2>8
  <2> QED BY <2>2, <2>5, <2>6, <2>7, <2>8
<1> QED BY <1>3, <1>4

\* An old entry that is moved stays an entry.
LEMMA MoveEntries ==
    ASSUME Inv, grow_hash_table, at \in DOMAIN old
    PROVE  Entries' = Entries
<1>1. PICK i \in DOMAIN primes : Sized(i)
  BY DEF Inv
<1>2. PICK m \in Nat : Moving(m)
  BY DEF Inv, Stage, grow_hash_table
<1> DEFINE n == primes[i]
<1>3. size = n /\ n \in Nat /\ n > 1 /\ DOMAIN cells = 0 .. n - 1 /\ IsArray(cells, n)
  BY <1>1, SizeOfTable
<1> HIDE DEF n
<1>4. /\ Probing(cells) /\ Keyed(cells) /\ hash_function \in [Keys -> Nat]
      /\ Occupied(cells) # DOMAIN cells
  BY <1>2, EmptyCell DEF Inv, Moving
<1>5. /\ DOMAIN old = 0 .. m - 1 /\ at \in 0 .. m - 1 /\ IsArray(old, m)
      /\ \A j \in Left : old[j].key \notin KeysOf(cells)
  BY <1>2 DEF Moving, IsArray
<1>6. /\ at' = at + 1 /\ old' = old
      /\ cells' = IF CELL_OCCUPIED(old[at])
                  THEN [cells EXCEPT ![find_cell(old[at].key)] = old[at]] ELSE cells
  BY DEF grow_hash_table
<1>7. Entries' = EntriesOf(cells') \cup {old[j] : j \in {x \in DOMAIN old : x >= at + 1 /\ CELL_OCCUPIED(old[x])}}
  BY <1>6 DEF Entries, EntriesOf
<1>8. Entries = EntriesOf(cells) \cup {old[j] : j \in Left}
  BY <1>2, EntriesInBoth
<1> DEFINE Rest == {x \in DOMAIN old : x >= at + 1 /\ CELL_OCCUPIED(old[x])}
<1>9. CASE ~CELL_OCCUPIED(old[at])
  <2>1. Rest = Left
    <3>1. \A x \in 0 .. m - 1 : x >= at + 1 <=> at <= x /\ x # at
      BY <1>5
    <3> QED BY <1>5, <1>9, <3>1 DEF Left, Occupied
  <2> QED BY <1>6, <1>7, <1>8, <1>9, <2>1
<1>10. CASE CELL_OCCUPIED(old[at])
  <2>1. at \in Left /\ Rest = Left \ {at}
    <3>1. \A x \in 0 .. m - 1 : x >= at + 1 <=> at <= x /\ x # at
      BY <1>5
    <3>2. at <= at
      BY <1>5
    <3> QED BY <1>5, <1>10, <3>1, <3>2 DEF Left, Occupied
  <2>2. old[at] \in [key : Keys, value : Values]
    BY <1>5, <1>10 DEF IsArray, Cells, CELL_OCCUPIED
  <2>3. cells' = [cells EXCEPT ![Probe(cells, old[at].key)] = old[at]]
    BY <1>6, <1>10 DEF find_cell
  <2>4. EntriesOf(cells') = Without(EntriesOf(cells), old[at].key) \cup {old[at]}
    BY <1>3, <1>4, <2>2, <2>3, EntriesOfPut
  <2>5. Without(EntriesOf(cells), old[at].key) = EntriesOf(cells)
    BY <1>5, <2>1, KeysOfEntries DEF Without
  <2> HIDE DEF Rest
  <2>6. {old[j] : j \in Left} = {old[j] : j \in Rest} \cup {old[at]}
    BY <2>1
  <2> QED BY <1>7, <1>8, <2>4, <2>5, <2>6 DEF Rest
<1> QED BY <1>9, <1>10

\* An entry is added, or takes the place of the one with its key.
LEMMA PutEntries ==
    ASSUME Inv, Swept, NEW e \in [key : Keys, value : Values], Probing(cells),
           cells' = [cells EXCEPT ![find_cell(e.key)] = e], old' = <<>>,
           Entries = EntriesOf(cells), walk = NoValue, UNCHANGED <<walk, got>>
    PROVE  Map!Put(e.key, e.value)
<1>1. PICK i \in DOMAIN primes : Sized(i)
  BY DEF Inv
<1>2. IsArray(cells, primes[i])
  BY <1>1 DEF Sized
<1>3. Keyed(cells) /\ hash_function \in [Keys -> Nat] /\ Occupied(cells) # DOMAIN cells
  BY EmptyCell DEF Inv
<1>4. cells' = [cells EXCEPT ![Probe(cells, e.key)] = e]
  BY DEF find_cell
<1>5. EntriesOf(cells') = Without(EntriesOf(cells), e.key) \cup {e}
  BY <1>2, <1>3, <1>4, EntriesOfPut
<1>6. Entries' = Without(Entries, e.key) \cup {e}
  BY <1>5, EntriesInCells
<1>7. MapOf(Entries') = With(MapOf(Entries), e.key, e.value)
  <2>1. Unique(Entries)
    BY UniqueEntries
  <2>2. MapOf(Without(Entries, e.key) \cup {e}) = With(MapOf(Entries), e.key, e.value)
    BY <2>1, MapOfPut
  <2> QED BY <1>6, <2>2
<1> QED BY <1>7 DEF Map!Put, Map!Idle, MapOf, With

\* The entry of a cell is removed.
LEMMA RemoveEntries ==
    ASSUME Inv, Swept, NEW j \in Occupied(cells), pc # "grow",
           cells' = [cells EXCEPT ![j] = Empty], old' = old
    PROVE  /\ MapOf(Entries') = [k \in DOMAIN MapOf(Entries) \ {cells[j].key} |->
                                    MapOf(Entries)[k]]
           /\ cells[j].key \in DOMAIN MapOf(Entries)
           /\ MapOf(Entries)[cells[j].key] = cells[j].value
<1>1. PICK i \in DOMAIN primes : Sized(i)
  BY DEF Inv
<1>2. IsArray(cells, primes[i]) /\ Keyed(cells)
  BY <1>1 DEF Sized, Inv
<1>3. EntriesOf(cells') = Without(EntriesOf(cells), cells[j].key)
  BY <1>2, EntriesOfFreed
<1>4. Entries' = Without(Entries, cells[j].key) /\ Entries = EntriesOf(cells)
  BY <1>3, EntriesInCells DEF Swept
<1>5. cells[j] \in Entries
  BY <1>4 DEF EntriesOf
<1>6. Unique(Entries)
  BY UniqueEntries
<1>7. cells[j].key \in DOMAIN MapOf(Entries) /\ MapOf(Entries)[cells[j].key] = cells[j].value
  BY <1>5, <1>6, MapOfEntry
<1>8. MapOf(Without(Entries, cells[j].key)) =
          [k \in DOMAIN MapOf(Entries) \ {cells[j].key} |-> MapOf(Entries)[k]]
  BY <1>6, MapOfRemove
<1> QED BY <1>4, <1>7, <1>8

\* A table that has been made is an empty map.
LEMMA EmptyMap == Init => Map!Init
<1> SUFFICES ASSUME Init PROVE Map!Init
  OBVIOUS
<1>1. PICK i : cells = Cleared(primes[i])
  BY DEF Init
<1>2. Occupied(cells) = {}
  BY <1>1 DEF Occupied, Cleared, CELL_OCCUPIED
<1>3. Entries = {}
  BY <1>2, EntriesInCells DEF EntriesOf, Init
<1> QED BY <1>3 DEF Map!Init, Init

\* Counting means the same in both modules.
LEMMA SameCardinality == \A S : Map!Cardinality(S) = Cardinality(S)
BY DEF Map!Cardinality, Cardinality

\* Each step is one of the map or leaves the map alone.
LEMMA MapStep == Inv /\ Swept /\ [Next]_vars => [Map!Next]_(Map!vars)
<1> SUFFICES ASSUME Inv, Swept, [Next]_vars PROVE [Map!Next]_(Map!vars)
  OBVIOUS
<1>1. PICK i \in DOMAIN primes : Sized(i)
  BY DEF Inv
<1> DEFINE n == primes[i]
<1>2. size = n /\ n \in Nat /\ n > 1 /\ DOMAIN cells = 0 .. n - 1 /\ IsArray(cells, n)
  BY <1>1, SizeOfTable
<1>3. /\ hash_function \in [Keys -> Nat] /\ Occupied(cells) # DOMAIN cells /\ Keyed(cells)
  BY EmptyCell DEF Inv
<1>u. Unique(Entries)
  BY UniqueEntries
\* A step that leaves the entries alone.
<1>4. ASSUME UNCHANGED <<cells, old, at>> PROVE Entries' = Entries
  BY <1>4 DEF Entries
<1>5. ASSUME Entries' = Entries, UNCHANGED <<got, walk>> PROVE UNCHANGED Map!vars
  BY <1>5 DEF Map!vars
\* Between operations the map holds what the cells do.
<1>6. ASSUME pc = "ready"
      PROVE  /\ old = <<>> /\ Entries = EntriesOf(cells)
             /\ DOMAIN MapOf(Entries) = KeysOf(cells)
  BY <1>6, EntriesInCells, KeysOfEntries DEF Swept, MapOf
<1>7. ASSUME NEW k \in Keys, pc = "ready"
      PROVE  /\ CELL_OCCUPIED(cells[find_cell(k)]) <=> k \in KeysOf(cells)
             /\ find_cell(k) \in DOMAIN cells
             /\ k \in KeysOf(cells) =>
                   /\ cells[find_cell(k)].key = k
                   /\ MapOf(Entries)[k] = cells[find_cell(k)].value
  <2> DEFINE j == find_cell(k)
  <2>1. Stops(cells, k, j)
    BY <1>2, <1>3, ProbeStops DEF find_cell
  <2>2. j \in Occupied(cells) <=> k \in KeysOf(cells)
    BY <1>7, WhenReady
  <2>3. j \in DOMAIN cells /\ (CELL_OCCUPIED(cells[j]) <=> k \in KeysOf(cells))
    BY <2>1, <2>2 DEF Stops, Occupied
  <2>4. ASSUME k \in KeysOf(cells)
        PROVE  cells[j].key = k /\ MapOf(Entries)[k] = cells[j].value
    <3>1. cells[j].key = k /\ cells[j] \in EntriesOf(cells)
      BY <2>1, <2>2, <2>3, <2>4 DEF Stops, EntriesOf
    <3>2. cells[j] \in Entries
      BY <1>6, <1>7, <3>1
    <3>3. MapOf(Entries)[cells[j].key] = cells[j].value
      BY <1>u, <3>2, MapOfEntry
    <3> QED BY <3>1, <3>3
  <2> QED BY <2>3, <2>4
<1>8. ASSUME NEW k \in Keys, hash_table_get(k) PROVE Map!Get(k)
  <2>1. /\ pc = "ready" /\ walk = NoValue /\ walk' = walk
        /\ got' = cells[find_cell(k)].value /\ Entries' = Entries
    BY <1>4, <1>8 DEF hash_table_get, Ready, walking, growing
  <2>2. got' = IF k \in DOMAIN MapOf(Entries) THEN MapOf(Entries)[k] ELSE NoValue
    <3>1. CASE k \in KeysOf(cells)
      BY <1>6, <1>7, <2>1, <3>1
    <3>2. CASE k \notin KeysOf(cells)
      <4>1. cells[find_cell(k)] = Empty
        BY <1>7, <2>1, <3>2 DEF CELL_OCCUPIED
      <4> QED BY <1>6, <2>1, <3>2, <4>1 DEF Empty
    <3> QED BY <3>1, <3>2
  <2> QED BY <2>1, <2>2 DEF Map!Get, Map!Idle, MapOf
<1>9. ASSUME NEW k \in Keys, hash_table_remove(k) PROVE Map!Remove(k)
  <2> DEFINE j == find_cell(k)
  <2>1. pc = "ready" /\ walk = NoValue /\ walk' = walk /\ old' = old
    BY <1>9 DEF hash_table_remove, Ready, walking, growing
  <2>2. CASE CELL_OCCUPIED(cells[j])
    <3>1. cells' = [cells EXCEPT ![j] = Empty] /\ got' = 1
      BY <1>9, <2>2 DEF hash_table_remove, Free
    <3>2. cells[j].key = k /\ j \in Occupied(cells)
      BY <1>7, <2>1, <2>2 DEF Occupied
    <3> HIDE DEF j
    <3>3. /\ MapOf(Entries') = [q \in DOMAIN MapOf(Entries) \ {cells[j].key} |->
                                    MapOf(Entries)[q]]
          /\ cells[j].key \in DOMAIN MapOf(Entries)
      BY <2>1, <3>1, <3>2, RemoveEntries
    <3> QED BY <2>1, <3>1, <3>2, <3>3 DEF Map!Remove, Map!Idle, MapOf
  <2>3. CASE ~CELL_OCCUPIED(cells[j])
    <3>1. got' = 0 /\ Entries' = Entries
      BY <1>4, <1>9, <2>3 DEF hash_table_remove, growing
    <3>2. k \notin DOMAIN MapOf(Entries)
      BY <1>6, <1>7, <2>1, <2>3
    <3>3. DOMAIN MapOf(Entries) \ {k} = DOMAIN MapOf(Entries)
      BY <3>2
    <3>4. MapOf(Entries) = [q \in DOMAIN MapOf(Entries) |-> MapOf(Entries)[q]]
      BY DEF MapOf
    <3>5. MapOf(Entries') = [q \in DOMAIN MapOf(Entries) \ {k} |-> MapOf(Entries)[q]]
      BY <3>1, <3>3, <3>4
    <3> QED BY <2>1, <3>1, <3>2, <3>5 DEF Map!Remove, Map!Idle, MapOf
  <2> QED BY <2>2, <2>3
<1>10. ASSUME NEW k \in Keys, NEW v \in Values, hash_table_put(k, v)
       PROVE  Map!Put(k, v) \/ UNCHANGED Map!vars
  <2> DEFINE e == [key |-> k, value |-> v]
  <2>1. /\ pc = "ready" /\ walk = NoValue /\ UNCHANGED <<walk, got>>
    BY <1>10 DEF hash_table_put, Ready, walking
  <2>2. e \in [key : Keys, value : Values] /\ e.key = k /\ e.value = v
    OBVIOUS
  <2>3. CASE CELL_OCCUPIED(cells[find_cell(k)]) \/ count < resize_threshold
    <3>1. cells' = [cells EXCEPT ![find_cell(e.key)] = e] /\ old' = old
      BY <1>10, <2>3 DEF hash_table_put, Add, growing
    <3>2. Probing(cells) /\ old' = <<>> /\ Entries = EntriesOf(cells)
      BY <1>6, <2>1, <3>1, WhenReady
    <3> HIDE DEF e
    <3>3. Map!Put(e.key, e.value)
      BY <2>1, <2>2, <3>1, <3>2, PutEntries
    <3> QED BY <2>2, <3>3
  <2>4. CASE ~CELL_OCCUPIED(cells[find_cell(k)]) /\ ~(count < resize_threshold)
    <3>1. PICK r : old' = cells /\ cells' = Cleared(primes[r]) /\ at' = 0
      BY <1>10, <2>4 DEF hash_table_put
    <3>2. Occupied(cells') = {}
      BY <3>1 DEF Occupied, Cleared, CELL_OCCUPIED
    <3>3. \A x \in DOMAIN cells : x >= 0
      BY <1>2
    <3>4. Entries' = EntriesOf(cells)
      BY <3>1, <3>2, <3>3 DEF Entries, EntriesOf, Occupied
    <3> QED BY <1>5, <1>6, <2>1, <3>4
  <2> QED BY <2>3, <2>4
<1>11. ASSUME hash_table_count PROVE Map!Count
  <2>1. /\ pc = "ready" /\ walk = NoValue /\ walk' = walk /\ got' = count /\ Entries' = Entries
    BY <1>4, <1>11 DEF hash_table_count, Ready, walking, growing
  <2>2. count = Cardinality(DOMAIN MapOf(Entries))
    BY <1>2, <1>3, <1>6, <2>1, AsManyAsKeys, WhenReady
  <2> QED BY <2>1, <2>2, SameCardinality DEF Map!Count, Map!Idle, MapOf
<1>12. ASSUME hash_table_clear PROVE Map!Clear
  <2>1. /\ pc = "ready" /\ walk = NoValue /\ UNCHANGED <<walk, got, old>>
        /\ cells' = Cleared(size)
    BY <1>12 DEF hash_table_clear, Ready, walking, growing
  <2>2. Occupied(cells') = {}
    BY <2>1 DEF Occupied, Cleared, CELL_OCCUPIED
  <2>3. Entries' = {}
    BY <1>6, <2>1, <2>2, EntriesInCells DEF EntriesOf
  <2> QED BY <2>1, <2>3 DEF Map!Clear, Map!Idle
<1>13. ASSUME NEW v \in Values, hash_table_for_each(v) PROVE Map!Start(v)
  <2>1. /\ walk = NoValue /\ walk' = v /\ got' = got /\ Entries' = Entries
    BY <1>4, <1>13 DEF hash_table_for_each, Ready, growing
  <2> QED BY <2>1 DEF Map!Start
<1>14. ASSUME grow_hash_table
       PROVE  (\E k \in Keys, v \in Values : Map!Put(k, v)) \/ UNCHANGED Map!vars
  <2>1. pc = "grow" /\ walk = NoValue /\ UNCHANGED <<walk, got>>
    BY <1>14 DEF grow_hash_table, walking, Swept
  <2>2. CASE at \in DOMAIN old
    BY <1>5, <1>14, <2>1, <2>2, MoveEntries
  <2>3. CASE at \notin DOMAIN old
    <3>1. PICK m \in Nat : Moving(m)
      BY <2>1 DEF Inv, Stage
    <3>2. Left = {}
      BY <2>3, <3>1 DEF Left, Occupied, Moving, IsArray
    <3>3. Entries = EntriesOf(cells)
      BY <3>1, <3>2, EntriesInBoth
    <3>4. PICK e \in [key : Keys, value : Values] : e = pending
      BY <3>1 DEF Moving
    <3>5. /\ cells' = [cells EXCEPT ![find_cell(e.key)] = e] /\ old' = <<>>
      BY <1>14, <2>3, <3>4 DEF grow_hash_table, Add
    <3>6. Probing(cells)
      BY <3>1 DEF Moving
    <3>7. Map!Put(e.key, e.value)
      BY <2>1, <3>3, <3>5, <3>6, PutEntries
    <3> QED BY <3>7
  <2> QED BY <2>2, <2>3
<1>15. ASSUME Rehash PROVE UNCHANGED Map!vars
  <2>1. UNCHANGED <<walk, got, old>> /\ old = <<>>
    BY <1>15 DEF Rehash, walking, growing, Swept
  <2>2. Entries' = Entries
    BY <1>15, <2>1, RehashEntries, EntriesInCells
  <2> QED BY <1>5, <2>1, <2>2
<1>16. ASSUME Callback PROVE Map!RemoveNext \/ UNCHANGED Map!vars
  <2>1. pc = "ready" /\ walk # NoValue /\ UNCHANGED <<walk, got, old>>
    BY <1>16 DEF Callback, growing
  <2>2. CASE cells[pos].value = walk
    <3>1. pos \in Occupied(cells)
      BY <1>2, <1>16, <2>1, <2>2 DEF Callback, Occupied, CELL_OCCUPIED, Empty, Inv, Walking
    <3>2. cells' = [cells EXCEPT ![pos] = Empty]
      BY <1>16, <2>1, <2>2, <3>1, WhenReady DEF Callback, Free
    <3>3. /\ MapOf(Entries') = [q \in DOMAIN MapOf(Entries) \ {cells[pos].key} |->
                                    MapOf(Entries)[q]]
          /\ cells[pos].key \in DOMAIN MapOf(Entries)
          /\ MapOf(Entries)[cells[pos].key] = cells[pos].value
      BY <2>1, <3>1, <3>2, RemoveEntries
    <3> QED BY <2>1, <2>2, <3>3 DEF Map!RemoveNext, MapOf
  <2>3. CASE cells[pos].value # walk
    <3>1. Entries' = Entries
      BY <1>4, <1>16, <2>3 DEF Callback, growing
    <3> QED BY <1>5, <2>1, <3>1
  <2> QED BY <2>2, <2>3
<1>17. ASSUME Repeat PROVE UNCHANGED Map!vars
  <2>1. UNCHANGED <<walk, got>> /\ Entries' = Entries
    BY <1>4, <1>17 DEF Repeat, growing
  <2> QED BY <1>5, <2>1
<1>18. ASSUME EndWalk PROVE Map!Finish
  <2>1. /\ pc = "ready" /\ walk # NoValue /\ walk' = NoValue /\ got' = got /\ pos = n
        /\ Entries' = Entries
    BY <1>2, <1>4, <1>18 DEF EndWalk, growing
  <2>2. ASSUME NEW k \in DOMAIN MapOf(Entries) PROVE MapOf(Entries)[k] # walk
    <3>1. PICK j \in Occupied(cells) : cells[j].key = k
      BY <1>6, <2>1 DEF KeysOf
    <3>2. cells[j].value # walk
      BY <1>2, <2>1 DEF Swept, Passed, Occupied
    <3>3. cells[j] \in Entries
      BY <1>6, <2>1 DEF EntriesOf
    <3>4. MapOf(Entries)[cells[j].key] = cells[j].value
      BY <1>u, <3>3, MapOfEntry
    <3> QED BY <3>1, <3>2, <3>4
  <2> QED BY <2>1, <2>2 DEF Map!Finish, MapOf
<1>19. CASE UNCHANGED vars
  <2>1. UNCHANGED <<walk, got>> /\ Entries' = Entries
    BY <1>4, <1>19 DEF vars
  <2> QED BY <1>5, <2>1
<1>20. Next => Map!Next \/ UNCHANGED Map!vars
  BY <1>8, <1>9, <1>10, <1>11, <1>12, <1>13, <1>14, <1>15, <1>16, <1>17, <1>18
  DEF Next, Loops, Map!Next
<1> QED BY <1>19, <1>20

\* The open-addressing table with its removals, growing and walks that remove is a
\* map (hash_table_get, _put, _remove, _count, _clear and _for_each), for any keys,
\* values, hash functions and sizes.
THEOREM TableIsMap == Spec => ImplementsMap
<1>1. Init => Inv /\ Swept /\ Map!Init
  <2>1. Init => Swept
    BY DEF Init, Swept
  <2> QED BY <2>1, InvInit, EmptyMap
<1>2. Inv /\ Swept /\ [Next]_vars => Inv' /\ Swept' /\ [Map!Next]_(Map!vars)
  BY InvStep, SweptStep, MapStep
<1> QED BY <1>1, <1>2, PTL DEF Spec, ImplementsMap, Map!Spec
=============================================================================
