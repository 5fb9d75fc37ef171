------------------------- MODULE AddressListsProofs -------------------------
(***************************************************************************)
(* Proofs about AddressLists: for any hosts, answers, command lines and    *)
(* numbers of calls, address lists live exactly as long as they are held,  *)
(* assertions hold but in one case, and connect_to_host gives up only when *)
(* every address has been tried in the same call.                          *)
(***************************************************************************)
EXTENDS AddressLists, FiniteSetTheorems, FunctionTheorems, TLAPS

-----------------------------------------------------------------------------
\* The sort.
LEMMA BeforeIsOrder ==
    ASSUME NEW s, NEW n \in Nat, DOMAIN s = 1..n
    PROVE  /\ \A j, k \in 1..n : Before(s, j, k) \/ Before(s, k, j)
           /\ \A j, k \in 1..n : Before(s, j, k) /\ Before(s, k, j) => j = k
           /\ \A j, k, m \in 1..n : Before(s, j, k) /\ Before(s, k, m) => Before(s, j, m)
  BY DEF Before

\* Two addresses never come to the same place.
LEMMA PlacesDiffer ==
    ASSUME NEW s, NEW n \in Nat, DOMAIN s = 1..n
    PROVE  /\ \A k \in 1..n : Place(s, k) \in 1..n
           /\ \A j, k \in 1..n : Place(s, j) = Place(s, k) => j = k
<1> DEFINE Upto(k) == {j \in DOMAIN s : Before(s, j, k)}
<1>1. IsFiniteSet(1..n) /\ Cardinality(1..n) = n
  BY FS_Interval
<1>2. \A k \in 1..n : Upto(k) \in SUBSET (1..n) /\ k \in Upto(k)
  BY BeforeIsOrder
<1>3. \A k \in 1..n : IsFiniteSet(Upto(k)) /\ Cardinality(Upto(k)) <= n
                      /\ Cardinality(Upto(k)) \in Nat
  BY <1>1, <1>2, FS_Subset, FS_CardinalityType
<1>4. \A k \in 1..n : Cardinality(Upto(k)) # 0
  BY <1>2, <1>3, FS_EmptySet
<1>5. ASSUME NEW j \in 1..n, NEW k \in 1..n, Cardinality(Upto(j)) = Cardinality(Upto(k)),
             Before(s, j, k)
      PROVE  j = k
  <2>1. Upto(j) \in SUBSET Upto(k)
    BY <1>5, BeforeIsOrder
  <2>2. Upto(k) = Upto(j)
    BY <2>1, <1>3, <1>5, FS_Subset
  <2>3. Before(s, k, j)
    BY <2>2, <1>2
  <2> QED
    BY <2>3, <1>5, BeforeIsOrder
<1>6. \A k : Place(s, k) = Cardinality(Upto(k))
  BY DEF Place
<1> HIDE DEF Upto
<1> QED
  BY <1>3, <1>4, <1>5, <1>6, BeforeIsOrder

\* The sorted list has the addresses of the answer, and as many.
LEMMA SortedKeeps ==
    ASSUME NEW S, NEW s \in Seq(S)
    PROVE  /\ Sorted(s) \in Seq(S)
           /\ Len(Sorted(s)) = Len(s)
           /\ {Sorted(s)[n] : n \in DOMAIN Sorted(s)} = {s[n] : n \in DOMAIN s}
<1> DEFINE N == Len(s)
           place == [k \in 1..N |-> Place(s, k)]
           At(n) == CHOOSE k \in DOMAIN s : Place(s, k) = n
<1>1. N \in Nat /\ DOMAIN s = 1..N /\ \A k \in 1..N : s[k] \in S
  OBVIOUS
<1>2. place \in [1..N -> 1..N] /\ \A j, k \in 1..N : place[j] = place[k] => j = k
  BY <1>1, PlacesDiffer
<1>3. place \in Injection(1..N, 1..N)
  BY <1>2, Fun_IsInj
<1>4. place \in Surjection(1..N, 1..N)
  BY <1>1, <1>3, FS_Injection, FS_Interval
<1>5. \A n \in 1..N : \E k \in 1..N : Place(s, k) = n
  <2>1. \A n \in 1..N : \E k \in 1..N : place[k] = n
    BY <1>4 DEF Surjection
  <2> QED
    BY <2>1
<1>6. \A n \in 1..N : At(n) \in 1..N /\ Place(s, At(n)) = n
  BY <1>1, <1>5
<1>7. \A k \in 1..N : Place(s, k) \in 1..N /\ At(Place(s, k)) = k
  BY <1>1, <1>6, PlacesDiffer
<1>8. Sorted(s) = [n \in 1..N |-> s[At(n)]]
  BY <1>1 DEF Sorted
<1> HIDE DEF At, place
<1>9. Sorted(s) \in [1..N -> S]
  BY <1>1, <1>6, <1>8
<1>10. Sorted(s) \in Seq(S) /\ Len(Sorted(s)) = N /\ DOMAIN Sorted(s) = 1..N
  BY <1>1, <1>9
<1>11. \A k \in 1..N : s[k] = Sorted(s)[Place(s, k)]
  BY <1>7, <1>8
<1> QED
  BY <1>1, <1>6, <1>7, <1>8, <1>10, <1>11

-----------------------------------------------------------------------------
\* The heap.
Addresses == UNION {UNION {{s[k] : k \in DOMAIN s} : s \in Answers[h]} : h \in Hosts}

Struct == {list \in [addresses : Seq(Addresses) \ {<<>>}, faulty : Nat,
                     connected : BOOLEAN, refcount : Nat \ {0}] :
              list.faulty < Len(list.addresses)}

\* What a list says, without the number of its holders.
Alike(list, other) ==
    /\ list.addresses = other.addresses
    /\ list.faulty = other.faulty
    /\ list.connected = other.connected

\* A heap hp in which u[l] is the number of the holders of l.
Counted(hp, u) ==
    /\ hp \in [Lists -> Struct \cup {Free}]
    /\ u \in [Lists -> Nat]
    /\ \A l \in Lists : IF u[l] = 0 THEN hp[l] = Free
                        ELSE hp[l] # Free /\ hp[l].refcount = u[l]

\* A place that is free holds no list.
LEMMA FreeIsNoList == Free \notin Struct
<1>1. DOMAIN Free = {"free"}
  BY DEF Free
<1>2. \A list \in Struct : "faulty" \in DOMAIN list
  BY DEF Struct
<1> QED
  BY <1>1, <1>2

\* A list made of an answer is clean, and one holder's.
LEMMA NewList ==
    ASSUME NEW h \in Hosts, NEW s \in Answers[h]
    PROVE  LET list == address_list_from_addrinfo(Sorted(s))
           IN  list \in Struct /\ list.refcount = 1 /\ list.faulty = 0 /\ ~list.connected
<1>1. s # <<>> /\ s \in Seq({s[k] : k \in DOMAIN s})
  BY AnswersAssumption
<1>2. {s[k] : k \in DOMAIN s} \subseteq Addresses
  BY DEF Addresses
<1>3. s \in Seq(Addresses)
  <2>1. Len(s) \in Nat /\ DOMAIN s = 1..Len(s) /\ s = [k \in 1..Len(s) |-> s[k]]
    BY <1>1
  <2>2. \A k \in 1..Len(s) : s[k] \in Addresses
    BY <2>1, <1>2
  <2> QED
    BY <2>1, <2>2
<1>4. Len(s) > 0
  BY <1>1
<1>5. Sorted(s) \in Seq(Addresses) /\ Len(Sorted(s)) = Len(s)
  BY <1>3, SortedKeeps
<1>6. Sorted(s) # <<>>
  BY <1>4, <1>5
<1> QED
  BY <1>4, <1>5, <1>6 DEF address_list_from_addrinfo, Struct

\* One more holder.
LEMMA Shared ==
    ASSUME NEW hp, NEW u, Counted(hp, u), NEW l \in Lists, u[l] # 0
    PROVE  LET hp2 == [hp EXCEPT ![l].refcount = @ + 1]
           IN  /\ Counted(hp2, [u EXCEPT ![l] = @ + 1])
               /\ \A m \in Lists : hp[m] # Free => Alike(hp2[m], hp[m])
<1> DEFINE hp2 == [hp EXCEPT ![l].refcount = @ + 1]
<1>1. hp[l] \in Struct /\ hp[l].refcount = u[l]
  BY DEF Counted
<1>2. hp2[l] \in Struct /\ hp2[l].refcount = u[l] + 1 /\ Alike(hp2[l], hp[l])
  <2>1. PICK list : list = hp[l]
    OBVIOUS
  <2>2. hp2[l] = [list EXCEPT !.refcount = @ + 1]
    BY <2>1 DEF Counted
  <2>3. list.refcount \in Nat
    BY <1>1, <2>1 DEF Struct
  <2>4. [list EXCEPT !.refcount = @ + 1] \in Struct
    BY <1>1, <2>1, <2>3 DEF Struct
  <2>5. list \in [addresses : Seq(Addresses) \ {<<>>}, faulty : Nat,
                  connected : BOOLEAN, refcount : Nat \ {0}]
    BY <1>1, <2>1 DEF Struct
  <2> HIDE DEF hp2
  <2> QED
    BY <1>1, <2>1, <2>2, <2>4, <2>5 DEF Alike
<1>3. hp2[l] # Free
  BY <1>2, FreeIsNoList
<1>4. \A m \in Lists \ {l} : hp2[m] = hp[m]
  BY DEF Counted
<1>5. hp2 \in [Lists -> Struct \cup {Free}]
  BY <1>2, <1>4 DEF Counted
<1> HIDE DEF hp2
<1>6. Counted(hp2, [u EXCEPT ![l] = @ + 1])
  BY <1>2, <1>3, <1>4, <1>5 DEF Counted
<1>7. \A m \in Lists : hp[m] # Free => Alike(hp2[m], hp[m])
  BY <1>2, <1>4 DEF Alike
<1> QED
  BY <1>6, <1>7 DEF hp2

\* One holder less: the last one frees the list.
LEMMA Released ==
    ASSUME NEW hp, NEW u, Counted(hp, u), NEW l \in Lists, u[l] # 0
    PROVE  LET hp2 == address_list_release(hp, l)
           IN  /\ Counted(hp2, [u EXCEPT ![l] = @ - 1])
               /\ \A m \in Lists : hp2[m] # Free => hp[m] # Free /\ Alike(hp2[m], hp[m])
<1> DEFINE hp2 == address_list_release(hp, l)
           u2 == [u EXCEPT ![l] = @ - 1]
<1>1. hp[l] \in Struct /\ hp[l] # Free /\ hp[l].refcount = u[l] /\ u[l] \in Nat \ {0}
  BY DEF Counted
<1>2. \A m \in Lists \ {l} : hp2[m] = hp[m] /\ u2[m] = u[m]
  BY DEF Counted, address_list_release
<1>3. CASE u[l] = 1
  <2>1. hp2[l] = Free /\ u2[l] = 0
    BY <1>1, <1>3 DEF Counted, address_list_release
  <2>2. hp2 \in [Lists -> Struct \cup {Free}] /\ u2 \in [Lists -> Nat]
    BY <1>1, <1>3 DEF Counted, address_list_release
  <2> HIDE DEF hp2, u2
  <2>3. Counted(hp2, u2)
    BY <1>2, <2>1, <2>2 DEF Counted
  <2>4. \A m \in Lists : hp2[m] # Free => hp[m] # Free /\ Alike(hp2[m], hp[m])
    BY <1>2, <2>1 DEF Alike
  <2> QED
    BY <2>3, <2>4 DEF hp2, u2
<1>4. CASE u[l] # 1
  <2>1. hp2 = [hp EXCEPT ![l].refcount = @ - 1]
    BY <1>1, <1>4 DEF address_list_release
  <2>2. hp2[l] \in Struct /\ hp2[l].refcount = u[l] - 1 /\ Alike(hp2[l], hp[l])
    BY <1>1, <1>4, <2>1 DEF Struct, Counted, Alike
  <2>3. hp2[l] # Free
    BY <2>2, FreeIsNoList
  <2>4. hp2 \in [Lists -> Struct \cup {Free}] /\ u2 \in [Lists -> Nat] /\ u2[l] = u[l] - 1
    BY <1>1, <1>2, <1>4, <2>1, <2>2 DEF Counted
  <2> HIDE DEF hp2, u2
  <2>5. Counted(hp2, u2)
    BY <1>1, <1>2, <1>4, <2>2, <2>3, <2>4 DEF Counted
  <2>6. \A m \in Lists : hp2[m] # Free => hp[m] # Free /\ Alike(hp2[m], hp[m])
    BY <1>1, <1>2, <2>2 DEF Alike
  <2> QED
    BY <2>5, <2>6 DEF hp2, u2
<1> QED
  BY <1>3, <1>4

-----------------------------------------------------------------------------
\* The cache, and who holds a list: a host of the cache, the call of
\* connect_to_host (a), and the lookup under way (b).
IsCache(c) ==
    /\ c \in [DOMAIN c -> Lists]
    /\ DOMAIN c \subseteq Hosts \ Numeric
    /\ DOMAIN c # {} => opt.dns_cache
    /\ \A g, h \in DOMAIN c : c[g] = c[h] => g = h

Uses(c, a, b) ==
    [l \in Lists |-> (IF \E h \in DOMAIN c : c[h] = l THEN 1 ELSE 0)
                     + (IF a = l THEN 1 ELSE 0) + (IF b = l THEN 1 ELSE 0)]

Good(hp, c, a, b) ==
    /\ IsCache(c)
    /\ a \in Lists \cup {"none"} /\ b \in Lists \cup {"none"}
    /\ Counted(hp, Uses(c, a, b))

\* Each holder counts one.
LEMMA Counting ==
    ASSUME NEW c, NEW a, NEW b, NEW u, u = Uses(c, a, b)
    PROVE  /\ u \in [Lists -> Nat]
           /\ \A v \in [Lists -> Nat], l \in Lists :
                 (\A m \in Lists : v[m] = IF m = l THEN u[m] + 1 ELSE u[m])
                    => v = [u EXCEPT ![l] = @ + 1]
           /\ \A v \in [Lists -> Nat], l \in Lists :
                 (\A m \in Lists : v[m] = IF m = l THEN u[m] - 1 ELSE u[m])
                    => v = [u EXCEPT ![l] = @ - 1]
<1>1. u \in [Lists -> Nat]
  BY DEF Uses
<1> QED
  BY <1>1

\* A list that somebody holds is on the heap.
LEMMA HeldLives ==
    ASSUME NEW hp, NEW c, NEW a, NEW b, Good(hp, c, a, b)
    PROVE  /\ \A h \in DOMAIN c : c[h] \in Lists /\ hp[c[h]] # Free
           /\ a # "none" => a \in Lists /\ hp[a] # Free
           /\ b # "none" => b \in Lists /\ hp[b] # Free
           /\ \A l \in Lists : hp[l] # Free => hp[l] \in Struct
<1>1. \A l \in Lists : Uses(c, a, b)[l] = 0 <=> hp[l] = Free
  BY DEF Good, Counted
<1>2. \A h \in DOMAIN c : c[h] \in Lists
  BY DEF Good, IsCache
<1> QED
  BY <1>1, <1>2 DEF Uses, Good, Counted

\* There is room for the list of an answer.
LEMMA Room ==
    ASSUME NEW hp, NEW c, NEW a, Good(hp, c, a, "none")
    PROVE  \E l \in Lists : hp[l] = Free
<1> DEFINE D == DOMAIN c
           R == {c[h] : h \in D}
<1>1. IsFiniteSet(Hosts \ Numeric) /\ IsFiniteSet(Lists)
  BY RoomAssumption, FS_Subset
<1>2. D \in SUBSET (Hosts \ Numeric) /\ c \in [D -> Lists]
  BY DEF Good, IsCache
<1>3. IsFiniteSet(D) /\ Cardinality(D) <= Cardinality(Hosts \ Numeric)
  BY <1>1, <1>2, FS_Subset
<1>4. c \in Surjection(D, R)
  BY <1>2, Fun_IsSurj
<1>5. IsFiniteSet(R) /\ Cardinality(R) <= Cardinality(D)
  BY <1>3, <1>4, FS_Surjection
<1>6. IsFiniteSet(R \cup {a}) /\ Cardinality(R \cup {a}) <= Cardinality(R) + 1
  <2> HIDE DEF R
  <2>1. Cardinality(R) \in Nat
    BY <1>5, FS_CardinalityType
  <2>2. /\ IsFiniteSet(R \cup {a})
        /\ Cardinality(R \cup {a}) = IF a \in R THEN Cardinality(R) ELSE Cardinality(R) + 1
    BY <1>5, FS_AddElement
  <2> QED
    BY <2>1, <2>2
<1>7. PICK l \in Lists : l \notin R \cup {a}
  <2> SUFFICES ASSUME Lists \in SUBSET (R \cup {a})
               PROVE  FALSE
    OBVIOUS
  <2>1. Cardinality(Lists) <= Cardinality(R \cup {a})
    BY <1>6, FS_Subset
  <2>2. /\ Cardinality(Lists) \in Nat /\ Cardinality(R \cup {a}) \in Nat
        /\ Cardinality(R) \in Nat /\ Cardinality(D) \in Nat
        /\ Cardinality(Hosts \ Numeric) \in Nat
    BY <1>1, <1>3, <1>5, <1>6, FS_CardinalityType
  <2> QED
    BY <1>3, <1>5, <1>6, <2>1, <2>2, RoomAssumption
<1>8. Uses(c, a, "none")[l] = 0
  BY <1>7, NoneAssumption DEF Uses
<1> QED
  BY <1>8 DEF Good, Counted

\* A lookup takes the list of the cache.
LEMMA Queried ==
    ASSUME NEW hp, NEW c, NEW a, Good(hp, c, a, "none"), NEW h \in DOMAIN c
    PROVE  LET hp2 == [hp EXCEPT ![c[h]].refcount = @ + 1]
           IN  /\ Good(hp2, c, a, c[h])
               /\ \A m \in Lists : hp[m] # Free => Alike(hp2[m], hp[m])
<1> DEFINE u == Uses(c, a, "none")
<1>1. c[h] \in Lists
  BY DEF Good, IsCache
<1>2. u[c[h]] # 0
  BY <1>1 DEF Uses
<1>3. Uses(c, a, c[h]) = [u EXCEPT ![c[h]] = @ + 1]
  <2>1. \A m \in Lists : Uses(c, a, c[h])[m] = IF m = c[h] THEN u[m] + 1 ELSE u[m]
    BY <1>1, NoneAssumption DEF Uses
  <2>2. Uses(c, a, c[h]) \in [Lists -> Nat]
    BY Counting
  <2> QED
    BY <1>1, <2>1, <2>2, Counting
<1>4. Counted(hp, u)
  BY DEF Good
<1> HIDE DEF u
<1>5. /\ Counted([hp EXCEPT ![c[h]].refcount = @ + 1], Uses(c, a, c[h]))
      /\ \A m \in Lists : hp[m] # Free => Alike([hp EXCEPT ![c[h]].refcount = @ + 1][m], hp[m])
  <2>1. PICK l \in Lists : l = c[h]
    BY <1>1
  <2>2. u[l] # 0
    BY <2>1, <1>2
  <2>3. /\ Counted([hp EXCEPT ![l].refcount = @ + 1], [u EXCEPT ![l] = @ + 1])
        /\ \A m \in Lists : hp[m] # Free => Alike([hp EXCEPT ![l].refcount = @ + 1][m], hp[m])
    BY <2>2, <1>4, Shared
  <2> QED
    BY <2>1, <2>3, <1>3
<1> QED
  BY <1>1, <1>5 DEF Good

\* A list is released by the lookup that holds it ...
LEMMA DroppedByLookup ==
    ASSUME NEW hp, NEW c, NEW a, NEW b \in Lists, Good(hp, c, a, b)
    PROVE  LET hp2 == address_list_release(hp, b)
           IN  /\ Good(hp2, c, a, "none")
               /\ \A m \in Lists : hp2[m] # Free => hp[m] # Free /\ Alike(hp2[m], hp[m])
<1> DEFINE u == Uses(c, a, b)
<1>1. u[b] # 0
  BY DEF Uses
<1>2. Uses(c, a, "none") = [u EXCEPT ![b] = @ - 1]
  <2>1. \A m \in Lists : Uses(c, a, "none")[m] = IF m = b THEN u[m] - 1 ELSE u[m]
    BY NoneAssumption DEF Uses
  <2>2. Uses(c, a, "none") \in [Lists -> Nat]
    BY Counting
  <2> QED
    BY <2>1, <2>2, Counting
<1>3. Counted(hp, u)
  BY DEF Good
<1> HIDE DEF u
<1> QED
  BY <1>1, <1>2, <1>3, Released DEF Good

\* ... or by the call.
LEMMA DroppedByCall ==
    ASSUME NEW hp, NEW c, NEW a \in Lists, Good(hp, c, a, "none")
    PROVE  LET hp2 == address_list_release(hp, a)
           IN  /\ Good(hp2, c, "none", "none")
               /\ \A m \in Lists : hp2[m] # Free => hp[m] # Free /\ Alike(hp2[m], hp[m])
<1> DEFINE u == Uses(c, a, "none")
<1>1. u[a] # 0
  BY DEF Uses
<1>2. Uses(c, "none", "none") = [u EXCEPT ![a] = @ - 1]
  <2>1. \A m \in Lists : Uses(c, "none", "none")[m] = IF m = a THEN u[m] - 1 ELSE u[m]
    BY NoneAssumption DEF Uses
  <2>2. Uses(c, "none", "none") \in [Lists -> Nat]
    BY Counting
  <2> QED
    BY <2>1, <2>2, Counting
<1>3. Counted(hp, u)
  BY DEF Good
<1> HIDE DEF u
<1> QED
  BY <1>1, <1>2, <1>3, Released DEF Good

\* The cache forgets a host.
LEMMA Removed ==
    ASSUME NEW hp, NEW c, NEW a, NEW b, Good(hp, c, a, b), NEW h \in DOMAIN c
    PROVE  LET hp2 == address_list_release(hp, c[h])
               c2 == [g \in DOMAIN c \ {h} |-> c[g]]
           IN  /\ Good(hp2, c2, a, b)
               /\ \A m \in Lists : hp2[m] # Free => hp[m] # Free /\ Alike(hp2[m], hp[m])
<1> DEFINE u == Uses(c, a, b)
           c2 == [g \in DOMAIN c \ {h} |-> c[g]]
<1>1. c[h] \in Lists
  BY DEF Good, IsCache
<1>2. u[c[h]] # 0
  BY <1>1 DEF Uses
<1>3. IsCache(c2)
  BY DEF Good, IsCache
<1>4. \A g \in DOMAIN c : c[g] = c[h] => g = h
  BY DEF Good, IsCache
<1>5. \A l \in Lists : (\E g \in DOMAIN c2 : c2[g] = l) <=> (\E g \in DOMAIN c : c[g] = l) /\ l # c[h]
  BY <1>4
<1> HIDE DEF c2
<1>6. Uses(c2, a, b) = [u EXCEPT ![c[h]] = @ - 1]
  <2>1. \A m \in Lists : Uses(c2, a, b)[m] = IF m = c[h] THEN u[m] - 1 ELSE u[m]
    BY <1>1, <1>5 DEF Uses
  <2>2. Uses(c2, a, b) \in [Lists -> Nat]
    BY Counting
  <2> QED
    BY <1>1, <2>1, <2>2, Counting
<1>7. Counted(hp, u)
  BY DEF Good
<1> HIDE DEF u
<1>8. Good(address_list_release(hp, c[h]), c2, a, b)
  <2>1. Counted(address_list_release(hp, c[h]), [u EXCEPT ![c[h]] = @ - 1])
    BY <1>1, <1>2, <1>7, Released
  <2> QED
    BY <1>3, <1>6, <2>1 DEF Good
<1> QED
  BY <1>1, <1>2, <1>7, <1>8, Released DEF c2

\* A list made of an answer goes to a free place.
LEMMA Made ==
    ASSUME NEW hp, NEW c, NEW a, Good(hp, c, a, "none"), NEW h \in Hosts,
           NEW s \in Answers[h], NEW l \in Lists, hp[l] = Free
    PROVE  LET hp2 == [hp EXCEPT ![l] = address_list_from_addrinfo(Sorted(s))]
           IN  /\ Good(hp2, c, a, l)
               /\ l # a /\ \A g \in DOMAIN c : c[g] # l
               /\ hp2[l].faulty = 0 /\ ~hp2[l].connected
               /\ \A m \in Lists \ {l} : hp2[m] = hp[m]
<1> DEFINE list == address_list_from_addrinfo(Sorted(s))
           hp2 == [hp EXCEPT ![l] = list]
           u == Uses(c, a, "none")
           v == Uses(c, a, l)
<1>1. list \in Struct /\ list.refcount = 1 /\ list.faulty = 0 /\ ~list.connected
  BY NewList
<1>2. list # Free
  BY <1>1, FreeIsNoList
<1>3. hp \in [Lists -> Struct \cup {Free}] /\ u[l] = 0
  BY DEF Good, Counted
<1>4. l # a /\ \A g \in DOMAIN c : c[g] # l
  BY HeldLives, NoneAssumption
<1>5. v \in [Lists -> Nat] /\ \A m \in Lists : v[m] = IF m = l THEN 1 ELSE u[m]
  BY <1>3, <1>4, NoneAssumption, Counting DEF Uses
<1> HIDE DEF list, u, v
<1>6. hp2 \in [Lists -> Struct \cup {Free}] /\ hp2[l] = list /\ \A m \in Lists \ {l} : hp2[m] = hp[m]
  BY <1>1, <1>3
<1>7. \A m \in Lists : IF u[m] = 0 THEN hp[m] = Free ELSE hp[m] # Free /\ hp[m].refcount = u[m]
  BY DEF Good, Counted, u
<1> HIDE DEF hp2
<1>8. Counted(hp2, v)
  BY <1>1, <1>2, <1>5, <1>6, <1>7 DEF Counted
<1> QED
  BY <1>1, <1>4, <1>6, <1>8 DEF Good, v, hp2, list

\* The list of a lookup goes to the cache.
LEMMA Stored ==
    ASSUME NEW hp, NEW c, NEW a, NEW l \in Lists, Good(hp, c, a, l),
           \A g \in DOMAIN c : c[g] # l, opt.dns_cache,
           NEW h \in Hosts \ Numeric, h \notin DOMAIN c
    PROVE  LET hp2 == [hp EXCEPT ![l].refcount = @ + 1]
               c2 == [g \in DOMAIN c \cup {h} |-> IF g = h THEN l ELSE c[g]]
           IN  /\ Good(hp2, c2, a, l)
               /\ \A m \in Lists : hp[m] # Free => Alike(hp2[m], hp[m])
<1> DEFINE u == Uses(c, a, l)
           c2 == [g \in DOMAIN c \cup {h} |-> IF g = h THEN l ELSE c[g]]
           v == Uses(c2, a, l)
<1>1. u[l] # 0 /\ Counted(hp, u)
  BY DEF Uses, Good
<1>2. IsCache(c2)
  BY DEF IsCache, Good
<1>3. \A m \in Lists : (\E g \in DOMAIN c2 : c2[g] = m) <=> (\E g \in DOMAIN c : c[g] = m) \/ m = l
  OBVIOUS
<1> HIDE DEF c2
<1>4. \A m \in Lists : v[m] = IF m = l THEN u[m] + 1 ELSE u[m]
  BY <1>3, NoneAssumption DEF Uses
<1>5. v \in [Lists -> Nat]
  BY Counting
<1> HIDE DEF v
<1>6. v = [u EXCEPT ![l] = @ + 1]
  BY <1>4, <1>5, Counting
<1> HIDE DEF u
<1>7. /\ Counted([hp EXCEPT ![l].refcount = @ + 1], [u EXCEPT ![l] = @ + 1])
      /\ \A m \in Lists : hp[m] # Free => Alike([hp EXCEPT ![l].refcount = @ + 1][m], hp[m])
  BY <1>1, Shared
<1>8. Good([hp EXCEPT ![l].refcount = @ + 1], c2, a, l)
  BY <1>2, <1>6, <1>7 DEF Good, v
<1> QED
  BY <1>7, <1>8 DEF c2

-----------------------------------------------------------------------------
\* Lookups.  A state st in which a call holds the list a.
Plain(st) ==
    st = [heap |-> st.heap, cache |-> st.cache, al |-> st.al, asked |-> st.asked]

\* What the resolver says is no list, or a clean one in the hands of the lookup.
LEMMA Resolves ==
    ASSUME NEW st, Plain(st), st.al = "none", NEW a, Good(st.heap, st.cache, a, "none"),
           NEW h \in Hosts, NEW found \in Resolutions(st, h)
    PROVE  /\ Plain(found) /\ found.asked /\ found.cache = st.cache
           /\ Good(found.heap, st.cache, a, found.al)
           /\ found.al = "none" => found.heap = st.heap
           /\ found.al # "none" =>
                /\ found.al \in Lists /\ st.heap[found.al] = Free
                /\ found.al # a /\ \A g \in DOMAIN st.cache : st.cache[g] # found.al
                /\ found.heap[found.al].faulty = 0 /\ ~found.heap[found.al].connected
                /\ \A m \in Lists \ {found.al} : found.heap[m] = st.heap[m]
<1>1. CASE found = [st EXCEPT !.asked = TRUE]
  BY <1>1 DEF Plain
<1>2. CASE found # [st EXCEPT !.asked = TRUE]
  <2> DEFINE l == CHOOSE l \in Lists : st.heap[l] = Free
  <2>1. l \in Lists /\ st.heap[l] = Free
    BY Room
  <2>2. PICK s \in Answers[h] :
            found = [st EXCEPT !.heap[l] = address_list_from_addrinfo(Sorted(s)),
                               !.al = l, !.asked = TRUE]
    BY <1>2 DEF Resolutions
  <2> HIDE DEF l
  <2>3. /\ found.heap = [st.heap EXCEPT ![l] = address_list_from_addrinfo(Sorted(s))]
        /\ found.al = l /\ found.asked /\ found.cache = st.cache /\ Plain(found)
    BY <2>2 DEF Plain
  <2>4. l # "none"
    BY <2>1, NoneAssumption
  <2> QED
    BY <2>1, <2>3, <2>4, Made
<1> QED
  BY <1>1, <1>2

\* lookup_host on a heap hp and a cache c, while the call holds a: what is found is
\* held by the lookup; it is the cache's list of h, or clean; other hosts, and the
\* lists that were there, stay as they were, except what is refreshed.
Looked(hp, c, a, h, flags, found) ==
    /\ Good(found.heap, found.cache, a, found.al)
    /\ ~found.asked =>
          /\ h \in DOMAIN c /\ found.al = c[h] /\ found.cache = c /\ "REFRESH" \notin flags
          /\ opt.ipv6 => "BIND" \notin flags
    /\ found.asked /\ found.al # "none" =>
          /\ found.heap[found.al].faulty = 0 /\ ~found.heap[found.al].connected
          /\ found.al # a
    /\ \A g \in DOMAIN found.cache :
          \/ /\ g \in DOMAIN c /\ found.cache[g] = c[g]
             /\ found.asked => c[g] # found.al /\ (g = h => "BIND" \in flags)
          \/ found.asked /\ g = h /\ found.cache[g] = found.al
    /\ \A g \in DOMAIN c : g # h \/ "REFRESH" \notin flags =>
          g \in DOMAIN found.cache /\ found.cache[g] = c[g]
    /\ opt.dns_cache /\ h \notin Numeric /\ "BIND" \notin flags /\ found.al # "none" =>
          h \in DOMAIN found.cache /\ found.cache[h] = found.al
    /\ \A l \in Lists :
          hp[l] # Free /\ ("REFRESH" \in flags /\ h \in DOMAIN c => l # c[h]) =>
             found.heap[l] # Free /\ Alike(found.heap[l], hp[l])
    /\ \A l \in Lists : found.heap[l] # Free =>
          \/ hp[l] # Free /\ Alike(found.heap[l], hp[l])
          \/ found.asked /\ l = found.al

\* A host is forgotten before it is asked for.
LEMMA Forgotten ==
    ASSUME NEW st, Plain(st), st.al = "none", NEW a, Good(st.heap, st.cache, a, "none"),
           NEW h \in Hosts
    PROVE  LET st2 == cache_remove(st, h)
           IN  /\ Plain(st2) /\ st2.al = "none" /\ h \notin DOMAIN st2.cache
               /\ Good(st2.heap, st2.cache, a, "none")
               /\ \A g \in DOMAIN st.cache : g # h =>
                     g \in DOMAIN st2.cache /\ st2.cache[g] = st.cache[g]
               /\ \A g \in DOMAIN st2.cache :
                     g \in DOMAIN st.cache /\ st2.cache[g] = st.cache[g]
               /\ \A l \in Lists : st.heap[l] # Free /\ (h \in DOMAIN st.cache => l # st.cache[h]) =>
                     st2.heap[l] # Free
               /\ \A l \in Lists : st2.heap[l] # Free =>
                     st.heap[l] # Free /\ Alike(st2.heap[l], st.heap[l])
<1>1. CASE ~Cached(st, h)
  BY <1>1 DEF cache_remove, Cached, Alike
<1>2. CASE Cached(st, h)
  <2> DEFINE c2 == [g \in DOMAIN st.cache \ {h} |-> st.cache[g]]
             hp2 == address_list_release(st.heap, st.cache[h])
             st2 == cache_remove(st, h)
  <2>1. st2.heap = hp2 /\ st2.cache = c2 /\ st2.al = "none" /\ Plain(st2)
    BY <1>2 DEF cache_remove, Plain
  <2>2. /\ Good(hp2, c2, a, "none")
        /\ \A l \in Lists : hp2[l] # Free => st.heap[l] # Free /\ Alike(hp2[l], st.heap[l])
    BY <1>2, Removed DEF Cached
  <2>3. st.heap \in [Lists -> Struct \cup {Free}] /\ st.cache[h] \in Lists
    BY <1>2, HeldLives DEF Good, Counted, Cached
  <2>4. \A l \in Lists : l # st.cache[h] => hp2[l] = st.heap[l]
    BY <2>3 DEF address_list_release
  <2> HIDE DEF hp2, st2
  <2> QED
    BY <1>2, <2>1, <2>2, <2>4 DEF st2, Cached
<1> QED
  BY <1>1, <1>2

\* lookup_host does what Looked says, whatever the flags.
LEMMA Lookup ==
    ASSUME NEW hp, NEW c, c = host_name_addresses_map, NEW a, Good(hp, c, a, "none"),
           NEW h \in Hosts, NEW flags, NEW found \in lookup_host(hp, h, flags)
    PROVE  Looked(hp, c, a, h, flags, found)
<1> DEFINE use_cache == opt.dns_cache /\ h \notin Numeric /\ (opt.ipv6 => "BIND" \notin flags)
           st == [heap |-> hp, cache |-> c, al |-> "none", asked |-> FALSE]
           st2 == IF "REFRESH" \in flags THEN cache_remove(st, h) ELSE st
<1>1. Plain(st) /\ st.al = "none" /\ st.heap = hp /\ st.cache = c /\ st.asked = FALSE
  BY DEF Plain
<1>2. CASE ~use_cache
  <2>1. found \in Resolutions(st, h)
    BY <1>2 DEF lookup_host
  <2> HIDE DEF st
  <2>2. Good(st.heap, st.cache, a, "none")
    BY <1>1
  <2>3. /\ found.asked /\ found.cache = c
        /\ Good(found.heap, c, a, found.al)
        /\ found.al = "none" => found.heap = hp
        /\ found.al # "none" =>
             /\ found.al \in Lists /\ hp[found.al] = Free /\ found.al # a
             /\ \A g \in DOMAIN c : c[g] # found.al
             /\ found.heap[found.al].faulty = 0 /\ ~found.heap[found.al].connected
             /\ \A m \in Lists \ {found.al} : found.heap[m] = hp[m]
    BY <1>1, <2>1, <2>2, Resolves
  <2> QED
    <3>1. h \in DOMAIN c => "BIND" \in flags
      BY <1>2 DEF Good, IsCache
    <3>2. \A g \in DOMAIN c : c[g] \in Lists
      BY HeldLives
    <3> QED
      BY <1>2, <2>3, <3>1, <3>2, NoneAssumption DEF Looked, Alike
<1>3. CASE use_cache /\ "REFRESH" \notin flags /\ Cached(st, h)
  <2>1. found = cache_query(st, h)
    BY <1>3 DEF lookup_host
  <2>2. /\ found.heap = [hp EXCEPT ![c[h]].refcount = @ + 1]
        /\ found.cache = c /\ found.al = c[h] /\ ~found.asked
    BY <1>1, <2>1 DEF cache_query
  <2>3. h \in DOMAIN c
    BY <1>3 DEF Cached
  <2>4. /\ Good(found.heap, c, a, c[h])
        /\ \A m \in Lists : hp[m] # Free => Alike(found.heap[m], hp[m])
    BY <2>2, <2>3, Queried
  <2>5. \A m \in Lists : hp[m] # Free <=> found.heap[m] # Free
    <3>1. hp \in [Lists -> Struct \cup {Free}] /\ c[h] \in Lists /\ hp[c[h]] # Free
      BY <2>3, HeldLives DEF Good, Counted
    <3>2. \A m \in Lists : m # c[h] => found.heap[m] = hp[m]
      BY <2>2, <3>1
    <3>3. found.heap[c[h]] # Free
      BY <2>4, <3>1, HeldLives, NoneAssumption
    <3> QED
      BY <3>1, <3>2, <3>3
  <2> QED
    BY <1>3, <2>2, <2>3, <2>4, <2>5 DEF Looked
<1>4. CASE use_cache /\ ~("REFRESH" \notin flags /\ Cached(st, h))
  <2>1. PICK r \in Resolutions(st2, h) :
           found = IF r.al = "none" THEN r ELSE cache_store(r, h)
    BY <1>4 DEF lookup_host
  <2>2. /\ Plain(st2) /\ st2.al = "none" /\ h \notin DOMAIN st2.cache
        /\ Good(st2.heap, st2.cache, a, "none")
        /\ \A g \in DOMAIN c : g # h =>
              g \in DOMAIN st2.cache /\ st2.cache[g] = c[g]
        /\ \A g \in DOMAIN st2.cache : g \in DOMAIN c /\ st2.cache[g] = c[g]
        /\ \A g \in DOMAIN c : c[g] \in Lists
        /\ \A l \in Lists : hp[l] # Free /\ (h \in DOMAIN c => l # c[h]) =>
              st2.heap[l] # Free
        /\ \A l \in Lists : st2.heap[l] # Free =>
              hp[l] # Free /\ Alike(st2.heap[l], hp[l])
    <3> HIDE DEF st
    <3>0. \A g \in DOMAIN c : c[g] \in Lists
      BY HeldLives
    <3>1. CASE "REFRESH" \in flags
      BY <1>1, <3>0, <3>1, Forgotten
    <3>2. CASE "REFRESH" \notin flags
      BY <1>1, <1>4, <3>0, <3>2 DEF Cached, Alike
    <3> QED
      BY <3>1, <3>2
  <2>3. "REFRESH" \notin flags => h \notin DOMAIN c
    BY <1>4 DEF Cached
  <2> HIDE DEF st2, st
  <2>4. /\ Plain(r) /\ r.asked /\ r.cache = st2.cache
        /\ Good(r.heap, st2.cache, a, r.al)
        /\ r.al = "none" => r.heap = st2.heap
        /\ r.al # "none" =>
             /\ r.al \in Lists /\ st2.heap[r.al] = Free /\ r.al # a
             /\ \A g \in DOMAIN st2.cache : st2.cache[g] # r.al
             /\ r.heap[r.al].faulty = 0 /\ ~r.heap[r.al].connected
             /\ \A m \in Lists \ {r.al} : r.heap[m] = st2.heap[m]
    BY <2>1, <2>2, Resolves
  <2>5. CASE r.al = "none"
    BY <2>1, <2>2, <2>3, <2>4, <2>5, NoneAssumption DEF Looked
  <2>6. CASE r.al # "none"
    <3> DEFINE c2 == [g \in DOMAIN r.cache \cup {h} |-> IF g = h THEN r.al ELSE r.cache[g]]
    <3>1. /\ found.heap = [r.heap EXCEPT ![r.al].refcount = @ + 1]
          /\ found.cache = c2 /\ found.al = r.al /\ found.asked
      BY <2>1, <2>4, <2>6 DEF cache_store, Plain
    <3>2. h \in Hosts \ Numeric /\ opt.dns_cache
      BY <1>4
    <3>3. /\ Good(found.heap, c2, a, r.al)
          /\ \A m \in Lists : r.heap[m] # Free => Alike(found.heap[m], r.heap[m])
      <4>1. Good(r.heap, st2.cache, a, r.al) /\ r.al \in Lists /\ h \notin DOMAIN st2.cache
        BY <2>2, <2>4, <2>6
      <4>2. \A g \in DOMAIN st2.cache : st2.cache[g] # r.al
        BY <2>4, <2>6
      <4>3. r.cache = st2.cache
        BY <2>4
      <4>4. PICK hp3, c3, l : hp3 = r.heap /\ c3 = r.cache /\ l = r.al
        OBVIOUS
      <4>5. LET hp4 == [hp3 EXCEPT ![l].refcount = @ + 1]
                c4 == [g \in DOMAIN c3 \cup {h} |-> IF g = h THEN l ELSE c3[g]]
            IN  /\ Good(hp4, c4, a, l)
                /\ \A m \in Lists : hp3[m] # Free => Alike(hp4[m], hp3[m])
        <5>1. Good(hp3, c3, a, l) /\ l \in Lists /\ h \notin DOMAIN c3
          BY <4>1, <4>3, <4>4
        <5>2. \A g \in DOMAIN c3 : c3[g] # l
          BY <4>2, <4>3, <4>4
        <5> QED
          BY <3>2, <5>1, <5>2, Stored
      <4> QED
        BY <3>1, <4>4, <4>5
    <3>4. r.heap \in [Lists -> Struct \cup {Free}] /\ r.heap[r.al] # Free
      <4>1. r.heap[r.al] # Free
        BY <2>4, <2>6, HeldLives
      <4>2. Counted(r.heap, Uses(st2.cache, a, r.al))
        BY <2>4 DEF Good
      <4> QED
        BY <4>1, <4>2 DEF Counted
    <3>5. \A m \in Lists : m # r.al => found.heap[m] = st2.heap[m]
      BY <2>4, <2>6, <3>1, <3>4
    <3>6. found.heap[r.al].faulty = 0 /\ ~found.heap[r.al].connected
      BY <2>4, <2>6, <3>3, <3>4 DEF Alike
    <3>7. c2[h] = r.al /\ h \in DOMAIN c2 /\ \A g \in DOMAIN st2.cache : g # h =>
             g \in DOMAIN c2 /\ c2[g] = st2.cache[g]
      BY <2>4
    <3>8. \A g \in DOMAIN c2 : g # h =>
             g \in DOMAIN st2.cache /\ c2[g] = st2.cache[g] /\ c2[g] # r.al
      BY <2>4, <2>6
    <3> HIDE DEF c2
    <3> QED
      BY <2>2, <2>3, <2>4, <2>6, <3>1, <3>3, <3>5, <3>6, <3>7, <3>8 DEF Looked
  <2> QED
    BY <2>5, <2>6
<1> QED
  BY <1>2, <1>3, <1>4

-----------------------------------------------------------------------------
\* The inductive invariant.
Cacheable(h) == opt.dns_cache /\ h \notin Numeric

Typed ==
    /\ opt \in Opts /\ bind_called \in BOOLEAN /\ i \in Nat /\ calls \in 0..Calls
    /\ pc \in {"idle", "loop", "success", "failure", "connected", "failed", "unresolved"}
    /\ host \in Hosts \cup {"none"} /\ reached \in SUBSET Hosts

\* Only the list that is walked can have faulty addresses and not have worked.
Excused == \A l \in Lists : heap[l] # Free /\ heap[l].faulty > 0 => heap[l].connected \/ l = al

\* A list of the cache that has worked is that of a host that was connected to.
Proven ==
    \A h \in DOMAIN host_name_addresses_map :
       heap[host_name_addresses_map[h]].connected => h \in reached

Walking == pc \in {"loop", "success", "failure"}

\* The loop is at the first address not known to be faulty; the address before it, if
\* it came to the end and all were made clean.  Those before have been tried, if the
\* list never worked.
Position(list) ==
    /\ i = list.faulty \/ (pc = "loop" /\ i = Len(list.addresses) /\ list.faulty = 0)
    /\ ~list.connected =>
          \A k \in 1..(IF pc = "loop" THEN i ELSE i + 1) : list.addresses[k] \in tried

Walk ==
    IF Walking
    THEN /\ al # "none" /\ host \in Hosts
         /\ Position(heap[al])
         /\ Cacheable(host) =>
               host \in DOMAIN host_name_addresses_map /\ host_name_addresses_map[host] = al
         /\ \A h \in DOMAIN host_name_addresses_map : host_name_addresses_map[h] = al => h = host
         /\ host \in reached => heap[al].connected
    ELSE al = "none"

\* A host that was connected to is in the cache with a list that worked.
Known ==
    \A h \in reached : Cacheable(h) =>
       /\ h \in DOMAIN host_name_addresses_map
       /\ heap[host_name_addresses_map[h]].connected

Outcome ==
    /\ pc = "failed" => missed = {} /\ host \notin reached
    /\ pc = "unresolved" => host \notin reached

Inv ==
    /\ Typed /\ Good(heap, host_name_addresses_map, al, "none")
    /\ Excused /\ Proven /\ Walk /\ Known /\ Outcome

\* The program has stopped, the lookup of the bind address holding its list.
Crashed ==
    /\ pc = "aborted" /\ opt \in Opts /\ host \in Hosts \cup {"none"} /\ calls \in 0..Calls
    /\ \E b \in Lists : Good(heap, host_name_addresses_map, al, b)
    /\ Excused /\ AssertionsHold

-----------------------------------------------------------------------------
\* It holds when the program starts.
LEMMA InvStarts == Init => Inv
<1> SUFFICES ASSUME Init
             PROVE  Inv
  OBVIOUS
<1>1. Uses(<<>>, "none", "none") = [l \in Lists |-> 0]
  BY NoneAssumption DEF Uses
<1>2. heap = [l \in Lists |-> Free] /\ host_name_addresses_map = <<>> /\ al = "none"
  BY DEF Init
<1>3. Counted(heap, Uses(host_name_addresses_map, al, "none"))
  BY <1>1, <1>2 DEF Counted
<1>4. IsCache(host_name_addresses_map)
  BY <1>2 DEF IsCache
<1>5. Good(heap, host_name_addresses_map, al, "none")
  BY <1>2, <1>3, <1>4 DEF Good
<1> QED
  <2>1. Typed
    <3>1. calls \in 0..Calls /\ i \in Nat
      BY CallsAssumption DEF Init
    <3>2. bind_called \in BOOLEAN
      BY DEF Init
    <3> QED
      BY <3>1, <3>2 DEF Init, Typed
  <2>2. \A l \in Lists : heap[l] = Free
    BY <1>2
  <2>3. Excused /\ Proven
    BY <1>2, <2>2 DEF Excused, Proven
  <2>4. Walk /\ Known /\ Outcome
    BY DEF Init, Walk, Walking, Known, Outcome
  <2> QED
    BY <1>5, <2>1, <2>3, <2>4 DEF Inv

\* What a lookup found is the call's.
LEMMA Handed ==
    ASSUME NEW hp, NEW c, NEW b, Good(hp, c, "none", b)
    PROVE  Good(hp, c, b, "none")
<1>1. Uses(c, "none", b) = Uses(c, b, "none")
  BY NoneAssumption DEF Uses
<1> QED
  BY <1>1 DEF Good

\* From `retry' to the loop.
LEMMA Retried ==
    ASSUME NEW hp, NEW c, c = host_name_addresses_map, Good(hp, c, "none", "none"),
           NEW h \in Hosts, NEW flags, "BIND" \notin flags,
           NEW found \in lookup_host(hp, h, flags),
           Typed, Retry(found, h), host' = h, calls' \in 0..Calls,
           UNCHANGED <<opt, bind_called>>,
           \A l \in Lists : hp[l] # Free /\ hp[l].faulty > 0 => hp[l].connected,
           \A g \in DOMAIN c : hp[c[g]].connected => g \in reached,
           \A g \in reached : Cacheable(g) => g \in DOMAIN c /\ hp[c[g]].connected
    PROVE  Inv'
<1>1. Looked(hp, c, "none", h, flags, found)
  BY Lookup
<1>2. /\ heap' = found.heap /\ host_name_addresses_map' = found.cache /\ al' = found.al
      /\ found.al = "none" => pc' = "unresolved" /\ i' = 0
      /\ found.al # "none" => pc' = "loop" /\ i' = found.heap[found.al].faulty
      /\ reached' = IF found.asked THEN reached \ {h} ELSE reached
  BY DEF Retry
<1>3. Good(found.heap, found.cache, found.al, "none")
  BY <1>1, Handed DEF Looked
<1>4. /\ \A g \in DOMAIN c : c[g] \in Lists /\ hp[c[g]] # Free
      /\ \A g \in DOMAIN c : Cacheable(g)
      /\ \A g, k \in DOMAIN c : c[g] = c[k] => g = k
  BY HeldLives DEF Good, IsCache, Cacheable
<1>5. /\ found.al # "none" => found.al \in Lists /\ found.heap[found.al] # Free
      /\ \A l \in Lists : found.heap[l] # Free => found.heap[l] \in Struct
  BY <1>3, HeldLives
<1>6. \A l \in Lists : found.heap[l] # Free =>
         \/ hp[l] # Free /\ Alike(found.heap[l], hp[l])
         \/ l = found.al /\ found.heap[l].faulty = 0 /\ ~found.heap[l].connected /\ found.asked
  BY <1>1, NoneAssumption DEF Looked
<1>7. ~found.asked =>
         /\ h \in DOMAIN c /\ found.al = c[h] /\ found.cache = c /\ found.al # "none"
         /\ Alike(found.heap[found.al], hp[found.al])
  BY <1>1, <1>4, NoneAssumption DEF Looked
<1>8. Typed'
  <2>1. i' \in Nat
    BY <1>2, <1>5 DEF Struct
  <2> QED
    BY <1>2, <2>1 DEF Typed
<1>9. Excused'
  BY <1>2, <1>6 DEF Excused, Alike
<1>10. Proven'
  <2> SUFFICES ASSUME NEW g \in DOMAIN found.cache, found.heap[found.cache[g]].connected
               PROVE  g \in reached'
    BY <1>2 DEF Proven
  <2>1. found.cache[g] \in Lists /\ found.heap[found.cache[g]] # Free
    BY <1>3, HeldLives
  <2>2. found.asked => found.cache[g] # found.al
    BY <1>1, <2>1, NoneAssumption DEF Looked
  <2>3. g \in DOMAIN c /\ found.cache[g] = c[g] /\ (found.asked => g # h)
    BY <1>1, <2>2 DEF Looked
  <2>4. Alike(found.heap[c[g]], hp[c[g]])
    BY <1>1, <2>1, <2>2, <2>3 DEF Looked
  <2> QED
    BY <1>2, <2>3, <2>4 DEF Alike
<1>11. Walk'
  <2>1. CASE found.al = "none"
    BY <1>2, <2>1 DEF Walk, Walking
  <2>2. CASE found.al # "none"
    <3>1. pc' = "loop" /\ i' = heap'[al'].faulty
      BY <1>2, <2>2
    <3>2. heap'[al'].faulty \in Nat
      BY <1>2, <1>5, <2>2 DEF Struct
    <3>3. ~heap'[al'].connected => heap'[al'].faulty = 0
      <4>1. CASE found.asked
        BY <1>1, <1>2, <2>2, <4>1 DEF Looked
      <4>2. CASE ~found.asked
        <5>1. hp[found.al] # Free /\ found.al \in Lists
          BY <1>4, <1>7, <4>2
        <5> QED
          BY <1>2, <1>7, <3>2, <4>2, <5>1 DEF Alike
      <4> QED
        BY <4>1, <4>2
    <3>4. Position(heap[al])'
      BY <3>1, <3>2, <3>3 DEF Position
    <3>5. Cacheable(h)' => h \in DOMAIN host_name_addresses_map' /\ host_name_addresses_map'[h] = al'
      BY <1>1, <1>2, <2>2 DEF Looked, Cacheable
    <3>6. h \in reached' => heap'[al'].connected
      BY <1>2, <1>4, <1>7 DEF Alike
    <3>7. \A g \in DOMAIN found.cache : found.cache[g] = found.al => g = h
      BY <1>1, <1>4, <1>7 DEF Looked
    <3> QED
      BY <1>2, <2>2, <3>1, <3>4, <3>5, <3>6, <3>7 DEF Walk, Walking
  <2> QED
    BY <2>1, <2>2
<1>12. Known'
  <2> SUFFICES ASSUME NEW g \in reached', Cacheable(g)
               PROVE  g \in DOMAIN found.cache /\ found.heap[found.cache[g]].connected
    BY <1>2 DEF Known, Cacheable
  <2>1. g \in DOMAIN c /\ hp[c[g]].connected
    BY <1>2
  <2>2. CASE ~found.asked
    <3>1. Alike(found.heap[c[g]], hp[c[g]])
      BY <1>1, <1>4, <1>7, <2>1, <2>2 DEF Looked
    <3> QED
      BY <1>7, <2>1, <2>2, <3>1 DEF Alike
  <2>3. CASE found.asked
    <3>1. g # h
      BY <1>2, <2>3
    <3>2. g \in DOMAIN found.cache /\ found.cache[g] = c[g]
      BY <1>1, <2>1, <3>1 DEF Looked
    <3>3. Alike(found.heap[c[g]], hp[c[g]])
      BY <1>1, <1>4, <2>1, <3>1 DEF Looked
    <3> QED
      BY <2>1, <3>2, <3>3 DEF Alike
  <2> QED
    BY <2>2, <2>3
<1>13. Outcome'
  BY <1>2, <1>7 DEF Outcome
<1> QED
  <2>1. Good(heap, host_name_addresses_map, al, "none")'
    BY <1>2, <1>3 DEF Good, IsCache
  <2> QED
    BY <2>1, <1>8, <1>9, <1>10, <1>11, <1>12, <1>13 DEF Inv

\* The first socket: whatever the lookup of the bind address does to the cache and
\* the heap, the list that is walked and those of other hosts stay.
Bound(hp, c, a) ==
    /\ Good(hp, c, a, "none")
    /\ \A g \in DOMAIN host_name_addresses_map :
          g \in DOMAIN c /\ c[g] = host_name_addresses_map[g]
    /\ \A g \in DOMAIN c :
          \/ g \in DOMAIN host_name_addresses_map /\ c[g] = host_name_addresses_map[g]
          \/ c[g] # a /\ ~hp[c[g]].connected
    /\ \A l \in Lists : hp[l] # Free =>
          IF heap[l] # Free THEN Alike(hp[l], heap[l]) ELSE hp[l].faulty = 0

LEMMA Binds ==
    ASSUME Inv, pc = "loop", resolve_bind_address, UNCHANGED <<opt, al, host, calls, reached>>
    PROVE  \/ /\ Bound(heap', host_name_addresses_map', al)
              /\ pc' \in {"success", "failure"} /\ bind_called' \in BOOLEAN
           \/ Crashed'
<1>1. CASE opt.bind_address = "none" \/ bind_called
  <2>1. /\ heap' = heap /\ host_name_addresses_map' = host_name_addresses_map
        /\ pc' \in {"success", "failure"} /\ bind_called' \in BOOLEAN
    BY <1>1 DEF resolve_bind_address, Inv, Typed
  <2>2. Bound(heap, host_name_addresses_map, al)
    BY DEF Inv, Bound, Alike
  <2> QED
    BY <2>1, <2>2
<1>2. CASE ~(opt.bind_address = "none" \/ bind_called)
  <2>1. PICK hp, c, h, a : hp = heap /\ c = host_name_addresses_map /\ h = opt.bind_address /\ a = al
    OBVIOUS
  <2>2. h \in Hosts
    BY <1>2, <2>1, OptsAssumption DEF Inv, Typed
  <2>3. PICK found \in lookup_host(hp, h, {"BIND"}) :
            /\ bind_called' = TRUE
            /\ host_name_addresses_map' = found.cache
            /\ \/ /\ found.al = "none"
                  /\ heap' = found.heap /\ pc' \in {"success", "failure"}
               \/ /\ found.al # "none" /\ found.heap[found.al].faulty = 0
                  /\ heap' = address_list_release(found.heap, found.al)
                  /\ pc' \in {"success", "failure"}
               \/ /\ found.al # "none" /\ found.heap[found.al].faulty > 0
                  /\ heap' = found.heap /\ pc' = "aborted"
    BY <1>2, <2>1 DEF resolve_bind_address
  <2>4. Good(hp, c, a, "none") /\ a # "none"
    BY <2>1 DEF Inv, Walk, Walking
  <2>5. Looked(hp, c, a, h, {"BIND"}, found)
    BY <2>1, <2>2, <2>3, <2>4, Lookup
  <2>6. /\ Good(found.heap, found.cache, a, found.al)
        /\ \A g \in DOMAIN c : g \in DOMAIN found.cache /\ found.cache[g] = c[g]
        /\ \A l \in Lists : found.heap[l] # Free =>
              IF hp[l] # Free THEN Alike(found.heap[l], hp[l]) ELSE found.heap[l].faulty = 0
    <3>1. \A l \in Lists : hp[l] # Free => Alike(found.heap[l], hp[l])
      BY <2>5 DEF Looked
    <3> QED
      BY <2>5, <3>1, NoneAssumption DEF Looked
  <2>7. /\ \A g \in DOMAIN c : c[g] \in Lists /\ hp[c[g]] # Free
        /\ \A g \in DOMAIN found.cache : found.cache[g] \in Lists /\ found.heap[found.cache[g]] # Free
        /\ found.al # "none" => found.al \in Lists /\ found.heap[found.al] # Free
    BY <2>4, <2>6, HeldLives
  <2>8. \A g \in DOMAIN found.cache :
           \/ g \in DOMAIN c /\ found.cache[g] = c[g]
           \/ found.cache[g] # a /\ ~found.heap[found.cache[g]].connected
    BY <2>5, <2>7, NoneAssumption DEF Looked
  <2>9. CASE found.al = "none"
    <3>1. heap' = found.heap /\ pc' \in {"success", "failure"}
      BY <2>3, <2>9
    <3>2. Bound(found.heap, found.cache, a)
      BY <2>1, <2>6, <2>8, <2>9 DEF Bound
    <3> QED
      BY <2>1, <2>3, <3>1, <3>2
  <2>10. CASE found.al # "none" /\ ~(found.heap[found.al].faulty > 0)
    <3> DEFINE hp2 == address_list_release(found.heap, found.al)
    <3>1. heap' = hp2 /\ pc' \in {"success", "failure"}
      BY <2>3, <2>10
    <3>2. /\ Good(hp2, found.cache, a, "none")
          /\ \A l \in Lists : hp2[l] # Free =>
                found.heap[l] # Free /\ Alike(hp2[l], found.heap[l])
      BY <2>6, <2>7, <2>10, DroppedByLookup
    <3> HIDE DEF hp2
    <3>3. \A g \in DOMAIN found.cache : hp2[found.cache[g]] # Free
      BY <3>2, HeldLives
    <3>4. Bound(hp2, found.cache, a)
      BY <2>1, <2>6, <2>7, <2>8, <3>2, <3>3 DEF Bound, Alike
    <3> QED
      BY <2>1, <2>3, <3>1, <3>4
  <2>11. CASE found.al # "none" /\ found.heap[found.al].faulty > 0
    <3>1. heap' = found.heap /\ pc' = "aborted"
      <4>1. ~(found.heap[found.al].faulty = 0)
        BY <2>11
      <4> QED
        BY <2>3, <2>11, <4>1
    <3>2. ~found.asked
      BY <2>5, <2>11 DEF Looked
    <3>3. h \in DOMAIN c /\ found.al = c[h] /\ ~opt.ipv6
      BY <2>5, <3>2 DEF Looked
    <3>4. Alike(found.heap[c[h]], hp[c[h]])
      BY <2>6, <2>7, <2>11, <3>3
    <3>5. hp[c[h]].connected \/ c[h] = a
      BY <2>1, <2>7, <2>11, <3>3, <3>4 DEF Inv, Excused, Alike
    <3>6. h \in reached \cup {host}
      BY <2>1, <3>3, <3>5 DEF Inv, Proven, Walk, Walking
    <3>7. opt.dns_cache /\ h \in Hosts \ Numeric
      BY <2>4, <3>3 DEF Good, IsCache
    <3>8. AssertionsHold'
      BY <2>1, <3>3, <3>6, <3>7, NoneAssumption DEF AssertionsHold
    <3>9. Excused'
      BY <2>1, <2>6, <3>1 DEF Inv, Excused, Alike
    <3>10. \E b \in Lists : Good(heap, host_name_addresses_map, al, b)'
      BY <2>1, <2>3, <2>6, <2>7, <2>11, <3>1 DEF Good, IsCache
    <3> QED
      BY <3>1, <3>8, <3>9, <3>10 DEF Crashed, Inv, Typed
  <2> QED
    BY <2>9, <2>10, <2>11
<1> QED
  BY <1>1, <1>2

\* A new call looks its host up.
LEMMA ConnectStays ==
    ASSUME Inv, NEW h \in Hosts, connect_to_host(h)
    PROVE  Inv'
<1>1. PICK hp, c : hp = heap /\ c = host_name_addresses_map
  OBVIOUS
<1>2. PICK found \in lookup_host(hp, h, {}) : Retry(found, h)
  BY <1>1 DEF connect_to_host
<1>3. pc = "idle" /\ al = "none" /\ calls' \in 0..Calls /\ host' = h
  BY CallsAssumption DEF Inv, Typed, Walk, Walking, connect_to_host
<1>4. Good(hp, c, "none", "none")
  BY <1>1, <1>3 DEF Inv
<1>5. /\ \A l \in Lists : hp[l] # Free /\ hp[l].faulty > 0 => hp[l].connected
      /\ \A g \in DOMAIN c : hp[c[g]].connected => g \in reached
      /\ \A g \in reached : Cacheable(g) => g \in DOMAIN c /\ hp[c[g]].connected
  BY <1>1, <1>3, NoneAssumption DEF Inv, Excused, Proven, Known
<1>6. UNCHANGED <<opt, bind_called>> /\ Typed /\ "BIND" \notin {}
  BY DEF connect_to_host, Inv
<1> QED
  BY <1>1, <1>2, <1>3, <1>4, <1>5, <1>6, Retried

\* A list that once worked is looked up anew.
LEMMA RefreshStays ==
    ASSUME Inv, Refresh
    PROVE  Inv'
<1>1. PICK hp0, c, a, h : hp0 = heap /\ c = host_name_addresses_map /\ a = al /\ h = host
  OBVIOUS
<1> DEFINE hp == address_list_release(hp0, a)
<1>2. a \in Lists /\ h \in Hosts /\ Good(hp0, c, a, "none")
  BY <1>1, NoneAssumption DEF Inv, Walk, Walking, Refresh, Good
<1>3. /\ Good(hp, c, "none", "none")
      /\ \A m \in Lists : hp[m] # Free => hp0[m] # Free /\ Alike(hp[m], hp0[m])
  BY <1>2, DroppedByCall
<1>4. PICK found \in lookup_host(hp, h, {"REFRESH"}) : Retry(found, h)
  BY <1>1 DEF Refresh
<1>5. UNCHANGED <<opt, bind_called, calls, host>> /\ Typed
  BY DEF Refresh, Inv
<1>6. \A l \in Lists : hp[l] # Free /\ hp[l].faulty > 0 => hp[l].connected
  <2>1. hp0[a].connected
    BY <1>1 DEF Refresh
  <2> HIDE DEF hp
  <2> QED
    BY <1>1, <1>3, <2>1 DEF Inv, Excused, Alike
<1>7. \A g \in DOMAIN c : hp[c[g]].connected => g \in reached
  <2> HIDE DEF hp
  <2>1. \A g \in DOMAIN c : c[g] \in Lists /\ hp[c[g]] # Free
    BY <1>3, HeldLives
  <2> QED
    BY <1>1, <1>3, <2>1 DEF Inv, Proven, Alike
<1>8. \A g \in reached : Cacheable(g) => g \in DOMAIN c /\ hp[c[g]].connected
  <2> HIDE DEF hp
  <2>1. \A g \in DOMAIN c : c[g] \in Lists /\ hp[c[g]] # Free
    BY <1>3, HeldLives
  <2> QED
    BY <1>1, <1>3, <2>1 DEF Inv, Known, Alike
<1>9. "BIND" \notin {"REFRESH"} /\ calls' \in 0..Calls /\ host' = h
  BY <1>1, <1>5 DEF Typed
<1> HIDE DEF hp
<1> QED
  BY <1>1, <1>2, <1>3, <1>4, <1>5, <1>6, <1>7, <1>8, <1>9, Retried

\* The lookup of persistent_available_p holds its list only meanwhile.
LEMMA AvailableStays ==
    ASSUME Inv, NEW h \in Hosts, persistent_available_p(h)
    PROVE  Inv'
<1>1. PICK hp, c : hp = heap /\ c = host_name_addresses_map
  OBVIOUS
<1>2. PICK found \in lookup_host(hp, h, {}) :
         /\ heap' = IF found.al = "none" THEN found.heap
                    ELSE address_list_release(found.heap, found.al)
         /\ host_name_addresses_map' = found.cache
         /\ reached' = IF found.asked THEN reached \ {h} ELSE reached
  BY <1>1 DEF persistent_available_p
<1>3. /\ pc = "idle" /\ al = "none" /\ calls' \in 0..Calls /\ Typed
      /\ UNCHANGED <<opt, bind_called, pc, host, al, i, tried, missed>>
  BY CallsAssumption DEF Inv, Typed, Walk, Walking, persistent_available_p
<1>4. Good(hp, c, "none", "none")
  BY <1>1, <1>3 DEF Inv
<1>5. Looked(hp, c, "none", h, {}, found)
  BY <1>1, <1>2, <1>4, Lookup
<1>6. /\ Good(found.heap, found.cache, "none", found.al)
      /\ ~found.asked => found.cache = c
      /\ \A g \in DOMAIN c : g \in DOMAIN found.cache /\ found.cache[g] = c[g]
      /\ \A l \in Lists : hp[l] # Free => Alike(found.heap[l], hp[l])
      /\ \A l \in Lists : found.heap[l] # Free /\ hp[l] = Free => found.heap[l].faulty = 0
      /\ \A g \in DOMAIN found.cache : found.cache[g] \in Lists
      /\ \A g \in DOMAIN found.cache :
            \/ g \in DOMAIN c /\ found.cache[g] = c[g] /\ (found.asked => g # h)
            \/ ~found.heap[found.cache[g]].connected
  <2>1. \A g \in DOMAIN found.cache : found.cache[g] \in Lists
    BY <1>5, HeldLives DEF Looked
  <2> QED
    BY <1>5, <2>1, NoneAssumption DEF Looked
<1>7. /\ Good(heap', found.cache, "none", "none")
      /\ \A l \in Lists : heap'[l] # Free =>
            found.heap[l] # Free /\ Alike(heap'[l], found.heap[l])
  <2>1. CASE found.al = "none"
    BY <1>2, <1>6, <2>1 DEF Alike
  <2>2. CASE found.al # "none"
    BY <1>2, <1>6, <2>2, DroppedByLookup, HeldLives
  <2> QED
    BY <2>1, <2>2
<1>8. \A l \in Lists : heap'[l] # Free =>
         IF hp[l] # Free THEN Alike(heap'[l], hp[l]) ELSE heap'[l].faulty = 0
  BY <1>6, <1>7 DEF Alike
<1>9. \A g \in DOMAIN c : heap[c[g]] # Free /\ Alike(heap'[c[g]], hp[c[g]])
  BY <1>1, <1>4, <1>6, <1>7, <1>8, HeldLives
<1>10. Typed'
  BY <1>2, <1>3 DEF Typed
<1>11. Excused' /\ Proven'
  <2>1. \A l \in Lists : heap'[l] # Free /\ heap'[l].faulty > 0 => heap'[l].connected
    BY <1>1, <1>3, <1>8, NoneAssumption DEF Inv, Excused, Alike
  <2>2. \A g \in DOMAIN found.cache : heap'[found.cache[g]].connected => g \in reached'
    <3>1. \A g \in DOMAIN found.cache : heap'[found.cache[g]] # Free
      BY <1>7, HeldLives
    <3>2. \A g \in DOMAIN found.cache :
             heap'[found.cache[g]].connected => found.heap[found.cache[g]].connected
      BY <1>6, <1>7, <3>1 DEF Alike
    <3>3. \A g \in DOMAIN c : found.heap[c[g]].connected => hp[c[g]].connected
      BY <1>4, <1>6, HeldLives DEF Alike
    <3> QED
      BY <1>1, <1>2, <1>6, <3>2, <3>3 DEF Inv, Proven
  <2> QED
    BY <1>2, <1>3, <2>1, <2>2 DEF Excused, Proven
<1>12. Walk' /\ Outcome'
  BY <1>2, <1>3 DEF Walk, Walking, Outcome
<1>13. Known'
  <2> SUFFICES ASSUME NEW g \in reached', Cacheable(g)
               PROVE  g \in DOMAIN found.cache /\ heap'[found.cache[g]].connected
    BY <1>2, <1>3 DEF Known, Cacheable
  <2>1. g \in DOMAIN c /\ hp[c[g]].connected
    BY <1>1, <1>2 DEF Inv, Known
  <2> QED
    BY <1>6, <1>9, <2>1 DEF Alike
<1>14. Good(heap, host_name_addresses_map, al, "none")'
  BY <1>2, <1>3, <1>7 DEF Good, IsCache
<1> QED
  BY <1>3, <1>10, <1>11, <1>12, <1>13, <1>14 DEF Inv

\* An address is tried, the bind address perhaps looked up first.
LEMMA ConnectToIpStays ==
    ASSUME Inv, connect_to_ip
    PROVE  Inv' \/ Crashed'
<1> SUFFICES ASSUME ~Crashed'
             PROVE  Inv'
  OBVIOUS
<1>1. /\ pc = "loop" /\ i < Len(heap[al].addresses)
      /\ tried' = tried \cup {heap[al].addresses[i + 1]}
      /\ UNCHANGED <<opt, host, al, i, calls, missed, reached>>
  BY DEF connect_to_ip
<1>2. /\ Bound(heap', host_name_addresses_map', al)
      /\ pc' \in {"success", "failure"} /\ bind_called' \in BOOLEAN
  <2>1. CASE pc' = "failure" /\ UNCHANGED <<heap, host_name_addresses_map, bind_called>>
    <3>1. Bound(heap, host_name_addresses_map, al)
      BY DEF Inv, Bound, Alike
    <3> QED
      BY <2>1, <3>1 DEF Inv, Typed
  <2>2. CASE resolve_bind_address
    BY <1>1, <2>2, Binds
  <2> QED
    BY <2>1, <2>2 DEF connect_to_ip
<1>3. /\ al # "none" /\ host \in Hosts /\ Position(heap[al])
      /\ Cacheable(host) =>
            host \in DOMAIN host_name_addresses_map /\ host_name_addresses_map[host] = al
      /\ \A h \in DOMAIN host_name_addresses_map : host_name_addresses_map[h] = al => h = host
      /\ host \in reached => heap[al].connected
  BY <1>1 DEF Inv, Walk, Walking
<1>4. /\ al \in Lists /\ heap[al] # Free /\ heap'[al] # Free /\ heap[al] \in Struct
      /\ \A g \in DOMAIN host_name_addresses_map :
            /\ host_name_addresses_map[g] \in Lists /\ heap[host_name_addresses_map[g]] # Free
            /\ heap'[host_name_addresses_map[g]] # Free
  <2>1. PICK hp, c, a, hp2, c2 :
           /\ hp = heap /\ c = host_name_addresses_map /\ a = al
           /\ hp2 = heap' /\ c2 = host_name_addresses_map'
    OBVIOUS
  <2>2. Good(hp, c, a, "none") /\ Good(hp2, c2, a, "none")
    BY <1>2, <2>1 DEF Inv, Bound
  <2>3. /\ a \in Lists /\ hp[a] # Free /\ hp2[a] # Free /\ hp[a] \in Struct
        /\ \A g \in DOMAIN c : c[g] \in Lists /\ hp[c[g]] # Free
        /\ \A g \in DOMAIN c2 : c2[g] \in Lists /\ hp2[c2[g]] # Free
    BY <1>3, <2>1, <2>2, HeldLives
  <2> QED
    BY <1>2, <2>1, <2>3 DEF Bound
<1>5. Alike(heap'[al], heap[al])
  BY <1>2, <1>4 DEF Bound
<1>6. Typed'
  BY <1>1, <1>2 DEF Inv, Typed
<1>7. Excused' /\ Proven'
  <2>1. \A l \in Lists : heap'[l] # Free /\ heap'[l].faulty > 0 => heap'[l].connected \/ l = al
    BY <1>2 DEF Inv, Excused, Alike, Bound
  <2>2. \A h \in DOMAIN host_name_addresses_map' :
           heap'[host_name_addresses_map'[h]].connected => h \in reached
    BY <1>2, <1>4 DEF Inv, Proven, Alike, Bound
  <2> QED
    BY <1>1, <2>1, <2>2 DEF Excused, Proven
<1>8. Position(heap[al])'
  <2>1. i = heap[al].faulty
    BY <1>1, <1>3 DEF Position
  <2>2. /\ i \in Nat
        /\ ~heap[al].connected => \A k \in 1..i : heap[al].addresses[k] \in tried
    BY <1>1, <1>3 DEF Position, Inv, Typed
  <2>3. ~heap[al].connected => \A k \in 1..(i + 1) : heap[al].addresses[k] \in tried'
    BY <1>1, <2>2
  <2> QED
    BY <1>1, <1>2, <1>5, <2>1, <2>3 DEF Position, Alike
<1>9. Walk'
  BY <1>1, <1>2, <1>3, <1>5, <1>8 DEF Walk, Walking, Cacheable, Alike, Bound
<1>10. Known'
  BY <1>1, <1>2, <1>4 DEF Inv, Known, Cacheable, Alike, Bound
<1>11. Outcome'
  BY <1>2 DEF Outcome
<1>12. Good(heap, host_name_addresses_map, al, "none")'
  BY <1>1, <1>2 DEF Good, IsCache, Bound
<1> QED
  BY <1>6, <1>7, <1>9, <1>10, <1>11, <1>12 DEF Inv

\* A list is changed, its holders are not.
LEMMA Changed ==
    ASSUME NEW hp, NEW c, NEW a, NEW l \in Lists, Good(hp, c, a, "none"), hp[l] # Free,
           NEW list \in Struct, list.refcount = hp[l].refcount
    PROVE  LET hp2 == [hp EXCEPT ![l] = list]
           IN  /\ Good(hp2, c, a, "none") /\ hp2[l] = list
               /\ \A m \in Lists \ {l} : hp2[m] = hp[m]
<1> DEFINE u == Uses(c, a, "none")
           hp2 == [hp EXCEPT ![l] = list]
<1>1. Counted(hp, u)
  BY DEF Good
<1> HIDE DEF u
<1>2. /\ hp2 \in [Lists -> Struct \cup {Free}] /\ hp2[l] = list /\ list # Free
      /\ \A m \in Lists \ {l} : hp2[m] = hp[m]
  BY <1>1, FreeIsNoList DEF Counted
<1> HIDE DEF hp2
<1>3. Counted(hp2, u)
  BY <1>1, <1>2 DEF Counted
<1> QED
  BY <1>2, <1>3 DEF Good, u, hp2

\* An address answers.
LEMMA SuccessStays ==
    ASSUME Inv, Success
    PROVE  Inv'
<1>1. PICK hp, c, a, h : hp = heap /\ c = host_name_addresses_map /\ a = al /\ h = host
  OBVIOUS
<1> DEFINE list == [hp[a] EXCEPT !.connected = TRUE]
           mid == [hp EXCEPT ![a] = list]
           hp2 == address_list_release(mid, a)
<1>2. /\ pc = "success" /\ pc' = "connected" /\ al' = "none" /\ reached' = reached \cup {h}
      /\ UNCHANGED <<opt, host_name_addresses_map, bind_called, host, i, calls,
                     tried, missed>>
  BY <1>1 DEF Success
<1>3. /\ Good(hp, c, a, "none") /\ a \in Lists /\ h \in Hosts
      /\ Cacheable(h) => h \in DOMAIN c /\ c[h] = a
      /\ \A g \in DOMAIN c : c[g] = a => g = h
  BY <1>1, <1>2, NoneAssumption DEF Inv, Walk, Walking, Good
<1>4. /\ hp[a] \in Struct /\ hp[a] # Free /\ hp \in [Lists -> Struct \cup {Free}]
  BY <1>3, HeldLives, NoneAssumption DEF Good, Counted
<1>5. list \in Struct /\ list.refcount = hp[a].refcount /\ list.connected = TRUE
  BY <1>4 DEF Struct
<1>6. heap' = hp2
  BY <1>1, <1>4 DEF Success
<1> HIDE DEF list
<1>7. Good(mid, c, a, "none") /\ mid[a] = list /\ \A m \in Lists \ {a} : mid[m] = hp[m]
  BY <1>3, <1>4, <1>5, Changed
<1> HIDE DEF mid
<1>8. /\ Good(hp2, c, "none", "none")
      /\ \A m \in Lists : hp2[m] # Free => mid[m] # Free /\ Alike(hp2[m], mid[m])
  BY <1>3, <1>7, DroppedByCall
<1> HIDE DEF hp2
<1>9. \A m \in Lists : hp2[m] # Free =>
         /\ m # a => hp[m] # Free /\ Alike(hp2[m], hp[m])
         /\ m = a => hp2[m].connected
  BY <1>5, <1>7, <1>8 DEF Alike
<1>10. Typed'
  BY <1>1, <1>2, <1>3 DEF Inv, Typed
<1>11. Excused' /\ Proven'
  <2>1. \A l \in Lists : hp2[l] # Free /\ hp2[l].faulty > 0 => hp2[l].connected
    BY <1>1, <1>9 DEF Inv, Excused, Alike
  <2>2. \A g \in DOMAIN c : hp2[c[g]].connected => g \in reached'
    <3>1. \A g \in DOMAIN c : c[g] \in Lists /\ hp2[c[g]] # Free
      BY <1>8, HeldLives
    <3> QED
      BY <1>1, <1>2, <1>3, <1>9, <3>1 DEF Inv, Proven, Alike
  <2> QED
    BY <1>1, <1>2, <1>6, <2>1, <2>2 DEF Excused, Proven
<1>12. Walk' /\ Outcome'
  BY <1>2 DEF Walk, Walking, Outcome
<1>13. Known'
  <2> SUFFICES ASSUME NEW g \in reached', Cacheable(g)
               PROVE  g \in DOMAIN c /\ hp2[c[g]].connected
    BY <1>1, <1>2, <1>6 DEF Known, Cacheable
  <2>1. g \in DOMAIN c /\ (c[g] # a => hp[c[g]].connected)
    BY <1>1, <1>2, <1>3 DEF Inv, Known
  <2>2. c[g] \in Lists /\ hp2[c[g]] # Free
    BY <1>8, <2>1, HeldLives
  <2> QED
    BY <1>9, <2>1, <2>2 DEF Alike
<1>14. Good(heap, host_name_addresses_map, al, "none")'
  BY <1>1, <1>2, <1>6, <1>8 DEF Good, IsCache
<1> QED
  BY <1>2, <1>10, <1>11, <1>12, <1>13, <1>14 DEF Inv

\* An address does not answer; after the last one all are clean again.
LEMMA FailureStays ==
    ASSUME Inv, Failure
    PROVE  Inv'
<1>1. PICK hp, c, a : hp = heap /\ c = host_name_addresses_map /\ a = al
  OBVIOUS
<1> DEFINE list == address_list_set_faulty(hp[a])
           hp2 == [hp EXCEPT ![a] = list]
<1>2. /\ pc = "failure" /\ i' = i + 1
      /\ pc' = IF i = hp[a].faulty THEN "loop" ELSE "aborted"
      /\ UNCHANGED <<opt, host_name_addresses_map, bind_called, host, al, calls,
                     tried, missed, reached>>
  BY <1>1 DEF Failure
<1>3. /\ Good(hp, c, a, "none") /\ a \in Lists /\ host \in Hosts /\ Position(hp[a])
      /\ Cacheable(host) => host \in DOMAIN c /\ c[host] = a
      /\ \A g \in DOMAIN c : c[g] = a => g = host
      /\ host \in reached => hp[a].connected
  BY <1>1, <1>2, NoneAssumption DEF Inv, Walk, Walking, Good
<1>4. hp[a] \in Struct /\ hp[a] # Free /\ hp \in [Lists -> Struct \cup {Free}]
  BY <1>3, HeldLives, NoneAssumption DEF Good, Counted
<1>5. /\ i = hp[a].faulty /\ i \in Nat /\ Len(hp[a].addresses) \in Nat
      /\ hp[a].faulty < Len(hp[a].addresses)
      /\ pc' = "loop"
      /\ ~hp[a].connected => \A k \in 1..(i + 1) : hp[a].addresses[k] \in tried
  BY <1>2, <1>3, <1>4 DEF Position, Struct, Inv, Typed
<1>6. /\ list \in Struct /\ list.refcount = hp[a].refcount
      /\ list.addresses = hp[a].addresses /\ list.connected = hp[a].connected
      /\ list.faulty = IF i + 1 >= Len(hp[a].addresses) THEN 0 ELSE i + 1
  BY <1>4, <1>5 DEF Struct, address_list_set_faulty
<1>7. heap' = hp2
  BY <1>1 DEF Failure
<1> HIDE DEF list
<1>8. Good(hp2, c, a, "none") /\ hp2[a] = list /\ \A m \in Lists \ {a} : hp2[m] = hp[m]
  BY <1>3, <1>4, <1>6, Changed
<1> HIDE DEF hp2
<1>9. Typed'
  BY <1>2, <1>5 DEF Inv, Typed
<1>10. Excused' /\ Proven'
  <2>1. \A g \in DOMAIN c : c[g] \in Lists
    BY <1>3, HeldLives
  <2> QED
    BY <1>1, <1>2, <1>5, <1>6, <1>7, <1>8, <2>1 DEF Inv, Excused, Proven
<1>11. Position(heap[al])'
  BY <1>1, <1>2, <1>5, <1>6, <1>7, <1>8 DEF Position
<1>12. Walk'
  BY <1>1, <1>2, <1>3, <1>5, <1>6, <1>7, <1>8, <1>11, NoneAssumption DEF Walk, Walking, Cacheable
<1>13. Known'
  <2>1. \A g \in DOMAIN c : c[g] \in Lists
    BY <1>3, HeldLives
  <2> QED
    BY <1>1, <1>2, <1>6, <1>7, <1>8, <2>1 DEF Inv, Known, Cacheable
<1>14. Outcome'
  BY <1>5 DEF Outcome
<1>15. Good(heap, host_name_addresses_map, al, "none")'
  BY <1>1, <1>2, <1>7, <1>8 DEF Good, IsCache
<1> QED
  BY <1>9, <1>10, <1>12, <1>13, <1>14, <1>15 DEF Inv

\* All have been tried.
LEMMA GiveUpStays ==
    ASSUME Inv, GiveUp
    PROVE  Inv'
<1>1. PICK hp, c, a : hp = heap /\ c = host_name_addresses_map /\ a = al
  OBVIOUS
<1> DEFINE hp2 == address_list_release(hp, a)
<1>2. /\ pc = "loop" /\ pc' = "failed" /\ al' = "none" /\ heap' = hp2
      /\ i = Len(hp[a].addresses) /\ ~hp[a].connected
      /\ missed' = {hp[a].addresses[k] : k \in DOMAIN hp[a].addresses} \ tried
      /\ UNCHANGED <<opt, host_name_addresses_map, bind_called, host, i, calls,
                     tried, reached>>
  BY <1>1 DEF GiveUp
<1>3. /\ Good(hp, c, a, "none") /\ a \in Lists /\ Position(hp[a])
      /\ host \in reached => hp[a].connected
  BY <1>1, <1>2, NoneAssumption DEF Inv, Walk, Walking, Good
<1>4. /\ Good(hp2, c, "none", "none")
      /\ \A m \in Lists : hp2[m] # Free => hp[m] # Free /\ Alike(hp2[m], hp[m])
  BY <1>3, DroppedByCall
<1> HIDE DEF hp2
<1>5. missed' = {}
  <2>1. hp[a].addresses \in Seq(Addresses)
    BY <1>3, HeldLives, NoneAssumption DEF Struct
  <2>2. DOMAIN hp[a].addresses = 1..i
    BY <1>2, <2>1
  <2> QED
    BY <1>2, <1>3, <2>2 DEF Position
<1>6. Typed'
  BY <1>2 DEF Inv, Typed
<1>7. Excused' /\ Proven'
  <2>1. hp2[a] # Free => hp2[a].faulty = 0
    <3>1. hp[a].faulty = 0
      <4>1. hp[a] \in Struct
        BY <1>3, HeldLives, NoneAssumption
      <4> QED
        BY <1>2, <1>3, <4>1 DEF Position, Struct
    <3> QED
      BY <1>3, <1>4, <3>1 DEF Alike
  <2> QED
    <3>1. \A g \in DOMAIN c : c[g] \in Lists /\ hp2[c[g]] # Free
      BY <1>4, HeldLives
    <3> QED
      BY <1>1, <1>2, <1>4, <2>1, <3>1 DEF Inv, Excused, Proven, Alike
<1>8. Walk' /\ Outcome'
  BY <1>2, <1>3, <1>5 DEF Walk, Walking, Outcome
<1>9. Known'
  <2>1. \A g \in DOMAIN c : c[g] \in Lists /\ hp2[c[g]] # Free
    BY <1>4, HeldLives
  <2> QED
    BY <1>1, <1>2, <1>4, <2>1 DEF Inv, Known, Cacheable, Alike
<1>10. Good(heap, host_name_addresses_map, al, "none")'
  BY <1>1, <1>2, <1>4 DEF Good, IsCache
<1> QED
  BY <1>2, <1>6, <1>7, <1>8, <1>9, <1>10 DEF Inv

\* The caller goes on.
LEMMA ReturnStays ==
    ASSUME Inv, Return
    PROVE  Inv'
<1>1. Typed' /\ Excused' /\ Proven' /\ Walk' /\ Known' /\ Outcome'
  BY DEF Return, Inv, Typed, Excused, Proven, Walk, Walking, Known, Cacheable, Outcome
<1>2. Good(heap, host_name_addresses_map, al, "none")'
  BY DEF Return, Inv, Good, IsCache
<1> QED
  BY <1>1, <1>2 DEF Inv

\* Every step keeps the invariant.
LEMMA InvStays == (Inv \/ Crashed) /\ [Next]_vars => (Inv \/ Crashed)'
<1> SUFFICES ASSUME Inv \/ Crashed, [Next]_vars
             PROVE  (Inv \/ Crashed)'
  OBVIOUS
<1>0. CASE Crashed
  <2>1. ~Next
    BY <1>0 DEF Crashed, Next, Connecting, connect_to_host, persistent_available_p,
                connect_to_ip, Success, Failure, Refresh, GiveUp, Return
  <2>2. UNCHANGED vars
    BY <2>1
  <2>3. \E b \in Lists : Good(heap, host_name_addresses_map, al, b)'
    BY <1>0, <2>2 DEF vars, Crashed, Good, IsCache
  <2> QED
    BY <1>0, <2>2, <2>3 DEF vars, Crashed, Excused, AssertionsHold
<1> SUFFICES ASSUME Inv
             PROVE  (Inv \/ Crashed)'
  BY <1>0
<1>1. CASE UNCHANGED vars
  <2>1. Typed' /\ Excused' /\ Proven' /\ Walk' /\ Known' /\ Outcome'
    BY <1>1 DEF vars, Inv, Typed, Excused, Proven, Walk, Walking, Position, Known,
                Cacheable, Outcome
  <2>2. Good(heap, host_name_addresses_map, al, "none")'
    BY <1>1 DEF vars, Inv, Good, IsCache
  <2> QED
    BY <2>1, <2>2 DEF Inv
<1>2. CASE Next
  <2>1. CASE \E h \in Hosts : connect_to_host(h)
    BY <2>1, ConnectStays
  <2>2. CASE \E h \in Hosts : persistent_available_p(h)
    BY <2>2, AvailableStays
  <2>3. CASE Connecting
    BY <2>3, ConnectToIpStays, SuccessStays, FailureStays, RefreshStays, GiveUpStays,
       ReturnStays DEF Connecting
  <2> QED
    BY <1>2, <2>1, <2>2, <2>3 DEF Next
<1> QED
  BY <1>1, <1>2

\* The holders, counted.
LEMMA HoldersAre ==
    ASSUME NEW c, c = host_name_addresses_map, IsCache(c), NEW l \in Lists
    PROVE  Holders(l) = Uses(c, al, "none")[l]
<1> DEFINE H == {h \in DOMAIN c : c[h] = l}
<1>1. Holders(l) = Cardinality(H) + (IF al = l THEN 1 ELSE 0)
  BY DEF Holders
<1>2. CASE \E h \in DOMAIN c : c[h] = l
  <2>1. PICK h \in DOMAIN c : c[h] = l
    BY <1>2
  <2>2. H = {h}
    BY <2>1 DEF IsCache
  <2>3. Cardinality(H) = 1
    BY <2>2, FS_Singleton
  <2> HIDE DEF H
  <2> QED
    BY <1>1, <1>2, <2>3, NoneAssumption DEF Uses
<1>3. CASE ~\E h \in DOMAIN c : c[h] = l
  <2>1. H = {}
    BY <1>3
  <2>2. Cardinality(H) = 0
    BY <2>1, FS_EmptySet
  <2> HIDE DEF H
  <2> QED
    BY <1>1, <1>3, <2>2, NoneAssumption DEF Uses
<1> QED
  BY <1>2, <1>3

\* A list that is found on the heap is well-formed.
LEMMA ListsTyped ==
    ASSUME NEW hp, NEW c, NEW b, hp = heap, c = host_name_addresses_map, Good(hp, c, al, b)
    PROVE  /\ \A l \in Live :
                 /\ heap[l].faulty \in 0..(Len(heap[l].addresses) - 1)
                 /\ heap[l].refcount \in Nat \ {0} /\ heap[l].connected \in BOOLEAN
           /\ DOMAIN host_name_addresses_map \subseteq Hosts /\ al \in Lists \cup {"none"}
           /\ \A g, h \in DOMAIN host_name_addresses_map :
                 host_name_addresses_map[g] = host_name_addresses_map[h] => g = h
<1>1. ASSUME NEW l \in Live
      PROVE  /\ heap[l].faulty \in 0..(Len(heap[l].addresses) - 1)
             /\ heap[l].refcount \in Nat \ {0} /\ heap[l].connected \in BOOLEAN
  <2>1. PICK a : a = al
    OBVIOUS
  <2>2. heap[l] \in Struct
    BY <2>1, HeldLives DEF Live
  <2>3. Len(heap[l].addresses) \in Nat /\ heap[l].faulty \in Nat
    BY <2>2 DEF Struct
  <2> QED
    BY <2>2, <2>3 DEF Struct
<1> QED
  BY <1>1 DEF Good, IsCache

\* The invariant is more than what the theorems say.
LEMMA InvIsEnough == Inv \/ Crashed => ListsSound /\ FailsOnlyWhenAllFail
<1> SUFFICES ASSUME Inv \/ Crashed
             PROVE  ListsSound /\ FailsOnlyWhenAllFail
  OBVIOUS
<1>1. PICK hp, c, a : hp = heap /\ c = host_name_addresses_map /\ a = al
  OBVIOUS
<1>2. PICK b : Good(hp, c, a, b) /\ (Inv => b = "none")
  BY <1>1 DEF Inv, Crashed
<1>3. TypeOK
  <2>1. /\ opt \in Opts /\ host \in Hosts \cup {"none"} /\ calls \in 0..Calls
        /\ pc \in {"idle", "loop", "success", "failure", "connected", "failed", "unresolved",
                  "aborted"}
    BY DEF Inv, Typed, Crashed
  <2> QED
    BY <1>1, <1>2, <2>1, ListsTyped DEF TypeOK
<1>4. \A g, h \in DOMAIN host_name_addresses_map :
         host_name_addresses_map[g] = host_name_addresses_map[h] => g = h
  BY <1>1, <1>2, ListsTyped
<1>5. \A l \in Live : heap[l].faulty > 0 => heap[l].connected \/ l = al
  BY DEF Inv, Crashed, Excused, Live
<1>6. ASSUME Inv
      PROVE  /\ \A l \in Live : heap[l].refcount = Holders(l)
             /\ \A l \in Lists \ Live : Holders(l) = 0
  <2>1. Good(hp, c, a, "none")
    BY <1>2, <1>6
  <2>2. \A l \in Lists : Holders(l) = Uses(c, a, "none")[l]
    BY <1>1, <2>1, HoldersAre DEF Good
  <2> QED
    BY <1>1, <2>1, <2>2 DEF Live, Good, Counted
<1>7. Inv <=> pc # "aborted"
  BY DEF Inv, Typed, Crashed
<1>8. ListsSound
  <2>1. AssertionsHold
    BY DEF AssertionsHold, Inv, Typed, Crashed
  <2> QED
    BY <1>3, <1>4, <1>5, <1>6, <1>7, <2>1 DEF ListsSound
<1> QED
  BY <1>7, <1>8 DEF FailsOnlyWhenAllFail, Inv, Crashed, Outcome

-----------------------------------------------------------------------------
\* Lists of addresses live exactly as long as the cache or a call holds them, are
\* never shared by two hosts, and are walked from the middle only if they have worked;
\* no assertion about faulty addresses fails, except for a --bind-address that is a host
\* connected to, in a build without IPv6.
THEOREM ListsStaySound == Spec => []ListsSound
<1>1. Init => Inv \/ Crashed
  BY InvStarts
<1> QED
  BY <1>1, InvStays, InvIsEnough, PTL DEF Spec

\* connect_to_host fails only after it has tried every address of a list, in the
\* same call, and never from the cache for a host that has been reached.
THEOREM FailuresAreComplete == Spec => []FailsOnlyWhenAllFail
<1>1. Init => Inv \/ Crashed
  BY InvStarts
<1> QED
  BY <1>1, InvStays, InvIsEnough, PTL DEF Spec
=============================================================================
