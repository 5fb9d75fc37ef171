----------------------------- MODULE HstsStore ------------------------------
(***************************************************************************)
(* The HSTS database (src/src/hsts.c): each process reads the file when it *)
(* starts, keeps the entries in a table, and merges the table with what    *)
(* others have written since when it ends.  Only the writers lock the      *)
(* file; whether others have written is told from its modification time,   *)
(* in seconds.                                                             *)
(*                                                                         *)
(* Ports are the default ones.  Tables are functions (HashTable).          *)
(***************************************************************************)
EXTENDS Integers, Sequences, FiniteSets

CONSTANTS
    Processes,
    Hosts,
    Supers,     \* the domains above each host, nearest first, up to the last label
    Ages,       \* the values of max-age that servers send
    Overflow,   \* an age that overflows when it is added to a time
    Files,      \* the contents of the database beforehand
    MaxEvents,  \* bound: requests and headers of a process
    MaxTime     \* bound: seconds

ASSUME SupersAssumption == Supers \in [Hosts -> Seq(STRING)]
ASSUME AgesAssumption == Ages \subseteq Int /\ Overflow \in Nat
ASSUME BoundsAssumption == MaxEvents \in Nat /\ MaxTime \in Nat \ {0}

VARIABLES
    clock,
    exists, file, mtime,    \* the database file
    lock,                   \* who holds the lock, or "none"
    store,                  \* the table of each process
    last_mtime, changed,    \* the rest of struct hsts_store
    pc, events,
    torn,                   \* history: a process was killed between truncating and writing
    base,                   \* history: the file as a process found it when it got the lock
    dropped                 \* history: the hosts whose entries a process has removed

shared == <<exists, file, mtime, lock>>
vars == <<clock, shared, store, last_mtime, changed, pc, events, torn, base, dropped>>

None == [h \in {} |-> {}]
Known(table, h) == h \in DOMAIN table
PutIn(table, h, e) == [g \in DOMAIN table \cup {h} |-> IF g = h THEN e ELSE table[g]]
Without(table, h) == [g \in DOMAIN table \ {h} |-> table[g]]

Init ==
    /\ clock = 1
    /\ file \in Files /\ exists = (file # None) /\ mtime = IF file # None THEN 1 ELSE 0
    /\ lock = "none"
    /\ store = [p \in Processes |-> None]
    /\ last_mtime = [p \in Processes |-> 0] /\ changed = [p \in Processes |-> FALSE]
    /\ pc = [p \in Processes |-> "start"] /\ events = [p \in Processes |-> 0]
    /\ torn = FALSE /\ base = [p \in Processes |-> None]
    /\ dropped = [p \in Processes |-> {}]

-----------------------------------------------------------------------------
\* hsts_find_entry: an entry of the host itself; of the nearest domain above it
\* that includes subdomains; or the entry of its last label, which is returned as
\* NO_MATCH.
hsts_find_entry(table, h) ==
    LET above == Supers[h]
        matching == {i \in DOMAIN above : Known(table, above[i])
                                            /\ table[above[i]].include_subdomains}
        nearest == CHOOSE i \in matching : \A j \in matching : i <= j
    IN
    IF Known(table, h) THEN [host |-> h, match |-> "CONGRUENT"]
    ELSE IF matching # {} THEN [host |-> above[nearest], match |-> "SUPERDOMAIN"]
    ELSE IF above # <<>> /\ Known(table, above[Len(above)])
         THEN [host |-> above[Len(above)], match |-> "NO_MATCH"]
    ELSE [host |-> "", match |-> "NONE"]

\* created + max_age; signed overflow may give anything: something less or more.
Sums(created, max_age) ==
    IF max_age >= Overflow THEN {-1, created + Overflow} ELSE {created + max_age}

\* The entries a new one may lead to: it is refused if its expiry is before it.
WithEntry(table, h, e) ==
    {IF sum < e.created THEN table ELSE PutIn(table, h, e) :
        sum \in Sums(e.created, e.max_age)}

\* Variant for sensitivity checks: entries that are there already are not updated.
hsts_store_merge_new(table, h, e) ==
    IF Known(table, h) THEN {table} ELSE WithEntry(table, h, e)

\* hsts_store_merge: a line of the file that another process has written.
hsts_store_merge(table, h, e) ==
    LET found == hsts_find_entry(table, h) IN
    IF found.match = "CONGRUENT"
    THEN {IF e.created > table[h].created THEN PutIn(table, h, e) ELSE table}
    ELSE IF found.match = "NONE" THEN WithEntry(table, h, e)
    ELSE {table}

\* hsts_read_database: the lines one after the other, in any order, taken as new
\* entries or merged with those that are there.
hsts_read_database(table, lines, merge_with_existing_entries) ==
    LET func(t, h) == IF merge_with_existing_entries THEN hsts_store_merge(t, h, lines[h])
                      ELSE WithEntry(t, h, lines[h])
        Read[todo \in SUBSET DOMAIN lines] ==
            IF todo = {} THEN {table}
            ELSE UNION {UNION {func(t, h) : t \in Read[todo \ {h}]} : h \in todo}
    IN  Read[DOMAIN lines]

-----------------------------------------------------------------------------
At(p, from, to) == pc[p] = from /\ pc' = [pc EXCEPT ![p] = to]

\* hsts_store_open: reading, without a lock.
Open(p) ==
    /\ At(p, "start", IF exists THEN "opened" ELSE "running")
    /\ \E table \in hsts_read_database(None, file, FALSE) :
          store' = [store EXCEPT ![p] = table]
    /\ UNCHANGED <<clock, shared, last_mtime, changed, events, torn, base, dropped>>

\* hsts_store_open: fstat comes after reading.
Stat(p) ==
    /\ At(p, "opened", "running")
    /\ last_mtime' = [last_mtime EXCEPT ![p] = mtime]
    /\ UNCHANGED <<clock, shared, store, changed, events, torn, base, dropped>>

Event(p) ==
    /\ pc[p] = "running" /\ events[p] < MaxEvents
    /\ events' = [events EXCEPT ![p] = @ + 1]
    /\ UNCHANGED <<clock, shared, last_mtime, pc, torn, base>>

\* hsts_store_entry: a Strict-Transport-Security header over HTTPS.
hsts_store_entry(p, h, max_age, include_subdomains) ==
    LET found == hsts_find_entry(store[p], h)
        e == [created |-> clock, max_age |-> max_age,
              include_subdomains |-> include_subdomains]
        Becomes(table) == store' = [store EXCEPT ![p] = table]
                            /\ changed' = [changed EXCEPT ![p] = @ \/ table # store[p]]
    IN
    /\ Event(p)
    /\ CASE found.match = "CONGRUENT" /\ max_age = 0 ->
              /\ Becomes(Without(store[p], h))
              /\ dropped' = [dropped EXCEPT ![p] = @ \cup {h}]
         [] found.match = "CONGRUENT" /\ max_age > 0 /\ clock # store[p][h].created ->
              Becomes(PutIn(store[p], h, e)) /\ UNCHANGED dropped
         [] found.match \in {"NONE", "SUPERDOMAIN"} ->
              /\ \E table \in WithEntry(store[p], h, e) : Becomes(table)
              /\ UNCHANGED dropped
         [] OTHER -> UNCHANGED <<store, changed, dropped>>

\* hsts_match: a request over HTTP; an entry of the host that has expired goes.
hsts_match(p, h) ==
    LET found == hsts_find_entry(store[p], h) IN
    /\ Event(p)
    /\ IF found.match = "NONE" THEN UNCHANGED <<store, changed, dropped>>
       ELSE LET e == store[p][found.host] IN
            \E sum \in Sums(e.created, e.max_age) :
                IF sum >= clock
                THEN /\ changed' = [changed EXCEPT ![p] = @ \/ found.match # "NO_MATCH"]
                     /\ UNCHANGED <<store, dropped>>
                ELSE /\ changed' = [changed EXCEPT ![p] = TRUE]
                     /\ store' = [store EXCEPT ![p] = Without(@, h)]
                     /\ dropped' = [dropped EXCEPT ![p] = @ \cup (DOMAIN store[p] \cap {h})]

\* save_hsts, and hsts_store_save up to the lock: the file is created now.
Save(p) ==
    LET saving == changed[p] /\ store[p] # None IN
    /\ At(p, "running", IF saving THEN "save" ELSE "done")
    /\ IF saving /\ ~exists THEN exists' = TRUE /\ mtime' = clock
       ELSE UNCHANGED <<exists, mtime>>
    /\ UNCHANGED <<clock, file, lock, store, last_mtime, changed, events, torn, base,
                   dropped>>

\* Variant for sensitivity checks: nobody locks.
Free_always == TRUE

\* flock.
Free == lock = "none"

\* hsts_store_save with the lock: the file is merged if it is newer, and truncated.
Merge(p) ==
    /\ At(p, "save", "dump") /\ Free /\ lock' = p
    /\ base' = [base EXCEPT ![p] = file]
    /\ IF last_mtime[p] # 0 /\ mtime > last_mtime[p]
       THEN \E table \in hsts_read_database(store[p], file, TRUE) :
               store' = [store EXCEPT ![p] = table]
       ELSE UNCHANGED store
    /\ file' = None /\ mtime' = clock
    /\ UNCHANGED <<clock, exists, last_mtime, changed, events, torn, dropped>>

\* hsts_store_dump, and fclose, which unlocks.
Dump(p) ==
    /\ At(p, "dump", "done") /\ lock' = "none"
    /\ file' = [h \in DOMAIN file \cup DOMAIN store[p] |->
                    IF Known(store[p], h) THEN store[p][h] ELSE file[h]]
    /\ mtime' = clock
    /\ UNCHANGED <<clock, exists, store, last_mtime, changed, events, torn, base, dropped>>

\* The process is killed.
Kill(p) ==
    /\ pc[p] # "done" /\ pc' = [pc EXCEPT ![p] = "done"]
    /\ lock' = IF lock = p THEN "none" ELSE lock
    /\ torn' = (torn \/ pc[p] = "dump")
    /\ UNCHANGED <<clock, exists, file, mtime, store, last_mtime, changed, events, base,
                   dropped>>

Tick ==
    /\ clock < MaxTime /\ clock' = clock + 1
    /\ UNCHANGED <<shared, store, last_mtime, changed, pc, events, torn, base, dropped>>

Process(p) ==
    \/ Open(p) \/ Stat(p) \/ Save(p) \/ Merge(p) \/ Dump(p) \/ Kill(p)
    \/ \E h \in Hosts : \/ hsts_match(p, h)
                        \/ \E age \in Ages, is \in BOOLEAN : hsts_store_entry(p, h, age, is)

Next == Tick \/ \E p \in Processes : Process(p)

Spec == Init /\ [][Next]_vars

-----------------------------------------------------------------------------
TypeOK ==
    /\ clock \in 1 .. MaxTime /\ mtime \in 0 .. MaxTime /\ lock \in Processes \cup {"none"}
    /\ \A table \in {file} \cup {store[p] : p \in Processes} :
          /\ DOMAIN table \subseteq Hosts
          /\ \A h \in DOMAIN table : table[h].created \in 0 .. MaxTime
    /\ \A p \in Processes :
          /\ last_mtime[p] \in 0 .. MaxTime
          /\ pc[p] \in {"start", "opened", "running", "save", "dump", "done"}

\* When nobody is writing, the file is what one process has written, whole, unless
\* one was killed while writing: writers exclude each other, and each of them starts
\* from an empty file.
FileWhole ==
    /\ TypeOK
    /\ lock = "none" /\ ~torn =>
          \/ file \in Files \cup {store[p] : p \in {q \in Processes : pc[q] = "done"}}

\* Who the writer p must not lose: a host that others have written about, unless
\* p has removed it, a domain above it is known to p, or p cannot tell that
\* the file has changed.
Blind(p) == last_mtime[p] = 0 \/ mtime <= last_mtime[p]
Covered(table, h) == \E i \in DOMAIN Supers[h] : Known(table, Supers[h][i])

\* A process that ends keeps what others have written since it started: of two
\* entries for a host the newer one, whichever of the two it is, and of two hosts
\* both (hsts_store_merge).  So no entry gets older by way of the file.
NewerKept ==
    [][\A p \in Processes : Merge(p) =>
          /\ \A h \in DOMAIN store[p] :
                Known(store'[p], h) /\ store'[p][h].created >= store[p][h].created
          /\ ~Blind(p) => \A h \in DOMAIN file :
                \/ Known(store'[p], h) /\ store'[p][h].created >= file[h].created
                \/ Covered(store'[p], h)
                \/ file[h].max_age >= Overflow]_vars

\* Claimed by doc/wget.texi: "Care is taken not to override possible changes made
\* by other Wget processes at the same time over the HSTS database."
OthersKept ==
    \A p \in Processes : pc[p] = "dump" =>
        \A h \in DOMAIN base[p] : Known(store[p], h) \/ h \in dropped[p]
=============================================================================
