---------------------------- MODULE AddressLists ----------------------------
(***************************************************************************)
(* The DNS cache (src/src/host.c) and the loop that connects to a host     *)
(* (connect_to_host, src/src/connect.c).  Lists of addresses are shared by *)
(* reference counts between the cache and whoever looked them up; a list   *)
(* remembers how many of its addresses, from the front, did not work, and  *)
(* whether any ever did.                                                   *)
(*                                                                         *)
(* An address is a record of its family and a number.  An assertion that   *)
(* fails ends the program, as it does in a build with debug support        *)
(* (src/src/wget.h: 48).                                                   *)
(***************************************************************************)
EXTENDS Integers, Sequences, FiniteSets

CONSTANTS
    Hosts,
    Numeric,        \* those that are written as an address
    Answers,        \* what the resolver may say of a host: sequences of addresses
    Opts,           \* dns_cache, prefer_family, bind_address, and a build with ipv6
    Lists,          \* the places of the heap
    Calls           \* bound: how many calls are made

ASSUME HostsAssumption == Numeric \subseteq Hosts
ASSUME NoneAssumption == "none" \notin Hosts \cup Lists
ASSUME AnswersAssumption ==
    \A h \in Hosts : \A s \in Answers[h] : s # <<>> /\ s \in Seq({s[k] : k \in DOMAIN s})
\* A build without IPv6 does not sort.
ASSUME OptsAssumption ==
    \A o \in Opts :
       o.bind_address \in Hosts \cup {"none"} /\ (~o.ipv6 => o.prefer_family = "none")
\* The heap does not run out: each cached host may have a list, and two lists more
\* are held at once, by connect_to_host and by the lookup in resolve_bind_address.
ASSUME RoomAssumption ==
    /\ IsFiniteSet(Hosts) /\ IsFiniteSet(Lists)
    /\ Cardinality(Lists) >= Cardinality(Hosts \ Numeric) + 2
ASSUME CallsAssumption == Calls \in Nat

VARIABLES
    opt,
    heap,                       \* the struct address_list at each place, or Free
    host_name_addresses_map,    \* the cache: from hosts to places
    bind_called,                \* resolve_bind_address: static bool called
    pc, host, al, i,            \* connect_to_host: where it is, its argument, its locals
    calls,
    tried,                      \* history: the addresses of its list that a call has tried
    missed,                     \* history: those it had not when it gave up
    reached                     \* history: hosts connected to since the resolver was asked

vars == <<opt, heap, host_name_addresses_map, bind_called, pc, host, al, i, calls,
          tried, missed, reached>>

Free == [free |-> TRUE]
Live == {l \in Lists : heap[l] # Free}

Init ==
    /\ opt \in Opts
    /\ heap = [l \in Lists |-> Free]
    /\ host_name_addresses_map = <<>>
    /\ bind_called = FALSE
    /\ pc = "idle" /\ host = "none" /\ al = "none" /\ i = 0
    /\ calls = 0 /\ tried = {} /\ missed = {} /\ reached = {}

-----------------------------------------------------------------------------
\* Operations on lists.
address_list_from_addrinfo(answer) ==
    [addresses |-> answer, faulty |-> 0, connected |-> FALSE, refcount |-> 1]

\* All addresses faulty: they are made clean, to be retried the next time.
address_list_set_faulty(list) ==
    [list EXCEPT !.faulty = IF @ + 1 >= Len(list.addresses) THEN 0 ELSE @ + 1]

address_list_release(hp, l) ==
    IF hp[l].refcount <= 1 THEN [hp EXCEPT ![l] = Free]
    ELSE [hp EXCEPT ![l].refcount = @ - 1]

\* The stable sort by cmp_prefer_ipv4 or cmp_prefer_ipv6, if a family is preferred:
\* its addresses come first, and otherwise the order is kept.
Before(answer, j, k) ==
    LET Preferred(n) == answer[n].family = opt.prefer_family
    IN  IF Preferred(j) <=> Preferred(k) THEN j <= k ELSE Preferred(j)

Place(answer, k) == Cardinality({j \in DOMAIN answer : Before(answer, j, k)})

Sorted(answer) ==
    [n \in DOMAIN answer |-> answer[CHOOSE k \in DOMAIN answer : Place(answer, k) = n]]

-----------------------------------------------------------------------------
\* Operations on the cache, in a state of the heap, the cache, the list that is
\* returned and whether the resolver was asked.
Cached(st, h) == h \in DOMAIN st.cache

\* Variant for sensitivity checks: the caller is not counted.
cache_query_borrowed(st, h) == [st EXCEPT !.al = st.cache[h]]

cache_query(st, h) ==
    [st EXCEPT !.heap[st.cache[h]].refcount = @ + 1, !.al = st.cache[h]]

cache_store(st, h) ==
    [st EXCEPT !.heap[st.al].refcount = @ + 1,
               !.cache = [g \in DOMAIN @ \cup {h} |-> IF g = h THEN st.al ELSE @[g]]]

cache_remove(st, h) ==
    IF ~Cached(st, h) THEN st
    ELSE [st EXCEPT !.heap = address_list_release(@, st.cache[h]),
                    !.cache = [g \in DOMAIN @ \ {h} |-> @[g]]]

\* The resolver fails, or its answer makes a list of its own.
Resolutions(st, h) ==
    {[st EXCEPT !.asked = TRUE]}
    \cup {LET l == CHOOSE l \in Lists : st.heap[l] = Free
          IN  [st EXCEPT !.heap[l] = address_list_from_addrinfo(Sorted(s)),
                         !.al = l, !.asked = TRUE] : s \in Answers[h]}

\* Variant for sensitivity checks: LH_REFRESH is ignored.
lookup_host_again(hp, h, flags) ==
    LET use_cache == opt.dns_cache /\ h \notin Numeric /\ (opt.ipv6 => "BIND" \notin flags)
        st == [heap |-> hp, cache |-> host_name_addresses_map, al |-> "none",
               asked |-> FALSE]
    IN  IF ~use_cache THEN Resolutions(st, h)
        ELSE IF Cached(st, h) THEN {cache_query(st, h)}
        ELSE {IF r.al = "none" THEN r ELSE cache_store(r, h) : r \in Resolutions(st, h)}

\* lookup_host on a heap: the states it may leave.
lookup_host(hp, h, flags) ==
    LET use_cache == opt.dns_cache /\ h \notin Numeric /\ (opt.ipv6 => "BIND" \notin flags)
        st == [heap |-> hp, cache |-> host_name_addresses_map, al |-> "none",
               asked |-> FALSE]
    IN  IF ~use_cache THEN Resolutions(st, h)
        ELSE IF "REFRESH" \notin flags /\ Cached(st, h) THEN {cache_query(st, h)}
        ELSE {IF r.al = "none" THEN r ELSE cache_store(r, h) :
                r \in Resolutions(IF "REFRESH" \in flags THEN cache_remove(st, h) ELSE st, h)}

-----------------------------------------------------------------------------
\* From `retry' to the loop: the list that was looked up is walked from its first
\* address not known to be faulty; no list is E_HOST.
Retry(found, h) ==
    /\ heap' = found.heap /\ host_name_addresses_map' = found.cache
    /\ al' = found.al
    /\ IF found.al = "none"
       THEN pc' = "unresolved" /\ i' = 0
       ELSE pc' = "loop" /\ i' = found.heap[found.al].faulty
    /\ tried' = {}
    /\ reached' = IF found.asked THEN reached \ {h} ELSE reached

connect_to_host(h) ==
    /\ pc = "idle" /\ calls < Calls
    /\ calls' = calls + 1 /\ host' = h /\ missed' = {}
    /\ \E found \in lookup_host(heap, h, {}) : Retry(found, h)
    /\ UNCHANGED <<opt, bind_called>>

\* resolve_bind_address, the first time a socket is made: the first address of its
\* list, which address_list_address_at asserts not to be a faulty one.
resolve_bind_address ==
    IF opt.bind_address = "none" \/ bind_called
    THEN /\ pc' \in {"success", "failure"}
         /\ UNCHANGED <<heap, host_name_addresses_map, bind_called>>
    ELSE \E found \in lookup_host(heap, opt.bind_address, {"BIND"}) :
            /\ bind_called' = TRUE
            /\ host_name_addresses_map' = found.cache
            /\ \/ /\ found.al = "none"
                  /\ heap' = found.heap /\ pc' \in {"success", "failure"}
               \/ /\ found.al # "none" /\ found.heap[found.al].faulty = 0
                  /\ heap' = address_list_release(found.heap, found.al)
                  /\ pc' \in {"success", "failure"}
               \/ /\ found.al # "none" /\ found.heap[found.al].faulty > 0
                  /\ heap' = found.heap /\ pc' = "aborted"

\* connect_to_ip: either no socket can be made, and nothing is bound; or there is
\* one, it is bound or not, and the address answers or not.
connect_to_ip ==
    /\ pc = "loop" /\ i < Len(heap[al].addresses)
    /\ tried' = tried \cup {heap[al].addresses[i + 1]}
    /\ \/ pc' = "failure" /\ UNCHANGED <<heap, host_name_addresses_map, bind_called>>
       \/ resolve_bind_address
    /\ UNCHANGED <<opt, host, al, i, calls, missed, reached>>

\* Variant for sensitivity checks: address_list_set_connected is forgotten.
Success_unmarked ==
    /\ pc = "success"
    /\ heap' = address_list_release(heap, al)
    /\ pc' = "connected" /\ al' = "none"
    /\ reached' = reached \cup {host}
    /\ UNCHANGED <<opt, host_name_addresses_map, bind_called, host, i, calls,
                   tried, missed>>

Success ==
    /\ pc = "success"
    /\ heap' = address_list_release([heap EXCEPT ![al].connected = TRUE], al)
    /\ pc' = "connected" /\ al' = "none"
    /\ reached' = reached \cup {host}
    /\ UNCHANGED <<opt, host_name_addresses_map, bind_called, host, i, calls,
                   tried, missed>>

Failure ==
    /\ pc = "failure"
    /\ heap' = [heap EXCEPT ![al] = address_list_set_faulty(@)]
    /\ pc' = IF i = heap[al].faulty THEN "loop" ELSE "aborted"
    /\ i' = i + 1
    /\ UNCHANGED <<opt, host_name_addresses_map, bind_called, host, al, calls,
                   tried, missed, reached>>

\* After the loop: a list that was once connected to is looked up anew and its
\* successor is walked; any other is given up.
Refresh ==
    /\ pc = "loop" /\ i = Len(heap[al].addresses) /\ heap[al].connected
    /\ \E found \in lookup_host(address_list_release(heap, al), host, {"REFRESH"}) :
          Retry(found, host)
    /\ UNCHANGED <<opt, bind_called, host, calls, missed>>

GiveUp ==
    /\ pc = "loop" /\ i = Len(heap[al].addresses) /\ ~heap[al].connected
    /\ missed' = {heap[al].addresses[k] : k \in DOMAIN heap[al].addresses} \ tried
    /\ heap' = address_list_release(heap, al)
    /\ pc' = "failed" /\ al' = "none"
    /\ UNCHANGED <<opt, host_name_addresses_map, bind_called, host, i, calls,
                   tried, reached>>

Return ==
    /\ pc \in {"connected", "failed", "unresolved"}
    /\ pc' = "idle" /\ host' = "none" /\ i' = 0 /\ tried' = {} /\ missed' = {}
    /\ UNCHANGED <<opt, heap, host_name_addresses_map, bind_called, al, calls, reached>>

\* persistent_available_p (src/src/http.c) asks whether the peer of the connection
\* that it keeps is an address of another host, and keeps no list.
persistent_available_p(h) ==
    /\ pc = "idle" /\ calls < Calls
    /\ calls' = calls + 1
    /\ \E found \in lookup_host(heap, h, {}) :
          /\ heap' = IF found.al = "none" THEN found.heap
                     ELSE address_list_release(found.heap, found.al)
          /\ host_name_addresses_map' = found.cache
          /\ reached' = IF found.asked THEN reached \ {h} ELSE reached
    /\ UNCHANGED <<opt, bind_called, pc, host, al, i, tried, missed>>

Connecting == connect_to_ip \/ Success \/ Failure \/ Refresh \/ GiveUp \/ Return

Next ==
    \/ \E h \in Hosts : connect_to_host(h)
    \/ \E h \in Hosts : persistent_available_p(h)
    \/ Connecting

\* The program runs on once it is in a call.
Spec == Init /\ [][Next]_vars
FairSpec == Spec /\ WF_vars(Connecting)

-----------------------------------------------------------------------------
TypeOK ==
    /\ opt \in Opts
    /\ \A l \in Live :
          /\ heap[l].faulty \in 0..(Len(heap[l].addresses) - 1)
          /\ heap[l].refcount \in Nat \ {0} /\ heap[l].connected \in BOOLEAN
    /\ DOMAIN host_name_addresses_map \subseteq Hosts
    /\ pc \in {"idle", "loop", "success", "failure", "connected", "failed", "unresolved",
              "aborted"}
    /\ al \in Lists \cup {"none"} /\ host \in Hosts \cup {"none"}
    /\ calls \in 0..Calls

Holders(l) ==
    Cardinality({h \in DOMAIN host_name_addresses_map : host_name_addresses_map[h] = l})
    + (IF al = l THEN 1 ELSE 0)

\* The assertion of address_list_set_faulty, that addresses are found faulty in
\* order, never fails.  That of address_list_address_at fails in one case only:
\* --bind-address names the very host that the program connects to, or one it has
\* connected to, and the cache has that host's list, whose first address did not
\* work; which takes a build without IPv6 and sockets that could not be made.
AssertionsHold ==
    pc = "aborted" =>
       /\ opt.dns_cache /\ ~opt.ipv6
       /\ opt.bind_address \in (reached \cup {host}) \ (Numeric \cup {"none"})

\* Lists live exactly as long as somebody holds them: nothing that the cache or a
\* call refers to was freed, nothing is left over, and no two hosts share a list.
\* And a list is never walked from the middle unless it has worked before: the
\* addresses that are skipped were skipped by a call that connected.  What host.c asserts holds, as above.
ListsSound ==
    /\ TypeOK /\ AssertionsHold
    /\ \A g, h \in DOMAIN host_name_addresses_map :
          host_name_addresses_map[g] = host_name_addresses_map[h] => g = h
    /\ \A l \in Live : heap[l].faulty > 0 => heap[l].connected \/ l = al
    /\ pc # "aborted" =>
          /\ \A l \in Live : heap[l].refcount = Holders(l)
          /\ \A l \in Lists \ Live : Holders(l) = 0

\* Claimed by host.c, 104: a position that is asked for is not a faulty one.  The
\* code violates it as AssertionsHold says.
NeverAborts == pc # "aborted"

\* connect_to_host fails only after it has tried every address that the resolver
\* gave, those skipped as faulty included; and never by a cached answer that has
\* worked before: then the resolver is asked again first.
FailsOnlyWhenAllFail ==
    /\ pc = "failed" => missed = {} /\ host \notin reached
    /\ pc = "unresolved" => host \notin reached

\* A call ends, if only by that assertion: the list that comes of the second lookup
\* has not been connected to, so there is no third.
Terminates == pc = "loop" ~> pc \in {"idle", "aborted"}
=============================================================================
