----------------------------- MODULE CookieJar ------------------------------
(***************************************************************************)
(* Cookies (src/src/cookies.c): chains of cookies linked by pointers, one  *)
(* chain for each domain; Set-Cookie, the Cookie header, and the file.     *)
(*                                                                         *)
(* A domain is a sequence of labels, a path one of characters, of which    *)
(* only "/" matters.  The steps of a call are not interleaved with         *)
(* anything; the hazards are in the chains, in what a cookie becomes on    *)
(* its way through the file, and in the removal of duplicates.             *)
(***************************************************************************)
EXTENDS Integers, Sequences, FiniteSets, SequencesExt

CONSTANTS
    Places,         \* of the heap (bound: one more than the cookies of a jar)
    Requests,       \* host, port, path and secflag
    Responses,      \* to a request r, a header sc: attr, value, domain, path, expires,
                    \* max_age, secure
    Numeric,        \* hosts that are written as an address
    Short,          \* labels of at most three characters
    known_toplevel_domains,
    MaxTime, MaxHeaders     \* bounds: of the clock, of the headers received

None == <<>>
NULL == 0
PORT_ANY == -1

ASSUME PlacesAssumption == IsFiniteSet(Places) /\ NULL \notin Places
ASSUME RequestsAssumption == \A r \in Requests : r.path # <<>> /\ r.path[1] = "/"
ASSUME ResponsesAssumption == \A m \in Responses : m.r \in Requests

VARIABLES
    keep_session_cookies,   \* opt
    cookies_now,
    heap,           \* the struct cookie at each place, or Free
    chains,         \* jar->chains: from domains to places
    cookies_loaded_p,
    file,           \* the lines of the file
    reported,       \* cookie_jar_save has reported an error
    received

vars == <<keep_session_cookies, cookies_now, heap, chains, cookies_loaded_p, file,
          reported, received>>

Free == [free |-> TRUE]
Live == {p \in Places : heap[p] # Free}
NoJar == [heap |-> [p \in Places |-> Free], chains |-> [d \in {} |-> NULL]]
Jar == [heap |-> heap, chains |-> chains]

Init ==
    /\ keep_session_cookies \in BOOLEAN /\ cookies_now = 1
    /\ heap = NoJar.heap /\ chains = NoJar.chains /\ cookies_loaded_p = FALSE
    /\ file = <<>> /\ reported = FALSE /\ received = 0

-----------------------------------------------------------------------------
\* Chains.  A walk along `next', which is bounded by the number of places.
Chain(jar, domain) ==
    LET walk[n \in 0 .. Cardinality(Places), p \in Places \cup {NULL}] ==
            IF n = 0 \/ p = NULL THEN <<>>
            ELSE IF jar.heap[p] = Free THEN <<p>> ELSE <<p>> \o walk[n - 1, jar.heap[p].next]
    IN  IF domain \notin DOMAIN jar.chains THEN <<>>
        ELSE walk[Cardinality(Places), jar.chains[domain]]

\* Variant for sensitivity checks: the port is not compared.
find_matching_cookie_anyport(jar, c) ==
    LET chain == Chain(jar, c.domain)
        Same(p) == jar.heap[p].path = c.path /\ jar.heap[p].attr = c.attr
        found == {i \in DOMAIN chain :
                    Same(chain[i]) /\ \A j \in 1 .. i - 1 : ~Same(chain[j])}
    IN  IF found = {} THEN [victim |-> NULL, prev |-> NULL]
        ELSE LET i == CHOOSE i \in found : TRUE
             IN  [victim |-> chain[i], prev |-> IF i = 1 THEN NULL ELSE chain[i - 1]]

\* The victim and its predecessor in the chain, or NULL.
find_matching_cookie(jar, c) ==
    LET chain == Chain(jar, c.domain)
        Same(p) == /\ jar.heap[p].path = c.path /\ jar.heap[p].attr = c.attr
                   /\ jar.heap[p].port = c.port
        found == {i \in DOMAIN chain :
                    Same(chain[i]) /\ \A j \in 1 .. i - 1 : ~Same(chain[j])}
    IN  IF found = {} THEN [victim |-> NULL, prev |-> NULL]
        ELSE LET i == CHOOSE i \in found : TRUE
             IN  [victim |-> chain[i], prev |-> IF i = 1 THEN NULL ELSE chain[i - 1]]

hash_table_put(table, domain, p) ==
    [d \in DOMAIN table \cup {domain} |-> IF d = domain THEN p ELSE table[d]]

\* Variant for sensitivity checks: a victim at the head stays in the chain.
store_cookie_head(jar, c) ==
    LET p == CHOOSE p \in Places : jar.heap[p] = Free
        f == find_matching_cookie(jar, c)
        head == IF c.domain \in DOMAIN jar.chains THEN jar.chains[c.domain] ELSE NULL
        unlinked == IF f.prev # NULL
                    THEN [jar.heap EXCEPT ![f.prev].next = jar.heap[f.victim].next]
                    ELSE jar.heap
        deleted == IF f.victim # NULL THEN [unlinked EXCEPT ![f.victim] = Free]
                   ELSE unlinked
    IN  [heap |-> [deleted EXCEPT ![p] = c @@ [next |-> head]],
         chains |-> hash_table_put(jar.chains, c.domain, p)]

store_cookie(jar, c) ==
    LET p == CHOOSE p \in Places : jar.heap[p] = Free
        f == find_matching_cookie(jar, c)
        head == IF c.domain \in DOMAIN jar.chains THEN jar.chains[c.domain] ELSE NULL
        next == IF f.victim # NULL /\ f.prev = NULL THEN jar.heap[f.victim].next ELSE head
        unlinked == IF f.prev # NULL
                    THEN [jar.heap EXCEPT ![f.prev].next = jar.heap[f.victim].next]
                    ELSE jar.heap
        deleted == IF f.victim # NULL THEN [unlinked EXCEPT ![f.victim] = Free]
                   ELSE unlinked
    IN  [heap |-> [deleted EXCEPT ![p] = c @@ [next |-> next]],
         chains |-> hash_table_put(jar.chains, c.domain, p)]

discard_matching_cookie(jar, c) ==
    LET f == find_matching_cookie(jar, c)
        after == jar.heap[f.victim].next
    IN  IF f.victim = NULL THEN jar
        ELSE IF f.prev # NULL THEN
            [jar EXCEPT !.heap = [@ EXCEPT ![f.prev].next = after, ![f.victim] = Free]]
        ELSE [heap |-> [jar.heap EXCEPT ![f.victim] = Free],
              chains |-> IF after = NULL
                         THEN [d \in DOMAIN jar.chains \ {c.domain} |-> jar.chains[d]]
                         ELSE hash_table_put(jar.chains, c.domain, after)]

-----------------------------------------------------------------------------
\* Set-Cookie.  Without libpsl: the domain has to be the host or a tail of it of at
\* least two labels, and of three if it might be shared (like co.uk).
check_domain_match(domain, host) ==
    \/ domain = host
    \/ /\ IsSuffix(domain, host) /\ Len(domain) >= 2
       /\ Len(domain) = 2 =>
             domain[2] \in known_toplevel_domains \/ domain[1] \notin Short

Directory(path) ==
    LET last == CHOOSE i \in DOMAIN path :
                    path[i] = "/" /\ \A j \in i + 1 .. Len(path) : path[j] # "/"
    IN  SubSeq(path, 1, last)

\* parse_set_cookie and what cookie_handle_set_cookie makes of absent parts.
Parsed(sc, r) ==
    [domain |-> IF sc.domain = None THEN r.host ELSE sc.domain,
     domain_exact |-> sc.domain = None,
     port |-> IF sc.domain = None /\ r.port \notin {80, 443} THEN r.port ELSE PORT_ANY,
     path |-> IF sc.path = None THEN Directory(r.path) ELSE sc.path,
     attr |-> sc.attr, value |-> sc.value, secure |-> sc.secure,
     permanent |-> sc.expires # -1 \/ sc.max_age # -1,
     expiry_time |-> IF sc.max_age # -1 THEN cookies_now + sc.max_age
                     ELSE IF sc.expires # -1 THEN sc.expires ELSE 0]

\* The clauses come in this order: a date in the past is not revoked by max-age.
discard_requested(sc, r) ==
    \/ sc.expires # -1 /\ sc.expires < cookies_now
    \/ sc.max_age = 0
    \/ sc.domain # None /\ ~check_domain_match(sc.domain, r.host)

cookie_handle_set_cookie(r, sc) ==
    LET c == Parsed(sc, r)
        jar == IF ~IsPrefix(c.path, r.path) THEN Jar
               ELSE IF discard_requested(sc, r) THEN discard_matching_cookie(Jar, c)
               ELSE store_cookie(Jar, c)
    IN  /\ cookies_loaded_p /\ received < MaxHeaders
        /\ Cardinality(Live) < Cardinality(Places)
        /\ heap' = jar.heap /\ chains' = jar.chains
        /\ received' = received + 1
        /\ UNCHANGED <<keep_session_cookies, cookies_now, cookies_loaded_p, file, reported>>

-----------------------------------------------------------------------------
\* The Cookie header.
cookie_expired_p(c) == c.expiry_time # 0 /\ c.expiry_time < cookies_now

cookie_matches_url(c, r) ==
    /\ ~cookie_expired_p(c)
    /\ c.secure => r.secflag
    /\ c.port # PORT_ANY => c.port = r.port
    /\ c.domain_exact => c.domain = r.host
    /\ IsPrefix(c.path, r.path)

\* The host, then what is left of it when its first labels are taken away one by
\* one: as many domains as it has dots, and one if it has none or is an address.
find_chains_of_host(host) ==
    LET passes == IF host \in Numeric \/ Len(host) = 1 THEN 1 ELSE Len(host) - 1
        tails == [n \in 1 .. passes |-> SubSeq(host, n, Len(host))]
    IN  {p \in Live : \E n \in 1 .. passes : p \in ToSet(Chain(Jar, tails[n]))}

\* Variant for sensitivity checks: a cookie of the same name is a duplicate.
eliminate_dups_byname(s) ==
    LET kept == {i \in DOMAIN s : i = Len(s) \/ heap[s[i]].attr # heap[s[i + 1]].attr}
    IN  {s[i] : i \in kept}

\* A cookie followed by one with the same name and value is dropped.
eliminate_dups(s) ==
    LET Same(p, q) == heap[p].attr = heap[q].attr /\ heap[p].value = heap[q].value
    IN  {s[i] : i \in {i \in DOMAIN s : i = Len(s) \/ ~Same(s[i], s[i + 1])}}

\* What qsort may leave: equal elements in any order.
Sorted(S, before(_, _)) ==
    {s \in SetToSeqs(S) : \A i, j \in DOMAIN s : i < j => before(s[i], s[j])}

equality_comparator(p, q) ==
    \/ heap[p].attr < heap[q].attr
    \/ heap[p].attr = heap[q].attr /\ heap[p].value <= heap[q].value

goodness_comparator(p, q) ==
    \/ Len(heap[p].domain) > Len(heap[q].domain)
    \/ /\ Len(heap[p].domain) = Len(heap[q].domain)
       /\ Len(heap[p].path) >= Len(heap[q].path)

\* The headers that it may return, as sequences of names and values; it changes nothing.
cookie_header(r) ==
    LET outgoing == {p \in find_chains_of_host(r.host) : cookie_matches_url(heap[p], r)}
        sent(s) == Sorted(eliminate_dups(s), goodness_comparator)
    IN  {[i \in DOMAIN t |-> <<heap[t[i]].attr, heap[t[i]].value>>] :
            t \in UNION {sent(s) : s \in Sorted(outgoing, equality_comparator)}}

-----------------------------------------------------------------------------
\* The file.  A line has a port, or 0; a date, or 0 for a cookie of the session.
Line(c) ==
    [domain |-> c.domain, flag |-> ~c.domain_exact,
     port |-> IF c.port = PORT_ANY THEN 0 ELSE c.port, path |-> c.path,
     secure |-> c.secure, expires |-> c.expiry_time, attr |-> c.attr, value |-> c.value]

OfLine(l) ==
    [domain |-> l.domain, domain_exact |-> ~l.flag,
     port |-> IF l.port = 0 THEN PORT_ANY ELSE l.port, path |-> l.path,
     attr |-> l.attr, value |-> l.value, secure |-> l.secure,
     permanent |-> l.expires # 0, expiry_time |-> l.expires]

Saved(c) == (c.permanent \/ keep_session_cookies) /\ ~cookie_expired_p(c)

\* The chains one after the other; their order does not matter.
Lines ==
    LET domains == SetToSeq(DOMAIN chains)
        saved(d) == SelectSeq(Chain(Jar, d), LAMBDA p : Saved(heap[p]))
        places == FlattenSeq([i \in DOMAIN domains |-> saved(domains[i])])
    IN  [i \in DOMAIN places |-> Line(heap[places[i]])]

\* The end of the process, and a new one that has not met an HTTP URL yet.
NewSession ==
    /\ heap' = NoJar.heap /\ chains' = NoJar.chains /\ cookies_loaded_p' = FALSE
    /\ UNCHANGED <<keep_session_cookies, cookies_now, received>>

\* The file cannot be opened, or writing stops after a cookie.
cookie_jar_save ==
    /\ cookies_loaded_p
    /\ \/ file' = Lines /\ reported' = FALSE
       \/ file' = file /\ reported' = TRUE
       \/ \E n \in 0 .. Len(Lines) : file' = SubSeq(Lines, 1, n) /\ reported' = TRUE
    /\ NewSession

Leave == NewSession /\ UNCHANGED <<file, reported>>

\* load_cookies at the first HTTP URL, with an empty jar.
cookie_jar_load ==
    LET Stale(l) == l.expires # 0 /\ l.expires < cookies_now
        fresh == SelectSeq(file, LAMBDA l : ~Stale(l))
        jar == FoldLeft(LAMBDA j, l : store_cookie(j, OfLine(l)), NoJar, fresh)
    IN  /\ ~cookies_loaded_p /\ cookies_loaded_p' = TRUE
        /\ heap' = jar.heap /\ chains' = jar.chains
        /\ UNCHANGED <<keep_session_cookies, cookies_now, file, reported, received>>

Tick ==
    /\ cookies_now < MaxTime /\ cookies_now' = cookies_now + 1
    /\ UNCHANGED <<keep_session_cookies, heap, chains, cookies_loaded_p, file, reported,
                   received>>

Next ==
    \/ \E m \in Responses : cookie_handle_set_cookie(m.r, m.sc)
    \/ cookie_jar_load \/ cookie_jar_save \/ Leave \/ Tick

Spec == Init /\ [][Next]_vars

-----------------------------------------------------------------------------
TypeOK ==
    /\ keep_session_cookies \in BOOLEAN /\ reported \in BOOLEAN /\ cookies_loaded_p \in BOOLEAN
    /\ cookies_now \in 1 .. MaxTime /\ received \in 0 .. MaxHeaders
    /\ DOMAIN heap = Places /\ Range(chains) \subseteq Places

Members(domain) == ToSet(Chain(Jar, domain))

\* The chains partition the heap: none is empty or runs in a circle, no pointer
\* leads to freed memory, each cookie is in the chain of its domain, and none is
\* left behind (store_cookie and discard_matching_cookie at the head and inside).
ChainsSound ==
    /\ TypeOK
    /\ \A d \in DOMAIN chains :
          /\ chains[d] \in Live
          /\ \A p \in Members(d) : p \in Live => heap[p].domain = d
          /\ \A p \in Members(d) \cap Live : heap[p].next \in Live \cup {NULL}
          /\ Cardinality(Members(d)) = Len(Chain(Jar, d))
    /\ Live = UNION {Members(d) : d \in DOMAIN chains}

Content(c) == [f \in DOMAIN c \ {"next"} |-> c[f]]
Store == INSTANCE CookieStore WITH
    keep <- keep_session_cookies, now <- cookies_now,
    store <- {Content(heap[p]) : p \in UNION {Members(d) : d \in DOMAIN chains}},
    file <- {OfLine(file[i]) : i \in DOMAIN file}

\* The chains and the file do what a jar promises: one cookie for each key whatever is
\* replaced or discarded, and the same cookies again in the next session.
ImplementsCookieStore == Store!Spec

\* The header holds the name and value of each cookie that pertains to the request,
\* once, closer domains first (find_chains_of_host, eliminate_dups, two sorts).
HeaderRight == \A r \in Requests : \A h \in cookie_header(r) : Store!RightHeader(r, h)

\* Claimed (src/src/cookies.c:475): a header changes only cookies that its sender
\* might have set.  One whose domain is refused discards the cookie it names.
OthersUntouched ==
    \A m \in Responses :
        cookie_handle_set_cookie(m.r, m.sc) =>
            \A p \in Live :
                \/ check_domain_match(heap[p].domain, m.r.host)
                \/ heap'[p] # Free /\ Content(heap'[p]) = Content(heap[p])
KeepsToItsDomain == [][OthersUntouched]_vars
=============================================================================
