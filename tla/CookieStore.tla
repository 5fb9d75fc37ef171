---------------------------- MODULE CookieStore -----------------------------
(***************************************************************************)
(* What a jar of cookies promises (src/src/cookies.h): a set of cookies    *)
(* with one cookie for each name, path, domain and port; a request carries *)
(* those that pertain to it; a file keeps them from one session to the     *)
(* next.                                                                   *)
(***************************************************************************)
EXTENDS Integers, Sequences, SequencesExt

CONSTANTS
    PORT_ANY,
    Numeric     \* hosts that are written as an address

VARIABLES
    keep,       \* opt.keep_session_cookies
    now,
    store,      \* the cookies of this session
    file,       \* those of the file
    reported    \* saving has reported an error

vars == <<keep, now, store, file, reported>>

Key(c) == [domain |-> c.domain, port |-> c.port, path |-> c.path, attr |-> c.attr]
Others(c) == {d \in store : Key(d) # Key(c)}
Expired(c) == c.permanent /\ c.expiry_time < now
Pair(c) == <<c.attr, c.value>>

\* A cookie goes to its domain and, unless that is to match as a whole, to the
\* hosts below it; a top-level domain has no cookies but its own.
Pertains(c, r) ==
    /\ ~Expired(c) /\ (c.secure => r.secflag)
    /\ c.port \in {PORT_ANY, r.port} /\ IsPrefix(c.path, r.path)
    /\ \/ c.domain = r.host
       \/ /\ ~c.domain_exact /\ r.host \notin Numeric
          /\ IsSuffix(c.domain, r.host) /\ Len(c.domain) > 1

\* Closer domains come first and, within a domain, longer paths.
Before(c, d) ==
    \/ Len(c.domain) > Len(d.domain)
    \/ Len(c.domain) = Len(d.domain) /\ Len(c.path) >= Len(d.path)

Pertaining(r) == {c \in store : Pertains(c, r)}

\* Each pair once, all that pertain, and sorted with respect to some cookie for
\* each pair.
RightHeader(r, h) ==
    \E S \in SUBSET Pertaining(r) :
        /\ \A c, d \in S : c # d => Pair(c) # Pair(d)
        /\ {Pair(c) : c \in S} = {Pair(c) : c \in Pertaining(r)}
        /\ \E s \in SetToSeqs(S) :
              /\ \A i, j \in DOMAIN s : i < j => Before(s[i], s[j])
              /\ h = [i \in DOMAIN s |-> Pair(s[i])]

Init ==
    /\ keep \in BOOLEAN /\ now = 1
    /\ store = {} /\ file = {} /\ reported = FALSE

Set(c) ==
    /\ UNCHANGED <<keep, now, file, reported>>
    /\ store' = Others(c) \cup {c}

Discard(c) ==
    /\ store' = Others(c)
    /\ UNCHANGED <<keep, now, file, reported>>

\* The session ends.  Session cookies stay in the file only if they are to be kept;
\* a file that is not complete is reported.
Persistent == {c \in store : (c.permanent \/ keep) /\ ~Expired(c)}
Save ==
    /\ \/ file' = Persistent /\ reported' = FALSE
       \/ file' \in SUBSET (Persistent \cup file) /\ reported' = TRUE
    /\ store' = {} /\ UNCHANGED <<keep, now>>

Load ==
    /\ store = {} /\ store' = {c \in file : ~Expired(c)}
    /\ UNCHANGED <<keep, now, file, reported>>

\* The session ends without saving.
Leave == store' = {} /\ UNCHANGED <<keep, now, file, reported>>

Tick == now' = now + 1 /\ UNCHANGED <<keep, store, file, reported>>

Next ==
    \/ \E c \in store' : Set(c)      \* any cookie
    \/ \E c \in store : Discard(c)
    \/ Save \/ Load \/ Leave \/ Tick

Spec == Init /\ [][Next]_vars
=============================================================================
