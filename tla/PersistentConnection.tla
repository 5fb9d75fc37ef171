------------------------ MODULE PersistentConnection ------------------------
(***************************************************************************)
(* The one HTTP connection that wget keeps open between requests           *)
(* (src/src/http.c: pconn), and what gethttp does to it: when a request    *)
(* may use it, when it is registered, and what has to be read from it or   *)
(* closed before the next request may.                                     *)
(*                                                                         *)
(* A connection is the stream of pieces that the server has sent, of which *)
(* the first "arrived" can be read.  A response is its head, and a body    *)
(* that is one piece of data, or data and a last chunk; the server closes  *)
(* a connection by sending "eof".  The server answers every request of a   *)
(* connection in order, and never sends a body in response to HEAD.        *)
(***************************************************************************)
EXTENDS Naturals, Integers, Sequences, FiniteSets, Functions

CONSTANTS
    Hosts,        \* the hosts (and ports) of the URLs
    Proxy,        \* the host of the proxy
    Cases,        \* command lines and networks, see ConnectionAssumption
    Calls         \* bound on the number of calls of gethttp

\* keep_alive: the user has not inhibited it; names: the name of the local
\* file is known only from the response head, and -nc is in effect; late: the
\* pieces of a response may arrive one by one, not all with the head; old: the
\* server may delimit a body by closing the connection without announcing it;
\* stalls: a piece of an unwanted body may come later than the read timeout;
\* addresses: what the host names resolve to.
ASSUME ConnectionAssumption ==
    /\ Proxy \notin Hosts /\ Calls \in Nat
    /\ \A c \in Cases :
          /\ DOMAIN c.addresses = Hosts \cup {Proxy}
          /\ {c.keep_alive, c.warc, c.names, c.credentials, c.proxy,
              c.late, c.old, c.stalls} \subseteq BOOLEAN

\* Where pieces may come late, servers announce that they will close the
\* connection, every piece comes before reading times out, and gethttp does not
\* return with the body unread.
PatientAssumption ==
    \A c \in Cases : c.late => ~c.old /\ ~c.stalls /\ ~c.names

VARIABLES
    opt,          \* the case, fixed
    conns,        \* the open sockets: a function on descriptors
    pconn,        \* pconn_active and pconn
    pc,           \* where gethttp stands, "idle" between calls
    call,         \* its arguments and local variables
    calls

vars == <<opt, conns, pconn, pc, call, calls>>

NoPconn == [active |-> FALSE, socket |-> 0, host |-> Proxy, ssl |-> FALSE]
NoSock == 0

\* A response as its head describes it: how the body is delimited, whether it
\* is too long to be skipped, and whether there is a "Connection: close".
Responses ==
    [status : {"ok", "redirect", "error", "unauthorized", "empty"},
     framing : {"length", "chunked", "eof"}, big : BOOLEAN, close : BOOLEAN]
Http09 == [status |-> "ok", framing |-> "eof", big |-> FALSE, close |-> FALSE]

\* n: the request that the piece answers, counted per connection.
Piece(what, n, r) == [what |-> what, n |-> n, resp |-> r]
Pieces == [what : {"head", "data", "last", "eof"}, n : Nat, resp : Responses]
Eof == Piece("eof", 0, Http09)

NoCall == [host |-> Proxy, ssl |-> FALSE, head_only |-> FALSE, sock |-> NoSock,
           keep_alive |-> FALSE, auth_finished |-> FALSE, resp |-> Eof]

Init ==
    /\ opt \in Cases
    /\ conns = [fd \in {} |-> Eof]
    /\ pconn = NoPconn
    /\ pc = "idle" /\ call = NoCall
    /\ calls = 0

-----------------------------------------------------------------------------
(***************************************************************************)
(* The server and the network.                                             *)
(***************************************************************************)
\* How a server may answer: it announces that it will close the connection
\* if that is how it ends the body, unless it is an old one.
Answers ==
    {r \in Responses :
        /\ r.big => r.framing = "length" /\ r.status = "error"
        /\ r.framing = "eof" => r.close \/ opt.old
        /\ r.status = "empty" => r.framing = "length"}

Stream(r, n) ==
    <<Piece("head", n, r)>>
    \o (IF call.head_only \/ r.status = "empty" THEN <<>>
        ELSE IF r.framing = "chunked"
        THEN <<Piece("data", n, Http09), Piece("last", n, Http09)>>
        ELSE <<Piece("data", n, Http09)>>)
    \o (IF r.close \/ r.framing = "eof" THEN <<Eof>> ELSE <<>>)

Closing(c) == \E i \in DOMAIN c.stream : c.stream[i] = Eof

\* What was sent arrives, in order.
Deliver ==
    \E fd \in DOMAIN conns :
        LET c == conns[fd] IN
        /\ c.arrived < Len(c.stream)
        /\ conns' = [conns EXCEPT ![fd].arrived =
                        IF opt.late THEN @ + 1 ELSE Len(c.stream)]
        /\ UNCHANGED <<opt, pconn, pc, call, calls>>

\* The server closes the connection: it is idle, or the server fails.
ServerCloses ==
    \E fd \in DOMAIN conns :
        LET c == conns[fd] IN
        /\ ~Closing(c)
        /\ conns' = [conns EXCEPT ![fd].stream =
                        SubSeq(c.stream, 1, c.arrived) \o <<Eof>>]
        /\ UNCHANGED <<opt, pconn, pc, call, calls>>

-----------------------------------------------------------------------------
\* gethttp goes on with these locals, or returns.
Go(to, locals) ==
    /\ pc' = to
    /\ call' = IF to = "idle" THEN NoCall ELSE locals
    /\ UNCHANGED <<opt, calls>>

Without(open, fd) == Restrict(open, DOMAIN open \ {fd})

Registered(fd) == pconn.active /\ fd = pconn.socket

\* Variant for sensitivity checks: the socket is closed behind pconn's back.
CLOSE_INVALIDATE_only(to) ==
    /\ conns' = Without(conns, call.sock)
    /\ UNCHANGED pconn
    /\ Go(to, [call EXCEPT !.sock = NoSock])

CLOSE_INVALIDATE(to) ==
    /\ conns' = Without(conns, call.sock)
    /\ pconn' = IF Registered(call.sock) THEN NoPconn ELSE pconn
    /\ Go(to, [call EXCEPT !.sock = NoSock])

CLOSE_FINISH(to) ==
    IF call.keep_alive THEN UNCHANGED <<conns, pconn>> /\ Go(to, call)
    ELSE CLOSE_INVALIDATE(to)

\* Only one connection is kept: of the open ones, the one registered before is
\* closed.
register_persistent(fd, open) ==
    IF Registered(fd) THEN [pconn |-> pconn, conns |-> open]
    ELSE [pconn |-> [active |-> TRUE, socket |-> fd, host |-> conns[fd].host,
                     ssl |-> conns[fd].tls],
          conns |-> IF pconn.active THEN Without(open, pconn.socket) ELSE open]

\* The host that the connection must lead to: a proxy is in between, except
\* that it tunnels to the host itself with HTTPS.
Relevant == IF opt.proxy /\ ~call.ssl THEN Proxy ELSE call.host

\* Variant for sensitivity checks: one address, one server, also with HTTPS.
persistent_available_p_shared ==
    /\ pconn.active /\ pconn.ssl = call.ssl
    /\ \/ pconn.host = Relevant
       \/ conns[pconn.socket].addr = opt.addresses[Relevant]

\* The registered connection leads there: to the same host, or without HTTPS
\* to another one with the same address.
persistent_available_p ==
    /\ pconn.active /\ pconn.ssl = call.ssl
    /\ \/ pconn.host = Relevant
       \/ ~call.ssl /\ conns[pconn.socket].addr = opt.addresses[Relevant]

\* "Sockets with pending data" count "as closed".
test_socket_open == conns[pconn.socket].arrived = 0

Gethttp ==
    /\ pc = "idle" /\ calls < Calls
    /\ \E h \in Hosts, ssl, head_only \in BOOLEAN :
          /\ head_only => ~opt.warc
          /\ call' = [NoCall EXCEPT !.host = h, !.ssl = ssl, !.head_only = head_only,
                                    !.keep_alive = opt.keep_alive]
    /\ pc' = "establish" /\ calls' = calls + 1
    /\ UNCHANGED <<opt, conns, pconn>>

\* establish_connection: the registered connection is used.
Reuse ==
    /\ pc = "establish"
    /\ opt.keep_alive /\ persistent_available_p /\ test_socket_open
    /\ Go("send", [call EXCEPT !.sock = pconn.socket])
    /\ UNCHANGED <<conns, pconn>>

\* The host cannot be looked up to compare addresses.
LookupFails ==
    /\ pc = "establish"
    /\ opt.keep_alive /\ pconn.active
    /\ ~pconn.ssl /\ ~call.ssl /\ pconn.host # Relevant
    /\ Go("idle", call)
    /\ UNCHANGED <<conns, pconn>>

\* The lowest descriptor that is not in use, which is what the kernel hands out.
FreeDescriptor(used) ==
    CHOOSE k \in 1 .. Cardinality(used) + 1 :
        k \notin used /\ \A j \in 1 .. k - 1 : j \in used

\* A new connection, after one that turned out to be closed was given up.  It
\* may fail; the proxy may refuse the tunnel, which leaves the socket open.
Connect ==
    LET stale == opt.keep_alive /\ persistent_available_p
        kept == IF stale THEN Without(conns, pconn.socket) ELSE conns
        fd == FreeDescriptor(DOMAIN kept)
        to == IF opt.proxy THEN Proxy ELSE call.host
        new(refused) ==
            [k \in DOMAIN kept \cup {fd} |->
                IF k # fd THEN kept[k]
                ELSE [host |-> Relevant, addr |-> opt.addresses[to], tls |-> call.ssl,
                      refused |-> refused, stream |-> <<>>, arrived |-> 0,
                      asked |-> 0]]
    IN  /\ pc = "establish"
        /\ stale => ~test_socket_open
        /\ pconn' = IF stale THEN NoPconn ELSE pconn
        /\ \/ conns' = new(FALSE) /\ Go("send", [call EXCEPT !.sock = fd])
           \/ conns' = kept /\ Go("idle", call)
           \/ opt.proxy /\ call.ssl /\ conns' = new(TRUE) /\ Go("idle", call)

\* The request is sent; a server that is closing the connection ignores it.
Send ==
    /\ pc = "send"
    /\ LET n == conns[call.sock].asked + 1 IN
       \E r \in Answers :
          conns' = [conns EXCEPT ![call.sock].asked = n,
                                 ![call.sock].stream =
                                    IF Closing(conns[call.sock]) THEN @
                                    ELSE @ \o Stream(r, n)]
    /\ Go("head", call)
    /\ UNCHANGED pconn

\* The next piece on the socket.
Waiting ==
    LET c == conns[call.sock] IN
    IF c.arrived > 0 THEN Head(c.stream).what ELSE "nothing"
Taken == [conns EXCEPT ![call.sock].stream = Tail(@), ![call.sock].arrived = @ - 1]

\* The request cannot be written, or no head can be read (in time).
ExchangeFails ==
    /\ pc = "send" \/ (pc = "head" /\ Waiting \in {"eof", "nothing"})
    /\ CLOSE_INVALIDATE("idle")

\* A head arrives; what does not begin like one is left for the body of an
\* HTTP/0.9 response.  A connection that the server keeps open is registered.
ReadHead ==
    /\ pc = "head" /\ Waiting \notin {"eof", "nothing"}
    /\ LET first == Head(conns[call.sock].stream)
           r == IF Waiting = "head" THEN first.resp ELSE Http09
           alive == call.keep_alive /\ ~r.close
           read == IF Waiting = "head" THEN Taken ELSE conns
           after == IF alive THEN register_persistent(call.sock, read)
                    ELSE [pconn |-> pconn, conns |-> read]
       IN  /\ Go("answer", [call EXCEPT !.resp = [first EXCEPT !.resp = r],
                                        !.keep_alive = alive])
           /\ pconn' = after.pconn /\ conns' = after.conns

-----------------------------------------------------------------------------
(***************************************************************************)
(* What gethttp does with the connection once it knows the response.       *)
(***************************************************************************)
Status == call.resp.resp.status
Framing == call.resp.resp.framing
\* Where gethttp goes on after a body it did not want: a challenge may be
\* answered.
Onwards == IF Status = "unauthorized" THEN "challenged" ELSE "idle"

\* The response has no body, or (HEAD) none is expected: the connection can be
\* used at once.
Bodiless ==
    /\ pc = "answer"
    /\ \/ Status = "empty"
       \/ call.head_only /\ Status \in {"ok", "error"}
    /\ CLOSE_FINISH("idle")

\* -nc, and the name that the head determined exists: gethttp returns as it is.
NameExists ==
    /\ pc = "answer" /\ opt.names /\ Status # "unauthorized"
    /\ Go("idle", call)
    /\ UNCHANGED <<conns, pconn>>

\* The body is not wanted, and not worth reading: wrong range, not modified
\* after all, the file cannot be opened, --spider; without keep-alive or after
\* HEAD also a redirection or a challenge.
Abandon ==
    /\ pc = "answer"
    /\ \/ Status \in {"ok", "error"}
       \/ /\ ~opt.warc /\ Status \in {"redirect", "unauthorized"}
          /\ ~call.keep_alive \/ call.head_only
    /\ CLOSE_INVALIDATE(Onwards)

\* The body is not wanted, but it is read: for the WARC file, or to be able to
\* use the connection again.  When the file is already complete (416, or 200 with
\* no more than the file has) it is skipped even with a WARC file.
Drain ==
    /\ pc = "answer" /\ ~call.head_only
    /\ \/ /\ opt.warc /\ Status \in {"redirect", "error", "unauthorized"}
          /\ Go("body", call)
       \/ /\ call.keep_alive
          /\ \/ Status = "error" \/ (Status = "ok" /\ Framing = "length")
             \/ ~opt.warc /\ Status \in {"redirect", "unauthorized"}
          /\ Go("skip", call)
    /\ UNCHANGED <<conns, pconn>>

Download ==
    /\ pc = "answer" /\ Status = "ok" /\ ~call.head_only
    /\ Go("body", call)
    /\ UNCHANGED <<conns, pconn>>

\* skip_short_body and fd_read_body: a piece after which more is expected.
ReadPiece ==
    /\ \/ Framing = "chunked" /\ pc \in {"skip", "body"}
       \/ Framing = "eof" /\ pc = "body"
    /\ Waiting = "data"
    /\ conns' = Taken
    /\ Go(pc, call)
    /\ UNCHANGED pconn

TooBig == pc = "skip" /\ call.resp.resp.big

\* Variant for sensitivity checks: the last chunk is not read.
ReadLastPiece_early ==
    /\ pc \in {"skip", "body"} /\ Framing # "eof" /\ ~TooBig
    /\ Waiting = "data"
    /\ conns' = Taken
    /\ Go("finish", call)
    /\ UNCHANGED pconn

\* The piece that completes the body.
ReadLastPiece ==
    /\ pc \in {"skip", "body"} /\ ~TooBig
    /\ \/ Framing = "length" /\ Waiting = "data"
       \/ Framing = "chunked" /\ Waiting = "last"
    /\ conns' = Taken
    /\ Go("finish", call)
    /\ UNCHANGED pconn

\* The end of the connection ends the body, except within a chunk; so does, in
\* skip_short_body, that no other chunk arrives, and an unknown length.
BodyEnds ==
    /\ \/ pc = "body" /\ Waiting = "eof"
       \/ /\ pc = "skip" /\ Framing = "chunked"
          /\ Waiting = "eof" \/ (Waiting = "nothing" /\ opt.stalls)
       \/ pc = "skip" /\ Framing = "eof"
    /\ Go("finish", call)
    /\ UNCHANGED <<conns, pconn>>

\* The body is not read to its end: it is too long to be skipped, the
\* connection ends or reading times out, or the file cannot be written.
BodyFails ==
    \/ pc = "body" /\ CLOSE_INVALIDATE("idle")
    \/ /\ pc = "skip" /\ Framing # "eof"
       /\ TooBig \/ Waiting = "eof" \/ (Waiting = "nothing" /\ opt.stalls)
       /\ CLOSE_INVALIDATE(Onwards)

Finish == pc = "finish" /\ CLOSE_FINISH(Onwards)

\* Variant for sensitivity checks: every challenge is answered.
Challenged_again ==
    /\ pc = "challenged"
    /\ Go(IF opt.credentials THEN "establish" ELSE "idle",
          [call EXCEPT !.keep_alive = opt.keep_alive])
    /\ UNCHANGED <<conns, pconn>>

\* retry_with_auth, or AUTHFAILED.
Challenged ==
    /\ pc = "challenged"
    /\ Go(IF opt.credentials /\ ~call.auth_finished THEN "establish" ELSE "idle",
          [call EXCEPT !.auth_finished = TRUE, !.keep_alive = opt.keep_alive])
    /\ UNCHANGED <<conns, pconn>>

Step ==
    \/ Reuse \/ LookupFails \/ Connect \/ Send \/ ExchangeFails \/ ReadHead
    \/ Bodiless \/ NameExists \/ Abandon \/ Drain \/ Download
    \/ ReadPiece \/ ReadLastPiece \/ BodyEnds \/ BodyFails \/ Finish \/ Challenged

Next == Gethttp \/ Step \/ Deliver \/ ServerCloses

Spec == Init /\ [][Next]_vars

\* A single thread whose reads time out; what was sent arrives.
FairSpec == Spec /\ WF_vars(Step) /\ WF_vars(Deliver)

-----------------------------------------------------------------------------
Names == Hosts \cup {Proxy}
Connections == [host : Names, addr : UNION {Range(c.addresses) : c \in Cases},
                tls : BOOLEAN, refused : BOOLEAN, stream : Seq(Pieces),
                arrived : Nat, asked : Nat]
Holding == {"send", "head", "answer", "skip", "body", "finish"}

\* Descriptors, streams and counters are well-formed, and gethttp holds an open
\* socket wherever it uses one.
TypeOK ==
    /\ opt \in Cases
    /\ conns \in [DOMAIN conns -> Connections]
    /\ DOMAIN conns \subseteq Nat \ {0}
    /\ \A fd \in DOMAIN conns : conns[fd].arrived <= Len(conns[fd].stream)
    /\ pconn \in [active : BOOLEAN, socket : Nat, host : Names, ssl : BOOLEAN]
    /\ pc \in Holding \cup {"idle", "establish", "challenged"}
    /\ call \in [host : Names, ssl : BOOLEAN, head_only : BOOLEAN, sock : Nat,
                 keep_alive : BOOLEAN, auth_finished : BOOLEAN, resp : Pieces]
    /\ pc \in Holding => call.sock \in DOMAIN conns
    /\ calls \in 0 .. Calls

\* pconn always describes an open socket, and the connection it was registered
\* for, however descriptors are closed and used again.
PconnValid ==
    pconn.active => /\ pconn.socket \in DOMAIN conns
                    /\ conns[pconn.socket].host = pconn.host
                    /\ conns[pconn.socket].tls = pconn.ssl

\* A request is sent to a host that has the address of the URL's host, and with
\* HTTPS over a session that was established with that very host: "Don't try to
\* talk to two different SSL sites over the same secure connection!"
RightPeer ==
    pc \in {"send", "head"} =>
        /\ conns[call.sock].tls = call.ssl
        /\ IF call.ssl THEN conns[call.sock].host = call.host
           ELSE conns[call.sock].addr = opt.addresses[Relevant]

\* What gethttp takes for a response is the response to its own request, not
\* something that an earlier one has left on the connection.
AnswersMatch ==
    pc \in {"answer", "skip", "body"} =>
        call.resp.what = "head" /\ call.resp.n = conns[call.sock].asked

\* Between requests at most one socket is open, the registered one.  (Not after
\* a refused tunnel and the early return of check_file_output, which leave
\* theirs.)
NothingLeaks ==
    pc = "idle" /\ ~opt.names =>
        \A fd \in DOMAIN conns : Registered(fd) \/ conns[fd].refused

SocketsSound == TypeOK /\ PconnValid /\ NothingLeaks

\* Every call of gethttp returns.
Terminates == pc # "idle" ~> pc = "idle"
=============================================================================
