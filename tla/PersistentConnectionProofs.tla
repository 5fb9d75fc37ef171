--------------------- MODULE PersistentConnectionProofs ---------------------
(***************************************************************************)
(* Theorems about PersistentConnection, for any hosts and addresses, any   *)
(* command lines and networks, and any number of calls of gethttp.         *)
(***************************************************************************)
EXTENDS PersistentConnection, TLAPS, FiniteSetTheorems, WellFoundedInduction

(***************************************************************************)
(* Descriptors.  The sockets are finitely many, so that there is a free    *)
(* descriptor; that a new connection takes none that is in use is what     *)
(* keeps it apart from the registered one.                                 *)
(***************************************************************************)
\* A nonempty set of natural numbers has a smallest element.
LEMMA LeastDescriptor ==
    ASSUME NEW S \in SUBSET Nat, S # {}
    PROVE  \E k \in S : \A j \in S : k <= j
<1> DEFINE T == {0 .. k : k \in S}
           R == StrictSubsetOrdering(Nat)
<1>1. T \subseteq FiniteSubsetsOf(Nat) /\ T # {}
  <2>1. \A k \in S : 0 .. k \subseteq Nat /\ IsFiniteSet(0 .. k)
    BY FS_Interval
  <2> QED BY <2>1 DEF FiniteSubsetsOf
<1>2. IsWellFoundedOn(R, FiniteSubsetsOf(Nat))
  BY FS_StrictSubsetOrderingWellFounded
<1>3. PICK t \in T : \A u \in T : ~(<<u, t>> \in R)
  <2> HIDE DEF T, R
  <2> QED BY <1>1, <1>2, WFMin
<1>4. PICK k \in S : t = 0 .. k
  BY <1>3
<1>5. ASSUME NEW j \in S, j < k PROVE FALSE
  <2>1. 0 .. j \in SUBSET Nat /\ 0 .. k \in SUBSET Nat
    OBVIOUS
  <2>2. 0 .. j \subseteq 0 .. k /\ k \in 0 .. k /\ k \notin 0 .. j
    BY <1>5
  <2>3. <<0 .. j, 0 .. k>> \in R
    BY <2>1, <2>2 DEF StrictSubsetOrdering
  <2> QED BY <1>3, <1>4, <2>3
<1> QED BY <1>5

\* FreeDescriptor returns a descriptor that is not in use.
LEMMA Free ==
    ASSUME NEW used, IsFiniteSet(used)
    PROVE  FreeDescriptor(used) \in Nat \ {0} /\ FreeDescriptor(used) \notin used
<1> DEFINE n == Cardinality(used)
           free == {k \in 1 .. n + 1 : k \notin used}
<1>1. n \in Nat
  BY FS_CardinalityType
<1>2. free # {}
  <2> SUFFICES ASSUME free = {} PROVE FALSE
    OBVIOUS
  <2>1. 1 .. n + 1 \subseteq used
    OBVIOUS
  <2>2. Cardinality(1 .. n + 1) <= n
    BY <2>1, FS_Subset
  <2>3. Cardinality(1 .. n + 1) = n + 1
    <3>1. 1 \in Int /\ n + 1 \in Int /\ ~(1 > n + 1) /\ (n + 1) - 1 + 1 = n + 1
      BY <1>1
    <3> HIDE DEF n
    <3> QED BY <3>1, FS_Interval
  <2> HIDE DEF n
  <2> QED BY <1>1, <2>2, <2>3
<1>3. PICK k \in free : \A j \in free : k <= j
  <2>1. free \in SUBSET Nat
    BY <1>1
  <2> HIDE DEF free, n
  <2> QED BY <1>2, <2>1, LeastDescriptor
<1>4. \A j \in 1 .. k - 1 : j \in used
  <2> TAKE j \in 1 .. k - 1
  <2>1. k \in 1 .. n + 1 /\ j \in 1 .. n + 1 /\ ~(k <= j)
    BY <1>1
  <2> QED BY <1>3, <2>1
<1>5. \E m \in 1 .. n + 1 : m \notin used /\ \A j \in 1 .. m - 1 : j \in used
  BY <1>4
<1>6. FreeDescriptor(used) \in 1 .. n + 1 /\ FreeDescriptor(used) \notin used
  <2> HIDE DEF free
  <2> QED BY <1>5 DEF FreeDescriptor
<1> QED BY <1>1, <1>6

-----------------------------------------------------------------------------
(***************************************************************************)
(* Types.                                                                  *)
(***************************************************************************)
Locals == [host : Names, ssl : BOOLEAN, head_only : BOOLEAN, sock : Nat,
           keep_alive : BOOLEAN, auth_finished : BOOLEAN, resp : Pieces]

LEMMA InitialValues ==
    /\ Http09 \in Responses /\ Eof \in Pieces
    /\ NoCall \in Locals
    /\ NoPconn \in [active : BOOLEAN, socket : Nat, host : Names, ssl : BOOLEAN]
    /\ \A n \in Nat, r \in Responses, what \in {"head", "data", "last", "eof"} :
          Piece(what, n, r) \in Pieces
<1>1. Http09 \in Responses
  BY DEF Http09, Responses
<1>2. \A n \in Nat, r \in Responses, what \in {"head", "data", "last", "eof"} :
          Piece(what, n, r) \in Pieces
  BY DEF Piece, Pieces
<1>3. Eof \in Pieces
  BY <1>1, <1>2 DEF Eof
<1>4. NoCall \in Locals
  BY <1>3 DEF NoCall, Locals, NoSock, Names
<1>5. NoPconn \in [active : BOOLEAN, socket : Nat, host : Names, ssl : BOOLEAN]
  BY DEF NoPconn, Names
<1> QED BY <1>1, <1>2, <1>3, <1>4, <1>5

LEMMA StreamType ==
    ASSUME NEW n \in Nat, NEW r \in Responses
    PROVE  Stream(r, n) \in Seq(Pieces)
<1>1. /\ Piece("head", n, r) \in Pieces /\ Piece("data", n, Http09) \in Pieces
      /\ Piece("last", n, Http09) \in Pieces /\ Eof \in Pieces
  BY InitialValues
<1>2. <<Piece("head", n, r)>> \in Seq(Pieces) /\ <<Eof>> \in Seq(Pieces)
      /\ <<Piece("data", n, Http09)>> \in Seq(Pieces)
      /\ <<Piece("data", n, Http09), Piece("last", n, Http09)>> \in Seq(Pieces)
      /\ <<>> \in Seq(Pieces)
  BY <1>1
<1> DEFINE h == <<Piece("head", n, r)>>
           b == IF call.head_only \/ r.status = "empty" THEN <<>>
                ELSE IF r.framing = "chunked"
                THEN <<Piece("data", n, Http09), Piece("last", n, Http09)>>
                ELSE <<Piece("data", n, Http09)>>
           e == IF r.close \/ r.framing = "eof" THEN <<Eof>> ELSE <<>>
<1>3. h \in Seq(Pieces) /\ b \in Seq(Pieces) /\ e \in Seq(Pieces)
  BY <1>2
<1>4. Stream(r, n) = (h \o b) \o e
  BY DEF Stream
<1> HIDE DEF h, b, e
<1> QED BY <1>3, <1>4

\* What a step leaves alone that only sends, delivers or reads.
Alike(new) ==
    /\ new \in [DOMAIN conns -> Connections]
    /\ \A k \in DOMAIN conns :
          /\ new[k].arrived <= Len(new[k].stream)
          /\ new[k].host = conns[k].host /\ new[k].addr = conns[k].addr
          /\ new[k].tls = conns[k].tls /\ new[k].refused = conns[k].refused

LEMMA SocketType ==
    ASSUME TypeOK, NEW k \in DOMAIN conns
    PROVE  /\ conns[k] \in Connections
           /\ conns[k].stream \in Seq(Pieces)
           /\ conns[k].arrived \in Nat /\ conns[k].asked \in Nat
           /\ conns[k].arrived <= Len(conns[k].stream)
<1>1. conns[k] \in Connections
  BY DEF TypeOK
<1>2. conns[k].arrived <= Len(conns[k].stream)
  BY DEF TypeOK
<1> QED BY <1>1, <1>2 DEF Connections

LEMMA Updated ==
    ASSUME TypeOK, NEW k \in DOMAIN conns, NEW c,
           c \in Connections, c.arrived <= Len(c.stream),
           c.host = conns[k].host, c.addr = conns[k].addr,
           c.tls = conns[k].tls, c.refused = conns[k].refused
    PROVE  Alike([conns EXCEPT ![k] = c])
<1>1. \A j \in DOMAIN conns : conns[j] \in Connections
                              /\ conns[j].arrived <= Len(conns[j].stream)
  BY SocketType
<1> DEFINE new == [conns EXCEPT ![k] = c]
<1>2. DOMAIN new = DOMAIN conns
  OBVIOUS
<1>3. \A j \in DOMAIN conns : new[j] = IF j = k THEN c ELSE conns[j]
  OBVIOUS
<1>4. new \in [DOMAIN conns -> Connections]
  BY <1>1, <1>3
<1> HIDE DEF new
<1> QED BY <1>1, <1>3, <1>4 DEF Alike

LEMMA SelfAlike == TypeOK => Alike(conns)
<1> SUFFICES ASSUME TypeOK PROVE Alike(conns)
  OBVIOUS
<1>1. conns \in [DOMAIN conns -> Connections]
  BY DEF TypeOK
<1> QED BY <1>1, SocketType DEF Alike

LEMMA TakenAlike ==
    ASSUME TypeOK, call.sock \in DOMAIN conns, Waiting # "nothing"
    PROVE  Alike(Taken) /\ Head(conns[call.sock].stream) \in Pieces
<1> DEFINE k == call.sock
           s == Tail(conns[k].stream)
           a == conns[k].arrived - 1
           c == [conns[k] EXCEPT !.stream = s, !.arrived = a]
<1>1. conns[k] \in Connections /\ conns[k].stream \in Seq(Pieces)
      /\ conns[k].arrived \in Nat /\ conns[k].arrived <= Len(conns[k].stream)
      /\ conns[k].arrived > 0
  BY SocketType DEF Waiting
<1>2. /\ s \in Seq(Pieces) /\ Len(s) = Len(conns[k].stream) - 1
      /\ Head(conns[k].stream) \in Pieces /\ a \in Nat /\ a <= Len(s)
  BY <1>1
<1>5. Taken = [conns EXCEPT ![k] = c]
  BY DEF Taken
<1> HIDE DEF s, a, k
<1>3. /\ c \in Connections /\ c.arrived = a /\ c.stream = s
      /\ c.host = conns[k].host /\ c.addr = conns[k].addr
      /\ c.tls = conns[k].tls /\ c.refused = conns[k].refused
  BY <1>1, <1>2 DEF Connections
<1>4. c.arrived <= Len(c.stream)
  BY <1>2, <1>3
<1> HIDE DEF c
<1>6. Alike([conns EXCEPT ![k] = c])
  BY <1>3, <1>4, Updated DEF k
<1> QED BY <1>2, <1>5, <1>6 DEF k

LEMMA DeliverAlike == TypeOK /\ Deliver => Alike(conns')
<1> SUFFICES ASSUME TypeOK, NEW k \in DOMAIN conns,
                    conns[k].arrived < Len(conns[k].stream),
                    conns' = [conns EXCEPT ![k].arrived =
                                 IF opt.late THEN @ + 1
                                 ELSE Len(conns[k].stream)]
             PROVE  Alike(conns')
  BY DEF Deliver
<1> DEFINE a == IF opt.late THEN conns[k].arrived + 1 ELSE Len(conns[k].stream)
           c == [conns[k] EXCEPT !.arrived = a]
<1>1. conns[k] \in Connections /\ conns[k].stream \in Seq(Pieces)
      /\ conns[k].arrived \in Nat
  BY SocketType
<1>2. a \in Nat /\ a <= Len(conns[k].stream)
  BY <1>1
<1>3. conns' = [conns EXCEPT ![k] = c]
  OBVIOUS
<1> HIDE DEF a
<1>4. /\ c \in Connections /\ c.arrived = a
      /\ c.stream = conns[k].stream
      /\ c.host = conns[k].host /\ c.addr = conns[k].addr
      /\ c.tls = conns[k].tls /\ c.refused = conns[k].refused
  BY <1>1, <1>2 DEF Connections
<1> HIDE DEF c
<1>5. Alike([conns EXCEPT ![k] = c])
  BY <1>2, <1>4, Updated
<1> QED BY <1>3, <1>5

LEMMA ServerClosesAlike == TypeOK /\ ServerCloses => Alike(conns')
<1> SUFFICES ASSUME TypeOK, NEW k \in DOMAIN conns,
                    conns' = [conns EXCEPT ![k].stream =
                        SubSeq(conns[k].stream, 1, conns[k].arrived) \o <<Eof>>]
             PROVE  Alike(conns')
  BY DEF ServerCloses
<1> DEFINE s == SubSeq(conns[k].stream, 1, conns[k].arrived) \o <<Eof>>
           c == [conns[k] EXCEPT !.stream = s]
<1>1. conns[k] \in Connections /\ conns[k].stream \in Seq(Pieces)
      /\ conns[k].arrived \in Nat /\ conns[k].arrived <= Len(conns[k].stream)
  BY SocketType
<1>2. SubSeq(conns[k].stream, 1, conns[k].arrived) \in Seq(Pieces)
      /\ Len(SubSeq(conns[k].stream, 1, conns[k].arrived)) = conns[k].arrived
  BY <1>1
<1>3. s \in Seq(Pieces) /\ conns[k].arrived <= Len(s)
  BY <1>1, <1>2, InitialValues
<1>4. conns' = [conns EXCEPT ![k] = c]
  OBVIOUS
<1> HIDE DEF s
<1>5. /\ c \in Connections /\ c.arrived = conns[k].arrived
      /\ c.stream = s
      /\ c.host = conns[k].host /\ c.addr = conns[k].addr
      /\ c.tls = conns[k].tls /\ c.refused = conns[k].refused
  BY <1>1, <1>3 DEF Connections
<1> HIDE DEF c
<1>6. Alike([conns EXCEPT ![k] = c])
  BY <1>3, <1>5, Updated
<1> QED BY <1>4, <1>6

LEMMA SendAlike == TypeOK /\ Send => Alike(conns')
<1> SUFFICES ASSUME TypeOK, pc = "send", NEW r \in Answers,
                    conns' = [conns EXCEPT
                        ![call.sock].asked = conns[call.sock].asked + 1,
                        ![call.sock].stream =
                            IF Closing(conns[call.sock]) THEN @
                            ELSE @ \o Stream(r, conns[call.sock].asked + 1)]
             PROVE  Alike(conns')
  BY DEF Send
<1> DEFINE k == call.sock
           n == conns[k].asked + 1
           s == IF Closing(conns[k]) THEN conns[k].stream
                ELSE conns[k].stream \o Stream(r, n)
           c == [conns[k] EXCEPT !.asked = n, !.stream = s]
<1>0. k \in DOMAIN conns
  BY DEF TypeOK, Holding
<1>1. conns[k] \in Connections /\ conns[k].stream \in Seq(Pieces)
      /\ conns[k].arrived \in Nat /\ conns[k].arrived <= Len(conns[k].stream)
      /\ conns[k].asked \in Nat
  BY <1>0, SocketType
<1>2. Stream(r, n) \in Seq(Pieces) /\ n \in Nat
  <2>1. n \in Nat
    BY <1>1
  <2>2. r \in Responses
    BY DEF Answers
  <2> HIDE DEF n
  <2> QED BY <2>1, <2>2, StreamType
<1>3. s \in Seq(Pieces) /\ conns[k].arrived <= Len(s)
  <2>1. \A t \in Seq(Pieces) : /\ conns[k].stream \o t \in Seq(Pieces)
                               /\ conns[k].arrived <= Len(conns[k].stream \o t)
    <3> TAKE t \in Seq(Pieces)
    <3> HIDE DEF n, k, s
    <3>1. /\ conns[k].stream \o t \in Seq(Pieces)
          /\ Len(conns[k].stream \o t) = Len(conns[k].stream) + Len(t)
          /\ Len(conns[k].stream) \in Nat /\ Len(t) \in Nat
      BY <1>1
    <3> QED BY <1>1, <3>1
  <2> HIDE DEF n
  <2> QED BY <1>1, <1>2, <2>1
<1>4. conns' = [conns EXCEPT ![k] = c]
  BY <1>0
<1> HIDE DEF s, n, k
<1>5. /\ c \in Connections /\ c.arrived = conns[k].arrived
      /\ c.stream = s
      /\ c.host = conns[k].host /\ c.addr = conns[k].addr
      /\ c.tls = conns[k].tls /\ c.refused = conns[k].refused
  BY <1>1, <1>2, <1>3 DEF Connections
<1> HIDE DEF c
<1>6. Alike([conns EXCEPT ![k] = c])
  BY <1>0, <1>3, <1>5, Updated DEF k
<1> QED BY <1>4, <1>6

-----------------------------------------------------------------------------
(***************************************************************************)
(* The inductive invariant.                                                *)
(***************************************************************************)
PconnType == [active : BOOLEAN, socket : Nat, host : Names, ssl : BOOLEAN]

Sockets(c) ==
    /\ c \in [DOMAIN c -> Connections]
    /\ DOMAIN c \subseteq Nat \ {0} /\ IsFiniteSet(DOMAIN c)
    /\ \A k \in DOMAIN c : c[k].arrived <= Len(c[k].stream)

Pcs == Holding \cup {"idle", "establish", "challenged"}

Control ==
    /\ opt \in Cases
    /\ pconn \in PconnType
    /\ pc \in Pcs
    /\ call \in Locals
    /\ pc \in Holding => call.sock \in DOMAIN conns
    /\ calls \in 0 .. Calls

\* The socket in use leads to where the call wants to go.
Held ==
    pc \in Holding =>
        /\ conns[call.sock].tls = call.ssl
        /\ IF call.ssl THEN conns[call.sock].host = call.host
           ELSE conns[call.sock].addr = opt.addresses[Relevant]

\* Without TLS nothing stands between wget and the address of the host.
Direct ==
    \A k \in DOMAIN conns :
        ~conns[k].tls => conns[k].addr = opt.addresses[conns[k].host]

\* Once there is a response, keep_alive says that the socket is registered.
Answered == {"answer", "skip", "body", "finish"}
Kept == pc \in Answered /\ call.keep_alive => Registered(call.sock)

\* Whoever holds a socket knows of it.
Known ==
    ~opt.names => \A k \in DOMAIN conns :
        Registered(k) \/ conns[k].refused \/ (pc \in Holding /\ k = call.sock)

Inv == Control /\ Sockets(conns) /\ PconnValid /\ Held /\ Direct /\ Kept /\ Known

LEMMA InvType == Inv => TypeOK
BY DEF Inv, Control, Sockets, TypeOK, Locals, PconnType, Pcs

LEMMA WithoutIs ==
    ASSUME NEW c, NEW k
    PROVE  /\ DOMAIN Without(c, k) = DOMAIN c \ {k}
           /\ \A j \in DOMAIN c \ {k} : Without(c, k)[j] = c[j]
           /\ Sockets(c) => Sockets(Without(c, k))
<1>1. Without(c, k) = [j \in DOMAIN c \ {k} |-> c[j]]
  BY DEF Without, Restrict
<1>2. ASSUME Sockets(c) PROVE Sockets(Without(c, k))
  <2> DEFINE w == [j \in DOMAIN c \ {k} |-> c[j]]
  <2>1. IsFiniteSet(DOMAIN c \ {k}) /\ DOMAIN c \ {k} \subseteq Nat \ {0}
    BY <1>2, FS_Subset DEF Sockets
  <2>2. \A j \in DOMAIN c : c[j] \in Connections /\ c[j].arrived <= Len(c[j].stream)
    BY <1>2 DEF Sockets
  <2>3. DOMAIN w = DOMAIN c \ {k} /\ \A j \in DOMAIN c \ {k} : w[j] = c[j]
    OBVIOUS
  <2>4. w \in [DOMAIN c \ {k} -> Connections]
    BY <2>2
  <2> HIDE DEF w
  <2>5. Sockets(w)
    BY <2>1, <2>2, <2>3, <2>4 DEF Sockets
  <2> QED BY <1>1, <2>5 DEF w
<1> QED BY <1>1, <1>2

LEMMA AlikeIs ==
    ASSUME Inv, NEW new, Alike(new)
    PROVE  DOMAIN new = DOMAIN conns /\ Sockets(new)
<1>1. DOMAIN new = DOMAIN conns
  BY DEF Alike
<1> QED BY <1>1 DEF Inv, Sockets, Alike

LEMMA InvInit == Init => Inv
<1> SUFFICES ASSUME Init PROVE Inv
  OBVIOUS
<1>1. DOMAIN conns = {} /\ conns \in [DOMAIN conns -> Connections]
  BY DEF Init
<1>2. Sockets(conns)
  BY <1>1, FS_EmptySet DEF Sockets
<1>3. Control
  BY InitialValues, ConnectionAssumption
     DEF Init, Control, PconnType, Pcs, Holding
<1>4. PconnValid /\ Held /\ Direct /\ Kept /\ Known
  BY <1>1 DEF Init, PconnValid, NoPconn, Held, Direct, Kept, Known, Holding,
              Answered
<1> QED BY <1>2, <1>3, <1>4 DEF Inv

\* The environment only moves pieces.
LEMMA InvAlike ==
    ASSUME Inv, Alike(conns'), UNCHANGED <<opt, pconn, pc, call, calls>>
    PROVE  Inv'
<1>1. DOMAIN conns' = DOMAIN conns /\ Sockets(conns')
  BY AlikeIs
<1>2. \A k \in DOMAIN conns :
        /\ conns'[k].host = conns[k].host /\ conns'[k].addr = conns[k].addr
        /\ conns'[k].tls = conns[k].tls /\ conns'[k].refused = conns[k].refused
  BY DEF Alike
<1>3. Control'
  BY <1>1 DEF Inv, Control
<1>4. PconnValid'
  BY <1>1, <1>2 DEF Inv, PconnValid
<1>5. Held'
  BY <1>1, <1>2 DEF Inv, Control, Held, Relevant
<1>6. Direct'
  BY <1>1, <1>2 DEF Inv, Direct
<1>7. Kept' /\ Known'
  BY <1>1, <1>2 DEF Inv, Kept, Known, Registered
<1> QED BY <1>1, <1>3, <1>4, <1>5, <1>6, <1>7 DEF Inv

\* gethttp goes on with the same socket.
LEMMA InvOnwards ==
    ASSUME Inv, pc \in Holding, NEW to \in Holding, Alike(conns'),
           to \in Answered => pc \in Answered,
           Go(to, call), UNCHANGED pconn
    PROVE  Inv'
<1>0. pc' = to /\ call' = call /\ opt' = opt /\ calls' = calls /\ pconn' = pconn
  BY DEF Go, Holding
<1>1. DOMAIN conns' = DOMAIN conns /\ Sockets(conns')
  BY AlikeIs
<1>2. \A k \in DOMAIN conns :
        /\ conns'[k].host = conns[k].host /\ conns'[k].addr = conns[k].addr
        /\ conns'[k].tls = conns[k].tls /\ conns'[k].refused = conns[k].refused
  BY DEF Alike
<1>3. Control'
  BY <1>0, <1>1 DEF Inv, Control, Pcs
<1>4. PconnValid'
  BY <1>0, <1>1, <1>2 DEF Inv, PconnValid
<1>5. Held'
  BY <1>0, <1>1, <1>2 DEF Inv, Control, Held, Relevant
<1>6. Direct'
  BY <1>0, <1>1, <1>2 DEF Inv, Direct
<1>7. Kept' /\ Known'
  BY <1>0, <1>1, <1>2 DEF Inv, Kept, Known, Registered
<1> QED BY <1>1, <1>3, <1>4, <1>5, <1>6, <1>7 DEF Inv

\* gethttp returns, or starts over, without the socket.
LEMMA InvInvalidate ==
    ASSUME Inv, pc \in Holding, NEW to \in {"idle", "challenged"},
           CLOSE_INVALIDATE(to)
    PROVE  Inv'
<1> DEFINE k == call.sock
<1>0. /\ pc' = to /\ opt' = opt /\ calls' = calls /\ call' \in Locals
      /\ conns' = Without(conns, k)
      /\ pconn' = IF Registered(k) THEN NoPconn ELSE pconn
  <2>1. NoCall \in Locals /\ [call EXCEPT !.sock = NoSock] \in Locals
    BY InitialValues DEF Inv, Control, Locals, NoSock
  <2> QED BY <2>1 DEF CLOSE_INVALIDATE, Go
<1>1. /\ DOMAIN conns' = DOMAIN conns \ {k} /\ Sockets(conns')
      /\ \A j \in DOMAIN conns \ {k} : conns'[j] = conns[j]
  BY <1>0, WithoutIs DEF Inv
<1>2. pc' \notin Holding /\ pc' \notin Answered /\ pc' \in Pcs
  BY <1>0 DEF Holding, Answered, Pcs
<1>3. Control'
  BY <1>0, <1>2, InitialValues DEF Inv, Control, PconnType
<1>4. PconnValid'
  BY <1>0, <1>1 DEF Inv, PconnValid, Registered, NoPconn
<1>5. Held' /\ Kept'
  BY <1>2 DEF Held, Kept
<1>6. Direct'
  BY <1>0, <1>1 DEF Inv, Direct
<1>7. Known'
  BY <1>0, <1>1, <1>2 DEF Inv, Known, Registered
<1> QED BY <1>1, <1>3, <1>4, <1>5, <1>6, <1>7 DEF Inv

\* gethttp returns, or starts over, and leaves the socket to pconn if it may.
LEMMA InvFinish ==
    ASSUME Inv, pc \in Answered, NEW to \in {"idle", "challenged"},
           CLOSE_FINISH(to)
    PROVE  Inv'
<1>1. CASE ~call.keep_alive
  <2>1. CLOSE_INVALIDATE(to) /\ pc \in Holding
    BY <1>1 DEF CLOSE_FINISH, Answered, Holding
  <2> QED BY <2>1, InvInvalidate
<1>2. CASE call.keep_alive
  <2>0. /\ pc' = to /\ opt' = opt /\ calls' = calls /\ conns' = conns
        /\ pconn' = pconn /\ call' \in Locals
    BY <1>2, InitialValues DEF CLOSE_FINISH, Go, Inv, Control
  <2>1. Registered(call.sock)
    BY <1>2 DEF Inv, Kept
  <2>2. pc' \notin Holding /\ pc' \notin Answered /\ pc' \in Pcs
    BY <2>0 DEF Holding, Answered, Pcs
  <2>3. Control' /\ Sockets(conns')
    BY <2>0, <2>2 DEF Inv, Control
  <2>4. PconnValid' /\ Direct'
    BY <2>0 DEF Inv, PconnValid, Direct
  <2>5. Held' /\ Kept'
    BY <2>2 DEF Held, Kept
  <2>6. Known'
    BY <2>0, <2>1 DEF Inv, Known, Registered
  <2> QED BY <2>3, <2>4, <2>5, <2>6 DEF Inv
<1> QED BY <1>1, <1>2

\* A call that holds no socket: it enters, starts over, or returns.
LEMMA InvFree ==
    ASSUME Inv, pc' \in {"idle", "establish", "challenged"},
           UNCHANGED <<opt, conns, pconn>>, call' \in Locals,
           calls' \in 0 .. Calls,
           pc \in Holding => opt.names \/ Registered(call.sock)
    PROVE  Inv'
<1>1. pc' \notin Holding /\ pc' \notin Answered /\ pc' \in Pcs
  BY DEF Holding, Answered, Pcs
<1>2. Control' /\ Sockets(conns') /\ PconnValid' /\ Direct'
  BY <1>1 DEF Inv, Control, PconnValid, Direct
<1>3. Held' /\ Kept'
  BY <1>1 DEF Held, Kept
<1>4. Known'
  BY <1>1 DEF Inv, Known, Registered
<1> QED BY <1>2, <1>3, <1>4 DEF Inv

LEMMA InvGethttp == Inv /\ Gethttp => Inv'
<1> SUFFICES ASSUME Inv, Gethttp PROVE Inv'
  OBVIOUS
<1>1. call' \in Locals
  <2>1. PICK h \in Hosts, ssl \in BOOLEAN, head_only \in BOOLEAN :
            call' = [NoCall EXCEPT !.host = h, !.ssl = ssl,
                                   !.head_only = head_only,
                                   !.keep_alive = opt.keep_alive]
    BY DEF Gethttp
  <2>2. opt.keep_alive \in BOOLEAN /\ h \in Names
    BY ConnectionAssumption DEF Inv, Control, Names
  <2>3. NoCall \in Locals
    BY InitialValues
  <2> QED BY <2>1, <2>2, <2>3 DEF Locals
<1>2. calls' \in 0 .. Calls
  BY ConnectionAssumption DEF Gethttp, Inv, Control
<1> QED BY <1>1, <1>2, InvFree DEF Gethttp, Holding

LEMMA InvReuse == Inv /\ Reuse => Inv'
<1> SUFFICES ASSUME Inv, Reuse PROVE Inv'
  OBVIOUS
<1>1. /\ pc' = "send" /\ call' = [call EXCEPT !.sock = pconn.socket]
      /\ UNCHANGED <<opt, calls, conns, pconn>>
  BY DEF Reuse, Go
<1>2. /\ call' \in Locals /\ call'.sock = pconn.socket
      /\ call'.host = call.host /\ call'.ssl = call.ssl
  BY <1>1 DEF Inv, Control, Locals, PconnType
<1>3. pconn.active /\ pconn.ssl = call.ssl /\ pconn.socket \in DOMAIN conns
  BY DEF Reuse, persistent_available_p, Inv, PconnValid
<1>4. Control' /\ Sockets(conns') /\ PconnValid' /\ Direct'
  BY <1>1, <1>2, <1>3 DEF Inv, Control, PconnValid, Direct, Pcs, Holding
<1>5. Held'
  <2>1. conns[pconn.socket].host = pconn.host /\ conns[pconn.socket].tls = call.ssl
    BY <1>3 DEF Inv, PconnValid
  <2>2. CASE call.ssl
    BY <1>1, <1>2, <1>3, <2>1, <2>2
       DEF Reuse, persistent_available_p, Relevant, Held
  <2>3. CASE ~call.ssl
    <3>1. conns[pconn.socket].addr = opt.addresses[conns[pconn.socket].host]
      BY <1>3, <2>1, <2>3 DEF Inv, Direct
    <3>2. conns[pconn.socket].addr = opt.addresses[Relevant]
      BY <2>1, <3>1 DEF Reuse, persistent_available_p
    <3>3. Relevant' = Relevant
      BY <1>1, <1>2 DEF Relevant
    <3> QED BY <1>1, <1>2, <2>1, <2>3, <3>2, <3>3 DEF Held
  <2> QED BY <2>2, <2>3
<1>6. Kept'
  BY <1>1 DEF Kept, Answered
<1>7. Known'
  BY <1>1, <1>2 DEF Inv, Known, Registered, Reuse, Holding
<1> QED BY <1>4, <1>5, <1>6, <1>7 DEF Inv

\* register_persistent keeps pconn valid, and leaves no socket behind.
LEMMA InvReadHead == Inv /\ ReadHead => Inv'
<1> SUFFICES ASSUME Inv, ReadHead PROVE Inv'
  OBVIOUS
<1> DEFINE k == call.sock
           first == Head(conns[k].stream)
           r == IF Waiting = "head" THEN first.resp ELSE Http09
           alive == call.keep_alive /\ ~r.close
           read == IF Waiting = "head" THEN Taken ELSE conns
           l == [call EXCEPT !.resp = [first EXCEPT !.resp = r],
                             !.keep_alive = alive]
<1>1. k \in DOMAIN conns /\ TypeOK /\ Waiting # "nothing"
  BY InvType DEF Inv, Control, ReadHead, Holding
<1>2. Alike(read) /\ first \in Pieces
  BY <1>1, TakenAlike, SelfAlike
<1>3. /\ pc' = "answer" /\ call' = l /\ UNCHANGED <<opt, calls>>
      /\ \/ alive /\ pconn' = register_persistent(k, read).pconn
                  /\ conns' = register_persistent(k, read).conns
         \/ ~alive /\ pconn' = pconn /\ conns' = read
  BY DEF ReadHead, Go
<1>4. DOMAIN read = DOMAIN conns /\ Sockets(read)
  BY <1>2, AlikeIs
<1>5. \A j \in DOMAIN conns :
        /\ read[j].host = conns[j].host /\ read[j].addr = conns[j].addr
        /\ read[j].tls = conns[j].tls /\ read[j].refused = conns[j].refused
  BY <1>2 DEF Alike
<1>6. r \in Responses /\ [first EXCEPT !.resp = r] \in Pieces
  BY <1>2, InitialValues DEF Pieces
<1>7. alive \in BOOLEAN
  BY <1>6 DEF Inv, Control, Locals, Responses
<1>8. /\ l \in Locals /\ l.sock = k /\ l.host = call.host /\ l.ssl = call.ssl
      /\ l.keep_alive = alive
  <2> HIDE DEF first, r, alive, k
  <2>1. call.sock = k
    BY DEF k
  <2> QED BY <1>6, <1>7, <2>1 DEF Inv, Control, Locals
<1>9. /\ conns[k].tls = call.ssl /\ conns[k].host \in Names
      /\ conns[k].tls \in BOOLEAN /\ k \in Nat
  BY <1>1 DEF Inv, Sockets, Connections, Held, ReadHead, Holding
<1> HIDE DEF read, alive, l, r, first
\* The sockets that stay open, and what pconn says of them.
<1>10. ASSUME alive
       PROVE  /\ pconn'.active /\ pconn'.socket = k /\ pconn' \in PconnType
              /\ DOMAIN conns' = {j \in DOMAIN conns : Registered(j) => j = k}
              /\ \A j \in DOMAIN conns' : conns'[j] = read[j]
              /\ Sockets(conns') /\ PconnValid'
  <2>1. CASE Registered(k)
    <3>1. pconn' = pconn /\ conns' = read
      BY <1>3, <1>10, <2>1 DEF register_persistent
    <3>2. DOMAIN conns' = {j \in DOMAIN conns : Registered(j) => j = k}
      BY <1>4, <2>1, <3>1 DEF Registered
    <3>3. PconnValid'
      BY <1>4, <1>5, <3>1 DEF Inv, PconnValid
    <3> QED BY <1>4, <2>1, <3>1, <3>2, <3>3 DEF Inv, Control, Registered
  <2>2. CASE ~Registered(k)
    <3> DEFINE p == [active |-> TRUE, socket |-> k, host |-> conns[k].host,
                     ssl |-> conns[k].tls]
               o == Without(read, pconn.socket)
    <3>1. pconn' = p /\ conns' = IF pconn.active THEN o ELSE read
      BY <1>3, <1>10, <2>2 DEF register_persistent
    <3>2. p \in PconnType /\ p.active /\ p.socket = k
          /\ p.host = conns[k].host /\ p.ssl = conns[k].tls
      BY <1>9 DEF PconnType
    <3>3. /\ DOMAIN o = DOMAIN conns \ {pconn.socket} /\ Sockets(o)
          /\ \A j \in DOMAIN o : o[j] = read[j]
      BY <1>4, WithoutIs
    <3> HIDE DEF o, p
    <3>4. CASE pconn.active
      <4>1. DOMAIN conns' = {j \in DOMAIN conns : Registered(j) => j = k}
        BY <2>2, <3>1, <3>3, <3>4 DEF Registered
      <4> QED BY <1>1, <1>5, <2>2, <3>1, <3>2, <3>3, <3>4, <4>1
              DEF PconnValid, Registered
    <3>5. CASE ~pconn.active
      <4>1. DOMAIN conns' = {j \in DOMAIN conns : Registered(j) => j = k}
        BY <1>4, <3>1, <3>5 DEF Registered
      <4> QED BY <1>1, <1>4, <1>5, <3>1, <3>2, <3>5, <4>1 DEF PconnValid
    <3> QED BY <3>4, <3>5
  <2> QED BY <2>1, <2>2
<1>11. ASSUME ~alive
       PROVE  /\ pconn' = pconn /\ conns' = read
              /\ Sockets(conns') /\ PconnValid'
  BY <1>3, <1>4, <1>5, <1>11 DEF Inv, PconnValid
<1>12. Sockets(conns') /\ PconnValid' /\ pconn' \in PconnType
  BY <1>10, <1>11 DEF Inv, Control
<1>13. /\ DOMAIN conns' \subseteq DOMAIN conns /\ k \in DOMAIN conns'
       /\ \A j \in DOMAIN conns' : conns'[j] = read[j]
  BY <1>1, <1>4, <1>10, <1>11
<1>14. Control'
  BY <1>3, <1>8, <1>12, <1>13 DEF Inv, Control, Pcs, Holding
<1>15. Held'
  <2>1. pc \in Holding /\ Relevant' = Relevant
    BY <1>3, <1>8 DEF ReadHead, Holding, Relevant
  <2>2. /\ conns'[k].tls = conns[k].tls /\ conns'[k].host = conns[k].host
        /\ conns'[k].addr = conns[k].addr
    BY <1>1, <1>5, <1>13
  <2>3. call'.sock = k /\ call'.host = call.host /\ call'.ssl = call.ssl
    BY <1>3, <1>8
  <2> QED BY <1>3, <2>1, <2>2, <2>3 DEF Inv, Held
<1>16. Direct'
  BY <1>3, <1>5, <1>13 DEF Inv, Direct
<1>17. Kept'
  <2>1. call'.sock = k /\ call'.keep_alive = alive
    BY <1>3, <1>8
  <2> QED BY <1>10, <2>1 DEF Kept, Registered
<1>18. Known'
  <2> SUFFICES ASSUME ~opt.names, NEW j \in DOMAIN conns', j # k
               PROVE  (pconn'.active /\ j = pconn'.socket) \/ conns'[j].refused
    <3>1. pc' \in Holding /\ call'.sock = k /\ opt' = opt
      BY <1>3, <1>8 DEF Holding
    <3> QED BY <3>1 DEF Known, Registered
  <2>1. Registered(j) \/ conns[j].refused
    BY <1>13 DEF Inv, Known
  <2>2. conns'[j].refused = conns[j].refused
    BY <1>5, <1>13
  <2>3. Registered(j) => ~alive
    BY <1>10, <1>13
  <2> QED BY <1>11, <2>1, <2>2, <2>3 DEF Registered
<1> QED BY <1>12, <1>14, <1>15, <1>16, <1>17, <1>18 DEF Inv

\* A new connection takes a free descriptor and leads to the host.
LEMMA InvConnect == Inv /\ Connect => Inv'
<1> SUFFICES ASSUME Inv, Connect PROVE Inv'
  OBVIOUS
<1> DEFINE stale == opt.keep_alive /\ persistent_available_p
           kept == IF stale THEN Without(conns, pconn.socket) ELSE conns
           fd == FreeDescriptor(DOMAIN kept)
           to == IF opt.proxy THEN Proxy ELSE call.host
           opened(refused) ==
              [host |-> Relevant, addr |-> opt.addresses[to], tls |-> call.ssl,
               refused |-> refused, stream |-> <<>>, arrived |-> 0, asked |-> 0]
           new(refused) == [k \in DOMAIN kept \cup {fd} |->
                              IF k # fd THEN kept[k] ELSE opened(refused)]
<1>1. /\ pc = "establish" /\ opt' = opt /\ calls' = calls
      /\ pconn' = IF stale THEN NoPconn ELSE pconn
      /\ \/ conns' = new(FALSE) /\ Go("send", [call EXCEPT !.sock = fd])
         \/ conns' = kept /\ Go("idle", call)
         \/ opt.proxy /\ call.ssl /\ conns' = new(TRUE) /\ Go("idle", call)
  BY Zenon DEF Connect, Go
<1>2. /\ DOMAIN kept \subseteq DOMAIN conns /\ Sockets(kept)
      /\ \A k \in DOMAIN kept : kept[k] = conns[k]
      /\ \A k \in DOMAIN conns :
            k \in DOMAIN kept <=> ~(stale /\ k = pconn.socket)
  <2> DEFINE w == Without(conns, pconn.socket)
  <2>1. Sockets(conns)
    BY DEF Inv
  <2>2. /\ DOMAIN w = DOMAIN conns \ {pconn.socket} /\ Sockets(w)
        /\ \A k \in DOMAIN conns \ {pconn.socket} : w[k] = conns[k]
    BY <2>1, WithoutIs
  <2>3. kept = IF stale THEN w ELSE conns
    OBVIOUS
  <2> HIDE DEF w, stale, kept
  <2> QED BY <2>1, <2>2, <2>3
<1>3. stale => pconn.active
  BY DEF persistent_available_p
<1> HIDE DEF stale, kept
\* What is kept is as good as what was there.
<1>4. /\ pconn' \in PconnType
      /\ pconn'.active => /\ pconn'.socket \in DOMAIN kept
                          /\ kept[pconn'.socket].host = pconn'.host
                          /\ kept[pconn'.socket].tls = pconn'.ssl
      /\ ~opt.names => \A k \in DOMAIN kept :
            (pconn'.active /\ k = pconn'.socket) \/ kept[k].refused
      /\ \A k \in DOMAIN kept :
            ~kept[k].tls => kept[k].addr = opt.addresses[kept[k].host]
  <2>1. pconn \in PconnType /\ NoPconn \in PconnType /\ ~NoPconn.active
    BY InitialValues DEF Inv, Control, PconnType, NoPconn
  <2>2. pconn.active => /\ pconn.socket \in DOMAIN conns
                        /\ conns[pconn.socket].host = pconn.host
                        /\ conns[pconn.socket].tls = pconn.ssl
    BY DEF Inv, PconnValid
  <2>3. ~opt.names => \A k \in DOMAIN conns :
            (pconn.active /\ k = pconn.socket) \/ conns[k].refused
    BY <1>1 DEF Inv, Known, Registered, Holding
  <2>4. \A k \in DOMAIN conns :
            ~conns[k].tls => conns[k].addr = opt.addresses[conns[k].host]
    BY DEF Inv, Direct
  <2>5. CASE stale
    BY <1>1, <1>2, <1>3, <2>1, <2>3, <2>4, <2>5
  <2>6. CASE ~stale
    BY <1>1, <1>2, <2>1, <2>2, <2>3, <2>4, <2>6
  <2> QED BY <2>5, <2>6
<1>5. fd \in Nat \ {0} /\ fd \notin DOMAIN kept
  BY <1>2, Free DEF Sockets
<1>6. \A refused \in BOOLEAN :
        /\ opened(refused) \in Connections
        /\ opened(refused).arrived <= Len(opened(refused).stream)
  <2>1. to \in Names /\ Relevant \in Names
    BY DEF Inv, Control, Locals, Names, Relevant
  <2>2. opt.addresses[to] \in UNION {Range(c.addresses) : c \in Cases}
    <3>1. opt \in Cases /\ DOMAIN opt.addresses = Names
      BY ConnectionAssumption DEF Inv, Control, Names
    <3>2. opt.addresses[to] \in Range(opt.addresses)
      BY <2>1, <3>1 DEF Range
    <3> QED BY <3>1, <3>2
  <2>3. call.ssl \in BOOLEAN
    BY DEF Inv, Control, Locals
  <2> HIDE DEF to
  <2>4. <<>> \in Seq(Pieces) /\ Len(<<>>) = 0
    OBVIOUS
  <2> QED BY <2>1, <2>2, <2>3, <2>4 DEF Connections
<1>7. \A refused \in BOOLEAN :
        /\ DOMAIN new(refused) = DOMAIN kept \cup {fd}
        /\ new(refused)[fd] = opened(refused)
        /\ \A k \in DOMAIN kept : new(refused)[k] = kept[k]
  BY <1>5
<1>8. \A refused \in BOOLEAN : Sockets(new(refused))
  <2> TAKE refused \in BOOLEAN
  <2>1. IsFiniteSet(DOMAIN kept \cup {fd})
    BY <1>2, FS_AddElement DEF Sockets
  <2>2. DOMAIN kept \cup {fd} \subseteq Nat \ {0}
    BY <1>2, <1>5 DEF Sockets
  <2> DEFINE o == opened(refused)
             w == new(refused)
  <2>3. o \in Connections /\ o.arrived <= Len(o.stream)
    BY <1>6
  <2>4. DOMAIN w = DOMAIN kept \cup {fd} /\ w[fd] = o
        /\ \A k \in DOMAIN kept : w[k] = kept[k]
    BY <1>7
  <2>5. \A k \in DOMAIN kept : kept[k] \in Connections
                              /\ kept[k].arrived <= Len(kept[k].stream)
    BY <1>2 DEF Sockets
  <2>6. w = [k \in DOMAIN w |-> w[k]]
    OBVIOUS
  <2> HIDE DEF o, w, fd
  <2>7. w \in [DOMAIN w -> Connections]
    BY <2>3, <2>4, <2>5, <2>6
  <2>8. \A k \in DOMAIN w : w[k].arrived <= Len(w[k].stream)
    BY <2>3, <2>4, <2>5
  <2>9. Sockets(w)
    BY <2>1, <2>2, <2>4, <2>7, <2>8 DEF Sockets
  <2> QED BY <2>9 DEF w
<1>9. \A refused \in BOOLEAN :
        /\ opened(refused).host = Relevant
        /\ opened(refused).addr = opt.addresses[to]
        /\ opened(refused).tls = call.ssl
        /\ opened(refused).refused = refused
  OBVIOUS
<1>10. /\ call.ssl => Relevant = call.host
       /\ ~call.ssl => Relevant = to
  BY DEF Relevant
<1> HIDE DEF fd, opened, new, to
\* The exits: with the new socket, without one, with the one that was refused.
<1>11. CASE conns' = new(FALSE) /\ Go("send", [call EXCEPT !.sock = fd])
  <2>0. /\ DOMAIN conns' = DOMAIN kept \cup {fd}
        /\ \A k \in DOMAIN kept : conns'[k] = kept[k]
        /\ conns'[fd].host = Relevant /\ conns'[fd].addr = opt.addresses[to]
        /\ conns'[fd].tls = call.ssl /\ conns'[fd].refused = FALSE
    BY <1>7, <1>9, <1>11
  <2>1. /\ pc' = "send" /\ call' \in Locals /\ call'.sock = fd
        /\ call'.host = call.host /\ call'.ssl = call.ssl
    BY <1>5, <1>11 DEF Go, Inv, Control, Locals
  <2>2. Control' /\ Sockets(conns')
    BY <1>1, <1>4, <1>8, <1>11, <2>0, <2>1 DEF Inv, Control, Pcs, Holding
  <2>3. PconnValid'
    BY <1>4, <2>0 DEF PconnValid
  <2>4. Held'
    <3>1. Relevant' = Relevant
      BY <1>1, <2>1 DEF Relevant
    <3> QED BY <1>1, <1>10, <2>0, <2>1, <3>1 DEF Held
  <2>5. Direct'
    BY <1>1, <1>4, <1>10, <2>0 DEF Direct
  <2>6. Kept'
    BY <2>1 DEF Kept, Answered
  <2>7. Known'
    BY <1>1, <1>4, <2>0, <2>1 DEF Known, Registered, Holding
  <2> QED BY <2>2, <2>3, <2>4, <2>5, <2>6, <2>7 DEF Inv
<1>12. CASE conns' = kept /\ Go("idle", call)
  <2>1. pc' = "idle" /\ call' \in Locals
    BY <1>12, InitialValues DEF Go
  <2>2. Control' /\ Sockets(conns')
    BY <1>1, <1>2, <1>4, <1>12, <2>1 DEF Inv, Control, Pcs, Holding
  <2>3. PconnValid' /\ Direct' /\ Known'
    BY <1>1, <1>4, <1>12 DEF PconnValid, Direct, Known, Registered
  <2>4. Held' /\ Kept'
    BY <2>1 DEF Held, Kept, Holding, Answered
  <2> QED BY <2>2, <2>3, <2>4 DEF Inv
<1>13. CASE opt.proxy /\ call.ssl /\ conns' = new(TRUE) /\ Go("idle", call)
  <2>0. /\ DOMAIN conns' = DOMAIN kept \cup {fd}
        /\ \A k \in DOMAIN kept : conns'[k] = kept[k]
        /\ conns'[fd].host = Relevant /\ conns'[fd].addr = opt.addresses[to]
        /\ conns'[fd].tls = call.ssl /\ conns'[fd].refused = TRUE
    BY <1>7, <1>9, <1>13
  <2>1. pc' = "idle" /\ call' \in Locals
    BY <1>13, InitialValues DEF Go
  <2>2. Control' /\ Sockets(conns')
    BY <1>1, <1>4, <1>8, <1>13, <2>1 DEF Inv, Control, Pcs, Holding
  <2>3. PconnValid'
    BY <1>4, <2>0 DEF PconnValid
  <2>4. Direct'
    BY <1>1, <1>4, <1>13, <2>0 DEF Direct
  <2>5. Known'
    BY <1>1, <1>4, <2>0 DEF Known, Registered
  <2>6. Held' /\ Kept'
    BY <2>1 DEF Held, Kept, Holding, Answered
  <2> QED BY <2>2, <2>3, <2>4, <2>5, <2>6 DEF Inv
<1> QED BY <1>1, <1>11, <1>12, <1>13

-----------------------------------------------------------------------------
\* Reading a body, and giving up on it.
LEMMA InvBody ==
    ASSUME Inv, ReadPiece \/ ReadLastPiece \/ BodyEnds \/ BodyFails
    PROVE  Inv'
<1>1. pc \in Answered /\ pc \in Holding
  BY DEF ReadPiece, ReadLastPiece, BodyEnds, BodyFails, Answered, Holding
<1>2. TypeOK /\ call.sock \in DOMAIN conns
  BY <1>1, InvType DEF Inv, Control
<1>3. CASE ReadPiece
  <2>1. Alike(conns')
    BY <1>2, <1>3, TakenAlike DEF ReadPiece
  <2> QED BY <1>1, <1>3, <2>1, InvOnwards DEF ReadPiece
<1>4. CASE ReadLastPiece
  <2>1. Alike(conns')
    BY <1>2, <1>4, TakenAlike DEF ReadLastPiece
  <2>2. "finish" \in Holding
    BY DEF Holding
  <2> QED BY <1>1, <1>4, <2>1, <2>2, InvOnwards DEF ReadLastPiece
<1>5. CASE BodyEnds
  <2>1. Alike(conns')
    BY <1>2, <1>5, SelfAlike DEF BodyEnds
  <2>2. "finish" \in Holding
    BY DEF Holding
  <2> QED BY <1>1, <1>5, <2>1, <2>2, InvOnwards DEF BodyEnds
<1>6. CASE BodyFails
  <2>1. Onwards \in {"idle", "challenged"}
    BY DEF Onwards
  <2>2. PICK to \in {"idle", "challenged"} : CLOSE_INVALIDATE(to)
    BY <1>6, <2>1 DEF BodyFails
  <2> QED BY <1>1, <2>2, InvInvalidate
<1> QED BY <1>3, <1>4, <1>5, <1>6

LEMMA InvNext == Inv /\ [Next]_vars => Inv'
<1> SUFFICES ASSUME Inv, [Next]_vars PROVE Inv'
  OBVIOUS
<1>1. TypeOK
  BY InvType
<1>2. Onwards \in {"idle", "challenged"}
  BY DEF Onwards
<1>3. CASE UNCHANGED vars
  <2>1. Alike(conns')
    BY <1>1, <1>3, SelfAlike DEF vars
  <2> QED BY <1>3, <2>1, InvAlike DEF vars
<1>4. CASE Deliver
  BY <1>1, <1>4, DeliverAlike, InvAlike DEF Deliver
<1>5. CASE ServerCloses
  BY <1>1, <1>5, ServerClosesAlike, InvAlike DEF ServerCloses
<1>6. CASE Send
  <2>1. pc \in Holding /\ "head" \in Holding /\ "head" \notin Answered
    BY <1>6 DEF Send, Holding, Answered
  <2> QED BY <1>1, <1>6, <2>1, SendAlike, InvOnwards DEF Send
<1>7. CASE LookupFails
  <2>1. pc = "establish" /\ pc' = "idle" /\ call' = NoCall
        /\ UNCHANGED <<opt, calls, conns, pconn>>
    BY <1>7 DEF LookupFails, Go
  <2> QED BY <2>1, InitialValues, InvFree DEF Inv, Control, Holding
<1>8. CASE ExchangeFails
  <2>1. pc \in Holding /\ CLOSE_INVALIDATE("idle")
    BY <1>8 DEF ExchangeFails, Holding
  <2> QED BY <2>1, InvInvalidate
<1>9. CASE Bodiless
  <2>1. pc \in Answered /\ CLOSE_FINISH("idle")
    BY <1>9 DEF Bodiless, Answered
  <2> QED BY <2>1, InvFinish
<1>10. CASE NameExists
  <2>1. opt.names /\ pc' = "idle" /\ call' = NoCall
        /\ UNCHANGED <<opt, calls, conns, pconn>>
    BY <1>10 DEF NameExists, Go
  <2> QED BY <2>1, InitialValues, InvFree DEF Inv, Control
<1>11. CASE Abandon
  <2>1. pc \in Holding /\ CLOSE_INVALIDATE(Onwards)
    BY <1>11 DEF Abandon, Holding
  <2> QED BY <1>2, <2>1, InvInvalidate
<1>12. CASE Drain \/ Download
  <2>1. PICK to \in {"body", "skip"} : Go(to, call)
    BY <1>12 DEF Drain, Download
  <2>2. /\ pc \in Answered /\ pc \in Holding /\ to \in Holding
        /\ UNCHANGED <<conns, pconn>>
    BY <1>12 DEF Drain, Download, Answered, Holding
  <2>3. Alike(conns')
    BY <1>1, <2>2, SelfAlike
  <2> QED BY <2>1, <2>2, <2>3, InvOnwards
<1>13. CASE Finish
  <2>1. pc \in Answered /\ CLOSE_FINISH(Onwards)
    BY <1>13 DEF Finish, Answered
  <2> QED BY <1>2, <2>1, InvFinish
<1>14. CASE Challenged
  <2>1. /\ pc = "challenged" /\ pc' \in {"idle", "establish"}
        /\ UNCHANGED <<opt, calls, conns, pconn>>
        /\ call' \in {NoCall, [call EXCEPT !.auth_finished = TRUE,
                                           !.keep_alive = opt.keep_alive]}
    BY <1>14 DEF Challenged, Go
  <2>2. opt.keep_alive \in BOOLEAN /\ call \in Locals /\ calls \in 0 .. Calls
    BY ConnectionAssumption DEF Inv, Control
  <2>3. call' \in Locals
    BY <2>1, <2>2, InitialValues DEF Locals
  <2> QED BY <2>1, <2>2, <2>3, InvFree DEF Holding
<1> QED
  BY <1>3, <1>4, <1>5, <1>6, <1>7, <1>8, <1>9, <1>10, <1>11, <1>12, <1>13,
     <1>14, InvGethttp, InvReuse, InvConnect, InvReadHead, InvBody
     DEF Next, Step

-----------------------------------------------------------------------------
\* Descriptors, streams and locals keep their types, and gethttp always holds
\* an open socket where it uses one.
THEOREM SocketsTyped == Spec => []TypeOK
BY InvInit, InvNext, InvType, PTL DEF Spec

\* pconn describes an open socket and the connection it was registered for,
\* however many calls, closed connections and reused descriptors there were.
THEOREM PconnStaysValid == Spec => []PconnValid
<1>1. Inv => PconnValid
  BY DEF Inv
<1> QED BY <1>1, InvInit, InvNext, PTL DEF Spec

\* No request is sent to a host that does not have the address of the URL's
\* host, and none over a TLS session with another host, for all hosts,
\* addresses (shared or not) and proxies.
THEOREM RequestsReachTheirHost == Spec => []RightPeer
<1>1. Inv => RightPeer
  BY DEF Inv, Held, RightPeer, Holding
<1> QED BY <1>1, InvInit, InvNext, PTL DEF Spec

\* Every exit of gethttp closes its socket or leaves it to pconn.
THEOREM SocketsAreClosed == Spec => []NothingLeaks
<1>1. Inv => NothingLeaks
  BY DEF Inv, Known, NothingLeaks, Holding
<1> QED BY <1>1, InvInit, InvNext, PTL DEF Spec

\* Together, as they are checked.
THEOREM SocketsStaySound == Spec => []SocketsSound
<1>1. TypeOK /\ PconnValid /\ NothingLeaks => SocketsSound
  BY DEF SocketsSound
<1> QED BY <1>1, SocketsTyped, PconnStaysValid, SocketsAreClosed, PTL
-----------------------------------------------------------------------------
(***************************************************************************)
(* The answers.  What an earlier response has left on a connection is      *)
(* either nothing or there to be seen when the connection might be used    *)
(* again.  PatientAssumption is needed: the README says what happens       *)
(* without it.                                                             *)
(***************************************************************************)
\* After the first k pieces there is nothing but the end of the connection.
Over(s, k) == \A i \in DOMAIN s : i > k => s[i] = Eof

\* After the first k pieces comes the rest of the body of a response r, or, of
\* a bare one, nothing.
Rest(s, k, r, bare) ==
    /\ (bare \/ r.status = "empty") => Over(s, k)
    /\ r.framing = "length" => Over(s, k + 1)
    /\ \A i \in DOMAIN s :
          (i > k /\ s[i].what \in {"last", "eof"}) =>
              /\ Over(s, i)
              /\ s[i].what = "eof" => s[i] = Eof

\* What a server may say of a body that ends with the connection.
Announced(r, alive) == (r.framing = "eof" /\ alive) => opt.old

\* Nothing is left on a connection, or what is left has arrived and keeps it
\* from being used again.
Spent(c) == Over(c.stream, 0) \/ (~opt.late /\ c.arrived > 0)

\* Nothing but the end has still to arrive.
Delivered(c) == Over(c.stream, c.arrived)

\* The response to the last request is on the connection, or it ends.
Responding(c, bare) ==
    \/ Over(c.stream, 0)
    \/ /\ c.stream # <<>>
       /\ c.stream[1].what = "head" /\ c.stream[1].n = c.asked
       /\ Rest(c.stream, 1, c.stream[1].resp, bare)
       /\ Announced(c.stream[1].resp, ~c.stream[1].resp.close)
       /\ opt.late \/ c.arrived = 0 \/ Delivered(c)

Answering ==
    LET c == conns[call.sock] IN
    /\ pc = "send" => Over(c.stream, 0)
    /\ pc = "head" => Responding(c, call.head_only)
    /\ pc \in {"answer", "skip", "body"} =>
          /\ call.resp.what = "head" /\ call.resp.n = c.asked
          /\ Rest(c.stream, 0, call.resp.resp, call.head_only)
          /\ Announced(call.resp.resp, call.keep_alive)
    /\ (pc \in Answered /\ ~opt.late) => Delivered(c)
    /\ (pc = "finish" /\ call.keep_alive) => Spent(c)

\* The registered connection, unless it is in use.
Waits ==
    (pconn.active /\ (pc \in Holding => call.sock # pconn.socket)) =>
        Spent(conns[pconn.socket])

\* Less may follow further on.
LEMMA OverLater ==
    ASSUME NEW s \in Seq(Pieces), NEW k \in Nat, NEW j \in Nat, j >= k,
           Over(s, k)
    PROVE  Over(s, j)
<1>1. \A i \in DOMAIN s : i \in Nat
  OBVIOUS
<1> QED BY <1>1 DEF Over

\* Nothing follows the last piece.
LEMMA OverEnd == ASSUME NEW s \in Seq(Pieces) PROVE Over(s, Len(s))
<1>1. \A i \in DOMAIN s : i \in Nat /\ ~(i > Len(s))
  OBVIOUS
<1> QED BY <1>1 DEF Over

\* What follows the first piece is the tail.
LEMMA OverTail ==
    ASSUME NEW s \in Seq(Pieces), s # <<>>, NEW k \in Nat, Over(s, k + 1)
    PROVE  Over(Tail(s), k)
<1> SUFFICES ASSUME NEW i \in DOMAIN Tail(s), i > k PROVE Tail(s)[i] = Eof
  BY DEF Over
<1>1. i + 1 \in DOMAIN s /\ i \in Nat /\ Tail(s)[i] = s[i + 1]
  OBVIOUS
<1>2. i + 1 > k + 1
  BY <1>1
<1> QED BY <1>1, <1>2 DEF Over

\* A body loses its first piece.
LEMMA RestTail ==
    ASSUME NEW s \in Seq(Pieces), s # <<>>, NEW r, NEW bare,
           NEW k \in {0, 1}, Rest(s, k, r, bare)
    PROVE  Rest(Tail(s), 0, r, bare)
<1>1. \A i \in DOMAIN Tail(s) : /\ i + 1 \in DOMAIN s /\ i \in Nat /\ i >= 1
                                /\ Tail(s)[i] = s[i + 1]
  OBVIOUS
<1>2. ASSUME bare \/ r.status = "empty" PROVE Over(Tail(s), 0)
  <2>1. Over(s, k) /\ k \in Nat /\ 1 \in Nat /\ 1 >= k
    BY <1>2 DEF Rest
  <2>2. Over(s, 1)
    BY <2>1, OverLater
  <2>3. Over(s, 0 + 1)
    BY <2>2
  <2> QED BY <2>3, OverTail
<1>3. ASSUME r.framing = "length" PROVE Over(Tail(s), 1)
  <2>1. Over(s, k + 1) /\ k + 1 \in Nat /\ 2 \in Nat /\ 2 >= k + 1
    BY <1>3 DEF Rest
  <2>2. Over(s, 2)
    BY <2>1, OverLater
  <2>3. Over(s, 1 + 1)
    BY <2>2
  <2> QED BY <2>3, OverTail
<1>4. ASSUME NEW i \in DOMAIN Tail(s), Tail(s)[i].what \in {"last", "eof"}
      PROVE  Over(Tail(s), i) /\ (Tail(s)[i].what = "eof" => Tail(s)[i] = Eof)
  <2>1. i + 1 \in DOMAIN s /\ i \in Nat /\ i + 1 > k /\ Tail(s)[i] = s[i + 1]
    BY <1>1
  <2>2. Over(s, i + 1) /\ (s[i + 1].what = "eof" => s[i + 1] = Eof)
    BY <1>4, <2>1 DEF Rest
  <2>3. Over(Tail(s), i)
    BY <2>1, <2>2, OverTail
  <2> QED BY <2>1, <2>2, <2>3
<1>5. 0 + 1 = 1
  OBVIOUS
<1> QED BY <1>2, <1>3, <1>4, <1>5 DEF Rest

\* The stream is cut off after the first a pieces.
LEMMA Cut ==
    ASSUME NEW s \in Seq(Pieces), NEW a \in Nat, a <= Len(s), NEW t,
           t = SubSeq(s, 1, a) \o <<Eof>>
    PROVE  /\ t \in Seq(Pieces) /\ t # <<>>
           /\ Over(t, a)
           /\ a > 0 => t[1] = s[1]
           /\ \A k \in Nat : Over(s, k) => Over(t, k)
           /\ \A k \in Nat : \A r, bare : Rest(s, k, r, bare) => Rest(t, k, r, bare)
<1>1. /\ SubSeq(s, 1, a) \in Seq(Pieces) /\ Len(SubSeq(s, 1, a)) = a
      /\ \A i \in 1 .. a : SubSeq(s, 1, a)[i] = s[i]
  OBVIOUS
<1>2. PICK u : u = SubSeq(s, 1, a)
  OBVIOUS
<1>3. /\ t \in Seq(Pieces) /\ t # <<>> /\ DOMAIN t = 1 .. a + 1
      /\ t[a + 1] = Eof
      /\ \A i \in 1 .. a : t[i] = s[i] /\ i \in DOMAIN s
  <2>1. /\ u \in Seq(Pieces) /\ Len(u) = a /\ t = u \o <<Eof>>
        /\ \A i \in 1 .. a : u[i] = s[i] /\ i \in DOMAIN s
    BY <1>1, <1>2
  <2>2. PICK e \in Pieces : e = Eof
    BY InitialValues
  <2>3. /\ u \o <<e>> \in Seq(Pieces) /\ Len(u \o <<e>>) = a + 1
        /\ (u \o <<e>>)[a + 1] = e
        /\ \A i \in 1 .. a : (u \o <<e>>)[i] = u[i]
    BY <2>1
  <2>4. t = u \o <<e>>
    BY <2>1, <2>2
  <2> QED BY <2>1, <2>2, <2>3, <2>4
<1>4. \A k \in Nat : Over(s, k) => Over(t, k)
  BY <1>3 DEF Over
<1>5. Over(t, a)
  BY <1>3 DEF Over
<1>6. ASSUME NEW k \in Nat, NEW r, NEW bare, Rest(s, k, r, bare)
      PROVE  Rest(t, k, r, bare)
  <2>1. ((bare \/ r.status = "empty") => Over(t, k))
        /\ (r.framing = "length" => Over(t, k + 1))
    BY <1>4, <1>6 DEF Rest
  <2>2. ASSUME NEW i \in DOMAIN t, i > k, t[i].what \in {"last", "eof"}
        PROVE  Over(t, i) /\ (t[i].what = "eof" => t[i] = Eof)
    <3>1. CASE i = a + 1
      BY <1>3, <3>1 DEF Over
    <3>2. CASE i # a + 1
      <4>1. i \in 1 .. a /\ i \in Nat /\ i \in DOMAIN s /\ t[i] = s[i]
        BY <1>3, <3>2
      <4>2. Over(s, i) /\ (s[i].what = "eof" => s[i] = Eof)
        BY <1>6, <2>2, <4>1 DEF Rest
      <4> QED BY <1>4, <4>1, <4>2
    <3> QED BY <3>1, <3>2
  <2> QED BY <2>1, <2>2 DEF Rest
<1>7. a > 0 => t[1] = s[1]
  BY <1>3
<1> QED BY <1>3, <1>4, <1>5, <1>6, <1>7

\* A response begins with its head, and its body is what the head describes.
LEMMA StreamIs ==
    ASSUME NEW n \in Nat, NEW r \in Responses
    PROVE  /\ Stream(r, n) \in Seq(Pieces) /\ Stream(r, n) # <<>>
           /\ Stream(r, n)[1] = Piece("head", n, r)
           /\ Rest(Stream(r, n), 1, r, call.head_only)
<1>1. PICK H \in Pieces : H = Piece("head", n, r)
  BY InitialValues
<1>2. PICK D \in Pieces : D = Piece("data", n, Http09)
  BY InitialValues
<1>3. PICK L \in Pieces : L = Piece("last", n, Http09)
  BY InitialValues
<1>4. PICK E \in Pieces : E = Eof
  BY InitialValues
<1>5. D.what = "data" /\ L.what = "last"
  BY <1>2, <1>3 DEF Piece
<1> DEFINE bodiless == call.head_only \/ r.status = "empty"
           chunked == r.framing = "chunked"
           closes == r.close \/ r.framing = "eof"
\* The head, the body and the end.
<1>6. PICK h \in Seq(Pieces) : h = <<H>> /\ Len(h) = 1 /\ h[1] = H
  <2>1. <<H>> \in Seq(Pieces) /\ Len(<<H>>) = 1 /\ <<H>>[1] = H
    OBVIOUS
  <2> QED BY <2>1
<1>7. PICK b \in Seq(Pieces) :
         /\ b = IF bodiless THEN <<>> ELSE IF chunked THEN <<D, L>> ELSE <<D>>
         /\ bodiless => Len(b) = 0
         /\ ~bodiless /\ chunked => Len(b) = 2 /\ b[1] = D /\ b[2] = L
         /\ ~bodiless /\ ~chunked => Len(b) = 1 /\ b[1] = D
  <2>1. /\ <<>> \in Seq(Pieces) /\ Len(<<>>) = 0
        /\ <<D, L>> \in Seq(Pieces) /\ Len(<<D, L>>) = 2
        /\ <<D, L>>[1] = D /\ <<D, L>>[2] = L
        /\ <<D>> \in Seq(Pieces) /\ Len(<<D>>) = 1 /\ <<D>>[1] = D
    OBVIOUS
  <2> HIDE DEF bodiless, chunked
  <2> QED BY <2>1
<1>8. PICK e \in Seq(Pieces) :
         /\ e = IF closes THEN <<E>> ELSE <<>>
         /\ Len(e) = 0 \/ (Len(e) = 1 /\ e[1] = E)
  <2>1. /\ <<>> \in Seq(Pieces) /\ Len(<<>>) = 0
        /\ <<E>> \in Seq(Pieces) /\ Len(<<E>>) = 1 /\ <<E>>[1] = E
    OBVIOUS
  <2> HIDE DEF closes
  <2> QED BY <2>1
<1>9. PICK t : t = Stream(r, n)
  OBVIOUS
<1>10. t = (h \o b) \o e
  BY <1>1, <1>2, <1>3, <1>4, <1>6, <1>7, <1>8, <1>9 DEF Stream
<1> HIDE DEF bodiless, chunked, closes
<1>11. /\ t \in Seq(Pieces) /\ DOMAIN t = 1 .. 1 + Len(b) + Len(e)
       /\ t[1] = H
       /\ \A i \in 1 .. Len(b) : t[i + 1] = b[i]
       /\ Len(e) = 1 => t[Len(b) + 2] = E
  <2>1. PICK u \in Seq(Pieces) :
           /\ u = h \o b /\ Len(u) = 1 + Len(b) /\ u[1] = H
           /\ \A i \in 1 .. Len(b) : u[i + 1] = b[i]
    <3>1. /\ h \o b \in Seq(Pieces) /\ Len(h \o b) = Len(h) + Len(b)
          /\ \A i \in 1 .. Len(h) : (h \o b)[i] = h[i]
          /\ \A i \in 1 .. Len(b) : (h \o b)[Len(h) + i] = b[i]
      OBVIOUS
    <3>2. \A i \in 1 .. Len(b) : (h \o b)[i + 1] = b[i]
      <4> TAKE i \in 1 .. Len(b)
      <4>1. i + 1 = Len(h) + i
        BY <1>6
      <4> QED BY <3>1, <4>1
    <3>3. Len(h \o b) = 1 + Len(b) /\ (h \o b)[1] = H
      BY <1>6, <3>1
    <3> QED BY <3>1, <3>2, <3>3
  <2>2. /\ u \o e \in Seq(Pieces) /\ Len(u \o e) = Len(u) + Len(e)
        /\ \A i \in 1 .. Len(u) : (u \o e)[i] = u[i]
        /\ \A i \in 1 .. Len(e) : (u \o e)[Len(u) + i] = e[i]
    OBVIOUS
  <2>3. t = u \o e
    BY <1>10, <2>1
  <2> QED BY <1>8, <2>1, <2>2, <2>3
<1>12. t # <<>>
  BY <1>11
<1>13. Rest(t, 1, r, call.head_only)
  <2>1. CASE bodiless
    <3>1. \A i \in DOMAIN t : i > 1 => t[i] = E
      BY <1>7, <1>8, <1>11, <2>1
    <3>2. \A i \in DOMAIN t : i \in Nat
      BY <1>11
    <3> QED BY <1>4, <3>1, <3>2 DEF Rest, Over
  <2>2. CASE ~bodiless /\ chunked
    <3>1. /\ DOMAIN t \in {1 .. 3, 1 .. 4} /\ t[2] = D /\ t[3] = L
          /\ 4 \in DOMAIN t => t[4] = E
      BY <1>7, <1>8, <1>11, <2>2
    <3>2. \A i \in DOMAIN t : i \in {1, 2, 3, 4}
      BY <3>1
    <3>3. Over(t, 3)
      BY <1>4, <3>1, <3>2 DEF Over
    <3>4. \A i \in DOMAIN t :
            (i > 1 /\ t[i].what \in {"last", "eof"}) =>
                /\ Over(t, i)
                /\ t[i].what = "eof" => t[i] = Eof
      <4> SUFFICES ASSUME NEW i \in DOMAIN t, i > 1, t[i].what \in {"last", "eof"}
                   PROVE  Over(t, i) /\ (t[i].what = "eof" => t[i] = Eof)
        OBVIOUS
      <4>1. i \in {3, 4} /\ i \in Nat /\ i >= 3 /\ 3 \in Nat
        BY <1>5, <3>1, <3>2
      <4>2. Over(t, i)
        BY <1>11, <3>3, <4>1, OverLater
      <4> QED BY <1>4, <1>5, <3>1, <4>1, <4>2
    <3> QED BY <2>2, <3>4 DEF Rest, bodiless, chunked
  <2>3. CASE ~bodiless /\ ~chunked
    <3>1. /\ DOMAIN t \in {1 .. 2, 1 .. 3} /\ t[2] = D
          /\ 3 \in DOMAIN t => t[3] = E
      BY <1>7, <1>8, <1>11, <2>3
    <3>2. \A i \in DOMAIN t : i \in {1, 2, 3}
      BY <3>1
    <3>3. Over(t, 2)
      BY <1>4, <3>1, <3>2 DEF Over
    <3>4. \A i \in DOMAIN t :
            (i > 1 /\ t[i].what \in {"last", "eof"}) =>
                /\ Over(t, i)
                /\ t[i].what = "eof" => t[i] = Eof
      <4> SUFFICES ASSUME NEW i \in DOMAIN t, i > 1, t[i].what \in {"last", "eof"}
                   PROVE  Over(t, i) /\ (t[i].what = "eof" => t[i] = Eof)
        OBVIOUS
      <4>1. i = 3
        BY <1>5, <3>1, <3>2
      <4>2. Over(t, i)
        BY <1>11, <3>3, <4>1, OverLater
      <4> QED BY <1>4, <3>1, <4>1, <4>2
    <3>5. Over(t, 1 + 1)
      BY <3>3
    <3> QED BY <2>3, <3>4, <3>5 DEF Rest, bodiless
  <2> QED BY <2>1, <2>2, <2>3
<1> QED BY <1>1, <1>9, <1>11, <1>12, <1>13

-----------------------------------------------------------------------------
\* What the network may do to a connection loses nothing.
Follows(c, d) ==
    /\ d.asked = c.asked
    /\ Over(c.stream, 0) => Over(d.stream, 0)
    /\ \A r, bare : Rest(c.stream, 0, r, bare) => Rest(d.stream, 0, r, bare)
    /\ Spent(c) => Spent(d)
    /\ Delivered(c) => Delivered(d)
    /\ \A bare : Responding(c, bare) => Responding(d, bare)

\* A socket that nothing happens to.
LEMMA FollowsSelf == ASSUME NEW c PROVE Follows(c, c)
BY DEF Follows

\* More of the stream arrives.
LEMMA FollowsDeliver ==
    ASSUME NEW c, c.stream \in Seq(Pieces), c.arrived \in Nat,
           NEW d, d.stream = c.stream, d.asked = c.asked, d.arrived \in Nat,
           d.arrived > c.arrived,
           ~opt.late => d.arrived = Len(c.stream)
    PROVE  Follows(c, d)
<1>1. Delivered(c) => Delivered(d)
  <2> SUFFICES ASSUME Delivered(c) PROVE Delivered(d)
    OBVIOUS
  <2>1. PICK s \in Seq(Pieces), a \in Nat, b \in Nat :
           s = c.stream /\ a = c.arrived /\ b = d.arrived
    OBVIOUS
  <2>2. Over(s, a) /\ b >= a
    BY <2>1 DEF Delivered
  <2>3. Over(s, b)
    BY <2>2, OverLater
  <2> QED BY <2>1, <2>3 DEF Delivered
<1>2. Spent(c) => Spent(d)
  BY DEF Spent
<1>3. ~opt.late => Delivered(d)
  <2>1. Over(c.stream, Len(c.stream))
    BY OverEnd
  <2> QED BY <2>1 DEF Delivered
<1>4. \A bare : Responding(c, bare) => Responding(d, bare)
  BY <1>3 DEF Responding
<1> QED BY <1>1, <1>2, <1>4 DEF Follows

\* The server cuts off what has not arrived.
LEMMA FollowsClose ==
    ASSUME NEW c, c.stream \in Seq(Pieces), c.arrived \in Nat,
           c.arrived <= Len(c.stream),
           NEW d, d.asked = c.asked, d.arrived = c.arrived,
           d.stream = SubSeq(c.stream, 1, c.arrived) \o <<Eof>>
    PROVE  Follows(c, d)
<1>1. PICK s \in Seq(Pieces), a \in Nat :
         s = c.stream /\ a = c.arrived /\ a <= Len(s)
  OBVIOUS
<1>2. PICK t : t = SubSeq(s, 1, a) \o <<Eof>> /\ t = d.stream
  BY <1>1
<1>3. /\ t \in Seq(Pieces) /\ t # <<>>
      /\ Over(t, a)
      /\ a > 0 => t[1] = s[1]
      /\ \A k \in Nat : Over(s, k) => Over(t, k)
      /\ \A k \in Nat : \A r, bare : Rest(s, k, r, bare) => Rest(t, k, r, bare)
  BY <1>1, <1>2, Cut
<1>4. /\ Over(s, 0) => Over(t, 0)
      /\ \A r, bare : Rest(s, 0, r, bare) => Rest(t, 0, r, bare)
      /\ \A r, bare : Rest(s, 1, r, bare) => Rest(t, 1, r, bare)
  BY <1>3
<1>5. Delivered(d)
  BY <1>1, <1>2, <1>3 DEF Delivered
<1>6. Spent(c) => Spent(d)
  BY <1>1, <1>2, <1>4 DEF Spent
<1>7. ASSUME NEW bare, Responding(c, bare) PROVE Responding(d, bare)
  <2>1. CASE Over(s, 0) \/ a = 0
    <3>1. Over(t, 0)
      BY <1>3, <1>4, <2>1
    <3> QED BY <1>2, <3>1 DEF Responding
  <2>2. CASE ~Over(s, 0) /\ a # 0
    <3>1. t[1] = s[1]
      BY <1>3, <2>2
    <3>2. /\ s[1].what = "head" /\ s[1].n = c.asked
          /\ Rest(s, 1, s[1].resp, bare)
          /\ Announced(s[1].resp, ~s[1].resp.close)
      BY <1>1, <1>7, <2>2 DEF Responding
    <3>3. Rest(t, 1, s[1].resp, bare)
      BY <1>4, <3>2
    <3> QED BY <1>2, <1>3, <1>5, <3>1, <3>2, <3>3 DEF Responding
  <2> QED BY <2>1, <2>2
<1> QED BY <1>1, <1>2, <1>4, <1>5, <1>6, <1>7 DEF Follows

\* The network acts while gethttp does not.
LEMMA AnswersNetwork ==
    ASSUME Inv, Answering, Waits, UNCHANGED <<opt, pconn, pc, call>>,
           \A k \in DOMAIN conns : Follows(conns[k], conns'[k])
    PROVE  Answering' /\ Waits'
<1>1. Answering'
  <2>1. CASE pc \notin Holding
    BY <2>1 DEF Answering, Answered, Holding
  <2>2. CASE pc \in Holding
    <3>1. Follows(conns[call.sock], conns'[call.sock])
      BY <2>2 DEF Inv, Control
    <3>2. PICK c, d : c = conns[call.sock] /\ d = conns'[call.sock]
      OBVIOUS
    <3>3. Follows(c, d)
      BY <3>1, <3>2
    <3>4. /\ pc = "send" => Over(d.stream, 0)
          /\ pc = "head" => Responding(d, call.head_only)
          /\ pc \in {"answer", "skip", "body"} =>
                /\ call.resp.what = "head" /\ call.resp.n = d.asked
                /\ Rest(d.stream, 0, call.resp.resp, call.head_only)
                /\ Announced(call.resp.resp, call.keep_alive)
          /\ (pc \in Answered /\ ~opt.late) => Delivered(d)
          /\ (pc = "finish" /\ call.keep_alive) => Spent(d)
      BY <3>2, <3>3 DEF Answering, Follows
    <3> QED BY <3>2, <3>4 DEF Answering, Responding, Delivered, Spent, Announced
  <2> QED BY <2>1, <2>2
<1>2. Waits'
  <2> SUFFICES ASSUME pconn.active, pc \in Holding => call.sock # pconn.socket
               PROVE  Spent(conns[pconn.socket])'
    BY DEF Waits
  <2>1. Follows(conns[pconn.socket], conns'[pconn.socket])
    BY DEF Inv, PconnValid
  <2>2. Spent(conns[pconn.socket])
    BY DEF Waits
  <2>3. Spent(conns'[pconn.socket])
    BY <2>1, <2>2 DEF Follows
  <2> QED BY <2>3 DEF Spent
<1> QED BY <1>1, <1>2

\* A piece arrives: what gethttp and a later reuse rely on stays.
LEMMA AnswersDeliver == Inv /\ Answering /\ Waits /\ Deliver => Answering' /\ Waits'
<1> SUFFICES ASSUME Inv, Answering, Waits, Deliver PROVE Answering' /\ Waits'
  OBVIOUS
<1>1. PICK fd \in DOMAIN conns :
         /\ conns[fd].arrived < Len(conns[fd].stream)
         /\ conns' = [conns EXCEPT ![fd].arrived =
                         IF opt.late THEN @ + 1 ELSE Len(conns[fd].stream)]
         /\ UNCHANGED <<opt, pconn, pc, call>>
  BY DEF Deliver
<1>2. ASSUME NEW k \in DOMAIN conns PROVE Follows(conns[k], conns'[k])
  <2>1. CASE k # fd
    BY <1>1, <2>1, FollowsSelf
  <2>2. CASE k = fd
    <3>1. PICK a : a = IF opt.late THEN conns[k].arrived + 1 ELSE Len(conns[k].stream)
      OBVIOUS
    <3>2. /\ conns[k] \in Connections /\ conns[k].stream \in Seq(Pieces)
          /\ conns[k].arrived \in Nat
      BY InvType, SocketType
    <3>3. conns'[k] = [conns[k] EXCEPT !.arrived = a]
      BY <1>1, <2>2, <3>1
    <3>4. /\ conns'[k].stream = conns[k].stream /\ conns'[k].asked = conns[k].asked
          /\ conns'[k].arrived = a
      BY <3>2, <3>3 DEF Connections
    <3>5. a \in Nat /\ a > conns[k].arrived /\ (~opt.late => a = Len(conns[k].stream))
      BY <1>1, <2>2, <3>1, <3>2
    <3>6. PICK c, d : c = conns[k] /\ d = conns'[k]
      OBVIOUS
    <3>7. Follows(c, d)
      BY <3>2, <3>4, <3>5, <3>6, FollowsDeliver
    <3> QED BY <3>6, <3>7
  <2> QED BY <2>1, <2>2
<1> QED BY <1>1, <1>2, AnswersNetwork

\* The server closes the connection: what it has sent still arrives, then the end.
LEMMA AnswersClose ==
    Inv /\ Answering /\ Waits /\ ServerCloses => Answering' /\ Waits'
<1> SUFFICES ASSUME Inv, Answering, Waits, ServerCloses PROVE Answering' /\ Waits'
  OBVIOUS
<1>1. PICK fd \in DOMAIN conns :
         /\ conns' = [conns EXCEPT ![fd].stream =
                         SubSeq(conns[fd].stream, 1, conns[fd].arrived) \o <<Eof>>]
         /\ UNCHANGED <<opt, pconn, pc, call>>
  BY DEF ServerCloses
<1>2. ASSUME NEW k \in DOMAIN conns PROVE Follows(conns[k], conns'[k])
  <2>1. CASE k # fd
    BY <1>1, <2>1, FollowsSelf
  <2>2. CASE k = fd
    <3>1. PICK t : t = SubSeq(conns[k].stream, 1, conns[k].arrived) \o <<Eof>>
      OBVIOUS
    <3>2. /\ conns[k] \in Connections /\ conns[k].stream \in Seq(Pieces)
          /\ conns[k].arrived \in Nat /\ conns[k].arrived <= Len(conns[k].stream)
      BY InvType, SocketType
    <3>3. conns'[k] = [conns[k] EXCEPT !.stream = t]
      BY <1>1, <2>2, <3>1
    <3>4. /\ conns'[k].stream = t /\ conns'[k].asked = conns[k].asked
          /\ conns'[k].arrived = conns[k].arrived
      BY <3>2, <3>3 DEF Connections
    <3>5. PICK c, d : c = conns[k] /\ d = conns'[k]
      OBVIOUS
    <3>6. Follows(c, d)
      BY <3>1, <3>2, <3>4, <3>5, FollowsClose
    <3> QED BY <3>5, <3>6
  <2> QED BY <2>1, <2>2
<1> QED BY <1>1, <1>2, AnswersNetwork

-----------------------------------------------------------------------------
\* Without a socket there is no answer to mistake.
LEMMA AnsweringFree == pc \notin Holding => Answering
BY DEF Answering, Answered, Holding

\* gethttp goes on without a socket, and closes none.
LEMMA AnswersFree ==
    ASSUME Waits, UNCHANGED <<opt, conns, pconn>>, pc' \notin Holding,
           (pc \in Holding /\ Registered(call.sock)) => Spent(conns[call.sock])
    PROVE  Answering' /\ Waits'
<1>1. Answering'
  BY DEF Answering, Answered, Holding
<1>2. pconn.active => Spent(conns[pconn.socket])
  BY DEF Waits, Registered
<1>3. Waits'
  BY <1>2 DEF Waits, Spent
<1> QED BY <1>1, <1>3

\* It closes its socket: the registered one is another one.
LEMMA AnswersInvalidate ==
    ASSUME Inv, Waits, pc \in Holding, NEW to \in {"idle", "challenged"},
           CLOSE_INVALIDATE(to)
    PROVE  Answering' /\ Waits'
<1>1. /\ pc' = to /\ opt' = opt /\ conns' = Without(conns, call.sock)
      /\ pconn' = IF Registered(call.sock) THEN NoPconn ELSE pconn
  BY DEF CLOSE_INVALIDATE, Go
<1>2. pc' \notin Holding
  BY <1>1 DEF Holding
<1>3. Answering'
  BY <1>2 DEF Answering, Answered, Holding
<1>4. Waits'
  <2> SUFFICES ASSUME pconn'.active PROVE Spent(conns[pconn.socket])'
    BY DEF Waits
  <2>1. pconn' = pconn /\ ~Registered(call.sock)
    BY <1>1 DEF NoPconn
  <2>2. pconn.active /\ call.sock # pconn.socket /\ pconn.socket \in DOMAIN conns
    BY <2>1 DEF Registered, Inv, PconnValid
  <2>3. Spent(conns[pconn.socket])
    BY <2>2 DEF Waits
  <2>4. conns'[pconn'.socket] = conns[pconn.socket]
    <3>1. \A j \in DOMAIN conns \ {call.sock} :
             Without(conns, call.sock)[j] = conns[j]
      BY WithoutIs
    <3> QED BY <1>1, <2>1, <2>2, <3>1
  <2> QED BY <1>1, <2>3, <2>4 DEF Spent
<1> QED BY <1>3, <1>4

\* It closes its socket unless it may be used again.
LEMMA AnswersFinish ==
    ASSUME Inv, Waits, pc \in Holding, NEW to \in {"idle", "challenged"},
           CLOSE_FINISH(to), call.keep_alive => Spent(conns[call.sock])
    PROVE  Answering' /\ Waits'
<1>1. CASE ~call.keep_alive
  <2>1. CLOSE_INVALIDATE(to)
    BY <1>1 DEF CLOSE_FINISH
  <2> QED BY <2>1, AnswersInvalidate
<1>2. CASE call.keep_alive
  <2>1. UNCHANGED <<opt, conns, pconn>> /\ pc' \notin Holding
    BY <1>2 DEF CLOSE_FINISH, Go, Holding
  <2> QED BY <1>2, <2>1, AnswersFree
<1> QED BY <1>1, <1>2

\* The registered connection is used again only if nothing has arrived on it.
LEMMA AnswersReuse == Inv /\ Waits /\ Reuse => Answering' /\ Waits'
<1> SUFFICES ASSUME Inv, Waits, Reuse PROVE Answering' /\ Waits'
  OBVIOUS
<1>1. /\ pc = "establish" /\ pc' = "send" /\ UNCHANGED <<opt, conns, pconn>>
      /\ call' = [call EXCEPT !.sock = pconn.socket]
      /\ pconn.active /\ conns[pconn.socket].arrived = 0
  BY DEF Reuse, Go, persistent_available_p, test_socket_open
<1>2. call'.sock = pconn.socket
  BY <1>1 DEF Inv, Control, Locals
<1>3. Over(conns[pconn.socket].stream, 0)
  BY <1>1 DEF Waits, Holding, Spent
<1>4. Answering'
  BY <1>1, <1>2, <1>3 DEF Answering, Answered
<1>5. Waits'
  BY <1>1, <1>2 DEF Waits, Holding
<1> QED BY <1>4, <1>5

\* Nothing is on a new connection, and it is not the registered one.
LEMMA AnswersConnect == Inv /\ Waits /\ Connect => Answering' /\ Waits'
<1> SUFFICES ASSUME Inv, Waits, Connect PROVE Answering' /\ Waits'
  OBVIOUS
<1> DEFINE stale == opt.keep_alive /\ persistent_available_p
           kept == IF stale THEN Without(conns, pconn.socket) ELSE conns
           fd == FreeDescriptor(DOMAIN kept)
           to == IF opt.proxy THEN Proxy ELSE call.host
           opened(refused) ==
              [host |-> Relevant, addr |-> opt.addresses[to], tls |-> call.ssl,
               refused |-> refused, stream |-> <<>>, arrived |-> 0, asked |-> 0]
           new(refused) == [k \in DOMAIN kept \cup {fd} |->
                              IF k # fd THEN kept[k] ELSE opened(refused)]
<1>1. /\ pc = "establish" /\ opt' = opt
      /\ pconn' = IF stale THEN NoPconn ELSE pconn
      /\ \/ conns' = new(FALSE) /\ Go("send", [call EXCEPT !.sock = fd])
         \/ conns' = kept /\ Go("idle", call)
         \/ opt.proxy /\ call.ssl /\ conns' = new(TRUE) /\ Go("idle", call)
  BY Zenon DEF Connect, Go
<1>2. /\ Sockets(kept)
      /\ ~stale => kept = conns
  <2> DEFINE w == Without(conns, pconn.socket)
  <2>1. Sockets(conns) /\ Sockets(w)
    BY WithoutIs DEF Inv
  <2>2. kept = IF stale THEN w ELSE conns
    OBVIOUS
  <2> HIDE DEF w, stale, kept
  <2> QED BY <2>1, <2>2
<1> HIDE DEF stale, kept
<1>3. fd \notin DOMAIN kept
  BY <1>2, Free DEF Sockets
<1>4. \A refused \in BOOLEAN :
        /\ new(refused)[fd].stream = <<>>
        /\ \A k \in DOMAIN kept : new(refused)[k] = kept[k]
  BY <1>3
<1> HIDE DEF fd, opened, new, to
<1>5. \A k \in DOMAIN kept : conns'[k] = kept[k]
  BY <1>1, <1>4
<1>6. ASSUME pconn'.active
      PROVE  Spent(conns[pconn.socket])' /\ pconn'.socket \in DOMAIN kept
  <2>1. pconn' = pconn /\ kept = conns
    BY <1>1, <1>2, <1>6 DEF NoPconn
  <2>2. pconn.socket \in DOMAIN conns
    BY <1>6, <2>1 DEF Inv, PconnValid
  <2>3. Spent(conns[pconn.socket])
    BY <1>1, <1>6, <2>1 DEF Waits, Holding
  <2> QED BY <1>1, <1>5, <2>1, <2>2, <2>3 DEF Spent
<1>7. Waits'
  BY <1>6 DEF Waits
<1>8. CASE conns' = new(FALSE) /\ Go("send", [call EXCEPT !.sock = fd])
  <2>1. pc' = "send" /\ call'.sock = fd
    BY <1>8 DEF Go, Inv, Control, Locals
  <2>2. conns'[fd].stream = <<>>
    BY <1>4, <1>8
  <2>3. Over(<<>>, 0)
    BY DEF Over
  <2> QED BY <1>7, <2>1, <2>2, <2>3 DEF Answering, Answered
<1>9. CASE Go("idle", call)
  <2>1. pc' = "idle"
    BY <1>9 DEF Go
  <2> QED BY <1>7, <2>1 DEF Answering, Answered
<1> QED BY <1>1, <1>8, <1>9

\* The answer is all there will be on the connection.
LEMMA AnswersSend == Inv /\ Answering /\ Waits /\ Send => Answering' /\ Waits'
<1> SUFFICES ASSUME Inv, Answering, Waits, Send PROVE Answering' /\ Waits'
  OBVIOUS
<1> DEFINE k == call.sock
<1>1. PICK n \in {conns[call.sock].asked + 1}, r \in Answers :
         /\ n = conns[k].asked + 1
         /\ conns' = [conns EXCEPT
                         ![k].asked = n,
                         ![k].stream = IF Closing(conns[k]) THEN @
                                       ELSE @ \o Stream(r, n)]
  BY DEF Send
<1>2. /\ pc = "send" /\ pc' = "head" /\ UNCHANGED <<opt, call, pconn>>
  BY DEF Send, Go
<1>3. /\ k \in DOMAIN conns /\ conns[k] \in Connections
      /\ conns[k].stream \in Seq(Pieces)
      /\ conns[k].arrived \in Nat /\ conns[k].asked \in Nat
      /\ conns[k].arrived <= Len(conns[k].stream)
  BY <1>2, InvType, SocketType DEF TypeOK, Holding
<1>4. PICK t : t = IF Closing(conns[k]) THEN conns[k].stream
                   ELSE conns[k].stream \o Stream(r, n)
  OBVIOUS
<1>5. conns' = [conns EXCEPT ![k] = [conns[k] EXCEPT !.asked = n, !.stream = t]]
  BY <1>1, <1>3, <1>4
<1> HIDE DEF k
<1>6. /\ conns'[k].stream = t /\ conns'[k].asked = n
      /\ conns'[k].arrived = conns[k].arrived
      /\ \A j \in DOMAIN conns : j # k => conns'[j] = conns[j]
  BY <1>3, <1>5 DEF Connections
<1>7. Over(conns[k].stream, 0)
  BY <1>2 DEF Answering, k
<1>8. Responding(conns'[k], call.head_only)
  <2>1. CASE Closing(conns[k])
    BY <1>4, <1>6, <1>7, <2>1 DEF Responding
  <2>2. CASE ~Closing(conns[k])
    <3>1. conns[k].stream = <<>>
      <4>1. PICK s \in Seq(Pieces) : s = conns[k].stream
        BY <1>3
      <4>2. \A i \in DOMAIN s : i > 0
        OBVIOUS
      <4>3. DOMAIN s = {}
        BY <1>7, <2>2, <4>1, <4>2 DEF Closing, Over
      <4>4. Len(s) = 0
        BY <4>3
      <4>5. s = <<>>
        BY <4>4
      <4> QED BY <4>1, <4>5
    <3>2. r \in Responses /\ n \in Nat
      BY <1>1, <1>3 DEF Answers, k
    <3>3. /\ Stream(r, n) \in Seq(Pieces) /\ Stream(r, n) # <<>>
          /\ Stream(r, n)[1] = Piece("head", n, r)
          /\ Rest(Stream(r, n), 1, r, call.head_only)
      BY <3>2, StreamIs
    <3>4. PICK q \in Seq(Pieces) : q = Stream(r, n)
      BY <3>3
    <3>5. t = q
      <4>1. t = <<>> \o q
        BY <1>4, <2>2, <3>1, <3>4
      <4>2. <<>> \o q = q
        OBVIOUS
      <4> QED BY <4>1, <4>2
    <3>6. /\ q[1].what = "head" /\ q[1].n = n /\ q[1].resp = r
      BY <3>3, <3>4 DEF Piece
    <3>7. conns[k].arrived = 0
      BY <1>3, <3>1
    <3>8. Announced(r, ~r.close)
      BY <1>1 DEF Answers, Announced
    <3> QED BY <1>6, <3>3, <3>4, <3>5, <3>6, <3>7, <3>8 DEF Responding
  <2> QED BY <2>1, <2>2
<1>9. Answering'
  BY <1>2, <1>8 DEF Answering, Answered, k, Responding, Announced, Delivered
<1>10. Waits'
  <2> SUFFICES ASSUME pconn.active, k # pconn.socket
               PROVE  Spent(conns[pconn.socket])'
    BY <1>2 DEF Waits, Holding, k
  <2>1. Spent(conns[pconn.socket]) /\ pconn.socket \in DOMAIN conns
    BY DEF Waits, Inv, PconnValid, k
  <2> QED BY <1>2, <1>6, <2>1 DEF Spent
<1> QED BY <1>9, <1>10

-----------------------------------------------------------------------------
\* A piece is read: the rest follows.
LEMMA TakenIs ==
    ASSUME Inv, call.sock \in DOMAIN conns, Waiting # "nothing"
    PROVE  /\ conns[call.sock].stream \in Seq(Pieces)
           /\ conns[call.sock].stream # <<>>
           /\ Head(conns[call.sock].stream) = conns[call.sock].stream[1]
           /\ conns[call.sock].stream[1] \in Pieces
           /\ Waiting = conns[call.sock].stream[1].what
           /\ conns[call.sock].arrived \in Nat /\ conns[call.sock].arrived > 0
           /\ DOMAIN Taken = DOMAIN conns
           /\ Taken[call.sock].stream = Tail(conns[call.sock].stream)
           /\ Taken[call.sock].asked = conns[call.sock].asked
           /\ \A j \in DOMAIN conns : j # call.sock => Taken[j] = conns[j]
           /\ Delivered(conns[call.sock]) => Delivered(Taken[call.sock])
<1> DEFINE k == call.sock
<1>1. /\ conns[k] \in Connections /\ conns[k].stream \in Seq(Pieces)
      /\ conns[k].arrived \in Nat /\ conns[k].arrived <= Len(conns[k].stream)
      /\ conns[k].arrived > 0
  BY InvType, SocketType DEF Waiting
<1>2. PICK s \in Seq(Pieces), a \in Nat :
         s = conns[k].stream /\ a = conns[k].arrived - 1 /\ conns[k].arrived = a + 1
  <2>1. \A n \in Nat : n > 0 => n - 1 \in Nat /\ n = (n - 1) + 1
    OBVIOUS
  <2>2. /\ conns[k].arrived - 1 \in Nat
        /\ conns[k].arrived = (conns[k].arrived - 1) + 1
    BY <1>1, <2>1
  <2> HIDE DEF k
  <2> QED BY <1>1, <2>2
<1>3. s # <<>> /\ Head(s) = s[1] /\ s[1] \in Pieces
  <2>1. Len(s) > 0
    BY <1>1, <1>2
  <2> QED BY <2>1
<1>4. Waiting = s[1].what
  BY <1>1, <1>2, <1>3 DEF Waiting
<1>5. Taken = [conns EXCEPT ![k] = [conns[k] EXCEPT !.stream = Tail(s), !.arrived = a]]
  BY <1>2 DEF Taken
<1> HIDE DEF k
<1>6. k \in DOMAIN conns
  BY DEF k
<1>7. /\ DOMAIN Taken = DOMAIN conns
      /\ Taken[k].stream = Tail(s) /\ Taken[k].asked = conns[k].asked
      /\ Taken[k].arrived = a
      /\ \A j \in DOMAIN conns : j # k => Taken[j] = conns[j]
  BY <1>1, <1>5, <1>6 DEF Connections
<1>8. Delivered(conns[k]) => Delivered(Taken[k])
  <2> SUFFICES ASSUME Over(s, a + 1) PROVE Over(Tail(s), a)
    BY <1>2, <1>7 DEF Delivered
  <2> QED BY <1>3, OverTail
<1> QED BY <1>1, <1>2, <1>3, <1>4, <1>7, <1>8 DEF k

\* The head that is read is that of the response to the request: had nothing
\* of it come, there would be nothing to read.
LEMMA AnswersReadHead == Inv /\ Answering /\ Waits /\ ReadHead => Answering' /\ Waits'
<1> SUFFICES ASSUME Inv, Answering, Waits, ReadHead PROVE Answering' /\ Waits'
  OBVIOUS
<1> DEFINE k == call.sock
           s == conns[k].stream
           alive == call.keep_alive /\ ~s[1].resp.close
           after == register_persistent(k, Taken)
<1>0. pc = "head" /\ k \in DOMAIN conns /\ Waiting \notin {"eof", "nothing"}
  BY DEF ReadHead, Inv, Control, Holding
<1>1. /\ s \in Seq(Pieces) /\ s # <<>> /\ Head(s) = s[1] /\ s[1] \in Pieces
      /\ Waiting = s[1].what
      /\ conns[k].arrived \in Nat /\ conns[k].arrived > 0
      /\ DOMAIN Taken = DOMAIN conns
      /\ Taken[k].stream = Tail(s) /\ Taken[k].asked = conns[k].asked
      /\ \A j \in DOMAIN conns : j # k => Taken[j] = conns[j]
      /\ Delivered(conns[k]) => Delivered(Taken[k])
  BY <1>0, TakenIs
<1>2. /\ s[1].what = "head" /\ s[1].n = conns[k].asked
      /\ Rest(s, 1, s[1].resp, call.head_only)
      /\ Announced(s[1].resp, ~s[1].resp.close)
      /\ opt.late \/ Delivered(conns[k])
  <2>1. Responding(conns[k], call.head_only)
    BY <1>0 DEF Answering
  <2>2. ~Over(s, 0)
    <3>1. s[1] # Eof /\ 1 \in DOMAIN s
      BY <1>0, <1>1 DEF Eof, Piece
    <3> QED BY <3>1 DEF Over
  <2> QED BY <1>1, <2>1, <2>2 DEF Responding
<1>3. Waiting = "head"
  BY <1>1, <1>2
<1>4. [s[1] EXCEPT !.resp = s[1].resp] = s[1]
  BY <1>1 DEF Pieces
<1>5. /\ pc' = "answer" /\ opt' = opt
      /\ call' = [call EXCEPT !.resp = s[1], !.keep_alive = alive]
      /\ pconn' = IF alive THEN after.pconn ELSE pconn
      /\ conns' = IF alive THEN after.conns ELSE Taken
  BY <1>1, <1>3, <1>4 DEF ReadHead, Go
<1>6. /\ call'.resp = s[1] /\ call'.sock = k /\ call'.head_only = call.head_only
      /\ call'.keep_alive = alive
  BY <1>5 DEF Inv, Control, Locals
<1> HIDE DEF after
<1>7. k \in DOMAIN conns /\ conns'[k] = Taken[k]
      /\ (alive => pconn'.socket = k)
  <2>1. CASE ~alive
    BY <1>0, <1>5, <2>1
  <2>2. CASE alive /\ Registered(k)
    BY <1>0, <1>5, <2>2 DEF after, register_persistent, Registered
  <2>3. CASE alive /\ ~Registered(k)
    <3>1. /\ pconn'.socket = k
          /\ conns' = IF pconn.active THEN Without(Taken, pconn.socket) ELSE Taken
      BY <1>5, <2>3 DEF after, register_persistent
    <3>2. pconn.active => k # pconn.socket
      BY <2>3 DEF Registered
    <3>3. \A j \in DOMAIN Taken \ {pconn.socket} :
             Without(Taken, pconn.socket)[j] = Taken[j]
      BY WithoutIs
    <3> QED BY <1>0, <1>1, <3>1, <3>2, <3>3
  <2> QED BY <2>1, <2>2, <2>3
<1> HIDE DEF s, k, alive
<1>8. Rest(Tail(s), 0, s[1].resp, call.head_only)
  BY <1>1, <1>2, RestTail
<1>9. Announced(s[1].resp, alive)
  BY <1>2 DEF Announced, alive
<1>10. Answering'
  <2>1. ~opt.late => Delivered(conns'[k])
    BY <1>1, <1>2, <1>7
  <2>2. /\ call'.resp.what = "head" /\ call'.resp.n = conns'[k].asked
        /\ Rest(conns'[k].stream, 0, call'.resp.resp, call'.head_only)
    BY <1>1, <1>2, <1>6, <1>7, <1>8
  <2>3. Announced(call.resp.resp, call.keep_alive)'
    BY <1>5, <1>6, <1>9 DEF Announced
  <2>4. ~opt'.late => Delivered(conns[call.sock])'
    BY <1>5, <1>6, <2>1 DEF Delivered
  <2> QED BY <1>5, <1>6, <2>2, <2>3, <2>4 DEF Answering
<1>11. Waits'
  <2> SUFFICES ASSUME pconn'.active, call'.sock # pconn'.socket
               PROVE  Spent(conns[pconn.socket])'
    BY <1>5 DEF Waits, Holding
  <2>1. pconn' = pconn /\ conns' = Taken /\ k # pconn.socket
    BY <1>5, <1>6, <1>7
  <2>2. pconn.socket \in DOMAIN conns /\ Spent(conns[pconn.socket])
    BY <2>1 DEF Waits, Inv, PconnValid, k
  <2> QED BY <1>1, <1>5, <2>1, <2>2 DEF Spent
<1> QED BY <1>10, <1>11

\* A body that is complete leaves nothing behind, or is left to be seen.
LEMMA AnswersBody ==
    ASSUME Inv, Answering, Waits, ReadPiece \/ ReadLastPiece
    PROVE  Answering' /\ Waits'
<1> DEFINE k == call.sock
           s == conns[k].stream
           r == call.resp.resp
<1>0. /\ pc \in {"skip", "body"} /\ k \in DOMAIN conns /\ Waiting # "nothing"
      /\ conns' = Taken /\ UNCHANGED <<opt, pconn, call>>
      /\ pc' = pc \/ (pc' = "finish" /\ ReadLastPiece)
  <2>1. pc \in {"skip", "body"}
    BY DEF ReadPiece, ReadLastPiece
  <2>2. k \in DOMAIN conns
    BY <2>1 DEF Inv, Control, Holding
  <2>3. CASE ReadPiece
    BY <2>1, <2>2, <2>3 DEF ReadPiece, Go
  <2>4. CASE ReadLastPiece
    BY <2>1, <2>2, <2>4 DEF ReadLastPiece, Go
  <2> QED BY <2>3, <2>4
<1>1. /\ s \in Seq(Pieces) /\ s # <<>> /\ s[1] \in Pieces
      /\ Waiting = s[1].what
      /\ Taken[k].stream = Tail(s) /\ Taken[k].asked = conns[k].asked
      /\ \A j \in DOMAIN conns : j # k => Taken[j] = conns[j]
      /\ Delivered(conns[k]) => Delivered(Taken[k])
  BY <1>0, TakenIs
<1>2. /\ call.resp.what = "head" /\ call.resp.n = conns[k].asked
      /\ Rest(s, 0, r, call.head_only)
      /\ Announced(r, call.keep_alive)
      /\ ~opt.late => Delivered(conns[k])
  BY <1>0 DEF Answering, Answered
<1> HIDE DEF s, k, r
<1>3. Rest(Tail(s), 0, r, call.head_only)
  BY <1>1, <1>2, RestTail
<1>4. ASSUME ReadLastPiece PROVE Spent(conns'[k])
  <2>1. Over(s, 1)
    <3>1. \/ r.framing = "length"
          \/ s[1].what = "last"
      BY <1>1, <1>4 DEF ReadLastPiece, Framing, r
    <3>2. CASE r.framing = "length"
      <4>1. Over(s, 0 + 1)
        BY <1>2, <3>2 DEF Rest
      <4> QED BY <4>1
    <3>3. CASE s[1].what = "last"
      <4>1. 1 \in DOMAIN s /\ 1 > 0
        BY <1>1
      <4> QED BY <1>2, <3>3, <4>1 DEF Rest
    <3> QED BY <3>1, <3>2, <3>3
  <2>2. Over(s, 0 + 1)
    BY <2>1
  <2>3. Over(Tail(s), 0)
    BY <1>1, <2>2, OverTail
  <2> QED BY <1>0, <1>1, <2>3 DEF Spent
<1>5. Answering'
  <2>1. ~opt.late => Delivered(conns'[k])
    BY <1>0, <1>1, <1>2
  <2>2. /\ call'.resp.what = "head" /\ call'.resp.n = conns'[k].asked
        /\ Rest(conns'[k].stream, 0, call'.resp.resp, call'.head_only)
    BY <1>0, <1>1, <1>2, <1>3 DEF r
  <2>3. Announced(call.resp.resp, call.keep_alive)'
    BY <1>0, <1>2 DEF Announced, r
  <2>4. /\ ~opt'.late => Delivered(conns[call.sock])'
        /\ ReadLastPiece => Spent(conns[call.sock])'
    BY <1>0, <1>4, <2>1 DEF Delivered, Spent, k
  <2>5. call'.sock = k
    BY <1>0 DEF k
  <2> QED BY <1>0, <2>2, <2>3, <2>4, <2>5 DEF Answering
<1>6. Waits'
  <2> SUFFICES ASSUME pconn'.active, call'.sock # pconn'.socket
               PROVE  Spent(conns[pconn.socket])'
    BY <1>0 DEF Waits, Holding
  <2>1. pconn' = pconn /\ conns' = Taken /\ k # pconn.socket
    BY <1>0 DEF k
  <2>2. pconn.socket \in DOMAIN conns /\ Spent(conns[pconn.socket])
    BY <2>1 DEF Waits, Inv, PconnValid, k
  <2> QED BY <1>0, <1>1, <2>1, <2>2 DEF Spent
<1> QED BY <1>5, <1>6

\* gethttp goes on with the same socket, and nothing is read.
LEMMA AnswersOnwards ==
    ASSUME Inv, Answering, Waits, UNCHANGED <<opt, conns, pconn, call>>,
           pc \in {"answer", "skip", "body"},
           \/ pc' \in {"skip", "body"}
           \/ pc' = "finish" /\ (call.keep_alive => Spent(conns[call.sock]))
    PROVE  Answering' /\ Waits'
<1>1. Answering'
  <2>1. /\ call'.resp.what = "head" /\ call'.resp.n = conns'[call'.sock].asked
        /\ Rest(conns'[call'.sock].stream, 0, call'.resp.resp, call'.head_only)
    BY DEF Answering
  <2>2. Announced(call.resp.resp, call.keep_alive)'
    BY DEF Answering, Announced
  <2>3. ~opt'.late => Delivered(conns[call.sock])'
    BY DEF Answering, Answered, Delivered
  <2>4. pc' = "finish" /\ call'.keep_alive => Spent(conns[call.sock])'
    BY DEF Spent
  <2> QED BY <2>1, <2>2, <2>3, <2>4 DEF Answering
<1>2. Waits'
  <2>1. pc \in Holding /\ pc' \in Holding
    BY DEF Holding
  <2> QED BY <2>1 DEF Waits, Spent
<1> QED BY <1>1, <1>2

\* What has arrived whole is either nothing, or there to be seen.
LEMMA SpentWhole ==
    ASSUME NEW c, c.arrived \in Nat, ~opt.late, Delivered(c)
    PROVE  Spent(c)
<1>1. c.arrived = 0 => Over(c.stream, 0)
  BY DEF Delivered
<1> QED BY <1>1 DEF Spent

\* The end of the connection, or patience, ends the body.
LEMMA AnswersBodyEnds ==
    ASSUME PatientAssumption, Inv, Answering, Waits, BodyEnds
    PROVE  Answering' /\ Waits'
<1> DEFINE k == call.sock
           s == conns[k].stream
<1>0. /\ pc \in {"skip", "body"} /\ pc' = "finish"
      /\ UNCHANGED <<opt, conns, pconn, call>>
  BY DEF BodyEnds, Go
<1>1. /\ k \in DOMAIN conns /\ opt \in Cases
  BY <1>0 DEF Inv, Control, Holding
<1>2. /\ s \in Seq(Pieces) /\ conns[k].arrived \in Nat
  BY <1>1, InvType, SocketType
<1>3. /\ Rest(s, 0, call.resp.resp, call.head_only)
      /\ Announced(call.resp.resp, call.keep_alive)
      /\ ~opt.late => Delivered(conns[k])
  BY <1>0 DEF Answering, Answered
<1>4. ASSUME call.keep_alive PROVE Spent(conns[k])
  <2>1. CASE Waiting = "eof"
    <3>1. s # <<>> /\ s[1].what = "eof"
      BY <1>1, <2>1, TakenIs
    <3>2. 1 \in DOMAIN s /\ 1 > 0
      BY <1>2, <3>1
    <3>3. Over(s, 1) /\ s[1] = Eof
      BY <1>3, <3>1, <3>2 DEF Rest
    <3>4. \A i \in DOMAIN s : i = 1 \/ i > 1
      BY <1>2
    <3> QED BY <3>3, <3>4 DEF Over, Spent
  <2>2. CASE opt.stalls \/ (Framing = "eof" /\ pc = "skip")
    <3>1. Framing = "eof" => opt.old
      BY <1>3, <1>4 DEF Announced, Framing
    <3>2. ~opt.late
      BY <1>1, <2>2, <3>1 DEF PatientAssumption
    <3> QED BY <1>2, <1>3, <3>2, SpentWhole
  <2> QED BY <2>1, <2>2 DEF BodyEnds
<1> QED BY <1>0, <1>4, AnswersOnwards

\* -nc leaves the body unread, but it has arrived.
LEMMA AnswersNameExists ==
    ASSUME PatientAssumption, Inv, Answering, Waits, NameExists
    PROVE  Answering' /\ Waits'
<1>1. /\ pc = "answer" /\ pc' = "idle" /\ UNCHANGED <<opt, conns, pconn>>
      /\ opt.names /\ opt \in Cases
  BY DEF NameExists, Go, Inv, Control
<1>2. ~opt.late /\ Delivered(conns[call.sock])
  BY <1>1 DEF PatientAssumption, Answering, Answered
<1>3. conns[call.sock].arrived \in Nat
  BY <1>1, InvType, SocketType DEF TypeOK, Holding
<1>4. Spent(conns[call.sock])
  BY <1>2, <1>3, SpentWhole
<1> QED BY <1>1, <1>4, AnswersFree DEF Holding

\* A response without a body leaves nothing behind.
LEMMA AnswersBodiless ==
    ASSUME Inv, Answering, Waits, Bodiless
    PROVE  Answering' /\ Waits'
<1>1. /\ pc = "answer" /\ CLOSE_FINISH("idle")
      /\ Status = "empty" \/ call.head_only
  BY DEF Bodiless
<1>2. Over(conns[call.sock].stream, 0)
  BY <1>1 DEF Answering, Rest, Status
<1>3. Spent(conns[call.sock])
  BY <1>2 DEF Spent
<1> QED BY <1>1, <1>3, AnswersFinish DEF Holding

\* No call and no socket.
LEMMA AnswersInit == Init => Answering /\ Waits
BY DEF Init, Answering, Answered, Waits, NoPconn

\* Every step keeps the streams as gethttp takes them to be.
LEMMA AnswersNext ==
    ASSUME PatientAssumption, Inv, Answering, Waits, [Next]_vars
    PROVE  Answering' /\ Waits'
<1>1. Onwards \in {"idle", "challenged"} /\ "idle" \in {"idle", "challenged"}
  BY DEF Onwards
<1>2. CASE UNCHANGED vars
  <2>1. \A k \in DOMAIN conns : Follows(conns[k], conns'[k])
    BY <1>2, FollowsSelf DEF vars
  <2> QED BY <1>2, <2>1, AnswersNetwork DEF vars
<1>3. CASE Gethttp \/ LookupFails \/ Challenged
  <2>1. /\ UNCHANGED <<opt, conns, pconn>>
        /\ pc \in {"idle", "establish", "challenged"}
    BY <1>3 DEF Gethttp, LookupFails, Challenged, Go
  <2>2. pc' \in {"idle", "establish"}
    <3>1. CASE Gethttp
      BY <3>1 DEF Gethttp
    <3>2. CASE LookupFails
      BY <3>2 DEF LookupFails, Go
    <3>3. CASE Challenged
      BY <3>3 DEF Challenged, Go
    <3> QED BY <1>3, <3>1, <3>2, <3>3
  <2>3. pc \notin Holding /\ pc' \notin Holding
    BY <2>1, <2>2 DEF Holding
  <2> QED BY <2>1, <2>3, AnswersFree
<1>4. CASE ExchangeFails \/ Abandon \/ BodyFails
  <2>1. PICK to \in {"idle", "challenged"} : CLOSE_INVALIDATE(to)
    BY <1>1, <1>4 DEF ExchangeFails, Abandon, BodyFails
  <2>2. pc \in Holding
    BY <1>4 DEF ExchangeFails, Abandon, BodyFails, Holding
  <2> QED BY <2>1, <2>2, AnswersInvalidate
<1>5. CASE Drain \/ Download
  <2>1. /\ UNCHANGED <<opt, conns, pconn, call>>
        /\ pc = "answer" /\ pc' \in {"skip", "body"}
    BY <1>5 DEF Drain, Download, Go
  <2> QED BY <2>1, AnswersOnwards
<1>6. CASE Finish
  <2>1. pc = "finish" /\ CLOSE_FINISH(Onwards)
    BY <1>6 DEF Finish
  <2>2. call.keep_alive => Spent(conns[call.sock])
    BY <2>1 DEF Answering
  <2> QED BY <1>1, <2>1, <2>2, AnswersFinish DEF Holding
<1> QED
  BY <1>2, <1>3, <1>4, <1>5, <1>6, AnswersDeliver, AnswersClose, AnswersReuse,
     AnswersConnect, AnswersSend, AnswersReadHead, AnswersBodiless,
     AnswersNameExists, AnswersBody, AnswersBodyEnds
     DEF Next, Step

\* What gethttp takes for a response is the response to the request it has sent:
\* nothing that an earlier response left on a connection is ever read, for all
\* servers, hosts and numbers of calls, on networks as PatientAssumption says.
THEOREM AnswersBelong == ASSUME PatientAssumption PROVE Spec => []AnswersMatch
<1>1. Init => Inv /\ Answering /\ Waits
  BY InvInit, AnswersInit
<1>2. (Inv /\ Answering /\ Waits) /\ [Next]_vars => (Inv /\ Answering /\ Waits)'
  BY InvNext, AnswersNext
<1>3. Inv /\ Answering /\ Waits => AnswersMatch
  BY DEF Answering, AnswersMatch
<1> QED BY <1>1, <1>2, <1>3, PTL DEF Spec
=============================================================================
