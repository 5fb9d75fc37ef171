--------------------------- MODULE FtpLoopProofs ----------------------------
(***************************************************************************)
(* Theorems about FtpLoop, for any servers and command lines, any local    *)
(* files beforehand, any number of failures and lists of any length.       *)
(*                                                                         *)
(* The inductive invariant has nine layers, each of which uses some of     *)
(* those before it: the sockets, the types, the commands that con carries, *)
(* the answers that come late, the server's directory, the data, the calls *)
(* and what they report, and, of every list, the files and the directories *)
(* that are still to come.  The last four hold as long as nothing was done *)
(* for a late answer.                                                      *)
(***************************************************************************)
EXTENDS FtpLoop, TLAPS, FiniteSetTheorems, WellFoundedInduction

\* The control connection is open.
Live == con.csock \in DOMAIN conns
\* The directory it is in.
Here == conns[con.csock].dir

Directories == DOMAIN site.list["LIST"]
Sockets == [kind : {"control", "data", "listen"}, dir : Directories, prot : BOOLEAN]

\* Where getftp is, up to the login, after it, and with sockets for the data.
LoginStages == {"greeting", "tls", "auth", "login", "prot", "syst", "pwd", "type"}
TransferStages == {"rest", "transfer", "accept", "open", "datatls", "body"}
Walk == {"connect"} \cup LoginStages \cup {"cwd", "size", "data"} \cup TransferStages
            \cup {"response"}
Calling == {"enter", "try"} \cup Walk \cup {"judge", "returned"}

-----------------------------------------------------------------------------
(***************************************************************************)
(* The sockets: those in use are known by the place in getftp, all others  *)
(* were left behind by a failure each, and in passive mode there are none. *)
(***************************************************************************)
Used ==
    {con.csock} \cup
        (CASE pc \in {"rest", "transfer"} ->
                IF opt.ftp_pasv THEN {get.dtsock} ELSE {get.local_sock}
           [] pc = "accept" -> {get.local_sock}
           [] pc \in {"open", "datatls", "body"} ->
                IF opt.ftp_pasv THEN {get.dtsock} ELSE {get.dtsock, get.local_sock}
           [] OTHER -> {})
Leaked == DOMAIN conns \ Used

SocketsInv ==
    /\ opt \in Opts /\ site \in Sites /\ faults \in 0 .. MaxFaults
    /\ conns \in [DOMAIN conns -> Sockets] /\ DOMAIN conns \subseteq Descriptors
    /\ {con.csock, get.csock, get.dtsock, get.local_sock} \subseteq {0} \cup Descriptors
    /\ Live /\ pc \notin {"finish", "done"} => conns[con.csock].kind = "control"
    /\ get.csock \in DOMAIN conns => get.csock = con.csock
    /\ pc \in Walk => get.csock = con.csock
    /\ pc = "connect" => con.csock = 0
    /\ pc \in {"connect"} \cup LoginStages => get.dtsock = 0 /\ get.local_sock = 0
    /\ pc \in Walk /\ con.csock # 0 => con.csock \notin {get.dtsock, get.local_sock}
    /\ pc \in LoginStages \cup TransferStages \cup {"response"} => Live
    /\ pc = "accept" => ~opt.ftp_pasv
    /\ pc = "done" => ~Live
    /\ opt.ftp_pasv => Leaked = {}

LeakBound == Cardinality(Leaked) <= faults

-----------------------------------------------------------------------------
(***************************************************************************)
(* The types of the other variables, for which a listing must not be       *)
(* longer than the server's.                                               *)
(***************************************************************************)
Flags == {"ON_YOUR_OWN", "DONE_CWD", "AVOID_LIST_A", "AVOID_LIST", "CHECK_DONE",
          "DATA_SECURITY"}
Cons == [st : SUBSET Flags, cmd : SUBSET {"LOGIN", "CWD", "RETR", "LIST"},
         csock : {0} \cup Descriptors, rs : {"unix", "l8", "vms", "other"}]
Loops == [caller : {"own", "listing", "file"}, dir : STRING, name : STRING,
          f : Entries \cup {NoEntry}, force : BOOLEAN, count : Nat, restval : Nat,
          qtyread : Nat]
Gets == [csock : {0} \cup Descriptors, dtsock : {0} \cup Descriptors,
         local_sock : {0} \cup Descriptors, secure : BOOLEAN, protected : BOOLEAN,
         rest_failed : BOOLEAN, list : {"LIST_a", "LIST"}, rd_size : Nat,
         previous_rd_size : Nat, res : {0, -1}, whole : BOOLEAN]
Errs == Fatal \cup Transient \cup {"RETROK", "RETRFINISHED", "FTPRETRINT", "FTPRESTFAIL",
                                 "TRYLIMEXC", "QUOTEXC"}
Actions == {"GLOB_GETONE", "GLOB_GLOBALL", "GLOB_GETALL"}
Frames == [dir : STRING, action : Actions, list : Seq(Entries), at : Nat,
           phase : {"files"}, force : BOOLEAN, err : Errs]

TypesInv ==
    /\ pc \in Stages
    /\ disk \in [DOMAIN disk -> Files]
    /\ con \in Cons /\ loop \in Loops /\ get \in Gets /\ frames \in Seq(Frames)
    /\ err \in Errs /\ total \in Nat
    /\ listing \in [command : {"LIST_a", "LIST"}, dir : Directories, len : Nat]
    /\ listing.len <= Len(site.list[listing.command][listing.dir])
    /\ pc \in {"files", "dirs"} => frames # <<>>
    /\ loop.qtyread >= loop.restval
    /\ pc \in Walk /\ "LIST" \in con.cmd => loop.restval = 0
    /\ pc \in {"datatls", "body"} /\ "LIST" \in con.cmd =>
          listing.command = get.list /\ listing.dir = Here
    /\ pc = "response" /\ "LIST" \in con.cmd => listing.dir = Here

-----------------------------------------------------------------------------
(***************************************************************************)
(* The commands: each caller of ftp_loop_internal has its own.             *)
(***************************************************************************)
CommandsInv ==
    /\ pc = "start" =>
          frames = <<>> /\ con.csock = 0 /\ con.cmd = {} /\ con.st = {"ON_YOUR_OWN"}
    /\ pc \in Calling =>
          /\ "LIST" \in con.cmd <=> loop.caller = "listing"
          /\ OnYourOwn <=> loop.caller = "own"
          /\ loop.caller = "file" => "RETR" \in con.cmd
          /\ loop.caller = "own" /\ pc \in Walk \cup {"judge"} =>
                "RETR" \in con.cmd
          /\ loop.caller = "listing" => "RETR" \notin con.cmd
          /\ loop.f # NoEntry => loop.caller = "file"
          /\ loop.caller = "file" => frames # <<>>
          /\ frames # <<>> => loop.dir = Top.dir
    /\ pc \in {"enter", "try"} /\ loop.count = 0 => loop.qtyread = 0
    /\ pc = "enter" => loop.count = 0
    /\ pc \in Walk \cup {"judge"} => loop.count > 0
    /\ pc = "files" => "RETR" \in con.cmd /\ "LIST" \notin con.cmd /\ ~OnYourOwn
    /\ pc \in {"files", "dirs"} => ~OnYourOwn
    /\ pc \in Calling /\ loop.caller = "own" => Len(frames) <= 1
    /\ \A i \in DOMAIN frames : i > 1 => frames[i].action # "GLOB_GETONE"

-----------------------------------------------------------------------------
(***************************************************************************)
(* The answers: they come late until there is a new connection, and a      *)
(* transfer that goes by a late one is not forgotten.                      *)
(***************************************************************************)
DataStages == {"accept", "open", "datatls", "body", "response"}

AnswersInv ==
    /\ late \in BOOLEAN /\ misled \in BOOLEAN
    /\ pc \in DataStages => misled \/ ~late

\* The control connection is open, and its answers come in time.
Timely == Live /\ ~late
\* Nothing was done for an answer that came late.
Trusted == ~misled

-----------------------------------------------------------------------------
(***************************************************************************)
(* The directories: DONE_CWD tells whether a connection whose answers come *)
(* in time is in loop.dir.                                                 *)
(***************************************************************************)
DirectoryInv ==
    /\ pc \in {"connect"} \cup LoginStages => "CWD" \in con.cmd
    /\ pc \in LoginStages => Here = Empty
    /\ con.csock = 0 /\ ~OnYourOwn /\ pc \in {"enter", "try", "returned", "files"} =>
          "DONE_CWD" \notin con.st
    /\ pc \in {"enter", "try"} /\ Timely =>
          /\ loop.caller # "listing" \/ "DONE_CWD" \in con.st => Here = loop.dir
          /\ loop.dir = Empty => Here = Empty
    /\ pc = "cwd" /\ Timely =>
          /\ "CWD" \notin con.cmd => Here = loop.dir
          /\ loop.dir = Empty => Here = Empty
    /\ pc \in {"size", "data", "response"} \cup TransferStages /\ Timely => Here = loop.dir
    /\ pc \in {"judge", "returned"} /\ Timely => Here = loop.dir
    /\ pc = "files" /\ Timely => Here = Top.dir

-----------------------------------------------------------------------------
(***************************************************************************)
(* The data: as many bytes as qtyread counts are on disk, and they are the *)
(* first ones of the remote file.                                          *)
(***************************************************************************)
Known == Target \in DOMAIN site.size
Intact(len) ==
    /\ Exists(Target) /\ disk[Target].len = len /\ disk[Target].good
    /\ Known => len <= site.size[Target]
IsSaved == Known /\ Intact(site.size[Target])
\* e is a line of a listing of the directory d.
LineOf(e, d) ==
    /\ d \in Directories
    /\ \E c \in {"LIST_a", "LIST"} : \E i \in DOMAIN site.list[c][d] : site.list[c][d][i] = e

DataInv ==
    /\ opt.always_rest => \A f \in DOMAIN disk :
          disk[f].good /\ (f \in DOMAIN site.size => disk[f].len <= site.size[f])
    /\ \A i \in DOMAIN frames : \A j \in DOMAIN frames[i].list :
          LineOf(frames[i].list[j], frames[i].dir)
    /\ pc \in Calling /\ loop.f # NoEntry =>
          loop.f.type = "file" /\ loop.f.name = loop.name /\ LineOf(loop.f, loop.dir)
    /\ pc \in {"judge", "returned"} /\ loop.caller = "listing"
          /\ err \in {"RETRFINISHED", "RETROK"} => listing.dir = loop.dir
    /\ pc \in {"try", "judge"} \cup Walk
          /\ loop.caller # "listing" /\ loop.qtyread > 0 => Intact(loop.qtyread)
    /\ pc \in Walk /\ loop.caller # "listing" =>
          /\ pc # "response" => loop.restval = loop.qtyread
          /\ pc \in {"accept", "open", "datatls", "body", "response"} => Known
          /\ pc \in {"datatls", "body", "response"} => Intact(loop.qtyread)
          /\ pc = "response" /\ get.whole => loop.qtyread = site.size[Target]
    /\ pc = "judge" /\ loop.caller # "listing" =>
          /\ err = "RETRFINISHED" => IsSaved
          /\ err = "FTPRETRINT" => Known /\ Intact(loop.qtyread)
    /\ pc = "returned" /\ loop.caller # "listing" /\ loop.count > 0 /\ err = "RETROK" =>
          IsSaved

-----------------------------------------------------------------------------
(***************************************************************************)
(* Descriptors.  Sockets in use and left behind are fewer than the         *)
(* descriptors, so that a new one takes no number that is in use.          *)
(***************************************************************************)
\* A nonempty set of natural numbers has a smallest element.
LEMMA LeastNumber ==
    ASSUME NEW S \in SUBSET Nat, S # {}
    PROVE  \E k \in S : \A j \in S : k <= j
<1> DEFINE T == {0 .. k : k \in S}
           R == StrictSubsetOrdering(Nat)
<1>1. T \subseteq FiniteSubsetsOf(Nat) /\ T # {}
  <2>1. \A k \in S : 0 .. k \subseteq Nat /\ IsFiniteSet(0 .. k)
    BY FS_Interval
  <2> QED BY <2>1 DEF FiniteSubsetsOf
<1>2. IsWellFoundedOn(R, FiniteSubsetsOf(Nat))
  BY FS_StrictSubsetOrderingWellFounded
<1>3. PICK t \in T : \A u \in T : ~(<<u, t>> \in R)
  <2> HIDE DEF T, R
  <2> QED BY <1>1, <1>2, WFMin
<1>4. PICK k \in S : t = 0 .. k
  BY <1>3
<1>5. ASSUME NEW j \in S, j < k PROVE FALSE
  <2>1. 0 .. j \in SUBSET Nat /\ 0 .. k \in SUBSET Nat
    OBVIOUS
  <2>2. 0 .. j \subseteq 0 .. k /\ k \in 0 .. k /\ k \notin 0 .. j
    BY <1>5
  <2>3. <<0 .. j, 0 .. k>> \in R
    BY <2>1, <2>2 DEF StrictSubsetOrdering
  <2> QED BY <1>3, <1>4, <2>3
<1> QED BY <1>5

\* Following returns the next member of is after i, or 0.
LEMMA FollowingIs ==
    ASSUME NEW is \in SUBSET Nat, NEW i \in Nat
    PROVE  LET n == Following(is, i) IN
           IF \E j \in is : j > i
           THEN n \in is /\ n > i /\ \A k \in is : k > i => n <= k
           ELSE n = 0
<1> DEFINE later == {j \in is : j > i}
<1>1. CASE later = {}
  BY <1>1 DEF Following
<1>2. CASE later # {}
  <2>1. PICK m \in later : \A j \in later : m <= j
    <3>1. later \in SUBSET Nat
      OBVIOUS
    <3> HIDE DEF later
    <3> QED BY <1>2, <3>1, LeastNumber
  <2>2. \E j \in is : j > i /\ \A k \in is : k > i => j <= k
    BY <2>1
  <2> QED BY <2>2 DEF Following
<1> QED BY <1>1, <1>2

LEMMA FollowingType ==
    ASSUME NEW is \in SUBSET Nat, NEW i \in Nat
    PROVE  Following(is, i) \in is \cup {0}
BY FollowingIs

\* Sockets are left behind one by one.
LEMMA OneMore ==
    ASSUME NEW S, IsFiniteSet(S), NEW x, NEW T, T \subseteq S \cup {x}
    PROVE  IsFiniteSet(T) /\ Cardinality(T) \in Nat /\ Cardinality(S) \in Nat
           /\ Cardinality(T) <= Cardinality(S) + 1
           /\ (T \subseteq S => Cardinality(T) <= Cardinality(S))
<1>1. IsFiniteSet(S \cup {x}) /\ Cardinality(S) \in Nat
      /\ Cardinality(S \cup {x}) =
            IF x \in S THEN Cardinality(S) ELSE Cardinality(S) + 1
  BY FS_AddElement, FS_CardinalityType
<1>2. IsFiniteSet(T) /\ Cardinality(T) <= Cardinality(S \cup {x})
  BY <1>1, FS_Subset
<1>3. T \subseteq S => Cardinality(T) <= Cardinality(S)
  BY FS_Subset
<1>4. Cardinality(T) \in Nat
  BY <1>2, FS_CardinalityType
<1> QED BY <1>1, <1>2, <1>3, <1>4

LEMMA DescriptorsFinite ==
    IsFiniteSet(Descriptors) /\ Cardinality(Descriptors) = MaxFaults + 3
<1>1. 1 \in Int /\ MaxFaults + 3 \in Int /\ ~(1 > MaxFaults + 3)
      /\ (MaxFaults + 3) - 1 + 1 = MaxFaults + 3
  BY MaxFaultsAssumption
<1> QED BY <1>1, FS_Interval DEF Descriptors

\* Where a socket is opened, there is a free descriptor for it.
LEMMA FreeIsFree ==
    ASSUME SocketsInv, LeakBound, pc \in {"connect", "data", "accept"}
    PROVE  FreeDescriptor \in Descriptors \ DOMAIN conns
<1> DEFINE open == DOMAIN conns
           free == {k \in Descriptors : k \notin open}
<1>1. IsFiniteSet(Leaked) /\ Cardinality(Leaked) <= MaxFaults
      /\ Cardinality(Leaked) \in Nat
  <2>1. Leaked \subseteq Descriptors
    BY DEF Leaked, SocketsInv
  <2>2. faults \in Nat /\ faults <= MaxFaults
    BY MaxFaultsAssumption DEF SocketsInv
  <2>3. IsFiniteSet(Leaked) /\ Cardinality(Leaked) \in Nat
    BY <2>1, DescriptorsFinite, FS_Subset, FS_CardinalityType
  <2> QED BY <2>2, <2>3, MaxFaultsAssumption DEF LeakBound
<1>2. open \subseteq (Leaked \cup {con.csock}) \cup {get.local_sock}
  BY DEF Leaked, Used
<1>3. IsFiniteSet(Leaked \cup {con.csock})
      /\ Cardinality(Leaked \cup {con.csock}) \in Nat
      /\ Cardinality(Leaked \cup {con.csock}) <= Cardinality(Leaked) + 1
  BY <1>1, OneMore
<1>4. IsFiniteSet(open) /\ Cardinality(open) \in Nat
      /\ Cardinality(open) <= Cardinality(Leaked \cup {con.csock}) + 1
  <2> HIDE DEF open
  <2> QED BY <1>2, <1>3, OneMore
<1>5. Cardinality(open) < MaxFaults + 3
  <2> HIDE DEF open
  <2> QED BY <1>1, <1>3, <1>4, MaxFaultsAssumption
<1>6. free # {}
  <2> SUFFICES ASSUME free = {} PROVE FALSE
    OBVIOUS
  <2>1. Descriptors \subseteq open
    OBVIOUS
  <2>2. MaxFaults + 3 <= Cardinality(open)
    <3> HIDE DEF open, free
    <3> QED BY <2>1, <1>4, DescriptorsFinite, FS_Subset
  <2> HIDE DEF open, free
  <2> QED BY <1>4, <1>5, <2>2, MaxFaultsAssumption
<1>7. PICK k \in free : \A j \in free : k <= j
  <2>1. free \in SUBSET Nat
    BY MaxFaultsAssumption DEF Descriptors
  <2> HIDE DEF free
  <2> QED BY <1>6, <2>1, LeastNumber
<1>8. \A j \in 1 .. k - 1 : j \in open
  <2> TAKE j \in 1 .. k - 1
  <2>1. j \in Descriptors /\ ~(k <= j)
    BY MaxFaultsAssumption DEF Descriptors
  <2> QED BY <1>7, <2>1
<1>9. \E m \in Descriptors : m \notin DOMAIN conns /\ \A j \in 1 .. m - 1 : j \in DOMAIN conns
  BY <1>7, <1>8
<1> QED BY <1>9 DEF FreeDescriptor

-----------------------------------------------------------------------------
(***************************************************************************)
(* The sockets, action by action.                                          *)
(***************************************************************************)
LEMMA FaultType ==
    ASSUME faults \in 0 .. MaxFaults
    PROVE  (Fault => faults' = faults + 1) /\ (Fault \/ UNCHANGED faults =>
              faults' \in 0 .. MaxFaults /\ faults' >= faults)
BY MaxFaultsAssumption DEF Fault

\* Nothing is left behind, or one socket for one failure.
LEMMA LeakKept ==
    ASSUME SocketsInv, LeakBound, Fault \/ UNCHANGED faults, NEW x,
           Leaked' \subseteq Leaked \/ (Fault /\ Leaked' \subseteq Leaked \cup {x})
    PROVE  LeakBound'
<1>1. IsFiniteSet(Leaked)
  <2>1. Leaked \subseteq Descriptors
    BY DEF Leaked, SocketsInv
  <2> QED BY <2>1, DescriptorsFinite, FS_Subset
<1>2. faults \in Nat /\ faults' \in Nat /\ faults' >= faults /\ (Fault => faults' = faults + 1)
  BY FaultType, MaxFaultsAssumption DEF SocketsInv
<1>3. Leaked' \subseteq Leaked \cup {x}
  OBVIOUS
<1>4. Cardinality(Leaked') \in Nat /\ Cardinality(Leaked) \in Nat
      /\ Cardinality(Leaked') <= Cardinality(Leaked) + 1
      /\ (Leaked' \subseteq Leaked => Cardinality(Leaked') <= Cardinality(Leaked))
  <2> HIDE DEF Leaked
  <2> QED BY <1>1, <1>3, OneMore
<1> QED BY <1>2, <1>4 DEF LeakBound

\* getftp returns, with what how tells closed.
LEMMA EndSockets ==
    ASSUME SocketsInv, TypesInv, pc \in Walk, UNCHANGED <<opt, site, get>>,
           Fault \/ UNCHANGED faults,
           NEW how \in {"all", "data", "dangling", "none"}, NEW e, End(how, e),
           opt.ftp_pasv => Used \ {con.csock} \subseteq Closed(how)
    PROVE  /\ SocketsInv'
           /\ Leaked' \subseteq Leaked \cup (Used \ ({con.csock} \cup Closed(how)))
<1>1. faults' \in 0 .. MaxFaults
  BY FaultType DEF SocketsInv
<1>2. pc' = "judge" /\ Used' = {con'.csock}
  BY DEF End, Used
<1>3. con'.csock = IF how = "all" THEN 0 ELSE con.csock
  BY DEF End, TypesInv, Cons
<1>4. get.csock = con.csock /\ 0 \notin DOMAIN conns
  BY MaxFaultsAssumption DEF SocketsInv, Descriptors
<1>5. DOMAIN conns' = DOMAIN conns \ Closed(how)
      /\ \A k \in DOMAIN conns' : conns'[k] = conns[k]
  BY DEF End
<1>6. Used \subseteq {con.csock, get.dtsock, get.local_sock} /\ con.csock \in Used
  BY DEF Used
<1>7. Leaked' \subseteq Leaked \cup (Used \ ({con.csock} \cup Closed(how)))
  <2>1. Leaked' = DOMAIN conns' \ {con'.csock}
    BY <1>2 DEF Leaked
  <2> QED BY <1>3, <1>4, <1>5, <1>6, <2>1 DEF Leaked, Closed
<1>8. opt.ftp_pasv => Leaked' = {}
  BY <1>7 DEF SocketsInv
<1>9. conns' \in [DOMAIN conns' -> Sockets']
  BY <1>5 DEF End, SocketsInv, Sockets, Directories
<1> QED
  BY <1>1, <1>2, <1>3, <1>4, <1>5, <1>7, <1>8, <1>9
  DEF SocketsInv, Live, Walk, LoginStages, TransferStages, Closed

\* Getftp goes on with the same sockets.
LEMMA GoOnSockets ==
    ASSUME SocketsInv, LeakBound, TypesInv, pc \in Walk, pc' \in Walk \ {"connect"},
           pc' = "accept" => ~opt.ftp_pasv,
           UNCHANGED <<opt, site, conns>>, Fault \/ UNCHANGED faults,
           con'.csock = con.csock, get'.csock = get.csock, get'.dtsock = get.dtsock,
           get'.local_sock = get.local_sock, Used' = Used,
           pc' \in LoginStages => pc \in LoginStages,
           pc' \in LoginStages \cup TransferStages \cup {"response"} => Live
    PROVE  SocketsInv' /\ LeakBound'
<1>1. faults' \in 0 .. MaxFaults
  BY FaultType DEF SocketsInv
<1>2. Leaked' = Leaked
  BY DEF Leaked
<1>3. LeakBound'
  BY <1>2, LeakKept
<1> QED
  BY <1>1, <1>2, <1>3 DEF SocketsInv, Live, Walk, LoginStages, TransferStages, Sockets, Directories

\* A new socket takes a descriptor that is not in use, and starts in the login directory.
LEMMA OpenedSockets ==
    ASSUME SocketsInv, LeakBound, pc \in {"connect", "data", "accept"}, UNCHANGED site,
           NEW kind \in {"control", "data", "listen"},
           conns' = Opened(FreeDescriptor, kind)
    PROVE  LET k == FreeDescriptor IN
           /\ k \in Descriptors /\ k \notin DOMAIN conns /\ k # 0
           /\ DOMAIN conns' = DOMAIN conns \cup {k}
           /\ conns' \in [DOMAIN conns' -> Sockets'] /\ DOMAIN conns' \subseteq Descriptors
           /\ conns'[k] = [kind |-> kind, dir |-> Empty, prot |-> FALSE]
           /\ \A j \in DOMAIN conns : conns'[j] = conns[j]
<1> DEFINE k == FreeDescriptor
<1>1. k \in Descriptors \ DOMAIN conns /\ 0 \notin Descriptors
  BY FreeIsFree, MaxFaultsAssumption DEF Descriptors
<1>2. Empty \in Directories
  BY SitesAssumption DEF Directories, SocketsInv
<1> HIDE DEF k
<1> QED BY <1>1, <1>2 DEF Opened, SocketsInv, Sockets, Directories, k

LEMMA ConnectSockets ==
    ASSUME SocketsInv, LeakBound, TypesInv, Connect
    PROVE  SocketsInv' /\ LeakBound'
<1>1. pc = "connect" /\ pc \in Walk /\ con.csock = 0 /\ get.csock = 0
      /\ get.dtsock = 0 /\ get.local_sock = 0 /\ Used = {0}
  BY DEF Connect, SocketsInv, Walk, Used
<1>2. CASE /\ conns' = Opened(FreeDescriptor, "control")
           /\ con' = [con EXCEPT !.csock = FreeDescriptor]
           /\ get' = [get EXCEPT !.csock = FreeDescriptor, !.secure = opt.ftps = "implicit"]
           /\ pc' = After("connect") /\ UNCHANGED faults
  <2> DEFINE k == FreeDescriptor
  <2>1. UNCHANGED <<opt, site>>
    BY DEF Connect, unchangedInGetftp
  <2>2. /\ k \in Descriptors /\ k \notin DOMAIN conns /\ k # 0
        /\ DOMAIN conns' = DOMAIN conns \cup {k}
        /\ conns' \in [DOMAIN conns' -> Sockets'] /\ DOMAIN conns' \subseteq Descriptors
        /\ conns'[k].kind = "control"
    BY <1>1, <1>2, <2>1, OpenedSockets
  <2>3. pc' \in {"tls", "greeting"}
    BY <1>2 DEF After
  <2>4. con'.csock = k /\ get'.csock = k /\ get'.dtsock = 0 /\ get'.local_sock = 0
    BY <1>1, <1>2 DEF TypesInv, Cons, Gets
  <2>5. Used' = {k}
    BY <2>3, <2>4 DEF Used
  <2>6. Leaked' \subseteq Leaked
    BY <1>1, <2>2, <2>5, MaxFaultsAssumption DEF Leaked, SocketsInv, Descriptors
  <2>7. LeakBound'
    BY <1>2, <2>6, LeakKept
  <2> HIDE DEF k
  <2> QED
    BY <1>2, <2>1, <2>2, <2>3, <2>4, <2>6, <2>7
    DEF SocketsInv, Live, Walk, LoginStages, TransferStages
<1>3. CASE Fault /\ UNCHANGED get /\ \E e \in {"HOSTERR", "CONERROR", "CONIMPOSSIBLE"} : End("none", e)
  <2>1. PICK e \in {"HOSTERR", "CONERROR", "CONIMPOSSIBLE"} : End("none", e)
    BY <1>3
  <2>2. UNCHANGED <<opt, site, get>>
    BY <1>3 DEF Connect, unchangedInGetftp
  <2>3. SocketsInv' /\ Leaked' \subseteq Leaked
    BY <1>1, <1>3, <2>1, <2>2, EndSockets
  <2> QED BY <1>3, <2>3, LeakKept
<1> QED BY <1>2, <1>3 DEF Connect, Go

LEMMA CommandFailsSockets ==
    ASSUME SocketsInv, LeakBound, TypesInv, CommandFails
    PROVE  SocketsInv' /\ LeakBound'
<1>1. PICK e : End("all", e)
  BY DEF CommandFails
<1>2. pc \in Walk /\ UNCHANGED <<opt, site, get>> /\ (Fault \/ UNCHANGED faults)
  BY DEF CommandFails, Unexpected, commandOnly, unchangedInGetftp, ControlStages, Walk,
         LoginStages, TransferStages
<1>3. Used \subseteq {con.csock} \cup Closed("all")
  BY DEF Used, Closed
<1>4. SocketsInv' /\ Leaked' \subseteq Leaked
  BY <1>1, <1>2, <1>3, EndSockets
<1> QED BY <1>2, <1>4, LeakKept

LEMMA CannotWriteSockets ==
    ASSUME SocketsInv, LeakBound, TypesInv, CannotWrite
    PROVE  SocketsInv' /\ LeakBound'
<1>1. /\ pc \in Walk /\ pc \in ControlStages /\ UNCHANGED <<opt, site, get>>
      /\ Fault \/ UNCHANGED faults
  BY DEF CannotWrite, commandOnly, unchangedInGetftp, ControlStages, Walk, LoginStages,
         TransferStages
<1>2. CASE pc' = "aborted" /\ UNCHANGED <<con, conns>> /\ pc \in {"syst", "pwd", "size"}
  <2>1. Used = {con.csock} /\ Used' = {con.csock}
    BY <1>2 DEF Used
  <2>2. Leaked' = Leaked
    BY <1>2, <2>1 DEF Leaked
  <2>3. LeakBound' /\ faults' \in 0 .. MaxFaults
    BY <1>1, <2>2, LeakKept, FaultType DEF SocketsInv
  <2> QED
    BY <1>1, <1>2, <2>2, <2>3
    DEF SocketsInv, Live, Walk, LoginStages, TransferStages, Sockets, Directories
<1>3. CASE pc = "data" /\ End("none", "FTPSYSERR")
  <2>1. Used = {con.csock}
    BY <1>3 DEF Used
  <2>2. SocketsInv' /\ Leaked' \subseteq Leaked
    BY <1>1, <1>3, <2>1, EndSockets
  <2> QED BY <1>1, <2>2, LeakKept
<1>4. CASE End("all", "WRITEFAILED")
  <2>1. Used \subseteq {con.csock} \cup Closed("all")
    BY DEF Used, Closed
  <2>2. SocketsInv' /\ Leaked' \subseteq Leaked
    BY <1>1, <1>4, <2>1, EndSockets
  <2> QED BY <1>1, <2>2, LeakKept
<1> QED BY <1>2, <1>3, <1>4 DEF CannotWrite, Go

\* The commands up to the directory and the size open and close nothing.
LEMMA LoginSockets ==
    ASSUME SocketsInv, LeakBound, TypesInv, Answered \/ Auth \/ Handshake \/ Prot \/ Syst
    PROVE  SocketsInv' /\ LeakBound'
<1>1. CASE Answered
  <2>1. pc' \in {"auth", "login", "prot", "syst", "type", "cwd", "size"}
        /\ pc \in {"greeting", "login", "pwd", "type", "cwd"}
    BY <1>1 DEF Answered, After, Go
  <2>2. UNCHANGED <<opt, site, conns, con, get, faults>>
    BY <1>1 DEF Answered, commandAnswered, commandOnly, unchangedInGetftp
  <2>3. pc' \in LoginStages => pc \in LoginStages
    BY <1>1, <2>1 DEF LoginStages, Answered, After, Go
  <2>4. Used' = Used
    BY <2>1, <2>2 DEF Used
  <2> QED
    BY <2>1, <2>2, <2>3, <2>4, GoOnSockets
    DEF Walk, LoginStages, TransferStages, SocketsInv
<1>2. CASE Auth
  <2>1. /\ pc = "auth" /\ pc \in Walk /\ UNCHANGED <<opt, site>> /\ Used = {con.csock}
        /\ Fault \/ UNCHANGED faults
    BY <1>2 DEF Auth, unchangedInGetftp, Walk, LoginStages, Used
  <2>2. CASE End("dangling", "FTPNOAUTH") /\ UNCHANGED get
    <3>1. SocketsInv' /\ Leaked' \subseteq Leaked
      BY <2>1, <2>2, EndSockets
    <3> QED BY <2>1, <3>1, LeakKept
  <2>3. CASE pc' \in {"tls", "login"} /\ UNCHANGED <<con, conns>>
             /\ (UNCHANGED get \/ get' = [get EXCEPT !.secure = TRUE])
    <3>1. /\ get'.csock = get.csock /\ get'.dtsock = get.dtsock
          /\ get'.local_sock = get.local_sock /\ Used' = Used
      BY <2>1, <2>3 DEF TypesInv, Gets, Used
    <3> QED
      BY <2>1, <2>3, <3>1, GoOnSockets DEF Walk, LoginStages, TransferStages, SocketsInv
  <2> QED BY <1>2, <2>2, <2>3 DEF Auth, Go
<1>3. CASE Handshake
  <2>1. pc = "tls" /\ pc \in Walk /\ UNCHANGED <<opt, site, get>> /\ Used = {con.csock}
    BY <1>3 DEF Handshake, commandOnly, unchangedInGetftp, Walk, LoginStages, Used
  <2>2. CASE pc' = After("tls") /\ UNCHANGED <<con, conns, faults>>
    <3>1. pc' \in {"greeting", "login"}
      BY <2>2 DEF After
    <3>2. Used' = Used
      BY <2>1, <2>2, <3>1 DEF Used
    <3> QED
      BY <2>1, <2>2, <3>1, <3>2, GoOnSockets DEF Walk, LoginStages, TransferStages, SocketsInv
  <2>3. CASE Fault /\ \E e \in {"CONSSLERR", "VERIFCERTERR"} : End("dangling", e)
    <3>1. SocketsInv' /\ Leaked' \subseteq Leaked
      BY <2>1, <2>3, EndSockets
    <3> QED BY <2>3, <3>1, LeakKept
  <2> QED BY <1>3, <2>2, <2>3 DEF Handshake, Go
<1>4. CASE Prot
  <2>1. /\ pc = "prot" /\ pc \in Walk /\ UNCHANGED <<opt, site>> /\ Used = {con.csock}
        /\ Fault \/ UNCHANGED faults
    BY <1>4 DEF Prot, unchangedInGetftp, Walk, LoginStages, Used
  <2>2. CASE End("none", "FTPNOPROT") /\ UNCHANGED get
    <3>1. SocketsInv' /\ Leaked' \subseteq Leaked
      BY <2>1, <2>2, EndSockets
    <3> QED BY <2>1, <3>1, LeakKept
  <2>3. CASE /\ \/ UNCHANGED conns
                \/ conns' = [conns EXCEPT ![get.csock].prot = ~opt.prot_clear]
             /\ get' = [get EXCEPT !.protected = ~opt.prot_clear]
             /\ con' = IF opt.prot_clear THEN con
                       ELSE [con EXCEPT !.st = @ \cup {"DATA_SECURITY"}]
             /\ pc' = After("prot")
    <3>1. pc' = "syst" /\ con'.csock = con.csock /\ get'.csock = get.csock
          /\ get'.dtsock = get.dtsock /\ get'.local_sock = get.local_sock
      BY <2>3 DEF After, TypesInv, Gets, Cons
    <3>2. Used' = Used
      BY <2>1, <3>1 DEF Used
    <3>3. /\ DOMAIN conns' = DOMAIN conns /\ conns' \in [DOMAIN conns' -> Sockets']
          /\ \A k \in DOMAIN conns : conns'[k].kind = conns[k].kind
      <4>1. conns \in [DOMAIN conns -> Sockets]
        BY DEF SocketsInv
      <4>2. CASE UNCHANGED conns
        BY <2>1, <4>1, <4>2 DEF Sockets, Directories
      <4>3. CASE conns' = [conns EXCEPT ![get.csock].prot = ~opt.prot_clear]
        <5>1. (~opt.prot_clear) \in BOOLEAN
          OBVIOUS
        <5>2. PICK b \in BOOLEAN : conns' = [conns EXCEPT ![get.csock].prot = b]
          BY <4>3, <5>1
        <5>3. ASSUME NEW k \in DOMAIN conns
              PROVE  [conns[k] EXCEPT !.prot = b] \in Sockets
                     /\ [conns[k] EXCEPT !.prot = b].kind = conns[k].kind
          BY <4>1 DEF Sockets
        <5> QED BY <2>1, <4>1, <5>2, <5>3 DEF Sockets, Directories
      <4> QED BY <2>3, <4>2, <4>3
    <3>4. Leaked' = Leaked
      BY <3>2, <3>3 DEF Leaked
    <3>5. LeakBound' /\ faults' \in 0 .. MaxFaults
      BY <2>1, <3>4, LeakKept, FaultType DEF SocketsInv
    <3> QED
      BY <2>1, <3>1, <3>3, <3>4, <3>5
      DEF SocketsInv, Live, Walk, LoginStages, TransferStages
  <2> QED BY <1>4, <2>2, <2>3 DEF Prot, Go
<1>5. CASE Syst
  <2>1. /\ pc = "syst" /\ pc \in Walk /\ UNCHANGED <<opt, site, get, conns, faults>>
        /\ con'.csock = con.csock /\ pc' = "pwd"
    BY <1>5 DEF Syst, commandAnswered, commandOnly, unchangedInGetftp, Walk, LoginStages,
                After, Go, TypesInv, Cons
  <2>2. Used' = Used
    BY <2>1 DEF Used
  <2> QED
    BY <2>1, <2>2, GoOnSockets DEF Walk, LoginStages, TransferStages, SocketsInv
<1> QED BY <1>1, <1>2, <1>3, <1>4, <1>5

LEMMA CwdSizeSockets ==
    ASSUME SocketsInv, LeakBound, TypesInv, Cwd \/ Size
    PROVE  SocketsInv' /\ LeakBound'
<1>1. pc \in {"cwd", "size"} /\ pc \in Walk /\ UNCHANGED <<opt, site, get, faults>>
      /\ Used = {con.csock}
  BY DEF Cwd, Size, commandOnly, unchangedInGetftp, Walk, Used
<1>2. ASSUME NEW e, End("all", e) PROVE SocketsInv' /\ LeakBound'
  <2>1. SocketsInv' /\ Leaked' \subseteq Leaked
    BY <1>1, <1>2, EndSockets
  <2> QED BY <1>1, <2>1, LeakKept
<1>3. CASE pc' \in {"size", "data"} /\ con' = con /\ DOMAIN conns' = DOMAIN conns
           /\ conns' \in [DOMAIN conns' -> Sockets']
           /\ \A k \in DOMAIN conns : conns'[k].kind = conns[k].kind
  <2>1. Used' = Used
    BY <1>1, <1>3 DEF Used
  <2>2. Leaked' = Leaked
    BY <1>3, <2>1 DEF Leaked
  <2>3. LeakBound'
    BY <1>1, <2>2, LeakKept
  <2> QED
    BY <1>1, <1>3, <2>2, <2>3 DEF SocketsInv, Live, Walk, LoginStages, TransferStages
<1>4. CASE Cwd
  <2>1. CASE /\ \/ UNCHANGED conns
                \/ /\ loop.dir \in Directories
                   /\ conns' = [conns EXCEPT ![get.csock].dir = loop.dir]
             /\ con' = con /\ pc' = "size"
    <3>1. conns \in [DOMAIN conns -> Sockets]
      BY DEF SocketsInv
    <3>2. /\ DOMAIN conns' = DOMAIN conns /\ conns' \in [DOMAIN conns' -> Sockets']
          /\ \A k \in DOMAIN conns : conns'[k].kind = conns[k].kind
      BY <1>1, <2>1, <3>1 DEF Sockets, Directories
    <3> QED BY <1>3, <2>1, <3>2
  <2>2. CASE End("all", "FTPNSFOD")
    BY <1>2, <2>2
  <2> QED BY <1>4, <2>1, <2>2 DEF Cwd, Directories, After, Go
<1>5. CASE Size
  <2>1. CASE pc' = "data" /\ UNCHANGED <<con, conns>>
    BY <1>1, <1>3, <2>1 DEF SocketsInv, Sockets, Directories
  <2>2. CASE End("all", "RETRFINISHED")
    BY <1>2, <2>2
  <2> QED BY <1>5, <2>1, <2>2 DEF Size, Go
<1> QED BY <1>4, <1>5

LEMMA PassivePortSockets ==
    ASSUME SocketsInv, LeakBound, TypesInv, Passive \/ Port
    PROVE  SocketsInv' /\ LeakBound'
<1>1. /\ pc = "data" /\ pc \in Walk /\ UNCHANGED <<opt, site>> /\ Used = {con.csock}
      /\ Live /\ get.csock = con.csock
  BY DEF Passive, Port, unchangedInGetftp, Walk, Used, Alive, SocketsInv, Live
<1>2. ASSUME NEW how \in {"all", "none"}, NEW e, End(how, e), UNCHANGED get,
             Fault \/ UNCHANGED faults
      PROVE  SocketsInv' /\ LeakBound'
  <2>1. SocketsInv' /\ Leaked' \subseteq Leaked
    BY <1>1, <1>2, EndSockets
  <2> QED BY <1>2, <2>1, LeakKept
<1>3. ASSUME NEW kind \in {"data", "listen"}, conns' = Opened(FreeDescriptor, kind),
             get' = IF opt.ftp_pasv THEN [get EXCEPT !.dtsock = FreeDescriptor]
                    ELSE [get EXCEPT !.local_sock = FreeDescriptor],
             pc' = After("data"), UNCHANGED <<con, faults>>
      PROVE  SocketsInv' /\ LeakBound'
  <2> DEFINE k == FreeDescriptor
  <2>1. /\ k \in Descriptors /\ k \notin DOMAIN conns /\ k # 0
        /\ DOMAIN conns' = DOMAIN conns \cup {k}
        /\ conns' \in [DOMAIN conns' -> Sockets'] /\ DOMAIN conns' \subseteq Descriptors
        /\ \A j \in DOMAIN conns : conns'[j] = conns[j]
    BY <1>1, <1>3, OpenedSockets
  <2>2. pc' \in {"rest", "transfer"}
    BY <1>3 DEF After
  <2>3. /\ get'.csock = get.csock
        /\ get'.dtsock = IF opt.ftp_pasv THEN k ELSE get.dtsock
        /\ get'.local_sock = IF opt.ftp_pasv THEN get.local_sock ELSE k
    BY <1>3 DEF TypesInv, Gets
  <2>4. Used' = {con.csock, k}
    BY <1>1, <1>3, <2>2, <2>3 DEF Used
  <2>5. Leaked' = Leaked
    BY <1>1, <2>1, <2>4 DEF Leaked, Live
  <2>6. LeakBound'
    BY <1>3, <2>5, LeakKept
  <2> HIDE DEF k
  <2> QED
    BY <1>1, <1>3, <2>1, <2>2, <2>3, <2>5, <2>6
    DEF SocketsInv, Live, Walk, LoginStages, TransferStages
<1>4. CASE Passive
  <2>1. opt.ftp_pasv
    BY <1>4 DEF Passive
  <2> QED BY <1>2, <1>3, <1>4, <2>1 DEF Passive, Unexpected, Go
<1>5. CASE Port
  <2>1. ~opt.ftp_pasv
    BY <1>5 DEF Port
  <2> QED BY <1>2, <1>3, <1>5, <2>1 DEF Port, Go
<1> QED BY <1>4, <1>5

LEMMA TransferSockets ==
    ASSUME SocketsInv, LeakBound, TypesInv, Rest \/ Retr \/ List
    PROVE  SocketsInv' /\ LeakBound'
<1>1. pc \in {"rest", "transfer"} /\ pc \in Walk /\ UNCHANGED <<opt, site>>
      /\ (Fault \/ UNCHANGED faults) /\ Live
  BY DEF Rest, Retr, List, Unexpected, commandOnly, unchangedInGetftp, Walk, TransferStages,
         SocketsInv
<1>2. CASE End("data", "FTPNSFOD") /\ UNCHANGED get
  <2>1. Used \subseteq {con.csock} \cup Closed("data")
    BY <1>1 DEF Used, Closed
  <2>2. SocketsInv' /\ Leaked' \subseteq Leaked
    BY <1>1, <1>2, <2>1, EndSockets
  <2> QED BY <1>1, <2>2, LeakKept
<1>3. CASE /\ pc' \in {"transfer", "open", "accept"} /\ UNCHANGED <<con, conns>>
           /\ pc' = "open" => opt.ftp_pasv
           /\ pc' = "accept" => ~opt.ftp_pasv
           /\ get'.csock = get.csock /\ get'.dtsock = get.dtsock
           /\ get'.local_sock = get.local_sock
  <2>1. Used' = Used
    BY <1>1, <1>3 DEF Used
  <2> QED
    BY <1>1, <1>3, <2>1, GoOnSockets DEF Walk, LoginStages, TransferStages, SocketsInv
<1>4. CASE Rest
  <2>1. /\ \E refused : get' = [get EXCEPT !.rest_failed = refused]
        /\ UNCHANGED <<con, conns>> /\ pc' = "transfer"
    BY <1>4 DEF Rest, After, Go
  <2> QED BY <1>3, <2>1 DEF TypesInv, Gets
<1>5. CASE Retr
  BY <1>2, <1>3, <1>5 DEF Retr, transferred, Go, commandOnly
<1>6. CASE List
  <2>1. CASE /\ \E c \in {"LIST_a", "LIST"} : get' = [get EXCEPT !.list = c]
             /\ pc' = transferred /\ UNCHANGED <<con, conns>>
    BY <1>3, <2>1 DEF transferred, TypesInv, Gets
  <2> QED BY <1>2, <1>6, <2>1 DEF List, Go
<1> QED BY <1>4, <1>5, <1>6

LEMMA AcceptSockets ==
    ASSUME SocketsInv, LeakBound, TypesInv, Accept
    PROVE  SocketsInv' /\ LeakBound'
<1>1. /\ pc = "accept" /\ pc \in Walk /\ UNCHANGED <<opt, site>> /\ Live
      /\ Used = {con.csock, get.local_sock} /\ ~opt.ftp_pasv /\ get.csock = con.csock
  BY DEF Accept, unchangedInGetftp, Walk, Used, SocketsInv, Live, TransferStages
<1>2. CASE Fault /\ End("none", "CONERROR") /\ UNCHANGED get
  <2>1. SocketsInv' /\ Leaked' \subseteq Leaked \cup {get.local_sock}
    BY <1>1, <1>2, EndSockets
  <2> QED BY <1>2, <2>1, LeakKept
<1>3. CASE /\ conns' = Opened(FreeDescriptor, "data") /\ pc' = "open"
           /\ get' = [get EXCEPT !.dtsock = FreeDescriptor] /\ UNCHANGED <<con, faults>>
  <2> DEFINE k == FreeDescriptor
  <2>1. /\ k \in Descriptors /\ k \notin DOMAIN conns /\ k # 0
        /\ DOMAIN conns' = DOMAIN conns \cup {k}
        /\ conns' \in [DOMAIN conns' -> Sockets'] /\ DOMAIN conns' \subseteq Descriptors
        /\ \A j \in DOMAIN conns : conns'[j] = conns[j]
    BY <1>1, <1>3, OpenedSockets
  <2>2. /\ get'.csock = get.csock /\ get'.dtsock = k /\ get'.local_sock = get.local_sock
    BY <1>3 DEF TypesInv, Gets
  <2>3. Used' = {con.csock, k, get.local_sock}
    BY <1>1, <1>3, <2>2 DEF Used
  <2>4. Leaked' \subseteq Leaked
    BY <1>1, <2>1, <2>3 DEF Leaked
  <2>5. LeakBound'
    BY <1>3, <2>4, LeakKept
  <2> HIDE DEF k
  <2> QED
    BY <1>1, <1>3, <2>1, <2>2, <2>4, <2>5
    DEF SocketsInv, Live, Walk, LoginStages, TransferStages
<1> QED BY <1>2, <1>3 DEF Accept, Go

LEMMA BodySockets ==
    ASSUME SocketsInv, LeakBound, TypesInv, Open \/ DataHandshake \/ Body
    PROVE  SocketsInv' /\ LeakBound'
<1>1. /\ pc \in {"open", "datatls", "body"} /\ pc \in Walk /\ UNCHANGED <<opt, site>>
      /\ (Fault \/ UNCHANGED faults) /\ Live /\ get.csock = con.csock
      /\ Used = IF opt.ftp_pasv THEN {con.csock, get.dtsock}
                ELSE {con.csock, get.dtsock, get.local_sock}
  BY DEF Open, DataHandshake, Body, commandOnly, unchangedInGetftp, Walk, TransferStages,
         SocketsInv, Used
<1>2. ASSUME NEW e, End("all", e), UNCHANGED get PROVE SocketsInv' /\ LeakBound'
  <2>1. Used \subseteq {con.csock} \cup Closed("all")
    BY <1>1 DEF Closed
  <2>2. SocketsInv' /\ Leaked' \subseteq Leaked
    BY <1>1, <1>2, <2>1, EndSockets
  <2> QED BY <1>1, <2>2, LeakKept
<1>3. CASE pc' \in {"datatls", "body"} /\ UNCHANGED <<con, conns, get>>
  <2>1. Used' = Used
    BY <1>1, <1>3 DEF Used
  <2> QED
    BY <1>1, <1>3, <2>1, GoOnSockets DEF Walk, LoginStages, TransferStages, SocketsInv
<1>4. CASE Open
  BY <1>2, <1>3, <1>4 DEF Open, Go
<1>5. CASE DataHandshake
  <2>1. CASE Fault /\ End("dangling", "CONERROR")
    <3>1. Used \ ({con.csock} \cup Closed("dangling")) \subseteq {get.local_sock}
          /\ (opt.ftp_pasv => Used \ {con.csock} \subseteq Closed("dangling"))
      BY <1>1 DEF Closed
    <3>2. UNCHANGED get
      BY <1>5 DEF DataHandshake, commandOnly
    <3>3. SocketsInv' /\ Leaked' \subseteq Leaked \cup {get.local_sock}
      BY <1>1, <2>1, <3>1, <3>2, EndSockets
    <3> QED BY <2>1, <3>3, LeakKept
  <2> QED BY <1>3, <1>5, <2>1 DEF DataHandshake, Go, commandOnly
<1>6. CASE Body
  <2>1. CASE /\ conns' = [k \in DOMAIN conns \ Closed("data") |-> conns[k]]
             /\ pc' = "response" /\ con' = con
             /\ get'.csock = get.csock /\ get'.dtsock = get.dtsock
             /\ get'.local_sock = get.local_sock
    <3>1. DOMAIN conns' = DOMAIN conns \ {get.dtsock, get.local_sock}
          /\ \A k \in DOMAIN conns' : conns'[k] = conns[k]
      BY <2>1 DEF Closed
    <3>2. Used' = {con.csock}
      BY <2>1 DEF Used
    <3>3. Leaked' \subseteq Leaked
      BY <1>1, <3>1, <3>2 DEF Leaked
    <3>4. LeakBound' /\ faults' \in 0 .. MaxFaults
      BY <1>1, <3>3, LeakKept, FaultType DEF SocketsInv
    <3>5. conns' \in [DOMAIN conns' -> Sockets']
      BY <1>1, <2>1, <3>1 DEF SocketsInv, Sockets, Directories
    <3>6. 0 \notin DOMAIN conns
      BY MaxFaultsAssumption DEF SocketsInv, Descriptors
    <3>7. con.csock \in DOMAIN conns'
      BY <1>1, <3>1, <3>6 DEF SocketsInv, Live
    <3> QED
      BY <1>1, <2>1, <3>1, <3>3, <3>4, <3>5, <3>7
      DEF SocketsInv, Live, Walk, LoginStages, TransferStages
  <2>2. ASSUME NEW to, NEW res,
               get' = [get EXCEPT !.res = res, !.whole = (to = Last /\ Agreed),
                                  !.rd_size = Skip(to)]
        PROVE  get'.csock = get.csock /\ get'.dtsock = get.dtsock
               /\ get'.local_sock = get.local_sock
    BY <2>2 DEF TypesInv, Gets
  <2> QED BY <1>2, <1>6, <2>1, <2>2 DEF Body, Go
<1> QED BY <1>4, <1>5, <1>6

LEMMA ResponseSockets ==
    ASSUME SocketsInv, LeakBound, TypesInv, Completed \/ Aborted
    PROVE  SocketsInv' /\ LeakBound'
<1>1. /\ pc = "response" /\ pc \in Walk /\ UNCHANGED <<opt, site>> /\ Live
      /\ (Fault \/ UNCHANGED faults) /\ Used = {con.csock} /\ get.csock = con.csock
  BY DEF Completed, Aborted, Unexpected, commandOnly, unchangedInGetftp, Walk, SocketsInv,
         Used
<1>2. ASSUME NEW how \in {"all", "none"}, NEW e, End(how, e), UNCHANGED get
      PROVE  SocketsInv' /\ LeakBound'
  <2>1. SocketsInv' /\ Leaked' \subseteq Leaked
    BY <1>1, <1>2, EndSockets
  <2> QED BY <1>1, <2>1, LeakKept
<1>3. CASE Completed
  <2>1. CASE con' = [con EXCEPT !.st = Negotiate(con.st).st] /\ UNCHANGED conns
    <3>1. con'.csock = con.csock
      BY <2>1 DEF TypesInv, Cons
    <3>2. CASE pc' = "data" /\ get' = [get EXCEPT !.previous_rd_size = get.rd_size]
      <4>1. /\ get'.csock = get.csock /\ get'.dtsock = get.dtsock
            /\ get'.local_sock = get.local_sock
        BY <3>2 DEF TypesInv, Gets
      <4>2. Used' = Used
        BY <1>1, <3>1, <3>2 DEF Used
      <4> QED
        BY <1>1, <2>1, <3>1, <3>2, <4>1, <4>2, GoOnSockets
        DEF Walk, LoginStages, TransferStages, SocketsInv
    <3>3. CASE pc' = "judge" /\ UNCHANGED get
      <4>1. Used' = Used
        BY <1>1, <3>1, <3>3 DEF Used
      <4>2. Leaked' = Leaked
        BY <2>1, <4>1 DEF Leaked
      <4>3. LeakBound' /\ faults' \in 0 .. MaxFaults
        BY <1>1, <4>2, LeakKept, FaultType DEF SocketsInv
      <4> QED
        BY <1>1, <2>1, <3>1, <3>3, <4>2, <4>3
        DEF SocketsInv, Live, Walk, LoginStages, TransferStages, Sockets, Directories
    <3> QED BY <1>3, <2>1, <3>2, <3>3 DEF Completed, Go, End
  <2> QED BY <1>2, <1>3, <2>1 DEF Completed
<1>4. CASE Aborted
  BY <1>2, <1>4 DEF Aborted, commandOnly
<1> QED BY <1>3, <1>4

\* getftp has returned, and its connection is closed or kept.
LEMMA AfterwardsSockets ==
    ASSUME SocketsInv, LeakBound, TypesInv, FatalError \/ Retry \/ Saved \/ Abort
    PROVE  SocketsInv' /\ LeakBound'
<1>1. /\ pc = "judge" /\ UNCHANGED <<opt, site, get, faults>> /\ Used = {con.csock}
      /\ pc' \in {"returned", "try", "aborted"} /\ Used' = {con'.csock}
  BY DEF FatalError, Retry, Saved, Abort, judging, Used, GiveUp, Go
<1>2. CASE con'.csock = con.csock /\ UNCHANGED conns
  <2>1. Leaked' = Leaked
    BY <1>1, <1>2 DEF Leaked
  <2>2. LeakBound'
    BY <1>1, <2>1, LeakKept
  <2> QED
    BY <1>1, <1>2, <2>1, <2>2
    DEF SocketsInv, Live, Walk, LoginStages, TransferStages, Sockets, Directories
<1>3. CASE con' = [con EXCEPT !.csock = 0] /\ conns' = WithoutControl
  <2>1. DOMAIN conns' = DOMAIN conns \ {con.csock} /\ con'.csock = 0
        /\ \A k \in DOMAIN conns' : conns'[k] = conns[k]
    BY <1>3 DEF WithoutControl, TypesInv, Cons
  <2>2. Leaked' \subseteq Leaked
    BY <1>1, <2>1 DEF Leaked
  <2>3. LeakBound'
    BY <1>1, <2>2, LeakKept
  <2>4. conns' \in [DOMAIN conns' -> Sockets']
    BY <1>1, <1>3, <2>1 DEF SocketsInv, WithoutControl, Sockets, Directories
  <2>5. 0 \notin DOMAIN conns'
    BY <2>1, MaxFaultsAssumption DEF SocketsInv, Descriptors
  <2> QED
    BY <1>1, <2>1, <2>2, <2>3, <2>4, <2>5
    DEF SocketsInv, Live, Walk, LoginStages, TransferStages
<1>4. con' = WithDoneCwd(con) => con'.csock = con.csock
  BY DEF WithDoneCwd, TypesInv, Cons
<1> QED
  BY <1>2, <1>3, <1>4 DEF FatalError, Retry, Saved, Abort, judging

\* ftp_loop, ftp_loop_internal up to getftp, and the lists: the connection stays.
LEMMA OutsideSockets ==
    ASSUME SocketsInv, LeakBound, UNCHANGED <<opt, site, conns, faults>>,
           con'.csock = con.csock, Used = {con.csock}, Used' = {con.csock},
           pc \notin {"finish", "done"}, pc' \notin {"done", "accept"},
           get'.dtsock \in {0, get.dtsock}, get'.local_sock \in {0, get.local_sock},
           \/ UNCHANGED get /\ pc' \notin Walk
           \/ /\ get'.csock = con.csock /\ get'.dtsock = 0 /\ get'.local_sock = 0
              /\ pc' \in {"connect", "cwd"} /\ (pc' = "connect" => con.csock = 0)
    PROVE  SocketsInv' /\ LeakBound'
<1>1. Leaked' = Leaked
  BY DEF Leaked
<1>2. LeakBound'
  BY <1>1, LeakKept
<1>3. {con'.csock, get'.csock, get'.dtsock, get'.local_sock} \subseteq {0} \cup Descriptors
  BY DEF SocketsInv
<1> QED
  BY <1>1, <1>2, <1>3
  DEF SocketsInv, Live, Walk, LoginStages, TransferStages, Sockets, Directories

LEMMA BeforehandSockets ==
    ASSUME SocketsInv, LeakBound, TypesInv, FtpLoop \/ Enter \/ Try
    PROVE  SocketsInv' /\ LeakBound'
<1>1. CASE FtpLoop
  <2>1. /\ pc = "start" /\ pc' = "enter" /\ UNCHANGED <<opt, site, conns, faults, get>>
        /\ con'.csock = con.csock
    BY <1>1 DEF FtpLoop, Call, Listing, TypesInv, Cons
  <2> QED
    BY <2>1, OutsideSockets DEF Used, Walk, LoginStages, TransferStages
<1>2. CASE Enter
  <2>1. /\ pc = "enter" /\ pc' \in {"returned", "try"} /\ con'.csock = con.csock
        /\ UNCHANGED <<opt, site, conns, faults, get>>
    BY <1>2 DEF Enter, Go, TypesInv, Cons
  <2> QED
    BY <2>1, OutsideSockets DEF Used, Walk, LoginStages, TransferStages
<1>3. CASE Try
  <2>1. /\ pc = "try" /\ UNCHANGED <<opt, site, conns, faults>>
        /\ con'.csock = con.csock /\ pc' \in {"connect", "cwd"}
    BY <1>3 DEF Try, Go, TypesInv, Cons
  <2>2. get'.csock = con.csock /\ get'.dtsock = 0 /\ get'.local_sock = 0
    BY <1>3 DEF Try, ZeroGet
  <2>3. pc' = "connect" => con.csock = 0
    BY <1>3 DEF Try, Go, TryCommands
  <2> QED
    BY <2>1, <2>2, <2>3, OutsideSockets DEF Used, Walk, LoginStages, TransferStages
<1> QED BY <1>1, <1>2, <1>3

LEMMA ListSockets ==
    ASSUME SocketsInv, LeakBound, TypesInv,
           ReturnOwn \/ ReturnListing \/ NextFile \/ ReturnFile \/ NextDir
    PROVE  SocketsInv' /\ LeakBound'
<1>1. /\ pc \in {"returned", "files", "dirs"} /\ UNCHANGED <<opt, site, conns, faults, get>>
      /\ pc' \in {"finish", "dirs", "files", "enter"}
  BY DEF ReturnOwn, ReturnListing, NextFile, ReturnFile, NextDir, globbing, EndGlob, Call, Go
<1>2. con'.csock = con.csock
  BY DEF ReturnOwn, ReturnListing, NextFile, ReturnFile, NextDir, Listing, TypesInv, Cons
<1> QED
  BY <1>1, <1>2, OutsideSockets DEF Used, Walk, LoginStages, TransferStages

LEMMA FinishSockets ==
    ASSUME SocketsInv, LeakBound, TypesInv, Finish
    PROVE  SocketsInv' /\ LeakBound'
<1>1. /\ pc = "finish" /\ UNCHANGED <<opt, site, con, get, faults>> /\ pc' = "done"
      /\ Used = {con.csock} /\ Used' = {con.csock} /\ conns' = WithoutControl
  BY DEF Finish, Used, Go
<1>2. DOMAIN conns' = DOMAIN conns \ {con.csock}
      /\ \A k \in DOMAIN conns' : conns'[k] = conns[k]
  BY <1>1 DEF WithoutControl
<1>3. Leaked' \subseteq Leaked
  BY <1>1, <1>2 DEF Leaked
<1>4. LeakBound'
  BY <1>1, <1>3, LeakKept
<1>5. conns' \in [DOMAIN conns' -> Sockets']
  BY <1>1, <1>2 DEF SocketsInv, WithoutControl, Sockets, Directories
<1> QED
  BY <1>1, <1>2, <1>3, <1>4, <1>5
  DEF SocketsInv, Live, Walk, LoginStages, TransferStages

LEMMA InitSockets ==
    ASSUME Init
    PROVE  SocketsInv /\ LeakBound
<1>1. DOMAIN conns = {} /\ conns \in [DOMAIN conns -> Sockets]
  BY DEF Init
<1>2. Leaked = {}
  BY <1>1 DEF Leaked
<1>3. LeakBound
  BY <1>2, FS_EmptySet DEF Init, LeakBound
<1> QED
  BY <1>1, <1>2, <1>3, MaxFaultsAssumption
  DEF Init, SocketsInv, Live, Walk, LoginStages, TransferStages, ZeroGet

LEMMA StutterSockets ==
    ASSUME SocketsInv, LeakBound, UNCHANGED vars
    PROVE  SocketsInv' /\ LeakBound'
<1>1. UNCHANGED <<opt, site, con, conns, get, pc, faults>>
  BY DEF vars, locals
<1>2. Leaked' = Leaked
  BY <1>1 DEF Leaked, Used
<1> QED
  BY <1>1, <1>2 DEF SocketsInv, LeakBound, Live, Sockets, Directories

LEMMA SocketsStep ==
    ASSUME SocketsInv, LeakBound, TypesInv, [Next]_vars
    PROVE  SocketsInv' /\ LeakBound'
<1>1. CASE Getftp
  BY <1>1, ConnectSockets, CommandFailsSockets, CannotWriteSockets, LoginSockets,
     CwdSizeSockets, PassivePortSockets, TransferSockets, AcceptSockets, BodySockets,
     ResponseSockets
  DEF Getftp
<1> QED
  BY <1>1, AfterwardsSockets, BeforehandSockets, ListSockets, FinishSockets, StutterSockets
  DEF Next, Stopped

-----------------------------------------------------------------------------
(***************************************************************************)
(* The types, action by action.                                            *)
(***************************************************************************)
LEMMA EndTypes ==
    ASSUME TypesInv, pc \in Walk,
           UNCHANGED <<opt, site, disk, listing, loop, frames, total, get>>,
           NEW how, NEW e \in Errs, End(how, e)
    PROVE  TypesInv'
<1>1. con' \in Cons /\ pc' = "judge" /\ err' = e
  BY DEF End, TypesInv, Cons
<1> QED
  BY <1>1
  DEF TypesInv, Stages, ControlStages, Walk, LoginStages, TransferStages, Directories

\* Getftp goes on: nothing but its locals and con change.
LEMMA GoOnTypes ==
    ASSUME TypesInv, pc \in Walk, con' \in Cons, con'.cmd = con.cmd, get' \in Gets,
           UNCHANGED <<opt, site, disk, listing, loop, frames, total, err>>,
           pc' \in Walk \ {"accept", "open", "datatls", "body", "response"}
    PROVE  TypesInv'
<1>1. pc' \in Stages
  BY DEF Walk, LoginStages, TransferStages, Stages, ControlStages
<1> QED
  BY <1>1 DEF TypesInv, Walk, LoginStages, TransferStages, Directories

LEMMA LoginTypes ==
    ASSUME SocketsInv, LeakBound, TypesInv,
           Connect \/ Answered \/ Auth \/ Handshake \/ Prot \/ Syst
    PROVE  TypesInv'
<1>1. pc \in Walk /\ UNCHANGED <<opt, site, disk, listing, loop, frames, total>>
  BY DEF Connect, Answered, Auth, Handshake, Prot, Syst, commandAnswered, commandOnly,
         unchangedInGetftp, unchangedFiles, Walk, LoginStages
<1>2. con \in Cons /\ get \in Gets
  BY DEF TypesInv
<1>3. ASSUME NEW how, NEW e \in Errs, End(how, e), UNCHANGED get PROVE TypesInv'
  BY <1>1, <1>3, EndTypes
<1>4. CASE Connect
  <2>1. pc = "connect"
    BY <1>4 DEF Connect
  <2>2. CASE /\ con' = [con EXCEPT !.csock = FreeDescriptor]
             /\ get' = [get EXCEPT !.csock = FreeDescriptor, !.secure = opt.ftps = "implicit"]
             /\ pc' = After("connect") /\ UNCHANGED err
    <3>1. FreeDescriptor \in Descriptors
      BY <2>1, FreeIsFree
    <3>2. con' \in Cons /\ con'.cmd = con.cmd
      BY <1>2, <2>2, <3>1 DEF Cons
    <3>3. get' \in Gets
      BY <1>2, <2>2, <3>1 DEF Gets
    <3>4. pc' \in {"tls", "greeting"}
      BY <2>2 DEF After
    <3> QED
      BY <1>1, <2>2, <3>2, <3>3, <3>4, GoOnTypes DEF Walk, LoginStages, TransferStages
  <2>3. CASE UNCHANGED get /\ \E e \in {"HOSTERR", "CONERROR", "CONIMPOSSIBLE"} : End("none", e)
    BY <1>3, <2>3 DEF Errs, Fatal, Transient
  <2> QED BY <1>4, <2>2, <2>3 DEF Connect, Go
<1>5. CASE Answered
  <2>1. pc' \in {"auth", "login", "prot", "syst", "type", "cwd", "size"}
    BY <1>5 DEF Answered, After, Go
  <2> QED
    BY <1>1, <1>2, <1>5, <2>1, GoOnTypes
    DEF Answered, commandAnswered, commandOnly, Walk, LoginStages, TransferStages
<1>6. CASE Auth
  <2>1. CASE pc' \in {"tls", "login"} /\ UNCHANGED <<con, err>>
             /\ (UNCHANGED get \/ get' = [get EXCEPT !.secure = TRUE])
    <3>1. get' \in Gets
      BY <1>2, <2>1 DEF Gets
    <3> QED
      BY <1>1, <1>2, <2>1, <3>1, GoOnTypes DEF Walk, LoginStages, TransferStages
  <2> QED BY <1>3, <1>6, <2>1 DEF Auth, Go, Errs, Fatal, Transient
<1>7. CASE Handshake
  <2>1. CASE pc' = After("tls") /\ UNCHANGED <<con, err>>
    <3>1. pc' \in {"greeting", "login"}
      BY <2>1 DEF After
    <3> QED
      BY <1>1, <1>2, <1>7, <2>1, <3>1, GoOnTypes
      DEF Handshake, commandOnly, Walk, LoginStages, TransferStages
  <2> QED BY <1>3, <1>7, <2>1 DEF Handshake, Go, commandOnly, Errs, Fatal, Transient
<1>8. CASE Prot
  <2>1. CASE /\ get' = [get EXCEPT !.protected = ~opt.prot_clear]
             /\ con' = IF opt.prot_clear THEN con
                       ELSE [con EXCEPT !.st = @ \cup {"DATA_SECURITY"}]
             /\ pc' = After("prot") /\ UNCHANGED err
    <3>1. con' \in Cons /\ con'.cmd = con.cmd
      BY <1>2, <2>1 DEF Cons, Flags
    <3>2. (~opt.prot_clear) \in BOOLEAN
      OBVIOUS
    <3>3. get' \in Gets
      BY <1>2, <2>1, <3>2 DEF Gets
    <3> QED
      BY <1>1, <2>1, <3>1, <3>3, GoOnTypes DEF After, Walk, LoginStages, TransferStages
  <2>2. "FTPNOPROT" \in Errs
    BY DEF Errs, Fatal
  <2> QED BY <1>3, <1>8, <2>1, <2>2 DEF Prot, Go
<1>9. CASE Syst
  <2>1. site.system \in {"unix", "l8", "vms", "other"}
    BY SitesAssumption DEF SocketsInv
  <2>2. PICK rs \in {con.rs, site.system, "other"} :
           con' = [con EXCEPT
                     !.rs = rs,
                     !.st = @ \cup (IF rs \in {"vms", "l8"} THEN {"CHECK_DONE"} ELSE {})
                              \cup (IF rs = "vms" THEN {"AVOID_LIST_A"} ELSE {})
                              \cup (IF rs = "l8" THEN {"AVOID_LIST"} ELSE {})]
    BY <1>9 DEF Syst
  <2>3. con' \in Cons /\ con'.cmd = con.cmd
    BY <1>2, <2>1, <2>2 DEF Cons, Flags
  <2> QED
    BY <1>1, <1>2, <1>9, <2>3, GoOnTypes
    DEF Syst, commandAnswered, commandOnly, After, Go, Walk, LoginStages, TransferStages
<1> QED BY <1>4, <1>5, <1>6, <1>7, <1>8, <1>9

LEMMA CommandTypes ==
    ASSUME SocketsInv, LeakBound, TypesInv,
           CommandFails \/ CannotWrite \/ Cwd \/ Size \/ Passive \/ Port \/ Rest
    PROVE  TypesInv'
<1>1. pc \in Walk /\ UNCHANGED <<opt, site, disk, listing, loop, frames, total>>
  BY DEF CommandFails, CannotWrite, Cwd, Size, Passive, Port, Rest, commandOnly,
         unchangedInGetftp, unchangedFiles, Walk, LoginStages, TransferStages, ControlStages
<1>2. con \in Cons /\ get \in Gets
  BY DEF TypesInv
<1>3. ASSUME NEW how, NEW e \in Errs, End(how, e), UNCHANGED get PROVE TypesInv'
  BY <1>1, <1>3, EndTypes
<1>4. CASE CommandFails
  <2>1. PICK e \in Errors(pc) : End("all", e)
    BY <1>4 DEF CommandFails
  <2>2. e \in Errs
    BY <1>4, <2>1 DEF CommandFails, Errors, ControlStages, Errs, Fatal, Transient
  <2> QED BY <1>3, <1>4, <2>1, <2>2 DEF CommandFails, commandOnly
<1>5. CASE CannotWrite
  <2>1. CASE pc' = "aborted" /\ err' = "WRITEFAILED" /\ UNCHANGED <<con, get>>
    BY <1>1, <2>1 DEF TypesInv, Stages, Directories, Walk, LoginStages, TransferStages, Errs, Fatal, Transient
  <2> QED BY <1>3, <1>5, <2>1 DEF CannotWrite, Go, commandOnly, Errs, Fatal, Transient
<1>6. CASE Cwd \/ Size
  <2>1. CASE pc' \in {"size", "data"} /\ UNCHANGED <<con, err, get>>
    BY <1>1, <1>2, <2>1, GoOnTypes DEF Walk, LoginStages, TransferStages
  <2> QED BY <1>3, <1>6, <2>1 DEF Cwd, Size, Go, commandOnly, After, Errs, Fatal, Transient
<1>7. CASE Passive \/ Port
  <2>1. CASE /\ get' \in {[get EXCEPT !.dtsock = FreeDescriptor],
                         [get EXCEPT !.local_sock = FreeDescriptor]}
             /\ pc' = After("data") /\ UNCHANGED <<con, err>>
    <3>1. FreeDescriptor \in Descriptors
      BY <1>7, FreeIsFree DEF Passive, Port
    <3>2. get' \in Gets
      BY <1>2, <2>1, <3>1 DEF Gets
    <3>3. pc' \in {"rest", "transfer"}
      BY <2>1 DEF After
    <3> QED
      BY <1>1, <1>2, <2>1, <3>2, <3>3, GoOnTypes DEF Walk, LoginStages, TransferStages
  <2> QED BY <1>3, <1>7, <2>1 DEF Passive, Port, Go, Errs, Fatal, Transient
<1>8. CASE Rest
  <2>1. pc' = "transfer" /\ UNCHANGED <<con, err>>
    BY <1>8 DEF Rest, After, Go
  <2>2. PICK refused \in BOOLEAN : get' = [get EXCEPT !.rest_failed = refused]
    <3>1. Refuses("REST") \in BOOLEAN
      BY DEF Refuses
    <3> QED BY <1>8, <3>1 DEF Rest
  <2>3. get' \in Gets
    BY <1>2, <2>2 DEF Gets
  <2> QED
    BY <1>1, <1>2, <2>1, <2>3, GoOnTypes DEF Walk, LoginStages, TransferStages
<1> QED BY <1>4, <1>5, <1>6, <1>7, <1>8

LEMMA TransferTypes ==
    ASSUME SocketsInv, LeakBound, TypesInv, Retr \/ List \/ Accept
    PROVE  TypesInv'
<1>1. /\ pc \in {"transfer", "accept"} /\ pc \in Walk /\ Live /\ get.csock = con.csock
      /\ UNCHANGED <<opt, site, disk, listing, loop, frames, total>>
  BY DEF Retr, List, Accept, commandOnly, unchangedInGetftp, unchangedFiles, Walk,
         TransferStages, SocketsInv
<1>2. con \in Cons /\ get \in Gets
  BY DEF TypesInv
<1>3. ASSUME NEW how, NEW e \in Errs, End(how, e), UNCHANGED get PROVE TypesInv'
  BY <1>1, <1>3, EndTypes
<1>4. ASSUME pc' \in {"open", "accept"}, con' = con, err' = err, get' \in Gets
      PROVE  TypesInv'
  BY <1>1, <1>2, <1>4
  DEF TypesInv, Stages, ControlStages, Walk, LoginStages, TransferStages, Directories
<1>5. CASE Retr
  <2>1. UNCHANGED get
    BY <1>5 DEF Retr, commandOnly
  <2>2. CASE pc' = transferred /\ UNCHANGED <<con, err>>
    BY <1>2, <1>4, <2>1, <2>2 DEF transferred
  <2> QED BY <1>3, <1>5, <2>1, <2>2 DEF Retr, Go, Errs, Fatal
<1>6. CASE List
  <2>1. CASE /\ \E c \in {"LIST_a", "LIST"} : get' = [get EXCEPT !.list = c]
             /\ pc' = transferred /\ UNCHANGED <<con, conns, err>>
    <3>1. get' \in Gets
      BY <1>2, <2>1 DEF Gets
    <3> QED BY <1>4, <2>1, <3>1 DEF transferred
  <2> QED BY <1>3, <1>6, <2>1 DEF List, Go, Errs, Fatal, Transient
<1>7. CASE Accept
  <2>1. CASE /\ conns' = Opened(FreeDescriptor, "data")
             /\ get' = [get EXCEPT !.dtsock = FreeDescriptor]
             /\ pc' = "open" /\ UNCHANGED <<con, err>>
    <3>1. pc = "accept"
      BY <1>7 DEF Accept
    <3>2. FreeDescriptor \in Descriptors
      BY <3>1, FreeIsFree
    <3>3. get' \in Gets
      BY <1>2, <2>1, <3>2 DEF Gets
    <3> QED BY <1>4, <2>1, <3>3
  <2> QED BY <1>3, <1>7, <2>1 DEF Accept, Go, Errs, Fatal, Transient
<1> QED BY <1>5, <1>6, <1>7

LEMMA OpenTypes ==
    ASSUME SocketsInv, LeakBound, TypesInv, Open \/ DataHandshake
    PROVE  TypesInv'
<1>1. /\ pc \in {"open", "datatls"} /\ pc \in Walk /\ Live /\ get.csock = con.csock
      /\ UNCHANGED <<opt, site, loop, frames, total, get>>
  BY DEF Open, DataHandshake, commandOnly, unchangedInGetftp, Walk, TransferStages, SocketsInv
<1>2. con \in Cons /\ get \in Gets /\ Here \in Directories
  BY <1>1 DEF TypesInv, SocketsInv, Sockets, Here, Live
<1>3. ASSUME NEW how, NEW e \in Errs, End(how, e), unchangedFiles PROVE TypesInv'
  BY <1>1, <1>3, EndTypes DEF unchangedFiles
<1>4. ASSUME pc' \in {"datatls", "body"}, UNCHANGED <<con, conns, err>>,
             disk' \in [DOMAIN disk' -> Files],
             IF "LIST" \in con.cmd
             THEN /\ listing'.command = get.list /\ listing'.dir = Here
                  /\ listing' \in [command : {"LIST_a", "LIST"}, dir : Directories, len : Nat]
                  /\ listing'.len <= Len(site.list[listing'.command][listing'.dir])
             ELSE listing' = listing
      PROVE  TypesInv'
  BY <1>1, <1>2, <1>4
  DEF TypesInv, Stages, Walk, LoginStages, TransferStages, Directories, Here, Live
<1>5. CASE Open
  <2>1. CASE /\ listing' = IF "LIST" \in con.cmd
                         THEN [command |-> get.list, dir |-> conns[get.csock].dir, len |-> 0]
                         ELSE listing
             /\ disk' = IF "LIST" \in con.cmd \/ (Appending /\ Exists(Target)) THEN disk
                      ELSE Put(Target, [len |-> 0, good |-> TRUE, fresh |-> TRUE])
             /\ pc' \in {"datatls", "body"} /\ UNCHANGED <<con, conns, err>>
    <3>1. disk' \in [DOMAIN disk' -> Files]
      <4>1. disk \in [DOMAIN disk -> Files]
        BY DEF TypesInv
      <4>2. [len |-> 0, good |-> TRUE, fresh |-> TRUE] \in Files
        BY DEF Files
      <4> QED BY <2>1, <4>1, <4>2 DEF Put
    <3>2. CASE "LIST" \in con.cmd
      <4>1. listing' = [command |-> get.list, dir |-> Here, len |-> 0]
        BY <1>1, <2>1, <3>2 DEF Here
      <4>2. get.list \in {"LIST_a", "LIST"}
        BY <1>2 DEF Gets
      <4>3. Here \in DOMAIN site.list[get.list]
            /\ site.list[get.list][Here] \in Seq(Entries)
        BY <1>2, <4>2, SitesAssumption DEF SocketsInv, Directories
      <4>4. 0 <= Len(site.list[get.list][Here])
        BY <4>3
      <4> QED BY <1>2, <1>4, <2>1, <3>1, <3>2, <4>1, <4>2, <4>4
    <3>3. CASE "LIST" \notin con.cmd
      BY <1>4, <2>1, <3>1, <3>3
    <3> QED BY <3>2, <3>3
  <2> QED BY <1>3, <1>5, <2>1 DEF Open, Go, Errs, Fatal, Transient
<1>6. CASE DataHandshake
  <2>1. UNCHANGED <<disk, listing>>
    BY <1>6 DEF DataHandshake, commandOnly, unchangedFiles
  <2>2. CASE pc' = "body" /\ UNCHANGED <<con, conns, err>>
    <3>1. pc = "datatls"
      BY <1>6 DEF DataHandshake
    <3> QED BY <1>1, <1>4, <2>1, <2>2, <3>1 DEF TypesInv, Directories
  <2> QED
    BY <1>3, <1>6, <2>1, <2>2
    DEF DataHandshake, Go, commandOnly, unchangedFiles, Errs, Fatal, Transient
<1> QED BY <1>5, <1>6

\* The bytes of a transfer: as many as the remote file or listing has from the first on.
LEMMA BodyNumbers ==
    ASSUME SocketsInv, TypesInv, pc = "body"
    PROVE  /\ Live /\ get.csock = con.csock /\ RemoteSize \in Nat /\ loop.restval \in Nat
           /\ First \in {0, loop.restval}
           /\ "LIST" \in con.cmd =>
                 /\ loop.restval = 0
                 /\ RemoteSize = Len(site.list[listing.command][listing.dir])
           /\ "LIST" \notin con.cmd /\ Remote \in DOMAIN site.size =>
                 RemoteSize = site.size[Remote]
           /\ \A to \in First .. Last :
                 /\ Skip(to) \in Nat /\ to \in Nat
                 /\ Skip(to) = IF to > loop.restval THEN to - loop.restval ELSE 0
                 /\ "LIST" \in con.cmd => Skip(to) <= RemoteSize
<1>1. Live /\ get.csock = con.csock /\ Here \in Directories
  BY DEF SocketsInv, Walk, TransferStages, Live, Here, Sockets
<1>2. loop.restval \in Nat /\ get.list \in {"LIST_a", "LIST"} /\ get.rest_failed \in BOOLEAN
  BY DEF TypesInv, Loops, Gets
<1>3. CASE "LIST" \in con.cmd
  <2>1. loop.restval = 0 /\ listing.command = get.list /\ listing.dir = Here
    BY <1>3 DEF TypesInv, Walk, TransferStages
  <2>2. RemoteSize = Len(site.list[get.list][Here])
    BY <1>1, <1>3 DEF RemoteSize, Here
  <2>3. site.list[get.list][Here] \in Seq(Entries)
    BY <1>1, <1>2, SitesAssumption DEF SocketsInv, Directories
  <2>4. RemoteSize \in Nat
    BY <2>2, <2>3
  <2> QED BY <1>1, <1>2, <1>3, <2>1, <2>2, <2>4 DEF Skip, First, Last
<1>4. CASE "LIST" \notin con.cmd
  <2>1. RemoteSize = IF Remote \in DOMAIN site.size THEN site.size[Remote] ELSE 0
    BY <1>4 DEF RemoteSize
  <2>2. RemoteSize \in Nat
    BY <2>1, SitesAssumption DEF SocketsInv
  <2> QED BY <1>1, <1>2, <1>4, <2>1, <2>2 DEF Skip, First, Last
<1> QED BY <1>3, <1>4

LEMMA WrittenTypes ==
    ASSUME SocketsInv, TypesInv, NEW n \in Nat, Written(n)
    PROVE  /\ loop' \in Loops /\ loop'.qtyread = loop.qtyread + n
           /\ loop' = [loop EXCEPT !.qtyread = loop'.qtyread]
           /\ loop'.restval = loop.restval
           /\ disk' \in [DOMAIN disk' -> Files]
           /\ listing' \in [command : {"LIST_a", "LIST"}, dir : Directories, len : Nat]
           /\ listing'.command = listing.command /\ listing'.dir = listing.dir
           /\ listing'.len = IF "LIST" \in con.cmd THEN n ELSE listing.len
<1>1. loop \in Loops /\ disk \in [DOMAIN disk -> Files]
      /\ listing \in [command : {"LIST_a", "LIST"}, dir : Directories, len : Nat]
  BY DEF TypesInv
<1>2. loop' = [loop EXCEPT !.qtyread = loop.qtyread + n]
  BY DEF Written
<1>3. /\ loop' \in Loops /\ loop'.qtyread = loop.qtyread + n
      /\ loop'.restval = loop.restval
  BY <1>1, <1>2 DEF Loops
<1>4. CASE "LIST" \in con.cmd
  BY <1>1, <1>2, <1>3, <1>4 DEF Written
<1>5. CASE "LIST" \notin con.cmd
  <2>1. PICK good \in BOOLEAN :
           disk' = [disk EXCEPT ![Target] =
                       [len |-> disk[Target].len + n, fresh |-> TRUE, good |-> good]]
    <3>1. (/\ disk[Target].good /\ ~late /\ conns[get.csock].dir = loop.dir
          /\ n > 0 => disk[Target].len = loop.restval) \in BOOLEAN
      OBVIOUS
    <3> QED BY <1>5, <3>1 DEF Written
  <2>2. disk' \in [DOMAIN disk' -> Files]
    <3>1. Target \in DOMAIN disk => disk[Target].len + n \in Nat
      BY <1>1 DEF Files
    <3> QED BY <1>1, <2>1, <3>1 DEF Files
  <2> QED BY <1>1, <1>2, <1>3, <1>5, <2>2 DEF Written
<1> QED BY <1>4, <1>5

LEMMA BodyTypes ==
    ASSUME SocketsInv, LeakBound, TypesInv, Body
    PROVE  TypesInv'
<1>1. /\ pc = "body" /\ Live /\ get.csock = con.csock
      /\ UNCHANGED <<opt, site, frames, total>>
  BY BodyNumbers DEF Body
<1>2. con \in Cons /\ get \in Gets /\ loop \in Loops
  BY DEF TypesInv
<1>3. CASE Written(0) /\ End("all", "FWRITEERR") /\ UNCHANGED get
  <2>1. con' \in Cons /\ pc' = "judge" /\ err' = "FWRITEERR"
    BY <1>2, <1>3 DEF End, Cons
  <2>2. /\ loop' \in Loops /\ loop'.qtyread = loop.qtyread /\ loop'.restval = loop.restval
        /\ disk' \in [DOMAIN disk' -> Files]
        /\ listing' \in [command : {"LIST_a", "LIST"}, dir : Directories, len : Nat]
        /\ listing'.command = listing.command /\ listing'.dir = listing.dir
        /\ listing'.len \in {0, listing.len}
    BY <1>2, <1>3, WrittenTypes DEF Loops
  <2>3. listing'.len <= Len(site.list[listing'.command][listing'.dir])
    BY <2>2 DEF TypesInv
  <2> QED
    BY <1>1, <1>2, <1>3, <2>1, <2>2, <2>3
    DEF TypesInv, Stages, ControlStages, Walk, LoginStages, TransferStages, Directories,
        Errs, Fatal
<1>4. ASSUME NEW to \in First .. Last, NEW res \in {0, -1}, Written(Skip(to)),
             get' = [get EXCEPT !.res = res, !.whole = (to = Last /\ Agreed),
                                !.rd_size = Skip(to)],
             conns' = [k \in DOMAIN conns \ Closed("data") |-> conns[k]],
             pc' = "response", UNCHANGED <<con, err>>
      PROVE  TypesInv'
  <2>1. Skip(to) \in Nat /\ ("LIST" \in con.cmd => Skip(to) <= RemoteSize)
    BY <1>1, BodyNumbers
  <2>2. /\ loop' \in Loops /\ loop'.qtyread = loop.qtyread + Skip(to)
        /\ loop'.restval = loop.restval
        /\ disk' \in [DOMAIN disk' -> Files]
        /\ listing' \in [command : {"LIST_a", "LIST"}, dir : Directories, len : Nat]
        /\ listing'.command = listing.command /\ listing'.dir = listing.dir
        /\ listing'.len = IF "LIST" \in con.cmd THEN Skip(to) ELSE listing.len
    BY <1>4, <2>1, WrittenTypes
  <2>3. listing'.len <= Len(site.list[listing'.command][listing'.dir])
    BY <1>1, <2>1, <2>2, BodyNumbers DEF TypesInv
  <2>4. get' \in Gets
    <3>1. (to = Last /\ Agreed) \in BOOLEAN
      OBVIOUS
    <3> QED BY <1>2, <1>4, <2>1, <3>1 DEF Gets
  <2>5. loop'.qtyread >= loop'.restval
    BY <1>2, <2>1, <2>2 DEF TypesInv, Loops
  <2>6. Live' /\ Here' = Here
    <3>1. con.csock # 0
      BY <1>1, MaxFaultsAssumption DEF Live, SocketsInv, Descriptors
    <3>2. con.csock \notin {get.dtsock, get.local_sock}
      BY <1>1, <3>1 DEF SocketsInv, Walk, TransferStages
    <3> QED BY <1>1, <1>4, <3>2 DEF Live, Here, Closed
  <2>7. "LIST" \in con.cmd => listing.dir = Here
    BY <1>1 DEF TypesInv
  <2> QED
    BY <1>1, <1>2, <1>4, <2>2, <2>3, <2>4, <2>5, <2>6, <2>7
    DEF TypesInv, Stages, Walk, LoginStages, TransferStages, Directories
<1> QED BY <1>3, <1>4 DEF Body, Go

\* What the negotiation of the list command leaves alone.
LEMMA NegotiateType ==
    ASSUME get \in Gets, NEW st \in SUBSET Flags
    PROVE  /\ Negotiate(st).st \in SUBSET Flags
           /\ "ON_YOUR_OWN" \in Negotiate(st).st <=> "ON_YOUR_OWN" \in st
           /\ "DONE_CWD" \in Negotiate(st).st <=> "DONE_CWD" \in st
<1>1. get.rd_size \in Nat /\ get.previous_rd_size \in Nat
  BY DEF Gets
<1>2. \/ get.rd_size > get.previous_rd_size
      \/ get.rd_size < get.previous_rd_size /\ ~(get.rd_size > get.previous_rd_size)
      \/ get.rd_size = get.previous_rd_size /\ ~(get.rd_size > get.previous_rd_size)
            /\ ~(get.rd_size < get.previous_rd_size)
  BY <1>1
<1> QED BY <1>2 DEF Negotiate, Flags

LEMMA ResponseTypes ==
    ASSUME SocketsInv, LeakBound, TypesInv, Completed \/ Aborted
    PROVE  TypesInv'
<1>1. /\ pc = "response" /\ pc \in Walk
      /\ UNCHANGED <<opt, site, disk, listing, loop, frames, total>>
  BY DEF Completed, Aborted, commandOnly, unchangedInGetftp, unchangedFiles, Walk
<1>2. con \in Cons /\ get \in Gets
  BY DEF TypesInv
<1>3. ASSUME NEW how, NEW e \in Errs, End(how, e), UNCHANGED get PROVE TypesInv'
  BY <1>1, <1>3, EndTypes
<1>4. CASE Completed
  <2>1. CASE con' = [con EXCEPT !.st = Negotiate(con.st).st]
    <3>1. con' \in Cons /\ con'.cmd = con.cmd
      <4>1. Negotiate(con.st).st \in SUBSET Flags
        BY <1>2, NegotiateType DEF Cons
      <4> QED BY <1>2, <2>1, <4>1 DEF Cons
    <3>2. CASE pc' = "data" /\ UNCHANGED err /\ get' = [get EXCEPT !.previous_rd_size = get.rd_size]
      <4>1. get' \in Gets
        BY <1>2, <3>2 DEF Gets
      <4> QED
        BY <1>1, <3>1, <3>2, <4>1, GoOnTypes DEF Walk, LoginStages, TransferStages
    <3>3. CASE pc' = "judge" /\ err' = "RETRFINISHED" /\ UNCHANGED get
      BY <1>1, <3>1, <3>3
      DEF TypesInv, Stages, Walk, LoginStages, TransferStages, Directories, Errs
    <3> QED BY <1>3, <1>4, <2>1, <3>2, <3>3 DEF Completed, Go, Errs
  <2> QED BY <1>3, <1>4, <2>1 DEF Completed, Errs
<1>5. CASE Aborted
  BY <1>3, <1>5 DEF Aborted, commandOnly, Errs
<1> QED BY <1>4, <1>5

\* Outside of getftp, with the files as they were.
LEMMA OutsideTypes ==
    ASSUME TypesInv, UNCHANGED <<opt, site, listing>>, disk' \in [DOMAIN disk' -> Files],
           con' \in Cons, loop' \in Loops, get' \in Gets, frames' \in Seq(Frames),
           err' \in Errs, total' \in Nat, loop'.qtyread >= loop'.restval,
           pc' \in {"enter", "try", "connect", "cwd", "judge", "returned", "files", "dirs",
                   "finish", "done", "aborted"},
           pc' \in {"files", "dirs"} => frames' # <<>>,
           pc' \in Walk /\ "LIST" \in con'.cmd => loop'.restval = 0
    PROVE  TypesInv'
BY DEF TypesInv, Stages, ControlStages, Walk, LoginStages, TransferStages, Directories

LEMMA AfterwardsTypes ==
    ASSUME SocketsInv, TypesInv, FatalError \/ Retry \/ Saved \/ Abort
    PROVE  TypesInv'
<1>1. /\ UNCHANGED <<opt, site, disk, listing, loop, get, frames>>
      /\ pc' \in {"returned", "try", "aborted"}
      /\ err' \in {err, "TRYLIMEXC", "RETROK"}
      /\ con' \in {con, WithDoneCwd(con), [con EXCEPT !.csock = 0]}
  BY DEF FatalError, Retry, Saved, Abort, judging, GiveUp, Go
<1>2. con' \in Cons
  <2>1. con \in Cons
    BY DEF TypesInv
  <2> QED BY <1>1, <2>1 DEF WithDoneCwd, Cons, Flags
<1>3. total' \in Nat
  <2>1. total \in Nat /\ loop.qtyread \in Nat /\ loop.restval \in Nat
        /\ loop.qtyread >= loop.restval
    BY DEF TypesInv, Loops
  <2>2. total' \in {total, total + loop.qtyread - loop.restval}
    BY DEF FatalError, Retry, Saved, Abort
  <2> QED BY <2>1, <2>2
<1>4. err' \in Errs
  BY <1>1 DEF TypesInv, Errs
<1>5. /\ disk' \in [DOMAIN disk' -> Files] /\ loop' \in Loops /\ get' \in Gets
      /\ frames' \in Seq(Frames) /\ loop'.qtyread >= loop'.restval
  BY <1>1 DEF TypesInv
<1>6. pc' \notin Walk
  BY <1>1 DEF Walk, LoginStages, TransferStages
<1> QED BY <1>1, <1>2, <1>3, <1>4, <1>5, <1>6, OutsideTypes

\* The arguments that ftp_loop_internal is called with.
LEMMA CallType ==
    ASSUME NEW caller \in {"own", "listing", "file"}, NEW dir \in STRING,
           NEW name \in STRING, NEW f \in Entries \cup {NoEntry}, NEW force \in BOOLEAN,
           Call(caller, dir, name, f, force)
    PROVE  /\ loop' \in Loops /\ pc' = "enter"
           /\ loop'.caller = caller /\ loop'.dir = dir /\ loop'.name = name /\ loop'.f = f
           /\ loop'.force = force /\ loop'.count = 0 /\ loop'.restval = 0
           /\ loop'.qtyread = 0
BY DEF Call, ZeroLoop, Loops

\* ftp_retrieve_glob and ftp_get_listing begin.
LEMMA FrameType ==
    ASSUME NEW dir \in STRING, NEW action \in Actions
    PROVE  Frame(dir, action) \in Frames /\ Frame(dir, action).dir = dir
           /\ Frame(dir, action).list = <<>> /\ Frame(dir, action).action = action
           /\ Frame(dir, action).at = 0
BY DEF Frame, Frames, Errs

LEMMA ListingType ==
    ASSUME NEW c \in Cons
    PROVE  /\ Listing(c) \in Cons /\ Listing(c).csock = c.csock
           /\ Listing(c).st = c.st \ {"ON_YOUR_OWN"}
           /\ Listing(c).cmd = (c.cmd \cup {"LIST"}) \ {"RETR"}
BY DEF Listing, Cons

LEMMA OptionTypes ==
    ASSUME SocketsInv
    PROVE  /\ opt.dir \in STRING /\ opt.action \in Actions /\ opt.names \subseteq STRING
           /\ opt.job \in {"file", "glob", "index"} /\ opt.timestamping \in BOOLEAN
           /\ opt.ftps \in {"no", "explicit", "implicit"}
BY OptsAssumption DEF SocketsInv, Actions

LEMMA BeforehandTypes ==
    ASSUME SocketsInv, TypesInv, FtpLoop \/ Enter \/ Try
    PROVE  TypesInv'
<1>1. /\ con \in Cons /\ loop \in Loops /\ get \in Gets /\ frames \in Seq(Frames)
      /\ err \in Errs /\ total \in Nat /\ disk \in [DOMAIN disk -> Files]
      /\ loop.qtyread >= loop.restval
  BY DEF TypesInv
<1>2. CASE FtpLoop
  <2>1. UNCHANGED <<opt, site, disk, listing, get, err, total>>
    BY <1>2 DEF FtpLoop
  <2>2. CASE opt.job = "file"
    <3>1. PICK n \in opt.names : Call("own", opt.dir, n, NoEntry, FALSE)
      BY <1>2, <2>2 DEF FtpLoop
    <3>2. loop' \in Loops /\ pc' = "enter" /\ loop'.qtyread = 0 /\ loop'.restval = 0
      BY <3>1, CallType, OptionTypes
    <3>3. UNCHANGED <<frames, con>>
      BY <1>2, <2>2 DEF FtpLoop
    <3> QED
      BY <1>1, <2>1, <3>2, <3>3, OutsideTypes DEF Walk, LoginStages, TransferStages
  <2>3. CASE opt.job # "file"
    <3>1. Call("listing", opt.dir, Empty, NoEntry, FALSE) /\ con' = Listing(con)
          /\ frames' \in {<<>>, <<Frame(opt.dir, opt.action)>>}
      BY <1>2, <2>3 DEF FtpLoop
    <3>2. Empty \in STRING
      BY SitesAssumption DEF SocketsInv
    <3>3. loop' \in Loops /\ pc' = "enter" /\ loop'.qtyread = 0 /\ loop'.restval = 0
      BY <3>1, <3>2, CallType, OptionTypes
    <3>4. frames' \in Seq(Frames)
      <4>1. PICK fr \in Frames : frames' \in {<<>>, <<fr>>}
        BY <3>1, FrameType, OptionTypes
      <4>2. <<>> \in Seq(Frames) /\ <<fr>> \in Seq(Frames)
        OBVIOUS
      <4> QED BY <4>1, <4>2
    <3>5. con' \in Cons
      BY <1>1, <3>1, ListingType
    <3> QED
      BY <1>1, <2>1, <3>3, <3>4, <3>5, OutsideTypes DEF Walk, LoginStages, TransferStages
  <2> QED BY <2>2, <2>3
<1>3. CASE Enter
  <2>1. con' \in Cons
    BY <1>1, <1>3 DEF Enter, Cons, Flags
  <2>2. /\ UNCHANGED <<opt, site, disk, listing, loop, get, frames, total>>
        /\ pc' \in {"returned", "try"} /\ err' \in {"RETROK", err}
    BY <1>3 DEF Enter, Go
  <2>3. err' \in Errs
    BY <1>1, <2>2 DEF Errs
  <2> QED
    BY <1>1, <2>1, <2>2, <2>3, OutsideTypes DEF Walk, LoginStages, TransferStages
<1>4. CASE Try
  <2>1. /\ UNCHANGED <<opt, site, disk, listing, frames, err, total>>
        /\ pc' \in {"connect", "cwd"} /\ con' = [con EXCEPT !.cmd = TryCommands]
        /\ loop' = [loop EXCEPT !.count = @ + 1, !.restval = Restart(TryCommands),
                               !.qtyread = Restart(TryCommands)]
        /\ get' = [ZeroGet EXCEPT !.csock = con.csock,
                                 !.protected = "LOGIN" \notin TryCommands
                                                /\ "DATA_SECURITY" \in con.st]
    BY <1>4 DEF Try, Go
  <2>2. TryCommands \subseteq {"LOGIN", "CWD", "RETR", "LIST"}
    BY <1>1 DEF TryCommands, Cons
  <2>3. con' \in Cons /\ con'.cmd = TryCommands
    BY <1>1, <2>1, <2>2 DEF Cons
  <2>4. Restart(TryCommands) \in Nat
        /\ ("LIST" \in TryCommands => Restart(TryCommands) = 0)
    BY <1>1 DEF Restart, Loops, Files, Exists
  <2>5. loop' \in Loops /\ loop'.qtyread = Restart(TryCommands)
        /\ loop'.restval = Restart(TryCommands)
    <3>1. PICK start \in Nat : start = Restart(TryCommands)
      BY <2>4
    <3>2. loop' = [loop EXCEPT !.count = @ + 1, !.restval = start, !.qtyread = start]
      BY <2>1, <3>1
    <3>3. PICK count \in Nat : count = loop.count + 1
      BY <1>1 DEF Loops
    <3>4. loop' = [loop EXCEPT !.count = count, !.restval = start, !.qtyread = start]
      BY <3>2, <3>3
    <3>5. loop' \in Loops
      BY <1>1, <3>4 DEF Loops
    <3>6. loop'.qtyread = start /\ loop'.restval = start
      BY <1>1, <3>4 DEF Loops
    <3> QED BY <3>1, <3>5, <3>6
  <2>6. get' \in Gets
    <3>1. con.csock \in {0} \cup Descriptors
      BY <1>1 DEF Cons
    <3>2. ("LOGIN" \notin TryCommands /\ "DATA_SECURITY" \in con.st) \in BOOLEAN
      OBVIOUS
    <3> QED BY <2>1, <3>1, <3>2 DEF ZeroGet, Gets
  <2>7. loop'.qtyread >= loop'.restval
    BY <2>4, <2>5
  <2> QED BY <1>1, <2>1, <2>3, <2>4, <2>5, <2>6, <2>7, OutsideTypes
<1> QED BY <1>2, <1>3, <1>4

\* The calls of ftp_retrieve_glob: the innermost one changes, ends, or calls another.
LEMMA TopType ==
    ASSUME frames \in Seq(Frames), frames # <<>>
    PROVE  /\ Len(frames) \in Nat \ {0} /\ Len(frames) \in DOMAIN frames
           /\ Top \in Frames /\ Top = frames[Len(frames)]
BY DEF Top

LEMMA SetTopType ==
    ASSUME frames \in Seq(Frames), frames # <<>>, NEW frame \in Frames
    PROVE  /\ SetTop(frame) \in Seq(Frames) /\ Len(SetTop(frame)) = Len(frames)
           /\ SetTop(frame) # <<>> /\ DOMAIN SetTop(frame) = DOMAIN frames
           /\ SetTop(frame)[Len(frames)] = frame
           /\ \A i \in DOMAIN frames : i # Len(frames) => SetTop(frame)[i] = frames[i]
BY DEF SetTop

LEMMA EndGlobType ==
    ASSUME frames \in Seq(Frames), frames # <<>>, err \in Errs, NEW e \in Errs, EndGlob(e)
    PROVE  /\ frames' \in Seq(Frames) /\ Len(frames') = Len(frames) - 1 /\ err' \in Errs
           /\ \A i \in DOMAIN frames' : i \in DOMAIN frames /\ frames'[i] = frames[i]
           /\ pc' \in {"finish", "dirs"}
           /\ pc' = "finish" <=> Len(frames) = 1
           /\ pc' = "dirs" => frames' # <<>> /\ Len(frames) > 1
<1>1. Len(frames) \in Nat \ {0}
  OBVIOUS
<1>2. /\ frames' \in Seq(Frames) /\ Len(frames') = Len(frames) - 1
      /\ \A i \in DOMAIN frames' : i \in DOMAIN frames /\ frames'[i] = frames[i]
  <2> DEFINE n == Len(frames) - 1
  <2>1. n \in Nat /\ n <= Len(frames)
    BY <1>1
  <2>2. frames' = SubSeq(frames, 1, n)
    BY DEF EndGlob
  <2> HIDE DEF n
  <2>3. /\ frames' \in Seq(Frames) /\ Len(frames') = n
        /\ \A i \in DOMAIN frames' : i \in DOMAIN frames /\ frames'[i] = frames[i]
    BY <2>1, <2>2
  <2> QED BY <2>3 DEF n
<1>3. frames' = <<>> <=> Len(frames) = 1
  BY <1>1, <1>2
<1>4. err' \in {err, e} /\ (pc' = IF Len(frames) = 1 THEN "finish" ELSE "dirs")
  BY DEF EndGlob, Go
<1> QED BY <1>1, <1>2, <1>3, <1>4

\* The lines of a listing that stay, and the next one of them.
LEMMA KeptType ==
    ASSUME NEW list \in Seq(Entries), NEW action
    PROVE  Kept(list, action) \subseteq DOMAIN list /\ Kept(list, action) \in SUBSET Nat
BY DEF Kept

LEMMA ReadType ==
    ASSUME SocketsInv, TypesInv
    PROVE  /\ ListingRead \in Seq(Entries)
           /\ \A i \in DOMAIN ListingRead :
                 /\ i \in DOMAIN site.list[listing.command][listing.dir]
                 /\ ListingRead[i] = site.list[listing.command][listing.dir][i]
<1> DEFINE whole == site.list[listing.command][listing.dir]
<1>1. whole \in Seq(Entries)
  BY SitesAssumption DEF SocketsInv, TypesInv, Directories
<1>2. listing.len \in Nat /\ listing.len <= Len(whole)
  BY DEF TypesInv
<1> HIDE DEF whole
<1>3. /\ SubSeq(whole, 1, listing.len) \in Seq(Entries)
      /\ \A i \in DOMAIN SubSeq(whole, 1, listing.len) :
            i \in DOMAIN whole /\ SubSeq(whole, 1, listing.len)[i] = whole[i]
  BY <1>1, <1>2
<1> QED BY <1>3 DEF ListingRead, whole

LEMMA ReturnTypes ==
    ASSUME SocketsInv, TypesInv, loop.caller = "file" => frames # <<>>,
           ReturnOwn \/ ReturnListing \/ ReturnFile
    PROVE  TypesInv'
<1>1. /\ con \in Cons /\ loop \in Loops /\ get \in Gets /\ frames \in Seq(Frames)
      /\ err \in Errs /\ total \in Nat /\ disk \in [DOMAIN disk -> Files]
      /\ loop.qtyread >= loop.restval
  BY DEF TypesInv
<1>2. UNCHANGED <<opt, site, listing, get, total>> /\ pc' \in {"finish", "dirs", "files", "enter"}
  BY DEF ReturnOwn, ReturnListing, ReturnFile, globbing, EndGlob, Call, Go
<1>3. pc' \notin Walk
  BY <1>2 DEF Walk, LoginStages, TransferStages
<1>4. CASE ReturnOwn
  <2>1. UNCHANGED <<disk, con, loop>>
    BY <1>4 DEF ReturnOwn
  <2>2. CASE frames = <<>>
    <3>1. UNCHANGED <<err, frames>> /\ pc' = "finish"
      BY <1>4, <2>2 DEF ReturnOwn, Go
    <3> QED BY <1>1, <1>2, <1>3, <2>1, <3>1, OutsideTypes
  <2>3. CASE frames # <<>>
    <3>1. EndGlob(err)
      BY <1>4, <2>3 DEF ReturnOwn
    <3> QED BY <1>1, <1>2, <1>3, <2>1, <2>3, <3>1, EndGlobType, OutsideTypes
  <2> QED BY <2>2, <2>3
<1>5. CASE ReturnListing
  <2> DEFINE c == [con EXCEPT !.cmd = @ \ {"LIST"}]
  <2>1. c \in Cons /\ [c EXCEPT !.cmd = @ \cup {"RETR"}] \in Cons
        /\ [c EXCEPT !.st = @ \cup {"ON_YOUR_OWN"}] \in Cons
    BY <1>1 DEF Cons, Flags
  <2> HIDE DEF c
  <2>2. UNCHANGED disk
    BY <1>5 DEF ReturnListing
  <2>3. CASE frames = <<>>
    <3>1. con' = c /\ pc' = "finish" /\ UNCHANGED <<err, frames, loop>>
      BY <1>5, <2>3 DEF ReturnListing, Go, c
    <3> QED BY <1>1, <1>2, <1>3, <2>1, <2>2, <3>1, OutsideTypes
  <2>4. ASSUME frames # <<>>, con' = c, NEW e \in Errs, EndGlob(e), UNCHANGED loop
        PROVE  TypesInv'
    BY <1>1, <1>2, <1>3, <2>1, <2>2, <2>4, EndGlobType, OutsideTypes
  <2>5. CASE /\ frames # <<>> /\ con' = [c EXCEPT !.cmd = @ \cup {"RETR"}]
             /\ frames' = SetTop([Top EXCEPT !.list = ListingRead])
             /\ pc' = "files" /\ UNCHANGED <<err, loop>>
    <3>1. [Top EXCEPT !.list = ListingRead] \in Frames
      BY <1>1, <2>5, TopType, ReadType DEF Frames
    <3>2. frames' \in Seq(Frames) /\ frames' # <<>>
      BY <1>1, <2>5, <3>1, SetTopType
    <3> QED BY <1>1, <1>2, <1>3, <2>1, <2>2, <2>5, <3>2, OutsideTypes
  <2>6. CASE /\ frames # <<>> /\ con' = [c EXCEPT !.st = @ \cup {"ON_YOUR_OWN"}]
             /\ \E n \in opt.names : Call("own", Top.dir, n, NoEntry, FALSE)
             /\ UNCHANGED <<err, frames>>
    <3>1. PICK n \in opt.names : Call("own", Top.dir, n, NoEntry, FALSE)
      BY <2>6
    <3>2. Top.dir \in STRING /\ n \in STRING
      BY <1>1, <2>6, TopType, OptionTypes DEF Frames
    <3>3. loop' \in Loops /\ pc' = "enter" /\ loop'.qtyread = 0 /\ loop'.restval = 0
      BY <3>1, <3>2, CallType
    <3> QED BY <1>1, <1>2, <1>3, <2>1, <2>2, <2>6, <3>3, OutsideTypes
  <2>7. WithQuota("RETROK") \in Errs
    BY DEF WithQuota, Errs
  <2> QED
    BY <1>1, <1>5, <2>3, <2>4, <2>5, <2>6, <2>7 DEF ReturnListing, Go, c
<1>6. CASE ReturnFile
  <2>1. frames # <<>> /\ Top \in Frames
    BY <1>1, <1>6, TopType DEF ReturnFile
  <2>2. UNCHANGED <<loop, err>> /\ pc' = "files"
        /\ con' \in {con, [con EXCEPT !.cmd = @ \ {"CWD", "LOGIN"}]}
    BY <1>6 DEF ReturnFile, Go
  <2>3. con' \in Cons
    BY <1>1, <2>2 DEF Cons
  <2>4. disk' \in [DOMAIN disk' -> Files]
    BY <1>1, <1>6 DEF ReturnFile, Files, Exists
  <2>5. frames' \in Seq(Frames) /\ frames' # <<>>
    <3>1. PICK at \in Nat : frames' = SetTop([Top EXCEPT !.err = err, !.at = at])
      <4>1. Len(Top.list) \in Nat /\ Top.at \in Nat
        BY <2>1 DEF Frames
      <4> QED BY <1>6, <4>1 DEF ReturnFile
    <3>2. [Top EXCEPT !.err = err, !.at = at] \in Frames
      BY <1>1, <2>1, <3>1 DEF Frames
    <3> QED BY <1>1, <2>1, <3>1, <3>2, SetTopType
  <2> QED BY <1>1, <1>2, <1>3, <2>2, <2>3, <2>4, <2>5, OutsideTypes
<1> QED BY <1>4, <1>5, <1>6

LEMMA NextTypes ==
    ASSUME SocketsInv, TypesInv, NextFile \/ NextDir
    PROVE  TypesInv'
<1>1. /\ con \in Cons /\ loop \in Loops /\ get \in Gets /\ frames \in Seq(Frames)
      /\ err \in Errs /\ total \in Nat /\ disk \in [DOMAIN disk -> Files]
      /\ loop.qtyread >= loop.restval
  BY DEF TypesInv
<1>2. UNCHANGED <<opt, site, listing, get, total, disk>>
      /\ pc' \in {"finish", "dirs", "files", "enter"}
  BY DEF NextFile, NextDir, globbing, EndGlob, Call, Go
<1>3. pc' \notin Walk
  BY <1>2 DEF Walk, LoginStages, TransferStages
<1>4. frames # <<>> /\ Top \in Frames
  <2>1. frames # <<>>
    BY DEF NextFile, NextDir, TypesInv
  <2> QED BY <1>1, <2>1, TopType
<1>5. /\ Top.at \in Nat /\ Top.list \in Seq(Entries) /\ Top.err \in Errs
      /\ Top.dir \in STRING
  BY <1>4 DEF Frames
<1>6. \A e \in Errs : WithQuota(e) \in Errs
  BY DEF WithQuota, Errs
<1>7. ASSUME NEW e \in Errs, EndGlob(e), UNCHANGED <<con, loop>>
      PROVE  TypesInv'
  BY <1>1, <1>2, <1>3, <1>4, <1>7, EndGlobType, OutsideTypes
<1>8. CASE NextFile
  <2> DEFINE i == Following(Kept(Top.list, Top.action), Top.at)
             f == Top.list[i]
             force == Top.force \/ (opt.timestamping /\ Exists(<<Top.dir, f.name>>)
                                        /\ ~disk[<<Top.dir, f.name>>].fresh)
  <2>1. i \in Nat /\ (i # 0 => i \in DOMAIN Top.list)
    <3>1. /\ Kept(Top.list, Top.action) \in SUBSET Nat
          /\ Kept(Top.list, Top.action) \subseteq DOMAIN Top.list
      BY <1>5, KeptType
    <3>2. i \in Kept(Top.list, Top.action) \cup {0}
      BY <1>5, <3>1, FollowingType
    <3> HIDE DEF i
    <3> QED BY <3>1, <3>2
  <2>2. i # 0 => f \in Entries
    BY <1>5, <2>1
  <2>3. force \in BOOLEAN
    <3>1. Top.force \in BOOLEAN
      BY <1>4 DEF Frames
    <3> QED BY <3>1
  <2> HIDE DEF i, f, force
  <2>4. CASE i = 0 /\ frames' = SetTop([Top EXCEPT !.at = 0]) /\ pc' = "dirs"
             /\ UNCHANGED <<err, con, loop>>
    <3>1. [Top EXCEPT !.at = 0] \in Frames
      BY <1>4 DEF Frames
    <3>2. frames' \in Seq(Frames) /\ frames' # <<>>
      BY <1>1, <1>4, <2>4, <3>1, SetTopType
    <3> QED BY <1>1, <1>2, <1>3, <2>4, <3>2, OutsideTypes
  <2>5. CASE /\ i # 0 /\ frames' = SetTop([Top EXCEPT !.at = i, !.force = force])
             /\ Call("file", Top.dir, f.name, f, force) /\ UNCHANGED <<con, err>>
    <3>1. [Top EXCEPT !.at = i, !.force = force] \in Frames
      BY <1>4, <2>1, <2>3 DEF Frames
    <3>2. frames' \in Seq(Frames) /\ frames' # <<>>
      BY <1>1, <1>4, <2>5, <3>1, SetTopType
    <3>3. f.name \in STRING
      BY <2>2, <2>5 DEF Entries
    <3>4. loop' \in Loops /\ pc' = "enter" /\ loop'.qtyread = 0 /\ loop'.restval = 0
      BY <1>5, <2>2, <2>3, <2>5, <3>3, CallType
    <3> QED BY <1>1, <1>2, <1>3, <2>5, <3>2, <3>4, OutsideTypes
  <2>6. CASE /\ i # 0 /\ frames' = SetTop([Top EXCEPT !.at = i, !.err = "RETROK"])
             /\ con' = [con EXCEPT !.cmd = @ \ {"CWD", "LOGIN"}]
             /\ UNCHANGED <<pc, err, loop>>
    <3>1. [Top EXCEPT !.at = i, !.err = "RETROK"] \in Frames
      BY <1>4, <2>1 DEF Frames, Errs
    <3>2. frames' \in Seq(Frames) /\ frames' # <<>>
      BY <1>1, <1>4, <2>6, <3>1, SetTopType
    <3>3. con' \in Cons
      BY <1>1, <2>6 DEF Cons
    <3> QED BY <1>1, <1>2, <1>3, <2>6, <3>2, <3>3, OutsideTypes
  <2>7. "QUOTEXC" \in Errs
    BY DEF Errs
  <2> QED
    BY <1>5, <1>6, <1>7, <1>8, <2>4, <2>5, <2>6, <2>7 DEF NextFile, Go, i, f, force
<1>9. CASE NextDir
  <2> DEFINE dirs == {i \in Kept(Top.list, Top.action) : Top.list[i].type = "dir"}
             i == Following(dirs, Top.at)
  <2>1. i \in Nat /\ (i # 0 => i \in DOMAIN Top.list)
    <3>1. dirs \in SUBSET Nat /\ dirs \subseteq DOMAIN Top.list
      BY <1>5, KeptType
    <3> HIDE DEF dirs
    <3>2. i \in dirs \cup {0}
      BY <1>5, <3>1, FollowingType
    <3> HIDE DEF i
    <3> QED BY <3>1, <3>2
  <2> HIDE DEF i
  <2>2. CASE /\ i # 0 /\ Call("listing", Top.list[i].name, Empty, NoEntry, FALSE)
             /\ frames' = Append(SetTop([Top EXCEPT !.at = i]),
                                Frame(Top.list[i].name, "GLOB_GETALL"))
             /\ con' = Listing([con EXCEPT !.st = @ \ {"DONE_CWD"}]) /\ UNCHANGED err
    <3>1. Top.list[i].name \in STRING
      <4>1. Top.list[i] \in Entries
        BY <1>5, <2>1, <2>2
      <4> QED BY <4>1 DEF Entries
    <3>2. Empty \in STRING
      BY SitesAssumption DEF SocketsInv
    <3>3. loop' \in Loops /\ pc' = "enter" /\ loop'.qtyread = 0 /\ loop'.restval = 0
      BY <2>2, <3>1, <3>2, CallType
    <3>4. frames' \in Seq(Frames)
      <4>1. [Top EXCEPT !.at = i] \in Frames
        BY <1>4, <2>1 DEF Frames
      <4>2. Frame(Top.list[i].name, "GLOB_GETALL") \in Frames
        BY <3>1, FrameType DEF Actions
      <4>3. SetTop([Top EXCEPT !.at = i]) \in Seq(Frames)
        BY <1>1, <1>4, <4>1, SetTopType
      <4> QED BY <2>2, <4>2, <4>3
    <3>5. con' \in Cons
      <4>1. [con EXCEPT !.st = @ \ {"DONE_CWD"}] \in Cons
        BY <1>1 DEF Cons
      <4> QED BY <2>2, <4>1, ListingType
    <3> QED BY <1>1, <1>2, <1>3, <2>2, <3>3, <3>4, <3>5, OutsideTypes
  <2>3. "RETROK" \in Errs
    BY DEF Errs
  <2> QED BY <1>6, <1>7, <1>9, <2>2, <2>3 DEF NextDir, i
<1> QED BY <1>8, <1>9

LEMMA FinishTypes ==
    ASSUME SocketsInv, TypesInv, Finish \/ UNCHANGED vars
    PROVE  TypesInv'
<1>1. CASE Finish
  <2>1. UNCHANGED <<opt, site, disk, listing, con, loop, get, frames, err, total>>
        /\ pc' = "done"
    BY <1>1 DEF Finish, Go
  <2> QED BY <2>1, OutsideTypes DEF TypesInv, Walk, LoginStages, TransferStages
<1>2. CASE UNCHANGED vars
  BY <1>2 DEF vars, locals, TypesInv, Directories, Remote, Here
<1> QED BY <1>1, <1>2

LEMMA InitTypes ==
    ASSUME Init
    PROVE  TypesInv
<1>1. SocketsInv
  BY InitSockets
<1>2. disk \in [DOMAIN disk -> Files]
  BY DisksAssumption DEF Init
<1>3. Empty \in Directories /\ Empty \in STRING
      /\ site.list["LIST"][Empty] \in Seq(Entries)
  BY SitesAssumption DEF Init, Directories
<1>4. con \in Cons
  BY DEF Init, Cons, Flags
<1>5. loop \in Loops /\ get \in Gets
  BY <1>3 DEF Init, ZeroLoop, ZeroGet, Loops, Gets
<1>6. err \in Errs
  BY DEF Init, Errs
<1>7. listing \in [command : {"LIST_a", "LIST"}, dir : Directories, len : Nat]
      /\ listing.len <= Len(site.list[listing.command][listing.dir])
  BY <1>3 DEF Init
<1>8. frames \in Seq(Frames) /\ total \in Nat /\ loop.qtyread >= loop.restval
  BY DEF Init, ZeroLoop
<1> QED
  BY <1>2, <1>4, <1>5, <1>6, <1>7, <1>8
  DEF Init, TypesInv, Stages, Walk, LoginStages, TransferStages

LEMMA TypesStep ==
    ASSUME SocketsInv, LeakBound, TypesInv, CommandsInv, [Next]_vars
    PROVE  TypesInv'
<1>1. CASE Getftp
  BY <1>1, LoginTypes, CommandTypes, TransferTypes, OpenTypes, BodyTypes, ResponseTypes
  DEF Getftp
<1>2. CASE ReturnOwn \/ ReturnListing \/ ReturnFile
  <2>1. pc = "returned" => (loop.caller = "file" => frames # <<>>)
    BY DEF CommandsInv, Calling
  <2> QED BY <1>2, <2>1, ReturnTypes DEF ReturnOwn, ReturnListing, ReturnFile
<1> QED
  BY <1>1, <1>2, AfterwardsTypes, BeforehandTypes, NextTypes, FinishTypes DEF Next, Stopped

-----------------------------------------------------------------------------
(***************************************************************************)
(* The commands.                                                           *)
(***************************************************************************)
\* getftp leaves its arguments, the commands and the flags of its caller alone.
LEMMA GetftpKeeps ==
    ASSUME SocketsInv, TypesInv, Getftp
    PROVE  /\ pc \in Walk /\ pc' \in (Walk \ {"connect"}) \cup {"judge", "aborted"}
           /\ UNCHANGED <<opt, site, frames, total, listed, failed>>
           /\ con'.cmd = con.cmd /\ con'.csock \in {0, con.csock} \cup {FreeDescriptor}
           /\ "ON_YOUR_OWN" \in con'.st <=> "ON_YOUR_OWN" \in con.st
           /\ "DONE_CWD" \in con'.st <=> "DONE_CWD" \in con.st
           /\ loop'.caller = loop.caller /\ loop'.dir = loop.dir /\ loop'.name = loop.name
           /\ loop'.f = loop.f /\ loop'.count = loop.count /\ loop'.restval = loop.restval
           /\ loop'.force = loop.force /\ (pc # "body" => loop' = loop)
<1>1. con \in Cons /\ get \in Gets /\ loop \in Loops
  BY DEF TypesInv
<1>2. ASSUME NEW how, NEW e, End(how, e)
      PROVE  con' \in {con, [con EXCEPT !.csock = 0]} /\ pc' = "judge"
  BY <1>2 DEF End
<1>3. /\ pc \in Walk /\ pc' \in (Walk \ {"connect"}) \cup {"judge", "aborted"}
      /\ UNCHANGED <<opt, site, frames, total, listed, failed>>
  <2>1. pc \in Walk /\ UNCHANGED <<opt, site, frames, total, listed, failed>>
    BY DEF Getftp, Connect, CommandFails, CannotWrite, Answered, Auth, Handshake, Prot, Syst,
           Cwd, Size, Passive, Port, Rest, Retr, List, Accept, Open, DataHandshake, Body,
           Completed, Aborted, commandAnswered, commandOnly, unchangedInGetftp, Walk,
           LoginStages, TransferStages, ControlStages
  <2>2. CASE Connect \/ CommandFails \/ CannotWrite \/ Answered \/ Auth \/ Handshake
    BY <1>2, <2>1, <2>2
    DEF Connect, CommandFails, CannotWrite, Answered, Auth, Handshake, After, Go, Walk,
        LoginStages, TransferStages
  <2>3. CASE Prot \/ Syst \/ Cwd \/ Size \/ Passive \/ Port \/ Rest
    BY <1>2, <2>1, <2>3
    DEF Prot, Syst, Cwd, Size, Passive, Port, Rest, After, Go, Walk, LoginStages, TransferStages
  <2>4. CASE Retr \/ List \/ Accept \/ Open \/ DataHandshake \/ Body \/ Completed \/ Aborted
    BY <1>2, <2>1, <2>4
    DEF Retr, List, Accept, Open, DataHandshake, Body, Completed, Aborted, After, Go,
        transferred, Walk, LoginStages, TransferStages
  <2> QED BY <2>1, <2>2, <2>3, <2>4 DEF Getftp
<1>4. ASSUME con' \in {con, [con EXCEPT !.csock = 0]}
      PROVE  /\ con'.cmd = con.cmd /\ con'.csock \in {0, con.csock} /\ con'.st = con.st
  BY <1>1, <1>4 DEF Cons
<1>5. /\ con'.cmd = con.cmd /\ con'.csock \in {0, con.csock} \cup {FreeDescriptor}
      /\ "ON_YOUR_OWN" \in con'.st <=> "ON_YOUR_OWN" \in con.st
      /\ "DONE_CWD" \in con'.st <=> "DONE_CWD" \in con.st
  <2>1. CASE Completed
    <3>1. Completed => con' \in {con, [con EXCEPT !.st = Negotiate(con.st).st]}
      BY <1>2 DEF Completed, End
    <3> QED BY <1>1, <1>4, <2>1, <3>1, NegotiateType DEF Cons
  <2>2. CASE Syst
    BY <1>1, <2>2 DEF Syst, Cons
  <2>3. CASE Connect
    BY <1>1, <1>2, <1>4, <2>3 DEF Connect, Cons
  <2>4. CASE Prot
    BY <1>1, <1>2, <1>4, <2>4 DEF Prot, Cons
  <2>5. CASE CommandFails \/ CannotWrite
    <3>1. con' \in {con, [con EXCEPT !.csock = 0]}
      BY <1>2, <2>5 DEF CommandFails, CannotWrite
    <3> QED BY <1>4, <3>1
  <2>6. CASE Answered \/ Auth \/ Handshake \/ Cwd \/ Size
    <3>1. con' \in {con, [con EXCEPT !.csock = 0]}
      BY <1>2, <2>6 DEF Answered, Auth, Handshake, Cwd, Size, commandAnswered
    <3> QED BY <1>4, <3>1
  <2>7. CASE Passive \/ Port \/ Rest
    <3>1. con' \in {con, [con EXCEPT !.csock = 0]}
      BY <1>2, <2>7 DEF Passive, Port, Rest
    <3> QED BY <1>4, <3>1
  <2>8. CASE Retr \/ List \/ Accept
    <3>1. con' \in {con, [con EXCEPT !.csock = 0]}
      BY <1>2, <2>8 DEF Retr, List, Accept
    <3> QED BY <1>4, <3>1
  <2>9. CASE Open \/ DataHandshake \/ Body \/ Aborted
    <3>1. con' \in {con, [con EXCEPT !.csock = 0]}
      BY <1>2, <2>9 DEF Open, DataHandshake, Body, Aborted
    <3> QED BY <1>4, <3>1
  <2> QED BY <2>1, <2>2, <2>3, <2>4, <2>5, <2>6, <2>7, <2>8, <2>9 DEF Getftp
<1>6. (pc # "body" => loop' = loop) /\ loop' \in {loop, [loop EXCEPT !.qtyread = loop'.qtyread]}
  <2>1. CASE Body
    <3>1. ASSUME NEW n, Written(n) PROVE loop' = [loop EXCEPT !.qtyread = loop'.qtyread]
      <4>1. loop' = [loop EXCEPT !.qtyread = loop.qtyread + n]
        BY <3>1 DEF Written
      <4> QED BY <1>1, <4>1 DEF Loops
    <3> QED BY <2>1, <3>1 DEF Body
  <2>2. CASE ~Body
    BY <2>2 DEF Getftp, Connect, CommandFails, CannotWrite, Answered, Auth, Handshake, Prot,
        Syst, Cwd, Size, Passive, Port, Rest, Retr, List, Accept, Open, DataHandshake,
        Completed, Aborted, commandAnswered, commandOnly, unchangedInGetftp
  <2> QED BY <2>1, <2>2
<1> QED BY <1>1, <1>3, <1>5, <1>6 DEF Loops

LEMMA GetftpCommands ==
    ASSUME SocketsInv, TypesInv, CommandsInv, Getftp
    PROVE  CommandsInv'
BY GetftpKeeps
DEF CommandsInv, OnYourOwn, Top, Calling, Walk, LoginStages, TransferStages

LEMMA AroundCommands ==
    ASSUME SocketsInv, TypesInv, CommandsInv,
           Enter \/ Try \/ FatalError \/ Retry \/ Saved \/ Abort
    PROVE  CommandsInv'
<1>1. con \in Cons /\ loop \in Loops
  BY DEF TypesInv
<1>2. /\ pc \in {"enter", "try", "judge"} /\ UNCHANGED frames
      /\ pc' \in {"try", "returned", "connect", "cwd", "aborted"}
      /\ pc' = "try" /\ pc # "enter" => pc = "judge" /\ Retry
  BY DEF Enter, Try, FatalError, Retry, Saved, Abort, judging, GiveUp, Go
<1>3. /\ loop'.caller = loop.caller /\ loop'.dir = loop.dir /\ loop'.f = loop.f
      /\ pc = "judge" \/ pc = "enter" => loop' = loop
  BY <1>1 DEF Enter, Try, FatalError, Retry, Saved, Abort, judging, Loops
<1>4. /\ "ON_YOUR_OWN" \in con'.st <=> "ON_YOUR_OWN" \in con.st
      /\ ~Try => con'.cmd = con.cmd
  BY <1>1
  DEF Enter, Try, FatalError, Retry, Saved, Abort, judging, WithDoneCwd, GiveUp, Cons
<1>5. CASE Enter
  <2>1. pc = "enter" /\ pc' \in {"try", "returned"}
    BY <1>5 DEF Enter, Go
  <2> QED
    BY <1>2, <1>3, <1>4, <2>1
    DEF CommandsInv, OnYourOwn, Top, Calling, Walk, LoginStages, TransferStages, Try
<1>6. CASE Try
  <2>1. /\ pc = "try" /\ pc' \in {"connect", "cwd"}
    BY <1>6 DEF Try, Go
  <2>2. con'.cmd = TryCommands /\ loop'.count > 0
    BY <1>1, <1>6 DEF Try, Cons, Loops
  <2>3. /\ OnYourOwn => "RETR" \in con'.cmd /\ "LIST" \notin con'.cmd
        /\ ~OnYourOwn => /\ "RETR" \in con'.cmd <=> "RETR" \in con.cmd
                         /\ "LIST" \in con'.cmd <=> "LIST" \in con.cmd
    BY <2>2 DEF TryCommands, OnYourOwn
  <2>4. pc' \in Calling /\ pc \in Calling /\ pc' \notin {"enter", "try", "files", "dirs"}
    BY <2>1 DEF Calling, Walk
  <2>5. Top' = Top
    BY <1>2 DEF Top
  <2> QED
    BY <1>2, <1>3, <1>4, <2>1, <2>2, <2>3, <2>4, <2>5 DEF CommandsInv, OnYourOwn
<1>7. CASE FatalError \/ Retry \/ Saved \/ Abort
  <2>1. pc = "judge" /\ pc' \in {"try", "returned", "aborted"} /\ ~Try
    BY <1>2, <1>7 DEF FatalError, Retry, Saved, Abort, GiveUp, Go, Try
  <2>2. pc' = "try" => loop'.count = loop.count
    BY <1>3, <2>1
  <2> QED
    BY <1>2, <1>3, <1>4, <2>1, <2>2
    DEF CommandsInv, OnYourOwn, Top, Calling, Walk, LoginStages, TransferStages
<1> QED BY <1>5, <1>6, <1>7

\* The frames that are left keep their actions.
LEMMA FramesActions ==
    ASSUME TypesInv, CommandsInv, frames # <<>>, frames' \in Seq(Frames),
           \/ /\ \A i \in DOMAIN frames' : i \in DOMAIN frames /\ frames'[i] = frames[i]
           \/ /\ DOMAIN frames' = DOMAIN frames
              /\ frames'[Len(frames)].action = Top.action
              /\ \A i \in DOMAIN frames : i # Len(frames) => frames'[i] = frames[i]
    PROVE  \A i \in DOMAIN frames' : i > 1 => frames'[i].action # "GLOB_GETONE"
BY DEF CommandsInv, Top

\* No ftp_loop_internal is called: the end of a list, or its next line.
LEMMA BetweenCommands ==
    ASSUME TypesInv, CommandsInv,
           \A i \in DOMAIN frames' : i > 1 => frames'[i].action # "GLOB_GETONE",
           \/ pc' \in {"finish", "done"}
           \/ pc' = "dirs" /\ "ON_YOUR_OWN" \notin con'.st
           \/ /\ pc' = "files" /\ "ON_YOUR_OWN" \notin con'.st
              /\ "RETR" \in con'.cmd /\ "LIST" \notin con'.cmd
    PROVE  CommandsInv'
BY DEF CommandsInv, OnYourOwn, Calling, Walk, LoginStages, TransferStages

LEMMA CallCommands ==
    ASSUME TypesInv, CommandsInv, pc' = "enter", loop'.count = 0, loop'.qtyread = 0,
           \A i \in DOMAIN frames' : i > 1 => frames'[i].action # "GLOB_GETONE",
           frames' # <<>> => loop'.dir = frames'[Len(frames')].dir,
           loop'.f # NoEntry => loop'.caller = "file",
           \/ /\ loop'.caller = "own" /\ "ON_YOUR_OWN" \in con'.st
              /\ "LIST" \notin con'.cmd /\ Len(frames') <= 1
           \/ /\ loop'.caller = "listing" /\ "ON_YOUR_OWN" \notin con'.st
              /\ "LIST" \in con'.cmd /\ "RETR" \notin con'.cmd
           \/ /\ loop'.caller = "file" /\ "ON_YOUR_OWN" \notin con'.st
              /\ "LIST" \notin con'.cmd /\ "RETR" \in con'.cmd /\ frames' # <<>>
    PROVE  CommandsInv'
BY DEF CommandsInv, OnYourOwn, Top, Calling, Walk, LoginStages, TransferStages

LEMMA FtpLoopCommands ==
    ASSUME SocketsInv, TypesInv, CommandsInv, FtpLoop
    PROVE  CommandsInv'
<1>1. con \in Cons /\ frames = <<>> /\ con.cmd = {} /\ con.st = {"ON_YOUR_OWN"}
  BY DEF TypesInv, CommandsInv, FtpLoop
<1>2. CASE opt.job = "file"
  <2>1. PICK n \in opt.names : Call("own", opt.dir, n, NoEntry, FALSE)
    BY <1>2 DEF FtpLoop
  <2>2. /\ pc' = "enter" /\ loop'.count = 0 /\ loop'.qtyread = 0 /\ loop'.f = NoEntry
        /\ loop'.caller = "own" /\ loop'.dir = opt.dir
    BY <2>1, CallType, OptionTypes
  <2>3. UNCHANGED <<frames, con>>
    BY <1>2 DEF FtpLoop
  <2> QED BY <1>1, <2>2, <2>3, CallCommands
<1>3. CASE opt.job # "file"
  <2>1. /\ Call("listing", opt.dir, Empty, NoEntry, FALSE) /\ con' = Listing(con)
        /\ frames' \in {<<>>, <<Frame(opt.dir, opt.action)>>}
    BY <1>3 DEF FtpLoop
  <2>2. Empty \in STRING
    BY SitesAssumption DEF SocketsInv
  <2>3. /\ pc' = "enter" /\ loop'.count = 0 /\ loop'.qtyread = 0 /\ loop'.f = NoEntry
        /\ loop'.caller = "listing" /\ loop'.dir = opt.dir
    BY <2>1, <2>2, CallType, OptionTypes
  <2>4. /\ "ON_YOUR_OWN" \notin con'.st /\ "LIST" \in con'.cmd /\ "RETR" \notin con'.cmd
    BY <1>1, <2>1, ListingType
  <2>5. PICK fr : frames' \in {<<>>, <<fr>>} /\ fr.dir = opt.dir
    <3>1. Frame(opt.dir, opt.action).dir = opt.dir
      BY FrameType, OptionTypes
    <3> HIDE DEF Frame
    <3> QED BY <2>1, <3>1
  <2>6. /\ \A i \in DOMAIN frames' : ~(i > 1)
        /\ frames' # <<>> => frames'[Len(frames')].dir = opt.dir
    BY <2>5
  <2> QED BY <2>3, <2>4, <2>6, CallCommands
<1> QED BY <1>2, <1>3

LEMMA ReturnCommands ==
    ASSUME SocketsInv, TypesInv, CommandsInv, ReturnOwn \/ ReturnListing \/ ReturnFile
    PROVE  CommandsInv'
<1>1. /\ con \in Cons /\ loop \in Loops /\ frames \in Seq(Frames) /\ err \in Errs
  BY DEF TypesInv
<1>2. pc = "returned" /\ pc \in Calling
  BY DEF ReturnOwn, ReturnListing, ReturnFile, Calling
<1>3. CASE ReturnOwn
  <2>1. CASE frames = <<>>
    <3>1. frames' = <<>> /\ pc' = "finish"
      BY <1>3, <2>1 DEF ReturnOwn, Go
    <3> QED BY <3>1, BetweenCommands
  <2>2. CASE frames # <<>>
    <3>1. EndGlob(err) /\ loop.caller = "own"
      BY <1>3, <2>2 DEF ReturnOwn
    <3>2. Len(frames) <= 1 /\ Len(frames) \in Nat \ {0}
      BY <1>1, <1>2, <2>2, <3>1, TopType DEF CommandsInv
    <3>3. /\ pc' = "finish" /\ frames' \in Seq(Frames)
          /\ \A i \in DOMAIN frames' : i \in DOMAIN frames /\ frames'[i] = frames[i]
      BY <1>1, <2>2, <3>1, <3>2, EndGlobType
    <3> QED BY <2>2, <3>3, BetweenCommands, FramesActions
  <2> QED BY <2>1, <2>2
<1>4. CASE ReturnListing
  <2> DEFINE c == [con EXCEPT !.cmd = @ \ {"LIST"}]
  <2>1. /\ "ON_YOUR_OWN" \notin con.st /\ loop.caller = "listing"
    BY <1>2, <1>4 DEF CommandsInv, OnYourOwn, ReturnListing
  <2>2. /\ "ON_YOUR_OWN" \notin c.st /\ "LIST" \notin c.cmd
        /\ "ON_YOUR_OWN" \notin [c EXCEPT !.cmd = @ \cup {"RETR"}].st
        /\ "RETR" \in [c EXCEPT !.cmd = @ \cup {"RETR"}].cmd
        /\ "LIST" \notin [c EXCEPT !.cmd = @ \cup {"RETR"}].cmd
        /\ "ON_YOUR_OWN" \in [c EXCEPT !.st = @ \cup {"ON_YOUR_OWN"}].st
        /\ "LIST" \notin [c EXCEPT !.st = @ \cup {"ON_YOUR_OWN"}].cmd
    BY <1>1, <2>1 DEF Cons
  <2> HIDE DEF c
  <2>3. CASE frames = <<>>
    <3>1. pc' = "finish" /\ frames' = frames
      BY <1>4, <2>3 DEF ReturnListing, Go, c
    <3> QED BY <2>3, <3>1, BetweenCommands
  <2>4. ASSUME frames # <<>>, con' = c, NEW e \in Errs, EndGlob(e)
        PROVE  CommandsInv'
    <3>1. /\ pc' \in {"finish", "dirs"} /\ frames' \in Seq(Frames)
          /\ \A i \in DOMAIN frames' : i \in DOMAIN frames /\ frames'[i] = frames[i]
      BY <1>1, <2>4, EndGlobType
    <3> QED BY <2>2, <2>4, <3>1, BetweenCommands, FramesActions
  <2>5. CASE /\ frames # <<>> /\ con' = [c EXCEPT !.cmd = @ \cup {"RETR"}]
             /\ frames' = SetTop([Top EXCEPT !.list = ListingRead]) /\ pc' = "files"
    <3>1. /\ [Top EXCEPT !.list = ListingRead] \in Frames
          /\ [Top EXCEPT !.list = ListingRead].action = Top.action
      BY <1>1, <2>5, TopType, ReadType DEF Frames
    <3>2. /\ frames' \in Seq(Frames) /\ DOMAIN frames' = DOMAIN frames
          /\ frames'[Len(frames)].action = Top.action
          /\ \A i \in DOMAIN frames : i # Len(frames) => frames'[i] = frames[i]
      BY <1>1, <2>5, <3>1, SetTopType
    <3> QED BY <2>2, <2>5, <3>2, BetweenCommands, FramesActions
  <2>6. CASE /\ frames # <<>> /\ con' = [c EXCEPT !.st = @ \cup {"ON_YOUR_OWN"}]
             /\ \E n \in opt.names : Call("own", Top.dir, n, NoEntry, FALSE)
             /\ UNCHANGED frames /\ Top.action = "GLOB_GETONE"
    <3>1. PICK n \in opt.names : Call("own", Top.dir, n, NoEntry, FALSE)
      BY <2>6
    <3>2. Top.dir \in STRING /\ n \in STRING
      BY <1>1, <2>6, TopType, OptionTypes DEF Frames
    <3>3. /\ pc' = "enter" /\ loop'.count = 0 /\ loop'.qtyread = 0 /\ loop'.f = NoEntry
          /\ loop'.caller = "own" /\ loop'.dir = Top.dir
      BY <3>1, <3>2, CallType
    <3>4. Len(frames) <= 1
      BY <1>1, <2>6, TopType DEF CommandsInv
    <3>5. \A i \in DOMAIN frames : i > 1 => frames[i].action # "GLOB_GETONE"
      BY DEF CommandsInv
    <3> QED BY <2>2, <2>6, <3>3, <3>4, <3>5, CallCommands DEF Top
  <2>7. WithQuota("RETROK") \in Errs
    BY DEF WithQuota, Errs
  <2> QED
    BY <1>1, <1>4, <2>3, <2>4, <2>5, <2>6, <2>7 DEF ReturnListing, Go, c
<1>5. CASE ReturnFile
  <2>1. /\ frames # <<>> /\ Top \in Frames /\ "ON_YOUR_OWN" \notin con.st
        /\ "RETR" \in con.cmd /\ "LIST" \notin con.cmd
    BY <1>1, <1>2, <1>5, TopType DEF ReturnFile, CommandsInv, OnYourOwn
  <2>2. pc' = "files" /\ con' \in {con, [con EXCEPT !.cmd = @ \ {"CWD", "LOGIN"}]}
    BY <1>5 DEF ReturnFile, Go
  <2>3. /\ "ON_YOUR_OWN" \notin con'.st
        /\ "RETR" \in con'.cmd /\ "LIST" \notin con'.cmd
    BY <1>1, <2>1, <2>2 DEF Cons
  <2>4. PICK at \in Nat : frames' = SetTop([Top EXCEPT !.err = err, !.at = at])
    <3>1. Len(Top.list) \in Nat /\ Top.at \in Nat
      BY <2>1 DEF Frames
    <3> QED BY <1>5, <3>1 DEF ReturnFile
  <2>5. /\ [Top EXCEPT !.err = err, !.at = at] \in Frames
        /\ [Top EXCEPT !.err = err, !.at = at].action = Top.action
    BY <1>1, <2>1, <2>4 DEF Frames
  <2>6. /\ frames' \in Seq(Frames) /\ DOMAIN frames' = DOMAIN frames
        /\ frames'[Len(frames)].action = Top.action
        /\ \A i \in DOMAIN frames : i # Len(frames) => frames'[i] = frames[i]
    BY <1>1, <2>1, <2>4, <2>5, SetTopType
  <2> QED BY <2>1, <2>2, <2>3, <2>6, BetweenCommands, FramesActions
<1> QED BY <1>3, <1>4, <1>5

LEMMA NextCommands ==
    ASSUME SocketsInv, TypesInv, CommandsInv, NextFile \/ NextDir
    PROVE  CommandsInv'
<1>1. /\ con \in Cons /\ frames \in Seq(Frames) /\ err \in Errs /\ frames # <<>>
      /\ "ON_YOUR_OWN" \notin con.st
  BY DEF TypesInv, CommandsInv, NextFile, NextDir, OnYourOwn
<1>2. Top \in Frames /\ Top.at \in Nat /\ Top.list \in Seq(Entries) /\ Top.err \in Errs
      /\ Top.dir \in STRING /\ Top.dir = frames[Len(frames)].dir
  <2>1. Top \in Frames /\ Top = frames[Len(frames)]
    BY <1>1, TopType
  <2> QED BY <2>1 DEF Frames
<1>3. \A e \in Errs : WithQuota(e) \in Errs
  BY DEF WithQuota, Errs
<1>4. ASSUME NEW e \in Errs, EndGlob(e), UNCHANGED con
      PROVE  CommandsInv'
  <2>1. /\ pc' \in {"finish", "dirs"} /\ frames' \in Seq(Frames)
        /\ \A i \in DOMAIN frames' : i \in DOMAIN frames /\ frames'[i] = frames[i]
    BY <1>1, <1>4, EndGlobType
  <2> QED BY <1>1, <1>4, <2>1, BetweenCommands, FramesActions
<1>5. ASSUME NEW frame \in Frames, frame.action = Top.action, frame.dir = Top.dir
      PROVE  LET fs == SetTop(frame) IN
             /\ fs \in Seq(Frames) /\ fs # <<>> /\ Len(fs) = Len(frames)
             /\ fs[Len(frames)].dir = Top.dir
             /\ frames' = fs =>
                   \A i \in DOMAIN frames' : i > 1 => frames'[i].action # "GLOB_GETONE"
             /\ \A i \in DOMAIN fs : i > 1 => fs[i].action # "GLOB_GETONE"
  <2> DEFINE fs == SetTop(frame)
  <2>1. /\ fs \in Seq(Frames) /\ DOMAIN fs = DOMAIN frames /\ fs # <<>>
        /\ Len(fs) = Len(frames) /\ fs[Len(frames)] = frame
        /\ \A i \in DOMAIN frames : i # Len(frames) => fs[i] = frames[i]
    BY <1>1, SetTopType
  <2>2. \A i \in DOMAIN fs : i > 1 => fs[i].action # "GLOB_GETONE"
    BY <1>1, <1>5, <2>1 DEF CommandsInv, Top
  <2> HIDE DEF fs
  <2>3. frames' = fs => \A i \in DOMAIN frames' : i > 1 => frames'[i].action # "GLOB_GETONE"
    BY <2>2
  <2> QED BY <1>5, <2>1, <2>2, <2>3 DEF fs
<1>6. CASE NextFile
  <2> DEFINE i == Following(Kept(Top.list, Top.action), Top.at)
             f == Top.list[i]
             force == Top.force \/ (opt.timestamping /\ Exists(<<Top.dir, f.name>>)
                                        /\ ~disk[<<Top.dir, f.name>>].fresh)
  <2>1. i \in Nat /\ (i # 0 => i \in DOMAIN Top.list)
    <3>1. /\ Kept(Top.list, Top.action) \in SUBSET Nat
          /\ Kept(Top.list, Top.action) \subseteq DOMAIN Top.list
      BY <1>2, KeptType
    <3>2. i \in Kept(Top.list, Top.action) \cup {0}
      BY <1>2, <3>1, FollowingType
    <3> HIDE DEF i
    <3> QED BY <3>1, <3>2
  <2>2. i # 0 => f \in Entries
    BY <1>2, <2>1
  <2>3. force \in BOOLEAN
    <3>1. Top.force \in BOOLEAN
      BY <1>2 DEF Frames
    <3> QED BY <3>1
  <2>4. pc = "files" /\ "RETR" \in con.cmd /\ "LIST" \notin con.cmd
    BY <1>6 DEF NextFile, CommandsInv
  <2> HIDE DEF i, f, force
  <2>5. CASE frames' = SetTop([Top EXCEPT !.at = 0]) /\ pc' = "dirs" /\ UNCHANGED con
    <3>1. /\ [Top EXCEPT !.at = 0] \in Frames
          /\ [Top EXCEPT !.at = 0].action = Top.action /\ [Top EXCEPT !.at = 0].dir = Top.dir
      BY <1>2 DEF Frames
    <3> QED BY <1>1, <1>5, <2>5, <3>1, BetweenCommands
  <2>6. CASE /\ i # 0 /\ frames' = SetTop([Top EXCEPT !.at = i, !.force = force])
             /\ Call("file", Top.dir, f.name, f, force) /\ UNCHANGED <<con, err>>
    <3> DEFINE frame == [Top EXCEPT !.at = i, !.force = force]
    <3>1. frame \in Frames /\ frame.action = Top.action /\ frame.dir = Top.dir
      BY <1>2, <2>1, <2>3 DEF Frames
    <3>2. f.name \in STRING
      BY <2>2, <2>6 DEF Entries
    <3>3. /\ pc' = "enter" /\ loop'.count = 0 /\ loop'.qtyread = 0
          /\ loop'.caller = "file" /\ loop'.dir = Top.dir
      BY <1>2, <2>2, <2>3, <2>6, <3>2, CallType
    <3> HIDE DEF frame
    <3>4. frames' = SetTop(frame)
      BY <2>6 DEF frame
    <3>5. /\ frames' # <<>> /\ frames'[Len(frames')].dir = Top.dir
          /\ \A k \in DOMAIN frames' : k > 1 => frames'[k].action # "GLOB_GETONE"
      BY <1>5, <3>1, <3>4
    <3> QED BY <1>1, <2>4, <2>6, <3>3, <3>5, CallCommands
  <2>7. CASE /\ i # 0 /\ frames' = SetTop([Top EXCEPT !.at = i, !.err = "RETROK"])
             /\ con' = [con EXCEPT !.cmd = @ \ {"CWD", "LOGIN"}]
             /\ UNCHANGED <<pc, err, loop>>
    <3> DEFINE frame == [Top EXCEPT !.at = i, !.err = "RETROK"]
    <3>1. frame \in Frames /\ frame.action = Top.action /\ frame.dir = Top.dir
      BY <1>2, <2>1 DEF Frames, Errs
    <3>2. /\ "ON_YOUR_OWN" \notin con'.st
          /\ "RETR" \in con'.cmd /\ "LIST" \notin con'.cmd
      BY <1>1, <2>4, <2>7 DEF Cons
    <3> HIDE DEF frame
    <3>3. frames' = SetTop(frame)
      BY <2>7 DEF frame
    <3> QED BY <1>5, <2>4, <2>7, <3>1, <3>2, <3>3, BetweenCommands
  <2>8. "QUOTEXC" \in Errs
    BY DEF Errs
  <2> QED
    BY <1>2, <1>3, <1>4, <1>6, <2>5, <2>6, <2>7, <2>8 DEF NextFile, Go, i, f, force
<1>7. CASE NextDir
  <2> DEFINE dirs == {i \in Kept(Top.list, Top.action) : Top.list[i].type = "dir"}
             i == Following(dirs, Top.at)
  <2>1. i \in Nat /\ (i # 0 => i \in DOMAIN Top.list)
    <3>1. dirs \in SUBSET Nat /\ dirs \subseteq DOMAIN Top.list
      BY <1>2, KeptType
    <3> HIDE DEF dirs
    <3>2. i \in dirs \cup {0}
      BY <1>2, <3>1, FollowingType
    <3> HIDE DEF i
    <3> QED BY <3>1, <3>2
  <2> HIDE DEF i
  <2>2. CASE /\ i # 0 /\ Call("listing", Top.list[i].name, Empty, NoEntry, FALSE)
             /\ frames' = Append(SetTop([Top EXCEPT !.at = i]),
                                Frame(Top.list[i].name, "GLOB_GETALL"))
             /\ con' = Listing([con EXCEPT !.st = @ \ {"DONE_CWD"}]) /\ UNCHANGED err
    <3> DEFINE name == Top.list[i].name
               sub == Frame(name, "GLOB_GETALL")
               fs == SetTop([Top EXCEPT !.at = i])
    <3>1. name \in STRING /\ Empty \in STRING
      <4>1. Top.list[i] \in Entries
        BY <1>2, <2>1, <2>2
      <4> QED BY <4>1, SitesAssumption DEF Entries, SocketsInv
    <3>2. /\ pc' = "enter" /\ loop'.count = 0 /\ loop'.qtyread = 0 /\ loop'.f = NoEntry
          /\ loop'.caller = "listing" /\ loop'.dir = name
      BY <2>2, <3>1, CallType
    <3>3. sub \in Frames /\ sub.dir = name /\ sub.action = "GLOB_GETALL"
      BY <3>1, FrameType DEF Actions
    <3>4. /\ fs \in Seq(Frames)
          /\ \A k \in DOMAIN fs : k > 1 => fs[k].action # "GLOB_GETONE"
      <4>1. /\ [Top EXCEPT !.at = i] \in Frames
            /\ [Top EXCEPT !.at = i].action = Top.action /\ [Top EXCEPT !.at = i].dir = Top.dir
        BY <1>2, <2>1 DEF Frames
      <4> QED BY <1>5, <4>1
    <3>5. frames' = Append(fs, sub)
      BY <2>2
    <3>6. /\ "ON_YOUR_OWN" \notin con'.st /\ "LIST" \in con'.cmd /\ "RETR" \notin con'.cmd
      <4>1. [con EXCEPT !.st = @ \ {"DONE_CWD"}] \in Cons
            /\ [con EXCEPT !.st = @ \ {"DONE_CWD"}].st = con.st \ {"DONE_CWD"}
        BY <1>1 DEF Cons
      <4> QED BY <1>1, <2>2, <4>1, ListingType
    <3> HIDE DEF name, sub, fs
    <3>7. /\ frames'[Len(frames')].dir = name
          /\ \A k \in DOMAIN frames' : k > 1 => frames'[k].action # "GLOB_GETONE"
      BY <3>3, <3>4, <3>5
    <3> QED BY <3>2, <3>6, <3>7, CallCommands
  <2>3. "RETROK" \in Errs
    BY DEF Errs
  <2> QED BY <1>3, <1>4, <1>7, <2>2, <2>3 DEF NextDir, i
<1> QED BY <1>6, <1>7

LEMMA CommandsStep ==
    ASSUME SocketsInv, LeakBound, TypesInv, CommandsInv, [Next]_vars
    PROVE  CommandsInv'
<1>1. CASE Finish
  BY <1>1, BetweenCommands DEF Finish, Go, CommandsInv
<1>2. CASE UNCHANGED vars
  BY <1>2 DEF vars, locals, CommandsInv, OnYourOwn, Top
<1> QED
  BY <1>1, <1>2, GetftpCommands, AroundCommands, FtpLoopCommands, ReturnCommands, NextCommands
  DEF Next, Stopped

LEMMA InitCommands ==
    ASSUME Init
    PROVE  CommandsInv
BY DEF Init, CommandsInv, OnYourOwn, Calling, Walk, LoginStages, TransferStages

-----------------------------------------------------------------------------
(***************************************************************************)
(* What the steps outside of getftp do, for the layers that follow.        *)
(***************************************************************************)
\* The lists of the frames: as they were, empty, or the listing just read.
FrameLists(reading) ==
    \A i \in DOMAIN frames' :
        \/ frames'[i].list = <<>>
        \/ /\ i \in DOMAIN frames /\ frames'[i].dir = frames[i].dir
           /\ \/ frames'[i].list = frames[i].list
              \/ reading /\ i = Len(frames) /\ frames'[i].list = ListingRead

LEMMA EndGlobFacts ==
    ASSUME TypesInv, frames # <<>>, NEW e \in Errs, EndGlob(e)
    PROVE  /\ FrameLists(FALSE) /\ pc' \in {"finish", "dirs"}
           /\ Len(frames') > 1 => Len(frames) > 1
           /\ pc' = "dirs" => Len(frames) > 1
<1>1. frames \in Seq(Frames) /\ err \in Errs
  BY DEF TypesInv
<1>2. /\ frames' \in Seq(Frames) /\ Len(frames') = Len(frames) - 1
      /\ \A i \in DOMAIN frames' : i \in DOMAIN frames /\ frames'[i] = frames[i]
      /\ pc' \in {"finish", "dirs"} /\ (pc' = "dirs" => Len(frames) > 1)
  BY <1>1, EndGlobType
<1>3. Len(frames') > 1 => Len(frames) > 1
  BY <1>1, <1>2
<1> QED BY <1>2, <1>3 DEF FrameLists

LEMMA SetTopFacts ==
    ASSUME TypesInv, frames # <<>>, NEW frame \in Frames, frame.dir = Top.dir,
           frames' = SetTop(frame), NEW reading \in BOOLEAN,
           frame.list = Top.list \/ (reading /\ frame.list = ListingRead)
    PROVE  /\ FrameLists(reading) /\ Len(frames') = Len(frames) /\ frames' # <<>>
           /\ frames'[Len(frames')].dir = Top.dir
<1>1. frames \in Seq(Frames)
  BY DEF TypesInv
<1>2. /\ frames' \in Seq(Frames) /\ Len(frames') = Len(frames) /\ frames' # <<>>
      /\ DOMAIN frames' = DOMAIN frames /\ frames'[Len(frames)] = frame
      /\ \A i \in DOMAIN frames : i # Len(frames) => frames'[i] = frames[i]
  BY <1>1, SetTopType
<1> QED BY <1>2 DEF FrameLists, Top

LEMMA ReturnFacts ==
    ASSUME SocketsInv, TypesInv, CommandsInv, ReturnOwn \/ ReturnListing \/ ReturnFile
    PROVE  /\ pc = "returned" /\ UNCHANGED <<opt, site, conns, listing>>
           /\ pc' \in {"finish", "dirs", "files", "enter"}
           /\ con'.csock = con.csock
           /\ FrameLists(loop.caller = "listing" /\ err = "RETROK")
           /\ Len(frames') > 1 => Len(frames) > 1
           /\ pc' = "dirs" => Len(frames) > 1
           /\ pc' = "files" =>
                 /\ frames # <<>> /\ con'.st = con.st /\ frames'[Len(frames')].dir = Top.dir
                 /\ \/ loop.caller = "file"
                    \/ loop.caller = "listing" /\ err = "RETROK"
           /\ pc' = "enter" =>
                 /\ frames # <<>> /\ loop.caller = "listing" /\ err = "RETROK"
                 /\ frames' = frames /\ loop'.caller = "own" /\ "ON_YOUR_OWN" \in con'.st
                 /\ loop'.dir = Top.dir /\ loop'.f = NoEntry
<1>1. /\ con \in Cons /\ frames \in Seq(Frames) /\ err \in Errs
  BY DEF TypesInv
<1>2. /\ pc = "returned" /\ pc \in Calling /\ UNCHANGED <<opt, site, conns, listing>>
      /\ pc' \in {"finish", "dirs", "files", "enter"} /\ con'.csock = con.csock
  BY <1>1
  DEF ReturnOwn, ReturnListing, ReturnFile, globbing, EndGlob, Call, Go, Calling, Cons
<1>3. ASSUME frames # <<>>, NEW e \in Errs, EndGlob(e)
      PROVE  /\ FrameLists(loop.caller = "listing" /\ err = "RETROK")
             /\ pc' \in {"finish", "dirs"} /\ (Len(frames') > 1 => Len(frames) > 1)
             /\ pc' = "dirs" => Len(frames) > 1
  <2>1. /\ FrameLists(FALSE) /\ pc' \in {"finish", "dirs"}
        /\ (Len(frames') > 1 => Len(frames) > 1) /\ (pc' = "dirs" => Len(frames) > 1)
    BY <1>3, EndGlobFacts
  <2> QED BY <2>1 DEF FrameLists
<1>4. ASSUME UNCHANGED frames
      PROVE  /\ FrameLists(loop.caller = "listing" /\ err = "RETROK")
             /\ Len(frames') = Len(frames)
  BY <1>4 DEF FrameLists
<1>5. CASE ReturnOwn
  <2>1. CASE frames = <<>>
    BY <1>2, <1>4, <1>5, <2>1 DEF ReturnOwn, Go
  <2>2. CASE frames # <<>>
    BY <1>1, <1>2, <1>3, <1>5, <2>2 DEF ReturnOwn
  <2> QED BY <2>1, <2>2
<1>6. CASE ReturnListing
  <2>1. loop.caller = "listing"
    BY <1>6 DEF ReturnListing
  <2>2. CASE frames = <<>>
    BY <1>2, <1>4, <1>6, <2>2 DEF ReturnListing, Go
  <2>3. CASE frames # <<>> /\ \E e \in Errs : EndGlob(e)
    BY <1>2, <1>3, <2>3
  <2>4. CASE /\ frames # <<>> /\ err = "RETROK" /\ con'.st = con.st
             /\ frames' = SetTop([Top EXCEPT !.list = ListingRead]) /\ pc' = "files"
    <3> DEFINE frame == [Top EXCEPT !.list = ListingRead]
    <3>1. frame \in Frames /\ frame.dir = Top.dir /\ frame.list = ListingRead
      BY <1>1, <2>4, TopType, ReadType DEF Frames
    <3>2. (loop.caller = "listing" /\ err = "RETROK") = TRUE
      BY <2>1, <2>4
    <3> HIDE DEF frame
    <3>3. frames' = SetTop(frame)
      BY <2>4 DEF frame
    <3>4. /\ FrameLists(TRUE) /\ Len(frames') = Len(frames)
          /\ frames'[Len(frames')].dir = Top.dir
      BY <2>4, <3>1, <3>3, SetTopFacts
    <3> QED BY <1>2, <2>1, <2>4, <3>2, <3>4
  <2>5. CASE /\ frames # <<>> /\ err = "RETROK" /\ "ON_YOUR_OWN" \in con'.st
             /\ \E n \in opt.names : Call("own", Top.dir, n, NoEntry, FALSE)
             /\ UNCHANGED frames
    <3>1. PICK n \in opt.names : Call("own", Top.dir, n, NoEntry, FALSE)
      BY <2>5
    <3>2. Top.dir \in STRING /\ n \in STRING
      BY <1>1, <2>5, TopType, OptionTypes DEF Frames
    <3>3. pc' = "enter" /\ loop'.f = NoEntry /\ loop'.caller = "own" /\ loop'.dir = Top.dir
      BY <3>1, <3>2, CallType
    <3> QED BY <1>2, <1>4, <2>1, <2>5, <3>3
  <2>6. WithQuota("RETROK") \in Errs
    BY DEF WithQuota, Errs
  <2> QED
    BY <1>1, <1>6, <2>2, <2>3, <2>4, <2>5, <2>6 DEF ReturnListing, Go, Cons
<1>7. CASE ReturnFile
  <2>1. /\ frames # <<>> /\ Top \in Frames /\ loop.caller = "file"
    BY <1>1, <1>2, <1>7, TopType DEF ReturnFile, CommandsInv
  <2>2. pc' = "files" /\ con'.st = con.st
    BY <1>1, <1>7 DEF ReturnFile, Go, Cons
  <2>3. PICK at \in Nat : frames' = SetTop([Top EXCEPT !.err = err, !.at = at])
    <3>1. Len(Top.list) \in Nat /\ Top.at \in Nat
      BY <2>1 DEF Frames
    <3> QED BY <1>7, <3>1 DEF ReturnFile
  <2> DEFINE frame == [Top EXCEPT !.err = err, !.at = at]
  <2>4. frame \in Frames /\ frame.dir = Top.dir /\ frame.list = Top.list
    BY <1>1, <2>1, <2>3 DEF Frames
  <2> HIDE DEF frame
  <2>5. frames' = SetTop(frame)
    BY <2>3 DEF frame
  <2>6. /\ FrameLists(FALSE) /\ Len(frames') = Len(frames)
        /\ frames'[Len(frames')].dir = Top.dir
    BY <2>1, <2>4, <2>5, SetTopFacts
  <2>7. FrameLists(loop.caller = "listing" /\ err = "RETROK")
    BY <2>6 DEF FrameLists
  <2> QED BY <1>2, <2>1, <2>2, <2>6, <2>7
<1> QED BY <1>5, <1>6, <1>7

LEMMA NextFacts ==
    ASSUME SocketsInv, TypesInv, CommandsInv, NextFile \/ NextDir
    PROVE  /\ pc \in {"files", "dirs"} /\ UNCHANGED <<opt, site, conns, listing, disk>>
           /\ pc' \in {"finish", "dirs", "files", "enter"} /\ frames # <<>>
           /\ con'.csock = con.csock /\ FrameLists(FALSE)
           /\ Len(frames') > 1 => Len(frames) > 1 \/ pc = "dirs"
           /\ pc' = "dirs" => Len(frames) > 1 \/ pc = "files"
           /\ pc' = "files" =>
                 pc = "files" /\ con'.st = con.st /\ frames'[Len(frames')].dir = Top.dir
           /\ pc' = "enter" =>
                 \/ /\ pc = "dirs" /\ loop'.caller = "listing" /\ loop'.dir # Empty
                    /\ "DONE_CWD" \notin con'.st /\ loop'.f = NoEntry
                 \/ /\ pc = "files" /\ loop'.caller = "file" /\ con' = con
                    /\ loop'.dir = Top.dir /\ loop'.f.type = "file"
                    /\ loop'.name = loop'.f.name
                    /\ \E i \in DOMAIN Top.list : loop'.f = Top.list[i]
<1>1. /\ con \in Cons /\ frames \in Seq(Frames) /\ frames # <<>>
      /\ UNCHANGED <<opt, site, conns, listing, disk>>
      /\ pc' \in {"finish", "dirs", "files", "enter"}
  BY DEF TypesInv, NextFile, NextDir, globbing, EndGlob, Call, Go
<1>2. Top \in Frames /\ Top.at \in Nat /\ Top.list \in Seq(Entries) /\ Top.err \in Errs
      /\ Top.dir \in STRING
  <2>1. Top \in Frames
    BY <1>1, TopType
  <2> QED BY <2>1 DEF Frames
<1>3. \A e \in Errs : WithQuota(e) \in Errs
  BY DEF WithQuota, Errs
<1>4. CASE NextFile
  <2> DEFINE i == Following(Kept(Top.list, Top.action), Top.at)
             f == Top.list[i]
             force == Top.force \/ (opt.timestamping /\ Exists(<<Top.dir, f.name>>)
                                        /\ ~disk[<<Top.dir, f.name>>].fresh)
  <2>1. i \in Nat /\ (i # 0 => i \in DOMAIN Top.list)
    <3>1. /\ Kept(Top.list, Top.action) \in SUBSET Nat
          /\ Kept(Top.list, Top.action) \subseteq DOMAIN Top.list
      BY <1>2, KeptType
    <3>2. i \in Kept(Top.list, Top.action) \cup {0}
      BY <1>2, <3>1, FollowingType
    <3> HIDE DEF i
    <3> QED BY <3>1, <3>2
  <2>2. i # 0 => f \in Entries
    BY <1>2, <2>1
  <2>3. force \in BOOLEAN
    <3>1. Top.force \in BOOLEAN
      BY <1>2 DEF Frames
    <3> QED BY <3>1
  <2>4. pc = "files"
    BY <1>4 DEF NextFile
  <2> HIDE DEF i, force
  <2>5. CASE con' = con /\ \E e \in Errs : EndGlob(e)
    BY <1>1, <2>4, <2>5, EndGlobFacts
  <2>6. CASE frames' = SetTop([Top EXCEPT !.at = 0]) /\ pc' = "dirs" /\ con' = con
    <3> DEFINE frame == [Top EXCEPT !.at = 0]
    <3>1. frame \in Frames /\ frame.dir = Top.dir /\ frame.list = Top.list
      BY <1>2 DEF Frames
    <3> HIDE DEF frame
    <3>2. frames' = SetTop(frame)
      BY <2>6 DEF frame
    <3>3. FrameLists(FALSE) /\ Len(frames') = Len(frames)
      BY <1>1, <3>1, <3>2, SetTopFacts
    <3> QED BY <1>1, <2>4, <2>6, <3>3
  <2>7. CASE /\ i # 0 /\ frames' = SetTop([Top EXCEPT !.at = i, !.force = force])
             /\ Call("file", Top.dir, f.name, f, force) /\ con' = con /\ f.type = "file"
    <3> DEFINE frame == [Top EXCEPT !.at = i, !.force = force]
    <3>1. frame \in Frames /\ frame.dir = Top.dir /\ frame.list = Top.list
      BY <1>2, <2>1, <2>3 DEF Frames
    <3>2. f.name \in STRING
      <4> HIDE DEF f
      <4> QED BY <2>2, <2>7 DEF Entries
    <3>3. /\ pc' = "enter" /\ loop'.caller = "file" /\ loop'.dir = Top.dir
          /\ loop'.f = f /\ loop'.name = f.name
      BY <1>2, <2>2, <2>3, <2>7, <3>2, CallType
    <3>4. \E k \in DOMAIN Top.list : f = Top.list[k]
      BY <2>1, <2>7
    <3> HIDE DEF frame, f
    <3>5. frames' = SetTop(frame)
      BY <2>7 DEF frame
    <3>6. FrameLists(FALSE) /\ Len(frames') = Len(frames)
      BY <1>1, <3>1, <3>5, SetTopFacts
    <3> QED BY <1>1, <2>4, <2>7, <3>3, <3>4, <3>6
  <2>8. CASE /\ i # 0 /\ frames' = SetTop([Top EXCEPT !.at = i, !.err = "RETROK"])
             /\ con' = [con EXCEPT !.cmd = @ \ {"CWD", "LOGIN"}]
             /\ UNCHANGED <<pc, err, loop>>
    <3> DEFINE frame == [Top EXCEPT !.at = i, !.err = "RETROK"]
    <3>1. frame \in Frames /\ frame.dir = Top.dir /\ frame.list = Top.list
      BY <1>2, <2>1 DEF Frames, Errs
    <3>2. con'.st = con.st /\ con'.csock = con.csock
      BY <1>1, <2>8 DEF Cons
    <3> HIDE DEF frame
    <3>3. frames' = SetTop(frame)
      BY <2>8 DEF frame
    <3>4. FrameLists(FALSE) /\ Len(frames') = Len(frames) /\ frames'[Len(frames')].dir = Top.dir
      BY <1>1, <3>1, <3>3, SetTopFacts
    <3> QED BY <1>1, <2>4, <2>8, <3>2, <3>4
  <2>9. "QUOTEXC" \in Errs
    BY DEF Errs
  <2> HIDE DEF f
  <2> QED
    BY <1>2, <1>3, <1>4, <2>5, <2>6, <2>7, <2>8, <2>9 DEF NextFile, Go, i, f, force
<1>5. CASE NextDir
  <2> DEFINE dirs == {i \in Kept(Top.list, Top.action) : Top.list[i].type = "dir"}
             i == Following(dirs, Top.at)
  <2>1. i \in Nat /\ (i # 0 => i \in DOMAIN Top.list)
    <3>1. dirs \in SUBSET Nat /\ dirs \subseteq DOMAIN Top.list
      BY <1>2, KeptType
    <3> HIDE DEF dirs
    <3>2. i \in dirs \cup {0}
      BY <1>2, <3>1, FollowingType
    <3> HIDE DEF i
    <3> QED BY <3>1, <3>2
  <2> HIDE DEF i
  <2>2. pc = "dirs"
    BY <1>5 DEF NextDir
  <2>3. CASE con' = con /\ \E e \in Errs : EndGlob(e)
    BY <1>1, <2>2, <2>3, EndGlobFacts
  <2>4. CASE /\ i # 0 /\ Call("listing", Top.list[i].name, Empty, NoEntry, FALSE)
             /\ frames' = Append(SetTop([Top EXCEPT !.at = i]),
                                Frame(Top.list[i].name, "GLOB_GETALL"))
             /\ con' = Listing([con EXCEPT !.st = @ \ {"DONE_CWD"}]) /\ UNCHANGED err
    <3> DEFINE name == Top.list[i].name
               sub == Frame(name, "GLOB_GETALL")
               frame == [Top EXCEPT !.at = i]
               fs == SetTop(frame)
    <3>1. name \in STRING /\ Empty \in STRING /\ name # Empty
      <4>1. Top.list[i] \in Entries
        BY <1>2, <2>1, <2>4
      <4> QED BY <4>1, SitesAssumption DEF Entries, SocketsInv
    <3>2. /\ pc' = "enter" /\ loop'.f = NoEntry /\ loop'.caller = "listing" /\ loop'.dir = name
      BY <2>4, <3>1, CallType
    <3>3. sub \in Frames /\ sub.list = <<>>
      BY <3>1, FrameType DEF Actions
    <3>4. /\ fs \in Seq(Frames) /\ DOMAIN fs = DOMAIN frames
          /\ \A k \in DOMAIN fs : fs[k].dir = frames[k].dir /\ fs[k].list = frames[k].list
      <4>1. frame \in Frames /\ frame.dir = Top.dir /\ frame.list = Top.list
        BY <1>2, <2>1 DEF Frames
      <4> HIDE DEF frame
      <4>2. /\ fs \in Seq(Frames) /\ DOMAIN fs = DOMAIN frames /\ fs[Len(frames)] = frame
            /\ \A k \in DOMAIN frames : k # Len(frames) => fs[k] = frames[k]
        BY <1>1, <4>1, SetTopType
      <4> QED BY <4>1, <4>2 DEF Top
    <3>5. frames' = Append(fs, sub)
      BY <2>4
    <3>6. /\ "DONE_CWD" \notin con'.st /\ con'.csock = con.csock
      <4>1. [con EXCEPT !.st = @ \ {"DONE_CWD"}] \in Cons
            /\ [con EXCEPT !.st = @ \ {"DONE_CWD"}].st = con.st \ {"DONE_CWD"}
            /\ [con EXCEPT !.st = @ \ {"DONE_CWD"}].csock = con.csock
        BY <1>1 DEF Cons
      <4> QED BY <1>1, <2>4, <4>1, ListingType
    <3> HIDE DEF name, sub, fs
    <3>7. FrameLists(FALSE)
      BY <3>3, <3>4, <3>5 DEF FrameLists
    <3> QED BY <1>1, <2>2, <2>4, <3>1, <3>2, <3>6, <3>7
  <2>5. "RETROK" \in Errs
    BY DEF Errs
  <2> QED BY <1>3, <1>5, <2>3, <2>4, <2>5 DEF NextDir, i
<1> QED BY <1>4, <1>5

\* ftp_loop calls ftp_loop_internal for a file or a listing, with no connection.
LEMMA FtpLoopFacts ==
    ASSUME SocketsInv, TypesInv, CommandsInv, FtpLoop
    PROVE  /\ UNCHANGED <<opt, site, conns, disk, listing>> /\ con'.csock = 0 /\ ~Live'
           /\ "DONE_CWD" \notin con'.st
           /\ pc = "start" /\ pc' = "enter" /\ loop'.caller \in {"own", "listing"}
           /\ loop'.f = NoEntry /\ loop'.count = 0 /\ loop'.qtyread = 0
           /\ loop'.caller = "own" => frames' = <<>>
           /\ ~(Len(frames') > 1) /\ \A i \in DOMAIN frames' : frames'[i].list = <<>>
<1>1. /\ con \in Cons /\ frames = <<>> /\ con.csock = 0 /\ con.st = {"ON_YOUR_OWN"}
      /\ 0 \notin DOMAIN conns /\ UNCHANGED <<opt, site, conns, disk, listing>>
      /\ pc = "start" /\ Empty \in STRING /\ opt.dir \in STRING /\ opt.names \subseteq STRING
      /\ opt.action \in Actions
  BY MaxFaultsAssumption, SitesAssumption, OptionTypes
  DEF TypesInv, CommandsInv, FtpLoop, SocketsInv, Descriptors
<1>2. CASE opt.job = "file"
  <2>1. PICK n \in opt.names : Call("own", opt.dir, n, NoEntry, FALSE)
    BY <1>2 DEF FtpLoop
  <2>2. /\ pc' = "enter" /\ loop'.count = 0 /\ loop'.qtyread = 0 /\ loop'.f = NoEntry
        /\ loop'.caller = "own"
    BY <1>1, <2>1, CallType
  <2>3. UNCHANGED <<frames, con>>
    BY <1>2 DEF FtpLoop
  <2> QED BY <1>1, <2>2, <2>3 DEF Live
<1>3. CASE opt.job # "file"
  <2>1. /\ Call("listing", opt.dir, Empty, NoEntry, FALSE) /\ con' = Listing(con)
        /\ frames' \in {<<>>, <<Frame(opt.dir, opt.action)>>}
    BY <1>3 DEF FtpLoop
  <2>2. /\ pc' = "enter" /\ loop'.count = 0 /\ loop'.qtyread = 0 /\ loop'.f = NoEntry
        /\ loop'.caller = "listing"
    BY <1>1, <2>1, CallType
  <2>3. con'.st = {"ON_YOUR_OWN"} \ {"ON_YOUR_OWN"} /\ con'.csock = 0
    BY <1>1, <2>1, ListingType
  <2>4. PICK fr : frames' \in {<<>>, <<fr>>} /\ fr.list = <<>>
    <3>1. Frame(opt.dir, opt.action).list = <<>>
      BY <1>1, FrameType
    <3> HIDE DEF Frame
    <3> QED BY <2>1, <3>1
  <2>5. ~(Len(frames') > 1) /\ \A i \in DOMAIN frames' : frames'[i].list = <<>>
    <3>1. CASE frames' = <<>>
      <4>1. Len(frames') = 0 /\ DOMAIN frames' = {}
        BY <3>1
      <4> QED BY <4>1
    <3>2. CASE frames' = <<fr>>
      <4>1. Len(frames') = 1 /\ DOMAIN frames' = {1} /\ frames'[1] = fr
        BY <3>2
      <4> QED BY <2>4, <4>1
    <3> QED BY <2>4, <3>1, <3>2
  <2> QED BY <1>1, <2>2, <2>3, <2>5 DEF Live
<1> QED BY <1>2, <1>3

-----------------------------------------------------------------------------
(***************************************************************************)
(* The answers.                                                            *)
(***************************************************************************)
\* The data end, or the disk is full.
LEMMA BodyEnds ==
    ASSUME Body
    PROVE  /\ pc = "body"
           /\ \/ /\ pc' = "response" /\ con' = con
                 /\ conns' = [k \in DOMAIN conns \ Closed("data") |-> conns[k]]
              \/ End("all", "FWRITEERR")
<1>1. pc = "body"
  BY Zenon DEF Body
<1>2. \/ /\ pc' = "response" /\ con' = con
         /\ conns' = [k \in DOMAIN conns \ Closed("data") |-> conns[k]]
      \/ End("all", "FWRITEERR")
  BY Zenon DEF Body, Go
<1> QED BY Zenon, <1>1, <1>2

\* Most actions leave the answers as they were.
LEMMA AnswersKept ==
    ASSUME \/ FtpLoop \/ Enter \/ Try \/ CommandFails \/ CannotWrite \/ Answered
           \/ Handshake \/ Cwd \/ Passive \/ Port \/ Rest \/ Open \/ DataHandshake \/ Body
           \/ Completed \/ Aborted \/ FatalError \/ Retry \/ Saved \/ Abort \/ ReturnOwn
           \/ ReturnListing \/ NextFile \/ ReturnFile \/ NextDir \/ Finish
           \/ UNCHANGED vars
    PROVE  UNCHANGED <<late, misled>>
<1>1. CASE FtpLoop \/ Enter \/ Try \/ CommandFails \/ CannotWrite \/ Answered \/ Finish
  BY Zenon, <1>1
  DEF FtpLoop, Enter, Try, CommandFails, CannotWrite, Answered, Finish, answersAsBefore
<1>2. CASE Handshake \/ Cwd \/ Passive \/ Port \/ Rest
  BY Zenon, <1>2 DEF Handshake, Cwd, Passive, Port, Rest, answersAsBefore
<1>3. CASE Open \/ DataHandshake \/ Body \/ Completed \/ Aborted
  BY Zenon, <1>3 DEF Open, DataHandshake, Body, Completed, Aborted, answersAsBefore
<1>4. CASE FatalError \/ Retry \/ Saved \/ Abort
  BY Zenon, <1>4 DEF FatalError, Retry, Saved, Abort, judging
<1>5. CASE ReturnOwn \/ ReturnListing \/ NextFile \/ ReturnFile \/ NextDir
  BY Zenon, <1>5 DEF ReturnOwn, ReturnListing, NextFile, ReturnFile, NextDir, globbing
<1>6. CASE UNCHANGED vars
  BY Zenon, <1>6 DEF vars
<1> QED BY <1>1, <1>2, <1>3, <1>4, <1>5, <1>6

\* Late answers stay late on the connection, and what was done for them stays done.
LEMMA AnswersStay ==
    ASSUME AnswersInv, [Next]_vars
    PROVE  (pc # "connect" /\ late => late') /\ (misled => misled')
<1>1. late \in BOOLEAN /\ misled \in BOOLEAN
  BY Zenon DEF AnswersInv
<1>2. CASE UNCHANGED <<late, misled>>
  BY Zenon, <1>2
<1>3. CASE Connect
  BY Zenon, <1>3 DEF Connect
<1>4. CASE Auth \/ Prot \/ Accept
  <2>1. CASE Auth
    <3>1. misled' = misled
      BY Zenon, <2>1 DEF Auth
    <3>2. late' = TRUE \/ late' = late
      BY Zenon, <2>1 DEF Auth
    <3>3. CASE late' = TRUE
      BY Zenon, <3>1, <3>3
    <3>4. CASE late' = late
      BY Zenon, <3>1, <3>4
    <3> QED BY Zenon, <3>2, <3>3, <3>4
  <2>2. CASE Prot
    <3>1. misled' = misled
      BY Zenon, <2>2 DEF Prot
    <3>2. late' = TRUE \/ late' = late
      BY Zenon, <2>2 DEF Prot
    <3>3. CASE late' = TRUE
      BY Zenon, <3>1, <3>3
    <3>4. CASE late' = late
      BY Zenon, <3>1, <3>4
    <3> QED BY Zenon, <3>2, <3>3, <3>4
  <2>3. CASE Accept
    <3>1. misled' = misled
      BY Zenon, <2>3 DEF Accept
    <3>2. late' = TRUE \/ late' = late
      BY Zenon, <2>3 DEF Accept
    <3>3. CASE late' = TRUE
      BY Zenon, <3>1, <3>3
    <3>4. CASE late' = late
      BY Zenon, <3>1, <3>4
    <3> QED BY Zenon, <3>2, <3>3, <3>4
  <2> QED BY Zenon, <1>4, <2>1, <2>2, <2>3
<1>5. CASE Syst
  BY Zenon, <1>1, <1>5 DEF Syst
<1>6. CASE Size \/ Retr \/ List
  BY Zenon, <1>1, <1>6 DEF Size, Retr, List, Trusting
<1> QED BY Zenon, <1>2, <1>3, <1>4, <1>5, <1>6, AnswersKept DEF Next, Getftp, Stopped

\* RETR or LIST goes on to the transfer.
LEMMA TransferBegins ==
    ASSUME AnswersInv, Retr \/ List, pc' \in DataStages
    PROVE  misled' \/ ~late'
<1>1. late \in BOOLEAN /\ misled \in BOOLEAN /\ UNCHANGED late
  BY Zenon DEF AnswersInv, Retr, List
<1>2. "judge" \notin DataStages
  BY DEF DataStages
<1>3. ASSUME NEW how, NEW e, End(how, e) PROVE FALSE
  BY <1>2, <1>3 DEF End
<1>4. Trusting
  BY Zenon, <1>3 DEF Retr, List
<1> QED BY Zenon, <1>1, <1>4 DEF Trusting

LEMMA AnswersStep ==
    ASSUME AnswersInv, [Next]_vars
    PROVE  AnswersInv'
<1>1. late \in BOOLEAN /\ misled \in BOOLEAN
  BY Zenon DEF AnswersInv
<1>2. late' \in BOOLEAN /\ misled' \in BOOLEAN
  <2>1. CASE UNCHANGED <<late, misled>>
    BY Zenon, <1>1, <2>1
  <2>2. CASE Connect \/ Auth \/ Prot \/ Accept
    BY Zenon, <1>1, <2>2 DEF Connect, Auth, Prot, Accept
  <2>3. CASE Syst
    BY Zenon, <1>1, <2>3 DEF Syst
  <2>4. CASE Size \/ Retr \/ List
    BY Zenon, <1>1, <2>4 DEF Size, Retr, List, Trusting
  <2> QED BY Zenon, <2>1, <2>2, <2>3, <2>4, AnswersKept DEF Next, Getftp, Stopped
<1>3. ASSUME NEW how, NEW e, End(how, e) PROVE pc' \notin DataStages
  BY <1>3 DEF End, DataStages
<1>4. ASSUME pc' \in DataStages PROVE misled' \/ ~late'
  <2>1. CASE Open \/ DataHandshake
    <3>1. pc \in DataStages
      BY <2>1 DEF Open, DataHandshake, DataStages
    <3> QED BY Zenon, <2>1, <3>1, AnswersKept DEF AnswersInv
  <2>2. CASE Body
    <3>1. pc \in DataStages
      BY <2>2, BodyEnds DEF DataStages
    <3> QED BY Zenon, <2>2, <3>1, AnswersKept DEF AnswersInv
  <2>3. CASE Accept
    <3>1. pc \in DataStages
      BY <2>3 DEF Accept, DataStages
    <3>2. UNCHANGED <<late, misled>>
      BY Zenon, <1>3, <1>4, <2>3 DEF Accept
    <3> QED BY Zenon, <3>1, <3>2 DEF AnswersInv
  <2>4. CASE Retr \/ List
    BY Zenon, <1>4, <2>4, TransferBegins
  <2>5. CASE UNCHANGED vars
    <3>1. UNCHANGED <<pc, late, misled>>
      BY Zenon, <2>5 DEF vars
    <3> QED BY Zenon, <1>4, <3>1 DEF AnswersInv
  <2>6. CASE Connect \/ CommandFails \/ CannotWrite \/ Answered \/ Auth \/ Handshake \/ Prot
    BY <1>3, <1>4, <2>6
    DEF Connect, CommandFails, CannotWrite, Answered, Auth, Handshake, Prot, Go, After,
        DataStages
  <2>7. CASE Syst \/ Cwd \/ Size \/ Passive \/ Port \/ Rest \/ Completed \/ Aborted
    BY <1>3, <1>4, <2>7
    DEF Syst, Cwd, Size, Passive, Port, Rest, Completed, Aborted, Go, After, DataStages
  <2>8. CASE FtpLoop \/ Enter \/ Try \/ FatalError \/ Retry \/ Saved \/ Abort \/ Finish
    BY <1>4, <2>8
    DEF FtpLoop, Enter, Try, FatalError, Retry, Saved, Abort, Finish, GiveUp, Call, Go,
        DataStages
  <2>9. CASE ReturnOwn \/ ReturnListing \/ NextFile \/ ReturnFile \/ NextDir
    <3>1. pc' \in {"finish", "dirs", "files", "enter"}
      BY <2>9 DEF ReturnOwn, ReturnListing, NextFile, ReturnFile, NextDir, EndGlob, Call, Go
    <3> QED BY <1>4, <3>1 DEF DataStages
  <2> QED
    BY Zenon, <2>1, <2>2, <2>3, <2>4, <2>5, <2>6, <2>7, <2>8, <2>9
    DEF Next, Getftp, Stopped
<1> QED BY Zenon, <1>2, <1>4 DEF AnswersInv

LEMMA InitAnswers ==
    ASSUME Init
    PROVE  AnswersInv
<1>1. pc \notin DataStages
  BY DEF Init, DataStages
<1> QED BY Zenon, <1>1 DEF Init, AnswersInv

\* A connection whose answers come in time was one before, if it was open.
LEMMA TimelyBefore ==
    ASSUME AnswersInv, [Next]_vars, pc # "connect", Timely'
    PROVE  Live => Timely
BY Zenon, AnswersStay DEF Timely

\* What was not done for a late answer before was not done for one earlier.
LEMMA TrustedBefore ==
    ASSUME AnswersInv, [Next]_vars, Trusted'
    PROVE  Trusted
BY Zenon, AnswersStay DEF Trusted

\* The bytes of a transfer come over a connection whose answers are in time.
LEMMA TimelyTransfer ==
    ASSUME AnswersInv, Trusted, Live, pc \in DataStages
    PROVE  Timely
BY Zenon DEF AnswersInv, Trusted, Timely

\* So do the answers that getftp goes by.
LEMMA TimelyTrusting ==
    ASSUME AnswersInv, Trusted', Trusting, Live
    PROVE  Timely
<1>1. late \in BOOLEAN /\ misled \in BOOLEAN /\ ~misled'
  BY Zenon DEF AnswersInv, Trusted
<1>2. CASE late = TRUE
  BY Zenon, <1>1, <1>2 DEF Trusting
<1>3. CASE late = FALSE
  BY Zenon, <1>3 DEF Timely
<1> QED BY Zenon, <1>1, <1>2, <1>3

\* SIZE ends the retrieval when the server tells the size of what is there.
LEMMA SizeAnswer ==
    ASSUME AnswersInv, Trusted', Size, pc' # "data", Alive => Live
    PROVE  /\ Timely /\ Alive /\ End("all", "RETRFINISHED")
           /\ "RETR" \in con.cmd /\ loop.restval > 0
           /\ Remote \in DOMAIN site.size /\ loop.restval = site.size[Remote]
<1> DEFINE absent == Skipped("size") \/ Refuses("SIZE") \/ Remote \notin DOMAIN site.size
           size == IF absent THEN 0 ELSE site.size[Remote]
           resumed == "RETR" \in con.cmd /\ loop.restval > 0
<1>1. /\ resumed /\ (loop.restval = size \/ (late /\ ~Skipped("size")))
      /\ End("all", "RETRFINISHED") /\ Trusting /\ (Skipped("size") \/ Alive)
  BY Zenon DEF Size, Go
<1>2. ~Skipped("size")
  <2>1. CASE late /\ ~Skipped("size")
    BY Zenon, <2>1
  <2>2. CASE loop.restval = size
    <3>1. resumed
      BY Zenon, <1>1
    <3> QED BY <2>2, <3>1
  <2> QED BY Zenon, <1>1, <2>1, <2>2
<1>3. Alive /\ Timely
  BY Zenon, <1>1, <1>2, TimelyTrusting
<1>4. loop.restval = size /\ resumed /\ End("all", "RETRFINISHED")
  BY Zenon, <1>1, <1>3 DEF Timely
<1>5. ~absent
  BY <1>4
<1> QED BY <1>3, <1>4, <1>5

\* RETR goes on for a file that is there.
LEMMA RetrAnswer ==
    ASSUME AnswersInv, Trusted', Retr, ~End("data", "FTPNSFOD"), Alive => Live
    PROVE  /\ Timely /\ pc' = transferred /\ Remote \in DOMAIN site.size
<1>1. /\ Alive /\ Trusting /\ pc' = transferred
      /\ Remote \in DOMAIN site.size \/ late
  BY Zenon DEF Retr, Go
<1>2. Timely
  BY Zenon, <1>1, TimelyTrusting
<1> QED BY Zenon, <1>1, <1>2 DEF Timely

\* The end of a transfer is reported when it has come.
LEMMA CompletedAnswer ==
    ASSUME Completed, Timely
    PROVE  get.whole \/ get.res = -1
BY Zenon DEF Completed, Timely

-----------------------------------------------------------------------------
(***************************************************************************)
(* The directories.                                                        *)
(***************************************************************************)
\* The stages in the directory of the call.
Arrived == {"size", "data", "response"} \cup TransferStages

\* A try ends; a connection that is still open is where it was.
LEMMA JudgeDirectory ==
    ASSUME pc' \in {"judge", "aborted"}, loop'.dir = loop.dir,
           Timely' => Here' = loop.dir
    PROVE  DirectoryInv'
BY DEF DirectoryInv, LoginStages, TransferStages

\* getftp closes control and data sockets, or only the latter.
LEMMA EndDirectory ==
    ASSUME SocketsInv, TypesInv, pc \in Walk, NEW how \in {"all", "data", "dangling", "none"},
           NEW e, End(how, e), loop'.dir = loop.dir,
           how \in {"all", "dangling"} \/ (Timely' /\ Live => Here = loop.dir)
    PROVE  DirectoryInv'
<1>1. get.csock = con.csock /\ con \in Cons /\ 0 \notin DOMAIN conns
  BY MaxFaultsAssumption DEF SocketsInv, TypesInv, Descriptors
<1>2. how \in {"all", "dangling"} => ~Live'
  BY <1>1 DEF End, Closed, Live, Cons
<1>3. how \notin {"all", "dangling"} /\ Live' => Live /\ Here' = Here
  BY <1>1 DEF End, Live, Here
<1>4. pc' = "judge" /\ err' = e
  BY DEF End
<1>5. Timely' => Live'
  BY Zenon DEF Timely
<1> QED BY <1>2, <1>3, <1>4, <1>5, JudgeDirectory

LEMMA GetftpDirectory ==
    ASSUME SocketsInv, LeakBound, TypesInv, CommandsInv, AnswersInv, DirectoryInv, Getftp
    PROVE  DirectoryInv'
<1>0. /\ Timely => Live
      /\ Timely' => Live'
      /\ pc # "connect" /\ Timely' /\ Live => Timely
  <2>1. Timely => Live
    BY Zenon DEF Timely
  <2>2. Timely' => Live'
    BY Zenon DEF Timely
  <2>3. pc # "connect" /\ Timely' /\ Live => Timely
    BY TimelyBefore DEF Next
  <2> QED BY <2>1, <2>2, <2>3
<1>1. /\ pc \in Walk /\ loop'.dir = loop.dir /\ con'.cmd = con.cmd
      /\ UNCHANGED <<opt, site, frames>>
  BY GetftpKeeps
<1>2. /\ con \in Cons /\ get \in Gets /\ 0 \notin DOMAIN conns
      /\ get.csock = con.csock /\ (pc = "connect" => con.csock = 0)
      /\ conns \in [DOMAIN conns -> Sockets]
  BY <1>1, MaxFaultsAssumption DEF TypesInv, SocketsInv, Descriptors
<1>3. ASSUME NEW how \in {"all", "dangling"}, NEW e, End(how, e)
      PROVE  DirectoryInv'
  BY <1>1, <1>3, EndDirectory
<1>4. ASSUME NEW how \in {"all", "data", "dangling", "none"}, NEW e, End(how, e),
             pc \in Arrived \/ ~Live
      PROVE  DirectoryInv'
  <2>1. pc \in Arrived => pc # "connect"
    BY DEF Arrived, TransferStages
  <2>2. pc \in Arrived /\ Timely => Here = loop.dir
    BY DEF DirectoryInv, Arrived
  <2> QED BY <1>0, <1>1, <1>4, <2>1, <2>2, EndDirectory
<1>5. ASSUME pc \in LoginStages, pc' \in LoginStages \cup {"cwd"}, con'.csock = con.csock,
             Here' = Here
      PROVE  DirectoryInv'
  BY <1>1, <1>5 DEF DirectoryInv, LoginStages, TransferStages
<1>6. ASSUME pc' \in Arrived, Timely' => Here' = loop.dir
      PROVE  DirectoryInv'
  BY <1>1, <1>6 DEF DirectoryInv, LoginStages, TransferStages, Arrived
<1>7. ASSUME pc \in Arrived, pc' \in Arrived, con'.csock = con.csock,
             Live' => Live /\ Here' = Here
      PROVE  DirectoryInv'
  <2>1. pc # "connect" /\ (Timely => Here = loop.dir)
    BY <1>7 DEF DirectoryInv, Arrived, TransferStages
  <2> QED BY <1>0, <1>6, <1>7, <2>1
<1>8. CASE Connect
  <2>1. pc = "connect" /\ ~Live
    BY <1>2, <1>8 DEF Connect, Live
  <2>2. CASE /\ con' = [con EXCEPT !.csock = FreeDescriptor]
             /\ conns' = Opened(FreeDescriptor, "control") /\ Go(After("connect"))
    <3>1. pc' \in {"tls", "greeting"} /\ con'.csock = FreeDescriptor
      BY <1>2, <2>2 DEF Go, After, Cons
    <3>2. Here' = Empty
      BY <2>2, <3>1 DEF Here, Opened
    <3>3. "CWD" \in con'.cmd
      BY <1>1, <2>1 DEF DirectoryInv
    <3> QED BY <3>1, <3>2, <3>3 DEF DirectoryInv, LoginStages, TransferStages
  <2>3. CASE \E e \in {"HOSTERR", "CONERROR", "CONIMPOSSIBLE"} : End("none", e)
    BY <1>4, <2>1, <2>3
  <2> QED BY <1>8, <2>2, <2>3 DEF Connect
<1>9. CASE CommandFails
  BY <1>3, <1>9 DEF CommandFails
<1>10. CASE CannotWrite
  <2>1. CASE End("all", "WRITEFAILED")
    BY <1>3, <2>1
  <2>2. CASE End("none", "FTPSYSERR") /\ ~Alive
    BY <1>2, <1>4, <2>2 DEF Alive, Live
  <2>3. CASE pc' = "aborted"
    BY <2>3 DEF DirectoryInv, LoginStages, TransferStages
  <2> QED BY <1>10, <2>1, <2>2, <2>3 DEF CannotWrite, Go
<1>11. CASE Answered
  <2>1. pc' = After(pc) /\ UNCHANGED <<con, conns, get>>
    BY <1>11 DEF Answered, Go, commandAnswered, commandOnly
  <2>2. con'.csock = con.csock /\ Here' = Here
    BY <2>1 DEF Here
  <2>3. CASE pc \in {"greeting", "login", "pwd", "type"}
    <3>1. pc' \in LoginStages \cup {"cwd"} /\ pc \in LoginStages
      BY <2>1, <2>3 DEF After, LoginStages
    <3> QED BY <1>5, <2>2, <3>1
  <2>4. CASE pc = "cwd" /\ Skipped("cwd")
    <3>1. pc' = "size" /\ ("CWD" \notin con.cmd \/ loop.dir = Empty)
      BY <2>1, <2>4 DEF After, Skipped
    <3>2. Live' => Live
      BY <2>1 DEF Live
    <3>3. Timely => Here = loop.dir
      BY <2>4, <3>1 DEF DirectoryInv
    <3>4. Timely' => Here' = loop.dir
      BY <1>0, <2>2, <2>4, <3>2, <3>3
    <3> QED BY <1>6, <3>1, <3>4 DEF Arrived
  <2> QED BY <1>11, <2>3, <2>4 DEF Answered
<1>12. CASE Auth \/ Handshake
  <2>1. pc \in LoginStages
    BY <1>12 DEF Auth, Handshake, LoginStages
  <2>2. CASE \E e : End("dangling", e)
    BY <1>3, <2>2
  <2>3. CASE pc' \in LoginStages /\ UNCHANGED <<con, conns>>
    BY <1>5, <2>1, <2>3 DEF Here
  <2>4. Auth => ((\E e : End("dangling", e)) \/ (pc' \in LoginStages /\ UNCHANGED <<con, conns>>))
    BY DEF Auth, Go, LoginStages
  <2>5. Handshake =>
          ((\E e : End("dangling", e)) \/ (pc' \in LoginStages /\ UNCHANGED <<con, conns>>))
    BY DEF Handshake, Go, After, LoginStages
  <2> QED BY <1>12, <2>2, <2>3, <2>4, <2>5
<1>13. CASE Prot
  <2>1. pc = "prot" /\ pc \in LoginStages /\ Live
    BY <1>13 DEF Prot, LoginStages, SocketsInv
  <2>2. CASE End("none", "FTPNOPROT") /\ late' = TRUE
    <3>1. ~Timely'
      BY Zenon, <2>2 DEF Timely
    <3> QED BY <1>1, <2>2, <3>1, EndDirectory
  <2>3. CASE /\ pc' = "syst" /\ con'.csock = con.csock
             /\ \/ UNCHANGED conns
                \/ conns' = [conns EXCEPT ![get.csock].prot = ~opt.prot_clear]
    <3>1. conns[con.csock] \in Sockets
      BY <1>2, <2>1 DEF Live
    <3>2. Here' = Here
      BY <1>2, <2>1, <2>3, <3>1 DEF Here, Live, Sockets
    <3> QED BY <1>5, <2>1, <2>3, <3>2 DEF LoginStages
  <2>4. [con EXCEPT !.st = @ \cup {"DATA_SECURITY"}].csock = con.csock
    BY <1>2 DEF Cons
  <2> QED BY <1>13, <2>2, <2>3, <2>4 DEF Prot, Go, After
<1>14. CASE Syst
  <2>1. pc = "syst" /\ pc' = "pwd" /\ UNCHANGED conns
    BY <1>14 DEF Syst, Go, After, commandAnswered
  <2>2. con'.csock = con.csock
    BY <1>2, <1>14 DEF Syst, Cons
  <2> QED BY <1>5, <2>1, <2>2 DEF LoginStages, Here
<1>15. CASE Cwd
  <2>1. CASE End("all", "FTPNSFOD")
    BY <1>3, <2>1
  <2>2. CASE ~(loop.dir \in Directories) /\ late /\ pc' = "size"
    <3>1. ~Timely'
      BY Zenon, <1>15, <2>2 DEF Cwd, answersAsBefore, Timely
    <3> QED BY <1>6, <2>2, <3>1 DEF Arrived
  <2>3. CASE /\ pc' = "size" /\ con' = con
             /\ conns' = [conns EXCEPT ![get.csock].dir = loop.dir]
    <3>1. con.csock \in DOMAIN conns
      BY <1>2, <1>15 DEF Cwd, Alive
    <3>2. conns[con.csock] \in Sockets
      BY <1>2, <3>1
    <3>3. Here' = loop.dir
      BY <1>2, <2>3, <3>1, <3>2 DEF Here, Sockets
    <3> QED BY <1>6, <2>3, <3>3 DEF Arrived
  <2>4. CASE /\ loop.dir \in Directories \/ late
             /\ conns' = IF loop.dir \in Directories
                         THEN [conns EXCEPT ![get.csock].dir = loop.dir] ELSE conns
             /\ Go(After("cwd")) /\ UNCHANGED <<con, err>>
    <3>1. pc' = "size" /\ con' = con
      BY <2>4 DEF Go, After
    <3> QED BY Zenon, <2>2, <2>3, <2>4, <3>1
  <2> QED BY Zenon, <1>15, <2>1, <2>4 DEF Cwd, Directories
<1>16. ASSUME pc \in Arrived, pc' \in Arrived, Live, con'.csock = con.csock,
              NEW k, k \notin DOMAIN conns, NEW kind, conns' = Opened(k, kind)
       PROVE  DirectoryInv'
  <2>1. Here' = Here
    BY <1>16 DEF Here, Opened, Live
  <2> QED BY <1>7, <1>16, <2>1
<1>17. CASE Passive \/ Port
  <2>1. pc = "data" /\ pc \in Arrived /\ Live
    BY <1>2, <1>17 DEF Passive, Port, Alive, Live, Arrived
  <2>2. After("data") \in Arrived /\ FreeDescriptor \notin DOMAIN conns
    BY <2>1, FreeIsFree DEF After, Arrived, TransferStages
  <2>3. CASE Passive
    BY <1>4, <1>16, <2>1, <2>2, <2>3 DEF Passive, Go
  <2>4. CASE Port
    BY <1>4, <1>16, <2>1, <2>2, <2>4 DEF Port, Go
  <2> QED BY <1>17, <2>3, <2>4
<1>18. CASE Size \/ Rest \/ Retr \/ List
  <2>1. pc \in Arrived
    BY <1>18 DEF Size, Rest, Retr, List, Arrived, TransferStages
  <2>2. CASE \E how \in {"all", "data"}, e \in Errs : End(how, e)
    BY <1>4, <2>1, <2>2
  <2>3. CASE pc' \in Arrived /\ UNCHANGED <<con, conns>>
    BY <1>7, <2>1, <2>3 DEF Here, Live
  <2> QED
    BY <1>18, <2>2, <2>3
    DEF Size, Rest, Retr, List, Go, After, transferred, Arrived, TransferStages, Errs, Fatal
<1>19. CASE Accept
  <2>1. pc = "accept" /\ pc \in Arrived /\ Live /\ FreeDescriptor \notin DOMAIN conns
    BY <1>19, FreeIsFree DEF Accept, Arrived, TransferStages, SocketsInv
  <2>2. CASE End("none", "CONERROR")
    BY <1>4, <2>1, <2>2
  <2>3. CASE conns' = Opened(FreeDescriptor, "data") /\ pc' = "open" /\ con' = con
    BY <1>16, <2>1, <2>3 DEF Arrived, TransferStages
  <2> QED BY <1>19, <2>2, <2>3 DEF Accept, Go
<1>20. CASE Open \/ DataHandshake
  <2>1. pc \in Arrived
    BY <1>20 DEF Open, DataHandshake, Arrived, TransferStages
  <2>2. CASE \E how \in {"all", "dangling"}, e \in Errs : End(how, e)
    BY <1>4, <2>1, <2>2
  <2>3. CASE pc' \in Arrived /\ UNCHANGED <<con, conns>>
    BY <1>7, <2>1, <2>3 DEF Here, Live
  <2> QED
    BY <1>20, <2>2, <2>3
    DEF Open, DataHandshake, Go, Arrived, TransferStages, Errs, Fatal, Transient
<1>21. CASE Body
  <2>1. pc = "body" /\ pc \in Arrived
    BY <1>21, BodyEnds DEF Arrived, TransferStages
  <2>2. CASE End("all", "FWRITEERR")
    BY <1>3, <2>2
  <2>3. CASE /\ conns' = [k \in DOMAIN conns \ Closed("data") |-> conns[k]]
             /\ pc' = "response" /\ con' = con
    <3>1. Live' => Live /\ Here' = Here
      BY <2>3 DEF Live, Here
    <3> QED BY <1>7, <2>1, <2>3, <3>1 DEF Arrived
  <2> QED BY Zenon, <1>21, <2>2, <2>3, BodyEnds
<1>22. CASE Completed \/ Aborted
  <2>1. pc = "response" /\ pc \in Arrived
    BY <1>22 DEF Completed, Aborted, Arrived
  <2>2. CASE \E how \in {"all", "none"}, e \in Errs : End(how, e)
    BY <1>4, <2>1, <2>2
  <2>3. CASE pc' \in {"data", "judge"} /\ UNCHANGED conns /\ con'.csock = con.csock
    <3>1. Live' => Live /\ Here' = Here
      BY <2>3 DEF Live, Here
    <3>2. Timely => Here = loop.dir
      BY <2>1 DEF DirectoryInv
    <3>3. Timely' => Here' = loop.dir
      BY <1>0, <2>1, <3>1, <3>2
    <3> QED BY <1>1, <1>7, <2>1, <2>3, <3>1, <3>3, JudgeDirectory DEF Arrived
  <2>4. [con EXCEPT !.st = Negotiate(con.st).st].csock = con.csock
    BY <1>2 DEF Cons
  <2>5. CASE Completed
    BY <2>2, <2>3, <2>4, <2>5 DEF Completed, Go, Errs
  <2>6. CASE Aborted
    BY <2>2, <2>6 DEF Aborted, Errs
  <2> QED BY <1>22, <2>5, <2>6
<1> QED
  BY <1>8, <1>9, <1>10, <1>11, <1>12, <1>13, <1>14, <1>15, <1>17, <1>18, <1>19, <1>20, <1>21,
     <1>22
  DEF Getftp

\* The directories around getftp: DONE_CWD is set where the connection is kept.
LEMMA AroundDirectory ==
    ASSUME SocketsInv, TypesInv, CommandsInv, AnswersInv, DirectoryInv,
           Enter \/ Try \/ FatalError \/ Retry \/ Saved \/ Abort
    PROVE  DirectoryInv'
<1>1. con \in Cons /\ loop \in Loops /\ 0 \notin DOMAIN conns
  BY MaxFaultsAssumption DEF TypesInv, SocketsInv, Descriptors
<1>2. /\ pc \in {"enter", "try", "judge"} /\ pc \in Calling /\ UNCHANGED <<opt, site>>
      /\ pc' \in {"try", "returned", "connect", "cwd", "aborted"}
  BY DEF Enter, Try, FatalError, Retry, Saved, Abort, judging, GiveUp, Go, Calling
<1>3. /\ loop'.caller = loop.caller /\ loop'.dir = loop.dir
      /\ OnYourOwn <=> loop.caller = "own"
  BY <1>1, <1>2
  DEF Enter, Try, FatalError, Retry, Saved, Abort, judging, Loops, CommandsInv
<1>0. (Timely' <=> Timely) \/ ~(Live' <=> Live)
  <2>1. UNCHANGED late
    BY AnswersKept
  <2> QED BY Zenon, <2>1 DEF Timely
<1>4. CASE Enter
  <2>1. pc = "enter" /\ pc' \in {"returned", "try"} /\ conns' = conns
    BY <1>4 DEF Enter, Go
  <2>2. pc' = "returned" => "LIST" \notin con.cmd
    BY <1>4 DEF Enter, Go
  <2>3. pc' = "returned" => loop.caller # "listing"
    BY <1>2, <2>2 DEF CommandsInv
  <2>4. con'.csock = con.csock
        /\ (OnYourOwn => "ON_YOUR_OWN" \in con'.st) /\ (~OnYourOwn => con'.st = con.st)
    BY <1>1, <1>4 DEF Enter, OnYourOwn, Cons
  <2>5. (Live' <=> Live) /\ Here' = Here
    BY <2>1, <2>4 DEF Live, Here
  <2> QED
    BY <1>0, <1>3, <2>1, <2>3, <2>4, <2>5
    DEF DirectoryInv, OnYourOwn, LoginStages, TransferStages
<1>5. CASE Try
  <2>1. /\ pc = "try" /\ conns' = conns
        /\ pc' = IF "LOGIN" \in TryCommands THEN "connect" ELSE "cwd"
    BY <1>5 DEF Try, Go
  <2>2. con'.csock = con.csock /\ con'.cmd = TryCommands
    BY <1>1, <1>5 DEF Try, Cons
  <2>3. (Live' <=> Live) /\ Here' = Here
    BY <2>1, <2>2 DEF Live, Here
  <2>4. "LOGIN" \in TryCommands <=> con.csock = 0
    BY DEF TryCommands
  <2>5. CASE con.csock = 0
    <3>1. "CWD" \in TryCommands
      BY <2>1, <2>5 DEF TryCommands, DirectoryInv, OnYourOwn
    <3> QED BY <2>1, <2>2, <2>4, <2>5, <3>1 DEF DirectoryInv, LoginStages, TransferStages
  <2>6. CASE con.csock # 0
    <3>1. pc' = "cwd"
      BY <2>1, <2>4, <2>6
    <3>2. "CWD" \notin TryCommands => OnYourOwn \/ "DONE_CWD" \in con.st
      BY <2>6 DEF TryCommands, OnYourOwn
    <3>3. "CWD" \notin TryCommands => loop.caller # "listing" \/ "DONE_CWD" \in con.st
      BY <1>3, <3>2
    <3>4. Timely' => /\ "CWD" \notin TryCommands => Here = loop.dir
                     /\ loop.dir = Empty => Here = Empty
      BY <1>0, <2>1, <2>3, <3>3 DEF DirectoryInv
    <3> QED
      BY <1>3, <2>2, <2>3, <3>1, <3>4 DEF DirectoryInv, LoginStages, TransferStages
  <2> QED BY <2>5, <2>6
<1>6. ASSUME pc = "judge", pc' \in {"try", "returned"}, UNCHANGED conns, con' = WithDoneCwd(con)
      PROVE  DirectoryInv'
  <2>1. con'.csock = con.csock /\ (con.csock = 0 => "DONE_CWD" \notin con'.st)
    BY <1>1, <1>6 DEF WithDoneCwd, Cons
  <2>2. (Live' <=> Live) /\ Here' = Here
    BY <1>6, <2>1 DEF Live, Here
  <2>3. Timely => Here = loop.dir
    BY <1>6 DEF DirectoryInv
  <2>4. Timely' => Here' = loop'.dir
    BY <1>0, <1>3, <2>2, <2>3
  <2> QED
    BY <1>6, <2>1, <2>4 DEF DirectoryInv, LoginStages, TransferStages
<1>7. ASSUME pc = "judge", pc' = "returned", OnYourOwn, con' = [con EXCEPT !.csock = 0],
             conns' = WithoutControl
      PROVE  DirectoryInv'
  <2>1. con'.csock = 0 /\ con'.st = con.st /\ 0 \notin DOMAIN conns'
    BY <1>1, <1>7 DEF Cons, WithoutControl
  <2>2. ~Timely'
    BY Zenon, <2>1 DEF Timely, Live
  <2> QED
    BY <1>7, <2>1, <2>2 DEF DirectoryInv, OnYourOwn, LoginStages, TransferStages
<1>8. CASE FatalError
  BY <1>6, <1>8 DEF FatalError, GiveUp, Go
<1>9. CASE Retry
  <2>1. pc = "judge"
    BY <1>9 DEF Retry
  <2> QED BY <1>6, <1>7, <1>9, <2>1 DEF Retry, GiveUp, Go
<1>10. CASE Saved
  BY <1>6, <1>7, <1>10 DEF Saved, Go
<1>11. CASE Abort
  BY <1>11 DEF Abort, Go, DirectoryInv, LoginStages, TransferStages
<1> QED BY <1>4, <1>5, <1>8, <1>9, <1>10, <1>11

LEMMA InitDirectory ==
    ASSUME Init
    PROVE  DirectoryInv
BY DEF Init, DirectoryInv, LoginStages, TransferStages

LEMMA DirectoryStep ==
    ASSUME SocketsInv, LeakBound, TypesInv, CommandsInv, AnswersInv, DirectoryInv,
           [Next]_vars
    PROVE  DirectoryInv'
<1>0. ASSUME UNCHANGED <<late, misled>>, Live' <=> Live PROVE Timely' <=> Timely
  BY Zenon, <1>0 DEF Timely
<1>1. con \in Cons
  BY DEF TypesInv
<1>2. CASE FtpLoop
  <2>1. ~Live' => ~Timely'
    BY Zenon DEF Timely
  <2> QED BY <1>2, <2>1, FtpLoopFacts DEF DirectoryInv, LoginStages, TransferStages
<1>3. CASE ReturnOwn \/ ReturnListing \/ ReturnFile
  <2>1. /\ pc = "returned" /\ pc \in Calling /\ UNCHANGED <<opt, site, conns>>
        /\ pc' \in {"finish", "dirs", "files", "enter"} /\ con'.csock = con.csock
    BY <1>3, ReturnFacts DEF Calling
  <2>2. (Live' <=> Live) /\ Here' = Here
    BY <2>1 DEF Live, Here
  <2>0. Timely' <=> Timely
    BY <1>3, <1>0, <2>2, AnswersKept
  <2>3. CASE pc' = "files"
    <3>1. /\ frames # <<>> /\ con'.st = con.st /\ frames'[Len(frames')].dir = Top.dir
          /\ \/ loop.caller = "file"
             \/ loop.caller = "listing" /\ err = "RETROK"
      BY <1>3, <2>3, ReturnFacts
    <3>2. loop.dir = Top.dir
      BY <2>1, <3>1 DEF CommandsInv
    <3>3. Timely' => Here' = Top'.dir
      BY <2>0, <2>1, <2>2, <3>1, <3>2 DEF DirectoryInv, Top
    <3>4. con'.csock = 0 /\ ~OnYourOwn' => "DONE_CWD" \notin con'.st
      BY <2>1, <3>1 DEF DirectoryInv, OnYourOwn
    <3> QED BY <2>3, <3>3, <3>4 DEF DirectoryInv, LoginStages, TransferStages
  <2>4. CASE pc' = "enter"
    <3>1. /\ frames # <<>> /\ loop.caller = "listing" /\ err = "RETROK"
          /\ OnYourOwn' /\ loop'.dir = Top.dir
      BY <1>3, <2>4, ReturnFacts DEF OnYourOwn
    <3>2. loop.dir = Top.dir
      BY <2>1, <3>1 DEF CommandsInv
    <3>3. Timely' => Here' = loop'.dir
      BY <2>0, <2>1, <2>2, <3>1, <3>2 DEF DirectoryInv
    <3> QED BY <2>4, <3>1, <3>3 DEF DirectoryInv, LoginStages, TransferStages
  <2> QED BY <2>1, <2>3, <2>4 DEF DirectoryInv, LoginStages, TransferStages
<1>4. CASE NextFile \/ NextDir
  <2>1. /\ pc \in {"files", "dirs"} /\ UNCHANGED conns /\ con'.csock = con.csock
        /\ pc' \in {"finish", "dirs", "files", "enter"} /\ frames # <<>>
    BY <1>4, NextFacts
  <2>2. (Live' <=> Live) /\ Here' = Here
    BY <2>1 DEF Live, Here
  <2>0. Timely' <=> Timely
    BY <1>4, <1>0, <2>2, AnswersKept
  <2>3. CASE pc' = "files"
    <3>1. pc = "files" /\ con'.st = con.st /\ frames'[Len(frames')].dir = Top.dir
      BY <1>4, <2>3, NextFacts
    <3>2. Timely' => Here' = Top'.dir
      BY <2>0, <2>2, <3>1 DEF DirectoryInv, Top
    <3>3. con'.csock = 0 /\ ~OnYourOwn' => "DONE_CWD" \notin con'.st
      BY <2>1, <3>1 DEF DirectoryInv, OnYourOwn
    <3> QED BY <2>3, <3>2, <3>3 DEF DirectoryInv, LoginStages, TransferStages
  <2>4. CASE /\ pc' = "enter" /\ loop'.caller = "listing" /\ loop'.dir # Empty
             /\ "DONE_CWD" \notin con'.st
    BY <2>4 DEF DirectoryInv, LoginStages, TransferStages
  <2>5. CASE /\ pc' = "enter" /\ pc = "files" /\ con' = con /\ loop'.dir = Top.dir
    <3>1. Timely' => Here' = loop'.dir
      BY <2>0, <2>2, <2>5 DEF DirectoryInv
    <3>2. con'.csock = 0 /\ ~OnYourOwn' => "DONE_CWD" \notin con'.st
      BY <2>5 DEF DirectoryInv, OnYourOwn
    <3> QED BY <2>5, <3>1, <3>2 DEF DirectoryInv, LoginStages, TransferStages
  <2>6. CASE pc' \in {"finish", "dirs"}
    BY <2>6 DEF DirectoryInv, LoginStages, TransferStages
  <2> QED BY <1>4, <2>1, <2>3, <2>4, <2>5, <2>6, NextFacts
<1>5. CASE Finish
  BY <1>5 DEF Finish, Go, DirectoryInv, LoginStages, TransferStages
<1>6. CASE UNCHANGED vars
  <2>1. Live' <=> Live
    BY <1>6 DEF vars, locals, Live
  <2>2. Timely' <=> Timely
    BY <1>0, <1>6, <2>1, AnswersKept
  <2> QED BY <1>6, <2>2 DEF vars, locals, DirectoryInv, Here, OnYourOwn, Top
<1> QED
  BY <1>2, <1>3, <1>4, <1>5, <1>6, GetftpDirectory, AroundDirectory DEF Next, Stopped

-----------------------------------------------------------------------------
(***************************************************************************)
(* The data.                                                               *)
(***************************************************************************)
SameFiles == UNCHANGED <<opt, site, frames, disk, listing, loop>>

\* A try ends without another byte.
LEMMA JudgeData ==
    ASSUME DataInv, pc \in Walk, SameFiles, pc' \in {"judge", "aborted"}, err' # "RETROK",
           loop.caller = "listing" /\ err' = "RETRFINISHED" => listing.dir = loop.dir,
           loop.caller # "listing" /\ err' = "RETRFINISHED" => IsSaved,
           loop.caller # "listing" /\ err' = "FTPRETRINT" => Known /\ Intact(loop.qtyread)
    PROVE  DataInv'
<1>1. pc \in Calling /\ pc' \notin Walk
  BY DEF Calling, Walk, LoginStages, TransferStages
<1>2. /\ (loop.qtyread > 0)' <=> loop.qtyread > 0
      /\ Intact(loop.qtyread)' <=> Intact(loop.qtyread)
      /\ Known' <=> Known
      /\ IsSaved' <=> IsSaved
  BY DEF SameFiles, Intact, Known, IsSaved, Target, Exists
<1>3. \A e, d : LineOf(e, d)' <=> LineOf(e, d)
  BY DEF SameFiles, LineOf, Directories
<1> QED BY <1>1, <1>2, <1>3 DEF DataInv, SameFiles

\* getftp goes on without another byte.
LEMMA GoOnData ==
    ASSUME DataInv, pc \in Walk, SameFiles, pc' \in Walk \ {"response"},
           pc = "response" => loop.caller = "listing",
           loop.caller # "listing" /\ pc' \in {"accept", "open", "datatls", "body"} => Known,
           loop.caller # "listing" /\ pc' \in {"datatls", "body"} => Intact(loop.qtyread)
    PROVE  DataInv'
<1>1. pc \in Calling /\ pc' \notin {"judge", "returned"}
  BY DEF Calling, Walk, LoginStages, TransferStages
<1>2. /\ (loop.qtyread > 0)' <=> loop.qtyread > 0
      /\ Intact(loop.qtyread)' <=> Intact(loop.qtyread)
      /\ Known' <=> Known
  BY DEF SameFiles, Intact, Known, Target, Exists
<1>3. \A e, d : LineOf(e, d)' <=> LineOf(e, d)
  BY DEF SameFiles, LineOf, Directories
<1> QED BY <1>1, <1>2, <1>3 DEF DataInv, SameFiles

\* The commands of getftp, which touch no file.
LEMMA CommandData ==
    ASSUME SocketsInv, TypesInv, CommandsInv, AnswersInv, DirectoryInv, DataInv,
           Trusted, Trusted', Getftp, ~Open, ~Body
    PROVE  DataInv'
<1>1. /\ pc \in Walk /\ SameFiles
      /\ pc' \in (Walk \ {"connect"}) \cup {"judge", "aborted"}
  <2>1. pc # "body" \/ loop' = loop
    BY DEF Getftp, Connect, CommandFails, CannotWrite, Answered, Auth, Handshake, Prot,
           Syst, Cwd, Size, Passive, Port, Rest, Retr, List, Accept, DataHandshake,
           Completed, Aborted, commandAnswered, commandOnly, unchangedInGetftp
  <2>2. UNCHANGED <<disk, listing>>
    BY DEF Getftp, Connect, CommandFails, CannotWrite, Answered, Auth, Handshake, Prot,
           Syst, Cwd, Size, Passive, Port, Rest, Retr, List, Accept, DataHandshake,
           Completed, Aborted, commandAnswered, commandOnly, unchangedFiles
  <2> QED BY <2>1, <2>2, GetftpKeeps DEF SameFiles
<1>2. /\ get.csock = con.csock /\ con \in Cons /\ get \in Gets /\ loop \in Loops
      /\ (Alive => Live) /\ ("LIST" \in con.cmd <=> loop.caller = "listing")
      /\ (loop.caller = "listing" => "RETR" \notin con.cmd)
  BY <1>1 DEF SocketsInv, TypesInv, Alive, Live, CommandsInv, Calling
<1>3. Timely /\ pc \in Arrived => Remote = Target /\ Here = loop.dir
  BY <1>2 DEF DirectoryInv, Arrived, Remote, Target, Here
<1>4. ASSUME NEW how, NEW e, End(how, e), e \notin {"RETRFINISHED", "FTPRETRINT", "RETROK"}
      PROVE  DataInv'
  BY <1>1, <1>4, JudgeData DEF End
<1>5. ASSUME pc \notin {"response"},
             pc' \in Walk \ {"accept", "open", "datatls", "body", "response"}
      PROVE  DataInv'
  BY <1>1, <1>5, GoOnData
<1>6. CASE Connect \/ Auth \/ Handshake \/ Prot
  <2>1. pc \in {"connect", "auth", "tls", "prot"}
    BY <1>6 DEF Connect, Auth, Handshake, Prot
  <2>2. CASE Connect \/ Auth
    BY <1>4, <1>5, <2>1, <2>2 DEF Connect, Auth, Go, After, Walk, LoginStages
  <2>3. CASE Handshake \/ Prot
    BY <1>4, <1>5, <2>1, <2>3 DEF Handshake, Prot, Go, After, Walk, LoginStages
  <2> QED BY <1>6, <2>2, <2>3
<1>7. CASE CommandFails
  <2>1. PICK e \in Errors(pc) : End("all", e)
    BY <1>7 DEF CommandFails
  <2>2. e \notin {"RETRFINISHED", "FTPRETRINT", "RETROK"}
    BY <1>7 DEF CommandFails, ControlStages, Errors
  <2> QED BY <1>4, <2>1, <2>2
<1>8. CASE CannotWrite
  <2>1. CASE \E how, e : End(how, e) /\ e \in {"WRITEFAILED", "FTPSYSERR"}
    BY <1>4, <2>1
  <2>2. CASE pc' = "aborted" /\ err' = "WRITEFAILED"
    BY <1>1, <2>2, JudgeData
  <2> QED BY <1>8, <2>1, <2>2 DEF CannotWrite, Go
<1>9. CASE Answered
  <2>1. pc \in {"greeting", "login", "pwd", "type", "cwd"} /\ pc' = After(pc)
    BY <1>9 DEF Answered, Go
  <2> QED BY <1>5, <2>1 DEF After, Walk, LoginStages, TransferStages
<1>10. CASE Syst \/ Cwd
  <2>1. pc \in {"syst", "cwd"}
    BY <1>10 DEF Syst, Cwd
  <2>2. pc' = After(pc) \/ End("all", "FTPNSFOD")
    BY Zenon, <1>10 DEF Syst, Cwd, Go, After
  <2> QED BY <1>4, <1>5, <2>1, <2>2 DEF After, Walk, LoginStages
<1>11. CASE Passive \/ Port
  <2>1. pc = "data" /\ After("data") \in {"rest", "transfer"}
    BY <1>11 DEF Passive, Port, After
  <2>2. CASE Passive
    BY <1>4, <1>5, <2>1, <2>2 DEF Passive, Go, Walk, TransferStages
  <2>3. CASE Port
    BY <1>4, <1>5, <2>1, <2>3 DEF Port, Go, Walk, TransferStages
  <2> QED BY <1>11, <2>2, <2>3
<1>12. CASE Rest
  BY <1>5, <1>12 DEF Rest, Go, After, Walk, TransferStages
<1>13. CASE Retr
  <2>1. pc = "transfer" /\ pc \in Arrived
    BY <1>13 DEF Retr, Arrived, TransferStages
  <2>2. CASE ~End("data", "FTPNSFOD")
    <3>1. Timely /\ pc' = transferred /\ Remote \in DOMAIN site.size
      BY <1>2, <1>13, <2>2, RetrAnswer
    <3>2. pc' \in {"accept", "open"}
      BY <3>1 DEF transferred
    <3> QED BY <1>1, <1>3, <2>1, <3>1, <3>2, GoOnData DEF Known, Walk, TransferStages
  <2>3. CASE End("data", "FTPNSFOD")
    BY <1>4, <2>3
  <2> QED BY <2>2, <2>3
<1>14. CASE List
  <2>1. pc = "transfer" /\ loop.caller = "listing"
    BY <1>2, <1>14 DEF List
  <2>2. pc' = transferred \/ End("data", "FTPNSFOD")
    BY Zenon, <1>14 DEF List, Go
  <2>3. CASE pc' \in {"accept", "open"}
    BY <1>1, <2>1, <2>3, GoOnData DEF Walk, TransferStages
  <2>4. CASE End("data", "FTPNSFOD")
    BY <1>4, <2>4
  <2> QED BY <2>3, <2>4, <2>2 DEF transferred
<1>15. CASE Accept
  <2>1. pc = "accept"
    BY <1>15 DEF Accept
  <2>2. CASE pc' = "open"
    <3>1. loop.caller # "listing" => Known
      BY <1>1, <2>1 DEF DataInv
    <3> QED BY <1>1, <2>1, <2>2, <3>1, GoOnData DEF Walk, TransferStages
  <2>3. CASE End("none", "CONERROR")
    BY <1>4, <2>3
  <2> QED BY Zenon, <1>15, <2>2, <2>3 DEF Accept, Go
<1>16. CASE DataHandshake
  <2>1. pc = "datatls"
    BY <1>16 DEF DataHandshake
  <2>2. CASE pc' = "body"
    <3>1. loop.caller # "listing" => Known /\ Intact(loop.qtyread)
      BY <1>1, <2>1 DEF DataInv
    <3> QED BY <1>1, <2>1, <2>2, <3>1, GoOnData DEF Walk, TransferStages
  <2>3. CASE End("dangling", "CONERROR")
    BY <1>4, <2>3
  <2> QED BY <1>16, <2>2, <2>3 DEF DataHandshake, Go
<1>17. CASE Size
  <2>1. pc = "size"
    BY <1>17 DEF Size
  <2>2. CASE pc' = "data"
    BY <1>5, <2>1, <2>2 DEF Walk
  <2>3. CASE pc' # "data"
    <3>1. /\ Timely /\ Alive /\ End("all", "RETRFINISHED")
          /\ "RETR" \in con.cmd /\ loop.restval > 0
          /\ Remote \in DOMAIN site.size /\ loop.restval = site.size[Remote]
      BY <1>2, <1>17, <2>3, SizeAnswer
    <3>2. Remote = Target
      BY <1>3, <2>1, <3>1 DEF Arrived
    <3>3. loop.caller # "listing" /\ loop.restval = loop.qtyread
      BY <1>1, <1>2, <2>1, <3>1 DEF DataInv
    <3>4. Known /\ loop.qtyread = site.size[Target] /\ Intact(loop.qtyread)
      BY <1>1, <3>1, <3>2, <3>3 DEF Known, DataInv
    <3>5. IsSaved
      BY <3>4 DEF IsSaved
    <3> QED BY <1>1, <3>1, <3>3, <3>5, JudgeData DEF End
  <2> QED BY <2>2, <2>3
<1>18. CASE Completed \/ Aborted
  <2>1. pc = "response" /\ Alive /\ pc \in Arrived /\ pc \in DataStages
    <3>1. pc = "response" /\ Alive
      BY Zenon, <1>18 DEF Completed, Aborted
    <3> QED BY <3>1 DEF Arrived, DataStages
  <2>2. Timely
    BY <1>2, <2>1, TimelyTransfer
  <2>3. loop.caller # "listing" =>
           /\ Known /\ Intact(loop.qtyread)
           /\ get.whole => loop.qtyread = site.size[Target]
    BY <1>1, <2>1 DEF DataInv
  <2>4. loop.caller = "listing" => listing.dir = loop.dir
    BY <1>2, <1>3, <2>1, <2>2 DEF TypesInv
  <2>5. loop.caller # "listing" /\ get.whole => IsSaved
    BY <2>3 DEF IsSaved
  <2>6. CASE Aborted
    <3>1. pc' = "judge" /\ err' \in {"FTPRETRINT", "FTPRESTFAIL"}
      BY Zenon, <2>6 DEF Aborted, End
    <3> QED BY <1>1, <2>3, <3>1, JudgeData
  <2>7. CASE Completed
    <3>1. CASE get.res = -1
      <4>1. pc' = "judge" /\ err' = "FTPRETRINT"
        BY <2>7, <3>1 DEF Completed, End
      <4> QED BY <1>1, <2>3, <4>1, JudgeData
    <3>2. CASE get.res # -1 /\ pc' = "judge"
      <4>1. err' = "RETRFINISHED"
        BY <2>7, <3>2 DEF Completed, End, Go
      <4>2. get.whole
        BY Zenon, <2>7, <2>2, <3>2, CompletedAnswer
      <4> QED BY <1>1, <2>4, <2>5, <3>2, <4>1, <4>2, JudgeData
    <3>3. CASE get.res # -1 /\ pc' # "judge"
      <4>1. pc' = "data" /\ loop.caller = "listing"
        BY <1>2, <2>7, <3>3 DEF Completed, End, Go
      <4> QED BY <1>1, <2>1, <4>1, GoOnData DEF Walk
    <3> QED BY <3>1, <3>2, <3>3
  <2> QED BY <1>18, <2>6, <2>7
<1> QED
  BY <1>6, <1>7, <1>8, <1>9, <1>10, <1>11, <1>12, <1>13, <1>14, <1>15, <1>16, <1>17, <1>18
  DEF Getftp

\* The transfer goes on with other bytes on disk: those of a listing, or of the file.
LEMMA TransferData ==
    ASSUME DataInv, pc \in {"open", "body"}, pc' \in {"datatls", "body", "response"},
           UNCHANGED <<opt, site, frames>>, loop' = [loop EXCEPT !.qtyread = loop'.qtyread],
           loop \in Loops, loop'.qtyread \in Nat,
           pc' # "response" => loop' = loop,
           opt.always_rest => \A f \in DOMAIN disk' :
                disk'[f].good /\ (f \in DOMAIN site.size => disk'[f].len <= site.size[f]),
           loop.caller # "listing" =>
                /\ Known /\ Intact(loop.qtyread)'
                /\ pc' = "response" /\ get'.whole => loop'.qtyread = site.size[Target]
    PROVE  DataInv'
<1>1. pc \in Walk /\ pc \in Calling /\ pc' \notin {"judge", "returned"} /\ pc' \in Walk
  BY DEF Calling, Walk, LoginStages, TransferStages
<1>2. /\ loop'.caller = loop.caller /\ loop'.dir = loop.dir /\ loop'.name = loop.name
      /\ loop'.f = loop.f /\ loop'.restval = loop.restval
  BY DEF Loops
<1>3. (Known' <=> Known) /\ Target' = Target
  BY <1>2 DEF Known, Target
<1>4. \A e, d : LineOf(e, d)' <=> LineOf(e, d)
  BY DEF LineOf, Directories
<1>5. pc' # "response" /\ loop.caller # "listing" => loop'.restval = loop'.qtyread
  BY <1>1, <1>2 DEF DataInv
<1> QED BY <1>1, <1>2, <1>3, <1>4, <1>5 DEF DataInv

\* The file is opened to append what is missing, or is empty.
LEMMA OpenData ==
    ASSUME SocketsInv, TypesInv, CommandsInv, DataInv, Open
    PROVE  DataInv'
<1>1. /\ pc = "open" /\ pc \in Walk /\ UNCHANGED <<opt, site, frames, loop>>
      /\ loop \in Loops /\ disk \in [DOMAIN disk -> Files] /\ site \in Sites
      /\ "LIST" \in con.cmd <=> loop.caller = "listing"
  BY DEF Open, unchangedInGetftp, Walk, TransferStages, TypesInv, SocketsInv, CommandsInv, Calling
<1>2. CASE unchangedFiles /\ \E e \in {"FOPENERR", "UNLINKERR"} : End("all", e)
  <2>1. SameFiles /\ pc' = "judge" /\ err' \in {"FOPENERR", "UNLINKERR"}
    BY <1>1, <1>2 DEF SameFiles, unchangedFiles, End
  <2> QED BY <1>1, <2>1, JudgeData
<1>3. CASE /\ disk' = IF "LIST" \in con.cmd \/ (Appending /\ Exists(Target)) THEN disk
                      ELSE Put(Target, [len |-> 0, good |-> TRUE, fresh |-> TRUE])
           /\ pc' \in {"datatls", "body"}
  <2>1. loop' = [loop EXCEPT !.qtyread = loop'.qtyread] /\ loop'.qtyread \in Nat
        /\ loop.qtyread \in Nat
    BY <1>1 DEF Loops
  <2>2. loop.caller # "listing" => Known /\ loop.restval = loop.qtyread
    BY <1>1 DEF DataInv
  <2>3. CASE disk' = disk /\ ("LIST" \in con.cmd \/ (Appending /\ Exists(Target)))
    <3>1. loop.caller # "listing" => loop.qtyread > 0
      BY <1>1, <2>2, <2>3 DEF Appending
    <3>2. loop.caller # "listing" => Intact(loop.qtyread)
      BY <1>1, <3>1 DEF DataInv
    <3>3. Intact(loop.qtyread)' <=> Intact(loop.qtyread)
      BY <1>1, <2>3 DEF Intact, Known, Target, Exists
    <3>4. opt.always_rest => \A f \in DOMAIN disk' :
                disk'[f].good /\ (f \in DOMAIN site.size => disk'[f].len <= site.size[f])
      BY <2>3 DEF DataInv
    <3> QED BY <1>1, <1>3, <2>1, <2>2, <3>2, <3>3, <3>4, TransferData
  <2>4. CASE /\ disk' = Put(Target, [len |-> 0, good |-> TRUE, fresh |-> TRUE])
             /\ "LIST" \notin con.cmd /\ ~(Appending /\ Exists(Target))
    <3>1. loop.qtyread > 0 => Intact(loop.qtyread)
      BY <1>1, <2>4 DEF DataInv
    <3>2. loop.qtyread = 0
      BY <1>1, <2>1, <2>2, <2>4, <3>1 DEF Appending, Intact
    <3>3. /\ DOMAIN disk' = DOMAIN disk \cup {Target}
          /\ disk'[Target] = [len |-> 0, good |-> TRUE, fresh |-> TRUE]
          /\ \A f \in DOMAIN disk : f # Target => disk'[f] = disk[f]
      BY <2>4 DEF Put
    <3>4. \A f \in DOMAIN site.size : 0 <= site.size[f]
      BY <1>1, SitesAssumption
    <3>5. Intact(loop.qtyread)'
      <4>1. Target' = Target /\ Target \in DOMAIN disk' /\ disk'[Target].len = 0
            /\ disk'[Target].good
        BY <1>1, <3>3 DEF Target
      <4> QED BY <1>1, <3>2, <3>4, <4>1 DEF Intact, Known, Exists
    <3>6. opt.always_rest => \A f \in DOMAIN disk' :
                disk'[f].good /\ (f \in DOMAIN site.size => disk'[f].len <= site.size[f])
      BY <3>3, <3>4 DEF DataInv
    <3> QED BY <1>1, <1>3, <2>1, <2>2, <3>5, <3>6, TransferData
  <2> QED BY <1>3, <2>3, <2>4
<1> QED BY <1>2, <1>3 DEF Open, Go

\* Bytes that come in time after the right ones are the right ones.
LEMMA WrittenGood ==
    ASSUME Timely, NEW n, Written(n), "LIST" \notin con.cmd,
           disk[Target].good, conns[get.csock].dir = loop.dir, disk[Target].len = loop.restval
    PROVE  disk' = [disk EXCEPT ![Target] = [len |-> disk[Target].len + n, fresh |-> TRUE,
                                             good |-> TRUE]]
<1> DEFINE good == /\ disk[Target].good /\ ~late /\ conns[get.csock].dir = loop.dir
                   /\ n > 0 => disk[Target].len = loop.restval
<1>1. good
  BY Zenon DEF Timely
<1>2. disk' = [disk EXCEPT ![Target] = [len |-> disk[Target].len + n, fresh |-> TRUE,
                                        good |-> good]]
  BY Zenon DEF Written
<1> HIDE DEF good
<1>3. good = TRUE
  BY Zenon, <1>1
<1> QED BY <1>2, <1>3

\* The bytes that are written after those on disk are the ones that follow there.
LEMMA WrittenData ==
    ASSUME SocketsInv, TypesInv, CommandsInv, AnswersInv, DirectoryInv, DataInv, Trusted,
           pc = "body", NEW n \in Nat, Written(n),
           loop.caller # "listing" => loop.qtyread + n <= site.size[Target]
    PROVE  /\ opt.always_rest => \A f \in DOMAIN disk' :
                disk'[f].good /\ (f \in DOMAIN site.size => disk'[f].len <= site.size[f])
           /\ loop.caller # "listing" =>
                 /\ disk'[Target].len = loop.qtyread + n /\ disk'[Target].good
                 /\ Target \in DOMAIN disk'
<1>1. /\ pc \in Walk /\ pc \in Calling /\ get.csock = con.csock /\ Live /\ pc \in DataStages
      /\ "LIST" \in con.cmd <=> loop.caller = "listing"
      /\ loop \in Loops /\ disk \in [DOMAIN disk -> Files]
  BY DEF Walk, TransferStages, SocketsInv, TypesInv, CommandsInv, Calling, DataStages
<1>2. Timely /\ Here = loop.dir
  BY <1>1, TimelyTransfer DEF DirectoryInv, TransferStages
<1>3. CASE "LIST" \in con.cmd
  <2>1. disk' = disk
    BY <1>3 DEF Written
  <2> QED BY <1>1, <1>3, <2>1 DEF DataInv
<1>4. CASE "LIST" \notin con.cmd
  <2>1. Intact(loop.qtyread) /\ loop.restval = loop.qtyread /\ Known
    BY <1>1, <1>4 DEF DataInv
  <2>2. /\ Target \in DOMAIN disk /\ disk[Target].len = loop.restval /\ disk[Target].good = TRUE
        /\ disk[Target].len \in Nat
    BY <1>1, <2>1 DEF Intact, Exists, Files
  <2>3. disk[Target].good /\ conns[get.csock].dir = loop.dir /\ disk[Target].len = loop.restval
    BY <1>1, <1>2, <2>2 DEF Here
  <2>4. disk' = [disk EXCEPT ![Target] = [len |-> disk[Target].len + n, fresh |-> TRUE,
                                          good |-> TRUE]]
    BY <1>4, <1>2, <2>3, WrittenGood
  <2>5. /\ DOMAIN disk' = DOMAIN disk /\ disk'[Target].len = loop.qtyread + n
        /\ disk'[Target].good /\ \A f \in DOMAIN disk : f # Target => disk'[f] = disk[f]
    BY <2>1, <2>2, <2>4
  <2>6. opt.always_rest => \A f \in DOMAIN disk' :
                disk'[f].good /\ (f \in DOMAIN site.size => disk'[f].len <= site.size[f])
    <3> SUFFICES ASSUME opt.always_rest, NEW f \in DOMAIN disk
                 PROVE  disk'[f].good /\ (f \in DOMAIN site.size => disk'[f].len <= site.size[f])
      BY <2>5
    <3>1. CASE f = Target
      BY <1>1, <1>4, <2>5, <3>1
    <3>2. CASE f # Target
      BY <2>5, <3>2 DEF DataInv
    <3> QED BY <3>1, <3>2
  <2> QED BY <2>2, <2>5, <2>6
<1> QED BY <1>3, <1>4

LEMMA BodyData ==
    ASSUME SocketsInv, TypesInv, CommandsInv, AnswersInv, DirectoryInv, DataInv, Trusted, Body
    PROVE  DataInv'
<1>1. /\ pc = "body" /\ pc \in Walk /\ pc \in Calling /\ UNCHANGED <<opt, site, frames>>
      /\ get.csock = con.csock /\ Live /\ Here = loop.dir /\ Remote = Target
      /\ "LIST" \in con.cmd <=> loop.caller = "listing"
      /\ loop \in Loops /\ get \in Gets /\ loop.qtyread \in Nat
  <2>1. pc = "body"
    BY BodyEnds
  <2>2. UNCHANGED <<opt, site, frames>>
    BY Zenon DEF Body
  <2>3. pc \in Walk /\ pc \in Calling /\ pc \in DataStages
    BY <2>1 DEF Walk, TransferStages, Calling, DataStages
  <2>4. Live
    BY <2>1 DEF SocketsInv, TransferStages
  <2>5. Timely
    BY <2>3, <2>4, TimelyTransfer
  <2> QED
    BY <2>1, <2>2, <2>3, <2>4, <2>5
    DEF SocketsInv, TypesInv, CommandsInv, DirectoryInv, Loops, Remote, Target, Here,
        TransferStages
<1>2. loop.caller # "listing" =>
         /\ Known /\ Intact(loop.qtyread) /\ loop.restval = loop.qtyread
         /\ site.size[Target] \in Nat /\ loop.qtyread <= site.size[Target]
         /\ RemoteSize = site.size[Target]
  <2>1. loop.caller # "listing" =>
           Known /\ Intact(loop.qtyread) /\ loop.restval = loop.qtyread
    BY <1>1 DEF DataInv
  <2>2. loop.caller # "listing" => RemoteSize = site.size[Target] /\ RemoteSize \in Nat
    BY <1>1, <2>1, BodyNumbers DEF Known
  <2> QED BY <2>1, <2>2 DEF Intact
<1>3. CASE Written(0) /\ End("all", "FWRITEERR") /\ UNCHANGED get
  <2>1. pc' = "judge" /\ err' = "FWRITEERR"
    BY <1>3 DEF End
  <2>2. loop' = loop
    <3>1. loop' = [loop EXCEPT !.qtyread = loop.qtyread + 0]
      BY <1>3 DEF Written
    <3>2. loop.qtyread + 0 = loop.qtyread
      BY <1>1
    <3> QED BY <1>1, <3>1, <3>2 DEF Loops
  <2>3. loop.caller # "listing" => loop.qtyread + 0 <= site.size[Target]
    BY <1>1, <1>2
  <2>4. /\ opt.always_rest => \A f \in DOMAIN disk' :
                disk'[f].good /\ (f \in DOMAIN site.size => disk'[f].len <= site.size[f])
        /\ loop.caller # "listing" =>
              /\ disk'[Target].len = loop.qtyread + 0 /\ disk'[Target].good
              /\ Target \in DOMAIN disk'
    BY <1>1, <1>3, <2>3, WrittenData
  <2>5. Target' = Target
    BY <2>2 DEF Target
  <2>6. loop.caller # "listing" => Intact(loop.qtyread)'
    BY <1>1, <1>2, <2>2, <2>4, <2>5 DEF Intact, Exists, Known
  <2>7. \A e, d : LineOf(e, d)' <=> LineOf(e, d)
    BY <1>1 DEF LineOf, Directories
  <2>8. pc' \notin Walk
    BY <2>1 DEF Walk, LoginStages, TransferStages
  <2> QED BY <1>1, <2>1, <2>2, <2>4, <2>6, <2>7, <2>8 DEF DataInv
<1>4. ASSUME NEW to \in First .. Last, NEW res \in {0, -1}, Written(Skip(to)),
             get' = [get EXCEPT !.res = res, !.whole = (to = Last /\ Agreed),
                                !.rd_size = Skip(to)],
             conns' = [k \in DOMAIN conns \ Closed("data") |-> conns[k]],
             pc' = "response", UNCHANGED <<con, err>>
      PROVE  DataInv'
  <2>1. /\ Skip(to) \in Nat /\ to \in Nat
        /\ Skip(to) = IF to > loop.restval THEN to - loop.restval ELSE 0
        /\ First \in {0, loop.restval}
    BY <1>1, BodyNumbers
  <2>2. loop.caller # "listing" => Last = site.size[Target] /\ to <= site.size[Target]
    BY <1>1, <1>2, <2>1 DEF Last
  <2>3. loop.caller # "listing" =>
          /\ loop.qtyread + Skip(to) <= site.size[Target]
          /\ to = Last => loop.qtyread + Skip(to) = site.size[Target]
    BY <1>1, <1>2, <2>1, <2>2
  <2>4. /\ loop' = [loop EXCEPT !.qtyread = loop'.qtyread]
        /\ loop'.qtyread = loop.qtyread + Skip(to) /\ loop'.qtyread \in Nat
    BY <1>1, <1>4, <2>1, WrittenTypes
  <2>5. /\ opt.always_rest => \A f \in DOMAIN disk' :
                disk'[f].good /\ (f \in DOMAIN site.size => disk'[f].len <= site.size[f])
        /\ loop.caller # "listing" =>
              /\ disk'[Target].len = loop.qtyread + Skip(to) /\ disk'[Target].good
              /\ Target \in DOMAIN disk'
    BY <1>1, <1>4, <2>1, <2>3, WrittenData
  <2>6. Target' = Target
    BY <1>1, <2>4 DEF Target, Loops
  <2>7. loop.caller # "listing" => Intact(loop.qtyread)'
    BY <1>1, <2>3, <2>4, <2>5, <2>6 DEF Intact, Exists, Known
  <2>8. get'.whole => to = Last
    <3>1. get'.whole = (to = Last /\ Agreed)
      BY <1>1, <1>4 DEF Gets
    <3> QED BY <3>1
  <2> QED
    BY <1>1, <1>2, <1>4, <2>3, <2>4, <2>5, <2>7, <2>8, TransferData
<1> QED BY ZenonT(60), <1>3, <1>4 DEF Body, Go

\* The line of a file gives its size.
LEMMA LineSize ==
    ASSUME site \in Sites, NEW e, NEW d, LineOf(e, d), e.type = "file",
           <<d, e.name>> \in DOMAIN site.size
    PROVE  e.size = site.size[<<d, e.name>>]
<1>1. PICK c \in {"LIST_a", "LIST"} :
         \E i \in DOMAIN site.list[c][d] : site.list[c][d][i] = e
  BY Zenon DEF LineOf
<1>2. d \in DOMAIN site.list[c]
  BY SitesAssumption DEF LineOf, Directories
<1>3. \A i \in DOMAIN site.list[c][d] :
         LET f == site.list[c][d][i] IN
         f.type = "file" /\ <<d, f.name>> \in DOMAIN site.size => f.size = site.size[<<d, f.name>>]
  BY <1>2, SitesAssumption
<1> QED BY <1>1, <1>3

\* No byte is written around getftp, and no line is read.
LEMMA AroundData ==
    ASSUME SocketsInv, TypesInv, CommandsInv, DataInv,
           Enter \/ Try \/ FatalError \/ Retry \/ Saved \/ Abort
    PROVE  DataInv'
<1>1. /\ con \in Cons /\ loop \in Loops /\ disk \in [DOMAIN disk -> Files] /\ err \in Errs
      /\ site \in Sites
  BY DEF TypesInv, SocketsInv
<1>2. /\ pc \in {"enter", "try", "judge"} /\ pc \in Calling
      /\ UNCHANGED <<opt, site, frames, disk, listing>>
      /\ pc' \in {"try", "returned", "connect", "cwd", "aborted"}
      /\ ~Try => loop' = loop /\ pc' \notin {"connect", "cwd"}
  BY DEF Enter, Try, FatalError, Retry, Saved, Abort, judging, GiveUp, Go, Calling
<1>3. /\ loop'.caller = loop.caller /\ loop'.dir = loop.dir /\ loop'.name = loop.name
      /\ loop'.f = loop.f
  BY <1>1 DEF Enter, Try, FatalError, Retry, Saved, Abort, judging, Loops
<1>4. /\ Target' = Target /\ (Known' <=> Known)
      /\ IsSaved' <=> IsSaved
      /\ \A e, d : LineOf(e, d)' <=> LineOf(e, d)
  BY <1>2, <1>3 DEF Target, Known, Intact, Exists, IsSaved, LineOf, Directories
<1>5. ("LIST" \in con.cmd <=> loop.caller = "listing") /\ (loop.f # NoEntry => loop.caller = "file")
  BY <1>2 DEF CommandsInv
<1>6. ASSUME loop' = loop, pc' \in {"try", "returned", "aborted"},
             pc' = "try" /\ loop.caller # "listing" /\ loop.qtyread > 0 => Intact(loop.qtyread),
             pc' = "returned" /\ loop.caller = "listing" /\ err' \in {"RETRFINISHED", "RETROK"} =>
                listing.dir = loop.dir,
             pc' = "returned" /\ loop.caller # "listing" /\ loop.count > 0 /\ err' = "RETROK" =>
                IsSaved
      PROVE  DataInv'
  <2>1. Intact(loop.qtyread)' <=> Intact(loop.qtyread)
    BY <1>2, <1>6 DEF Intact, Known, Target, Exists
  <2>2. pc' \notin Walk /\ pc' # "judge"
    BY <1>6 DEF Walk, LoginStages, TransferStages
  <2> QED BY <1>2, <1>4, <1>6, <2>1, <2>2 DEF DataInv
<1>7. CASE Enter
  <2>1. pc = "enter" /\ pc' \in {"returned", "try"} /\ loop' = loop
    BY <1>7 DEF Enter, Go
  <2>2. loop.count = 0 /\ loop.qtyread = 0
    BY <2>1 DEF CommandsInv
  <2>3. pc' = "returned" => "LIST" \notin con.cmd
    BY <1>7 DEF Enter, Go
  <2> QED BY <1>5, <1>6, <2>1, <2>2, <2>3
<1>8. CASE Try
  <2> DEFINE start == Restart(TryCommands)
  <2>1. pc = "try" /\ pc' \in {"connect", "cwd"}
    BY <1>8 DEF Try, Go
  <2>2. loop' = [loop EXCEPT !.count = loop.count + 1, !.restval = start, !.qtyread = start]
    BY <1>8 DEF Try
  <2>3. loop'.restval = start /\ loop'.qtyread = start
    <3> HIDE DEF start
    <3> QED BY <1>1, <2>2 DEF Loops
  <2>4. loop.caller # "listing" /\ start > 0 => Intact(start)
    <3>1. CASE start = 0
      BY <3>1
    <3>2. CASE opt.always_rest /\ Exists(Target) /\ start = disk[Target].len
      BY <3>2 DEF DataInv, Intact, Known, Exists
    <3>3. CASE start = loop.qtyread
      BY <2>1, <3>3 DEF DataInv
    <3> QED BY <3>1, <3>2, <3>3 DEF Restart
  <2>5. loop.caller # "listing" /\ start > 0 => Intact(loop.qtyread)'
    <3> HIDE DEF start
    <3> QED BY <1>2, <1>4, <2>3, <2>4 DEF Intact, Exists, Known
  <2>6. pc' \in Walk /\ pc' \notin {"accept", "open", "datatls", "body", "response", "judge",
                                   "returned"}
    BY <2>1 DEF Walk
  <2> HIDE DEF start
  <2> QED BY <1>2, <1>3, <1>4, <2>3, <2>5, <2>6 DEF DataInv
<1>9. CASE FatalError
  <2>1. pc' = "returned" /\ err' \in Fatal /\ loop' = loop
    BY <1>9 DEF FatalError, GiveUp, Go, judging
  <2> QED BY <1>6, <2>1 DEF Fatal
<1>10. CASE Retry
  <2>1. pc = "judge" /\ loop' = loop /\ (pc' = "try" \/ (pc' = "returned" /\ err' = "TRYLIMEXC"))
    BY <1>10 DEF Retry, GiveUp, Go, judging
  <2>2. loop.caller # "listing" /\ loop.qtyread > 0 => Intact(loop.qtyread)
    BY <2>1 DEF DataInv
  <2> QED BY <1>6, <2>1, <2>2
<1>11. CASE Saved
  <2>1. pc = "judge" /\ pc' = "returned" /\ err' = "RETROK" /\ loop' = loop /\ Complete
    BY <1>11 DEF Saved, Go, judging
  <2>2. CASE err = "RETRFINISHED"
    BY <1>6, <2>1, <2>2 DEF DataInv
  <2>3. CASE err = "FTPRETRINT" /\ loop.f # NoEntry /\ loop.qtyread = loop.f.size
    <3>1. loop.caller = "file" /\ Known /\ Intact(loop.qtyread)
      BY <1>5, <2>1, <2>3 DEF DataInv
    <3>2. loop.f.type = "file" /\ loop.f.name = loop.name /\ LineOf(loop.f, loop.dir)
      BY <1>2, <2>3 DEF DataInv
    <3>3. loop.f.size = site.size[Target]
      BY <1>1, <3>1, <3>2, LineSize DEF Known, Target
    <3>4. IsSaved
      BY <2>3, <3>1, <3>3 DEF IsSaved
    <3> QED BY <1>6, <2>1, <3>1, <3>4
  <2> QED BY <2>1, <2>2, <2>3 DEF Complete
<1>12. CASE Abort
  <2>1. pc' = "aborted" /\ loop' = loop
    BY <1>12 DEF Abort, Go, judging
  <2> QED BY <1>6, <2>1
<1> QED BY <1>7, <1>8, <1>9, <1>10, <1>11, <1>12

LEMMA InitData ==
    ASSUME Init
    PROVE  DataInv
BY DEF Init, DataInv, Calling, Walk, LoginStages, TransferStages

LEMMA DataStep ==
    ASSUME SocketsInv, LeakBound, TypesInv, CommandsInv, AnswersInv, DirectoryInv, DataInv,
           Trusted, Trusted', [Next]_vars
    PROVE  DataInv'
<1>1. ASSUME UNCHANGED <<opt, site>>, pc' \in {"enter", "finish", "done", "files", "dirs"},
             opt.always_rest => \A f \in DOMAIN disk' :
                disk'[f].good /\ (f \in DOMAIN site.size => disk'[f].len <= site.size[f]),
             \A i \in DOMAIN frames' : \A j \in DOMAIN frames'[i].list :
                LineOf(frames'[i].list[j], frames'[i].dir),
             pc' = "enter" /\ loop'.f # NoEntry =>
                loop'.f.type = "file" /\ loop'.f.name = loop'.name /\ LineOf(loop'.f, loop'.dir)
      PROVE  DataInv'
  <2>1. \A e, d : LineOf(e, d)' <=> LineOf(e, d)
    BY <1>1 DEF LineOf, Directories
  <2>2. pc' \notin Walk \cup {"try", "judge", "returned"}
    BY <1>1 DEF Walk, LoginStages, TransferStages
  <2> QED BY <1>1, <2>1, <2>2 DEF DataInv, Calling
<1>2. ASSUME UNCHANGED disk
      PROVE  opt.always_rest => \A f \in DOMAIN disk' :
                disk'[f].good /\ (f \in DOMAIN site.size => disk'[f].len <= site.size[f])
  BY <1>2 DEF DataInv
<1>3. ASSUME NEW reading \in BOOLEAN, FrameLists(reading),
             reading => frames # <<>> /\ listing.dir = Top.dir
      PROVE  \A i \in DOMAIN frames' : \A j \in DOMAIN frames'[i].list :
                LineOf(frames'[i].list[j], frames'[i].dir)
  <2> SUFFICES ASSUME NEW i \in DOMAIN frames', NEW j \in DOMAIN frames'[i].list
               PROVE  LineOf(frames'[i].list[j], frames'[i].dir)
    OBVIOUS
  <2>1. CASE frames'[i].list = <<>>
    BY <2>1
  <2>2. CASE i \in DOMAIN frames /\ frames'[i].dir = frames[i].dir
             /\ frames'[i].list = frames[i].list
    BY <2>2 DEF DataInv
  <2>3. CASE reading /\ i = Len(frames) /\ frames'[i].dir = frames[i].dir
             /\ frames'[i].list = ListingRead
    <3>1. frames'[i].dir = listing.dir
      BY <1>3, <2>3 DEF Top
    <3>2. /\ j \in DOMAIN site.list[listing.command][listing.dir]
          /\ ListingRead[j] = site.list[listing.command][listing.dir][j]
      BY <2>3, ReadType
    <3>3. listing.command \in {"LIST_a", "LIST"} /\ listing.dir \in Directories
      BY DEF TypesInv
    <3>4. LineOf(ListingRead[j], listing.dir)
      BY <3>2, <3>3 DEF LineOf
    <3> QED BY <2>3, <3>1, <3>4
  <2> QED BY <1>3, <2>1, <2>2, <2>3 DEF FrameLists
<1>4. CASE Getftp
  BY <1>4, CommandData, OpenData, BodyData
<1>5. CASE FtpLoop
  <2>1. \A i \in DOMAIN frames' : \A j \in DOMAIN frames'[i].list :
                LineOf(frames'[i].list[j], frames'[i].dir)
    <3>1. \A i \in DOMAIN frames' : frames'[i].list = <<>>
      BY <1>5, FtpLoopFacts
    <3> QED BY <3>1
  <2> QED BY <1>1, <1>2, <1>5, <2>1, FtpLoopFacts
<1>6. CASE ReturnOwn \/ ReturnListing \/ ReturnFile
  <2> DEFINE reading == loop.caller = "listing" /\ err = "RETROK"
  <2>1. /\ pc = "returned" /\ pc \in Calling /\ UNCHANGED <<opt, site>>
        /\ pc' \in {"finish", "dirs", "files", "enter"}
        /\ FrameLists(reading)
        /\ pc' = "enter" => loop'.f = NoEntry
    BY <1>6, ReturnFacts DEF Calling
  <2>2. reading => listing.dir = loop.dir
    BY <2>1 DEF DataInv
  <2>3. reading \in BOOLEAN
    OBVIOUS
  <2>4. \A i \in DOMAIN frames' : \A j \in DOMAIN frames'[i].list :
                LineOf(frames'[i].list[j], frames'[i].dir)
    <3>1. CASE frames # <<>>
      <4>1. loop.dir = Top.dir
        BY <2>1, <3>1 DEF CommandsInv
      <4> HIDE DEF reading
      <4> QED BY <1>3, <2>1, <2>2, <2>3, <3>1, <4>1
    <3>2. CASE frames = <<>>
      <4>1. FrameLists(FALSE)
        BY <2>1, <3>2 DEF FrameLists
      <4> QED BY <1>3, <4>1
    <3> QED BY <3>1, <3>2
  <2>5. opt.always_rest => \A f \in DOMAIN disk' :
                disk'[f].good /\ (f \in DOMAIN site.size => disk'[f].len <= site.size[f])
    <3>1. CASE ReturnOwn \/ ReturnListing
      BY <1>2, <3>1 DEF ReturnOwn, ReturnListing
    <3>2. CASE ReturnFile
      <4>1. disk \in [DOMAIN disk -> Files]
        BY DEF TypesInv
      <4>2. disk' = IF Exists(Target) THEN [disk EXCEPT ![Target].fresh = TRUE] ELSE disk
        BY <3>2 DEF ReturnFile
      <4>3. /\ DOMAIN disk' = DOMAIN disk
            /\ \A f \in DOMAIN disk : disk'[f].good = disk[f].good /\ disk'[f].len = disk[f].len
        BY <4>1, <4>2 DEF Files
      <4> QED BY <4>3 DEF DataInv
    <3> QED BY <1>6, <3>1, <3>2
  <2> HIDE DEF reading
  <2> QED BY <1>1, <2>1, <2>4, <2>5
<1>7. CASE NextFile \/ NextDir
  <2>1. /\ UNCHANGED <<opt, site, disk>> /\ frames # <<>>
        /\ pc' \in {"finish", "dirs", "files", "enter"} /\ FrameLists(FALSE)
    BY <1>7, NextFacts
  <2>2. pc' = "enter" /\ loop'.f # NoEntry =>
           loop'.f.type = "file" /\ loop'.f.name = loop'.name /\ LineOf(loop'.f, loop'.dir)
    <3> SUFFICES ASSUME pc' = "enter", loop'.f # NoEntry
                 PROVE  loop'.f.type = "file" /\ loop'.f.name = loop'.name
                        /\ LineOf(loop'.f, loop'.dir)
      OBVIOUS
    <3>1. /\ loop'.dir = Top.dir /\ loop'.f.type = "file" /\ loop'.name = loop'.f.name
          /\ \E i \in DOMAIN Top.list : loop'.f = Top.list[i]
      BY <1>7, NextFacts
    <3>2. Len(frames) \in DOMAIN frames
      <4>1. frames \in Seq(Frames)
        BY DEF TypesInv
      <4> QED BY <2>1, <4>1
    <3>3. \A i \in DOMAIN Top.list : LineOf(Top.list[i], Top.dir)
      BY <3>2 DEF DataInv, Top
    <3> QED BY <3>1, <3>3
  <2> QED BY <1>1, <1>2, <1>3, <2>1, <2>2
<1>8. CASE Finish
  <2>1. UNCHANGED <<opt, site, disk, frames>> /\ pc' = "done"
    BY <1>8 DEF Finish, Go
  <2>2. FrameLists(FALSE)
    BY <2>1 DEF FrameLists
  <2> QED BY <1>1, <1>2, <1>3, <2>1, <2>2
<1>9. CASE UNCHANGED vars
  BY <1>9 DEF vars, locals, DataInv, Intact, Known, IsSaved, Target, Exists, LineOf, Directories
<1> QED
  BY <1>4, <1>5, <1>6, <1>7, <1>8, <1>9, AroundData DEF Next, Stopped

-----------------------------------------------------------------------------
(***************************************************************************)
(* The calls: ftp_loop_internal reports what it gives up, and a listing    *)
(* that it reports as retrieved has all its lines.  A list is read once,   *)
(* before the walk, and what getftp has learned of the system stays.       *)
(***************************************************************************)
ListingWhole == listing.len = Len(site.list[listing.command][listing.dir])

CallsInv ==
    /\ con.rs # "l8" => con.rs = site.system
    /\ pc \in Calling /\ loop.caller = "listing" => loop.name = Empty
    /\ pc \in Calling /\ loop.caller # "file" /\ frames # <<>> =>
          Top.list = <<>> /\ Top.at = 0
    /\ pc \in {"finish", "done"} => frames = <<>>
    /\ pc = "response" /\ loop.caller = "listing" /\ get.whole => ListingWhole
    /\ pc = "judge" /\ loop.caller = "listing" /\ err = "RETRFINISHED" => ListingWhole
    /\ pc = "returned" =>
          /\ loop.caller = "listing" /\ err = "RETROK" => ListingWhole
          /\ err # "RETROK" => Target \in failed
          /\ ~opt.noclobber => loop.count > 0

\* Only SYST tells what the system is.
LEMMA SystemStep ==
    ASSUME SocketsInv, TypesInv, [Next]_vars
    PROVE  UNCHANGED <<opt, site>> /\ (Trusted' => con'.rs \in {con.rs, site.system})
<1>1. con \in Cons
  BY DEF TypesInv
<1>2. ASSUME NEW how, NEW e, End(how, e) PROVE con'.rs = con.rs
  <2>1. con' \in {con, [con EXCEPT !.csock = 0]}
    BY <1>2 DEF End
  <2> QED BY <1>1, <2>1 DEF Cons
<1>3. CASE Getftp
  <2>1. UNCHANGED <<opt, site>>
    BY <1>3, GetftpKeeps
  <2>2. CASE Completed
    <3>1. \/ \E how, e : End(how, e)
          \/ con' = [con EXCEPT !.st = Negotiate(con.st).st]
      BY <2>2 DEF Completed
    <3>2. con' = [con EXCEPT !.st = Negotiate(con.st).st] => con'.rs = con.rs
      BY <1>1 DEF Cons
    <3> QED BY <1>2, <2>1, <3>1, <3>2
  <2>3. CASE Syst
    <3> DEFINE answer == IF Refuses("SYST") THEN con.rs ELSE site.system
    <3>1. PICK rs, st : misled' = (misled \/ rs # answer)
                        /\ con' = [con EXCEPT !.rs = rs, !.st = st]
      BY Zenon, <2>3 DEF Syst
    <3>2. Trusted' => rs = answer
      BY Zenon, <3>1 DEF Trusted
    <3>3. con'.rs = rs
      BY <1>1, <3>1 DEF Cons
    <3> QED BY <2>1, <3>2, <3>3
  <2>4. CASE Connect \/ Prot
    <3>1. \/ con' = con
          \/ con' = [con EXCEPT !.csock = FreeDescriptor]
          \/ con' = [con EXCEPT !.st = con.st \cup {"DATA_SECURITY"}]
          \/ \E how, e : End(how, e)
      BY Zenon, <2>4 DEF Connect, Prot
    <3> QED BY <1>1, <1>2, <2>1, <3>1 DEF Cons
  <2>5. CASE CommandFails \/ CannotWrite \/ Answered \/ Auth \/ Handshake \/ Cwd \/ Size
    BY <1>2, <2>1, <2>5 DEF CommandFails, CannotWrite, Answered, Auth, Handshake, Cwd, Size
  <2>6. CASE Passive \/ Port \/ Rest \/ Retr \/ List \/ Accept
    BY <1>2, <2>1, <2>6 DEF Passive, Port, Rest, Retr, List, Accept
  <2>7. CASE Open \/ DataHandshake \/ Aborted
    BY <1>2, <2>1, <2>7 DEF Open, DataHandshake, Aborted
  <2>8. CASE Body
    <3>1. con' = con \/ \E how, e : End(how, e)
      BY Zenon, <2>8 DEF Body
    <3> QED BY <1>2, <2>1, <3>1
  <2> QED BY <1>3, <2>2, <2>3, <2>4, <2>5, <2>6, <2>7, <2>8 DEF Getftp
<1>4. CASE Enter \/ Try \/ FatalError \/ Retry \/ Saved \/ Abort
  BY <1>1, <1>4
  DEF Enter, Try, FatalError, Retry, Saved, Abort, judging, WithDoneCwd, Cons
<1>5. CASE FtpLoop \/ ReturnOwn \/ ReturnListing \/ ReturnFile
  BY <1>1, <1>5
  DEF FtpLoop, ReturnOwn, ReturnListing, ReturnFile, globbing, Listing, Cons
<1>6. CASE NextFile \/ NextDir \/ Finish
  BY <1>1, <1>6 DEF NextFile, NextDir, Finish, globbing, Listing, Cons
<1> QED
  BY <1>3, <1>4, <1>5, <1>6 DEF Next, Stopped, vars, locals

\* A listing that getftp has received to its end has been written to its end.
LEMMA BodyListing ==
    ASSUME SocketsInv, TypesInv, CommandsInv, Body, loop.caller = "listing",
           pc' = "response", get'.whole
    PROVE  ListingWhole'
<1>1. pc = "body" /\ UNCHANGED site
  BY Zenon, BodyEnds DEF Body
<1>2. "LIST" \in con.cmd /\ get \in Gets
  BY <1>1 DEF CommandsInv, TypesInv, Calling, Walk, TransferStages
<1>3. PICK to \in First .. Last, res \in {0, -1} :
         /\ Written(Skip(to))
         /\ get' = [get EXCEPT !.res = res, !.whole = (to = Last /\ Agreed),
                               !.rd_size = Skip(to)]
  <2>1. ASSUME End("all", "FWRITEERR") PROVE FALSE
    BY <2>1 DEF End
  <2> QED BY Zenon, <1>1, <2>1 DEF Body
<1>4. get'.whole = (to = Last /\ Agreed)
  BY <1>2, <1>3 DEF Gets
<1>5. to = Last /\ First \in Nat /\ RemoteSize \in Nat
  BY <1>1, <1>2, <1>4, BodyNumbers
<1>6. /\ loop.restval = 0 /\ First = 0 /\ RemoteSize \in Nat /\ Skip(to) \in Nat /\ to \in Nat
      /\ RemoteSize = Len(site.list[listing.command][listing.dir])
      /\ Skip(to) = IF to > loop.restval THEN to - loop.restval ELSE 0
  BY <1>1, <1>2, BodyNumbers
<1>7. Skip(to) = RemoteSize
  <2>1. First = 0 /\ RemoteSize \in Nat /\ to = Last
    BY <1>5, <1>6
  <2>2. to = RemoteSize
    BY ONLY <2>1 DEF Last
  <2> QED BY <1>6, <2>1, <2>2
<1>8. listing'.command = listing.command /\ listing'.dir = listing.dir
      /\ listing'.len = Skip(to)
  BY <1>2, <1>3, <1>6, WrittenTypes
<1> QED BY <1>1, <1>6, <1>7, <1>8 DEF ListingWhole

\* Only a transfer that is complete and answered ends a listing well.
LEMMA ListingEnds ==
    ASSUME SocketsInv, TypesInv, CommandsInv, AnswersInv, Trusted, Getftp,
           loop.caller = "listing"
    PROVE  /\ pc' = "response" => Body
           /\ pc' = "judge" /\ err' = "RETRFINISHED" =>
                 pc = "response" /\ get.whole /\ UNCHANGED <<site, listing>>
<1>2. ASSUME NEW how, NEW e, End(how, e)
      PROVE  pc' = "judge" /\ err' = e
  BY <1>2 DEF End
<1>3. CASE Completed
  <2>1. pc = "response" /\ UNCHANGED <<site, listing>> /\ pc' \in {"judge", "data"}
    BY <1>3 DEF Completed, unchangedInGetftp, unchangedFiles, End, Go
  <2>2. get.res = -1 => err' = "FTPRETRINT"
    BY <1>3 DEF Completed, End
  <2>3. get.whole \/ get.res = -1
    <3>1. Live /\ pc \in DataStages
      BY <1>3, <2>1 DEF Completed, SocketsInv, TypesInv, Alive, Live, DataStages
    <3> QED BY <1>3, <3>1, TimelyTransfer, CompletedAnswer
  <2> QED BY <2>1, <2>2, <2>3
<1>4. CASE Aborted
  BY <1>4 DEF Aborted, End
<1>5. CASE Body
  <2>1. pc' = "judge" => err' = "FWRITEERR"
    BY <1>5 DEF Body, End, Go
  <2> QED BY <1>5, <2>1
<1>6. CASE CommandFails
  <2>1. PICK e \in Errors(pc) : End("all", e)
    BY <1>6 DEF CommandFails
  <2>2. e # "RETRFINISHED"
    BY <1>6 DEF CommandFails, ControlStages, Errors
  <2> QED BY <1>2, <2>1, <2>2
<1>7. CASE Size
  <2>1. "RETR" \notin con.cmd
    BY <1>7, GetftpKeeps DEF CommandsInv, Calling
  <2>2. Go("data")
    BY Zenon, <1>7, <2>1 DEF Size
  <2> QED BY <2>2 DEF Go
<1>8. CASE Connect \/ CannotWrite \/ Auth \/ Handshake \/ Prot
  <2>1. pc \in {"connect", "auth", "tls", "prot"} \cup ControlStages
    BY <1>8 DEF Connect, CannotWrite, Auth, Handshake, Prot
  <2> QED
    BY <1>2, <1>8, <2>1
    DEF Connect, CannotWrite, Auth, Handshake, Prot, Go, After, ControlStages
<1>9. CASE Answered \/ Syst \/ Cwd \/ Rest
  <2>1. pc' = After(pc) \/ End("all", "FTPNSFOD")
    BY Zenon, <1>9 DEF Answered, Syst, Cwd, Rest, Go
  <2>2. pc \in {"greeting", "login", "pwd", "type", "cwd", "syst", "rest"}
    BY <1>9 DEF Answered, Syst, Cwd, Rest
  <2> QED BY <1>2, <2>1, <2>2 DEF After
<1>10. CASE Passive \/ Port \/ Retr \/ List
  BY <1>2, <1>10 DEF Passive, Port, Retr, List, Go, After, transferred
<1>11. CASE Accept \/ Open \/ DataHandshake
  BY <1>2, <1>11 DEF Accept, Open, DataHandshake, Go
<1> QED
  BY <1>3, <1>4, <1>5, <1>6, <1>7, <1>8, <1>9, <1>10, <1>11 DEF Getftp

LEMMA GetftpCalls ==
    ASSUME SocketsInv, TypesInv, CommandsInv, AnswersInv, CallsInv, Trusted, Trusted', Getftp
    PROVE  CallsInv'
<1>1. /\ pc \in Walk /\ pc' \in (Walk \ {"connect"}) \cup {"judge", "aborted"}
      /\ UNCHANGED <<opt, site, frames>>
      /\ loop'.caller = loop.caller /\ loop'.name = loop.name
  BY GetftpKeeps
<1>2. con'.rs \in {con.rs, site.system}
  BY SystemStep DEF Next
<1>3. pc \in Calling /\ pc' \notin {"finish", "done", "returned"}
  BY <1>1 DEF Calling, Walk, LoginStages, TransferStages
<1>4. pc' = "response" /\ loop.caller = "listing" /\ get'.whole => ListingWhole'
  BY ListingEnds, BodyListing
<1>5. pc' = "judge" /\ loop.caller = "listing" /\ err' = "RETRFINISHED" => ListingWhole'
  <2>1. ListingWhole /\ UNCHANGED <<site, listing>> => ListingWhole'
    BY DEF ListingWhole
  <2> QED BY <2>1, ListingEnds DEF CallsInv
<1> QED BY <1>1, <1>2, <1>3, <1>4, <1>5 DEF CallsInv, Top

\* ftp_loop_internal around getftp: what is given up is recorded.
LEMMA AroundCalls ==
    ASSUME SocketsInv, TypesInv, CommandsInv, CallsInv, Trusted',
           Enter \/ Try \/ FatalError \/ Retry \/ Saved \/ Abort
    PROVE  CallsInv'
<1>1. /\ con \in Cons /\ loop \in Loops
      /\ UNCHANGED <<opt, site>> /\ con'.rs \in {con.rs, site.system}
  BY SystemStep DEF TypesInv, Next
<1>2. /\ pc \in {"enter", "try", "judge"} /\ pc \in Calling
      /\ UNCHANGED <<frames, listing>>
      /\ pc' \in {"try", "returned", "connect", "cwd", "aborted"}
  BY DEF Enter, Try, FatalError, Retry, Saved, Abort, judging, GiveUp, Go, Calling
<1>3. /\ loop'.caller = loop.caller /\ loop'.dir = loop.dir /\ loop'.name = loop.name
      /\ ~Try => loop' = loop
  BY <1>1 DEF Enter, Try, FatalError, Retry, Saved, Abort, judging, Loops
<1>4. /\ "LIST" \in con.cmd <=> loop.caller = "listing"
      /\ loop.f # NoEntry => loop.caller = "file"
      /\ pc = "judge" => loop.count > 0
  BY <1>2 DEF CommandsInv
<1>5. Target' = Target /\ (ListingWhole' <=> ListingWhole)
  BY <1>1, <1>2, <1>3 DEF Target, ListingWhole
<1>6. pc' = "returned" =>
         /\ loop.caller = "listing" /\ err' = "RETROK" => ListingWhole
         /\ err' # "RETROK" => Target \in failed'
         /\ ~opt.noclobber => loop'.count > 0
  <2>1. CASE Enter
    <3>1. pc' = "returned" => opt.noclobber /\ "LIST" \notin con.cmd /\ err' = "RETROK"
      BY <2>1 DEF Enter, Go
    <3> QED BY <1>4, <3>1
  <2>2. CASE Try \/ Abort
    BY <2>2 DEF Try, Abort, Go
  <2>3. CASE FatalError \/ Retry
    <3>1. pc = "judge" /\ loop' = loop
      BY <2>3 DEF FatalError, Retry, judging
    <3>2. pc' = "returned" => err' # "RETROK" /\ Target \in failed'
      BY <2>3 DEF FatalError, Retry, GiveUp, Go, Fatal
    <3> QED BY <1>4, <3>1, <3>2
  <2>4. CASE Saved
    <3>1. pc = "judge" /\ loop' = loop /\ Complete /\ err' = "RETROK"
      BY <2>4 DEF Saved, judging
    <3>2. loop.caller = "listing" => ListingWhole
      BY <1>4, <3>1 DEF Complete, CallsInv
    <3> QED BY <1>4, <3>1, <3>2
  <2> QED BY <2>1, <2>2, <2>3, <2>4
<1> QED BY <1>1, <1>2, <1>3, <1>5, <1>6 DEF CallsInv, Top, Calling

\* No list is walked when ftp_retrieve_glob has returned to ftp_loop.
LEMMA EndGlobEmpty ==
    ASSUME TypesInv, frames # <<>>, NEW e \in Errs, EndGlob(e)
    PROVE  pc' \in {"finish", "dirs"} /\ (pc' = "finish" => frames' = <<>>)
<1>1. frames \in Seq(Frames) /\ err \in Errs
  BY DEF TypesInv
<1>2. /\ frames' \in Seq(Frames) /\ Len(frames') = Len(frames) - 1
      /\ pc' \in {"finish", "dirs"} /\ (pc' = "finish" <=> Len(frames) = 1)
  BY <1>1, EndGlobType
<1>3. ASSUME pc' = "finish" PROVE frames' = <<>>
  <2>1. Len(frames') = 0
    BY <1>2, <1>3
  <2> QED BY <1>2, <2>1
<1> QED BY <1>2, <1>3

LEMMA CallsStep ==
    ASSUME SocketsInv, LeakBound, TypesInv, CommandsInv, AnswersInv, CallsInv,
           Trusted, Trusted', [Next]_vars
    PROVE  CallsInv'
<1>1. /\ UNCHANGED <<opt, site>> /\ con'.rs \in {con.rs, site.system}
      /\ frames \in Seq(Frames) /\ err \in Errs /\ Empty \in STRING
  BY SystemStep, SitesAssumption DEF TypesInv, SocketsInv
<1>2. ASSUME pc' \in {"finish", "done", "files", "dirs"},
             pc' \in {"finish", "done"} => frames' = <<>>
      PROVE  CallsInv'
  BY <1>1, <1>2 DEF CallsInv, Calling, Walk, LoginStages, TransferStages
<1>3. ASSUME pc' = "enter", loop'.caller = "listing" => loop'.name = Empty,
             loop'.caller # "file" /\ frames' # <<>> =>
                frames'[Len(frames')].list = <<>> /\ frames'[Len(frames')].at = 0
      PROVE  CallsInv'
  BY <1>1, <1>3 DEF CallsInv, Top
<1>4. ASSUME NEW e \in Errs, frames # <<>>, EndGlob(e)
      PROVE  CallsInv'
  BY <1>2, <1>4, EndGlobEmpty
<1>5. CASE FtpLoop
  <2>1. CASE opt.job = "file"
    <3>1. PICK n \in opt.names : Call("own", opt.dir, n, NoEntry, FALSE)
      BY <1>5, <2>1 DEF FtpLoop
    <3>2. pc' = "enter" /\ loop'.caller = "own"
      BY <3>1, CallType, OptionTypes
    <3>3. frames' = <<>>
      BY <1>5, <2>1 DEF FtpLoop, CommandsInv
    <3> QED BY <1>3, <3>2, <3>3
  <2>2. CASE opt.job # "file"
    <3>1. /\ Call("listing", opt.dir, Empty, NoEntry, FALSE)
          /\ frames' \in {<<>>, <<Frame(opt.dir, opt.action)>>}
      BY <1>5, <2>2 DEF FtpLoop
    <3>2. pc' = "enter" /\ loop'.caller = "listing" /\ loop'.name = Empty
      BY <1>1, <3>1, CallType, OptionTypes
    <3>3. PICK fr : frames' \in {<<>>, <<fr>>} /\ fr.list = <<>> /\ fr.at = 0
      <4>1. Frame(opt.dir, opt.action).list = <<>> /\ Frame(opt.dir, opt.action).at = 0
        BY FrameType, OptionTypes
      <4> HIDE DEF Frame
      <4> QED BY <3>1, <4>1
    <3> QED BY <1>3, <3>2, <3>3
  <2> QED BY <2>1, <2>2
<1>6. CASE ReturnOwn
  <2>1. CASE frames = <<>>
    BY <1>2, <1>6, <2>1 DEF ReturnOwn, Go
  <2>2. CASE frames # <<>>
    BY <1>1, <1>4, <1>6, <2>2 DEF ReturnOwn
  <2> QED BY <2>1, <2>2
<1>7. CASE ReturnListing
  <2>1. CASE frames = <<>>
    BY <1>2, <1>7, <2>1 DEF ReturnListing, Go
  <2>2. CASE frames # <<>> /\ \E e \in Errs : EndGlob(e)
    BY <1>4, <2>2
  <2>3. CASE pc' = "files"
    BY <1>2, <2>3
  <2>4. CASE /\ frames # <<>> /\ UNCHANGED frames
             /\ \E n \in opt.names : Call("own", Top.dir, n, NoEntry, FALSE)
    <3>1. PICK n \in opt.names : Call("own", Top.dir, n, NoEntry, FALSE)
      BY <2>4
    <3>2. Top.dir \in STRING /\ n \in STRING
      BY <1>1, <2>4, TopType, OptionTypes DEF Frames
    <3>3. pc' = "enter" /\ loop'.caller = "own"
      BY <3>1, <3>2, CallType
    <3>4. Top.list = <<>> /\ Top.at = 0
      BY <1>7, <2>4 DEF ReturnListing, CallsInv, Calling
    <3> QED BY <1>3, <2>4, <3>3, <3>4 DEF Top
  <2>5. WithQuota("RETROK") \in Errs
    BY DEF WithQuota, Errs
  <2> QED BY <1>1, <1>7, <2>1, <2>2, <2>3, <2>4, <2>5 DEF ReturnListing, Go
<1>8. CASE ReturnFile
  BY <1>2, <1>8 DEF ReturnFile, Go
<1>9. CASE NextFile \/ NextDir
  <2>1. frames # <<>> /\ pc \in {"files", "dirs"} /\ pc' \in {"finish", "dirs", "files", "enter"}
    BY <1>9, NextFacts
  <2>2. CASE \E e \in Errs : EndGlob(e)
    BY <1>4, <2>1, <2>2
  <2>3. CASE pc' \in {"dirs", "files"}
    BY <1>2, <2>3
  <2>4. CASE pc' = "enter" /\ loop'.caller = "file"
    BY <1>3, <2>4
  <2>5. CASE /\ \E dir \in STRING : /\ Call("listing", dir, Empty, NoEntry, FALSE)
                                   /\ \E fs \in Seq(Frames) :
                                         frames' = Append(fs, Frame(dir, "GLOB_GETALL"))
    <3>1. PICK dir \in STRING, fs \in Seq(Frames) :
             /\ Call("listing", dir, Empty, NoEntry, FALSE)
             /\ frames' = Append(fs, Frame(dir, "GLOB_GETALL"))
      BY <2>5
    <3>2. pc' = "enter" /\ loop'.caller = "listing" /\ loop'.name = Empty
      BY <1>1, <3>1, CallType
    <3>3. PICK fr : fr = Frame(dir, "GLOB_GETALL") /\ fr.list = <<>> /\ fr.at = 0
      BY FrameType DEF Actions
    <3>4. frames'[Len(frames')] = fr
      BY <3>1, <3>3
    <3> QED BY <1>3, <3>2, <3>3, <3>4
  <2>6. Top \in Frames /\ Top.err \in Errs /\ Top.at \in Nat /\ Top.list \in Seq(Entries)
    <3>1. Top \in Frames
      BY <1>1, <2>1, TopType
    <3> QED BY <3>1 DEF Frames
  <2>7. \A e \in Errs : WithQuota(e) \in Errs
    BY DEF WithQuota, Errs
  <2>8. CASE NextFile
    <3>1. "QUOTEXC" \in Errs
      BY DEF Errs
    <3>2. ASSUME NEW dir, NEW name, NEW f, NEW force, Call("file", dir, name, f, force)
          PROVE  pc' = "enter" /\ loop'.caller = "file"
      BY <3>2 DEF Call, ZeroLoop
    <3>3. \/ \E e \in Errs : EndGlob(e)
          \/ pc' \in {"dirs", "files"}
          \/ \E dir, name, f, force : Call("file", dir, name, f, force)
      BY <2>1, <2>6, <2>7, <2>8, <3>1 DEF NextFile, Go
    <3> QED BY <2>2, <2>3, <2>4, <3>2, <3>3
  <2>9. CASE NextDir
    <3> DEFINE dirs == {i \in Kept(Top.list, Top.action) : Top.list[i].type = "dir"}
               i == Following(dirs, Top.at)
    <3>1. i \in Nat /\ (i # 0 => i \in DOMAIN Top.list)
      <4>1. dirs \in SUBSET Nat /\ dirs \subseteq DOMAIN Top.list
        BY <2>6, KeptType
      <4> HIDE DEF dirs
      <4>2. i \in dirs \cup {0}
        BY <2>6, <4>1, FollowingType
      <4> HIDE DEF i
      <4> QED BY <4>1, <4>2
    <3> HIDE DEF i
    <3>2. i # 0 => Top.list[i].name \in STRING
      <4>1. i # 0 => Top.list[i] \in Entries
        BY <2>6, <3>1
      <4> QED BY <4>1 DEF Entries
    <3>3. SetTop([Top EXCEPT !.at = i]) \in Seq(Frames)
      <4>1. [Top EXCEPT !.at = i] \in Frames
        BY <2>6, <3>1 DEF Frames
      <4> QED BY <1>1, <2>1, <4>1, SetTopType
    <3>4. "RETROK" \in Errs
      BY DEF Errs
    <3> QED BY <2>2, <2>5, <2>7, <2>9, <3>2, <3>3, <3>4 DEF NextDir, i
  <2> QED BY <1>9, <2>8, <2>9
<1>10. CASE Finish
  <2>1. pc' = "done" /\ frames' = frames /\ frames = <<>>
    BY <1>10 DEF Finish, Go, CallsInv
  <2> QED BY <1>2, <2>1
<1>11. CASE UNCHANGED vars
  BY <1>11 DEF vars, locals, CallsInv, ListingWhole, Target, Top
<1> QED
  BY <1>5, <1>6, <1>7, <1>8, <1>9, <1>10, <1>11, GetftpCalls, AroundCalls DEF Next, Stopped

LEMMA InitCalls ==
    ASSUME Init
    PROVE  CallsInv
BY DEF Init, CallsInv, Calling, Walk, LoginStages, TransferStages

-----------------------------------------------------------------------------
(***************************************************************************)
(* The files: each one of each list is settled, or being retrieved, or     *)
(* still ahead in the innermost list.                                      *)
(***************************************************************************)
\* ftp_retrieve_list walks the files of the innermost list.
Sweeping == pc = "files" \/ (pc \in Calling /\ loop.caller = "file")
\* No local file is trusted for its name or its time alone.
Compared == ~opt.noclobber /\ (opt.timestamping => con.rs \in {"unix", "l8"})

Settled(d, n) == Exceeded \/ <<d, n>> \in failed \/ Whole(d, n)
InCall(d, n) == pc \in Calling /\ loop.caller # "listing" /\ Target = <<d, n>>
FilesAhead(frame) ==
    {frame.list[i] : i \in {j \in Kept(frame.list, frame.action) : j > frame.at}}

FilesInv ==
    pc # "aborted" /\ Compared =>
        \A d \in DOMAIN listed : \A e \in listed[d] : e.type = "file" =>
            \/ Settled(d, e.name)
            \/ InCall(d, e.name)
            \/ Sweeping /\ d = Top.dir /\ e \in FilesAhead(Top)

\* What is known of the system is not forgotten.
LEMMA ComparedBefore ==
    ASSUME SocketsInv, TypesInv, CallsInv, Trusted', [Next]_vars, Compared'
    PROVE  Compared
<1>1. UNCHANGED <<opt, site>> /\ con'.rs \in {con.rs, site.system}
  BY SystemStep
<1> QED BY <1>1 DEF Compared, CallsInv

\* What is settled stays so while the file is left alone.
LEMMA SettledStays ==
    ASSUME UNCHANGED <<opt, site>>, total \in Nat, total' \in Nat, total' >= total,
           failed \subseteq failed', opt \in Opts, NEW d, NEW n, Settled(d, n),
           <<d, n>> \in DOMAIN disk =>
              <<d, n>> \in DOMAIN disk' /\ disk'[<<d, n>>].len = disk[<<d, n>>].len
    PROVE  Settled(d, n)'
<1>1. CASE Exceeded
  <2>1. opt.quota \in Nat
    BY OptsAssumption
  <2> QED BY <1>1, <2>1 DEF Exceeded, Settled
<1>2. CASE <<d, n>> \in failed
  BY <1>2 DEF Settled
<1>3. CASE Whole(d, n)
  BY <1>3 DEF Settled, Whole, Exists
<1> QED BY <1>1, <1>2, <1>3 DEF Settled

LEMMA SettledSame ==
    ASSUME UNCHANGED <<opt, site, disk, total, failed>>, NEW d, NEW n, Settled(d, n)
    PROVE  Settled(d, n)'
BY DEF Settled, Exceeded, Whole, Exists

\* getftp writes to the file it was called for, and for a listing to none.
LEMMA GetftpDisk ==
    ASSUME SocketsInv, TypesInv, CommandsInv, Getftp, NEW f \in DOMAIN disk,
           loop.caller = "listing" \/ f # Target
    PROVE  f \in DOMAIN disk' /\ disk'[f] = disk[f]
<1>1. pc \in Calling /\ ("LIST" \in con.cmd <=> loop.caller = "listing")
      /\ disk \in [DOMAIN disk -> Files]
  BY GetftpKeeps DEF Calling, CommandsInv, TypesInv
<1>2. CASE Open
  <2>1. \/ disk' = disk
        \/ "LIST" \notin con.cmd
              /\ disk' = Put(Target, [len |-> 0, good |-> TRUE, fresh |-> TRUE])
    BY <1>2 DEF Open, unchangedFiles
  <2> QED BY <1>1, <2>1 DEF Put
<1>3. CASE Body
  <2>1. \E n : Written(n)
    BY Zenon, <1>3 DEF Body
  <2>2. \/ disk' = disk
        \/ "LIST" \notin con.cmd /\ \E file : disk' = [disk EXCEPT ![Target] = file]
    BY <2>1 DEF Written
  <2> QED BY <1>1, <2>2
<1>4. CASE ~Open /\ ~Body
  <2>1. disk' = disk
    BY <1>4
    DEF Getftp, Connect, CommandFails, CannotWrite, Answered, Auth, Handshake, Prot, Syst,
        Cwd, Size, Passive, Port, Rest, Retr, List, Accept, DataHandshake, Completed,
        Aborted, commandAnswered, commandOnly, unchangedFiles
  <2> QED BY <2>1
<1> QED BY <1>2, <1>3, <1>4

\* A call goes on, or ends; the lists are as before.
LEMMA CallingFacts ==
    ASSUME SocketsInv, TypesInv, CommandsInv,
           \/ Getftp
           \/ Enter \/ Try \/ FatalError \/ Retry \/ Saved \/ Abort
    PROVE  /\ pc \in Calling /\ pc' \in Calling \cup {"aborted"} /\ UNCHANGED <<frames, listed>>
           /\ loop'.caller = loop.caller /\ loop'.dir = loop.dir /\ loop'.name = loop.name
           /\ failed \subseteq failed' /\ total' \in Nat /\ total' >= total
<1>0. total \in Nat /\ loop \in Loops
  BY DEF TypesInv
<1>1. CASE Getftp
  <2>1. pc \in Calling /\ pc' \in Calling \cup {"aborted"}
    BY <1>1, GetftpKeeps DEF Calling
  <2>2. UNCHANGED <<frames, total, listed, failed>>
        /\ loop'.caller = loop.caller /\ loop'.dir = loop.dir /\ loop'.name = loop.name
    BY <1>1, GetftpKeeps
  <2> QED BY <1>0, <2>1, <2>2
<1>2. CASE Enter \/ Try \/ FatalError \/ Retry \/ Abort
  <2>1. pc \in Calling /\ pc' \in Calling \cup {"aborted"}
    BY <1>2
    DEF Enter, Try, FatalError, Retry, Abort, GiveUp, Go, Calling, Walk, TransferStages
  <2>2. UNCHANGED <<frames, total, listed>> /\ failed \subseteq failed'
    BY <1>2 DEF Enter, Try, FatalError, Retry, Abort, GiveUp, judging
  <2>3. loop'.caller = loop.caller /\ loop'.dir = loop.dir /\ loop'.name = loop.name
    BY <1>0, <1>2 DEF Enter, Try, FatalError, Retry, Abort, judging, Loops
  <2> QED BY <1>0, <2>1, <2>2, <2>3
<1>3. CASE Saved
  <2>1. pc = "judge" /\ pc' = "returned" /\ UNCHANGED <<loop, frames, listed, failed>>
        /\ total' = IF "LIST" \in con.cmd THEN total ELSE total + loop.qtyread - loop.restval
    BY <1>3 DEF Saved, Go, judging
  <2>2. loop.qtyread \in Nat /\ loop.restval \in Nat /\ loop.qtyread >= loop.restval
    BY <1>0 DEF Loops, TypesInv
  <2> QED BY <1>0, <2>1, <2>2 DEF Calling
<1> QED BY <1>1, <1>2, <1>3

\* A call goes on.
LEMMA CallingFiles ==
    ASSUME SocketsInv, TypesInv, CommandsInv, CallsInv, FilesInv, Trusted',
           \/ Getftp
           \/ Enter \/ Try \/ FatalError \/ Retry \/ Saved \/ Abort
    PROVE  FilesInv'
<1>1. /\ total \in Nat /\ opt \in Opts /\ UNCHANGED <<opt, site>>
      /\ Compared' => Compared
  BY SystemStep, ComparedBefore DEF TypesInv, SocketsInv, Next
<1>2. /\ pc \in Calling /\ pc' \in Calling \cup {"aborted"} /\ UNCHANGED <<frames, listed>>
      /\ loop'.caller = loop.caller /\ loop'.dir = loop.dir /\ loop'.name = loop.name
      /\ failed \subseteq failed' /\ total' \in Nat /\ total' >= total
  BY CallingFacts
<1>3. ASSUME NEW f \in DOMAIN disk, loop.caller = "listing" \/ f # Target
      PROVE  f \in DOMAIN disk' /\ disk'[f] = disk[f]
  <2>1. CASE Getftp
    BY <1>3, <2>1, GetftpDisk
  <2>2. CASE Enter \/ Try \/ FatalError \/ Retry \/ Saved \/ Abort
    BY <1>3, <2>2 DEF Enter, Try, FatalError, Retry, Saved, Abort, judging
  <2> QED BY <2>1, <2>2
<1>4. Target' = Target /\ Top' = Top /\ \A fr : FilesAhead(fr)' = FilesAhead(fr)
  BY <1>1, <1>2 DEF Target, Top, FilesAhead, Kept
<1>5. pc' # "aborted" => (Sweeping' <=> Sweeping)
  BY <1>2 DEF Sweeping, Calling, Walk, LoginStages, TransferStages
<1> SUFFICES ASSUME pc' # "aborted", Compared', NEW d \in DOMAIN listed, NEW e \in listed[d],
                    e.type = "file"
             PROVE  \/ Settled(d, e.name)'
                    \/ InCall(d, e.name)'
                    \/ Sweeping' /\ d = Top'.dir /\ e \in FilesAhead(Top)'
  BY <1>2 DEF FilesInv
<1>6. pc # "aborted" /\ Compared
  BY <1>1, <1>2 DEF Calling, Walk, LoginStages, TransferStages
<1>7. CASE Settled(d, e.name) /\ (loop.caller = "listing" \/ Target # <<d, e.name>>)
  BY <1>1, <1>2, <1>3, <1>7, SettledStays
<1>8. CASE loop.caller # "listing" /\ Target = <<d, e.name>>
  BY <1>2, <1>4, <1>8 DEF InCall
<1>9. CASE Sweeping /\ d = Top.dir /\ e \in FilesAhead(Top)
  BY <1>4, <1>5, <1>9
<1> QED BY <1>6, <1>7, <1>8, <1>9 DEF FilesInv, InCall

\* Nothing is retrieved and no list walked, before and after.
LEMMA SettledFiles ==
    ASSUME SocketsInv, TypesInv, CallsInv, FilesInv, Trusted', [Next]_vars, pc # "aborted",
           UNCHANGED <<disk, total, listed, failed>>,
           ~Sweeping, \A d, n : Compared /\ InCall(d, n) => Settled(d, n)
    PROVE  FilesInv'
<1>1. UNCHANGED <<opt, site>> /\ (Compared' => Compared)
  BY SystemStep, ComparedBefore
<1>2. ASSUME NEW d, NEW n, Settled(d, n)
      PROVE  Settled(d, n)'
  BY <1>1, <1>2, SettledSame
<1> QED BY <1>1, <1>2 DEF FilesInv

\* A call that returned has settled its file.
LEMMA ReturnSettles ==
    ASSUME CommandsInv, DataInv, CallsInv, pc = "returned", Compared,
           NEW d, NEW n, InCall(d, n)
    PROVE  Settled(d, n)
<1>1. CASE err # "RETROK"
  BY <1>1 DEF CallsInv, InCall, Settled
<1>2. CASE err = "RETROK"
  <2>1. IsSaved
    BY <1>2 DEF CallsInv, InCall, DataInv, Compared
  <2> QED BY <2>1 DEF IsSaved, Intact, Known, InCall, Settled, Whole
<1> QED BY <1>1, <1>2

\* A list has been read: all its files are ahead.
LEMMA ReturnListingFiles ==
    ASSUME SocketsInv, TypesInv, CommandsInv, CallsInv, FilesInv, Trusted', ReturnListing
    PROVE  FilesInv'
<1>1. /\ UNCHANGED <<opt, site>> /\ frames \in Seq(Frames)
      /\ Compared' => Compared
  BY SystemStep, ComparedBefore DEF TypesInv, Next
<1>2. /\ pc = "returned" /\ loop.caller = "listing" /\ UNCHANGED <<disk, total, failed>>
      /\ pc \in Calling /\ pc # "aborted" /\ ~Sweeping
  BY DEF ReturnListing, globbing, Calling, Sweeping
<1>3. ASSUME NEW d \in DOMAIN listed, NEW e \in listed[d], e.type = "file", Compared
      PROVE  Settled(d, e.name)'
  <2>1. Settled(d, e.name)
    BY <1>2, <1>3 DEF FilesInv, InCall
  <2> QED BY <1>1, <1>2, <2>1, SettledSame
<1>4. CASE UNCHANGED listed
  BY <1>1, <1>3, <1>4 DEF FilesInv
<1>5. CASE ~(UNCHANGED listed)
  <2> DEFINE frame == [Top EXCEPT !.list = ListingRead]
             kept == Kept(ListingRead, Top.action)
  <2>1. /\ frames # <<>> /\ pc' = "files" /\ frames' = SetTop(frame)
        /\ listed' = [d \in DOMAIN listed \cup {Top.dir} |->
                IF d = Top.dir THEN {ListingRead[i] : i \in kept} ELSE listed[d]]
    BY <1>5 DEF ReturnListing, Go
  <2>2. Top \in Frames /\ Top.at = 0 /\ ListingRead \in Seq(Entries)
    BY <1>1, <1>2, <2>1, TopType, ReadType DEF CallsInv
  <2>3. /\ frame \in Frames /\ frame.list = ListingRead /\ frame.at = 0
        /\ frame.dir = Top.dir /\ frame.action = Top.action
    BY <2>2 DEF Frames
  <2> HIDE DEF frame
  <2>4. Top' = frame
    BY <1>1, <2>1, <2>3, SetTopType DEF Top
  <2>5. kept \subseteq DOMAIN ListingRead
    BY <2>2, KeptType
  <2>6. \A i \in kept : ListingRead[i] \in FilesAhead(frame)
    <3>1. \A i \in kept : i > 0
      BY <2>2, <2>5
    <3> QED BY <2>3, <3>1 DEF FilesAhead
  <2>7. \A fr : FilesAhead(fr)' = FilesAhead(fr)
    BY <1>1 DEF FilesAhead, Kept
  <2> SUFFICES ASSUME Compared, NEW d \in DOMAIN listed', NEW e \in listed'[d], e.type = "file"
               PROVE  \/ Settled(d, e.name)'
                      \/ Sweeping' /\ d = Top'.dir /\ e \in FilesAhead(Top)'
    BY <1>1 DEF FilesInv
  <2>8. CASE d = Top.dir
    <3>1. PICK i \in kept : e = ListingRead[i]
      BY <2>1, <2>8
    <3> QED BY <2>1, <2>3, <2>4, <2>6, <2>7, <2>8, <3>1 DEF Sweeping
  <2>9. CASE d # Top.dir
    BY <1>3, <2>1, <2>9
  <2> QED BY <2>8, <2>9
<1> QED BY <1>4, <1>5

\* A file of the list has been retrieved, or it ends the list: then the others are
\* given up with it.
LEMMA ReturnFileFiles ==
    ASSUME SocketsInv, TypesInv, CommandsInv, DataInv, CallsInv, FilesInv, Trusted',
           ReturnFile
    PROVE  FilesInv'
<1> DEFINE broken == err \in {"HOSTERR", "FWRITEERR"}
           rest == {<<Top.dir, Top.list[i].name>> : i \in Top.at + 1 .. Len(Top.list)}
           at == IF broken THEN Len(Top.list) ELSE Top.at
           frame == [Top EXCEPT !.err = err, !.at = at]
<1>1. /\ total \in Nat /\ opt \in Opts /\ UNCHANGED <<opt, site>> /\ frames \in Seq(Frames)
      /\ disk \in [DOMAIN disk -> Files] /\ err \in Errs
      /\ Compared' => Compared
  BY SystemStep, ComparedBefore DEF TypesInv, SocketsInv, Next
<1>2. /\ pc = "returned" /\ loop.caller = "file" /\ UNCHANGED <<total, listed>>
      /\ pc' = "files" /\ pc \in Calling
      /\ failed' = IF broken THEN failed \cup rest ELSE failed
      /\ disk' = IF Exists(Target) THEN [disk EXCEPT ![Target].fresh = TRUE] ELSE disk
  BY DEF ReturnFile, globbing, Calling, Go
<1>3. frames # <<>> /\ Top \in Frames /\ Top.at \in Nat /\ Top.list \in Seq(Entries)
  <2>1. frames # <<>>
    BY <1>2 DEF CommandsInv
  <2>2. Top \in Frames
    BY <1>1, <2>1, TopType
  <2> QED BY <2>1, <2>2 DEF Frames
<1>4. /\ frame \in Frames /\ frame.list = Top.list /\ frame.at = at
      /\ frame.dir = Top.dir /\ frame.action = Top.action
  <2>1. at \in Nat
    BY <1>3
  <2> QED BY <1>1, <1>3, <2>1 DEF Frames
<1>5. frames' = SetTop(frame)
  BY <1>3 DEF ReturnFile
<1> HIDE DEF frame, rest
<1>6. Top' = frame
  BY <1>1, <1>3, <1>4, <1>5, SetTopType DEF Top
<1>7. DOMAIN disk' = DOMAIN disk /\ \A f \in DOMAIN disk : disk'[f].len = disk[f].len
  BY <1>1, <1>2 DEF Files
<1>8. ASSUME NEW d, NEW n, Settled(d, n)
      PROVE  Settled(d, n)'
  <2>1. total' \in Nat /\ total' >= total /\ failed \subseteq failed'
    BY <1>1, <1>2
  <2> QED BY <1>1, <1>7, <1>8, <2>1, SettledStays
<1>9. \A fr : FilesAhead(fr)' = FilesAhead(fr)
  BY <1>1 DEF FilesAhead, Kept
<1> SUFFICES ASSUME Compared, NEW d \in DOMAIN listed, NEW e \in listed[d], e.type = "file"
             PROVE  \/ Settled(d, e.name)'
                    \/ Sweeping' /\ d = Top'.dir /\ e \in FilesAhead(Top)'
  BY <1>1, <1>2 DEF FilesInv
<1>10. CASE Settled(d, e.name) \/ InCall(d, e.name)
  BY <1>2, <1>8, <1>10, ReturnSettles
<1>11. CASE d = Top.dir /\ e \in FilesAhead(Top)
  <2>1. PICK i \in Kept(Top.list, Top.action) : i > Top.at /\ e = Top.list[i]
    BY <1>11 DEF FilesAhead
  <2>2. CASE broken
    <3>1. i \in Top.at + 1 .. Len(Top.list)
      BY <1>3, <2>1, KeptType
    <3>2. <<d, e.name>> \in failed'
      BY <1>2, <1>11, <2>1, <2>2, <3>1 DEF rest
    <3> QED BY <3>2 DEF Settled
  <2>3. CASE ~broken
    <3>1. e \in FilesAhead(frame)
      BY <1>4, <2>1, <2>3 DEF FilesAhead
    <3> QED BY <1>2, <1>4, <1>6, <1>9, <1>11, <3>1 DEF Sweeping
  <2> QED BY <2>2, <2>3
<1> QED BY <1>2, <1>10, <1>11 DEF FilesInv, Calling

\* The next file is retrieved, or it is there already; the others stay ahead.
LEMMA NextFileFiles ==
    ASSUME SocketsInv, TypesInv, CommandsInv, DataInv, CallsInv, FilesInv, Trusted',
           NextFile
    PROVE  FilesInv'
<1> DEFINE i == Following(Kept(Top.list, Top.action), Top.at)
           f == Top.list[i]
           target == <<Top.dir, f.name>>
           force == Top.force \/ (opt.timestamping /\ Exists(target) /\ ~disk[target].fresh)
<1>1. /\ UNCHANGED <<opt, site>> /\ frames \in Seq(Frames)
      /\ site \in Sites /\ (Compared' => Compared)
  BY SystemStep, ComparedBefore DEF TypesInv, SocketsInv, Next
<1>2. /\ pc = "files" /\ UNCHANGED <<disk, total, listed, failed>>
      /\ pc \notin Calling /\ frames # <<>>
  BY DEF NextFile, globbing, TypesInv, Calling, Walk, LoginStages, TransferStages
<1>3. /\ Top \in Frames /\ Top.at \in Nat /\ Top.list \in Seq(Entries) /\ Top.dir \in STRING
      /\ Top.force \in BOOLEAN
      /\ \A k \in DOMAIN Top.list : LineOf(Top.list[k], Top.dir)
  <2>1. Top \in Frames /\ Top = frames[Len(frames)] /\ Len(frames) \in DOMAIN frames
    BY <1>1, <1>2, TopType
  <2>2. \A k \in DOMAIN Top.list : LineOf(Top.list[k], Top.dir)
    BY <2>1 DEF DataInv
  <2> QED BY <2>1, <2>2 DEF Frames
<1>4. /\ i \in Nat /\ (i # 0 => i \in DOMAIN Top.list /\ i > Top.at)
      /\ \A k \in Kept(Top.list, Top.action) : k > Top.at => i # 0 /\ i <= k
  <2>1. Kept(Top.list, Top.action) \in SUBSET Nat
        /\ Kept(Top.list, Top.action) \subseteq DOMAIN Top.list
    BY <1>3, KeptType
  <2> DEFINE is == Kept(Top.list, Top.action)
  <2> HIDE DEF is
  <2>2. IF \E k \in is : k > Top.at
        THEN Following(is, Top.at) \in is /\ Following(is, Top.at) > Top.at
                /\ \A k \in is : k > Top.at => Following(is, Top.at) <= k
        ELSE Following(is, Top.at) = 0
    BY <1>3, <2>1, FollowingIs DEF is
  <2>3. \A k \in is : k \in DOMAIN Top.list /\ k \in Nat /\ k # 0
    BY <1>3, <2>1 DEF is
  <2>4. i = Following(is, Top.at)
    BY DEF is
  <2> HIDE DEF i
  <2>5. is = Kept(Top.list, Top.action)
    BY DEF is
  <2> QED BY <1>3, <2>2, <2>3, <2>4, <2>5
<1> HIDE DEF i
<1>5. ASSUME NEW d, NEW n, Settled(d, n)
      PROVE  Settled(d, n)'
  BY <1>1, <1>2, <1>5, SettledSame
<1>6. \A fr : FilesAhead(fr)' = FilesAhead(fr)
  BY <1>1 DEF FilesAhead, Kept
<1>7. ASSUME Compared
      PROVE  \A d \in DOMAIN listed : \A e \in listed[d] : e.type = "file" =>
                \/ Settled(d, e.name)'
                \/ d = Top.dir /\ i # 0 /\ e \in FilesAhead(Top)
  BY <1>2, <1>5, <1>7, <1>4 DEF FilesInv, InCall, FilesAhead
<1>8. CASE i = 0 \/ Exceeded
  <2>1. Exceeded => \A d, n : Settled(d, n)'
    <3>1. Exceeded => \A d, n : Settled(d, n)
      BY DEF Settled
    <3> QED BY <1>5, <3>1
  <2>2. ASSUME Compared, NEW d \in DOMAIN listed, NEW e \in listed[d], e.type = "file"
        PROVE  Settled(d, e.name)'
    BY <1>7, <1>8, <2>1, <2>2
  <2> QED BY <1>1, <1>2, <2>2 DEF FilesInv
<1>9. ASSUME NEW frame \in Frames, frame.dir = Top.dir, frame.list = Top.list,
             frame.action = Top.action, frame.at = i, frames' = SetTop(frame), Sweeping',
             i # 0, \A d, n : /\ Compared /\ d = Top.dir /\ n = f.name /\ f.type = "file"
                              => InCall(d, n)' \/ Settled(d, n)'
      PROVE  FilesInv'
  <2>1. Top' = frame
    BY <1>1, <1>2, <1>9, SetTopType DEF Top
  <2> SUFFICES ASSUME Compared, NEW d \in DOMAIN listed, NEW e \in listed[d], e.type = "file"
               PROVE  \/ Settled(d, e.name)' \/ InCall(d, e.name)'
                      \/ Sweeping' /\ d = Top'.dir /\ e \in FilesAhead(Top)'
    <3>1. Compared' => Compared /\ listed' = listed
      BY <1>1, <1>2
    <3> HIDE DEF f
    <3> QED BY <3>1 DEF FilesInv
  <2>2. CASE d = Top.dir /\ e \in FilesAhead(Top)
    <3>1. PICK k \in Kept(Top.list, Top.action) : k > Top.at /\ e = Top.list[k]
      BY <2>2 DEF FilesAhead
    <3>2. i <= k /\ k \in Nat
      BY <1>3, <1>4, <3>1, KeptType
    <3>3. CASE k = i
      <4>1. e = f
        BY <3>1, <3>3
      <4> HIDE DEF f
      <4> QED BY <1>9, <2>2, <4>1
    <3>4. CASE k > i
      <4>1. e \in FilesAhead(frame)
        BY <1>9, <3>1, <3>4 DEF FilesAhead
      <4> QED BY <1>6, <1>9, <2>1, <2>2, <4>1
    <3> QED BY <1>4, <3>2, <3>3, <3>4
  <2> QED BY <1>7, <2>2
<1>10. CASE i # 0 /\ ~Exceeded /\ f.type = "file" /\ ~(opt.timestamping /\ NoNewer(target, f))
  <2>1. /\ frames' = SetTop([Top EXCEPT !.at = i, !.force = force])
        /\ Call("file", Top.dir, f.name, f, force)
    BY Zenon, <1>10 DEF NextFile, i
  <2> DEFINE frame == [Top EXCEPT !.at = i, !.force = force]
  <2>2. force \in BOOLEAN
    BY <1>3
  <2>3. f \in Entries /\ f.name \in STRING
    <3>1. f \in Entries
      BY <1>3, <1>4, <1>10
    <3> HIDE DEF f
    <3> QED BY <3>1 DEF Entries
  <2> HIDE DEF force
  <2>4. /\ frame \in Frames /\ frame.dir = Top.dir /\ frame.list = Top.list
        /\ frame.action = Top.action /\ frame.at = i
    BY <1>3, <1>4, <2>2 DEF Frames
  <2>5. /\ pc' = "enter" /\ loop'.caller = "file" /\ loop'.dir = Top.dir
        /\ loop'.name = f.name
    BY <1>3, <2>1, <2>2, <2>3, CallType
  <2>6. Sweeping' /\ \A d, n : d = Top.dir /\ n = f.name => InCall(d, n)'
    <3> HIDE DEF f
    <3>1. pc' \in Calling' /\ Calling' = Calling
      BY <2>5 DEF Calling
    <3>2. Target' = <<Top.dir, f.name>>
      BY <2>5 DEF Target
    <3> QED BY <2>5, <3>1, <3>2 DEF Sweeping, InCall
  <2> HIDE DEF frame
  <2>7. frames' = SetTop(frame)
    BY <2>1 DEF frame
  <2> HIDE DEF f
  <2> QED BY <1>9, <1>10, <2>4, <2>6, <2>7
<1>11. CASE i # 0 /\ ~Exceeded /\ ~(f.type = "file" /\ ~(opt.timestamping /\ NoNewer(target, f)))
  <2>1. frames' = SetTop([Top EXCEPT !.at = i, !.err = "RETROK"]) /\ pc' = pc
    BY <1>11 DEF NextFile, i
  <2> DEFINE frame == [Top EXCEPT !.at = i, !.err = "RETROK"]
  <2>2. /\ frame \in Frames /\ frame.dir = Top.dir /\ frame.list = Top.list
        /\ frame.action = Top.action /\ frame.at = i
    BY <1>3, <1>4 DEF Frames, Errs
  <2> HIDE DEF frame
  <2>3. frames' = SetTop(frame)
    BY <2>1 DEF frame
  <2>4. ASSUME Compared, f.type = "file"
        PROVE  Settled(Top.dir, f.name)
    <3>1. NoNewer(target, f) /\ con.rs \in {"unix", "l8"}
      BY <1>11, <2>4 DEF Compared
    <3>2. Exists(target) /\ disk[target].len = f.size
      BY <3>1 DEF NoNewer
    <3>3. target \in DOMAIN site.size => f.size = site.size[target]
      <4>1. LineOf(f, Top.dir)
        BY <1>3, <1>4, <1>11
      <4>2. target \in DOMAIN site.size => <<Top.dir, f.name>> \in DOMAIN site.size
        OBVIOUS
      <4>3. site.size[target] = site.size[<<Top.dir, f.name>>]
        OBVIOUS
      <4> HIDE DEF f, target
      <4> QED BY <1>1, <2>4, <4>1, <4>2, <4>3, LineSize
    <3> HIDE DEF f
    <3> QED BY <3>2, <3>3 DEF Settled, Whole
  <2>5. Sweeping'
    BY <1>2, <2>1 DEF Sweeping
  <2>6. \A d, n : Compared /\ d = Top.dir /\ n = f.name /\ f.type = "file" => Settled(d, n)'
    <3> HIDE DEF f
    <3> QED BY <1>5, <2>4
  <2> HIDE DEF f
  <2> QED BY <1>9, <1>11, <2>2, <2>3, <2>5, <2>6
<1> QED BY <1>8, <1>10, <1>11

LEMMA FilesStep ==
    ASSUME SocketsInv, LeakBound, TypesInv, CommandsInv, DataInv, CallsInv, FilesInv, Trusted',
           [Next]_vars
    PROVE  FilesInv'
<1>1. CASE Getftp \/ Enter \/ Try \/ FatalError \/ Retry \/ Saved \/ Abort
  BY <1>1, CallingFiles
<1>2. CASE FtpLoop \/ NextDir \/ Finish
  <2>1. /\ pc \in {"start", "dirs", "finish"} /\ UNCHANGED <<disk, total, listed, failed>>
    BY <1>2 DEF FtpLoop, NextDir, Finish, globbing
  <2>2. pc \notin Calling /\ pc # "files" /\ pc # "aborted"
    BY <2>1 DEF Calling, Walk, LoginStages, TransferStages
  <2> QED BY <2>1, <2>2, SettledFiles DEF Sweeping, InCall
<1>3. CASE ReturnOwn
  <2>1. /\ pc = "returned" /\ loop.caller = "own" /\ UNCHANGED <<disk, total, listed, failed>>
    BY <1>3 DEF ReturnOwn, globbing
  <2>2. \A d, n : Compared /\ InCall(d, n) => Settled(d, n)
    BY <2>1, ReturnSettles
  <2> QED BY <2>1, <2>2, SettledFiles DEF Sweeping
<1>4. CASE UNCHANGED vars
  BY <1>4
  DEF vars, locals, FilesInv, Compared, Settled, InCall, Sweeping, FilesAhead, Kept, Top,
      Target, Exceeded, Whole, Exists
<1> QED
  BY <1>1, <1>2, <1>3, <1>4, ReturnListingFiles, ReturnFileFiles, NextFileFiles
  DEF Next, Stopped

LEMMA InitFiles ==
    ASSUME Init
    PROVE  FilesInv
BY DEF Init, FilesInv

-----------------------------------------------------------------------------
(***************************************************************************)
(* The directories: each one of each list is reached, or being listed, or  *)
(* still ahead in one of the active lists.  While ftp_retrieve_list walks  *)
(* the files of a list all its directories are ahead, whatever its place.  *)
(***************************************************************************)
Ahead(n, frame, all) ==
    \E j \in Kept(frame.list, frame.action) :
        /\ frame.list[j].type = "dir" /\ frame.list[j].name = n
        /\ all \/ j > frame.at
Pending(n) == \E k \in DOMAIN frames : Ahead(n, frames[k], k = Len(frames) /\ Sweeping)
InListing(n) ==
    /\ pc \in Calling /\ loop.caller = "listing" /\ loop.dir = n
    /\ frames # <<>> /\ Top.action = "GLOB_GETALL"

\* Nothing that either of the two commands lists for the directory is wanted.
Barren(n) == \E c \in {"LIST_a", "LIST"} : Kept(site.list[c][n], "GLOB_GETALL") = {}
Reached(n) == Exceeded \/ n \in DOMAIN listed \/ <<n, Empty>> \in failed \/ Barren(n)

Deep == opt.recursive /\ opt.reclevel = 0
DirsInv ==
    pc # "aborted" /\ Deep =>
        \A d \in DOMAIN listed : \A e \in listed[d] : e.type = "dir" =>
            Pending(e.name) \/ InListing(e.name) \/ Reached(e.name)

\* What is reached stays so.
LEMMA ReachedStays ==
    ASSUME UNCHANGED <<opt, site>>, opt \in Opts, total \in Nat, total' \in Nat,
           total' >= total, failed \subseteq failed', DOMAIN listed \subseteq DOMAIN listed',
           NEW n, Reached(n)
    PROVE  Reached(n)'
<1>1. Exceeded => Exceeded'
  <2>1. opt.quota \in Nat
    BY OptsAssumption
  <2> QED BY <2>1 DEF Exceeded
<1>2. Barren(n) => Barren(n)'
  BY DEF Barren, Kept
<1> QED BY <1>1, <1>2 DEF Reached

LEMMA ReachedSame ==
    ASSUME UNCHANGED <<opt, site, total, failed>>, DOMAIN listed \subseteq DOMAIN listed',
           NEW n, Reached(n)
    PROVE  Reached(n)'
<1>1. Barren(n) => Barren(n)'
  BY DEF Barren, Kept
<1> QED BY <1>1 DEF Reached, Exceeded

\* A list that was read before, or none.
LEMMA ListedDirs ==
    ASSUME DirsInv, UNCHANGED <<opt, listed>>, pc # "aborted",
           Deep => \A n : Reached(n) => Reached(n)',
           Deep => \A n : Pending(n) \/ InListing(n) =>
                             Pending(n)' \/ InListing(n)' \/ Reached(n)'
    PROVE  DirsInv'
BY DEF DirsInv, Deep

\* The innermost list changes, or it ends, with the directories ahead in it.
LEMMA SetTopPending ==
    ASSUME UNCHANGED opt, frames \in Seq(Frames), frames # <<>>, NEW frame \in Frames,
           frames' = SetTop(frame), NEW n,
           Ahead(n, Top, Sweeping) => Ahead(n, frame, Sweeping'), Pending(n)
    PROVE  Pending(n)'
<1>1. /\ frames' \in Seq(Frames) /\ Len(frames') = Len(frames) /\ Len(frames) \in DOMAIN frames
      /\ DOMAIN frames' = DOMAIN frames /\ frames'[Len(frames)] = frame
      /\ \A i \in DOMAIN frames : i # Len(frames) => frames'[i] = frames[i]
  BY SetTopType
<1>2. \A m, fr, all : Ahead(m, fr, all)' <=> Ahead(m, fr, all)
  BY DEF Ahead, Kept
<1>3. PICK k \in DOMAIN frames : Ahead(n, frames[k], k = Len(frames) /\ Sweeping)
  BY DEF Pending
<1>4. CASE k = Len(frames)
  <2>1. Ahead(n, frame, Sweeping')
    BY <1>3, <1>4 DEF Top, Ahead
  <2>2. Ahead(n, frames[k], k = Len(frames) /\ Sweeping)'
    BY <1>1, <1>4, <2>1 DEF Ahead, Kept
  <2> QED BY <1>1, <2>2 DEF Pending
<1>5. CASE k # Len(frames)
  <2>1. Ahead(n, frames[k], k = Len(frames) /\ Sweeping)'
    BY <1>1, <1>3, <1>5 DEF Ahead, Kept
  <2> QED BY <1>1, <2>1 DEF Pending
<1> QED BY <1>4, <1>5

LEMMA EndGlobPending ==
    ASSUME UNCHANGED opt, TypesInv, frames # <<>>, NEW e \in Errs, EndGlob(e),
           NEW n, ~Ahead(n, Top, Sweeping), Pending(n)
    PROVE  Pending(n)'
<1>1. frames \in Seq(Frames) /\ err \in Errs /\ Len(frames) \in Nat \ {0}
  BY DEF TypesInv
<1>2. /\ frames' \in Seq(Frames) /\ Len(frames') = Len(frames) - 1
      /\ \A i \in DOMAIN frames' : i \in DOMAIN frames /\ frames'[i] = frames[i]
  BY <1>1, EndGlobType
<1>3. PICK k \in DOMAIN frames : Ahead(n, frames[k], k = Len(frames) /\ Sweeping)
  BY DEF Pending
<1>4. k # Len(frames)
  <2>1. k = Len(frames) => Ahead(n, Top, Sweeping)
    BY <1>3 DEF Top, Ahead
  <2> QED BY <2>1
<1>5. k \in DOMAIN frames' /\ frames'[k] = frames[k]
  BY <1>1, <1>2, <1>4
<1>6. Ahead(n, frames[k], k = Len(frames) /\ Sweeping)'
  BY <1>3, <1>4, <1>5 DEF Ahead, Kept
<1> QED BY <1>5, <1>6 DEF Pending

\* Nothing is ahead in a list that has not been read.
LEMMA UnreadAhead ==
    ASSUME Top.list = <<>>, NEW n, NEW all
    PROVE  ~Ahead(n, Top, all)
BY DEF Ahead, Kept

\* A call goes on.
LEMMA CallingDirs ==
    ASSUME SocketsInv, TypesInv, CommandsInv, DirsInv,
           \/ Getftp
           \/ Enter \/ Try \/ FatalError \/ Retry \/ Saved \/ Abort
    PROVE  DirsInv'
<1>1. /\ total \in Nat /\ opt \in Opts /\ UNCHANGED <<opt, site>>
  BY SystemStep DEF TypesInv, SocketsInv, Next
<1>2. /\ pc \in Calling /\ pc' \in Calling \cup {"aborted"} /\ UNCHANGED <<frames, listed>>
      /\ loop'.caller = loop.caller /\ loop'.dir = loop.dir
      /\ failed \subseteq failed' /\ total' \in Nat /\ total' >= total
  BY CallingFacts
<1>3. pc # "aborted"
  BY <1>2 DEF Calling, Walk, LoginStages, TransferStages
<1>4. \A n : Reached(n) => Reached(n)'
  BY <1>1, <1>2, ReachedStays
<1>5. CASE pc' # "aborted"
  <2>1. Sweeping' <=> Sweeping
    BY <1>2, <1>5 DEF Sweeping, Calling, Walk, LoginStages, TransferStages
  <2>2. \A n : Pending(n) => Pending(n)'
    BY <1>1, <1>2, <2>1 DEF Pending, Ahead, Kept
  <2>3. \A n : InListing(n) => InListing(n)'
    BY <1>2, <1>5 DEF InListing, Top, Calling
  <2> QED BY <1>1, <1>2, <1>3, <1>4, <2>2, <2>3, ListedDirs
<1>6. CASE pc' = "aborted"
  BY <1>6 DEF DirsInv
<1> QED BY <1>5, <1>6

\* No list is active.
LEMMA BareDirs ==
    ASSUME SocketsInv, TypesInv, DirsInv, [Next]_vars, pc # "aborted", frames = <<>>,
           UNCHANGED <<total, listed, failed>>
    PROVE  DirsInv'
<1>1. UNCHANGED <<opt, site>>
  BY SystemStep
<1>2. \A n : Reached(n) => Reached(n)'
  BY <1>1, ReachedSame
<1>3. \A n : ~Pending(n) /\ ~InListing(n)
  BY DEF Pending, InListing
<1> QED BY <1>1, <1>2, <1>3, ListedDirs

\* The innermost list ends: nothing is ahead in it, and what it was read for is reached.
LEMMA EndGlobDirs ==
    ASSUME SocketsInv, TypesInv, DirsInv, [Next]_vars, pc # "aborted", frames # <<>>,
           NEW e \in Errs, EndGlob(e), UNCHANGED <<total, listed, failed>>,
           Deep => \A n : Exceeded \/ (~Ahead(n, Top, Sweeping)
                                         /\ (InListing(n) => Reached(n)))
    PROVE  DirsInv'
<1>1. UNCHANGED <<opt, site>>
  BY SystemStep
<1>2. \A n : Reached(n) => Reached(n)'
  BY <1>1, ReachedSame
<1>3. ASSUME NEW n, Pending(n) \/ InListing(n), Deep
      PROVE  Pending(n)' \/ Reached(n)'
  <2>1. CASE Exceeded
    BY <1>2, <2>1 DEF Reached
  <2>2. CASE ~Exceeded
    <3>1. ~Ahead(n, Top, Sweeping) /\ (InListing(n) => Reached(n))
      BY <1>3, <2>2
    <3>2. Pending(n) => Pending(n)'
      BY <1>1, <3>1, EndGlobPending
    <3> QED BY <1>2, <1>3, <3>1, <3>2
  <2> QED BY <2>1, <2>2
<1> QED BY <1>1, <1>2, <1>3, ListedDirs

\* A list has been read, and all its directories are ahead; or nothing in it is
\* wanted, or the directory is given up.
LEMMA ReturnListingDirs ==
    ASSUME SocketsInv, TypesInv, CommandsInv, DataInv, CallsInv, DirsInv, ReturnListing
    PROVE  DirsInv'
<1> DEFINE frame == [Top EXCEPT !.list = ListingRead]
           kept == Kept(ListingRead, Top.action)
<1>1. /\ UNCHANGED <<opt, site>> /\ frames \in Seq(Frames) /\ err \in Errs
  BY SystemStep DEF TypesInv, Next
<1>2. /\ pc = "returned" /\ loop.caller = "listing" /\ UNCHANGED <<total, failed>>
      /\ pc \in Calling /\ pc # "aborted" /\ ~Sweeping
  BY DEF ReturnListing, globbing, Calling, Sweeping
<1>3. CASE frames = <<>>
  <2>1. UNCHANGED listed
    BY <1>3 DEF ReturnListing
  <2> QED BY <1>2, <1>3, <2>1, BareDirs DEF Next
<1>4. CASE frames # <<>>
  <2>1. /\ Top \in Frames /\ Top.list = <<>> /\ Top.at = 0 /\ loop.dir = Top.dir
        /\ ListingRead \in Seq(Entries)
    BY <1>1, <1>2, <1>4, TopType, ReadType DEF CallsInv, CommandsInv
  <2>2. \A n, all : ~Ahead(n, Top, all)
    BY <2>1, UnreadAhead
  <2>3. CASE err # "RETROK"
    <3>1. EndGlob(err) /\ UNCHANGED listed
      BY <1>4, <2>3 DEF ReturnListing
    <3>2. ASSUME NEW n, InListing(n) PROVE Reached(n)
      <4>1. Target = <<n, Empty>>
        BY <1>2, <3>2 DEF InListing, CallsInv, Target
      <4> QED BY <1>2, <2>3, <4>1 DEF CallsInv, Reached
    <3> QED BY <1>1, <1>2, <1>4, <2>2, <3>1, <3>2, EndGlobDirs DEF Next
  <2>4. CASE err = "RETROK" /\ kept # {}
    <3>1. /\ frames' = SetTop(frame) /\ pc' = "files"
          /\ listed' = [d \in DOMAIN listed \cup {Top.dir} |->
                IF d = Top.dir THEN {ListingRead[i] : i \in kept} ELSE listed[d]]
      BY <1>4, <2>4 DEF ReturnListing, Go
    <3>2. /\ frame \in Frames /\ frame.list = ListingRead /\ frame.action = Top.action
      BY <2>1 DEF Frames
    <3> HIDE DEF frame
    <3>3. Sweeping'
      BY <3>1 DEF Sweeping
    <3>4. ASSUME NEW n, Pending(n) \/ InListing(n) \/ Reached(n)
          PROVE  Pending(n)' \/ Reached(n)'
      <4>1. Pending(n) => Pending(n)'
        BY <1>1, <1>4, <2>2, <3>1, <3>2, SetTopPending
      <4>2. DOMAIN listed \subseteq DOMAIN listed' /\ Top.dir \in DOMAIN listed'
        BY <3>1
      <4>3. InListing(n) => Reached(n)'
        BY <2>1, <4>2 DEF InListing, Reached
      <4>4. Reached(n) => Reached(n)'
        BY <1>1, <1>2, <4>2, ReachedSame
      <4> QED BY <3>4, <4>1, <4>3, <4>4
    <3>5. ASSUME NEW i \in kept, ListingRead[i].type = "dir",
                 NEW n, ListingRead[i].name = n
          PROVE  Pending(n)'
      <4>1. /\ Len(frames) \in DOMAIN frames' /\ Len(frames') = Len(frames)
            /\ frames'[Len(frames)] = frame
        BY <1>1, <1>4, <3>1, <3>2, SetTopType, TopType
      <4>2. \E j \in Kept(frame.list, frame.action) :
               frame.list[j].type = "dir" /\ frame.list[j].name = n
        BY <3>2, <3>5
      <4>3. PICK k : k = Len(frames)
        OBVIOUS
      <4>4. Ahead(n, frames[k], k = Len(frames) /\ Sweeping)'
        BY <1>1, <3>3, <4>1, <4>2, <4>3 DEF Ahead, Kept
      <4> QED BY <4>1, <4>3, <4>4 DEF Pending
    <3> SUFFICES ASSUME Deep, NEW d \in DOMAIN listed', NEW e \in listed'[d], e.type = "dir"
                 PROVE  Pending(e.name)' \/ Reached(e.name)'
      BY <1>1 DEF DirsInv, Deep
    <3>6. CASE d = Top.dir
      <4>1. PICK i \in kept : e = ListingRead[i]
        BY <3>1, <3>6
      <4> QED BY <3>5, <4>1
    <3>7. CASE d # Top.dir
      <4>1. d \in DOMAIN listed /\ e \in listed[d]
        BY <3>1, <3>7
      <4>2. Pending(e.name) \/ InListing(e.name) \/ Reached(e.name)
        BY <1>2, <4>1 DEF DirsInv
      <4> QED BY <3>4, <4>2
    <3> QED BY <3>6, <3>7
  <2>5. CASE err = "RETROK" /\ kept = {} /\ Top.action = "GLOB_GETONE"
    <3>1. /\ \E n \in opt.names : Call("own", Top.dir, n, NoEntry, FALSE)
          /\ UNCHANGED <<frames, listed>>
      BY <1>4, <2>5 DEF ReturnListing
    <3>2. \A n : Reached(n) => Reached(n)'
      BY <1>1, <1>2, <3>1, ReachedSame
    <3>3. ASSUME NEW n, Pending(n) PROVE Pending(n)'
      <4>1. PICK k \in DOMAIN frames : Ahead(n, frames[k], k = Len(frames) /\ Sweeping)
        BY <3>3 DEF Pending
      <4>2. Ahead(n, frames[k], k = Len(frames) /\ Sweeping)'
        BY <1>1, <1>2, <3>1, <4>1 DEF Ahead, Kept
      <4> QED BY <3>1, <4>2 DEF Pending
    <3>4. \A n : ~InListing(n)
      BY <2>5 DEF InListing
    <3> QED BY <1>1, <1>2, <3>1, <3>2, <3>3, <3>4, ListedDirs
  <2>6. CASE err = "RETROK" /\ kept = {} /\ Top.action # "GLOB_GETONE"
    <3>1. EndGlob(WithQuota("RETROK")) /\ UNCHANGED listed
      BY <1>4, <2>6 DEF ReturnListing
    <3>2. WithQuota("RETROK") \in Errs
      BY DEF WithQuota, Errs
    <3>3. ASSUME NEW n, InListing(n) PROVE Reached(n)
      <4>1. listing.dir = n /\ listing.command \in {"LIST_a", "LIST"} /\ ListingWhole
        BY <1>2, <2>6, <3>3 DEF InListing, DataInv, CallsInv, TypesInv
      <4> DEFINE whole == site.list[listing.command][n]
      <4>2. whole \in Seq(Entries)
        BY <4>1, SitesAssumption DEF SocketsInv, TypesInv, Directories
      <4>3. ListingRead = SubSeq(whole, 1, Len(whole))
        BY <4>1 DEF ListingRead, ListingWhole
      <4> HIDE DEF whole
      <4>4. ListingRead = whole
        BY <4>2, <4>3
      <4>5. Kept(whole, "GLOB_GETALL") = {}
        BY <2>6, <3>3, <4>4 DEF InListing
      <4> QED BY <4>1, <4>5 DEF Reached, Barren, whole
    <3> QED BY <1>2, <1>4, <2>2, <3>1, <3>2, <3>3, EndGlobDirs DEF Next
  <2> QED BY <2>3, <2>4, <2>5, <2>6
<1> QED BY <1>3, <1>4

\* The files of a list come and go; its directories are ahead until the last of them.
LEMMA WalkingDirs ==
    ASSUME SocketsInv, TypesInv, CommandsInv, DirsInv, NextFile \/ ReturnFile
    PROVE  DirsInv'
<1>1. /\ UNCHANGED <<opt, site>> /\ frames \in Seq(Frames) /\ err \in Errs
  BY SystemStep DEF TypesInv, Next
<1>2. /\ UNCHANGED <<total, listed>> /\ failed \subseteq failed' /\ total \in Nat
      /\ opt \in Opts /\ pc # "aborted" /\ Sweeping /\ frames # <<>> /\ \A n : ~InListing(n)
  BY DEF NextFile, ReturnFile, globbing, TypesInv, SocketsInv, CommandsInv, Sweeping, Calling,
         Walk, LoginStages, TransferStages, InListing
<1>3. Top \in Frames /\ Top.at \in Nat /\ Top.list \in Seq(Entries) /\ Top.err \in Errs
  <2>1. Top \in Frames
    BY <1>1, <1>2, TopType
  <2> QED BY <2>1 DEF Frames
<1>4. \A n : Reached(n) => Reached(n)'
  BY <1>1, <1>2, ReachedStays
<1>5. ASSUME NEW frame \in Frames, frame.list = Top.list, frame.action = Top.action,
             frames' = SetTop(frame), Sweeping' \/ frame.at = 0
      PROVE  DirsInv'
  <2>1. \A n : Ahead(n, Top, Sweeping) => Ahead(n, frame, Sweeping')
    <3>1. \A j \in Kept(Top.list, Top.action) : j \in Nat /\ j > 0
      BY <1>3, KeptType
    <3> QED BY <1>5, <3>1 DEF Ahead
  <2>2. \A n : Pending(n) => Pending(n)'
    BY <1>1, <1>2, <1>5, <2>1, SetTopPending
  <2> QED BY <1>1, <1>2, <1>4, <2>2, ListedDirs
<1>6. CASE ReturnFile
  <2> DEFINE broken == err \in {"HOSTERR", "FWRITEERR"}
             at == IF broken THEN Len(Top.list) ELSE Top.at
             frame == [Top EXCEPT !.err = err, !.at = at]
  <2>1. frames' = SetTop(frame) /\ pc' = "files"
    BY <1>3, <1>6 DEF ReturnFile, Go
  <2>2. at \in Nat
    BY <1>3
  <2> HIDE DEF at
  <2>3. frame \in Frames /\ frame.list = Top.list /\ frame.action = Top.action
    BY <1>1, <1>3, <2>2 DEF Frames
  <2> HIDE DEF frame
  <2>4. Sweeping'
    BY <2>1 DEF Sweeping
  <2> QED BY <1>5, <2>1, <2>3, <2>4
<1>7. CASE NextFile
  <2> DEFINE i == Following(Kept(Top.list, Top.action), Top.at)
             f == Top.list[i]
             target == <<Top.dir, f.name>>
             force == Top.force \/ (opt.timestamping /\ Exists(target) /\ ~disk[target].fresh)
  <2>1. i \in Nat /\ pc = "files" /\ UNCHANGED failed
    <3>1. Kept(Top.list, Top.action) \in SUBSET Nat
      BY <1>3, KeptType
    <3> DEFINE is == Kept(Top.list, Top.action)
    <3> HIDE DEF is
    <3>2. Following(is, Top.at) \in is \cup {0}
      BY <1>3, <3>1, FollowingType DEF is
    <3>3. Following(is, Top.at) \in Nat
      BY <3>1, <3>2 DEF is
    <3> QED BY <1>7, <3>3 DEF is, NextFile
  <2> HIDE DEF i
  <2>2. CASE i = 0 /\ ~Deep
    BY <1>1, <1>2, <2>2 DEF DirsInv, Deep
  <2>3. CASE i = 0 /\ Deep
    <3> DEFINE frame == [Top EXCEPT !.at = 0]
    <3>1. frames' = SetTop(frame)
      <4>1. Descends
        BY <2>3 DEF Deep, Descends
      <4> QED BY <1>7, <2>3, <4>1 DEF NextFile, i
    <3>2. frame \in Frames /\ frame.list = Top.list /\ frame.action = Top.action
          /\ frame.at = 0
      BY <1>3 DEF Frames
    <3> HIDE DEF frame
    <3> QED BY <1>5, <3>1, <3>2
  <2>4. CASE i # 0 /\ Exceeded
    <3>1. EndGlob("QUOTEXC") /\ "QUOTEXC" \in Errs
      BY <1>7, <2>4 DEF NextFile, i, Errs
    <3> QED BY <1>2, <1>7, <2>1, <2>4, <3>1, EndGlobDirs DEF Next
  <2>5. CASE i # 0 /\ ~Exceeded
    <3>1. PICK fr : /\ frames' = SetTop(fr)
                    /\ \/ /\ fr = [Top EXCEPT !.at = i, !.force = force]
                          /\ Call("file", Top.dir, f.name, f, force)
                       \/ fr = [Top EXCEPT !.at = i, !.err = "RETROK"] /\ pc' = pc
      BY Zenon, <1>7, <2>5 DEF NextFile, i
    <3>2. force \in BOOLEAN
      <4>1. Top.force \in BOOLEAN
        BY <1>3 DEF Frames
      <4> QED BY <4>1
    <3>3. fr = [Top EXCEPT !.at = i, !.force = force] =>
             fr \in Frames /\ fr.list = Top.list /\ fr.action = Top.action
      <4> HIDE DEF force
      <4> QED BY <1>3, <2>1, <3>2 DEF Frames
    <3>4. fr = [Top EXCEPT !.at = i, !.err = "RETROK"] =>
             fr \in Frames /\ fr.list = Top.list /\ fr.action = Top.action
      BY <1>3, <2>1 DEF Frames, Errs
    <3>5. Call("file", Top.dir, f.name, f, force) => Sweeping'
      <4> HIDE DEF f, force
      <4>1. Call("file", Top.dir, f.name, f, force) => pc' = "enter" /\ loop'.caller = "file"
        BY DEF Call, ZeroLoop
      <4> QED BY <4>1 DEF Sweeping, Calling
    <3>6. pc' = pc => Sweeping'
      BY <2>1 DEF Sweeping
    <3> HIDE DEF f, force
    <3> QED BY <1>5, <3>1, <3>3, <3>4, <3>5, <3>6
  <2> QED BY <2>2, <2>3, <2>4, <2>5
<1> QED BY <1>6, <1>7

\* The next directory is listed; those after it stay ahead.
LEMMA NextDirDirs ==
    ASSUME SocketsInv, TypesInv, CommandsInv, DirsInv, NextDir
    PROVE  DirsInv'
<1> DEFINE dirs == {j \in Kept(Top.list, Top.action) : Top.list[j].type = "dir"}
           i == Following(dirs, Top.at)
           dir == Top.list[i].name
<1>1. /\ UNCHANGED <<opt, site>> /\ frames \in Seq(Frames) /\ err \in Errs
  BY SystemStep DEF TypesInv, Next
<1>2. /\ pc = "dirs" /\ UNCHANGED <<total, listed, failed>> /\ frames # <<>>
      /\ pc # "aborted" /\ ~Sweeping /\ \A n : ~InListing(n)
  BY DEF NextDir, globbing, TypesInv, Sweeping, Calling, Walk, LoginStages, TransferStages,
         InListing
<1>3. Top \in Frames /\ Top.at \in Nat /\ Top.list \in Seq(Entries)
  <2>1. Top \in Frames
    BY <1>1, <1>2, TopType
  <2> QED BY <2>1 DEF Frames
<1>4. /\ i \in Nat /\ (i # 0 => i \in DOMAIN Top.list)
      /\ \A j \in dirs : j > Top.at => i # 0 /\ i <= j
  <2>1. dirs \in SUBSET Nat /\ dirs \subseteq DOMAIN Top.list
    BY <1>3, KeptType
  <2> HIDE DEF dirs
  <2>2. IF \E k \in dirs : k > Top.at
        THEN Following(dirs, Top.at) \in dirs /\ Following(dirs, Top.at) > Top.at
                /\ \A k \in dirs : k > Top.at => Following(dirs, Top.at) <= k
        ELSE Following(dirs, Top.at) = 0
    BY <1>3, <2>1, FollowingIs
  <2>3. i = Following(dirs, Top.at) /\ \A j \in dirs : j \in Nat /\ j # 0
    <3>1. \A j \in dirs : j \in Nat /\ j # 0
      BY <1>3, <2>1
    <3> QED BY <3>1
  <2> HIDE DEF i
  <2>4. CASE \E k \in dirs : k > Top.at
    <3>1. i \in dirs /\ \A k \in dirs : k > Top.at => i <= k
      BY <2>2, <2>3, <2>4
    <3> QED BY <2>1, <2>3, <3>1
  <2>5. CASE ~\E k \in dirs : k > Top.at
    <3>1. i = 0
      BY <2>2, <2>3, <2>5
    <3> QED BY <2>5, <3>1
  <2> QED BY <2>4, <2>5
<1>5. \A n : Ahead(n, Top, Sweeping) =>
         \E j \in dirs : j > Top.at /\ Top.list[j].name = n
  BY <1>2 DEF Ahead
<1>6. WithQuota("RETROK") \in Errs
  BY DEF WithQuota, Errs
<1>7. CASE i = 0 \/ Exceeded
  <2>1. EndGlob(WithQuota("RETROK"))
    BY <1>7 DEF NextDir
  <2> HIDE DEF i, dirs
  <2>2. \A n : Exceeded \/ ~Ahead(n, Top, Sweeping)
    BY <1>4, <1>5, <1>7
  <2> QED BY <1>2, <1>6, <2>1, <2>2, EndGlobDirs DEF Next
<1>8. CASE i # 0 /\ ~Exceeded
  <2> DEFINE frame == [Top EXCEPT !.at = i]
  <2>1. /\ frames' = Append(SetTop(frame), Frame(dir, "GLOB_GETALL"))
        /\ Call("listing", dir, Empty, NoEntry, FALSE)
    BY <1>8 DEF NextDir
  <2>2. /\ frame \in Frames /\ frame.list = Top.list /\ frame.action = Top.action
        /\ frame.at = i
    <3> HIDE DEF i
    <3> QED BY <1>3, <1>4 DEF Frames
  <2>3. dir \in STRING /\ Empty \in STRING
    <3> HIDE DEF i, dirs
    <3>1. Top.list[i] \in Entries
      BY <1>3, <1>4, <1>8
    <3> QED BY <3>1, SitesAssumption DEF Entries, SocketsInv
  <2> HIDE DEF i, dirs, dir, frame
  <2>4. /\ pc' = "enter" /\ loop'.caller = "listing" /\ loop'.dir = dir
    BY <2>1, <2>3, CallType
  <2>5. /\ SetTop(frame) \in Seq(Frames) /\ Len(SetTop(frame)) = Len(frames)
        /\ DOMAIN SetTop(frame) = DOMAIN frames /\ SetTop(frame)[Len(frames)] = frame
        /\ \A k \in DOMAIN frames : k # Len(frames) => SetTop(frame)[k] = frames[k]
    BY <1>1, <1>2, <2>2, SetTopType
  <2>6. PICK new \in Frames : new = Frame(dir, "GLOB_GETALL") /\ new.action = "GLOB_GETALL"
    BY <2>3, FrameType DEF Actions
  <2>7. /\ frames' # <<>> /\ frames'[Len(frames')] = new /\ DOMAIN frames \subseteq DOMAIN frames'
        /\ \A k \in DOMAIN frames : frames'[k] = SetTop(frame)[k]
    <3>1. PICK fs \in Seq(Frames) : fs = SetTop(frame) /\ DOMAIN fs = DOMAIN frames
      BY <2>5
    <3>2. frames' = Append(fs, new)
      BY <2>1, <2>6, <3>1
    <3>3. /\ frames' # <<>> /\ frames'[Len(frames')] = new
          /\ DOMAIN fs \subseteq DOMAIN frames' /\ \A k \in DOMAIN fs : frames'[k] = fs[k]
      BY <3>2
    <3> QED BY <3>1, <3>3
  <2>8. \A n : Reached(n) => Reached(n)'
    BY <1>1, <1>2, ReachedSame
  <2>9. ASSUME NEW n, Pending(n)
        PROVE  Pending(n)' \/ InListing(n)'
    <3>1. PICK k \in DOMAIN frames : Ahead(n, frames[k], k = Len(frames) /\ Sweeping)
      BY <2>9 DEF Pending
    <3>2. CASE k # Len(frames)
      <4>1. frames'[k] = frames[k] /\ k \in DOMAIN frames'
        BY <2>5, <2>7, <3>2
      <4>2. Ahead(n, frames[k], k = Len(frames) /\ Sweeping)'
        BY <1>1, <3>1, <3>2, <4>1 DEF Ahead, Kept
      <4> QED BY <4>1, <4>2 DEF Pending
    <3>3. CASE k = Len(frames)
      <4>1. Ahead(n, Top, Sweeping)
        BY <3>1, <3>3 DEF Ahead, Top
      <4>2. PICK j \in dirs : j > Top.at /\ Top.list[j].name = n
        BY <1>5, <4>1
      <4>3. i <= j /\ j \in Nat /\ j \in Kept(Top.list, Top.action) /\ Top.list[j].type = "dir"
        BY <1>3, <1>4, <4>2, KeptType DEF dirs
      <4>4. CASE j = i
        <5>1. n = dir
          BY <4>2, <4>4 DEF dir
        <5>2. InListing(n)'
          BY <2>4, <2>6, <2>7, <5>1 DEF InListing, Top, Calling
        <5> QED BY <5>2
      <4>5. CASE j > i
        <5>1. frames'[k] = frame /\ k \in DOMAIN frames'
          BY <2>5, <2>7, <3>3
        <5>2. Ahead(n, frames[k], k = Len(frames) /\ Sweeping)'
          BY <1>1, <2>2, <4>2, <4>3, <4>5, <5>1 DEF Ahead, Kept
        <5> QED BY <5>1, <5>2 DEF Pending
      <4> QED BY <1>4, <4>3, <4>4, <4>5
    <3> QED BY <3>2, <3>3
  <2> QED BY <1>1, <1>2, <2>8, <2>9, ListedDirs
<1> QED BY <1>7, <1>8

LEMMA DirsStep ==
    ASSUME SocketsInv, LeakBound, TypesInv, CommandsInv, DataInv, CallsInv, DirsInv,
           [Next]_vars
    PROVE  DirsInv'
<1>1. CASE Getftp \/ Enter \/ Try \/ FatalError \/ Retry \/ Saved \/ Abort
  BY <1>1, CallingDirs
<1>2. CASE FtpLoop \/ Finish
  <2>1. /\ pc # "aborted" /\ frames = <<>> /\ UNCHANGED <<total, listed, failed>>
    BY <1>2 DEF FtpLoop, Finish, CommandsInv, CallsInv
  <2> QED BY <2>1, BareDirs
<1>3. CASE ReturnOwn
  <2>1. /\ pc = "returned" /\ pc \in Calling /\ loop.caller = "own"
        /\ UNCHANGED <<total, listed, failed>>
    BY <1>3 DEF ReturnOwn, globbing, Calling
  <2>2. CASE frames = <<>>
    BY <2>1, <2>2, BareDirs
  <2>3. CASE frames # <<>>
    <3>1. EndGlob(err) /\ err \in Errs /\ Top.list = <<>>
      BY <1>3, <2>1, <2>3 DEF ReturnOwn, TypesInv, CallsInv
    <3>2. \A n : ~Ahead(n, Top, Sweeping) /\ ~InListing(n)
      BY <2>1, <3>1, UnreadAhead DEF InListing
    <3> QED BY <2>1, <2>3, <3>1, <3>2, EndGlobDirs
  <2> QED BY <2>2, <2>3
<1>4. CASE UNCHANGED vars
  <2>1. UNCHANGED <<opt, site, frames, listed, pc, loop, total, failed>>
    BY <1>4 DEF vars, locals
  <2>2. \A n : Pending(n) => Pending(n)'
    BY <2>1 DEF Pending, Ahead, Kept, Sweeping, Calling
  <2>3. \A n : InListing(n) => InListing(n)'
    BY <2>1 DEF InListing, Top, Calling
  <2>4. \A n : Reached(n) => Reached(n)'
    BY <2>1, ReachedSame
  <2>5. CASE pc # "aborted"
    BY <2>1, <2>2, <2>3, <2>4, <2>5, ListedDirs
  <2>6. CASE pc = "aborted"
    BY <2>1, <2>6 DEF DirsInv
  <2> QED BY <2>5, <2>6
<1> QED
  BY <1>1, <1>2, <1>3, <1>4, ReturnListingDirs, WalkingDirs, NextDirDirs
  DEF Next, Stopped

LEMMA InitDirs ==
    ASSUME Init
    PROVE  DirsInv
BY DEF Init, DirsInv

-----------------------------------------------------------------------------
(***************************************************************************)
(* The theorems.                                                           *)
(***************************************************************************)
Inv ==
    /\ SocketsInv /\ LeakBound /\ TypesInv /\ CommandsInv /\ AnswersInv /\ DirectoryInv
    /\ Trusted => DataInv /\ CallsInv /\ FilesInv /\ DirsInv

\* The layers together are inductive.
LEMMA Invariance ==
    Spec => []Inv
<1>1. Init => Inv
  BY InitSockets, InitTypes, InitCommands, InitAnswers, InitDirectory, InitData,
     InitCalls, InitFiles, InitDirs DEF Inv
<1>2. Inv /\ [Next]_vars => Inv'
  <2> SUFFICES ASSUME Inv, [Next]_vars PROVE Inv'
    OBVIOUS
  <2>1. /\ SocketsInv' /\ LeakBound' /\ TypesInv' /\ CommandsInv' /\ AnswersInv'
        /\ DirectoryInv'
    BY SocketsStep, TypesStep, CommandsStep, AnswersStep, DirectoryStep DEF Inv
  <2>2. Trusted' => Trusted
    BY TrustedBefore DEF Inv
  <2>3. Trusted' => DataInv' /\ CallsInv' /\ FilesInv' /\ DirsInv'
    BY <2>2, DataStep, CallsStep, FilesStep, DirsStep DEF Inv
  <2> QED BY <2>1, <2>3 DEF Inv
<1> QED BY <1>1, <1>2, PTL DEF Spec

\* The descriptor that is kept from one ftp_loop_internal to the next is the one of a
\* control connection or of no socket, whichever of its sockets getftp closed on its
\* way out; every socket that getftp does not close was left by a failure of its own,
\* and in passive mode there is none of these.
THEOREM SocketsStaySound ==
    Spec => []SocketsSound
<1>1. Inv => SocketsSound
  <2> SUFFICES ASSUME Inv PROVE SocketsSound
    OBVIOUS
  <2>1. TypeOK
    <3>1. \A f \in DOMAIN disk : disk[f].len \in Nat
      BY DEF Inv, TypesInv, Files
    <3>2. late \in BOOLEAN /\ misled \in BOOLEAN
      BY Zenon DEF Inv, AnswersInv
    <3> QED BY <3>1, <3>2 DEF Inv, TypesInv, SocketsInv, TypeOK, Cons, Loops, Flags
  <2>2. \A k \in {con.csock, get.csock} \cap DOMAIN conns :
          pc \notin {"finish", "done"} => conns[k].kind = "control"
    BY DEF Inv, SocketsInv, Live
  <2>3. pc = "done" /\ opt.ftp_pasv => conns = [k \in {} |-> {}]
    <3> SUFFICES ASSUME pc = "done", opt.ftp_pasv PROVE conns = [k \in {} |-> {}]
      OBVIOUS
    <3>1. DOMAIN conns = {}
      BY DEF Inv, SocketsInv, Leaked, Used, Live
    <3>2. conns \in [{} -> Sockets]
      BY <3>1 DEF Inv, SocketsInv
    <3> QED BY <3>2
  <2> QED BY <2>1, <2>2, <2>3 DEF SocketsSound
<1> QED BY <1>1, Invariance, PTL

\* Whatever is asked for over a control connection whose answers come in time, the
\* server is in the directory of the file or listing that it is asked for: however
\* DONE_CWD was carried from try to try, from file to file and from directory to
\* directory, wherever getftp ended, and also on a connection made after one on which
\* getftp has not waited for an answer (AUTH, PBSZ and PROT, the end of a transfer).
THEOREM DirectoryStaysRight ==
    Spec => []RightDirectory
<1>1. Inv => RightDirectory
  <2> SUFFICES ASSUME Inv, ~late, Asking, Alive
               PROVE  conns[get.csock].dir = loop.dir
    BY Zenon DEF RightDirectory
  <2>1. pc \in {"data"} \cup TransferStages
    BY Zenon DEF Asking, TransferStages
  <2>2. get.csock = con.csock /\ Live
    BY <2>1 DEF Inv, SocketsInv, Alive, Live, Walk
  <2>3. Timely
    BY Zenon, <2>2 DEF Timely
  <2> QED BY <2>1, <2>2, <2>3 DEF Inv, DirectoryInv, Here
<1> QED BY <1>1, Invariance, PTL

\* A file that ftp_loop_internal reports as retrieved is the remote one and has all
\* its bytes, over however many tries, resumed at qtyread, at the length of the file
\* on disk, or sent again from the start where REST is not known; as long as getftp
\* has not gone by the late answer to another command.
THEOREM SavedFilesAreWhole ==
    Spec => []SavedWhole
<1>1. Inv => SavedWhole
  <2> SUFFICES ASSUME Inv, Trusted, pc = "returned", err = "RETROK", loop.count > 0,
                      "LIST" \notin con.cmd
               PROVE  disk[Target].good /\ disk[Target].len = site.size[Target]
    BY Zenon DEF SavedWhole, Trusted
  <2>1. loop.caller # "listing"
    BY DEF Inv, CommandsInv, Calling
  <2>2. IsSaved
    BY <2>1 DEF Inv, DataInv
  <2> QED BY <2>2 DEF IsSaved, Intact
<1> QED BY <1>1, Invariance, PTL

\* A recursive retrieval forgets nothing.  When it is done, ftp_retrieve_list has been
\* through every list to its end: each file is there with the bytes that the server
\* has, or was given up; ftp_retrieve_dirs has been through every list too: each
\* directory has been listed, was given up, or holds nothing that is wanted.  Only the
\* quota and the depth end a walk before its end, and only going by the late answer to
\* another command may make it take one list for another.
THEOREM NothingIsForgotten ==
    Spec => []NothingForgotten
<1>1. Inv => NothingForgotten
  <2> SUFFICES ASSUME Inv, Trusted, pc = "done", ~Exceeded, ~opt.noclobber,
                      NEW d \in DOMAIN listed, NEW e \in listed[d]
               PROVE  /\ e.type = "file" /\ (opt.timestamping => con.rs \in {"unix", "l8"}) =>
                            Whole(d, e.name) \/ <<d, e.name>> \in failed
                      /\ e.type = "dir" /\ opt.recursive /\ opt.reclevel = 0 =>
                            \/ e.name \in DOMAIN listed \/ <<e.name, Empty>> \in failed
                            \/ Barren(e.name)
    BY Zenon DEF NothingForgotten, Barren, Trusted
  <2>1. frames = <<>> /\ pc # "aborted" /\ pc \notin Calling /\ ~Sweeping
    BY DEF Inv, CallsInv, Sweeping, Calling, Walk, LoginStages, TransferStages
  <2>2. e.type = "file" /\ Compared => Settled(d, e.name)
    BY <2>1 DEF Inv, FilesInv, InCall
  <2>3. e.type = "dir" /\ Deep => Reached(e.name)
    BY <2>1 DEF Inv, DirsInv, Pending, InListing
  <2> QED BY <2>2, <2>3 DEF Compared, Settled, Deep, Reached
<1> QED BY <1>1, Invariance, PTL
=============================================================================
