------------------------------ MODULE FtpLoop -------------------------------
(***************************************************************************)
(* FTP and FTPS retrieval: ftp_loop, ftp_retrieve_glob, ftp_retrieve_list, *)
(* ftp_retrieve_dirs, ftp_get_listing, ftp_loop_internal and getftp        *)
(* (src/src/ftp.c) with the commands of src/src/ftp-basic.c.               *)
(*                                                                         *)
(* getftp is a walk through a fixed order of commands.  A server may       *)
(* refuse one or leave it unanswered, and each of them has its own idea of *)
(* which sockets to close then.  ftp_loop_internal repeats getftp, going   *)
(* on from what the previous try left: the control connection (con.csock), *)
(* the directory it is in (DONE_CWD) and the bytes on disk.                *)
(*                                                                         *)
(* A local file is the number of its bytes and whether they are the first  *)
(* ones of the remote file (good), a listing the number of its lines.      *)
(* Descriptors are numbers; 0 stands for -1.                               *)
(***************************************************************************)
EXTENDS Integers, Sequences, FiniteSets

CONSTANTS
    Opts,      \* the command lines considered
    Sites,     \* the servers considered
    Disks,     \* the local files beforehand
    MaxFaults  \* bound: the number of failures of server, network and disk

\* A command line: what the URL names (a file; a glob, which is what -r, -N and
\* wildcards come to; an index), the names its file part matches, and options.
ASSUME OptsAssumption ==
    Opts \subseteq [job : {"file", "glob", "index"}, dir : STRING,
                    action : {"GLOB_GETONE", "GLOB_GLOBALL", "GLOB_GETALL"},
                    names : SUBSET STRING, rejects : SUBSET STRING,
                    ntry : Nat, always_rest : BOOLEAN, noclobber : BOOLEAN,
                    timestamping : BOOLEAN, ftp_pasv : BOOLEAN,
                    recursive : BOOLEAN, reclevel : Nat, quota : Nat,
                    ftps : {"no", "explicit", "implicit"},
                    fallback : BOOLEAN, prot_clear : BOOLEAN]

\* A server: the sizes of its files by directory and name, the lines that each of
\* the two commands lists for a directory, the system it says it is, and the
\* commands it does not know.  The login directory is named by the empty string, and
\* so is the file of a listing (Empty stands for it).  No line is of a nameless file,
\* and the size in a line is the one of the file, if it can be retrieved.
Empty == "EMPTY"
Entries == [name : STRING \ {Empty}, type : {"file", "dir", "link"}, size : Nat]
ASSUME SitesAssumption ==
    \A s \in Sites :
        /\ \A f \in DOMAIN s.size : s.size[f] \in Nat
        /\ \A c \in {"LIST_a", "LIST"} :
              /\ DOMAIN s.list[c] \subseteq STRING
              /\ DOMAIN s.list[c] = DOMAIN s.list["LIST"] /\ Empty \in DOMAIN s.list[c]
              /\ \A d \in DOMAIN s.list[c] :
                    /\ s.list[c][d] \in Seq(Entries)
                    /\ \A i \in DOMAIN s.list[c][d] :
                          LET e == s.list[c][d][i] IN
                          e.type = "file" /\ <<d, e.name>> \in DOMAIN s.size =>
                              e.size = s.size[<<d, e.name>>]
        /\ s.system \in {"unix", "l8", "vms", "other"}

\* A local file: its bytes, whether they are the first ones of the remote file, and
\* whether its time is not before that of the remote one.
Files == [len : Nat, good : BOOLEAN, fresh : BOOLEAN]
ASSUME DisksAssumption == \A d \in Disks : d \in [DOMAIN d -> Files]
ASSUME MaxFaultsAssumption == MaxFaults \in Nat

VARIABLES
    opt, site,  \* command line and server, fixed
    disk,       \* the local files
    listing,    \* the listing file: the command and the directory it is of, its length
    con,        \* ccon: the flags st, the commands cmd, csock and the system rs
    conns,      \* the open sockets by descriptor: kind and the server's directory
    loop,       \* the arguments and locals of ftp_loop_internal
    get,        \* the locals of getftp
    frames,     \* the active ftp_retrieve_glob calls with their lists, innermost last
    late,       \* the answers on con.csock are, or may be, those of earlier commands
    pc, err, total,
    faults,     \* the failures so far
    listed,     \* history: the lists given to ftp_retrieve_list, by directory
    failed,     \* history: the files and listings that were given up
    misled      \* history: something was done for an answer that came late

locals == <<listing, con, conns, loop, get, frames>>
vars == <<opt, site, disk, locals, late, pc, err, total, faults, listed, failed, misled>>

NoEntry == [name |-> Empty, type |-> "none", size |-> 0]
ZeroLoop == [caller |-> "own", dir |-> Empty, name |-> Empty, f |-> NoEntry,
             force |-> FALSE, count |-> 0, restval |-> 0, qtyread |-> 0]
ZeroGet == [csock |-> 0, dtsock |-> 0, local_sock |-> 0, secure |-> FALSE,
            protected |-> FALSE, rest_failed |-> FALSE, list |-> "LIST",
            rd_size |-> 0, previous_rd_size |-> 0, res |-> 0,
            whole |-> FALSE]

\* con as ftp_loop clears it: rs is ST_UNIX and rsu 0, which is UST_TYPE_L8.  -c is
\* given for files that are the first bytes of the remote ones.
Init ==
    /\ opt \in Opts /\ site \in Sites /\ disk \in Disks
    /\ opt.always_rest => \A f \in DOMAIN disk :
          disk[f].good /\ (f \in DOMAIN site.size => disk[f].len <= site.size[f])
    /\ listing = [command |-> "LIST", dir |-> Empty, len |-> 0]
    /\ con = [st |-> {"ON_YOUR_OWN"}, cmd |-> {}, csock |-> 0, rs |-> "l8"]
    /\ conns = [k \in {} |-> {}]
    /\ loop = ZeroLoop /\ get = ZeroGet
    /\ frames = <<>>
    /\ late = FALSE /\ misled = FALSE
    /\ pc = "start" /\ err = "RETROK"
    /\ total = 0 /\ faults = 0
    /\ listed = [d \in {} |-> {}] /\ failed = {}

-----------------------------------------------------------------------------
Target == <<loop.dir, loop.name>>
Exists(f) == f \in DOMAIN disk
Put(f, file) == [g \in DOMAIN disk \cup {f} |-> IF g = f THEN file ELSE disk[g]]
Top == frames[Len(frames)]
SetTop(frame) == [frames EXCEPT ![Len(frames)] = frame]
Exceeded == opt.quota > 0 /\ total > opt.quota
Go(to) == pc' = to
Fault == faults < MaxFaults /\ faults' = faults + 1

answersAsBefore == UNCHANGED <<late, misled>>

\* Call ftp_loop_internal for f (NoEntry: NULL).
Call(caller, dir, name, f, force) ==
    /\ loop' = [ZeroLoop EXCEPT !.caller = caller, !.dir = dir, !.name = name,
                                !.f = f, !.force = force]
    /\ pc' = "enter"

\* ftp_get_listing before and after ftp_loop_internal.
Listing(c) == [c EXCEPT !.st = @ \ {"ON_YOUR_OWN"},
                        !.cmd = (@ \cup {"LIST"}) \ {"RETR"}]
Frame(dir, action) ==
    [dir |-> dir, action |-> action, list |-> <<>>, at |-> 0, phase |-> "files",
     force |-> FALSE, err |-> "RETROK"]

\* ftp_loop: a directory index, a single file, or ftp_retrieve_glob.
FtpLoop ==
    /\ pc = "start"
    /\ IF opt.job = "file"
       THEN /\ \E n \in opt.names : Call("own", opt.dir, n, NoEntry, FALSE)
            /\ UNCHANGED <<frames, con>>
       ELSE /\ frames' = IF opt.job = "index" THEN <<>>
                         ELSE <<Frame(opt.dir, opt.action)>>
            /\ con' = Listing(con)
            /\ Call("listing", opt.dir, Empty, NoEntry, FALSE)
    /\ UNCHANGED <<opt, site, disk, listing, conns, get, err, total, faults,
                   listed, failed>>
    /\ answersAsBefore

-----------------------------------------------------------------------------
\* ftp_loop_internal up to its loop: -nc, and the flags of a call on its own.
Enter ==
    /\ pc = "enter"
    /\ IF opt.noclobber /\ Exists(Target) /\ "LIST" \notin con.cmd
       THEN err' = "RETROK" /\ Go("returned") /\ UNCHANGED con
       ELSE /\ con' = IF "ON_YOUR_OWN" \in con.st
                      THEN [con EXCEPT !.st = {"ON_YOUR_OWN"}] ELSE con
            /\ Go("try") /\ UNCHANGED err
    /\ UNCHANGED <<opt, site, disk, listing, conns, loop, get, frames, total,
                   faults, listed, failed>>
    /\ answersAsBefore

\* Variant for sensitivity checks: a new connection is taken to be in the directory.
TryCommands_staying ==
    (con.cmd \ {"LOGIN", "CWD"})
        \cup (IF "ON_YOUR_OWN" \in con.st THEN {"RETR"} ELSE {})
        \cup (IF con.csock = 0 THEN {"LOGIN"} ELSE {})
        \cup (IF con.csock = 0 /\ loop.count = 0 THEN {"CWD"} ELSE {})

\* The commands of the next try.
TryCommands ==
    LET login == IF con.csock = 0 THEN {"LOGIN"} ELSE {}
    IN  IF "ON_YOUR_OWN" \in con.st
        THEN {"RETR"} \cup login \cup (IF con.csock = 0 THEN {"CWD"} ELSE {})
        ELSE (con.cmd \ {"LOGIN", "CWD"}) \cup login
                \cup (IF "DONE_CWD" \in con.st THEN {} ELSE {"CWD"})

\* Variant for sensitivity checks: every retry goes on from what is on disk, though
\* no byte of it need be of this run.
Restart_disk(cmd) ==
    IF "LIST" \in cmd \/ loop.force THEN 0
    ELSE IF (opt.always_rest \/ loop.count > 0) /\ Exists(Target)
         THEN disk[Target].len ELSE 0

\* restval: the byte that the next try starts from.
Restart(cmd) ==
    IF "LIST" \in cmd \/ loop.force THEN 0
    ELSE IF opt.always_rest /\ Exists(Target) THEN disk[Target].len
    ELSE IF loop.count > 0 THEN loop.qtyread ELSE 0

\* One pass of the loop: getftp is called.
Try ==
    LET cmd == TryCommands
        start == Restart(cmd)
    IN
    /\ pc = "try"
    /\ con' = [con EXCEPT !.cmd = cmd]
    /\ loop' = [loop EXCEPT !.count = @ + 1, !.restval = start, !.qtyread = start]
    /\ get' = [ZeroGet EXCEPT !.csock = con.csock,
                              !.protected = "LOGIN" \notin cmd
                                              /\ "DATA_SECURITY" \in con.st]
    /\ Go(IF "LOGIN" \in cmd THEN "connect" ELSE "cwd")
    /\ UNCHANGED <<opt, site, disk, listing, conns, frames, err, total, faults,
                   listed, failed>>
    /\ answersAsBefore

-----------------------------------------------------------------------------
\* getftp.
Alive == get.csock \in DOMAIN conns
Refuses(command) == command \in site.refuses
Passed == IF loop.f.type = "file" THEN loop.f.size ELSE 0
\* In use at once: control, listening and data socket, and one for each failure.
Descriptors == 1 .. MaxFaults + 3
FreeDescriptor == CHOOSE k \in Descriptors : k \notin DOMAIN conns /\
                                            \A j \in 1 .. k - 1 : j \in DOMAIN conns
Opened(k, kind) ==
    [j \in DOMAIN conns \cup {k} |->
        IF j = k THEN [kind |-> kind, dir |-> Empty, prot |-> FALSE] ELSE conns[j]]

\* Variant for sensitivity checks: the data sockets are forgotten on an error.
Closed_control(how) ==
    CASE how = "all" -> {get.csock}
      [] how = "data" -> {get.dtsock, get.local_sock}
      [] how = "dangling" -> {get.csock, get.dtsock}
      [] how = "none" -> {}

\* Which sockets a return of getftp closes: all of them (con.csock is reset
\* then), those for data, control and data (but con.csock stays), or none.
Closed(how) ==
    CASE how = "all" -> {get.csock, get.dtsock, get.local_sock}
      [] how = "data" -> {get.dtsock, get.local_sock}
      [] how = "dangling" -> {get.csock, get.dtsock}
      [] how = "none" -> {}

\* getftp returns e.
End(how, e) ==
    /\ conns' = [k \in DOMAIN conns \ Closed(how) |-> conns[k]]
    /\ con' = IF how = "all" THEN [con EXCEPT !.csock = 0] ELSE con
    /\ err' = e /\ pc' = "judge"

\* Answers come late on a connection on which getftp has not waited for one: those to
\* AUTH, PBSZ and PROT, and the last one to RETR or LIST when the server has not
\* connected.  Every answer that it reads from then on is the one to an earlier
\* command, and may be any; so are, for all that is claimed here, those on a connection
\* that it has left in the middle of the login.  An answer that the server should not
\* give is a failure, unless answers come late.
Unexpected == IF late THEN UNCHANGED faults ELSE Fault
\* getftp goes by the answer.
Trusting == misled' = (misled \/ late)

unchangedInGetftp == UNCHANGED <<opt, site, loop, frames, total, listed, failed>>
unchangedFiles == UNCHANGED <<disk, listing>>
commandOnly == unchangedInGetftp /\ unchangedFiles /\ UNCHANGED get
commandAnswered == commandOnly /\ UNCHANGED <<conns, err, faults>>

\* What follows a command that the server has answered.
After(stage) ==
    CASE stage = "connect"  -> IF opt.ftps = "implicit" THEN "tls" ELSE "greeting"
      [] stage = "greeting" -> IF opt.ftps = "explicit" THEN "auth" ELSE "login"
      [] stage = "tls"      -> IF opt.ftps = "implicit" THEN "greeting" ELSE "login"
      [] stage = "login"    -> IF get.secure THEN "prot" ELSE "syst"
      [] stage = "prot"     -> "syst"
      [] stage = "syst"     -> "pwd"
      [] stage = "pwd"      -> "type"
      [] stage = "type"     -> "cwd"
      [] stage = "cwd"      -> "size"
      [] stage = "data"     -> IF "RETR" \in con.cmd /\ loop.restval > 0 THEN "rest"
                               ELSE "transfer"
      [] stage = "rest"     -> "transfer"

Connect ==
    /\ pc = "connect"
    /\ \/ LET k == FreeDescriptor IN
          /\ conns' = Opened(k, "control")
          /\ con' = [con EXCEPT !.csock = k]
          /\ get' = [get EXCEPT !.csock = k, !.secure = opt.ftps = "implicit"]
          /\ late' = FALSE
          /\ Go(After("connect")) /\ UNCHANGED <<err, faults>>
       \/ /\ Fault /\ UNCHANGED <<get, late>>
          /\ \E e \in {"HOSTERR", "CONERROR", "CONIMPOSSIBLE"} : End("none", e)
    /\ unchangedInGetftp /\ unchangedFiles /\ UNCHANGED misled

\* What a command over the control connection may come to besides an answer that
\* it knows: these close everything.
Errors(stage) ==
    CASE stage = "greeting" -> {"FTPRERR", "FTPSRVERR"}
      [] stage = "login" -> {"FTPRERR", "WRITEFAILED", "FTPLOGREFUSED", "FTPLOGINC"}
      [] stage \in {"syst", "pwd", "size"} -> {"FTPRERR"}
      [] stage = "type" -> {"FTPRERR", "WRITEFAILED", "FTPUNKNOWNTYPE"}
      [] stage = "data" -> {"FTPRERR", "WRITEFAILED"}
      [] stage \in {"cwd", "rest", "transfer"} -> {"FTPRERR", "WRITEFAILED"}

\* The command is not needed: CWD, SIZE.
Skipped(stage) ==
    \/ stage = "cwd" /\ ("CWD" \notin con.cmd \/ loop.dir = Empty)
    \/ stage = "size" /\ ("RETR" \notin con.cmd \/ Passed > 0)

ControlStages == {"greeting", "login", "syst", "pwd", "type", "cwd", "size",
                  "data", "rest", "transfer"}

\* The server is gone, or it refuses what it should not.
CommandFails ==
    /\ pc \in ControlStages /\ ~Skipped(pc) /\ Alive
    /\ Unexpected /\ \E e \in Errors(pc) : End("all", e)
    /\ commandOnly /\ answersAsBefore

\* The command cannot be written: to a connection that has been reset or, after
\* "dangling", to one that getftp itself has closed.  SYST, PWD and SIZE have no
\* case for it; PORT asks for the address of the socket first.
CannotWrite ==
    /\ pc \in ControlStages \ {"greeting"} /\ ~Skipped(pc)
    /\ IF Alive THEN Fault ELSE UNCHANGED faults
    /\ IF pc \in {"syst", "pwd", "size"} THEN
          err' = "WRITEFAILED" /\ Go("aborted") /\ UNCHANGED <<con, conns>>
       ELSE IF pc = "data" /\ ~opt.ftp_pasv /\ ~Alive THEN End("none", "FTPSYSERR")
       ELSE End("all", "WRITEFAILED")
    /\ commandOnly /\ answersAsBefore

\* The greeting, USER and PASS, PWD, TYPE; SYST, CWD or SIZE not needed.
Answered ==
    /\ \/ pc \in {"greeting", "login", "pwd", "type"} /\ Alive
       \/ pc = "cwd" /\ Skipped("cwd")
    /\ Go(After(pc)) /\ commandAnswered /\ UNCHANGED con /\ answersAsBefore

\* AUTH TLS.  No answer in time is taken for a refusal, which ends the session unless
\* --ftps-fallback-to-ftp is given.
Auth ==
    /\ pc = "auth"
    /\ \/ /\ ~Refuses("AUTH") /\ Go("tls") /\ get' = [get EXCEPT !.secure = TRUE]
          /\ UNCHANGED <<con, conns, err, faults, late>>
       \/ /\ opt.fallback /\ Go("login") /\ UNCHANGED <<get, con, conns, err>>
          /\ \/ Refuses("AUTH") /\ UNCHANGED <<faults, late>>
             \/ Fault /\ late' = TRUE
       \/ /\ ~opt.fallback /\ End("dangling", "FTPNOAUTH") /\ UNCHANGED <<get, late>>
          /\ IF Refuses("AUTH") THEN UNCHANGED faults ELSE Fault
    /\ unchangedInGetftp /\ unchangedFiles /\ UNCHANGED misled

\* The TLS handshake of the control connection and its certificate.
Handshake ==
    /\ pc = "tls"
    /\ \/ Go(After("tls")) /\ UNCHANGED <<con, conns, err, faults>>
       \/ Fault /\ \E e \in {"CONSSLERR", "VERIFCERTERR"} : End("dangling", e)
    /\ commandOnly /\ answersAsBefore

\* PBSZ and PROT.  Only a refusal counts, and leaves the connection open; no answer in
\* time, or a command that cannot be written, is taken for success.
Prot ==
    LET secured == [conns EXCEPT ![get.csock].prot = ~opt.prot_clear] IN
    /\ pc = "prot"
    /\ \/ /\ Refuses("PROT") /\ End("none", "FTPNOPROT")
          /\ late' = TRUE /\ UNCHANGED <<get, faults>>
       \/ /\ \/ ~Refuses("PROT") /\ conns' = secured /\ UNCHANGED <<late, faults>>
             \/ /\ Fault /\ late' = TRUE
                /\ UNCHANGED conns \/ (~Refuses("PROT") /\ conns' = secured)
          /\ get' = [get EXCEPT !.protected = ~opt.prot_clear]
          /\ con' = IF opt.prot_clear THEN con
                    ELSE [con EXCEPT !.st = @ \cup {"DATA_SECURITY"}]
          /\ Go(After("prot")) /\ UNCHANGED err
    /\ unchangedInGetftp /\ unchangedFiles /\ UNCHANGED misled

\* SYST: the system, and the list command that suits it.
Syst ==
    LET answer == IF Refuses("SYST") THEN con.rs ELSE site.system IN
    /\ pc = "syst" /\ Alive
    /\ \E rs \in {answer} \cup (IF late THEN {con.rs, "other"} ELSE {}) :
          /\ misled' = (misled \/ rs # answer)
          /\ con' = [con EXCEPT
                !.rs = rs,
                !.st = @ \cup (IF rs \in {"vms", "l8"} THEN {"CHECK_DONE"} ELSE {})
                         \cup (IF rs = "vms" THEN {"AVOID_LIST_A"} ELSE {})
                         \cup (IF rs = "l8" THEN {"AVOID_LIST"} ELSE {})]
    /\ Go(After("syst")) /\ commandAnswered /\ UNCHANGED late

\* CWD: the server goes to a directory that is there.
Cwd ==
    LET there == loop.dir \in DOMAIN site.list["LIST"] IN
    /\ pc = "cwd" /\ ~Skipped("cwd") /\ Alive
    /\ \/ /\ there \/ late
          /\ conns' = IF there THEN [conns EXCEPT ![get.csock].dir = loop.dir] ELSE conns
          /\ Go(After("cwd")) /\ UNCHANGED <<con, err>>
       \/ (~there \/ late) /\ End("all", "FTPNSFOD")
    /\ commandOnly /\ UNCHANGED faults /\ answersAsBefore

\* The file that the server takes a RETR or SIZE to mean.
Remote == <<conns[get.csock].dir, loop.name>>

\* SIZE, and the end if the file is complete already.
Size ==
    LET size == IF Skipped("size") \/ Refuses("SIZE") \/ Remote \notin DOMAIN site.size
                THEN 0 ELSE site.size[Remote]
        resumed == "RETR" \in con.cmd /\ loop.restval > 0
        anySize == late /\ ~Skipped("size")
    IN
    /\ pc = "size" /\ (Skipped("size") \/ Alive)
    /\ \/ /\ resumed /\ (loop.restval = size \/ anySize)
          /\ End("all", "RETRFINISHED") /\ Trusting
       \/ /\ resumed => loop.restval # size \/ anySize
          /\ Go("data") /\ UNCHANGED <<con, conns, err, misled>>
    /\ commandOnly /\ UNCHANGED <<faults, late>>

-----------------------------------------------------------------------------
\* PASV and the connection to the server's address.
Passive ==
    /\ pc = "data" /\ opt.ftp_pasv /\ Alive
    /\ \/ LET k == FreeDescriptor IN
          /\ ~Refuses("PASV")
          /\ conns' = Opened(k, "data") /\ get' = [get EXCEPT !.dtsock = k]
          /\ Go(After("data")) /\ UNCHANGED <<con, err, faults>>
       \/ /\ Refuses("PASV") \/ late
          /\ End("none", "FTPNOPASV") /\ UNCHANGED <<get, faults>>
       \/ /\ ~Refuses("PASV") \/ late
          /\ Unexpected /\ UNCHANGED get
          /\ \/ End("none", "FTPINVPASV")
             \/ \E e \in {"CONERROR", "CONIMPOSSIBLE"} : End("all", e)
    /\ unchangedInGetftp /\ unchangedFiles /\ answersAsBefore

\* PORT with the address of a new listening socket.
Port ==
    /\ pc = "data" /\ ~opt.ftp_pasv /\ Alive
    /\ \/ LET k == FreeDescriptor IN
          /\ ~Refuses("PORT") \/ late
          /\ conns' = Opened(k, "listen") /\ get' = [get EXCEPT !.local_sock = k]
          /\ Go(After("data")) /\ UNCHANGED <<con, err, faults>>
       \/ /\ Refuses("PORT") \/ late
          /\ End("all", "FTPPORTERR") /\ UNCHANGED <<get, faults>>
       \/ Fault /\ UNCHANGED get /\ End("none", "FTPSYSERR")
    /\ unchangedInGetftp /\ unchangedFiles /\ answersAsBefore

Rest ==
    /\ pc = "rest" /\ Alive
    /\ \E refused \in {Refuses("REST")} \cup (IF late THEN BOOLEAN ELSE {}) :
          get' = [get EXCEPT !.rest_failed = refused]
    /\ Go(After("rest")) /\ answersAsBefore
    /\ unchangedInGetftp /\ unchangedFiles /\ UNCHANGED <<con, conns, err, faults>>

transferred == IF opt.ftp_pasv THEN "open" ELSE "accept"

Retr ==
    /\ pc = "transfer" /\ "RETR" \in con.cmd /\ Alive
    /\ \/ /\ Remote \in DOMAIN site.size \/ late
          /\ Go(transferred) /\ Trusting /\ UNCHANGED <<con, conns, err>>
       \/ /\ Remote \notin DOMAIN site.size \/ late
          /\ End("data", "FTPNSFOD") /\ UNCHANGED misled
    /\ commandOnly /\ UNCHANGED <<faults, late>>

\* ftp_list: "LIST -a" (LIST_a) and then "LIST", without those that are avoided.
ListCommands ==
    IF "AVOID_LIST_A" \in con.st THEN {"LIST"}
    ELSE IF "AVOID_LIST" \in con.st THEN {"LIST_a"} ELSE {"LIST_a", "LIST"}

List ==
    LET known == {c \in ListCommands : ~Refuses(c)} IN
    /\ pc = "transfer" /\ "LIST" \in con.cmd /\ Alive
    /\ \/ /\ known = {} \/ late
          /\ End("data", "FTPNSFOD") /\ UNCHANGED <<get, faults, misled>>
       \/ /\ known # {} /\ Trusting
          /\ \/ /\ get' = [get EXCEPT
                        !.list = IF "LIST_a" \in known THEN "LIST_a" ELSE "LIST"]
                /\ UNCHANGED faults
             \/ /\ known = {"LIST_a", "LIST"} /\ Unexpected
                /\ get' = [get EXCEPT !.list = "LIST"]
          /\ Go(transferred) /\ UNCHANGED <<con, conns, err>>
    /\ unchangedInGetftp /\ unchangedFiles /\ UNCHANGED late

\* The server connects, or getftp waits in vain and has the end of the answer to RETR
\* or LIST still to come.
Accept ==
    /\ pc = "accept"
    /\ \/ LET k == FreeDescriptor IN
          /\ conns' = Opened(k, "data") /\ get' = [get EXCEPT !.dtsock = k]
          /\ Go("open") /\ UNCHANGED <<con, err, faults, late>>
       \/ Fault /\ End("none", "CONERROR") /\ late' = TRUE /\ UNCHANGED get
    /\ unchangedInGetftp /\ unchangedFiles /\ UNCHANGED misled

Appending == loop.restval > 0 /\ "LIST" \notin con.cmd

\* The local file is opened, to append or anew.
Open ==
    /\ pc = "open"
    /\ \/ /\ listing' = IF "LIST" \in con.cmd
                        THEN [command |-> get.list, dir |-> conns[get.csock].dir, len |-> 0]
                        ELSE listing
          /\ disk' = IF "LIST" \in con.cmd \/ (Appending /\ Exists(Target)) THEN disk
                     ELSE Put(Target, [len |-> 0, good |-> TRUE, fresh |-> TRUE])
          /\ Go(IF opt.ftps # "no" /\ get.protected THEN "datatls" ELSE "body")
          /\ UNCHANGED <<con, conns, err, faults>>
       \/ /\ Fault /\ unchangedFiles
          /\ \E e \in {"FOPENERR", "UNLINKERR"} : End("all", e)
    /\ unchangedInGetftp /\ UNCHANGED get /\ answersAsBefore

\* The TLS handshake of the data connection.
DataHandshake ==
    /\ pc = "datatls"
    /\ \/ Go("body") /\ UNCHANGED <<con, conns, err, faults>>
       \/ Fault /\ End("dangling", "CONERROR")
    /\ commandOnly /\ answersAsBefore

\* The bytes that are written when the data end before byte number to: after a
\* refused REST those up to restval come again and are skipped.
Skip(to) ==
    IF get.rest_failed THEN (IF to > loop.restval THEN to - loop.restval ELSE 0)
    ELSE to - loop.restval

First == IF get.rest_failed THEN 0 ELSE loop.restval
RemoteSize ==
    IF "LIST" \in con.cmd THEN Len(site.list[get.list][conns[get.csock].dir])
    ELSE IF Remote \in DOMAIN site.size THEN site.size[Remote] ELSE 0
Last == IF First > RemoteSize THEN First ELSE RemoteSize

\* n bytes get into the local file.  What comes with late answers counts for no good.
Written(n) ==
    /\ loop' = [loop EXCEPT !.qtyread = @ + n]
    /\ IF "LIST" \in con.cmd
       THEN listing' = [listing EXCEPT !.len = n] /\ UNCHANGED disk
       ELSE /\ disk' = [disk EXCEPT ![Target] =
                   [len |-> @.len + n, fresh |-> TRUE,
                    good |-> /\ @.good /\ ~late /\ conns[get.csock].dir = loop.dir
                             /\ n > 0 => @.len = loop.restval]]
            /\ UNCHANGED listing

\* Server and client agree on whether the data connection is encrypted.
Agreed == get.protected = conns[get.csock].prot

\* fd_read_body: the data up to some byte, or the disk is full.
Body ==
    /\ pc = "body"
    /\ \/ \E to \in First .. Last, res \in {0, -1} :
          /\ IF Agreed THEN IF to = Last /\ res = 0 THEN UNCHANGED faults ELSE Fault
             ELSE to = First /\ UNCHANGED faults
          /\ Written(Skip(to))
          /\ get' = [get EXCEPT !.res = res, !.whole = (to = Last /\ Agreed),
                                !.rd_size = Skip(to)]
          /\ conns' = [k \in DOMAIN conns \ Closed("data") |-> conns[k]]
          /\ Go("response") /\ UNCHANGED <<con, err>>
       \/ Fault /\ Written(0) /\ End("all", "FWRITEERR") /\ UNCHANGED get
    /\ UNCHANGED <<opt, site, frames, total, listed, failed>> /\ answersAsBefore

\* __LIST_A_EXPLANATION__: the first listing of a session is made with both
\* commands, to go on with the better one.
Negotiate(st) ==
    LET lists == [st |-> st \cup {"CHECK_DONE"}, again |-> FALSE]
        listsA(again) == [st |-> (st \cup {"CHECK_DONE", "AVOID_LIST"}) \ {"AVOID_LIST_A"},
                          again |-> again]
    IN
    CASE "CHECK_DONE" \in st -> [st |-> st, again |-> FALSE]
      [] "CHECK_DONE" \notin st /\ "AVOID_LIST_A" \in st ->
            (CASE get.rd_size > get.previous_rd_size -> lists
               [] get.rd_size < get.previous_rd_size -> listsA(TRUE)
               [] get.rd_size = get.previous_rd_size ->
                    IF get.rd_size = 0
                    THEN [st |-> st \ {"AVOID_LIST_A"}, again |-> FALSE]
                    ELSE listsA(FALSE))
      [] "CHECK_DONE" \notin st /\ "AVOID_LIST_A" \notin st ->
            IF get.list = "LIST_a"
            THEN [st |-> st \cup {"AVOID_LIST_A"}, again |-> TRUE]
            ELSE [st |-> st \cup {"CHECK_DONE", "AVOID_LIST_A"}, again |-> FALSE]

\* The server says that the transfer is complete.
Completed ==
    LET negotiated == Negotiate(con.st) IN
    /\ pc = "response" /\ Alive
    /\ get.whole \/ get.res = -1 \/ late
    /\ IF get.res = -1 THEN End("none", "FTPRETRINT") /\ UNCHANGED get
       ELSE IF "LIST" \notin con.cmd THEN End("none", "RETRFINISHED") /\ UNCHANGED get
       ELSE /\ con' = [con EXCEPT !.st = negotiated.st]
            /\ IF negotiated.again
               THEN /\ get' = [get EXCEPT !.previous_rd_size = get.rd_size]
                    /\ Go("data") /\ UNCHANGED err
               ELSE err' = "RETRFINISHED" /\ Go("judge") /\ UNCHANGED get
            /\ UNCHANGED conns
    /\ unchangedInGetftp /\ unchangedFiles /\ UNCHANGED faults /\ answersAsBefore

\* It does not answer, or says that the transfer was aborted.
Aborted ==
    /\ pc = "response" /\ Alive
    /\ IF get.whole THEN Unexpected ELSE UNCHANGED faults
    /\ \/ End("all", "FTPRETRINT")
       \/ End("none", "FTPRETRINT")
       \/ /\ (get.protected /\ ~get.whole) \/ (opt.ftps # "no" /\ late)
          /\ End("none", "FTPRESTFAIL")
    /\ commandOnly /\ answersAsBefore

-----------------------------------------------------------------------------
\* ftp_loop_internal after getftp.
Fatal == {"HOSTERR", "CONIMPOSSIBLE", "FWRITEERR", "FOPENERR", "FTPNSFOD", "FTPLOGINC",
          "FTPNOPASV", "FTPNOAUTH", "FTPNOPROT", "UNLINKERR", "CONSSLERR",
          "VERIFCERTERR"}
Transient == {"CONERROR", "FTPSRVERR", "FTPRERR", "WRITEFAILED", "FTPUNKNOWNTYPE",
              "FTPSYSERR", "FTPPORTERR", "FTPLOGREFUSED", "FTPINVPASV"}

\* DONE_CWD after getftp.
WithDoneCwd(c) ==
    [c EXCEPT !.st = IF c.csock = 0 THEN @ \ {"DONE_CWD"} ELSE @ \cup {"DONE_CWD"}]
OnYourOwn == "ON_YOUR_OWN" \in con.st
WithoutControl == [k \in DOMAIN conns \ {con.csock} |-> conns[k]]

\* The transfer is complete, or it was interrupted with all bytes there.
Complete ==
    \/ err = "RETRFINISHED"
    \/ err = "FTPRETRINT" /\ loop.f # NoEntry /\ loop.qtyread = loop.f.size

\* The retrieval fails with e.
GiveUp(e) ==
    /\ err' = e /\ Go("returned")
    /\ failed' = failed \cup {Target}

judging ==
    UNCHANGED <<opt, site, disk, listing, loop, get, frames, faults, listed, late, misled>>

FatalError ==
    /\ pc = "judge" /\ err \in Fatal
    /\ con' = WithDoneCwd(con) /\ GiveUp(err)
    /\ judging /\ UNCHANGED <<conns, total>>

MoreTries == opt.ntry = 0 \/ loop.count < opt.ntry

Retry ==
    /\ pc = "judge" /\ ~Complete /\ err \in Transient \cup {"FTPRETRINT"}
    /\ IF MoreTries
       THEN con' = WithDoneCwd(con) /\ Go("try") /\ UNCHANGED <<conns, err, failed>>
       ELSE /\ IF OnYourOwn
               THEN con' = [con EXCEPT !.csock = 0] /\ conns' = WithoutControl
               ELSE con' = WithDoneCwd(con) /\ UNCHANGED conns
            /\ GiveUp("TRYLIMEXC")
    /\ judging /\ UNCHANGED total

Saved ==
    /\ pc = "judge" /\ Complete
    /\ IF OnYourOwn THEN con' = [con EXCEPT !.csock = 0] /\ conns' = WithoutControl
       ELSE con' = WithDoneCwd(con) /\ UNCHANGED conns
    /\ total' = IF "LIST" \in con.cmd THEN total ELSE total + loop.qtyread - loop.restval
    /\ err' = "RETROK" /\ Go("returned")
    /\ judging /\ UNCHANGED failed

\* "Not as great": an error that the switch has no case for.
Abort ==
    /\ pc = "judge" /\ ~Complete /\ err \notin Fatal \cup Transient \cup {"FTPRETRINT"}
    /\ Go("aborted")
    /\ judging /\ UNCHANGED <<con, conns, err, total, failed>>

-----------------------------------------------------------------------------
\* ftp_retrieve_glob returns e, to ftp_loop or to the ftp_retrieve_dirs of the
\* directory above, which does not look at it.
EndGlob(e) ==
    /\ frames' = SubSeq(frames, 1, Len(frames) - 1)
    /\ IF Len(frames) = 1 THEN err' = e /\ Go("finish") ELSE Go("dirs") /\ UNCHANGED err
WithQuota(e) == IF Exceeded THEN "QUOTEXC" ELSE e

globbing == UNCHANGED <<opt, site, listing, conns, get, total, faults, late, misled>>

\* Which lines of a listing stay: names that are not rejected, match, and do not
\* come again further down.
Kept(list, action) ==
    {i \in DOMAIN list :
        /\ list[i].type = "dir" \/ list[i].name \notin opt.rejects
        /\ \A j \in DOMAIN list : j > i => list[j].name # list[i].name
        /\ action = "GLOB_GETALL" \/ list[i].name \in opt.names}
\* Variant for sensitivity checks: a line is left out.
Following_skipping(is, i) ==
    IF \E j \in is : j > i + 1
    THEN CHOOSE j \in is : j > i + 1 /\ \A k \in is : k > i + 1 => j <= k ELSE 0

\* Variant for sensitivity checks: the list does not move on.
Following_again(is, i) ==
    IF \E j \in is : j >= i THEN CHOOSE j \in is : j >= i /\ \A k \in is : k >= i => j <= k
    ELSE 0

\* The next one of the lines after i.
Following(is, i) == IF \E j \in is : j > i
                    THEN CHOOSE j \in is : j > i /\ \A k \in is : k > i => j <= k
                    ELSE 0

ListingRead == SubSeq(site.list[listing.command][listing.dir], 1, listing.len)

\* A single file, also the one that GLOB_GETONE did not see in the listing.
ReturnOwn ==
    /\ pc = "returned" /\ loop.caller = "own"
    /\ IF frames = <<>> THEN Go("finish") /\ UNCHANGED <<err, frames>> ELSE EndGlob(err)
    /\ globbing /\ UNCHANGED <<disk, con, loop, listed, failed>>

\* ftp_get_listing returns, and ftp_retrieve_glob goes through the lines.
ReturnListing ==
    LET c == [con EXCEPT !.cmd = @ \ {"LIST"}]
        frame == [Top EXCEPT !.list = ListingRead]
        kept == Kept(ListingRead, Top.action)
    IN
    /\ pc = "returned" /\ loop.caller = "listing"
    /\ IF frames = <<>> THEN
          con' = c /\ Go("finish") /\ UNCHANGED <<err, frames, loop, listed>>
       ELSE IF err # "RETROK" THEN
          con' = c /\ EndGlob(err) /\ UNCHANGED <<loop, listed>>
       ELSE IF kept # {} THEN
          /\ con' = [c EXCEPT !.cmd = @ \cup {"RETR"}]
          /\ frames' = SetTop(frame) /\ Go("files")
          /\ listed' = [d \in DOMAIN listed \cup {Top.dir} |->
                IF d = Top.dir THEN {ListingRead[i] : i \in kept} ELSE listed[d]]
          /\ UNCHANGED <<err, loop>>
       ELSE IF Top.action = "GLOB_GETONE" THEN
          /\ con' = [c EXCEPT !.st = @ \cup {"ON_YOUR_OWN"}]
          /\ \E n \in opt.names : Call("own", Top.dir, n, NoEntry, FALSE)
          /\ UNCHANGED <<err, frames, listed>>
       ELSE con' = c /\ EndGlob(WithQuota("RETROK")) /\ UNCHANGED <<loop, listed>>
    /\ globbing /\ UNCHANGED <<disk, failed>>

\* -N: the local file is not older and, where the server can tell, as long.
NoNewer(target, f) ==
    /\ Exists(target) /\ disk[target].fresh
    /\ con.rs \in {"unix", "l8"} => disk[target].len = f.size

\* Whether ftp_retrieve_list goes on to the directories.
Descends == opt.recursive /\ (opt.reclevel = 0 \/ Len(frames) < opt.reclevel)

\* ftp_retrieve_list: the next file of the list, or the end of its files.
NextFile ==
    LET i == Following(Kept(Top.list, Top.action), Top.at)
        f == Top.list[i]
        target == <<Top.dir, f.name>>
        force == Top.force \/ (opt.timestamping /\ Exists(target) /\ ~disk[target].fresh)
    IN
    /\ pc = "files"
    /\ IF i = 0 THEN
          /\ IF Descends THEN frames' = SetTop([Top EXCEPT !.at = 0]) /\ Go("dirs")
                              /\ UNCHANGED err
             ELSE EndGlob(WithQuota(Top.err))
          /\ UNCHANGED <<con, loop>>
       ELSE IF Exceeded THEN EndGlob("QUOTEXC") /\ UNCHANGED <<con, loop>>
       ELSE IF f.type = "file" /\ ~(opt.timestamping /\ NoNewer(target, f)) THEN
          /\ frames' = SetTop([Top EXCEPT !.at = i, !.force = force])
          /\ Call("file", Top.dir, f.name, f, force) /\ UNCHANGED <<con, err>>
       ELSE
          /\ frames' = SetTop([Top EXCEPT !.at = i, !.err = "RETROK"])
          /\ con' = [con EXCEPT !.cmd = @ \ {"CWD", "LOGIN"}]
          /\ UNCHANGED <<pc, err, loop>>
    /\ globbing /\ UNCHANGED <<disk, listed, failed>>

\* A file of the list has been retrieved, or not: it is stamped either way, and
\* some errors end the list.
ReturnFile ==
    LET broken == err \in {"HOSTERR", "FWRITEERR"} IN
    /\ pc = "returned" /\ loop.caller = "file"
    /\ frames' = SetTop([Top EXCEPT !.err = err,
                                    !.at = IF broken THEN Len(Top.list) ELSE @])
    /\ failed' = IF broken
                 THEN failed \cup {<<Top.dir, Top.list[i].name>> :
                                      i \in Top.at + 1 .. Len(Top.list)}
                 ELSE failed
    /\ disk' = IF Exists(Target) THEN [disk EXCEPT ![Target].fresh = TRUE] ELSE disk
    /\ con' = IF broken THEN con ELSE [con EXCEPT !.cmd = @ \ {"CWD", "LOGIN"}]
    /\ Go("files")
    /\ globbing /\ UNCHANGED <<loop, err, listed>>

\* ftp_retrieve_dirs: the next directory of the list.
NextDir ==
    LET dirs == {i \in Kept(Top.list, Top.action) : Top.list[i].type = "dir"}
        i == Following(dirs, Top.at)
        dir == Top.list[i].name
    IN
    /\ pc = "dirs"
    /\ IF i = 0 \/ Exceeded THEN EndGlob(WithQuota("RETROK")) /\ UNCHANGED <<con, loop>>
       ELSE /\ frames' = Append(SetTop([Top EXCEPT !.at = i]), Frame(dir, "GLOB_GETALL"))
            /\ con' = Listing([con EXCEPT !.st = @ \ {"DONE_CWD"}])
            /\ Call("listing", dir, Empty, NoEntry, FALSE) /\ UNCHANGED err
    /\ globbing /\ UNCHANGED <<disk, listed, failed>>

\* ftp_loop: "If a connection was left, quench it."
Finish ==
    /\ pc = "finish"
    /\ conns' = WithoutControl /\ Go("done")
    /\ UNCHANGED <<opt, site, disk, listing, con, loop, get, frames, err, total, faults,
                   listed, failed>>
    /\ answersAsBefore

Stopped == pc \in {"done", "aborted"} /\ UNCHANGED vars

Getftp ==
    \/ Connect \/ CommandFails \/ CannotWrite \/ Answered \/ Auth \/ Handshake \/ Prot
    \/ Syst \/ Cwd \/ Size \/ Passive \/ Port \/ Rest \/ Retr \/ List \/ Accept \/ Open
    \/ DataHandshake \/ Body \/ Completed \/ Aborted

Next ==
    \/ FtpLoop \/ Enter \/ Try \/ Getftp
    \/ FatalError \/ Retry \/ Saved \/ Abort
    \/ ReturnOwn \/ ReturnListing \/ NextFile \/ ReturnFile \/ NextDir \/ Finish
    \/ Stopped

Spec == Init /\ [][Next]_vars

\* The program runs on until it ends: the server answers or the connection times out.
FairSpec == Spec /\ WF_vars(Next)

-----------------------------------------------------------------------------
Stages == ControlStages \cup {"start", "enter", "try", "connect", "auth", "tls", "prot",
           "accept", "open", "datatls", "body", "response", "judge", "returned", "files",
           "dirs", "finish", "done", "aborted"}

\* The variables have their types: at most one socket is lost by each failure.
TypeOK ==
    /\ pc \in Stages
    /\ con.csock \in {0} \cup Descriptors /\ DOMAIN conns \subseteq Descriptors
    /\ con.cmd \subseteq {"LOGIN", "CWD", "RETR", "LIST"}
    /\ con.st \subseteq {"ON_YOUR_OWN", "DONE_CWD", "AVOID_LIST_A", "AVOID_LIST",
                         "CHECK_DONE", "DATA_SECURITY"}
    /\ \A f \in DOMAIN disk : disk[f].len \in Nat
    /\ loop.restval \in Nat /\ loop.qtyread \in Nat /\ loop.count \in Nat
    /\ total \in Nat /\ faults \in 0 .. MaxFaults
    /\ late \in BOOLEAN /\ misled \in BOOLEAN

\* A file that is reported as saved is the remote one, whole: whatever was left of
\* earlier tries, wherever they broke off, and whether or not REST is known
\* (ftp_loop_internal's restval and qtyread, getftp's rb_skip_startpos); unless getftp
\* once went by the late answer to another command.
SavedWhole ==
    ~misled /\ pc = "returned" /\ err = "RETROK" /\ loop.count > 0
        /\ "LIST" \notin con.cmd =>
        disk[Target].good /\ disk[Target].len = site.size[Target]

\* getftp asks the server for a file or a listing.
Asking == pc \in {"data", "rest", "transfer", "accept", "open", "datatls", "body"}

\* Nothing is asked for over a connection that is in another directory than the
\* one of the file or listing: DONE_CWD, DO_CWD and DO_LOGIN are kept from try to
\* try, from file to file and from directory to directory.  Only where answers come
\* late, on the connection at hand, may a refused CWD go unnoticed; the next connection
\* is in its place again.
RightDirectory ==
    ~late /\ Asking /\ Alive =>
        conns[get.csock].dir = loop.dir

\* The descriptor kept for the next file is a control connection or it is closed,
\* never another socket that was given its number (several returns of getftp close
\* con.csock and keep its number); and in passive mode no socket outlives ftp_loop.
SocketsSound ==
    /\ TypeOK
    /\ \A k \in {con.csock, get.csock} \cap DOMAIN conns :
          pc \notin {"finish", "done"} => conns[k].kind = "control"
    /\ pc = "done" /\ opt.ftp_pasv => conns = [k \in {} |-> {}]

Whole(d, n) ==
    /\ Exists(<<d, n>>)
    /\ <<d, n>> \in DOMAIN site.size => disk[<<d, n>>].len = site.size[<<d, n>>]

\* A recursive retrieval leaves out nothing: at the end every file of every list is
\* there, whole, or was given up, and so was every directory of which no list was made,
\* unless nothing in it is wanted or the quota or the depth ends it.  (-nc, and -N where
\* sizes are not compared, trust the local files; and see SavedWhole.)
NothingForgotten ==
    ~misled /\ pc = "done" /\ ~Exceeded /\ ~opt.noclobber =>
        \A d \in DOMAIN listed : \A e \in listed[d] :
            /\ e.type = "file" /\ (opt.timestamping => con.rs \in {"unix", "l8"}) =>
                    Whole(d, e.name) \/ <<d, e.name>> \in failed
            /\ e.type = "dir" /\ opt.recursive /\ opt.reclevel = 0 =>
                    \/ e.name \in DOMAIN listed \/ <<e.name, Empty>> \in failed
                    \/ \E c \in {"LIST_a", "LIST"} :
                          Kept(site.list[c][e.name], "GLOB_GETALL") = {}

\* Every retrieval ends when the number of tries is bounded.
Terminates == <>(pc \in {"done", "aborted"})

\* Claimed by ftp_loop_internal's switch, whose last case is abort (): no other
\* error comes from getftp.
NeverAborts == pc # "aborted"

\* Claimed by getftp's comment on PBSZ and PROT, "these commands must work.  If they
\* don't work, that's an error": no session goes on to SYST without their answers.
ProtAnswered == pc = "syst" /\ get.secure => ~late

\* Claimed by ftp.h of DONE_CWD, "The current working directory is correct", for all
\* connections.
AlwaysRightDirectory == Asking /\ Alive => conns[get.csock].dir = loop.dir

\* Claimed by doc/wget.texi on time-stamping: "if the remote file is more recent,
\* Wget will proceed to fetch it", so that no file that is left behind its remote
\* one may bear the time of that.
StampedIsCurrent ==
    pc = "done" /\ opt.timestamping => \A f \in DOMAIN disk : disk[f].fresh => disk[f].good

\* Claimed by doc/wget.texi on the exit status: 0 is "No problems occurred", and of
\* recursive downloads that they returned 0 "regardless of any issues encountered"
\* before version 1.12.
StatusTells == pc = "done" /\ err = "RETROK" => failed = {}
=============================================================================
