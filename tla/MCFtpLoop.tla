----------------------------- MODULE MCFtpLoop ------------------------------
(* Instances of FtpLoop: a server with a file, a directory and a hidden file.  *)
EXTENDS FtpLoop

File(n, s) == [name |-> n, type |-> "file", size |-> s]
Dir(n) == [name |-> n, type |-> "dir", size |-> 0]

\* The directory of the URL is the login directory of one server and pub of others.
Sizes(top) == [f \in {<<top, "a">>, <<top, ".h">>, <<"sub", "c">>} |->
                  IF f = <<top, "a">> THEN 2 ELSE 1]
Lists(top, hidden) ==
    [d \in {Empty, top, "sub", "dull"} |->
        CASE d = top -> <<File("a", 2), Dir("sub"), File("gone", 1)>> \o hidden
          [] d = "sub" -> <<File("c", 1)>>
          [] d = "dull" -> <<File("gone", 1)>>
          [] OTHER -> <<>>]
Server(top, system, refuses) ==
    [size |-> Sizes(top), system |-> system, refuses |-> refuses,
     list |-> [c \in {"LIST_a", "LIST"} |->
                  Lists(top, IF c = "LIST" THEN <<>> ELSE <<File(".h", 1), Dir("dull")>>)]]

MCSites == {Server("pub", "other", {"REST"}), Server("pub", "unix", {"SIZE", "LIST_a"}),
            Server(Empty, "l8", {}), Server("pub", "vms", {"AUTH"}),
            Server("pub", "unix", {"PASV", "PORT", "PROT"})}

Base == [job |-> "file", dir |-> "pub", action |-> "GLOB_GETONE", names |-> {"a"},
         rejects |-> {}, ntry |-> 2, always_rest |-> FALSE, noclobber |-> FALSE,
         timestamping |-> FALSE, ftp_pasv |-> TRUE, recursive |-> FALSE,
         reclevel |-> 0, quota |-> 0, ftps |-> "no", fallback |-> FALSE,
         prot_clear |-> FALSE]
Glob == [Base EXCEPT !.job = "glob", !.action = "GLOB_GLOBALL",
                     !.names = {"a", "gone", "sub", "dull", ".h"}]
Recursive == [Glob EXCEPT !.recursive = TRUE]

MCOpts == {
    Base,
    [Base EXCEPT !.always_rest = TRUE, !.ftp_pasv = FALSE, !.ntry = 3],
    [Base EXCEPT !.job = "index", !.noclobber = TRUE],
    [Base EXCEPT !.noclobber = TRUE],
    [Base EXCEPT !.ftps = "explicit", !.fallback = TRUE],
    [Base EXCEPT !.ftps = "implicit", !.dir = Empty],
    Recursive,
    [Recursive EXCEPT !.dir = Empty, !.quota = 1],
    [Recursive EXCEPT !.reclevel = 1, !.timestamping = TRUE],
    [Recursive EXCEPT !.ftps = "explicit", !.rejects = {"gone"}, !.ntry = 1],
    [Glob EXCEPT !.ftps = "explicit", !.ftp_pasv = FALSE, !.prot_clear = TRUE,
                 !.rejects = {"gone", ".h"}],
    [Glob EXCEPT !.action = "GLOB_GETONE", !.names = {".h"}, !.ftps = "explicit"],
    [Glob EXCEPT !.names = {"nothing"}, !.ftp_pasv = FALSE, !.prot_clear = TRUE]}

\* Nothing; the first byte of a; an old file of the same length.
MCDisks == {
    [f \in {} |-> {}],
    [f \in {<<"pub", "a">>} |-> [len |-> 1, good |-> TRUE, fresh |-> TRUE]],
    [f \in {<<"pub", "a">>} |-> [len |-> 2, good |-> FALSE, fresh |-> FALSE]]}
=============================================================================
