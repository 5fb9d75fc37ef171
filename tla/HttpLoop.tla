------------------------------ MODULE HttpLoop ------------------------------
(***************************************************************************)
(* One HTTP retrieval: http_loop (src/src/http.c) with the parts of        *)
(* gethttp that decide which bytes end up in which local file.             *)
(*                                                                         *)
(* The remote document is one unchanging sequence of Size bytes.  A local  *)
(* file is abstracted to the number of bytes it holds, whether those bytes *)
(* are the first bytes of the document ("good"), and whether its           *)
(* modification time is at least the document's Last-Modified ("fresh").   *)
(* Bytes are only ever appended to an open file, and an append keeps a     *)
(* file good exactly when the first appended byte is the document's byte   *)
(* number len.                                                             *)
(*                                                                         *)
(* The server and the network are the environment: each request is        *)
(* answered by some response that is honest about the document, or fails;  *)
(* a body may be cut at any byte; wget itself may be killed at any step    *)
(* and started again with the same command line.  The connection cache     *)
(* and the byte-level transfer loop are modules of their own.              *)
(***************************************************************************)
EXTENDS Integers, Sequences, FiniteSets

CONSTANTS
    Size,      \* length of the remote document
    Codes,     \* status codes the server may answer with
    Opts,      \* the command lines considered
    Disks,     \* the possible contents of the directory beforehand
    Sites,     \* how the server may describe the document
    MaxRuns    \* how often the same command is started (kills, reruns)

ASSUME SizeAssumption == Size \in Nat /\ MaxRuns \in Nat /\ Codes \subseteq Nat

(***************************************************************************)
(* Names.  A local name is the sequence of suffixes that the code has      *)
(* appended to the name derived from the URL.                              *)
(***************************************************************************)
Base == <<>>
Tmp == 0                          \* ".tmp"; a number k > 0 stands for ".k"
Html == -1                        \* ".html"
OutDoc == <<-2>>                  \* the argument of -O
NoName == <<-3>>                  \* a NULL local_file

NoFile == [len |-> -1, good |-> TRUE, fresh |-> FALSE]
Empty == [len |-> 0, good |-> TRUE, fresh |-> TRUE]

(***************************************************************************)
(* The combinations of options that main lets through.                     *)
(***************************************************************************)
OptionsOk(o) ==
    /\ ~(o.timestamping /\ o.noclobber)
    /\ o.output_document => ~o.timestamping
    /\ o.warc => ~(o.noclobber \/ o.timestamping \/ o.spider \/ o.always_rest
                     \/ o.start_pos >= 0)
    /\ o.start_pos >= 0 => ~o.always_rest

ASSUME OptsAssumption ==
    \A o \in Opts : /\ OptionsOk(o)
                    /\ o.ntry \in Nat
                    /\ o.start_pos \in Int
                    /\ o.warc \in BOOLEAN

\* A local file as the model sees it.
Files == [len : Nat, good : BOOLEAN, fresh : BOOLEAN]

ASSUME DisksAssumption ==
    \A d \in Disks : /\ d \in [DOMAIN d -> Files] /\ IsFiniteSet(DOMAIN d)
                     /\ \A f \in DOMAIN d : d[f].good => d[f].len <= Size

ASSUME SitesAssumption ==
    Sites \subseteq [html : BOOLEAN, last_modified : BOOLEAN, length : BOOLEAN]

VARIABLES
    opt,        \* the options of this command line, fixed
    site,       \* how the server describes the document, fixed
    disk,       \* the local files: a function on the names that exist
    pc,         \* where http_loop / gethttp stands
    loop,       \* the locals of http_loop
    hs,         \* struct http_stat, shared by http_loop and gethttp
    local_file, \* its member local_file
    dt,         \* the flags of *dt
    auth_finished,   \* gethttp: credentials were already sent
    rsp,        \* the response being handled by gethttp
    body,       \* the transfer in progress (read_response_body)
    err,        \* what gethttp returned
    ret,        \* what http_loop returns
    requests,   \* history: calls of gethttp in this run
    had,        \* history: the disk when this run started
    runs        \* history: how often wget was started

vars == <<opt, site, disk, pc, loop, hs, local_file, dt, auth_finished, rsp, body,
          err, ret, requests, had, runs>>

Exists(f) == f \in DOMAIN disk
Put(f, file) == [g \in DOMAIN disk \cup {f} |-> IF g = f THEN file ELSE disk[g]]

ALLOW_CLOBBER ==
    \/ opt.noclobber \/ opt.always_rest \/ opt.timestamping \/ opt.dirstruct
    \/ opt.output_document \/ opt.backups

\* The first of f, f.1, f.2, ... that does not exist.
unique_name(f) ==
    IF ~Exists(f) THEN f
    ELSE LET free == {k \in 1 .. Cardinality(DOMAIN disk) + 1 :
                        ~Exists(Append(f, k))}
         IN  Append(f, CHOOSE k \in free : \A j \in free : k <= j)

url_file_name == IF ALLOW_CLOBBER THEN Base ELSE unique_name(Base)

\* Variant for sensitivity checks: the new name is not looked at.
ensure_extension_blind(f) ==
    IF f # <<>> /\ f[Len(f)] = Html THEN f ELSE Append(f, Html)

\* -E: tack on ".html" unless the name has it, or ".NUMBER.html" when that
\* name is taken and must not be overwritten.
ensure_extension(f) ==
    LET free == {k \in 1 .. Cardinality(DOMAIN disk) + 1 :
                   ~Exists(f \o <<k, Html>>)}
    IN  IF f # <<>> /\ f[Len(f)] = Html THEN f
        ELSE IF ALLOW_CLOBBER \/ ~Exists(Append(f, Html)) THEN Append(f, Html)
        ELSE f \o <<CHOOSE k \in free : \A j \in free : k <= j, Html>>

\* Remember the size and the time of f if it exists.
set_file_timestamp(h, f) ==
    IF Exists(f) THEN [h EXCEPT !.orig = disk[f], !.timestamp_checked = TRUE]
    ELSE h

-----------------------------------------------------------------------------
ZeroStat == [len |-> 0, contlen |-> 0, res |-> 0, restval |-> 0,
             statcode |-> 0, orig |-> NoFile,
             timestamp_checked |-> FALSE, existence_checked |-> FALSE,
             newloc |-> FALSE, remote_time |-> FALSE]

ZeroLoop == [count |-> 0, got_head |-> FALSE, got_name |-> FALSE,
             send_head_first |-> FALSE, force_full_retrieve |-> FALSE,
             tmr |-> FALSE]

\* A response head: status, Content-Length, start of Content-Range, whether
\* there is a Last-Modified, whether it is HTML, whether there is a Location.
Response(code, clen, crange, last_modified, html, location) ==
    [code |-> code, clen |-> clen, crange |-> crange,
     last_modified |-> last_modified, html |-> html, location |-> location]
NoRsp == Response(0, -1, 0, FALSE, FALSE, FALSE)
NoBody == [open |-> FALSE, pos |-> 0, skip |-> 0, read |-> 0, toread |-> -1,
           written |-> 0, doc |-> TRUE]

Init ==
    /\ opt \in Opts
    /\ site \in Sites
    /\ disk \in Disks
    /\ pc = "main"
    /\ loop = ZeroLoop
    /\ hs = ZeroStat
    /\ local_file = NoName
    /\ dt = {}
    /\ auth_finished = FALSE
    /\ rsp = NoRsp
    /\ body = NoBody
    /\ err = "RETROK"
    /\ ret = "TRYLIMEXC"
    /\ requests = 0
    /\ had = disk
    /\ runs = 1

(***************************************************************************)
(* main: -O opens the output stream once, for the whole run, appending     *)
(* with -c and truncating without.                                         *)
(***************************************************************************)
OpenOutputDocument ==
    /\ pc = "main"
    /\ ~(opt.output_document /\ opt.noclobber /\ Exists(OutDoc))
    /\ pc' = "enter"
    /\ had' = disk
    /\ disk' = IF ~opt.output_document THEN disk
               ELSE IF opt.always_rest /\ Exists(OutDoc) THEN disk
               ELSE Put(OutDoc, Empty)
    /\ UNCHANGED <<opt, site, loop, hs, local_file, dt, auth_finished, rsp,
                   body, err, ret, requests, runs>>

\* Leave http_loop with the given value.
Return(value) == /\ pc' = "done"
                 /\ ret' = value

(***************************************************************************)
(* http_loop up to the loop: choose the name when it is known, stop when   *)
(* -nc finds it, decide on a preliminary HEAD or a conditional GET.        *)
(***************************************************************************)
EnterHttpLoop ==
    LET named == opt.output_document \/ ~opt.content_disposition
        name == IF opt.output_document THEN OutDoc
                ELSE IF named THEN url_file_name ELSE NoName
        head0 == \/ opt.spider
                 \/ opt.content_disposition /\ opt.always_rest
                 \/ opt.metalink_over_http
        conditional == /\ opt.timestamping /\ opt.if_modified_since
                       /\ ~head0 /\ named /\ Exists(name)
        head == \/ head0
                \/ /\ opt.timestamping /\ ~conditional
                   /\ opt.content_disposition \/ Exists(name)
    IN  /\ pc = "enter"
        /\ loop' = [ZeroLoop EXCEPT !.got_name = named,
                                    !.send_head_first = head,
                                    !.force_full_retrieve = opt.warc]
        /\ hs' = IF conditional THEN set_file_timestamp(ZeroStat, name)
                 ELSE ZeroStat
        /\ local_file' = name
        /\ IF named /\ Exists(name) /\ opt.noclobber /\ ~opt.output_document
           THEN /\ Return("RETROK")
                /\ UNCHANGED dt
           ELSE /\ pc' = "top"
                /\ dt' = (IF conditional THEN {"IF_MODIFIED_SINCE"} ELSE {})
                    \cup (IF opt.metalink_over_http THEN {"METALINK_METADATA"}
                          ELSE {})
                /\ UNCHANGED ret
        /\ UNCHANGED <<opt, site, disk, auth_finished, rsp, body, err, requests,
                       had, runs>>

(***************************************************************************)
(* The byte a try starts from, as decided at the top of the loop.          *)
(***************************************************************************)
Restart(count) ==
    IF loop.force_full_retrieve THEN hs.len
    ELSE IF opt.start_pos >= 0 THEN opt.start_pos
    ELSE IF opt.always_rest /\ loop.got_name /\ Exists(local_file)
         THEN disk[local_file].len
    ELSE IF count <= 1 THEN 0
    ELSE IF hs.len < hs.restval THEN hs.restval - hs.len
    ELSE hs.len

(***************************************************************************)
(* One pass of the loop up to the connection: the count, HEAD or GET, the  *)
(* restart position, and what gethttp resets in struct http_stat.          *)
(***************************************************************************)
StartTry ==
    /\ pc = "top"
    /\ pc' = "connect"
    /\ loop' = [loop EXCEPT !.count = @ + 1]
    /\ dt' = IF loop.send_head_first /\ ~loop.got_head
             THEN dt \cup {"HEAD_ONLY"} ELSE dt \ {"HEAD_ONLY"}
    /\ hs' = [hs EXCEPT !.restval = Restart(loop.count + 1),
                        !.len = 0, !.contlen = -1, !.res = -1,
                        !.newloc = FALSE, !.remote_time = FALSE]
    /\ auth_finished' = FALSE
    /\ requests' = requests + 1
    /\ rsp' = NoRsp
    /\ body' = NoBody
    /\ UNCHANGED <<opt, site, local_file, disk, err, ret, had, runs>>

-----------------------------------------------------------------------------
(***************************************************************************)
(* The environment's answers.                                              *)
(***************************************************************************)
PageLen == 1                      \* length of an error page

\* The whole document, a part of it, an error page with or without a
\* Content-Length, and answers without a body.
DocAnswer(code, clen, crange) ==
    Response(code, clen, crange, site.last_modified, site.html, FALSE)
Whole == {DocAnswer(200, IF site.length THEN Size ELSE -1, 0)}
Parts == {DocAnswer(206, Size - k, k) : k \in 0 .. Size - 1}
Pages(clen) == {Response(c, clen, 0, FALSE, TRUE, FALSE) : c \in Codes}
Bare(location) ==
    {Response(c, -1, 0, FALSE, FALSE, location) : c \in {301, 304, 416}}

\* What a server holding the document may answer to the pending request.
\* It may ignore a Range, or answer another range than the one asked for.
Answers ==
    {r \in Whole \cup Parts :
        r.code \in Codes /\ (r.code = 206 => hs.restval > 0)}
    \cup {r \in Pages(-1) \cup Pages(PageLen) :
            r.code \notin {200, 206, 301, 304, 416}}
    \cup {r \in Bare(TRUE) \cup Bare(FALSE) :
            /\ r.code \in Codes
            /\ r.location => r.code = 301
            /\ r.code = 416 => hs.restval > 0 /\ hs.restval >= Size
            /\ r.code = 304 => "IF_MODIFIED_SINCE" \in dt /\ hs.orig.fresh}

\* gethttp returns value with the given http_stat, name and *dt.
Gethttp(value, h, name, flags) ==
    /\ err' = value
    /\ hs' = h
    /\ local_file' = name
    /\ dt' = flags
    /\ pc' = "judge"

(***************************************************************************)
(* No usable connection: the host or the connection fails, the request     *)
(* cannot be written, or the WARC file cannot.                             *)
(***************************************************************************)
ConnectFails ==
    /\ pc = "connect"
    /\ \E e \in {"CONERROR", "HOSTERR", "WRITEFAILED", "CONIMPOSSIBLE"}
                 \cup (IF opt.warc THEN {"WARC_ERR"} ELSE {}) :
          Gethttp(e, hs, local_file, dt)
    /\ UNCHANGED <<opt, site, disk, loop, auth_finished, rsp, body, ret, requests,
                   had, runs>>

\* The request is sent; the outcome of the previous try is forgotten.
SendRequest ==
    /\ pc = "connect"
    /\ pc' = "sent"
    /\ dt' = dt \ {"RETROKF"}
    /\ UNCHANGED <<opt, site, local_file, disk, loop, hs, auth_finished, rsp, body, err, ret,
                   requests, had, runs>>

\* The connection ends or breaks before a whole response head arrived.
HeadFails ==
    /\ pc = "sent"
    /\ \E e \in {"HEOF", "HERR"} : Gethttp(e, hs, local_file, dt)
    /\ UNCHANGED <<opt, site, disk, loop, auth_finished, rsp, body, ret, requests,
                   had, runs>>

\* A response head arrives (10x responses are skipped by the code).
ReadHead ==
    /\ pc = "sent"
    /\ \E r \in Answers : rsp' = r
    /\ pc' = "head"
    /\ UNCHANGED <<opt, site, local_file, disk, loop, hs, dt, auth_finished, body, err, ret,
                   requests, had, runs>>

-----------------------------------------------------------------------------
(***************************************************************************)
(* gethttp from the response head to the body, in the order of the code.   *)
(***************************************************************************)
Temporary == opt.temporary \/ opt.spider

\* The name to save under, http_stat, and whether -nc makes all this unneeded.
check_file_output ==
    LET name0 == IF local_file = NoName THEN url_file_name ELSE local_file
        name1 == IF Temporary THEN Append(name0, Tmp) ELSE name0
        taken == ~hs.existence_checked /\ Exists(name1)
        name2 == IF taken /\ ~ALLOW_CLOBBER THEN unique_name(name1) ELSE name1
        checked == [hs EXCEPT !.existence_checked = TRUE]
    IN  IF taken /\ opt.noclobber /\ ~opt.output_document
        THEN [unneeded |-> TRUE, name |-> name1, hs |-> hs]
        ELSE [unneeded |-> FALSE, name |-> name2,
              hs |-> IF opt.timestamping /\ ~hs.timestamp_checked
                     THEN set_file_timestamp(checked, name2) ELSE checked]

\* http_stat and *dt once the headers have been read.
Headers ==
    [check_file_output.hs EXCEPT !.statcode = rsp.code,
                                 !.newloc = rsp.location,
                                 !.remote_time = rsp.last_modified]
Success == rsp.code \in {200, 204, 206}
Flags == IF Success THEN dt \cup {"RETROKF"} ELSE dt

\* http_stat after the body of an uninteresting response was dealt with: with
\* a WARC file its n bytes are read, and counted in len, with result r;
\* otherwise it is skipped or cut off.
Drained(h, n, r) ==
    IF opt.warc THEN [h EXCEPT !.len = h.restval + n, !.res = r] ELSE h
PageReads == 0 .. PageLen
PageResults == {-1, 0}

\* "In case the caller cares to look": nothing was or will be saved.
Unwanted(h) == [h EXCEPT !.len = 0, !.res = 0, !.restval = 0]

\* Which of gethttp's exits the response takes; each is tested only when the
\* ones above it did not apply.
Exit ==
    LET h == Headers
        conditional == "IF_MODIFIED_SINCE" \in dt
    IN  IF "METALINK_METADATA" \in dt THEN "metalink"
        ELSE IF rsp.code = 401 THEN "auth"
        ELSE IF check_file_output.unneeded THEN "exists"
        ELSE IF rsp.code = 204 THEN "no content"
        ELSE IF rsp.code = 301 THEN "redirect"
        ELSE IF \/ conditional /\ rsp.code = 304
                \/ /\ conditional /\ rsp.code = 200 /\ h.remote_time
                   /\ h.orig.fresh
                   /\ rsp.clen = -1 \/ rsp.clen = h.orig.len
             THEN "not modified"
        ELSE IF \/ rsp.code = 416
                \/ /\ ~opt.timestamping /\ h.restval > 0 /\ rsp.code = 200
                   /\ rsp.crange = 0 /\ rsp.clen >= 0 /\ h.restval >= rsp.clen
             THEN "fully retrieved"
        ELSE IF \/ rsp.crange # 0 /\ rsp.crange # h.restval
                \/ rsp.code = 206 /\ rsp.crange = 0 /\ h.restval > 0
             THEN "wrong range"
        ELSE IF \/ ~Success /\ ~opt.content_on_error
                \/ "HEAD_ONLY" \in dt
                \/ opt.spider /\ ~opt.recursive
             THEN "no body"
        ELSE "body"

\* The document type, and the name once -E has seen the Content-Type.
TypedFlags == IF rsp.html THEN Flags \cup {"TEXTHTML"}
              ELSE Flags \ {"TEXTHTML"}
SaveName == IF opt.adjust_extension /\ rsp.html
            THEN ensure_extension(check_file_output.name)
            ELSE check_file_output.name

HeadUnchanged == UNCHANGED <<opt, site, disk, loop, auth_finished, rsp, body, ret,
                             requests, had, runs>>

MetalinkHead ==
    /\ pc = "head" /\ Exit = "metalink"
    /\ Gethttp("RETR_WITH_METALINK", hs, local_file, dt)
    /\ HeadUnchanged

\* Variant for sensitivity checks: auth_finished is never set.
RetryWithAuth_forever ==
    /\ pc = "head" /\ Exit = "auth"
    /\ opt.credentials
    /\ pc' = "connect"
    /\ UNCHANGED <<opt, site, local_file, disk, loop, hs, dt, auth_finished, rsp, body, err,
                   ret, requests, had, runs>>

\* A challenge is answered once per gethttp, on a new request.  Under WARC
\* its body was counted in len, which nothing resets.
RetryWithAuth ==
    /\ pc = "head" /\ Exit = "auth"
    /\ opt.credentials /\ ~auth_finished
    /\ \E n \in PageReads : hs' = Drained(hs, n, 0)
    /\ auth_finished' = TRUE
    /\ pc' = "connect"
    /\ UNCHANGED <<opt, site, local_file, disk, loop, dt, rsp, body, err, ret, requests, had,
                   runs>>

AuthFails ==
    /\ pc = "head" /\ Exit = "auth"
    /\ \E n \in PageReads :
          \/ /\ opt.warc
             /\ Gethttp("RETRFINISHED", Drained(hs, n, -1), local_file, dt)
          \/ /\ opt.credentials => auth_finished
             /\ Gethttp("AUTHFAILED", Drained(hs, n, 0), local_file, dt)
    /\ HeadUnchanged

\* -nc and the name that the response head determined exists.
NameExists ==
    /\ pc = "head" /\ Exit = "exists"
    /\ Gethttp("RETRUNNEEDED", hs, check_file_output.name, dt)
    /\ HeadUnchanged

NoContent ==
    /\ pc = "head" /\ Exit = "no content"
    /\ Gethttp("RETRFINISHED",
               Unwanted(Headers), check_file_output.name, Flags)
    /\ HeadUnchanged

Redirected ==
    /\ pc = "head" /\ Exit = "redirect"
    /\ \E n \in PageReads, r \in PageResults :
          Gethttp(IF opt.warc /\ r < 0 THEN "RETRFINISHED" ELSE "NEWLOCATION",
                  Drained(Unwanted(Headers), n, r), check_file_output.name,
                  Flags)
    /\ HeadUnchanged

\* A 304 is acted upon before the document type is looked at.
NotModified ==
    /\ pc = "head" /\ Exit = "not modified"
    /\ Gethttp("RETRUNNEEDED", Headers, SaveName,
               (IF rsp.code = 304 THEN Flags ELSE TypedFlags)
                 \cup {"RETROKF"})
    /\ HeadUnchanged

FullyRetrieved ==
    /\ pc = "head" /\ Exit = "fully retrieved"
    /\ Gethttp("RETRUNNEEDED", [Headers EXCEPT !.len = rsp.clen, !.res = 0],
               SaveName, TypedFlags \cup {"RETROKF"})
    /\ HeadUnchanged

WrongRange ==
    /\ pc = "head" /\ Exit = "wrong range"
    /\ Gethttp("RANGEERR", Headers, SaveName, TypedFlags)
    /\ HeadUnchanged

\* http_stat with the length of the whole document as the head gives it.
Measured == [Headers EXCEPT !.contlen = IF rsp.clen = -1 THEN -1
                                      ELSE rsp.clen + rsp.crange]

\* HEAD, an error status, or a spider: the body is not wanted.
NoBodyWanted ==
    /\ pc = "head" /\ Exit = "no body"
    /\ \E n \in PageReads, r \in PageResults :
          Gethttp(IF rsp.code = 504 /\ ~(opt.warc /\ r < 0)
                  THEN "GATEWAYTIMEOUT" ELSE "RETRFINISHED",
                  Drained(Unwanted(Measured), n, r), SaveName, TypedFlags)
    /\ HeadUnchanged

\* The files once rotate_backups has moved f out of the way.
rotate_backups(f) ==
    LET old == Append(f, 1)
    IN  IF ~Exists(f) THEN disk
        ELSE [g \in (DOMAIN disk \cup {old}) \ {f} |->
                IF g = old THEN disk[f] ELSE disk[g]]

\* Variant for sensitivity checks: a resumed try truncates the file.
open_output_stream_wb(f) ==
    IF opt.output_document THEN disk ELSE Put(f, Empty)

\* The files once the output stream is open: appending when the try resumes,
\* truncating otherwise; with -O the stream of main is used as it is.
open_output_stream(f) ==
    LET rotated == IF opt.backups THEN rotate_backups(f) ELSE disk
        file == IF hs.restval > 0 /\ f \in DOMAIN rotated THEN rotated[f]
                ELSE Empty
    IN  IF opt.output_document THEN disk
        ELSE [g \in DOMAIN rotated \cup {f} |->
                IF g = f THEN file ELSE rotated[g]]

\* Open the output and start reading: exactly Content-Length bytes if it is
\* known, dropping the first restval ones if the Range was ignored.
OpenBody ==
    /\ pc = "head" /\ Exit = "body"
    /\ pc' = "body"
    /\ hs' = Measured
    /\ dt' = TypedFlags
    /\ local_file' = SaveName
    /\ disk' = open_output_stream(SaveName)
    /\ body' = [open |-> TRUE, pos |-> rsp.crange,
                skip |-> IF hs.restval > 0 /\ rsp.crange = 0 THEN hs.restval
                         ELSE 0,
                read |-> 0, toread |-> rsp.clen, written |-> 0,
                doc |-> Success]
    /\ UNCHANGED <<opt, site, loop, auth_finished, rsp, err, ret, requests, had,
                   runs>>

\* The output file cannot be opened or unlinked.
OpenFails ==
    /\ pc = "head" /\ Exit = "body" /\ ~opt.output_document
    /\ \E e \in {"FOPENERR", "UNLINKERR"} : Gethttp(e, Measured, SaveName, TypedFlags)
    /\ disk' = IF opt.backups THEN rotate_backups(SaveName) ELSE disk
    /\ UNCHANGED <<opt, site, loop, auth_finished, rsp, body, ret, requests, had,
                   runs>>

-----------------------------------------------------------------------------
(***************************************************************************)
(* read_response_body and fd_read_body, at the granularity of the bytes    *)
(* that reach the file.                                                    *)
(***************************************************************************)
\* The file that the open output stream writes to.
Output == IF opt.output_document THEN OutDoc ELSE local_file

\* Bytes the server can still send of this body.
Available == (IF body.doc THEN Size ELSE PageLen) - body.pos

BodyComplete == body.toread # -1 /\ body.read >= body.toread

\* n bytes arrive; those beyond the part to skip are appended to the file.
write_data(n) ==
    LET dropped == IF body.skip < n THEN body.skip ELSE n
        kept == n - dropped
        file == disk[Output]
        joins == body.doc /\ body.pos + dropped = file.len
    IN  /\ disk' = IF kept = 0 THEN disk
                   ELSE Put(Output, [len |-> file.len + kept,
                                      good |-> file.good /\ joins,
                                      fresh |-> TRUE])
        /\ body' = [body EXCEPT !.pos = @ + n, !.read = @ + n,
                                !.skip = @ - dropped,
                                !.written = @ + kept]

ReadBody ==
    /\ pc = "body" /\ ~BodyComplete
    /\ \E n \in 1 .. Available : write_data(n)
    /\ UNCHANGED <<opt, site, local_file, pc, loop, hs, dt, auth_finished, rsp, err, ret,
                   requests, had, runs>>

\* Variant for sensitivity checks: len does not start at restval.
EndBody_len_from_zero ==
    /\ pc = "body"
    /\ \E r \in {-1, 0} :
          Gethttp("RETRFINISHED", [hs EXCEPT !.len = body.written, !.res = r],
                  local_file, dt)
    /\ UNCHANGED <<opt, site, disk, loop, auth_finished, rsp, body, ret,
                   requests, had, runs>>

\* The transfer ends: by itself, at the end of the connection (0), by a read
\* error (-1) or because the file cannot be written (-2).
EndBody ==
    /\ pc = "body"
    /\ \E r \in IF BodyComplete THEN {IF body.read > 0 THEN 1 ELSE 0}
                ELSE {-2, -1, 0} :
          Gethttp(IF r = -2 THEN "FWRITEERR" ELSE "RETRFINISHED",
                  [hs EXCEPT !.len = hs.restval + body.written, !.res = r],
                  local_file, dt)
    /\ UNCHANGED <<opt, site, disk, loop, auth_finished, rsp, body, ret, requests,
                   had, runs>>

-----------------------------------------------------------------------------
(***************************************************************************)
(* http_loop after gethttp: the switch on its result and what follows.     *)
(***************************************************************************)
Transient == {"HERR", "HEOF", "CONSOCKERR", "CONERROR", "READERR",
              "WRITEFAILED", "RANGEERR", "FOPEN_EXCL_ERR", "GATEWAYTIMEOUT"}
Fatal == {"FWRITEERR", "FOPENERR", "CONIMPOSSIBLE", "PROXERR",
          "SSLINITFAILED", "CONTNOTSUPPORTED", "VERIFCERTERR", "FILEBADFILE",
          "UNKNOWNATTR", "ATTRMISSING", "AUTHFAILED", "WARC_ERR",
          "WARC_TMP_FOPENERR", "WARC_TMP_FWRITEERR", "CONSSLERR",
          "UNLINKERR"}

\* "continue": another pass unless the tries are used up.
Continue ==
    IF opt.ntry = 0 \/ loop.count < opt.ntry
    THEN pc' = "top" /\ UNCHANGED ret
    ELSE Return("TRYLIMEXC")

JudgeUnchanged == UNCHANGED <<opt, site, local_file, auth_finished, rsp, body, err, requests,
                              had, runs>>

RetriableError ==
    /\ pc = "judge"
    /\ err \in Transient \/ (err = "HOSTERR" /\ opt.retry_on_host_error)
    /\ Continue
    /\ UNCHANGED <<disk, loop, hs, dt>> /\ JudgeUnchanged

FatalError ==
    /\ pc = "judge"
    /\ err \in Fatal \/ (err = "HOSTERR" /\ ~opt.retry_on_host_error)
    /\ Return(err)
    /\ UNCHANGED <<disk, loop, hs, dt>> /\ JudgeUnchanged

NewLocation ==
    /\ pc = "judge" /\ err = "NEWLOCATION"
    /\ Return(IF hs.newloc THEN err ELSE "WRONGCODE")
    /\ UNCHANGED <<disk, loop, hs, dt>> /\ JudgeUnchanged

Unneeded ==
    /\ pc = "judge" /\ err = "RETRUNNEEDED"
    /\ Return("RETROK")
    /\ UNCHANGED <<disk, loop, hs, dt>> /\ JudgeUnchanged

\* Metalink data was found, or the file is to be had by a plain GET.
MetalinkResult ==
    /\ pc = "judge" /\ err = "RETR_WITH_METALINK"
    /\ \/ /\ Return("retrieve_from_metalink")
          /\ UNCHANGED <<loop, dt>>
       \/ /\ dt' = dt \ {"METALINK_METADATA", "HEAD_ONLY"}
          /\ loop' = [loop EXCEPT !.got_head = TRUE]
          /\ Continue
    /\ UNCHANGED <<disk, hs>> /\ JudgeUnchanged

HeadUnsupported == "HEAD_ONLY" \in dt /\ hs.statcode \in {500, 501}

\* The status was not a success.
ErrorStatus ==
    /\ pc = "judge" /\ err = "RETRFINISHED" /\ "RETROKF" \notin dt
    /\ loop' = [loop EXCEPT !.got_head = @ \/ HeadUnsupported]
    /\ IF \/ HeadUnsupported
          \/ ~opt.spider /\ hs.statcode \in opt.retry_on_http_error
       THEN Continue
       ELSE Return("WRONGCODE")
    /\ UNCHANGED <<disk, hs, dt>> /\ JudgeUnchanged

\* The first successful answer is examined for its time-stamp.
Examining == ~loop.got_head \/ (opt.spider /\ ~opt.recursive)

Datable == opt.timestamping /\ hs.orig # NoFile /\ hs.remote_time
\* Variant for sensitivity checks: only the sizes are compared.
UpToDate_by_size == Datable /\ hs.orig.len = hs.contlen
UpToDate == /\ Datable /\ hs.orig.fresh
            /\ hs.contlen = -1 \/ hs.orig.len = hs.contlen
SpiderDone == opt.spider /\ ~(opt.recursive /\ "TEXTHTML" \in dt)

\* Variant for sensitivity checks: got_head is not remembered.
HeadDone_repeated ==
    /\ pc = "judge" /\ err = "RETRFINISHED" /\ "RETROKF" \in dt
    /\ Examining /\ loop.send_head_first
    /\ loop' = [loop EXCEPT !.got_name = TRUE, !.count = 0]
    /\ dt' = dt \ {"HEAD_ONLY"}
    /\ pc' = "top"
    /\ UNCHANGED <<disk, hs, ret>> /\ JudgeUnchanged

\* The preliminary HEAD succeeded: stop here, or go on with the GET.
HeadDone ==
    /\ pc = "judge" /\ err = "RETRFINISHED" /\ "RETROKF" \in dt
    /\ Examining /\ loop.send_head_first
    /\ IF UpToDate \/ SpiderDone
       THEN /\ Return("RETROK")
            /\ UNCHANGED <<loop, hs, dt>>
       ELSE /\ loop' = [loop EXCEPT !.got_head = TRUE, !.got_name = TRUE,
                             !.tmr = hs.remote_time, !.count = 0,
                             !.force_full_retrieve =
                                 @ \/ (Datable /\ ~hs.orig.fresh)]
            /\ hs' = [hs EXCEPT !.timestamp_checked = @ \/ opt.timestamping]
            /\ dt' = dt \ {"HEAD_ONLY"}
            /\ pc' = "top"
            /\ UNCHANGED ret
    /\ UNCHANGED disk /\ JudgeUnchanged

\* Variant for sensitivity checks: any end of the connection will do.
Complete_at_eof == hs.len = hs.contlen \/ hs.res = 0
\* Whether the download is over as far as http_loop can tell.
Complete == \/ hs.len = hs.contlen
            \/ hs.res = 0 /\ hs.contlen = -1
\* The local file already had more than the server announced.
Shrunk == hs.res = 0 /\ hs.contlen # -1 /\ hs.len > hs.contlen

Finish ==
    LET tmr == IF Examining THEN hs.remote_time ELSE loop.tmr
    IN  /\ pc = "judge" /\ err = "RETRFINISHED" /\ "RETROKF" \in dt
        /\ ~(Examining /\ loop.send_head_first)
        /\ loop' = [loop EXCEPT !.got_head = TRUE, !.tmr = tmr]
        /\ disk' = IF /\ opt.useservertimestamps /\ tmr /\ Complete
                      /\ Exists(local_file)
                   THEN Put(local_file,
                            [disk[local_file] EXCEPT !.fresh = TRUE])
                   ELSE disk
        /\ IF Complete THEN Return("RETROK")
           ELSE IF Shrunk /\ hs.len # hs.restval
                THEN pc' = "abort" /\ UNCHANGED ret
           ELSE IF Shrunk THEN Return("RETROK")
           ELSE Continue
        /\ UNCHANGED <<hs, dt>> /\ JudgeUnchanged

\* wget is killed, or has ended, and the same command is started again.
Rerun ==
    /\ runs < MaxRuns
    /\ runs' = runs + 1
    /\ pc' = "main"
    /\ loop' = ZeroLoop /\ hs' = ZeroStat /\ local_file' = NoName /\ dt' = {}
    /\ auth_finished' = FALSE /\ rsp' = NoRsp /\ body' = NoBody
    /\ err' = "RETROK" /\ ret' = "TRYLIMEXC" /\ requests' = 0
    /\ UNCHANGED <<opt, site, disk, had>>

Step ==
    \/ OpenOutputDocument \/ EnterHttpLoop \/ StartTry
    \/ ConnectFails \/ SendRequest \/ HeadFails \/ ReadHead
    \/ MetalinkHead \/ RetryWithAuth \/ AuthFails \/ NameExists
    \/ NoContent \/ Redirected \/ NotModified \/ FullyRetrieved
    \/ WrongRange \/ NoBodyWanted \/ OpenBody \/ OpenFails
    \/ ReadBody \/ EndBody
    \/ RetriableError \/ FatalError \/ NewLocation \/ Unneeded
    \/ MetalinkResult \/ ErrorStatus \/ HeadDone \/ Finish

Next == Step \/ Rerun

Spec == Init /\ [][Next]_vars

\* Every operation of wget ends: reads and connects carry timeouts, and
\* wget itself is single-threaded.  Nothing is assumed of Rerun.
FairSpec == Spec /\ WF_vars(Step)

-----------------------------------------------------------------------------
Pcs == {"main", "enter", "top", "connect", "sent", "head", "body", "judge",
        "done", "abort"}
AllFlags == {"HEAD_ONLY", "RETROKF", "IF_MODIFIED_SINCE", "TEXTHTML",
             "METALINK_METADATA"}

HttpStat == [len : Int, contlen : Int, res : {-2, -1, 0, 1}, restval : Nat,
             statcode : Nat, orig : Files \cup {NoFile},
             timestamp_checked : BOOLEAN, existence_checked : BOOLEAN,
             newloc : BOOLEAN, remote_time : BOOLEAN]
LoopLocals == [count : Nat, got_head : BOOLEAN, got_name : BOOLEAN,
               send_head_first : BOOLEAN, force_full_retrieve : BOOLEAN,
               tmr : BOOLEAN]
Responses == [code : Nat, clen : Int, crange : Nat, last_modified : BOOLEAN,
              html : BOOLEAN, location : BOOLEAN]
Bodies == [open : BOOLEAN, pos : Nat, skip : Nat, read : Nat, toread : Int,
           written : Nat, doc : BOOLEAN]

\* Type invariant: the counters, positions and file lengths of http_loop and
\* gethttp stay in range; only where the code uses -1 can one be negative.
TypeOK ==
    /\ opt \in Opts
    /\ site \in Sites
    /\ disk \in [DOMAIN disk -> Files]
    /\ pc \in Pcs
    /\ loop \in LoopLocals
    /\ hs \in HttpStat
    /\ dt \subseteq AllFlags
    /\ auth_finished \in BOOLEAN
    /\ rsp \in Responses
    /\ body \in Bodies
    /\ requests \in Nat
    /\ runs \in Nat

\* However tries, kills and reruns follow one another, no local file ever
\* holds anything but the first bytes of the document: the restart position
\* of http_loop, the Range that was asked for, the skipping of a body that
\* ignores it and the mode in which open_output_stream opens the file agree.
PrefixOnly == \A f \in DOMAIN disk : disk[f].good

\* When http_loop reports a download whose length the server announced as
\* finished (RETROK after RETRFINISHED), the file has that length.
FinishedWhole ==
    pc = "done" /\ ret = "RETROK" /\ err = "RETRFINISHED"
        /\ body.open /\ body.doc /\ hs.contlen # -1
      => disk[Output].len = Size

\* abort() in http_loop ("reading more data than requested") is not reached.
NeverAborts == pc # "abort"

\* What http_loop makes of the lengths of a body that was resumed, skipped or cut.
SavedWhole == FinishedWhole /\ NeverAborts

\* The retry counter bounds the requests: at most ntry for the HEAD and,
\* because the counter is reset once, ntry more for the GET.
RequestBound == opt.ntry # 0 => requests <= 2 * opt.ntry

LoopSound == TypeOK /\ RequestBound

\* A resumed try starts exactly at the end of the file it will append to.
ResumesAtEnd ==
    pc \in {"connect", "sent", "head"} /\ hs.restval > 0
        /\ "HEAD_ONLY" \notin dt
      => Exists(local_file) /\ disk[local_file].len = hs.restval

\* Without an option that allows clobbering, a run never changes a file that
\* existed when it started (unique_name, existence_checked and the retries); with
\* -c nothing that was downloaded is ever lost again: no try, failed or not, and no
\* rerun shortens or removes a file.
KeepsFiles ==
    [][/\ ~ALLOW_CLOBBER =>
             \A f \in DOMAIN had : f \in DOMAIN disk' /\ disk'[f] = disk[f]
       /\ opt.always_rest =>
             \A f \in DOMAIN disk : f \in DOMAIN disk' /\ disk'[f].len >= disk[f].len]_vars

\* Claimed for every option: -c loses nothing.
ContinueKeepsBytes ==
    [][opt.always_rest => \A f \in DOMAIN disk :
          f \in DOMAIN disk' /\ disk'[f].len >= disk[f].len]_vars

\* After a successful -N the local file is the remote document, whatever was
\* there before: "if the remote file is more recent, Wget will proceed to
\* fetch it" (doc/wget.texi:3063), and "if ... the sizes of the files do not
\* match, Wget will download the remote file no matter what the time-stamps
\* say" (doc/wget.texi:3027).  Not, as the code has it, after an interrupted
\* download: a conditional GET asks for nothing but the time-stamp of the part.
TimestampingUpdates ==
    pc = "done" /\ ret = "RETROK" /\ hs.statcode # 204 /\ opt.timestamping
        /\ site.last_modified /\ site.length
        /\ ~(Base \in DOMAIN had /\ had[Base].fresh /\ had[Base].len < Size)
      => Exists(Base) /\ disk[Base].good /\ disk[Base].len = Size

\* Where -N is as good as that: with the options that leave names and restart
\* positions alone, and where a file with a time-stamp that is not older than the
\* document's is a beginning of it, as it is when wget wrote it.  A later run
\* cannot know that unless a 204 has never set the time-stamp of an old file.
DatedAssumption ==
    /\ \A o \in Opts : o.timestamping =>
          /\ ~o.temporary /\ ~o.spider /\ ~o.backups /\ ~o.content_on_error
          /\ ~o.adjust_extension /\ ~o.always_rest /\ o.start_pos < 0
    /\ \A d \in Disks : Base \in DOMAIN d /\ d[Base].fresh => d[Base].good
    /\ 204 \notin Codes \/ MaxRuns <= 1

\* http_loop ends: whatever the network does, the tries run out.
Terminates == <>[](pc \in {"done", "abort"})
=============================================================================
