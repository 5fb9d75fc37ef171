----------------------------- MODULE RetrieveUrl ----------------------------
(***************************************************************************)
(* retrieve_url (src/src/retr.c): one URL through redirections, a possible *)
(* retry without UTF-8 encoding, and the registration of what was saved;   *)
(* called for one URL after the other, with the exit status of src/src/    *)
(* exits.c.  http_loop and ftp_loop are black boxes here: their outcome is *)
(* chosen freely (HttpLoop models the former).                             *)
(***************************************************************************)
EXTENDS DownloadTables

CONSTANTS
    HtmlUrls, CssUrls, Opts,   \* as in DownloadMap, see RetrieveAssumption
    Method,            \* the method of --method or --post-data
    max_redirect,
    Calls              \* bound on the number of calls

\* No method given: GET.
NoMethod == "GET"

ASSUME BoundsAssumption ==
    Method # NoMethod /\ max_redirect \in Nat /\ Calls \in Nat

\* Urls are strings here, some of them spelled otherwise than url_parse spells
\* the URL in its result.  canonical: how it spells those (http://host becomes
\* http://host/, and there are escapes and encodings); unencoded: for the strings
\* that url_parse converts to UTF-8, the URL it makes of them when it does not
\* convert, or NoUrl; bad_proxy: whether the proxy's URL may be invalid.
NoUrl == "no URL"
ASSUME RetrieveAssumption ==
    \A o \in Opts :
        /\ IsTable(o.canonical, Urls, Urls)
        /\ IsTable(o.unencoded, Urls, Urls \cup {NoUrl})
        /\ o.content_on_error \in BOOLEAN /\ o.bad_proxy \in BOOLEAN

\* The rest of a command line is as DownloadMap wants it.
ASSUME BookAssumption ==
    /\ HtmlUrls \subseteq Urls /\ CssUrls \subseteq Urls
    /\ \A o \in Opts :
          /\ o.naming \subseteq Urls \X LocalFiles
          /\ o.conflict \in {"clobber", "unique", "keep"}
          /\ o.failures \in BOOLEAN

VARIABLES
    opt, maps, disk, led, asserted,    \* DownloadMap's
    running,           \* whether a call is in progress
    method,            \* opt.method, opt.body_data and opt.body_file
    call,              \* the local variables of the call
    last,              \* history: how the last call ended
    calls,             \* number of calls so far
    final_exit_status,
    informed           \* history: every result inform_exit_status was told

book == <<opt, maps, disk, led, asserted>>
vars == <<opt, maps, disk, led, asserted, running, method, call, last, calls,
          final_exit_status, informed>>

Book == INSTANCE DownloadMap

\* url_parse, which converts to UTF-8 first if that changes the string, and without
\* this conversion.
Converted(url) == url \in DOMAIN opt.unencoded
Parsed(url) == IF url \in DOMAIN opt.canonical THEN opt.canonical[url] ELSE url
Plain(url) == IF Converted(url) THEN opt.unencoded[url] ELSE Parsed(url)

\* get_status_for_err, for the results that the model tells apart.
get_status_for_err ==
    [RETROK |-> 0, FOPENERR |-> 3, TRYLIMEXC |-> 4, AUTHFAILED |-> 6,
     WRONGCODE |-> 8, PROXERR |-> 8, URLERROR |-> 9, NEWLOCATION |-> 9]
Errors == {"FOPENERR", "TRYLIMEXC", "AUTHFAILED", "WRONGCODE"}

inform_exit_status(err) ==
    LET new_status == get_status_for_err[err] IN
    final_exit_status' =
        IF new_status # 0 /\ (final_exit_status = 0 \/ new_status < final_exit_status)
        THEN new_status ELSE final_exit_status

NoCall == [origurl |-> "none"]

Init ==
    /\ Book!Init
    /\ running = FALSE /\ method = Method
    /\ call = NoCall /\ last = NoCall
    /\ calls = 0
    /\ final_exit_status = 0 /\ informed = {}

-----------------------------------------------------------------------------
\* main parses the URL and calls retrieve_url with both, the string it was given
\* (origurl) and the parsed URL (orig_parsed); a URL it cannot parse is skipped.
\* retrieve_tree and the lines of an input file pass a string that has been parsed
\* already.
Enter ==
    /\ ~running /\ ~asserted /\ calls < Calls
    /\ calls' = calls + 1
    /\ \/ /\ running' = TRUE
          /\ \E o \in Urls :
                call' = [origurl |-> o, orig_parsed |-> Parsed(o), u |-> Parsed(o),
                         utf8_encode |-> Converted(o),
                         redirection_count |-> 0, iri_fallbacked |-> FALSE,
                         method_suspended |-> FALSE, saved_method |-> NoMethod,
                         requests |-> 1, seeother |-> FALSE]
          /\ UNCHANGED <<final_exit_status, informed>>
       \/ /\ inform_exit_status("URLERROR")
          /\ informed' = informed \cup {"URLERROR"}
          /\ UNCHANGED <<running, call>>
    /\ UNCHANGED <<book, method, last>>

RESTORE_METHOD ==
    method' = IF call.method_suspended THEN call.saved_method ELSE method

\* The end of the call: bail, and newloc for the caller.
Return(result, newloc) ==
    /\ running' = FALSE /\ call' = NoCall
    /\ RESTORE_METHOD
    /\ inform_exit_status(result)
    /\ informed' = informed \cup {result}
    /\ last' = [origurl |-> call.origurl, orig_parsed |-> call.orig_parsed,
                redirected |-> call.redirection_count > 0,
                retried |-> call.iri_fallbacked,
                ok |-> result = "RETROK", newloc |-> newloc]

\* The proxy's URL cannot be parsed, or is not an HTTP URL.
ProxyError ==
    /\ running /\ opt.bad_proxy
    /\ Return("PROXERR", FALSE)
    /\ UNCHANGED <<book, calls>>

\* http_loop returned NEWLOCATION with something that is no URL.
BadLocation ==
    /\ running
    /\ Return("NEWLOCATION", FALSE)
    /\ UNCHANGED <<book, calls>>

TooManyRedirections ==
    /\ running /\ call.redirection_count + 1 > max_redirect
    /\ Return("WRONGCODE", FALSE)
    /\ UNCHANGED <<book, calls>>

\* Variant for sensitivity checks: the method is suspended once more, and
\* nothing is left of it.
SUSPEND_METHOD_again(c) ==
    [c EXCEPT !.method_suspended = TRUE, !.saved_method = method]
SUSPEND_METHOD(c) ==
    IF c.method_suspended THEN c
    ELSE [c EXCEPT !.method_suspended = TRUE, !.saved_method = method]

\* The call goes on at the new location: NEWLOCATION_KEEP_POST (307) keeps the
\* method, NEWLOCATION does not.  url_parse decides anew about the encoding.
Follow(to, keep) ==
    LET moved == [call EXCEPT !.u = Parsed(to), !.utf8_encode = Converted(to),
                              !.redirection_count = @ + 1,
                              !.requests = @ + 1, !.seeother = @ \/ ~keep]
    IN  /\ call' = IF keep THEN moved ELSE SUSPEND_METHOD(moved)
        /\ method' = IF keep THEN method ELSE NoMethod

Redirected ==
    /\ running /\ call.redirection_count + 1 <= max_redirect
    /\ \E to \in Urls, keep \in BOOLEAN : Follow(to, keep)
    /\ UNCHANGED <<book, running, last, calls, final_exit_status, informed>>

\* Variants for sensitivity checks: the retry starts counting again; the retry
\* is retried.
Fallback_recounting ==
    /\ running /\ call.utf8_encode
    /\ Plain(call.origurl) \notin {call.orig_parsed, NoUrl}
    /\ call.requests < 20     \* bounds the variant
    /\ call' = [call EXCEPT !.u = Plain(call.origurl), !.utf8_encode = FALSE,
                            !.iri_fallbacked = TRUE, !.redirection_count = 0,
                            !.requests = @ + 1, !.seeother = FALSE]
    /\ UNCHANGED <<book, running, method, last, calls, final_exit_status, informed>>
Fallback_repeating ==
    /\ running /\ call.utf8_encode
    /\ Plain(call.origurl) \notin {call.orig_parsed, NoUrl}
    /\ call' = [call EXCEPT !.u = Parsed(call.origurl), !.iri_fallbacked = ~@]
    /\ UNCHANGED <<book, running, method, last, calls, final_exit_status, informed>>

\* "Try to not encode in UTF-8 if fetching failed": once more from origurl, if
\* that makes a difference to it.
Fallback ==
    /\ running /\ call.utf8_encode
    /\ Plain(call.origurl) \notin {call.orig_parsed, NoUrl}
    /\ call' = [call EXCEPT !.u = Plain(call.origurl), !.utf8_encode = FALSE,
                            !.iri_fallbacked = TRUE,
                            !.requests = @ + 1, !.seeother = FALSE]
    /\ UNCHANGED <<book, running, method, last, calls, final_exit_status, informed>>

\* Variants for sensitivity checks: the file is entered as the requested URL's;
\* a redirection is not registered.
Register_origurl(u, file) ==
    /\ maps' = Book!Typed(register_download(maps, call.origurl, file), call.u, file)
    /\ led' = led \cup {<<call.origurl, call.u>>}
    /\ UNCHANGED asserted
Register_target(u, file) ==
    /\ maps' = Book!Typed(register_download(maps, u, file), call.u, file)
    /\ led' = led \cup {<<call.origurl, call.u>>}
    /\ UNCHANGED asserted

\* The file of http_loop is entered into the tables, as u's, and after a redirection
\* as that of the string origurl too.
Register(u, file) ==
    LET saved == register_download(maps, u, file)
        redirected == call.redirection_count > 0 /\ call.origurl # u
    IN  /\ asserted' = (redirected /\ u \notin DOMAIN saved.dl_url_file_map)
        /\ maps' = IF asserted' THEN saved
                   ELSE Book!Typed(IF redirected
                                   THEN register_redirection(saved, call.origurl, u)
                                   ELSE saved, call.u, file)
        /\ led' = IF redirected THEN led \cup {<<call.origurl, call.u>>}
                  ELSE led \cup {<<call.u, call.u>>}

\* http_loop or ftp_loop saved the document under u in file.
SaveAs(file) ==
    /\ file \in Book!Names(call.u)
    /\ disk' = Put(disk, file, Book!Saved(call.u, file))

NewLoc == call.redirection_count > 0 \/ call.iri_fallbacked

Fetched ==
    /\ running
    /\ \E file \in LocalFiles : SaveAs(file) /\ Register(call.u, file)
    /\ Return("RETROK", NewLoc)
    /\ UNCHANGED <<opt, calls>>

\* http_loop failed, and the URL cannot be tried in another encoding: not if
\* part of the body was received (RETROKF), and not if origurl is the same
\* either way or no URL; it has then been parsed again.  What http_loop left in a
\* file is registered only if it was asked to keep error pages.
Failed ==
    /\ running
    /\ \E begun \in BOOLEAN :
          LET again == call.utf8_encode /\ ~begun
              u == IF again THEN Plain(call.origurl) ELSE call.u
          IN  /\ again => u \in {call.orig_parsed, NoUrl}
              /\ \/ /\ opt.content_on_error /\ u # NoUrl
                    /\ \E file \in LocalFiles : SaveAs(file) /\ Register(u, file)
                 \/ /\ ~opt.content_on_error /\ opt.failures
                    /\ \E file \in LocalFiles : SaveAs(file)
                    /\ UNCHANGED <<maps, led, asserted>>
                 \/ UNCHANGED book
    /\ \E err \in Errors : Return(err, NewLoc)
    /\ UNCHANGED <<opt, calls>>

Next ==
    \/ Enter \/ ProxyError \/ BadLocation \/ TooManyRedirections
    \/ Redirected \/ Fallback \/ Fetched \/ Failed

Spec == Init /\ [][Next]_vars

\* A single thread: it goes on as long as it can.
FairSpec == Spec /\ WF_vars(Next)

-----------------------------------------------------------------------------
Results == DOMAIN get_status_for_err
Methods == {Method, NoMethod}

\* A call has a URL, an encoding, a saved method and bounded counters.
TypeOK ==
    /\ opt \in Opts
    /\ AreTables(maps)
    /\ running \in BOOLEAN /\ asserted \in BOOLEAN
    /\ method \in Methods
    /\ IF running
       THEN call \in [origurl : Urls, orig_parsed : Urls, u : Urls,
                      utf8_encode : BOOLEAN,
                      redirection_count : 0 .. max_redirect,
                      iri_fallbacked : BOOLEAN, method_suspended : BOOLEAN,
                      saved_method : Methods, requests : Nat,
                      seeother : BOOLEAN]
       ELSE call = NoCall
    /\ calls \in 0 .. Calls
    /\ informed \subseteq Results
    /\ final_exit_status \in {get_status_for_err[r] : r \in Results}

\* The options of the next call are those of the command line, whichever of
\* its exits a call took: RESTORE_METHOD is on all of them.
MethodRestored == ~running => method = Method

\* "If we're being redirected from POST, and we received a redirect code
\* different than 307, we don't want to POST again.  (...)  We 'suspend' POST
\* data for the duration of the redirections, and restore it when we're done":
\* a request has the user's method exactly if no such redirection led to it.
MethodFollows ==
    running => method = IF call.seeother THEN NoMethod ELSE Method

\* The same, up to the retry without UTF-8 encoding.
MethodFollowsUnlessRetried ==
    running /\ ~call.iri_fallbacked =>
        method = IF call.seeother THEN NoMethod ELSE Method

\* Over a whole call, and after it.
MethodKept == MethodRestored /\ MethodFollowsUnlessRetried

\* retrieve_url gives up: http_loop is called at most twice per redirection
\* allowed, whatever the servers answer.
RequestBound == running => call.requests <= 2 * (max_redirect + 1)

\* "Ensure that Wget's exit status will reflect the problem indicated by ERR,
\* unless the exit status has already been set to reflect a more important
\* problem": the status is the most important one of all results.
StatusRanked ==
    LET problems == {get_status_for_err[r] : r \in informed} \ {0}
    IN  IF problems = {} THEN final_exit_status = 0
        ELSE /\ final_exit_status \in problems
             /\ \A s \in problems : final_exit_status <= s

CallsSound == TypeOK /\ RequestBound /\ StatusRanked

\* Not both --content-on-error and strings that are converted to UTF-8: the
\* error page of a URL that origurl was redirected to would be entered as the
\* file of origurl, which Failed parses again.
IriAssumption == \A o \in Opts : o.content_on_error => DOMAIN o.unencoded = {}

\* convert_links_in_hashtable looks a link up by its parsed URL (convert.c 131).  So
\* it finds the file of a URL that was asked for, when the call succeeded and was
\* not redirected, and after redirections when the caller passed the parsed
\* spelling, as retrieve_tree and the lines of an input file do.  (Not after the
\* retry without UTF-8 encoding: what that found is entered under the other
\* encoding of the URL only.)
RequestedUrlKnown ==
    /\ last # NoCall /\ last.ok /\ ~last.retried
    /\ last.redirected => last.origurl = last.orig_parsed
    => last.orig_parsed \in DOMAIN maps.dl_url_file_map

\* Claimed by convert.c 120-122, "We decide the direction of conversion according to
\* whether a URL was downloaded": the same, however main was given the URL and
\* encoded it.
DownloadedUrlKnown ==
    last # NoCall /\ last.ok => last.orig_parsed \in DOMAIN maps.dl_url_file_map

\* ... and the relative links of a file are resolved against the URL it came from.
OwnerIsBase == Book!OwnerIsBase

UrlsRegistered == RequestedUrlKnown /\ OwnerIsBase

\* The tables are used as DownloadMap says.
ImplementsDownloadMap == Book!Spec

\* Every call returns.
Terminates == running ~> ~running

=============================================================================
