------------------------- MODULE RetrieveUrlProofs -------------------------
(***************************************************************************)
(* What retrieve_url guarantees for all URLs, redirections and numbers of  *)
(* calls: it gives up, the exit status is the most important one, the      *)
(* method of the command line is restored, and the tables are used as      *)
(* DownloadMap says, so that what its proofs show holds of them.           *)
(***************************************************************************)
EXTENDS RetrieveUrl, TLAPS

\* What is proved in DownloadMapProofs, about tables and the functions on them, and
\* about the state machine of their callers.
Proved == INSTANCE DownloadMapProofs

\* Well-typed tables, as a set.
Tables == [dl_file_url_map : Partial(LocalFiles, Urls),
           dl_url_file_map : Partial(Urls, LocalFiles),
           downloaded_html_set : SUBSET LocalFiles,
           downloaded_css_set : SUBSET LocalFiles]

\* The local variables of a call.
CallType ==
    [origurl : Urls, orig_parsed : Urls, u : Urls, utf8_encode : BOOLEAN,
     redirection_count : 0 .. max_redirect, iri_fallbacked : BOOLEAN,
     method_suspended : BOOLEAN, saved_method : Methods, requests : Nat,
     seeother : BOOLEAN]

\* Statuses are numbers.
LEMMA StatusNumbers == \A r \in Results : get_status_for_err[r] \in Nat
BY DEF Results, get_status_for_err

\* What url_parse makes of a URL is a URL, or none.
LEMMA ParsedUrl ==
    ASSUME opt \in Opts, NEW url \in Urls
    PROVE  /\ Parsed(url) \in Urls
           /\ Plain(url) \in Urls \cup {NoUrl}
           /\ Converted(url) \in BOOLEAN
           /\ Converted(url) => DOMAIN opt.unencoded # {}
<1>1. opt.canonical \in [DOMAIN opt.canonical -> Urls]
  BY RetrieveAssumption DEF IsTable
<1>2. opt.unencoded \in [DOMAIN opt.unencoded -> Urls \cup {NoUrl}]
  BY RetrieveAssumption DEF IsTable
<1>3. Converted(url) \in BOOLEAN
  BY DEF Converted
<1> QED BY <1>1, <1>2, <1>3 DEF Parsed, Plain, Converted

\* inform_exit_status keeps the smallest status other than 0.
LEMMA StatusInformed ==
    ASSUME informed \subseteq Results, StatusRanked, NEW err \in Results,
           final_exit_status \in {get_status_for_err[r] : r \in Results},
           inform_exit_status(err), informed' = informed \cup {err}
    PROVE  /\ StatusRanked'
           /\ final_exit_status' \in {get_status_for_err[r] : r \in Results}
           /\ informed' \subseteq Results
<1> DEFINE S == get_status_for_err
           P == {S[r] : r \in informed} \ {0}
           Q == {S[r] : r \in informed'} \ {0}
<1>1. /\ \A r \in Results : S[r] \in Nat
      /\ final_exit_status \in Nat
      /\ P \subseteq Nat
  BY StatusNumbers
<1>2. /\ P = {} => final_exit_status = 0
      /\ P # {} => final_exit_status \in P /\ \A s \in P : final_exit_status <= s
  BY DEF StatusRanked
<1>3. Q = P \cup ({S[err]} \ {0})
  OBVIOUS
<1>4. final_exit_status' =
         IF S[err] # 0 /\ (final_exit_status = 0 \/ S[err] < final_exit_status)
         THEN S[err] ELSE final_exit_status
  BY DEF inform_exit_status
<1>5. final_exit_status' \in {S[r] : r \in Results}
  BY <1>4
<1> HIDE DEF S, P, Q
<1>6. IF Q = {} THEN final_exit_status' = 0
      ELSE final_exit_status' \in Q /\ \A s \in Q : final_exit_status' <= s
  <2>1. S[err] \in Nat
    BY <1>1
  <2>2. P # {} => final_exit_status # 0
    BY <1>2 DEF P
  <2> QED BY <1>1, <1>2, <1>3, <1>4, <2>1, <2>2
<1>7. StatusRanked'
  BY <1>6 DEF StatusRanked, Q, S
<1> QED BY <1>5, <1>7 DEF S

-----------------------------------------------------------------------------
\* A URL that may still be tried without encoding has a request in reserve.
Reserve ==
    running => call.requests + (IF call.utf8_encode THEN 1 ELSE 0)
                 <= 2 * (call.redirection_count + 1)

\* What is proved of the tables of convert.c holds of those of retrieve_url.
LEMMA SameTables ==
    /\ Proved!Tables = Tables
    /\ Proved!NoMaps = NoMaps
    /\ \A m : Proved!AreTables(m) <=> AreTables(m)
    /\ \A m, u, f : /\ Proved!register_download(m, u, f) = register_download(m, u, f)
                    /\ Proved!register_redirection(m, u, f) = register_redirection(m, u, f)
<1>1. Proved!Tables = Tables
  BY DEF Proved!Tables, Tables, Proved!Partial, Partial
<1>2. Proved!NoMaps = NoMaps
  BY DEF Proved!NoMaps, NoMaps, Proved!EmptyTable, EmptyTable
<1>3. \A m : Proved!AreTables(m) <=> AreTables(m)
  BY DEF Proved!AreTables, AreTables, Proved!IsTable, IsTable
<1>4. \A m, u, f :
         /\ Proved!register_download(m, u, f) = register_download(m, u, f)
         /\ Proved!register_redirection(m, u, f) = register_redirection(m, u, f)
  BY DEF register_download, Proved!register_download,
         register_redirection, Proved!register_redirection, Put, Proved!Put,
         dissociate_urls_from_file, Proved!dissociate_urls_from_file,
         match_except_index, Proved!match_except_index, Restrict, Proved!Restrict
<1> QED BY <1>1, <1>2, <1>3, <1>4

\* What the proofs cite of them.
LEMMA TableFacts ==
    /\ NoMaps \in Tables
    /\ \A m : m \in Tables <=> AreTables(m)
    /\ \A m \in Tables, u \in Urls, f \in LocalFiles : register_download(m, u, f) \in Tables
    /\ \A m \in Tables, u \in Urls : \A v \in DOMAIN m.dl_url_file_map :
          register_redirection(m, u, v) \in Tables
<1> USE VariantsAssumption, BookAssumption, SameTables
<1>1. NoMaps \in Tables
  BY Proved!EmptyTables
<1>2. \A m : m \in Tables <=> AreTables(m)
  BY Proved!TablesAre
<1>3. \A m \in Tables, u \in Urls, f \in LocalFiles : register_download(m, u, f) \in Tables
  BY Proved!Registers
<1>4. \A m \in Tables, u \in Urls : \A v \in DOMAIN m.dl_url_file_map :
         register_redirection(m, u, v) \in Tables
  BY Proved!Redirects
<1> QED BY <1>1, <1>2, <1>3, <1>4

\* Registering a file keeps the tables tables, whichever URL it is entered as.
LEMMA RegisterTyped ==
    ASSUME TypeOK, running, NEW u \in Urls, NEW file \in LocalFiles,
           Register(u, file)
    PROVE  AreTables(maps') /\ asserted' \in BOOLEAN
<1> DEFINE saved == register_download(maps, u, file)
           redirected == call.redirection_count > 0 /\ call.origurl # u
           known == IF redirected THEN register_redirection(saved, call.origurl, u)
                    ELSE saved
<1>1. maps \in Tables /\ call.origurl \in Urls
  BY TableFacts DEF TypeOK
<1>2. saved \in Tables
  BY <1>1, TableFacts
<1>3. /\ asserted' = (redirected /\ u \notin DOMAIN saved.dl_url_file_map)
      /\ maps' = IF asserted' THEN saved ELSE Book!Typed(known, call.u, file)
  BY DEF Register
<1> HIDE DEF saved
<1>4. ~asserted' => known \in Tables
  <2>1. CASE redirected
    BY <1>1, <1>2, <1>3, <2>1, TableFacts
  <2>2. CASE ~redirected
    BY <1>2, <2>2
  <2> QED BY <2>1, <2>2
<1> HIDE DEF known
<1>5. \A m \in Tables : Book!Typed(m, call.u, file) \in Tables
  BY DEF Book!Typed, Book!register_html, Book!register_css, Tables
<1> QED BY <1>2, <1>3, <1>4, <1>5, TableFacts

\* What every way out of a call does.
LEMMA Returned ==
    ASSUME TypeOK, StatusRanked, running, NEW result \in Results, NEW newloc,
           Return(result, newloc)
    PROVE  /\ ~running' /\ running' \in BOOLEAN /\ call' = NoCall
           /\ method' \in Methods
           /\ StatusRanked' /\ informed' \subseteq Results
           /\ final_exit_status' \in {get_status_for_err[r] : r \in Results}
<1>1. /\ running' = FALSE /\ call' = NoCall
      /\ inform_exit_status(result) /\ informed' = informed \cup {result}
  BY DEF Return
<1>2. method' \in Methods
  BY DEF Return, RESTORE_METHOD, TypeOK
<1> QED BY <1>1, <1>2, StatusInformed DEF TypeOK

Bounded == CallsSound /\ Reserve

\* No call has begun.
LEMMA BoundedStarts == Init => Bounded
<1> SUFFICES ASSUME Init PROVE Bounded
  OBVIOUS
<1>1. AreTables(maps) /\ opt \in Opts /\ asserted = FALSE
  BY TableFacts DEF Init, Book!Init, Book!NoMaps, NoMaps,
     Book!EmptyTable, EmptyTable
<1>2. final_exit_status \in {get_status_for_err[r] : r \in Results}
  BY DEF Init, get_status_for_err, Results
<1>3. StatusRanked
  <2>1. {get_status_for_err[r] : r \in informed} \ {0} = {}
    BY DEF Init
  <2> QED BY <2>1 DEF Init, StatusRanked
<1>4. calls \in 0..Calls /\ method \in Methods /\ informed \subseteq Results
  BY BoundsAssumption DEF Init, Methods
<1> QED
  BY <1>1, <1>2, <1>3, <1>4 DEF Init, Bounded, CallsSound, TypeOK, RequestBound, Reserve

\* Every step stays within the bounds, whichever way a call goes on or ends.
LEMMA BoundedStays ==
    ASSUME Bounded, [Next]_vars
    PROVE  Bounded'
<1> USE BoundsAssumption
<1>0. TypeOK /\ StatusRanked
  BY DEF Bounded, CallsSound
<1>1. ASSUME ~running', Next, informed' \subseteq Results,
             running' \in BOOLEAN, call' = NoCall, method' \in Methods, StatusRanked',
             final_exit_status' \in {get_status_for_err[r] : r \in Results},
             opt' = opt, calls' \in 0..Calls, AreTables(maps'), asserted' \in BOOLEAN
      PROVE  Bounded'
  BY <1>0, <1>1 DEF Bounded, CallsSound, TypeOK, RequestBound, Reserve
<1>2. CASE Enter
  <2>1. AreTables(maps') /\ opt' = opt /\ asserted' = asserted /\ method' = method
        /\ calls' \in 0..Calls
    BY <1>0, <1>2 DEF Enter, TypeOK, book
  <2>2. ASSUME running', NEW o \in Urls, UNCHANGED <<final_exit_status, informed>>,
               call' = [origurl |-> o, orig_parsed |-> Parsed(o), u |-> Parsed(o),
                        utf8_encode |-> Converted(o),
                        redirection_count |-> 0, iri_fallbacked |-> FALSE,
                        method_suspended |-> FALSE, saved_method |-> NoMethod,
                        requests |-> 1, seeother |-> FALSE],
               running' = TRUE
        PROVE  Bounded'
    <3>0. PICK v \in Urls, encode \in BOOLEAN : v = Parsed(o) /\ encode = Converted(o)
      BY <1>0, ParsedUrl DEF TypeOK
    <3>1. call' \in CallType /\ Reserve' /\ RequestBound'
      BY <2>2, <3>0 DEF CallType, Methods, Reserve, RequestBound
    <3>2. StatusRanked'
      BY <1>0, <2>2 DEF StatusRanked
    <3> QED BY <1>0, <2>1, <2>2, <3>1, <3>2 DEF Bounded, CallsSound, TypeOK, CallType
  <2>3. ASSUME inform_exit_status("URLERROR"), informed' = informed \cup {"URLERROR"},
               UNCHANGED <<running, call>>
        PROVE  Bounded'
    <3>1. "URLERROR" \in Results
      BY DEF Results, get_status_for_err
    <3>2. /\ StatusRanked' /\ informed' \subseteq Results
          /\ final_exit_status' \in {get_status_for_err[r] : r \in Results}
      BY <1>0, <2>3, <3>1, StatusInformed DEF TypeOK
    <3> QED BY <1>0, <1>1, <1>2, <2>1, <2>3, <3>2 DEF TypeOK, Enter, Next
  <2> QED BY <1>2, <2>2, <2>3 DEF Enter
<1>3. ASSUME NEW result \in Results, NEW newloc, running, Return(result, newloc), Next,
             opt' = opt, calls' = calls, AreTables(maps'), asserted' \in BOOLEAN
      PROVE  Bounded'
  BY <1>0, <1>1, <1>3, Returned DEF TypeOK
<1>4. {"PROXERR", "NEWLOCATION", "WRONGCODE", "RETROK"} \cup Errors \subseteq Results
  BY DEF Results, Errors, get_status_for_err
<1>5. CASE ProxyError
  BY <1>0, <1>3, <1>4, <1>5 DEF ProxyError, book, Next, TypeOK
<1>6. CASE BadLocation
  BY <1>0, <1>3, <1>4, <1>6 DEF BadLocation, book, Next, TypeOK
<1>7. CASE TooManyRedirections
  BY <1>0, <1>3, <1>4, <1>7 DEF TooManyRedirections, book, Next, TypeOK
<1>8. CASE Redirected
  <2>1. PICK to \in Urls, keep \in BOOLEAN : Follow(to, keep)
    BY <1>8 DEF Redirected
  <2>2. running /\ call \in CallType /\ call.redirection_count + 1 <= max_redirect
    BY <1>0, <1>8 DEF Redirected, TypeOK, CallType
  <2>3. UNCHANGED <<book, running, last, calls, final_exit_status, informed>>
    BY <1>8 DEF Redirected
  <2> DEFINE moved == [call EXCEPT !.u = Parsed(to), !.utf8_encode = Converted(to),
                              !.redirection_count = @ + 1,
                              !.requests = @ + 1, !.seeother = @ \/ ~keep]
  <2>4. /\ moved \in CallType
        /\ moved.requests = call.requests + 1
        /\ moved.redirection_count = call.redirection_count + 1
    <3>1. PICK count \in 0..max_redirect : count = call.redirection_count + 1
      BY <2>2 DEF CallType
    <3>2. PICK requests \in Nat : requests = call.requests + 1
      BY <2>2 DEF CallType
    <3>3. PICK seeother \in BOOLEAN : seeother = (call.seeother \/ ~keep)
      OBVIOUS
    <3>4. PICK encode \in BOOLEAN, v \in Urls : encode = Converted(to) /\ v = Parsed(to)
      BY <1>0, ParsedUrl DEF TypeOK
    <3>5. moved = [call EXCEPT !.u = v, !.utf8_encode = encode,
                               !.redirection_count = count,
                               !.requests = requests, !.seeother = seeother]
      BY <3>1, <3>2, <3>3, <3>4
    <3> HIDE DEF moved
    <3> QED BY <2>2, <3>1, <3>2, <3>5 DEF CallType
  <2>5. call' = (IF keep THEN moved ELSE SUSPEND_METHOD(moved))
        /\ method' = (IF keep THEN method ELSE NoMethod)
    BY <2>1 DEF Follow
  <2> HIDE DEF moved
  <2>6. /\ call' \in CallType
        /\ call'.requests = call.requests + 1
        /\ call'.redirection_count = call.redirection_count + 1
    BY <1>0, <2>4, <2>5 DEF SUSPEND_METHOD, CallType, TypeOK
  <2>7. Reserve' /\ RequestBound'
    <3>1. call.requests <= 2 * (call.redirection_count + 1)
      BY <2>2 DEF Bounded, Reserve, CallType
    <3> QED BY <2>2, <2>3, <2>6, <3>1 DEF Reserve, RequestBound, CallType
  <2>8. StatusRanked' /\ method' \in Methods
    BY <1>0, <2>3, <2>5 DEF StatusRanked, TypeOK, Methods
  <2> QED BY <1>0, <2>2, <2>3, <2>6, <2>7, <2>8
          DEF Bounded, CallsSound, TypeOK, CallType, book
<1>9. CASE Fallback
  <2>1. running /\ call \in CallType /\ call.utf8_encode
    BY <1>0, <1>9 DEF Fallback, TypeOK, CallType
  <2>2. UNCHANGED <<book, running, method, last, calls, final_exit_status, informed>>
    BY <1>9 DEF Fallback
  <2>3. Plain(call.origurl) \in Urls
    BY <1>0, <1>9, <2>1, ParsedUrl DEF TypeOK, CallType, Fallback
  <2>4. call' = [call EXCEPT !.u = Plain(call.origurl), !.utf8_encode = FALSE,
                            !.iri_fallbacked = TRUE,
                            !.requests = @ + 1, !.seeother = FALSE]
    BY <1>9 DEF Fallback
  <2>5. /\ call' \in CallType
        /\ call'.requests = call.requests + 1 /\ ~call'.utf8_encode
        /\ call'.redirection_count = call.redirection_count
    <3>1. PICK requests \in Nat : requests = call.requests + 1
      BY <2>1 DEF CallType
    <3>2. PICK plain \in Urls : plain = Plain(call.origurl)
      BY <2>3
    <3>3. call' = [call EXCEPT !.u = plain, !.utf8_encode = FALSE,
                               !.iri_fallbacked = TRUE,
                               !.requests = requests, !.seeother = FALSE]
      BY <2>4, <3>1, <3>2
    <3> QED BY <2>1, <3>1, <3>3 DEF CallType
  <2>6. Reserve' /\ RequestBound'
    <3>1. call.requests + 1 <= 2 * (call.redirection_count + 1)
      BY <2>1 DEF Bounded, Reserve, CallType
    <3> QED BY <2>1, <2>2, <2>5, <3>1 DEF Reserve, RequestBound, CallType
  <2>7. StatusRanked'
    BY <1>0, <2>2 DEF StatusRanked
  <2> QED BY <1>0, <2>1, <2>2, <2>5, <2>6, <2>7
          DEF Bounded, CallsSound, TypeOK, CallType, book
<1>10. CASE Fetched
  <2>1. PICK file \in LocalFiles : Register(call.u, file)
    BY <1>10 DEF Fetched
  <2>2. AreTables(maps') /\ asserted' \in BOOLEAN
    BY <1>0, <1>10, <2>1, RegisterTyped DEF Fetched, TypeOK
  <2>3. running /\ Return("RETROK", NewLoc) /\ opt' = opt /\ calls' = calls
    BY <1>10 DEF Fetched
  <2> QED BY <1>3, <1>4, <1>10, <2>2, <2>3 DEF Next
<1>11. CASE Failed
  <2>1. AreTables(maps') /\ asserted' \in BOOLEAN
    <3>1. CASE UNCHANGED <<maps, asserted>>
      BY <1>0, <3>1 DEF TypeOK
    <3>2. ASSUME NEW u \in {call.u, Plain(call.origurl)} \ {NoUrl},
                 NEW file \in LocalFiles, Register(u, file)
          PROVE  AreTables(maps') /\ asserted' \in BOOLEAN
      <4>1. running /\ u \in Urls
        BY <1>0, <1>11, ParsedUrl DEF Failed, TypeOK
      <4> QED BY <1>0, <3>2, <4>1, RegisterTyped
    <3>3. ASSUME ~UNCHANGED <<maps, asserted>>
          PROVE  \E u \in {call.u, Plain(call.origurl)} \ {NoUrl}, file \in LocalFiles :
                    Register(u, file)
      <4>1. PICK begun \in BOOLEAN, file \in LocalFiles :
               LET u == IF call.utf8_encode /\ ~begun THEN Plain(call.origurl) ELSE call.u
               IN  u # NoUrl /\ Register(u, file)
        BY <1>11, <3>3 DEF Failed, book
      <4> QED BY <4>1
    <3> QED BY <3>1, <3>2, <3>3
  <2>2. PICK err \in Errors : Return(err, NewLoc)
    BY <1>11 DEF Failed
  <2>3. running /\ opt' = opt /\ calls' = calls
    BY <1>11 DEF Failed
  <2> QED BY <1>3, <1>4, <1>11, <2>1, <2>2, <2>3 DEF Next
<1>12. CASE UNCHANGED vars
  BY <1>12 DEF vars, Bounded, CallsSound, TypeOK, RequestBound, StatusRanked, Reserve,
     Methods
<1> QED
  BY <1>2, <1>5, <1>6, <1>7, <1>8, <1>9, <1>10, <1>11, <1>12 DEF Next

\* However servers answer, retrieve_url calls http_loop at most twice per redirection
\* allowed, and the exit status is the most important of the results it was told.
THEOREM CallsStaySound == Spec => []CallsSound
<1>1. Bounded => CallsSound
  BY DEF Bounded
<1> QED BY <1>1, BoundedStarts, BoundedStays, PTL DEF Spec

-----------------------------------------------------------------------------
\* A method that is suspended is that of the command line, and none is used
\* meanwhile; before the retry it is suspended exactly after a redirection that
\* asked for it.
MethodInv ==
    /\ ~running => method = Method
    /\ running => /\ call.method_suspended =>
                        call.saved_method = Method /\ method = NoMethod
                  /\ ~call.method_suspended => method = Method
                  /\ ~call.iri_fallbacked => (call.seeother <=> call.method_suspended)

\* Every step keeps track of the method, and every way out restores it.
LEMMA MethodStays ==
    ASSUME TypeOK, MethodInv, [Next]_vars
    PROVE  MethodInv'
<1>1. ASSUME running, NEW result, NEW newloc, Return(result, newloc)
      PROVE  MethodInv'
  BY <1>1 DEF Return, RESTORE_METHOD, MethodInv, TypeOK
<1>2. CASE Enter
  BY <1>2 DEF Enter, MethodInv
<1>3. CASE ProxyError \/ BadLocation \/ TooManyRedirections \/ Fetched
  BY <1>1, <1>3 DEF ProxyError, BadLocation, TooManyRedirections, Fetched
<1>4. CASE Failed
  <2>1. PICK err \in Errors : Return(err, NewLoc)
    BY <1>4 DEF Failed
  <2> QED BY <1>1, <1>4, <2>1 DEF Failed
<1>5. CASE Redirected
  <2>1. PICK to \in Urls, keep \in BOOLEAN : Follow(to, keep)
    BY <1>5 DEF Redirected
  <2>2. running /\ running' = running /\ call \in CallType
    BY <1>5 DEF Redirected, TypeOK, CallType
  <2> DEFINE moved == [call EXCEPT !.u = Parsed(to), !.utf8_encode = Converted(to),
                              !.redirection_count = @ + 1,
                              !.requests = @ + 1, !.seeother = @ \/ ~keep]
  <2>3. call' = (IF keep THEN moved ELSE SUSPEND_METHOD(moved))
        /\ method' = (IF keep THEN method ELSE NoMethod)
    BY <2>1 DEF Follow
  <2>4. /\ moved.method_suspended = call.method_suspended
        /\ moved.saved_method = call.saved_method
        /\ moved.iri_fallbacked = call.iri_fallbacked
        /\ moved.seeother <=> (call.seeother \/ ~keep)
        /\ moved = [moved EXCEPT !.u = Parsed(to)]
    BY <2>2 DEF CallType
  <2> HIDE DEF moved
  <2>5. CASE keep
    BY <2>2, <2>3, <2>4, <2>5 DEF MethodInv
  <2>6. CASE ~keep /\ call.method_suspended
    <3>1. call' = moved /\ method' = NoMethod
      BY <2>3, <2>4, <2>6 DEF SUSPEND_METHOD
    <3> QED BY <2>2, <2>4, <2>6, <3>1 DEF MethodInv
  <2>7. CASE ~keep /\ ~call.method_suspended
    <3>1. call' = [moved EXCEPT !.method_suspended = TRUE, !.saved_method = method]
          /\ method' = NoMethod
      BY <2>3, <2>4, <2>7 DEF SUSPEND_METHOD
    <3>2. /\ call'.method_suspended /\ call'.saved_method = method
          /\ call'.iri_fallbacked = call.iri_fallbacked /\ call'.seeother
      BY <2>2, <2>4, <2>7, <3>1 DEF CallType, moved
    <3> QED BY <2>2, <2>7, <3>1, <3>2 DEF MethodInv
  <2> QED BY <2>5, <2>6, <2>7
<1>6. CASE Fallback
  <2>1. /\ running /\ running' = running /\ call \in CallType /\ method' = method
        /\ call' = [call EXCEPT !.u = Plain(call.origurl), !.utf8_encode = FALSE,
                                !.iri_fallbacked = TRUE,
                                !.requests = @ + 1, !.seeother = FALSE]
    BY <1>6 DEF Fallback, TypeOK, CallType
  <2>2. /\ call'.method_suspended = call.method_suspended
        /\ call'.saved_method = call.saved_method
        /\ call'.iri_fallbacked
    BY <2>1 DEF CallType
  <2> QED BY <2>1, <2>2 DEF MethodInv
<1>7. CASE UNCHANGED vars
  BY <1>7 DEF vars, MethodInv
<1> QED BY <1>2, <1>3, <1>4, <1>5, <1>6, <1>7 DEF Next

\* The method of the command line is back after every call, whichever of its exits
\* it took; and a request has it unless a redirection other than 307 led to it.
THEOREM MethodStaysKept == Spec => []MethodKept
<1>1. Init => MethodInv
  BY DEF Init, MethodInv
<1>2. Bounded => TypeOK
  BY DEF Bounded, CallsSound
<1>3. Bounded /\ MethodInv => MethodKept
  <2> SUFFICES ASSUME Bounded, MethodInv PROVE MethodKept
    OBVIOUS
  <2> QED BY DEF MethodInv, MethodKept, MethodRestored, MethodFollowsUnlessRetried
<1> QED BY <1>1, <1>2, <1>3, BoundedStarts, BoundedStays, MethodStays, PTL DEF Spec

-----------------------------------------------------------------------------
\* While a call runs: no assertion has failed; only strings that are converted to
\* UTF-8 are retried; and before a redirection or the retry the URL is the one
\* asked for.
Origin ==
    running =>
        /\ ~asserted
        /\ call.utf8_encode => DOMAIN opt.unencoded # {}
        /\ call.redirection_count = 0 /\ ~call.iri_fallbacked => call.u = call.orig_parsed

\* Every step knows where the call is.
LEMMA OriginStays ==
    ASSUME TypeOK, Origin, [Next]_vars
    PROVE  Origin'
<1>1. CASE Enter
  <2>1. UNCHANGED <<opt, asserted>> /\ ~asserted /\ ~running
    BY <1>1 DEF Enter, book
  <2>2. ASSUME NEW o \in Urls,
               call' = [origurl |-> o, orig_parsed |-> Parsed(o), u |-> Parsed(o),
                        utf8_encode |-> Converted(o),
                        redirection_count |-> 0, iri_fallbacked |-> FALSE,
                        method_suspended |-> FALSE, saved_method |-> NoMethod,
                        requests |-> 1, seeother |-> FALSE]
        PROVE  Origin'
    <3>1. call'.u = call'.orig_parsed /\ call'.utf8_encode = Converted(o)
      BY <2>2
    <3>2. Converted(o) => DOMAIN opt.unencoded # {}
      BY ParsedUrl DEF TypeOK
    <3> QED BY <2>1, <3>1, <3>2 DEF Origin
  <2>3. CASE running' = running
    BY <2>1, <2>3 DEF Origin
  <2> QED BY <1>1, <2>2, <2>3 DEF Enter
<1>2. CASE ProxyError \/ BadLocation \/ TooManyRedirections \/ Fetched
  BY <1>2 DEF ProxyError, BadLocation, TooManyRedirections, Fetched, Return, Origin
<1>3. CASE Failed
  BY <1>3 DEF Failed, Return, Origin
<1>4. CASE Redirected
  <2>1. PICK to \in Urls, keep \in BOOLEAN : Follow(to, keep)
    BY <1>4 DEF Redirected
  <2>2. /\ running /\ call \in CallType /\ UNCHANGED <<opt, asserted>>
    BY <1>4 DEF Redirected, TypeOK, CallType, book
  <2> DEFINE moved == [call EXCEPT !.u = Parsed(to), !.utf8_encode = Converted(to),
                              !.redirection_count = @ + 1,
                              !.requests = @ + 1, !.seeother = @ \/ ~keep]
  <2>3. call' = (IF keep THEN moved ELSE SUSPEND_METHOD(moved))
    BY <2>1 DEF Follow
  <2>4. /\ moved.utf8_encode = Converted(to)
        /\ moved.redirection_count = call.redirection_count + 1
    BY <2>2 DEF CallType
  <2>5. /\ SUSPEND_METHOD(moved).utf8_encode = moved.utf8_encode
        /\ SUSPEND_METHOD(moved).redirection_count = moved.redirection_count
    BY <2>2 DEF SUSPEND_METHOD, CallType
  <2> HIDE DEF moved
  <2>6. call'.utf8_encode = Converted(to) /\ call'.redirection_count # 0
    BY <2>2, <2>3, <2>4, <2>5 DEF CallType
  <2>7. Converted(to) => DOMAIN opt.unencoded # {}
    BY ParsedUrl DEF TypeOK
  <2> QED BY <2>2, <2>6, <2>7 DEF Origin
<1>5. CASE Fallback
  <2>1. /\ running /\ call \in CallType /\ UNCHANGED <<opt, asserted>>
        /\ call' = [call EXCEPT !.u = Plain(call.origurl), !.utf8_encode = FALSE,
                                !.iri_fallbacked = TRUE,
                                !.requests = @ + 1, !.seeother = FALSE]
    BY <1>5 DEF Fallback, TypeOK, CallType, book
  <2>2. ~call'.utf8_encode /\ call'.iri_fallbacked
    BY <2>1 DEF CallType
  <2> QED BY <2>1, <2>2 DEF Origin
<1>6. CASE UNCHANGED vars
  BY <1>6 DEF vars, Origin
<1> QED BY <1>1, <1>2, <1>3, <1>4, <1>5, <1>6 DEF Next

\* The URL whose download the tables are told of: origurl after a redirection.
From == IF call.redirection_count > 0 /\ call.origurl # call.u
        THEN call.origurl ELSE call.u

\* A file that is saved and registered is a download for the tables.
LEMMA RegisterIsDownload ==
    ASSUME TypeOK, Origin, running, NEW file \in LocalFiles, opt' = opt,
           SaveAs(file), Register(call.u, file)
    PROVE  Book!Download(From, call.u, file)
<1> DEFINE saved == register_download(maps, call.u, file)
           redirected == call.redirection_count > 0 /\ call.origurl # call.u
<1>1. /\ asserted' = (redirected /\ call.u \notin DOMAIN saved.dl_url_file_map)
      /\ maps' = IF asserted' THEN saved
                 ELSE Book!Typed(IF redirected
                                 THEN register_redirection(saved, call.origurl, call.u)
                                 ELSE saved, call.u, file)
      /\ led' = led \cup {<<From, call.u>>}
  BY DEF Register, From
<1>2. From = call.u <=> ~redirected
  BY DEF From
<1>3. \A m, u, f : /\ Book!register_download(m, u, f) = register_download(m, u, f)
                   /\ Book!register_redirection(m, u, f) = register_redirection(m, u, f)
  BY DEF Book!register_download, register_download,
         Book!register_redirection, register_redirection, Book!Put, Put,
         Book!dissociate_urls_from_file, dissociate_urls_from_file,
         Book!match_except_index, match_except_index, Book!Restrict, Restrict
<1>4. disk' = Book!Put(disk, file, Book!Saved(call.u, file)) /\ file \in Book!Names(call.u)
  BY DEF SaveAs, Book!Put, Put
<1>5. ~asserted
  BY DEF Origin
<1> HIDE DEF saved
<1>6. asserted' = (From # call.u /\ ~(call.u \in DOMAIN saved.dl_url_file_map))
  BY <1>1, <1>2
<1>7. maps' = IF asserted' THEN saved
              ELSE Book!Typed(IF From = call.u THEN saved
                              ELSE Book!register_redirection(saved, From, call.u),
                              call.u, file)
  BY <1>1, <1>2, <1>3 DEF From
<1>8. saved = Book!register_download(maps, call.u, file)
  BY <1>3 DEF saved
<1> QED BY <1>1, <1>4, <1>5, <1>6, <1>7, <1>8 DEF Book!Download

\* What a step does to the tables.
LEMMA BookSteps ==
    ASSUME IriAssumption, TypeOK, Origin, [Next]_vars
    PROVE  \/ UNCHANGED book
           \/ running /\ \E file \in LocalFiles : Book!Fail(call.u, file)
           \/ running /\ \E file \in LocalFiles : Book!Download(From, call.u, file)
<1>1. CASE Enter \/ ProxyError \/ BadLocation \/ TooManyRedirections \/ Redirected
           \/ Fallback \/ UNCHANGED vars
  BY <1>1 DEF Enter, ProxyError, BadLocation, TooManyRedirections, Redirected,
              Fallback, vars, book
<1>2. CASE Fetched
  <2>1. PICK file \in LocalFiles : SaveAs(file) /\ Register(call.u, file)
    BY <1>2 DEF Fetched
  <2>2. running /\ opt' = opt
    BY <1>2 DEF Fetched
  <2> QED BY <2>1, <2>2, RegisterIsDownload
<1>3. CASE Failed
  <2>0. running /\ call \in CallType /\ opt \in Opts /\ opt' = opt /\ ~asserted
    BY <1>3 DEF Failed, TypeOK, CallType, Origin
  <2>1. PICK begun \in BOOLEAN :
           \/ /\ opt.content_on_error
              /\ \E file \in LocalFiles :
                    /\ SaveAs(file)
                    /\ Register(IF call.utf8_encode /\ ~begun THEN Plain(call.origurl)
                                ELSE call.u, file)
           \/ /\ ~opt.content_on_error /\ opt.failures
              /\ \E file \in LocalFiles : SaveAs(file)
              /\ UNCHANGED <<maps, led, asserted>>
           \/ UNCHANGED book
    BY <1>3 DEF Failed
  <2>2. CASE opt.content_on_error
    <3>1. ~call.utf8_encode
      BY <2>0, <2>2 DEF IriAssumption, Origin
    <3>2. UNCHANGED book \/ \E file \in LocalFiles : SaveAs(file) /\ Register(call.u, file)
      BY <2>1, <2>2, <3>1
    <3> QED BY <2>0, <3>2, RegisterIsDownload
  <2>3. CASE ~opt.content_on_error
    <3>1. ASSUME NEW file \in LocalFiles, SaveAs(file), opt.failures,
                 UNCHANGED <<maps, led, asserted>>
          PROVE  Book!Fail(call.u, file)
      BY <2>0, <3>1 DEF SaveAs, Book!Fail, Book!Put, Put
    <3> QED BY <2>0, <2>1, <2>3, <3>1
  <2> QED BY <2>2, <2>3
<1> QED BY <1>1, <1>2, <1>3 DEF Next

\* retrieve_url uses the tables as DownloadMap says: each step of a call downloads
\* into them, fails to, or leaves them alone.
THEOREM CallsImplementDownloadMap ==
    ASSUME IriAssumption
    PROVE  Spec => ImplementsDownloadMap
<1>1. Init => Book!Init /\ Origin
  BY DEF Init, Origin
<1>2. ASSUME Bounded, Origin, [Next]_vars
      PROVE  [Book!Next]_(Book!vars)
  <2>1. TypeOK
    BY <1>2 DEF Bounded, CallsSound
  <2>2. running => call.u \in Urls /\ From \in Urls
    BY <2>1 DEF TypeOK, From
  <2> QED BY <1>2, <2>1, <2>2, BookSteps DEF Book!vars, Book!Next, book
<1>3. Bounded => TypeOK
  BY DEF Bounded, CallsSound
<1> QED
  BY <1>1, <1>2, <1>3, BoundedStarts, BoundedStays, OriginStays, PTL
     DEF Spec, ImplementsDownloadMap, Book!Spec

-----------------------------------------------------------------------------
\* Both names stand for the same operators.
LEMMA SameOperators ==
    /\ \A url, file : /\ Proved!Names(url) = Book!Names(url)
                      /\ Proved!Saved(url, file) = Book!Saved(url, file)
    /\ \A m, u, f : /\ Proved!register_download(m, u, f) = Book!register_download(m, u, f)
                    /\ Proved!register_redirection(m, u, f) = Book!register_redirection(m, u, f)
                    /\ Proved!Typed(m, u, f) = Book!Typed(m, u, f)
                    /\ Proved!Put(m, u, f) = Book!Put(m, u, f)
    /\ \A u, v : Proved!match_except_index(u, v) <=> Book!match_except_index(u, v)
<1>1. \A url, file : /\ Proved!Names(url) = Book!Names(url)
                     /\ Proved!Saved(url, file) = Book!Saved(url, file)
  BY DEF Proved!Names, Book!Names, Proved!Saved, Book!Saved
<1>2. \A m, u, f :
         /\ Proved!register_download(m, u, f) = Book!register_download(m, u, f)
         /\ Proved!register_redirection(m, u, f) = Book!register_redirection(m, u, f)
         /\ Proved!Put(m, u, f) = Book!Put(m, u, f)
  BY DEF Book!register_download, Proved!register_download,
         Book!register_redirection, Proved!register_redirection, Book!Put, Proved!Put,
         Book!dissociate_urls_from_file, Proved!dissociate_urls_from_file,
         Book!match_except_index, Proved!match_except_index,
         Book!Restrict, Proved!Restrict
<1>3. \A m, u, f : Proved!Typed(m, u, f) = Book!Typed(m, u, f)
  BY DEF Book!Typed, Proved!Typed, Book!register_html, Proved!register_html,
         Book!register_css, Proved!register_css
<1>4. \A u, v : Proved!match_except_index(u, v) <=> Book!match_except_index(u, v)
  BY DEF Book!match_except_index, Proved!match_except_index
<1> QED BY <1>1, <1>2, <1>3, <1>4

\* ... and for the same actions and properties.
LEMMA SameActions ==
    /\ Book!Init => Proved!Init
    /\ \A url, file : Book!Fail(url, file) => Proved!Fail(url, file)
    /\ \A from, url, file :
          Book!Download(from, url, file) => Proved!Download(from, url, file)
    /\ Book!NamesAssumption => Proved!NamesAssumption
    /\ Proved!OwnerIsBase => OwnerIsBase
<1>1. Book!Init => Proved!Init
  BY DEF Book!Init, Proved!Init, Book!NoMaps, Proved!NoMaps,
         Book!EmptyTable, Proved!EmptyTable
<1>2. \A url, file : Book!Fail(url, file) => Proved!Fail(url, file)
  BY SameOperators DEF Book!Fail, Proved!Fail
<1>3. \A from, url, file :
         Book!Download(from, url, file) => Proved!Download(from, url, file)
  BY SameOperators DEF Book!Download, Proved!Download
<1>4. Book!NamesAssumption => Proved!NamesAssumption
  BY SameOperators
     DEF Book!NamesAssumption, Proved!NamesAssumption, Book!OneName, Proved!OneName,
         Book!OwnName, Proved!OwnName, Book!IndexIsLast, Proved!IndexIsLast
<1>5. Proved!OwnerIsBase => OwnerIsBase
  BY SameOperators DEF Proved!OwnerIsBase, OwnerIsBase, Book!OwnerIsBase
<1> QED BY <1>1, <1>2, <1>3, <1>4, <1>5

\* The invariant of the tables holds of those of retrieve_url, and every successful
\* call leaves the URL it was asked for in them.
Registered == Bounded /\ Origin /\ Proved!Inv /\ RequestedUrlKnown

\* Nothing is registered, and nothing has been asked for.
LEMMA RegisteredStarts == Init => Registered
<1> SUFFICES ASSUME Init PROVE Registered
  OBVIOUS
<1>1. Bounded /\ Origin /\ RequestedUrlKnown
  BY BoundedStarts DEF Init, Origin, RequestedUrlKnown
<1>2. Proved!Inv
  BY SameActions, VariantsAssumption, BookAssumption, Proved!InvStarts DEF Init
<1> QED BY <1>1, <1>2 DEF Registered

\* Every step of a call keeps the invariant; Fetched registers what was asked for.
LEMMA RegisteredStays ==
    ASSUME Book!NamesAssumption, IriAssumption, Registered, [Next]_vars
    PROVE  Registered'
<1>0. TypeOK /\ Origin /\ Proved!Inv /\ Proved!NamesAssumption /\ opt \in Opts
  BY SameActions DEF Registered, Bounded, CallsSound, TypeOK
<1>1. Bounded' /\ Origin'
  BY <1>0, BoundedStays, OriginStays DEF Registered
<1>2. running => call.u \in Urls /\ call.origurl \in Urls /\ From \in Urls
  BY <1>0 DEF TypeOK, From
<1>3. [Proved!Next]_(Proved!vars)
  <2>1. ASSUME UNCHANGED book PROVE UNCHANGED Proved!vars
    BY <2>1 DEF book, Proved!vars
  <2>2. ASSUME running, NEW file \in LocalFiles, Book!Fail(call.u, file)
        PROVE  Proved!Next
    BY <1>2, <2>2, SameActions DEF Proved!Next
  <2>3. ASSUME running, NEW file \in LocalFiles, Book!Download(From, call.u, file)
        PROVE  Proved!Next
    BY <1>2, <2>3, SameActions DEF Proved!Next
  <2> QED BY <1>0, <2>1, <2>2, <2>3, BookSteps
<1>4. Proved!Inv'
  BY <1>0, <1>3, VariantsAssumption, BookAssumption, Proved!InvStays
<1>5. RequestedUrlKnown'
  <2>1. CASE UNCHANGED <<last, opt, maps>>
    BY <2>1 DEF Registered, RequestedUrlKnown
  <2>2. CASE ~last'.ok
    BY <2>2 DEF RequestedUrlKnown
  <2>3. ASSUME Fetched, ~last'.retried,
               last'.redirected => last'.origurl = last'.orig_parsed
        PROVE  last'.orig_parsed \in DOMAIN maps'.dl_url_file_map
    <3>1. PICK file \in LocalFiles : SaveAs(file) /\ Register(call.u, file)
      BY <2>3 DEF Fetched
    <3>2. /\ running /\ opt' = opt /\ call \in CallType
          /\ last' = [origurl |-> call.origurl, orig_parsed |-> call.orig_parsed,
                      redirected |-> call.redirection_count > 0,
                      retried |-> call.iri_fallbacked, ok |-> TRUE, newloc |-> NewLoc]
      BY <1>0, <2>3 DEF Fetched, Return, TypeOK, CallType
    <3>3. Book!Download(From, call.u, file)
      BY <1>0, <3>1, <3>2, RegisterIsDownload
    <3>4. {From, call.u} \subseteq DOMAIN maps'.dl_url_file_map
      BY <1>0, <1>2, <3>2, <3>3, SameActions, VariantsAssumption, BookAssumption,
         Proved!DownloadRegisters
    <3>5. call.orig_parsed \in {From, call.u}
      <4>1. CASE call.redirection_count > 0
        <5>1. call.origurl = call.orig_parsed
          BY <2>3, <3>2, <4>1
        <5> QED BY <4>1, <5>1 DEF From
      <4>2. CASE ~(call.redirection_count > 0)
        <5>1. call.redirection_count = 0 /\ ~call.iri_fallbacked
          BY <2>3, <3>2, <4>2, BoundsAssumption DEF CallType
        <5> QED BY <1>0, <3>2, <5>1 DEF Origin
      <4> QED BY <4>1, <4>2
    <3> QED BY <3>2, <3>4, <3>5
  <2>4. CASE Enter \/ Redirected \/ Fallback \/ UNCHANGED vars
    BY <2>1, <2>4 DEF Enter, Redirected, Fallback, vars, book
  <2>5. CASE ProxyError \/ BadLocation \/ TooManyRedirections
    <3>1. ASSUME NEW result \in {"PROXERR", "NEWLOCATION", "WRONGCODE"},
                 NEW newloc, Return(result, newloc)
          PROVE  ~last'.ok
      BY <3>1 DEF Return
    <3> QED BY <2>2, <2>5, <3>1 DEF ProxyError, BadLocation, TooManyRedirections
  <2>6. CASE Failed
    <3>1. PICK err \in Errors : Return(err, NewLoc)
      BY <2>6 DEF Failed
    <3> QED BY <2>2, <2>6, <3>1 DEF Failed, Return, Errors, NoCall
  <2>7. CASE Fetched
    BY <2>3, <2>7 DEF RequestedUrlKnown
  <2> QED BY <2>4, <2>5, <2>6, <2>7 DEF Next
<1> QED BY <1>1, <1>4, <1>5 DEF Registered

\* The URL that was asked for has a file when the call has succeeded, and the links of
\* a file are resolved against the URL whose document it holds.
THEOREM UrlsStayRegistered ==
    ASSUME Book!NamesAssumption, IriAssumption
    PROVE  Spec => []UrlsRegistered
<1>1. ASSUME Registered PROVE UrlsRegistered
  <2>1. Proved!ConversionRight
    BY <1>1, SameActions, VariantsAssumption, BookAssumption, Proved!InvIsEnough DEF Registered
  <2> QED
    BY <1>1, <2>1, SameActions DEF Registered, UrlsRegistered, Proved!ConversionRight
<1> QED
  BY <1>1, RegisteredStarts, RegisteredStays, PTL DEF Spec
=============================================================================
