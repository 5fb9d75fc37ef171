--------------------------- MODULE HttpLoopProofs ---------------------------
(***************************************************************************)
(* Theorems about HttpLoop, for every document size, every admissible set  *)
(* of command lines and initial directories, and any number of reruns.     *)
(***************************************************************************)
EXTENDS HttpLoop, TLAPS, FiniteSetTheorems, WellFoundedInduction

(***************************************************************************)
(* Type correctness.  It is not inductive as it stands: restval is a       *)
(* natural number only because len, from which it is computed, is one      *)
(* whenever another try can follow ("already fully retrieved" stores a     *)
(* Content-Length that may be -1, but always ends the loop), and a body is *)
(* only ever written to a file that exists.                                *)
(***************************************************************************)
LenInv == \/ hs.len \in Nat
          \/ pc = "judge" /\ err = "RETRUNNEEDED"
          \/ pc = "done"

OutputInv == /\ opt.output_document /\ pc # "main" => Exists(OutDoc)
             /\ pc = "body" => Exists(Output)

TypeInv == TypeOK /\ LenInv /\ OutputInv

\* The records that start a try have their types.
LEMMA InitialRecords ==
    /\ ZeroStat \in HttpStat /\ ZeroStat.len \in Nat
    /\ ZeroLoop \in LoopLocals
    /\ NoRsp \in Responses
    /\ NoBody \in Bodies
    /\ Empty \in Files
<1>1. ZeroStat \in HttpStat /\ ZeroStat.len \in Nat
  BY DEF ZeroStat, HttpStat
<1>2. ZeroLoop \in LoopLocals
  BY DEF ZeroLoop, LoopLocals
<1>3. NoRsp \in Responses
  BY DEF NoRsp, Response, Responses
<1>4. NoBody \in Bodies /\ Empty \in Files
  BY DEF NoBody, Bodies, Empty, Files
<1> QED BY <1>1, <1>2, <1>3, <1>4

\* Remembering a file's size and time keeps the type of http_stat.
LEMMA TimestampType ==
    ASSUME NEW h \in HttpStat, NEW f, disk \in [DOMAIN disk -> Files]
    PROVE  /\ set_file_timestamp(h, f) \in HttpStat
           /\ set_file_timestamp(h, f).len = h.len
           /\ set_file_timestamp(h, f).restval = h.restval
BY DEF set_file_timestamp, HttpStat, Exists

\* check_file_output keeps the type of http_stat and both positions.
LEMMA CheckType ==
    ASSUME TypeOK
    PROVE  /\ check_file_output.hs \in HttpStat
           /\ check_file_output.hs.len = hs.len
           /\ check_file_output.hs.restval = hs.restval
<1> DEFINE checked == [hs EXCEPT !.existence_checked = TRUE]
<1>1. checked \in HttpStat /\ checked.len = hs.len /\ checked.restval = hs.restval
  BY DEF TypeOK, HttpStat
<1>2. \A f : /\ set_file_timestamp(checked, f) \in HttpStat
             /\ set_file_timestamp(checked, f).len = hs.len
             /\ set_file_timestamp(checked, f).restval = hs.restval
  BY <1>1, TimestampType DEF TypeOK
<1> HIDE DEF checked
<1> QED
  BY <1>1, <1>2 DEF check_file_output, TypeOK, checked

\* The response head leaves the positions alone.
LEMMA HeadersType ==
    ASSUME TypeOK
    PROVE  /\ Headers \in HttpStat
           /\ Headers.len = hs.len
           /\ Headers.restval = hs.restval
           /\ Measured \in HttpStat
           /\ Measured.len = hs.len
           /\ Measured.restval = hs.restval
<1>1. /\ check_file_output.hs \in HttpStat
      /\ check_file_output.hs.len = hs.len
      /\ check_file_output.hs.restval = hs.restval
  BY CheckType
<1>2. rsp \in Responses
  BY DEF TypeOK
<1>3. /\ Headers \in HttpStat
      /\ Headers.len = hs.len
      /\ Headers.restval = hs.restval
  BY <1>1, <1>2 DEF Headers, HttpStat, Responses
<1>4. Measured \in HttpStat /\ Measured.len = hs.len /\ Measured.restval = hs.restval
  BY <1>2, <1>3 DEF Measured, HttpStat, Responses
<1> QED BY <1>3, <1>4

\* Reading the body of an uninteresting response.
LEMMA DrainedType ==
    ASSUME NEW h \in HttpStat, NEW n \in PageReads, NEW r \in PageResults,
           h.len \in Nat
    PROVE  /\ Drained(h, n, r) \in HttpStat
           /\ Drained(h, n, r).len \in Nat
<1>1. n \in Nat /\ r \in {-2, -1, 0, 1}
  BY DEF PageReads, PageLen, PageResults
<1>2. h.restval + n \in Nat /\ h.restval + n \in Int
  BY <1>1 DEF HttpStat
<1>3. CASE opt.warc
  BY <1>1, <1>2, <1>3, Zenon DEF Drained, HttpStat
<1>4. CASE ~opt.warc
  BY <1>4 DEF Drained
<1> QED BY <1>3, <1>4

\* Marking a response as not saved.
LEMMA UnwantedType ==
    ASSUME NEW h \in HttpStat
    PROVE  Unwanted(h) \in HttpStat /\ Unwanted(h).len = 0
           /\ Unwanted(h).restval = 0
<1>1. 0 \in Int /\ 0 \in Nat /\ 0 \in {-2, -1, 0, 1}
  OBVIOUS
<1> QED BY <1>1, Zenon DEF Unwanted, HttpStat

\* The flags of *dt.
LEMMA FlagsType ==
    ASSUME TypeOK
    PROVE  /\ Flags \subseteq AllFlags
           /\ TypedFlags \subseteq AllFlags
           /\ TypedFlags \cup {"RETROKF"} \subseteq AllFlags
BY DEF TypeOK, Flags, TypedFlags, AllFlags

\* Every answer of the server is a response.
LEMMA AnswersType ==
    ASSUME TypeOK
    PROVE  Answers \subseteq Responses
<1>1. /\ site.html \in BOOLEAN /\ site.last_modified \in BOOLEAN
      /\ site.length \in BOOLEAN
  BY SitesAssumption DEF TypeOK
<1>2. ASSUME NEW k \in 0 .. Size - 1 PROVE k \in Nat /\ Size - k \in Int
  BY SizeAssumption
<1>4. /\ Size \in Int /\ PageLen \in Int /\ -1 \in Int
      /\ 0 \in Nat /\ 200 \in Nat /\ 206 \in Nat
      /\ Codes \subseteq Nat /\ {301, 304, 416} \subseteq Nat
  BY SizeAssumption DEF PageLen
<1>5. Whole \subseteq Responses
  BY <1>1, <1>4 DEF Whole, DocAnswer, Response, Responses
<1>6. Parts \subseteq Responses
  <2>1. \A k \in 0 .. Size - 1 : DocAnswer(206, Size - k, k) \in Responses
    BY <1>1, <1>2, <1>4 DEF DocAnswer, Response, Responses
  <2> QED BY <2>1, Zenon DEF Parts
<1>7. ASSUME NEW n \in Int PROVE Pages(n) \subseteq Responses
  <2>1. \A c \in Codes : Response(c, n, 0, FALSE, TRUE, FALSE) \in Responses
    BY <1>4 DEF Response, Responses
  <2> QED BY <2>1, Zenon DEF Pages
<1>8. ASSUME NEW l \in BOOLEAN PROVE Bare(l) \subseteq Responses
  <2> DEFINE S == {301, 304, 416}
  <2>1. \A c \in S : Response(c, -1, 0, FALSE, FALSE, l) \in Responses
    BY <1>4 DEF Response, Responses
  <2>2. Bare(l) = {Response(c, -1, 0, FALSE, FALSE, l) : c \in S}
    BY Zenon DEF Bare
  <2> HIDE DEF S
  <2> QED BY <2>1, <2>2, Zenon
<1>9. /\ Pages(-1) \subseteq Responses /\ Pages(PageLen) \subseteq Responses
      /\ Bare(TRUE) \subseteq Responses /\ Bare(FALSE) \subseteq Responses
  BY <1>4, <1>7, <1>8
<1>10. Answers \subseteq Whole \cup Parts \cup Pages(-1) \cup Pages(PageLen)
                         \cup Bare(TRUE) \cup Bare(FALSE)
  BY DEF Answers
<1> QED
  BY <1>5, <1>6, <1>9, <1>10

\* The restart position is a natural number.
LEMMA RestartType ==
    ASSUME TypeOK, hs.len \in Nat, NEW c \in Nat
    PROVE  Restart(c) \in Nat
<1>1. opt.start_pos \in Int
  BY OptsAssumption DEF TypeOK
<1>2. hs.restval \in Nat
  BY DEF TypeOK, HttpStat
<1>3. Exists(local_file) => disk[local_file].len \in Nat
  BY DEF TypeOK, Exists, Files
<1> QED
  BY <1>1, <1>2, <1>3 DEF Restart

\* Whatever gethttp returns, it returns it with the types intact.
LEMMA GethttpType ==
    ASSUME TypeInv, NEW value, NEW h \in HttpStat, NEW name, NEW flags,
           h.len \in Nat \/ value = "RETRUNNEEDED",
           flags \subseteq AllFlags, disk' \in [DOMAIN disk' -> Files],
           opt.output_document => disk' = disk, pc # "main",
           Gethttp(value, h, name, flags),
           UNCHANGED <<opt, site, loop, auth_finished, rsp, body, requests, runs>>
    PROVE  TypeInv'
<1>1. pc' \in Pcs
  BY DEF Gethttp, Pcs
<1>2. TypeOK'
  BY <1>1 DEF TypeInv, TypeOK, Gethttp
<1>3. LenInv'
  BY DEF LenInv, Gethttp
<1>4. OutputInv'
  BY DEF TypeInv, OutputInv, Gethttp, Exists
<1> QED BY <1>2, <1>3, <1>4 DEF TypeInv

\* Moving on inside the loop, or leaving it, keeps the types.
LEMMA MoveType ==
    ASSUME TypeInv, hs.len \in Nat \/ pc' = "done",
           pc' \in Pcs, hs' = hs, disk' \in [DOMAIN disk' -> Files],
           loop' \in LoopLocals, dt' \subseteq AllFlags,
           DOMAIN disk \subseteq DOMAIN disk', pc # "main", pc' # "body",
           UNCHANGED <<opt, site, auth_finished, rsp, body, requests, runs>>
    PROVE  TypeInv'
<1>1. TypeOK'
  BY DEF TypeInv, TypeOK
<1>2. LenInv'
  BY DEF LenInv
<1>3. OutputInv'
  BY DEF TypeInv, OutputInv, Exists
<1> QED BY <1>1, <1>2, <1>3 DEF TypeInv

\* Writing one file keeps the directory a directory.
LEMMA PutType ==
    ASSUME TypeOK, NEW f, NEW file \in Files
    PROVE  Put(f, file) \in [DOMAIN Put(f, file) -> Files]
BY DEF TypeOK, Put

\* So do moving a backup and opening the output.
LEMMA OpenType ==
    ASSUME TypeOK, NEW f
    PROVE  /\ rotate_backups(f) \in [DOMAIN rotate_backups(f) -> Files]
           /\ open_output_stream(f) \in [DOMAIN open_output_stream(f) -> Files]
<1>1. rotate_backups(f) \in [DOMAIN rotate_backups(f) -> Files]
  BY DEF TypeOK, rotate_backups, Exists
<1>2. open_output_stream(f) \in [DOMAIN open_output_stream(f) -> Files]
  <2> DEFINE rotated == IF opt.backups THEN rotate_backups(f) ELSE disk
             file == IF hs.restval > 0 /\ f \in DOMAIN rotated
                     THEN rotated[f] ELSE Empty
  <2>1. rotated \in [DOMAIN rotated -> Files]
    BY <1>1 DEF TypeOK
  <2> HIDE DEF rotated
  <2>2. file \in Files
    BY <2>1, InitialRecords
  <2> HIDE DEF file
  <2>3. CASE opt.output_document
    BY <2>3 DEF open_output_stream, TypeOK
  <2>4. CASE ~opt.output_document
    <3>1. open_output_stream(f) = [g \in DOMAIN rotated \cup {f} |->
                                     IF g = f THEN file ELSE rotated[g]]
      BY <2>4 DEF open_output_stream, rotated, file
    <3> QED BY <2>1, <2>2, <3>1
  <2> QED BY <2>3, <2>4
<1> QED BY <1>1, <1>2

\* n bytes of a body go to the file and are counted.
LEMMA WriteType ==
    ASSUME TypeOK, NEW n \in Nat, write_data(n), Exists(Output)
    PROVE  disk' \in [DOMAIN disk' -> Files] /\ body' \in Bodies
<1> DEFINE dropped == IF body.skip < n THEN body.skip ELSE n
<1>1. dropped \in Nat /\ n - dropped \in Nat /\ body.skip - dropped \in Nat
  BY DEF TypeOK, Bodies
<1>2. disk[Output] \in Files
  BY DEF TypeOK, Exists
<1>3. /\ body.pos + n \in Nat /\ body.read + n \in Nat
      /\ body.written + (n - dropped) \in Nat
      /\ disk[Output].len + (n - dropped) \in Nat
  BY <1>1, <1>2 DEF TypeOK, Bodies, Files
<1>4. body' = [body EXCEPT !.pos = @ + n, !.read = @ + n,
                           !.skip = @ - dropped,
                           !.written = @ + (n - dropped)]
  BY DEF write_data
<1>5. disk' \in [DOMAIN disk' -> Files]
  <2> DEFINE file == [len |-> disk[Output].len + (n - dropped),
                      good |-> disk[Output].good /\ body.doc
                                 /\ body.pos + dropped = disk[Output].len,
                      fresh |-> TRUE]
  <2>1. file \in Files
    BY <1>2, <1>3 DEF Files
  <2>2. disk' = disk \/ disk' = Put(Output, file)
    BY DEF write_data
  <2> QED BY <2>1, <2>2, PutType DEF TypeOK
<1> HIDE DEF dropped
<1>6. body' \in Bodies
  BY <1>1, <1>3, <1>4, Zenon DEF TypeOK, Bodies
<1> QED BY <1>5, <1>6

\* The initial states have the types.
LEMMA InitType == Init => TypeInv
<1> SUFFICES ASSUME Init PROVE TypeInv
  OBVIOUS
<1>1. /\ opt \in Opts /\ site \in Sites /\ pc \in Pcs
      /\ disk \in [DOMAIN disk -> Files] /\ dt \subseteq AllFlags
      /\ auth_finished \in BOOLEAN /\ requests \in Nat /\ runs \in Nat
  BY DisksAssumption DEF Init, Pcs
<1>2. loop \in LoopLocals /\ hs \in HttpStat /\ rsp \in Responses
      /\ body \in Bodies /\ hs.len \in Nat
  BY InitialRecords DEF Init
<1> QED BY <1>1, <1>2 DEF TypeInv, TypeOK, LenInv, OutputInv, Init

\* Starting wget and entering http_loop.
LEMMA EnterType ==
    ASSUME TypeInv, OpenOutputDocument \/ EnterHttpLoop \/ Rerun
    PROVE  TypeInv'
<1>1. CASE OpenOutputDocument
  <2>1. Put(OutDoc, Empty) \in [DOMAIN Put(OutDoc, Empty) -> Files]
    BY PutType, InitialRecords DEF TypeInv
  <2>2. disk' \in [DOMAIN disk' -> Files]
    BY <1>1, <2>1 DEF OpenOutputDocument, TypeInv, TypeOK
  <2>3. TypeOK'
    BY <1>1, <2>2 DEF OpenOutputDocument, TypeInv, TypeOK, Pcs
  <2>4. LenInv'
    BY <1>1 DEF OpenOutputDocument, TypeInv, LenInv
  <2>5. OutputInv'
    BY <1>1 DEF OpenOutputDocument, OutputInv, Exists, Put
  <2> QED BY <2>3, <2>4, <2>5 DEF TypeInv
<1>2. CASE EnterHttpLoop
  <2>1. pc = "enter" /\ pc' \in {"top", "done"} /\ disk' = disk
    BY <1>2 DEF EnterHttpLoop, Return
  <2>2. dt' \subseteq AllFlags
    BY <1>2 DEF EnterHttpLoop, TypeInv, TypeOK, AllFlags
  <2>3. hs' \in HttpStat /\ hs'.len \in Nat
    BY <1>2, InitialRecords, TimestampType
       DEF EnterHttpLoop, TypeInv, TypeOK
  <2>4. loop' \in LoopLocals
    <3>1. opt.warc \in BOOLEAN
      BY OptsAssumption DEF TypeInv, TypeOK
    <3>2. \E a, b \in BOOLEAN :
            loop' = [ZeroLoop EXCEPT !.got_name = a, !.send_head_first = b,
                                     !.force_full_retrieve = opt.warc]
      BY <1>2 DEF EnterHttpLoop
    <3> QED BY <3>1, <3>2, InitialRecords, Zenon DEF LoopLocals
  <2>5. TypeOK'
    BY <1>2, <2>1, <2>2, <2>3, <2>4
       DEF EnterHttpLoop, TypeInv, TypeOK, Pcs
  <2>6. LenInv' /\ OutputInv'
    BY <1>2, <2>1, <2>3
       DEF EnterHttpLoop, TypeInv, LenInv, OutputInv, Exists
  <2> QED BY <2>5, <2>6 DEF TypeInv
<1>3. CASE Rerun
  <2>1. /\ pc' \in Pcs /\ dt' \subseteq AllFlags /\ auth_finished' \in BOOLEAN
        /\ requests' \in Nat /\ runs' \in Nat
    <3>1. runs \in Nat
      BY DEF TypeInv, TypeOK
    <3>2. pc' = "main" /\ dt' = {} /\ auth_finished' = FALSE /\ requests' = 0
          /\ runs' = runs + 1
      BY <1>3, Zenon DEF Rerun
    <3>3. pc' \in Pcs /\ dt' \subseteq AllFlags /\ auth_finished' \in BOOLEAN
      BY <3>2, Zenon DEF Pcs
    <3> QED BY <3>1, <3>2, <3>3
  <2>2. /\ loop' \in LoopLocals /\ hs' \in HttpStat /\ hs'.len \in Nat
        /\ rsp' \in Responses /\ body' \in Bodies
    BY <1>3, InitialRecords, Zenon DEF Rerun
  <2>3. TypeOK'
    BY <1>3, <2>1, <2>2 DEF Rerun, TypeInv, TypeOK
  <2>4. LenInv' /\ OutputInv'
    BY <1>3, <2>2 DEF Rerun, LenInv, OutputInv
  <2> QED BY <2>3, <2>4 DEF TypeInv
<1> QED BY <1>1, <1>2, <1>3

\* One try up to the response head.
LEMMA RequestType ==
    ASSUME TypeInv,
           StartTry \/ ConnectFails \/ SendRequest \/ HeadFails \/ ReadHead
    PROVE  TypeInv'
<1>1. CASE StartTry
  <2>1. hs.len \in Nat
    BY <1>1 DEF StartTry, TypeInv, LenInv
  <2>2. loop.count + 1 \in Nat
    BY DEF TypeInv, TypeOK, LoopLocals
  <2>3. Restart(loop.count + 1) \in Nat
    BY <2>1, <2>2, RestartType DEF TypeInv
  <2>4. 0 \in Int /\ 0 \in Nat /\ -1 \in Int /\ -1 \in {-2, -1, 0, 1}
    OBVIOUS
  <2>5. hs' \in HttpStat /\ hs'.len \in Nat
    <3>1. hs' = [hs EXCEPT !.restval = Restart(loop.count + 1),
                           !.len = 0, !.contlen = -1, !.res = -1,
                           !.newloc = FALSE, !.remote_time = FALSE]
      BY <1>1, Zenon DEF StartTry
    <3>2. hs \in HttpStat
      BY DEF TypeInv, TypeOK
    <3> QED BY <2>3, <2>4, <3>1, <3>2, Zenon DEF HttpStat
  <2>6. loop' \in LoopLocals
    BY <1>1, <2>2 DEF StartTry, TypeInv, TypeOK, LoopLocals
  <2>7. dt' \subseteq AllFlags /\ requests' \in Nat /\ pc' \in Pcs
    BY <1>1 DEF StartTry, TypeInv, TypeOK, AllFlags, Pcs
  <2>8. TypeOK'
    BY <1>1, <2>5, <2>6, <2>7, InitialRecords DEF StartTry, TypeInv, TypeOK
  <2>9. LenInv' /\ OutputInv'
    BY <1>1, <2>5 DEF StartTry, TypeInv, LenInv, OutputInv, Exists
  <2> QED BY <2>8, <2>9 DEF TypeInv
<1>2. CASE ConnectFails \/ HeadFails
  <2>1. hs \in HttpStat /\ hs.len \in Nat /\ dt \subseteq AllFlags
        /\ disk \in [DOMAIN disk -> Files] /\ pc # "main"
    BY <1>2 DEF ConnectFails, HeadFails, TypeInv, LenInv, TypeOK
  <2>2. PICK e : Gethttp(e, hs, local_file, dt)
    BY <1>2 DEF ConnectFails, HeadFails
  <2> QED
    BY <1>2, <2>1, <2>2, GethttpType DEF ConnectFails, HeadFails
<1>3. CASE SendRequest
  <2>1. pc = "connect" /\ pc' = "sent" /\ dt' \subseteq AllFlags
    BY <1>3 DEF SendRequest, TypeInv, TypeOK
  <2> QED
    BY <1>3, <2>1 DEF SendRequest, TypeInv, TypeOK, LenInv, OutputInv, Exists,
                      Pcs
<1>4. CASE ReadHead
  <2>1. pc = "sent" /\ pc' = "head" /\ rsp' \in Responses
    BY <1>4, AnswersType DEF ReadHead, TypeInv
  <2> QED
    BY <1>4, <2>1 DEF ReadHead, TypeInv, TypeOK, LenInv, OutputInv, Exists, Pcs
<1> QED BY <1>1, <1>2, <1>3, <1>4

\* The exits of gethttp between the head and the body.
LEMMA HeadType ==
    ASSUME TypeInv,
           \/ MetalinkHead \/ RetryWithAuth \/ AuthFails \/ NameExists
           \/ NoContent \/ Redirected \/ NotModified \/ FullyRetrieved
           \/ WrongRange \/ NoBodyWanted
    PROVE  TypeInv'
<1>1. pc = "head" /\ disk' = disk
  BY DEF MetalinkHead, RetryWithAuth, AuthFails, NameExists, NoContent,
         Redirected, NotModified, FullyRetrieved, WrongRange, NoBodyWanted,
         HeadUnchanged
<1>2. /\ TypeOK /\ hs \in HttpStat /\ hs.len \in Nat /\ rsp \in Responses
      /\ dt \subseteq AllFlags /\ disk \in [DOMAIN disk -> Files]
  BY <1>1 DEF TypeInv, TypeOK, LenInv
<1>3. /\ Headers \in HttpStat /\ Headers.len \in Nat
      /\ Measured \in HttpStat /\ Measured.len \in Nat
  BY <1>2, HeadersType
<1>4. /\ Flags \subseteq AllFlags /\ TypedFlags \subseteq AllFlags
      /\ TypedFlags \cup {"RETROKF"} \subseteq AllFlags
  BY <1>2, FlagsType
<1>5. /\ Unwanted(Headers) \in HttpStat /\ Unwanted(Headers).len \in Nat
      /\ Unwanted(Measured) \in HttpStat /\ Unwanted(Measured).len \in Nat
  BY <1>3, UnwantedType
<1>6. {-1, 0} = PageResults
  BY DEF PageResults
<1>7. CASE RetryWithAuth
  <2>1. PICK n \in PageReads : hs' = Drained(hs, n, 0)
    BY <1>7 DEF RetryWithAuth
  <2>2. hs' \in HttpStat /\ hs'.len \in Nat
    BY <1>2, <1>6, <2>1, DrainedType
  <2>3. TypeOK'
    BY <1>1, <1>2, <1>7, <2>2 DEF RetryWithAuth, TypeOK, Pcs
  <2>4. LenInv' /\ OutputInv'
    BY <1>1, <1>7, <2>2 DEF RetryWithAuth, TypeInv, LenInv, OutputInv, Exists
  <2> QED BY <2>3, <2>4 DEF TypeInv
<1>8. ASSUME NEW value, NEW h \in HttpStat, NEW name, NEW flags,
             h.len \in Nat \/ value = "RETRUNNEEDED", flags \subseteq AllFlags,
             Gethttp(value, h, name, flags), HeadUnchanged
      PROVE  TypeInv'
  BY <1>1, <1>2, <1>8, GethttpType DEF HeadUnchanged
<1>9. CASE MetalinkHead
  BY <1>2, <1>8, <1>9 DEF MetalinkHead
<1>10. CASE NameExists
  BY <1>2, <1>8, <1>10 DEF NameExists
<1>11. CASE AuthFails
  <2>1. PICK n \in PageReads :
           \/ Gethttp("RETRFINISHED", Drained(hs, n, -1), local_file, dt)
           \/ Gethttp("AUTHFAILED", Drained(hs, n, 0), local_file, dt)
    BY <1>11, Zenon DEF AuthFails
  <2>2. /\ Drained(hs, n, -1) \in HttpStat /\ Drained(hs, n, -1).len \in Nat
        /\ Drained(hs, n, 0) \in HttpStat /\ Drained(hs, n, 0).len \in Nat
    BY <1>2, <1>6, DrainedType
  <2>3. HeadUnchanged
    BY <1>11 DEF AuthFails
  <2> QED BY <1>2, <1>8, <2>1, <2>2, <2>3, Zenon
<1>12. CASE NoContent
  BY <1>4, <1>5, <1>8, <1>12, Zenon DEF NoContent
<1>13. CASE Redirected
  <2>1. PICK n \in PageReads, r \in PageResults :
           Gethttp(IF opt.warc /\ r < 0 THEN "RETRFINISHED" ELSE "NEWLOCATION",
                   Drained(Unwanted(Headers), n, r),
                   check_file_output.name, Flags)
    BY <1>13, Zenon DEF Redirected
  <2>2. /\ Drained(Unwanted(Headers), n, r) \in HttpStat
        /\ Drained(Unwanted(Headers), n, r).len \in Nat
    BY <1>5, DrainedType
  <2>3. HeadUnchanged
    BY <1>13 DEF Redirected
  <2> QED BY <1>4, <1>8, <2>1, <2>2, <2>3, Zenon
<1>14. CASE NotModified
  BY <1>3, <1>4, <1>8, <1>14, Zenon DEF NotModified
<1>15. CASE WrongRange
  BY <1>3, <1>4, <1>8, <1>15, Zenon DEF WrongRange
<1>16. CASE FullyRetrieved
  <2>1. rsp.clen \in Int /\ 0 \in {-2, -1, 0, 1}
    BY <1>2 DEF Responses
  <2>2. [Headers EXCEPT !.len = rsp.clen, !.res = 0] \in HttpStat
    BY <1>3, <2>1, Zenon DEF HttpStat
  <2> QED BY <1>4, <1>8, <1>16, <2>2, Zenon DEF FullyRetrieved
<1>17. CASE NoBodyWanted
  <2>1. PICK n \in PageReads, r \in PageResults :
           Gethttp(IF rsp.code = 504 /\ ~(opt.warc /\ r < 0)
                   THEN "GATEWAYTIMEOUT" ELSE "RETRFINISHED",
                   Drained(Unwanted(Measured), n, r), SaveName, TypedFlags)
    BY <1>17 DEF NoBodyWanted
  <2>2. /\ Drained(Unwanted(Measured), n, r) \in HttpStat
        /\ Drained(Unwanted(Measured), n, r).len \in Nat
    BY <1>5, DrainedType
  <2>3. HeadUnchanged
    BY <1>17 DEF NoBodyWanted
  <2> DEFINE value == IF rsp.code = 504 /\ ~(opt.warc /\ r < 0)
                      THEN "GATEWAYTIMEOUT" ELSE "RETRFINISHED"
  <2>4. Gethttp(value, Drained(Unwanted(Measured), n, r), SaveName, TypedFlags)
    BY <2>1
  <2> HIDE DEF value
  <2> QED BY <1>4, <1>8, <2>2, <2>3, <2>4, Zenon
<1> QED
  BY <1>7, <1>9, <1>10, <1>11, <1>12, <1>13, <1>14, <1>15, <1>16, <1>17

\* Opening the output and transferring the body.
LEMMA BodyType ==
    ASSUME TypeInv, OpenBody \/ OpenFails \/ ReadBody \/ EndBody
    PROVE  TypeInv'
<1>1. /\ TypeOK /\ hs \in HttpStat /\ hs.restval \in Nat /\ rsp \in Responses
      /\ body \in Bodies /\ dt \subseteq AllFlags
      /\ disk \in [DOMAIN disk -> Files]
  BY DEF TypeInv, TypeOK, HttpStat
<1>2. TypedFlags \subseteq AllFlags
  BY <1>1, FlagsType
<1>3. pc = "head" => Measured \in HttpStat /\ Measured.len \in Nat
  BY <1>1, HeadersType DEF TypeInv, LenInv
<1>4. CASE OpenBody
  <2>1. /\ pc = "head" /\ pc' = "body" /\ hs' = Measured
        /\ dt' = TypedFlags /\ disk' = open_output_stream(SaveName)
        /\ local_file' = SaveName
    BY <1>4, Zenon DEF OpenBody
  <2>2. disk' \in [DOMAIN disk' -> Files]
    BY <1>1, <2>1, OpenType
  <2>3. body' \in Bodies
    <3>1. (IF hs.restval > 0 /\ rsp.crange = 0 THEN hs.restval ELSE 0) \in Nat
      BY <1>1
    <3>2. 0 \in Nat /\ Success \in BOOLEAN /\ rsp.crange \in Nat
          /\ rsp.clen \in Int
      BY <1>1 DEF Success, Responses
    <3>3. body' = [open |-> TRUE, pos |-> rsp.crange,
                   skip |-> IF hs.restval > 0 /\ rsp.crange = 0
                            THEN hs.restval ELSE 0,
                   read |-> 0, toread |-> rsp.clen, written |-> 0,
                   doc |-> Success]
      BY <1>4, Zenon DEF OpenBody
    <3> QED BY <3>1, <3>2, <3>3 DEF Bodies
  <2>4. DOMAIN disk \subseteq DOMAIN disk' \/ ~opt.output_document
    BY <2>1 DEF open_output_stream
  <2>5. ~opt.output_document => SaveName \in DOMAIN disk'
    <3> DEFINE rotated == IF opt.backups THEN rotate_backups(SaveName) ELSE disk
               file == IF hs.restval > 0 /\ SaveName \in DOMAIN rotated
                       THEN rotated[SaveName] ELSE Empty
    <3>1. ~opt.output_document =>
             disk' = [g \in DOMAIN rotated \cup {SaveName} |->
                        IF g = SaveName THEN file ELSE rotated[g]]
      BY <2>1 DEF open_output_stream
    <3> HIDE DEF rotated, file
    <3> QED BY <3>1
  <2>6. TypeOK'
    <3>1. UNCHANGED <<opt, site, loop, auth_finished, rsp, requests, runs>>
      BY <1>4 DEF OpenBody
    <3>2. hs' \in HttpStat /\ dt' \subseteq AllFlags /\ pc' \in Pcs
      BY <1>2, <1>3, <2>1 DEF Pcs
    <3> QED BY <1>1, <2>2, <2>3, <3>1, <3>2 DEF TypeOK
  <2>7. LenInv'
    BY <1>3, <2>1 DEF LenInv
  <2>8. OutputInv'
    <3>1. opt' = opt /\ pc # "main"
      BY <1>4, <2>1 DEF OpenBody
    <3> QED BY <2>1, <2>4, <2>5, <3>1 DEF TypeInv, OutputInv, Output, Exists
  <2> QED BY <2>6, <2>7, <2>8 DEF TypeInv
<1>5. CASE OpenFails
  <2>1. /\ pc = "head" /\ ~opt.output_document
        /\ disk' = disk \/ disk' = rotate_backups(SaveName)
        /\ UNCHANGED <<opt, site, loop, auth_finished, rsp, body, requests, runs>>
    BY <1>5 DEF OpenFails
  <2>2. PICK e : Gethttp(e, Measured, SaveName, TypedFlags)
    BY <1>5, Zenon DEF OpenFails
  <2>3. disk' \in [DOMAIN disk' -> Files]
    BY <1>1, <2>1, OpenType
  <2> QED BY <1>2, <1>3, <2>1, <2>2, <2>3, GethttpType
<1>6. CASE ReadBody
  <2>1. PICK n \in 1 .. Available : write_data(n)
    BY <1>6, Zenon DEF ReadBody
  <2>2. /\ pc = "body" /\ pc' = pc
        /\ UNCHANGED <<opt, site, local_file, loop, hs, dt, auth_finished, rsp,
                       requests, runs>>
    BY <1>6 DEF ReadBody
  <2>3. n \in Nat
    BY <2>1
  <2>4. Exists(Output)
    BY <2>2 DEF TypeInv, OutputInv
  <2>5. disk' \in [DOMAIN disk' -> Files] /\ body' \in Bodies
    BY <1>1, <2>1, <2>3, <2>4, WriteType
  <2>6. DOMAIN disk \subseteq DOMAIN disk'
    BY <2>1 DEF write_data, Put
  <2>7. TypeOK'
    BY <1>1, <2>2, <2>5 DEF TypeOK
  <2>8. LenInv' /\ OutputInv'
    BY <2>2, <2>6 DEF TypeInv, LenInv, OutputInv, Output, Exists
  <2> QED BY <2>7, <2>8 DEF TypeInv
<1>7. CASE EndBody
  <2>1. /\ pc = "body" /\ disk' = disk
        /\ UNCHANGED <<opt, site, loop, auth_finished, rsp, body, requests, runs>>
    BY <1>7 DEF EndBody
  <2>2. PICK r \in {-2, -1, 0, 1} :
           Gethttp(IF r = -2 THEN "FWRITEERR" ELSE "RETRFINISHED",
                   [hs EXCEPT !.len = hs.restval + body.written, !.res = r],
                   local_file, dt)
    BY <1>7 DEF EndBody
  <2>3. hs.restval + body.written \in Nat /\ hs.restval + body.written \in Int
    BY <1>1 DEF Bodies
  <2> DEFINE h == [hs EXCEPT !.len = hs.restval + body.written, !.res = r]
             value == IF r = -2 THEN "FWRITEERR" ELSE "RETRFINISHED"
  <2>4. h \in HttpStat /\ h.len \in Nat
    BY <1>1, <2>3, Zenon DEF HttpStat
  <2>5. Gethttp(value, h, local_file, dt)
    BY <2>2
  <2> HIDE DEF h, value
  <2> QED BY <1>1, <2>1, <2>4, <2>5, GethttpType
<1> QED BY <1>4, <1>5, <1>6, <1>7

\* http_loop's reaction to what gethttp returned.
LEMMA JudgeType ==
    ASSUME TypeInv,
           \/ RetriableError \/ FatalError \/ NewLocation \/ Unneeded
           \/ MetalinkResult \/ ErrorStatus \/ HeadDone \/ Finish
    PROVE  TypeInv'
<1>1. /\ pc = "judge" /\ pc' \in {"top", "done", "abort"}
      /\ UNCHANGED <<opt, site, auth_finished, rsp, body, requests, runs>>
      /\ loop \in LoopLocals /\ hs \in HttpStat /\ dt \subseteq AllFlags
      /\ disk \in [DOMAIN disk -> Files] /\ TypeOK
  <2>1. pc = "judge" /\ JudgeUnchanged
    BY DEF RetriableError, FatalError, NewLocation, Unneeded, MetalinkResult,
           ErrorStatus, HeadDone, Finish
  <2>2. pc' \in {"top", "done", "abort"}
    BY DEF RetriableError, FatalError, NewLocation, Unneeded, MetalinkResult,
           ErrorStatus, HeadDone, Finish, Continue, Return
  <2> QED BY <2>1, <2>2 DEF JudgeUnchanged, TypeInv, TypeOK
<1>2. hs.len \in Nat \/ pc' = "done"
  <2>1. hs.len \in Nat \/ err = "RETRUNNEEDED"
    BY <1>1 DEF TypeInv, LenInv
  <2>2. err = "RETRUNNEEDED" => Unneeded
    BY DEF RetriableError, FatalError, NewLocation, MetalinkResult,
           ErrorStatus, HeadDone, Finish, Transient, Fatal
  <2>3. Unneeded => pc' = "done"
    BY DEF Unneeded, Return
  <2> QED BY <2>1, <2>2, <2>3
<1>3. pc' \in Pcs /\ pc # "main" /\ pc' # "body"
  BY <1>1 DEF Pcs
<1>4. ASSUME hs' = hs, loop' \in LoopLocals, dt' \subseteq AllFlags,
             disk' = disk
      PROVE  TypeInv'
  BY <1>1, <1>2, <1>3, <1>4, MoveType
<1>5. CASE RetriableError \/ FatalError \/ NewLocation \/ Unneeded
  BY <1>1, <1>4, <1>5 DEF RetriableError, FatalError, NewLocation, Unneeded
<1>6. CASE MetalinkResult
  <2>1. loop' \in LoopLocals
    BY <1>1, <1>6, Zenon DEF MetalinkResult, LoopLocals
  <2> QED BY <1>1, <1>4, <1>6, <2>1 DEF MetalinkResult
<1>7. CASE ErrorStatus
  <2>1. loop' \in LoopLocals
    <3>1. PICK b \in BOOLEAN : loop' = [loop EXCEPT !.got_head = b]
      BY <1>7 DEF ErrorStatus
    <3> QED BY <1>1, <3>1, Zenon DEF LoopLocals
  <2> QED BY <1>1, <1>4, <1>7, <2>1 DEF ErrorStatus
<1>8. CASE HeadDone
  <2>1. CASE loop' = loop /\ hs' = hs /\ dt' = dt
    BY <1>1, <1>4, <1>8, <2>1 DEF HeadDone
  <2>2. CASE ~(loop' = loop /\ hs' = hs /\ dt' = dt)
    <3>1. /\ loop' = [loop EXCEPT !.got_head = TRUE, !.got_name = TRUE,
                         !.tmr = hs.remote_time, !.count = 0,
                         !.force_full_retrieve =
                             @ \/ (Datable /\ ~hs.orig.fresh)]
          /\ hs' = [hs EXCEPT !.timestamp_checked = @ \/ opt.timestamping]
          /\ dt' = dt \ {"HEAD_ONLY"} /\ disk' = disk /\ pc' = "top"
      BY <1>8, <2>2 DEF HeadDone
    <3>2. /\ hs.remote_time \in BOOLEAN /\ 0 \in Nat
          /\ (loop.force_full_retrieve \/ (Datable /\ ~hs.orig.fresh)) \in BOOLEAN
          /\ (hs.timestamp_checked \/ opt.timestamping) \in BOOLEAN
      BY <1>1 DEF HttpStat
    <3> DEFINE full == loop.force_full_retrieve \/ (Datable /\ ~hs.orig.fresh)
               checked == hs.timestamp_checked \/ opt.timestamping
    <3>3. /\ full \in BOOLEAN /\ checked \in BOOLEAN
          /\ hs' = [hs EXCEPT !.timestamp_checked = checked]
          /\ loop' = [loop EXCEPT !.got_head = TRUE, !.got_name = TRUE,
                         !.tmr = hs.remote_time, !.count = 0,
                         !.force_full_retrieve = full]
      BY <3>1, <3>2
    <3> HIDE DEF full, checked
    <3>4. loop' \in LoopLocals
      BY <1>1, <3>2, <3>3, Zenon DEF LoopLocals
    <3>5. hs' \in HttpStat /\ hs'.len = hs.len
      BY <1>1, <3>3, Zenon DEF HttpStat
    <3>6. hs.len \in Nat
      BY <1>2, <3>1
    <3>7. TypeOK'
      BY <1>1, <1>3, <3>1, <3>4, <3>5 DEF TypeOK
    <3>8. LenInv' /\ OutputInv'
      BY <1>1, <3>1, <3>5, <3>6 DEF TypeInv, LenInv, OutputInv, Exists
    <3> QED BY <3>7, <3>8 DEF TypeInv
  <2> QED BY <2>1, <2>2
<1>9. CASE Finish
  <2>1. PICK b \in BOOLEAN :
            loop' = [loop EXCEPT !.got_head = TRUE, !.tmr = b]
    BY <1>1, <1>9 DEF Finish, HttpStat, LoopLocals
  <2>2. loop' \in LoopLocals
    BY <1>1, <2>1, Zenon DEF LoopLocals
  <2>3. disk' \in [DOMAIN disk' -> Files] /\ DOMAIN disk \subseteq DOMAIN disk'
    <3>1. CASE Exists(local_file)
      <4> DEFINE file == [disk[local_file] EXCEPT !.fresh = TRUE]
      <4>1. file \in Files
        BY <1>1, <3>1 DEF Exists, Files
      <4>2. disk' = disk \/ disk' = Put(local_file, file)
        BY <1>9 DEF Finish
      <4> HIDE DEF file
      <4>3. DOMAIN disk \subseteq DOMAIN Put(local_file, file)
        BY DEF Put
      <4> QED BY <1>1, <4>1, <4>2, <4>3, PutType
    <3>2. CASE ~Exists(local_file)
      BY <1>1, <1>9, <3>2 DEF Finish
    <3> QED BY <3>1, <3>2
  <2>4. hs' = hs /\ dt' = dt
    BY <1>9 DEF Finish
  <2> QED BY <1>1, <1>2, <1>3, <2>2, <2>3, <2>4, MoveType
<1> QED BY <1>5, <1>6, <1>7, <1>8, <1>9

\* The type invariant with its strengthening is inductive.
LEMMA TypeStep == TypeInv /\ [Next]_vars => TypeInv'
<1> SUFFICES ASSUME TypeInv, [Next]_vars PROVE TypeInv'
  OBVIOUS
<1>1. CASE UNCHANGED vars
  BY <1>1 DEF vars, TypeInv, TypeOK, LenInv, OutputInv, Output, Exists
<1>2. CASE Step
  BY <1>2, EnterType, RequestType, HeadType, BodyType, JudgeType DEF Step
<1>3. CASE Rerun
  BY <1>3, EnterType
<1> QED BY <1>1, <1>2, <1>3 DEF Next

\* The counters, positions and file lengths of http_loop and gethttp stay in
\* their ranges, whatever the server answers: in particular the restart
\* position "restval - len" is never negative.
THEOREM TypeCorrect == Spec => []TypeOK
<1>1. TypeInv => TypeOK
  BY DEF TypeInv
<1> QED BY <1>1, InitType, TypeStep, PTL DEF Spec

-----------------------------------------------------------------------------
(***************************************************************************)
(* The number of requests.  RequestBound is not inductive: requests grow   *)
(* with count, which "continue" keeps below ntry, and count is reset once, *)
(* by the step that also sets got_head.                                    *)
(***************************************************************************)
CountInv ==
    /\ pc \in {"main", "enter"} => requests = 0
    /\ opt.ntry # 0 =>
          /\ loop.count <= opt.ntry
          /\ pc = "top" => loop.count < opt.ntry
          /\ requests <= loop.count + IF loop.got_head THEN opt.ntry ELSE 0

LEMMA CountInit == Init => CountInv
<1> SUFFICES ASSUME Init PROVE CountInv
  OBVIOUS
<1>1. opt.ntry \in Nat
  BY OptsAssumption DEF Init
<1> QED BY <1>1 DEF Init, CountInv, ZeroLoop

\* Steps that neither touch the counters nor reach the top of the loop.
LEMMA CountKept ==
    ASSUME TypeOK, CountInv, UNCHANGED <<opt, loop, requests>>,
           pc # "main", pc' \notin {"main", "enter", "top"}
    PROVE  CountInv'
BY DEF CountInv

\* Passing "continue", or leaving the loop, with the counters as they were.
LEMMA CountContinue ==
    ASSUME TypeOK, CountInv, Continue, pc = "judge",
           loop'.count = loop.count, loop.got_head => loop'.got_head,
           UNCHANGED <<opt, requests>>
    PROVE  CountInv'
<1>1. /\ opt.ntry \in Nat /\ loop.count \in Nat /\ requests \in Nat
  BY OptsAssumption DEF TypeOK, LoopLocals
<1> QED BY <1>1 DEF CountInv, Continue, Return

LEMMA CountStep == TypeOK /\ CountInv /\ [Next]_vars => CountInv'
<1> SUFFICES ASSUME TypeOK, CountInv, [Next]_vars PROVE CountInv'
  OBVIOUS
<1>1. /\ opt.ntry \in Nat /\ loop.count \in Nat /\ requests \in Nat
      /\ loop \in LoopLocals
  BY OptsAssumption DEF TypeOK, LoopLocals
<1>2. CASE UNCHANGED vars
  BY <1>2 DEF vars, CountInv
<1>3. CASE Rerun
  BY <1>1, <1>3 DEF Rerun, CountInv, ZeroLoop
<1>4. CASE OpenOutputDocument
  BY <1>4 DEF OpenOutputDocument, CountInv
<1>5. CASE EnterHttpLoop
  <2>1. /\ loop'.count = 0 /\ ~loop'.got_head /\ requests' = 0 /\ opt' = opt
        /\ pc' \in {"top", "done"}
    BY <1>5 DEF EnterHttpLoop, Return, ZeroLoop, CountInv
  <2> QED BY <1>1, <2>1 DEF CountInv
<1>6. CASE StartTry
  <2>1. /\ loop'.count = loop.count + 1 /\ loop'.got_head = loop.got_head
        /\ requests' = requests + 1 /\ opt' = opt
        /\ pc = "top" /\ pc' = "connect"
    BY <1>1, <1>6 DEF StartTry, LoopLocals
  <2> QED BY <1>1, <2>1 DEF CountInv
<1>7. CASE \/ ConnectFails \/ SendRequest \/ HeadFails \/ ReadHead
           \/ MetalinkHead \/ RetryWithAuth \/ AuthFails \/ NameExists
  <2>1. /\ UNCHANGED <<opt, loop, requests>> /\ pc # "main"
        /\ pc' \notin {"main", "enter", "top"}
    BY <1>7 DEF ConnectFails, SendRequest, HeadFails, ReadHead, MetalinkHead,
               RetryWithAuth, AuthFails, NameExists, HeadUnchanged, Gethttp
  <2> QED BY <2>1, CountKept
<1>8. CASE \/ NoContent \/ Redirected \/ NotModified \/ FullyRetrieved
           \/ WrongRange \/ NoBodyWanted \/ OpenBody \/ OpenFails
           \/ ReadBody \/ EndBody
  <2>1. /\ UNCHANGED <<opt, loop, requests>> /\ pc # "main"
        /\ pc' \notin {"main", "enter", "top"}
    BY <1>8 DEF NoContent, Redirected, NotModified, FullyRetrieved, WrongRange,
               NoBodyWanted, OpenBody, OpenFails, ReadBody, EndBody,
               HeadUnchanged, Gethttp
  <2> QED BY <2>1, CountKept
<1>9. CASE FatalError \/ NewLocation \/ Unneeded
  <2>1. /\ UNCHANGED <<opt, loop, requests>> /\ pc # "main" /\ pc' = "done"
    BY <1>9 DEF FatalError, NewLocation, Unneeded, Return, JudgeUnchanged
  <2> QED BY <2>1, CountKept
<1>10. CASE RetriableError
  <2>1. /\ Continue /\ pc = "judge" /\ UNCHANGED <<opt, loop, requests>>
    BY <1>10 DEF RetriableError, JudgeUnchanged
  <2> QED BY <2>1, CountContinue
<1>11. ASSUME UNCHANGED <<opt, requests>>, pc = "judge", pc' \in {"done", "abort"},
              loop'.count = loop.count, loop.got_head => loop'.got_head
       PROVE  CountInv'
  BY <1>1, <1>11 DEF CountInv
<1>12. CASE MetalinkResult \/ ErrorStatus \/ Finish
  <2>1. UNCHANGED <<opt, requests>> /\ pc = "judge"
    BY <1>12 DEF MetalinkResult, ErrorStatus, Finish, JudgeUnchanged
  <2>2. loop'.count = loop.count /\ (loop.got_head => loop'.got_head)
    <3>1. CASE MetalinkResult
      BY <1>1, <3>1 DEF MetalinkResult, LoopLocals
    <3>2. CASE ErrorStatus
      BY <1>1, <3>2 DEF ErrorStatus, LoopLocals
    <3>3. CASE Finish
      BY <1>1, <3>3 DEF Finish, LoopLocals
    <3> QED BY <1>12, <3>1, <3>2, <3>3
  <2>3. Continue \/ pc' \in {"done", "abort"}
    BY <1>12 DEF MetalinkResult, ErrorStatus, Finish, Return
  <2> QED BY <1>11, <2>1, <2>2, <2>3, CountContinue
<1>13. CASE HeadDone
  <2>1. UNCHANGED <<opt, requests>> /\ pc = "judge"
    BY <1>13 DEF HeadDone, JudgeUnchanged
  <2>2. CASE UpToDate \/ SpiderDone
    BY <1>11, <1>13, <2>1, <2>2 DEF HeadDone, Return
  <2>3. CASE ~(UpToDate \/ SpiderDone)
    <3>1. ~loop.got_head
      BY <1>13, <2>3 DEF HeadDone, Examining, SpiderDone
    <3>2. loop'.count = 0 /\ loop'.got_head /\ pc' = "top"
      BY <1>1, <1>13, <2>3 DEF HeadDone, LoopLocals
    <3>3. opt.ntry # 0 => requests <= opt.ntry
      BY <1>1, <3>1 DEF CountInv
    <3> QED BY <1>1, <2>1, <3>2, <3>3 DEF CountInv
  <2> QED BY <2>2, <2>3
<1> QED
  BY <1>2, <1>3, <1>4, <1>5, <1>6, <1>7, <1>8, <1>9, <1>10, <1>12, <1>13
     DEF Next, Step

\* Whatever the server does, http_loop sends at most ntry requests until its
\* HEAD is answered and at most ntry after that: its only reset of the
\* counter happens once.
THEOREM RequestsBounded == Spec => []RequestBound
<1>1. TypeInv => TypeOK
  BY DEF TypeInv
<1>2. TypeOK /\ CountInv => RequestBound
  <2> SUFFICES ASSUME TypeOK, CountInv PROVE RequestBound
    OBVIOUS
  <2>1. opt.ntry \in Nat /\ loop.count \in Nat /\ requests \in Nat
    BY OptsAssumption DEF TypeOK, LoopLocals
  <2> QED BY <2>1 DEF CountInv, RequestBound
<1> QED
  BY <1>1, <1>2, InitType, TypeStep, CountInit, CountStep, PTL DEF Spec

\* Both, as they are checked.
THEOREM LoopIsSound == Spec => []LoopSound
<1>1. TypeOK /\ RequestBound => LoopSound
  BY DEF LoopSound
<1> QED BY <1>1, TypeCorrect, RequestsBounded, PTL

-----------------------------------------------------------------------------
(***************************************************************************)
(* The content of the files.  PrefixOnly is not true of every command line *)
(* (the README says of which it is not): it is proved for the options that *)
(* leave names and restart positions to http_loop.                         *)
(***************************************************************************)
CarefulAssumption ==
    /\ \A o \in Opts :
          /\ ~o.temporary /\ ~o.spider /\ ~o.warc /\ ~o.output_document
          /\ ~o.backups /\ ~o.content_on_error /\ ~o.timestamping
          /\ ~o.adjust_extension /\ o.start_pos < 0
          /\ ~(o.content_disposition /\ o.always_rest)
    /\ \A d \in Disks : \A f \in DOMAIN d : d[f].good

Looping == pc \in {"top", "connect", "sent", "head", "body"}
             \/ (pc = "judge" /\ err # "RETRUNNEEDED")

\* The position from which a next try would resume.
Resume == IF hs.len < hs.restval THEN hs.restval - hs.len ELSE hs.len

\* The name is settled, and stays, as soon as a position depends on it.
NameInv ==
    /\ local_file \in Seq(Int)
    /\ ~loop.force_full_retrieve
    /\ Looping /\ (opt.always_rest \/ hs.existence_checked)
          => local_file # NoName
    /\ Looping /\ ~opt.always_rest /\ ~hs.existence_checked
          => hs.len = 0 /\ hs.restval = 0

\* Between tries, and until the body is opened, the file is exactly as long
\* as the position to resume from; while the body is read, the next byte to
\* be written is the one that follows the file's last byte.
PositionInv ==
    /\ pc \in {"connect", "sent", "head", "body"} => hs.len = 0
    /\ Looping /\ pc # "body" /\ Resume > 0
          => Exists(local_file) /\ disk[local_file].len = Resume
    /\ pc = "body" =>
          /\ hs.existence_checked /\ body.doc
          /\ disk[local_file].len = hs.restval + body.written
          /\ disk[local_file].len = body.pos + body.skip
          /\ body.skip > 0 => body.written = 0

ContentInv ==
    /\ IsFiniteSet(DOMAIN disk)
    /\ PrefixOnly
    /\ NameInv
    /\ PositionInv

\* A nonempty set of natural numbers has a smallest element.
LEMMA LeastNatural ==
    ASSUME NEW S \in SUBSET Nat, S # {}
    PROVE  \E k \in S : \A j \in S : k <= j
<1> DEFINE T == {0 .. k : k \in S}
           R == StrictSubsetOrdering(Nat)
<1>1. T \subseteq FiniteSubsetsOf(Nat) /\ T # {}
  <2>1. \A k \in S : 0 .. k \subseteq Nat /\ IsFiniteSet(0 .. k)
    BY FS_Interval
  <2> QED BY <2>1 DEF FiniteSubsetsOf
<1>2. IsWellFoundedOn(R, FiniteSubsetsOf(Nat))
  BY FS_StrictSubsetOrderingWellFounded
<1>3. PICK t \in T : \A u \in T : ~(<<u, t>> \in R)
  <2> HIDE DEF T, R
  <2> QED BY <1>1, <1>2, WFMin
<1>4. PICK k \in S : t = 0 .. k
  BY <1>3
<1>5. ASSUME NEW j \in S, j < k PROVE FALSE
  <2>1. 0 .. j \in SUBSET Nat /\ 0 .. k \in SUBSET Nat
    OBVIOUS
  <2>2. 0 .. j \subseteq 0 .. k /\ k \in 0 .. k /\ k \notin 0 .. j
    BY <1>5
  <2>3. <<0 .. j, 0 .. k>> \in R
    BY <2>1, <2>2 DEF StrictSubsetOrdering
  <2> QED BY <1>3, <1>4, <2>3
<1> QED BY <1>5

\* unique_name finds a name that does not exist, other than no name at all.
LEMMA UniqueName ==
    ASSUME IsFiniteSet(DOMAIN disk), NEW f \in Seq(Int)
    PROVE  /\ unique_name(f) \in Seq(Int)
           /\ ~Exists(unique_name(f))
           /\ f # NoName => unique_name(f) # NoName
<1> DEFINE n == Cardinality(DOMAIN disk)
           free == {k \in 1 .. n + 1 : ~Exists(Append(f, k))}
<1>1. n \in Nat
  BY FS_CardinalityType
<1>2. free # {}
  <2> SUFFICES ASSUME free = {} PROVE FALSE
    OBVIOUS
  <2> DEFINE g == [k \in 1 .. n + 1 |-> Append(f, k)]
  <2>1. g \in [1 .. n + 1 -> DOMAIN disk]
    BY DEF Exists
  <2>2. IsFiniteSet(1 .. n + 1) /\ Cardinality(1 .. n + 1) = n + 1
    <3>1. 1 \in Int /\ n + 1 \in Int /\ ~(1 > n + 1) /\ (n + 1) - 1 + 1 = n + 1
      BY <1>1
    <3> HIDE DEF n
    <3> QED BY <3>1, FS_Interval
  <2>3. \E x, y \in 1 .. n + 1 : x # y /\ g[x] = g[y]
    <3> HIDE DEF g
    <3> QED BY <1>1, <2>1, <2>2, FS_PigeonHole
  <2>4. PICK x, y \in 1 .. n + 1 : x # y /\ Append(f, x) = Append(f, y)
    BY <2>3
  <2>5. Append(f, x)[Len(f) + 1] = x /\ Append(f, y)[Len(f) + 1] = y
    OBVIOUS
  <2> QED BY <2>4, <2>5
<1>3. PICK k \in free : \A j \in free : k <= j
  <2>1. free \in SUBSET Nat
    BY <1>1
  <2> HIDE DEF free, n
  <2> QED BY <1>2, <2>1, LeastNatural
<1> DEFINE m == CHOOSE i \in free : \A j \in free : i <= j
<1>4. m \in free
  <2> HIDE DEF free, n
  <2> QED BY <1>3, Zenon
<1>5. m \in Int /\ m >= 1 /\ ~Exists(Append(f, m))
  BY <1>1, <1>4
<1>6. unique_name(f) = IF ~Exists(f) THEN f ELSE Append(f, m)
  BY DEF unique_name
<1> HIDE DEF m
<1>7. Append(f, m) \in Seq(Int) /\ Append(f, m)[Len(f) + 1] = m
      /\ Len(Append(f, m)) = Len(f) + 1
  BY <1>5
<1>8. Append(f, m) # NoName
  <2>1. Len(NoName) = 1 /\ NoName[1] = -3
    BY DEF NoName
  <2>2. Append(f, m) = NoName => Len(f) = 0 /\ m = -3
    BY <1>7, <2>1
  <2> QED BY <1>5, <2>2
<1> QED BY <1>5, <1>6, <1>7, <1>8

\* Without an earlier choice, the name comes from the URL.
LEMMA UrlName ==
    ASSUME IsFiniteSet(DOMAIN disk)
    PROVE  url_file_name \in Seq(Int) /\ url_file_name # NoName
<1>1. Base \in Seq(Int) /\ Base # NoName
  BY DEF Base, NoName
<1> QED BY <1>1, UniqueName DEF url_file_name

\* check_file_output settles a name; it keeps the name of the file that the
\* try resumes.
LEMMA CheckName ==
    ASSUME CarefulAssumption, TypeOK, ContentInv, pc = "head",
           ~check_file_output.unneeded
    PROVE  /\ check_file_output.name \in Seq(Int)
           /\ check_file_output.name # NoName
           /\ hs.restval > 0 => check_file_output.name = local_file
           /\ check_file_output.hs.existence_checked
           /\ check_file_output.hs.len = hs.len
           /\ check_file_output.hs.restval = hs.restval
<1>1. ~Temporary /\ ~opt.timestamping
  BY DEF CarefulAssumption, TypeOK, Temporary
<1> DEFINE name0 == IF local_file = NoName THEN url_file_name ELSE local_file
           taken == ~hs.existence_checked /\ Exists(name0)
           name2 == IF taken /\ ~ALLOW_CLOBBER THEN unique_name(name0)
                    ELSE name0
<1>2. /\ check_file_output.name = name2
      /\ check_file_output.hs = [hs EXCEPT !.existence_checked = TRUE]
  BY <1>1 DEF check_file_output
<1>3. name0 \in Seq(Int) /\ name0 # NoName
  BY UrlName DEF ContentInv, NameInv
<1>4. name2 \in Seq(Int) /\ name2 # NoName
  <2> HIDE DEF name0
  <2> QED BY <1>3, UniqueName DEF ContentInv
<1>5. hs.restval > 0 => name2 = local_file
  <2>1. Looping /\ (opt.always_rest => ALLOW_CLOBBER)
    BY DEF Looping, ALLOW_CLOBBER
  <2>2. hs.restval > 0 => opt.always_rest \/ hs.existence_checked
    BY <2>1 DEF ContentInv, NameInv, TypeOK, HttpStat
  <2> QED BY <2>1, <2>2 DEF ContentInv, NameInv
<1>6. hs \in HttpStat
  BY DEF TypeOK
<1> HIDE DEF name2
<1> QED BY <1>2, <1>4, <1>5, <1>6 DEF HttpStat

\* What the careful options rule out in a state.
LEMMA CarefulState ==
    ASSUME CarefulAssumption, TypeOK
    PROVE  /\ ~opt.temporary /\ ~opt.spider /\ ~opt.warc /\ ~opt.output_document
           /\ ~opt.backups /\ ~opt.content_on_error /\ ~opt.timestamping
           /\ ~opt.adjust_extension /\ opt.start_pos < 0
           /\ ~(opt.content_disposition /\ opt.always_rest)
           /\ Output = local_file
           /\ opt.start_pos \in Int
           /\ hs.len \in Int /\ hs.restval \in Nat
BY OptsAssumption DEF CarefulAssumption, TypeOK, Output, HttpStat

\* Steps that leave the name, the file and the position alone.
LEMMA ContentKept ==
    ASSUME ContentInv, UNCHANGED <<opt, disk, local_file>>,
           hs'.len = hs.len, hs'.restval = hs.restval,
           hs'.existence_checked = hs.existence_checked,
           ~loop'.force_full_retrieve, pc' # "body",
           Looping' => Looping /\ pc # "body",
           pc' \in {"connect", "sent", "head"} => hs.len = 0
    PROVE  ContentInv'
<1>1. PrefixOnly' /\ IsFiniteSet(DOMAIN disk')
  BY DEF ContentInv, PrefixOnly
<1>2. NameInv'
  BY DEF ContentInv, NameInv
<1>3. Resume' = Resume
  BY DEF Resume
<1>4. PositionInv'
  BY <1>3 DEF ContentInv, PositionInv, Exists
<1> QED BY <1>1, <1>2, <1>4 DEF ContentInv

\* Steps that leave the loop, or after which it is left.
LEMMA ContentOver ==
    ASSUME ContentInv, disk' = disk, local_file' \in Seq(Int), ~Looping',
           ~loop'.force_full_retrieve
    PROVE  ContentInv'
<1>1. PrefixOnly' /\ IsFiniteSet(DOMAIN disk')
  BY DEF ContentInv, PrefixOnly
<1>2. NameInv'
  BY DEF ContentInv, NameInv
<1>3. PositionInv'
  BY DEF PositionInv, Looping
<1> QED BY <1>1, <1>2, <1>3 DEF ContentInv

\* Exits of gethttp that settle a name and save nothing.
LEMMA ContentHead ==
    ASSUME CarefulAssumption, TypeOK, ContentInv, pc = "head", pc' = "judge",
           ~check_file_output.unneeded, UNCHANGED <<opt, disk, loop>>,
           local_file' = check_file_output.name,
           hs'.existence_checked, hs'.len = 0,
           hs'.restval = 0 \/ hs'.restval = hs.restval
    PROVE  ContentInv'
<1>1. PrefixOnly' /\ IsFiniteSet(DOMAIN disk')
  BY DEF ContentInv, PrefixOnly
<1>2. NameInv'
  BY CheckName DEF ContentInv, NameInv
<1>3. hs.restval \in Nat /\ hs.len = 0 /\ Looping
  BY DEF TypeOK, HttpStat, ContentInv, PositionInv, Looping
<1>4. Resume' = hs'.restval /\ Resume = hs.restval
  BY <1>3 DEF Resume
<1>5. PositionInv'
  BY <1>3, <1>4, CheckName DEF ContentInv, PositionInv, Exists
<1> QED BY <1>1, <1>2, <1>5 DEF ContentInv

LEMMA ContentInit == CarefulAssumption /\ Init => ContentInv
<1> SUFFICES ASSUME CarefulAssumption, Init PROVE ContentInv
  OBVIOUS
<1>1. IsFiniteSet(DOMAIN disk) /\ PrefixOnly
  BY DisksAssumption DEF CarefulAssumption, Init, PrefixOnly
<1>2. local_file \in Seq(Int)
  BY DEF Init, NoName
<1> QED
  BY <1>1, <1>2 DEF ContentInv, NameInv, PositionInv, Looping, Init, ZeroLoop

\* Starting wget and starting a try.
LEMMA ContentStart ==
    ASSUME CarefulAssumption, TypeInv, TypeOK, ContentInv,
           OpenOutputDocument \/ EnterHttpLoop \/ StartTry \/ Rerun
    PROVE  ContentInv'
<1>1. CASE OpenOutputDocument
  <2>1. disk' = disk
    BY <1>1, CarefulState DEF OpenOutputDocument
  <2>2. local_file' = local_file /\ loop' = loop /\ ~Looping'
    BY <1>1 DEF OpenOutputDocument, Looping
  <2> QED BY <2>1, <2>2, ContentOver DEF ContentInv, NameInv
<1>2. CASE EnterHttpLoop
  <2>1. /\ hs' = ZeroStat /\ disk' = disk /\ opt' = opt
        /\ ~loop'.force_full_retrieve
    BY <1>2, CarefulState DEF EnterHttpLoop, ZeroLoop
  <2>2. local_file' = IF opt.content_disposition THEN NoName ELSE url_file_name
    BY <1>2, CarefulState DEF EnterHttpLoop
  <2>3. /\ local_file' \in Seq(Int)
        /\ opt.always_rest => local_file' # NoName
    BY <2>2, UrlName, CarefulState DEF ContentInv, NoName
  <2>4. hs'.len = 0 /\ hs'.restval = 0 /\ ~hs'.existence_checked
    BY <2>1 DEF ZeroStat
  <2>5. pc' \in {"top", "done"}
    BY <1>2 DEF EnterHttpLoop, Return
  <2>6. PrefixOnly' /\ IsFiniteSet(DOMAIN disk')
    BY <2>1 DEF ContentInv, PrefixOnly
  <2>7. NameInv'
    BY <2>1, <2>3, <2>4 DEF NameInv
  <2>8. PositionInv'
    BY <2>4, <2>5 DEF PositionInv, Resume
  <2> QED BY <2>6, <2>7, <2>8 DEF ContentInv
<1>3. CASE StartTry
  <2>1. /\ pc = "top" /\ pc' = "connect" /\ Looping /\ loop \in LoopLocals
        /\ UNCHANGED <<opt, disk, local_file>>
    BY <1>3 DEF StartTry, Looping, TypeOK
  <2>2. loop'.force_full_retrieve = loop.force_full_retrieve
    BY <1>3, <2>1 DEF StartTry, LoopLocals
  <2>3. /\ hs'.restval = Restart(loop.count + 1) /\ hs'.len = 0
        /\ hs'.existence_checked = hs.existence_checked
    BY <1>3 DEF StartTry, TypeOK, HttpStat
  <2> DEFINE r == Restart(loop.count + 1)
  <2>4. ~loop.force_full_retrieve /\ opt.start_pos < 0 /\ opt.start_pos \in Int
    BY CarefulState DEF ContentInv, NameInv
  <2>5. \/ r = 0
        \/ opt.always_rest /\ Exists(local_file) /\ r = disk[local_file].len
        \/ r = Resume
    BY <2>4 DEF Restart, Resume
  <2>6. r > 0 => Exists(local_file) /\ disk[local_file].len = r
    BY <2>1, <2>5 DEF ContentInv, PositionInv
  <2>7. ~opt.always_rest /\ ~hs.existence_checked => r = 0
    BY <2>1, <2>5 DEF ContentInv, NameInv, Resume
  <2>8. PrefixOnly' /\ IsFiniteSet(DOMAIN disk')
    BY <2>1 DEF ContentInv, PrefixOnly
  <2>9. NameInv'
    BY <2>1, <2>2, <2>3, <2>7 DEF ContentInv, NameInv
  <2>10. hs'.restval = r /\ (r > 0 => Exists(local_file)' /\ disk'[local_file'].len = r)
    BY <2>1, <2>3, <2>6 DEF Exists
  <2>11. Resume' = IF 0 < r THEN r - 0 ELSE 0
    BY <2>3 DEF Resume
  <2> HIDE DEF r
  <2>12. r \in Int => (Resume' > 0 => r > 0 /\ Resume' = r)
    BY <2>11
  <2>13. r \in Int
    <3>1. hs.len \in Nat /\ loop.count + 1 \in Nat
      BY <2>1 DEF TypeInv, LenInv, LoopLocals
    <3> QED BY <3>1, RestartType DEF r
  <2>14. PositionInv'
    BY <2>1, <2>3, <2>10, <2>12, <2>13 DEF PositionInv
  <2> QED BY <2>8, <2>9, <2>14 DEF ContentInv
<1>4. CASE Rerun
  <2>1. local_file' \in Seq(Int) /\ ~loop'.force_full_retrieve /\ ~Looping'
        /\ disk' = disk
    BY <1>4 DEF Rerun, NoName, ZeroLoop, Looping
  <2> QED BY <2>1, ContentOver
<1> QED BY <1>1, <1>2, <1>3, <1>4

\* A try up to the response head, and the exits that save nothing.
LEMMA ContentRequest ==
    ASSUME CarefulAssumption, TypeOK, ContentInv,
           \/ ConnectFails \/ SendRequest \/ HeadFails \/ ReadHead
           \/ MetalinkHead \/ RetryWithAuth \/ AuthFails
    PROVE  ContentInv'
<1>1. ~opt.warc /\ ~loop.force_full_retrieve
  BY CarefulState DEF ContentInv, NameInv
<1>2. /\ UNCHANGED <<opt, disk, local_file, loop, hs>>
      /\ pc \in {"connect", "sent", "head"}
      /\ pc' \in {"connect", "sent", "head", "judge"}
  BY <1>1 DEF ConnectFails, SendRequest, HeadFails, ReadHead, MetalinkHead,
              RetryWithAuth, AuthFails, HeadUnchanged, Gethttp, Drained
<1>3. Looping /\ pc # "body" /\ hs.len = 0
  BY <1>2 DEF Looping, ContentInv, PositionInv
<1> QED BY <1>1, <1>2, <1>3, ContentKept

\* What -E and http_stat look like once the head has been read.
LEMMA HeadFacts ==
    ASSUME CarefulAssumption, TypeOK, ContentInv, pc = "head",
           ~check_file_output.unneeded
    PROVE  /\ SaveName = check_file_output.name
           /\ Headers \in HttpStat /\ Measured \in HttpStat
           /\ Headers.existence_checked /\ Measured.existence_checked
           /\ Headers.len = 0 /\ Measured.len = 0
           /\ Headers.restval = hs.restval /\ Measured.restval = hs.restval
<1>1. SaveName = check_file_output.name
  BY CarefulState DEF SaveName
<1>2. hs.len = 0
  BY DEF ContentInv, PositionInv
<1>3. check_file_output.hs \in HttpStat /\ check_file_output.hs.existence_checked
  BY CheckType, CheckName
<1>4. Headers.existence_checked
  BY <1>3 DEF Headers, HttpStat
<1>5. Measured.existence_checked
  BY <1>4, HeadersType DEF Measured, HttpStat
<1> QED BY <1>1, <1>2, <1>4, <1>5, HeadersType

LEMMA ContentExits ==
    ASSUME CarefulAssumption, TypeOK, ContentInv,
           \/ NameExists \/ NoContent \/ Redirected \/ NotModified
           \/ FullyRetrieved \/ WrongRange \/ NoBodyWanted \/ OpenFails
    PROVE  ContentInv'
<1>1. /\ pc = "head" /\ pc' = "judge" /\ UNCHANGED <<opt, loop>> /\ disk' = disk
      /\ ~loop'.force_full_retrieve
  BY CarefulState
     DEF NameExists, NoContent, Redirected, NotModified, FullyRetrieved,
         WrongRange, NoBodyWanted, OpenFails, HeadUnchanged, Gethttp,
         ContentInv, NameInv
<1>2. CASE NameExists
  <2>1. local_file' = check_file_output.name /\ err' = "RETRUNNEEDED"
    BY <1>2 DEF NameExists, Gethttp
  <2>2. ~Temporary
    BY CarefulState DEF Temporary
  <2>3. check_file_output.unneeded
    BY <1>2 DEF NameExists, Exit
  <2>4. check_file_output.name = IF local_file = NoName THEN url_file_name
                                 ELSE local_file
    BY <2>2, <2>3 DEF check_file_output
  <2>5. local_file' \in Seq(Int)
    BY <2>1, <2>4, UrlName DEF ContentInv, NameInv
  <2> QED BY <1>1, <2>1, <2>5, ContentOver DEF Looping
<1>3. ~NameExists => ~check_file_output.unneeded
  BY DEF NoContent, Redirected, NotModified, FullyRetrieved, WrongRange,
         NoBodyWanted, OpenFails, Exit
<1>4. CASE NotModified \/ FullyRetrieved
  <2>1. err' = "RETRUNNEEDED" /\ local_file' = SaveName
    BY <1>4 DEF NotModified, FullyRetrieved, Gethttp
  <2>2. ~check_file_output.unneeded
    BY <1>4 DEF NotModified, FullyRetrieved, Exit
  <2>3. local_file' \in Seq(Int)
    BY <1>1, <2>1, <2>2, HeadFacts, CheckName
  <2> QED BY <1>1, <2>1, <2>3, ContentOver DEF Looping
<1>5. ASSUME ~check_file_output.unneeded
      PROVE  \A h \in {Headers, Measured} :
                /\ Unwanted(h).existence_checked
                /\ Unwanted(h).len = 0 /\ Unwanted(h).restval = 0
  BY <1>1, <1>5, HeadFacts DEF Unwanted, HttpStat
<1>6. CASE NoContent \/ Redirected \/ NoBodyWanted
  <2>1. ~check_file_output.unneeded
    BY <1>6 DEF NoContent, Redirected, NoBodyWanted, Exit
  <2>2. hs' = Unwanted(Headers) \/ hs' = Unwanted(Measured)
    BY <1>6, CarefulState DEF NoContent, Redirected, NoBodyWanted, Gethttp, Drained
  <2>3. local_file' = check_file_output.name
    BY <1>1, <1>6, <2>1, HeadFacts DEF NoContent, Redirected, NoBodyWanted, Gethttp
  <2>4. hs'.existence_checked /\ hs'.len = 0 /\ hs'.restval = 0
    BY <1>5, <2>1, <2>2
  <2> QED BY <1>1, <2>1, <2>3, <2>4, ContentHead
<1>7. CASE WrongRange \/ OpenFails
  <2>1. ~check_file_output.unneeded
    BY <1>7 DEF WrongRange, OpenFails, Exit
  <2>2. hs' = Headers \/ hs' = Measured
    BY <1>7 DEF WrongRange, OpenFails, Gethttp
  <2>3. local_file' = check_file_output.name
    BY <1>1, <1>7, <2>1, HeadFacts DEF WrongRange, OpenFails, Gethttp
  <2>4. hs'.existence_checked /\ hs'.len = 0 /\ hs'.restval = hs.restval
    BY <1>1, <2>1, <2>2, HeadFacts
  <2> QED BY <1>1, <2>1, <2>3, <2>4, ContentHead
<1> QED BY <1>2, <1>4, <1>6, <1>7

\* The output is opened so that the first byte written will be the one that
\* follows the file's last one, whether or not the server honoured the Range.
LEMMA ContentOpen ==
    ASSUME CarefulAssumption, TypeOK, ContentInv, OpenBody
    PROVE  ContentInv'
<1>1. /\ pc = "head" /\ pc' = "body" /\ UNCHANGED <<opt, loop>>
      /\ hs' = Measured /\ local_file' = SaveName
      /\ disk' = open_output_stream(SaveName) /\ Exit = "body"
      /\ body' = [open |-> TRUE, pos |-> rsp.crange,
                  skip |-> IF hs.restval > 0 /\ rsp.crange = 0 THEN hs.restval
                           ELSE 0,
                  read |-> 0, toread |-> rsp.clen, written |-> 0,
                  doc |-> Success]
  BY DEF OpenBody
<1>2. ~check_file_output.unneeded
  BY <1>1 DEF Exit
<1>3. /\ local_file' \in Seq(Int) /\ local_file' # NoName
      /\ hs.restval > 0 => local_file' = local_file
      /\ hs'.len = 0 /\ hs'.restval = hs.restval /\ hs'.existence_checked
      /\ Headers.restval = hs.restval
  BY <1>1, <1>2, HeadFacts, CheckName
<1>4. Success /\ (rsp.crange = 0 \/ rsp.crange = hs.restval)
  BY <1>1, <1>3, CarefulState DEF Exit
<1>5. hs.restval \in Nat /\ rsp.crange \in Nat
  BY DEF TypeOK, HttpStat, Responses
<1> DEFINE f == SaveName
           file == IF hs.restval > 0 /\ f \in DOMAIN disk THEN disk[f] ELSE Empty
<1>6. disk' = [g \in DOMAIN disk \cup {f} |-> IF g = f THEN file ELSE disk[g]]
  BY <1>1, CarefulState DEF open_output_stream
<1>7. hs.restval > 0 => Exists(local_file) /\ disk[local_file].len = hs.restval
  BY <1>1, <1>5 DEF ContentInv, PositionInv, Looping, Resume
<1>8. file.good /\ file.len = hs.restval
  BY <1>1, <1>3, <1>5, <1>7 DEF Empty, Exists, ContentInv, PrefixOnly
<1> HIDE DEF f, file
<1>9. disk'[local_file'] = file
  BY <1>1, <1>6 DEF f
<1>10. PrefixOnly' /\ IsFiniteSet(DOMAIN disk')
  BY <1>6, <1>8, FS_AddElement DEF ContentInv, PrefixOnly
<1>11. NameInv'
  BY <1>1, <1>3 DEF ContentInv, NameInv
<1>12. body'.pos + body'.skip = hs.restval /\ body'.written = 0 /\ body'.doc
  BY <1>1, <1>4, <1>5
<1>13. PositionInv'
  BY <1>1, <1>3, <1>5, <1>8, <1>9, <1>12 DEF PositionInv
<1> QED BY <1>10, <1>11, <1>13 DEF ContentInv

\* Every byte that is written continues the file.
LEMMA ContentRead ==
    ASSUME CarefulAssumption, TypeInv, TypeOK, ContentInv, ReadBody
    PROVE  ContentInv'
<1>1. /\ pc = "body" /\ pc' = "body"
      /\ UNCHANGED <<opt, local_file, loop, hs>>
  BY DEF ReadBody
<1>2. PICK n \in 1 .. Available : write_data(n)
  BY Zenon DEF ReadBody
<1>3. n \in Nat /\ n > 0
  BY <1>2
<1> DEFINE dropped == IF body.skip < n THEN body.skip ELSE n
           kept == n - dropped
           file == disk[local_file]
           joins == body.doc /\ body.pos + dropped = file.len
<1>4. /\ body.pos \in Nat /\ body.skip \in Nat /\ body.written \in Nat
      /\ Exists(local_file) /\ file \in Files
      /\ hs.restval \in Nat /\ body.doc /\ hs.existence_checked
      /\ file.len = hs.restval + body.written /\ file.len = body.pos + body.skip
      /\ body.skip > 0 => body.written = 0
  BY <1>1, CarefulState
     DEF TypeInv, TypeOK, Bodies, HttpStat, OutputInv, ContentInv, PositionInv,
         Exists
<1>5. /\ dropped \in Nat /\ kept \in Nat /\ n = dropped + kept
      /\ kept > 0 => dropped = body.skip
      /\ body.skip - dropped \in Nat
      /\ body.skip - dropped > 0 => kept = 0
  BY <1>3, <1>4
<1>6. body' = [body EXCEPT !.pos = @ + n, !.read = @ + n,
                           !.skip = @ - dropped, !.written = @ + kept]
  BY <1>2 DEF write_data
<1>7. disk' = IF kept = 0 THEN disk
              ELSE Put(local_file, [len |-> file.len + kept,
                                    good |-> file.good /\ joins,
                                    fresh |-> TRUE])
  BY <1>2, CarefulState DEF write_data
<1>8. body \in Bodies
  BY DEF TypeOK
<1> HIDE DEF dropped, kept
<1>9. /\ body'.pos = body.pos + n /\ body'.skip = body.skip - dropped
      /\ body'.written = body.written + kept /\ body'.doc
  BY <1>4, <1>6, <1>8 DEF Bodies
<1>10. kept > 0 => joins
  BY <1>4, <1>5
<1>11. DOMAIN disk' = DOMAIN disk
  BY <1>4, <1>7 DEF Put, Exists
<1>12. PrefixOnly'
  <2>1. \A g \in DOMAIN disk : disk[g].good
    BY DEF ContentInv, PrefixOnly
  <2>2. CASE kept = 0
    BY <1>7, <2>1, <2>2 DEF PrefixOnly
  <2>3. CASE kept # 0
    <3>1. joins /\ file.good
      BY <1>4, <1>5, <1>10, <2>1, <2>3 DEF Exists
    <3> HIDE DEF joins, file
    <3>2. disk' = Put(local_file, [len |-> file.len + kept, good |-> TRUE,
                                   fresh |-> TRUE])
      BY <1>7, <2>3, <3>1
    <3> QED BY <1>11, <2>1, <3>2 DEF PrefixOnly, Put
  <2> QED BY <2>2, <2>3
<1>13. disk'[local_file'].len = file.len + kept
  <2>1. CASE kept = 0
    BY <1>1, <1>4, <1>7, <2>1 DEF Files
  <2>2. CASE kept # 0
    BY <1>1, <1>7, <2>2 DEF Put
  <2> QED BY <2>1, <2>2
<1>14. NameInv'
  BY <1>1, <1>4 DEF ContentInv, NameInv, Looping
<1>15. /\ disk'[local_file'].len = hs'.restval + body'.written
       /\ disk'[local_file'].len = body'.pos + body'.skip
       /\ body'.skip > 0 => body'.written = 0
  <2>1. file.len \in Nat
    BY <1>4 DEF Files
  <2> HIDE DEF file
  <2> QED BY <1>1, <1>3, <1>4, <1>5, <1>9, <1>13, <2>1
<1>16. PositionInv'
  BY <1>1, <1>4, <1>9, <1>15 DEF PositionInv, ContentInv
<1> QED BY <1>11, <1>12, <1>14, <1>16 DEF ContentInv

\* When the transfer ends, len is the length of the file.
LEMMA ContentEnd ==
    ASSUME CarefulAssumption, TypeInv, TypeOK, ContentInv, EndBody
    PROVE  ContentInv'
<1>1. /\ pc = "body" /\ pc' = "judge" /\ UNCHANGED <<opt, disk, loop, local_file>>
  BY DEF EndBody, Gethttp
<1>2. PICK r : hs' = [hs EXCEPT !.len = hs.restval + body.written, !.res = r]
  BY DEF EndBody, Gethttp
<1>3. /\ hs'.len = hs.restval + body.written /\ hs'.restval = hs.restval
      /\ hs'.existence_checked = hs.existence_checked
  BY <1>2 DEF TypeOK, HttpStat
<1>4. /\ hs.restval \in Nat /\ body.written \in Nat /\ hs.existence_checked
      /\ disk[local_file].len = hs.restval + body.written
      /\ Exists(local_file) /\ Looping
  BY <1>1, CarefulState
     DEF TypeInv, TypeOK, Bodies, HttpStat, OutputInv, ContentInv, PositionInv,
         Looping
<1>5. Resume' = disk[local_file].len
  BY <1>3, <1>4 DEF Resume
<1>6. PrefixOnly' /\ IsFiniteSet(DOMAIN disk')
  BY <1>1 DEF ContentInv, PrefixOnly
<1>7. NameInv'
  BY <1>1, <1>3, <1>4 DEF ContentInv, NameInv
<1>8. PositionInv'
  BY <1>1, <1>4, <1>5 DEF PositionInv, Exists
<1> QED BY <1>6, <1>7, <1>8 DEF ContentInv

\* http_loop's verdict leaves names, files and positions alone.
LEMMA ContentJudge ==
    ASSUME CarefulAssumption, TypeInv, TypeOK, ContentInv,
           \/ RetriableError \/ FatalError \/ NewLocation \/ Unneeded
           \/ MetalinkResult \/ ErrorStatus \/ HeadDone \/ Finish
    PROVE  ContentInv'
<1>1. /\ pc = "judge" /\ pc' \in {"top", "done", "abort"}
      /\ UNCHANGED <<opt, local_file>> /\ loop \in LoopLocals /\ hs \in HttpStat
  BY DEF RetriableError, FatalError, NewLocation, Unneeded, MetalinkResult,
         ErrorStatus, HeadDone, Finish, JudgeUnchanged, Continue, Return, TypeOK
<1>2. /\ hs'.len = hs.len /\ hs'.restval = hs.restval
      /\ hs'.existence_checked = hs.existence_checked
  BY <1>1 DEF RetriableError, FatalError, NewLocation, Unneeded, MetalinkResult,
              ErrorStatus, HeadDone, Finish, HttpStat
<1>3. ~loop'.force_full_retrieve
  <2>1. ~Datable /\ ~loop.force_full_retrieve
    BY CarefulState DEF Datable, ContentInv, NameInv
  <2> QED
    BY <1>1, <2>1 DEF RetriableError, FatalError, NewLocation, Unneeded,
       MetalinkResult, ErrorStatus, HeadDone, Finish, JudgeUnchanged, LoopLocals
<1>4. Looping' => Looping
  <2>1. pc' = "top" => ~Unneeded
    BY DEF Unneeded, Return
  <2>2. err = "RETRUNNEEDED" => Unneeded
    BY DEF RetriableError, FatalError, NewLocation, MetalinkResult,
           ErrorStatus, HeadDone, Finish, Transient, Fatal
  <2> QED BY <1>1, <2>1, <2>2 DEF Looping
<1>5. CASE disk' = disk
  BY <1>1, <1>2, <1>3, <1>4, <1>5, ContentKept
<1>6. CASE disk' # disk
  <2>1. /\ Exists(local_file)
        /\ disk' = Put(local_file, [disk[local_file] EXCEPT !.fresh = TRUE])
    BY <1>6 DEF RetriableError, FatalError, NewLocation, Unneeded,
       MetalinkResult, ErrorStatus, HeadDone, Finish
  <2>2. \A g \in DOMAIN disk : disk[g] \in Files
    BY DEF TypeOK
  <2>3. /\ DOMAIN disk' = DOMAIN disk
        /\ \A g \in DOMAIN disk :
              disk'[g].len = disk[g].len /\ disk'[g].good = disk[g].good
    BY <2>1, <2>2 DEF Put, Exists, Files
  <2>4. PrefixOnly' /\ IsFiniteSet(DOMAIN disk')
    BY <2>3 DEF ContentInv, PrefixOnly
  <2>5. NameInv'
    BY <1>1, <1>2, <1>3, <1>4 DEF ContentInv, NameInv
  <2>6. Resume' = Resume
    BY <1>2 DEF Resume
  <2>7. PositionInv'
    BY <1>1, <1>4, <2>3, <2>6 DEF ContentInv, PositionInv, Exists
  <2> QED BY <2>4, <2>5, <2>7 DEF ContentInv
<1> QED BY <1>5, <1>6

LEMMA ContentStep ==
    ASSUME CarefulAssumption
    PROVE  TypeInv /\ ContentInv /\ [Next]_vars => ContentInv'
<1> SUFFICES ASSUME TypeInv, ContentInv, [Next]_vars PROVE ContentInv'
  OBVIOUS
<1>1. TypeOK
  BY DEF TypeInv
<1>2. CASE UNCHANGED vars
  BY <1>2 DEF vars, ContentInv, PrefixOnly, NameInv, PositionInv, Looping,
              Resume, Exists
<1>3. CASE Rerun
  BY <1>1, <1>3, ContentStart
<1>4. CASE Step
  BY <1>1, <1>4, ContentStart, ContentRequest, ContentExits, ContentOpen,
     ContentRead, ContentEnd, ContentJudge DEF Step
<1> QED BY <1>2, <1>3, <1>4 DEF Next

\* For command lines that leave names and positions to http_loop, and a
\* directory that holds only beginnings of the document: however requests,
\* cut transfers, servers that ignore the Range, kills and reruns follow one
\* another, the files never hold anything else than the document's beginning.
THEOREM FilesArePrefixes ==
    ASSUME CarefulAssumption
    PROVE  Spec => []PrefixOnly
<1>1. Init => TypeInv /\ ContentInv
  BY InitType, ContentInit
<1>2. TypeInv /\ ContentInv /\ [Next]_vars => (TypeInv /\ ContentInv)'
  BY TypeStep, ContentStep
<1>3. ContentInv => PrefixOnly
  BY DEF ContentInv
<1> QED BY <1>1, <1>2, <1>3, PTL DEF Spec

\* For the same command lines, a try that asks for a Range asks for exactly
\* the bytes that follow the file it will append to.
THEOREM ResumesWhereFileEnds ==
    ASSUME CarefulAssumption
    PROVE  Spec => []ResumesAtEnd
<1>1. Init => TypeInv /\ ContentInv
  BY InitType, ContentInit
<1>2. TypeInv /\ ContentInv /\ [Next]_vars => (TypeInv /\ ContentInv)'
  BY TypeStep, ContentStep
<1>3. TypeInv /\ ContentInv => ResumesAtEnd
  <2> SUFFICES ASSUME TypeInv, ContentInv, pc \in {"connect", "sent", "head"},
                      hs.restval > 0
               PROVE  Exists(local_file) /\ disk[local_file].len = hs.restval
    BY DEF ResumesAtEnd
  <2>1. hs.len = 0 /\ hs.restval \in Nat /\ Looping /\ pc # "body"
    BY DEF ContentInv, PositionInv, Looping, TypeInv, TypeOK, HttpStat
  <2>2. Resume = hs.restval
    BY <2>1 DEF Resume
  <2> QED BY <2>1, <2>2 DEF ContentInv, PositionInv
<1> QED BY <1>1, <1>2, <1>3, PTL DEF Spec

-----------------------------------------------------------------------------
(***************************************************************************)
(* The length of a finished download.  http_loop compares the lengths that *)
(* gethttp left in http_stat: that they speak of the file needs what the   *)
(* server may announce, from the head to the verdict.                      *)
(***************************************************************************)
\* A response that carries the document, or a part of it, announces its length
\* or none.
Honest ==
    /\ rsp.clen >= -1
    /\ rsp.code = 200 => rsp.clen \in {-1, Size} /\ rsp.crange = 0
    /\ rsp.code = 206 => rsp.clen = Size - rsp.crange

LengthInv ==
    /\ \A f \in DOMAIN disk : disk[f].len <= Size
    /\ pc = "head" => Honest
    /\ pc \in {"main", "enter", "connect", "sent", "head"} => ~body.open
    /\ pc \in {"connect", "sent", "head"} => hs.contlen = -1
    /\ pc = "body" => body.open /\ hs.contlen \in {-1, Size}
    /\ pc = "judge" /\ err = "RETRFINISHED"
         => IF body.open
            THEN /\ hs.contlen \in {-1, Size} /\ Exists(local_file)
                 /\ hs.len = disk[local_file].len
            ELSE hs.len = 0 /\ hs.contlen >= -1

WholeInv == LengthInv /\ SavedWhole

\* The server's answers are honest about the length.
LEMMA AnswersHonest ==
    ASSUME TypeOK, NEW r \in Answers, rsp' = r
    PROVE  Honest'
<1>1. Size \in Nat /\ PageLen = 1
  BY SizeAssumption DEF PageLen
<1>2. CASE r \in Whole
  BY <1>1, <1>2 DEF Whole, DocAnswer, Response, Honest
<1>3. CASE r \in Parts
  <2>1. PICK k \in 0 .. Size - 1 : r = DocAnswer(206, Size - k, k)
    BY <1>3 DEF Parts
  <2>2. r.clen = Size - k /\ r.crange = k /\ r.code = 206
    BY <2>1 DEF DocAnswer, Response
  <2> QED BY <1>1, <2>2 DEF Honest
<1>4. CASE r \in Pages(-1) \cup Pages(PageLen) /\ r.code \notin {200, 206}
  <2>1. r.clen \in {-1, PageLen}
    BY <1>4 DEF Pages, Response
  <2> QED BY <1>1, <1>4, <2>1 DEF Honest
<1>5. CASE r \in Bare(TRUE) \cup Bare(FALSE)
  <2>1. r.clen = -1 /\ r.code \in {301, 304, 416}
    BY <1>5 DEF Bare, Response
  <2> QED BY <2>1 DEF Honest
<1> QED BY <1>2, <1>3, <1>4, <1>5 DEF Answers

\* Steps that touch neither the files nor a transfer.
LEMMA WholeKept ==
    ASSUME WholeInv, disk' = disk,
           pc' # "body", pc' # "abort", pc' # "judge" \/ err' # "RETRFINISHED",
           pc' = "done" => ret' # "RETROK" \/ err' # "RETRFINISHED"
                             \/ ~body'.open,
           pc' = "head" => Honest',
           pc' \in {"main", "enter", "connect", "sent", "head"} => ~body'.open,
           pc' \in {"connect", "sent", "head"} => hs'.contlen = -1
    PROVE  WholeInv'
<1>1. LengthInv'
  BY DEF WholeInv, LengthInv
<1>2. SavedWhole'
  BY DEF SavedWhole, FinishedWhole, NeverAborts
<1> QED BY <1>1, <1>2 DEF WholeInv

LEMMA WholeInit == CarefulAssumption /\ Init => WholeInv
<1> SUFFICES ASSUME CarefulAssumption, Init PROVE WholeInv
  OBVIOUS
<1>1. \A f \in DOMAIN disk : disk[f].len <= Size
  BY DisksAssumption DEF CarefulAssumption, Init
<1>2. LengthInv
  BY <1>1 DEF LengthInv, Init, NoBody
<1>3. SavedWhole
  BY DEF SavedWhole, FinishedWhole, NeverAborts, Init
<1> QED BY <1>2, <1>3 DEF WholeInv

\* Starting wget and starting a try.
LEMMA WholeStart ==
    ASSUME CarefulAssumption, TypeOK, WholeInv,
           OpenOutputDocument \/ EnterHttpLoop \/ StartTry \/ Rerun
    PROVE  WholeInv'
<1>1. CASE OpenOutputDocument
  <2>1. /\ pc = "main" /\ pc' = "enter" /\ disk' = disk /\ body' = body
    BY <1>1, CarefulState DEF OpenOutputDocument
  <2> QED BY <2>1, WholeKept DEF WholeInv, LengthInv
<1>2. CASE EnterHttpLoop
  <2>1. /\ pc = "enter" /\ pc' \in {"top", "done"} /\ disk' = disk /\ body' = body
    BY <1>2 DEF EnterHttpLoop, Return
  <2>2. ~body'.open
    BY <2>1 DEF WholeInv, LengthInv
  <2> QED BY <2>1, <2>2, WholeKept
<1>3. CASE StartTry
  <2>1. pc' = "connect" /\ disk' = disk /\ ~body'.open
    BY <1>3 DEF StartTry, NoBody
  <2>2. hs'.contlen = -1
    BY <1>3 DEF StartTry, TypeOK, HttpStat
  <2> QED BY <2>1, <2>2, WholeKept
<1>4. CASE Rerun
  <2>1. pc' = "main" /\ disk' = disk /\ ~body'.open
    BY <1>4 DEF Rerun, NoBody
  <2> QED BY <2>1, WholeKept
<1> QED BY <1>1, <1>2, <1>3, <1>4

\* A try up to the response head, and the exits before it is looked at.
LEMMA WholeRequest ==
    ASSUME CarefulAssumption, TypeOK, WholeInv,
           \/ ConnectFails \/ SendRequest \/ HeadFails \/ ReadHead
           \/ MetalinkHead \/ RetryWithAuth \/ AuthFails
    PROVE  WholeInv'
<1>1. /\ disk' = disk /\ body' = body /\ hs' = hs
      /\ pc \in {"connect", "sent", "head"}
      /\ pc' \in {"connect", "sent", "head", "judge"}
      /\ pc' = "judge" => err' # "RETRFINISHED"
  BY CarefulState
     DEF ConnectFails, SendRequest, HeadFails, ReadHead, MetalinkHead,
         RetryWithAuth, AuthFails, HeadUnchanged, Gethttp, Drained
<1>2. ~body.open /\ hs.contlen = -1
  BY <1>1 DEF WholeInv, LengthInv
<1>3. pc' = "head" => Honest'
  <2>1. pc' = "head" => ReadHead
    BY DEF ConnectFails, SendRequest, HeadFails, MetalinkHead,
           RetryWithAuth, AuthFails, Gethttp
  <2> QED BY <2>1, AnswersHonest DEF ReadHead
<1> QED BY <1>1, <1>2, <1>3, WholeKept

\* What the head says of the lengths.
LEMMA MeasuredLength ==
    ASSUME TypeOK, WholeInv, pc = "head"
    PROVE  /\ Headers.contlen = -1
           /\ Measured.contlen \in Int /\ Measured.contlen >= -1
           /\ rsp.code \in {200, 206} => Measured.contlen \in {-1, Size}
<1>1. rsp \in Responses /\ Size \in Nat
  BY SizeAssumption DEF TypeOK
<1>2. Honest /\ hs.contlen = -1
  BY DEF WholeInv, LengthInv
<1>3. check_file_output.hs.contlen = -1
  BY <1>2 DEF check_file_output, set_file_timestamp, TypeOK, HttpStat
<1>4. check_file_output.hs \in HttpStat
  BY CheckType
<1>5. Headers.contlen = -1 /\ Headers \in HttpStat
  BY <1>3, <1>4, HeadersType DEF Headers, HttpStat
<1>6. Measured.contlen = IF rsp.clen = -1 THEN -1 ELSE rsp.clen + rsp.crange
  BY <1>5 DEF Measured, HttpStat
<1>7. rsp.clen \in Int /\ rsp.crange \in Nat
  BY <1>1 DEF Responses
<1> QED BY <1>1, <1>2, <1>5, <1>6, <1>7 DEF Honest

\* The exits of gethttp that save nothing.
LEMMA WholeExits ==
    ASSUME CarefulAssumption, TypeOK, ContentInv, WholeInv,
           \/ NameExists \/ NoContent \/ Redirected \/ NotModified
           \/ FullyRetrieved \/ WrongRange \/ NoBodyWanted \/ OpenFails
    PROVE  WholeInv'
<1>1. /\ pc = "head" /\ pc' = "judge" /\ disk' = disk /\ body' = body
  BY CarefulState
     DEF NameExists, NoContent, Redirected, NotModified, FullyRetrieved,
         WrongRange, NoBodyWanted, OpenFails, HeadUnchanged, Gethttp
<1>2. ~body.open
  BY <1>1 DEF WholeInv, LengthInv
<1>3. CASE NoContent \/ NoBodyWanted
  <2>1. hs' = Unwanted(Headers) \/ hs' = Unwanted(Measured)
    BY <1>3, CarefulState DEF NoContent, NoBodyWanted, Gethttp, Drained
  <2>2. \A h \in {Headers, Measured} :
           Unwanted(h).len = 0 /\ Unwanted(h).contlen = h.contlen
    BY HeadersType DEF Unwanted, HttpStat
  <2>3. hs'.len = 0 /\ hs'.contlen >= -1
    BY <1>1, <2>1, <2>2, MeasuredLength
  <2>4. LengthInv'
    BY <1>1, <1>2, <2>3 DEF WholeInv, LengthInv
  <2>5. SavedWhole'
    BY <1>1 DEF SavedWhole, FinishedWhole, NeverAborts
  <2> QED BY <2>4, <2>5 DEF WholeInv
<1>4. CASE ~(NoContent \/ NoBodyWanted)
  <2>1. err' # "RETRFINISHED"
    BY <1>4, CarefulState
       DEF NameExists, Redirected, NotModified, FullyRetrieved, WrongRange,
           OpenFails, Gethttp
  <2> QED BY <1>1, <1>2, <2>1, WholeKept
<1> QED BY <1>3, <1>4

\* The body of a success announces the whole document or nothing.
LEMMA WholeOpen ==
    ASSUME CarefulAssumption, TypeOK, ContentInv, WholeInv, OpenBody
    PROVE  WholeInv'
<1>1. /\ pc = "head" /\ pc' = "body" /\ Exit = "body"
      /\ hs' = Measured /\ disk' = open_output_stream(SaveName)
      /\ body'.open
  BY DEF OpenBody
<1>2. Success /\ rsp.code # 204
  BY <1>1, CarefulState DEF Exit
<1>3. hs'.contlen \in {-1, Size}
  BY <1>1, <1>2, MeasuredLength DEF Success
<1>4. /\ \A f \in DOMAIN disk : disk[f].len <= Size
      /\ 0 <= Size
  BY SizeAssumption DEF WholeInv, LengthInv
<1>5. \A f \in DOMAIN disk' : disk'[f].len <= Size
  <2> DEFINE f == SaveName
             file == IF hs.restval > 0 /\ f \in DOMAIN disk THEN disk[f]
                     ELSE Empty
  <2>1. disk' = [g \in DOMAIN disk \cup {f} |->
                    IF g = f THEN file ELSE disk[g]]
    BY <1>1, CarefulState DEF open_output_stream
  <2>2. file.len <= Size
    BY <1>4 DEF Empty
  <2> HIDE DEF f, file
  <2> QED BY <1>4, <2>1, <2>2
<1>6. LengthInv'
  BY <1>1, <1>3, <1>5 DEF LengthInv
<1>7. SavedWhole'
  BY <1>1 DEF SavedWhole, FinishedWhole, NeverAborts
<1> QED BY <1>6, <1>7 DEF WholeInv

\* Bytes arrive: no file outgrows the document, because the position in the
\* body and the length of the file agree.
LEMMA WholeRead ==
    ASSUME CarefulAssumption, TypeInv, TypeOK, ContentInv, WholeInv, ReadBody
    PROVE  WholeInv'
<1>1. pc = "body" /\ pc' = "body" /\ UNCHANGED <<local_file, hs>>
  BY DEF ReadBody
<1>2. PICK n \in 1 .. Available : write_data(n)
  BY Zenon DEF ReadBody
<1>3. ContentInv'
  BY ContentRead
<1>4. TypeOK'
  BY BodyType, Zenon DEF TypeInv
<1>5. /\ body.pos \in Nat /\ body.skip \in Nat /\ body.doc /\ Size \in Nat
      /\ disk[local_file] \in Files /\ disk[local_file].len = body.pos + body.skip
      /\ disk[local_file].len <= Size /\ Exists(local_file)
  BY <1>1, CarefulState, SizeAssumption
     DEF TypeInv, TypeOK, Bodies, OutputInv, ContentInv, PositionInv, Exists,
         WholeInv, LengthInv
<1>6. n \in Nat /\ body.pos + n <= Size
  BY <1>2, <1>5 DEF Available
<1> DEFINE dropped == IF body.skip < n THEN body.skip ELSE n
<1>7. /\ body'.pos = body.pos + n /\ body'.skip = body.skip - dropped
      /\ body'.open = body.open
  <2>1. body' = [body EXCEPT !.pos = @ + n, !.read = @ + n,
                             !.skip = @ - dropped,
                             !.written = @ + (n - dropped)]
    BY <1>2 DEF write_data
  <2>2. body \in Bodies
    BY DEF TypeOK
  <2> HIDE DEF dropped
  <2> QED BY <2>1, <2>2 DEF Bodies
<1>8. disk'[local_file].len = body'.pos + body'.skip
  BY <1>1, <1>3 DEF ContentInv, PositionInv
<1>9. disk'[local_file].len <= Size
  BY <1>5, <1>6, <1>7, <1>8
<1>10. \A f \in DOMAIN disk' : f # local_file => f \in DOMAIN disk /\ disk'[f] = disk[f]
  <2>1. \/ disk' = disk
        \/ \E file : disk' = Put(local_file, file)
    BY <1>2, CarefulState DEF write_data
  <2> QED BY <2>1 DEF Put
<1>11. \A f \in DOMAIN disk' : disk'[f].len <= Size
  BY <1>9, <1>10 DEF WholeInv, LengthInv
<1>12. body'.open /\ hs'.contlen \in {-1, Size}
  BY <1>1, <1>7 DEF WholeInv, LengthInv
<1>13. LengthInv'
  BY <1>1, <1>11, <1>12 DEF LengthInv
<1>14. SavedWhole'
  BY <1>1 DEF SavedWhole, FinishedWhole, NeverAborts
<1> QED BY <1>13, <1>14 DEF WholeInv

\* When the transfer ends, len is the length of the file.
LEMMA WholeEnd ==
    ASSUME CarefulAssumption, TypeInv, TypeOK, ContentInv, WholeInv, EndBody
    PROVE  WholeInv'
<1>1. pc = "body" /\ pc' = "judge" /\ UNCHANGED <<disk, body, local_file>>
  BY DEF EndBody, Gethttp
<1>2. PICK r : hs' = [hs EXCEPT !.len = hs.restval + body.written, !.res = r]
  BY DEF EndBody, Gethttp
<1>3. hs'.len = hs.restval + body.written /\ hs'.contlen = hs.contlen
  BY <1>2 DEF TypeOK, HttpStat
<1>4. /\ disk[local_file].len = hs.restval + body.written
      /\ Exists(local_file)
  BY <1>1, CarefulState DEF TypeInv, OutputInv, ContentInv, PositionInv
<1>5. LengthInv'
  BY <1>1, <1>3, <1>4 DEF WholeInv, LengthInv, Exists
<1>6. SavedWhole'
  BY <1>1 DEF SavedWhole, FinishedWhole, NeverAborts
<1> QED BY <1>5, <1>6 DEF WholeInv

\* http_loop's verdict: RETROK only of a file that has the announced length,
\* and never the abort.
LEMMA WholeFinish ==
    ASSUME CarefulAssumption, TypeOK, WholeInv, Finish
    PROVE  WholeInv'
<1>1. /\ pc = "judge" /\ err = "RETRFINISHED"
      /\ UNCHANGED <<opt, hs, local_file, body, err>>
  BY DEF Finish, JudgeUnchanged
<1>2. /\ hs.len \in Int /\ hs.contlen \in Int /\ Size \in Nat
      /\ \A f \in DOMAIN disk : disk[f] \in Files /\ disk[f].len <= Size
  BY SizeAssumption DEF TypeOK, HttpStat, WholeInv, LengthInv
<1>3. ~Shrunk
  <2>1. CASE body.open
    BY <1>1, <1>2, <2>1 DEF WholeInv, LengthInv, Shrunk, Exists
  <2>2. CASE ~body.open
    BY <1>1, <1>2, <2>2 DEF WholeInv, LengthInv, Shrunk
  <2> QED BY <2>1, <2>2
<1>4. /\ DOMAIN disk' = DOMAIN disk
      /\ \A f \in DOMAIN disk : disk'[f].len = disk[f].len
  <2>1. \/ disk' = disk
        \/ /\ Exists(local_file)
           /\ disk' = Put(local_file, [disk[local_file] EXCEPT !.fresh = TRUE])
    BY DEF Finish
  <2> QED BY <1>2, <2>1 DEF Put, Exists, Files
<1>5. \/ pc' = "done" /\ ret' = "RETROK" /\ Complete
      \/ pc' = "done" /\ ret' = "TRYLIMEXC"
      \/ pc' = "top"
  BY <1>3 DEF Finish, Return, Continue
<1>6. FinishedWhole'
  <2> SUFFICES ASSUME pc' = "done", ret' = "RETROK", body.open,
                      hs.contlen # -1
               PROVE  disk'[local_file].len = Size
    <3>1. Output' = local_file
      BY <1>1, CarefulState DEF Output
    <3> QED BY <1>1, <3>1 DEF FinishedWhole
  <2>1. Complete
    BY <1>5
  <2>2. hs.len = Size /\ Exists(local_file) /\ hs.len = disk[local_file].len
    BY <1>1, <2>1 DEF Complete, WholeInv, LengthInv
  <2> QED BY <1>4, <2>2 DEF Exists
<1>7. LengthInv'
  BY <1>2, <1>4, <1>5 DEF LengthInv
<1>8. SavedWhole'
  BY <1>5, <1>6 DEF SavedWhole, NeverAborts
<1> QED BY <1>7, <1>8 DEF WholeInv

\* The other results of gethttp report no download as finished.
LEMMA WholeJudge ==
    ASSUME CarefulAssumption, TypeOK, WholeInv,
           \/ RetriableError \/ FatalError \/ NewLocation \/ Unneeded
           \/ MetalinkResult \/ ErrorStatus \/ HeadDone
    PROVE  WholeInv'
<1>1. /\ pc = "judge" /\ pc' \in {"top", "done"} /\ disk' = disk /\ err' = err
  BY DEF RetriableError, FatalError, NewLocation, Unneeded, MetalinkResult,
         ErrorStatus, HeadDone, JudgeUnchanged, Continue, Return
<1>2. pc' = "done" /\ err = "RETRFINISHED" => ret' # "RETROK"
  <2>1. ~UpToDate /\ ~SpiderDone
    BY CarefulState DEF UpToDate, Datable, SpiderDone
  <2> QED
    BY <2>1 DEF RetriableError, FatalError, NewLocation, Unneeded,
       MetalinkResult, ErrorStatus, HeadDone, Continue, Return, Transient, Fatal
<1> QED BY <1>1, <1>2, WholeKept

LEMMA WholeStep ==
    ASSUME CarefulAssumption
    PROVE  TypeInv /\ ContentInv /\ WholeInv /\ [Next]_vars => WholeInv'
<1> SUFFICES ASSUME TypeInv, ContentInv, WholeInv, [Next]_vars
             PROVE  WholeInv'
  OBVIOUS
<1>1. TypeOK
  BY DEF TypeInv
<1>2. CASE UNCHANGED vars
  BY <1>2 DEF vars, WholeInv, LengthInv, SavedWhole, FinishedWhole, NeverAborts,
              Output, Honest, Exists
<1>3. CASE Rerun
  BY <1>1, <1>3, WholeStart
<1>4. CASE Step
  BY <1>1, <1>4, WholeStart, WholeRequest, WholeExits, WholeOpen, WholeRead,
     WholeEnd, WholeFinish, WholeJudge DEF Step
<1> QED BY <1>2, <1>3, <1>4 DEF Next

\* For the careful command lines: a download that http_loop reports as
\* finished has the length the server announced, over however many cut,
\* resumed or skipped bodies it was put together, and http_loop never aborts
\* over bytes beyond that length.
THEOREM FinishedFilesAreWhole ==
    ASSUME CarefulAssumption
    PROVE  Spec => []SavedWhole
<1>1. Init => TypeInv /\ ContentInv /\ WholeInv
  BY InitType, ContentInit, WholeInit
<1>2. TypeInv /\ ContentInv /\ WholeInv /\ [Next]_vars
        => (TypeInv /\ ContentInv /\ WholeInv)'
  BY TypeStep, ContentStep, WholeStep
<1>3. WholeInv => SavedWhole
  BY DEF WholeInv
<1> QED BY <1>1, <1>2, <1>3, PTL DEF Spec

-----------------------------------------------------------------------------
(***************************************************************************)
(* What a run does to the files it found.  The name that a try writes to   *)
(* is looked up once, before the first byte; that later tries reuse it     *)
(* without looking is safe because it was new then.                        *)
(***************************************************************************)
KeptInv ==
    /\ DOMAIN had \subseteq DOMAIN disk
    /\ pc = "main" => ~hs.existence_checked
    /\ hs.existence_checked /\ ~ALLOW_CLOBBER => local_file \notin DOMAIN had
    /\ pc = "body" \/ (pc = "judge" /\ err = "RETRFINISHED") => hs.existence_checked
    /\ pc \notin {"main", "enter"} /\ opt.always_rest => loop.got_name
    /\ pc \in {"connect", "sent", "head"} /\ opt.always_rest /\ hs.restval = 0
         /\ Exists(local_file) => disk[local_file].len = 0

\* What a step may do to the files.
FilesKept ==
    /\ ~ALLOW_CLOBBER =>
          \A f \in DOMAIN had : f \in DOMAIN disk' /\ disk'[f] = disk[f]
    /\ opt.always_rest =>
          \A f \in DOMAIN disk : f \in DOMAIN disk' /\ disk'[f].len >= disk[f].len

\* A step that leaves the directory alone.
LEMMA SameFiles ==
    ASSUME TypeOK, KeptInv, disk' = disk
    PROVE  FilesKept
<1>1. \A f \in DOMAIN disk : disk[f].len \in Nat
  BY DEF TypeOK, Files
<1> QED BY <1>1 DEF FilesKept, KeptInv

\* A step that writes one file, which was not there when the run started.
LEMMA OneFile ==
    ASSUME TypeOK, KeptInv, NEW f, NEW file, disk' = Put(f, file),
           ~ALLOW_CLOBBER => f \notin DOMAIN had,
           opt.always_rest /\ Exists(f) => file.len >= disk[f].len
    PROVE  FilesKept /\ DOMAIN disk \subseteq DOMAIN disk'
<1>1. \A g \in DOMAIN disk : disk[g].len \in Nat
  BY DEF TypeOK, Files
<1>2. /\ DOMAIN disk' = DOMAIN disk \cup {f} /\ disk'[f] = file
      /\ \A g \in DOMAIN disk : g # f => disk'[g] = disk[g]
  BY DEF Put
<1>3. ~ALLOW_CLOBBER =>
         \A g \in DOMAIN had : g \in DOMAIN disk' /\ disk'[g] = disk[g]
  BY <1>2 DEF KeptInv
<1>4. opt.always_rest =>
         \A g \in DOMAIN disk : g \in DOMAIN disk' /\ disk'[g].len >= disk[g].len
  BY <1>1, <1>2 DEF Exists
<1> QED BY <1>2, <1>3, <1>4 DEF FilesKept

\* Steps that settle no name.
LEMMA KeptKept ==
    ASSUME KeptInv, UNCHANGED <<opt, had, local_file>>, disk' = disk,
           hs'.existence_checked = hs.existence_checked,
           pc' # "main", pc' # "body", pc # "main",
           opt.always_rest => loop'.got_name,
           pc' = "judge" /\ err' = "RETRFINISHED" => hs.existence_checked,
           pc' \in {"connect", "sent", "head"}
             => pc \in {"connect", "sent", "head"} /\ hs'.restval = hs.restval
    PROVE  KeptInv'
BY DEF KeptInv, ALLOW_CLOBBER, Exists

\* The name that check_file_output settles was not there when the run
\* started, and with -c it is the name of the file to continue.
LEMMA SettledName ==
    ASSUME CarefulAssumption, TypeOK, ContentInv, KeptInv, pc = "head",
           ~check_file_output.unneeded
    PROVE  /\ ~ALLOW_CLOBBER => check_file_output.name \notin DOMAIN had
           /\ opt.always_rest => check_file_output.name = local_file
<1>1. ~Temporary /\ ~opt.timestamping /\ ~opt.output_document
  BY CarefulState DEF Temporary
<1> DEFINE name0 == IF local_file = NoName THEN url_file_name ELSE local_file
           taken == ~hs.existence_checked /\ Exists(name0)
           name2 == IF taken /\ ~ALLOW_CLOBBER THEN unique_name(name0)
                    ELSE name0
<1>2. check_file_output.name = name2
  BY <1>1 DEF check_file_output
<1>3. name0 \in Seq(Int)
  BY UrlName DEF ContentInv, NameInv
<1>4. opt.always_rest \/ hs.existence_checked => name0 = local_file
  BY DEF ContentInv, NameInv, Looping
<1>5. CASE ~ALLOW_CLOBBER
  <2>1. ~opt.always_rest
    BY <1>5 DEF ALLOW_CLOBBER
  <2>2. ~Exists(unique_name(name0))
    <3> HIDE DEF name0
    <3> QED BY <1>3, UniqueName DEF ContentInv
  <2>3. DOMAIN had \subseteq DOMAIN disk
    BY DEF KeptInv
  <2>4. CASE hs.existence_checked
    BY <1>2, <1>4, <1>5, <2>1, <2>4 DEF KeptInv
  <2>5. CASE ~hs.existence_checked
    <3> HIDE DEF name0
    <3> QED BY <1>2, <1>5, <2>1, <2>2, <2>3, <2>5 DEF Exists
  <2> QED BY <2>4, <2>5
<1>6. CASE ALLOW_CLOBBER
  BY <1>2, <1>4, <1>6
<1> QED BY <1>5, <1>6

LEMMA KeptInit == Init => KeptInv
BY DEF Init, KeptInv, ZeroStat

\* Starting wget and starting a try.
LEMMA KeptStart ==
    ASSUME CarefulAssumption, TypeInv, TypeOK, ContentInv, KeptInv,
           OpenOutputDocument \/ EnterHttpLoop \/ StartTry \/ Rerun
    PROVE  disk' = disk /\ KeptInv'
<1>1. CASE OpenOutputDocument
  <2>1. /\ pc = "main" /\ pc' = "enter" /\ had' = disk /\ disk' = disk
        /\ UNCHANGED <<opt, hs, local_file>>
    BY <1>1, CarefulState DEF OpenOutputDocument
  <2> QED BY <2>1 DEF KeptInv, ALLOW_CLOBBER
<1>2. CASE EnterHttpLoop
  <2>1. /\ hs' = ZeroStat /\ disk' = disk /\ had' = had /\ opt' = opt
        /\ pc' \in {"top", "done"}
    BY <1>2, CarefulState DEF EnterHttpLoop, Return
  <2>2. opt.always_rest => loop'.got_name
    BY <1>2, CarefulState DEF EnterHttpLoop, ZeroLoop
  <2>3. ~hs'.existence_checked
    BY <2>1 DEF ZeroStat
  <2> QED BY <2>1, <2>2, <2>3 DEF KeptInv
<1>3. CASE StartTry
  <2>1. /\ pc = "top" /\ pc' = "connect"
        /\ UNCHANGED <<opt, disk, local_file, had>>
    BY <1>3 DEF StartTry
  <2>2. loop'.got_name = loop.got_name
    BY <1>3 DEF StartTry, TypeOK, LoopLocals
  <2>3. /\ hs'.restval = Restart(loop.count + 1)
        /\ hs'.existence_checked = hs.existence_checked
    BY <1>3 DEF StartTry, TypeOK, HttpStat
  <2>4. ~loop.force_full_retrieve /\ opt.start_pos < 0 /\ opt.start_pos \in Int
    BY CarefulState DEF ContentInv, NameInv
  <2>5. opt.always_rest /\ Exists(local_file)
          => Restart(loop.count + 1) = disk[local_file].len
    BY <2>1, <2>4 DEF Restart, KeptInv
  <2> QED BY <2>1, <2>2, <2>3, <2>5 DEF KeptInv, ALLOW_CLOBBER, Exists
<1>4. CASE Rerun
  <2>1. /\ pc' = "main" /\ disk' = disk /\ had' = had /\ ~hs'.existence_checked
    BY <1>4 DEF Rerun, ZeroStat
  <2> QED BY <2>1 DEF KeptInv
<1> QED BY <1>1, <1>2, <1>3, <1>4

\* A try up to the response head, and the exits before it is looked at.
LEMMA KeptRequest ==
    ASSUME CarefulAssumption, TypeOK, KeptInv,
           \/ ConnectFails \/ SendRequest \/ HeadFails \/ ReadHead
           \/ MetalinkHead \/ RetryWithAuth \/ AuthFails
    PROVE  disk' = disk /\ KeptInv'
<1>1. /\ UNCHANGED <<opt, had, local_file, hs, loop>> /\ disk' = disk
      /\ pc \in {"connect", "sent", "head"}
      /\ pc' \in {"connect", "sent", "head", "judge"}
      /\ pc' = "judge" => err' # "RETRFINISHED"
  BY CarefulState
     DEF ConnectFails, SendRequest, HeadFails, ReadHead, MetalinkHead,
         RetryWithAuth, AuthFails, HeadUnchanged, Gethttp, Drained
<1>2. opt.always_rest => loop.got_name
  BY <1>1 DEF KeptInv
<1> QED BY <1>1, <1>2, KeptKept

\* The exits of gethttp that save nothing.
LEMMA KeptExits ==
    ASSUME CarefulAssumption, TypeOK, ContentInv, KeptInv,
           \/ NameExists \/ NoContent \/ Redirected \/ NotModified
           \/ FullyRetrieved \/ WrongRange \/ NoBodyWanted \/ OpenFails
    PROVE  disk' = disk /\ KeptInv'
<1>1. /\ pc = "head" /\ pc' = "judge" /\ UNCHANGED <<opt, had, loop>>
      /\ disk' = disk
  BY CarefulState
     DEF NameExists, NoContent, Redirected, NotModified, FullyRetrieved,
         WrongRange, NoBodyWanted, OpenFails, HeadUnchanged, Gethttp
<1>2. opt.always_rest => loop.got_name
  BY <1>1 DEF KeptInv
<1>3. CASE NameExists
  <2>1. hs' = hs /\ err' = "RETRUNNEEDED"
    BY <1>3 DEF NameExists, Gethttp
  <2>2. check_file_output.unneeded
    BY <1>3 DEF NameExists, Exit
  <2>3. ~hs.existence_checked
    BY <2>2 DEF check_file_output
  <2> QED BY <1>1, <1>2, <2>1, <2>3 DEF KeptInv
<1>4. CASE ~NameExists
  <2>1. ~check_file_output.unneeded
    BY <1>4 DEF NoContent, Redirected, NotModified, FullyRetrieved, WrongRange,
           NoBodyWanted, OpenFails, Exit
  <2>2. local_file' = check_file_output.name
    BY <1>1, <1>4, <2>1, HeadFacts
       DEF NoContent, Redirected, NotModified, FullyRetrieved, WrongRange,
           NoBodyWanted, OpenFails, Gethttp
  <2>3. hs'.existence_checked
    <3>1. Headers \in HttpStat /\ Measured \in HttpStat
          /\ Headers.existence_checked /\ Measured.existence_checked
      BY <1>1, <2>1, HeadFacts
    <3>2. \A h \in {Headers, Measured} : Unwanted(h).existence_checked
      BY <3>1 DEF Unwanted, HttpStat
    <3>3. CASE NoContent \/ Redirected \/ NoBodyWanted
      <4>1. hs' = Unwanted(Headers) \/ hs' = Unwanted(Measured)
        BY <3>3, CarefulState DEF NoContent, Redirected, NoBodyWanted, Gethttp,
                                  Drained
      <4> QED BY <3>2, <4>1
    <3>4. CASE FullyRetrieved
      BY <3>1, <3>4 DEF FullyRetrieved, Gethttp, HttpStat
    <3>5. CASE NotModified \/ WrongRange \/ OpenFails
      BY <3>1, <3>5 DEF NotModified, WrongRange, OpenFails, Gethttp
    <3> QED BY <1>4, <3>3, <3>4, <3>5
  <2>4. ~ALLOW_CLOBBER => local_file' \notin DOMAIN had
    BY <1>1, <2>1, <2>2, SettledName
  <2> QED BY <1>1, <1>2, <2>3, <2>4 DEF KeptInv, ALLOW_CLOBBER
<1> QED BY <1>3, <1>4

\* A file is opened for appending, or was not there when the run started.
LEMMA KeptOpen ==
    ASSUME CarefulAssumption, TypeOK, ContentInv, KeptInv, OpenBody
    PROVE  FilesKept /\ KeptInv'
<1>1. /\ pc = "head" /\ pc' = "body" /\ Exit = "body"
      /\ UNCHANGED <<opt, had, loop>> /\ hs' = Measured
      /\ local_file' = SaveName /\ disk' = open_output_stream(SaveName)
  BY DEF OpenBody
<1>2. ~check_file_output.unneeded
  BY <1>1 DEF Exit
<1>3. SaveName = check_file_output.name /\ hs'.existence_checked
  BY <1>1, <1>2, HeadFacts
<1>4. /\ ~ALLOW_CLOBBER => SaveName \notin DOMAIN had
      /\ opt.always_rest => SaveName = local_file
  BY <1>1, <1>2, <1>3, SettledName
<1> DEFINE f == SaveName
           file == IF hs.restval > 0 /\ f \in DOMAIN disk THEN disk[f] ELSE Empty
<1>5. disk' = Put(f, file)
  BY <1>1, CarefulState DEF open_output_stream, Put
<1>6. opt.always_rest /\ Exists(f) => file.len >= disk[f].len
  <2> SUFFICES ASSUME opt.always_rest, Exists(f) PROVE file.len >= disk[f].len
    OBVIOUS
  <2>1. hs.restval \in Nat /\ disk[f].len \in Nat
    BY DEF TypeOK, HttpStat, Files, Exists
  <2>2. CASE hs.restval > 0
    BY <2>1, <2>2 DEF Exists
  <2>3. CASE hs.restval = 0
    BY <1>1, <1>4, <2>1, <2>3 DEF KeptInv, Empty
  <2> QED BY <2>1, <2>2, <2>3
<1> HIDE DEF f, file
<1>7. FilesKept /\ DOMAIN disk \subseteq DOMAIN disk'
  BY <1>4, <1>5, <1>6, OneFile DEF f
<1>8. KeptInv'
  BY <1>1, <1>3, <1>4, <1>7 DEF KeptInv, ALLOW_CLOBBER
<1> QED BY <1>7, <1>8

\* Writing and dating the file that was opened.
LEMMA KeptWrite ==
    ASSUME CarefulAssumption, TypeInv, TypeOK, KeptInv, ReadBody \/ Finish
    PROVE  FilesKept /\ KeptInv'
<1>1. /\ UNCHANGED <<opt, had, local_file, hs, err>>
      /\ hs.existence_checked
      /\ pc \in {"body", "judge"}
  BY DEF ReadBody, Finish, JudgeUnchanged, KeptInv
<1>2. \/ disk' = disk
      \/ \E file : /\ Exists(local_file) /\ disk' = Put(local_file, file)
                   /\ file.len >= disk[local_file].len
  <2>1. CASE ReadBody
    <3>1. PICK n \in 1 .. Available : write_data(n)
      BY <2>1, Zenon DEF ReadBody
    <3>2. Exists(local_file) /\ Output = local_file
      BY <2>1, CarefulState DEF ReadBody, TypeInv, OutputInv
    <3>3. body.skip \in Nat /\ n \in Nat /\ disk[local_file].len \in Nat
      BY <3>2 DEF TypeOK, Bodies, Files, Exists
    <3> DEFINE dropped == IF body.skip < n THEN body.skip ELSE n
               file == [len |-> disk[local_file].len + (n - dropped),
                        good |-> disk[local_file].good /\ body.doc
                                   /\ body.pos + dropped = disk[local_file].len,
                        fresh |-> TRUE]
    <3>4. disk' = disk \/ disk' = Put(local_file, file)
      BY <3>1, <3>2 DEF write_data
    <3>5. file.len >= disk[local_file].len
      BY <3>3
    <3> HIDE DEF file
    <3> QED BY <3>2, <3>4, <3>5
  <2>2. CASE Finish
    <3> DEFINE file == [disk[local_file] EXCEPT !.fresh = TRUE]
    <3>1. disk' = disk \/ (Exists(local_file) /\ disk' = Put(local_file, file))
      BY <2>2 DEF Finish
    <3>2. Exists(local_file) => file.len >= disk[local_file].len
      BY DEF TypeOK, Files, Exists
    <3> HIDE DEF file
    <3> QED BY <3>1, <3>2
  <2> QED BY <2>1, <2>2
<1>3. ~ALLOW_CLOBBER => local_file \notin DOMAIN had
  BY <1>1 DEF KeptInv
<1>4. FilesKept /\ DOMAIN disk \subseteq DOMAIN disk'
  <2>1. CASE disk' = disk
    BY <2>1, SameFiles
  <2>2. CASE disk' # disk
    <3>1. PICK file : /\ disk' = Put(local_file, file)
                      /\ file.len >= disk[local_file].len
      BY <1>2, <2>2
    <3> QED BY <1>3, <3>1, OneFile
  <2> QED BY <2>1, <2>2
<1>5. pc' \in {"body", "top", "done", "abort"}
  BY DEF ReadBody, Finish, Continue, Return
<1>6. opt.always_rest => loop'.got_name
  <2>1. loop'.got_name = loop.got_name
    BY DEF ReadBody, Finish, TypeOK, LoopLocals
  <2> QED BY <1>1, <2>1 DEF KeptInv
<1>7. KeptInv'
  BY <1>1, <1>3, <1>4, <1>5, <1>6 DEF KeptInv, ALLOW_CLOBBER
<1> QED BY <1>4, <1>7

\* The end of the transfer and http_loop's other verdicts.
LEMMA KeptJudge ==
    ASSUME CarefulAssumption, TypeOK, KeptInv,
           \/ EndBody \/ RetriableError \/ FatalError \/ NewLocation \/ Unneeded
           \/ MetalinkResult \/ ErrorStatus \/ HeadDone
    PROVE  disk' = disk /\ KeptInv'
<1>1. /\ UNCHANGED <<opt, had, local_file>> /\ disk' = disk
      /\ pc \in {"body", "judge"} /\ pc' \in {"judge", "top", "done"}
      /\ pc' = "judge" => pc = "body"
  BY DEF EndBody, Gethttp, RetriableError, FatalError, NewLocation, Unneeded,
         MetalinkResult, ErrorStatus, HeadDone, JudgeUnchanged, Continue, Return
<1>2. hs'.existence_checked = hs.existence_checked
  <2>1. hs \in HttpStat
    BY DEF TypeOK
  <2> QED
    BY <2>1 DEF EndBody, Gethttp, RetriableError, FatalError, NewLocation,
       Unneeded, MetalinkResult, ErrorStatus, HeadDone, HttpStat
<1>3. opt.always_rest => loop'.got_name
  <2>1. loop \in LoopLocals
    BY DEF TypeOK
  <2>2. loop.got_name => loop'.got_name
    BY <2>1 DEF EndBody, RetriableError, FatalError, NewLocation, Unneeded,
       MetalinkResult, ErrorStatus, HeadDone, LoopLocals
  <2> QED BY <1>1, <2>2 DEF KeptInv
<1>4. pc = "body" => hs.existence_checked
  BY DEF KeptInv
<1> QED BY <1>1, <1>2, <1>3, <1>4, KeptKept

LEMMA KeptStep ==
    ASSUME CarefulAssumption
    PROVE  TypeInv /\ ContentInv /\ KeptInv /\ [Next]_vars
             => KeptInv' /\ [FilesKept]_vars
<1> SUFFICES ASSUME TypeInv, ContentInv, KeptInv, [Next]_vars
             PROVE  KeptInv' /\ [FilesKept]_vars
  OBVIOUS
<1>1. TypeOK
  BY DEF TypeInv
<1>2. CASE UNCHANGED vars
  BY <1>2 DEF vars, KeptInv, ALLOW_CLOBBER, Exists
<1>3. CASE Rerun
  BY <1>1, <1>3, KeptStart, SameFiles
<1>4. CASE Step
  <2>1. disk' = disk => FilesKept
    BY <1>1, SameFiles
  <2> QED
    BY <1>1, <1>4, <2>1, KeptStart, KeptRequest, KeptExits, KeptOpen, KeptWrite,
       KeptJudge DEF Step
<1> QED BY <1>2, <1>3, <1>4 DEF Next

\* For the careful command lines: without an option that allows clobbering no
\* file that was there when the run started is ever changed, and with -c no
\* file gets shorter or disappears, in whatever order tries fail and resume.
THEOREM FilesAreKept ==
    ASSUME CarefulAssumption
    PROVE  Spec => KeepsFiles
<1>1. Init => TypeInv /\ ContentInv /\ KeptInv
  BY InitType, ContentInit, KeptInit
<1>2. TypeInv /\ ContentInv /\ KeptInv /\ [Next]_vars
        => (TypeInv /\ ContentInv /\ KeptInv)' /\ [FilesKept]_vars
  BY TypeStep, ContentStep, KeptStep
<1>3. Spec => [][FilesKept]_vars
  BY <1>1, <1>2, PTL DEF Spec
<1> QED BY <1>3 DEF FilesKept, KeepsFiles

-----------------------------------------------------------------------------
(***************************************************************************)
(* After a successful -N the local file is the document.  The argument:    *)
(* nothing is written before the first answer to a GET, and a conditional  *)
(* GET writes nothing while the file is up to date; what is remembered of  *)
(* the file is therefore what it was when the run started.  A file that    *)
(* looks up to date is a beginning of the document, because only wget sets *)
(* such a time-stamp; that it is all of it the sizes tell, or its history. *)
(***************************************************************************)
\* The file holds the first n bytes of the document, and nothing else.
At(n) == Exists(Base) /\ disk[Base].good /\ disk[Base].len = n

\* The file is the one that was there when the run started.
Unchanged ==
    /\ Exists(Base) <=> Base \in DOMAIN had
    /\ Exists(Base) => disk[Base] = had[Base]

Trying == pc \in {"top", "connect", "sent", "head", "body", "judge"}
\* The next request, or the one being made, is the preliminary HEAD.
Preliminary == loop.send_head_first /\ ~loop.got_head
\* The run started with the whole document, and can tell.
Current == /\ Base \in DOMAIN had /\ had[Base].fresh /\ had[Base].len = Size
           /\ site.length /\ site.last_modified
Obtained == err = "RETRFINISHED" /\ "RETROKF" \in dt

\* A time-stamp that is not older than the document's is the one of a beginning
\* of the document.  (A 204 sets the time-stamp of any file; another run would
\* believe it.)
FreshInv ==
    /\ runs # 0
    /\ pc = "enter" => had = disk
    /\ Base \in DOMAIN had =>
          /\ had[Base].fresh => had[Base].good
          /\ had[Base].good => had[Base].len <= Size
    /\ Exists(Base) =>
          /\ disk[Base].fresh => disk[Base].good \/ (pc = "done" /\ MaxRuns <= 1)
          /\ disk[Base].good => disk[Base].len <= Size

\* There is one name, known as soon as a file is written.
OneNameInv ==
    /\ local_file \in {Base, NoName}
    /\ pc = "body" \/ (pc = "judge" /\ Obtained) => local_file = Base

\* What h and flags remember of the file, and that it has not changed since.
Remembered(h, flags) ==
    /\ Preliminary =>
          /\ Unchanged /\ h.len = 0 /\ h.restval = 0
          /\ h.orig = NoFile \/ (Base \in DOMAIN had /\ h.orig = had[Base])
    /\ "IF_MODIFIED_SINCE" \in flags =>
          /\ ~loop.send_head_first /\ h.timestamp_checked
          /\ Base \in DOMAIN had /\ h.orig = had[Base]
          /\ Current => Unchanged /\ h.len = 0 /\ h.restval = 0

AskedInv ==
    /\ Trying => Remembered(hs, dt)
    /\ Trying /\ pc # "top" => ("HEAD_ONLY" \in dt <=> Preliminary)
    /\ pc = "body" =>
          ~Preliminary /\ ~("IF_MODIFIED_SINCE" \in dt /\ Current)
    /\ pc \in {"connect", "sent", "head"} => hs.len = 0 /\ hs.contlen = -1
    /\ pc \in {"sent", "head"} => "RETROKF" \notin dt

\* What the answer says of the document.
AnswerInv ==
    pc = "head" =>
       /\ rsp.code = 204 => 204 \in Codes
       /\ rsp.code = 416 => hs.restval > 0 /\ hs.restval >= Size
       /\ rsp.code = 304 => "IF_MODIFIED_SINCE" \in dt /\ hs.orig.fresh
       /\ rsp.code = 200 => /\ rsp.clen = (IF site.length THEN Size ELSE -1)
                            /\ rsp.crange = 0
                            /\ rsp.last_modified = site.last_modified
       /\ rsp.code = 206 => /\ hs.restval > 0 /\ rsp.clen = Size - rsp.crange
                            /\ rsp.clen # -1

\* A try that resumes does so at the end of what earlier tries have written.
ResumeInv ==
    /\ pc \in {"connect", "sent", "head"} /\ hs.restval > 0 => At(hs.restval)
    /\ pc = "top" \/ (pc = "judge" /\ err # "RETRUNNEEDED") =>
          /\ hs.len > 0 => At(hs.len)
          /\ hs.len < hs.restval => hs.len = 0 /\ At(hs.restval)
    /\ pc = "body" =>
          /\ body.doc /\ hs.len = 0 /\ hs.statcode # 204
          /\ At(hs.restval + body.written) /\ At(body.pos + body.skip)
          /\ site.length => hs.contlen = Size

\* What TimestampingUpdates promises.
Updated ==
    /\ site.last_modified /\ site.length
    /\ ~(Base \in DOMAIN had /\ had[Base].fresh /\ had[Base].len < Size)
    => At(Size)

\* What gethttp returns to http_loop, and what http_loop makes of it.
VerdictInv ==
    /\ pc = "judge" /\ Obtained =>
          /\ hs.statcode = 204 => 204 \in Codes
          /\ hs.statcode # 204 => /\ Preliminary \/ At(hs.len)
                                  /\ site.length => hs.contlen = Size
    /\ pc = "judge" /\ err = "RETRUNNEEDED" => Updated
    /\ pc = "done" /\ ret = "RETROK" /\ hs.statcode # 204 => Updated

DatedParts == /\ FreshInv /\ OneNameInv /\ AskedInv /\ AnswerInv
              /\ ResumeInv /\ VerdictInv
DatedInv == opt.timestamping => DatedParts

\* What the options of an ordinary -N rule out.
LEMMA DatedState ==
    ASSUME DatedAssumption, TypeOK, opt.timestamping
    PROVE  /\ ~Temporary /\ ~opt.spider /\ ~opt.warc /\ ~opt.output_document
           /\ ~opt.noclobber /\ ~opt.backups /\ ~opt.content_on_error
           /\ ~opt.adjust_extension /\ ~opt.always_rest
           /\ opt.start_pos < 0 /\ opt.start_pos \in Int
           /\ ALLOW_CLOBBER /\ url_file_name = Base /\ Output = local_file
           /\ Base # NoName /\ Size \in Nat /\ MaxRuns \in Nat
           /\ hs.len \in Int /\ hs.restval \in Nat /\ hs.contlen \in Int
<1>1. opt \in Opts /\ OptionsOk(opt) /\ opt.start_pos \in Int
  BY OptsAssumption DEF TypeOK
<1>2. /\ ~opt.temporary /\ ~opt.spider /\ ~opt.backups /\ ~opt.content_on_error
      /\ ~opt.adjust_extension /\ ~opt.always_rest /\ opt.start_pos < 0
  BY <1>1 DEF DatedAssumption
<1>3. ~opt.warc /\ ~opt.output_document /\ ~opt.noclobber
  BY <1>1 DEF OptionsOk
<1>4. ALLOW_CLOBBER /\ url_file_name = Base /\ Output = local_file /\ ~Temporary
  BY <1>2, <1>3 DEF ALLOW_CLOBBER, url_file_name, Output, Temporary
<1>5. Base # NoName
  BY DEF Base, NoName
<1>6. hs.len \in Int /\ hs.restval \in Nat /\ hs.contlen \in Int
  BY DEF TypeOK, HttpStat
<1> QED BY <1>1, <1>2, <1>3, <1>4, <1>5, <1>6, SizeAssumption

\* The initial states: nothing has been asked, and the time-stamps are usual.
LEMMA DatedInit == DatedAssumption /\ Init => DatedInv
<1> SUFFICES ASSUME DatedAssumption, Init PROVE DatedParts
  BY DEF DatedInv
<1>1. disk \in Disks /\ had = disk /\ runs = 1 /\ pc = "main" /\ local_file = NoName
  BY DEF Init
<1>2. Exists(Base) => /\ disk[Base].fresh => disk[Base].good
                      /\ disk[Base].good => disk[Base].len <= Size
  BY <1>1, DisksAssumption DEF DatedAssumption, Exists
<1>3. FreshInv
  BY <1>1, <1>2 DEF FreshInv, Exists
<1> QED BY <1>1, <1>3 DEF DatedParts, OneNameInv, AskedInv, AnswerInv, ResumeInv,
                          VerdictInv, Trying

\* Starting, and the beginning of a try: what the try starts from is what the
\* file holds.
LEMMA DatedStart ==
    ASSUME DatedAssumption, TypeOK, opt.timestamping, DatedParts,
           OpenOutputDocument \/ EnterHttpLoop \/ StartTry \/ Rerun
    PROVE  DatedParts'
<1>1. /\ UNCHANGED <<opt, site>> /\ disk' = disk
      /\ hs \in HttpStat /\ loop \in LoopLocals /\ runs \in Nat
  BY DatedState DEF OpenOutputDocument, EnterHttpLoop, StartTry, Rerun, TypeOK
<1>2. CASE OpenOutputDocument
  <2>1. /\ pc = "main" /\ pc' = "enter" /\ had' = disk
        /\ UNCHANGED <<runs, local_file>>
    BY <1>2 DEF OpenOutputDocument
  <2>2. FreshInv'
    BY <1>1, <2>1 DEF DatedParts, FreshInv, Exists
  <2> QED BY <2>1, <2>2 DEF DatedParts, OneNameInv, AskedInv, AnswerInv,
                            ResumeInv, VerdictInv, Trying
<1>3. CASE Rerun
  <2>1. pc' = "main" /\ local_file' = NoName /\ had' = had
        /\ runs < MaxRuns /\ runs' = runs + 1
    BY <1>3 DEF Rerun
  <2>2. ~(MaxRuns <= 1)
    BY <1>1, <2>1, DatedState DEF DatedParts, FreshInv
  <2>3. FreshInv'
    BY <1>1, <2>1, <2>2 DEF DatedParts, FreshInv, Exists
  <2> QED BY <2>1, <2>3 DEF DatedParts, OneNameInv, AskedInv, AnswerInv,
                            ResumeInv, VerdictInv, Trying
<1>4. CASE EnterHttpLoop
  <2> DEFINE name == IF opt.content_disposition THEN NoName ELSE Base
             head0 == \/ opt.spider
                      \/ opt.content_disposition /\ opt.always_rest
                      \/ opt.metalink_over_http
             conditional == /\ opt.timestamping /\ opt.if_modified_since
                            /\ ~head0 /\ ~opt.content_disposition
                            /\ Exists(name)
  <2>1. /\ pc = "enter" /\ pc' = "top" /\ UNCHANGED <<had, runs>>
        /\ local_file' = name
        /\ hs' = IF conditional THEN set_file_timestamp(ZeroStat, name)
                 ELSE ZeroStat
        /\ "IF_MODIFIED_SINCE" \in dt' => conditional
    BY <1>4, DatedState DEF EnterHttpLoop
  <2>2. conditional => ~loop'.send_head_first
    BY <1>4, DatedState DEF EnterHttpLoop, ZeroLoop
  <2>3. Unchanged /\ Unchanged'
    BY <1>1, <2>1 DEF DatedParts, FreshInv, Unchanged, Exists
  <2>4. FreshInv' /\ OneNameInv'
    BY <1>1, <2>1 DEF DatedParts, FreshInv, OneNameInv, Exists
  <2>5. /\ ~conditional => hs' = ZeroStat
        /\ conditional => /\ name = Base
                          /\ hs' = [ZeroStat EXCEPT !.orig = disk[Base],
                                                    !.timestamp_checked = TRUE]
    BY <2>1 DEF set_file_timestamp
  <2>6. /\ hs'.len = 0 /\ hs'.restval = 0
        /\ ~conditional => hs'.orig = NoFile
        /\ conditional => hs'.timestamp_checked /\ hs'.orig = disk[Base]
    <3> HIDE DEF conditional, name
    <3>1. CASE conditional
      BY <2>5, <3>1 DEF ZeroStat
    <3>2. CASE ~conditional
      BY <2>5, <3>2 DEF ZeroStat
    <3> QED BY <3>1, <3>2
  <2>7. conditional => Base \in DOMAIN had' /\ had'[Base] = disk[Base]
    BY <2>1, <2>3 DEF Unchanged, Exists
  <2> HIDE DEF conditional, name
  <2>8. Remembered(hs, dt)'
    BY <2>1, <2>2, <2>3, <2>6, <2>7 DEF Remembered, Preliminary
  <2>9. AskedInv' /\ ResumeInv'
    BY <2>1, <2>6, <2>8 DEF AskedInv, ResumeInv
  <2> QED BY <2>1, <2>4, <2>9 DEF DatedParts, AnswerInv, VerdictInv
<1>5. CASE StartTry
  <2> DEFINE from == Restart(loop.count + 1)
  <2>1. /\ pc = "top" /\ pc' = "connect" /\ UNCHANGED <<local_file, had, runs>>
        /\ hs' = [hs EXCEPT !.restval = from, !.len = 0, !.contlen = -1,
                            !.res = -1, !.newloc = FALSE, !.remote_time = FALSE]
        /\ "IF_MODIFIED_SINCE" \in dt' => "IF_MODIFIED_SINCE" \in dt
        /\ "HEAD_ONLY" \in dt' <=> Preliminary
    BY <1>5 DEF StartTry, Preliminary
  <2>2. Preliminary' = Preliminary /\ loop'.send_head_first = loop.send_head_first
    BY <1>1, <1>5 DEF StartTry, Preliminary, LoopLocals
  <2>3. \/ from = 0
        \/ from = hs.len
        \/ hs.len < hs.restval /\ from = hs.restval - hs.len
    BY DatedState DEF Restart
  <2>4. from > 0 => At(from)
    BY <2>1, <2>3, DatedState DEF DatedParts, ResumeInv
  <2>5. hs.len = 0 /\ hs.restval = 0 => from = 0
    BY <2>3
  <2>6. /\ hs'.restval = from /\ hs'.len = 0 /\ hs'.contlen = -1
        /\ hs'.orig = hs.orig /\ hs'.timestamp_checked = hs.timestamp_checked
    BY <1>1, <2>1 DEF HttpStat
  <2> HIDE DEF from
  <2>7. Remembered(hs, dt)
    BY <2>1 DEF DatedParts, AskedInv, Trying
  <2>8. Remembered(hs, dt)'
    BY <1>1, <2>1, <2>2, <2>5, <2>6, <2>7
       DEF Remembered, Unchanged, Current, Exists
  <2>9. AskedInv' /\ ResumeInv'
    BY <1>1, <2>1, <2>2, <2>4, <2>6, <2>8 DEF AskedInv, ResumeInv, At, Exists
  <2>10. FreshInv' /\ OneNameInv'
    BY <1>1, <2>1 DEF DatedParts, FreshInv, OneNameInv, Exists
  <2> QED BY <2>1, <2>9, <2>10 DEF DatedParts, AnswerInv, VerdictInv
<1> QED BY <1>2, <1>3, <1>4, <1>5

\* What the environment may answer.
LEMMA DatedAnswers ==
    ASSUME TypeOK, pc = "sent", ReadHead
    PROVE  AnswerInv'
<1>1. PICK r \in Answers : rsp' = r
  BY DEF ReadHead
<1>2. UNCHANGED <<site, hs, dt>> /\ Size \in Nat /\ r \in Responses
  BY SizeAssumption, AnswersType DEF ReadHead
<1>3. CASE r \in Whole
  <2>1. /\ r.code = 200 /\ r.clen = (IF site.length THEN Size ELSE -1)
        /\ r.crange = 0 /\ r.last_modified = site.last_modified
    BY <1>3 DEF Whole, DocAnswer, Response
  <2> QED BY <1>1, <1>2, <2>1 DEF AnswerInv
<1>4. CASE r \in Parts /\ (r.code = 206 => hs.restval > 0)
  <2>1. PICK k \in 0 .. Size - 1 : r = DocAnswer(206, Size - k, k)
    BY <1>4 DEF Parts
  <2>2. /\ r.code = 206 /\ r.clen = Size - r.crange /\ r.clen # -1
    BY <1>2, <2>1 DEF DocAnswer, Response
  <2> QED BY <1>1, <1>2, <1>4, <2>2 DEF AnswerInv
<1>5. CASE r \in Pages(-1) \cup Pages(PageLen)
             /\ r.code \notin {200, 206, 301, 304, 416}
  <2>1. r.code \in Codes
    BY <1>5 DEF Pages, Response
  <2> QED BY <1>1, <1>2, <1>5, <2>1 DEF AnswerInv
<1>6. CASE /\ r \in Bare(TRUE) \cup Bare(FALSE)
           /\ r.code = 416 => hs.restval > 0 /\ hs.restval >= Size
           /\ r.code = 304 => "IF_MODIFIED_SINCE" \in dt /\ hs.orig.fresh
  <2>1. r.code \in {301, 304, 416}
    BY <1>6 DEF Bare, Response
  <2> QED BY <1>1, <1>2, <1>6, <2>1 DEF AnswerInv
<1> QED BY <1>3, <1>4, <1>5, <1>6 DEF Answers

\* Gethttp gives up, or tries another way, without having touched the file.
LEMMA DatedRequest ==
    ASSUME DatedAssumption, TypeOK, opt.timestamping, DatedParts,
           \/ ConnectFails \/ SendRequest \/ HeadFails \/ ReadHead
           \/ MetalinkHead \/ RetryWithAuth \/ AuthFails
    PROVE  DatedParts'
<1>1. /\ UNCHANGED <<opt, site, disk, loop, hs, local_file, had, runs>>
      /\ pc \in {"connect", "sent", "head"}
      /\ pc' \in {"connect", "sent", "head", "judge"}
      /\ dt' = dt \/ dt' = dt \ {"RETROKF"}
      /\ pc' = "head" => pc = "sent" /\ ReadHead /\ dt' = dt
      /\ pc' = "sent" => "RETROKF" \notin dt'
      /\ pc' = "judge" => err' \notin {"RETRFINISHED", "RETRUNNEEDED"}
  <2>1. ~opt.warc /\ (\A n, r : Drained(hs, n, r) = hs)
    <3>1. ~opt.warc
      BY DatedState
    <3> QED BY <3>1, Zenon DEF Drained
  <2>2. CASE ConnectFails
    BY <2>1, <2>2 DEF ConnectFails, Gethttp
  <2>3. CASE SendRequest
    BY <2>3 DEF SendRequest
  <2>4. CASE HeadFails
    BY <2>4 DEF HeadFails, Gethttp
  <2>5. CASE ReadHead
    BY <2>5 DEF ReadHead
  <2>6. CASE MetalinkHead
    BY <2>6 DEF MetalinkHead, HeadUnchanged, Gethttp
  <2>7. CASE RetryWithAuth
    BY <2>1, <2>7 DEF RetryWithAuth
  <2>8. CASE AuthFails
    BY <2>1, <2>8 DEF AuthFails, HeadUnchanged, Gethttp
  <2> QED BY <2>2, <2>3, <2>4, <2>5, <2>6, <2>7, <2>8
<1>3. FreshInv' /\ OneNameInv'
  BY <1>1 DEF DatedParts, FreshInv, OneNameInv, Obtained, Exists
<1>4. Remembered(hs, dt) /\ ("HEAD_ONLY" \in dt <=> Preliminary)
  BY <1>1 DEF DatedParts, AskedInv, Trying
<1>5. Remembered(hs, dt)' /\ (("HEAD_ONLY" \in dt <=> Preliminary)')
  BY <1>1, <1>4 DEF Remembered, Unchanged, Current, Preliminary, Exists
<1>6. AskedInv'
  BY <1>1, <1>5 DEF DatedParts, AskedInv
<1>7. AnswerInv'
  BY <1>1, DatedAnswers DEF AnswerInv
<1>8. ResumeInv'
  BY <1>1, DatedState DEF DatedParts, AskedInv, ResumeInv, At, Exists
<1>9. VerdictInv'
  BY <1>1 DEF VerdictInv, Obtained
<1> QED BY <1>3, <1>6, <1>7, <1>8, <1>9 DEF DatedParts

\* check_file_output and the head: the name is the one of the file, and what is
\* remembered of the file is not looked up a second time.
LEMMA DatedHead ==
    ASSUME DatedAssumption, TypeOK, opt.timestamping, DatedParts, pc = "head"
    PROVE  /\ ~check_file_output.unneeded /\ SaveName = Base
           /\ check_file_output.name = Base
           /\ \A h \in {Headers, Measured} :
                 /\ h \in HttpStat /\ h.len = 0 /\ h.restval = hs.restval
                 /\ h.statcode = rsp.code
                 /\ h.orig = hs.orig \/ (Exists(Base) /\ h.orig = disk[Base])
                 /\ hs.timestamp_checked =>
                       h.orig = hs.orig /\ h.timestamp_checked
           /\ Headers.remote_time = rsp.last_modified
           /\ Measured.contlen = IF rsp.clen = -1 THEN -1
                                 ELSE rsp.clen + rsp.crange
<1> DEFINE checked == [hs EXCEPT !.existence_checked = TRUE]
<1>1. local_file \in {Base, NoName} /\ hs.len = 0
  BY DEF DatedParts, OneNameInv, AskedInv
<1>2. /\ ~check_file_output.unneeded /\ check_file_output.name = Base
      /\ check_file_output.hs = IF ~hs.timestamp_checked
                                THEN set_file_timestamp(checked, Base)
                                ELSE checked
  BY <1>1, DatedState DEF check_file_output
<1>3. SaveName = Base
  BY <1>2, DatedState DEF SaveName
<1>4. /\ checked.orig = hs.orig
      /\ checked.timestamp_checked = hs.timestamp_checked
  BY DEF TypeOK, HttpStat
<1>5. LET h == set_file_timestamp(checked, Base)
      IN  h.orig = hs.orig \/ (Exists(Base) /\ h.orig = disk[Base])
  BY DEF TypeOK, HttpStat, set_file_timestamp
<1>6. LET h == check_file_output.hs
      IN  /\ h \in HttpStat
          /\ h.orig = hs.orig \/ (Exists(Base) /\ h.orig = disk[Base])
          /\ hs.timestamp_checked => h.orig = hs.orig /\ h.timestamp_checked
  <2> HIDE DEF checked
  <2> QED BY <1>2, <1>4, <1>5, CheckType
<1>7. /\ Headers \in HttpStat /\ Headers.len = 0 /\ Headers.restval = hs.restval
      /\ Measured \in HttpStat /\ Measured.len = 0
      /\ Measured.restval = hs.restval
  BY <1>1, HeadersType
<1>8. /\ Headers.statcode = rsp.code /\ Headers.remote_time = rsp.last_modified
      /\ Headers.orig = check_file_output.hs.orig
      /\ Headers.timestamp_checked = check_file_output.hs.timestamp_checked
  BY <1>6 DEF Headers, HttpStat
<1>9. /\ Measured.statcode = Headers.statcode /\ Measured.orig = Headers.orig
      /\ Measured.timestamp_checked = Headers.timestamp_checked
      /\ Measured.contlen = IF rsp.clen = -1 THEN -1 ELSE rsp.clen + rsp.crange
  BY <1>7 DEF Measured, HttpStat
<1> QED BY <1>2, <1>3, <1>6, <1>7, <1>8, <1>9

\* What was remembered of the file stays remembered when the head was read.
LEMMA DatedRemembered ==
    ASSUME DatedAssumption, TypeOK, opt.timestamping, DatedParts, pc = "head",
           NEW h, NEW flags,
           \E g \in {Headers, Measured} :
              h.orig = g.orig /\ h.timestamp_checked = g.timestamp_checked,
           h.len = 0, h.restval \in {0, hs.restval},
           "IF_MODIFIED_SINCE" \in flags <=> "IF_MODIFIED_SINCE" \in dt
    PROVE  Remembered(h, flags)
<1>1. /\ h.orig = hs.orig \/ (Exists(Base) /\ h.orig = disk[Base])
      /\ hs.timestamp_checked => h.orig = hs.orig /\ h.timestamp_checked
  BY DatedHead
<1>2. Remembered(hs, dt)
  BY DEF DatedParts, AskedInv, Trying
<1> QED BY <1>1, <1>2 DEF Remembered, Unchanged

\* A file that looks up to date, with the document's length if both are known,
\* is the document.
LEMMA DatedCurrent ==
    ASSUME TypeOK, DatedParts, Base \in DOMAIN had, had[Base].fresh,
           had[Base].len \in Nat, Size \in Nat,
           Current => Unchanged
    PROVE  Updated
<1>1. had[Base].good /\ had[Base].len <= Size
  BY DEF DatedParts, FreshInv
<1> SUFFICES ASSUME site.last_modified, site.length, ~(had[Base].len < Size)
             PROVE  At(Size)
  BY DEF Updated
<1>2. had[Base].len = Size
  BY <1>1
<1>3. Unchanged
  BY <1>2 DEF Current
<1> QED BY <1>1, <1>2, <1>3 DEF Unchanged, At

\* An exit of gethttp that writes nothing.
LEMMA DatedLeave ==
    ASSUME DatedAssumption, TypeOK, opt.timestamping, DatedParts, pc = "head",
           UNCHANGED <<opt, site, disk, loop, had, runs>>,
           pc' = "judge", local_file' = Base,
           hs'.restval \in {0, hs.restval}, hs'.len = 0 \/ err' = "RETRUNNEEDED",
           Remembered(hs', dt'), "HEAD_ONLY" \in dt' <=> "HEAD_ONLY" \in dt,
           VerdictInv'
    PROVE  DatedParts'
<1>1. FreshInv' /\ OneNameInv'
  BY DEF DatedParts, FreshInv, OneNameInv, Exists
<1>2. "HEAD_ONLY" \in dt <=> Preliminary
  BY DEF DatedParts, AskedInv, Trying
<1>3. Remembered(hs, dt)' /\ (("HEAD_ONLY" \in dt <=> Preliminary)')
  BY <1>2 DEF Remembered, Unchanged, Current, Preliminary, Exists
<1>4. AskedInv' /\ AnswerInv'
  BY <1>3 DEF AskedInv, AnswerInv
<1>5. ResumeInv'
  BY DatedState DEF DatedParts, ResumeInv, At, Exists
<1> QED BY <1>1, <1>4, <1>5 DEF DatedParts

\* The exits of gethttp that write nothing: a "not modified" and a 416 are only
\* believed when the file is the document, or -N could not have known better.
LEMMA DatedExits ==
    ASSUME DatedAssumption, TypeOK, opt.timestamping, DatedParts,
           \/ NameExists \/ NoContent \/ Redirected \/ NotModified
           \/ FullyRetrieved \/ WrongRange \/ NoBodyWanted \/ OpenFails
    PROVE  DatedParts'
<1>1. /\ UNCHANGED <<opt, site, loop, had, runs>> /\ disk' = disk
      /\ pc = "head" /\ pc' = "judge"
  <2>1. ~opt.backups
    BY DatedState
  <2>2. CASE OpenFails
    BY <2>1, <2>2, Zenon DEF OpenFails, Gethttp
  <2>3. CASE NameExists \/ NoContent \/ Redirected \/ NotModified
    BY <2>3, Zenon DEF NameExists, NoContent, Redirected, NotModified,
                       HeadUnchanged, Gethttp
  <2>4. CASE FullyRetrieved \/ WrongRange \/ NoBodyWanted
    BY <2>4, Zenon DEF FullyRetrieved, WrongRange, NoBodyWanted, HeadUnchanged,
                       Gethttp
  <2> QED BY <2>2, <2>3, <2>4
<1>2. /\ hs \in HttpStat /\ rsp \in Responses /\ Size \in Nat
      /\ hs.restval \in Nat /\ Remembered(hs, dt)
      /\ "HEAD_ONLY" \in dt <=> Preliminary
      /\ "RETROKF" \notin dt
  BY <1>1, DatedState DEF TypeOK, DatedParts, AskedInv, Trying
<1>3. \A h \in {Headers, Measured} :
         /\ Unwanted(h).orig = h.orig
         /\ Unwanted(h).timestamp_checked = h.timestamp_checked
         /\ Unwanted(h).statcode = h.statcode
         /\ Unwanted(h).contlen = h.contlen
         /\ Unwanted(h).len = 0 /\ Unwanted(h).restval = 0
  <2>1. Headers \in HttpStat /\ Measured \in HttpStat
    BY <1>1, DatedHead
  <2> QED BY <2>1 DEF Unwanted, HttpStat
<1>4. ~opt.warc /\ (\A h, n, r : Drained(h, n, r) = h)
  <2>1. ~opt.warc
    BY DatedState
  <2> QED BY <2>1, Zenon DEF Drained
<1>5. /\ "HEAD_ONLY" \in Flags <=> "HEAD_ONLY" \in dt
      /\ "HEAD_ONLY" \in TypedFlags <=> "HEAD_ONLY" \in dt
      /\ "IF_MODIFIED_SINCE" \in Flags <=> "IF_MODIFIED_SINCE" \in dt
      /\ "IF_MODIFIED_SINCE" \in TypedFlags <=> "IF_MODIFIED_SINCE" \in dt
      /\ "RETROKF" \in TypedFlags <=> Success
  BY <1>2 DEF Flags, TypedFlags
<1>6. CASE NameExists
  BY <1>1, <1>6, DatedHead DEF NameExists, Exit
<1>7. CASE NoContent
  <2>1. /\ hs' = Unwanted(Headers) /\ local_file' = Base /\ dt' = Flags
        /\ err' = "RETRFINISHED" /\ rsp.code = 204
    BY <1>1, <1>7, DatedHead DEF NoContent, Gethttp, Exit
  <2>2. hs'.len = 0 /\ hs'.restval = 0 /\ hs'.statcode = 204
    BY <1>1, <1>3, <2>1, DatedHead
  <2>3. Remembered(hs', dt')
    BY <1>1, <1>3, <1>5, <2>1, <2>2, DatedRemembered
  <2>4. VerdictInv'
    BY <1>1, <2>1, <2>2 DEF DatedParts, AnswerInv, VerdictInv
  <2> QED BY <1>1, <1>5, <2>1, <2>2, <2>3, <2>4, DatedLeave
<1>8. CASE Redirected
  <2>1. /\ hs' = Unwanted(Headers) /\ local_file' = Base /\ dt' = Flags
        /\ err' = "NEWLOCATION"
    BY <1>1, <1>4, <1>8, DatedHead DEF Redirected, Gethttp
  <2>2. hs'.len = 0 /\ hs'.restval = 0
    BY <1>3, <2>1
  <2>3. Remembered(hs', dt')
    BY <1>1, <1>3, <1>5, <2>1, <2>2, DatedRemembered
  <2>4. VerdictInv'
    BY <1>1, <2>1 DEF VerdictInv, Obtained
  <2> QED BY <1>1, <1>5, <2>1, <2>2, <2>3, <2>4, DatedLeave
<1>9. CASE NotModified
  <2>1. /\ hs' = Headers /\ local_file' = Base /\ err' = "RETRUNNEEDED"
        /\ \/ dt' = Flags \cup {"RETROKF"} \/ dt' = TypedFlags \cup {"RETROKF"}
    <3>1. SaveName = Base
      BY <1>1, DatedHead
    <3> QED BY <3>1, <1>9, Zenon DEF NotModified, Gethttp
  <2>2. /\ "IF_MODIFIED_SINCE" \in dt
        /\ rsp.code = 304 \/ Headers.orig.fresh
    BY <1>9, Zenon DEF NotModified, Exit
  <2>3. Base \in DOMAIN had /\ hs.orig = had[Base] /\ (Current => Unchanged)
        /\ hs.timestamp_checked
    BY <1>2, <2>2 DEF Remembered
  <2>4. had[Base].fresh
    BY <1>1, <2>2, <2>3, DatedHead DEF DatedParts, AnswerInv
  <2>5. had[Base].len \in Nat
    BY <1>2, <2>3, <2>4 DEF HttpStat, Files, NoFile
  <2>6. Updated
    BY <1>2, <2>3, <2>4, <2>5, DatedCurrent
  <2>7. hs'.len = 0 /\ hs'.restval = hs.restval
    BY <1>1, <2>1, DatedHead
  <2>8. Remembered(hs', dt')
    BY <1>1, <1>5, <2>1, <2>7, DatedRemembered
  <2>9. VerdictInv'
    BY <1>1, <2>1, <2>6 DEF VerdictInv, Obtained, Updated, At, Exists
  <2> QED BY <1>1, <1>5, <2>1, <2>7, <2>8, <2>9, DatedLeave
<1>10. CASE FullyRetrieved
  <2>1. /\ hs' = [Headers EXCEPT !.len = rsp.clen, !.res = 0]
        /\ local_file' = Base /\ err' = "RETRUNNEEDED"
        /\ dt' = TypedFlags \cup {"RETROKF"}
    <3>1. SaveName = Base
      BY <1>1, DatedHead
    <3> QED BY <3>1, <1>10, Zenon DEF FullyRetrieved, Gethttp
  <2>2. rsp.code = 416
    BY <1>10, Zenon DEF FullyRetrieved, Exit
  <2>3. hs.restval > 0 /\ hs.restval >= Size /\ At(hs.restval)
    BY <1>1, <2>2 DEF DatedParts, AnswerInv, ResumeInv
  <2>4. At(Size)
    BY <1>2, <2>3 DEF DatedParts, FreshInv, At
  <2>5. hs'.restval = hs.restval /\ hs'.orig = Headers.orig
        /\ hs'.timestamp_checked = Headers.timestamp_checked
    BY <1>1, <2>1, DatedHead DEF HttpStat
  <2>6. Remembered(hs', dt')
    BY <1>1, <1>2, <1>5, <2>1, <2>3, <2>5, DatedHead DEF Remembered
  <2>7. VerdictInv'
    BY <1>1, <2>1, <2>4 DEF VerdictInv, Obtained, Updated, At, Exists
  <2> QED BY <1>1, <1>5, <2>1, <2>5, <2>6, <2>7, DatedLeave
<1>11. CASE WrongRange \/ OpenFails
  <2>1. /\ hs' \in {Headers, Measured} /\ local_file' = Base
        /\ err' \notin {"RETRFINISHED", "RETRUNNEEDED"} /\ dt' = TypedFlags
    <3>1. SaveName = Base
      BY <1>1, DatedHead
    <3>2. CASE WrongRange
      BY <3>1, <3>2, Zenon DEF WrongRange, Gethttp
    <3>3. CASE OpenFails
      BY <3>1, <3>3, Zenon DEF OpenFails, Gethttp
    <3> QED BY <1>11, <3>2, <3>3
  <2>2. hs'.len = 0 /\ hs'.restval = hs.restval
    BY <1>1, <2>1, DatedHead
  <2>3. Remembered(hs', dt')
    BY <1>1, <1>5, <2>1, <2>2, DatedRemembered
  <2>4. VerdictInv'
    BY <1>1, <2>1 DEF VerdictInv, Obtained
  <2> QED BY <1>1, <1>5, <2>1, <2>2, <2>3, <2>4, DatedLeave
<1>12. CASE NoBodyWanted
  <2>1. /\ hs' = Unwanted(Measured) /\ local_file' = Base /\ dt' = TypedFlags
        /\ err' # "RETRUNNEEDED"
    <3>1. SaveName = Base
      BY <1>1, DatedHead
    <3> QED BY <1>4, <1>12, <3>1, Zenon DEF NoBodyWanted, Gethttp
  <2>2. /\ hs'.len = 0 /\ hs'.restval = 0 /\ hs'.statcode = rsp.code
        /\ hs'.contlen = Measured.contlen
    BY <1>1, <1>3, <2>1, DatedHead
  <2>3. Remembered(hs', dt')
    BY <1>1, <1>3, <1>5, <2>1, <2>2, DatedRemembered
  <2>4. /\ rsp.code # 204
        /\ Success => "HEAD_ONLY" \in dt
    <3>1. ~opt.spider
      BY DatedState
    <3>2. Exit = "no body"
      BY <1>12, Zenon DEF NoBodyWanted
    <3> QED BY <3>1, <3>2, Zenon DEF Exit
  <2>5. ASSUME Success PROVE site.length => Measured.contlen = Size
    <3>1. rsp.code \in {200, 206}
      BY <2>4, <2>5 DEF Success
    <3> QED BY <1>1, <1>2, <3>1, DatedHead DEF DatedParts, AnswerInv, Responses
  <2>6. Obtained' => Success /\ Preliminary'
    BY <1>1, <1>2, <1>5, <2>1, <2>4 DEF Obtained, Preliminary
  <2>7. VerdictInv'
    BY <1>1, <2>1, <2>2, <2>4, <2>5, <2>6 DEF VerdictInv
  <2> QED BY <1>1, <1>5, <2>1, <2>2, <2>3, <2>7, DatedLeave
<1> QED BY <1>6, <1>7, <1>8, <1>9, <1>10, <1>11, <1>12

\* The file is opened at the byte that will be written next; never for the
\* answer to a conditional GET when the file is up to date.
LEMMA DatedOpen ==
    ASSUME DatedAssumption, TypeOK, opt.timestamping, DatedParts, OpenBody
    PROVE  DatedParts'
<1>1. /\ UNCHANGED <<opt, site, loop, had, runs>>
      /\ pc = "head" /\ pc' = "body" /\ hs' = Measured /\ dt' = TypedFlags
      /\ local_file' = SaveName /\ disk' = open_output_stream(SaveName)
      /\ body' = [open |-> TRUE, pos |-> rsp.crange,
                  skip |-> IF hs.restval > 0 /\ rsp.crange = 0 THEN hs.restval
                           ELSE 0,
                  read |-> 0, toread |-> rsp.clen, written |-> 0,
                  doc |-> Success]
  BY Zenon DEF OpenBody
<1>2. local_file' = Base
  BY <1>1, DatedHead
<1>3. /\ hs \in HttpStat /\ rsp \in Responses /\ Size \in Nat
      /\ hs.restval \in Nat /\ rsp.crange \in Nat /\ Remembered(hs, dt)
      /\ "HEAD_ONLY" \in dt <=> Preliminary
  BY <1>1, DatedState DEF TypeOK, DatedParts, AskedInv, Trying, Responses
<1>4. /\ Success /\ rsp.code # 204 /\ "HEAD_ONLY" \notin dt
      /\ rsp.crange # 0 => rsp.crange = hs.restval
  <2>1. ~opt.content_on_error
    BY DatedState
  <2>2. Exit = "body" /\ Headers.restval = hs.restval
    BY <1>1, DatedHead, Zenon DEF OpenBody
  <2>3. rsp.code # 204 /\ "HEAD_ONLY" \notin dt
    BY <2>2, Zenon DEF Exit
  <2>4. Success
    BY <2>1, <2>2, Zenon DEF Exit
  <2>5. ~(rsp.crange # 0 /\ rsp.crange # Headers.restval)
    BY <2>2, Zenon DEF Exit
  <2> QED BY <2>2, <2>3, <2>4, <2>5, Zenon
<1>5. rsp.code \in {200, 206} /\ ~Preliminary
  BY <1>3, <1>4 DEF Success
<1>6. ~("IF_MODIFIED_SINCE" \in dt /\ Current)
  <2> SUFFICES ASSUME "IF_MODIFIED_SINCE" \in dt, Current PROVE FALSE
    OBVIOUS
  <2>1. hs.timestamp_checked /\ hs.orig = had[Base] /\ hs.restval = 0
    BY <1>3 DEF Remembered
  <2>2. Headers.orig = had[Base]
    BY <1>1, <2>1, DatedHead
  <2>3. rsp.code = 200
    BY <1>1, <1>5, <2>1 DEF DatedParts, AnswerInv
  <2>4. rsp.clen = Headers.orig.len /\ Headers.remote_time /\ Headers.orig.fresh
    <3>1. /\ rsp.clen = (IF site.length THEN Size ELSE -1)
          /\ rsp.last_modified = site.last_modified
      BY <1>1, <2>3 DEF DatedParts, AnswerInv
    <3>2. Headers.remote_time = rsp.last_modified
      BY <1>1, DatedHead
    <3>3. /\ had[Base].fresh /\ had[Base].len = Size
          /\ site.length /\ site.last_modified
      BY DEF Current
    <3> QED BY <2>2, <3>1, <3>2, <3>3, Zenon
  <2>5. Exit = "body"
    BY Zenon DEF OpenBody
  <2> QED BY <2>3, <2>4, <2>5, Zenon DEF Exit
<1>7. /\ hs'.len = 0 /\ hs'.restval = hs.restval /\ hs'.statcode # 204
      /\ site.length => hs'.contlen = Size
  BY <1>1, <1>3, <1>4, <1>5, DatedHead DEF DatedParts, AnswerInv
<1>8. /\ "HEAD_ONLY" \in dt' <=> "HEAD_ONLY" \in dt
      /\ "IF_MODIFIED_SINCE" \in dt' <=> "IF_MODIFIED_SINCE" \in dt
  BY <1>1 DEF TypedFlags, Flags
<1>9. disk' = [g \in DOMAIN disk \cup {Base} |->
                 IF g = Base
                 THEN IF hs.restval > 0 /\ Base \in DOMAIN disk THEN disk[Base]
                      ELSE Empty
                 ELSE disk[g]]
  <2>1. ~opt.output_document /\ ~opt.backups /\ SaveName = Base
    BY <1>1, DatedHead, DatedState
  <2> QED BY <1>1, <2>1 DEF open_output_stream
<1>10. At(hs.restval)' /\ FreshInv'
  <2>1. Base \in DOMAIN disk'
    BY <1>9
  <2>2. CASE hs.restval > 0
    <3>1. At(hs.restval) /\ disk'[Base] = disk[Base]
      BY <1>1, <1>9, <2>2 DEF DatedParts, ResumeInv, At, Exists
    <3> QED BY <1>1, <1>7, <2>1, <3>1 DEF DatedParts, FreshInv, At, Exists
  <2>3. CASE hs.restval = 0
    <3>1. disk'[Base] = Empty
      BY <1>9, <2>3
    <3> QED BY <1>1, <1>3, <1>7, <2>1, <2>3, <3>1
            DEF DatedParts, FreshInv, At, Exists, Empty
  <2> QED BY <1>3, <2>2, <2>3
<1>11. AskedInv'
  <2>1. Remembered(hs', dt')
    BY <1>1, <1>7, <1>8, DatedRemembered
  <2>2. UNCHANGED <<Preliminary, Current>>
    BY <1>1 DEF Preliminary, Current
  <2>3. Remembered(hs, dt)'
    BY <1>1, <1>5, <1>6, <1>8, <2>1, <2>2 DEF Remembered
  <2> QED BY <1>1, <1>3, <1>5, <1>6, <1>8, <2>2, <2>3 DEF AskedInv
<1>12. ResumeInv'
  <2>1. /\ body'.doc /\ body'.written = 0
        /\ body'.pos + body'.skip = hs.restval
    BY <1>1, <1>3, <1>4
  <2> QED BY <1>1, <1>3, <1>7, <1>10, <2>1 DEF ResumeInv, At, Exists
<1> QED BY <1>1, <1>2, <1>10, <1>11, <1>12
        DEF DatedParts, OneNameInv, AnswerInv, VerdictInv

\* The bytes of the document are appended where they belong.
LEMMA DatedRead ==
    ASSUME DatedAssumption, TypeOK, opt.timestamping, DatedParts, ReadBody
    PROVE  DatedParts'
<1>1. /\ UNCHANGED <<opt, site, loop, hs, dt, local_file, had, runs>>
      /\ pc = "body" /\ pc' = "body"
  BY DEF ReadBody
<1>2. PICK n \in 1 .. Available : write_data(n)
  BY Zenon DEF ReadBody
<1> DEFINE dropped == IF body.skip < n THEN body.skip ELSE n
<1>3. /\ body.doc /\ At(hs.restval + body.written) /\ At(body.pos + body.skip)
      /\ local_file = Base
  BY <1>1 DEF DatedParts, ResumeInv, OneNameInv
<1>4. Output = Base /\ Available = Size - body.pos /\ Size \in Nat
  BY <1>3, DatedState DEF Available
<1>5. /\ body.pos \in Nat /\ body.skip \in Nat /\ body.written \in Nat
      /\ body.read \in Nat /\ hs.restval \in Nat
  BY DatedState DEF TypeOK, Bodies
<1>6. n \in Nat /\ n >= 1 /\ body.pos + n <= Size
  BY <1>4, <1>5
<1>7. /\ body'.pos = body.pos + n /\ body'.skip = body.skip - dropped
      /\ body'.written = body.written + (n - dropped) /\ body'.doc
  BY <1>2, <1>3 DEF write_data, TypeOK, Bodies
<1>8. disk' = IF n - dropped = 0 THEN disk
              ELSE Put(Base, [len |-> disk[Base].len + (n - dropped),
                              good |-> disk[Base].good /\ body.doc
                                         /\ body.pos + dropped = disk[Base].len,
                              fresh |-> TRUE])
  BY <1>2, <1>4 DEF write_data
<1>9. /\ At(hs.restval + body.written)' /\ At(body.pos + body.skip)'
      /\ FreshInv'
  <2>1. CASE n - dropped = 0
    <3>1. disk' = disk /\ body.skip >= n /\ dropped = n
      BY <1>5, <1>6, <1>8, <2>1
    <3> QED BY <1>1, <1>3, <1>5, <1>6, <1>7, <3>1
            DEF DatedParts, FreshInv, At, Exists
  <2>2. CASE n - dropped # 0
    <3>1. dropped = body.skip /\ body.skip < n
      BY <1>5, <1>6, <2>2
    <3>2. disk[Base].len = body.pos + body.skip /\ disk[Base].good
      BY <1>3 DEF At
    <3>3. Base \in DOMAIN disk' /\ disk'[Base].good
          /\ disk'[Base].len = disk[Base].len + (n - body.skip)
      BY <1>3, <1>8, <2>2, <3>1, <3>2 DEF Put
    <3>4. /\ disk[Base].len = hs.restval + body.written
          /\ disk'[Base].len = body.pos + n
      BY <1>3, <1>5, <1>6, <3>2, <3>3 DEF At
    <3>5. At(hs.restval + body.written)' /\ At(body.pos + body.skip)'
      BY <1>1, <1>5, <1>6, <1>7, <3>1, <3>3, <3>4 DEF At, Exists
    <3>6. FreshInv'
      BY <1>1, <1>6, <3>3, <3>4 DEF DatedParts, FreshInv, Exists
    <3> QED BY <3>5, <3>6
  <2> QED BY <2>1, <2>2
<1>10. AskedInv'
  <2>1. UNCHANGED <<Preliminary, Current>>
    BY <1>1 DEF Preliminary, Current
  <2> QED BY <1>1, <2>1 DEF DatedParts, AskedInv, Remembered, Trying
<1>11. ResumeInv'
  BY <1>1, <1>7, <1>9 DEF DatedParts, ResumeInv
<1> QED BY <1>1, <1>9, <1>10, <1>11
        DEF DatedParts, OneNameInv, AnswerInv, VerdictInv

\* The transfer ends: len is what the file holds.
LEMMA DatedEnd ==
    ASSUME DatedAssumption, TypeOK, opt.timestamping, DatedParts, EndBody
    PROVE  DatedParts'
<1>1. /\ UNCHANGED <<opt, site, loop, dt, local_file, had, runs>> /\ disk' = disk
      /\ pc = "body" /\ pc' = "judge" /\ err' # "RETRUNNEEDED"
      /\ \E r : hs' = [hs EXCEPT !.len = hs.restval + body.written, !.res = r]
  BY Zenon DEF EndBody, Gethttp
<1>2. /\ hs'.len = hs.restval + body.written
      /\ hs'.restval = hs.restval /\ hs'.contlen = hs.contlen
      /\ hs'.orig = hs.orig /\ hs'.timestamp_checked = hs.timestamp_checked
      /\ body.written \in Nat /\ hs.restval \in Nat
  BY <1>1 DEF TypeOK, HttpStat, Bodies
<1>3. At(hs.len)' /\ ~(hs'.len < hs'.restval)
  BY <1>1, <1>2 DEF DatedParts, ResumeInv, At, Exists
<1>4. UNCHANGED <<Preliminary, Current>>
  BY <1>1 DEF Preliminary, Current
<1>5. AskedInv'
  BY <1>1, <1>2, <1>4 DEF DatedParts, AskedInv, Remembered, Trying
<1>6. FreshInv' /\ OneNameInv'
  BY <1>1 DEF DatedParts, FreshInv, OneNameInv, Exists
<1>7. ResumeInv'
  BY <1>1, <1>2, <1>3 DEF ResumeInv
<1>8. VerdictInv'
  <2>1. hs'.statcode # 204 /\ (site.length => hs'.contlen = Size)
    BY <1>1, <1>2 DEF DatedParts, ResumeInv, TypeOK, HttpStat
  <2> QED BY <1>1, <1>3, <2>1 DEF VerdictInv
<1> QED BY <1>1, <1>5, <1>6, <1>7, <1>8 DEF DatedParts, AnswerInv

\* http_loop's verdicts that leave the file alone.  Only two of them report
\* success: "not modified" and a HEAD that finds the file up to date.
LEMMA DatedJudge ==
    ASSUME DatedAssumption, TypeOK, opt.timestamping, DatedParts,
           \/ RetriableError \/ FatalError \/ NewLocation \/ Unneeded
           \/ MetalinkResult \/ ErrorStatus \/ HeadDone
    PROVE  DatedParts'
<1>1. /\ UNCHANGED <<opt, site, local_file, had, runs, err>> /\ disk' = disk
      /\ pc = "judge" /\ pc' \in {"top", "done"}
  BY DEF RetriableError, FatalError, NewLocation, Unneeded, MetalinkResult,
         ErrorStatus, HeadDone, JudgeUnchanged, Continue, Return
<1>2. loop \in LoopLocals /\ hs \in HttpStat
  BY DEF TypeOK
<1>3. /\ hs'.len = hs.len /\ hs'.restval = hs.restval /\ hs'.orig = hs.orig
      /\ hs'.statcode = hs.statcode /\ hs'.contlen = hs.contlen
      /\ hs.timestamp_checked => hs'.timestamp_checked
  <2>1. CASE HeadDone
    BY <1>2, <2>1 DEF HeadDone, HttpStat
  <2>2. CASE ~HeadDone
    BY <2>2 DEF RetriableError, FatalError, NewLocation, Unneeded,
                MetalinkResult, ErrorStatus
  <2> QED BY <2>1, <2>2
<1>4. /\ loop'.send_head_first = loop.send_head_first
      /\ loop.got_head => loop'.got_head
      /\ "IF_MODIFIED_SINCE" \in dt' => "IF_MODIFIED_SINCE" \in dt
  <2>1. CASE HeadDone
    BY <1>2, <2>1 DEF HeadDone, LoopLocals
  <2>2. CASE ErrorStatus
    BY <1>2, <2>2 DEF ErrorStatus, LoopLocals
  <2>3. CASE MetalinkResult
    BY <1>2, <2>3 DEF MetalinkResult, LoopLocals
  <2>4. CASE ~(HeadDone \/ ErrorStatus \/ MetalinkResult)
    BY <2>4 DEF RetriableError, FatalError, NewLocation, Unneeded
  <2> QED BY <2>1, <2>2, <2>3, <2>4
<1>5. FreshInv' /\ OneNameInv'
  BY <1>1 DEF DatedParts, FreshInv, OneNameInv, Exists
<1>6. AskedInv'
  <2>1. Preliminary' => Preliminary
    BY <1>4 DEF Preliminary
  <2>2. Remembered(hs, dt)
    BY <1>1 DEF DatedParts, AskedInv, Trying
  <2>3. Remembered(hs, dt)'
    BY <1>1, <1>3, <1>4, <2>1, <2>2
       DEF Remembered, Unchanged, Current, Exists
  <2> QED BY <1>1, <2>3 DEF AskedInv, Trying
<1>7. ResumeInv'
  <2>1. pc' = "top" => err # "RETRUNNEEDED"
    BY DEF RetriableError, FatalError, NewLocation, Unneeded, MetalinkResult,
           ErrorStatus, HeadDone, Return, Transient
  <2> QED BY <1>1, <1>3, <2>1 DEF DatedParts, ResumeInv, At, Exists
<1>8. Updated' <=> Updated
  BY <1>1 DEF Updated, At, Exists
<1>9. pc' = "done" /\ ret' = "RETROK" /\ hs'.statcode # 204 => Updated
  <2>1. CASE Unneeded
    BY <1>1, <2>1 DEF Unneeded, DatedParts, VerdictInv
  <2>2. CASE HeadDone
    <3> SUFFICES ASSUME pc' = "done", hs.statcode # 204 PROVE Updated
      BY <1>3
    <3>1. /\ Obtained /\ Preliminary /\ UpToDate
      BY <1>1, <2>2, DatedState
         DEF HeadDone, Examining, SpiderDone, Obtained, Preliminary
    <3>2. /\ hs.orig # NoFile /\ hs.orig.fresh
          /\ hs.contlen = -1 \/ hs.orig.len = hs.contlen
      BY <3>1 DEF UpToDate, Datable
    <3>3. Unchanged /\ Base \in DOMAIN had /\ hs.orig = had[Base]
      BY <1>1, <3>1, <3>2 DEF DatedParts, AskedInv, Trying, Remembered
    <3>4. had[Base].len \in Nat
      BY <1>2, <3>2, <3>3 DEF HttpStat, Files
    <3> QED BY <3>2, <3>3, <3>4, DatedCurrent, DatedState
  <2>3. CASE ~(Unneeded \/ HeadDone)
    BY <2>3 DEF RetriableError, FatalError, NewLocation, MetalinkResult,
                ErrorStatus, Continue, Return, Fatal
  <2> QED BY <2>1, <2>2, <2>3
<1>10. VerdictInv'
  BY <1>1, <1>8, <1>9 DEF VerdictInv
<1> QED BY <1>1, <1>5, <1>6, <1>7, <1>10 DEF DatedParts, AnswerInv

\* A download is taken for finished only when the file is the document; its
\* time-stamp is set then, or after a 204, and never otherwise.
LEMMA DatedFinish ==
    ASSUME DatedAssumption, TypeOK, opt.timestamping, DatedParts, Finish
    PROVE  DatedParts'
<1>1. /\ UNCHANGED <<opt, site, local_file, hs, dt, had, runs, err>>
      /\ pc = "judge" /\ pc' \in {"top", "done", "abort"}
      /\ Obtained /\ ~(Examining /\ loop.send_head_first)
      /\ pc' # "done" => disk' = disk
      /\ disk' = disk \/ (Exists(local_file) /\ disk' =
                            Put(local_file,
                                [disk[local_file] EXCEPT !.fresh = TRUE]))
  BY DEF Finish, JudgeUnchanged, Obtained, Continue, Return
<1>2. /\ loop \in LoopLocals /\ hs \in HttpStat
      /\ disk \in [DOMAIN disk -> Files] /\ Size \in Nat
  BY DatedState DEF TypeOK
<1>3. local_file = Base /\ ~Preliminary
  BY <1>1, DatedState DEF DatedParts, OneNameInv, Examining, Preliminary
<1>4. /\ ~(Preliminary')
      /\ loop'.send_head_first = loop.send_head_first
  BY <1>1, <1>2 DEF Finish, Preliminary, LoopLocals
<1>5. \A n : At(n)' <=> At(n)
  <2>1. CASE disk' = disk
    BY <2>1 DEF At, Exists
  <2>2. CASE disk' # disk
    <3>1. /\ Base \in DOMAIN disk /\ DOMAIN disk' = DOMAIN disk
          /\ disk'[Base] = [disk[Base] EXCEPT !.fresh = TRUE]
      BY <1>1, <1>3, <2>2 DEF Put, Exists
    <3>2. disk'[Base].good = disk[Base].good /\ disk'[Base].len = disk[Base].len
      BY <1>2, <3>1 DEF Files
    <3> QED BY <3>1, <3>2 DEF At, Exists
  <2> QED BY <2>1, <2>2
<1>6. hs.statcode # 204 => At(hs.len) /\ (site.length => hs.contlen = Size)
  BY <1>1, <1>3 DEF DatedParts, VerdictInv
<1>7. hs.statcode = 204 => MaxRuns <= 1
  BY <1>1 DEF DatedParts, VerdictInv, DatedAssumption
<1>8. FreshInv'
  <2>1. CASE disk' = disk
    BY <1>1, <2>1 DEF DatedParts, FreshInv, Exists
  <2>2. CASE disk' # disk
    <3>1. /\ pc' = "done" /\ Base \in DOMAIN disk
          /\ disk'[Base] = [disk[Base] EXCEPT !.fresh = TRUE]
      BY <1>1, <1>3, <2>2 DEF Put, Exists
    <3>2. disk'[Base].good = disk[Base].good /\ disk'[Base].len = disk[Base].len
      BY <1>2, <3>1 DEF Files
    <3>3. disk[Base].good \/ MaxRuns <= 1
      BY <1>6, <1>7 DEF At
    <3> QED BY <1>1, <3>1, <3>2, <3>3 DEF DatedParts, FreshInv, Exists
  <2> QED BY <2>1, <2>2
<1>9. AskedInv'
  <2> SUFFICES ASSUME pc' = "top" PROVE AskedInv'
    BY <1>1 DEF AskedInv, Trying
  <2>1. Remembered(hs, dt)
    BY <1>1 DEF DatedParts, AskedInv, Trying
  <2>2. Remembered(hs, dt)'
    BY <1>1, <1>4, <2>1 DEF Remembered, Unchanged, Current, Exists
  <2> QED BY <2>2 DEF AskedInv
<1>10. ResumeInv'
  BY <1>1, <1>5 DEF DatedParts, ResumeInv, Obtained
<1>11. pc' = "done" /\ ret' = "RETROK" /\ hs.statcode # 204 => Updated'
  <2> SUFFICES ASSUME pc' = "done", ret' = "RETROK", hs.statcode # 204,
                      site.length
               PROVE  At(Size)
    BY <1>1, <1>5 DEF Updated
  <2>1. hs.contlen = Size /\ At(hs.len)
    BY <1>6
  <2>2. hs.len <= Size
    BY <2>1 DEF DatedParts, FreshInv, At
  <2>3. Complete
    BY <1>2, <2>1, <2>2 DEF Finish, Shrunk, Continue, Return, HttpStat
  <2> QED BY <1>2, <2>1, <2>3 DEF Complete
<1>12. VerdictInv'
  BY <1>1, <1>11 DEF VerdictInv
<1> QED BY <1>1, <1>3, <1>8, <1>9, <1>10, <1>12
        DEF DatedParts, OneNameInv, AnswerInv

\* The invariant of -N is kept by every step.
LEMMA DatedStep ==
    DatedAssumption /\ TypeInv /\ DatedInv /\ [Next]_vars => DatedInv'
<1> SUFFICES ASSUME DatedAssumption, TypeInv, DatedInv, [Next]_vars,
                    opt'.timestamping
             PROVE  DatedParts'
  BY DEF DatedInv
<1>1. TypeOK
  BY DEF TypeInv
<1>2. CASE UNCHANGED vars
  <2>1. DatedParts
    BY <1>2 DEF vars, DatedInv
  <2> QED BY <1>2, <2>1
          DEF vars, DatedParts, FreshInv, OneNameInv, AskedInv, AnswerInv,
              ResumeInv, VerdictInv, Remembered, Trying, Preliminary, Current,
              Obtained, Unchanged, Updated, At, Exists
<1>3. CASE Next
  <2>1. opt' = opt
    BY <1>3, Zenon
       DEF Next, Step, OpenOutputDocument, EnterHttpLoop, StartTry, ConnectFails,
           SendRequest, HeadFails, ReadHead, MetalinkHead, RetryWithAuth,
           AuthFails, NameExists, NoContent, Redirected, NotModified,
           FullyRetrieved, WrongRange, NoBodyWanted, OpenBody, OpenFails,
           ReadBody, EndBody, RetriableError, FatalError, NewLocation, Unneeded,
           MetalinkResult, ErrorStatus, HeadDone, Finish, Rerun, HeadUnchanged,
           JudgeUnchanged
  <2>2. opt.timestamping /\ DatedParts
    BY <2>1 DEF DatedInv
  <2> QED
    BY <1>1, <1>3, <2>2, DatedStart, DatedRequest, DatedExits, DatedOpen,
       DatedRead, DatedEnd, DatedJudge, DatedFinish DEF Next, Step
<1> QED BY <1>2, <1>3

\* When http_loop says that -N succeeded, the local file is the document: with a
\* HEAD or a conditional GET, whatever was there before (but for the part of an
\* interrupted download), however tries fail and resume and runs are killed.
THEOREM TimestampingIsRight ==
    ASSUME DatedAssumption
    PROVE  Spec => []TimestampingUpdates
<1>1. Init => TypeInv /\ DatedInv
  BY InitType, DatedInit
<1>2. TypeInv /\ DatedInv /\ [Next]_vars => (TypeInv /\ DatedInv)'
  BY TypeStep, DatedStep
<1>3. DatedInv => TimestampingUpdates
  BY DEF DatedInv, DatedParts, VerdictInv, Updated, At, TimestampingUpdates
<1> QED BY <1>1, <1>2, <1>3, PTL DEF Spec
=============================================================================
