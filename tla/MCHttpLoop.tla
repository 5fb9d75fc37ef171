----------------------------- MODULE MCHttpLoop -----------------------------
(***************************************************************************)
(* The command lines and directory contents with which HttpLoop is checked.*)
(***************************************************************************)
EXTENDS HttpLoop

Plain == [ntry |-> 3, always_rest |-> FALSE, start_pos |-> -1,
          timestamping |-> FALSE, if_modified_since |-> TRUE,
          spider |-> FALSE, recursive |-> FALSE,
          content_disposition |-> FALSE, noclobber |-> FALSE,
          dirstruct |-> FALSE, output_document |-> FALSE, warc |-> FALSE,
          temporary |-> FALSE, backups |-> FALSE, content_on_error |-> FALSE,
          retry_on_http_error |-> {503}, retry_on_host_error |-> FALSE,
          useservertimestamps |-> TRUE, metalink_over_http |-> FALSE,
          adjust_extension |-> FALSE, credentials |-> FALSE]

\* Files: absent, or the first n bytes of the document.
Prefix(n) == [len |-> n, good |-> TRUE, fresh |-> TRUE]
Nothing == [f \in {} |-> NoFile]
With(f, file) == [g \in {f} |-> file]

Resumable == {Nothing, With(Base, Prefix(1)), With(Base, Prefix(Size))}

\* A file that is not the document's beginning, older or newer than it.
Stale(n) == [len |-> n, good |-> FALSE, fresh |-> FALSE]

AnySite == [html : BOOLEAN, last_modified : {TRUE}, length : BOOLEAN]
PlainSite == {[html |-> FALSE, last_modified |-> TRUE, length |-> TRUE]}

\* Retrieving and resuming: default, -c, into a hierarchy, -E.
ResumeOpts ==
    {Plain,
     [Plain EXCEPT !.always_rest = TRUE, !.retry_on_host_error = TRUE],
     [Plain EXCEPT !.dirstruct = TRUE, !.credentials = TRUE],
     [Plain EXCEPT !.content_disposition = TRUE, !.adjust_extension = TRUE]}

\* Preliminary HEAD requests and conditional GETs.
Dated == [Plain EXCEPT !.ntry = 2, !.timestamping = TRUE]
HeadOpts ==
    {Dated,
     [Dated EXCEPT !.if_modified_since = FALSE],
     [Dated EXCEPT !.if_modified_since = FALSE, !.content_disposition = TRUE],
     [Plain EXCEPT !.ntry = 2, !.spider = TRUE],
     [Plain EXCEPT !.ntry = 2, !.spider = TRUE, !.recursive = TRUE],
     [Plain EXCEPT !.ntry = 2, !.metalink_over_http = TRUE],
     [Plain EXCEPT !.ntry = 2, !.noclobber = TRUE],
     [Plain EXCEPT !.ntry = 2, !.noclobber = TRUE,
                   !.content_disposition = TRUE]}
TryDisks == {Nothing, With(Base, Prefix(1)), With(Base, Prefix(Size))}
                \cup {With(Base, Stale(n)) : n \in 1 .. Size + 1}

\* Every other way through the loop.
TryOpts ==
    HeadOpts \cup
    {[Plain EXCEPT !.ntry = 2],
     [Plain EXCEPT !.ntry = 2, !.always_rest = TRUE,
                   !.content_disposition = TRUE, !.credentials = TRUE],
     [Dated EXCEPT !.if_modified_since = FALSE],
     [Plain EXCEPT !.ntry = 2, !.spider = TRUE, !.recursive = TRUE],
     [Plain EXCEPT !.ntry = 2, !.metalink_over_http = TRUE],
     [Plain EXCEPT !.ntry = 2, !.warc = TRUE, !.credentials = TRUE],
     [Plain EXCEPT !.ntry = 2, !.output_document = TRUE, !.noclobber = TRUE,
                   !.content_on_error = TRUE],
     [Plain EXCEPT !.ntry = 2, !.temporary = TRUE, !.backups = TRUE,
                   !.start_pos = 1]}

\* Single options on which a promise of the manual or a comment fails.
BackupOpts == {[Plain EXCEPT !.backups = TRUE]}
NamedByHeadOpts ==
    {[Plain EXCEPT !.always_rest = TRUE, !.content_disposition = TRUE]}
Interrupted == {With(Base, Prefix(1))}
Clean == {Nothing}

\* What the proof about -N assumes holds of these command lines and directories.
ASSUME UsualDates == DatedAssumption
=============================================================================
