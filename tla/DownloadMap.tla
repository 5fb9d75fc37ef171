----------------------------- MODULE DownloadMap ----------------------------
(***************************************************************************)
(* The book-keeping of downloads (src/src/convert.c) as its callers see    *)
(* it: recursive retrieval asks it whether a URL has to be fetched again,  *)
(* link conversion where a link should point to.  The actions are what the *)
(* rest of the program does to it: the end of retrieve_url, a download     *)
(* that fails, and the deletion in retrieve_tree.  (RetrieveTree also has  *)
(* the deletion of robots.txt, which the tables are not told of.)          *)
(***************************************************************************)
EXTENDS DownloadTables

CONSTANTS
    HtmlUrls, CssUrls,  \* the URLs whose documents are HTML, and CSS
    Opts                \* the command lines considered, see OptsAssumption

ASSUME UrlsAssumption == HtmlUrls \subseteq Urls /\ CssUrls \subseteq Urls

\* naming: <<url, file>> if url may be saved under the name file; conflict: an
\* existing file is overwritten ("clobber"), left alone in favour of another
\* name ("unique"), or taken for the document that would be saved there
\* ("keep", -nc); failures: whether a download may fail after it opened the
\* file.
ASSUME OptsAssumption ==
    \A o \in Opts :
        /\ o.naming \subseteq Urls \X LocalFiles
        /\ o.conflict \in {"clobber", "unique", "keep"}
        /\ o.failures \in BOOLEAN

VARIABLES
    opt,       \* the options of this command line, fixed
    maps,      \* the four tables
    disk,      \* the local files: whose document each of them holds
    led,       \* history: <<u, v>>: u was redirected to v
    asserted   \* an assertion of register_redirection has failed

vars == <<opt, maps, disk, led, asserted>>

Init ==
    /\ opt \in Opts
    /\ maps = NoMaps
    /\ disk = EmptyTable
    /\ led = {}
    /\ asserted = FALSE

\* The names under which url may be saved, and whose document such a file
\* holds afterwards.
Saved(url, file) ==
    IF file \in DOMAIN disk /\ opt.conflict = "keep" THEN disk[file] ELSE url
Names(url) ==
    {file \in LocalFiles : /\ <<url, file>> \in opt.naming
                           /\ file \in DOMAIN disk => opt.conflict # "unique"}

\* What the server said about the type of the document.
Typed(m, url, file) ==
    IF url \in HtmlUrls THEN register_html(m, file)
    ELSE IF url \in CssUrls THEN register_css(m, file) ELSE m

\* retrieve_url was asked for from, was led to url and has file for it.
Download(from, url, file) ==
    LET saved == register_download(maps, url, file)
        led_to == url \in DOMAIN saved.dl_url_file_map
        known == IF from = url THEN saved
                 ELSE register_redirection(saved, from, url)
    IN  /\ ~asserted
        /\ file \in Names(url)
        /\ disk' = Put(disk, file, Saved(url, file))
        /\ led' = led \cup {<<from, url>>}
        /\ asserted' = (from # url /\ ~led_to)
        /\ maps' = IF asserted' THEN saved ELSE Typed(known, url, file)
        /\ UNCHANGED opt

\* The download failed for good after part of it was written: http_loop does
\* not return the name of the file, and nothing is registered.
Fail(url, file) ==
    /\ opt.failures /\ ~asserted
    /\ file \in Names(url)
    /\ disk' = Put(disk, file, Saved(url, file))
    /\ UNCHANGED <<opt, maps, led, asserted>>

\* retrieve_tree deletes a file that was only needed for its links.
Delete(file) ==
    /\ ~asserted
    /\ file \in DOMAIN disk
    /\ disk' = WithoutKey(disk, file)
    /\ maps' = register_delete_file(maps, file)
    /\ UNCHANGED <<opt, led, asserted>>

Next ==
    \/ \E from, url \in Urls, file \in LocalFiles : Download(from, url, file)
    \/ \E url \in Urls, file \in LocalFiles : Fail(url, file)
    \/ \E file \in LocalFiles : Delete(file)

Spec == Init /\ [][Next]_vars

-----------------------------------------------------------------------------
\* The tables map files to URLs and URLs to files.
TypeOK ==
    /\ opt \in Opts
    /\ AreTables(maps)
    /\ IsTable(disk, LocalFiles, Urls)
    /\ led \subseteq Urls \X Urls
    /\ asserted \in BOOLEAN

\* "A URL->FILE mapping is not possible without a FILE->URL mapping"
\* (register_download): a URL never points to a file that nobody owns, so
\* that every deletion and every overwriting finds it.
UrlsHaveFiles ==
    \A u \in DOMAIN maps.dl_url_file_map :
        maps.dl_url_file_map[u] \in DOMAIN maps.dl_file_url_map

\* A URL only ever points to a file that is there, whatever was deleted: no
\* converted link is dead.
FilesExist ==
    \A u \in DOMAIN maps.dl_url_file_map :
        maps.dl_url_file_map[u] \in DOMAIN disk

TablesConsistent == TypeOK /\ UrlsHaveFiles /\ FilesExist

\* How a command line may name files.  OneName: a URL has the same name every
\* time; OwnName: only directory indexes share a name.
OneName(o) ==
    \A u \in Urls, f, g \in LocalFiles :
        <<u, f>> \in o.naming /\ <<u, g>> \in o.naming => f = g
OwnName(o) ==
    \A u, v \in Urls, f \in LocalFiles :
        <<u, f>> \in o.naming /\ <<v, f>> \in o.naming => match_except_index(u, v)
\* No directory is named index.html.
IndexIsLast ==
    \A u, v, w \in Urls :
        match_except_index(u, v) /\ match_except_index(v, w) => match_except_index(u, w)

\* Existing files are left alone; or a URL has one name, which is either its own,
\* as in a hierarchy of directories, or shared with others (-nd) in a run where
\* every file that is overwritten is completed.
NamesAssumption ==
    \A o \in Opts :
        \/ o.conflict = "unique"
        \/ OneName(o) /\ OwnName(o)
        \/ OneName(o) /\ IndexIsLast /\ o.conflict = "clobber" /\ ~o.failures

\* url's document, or that of a URL it was redirected to.
SameDocument(url, doc) ==
    \E v \in Urls : /\ v = url \/ <<url, v>> \in led
                    /\ match_except_index(v, doc)

\* The file a URL points to holds that URL's document: this is what makes a
\* converted link lead where the original one led, however downloads,
\* redirections, overwritten and deleted files followed one another.
LinksLeadHome ==
    \A u \in DOMAIN maps.dl_url_file_map :
        maps.dl_url_file_map[u] \in DOMAIN disk
          => SameDocument(u, disk[maps.dl_url_file_map[u]])

\* convert_links_in_hashtable resolves the relative links of a file against
\* the URL that owns it: that is the URL of the document the file holds.
OwnerIsBase ==
    \A f \in DOMAIN maps.dl_file_url_map :
        f \in DOMAIN disk
          => match_except_index(maps.dl_file_url_map[f], disk[f])

\* Together: a converted document is right, in its links and in their bases.
ConversionRight == LinksLeadHome /\ OwnerIsBase

\* "assert (file != NULL)" in register_redirection never fails.
RedirectionRegistered == ~asserted
=============================================================================
