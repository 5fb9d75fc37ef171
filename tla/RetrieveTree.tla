---------------------------- MODULE RetrieveTree ----------------------------
(***************************************************************************)
(* Recursive retrieval (src/src/recur.c): retrieve_tree walks the links    *)
(* from a start URL breadth first, with a queue of URLs to load and a      *)
(* blacklist of URLs not to enqueue again; download_child decides which    *)
(* links to follow.  main runs it for one start URL after the other, and   *)
(* the tables of convert.c tell it what earlier trees have downloaded.     *)
(*                                                                         *)
(* retrieve_url is one step here (RetrieveUrl models it): the web is a     *)
(* fixed site that answers each URL with a document, perhaps that of       *)
(* another URL, or with an error.                                          *)
(***************************************************************************)
EXTENDS DownloadTables, SequencesExt

CONSTANTS
    Cases,       \* what the web may look like, a command line for it, and the
                 \* start URLs: see SiteOk and OptionsOk
    LocalName,   \* url_file_name
    Tmp,         \* what a file of that name is called if it is to be deleted:
                 \* the name with .tmp appended
    NoFile,      \* a NULL file
    RobotsTxt,   \* the URL of a host's robots.txt
    unescape,    \* url_unescape: URLs that it maps to one are escaped variants
    Host, Dir,   \* host and directory of a URL
    HtmlUrls, CssUrls,    \* the URLs whose documents are HTML, or CSS
    HtmlSuffix,           \* the URLs with an HTML suffix
    Misresolved,          \* what a relative link becomes under a wrong base
    DiskFull              \* whether writing a file may fail

\* A link: its target, and what the parser says about it.
Link == [to : Urls, inline : BOOLEAN, html : BOOLEAN, css : BOOLEAN,
         relative : BOOLEAN]

SiteOk(s) ==
    /\ s.links \in [Urls -> SUBSET Link]
    /\ DOMAIN s.led \subseteq Urls             \* the URLs that are redirected,
    /\ \A u \in DOMAIN s.led :                \* and where they lead in the end
          /\ s.led[u] \in Urls
          /\ s.led[u] \in DOMAIN s.led => s.led[s.led[u]] = s.led[u]
    /\ s.dead \subseteq Urls                   \* no document there
    /\ s.nofollow \subseteq Urls               \* <meta name="robots" ...>
    /\ s.disallowed \subseteq Urls             \* robots.txt, which is there then
    /\ \A u \in s.disallowed : LET robots == RobotsTxt[Host[u]] IN
          (IF robots \in DOMAIN s.led THEN s.led[robots] ELSE robots) \notin s.dead

INFINITE_RECURSION == 99

OptionsOk(o) ==
    /\ o.reclevel \in Nat
    /\ o.quota \in Nat                         \* in documents, 0: none
    /\ {o.page_requisites, o.delete_after, o.spanhost, o.relative_only,
        o.use_robots, o.trustservernames} \subseteq BOOLEAN
    /\ o.foreign \subseteq Urls                \* --https-only, -D, FTP, ...
    /\ o.above \subseteq Urls                  \* outside the start directory, -np
    /\ o.excluded \subseteq Urls               \* -X, -I, --reject-regex
    /\ o.unacceptable \subseteq Urls           \* -A, -R, of the name in a URL
    /\ o.rejected \subseteq LocalFiles         \* -A, -R, of the name of a file

ASSUME TreeAssumption ==
    /\ \A k \in Cases : SiteOk(k.site) /\ OptionsOk(k.opt) /\ k.starts \in Seq(Urls)
    /\ Tmp \in [DOMAIN Tmp -> LocalFiles] /\ DOMAIN Tmp \subseteq LocalFiles
    /\ LocalName \in [Urls -> DOMAIN Tmp]
    /\ \A u \in Urls : RobotsTxt[Host[u]] \in Urls
    /\ unescape \in [Urls -> Urls]
    /\ HtmlUrls \subseteq Urls /\ CssUrls \subseteq Urls
    /\ HtmlSuffix \subseteq Urls
    /\ Misresolved \in Urls
    /\ DiskFull \in BOOLEAN

\* http_loop names the file for a URL; one that is to be deleted gets .tmp.
FileOf(o, url) ==
    IF o.delete_after \/ LocalName[url] \in o.rejected THEN Tmp[LocalName[url]]
    ELSE LocalName[url]

\* A URL that is redirected shares its file with no other URL, or
\* --trust-server-names names files after the URL that it leads to.
OwnNames ==
    \A k \in Cases : \A u \in DOMAIN k.site.led, v \in Urls :
        \/ k.opt.trustservernames \/ k.site.led[u] = u
        \/ FileOf(k.opt, u) = FileOf(k.opt, v) => u = v

ASSUME FileAssumption == NoFile \notin LocalFiles

VARIABLES
    site, opt,
    maps, disk,      \* DownloadMap's
    starts,          \* start URLs not yet begun
    start,           \* the start URL of the tree
    queue,           \* [url, depth, html_allowed, css_allowed]
    blacklist,
    status,
    specs,           \* hosts whose robots.txt is known
    total,           \* total_downloaded_bytes, in documents
    pc,
    page,            \* the local variables of the loop: what is being loaded
    children,        \* the links of the page not yet looked at
    taken,           \* history: what this tree has dequeued
    premature,       \* history: this tree was cut short
    misled           \* history: this tree has reused a document by its old URL,
                     \* or found its file gone

vars == <<site, opt, maps, disk, starts, start, queue, blacklist, status,
          specs, total, pc, page, children, taken, premature, misled>>

NoPage == [url |-> "none"]

Init ==
    /\ \E k \in Cases : site = k.site /\ opt = k.opt /\ starts = k.starts
    /\ maps = NoMaps /\ disk = EmptyTable
    /\ start = "none" /\ queue = <<>> /\ blacklist = {} /\ status = "RETROK"
    /\ specs = {} /\ total = 0
    /\ pc = "main" /\ page = NoPage /\ children = {}
    /\ taken = {} /\ premature = FALSE /\ misled = FALSE

-----------------------------------------------------------------------------
\* Variant for sensitivity checks: URLs are compared as they are written.
blacklist_contains_verbatim(list, url) == url \in list
blacklist_add(list, url) == list \cup {unescape[url]}
blacklist_contains(list, url) == unescape[url] \in list

\* The rules look at names: of URLs, and of files.
Acceptable(url) == url \notin opt.unacceptable
AcceptableFile(file) == file \notin opt.rejected

\* An HTML file that may lead to others is not judged by its name.
NonLeaf(depth) == \/ opt.reclevel = INFINITE_RECURSION
                  \/ depth + 1 < opt.reclevel
                  \/ opt.page_requisites

\* The tests of download_child between blacklist and robots.txt, in order; what
\* counts is whether the directory lists (or the regular expressions) were the
\* first to reject.
Tests(link, parent, depth) ==
    LET u == link.to IN
    <<u \in opt.foreign \/ (opt.relative_only /\ ~link.relative),
      u \in opt.above /\ ~(opt.page_requisites /\ link.inline),
      u \in opt.excluded,
      ~(u \in HtmlSuffix /\ NonLeaf(depth)) /\ ~Acceptable(u),
      ~opt.spanhost /\ Host[u] # Host[parent]>>
Failing(link, parent, depth) ==
    {k \in 1 .. 5 : Tests(link, parent, depth)[k]}

download_child(list, link, parent, depth) ==
    LET failing == Failing(link, parent, depth) IN
    IF blacklist_contains(list, link.to) THEN "BLACKLIST"
    ELSE IF 3 \in failing /\ failing \cap {1, 2} = {} THEN "LIST"
    ELSE IF failing # {} THEN "RULES"
    ELSE IF opt.use_robots /\ link.to \in site.disallowed THEN "ROBOTS"
    ELSE "SUCCESS"

\* What robots.txt forbids is blacklisted.
Judged(list, reason, url) ==
    IF reason = "ROBOTS" THEN blacklist_add(list, url) ELSE list

-----------------------------------------------------------------------------
Document(url) == IF url \in DOMAIN site.led THEN site.led[url] ELSE url

\* The file for the URL that was asked for, or on request for the one that it
\* was led to.
SavedAs(url) == FileOf(opt, IF opt.trustservernames THEN Document(url) ELSE url)

\* "assert (file != NULL)" in register_redirection fails.
Unregistered(m, url, doc) == url # doc /\ doc \notin DOMAIN m.dl_url_file_map

\* retrieve_url registers the document of url, which it has saved to file.
Registered(saved, url, doc, file) ==
    LET known == IF url # doc THEN register_redirection(saved, url, doc) ELSE saved
    IN  IF doc \in HtmlUrls THEN register_html(known, file)
        ELSE IF doc \in CssUrls THEN register_css(known, file) ELSE known

\* What retrieve_url changes.
Books == [maps |-> maps, disk |-> disk, total |-> total, specs |-> specs, pc |-> pc]
Become(t) ==
    /\ maps' = t.maps /\ disk' = t.disk /\ total' = t.total
    /\ specs' = t.specs /\ pc' = t.pc

\* url has a document, which is saved and registered.
Retrieved(url, t) ==
    LET doc == Document(url)
        file == SavedAs(url)
        saved == register_download(t.maps, doc, file)
        got == [t EXCEPT !.disk = Put(@, file, doc), !.total = @ + 1]
    IN  IF Unregistered(saved, url, doc)
        THEN [got EXCEPT !.maps = saved, !.pc = "aborted"]
        ELSE [got EXCEPT !.maps = Registered(saved, url, doc, file)]

\* The last test of download_child takes the robots.txt of the host, once.  Its
\* file is deleted if it is temporary, and the tables are not told.
Temporary(file) == opt.delete_after \/ file \in Range(Tmp)
ConsultRobots(reason, url, t) ==
    LET robots == RobotsTxt[Host[url]]
        known == [t EXCEPT !.specs = @ \cup {Host[url]}]
        got == Retrieved(robots, known)
    IN  IF \/ ~opt.use_robots \/ reason \notin {"ROBOTS", "SUCCESS"}
           \/ Host[url] \in t.specs \/ t.pc = "aborted" THEN t
        ELSE IF Document(robots) \in site.dead THEN known
        ELSE IF got.pc # "aborted" /\ Temporary(SavedAs(robots))
        THEN [got EXCEPT !.disk = WithoutKey(@, SavedAs(robots))]
        ELSE got

\* main starts a tree.
StartTree ==
    /\ pc = "main" /\ starts # <<>>
    /\ start' = Head(starts) /\ starts' = Tail(starts)
    /\ queue' = <<[url |-> Head(starts), depth |-> 0,
                   html_allowed |-> TRUE, css_allowed |-> FALSE]>>
    /\ blacklist' = blacklist_add({}, Head(starts))
    /\ status' = "RETROK"
    /\ taken' = {} /\ premature' = FALSE /\ misled' = FALSE
    /\ pc' = "loop"
    /\ UNCHANGED <<site, opt, maps, disk, specs, total, page, children>>

\* The loop ends: quota, a full disk, or an empty queue.
Exceeded == opt.quota > 0 /\ total > opt.quota
EndTree ==
    /\ pc = "loop"
    /\ Exceeded \/ status = "FWRITEERR" \/ queue = <<>>
    /\ premature' = (queue # <<>> \/ status = "FWRITEERR")
    /\ queue' = <<>> /\ blacklist' = {}
    /\ pc' = "main"
    /\ UNCHANGED <<site, opt, maps, disk, starts, start, status, specs, total,
                   page, children, taken, misled>>

url_dequeue ==
    /\ pc = "loop" /\ ~Exceeded /\ status # "FWRITEERR" /\ queue # <<>>
    /\ queue' = Tail(queue)
    /\ taken' = taken \cup {Head(queue)}
    /\ LET qel == Head(queue) IN
       page' = [url |-> qel.url, depth |-> qel.depth, file |-> NoFile,
                html_allowed |-> qel.html_allowed, css_allowed |-> qel.css_allowed,
                descend |-> FALSE, is_css |-> FALSE]
    /\ pc' = IF Head(queue).url \in DOMAIN maps.dl_url_file_map
             THEN "reuse" ELSE "download"
    /\ UNCHANGED <<site, opt, maps, disk, starts, start, blacklist, status,
                   specs, total, children, premature, misled>>

\* Variant for sensitivity checks: what is there needs no second look.
Reuse_skipping ==
    /\ pc = "reuse"
    /\ page' = [page EXCEPT !.file = maps.dl_url_file_map[page.url]]
    /\ pc' = "harvest"
    /\ UNCHANGED <<site, opt, maps, disk, starts, start, queue, blacklist,
                   status, specs, total, children, taken, premature, misled>>

\* An earlier tree, or a redirection, has left the document in a file.
Reuse ==
    /\ pc = "reuse"
    /\ LET file == maps.dl_url_file_map[page.url]
           css == page.css_allowed /\ file \in maps.downloaded_css_set
           html == page.html_allowed /\ file \in maps.downloaded_html_set
       IN  page' = [page EXCEPT !.file = file, !.descend = css \/ html,
                                !.is_css = css]
    /\ misled' = (misled \/ page.url \in DOMAIN site.led)
    /\ pc' = "harvest"
    /\ UNCHANGED <<site, opt, maps, disk, starts, start, queue, blacklist,
                   status, specs, total, children, taken, premature>>

\* A redirection is judged like a link to the new location.
NewLink(doc) == [to |-> doc, inline |-> FALSE, html |-> FALSE, css |-> FALSE,
                 relative |-> FALSE]

\* The blacklist after a redirection to doc: descend_redirect, and its caller.
descend_redirect(reason, doc) ==
    IF reason \in {"SUCCESS", "LIST"}
    THEN blacklist_add(blacklist_add(blacklist, doc), page.url)
    ELSE Judged(blacklist, reason, doc)

\* The document was retrieved.  If that took a redirection, the page is from
\* now on known by its new URL, and its links are followed if the new URL
\* may be descended to.
Download ==
    /\ pc = "download"
    /\ LET doc == Document(page.url)
           css == doc \in CssUrls \/ page.css_allowed
           html == page.html_allowed /\ doc \in HtmlUrls
           judge == page.url \in DOMAIN site.led /\ (css \/ html)
           reason == IF judge THEN download_child(blacklist, NewLink(doc),
                                                  page.url, page.depth)
                     ELSE "LIST"
       IN  /\ doc \notin site.dead
           /\ Become(ConsultRobots(reason, doc,
                         Retrieved(page.url, [Books EXCEPT !.pc = "harvest"])))
           /\ status' = "RETROK"
           /\ blacklist' = IF judge THEN descend_redirect(reason, doc) ELSE blacklist
           /\ page' = [page EXCEPT !.url = doc, !.file = SavedAs(page.url), !.is_css = css,
                                   !.descend = (css \/ html) /\ reason \in {"SUCCESS", "LIST"}]
    /\ UNCHANGED <<site, opt, starts, start, queue, children, taken, premature, misled>>

\* Variant for sensitivity checks: what failed is tried again later.
DownloadFails_again ==
    /\ pc = "download"
    /\ Document(page.url) \in site.dead /\ status' = "WRONGCODE"
    /\ queue' = Append(queue, [url |-> page.url, depth |-> page.depth,
                               html_allowed |-> page.html_allowed,
                               css_allowed |-> page.css_allowed])
    /\ pc' = "harvest"
    /\ UNCHANGED <<site, opt, maps, disk, starts, start, blacklist,
                   specs, total, page, children, taken, premature, misled>>

\* retrieve_url failed: no document, or no room for it.
DownloadFails ==
    /\ pc = "download"
    /\ \/ Document(page.url) \in site.dead /\ status' = "WRONGCODE"
       \/ DiskFull /\ status' = "FWRITEERR"
    /\ pc' = "harvest"
    /\ UNCHANGED <<site, opt, maps, disk, starts, start, queue, blacklist,
                   specs, total, page, children, taken, premature, misled>>

-----------------------------------------------------------------------------
Deep(depth) == opt.reclevel # INFINITE_RECURSION /\ depth >= opt.reclevel

\* -p allows two more levels, but only for what is needed to show the page.
dash_p_leaf_HTML(depth) ==
    Deep(depth) /\ opt.page_requisites
                /\ depth \in {opt.reclevel, opt.reclevel + 1}

\* get_urls_html and get_urls_css_file: the links of the document in the file,
\* relative ones resolved against url.
LinksIn(doc, url, is_css) ==
    IF \/ doc \notin (IF is_css THEN CssUrls ELSE HtmlUrls)
       \/ opt.use_robots /\ doc \in site.nofollow
    THEN {}
    ELSE {[l EXCEPT !.to = IF l.relative /\ Dir[url] # Dir[doc]
                           THEN Misresolved ELSE @] : l \in site.links[doc]}

\* The page is parsed, unless that leads too deep.  A file that is gone has no
\* links.
Parsed == page.descend /\ (Deep(page.depth) => dash_p_leaf_HTML(page.depth))
Harvest ==
    /\ pc = "harvest"
    /\ children' = IF Parsed /\ page.file \in DOMAIN disk
                   THEN LinksIn(disk[page.file], page.url, page.is_css) ELSE {}
    /\ misled' = (misled \/ (Parsed /\ page.file \notin DOMAIN disk))
    /\ pc' = "children"
    /\ UNCHANGED <<site, opt, maps, disk, starts, start, queue, blacklist,
                   status, specs, total, page, taken, premature>>

\* One link of the page; the parser's order is left open.
Child(link) ==
    LET reason == download_child(blacklist, link, page.url, page.depth) IN
    /\ children' = children \ {link}
    /\ IF dash_p_leaf_HTML(page.depth) /\ ~link.inline
       THEN UNCHANGED <<queue, blacklist, maps, disk, specs, total, pc>>
       ELSE /\ Become(ConsultRobots(reason, link.to, Books))
            /\ IF reason = "SUCCESS"
               THEN /\ queue' = Append(queue,
                                   [url |-> link.to, depth |-> page.depth + 1,
                                    html_allowed |-> link.html,
                                    css_allowed |-> link.css])
                    /\ blacklist' = blacklist_add(blacklist, link.to)
               ELSE /\ blacklist' = Judged(blacklist, reason, link.to)
                    /\ UNCHANGED queue

NextChild ==
    /\ pc = "children"
    /\ \E link \in children : Child(link)
    /\ UNCHANGED <<site, opt, starts, start, status, page, taken, premature, misled>>

\* Variant for sensitivity checks: the tables are not told.
FinishPage_untold ==
    /\ pc = "children" /\ children = {}
    /\ disk' = IF /\ page.file # NoFile
                  /\ opt.delete_after \/ ~AcceptableFile(page.file)
               THEN WithoutKey(disk, page.file) ELSE disk
    /\ page' = NoPage /\ pc' = "loop"
    /\ UNCHANGED <<site, opt, maps, starts, start, queue, blacklist, status,
                   specs, total, children, taken, premature, misled>>

\* The file goes if it was only loaded for its links.
FinishPage ==
    /\ pc = "children" /\ children = {}
    /\ IF /\ page.file # NoFile
          /\ opt.delete_after \/ ~AcceptableFile(page.file)
       THEN /\ disk' = WithoutKey(disk, page.file)
            /\ maps' = register_delete_file(maps, page.file)
       ELSE UNCHANGED <<disk, maps>>
    /\ page' = NoPage
    /\ pc' = "loop"
    /\ UNCHANGED <<site, opt, starts, start, queue, blacklist, status, specs,
                   total, children, taken, premature, misled>>

Next ==
    \/ StartTree \/ EndTree \/ url_dequeue \/ Reuse \/ Download
    \/ DownloadFails \/ Harvest \/ NextChild \/ FinishPage

Spec == Init /\ [][Next]_vars

\* A single thread: it goes on as long as it can.
FairSpec == Spec /\ WF_vars(Next)

-----------------------------------------------------------------------------
Entry == [url : Urls, depth : Nat, html_allowed : BOOLEAN, css_allowed : BOOLEAN]

\* Queue, page and tables are well-formed.
TypeOK ==
    /\ AreTables(maps)
    /\ IsTable(disk, LocalFiles, Urls)
    /\ starts \in Seq(Urls) /\ start \in Urls \cup {"none"}
    /\ queue \in Seq(Entry) /\ blacklist \subseteq Urls
    /\ status \in {"RETROK", "WRONGCODE", "FWRITEERR"}
    /\ total \in Nat
    /\ pc \in {"main", "loop", "reuse", "download", "harvest", "children", "aborted"}
    /\ page # NoPage <=> pc \notin {"main", "loop"}
    /\ page # NoPage => page \in [url : Urls, depth : Nat, html_allowed : BOOLEAN,
                                 css_allowed : BOOLEAN,
                                 file : LocalFiles \cup {NoFile},
                                 descend : BOOLEAN, is_css : BOOLEAN]
    /\ children \subseteq Link
    /\ taken \subseteq Entry /\ premature \in BOOLEAN /\ misled \in BOOLEAN

\* "We blacklist the URL we have enqueued, because we don't want to enqueue
\* (and hence download) the same URL twice": however it is escaped, and
\* whichever redirections lead to it, a URL is queued at most once per tree.
EnqueuedOnce ==
    /\ \A i, j \in DOMAIN queue :
          unescape[queue[i].url] = unescape[queue[j].url] => i = j
    /\ \A i \in DOMAIN queue, t \in taken :
          unescape[queue[i].url] # unescape[t.url]
    /\ \A t, v \in taken : unescape[t.url] = unescape[v.url] => t = v

\* The reference: what the links of the site and the options say a tree should
\* load at which depth, without queue, blacklist and tables.
Followed(link, parent, depth) ==
    /\ Failing(link, parent, depth) = {}
    /\ ~(opt.use_robots /\ link.to \in site.disallowed)
Ahead(e, depth) ==
    LET doc == Document(e.url)
        css == doc \in CssUrls \/ e.css
        html == doc \in HtmlUrls /\ e.html
        stays == e.url \notin DOMAIN site.led
        moved == /\ Failing(NewLink(doc), e.url, depth) \subseteq {3}
                 /\ ~(opt.use_robots /\ doc \in site.disallowed)
    IN  IF doc \in site.dead \/ ~(css \/ html) \/ ~(stays \/ moved) THEN {}
        ELSE {l \in LinksIn(doc, doc, css) :
                /\ \/ opt.reclevel = INFINITE_RECURSION \/ depth < opt.reclevel
                   \/ opt.page_requisites /\ l.inline /\ depth <= opt.reclevel + 1
                /\ Followed(l, doc, depth)}
Below(level, depth) ==
    UNION {{[url |-> l.to, html |-> l.html, css |-> l.css] : l \in Ahead(e, depth)} :
              e \in level}
Deepest == 2 * Cardinality(Urls)
Levels ==
    FoldLeft(LAMBDA levels, depth : Append(levels, Below(levels[depth + 1], depth)),
             <<{[url |-> start, html |-> TRUE, css |-> FALSE]}>>,
             [k \in 1 .. Deepest |-> k - 1])

\* A tree that is not cut short has loaded everything it should, also
\* if an earlier tree had loaded some of it from another start ("we want the
\* URL's children to be taken into account the second time").
Complete ==
    pc = "main" /\ start # "none" /\ ~premature /\ ~misled =>
        \A level \in Range(Levels) : \A e \in level :
            \E t \in taken : unescape[e.url] \in {unescape[t.url], unescape[Document(t.url)]}

\* What a tree loads, it loads at a depth at which it should: recursion depth,
\* -p, robots.txt and the accept and reject rules hold for every URL.
AtDepth ==
    pc = "main" /\ start # "none" /\ ~misled =>
        LET levels == Levels
        IN  \A t \in taken : \E e \in levels[t.depth + 1] : e.url = t.url

\* Relative links are resolved against the URL of the document they are in,
\* also when redirections led there.
NothingMisresolved == ~misled => \A t \in taken : t.url # Misresolved

\* A tree loads what it should and nothing else.  Not claimed, because it is not
\* so, of a tree that takes a document from an earlier one by a URL that was
\* redirected: Reuse forgets where the redirection led.
LoadsWhatItShould == Complete /\ AtDepth /\ NothingMisresolved

\* The quota is overrun by no more than the document that reaches it and the
\* robots.txt files that its links take, over all trees.
QuotaBound ==
    opt.quota > 0 => total <= opt.quota + 1 + Cardinality(specs)

\* The queue, the blacklist and the quota, as they are checked.
QueueSound == EnqueuedOnce /\ QuotaBound

\* The robots.txt files of these hosts that were deleted behind the tables' back.
Unlinked(hosts) ==
    {SavedAs(RobotsTxt[h]) : h \in {g \in hosts : /\ Document(RobotsTxt[g]) \notin site.dead
                                                  /\ Temporary(SavedAs(RobotsTxt[g]))}}

\* The tables point to files that are there, whatever was deleted in between;
\* except that a robots.txt may have been deleted.
FilesExist ==
    \A u \in DOMAIN maps.dl_url_file_map :
        maps.dl_url_file_map[u] \in DOMAIN disk \cup Unlinked(specs)

\* Claimed: "in either case, delete the local file" (recur.c 503) and "Register
\* that the file has been deleted" (convert.c 999): the tables never point to
\* a file that is gone.
TablesLeadToFiles ==
    \A u \in DOMAIN maps.dl_url_file_map : maps.dl_url_file_map[u] \in DOMAIN disk

\* Between two pages, only files are left that are acceptable by the name they
\* have, robots.txt among them.
KeepsOnlyWanted ==
    pc \in {"main", "loop"} =>
        IF opt.delete_after THEN disk = EmptyTable
        ELSE \A f \in DOMAIN disk : AcceptableFile(f)

\* Claimed: an HTML file "rejected by -R" that was loaded "just to harvest its
\* hyperlinks" is deleted (recur.c 500-503): none is left whose name was rejected
\* before it got .tmp.
RejectedGo ==
    pc \in {"main", "loop"} =>
        \A u \in HtmlUrls :
            LocalName[u] \in opt.rejected => Tmp[LocalName[u]] \notin DOMAIN disk

\* "assert (file != NULL)" in register_redirection does not fail in a tree, if no
\* robots.txt is redirected.
RobotsStay == \A u \in Urls : Document(RobotsTxt[Host[u]]) = RobotsTxt[Host[u]]
AssertionHolds == RobotsStay => pc # "aborted"

\* Claimed: the same whatever robots.txt leads to (convert.c 994).
RedirectionRegistered == pc # "aborted"

\* The tables and the files, as they are checked.
FilesSound == TypeOK /\ FilesExist /\ KeepsOnlyWanted /\ AssertionHolds

\* Every tree ends: a finite site is loaded in finite time.
Terminates == <>[](pc = "aborted" \/ (pc = "main" /\ starts = <<>>))
=============================================================================
