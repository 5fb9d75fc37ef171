------------------------- MODULE RetrieveTreeProofs -------------------------
(***************************************************************************)
(* What retrieve_tree guarantees for every web, every command line and     *)
(* every sequence of start URLs: no URL is queued twice, the quota holds,  *)
(* and the tables and files stay consistent.  That a tree loads what it    *)
(* should is defined by a fold over the levels of the web and stays with   *)
(* the model checker.                                                      *)
(***************************************************************************)
EXTENDS RetrieveTree, TLAPS, FiniteSetTheorems

\* What is proved in DownloadMapProofs about tables and the functions on them; the
\* command lines and the history of its state machine do not matter for that.
Map == INSTANCE DownloadMapProofs WITH Opts <- {}, led <- {}, asserted <- FALSE

\* Well-typed tables, as a set.
Tables == [dl_file_url_map : Partial(LocalFiles, Urls),
           dl_url_file_map : Partial(Urls, LocalFiles),
           downloaded_html_set : SUBSET LocalFiles,
           downloaded_css_set : SUBSET LocalFiles]

(***************************************************************************)
(* The tables of convert.c: Map's operators are those of RetrieveTree.     *)
(***************************************************************************)
LEMMA SameTables ==
    /\ Map!Tables = Tables
    /\ Map!NoMaps = NoMaps
    /\ Map!EmptyTable = EmptyTable
    /\ \A S, T : Map!Partial(S, T) = Partial(S, T)
    /\ \A t, S, T : Map!IsTable(t, S, T) <=> IsTable(t, S, T)
    /\ \A m : /\ Map!AreTables(m) <=> AreTables(m)
              /\ Map!Owned(m) <=> Owned(m)
    /\ \A t, k, v : Map!Put(t, k, v) = Put(t, k, v)
    /\ \A t, D : Map!Restrict(t, D) = Restrict(t, D)
    /\ \A m, u, f : /\ Map!register_download(m, u, f) = register_download(m, u, f)
                    /\ Map!register_redirection(m, u, f) = register_redirection(m, u, f)
    /\ \A m, f : Map!register_delete_file(m, f) = register_delete_file(m, f)
    /\ \A u, v : Map!match_except_index(u, v) <=> match_except_index(u, v)
<1>1. Map!Tables = Tables /\ \A S, T : Map!Partial(S, T) = Partial(S, T)
  BY DEF Map!Tables, Tables, Map!Partial, Partial
<1>2. Map!NoMaps = NoMaps /\ Map!EmptyTable = EmptyTable
  BY DEF Map!NoMaps, NoMaps, Map!EmptyTable, EmptyTable
<1>3. /\ \A t, S, T : Map!IsTable(t, S, T) <=> IsTable(t, S, T)
      /\ \A m : /\ Map!AreTables(m) <=> AreTables(m)
                /\ Map!Owned(m) <=> Owned(m)
  BY DEF Map!AreTables, AreTables, Map!IsTable, IsTable, Map!Owned, Owned
<1>4. /\ \A t, k, v : Map!Put(t, k, v) = Put(t, k, v)
      /\ \A t, D : Map!Restrict(t, D) = Restrict(t, D)
  BY DEF Put, Map!Put, Restrict, Map!Restrict
<1>5. \A m, u, f :
         /\ Map!register_download(m, u, f) = register_download(m, u, f)
         /\ Map!register_redirection(m, u, f) = register_redirection(m, u, f)
  BY DEF register_download, Map!register_download,
         register_redirection, Map!register_redirection, Put, Map!Put,
         dissociate_urls_from_file, Map!dissociate_urls_from_file,
         match_except_index, Map!match_except_index, Restrict, Map!Restrict
<1>6. \A m, f : Map!register_delete_file(m, f) = register_delete_file(m, f)
  BY DEF register_delete_file, Map!register_delete_file, WithoutKey, Map!WithoutKey,
         dissociate_urls_from_file, Map!dissociate_urls_from_file, Restrict, Map!Restrict
<1>7. \A u, v : Map!match_except_index(u, v) <=> match_except_index(u, v)
  BY DEF match_except_index, Map!match_except_index
<1> QED BY <1>1, <1>2, <1>3, <1>4, <1>5, <1>6, <1>7

\* What DownloadMap assumes of its constants.
LEMMA MapAssumptions ==
    /\ HtmlUrls \subseteq Urls /\ CssUrls \subseteq Urls
    /\ \A o \in {} : /\ o.naming \subseteq Urls \X LocalFiles
                    /\ o.conflict \in {"clobber", "unique", "keep"}
                    /\ o.failures \in BOOLEAN
BY TreeAssumption

\* The facts about tables, in the names of this module.
LEMMA TableFacts ==
    /\ NoMaps \in Tables
    /\ \A S, T : EmptyTable \in Partial(S, T)
    /\ \A m : m \in Tables <=> AreTables(m)
    /\ \A S, T, t :
          /\ t \in Partial(S, T) <=>
                /\ t = [k \in DOMAIN t |-> t[k]]
                /\ DOMAIN t \subseteq S
                /\ \A k \in DOMAIN t : t[k] \in T
          /\ t \in Partial(S, T) <=> IsTable(t, S, T)
    /\ \A S, T : \A t \in Partial(S, T) :
          /\ \A k \in S, v \in T : Put(t, k, v) \in Partial(S, T)
          /\ \A D \in SUBSET DOMAIN t : Restrict(t, D) \in Partial(S, T)
<1> USE VariantsAssumption, MapAssumptions, SameTables
<1>1. NoMaps \in Tables /\ \A S, T : EmptyTable \in Partial(S, T)
  BY Map!EmptyTables
<1>2. \A m : m \in Tables <=> AreTables(m)
  BY Map!TablesAre
<1>3. \A S, T, t :
         /\ t \in Partial(S, T) <=>
               /\ t = [k \in DOMAIN t |-> t[k]]
               /\ DOMAIN t \subseteq S
               /\ \A k \in DOMAIN t : t[k] \in T
         /\ t \in Partial(S, T) <=> IsTable(t, S, T)
  BY Map!PartialIs
<1>4. \A S, T : \A t \in Partial(S, T) : \A k \in S, v \in T : Put(t, k, v) \in Partial(S, T)
  BY Map!PutPartial
<1>5. \A S, T : \A t \in Partial(S, T) :
         \A D \in SUBSET DOMAIN t : Restrict(t, D) \in Partial(S, T)
  BY Map!RestrictPartial
<1> QED BY <1>1, <1>2, <1>3, <1>4, <1>5

(***************************************************************************)
(* The walk: the types of everything but tables and files.                 *)
(***************************************************************************)
PageWith(file) ==
    [url : Urls, depth : Nat, html_allowed : BOOLEAN, css_allowed : BOOLEAN,
     file : {file}, descend : BOOLEAN, is_css : BOOLEAN]

Chosen == \E k \in Cases : site = k.site /\ opt = k.opt

Walk ==
    /\ Chosen
    /\ starts \in Seq(Urls) /\ start \in Urls \cup {"none"}
    /\ queue \in Seq(Entry) /\ blacklist \subseteq Urls
    /\ status \in {"RETROK", "WRONGCODE", "FWRITEERR"}
    /\ total \in Nat /\ IsFiniteSet(specs)
    /\ pc \in {"main", "loop", "reuse", "download", "harvest", "children", "aborted"}
    /\ IF pc \in {"main", "loop"} THEN page = NoPage ELSE page \in PageWith(page.file)
    /\ children \subseteq Link
    /\ taken \subseteq Entry /\ premature \in BOOLEAN /\ misled \in BOOLEAN

\* The web and the options of a run are admissible ones.
LEMMA ChosenOk ==
    ASSUME Chosen
    PROVE  /\ SiteOk(site) /\ OptionsOk(opt)
           /\ opt.quota \in Nat
           /\ \A u \in Urls : Document(u) \in Urls
<1>1. SiteOk(site) /\ OptionsOk(opt)
  BY TreeAssumption DEF Chosen
<1> QED BY <1>1 DEF SiteOk, OptionsOk, Document

\* A blacklist of URLs stays one, and only grows.
LEMMA Blacklisted ==
    ASSUME NEW list \in SUBSET Urls, NEW url \in Urls
    PROVE  /\ blacklist_add(list, url) \in SUBSET Urls
           /\ list \subseteq blacklist_add(list, url)
           /\ unescape[url] \in blacklist_add(list, url)
           /\ \A reason : /\ Judged(list, reason, url) \in SUBSET Urls
                          /\ list \subseteq Judged(list, reason, url)
BY TreeAssumption DEF blacklist_add, Judged

\* What a file is called, and what that says about it.
LEMMA FilesAre ==
    ASSUME Chosen, NEW url \in Urls
    PROVE  /\ Document(url) \in Urls /\ SavedAs(url) \in LocalFiles
           /\ ~Temporary(SavedAs(url)) =>
                 ~opt.delete_after /\ AcceptableFile(SavedAs(url))
<1>1. PICK name \in Urls : SavedAs(url) = FileOf(opt, name) /\ Document(url) \in Urls
  BY ChosenOk DEF SavedAs
<1>2. PICK local \in DOMAIN Tmp : local = LocalName[name]
  BY TreeAssumption
<1>3. Tmp[local] \in LocalFiles /\ local \in LocalFiles
  BY TreeAssumption
<1>4. Tmp[local] \in Range(Tmp)
  BY DEF Range
<1>5. CASE opt.delete_after \/ local \in opt.rejected
  <2>1. SavedAs(url) = Tmp[local]
    BY <1>1, <1>2, <1>5 DEF FileOf
  <2> QED BY <1>1, <1>3, <1>4, <2>1 DEF Temporary
<1>6. CASE ~(opt.delete_after \/ local \in opt.rejected)
  <2>1. SavedAs(url) = local
    BY <1>1, <1>2, <1>6 DEF FileOf
  <2> QED BY <1>1, <1>3, <1>6, <2>1 DEF AcceptableFile
<1> QED BY <1>5, <1>6

\* What retrieve_url does to the tables m, and to pc.
Retrieves(url, m, p, m2, p2) ==
    LET saved == register_download(m, Document(url), SavedAs(url)) IN
    \/ /\ Unregistered(saved, url, Document(url))
       /\ m2 = saved /\ p2 = "aborted"
    \/ /\ ~Unregistered(saved, url, Document(url))
       /\ m2 = Registered(saved, url, Document(url), SavedAs(url)) /\ p2 = p

\* What the test of robots.txt does to tables, disk, total, specs and pc.
Consults(url, m, d, n, hosts, p, m2, d2, n2, hosts2, p2) ==
    LET robots == RobotsTxt[Host[url]]
        there == Put(d, SavedAs(robots), Document(robots))
    IN  \/ m2 = m /\ d2 = d /\ n2 = n /\ hosts2 = hosts /\ p2 = p
        \/ /\ Host[url] \notin hosts /\ Document(robots) \in site.dead
           /\ m2 = m /\ d2 = d /\ n2 = n /\ hosts2 = hosts \cup {Host[url]} /\ p2 = p
        \/ /\ Host[url] \notin hosts /\ Document(robots) \notin site.dead
           /\ Retrieves(robots, m, p, m2, p2)
           /\ n2 = n + 1 /\ hosts2 = hosts \cup {Host[url]}
           /\ IF p2 # "aborted" /\ Temporary(SavedAs(robots))
              THEN d2 = WithoutKey(there, SavedAs(robots)) ELSE d2 = there

LEMMA RetrievedIs ==
    ASSUME NEW url, NEW m, NEW d, NEW n, NEW hosts, NEW p
    PROVE  \E m2, p2 :
              /\ Retrieved(url, [maps |-> m, disk |-> d, total |-> n, specs |-> hosts,
                                 pc |-> p])
                   = [maps |-> m2, disk |-> Put(d, SavedAs(url), Document(url)),
                      total |-> n + 1, specs |-> hosts, pc |-> p2]
              /\ Retrieves(url, m, p, m2, p2)
<1> DEFINE t == [maps |-> m, disk |-> d, total |-> n, specs |-> hosts, pc |-> p]
           saved == register_download(m, Document(url), SavedAs(url))
<1>1. PICK doc, file : doc = Document(url) /\ file = SavedAs(url)
  OBVIOUS
<1>2. CASE Unregistered(saved, url, Document(url))
  <2>1. Retrieved(url, t)
          = [maps |-> saved, disk |-> Put(d, file, doc), total |-> n + 1,
             specs |-> hosts, pc |-> "aborted"]
    BY <1>1, <1>2 DEF Retrieved
  <2> QED BY <1>1, <1>2, <2>1 DEF Retrieves
<1>3. CASE ~Unregistered(saved, url, Document(url))
  <2>1. Retrieved(url, t)
          = [maps |-> Registered(saved, url, doc, file), disk |-> Put(d, file, doc),
             total |-> n + 1, specs |-> hosts, pc |-> p]
    BY <1>1, <1>3 DEF Retrieved
  <2> QED BY <1>1, <1>3, <2>1 DEF Retrieves
<1> QED BY <1>2, <1>3

LEMMA ConsultedIs ==
    ASSUME NEW reason, NEW url, NEW m, NEW d, NEW n, NEW hosts, NEW p
    PROVE  \E m2, d2, n2, hosts2, p2 :
              /\ ConsultRobots(reason, url, [maps |-> m, disk |-> d, total |-> n,
                                             specs |-> hosts, pc |-> p])
                   = [maps |-> m2, disk |-> d2, total |-> n2, specs |-> hosts2, pc |-> p2]
              /\ Consults(url, m, d, n, hosts, p, m2, d2, n2, hosts2, p2)
<1>1. PICK t : t = [maps |-> m, disk |-> d, total |-> n, specs |-> hosts, pc |-> p]
  OBVIOUS
<1>2. PICK robots, host, known :
         /\ robots = RobotsTxt[Host[url]] /\ host = Host[url]
         /\ known = [t EXCEPT !.specs = @ \cup {host}]
  OBVIOUS
<1>3. /\ known = [maps |-> m, disk |-> d, total |-> n, specs |-> hosts \cup {host},
                  pc |-> p]
      /\ t.specs = hosts /\ t.pc = p
  BY <1>1, <1>2
<1>4. PICK got, m2, p2 :
         /\ got = Retrieved(robots, known)
         /\ got = [maps |-> m2, disk |-> Put(d, SavedAs(robots), Document(robots)),
                   total |-> n + 1, specs |-> hosts \cup {host}, pc |-> p2]
         /\ Retrieves(robots, m, p, m2, p2)
  <2>1. \E m2, p2 :
           /\ Retrieved(robots, [maps |-> m, disk |-> d, total |-> n,
                                 specs |-> hosts \cup {host}, pc |-> p])
                = [maps |-> m2, disk |-> Put(d, SavedAs(robots), Document(robots)),
                   total |-> n + 1, specs |-> hosts \cup {host}, pc |-> p2]
           /\ Retrieves(robots, m, p, m2, p2)
    BY RetrievedIs
  <2> QED BY <1>3, <2>1
<1>5. CASE \/ ~opt.use_robots \/ reason \notin {"ROBOTS", "SUCCESS"}
           \/ host \in hosts \/ p = "aborted"
  <2>1. ConsultRobots(reason, url, t) = t
    BY <1>2, <1>3, <1>5 DEF ConsultRobots
  <2> QED BY <1>1, <2>1 DEF Consults
<1>6. CASE /\ ~(\/ ~opt.use_robots \/ reason \notin {"ROBOTS", "SUCCESS"}
                \/ host \in hosts \/ p = "aborted")
           /\ Document(robots) \in site.dead
  <2>1. ConsultRobots(reason, url, t) = known
    BY <1>2, <1>3, <1>6 DEF ConsultRobots
  <2> QED BY <1>1, <1>2, <1>3, <1>6, <2>1 DEF Consults
<1>7. CASE /\ ~(\/ ~opt.use_robots \/ reason \notin {"ROBOTS", "SUCCESS"}
                \/ host \in hosts \/ p = "aborted")
           /\ Document(robots) \notin site.dead
  <2> DEFINE there == Put(d, SavedAs(robots), Document(robots))
             goes == p2 # "aborted" /\ Temporary(SavedAs(robots))
             d2 == IF goes THEN WithoutKey(there, SavedAs(robots)) ELSE there
  <2>1. ConsultRobots(reason, url, t)
          = IF goes THEN [got EXCEPT !.disk = WithoutKey(@, SavedAs(robots))] ELSE got
    <3>1. got.pc = p2
      BY <1>4
    <3> QED BY <1>2, <1>3, <1>4, <1>7, <3>1 DEF ConsultRobots
  <2>2. ConsultRobots(reason, url, t)
          = [maps |-> m2, disk |-> d2, total |-> n + 1, specs |-> hosts \cup {host},
             pc |-> p2]
    BY <1>4, <2>1
  <2>3. Consults(url, m, d, n, hosts, p, m2, d2, n + 1, hosts \cup {host}, p2)
    BY <1>2, <1>4, <1>7 DEF Consults
  <2> HIDE DEF d2
  <2> QED BY <1>1, <2>2, <2>3
<1> QED BY <1>5, <1>6, <1>7

\* A robots.txt is loaded once for its host.
LEMMA RobotsOnce ==
    ASSUME NEW url, NEW m, NEW d, NEW n \in Nat, NEW hosts, IsFiniteSet(hosts), NEW p,
           NEW m2, NEW d2, NEW n2, NEW hosts2, NEW p2,
           Consults(url, m, d, n, hosts, p, m2, d2, n2, hosts2, p2)
    PROVE  /\ IsFiniteSet(hosts2) /\ n2 \in Nat /\ p2 \in {p, "aborted"}
           /\ Cardinality(hosts) \in Nat /\ Cardinality(hosts2) \in Nat
           /\ n2 + Cardinality(hosts) <= n + Cardinality(hosts2)
<1>1. Cardinality(hosts) \in Nat
  BY FS_CardinalityType
<1>2. p2 \in {p, "aborted"}
  BY DEF Consults, Retrieves
<1>3. CASE n2 = n /\ hosts2 = hosts
  BY <1>1, <1>2, <1>3
<1>4. CASE /\ n2 \in {n, n + 1} /\ Host[url] \notin hosts
           /\ hosts2 = hosts \cup {Host[url]}
  <2>1. /\ IsFiniteSet(hosts2)
        /\ Cardinality(hosts2) = Cardinality(hosts) + 1
    BY <1>4, FS_AddElement
  <2> QED BY <1>1, <1>2, <1>4, <2>1
<1> QED BY <1>3, <1>4 DEF Consults

\* What Download and NextChild change besides queue and children.
LEMMA DownloadIs ==
    ASSUME Download
    PROVE  \E reason, a, b, m, p :
              /\ Retrieves(page.url, maps, "harvest", m, p)
              /\ Consults(Document(page.url), m,
                          Put(disk, SavedAs(page.url), Document(page.url)), total + 1,
                          specs, p, maps', disk', total', specs', pc')
              /\ page' = [page EXCEPT !.url = Document(page.url),
                                      !.file = SavedAs(page.url), !.is_css = a,
                                      !.descend = b]
              /\ b \in BOOLEAN /\ a = (Document(page.url) \in CssUrls \/ page.css_allowed)
              /\ blacklist' \in {descend_redirect(reason, Document(page.url)), blacklist}
<1> DEFINE doc == Document(page.url)
           css == doc \in CssUrls \/ page.css_allowed
           html == page.html_allowed /\ doc \in HtmlUrls
           judge == page.url \in DOMAIN site.led /\ (css \/ html)
           reason == IF judge THEN download_child(blacklist, NewLink(doc),
                                                  page.url, page.depth)
                     ELSE "LIST"
           go == (css \/ html) /\ reason \in {"SUCCESS", "LIST"}
           t == [Books EXCEPT !.pc = "harvest"]
<1>1. /\ Become(ConsultRobots(reason, doc, Retrieved(page.url, t)))
      /\ blacklist' = IF judge THEN descend_redirect(reason, doc) ELSE blacklist
      /\ page' = [page EXCEPT !.url = doc, !.file = SavedAs(page.url), !.is_css = css,
                              !.descend = go]
  BY DEF Download
<1>2. t = [maps |-> maps, disk |-> disk, total |-> total, specs |-> specs,
           pc |-> "harvest"]
  BY DEF Books
<1>3. go \in BOOLEAN
  OBVIOUS
<1> HIDE DEF doc, css, judge, reason, go, t
<1>4. PICK m, p :
         /\ Retrieved(page.url, t)
              = [maps |-> m, disk |-> Put(disk, SavedAs(page.url), Document(page.url)),
                 total |-> total + 1, specs |-> specs, pc |-> p]
         /\ Retrieves(page.url, maps, "harvest", m, p)
  BY <1>2, RetrievedIs
<1>5. PICK m2, d2, n2, hosts2, p2 :
         /\ ConsultRobots(reason, doc, Retrieved(page.url, t))
              = [maps |-> m2, disk |-> d2, total |-> n2, specs |-> hosts2, pc |-> p2]
         /\ Consults(doc, m, Put(disk, SavedAs(page.url), Document(page.url)), total + 1,
                     specs, p, m2, d2, n2, hosts2, p2)
  BY <1>4, ConsultedIs
<1>6. maps' = m2 /\ disk' = d2 /\ total' = n2 /\ specs' = hosts2 /\ pc' = p2
  BY <1>1, <1>5 DEF Become
<1>7. blacklist' \in {descend_redirect(reason, doc), blacklist}
  BY <1>1
<1> QED BY <1>1, <1>3, <1>4, <1>5, <1>6, <1>7 DEF doc, css

LEMMA ChildIs ==
    ASSUME NEW link, Child(link)
    PROVE  \/ UNCHANGED <<maps, disk, total, specs, pc>>
           \/ Consults(link.to, maps, disk, total, specs, pc,
                       maps', disk', total', specs', pc')
<1>1. CASE \E reason : Become(ConsultRobots(reason, link.to, Books))
  <2>1. PICK reason : Become(ConsultRobots(reason, link.to, Books))
    BY <1>1
  <2>2. Books = [maps |-> maps, disk |-> disk, total |-> total, specs |-> specs, pc |-> pc]
    BY DEF Books
  <2>3. PICK m2, d2, n2, hosts2, p2 :
           /\ ConsultRobots(reason, link.to, Books)
                = [maps |-> m2, disk |-> d2, total |-> n2, specs |-> hosts2, pc |-> p2]
           /\ Consults(link.to, maps, disk, total, specs, pc, m2, d2, n2, hosts2, p2)
    BY <2>2, ConsultedIs
  <2>4. maps' = m2 /\ disk' = d2 /\ total' = n2 /\ specs' = hosts2 /\ pc' = p2
    BY <2>1, <2>3 DEF Become
  <2> QED BY <2>3, <2>4
<1>2. CASE UNCHANGED <<maps, disk, total, specs, pc>>
  BY <1>2
<1> QED BY <1>1, <1>2 DEF Child

\* The links of a document are links.
LEMMA LinksAre ==
    ASSUME Chosen, NEW doc, NEW url, NEW is_css
    PROVE  LinksIn(doc, url, is_css) \subseteq Link
<1> SUFFICES ASSUME NEW x \in LinksIn(doc, url, is_css)
             PROVE  x \in Link
  OBVIOUS
<1>1. doc \in Urls
  BY TreeAssumption DEF LinksIn
<1>2. site.links[doc] \subseteq Link
  BY <1>1, ChosenOk DEF SiteOk
<1>3. PICK l \in site.links[doc] :
         x = [l EXCEPT !.to = IF l.relative /\ Dir[url] # Dir[doc]
                              THEN Misresolved ELSE @]
  BY DEF LinksIn
<1>4. l \in Link /\ Misresolved \in Urls
  BY <1>2, TreeAssumption
<1>5. PICK t \in Urls : x = [l EXCEPT !.to = t]
  BY <1>3, <1>4 DEF Link
<1> QED BY <1>4, <1>5, Zenon DEF Link

\* A run starts well-typed.
LEMMA WalkInit == Init => Walk
<1> SUFFICES ASSUME Init PROVE Walk
  OBVIOUS
<1>1. PICK k \in Cases : site = k.site /\ opt = k.opt /\ starts = k.starts
  BY DEF Init
<1>2. Chosen /\ starts \in Seq(Urls)
  BY <1>1, TreeAssumption DEF Chosen
<1>3. IsFiniteSet(specs)
  BY FS_EmptySet DEF Init
<1>4. queue \in Seq(Entry)
  BY DEF Init
<1> QED BY <1>2, <1>3, <1>4 DEF Init, Walk

\* The steps of the loop between pages.
LEMMA WalkLoop ==
    ASSUME Walk, StartTree \/ EndTree \/ url_dequeue
    PROVE  Walk'
<1>1. CASE StartTree
  <2>1. Head(starts) \in Urls /\ Tail(starts) \in Seq(Urls)
    BY <1>1 DEF StartTree, Walk
  <2> DEFINE first == [url |-> Head(starts), depth |-> 0,
                       html_allowed |-> TRUE, css_allowed |-> FALSE]
  <2>2. first \in Entry
    BY <2>1 DEF Entry
  <2> HIDE DEF first
  <2>3. <<first>> \in Seq(Entry)
    BY <2>2
  <2>4. queue' = <<first>>
    BY <1>1 DEF StartTree, first
  <2>5. blacklist' \subseteq Urls
    BY <1>1, <2>1, Blacklisted DEF StartTree
  <2> QED BY <1>1, <2>1, <2>3, <2>4, <2>5 DEF StartTree, Walk, Chosen
<1>2. CASE EndTree
  <2>1. queue' \in Seq(Entry) /\ blacklist' \subseteq Urls
    BY <1>2 DEF EndTree
  <2> QED BY <1>2, <2>1 DEF EndTree, Walk, Chosen
<1>3. CASE url_dequeue
  <2>1. Head(queue) \in Entry /\ Tail(queue) \in Seq(Entry)
    BY <1>3 DEF url_dequeue, Walk
  <2>2. page' \in PageWith(page'.file)
    <3> DEFINE qel == Head(queue)
    <3>1. page' = [url |-> qel.url, depth |-> qel.depth, file |-> NoFile,
                   html_allowed |-> qel.html_allowed,
                   css_allowed |-> qel.css_allowed,
                   descend |-> FALSE, is_css |-> FALSE]
      BY <1>3 DEF url_dequeue
    <3>2. qel \in Entry
      BY <2>1
    <3> HIDE DEF qel
    <3>3. /\ qel.url \in Urls /\ qel.depth \in Nat
          /\ qel.html_allowed \in BOOLEAN /\ qel.css_allowed \in BOOLEAN
      BY <3>2, Zenon DEF Entry
    <3>4. page'.file = NoFile
      BY <3>1
    <3> QED BY <3>1, <3>3, <3>4, Zenon DEF PageWith
  <2>3. taken' \subseteq Entry /\ pc' \in {"reuse", "download"}
    BY <1>3, <2>1 DEF url_dequeue, Walk
  <2> QED BY <1>3, <2>1, <2>2, <2>3 DEF url_dequeue, Walk, Chosen
<1> QED BY <1>1, <1>2, <1>3

\* A page is found, loaded, or not to be had.
LEMMA WalkPage ==
    ASSUME Walk, Reuse \/ Download \/ DownloadFails
    PROVE  Walk'
<1>1. CASE Reuse
  <2>1. page \in PageWith(page.file)
    BY <1>1 DEF Reuse, Walk
  <2> DEFINE file == maps.dl_url_file_map[page.url]
             css == page.css_allowed /\ file \in maps.downloaded_css_set
             html == page.html_allowed /\ file \in maps.downloaded_html_set
  <2>2. page' = [page EXCEPT !.file = file, !.descend = css \/ html, !.is_css = css]
    BY <1>1 DEF Reuse
  <2>3. css \in BOOLEAN /\ (css \/ html) \in BOOLEAN
    BY <2>1, Zenon DEF PageWith
  <2>4. page' \in PageWith(page'.file)
    <3>1. PICK a, b \in BOOLEAN :
             page' = [page EXCEPT !.file = file, !.descend = a, !.is_css = b]
      BY <2>2, <2>3, Zenon
    <3> HIDE DEF file
    <3>2. page'.file = file
      BY <2>1, <3>1 DEF PageWith
    <3> QED BY <2>1, <3>1, <3>2, Zenon DEF PageWith
  <2>5. misled' \in BOOLEAN
    BY <1>1, Zenon DEF Reuse, Walk
  <2> QED BY <1>1, <2>4, <2>5 DEF Reuse, Walk, Chosen
<1>2. CASE Download
  <2>1. page \in PageWith(page.file) /\ page.url \in Urls
    BY <1>2 DEF Download, Walk, PageWith
  <2> DEFINE doc == Document(page.url)
  <2>2. doc \in Urls
    BY <2>1, ChosenOk DEF Walk
  <2>3. PICK reason, a, b, m, p :
          /\ Retrieves(page.url, maps, "harvest", m, p)
          /\ Consults(doc, m, Put(disk, SavedAs(page.url), Document(page.url)), total + 1,
                      specs, p, maps', disk', total', specs', pc')
          /\ page' = [page EXCEPT !.url = doc, !.file = SavedAs(page.url), !.is_css = a,
                                  !.descend = b]
          /\ b \in BOOLEAN /\ a = (doc \in CssUrls \/ page.css_allowed)
          /\ blacklist' \in {descend_redirect(reason, doc), blacklist}
    BY <1>2, DownloadIs
  <2> HIDE DEF doc
  <2>4. page' \in PageWith(page'.file)
    <3>1. a \in BOOLEAN
      BY <2>1, <2>3, Zenon DEF PageWith
    <3>2. page'.file = SavedAs(page.url)
      BY <2>1, <2>3 DEF PageWith
    <3> QED BY <2>1, <2>2, <2>3, <3>1, <3>2, Zenon DEF PageWith
  <2>5. IsFiniteSet(specs') /\ total' \in Nat /\ pc' \in {"harvest", "aborted"}
    <3>1. p \in {"harvest", "aborted"}
      BY <2>3 DEF Retrieves
    <3>2. total + 1 \in Nat /\ IsFiniteSet(specs)
      BY DEF Walk
    <3>3. IsFiniteSet(specs') /\ total' \in Nat /\ pc' \in {p, "aborted"}
      BY <2>3, <3>2, RobotsOnce
    <3> QED BY <3>1, <3>3
  <2>6. blacklist' \subseteq Urls
    <3>1. descend_redirect(reason, doc) \in SUBSET Urls
      BY <2>1, <2>2, Blacklisted DEF descend_redirect, Walk
    <3> QED BY <2>3, <3>1 DEF Walk
  <2>7. /\ UNCHANGED <<site, opt, starts, start, queue, children, taken, premature,
                       misled>>
        /\ status' = "RETROK"
    BY <1>2 DEF Download
  <2> QED BY <2>4, <2>5, <2>6, <2>7 DEF Walk, Chosen
<1>3. CASE DownloadFails
  BY <1>3 DEF DownloadFails, Walk, Chosen
<1> QED BY <1>1, <1>2, <1>3

\* A page is parsed, its links are looked at, and it is done with.
LEMMA WalkLinks ==
    ASSUME Walk, Harvest \/ NextChild \/ FinishPage
    PROVE  Walk'
<1>1. CASE Harvest
  <2>1. children' \subseteq Link
    BY <1>1, LinksAre DEF Harvest, Walk
  <2>2. misled' \in BOOLEAN
    BY <1>1, Zenon DEF Harvest, Walk
  <2> QED BY <1>1, <2>1, <2>2 DEF Harvest, Walk, Chosen
<1>2. CASE NextChild
  <2>1. PICK link \in children : Child(link)
    BY <1>2 DEF NextChild
  <2>2. link \in Link /\ page \in PageWith(page.file)
    BY <1>2 DEF NextChild, Walk
  <2>3. /\ link.to \in Urls /\ link.html \in BOOLEAN /\ link.css \in BOOLEAN
        /\ page.depth + 1 \in Nat
    <3>1. page.depth \in Nat
      BY <2>2 DEF PageWith
    <3> QED BY <2>2, <3>1 DEF Link
  <2> DEFINE reason == download_child(blacklist, link, page.url, page.depth)
             new == [url |-> link.to, depth |-> page.depth + 1,
                     html_allowed |-> link.html, css_allowed |-> link.css]
  <2>4. new \in Entry
    BY <2>3, Zenon DEF Entry
  <2>5. /\ queue' = queue \/ queue' = Append(queue, new)
        /\ \/ blacklist' = blacklist
           \/ blacklist' = blacklist_add(blacklist, link.to)
           \/ blacklist' = Judged(blacklist, reason, link.to)
    BY <2>1 DEF Child
  <2> HIDE DEF reason, new
  <2>6. queue' \in Seq(Entry)
    <3>1. queue \in Seq(Entry)
      BY DEF Walk
    <3>2. Append(queue, new) \in Seq(Entry)
      BY <2>4, <3>1
    <3> QED BY <2>5, <3>1, <3>2
  <2>7. blacklist' \subseteq Urls
    <3>1. /\ blacklist_add(blacklist, link.to) \in SUBSET Urls
          /\ Judged(blacklist, reason, link.to) \in SUBSET Urls
      BY <2>3, Blacklisted DEF Walk
    <3>2. blacklist \in SUBSET Urls
      BY DEF Walk
    <3> QED BY <2>5, <3>1, <3>2
  <2>8. IsFiniteSet(specs') /\ total' \in Nat /\ pc' \in {"children", "aborted"}
    <3>1. IsFiniteSet(specs) /\ total \in Nat /\ pc = "children"
      BY <1>2 DEF Walk, NextChild
    <3>2. CASE UNCHANGED <<maps, disk, total, specs, pc>>
      BY <3>1, <3>2
    <3>3. CASE Consults(link.to, maps, disk, total, specs, pc,
                        maps', disk', total', specs', pc')
      <4>1. IsFiniteSet(specs') /\ total' \in Nat /\ pc' \in {pc, "aborted"}
        BY <3>1, <3>3, RobotsOnce
      <4> QED BY <3>1, <4>1
    <3> QED BY <2>1, <3>2, <3>3, ChildIs
  <2>9. /\ UNCHANGED <<site, opt, starts, start, status, page, taken, premature,
                       misled>>
        /\ children' \subseteq children /\ pc = "children"
    BY <1>2, <2>1 DEF NextChild, Child
  <2> QED BY <2>6, <2>7, <2>8, <2>9 DEF Walk, Chosen
<1>3. CASE FinishPage
  BY <1>3 DEF FinishPage, Walk, Chosen
<1> QED BY <1>1, <1>2, <1>3

\* Every step keeps the types.
LEMMA WalkStep == Walk /\ [Next]_vars => Walk'
<1> SUFFICES ASSUME Walk, [Next]_vars PROVE Walk'
  OBVIOUS
<1>1. CASE UNCHANGED vars
  BY <1>1 DEF vars, Walk, Chosen
<1>2. CASE Next
  BY <1>2, WalkLoop, WalkPage, WalkLinks DEF Next
<1> QED BY <1>1, <1>2

(***************************************************************************)
(* The queue: what is queued or has been loaded is blacklisted, so that    *)
(* nothing is queued twice.                                                *)
(***************************************************************************)
QueueInv ==
    /\ EnqueuedOnce
    /\ pc # "main" =>
          /\ \A n \in DOMAIN queue : unescape[queue[n].url] \in blacklist
          /\ \A t \in taken : unescape[t.url] \in blacklist

(***************************************************************************)
(* The quota: it has not been reached when a page is taken from the queue, *)
(* and from there on only robots.txt files and one document are added.     *)
(***************************************************************************)
QuotaInv ==
    opt.quota > 0 =>
        /\ total <= opt.quota + 1 + Cardinality(specs)
        /\ pc \in {"reuse", "download"} => total <= opt.quota + Cardinality(specs)

\* Nothing is added to the queue, and nothing leaves the blacklist.
LEMMA QueueKept ==
    ASSUME QueueInv, UNCHANGED <<queue, taken>>, blacklist \subseteq blacklist',
           pc # "main"
    PROVE  QueueInv'
<1>1. EnqueuedOnce'
  BY DEF QueueInv, EnqueuedOnce
<1>2. /\ \A n \in DOMAIN queue : unescape[queue[n].url] \in blacklist'
      /\ \A t \in taken : unescape[t.url] \in blacklist'
  BY DEF QueueInv
<1> QED BY <1>1, <1>2 DEF QueueInv

\* The loop: the tree starts with one URL, and URLs are taken from the front.
LEMMA QueueLoop ==
    ASSUME Walk, QueueInv, StartTree \/ EndTree \/ url_dequeue
    PROVE  QueueInv'
<1>1. CASE StartTree
  <2>1. /\ Head(starts) \in Urls
        /\ queue' = <<[url |-> Head(starts), depth |-> 0,
                       html_allowed |-> TRUE, css_allowed |-> FALSE]>>
        /\ blacklist' = blacklist_add({}, Head(starts))
        /\ taken' = {}
    BY <1>1 DEF StartTree, Walk
  <2>2. /\ DOMAIN queue' = {1} /\ queue'[1].url = Head(starts)
        /\ unescape[Head(starts)] \in blacklist'
    BY <2>1 DEF blacklist_add
  <2> QED BY <2>1, <2>2 DEF QueueInv, EnqueuedOnce
<1>2. CASE EndTree
  <2>1. queue' = <<>> /\ taken' = taken /\ pc' = "main"
    BY <1>2 DEF EndTree
  <2>2. DOMAIN queue' = {}
    BY <2>1
  <2> QED BY <2>1, <2>2 DEF QueueInv, EnqueuedOnce
<1>3. CASE url_dequeue
  <2>1. /\ queue \in Seq(Entry) /\ queue # <<>>
        /\ queue' = Tail(queue) /\ taken' = taken \cup {Head(queue)}
        /\ blacklist' = blacklist /\ pc # "main"
    BY <1>3 DEF url_dequeue, Walk
  <2>2. /\ 1 \in DOMAIN queue /\ Head(queue) = queue[1]
        /\ DOMAIN queue \subseteq Int
        /\ \A n \in DOMAIN queue' : /\ n + 1 \in DOMAIN queue /\ n + 1 # 1
                                    /\ queue'[n] = queue[n + 1]
    BY <2>1
  <2>3. \A n \in DOMAIN queue' : n \in Int
    BY <2>1
  <2>4. EnqueuedOnce /\ \A n \in DOMAIN queue : unescape[queue[n].url] \in blacklist
    BY <2>1 DEF QueueInv
  <2>5. \A n, m \in DOMAIN queue' :
           unescape[queue'[n].url] = unescape[queue'[m].url] => n = m
    BY <2>2, <2>3, <2>4 DEF EnqueuedOnce
  <2>6. \A n \in DOMAIN queue', t \in taken' :
           unescape[queue'[n].url] # unescape[t.url]
    BY <2>1, <2>2, <2>4 DEF EnqueuedOnce
  <2>7. \A t, v \in taken' : unescape[t.url] = unescape[v.url] => t = v
    BY <2>1, <2>2, <2>4 DEF EnqueuedOnce
  <2>8. EnqueuedOnce'
    BY <2>5, <2>6, <2>7 DEF EnqueuedOnce
  <2>9. /\ \A n \in DOMAIN queue' : unescape[queue'[n].url] \in blacklist'
        /\ \A t \in taken' : unescape[t.url] \in blacklist'
    BY <2>1, <2>2 DEF QueueInv
  <2> QED BY <2>8, <2>9 DEF QueueInv
<1> QED BY <1>1, <1>2, <1>3

\* A link is queued only if it is not blacklisted, and then it is.
LEMMA QueueChild ==
    ASSUME Walk, QueueInv, NextChild
    PROVE  QueueInv'
<1>1. PICK link \in children : Child(link)
  BY DEF NextChild
<1>2. /\ link.to \in Urls /\ queue \in Seq(Entry) /\ blacklist \in SUBSET Urls
      /\ taken' = taken /\ pc # "main"
  BY DEF NextChild, Walk, Link
<1> DEFINE reason == download_child(blacklist, link, page.url, page.depth)
           new == [url |-> link.to, depth |-> page.depth + 1,
                   html_allowed |-> link.html, css_allowed |-> link.css]
<1>3. \/ queue' = queue /\ blacklist' \in {blacklist, Judged(blacklist, reason, link.to)}
      \/ /\ reason = "SUCCESS"
         /\ queue' = Append(queue, new)
         /\ blacklist' = blacklist_add(blacklist, link.to)
  BY <1>1 DEF Child
<1>4. reason = "SUCCESS" => unescape[link.to] \notin blacklist
  BY DEF download_child, blacklist_contains
<1> HIDE DEF reason
<1>5. CASE queue' = queue /\ blacklist' \in {blacklist, Judged(blacklist, reason, link.to)}
  <2>1. blacklist \subseteq Judged(blacklist, reason, link.to)
    BY <1>2, Blacklisted
  <2> QED BY <1>2, <1>5, <2>1, QueueKept
<1>6. CASE /\ reason = "SUCCESS"
           /\ queue' = Append(queue, new)
           /\ blacklist' = blacklist_add(blacklist, link.to)
  <2>1. /\ unescape[link.to] \notin blacklist /\ unescape[link.to] \in blacklist'
        /\ blacklist \subseteq blacklist'
    BY <1>2, <1>4, <1>6, Blacklisted
  <2>2. new.url = link.to
    OBVIOUS
  <2> HIDE DEF new
  <2>3. PICK last : last \in Nat /\ last \notin DOMAIN queue
                    /\ DOMAIN queue' = DOMAIN queue \cup {last}
                    /\ queue'[last] = new
                    /\ \A n \in DOMAIN queue : queue'[n] = queue[n]
    <3>1. /\ Len(queue) + 1 \in Nat /\ Len(queue) + 1 \notin DOMAIN queue
          /\ DOMAIN queue' = DOMAIN queue \cup {Len(queue) + 1}
          /\ queue'[Len(queue) + 1] = new
          /\ \A n \in DOMAIN queue : queue'[n] = queue[n]
      BY <1>2, <1>6
    <3> QED BY <3>1
  <2>4. /\ EnqueuedOnce
        /\ \A n \in DOMAIN queue : unescape[queue[n].url] \in blacklist
        /\ \A t \in taken : unescape[t.url] \in blacklist
    BY <1>2 DEF QueueInv
  <2>5. EnqueuedOnce'
    BY <1>2, <2>1, <2>2, <2>3, <2>4 DEF EnqueuedOnce
  <2>6. /\ \A n \in DOMAIN queue' : unescape[queue'[n].url] \in blacklist'
        /\ \A t \in taken' : unescape[t.url] \in blacklist'
    BY <1>2, <2>1, <2>2, <2>3, <2>4
  <2> QED BY <2>5, <2>6 DEF QueueInv
<1> QED BY <1>3, <1>5, <1>6

\* Every step keeps queue and blacklist in line.
LEMMA QueueStep == Walk /\ QueueInv /\ [Next]_vars => QueueInv'
<1> SUFFICES ASSUME Walk, QueueInv, [Next]_vars PROVE QueueInv'
  OBVIOUS
<1>1. CASE UNCHANGED vars
  BY <1>1 DEF vars, QueueInv, EnqueuedOnce
<1>2. CASE StartTree \/ EndTree \/ url_dequeue
  BY <1>2, QueueLoop
<1>3. CASE Download
  <2>1. page.url \in Urls /\ blacklist \in SUBSET Urls
    BY <1>3 DEF Download, Walk, PageWith
  <2>2. PICK doc, reason :
           doc \in Urls /\ blacklist' \in {descend_redirect(reason, doc), blacklist}
    <3> DEFINE doc == Document(page.url)
    <3>1. \E reason : blacklist' \in {descend_redirect(reason, doc), blacklist}
      BY <1>3, DownloadIs
    <3>2. doc \in Urls
      BY <2>1, ChosenOk DEF Walk
    <3> QED BY <3>1, <3>2
  <2>3. blacklist \subseteq descend_redirect(reason, doc)
    <3>1. /\ blacklist_add(blacklist, doc) \in SUBSET Urls
          /\ blacklist \subseteq blacklist_add(blacklist, doc)
          /\ blacklist \subseteq Judged(blacklist, reason, doc)
      BY <2>1, <2>2, Blacklisted
    <3>2. blacklist_add(blacklist, doc)
             \subseteq blacklist_add(blacklist_add(blacklist, doc), page.url)
      BY <2>1, <3>1, Blacklisted
    <3> QED BY <3>1, <3>2 DEF descend_redirect
  <2> QED BY <1>3, <2>2, <2>3, QueueKept DEF Download
<1>4. CASE NextChild
  BY <1>4, QueueChild
<1>5. CASE Reuse \/ DownloadFails \/ Harvest \/ FinishPage
  BY <1>5, QueueKept DEF Reuse, DownloadFails, Harvest, FinishPage
<1> QED BY <1>1, <1>2, <1>3, <1>4, <1>5 DEF Next

\* The web and the options of a run do not change.
LEMMA OneCase == [Next]_vars => UNCHANGED <<site, opt>>
<1>1. UNCHANGED vars => UNCHANGED <<site, opt>>
  BY DEF vars
<1>2. StartTree \/ EndTree \/ url_dequeue => UNCHANGED <<site, opt>>
  BY DEF StartTree, EndTree, url_dequeue
<1>3. Reuse \/ DownloadFails \/ Harvest \/ NextChild => UNCHANGED <<site, opt>>
  BY DEF Reuse, DownloadFails, Harvest, NextChild
<1>4. Download => UNCHANGED <<site, opt>>
  BY DEF Download
<1>5. FinishPage => UNCHANGED <<site, opt>>
  BY DEF FinishPage
<1> QED BY <1>1, <1>2, <1>3, <1>4, <1>5 DEF Next

\* No step overruns the quota by more than it may.
LEMMA QuotaStep == Walk /\ QuotaInv /\ [Next]_vars => QuotaInv'
<1> SUFFICES ASSUME Walk, QuotaInv, [Next]_vars, opt.quota > 0
             PROVE  QuotaInv'
  <2>1. CASE opt.quota > 0
    BY <2>1
  <2>2. CASE ~(opt.quota > 0)
    <3> QED BY <2>2, OneCase DEF QuotaInv
  <2> QED BY <2>1, <2>2
<1>1. opt.quota \in Nat /\ total \in Nat /\ Cardinality(specs) \in Nat
  BY ChosenOk, FS_CardinalityType DEF Walk
<1>2. CASE UNCHANGED vars
  BY <1>2 DEF vars, QuotaInv
<1>3. CASE url_dequeue
  <2>1. total <= opt.quota
    BY <1>1, <1>3 DEF url_dequeue, Exceeded
  <2>2. UNCHANGED <<opt, total, specs>>
    BY <1>3 DEF url_dequeue
  <2> QED BY <1>1, <2>1, <2>2 DEF QuotaInv
<1>4. CASE Download
  <2>1. PICK url, m, d, p :
          Consults(url, m, d, total + 1, specs, p, maps', disk', total', specs', pc')
    BY <1>4, DownloadIs
  <2>3. /\ total' \in Nat /\ Cardinality(specs') \in Nat
        /\ total' + Cardinality(specs) <= total + 1 + Cardinality(specs')
    <3>1. total + 1 \in Nat /\ IsFiniteSet(specs)
      BY DEF Walk
    <3> QED BY <2>1, <3>1, RobotsOnce
  <2>4. total <= opt.quota + Cardinality(specs) /\ opt' = opt
    BY <1>4 DEF Download, QuotaInv
  <2>5. pc' \notin {"reuse", "download"}
    <3>1. PICK q, n, q2 : /\ Retrieves(page.url, maps, "harvest", n, q)
                          /\ q2 \in {q, "aborted"} /\ pc' = q2
      <4>1. PICK reason, a, b, n, q :
               /\ Retrieves(page.url, maps, "harvest", n, q)
               /\ Consults(Document(page.url), n,
                          Put(disk, SavedAs(page.url), Document(page.url)), total + 1,
                          specs, q, maps', disk', total', specs', pc')
        BY <1>4, DownloadIs
      <4>2. pc' \in {q, "aborted"}
        BY <4>1 DEF Consults, Retrieves
      <4> QED BY <4>1, <4>2
    <3>2. q \in {"harvest", "aborted"}
      BY <3>1 DEF Retrieves
    <3> QED BY <3>1, <3>2
  <2> QED BY <1>1, <2>3, <2>4, <2>5 DEF QuotaInv
<1>5. CASE NextChild
  <2>1. PICK link : Child(link)
    BY <1>5 DEF NextChild
  <2>2. opt' = opt /\ pc = "children"
    BY <1>5 DEF NextChild
  <2>3. CASE UNCHANGED <<maps, disk, total, specs, pc>>
    BY <1>1, <2>2, <2>3 DEF QuotaInv
  <2>4. CASE Consults(link.to, maps, disk, total, specs, pc,
                      maps', disk', total', specs', pc')
    <3>1. /\ total' \in Nat /\ Cardinality(specs') \in Nat
          /\ total' + Cardinality(specs) <= total + Cardinality(specs')
          /\ pc' \in {pc, "aborted"}
      <4>1. total \in Nat /\ IsFiniteSet(specs)
        BY DEF Walk
      <4> QED BY <2>4, <4>1, RobotsOnce
    <3> QED BY <1>1, <2>2, <3>1 DEF QuotaInv
  <2> QED BY <2>1, <2>3, <2>4, ChildIs
<1>6. CASE StartTree \/ EndTree \/ Reuse \/ DownloadFails \/ Harvest \/ FinishPage
  BY <1>6 DEF QuotaInv, StartTree, EndTree, Reuse, DownloadFails, Harvest, FinishPage
<1> QED BY <1>2, <1>3, <1>4, <1>5, <1>6 DEF Next

\* No URL is queued or loaded twice by a tree, however it is escaped and whatever
\* redirects to it, and the quota is overrun by no more than one document and the
\* robots.txt files: retrieve_tree's queue, blacklist and test of the quota.
THEOREM QueueStaysSound == Spec => []QueueSound
<1>1. Init => Walk /\ QueueInv /\ QuotaInv
  <2> SUFFICES ASSUME Init PROVE QueueInv /\ QuotaInv
    BY WalkInit
  <2>1. Walk
    BY WalkInit
  <2>2. queue = <<>> /\ taken = {} /\ pc = "main" /\ total = 0
    BY DEF Init
  <2>3. DOMAIN queue = {}
    BY <2>2
  <2>4. opt.quota \in Nat /\ Cardinality(specs) \in Nat
    BY <2>1, ChosenOk, FS_CardinalityType DEF Walk
  <2> QED BY <2>2, <2>3, <2>4 DEF QueueInv, QuotaInv, EnqueuedOnce
<1>2. Walk /\ QueueInv /\ QuotaInv /\ [Next]_vars => (Walk /\ QueueInv /\ QuotaInv)'
  BY WalkStep, QueueStep, QuotaStep
<1>3. QueueInv /\ QuotaInv => QueueSound
  BY DEF QueueInv, QuotaInv, QueueSound, QuotaBound
<1> QED BY <1>1, <1>2, <1>3, PTL DEF Spec
(***************************************************************************)
(* The files.  Placed: the URL that a file is named after still leads to   *)
(* it as long as the file has an owner, which register_redirection relies  *)
(* on.  Left: what is on the disk besides the file of the page was wanted. *)
(***************************************************************************)
Placed(m) ==
    \A f \in DOMAIN m.dl_file_url_map :
        IF opt.trustservernames
        THEN LET doc == m.dl_file_url_map[f]
             IN  /\ FileOf(opt, doc) = f
                 /\ doc \in DOMAIN m.dl_url_file_map /\ m.dl_url_file_map[doc] = f
        ELSE \A u \in Urls :
                FileOf(opt, u) = f /\ Document(u) # u =>
                    /\ m.dl_file_url_map[f] = Document(u)
                    /\ u \in DOMAIN m.dl_url_file_map /\ m.dl_url_file_map[u] = f

Left ==
    \A f \in DOMAIN disk :
        \/ pc = "aborted"
        \/ pc \notin {"main", "loop"} /\ f = page.file
        \/ ~opt.delete_after /\ AcceptableFile(f)

\* Tables m, a disk d, the hosts whose robots.txt is known, and pc agree.
Agree(m, d, hosts, p) ==
    /\ m \in Tables /\ Owned(m)
    /\ d \in Partial(LocalFiles, Urls)
    /\ \A u \in DOMAIN m.dl_url_file_map :
          m.dl_url_file_map[u] \in DOMAIN d \cup Unlinked(hosts)
    /\ RobotsStay => Placed(m) /\ p # "aborted"

Files ==
    /\ Agree(maps, disk, specs, pc)
    /\ pc \notin {"main", "loop"} => page.file \in LocalFiles \cup {NoFile}
    /\ pc \in {"reuse", "download"} => page.file = NoFile
    /\ pc = "reuse" => page.url \in DOMAIN maps.dl_url_file_map
    /\ pc = "download" => page.url \notin DOMAIN maps.dl_url_file_map
    /\ Left

\* What retrieve_url registers when it has saved the document of a URL.  If that
\* leads nowhere else, or was not known, register_redirection finds the URL that
\* it leads to, and files keep the URLs that they are named after.
LEMMA Saves ==
    ASSUME OwnNames, Chosen,
           NEW m \in Tables, Owned(m),
           NEW url \in Urls,
           NEW doc, doc = Document(url),
           NEW file, file = SavedAs(url)
    PROVE  LET saved == register_download(m, doc, file)
               known == IF url # doc THEN register_redirection(saved, url, doc)
                        ELSE saved
           IN  /\ saved \in Tables /\ Owned(saved)
               /\ \A u \in DOMAIN saved.dl_url_file_map :
                     \/ saved.dl_url_file_map[u] = file
                     \/ \E v \in DOMAIN m.dl_url_file_map :
                           saved.dl_url_file_map[u] = m.dl_url_file_map[v]
               /\ ~Unregistered(saved, url, doc) =>
                     /\ known \in Tables /\ Owned(known)
                     /\ \A u \in DOMAIN known.dl_url_file_map :
                           \/ known.dl_url_file_map[u] = file
                           \/ \E v \in DOMAIN m.dl_url_file_map :
                                 known.dl_url_file_map[u] = m.dl_url_file_map[v]
               /\ Placed(m) /\ (url = doc \/ url \notin DOMAIN m.dl_url_file_map) =>
                     ~Unregistered(saved, url, doc) /\ Placed(known)
<1>1. /\ doc \in Urls /\ file \in LocalFiles
      /\ Document(doc) = doc
  <2>1. doc \in Urls
    BY ChosenOk
  <2>2. file \in LocalFiles
    BY FilesAre
  <2>3. \A u \in DOMAIN site.led : site.led[u] \in DOMAIN site.led =>
                                      site.led[site.led[u]] = site.led[u]
    BY ChosenOk DEF SiteOk
  <2> QED BY <2>1, <2>2, <2>3 DEF Document
<1>2. /\ opt.trustservernames => file = FileOf(opt, doc)
      /\ ~opt.trustservernames => file = FileOf(opt, url)
  BY DEF SavedAs
<1>3. \A u \in Urls : Document(u) # u /\ FileOf(opt, u) = FileOf(opt, url)
                         => opt.trustservernames \/ u = url
  <2> SUFFICES ASSUME NEW u \in Urls, Document(u) # u,
                      FileOf(opt, u) = FileOf(opt, url), ~opt.trustservernames
               PROVE  u = url
    OBVIOUS
  <2>1. PICK k \in Cases : site = k.site /\ opt = k.opt
    BY DEF Chosen
  <2>2. u \in DOMAIN k.site.led /\ k.site.led[u] # u
    BY <2>1 DEF Document
  <2> QED BY <2>1, <2>2 DEF OwnNames
<1> DEFINE owned == file \in DOMAIN m.dl_file_url_map
           saved == register_download(m, doc, file)
           known == IF url # doc THEN register_redirection(saved, url, doc) ELSE saved
<1>4. PICK r : r = saved
  OBVIOUS
<1>5. /\ r \in Tables
      /\ Owned(r)
      /\ DOMAIN r.dl_file_url_map = DOMAIN m.dl_file_url_map \cup {file}
      /\ \A g \in DOMAIN m.dl_file_url_map \ {file} :
            r.dl_file_url_map[g] = m.dl_file_url_map[g]
      /\ \/ r.dl_file_url_map[file] = doc
         \/ owned /\ r.dl_file_url_map[file] = m.dl_file_url_map[file]
      /\ owned /\ doc = m.dl_file_url_map[file] => r = m
      /\ ~(owned /\ doc = m.dl_file_url_map[file]) =>
            /\ doc \in DOMAIN r.dl_url_file_map
            /\ r.dl_url_file_map[doc] = file
            /\ \A u \in DOMAIN r.dl_url_file_map \ {doc} :
                  /\ u \in DOMAIN m.dl_url_file_map
                  /\ r.dl_url_file_map[u] = m.dl_url_file_map[u]
            /\ \A u \in DOMAIN m.dl_url_file_map :
                  (m.dl_url_file_map[u] # file
                   \/ (owned /\ r.dl_file_url_map[file] = m.dl_file_url_map[file]))
                     => u \in DOMAIN r.dl_url_file_map
  BY <1>1, <1>4, Map!Registers, SameTables,
     MapAssumptions, VariantsAssumption
<1>6. Placed(m) /\ (url = doc \/ url \notin DOMAIN m.dl_url_file_map) =>
         ~Unregistered(r, url, doc)
  <2> SUFFICES ASSUME Placed(m), url # doc, url \notin DOMAIN m.dl_url_file_map
               PROVE  doc \in DOMAIN r.dl_url_file_map
    BY DEF Unregistered
  <2>1. CASE owned /\ doc = m.dl_file_url_map[file]
    BY <1>1, <1>2, <1>5, <2>1 DEF Placed
  <2> QED BY <1>5, <2>1
<1>7. \A u \in DOMAIN r.dl_url_file_map :
         \/ r.dl_url_file_map[u] = file
         \/ \E v \in DOMAIN m.dl_url_file_map :
               r.dl_url_file_map[u] = m.dl_url_file_map[v]
  BY <1>5
<1>8. PICK k : k = known
  OBVIOUS
<1>9. ~Unregistered(r, url, doc) =>
      /\ k \in Tables
      /\ k.dl_file_url_map = r.dl_file_url_map
      /\ DOMAIN k.dl_url_file_map
           = DOMAIN r.dl_url_file_map \cup (IF url # doc THEN {url} ELSE {})
      /\ \A u \in DOMAIN r.dl_url_file_map : k.dl_url_file_map[u] = r.dl_url_file_map[u]
      /\ url # doc /\ url \notin DOMAIN r.dl_url_file_map =>
            /\ doc \in DOMAIN r.dl_url_file_map
            /\ k.dl_url_file_map[url] = r.dl_url_file_map[doc]
  <2>1. CASE url = doc
    BY <1>4, <1>5, <1>8, <2>1
  <2>2. CASE url # doc /\ ~Unregistered(r, url, doc)
    <3>1. k = register_redirection(r, url, doc) /\ doc \in DOMAIN r.dl_url_file_map
      BY <1>4, <1>8, <2>2 DEF Unregistered
    <3> QED BY <1>5, <2>2, <3>1, Map!Redirects, SameTables,
     MapAssumptions, VariantsAssumption
  <2> QED BY <2>1, <2>2
<1> HIDE DEF saved, known
<1>10. ~Unregistered(r, url, doc) =>
          /\ Owned(k)
          /\ \A u \in DOMAIN k.dl_url_file_map :
                \/ k.dl_url_file_map[u] = file
                \/ \E v \in DOMAIN m.dl_url_file_map :
                      k.dl_url_file_map[u] = m.dl_url_file_map[v]
  <2> SUFFICES ASSUME ~Unregistered(r, url, doc)
               PROVE  /\ Owned(k)
                      /\ \A u \in DOMAIN k.dl_url_file_map :
                            \E v \in DOMAIN r.dl_url_file_map :
                               k.dl_url_file_map[u] = r.dl_url_file_map[v]
    BY <1>7
  <2>1. \A u \in DOMAIN k.dl_url_file_map :
           \E v \in DOMAIN r.dl_url_file_map :
              k.dl_url_file_map[u] = r.dl_url_file_map[v]
    BY <1>9
  <2> QED BY <1>5, <1>9, <2>1 DEF Owned
<1>11. Placed(m) /\ (url = doc \/ url \notin DOMAIN m.dl_url_file_map) => Placed(k)
  <2> SUFFICES ASSUME Placed(m), url = doc \/ url \notin DOMAIN m.dl_url_file_map,
                      NEW g \in DOMAIN k.dl_file_url_map
               PROVE  IF opt.trustservernames
                      THEN LET d == k.dl_file_url_map[g]
                           IN  /\ FileOf(opt, d) = g
                               /\ d \in DOMAIN k.dl_url_file_map
                               /\ k.dl_url_file_map[d] = g
                      ELSE \A u \in Urls :
                              FileOf(opt, u) = g /\ Document(u) # u =>
                                /\ k.dl_file_url_map[g] = Document(u)
                                /\ u \in DOMAIN k.dl_url_file_map
                                /\ k.dl_url_file_map[u] = g
    BY DEF Placed
  <2>1. ~Unregistered(r, url, doc)
    BY <1>6
  <2>2. CASE owned /\ doc = m.dl_file_url_map[file]
    <3>1. r = m
      BY <1>5, <2>2
    <3> QED BY <1>9, <2>1, <2>2, <3>1 DEF Placed
  <2>3. CASE ~(owned /\ doc = m.dl_file_url_map[file]) /\ opt.trustservernames
    <3> DEFINE d == k.dl_file_url_map[g]
    <3>1. FileOf(opt, doc) = file
      BY <1>2, <2>3
    <3>2. CASE d = doc /\ g = file
      BY <1>5, <1>9, <2>1, <2>3, <3>1, <3>2
    <3>3. CASE ~(d = doc /\ g = file)
      <4>1. /\ g \in DOMAIN m.dl_file_url_map /\ d = m.dl_file_url_map[g]
            /\ g = file => owned /\ r.dl_file_url_map[file] = m.dl_file_url_map[file]
        BY <1>5, <1>9, <2>1, <3>3
      <4>2. /\ FileOf(opt, d) = g
            /\ d \in DOMAIN m.dl_url_file_map /\ m.dl_url_file_map[d] = g
        BY <2>3, <4>1 DEF Placed
      <4>3. d # doc
        BY <3>1, <3>3, <4>2
      <4>4. d \in DOMAIN r.dl_url_file_map /\ r.dl_url_file_map[d] = g
        BY <1>5, <2>3, <4>1, <4>2, <4>3
      <4> QED BY <1>9, <2>1, <2>3, <4>2, <4>4
    <3> QED BY <3>2, <3>3
  <2>4. CASE ~(owned /\ doc = m.dl_file_url_map[file]) /\ ~opt.trustservernames
    <3> SUFFICES ASSUME NEW u \in Urls, FileOf(opt, u) = g, Document(u) # u
                 PROVE  /\ k.dl_file_url_map[g] = Document(u)
                        /\ u \in DOMAIN k.dl_url_file_map
                        /\ k.dl_url_file_map[u] = g
      BY <2>4
    <3>1. file = FileOf(opt, url)
      BY <1>2, <2>4
    <3>2. CASE g = file
      <4>1. u = url /\ doc # url
        BY <1>3, <2>4, <3>1, <3>2
      <4>2. ~owned
        BY <2>4, <3>2, <4>1 DEF Placed
      <4> QED BY <1>5, <1>9, <2>1, <2>4, <3>2, <4>1, <4>2
    <3>3. CASE g # file
      <4>1. g \in DOMAIN m.dl_file_url_map /\ k.dl_file_url_map[g] = m.dl_file_url_map[g]
        BY <1>5, <1>9, <2>1, <3>3
      <4>2. /\ m.dl_file_url_map[g] = Document(u)
            /\ u \in DOMAIN m.dl_url_file_map /\ m.dl_url_file_map[u] = g
        BY <2>4, <4>1 DEF Placed
      <4>3. u # doc
        BY <1>1
      <4> QED BY <1>5, <1>9, <2>1, <2>4, <3>3, <4>1, <4>2, <4>3
    <3> QED BY <3>2, <3>3
  <2> QED BY <2>2, <2>3, <2>4
<1> QED BY <1>4, <1>5, <1>6, <1>7, <1>8, <1>9, <1>10, <1>11 DEF known, saved

\* register_html and register_css leave the maps alone.
LEMMA Marks ==
    ASSUME NEW m \in Tables, NEW file \in LocalFiles, NEW r,
           r \in {register_html(m, file), register_css(m, file), m}
    PROVE  /\ r \in Tables
           /\ r.dl_file_url_map = m.dl_file_url_map
           /\ r.dl_url_file_map = m.dl_url_file_map
BY DEF register_html, register_css, Tables

\* More hosts, and an end of the program, change nothing that is said of tables and
\* disk.
LEMMA AgreeKept ==
    ASSUME NEW m, NEW d, NEW hosts, NEW more, hosts \subseteq more, NEW p, NEW q,
           Agree(m, d, hosts, p), RobotsStay => q # "aborted"
    PROVE  Agree(m, d, more, q)
<1>1. Unlinked(hosts) \subseteq Unlinked(more)
  BY DEF Unlinked
<1> QED BY <1>1 DEF Agree

\* retrieve_url saves and registers.
LEMMA RetrievesAgree ==
    ASSUME OwnNames, Chosen, NEW url \in Urls,
           NEW m, NEW d, NEW hosts, NEW p, Agree(m, d, hosts, p),
           RobotsStay => url \notin DOMAIN m.dl_url_file_map \/ Document(url) = url,
           NEW m2, NEW p2, Retrieves(url, m, p, m2, p2)
    PROVE  /\ Agree(m2, Put(d, SavedAs(url), Document(url)), hosts, p2)
           /\ DOMAIN Put(d, SavedAs(url), Document(url)) = DOMAIN d \cup {SavedAs(url)}
           /\ \A u \in DOMAIN m2.dl_url_file_map :
                 \/ m2.dl_url_file_map[u] = SavedAs(url)
                 \/ m2.dl_url_file_map[u] \in DOMAIN d \cup Unlinked(hosts)
<1>1. PICK doc \in Urls, file \in LocalFiles : doc = Document(url) /\ file = SavedAs(url)
  BY FilesAre
<1>2. PICK saved, known, there :
         /\ saved = register_download(m, doc, file)
         /\ known = IF url # doc THEN register_redirection(saved, url, doc) ELSE saved
         /\ there = Put(d, file, doc)
  OBVIOUS
<1>3. /\ saved \in Tables /\ Owned(saved)
      /\ \A u \in DOMAIN saved.dl_url_file_map :
            \/ saved.dl_url_file_map[u] = file
            \/ \E v \in DOMAIN m.dl_url_file_map :
                  saved.dl_url_file_map[u] = m.dl_url_file_map[v]
      /\ ~Unregistered(saved, url, doc) =>
            /\ known \in Tables /\ Owned(known)
            /\ \A u \in DOMAIN known.dl_url_file_map :
                  \/ known.dl_url_file_map[u] = file
                  \/ \E v \in DOMAIN m.dl_url_file_map :
                        known.dl_url_file_map[u] = m.dl_url_file_map[v]
      /\ Placed(m) /\ (url = doc \/ url \notin DOMAIN m.dl_url_file_map) =>
            ~Unregistered(saved, url, doc) /\ Placed(known)
  <2>1. m \in Tables /\ Owned(m)
    BY DEF Agree
  <2> QED BY <1>1, <1>2, <2>1, Saves
<1>4. there \in Partial(LocalFiles, Urls) /\ DOMAIN there = DOMAIN d \cup {file}
  <2>1. d \in Partial(LocalFiles, Urls)
    BY DEF Agree
  <2> QED BY <1>1, <1>2, <2>1, TableFacts DEF Put
<1>5. \A v \in DOMAIN m.dl_url_file_map :
         m.dl_url_file_map[v] \in DOMAIN d \cup Unlinked(hosts)
  BY DEF Agree
<1>6. CASE Unregistered(saved, url, doc)
  <2>1. m2 = saved
    BY <1>1, <1>2, <1>6 DEF Retrieves
  <2>2. ~RobotsStay
    BY <1>1, <1>3, <1>6 DEF Agree
  <2> QED BY <1>1, <1>2, <1>3, <1>4, <1>5, <2>1, <2>2 DEF Agree
<1>7. CASE ~Unregistered(saved, url, doc)
  <2>1. m2 = Registered(saved, url, doc, file) /\ p2 = p
    BY <1>1, <1>2, <1>7 DEF Retrieves
  <2>2. m2 \in {register_html(known, file), register_css(known, file), known}
    BY <1>2, <2>1 DEF Registered
  <2>3. /\ m2 \in Tables
        /\ m2.dl_file_url_map = known.dl_file_url_map
        /\ m2.dl_url_file_map = known.dl_url_file_map
    BY <1>1, <1>3, <1>7, <2>2, Marks
  <2>4. Owned(m2) /\ (Placed(known) => Placed(m2))
    BY <1>3, <1>7, <2>3 DEF Owned, Placed
  <2>5. RobotsStay => Placed(m2) /\ p2 # "aborted"
    BY <1>1, <1>3, <2>1, <2>4 DEF Agree
  <2>6. \A u \in DOMAIN m2.dl_url_file_map :
           \/ m2.dl_url_file_map[u] = file
           \/ m2.dl_url_file_map[u] \in DOMAIN d \cup Unlinked(hosts)
    BY <1>3, <1>5, <1>7, <2>3
  <2> QED BY <1>1, <1>2, <1>4, <2>3, <2>4, <2>5, <2>6 DEF Agree
<1> QED BY <1>6, <1>7

\* The robots.txt of a host is saved, registered, and perhaps deleted; what it
\* leaves on the disk was wanted.
LEMMA ConsultsAgree ==
    ASSUME OwnNames, Chosen, NEW url \in Urls,
           NEW m, NEW d, NEW n, NEW hosts, NEW p, Agree(m, d, hosts, p),
           NEW m2, NEW d2, NEW n2, NEW hosts2, NEW p2,
           Consults(url, m, d, n, hosts, p, m2, d2, n2, hosts2, p2)
    PROVE  /\ Agree(m2, d2, hosts2, p2)
           /\ \A f \in DOMAIN d2 \ DOMAIN d :
            p2 = "aborted" \/ (~opt.delete_after /\ AcceptableFile(f))
<1>1. CASE m2 = m /\ d2 = d /\ hosts \subseteq hosts2 /\ p2 = p
  <2>1. RobotsStay => p2 # "aborted"
    BY <1>1 DEF Agree
  <2> QED BY <1>1, <2>1, AgreeKept
<1>2. PICK robots \in Urls : robots = RobotsTxt[Host[url]]
  BY TreeAssumption
<1> DEFINE there == Put(d, SavedAs(robots), Document(robots))
<1>3. CASE /\ Document(robots) \notin site.dead
           /\ Retrieves(robots, m, p, m2, p2)
           /\ hosts2 = hosts \cup {Host[url]}
           /\ IF p2 # "aborted" /\ Temporary(SavedAs(robots))
              THEN d2 = WithoutKey(there, SavedAs(robots)) ELSE d2 = there
  <2>1. RobotsStay => Document(robots) = robots
    BY <1>2 DEF RobotsStay
  <2>2. /\ Agree(m2, there, hosts, p2)
        /\ DOMAIN there = DOMAIN d \cup {SavedAs(robots)}
        /\ \A u \in DOMAIN m2.dl_url_file_map :
              \/ m2.dl_url_file_map[u] = SavedAs(robots)
              \/ m2.dl_url_file_map[u] \in DOMAIN d \cup Unlinked(hosts)
    BY <1>3, <2>1, RetrievesAgree
  <2>3. Unlinked(hosts) \subseteq Unlinked(hosts2)
    BY <1>3 DEF Unlinked
  <2> HIDE DEF there
  <2>4. CASE p2 # "aborted" /\ Temporary(SavedAs(robots))
    <3>1. d2 = WithoutKey(there, SavedAs(robots))
      BY <1>3, <2>4
    <3>2. there \in Partial(LocalFiles, Urls)
      BY <2>2 DEF Agree
    <3>3. /\ d2 \in Partial(LocalFiles, Urls)
          /\ DOMAIN d2 = DOMAIN there \ {SavedAs(robots)}
      BY <3>1, <3>2, TableFacts DEF WithoutKey, Restrict
    <3>4. SavedAs(robots) \in Unlinked(hosts2)
      BY <1>2, <1>3, <2>4 DEF Unlinked
    <3>5. \A u \in DOMAIN m2.dl_url_file_map :
             m2.dl_url_file_map[u] \in DOMAIN d2 \cup Unlinked(hosts2)
      BY <2>2, <2>3, <3>3, <3>4
    <3> QED BY <2>2, <3>3, <3>5 DEF Agree
  <2>5. CASE ~(p2 # "aborted" /\ Temporary(SavedAs(robots)))
    <3>1. d2 = there
      BY <1>3, <2>5
    <3>2. p2 = "aborted" \/ (~opt.delete_after /\ AcceptableFile(SavedAs(robots)))
      BY <2>5, FilesAre
    <3>3. RobotsStay => p2 # "aborted"
      BY <2>2 DEF Agree
    <3>4. Agree(m2, d2, hosts2, p2)
      BY <1>3, <2>2, <3>1, <3>3, AgreeKept
    <3> QED BY <2>2, <3>1, <3>2, <3>4
  <2> QED BY <2>4, <2>5
<1> QED BY <1>1, <1>2, <1>3 DEF Consults

\* What is said of tables and disk does not depend on when it is said.
LEMMA SameWeb ==
    ASSUME UNCHANGED <<site, opt>>,
           NEW m, NEW d, NEW hosts, NEW p, Agree(m, d, hosts, p),
           m = maps', d = disk', hosts = specs', p = pc'
    PROVE  Agree(maps, disk, specs, pc)'
<1>1. /\ Unlinked(specs)' = Unlinked(hosts)
      /\ RobotsStay' = RobotsStay
      /\ Placed(maps)' = Placed(m)
  BY DEF Unlinked, RobotsStay, Placed, Document, SavedAs, Temporary
<1> QED BY <1>1 DEF Agree

\* The steps that leave tables and disk alone keep what is said of them.
LEMMA TablesKept ==
    ASSUME Files, UNCHANGED <<site, opt, maps, disk, specs>>,
           pc # "aborted", pc' # "aborted"
    PROVE  Agree(maps, disk, specs, pc)'
<1>1. Agree(maps, disk, specs, pc)
  BY DEF Files
<1>2. /\ Unlinked(specs)' = Unlinked(specs)
      /\ RobotsStay' = RobotsStay
      /\ Placed(maps)' = Placed(maps)
  BY DEF Unlinked, RobotsStay, Placed, Document, SavedAs, Temporary
<1> QED BY <1>1, <1>2 DEF Agree

\* Between pages, everything on the disk was wanted.
LEMMA FilesLoop ==
    ASSUME Walk, Files, StartTree \/ EndTree \/ url_dequeue
    PROVE  Files'
<1>1. UNCHANGED <<site, opt, maps, disk, specs>>
  BY DEF StartTree, EndTree, url_dequeue
<1>2. pc \in {"main", "loop"} /\ pc' # "aborted"
  BY DEF StartTree, EndTree, url_dequeue
<1>3. \A f \in DOMAIN disk : ~opt.delete_after /\ AcceptableFile(f)
  BY <1>2 DEF Files, Left
<1>4. Left'
  BY <1>1, <1>3 DEF Left, AcceptableFile
<1>5. CASE StartTree \/ EndTree
  <2>1. pc' \in {"main", "loop"}
    BY <1>5 DEF StartTree, EndTree
  <2> QED BY <1>1, <1>2, <1>4, <2>1, TablesKept DEF Files
<1>6. CASE url_dequeue
  <2> DEFINE qel == Head(queue)
  <2>1. /\ page' = [url |-> qel.url, depth |-> qel.depth, file |-> NoFile,
                    html_allowed |-> qel.html_allowed,
                    css_allowed |-> qel.css_allowed,
                    descend |-> FALSE, is_css |-> FALSE]
        /\ pc' = IF qel.url \in DOMAIN maps.dl_url_file_map THEN "reuse" ELSE "download"
    BY <1>6 DEF url_dequeue
  <2>2. page'.file = NoFile /\ page'.url = qel.url
    BY <2>1
  <2> HIDE DEF qel
  <2> QED BY <1>1, <1>2, <1>4, <2>1, <2>2, TablesKept DEF Files
<1> QED BY <1>5, <1>6

\* A document that is there has its file.
LEMMA FilesReuse ==
    ASSUME Walk, Files, Reuse
    PROVE  Files'
<1>1. /\ page \in PageWith(page.file) /\ pc = "reuse"
      /\ UNCHANGED <<site, opt, maps, disk, specs>>
      /\ pc' = "harvest"
  BY DEF Reuse, Walk
<1>2. PICK a, b : page' = [page EXCEPT !.file = maps.dl_url_file_map[page.url],
                                       !.descend = a, !.is_css = b]
  BY ZenonT(60) DEF Reuse
<1>3. page'.file = maps.dl_url_file_map[page.url]
  BY <1>1, <1>2 DEF PageWith
<1>4. maps.dl_url_file_map[page.url] \in LocalFiles
  BY <1>1, TableFacts DEF Files, Agree, Tables
<1>5. Left'
  <2>1. \A f \in DOMAIN disk : f # NoFile
    BY FileAssumption, TableFacts DEF Files, Agree
  <2>2. \A f \in DOMAIN disk : ~opt.delete_after /\ AcceptableFile(f)
    BY <1>1, <2>1 DEF Files, Left
  <2> QED BY <1>1, <2>2 DEF Left, AcceptableFile
<1> QED BY <1>1, <1>3, <1>4, <1>5, TablesKept DEF Files

\* A document that is saved is registered, and its file is there, unless that was
\* a robots.txt's as well.
LEMMA FilesDownload ==
    ASSUME OwnNames, Walk, Files, Download
    PROVE  Files'
<1>1. /\ page \in PageWith(page.file) /\ pc = "download" /\ page.url \in Urls
      /\ UNCHANGED <<site, opt>> /\ Chosen
      /\ page.file = NoFile /\ page.url \notin DOMAIN maps.dl_url_file_map
  BY DEF Download, Walk, PageWith, Files
<1>2. PICK url \in Urls, doc \in Urls, file \in LocalFiles :
         url = page.url /\ doc = Document(url) /\ file = SavedAs(url)
  BY <1>1, FilesAre
<1>3. PICK a, b, m, p :
         /\ Retrieves(url, maps, "harvest", m, p)
         /\ Consults(doc, m, Put(disk, file, doc), total + 1, specs, p,
                     maps', disk', total', specs', pc')
         /\ page' = [page EXCEPT !.url = doc, !.file = file, !.is_css = a, !.descend = b]
  BY <1>2, DownloadIs
<1>4. PICK there : there = Put(disk, file, doc)
  OBVIOUS
<1>5. Agree(m, there, specs, p) /\ DOMAIN there = DOMAIN disk \cup {file}
  <2>1. Agree(maps, disk, specs, "harvest")
    BY AgreeKept DEF Files
  <2> QED BY <1>1, <1>2, <1>3, <1>4, <2>1, RetrievesAgree
<1>6. PICK m2, d2, n2, hosts2, p2 :
         /\ m2 = maps' /\ d2 = disk' /\ n2 = total' /\ hosts2 = specs' /\ p2 = pc'
         /\ Consults(doc, m, there, total + 1, specs, p, m2, d2, n2, hosts2, p2)
  BY <1>3, <1>4
<1>7. /\ Agree(m2, d2, hosts2, p2)
      /\ \A f \in DOMAIN d2 \ DOMAIN there :
            p2 = "aborted" \/ (~opt.delete_after /\ AcceptableFile(f))
  BY <1>1, <1>2, <1>5, <1>6, ConsultsAgree
<1>8. Agree(maps, disk, specs, pc)'
  BY <1>1, <1>6, <1>7, SameWeb
<1>9. pc' \in {"harvest", "aborted"}
  <2>1. p \in {"harvest", "aborted"}
    BY <1>3 DEF Retrieves
  <2> QED BY <1>3, <2>1 DEF Consults, Retrieves
<1>10. page'.file = file
  BY <1>1, <1>3 DEF PageWith
<1>11. Left'
  <2>1. \A f \in DOMAIN disk : f # NoFile
    BY FileAssumption, TableFacts DEF Files, Agree
  <2>2. \A f \in DOMAIN disk : ~opt.delete_after /\ AcceptableFile(f)
    BY <1>1, <2>1 DEF Files, Left
  <2> QED BY <1>1, <1>5, <1>6, <1>7, <1>9, <1>10, <2>2 DEF Left, AcceptableFile
<1> QED BY <1>2, <1>8, <1>9, <1>10, <1>11 DEF Files

\* A link may take a robots.txt.
LEMMA FilesChild ==
    ASSUME OwnNames, Walk, Files, NextChild
    PROVE  Files'
<1>1. /\ UNCHANGED <<site, opt, page>> /\ Chosen /\ pc = "children"
      /\ page.file \in LocalFiles \cup {NoFile}
  BY DEF NextChild, Walk, Files
<1>2. PICK link \in children : Child(link)
  BY DEF NextChild
<1>3. CASE UNCHANGED <<maps, disk, total, specs, pc>>
  BY <1>1, <1>3, TablesKept DEF Files, Left, AcceptableFile
<1>4. CASE Consults(link.to, maps, disk, total, specs, pc,
                    maps', disk', total', specs', pc')
  <2>1. PICK m2, d2, n2, hosts2, p2 :
           /\ m2 = maps' /\ d2 = disk' /\ n2 = total' /\ hosts2 = specs' /\ p2 = pc'
           /\ Consults(link.to, maps, disk, total, specs, pc, m2, d2, n2, hosts2, p2)
    BY <1>4
  <2>2. link.to \in Urls /\ Agree(maps, disk, specs, pc)
    BY DEF Walk, Link, Files
  <2>3. /\ Agree(m2, d2, hosts2, p2)
        /\ \A f \in DOMAIN d2 \ DOMAIN disk :
            p2 = "aborted" \/ (~opt.delete_after /\ AcceptableFile(f))
    BY <1>1, <2>1, <2>2, ConsultsAgree
  <2>4. Agree(maps, disk, specs, pc)'
    BY <1>1, <2>1, <2>3, SameWeb
  <2>5. pc' \in {"children", "aborted"}
    BY <1>1, <1>4 DEF Consults, Retrieves
  <2>6. Left'
    BY <1>1, <2>1, <2>3, <2>5 DEF Files, Left, AcceptableFile
  <2> QED BY <1>1, <2>4, <2>5, <2>6 DEF Files
<1> QED BY <1>2, <1>3, <1>4, ChildIs

\* A file that was not wanted goes, and every URL that led to it is forgotten.
LEMMA FilesFinish ==
    ASSUME Walk, Files, FinishPage
    PROVE  Files'
<1>1. UNCHANGED <<site, opt, specs>> /\ pc' = "loop" /\ pc = "children"
  BY DEF FinishPage
<1>2. \A f \in DOMAIN disk : f # NoFile
  BY FileAssumption, TableFacts DEF Files, Agree
<1> DEFINE goes == page.file # NoFile /\ (opt.delete_after \/ ~AcceptableFile(page.file))
<1>3. CASE ~goes
  <2>1. UNCHANGED <<maps, disk>>
    BY <1>3 DEF FinishPage
  <2>2. \A f \in DOMAIN disk : ~opt.delete_after /\ AcceptableFile(f)
    BY <1>1, <1>2, <1>3 DEF Files, Left
  <2>3. Left'
    BY <1>1, <2>1, <2>2 DEF Left, AcceptableFile
  <2> QED BY <1>1, <2>1, <2>3, TablesKept DEF Files
<1>4. CASE goes
  <2>1. PICK file, r : /\ file = page.file /\ r = register_delete_file(maps, file)
                       /\ maps' = r /\ disk' = WithoutKey(disk, file)
    BY <1>4 DEF FinishPage
  <2>2. /\ r \in Tables /\ Owned(r)
        /\ DOMAIN r.dl_file_url_map = DOMAIN maps.dl_file_url_map \ {file}
        /\ \A g \in DOMAIN r.dl_file_url_map :
              r.dl_file_url_map[g] = maps.dl_file_url_map[g]
        /\ \A u \in DOMAIN r.dl_url_file_map :
              /\ u \in DOMAIN maps.dl_url_file_map
              /\ r.dl_url_file_map[u] = maps.dl_url_file_map[u]
              /\ r.dl_url_file_map[u] # file
        /\ \A u \in DOMAIN maps.dl_url_file_map :
              maps.dl_url_file_map[u] # file => u \in DOMAIN r.dl_url_file_map
    BY <2>1, Map!Deletes, SameTables,
     MapAssumptions, VariantsAssumption DEF Files, Agree
  <2>3. PICK d2 : d2 = WithoutKey(disk, file)
    OBVIOUS
  <2>4. d2 \in Partial(LocalFiles, Urls) /\ DOMAIN d2 = DOMAIN disk \ {file}
    <3>1. disk \in Partial(LocalFiles, Urls)
      BY DEF Files, Agree
    <3> QED BY <2>3, <3>1, TableFacts DEF WithoutKey, Restrict
  <2>5. Placed(maps) => Placed(r)
    BY <2>2 DEF Placed
  <2>6. Agree(r, d2, specs, "loop")
    BY <2>2, <2>4, <2>5 DEF Files, Agree
  <2>7. Agree(maps, disk, specs, pc)'
    BY <1>1, <2>1, <2>3, <2>6, SameWeb
  <2>8. Left'
    BY <1>1, <2>1, <2>3, <2>4 DEF Files, Left, AcceptableFile
  <2> QED BY <1>1, <2>7, <2>8 DEF Files
<1> QED BY <1>3, <1>4

\* Every step keeps tables and files in line.
LEMMA FilesStep == OwnNames /\ Walk /\ Files /\ [Next]_vars => Files'
<1> SUFFICES ASSUME OwnNames, Walk, Files, [Next]_vars PROVE Files'
  OBVIOUS
<1>1. CASE UNCHANGED vars
  <2>1. UNCHANGED <<site, opt, maps, disk, specs, pc, page>>
    BY <1>1 DEF vars
  <2>2. Agree(maps, disk, specs, pc)'
    BY <2>1, SameWeb DEF Files
  <2> QED BY <2>1, <2>2 DEF Files, Left, AcceptableFile
<1>2. CASE DownloadFails
  <2>1. /\ UNCHANGED <<site, opt, maps, disk, specs, page>>
        /\ pc = "download" /\ pc' = "harvest"
    BY <1>2 DEF DownloadFails
  <2> QED BY <2>1, TablesKept DEF Files, Left, AcceptableFile
<1>3. CASE Harvest
  <2>1. /\ UNCHANGED <<site, opt, maps, disk, specs, page>>
        /\ pc = "harvest" /\ pc' = "children"
    BY <1>3 DEF Harvest
  <2> QED BY <2>1, TablesKept DEF Files, Left, AcceptableFile
<1> QED BY <1>1, <1>2, <1>3, FilesLoop, FilesReuse, FilesDownload, FilesChild,
           FilesFinish DEF Next

\* The types follow.
LEMMA TypesFollow == Walk /\ Files => TypeOK
<1> SUFFICES ASSUME Walk, Files PROVE TypeOK
  OBVIOUS
<1>1. AreTables(maps) /\ IsTable(disk, LocalFiles, Urls)
  BY TableFacts DEF Files, Agree
<1>2. pc \notin {"main", "loop"} =>
         /\ page # NoPage
         /\ page \in [url : Urls, depth : Nat, html_allowed : BOOLEAN,
                      css_allowed : BOOLEAN,
                      file : LocalFiles \cup {NoFile},
                      descend : BOOLEAN, is_css : BOOLEAN]
  <2> SUFFICES ASSUME pc \notin {"main", "loop"}
               PROVE  /\ page # NoPage
                      /\ page \in [url : Urls, depth : Nat, html_allowed : BOOLEAN,
                                   css_allowed : BOOLEAN,
                                   file : LocalFiles \cup {NoFile},
                                   descend : BOOLEAN, is_css : BOOLEAN]
    OBVIOUS
  <2>1. page \in PageWith(page.file) /\ page.file \in LocalFiles \cup {NoFile}
    BY DEF Walk, Files
  <2>2. "depth" \in DOMAIN page /\ "depth" \notin DOMAIN NoPage
    BY <2>1 DEF PageWith, NoPage
  <2>3. PICK f \in LocalFiles \cup {NoFile} : page \in PageWith(f)
    BY <2>1
  <2> QED BY <2>2, <2>3, Zenon DEF PageWith
<1>3. pc \in {"main", "loop"} => page = NoPage
  BY DEF Walk
<1> QED BY <1>1, <1>2, <1>3 DEF Walk, TypeOK

\* Whatever the tables are told, they are well-formed and lead to files that are
\* there or that were a robots.txt's and are deleted; between two pages only files
\* are left that are acceptable by the name they have; and if no robots.txt is
\* redirected, the assertion of register_redirection holds: Retrieved,
\* ConsultRobots and FinishPage agree, provided that no URL that is redirected
\* shares its file name.
THEOREM FilesStaySound ==
    ASSUME OwnNames PROVE Spec => []FilesSound
<1>1. Init => Walk /\ Files
  <2> SUFFICES ASSUME Init PROVE Files
    BY WalkInit
  <2>1. maps = NoMaps /\ disk = EmptyTable /\ pc = "main"
    BY DEF Init
  <2>2. /\ DOMAIN EmptyTable = {}
        /\ NoMaps.dl_file_url_map = EmptyTable
        /\ NoMaps.dl_url_file_map = EmptyTable
    BY DEF EmptyTable, NoMaps
  <2>3. Agree(maps, disk, specs, pc)
    BY <2>1, <2>2, TableFacts DEF Agree, Owned, Placed
  <2> QED BY <2>1, <2>2, <2>3 DEF Files, Left
<1>2. Walk /\ Files /\ [Next]_vars => (Walk /\ Files)'
  BY WalkStep, FilesStep
<1>3. Walk /\ Files => FilesSound
  <2> SUFFICES ASSUME Walk, Files PROVE KeepsOnlyWanted
    BY TypesFollow DEF Files, Agree, FilesExist, AssertionHolds, FilesSound
  <2> SUFFICES ASSUME pc \in {"main", "loop"}
               PROVE  IF opt.delete_after THEN disk = EmptyTable
                      ELSE \A f \in DOMAIN disk : AcceptableFile(f)
    BY DEF KeepsOnlyWanted
  <2>1. \A f \in DOMAIN disk : ~opt.delete_after /\ AcceptableFile(f)
    BY DEF Files, Left
  <2>2. disk = [f \in DOMAIN disk |-> disk[f]]
    BY TableFacts DEF Files, Agree
  <2> QED BY <2>1, <2>2 DEF EmptyTable
<1> QED BY <1>1, <1>2, <1>3, PTL DEF Spec

=============================================================================
