------------------------- MODULE DownloadMapProofs -------------------------
(***************************************************************************)
(* What convert.c's tables guarantee for all URLs, files and histories:    *)
(* every URL in dl_url_file_map points to a file that has an owner and is  *)
(* on the disk; and, for the ways of naming files in NamesAssumption, the  *)
(* file holds what the URL led to, and its owner is what it holds.         *)
(***************************************************************************)
EXTENDS DownloadMap, TLAPS

(***************************************************************************)
(* What each function on the tables does to them: the lemmas that these    *)
(* proofs and those about the callers, RetrieveUrlProofs and               *)
(* RetrieveTreeProofs, cite.                                               *)
(***************************************************************************)
\* Well-typed tables, as a set.
Tables == [dl_file_url_map : Partial(LocalFiles, Urls),
           dl_url_file_map : Partial(Urls, LocalFiles),
           downloaded_html_set : SUBSET LocalFiles,
           downloaded_css_set : SUBSET LocalFiles]

\* A table is a member of Partial, which is how the provers know it.
LEMMA PartialIs ==
    ASSUME NEW S, NEW T, NEW t
    PROVE  /\ t \in Partial(S, T) <=>
                 /\ t = [k \in DOMAIN t |-> t[k]]
                 /\ DOMAIN t \subseteq S
                 /\ \A k \in DOMAIN t : t[k] \in T
           /\ t \in Partial(S, T) <=> IsTable(t, S, T)
BY DEF Partial, IsTable

\* hash_table_put and hash_table_remove keep a table a table.
LEMMA PutPartial ==
    ASSUME NEW S, NEW T, NEW t \in Partial(S, T), NEW k \in S, NEW v \in T
    PROVE  Put(t, k, v) \in Partial(S, T)
<1>1. DOMAIN Put(t, k, v) \in SUBSET S
  BY PartialIs DEF Put
<1>2. \A x \in DOMAIN Put(t, k, v) : Put(t, k, v)[x] \in T
  BY PartialIs DEF Put
<1> QED
  BY <1>1, <1>2, PartialIs DEF Put

\* A table with fewer keys is a table.
LEMMA RestrictPartial ==
    ASSUME NEW S, NEW T, NEW t \in Partial(S, T), NEW D \in SUBSET DOMAIN t
    PROVE  Restrict(t, D) \in Partial(S, T)
BY PartialIs DEF Restrict

\* Tables are what TypeOK says they are.
LEMMA TablesAre ==
    ASSUME NEW m PROVE m \in Tables <=> AreTables(m)
BY PartialIs DEF Tables, AreTables

\* dissociate_urls_from_file forgets exactly the URLs of the file.
LEMMA Dissociates ==
    ASSUME NEW m \in Tables, NEW file
    PROVE  LET d == dissociate_urls_from_file(m, file)
           IN  /\ d \in Tables
               /\ d.dl_file_url_map = m.dl_file_url_map
               /\ DOMAIN d.dl_url_file_map \subseteq DOMAIN m.dl_url_file_map
               /\ \A u \in DOMAIN d.dl_url_file_map :
                     /\ d.dl_url_file_map[u] = m.dl_url_file_map[u]
                     /\ d.dl_url_file_map[u] # file
               /\ \A u \in DOMAIN m.dl_url_file_map :
                     m.dl_url_file_map[u] # file => u \in DOMAIN d.dl_url_file_map
<1> DEFINE t == m.dl_url_file_map
           D == {u \in DOMAIN t : t[u] # file}
           d == dissociate_urls_from_file(m, file)
<1>1. t \in Partial(Urls, LocalFiles)
  BY DEF Tables
<1>2. Restrict(t, D) \in Partial(Urls, LocalFiles)
  BY <1>1, RestrictPartial
<1>3. d = [m EXCEPT !.dl_url_file_map = Restrict(t, D)]
  BY DEF dissociate_urls_from_file, Tables
<1>4. d \in Tables
  BY <1>2, <1>3 DEF Tables
<1>5. d.dl_url_file_map = Restrict(t, D) /\ d.dl_file_url_map = m.dl_file_url_map
  BY <1>3 DEF Tables
<1> QED
  BY <1>4, <1>5 DEF Restrict

\* register_download keeps the tables well-typed and every URL owned.  If the file
\* is the URL's already, nothing changes (and url may have lost its entry).
\* Otherwise the URL is added, and the other URLs of the file stay only if its
\* owner does, as another name for the same directory index.
LEMMA Registers ==
    ASSUME NEW m \in Tables, NEW url \in Urls, NEW file \in LocalFiles
    PROVE  LET r == register_download(m, url, file)
               owned == file \in DOMAIN m.dl_file_url_map
               kept == owned /\ r.dl_file_url_map[file] = m.dl_file_url_map[file]
           IN  /\ r \in Tables
               /\ Owned(m) => Owned(r)
               /\ DOMAIN r.dl_file_url_map = DOMAIN m.dl_file_url_map \cup {file}
               /\ \A g \in DOMAIN m.dl_file_url_map \ {file} :
                     r.dl_file_url_map[g] = m.dl_file_url_map[g]
               /\ \/ r.dl_file_url_map[file] = url
                  \/ kept /\ match_except_index(url, m.dl_file_url_map[file])
               /\ owned /\ url = m.dl_file_url_map[file] => r = m
               /\ ~(owned /\ url = m.dl_file_url_map[file]) =>
                     /\ url \in DOMAIN r.dl_url_file_map
                     /\ r.dl_url_file_map[url] = file
                     /\ \A u \in DOMAIN r.dl_url_file_map \ {url} :
                           /\ u \in DOMAIN m.dl_url_file_map
                           /\ r.dl_url_file_map[u] = m.dl_url_file_map[u]
                           /\ m.dl_url_file_map[u] = file => ~owned \/ kept
                     /\ \A u \in DOMAIN m.dl_url_file_map :
                           m.dl_url_file_map[u] # file \/ kept
                             => u \in DOMAIN r.dl_url_file_map
<1> DEFINE taken == file \in DOMAIN m.dl_file_url_map
           old == m.dl_file_url_map[file]
           alias == /\ match_except_index(url, old)
                    /\ url \notin DOMAIN m.dl_url_file_map
           freed == IF taken /\ ~alias THEN dissociate_urls_from_file(m, file)
                    ELSE m
           owners == IF taken /\ alias THEN freed.dl_file_url_map
                     ELSE Put(freed.dl_file_url_map, file, url)
           r == register_download(m, url, file)
<1>1. CASE taken /\ url = old
  <2>1. r = m
    BY <1>1 DEF register_download
  <2>2. match_except_index(url, old)
    BY <1>1 DEF match_except_index
  <2> QED BY <1>1, <2>1, <2>2
<1>2. CASE ~(taken /\ url = old)
  <2>1. /\ freed \in Tables
        /\ freed.dl_file_url_map = m.dl_file_url_map
        /\ \A u \in DOMAIN freed.dl_url_file_map :
              /\ u \in DOMAIN m.dl_url_file_map
              /\ freed.dl_url_file_map[u] = m.dl_url_file_map[u]
              /\ m.dl_url_file_map[u] = file => ~taken \/ alias
        /\ \A u \in DOMAIN m.dl_url_file_map :
              m.dl_url_file_map[u] # file \/ (taken /\ alias)
                => u \in DOMAIN freed.dl_url_file_map
    BY Dissociates
  <2>2. r = [freed EXCEPT !.dl_file_url_map = owners,
                          !.dl_url_file_map = Put(@, url, file)]
    BY <1>2, <2>1 DEF register_download, Tables
  <2> HIDE DEF freed
  <2>3. owners \in Partial(LocalFiles, Urls)
    BY <2>1, PutPartial DEF Tables
  <2>4. Put(freed.dl_url_file_map, url, file) \in Partial(Urls, LocalFiles)
    BY <2>1, PutPartial DEF Tables
  <2>5. /\ DOMAIN owners = DOMAIN m.dl_file_url_map \cup {file}
        /\ \A g \in DOMAIN m.dl_file_url_map \ {file} : owners[g] = m.dl_file_url_map[g]
        /\ taken /\ alias => owners[file] = old
        /\ ~(taken /\ alias) => owners[file] = url
    BY <2>1 DEF Put
  <2> HIDE DEF owners
  <2>6. /\ r \in Tables
        /\ r.dl_file_url_map = owners
        /\ r.dl_url_file_map = Put(freed.dl_url_file_map, url, file)
    BY <2>1, <2>2, <2>3, <2>4 DEF Tables
  <2> HIDE DEF r
  <2>7. (taken /\ r.dl_file_url_map[file] = old) <=> (taken /\ alias)
    BY <1>2, <2>5, <2>6
  <2>8. /\ url \in DOMAIN r.dl_url_file_map
        /\ r.dl_url_file_map[url] = file
        /\ \A u \in DOMAIN r.dl_url_file_map \ {url} :
              /\ u \in DOMAIN m.dl_url_file_map
              /\ r.dl_url_file_map[u] = m.dl_url_file_map[u]
              /\ m.dl_url_file_map[u] = file => ~taken \/ alias
        /\ \A u \in DOMAIN m.dl_url_file_map :
              m.dl_url_file_map[u] # file \/ (taken /\ alias)
                => u \in DOMAIN r.dl_url_file_map
    BY <2>1, <2>6 DEF Put
  <2>9. Owned(m) => Owned(r)
    BY <2>5, <2>6, <2>8 DEF Owned
  <2>10. \/ r.dl_file_url_map[file] = url
         \/ taken /\ r.dl_file_url_map[file] = old /\ match_except_index(url, old)
    BY <2>5, <2>6
  <2> QED BY <1>2, <2>5, <2>6, <2>7, <2>8, <2>9, <2>10 DEF r
<1> QED BY <1>1, <1>2

\* register_redirection, when its assertion holds: from is added with to's file,
\* unless it has one.
LEMMA Redirects ==
    ASSUME NEW m \in Tables, NEW from \in Urls, NEW to \in DOMAIN m.dl_url_file_map
    PROVE  LET r == register_redirection(m, from, to)
           IN  /\ r \in Tables
               /\ r.dl_file_url_map = m.dl_file_url_map
               /\ DOMAIN r.dl_url_file_map = DOMAIN m.dl_url_file_map \cup {from}
               /\ \A u \in DOMAIN m.dl_url_file_map :
                     r.dl_url_file_map[u] = m.dl_url_file_map[u]
               /\ from \notin DOMAIN m.dl_url_file_map =>
                     r.dl_url_file_map[from] = m.dl_url_file_map[to]
<1> DEFINE t == m.dl_url_file_map
           new == IF from \in DOMAIN t THEN t ELSE Put(t, from, t[to])
           r == register_redirection(m, from, to)
<1>1. t \in Partial(Urls, LocalFiles) /\ t[to] \in LocalFiles
  BY PartialIs DEF Tables
<1>2. new \in Partial(Urls, LocalFiles)
  BY <1>1, PutPartial
<1>3. r = [m EXCEPT !.dl_url_file_map = new]
  BY DEF register_redirection, Tables
<1>4. /\ DOMAIN new = DOMAIN t \cup {from}
      /\ \A u \in DOMAIN t : new[u] = t[u]
      /\ from \notin DOMAIN t => new[from] = t[to]
  BY DEF Put
<1> HIDE DEF new
<1>5. r \in Tables
  BY <1>2, <1>3 DEF Tables
<1>6. r.dl_url_file_map = new /\ r.dl_file_url_map = m.dl_file_url_map
  BY <1>3 DEF Tables
<1> QED BY <1>4, <1>5, <1>6

\* register_delete_file: an unowned file is left alone, an owned one is
\* forgotten together with all its URLs.
LEMMA Deletes ==
    ASSUME NEW m \in Tables, NEW file, Owned(m)
    PROVE  LET r == register_delete_file(m, file)
           IN  /\ r \in Tables
               /\ Owned(r)
               /\ DOMAIN r.dl_file_url_map = DOMAIN m.dl_file_url_map \ {file}
               /\ \A g \in DOMAIN r.dl_file_url_map :
                     r.dl_file_url_map[g] = m.dl_file_url_map[g]
               /\ \A u \in DOMAIN r.dl_url_file_map :
                     /\ u \in DOMAIN m.dl_url_file_map
                     /\ r.dl_url_file_map[u] = m.dl_url_file_map[u]
                     /\ r.dl_url_file_map[u] # file
               /\ \A u \in DOMAIN m.dl_url_file_map :
                     m.dl_url_file_map[u] # file => u \in DOMAIN r.dl_url_file_map
<1> DEFINE r == register_delete_file(m, file)
           owners == Restrict(m.dl_file_url_map, DOMAIN m.dl_file_url_map \ {file})
           d == [m EXCEPT !.dl_file_url_map = owners]
<1>1. CASE file \notin DOMAIN m.dl_file_url_map
  <2>1. r = m
    BY <1>1 DEF register_delete_file
  <2> QED BY <1>1, <2>1 DEF Owned
<1>2. CASE file \in DOMAIN m.dl_file_url_map
  <2>1. r = dissociate_urls_from_file(d, file)
    BY <1>2 DEF register_delete_file, WithoutKey, Tables
  <2>2. owners \in Partial(LocalFiles, Urls)
    BY RestrictPartial DEF Tables
  <2>3. /\ d \in Tables
        /\ d.dl_file_url_map = owners
        /\ d.dl_url_file_map = m.dl_url_file_map
    BY <2>2 DEF Tables
  <2>4. /\ DOMAIN owners = DOMAIN m.dl_file_url_map \ {file}
        /\ \A g \in DOMAIN owners : owners[g] = m.dl_file_url_map[g]
    BY DEF Restrict
  <2> HIDE DEF owners, d
  <2>5. /\ r \in Tables
        /\ r.dl_file_url_map = owners
        /\ \A u \in DOMAIN r.dl_url_file_map :
              /\ u \in DOMAIN m.dl_url_file_map
              /\ r.dl_url_file_map[u] = m.dl_url_file_map[u]
              /\ r.dl_url_file_map[u] # file
        /\ \A u \in DOMAIN m.dl_url_file_map :
              m.dl_url_file_map[u] # file => u \in DOMAIN r.dl_url_file_map
    BY <2>1, <2>3, Dissociates
  <2>6. Owned(r)
    BY <2>4, <2>5 DEF Owned
  <2> QED BY <2>4, <2>5, <2>6
<1> QED BY <1>1, <1>2

\* The tables a run starts with.
LEMMA EmptyTables ==
    /\ NoMaps \in Tables
    /\ \A S, T : EmptyTable \in Partial(S, T)
<1>1. ASSUME NEW S, NEW T PROVE EmptyTable \in Partial(S, T)
  <2>1. EmptyTable \in [{} -> T]
    BY DEF EmptyTable
  <2> QED BY <2>1 DEF Partial
<1>2. NoMaps \in Tables
  BY <1>1 DEF NoMaps, Tables
<1> QED BY <1>1, <1>2

-----------------------------------------------------------------------------
\* register_html and register_css only add to the sets.
LEMMA TypedTables ==
    ASSUME NEW m \in Tables, NEW url, NEW file \in LocalFiles
    PROVE  LET r == Typed(m, url, file)
           IN  /\ r \in Tables
               /\ r.dl_file_url_map = m.dl_file_url_map
               /\ r.dl_url_file_map = m.dl_url_file_map
BY DEF Typed, register_html, register_css, Tables

-----------------------------------------------------------------------------
\* The tables' keys and values are what they should be, every URL's file has an
\* owner, and it is there.  FilesExist needs UrlsHaveFiles: register_delete_file
\* returns early for a file without an owner, which would leave its URLs.

LEMMA StartsConsistent == Init => TablesConsistent
<1> SUFFICES ASSUME Init PROVE TablesConsistent
  OBVIOUS
<1>1. EmptyTable \in Partial(LocalFiles, Urls) /\ NoMaps \in Tables
  BY EmptyTables
<1> QED
  BY <1>1, PartialIs, TablesAre
     DEF Init, TablesConsistent, TypeOK, UrlsHaveFiles, FilesExist, NoMaps, EmptyTable

LEMMA StaysConsistent ==
    ASSUME TablesConsistent, [Next]_vars
    PROVE  TablesConsistent'
<1> USE DEF TablesConsistent, TypeOK
<1>0. /\ disk \in Partial(LocalFiles, Urls) /\ maps \in Tables
      /\ Owned(maps) <=> UrlsHaveFiles
  BY PartialIs, TablesAre DEF Owned, UrlsHaveFiles
<1>1. ASSUME NEW from \in Urls, NEW url \in Urls, NEW file \in LocalFiles,
             Download(from, url, file)
      PROVE  TablesConsistent'
  <2> DEFINE saved == register_download(maps, url, file)
             known == IF from = url THEN saved
                      ELSE register_redirection(saved, from, url)
  <2>1. /\ saved \in Tables /\ Owned(saved)
        /\ \A u \in DOMAIN saved.dl_url_file_map :
              \/ saved.dl_url_file_map[u] = file
              \/ /\ u \in DOMAIN maps.dl_url_file_map
                 /\ saved.dl_url_file_map[u] = maps.dl_url_file_map[u]
    BY <1>0, Registers
  <2>2. /\ asserted' = (from # url /\ url \notin DOMAIN saved.dl_url_file_map)
        /\ UNCHANGED opt
    BY <1>1 DEF Download
  <2>3. maps' = IF asserted' THEN saved ELSE Typed(known, url, file)
    BY <1>1 DEF Download
  <2>4. disk' = Put(disk, file, Saved(url, file)) /\ led' = led \cup {<<from, url>>}
    BY <1>1 DEF Download
  <2> HIDE DEF saved
  <2>5. ASSUME ~asserted'
        PROVE  /\ known \in Tables /\ Owned(known)
               /\ \A u \in DOMAIN known.dl_url_file_map :
                     \E v \in DOMAIN saved.dl_url_file_map :
                        known.dl_url_file_map[u] = saved.dl_url_file_map[v]
    <3>1. CASE from = url
      BY <2>1, <3>1
    <3>2. CASE from # url
      <4>1. url \in DOMAIN saved.dl_url_file_map
        BY <2>2, <2>5, <3>2
      <4>2. /\ known \in Tables
            /\ known.dl_file_url_map = saved.dl_file_url_map
            /\ \A u \in DOMAIN known.dl_url_file_map :
                  \E v \in DOMAIN saved.dl_url_file_map :
                     known.dl_url_file_map[u] = saved.dl_url_file_map[v]
        BY <2>1, <3>2, <4>1, Redirects
      <4> QED BY <2>1, <4>2 DEF Owned
    <3> QED BY <3>1, <3>2
  <2> HIDE DEF known
  <2>6. /\ maps' \in Tables /\ Owned(maps')
        /\ \A u \in DOMAIN maps'.dl_url_file_map :
              \E v \in DOMAIN saved.dl_url_file_map :
                 maps'.dl_url_file_map[u] = saved.dl_url_file_map[v]
    <3>1. CASE asserted'
      BY <2>1, <2>3, <3>1
    <3>2. CASE ~asserted'
      <4>1. /\ maps' \in Tables
            /\ maps'.dl_file_url_map = known.dl_file_url_map
            /\ maps'.dl_url_file_map = known.dl_url_file_map
        BY <2>3, <2>5, <3>2, TypedTables
      <4> QED BY <2>5, <3>2, <4>1 DEF Owned
    <3> QED BY <3>1, <3>2
  <2>7. Saved(url, file) \in Urls
    BY <1>0, PartialIs DEF Saved
  <2>8. disk' \in Partial(LocalFiles, Urls)
    BY <1>0, <2>4, <2>7, PutPartial
  <2>9. file \in DOMAIN disk' /\ DOMAIN disk \subseteq DOMAIN disk'
    BY <2>4 DEF Put
  <2>10. UrlsHaveFiles'
    BY <2>6 DEF Owned, UrlsHaveFiles
  <2>11. FilesExist'
    BY <2>1, <2>6, <2>9 DEF FilesExist
  <2>12. TypeOK'
    BY <2>2, <2>4, <2>6, <2>8, PartialIs, TablesAre
  <2> QED BY <2>10, <2>11, <2>12
<1>2. ASSUME NEW url \in Urls, NEW file \in LocalFiles, Fail(url, file)
      PROVE  TablesConsistent'
  <2>1. disk' = Put(disk, file, Saved(url, file)) /\ UNCHANGED <<opt, maps, led, asserted>>
    BY <1>2 DEF Fail
  <2>2. Saved(url, file) \in Urls
    BY <1>0, PartialIs DEF Saved
  <2>3. disk' \in Partial(LocalFiles, Urls) /\ DOMAIN disk \subseteq DOMAIN disk'
    BY <1>0, <2>1, <2>2, PutPartial DEF Put
  <2> QED BY <2>1, <2>3, PartialIs DEF UrlsHaveFiles, FilesExist
<1>3. ASSUME NEW file \in LocalFiles, Delete(file)
      PROVE  TablesConsistent'
  <2>1. /\ disk' = Restrict(disk, DOMAIN disk \ {file})
        /\ maps' = register_delete_file(maps, file)
        /\ UNCHANGED <<opt, led, asserted>>
    BY <1>3 DEF Delete, WithoutKey
  <2>2. /\ maps' \in Tables /\ Owned(maps')
        /\ \A u \in DOMAIN maps'.dl_url_file_map :
              /\ u \in DOMAIN maps.dl_url_file_map
              /\ maps'.dl_url_file_map[u] = maps.dl_url_file_map[u]
              /\ maps'.dl_url_file_map[u] # file
    BY <1>0, <2>1, Deletes
  <2>3. /\ disk' \in Partial(LocalFiles, Urls)
        /\ DOMAIN disk' = DOMAIN disk \ {file}
    BY <1>0, <2>1, RestrictPartial DEF Restrict
  <2>4. UrlsHaveFiles'
    BY <2>2 DEF Owned, UrlsHaveFiles
  <2>5. FilesExist'
    BY <2>2, <2>3 DEF FilesExist
  <2>6. TypeOK'
    BY <2>1, <2>2, <2>3, PartialIs, TablesAre
  <2> QED BY <2>4, <2>5, <2>6
<1>4. CASE UNCHANGED vars
  BY <1>4 DEF vars, UrlsHaveFiles, FilesExist
<1> QED
  BY <1>1, <1>2, <1>3, <1>4 DEF Next

\* The tables map files to URLs and URLs to files; a URL never points to a file
\* without an owner, which the comment in register_download claims, nor to a file
\* that has been deleted.
THEOREM TablesStayConsistent == Spec => []TablesConsistent
BY StartsConsistent, StaysConsistent, PTL DEF Spec

-----------------------------------------------------------------------------
\* What a download does to the tables: the file has an owner, which is url or
\* another name of its index; a URL keeps its file, or is url or from and gets
\* this one; only URLs of this file are lost.
LEMMA DownloadDoes ==
    ASSUME TablesConsistent, NEW from \in Urls, NEW url \in Urls, NEW file \in LocalFiles,
           Download(from, url, file)
    PROVE  LET fm == maps.dl_file_url_map
               um == maps.dl_url_file_map
               fn == maps'.dl_file_url_map
               un == maps'.dl_url_file_map
               same == file \in DOMAIN fm /\ url = fm[file]
               kept == file \in DOMAIN fm /\ fn[file] = fm[file]
           IN  /\ DOMAIN fn = DOMAIN fm \cup {file}
               /\ \A g \in DOMAIN fm \ {file} : fn[g] = fm[g]
               /\ fn[file] = url \/ (kept /\ match_except_index(url, fm[file]))
               /\ asserted' <=> from # url /\ same /\ url \notin DOMAIN um
               /\ \A u \in DOMAIN un :
                     \/ u \in DOMAIN um /\ un[u] = um[u] /\ (um[u] = file => kept)
                     \/ ~same /\ un[u] = file /\ u \in {from, url}
                     \/ u = from /\ same /\ url \in DOMAIN um /\ un[u] = um[url]
               /\ \A u \in DOMAIN um :
                     um[u] # file \/ kept =>
                        u \in DOMAIN un /\ (u = url \/ un[u] = um[u])
               /\ same => kept /\ \A u \in DOMAIN um : u \in DOMAIN un /\ un[u] = um[u]
               /\ ~same => url \in DOMAIN un /\ un[url] = file
               /\ ~asserted' => from \in DOMAIN un \/ from = url
<1> DEFINE fm == maps.dl_file_url_map
           um == maps.dl_url_file_map
           same == file \in DOMAIN fm /\ url = fm[file]
           saved == register_download(maps, url, file)
           kept == file \in DOMAIN fm /\ saved.dl_file_url_map[file] = fm[file]
           known == IF from = url THEN saved
                    ELSE register_redirection(saved, from, url)
<1>1. maps \in Tables /\ Owned(maps)
  BY TablesAre DEF TablesConsistent, TypeOK, UrlsHaveFiles, Owned
<1>2. /\ saved \in Tables
      /\ DOMAIN saved.dl_file_url_map = DOMAIN fm \cup {file}
      /\ \A g \in DOMAIN fm \ {file} : saved.dl_file_url_map[g] = fm[g]
      /\ \/ saved.dl_file_url_map[file] = url
         \/ kept /\ match_except_index(url, fm[file])
      /\ same => saved = maps
      /\ ~same =>
            /\ url \in DOMAIN saved.dl_url_file_map
            /\ saved.dl_url_file_map[url] = file
            /\ \A u \in DOMAIN saved.dl_url_file_map \ {url} :
                  /\ u \in DOMAIN um
                  /\ saved.dl_url_file_map[u] = um[u]
                  /\ um[u] = file => file \notin DOMAIN fm \/ kept
            /\ \A u \in DOMAIN um :
                  um[u] # file \/ kept => u \in DOMAIN saved.dl_url_file_map
  BY <1>1, Registers
<1>3. \A u \in DOMAIN um : um[u] \in DOMAIN fm
  BY <1>1 DEF Owned
<1>4. /\ asserted' = (from # url /\ url \notin DOMAIN saved.dl_url_file_map)
      /\ maps' = IF asserted' THEN saved ELSE Typed(known, url, file)
  BY DEF Download
<1> HIDE DEF saved
<1>5. ASSUME ~asserted'
      PROVE  /\ known \in Tables
             /\ known.dl_file_url_map = saved.dl_file_url_map
             /\ DOMAIN saved.dl_url_file_map \subseteq DOMAIN known.dl_url_file_map
             /\ \A u \in DOMAIN saved.dl_url_file_map :
                   known.dl_url_file_map[u] = saved.dl_url_file_map[u]
             /\ from \in DOMAIN known.dl_url_file_map \/ from = url
             /\ \A u \in DOMAIN known.dl_url_file_map :
                   \/ u \in DOMAIN saved.dl_url_file_map
                   \/ /\ u = from /\ url \in DOMAIN saved.dl_url_file_map
                      /\ known.dl_url_file_map[u] = saved.dl_url_file_map[url]
  <2>1. CASE from = url
    BY <1>2, <2>1
  <2>2. CASE from # url
    <3>1. known = register_redirection(saved, from, url)
      BY <2>2
    <3>2. url \in DOMAIN saved.dl_url_file_map
      BY <1>4, <1>5, <2>2
    <3> HIDE DEF known
    <3> QED BY <1>2, <3>1, <3>2, Redirects
  <2> QED BY <2>1, <2>2
<1> HIDE DEF known
<1>6. /\ maps'.dl_file_url_map = saved.dl_file_url_map
      /\ DOMAIN saved.dl_url_file_map \subseteq DOMAIN maps'.dl_url_file_map
      /\ \A u \in DOMAIN saved.dl_url_file_map :
            maps'.dl_url_file_map[u] = saved.dl_url_file_map[u]
      /\ ~asserted' => from \in DOMAIN maps'.dl_url_file_map \/ from = url
      /\ \A u \in DOMAIN maps'.dl_url_file_map :
            \/ u \in DOMAIN saved.dl_url_file_map
            \/ /\ u = from /\ url \in DOMAIN saved.dl_url_file_map
               /\ maps'.dl_url_file_map[u] = saved.dl_url_file_map[url]
  <2>1. CASE asserted'
    BY <1>4, <2>1
  <2>2. CASE ~asserted'
    BY <1>4, <1>5, <2>2, TypedTables
  <2> QED BY <2>1, <2>2
<1> DEFINE fn == maps'.dl_file_url_map
           un == maps'.dl_url_file_map
<1>7. CASE same
  <2>1. saved = maps
    BY <1>2, <1>7
  <2> QED BY <1>2, <1>4, <1>6, <1>7, <2>1
<1>8. CASE ~same
  <2>1. url \in DOMAIN un /\ un[url] = file
    BY <1>2, <1>6, <1>8
  <2>2. ASSUME NEW u \in DOMAIN un, u # url
        PROVE  \/ u \in DOMAIN um /\ un[u] = um[u] /\ (um[u] = file => kept)
               \/ un[u] = file /\ u = from
    BY <1>2, <1>3, <1>6, <1>8, <2>2
  <2>3. ASSUME NEW u \in DOMAIN um, um[u] # file \/ kept
        PROVE  u \in DOMAIN un /\ (u = url \/ un[u] = um[u])
    BY <1>2, <1>6, <1>8, <2>3
  <2> QED BY <1>2, <1>4, <1>6, <1>8, <2>1, <2>2, <2>3
<1> QED BY <1>7, <1>8

\* What a deletion does to the disk and the tables.
LEMMA DeleteDoes ==
    ASSUME TablesConsistent, NEW file \in LocalFiles, Delete(file)
    PROVE  /\ UNCHANGED <<opt, led, asserted>>
           /\ DOMAIN disk' = DOMAIN disk \ {file}
           /\ \A f \in DOMAIN disk' : disk'[f] = disk[f]
           /\ DOMAIN maps'.dl_file_url_map = DOMAIN maps.dl_file_url_map \ {file}
           /\ \A g \in DOMAIN maps'.dl_file_url_map :
                 maps'.dl_file_url_map[g] = maps.dl_file_url_map[g]
           /\ \A u \in DOMAIN maps'.dl_url_file_map :
                 /\ u \in DOMAIN maps.dl_url_file_map
                 /\ maps'.dl_url_file_map[u] = maps.dl_url_file_map[u]
                 /\ maps'.dl_url_file_map[u] # file
           /\ \A u \in DOMAIN maps.dl_url_file_map :
                 maps.dl_url_file_map[u] # file => u \in DOMAIN maps'.dl_url_file_map
<1>1. /\ disk' = Restrict(disk, DOMAIN disk \ {file})
      /\ maps' = register_delete_file(maps, file)
      /\ UNCHANGED <<opt, led, asserted>>
  BY DEF Delete, WithoutKey
<1>2. maps \in Tables /\ Owned(maps)
  BY TablesAre DEF TablesConsistent, TypeOK, UrlsHaveFiles, Owned
<1>3. DOMAIN disk' = DOMAIN disk \ {file} /\ \A f \in DOMAIN disk' : disk'[f] = disk[f]
  BY <1>1 DEF Restrict
<1>4. PICK m \in Tables : m = maps
  BY <1>2
<1>5. Owned(m) /\ maps' = register_delete_file(m, file)
  BY <1>1, <1>2, <1>4
<1>6. LET r == register_delete_file(m, file)
      IN  /\ DOMAIN r.dl_file_url_map = DOMAIN m.dl_file_url_map \ {file}
          /\ \A g \in DOMAIN r.dl_file_url_map :
                r.dl_file_url_map[g] = m.dl_file_url_map[g]
          /\ \A u \in DOMAIN r.dl_url_file_map :
                /\ u \in DOMAIN m.dl_url_file_map
                /\ r.dl_url_file_map[u] = m.dl_url_file_map[u]
                /\ r.dl_url_file_map[u] # file
          /\ \A u \in DOMAIN m.dl_url_file_map :
                m.dl_url_file_map[u] # file => u \in DOMAIN r.dl_url_file_map
  BY <1>5, Deletes
<1> QED BY <1>1, <1>3, <1>4, <1>5, <1>6

\* Every file that is registered exists, and has the name of its owner and of what
\* it holds.
Named ==
    /\ \A f \in DOMAIN disk : <<disk[f], f>> \in opt.naming
    /\ \A f \in DOMAIN maps.dl_file_url_map :
          f \in DOMAIN disk /\ <<maps.dl_file_url_map[f], f>> \in opt.naming

\* What a download and a failure do to the disk.
LEMMA DiskAfter ==
    ASSUME TablesConsistent, NEW url \in Urls, NEW file \in LocalFiles,
           file \in Names(url), disk' = Put(disk, file, Saved(url, file))
    PROVE  /\ <<url, file>> \in opt.naming
           /\ file \in DOMAIN disk => opt.conflict # "unique"
           /\ DOMAIN disk' = DOMAIN disk \cup {file}
           /\ \A f \in DOMAIN disk \ {file} : disk'[f] = disk[f]
           /\ disk'[file] \in Urls
           /\ \/ disk'[file] = url
              \/ /\ opt.conflict = "keep"
                 /\ file \in DOMAIN disk /\ disk'[file] = disk[file]
BY PartialIs DEF TablesConsistent, TypeOK, IsTable, Names, Saved, Put

\* Files get their names from their URLs, and an owner is one of them.
LEMMA NamedStays ==
    ASSUME TablesConsistent, Named, [Next]_vars
    PROVE  Named'
<1>1. ASSUME NEW from \in Urls, NEW url \in Urls, NEW file \in LocalFiles,
             Download(from, url, file)
      PROVE  Named'
  <2>1. file \in Names(url) /\ disk' = Put(disk, file, Saved(url, file)) /\ opt' = opt
    BY <1>1 DEF Download
  <2>2. \A f \in DOMAIN disk' : <<disk'[f], f>> \in opt.naming
    BY <2>1, DiskAfter DEF Named
  <2>3. \A f \in DOMAIN maps'.dl_file_url_map :
           f \in DOMAIN disk' /\ <<maps'.dl_file_url_map[f], f>> \in opt.naming
    <3>1. /\ <<url, file>> \in opt.naming
          /\ DOMAIN disk' = DOMAIN disk \cup {file}
      BY <2>1, DiskAfter
    <3>2. /\ DOMAIN maps'.dl_file_url_map = DOMAIN maps.dl_file_url_map \cup {file}
          /\ \A g \in DOMAIN maps.dl_file_url_map \ {file} :
                maps'.dl_file_url_map[g] = maps.dl_file_url_map[g]
          /\ \/ maps'.dl_file_url_map[file] = url
             \/ /\ file \in DOMAIN maps.dl_file_url_map
                /\ maps'.dl_file_url_map[file] = maps.dl_file_url_map[file]
      BY <1>1, DownloadDoes
    <3> QED BY <3>1, <3>2 DEF Named
  <2> QED BY <2>1, <2>2, <2>3 DEF Named
<1>2. ASSUME NEW url \in Urls, NEW file \in LocalFiles, Fail(url, file)
      PROVE  Named'
  <2>1. file \in Names(url) /\ disk' = Put(disk, file, Saved(url, file))
        /\ opt' = opt /\ maps' = maps
    BY <1>2 DEF Fail
  <2> QED BY <2>1, DiskAfter DEF Named
<1>3. ASSUME NEW file \in LocalFiles, Delete(file)
      PROVE  Named'
  BY <1>3, DeleteDoes DEF Named
<1>4. CASE UNCHANGED vars
  BY <1>4 DEF vars, Named
<1> QED BY <1>1, <1>2, <1>3, <1>4 DEF Next

-----------------------------------------------------------------------------
\* If a URL has one name, the owner of a file points to that file, so that a second
\* download of it finds its entry: the early return of register_download is right.
OwnersPoint ==
    \A f \in DOMAIN maps.dl_file_url_map :
        /\ maps.dl_file_url_map[f] \in DOMAIN maps.dl_url_file_map
        /\ maps.dl_url_file_map[maps.dl_file_url_map[f]] = f

Led(u, v) == v = u \/ <<u, v>> \in led

\* ... and a URL was led to one that has the name of its file and is, but for
\* /index.html, the owner of it.
LinksOwned ==
    \A u \in DOMAIN maps.dl_url_file_map :
        \E v \in Urls :
            /\ Led(u, v)
            /\ <<v, maps.dl_url_file_map[u]>> \in opt.naming
            /\ match_except_index(v, maps.dl_file_url_map[maps.dl_url_file_map[u]])

Settled == OwnersPoint /\ LinksOwned /\ ~asserted

\* As long as a URL has one name, the tables and the disk stay settled.
LEMMA SettledStays ==
    ASSUME TablesConsistent, Named, OneName(opt), Settled, [Next]_vars
    PROVE  Settled'
<1>0. /\ DOMAIN maps.dl_url_file_map \subseteq Urls
      /\ \A u \in DOMAIN maps.dl_url_file_map :
            /\ maps.dl_url_file_map[u] \in LocalFiles
            /\ maps.dl_url_file_map[u] \in DOMAIN maps.dl_file_url_map
      /\ DOMAIN maps.dl_file_url_map \subseteq LocalFiles
      /\ \A f \in DOMAIN maps.dl_file_url_map : maps.dl_file_url_map[f] \in Urls
  BY DEF TablesConsistent, TypeOK, AreTables, IsTable, UrlsHaveFiles
<1>1. ASSUME NEW from \in Urls, NEW url \in Urls, NEW file \in LocalFiles,
             Download(from, url, file)
      PROVE  Settled'
  <2> DEFINE fm == maps.dl_file_url_map
             um == maps.dl_url_file_map
             fn == maps'.dl_file_url_map
             un == maps'.dl_url_file_map
             same == file \in DOMAIN fm /\ url = fm[file]
             kept == file \in DOMAIN fm /\ fn[file] = fm[file]
  <2>1. opt' = opt /\ led' = led \cup {<<from, url>>} /\ <<url, file>> \in opt.naming
    BY <1>1 DEF Download, Names
  <2>2. /\ DOMAIN fn = DOMAIN fm \cup {file}
        /\ \A g \in DOMAIN fm \ {file} : fn[g] = fm[g]
        /\ fn[file] = url \/ (kept /\ match_except_index(url, fm[file]))
        /\ asserted' <=> from # url /\ same /\ url \notin DOMAIN um
        /\ \A u \in DOMAIN un :
              \/ u \in DOMAIN um /\ un[u] = um[u] /\ (um[u] = file => kept)
              \/ ~same /\ un[u] = file /\ u \in {from, url}
              \/ u = from /\ same /\ url \in DOMAIN um /\ un[u] = um[url]
        /\ \A u \in DOMAIN um :
              um[u] # file \/ kept =>
                 u \in DOMAIN un /\ (u = url \/ un[u] = um[u])
        /\ same => kept /\ \A u \in DOMAIN um : u \in DOMAIN un /\ un[u] = um[u]
        /\ ~same => url \in DOMAIN un /\ un[url] = file
    BY <1>1, DownloadDoes
  <2>3. ~asserted'
    BY <2>2 DEF Settled, OwnersPoint
  <2>4. same => url \in DOMAIN um /\ um[url] = file
    BY DEF Settled, OwnersPoint
  <2>5. url \in DOMAIN un /\ un[url] = file /\ match_except_index(url, fn[file])
    BY <2>2, <2>4 DEF match_except_index
  <2>6. ASSUME NEW f \in DOMAIN fn
        PROVE  fn[f] \in DOMAIN un /\ un[fn[f]] = f
    <3>1. CASE f # file
      <4>1. fn[f] = fm[f] /\ fm[f] \in DOMAIN um /\ um[fm[f]] = f
        BY <2>2, <3>1 DEF Settled, OwnersPoint
      <4>2. fm[f] # url
        BY <1>0, <2>1, <2>2, <3>1 DEF Named, OneName
      <4> QED BY <2>2, <3>1, <4>1, <4>2
    <3>2. CASE f = file /\ fn[f] = url
      BY <2>5, <3>2
    <3>3. CASE f = file /\ fn[f] # url
      <4>1. kept /\ fm[file] \in DOMAIN um /\ um[fm[file]] = file
        BY <2>2, <3>3 DEF Settled, OwnersPoint
      <4> QED BY <2>2, <3>3, <4>1
    <3> QED BY <3>1, <3>2, <3>3
  <2>7. ASSUME NEW u \in DOMAIN un
        PROVE  \E v \in Urls : /\ v = u \/ <<u, v>> \in led'
                               /\ <<v, un[u]>> \in opt.naming
                               /\ match_except_index(v, fn[un[u]])
    <3>1. CASE u \in DOMAIN um /\ un[u] = um[u] /\ (um[u] = file => kept)
      <4>1. PICK v \in Urls : /\ Led(u, v) /\ <<v, um[u]>> \in opt.naming
                              /\ match_except_index(v, fm[um[u]])
        BY <3>1 DEF Settled, LinksOwned
      <4>2. fn[um[u]] = fm[um[u]]
        BY <1>0, <2>2, <3>1
      <4> QED BY <2>1, <3>1, <4>1, <4>2 DEF Led
    <3>2. CASE un[u] = file /\ u \in {from, url}
      BY <2>1, <2>5, <3>2
    <3>3. CASE u = from /\ same /\ url \in DOMAIN um /\ un[u] = um[url]
      BY <2>1, <2>4, <2>5, <3>3
    <3> QED BY <2>2, <3>1, <3>2, <3>3
  <2> QED BY <2>1, <2>3, <2>6, <2>7 DEF Settled, OwnersPoint, LinksOwned, Led
<1>2. ASSUME NEW url \in Urls, NEW file \in LocalFiles, Fail(url, file)
      PROVE  Settled'
  BY <1>2 DEF Fail, Settled, OwnersPoint, LinksOwned, Led
<1>3. ASSUME NEW file \in LocalFiles, Delete(file)
      PROVE  Settled'
  <2>1. UNCHANGED <<opt, led, asserted>>
    BY <1>3 DEF Delete
  <2>2. OwnersPoint'
    <3>1. ASSUME NEW f \in DOMAIN maps'.dl_file_url_map
          PROVE  /\ maps'.dl_file_url_map[f] \in DOMAIN maps'.dl_url_file_map
                 /\ maps'.dl_url_file_map[maps'.dl_file_url_map[f]] = f
      <4>1. f # file /\ f \in DOMAIN maps.dl_file_url_map
            /\ maps'.dl_file_url_map[f] = maps.dl_file_url_map[f]
        BY <1>3, DeleteDoes
      <4>2. /\ maps.dl_file_url_map[f] \in DOMAIN maps.dl_url_file_map
            /\ maps.dl_url_file_map[maps.dl_file_url_map[f]] = f
        BY <4>1 DEF Settled, OwnersPoint
      <4>3. maps.dl_file_url_map[f] \in DOMAIN maps'.dl_url_file_map
        BY <1>3, <4>1, <4>2, DeleteDoes
      <4>4. maps'.dl_url_file_map[maps.dl_file_url_map[f]]
              = maps.dl_url_file_map[maps.dl_file_url_map[f]]
        BY <1>3, <4>3, DeleteDoes
      <4> QED BY <4>1, <4>2, <4>3, <4>4, Zenon
    <3> QED BY <3>1 DEF OwnersPoint
  <2>3. LinksOwned'
    BY <1>0, <1>3, <2>1, DeleteDoes DEF Settled, LinksOwned, Led
  <2> QED BY <2>1, <2>2, <2>3 DEF Settled
<1>4. CASE UNCHANGED vars
  BY <1>4 DEF vars, Settled, OwnersPoint, LinksOwned, Led
<1> QED BY <1>1, <1>2, <1>3, <1>4 DEF Next

-----------------------------------------------------------------------------
\* Where every download completes, a file's owner is what it holds: url, or another
\* name of its index.
LEMMA OwnersStayBases ==
    ASSUME TablesConsistent, OwnerIsBase, [Next]_vars,
           opt.conflict = "clobber", ~opt.failures
    PROVE  OwnerIsBase'
<1>1. ASSUME NEW from \in Urls, NEW url \in Urls, NEW file \in LocalFiles,
             Download(from, url, file)
      PROVE  OwnerIsBase'
  <2>1. /\ disk'[file] = url
        /\ DOMAIN disk' = DOMAIN disk \cup {file}
        /\ \A f \in DOMAIN disk \ {file} : disk'[f] = disk[f]
    <3>1. file \in Names(url) /\ disk' = Put(disk, file, Saved(url, file))
      BY <1>1 DEF Download
    <3> QED BY <3>1, DiskAfter
  <2>2. /\ \A g \in DOMAIN maps'.dl_file_url_map \ {file} :
              /\ g \in DOMAIN maps.dl_file_url_map
              /\ maps'.dl_file_url_map[g] = maps.dl_file_url_map[g]
        /\ match_except_index(maps'.dl_file_url_map[file], url)
    <3>1. /\ DOMAIN maps'.dl_file_url_map = DOMAIN maps.dl_file_url_map \cup {file}
          /\ \A g \in DOMAIN maps.dl_file_url_map \ {file} :
                maps'.dl_file_url_map[g] = maps.dl_file_url_map[g]
          /\ \/ maps'.dl_file_url_map[file] = url
             \/ /\ maps'.dl_file_url_map[file] = maps.dl_file_url_map[file]
                /\ match_except_index(url, maps.dl_file_url_map[file])
      BY <1>1, DownloadDoes
    <3> QED BY <3>1 DEF match_except_index
  <2> QED BY <2>1, <2>2 DEF OwnerIsBase
<1>2. ASSUME NEW url \in Urls, NEW file \in LocalFiles, Fail(url, file)
      PROVE  OwnerIsBase'
  BY <1>2 DEF Fail
<1>3. ASSUME NEW file \in LocalFiles, Delete(file)
      PROVE  OwnerIsBase'
  BY <1>3, DeleteDoes DEF OwnerIsBase
<1>4. CASE UNCHANGED vars
  BY <1>4 DEF vars, OwnerIsBase
<1> QED BY <1>1, <1>2, <1>3, <1>4 DEF Next

\* Where existing files are left alone, a name is new when it is used: nothing that
\* points to another file is touched.
LEMMA RenamingStaysRight ==
    ASSUME TablesConsistent, Named, ConversionRight, ~asserted, [Next]_vars,
           opt.conflict = "unique"
    PROVE  ConversionRight' /\ ~asserted'
<1>0. /\ DOMAIN maps.dl_url_file_map \subseteq Urls
      /\ \A u \in DOMAIN maps.dl_url_file_map :
            /\ maps.dl_url_file_map[u] \in DOMAIN disk
            /\ \E v \in Urls : /\ v = u \/ <<u, v>> \in led
                               /\ match_except_index(v, disk[maps.dl_url_file_map[u]])
      /\ \A f \in DOMAIN maps.dl_file_url_map :
            /\ f \in DOMAIN disk
            /\ match_except_index(maps.dl_file_url_map[f], disk[f])
  BY DEF TablesConsistent, TypeOK, AreTables, IsTable, FilesExist, Named,
         ConversionRight, OwnerIsBase, LinksLeadHome, SameDocument
<1>1. ASSUME NEW from \in Urls, NEW url \in Urls, NEW file \in LocalFiles,
             Download(from, url, file)
      PROVE  ConversionRight' /\ ~asserted'
  <2> DEFINE fn == maps'.dl_file_url_map
             un == maps'.dl_url_file_map
  <2>1. /\ file \notin DOMAIN disk /\ disk'[file] = url
        /\ DOMAIN disk' = DOMAIN disk \cup {file}
        /\ \A f \in DOMAIN disk \ {file} : disk'[f] = disk[f]
        /\ led' = led \cup {<<from, url>>}
    <3>1. /\ file \in Names(url) /\ disk' = Put(disk, file, Saved(url, file))
          /\ led' = led \cup {<<from, url>>}
      BY <1>1 DEF Download
    <3> QED BY <3>1, DiskAfter
  <2>2. file \notin DOMAIN maps.dl_file_url_map
    BY <2>1 DEF Named
  <2>3. /\ \A g \in DOMAIN fn \ {file} : g \in DOMAIN maps.dl_file_url_map
                                         /\ fn[g] = maps.dl_file_url_map[g]
        /\ fn[file] = url
        /\ ~asserted'
        /\ \A u \in DOMAIN un :
              \/ u \in DOMAIN maps.dl_url_file_map /\ un[u] = maps.dl_url_file_map[u]
              \/ un[u] = file /\ u \in {from, url}
    BY <1>1, <2>2, DownloadDoes
  <2>4. ASSUME NEW f \in DOMAIN fn
        PROVE  match_except_index(fn[f], disk'[f])
    BY <1>0, <2>1, <2>3 DEF match_except_index
  <2>5. ASSUME NEW u \in DOMAIN un
        PROVE  \E v \in Urls : /\ v = u \/ <<u, v>> \in led'
                               /\ match_except_index(v, disk'[un[u]])
    <3>1. CASE u \in DOMAIN maps.dl_url_file_map /\ un[u] = maps.dl_url_file_map[u]
      <4>1. un[u] \in DOMAIN disk /\ disk'[un[u]] = disk[un[u]]
        BY <1>0, <2>1, <3>1
      <4>2. PICK v \in Urls : /\ v = u \/ <<u, v>> \in led
                              /\ match_except_index(v, disk[un[u]])
        BY <1>0, <3>1
      <4> QED BY <2>1, <4>1, <4>2
    <3>2. CASE un[u] = file /\ u \in {from, url}
      BY <2>1, <3>2 DEF match_except_index
    <3> QED BY <2>3, <3>1, <3>2
  <2> QED
    BY <2>3, <2>4, <2>5 DEF ConversionRight, OwnerIsBase, LinksLeadHome, SameDocument
<1>2. ASSUME NEW url \in Urls, NEW file \in LocalFiles, Fail(url, file)
      PROVE  ConversionRight' /\ ~asserted'
  <2>1. file \in Names(url) /\ disk' = Put(disk, file, Saved(url, file))
        /\ UNCHANGED <<maps, led, asserted>>
    BY <1>2 DEF Fail
  <2>2. /\ file \notin DOMAIN disk
        /\ \A f \in DOMAIN disk \ {file} : disk'[f] = disk[f]
    BY <2>1, DiskAfter
  <2> QED
    BY <1>0, <2>1, <2>2 DEF ConversionRight, OwnerIsBase, LinksLeadHome, SameDocument
<1>3. ASSUME NEW file \in LocalFiles, Delete(file)
      PROVE  ConversionRight' /\ ~asserted'
  <2>1. /\ UNCHANGED <<led, asserted>>
        /\ \A f \in DOMAIN disk' : disk'[f] = disk[f]
        /\ \A g \in DOMAIN maps'.dl_file_url_map :
              /\ g \in DOMAIN maps.dl_file_url_map
              /\ maps'.dl_file_url_map[g] = maps.dl_file_url_map[g]
        /\ \A u \in DOMAIN maps'.dl_url_file_map :
              /\ u \in DOMAIN maps.dl_url_file_map
              /\ maps'.dl_url_file_map[u] = maps.dl_url_file_map[u]
    BY <1>3, DeleteDoes
  <2> QED
    BY <1>0, <2>1 DEF ConversionRight, OwnerIsBase, LinksLeadHome, SameDocument
<1>4. CASE UNCHANGED vars
  BY <1>4 DEF vars, ConversionRight, OwnerIsBase, LinksLeadHome, SameDocument
<1> QED BY <1>1, <1>2, <1>3, <1>4 DEF Next

-----------------------------------------------------------------------------
\* The inductive invariant, for every command line.
Inv ==
    /\ TablesConsistent /\ Named
    /\ OneName(opt) => Settled
    /\ opt.conflict = "clobber" /\ ~opt.failures => OwnerIsBase
    /\ opt.conflict = "unique" => ConversionRight /\ ~asserted

\* It holds of empty tables.
LEMMA InvStarts == Init => Inv
BY StartsConsistent
   DEF Init, Inv, Named, Settled, OwnersPoint, LinksOwned, ConversionRight,
       OwnerIsBase, LinksLeadHome, NoMaps, EmptyTable

\* Every step keeps it.
LEMMA InvStays ==
    ASSUME Inv, [Next]_vars
    PROVE  Inv'
<1>1. opt' = opt
  BY DEF Next, Download, Fail, Delete, vars
<1>2. OneName(opt)' = OneName(opt)
  BY <1>1 DEF OneName
<1>3. TablesConsistent' /\ Named'
  BY StaysConsistent, NamedStays DEF Inv
<1>4. OneName(opt) => Settled'
  BY SettledStays DEF Inv
<1>5. opt.conflict = "clobber" /\ ~opt.failures => OwnerIsBase'
  BY OwnersStayBases DEF Inv
<1>6. opt.conflict = "unique" => ConversionRight' /\ ~asserted'
  BY RenamingStaysRight DEF Inv
<1> QED BY <1>1, <1>2, <1>3, <1>4, <1>5, <1>6 DEF Inv

\* After a download both the URL that was asked for and the one it led to are known.
LEMMA DownloadRegisters ==
    ASSUME NamesAssumption, Inv, NEW from \in Urls, NEW url \in Urls,
           NEW file \in LocalFiles, Download(from, url, file)
    PROVE  {from, url} \subseteq DOMAIN maps'.dl_url_file_map
<1> DEFINE fm == maps.dl_file_url_map
           um == maps.dl_url_file_map
           un == maps'.dl_url_file_map
           same == file \in DOMAIN fm /\ url = fm[file]
<1>1. /\ asserted' <=> from # url /\ same /\ url \notin DOMAIN um
      /\ same => DOMAIN um \subseteq DOMAIN un
      /\ ~same => url \in DOMAIN un
      /\ ~asserted' => from \in DOMAIN un \/ from = url
  BY DownloadDoes DEF Inv
<1>2. same => url \in DOMAIN um
  <2>1. CASE OneName(opt)
    BY <2>1 DEF Inv, Settled, OwnersPoint
  <2>2. CASE opt.conflict = "unique"
    <3>1. file \notin DOMAIN disk
      BY <2>2 DEF Download, Names
    <3> QED BY <3>1 DEF Inv, Named
  <2>3. opt \in Opts
    BY DEF Inv, TablesConsistent, TypeOK
  <2> QED BY <2>1, <2>2, <2>3 DEF NamesAssumption
<1> QED BY <1>1, <1>2

\* Under NamesAssumption it is what conversion needs.
LEMMA InvIsEnough ==
    ASSUME NamesAssumption, Inv
    PROVE  ConversionRight /\ RedirectionRegistered
<1>1. opt \in Opts
  BY DEF Inv, TablesConsistent, TypeOK
<1>2. CASE opt.conflict = "unique"
  BY <1>2 DEF Inv, RedirectionRegistered
<1>3. CASE /\ OneName(opt)
           /\ OwnName(opt) \/ (IndexIsLast /\ opt.conflict = "clobber" /\ ~opt.failures)
  <2>1. Settled /\ Named /\ TablesConsistent
    BY <1>3 DEF Inv
  <2>2. /\ disk = [f \in DOMAIN disk |-> disk[f]]
        /\ DOMAIN disk \subseteq LocalFiles
        /\ \A f \in DOMAIN disk : disk[f] \in Urls
        /\ \A f \in DOMAIN maps.dl_file_url_map : maps.dl_file_url_map[f] \in Urls
        /\ \A u \in DOMAIN maps.dl_url_file_map :
              /\ maps.dl_url_file_map[u] \in DOMAIN maps.dl_file_url_map
              /\ maps.dl_url_file_map[u] \in DOMAIN disk
    BY <2>1 DEF TablesConsistent, TypeOK, AreTables, IsTable, UrlsHaveFiles, FilesExist
  <2>3. OwnerIsBase
    <3>1. CASE OwnName(opt)
      BY <2>1, <2>2, <3>1 DEF Named, OwnName, OwnerIsBase
    <3>2. CASE opt.conflict = "clobber" /\ ~opt.failures
      BY <3>2 DEF Inv
    <3> QED BY <1>3, <3>1, <3>2
  <2>4. ASSUME NEW u \in DOMAIN maps.dl_url_file_map
        PROVE  SameDocument(u, disk[maps.dl_url_file_map[u]])
    <3> DEFINE file == maps.dl_url_file_map[u]
    <3>1. PICK v \in Urls : /\ Led(u, v) /\ <<v, file>> \in opt.naming
                            /\ match_except_index(v, maps.dl_file_url_map[file])
      BY <2>1 DEF Settled, LinksOwned
    <3>2. match_except_index(v, disk[file])
      <4>1. CASE OwnName(opt)
        BY <2>1, <2>2, <3>1, <4>1 DEF Named, OwnName
      <4>2. CASE IndexIsLast
        BY <2>2, <2>3, <3>1, <4>2 DEF IndexIsLast, OwnerIsBase
      <4> QED BY <1>3, <4>1, <4>2
    <3> QED BY <3>1, <3>2 DEF SameDocument, Led
  <2> QED
    BY <2>1, <2>3, <2>4 DEF ConversionRight, LinksLeadHome, Settled, RedirectionRegistered
<1> QED BY <1>1, <1>2, <1>3 DEF NamesAssumption

\* A converted link leads where the original one led, and the links of a file are
\* resolved against the URL of what the file holds, after any history of downloads,
\* redirections, overwritings, failures and deletions.
THEOREM ConversionStaysRight ==
    ASSUME NamesAssumption
    PROVE  Spec => []ConversionRight
BY InvStarts, InvStays, InvIsEnough, PTL DEF Spec

\* The assertion in register_redirection never fails: whoever is redirected to a
\* URL finds it registered.
THEOREM RedirectionsAreRegistered ==
    ASSUME NamesAssumption
    PROVE  Spec => []RedirectionRegistered
BY InvStarts, InvStays, InvIsEnough, PTL DEF Spec
=============================================================================
