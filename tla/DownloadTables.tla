--------------------------- MODULE DownloadTables ---------------------------
(***************************************************************************)
(* The tables of src/src/convert.c and the functions that change them:     *)
(* which URL was saved to which file, and which files are HTML or CSS.     *)
(* DownloadMap makes a state machine of their callers; RetrieveUrl and     *)
(* RetrieveTree use them where the code calls them.                        *)
(***************************************************************************)
EXTENDS Naturals, FiniteSets, Functions

CONSTANTS
    Urls, LocalFiles,
    Variants      \* pairs of URLs that differ only in "/index.html"

ASSUME VariantsAssumption == Variants \subseteq Urls \X Urls

EmptyTable == [k \in {} |-> k]
Put(table, key, value) ==
    [k \in DOMAIN table \cup {key} |-> IF k = key THEN value ELSE table[k]]
WithoutKey(table, key) == Restrict(table, DOMAIN table \ {key})

NoMaps == [dl_file_url_map |-> EmptyTable, dl_url_file_map |-> EmptyTable,
           downloaded_html_set |-> {}, downloaded_css_set |-> {}]

match_except_index(url, old) ==
    url = old \/ <<url, old>> \in Variants \/ <<old, url>> \in Variants

\* Variant for sensitivity checks: only the URL that owned the file is
\* forgotten, the redirections to it are not.
dissociate_urls_from_file_owner(m, file) ==
    [m EXCEPT !.dl_url_file_map =
        IF file \in DOMAIN m.dl_file_url_map
        THEN WithoutKey(@, m.dl_file_url_map[file]) ELSE @]

\* Every association from a URL to file is removed.
dissociate_urls_from_file(m, file) ==
    [m EXCEPT !.dl_url_file_map =
        Restrict(@, {u \in DOMAIN @ : @[u] # file})]

\* Variants for sensitivity checks: earlier URLs keep pointing to the file; the
\* new URL is freed with the earlier ones.
register_download_keeping(m, url, file) ==
    [m EXCEPT !.dl_file_url_map = Put(@, file, url),
              !.dl_url_file_map = Put(@, url, file)]
register_download_last(m, url, file) ==
    IF file \in DOMAIN m.dl_file_url_map
    THEN dissociate_urls_from_file(register_download_keeping(m, url, file), file)
    ELSE register_download_keeping(m, url, file)

\* url was successfully saved to file: the file's earlier URL loses it, unless
\* that is the same URL or the same directory index under another name.
register_download(m, url, file) ==
    LET taken == file \in DOMAIN m.dl_file_url_map
        old == m.dl_file_url_map[file]
        alias == /\ match_except_index(url, old)
                 /\ url \notin DOMAIN m.dl_url_file_map
        freed == IF taken /\ ~alias THEN dissociate_urls_from_file(m, file)
                 ELSE m
    IN  IF taken /\ url = old THEN m
        ELSE [freed EXCEPT !.dl_file_url_map =
                               IF taken /\ alias THEN @ ELSE Put(@, file, url),
                           !.dl_url_file_map = Put(@, url, file)]

\* from was redirected to to, which was saved and registered.
register_redirection(m, from, to) ==
    [m EXCEPT !.dl_url_file_map =
        IF from \in DOMAIN @ THEN @ ELSE Put(@, from, @[to])]

register_delete_file(m, file) ==
    IF file \notin DOMAIN m.dl_file_url_map THEN m
    ELSE dissociate_urls_from_file(
             [m EXCEPT !.dl_file_url_map = WithoutKey(@, file)], file)

register_html(m, file) == [m EXCEPT !.downloaded_html_set = @ \cup {file}]
register_css(m, file) == [m EXCEPT !.downloaded_css_set = @ \cup {file}]

\* A hash table with keys in S and values in T.
IsTable(t, S, T) ==
    /\ t = [k \in DOMAIN t |-> t[k]]
    /\ DOMAIN t \subseteq S
    /\ \A k \in DOMAIN t : t[k] \in T

AreTables(m) ==
    /\ m = [dl_file_url_map |-> m.dl_file_url_map, dl_url_file_map |-> m.dl_url_file_map,
            downloaded_html_set |-> m.downloaded_html_set,
            downloaded_css_set |-> m.downloaded_css_set]
    /\ IsTable(m.dl_file_url_map, LocalFiles, Urls)
    /\ IsTable(m.dl_url_file_map, Urls, LocalFiles)
    /\ m.downloaded_html_set \subseteq LocalFiles
    /\ m.downloaded_css_set \subseteq LocalFiles

\* Partial functions, as hash tables are: UNION of all [D -> T], D \subseteq S.
Partial(S, T) == UNION {[D -> T] : D \in SUBSET S}

\* Every URL points to a file that has an owner.
Owned(m) == \A u \in DOMAIN m.dl_url_file_map :
                m.dl_url_file_map[u] \in DOMAIN m.dl_file_url_map
=============================================================================
