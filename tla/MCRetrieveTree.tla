--------------------------- MODULE MCRetrieveTree ---------------------------
(***************************************************************************)
(* Small webs: pages s, p and q, an image i, a style sheet c, a page r     *)
(* that redirects, a page e whose URL is an escaped variant of p's, a URL  *)
(* x that does not exist, a URL w that no page links to, and the           *)
(* robots.txt t and y of two hosts.                                        *)
(***************************************************************************)
EXTENDS RetrieveTree

CONSTANTS s, p, q, r, i, c, x, e, w, t, y

Anchor(u) == [to |-> u, inline |-> FALSE, html |-> TRUE, css |-> FALSE,
              relative |-> FALSE]
Image(u) == [Anchor(u) EXCEPT !.inline = TRUE, !.html = FALSE]
Frame(u) == [Anchor(u) EXCEPT !.inline = TRUE]
Style(u) == [Image(u) EXCEPT !.css = TRUE]
Relative(l) == [l EXCEPT !.relative = TRUE]

\* A web with the links that L gives to s, p, q and c.
Web(L) == [links |-> [u \in Urls |-> IF u \in DOMAIN L THEN L[u] ELSE {}],
           led |-> [u \in {} |-> u], dead |-> {}, nofollow |-> {},
           disallowed |-> {}]
Links(s_, p_, q_) == (s :> s_) @@ (p :> p_) @@ (q :> q_)

Default == [reclevel |-> INFINITE_RECURSION, quota |-> 0,
            page_requisites |-> FALSE, delete_after |-> FALSE,
            spanhost |-> FALSE, relative_only |-> FALSE, use_robots |-> TRUE,
            trustservernames |-> FALSE,
            foreign |-> {}, above |-> {}, excluded |-> {}, unacceptable |-> {},
            rejected |-> {}]

\* A file is called like its URL, one that is to be deleted <<name>>.
Same == [u \in Urls |-> u]
Dotted == [u \in Urls |-> <<u>>]
Names == Urls \cup Range(Dotted)
Robots == [h \in {"host", "other"} |-> IF h = "other" THEN y ELSE t]
Escaped == [u \in Urls |-> IF u = e THEN p ELSE u]
TwoHosts == [u \in Urls |-> IF u \in {q, y} THEN "other" ELSE "host"]
\* r is the old place of a page that has moved.
TwoDirs == [u \in Urls |-> IF u = r THEN "old" ELSE "new"]
Pages == {s, p, q, r, e} \cap Urls
Styles == {c} \cap Urls

\* Every way to link three pages, an image and a frame, without robots.txt; trees
\* from one start, or from two.
GraphSites ==
    {[Web(Links(a, b, d)) EXCEPT !.dead = {t, y}] : a \in SUBSET {Anchor(p), Anchor(q), Image(i)},
                           b \in SUBSET {Anchor(s), Anchor(q), Frame(q)},
                           d \in SUBSET {Anchor(p), Image(i)}}
Spanning == [Default EXCEPT !.spanhost = TRUE]
GraphOptions ==
    {Spanning, [Spanning EXCEPT !.reclevel = 1],
     [Spanning EXCEPT !.reclevel = 1, !.page_requisites = TRUE]}
GraphStarts == {<<s>>, <<s, p>>, <<q, s>>}

\* Redirections (to a page also linked, to another host, to nothing), a style
\* sheet, robots.txt, dead links; and the rules that reject.
PLinks == {Relative(Anchor(s)), Image(i), Style(c)}
Full == Web(Links({Anchor(p), Anchor(q), Anchor(r), Anchor(e)}, PLinks,
                  {Anchor(p), Anchor(x)})
            @@ (c :> {Image(i), Style(c)}) @@ (e :> PLinks))
RuleSites ==
    {[Full EXCEPT !.led = r :> p, !.dead = {x},
                  !.links[s] = {Anchor(q), Anchor(r)}, !.links[q] = {Anchor(x)}],
     [Full EXCEPT !.led = r :> q, !.dead = {x}],
     [Full EXCEPT !.led = (r :> x) @@ (p :> q) @@ (e :> q), !.dead = {x}],
     [Full EXCEPT !.dead = {x}, !.nofollow = {q}],
     [Full EXCEPT !.dead = {x, p, e}, !.disallowed = {q, i}],
     [Full EXCEPT !.led = r :> q, !.dead = {x}, !.disallowed = {q}],
     [Full EXCEPT !.led = t :> q, !.dead = {x}, !.links[s] = {Anchor(q), Anchor(t)}]}
\* What -A does not accept, it does not accept as .tmp.
Both(names) == names \cup {<<u>> : u \in names}
RuleOptions ==
    {Default,
     [Default EXCEPT !.spanhost = TRUE, !.quota = 2, !.trustservernames = TRUE],
     [Default EXCEPT !.spanhost = TRUE, !.use_robots = FALSE,
                     !.delete_after = TRUE],
     [Default EXCEPT !.reclevel = 2, !.unacceptable = {i, q, s}, !.above = {c},
                     !.spanhost = TRUE, !.rejected = {i, q, s}],
     [Default EXCEPT !.unacceptable = {i, q, s, t, y}, !.spanhost = TRUE,
                     !.rejected = Both({i, q, s, t, y})],
     [Default EXCEPT !.spanhost = TRUE, !.delete_after = TRUE],
     [Default EXCEPT !.excluded = {p}, !.foreign = {q}],
     [Default EXCEPT !.relative_only = TRUE, !.page_requisites = TRUE,
                     !.above = {c, p}]}
RuleStarts == {<<s>>, <<i, s>>, <<s, s>>, <<r, s>>, <<p, s>>}

Trees == [site : GraphSites, opt : GraphOptions, starts : GraphStarts]
            \cup [site : RuleSites, opt : RuleOptions, starts : RuleStarts]

\* A start URL that redirects to itself (to set a cookie), or to itself with
\* other escapes.
Itself == {[Web(Links({Anchor(p)}, {}, {})) EXCEPT !.led = s :> s],
           [Web(Links({Anchor(s)}, {Anchor(q)}, {})) EXCEPT !.led = e :> p]}
SelfTrees == [site : Itself, opt : {Default}, starts : {<<s>>, <<e>>}]

\* A robots.txt t and a rejected page q of another host lead to one document;
\* t is loaded as a start URL and as robots.txt.
Led == [Web(Links({Anchor(p)}, {}, {})) EXCEPT !.led = (t :> i) @@ (q :> i)]
LedTrees == [site : {Led}, opt : {[Default EXCEPT !.rejected = Both({q})]},
             starts : {<<t, q, s>>}]

\* These webs name the files of redirected URLs apart.
ASSUME NamesApart == OwnNames
=============================================================================
