--------------------------- MODULE MCRetrieveUrl ---------------------------
(***************************************************************************)
(* URLs that redirect to each other, with and without non-ASCII URLs.      *)
(***************************************************************************)
EXTENDS RetrieveUrl

CONSTANTS a, b, c, f, g, h,
          r              \* a string that is not the spelling of a parsed URL

\* ASCII only (or --no-iri), two URLs share a name, error pages are saved; r is
\* a without the final slash.
AsciiOpts ==
    [naming |-> {<<a, f>>, <<b, f>>, <<c, g>>}, conflict |-> "clobber",
     failures |-> FALSE, unencoded |-> EmptyTable,
     canonical |-> [x \in {r} |-> a], content_on_error |-> TRUE,
     bad_proxy |-> TRUE]
\* r has non-ASCII characters, it becomes a, or c without UTF-8; every URL
\* has a name of its own, and downloads may fail half way.
IriOpts ==
    [naming |-> {<<a, f>>, <<b, g>>, <<c, h>>}, conflict |-> "clobber",
     failures |-> TRUE, canonical |-> [x \in {r} |-> a],
     unencoded |-> [x \in {r} |-> c],
     content_on_error |-> FALSE, bad_proxy |-> FALSE]
Both == {AsciiOpts, IriOpts}
ASSUME BothFit == Opts = Both => Book!NamesAssumption /\ IriAssumption
JustIri == {IriOpts}

Nothing == {}
Pages == {a, b}
=============================================================================
