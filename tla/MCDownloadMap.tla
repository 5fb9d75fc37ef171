--------------------------- MODULE MCDownloadMap ---------------------------
(***************************************************************************)
(* Small sets of URLs and files, and the ways in which wget names files.   *)
(***************************************************************************)
EXTENDS DownloadMap

CONSTANTS a, b, i, f, g

\* URLs share names (-nd, or a name the server chose) ...
Shared == {<<a, f>>, <<b, f>>, <<i, g>>}
\* ... or the name varies from one download to the next (unique_name,
\* Content-Disposition).
Any == Urls \X LocalFiles

\* i is the index of the directory a.
Index == {<<a, i>>}

\* Overwriting: the last document of a name replaces the one before.
Clobbering == [naming |-> Shared, conflict |-> "clobber", failures |-> FALSE]
\* Renaming: an existing file is never touched, and downloads may fail.
Renaming == [naming |-> Any, conflict |-> "unique", failures |-> TRUE]
\* A hierarchy of directories: only i and its directory share a name.
Own == {<<a, g>>, <<b, f>>, <<i, g>>}
Resuming == [naming |-> Own, conflict |-> "clobber", failures |-> TRUE]
Keeping == [naming |-> Own, conflict |-> "keep", failures |-> TRUE]
Usual == {Clobbering, Renaming, Resuming, Keeping}
ASSUME UsualNames == Opts = Usual => NamesAssumption
\* The name of a URL varies although existing files are overwritten.
Varying == {[naming |-> Any, conflict |-> "clobber", failures |-> FALSE]}

Pages == {a, i}
Styles == {b}
=============================================================================
