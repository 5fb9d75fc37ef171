---------------------------- MODULE MCHstsStore -----------------------------
(* Instances of HstsStore: a host, one below it, and another one.            *)
EXTENDS HstsStore, TLC

CONSTANTS p, q

MCSupers == [h \in Hosts |-> IF h = "w.a" THEN <<"a">> ELSE <<>>]
Entry(max_age, is) == [created |-> 0, max_age |-> max_age, include_subdomains |-> is]
MCFiles == {None, [h \in {"b"} |-> Entry(1, FALSE)],
            [h \in {"a"} |-> Entry(5, TRUE)]}
Absent == {None}
MCAges == {-1, 0, 5, 9}
Symmetry == Permutations(Processes)
=============================================================================
