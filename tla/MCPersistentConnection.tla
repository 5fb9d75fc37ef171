----------------------- MODULE MCPersistentConnection -----------------------
(***************************************************************************)
(* Two hosts, which may be virtual hosts at one address, with and without  *)
(* a proxy, and networks of different patience.                            *)
(***************************************************************************)
EXTENDS PersistentConnection

Shared == [h \in {"a", "b", "proxy"} |-> IF h = "proxy" THEN 0 ELSE 1]
Separate == [h \in {"a", "b", "proxy"} |->
                CASE h = "proxy" -> 0 [] h = "a" -> 1 [] h = "b" -> 2]

\* Every piece of a response arrives with its head; or one by one, from servers
\* that announce that they will close the connection.
Prompt == [keep_alive |-> TRUE, warc |-> FALSE, names |-> FALSE,
           credentials |-> TRUE, proxy |-> FALSE, addresses |-> Shared,
           late |-> FALSE, old |-> TRUE, stalls |-> FALSE]
Late == [Prompt EXCEPT !.late = TRUE, !.old = FALSE, !.addresses = Separate]

AllCases ==
    {Prompt, Late,
     [Prompt EXCEPT !.keep_alive = FALSE],
     [Prompt EXCEPT !.names = TRUE, !.old = FALSE, !.credentials = FALSE],
     [Late EXCEPT !.warc = TRUE],
     [Late EXCEPT !.proxy = TRUE, !.credentials = FALSE]}

\* AnswersMatch is checked, and proved, for these networks.
ASSUME NetworksPatient == PatientAssumption

\* Pieces one by one from old servers, pieces that may come too late, and
\* pieces that are left unread: each breaks AnswersMatch.
Impatient ==
    {[Late EXCEPT !.old = TRUE], [Late EXCEPT !.stalls = TRUE],
     [Late EXCEPT !.names = TRUE]}
=============================================================================
