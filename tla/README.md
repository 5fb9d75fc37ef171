# A TLA+ model of wget

This directory holds TLA+ specifications of the parts of wget whose behaviour
depends on the order of events: what the network answers, where a transfer is
cut, which URLs were loaded before, whether an earlier run was interrupted. The
models are written from the C sources in `src/src/`; `PROJECT.json` names, for
every definition, the lines it stands for. TLC checks the models on small
instances; TLAPS proves theorems about some of them for all values of their
constants.

1. Inventory
2. Modules
3. Runs: what is checked, with which bounds
4. Proofs
5. Where the code differs from what it says
6. What the models leave out
7. Plan

All line numbers below are those of the files in `src/src/` unless a path is
given.

## 1. Inventory

wget is a single-threaded C program. `main` (main.c) reads options into the
global `opt`, then calls `retrieve_url` or `retrieve_tree` for one URL after the
other; at the end `convert_all_links` rewrites the files that were loaded.

```
main --+--> retrieve_url --+--> http_loop --> gethttp --> pconn / connect_to_host
       |      ^            +--> ftp_loop                  fd_read_body --> file
       |      |            +--> register_download, ... (convert.c)
       +--> retrieve_tree --> download_child, descend_redirect
       |      |     +--> res_* (robots.txt)   --> retrieve_url
       |      +--> get_urls_html / get_urls_css_file
       +--> convert_all_links, save_cookies, hsts_store_save, exit status
```

| Component | State | Operations | Hard because | Correct means |
|---|---|---|---|---|
| HTTP retrieval loop (http.c `http_loop`, `gethttp`) | `http_stat`, `dt`, flags of the loop, local files | one try: HEAD or GET, response, body, judgement | bodies cut anywhere, ignored ranges, retries, two kinds of request sharing flags, kill and rerun with `-c` | a file only ever holds the document's beginning; nothing is lost; the loop ends |
| Persistent connection (http.c `pconn`) | one registered socket | register, reuse, invalidate; read or skip the rest of a body | the server closes when it likes; what one request leaves unread the next one reads | the right peer, the right answer, no leaked socket |
| Download book-keeping (convert.c) | four hash tables | `register_download`, `register_redirection`, `register_html`, `register_css`, `register_delete_file` | two tables must change together over any history of overwriting, redirecting, deleting | links point to files that exist and hold what was linked |
| Link conversion (convert.c) | - | after all downloads: choose a target for each link, rewrite | uses the tables long after they were written | links resolve against the URL the file came from |
| `retrieve_url` (retr.c) | redirection count, suspended method, IRI state | one URL to its document | global options changed for the time of a redirection; the retry in another encoding | options restored, requests bounded, tables right |
| Exit status (exits.c) | `final_exit_status` | `inform_exit_status` | results come in any order | the most important problem is reported |
| Recursive retrieval (recur.c) | queue, blacklist, quota counter | `retrieve_tree`, `download_child`, `descend_redirect` | redirections, escaped spellings, earlier trees, depth and `-p` interact | everything the rules want is loaded, once, and nothing else |
| robots.txt (res.c) | parsed specifications per host | load, match | loaded in the middle of a page | forbidden URLs are not loaded |
| HTML/CSS links (html-parse.c, html-url.c, css-url.c) | - | tokenise, collect links | malformed input | - |
| Hash tables (hash.c) | cells, count, threshold | put, get, remove, grow, walk, clear | linear probing without tombstones; walks whose callback removes | a map |
| Hosts and connecting (host.c, connect.c) | address lists with a cursor of faulty addresses, the DNS cache | lookup, connect, mark faulty, refresh, release | lists are shared by reference counts; a cached list may be stale | every address is tried before a call fails, a stale answer is asked for again |
| Cookies (cookies.c) | a table of linked chains, the file | set, replace, discard, match, build the header, load, save | pointers into chains that change; keys, paths, ports and dates | one cookie per key, the right header, the same cookies in the next session |
| HSTS (hsts.c) | a table, the database file | match, update, expire, merge, save | several processes share one file that is read without a lock | the file is never torn, newer entries survive |
| FTP (ftp.c, ftp-basic.c) | control connection, its directory and REST position; a stack of listings | login, listing, retrieval, recursion | a fixed order of commands, each with its own way to fail; state carried from file to file | whole files, asked for in the right directory; nothing forgotten |
| Logging (log.c) | streams, redirection request, ring of saved lines | log, redirect, dump the context | signals at any instruction; job control | no line is lost |
| WARC (warc.c) | output file, records | write records, CDX | failure in the middle | - |
| Metalink (metalink.c) | list of mirrors | try, verify, rename | - | the verified file is kept |
| URLs, names, utilities (url.c, utils.c) | - | parse, escape, merge, `unique_name` | string algorithms | - |

Things that do not exist here and are therefore not modelled: threads and
locks. What interleaves with wget is its environment: servers, other processes
on the same files, signals, and its own earlier or later runs. Signals are the
one place where C code of wget interrupts C code of wget (log.c).

The hazards that follow from this, each at its line and with the properties
that would catch it, are listed in `PROJECT.json`.

## 2. Modules

```
DownloadTables                     the four tables as operators (convert.c)
   ^        ^          ^
DownloadMap RetrieveUrl RetrieveTree
                |
                +-- Book == INSTANCE DownloadMap (refinement, invariants)

HashTable    Map == INSTANCE HashMap          (refinement)
CookieJar    Store == INSTANCE CookieStore    (refinement)
HttpLoop     PersistentConnection     AddressLists
FtpLoop      HstsStore                LogRedirection

<module>Proofs  extends <module>: HttpLoop, DownloadMap, RetrieveUrl,
                RetrieveTree, PersistentConnection, HashTable, AddressLists,
                FtpLoop; RetrieveUrlProofs and RetrieveTreeProofs instantiate
                DownloadMapProofs, which has the lemmas about the tables
MC<module>: constants for TLC
```

`http_loop` is the largest module and one step of the next: `RetrieveUrl`
treats the outcome of `http_loop` as free, and `RetrieveTree` treats
`retrieve_url` as one step on a fixed web. `PersistentConnection` is the other
half of `gethttp`: `HttpLoop` has one fresh request per try and asks what
happens to the file, `PersistentConnection` has no file and asks what happens
to the socket. `FtpLoop` has both, because in FTP the two cannot be separated:
what a retry may assume depends on the control connection. The modules whose
code stands on hash tables (`DownloadTables`, `HstsStore`, `AddressLists`,
`CookieJar`) have functions in their place; that a hash table is one, also while
it is walked and changed, is what `HashTable` shows.

### HttpLoop

`pc` follows one request through `http_loop` and `gethttp`:

| `pc` | code | actions |
|---|---|---|
| `main` | main opens `-O` | `OpenOutputDocument` |
| `enter` | http.c 4142-4260, before the loop | `EnterHttpLoop` |
| `top` | 4264-4420, one pass | `StartTry` (with `Restart`, 4388-4413) |
| `connect` | establish_connection, request_send | `ConnectFails`, `SendRequest` |
| `sent` | read_http_response_head | `HeadFails`, `ReadHead` |
| `head` | gethttp from the head to the body | one action per exit, in the order of `Exit` |
| `body` | read_response_body, fd_read_body | `ReadBody`, `EndBody` |
| `judge` | the switch after gethttp and the rest of the loop | `RetriableError` ... `Finish` |
| `done`, `abort` | return, `abort ()` | `Rerun`: wget is started again |

The remote document is `Size` bytes that do not change. A local file is its
length, whether it is a beginning of the document (`good`), and whether its
time-stamp is at least the document's (`fresh`). An append keeps a file good
exactly when the first byte appended is the document's byte number `len`. A
file name is the sequence of suffixes that the code appended.
`KeepsFiles`, `PrefixOnly`, `SavedWhole`, `ResumesAtEnd` and
`TimestampingUpdates` speak of files (`SavedWhole` also of the `abort ()` at
http.c 4833), `LoopSound` and `Terminates` of the loop.

### DownloadTables, DownloadMap

`DownloadTables` has one operator for each function of convert.c that changes
the tables; they map the four tables to the four tables. `DownloadMap` is the
abstract specification of the book-keeping: its actions are the three things
the program does with it (a document was saved, a download failed, a file is
deleted), with `led` (who was redirected where) and `disk` (whose document a
file holds) to state what the tables are for: `ConversionRight`, that is
`LinksLeadHome` (the target of a converted link holds what was linked) and
`OwnerIsBase` (relative links are resolved against the right URL).

### RetrieveUrl

One call after another of `retrieve_url`. `Redirected`, `TooManyRedirections`,
`Fallback` (the `goto redirected` at retr.c 1126), `Fetched` and `Failed` are
the ways through its loop. A URL is a string: `origurl` as the caller has it,
`orig_parsed` and `u` as `url_parse` spells them (`Parsed`; `Plain` without the
conversion to UTF-8). Files are entered under `u`, redirections under `origurl`,
and links are looked up by what `Parsed` gives, so `RequestedUrlKnown` says
exactly when the URL that was asked for is found: not after a redirection of a
string that main was given in another spelling, nor after the retry in another
encoding (section 5). The property `ImplementsDownloadMap` is the
refinement: seen through `opt, maps, disk, led, asserted`, every step is a step
of `DownloadMap` or changes nothing.

### RetrieveTree

`pc` follows the loop of `retrieve_tree`: `url_dequeue`, then `Reuse` (an
earlier tree has the document) or `Download` (with `descend_redirect`), then
`Harvest` (parse the file), `NextChild` per link, `FinishPage` (deletion). The
reference definition in `Levels` says what should be loaded at which depth,
from links and options alone. `LoadsWhatItShould` compares the two: every page
is loaded that the rules want (`Complete`), at the depth they give it
(`AtDepth`), and no relative link is resolved against the wrong URL
(`NothingMisresolved`). It says nothing of trees in which the history variable
`misled` is set: those that meet a moved page again, or a page whose file is gone
(section 5). `QueueSound` (each URL queued and loaded once, the quota) and
`FilesSound` hold of all trees.
A file that is to be deleted is called `<name>.tmp` (`FileOf`, with `Tmp`), and
`FinishPage` tests that name: what `rejected` holds decides whether a page loaded
for its links goes (`-A`, which does not accept `.tmp` either) or stays (`-R`).
`Retrieved` is what `retrieve_url` does to the disk and the tables, for a page and
for a robots.txt (`ConsultRobots`), which may be unlinked afterwards without a
word to the tables. `FilesSound` says that the tables lead to files that are
there, robots.txt files excepted (`FilesExist`), that between two pages every
file is acceptable by the name it has (`KeepsOnlyWanted`), and that the assertion
of `register_redirection` holds unless a robots.txt is redirected
(`AssertionHolds`; where it fails, `pc` is `"aborted"`).
Rules that only look at one URL are sets of URLs (`foreign`, `above`,
`excluded`, `unacceptable`); their order matters only where
`descend_redirect` treats a rejection by a directory list or regular
expression (`LIST`) as none, and `Tests` keeps it.

### PersistentConnection

`conns` are the open sockets with what the server has sent on them, `pconn` the
registered one. A stream is a sequence of pieces (head, data, last chunk, end
of connection), of which `arrived` can be read. `Connect` reuses the lowest
free descriptor, as the kernel does, so that a stale number is likely to be
someone else's socket. The exits of `gethttp` are grouped by what they do with
the socket: `Bodiless` and `Finish` (CLOSE_FINISH), `Abandon`, `BodyFails` and
`ExchangeFails` (CLOSE_INVALIDATE), `NameExists` (nothing).

### FtpLoop

`pc` follows one command after the other, in the order of `getftp`:

| `pc` | code | actions |
|---|---|---|
| `start`, `finish` | ftp_loop | `FtpLoop`, `Finish` |
| `enter`, `try` | ftp_loop_internal up to the call of getftp | `Enter`, `Try` |
| `connect` ... `size` | login, TLS, SYST, PWD, TYPE, CWD, SIZE | `Connect`, `Answered`, `Auth`, `Handshake`, `Prot`, `Syst`, `Cwd`, `Size` |
| `data` ... `open` | PASV or PORT, REST, RETR or LIST, accept, fopen | `Passive`, `Port`, `Rest`, `Retr`, `List`, `Accept`, `Open` |
| `body`, `response` | fd_read_body, the 226 reply | `DataHandshake`, `Body`, `Completed`, `Aborted` |
| any of these | the server refuses or is gone; the command cannot be written | `CommandFails`, `CannotWrite` |
| `judge` | the switch after getftp | `FatalError`, `Retry`, `Saved`, `Abort` |
| `returned`, `files`, `dirs` | ftp_retrieve_glob, _list, _dirs | `ReturnListing`, `NextFile`, `ReturnFile`, `NextDir`, `ReturnOwn` |

`End(how, e)` is one return of `getftp`; `how` names the sockets it closes, for
its returns differ in that and one of them ("dangling") closes the control
connection and keeps its number. Descriptors are reused lowest first, as in
`PersistentConnection`. `frames` is the recursion of `ftp_retrieve_glob` through
`ftp_retrieve_dirs`. A listing that was cut is a beginning of its lines.

`late` says that an answer on the control connection is still to come which
getftp has not waited for. That is so when the answer to PBSZ or PROT, or either
command itself, fails (554 and 564 test only for a refusal), when the one to AUTH
does and `--ftps-fallback-to-ftp` is given (273-307), when a refused PROT leaves the
connection open in the middle of the login, and when in active mode the server does
not connect after RETR or LIST (1380-1392). From then on each command reads the
answer to an earlier one: every action may go on as after any answer, whatever the
server made of the command (`Cwd` goes to `size` while the server stays where it
was). A new connection ends it. `misled` is history: getftp went by such an answer.

### HashMap, HashTable

`cells` is the array. An operation that works in a loop is several steps: one
entry moved per step while the table grows (`grow_hash_table`) or after a
removal (`Rehash`), one cell per step of a walk (`Callback`, `Repeat`). The walk
is `hash_table_for_each` with the callback of `dissociate_urls_from_file`, which
removes entries and makes others move into the cell at hand. `HashMap` is the
promise; `Entries` maps the cells, and the old cells that are still to be moved,
to it.

### HstsStore

Each process is a record of what `hsts_store_open` ... `hsts_store_close` keep.
Reading, `fstat`, the creation of the file at `fopen`, locking with merging and
truncating, and writing are separate steps, because another process can come in
between; `Kill` is possible at each of them. `hsts_read_database` gives all the
tables that may come of reading the lines in some order, `Sums` all that may
come of the signed addition of an age.

### AddressLists

`heap` holds the `address_list`s with their reference counts, cursors
(`faulty`) and flags; `lookup_host` is a function from a heap and a cache to the
heaps and caches it may leave. `connect_to_host` is one step per address, so
that `resolve_bind_address` (which looks up a host itself, once, in the middle)
meets lists that are half faulty; it is called only when the socket could be
made. An assertion that fails ends the program (`pc` is "aborted"). `tried`,
`missed` and `reached` are history.

### LogRedirection

One step for each assignment or call in `logputs`, `logprintf`,
`redirect_output` and `saved_append_1` that the signal handler can observe;
`redirect_output_signal` may happen between any two of them and runs
`redirect_output` as a whole. A test of a variable is one step with the call or
store before it only where no handler can tell. A message is a number; what a stream
has got is a set of messages, so that their order, and whether the context is
repeated, is not checked.

### CookieStore, CookieJar

`CookieStore` is a set of cookies with one cookie for each key, a file, and a
predicate that says which headers are right for a request. `CookieJar` has the
chains: places on a heap linked by `next`, heads in a table. `store_cookie` and
`discard_matching_cookie` change pointers as the code does, `cookie_header`
enumerates what the two unstable sorts may leave, `cookie_jar_save` may stop
after any cookie, and a new session loads what the file has.

## 3. Runs

| Run | What it explores | Shows |
|---|---|---|
| `HttpLoop_resume` | document of 3 bytes, 3 tries, one rerun (kill at any step); default, `-c`, hierarchy with credentials, `--content-disposition -E`; nothing, a part, or all of the file there before; every status that leads elsewhere | `PrefixOnly`, `SavedWhole`, `ResumesAtEnd`, `KeepsFiles` |
| `HttpLoop_tries` | document of 2 bytes, 2 tries, the other options: `-N` with and without conditional GET, `--spider`, `-nc`, `-O`, Metalink, WARC, `--start-pos` with temporary files and backups; stale files shorter than, as long as and longer than the document | `LoopSound`, `TimestampingUpdates`, `Terminates` |
| `DownloadMap_tables` | 3 URLs (one the directory index of another), 2 files, names that clash; four command lines (`Usual`: overwriting, renaming, resuming, keeping existing files); unbounded histories | `TablesConsistent`, `ConversionRight`, `RedirectionRegistered` |
| `RetrieveUrl_calls` | 2 calls, 3 URLs and one other spelling, 2 redirections allowed, with and without non-ASCII URLs | `CallsSound`, `MethodKept`, `UrlsRegistered`, refinement `ImplementsDownloadMap`, `Terminates` |
| `RetrieveTree_trees` | all 256 webs of three pages, an image and a frame under three option sets and three sequences of start URLs; seven webs with redirections (one of a robots.txt), dead links, style sheets, escaped spellings, robots.txt under eight option sets (`-R`, `-A` and `--delete-after` among them) and five sequences of start URLs | `LoadsWhatItShould`, `QueueSound`, `FilesSound`, `Terminates` |
| `PersistentConnection_reuse` | 2 calls over two hosts with one or two addresses; keep-alive or not, WARC, proxy, HTTPS, challenges, every framing of the response; the server closes at any moment | `SocketsSound`, `RightPeer`, `AnswersMatch`, `Terminates` |
| `FtpLoop_transfers` | thirteen command lines (one file, index, glob, recursion; `-c`, `-nc`, `-N`, quota, depth, active mode, FTPS; the recursion over FTPS with one try), five servers with different systems and unknown commands, two failures anywhere | `SavedWhole`, `RightDirectory`, `SocketsSound`, `NothingForgotten`, `Terminates` |
| `HashTable_map` | four keys in tables of 3 and 7 cells, five hash functions from all-collide to spread, with wrap-around at both sizes, two values, unbounded histories | `CellsSound`, refinement `ImplementsMap`, `Terminates` |
| `HstsStore_merge` | two processes with one request or header each, killed anywhere; a host, one below it and another; ages that remove, expire, last and overflow; three seconds | `FileWhole`, `NewerKept` |
| `CookieJar_sessions` | any four of nine headers over any sessions, three seconds, saving that fails; after each step the headers of four requests | `ChainsSound`, `HeaderRight`, refinement `ImplementsCookieStore` |
| `AddressLists_cache` | four calls over a host with two answers of two and three addresses, one with a shared address, and a numeric one; caching or not, family preference, bind address, both builds | `ListsSound` (with `AssertionsHold`), `FailsOnlyWhenAllFail`, `Terminates` |
| `LogRedirection_signals` | four messages that end a line or not, two signals, two changes between foreground and background, a ring of two lines, `-o` or not | `LogKept` |

Each invariant that is named for a whole component (`LoopSound`, `CallsSound`,
`SocketsSound`, `ListsSound`, ...) is the conjunction of the type invariant with
the parts that stand before it in the module.

Why the bounds are enough. Three bytes are the least number with a byte before,
at and after a cut that is neither end; three tries are a first try, a resumed
one, and one that resumes what was resumed (`restval` from a `len` that itself
came from a `restval`). Two calls of `gethttp` are enough for one to find what
the other left, because only one connection is kept and the state between calls
is `pconn` alone; a third descriptor is never needed. Two files and three URLs
are enough for a URL to lose its file to another and to get it back, and for an
index to share its directory's file; histories are not bounded there. Two
redirections and two calls show a method suspended, kept, suspended again and
restored, and its effect on the next call. A tree of up to nine URLs reaches
depth four, two more than the largest `reclevel`, so that the extra levels of
`-p` are all there. Two failures are enough for FTP to lose the transfer on one
try and something else on the next, or to fail on two entries of a list. Four
keys fill the small table, make it grow and leave a run of collisions that wraps
round the end of the large one; with fewer no entry has to move across it. Two
processes are enough for the HSTS file, where only pairs meet under the lock;
the third second tells a later header from a later file. Four messages are two
more than the ring holds. Four headers are enough to put one cookie on each side
of the one that goes, and one to replace it.

Bounds that stand in guards: `Calls`, `MaxRuns`, `MaxFaults`, `MaxEvents`,
`MaxTime`, `MaxHeaders`, `MaxMessages`, `MaxSignals`, `MaxSwitches`; the heaps of
`AddressLists` and `CookieJar` have as many places (`Lists`, `Places`) as the
cases can fill (`RoomAssumption` of `AddressLists`: one list for each host that
may be cached and two more are enough). `max_redirect` and `ntry` are wget's own options.

Sensitivity. For every property of a passing run there is a mutant in
`PROJECT.json`: a definition changed as a plausible bug would change it, with
which the run finds the property violated. The variants stand in the modules,
before the definition they would replace, marked "Variant for sensitivity
checks".

Deadlock is not checked where the program ends (`done`, no more calls or start
URLs, headers, messages or time); termination is a property of its own there.
`DownloadMap`, `HashTable` and `FtpLoop` (which stutters at its end) are checked
for deadlock.

Fairness. wget is one thread that never waits without a timeout (connect, read
and DNS timeouts; `select` in `fd_read_body`), so weak fairness of its own next
step is what the code provides: `WF(Step)` in `HttpLoop` and
`PersistentConnection`, `WF(Next)` in `RetrieveUrl` and `RetrieveTree`, where
every action is wget's own. `PersistentConnection` also assumes that what a
server has sent arrives (`WF(Deliver)`); without it the reads fail by timeout,
which `ExchangeFails` and `BodyFails` allow at any point. `FtpLoop` has
`WF(Next)`: every action is wget's own, a server that is silent is a failure by
timeout. In `HashTable` and `AddressLists` a loop that has been entered goes on
(`WF(Loops)`, `WF(Connecting)`); nothing makes the program call again. Nothing is
assumed of `ServerCloses`, of `Rerun`, of signals, or of which answer a server
gives. `HstsStore`, `CookieJar` and `LogRedirection` are checked for safety only:
no step of theirs waits for another actor but `flock`, whose holder may be
stopped for ever.

## 4. Proofs

`tlapm` checks every proof from the definitions; the assumptions are the named
ASSUMEs on the constants, which TLC evaluates in each run.

**HttpLoopProofs.**
- `LoopIsSound`: `Spec => []LoopSound`, from `TypeCorrect` and
  `RequestsBounded`. `TypeOK` alone is not inductive:
  `Restart` subtracts `hs.len` from `hs.restval`, and a restart position is a
  natural number only because `hs.len` is one whenever the loop can go round
  again (`LenInv`); `open_output_stream` with `-O` writes to a file that exists
  because main has opened it (`OutputInv`). The inductive invariant is
  `TypeInv == TypeOK /\ LenInv /\ OutputInv`. `RequestBound` holds for every
  number of tries: the counter is reset once, between HEAD and GET; `CountInv`
  says how requests and counter are related before and after (`got_head`).
- The next four hold for every document, every directory and every number of
  tries, runs and kills, under `CarefulAssumption`: the options that leave names
  and restart positions to `http_loop` (no `--backups`, `--start-pos`, `-N`, `-O`,
  `-E`, WARC, `--spider`, temporary files, `--content-on-error`, and not `-c`
  together with `--content-disposition`). Some of these exclusions are
  necessary (section 5), the others keep the proofs small.
- `FilesArePrefixes` and `ResumesWhereFileEnds`: `PrefixOnly` and
  `ResumesAtEnd`. The inductive invariant `ContentInv` says: every file is good
  and there are finitely many (so that `unique_name` finds a free name); the name
  is settled as soon as a position depends on it (`NameInv`); between tries the
  file is as long as the position to resume from, and while the body is read the
  next byte to be written is the one after the file's last (`PositionInv`).
- `FinishedFilesAreWhole`: `SavedWhole`. `LengthInv` adds that no file is longer
  than the document; that a response is honest about its length from the head to
  the verdict; and that when the body has ended, `hs.len` is the length of the
  file itself, so that the comparison with `hs.contlen` judges the file and not
  only what this try has read.
- `FilesAreKept`: the action property `KeepsFiles`. `KeptInv` says that the name
  is looked up once, before the first byte (`existence_checked`), and was new
  then, so that later tries may open it without looking; and that with `-c` a try
  that starts at position 0 finds no file or an empty one, so that opening it
  for writing loses nothing.
- `TimestampingIsRight`: `TimestampingUpdates`, under `DatedAssumption`, which TLC
  evaluates on the directories and command lines of the runs (`UsualDates`): with
  `-N` come no options that change where a file is or begins; a file whose
  time-stamp is not older than the document's is a beginning of it; and no server
  answers 204, or wget runs once. The last is necessary: a 204 sets the time-stamp
  of whatever file is there, and the next run believes it. The inductive
  invariant `DatedInv`: a file that is not older than the document is a beginning
  of it, now and when the run began (`FreshInv`); one name is in use and is known
  before a byte is written (`OneNameInv`); what `hs` remembers of the file is true
  of it until the preliminary HEAD is over, and a request is conditional only when
  made for the file that was there (`AskedInv`); a 304 answers a conditional
  request and a 416 one for bytes past the end (`AnswerInv`); a try resumes at the end
  of such a beginning (`ResumeInv`); and what `gethttp` reports as finished, or as
  not worth loading, is the whole document wherever times and sizes can tell
  (`VerdictInv`).

**DownloadMapProofs.**
- `Dissociates`, `Registers`, `Redirects`, `Deletes` say what each function of
  convert.c does to the tables, whoever calls it. The two next modules cite them
  through their instances of this one (`SameTables` there: the operators of the
  instance are those of the module itself).
- `TablesStayConsistent`: `TablesConsistent` for any number of URLs and files and
  any naming; it is inductive as it stands, and its three parts only together.
- `ConversionStaysRight` and `RedirectionsAreRegistered`: `ConversionRight` and
  `RedirectionRegistered` under `NamesAssumption`, which lists the ways in which
  wget names files: existing files are left alone; or a URL has one name, its
  own but for directory indexes; or names are shared (`-nd`) but every file that
  is overwritten is also completed. With a URL whose name varies both are false
  (section 5). `UsualNames` in `MCDownloadMap` has TLC evaluate the assumption
  for the run's command lines. `Inv` has a part for each way: every
  registered file is there and has its owner's name (`Named`); where a URL has
  one name, the owner of a file points to it (`OwnersPoint`: this makes the early
  return of `register_download` right) and a URL that points to a file was led to
  one that has the file's name (`LinksOwned`).

**RetrieveUrlProofs.**
- `CallsStaySound`: `CallsSound` for any URLs, answers and limits. The number of
  requests is bounded although the retry without UTF-8 encoding starts over: a
  URL that may still be retried has a request in reserve (`Reserve`).
- `MethodStaysKept`: `MethodKept`, from `MethodInv`: a suspended method is the one
  of the command line, and none is used meanwhile.
- `CallsImplementDownloadMap`: the refinement `ImplementsDownloadMap`, each step
  of a call is a step of `DownloadMap` or leaves it alone. It needs to know
  that no assertion has failed and that only strings converted to UTF-8 are
  retried (`Origin`), and that `--content-on-error` is not used with such strings
  (`IriAssumption`; otherwise the error page that is kept is registered as the
  file of another URL, section 5).
- `UrlsStayRegistered`: `UrlsRegistered`, from the refinement and the theorems of
  `DownloadMapProofs`, which the module instantiates (`Proved`), under the
  assumptions of both. A call that is not redirected enters the parsed URL
  itself (`Origin`: it is where the call still is), a redirected one the string
  it was given, which is the parsed URL where the property asks for it.

**RetrieveTreeProofs.**
- `QueueStaysSound`: `QueueSound` for any web, options and start URLs, with no
  assumption but `TreeAssumption` and `FileAssumption`. `Walk` gives the ranges;
  `QueueInv` says that what is in the queue or was taken from it is blacklisted in
  its unescaped spelling, which is why no link to it is queued again;
  `QuotaInv`, that the quota has not been reached when a page is taken.
- `FilesStaySound`: `FilesSound` where each URL that is redirected shares its file
  name with no other, or `--trust-server-names` is given (`OwnNames`). The
  assumption is necessary for `AssertionHolds`: two redirected URLs with one file
  name that lead to one document, and a third whose file of that name was deleted
  in between, let the assertion of `register_redirection` (convert.c 994) fail.
  `NamesApart` in `MCRetrieveTree` has TLC evaluate it. `Files` adds that while a
  file has an owner, the URL it is named after leads to it (`Placed`: this is what
  `register_redirection` relies on; with redirected robots.txt files it is not so,
  and nothing is said of it), and that of what is on disk only the file of the
  page at hand may be unwanted (`Left`). `Retrieves` and `Consults` are the two
  calls of `retrieve_url` as relations on tables, disk and hosts, and `Agree` is
  what both keep (`RetrievesAgree`, `ConsultsAgree`).

**PersistentConnectionProofs.** `SocketsStaySound` (from `SocketsTyped`,
`PconnStaysValid`, `SocketsAreClosed`), `RequestsReachTheirHost` and
`AnswersBelong`: `SocketsSound`, `RightPeer` and `AnswersMatch` for any hosts,
addresses (shared or not), command lines, servers and numbers of calls. The
first two only need `ConnectionAssumption`.
- None of the parts of the first two is inductive alone. `Inv` adds: the
  socket in use leads where the call wants to go (`Held`, `RightPeer` at every
  step up to the end of the body); a socket without TLS has the address of the
  host it was opened for (`Direct`: needed when `pconn` is reused by host name);
  once a response is known, `keep_alive` means that the socket is the registered
  one (`Kept`: this is why CLOSE_FINISH may leave it open); every open socket is
  registered, in use, or that of a refused tunnel (`Known`). `Free` proves that
  the lowest free descriptor exists and is free, from the finiteness of the
  sockets; without it a new connection could take the place of the registered
  one.
- `AnswersBelong` also needs `PatientAssumption`: where pieces of a stream arrive
  one by one, servers announce that they will close, no piece is later than the
  read timeout, and `gethttp` does not return with the body unread. Each of the
  three is necessary (`Impatient`, section 5). `Answering` says what the stream
  holds at each step of `gethttp`: the head of the response to the last request,
  then its body as its framing delimits it, then nothing but the end. `Waits` says
  what a registered connection that is not in use holds: nothing, or pieces that
  have arrived, so that `test_socket_open` sees them and it is not used again
  (`Spent`). `Follows` says what the network may do to a stream, and that the
  rest of the invariant survives it.

**HashTableProofs.**
- `CellsStaySound`: `CellsSound` for any keys, values, hash
  functions and table sizes that satisfy the ASSUMEs (`RoomAssumption`: the table
  of primes has a size for all keys, so that `prime_size` does not abort).
  `CellsSound` is not inductive: it says nothing of the entries while cells are
  rearranged. `Inv` adds, between operations, that no cell is empty on the way
  from a key's home to its entry (`Probing`); after a removal, that each entry is
  reached so or stands in the run of occupied cells that is still to be looked at
  (`Settled`: this is why the loop of `hash_table_remove` may stop at the first
  empty cell); while the table grows, that the keys of the new cells, of the old
  ones still to be moved and of the entry that waits are different and together
  do not pass the new threshold (`Moving`). The ways round the table (`OnPath`)
  take the place of induction over probing distances.
- `TableIsMap`: `Spec => ImplementsMap`, each step of the
  table is one of `HashMap` or leaves the map alone. What is hard is the end of a
  walk: no entry with the value may be left, although entries move while the walk
  is under way, and may move round the end of the table. `Swept` says that the
  cells passed hold no such entry (`Passed`); that after a removal an empty cell
  passed is never on the way to an entry not yet passed, so that none moves back
  (`Shielded`); and that there is a second empty cell ahead, where the loop will
  stop before it comes round to the cell at hand (`Beyond`).

**AddressListsProofs.** `ListsStaySound` and `FailuresAreComplete`: `ListsSound`
(what the assertions of host.c say included) and `FailsOnlyWhenAllFail`
for any hosts, answers, options and numbers of calls. The inductive invariant
`Inv` has, besides the types: each list is counted once for the cache and once for
each call that holds it (`Good`; the lemmas about `lookup_host` prove that no list
is lost or released twice on any of its ways out); only the list that is walked
can have faulty addresses without ever having worked (`Excused`), so that the
cache never hands out one that is half faulty and untested; a list of the cache
that has worked is that of a host that was reached (`Proven`); the loop is at the
first address not known to be faulty and has tried those before it (`Walk`,
`Position`); and a host that was reached is in the cache with a list that worked
(`Known`), which is what lets a failure ask for fresh addresses. When an assertion
has failed, the program stops (`Crashed`). The list that the bind address meets
with a faulty address in front comes from the cache; by `Excused` it is the one
that is walked, and then the bind address is the host of the call, or it has
worked, and then the bind address was reached (`Binds`).

**FtpLoopProofs.** `SocketsStaySound`, `DirectoryStaysRight`,
`SavedFilesAreWhole` and `NothingIsForgotten`: `SocketsSound`, `RightDirectory`,
`SavedWhole` and `NothingForgotten` for any servers, command lines and files
beforehand (with `-c`, beginnings of the remote ones), any number of failures, and
lists and recursions of any length. The directory is claimed for connections whose
answers are in time, what is on disk as long as getftp has not gone by a late one.
They rest on one inductive invariant, `Inv`, in layers of which each uses some of those
before it:
- `SocketsInv`, `LeakBound`: where getftp is tells which descriptors are in use
  (`Used`); every other open socket was left by a failure of its own, so that they
  are finitely many, the lowest free descriptor exists, and a number that is
  reused is not taken for the connection that had it;
- `TypesInv`: the frames, lists and locals;
- `CommandsInv`: what `con->cmd` says is what the caller asked for, try after try: a
  listing is never half a retrieval, and the first try of a file after another
  starts with the directory known or not (DO_CWD);
- `AnswersInv`: a transfer that has begun after late answers has set `misled`, so
  that where nothing has (`Trusted`) the answers from RETR and LIST on are in time;
- `DirectoryInv`, of connections that are open and answer in time (`Timely`):
  DONE_CWD means that the server is in the directory that the commands are about;
  in the login it is in its first one; between calls, that it is in the
  directory of the last one, and `Arrived` says what `ftp_retrieve_list` and
  `ftp_retrieve_dirs` may assume;
- `DataInv` (this and the rest as long as `Trusted`): what is on disk agrees
  with `qtyread`, the position given to REST and the answer to it at every step
  of a transfer (`Intact`: a beginning of the remote file; `IsSaved`: all of
  it); the sizes in lists are those of the files, which is why a retry that
  compares with a length from the list does not stop early;
- `CallsInv`: what ftp_loop_internal does not report as retrieved is in `failed`, and
  a listing that it reports as retrieved has all its lines (`ListingWhole`; the way
  from `Body` over `Completed` to `Saved`, with the fallbacks of `Negotiate`); the
  list of a directory is not yet there while it is asked for;
- `FilesInv`: each file of each list is settled (there with all its bytes, given
  up, or past the quota), or in the call that runs, or ahead in the innermost list;
  files are walked only there, because a list descends after its last file;
- `DirsInv`: each directory of each list is reached, or its listing runs, or it is
  ahead in one of the active lists: in the innermost one all of them while its files
  are walked, else those after the place where the list descended.

`NothingForgotten` is what the last two say when no list is active. That a
directory without a list has nothing that is wanted needs `ListingWhole`: it is
whole listings of which nothing is kept, never a listing that broke off.

Besides `OptsAssumption` they use `SitesAssumption` (the size in a line of a list is
the size of the file) and `DisksAssumption`, and of `Init` that with `-c` the files
beforehand are beginnings of the remote ones, hence no longer: `-c` appends to
whatever is there and has no way to tell.

Model-checked only:
- liveness (`Terminates` of every module): fairness and ENABLED are outside
  the prover's reach;
- `LoadsWhatItShould` of `RetrieveTree`, which compares with a definition by
  folding over levels: proving it needs induction over data;
- `ChainsSound` and `ImplementsCookieStore` of `CookieJar`: chains are walked by
  a recursive function, and what it returns for a chain of any length needs
  induction over data; `HeaderRight`, which compares with all orders of a set,
  for the same reason;
- `FileWhole`, `NewerKept` and `LogKept`: within reach, and in the plan.

## 5. Where the code differs from what it says

Found while modelling. Where a comment, an assertion or the manual says something
that the code does not do, the module states it as a property all the same; its
comment begins with "Claimed" unless the property holds under most options and is
checked for those. TLC finds each of these violated when the cfg of the run named
here checks that property alone, with the constant changed as given:

| Property | Run and constants | What happens |
|---|---|---|
| HttpLoop `PrefixOnly` | `HttpLoop_resume` with `BackupOpts` | `--backups` rotates the partial file away on each resumed try; the rest is appended to a new, empty file and reported as complete. |
| HttpLoop `ContinueKeepsBytes` | `HttpLoop_resume` with `NamedByHeadOpts`, `Interrupted`, status 500 | `-c --content-disposition`: after a HEAD answered with 500 or 501 the partial file of an earlier run is truncated. |
| DownloadMap `RedirectionRegistered` | `DownloadMap_tables` with `Varying` | The assertion in `register_redirection` (convert.c 994) fails after a history of renamed and overwritten downloads, because `register_download` returns early. |
| RetrieveUrl `MethodFollows` | `RetrieveUrl_calls` | The retry without UTF-8 encoding repeats a redirected POST as GET (comment at retr.c 1089-1098). |
| RetrieveUrl `DownloadedUrlKnown` | `RetrieveUrl_calls` | main passes `http://host` as it is; when that is redirected, the string is registered (retr.c 1139-1140), but convert.c 131 looks up `http://host/`, and links to it are not converted. The same after the retry without UTF-8 encoding. |
| RetrieveTree `Complete` | `RetrieveTree_trees` with `SelfTrees` | The links of a page that redirects to itself, or to another spelling of its URL, are not followed. |
| RetrieveTree `RejectedGo` | `RetrieveTree_trees` | `-R html`: a page loaded for its links is saved as `x.html.tmp` (http.c 2338-2344), which `-R html` accepts (recur.c 499), so it is not deleted (comment at recur.c 500-504). |
| RetrieveTree `TablesLeadToFiles` | `RetrieveTree_trees` | A robots.txt that is temporary (`--delete-after`, `-A`) is registered by `retrieve_url` and unlinked at recur.c 748-754 without `register_delete_file`; the tables go on leading to it. |
| RetrieveTree `RedirectionRegistered` | `RetrieveTree_trees` with `LedTrees` | A robots.txt that is redirected and was loaded as a page before is fetched again; if the document it leads to lost its file in between, the assertion at convert.c 994 fails. |
| PersistentConnection `AnswersMatch` | `PersistentConnection_reuse` with `Impatient`, three calls | What is left of one response is taken for the answer to the next request: the late body of an unread response without Content-Length; the pieces after a chunk header for which `skip_short_body` has stopped waiting; a body left unread by the early return of `check_file_output` under `-nc`. |
| FtpLoop `NeverAborts` | `FtpLoop_transfers` | The last `default: abort ()` of `ftp_loop_internal` (2024-2026) is reached: by WRITEFAILED from SYST, PWD and SIZE, and by FTPRESTFAIL (1652). |
| FtpLoop `ProtAnswered` | `FtpLoop_transfers` | A PBSZ or PROT that cannot be written, or is not answered in time, is taken for success: 554 and 564 test only for FTPNOPBSZ and FTPNOPROT (ftp-basic.c 553-613; comment at ftp.c 544-548). |
| FtpLoop `AlwaysRightDirectory` | `FtpLoop_transfers` | After that, or after a timeout of AUTH with `--ftps-fallback-to-ftp`, every answer is read one command late: a refused CWD passes for the answer to TYPE, and the file is asked for in the login directory. The same after a refused PROT, whose return keeps the connection, not yet in any directory, with DONE_CWD as it was (ftp.h, "The current working directory is correct"). |
| FtpLoop `StampedIsCurrent` | `FtpLoop_transfers` | `-N`: when the retrieval of a newer file fails, the old one gets the new time-stamp all the same and is not fetched again (doc/wget.texi 3061-3071). |
| FtpLoop `StatusTells` | `FtpLoop_transfers` | The result of `ftp_retrieve_dirs` replaces that of `ftp_retrieve_list` (2467), so that a failed file leaves status 0 (doc/wget.texi 2548, 2582). |
| HstsStore `OthersKept` | `HstsStore_merge` with `Absent` | Two processes that start without a database: the second to end has `last_mtime` 0, does not merge, and overwrites what the first has written (571; doc/wget.texi 2009-2011). |
| LogRedirection `Permanent` | `LogRedirection_signals` | `redirect_output` of the program, interrupted by a signal before it clears the request, forgets it: the log goes back to the terminal in the foreground (log.c 976, doc/wget.texi 4269). |
| LogRedirection `CallsReturn` | `LogRedirection_signals` with `FairSpec` | A signal that cannot make a file inhibits logging; if it comes after `logprintf` has asked for that, its loop does not end (log.c 98). |
| AddressLists `NeverAborts` | `AddressLists_cache` | `socket ()` fails for a host (connect.c 302-304) before the bind address has been resolved; when that host is also the bind address, a build without IPv6 meets its cached list, the first address faulty, in `resolve_bind_address`, and the assertion of `address_list_address_at` (host.c 104) fails. |
| CookieJar `KeepsToItsDomain` | `CookieJar_sessions` | A header whose domain is refused still discards the stored cookie with its name, path and domain (776-785; comment at 475). |

Others were noted and are in the models' behaviour, excluded by the options of
the runs, or left out:

- Temporary files (`-A`, `--delete-after`) get another `.tmp` with every try
  (http.c 2336-2343), so that a resumed try starts a new file.
- `--start-pos`: a retry starts at the given position again and appends
  (4391-4392; doc/wget.texi 796). WARC takes `hstat.len` first, which the
  comment at 4248 does not expect.
- A 504 or a status in `--retry-on-http-error` with `-O` or
  `--content-on-error` leaves the error page in front of the document.
- `-N` after an interrupted download asks only for the time-stamp of the part
  (doc/wget.texi 3027), and `-N -c` continues an outdated file (3061).
  `TimestampingUpdates` excludes the former.
- When HEAD is answered with 500 at the last try, the GET is not tried (4561).
  "hstat.res can only be -1" (4843) does not hold.
- `-c` with a server without Range: the body is skipped up to the position and
  the rest appended, which doc/wget.texi 757 describes otherwise.
- convert.c 54-55: the sets of HTML and CSS files are not reduced when a file is
  overwritten by another type.
- An error page kept by `--content-on-error` is registered as the original URL's
  when that was converted to UTF-8: u has been parsed again (retr.c 1117).
- recur.c: a page first seen as an inline image is not parsed when it is later
  linked; a second tree resolves the links of a moved page against its old URL,
  and does not judge the redirection again (`Reuse`); a page whose file was
  unlinked as a robots.txt is reused without its links (`Harvest`). Such trees are
  marked `misled`, and `LoadsWhatItShould` says nothing of them.
- `fopen_excl` is never used for the first try, because the counter is already
  1; `ftp_loop` is passed `recursive`, not the saved value.
- Early returns leave the socket: `check_file_output` (3651-3658), a refused
  tunnel or a malformed answer of a proxy (2176-2199). `skip_short_body` counts
  a missing chunk header as success (993-996). A failure on a connection that
  was reused counts as a try.
- ftp.c: `con.rs` starts as ST_UNIX but `rsu` as 0, which is UST_TYPE_L8, so
  that a server that does not know SYST gets `LIST -a` only; `previous_rd_size`
  is local to one `getftp`; a failure in active mode leaves the listening
  socket; when the server does not connect, the control connection is kept with the
  answer to RETR still to come (1380-1392); a timeout of AUTH counts as a refusal
  (278); a certificate that is refused leaves the number of a closed control
  connection in `con.csock`; `ftp_retrieve_glob` with a single name that is not
  in the listing starts a retrieval "on its own" and forgets the directory the
  connection is in.
- hsts.c: `max-age=0` is stored for a host that was not known; an entry for the
  last label of a host, which does not apply to it, keeps new entries for it
  out; merging drops hosts that a known domain covers; a store that has become
  empty is not saved, so that the file keeps the last entry; an expired entry of
  a domain hides one further up; modification times are compared in seconds, and
  `fstat` follows the reading; `created + max_age` may overflow.
- connect.c: a list that never worked stays in the cache and is walked again
  without a new lookup.
- cookies.c: `cookie_count` is not reduced by `discard_matching_cookie`; whether
  a cookie is for one host only is not part of its key; two processes overwrite
  each other's file; when the file could not be read at the start it is
  overwritten at the end.

## 6. What the models leave out

HttpLoop: `HttpLoop_resume` has no `--backups` (section 5 says what it does to
`PrefixOnly`). Not modelled are status 300 (301 stands for all redirections; 307
is in RetrieveUrl), 10x responses, gzip, `-K` and its `.orig` files,
`utf8_encode` in spider mode, `--unlink` other than its failure, quota and rate
limits, the text of headers. Servers describe the document honestly; a document
that changes between tries is not modelled (no check in the code could notice,
except If-Modified-Since).

PersistentConnection: NTLM, ports (a host stands for host and port), several
addresses per host, 416 to HEAD, WARC with HEAD, 10x responses, Content-Length
together with chunked coding, gzip. Pieces that come later than the read
timeout, and pieces arriving one by one together with old servers that end a
body by closing without announcing it, or with `-nc` and names that come from the
head, are in no run (`Impatient`); the proofs of `SocketsSound` and `RightPeer`
include them.

DownloadTables: the four tables of URLs and files are there;
`downloaded_files_hash` (which file gets a `.orig` backup under `-K` and `-E`)
is not. In DownloadMap a file only goes when the tables are told; those that go
untold are a temporary robots.txt (RetrieveTree has it) and, under
`--delete-after`, what main (2181-2188), `retrieve_from_file` (retr.c 1299-1306)
and `ftp_loop_internal` (ftp.c 2104-2111) unlink.

RetrieveUrl: `http_loop`, `ftp_loop` and the proxy are outcomes; the names of
files come from the constant `naming`, the spellings of URLs from `canonical` and
`unencoded`. Refresh, `-F` and `--spider` (which registers no redirection) are
not there, nor the deletions under `--delete-after`.

RetrieveTree: `retrieve_url` is one step that takes at most one redirection to
a final document; the site does not change; the quota counts documents, not
bytes; a robots.txt is saved or not there (a full disk is met by pages only).
Files keep the names of their URLs (`-nd` with its numbered names is not there),
and a temporary one has a single `.tmp`. `--spider`, `--mirror` specifics and
FTP links are not there.

FtpLoop: what a late answer is: it may be any, so that a file got by one is not
claimed to be right; a PBSZ and a PROT that fail are one case. Also `--spider`,
`-O`, WARC, `--backups`, `--start-pos`, symbolic links, the parsers of listings
(a listing is a sequence of entries, of the command that getftp holds to have
asked for), OPIE, paths of VMS and OS/400, the quirk of a proxy. Servers keep
their files during a run, list what they have (and files that are gone), and end
a transfer with 226 only when it was whole.

HashTable: hash and comparison functions (any function of the keys), memory.
`hash_table_iterate` is a walk that changes nothing.

HstsStore: ports, the parsing of lines, the refusal of a file that others may
write, file systems without `flock`.

AddressLists: timeouts of the resolver, c-ares, the domain rules of
`accept_domain`, the transport layer, `bind_local` and `accept_connection`.

LogRedirection: levels of verbosity, the log of WARC files, flushing,
`log_close`, escaping. SIGUSR1 is SIGHUP here; they differ in a name that is
printed.

CookieJar: libpsl, the parsing of headers and lines, `max-age` before `expires`
in one header, lines that are cut in the middle. Domains are sequences of
labels, paths of segments, as far as the comparisons of the code tell them
apart.

Out of scope altogether: option and wgetrc parsing, generated code (css.c,
css_.c), gnulib (`src/lib`, more than half of the lines), TLS and NTLM glue,
platform code, display. WARC output is pure output (what it does to requests is
in `HttpLoop` and `PersistentConnection`). metalink.c is a sequence of calls of
`retrieve_url` and of library functions on hashes and signatures; only the
decision to switch to it is in `HttpLoop`.

## 7. Plan

Done, in this order: the tables and loops of the HTTP half (`HttpLoop`,
`DownloadMap`, `RetrieveUrl`, `RetrieveTree`, `PersistentConnection`), then
`FtpLoop`, `HashTable`, `HstsStore`, `AddressLists`, `LogRedirection`,
`CookieJar`.

Next, where a new run takes the place of one whose question it includes, so that
the set of runs stays small:

1. Metalink: the loop over mirrors of `retrieve_from_metalink`, with the renaming
   of files whose hash is wrong.
2. `downloaded_files_hash` in `DownloadTables` (which file gets an `.orig` backup
   under `-K` and `-E`).
3. Pure operators checked against reference definitions: `path_simplify`,
   `uri_merge` (url.c), the matching of robots.txt (res.c).
4. WARC: the switch of files between two records.

Theorems next: `FileWhole` and `NewerKept` of `HstsStore`, from what each process
holds between its opening and closing of the file; `LogKept` of `LogRedirection`;
for `CookieJar`, what can be said of single links instead of whole chains.
