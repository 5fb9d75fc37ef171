--------------------------- MODULE LogRedirection ---------------------------
(***************************************************************************)
(* Where the log goes (src/src/log.c): to the terminal or to wget-log,     *)
(* which SIGHUP and SIGUSR1 ask for at any instruction, and which is also  *)
(* decided before each message by whether the process is in the            *)
(* foreground.  The signal handler redirects by itself, on the variables   *)
(* of the logging functions that it has interrupted.                       *)
(*                                                                         *)
(* A message is its number; it ends a line or leaves it to be continued.   *)
(* The second stream of WARC files, the levels of verbosity and the end of *)
(* the program (log_close) are left out.                                   *)
(***************************************************************************)
EXTENDS Naturals, FiniteSets

CONSTANTS
    Opts,               \* -o, whether stderr is a terminal, and whether stdin is
    SAVED_LOG_LINES,
    MaxMessages, MaxSignals, MaxSwitches    \* bounds

ASSUME LinesAssumption == SAVED_LOG_LINES \in Nat \ {0, 1}
ASSUME BoundsAssumption == {MaxMessages, MaxSignals, MaxSwitches} \subseteq Nat

VARIABLES
    opt,
    foreground,                 \* tcgetpgrp (STDIN_FILENO) == getpgrp ()
    logfp, filelogfp,           \* streams, or NULL
    inhibit_logging,
    redirect_request_signal_name,
    created,                    \* how many wget-log files unique_create has made
    log_lines, log_line_current, trailing_line,     \* the last lines, for context
    out,                        \* what each stream has got
    pc, fn, line_end, fp,       \* the call in progress: where, which, and its locals
    messages, signals, switches,
    ends, dropped, overtaken    \* history: messages that end a line; that were inhibited;
                                \* that a signal caught written to fp and not yet saved

context == <<log_lines, log_line_current, trailing_line>>
redirection == <<logfp, filelogfp, inhibit_logging, redirect_request_signal_name, created>>
call == <<fn, line_end, fp>>
history == <<messages, signals, switches, ends, dropped, overtaken>>
vars == <<opt, foreground, redirection, context, out, pc, call, history>>

NULL == "NULL"
Logs == <<"wget-log", "wget-log.1", "wget-log.2", "wget-log.3", "wget-log.4">>
Streams == {"std", "named"} \cup {Logs[k] : k \in 1..5}
Slots == 0..(SAVED_LOG_LINES - 1)
ROT_ADVANCE(k) == (k + 1) % SAVED_LOG_LINES

\* log_init: the context is only saved when the log goes to a terminal.
save_context_p == opt.lfilename = NULL /\ opt.stderr_tty

Init ==
    /\ opt \in Opts /\ foreground = TRUE
    /\ filelogfp = IF opt.lfilename = "file" THEN "named" ELSE NULL
    /\ logfp = IF opt.lfilename = "file" THEN "named" ELSE "std"
    /\ inhibit_logging = FALSE /\ redirect_request_signal_name = NULL /\ created = 0
    /\ log_lines = [k \in Slots |-> {}] /\ log_line_current = 0 /\ trailing_line = FALSE
    /\ out = [s \in Streams |-> {}]
    /\ pc = "idle" /\ fn = "none" /\ line_end = FALSE /\ fp = NULL
    /\ messages = 0 /\ signals = 0 /\ switches = 0
    /\ ends = {} /\ dropped = {} /\ overtaken = {}

-----------------------------------------------------------------------------
get_log_fp == IF inhibit_logging THEN NULL ELSE logfp

\* Variant for sensitivity checks: the line that is being continued is skipped.
log_dump_context_whole(stream) ==
    out' = IF inhibit_logging THEN out
           ELSE [out EXCEPT ![stream] = @ \cup UNION {log_lines[k] :
                    k \in IF trailing_line THEN Slots \ {log_line_current} ELSE Slots}]

\* log_dump_context: every line of the ring, the oldest first, the one being
\* continued last.
log_dump_context(stream) ==
    out' = IF inhibit_logging THEN out
           ELSE [out EXCEPT ![stream] = @ \cup UNION {log_lines[k] : k \in Slots}]

\* redirect_output (true, signal_name) in the handler, which nothing of the program
\* interrupts.
redirect_output(signal_name) ==
    \/ /\ logfp = filelogfp
       /\ UNCHANGED <<redirection, out>>
    \/ /\ logfp # filelogfp /\ filelogfp = NULL
       /\ created' = created + 1 /\ filelogfp' = Logs[created + 1]
       /\ redirect_request_signal_name' = signal_name
       /\ logfp' = Logs[created + 1] /\ log_dump_context(Logs[created + 1])
       /\ UNCHANGED inhibit_logging
    \/ /\ logfp # filelogfp /\ filelogfp = NULL
       /\ inhibit_logging' = TRUE
       /\ UNCHANGED <<logfp, filelogfp, redirect_request_signal_name, created, out>>
    \/ /\ logfp # filelogfp /\ filelogfp # NULL
       /\ logfp' = filelogfp /\ log_dump_context(filelogfp)
       /\ UNCHANGED <<filelogfp, inhibit_logging, redirect_request_signal_name, created>>

\* redirect_output_signal (src/src/main.c), between any two steps of the program.
redirect_output_signal ==
    /\ signals < MaxSignals /\ signals' = signals + 1
    /\ redirect_output("SIGHUP")
    /\ overtaken' = IF pc = "save" \/ (pc = "write" /\ fn = "logputs")
                    THEN overtaken \cup {messages} ELSE overtaken
    /\ UNCHANGED <<opt, foreground, context, pc, call, messages, switches, ends, dropped>>

\* The shell puts the process into the background or back.
Switch ==
    /\ switches < MaxSwitches /\ switches' = switches + 1
    /\ foreground' = ~foreground
    /\ UNCHANGED <<opt, redirection, context, out, pc, call, messages, signals, ends,
                   dropped, overtaken>>

-----------------------------------------------------------------------------
\* The program.  logputs and logprintf begin with check_redirect_output.
Step(from, to) == pc = from /\ pc' = to
Same == UNCHANGED <<opt, foreground, signals, switches, overtaken>>
Quiet == Same /\ UNCHANGED <<messages, ends, dropped>>

Log(f, nl) ==
    /\ Step("idle", "check") /\ messages < MaxMessages
    /\ messages' = messages + 1 /\ fn' = f /\ line_end' = nl
    /\ ends' = IF nl THEN ends \cup {messages'} ELSE ends
    /\ Same /\ UNCHANGED <<redirection, context, out, fp, dropped>>

\* Only while no signal has asked for a file, and by a shell that has jobs.
Checked == redirect_request_signal_name = NULL /\ opt.interactive /\ opt.lfilename = NULL

check_redirect_output ==
    /\ pc = "check"
    /\ pc' = IF ~Checked THEN "get" ELSE IF foreground THEN "to_std" ELSE "to_file"
    /\ Quiet /\ UNCHANGED <<redirection, context, out, call>>

\* redirect_output (true, NULL), a step for each assignment that the handler sees.
To_file ==
    /\ pc = "to_file"
    /\ pc' = IF logfp = filelogfp THEN "get" ELSE IF filelogfp = NULL THEN "create" ELSE "set"
    /\ Quiet /\ UNCHANGED <<redirection, context, out, call>>

Create ==
    /\ Step("create", "created")
    /\ \/ created' = created + 1 /\ fp' = Logs[created + 1]
       \/ UNCHANGED created /\ fp' = NULL
    /\ Quiet
    /\ UNCHANGED <<logfp, filelogfp, inhibit_logging, redirect_request_signal_name, context,
                   out, fn, line_end>>

Created ==
    /\ Step("created", "opened") /\ filelogfp' = fp
    /\ Quiet
    /\ UNCHANGED <<logfp, inhibit_logging, redirect_request_signal_name, created, context,
                   out, call>>

\* The test of filelogfp reads what was stored, or what is there by now.
Opened ==
    /\ pc = "opened" /\ fp' = NULL
    /\ \E file \in {fp, filelogfp} :
          IF file = NULL
          THEN pc' = "get" /\ inhibit_logging' = TRUE /\ UNCHANGED redirect_request_signal_name
          ELSE pc' = "set" /\ redirect_request_signal_name' = NULL /\ UNCHANGED inhibit_logging
    /\ Quiet
    /\ UNCHANGED <<logfp, filelogfp, created, context, out, fn, line_end>>

Set ==
    /\ Step("set", "dump") /\ logfp' = filelogfp
    /\ Quiet
    /\ UNCHANGED <<filelogfp, inhibit_logging, redirect_request_signal_name, created,
                   context, out, call>>

\* redirect_output (false, NULL).
To_std ==
    /\ pc = "to_std"
    /\ IF logfp = "std" THEN pc' = "get" /\ UNCHANGED logfp
       ELSE pc' = "dump" /\ logfp' = "std"
    /\ Quiet
    /\ UNCHANGED <<filelogfp, inhibit_logging, redirect_request_signal_name, created,
                   context, out, call>>

Dump ==
    /\ Step("dump", "get") /\ log_dump_context(logfp)
    /\ Quiet /\ UNCHANGED <<redirection, context, call>>

\* The stream is taken once.  logputs returns when logging is inhibited, logprintf
\* when it was before log_vprintf_internal, which is called until it writes.
Get ==
    /\ pc = "get"
    /\ fp' = get_log_fp
    /\ IF inhibit_logging
       THEN pc' = "idle" /\ dropped' = dropped \cup {messages}
       ELSE /\ pc' = IF fn = "logputs" THEN "write" ELSE "internal"
            /\ UNCHANGED dropped
    /\ Same
    /\ UNCHANGED <<redirection, context, out, fn, line_end, messages, ends>>

log_vprintf_internal ==
    /\ pc = "internal"
    /\ fp' = get_log_fp
    /\ pc' = IF inhibit_logging THEN "internal" ELSE IF save_context_p THEN "save" ELSE "write"
    /\ Quiet /\ UNCHANGED <<redirection, context, out, fn, line_end>>

\* FPUTS, before saved_append in logputs and after it in logprintf.
Write ==
    /\ pc = "write"
    /\ out' = [out EXCEPT ![fp] = @ \cup {messages}]
    /\ pc' = IF fn = "logputs" /\ save_context_p THEN "save" ELSE "return"
    /\ Quiet /\ UNCHANGED <<redirection, context, call>>

\* saved_append_1: to the line being continued or to the oldest one, cleared.
Save ==
    /\ Step("save", "advance")
    /\ log_lines' = [log_lines EXCEPT ![log_line_current] =
                        IF trailing_line THEN @ \cup {messages} ELSE {messages}]
    /\ Quiet /\ UNCHANGED <<redirection, log_line_current, trailing_line, out, call>>

Advance ==
    /\ pc = "advance" /\ trailing_line' = ~line_end
    /\ pc' = IF line_end THEN "rotate" ELSE IF fn = "logputs" THEN "return" ELSE "write"
    /\ Quiet /\ UNCHANGED <<redirection, log_lines, log_line_current, out, call>>

Rotate ==
    /\ pc = "rotate" /\ pc' = IF fn = "logputs" THEN "return" ELSE "write"
    /\ log_line_current' = ROT_ADVANCE(log_line_current)
    /\ Quiet /\ UNCHANGED <<redirection, log_lines, trailing_line, out, call>>

Return ==
    /\ Step("return", "idle")
    /\ fp' = NULL
    /\ Quiet /\ UNCHANGED <<redirection, context, out, fn, line_end>>

Logging ==
    \/ check_redirect_output \/ To_file \/ Create \/ Created \/ Opened \/ Set \/ To_std \/ Dump
    \/ Get \/ log_vprintf_internal \/ Write \/ Save \/ Advance \/ Rotate \/ Return

Next ==
    \/ \E f \in {"logputs", "logprintf"}, nl \in BOOLEAN : Log(f, nl)
    \/ Logging
    \/ redirect_output_signal
    \/ Switch

Spec == Init /\ [][Next]_vars
FairSpec == Spec /\ WF_vars(Logging)

-----------------------------------------------------------------------------
TypeOK ==
    /\ opt \in Opts
    /\ logfp \in Streams /\ filelogfp \in Streams \cup {NULL} /\ fp \in Streams \cup {NULL}
    /\ redirect_request_signal_name \in {NULL, "SIGHUP"}
    /\ log_lines \in [Slots -> SUBSET (1..messages)] /\ log_line_current \in Slots
    /\ out \in [Streams -> SUBSET (1..messages)]
    /\ messages \in 0..MaxMessages /\ created \in 0..5

\* The messages of the last SAVED_LOG_LINES lines.
Recent ==
    {m \in 1..messages :
        Cardinality({k \in ends : k >= m}) + (IF messages \in ends THEN 0 ELSE 1)
            <= SAVED_LOG_LINES}

\* No message is lost when the log changes hands.  Between calls, each message that
\* was not inhibited has been written to some stream; and the stream that the log
\* now goes to has all of the last lines, those from before the change included.
\* Only a message that a signal caught between the choice of its stream and its
\* being saved may be missing there.
LogKept ==
    /\ TypeOK
    /\ pc = "idle" =>
          \A m \in (1..messages) \ dropped : \E s \in Streams : m \in out[s]
    /\ pc = "idle" /\ save_context_p /\ ~inhibit_logging =>
          (Recent \ dropped) \ overtaken \subseteq out[logfp]

\* Claimed (src/src/log.c:976, doc/wget.texi:4269): once a signal has asked for
\* it, output goes to the file for good.
Permanent == pc = "idle" /\ signals > 0 /\ ~inhibit_logging => logfp # "std"

\* Claimed (src/src/log.c:98): when logging is inhibited nothing is printed or
\* stored, and a call returns.
CallsReturn == pc = "check" ~> pc = "idle"
=============================================================================
