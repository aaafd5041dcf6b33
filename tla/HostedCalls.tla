------------------------------ MODULE HostedCalls ------------------------------
(***************************************************************************)
(* A hosted MCP request and its tool calls around the tools themselves:    *)
(* the application a Worker sets up with its first request                 *)
(* (src/src/workers/app.ts), the bearer check and the handler of /mcp      *)
(* (src/src/hosted/app.ts), the guard that loads the caller's connections  *)
(* and writes the audit lines (src/src/hosted/guard.ts), and the audit log *)
(* they go to, a file of a Node server (FileAuditLog of                    *)
(* src/src/hosted/audit.ts) or a table of D1 (src/src/workers/d1-audit.ts).*)
(*                                                                         *)
(* What one caller sets up others wait for: the application, the           *)
(* connections of a request, the directory or the table of the log.  Any   *)
(* of it may fail, any write may fail or be torn, and the process may die. *)
(***************************************************************************)
EXTENDS Naturals, Sequences, SequencesExt

CONSTANTS
    Requests,   \* POSTs to /mcp
    Calls,      \* tool calls
    RunActions, \* those of shopify_run_action
    Of,         \* the request each call comes in
    MaxKills    \* bound: how often the process dies

VARIABLES
    sink,      \* where lines go: "file" on Node, "d1" on a Worker
    app,       \* the promise of the application
    request,   \* per request: how far it is
    loading,   \* per request: the promise of its connections (accessFor)
    call,      \* per call: how far it is
    ready,     \* the promise of the log's directory or table
    writes,    \* the lines being written, in the order they came
    log,       \* the lines of the file or the table
    printed,   \* lines that went to the console instead
    (* history *)
    joined,    \* per call or request: what it last waited for had already failed
    sent,      \* calls that changed a store
    unloaded,  \* calls whose connections could not be read
    reported,  \* lines of which a failed write was reported
    stale,     \* the promises whose failure was given to someone who came after it
    kills

promises == <<app, loading, ready>>
lines    == <<writes, log, printed, reported>>
history  == <<joined, sent, unloaded>>
vars     == <<sink, promises, request, call, lines, history, stale, kills>>

Promise == {"none", "pending", "done", "failed"}

Events == {"request_unauthorized", "action_run", "tool_call"}

Line(who, event) == [who |-> who, event |-> event]
Lines == [who : Requests \cup Calls, event : Events]

Init ==
    /\ sink \in {"file", "d1"}
    /\ app = IF sink = "file" THEN "done" ELSE "none"
    /\ request = [m \in Requests |-> "none"]
    /\ loading = [m \in Requests |-> "none"]
    /\ call = [c \in Calls |-> "none"]
    /\ ready = "none" /\ writes = <<>> /\ log = <<>> /\ printed = {}
    /\ joined = [x \in Requests \cup Calls |-> FALSE]
    /\ sent = {} /\ unloaded = {} /\ reported = {} /\ stale = {} /\ kills = 0

-----------------------------------------------------------------------------
(* Shared promises.  Whoever finds none begins one. *)

Joined(p) == IF p = "none" THEN "pending" ELSE p

\* Mutant: the rejected promise stays.
ForgottenNever(p) == "failed"

\* A rejected promise is dropped: the next caller begins again.
Forgotten(p) == "none"

\* It is given to those who wait: a failure to those who came after it, too.
Given(what, waiting) ==
    stale' = stale \cup (IF \E x \in waiting : joined[x] THEN {what} ELSE {})

-----------------------------------------------------------------------------
(* The application and the bearer check. *)

Arrive(m) ==
    /\ request[m] = "none"
    /\ app' = Joined(app)
    /\ request' = [request EXCEPT ![m] = "setup"]
    /\ joined' = [joined EXCEPT ![m] = app = "failed"]
    /\ UNCHANGED <<sink, loading, ready, call, lines, sent, unloaded, stale, kills>>

SetUp ==
    /\ app = "pending"
    /\ app' = "done"
    /\ UNCHANGED <<sink, loading, ready, request, call, lines, history, stale, kills>>

InSetup == {m \in Requests : request[m] = "setup"}

\* A configuration error: every request that waits is answered with status 500.
SetUpFails ==
    /\ app \in {"pending", "failed"} /\ InSetup # {}
    /\ app' = Forgotten(app)
    /\ request' = [m \in Requests |-> IF m \in InSetup THEN "over" ELSE request[m]]
    /\ Given("app", InSetup)
    /\ UNCHANGED <<sink, loading, ready, call, lines, history, kills>>

\* auditAuth, auditAction and the guard's own line: audit.write, whose failure
\* is reported and changes nothing else.
Write(line) ==
    /\ ready' = Joined(ready)
    /\ writes' = Append(writes, line)
    /\ joined' = [joined EXCEPT ![line.who] = ready = "failed"]

\* verifyAccessToken passes (TokenFamilies): the request's calls begin.
Authorize(m) ==
    /\ request[m] = "setup" /\ app = "done"
    /\ request' = [request EXCEPT ![m] = "calls"]
    /\ call' = [c \in Calls |-> IF Of[c] = m THEN "called" ELSE call[c]]
    /\ UNCHANGED <<sink, promises, lines, history, stale, kills>>

\* No bearer token, or one that is not valid: a line, then status 401.
Unauthorized(m) ==
    /\ request[m] = "setup" /\ app = "done"
    /\ request' = [request EXCEPT ![m] = "unauthorized"]
    /\ Write(Line(m, "request_unauthorized"))
    /\ UNCHANGED <<sink, app, loading, call, log, printed, reported, sent, unloaded, stale, kills>>

\* The store of the tokens fails: status 500.
CheckFails(m) ==
    /\ request[m] = "setup" /\ app = "done"
    /\ request' = [request EXCEPT ![m] = "over"]
    /\ UNCHANGED <<sink, promises, call, lines, history, stale, kills>>

-----------------------------------------------------------------------------
(* The guard around each call. *)

Move(c, to) == call' = [call EXCEPT ![c] = to]

\* The connections of the request are read once for all its calls.
Load(c) ==
    /\ call[c] = "called"
    /\ loading' = [loading EXCEPT ![Of[c]] = Joined(@)]
    /\ joined' = [joined EXCEPT ![c] = loading[Of[c]] = "failed"]
    /\ Move(c, "load")
    /\ UNCHANGED <<sink, app, ready, request, lines, sent, unloaded, stale, kills>>

Loaded(m) ==
    /\ loading[m] = "pending"
    /\ loading' = [loading EXCEPT ![m] = "done"]
    /\ UNCHANGED <<sink, app, ready, request, call, lines, history, stale, kills>>

InLoad(m) == {c \in Calls : Of[c] = m /\ call[c] = "load"}

\* The calls that wait throw, after their line is written.
LoadFails(m) ==
    /\ loading[m] \in {"pending", "failed"} /\ InLoad(m) # {}
    /\ loading' = [loading EXCEPT ![m] = Forgotten(@)]
    /\ call' = [c \in Calls |-> IF c \in InLoad(m) THEN "ended" ELSE call[c]]
    /\ unloaded' = unloaded \cup InLoad(m)
    /\ Given("load", InLoad(m))
    /\ UNCHANGED <<sink, app, ready, request, lines, joined, sent, kills>>

Runs(c) == call[c] = "load" /\ loading[Of[c]] = "done"

\* A tool changes a store.
Changes(c) ==
    /\ Runs(c)
    /\ sent' = sent \cup {c}
    /\ Move(c, IF c \in RunActions THEN "run" ELSE "ended")
    /\ UNCHANGED <<sink, promises, request, lines, joined, unloaded, stale, kills>>

\* Mutant: refused calls and dry runs leave no line of their own.
AuditActionOfChanges(c) ==
    /\ c \in RunActions
    /\ \/ /\ call[c] = "run"
          /\ Write(Line(c, "action_run"))
          /\ Move(c, "audited")
          /\ UNCHANGED <<sink, app, loading, request, log, printed, reported, sent,
                         unloaded, stale, kills>>
       \/ /\ Runs(c)
          /\ Move(c, "ended")
          /\ UNCHANGED <<sink, promises, request, lines, history, stale, kills>>

\* The line of its own that shopify_run_action writes once, whatever it did: of
\* what became of the change in every store, or of a dry run, of a call that was
\* refused, and of one in which a store failed its checks.
AuditAction(c) ==
    /\ c \in RunActions
    /\ call[c] = "run" \/ Runs(c)
    /\ Write(Line(c, "action_run"))
    /\ Move(c, "audited")
    /\ UNCHANGED <<sink, app, loading, request, log, printed, reported, sent,
                   unloaded, stale, kills>>

\* Mutant: a call that threw leaves no line.
AuditCallOfResults(c) ==
    \/ /\ call[c] = "ended" /\ c \in unloaded
       /\ Move(c, "answered")
       /\ UNCHANGED <<sink, promises, request, lines, history, stale, kills>>
    \/ /\ (call[c] = "ended" /\ c \notin unloaded) \/ (Runs(c) /\ c \notin RunActions)
       /\ Write(Line(c, "tool_call"))
       /\ Move(c, "lined")
       /\ UNCHANGED <<sink, app, loading, request, log, printed, reported, sent,
                      unloaded, stale, kills>>

\* The line of the call, whatever became of it: of one that failed to load, that
\* wrote its own line or made its change, or of one of another tool that only
\* read, that failed, or that refused an argument naming a local file.
AuditCall(c) ==
    /\ call[c] = "ended" \/ (Runs(c) /\ c \notin RunActions)
    /\ Write(Line(c, "tool_call"))
    /\ Move(c, "lined")
    /\ UNCHANGED <<sink, app, loading, request, log, printed, reported, sent,
                   unloaded, stale, kills>>

\* A request is over with its calls.
Respond(m) ==
    /\ request[m] = "calls"
    /\ \A c \in Calls : Of[c] = m => call[c] = "answered"
    /\ request' = [request EXCEPT ![m] = "over"]
    /\ UNCHANGED <<sink, promises, call, lines, history, stale, kills>>

-----------------------------------------------------------------------------
(* The audit log. *)

\* mkdir of FileAuditLog, CREATE TABLE of D1AuditLog.
LogReady ==
    /\ ready = "pending"
    /\ ready' = "done"
    /\ UNCHANGED <<sink, app, loading, request, call, lines, history, stale, kills>>

LogNotReady ==
    /\ sink = "file" /\ ready = "pending"
    /\ ready' = "failed"
    /\ UNCHANGED <<sink, app, loading, request, call, lines, history, stale, kills>>

\* Whose turn it is: the writes of a file wait for each other, those of a table do not.
Turn == IF sink = "file" THEN {1} \cap DOMAIN writes ELSE DOMAIN writes

Entry(line, whole) == [line |-> line, whole |-> whole]

\* The writers of some lines go on: an action ends, a call or request is answered.
Resume(done) ==
    /\ call' = [c \in Calls |-> CASE Line(c, "action_run") \in done -> "ended"
                                  [] Line(c, "tool_call") \in done  -> "answered"
                                  [] OTHER -> call[c]]
    /\ request' = [m \in Requests |->
         IF Line(m, "request_unauthorized") \in done THEN "over" ELSE request[m]]

\* The line is in the log.
Logged(i) ==
    /\ ready = "done" /\ i \in Turn
    /\ log' = Append(log, Entry(writes[i], TRUE))
    /\ writes' = RemoveAt(writes, i)
    /\ Resume({writes[i]})
    /\ UNCHANGED <<sink, promises, printed, reported, history, stale, kills>>

\* Mutant: who wrote a line that failed is never told.
AppendStuck ==
    /\ sink = "file" /\ ready = "done" /\ writes # <<>>
    /\ reported' = reported \cup {Head(writes)}
    /\ writes' = Tail(writes)
    /\ UNCHANGED <<sink, promises, request, call, log, printed, history, stale, kills>>

\* A write of the file fails, and may leave a piece of the line.
AppendFails ==
    /\ sink = "file" /\ ready = "done" /\ writes # <<>>
    /\ log' \in {log, Append(log, Entry(Head(writes), FALSE))}
    /\ reported' = reported \cup {Head(writes)}
    /\ writes' = Tail(writes)
    /\ Resume({Head(writes)})
    /\ UNCHANGED <<sink, promises, printed, history, stale, kills>>

\* Without its directory the file cannot be written; nobody tries mkdir again.
DirectoryFails ==
    /\ sink = "file" /\ ready = "failed" /\ writes # <<>>
    /\ reported' = reported \cup {Head(writes)}
    /\ writes' = Tail(writes)
    /\ Given("directory", {Head(writes).who})
    /\ Resume({Head(writes)})
    /\ UNCHANGED <<sink, promises, log, printed, history, kills>>

\* The table cannot be created: those who wait print their lines.
TableFails ==
    /\ sink = "d1" /\ ready \in {"pending", "failed"} /\ writes # <<>>
    /\ ready' = Forgotten(ready)
    /\ printed' = printed \cup ToSet(writes)
    /\ writes' = <<>>
    /\ Given("table", {w.who : w \in ToSet(writes)})
    /\ Resume(ToSet(writes))
    /\ UNCHANGED <<sink, app, loading, log, reported, history, kills>>

\* An INSERT fails, or has no answer and is in the table all the same.
InsertFails(i) ==
    /\ sink = "d1" /\ ready = "done" /\ i \in DOMAIN writes
    /\ log' \in {log, Append(log, Entry(writes[i], TRUE))}
    /\ printed' = printed \cup {writes[i]}
    /\ writes' = RemoveAt(writes, i)
    /\ Resume({writes[i]})
    /\ UNCHANGED <<sink, promises, reported, history, stale, kills>>

-----------------------------------------------------------------------------
\* The process or isolate dies; a line that was being written may be in the log,
\* in part or whole.  A new one starts with nothing but the log.
Kill ==
    /\ kills < MaxKills
    /\ kills' = kills + 1
    /\ \/ log' = log
       \/ /\ ready = "done"
          /\ \E i \in Turn, whole \in {TRUE, sink # "file"} :
               log' = Append(log, Entry(writes[i], whole))
    /\ app' = IF sink = "file" THEN "done" ELSE "none"
    /\ loading' = [m \in Requests |-> "none"] /\ ready' = "none" /\ writes' = <<>>
    /\ request' = [m \in Requests |-> IF request[m] \in {"none", "over"} THEN request[m] ELSE "lost"]
    /\ call' = [c \in Calls |-> IF call[c] \in {"none", "answered"} THEN call[c] ELSE "lost"]
    /\ UNCHANGED <<sink, printed, history, reported, stale>>

Step ==
    \/ SetUp \/ SetUpFails
    \/ \E m \in Requests :
         \/ Authorize(m) \/ Unauthorized(m) \/ CheckFails(m)
         \/ Loaded(m) \/ LoadFails(m) \/ Respond(m)
    \/ \E c \in Calls :
         Load(c) \/ Changes(c) \/ AuditAction(c) \/ AuditCall(c)
    \/ LogReady \/ LogNotReady \/ AppendFails \/ DirectoryFails \/ TableFails
    \/ \E i \in DOMAIN writes : Logged(i) \/ InsertFails(i)

Next == Step \/ Kill \/ \E m \in Requests : Arrive(m)

\* Promises settle, the store, the tools and the log answer or fail.
Spec == Init /\ [][Next]_vars /\ WF_vars(Step)

-----------------------------------------------------------------------------
(* Properties. *)

TypeOK ==
    /\ sink \in {"file", "d1"} /\ {app, ready} \subseteq Promise
    /\ request \in [Requests -> {"none", "setup", "unauthorized", "calls", "over", "lost"}]
    /\ loading \in [Requests -> Promise]
    /\ call \in [Calls -> {"none", "called", "load", "run", "audited", "ended", "lined",
                           "answered", "lost"}]
    /\ writes \in Seq(Lines) /\ log \in Seq([line : Lines, whole : BOOLEAN])
    /\ printed \subseteq Lines /\ reported \subseteq Lines
    /\ joined \in [Requests \cup Calls -> BOOLEAN] /\ {sent, unloaded} \subseteq SUBSET Calls
    /\ stale \subseteq {"app", "load", "directory", "table"} /\ kills \in 0..MaxKills

Logs(line) == {i \in DOMAIN log : log[i].line = line}

\* A line that can be read, in the log or on the console; that was reported as
\* lost; or that was appended to a piece of another, which nobody notices.
Accounted(line) == line \in printed \cup reported \/ \E i \in Logs(line) : log[i].whole

\* "Every tool call is audited" (README.md:192), "one JSON line per tool call"
\* (docs/HOSTED.md:220), "every shopify_run_action call adds an action_run line"
\* (docs/HOSTED.md:233): a call that was answered has its line in the log, on the
\* console, or reported as lost, whatever failed and whoever wrote meanwhile; so
\* has a shopify_run_action that ended, a refused call and a dry run too, and that
\* line stands before that of the call; no line is there twice, or of a call that
\* was not made; and a store is changed without a line only by a call that goes
\* on, or that died before it could write.  The line of the action is not owed, and
\* not there, when the connections could not be read: the tool then never ran.  Of
\* a call whose arguments the SDK refuses the guard knows nothing: it is no call here.
EveryCallAudited ==
    /\ \A c \in Calls :
         /\ call[c] = "answered" => Accounted(Line(c, "tool_call"))
         /\ c \in RunActions /\ c \notin unloaded /\ call[c] \in {"ended", "lined", "answered"} =>
              Accounted(Line(c, "action_run"))
         /\ Logs(Line(c, "action_run")) # {} => c \in RunActions /\ c \notin unloaded
         /\ \A i \in Logs(Line(c, "action_run")), j \in Logs(Line(c, "tool_call")) : i < j
         /\ Logs(Line(c, "tool_call")) # {} => call[c] \in {"lined", "answered", "lost"}
    /\ \A c \in sent :
         \/ call[c] \in {"run", "audited", "ended", "lined", "lost"}
         \/ Accounted(Line(c, "tool_call"))
    /\ \A i, j \in DOMAIN log : log[i].line = log[j].line => i = j

\* A failure is not remembered: a call or request fails only by an attempt that
\* was under way when it came, never by one that had failed before.  The
\* exception is the directory of FileAuditLog: a mkdir that failed once fails
\* every line until the server is restarted.
FailureNotKept == stale \subseteq {"directory"}

\* Every request is answered, whatever its set-up, its calls or the log do,
\* unless its process dies.
EveryRequestAnswered ==
    \A m \in Requests : request[m] = "setup" ~> request[m] \in {"over", "lost"}
===============================================================================
